----------------------------- MODULE SpillFiles -----------------------------
(***************************************************************************)
(* The spill files of all workers of the origin, of every tab: a worker     *)
(* creates its file and then opens it, which locks it; Worker.terminate     *)
(* runs no teardown, so files outlive their workers until another worker's  *)
(* stale sweep, or the deletion of local data, removes them                 *)
(* (openPayloadSpill, removeStaleSpills, removePayloadSpillFiles).          *)
(***************************************************************************)
EXTENDS FiniteSets

CONSTANTS
  Worker,
  Nil  \* no sweep, or no entry: not a worker

VARIABLES
  phase,   \* off, booting (file created), open (handle held), unspilled, ended
  files,   \* workers whose file exists
  aged,    \* workers whose file was last modified before the boot window
  sweep,   \* a worker's sweep: the entries it has still to visit
  checked  \* the entry a sweep found old and is about to remove

vars == <<phase, files, aged, sweep, checked>>

Init ==
  /\ phase = [w \in Worker |-> "off"]
  /\ files = {}
  /\ aged = {}
  /\ sweep = [w \in Worker |-> Nil]
  /\ checked = [w \in Worker |-> Nil]

Locked(w) == phase[w] = "open"
Running(w) == phase[w] \in {"booting", "open", "unspilled"}

\* getFileHandle(name, {create: true})
Boot(w) ==
  /\ phase[w] = "off"
  /\ phase' = [phase EXCEPT ![w] = "booting"]
  /\ files' = files \cup {w}
  /\ UNCHANGED <<aged, sweep, checked>>

\* createSyncAccessHandle, and the sweep every boot begins with; without its
\* file the worker runs with everything in memory.
Open(w) ==
  /\ phase[w] = "booting"
  /\ IF w \in files
     THEN /\ phase' = [phase EXCEPT ![w] = "open"]
          /\ sweep' = [sweep EXCEPT ![w] = files \ {w}]
     ELSE phase' = [phase EXCEPT ![w] = "unspilled"] /\ UNCHANGED sweep
  /\ UNCHANGED <<files, aged, checked>>

\* A processed file is followed by another sweep.
\* Mutant: workers sweep at boot only.
SweepAgainNever(w) == FALSE /\ UNCHANGED vars
SweepAgain(w) ==
  /\ phase[w] = "open" /\ sweep[w] = Nil
  /\ sweep' = [sweep EXCEPT ![w] = files \ {w}]
  /\ UNCHANGED <<phase, files, aged, checked>>

\* The boot window passes for a file nobody writes; a worker opens its handle
\* well within it.
Age(w) ==
  /\ w \in files \ aged
  /\ phase[w] # "booting"
  /\ aged' = aged \cup {w}
  /\ UNCHANGED <<phase, files, sweep, checked>>

\* A spill touches the file again.
Write(w) ==
  /\ phase[w] = "open" /\ w \in aged
  /\ aged' = aged \ {w}
  /\ UNCHANGED <<phase, files, sweep, checked>>

\* The page ends the worker, in any phase: the lock goes, the file stays.
Terminate(w) ==
  /\ Running(w)
  /\ phase' = [phase EXCEPT ![w] = "ended"]
  /\ sweep' = [sweep EXCEPT ![w] = Nil]
  /\ checked' = [checked EXCEPT ![w] = Nil]
  /\ UNCHANGED <<files, aged>>

\* Whether an entry is past the boot window.  Mutant: its age is not looked at.
StaleAlways(f) == TRUE
Stale(f) == f \in aged

SweepVisit(w, f) ==
  /\ sweep[w] # Nil /\ checked[w] = Nil
  /\ f \in sweep[w]
  /\ sweep' = [sweep EXCEPT ![w] = @ \ {f}]
  /\ checked' = [checked EXCEPT ![w] = IF f \in files /\ Stale(f) THEN f ELSE Nil]
  /\ UNCHANGED <<phase, files, aged>>

\* removeEntry refuses a file that somebody holds open.
Removable(f) == f \in files /\ ~Locked(f)

SweepRemove(w) ==
  /\ checked[w] # Nil
  /\ IF Removable(checked[w])
     THEN files' = files \ {checked[w]} /\ aged' = aged \ {checked[w]}
     ELSE UNCHANGED <<files, aged>>
  /\ checked' = [checked EXCEPT ![w] = Nil]
  /\ UNCHANGED <<phase, sweep>>

SweepEnd(w) ==
  /\ sweep[w] = {} /\ checked[w] = Nil
  /\ sweep' = [sweep EXCEPT ![w] = Nil]
  /\ UNCHANGED <<phase, files, aged, checked>>

\* removePayloadSpillFiles takes one file after the other, if nobody holds it
\* open, whatever its age.
DeleteFile(f) ==
  /\ f \in files /\ ~Locked(f)
  /\ files' = files \ {f}
  /\ aged' = aged \ {f}
  /\ UNCHANGED <<phase, sweep, checked>>

SweepStep(w) == SweepRemove(w) \/ SweepEnd(w) \/ \E f \in Worker : SweepVisit(w, f)

Next ==
  \/ \E w \in Worker :
       \/ Boot(w) \/ Open(w) \/ SweepAgain(w) \/ Age(w) \/ Write(w)
       \/ Terminate(w) \/ SweepStep(w) \/ DeleteFile(w)

Spec == Init /\ [][Next]_vars

\* Time passes, a sweep that began goes on, and an open worker that is never
\* ended keeps finishing files.
Fairness ==
  \A w \in Worker : WF_vars(Age(w)) /\ WF_vars(SweepStep(w)) /\ WF_vars(SweepAgain(w))

-----------------------------------------------------------------------------
\* Properties

\* "Files younger than the boot window are therefore left alone"
\* (payloadSpill.ts:255): no sweep takes the file of a worker that boots, in
\* whatever tab; only the deletion of local data does.
SweepSparesBooting ==
  [][\A w \in Worker : phase[w] = "booting" /\ w \in files /\ w \notin files'
       => DeleteFile(w)]_vars

\* The file of an ended worker is reclaimed if another worker stays open.
EndedFilesReclaimed ==
  \A w, v \in Worker :
    (phase[w] = "ended" /\ [](phase[v] = "open")) ~> w \notin files
=============================================================================
