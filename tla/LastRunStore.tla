---------------------------- MODULE LastRunStore ----------------------------
(***************************************************************************)
(* The record that reopens the last run after a reload (lastRunStore.ts):   *)
(* one slot of an IndexedDB database (the second slot, to which a record of *)
(* another version is moved, is read by nothing), and a fence in            *)
(* localStorage that is set at once when a run is deleted, since the        *)
(* deletion itself takes a transaction.  A page's requests are answered in  *)
(* order; a page that closes loses the requests that were not executed and  *)
(* every answer it has not seen.                                            *)
(***************************************************************************)
EXTENDS Naturals, Sequences

CONSTANTS
  Nil,
  Outdated, \* a record in a format this version does not read
  Empty     \* a record without results, as earlier versions could leave

VARIABLES
  record,   \* the slot LAST_RUN_ID
  fence,    \* LAST_RUN_DELETED_FENCE
  queue,    \* the page's requests, in order
  reply,    \* how the first of them ended, until the page hears of it
  promised, \* history: the record the user was last told is saved
  gone      \* history: the serial numbers of runs the user had deleted

store == <<record, fence, queue, reply, promised, gone>>

StoreInit ==
  /\ record \in {Nil, Outdated, Empty}
  /\ fence = FALSE
  /\ queue = <<>> /\ reply = Nil
  /\ promised = Nil /\ gone = {}

Foreign == {Nil, Outdated, Empty}
SavedRun == IF record \in Foreign THEN {} ELSE {record.serial}

Request(ask, by, what) == [ask |-> ask, by |-> by, what |-> what]

Answered(ask, by, how) ==
  queue # <<>> /\ Head(queue).ask = ask /\ Head(queue).by = by /\ reply = how

-----------------------------------------------------------------------------
\* The database.

Execute(ask, what) ==
  record' = CASE ask = "put" -> what
              [] ask \in {"delete", "archive", "drop"} -> Nil
              [] ask = "get" -> record

\* A transaction takes effect as a whole, or not at all if it is aborted.
Commit ==
  /\ queue # <<>> /\ reply = Nil
  /\ Execute(Head(queue).ask, Head(queue).what)
  /\ reply' = "done"
  /\ UNCHANGED <<fence, queue, promised, gone>>

Abort ==
  /\ queue # <<>> /\ reply = Nil
  /\ reply' = "failed"
  /\ UNCHANGED <<record, fence, queue, promised, gone>>

\* Another page holds the database open: the user is told that it was not
\* deleted, and it is deleted when that page closes.
Blocked ==
  /\ queue # <<>> /\ reply = Nil
  /\ Head(queue).ask = "drop" /\ Head(queue).by # "nobody"
  /\ queue' = [queue EXCEPT ![1].by = "nobody"]
  /\ UNCHANGED <<record, fence, reply, promised, gone>>

-----------------------------------------------------------------------------
\* What the page asks for.

Heard == queue' = Tail(queue) /\ reply' = Nil

\* saveLastRun.  The previous promise ends: a put that fails deletes the record.
AskSave(what) ==
  /\ queue' = Append(queue, Request("put", "save", what))
  /\ promised' = Nil
  /\ UNCHANGED <<record, fence, reply, gone>>

\* setDeletedFence(false) comes after the put.  Mutant: the fence stays.
FenceAtSaveNever == fence
FenceAtSave == FALSE

\* Whatever else is queued by now removes the record again: clearing the cached
\* run while a run is saved, or a boot slow enough to be overtaken by a run,
\* which moves aside what it finds.  Nothing is promised then.
SaveDone ==
  /\ Answered("put", "save", "done")
  /\ Heard
  /\ fence' = FenceAtSave
  /\ promised' = IF Len(queue) = 1 THEN Head(queue).what ELSE Nil
  /\ UNCHANGED <<record, gone>>

SaveFailed ==
  /\ Answered("put", "save", "failed")
  /\ queue' = Append(Tail(queue), Request("delete", "failedSave", Nil)) /\ reply' = Nil
  /\ fence' = TRUE
  /\ UNCHANGED <<record, promised, gone>>

\* clearLastRun.  Mutant: no fence.
FencedNot == fence
Fenced == TRUE

AskClear(by) ==
  /\ queue' = Append(queue, Request("delete", by, Nil))
  /\ fence' = Fenced
  /\ promised' = Nil
  /\ gone' = gone \cup SavedRun
  /\ UNCHANGED <<record, reply>>

\* A clear that failed is reported to the user, who then knows of the record,
\* but for the one after a save that failed.
ClearAnswered(by) ==
  /\ Answered("delete", by, "done") \/ Answered("delete", by, "failed")
  /\ gone' = IF reply = "failed" /\ by # "failedSave" THEN gone \ SavedRun ELSE gone
  /\ Heard
  /\ UNCHANGED <<record, fence, promised>>

\* clearCachedRun deletes the database and leaves the fence.
AskDrop(by) ==
  /\ queue' = Append(queue, Request("drop", by, Nil))
  /\ promised' = Nil
  /\ UNCHANGED <<record, reply>>
  /\ IF by = "wipe"
     THEN fence' = FALSE /\ gone' = {}  \* resetLocalData removes the keys first
     ELSE UNCHANGED <<fence, gone>>

DropAnswered(by) ==
  /\ Answered("drop", by, "done") \/ Answered("drop", by, "failed")
  /\ Heard
  /\ UNCHANGED <<record, fence, promised, gone>>

-----------------------------------------------------------------------------
\* loadLastRunOutcome, of a page that opens with an empty queue.

AskLoad ==
  /\ queue' = <<IF fence THEN Request("delete", "boot", Nil) ELSE Request("get", "boot", Nil)>>
  /\ UNCHANGED <<record, fence, reply, promised, gone>>

\* A record that cannot be used is moved aside, and an empty one deleted, by a
\* further request.
LoadUnusable ==
  /\ Answered("get", "boot", "done") /\ record \in {Outdated, Empty}
  /\ reply' = Nil
  /\ IF record = Outdated
     THEN queue' = Append(Tail(queue), Request("archive", "boot", record)) /\ UNCHANGED fence
     ELSE queue' = Append(Tail(queue), Request("delete", "boot", Nil)) /\ fence' = TRUE
  /\ UNCHANGED <<record, promised, gone>>

LoadsRun == Answered("get", "boot", "done") /\ record \notin Foreign

LoadOver ==
  /\ \/ LoadsRun
     \/ Answered("get", "boot", "done") /\ record = Nil
     \/ Answered("get", "boot", "failed")
     \/ \E ask \in {"delete", "archive"}, how \in {"done", "failed"} : Answered(ask, "boot", how)
  /\ Heard
  /\ UNCHANGED <<record, fence, promised, gone>>

\* The page closes: what was not executed is lost.
Lose ==
  /\ queue' = <<>> /\ reply' = Nil
  /\ UNCHANGED <<record, fence, promised, gone>>

-----------------------------------------------------------------------------
\* Properties

\* "The synchronous fence closes the click-then-immediate-reload race while the
\* IndexedDB deletion is still committing" (lastRunStore.ts:346): once the user
\* was told that a run is saved, it stays in its slot with the fence down,
\* through reloads, boots and late deletions of earlier runs, until the page
\* saves or deletes again.
SavedRunIsKept == promised # Nil => record = promised /\ ~fence
=============================================================================
