--------------------------- MODULE ArtifactStore ---------------------------
(***************************************************************************)
(* A persisted workspace: the content-addressed objects and the two        *)
(* alternating root slots of web/src/lib/opfsArtifactStore.ts, and the     *)
(* operations of web/src/lib/rustPipelineRuntime.ts on them (a full run,   *)
(* an import, a garbage collection, a deletion, a read), each by a client  *)
(* that holds the workspace's Web Lock.                                    *)
(*                                                                         *)
(* The store makes no difference between an object that is missing and one *)
(* whose bytes do not match its digest: `intact` is the set of the others. *)
(* A client may stop at any step, because its tab is gone or because a     *)
(* write threw; either way its lock is released and the store stays as it  *)
(* is.  Recovery only reads and runs under the lock, so it is one step.    *)
(***************************************************************************)
EXTENDS RootHistory

CONSTANTS
  Client,     \* workers of any tab that may use the workspace
  Artifact,   \* objects other than roots
  Arts,       \* the artifacts a root's closure lists
  Foreign,    \* roots saved under another runtime protocol
  Archive,    \* heads of the closure archives a user may import
  MaxHistory, \* MAX_HISTORY_ROOTS
  MaxDamage,  \* bound on the objects and slots that storage damages
  ErasureMayStop, \* a recursive removal may end half way
  Wipes,      \* resetLocalData may run, in any tab
  NoSlot, Torn, None

Object == Root \cup Artifact
SlotName == {"a", "b"}

ASSUME StoreAssumption ==
  /\ Root \cap Artifact = {}
  /\ Arts \in [Root -> SUBSET Artifact]
  /\ Foreign \subseteq Root
  /\ \A r \in Foreign : Prev[r] = NoRoot
  /\ Archive \subseteq Root \ Foreign
  /\ MaxHistory \in Nat \ {0} /\ MaxDamage \in Nat
  /\ ErasureMayStop \in BOOLEAN /\ Wipes \in BOOLEAN
  \* A digest chain ends.
  /\ \A r \in Root : IsFiniteSet(History[r])

VARIABLES
  intact,  \* objects stored with the bytes their digest names
  slots,   \* root-a.json and root-b.json
  pc,      \* what each client is doing
  base,    \* the slot a client recovered (None: it recovered nothing)
  target,  \* the root a client saves or reads
  todo,    \* the objects it has still to place, delete or read
  hurt,    \* ghost: objects and slots that storage damaged or lost
  acked,   \* ghost: the slot of the last completed save
  beneath, \* ghost: the slot that save was based on
  struck,  \* ghost: clients at work when the storage was damaged
  damages  \* how often that happened

clientVars == <<pc, base, target, todo>>
ghosts == <<hurt, acked, beneath, struck, damages>>
vars == <<intact, slots, pc, base, target, todo, hurt, acked, beneath, struck, damages>>

RootSlot == [generation: Nat \ {0}, root: Root]

ASSUME SlotAssumption == None \notin RootSlot /\ {NoSlot, Torn} \cap RootSlot = {}

\* "discard" precedes a run, "delete" is the user's; the rest name the loop or
\* the write in progress.
Phase == {"idle", "discard", "delete", "execute", "place", "import", "commit", "sweep", "read"}

\* ------------------------------------------------------------ reading a store
Closure(r) == {r} \cup Arts[r]

\* The digests of collectCommittedHistoryFromObjects.
HistoryObjects(r) == UNION {Closure(q) : q \in History[r]}

Candidates == {slots[n] : n \in SlotName} \ {NoSlot, Torn}
RootSlotObserved == \E n \in SlotName : slots[n] # NoSlot

\* Mutant: the older slot is tried first.
OldestOf(S) ==
  IF S = {} THEN None
  ELSE CHOOSE s \in S : \A t \in S : s.generation <= t.generation

\* The candidate tried first among those that pass a check, or None.
NewestOf(S) ==
  IF S = {} THEN None
  ELSE CHOOSE s \in S : \A t \in S : t.generation <= s.generation

Recoverable == {s \in Candidates : Closure(s.root) \subseteq intact}
Recover == NewestOf(Recoverable)
RecoverHead == NewestOf({s \in Candidates : s.root \in intact})
RecoveryThrows == RootSlotObserved /\ Recoverable = {}

HistoryIntact(s) == HistoryObjects(s.root) \subseteq intact

\* Mutant of RunBase: the head's history is not read.
UnverifiedHead ==
  IF RecoverHead = None \/ RecoverHead.root \in Foreign THEN None ELSE RecoverHead

\* What a full run chains onto: the verified head, or the slot below a damaged
\* head; otherwise it discards the workspace.
RunBase ==
  LET newest == RecoverHead
      fallback == Recover
  IN IF newest = None \/ newest.root \in Foreign THEN None
     ELSE IF HistoryIntact(newest) THEN newest
     ELSE IF fallback = None \/ fallback = newest \/ ~HistoryIntact(fallback) THEN None
     ELSE fallback

RootOf(s) == IF s = None THEN NoRoot ELSE s.root
GenerationAfter(s) == IF s = None THEN 1 ELSE s.generation + 1
\* Mutant: one slot takes every save.
OneSlot(g) == IF g > 0 THEN "a" ELSE "b"
SlotOf(g) == IF g % 2 = 1 THEN "a" ELSE "b"

\* ------------------------------------------------------------ the lock
Exclusive(c) == pc[c] \notin {"idle", "read"}
\* Mutants: no lock at all; a writer does not wait for readers.
NoLock(c, shared) == pc[c] = "idle"
IgnoringReaders(c, shared) ==
  pc[c] = "idle" /\ \A d \in Client \ {c} : ~Exclusive(d)
MayLock(c, shared) ==
  /\ pc[c] = "idle"
  /\ \A d \in Client \ {c} : IF shared THEN ~Exclusive(d) ELSE pc[d] = "idle"

\* The client ends its operation and releases the lock.
Finish(c) ==
  /\ pc' = [pc EXCEPT ![c] = "idle"]
  /\ base' = [base EXCEPT ![c] = None]
  /\ target' = [target EXCEPT ![c] = NoRoot]
  /\ todo' = [todo EXCEPT ![c] = {}]
  /\ struck' = struck \ {c}

Enter(c, phase, s, r, objects) ==
  /\ pc' = [pc EXCEPT ![c] = phase]
  /\ base' = [base EXCEPT ![c] = s]
  /\ target' = [target EXCEPT ![c] = r]
  /\ todo' = [todo EXCEPT ![c] = objects]

\* ------------------------------------------------------------ initial states
\* A workspace that was never used, or one that an earlier build saved to.
Init ==
  /\ \/ intact = {} /\ slots = [n \in SlotName |-> NoSlot]
     \/ \E f \in Foreign :
          /\ intact = Closure(f)
          /\ slots = [n \in SlotName |->
               IF n = "a" THEN [generation |-> 1, root |-> f] ELSE NoSlot]
  /\ pc = [c \in Client |-> "idle"]
  /\ base = [c \in Client |-> None]
  /\ target = [c \in Client |-> NoRoot]
  /\ todo = [c \in Client |-> {}]
  /\ hurt = {} /\ acked = None /\ beneath = None /\ struck = {} /\ damages = 0

\* ------------------------------------------------------------ a full run
\* previous-root-recovery of executeRustRuntimeUnlocked.
StartRun(c) ==
  /\ MayLock(c, FALSE)
  /\ Enter(c, IF RootSlotObserved /\ RunBase = None THEN "discard" ELSE "execute",
           RunBase, NoRoot, {})
  /\ UNCHANGED <<intact, slots, ghosts>>

Erased ==
  /\ intact' = {} /\ slots' = [n \in SlotName |-> NoSlot]
  /\ hurt' = {} /\ acked' = None /\ beneath' = None
  /\ UNCHANGED damages

Discard(c) ==
  /\ pc[c] = "discard"
  /\ Erased
  /\ Enter(c, "execute", None, NoRoot, {})
  /\ UNCHANGED struck

\* The kernel builds a root on the one it was given.
Execute(c) ==
  /\ pc[c] = "execute"
  /\ \E r \in Root \ Foreign :
       /\ Prev[r] = RootOf(base[c])
       /\ Enter(c, "place", base[c], r, Closure(r))
  /\ UNCHANGED <<intact, slots, ghosts>>

\* putObject: an object stored intact is left alone, any other is rewritten and
\* verified.
PlaceObject(c) ==
  /\ pc[c] \in {"place", "import"}
  /\ \E o \in todo[c] :
       /\ intact' = intact \cup {o}
       /\ todo' = [todo EXCEPT ![c] = @ \ {o}]
  /\ UNCHANGED <<slots, pc, base, target, ghosts>>

\* commitPersistedRuntimeWorkspace takes the slot it was given, or recovers.
PreviousSlot(c) == IF base[c] # None THEN base[c] ELSE Recover

\* The head's own predecessor, or an ancestor of an imported head.
BuildsOn(r, s) ==
  IF s = None THEN Prev[r] = NoRoot ELSE Prev[r] = s.root \/ s.root \in History[r]

\* Mutant: the limit is noticed one root late.
PastHistoryLimit(s) == s # None /\ Cardinality(History[s.root]) > MaxHistory
AtHistoryLimit(s) == s # None /\ Cardinality(History[s.root]) >= MaxHistory

MayCommit(c) ==
  LET s == PreviousSlot(c)
  IN /\ pc[c] = "place" => Closure(target[c]) \subseteq intact
     /\ base[c] = None => ~RecoveryThrows
     /\ BuildsOn(target[c], s) \/ (pc[c] = "import" /\ s = None)
     /\ s # None => HistoryIntact(s)
     /\ ~AtHistoryLimit(s)

\* Everything before the slot is written.  Opening the file creates it.
BeginCommit(c) ==
  /\ pc[c] \in {"place", "import"} /\ todo[c] = {}
  /\ MayCommit(c)
  /\ LET s == PreviousSlot(c)
         n == SlotOf(GenerationAfter(s))
     IN /\ Enter(c, "commit", s, target[c], {})
        /\ slots' = [slots EXCEPT ![n] = IF @ = NoSlot THEN Torn ELSE @]
  /\ UNCHANGED <<intact, ghosts>>

RefuseCommit(c) ==
  /\ pc[c] \in {"place", "import"} /\ todo[c] = {}
  /\ ~MayCommit(c)
  /\ Finish(c)
  /\ UNCHANGED <<intact, slots, hurt, acked, beneath, damages>>

NewSlot(c) == [generation |-> GenerationAfter(base[c]), root |-> target[c]]

\* Closing the stream replaces the file at once.
WriteSlot(c) ==
  /\ pc[c] = "commit"
  /\ slots' = [slots EXCEPT ![SlotOf(NewSlot(c).generation)] = NewSlot(c)]
  /\ acked' = NewSlot(c) /\ beneath' = base[c]
  /\ Finish(c)
  /\ UNCHANGED <<intact, hurt, damages>>

\* ------------------------------------------------------------ import
\* importRuntimeClosure, the archive being verified: it returns or throws
\* without a write unless the archive extends what is saved.
StartImport(c) ==
  /\ MayLock(c, FALSE)
  /\ ~RecoveryThrows
  /\ \E r \in Archive :
       /\ RootOf(Recover) # r
       /\ Cardinality(History[r]) <= MaxHistory
       /\ Recover # None => Recover.root \in History[r]
       /\ Enter(c, "import", Recover, r, HistoryObjects(r))
  /\ UNCHANGED <<intact, slots, ghosts>>

\* ------------------------------------------------------------ collection
\* Mutants: what one slot reaches is kept; only the root of each slot is kept.
RetainedByOneSlot ==
  UNION {HistoryObjects(s.root) : s \in {t \in Recoverable : t = OldestOf(Recoverable)}}
RetainedHeads == UNION {Closure(s.root) : s \in Recoverable}
Retained == UNION {HistoryObjects(s.root) : s \in Recoverable}

StartCollection(c) ==
  /\ MayLock(c, FALSE)
  /\ ~RecoveryThrows
  /\ \A s \in Recoverable : HistoryIntact(s)
  /\ intact \ Retained # {}
  /\ Enter(c, "sweep", None, NoRoot, intact \ Retained)
  /\ UNCHANGED <<intact, slots, ghosts>>

SweepObject(c) ==
  /\ pc[c] = "sweep"
  /\ \E o \in todo[c] :
       /\ intact' = intact \ {o}
       /\ IF todo[c] = {o} THEN Finish(c)
          ELSE /\ todo' = [todo EXCEPT ![c] = @ \ {o}]
               /\ UNCHANGED <<pc, base, target, struck>>
  /\ UNCHANGED <<slots, hurt, acked, beneath, damages>>

\* ------------------------------------------------------------ deletion
StartDeletion(c) ==
  /\ MayLock(c, FALSE)
  /\ Enter(c, "delete", None, NoRoot, {})
  /\ UNCHANGED <<intact, slots, ghosts>>

DeleteWorkspace(c) ==
  /\ pc[c] = "delete"
  /\ Erased
  /\ Finish(c)

\* ------------------------------------------------------------ reading
\* A read of a pinned root, or a review query: the objects that are there when
\* it gets the lock are those it may go on to read.
StartRead(c) ==
  /\ MayLock(c, TRUE)
  /\ \E r \in intact \cap Root :
       Enter(c, "read", None, r, Closure(r) \cap intact)
  /\ UNCHANGED <<intact, slots, ghosts>>

FinishRead(c) ==
  /\ pc[c] = "read"
  /\ Finish(c)
  /\ UNCHANGED <<intact, slots, hurt, acked, beneath, damages>>

\* ------------------------------------------------------------ failures
\* A recursive removal that does not run to its end leaves any part behind.
PartlyErased ==
  \E gone \in SUBSET intact, lost \in SUBSET {n \in SlotName : slots[n] # NoSlot} :
    /\ intact' = intact \ gone
    /\ slots' = [n \in SlotName |-> IF n \in lost THEN NoSlot ELSE slots[n]]
    /\ hurt' = hurt \cup gone \cup lost

Stop(c) ==
  /\ pc[c] \notin {"idle", "read"}
  /\ IF pc[c] \in {"discard", "delete"} /\ ErasureMayStop THEN PartlyErased
     ELSE UNCHANGED <<intact, slots, hurt>>
  /\ Finish(c)
  /\ UNCHANGED <<acked, beneath, damages>>

Busy == {c \in Client : pc[c] # "idle"}

\* The storage loses or corrupts an object or a root slot.
Damage ==
  /\ damages < MaxDamage
  /\ \/ \E o \in intact :
          intact' = intact \ {o} /\ hurt' = hurt \cup {o} /\ UNCHANGED slots
     \/ \E n \in SlotName :
          /\ slots[n] \notin {NoSlot, Torn}
          /\ slots' = [slots EXCEPT ![n] = Torn]
          /\ hurt' = hurt \cup {n} /\ UNCHANGED intact
  /\ damages' = damages + 1
  /\ struck' = Busy
  /\ UNCHANGED <<clientVars, acked, beneath>>

\* resetLocalData takes no lock.  The handles of a client at work go stale, so
\* that whatever it does next throws.
WipeLocalData ==
  /\ Wipes
  /\ \/ Erased
     \/ PartlyErased /\ UNCHANGED <<acked, beneath, damages>>
  /\ pc' = [c \in Client |-> "idle"]
  /\ base' = [c \in Client |-> None]
  /\ target' = [c \in Client |-> NoRoot]
  /\ todo' = [c \in Client |-> {}]
  /\ struck' = {}

Next ==
  \/ \E c \in Client :
       \/ StartRun(c) \/ Discard(c) \/ Execute(c) \/ PlaceObject(c)
       \/ BeginCommit(c) \/ RefuseCommit(c) \/ WriteSlot(c)
       \/ StartImport(c)
       \/ StartCollection(c) \/ SweepObject(c)
       \/ StartDeletion(c) \/ DeleteWorkspace(c)
       \/ StartRead(c) \/ FinishRead(c)
       \/ Stop(c)
  \/ Damage
  \/ WipeLocalData

Spec == Init /\ [][Next]_vars

\* ------------------------------------------------------------ properties
\* Types of the store, of the clients at work on it and of the ghosts.
TypeOK ==
  /\ intact \subseteq Object
  /\ slots \in [SlotName -> RootSlot \cup {NoSlot, Torn}]
  /\ pc \in [Client -> Phase]
  /\ base \in [Client -> RootSlot \cup {None}]
  /\ target \in [Client -> Root \cup {NoRoot}]
  /\ todo \in [Client -> SUBSET Object]
  /\ hurt \subseteq Object \cup SlotName
  /\ acked \in RootSlot \cup {None} /\ beneath \in RootSlot \cup {None}
  /\ struck \subseteq Client
  /\ damages \in Nat

Unhurt(s) == hurt \cap HistoryObjects(s.root) = {}

\* A root slot becomes visible only after its whole history is stored, and no
\* collection, import or interrupted save takes an object of that history away
\* while the slot can be recovered: objects before roots, and garbage is what
\* neither slot reaches (putObject, garbageCollectRuntimeObjects).
VisibleHistoryIsStored ==
  \A s \in Candidates : Unhurt(s) => HistoryIntact(s)

\* Reopening the workspace shows the last completed save or one built on it,
\* whatever save, import or collection was interrupted since (the root slot is
\* written last, and never over the slot it was based on).
SaveIsDurable ==
  acked # None /\ Unhurt(acked) /\ hurt \cap SlotName = {} =>
    /\ Recover # None
    /\ acked.root \in History[Recover.root]

\* Damage to the newest save alone costs that save alone: the one it was based
\* on is recovered, also when a later save into the damaged slot is cut short
\* ("one torn/corrupt slot must not prevent recovery from the other").
FallbackSurvives ==
  beneath # None /\ Unhurt(beneath) /\ hurt \cap SlotName \subseteq {SlotOf(acked.generation)} =>
    /\ Recover # None
    /\ beneath.root \in History[Recover.root]

\* No commit makes a head whose history is too long to be read again: the check
\* before the slot is written counts the root about to be added.
HistoryStaysReadable ==
  \A s \in Candidates : Cardinality(History[s.root]) <= MaxHistory

\* What a reader needs of a slot that it can see: a history that is whole, unless
\* the storage lost part of it, and no longer than a recovery reads.
VisibleHistoryIsReadable == VisibleHistoryIsStored /\ HistoryStaysReadable

\* What a reader found under the shared lock stays while it reads: no run,
\* import, collection or deletion comes between.
ReaderIsStable ==
  \A c \in Client : pc[c] = "read" => todo[c] \subseteq intact \cup hurt

\* A save never replaces an undamaged root that it was not built on.
NoClobber ==
  [][\A c \in Client, n \in SlotName :
       WriteSlot(c) /\ slots'[n] # slots[n] /\ slots[n] \in RootSlot
         /\ Unhurt(slots[n]) /\ n \notin hurt
       => slots[n].root \in History[target[c]]]_vars

\* A saved run never keeps a file from being processed: what the store holds
\* cannot make the commit of a full run fail, but for the history limit or
\* damage done while it ran.
RunIsNotBlocked ==
  [][\A c \in Client :
       RefuseCommit(c) /\ pc[c] = "place"
       => c \in struck \/ AtHistoryLimit(PreviousSlot(c))]_vars

\* A whole history that a full run could build on.
Usable == {s \in Candidates : HistoryIntact(s) /\ s.root \notin Foreign}
Discarding(c) == StartRun(c) /\ pc'[c] = "discard"

\* "Full recovery then selects the prior independent slot"
\* (rustPipelineRuntime.ts:4442): no usable slot is discarded.
PriorSlotIsSelected == [][\A c \in Client : Discarding(c) => Usable = {}]_vars

\* ------------------------------------------------------------ refinement
D == INSTANCE DurableHead WITH head <- RootOf(Recover), damaged <- (hurt # {})

\* The objects, the two slots and the lock implement one durable head, whatever
\* client stops at whatever step, as long as the storage keeps what it was given.
ImplementsDurableHead == D!Spec
=============================================================================
