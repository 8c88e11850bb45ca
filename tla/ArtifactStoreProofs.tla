------------------------ MODULE ArtifactStoreProofs ------------------------
(***************************************************************************)
(* The store keeps what it was given: the inductive invariant of           *)
(* ArtifactStore, for any forest of roots, any number of clients and any   *)
(* damage, and what follows from it.                                       *)
(***************************************************************************)
EXTENDS ArtifactStore, TLAPS, FiniteSetTheorems

\* ------------------------------------------------------------ the invariant
Empty == {NoSlot, Torn}

\* The Web Lock: who writes is alone.
WriterIsAlone ==
  \A c, d \in Client : c # d /\ Exclusive(c) => pc[d] = "idle"

\* A slot's generation says which file it is in.
SlotsByParity ==
  \A n \in SlotName : slots[n] \notin Empty => n = SlotOf(slots[n].generation)

\* Of two slots the newer one was built on the older one.
NewerBuildsOnOlder ==
  \A s, t \in Candidates : t.generation <= s.generation => t.root \in History[s.root]

\* A slot is where it was written, or the storage took it.
InPlace(s) ==
  LET n == SlotOf(s.generation)
  IN \/ slots[n] = s
     \/ slots[n] \in Empty /\ n \in hurt

Writing == {"execute", "place", "import", "commit"}

\* What the storage kept is part of the history of this slot.
Covers(s) == \A t \in Candidates : Unhurt(t) => t.root \in History[s.root]

\* The slot a writer chains onto is still there, and what it is about to
\* replace is part of that slot's history.
BaseHolds(c) ==
  pc[c] \in Writing /\ base[c] # None =>
    /\ InPlace(base[c])
    /\ Covers(base[c])

\* What a commit makes visible is stored, and its history can be read.
Committable(c) ==
  /\ Cardinality(History[target[c]]) <= MaxHistory
  /\ base[c] # None => base[c].root \in History[target[c]]

TargetHolds(c) ==
  /\ pc[c] \in {"place", "import", "commit"} => target[c] \in Root
  /\ pc[c] = "place" => Prev[target[c]] = RootOf(base[c])
  /\ pc[c] = "import" =>
       HistoryObjects(target[c]) \subseteq intact \cup todo[c] \cup hurt
  /\ pc[c] = "commit" =>
       /\ HistoryObjects(target[c]) \subseteq intact \cup hurt
       /\ base[c] = None => Candidates = {}
  /\ pc[c] \in {"import", "commit"} => Committable(c)

\* A collection takes nothing that a slot which can be recovered needs.
SweepSpares(c) ==
  pc[c] = "sweep" =>
    \A s \in Candidates : Unhurt(s) => todo[c] \cap HistoryObjects(s.root) = {}

\* A run during which nothing was damaged finds what it left.
Undisturbed(c) ==
  c \notin struck =>
    /\ pc[c] \in {"execute", "place"} =>
         /\ base[c] = None => ~RootSlotObserved
         /\ base[c] # None => HistoryIntact(base[c])
    /\ pc[c] = "place" => Closure(target[c]) \subseteq intact \cup todo[c]

\* The last completed save is in its slot and the newest; so is what it was
\* built on.
LastSaveHolds ==
  /\ acked # None =>
       InPlace(acked) /\ \A t \in Candidates : t.generation <= acked.generation
  /\ beneath # None =>
       /\ acked # None /\ acked.generation = beneath.generation + 1
       /\ beneath.root \in History[acked.root]
       /\ InPlace(beneath)

ClientHolds(c) == BaseHolds(c) /\ TargetHolds(c) /\ SweepSpares(c) /\ Undisturbed(c)

StoreHolds ==
  /\ SlotsByParity
  /\ NewerBuildsOnOlder
  /\ VisibleHistoryIsStored
  /\ HistoryStaysReadable
  /\ LastSaveHolds

IInv ==
  /\ TypeOK
  /\ WriterIsAlone
  /\ StoreHolds
  /\ ReaderIsStable
  /\ \A c \in Client : ClientHolds(c)

-----------------------------------------------------------------------------
(* Histories. *)

\* A root is in its own history.
LEMMA HistoryOfItself == ASSUME NEW r \in Root PROVE r \in History[r]
BY DEF History

\* A history holds roots only.
LEMMA HistoryIsRoots == ASSUME NEW r \in Root PROVE History[r] \subseteq Root
BY DEF History

\* What is in the history of an ancestor is in the history of its descendants.
LEMMA HistoryTransitive ==
  ASSUME NEW r \in Root, NEW q \in History[r]
  PROVE  History[q] \subseteq History[r]
<1>1. q \in Root
  BY HistoryIsRoots
<1>2. ASSUME NEW p \in History[q] PROVE p \in History[r]
  <2>1. p \in Root
    BY <1>1, <1>2, HistoryIsRoots
  <2>2. ASSUME NEW S \in SUBSET Root, r \in S, ClosedUnderPrev(S) PROVE p \in S
    <3>1. q \in S
      BY <2>2 DEF History
    <3> QED BY <1>1, <1>2, <2>2, <3>1 DEF History
  <2> QED BY <2>1, <2>2 DEF History
<1> QED BY <1>2

\* The predecessor of a root is in its history.
LEMMA PredecessorInHistory ==
  ASSUME NEW r \in Root, Prev[r] # NoRoot
  PROVE  Prev[r] \in Root /\ Prev[r] \in History[r]
<1>1. Prev[r] \in Root
  BY RootAssumption
<1> QED BY <1>1 DEF History, ClosedUnderPrev

\* A history is the root and the history of its predecessor.
LEMMA HistoryStep ==
  ASSUME NEW r \in Root, NEW rest \in SUBSET Root,
         IF Prev[r] = NoRoot THEN rest = {} ELSE rest = History[Prev[r]]
  PROVE  History[r] = {r} \cup rest
<1>1. ClosedUnderPrev({r} \cup rest)
  <2>1. CASE Prev[r] = NoRoot
    BY <2>1 DEF ClosedUnderPrev
  <2>2. CASE Prev[r] # NoRoot
    <3>1. rest = History[Prev[r]] /\ Prev[r] \in Root
      BY <2>2, RootAssumption
    <3>2. Prev[r] \in rest
      BY <3>1, HistoryOfItself
    <3>3. ASSUME NEW q \in rest, Prev[q] # NoRoot PROVE Prev[q] \in rest
      <4>1. q \in Root /\ Prev[q] \in History[q]
        BY <3>1, <3>3, HistoryIsRoots, PredecessorInHistory
      <4> QED BY <3>1, <4>1, HistoryTransitive
    <3> QED BY <3>2, <3>3 DEF ClosedUnderPrev
  <2> QED BY <2>1, <2>2
<1>2. History[r] \subseteq {r} \cup rest
  BY <1>1 DEF History
<1>3. rest \subseteq History[r]
  <2>1. CASE Prev[r] = NoRoot
    BY <2>1
  <2>2. CASE Prev[r] # NoRoot
    BY <2>2, PredecessorInHistory, HistoryTransitive
  <2> QED BY <2>1, <2>2
<1> QED BY <1>2, <1>3, HistoryOfItself

\* One more root makes a history one longer at most.
LEMMA HistoryLength ==
  ASSUME NEW r \in Root, NEW q \in Root, Prev[r] = q
  PROVE  Cardinality(History[r]) <= Cardinality(History[q]) + 1
<1>1. q # NoRoot /\ IsFiniteSet(History[q])
  BY RootAssumption, StoreAssumption
<1>2. History[r] = {r} \cup History[q]
  BY <1>1, HistoryStep, HistoryIsRoots
<1>3. Cardinality(History[q]) \in Nat
  BY <1>1, FS_CardinalityType
<1>4. Cardinality({r} \cup History[q]) \in
        {Cardinality(History[q]), Cardinality(History[q]) + 1}
  <2>1. {r} \cup History[q] = History[q] \cup {r}
    OBVIOUS
  <2> QED BY <1>1, <2>1, FS_AddElement
<1> QED BY <1>2, <1>3, <1>4

\* A history without a predecessor is the root alone.
LEMMA FirstHistory ==
  ASSUME NEW r \in Root, Prev[r] = NoRoot
  PROVE  History[r] = {r} /\ Cardinality(History[r]) = 1
<1>1. History[r] = {r} \cup {}
  BY HistoryStep
<1> QED BY <1>1, FS_Singleton

\* The objects of a history are those of its roots.
LEMMA HistoryObjectsOf ==
  ASSUME NEW r \in Root
  PROVE  /\ Closure(r) \subseteq HistoryObjects(r)
         /\ \A q \in History[r] : HistoryObjects(q) \subseteq HistoryObjects(r)
         /\ HistoryObjects(r) \subseteq Object
<1>1. Closure(r) \subseteq HistoryObjects(r)
  BY HistoryOfItself DEF HistoryObjects
<1>2. \A q \in History[r] : HistoryObjects(q) \subseteq HistoryObjects(r)
  BY HistoryTransitive DEF HistoryObjects
<1>3. \A q \in Root : Closure(q) \subseteq Object
  BY StoreAssumption DEF Closure, Object
<1> QED BY <1>1, <1>2, <1>3, HistoryIsRoots DEF HistoryObjects

\* The objects of a root built on another one.
LEMMA HistoryObjectsStep ==
  ASSUME NEW r \in Root, NEW q \in Root, Prev[r] = q
  PROVE  HistoryObjects(r) = Closure(r) \cup HistoryObjects(q)
<1>1. History[r] = {r} \cup History[q]
  BY HistoryStep, HistoryIsRoots, RootAssumption
<1> QED BY <1>1 DEF HistoryObjects

-----------------------------------------------------------------------------
(* Slots and recovery. *)

\* A generation and the next one are in different files.
LEMMA SlotsAlternate ==
  ASSUME NEW g \in Nat
  PROVE  SlotOf(g) \in SlotName /\ SlotOf(g + 1) \in SlotName /\ SlotOf(g) # SlotOf(g + 1)
<1>1. g % 2 = 1 => (g + 1) % 2 # 1
  OBVIOUS
<1>2. g % 2 # 1 => (g + 1) % 2 = 1
  OBVIOUS
<1> QED BY <1>1, <1>2 DEF SlotOf, SlotName

\* Candidates are root slots, each in one of the two files.
LEMMA CandidatesAre ==
  ASSUME TypeOK
  PROVE  /\ \A s \in Candidates : s \in RootSlot /\ s.root \in Root /\ s.generation \in Nat
         /\ \A s \in Candidates : \E n \in SlotName : slots[n] = s /\ slots[n] \notin Empty
         /\ \A n \in SlotName : slots[n] \notin Empty => slots[n] \in Candidates
<1>1. \A s \in RootSlot : s.root \in Root /\ s.generation \in Nat
  BY DEF RootSlot
<1> QED BY <1>1 DEF TypeOK, Candidates, Empty

\* The slot tried first is one of those that pass, and no other is newer.
LEMMA NewestIs ==
  ASSUME TypeOK, NEW S \in SUBSET Candidates
  PROVE  /\ S = {} => NewestOf(S) = None
         /\ S # {} => NewestOf(S) \in S /\ \A t \in S : t.generation <= NewestOf(S).generation
<1>1. CASE S = {}
  BY <1>1 DEF NewestOf
<1>2. CASE S # {}
  <2>1. \A s \in S : s.generation \in Nat /\ s \in {slots["a"], slots["b"]}
    BY CandidatesAre DEF SlotName
  <2>2. \E s \in S : \A t \in S : t.generation <= s.generation
    BY <1>2, <2>1
  <2> QED BY <1>2, <2>2 DEF NewestOf
<1> QED BY <1>1, <1>2

\* A recovery returns the newest slot whose closure is stored, if there is one.
LEMMA RecoverIs ==
  ASSUME TypeOK
  PROVE  /\ Recover \in RootSlot \cup {None}
         /\ Recover = None <=> Recoverable = {}
         /\ Recover # None =>
              /\ Recover \in Recoverable
              /\ \A t \in Recoverable : t.generation <= Recover.generation
<1>1. Recoverable \in SUBSET Candidates
  BY DEF Recoverable
<1>2. None \notin Recoverable /\ Recoverable \subseteq RootSlot
  BY <1>1, CandidatesAre, SlotAssumption
<1> QED BY <1>1, <1>2, NewestIs DEF Recover

\* So does the recovery of a head, which looks at the root alone.
LEMMA RecoverHeadIs ==
  ASSUME TypeOK
  PROVE  RecoverHead # None =>
           /\ RecoverHead \in Candidates
           /\ \A t \in Candidates : t.root \in intact => t.generation <= RecoverHead.generation
<1> DEFINE Heads == {s \in Candidates : s.root \in intact}
<1>1. Heads \in SUBSET Candidates
  OBVIOUS
<1>2. RecoverHead = NewestOf(Heads)
  BY DEF RecoverHead
<1> HIDE DEF Heads
<1>3. RecoverHead # None =>
        RecoverHead \in Heads /\ \A t \in Heads : t.generation <= RecoverHead.generation
  BY <1>1, <1>2, NewestIs
<1> QED BY <1>3 DEF Heads

\* A recovered slot covers what the storage kept.
LEMMA RecoverCovers ==
  ASSUME TypeOK, StoreHolds, Recover # None
  PROVE  Covers(Recover)
<1>1. SUFFICES ASSUME NEW t \in Candidates, Unhurt(t)
               PROVE  t.root \in History[Recover.root]
  BY DEF Covers
<1>2. t.root \in Root /\ HistoryIntact(t)
  BY <1>1, CandidatesAre DEF StoreHolds, VisibleHistoryIsStored
<1>3. t \in Recoverable
  BY <1>1, <1>2, HistoryObjectsOf DEF Recoverable, HistoryIntact
<1>4. Recover \in Candidates /\ t.generation <= Recover.generation
  BY <1>3, RecoverIs DEF Recoverable
<1> QED BY <1>1, <1>4 DEF StoreHolds, NewerBuildsOnOlder

\* What a full run chains onto is whole, and covers what the storage kept.
LEMMA RunBaseIs ==
  ASSUME TypeOK, StoreHolds
  PROVE  /\ RunBase \in RootSlot \cup {None}
         /\ RunBase # None =>
              RunBase \in Candidates /\ HistoryIntact(RunBase) /\ Covers(RunBase)
<1>1. RunBase \in {None, RecoverHead, Recover}
  BY DEF RunBase
<1>2. RunBase # None => HistoryIntact(RunBase)
  BY DEF RunBase
<1>3. CASE RunBase = None
  BY <1>3
<1>4. CASE RunBase # None /\ RunBase = Recover
  BY <1>2, <1>4, RecoverIs, RecoverCovers DEF Recoverable
<1>5. CASE RunBase # None /\ RunBase = RecoverHead
  <2>1. RunBase \in Candidates
    BY <1>5, RecoverHeadIs
  <2>2. ASSUME NEW t \in Candidates, Unhurt(t) PROVE t.root \in History[RunBase.root]
    <3>1. t.root \in Root /\ HistoryIntact(t)
      BY <2>2, CandidatesAre DEF StoreHolds, VisibleHistoryIsStored
    <3>2. t.root \in intact
      BY <3>1, HistoryObjectsOf DEF HistoryIntact, Closure
    <3>3. t.generation <= RunBase.generation
      BY <1>5, <2>2, <3>2, RecoverHeadIs
    <3> QED BY <2>1, <2>2, <3>3 DEF StoreHolds, NewerBuildsOnOlder
  <2> QED BY <1>2, <1>5, <2>1, <2>2, CandidatesAre DEF Covers
<1> QED BY <1>1, <1>3, <1>4, <1>5

\* A slot that can be tried is in its place.
LEMMA CandidateInPlace ==
  ASSUME TypeOK, SlotsByParity, NEW s \in Candidates
  PROVE  InPlace(s)
BY CandidatesAre DEF SlotsByParity, InPlace

-----------------------------------------------------------------------------
(* Steps of one client. *)

\* What an operation that begins or goes on leaves behind.
LEMMA EnterIs ==
  ASSUME TypeOK, NEW c \in Client, NEW phase \in Phase, NEW s \in RootSlot \cup {None},
         NEW r \in Root \cup {NoRoot}, NEW objects \in SUBSET Object,
         Enter(c, phase, s, r, objects)
  PROVE  /\ pc' \in [Client -> Phase] /\ base' \in [Client -> RootSlot \cup {None}]
         /\ target' \in [Client -> Root \cup {NoRoot}] /\ todo' \in [Client -> SUBSET Object]
         /\ pc'[c] = phase /\ base'[c] = s /\ target'[c] = r /\ todo'[c] = objects
         /\ \A d \in Client \ {c} :
              /\ pc'[d] = pc[d] /\ base'[d] = base[d]
              /\ target'[d] = target[d] /\ todo'[d] = todo[d]
BY DEF TypeOK, Enter

\* What an operation that ends leaves behind.
LEMMA FinishIs ==
  ASSUME TypeOK, NEW c \in Client, Finish(c)
  PROVE  /\ pc' \in [Client -> Phase] /\ base' \in [Client -> RootSlot \cup {None}]
         /\ target' \in [Client -> Root \cup {NoRoot}] /\ todo' \in [Client -> SUBSET Object]
         /\ pc'[c] = "idle" /\ struck' = struck \ {c}
         /\ \A d \in Client \ {c} :
              /\ pc'[d] = pc[d] /\ base'[d] = base[d]
              /\ target'[d] = target[d] /\ todo'[d] = todo[d]
BY DEF TypeOK, Finish, Phase

\* Nothing is asked of a client that neither writes nor collects.
LEMMA RestHolds ==
  ASSUME NEW c \in Client, pc'[c] \in {"idle", "discard", "delete", "read"}
  PROVE  ClientHolds(c)'
BY DEF ClientHolds, BaseHolds, TargetHolds, SweepSpares, Undisturbed, Writing

\* A client that leaves the store alone leaves the others alone too.
LEMMA StoreUntouched ==
  ASSUME IInv, NEW c \in Client, UNCHANGED <<intact, slots, hurt, acked, beneath, damages>>,
         pc' \in [Client -> Phase], base' \in [Client -> RootSlot \cup {None}],
         target' \in [Client -> Root \cup {NoRoot}], todo' \in [Client -> SUBSET Object],
         struck' \subseteq Client,
         \A d \in Client \ {c} :
           /\ pc'[d] = pc[d] /\ base'[d] = base[d]
           /\ target'[d] = target[d] /\ todo'[d] = todo[d]
           /\ d \in struck => d \in struck',
         pc'[c] \notin {"idle", "read"} => \A d \in Client \ {c} : pc[d] = "idle",
         pc'[c] = "read" => /\ \A d \in Client \ {c} : pc[d] \in {"idle", "read"}
                            /\ todo'[c] \subseteq intact \cup hurt,
         ClientHolds(c)'
  PROVE  IInv'
<1>1. TypeOK'
  BY DEF IInv, TypeOK
<1>2. WriterIsAlone'
  BY DEF IInv, WriterIsAlone, Exclusive
<1>3. StoreHolds'
  BY DEF IInv, StoreHolds, SlotsByParity, NewerBuildsOnOlder, VisibleHistoryIsStored,
         HistoryStaysReadable, LastSaveHolds, Candidates, Unhurt, HistoryIntact, InPlace
<1>4. ReaderIsStable'
  BY DEF IInv, ReaderIsStable
<1>5. ASSUME NEW d \in Client \ {c} PROVE ClientHolds(d)'
  <2>1. ClientHolds(d)
    BY DEF IInv
  <2> QED BY <2>1, <1>5
          DEF ClientHolds, BaseHolds, Covers, TargetHolds, Committable, SweepSpares,
              Undisturbed, Candidates, Unhurt, HistoryIntact, InPlace, RootSlotObserved
<1> QED BY <1>1, <1>2, <1>3, <1>4, <1>5 DEF IInv

\* A writer is alone, so what it does to the store is seen by nobody else.
LEMMA WriterAlone ==
  ASSUME IInv, NEW c \in Client, Exclusive(c), TypeOK', StoreHolds', pc'[c] # "read",
         \A d \in Client \ {c} : pc'[d] = pc[d],
         ClientHolds(c)'
  PROVE  IInv'
<1>1. \A d \in Client \ {c} : pc'[d] = "idle"
  BY DEF IInv, WriterIsAlone
<1>2. WriterIsAlone' /\ ReaderIsStable'
  BY <1>1 DEF WriterIsAlone, Exclusive, ReaderIsStable
<1>3. \A d \in Client \ {c} : ClientHolds(d)'
  BY <1>1, RestHolds
<1> QED BY <1>2, <1>3 DEF IInv

-----------------------------------------------------------------------------
(* The steps that leave the store alone. *)

\* The lock of a writer, and that of a reader.
LEMMA LockIsFree ==
  ASSUME NEW c \in Client
  PROVE  /\ MayLock(c, FALSE) => pc[c] = "idle" /\ \A d \in Client \ {c} : pc[d] = "idle"
         /\ MayLock(c, TRUE) => pc[c] = "idle" /\ \A d \in Client \ {c} : pc[d] \in {"idle", "read"}
BY DEF MayLock, Exclusive

\* A client that finishes asks for nothing any more.
LEMMA FinishStep ==
  ASSUME IInv, NEW c \in Client, Finish(c),
         UNCHANGED <<intact, slots, hurt, acked, beneath, damages>>
  PROVE  IInv'
<1>1. struck' = struck \ {c} /\ struck' \subseteq Client /\ pc'[c] = "idle"
  BY FinishIs DEF IInv, TypeOK
<1>2. ClientHolds(c)'
  BY <1>1, RestHolds
<1> QED BY <1>1, <1>2, FinishIs, StoreUntouched DEF IInv

\* A run starts on a whole history, or on an empty workspace.
LEMMA StartRunStep == ASSUME IInv, NEW c \in Client, StartRun(c) PROVE IInv'
<1> DEFINE phase == IF RootSlotObserved /\ RunBase = None THEN "discard" ELSE "execute"
<1>1. TypeOK /\ StoreHolds
  BY DEF IInv
<1>2. phase \in Phase /\ RunBase \in RootSlot \cup {None}
  BY <1>1, RunBaseIs DEF Phase
<1>3. Enter(c, phase, RunBase, NoRoot, {})
      /\ UNCHANGED <<intact, slots, hurt, acked, beneath, damages, struck>>
  BY DEF StartRun, ghosts
<1> HIDE DEF phase
<1>4. /\ pc' \in [Client -> Phase] /\ base' \in [Client -> RootSlot \cup {None}]
      /\ target' \in [Client -> Root \cup {NoRoot}] /\ todo' \in [Client -> SUBSET Object]
      /\ pc'[c] = phase /\ base'[c] = RunBase /\ target'[c] = NoRoot /\ todo'[c] = {}
      /\ \A d \in Client \ {c} :
           /\ pc'[d] = pc[d] /\ base'[d] = base[d]
           /\ target'[d] = target[d] /\ todo'[d] = todo[d]
  BY <1>1, <1>2, <1>3, EnterIs
<1>5. ClientHolds(c)'
  <2>1. CASE phase = "discard"
    BY <1>4, <2>1, RestHolds
  <2>2. CASE phase = "execute"
    <3>1. RunBase # None => InPlace(RunBase) /\ HistoryIntact(RunBase) /\ Covers(RunBase)
      BY <1>1, RunBaseIs, CandidateInPlace DEF StoreHolds
    <3>2. RunBase = None => ~RootSlotObserved
      BY <2>2 DEF phase
    <3>3. BaseHolds(c)'
      BY <1>3, <1>4, <3>1 DEF BaseHolds, InPlace, Covers, Candidates, Unhurt
    <3>4. TargetHolds(c)' /\ SweepSpares(c)'
      BY <1>4, <2>2 DEF TargetHolds, SweepSpares
    <3>5. Undisturbed(c)'
      BY <1>3, <1>4, <2>2, <3>1, <3>2 DEF Undisturbed, RootSlotObserved, HistoryIntact
    <3> QED BY <3>3, <3>4, <3>5 DEF ClientHolds
  <2> QED BY <2>1, <2>2 DEF phase
<1>6. \A d \in Client \ {c} : pc[d] = "idle"
  BY LockIsFree DEF StartRun
<1>7. pc'[c] # "read" /\ struck' \subseteq Client
  BY <1>1, <1>3, <1>4 DEF phase, TypeOK
<1> QED BY <1>3, <1>4, <1>5, <1>6, <1>7, StoreUntouched

\* The kernel's root is built on the recovered one.
LEMMA ExecuteStep == ASSUME IInv, NEW c \in Client, Execute(c) PROVE IInv'
<1>1. TypeOK /\ ClientHolds(c) /\ pc[c] = "execute"
  BY DEF IInv, Execute
<1>2. PICK r \in Root : Prev[r] = RootOf(base[c]) /\ Enter(c, "place", base[c], r, Closure(r))
  BY DEF Execute
<1>3. UNCHANGED <<intact, slots, hurt, acked, beneath, damages, struck>>
  BY DEF Execute, ghosts
<1>4. "place" \in Phase /\ base[c] \in RootSlot \cup {None} /\ Closure(r) \in SUBSET Object
  BY <1>1, HistoryObjectsOf DEF Phase, TypeOK
<1>5. /\ pc' \in [Client -> Phase] /\ base' \in [Client -> RootSlot \cup {None}]
      /\ target' \in [Client -> Root \cup {NoRoot}] /\ todo' \in [Client -> SUBSET Object]
      /\ pc'[c] = "place" /\ base'[c] = base[c] /\ target'[c] = r /\ todo'[c] = Closure(r)
      /\ \A d \in Client \ {c} :
           /\ pc'[d] = pc[d] /\ base'[d] = base[d]
           /\ target'[d] = target[d] /\ todo'[d] = todo[d]
  BY <1>1, <1>2, <1>4, EnterIs
<1>6. BaseHolds(c)'
  BY <1>1, <1>3, <1>5 DEF ClientHolds, BaseHolds, Writing, InPlace, Covers, Candidates, Unhurt
<1>7. TargetHolds(c)' /\ SweepSpares(c)'
  BY <1>2, <1>5 DEF TargetHolds, SweepSpares, RootOf
<1>8. Undisturbed(c)'
  BY <1>1, <1>3, <1>5 DEF ClientHolds, Undisturbed, RootSlotObserved, HistoryIntact
<1>9. \A d \in Client \ {c} : pc[d] = "idle"
  BY <1>1 DEF IInv, WriterIsAlone, Exclusive
<1>10. struck' \subseteq Client
  BY <1>1, <1>3 DEF TypeOK
<1> QED BY <1>3, <1>5, <1>6, <1>7, <1>8, <1>9, <1>10, StoreUntouched DEF ClientHolds

\* An import extends what is saved.
LEMMA StartImportStep == ASSUME IInv, NEW c \in Client, StartImport(c) PROVE IInv'
<1>1. TypeOK /\ StoreHolds
  BY DEF IInv
<1>2. PICK r \in Archive :
        /\ Cardinality(History[r]) <= MaxHistory
        /\ Recover # None => Recover.root \in History[r]
        /\ Enter(c, "import", Recover, r, HistoryObjects(r))
  BY DEF StartImport
<1>3. UNCHANGED <<intact, slots, hurt, acked, beneath, damages, struck>>
  BY DEF StartImport, ghosts
<1>4. r \in Root
  BY StoreAssumption
<1>5. "import" \in Phase /\ Recover \in RootSlot \cup {None} /\ HistoryObjects(r) \in SUBSET Object
  BY <1>1, <1>4, HistoryObjectsOf, RecoverIs DEF Phase
<1>6. /\ pc' \in [Client -> Phase] /\ base' \in [Client -> RootSlot \cup {None}]
      /\ target' \in [Client -> Root \cup {NoRoot}] /\ todo' \in [Client -> SUBSET Object]
      /\ pc'[c] = "import" /\ base'[c] = Recover /\ target'[c] = r
      /\ todo'[c] = HistoryObjects(r)
      /\ \A d \in Client \ {c} :
           /\ pc'[d] = pc[d] /\ base'[d] = base[d]
           /\ target'[d] = target[d] /\ todo'[d] = todo[d]
  BY <1>1, <1>2, <1>4, <1>5, EnterIs
<1>7. BaseHolds(c)'
  <2>1. Recover # None => InPlace(Recover) /\ Covers(Recover)
    BY <1>1, RecoverIs, RecoverCovers, CandidateInPlace DEF Recoverable, StoreHolds
  <2> QED BY <1>3, <1>6, <2>1 DEF BaseHolds, InPlace, Covers, Candidates, Unhurt
<1>8. TargetHolds(c)'
  BY <1>2, <1>4, <1>6 DEF TargetHolds, Committable, HistoryObjects
<1>9. SweepSpares(c)' /\ Undisturbed(c)'
  BY <1>6 DEF SweepSpares, Undisturbed
<1>10. (\A d \in Client \ {c} : pc[d] = "idle") /\ struck' \subseteq Client
  BY <1>1, <1>3, LockIsFree DEF StartImport, TypeOK
<1> QED BY <1>3, <1>6, <1>7, <1>8, <1>9, <1>10, StoreUntouched DEF ClientHolds

\* A collection is given what no recoverable slot needs.
LEMMA StartCollectionStep == ASSUME IInv, NEW c \in Client, StartCollection(c) PROVE IInv'
<1>1. TypeOK /\ StoreHolds
  BY DEF IInv
<1>2. Enter(c, "sweep", None, NoRoot, intact \ Retained)
      /\ UNCHANGED <<intact, slots, hurt, acked, beneath, damages, struck>>
  BY DEF StartCollection, ghosts
<1>3. "sweep" \in Phase /\ intact \ Retained \in SUBSET Object
  BY <1>1 DEF Phase, TypeOK
<1>4. /\ pc' \in [Client -> Phase] /\ base' \in [Client -> RootSlot \cup {None}]
      /\ target' \in [Client -> Root \cup {NoRoot}] /\ todo' \in [Client -> SUBSET Object]
      /\ pc'[c] = "sweep" /\ todo'[c] = intact \ Retained
      /\ \A d \in Client \ {c} :
           /\ pc'[d] = pc[d] /\ base'[d] = base[d]
           /\ target'[d] = target[d] /\ todo'[d] = todo[d]
  BY <1>1, <1>2, <1>3, EnterIs
<1>5. ASSUME NEW s \in Candidates, Unhurt(s)
      PROVE  (intact \ Retained) \cap HistoryObjects(s.root) = {}
  <2>1. s.root \in Root /\ HistoryIntact(s)
    BY <1>1, <1>5, CandidatesAre DEF StoreHolds, VisibleHistoryIsStored
  <2>2. s \in Recoverable
    BY <1>5, <2>1, HistoryObjectsOf DEF Recoverable, HistoryIntact
  <2> QED BY <2>2 DEF Retained
<1>6. SweepSpares(c)'
  BY <1>2, <1>4, <1>5 DEF SweepSpares, Candidates, Unhurt
<1>7. BaseHolds(c)' /\ TargetHolds(c)' /\ Undisturbed(c)'
  BY <1>4 DEF BaseHolds, Writing, TargetHolds, Undisturbed
<1>8. (\A d \in Client \ {c} : pc[d] = "idle") /\ struck' \subseteq Client
  BY <1>1, <1>2, LockIsFree DEF StartCollection, TypeOK
<1> QED BY <1>2, <1>4, <1>6, <1>7, <1>8, StoreUntouched DEF ClientHolds

\* A deletion has taken the lock and nothing else.
LEMMA StartDeletionStep == ASSUME IInv, NEW c \in Client, StartDeletion(c) PROVE IInv'
<1>1. Enter(c, "delete", None, NoRoot, {})
      /\ UNCHANGED <<intact, slots, hurt, acked, beneath, damages, struck>>
  BY DEF StartDeletion, ghosts
<1>2. TypeOK /\ "delete" \in Phase
  BY DEF IInv, Phase
<1>3. /\ pc' \in [Client -> Phase] /\ base' \in [Client -> RootSlot \cup {None}]
      /\ target' \in [Client -> Root \cup {NoRoot}] /\ todo' \in [Client -> SUBSET Object]
      /\ pc'[c] = "delete"
      /\ \A d \in Client \ {c} :
           /\ pc'[d] = pc[d] /\ base'[d] = base[d]
           /\ target'[d] = target[d] /\ todo'[d] = todo[d]
  BY <1>1, <1>2, EnterIs
<1>4. ClientHolds(c)'
  BY <1>3, RestHolds
<1>5. (\A d \in Client \ {c} : pc[d] = "idle") /\ struck' \subseteq Client
  BY <1>1, <1>2, LockIsFree DEF StartDeletion, TypeOK
<1> QED BY <1>1, <1>3, <1>4, <1>5, StoreUntouched

\* A reader is to read what is there.
LEMMA StartReadStep == ASSUME IInv, NEW c \in Client, StartRead(c) PROVE IInv'
<1>1. PICK r \in intact \cap Root : Enter(c, "read", None, r, Closure(r) \cap intact)
  BY DEF StartRead
<1>2. UNCHANGED <<intact, slots, hurt, acked, beneath, damages, struck>>
  BY DEF StartRead, ghosts
<1>3. TypeOK /\ "read" \in Phase /\ Closure(r) \cap intact \in SUBSET Object
  BY DEF IInv, Phase, TypeOK
<1>4. /\ pc' \in [Client -> Phase] /\ base' \in [Client -> RootSlot \cup {None}]
      /\ target' \in [Client -> Root \cup {NoRoot}] /\ todo' \in [Client -> SUBSET Object]
      /\ pc'[c] = "read" /\ todo'[c] = Closure(r) \cap intact
      /\ \A d \in Client \ {c} :
           /\ pc'[d] = pc[d] /\ base'[d] = base[d]
           /\ target'[d] = target[d] /\ todo'[d] = todo[d]
  BY <1>1, <1>3, EnterIs
<1>5. ClientHolds(c)'
  BY <1>4, RestHolds
<1>6. (\A d \in Client \ {c} : pc[d] \in {"idle", "read"}) /\ struck' \subseteq Client
  BY <1>2, <1>3, LockIsFree DEF StartRead, TypeOK
<1> QED BY <1>2, <1>4, <1>5, <1>6, StoreUntouched

-----------------------------------------------------------------------------
(* The steps that change the store. *)

\* Where a candidate of the next state comes from, when slots are only lost.
LEMMA CandidatesShrink ==
  ASSUME TypeOK, TypeOK',
         \A n \in SlotName : slots'[n] = slots[n] \/ slots'[n] \in Empty
  PROVE  Candidates' \subseteq Candidates
BY DEF Candidates, Empty

\* Whatever is lost or damaged counts as hurt, and the rest holds as before.
LEMMA StoreShrinks ==
  ASSUME TypeOK, TypeOK', StoreHolds, hurt \subseteq hurt', intact \subseteq intact' \cup hurt',
         \A n \in SlotName :
           slots'[n] = slots[n] \/ (slots'[n] \in Empty /\ (n \in hurt' \/ slots[n] \in Empty)),
         UNCHANGED <<acked, beneath>>
  PROVE  /\ StoreHolds'
         /\ Candidates' \subseteq Candidates
         /\ \A s \in RootSlot : InPlace(s) => InPlace(s)'
<1>1. Candidates' \subseteq Candidates
  BY CandidatesShrink
<1>2. \A s \in RootSlot : SlotOf(s.generation) \in SlotName
  BY SlotsAlternate DEF RootSlot
<1>3. \A s \in RootSlot : InPlace(s) => InPlace(s)'
  BY <1>2, SlotAssumption DEF InPlace, Empty
<1>4. SlotsByParity'
  BY DEF StoreHolds, SlotsByParity
<1>5. NewerBuildsOnOlder' /\ HistoryStaysReadable'
  BY <1>1 DEF StoreHolds, NewerBuildsOnOlder, HistoryStaysReadable
<1>6. VisibleHistoryIsStored'
  BY <1>1 DEF StoreHolds, VisibleHistoryIsStored, Unhurt, HistoryIntact
<1>7. LastSaveHolds'
  BY <1>1, <1>3 DEF StoreHolds, LastSaveHolds, TypeOK
<1> QED BY <1>1, <1>3, <1>4, <1>5, <1>6, <1>7 DEF StoreHolds

\* An object that is placed hurts nobody.
LEMMA PlaceObjectStep == ASSUME IInv, NEW c \in Client, PlaceObject(c) PROVE IInv'
<1>1. TypeOK /\ StoreHolds /\ ClientHolds(c) /\ pc[c] \in {"place", "import"}
  BY DEF IInv, PlaceObject
<1>2. PICK o \in todo[c] :
        intact' = intact \cup {o} /\ todo' = [todo EXCEPT ![c] = @ \ {o}]
  BY DEF PlaceObject
<1>3. UNCHANGED <<slots, pc, base, target, hurt, acked, beneath, struck, damages>>
  BY DEF PlaceObject, ghosts
<1>4. o \in Object /\ todo'[c] = todo[c] \ {o}
  BY <1>1, <1>2 DEF TypeOK
<1>5. TypeOK'
  BY <1>1, <1>2, <1>3, <1>4 DEF TypeOK
<1>6. Candidates' = Candidates
  BY <1>3 DEF Candidates
<1>7. StoreHolds'
  BY <1>1, <1>2, <1>3, <1>6 DEF StoreHolds, SlotsByParity, NewerBuildsOnOlder, LastSaveHolds,
     VisibleHistoryIsStored, HistoryStaysReadable, Unhurt, HistoryIntact, InPlace
<1>8. BaseHolds(c)'
  BY <1>1, <1>3, <1>6 DEF ClientHolds, BaseHolds, InPlace, Covers, Unhurt
<1>9. TargetHolds(c)'
  BY <1>1, <1>2, <1>3, <1>4, <1>6 DEF ClientHolds, TargetHolds, Committable
<1>10. SweepSpares(c)' /\ Undisturbed(c)'
  BY <1>1, <1>2, <1>3, <1>4 DEF ClientHolds, SweepSpares, Undisturbed, RootSlotObserved, HistoryIntact
<1> QED BY <1>1, <1>3, <1>5, <1>7, <1>8, <1>9, <1>10, WriterAlone DEF ClientHolds, Exclusive

\* What is collected is needed by no slot that can be recovered.
LEMMA SweepObjectStep == ASSUME IInv, NEW c \in Client, SweepObject(c) PROVE IInv'
<1>1. TypeOK /\ StoreHolds /\ ClientHolds(c) /\ pc[c] = "sweep"
  BY DEF IInv, SweepObject
<1>2. PICK o \in todo[c] :
        /\ intact' = intact \ {o}
        /\ \/ Finish(c)
           \/ todo' = [todo EXCEPT ![c] = @ \ {o}] /\ UNCHANGED <<pc, base, target, struck>>
  BY DEF SweepObject
<1>3. UNCHANGED <<slots, hurt, acked, beneath, damages>>
  BY DEF SweepObject
<1>4. /\ TypeOK'
      /\ \A d \in Client \ {c} : pc'[d] = pc[d]
      /\ pc'[c] = "idle" \/ (pc'[c] = "sweep" /\ todo'[c] \subseteq todo[c])
  <2>1. CASE Finish(c)
    BY <1>1, <1>2, <1>3, <2>1, FinishIs DEF TypeOK
  <2>2. CASE todo' = [todo EXCEPT ![c] = @ \ {o}] /\ UNCHANGED <<pc, base, target, struck>>
    BY <1>1, <1>2, <1>3, <2>2 DEF TypeOK
  <2> QED BY <1>2, <2>1, <2>2
<1>5. Candidates' = Candidates
  BY <1>3 DEF Candidates
<1>6. VisibleHistoryIsStored'
  BY <1>1, <1>2, <1>3, <1>5
     DEF StoreHolds, VisibleHistoryIsStored, Unhurt, HistoryIntact, ClientHolds, SweepSpares
<1>7. StoreHolds'
  BY <1>1, <1>3, <1>5, <1>6 DEF StoreHolds, SlotsByParity, NewerBuildsOnOlder, LastSaveHolds,
     HistoryStaysReadable, InPlace
<1>8. ClientHolds(c)'
  <2>1. CASE pc'[c] = "idle"
    BY <2>1, RestHolds
  <2>2. CASE pc'[c] = "sweep" /\ todo'[c] \subseteq todo[c]
    BY <1>1, <1>3, <1>5, <2>2
       DEF ClientHolds, BaseHolds, Writing, TargetHolds, SweepSpares, Undisturbed, Unhurt
  <2> QED BY <1>4, <2>1, <2>2
<1> QED BY <1>1, <1>4, <1>7, <1>8, WriterAlone DEF Exclusive

\* An erased workspace has nothing to keep.
LEMMA ErasedIs ==
  ASSUME Erased
  PROVE  /\ StoreHolds' /\ Candidates' = {} /\ ~RootSlotObserved'
         /\ intact' \subseteq Object /\ slots' \in [SlotName -> RootSlot \cup {NoSlot, Torn}]
         /\ hurt' \subseteq Object \cup SlotName /\ acked' = None /\ beneath' = None
         /\ damages' = damages
<1>1. /\ intact' = {} /\ slots' = [n \in SlotName |-> NoSlot] /\ hurt' = {}
      /\ acked' = None /\ beneath' = None /\ damages' = damages
  BY DEF Erased
<1>2. Candidates' = {} /\ ~RootSlotObserved'
  BY <1>1 DEF Candidates, RootSlotObserved
<1>3. SlotsByParity'
  BY <1>1 DEF SlotsByParity, Empty
<1>4. StoreHolds'
  BY <1>1, <1>2, <1>3
     DEF StoreHolds, NewerBuildsOnOlder, VisibleHistoryIsStored, HistoryStaysReadable, LastSaveHolds
<1> QED BY <1>1, <1>2, <1>4

\* A run that discards starts on an empty workspace.
LEMMA DiscardStep == ASSUME IInv, NEW c \in Client, Discard(c) PROVE IInv'
<1>1. TypeOK /\ pc[c] = "discard"
  BY DEF IInv, Discard
<1>2. Erased /\ Enter(c, "execute", None, NoRoot, {}) /\ struck' = struck
  BY DEF Discard
<1>3. /\ pc' \in [Client -> Phase] /\ base' \in [Client -> RootSlot \cup {None}]
      /\ target' \in [Client -> Root \cup {NoRoot}] /\ todo' \in [Client -> SUBSET Object]
      /\ pc'[c] = "execute" /\ base'[c] = None
      /\ \A d \in Client \ {c} : pc'[d] = pc[d]
  BY <1>1, <1>2, EnterIs DEF Phase
<1>4. TypeOK'
  BY <1>1, <1>2, <1>3, ErasedIs DEF TypeOK
<1>5. ClientHolds(c)'
  BY <1>2, <1>3, ErasedIs
     DEF ClientHolds, BaseHolds, TargetHolds, SweepSpares, Undisturbed
<1> QED BY <1>1, <1>2, <1>3, <1>4, <1>5, ErasedIs, WriterAlone DEF Exclusive

\* A deletion.
LEMMA DeleteWorkspaceStep == ASSUME IInv, NEW c \in Client, DeleteWorkspace(c) PROVE IInv'
<1>1. TypeOK /\ pc[c] = "delete" /\ Erased /\ Finish(c)
  BY DEF IInv, DeleteWorkspace
<1>2. TypeOK'
  BY <1>1, FinishIs, ErasedIs DEF TypeOK
<1>3. ClientHolds(c)'
  BY <1>1, FinishIs, RestHolds
<1> QED BY <1>1, <1>2, <1>3, FinishIs, ErasedIs, WriterAlone DEF Exclusive

\* A removal that ends half way hurts what it takes.
LEMMA PartlyErasedIs ==
  ASSUME TypeOK, PartlyErased
  PROVE  /\ intact' \subseteq Object /\ slots' \in [SlotName -> RootSlot \cup {NoSlot, Torn}]
         /\ hurt' \subseteq Object \cup SlotName
         /\ hurt \subseteq hurt' /\ intact \subseteq intact' \cup hurt'
         /\ \A n \in SlotName : slots'[n] = slots[n] \/ (slots'[n] \in Empty /\ n \in hurt')
<1>1. PICK gone \in SUBSET intact, lost \in SUBSET {n \in SlotName : slots[n] # NoSlot} :
        /\ intact' = intact \ gone
        /\ slots' = [n \in SlotName |-> IF n \in lost THEN NoSlot ELSE slots[n]]
        /\ hurt' = hurt \cup gone \cup lost
  BY DEF PartlyErased
<1>2. \A n \in SlotName : slots'[n] = IF n \in lost THEN NoSlot ELSE slots[n]
  BY <1>1
<1>3. slots' \in [SlotName -> RootSlot \cup {NoSlot, Torn}]
  BY <1>1 DEF TypeOK
<1> QED BY <1>1, <1>2, <1>3 DEF TypeOK, Empty

\* A client that stops leaves the store as it is, or half removed.
LEMMA StopStep == ASSUME IInv, NEW c \in Client, Stop(c) PROVE IInv'
<1>1. TypeOK /\ StoreHolds /\ Exclusive(c) /\ Finish(c) /\ UNCHANGED <<acked, beneath, damages>>
  BY DEF IInv, Stop, Exclusive
<1>2. CASE UNCHANGED <<intact, slots, hurt>>
  BY <1>1, <1>2, FinishStep
<1>3. CASE PartlyErased
  <2>1. TypeOK'
    BY <1>1, <1>3, FinishIs, PartlyErasedIs DEF TypeOK
  <2>2. StoreHolds'
    BY <1>1, <1>3, <2>1, PartlyErasedIs, StoreShrinks
  <2>3. ClientHolds(c)'
    BY <1>1, FinishIs, RestHolds
  <2> QED BY <1>1, <2>1, <2>2, <2>3, FinishIs, WriterAlone
<1> QED BY <1>2, <1>3 DEF Stop

\* The storage fails.
LEMMA DamageStep == ASSUME IInv, Damage PROVE IInv'
<1>1. TypeOK /\ StoreHolds
  BY DEF IInv
<1>2. UNCHANGED <<pc, base, target, todo, acked, beneath>> /\ damages' = damages + 1
      /\ struck' = {d \in Client : pc[d] # "idle"}
  BY DEF Damage, clientVars, Busy
<1> DEFINE Lost ==
        /\ intact' \subseteq Object /\ slots' \in [SlotName -> RootSlot \cup {NoSlot, Torn}]
           /\ hurt' \subseteq Object \cup SlotName
           /\ hurt \subseteq hurt' /\ intact \subseteq intact' \cup hurt'
           /\ \A n \in SlotName : slots'[n] = slots[n] \/ (slots'[n] \in Empty /\ n \in hurt')
<1>3. Lost
  <2>1. ASSUME NEW o \in intact, intact' = intact \ {o}, hurt' = hurt \cup {o}, slots' = slots
        PROVE  Lost
    BY <1>1, <2>1 DEF TypeOK
  <2>2. ASSUME NEW n \in SlotName, slots' = [slots EXCEPT ![n] = Torn], hurt' = hurt \cup {n},
               intact' = intact
        PROVE  Lost
    BY <1>1, <2>2 DEF TypeOK, Empty
  <2> QED BY <2>1, <2>2 DEF Damage
<1>4. TypeOK'
  BY <1>1, <1>2, <1>3 DEF TypeOK
<1>5. /\ StoreHolds' /\ Candidates' \subseteq Candidates
      /\ \A s \in RootSlot : InPlace(s) => InPlace(s)'
  BY <1>1, <1>2, <1>3, <1>4, StoreShrinks
<1>6. WriterIsAlone' /\ ReaderIsStable'
  BY <1>2, <1>3 DEF IInv, WriterIsAlone, Exclusive, ReaderIsStable
<1>7. ASSUME NEW d \in Client PROVE ClientHolds(d)'
  <2>1. ClientHolds(d) /\ base[d] \in RootSlot \cup {None}
    BY <1>1 DEF IInv, TypeOK
  <2>2. BaseHolds(d)'
    BY <1>2, <1>3, <1>5, <2>1 DEF ClientHolds, BaseHolds, Covers, Unhurt
  <2>3. TargetHolds(d)'
    BY <1>2, <1>3, <1>5, <2>1 DEF ClientHolds, TargetHolds, Committable
  <2>4. SweepSpares(d)' /\ Undisturbed(d)'
    BY <1>2, <1>3, <1>5, <2>1 DEF ClientHolds, SweepSpares, Undisturbed, Unhurt
  <2> QED BY <2>2, <2>3, <2>4 DEF ClientHolds
<1> QED BY <1>4, <1>5, <1>6, <1>7 DEF IInv

\* A wipe ends what every client does.
LEMMA WipeStep == ASSUME IInv, WipeLocalData PROVE IInv'
<1>1. TypeOK /\ StoreHolds
  BY DEF IInv
<1>2. /\ pc' = [c \in Client |-> "idle"] /\ base' = [c \in Client |-> None]
      /\ target' = [c \in Client |-> NoRoot] /\ todo' = [c \in Client |-> {}] /\ struck' = {}
  BY DEF WipeLocalData
<1>3. TypeOK' /\ StoreHolds'
  <2>1. CASE Erased
    BY <1>1, <1>2, <2>1, ErasedIs DEF TypeOK, Phase
  <2>2. CASE PartlyErased /\ UNCHANGED <<acked, beneath, damages>>
    <3>1. TypeOK'
      BY <1>1, <1>2, <2>2, PartlyErasedIs DEF TypeOK, Phase
    <3> QED BY <1>1, <2>2, <3>1, PartlyErasedIs, StoreShrinks
  <2> QED BY <2>1, <2>2 DEF WipeLocalData
<1>4. WriterIsAlone' /\ ReaderIsStable' /\ \A c \in Client : ClientHolds(c)'
  BY <1>2, RestHolds DEF WriterIsAlone, ReaderIsStable
<1> QED BY <1>3, <1>4 DEF IInv

-----------------------------------------------------------------------------
(* Commits. *)

\* What a commit that may go on chains onto.
LEMMA PreviousSlotIs ==
  ASSUME IInv, NEW c \in Client, pc[c] \in {"place", "import"}, MayCommit(c)
  PROVE  /\ PreviousSlot(c) \in RootSlot \cup {None}
         /\ base[c] # None => PreviousSlot(c) = base[c]
         /\ PreviousSlot(c) # None => InPlace(PreviousSlot(c)) /\ Covers(PreviousSlot(c))
         /\ PreviousSlot(c) = None => Candidates = {}
<1>1. TypeOK /\ StoreHolds /\ ClientHolds(c) /\ base[c] \in RootSlot \cup {None}
  BY DEF IInv, TypeOK
<1>2. CASE base[c] # None
  BY <1>1, <1>2 DEF PreviousSlot, ClientHolds, BaseHolds, Writing
<1>3. CASE base[c] = None
  <2>1. PreviousSlot(c) = Recover /\ ~RecoveryThrows
    BY <1>3 DEF PreviousSlot, MayCommit
  <2>2. Recover # None => Recover \in Candidates /\ Covers(Recover) /\ InPlace(Recover)
    BY <1>1, RecoverIs, RecoverCovers, CandidateInPlace DEF Recoverable, StoreHolds
  <2>3. Recover = None => Candidates = {}
    BY <1>1, <2>1, RecoverIs DEF RecoveryThrows, RootSlotObserved, Candidates
  <2> QED BY <1>1, <1>3, <2>1, <2>2, <2>3, RecoverIs
<1> QED BY <1>2, <1>3

\* What it makes visible is stored, short enough, and built on that.
LEMMA CommitIsWhole ==
  ASSUME IInv, NEW c \in Client, pc[c] \in {"place", "import"}, todo[c] = {}, MayCommit(c)
  PROVE  /\ target[c] \in Root
         /\ HistoryObjects(target[c]) \subseteq intact \cup hurt
         /\ Cardinality(History[target[c]]) <= MaxHistory
         /\ PreviousSlot(c) # None => PreviousSlot(c).root \in History[target[c]]
<1> DEFINE s == PreviousSlot(c)
           r == target[c]
<1>1. TypeOK /\ ClientHolds(c) /\ r \in Root /\ s \in RootSlot \cup {None}
  BY PreviousSlotIs DEF IInv, ClientHolds, TargetHolds
<1>2. /\ pc[c] = "place" => Closure(r) \subseteq intact
      /\ BuildsOn(r, s) \/ (pc[c] = "import" /\ s = None)
      /\ s # None => HistoryIntact(s)
      /\ ~AtHistoryLimit(s)
  BY DEF MayCommit
<1>3. base[c] # None => s = base[c]
  BY PreviousSlotIs
<1> HIDE DEF s, r
<1>4. ASSUME s # None PROVE s.root \in Root /\ s.root \in History[r]
  <2>1. s.root \in Root
    BY <1>1, <1>4 DEF RootSlot
  <2>2. Prev[r] = s.root \/ s.root \in History[r]
    BY <1>2, <1>4 DEF BuildsOn
  <2>3. Prev[r] = s.root => s.root \in History[r]
    BY <1>1, <2>1, PredecessorInHistory, RootAssumption
  <2> QED BY <2>1, <2>2, <2>3
<1>5. CASE pc[c] = "import"
  <2>1. /\ HistoryObjects(r) \subseteq intact \cup hurt
        /\ Cardinality(History[r]) <= MaxHistory
    BY <1>1, <1>5 DEF ClientHolds, TargetHolds, Committable, r
  <2> QED BY <1>1, <1>4, <2>1 DEF s, r
<1>6. CASE pc[c] = "place" /\ base[c] = None
  <2>1. Prev[r] = NoRoot
    BY <1>1, <1>6 DEF ClientHolds, TargetHolds, RootOf, r
  <2>2. History[r] = {r} /\ Cardinality(History[r]) = 1
    BY <1>1, <2>1, FirstHistory
  <2>3. HistoryObjects(r) \subseteq intact
    BY <1>2, <1>6, <2>2 DEF HistoryObjects
  <2>4. 1 <= MaxHistory
    BY StoreAssumption
  <2> QED BY <1>1, <1>4, <2>2, <2>3, <2>4 DEF s, r
<1>7. CASE pc[c] = "place" /\ base[c] # None
  <2>1. s # None /\ Prev[r] = s.root
    BY <1>1, <1>3, <1>7 DEF ClientHolds, TargetHolds, RootOf, r
  <2>2. s.root \in Root /\ HistoryIntact(s)
    BY <1>2, <1>4, <2>1
  <2>3. HistoryObjects(r) \subseteq intact
    BY <1>1, <1>2, <1>7, <2>1, <2>2, HistoryObjectsStep DEF HistoryIntact
  <2>4. Cardinality(History[r]) <= Cardinality(History[s.root]) + 1
    BY <1>1, <2>1, <2>2, HistoryLength
  <2>5. Cardinality(History[s.root]) \in Nat /\ Cardinality(History[r]) \in Nat
    BY <1>1, <2>2, StoreAssumption, FS_CardinalityType
  <2>6. ~(Cardinality(History[s.root]) >= MaxHistory)
    BY <1>2, <2>1 DEF AtHistoryLimit
  <2>7. Cardinality(History[r]) <= MaxHistory
    BY <2>4, <2>5, <2>6, StoreAssumption
  <2> QED BY <1>1, <1>4, <2>3, <2>7 DEF s, r
<1> QED BY <1>5, <1>6, <1>7

\* The file of the new slot is opened; the slots that can be tried stay.
LEMMA BeginCommitStep == ASSUME IInv, NEW c \in Client, BeginCommit(c) PROVE IInv'
<1> DEFINE s == PreviousSlot(c)
           n == SlotOf(GenerationAfter(s))
<1>1. TypeOK /\ StoreHolds /\ pc[c] \in {"place", "import"} /\ todo[c] = {} /\ MayCommit(c)
  BY DEF IInv, BeginCommit
<1>2. Enter(c, "commit", s, target[c], {})
      /\ slots' = [slots EXCEPT ![n] = IF @ = NoSlot THEN Torn ELSE @]
      /\ UNCHANGED <<intact, hurt, acked, beneath, struck, damages>>
  BY DEF BeginCommit, ghosts
<1>3. /\ s \in RootSlot \cup {None}
      /\ s # None => InPlace(s) /\ Covers(s)
      /\ s = None => Candidates = {}
  BY <1>1, PreviousSlotIs
<1>4. /\ target[c] \in Root
      /\ HistoryObjects(target[c]) \subseteq intact \cup hurt
      /\ Cardinality(History[target[c]]) <= MaxHistory
      /\ s # None => s.root \in History[target[c]]
  BY <1>1, CommitIsWhole
<1> HIDE DEF s, n
<1>5. /\ pc' \in [Client -> Phase] /\ base' \in [Client -> RootSlot \cup {None}]
      /\ target' \in [Client -> Root \cup {NoRoot}] /\ todo' \in [Client -> SUBSET Object]
      /\ pc'[c] = "commit" /\ base'[c] = s /\ target'[c] = target[c] /\ todo'[c] = {}
      /\ \A d \in Client \ {c} : pc'[d] = pc[d]
  BY <1>1, <1>2, <1>3, <1>4, EnterIs DEF Phase
<1>6. \A m \in SlotName :
        slots'[m] = slots[m] \/ (slots'[m] \in Empty /\ slots[m] \in Empty)
  BY <1>1, <1>2 DEF TypeOK, Empty
<1>7. TypeOK'
  BY <1>1, <1>2, <1>5 DEF TypeOK
<1>8. /\ StoreHolds' /\ Candidates' \subseteq Candidates
      /\ \A t \in RootSlot : InPlace(t) => InPlace(t)'
  BY <1>1, <1>2, <1>6, <1>7, StoreShrinks
<1>9. BaseHolds(c)'
  BY <1>2, <1>3, <1>5, <1>8 DEF BaseHolds, Covers, Unhurt
<1>10. TargetHolds(c)'
  BY <1>2, <1>3, <1>4, <1>5, <1>8 DEF TargetHolds, Committable
<1>11. SweepSpares(c)' /\ Undisturbed(c)'
  BY <1>5 DEF SweepSpares, Undisturbed
<1> QED BY <1>1, <1>5, <1>7, <1>8, <1>9, <1>10, <1>11, WriterAlone DEF ClientHolds, Exclusive

\* The new slot of a commit: where it goes, and what it leaves of the old ones.
LEMMA WrittenIs ==
  ASSUME IInv, NEW c \in Client, pc[c] = "commit", NEW new, new = NewSlot(c),
         slots' = [slots EXCEPT ![SlotOf(new.generation)] = new]
  PROVE  /\ new \in RootSlot /\ SlotOf(new.generation) \in SlotName
         /\ slots'[SlotOf(new.generation)] = new
         /\ \A m \in SlotName \ {SlotOf(new.generation)} : slots'[m] = slots[m]
         /\ Candidates' \subseteq {new} \cup (Candidates \cap {base[c]}) /\ new \in Candidates'
         /\ base[c] # None =>
              /\ new.generation = base[c].generation + 1 /\ base[c].generation \in Nat
              /\ SlotOf(base[c].generation) \in SlotName \ {SlotOf(new.generation)}
<1>1. TypeOK /\ ClientHolds(c) /\ base[c] \in RootSlot \cup {None} /\ target[c] \in Root
  BY DEF IInv, TypeOK, ClientHolds, TargetHolds
<1>2. new.generation = GenerationAfter(base[c]) /\ new.root = target[c]
      /\ new = [generation |-> GenerationAfter(base[c]), root |-> target[c]]
  BY DEF NewSlot
<1>3. GenerationAfter(base[c]) \in Nat \ {0}
  BY <1>1 DEF GenerationAfter, RootSlot
<1>4. new \in RootSlot
  BY <1>1, <1>2, <1>3 DEF RootSlot
<1>5. SlotOf(new.generation) \in SlotName
  BY <1>2, <1>3, SlotsAlternate
<1>6. /\ slots'[SlotOf(new.generation)] = new
      /\ \A m \in SlotName \ {SlotOf(new.generation)} : slots'[m] = slots[m]
  BY <1>1, <1>5 DEF TypeOK
<1>7. new \notin Empty
  BY <1>4, SlotAssumption DEF Empty
<1>8. new \in Candidates'
  BY <1>5, <1>6, <1>7 DEF Candidates, Empty
<1>9. \A t \in Candidates' :
        t = new \/ \E m \in SlotName \ {SlotOf(new.generation)} : t = slots[m] /\ t \in Candidates
  BY <1>5, <1>6 DEF Candidates, Empty
<1>10. CASE base[c] = None
  <2>1. Candidates = {}
    BY <1>1, <1>10 DEF ClientHolds, TargetHolds
  <2> QED BY <1>4, <1>5, <1>6, <1>8, <1>9, <1>10, <2>1
<1>11. CASE base[c] # None
  <2>1. base[c].generation \in Nat /\ new.generation = base[c].generation + 1
    BY <1>1, <1>2, <1>11 DEF GenerationAfter, RootSlot
  <2>2. SlotOf(base[c].generation) \in SlotName \ {SlotOf(new.generation)}
    BY <2>1, SlotsAlternate
  <2>3. \A m \in SlotName \ {SlotOf(new.generation)} : m = SlotOf(base[c].generation)
    BY <1>5, <2>2 DEF SlotName
  <2>4. InPlace(base[c])
    BY <1>1, <1>11 DEF ClientHolds, BaseHolds, Writing
  <2>5. \A t \in Candidates' : t = new \/ (t = base[c] /\ t \in Candidates)
    BY <1>9, <2>3, <2>4 DEF InPlace, Candidates, Empty
  <2> QED BY <1>4, <1>5, <1>6, <1>8, <2>1, <2>2, <2>5
<1> QED BY <1>10, <1>11

\* The new slot is the newest, and of the others its base alone is left.
LEMMA WriteSlotStep == ASSUME IInv, NEW c \in Client, WriteSlot(c) PROVE IInv'
<1>1. TypeOK /\ StoreHolds /\ ClientHolds(c) /\ pc[c] = "commit"
      /\ base[c] \in RootSlot \cup {None}
  BY DEF IInv, WriteSlot, TypeOK
<1>2. PICK new : new = NewSlot(c)
  OBVIOUS
<1>3. PICK old : old = base[c]
  OBVIOUS
<1>4. /\ slots' = [slots EXCEPT ![SlotOf(new.generation)] = new]
      /\ acked' = new /\ beneath' = old
      /\ Finish(c) /\ UNCHANGED <<intact, hurt, damages>>
  BY <1>2, <1>3 DEF WriteSlot
<1>5. /\ new.root \in Root
      /\ HistoryObjects(new.root) \subseteq intact \cup hurt
      /\ Cardinality(History[new.root]) <= MaxHistory
      /\ old # None => old.root \in History[new.root] /\ InPlace(old)
  BY <1>1, <1>2, <1>3 DEF NewSlot, ClientHolds, BaseHolds, TargetHolds, Committable, Writing
<1>6. /\ new \in RootSlot /\ SlotOf(new.generation) \in SlotName
      /\ slots'[SlotOf(new.generation)] = new
      /\ \A m \in SlotName \ {SlotOf(new.generation)} : slots'[m] = slots[m]
      /\ Candidates' \subseteq {new} \cup (Candidates \cap {old}) /\ new \in Candidates'
      /\ old # None =>
           /\ new.generation = old.generation + 1 /\ old.generation \in Nat
           /\ SlotOf(old.generation) \in SlotName \ {SlotOf(new.generation)}
  <2>1. slots' = [slots EXCEPT ![SlotOf(new.generation)] = new]
    BY <1>4
  <2> QED BY <1>1, <1>2, <1>3, <2>1, WrittenIs
<1>7. PICK left \in SUBSET ({new} \cup Candidates) : left = Candidates'
  BY <1>6
<1>8. \A t \in left : t = new \/ (t = old /\ t \in Candidates /\ old # None)
  <2>1. None \notin Candidates
    BY <1>1, CandidatesAre, SlotAssumption
  <2> QED BY <1>6, <1>7, <2>1
<1>9. TypeOK'
  <2>1. old \in RootSlot \cup {None}
    BY <1>1, <1>3
  <2> QED BY <1>1, <1>4, <1>6, <2>1, FinishIs DEF TypeOK
<1>10. SlotsByParity'
  BY <1>1, <1>6 DEF StoreHolds, SlotsByParity
<1>11. NewerBuildsOnOlder'
  <2>1. ASSUME NEW s \in left, NEW t \in left, t.generation <= s.generation
        PROVE  t.root \in History[s.root]
    <3>1. CASE s = t
      <4>1. s.root \in Root
        BY <1>1, <1>5, <1>8, <2>1, CandidatesAre
      <4> QED BY <3>1, <4>1, HistoryOfItself
    <3>2. CASE s = new /\ t = old /\ old # None
      BY <1>5, <3>2
    <3>3. CASE s = old /\ t = new /\ old # None
      BY <1>6, <2>1, <3>3
    <3> QED BY <1>8, <2>1, <3>1, <3>2, <3>3
  <2> QED BY <1>7, <2>1 DEF NewerBuildsOnOlder
<1>12. VisibleHistoryIsStored'
  <2>1. ASSUME NEW s \in left, hurt \cap HistoryObjects(s.root) = {}
        PROVE  HistoryObjects(s.root) \subseteq intact
    <3>1. CASE s = new
      BY <1>5, <2>1, <3>1
    <3>2. CASE s \in Candidates
      BY <1>1, <2>1, <3>2 DEF StoreHolds, VisibleHistoryIsStored, Unhurt, HistoryIntact
    <3> QED BY <1>8, <2>1, <3>1, <3>2
  <2> QED BY <1>4, <1>7, <2>1 DEF VisibleHistoryIsStored, Unhurt, HistoryIntact
<1>13. HistoryStaysReadable'
  <2>1. \A s \in left : Cardinality(History[s.root]) <= MaxHistory
    BY <1>1, <1>5, <1>8 DEF StoreHolds, HistoryStaysReadable
  <2> QED BY <1>7, <2>1 DEF HistoryStaysReadable
<1>14. InPlace(new)' /\ (old # None => InPlace(old)')
  <2>1. InPlace(new)'
    BY <1>6 DEF InPlace
  <2>2. ASSUME old # None PROVE InPlace(old)'
    <3>1. slots'[SlotOf(old.generation)] = slots[SlotOf(old.generation)] /\ hurt' = hurt
      BY <1>4, <1>6, <2>2
    <3> QED BY <1>5, <2>2, <3>1 DEF InPlace
  <2> QED BY <2>1, <2>2
<1>15. \A t \in left : t.generation <= new.generation
  <2>1. new.generation \in Nat
    BY <1>6 DEF RootSlot
  <2> QED BY <1>6, <1>8, <2>1
<1>16. LastSaveHolds'
  <2>1. acked' = new /\ beneath' = old
    BY <1>4
  <2>2. new # None
    BY <1>6, SlotAssumption
  <2> QED BY <1>5, <1>6, <1>7, <1>14, <1>15, <2>1, <2>2 DEF LastSaveHolds
<1>17. StoreHolds'
  BY <1>10, <1>11, <1>12, <1>13, <1>16 DEF StoreHolds
<1>18. pc'[c] = "idle" /\ \A d \in Client \ {c} : pc'[d] = pc[d]
  BY <1>1, <1>4, FinishIs
<1>19. ClientHolds(c)'
  BY <1>18, RestHolds
<1> QED BY <1>1, <1>9, <1>17, <1>18, <1>19, WriterAlone DEF Exclusive

-----------------------------------------------------------------------------
(* The invariant. *)

\* A workspace never used, and one of an earlier build, satisfy the invariant.
LEMMA InitHolds == ASSUME Init PROVE IInv
<1>1. \A c \in Client : pc[c] = "idle"
  BY DEF Init
<1>2. hurt = {} /\ acked = None /\ beneath = None
  BY DEF Init
<1>3. /\ WriterIsAlone /\ ReaderIsStable
      /\ \A c \in Client : ClientHolds(c)
  BY <1>1 DEF WriterIsAlone, Exclusive, ReaderIsStable, ClientHolds, BaseHolds, TargetHolds,
              SweepSpares, Undisturbed, Writing
<1>4. LastSaveHolds
  BY <1>2 DEF LastSaveHolds
<1>5. CASE intact = {} /\ slots = [n \in SlotName |-> NoSlot]
  <2>1. Candidates = {} /\ SlotsByParity
    BY <1>5 DEF Candidates, SlotsByParity, Empty
  <2>2. TypeOK
    BY <1>5 DEF Init, TypeOK, Phase
  <2> QED BY <1>3, <1>4, <2>1, <2>2
          DEF IInv, StoreHolds, NewerBuildsOnOlder, VisibleHistoryIsStored, HistoryStaysReadable
<1>6. CASE \E f \in Foreign :
             /\ intact = Closure(f)
             /\ slots = [n \in SlotName |->
                  IF n = "a" THEN [generation |-> 1, root |-> f] ELSE NoSlot]
  <2>1. PICK f \in Foreign :
             /\ intact = Closure(f)
             /\ slots = [n \in SlotName |->
                  IF n = "a" THEN [generation |-> 1, root |-> f] ELSE NoSlot]
    BY <1>6
  <2>2. f \in Root /\ Prev[f] = NoRoot /\ intact \subseteq Object
    BY <2>1, StoreAssumption DEF Closure, Object
  <2>3. PICK s : s = [generation |-> 1, root |-> f]
    OBVIOUS
  <2>4. s \in RootSlot /\ s.generation = 1 /\ s.root = f
    BY <2>2, <2>3 DEF RootSlot
  <2>5. slots = [n \in SlotName |-> IF n = "a" THEN s ELSE NoSlot]
    BY <2>1, <2>3
  <2>6. TypeOK
    BY <2>2, <2>4, <2>5 DEF Init, TypeOK, Phase, SlotName
  <2>7. Candidates \subseteq {s}
    BY <2>5 DEF Candidates
  <2>8. SlotsByParity
    BY <2>4, <2>5 DEF SlotsByParity, SlotOf, SlotName, Empty
  <2>9. History[f] = {f} /\ Cardinality(History[f]) = 1 /\ 1 <= MaxHistory
    BY <2>2, FirstHistory, StoreAssumption
  <2>10. NewerBuildsOnOlder /\ HistoryStaysReadable
    BY <2>4, <2>7, <2>9 DEF NewerBuildsOnOlder, HistoryStaysReadable
  <2>11. HistoryObjects(f) = intact
    BY <2>1, <2>9 DEF HistoryObjects
  <2>12. VisibleHistoryIsStored
    BY <2>4, <2>7, <2>11 DEF VisibleHistoryIsStored, HistoryIntact
  <2> QED BY <1>3, <1>4, <2>6, <2>8, <2>10, <2>12 DEF IInv, StoreHolds
<1> QED BY <1>5, <1>6 DEF Init

\* No step of a client, of the storage or of a wipe breaks it.
LEMMA StepHolds == ASSUME IInv, [Next]_vars PROVE IInv'
<1>1. ASSUME NEW c \in Client, StartRun(c) PROVE IInv'
  BY <1>1, StartRunStep
<1>2. ASSUME NEW c \in Client, Discard(c) PROVE IInv'
  BY <1>2, DiscardStep
<1>3. ASSUME NEW c \in Client, Execute(c) PROVE IInv'
  BY <1>3, ExecuteStep
<1>4. ASSUME NEW c \in Client, PlaceObject(c) PROVE IInv'
  BY <1>4, PlaceObjectStep
<1>5. ASSUME NEW c \in Client, BeginCommit(c) PROVE IInv'
  BY <1>5, BeginCommitStep
<1>6. ASSUME NEW c \in Client, RefuseCommit(c) PROVE IInv'
  BY <1>6, FinishStep DEF RefuseCommit
<1>7. ASSUME NEW c \in Client, WriteSlot(c) PROVE IInv'
  BY <1>7, WriteSlotStep
<1>8. ASSUME NEW c \in Client, StartImport(c) PROVE IInv'
  BY <1>8, StartImportStep
<1>9. ASSUME NEW c \in Client, StartCollection(c) PROVE IInv'
  BY <1>9, StartCollectionStep
<1>10. ASSUME NEW c \in Client, SweepObject(c) PROVE IInv'
  BY <1>10, SweepObjectStep
<1>11. ASSUME NEW c \in Client, StartDeletion(c) PROVE IInv'
  BY <1>11, StartDeletionStep
<1>12. ASSUME NEW c \in Client, DeleteWorkspace(c) PROVE IInv'
  BY <1>12, DeleteWorkspaceStep
<1>13. ASSUME NEW c \in Client, StartRead(c) PROVE IInv'
  BY <1>13, StartReadStep
<1>14. ASSUME NEW c \in Client, FinishRead(c) PROVE IInv'
  BY <1>14, FinishStep DEF FinishRead
<1>15. ASSUME NEW c \in Client, Stop(c) PROVE IInv'
  BY <1>15, StopStep
<1>16. CASE Damage
  BY <1>16, DamageStep
<1>17. CASE WipeLocalData
  BY <1>17, WipeStep
<1>18. CASE UNCHANGED vars
  BY <1>18
     DEF vars, IInv, TypeOK, WriterIsAlone, Exclusive, StoreHolds, SlotsByParity,
         NewerBuildsOnOlder, VisibleHistoryIsStored, HistoryStaysReadable, LastSaveHolds,
         ReaderIsStable, ClientHolds, BaseHolds, Covers, TargetHolds, Committable, SweepSpares,
         Undisturbed, Candidates, Unhurt, HistoryIntact, InPlace, RootSlotObserved
<1> QED BY <1>1, <1>2, <1>3, <1>4, <1>5, <1>6, <1>7, <1>8, <1>9, <1>10, <1>11, <1>12, <1>13,
           <1>14, <1>15, <1>16, <1>17, <1>18 DEF Next

\* The invariant of the store holds of every workspace, whatever is stopped,
\* damaged, collected, imported, deleted or wiped.
THEOREM Invariance == Spec => []IInv
<1>1. Init => IInv
  BY InitHolds
<1>2. IInv /\ [Next]_vars => IInv'
  BY StepHolds
<1> QED BY <1>1, <1>2, PTL DEF Spec

\* Every state of the store is well typed.
THEOREM TypeCorrect == Spec => []TypeOK
<1>1. IInv => TypeOK
  BY DEF IInv
<1> QED BY <1>1, Invariance, PTL

\* A slot that can be seen has its whole history stored, but for damage
\* (putObject before the slot, garbageCollectRuntimeObjects), and no history is
\* longer than a recovery reads (MAX_HISTORY_ROOTS).
THEOREM SlotsNameWhatIsReadable == Spec => []VisibleHistoryIsReadable
<1>1. IInv => VisibleHistoryIsReadable
  BY DEF IInv, StoreHolds, VisibleHistoryIsReadable
<1> QED BY <1>1, Invariance, PTL

\* What a reader found stays while it holds the shared lock.
THEOREM ReadersAreStable == Spec => []ReaderIsStable
<1>1. IInv => ReaderIsStable
  BY DEF IInv
<1> QED BY <1>1, Invariance, PTL

-----------------------------------------------------------------------------
(* Durability. *)

\* A save that is in its place and whole is recovered, or one built on it is.
LEMMA KeptSlotIsRecovered ==
  ASSUME TypeOK, StoreHolds, NEW s \in RootSlot, InPlace(s), Unhurt(s),
         SlotOf(s.generation) \notin hurt
  PROVE  Recover # None /\ s.root \in History[Recover.root]
<1>1. s.root \in Root /\ s.generation \in Nat /\ SlotOf(s.generation) \in SlotName
  BY SlotsAlternate DEF RootSlot
<1>2. slots[SlotOf(s.generation)] = s /\ s \notin Empty
  BY SlotAssumption DEF InPlace, Empty
<1>3. s \in Candidates
  BY <1>1, <1>2, CandidatesAre
<1>4. s \in Recoverable
  BY <1>1, <1>3, HistoryObjectsOf
     DEF Recoverable, StoreHolds, VisibleHistoryIsStored, HistoryIntact
<1>5. Recover # None
  BY <1>4, RecoverIs
<1> QED BY <1>3, <1>5, RecoverCovers DEF Covers

\* The last completed save is what reopening the workspace shows, or what that
\* was built on, until the storage fails (the slot is written last, and never
\* over the slot it was based on).
THEOREM SavesAreDurable == Spec => []SaveIsDurable
<1>1. ASSUME IInv PROVE SaveIsDurable
  <2>1. TypeOK /\ StoreHolds
    BY <1>1 DEF IInv
  <2>2. ASSUME acked # None, Unhurt(acked), hurt \cap SlotName = {}
        PROVE  Recover # None /\ acked.root \in History[Recover.root]
    <3>1. acked \in RootSlot /\ InPlace(acked)
      BY <2>1, <2>2 DEF TypeOK, StoreHolds, LastSaveHolds
    <3>2. SlotOf(acked.generation) \in SlotName
      BY <3>1, SlotsAlternate DEF RootSlot
    <3> QED BY <2>1, <2>2, <3>1, <3>2, KeptSlotIsRecovered
  <2> QED BY <2>2 DEF SaveIsDurable
<1> QED BY <1>1, Invariance, PTL

\* The save before it is what is left when the newest is damaged ("one
\* torn/corrupt slot must not prevent recovery from the other").
THEOREM FallbacksSurvive == Spec => []FallbackSurvives
<1>1. ASSUME IInv PROVE FallbackSurvives
  <2>1. TypeOK /\ StoreHolds
    BY <1>1 DEF IInv
  <2>2. ASSUME beneath # None, Unhurt(beneath),
               hurt \cap SlotName \subseteq {SlotOf(acked.generation)}
        PROVE  Recover # None /\ beneath.root \in History[Recover.root]
    <3>1. /\ beneath \in RootSlot /\ InPlace(beneath)
          /\ acked.generation = beneath.generation + 1
      BY <2>1, <2>2 DEF TypeOK, StoreHolds, LastSaveHolds
    <3>2. /\ SlotOf(beneath.generation) \in SlotName
          /\ SlotOf(beneath.generation) # SlotOf(acked.generation)
      BY <3>1, SlotsAlternate DEF RootSlot
    <3> QED BY <2>1, <2>2, <3>1, <3>2, KeptSlotIsRecovered
  <2> QED BY <2>2 DEF FallbackSurvives
<1> QED BY <1>1, Invariance, PTL

\* What a commit is about to write is built on every undamaged root it replaces.
LEMMA CommitCovers ==
  ASSUME IInv, NEW c \in Client, pc[c] = "commit", NEW t \in Candidates, Unhurt(t)
  PROVE  t.root \in History[target[c]]
<1>1. ClientHolds(c) /\ target[c] \in Root /\ base[c] \in RootSlot \cup {None}
  BY DEF IInv, TypeOK, ClientHolds, TargetHolds
<1>2. base[c] # None
  BY <1>1 DEF ClientHolds, TargetHolds
<1>3. t.root \in History[base[c].root] /\ base[c].root \in History[target[c]]
  BY <1>1, <1>2 DEF ClientHolds, BaseHolds, Covers, Writing, TargetHolds, Committable
<1> QED BY <1>1, <1>3, HistoryTransitive

\* No save replaces an undamaged root it was not built on
\* (commitPersistedRuntimeWorkspace, whatever slot it was handed).
THEOREM SavesDoNotClobber == Spec => NoClobber
<1> DEFINE Step == \A c \in Client, n \in SlotName :
                     WriteSlot(c) /\ slots'[n] # slots[n] /\ slots[n] \in RootSlot
                       /\ Unhurt(slots[n]) /\ n \notin hurt
                     => slots[n].root \in History[target[c]]
<1>1. ASSUME IInv PROVE Step
  <2>1. SUFFICES ASSUME NEW c \in Client, NEW n \in SlotName, WriteSlot(c),
                        slots[n] \in RootSlot, Unhurt(slots[n])
                 PROVE  slots[n].root \in History[target[c]]
    OBVIOUS
  <2>2. slots[n] \in Candidates
    BY <1>1, <2>1, CandidatesAre, SlotAssumption DEF IInv, Empty
  <2> QED BY <1>1, <2>1, <2>2, CommitCovers DEF WriteSlot
<1>2. IInv /\ [Next]_vars => [Step]_vars
  BY <1>1
<1> QED BY <1>2, Invariance, PTL DEF Spec, NoClobber

\* A full run during which nothing was damaged, and whose history is not at its
\* limit, can commit: nothing a store may hold keeps a file from being processed.
THEOREM RunsAreNotBlocked == Spec => RunIsNotBlocked
<1> DEFINE Step == \A c \in Client :
                     RefuseCommit(c) /\ pc[c] = "place"
                     => c \in struck \/ AtHistoryLimit(PreviousSlot(c))
<1>1. ASSUME IInv PROVE Step
  <2>1. SUFFICES ASSUME NEW c \in Client, pc[c] = "place", todo[c] = {}, c \notin struck,
                        ~AtHistoryLimit(PreviousSlot(c))
                 PROVE  MayCommit(c)
    BY DEF RefuseCommit
  <2>2. TypeOK /\ ClientHolds(c) /\ target[c] \in Root
    BY <1>1, <2>1 DEF IInv, ClientHolds, TargetHolds
  <2>3. /\ Prev[target[c]] = RootOf(base[c])
        /\ Closure(target[c]) \subseteq intact
    BY <2>1, <2>2 DEF ClientHolds, TargetHolds, Undisturbed
  <2>4. CASE base[c] = None
    <3>1. ~RootSlotObserved
      BY <2>1, <2>2, <2>4 DEF ClientHolds, Undisturbed
    <3>2. Candidates = {}
      BY <3>1 DEF RootSlotObserved, Candidates
    <3>3. PreviousSlot(c) = None
      BY <2>2, <2>4, <3>2, RecoverIs DEF PreviousSlot, Recoverable
    <3> QED BY <2>1, <2>3, <2>4, <3>1, <3>3 DEF MayCommit, RecoveryThrows, BuildsOn, RootOf
  <2>5. CASE base[c] # None
    <3>1. HistoryIntact(base[c])
      BY <2>1, <2>2, <2>5 DEF ClientHolds, Undisturbed
    <3>2. PreviousSlot(c) = base[c]
      BY <2>5 DEF PreviousSlot
    <3> QED BY <2>1, <2>3, <2>5, <3>1, <3>2 DEF MayCommit, BuildsOn, RootOf
  <2> QED BY <2>4, <2>5
<1>2. IInv /\ [Next]_vars => [Step]_vars
  BY <1>1
<1> QED BY <1>2, Invariance, PTL DEF Spec, RunIsNotBlocked

-----------------------------------------------------------------------------
(* The store implements one durable head. *)

Head == RootOf(Recover)

\* The histories of the abstract specification are those of the store.
LEMMA SameHistory == D!History = History
BY DEF D!History, History, D!ClosedUnderPrev, ClosedUnderPrev

\* An undamaged store recovers every slot it has, so its newest.
LEMMA WholeStore ==
  IInv /\ hurt = {} =>
    /\ Recover = NewestOf(Candidates)
    /\ Candidates = {} => Recover = None
    /\ Candidates # {} =>
         Recover \in Candidates /\ \A t \in Candidates : t.generation <= Recover.generation
<1> SUFFICES ASSUME IInv, hurt = {}
             PROVE  Recoverable = Candidates /\ TypeOK
  BY RecoverIs DEF Recover
<1>1. TypeOK /\ \A s \in Candidates : HistoryIntact(s)
  BY DEF IInv, StoreHolds, VisibleHistoryIsStored, Unhurt
<1> QED BY <1>1, CandidatesAre, HistoryObjectsOf DEF Recoverable, HistoryIntact

\* And so in the next state.
LEMMA WholeStoreNext ==
  (IInv /\ hurt = {} =>
     /\ Recover = NewestOf(Candidates)
     /\ Candidates = {} => Recover = None
     /\ Candidates # {} =>
          Recover \in Candidates /\ \A t \in Candidates : t.generation <= Recover.generation)'
BY WholeStore, PTL

\* The head of an undamaged store depends on the slots that can be tried.
LEMMA HeadStays ==
  ASSUME IInv, IInv', hurt = {}, hurt' = {}, Candidates' = Candidates
  PROVE  Head' = Head
<1>1. Recover = NewestOf(Candidates)
  BY WholeStore
<1>2. Recover' = NewestOf(Candidates')
  BY WholeStoreNext
<1> QED BY <1>1, <1>2 DEF Head

\* A step of the abstract specification.
HeadStep ==
  \/ \E r \in Root : (Head = NoRoot \/ Head \in History[r]) /\ Head' = r
       /\ hurt = {} /\ hurt' = {}
  \/ Head' = NoRoot /\ hurt' = {}
  \/ Head' = Head /\ hurt = {} /\ hurt' = {}
  \/ hurt' # {}

\* An erased store has no head.
LEMMA ErasedStep == ASSUME IInv', Erased PROVE HeadStep
<1>1. Candidates' = {} /\ hurt' = {}
  BY ErasedIs DEF Erased
<1>2. Recover' = None
  BY <1>1, WholeStoreNext
<1> QED BY <1>1, <1>2 DEF HeadStep, Head, RootOf

\* Of an undamaged store a removal that ends half way takes nothing.
LEMMA PartlyErasedStep ==
  ASSUME IInv, IInv', PartlyErased
  PROVE  HeadStep
<1>1. PICK gone \in SUBSET intact, lost \in SUBSET {n \in SlotName : slots[n] # NoSlot} :
        /\ slots' = [n \in SlotName |-> IF n \in lost THEN NoSlot ELSE slots[n]]
        /\ hurt' = hurt \cup gone \cup lost
  BY DEF PartlyErased
<1>2. CASE hurt' # {}
  BY <1>2 DEF HeadStep
<1>3. CASE hurt' = {}
  <2>1. hurt = {} /\ lost = {}
    BY <1>1, <1>3
  <2>2. \A n \in SlotName : slots'[n] = slots[n]
    BY <1>1, <2>1
  <2>3. Candidates' = Candidates
    BY <2>2 DEF Candidates
  <2> QED BY <1>3, <2>1, <2>3, HeadStays DEF HeadStep
<1> QED BY <1>2, <1>3

\* A step that leaves the slots that can be tried, and adds no damage.
LEMMA StillStep ==
  ASSUME IInv, IInv', Candidates' = Candidates, hurt' = hurt
  PROVE  HeadStep
<1>1. CASE hurt = {}
  BY <1>1, HeadStays DEF HeadStep
<1>2. CASE hurt # {}
  BY <1>2 DEF HeadStep
<1> QED BY <1>1, <1>2

\* A commit opens a slot's file, which nothing can be recovered from yet.
LEMMA OpenedSlotStep ==
  ASSUME IInv, IInv', NEW c \in Client, BeginCommit(c)
  PROVE  HeadStep
<1> DEFINE n == SlotOf(GenerationAfter(PreviousSlot(c)))
<1>1. slots' = [slots EXCEPT ![n] = IF @ = NoSlot THEN Torn ELSE @] /\ hurt' = hurt
  BY DEF BeginCommit, ghosts
<1> HIDE DEF n
<1>2. \A m \in SlotName :
        slots'[m] = slots[m] \/ (slots'[m] \in Empty /\ slots[m] \in Empty)
  BY <1>1 DEF IInv, TypeOK, Empty
<1>3. Candidates' = Candidates
  BY <1>2 DEF Candidates, Empty
<1> QED BY <1>1, <1>3, StillStep

\* Writing the slot is the save: the head becomes a root built on the head.
LEMMA WrittenSlotStep ==
  ASSUME IInv, IInv', NEW c \in Client, WriteSlot(c)
  PROVE  HeadStep
<1>1. PICK new : new = NewSlot(c)
  OBVIOUS
<1>2. PICK old : old = base[c]
  OBVIOUS
<1>3. /\ pc[c] = "commit" /\ hurt' = hurt
      /\ slots' = [slots EXCEPT ![SlotOf(new.generation)] = new]
      /\ new.root = target[c]
  BY <1>1 DEF WriteSlot, NewSlot
<1>4. CASE hurt # {}
  BY <1>3, <1>4 DEF HeadStep
<1>5. CASE hurt = {}
  <2>1. /\ new \in RootSlot
        /\ Candidates' \subseteq {new} \cup (Candidates \cap {old}) /\ new \in Candidates'
        /\ old # None => new.generation = old.generation + 1 /\ old.generation \in Nat
    <3>1. slots' = [slots EXCEPT ![SlotOf(new.generation)] = new] /\ pc[c] = "commit"
      BY <1>3
    <3> QED BY <1>1, <1>2, <3>1, WrittenIs
  <2>2. Recover' \in Candidates' /\ \A t \in Candidates' : t.generation <= Recover'.generation
    BY <1>3, <1>5, <2>1, WholeStoreNext
  <2>3. Recover' = new
    <3>1. new.generation <= Recover'.generation /\ Recover' \in {new, old}
      BY <2>1, <2>2
    <3>2. None \notin Candidates /\ (Recover' = new \/ Recover' \in Candidates)
      BY <2>1, <2>2, CandidatesAre, SlotAssumption DEF IInv
    <3> QED BY <2>1, <3>1, <3>2
  <2>4. Head' = target[c] /\ target[c] \in Root
    BY <1>3, <2>1, <2>3, SlotAssumption DEF Head, RootOf, RootSlot
  <2>5. Head = NoRoot \/ Head \in History[target[c]]
    <3>1. CASE Recover = None
      BY <3>1 DEF Head, RootOf
    <3>2. CASE Recover # None
      <4>1. Recover \in Candidates /\ Unhurt(Recover)
        BY <1>5, <3>2, RecoverIs DEF IInv, Recoverable, Unhurt
      <4>2. Recover.root \in History[target[c]]
        BY <1>3, <4>1, CommitCovers
      <4> QED BY <3>2, <4>2 DEF Head, RootOf
    <3> QED BY <3>1, <3>2
  <2> QED BY <1>3, <1>5, <2>4, <2>5 DEF HeadStep
<1> QED BY <1>4, <1>5

\* Every step saves, erases, damages or leaves the head.
LEMMA EveryStep == ASSUME IInv, IInv', [Next]_vars PROVE HeadStep
<1>1. ASSUME UNCHANGED slots, hurt' = hurt PROVE HeadStep
  <2>1. Candidates' = Candidates
    BY <1>1 DEF Candidates
  <2> QED BY <1>1, <2>1, StillStep
<1>2. ASSUME NEW c \in Client,
             \/ StartRun(c) \/ Execute(c) \/ PlaceObject(c) \/ StartImport(c)
             \/ StartCollection(c) \/ StartDeletion(c) \/ StartRead(c)
      PROVE  HeadStep
  BY <1>1, <1>2 DEF StartRun, Execute, PlaceObject, StartImport, StartCollection,
                    StartDeletion, StartRead, ghosts
<1>3. ASSUME NEW c \in Client, RefuseCommit(c) \/ SweepObject(c) \/ FinishRead(c) PROVE HeadStep
  BY <1>1, <1>3 DEF RefuseCommit, SweepObject, FinishRead
<1>4. ASSUME NEW c \in Client, Discard(c) \/ DeleteWorkspace(c) PROVE HeadStep
  BY <1>4, ErasedStep DEF Discard, DeleteWorkspace
<1>5. ASSUME NEW c \in Client, BeginCommit(c) PROVE HeadStep
  BY <1>5, OpenedSlotStep
<1>6. ASSUME NEW c \in Client, WriteSlot(c) PROVE HeadStep
  BY <1>6, WrittenSlotStep
<1>7. ASSUME NEW c \in Client, Stop(c) PROVE HeadStep
  <2>1. PartlyErased \/ (slots' = slots /\ hurt' = hurt)
    BY <1>7 DEF Stop
  <2> QED BY <1>1, <2>1, PartlyErasedStep
<1>8. CASE Damage
  <2>1. hurt' # {}
    BY <1>8 DEF Damage
  <2> QED BY <2>1 DEF HeadStep
<1>9. CASE WipeLocalData
  BY <1>9, ErasedStep, PartlyErasedStep DEF WipeLocalData
<1>10. CASE UNCHANGED vars
  BY <1>1, <1>10 DEF vars
<1> QED BY <1>2, <1>3, <1>4, <1>5, <1>6, <1>7, <1>8, <1>9, <1>10 DEF Next

\* The objects, the two slots and the lock implement one durable head, whoever
\* stops at whatever step, until the storage fails (opfsArtifactStore.ts).
THEOREM StoreImplementsDurableHead == Spec => ImplementsDurableHead
<1>1. Init => D!Init
  <2>1. ASSUME Init PROVE Head \in Root \cup {NoRoot} /\ hurt = {}
    <3>1. TypeOK /\ hurt = {}
      BY <2>1, InitHolds DEF IInv, Init
    <3> QED BY <3>1, RecoverIs DEF Head, RootOf, RootSlot
  <2> QED BY <2>1 DEF D!Init, Head
<1>2. IInv /\ IInv' /\ [Next]_vars => [D!Save \/ D!Erase \/ D!Fault]_(D!vars)
  <2> SUFFICES ASSUME IInv, IInv', [Next]_vars
               PROVE  D!Save \/ D!Erase \/ D!Fault \/ UNCHANGED D!vars
    OBVIOUS
  <2>1. HeadStep
    BY EveryStep
  <2>2. CASE hurt' # {}
    BY <2>2 DEF D!Fault
  <2>3. CASE hurt' = {} /\ Head' = NoRoot
    BY <2>3 DEF D!Erase, Head
  <2>4. CASE hurt' = {} /\ hurt = {} /\ Head' = Head
    BY <2>4 DEF D!vars, Head
  <2>5. CASE /\ hurt' = {} /\ hurt = {} /\ Head' # Head
             /\ \E r \in Root : (Head = NoRoot \/ Head \in History[r]) /\ Head' = r
    <3>1. PICK r \in Root : (Head = NoRoot \/ Head \in History[r]) /\ Head' = r
      BY <2>5
    <3> QED BY <2>5, <3>1, SameHistory DEF D!Save, Head
  <2> QED BY <2>1, <2>2, <2>3, <2>4, <2>5 DEF HeadStep
<1> QED BY <1>1, <1>2, Invariance, PTL DEF Spec, ImplementsDurableHead, D!Spec
=============================================================================
