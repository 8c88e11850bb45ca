--------------------------- MODULE BatchRunProofs ---------------------------
(***************************************************************************)
(* Proofs about a page, its batches and the record of its last run, for any *)
(* files, digests, lanes, heap sizes and budgets, any number of runs and of *)
(* requests, and a page that may close at any await.                        *)
(***************************************************************************)
EXTENDS BatchRun, SequenceTheorems, FiniteSetTheorems, TLAPS

-----------------------------------------------------------------------------
(* The inductive invariant.                                                 *)

\* A key is computed when it is first claimed.
KeysStart == \A k \in Key : started[k] = IF computation[k] = "none" THEN 0 ELSE 1

On == {l \in Lane : lane[l] # "off"}
AtWork == On \cup (IF resumed = Nil THEN {} ELSE {resumed})

\* Lanes are at work in a batch only, and each on a file of its own.
LanesAtWork ==
  /\ page # "running" => On = {} /\ Quiet
  /\ page \notin {"running", "saving"} => Idle
  /\ \A l, m \in Lane : lane[l] # "off" /\ lane[l] = lane[m] => l = m
  /\ resumed # Nil => lane[resumed] = "off" /\ ~cancelled

\* While there are files to take, the lanes are those counted, and one is left
\* to take them.
SomeLaneGoesOn ==
  page = "running" =>
    /\ target >= 1
    /\ ~cancelled /\ MoreFiles => /\ active = Cardinality(AtWork)
                                  /\ spawning \/ active >= 1

\* What became of the file at a place of the schedule.
Untouched(f) == row[f] = "pending" /\ \A l \in Lane : lane[l] # f
Taken(f) == row[f] = "running" /\ \E l \in Lane : lane[l] = f
Over(f) == (row[f] \in {"complete", "error"} \/ cancelled) /\ \A l \in Lane : lane[l] # f

\* Results of one configuration.
Under(values, s) == \A f \in File : values[f] # Nil => s # Nil /\ values[f] = Result(f, s)

FilesProgress ==
  /\ page = "preparing" => row = AllRows("pending") /\ ~tallied
  /\ page = "running" =>
       /\ ~tallied /\ bound # Nil /\ Under(next, bound)
       /\ \A i \in 1..Len(Schedule) :
            IF i >= cursor THEN Untouched(Schedule[i])
            ELSE Taken(Schedule[i]) \/ Over(Schedule[i])
       /\ \A f \in File : (row[f] = "complete" <=> next[f] # Nil) /\ row[f] # "cancelled"
  /\ page = "saving" =>
       /\ ~tallied
       /\ \A f \in File :
            /\ row[f] = "complete" <=> results[f] # Nil
            /\ row[f] # "cancelled"
            /\ row[f] \in {"complete", "error"} \/ cancelled

\* The rows after a batch, and while one file is retried.
Tally ==
  tallied =>
    /\ page \in {"idle", "retrying", "resaving"}
    /\ \A f \in File :
         /\ row[f] = "complete" <=> results[f] # Nil
         /\ \/ row[f] \in {"complete", "error"}
            \/ row[f] = "cancelled" /\ cancelled
            \/ row[f] = "running" /\ page = "retrying"
    /\ page = "retrying" =>
         \A f, g \in File : row[f] = "running" /\ row[g] = "running" => f = g

\* The page and the record show one configuration, and where they show the same
\* run the same results.
Configured ==
  /\ Under(results, under)
  /\ record \notin Foreign =>
       /\ Under(record.results, record.settings)
       /\ record.serial <= serial
       /\ shown = record.serial => record.results = results /\ record.settings = under
  /\ shown # Nil => shown <= serial

\* What a page asks for itself it waits for; what it asks to put is what it shows.
Own == {"save", "failedSave", "batch"}
Waits ==
  /\ \A i \in 1..Len(queue) :
       /\ queue[i].by \in Own => page \in {"saving", "resaving"}
       /\ queue[i].ask = "get" => i = 1
       /\ queue[i].ask = "put" => /\ queue[i].what.serial = serial /\ shown = serial
                                  /\ queue[i].what.results = results
                                  /\ queue[i].what.settings = under
                                  /\ serial \notin gone
  /\ \A i, j \in 1..Len(queue) : queue[i].by \in Own /\ queue[j].by \in Own => i = j
  /\ page = "closed" => queue = <<>> /\ shown = Nil
  /\ queue = <<>> => reply = Nil
  /\ reply = "done" /\ queue # <<>> /\ Head(queue).ask = "put" => record = Head(queue).what

\* A boot shows nothing until it has loaded.
BootLoads ==
  /\ page = "closed" => ~selected /\ results = NoResults
  /\ loading =>
       /\ page = "idle" /\ ~selected /\ results = NoResults /\ shown = Nil /\ ~tallied
       /\ queue # <<>> /\ Head(queue).ask = "get" /\ record \notin Foreign =>
            record.serial \notin gone

\* A deleted run is fenced.
Fencing ==
  /\ gone \subseteq 0..serial
  /\ record \notin Foreign /\ record.serial \in gone => fence
  /\ shown \notin gone

\* A promise: nothing asked for can change the record.
Promise ==
  promised # Nil =>
    /\ record = promised /\ promised \in Runs /\ ~fence
    /\ queue # <<>> => Len(queue) = 1 /\ Head(queue).ask = "get"

StoreInv == Configured /\ Waits /\ BootLoads /\ Fencing /\ Promise
LaneInv == KeysStart /\ LanesAtWork /\ SomeLaneGoesOn /\ FilesProgress /\ Tally

BatchInv == TypeOK /\ LaneInv /\ StoreInv

-----------------------------------------------------------------------------
(* Constants, runs and requests.                                            *)

LEMMA Marks ==
  /\ Nil \notin Nat /\ Nil \notin Results /\ Nil \notin Lane /\ Nil \notin Settings
  /\ Nil \in Foreign /\ Nil \notin Runs /\ Nil # "done" /\ Nil # "failed"
  /\ \A r \in Runs : r \notin Foreign
  /\ \A f \in File : f # "off"
BY MarksAssumption DEF Foreign, Lane

\* What is recorded of a run.
LEMMA Recorded ==
  ASSUME NEW values \in Collections, NEW s \in Settings, NEW n \in Nat
  PROVE  /\ Record(values, s, n) \in Runs
         /\ Record(values, s, n).results = values
         /\ Record(values, s, n).settings = s
         /\ Record(values, s, n).serial = n
BY DEF Record, Runs

\* A result of a file is one.
LEMMA ResultIs ==
  ASSUME NEW f \in File, NEW s \in Settings
  PROVE  Result(f, s) \in Results /\ Result(f, s) # Nil
<1>1. Result(f, s) \in Results
  BY DEF Result, Results, Key
<1> QED BY <1>1, Marks

\* The kinds of requests.
LEMMA RequestIs ==
  ASSUME NEW r \in Requests
  PROVE  /\ r.ask \in {"put", "delete", "drop", "get", "archive"}
         /\ r.ask = "put" <=> r.by = "save"
         /\ r.by \in {"failedSave", "batch"} => r.ask = "delete"
         /\ r.ask = "put" => r.what \in Runs
         /\ r.ask = "get" => r.by = "boot"
BY DEF Requests

\* The head of a queue.
LEMMA HeadIs ==
  ASSUME TypeOK, queue # <<>>
  PROVE  /\ Head(queue) = queue[1] /\ queue[1] \in Requests
         /\ 1 \in 1..Len(queue) /\ Len(queue) \in Nat /\ Len(queue) >= 1
<1>1. queue \in Seq(Requests) /\ Len(queue) \in Nat \ {0}
  BY EmptySeq DEF TypeOK, StoreTypeOK
<1>2. 1 \in 1..Len(queue)
  BY <1>1
<1>3. queue[1] \in Requests
  BY <1>1, <1>2, ElementOfSeq
<1> QED BY <1>1, <1>2, <1>3

\* The queue once its first request was heard of.
LEMMA QueueHeard ==
  ASSUME TypeOK, queue # <<>>, NEW q, q = Tail(queue)
  PROVE  /\ q \in Seq(Requests) /\ Len(q) = Len(queue) - 1 /\ Len(q) \in Nat
         /\ \A i \in 1..Len(q) : i + 1 \in 1..Len(queue) /\ q[i] = queue[i + 1]
<1>1. /\ queue \in Seq(Requests) /\ Len(queue) \in Nat \ {0}
  BY EmptySeq DEF TypeOK, StoreTypeOK
<1>2. /\ q \in Seq(Requests) /\ Len(q) = Len(queue) - 1
      /\ \A i \in 1..Len(q) : q[i] = queue[i + 1]
  BY <1>1, HeadTailProperties
<1>3. \A i \in 1..Len(q) : i + 1 \in 1..Len(queue)
  BY <1>1, <1>2
<1> QED BY <1>1, <1>2, <1>3

\* The queue with a further request.
LEMMA QueueAsked ==
  ASSUME NEW p \in Seq(Requests), NEW r \in Requests, NEW q, q = Append(p, r)
  PROVE  /\ q \in Seq(Requests) /\ Len(q) = Len(p) + 1 /\ Len(p) \in Nat /\ q # <<>>
         /\ \A i \in 1..Len(p) : q[i] = p[i]
         /\ q[Len(p) + 1] = r
         /\ \A i \in 1..Len(q) : i \in 1..Len(p) \/ i = Len(p) + 1
         /\ p # <<>> => Head(q) = Head(p)
         /\ p = <<>> => Head(q) = r
<1>1. /\ q \in Seq(Requests) /\ Len(q) = Len(p) + 1 /\ Len(p) \in Nat /\ q # <<>>
      /\ \A i \in 1..Len(p) : q[i] = p[i]
      /\ q[Len(p) + 1] = r
  BY AppendProperties, LenProperties
<1>2. \A i \in 1..Len(q) : i \in 1..Len(p) \/ i = Len(p) + 1
  BY <1>1
<1>3. Head(q) = q[1]
  BY <1>1
<1>4. p # <<>> => Head(q) = Head(p)
  <2>1. p # <<>> => 1 \in 1..Len(p) /\ Head(p) = p[1]
    BY EmptySeq, <1>1
  <2> QED BY <1>1, <1>3, <2>1
<1>5. p = <<>> => Head(q) = r
  BY <1>1, <1>3, EmptySeq
<1> QED BY <1>1, <1>2, <1>4, <1>5

-----------------------------------------------------------------------------
(* The record, its requests and the page.                                   *)

\* A page that does not save asks for nothing of its own, so nothing is put.
LEMMA NothingPut ==
  ASSUME TypeOK, Waits, page \notin {"saving", "resaving"}
  PROVE  \A i \in 1..Len(queue) : queue[i].by \notin Own /\ queue[i].ask # "put"
<1>1. \A i \in 1..Len(queue) : queue[i] \in Requests /\ queue[i].by \notin Own
  BY ElementOfSeq DEF TypeOK, StoreTypeOK, Waits
<1> QED BY <1>1, RequestIs DEF Own

\* Steps of the page that the store does not see.
LEMMA StoreStays ==
  ASSUME StoreInv, UNCHANGED <<loading, selected, results, under, shown, serial, store>>,
         loading => UNCHANGED <<page, tallied>>,
         page \in {"saving", "resaving"} => page' = page,
         page' = "closed" => page = "closed"
  PROVE  StoreInv'
<1>1. Configured' /\ BootLoads' /\ Fencing' /\ Promise'
  BY DEF StoreInv, Configured, BootLoads, Fencing, Promise, store, Foreign
<1>2. Waits'
  BY DEF StoreInv, Waits, store
<1> QED BY <1>1, <1>2 DEF StoreInv

\* The first request is heard of.
LEMMA WaitsHeard ==
  ASSUME TypeOK, Waits, queue # <<>>, Heard, UNCHANGED record, gone' \subseteq gone,
         page \in {"saving", "resaving"} => UNCHANGED <<results, under, shown, serial>>,
         page' = page \/ (queue[1].by \in Own /\ page # "closed" /\ page' # "closed")
  PROVE  Waits' /\ (queue' # <<>> => Head(queue').ask # "get")
<1>1. /\ queue' \in Seq(Requests) /\ Len(queue') = Len(queue) - 1 /\ Len(queue') \in Nat
      /\ \A i \in 1..Len(queue') : i + 1 \in 1..Len(queue) /\ queue'[i] = queue[i + 1]
  BY QueueHeard DEF Heard
<1>2. 1 \in 1..Len(queue)
  BY HeadIs
<1>3. \A i \in 1..Len(queue') : queue'[i].ask # "get"
  BY <1>1, <1>2 DEF Waits
<1>4. \A i \in 1..Len(queue') : queue'[i].by \in Own => page' \in {"saving", "resaving"}
  <2>1. ASSUME NEW i \in 1..Len(queue'), queue'[i].by \in Own
        PROVE  page' \in {"saving", "resaving"}
    <3>1. i + 1 \in 1..Len(queue) /\ queue[i + 1].by \in Own /\ i + 1 # 1
      BY <1>1, <2>1
    <3>2. page \in {"saving", "resaving"} /\ queue[1].by \notin Own
      BY <1>2, <3>1 DEF Waits
    <3> QED BY <3>2
  <2> QED BY <2>1
<1>5. \A i \in 1..Len(queue') : queue'[i].ask = "put" =>
        /\ queue'[i].what.serial = serial' /\ shown' = serial'
        /\ queue'[i].what.results = results' /\ queue'[i].what.settings = under'
        /\ serial' \notin gone'
  BY <1>1, NothingPut DEF Waits
<1>6. \A i, j \in 1..Len(queue') : queue'[i].by \in Own /\ queue'[j].by \in Own => i = j
  <2>1. ASSUME NEW i \in 1..Len(queue'), NEW j \in 1..Len(queue'),
               queue'[i].by \in Own, queue'[j].by \in Own
        PROVE  i = j
    <3>1. i + 1 = j + 1
      BY <1>1, <2>1 DEF Waits
    <3> QED BY <1>1, <3>1
  <2> QED BY <2>1
<1>7. page' # "closed"
  BY DEF Waits
<1>8. reply' = Nil /\ Nil # "done"
  BY Marks DEF Heard
<1>9. Waits'
  BY <1>3, <1>4, <1>5, <1>6, <1>7, <1>8 DEF Waits
<1>10. queue' # <<>> => Head(queue') = queue'[1] /\ 1 \in 1..Len(queue')
  BY <1>1, EmptySeq
<1> QED BY <1>3, <1>9, <1>10

\* A request that does not put is asked for.
LEMMA WaitsAsked ==
  ASSUME TypeOK, Waits, NEW r \in Requests, r.ask \notin {"put", "get"},
         queue' = Append(queue, r), UNCHANGED <<record, reply>>,
         page # "closed", page' # "closed",
         r.by \in Own => page \notin {"saving", "resaving"} /\ page' \in {"saving", "resaving"},
         page \in {"saving", "resaving"} =>
           page' = page /\ UNCHANGED <<results, under, shown, serial, gone>>
  PROVE  Waits' /\ queue' \in Seq(Requests) /\ queue' # <<>>
         /\ (Head(queue').ask = "get" => queue # <<>> /\ Head(queue).ask = "get")
<1>0. PICK q : q = Append(queue, r)
  OBVIOUS
<1>1. /\ queue' \in Seq(Requests) /\ Len(queue') = Len(queue) + 1 /\ Len(queue) \in Nat
      /\ queue' # <<>>
      /\ \A i \in 1..Len(queue) : queue'[i] = queue[i]
      /\ queue'[Len(queue) + 1] = r
      /\ \A i \in 1..Len(queue') : i \in 1..Len(queue) \/ i = Len(queue) + 1
      /\ queue # <<>> => Head(queue') = Head(queue)
      /\ queue = <<>> => Head(queue') = r
  <2>1. queue \in Seq(Requests) /\ queue' = q
    BY <1>0 DEF TypeOK, StoreTypeOK
  <2>2. /\ q \in Seq(Requests) /\ Len(q) = Len(queue) + 1 /\ Len(queue) \in Nat /\ q # <<>>
        /\ \A i \in 1..Len(queue) : q[i] = queue[i]
        /\ q[Len(queue) + 1] = r
        /\ \A i \in 1..Len(q) : i \in 1..Len(queue) \/ i = Len(queue) + 1
        /\ queue # <<>> => Head(q) = Head(queue)
        /\ queue = <<>> => Head(q) = r
    BY <1>0, <2>1, QueueAsked
  <2> QED BY <2>1, <2>2
<1>2. \A i \in 1..Len(queue') : queue'[i].ask = "put" =>
        /\ queue'[i].what.serial = serial' /\ shown' = serial'
        /\ queue'[i].what.results = results' /\ queue'[i].what.settings = under'
        /\ serial' \notin gone'
  <2>1. ASSUME NEW i \in 1..Len(queue'), queue'[i].ask = "put"
        PROVE  i \in 1..Len(queue) /\ queue[i].ask = "put" /\ page \in {"saving", "resaving"}
    <3>1. i \in 1..Len(queue) /\ queue[i].ask = "put"
      BY <1>1, <2>1
    <3> QED BY <3>1, NothingPut
  <2> QED BY <1>1, <2>1 DEF Waits
<1>3. \A i \in 1..Len(queue') : queue'[i].by \in Own => page' \in {"saving", "resaving"}
  BY <1>1 DEF Waits
<1>4. \A i, j \in 1..Len(queue') : queue'[i].by \in Own /\ queue'[j].by \in Own => i = j
  <2>1. r.by \in Own => \A i \in 1..Len(queue) : queue[i].by \notin Own
    BY NothingPut
  <2> QED BY <1>1, <2>1 DEF Waits
<1>5. \A i \in 1..Len(queue') : queue'[i].ask = "get" => i = 1
  BY <1>1 DEF Waits
<1>6. reply' = "done" /\ queue' # <<>> /\ Head(queue').ask = "put" => record' = Head(queue').what
  <2>1. CASE queue = <<>>
    BY <1>1, <2>1, Marks DEF Waits
  <2>2. CASE queue # <<>>
    BY <1>1, <2>2 DEF Waits
  <2> QED BY <2>1, <2>2
<1> QED BY <1>1, <1>2, <1>3, <1>4, <1>5, <1>6 DEF Waits

-----------------------------------------------------------------------------
(* What happens to requests.                                                *)

\* A transaction commits or aborts, or is blocked.
LEMMA DatabaseKeepsStore ==
  ASSUME TypeOK, StoreInv, Database
  PROVE  StoreInv'
<1>1. /\ UNCHANGED <<page, loading, selected, results, under, shown, serial, tallied>>
      /\ UNCHANGED <<fence, promised, gone>> /\ queue # <<>> /\ reply = Nil
  BY DEF Database, Commit, Abort, Blocked, display
<1>2. /\ Head(queue) = queue[1] /\ queue[1] \in Requests /\ 1 \in 1..Len(queue)
  BY <1>1, HeadIs
<1>3. CASE Abort
  <2>1. Waits'
    BY <1>1, <1>3 DEF Abort, StoreInv, Waits
  <2>2. Configured' /\ BootLoads' /\ Fencing' /\ Promise'
    BY <1>1, <1>3 DEF Abort, StoreInv, Configured, BootLoads, Fencing, Promise, Foreign
  <2> QED BY <2>1, <2>2 DEF StoreInv
<1>4. CASE Blocked
  <2>1. PICK r : r = [queue[1] EXCEPT !.by = "nobody"]
    OBVIOUS
  <2>2. r \in Requests /\ r.ask = "drop" /\ r.by = "nobody" /\ queue[1].ask = "drop"
    BY <1>2, <1>4, <2>1 DEF Blocked, Requests
  <2>3. /\ queue' = [queue EXCEPT ![1] = r] /\ queue \in Seq(Requests) /\ record' = record
        /\ reply' = reply
    BY <1>4, <2>1 DEF Blocked, TypeOK, StoreTypeOK
  <2>4. /\ queue' \in Seq(Requests) /\ Len(queue') = Len(queue) /\ queue'[1] = r
        /\ \A i \in 1..Len(queue) : i # 1 => queue'[i] = queue[i]
    BY <1>2, <2>2, <2>3, ExceptSeq
  <2>5. queue' # <<>> /\ Head(queue') = r
    BY <1>2, <2>4
  <2>6. Waits'
    BY <1>1, <1>2, <2>2, <2>3, <2>4, <2>5, Marks DEF StoreInv, Waits, Own
  <2>7. Configured' /\ BootLoads' /\ Fencing'
    BY <1>1, <2>2, <2>3, <2>5 DEF StoreInv, Configured, BootLoads, Fencing, Foreign
  <2>8. Promise'
    BY <1>1, <1>2, <2>2 DEF StoreInv, Promise
  <2> QED BY <2>6, <2>7, <2>8 DEF StoreInv
<1>5. CASE Commit
  <2>1. /\ queue' = queue /\ reply' = "done"
        /\ queue[1].ask = "put" => record' = queue[1].what
        /\ queue[1].ask = "get" => record' = record
        /\ queue[1].ask \notin {"put", "get"} => record' = Nil
    BY <1>2, <1>5, RequestIs DEF Commit, Execute
  <2>2. Waits'
    BY <1>1, <1>2, <2>1 DEF StoreInv, Waits
  <2>3. CASE queue[1].ask = "get"
    BY <1>1, <2>1, <2>2, <2>3 DEF StoreInv, Configured, BootLoads, Fencing, Promise, Foreign
  <2>4. CASE queue[1].ask = "put"
    <3>1. /\ queue[1].what.serial = serial /\ shown = serial
          /\ queue[1].what.results = results /\ queue[1].what.settings = under
          /\ serial \notin gone /\ serial \in Nat
      BY <1>2, <2>4 DEF StoreInv, Waits, TypeOK, StoreTypeOK
    <3>2. Configured'
      BY <1>1, <2>1, <2>4, <3>1 DEF StoreInv, Configured, Foreign
    <3>3. BootLoads' /\ Fencing' /\ Promise'
      BY <1>1, <1>2, <2>1, <2>4, <3>1 DEF StoreInv, BootLoads, Fencing, Promise, Foreign
    <3> QED BY <2>2, <3>2, <3>3 DEF StoreInv
  <2>5. CASE queue[1].ask \notin {"put", "get"}
    BY <1>1, <1>2, <2>1, <2>2, <2>5 DEF StoreInv, Configured, BootLoads, Fencing, Promise, Foreign
  <2> QED BY <2>3, <2>4, <2>5
<1> QED BY <1>3, <1>4, <1>5 DEF Database

\* An answer that changes neither record nor fence, and at most restores the
\* standing of the record.
LEMMA HeardKeepsStore ==
  ASSUME TypeOK, StoreInv, queue # <<>>, Heard,
         UNCHANGED <<selected, record, fence, promised, results, under, shown, serial>>,
         gone' \subseteq gone,
         loading' => loading /\ UNCHANGED <<page, tallied>>,
         page' = page \/ (queue[1].by \in Own /\ page # "closed" /\ page' # "closed")
  PROVE  StoreInv'
<1>1. Waits' /\ (queue' # <<>> => Head(queue').ask # "get")
  BY WaitsHeard DEF StoreInv
<1>2. Configured' /\ BootLoads' /\ Fencing'
  BY <1>1 DEF StoreInv, Configured, BootLoads, Fencing, Foreign
<1>3. Promise'
  <2>1. Len(queue) = 1 => queue' = <<>>
    <3>1. queue' \in Seq(Requests) /\ Len(queue') = Len(queue) - 1
      BY QueueHeard DEF Heard
    <3> QED BY <3>1, EmptySeq
  <2> QED BY <2>1 DEF StoreInv, Promise
<1> QED BY <1>1, <1>2, <1>3 DEF StoreInv

\* A put ended: the record is what was put, and the fence may go down.
LEMMA SavedKeepsStore ==
  ASSUME TypeOK, StoreInv, SaveDone, UNCHANGED <<selected, results, under, shown, serial>>,
         page' # "closed", loading' => loading
  PROVE  StoreInv' /\ page \in {"saving", "resaving"}
<1>1. /\ queue # <<>> /\ Head(queue) = queue[1] /\ queue[1] \in Requests
      /\ queue[1].ask = "put" /\ queue[1].by = "save" /\ reply = "done"
      /\ 1 \in 1..Len(queue)
  BY HeadIs DEF SaveDone, Answered
<1>2. /\ record = queue[1].what /\ record \in Runs /\ record \notin Foreign
      /\ record.serial = serial /\ serial \notin gone
      /\ page \in {"saving", "resaving"} /\ ~loading
  BY <1>1, RequestIs, Marks DEF StoreInv, Waits, BootLoads, Own
<1>3. /\ UNCHANGED <<record, gone>> /\ Heard /\ fence' = FALSE
      /\ promised' = IF Len(queue) = 1 THEN record ELSE Nil
  BY <1>1, <1>2 DEF SaveDone, FenceAtSave
<1>4. Waits' /\ (queue' # <<>> => Head(queue').ask # "get")
  BY <1>1, <1>2, <1>3, WaitsHeard DEF StoreInv, Own
<1>5. Configured' /\ Fencing'
  BY <1>2, <1>3 DEF StoreInv, Configured, Fencing, Foreign
<1>6. Promise'
  <2>1. Len(queue) = 1 => queue' = <<>>
    <3>1. queue' \in Seq(Requests) /\ Len(queue') = Len(queue) - 1
      BY <1>1, <1>3, QueueHeard DEF Heard
    <3> QED BY <3>1, EmptySeq
  <2> QED BY <1>2, <1>3, <2>1 DEF Promise
<1> QED BY <1>2, <1>4, <1>5, <1>6 DEF StoreInv, BootLoads

\* A put failed: the record is to be deleted.
LEMMA NotSavedKeepsStore ==
  ASSUME TypeOK, StoreInv, NotSaved
  PROVE  StoreInv'
<1>1. /\ queue # <<>> /\ Head(queue) = queue[1] /\ queue[1] \in Requests
      /\ queue[1].ask = "put" /\ queue[1].by = "save" /\ 1 \in 1..Len(queue)
      /\ UNCHANGED <<page, loading, selected, results, under, shown, serial, record, promised, gone>>
  BY HeadIs DEF NotSaved, SaveFailed, Answered, display
<1>2. page \in {"saving", "resaving"} /\ ~loading /\ promised = Nil
  BY <1>1 DEF StoreInv, Waits, BootLoads, Promise, Own
<1>3. PICK p : p = Tail(queue)
  OBVIOUS
<1>4. PICK r : r = Request("delete", "failedSave", Nil)
  OBVIOUS
<1>5. r \in Requests /\ r.ask = "delete" /\ r.by = "failedSave"
  BY <1>4 DEF Request, Requests
<1>6. /\ p \in Seq(Requests) /\ Len(p) = Len(queue) - 1 /\ Len(p) \in Nat
      /\ \A i \in 1..Len(p) : i + 1 \in 1..Len(queue) /\ p[i] = queue[i + 1]
  BY <1>1, <1>3, QueueHeard
<1>7. queue' = Append(p, r) /\ reply' = Nil /\ fence' = TRUE
  BY <1>3, <1>4 DEF NotSaved, SaveFailed
<1>8. PICK q : q = Append(p, r)
  OBVIOUS
<1>9. /\ q \in Seq(Requests) /\ Len(q) = Len(p) + 1
      /\ \A i \in 1..Len(p) : q[i] = p[i]
      /\ q[Len(p) + 1] = r
      /\ \A i \in 1..Len(q) : i \in 1..Len(p) \/ i = Len(p) + 1
  BY <1>5, <1>6, <1>8, QueueAsked
<1>10. \A i \in 1..Len(p) : p[i] \in Requests /\ p[i].by \notin Own /\ p[i].ask \notin {"get", "put"}
  <2>1. ASSUME NEW i \in 1..Len(p)
        PROVE  p[i] \in Requests /\ p[i].by \notin Own /\ p[i].ask # "get"
    <3>1. i + 1 \in 1..Len(queue) /\ p[i] = queue[i + 1] /\ i + 1 # 1 /\ p[i] \in Requests
      BY <1>6, ElementOfSeq
    <3>2. queue[1].by \in Own
      BY <1>1 DEF Own
    <3> QED BY <1>1, <3>1, <3>2 DEF StoreInv, Waits
  <2> QED BY <2>1, RequestIs DEF Own
<1>11. \A i \in 1..Len(queue') :
         (i \in 1..Len(p) /\ queue'[i].by \notin Own /\ queue'[i].ask \notin {"get", "put"})
         \/ (i = Len(p) + 1 /\ queue'[i] = r)
  BY <1>7, <1>8, <1>9, <1>10
<1>12. Waits'
  BY <1>1, <1>2, <1>5, <1>7, <1>11, Marks DEF StoreInv, Waits
<1>13. Configured' /\ BootLoads' /\ Fencing' /\ Promise'
  BY <1>1, <1>2, <1>7 DEF StoreInv, Configured, BootLoads, Fencing, Promise, Foreign
<1> QED BY <1>12, <1>13 DEF StoreInv

\* The answer a batch or a retry waits for.
LEMMA AnswerKeepsStore ==
  ASSUME TypeOK, StoreInv, Answer, page \in {"saving", "resaving"}, page' = "idle",
         UNCHANGED <<loading, selected, results, under, shown, serial>>
  PROVE  StoreInv'
<1>1. ~loading
  BY DEF StoreInv, BootLoads
<1>2. CASE SaveDone
  BY <1>2, SavedKeepsStore
<1>3. ASSUME NEW by \in {"failedSave", "batch"}, ClearAnswered(by)
      PROVE  StoreInv'
  <2>1. /\ queue # <<>> /\ queue[1].by \in Own /\ Heard
        /\ UNCHANGED <<record, fence, promised>> /\ gone' \subseteq gone
    BY <1>3, HeadIs DEF ClearAnswered, Answered, Own
  <2> QED BY <1>1, <2>1, HeardKeepsStore
<1>4. CASE ~Pending("save") /\ ~Pending("failedSave") /\ ~Pending("batch") /\ UNCHANGED store
  <2>1. \A i \in 1..Len(queue) : queue[i].by \notin Own
    BY <1>4 DEF Pending, Own
  <2>2. Waits'
    BY <1>4, <2>1 DEF StoreInv, Waits, store
  <2>3. Configured' /\ BootLoads' /\ Fencing' /\ Promise'
    BY <1>1, <1>4 DEF StoreInv, Configured, BootLoads, Fencing, Promise, store, Foreign
  <2> QED BY <2>2, <2>3 DEF StoreInv
<1> QED BY <1>2, <1>3, <1>4 DEF Answer

\* Answers to what the user asked for, and the load of the boot.
LEMMA HearingKeepsStore ==
  ASSUME TypeOK, StoreInv,
         \/ ClearHeard \/ LoadEnds
         \/ UNCHANGED page /\ DropHeard
  PROVE  StoreInv'
<1>1. ASSUME NEW by \in {"selection", "deletion"}, ClearAnswered(by), ClearHeard
      PROVE  StoreInv'
  <2>1. /\ queue # <<>> /\ Heard /\ gone' \subseteq gone
        /\ UNCHANGED <<record, fence, promised, page, loading, selected, tallied, results, under,
                       shown, serial>>
    BY <1>1 DEF ClearHeard, ClearAnswered, Answered, display
  <2> QED BY <2>1, HeardKeepsStore
<1>2. ASSUME NEW by, DropAnswered(by),
             UNCHANGED <<page, loading, selected, settings, serial, cancelled, display, lanes, work>>
      PROVE  StoreInv'
  <2>1. /\ queue # <<>> /\ Heard /\ gone' \subseteq gone
        /\ UNCHANGED <<record, fence, promised, page, loading, selected, tallied, results, under,
                       shown, serial>>
    BY <1>2 DEF DropAnswered, Answered, display
  <2> QED BY <2>1, HeardKeepsStore
<1>3. CASE LoadOver /\ LoadEnds /\ loading' = FALSE
  <2>1. /\ queue # <<>> /\ Heard /\ gone' \subseteq gone
        /\ UNCHANGED <<record, fence, promised, page, selected, tallied, results, under,
                       shown, serial>>
    BY <1>3 DEF LoadEnds, LoadOver, LoadsRun, Answered, display
  <2> QED BY <1>3, <2>1, HeardKeepsStore
<1>4. CASE LoadUnusable /\ LoadEnds /\ UNCHANGED loading
  <2>1. /\ queue # <<>> /\ Head(queue).ask = "get" /\ Head(queue) = queue[1]
        /\ record \in {Outdated, Empty}
        /\ UNCHANGED <<page, loading, selected, tallied, results, under, shown, serial,
                       record, promised, gone>>
    BY <1>4, HeadIs DEF LoadEnds, LoadUnusable, Answered, display
  <2>2. promised = Nil
    BY <2>1, Marks DEF StoreInv, Promise, Foreign
  <2>3. PICK r \in Requests : /\ r.ask \in {"archive", "delete"} /\ r.by = "boot"
                              /\ queue' = Append(Tail(queue), r)
    <3>1. CASE record = Outdated
      <4>1. Request("archive", "boot", record) \in Requests
        BY <3>1 DEF Request, Requests
      <4> QED BY <1>4, <3>1, <4>1 DEF LoadUnusable, Request
    <3>2. CASE record # Outdated
      <4>1. Request("delete", "boot", Nil) \in Requests
        BY DEF Request, Requests
      <4> QED BY <1>4, <3>2, <4>1 DEF LoadUnusable, Request
    <3> QED BY <3>1, <3>2
  <2>4. reply' = Nil /\ (fence => fence')
    BY <1>4 DEF LoadUnusable
  <2>5. PICK p : p = Tail(queue)
    OBVIOUS
  <2>6. PICK q : q = Append(p, r)
    OBVIOUS
  <2>7. /\ p \in Seq(Requests) /\ Len(p) = Len(queue) - 1 /\ Len(p) \in Nat
        /\ \A i \in 1..Len(p) : i + 1 \in 1..Len(queue) /\ p[i] = queue[i + 1]
    BY <2>1, <2>5, QueueHeard
  <2>8. /\ q \in Seq(Requests) /\ Len(q) = Len(p) + 1
        /\ \A i \in 1..Len(p) : q[i] = p[i]
        /\ q[Len(p) + 1] = r
        /\ \A i \in 1..Len(q) : i \in 1..Len(p) \/ i = Len(p) + 1
    BY <2>6, <2>7, QueueAsked
  <2>9. /\ \A i \in 1..Len(queue') : queue'[i].ask # "get"
        /\ \A i \in 1..Len(queue') :
             queue'[i].by \in Own \/ queue'[i].ask = "put" =>
               i + 1 \in 1..Len(queue) /\ queue'[i] = queue[i + 1]
        /\ Len(queue') \in Nat
    <3>1. queue' = q
      BY <2>3, <2>5, <2>6
    <3>2. 1 \in 1..Len(queue)
      BY <2>1, HeadIs
    <3>3. \A i \in 1..Len(p) : p[i].ask # "get"
      BY <2>7, <3>2 DEF StoreInv, Waits
    <3> QED BY <2>3, <2>7, <2>8, <3>1, <3>3 DEF Own
  <2>10. \A i, j \in 1..Len(queue') : queue'[i].by \in Own /\ queue'[j].by \in Own => i = j
    <3>1. ASSUME NEW i \in 1..Len(queue'), NEW j \in 1..Len(queue'),
                 queue'[i].by \in Own, queue'[j].by \in Own
          PROVE  i = j
      <4>1. i + 1 = j + 1
        BY <2>9, <3>1 DEF StoreInv, Waits
      <4> QED BY <2>9, <4>1
    <3> QED BY <3>1
  <2>11. page # "closed"
    BY <2>1 DEF StoreInv, Waits
  <2>12. Waits'
    <3>1. \A i \in 1..Len(queue') : queue'[i].ask = "get" => i = 1
      BY <2>9
    <3>2. \A i \in 1..Len(queue') : queue'[i].by \in Own => page' \in {"saving", "resaving"}
      BY <2>1, <2>9 DEF StoreInv, Waits
    <3>3. \A i \in 1..Len(queue') : queue'[i].ask = "put" =>
            /\ queue'[i].what.serial = serial' /\ shown' = serial'
            /\ queue'[i].what.results = results' /\ queue'[i].what.settings = under'
            /\ serial' \notin gone'
      BY <2>1, <2>9 DEF StoreInv, Waits
    <3> QED BY <2>1, <2>4, <2>10, <2>11, <3>1, <3>2, <3>3, Marks DEF Waits
  <2>13. BootLoads'
    <3>1. queue' # <<>> => Head(queue').ask # "get"
      <4>1. queue' = q
        BY <2>3, <2>5, <2>6
      <4>2. q \in Seq(Requests) /\ Len(q) >= 1
        BY <2>7, <2>8
      <4>3. Head(q) = q[1] /\ 1 \in 1..Len(q)
        BY <4>2
      <4> QED BY <4>1, <4>3, <2>9
    <3> QED BY <2>1, <3>1 DEF StoreInv, BootLoads
  <2>14. Configured' /\ Fencing' /\ Promise'
    BY <2>1, <2>2, <2>4 DEF StoreInv, Configured, Fencing, Promise, Foreign
  <2> QED BY <2>12, <2>13, <2>14 DEF StoreInv
<1>5. LoadEnds => StoreInv'
  BY <1>3, <1>4 DEF LoadEnds
<1>6. ClearHeard => StoreInv'
  BY <1>1 DEF ClearHeard
<1>7. UNCHANGED page /\ DropHeard => StoreInv'
  <2>1. page' = "closed" /\ Answered("drop", "wipe", "done") /\ UNCHANGED page => FALSE
    BY DEF StoreInv, Waits, Answered
  <2> QED BY <1>2, <2>1 DEF DropHeard, Closed
<1> QED BY <1>5, <1>6, <1>7

-----------------------------------------------------------------------------
(* What the page asks for.                                                  *)

\* A page that opens asks for the record, or for its deletion.
LEMMA BootKeepsStore ==
  ASSUME TypeOK, LaneInv, StoreInv, Boot
  PROVE  StoreInv'
<1>1. /\ page = "closed" /\ page' = "idle" /\ loading' = TRUE
      /\ UNCHANGED <<selected, tallied, results, under, shown, serial, record, fence, reply,
                     promised, gone>>
  BY DEF Boot, AskLoad, display
<1>2. queue = <<>> /\ reply = Nil /\ shown = Nil /\ ~selected /\ results = NoResults /\ ~tallied
  BY <1>1 DEF StoreInv, Waits, BootLoads, LaneInv, Tally
<1>3. PICK r : r = IF fence THEN Request("delete", "boot", Nil) ELSE Request("get", "boot", Nil)
  OBVIOUS
<1>4. /\ r.by = "boot" /\ r.ask \in {"delete", "get"} /\ (r.ask = "get" <=> ~fence)
      /\ queue' = <<r>>
  BY <1>3 DEF Boot, AskLoad, Request
<1>5. /\ Len(queue') = 1 /\ queue'[1] = r /\ Head(queue') = r
      /\ \A i \in 1..Len(queue') : i = 1
  BY <1>4
<1>6. Waits'
  BY <1>1, <1>2, <1>4, <1>5, Marks DEF Waits, Own
<1>7. Configured' /\ Fencing'
  BY <1>1 DEF StoreInv, Configured, Fencing, Foreign
<1>8. BootLoads'
  BY <1>1, <1>2, <1>4, <1>5 DEF StoreInv, BootLoads, Fencing, Foreign
<1>9. Promise'
  BY <1>1, <1>4, <1>5 DEF StoreInv, Promise
<1> QED BY <1>6, <1>7, <1>8, <1>9 DEF StoreInv

\* A page that closes shows nothing and loses what was not executed.
LEMMA ClosedKeepsStore ==
  ASSUME TypeOK, StoreInv, Lose, Closed
  PROVE  StoreInv'
<1>1. /\ queue' = <<>> /\ reply' = Nil /\ UNCHANGED <<record, fence, promised, gone, serial>>
      /\ page' = "closed" /\ ~loading' /\ ~selected' /\ results' = NoResults /\ shown' = Nil
      /\ under' = Nil
  BY DEF Lose, Closed
<1>2. Len(queue') = 0
  BY <1>1
<1>3. Waits'
  BY <1>1, <1>2, Marks DEF Waits
<1>4. record \notin Foreign => record.serial \in Nat
  BY Marks DEF TypeOK, StoreTypeOK, Runs
<1>5. Configured'
  BY <1>1, <1>4, Marks DEF StoreInv, Configured, Under, NoResults, Foreign
<1>6. BootLoads' /\ Promise'
  BY <1>1 DEF StoreInv, BootLoads, Promise
<1>7. Fencing'
  BY <1>1, Marks DEF StoreInv, Fencing, TypeOK, StoreTypeOK, Foreign
<1> QED BY <1>3, <1>5, <1>6, <1>7 DEF StoreInv

\* The results of the record are shown.
LEMMA RestoreKeepsStore ==
  ASSUME TypeOK, StoreInv, Restore
  PROVE  StoreInv'
<1>1. /\ queue # <<>> /\ Heard /\ ~loading' /\ record \notin Foreign
      /\ Head(queue).ask = "get" /\ Head(queue).by = "boot"
      /\ UNCHANGED <<page, selected, serial, record, fence, promised, gone>>
  BY DEF Restore, LoadsRun, LoadOver, Answered
<1>2. CASE ~loading
  <2>1. UNCHANGED <<results, under, shown>>
    BY <1>2 DEF Restore, display
  <2> QED BY <1>1, <2>1, HeardKeepsStore
<1>3. CASE loading
  <2>1. /\ results' = record.results /\ under' = record.settings /\ shown' = record.serial
        /\ page = "idle" /\ record.serial \notin gone
    BY <1>1, <1>3 DEF Restore, StoreInv, BootLoads
  <2>2. Waits' /\ (queue' # <<>> => Head(queue').ask # "get")
    BY <1>1, <2>1, WaitsHeard DEF StoreInv
  <2>3. Configured' /\ Fencing' /\ BootLoads'
    BY <1>1, <2>1 DEF StoreInv, Configured, Fencing, BootLoads, Under, Foreign
  <2>4. Promise'
    <3>1. queue' \in Seq(Requests) /\ Len(queue') = Len(queue) - 1
      BY <1>1, QueueHeard DEF Heard
    <3>2. Len(queue) = 1 => queue' = <<>>
      BY <3>1, EmptySeq
    <3> QED BY <1>1, <3>2 DEF StoreInv, Promise
  <2> QED BY <2>2, <2>3, <2>4 DEF StoreInv
<1> QED BY <1>2, <1>3

\* What is shown is deleted.
LEMMA ClearingKeepsStore ==
  ASSUME TypeOK, StoreInv, NEW by \in {"selection", "deletion", "batch"}, AskClear(by),
         page \notin {"closed", "saving", "resaving"}, page' # "closed",
         by = "batch" => page' \in {"saving", "resaving"},
         results' = NoResults, shown' = Nil, UNCHANGED serial, ~loading'
  PROVE  StoreInv'
<1>1. PICK r : r = Request("delete", by, Nil)
  OBVIOUS
<1>2. r \in Requests /\ r.ask = "delete" /\ r.by = by
  BY <1>1 DEF Request, Requests
<1>3. /\ queue' = Append(queue, r) /\ fence' /\ promised' = Nil /\ gone' = gone \cup SavedRun
      /\ UNCHANGED <<record, reply>>
  BY <1>1 DEF AskClear, Fenced
<1>4. Waits'
  BY <1>2, <1>3, WaitsAsked DEF StoreInv, Own
<1>5. record \notin Foreign => record.serial \in Nat
  BY Marks DEF TypeOK, StoreTypeOK, Runs
<1>6. Configured'
  BY <1>3, <1>5, Marks DEF StoreInv, Configured, Under, NoResults, Foreign
<1>7. BootLoads' /\ Promise'
  BY <1>3 DEF BootLoads, Promise
<1>8. Fencing'
  <2>1. SavedRun \subseteq 0..serial
    BY <1>5 DEF SavedRun, StoreInv, Configured, TypeOK, StoreTypeOK
  <2>2. Nil \notin 0..serial
    BY Marks DEF TypeOK, StoreTypeOK
  <2> QED BY <1>3, <2>1, <2>2 DEF StoreInv, Fencing
<1> QED BY <1>4, <1>6, <1>7, <1>8 DEF StoreInv

\* The database is deleted.
LEMMA DroppingKeepsStore ==
  ASSUME TypeOK, StoreInv, NEW by \in {"banner", "wipe"}, AskDrop(by), page # "closed",
         by = "wipe" => page = "idle",
         UNCHANGED <<page, loading, selected, tallied, results, under, shown, serial>>
  PROVE  StoreInv'
<1>1. PICK r : r = Request("drop", by, Nil)
  OBVIOUS
<1>2. r \in Requests /\ r.ask = "drop" /\ r.by = by
  BY <1>1 DEF Request, Requests
<1>3. /\ queue' = Append(queue, r) /\ promised' = Nil /\ UNCHANGED <<record, reply>>
      /\ by = "wipe" => ~fence' /\ gone' = {}
      /\ by # "wipe" => UNCHANGED <<fence, gone>>
  BY <1>1 DEF AskDrop
<1>4. /\ Waits' /\ queue' # <<>>
      /\ Head(queue').ask = "get" => queue # <<>> /\ Head(queue).ask = "get"
  BY <1>2, <1>3, WaitsAsked DEF StoreInv, Own
<1>5. Configured' /\ Promise'
  BY <1>3 DEF StoreInv, Configured, Promise, Foreign
<1>6. gone' \subseteq gone
  BY <1>3
<1>7. BootLoads'
  BY <1>3, <1>4, <1>6 DEF StoreInv, BootLoads, Foreign
<1>8. Fencing'
  <2>1. CASE by = "wipe"
    BY <1>3, <2>1 DEF StoreInv, Fencing, Foreign
  <2>2. CASE by # "wipe"
    <3>1. UNCHANGED <<fence, gone, record, shown, serial>>
      BY <1>3, <2>2
    <3> QED BY <3>1 DEF StoreInv, Fencing, Foreign
  <2> QED BY <2>1, <2>2
<1> QED BY <1>4, <1>5, <1>7, <1>8 DEF StoreInv

\* New results are shown, and recorded or not.
LEMMA SavingKeepsStore ==
  ASSUME TypeOK, StoreInv, NEW v \in Collections, NEW s \in Settings, NEW n \in Nat,
         n = serial + 1, Under(v, s), AskSave(Record(v, s, n)) \/ UNCHANGED store,
         page \notin {"closed", "saving", "resaving"}, page' \in {"saving", "resaving"},
         results' = v, under' = s, shown' = n, serial' = n, ~loading'
  PROVE  StoreInv'
<1>1. \A i \in 1..Len(queue) : queue[i].by \notin Own /\ queue[i].ask # "put"
  BY NothingPut DEF StoreInv
<1>2. serial \in Nat /\ (record \notin Foreign => record.serial \in Nat /\ record.serial <= serial)
  BY Marks DEF StoreInv, Configured, TypeOK, StoreTypeOK, Runs
<1>3. UNCHANGED record
  BY DEF AskSave, store
<1>4. Configured'
  <2>1. (results = v /\ under = s)' /\ (shown = n)' /\ (serial = n)'
    OBVIOUS
  <2>2. record' \notin Foreign => record'.serial # n /\ record'.serial <= n
    BY <1>2, <1>3
  <2> QED BY <1>3, <2>1, <2>2 DEF StoreInv, Configured, Under, Foreign
<1>5. BootLoads'
  BY DEF BootLoads
<1>6. gone \subseteq 0..n /\ n \notin gone
  BY <1>2 DEF StoreInv, Fencing
<1>7. CASE UNCHANGED store
  <2>1. Waits'
    BY <1>1, <1>7 DEF StoreInv, Waits, store
  <2>2. Fencing' /\ Promise'
    BY <1>6, <1>7 DEF StoreInv, Fencing, Promise, store, Foreign
  <2> QED BY <1>4, <1>5, <2>1, <2>2 DEF StoreInv
<1>8. CASE AskSave(Record(v, s, n))
  <2>1. PICK r : r = Request("put", "save", Record(v, s, n))
    OBVIOUS
  <2>2. PICK q : q = Append(queue, r)
    OBVIOUS
  <2>3. /\ queue' = q /\ promised' = Nil /\ UNCHANGED <<record, fence, reply, gone>>
    BY <1>8, <2>1, <2>2 DEF AskSave
  <2>4. /\ r \in Requests /\ r.ask = "put" /\ r.by = "save" /\ r.what.serial = n
        /\ r.what.results = v /\ r.what.settings = s
    BY <2>1, Recorded DEF Request, Requests
  <2>5. /\ Len(q) = Len(queue) + 1 /\ Len(queue) \in Nat
        /\ \A i \in 1..Len(queue) : q[i] = queue[i]
        /\ q[Len(queue) + 1] = r
        /\ \A i \in 1..Len(q) : i \in 1..Len(queue) \/ i = Len(queue) + 1
        /\ queue # <<>> => Head(q) = Head(queue)
        /\ q # <<>>
    <3>1. queue \in Seq(Requests)
      BY DEF TypeOK, StoreTypeOK
    <3> QED BY <2>2, <2>4, <3>1, QueueAsked
  <2>6. reply = "done" => queue # <<>> /\ Head(queue).ask # "put"
    BY <1>1, HeadIs, Marks DEF StoreInv, Waits
  <2>7. Waits'
    <3>1. \A i \in 1..Len(q) :
            (i \in 1..Len(queue) /\ q[i] = queue[i] /\ q[i].by \notin Own /\ q[i].ask # "put")
            \/ (i = Len(queue) + 1 /\ q[i] = r)
      BY <1>1, <2>5
    <3>2. \A i \in 1..Len(q) : q[i].ask = "get" => i = 1
      BY <2>4, <3>1 DEF StoreInv, Waits
    <3> QED BY <1>6, <2>3, <2>4, <2>5, <2>6, <3>1, <3>2 DEF Waits
  <2>8. Fencing' /\ Promise'
    BY <1>6, <2>3 DEF StoreInv, Fencing, Promise, Foreign
  <2> QED BY <1>4, <1>5, <2>7, <2>8 DEF StoreInv
<1> QED BY <1>7, <1>8

\* The end of a batch.
LEMMA LanesEndKeepsStore ==
  ASSUME TypeOK, LaneInv, StoreInv, NEW durable \in BOOLEAN, LanesEnd(durable)
  PROVE  StoreInv'
<1>1. /\ page = "running" /\ page' = "saving" /\ UNCHANGED loading
      /\ results' = next /\ under' = bound
  BY DEF LanesEnd
<1>2. ~loading /\ ~loading'
  BY <1>1 DEF StoreInv, BootLoads
<1>3. CASE next = NoResults
  BY <1>1, <1>2, <1>3, ClearingKeepsStore DEF LanesEnd
<1>4. CASE next # NoResults
  <2>1. PICK n \in Nat : n = serial + 1
    BY DEF TypeOK, StoreTypeOK
  <2>2. bound \in Settings /\ next \in Collections /\ Under(next, bound)
    BY <1>1 DEF LaneInv, FilesProgress, TypeOK, StoreTypeOK
  <2>3. PICK v \in Collections : v = next
    BY <2>2
  <2>4. PICK s \in Settings : s = bound
    BY <2>2
  <2>5. serial' = n /\ shown' = n /\ (AskSave(Record(v, s, n)) \/ UNCHANGED store)
    BY <1>4, <2>1, <2>3, <2>4 DEF LanesEnd
  <2>6. Under(v, s)
    BY <2>2, <2>3, <2>4
  <2>7. results' = v /\ under' = s
    BY <1>1, <2>3, <2>4
  <2> QED BY <1>1, <1>2, <2>1, <2>5, <2>6, <2>7, SavingKeepsStore
<1> QED BY <1>3, <1>4

\* A retry joins results of its own settings.
LEMMA RetryKeepsStore ==
  ASSUME TypeOK, LaneInv, StoreInv, NEW f \in File, NEW durable \in BOOLEAN,
         RetrySucceeds(f, durable)
  PROVE  StoreInv'
<1>1. /\ page = "retrying" /\ page' = "resaving" /\ UNCHANGED loading
  BY DEF RetrySucceeds
<1>2. ~loading /\ ~loading'
  BY <1>1 DEF StoreInv, BootLoads
<1>3. PICK n \in Nat : n = serial + 1
  BY DEF TypeOK, StoreTypeOK
<1>4. PICK s \in RetrySettings :
        /\ results' = [results EXCEPT ![f] = Result(f, s)]
        /\ under' = s /\ bound' = s
        /\ IF durable THEN AskSave(Record(results', s, serial')) ELSE UNCHANGED store
  BY DEF RetrySucceeds
<1>5. s \in Settings /\ (results = NoResults \/ s = under)
  BY Marks DEF RetrySettings, TypeOK, StoreTypeOK
<1>6. PICK v : v = [results EXCEPT ![f] = Result(f, s)]
  OBVIOUS
<1>7. results \in [File -> Results \cup {Nil}] /\ Result(f, s) \in Results
  BY <1>5, ResultIs DEF TypeOK, StoreTypeOK, Collections
<1>8. v \in Collections
  BY <1>6, <1>7 DEF Collections
<1>9. Under(v, s)
  <2>1. ASSUME NEW g \in File, v[g] # Nil
        PROVE  v[g] = Result(g, s)
    <3>1. CASE g = f
      BY <1>6, <1>7, <3>1
    <3>2. CASE g # f
      <4>1. v[g] = results[g]
        BY <1>6, <1>7, <3>2
      <4>2. results[g] = Result(g, under)
        BY <2>1, <4>1 DEF StoreInv, Configured, Under
      <4>3. results # NoResults
        BY <2>1, <4>1 DEF NoResults
      <4> QED BY <1>5, <4>1, <4>2, <4>3
    <3> QED BY <3>1, <3>2
  <2> QED BY <1>5, <2>1, Marks DEF Under
<1>10. serial' = n /\ shown' = n
  BY <1>3 DEF RetrySucceeds
<1>11. AskSave(Record(v, s, n)) \/ UNCHANGED store
  BY <1>4, <1>6, <1>10
<1>12. results' = v /\ under' = s
  BY <1>4, <1>6
<1> QED BY <1>1, <1>2, <1>3, <1>5, <1>8, <1>9, <1>10, <1>11, <1>12, SavingKeepsStore

\* Every step keeps what holds of the store.
LEMMA StoreInvKept ==
  ASSUME TypeOK, LaneInv, StoreInv, [Next]_vars
  PROVE  StoreInv'
<1> USE DEF display
<1>1. loading => page = "idle" /\ ~selected /\ results = NoResults
  BY DEF StoreInv, BootLoads
<1>2. CASE Boot
  BY <1>2, BootKeepsStore
<1>3. CASE Close
  BY <1>3, ClosedKeepsStore DEF Close
<1>4. CASE Restore
  BY <1>4, RestoreKeepsStore
<1>5. CASE LoadEnds \/ ClearHeard
  BY <1>5, HearingKeepsStore
<1>6. CASE DropHeard
  <2>1. UNCHANGED page \/ (Lose /\ Closed)
    BY <1>6 DEF DropHeard
  <2> QED BY <1>6, <2>1, HearingKeepsStore, ClosedKeepsStore
<1>7. CASE SelectFiles
  BY <1>7, ClearingKeepsStore DEF SelectFiles
<1>8. CASE DeleteResults
  BY <1>1, <1>8, ClearingKeepsStore DEF DeleteResults
<1>9. CASE ClearCachedRun
  BY <1>9, DroppingKeepsStore DEF ClearCachedRun
<1>10. CASE DeleteAllLocalData
  BY <1>10, DroppingKeepsStore DEF DeleteAllLocalData
<1>11. CASE EditSettings
  BY <1>11, StoreStays DEF EditSettings
<1>12. CASE Process
  BY <1>1, <1>12, StoreStays DEF Process
<1>13. CASE Cancel
  BY <1>13, StoreStays DEF Cancel
<1>14. CASE PreparingFails
  BY <1>1, <1>14, StoreStays DEF PreparingFails, Finally
<1>15. CASE Working
  <2>1. CASE \E n \in 1..LaneCap : Begin(n)
    BY <1>1, <2>1, StoreStays DEF Begin
  <2>2. CASE Spawn
    BY <2>2, StoreStays DEF Spawn
  <2>3. CASE LoopHead
    BY <2>3, StoreStays DEF LoopHead
  <2>4. CASE \E k \in Key : Settle(k)
    BY <2>4, StoreStays DEF Settle
  <2>5. CASE \E l \in Lane : Resume(l)
    BY <2>5, StoreStays DEF Resume
  <2>6. CASE \E durable \in BOOLEAN : LanesEnd(durable)
    BY <2>6, LanesEndKeepsStore
  <2>7. CASE BatchEnds
    BY <2>7, AnswerKeepsStore DEF BatchEnds, Finally
  <2>8. CASE NotSaved
    BY <2>8, NotSavedKeepsStore
  <2> QED BY <1>15, <2>1, <2>2, <2>3, <2>4, <2>5, <2>6, <2>7, <2>8 DEF Working
<1>16. CASE \E f \in File : StepEvent(f) \/ Retry(f) \/ RetryFails(f)
  <2>1. PICK f \in File : StepEvent(f) \/ Retry(f) \/ RetryFails(f)
    BY <1>16
  <2>2. CASE StepEvent(f)
    BY <2>2, StoreStays DEF StepEvent
  <2>3. CASE Retry(f)
    BY <1>1, <2>3, StoreStays DEF Retry
  <2>4. CASE RetryFails(f)
    BY <1>1, <2>4, StoreStays DEF RetryFails
  <2> QED BY <2>1, <2>2, <2>3, <2>4
<1>17. CASE \E f \in File, durable \in BOOLEAN : RetrySucceeds(f, durable)
  BY <1>17, RetryKeepsStore
<1>18. CASE RetryEnds
  BY <1>18, AnswerKeepsStore DEF RetryEnds
<1>19. CASE Database
  BY <1>19, DatabaseKeepsStore
<1>20. CASE UNCHANGED vars
  BY <1>20, StoreStays DEF vars
<1> QED
  BY <1>2, <1>3, <1>4, <1>5, <1>6, <1>7, <1>8, <1>9, <1>10, <1>11, <1>12, <1>13, <1>14, <1>15,
     <1>16, <1>17, <1>18, <1>19, <1>20 DEF Next

-----------------------------------------------------------------------------
(* Types.                                                                   *)

\* What a step does to the store.
LEMMA StoreSteps ==
  ASSUME TypeOK, LaneInv, [Next]_vars
  PROVE  \/ UNCHANGED store
         \/ AskLoad \/ Lose \/ LoadOver \/ LoadUnusable
         \/ \E by \in {"selection", "deletion", "batch"} : AskClear(by)
         \/ \E by \in {"selection", "deletion", "batch", "failedSave"} : ClearAnswered(by)
         \/ \E by \in {"banner", "wipe"} : AskDrop(by)
         \/ \E by \in {"banner", "wipe", "nobody"} : DropAnswered(by)
         \/ \E run \in Runs : AskSave(run)
         \/ SaveDone \/ SaveFailed
         \/ Commit \/ Abort \/ Blocked
<1>1. CASE \/ Boot \/ Close \/ Restore \/ LoadEnds \/ SelectFiles \/ DeleteResults \/ ClearHeard
           \/ ClearCachedRun \/ DeleteAllLocalData \/ DropHeard
  BY <1>1 DEF Boot, Close, Restore, LoadEnds, SelectFiles, DeleteResults, ClearHeard, ClearCachedRun,
              DeleteAllLocalData, DropHeard
<1>2. CASE EditSettings \/ Process \/ Cancel \/ PreparingFails \/ UNCHANGED vars
  BY <1>2 DEF EditSettings, Process, Cancel, PreparingFails, vars
<1>3. CASE \/ Spawn \/ LoopHead
           \/ \E n \in 1..LaneCap : Begin(n)
           \/ \E k \in Key : Settle(k)
           \/ \E l \in Lane : Resume(l)
  BY <1>3 DEF Begin, Spawn, LoopHead, Settle, Resume
<1>4. ASSUME NEW durable \in BOOLEAN, LanesEnd(durable)
      PROVE  \/ \E run \in Runs : AskSave(run)
             \/ \E by \in {"selection", "deletion", "batch"} : AskClear(by)
             \/ UNCHANGED store
  <2>1. bound \in Settings /\ next \in Collections
    BY <1>4 DEF LanesEnd, LaneInv, FilesProgress, TypeOK
  <2>2. serial' = serial + 1 => serial' \in Nat
    BY DEF TypeOK
  <2>3. serial' = serial + 1 => Record(next, bound, serial') \in Runs
    BY <2>1, <2>2, Recorded
  <2> QED BY <1>4, <2>3 DEF LanesEnd
<1>5. CASE BatchEnds \/ RetryEnds \/ NotSaved
  BY <1>5 DEF BatchEnds, RetryEnds, NotSaved, Answer
<1>6. CASE \E f \in File : StepEvent(f) \/ Retry(f) \/ RetryFails(f)
  BY <1>6 DEF StepEvent, Retry, RetryFails
<1>7. ASSUME NEW f \in File, NEW durable \in BOOLEAN, RetrySucceeds(f, durable)
      PROVE  (\E run \in Runs : AskSave(run)) \/ UNCHANGED store
  <2>1. PICK s \in RetrySettings :
          /\ results' = [results EXCEPT ![f] = Result(f, s)]
          /\ IF durable THEN AskSave(Record(results', s, serial')) ELSE UNCHANGED store
    BY <1>7 DEF RetrySucceeds
  <2>2. s \in Settings
    BY <2>1, Marks DEF RetrySettings, TypeOK
  <2>3. results' \in Collections
    BY <2>1, <2>2, ResultIs DEF TypeOK, Collections
  <2>4. serial' \in Nat
    BY <1>7 DEF RetrySucceeds, TypeOK
  <2>5. Record(results', s, serial') \in Runs
    BY <2>2, <2>3, <2>4, Recorded
  <2> QED BY <2>1, <2>5
<1>8. CASE Database
  BY <1>8 DEF Database
<1> QED BY <1>1, <1>2, <1>3, <1>4, <1>5, <1>6, <1>7, <1>8 DEF Next, Working

\* The store keeps its type.
LEMMA StoreTyped ==
  ASSUME TypeOK, LaneInv, [Next]_vars
  PROVE  StoreTypeOK'
<1>0. StoreTypeOK
  BY DEF TypeOK
<1>1. queue # <<>> =>
        /\ Head(queue) = queue[1] /\ queue[1] \in Requests /\ 1 \in 1..Len(queue)
        /\ Tail(queue) \in Seq(Requests)
  BY HeadIs, HeadTailProperties DEF TypeOK, StoreTypeOK
<1>2. CASE UNCHANGED store
  BY <1>0, <1>2 DEF store, StoreTypeOK
<1>3. CASE AskLoad
  <2>1. /\ Request("delete", "boot", Nil) \in Requests
        /\ Request("get", "boot", Nil) \in Requests
    BY DEF Request, Requests
  <2> QED BY <1>0, <1>3, <2>1 DEF AskLoad, StoreTypeOK
<1>4. CASE Lose
  BY <1>0, <1>4 DEF Lose, StoreTypeOK
<1>5. CASE LoadOver
  BY <1>0, <1>1, <1>5 DEF LoadOver, LoadsRun, Heard, Answered, StoreTypeOK
<1>6. CASE LoadUnusable
  <2>1. Request("delete", "boot", Nil) \in Requests
    BY DEF Request, Requests
  <2>2. record = Outdated => Request("archive", "boot", record) \in Requests
    BY DEF Request, Requests
  <2>3. Tail(queue) \in Seq(Requests)
    BY <1>1, <1>6 DEF LoadUnusable, Answered
  <2>4. queue' \in Seq(Requests) /\ fence' \in BOOLEAN
    <3>1. CASE record = Outdated
      <4>1. queue' = Append(Tail(queue), Request("archive", "boot", record)) /\ UNCHANGED fence
        BY <1>6, <3>1 DEF LoadUnusable
      <4> QED BY <1>0, <2>2, <2>3, <3>1, <4>1, AppendProperties DEF StoreTypeOK
    <3>2. CASE record # Outdated
      <4>1. queue' = Append(Tail(queue), Request("delete", "boot", Nil)) /\ fence' = TRUE
        BY <1>6, <3>2 DEF LoadUnusable
      <4> QED BY <2>1, <2>3, <4>1, AppendProperties
    <3> QED BY <3>1, <3>2
  <2> QED BY <1>0, <1>6, <2>4 DEF LoadUnusable, StoreTypeOK
<1>7. ASSUME NEW by \in {"selection", "deletion", "batch"}, AskClear(by)
      PROVE  StoreTypeOK'
  <2>1. Request("delete", by, Nil) \in Requests
    BY DEF Request, Requests
  <2>2. queue' \in Seq(Requests)
    BY <1>0, <1>7, <2>1, AppendProperties DEF AskClear, StoreTypeOK
  <2>3. SavedRun \subseteq Nat
    BY <1>0 DEF SavedRun, StoreTypeOK, Runs
  <2> QED BY <1>0, <1>7, <2>2, <2>3 DEF AskClear, Fenced, StoreTypeOK
<1>8. ASSUME NEW by, ClearAnswered(by)
      PROVE  StoreTypeOK'
  BY <1>0, <1>1, <1>8 DEF ClearAnswered, Heard, Answered, StoreTypeOK
<1>9. ASSUME NEW by \in {"banner", "wipe"}, AskDrop(by)
      PROVE  StoreTypeOK'
  <2>1. Request("drop", by, Nil) \in Requests
    BY DEF Request, Requests
  <2>2. queue' \in Seq(Requests)
    BY <1>0, <1>9, <2>1, AppendProperties DEF AskDrop, StoreTypeOK
  <2> QED BY <1>0, <1>9, <2>2 DEF AskDrop, StoreTypeOK
<1>10. ASSUME NEW by, DropAnswered(by)
       PROVE  StoreTypeOK'
  BY <1>0, <1>1, <1>10 DEF DropAnswered, Heard, Answered, StoreTypeOK
<1>11. ASSUME NEW run \in Runs, AskSave(run)
       PROVE  StoreTypeOK'
  <2>1. Request("put", "save", run) \in Requests
    BY DEF Request, Requests
  <2>2. queue' \in Seq(Requests)
    BY <1>0, <1>11, <2>1, AppendProperties DEF AskSave, StoreTypeOK
  <2> QED BY <1>0, <1>11, <2>2 DEF AskSave, StoreTypeOK
<1>12. CASE SaveDone
  <2>1. Head(queue).what \in Runs
    BY <1>1, <1>12, RequestIs DEF SaveDone, Answered
  <2> QED BY <1>0, <1>1, <1>12, <2>1 DEF SaveDone, Heard, Answered, FenceAtSave, StoreTypeOK
<1>13. CASE SaveFailed
  <2>1. Request("delete", "failedSave", Nil) \in Requests
    BY DEF Request, Requests
  <2>2. Tail(queue) \in Seq(Requests)
    BY <1>1, <1>13 DEF SaveFailed, Answered
  <2>3. queue' \in Seq(Requests)
    BY <1>13, <2>1, <2>2, AppendProperties DEF SaveFailed
  <2> QED BY <1>0, <1>13, <2>3 DEF SaveFailed, StoreTypeOK
<1>14. CASE Commit
  <2>1. record' \in Runs \cup Foreign
    BY <1>0, <1>1, <1>14, RequestIs DEF Commit, Execute, StoreTypeOK, Foreign
  <2> QED BY <1>0, <1>14, <2>1 DEF Commit, StoreTypeOK
<1>15. CASE Abort
  BY <1>0, <1>15 DEF Abort, StoreTypeOK
<1>16. CASE Blocked
  <2>1. [queue[1] EXCEPT !.by = "nobody"] \in Requests
    BY <1>1, <1>16 DEF Blocked, Requests
  <2>2. PICK r \in Requests : r = [queue[1] EXCEPT !.by = "nobody"]
    BY <2>1
  <2>3. queue' = [queue EXCEPT ![1] = r]
    BY <1>16, <2>2 DEF Blocked
  <2>4. queue' \in Seq(Requests)
    BY <1>0, <1>1, <1>16, <2>3, ExceptSeq DEF Blocked, StoreTypeOK
  <2> QED BY <1>0, <1>16, <2>4 DEF Blocked, StoreTypeOK
<1> QED
  BY <1>2, <1>3, <1>4, <1>5, <1>6, <1>7, <1>8, <1>9, <1>10, <1>11, <1>12, <1>13, <1>14, <1>15,
     <1>16, StoreSteps

\* What a lane that takes a file changes.
LEMMA ClaimIs ==
  ASSUME TypeOK, MoreFiles, NEW l \in Lane, NEW f, f = Schedule[cursor],
         NEW k, k = KeyOf[f], Claim(l)
  PROVE  /\ f \in File /\ k \in Key /\ cursor \in 1..Len(Schedule)
         /\ cursor' = cursor + 1 /\ cursor' \in 1..Len(Schedule) + 1
         /\ lane' = [lane EXCEPT ![l] = f] /\ lane' \in [Lane -> File \cup {"off"}]
         /\ row' = [row EXCEPT ![f] = "running"]
         /\ row' \in [File -> {"pending", "running", "complete", "error", "cancelled"}]
         /\ IF computation[k] # "none" THEN UNCHANGED <<computation, started>>
            ELSE /\ computation' = [computation EXCEPT ![k] = "running"]
                 /\ started' = [started EXCEPT ![k] = @ + 1]
         /\ computation' \in [Key -> {"none", "running", "done", "failed"}]
         /\ started' \in [Key -> Nat]
<1>1. cursor \in 1..Len(Schedule) /\ cursor + 1 \in 1..Len(Schedule) + 1
  BY DEF TypeOK, MoreFiles
<1>2. f \in File
  BY <1>1, BatchAssumption, ElementOfSeq
<1>3. k \in Key
  BY <1>2 DEF Key
<1>4. /\ cursor' = cursor + 1
      /\ lane' = [lane EXCEPT ![l] = f]
      /\ row' = [row EXCEPT ![f] = "running"]
      /\ IF computation[k] # "none" THEN UNCHANGED <<computation, started>>
         ELSE /\ computation' = [computation EXCEPT ![k] = "running"]
              /\ started' = [started EXCEPT ![k] = @ + 1]
  BY DEF Claim, Joins
<1>5. lane' \in [Lane -> File \cup {"off"}]
  BY <1>2, <1>4 DEF TypeOK
<1>6. row' \in [File -> {"pending", "running", "complete", "error", "cancelled"}]
  BY <1>4 DEF TypeOK
<1>7. computation' \in [Key -> {"none", "running", "done", "failed"}]
  BY <1>4 DEF TypeOK
<1>8. started' \in [Key -> Nat]
  BY <1>4 DEF TypeOK
<1> QED BY <1>1, <1>2, <1>3, <1>4, <1>5, <1>6, <1>7, <1>8

\* At least one lane fits, and no more than there may be.
LEMMA SomeLaneFits ==
  ASSUME NEW m \in Measure
  PROVE  LanesFor(m) \in Nat /\ LanesFor(m) >= 1 /\ LanesFor(m) <= LaneCap
<1>1. PICK d : d = m + Baseline
  OBVIOUS
<1>2. d \in Nat /\ d > 0
  BY <1>1, BatchAssumption
<1>3. Budget \div d \in Int
  BY <1>2, BatchAssumption
<1> QED BY <1>1, <1>3, BatchAssumption DEF LanesFor

\* Steps of the lanes keep the types.
LEMMA LanesTyped ==
  ASSUME TypeOK, LaneInv, StoreTypeOK',
         \/ \E n \in 1..LaneCap : Begin(n)
         \/ Spawn \/ LoopHead
         \/ \E k \in Key : Settle(k)
         \/ \E l \in Lane : Resume(l)
  PROVE  TypeOK'
<1>1. ASSUME NEW n \in 1..LaneCap, Begin(n)
      PROVE  TypeOK'
  BY <1>1, BatchAssumption DEF Begin, TypeOK, work
<1>2. CASE Spawn
  <2>1. CASE UNCHANGED <<active, cursor, lane, row, computation, started>> /\ spawning' = FALSE
    BY <1>2, <2>1 DEF Spawn, TypeOK
  <2>2. CASE active < target /\ MoreFiles /\ ~cancelled
    <3>1. PICK l \in Lane : Claim(l)
      BY <1>2, <2>2 DEF Spawn
    <3>2. /\ cursor' \in 1..Len(Schedule) + 1 /\ lane' \in [Lane -> File \cup {"off"}]
          /\ row' \in [File -> {"pending", "running", "complete", "error", "cancelled"}]
          /\ computation' \in [Key -> {"none", "running", "done", "failed"}]
          /\ started' \in [Key -> Nat]
      <4>1. PICK f : f = Schedule[cursor]
        OBVIOUS
      <4> QED BY <2>2, <3>1, <4>1, ClaimIs
    <3>3. active' \in Nat
      BY <1>2, <2>2 DEF Spawn, TypeOK
    <3> QED BY <1>2, <2>2, <3>2, <3>3 DEF Spawn, TypeOK
  <2> QED BY <1>2, <2>1, <2>2 DEF Spawn
<1>3. CASE LoopHead
  <2>1. resumed \in Lane
    BY <1>3 DEF LoopHead, TypeOK
  <2>2. CASE ~Surplus /\ MoreFiles /\ Claim(resumed) /\ UNCHANGED active
    <3>1. /\ cursor' \in 1..Len(Schedule) + 1 /\ lane' \in [Lane -> File \cup {"off"}]
          /\ row' \in [File -> {"pending", "running", "complete", "error", "cancelled"}]
          /\ computation' \in [Key -> {"none", "running", "done", "failed"}]
          /\ started' \in [Key -> Nat]
      <4>1. PICK f : f = Schedule[cursor]
        OBVIOUS
      <4>2. PICK l \in Lane : l = resumed
        BY <2>1
      <4> QED BY <2>2, <4>1, <4>2, ClaimIs
    <3> QED BY <1>3, <2>2, <3>1 DEF LoopHead, TypeOK
  <2>3. CASE /\ Surplus /\ active' = active - 1
             /\ UNCHANGED <<cursor, lane, row, computation, started>>
    <3>1. active' \in Nat
      BY <2>3 DEF Surplus, TypeOK
    <3> QED BY <1>3, <2>3, <3>1 DEF LoopHead, TypeOK
  <2>4. CASE UNCHANGED <<active, cursor, lane, row, computation, started>>
    BY <1>3, <2>4 DEF LoopHead, TypeOK
  <2> QED BY <1>3, <2>2, <2>3, <2>4 DEF LoopHead
<1>4. ASSUME NEW k \in Key, Settle(k)
      PROVE  TypeOK'
  BY <1>4 DEF Settle, TypeOK, display, lanes
<1>5. ASSUME NEW l \in Lane, Resume(l)
      PROVE  TypeOK'
  <2>1. PICK f : f = lane[l]
    OBVIOUS
  <2>2. f \in File /\ KeyOf[f] \in Key
    BY <1>5, <2>1 DEF Resume, Key
  <2>3. lane' = [lane EXCEPT ![l] = "off"] /\ lane' \in [Lane -> File \cup {"off"}]
    BY <1>5 DEF Resume, TypeOK
  <2>4. row' \in [File -> {"pending", "running", "complete", "error", "cancelled"}]
    BY <1>5, <2>1 DEF Resume, TypeOK
  <2>5. resumed' \in Lane \cup {Nil}
    BY <1>5 DEF Resume, TypeOK
  <2>6. next' \in Collections
    <3>1. UNCHANGED next \/ (~cancelled /\ next' = [next EXCEPT ![f] = Result(f, bound)])
      BY <1>5, <2>1 DEF Resume
    <3>2. bound \in Settings
      <4>1. l \in On
        BY <2>1, <2>2, Marks DEF On
      <4>2. page = "running"
        BY <4>1 DEF LaneInv, LanesAtWork
      <4> QED BY <4>2 DEF TypeOK, LaneInv, FilesProgress
    <3>3. Result(f, bound) \in Results
      BY <2>2, <3>2, ResultIs
    <3> QED BY <3>1, <3>3 DEF TypeOK, Collections
  <2>7. observed' \in Nat /\ target' \in Nat /\ spawning' \in BOOLEAN
    <3>1. CASE UNCHANGED <<observed, target, spawning>>
      BY <3>1 DEF TypeOK
    <3>2. CASE \E m \in Measure \cup {0} : Adapt(m)
      <4>1. PICK m \in Measure \cup {0} : Adapt(m)
        BY <3>2
      <4>2. CASE m > observed
        <5>1. m \in Measure /\ m \in Nat
          BY <4>2, BatchAssumption DEF TypeOK
        <5> QED BY <4>1, <4>2, <5>1, SomeLaneFits DEF Adapt
      <4>3. CASE ~(m > observed)
        BY <4>1, <4>3 DEF Adapt, TypeOK
      <4> QED BY <4>2, <4>3
    <3> QED BY <1>5, <3>1, <3>2 DEF Resume
  <2> QED BY <1>5, <2>3, <2>4, <2>5, <2>6, <2>7 DEF Resume, TypeOK
<1> QED BY <1>1, <1>2, <1>3, <1>4, <1>5

\* Every step keeps the types.
LEMMA TypeKept ==
  ASSUME TypeOK, LaneInv, [Next]_vars
  PROVE  TypeOK'
<1>0. StoreTypeOK'
  BY StoreTyped
<1> USE DEF display, lanes, work
<1>1. CASE \/ Boot \/ LoadEnds \/ ClearHeard \/ ClearCachedRun \/ DeleteAllLocalData
           \/ EditSettings \/ NotSaved \/ Database \/ RetryEnds \/ UNCHANGED vars
  <2>1. /\ page' \in {page, "idle"} /\ loading' \in {loading, TRUE, FALSE} /\ settings' \in Settings
        /\ UNCHANGED <<selected, serial, cancelled, display, lanes, work>>
    BY <1>1 DEF TypeOK, Boot, LoadEnds, ClearHeard, ClearCachedRun, DeleteAllLocalData, EditSettings,
                NotSaved, Database, RetryEnds, vars
  <2>2. loading' \in BOOLEAN
    BY <2>1 DEF TypeOK
  <2>3. settings' \in Settings
    BY <2>1
  <2>4. page' \in {"closed", "idle", "preparing", "running", "saving", "retrying", "resaving"}
    BY <2>1 DEF TypeOK
  <2>5. UNCHANGED <<selected, serial, cancelled, bound, under, results, shown, row, tallied, cursor,
                    lane, active, target, observed, spawning, resumed, computation, started, next>>
    BY <2>1
  <2> QED BY <1>0, <2>2, <2>3, <2>4, <2>5 DEF TypeOK
<1>2. NoResults \in Collections /\ AllRows("pending") \in [File -> {"pending"}]
  BY DEF NoResults, Collections, AllRows
<1>3. ASSUME Closed
      PROVE  TypeOK'
  <2>1. cursor' \in 1..Len(Schedule) + 1
    BY <1>3, BatchAssumption, LenProperties DEF Closed
  <2>2. /\ lane' \in [Lane -> File \cup {"off"}]
        /\ computation' \in [Key -> {"none", "running", "done", "failed"}]
        /\ started' \in [Key -> Nat]
    BY <1>3 DEF Closed
  <2> QED BY <1>0, <1>2, <1>3, <2>1, <2>2 DEF Closed, TypeOK
<1>4. CASE DropHeard
  <2>1. CASE UNCHANGED <<page, loading, selected, settings, serial, cancelled, display, lanes, work>>
    BY <1>0, <2>1 DEF TypeOK
  <2> QED BY <1>3, <1>4, <2>1 DEF DropHeard
<1>5. CASE Restore
  <2>1. record \in Runs
    BY <1>5 DEF Restore, LoadsRun, TypeOK, StoreTypeOK
  <2>2. record.results \in Collections /\ record.settings \in Settings /\ record.serial \in Nat
    BY <2>1 DEF Runs
  <2>3. row' \in [File -> {"pending", "running", "complete", "error", "cancelled"}]
    BY <1>5 DEF Restore, TypeOK
  <2>4. results' \in Collections /\ under' \in Settings \cup {Nil} /\ shown' \in Nat \cup {Nil}
        /\ bound' = bound /\ tallied' = tallied
    BY <1>5, <2>2 DEF Restore, TypeOK
  <2> QED BY <1>0, <1>5, <2>3, <2>4 DEF Restore, TypeOK
<1>6. CASE SelectFiles \/ DeleteResults
  BY <1>0, <1>2, <1>6 DEF SelectFiles, DeleteResults, TypeOK
<1>7. CASE Process
  BY <1>0, <1>2, <1>7 DEF Process, TypeOK
<1>8. CASE Cancel
  BY <1>0, <1>8 DEF Cancel, TypeOK
<1>9. Finally => /\ page' = "idle" /\ cursor' \in 1..Len(Schedule) + 1
                 /\ row' \in [File -> {"pending", "running", "complete", "error", "cancelled"}]
                 /\ active' \in Nat /\ target' \in Nat /\ observed' \in Nat
                 /\ computation' \in [Key -> {"none", "running", "done", "failed"}]
                 /\ started' \in [Key -> Nat] /\ next' \in Collections
  BY <1>2, BatchAssumption DEF Finally, TypeOK
<1>10. CASE PreparingFails
  BY <1>0, <1>9, <1>10 DEF PreparingFails, TypeOK
<1>11. CASE BatchEnds
  BY <1>0, <1>9, <1>11 DEF BatchEnds, TypeOK
<1>12. CASE \E durable \in BOOLEAN : LanesEnd(durable)
  BY <1>0, <1>12, Marks DEF LanesEnd, TypeOK
<1>13. CASE \E f \in File : StepEvent(f) \/ Retry(f) \/ RetryFails(f)
  <2>1. PICK f \in File : StepEvent(f) \/ Retry(f) \/ RetryFails(f)
    BY <1>13
  <2>2. row' \in [File -> {"pending", "running", "complete", "error", "cancelled"}]
    BY <2>1 DEF StepEvent, Retry, RetryFails, Reduced, TypeOK
  <2> QED BY <1>0, <2>1, <2>2 DEF StepEvent, Retry, RetryFails, TypeOK
<1>14. ASSUME NEW f \in File, NEW durable \in BOOLEAN, RetrySucceeds(f, durable)
       PROVE  TypeOK'
  <2>1. PICK s \in RetrySettings :
          results' = [results EXCEPT ![f] = Result(f, s)] /\ under' = s /\ bound' = s
    BY <1>14 DEF RetrySucceeds
  <2>2. s \in Settings
    BY <2>1, Marks DEF RetrySettings, TypeOK
  <2>3. results' \in Collections
    BY <2>1, <2>2, ResultIs DEF TypeOK, Collections
  <2>4. row' \in [File -> {"pending", "running", "complete", "error", "cancelled"}]
    BY <1>14 DEF RetrySucceeds, TypeOK
  <2>5. serial' \in Nat /\ shown' \in Nat
    BY <1>14 DEF RetrySucceeds, TypeOK
  <2> QED BY <1>0, <1>14, <2>1, <2>2, <2>3, <2>4, <2>5 DEF RetrySucceeds, TypeOK
<1>15. CASE \/ \E n \in 1..LaneCap : Begin(n)
            \/ Spawn \/ LoopHead
            \/ \E k \in Key : Settle(k)
            \/ \E l \in Lane : Resume(l)
  BY <1>0, <1>15, LanesTyped
<1>16. CASE Close
  BY <1>3, <1>16 DEF Close
<1> QED
  BY <1>1, <1>4, <1>5, <1>6, <1>7, <1>8, <1>10, <1>11, <1>12, <1>13, <1>14, <1>15, <1>16
  DEF Next, Working

-----------------------------------------------------------------------------
(* Lanes, rows and results.                                                 *)

\* The lanes at work are finitely many.
LEMMA LanesFinite ==
  IsFiniteSet(On) /\ IsFiniteSet(AtWork)
<1>1. IsFiniteSet(1..LaneCap)
  BY FS_Interval, BatchAssumption
<1>2. On \subseteq 1..LaneCap
  BY DEF On, Lane
<1>3. IsFiniteSet(On)
  BY <1>1, <1>2, FS_Subset
<1>4. CASE resumed = Nil
  BY <1>3, <1>4 DEF AtWork
<1>5. CASE resumed # Nil
  <2>1. AtWork = On \cup {resumed}
    BY <1>5 DEF AtWork
  <2> QED BY <1>3, <2>1, FS_AddElement
<1> QED BY <1>3, <1>4, <1>5

\* Steps outside a batch.
LEMMA RestingKeepsLanes ==
  ASSUME LaneInv, UNCHANGED <<lanes, work>>, page \notin {"running", "saving"},
         page' \notin {"preparing", "running", "saving"}, Tally'
  PROVE  LaneInv'
<1>1. Idle /\ On = {} /\ Quiet
  BY DEF LaneInv, LanesAtWork
<1>2. Idle'
  BY <1>1 DEF Idle, lanes, work
<1>3. KeysStart'
  BY DEF LaneInv, KeysStart, work
<1>4. On' = {} /\ Quiet' /\ resumed' = Nil
  BY <1>1 DEF On, Quiet, lanes, Idle
<1>5. \A l, m \in Lane : lane'[l] # "off" /\ lane'[l] = lane'[m] => l = m
  BY DEF LaneInv, LanesAtWork, lanes
<1> QED BY <1>2, <1>3, <1>4, <1>5 DEF LaneInv, LanesAtWork, SomeLaneGoesOn, FilesProgress

\* Steps the lanes do not see.
LEMMA LanesStay ==
  ASSUME LaneInv, UNCHANGED <<page, row, tallied, results, cancelled, bound, lanes, work>>
  PROVE  LaneInv'
<1> USE DEF lanes, work
<1>1. KeysStart' /\ Tally'
  BY DEF LaneInv, KeysStart, Tally
<1>2. On' = On /\ AtWork' = AtWork /\ Quiet' = Quiet /\ Idle' = Idle /\ MoreFiles' = MoreFiles
  BY DEF On, AtWork, Quiet, Idle, MoreFiles
<1>3. LanesAtWork'
  BY <1>2 DEF LaneInv, LanesAtWork
<1>4. SomeLaneGoesOn'
  BY <1>2 DEF LaneInv, SomeLaneGoesOn
<1>5. FilesProgress'
  BY DEF LaneInv, FilesProgress, Under, Untouched, Taken, Over
<1> QED BY <1>1, <1>3, <1>4, <1>5 DEF LaneInv

\* A page that closes.
LEMMA ClosedKeepsLanes ==
  ASSUME Closed
  PROVE  LaneInv'
<1>1. Idle' /\ Quiet'
  BY DEF Closed, Idle, Quiet
<1>2. On' = {} /\ resumed' = Nil
  BY DEF Closed, On
<1>3. KeysStart'
  BY DEF Closed, KeysStart
<1>4. \A l, m \in Lane : lane'[l] # "off" /\ lane'[l] = lane'[m] => l = m
  BY DEF Closed
<1> QED BY <1>1, <1>2, <1>3, <1>4
     DEF Closed, LaneInv, LanesAtWork, SomeLaneGoesOn, FilesProgress, Tally

\* A batch begins, or does not.
LEMMA ProcessKeepsLanes ==
  ASSUME LaneInv, Process
  PROVE  LaneInv'
<1>1. /\ page = "idle" /\ page' = "preparing" /\ ~tallied' /\ row' = AllRows("pending")
      /\ UNCHANGED <<lanes, work>>
  BY DEF Process
<1>2. Idle /\ On = {} /\ Quiet
  BY <1>1 DEF LaneInv, LanesAtWork
<1>3. Idle' /\ On' = {} /\ Quiet' /\ resumed' = Nil
  BY <1>1, <1>2 DEF Idle, On, Quiet, lanes, work
<1>4. KeysStart'
  BY <1>1 DEF LaneInv, KeysStart, work
<1>5. \A l, m \in Lane : lane'[l] # "off" /\ lane'[l] = lane'[m] => l = m
  BY <1>1 DEF LaneInv, LanesAtWork, lanes
<1>6. (AllRows("pending"))' = AllRows("pending")
  BY DEF AllRows
<1> QED BY <1>1, <1>3, <1>4, <1>5, <1>6 DEF LaneInv, LanesAtWork, SomeLaneGoesOn, FilesProgress, Tally

LEMMA PreparingFailsKeepsLanes ==
  ASSUME LaneInv, PreparingFails
  PROVE  LaneInv'
<1>1. /\ page = "preparing" /\ page' = "idle" /\ Finally /\ UNCHANGED <<tallied, lane, spawning, resumed>>
  BY DEF PreparingFails, Finally
<1>2. Idle /\ ~tallied
  BY <1>1 DEF LaneInv, LanesAtWork, FilesProgress
<1>3. Idle' /\ Quiet'
  BY <1>1, <1>2 DEF Idle, Finally, Quiet
<1>4. On' = {} /\ resumed' = Nil /\ \A l \in Lane : lane'[l] = "off"
  BY <1>3 DEF Idle, On
<1>5. KeysStart'
  BY <1>3 DEF Idle, KeysStart
<1> QED BY <1>1, <1>2, <1>3, <1>4, <1>5
     DEF LaneInv, LanesAtWork, SomeLaneGoesOn, FilesProgress, Tally

\* The lanes are to be started.
LEMMA BeginKeepsLanes ==
  ASSUME TypeOK, LaneInv, NEW n \in 1..LaneCap, Begin(n)
  PROVE  LaneInv'
<1>1. /\ page = "preparing" /\ page' = "running" /\ bound' = settings /\ target' = n /\ spawning'
      /\ UNCHANGED <<row, tallied, cancelled, cursor, lane, active, observed, resumed, work>>
  BY DEF Begin
<1>2. Idle /\ ~tallied /\ row = AllRows("pending")
  BY <1>1 DEF LaneInv, LanesAtWork, FilesProgress
<1>3. cursor = 1 /\ active = 0 /\ resumed = Nil /\ next = NoResults /\ \A l \in Lane : lane[l] = "off"
  BY <1>2 DEF Idle
<1>4. KeysStart'
  BY <1>1 DEF LaneInv, KeysStart, work
<1>5. LanesAtWork'
  BY <1>1, <1>3 DEF LanesAtWork
<1>6. SomeLaneGoesOn'
  <2>1. AtWork' = {}
    BY <1>1, <1>3 DEF AtWork, On
  <2>2. active' = Cardinality(AtWork')
    BY <1>1, <1>3, <2>1, FS_EmptySet
  <2>3. target' >= 1
    BY <1>1
  <2> QED BY <1>1, <2>2, <2>3 DEF SomeLaneGoesOn
<1>7. FilesProgress'
  <2>1. bound' # Nil
    BY <1>1, Marks DEF TypeOK
  <2>2. \A f \in File : row'[f] = "pending" /\ next'[f] = Nil
    BY <1>1, <1>2, <1>3 DEF AllRows, NoResults, work
  <2>3. Under(next, bound)'
    BY <2>2 DEF Under
  <2>4. \A i \in 1..Len(Schedule) : Schedule[i] \in File
    BY BatchAssumption, ElementOfSeq
  <2>5. \A i \in 1..Len(Schedule) : i >= cursor' /\ Untouched(Schedule[i])'
    <3>1. ASSUME NEW i \in 1..Len(Schedule)
          PROVE  i >= cursor' /\ Untouched(Schedule[i])'
      <4>1. \A l \in Lane : lane'[l] # Schedule[i]
        BY <1>1, <1>3, <2>4, Marks
      <4> QED BY <1>1, <1>3, <2>2, <2>4, <4>1 DEF Untouched
    <3> QED BY <3>1
  <2> QED BY <1>1, <1>2, <2>1, <2>2, <2>3, <2>5 DEF FilesProgress
<1> QED BY <1>1, <1>2, <1>4, <1>5, <1>6, <1>7 DEF LaneInv, Tally

\* Cancelling.
LEMMA CancelKeepsLanes ==
  ASSUME TypeOK, LaneInv, Cancel
  PROVE  LaneInv'
<1>1. /\ page \in {"preparing", "running", "saving"} /\ Quiet /\ cancelled'
      /\ computation' = [k \in Key |-> IF computation[k] = "running" THEN "failed" ELSE computation[k]]
      /\ UNCHANGED <<page, results, row, tallied, bound, lanes, started, next>>
  BY DEF Cancel, display
<1>2. KeysStart'
  BY <1>1 DEF LaneInv, KeysStart
<1>3. On' = On /\ Quiet' = Quiet /\ resumed' = Nil
  BY <1>1 DEF On, Quiet, lanes
<1>4. Idle => Idle'
  BY <1>1 DEF Idle, lanes
<1>5. \A l, m \in Lane : lane'[l] # "off" /\ lane'[l] = lane'[m] => l = m
  BY <1>1 DEF LaneInv, LanesAtWork, lanes
<1>6. LanesAtWork'
  BY <1>1, <1>3, <1>4, <1>5 DEF LaneInv, LanesAtWork
<1>7. SomeLaneGoesOn'
  BY <1>1 DEF LaneInv, SomeLaneGoesOn, lanes
<1>8. FilesProgress'
  BY <1>1 DEF LaneInv, FilesProgress, Under, Untouched, Taken, Over, lanes
<1>9. Tally'
  BY <1>1 DEF LaneInv, Tally
<1> QED BY <1>2, <1>6, <1>7, <1>8, <1>9 DEF LaneInv

\* A lane takes the next file of the schedule.
LEMMA ClaimKeepsFiles ==
  ASSUME TypeOK, LaneInv, page = "running", MoreFiles, NEW l \in Lane, lane[l] = "off", Claim(l),
         UNCHANGED <<page, tallied, bound, results, next, cancelled>>
  PROVE  /\ KeysStart' /\ FilesProgress' /\ Tally' /\ On' = On \cup {l}
         /\ \A i, j \in Lane : lane'[i] # "off" /\ lane'[i] = lane'[j] => i = j
<1>1. PICK f : f = Schedule[cursor]
  OBVIOUS
<1>2. PICK k : k = KeyOf[f]
  OBVIOUS
<1>3. /\ f \in File /\ k \in Key /\ cursor \in 1..Len(Schedule)
      /\ cursor' = cursor + 1
      /\ lane' = [lane EXCEPT ![l] = f] /\ lane' \in [Lane -> File \cup {"off"}]
      /\ row' = [row EXCEPT ![f] = "running"]
      /\ IF computation[k] # "none" THEN UNCHANGED <<computation, started>>
         ELSE /\ computation' = [computation EXCEPT ![k] = "running"]
              /\ started' = [started EXCEPT ![k] = @ + 1]
  BY <1>1, <1>2, ClaimIs
<1>4. lane \in [Lane -> File \cup {"off"}] /\ f # "off"
  BY <1>3, Marks DEF TypeOK
<1>5. Untouched(f)
  BY <1>1, <1>3 DEF LaneInv, FilesProgress
<1>6. /\ lane'[l] = f
      /\ \A j \in Lane : j # l => lane'[j] = lane[j] /\ lane'[j] # f
      /\ \A g \in File : g # f => row'[g] = row[g]
      /\ row'[f] = "running"
  BY <1>3, <1>4, <1>5 DEF Untouched, TypeOK
<1>7. KeysStart'
  <2>1. ASSUME NEW h \in Key
        PROVE  started'[h] = IF computation'[h] = "none" THEN 0 ELSE 1
    <3>1. started[h] = IF computation[h] = "none" THEN 0 ELSE 1
      BY DEF LaneInv, KeysStart
    <3>2. CASE computation[k] # "none"
      BY <1>3, <3>1, <3>2
    <3>3. CASE computation[k] = "none" /\ h # k
      BY <1>3, <3>1, <3>3 DEF TypeOK
    <3>4. CASE computation[k] = "none" /\ h = k
      BY <1>3, <3>1, <3>4 DEF TypeOK
    <3> QED BY <3>2, <3>3, <3>4
  <2> QED BY <2>1 DEF KeysStart
<1>8. On' = On \cup {l}
  BY <1>4, <1>6 DEF On
<1>9. \A i, j \in Lane : lane'[i] # "off" /\ lane'[i] = lane'[j] => i = j
  BY <1>6 DEF LaneInv, LanesAtWork
<1>10. \A i \in 1..Len(Schedule) : Schedule[i] \in File /\ (i # cursor => Schedule[i] # f)
  BY <1>1, <1>3, BatchAssumption, ElementOfSeq
<1>11. ASSUME NEW i \in 1..Len(Schedule)
       PROVE  IF i >= cursor' THEN Untouched(Schedule[i])'
              ELSE Taken(Schedule[i])' \/ Over(Schedule[i])'
  <2>1. i \in Nat /\ cursor \in Nat
    BY <1>3
  <2>2. CASE i = cursor
    <3>1. Taken(Schedule[i])'
      BY <1>1, <1>6, <2>2 DEF Taken
    <3> QED BY <1>3, <2>1, <2>2, <3>1
  <2>3. CASE i > cursor
    <3>1. Untouched(Schedule[i])
      BY <2>1, <2>3 DEF LaneInv, FilesProgress
    <3>2. Schedule[i] # f /\ Schedule[i] \in File
      BY <1>10, <2>1, <2>3
    <3>3. Untouched(Schedule[i])'
      BY <1>6, <3>1, <3>2 DEF Untouched
    <3> QED BY <1>3, <2>1, <2>3, <3>3
  <2>4. CASE i < cursor
    <3>1. Taken(Schedule[i]) \/ Over(Schedule[i])
      BY <2>1, <2>4 DEF LaneInv, FilesProgress
    <3>2. Schedule[i] # f /\ Schedule[i] \in File /\ Schedule[i] # "off"
      BY <1>10, <2>1, <2>4, Marks
    <3>3. Taken(Schedule[i]) => Taken(Schedule[i])'
      BY <1>6, <3>2 DEF Taken
    <3>4. Over(Schedule[i]) => Over(Schedule[i])'
      BY <1>6, <3>2 DEF Over
    <3> QED BY <1>3, <2>1, <2>4, <3>1, <3>3, <3>4
  <2> QED BY <2>1, <2>2, <2>3, <2>4
<1>12. \A g \in File : (row'[g] = "complete" <=> next'[g] # Nil) /\ row'[g] # "cancelled"
  <2>1. \A g \in File : (row[g] = "complete" <=> next[g] # Nil) /\ row[g] # "cancelled"
    BY DEF LaneInv, FilesProgress
  <2>2. next[f] = Nil
    BY <1>3, <1>5, <2>1 DEF Untouched
  <2> QED BY <1>6, <2>1, <2>2
<1>13. FilesProgress'
  <2>1. ~tallied' /\ bound' # Nil /\ Under(next, bound)'
    BY DEF LaneInv, FilesProgress, Under
  <2> QED BY <1>11, <1>12, <2>1 DEF FilesProgress
<1>14. Tally'
  BY DEF LaneInv, FilesProgress, Tally
<1> QED BY <1>7, <1>8, <1>9, <1>13, <1>14

LEMMA SpawnKeepsLanes ==
  ASSUME TypeOK, LaneInv, Spawn
  PROVE  LaneInv'
<1>1. /\ spawning
      /\ UNCHANGED <<page, cancelled, bound, results, tallied, target, resumed, next>>
  BY DEF Spawn
<1>2. page = "running"
  BY <1>1 DEF LaneInv, LanesAtWork, Quiet
<1>3. active \in Nat /\ target \in Nat /\ target >= 1
  BY <1>2 DEF LaneInv, SomeLaneGoesOn, TypeOK
<1>4. CASE active < target /\ MoreFiles /\ ~cancelled
  <2>1. PICK l \in Lane : lane[l] = "off" /\ l # resumed /\ Claim(l)
    BY <1>4 DEF Spawn
  <2>2. active' = active + 1 /\ spawning'
    BY <1>1, <1>4 DEF Spawn
  <2>3. /\ KeysStart' /\ FilesProgress' /\ Tally' /\ On' = On \cup {l}
        /\ \A i, j \in Lane : lane'[i] # "off" /\ lane'[i] = lane'[j] => i = j
    BY <1>1, <1>2, <1>4, <2>1, ClaimKeepsFiles
  <2>4. resumed # Nil => lane'[resumed] = "off" /\ ~cancelled'
    <3>1. resumed # Nil => resumed \in Lane /\ lane[resumed] = "off"
      BY DEF LaneInv, LanesAtWork, TypeOK
    <3>2. lane' = [lane EXCEPT ![l] = Schedule[cursor]]
      BY <2>1 DEF Claim
    <3> QED BY <1>1, <1>4, <2>1, <3>1, <3>2 DEF TypeOK
  <2>5. LanesAtWork'
    BY <1>1, <1>2, <2>3, <2>4 DEF LanesAtWork
  <2>6. AtWork' = AtWork \cup {l} /\ l \notin AtWork
    BY <1>1, <2>1, <2>3 DEF AtWork, On
  <2>7. active = Cardinality(AtWork)
    BY <1>2, <1>4 DEF LaneInv, SomeLaneGoesOn
  <2>8. Cardinality(AtWork') = active + 1
    BY <2>6, <2>7, LanesFinite, FS_AddElement
  <2>9. SomeLaneGoesOn'
    BY <1>1, <1>3, <2>2, <2>8 DEF SomeLaneGoesOn
  <2> QED BY <2>3, <2>5, <2>9 DEF LaneInv
<1>5. CASE ~(active < target /\ MoreFiles /\ ~cancelled)
  <2>1. ~spawning' /\ UNCHANGED <<active, cursor, lane, row, computation, started>>
    BY <1>5 DEF Spawn
  <2>2. KeysStart' /\ Tally'
    BY <1>1, <2>1 DEF LaneInv, KeysStart, Tally
  <2>3. FilesProgress'
    BY <1>1, <2>1 DEF LaneInv, FilesProgress, Under, Untouched, Taken, Over
  <2>4. On' = On /\ AtWork' = AtWork /\ MoreFiles' = MoreFiles
    BY <1>1, <2>1 DEF On, AtWork, MoreFiles
  <2>5. LanesAtWork'
    BY <1>1, <1>2, <2>1 DEF LaneInv, LanesAtWork
  <2>6. SomeLaneGoesOn'
    BY <1>1, <1>2, <1>3, <1>5, <2>1, <2>4 DEF LaneInv, SomeLaneGoesOn
  <2> QED BY <2>2, <2>3, <2>5, <2>6 DEF LaneInv
<1> QED BY <1>4, <1>5

LEMMA LoopHeadKeepsLanes ==
  ASSUME TypeOK, LaneInv, LoopHead
  PROVE  LaneInv'
<1>1. /\ ~spawning /\ resumed # Nil /\ resumed' = Nil
      /\ UNCHANGED <<page, cancelled, bound, results, tallied, target, spawning, next>>
  BY DEF LoopHead
<1>2. page = "running" /\ resumed \in Lane /\ lane[resumed] = "off" /\ ~cancelled
  BY <1>1 DEF LaneInv, LanesAtWork, Quiet, TypeOK
<1>3. active \in Nat /\ target \in Nat /\ target >= 1 /\ (MoreFiles => active = Cardinality(AtWork) /\ active >= 1)
  BY <1>1, <1>2 DEF LaneInv, SomeLaneGoesOn, TypeOK
<1>4. AtWork = On \cup {resumed} /\ resumed \notin On
  BY <1>1, <1>2 DEF AtWork, On
<1>5. CASE ~Surplus /\ MoreFiles /\ Claim(resumed) /\ UNCHANGED active
  <2>1. PICK l \in Lane : l = resumed
    BY <1>2
  <2>2. /\ KeysStart' /\ FilesProgress' /\ Tally' /\ On' = On \cup {l}
        /\ \A i, j \in Lane : lane'[i] # "off" /\ lane'[i] = lane'[j] => i = j
    BY <1>1, <1>2, <1>5, <2>1, ClaimKeepsFiles
  <2>3. LanesAtWork'
    BY <1>1, <1>2, <2>2 DEF LanesAtWork
  <2>4. AtWork' = AtWork
    BY <1>1, <1>4, <2>1, <2>2 DEF AtWork
  <2>5. SomeLaneGoesOn'
    BY <1>1, <1>3, <1>5, <2>4 DEF SomeLaneGoesOn
  <2> QED BY <2>2, <2>3, <2>5 DEF LaneInv
<1>6. CASE /\ UNCHANGED <<cursor, lane, row, computation, started>>
           /\ \/ Surplus /\ active' = active - 1
              \/ ~Surplus /\ ~MoreFiles /\ UNCHANGED active
  <2>1. KeysStart' /\ Tally'
    BY <1>1, <1>6 DEF LaneInv, KeysStart, Tally
  <2>2. FilesProgress'
    BY <1>1, <1>6 DEF LaneInv, FilesProgress, Under, Untouched, Taken, Over
  <2>3. LanesAtWork'
    BY <1>1, <1>2, <1>6 DEF LaneInv, LanesAtWork
  <2>4. AtWork' = AtWork \ {resumed} /\ MoreFiles' = MoreFiles
    BY <1>1, <1>4, <1>6 DEF AtWork, On, MoreFiles
  <2>5. Cardinality(AtWork') = Cardinality(AtWork) - 1
    BY <1>4, <2>4, LanesFinite, FS_RemoveElement
  <2>6. SomeLaneGoesOn'
    BY <1>1, <1>3, <1>6, <2>4, <2>5 DEF SomeLaneGoesOn, Surplus
  <2> QED BY <2>1, <2>2, <2>3, <2>6 DEF LaneInv
<1> QED BY <1>5, <1>6 DEF LoopHead

LEMMA SettleKeepsLanes ==
  ASSUME TypeOK, LaneInv, NEW k \in Key, Settle(k)
  PROVE  LaneInv'
<1>1. /\ computation[k] = "running"
      /\ UNCHANGED <<page, cancelled, bound, results, row, tallied, cursor, lane, active, target,
                     observed, spawning, resumed, started, next>>
  BY DEF Settle, display, lanes
<1>2. PICK how \in {"done", "failed"} : computation' = [computation EXCEPT ![k] = how]
  BY DEF Settle
<1>3. ~Idle
  BY <1>1 DEF Idle
<1>4. KeysStart'
  BY <1>1, <1>2 DEF LaneInv, KeysStart, TypeOK
<1>5. On' = On /\ AtWork' = AtWork /\ Quiet' = Quiet /\ MoreFiles' = MoreFiles
  BY <1>1 DEF On, AtWork, Quiet, MoreFiles
<1>6. LanesAtWork'
  BY <1>1, <1>3, <1>5 DEF LaneInv, LanesAtWork
<1>7. SomeLaneGoesOn' /\ Tally'
  BY <1>1, <1>5 DEF LaneInv, SomeLaneGoesOn, Tally
<1>8. FilesProgress'
  BY <1>1 DEF LaneInv, FilesProgress, Under, Untouched, Taken, Over
<1> QED BY <1>4, <1>6, <1>7, <1>8 DEF LaneInv

\* A lane goes on after the answer for its file.
LEMMA ResumeKeepsLanes ==
  ASSUME TypeOK, LaneInv, NEW l \in Lane, Resume(l)
  PROVE  LaneInv'
<1>1. PICK f : f = lane[l]
  OBVIOUS
<1>2. /\ Quiet /\ f \in File /\ f # "off" /\ lane' = [lane EXCEPT ![l] = "off"]
      /\ UNCHANGED <<page, results, tallied, bound, cancelled, cursor, active, computation, started>>
  BY <1>1, Marks DEF Resume
<1>3. l \in On
  BY <1>1, <1>2 DEF On
<1>4. page = "running" /\ ~spawning /\ resumed = Nil
  BY <1>2, <1>3 DEF LaneInv, LanesAtWork, Quiet
<1>5. /\ lane'[l] = "off"
      /\ \A j \in Lane : j # l => lane'[j] = lane[j] /\ lane'[j] # f
      /\ \A j \in Lane : lane'[j] # f
  BY <1>1, <1>2 DEF LaneInv, LanesAtWork, TypeOK
<1>6. On' = On \ {l} /\ AtWork = On
  BY <1>3, <1>4, <1>5 DEF On, AtWork
<1>7. KeysStart' /\ Tally'
  BY <1>2, <1>4 DEF LaneInv, KeysStart, FilesProgress, Tally
<1>8. \A i, j \in Lane : lane'[i] # "off" /\ lane'[i] = lane'[j] => i = j
  BY <1>5 DEF LaneInv, LanesAtWork
<1>9. \A i \in 1..Len(Schedule) : Schedule[i] \in File /\ Schedule[i] # "off"
  BY BatchAssumption, ElementOfSeq, Marks
<1>10. row[f] = "running"
  <2>1. PICK i \in 1..Len(Schedule) : Schedule[i] = f
    BY <1>2, BatchAssumption
  <2>2. Untouched(f) \/ Taken(f) \/ Over(f)
    BY <1>4, <2>1 DEF LaneInv, FilesProgress
  <2> QED BY <1>1, <2>2 DEF Untouched, Taken, Over
<1>11. next[f] = Nil /\ (\A g \in File : (row[g] = "complete" <=> next[g] # Nil) /\ row[g] # "cancelled")
  BY <1>2, <1>4, <1>10 DEF LaneInv, FilesProgress
<1>12. bound # Nil /\ bound \in Settings /\ Under(next, bound) /\ ~tallied
  BY <1>4 DEF LaneInv, FilesProgress, TypeOK
\* The files other than the lane's.
<1>13. ASSUME \A g \in File : g # f => row'[g] = row[g],
              row'[f] \in {"complete", "error"} \/ cancelled
       PROVE  \A i \in 1..Len(Schedule) :
                IF i >= cursor' THEN Untouched(Schedule[i])'
                ELSE Taken(Schedule[i])' \/ Over(Schedule[i])'
  <2>1. ASSUME NEW i \in 1..Len(Schedule)
        PROVE  IF i >= cursor THEN Untouched(Schedule[i])'
               ELSE Taken(Schedule[i])' \/ Over(Schedule[i])'
    <3>1. Untouched(Schedule[i]) => Untouched(Schedule[i])'
      BY <1>1, <1>5, <1>9, <1>13 DEF Untouched
    <3>2. Taken(Schedule[i]) => Taken(Schedule[i])' \/ Over(Schedule[i])'
      <4>1. CASE Schedule[i] = f
        BY <1>2, <1>5, <1>13, <4>1 DEF Over
      <4>2. CASE Schedule[i] # f
        BY <1>1, <1>5, <1>9, <1>13, <4>2 DEF Taken
      <4> QED BY <4>1, <4>2
    <3>3. Over(Schedule[i]) => Over(Schedule[i])'
      <4>1. Over(Schedule[i]) => Schedule[i] # f
        BY <1>1 DEF Over
      <4>2. \A j \in Lane : lane[j] # Schedule[i] => lane'[j] # Schedule[i]
        BY <1>5, <1>9
      <4> QED BY <1>2, <1>9, <1>13, <4>1, <4>2 DEF Over
    <3> QED BY <1>4, <3>1, <3>2, <3>3 DEF LaneInv, FilesProgress
  <2> QED BY <1>2, <2>1
<1>14. CASE cancelled /\ UNCHANGED <<row, next, resumed, observed, target, spawning>>
  <2>1. \A i \in 1..Len(Schedule) :
          IF i >= cursor' THEN Untouched(Schedule[i])'
          ELSE Taken(Schedule[i])' \/ Over(Schedule[i])'
    BY <1>13, <1>14
  <2>2. FilesProgress'
    BY <1>2, <1>4, <1>11, <1>12, <1>14, <2>1 DEF FilesProgress, Under
  <2>3. LanesAtWork'
    BY <1>2, <1>4, <1>8, <1>14 DEF LanesAtWork
  <2>4. SomeLaneGoesOn'
    BY <1>2, <1>14 DEF LaneInv, SomeLaneGoesOn
  <2> QED BY <1>7, <2>2, <2>3, <2>4 DEF LaneInv
<1>15. ASSUME ~cancelled, resumed' = l, target' >= 1
       PROVE  LanesAtWork' /\ SomeLaneGoesOn'
  <2>1. LanesAtWork'
    BY <1>2, <1>4, <1>5, <1>8, <1>15, Marks DEF LanesAtWork
  <2>2. AtWork' = AtWork
    BY <1>3, <1>6, <1>15, Marks DEF AtWork
  <2>3. MoreFiles' = MoreFiles
    BY <1>2 DEF MoreFiles
  <2> QED BY <1>2, <1>4, <1>15, <2>1, <2>2, <2>3 DEF LaneInv, SomeLaneGoesOn
<1>16. CASE /\ ~cancelled /\ row' = [row EXCEPT ![f] = "error"] /\ resumed' = l
            /\ UNCHANGED <<next, observed, target, spawning>>
  <2>1. (\A g \in File : g # f => row'[g] = row[g]) /\ row'[f] = "error"
    BY <1>2, <1>16 DEF TypeOK
  <2>2. \A i \in 1..Len(Schedule) :
          IF i >= cursor' THEN Untouched(Schedule[i])'
          ELSE Taken(Schedule[i])' \/ Over(Schedule[i])'
    BY <1>13, <2>1
  <2>3. \A g \in File : (row'[g] = "complete" <=> next'[g] # Nil) /\ row'[g] # "cancelled"
    BY <1>11, <1>16, <2>1
  <2>4. FilesProgress'
    BY <1>2, <1>4, <1>12, <1>16, <2>2, <2>3 DEF FilesProgress, Under
  <2>5. target' >= 1
    BY <1>4, <1>16 DEF LaneInv, SomeLaneGoesOn
  <2> QED BY <1>7, <1>15, <1>16, <2>4, <2>5 DEF LaneInv
<1>17. CASE /\ ~cancelled /\ next' = [next EXCEPT ![f] = Result(f, bound)]
            /\ row' = [row EXCEPT ![f] = "complete"] /\ resumed' = l
            /\ \E m \in Measure \cup {0} : Adapt(m)
  <2>1. (\A g \in File : g # f => row'[g] = row[g]) /\ row'[f] = "complete"
    BY <1>2, <1>17 DEF TypeOK
  <2>2. \A i \in 1..Len(Schedule) :
          IF i >= cursor' THEN Untouched(Schedule[i])'
          ELSE Taken(Schedule[i])' \/ Over(Schedule[i])'
    BY <1>13, <2>1
  <2>3. (\A g \in File : g # f => next'[g] = next[g]) /\ next'[f] = Result(f, bound)
    BY <1>2, <1>17 DEF TypeOK, Collections
  <2>4. Result(f, bound) # Nil
    BY <1>2, <1>12, ResultIs
  <2>5. \A g \in File : (row'[g] = "complete" <=> next'[g] # Nil) /\ row'[g] # "cancelled"
    BY <1>11, <2>1, <2>3, <2>4
  <2>6. Under(next, bound)'
    BY <1>2, <1>12, <2>3 DEF Under, Result
  <2>7. FilesProgress'
    BY <1>2, <1>4, <1>12, <2>2, <2>5, <2>6 DEF FilesProgress
  <2>8. target' >= 1
    <3>1. PICK m \in Measure \cup {0} : Adapt(m)
      BY <1>17
    <3>2. CASE m > observed
      <4>1. m \in Measure
        BY <3>2 DEF TypeOK
      <4> QED BY <3>1, <3>2, <4>1, SomeLaneFits DEF Adapt
    <3>3. CASE ~(m > observed)
      BY <1>4, <3>1, <3>3 DEF Adapt, LaneInv, SomeLaneGoesOn
    <3> QED BY <3>2, <3>3
  <2> QED BY <1>7, <1>15, <1>17, <2>7, <2>8 DEF LaneInv
<1> QED BY <1>1, <1>14, <1>16, <1>17 DEF Resume

\* A late step event changes nothing that matters.
LEMMA StepEventKeepsLanes ==
  ASSUME TypeOK, LaneInv, NEW f \in File, StepEvent(f)
  PROVE  LaneInv'
<1>1. row[f] \in {"running", "complete", "error", "cancelled"}
  BY DEF StepEvent, TypeOK
<1>2. row' = row
  BY <1>1 DEF StepEvent, Reduced, TypeOK
<1> QED BY <1>2, LanesStay DEF StepEvent

\* When every lane has ended, every file is over.
LEMMA LanesEndKeepsLanes ==
  ASSUME TypeOK, LaneInv, NEW durable \in BOOLEAN, LanesEnd(durable)
  PROVE  LaneInv'
<1>1. /\ page = "running" /\ page' = "saving" /\ Quiet /\ results' = next
      /\ \A l \in Lane : lane[l] = "off"
      /\ UNCHANGED <<cancelled, bound, row, tallied, lanes, work>>
  BY DEF LanesEnd
<1>2. AtWork = {} /\ On = {} /\ ~spawning /\ resumed = Nil
  BY <1>1 DEF AtWork, On, Quiet
<1>3. \A f \in File : row[f] \in {"complete", "error"} \/ cancelled
  <2>1. CASE cancelled
    BY <2>1
  <2>2. CASE ~cancelled
    <3>1. ~MoreFiles
      <4>1. Cardinality(AtWork) = 0
        BY <1>2, FS_EmptySet
      <4> QED BY <1>1, <1>2, <2>2, <4>1 DEF LaneInv, SomeLaneGoesOn
    <3>2. ASSUME NEW f \in File
          PROVE  row[f] \in {"complete", "error"}
      <4>1. PICK i \in 1..Len(Schedule) : Schedule[i] = f
        BY BatchAssumption
      <4>2. ~(i >= cursor)
        BY <3>1 DEF MoreFiles, TypeOK
      <4>3. Taken(f) \/ Over(f)
        BY <1>1, <4>1, <4>2 DEF LaneInv, FilesProgress
      <4>4. ~Taken(f)
        BY <1>1, Marks DEF Taken
      <4> QED BY <2>2, <4>3, <4>4 DEF Over
    <3> QED BY <3>2
  <2> QED BY <2>1, <2>2
<1>4. KeysStart'
  BY <1>1 DEF LaneInv, KeysStart, work
<1>5. On' = {} /\ Quiet' /\ resumed' = Nil
  BY <1>1, <1>2 DEF On, Quiet, lanes
<1>6. \A l, m \in Lane : lane'[l] # "off" /\ lane'[l] = lane'[m] => l = m
  BY <1>1 DEF lanes
<1>7. LanesAtWork'
  BY <1>1, <1>5, <1>6 DEF LanesAtWork
<1>8. FilesProgress'
  BY <1>1, <1>3 DEF LaneInv, FilesProgress
<1>9. Tally' /\ SomeLaneGoesOn'
  BY <1>1 DEF LaneInv, FilesProgress, Tally, SomeLaneGoesOn
<1> QED BY <1>4, <1>7, <1>8, <1>9 DEF LaneInv

\* The batch is over.
LEMMA BatchEndsKeepsLanes ==
  ASSUME TypeOK, LaneInv, BatchEnds
  PROVE  LaneInv'
<1>1. /\ page = "saving" /\ page' = "idle" /\ Finally
      /\ UNCHANGED <<cancelled, results, lane, spawning, resumed>>
  BY DEF BatchEnds, Finally
<1>2. On = {} /\ Quiet
  BY <1>1 DEF LaneInv, LanesAtWork
<1>3. lane = [l \in Lane |-> "off"]
  BY <1>2 DEF On, TypeOK
<1>4. Idle'
  BY <1>1, <1>2, <1>3 DEF Idle, Finally, Quiet
<1>5. On' = {} /\ Quiet' /\ resumed' = Nil /\ \A l \in Lane : lane'[l] = "off"
  BY <1>4 DEF Idle, On, Quiet
<1>6. KeysStart'
  BY <1>4 DEF Idle, KeysStart
<1>7. Tally'
  <2>1. \A f \in File : row'[f] = IF cancelled /\ Unfinished(f) THEN "cancelled" ELSE row[f]
    BY <1>1 DEF Finally
  <2>2. \A f \in File :
          /\ row[f] = "complete" <=> results[f] # Nil
          /\ row[f] \in {"complete", "error"} \/ cancelled
    BY <1>1 DEF LaneInv, FilesProgress
  <2> QED BY <1>1, <2>1, <2>2 DEF Tally, Unfinished
<1> QED BY <1>1, <1>4, <1>5, <1>6, <1>7 DEF LaneInv, LanesAtWork, SomeLaneGoesOn, FilesProgress

\* The retry of one file.
LEMMA RetryingKeepsLanes ==
  ASSUME TypeOK, LaneInv, NEW f \in File,
         \/ Retry(f) \/ RetryFails(f)
         \/ \E durable \in BOOLEAN : RetrySucceeds(f, durable)
  PROVE  LaneInv'
<1>1. CASE Retry(f)
  <2>1. /\ page = "idle" /\ page' = "retrying" /\ row[f] = "error"
        /\ row' = [row EXCEPT ![f] = "running"]
        /\ UNCHANGED <<cancelled, results, tallied, lanes, work>>
    BY <1>1 DEF Retry
  <2>2. Tally'
    BY <2>1 DEF LaneInv, Tally, TypeOK
  <2> QED BY <2>1, <2>2, RestingKeepsLanes
<1>2. CASE RetryFails(f)
  <2>1. /\ page = "retrying" /\ page' = "idle" /\ row[f] = "running"
        /\ row' = [row EXCEPT ![f] = "error"]
        /\ UNCHANGED <<cancelled, results, tallied, lanes, work>>
    BY <1>2 DEF RetryFails
  <2>2. Tally'
    BY <2>1 DEF LaneInv, Tally, TypeOK
  <2> QED BY <2>1, <2>2, RestingKeepsLanes
<1>3. ASSUME NEW durable \in BOOLEAN, RetrySucceeds(f, durable)
      PROVE  LaneInv'
  <2>1. /\ page = "retrying" /\ page' = "resaving" /\ row[f] = "running"
        /\ row' = [row EXCEPT ![f] = "complete"]
        /\ UNCHANGED <<cancelled, tallied, lanes, work>>
    BY <1>3 DEF RetrySucceeds
  <2>2. PICK s \in RetrySettings : results' = [results EXCEPT ![f] = Result(f, s)]
    BY <1>3 DEF RetrySucceeds
  <2>3. s \in Settings
    BY <2>2, Marks DEF RetrySettings, TypeOK
  <2>4. results'[f] # Nil /\ \A g \in File : g # f => results'[g] = results[g]
    BY <2>2, <2>3, ResultIs DEF TypeOK, Collections
  <2>5. row'[f] = "complete" /\ \A g \in File : g # f => row'[g] = row[g]
    BY <2>1 DEF TypeOK
  <2>6. Tally'
    BY <2>1, <2>4, <2>5 DEF LaneInv, Tally
  <2> QED BY <2>1, <2>6, RestingKeepsLanes
<1> QED BY <1>1, <1>2, <1>3

\* Every step keeps what holds of the lanes.
LEMMA LaneInvKept ==
  ASSUME TypeOK, LaneInv, StoreInv, [Next]_vars
  PROVE  LaneInv'
<1>1. CASE \/ LoadEnds \/ ClearHeard \/ ClearCachedRun \/ DeleteAllLocalData \/ EditSettings
           \/ NotSaved \/ Database \/ UNCHANGED vars
  <2>1. UNCHANGED <<page, row, tallied, results, cancelled, bound, lanes, work>>
    BY <1>1 DEF LoadEnds, ClearHeard, ClearCachedRun, DeleteAllLocalData, EditSettings, NotSaved,
                Database, vars, display
  <2> QED BY <2>1, LanesStay
<1>2. CASE Boot
  <2>1. page = "closed" /\ page' = "idle" /\ UNCHANGED <<lanes, work, tallied>>
    BY <1>2 DEF Boot, display
  <2>2. ~tallied
    BY <2>1 DEF LaneInv, Tally
  <2> QED BY <2>1, <2>2, RestingKeepsLanes DEF Tally
<1>3. CASE Close
  BY <1>3, ClosedKeepsLanes DEF Close
<1>4. CASE Restore
  <2>1. CASE loading
    <3>1. page = "idle" /\ ~tallied
      BY <2>1 DEF StoreInv, BootLoads
    <3>2. UNCHANGED <<page, lanes, work, tallied>>
      BY <1>4, <2>1 DEF Restore
    <3> QED BY <3>1, <3>2, RestingKeepsLanes DEF Tally
  <2>2. CASE ~loading
    BY <1>4, <2>2, LanesStay DEF Restore, display
  <2> QED BY <2>1, <2>2
<1>5. CASE SelectFiles \/ DeleteResults
  <2>1. page = "idle" /\ ~tallied' /\ UNCHANGED <<page, lanes, work>>
    BY <1>5 DEF SelectFiles, DeleteResults
  <2> QED BY <2>1, RestingKeepsLanes DEF Tally
<1>6. CASE DropHeard
  <2>1. CASE UNCHANGED <<page, loading, selected, settings, serial, cancelled, display, lanes, work>>
    BY <2>1, LanesStay DEF display
  <2> QED BY <1>6, <2>1, ClosedKeepsLanes DEF DropHeard
<1>7. CASE Process \/ Cancel \/ PreparingFails
  BY <1>7, ProcessKeepsLanes, CancelKeepsLanes, PreparingFailsKeepsLanes
<1>8. CASE Working /\ ~NotSaved
  BY <1>8, BeginKeepsLanes, SpawnKeepsLanes, LoopHeadKeepsLanes, SettleKeepsLanes, ResumeKeepsLanes,
     LanesEndKeepsLanes, BatchEndsKeepsLanes DEF Working
<1>9. CASE \E f \in File : StepEvent(f) \/ Retry(f) \/ RetryFails(f)
  BY <1>9, StepEventKeepsLanes, RetryingKeepsLanes
<1>10. CASE \E f \in File, durable \in BOOLEAN : RetrySucceeds(f, durable)
  BY <1>10, RetryingKeepsLanes
<1>11. CASE RetryEnds
  <2>1. /\ page = "resaving" /\ page' = "idle"
        /\ UNCHANGED <<row, results, cancelled, tallied, lanes, work>>
    BY <1>11 DEF RetryEnds, display
  <2>2. Tally'
    BY <2>1 DEF LaneInv, Tally
  <2> QED BY <2>1, <2>2, RestingKeepsLanes
<1> QED
  BY <1>1, <1>2, <1>3, <1>4, <1>5, <1>6, <1>7, <1>8, <1>9, <1>10, <1>11 DEF Next

-----------------------------------------------------------------------------
(* The theorems.                                                            *)

LEMMA BatchInvInit == Init => BatchInv
<1> SUFFICES ASSUME Init PROVE BatchInv
  OBVIOUS
<1>1. /\ page = "closed" /\ ~loading /\ ~selected /\ settings \in Settings /\ serial = 0 /\ ~cancelled
      /\ loading = FALSE /\ selected = FALSE /\ cancelled = FALSE
      /\ Blank /\ Idle /\ StoreInit
  BY DEF Init
<1>2. TypeOK
  <2>1. StoreTypeOK
    <3>1. StoreInit
      BY <1>1
    <3>2. <<>> \in Seq(Requests)
      BY EmptySeq
    <3> QED BY <3>1, <3>2 DEF StoreInit, StoreTypeOK, Foreign
  <2>2. results \in Collections /\ next \in Collections
    BY <1>1 DEF Blank, Idle, NoResults, Collections
  <2>3. row \in [File -> {"pending", "running", "complete", "error", "cancelled"}]
    BY <1>1 DEF Blank, AllRows
  <2>4. cursor \in 1..Len(Schedule) + 1
    BY <1>1, BatchAssumption, LenProperties DEF Idle
  <2>5. /\ lane \in [Lane -> File \cup {"off"}]
        /\ computation \in [Key -> {"none", "running", "done", "failed"}]
        /\ started \in [Key -> Nat]
    BY <1>1 DEF Idle
  <2>6. /\ settings \in Settings /\ bound = Nil /\ under = Nil /\ shown = Nil /\ tallied = FALSE
        /\ active \in Nat /\ target \in Nat /\ observed \in Nat /\ spawning = FALSE /\ resumed = Nil
    BY <1>1 DEF Blank, Idle
  <2> QED BY <1>1, <2>1, <2>2, <2>3, <2>4, <2>5, <2>6 DEF TypeOK
<1>3. LaneInv
  <2>1. On = {} /\ Quiet /\ resumed = Nil /\ \A l \in Lane : lane[l] = "off"
    BY <1>1 DEF Idle, On, Quiet
  <2>2. KeysStart
    BY <1>1 DEF Idle, KeysStart
  <2> QED BY <1>1, <2>1, <2>2
       DEF LaneInv, LanesAtWork, SomeLaneGoesOn, FilesProgress, Tally, Blank
<1>4. StoreInv
  <2>1. /\ queue = <<>> /\ Len(queue) = 0 /\ reply = Nil /\ record \in Foreign /\ promised = Nil
        /\ gone = {} /\ shown = Nil /\ results = NoResults
    BY <1>1 DEF StoreInit, Foreign, Blank
  <2> QED BY <1>1, <2>1, Marks
       DEF StoreInv, Configured, Under, NoResults, Waits, BootLoads, Fencing, Promise, Foreign
<1> QED BY <1>2, <1>3, <1>4 DEF BatchInv

\* The inductive invariant of a page, its batches and its record: App.tsx and
\* lastRunStore.ts, through every interleaving of their awaits and reloads.
THEOREM BatchHolds == Spec => []BatchInv
<1>1. BatchInv /\ [Next]_vars => BatchInv'
  BY TypeKept, LaneInvKept, StoreInvKept DEF BatchInv
<1> QED BY <1>1, BatchInvInit, PTL DEF Spec

\* When a batch is over, every file has a result, an error or was cancelled, and
\* its row says which (App.tsx, the adaptive lanes and progressReducer.ts).
THEOREM AllAccountedFor == Spec => []BatchIsAccountedFor
<1>1. BatchInv => BatchIsAccountedFor
  BY DEF BatchInv, LaneInv, Tally, BatchIsAccountedFor
<1> QED BY <1>1, BatchHolds, PTL

\* Lanes that hold equal contents share one computation
\* (completedByInputDigest, App.tsx).
THEOREM EachComputedOnce == Spec => []ComputedOnce
<1>1. BatchInv => ComputedOnce
  BY DEF BatchInv, LaneInv, KeysStart, ComputedOnce
<1> QED BY <1>1, BatchHolds, PTL

\* Results never mix two configurations (retryExecutionBinding.ts), and the record
\* of the run shown is the run shown.
THEOREM OneConfigurationHolds == Spec => []OneConfiguration
<1>1. BatchInv => OneConfiguration
  BY DEF BatchInv, StoreInv, Configured, Under, OneConfiguration
<1> QED BY <1>1, BatchHolds, PTL

\* The fence of lastRunStore.ts keeps a deleted run from being shown again.
THEOREM DeletedHolds == Spec => []DeletedStaysDeleted
<1>1. BatchInv => DeletedStaysDeleted
  BY DEF BatchInv, StoreInv, Fencing, DeletedStaysDeleted
<1> QED BY <1>1, BatchHolds, PTL

\* A run the user was told is saved stays in its slot (saveLastRun).
THEOREM SavedHolds == Spec => []SavedRunIsKept
<1>1. BatchInv => SavedRunIsKept
  BY DEF BatchInv, StoreInv, Promise, SavedRunIsKept
<1> QED BY <1>1, BatchHolds, PTL
=============================================================================
