------------------------------ MODULE BatchRun ------------------------------
(***************************************************************************)
(* One page and its batches (App.tsx): lanes that claim files from a        *)
(* schedule and share the computation of equal contents, the adaptive       *)
(* number of lanes, cancelling, the rows of the progress list, the retry of *)
(* a failed file, and the record of the run, which the last-run store keeps *)
(* through reloads.  A submission to the worker pool settles: that is what  *)
(* WorkerPool promises.  JavaScript runs to completion, so that "spawning"  *)
(* and "resumed" go first.                                                  *)
(***************************************************************************)
EXTENDS LastRunStore, FiniteSets

CONSTANTS
  File,
  KeyOf,      \* the digest of a file's content, or a key of its own if unknown
  Schedule,   \* the files, largest first
  Settings,   \* all a user can set that a result depends on
  LaneCap,
  Measure,    \* sizes of a worker's heap
  Baseline,   \* what a worker takes besides
  Budget,     \* the memory all workers may take
  MaxSerial,  \* bound on the number of saved runs
  MaxPending  \* bound on the requests a page makes while others are pending

ASSUME BatchAssumption ==
  /\ LaneCap \in Nat \ {0}
  /\ Measure \subseteq Nat \ {0}
  /\ Baseline \in Nat /\ Budget \in Nat
  /\ Schedule \in Seq(File)
  /\ \A f \in File : \E i \in 1..Len(Schedule) : Schedule[i] = f
  /\ \A i, j \in 1..Len(Schedule) : Schedule[i] = Schedule[j] => i = j

Lane == 1..LaneCap
Key == {KeyOf[f] : f \in File}
Results == [of : Key, under : Settings]
Collections == [File -> Results \cup {Nil}]
Runs == [serial : Nat, settings : Settings, results : Collections, unfinished : SUBSET File]

\* The marks are no files, numbers, results or runs.
ASSUME MarksAssumption ==
  /\ "off" \notin File
  /\ Nil \notin Nat \cup Results \cup File \cup Settings /\ Nil \notin {"done", "failed"}
  /\ Foreign \cap Runs = {}

VARIABLES
  page,        \* closed, idle, preparing, running, saving, retrying
  loading,     \* the boot's load may still restore a run
  selected,    \* files are selected
  settings,    \* the live settings
  bound,       \* resultsExecutionBinding: the settings of the last attempt
  under,       \* resultsOptions: the settings of the results
  results,     \* the results shown
  shown,       \* the serial number of the run they belong to
  serial,      \* the last serial number used
  row,         \* the progress list
  tallied,     \* the rows are those of the results
  cancelled,   \* cancelRequestedRef
  cursor, lane, active, target, observed,
  spawning,    \* spawnLanesToTarget runs
  resumed,     \* the lane at the head of its loop
  computation, \* completedByInputDigest
  started,     \* history: how often a key was computed in this batch
  next         \* nextResults

lanes == <<cursor, lane, active, target, observed, spawning, resumed>>
work == <<computation, started, next>>
display == <<bound, under, results, shown, row, tallied>>
vars == <<page, loading, selected, settings, serial, cancelled, display, lanes, work, store>>

NoResults == [f \in File |-> Nil]
AllRows(status) == [f \in File |-> status]
Result(f, s) == [of |-> KeyOf[f], under |-> s]
Quiet == ~spawning /\ resumed = Nil

Idle ==
  /\ cursor = 1 /\ lane = [l \in Lane |-> "off"] /\ active = 0 /\ target = 0 /\ observed = 0
  /\ spawning = FALSE /\ resumed = Nil
  /\ computation = [k \in Key |-> "none"] /\ started = [k \in Key |-> 0]
  /\ next = NoResults

Blank ==
  /\ bound = Nil /\ under = Nil /\ results = NoResults /\ shown = Nil
  /\ row = AllRows("pending") /\ tallied = FALSE

Init ==
  /\ page = "closed" /\ loading = FALSE /\ selected = FALSE
  /\ settings \in Settings /\ serial = 0 /\ cancelled = FALSE
  /\ Blank /\ Idle /\ StoreInit

Requests ==
  [ask : {"put"}, by : {"save"}, what : Runs]
  \cup [ask : {"delete"}, by : {"selection", "deletion", "batch", "failedSave", "boot"}, what : {Nil}]
  \cup [ask : {"drop"}, by : {"banner", "wipe", "nobody"}, what : {Nil}]
  \cup [ask : {"get"}, by : {"boot"}, what : {Nil}]
  \cup [ask : {"archive"}, by : {"boot"}, what : {Outdated}]

StoreTypeOK ==
  /\ record \in Runs \cup Foreign
  /\ fence \in BOOLEAN
  /\ queue \in Seq(Requests)
  /\ reply \in {Nil, "done", "failed"}
  /\ promised \in Runs \cup {Nil}
  /\ gone \subseteq Nat

TypeOK ==
  /\ page \in {"closed", "idle", "preparing", "running", "saving", "retrying", "resaving"}
  /\ loading \in BOOLEAN /\ selected \in BOOLEAN /\ cancelled \in BOOLEAN /\ tallied \in BOOLEAN
  /\ settings \in Settings /\ bound \in Settings \cup {Nil} /\ under \in Settings \cup {Nil}
  /\ results \in Collections /\ next \in Collections
  /\ serial \in Nat /\ shown \in Nat \cup {Nil}
  /\ row \in [File -> {"pending", "running", "complete", "error", "cancelled"}]
  /\ cursor \in 1..Len(Schedule) + 1
  /\ lane \in [Lane -> File \cup {"off"}]
  /\ active \in Nat /\ target \in Nat /\ observed \in Nat
  /\ spawning \in BOOLEAN /\ resumed \in Lane \cup {Nil}
  /\ computation \in [Key -> {"none", "running", "done", "failed"}]
  /\ started \in [Key -> Nat]
  /\ StoreTypeOK

-----------------------------------------------------------------------------
\* The page.

Boot ==
  /\ page = "closed"
  /\ page' = "idle" /\ loading' = TRUE
  /\ AskLoad
  /\ UNCHANGED <<selected, settings, serial, cancelled, display, lanes, work>>

\* The tab is closed or reloaded, or the browser ends, at any time.
Closed ==
  /\ page' = "closed" /\ loading' = FALSE /\ selected' = FALSE /\ cancelled' = FALSE
  /\ bound' = Nil /\ under' = Nil /\ results' = NoResults /\ shown' = Nil
  /\ row' = AllRows("pending") /\ tallied' = FALSE
  /\ cursor' = 1 /\ lane' = [l \in Lane |-> "off"] /\ active' = 0 /\ target' = 0 /\ observed' = 0
  /\ spawning' = FALSE /\ resumed' = Nil
  /\ computation' = [k \in Key |-> "none"] /\ started' = [k \in Key |-> 0]
  /\ next' = NoResults
  /\ UNCHANGED <<settings, serial>>

Close == page # "closed" /\ Quiet /\ Lose /\ Closed

\* A file picked while the record loaded owns the results now.
Restore ==
  /\ LoadsRun /\ LoadOver
  /\ loading' = FALSE
  /\ IF loading
     THEN /\ results' = record.results /\ under' = record.settings /\ shown' = record.serial
          /\ row' = [f \in File |-> IF record.results[f] # Nil THEN "complete" ELSE "pending"]
          /\ UNCHANGED <<bound, tallied>>
     ELSE UNCHANGED display
  /\ UNCHANGED <<page, selected, settings, serial, cancelled, lanes, work>>

LoadEnds ==
  /\ \/ LoadOver /\ ~LoadsRun /\ loading' = FALSE
     \/ LoadUnusable /\ UNCHANGED loading
  /\ UNCHANGED <<page, selected, settings, serial, cancelled, display, lanes, work>>

\* The bound on what the user asks for while earlier requests are pending; the
\* boot's load does not count.
Calm == Len(queue) < MaxPending \/ (loading /\ Len(queue) = MaxPending)

\* onFilesChange
SelectFiles ==
  /\ page = "idle" /\ Calm
  /\ selected' = TRUE /\ loading' = FALSE
  /\ bound' = Nil /\ under' = Nil /\ results' = NoResults /\ shown' = Nil /\ tallied' = FALSE
  /\ AskClear("selection")
  /\ UNCHANGED <<page, settings, serial, cancelled, row, lanes, work>>

DeleteResults ==
  /\ page = "idle" /\ Calm /\ results # NoResults
  /\ bound' = Nil /\ under' = Nil /\ results' = NoResults /\ shown' = Nil
  /\ row' = AllRows("pending") /\ tallied' = FALSE
  /\ AskClear("deletion")
  /\ UNCHANGED <<page, loading, selected, settings, serial, cancelled, lanes, work>>

ClearHeard ==
  /\ \E by \in {"selection", "deletion"} : ClearAnswered(by)
  /\ UNCHANGED <<page, loading, selected, settings, serial, cancelled, display, lanes, work>>

\* The storage banner offers it at any time, "Delete all local data" is disabled
\* while something runs.
ClearCachedRun ==
  /\ page \in {"idle", "running", "saving"} /\ Quiet /\ Calm
  /\ AskDrop("banner")
  /\ UNCHANGED <<page, loading, selected, settings, serial, cancelled, display, lanes, work>>

DeleteAllLocalData ==
  /\ page = "idle" /\ Calm
  /\ AskDrop("wipe")
  /\ UNCHANGED <<page, loading, selected, settings, serial, cancelled, display, lanes, work>>

\* A wipe that succeeded reloads the page.
DropHeard ==
  \/ /\ \/ DropAnswered("banner") \/ DropAnswered("nobody")
        \/ reply = "failed" /\ DropAnswered("wipe")
     /\ UNCHANGED <<page, loading, selected, settings, serial, cancelled, display, lanes, work>>
  \/ /\ Answered("drop", "wipe", "done") /\ Quiet
     /\ Lose /\ Closed

\* The settings are edited back and forth.  A batch and a retry use those captured
\* at their click, so that an edit meanwhile is as one after them.
EditSettings ==
  /\ page = "idle"
  /\ settings' \in Settings \ {settings}
  /\ UNCHANGED <<page, loading, selected, serial, cancelled, display, lanes, work, store>>
-----------------------------------------------------------------------------
\* A batch.

Unfinished(f) == row[f] \notin {"complete", "error"}

Process ==
  /\ page = "idle" /\ selected /\ serial < MaxSerial
  /\ page' = "preparing" /\ cancelled' = FALSE
  /\ row' = AllRows("pending") /\ tallied' = FALSE
  /\ UNCHANGED <<loading, selected, settings, serial, bound, under, results, shown, lanes, work, store>>

\* cancelProcessing ends the pool's workers, and with them what they compute.
Cancel ==
  /\ page \in {"preparing", "running", "saving"} /\ Quiet /\ ~cancelled
  /\ cancelled' = TRUE
  /\ computation' = [k \in Key |-> IF computation[k] = "running" THEN "failed" ELSE computation[k]]
  /\ UNCHANGED <<page, loading, selected, settings, serial, display, lanes, started, next, store>>

\* The finally clause.
Finally ==
  /\ page' = "idle"
  /\ row' = [f \in File |-> IF cancelled /\ Unfinished(f) THEN "cancelled" ELSE row[f]]
  /\ cursor' = 1 /\ active' = 0 /\ target' = 0 /\ observed' = 0
  /\ computation' = [k \in Key |-> "none"] /\ started' = [k \in Key |-> 0]
  /\ next' = NoResults

\* The support files or the pool cannot be had; the settings of the attempt may
\* be bound by then.
PreparingFails ==
  /\ page = "preparing"
  /\ Finally
  /\ bound' \in {bound, settings}
  /\ UNCHANGED <<loading, selected, settings, serial, cancelled, under, results, shown, tallied,
                 lane, spawning, resumed, store>>

Begin(lanesAtFirst) ==
  /\ page = "preparing"
  /\ page' = "running"
  /\ bound' = settings
  /\ target' = lanesAtFirst /\ spawning' = TRUE
  /\ UNCHANGED <<loading, selected, settings, serial, cancelled, under, results, shown, row, tallied,
                 cursor, lane, active, observed, resumed, work, store>>

\* Up to its first await a lane takes a file and, before the file is read, the
\* computation of its content.  Mutant: the computation is published after it.
JoinsOnlySettled(k) == computation[k] \in {"done", "failed"}
Joins(k) == computation[k] # "none"

Claim(l) ==
  LET f == Schedule[cursor]
      k == KeyOf[f] IN
  /\ cursor' = cursor + 1
  /\ lane' = [lane EXCEPT ![l] = f]
  /\ row' = [row EXCEPT ![f] = "running"]
  /\ IF Joins(k) THEN UNCHANGED <<computation, started>>
     ELSE /\ computation' = [computation EXCEPT ![k] = "running"]
          /\ started' = [started EXCEPT ![k] = @ + 1]

MoreFiles == cursor <= Len(Schedule)

Spawn ==
  /\ spawning
  /\ IF active < target /\ MoreFiles /\ ~cancelled
     THEN /\ active' = active + 1
          /\ \E l \in Lane :
               /\ lane[l] = "off" /\ l # resumed
               /\ \A j \in Lane : lane[j] = "off" /\ j # resumed => l <= j
               /\ Claim(l)
          /\ UNCHANGED spawning
     ELSE /\ spawning' = FALSE
          /\ UNCHANGED <<active, cursor, lane, row, computation, started>>
  /\ UNCHANGED <<page, loading, selected, settings, serial, cancelled, bound, under, results, shown,
                 tallied, target, observed, resumed, next, store>>

\* laneRetired gives the surplus slot back.  Mutant: a lane retires as soon as
\* the target is reached.
SurplusAtTarget == active >= target
Surplus == active > target

LoopHead ==
  /\ ~spawning /\ resumed # Nil
  /\ resumed' = Nil
  /\ \/ Surplus /\ active' = active - 1
        /\ UNCHANGED <<cursor, lane, row, computation, started>>
     \/ ~Surplus /\ ~MoreFiles
        /\ UNCHANGED <<active, cursor, lane, row, computation, started>>
     \/ ~Surplus /\ MoreFiles /\ Claim(resumed) /\ UNCHANGED active
  /\ UNCHANGED <<page, loading, selected, settings, serial, cancelled, bound, under, results, shown,
                 tallied, target, observed, spawning, next, store>>

Settle(k) ==
  /\ computation[k] = "running" /\ Quiet
  /\ \E how \in {"done", "failed"} : computation' = [computation EXCEPT ![k] = how]
  /\ UNCHANGED <<page, loading, selected, settings, serial, cancelled, display, lanes, started, next, store>>

\* computeAdaptiveLaneTarget: the lanes that fit the budget, but one at least.
LanesFor(m) ==
  LET fitting == Budget \div (m + Baseline) IN
  IF fitting < 1 THEN 1 ELSE IF fitting > LaneCap THEN LaneCap ELSE fitting

\* adaptLaneTarget, for a worker whose heap was measured after the file.
Adapt(m) ==
  IF m > observed
  THEN /\ observed' = m
       /\ target' = LanesFor(m)
       /\ spawning' = (LanesFor(m) # target)
  ELSE UNCHANGED <<observed, target, spawning>>

\* The lane goes on, at the head of its loop, without another await.
Resume(l) ==
  LET f == lane[l] IN
  /\ Quiet /\ f \in File /\ computation[KeyOf[f]] \in {"done", "failed"}
  /\ lane' = [lane EXCEPT ![l] = "off"]
  /\ \/ /\ cancelled
        /\ UNCHANGED <<row, next, resumed, observed, target, spawning>>
     \/ /\ ~cancelled /\ computation[KeyOf[f]] = "failed"
        /\ row' = [row EXCEPT ![f] = "error"]
        /\ resumed' = l
        /\ UNCHANGED <<next, observed, target, spawning>>
     \/ /\ ~cancelled /\ computation[KeyOf[f]] = "done"
        /\ next' = [next EXCEPT ![f] = Result(f, bound)]
        /\ row' = [row EXCEPT ![f] = "complete"]
        /\ resumed' = l
        /\ \E m \in Measure \cup {0} : Adapt(m)
  /\ UNCHANGED <<page, loading, selected, settings, serial, cancelled, bound, under, results, shown,
                 tallied, cursor, active, computation, started, store>>

\* A step event travels another port than the answer and may come after it.
Reduced(status) == IF status \in {"complete", "error", "cancelled"} THEN status ELSE "running"

StepEvent(f) ==
  /\ page # "closed" /\ Quiet /\ row[f] # "pending"
  /\ row' = [row EXCEPT ![f] = Reduced(@)]
  /\ UNCHANGED <<page, loading, selected, settings, serial, cancelled, bound, under, results, shown,
                 tallied, lanes, work, store>>

Record(values, s, n) ==
  [serial |-> n, settings |-> s, results |-> values, unfinished |-> {f \in File : values[f] = Nil}]

\* Every lane has ended.  A run held in the tab only is not recorded.
LanesEnd(durable) ==
  /\ page = "running" /\ Quiet /\ \A l \in Lane : lane[l] = "off"
  /\ page' = "saving"
  /\ results' = next /\ under' = bound
  /\ IF next = NoResults
     THEN AskClear("batch") /\ shown' = Nil /\ UNCHANGED serial
     ELSE /\ serial' = serial + 1 /\ shown' = serial'
          /\ IF durable THEN AskSave(Record(next, bound, serial')) ELSE UNCHANGED store
  /\ UNCHANGED <<loading, selected, settings, cancelled, bound, row, tallied, lanes, work>>

Pending(by) == \E i \in 1..Len(queue) : queue[i].by = by

\* The answer to the save or the clear, or nothing to wait for.
Answer ==
  \/ SaveDone
  \/ ClearAnswered("failedSave")
  \/ ClearAnswered("batch")
  \/ /\ ~Pending("save") /\ ~Pending("failedSave") /\ ~Pending("batch")
     /\ UNCHANGED store

BatchEnds ==
  /\ page = "saving" /\ Answer
  /\ Finally /\ tallied' = TRUE
  /\ UNCHANGED <<loading, selected, settings, serial, cancelled, bound, under, results, shown,
                 lane, spawning, resumed>>

NotSaved ==
  /\ SaveFailed
  /\ UNCHANGED <<page, loading, selected, settings, serial, cancelled, display, lanes, work>>

-----------------------------------------------------------------------------
\* The retry of one file.

\* resolveRetryExecutionBinding: the settings of the results it will join, which
\* must be those of the last attempt; the live ones only if there was none.
\* Mutant: always the live ones.
RetrySettingsLive == {settings}
RetrySettings ==
  IF results = NoResults /\ under = Nil /\ bound = Nil THEN {settings}
  ELSE IF bound # Nil /\ bound = under THEN {bound} ELSE {}

Retry(f) ==
  /\ page = "idle" /\ selected /\ row[f] = "error" /\ serial < MaxSerial
  /\ page' = "retrying"
  /\ row' = [row EXCEPT ![f] = "running"]
  /\ UNCHANGED <<loading, selected, settings, serial, cancelled, bound, under, results, shown,
                 tallied, lanes, work, store>>

RetryFails(f) ==
  /\ page = "retrying" /\ row[f] = "running"
  /\ page' = "idle"
  /\ row' = [row EXCEPT ![f] = "error"]
  /\ UNCHANGED <<loading, selected, settings, serial, cancelled, bound, under, results, shown,
                 tallied, lanes, work, store>>

RetrySucceeds(f, durable) ==
  /\ page = "retrying" /\ row[f] = "running"
  /\ page' = "resaving"
  /\ row' = [row EXCEPT ![f] = "complete"]
  /\ serial' = serial + 1 /\ shown' = serial'
  /\ \E s \in RetrySettings :
       /\ results' = [results EXCEPT ![f] = Result(f, s)]
       /\ under' = s /\ bound' = s
       /\ IF durable THEN AskSave(Record(results', s, serial')) ELSE UNCHANGED store
  /\ UNCHANGED <<loading, selected, settings, cancelled, tallied, lanes, work>>

RetryEnds ==
  /\ page = "resaving" /\ Answer
  /\ page' = "idle"
  /\ UNCHANGED <<loading, selected, settings, serial, cancelled, display, lanes, work>>

-----------------------------------------------------------------------------

Database ==
  /\ Commit \/ Abort \/ Blocked
  /\ UNCHANGED <<page, loading, selected, settings, serial, cancelled, display, lanes, work>>

Working ==
  \/ \E n \in 1..LaneCap : Begin(n)
  \/ Spawn \/ LoopHead
  \/ \E k \in Key : Settle(k)
  \/ \E l \in Lane : Resume(l)
  \/ \E durable \in BOOLEAN : LanesEnd(durable)
  \/ BatchEnds \/ NotSaved

Next ==
  \/ Boot \/ Close \/ Restore \/ LoadEnds
  \/ SelectFiles \/ DeleteResults \/ ClearHeard \/ ClearCachedRun \/ DeleteAllLocalData
  \/ DropHeard \/ EditSettings
  \/ Process \/ Cancel \/ PreparingFails \/ Working
  \/ \E f \in File : StepEvent(f) \/ Retry(f) \/ RetryFails(f)
  \/ \E f \in File, durable \in BOOLEAN : RetrySucceeds(f, durable)
  \/ RetryEnds \/ Database

Spec == Init /\ [][Next]_vars

-----------------------------------------------------------------------------
\* Properties

\* "exactly the excess retires" and "lane 1 can never retire, so the batch always
\* drains" (App.tsx:2782), and "a file that already finished is never reverted"
\* (progressReducer.ts:8): when a batch that was not cancelled is over, however
\* the number of lanes went up and down, every file has a result or an error, and
\* the rows say which; a cancelled one leaves no row running.
BatchIsAccountedFor ==
  page = "idle" /\ tallied =>
    \A f \in File :
      /\ row[f] = "complete" <=> results[f] # Nil
      /\ row[f] \in {"complete", "error"} \cup (IF cancelled THEN {"cancelled"} ELSE {})

\* "With several runners, inserting it after arrayBuffer() lets each runner miss
\* the map and start the same digest independently" (App.tsx:2696).
ComputedOnce == \A k \in Key : started[k] <= 1

\* "one result collection can never claim two scientific configurations"
\* (retryExecutionBinding.ts:16), in the page or in the record that reopens it,
\* and a record of what the page shows is what the page shows.
OneConfiguration ==
  /\ \A f \in File : results[f] # Nil => results[f] = Result(f, under)
  /\ record \notin Foreign =>
       /\ \A f \in File : record.results[f] # Nil => record.results[f] = Result(f, record.settings)
       /\ shown = record.serial => record.results = results /\ record.settings = under

\* A run whose deletion the user asked for, and was not told to have failed, is
\* never shown again, although the page may close before it is deleted.
DeletedStaysDeleted == shown \notin gone
=============================================================================
