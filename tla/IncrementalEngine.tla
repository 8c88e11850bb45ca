---------------------------- MODULE IncrementalEngine ----------------------------
(*****************************************************************************)
(* The review and full runs of one workspace on one worker: the incremental  *)
(* engine of the runtime (dispatch.rs, state.rs, db.rs) and the client that  *)
(* drives it (rustPipelineRuntime.ts, rustWorkerClient.ts).                  *)
(*                                                                           *)
(* A review is computed again after every edit of the options, so the kernel *)
(* avoids work in three ways, and each of them can bring back an answer to   *)
(* another question:                                                         *)
(*   - a query keeps its last two values in an alternation cache, each under *)
(*     a key assembled by hand;                                              *)
(*   - a full run saves bases, which a later worker restores instead of      *)
(*     reading the raw file;                                                 *)
(*   - a worker that holds the verified input answers without being sent it. *)
(*                                                                           *)
(* A value is represented by what it was computed from: the inputs of the    *)
(* query's footprint, as they were then.  That is faithful up to the first   *)
(* stale value, which violates AnswersAreFresh: it speaks of every query.    *)
(* Salsa's own memo of a query is the first of its slots: the body does not  *)
(* run again while what it read is unchanged.  The options may change only   *)
(* between requests; the raw file, which names the workspace, never does.    *)
(*****************************************************************************)
EXTENDS TrackedQueries, Sequences, Integers

CONSTANTS
  Watches,    \* The sets of inputs edited in one behaviour
  MaxFaults   \* Failures of queries and saves of another tab in each
\* A request with fragmented participants is refused before it gets here.
ASSUME WatchesAssumption ==
  Watches \subseteq
    SUBSET (Inputs \ (Raw \union {"fragmented_participant_ids", "materialize_full_outputs"}))
ASSUME FaultsAssumption == MaxFaults \in [Watches -> Nat]

VARIABLES
  watch,     \* The inputs that are edited in this behaviour
  now,       \* The options the user has chosen
  live,      \* The worker's engine
  stored,    \* The bases the last saved full run left in the workspace
  request,   \* The last request: its assignment, how it was asked, how it ended
  answer,    \* Where that request got the value of each query
  receipt,   \* The queries it reports as run
  faults     \* The failures and foreign saves so far
vars == <<watch, now, live, stored, request, answer, receipt, faults>>

-------------------------------------------------------------------------------
(* The queries that restore, keep or lose something, in demand order.        *)

Order == <<"early", "screens", "indexed", "matched", "floor", "static", "rows",
           "annotated", "windows", "outputs">>
Stages == {Order[i] : i \in DOMAIN Order}
\* Two values in an alternation cache, one in the memo of a query without one.
Capacity(s) == IF s \in {"early", "screens"} THEN 1 ELSE 2

Reads(s, on) ==
  CASE s = "early" -> collect_early_assembly
    [] s = "screens" -> classify_screen_sessions(on) \union construct_screen_intervals(on)
    [] s = "indexed" -> build_app_event_index
    [] s = "matched" -> match_app_episodes
    [] s = "floor" -> review_usage_rows_before_floor
    [] s = "static" -> review_static_annotations
    [] s = "rows" -> review_reconstructed_rows(on)
    [] s = "annotated" -> review_annotations_fused(on)
    [] s = "windows" -> resolve_participant_windows(on)
    [] s = "outputs" -> assemble_primary_outputs(on)

(***************************************************************************)
(* The alternation keys: the options written into the key, and for every   *)
(* digest in it, all that the value with this digest depends on.           *)
(***************************************************************************)
MatcherInputKey ==
  mask_excluded_app_events \union StopTypes \union background_apps
    \union {"model_concurrent_usage"}
MatcherOutputKey ==
  build_app_event_index \union mask_excluded_app_events \union MatcherOptions
\* Mutant: the key leaves out the micro-use policy.
BeforeFloorKeyWithoutPolicy ==
  mask_excluded_app_events \union match_app_episodes \union mark_app_policy_matches
    \union background_apps
BeforeFloorKey ==
  mask_excluded_app_events \union match_app_episodes \union mark_app_policy_matches
    \union MicroUse \union background_apps
StaticKey ==
  mask_excluded_app_events \union match_app_episodes \union mark_app_policy_matches
    \union AnnotationOptions \union review_usage_rows_before_floor
ReconstructedKey(on) ==
  review_usage_rows_before_floor \union mark_app_policy_matches \union mask_excluded_app_events
    \union build_app_event_index \union match_app_episodes \union background_apps
    \union {"application_label_exclusions", "model_concurrent_usage"}
    \union MinimumDuration \union SplitOptions \union MaximumDuration
    \union ExclusionReads(on) \union LockedRows(on)
AnnotationKey == AnnotationOptions \union RemovalOptions
FusedKey(on) ==
  AnnotationKey \union review_reconstructed_rows(on)
    \union (IF UseStatic(on) THEN review_static_annotations \union review_usage_rows_before_floor
                             ELSE {})
WindowsKey(on) == study_window_source_rows(on) \union ScreenRows(on) \union {"study_dates_csv"}
OutputsKey(on) ==
  output_options \union {"materialize_full_outputs"} \union synthesize_placeholder_rows(on)
    \union ScreenRows(on) \union PreflightReads(on) \union MicroUseReceipt(on)
    \union parsed_codebook_schema
    \union (IF Full(on) THEN analysis_policy_rows(on) \union derive_credited_intervals(on)
                               \union assemble_notification_contact_outputs(on)
                               \union assemble_polled_emulation_outputs(on)
                        ELSE {})
SlotKey(s, on) ==
  CASE s \in {"early", "screens"} -> Reads(s, on)
    [] s = "indexed" -> MatcherInputKey
    [] s = "matched" -> MatcherOutputKey
    [] s = "floor" -> BeforeFloorKey
    [] s = "static" -> StaticKey
    [] s = "rows" -> ReconstructedKey(on)
    [] s = "annotated" -> FusedKey(on)
    [] s = "windows" -> WindowsKey(on)
    [] s = "outputs" -> OutputsKey(on)

(***************************************************************************)
(* The keys of the saved bases.  The review base holds the event log, the  *)
(* policy marks and the counts; the reconstruction base the usage rows;    *)
(* each the screen sessions, under a key of their own, when the run had    *)
(* any use for them.                                                       *)
(***************************************************************************)
ReviewBaseKey ==
  Raw \union StopTypes \union parsed_filter_rules
    \union {"interaction_type_remap", "timezone", "timezone_handling", "deduplicate_exact_rows",
            "drop_out_of_source_order_events", "correct_duplicate_event_timestamps"}
ReconstructionBaseKey ==
  mark_app_policy_matches \union {"application_label_exclusions"} \union StopTypes
    \union background_apps \union MatcherOptions \union MicroUse \union MinimumDuration
    \union MaximumDuration \union SplitOptions \union ScreenPolicies
    \union {"model_concurrent_usage", "event_retention_set"}
ScreenBaseKey ==
  disambiguate_duplicate_timestamps \union parsed_apps_forcing_screen_open
    \union ScreenTimeouts \union ScreenPolicies \union {"timezone"}
HasScreen(on) == ScreensMatter(on) /\ ~SourceText(on)
\* reconstruction_base_is_reusable
Reusable(on) == ~(ScreensMatter(on) /\ SourceText(on)) /\ ~LockedAudio(on)

-------------------------------------------------------------------------------
\* What a value is computed from, and the key it is kept under.
Assignments == UNION {SUBSET (w \union {"materialize_full_outputs"}) : w \in Watches}
Value == [s \in Stages |-> [on \in Assignments |-> on \intersect Reads(s, on)]]
Key == [s \in Stages |-> [on \in Assignments |-> on \intersect SlotKey(s, on)]]

\* No query reads anything else.
ASSUME InputsAssumption ==
  /\ Value \in [Stages -> [Assignments -> SUBSET Inputs]]
  /\ Key \in [Stages -> [Assignments -> SUBSET Inputs]]

(***************************************************************************)
(* The engine: whether it holds the verified input, the workspace root it  *)
(* was aligned with is still the current one, and it has the raw bytes; the *)
(* bases it was given; the values of each query with their keys, last used *)
(* first; and the queries run since its two windows were last emptied.     *)
(***************************************************************************)
Kinds == {"none", "review", "pair"}
NoBases == [kind |-> "none", at |-> {}]
NewEngine ==
  [verified |-> FALSE, aligned |-> TRUE, raw |-> FALSE, held |-> NoBases,
   slots |-> [s \in Stages |-> <<>>], window |-> {}, exports |-> {}]
NotAsked == [how |-> "none", value |-> {}]
NoAnswer == [s \in Stages |-> NotAsked]

Init ==
  /\ watch \in Watches
  /\ now = {}
  /\ live = NewEngine
  /\ stored = NoBases
  /\ request = [outcome |-> "none", by |-> "none", ask |-> {}]
  /\ answer = NoAnswer
  /\ receipt = {}
  /\ faults = 0

-------------------------------------------------------------------------------
(* How an engine evaluates a request "on". *)

\* Mutant: the review base that accompanies a reconstruction base is not used.
ReviewMatchesAlone(base, on) == base.kind = "review" /\ Agree(ReviewBaseKey, base.at, on)
ReviewMatches(base, on) == base.kind # "none" /\ Agree(ReviewBaseKey, base.at, on)
ReconstructionMatches(base, on) ==
  /\ base.kind = "pair"
  /\ Agree(ReconstructionBaseKey, base.at, on)
  /\ Excluding(on) => HasScreen(base.at)
ScreenMatches(base, on) ==
  /\ ~SourceText(on)
  /\ ReviewMatches(base, on) \/ ReconstructionMatches(base, on)
  /\ HasScreen(base.at)
  /\ Agree(ScreenBaseKey, base.at, on)
Restored(s, base, on) ==
  CASE s = "early" -> ReviewMatches(base, on)
    [] s = "screens" -> ScreenMatches(base, on)
    [] s = "rows" -> ReconstructionMatches(base, on)
    [] OTHER -> FALSE
\* The slots of a query that hold the key of the request, at most one.
Hits(engine, s, on) ==
  {i \in DOMAIN engine.slots[s] : engine.slots[s][i].key = Key[s][on]}
\* The body of a query runs unless what it read for its last value is unchanged.
How(engine, s, on) ==
  IF Restored(s, engine.held, on) THEN "restored"
  ELSE IF 1 \in Hits(engine, s, on) THEN "kept" ELSE "ran"
\* A body that runs looks for a slot before it computes.
Found(engine, s, on) ==
  IF Restored(s, engine.held, on) THEN Value[s][engine.held.at]
  ELSE IF Hits(engine, s, on) = {} THEN Value[s][on]
  ELSE engine.slots[s][CHOOSE i \in Hits(engine, s, on) : TRUE].value

RowsNeeded(on) == ~Full(on) \/ Reusable(on)
MatchNeeded(base, on) == ~ReconstructionMatches(base, on) \/ UseStatic(on)
Needed(s, base, on) ==
  CASE s = "screens" -> ScreensMatter(on)
    [] s \in {"indexed", "matched"} -> Full(on) \/ MatchNeeded(base, on)
    [] s = "floor" -> RowsNeeded(on) /\ MatchNeeded(base, on)
    [] s = "static" -> RowsNeeded(on) /\ UseStatic(on)
    [] s \in {"rows", "annotated"} -> RowsNeeded(on)
    [] OTHER -> TRUE
Demanded(engine, on) == {s \in Stages : Needed(s, engine.held, on)}
\* A full run needs the review's own queries only for the bases it exports.
ForExport(on) == IF Full(on) THEN {"floor", "static", "rows", "annotated"} ELSE {}
Rank(s, on) ==
  (CHOOSE i \in DOMAIN Order : Order[i] = s) + (IF s \in ForExport(on) THEN Len(Order) ELSE 0)
Before(engine, s, on) == {r \in Demanded(engine, on) : Rank(r, on) < Rank(s, on)}
\* What runs from the raw bytes, and refuses when the engine has none.
NeedsRaw(engine, s, on) ==
  CASE s = "early" -> How(engine, s, on) = "ran" \/ (ScreenMode(on) /\ SourceText(on))
    [] s = "screens" -> How(engine, s, on) = "ran"
    [] s = "rows" -> Excluding(on) /\ How(engine, s, on) # "restored"
    [] s = "outputs" -> Excluding(on) /\ (Placeholders(on) \/ Full(on))
    [] OTHER -> FALSE
Blocked(engine, on) ==
  {s \in Demanded(engine, on) : ~engine.raw /\ NeedsRaw(engine, s, on)}

\* What is used or computed comes first, in the place of its key, and the last
\* falls out.
Without(entries, key) ==
  LET at == {i \in DOMAIN entries : entries[i].key = key}
      i == CHOOSE i \in at : TRUE
  IN  IF at = {} THEN entries
      ELSE SubSeq(entries, 1, i - 1) \o SubSeq(entries, i + 1, Len(entries))
Truncated(entries, capacity) ==
  IF Len(entries) > capacity THEN SubSeq(entries, 1, capacity) ELSE entries
Promoted(entries, entry, capacity) ==
  Truncated(<<entry>> \o Without(entries, entry.key), capacity)
Ran(engine, on, done) == {s \in done : How(engine, s, on) = "ran"}
\* The run's window is emptied before its first query.
Opened(window) == {}
Evaluated(engine, on, done) ==
  [engine EXCEPT
    !.slots = [s \in Stages |->
      IF s \notin done \/ Restored(s, engine.held, on) THEN @[s]
      ELSE Promoted(@[s], [key |-> Key[s][on], value |-> Found(engine, s, on)],
                    Capacity(s))],
    !.window = Opened(@) \union (Ran(engine, on, done) \ ForExport(on)),
    !.exports = @ \union (Ran(engine, on, done) \intersect ForExport(on))]
Answers(engine, on, done) ==
  [s \in Stages |-> IF s \notin done THEN NotAsked
                    ELSE [how |-> How(engine, s, on), value |-> Found(engine, s, on)]]

-------------------------------------------------------------------------------
(***************************************************************************)
(* Requests.  A request is one call into the worker; the calls of a client *)
(* that tries without the raw file first and then with it are two.         *)
(***************************************************************************)
Selected(on) ==
  IF ~ReviewMatches(stored, on) THEN NoBases
  ELSE [stored EXCEPT !.kind =
          IF @ = "pair" /\ ~(ScreenMode(on) /\ SourceText(on))
                        /\ Agree(ReconstructionBaseKey, stored.at, on)
            THEN "pair" ELSE "review"]
\* A workspace root other than the engine's own starts a new engine.
Aligned == IF live.aligned THEN live ELSE NewEngine
Warm(engine) == stored.kind # "none" /\ engine.verified /\ engine.aligned
\* Mutant: the engine takes the digest of the raw file and not its bytes.
WithRawDigestOnly(engine, bases) == [engine EXCEPT !.verified = TRUE, !.held = bases]
WithRaw(engine, bases) ==
  [engine EXCEPT !.verified = TRUE, !.raw = TRUE, !.held = bases]
WithoutRaw(engine, bases) ==
  [engine EXCEPT !.verified = TRUE, !.raw = FALSE, !.held = bases]

\* The export's window is emptied on every way out.  Mutant: only in the answer.
DrainedLate(window) == window
Drained(window) == {}
\* The bases of a full run are saved unless they are too large; when the
\* commit is lost, the engine is no longer that of the workspace's root.
Saves(on) ==
  IF ~Full(on) THEN {"nothing"}
  ELSE {"lost", "none", "review"} \union (IF Reusable(on) THEN {"pair"} ELSE {})
Succeed(by, on, engine) ==
  /\ Blocked(engine, on) = {}
  /\ \E save \in Saves(on) :
       LET done == Demanded(engine, on)
           after == Evaluated(engine, on, done)
       IN  /\ request' = [outcome |-> "answered", by |-> by, ask |-> on]
           /\ answer' = Answers(engine, on, done)
           /\ receipt' = after.window \union after.exports
           /\ live' = [after EXCEPT !.window = {}, !.exports = Drained(@),
                                    !.aligned = (save # "lost")]
           /\ stored' = CASE save \in {"nothing", "lost"} -> stored
                          [] save = "none" -> NoBases
                          [] save \in Kinds \ {"none"} -> [kind |-> save, at |-> on]
  /\ UNCHANGED <<watch, now, faults>>

\* The request ends before a query that was demanded.
Stop(outcome, by, on, engine, done) ==
  /\ request' = [outcome |-> outcome, by |-> by, ask |-> on]
  /\ answer' = Answers(engine, on, done)
  /\ receipt' = {}
  /\ UNCHANGED <<watch, now, stored>>
\* The client takes the refusal of its first try as a miss.
Refuse(by, on, engine) ==
  \E s \in Blocked(engine, on) :
    /\ Blocked(engine, on) \intersect Before(engine, s, on) = {}
    /\ Stop(IF by = "cached" THEN "missed" ELSE "refused", by, on, engine,
            Before(engine, s, on))
    /\ live' = [Evaluated(engine, on, Before(engine, s, on)) EXCEPT !.exports = Drained(@)]
    /\ UNCHANGED faults
\* An error of the payload store, which a memo would repeat, costs the engine.
Fail(by, on, engine) ==
  /\ faults < MaxFaults[watch] /\ faults' = faults + 1
  /\ \E s \in Demanded(engine, on), storage \in BOOLEAN :
       /\ Blocked(engine, on) \intersect Before(engine, s, on) = {}
       /\ Stop("failed", by, on, engine, Before(engine, s, on))
       /\ live' = IF storage THEN NewEngine
                  ELSE [Evaluated(engine, on, Before(engine, s, on)) EXCEPT !.exports = Drained(@)]
Run(by, on, engine) ==
  Succeed(by, on, engine) \/ Refuse(by, on, engine) \/ Fail(by, on, engine)

Missed == request.outcome = "missed"
Edit(f) ==
  /\ ~Missed
  /\ now' = (now \ {f}) \union ({f} \ now)
  /\ UNCHANGED <<watch, live, stored, request, answer, receipt, faults>>

FullRun ==
  /\ ~Missed
  /\ Run("full", now \union {"materialize_full_outputs"}, WithRaw(Aligned, NoBases))

(***************************************************************************)
(* A review first tries to do without the raw file: on a warm engine, or   *)
(* on an engine that is given the saved bases that fit.  A screen policy   *)
(* asks for a live scientific preflight.  A warm engine cannot give it; a  *)
(* base answers for it with the preflight of the run that wrote it, when   *)
(* that run had all the options of this one.                               *)
(***************************************************************************)
CommitmentFits(on) == ScreensMatter(on) => stored.at \ {"materialize_full_outputs"} = on
MayResume(on) == ~Warm(live) /\ Selected(on) # NoBases /\ CommitmentFits(on)
ReviewWarm ==
  /\ ~Missed
  /\ Warm(live) /\ ~ScreensMatter(now)
  /\ Run("cached", now, live)
ReviewCold ==
  /\ ~Missed
  /\ MayResume(now)
  /\ Run("cached", now, WithoutRaw(Aligned, Selected(now)))
Miss ==
  /\ ~Missed
  /\ ~MayResume(now) /\ (Warm(live) => ScreensMatter(now))
  /\ Stop("missed", "cached", now, live, {})
  /\ live' = IF Warm(live) \/ Selected(now) = NoBases THEN live ELSE Aligned
  /\ UNCHANGED faults

(***************************************************************************)
(* After a miss the client comes back with the raw file, on the same       *)
(* worker.  The preflight, if there is one, hands it to the engine, which  *)
(* keeps the bases it holds; then the review is prepared as before.        *)
(***************************************************************************)
Preflighted ==
  IF ScreensMatter(request.ask) THEN WithRaw(Aligned, Aligned.held) ELSE live
Prepared ==
  IF Warm(Preflighted) THEN Preflighted
  ELSE IF Selected(request.ask) # NoBases THEN WithoutRaw(Aligned, Selected(request.ask))
  ELSE WithRaw(Aligned, NoBases)
Retry ==
  /\ Missed
  /\ Run("raw", request.ask, Prepared)

-------------------------------------------------------------------------------
(* A new worker, and a run saved by another tab: the engine is not that root's. *)

Restart ==
  /\ live' = NewEngine
  /\ request' = [request EXCEPT !.outcome = "none"]
  /\ answer' = NoAnswer
  /\ receipt' = {}
  /\ UNCHANGED <<watch, now, stored, faults>>

AnotherTabSaves ==
  /\ faults < MaxFaults[watch] /\ faults' = faults + 1
  /\ \E on \in SUBSET watch :
       \E save \in Saves(on \union {"materialize_full_outputs"}) \ {"lost", "none"} :
         stored' = [kind |-> save, at |-> on \union {"materialize_full_outputs"}]
  /\ live' = [live EXCEPT !.aligned = FALSE]
  /\ UNCHANGED <<watch, now, request, answer, receipt>>

Next ==
  \/ \E f \in watch : Edit(f)
  \/ FullRun \/ ReviewWarm \/ ReviewCold \/ Miss \/ Retry
  \/ Restart \/ AnotherTabSaves

Spec == Init /\ [][Next]_vars

-------------------------------------------------------------------------------
(* Properties. *)

TypeOK ==
  /\ watch \in Watches /\ now \subseteq watch
  /\ stored.kind \in Kinds /\ live.held.kind \in Kinds
  /\ \A s \in Stages : Len(live.slots[s]) <= Capacity(s)

(***************************************************************************)
(* Every query of a request has the value a computation from the raw file  *)
(* would give it now, however the request came by it.                      *)
(***************************************************************************)
AnswersAreFresh ==
  \A s \in Stages :
    answer[s].how # "none" => answer[s].value = Value[s][request.ask]

\* An answer reports the queries that ran for it, and no others.
ReceiptIsOwn ==
  request.outcome = "answered" => receipt = {s \in Stages : answer[s].how = "ran"}

(***************************************************************************)
(* A request that handed the raw file to the engine is not refused for     *)
(* want of it.                                                             *)
(***************************************************************************)
RawIsEnough ==
  request.outcome = "refused" => request.by = "raw" /\ ~ScreensMatter(request.ask)

(***************************************************************************)
(* The bases a full run saved are enough to review its own options without *)
(* the raw file, unless a live preflight is asked for.                     *)
(***************************************************************************)
OwnBasesSuffice ==
  request.outcome = "missed" /\ stored.kind # "none" /\ live.aligned
      /\ stored.at = request.ask \union {"materialize_full_outputs"}
    => ScreensMatter(request.ask)

(***************************************************************************)
(* The rows of a base are not taken for those of another construction of   *)
(* the screen sessions.                                                    *)
(***************************************************************************)
RestoredRowsFitStrategy ==
  answer["rows"].how = "restored" /\ Excluding(request.ask)
    => SourceText(live.held.at) = SourceText(request.ask)
===============================================================================
