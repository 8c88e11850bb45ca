---------------------- MODULE IncrementalEngineProofs ----------------------
(***************************************************************************)
(* Proofs about IncrementalEngine for every set of edited inputs and every *)
(* number of failures.                                                     *)
(***************************************************************************)
EXTENDS IncrementalEngine, TLAPS

-----------------------------------------------------------------------------
(* What the queries read and what their keys hold. *)

\* The queries that have a cache, by name.
LEMMA StagesAre ==
  Stages = {"early", "screens", "indexed", "matched", "floor", "static", "rows",
            "annotated", "windows", "outputs"}
BY DEF Stages, Order

\* What a query reads besides the inputs that decide what it reads.
LEMMA WhatRowsRead ==
  ASSUME NEW v, NEW w,
         Excluding(v) <=> Excluding(w),
         LockedAudio(v) <=> LockedAudio(w),
         Excluding(v) \/ LockedAudio(v) => (SourceText(v) <=> SourceText(w))
  PROVE  /\ ExclusionReads(v) = ExclusionReads(w)
         /\ LockedRows(v) = LockedRows(w)
         /\ review_reconstructed_rows(v) = review_reconstructed_rows(w)
         /\ ReconstructedKey(v) = ReconstructedKey(w)
<1>1. ExclusionReads(v) = ExclusionReads(w)
  BY DEF ExclusionReads, construct_screen_intervals
<1>2. LockedRows(v) = LockedRows(w)
  BY DEF LockedRows, classify_screen_sessions, ClassifiedFromSource, construct_screen_intervals
<1>3. review_reconstructed_rows(v) = review_reconstructed_rows(w)
  BY <1>1, <1>2 DEF review_reconstructed_rows
<1>4. ReconstructedKey(v) = ReconstructedKey(w)
  BY <1>1, <1>2 DEF ReconstructedKey
<1> QED
  BY <1>1, <1>2, <1>3, <1>4

\* The key of the rows holds the inputs that decide what they are made from.
LEMMA ArmsOfRows ==
  ASSUME NEW v, NEW w, NEW K, NEW L,
         review_reconstructed_rows(v) \subseteq K, review_reconstructed_rows(w) \subseteq L,
         v \intersect K = w \intersect L
  PROVE  /\ Excluding(v) <=> Excluding(w)
         /\ LockedAudio(v) <=> LockedAudio(w)
         /\ Excluding(v) \/ LockedAudio(v) => (SourceText(v) <=> SourceText(w))
<1>1. \A u : {"screen_session_maximum_duration_disposition", "locked_screen_audio_disposition"}
               \subseteq review_reconstructed_rows(u)
  BY DEF review_reconstructed_rows, ExclusionReads, LockedRows
<1>2. \A u : Excluding(u) \/ LockedAudio(u)
               => "screen_session_construction_strategy" \in review_reconstructed_rows(u)
  <2> SUFFICES ASSUME NEW u, Excluding(u) \/ LockedAudio(u)
               PROVE  "screen_session_construction_strategy" \in review_reconstructed_rows(u)
    OBVIOUS
  <2>1. CASE Excluding(u)
    <3>1. "screen_session_construction_strategy" \in ExclusionReads(u)
      BY <2>1 DEF ExclusionReads, construct_screen_intervals
    <3> QED BY <3>1 DEF review_reconstructed_rows
  <2>2. CASE LockedAudio(u)
    <3>1. "screen_session_construction_strategy" \in classify_screen_sessions(u)
      BY DEF classify_screen_sessions, ClassifiedFromSource, ClassifiedFromEvents,
             construct_screen_intervals
    <3>2. "screen_session_construction_strategy" \in LockedRows(u)
      BY <3>1, <2>2 DEF LockedRows
    <3> QED BY <3>2 DEF review_reconstructed_rows
  <2> QED BY <2>1, <2>2
<1>3. (Excluding(v) <=> Excluding(w)) /\ (LockedAudio(v) <=> LockedAudio(w))
  BY <1>1 DEF Excluding, LockedAudio
<1>4. Excluding(v) \/ LockedAudio(v) => (SourceText(v) <=> SourceText(w))
  BY <1>2, <1>3 DEF SourceText
<1> QED BY <1>3, <1>4

\* The fused key decides whether the static annotations are used.
LEMMA KeptKeysArmTheOverlay ==
  ASSUME NEW v, NEW w, v \intersect FusedKey(v) = w \intersect FusedKey(w)
  PROVE  (UseStatic(v) <=> UseStatic(w)) /\ FusedKey(v) = FusedKey(w)
           /\ review_reconstructed_rows(v) = review_reconstructed_rows(w)
<1>1. \A u : review_reconstructed_rows(u) \subseteq FusedKey(u)
  BY DEF FusedKey
<1>2. /\ Excluding(v) <=> Excluding(w)
      /\ LockedAudio(v) <=> LockedAudio(w)
      /\ Excluding(v) \/ LockedAudio(v) => (SourceText(v) <=> SourceText(w))
  BY <1>1, ArmsOfRows
<1>3. review_reconstructed_rows(v) = review_reconstructed_rows(w)
  BY <1>2, WhatRowsRead
<1> DEFINE Overlay == {"model_concurrent_usage", "minimum_duration_disposition",
                       "maximum_duration_disposition"}
<1>4. Overlay \union background_apps \subseteq review_reconstructed_rows(v)
  BY DEF review_reconstructed_rows, MinimumDuration, MaximumDuration
<1>5. /\ v \intersect Overlay = w \intersect Overlay
      /\ v \intersect background_apps = w \intersect background_apps
  BY <1>1, <1>3, <1>4
<1>6. UseStatic(v) <=> UseStatic(w)
  BY <1>2, <1>5 DEF UseStatic
<1>7. FusedKey(v) = FusedKey(w)
  BY <1>3, <1>6 DEF FusedKey
<1> QED BY <1>3, <1>6, <1>7

\* The footprints of the queries without arms lie within their keys.
LEMMA PlainKeys ==
  /\ build_app_event_index = MatcherInputKey
  /\ match_app_episodes \subseteq MatcherOutputKey
  /\ review_usage_rows_before_floor \subseteq BeforeFloorKey
  /\ review_static_annotations \subseteq StaticKey
<1>1. build_app_event_index = MatcherInputKey
  BY DEF build_app_event_index, MatcherInputKey
<1>2. match_app_episodes \subseteq MatcherOutputKey
  BY DEF match_app_episodes, MatcherOutputKey
<1>3. review_usage_rows_before_floor \subseteq BeforeFloorKey
  BY DEF review_usage_rows_before_floor, BeforeFloorKey
<1>4. review_static_annotations \subseteq StaticKey
  BY DEF review_static_annotations, StaticKey
<1> QED BY <1>1, <1>2, <1>3, <1>4

\* The key of the rows holds what the rows read.
LEMMA RowsWithinKey ==
  ASSUME NEW v
  PROVE  review_reconstructed_rows(v) \subseteq ReconstructedKey(v)
<1>1. parsed_filter_rules \subseteq mark_app_policy_matches
  BY DEF mark_app_policy_matches
<1> QED BY <1>1 DEF review_reconstructed_rows, ReconstructedKey

\* The key of the fused pass holds what the pass reads.
LEMMA AnnotatedWithinKey ==
  ASSUME NEW v
  PROVE  review_annotations_fused(v) \subseteq FusedKey(v)
BY DEF review_annotations_fused, FusedKey, AnnotationKey

\* The keys of the windows and of the outputs are all they read.
LEMMA WholeKeys ==
  ASSUME NEW v
  PROVE  /\ resolve_participant_windows(v) = WindowsKey(v)
         /\ assemble_primary_outputs(v) = OutputsKey(v)
<1>1. resolve_participant_windows(v) = WindowsKey(v)
  BY DEF resolve_participant_windows, WindowsKey, study_window_source_rows
<1>2. parsed_codebook \subseteq assemble_notification_contact_outputs(v)
  BY DEF assemble_notification_contact_outputs
<1>3. assemble_primary_outputs(v) = OutputsKey(v)
  <2>1. CASE Full(v)
    BY <1>2, <2>1 DEF assemble_primary_outputs, OutputsKey, FullOutputReads
  <2>2. CASE ~Full(v)
    BY <2>2 DEF assemble_primary_outputs, OutputsKey
  <2> QED BY <2>1, <2>2
<1> QED BY <1>1, <1>3

\* What two assignments have in common under their keys, they have in common
\* under whatever the keys hold.
LEMMA Within ==
  ASSUME NEW v, NEW w, NEW K, NEW F, v \intersect K = w \intersect K, F \subseteq K
  PROVE  v \intersect F = w \intersect F
OBVIOUS

(***************************************************************************)
(* A slot is found by its key, and its value is the one the query would    *)
(* compute: the keys, assembled by hand from options and digests, leave    *)
(* nothing out that the queries read.                                      *)
(***************************************************************************)
THEOREM KeysSuffice ==
  ASSUME NEW s \in Stages, NEW v \in Assignments, NEW w \in Assignments,
         Key[s][v] = Key[s][w]
  PROVE  Value[s][v] = Value[s][w]
<1>1. v \intersect SlotKey(s, v) = w \intersect SlotKey(s, w)
  BY DEF Key
<1>2. SUFFICES v \intersect Reads(s, v) = w \intersect Reads(s, w)
  BY DEF Value
<1>3. CASE s \in {"early", "screens"}
  BY <1>1, <1>3 DEF SlotKey
<1>4. CASE s = "indexed"
  BY <1>1, <1>4, PlainKeys DEF SlotKey, Reads
<1>5. CASE s = "matched"
  <2>1. v \intersect MatcherOutputKey = w \intersect MatcherOutputKey
    BY <1>1, <1>5 DEF SlotKey
  <2>2. v \intersect match_app_episodes = w \intersect match_app_episodes
    BY <2>1, PlainKeys, Within
  <2> QED BY <2>2, <1>5 DEF Reads
<1>6. CASE s = "floor"
  <2>1. v \intersect BeforeFloorKey = w \intersect BeforeFloorKey
    BY <1>1, <1>6 DEF SlotKey
  <2>2. v \intersect review_usage_rows_before_floor = w \intersect review_usage_rows_before_floor
    BY <2>1, PlainKeys, Within
  <2> QED BY <2>2, <1>6 DEF Reads
<1>7. CASE s = "static"
  <2>1. v \intersect StaticKey = w \intersect StaticKey
    BY <1>1, <1>7 DEF SlotKey
  <2>2. v \intersect review_static_annotations = w \intersect review_static_annotations
    BY <2>1, PlainKeys, Within
  <2> QED BY <2>2, <1>7 DEF Reads
<1>8. CASE s = "rows"
  <2>1. v \intersect ReconstructedKey(v) = w \intersect ReconstructedKey(w)
    BY <1>1, <1>8 DEF SlotKey
  <2>2. /\ review_reconstructed_rows(v) = review_reconstructed_rows(w)
        /\ ReconstructedKey(v) = ReconstructedKey(w)
    BY <2>1, RowsWithinKey, ArmsOfRows, WhatRowsRead
  <2>3. v \intersect review_reconstructed_rows(v) = w \intersect review_reconstructed_rows(v)
    BY <2>1, <2>2, RowsWithinKey, Within
  <2> QED BY <2>2, <2>3, <1>8 DEF Reads
<1>9. CASE s = "annotated"
  <2>1. v \intersect FusedKey(v) = w \intersect FusedKey(w)
    BY <1>1, <1>9 DEF SlotKey
  <2>2. (UseStatic(v) <=> UseStatic(w)) /\ FusedKey(v) = FusedKey(w)
          /\ review_reconstructed_rows(v) = review_reconstructed_rows(w)
    BY <2>1, KeptKeysArmTheOverlay
  <2>3. review_annotations_fused(v) = review_annotations_fused(w)
    BY <2>2 DEF review_annotations_fused
  <2>4. v \intersect review_annotations_fused(v) = w \intersect review_annotations_fused(v)
    BY <2>1, <2>2, AnnotatedWithinKey, Within
  <2> QED BY <2>3, <2>4, <1>9 DEF Reads
<1>10. CASE s = "windows"
  BY <1>1, <1>10, WholeKeys DEF SlotKey, Reads
<1>11. CASE s = "outputs"
  BY <1>1, <1>11, WholeKeys DEF SlotKey, Reads
<1> QED
  BY StagesAre, <1>3, <1>4, <1>5, <1>6, <1>7, <1>8, <1>9, <1>10, <1>11

(***************************************************************************)
(* A review's fused queries and a full run's steps read the same inputs on *)
(* the way to the annotated rows.                                          *)
(***************************************************************************)
THEOREM FusedReadsWhatStepsRead ==
  ASSUME NEW on
  PROVE  review_annotations_fused(on) = remove_zero_duration_rows(on)
<1>1. review_usage_rows_before_floor
        = match_app_episodes \union mark_app_policy_matches \union background_apps \union MicroUse
  BY DEF review_usage_rows_before_floor, match_app_episodes, build_app_event_index
<1>2. parsed_filter_rules \subseteq mark_app_policy_matches
  BY DEF mark_app_policy_matches
<1>3. "model_concurrent_usage" \in match_app_episodes
  BY DEF match_app_episodes, build_app_event_index
<1>4. review_reconstructed_rows(on) = segment_concurrent_usage(on)
  BY <1>1, <1>2, <1>3
     DEF review_reconstructed_rows, segment_concurrent_usage, apply_app_inclusion_policy,
         classify_episode_durations
<1>5. parsed_codebook \subseteq AnnotationOptions
  BY DEF AnnotationOptions
<1>6. remove_zero_duration_rows(on)
        = segment_concurrent_usage(on) \union AnnotationOptions \union RemovalOptions
  BY <1>5 DEF remove_zero_duration_rows, suppress_excluded_timing, collapse_app_genre
<1>7. review_static_annotations \subseteq review_reconstructed_rows(on) \union AnnotationOptions
  BY DEF review_static_annotations, review_reconstructed_rows
<1>8. review_annotations_fused(on)
        = review_reconstructed_rows(on) \union AnnotationOptions \union RemovalOptions
  BY <1>7 DEF review_annotations_fused
<1> QED BY <1>4, <1>6, <1>8

-----------------------------------------------------------------------------
(* The inductive invariant. *)

(***************************************************************************)
(* The one pair of inputs the key of the reconstruction base does not      *)
(* relate: whether participants of over-long screen sessions are left out, *)
(* and how the screen sessions are constructed.                            *)
(***************************************************************************)
Apart(w) ==
  ~({"screen_session_maximum_duration_disposition", "screen_session_construction_strategy"}
      \subseteq w)

FullField == "materialize_full_outputs"
Askable(w) == SUBSET (w \union {FullField})
BaseOf(w) ==
  {b \in [kind : Kinds, at : Askable(w)] : b.kind = "pair" => Reusable(b.at)}

\* A slot's value is that of its key.
Entry == [key : SUBSET Inputs, value : SUBSET Inputs]
OwnEntry(s) == {[key |-> Key[s][on], value |-> Value[s][on]] : on \in Assignments}
Kept(s, w) == {e \in Entry : Apart(w) => e \in OwnEntry(s)}

EngineType ==
  [verified : BOOLEAN, aligned : BOOLEAN, raw : BOOLEAN,
   held : [kind : Kinds, at : SUBSET Inputs],
   slots : [Stages -> Seq(Entry)], window : SUBSET Stages, exports : SUBSET Stages]
EngineOK(e, w) ==
  /\ e \in EngineType
  /\ e.held \in BaseOf(w)
  /\ \A s \in Stages : e.slots[s] \in Seq(Kept(s, w)) /\ Len(e.slots[s]) <= Capacity(s)

Outcomes == {"none", "answered", "missed", "refused", "failed"}
RequestType(w) ==
  [outcome : Outcomes, by : {"none", "full", "cached", "raw"}, ask : Askable(w)]

Shape ==
  /\ watch \in Watches /\ now \subseteq watch
  /\ EngineOK(live, watch) /\ live.exports = {}
  /\ stored \in BaseOf(watch)
  /\ request \in RequestType(watch)
Fresh == Apart(watch) => AnswersAreFresh
\* An engine without the raw file was given the bases that are still stored.
HeldIsStored ==
  live.verified /\ live.aligned /\ ~live.raw
    => live.held.kind # "none" /\ live.held.at = stored.at
\* Only a review is missed.
MissedReview == Missed => request.by = "cached" /\ request.ask \subseteq watch

IInv ==
  /\ Shape
  /\ Fresh
  /\ HeldIsStored
  /\ MissedReview
  /\ ReceiptIsOwn
  /\ RawIsEnough
  /\ OwnBasesSuffice

-----------------------------------------------------------------------------
(* Assignments, bases and slots. *)

\* What may be asked sets inputs that exist.
LEMMA AskableIsAssignment ==
  ASSUME NEW w \in Watches
  PROVE  Askable(w) \subseteq Assignments
BY DEF Askable, Assignments, FullField

\* A value is the set of the inputs it was computed from, a key a part of them.
LEMMA ValuesAreInputs ==
  ASSUME NEW s \in Stages, NEW on \in Assignments
  PROVE  Value[s][on] \in SUBSET Inputs /\ Key[s][on] \in SUBSET Inputs
BY InputsAssumption

\* The raw file, the fragmented participants and the full outputs are not edited.
LEMMA Unwatched ==
  ASSUME NEW w \in Watches
  PROVE  /\ w \intersect Raw = {}
         /\ "fragmented_participant_ids" \notin w
         /\ FullField \notin w
BY WatchesAssumption DEF FullField

\* A cache holds one answer or two.
LEMMA CapacityIs ==
  ASSUME NEW s \in Stages PROVE Capacity(s) \in {1, 2}
BY DEF Capacity

\* The entries without those of a key.
LEMMA WithoutStays ==
  ASSUME NEW S, NEW entries \in Seq(S), NEW key
  PROVE  Without(entries, key) \in Seq(S)
<1> DEFINE at == {i \in DOMAIN entries : entries[i].key = key}
           i == CHOOSE i \in at : TRUE
<1>1. CASE at = {}
  BY <1>1 DEF Without
<1>2. CASE at # {}
  <2>1. i \in DOMAIN entries
    BY <1>2
  <2>2. i \in 1..Len(entries)
    BY <2>1
  <2> HIDE DEF i
  <2>3. SubSeq(entries, 1, i - 1) \in Seq(S)
    BY <2>2
  <2>4. SubSeq(entries, i + 1, Len(entries)) \in Seq(S)
    BY <2>2
  <2>5. SubSeq(entries, 1, i - 1) \o SubSeq(entries, i + 1, Len(entries)) \in Seq(S)
    BY <2>3, <2>4
  <2> QED BY <1>2, <2>5 DEF Without, i
<1> QED BY <1>1, <1>2

\* A promotion keeps a cache well formed and within its capacity.
LEMMA PromotedStays ==
  ASSUME NEW S, NEW entries \in Seq(S), NEW entry \in S, NEW capacity \in {1, 2}
  PROVE  /\ Promoted(entries, entry, capacity) \in Seq(S)
         /\ Len(Promoted(entries, entry, capacity)) <= capacity
<1> DEFINE kept == <<entry>> \o Without(entries, entry.key)
<1>1. Without(entries, entry.key) \in Seq(S)
  BY WithoutStays
<1>2. kept \in Seq(S)
  BY <1>1
<1> HIDE DEF kept
<1>3. Truncated(kept, capacity) \in Seq(S) /\ Len(Truncated(kept, capacity)) <= capacity
  <2>1. CASE Len(kept) > capacity
    BY <1>2, <2>1 DEF Truncated
  <2>2. CASE ~(Len(kept) > capacity)
    BY <1>2, <2>2 DEF Truncated
  <2> QED BY <2>1, <2>2
<1> QED BY <1>3 DEF Promoted, kept

-----------------------------------------------------------------------------
(* What a base brings back. *)

\* The event log is one the review base is keyed by in full.
LEMMA EarlyWithinReviewBase == collect_early_assembly \subseteq ReviewBaseKey
BY DEF collect_early_assembly, decode_source_records, mark_app_policy_matches,
       disambiguate_duplicate_timestamps, coalesce_duplicate_event_keys,
       resolve_timezone_strategy, order_source_records, canonicalize_source_rows,
       remove_missing_timestamps, ReviewBaseKey

\* The sessions of a screen base were constructed from the events.
LEMMA RestoredScreens ==
  ASSUME NEW w \in Watches, NEW base \in BaseOf(w), NEW on \in Askable(w),
         ScreenMatches(base, on)
  PROVE  base.at \intersect Reads("screens", base.at) = on \intersect Reads("screens", on)
<1>1. /\ ~SourceText(on) /\ ~SourceText(base.at)
      /\ base.at \intersect ScreenBaseKey = on \intersect ScreenBaseKey
  BY DEF ScreenMatches, HasScreen, Agree
<1> DEFINE Screens ==
      ClassifiedFromEvents \union {"screen_session_construction_strategy"}
        \union build_neutral_chronicle_screen_construction
<1>2. \A u : ~SourceText(u) => Reads("screens", u) = Screens
  BY DEF Reads, classify_screen_sessions, construct_screen_intervals
<1>3. Screens \subseteq ScreenBaseKey \union Raw
        \union {"screen_session_construction_strategy", "fragmented_participant_ids"}
  BY DEF ClassifiedFromEvents, build_neutral_chronicle_screen_construction, ScreenBaseKey
<1>4. /\ base.at \subseteq w \union {FullField} /\ on \subseteq w \union {FullField}
      /\ w \intersect Raw = {} /\ "fragmented_participant_ids" \notin w
      /\ FullField \notin Raw
  BY Unwatched DEF BaseOf, Askable, FullField, Raw
<1>5. "screen_session_construction_strategy" \notin base.at
        /\ "screen_session_construction_strategy" \notin on
  BY <1>1 DEF SourceText
<1>6. base.at \intersect Screens = on \intersect Screens
  BY <1>1, <1>3, <1>4, <1>5 DEF FullField
<1> QED BY <1>1, <1>2, <1>6

\* The rows of a reconstruction base are those of the request, unless the
\* construction of the screen sessions has changed below their exclusion.
LEMMA RestoredRows ==
  ASSUME NEW w \in Watches, Apart(w), NEW base \in BaseOf(w), NEW on \in Askable(w),
         ReconstructionMatches(base, on)
  PROVE  base.at \intersect review_reconstructed_rows(base.at)
           = on \intersect review_reconstructed_rows(on)
<1>1. base.at \intersect ReconstructionBaseKey = on \intersect ReconstructionBaseKey
  BY DEF ReconstructionMatches, Agree
<1>2. {"screen_session_maximum_duration_disposition", "locked_screen_audio_disposition"}
        \subseteq ReconstructionBaseKey
  BY DEF ReconstructionBaseKey, ScreenPolicies, MaximumSession
<1>3. (Excluding(base.at) <=> Excluding(on)) /\ (LockedAudio(base.at) <=> LockedAudio(on))
  BY <1>1, <1>2 DEF Excluding, LockedAudio
<1>4. ~LockedAudio(on)
  BY <1>3 DEF BaseOf, Reusable, ReconstructionMatches
<1>5. /\ base.at \subseteq w \union {FullField} /\ on \subseteq w \union {FullField}
      /\ w \intersect Raw = {} /\ "fragmented_participant_ids" \notin w
      /\ FullField \notin Raw
  BY Unwatched DEF BaseOf, Askable, FullField, Raw
<1>6. Excluding(on) => "screen_session_construction_strategy" \notin w
  BY <1>5 DEF Apart, Excluding, FullField
<1>7. Excluding(on) => ~SourceText(on) /\ ~SourceText(base.at)
  BY <1>5, <1>6 DEF SourceText, FullField
<1>8. review_reconstructed_rows(base.at) = review_reconstructed_rows(on)
  BY <1>3, <1>4, <1>7, WhatRowsRead
<1> DEFINE Others ==
      {"screen_session_construction_strategy", "fragmented_participant_ids"} \union Raw
<1>9. review_usage_rows_before_floor \subseteq ReconstructionBaseKey
  BY DEF review_usage_rows_before_floor, mask_excluded_app_events, match_app_episodes,
         build_app_event_index, mark_app_policy_matches, ReconstructionBaseKey
<1>10. parsed_filter_rules \subseteq ReconstructionBaseKey
  BY DEF mark_app_policy_matches, ReconstructionBaseKey
<1>11. MaximumSession \subseteq ReconstructionBaseKey
  BY DEF ReconstructionBaseKey, ScreenPolicies
<1>12. disambiguate_duplicate_timestamps \subseteq ReconstructionBaseKey
  BY DEF mark_app_policy_matches, ReconstructionBaseKey
<1>13. ExclusionReads(on) \subseteq ReconstructionBaseKey
         \union (IF Excluding(on) THEN Others ELSE {})
  <2>1. CASE Excluding(on)
    BY <2>1, <1>2, <1>7, <1>11, <1>12
       DEF ExclusionReads, construct_screen_intervals, build_neutral_chronicle_screen_construction
  <2>2. CASE ~Excluding(on)
    BY <2>2, <1>2 DEF ExclusionReads
  <2> QED BY <2>1, <2>2
<1>14. LockedRows(on) \subseteq ReconstructionBaseKey
  BY <1>2, <1>4 DEF LockedRows
<1>15. background_apps \union MinimumDuration \union MaximumDuration \union SplitOptions
         \union {"model_concurrent_usage"} \subseteq ReconstructionBaseKey
  BY DEF ReconstructionBaseKey
<1>16. review_reconstructed_rows(on) \subseteq ReconstructionBaseKey
         \union (IF Excluding(on) THEN Others ELSE {})
  BY <1>9, <1>10, <1>13, <1>14, <1>15 DEF review_reconstructed_rows
<1>17. CASE Excluding(on)
  <2>1. base.at \intersect Others = {} /\ on \intersect Others = {}
    BY <1>17, <1>5, <1>6 DEF FullField
  <2> QED BY <1>17, <1>1, <1>8, <1>16, <2>1
<1>18. CASE ~Excluding(on)
  BY <1>18, <1>1, <1>8, <1>16
<1> QED BY <1>17, <1>18

(***************************************************************************)
(* What a base restores is what the query would compute: the keys of the   *)
(* bases, and what is not saved at all, make up for what they leave out.   *)
(***************************************************************************)
THEOREM RestoredIsFresh ==
  ASSUME NEW w \in Watches, Apart(w), NEW base \in BaseOf(w), NEW on \in Askable(w),
         NEW s \in Stages, Restored(s, base, on)
  PROVE  Value[s][base.at] = Value[s][on]
<1>1. base.at \in Assignments /\ on \in Assignments
  BY AskableIsAssignment DEF BaseOf
<1>2. SUFFICES base.at \intersect Reads(s, base.at) = on \intersect Reads(s, on)
  BY <1>1 DEF Value
<1>3. CASE s = "early"
  <2>1. base.at \intersect ReviewBaseKey = on \intersect ReviewBaseKey
    BY <1>3 DEF Restored, ReviewMatches, Agree
  <2> QED BY <2>1, <1>3, EarlyWithinReviewBase DEF Reads
<1>4. CASE s = "screens"
  <2>1. ScreenMatches(base, on)
    BY <1>4 DEF Restored
  <2> QED BY <2>1, <1>4, RestoredScreens
<1>5. CASE s = "rows"
  <2>1. ReconstructionMatches(base, on)
    BY <1>5 DEF Restored
  <2> QED BY <2>1, <1>5, RestoredRows DEF Reads
<1> QED BY <1>3, <1>4, <1>5, StagesAre DEF Restored

-----------------------------------------------------------------------------
(* How an engine evaluates a request. *)

\* The engine's bases are those of a question that could be asked.
LEMMA HeldIsAssignment ==
  ASSUME NEW w \in Watches, NEW e, EngineOK(e, w)
  PROVE  e.held \in BaseOf(w) /\ e.held.at \in Assignments
BY AskableIsAssignment DEF EngineOK, BaseOf

\* Where a query finds its value: in a base, in a slot, or by computing it.
LEMMA FoundFits ==
  ASSUME NEW w \in Watches, NEW e, EngineOK(e, w), NEW on \in Askable(w), NEW s \in Stages
  PROVE  /\ Found(e, s, on) \in SUBSET Inputs
         /\ Apart(w) => Found(e, s, on) = Value[s][on]
<1>1. on \in Assignments /\ e.held \in BaseOf(w) /\ e.held.at \in Assignments
  BY AskableIsAssignment, HeldIsAssignment
<1>2. CASE Restored(s, e.held, on)
  <2>1. Found(e, s, on) = Value[s][e.held.at]
    BY <1>2 DEF Found
  <2>2. Apart(w) => Value[s][e.held.at] = Value[s][on]
    BY <1>1, <1>2, RestoredIsFresh
  <2> QED BY <1>1, <2>1, <2>2, ValuesAreInputs
<1>3. CASE ~Restored(s, e.held, on) /\ Hits(e, s, on) = {}
  <2>1. Found(e, s, on) = Value[s][on]
    BY <1>3 DEF Found
  <2> QED BY <1>1, <2>1, ValuesAreInputs
<1>4. CASE ~Restored(s, e.held, on) /\ Hits(e, s, on) # {}
  <2>1. PICK i \in Hits(e, s, on) : Found(e, s, on) = e.slots[s][i].value
    BY <1>4 DEF Found
  <2>2. e.slots[s] \in Seq(Kept(s, w)) /\ i \in DOMAIN e.slots[s]
          /\ e.slots[s][i].key = Key[s][on]
    BY <2>1 DEF EngineOK, Hits
  <2>3. e.slots[s][i] \in Kept(s, w)
    BY <2>2
  <2>4. e.slots[s][i].value \in SUBSET Inputs
    BY <2>3 DEF Kept, Entry
  <2>5. ASSUME Apart(w) PROVE e.slots[s][i].value = Value[s][on]
    <3>1. PICK v \in Assignments :
            e.slots[s][i] = [key |-> Key[s][v], value |-> Value[s][v]]
      BY <2>3, <2>5 DEF Kept, OwnEntry
    <3>2. Key[s][v] = Key[s][on]
      BY <2>2, <3>1
    <3>3. Value[s][v] = Value[s][on]
      BY <1>1, <3>2, KeysSuffice
    <3> QED BY <3>1, <3>3
  <2> QED BY <2>1, <2>4, <2>5
<1> QED BY <1>2, <1>3, <1>4

\* An evaluation keeps the engine as it was but for the slots and windows.
LEMMA EvaluatedKeeps ==
  ASSUME NEW w \in Watches, NEW e, EngineOK(e, w), NEW on \in Askable(w),
         NEW done \in SUBSET Stages, NEW after, after = Evaluated(e, on, done)
  PROVE  /\ EngineOK(after, w)
         /\ after.verified = e.verified /\ after.aligned = e.aligned
         /\ after.raw = e.raw /\ after.held = e.held
         /\ after.window = Ran(e, on, done) \ ForExport(on)
         /\ after.exports = e.exports \union (Ran(e, on, done) \intersect ForExport(on))
<1> DEFINE slot(s) ==
             IF s \notin done \/ Restored(s, e.held, on) THEN e.slots[s]
             ELSE Promoted(e.slots[s], [key |-> Key[s][on], value |-> Found(e, s, on)],
                           Capacity(s))
           new == [s \in Stages |-> slot(s)]
<1>1. on \in Assignments /\ e \in EngineType
  BY AskableIsAssignment DEF EngineOK
<1>2. Ran(e, on, done) \subseteq Stages
  BY DEF Ran
<1>3. after = [e EXCEPT !.slots = new,
                        !.window = Ran(e, on, done) \ ForExport(on),
                        !.exports = e.exports \union (Ran(e, on, done) \intersect ForExport(on))]
  BY <1>1 DEF Evaluated, Opened, EngineType
<1>4. \A s \in Stages : slot(s) \in Seq(Kept(s, w)) /\ Len(slot(s)) <= Capacity(s)
  <2> TAKE s \in Stages
  <2>1. e.slots[s] \in Seq(Kept(s, w)) /\ Len(e.slots[s]) <= Capacity(s)
    BY DEF EngineOK
  <2>2. [key |-> Key[s][on], value |-> Found(e, s, on)] \in Kept(s, w)
    BY <1>1, FoundFits, ValuesAreInputs DEF Kept, Entry, OwnEntry
  <2>3. Capacity(s) \in {1, 2}
    BY CapacityIs
  <2> HIDE DEF Kept
  <2> QED BY <2>1, <2>2, <2>3, PromotedStays
<1> HIDE DEF slot
<1>5. \A s \in Stages : slot(s) \in Seq(Entry)
  <2> TAKE s \in Stages
  <2>1. Kept(s, w) \subseteq Entry
    BY DEF Kept
  <2> QED BY <1>4, <2>1
<1>6. new \in [Stages -> Seq(Entry)] /\ \A s \in Stages : new[s] = slot(s)
  BY <1>5
<1> HIDE DEF new
<1>7. after \in EngineType /\ after.slots = new
  BY <1>1, <1>2, <1>3, <1>6 DEF EngineType
<1>8. /\ after.verified = e.verified /\ after.aligned = e.aligned
      /\ after.raw = e.raw /\ after.held = e.held
      /\ after.window = Ran(e, on, done) \ ForExport(on)
      /\ after.exports = e.exports \union (Ran(e, on, done) \intersect ForExport(on))
  BY <1>1, <1>3 DEF EngineType
<1>9. EngineOK(after, w)
  BY <1>4, <1>6, <1>7, <1>8 DEF EngineOK
<1> QED BY <1>8, <1>9

\* An answer gives each query it asked the value it would compute.
LEMMA AnswersFit ==
  ASSUME NEW w \in Watches, NEW e, EngineOK(e, w), NEW on \in Askable(w),
         NEW done \in SUBSET Stages, Apart(w), NEW s \in Stages,
         Answers(e, on, done)[s].how # "none"
  PROVE  Answers(e, on, done)[s].value = Value[s][on]
<1>1. s \in done
  BY DEF Answers, NotAsked
<1>2. Answers(e, on, done)[s].value = Found(e, s, on)
  BY <1>1 DEF Answers
<1> QED BY <1>2, FoundFits

\* The queries whose answer says "ran" are those that ran.
LEMMA RanAre ==
  ASSUME NEW e, NEW on, NEW done \in SUBSET Stages
  PROVE  {s \in Stages : Answers(e, on, done)[s].how = "ran"} = Ran(e, on, done)
<1>1. \A s \in Stages : Answers(e, on, done)[s].how
                          = IF s \in done THEN How(e, s, on) ELSE "none"
  BY DEF Answers, NotAsked
<1> QED BY <1>1 DEF Ran

-----------------------------------------------------------------------------
(* A request preserves the invariant. *)

\* What a request is asked with: an engine in order, which has the raw file
\* for a full run and for a retry after a preflight, and otherwise may have
\* been given the stored bases in its place.
Ready(by, on, e) ==
  /\ EngineOK(e, watch) /\ e.exports = {}
  /\ by \in {"full", "cached", "raw"} /\ on \in Askable(watch)
  /\ by = "cached" => on \subseteq watch
  /\ by = "full" \/ Full(on) => e.raw
  /\ by = "raw" /\ ScreensMatter(on) => e.raw
  /\ e.aligned
  /\ ~e.raw => e.held.kind # "none" /\ e.held.at = stored.at

\* Requests demand, and run before a query, queries only.
LEMMA DemandedAreStages ==
  ASSUME NEW e, NEW on, NEW s
  PROVE  Demanded(e, on) \subseteq Stages /\ Before(e, s, on) \subseteq Stages
BY DEF Demanded, Before

\* A new engine is well formed, and nothing waits for export in it.
LEMMA NewEngineOK ==
  ASSUME NEW w \in Watches
  PROVE  EngineOK(NewEngine, w) /\ NewEngine.exports = {}
<1>1. [s \in Stages |-> <<>>] \in [Stages -> Seq(Entry)]
  OBVIOUS
<1>2. NewEngine \in EngineType
  BY <1>1 DEF NewEngine, EngineType, NoBases, Kinds
<1>3. NewEngine.held \in BaseOf(w)
  BY DEF NewEngine, NoBases, BaseOf, Kinds, Askable
<1>4. \A s \in Stages : NewEngine.slots[s] = <<>>
  BY DEF NewEngine
<1>5. \A s \in Stages : <<>> \in Seq(Kept(s, w)) /\ Len(<<>>) <= Capacity(s)
  BY CapacityIs
<1> QED BY <1>2, <1>3, <1>4, <1>5 DEF EngineOK, NewEngine

\* A request that is answered preserves the invariant.
LEMMA SucceedStep ==
  ASSUME IInv, NEW by, NEW on, NEW e, Ready(by, on, e), Succeed(by, on, e)
  PROVE  IInv'
<1> DEFINE done == Demanded(e, on)
<1>1. PICK save \in Saves(on), after \in {Evaluated(e, on, done)} :
        /\ request' = [outcome |-> "answered", by |-> by, ask |-> on]
        /\ answer' = Answers(e, on, done)
        /\ receipt' = after.window \union after.exports
        /\ live' = [after EXCEPT !.window = {}, !.exports = {}, !.aligned = (save # "lost")]
        /\ stored' = CASE save \in {"nothing", "lost"} -> stored
                       [] save = "none" -> NoBases
                       [] save \in Kinds \ {"none"} -> [kind |-> save, at |-> on]
  BY DEF Succeed, Drained
<1>2. UNCHANGED <<watch, now>>
  BY DEF Succeed
<1>3. done \subseteq Stages /\ watch \in Watches
  BY DemandedAreStages DEF IInv, Shape
<1>4. /\ EngineOK(after, watch)
      /\ after.verified = e.verified /\ after.aligned = e.aligned
      /\ after.raw = e.raw /\ after.held = e.held
      /\ after.window = Ran(e, on, done) \ ForExport(on)
      /\ after.exports = e.exports \union (Ran(e, on, done) \intersect ForExport(on))
  <2>1. after = Evaluated(e, on, done)
    BY <1>1
  <2>2. EngineOK(e, watch) /\ on \in Askable(watch)
    BY DEF Ready
  <2> HIDE DEF done
  <2> QED BY <1>3, <2>1, <2>2, EvaluatedKeeps
<1>5. /\ live' \in EngineType /\ live'.held = e.held /\ live'.slots = after.slots
      /\ live'.raw = e.raw /\ live'.exports = {} /\ live'.verified = e.verified
      /\ live'.aligned = (save # "lost")
  <2>1. after \in EngineType
    BY <1>4 DEF EngineOK
  <2>2. live' = [after EXCEPT !.window = {}, !.exports = {}, !.aligned = (save # "lost")]
    BY <1>1
  <2> QED BY <1>4, <2>1, <2>2 DEF EngineType
<1>14. stored' = CASE save \in {"nothing", "lost"} -> stored
                 [] save = "none" -> NoBases
                 [] save \in Kinds \ {"none"} -> [kind |-> save, at |-> on]
  BY <1>1
<1>6. EngineOK(live', watch)
  BY <1>4, <1>5 DEF EngineOK
<1>7. /\ request' \in RequestType(watch)
      /\ request'.outcome = "answered" /\ request'.ask = on
  BY <1>1 DEF RequestType, Ready, Outcomes
<1>8. stored' \in BaseOf(watch)
  <2>1. CASE save \in {"nothing", "lost"}
    <3>1. stored' = stored
      BY <1>14, <2>1 DEF Kinds
    <3> QED BY <3>1 DEF IInv, Shape
  <2>2. CASE save = "none"
    BY <1>14, <2>2 DEF NoBases, BaseOf, Kinds, Askable
  <2>3. CASE save \in {"review", "pair"}
    <3>1. save = "pair" => Reusable(on)
      BY <2>3 DEF Saves
    <3>2. stored' = [kind |-> save, at |-> on]
      BY <1>14, <2>3 DEF Kinds
    <3>3. on \in Askable(watch) /\ save \in Kinds
      BY <2>3 DEF Ready, Kinds
    <3> QED BY <3>1, <3>2, <3>3 DEF BaseOf
  <2> QED BY <2>1, <2>2, <2>3 DEF Saves
<1>9. Shape'
  BY <1>2, <1>3, <1>5, <1>6, <1>7, <1>8 DEF IInv, Shape
<1>10. Fresh'
  <2> SUFFICES ASSUME Apart(watch), NEW s \in Stages, answer'[s].how # "none"
               PROVE  answer'[s].value = Value[s][on]
    BY <1>2, <1>7 DEF Fresh, AnswersAreFresh
  <2>1. answer' = Answers(e, on, done)
    BY <1>1
  <2> QED BY <1>3, <2>1, AnswersFit DEF Ready
<1>11. HeldIsStored'
  <2>1. CASE e.raw
    BY <1>5, <2>1 DEF HeldIsStored
  <2>2. CASE ~e.raw
    <3>1. ~Full(on)
      BY <2>2 DEF Ready
    <3>2. save = "nothing"
      BY <3>1 DEF Saves
    <3>3. stored' = stored
      BY <1>14, <3>2 DEF Kinds
    <3>4. e.held.kind # "none" /\ e.held.at = stored.at
      BY <2>2 DEF Ready
    <3> QED BY <1>5, <3>3, <3>4 DEF HeldIsStored
  <2> QED BY <2>1, <2>2
<1>12. MissedReview' /\ RawIsEnough' /\ OwnBasesSuffice'
  BY <1>7 DEF MissedReview, Missed, RawIsEnough, OwnBasesSuffice
<1>13. ReceiptIsOwn'
  <2>1. receipt' = Ran(e, on, done)
    <3>1. e.exports = {}
      BY DEF Ready
    <3> QED BY <1>1, <1>4, <3>1
  <2>2. {s \in Stages : answer'[s].how = "ran"} = Ran(e, on, done)
    BY <1>1, <1>3, RanAre
  <2> QED BY <2>1, <2>2 DEF ReceiptIsOwn
<1> QED BY <1>9, <1>10, <1>11, <1>12, <1>13 DEF IInv

\* A request that ends early leaves an engine in order, or a new one.
LEMMA StopStep ==
  ASSUME IInv, NEW by, NEW on, NEW e, Ready(by, on, e),
         NEW outcome \in {"missed", "refused", "failed"}, NEW done \in SUBSET Stages,
         Stop(outcome, by, on, e, done),
         EngineOK(live', watch), live'.exports = {},
         \/ ~live'.verified
         \/ live'.raw = e.raw /\ live'.held = e.held
  PROVE  Shape' /\ Fresh' /\ HeldIsStored' /\ ReceiptIsOwn'
<1>1. /\ request' = [outcome |-> outcome, by |-> by, ask |-> on]
      /\ answer' = Answers(e, on, done)
      /\ UNCHANGED <<watch, now, stored>>
  BY DEF Stop
<1>2. request' \in RequestType(watch) /\ request'.outcome = outcome /\ request'.ask = on
  BY <1>1 DEF RequestType, Ready, Outcomes
<1>3. Shape'
  BY <1>1, <1>2 DEF IInv, Shape
<1>4. Fresh'
  <2> SUFFICES ASSUME Apart(watch), NEW s \in Stages, answer'[s].how # "none"
               PROVE  answer'[s].value = Value[s][on]
    BY <1>1, <1>2 DEF Fresh, AnswersAreFresh
  <2>1. watch \in Watches
    BY DEF IInv, Shape
  <2> QED BY <1>1, <2>1, AnswersFit DEF Ready
<1>5. HeldIsStored'
  <2>1. ~e.raw => e.held.kind # "none" /\ e.held.at = stored.at
    BY DEF Ready
  <2> QED BY <1>1, <2>1 DEF HeldIsStored
<1>6. ReceiptIsOwn'
  BY <1>2 DEF ReceiptIsOwn
<1> QED BY <1>3, <1>4, <1>5, <1>6

\* The evaluated part of a request that ends early.
Emptied(after) == [after EXCEPT !.exports = {}]
\* An engine whose request ended early keeps what holds of an engine.
LEMMA StoppedEngine ==
  ASSUME NEW w \in Watches, NEW e, EngineOK(e, w), e.exports = {}, NEW on \in Askable(w),
         NEW done \in SUBSET Stages, NEW after, after = Evaluated(e, on, done),
         NEW kept, kept = Emptied(after)
  PROVE  /\ EngineOK(kept, w) /\ kept.exports = {}
         /\ kept.raw = e.raw /\ kept.held = e.held
         /\ kept.aligned = e.aligned /\ kept.verified = e.verified
<1>2. /\ EngineOK(after, w) /\ after.verified = e.verified /\ after.aligned = e.aligned
      /\ after.raw = e.raw /\ after.held = e.held
  BY EvaluatedKeeps
<1>3. after \in EngineType
  BY <1>2 DEF EngineOK
<1>4. /\ kept \in EngineType /\ kept.slots = after.slots /\ kept.held = after.held
      /\ kept.exports = {} /\ kept.raw = after.raw /\ kept.aligned = after.aligned
      /\ kept.verified = after.verified
  BY <1>3 DEF EngineType, Emptied
<1>5. EngineOK(kept, w)
  BY <1>2, <1>4 DEF EngineOK
<1> QED BY <1>2, <1>4, <1>5

\* Given a base that fits, an engine misses the raw file only for the screen.
LEMMA BlockedForScreens ==
  ASSUME NEW e, NEW on, ReviewMatches(e.held, on), Blocked(e, on) # {}
  PROVE  ScreensMatter(on)
<1>1. PICK s \in Stages : s \in Demanded(e, on) /\ NeedsRaw(e, s, on)
  BY DEF Blocked, Demanded
<1>2. CASE s = "early"
  <2>1. How(e, s, on) = "restored"
    BY <1>2 DEF How, Restored
  <2> QED BY <1>1, <1>2, <2>1 DEF NeedsRaw, ScreensMatter
<1>3. CASE s = "screens"
  BY <1>1, <1>3 DEF Demanded, Needed
<1>4. CASE s = "rows"
  BY <1>1, <1>4 DEF NeedsRaw, ScreensMatter
<1>5. CASE s = "outputs"
  BY <1>1, <1>5 DEF NeedsRaw, ScreensMatter
<1>6. CASE s \notin {"early", "screens", "rows", "outputs"}
  BY <1>1, <1>6 DEF NeedsRaw
<1> QED BY <1>2, <1>3, <1>4, <1>5, <1>6

\* A base saved with the options of the request fits it.
LEMMA OwnBaseMatches ==
  ASSUME NEW on, NEW base, base.kind # "none", base.at = on \union {FullField}
  PROVE  ReviewMatches(base, on)
<1>1. FullField \notin ReviewBaseKey
  BY DEF FullField, ReviewBaseKey, Raw, StopTypes, parsed_filter_rules
<1> QED BY <1>1 DEF ReviewMatches, Agree

\* A request that finds no raw file preserves the invariant.
LEMMA RefuseStep ==
  ASSUME IInv, NEW by, NEW on, NEW e, Ready(by, on, e), Refuse(by, on, e)
  PROVE  IInv'
<1>0. PICK s \in Blocked(e, on) : \E outcome, done, after :
        /\ outcome = IF by = "cached" THEN "missed" ELSE "refused"
        /\ done = Before(e, s, on) /\ after = Evaluated(e, on, done)
        /\ Stop(outcome, by, on, e, done)
        /\ live' = Emptied(after)
  BY DEF Refuse, Drained, Emptied
<1>1. PICK outcome, done, after :
        /\ outcome = IF by = "cached" THEN "missed" ELSE "refused"
        /\ done = Before(e, s, on) /\ after = Evaluated(e, on, done)
        /\ Stop(outcome, by, on, e, done)
        /\ live' = Emptied(after)
  BY <1>0
<1>2. watch \in Watches /\ done \in SUBSET Stages
        /\ outcome \in {"missed", "refused", "failed"}
  BY <1>1, DemandedAreStages DEF IInv, Shape
<1>3. EngineOK(e, watch) /\ e.exports = {} /\ on \in Askable(watch)
  BY DEF Ready
<1>4. /\ EngineOK(live', watch) /\ live'.exports = {}
      /\ live'.raw = e.raw /\ live'.held = e.held
  <2>1. PICK kept : kept = Emptied(after)
    OBVIOUS
  <2>2. /\ EngineOK(kept, watch) /\ kept.exports = {}
        /\ kept.raw = e.raw /\ kept.held = e.held
    BY <1>1, <1>2, <1>3, <2>1, StoppedEngine
  <2>3. live' = kept
    BY <1>1, <2>1
  <2> QED BY <2>2, <2>3
<1>5. Shape' /\ Fresh' /\ HeldIsStored' /\ ReceiptIsOwn'
  BY <1>1, <1>2, <1>4, StopStep
<1>6. /\ request' = [outcome |-> outcome, by |-> by, ask |-> on]
      /\ UNCHANGED <<watch, now, stored>>
  BY <1>1 DEF Stop
<1>7. ~e.raw
  BY <1>1 DEF Blocked
<1>8. MissedReview'
  BY <1>1, <1>6 DEF MissedReview, Missed, Ready
<1>9. RawIsEnough'
  BY <1>1, <1>6, <1>7 DEF RawIsEnough, Ready
<1>10. OwnBasesSuffice'
  <2> SUFFICES ASSUME stored.at = on \union {FullField}
               PROVE  ScreensMatter(on)
    BY <1>6 DEF OwnBasesSuffice, FullField
  <2>1. e.held.kind # "none" /\ e.held.at = stored.at
    BY <1>7 DEF Ready
  <2>2. ReviewMatches(e.held, on)
    BY <2>1, OwnBaseMatches
  <2> QED BY <1>1, <2>2, BlockedForScreens
<1> QED BY <1>5, <1>8, <1>9, <1>10 DEF IInv

\* A request that fails preserves the invariant.
LEMMA FailStep ==
  ASSUME IInv, NEW by, NEW on, NEW e, Ready(by, on, e), Fail(by, on, e)
  PROVE  IInv'
<1>0. PICK s \in Demanded(e, on), storage \in BOOLEAN : \E done, after :
        /\ done = Before(e, s, on) /\ after = Evaluated(e, on, done)
        /\ Stop("failed", by, on, e, done)
        /\ live' = IF storage THEN NewEngine ELSE Emptied(after)
  BY DEF Fail, Drained, Emptied
<1>1. PICK done, after :
        /\ done = Before(e, s, on) /\ after = Evaluated(e, on, done)
        /\ Stop("failed", by, on, e, done)
        /\ live' = IF storage THEN NewEngine ELSE Emptied(after)
  BY <1>0
<1>2. watch \in Watches /\ done \in SUBSET Stages
  BY <1>1, DemandedAreStages DEF IInv, Shape
<1>3. EngineOK(e, watch) /\ e.exports = {} /\ on \in Askable(watch)
  BY DEF Ready
<1>4. /\ EngineOK(live', watch) /\ live'.exports = {}
      /\ ~live'.verified \/ (live'.raw = e.raw /\ live'.held = e.held)
  <2>1. CASE storage
    <3>1. live' = NewEngine
      BY <1>1, <2>1
    <3> QED BY <1>2, <3>1, NewEngineOK DEF NewEngine
  <2>2. CASE ~storage
    <3>1. PICK kept : kept = Emptied(after)
      OBVIOUS
    <3>2. /\ EngineOK(kept, watch) /\ kept.exports = {}
          /\ kept.raw = e.raw /\ kept.held = e.held
      BY <1>1, <1>2, <1>3, <3>1, StoppedEngine
    <3>3. live' = kept
      BY <1>1, <2>2, <3>1
    <3> QED BY <3>2, <3>3
  <2> QED BY <2>1, <2>2
<1>5. Shape' /\ Fresh' /\ HeldIsStored' /\ ReceiptIsOwn'
  BY <1>1, <1>2, <1>4, StopStep
<1>6. request' = [outcome |-> "failed", by |-> by, ask |-> on]
  BY <1>1 DEF Stop
<1>7. MissedReview' /\ RawIsEnough' /\ OwnBasesSuffice'
  BY <1>6 DEF MissedReview, Missed, RawIsEnough, OwnBasesSuffice
<1> QED BY <1>5, <1>7 DEF IInv

\* So does a request, however it ends.
LEMMA RunStep ==
  ASSUME IInv, NEW by, NEW on, NEW e, Ready(by, on, e), Run(by, on, e)
  PROVE  IInv'
BY SucceedStep, RefuseStep, FailStep DEF Run

-----------------------------------------------------------------------------
(* The engine each request is asked on. *)

\* After the alignment with the workspace the engine is in step with it.
LEMMA AlignedReady ==
  ASSUME IInv
  PROVE  /\ EngineOK(Aligned, watch) /\ Aligned.exports = {} /\ Aligned.aligned
         /\ Aligned.held \in BaseOf(watch)
<1>1. watch \in Watches /\ EngineOK(live, watch) /\ live.exports = {}
  BY DEF IInv, Shape
<1>2. CASE live.aligned
  BY <1>1, <1>2 DEF Aligned, EngineOK
<1>3. CASE ~live.aligned
  <2>1. NewEngine.aligned
    BY DEF NewEngine
  <2> QED BY <1>1, <1>3, <2>1, NewEngineOK DEF Aligned, EngineOK
<1> QED BY <1>2, <1>3

\* The bases of a workspace are a value of the engine's field.
LEMMA BasesAreInputs ==
  ASSUME NEW w \in Watches
  PROVE  BaseOf(w) \subseteq [kind : Kinds, at : SUBSET Inputs]
<1>1. \A on : FullField \in assemble_result_manifest(on)
  BY DEF FullField, assemble_result_manifest, assemble_outputs, assemble_primary_outputs
<1>2. FullField \in Inputs
  BY <1>1 DEF Inputs
<1>3. w \subseteq Inputs
  BY WatchesAssumption
<1> QED BY <1>2, <1>3 DEF BaseOf, Askable

\* An engine that was handed the raw file can run every query.
LEMMA GivenTheFile ==
  ASSUME NEW w \in Watches, NEW e, EngineOK(e, w), e.exports = {},
         NEW bases \in BaseOf(w), NEW given, given = WithRaw(e, bases)
  PROVE  /\ EngineOK(given, w) /\ given.exports = {} /\ given.verified /\ given.raw
         /\ given.aligned = e.aligned /\ given.held = bases
<1>1. e \in EngineType /\ bases \in [kind : Kinds, at : SUBSET Inputs]
  BY BasesAreInputs DEF EngineOK
<1>2. /\ given \in EngineType /\ given.exports = e.exports /\ given.verified /\ given.raw
      /\ given.aligned = e.aligned /\ given.held = bases /\ given.slots = e.slots
  BY <1>1 DEF EngineType, WithRaw
<1> QED BY <1>2 DEF EngineOK

\* An engine that was handed bases and no file holds these bases.
LEMMA GivenTheBases ==
  ASSUME NEW w \in Watches, NEW e, EngineOK(e, w), e.exports = {},
         NEW bases \in BaseOf(w), NEW given, given = WithoutRaw(e, bases)
  PROVE  /\ EngineOK(given, w) /\ given.exports = {} /\ given.verified /\ ~given.raw
         /\ given.aligned = e.aligned /\ given.held = bases
<1>1. e \in EngineType /\ bases \in [kind : Kinds, at : SUBSET Inputs]
  BY BasesAreInputs DEF EngineOK
<1>2. /\ given \in EngineType /\ given.exports = e.exports /\ given.verified /\ ~given.raw
      /\ given.aligned = e.aligned /\ given.held = bases /\ given.slots = e.slots
  BY <1>1 DEF EngineType, WithoutRaw
<1> QED BY <1>2 DEF EngineOK

\* Having no bases is a case of having bases.
LEMMA NoBasesIsBase ==
  ASSUME NEW w PROVE NoBases \in BaseOf(w)
BY DEF NoBases, BaseOf, Kinds, Askable

\* The bases selected are the stored ones, or what is left of them.
LEMMA SelectedBases ==
  ASSUME IInv, NEW on
  PROVE  /\ Selected(on) \in BaseOf(watch)
         /\ Selected(on) # NoBases
              => Selected(on).kind # "none" /\ Selected(on).at = stored.at
         /\ ReviewMatches(stored, on) <=> Selected(on) # NoBases
<1>1. stored \in BaseOf(watch) /\ stored \in [kind : Kinds, at : Askable(watch)]
  BY DEF IInv, Shape, BaseOf
<1>2. CASE ~ReviewMatches(stored, on)
  BY <1>2, NoBasesIsBase DEF Selected
<1>3. CASE ReviewMatches(stored, on)
  <2>1. PICK kind \in {"review", "pair"} :
          /\ Selected(on) = [stored EXCEPT !.kind = kind]
          /\ kind = "pair" => stored.kind = "pair"
    BY <1>1, <1>3 DEF Selected
  <2>2. Selected(on) = [kind |-> kind, at |-> stored.at]
    BY <1>1, <2>1
  <2>3. Selected(on) \in BaseOf(watch)
    BY <1>1, <2>1, <2>2 DEF BaseOf, Kinds
  <2>4. Selected(on).kind = kind /\ Selected(on).at = stored.at /\ Selected(on) # NoBases
    BY <2>1, <2>2 DEF NoBases
  <2> QED BY <1>3, <2>1, <2>3, <2>4
<1> QED BY <1>2, <1>3

-----------------------------------------------------------------------------
(* Every step preserves the invariant. *)

\* The current settings may be asked, as a review and as a full run.
LEMMA NowIsAsked ==
  ASSUME IInv
  PROVE  /\ watch \in Watches /\ now \subseteq watch /\ FullField \notin watch
         /\ now \in Askable(watch) /\ now \union {FullField} \in Askable(watch)
         /\ ~Full(now)
BY Unwatched DEF IInv, Shape, Askable, Full, FullField

\* A full run preserves the invariant.
LEMMA FullRunStep == ASSUME IInv, FullRun PROVE IInv'
<1>1. PICK e, on : /\ e = WithRaw(Aligned, NoBases)
                   /\ on = now \union {FullField}
                   /\ Run("full", on, e)
  BY DEF FullRun, FullField
<1>2. PICK a : a = Aligned
  OBVIOUS
<1>3. /\ EngineOK(e, watch) /\ e.exports = {} /\ e.raw /\ e.aligned
  BY <1>1, <1>2, AlignedReady, NowIsAsked, NoBasesIsBase, GivenTheFile
<1>4. Ready("full", on, e)
  BY <1>1, <1>3, NowIsAsked DEF Ready
<1> QED BY <1>1, <1>4, RunStep

\* A review answered from a warm engine preserves it.
LEMMA ReviewWarmStep == ASSUME IInv, ReviewWarm PROVE IInv'
<1>1. PICK e, on : e = live /\ on = now /\ Run("cached", on, e)
  BY DEF ReviewWarm
<1>2. /\ EngineOK(e, watch) /\ e.exports = {} /\ e.aligned
      /\ ~e.raw => e.held.kind # "none" /\ e.held.at = stored.at
  BY <1>1 DEF IInv, Shape, HeldIsStored, ReviewWarm, Warm
<1>3. Ready("cached", on, e)
  BY <1>1, <1>2, NowIsAsked DEF Ready
<1> QED BY <1>1, <1>3, RunStep

\* So does one that has to hand the engine its bases or the file.
LEMMA ReviewColdStep == ASSUME IInv, ReviewCold PROVE IInv'
<1>1. PICK e, on : e = WithoutRaw(Aligned, Selected(now)) /\ on = now /\ Run("cached", on, e)
  BY DEF ReviewCold
<1>2. PICK a, bases : a = Aligned /\ bases = Selected(now)
  OBVIOUS
<1>3. bases \in BaseOf(watch) /\ bases.kind # "none" /\ bases.at = stored.at
  BY <1>2, SelectedBases DEF ReviewCold, MayResume
<1>4. /\ EngineOK(e, watch) /\ e.exports = {} /\ e.aligned /\ e.held = bases
  BY <1>1, <1>2, <1>3, AlignedReady, NowIsAsked, GivenTheBases
<1>5. Ready("cached", on, e)
  BY <1>1, <1>3, <1>4, NowIsAsked DEF Ready
<1> QED BY <1>1, <1>5, RunStep

\* A retry is asked on an engine that has the raw file after a preflight, and
\* otherwise on what the review would have been asked on.
LEMMA RetryStep == ASSUME IInv, Retry PROVE IInv'
<1>1. PICK e, on : e = Prepared /\ on = request.ask /\ Run("raw", on, e)
  BY DEF Retry
<1>2. on \subseteq watch /\ on \in Askable(watch) /\ ~Full(on) /\ watch \in Watches
  BY <1>1, NowIsAsked DEF IInv, MissedReview, Retry, Askable, Full, FullField
<1>3. PICK a, p, bases : a = Aligned /\ p = Preflighted /\ bases = Selected(on)
  OBVIOUS
<1>4. EngineOK(a, watch) /\ a.exports = {} /\ a.aligned /\ a.held \in BaseOf(watch)
  BY <1>3, AlignedReady
<1>5. CASE e = WithRaw(a, NoBases)
  <2>1. EngineOK(e, watch) /\ e.exports = {} /\ e.aligned /\ e.raw
    BY <1>2, <1>4, <1>5, NoBasesIsBase, GivenTheFile
  <2>2. Ready("raw", on, e)
    BY <1>2, <2>1 DEF Ready
  <2> QED BY <1>1, <2>2, RunStep
<1>6. CASE ScreensMatter(on)
  <2>1. p = WithRaw(a, a.held)
    BY <1>1, <1>3, <1>6 DEF Preflighted
  <2>2. EngineOK(p, watch) /\ p.exports = {} /\ p.aligned /\ p.raw /\ p.verified
    BY <1>2, <1>4, <2>1, GivenTheFile
  <2>3. CASE stored.kind # "none"
    <3>1. e = p
      BY <1>1, <1>3, <2>2, <2>3 DEF Prepared, Warm
    <3>2. Ready("raw", on, e)
      BY <1>2, <2>2, <3>1 DEF Ready
    <3> QED BY <1>1, <3>2, RunStep
  <2>4. CASE stored.kind = "none"
    <3>1. ~Warm(p) /\ Selected(on) = NoBases
      BY <2>4 DEF Warm, Selected, ReviewMatches
    <3>2. e = WithRaw(a, NoBases)
      BY <1>1, <1>3, <3>1 DEF Prepared
    <3> QED BY <1>5, <3>2
  <2> QED BY <2>3, <2>4
<1>7. CASE ~ScreensMatter(on)
  <2>1. p = live
    BY <1>1, <1>3, <1>7 DEF Preflighted
  <2>2. CASE Warm(live)
    <3>1. e = live
      BY <1>1, <1>3, <2>1, <2>2 DEF Prepared
    <3>2. /\ EngineOK(e, watch) /\ e.exports = {} /\ e.aligned
          /\ ~e.raw => e.held.kind # "none" /\ e.held.at = stored.at
      BY <2>2, <3>1 DEF IInv, Shape, HeldIsStored, Warm
    <3>3. Ready("raw", on, e)
      BY <1>2, <1>7, <3>2 DEF Ready
    <3> QED BY <1>1, <3>3, RunStep
  <2>3. CASE ~Warm(live) /\ bases # NoBases
    <3>1. e = WithoutRaw(a, bases)
      BY <1>1, <1>3, <2>1, <2>3 DEF Prepared
    <3>2. bases \in BaseOf(watch) /\ bases.kind # "none" /\ bases.at = stored.at
      BY <1>3, <2>3, SelectedBases
    <3>3. EngineOK(e, watch) /\ e.exports = {} /\ e.aligned /\ e.held = bases
      BY <1>2, <1>4, <3>1, <3>2, GivenTheBases
    <3>4. Ready("raw", on, e)
      BY <1>2, <1>7, <3>2, <3>3 DEF Ready
    <3> QED BY <1>1, <3>4, RunStep
  <2>4. CASE ~Warm(live) /\ bases = NoBases
    <3>1. e = WithRaw(a, NoBases)
      BY <1>1, <1>3, <2>1, <2>4 DEF Prepared
    <3> QED BY <1>5, <3>1
  <2> QED BY <2>2, <2>3, <2>4
<1> QED BY <1>6, <1>7

\* An edit of a setting preserves the invariant: nothing was answered.
LEMMA EditStep ==
  ASSUME IInv, NEW f \in watch, Edit(f)
  PROVE  IInv'
<1>1. UNCHANGED <<watch, live, stored, request, answer, receipt>> /\ now' \subseteq watch
  BY DEF Edit, IInv, Shape
<1>2. Shape'
  BY <1>1 DEF IInv, Shape
<1>3. Fresh' /\ HeldIsStored' /\ MissedReview' /\ ReceiptIsOwn'
  BY <1>1 DEF IInv, Fresh, AnswersAreFresh, HeldIsStored, MissedReview, Missed, ReceiptIsOwn
<1>4. RawIsEnough' /\ OwnBasesSuffice'
  BY <1>1 DEF IInv, RawIsEnough, OwnBasesSuffice
<1> QED BY <1>2, <1>3, <1>4 DEF IInv

\* Nothing is run for a miss; it is one only where no base may stand in.
LEMMA MissStep == ASSUME IInv, Miss PROVE IInv'
<1>1. /\ request' = [outcome |-> "missed", by |-> "cached", ask |-> now]
      /\ answer' = Answers(live, now, {})
      /\ UNCHANGED <<watch, now, stored>>
      /\ live' = live \/ live' = Aligned
  BY DEF Miss, Stop
<1>2. EngineOK(live', watch) /\ live'.exports = {}
  BY <1>1, AlignedReady DEF IInv, Shape
<1>3. request' \in RequestType(watch)
  BY <1>1, NowIsAsked DEF RequestType, Outcomes
<1>4. Shape'
  BY <1>1, <1>2, <1>3 DEF IInv, Shape
<1>5. Fresh'
  <2>1. \A s \in Stages : answer'[s].how = "none"
    BY <1>1 DEF Answers, NotAsked
  <2> QED BY <2>1 DEF Fresh, AnswersAreFresh
<1>6. HeldIsStored'
  BY <1>1 DEF IInv, HeldIsStored, Aligned, NewEngine
<1>7. MissedReview' /\ ReceiptIsOwn' /\ RawIsEnough'
  BY <1>1, NowIsAsked DEF MissedReview, Missed, ReceiptIsOwn, RawIsEnough
<1>8. OwnBasesSuffice'
  <2> SUFFICES ASSUME stored.kind # "none", stored.at = now \union {FullField},
                      ~ScreensMatter(now)
               PROVE  FALSE
    BY <1>1 DEF OwnBasesSuffice, FullField
  <2>1. ReviewMatches(stored, now)
    BY OwnBaseMatches
  <2>2. Selected(now) # NoBases
    BY <2>1, SelectedBases
  <2>3. CommitmentFits(now)
    BY DEF CommitmentFits
  <2> QED BY <2>2, <2>3 DEF Miss, MayResume
<1> QED BY <1>4, <1>5, <1>6, <1>7, <1>8 DEF IInv

\* The loss of the engine preserves it.
LEMMA RestartStep == ASSUME IInv, Restart PROVE IInv'
<1>1. /\ live' = NewEngine /\ UNCHANGED <<watch, now, stored>>
      /\ request' = [request EXCEPT !.outcome = "none"] /\ answer' = NoAnswer
  BY DEF Restart
<1>2. request' \in RequestType(watch) /\ request'.outcome = "none"
  BY <1>1 DEF IInv, Shape, RequestType, Outcomes
<1>3. EngineOK(live', watch) /\ live'.exports = {} /\ ~live'.verified
  BY <1>1, NewEngineOK DEF IInv, Shape, NewEngine
<1>4. Shape'
  BY <1>1, <1>2, <1>3 DEF IInv, Shape
<1>5. Fresh'
  BY <1>1 DEF Fresh, AnswersAreFresh, NoAnswer, NotAsked
<1>6. HeldIsStored' /\ MissedReview' /\ ReceiptIsOwn' /\ RawIsEnough' /\ OwnBasesSuffice'
  BY <1>2, <1>3
     DEF HeldIsStored, MissedReview, Missed, ReceiptIsOwn, RawIsEnough, OwnBasesSuffice
<1> QED BY <1>4, <1>5, <1>6 DEF IInv

\* The engine that was aligned with the older root is not taken for the new one's.
LEMMA AnotherTabStep == ASSUME IInv, AnotherTabSaves PROVE IInv'
<1>0. PICK on \in SUBSET watch : \E save \in Saves(on \union {FullField}) \ {"lost", "none"} :
        stored' = [kind |-> save, at |-> on \union {FullField}]
  BY DEF AnotherTabSaves, FullField
<1>1. PICK save \in Saves(on \union {FullField}) \ {"lost", "none"} :
        stored' = [kind |-> save, at |-> on \union {FullField}]
  BY <1>0
<1>2. /\ live' = [live EXCEPT !.aligned = FALSE]
      /\ UNCHANGED <<watch, now, request, answer, receipt>>
  BY DEF AnotherTabSaves
<1>3. stored' \in BaseOf(watch)
  <2>1. Full(on \union {FullField})
    BY DEF Full, FullField
  <2>2. save \in {"review", "pair"} /\ (save = "pair" => Reusable(on \union {FullField}))
    BY <1>1, <2>1 DEF Saves
  <2> QED BY <1>1, <2>2 DEF BaseOf, Kinds, Askable
<1>4. EngineOK(live, watch) /\ live \in EngineType /\ live.exports = {}
  BY DEF IInv, Shape, EngineOK
<1>5. /\ live' \in EngineType /\ live'.held = live.held /\ live'.slots = live.slots
      /\ live'.exports = {} /\ ~live'.aligned
  BY <1>2, <1>4 DEF EngineType
<1>6. EngineOK(live', watch)
  BY <1>4, <1>5 DEF EngineOK
<1>7. Shape'
  BY <1>2, <1>3, <1>5, <1>6 DEF IInv, Shape
<1>8. Fresh' /\ MissedReview' /\ ReceiptIsOwn' /\ RawIsEnough'
  BY <1>2 DEF IInv, Fresh, AnswersAreFresh, MissedReview, Missed, ReceiptIsOwn, RawIsEnough
<1>9. HeldIsStored' /\ OwnBasesSuffice'
  BY <1>5 DEF HeldIsStored, OwnBasesSuffice
<1> QED BY <1>7, <1>8, <1>9 DEF IInv

\* It holds at first.
LEMMA InitStep == Init => IInv
<1> SUFFICES ASSUME Init PROVE IInv
  OBVIOUS
<1>1. /\ watch \in Watches /\ now = {} /\ live = NewEngine /\ stored = NoBases
      /\ request = [outcome |-> "none", by |-> "none", ask |-> {}]
      /\ answer = NoAnswer
  BY DEF Init
<1>2. request \in RequestType(watch) /\ request.outcome = "none"
  BY <1>1 DEF RequestType, Outcomes, Askable
<1>3. EngineOK(live, watch) /\ live.exports = {} /\ ~live.verified
  BY <1>1, NewEngineOK DEF NewEngine
<1>4. Shape
  BY <1>1, <1>2, <1>3, NoBasesIsBase DEF Shape
<1>5. Fresh
  BY <1>1 DEF Fresh, AnswersAreFresh, NoAnswer, NotAsked
<1>6. HeldIsStored /\ MissedReview /\ ReceiptIsOwn /\ RawIsEnough /\ OwnBasesSuffice
  BY <1>2, <1>3
     DEF HeldIsStored, MissedReview, Missed, ReceiptIsOwn, RawIsEnough, OwnBasesSuffice
<1> QED BY <1>4, <1>5, <1>6 DEF IInv

\* A step that changes nothing preserves it.
LEMMA StutterStep == ASSUME IInv, UNCHANGED vars PROVE IInv'
<1>1. UNCHANGED <<watch, now, live, stored, request, answer, receipt>>
  BY DEF vars
<1>2. Shape'
  BY <1>1 DEF IInv, Shape
<1>3. Fresh' /\ HeldIsStored' /\ MissedReview' /\ ReceiptIsOwn'
  BY <1>1 DEF IInv, Fresh, AnswersAreFresh, HeldIsStored, MissedReview, Missed, ReceiptIsOwn
<1>4. RawIsEnough' /\ OwnBasesSuffice'
  BY <1>1 DEF IInv, RawIsEnough, OwnBasesSuffice
<1> QED BY <1>2, <1>3, <1>4 DEF IInv

\* IInv is inductive.
THEOREM EngineInvariant == Spec => []IInv
<1>1. Init => IInv
  BY InitStep
<1>2. IInv /\ [Next]_vars => IInv'
  <2> SUFFICES ASSUME IInv, [Next]_vars PROVE IInv'
    OBVIOUS
  <2>1. ASSUME NEW f \in watch, Edit(f) PROVE IInv'
    BY <2>1, EditStep
  <2>2. CASE FullRun
    BY <2>2, FullRunStep
  <2>3. CASE ReviewWarm
    BY <2>3, ReviewWarmStep
  <2>4. CASE ReviewCold
    BY <2>4, ReviewColdStep
  <2>5. CASE Miss
    BY <2>5, MissStep
  <2>6. CASE Retry
    BY <2>6, RetryStep
  <2>7. CASE Restart
    BY <2>7, RestartStep
  <2>8. CASE AnotherTabSaves
    BY <2>8, AnotherTabStep
  <2>9. CASE UNCHANGED vars
    BY <2>9, StutterStep
  <2> QED
    BY <2>1, <2>2, <2>3, <2>4, <2>5, <2>6, <2>7, <2>8, <2>9 DEF Next
<1> QED BY <1>1, <1>2, PTL DEF Spec

-----------------------------------------------------------------------------
(* The theorems. *)

\* The worker's engine, bases and slots have their shape, within their capacity.
THEOREM TypeCorrect == Spec => []TypeOK
<1>1. IInv => TypeOK
  BY DEF IInv, Shape, EngineOK, EngineType, BaseOf, TypeOK
<1> QED BY <1>1, EngineInvariant, PTL

(***************************************************************************)
(* Whatever is edited, between reviews, full runs, failures, restarts and  *)
(* other tabs' saves, no query is answered from a slot, a base or a memo   *)
(* with the value of another question; but for the rows of one run whose   *)
(* participants are left out under one construction of their screen        *)
(* sessions, when the construction is edited.                              *)
(***************************************************************************)
THEOREM NoStaleAnswer == Spec => [](Apart(watch) => AnswersAreFresh)
<1>1. IInv => (Apart(watch) => AnswersAreFresh)
  BY DEF IInv, Fresh
<1> QED BY <1>1, EngineInvariant, PTL

\* A request's receipt names the queries that ran for it, whatever earlier
\* requests on the engine left behind when they failed.
THEOREM ReceiptsAreOwn == Spec => []ReceiptIsOwn
<1>1. IInv => ReceiptIsOwn
  BY DEF IInv
<1> QED BY <1>1, EngineInvariant, PTL

\* A full run, and a retry after a preflight, have the bytes they run from.
THEOREM RawFileIsEnough == Spec => []RawIsEnough
<1>1. IInv => RawIsEnough
  BY DEF IInv
<1> QED BY <1>1, EngineInvariant, PTL

\* The bases of a run are enough to review that run in a later worker.
THEOREM BasesAreEnough == Spec => []OwnBasesSuffice
<1>1. IInv => OwnBasesSuffice
  BY DEF IInv
<1> QED BY <1>1, EngineInvariant, PTL
=============================================================================
