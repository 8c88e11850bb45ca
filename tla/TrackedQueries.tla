----------------------------- MODULE TrackedQueries -----------------------------
(*****************************************************************************)
(* What the queries of the incremental kernel read.  The kernel              *)
(* (pipeline_v2_incremental.rs) computes a review or a full run as a graph   *)
(* of tracked queries over five groups of inputs: the raw file, the early,   *)
(* usage, late and output options, and the support files.  A query is        *)
(* modelled by its FOOTPRINT, the set of inputs its value is a function of:  *)
(* the accessors its body calls, and the footprints of the queries it        *)
(* demands.  The computation itself is left out; two requests that agree on  *)
(* the footprint of a query get the same value from it.                      *)
(*                                                                           *)
(* An input has two values, and an assignment is the set "on" of the inputs  *)
(* that differ from those of one plain review of app usage.  Some inputs     *)
(* decide what is read next, and a footprint that depends on them takes the  *)
(* assignment as its argument.  The optional outputs are taken as selected.  The Schoedel and  *)
(* EYES episode strategies, which never run without the raw bytes, are left  *)
(* out, and so are the *_explicit companions of the options, which reach     *)
(* only the receipts.                                                        *)
(*****************************************************************************)

\* The rows that carry a timestamp, and those the decoder drops for having none.
Raw == {"timed_rows", "untimed_rows"}
StopTypes == {"same_app_stop_types", "other_stop_types"}

\* The filter file and the request fields that select and read it.
parsed_filter_rules ==
  {"use_filter_file", "filter_csv", "filter_match_field",
   "application_label_exclusions", "package_exclusion_preset"}
background_apps == {"use_background_apps_file", "background_apps_csv"}
parsed_apps_forcing_screen_open == {"use_apps_forcing_screen_open", "apps_forcing_csv"}
parsed_codebook_schema == {"use_app_codebook", "codebook_schema_json"}
parsed_codebook == parsed_codebook_schema \union {"codebook_csv"}
LateSupport ==
  {"study_dates_csv", "device_sharing_csv", "survey_attribution_csv", "enrolled_devices_csv"}

(***************************************************************************)
(* The inputs that decide what else is read.                               *)
(***************************************************************************)
Full(on) == "materialize_full_outputs" \in on
ScreenMode(on) == "usage_session_mode" \in on
SourceText(on) == "screen_session_construction_strategy" \in on
Excluding(on) == "screen_session_maximum_duration_disposition" \in on
LockedAudio(on) == "locked_screen_audio_disposition" \in on
Placeholders(on) == "add_no_activity_placeholder_days" \in on
\* b05_schoedel_is_active
ScreensMatter(on) == ScreenMode(on) \/ Excluding(on) \/ LockedAudio(on)
\* The static overlay zips the rows before the floor onto the rows after it.
UseStatic(on) ==
  /\ on \intersect {"model_concurrent_usage", "minimum_duration_disposition",
                    "maximum_duration_disposition"} = {}
  /\ on \intersect background_apps = {}
  /\ ~LockedAudio(on)
  /\ ~Excluding(on)

-------------------------------------------------------------------------------
(* The event log: decoding, ordering, clocks and duplicates. *)

decode_source_records == Raw
\* A row without a timestamp goes no further than the decoder and the counts.
remove_missing_timestamps == decode_source_records \ {"untimed_rows"}
canonicalize_source_rows ==
  remove_missing_timestamps \union {"interaction_type_remap", "timezone"}
order_source_records == canonicalize_source_rows \union {"drop_out_of_source_order_events"}
resolve_timezone_strategy == order_source_records \union {"timezone", "timezone_handling"}
coalesce_duplicate_event_keys == resolve_timezone_strategy \union {"deduplicate_exact_rows"}
disambiguate_duplicate_timestamps ==
  coalesce_duplicate_event_keys \union StopTypes \union {"correct_duplicate_event_timestamps"}
mark_app_policy_matches == disambiguate_duplicate_timestamps \union parsed_filter_rules
\* The counts and observations of all the steps above, for the manifest.
collect_early_assembly == decode_source_records \union mark_app_policy_matches
\* The rows before the application policy, under the retention set.
mask_excluded_app_events == disambiguate_duplicate_timestamps \union {"event_retention_set"}

-------------------------------------------------------------------------------
(* The screen: when it was on, and whose sessions are too long. *)

ScreenTimeouts ==
  {"screen_auto_lock_timeout_seconds", "screen_auto_lock_tolerance_seconds",
   "screen_manual_lock_max_tail_seconds", "screen_keyguard_near_stop_seconds"}
MaximumSession ==
  {"screen_session_maximum_duration_minutes", "screen_session_maximum_duration_disposition"}
ScreenPolicies ==
  MaximumSession \union {"screen_session_classification_policy",
                         "locked_screen_audio_disposition"}
prepare_b05_screen_substrate_query ==
  Raw \union {"fragmented_participant_ids", "input_capability_evidence_csv",
              "verified_evidence_artifact_digest", "verified_evidence_assignment_digest"}
build_neutral_chronicle_screen_construction ==
  Raw \union disambiguate_duplicate_timestamps \union {"fragmented_participant_ids"}
construct_screen_intervals(on) ==
  {"screen_session_construction_strategy"}
    \union (IF SourceText(on) THEN prepare_b05_screen_substrate_query
                              ELSE build_neutral_chronicle_screen_construction)
ClassifiedFromSource(on) ==
  construct_screen_intervals(on) \union decode_source_records \union {"timezone"}
    \union ScreenPolicies
ClassifiedFromEvents ==
  {"screen_session_construction_strategy"} \union disambiguate_duplicate_timestamps
    \union parsed_apps_forcing_screen_open \union ScreenTimeouts \union ScreenPolicies
classify_screen_sessions(on) ==
  IF SourceText(on) THEN ClassifiedFromSource(on) ELSE ClassifiedFromEvents
\* A participant of over-long screen sessions may be left out altogether.
ExclusionReads(on) ==
  {"screen_session_maximum_duration_disposition"}
    \union (IF Excluding(on) THEN MaximumSession \union construct_screen_intervals(on) ELSE {})
analysis_policy_rows(on) == mark_app_policy_matches \union ExclusionReads(on)

-------------------------------------------------------------------------------
(* From events to usage rows.  A full run goes through the steps one by one, *)
(* a review through the fused queries that begin with review_.               *)

build_app_event_index ==
  mask_excluded_app_events \union StopTypes \union background_apps
    \union {"model_concurrent_usage"}
MatcherOptions ==
  {"opener_set", "episode_reconstruction_strategy", "allow_stop_event_reuse",
   "use_activity_stopped_as_fallback", "apply_threshold_to_fallback",
   "long_duration_threshold_ns", "proximity_interval_ns"}
match_app_episodes == build_app_event_index \union MatcherOptions
MicroUse == {"micro_use_classification_policy"}
MinimumDuration ==
  {"minimum_usage_duration", "minimum_duration_comparator", "minimum_duration_disposition"}
MaximumDuration ==
  {"maximum_duration_policy", "maximum_duration_disposition",
   "maximum_duration_threshold_ns", "maximum_duration_threshold_source"}
SplitOptions == {"apply_minimum_usage_duration_to_concurrent_subintervals"}
GapThresholds == {"long_data_time_gap_thresholds"}
AnnotationOptions ==
  GapThresholds \union parsed_codebook
    \union {"custom_app_engagement_duration", "long_usage_duration_thresholds",
            "interval_quality_policy"}
RemovalOptions ==
  {"interaction_types_to_remove", "interaction_type_removal_mode",
   "filter_zero_duration_sessions"}

classify_episode_durations ==
  match_app_episodes \union mark_app_policy_matches \union background_apps \union MicroUse
    \union MinimumDuration \union MaximumDuration
LockedRows(on) ==
  {"locked_screen_audio_disposition"}
    \union (IF LockedAudio(on) THEN classify_screen_sessions(on) ELSE {})
apply_app_inclusion_policy(on) ==
  classify_episode_durations \union ExclusionReads(on) \union LockedRows(on)
segment_concurrent_usage(on) == apply_app_inclusion_policy(on) \union SplitOptions
collapse_app_genre(on) == segment_concurrent_usage(on) \union parsed_codebook
suppress_excluded_timing(on) == collapse_app_genre(on) \union AnnotationOptions
remove_zero_duration_rows(on) == suppress_excluded_timing(on) \union RemovalOptions

review_usage_rows_before_floor ==
  mask_excluded_app_events \union mark_app_policy_matches \union match_app_episodes
    \union background_apps \union MicroUse
review_static_annotations == review_usage_rows_before_floor \union AnnotationOptions
review_reconstructed_rows(on) ==
  review_usage_rows_before_floor \union parsed_filter_rules \union background_apps
    \union MinimumDuration \union MaximumDuration \union SplitOptions
    \union {"model_concurrent_usage"} \union ExclusionReads(on) \union LockedRows(on)
review_annotations_fused(on) ==
  review_reconstructed_rows(on) \union AnnotationOptions \union RemovalOptions
    \union (IF UseStatic(on) THEN review_static_annotations ELSE {})

-------------------------------------------------------------------------------
(* What is derived from the rows: windows, people, credit, contacts. *)

SessionOptions ==
  {"session_grouping_policy", "session_gap_basis", "session_boundary_scope",
   "emit_session_break_lineage"}
assign_usage_session_ids(on) ==
  {"materialize_full_outputs"} \union SessionOptions
    \union (IF Full(on) THEN remove_zero_duration_rows(on) ELSE review_annotations_fused(on))
ScreenRows(on) ==
  {"usage_session_mode"} \union (IF ScreenMode(on) THEN classify_screen_sessions(on) ELSE {})
study_window_source_rows(on) == assign_usage_session_ids(on) \union ScreenRows(on)
resolve_participant_windows(on) == study_window_source_rows(on) \union {"study_dates_csv"}
PersonOptions == {"enable_person_attribution", "device_sharing_csv", "survey_attribution_csv"}
divide_sessions_at_day_boundary(on) ==
  resolve_participant_windows(on) \union PersonOptions
    \union {"enable_study_window_filter", "day_boundary_attribution"}
synthesize_placeholder_rows(on) ==
  divide_sessions_at_day_boundary(on) \union {"add_no_activity_placeholder_days"}
    \union (IF Placeholders(on) THEN analysis_policy_rows(on) ELSE {})
classify_compliance_days(on) ==
  synthesize_placeholder_rows(on) \union {"compliance_threshold_percent"}

CreditOptions ==
  {"credited_session_cap_minutes", "device_liveness_gap_tolerance_minutes",
   "auto_lock_bridge_seconds", "bridge_screen_off_to_session_end",
   "no_witness_min_day_apps", "screen_gating_rule"}
derive_credited_intervals(on) ==
  assign_usage_session_ids(on) \union analysis_policy_rows(on) \union CreditOptions
assemble_notification_contact_outputs(on) ==
  assign_usage_session_ids(on) \union analysis_policy_rows(on) \union parsed_codebook
    \union {"notification_proxy_rule"}
PolledOptions ==
  {"polled_emulation_method", "polled_emulation_interval_seconds",
   "polled_emulation_gap_seconds"}
assemble_polled_emulation_outputs(on) ==
  assign_usage_session_ids(on) \union parsed_codebook \union PolledOptions

\* The options the outputs repeat, some of which only the outputs read.
output_options ==
  {"aggregate_shape", "aggregate_top_apps_limit", "study_name", "enable_aggregates",
   "enable_participant_amount_summary", "include_app_output", "include_screen_output",
   "include_category_column", "include_app_usage_end_reason",
   "neutralize_spreadsheet_formulas", "materialize_visualization_data",
   "enable_screen_gated_crediting", "enable_compliance_scoring", "enable_day_coverage",
   "interval_expansion_method", "datetime_of_preprocessing"}
    \union StopTypes \union ScreenTimeouts \union ScreenPolicies \union MatcherOptions
    \union MicroUse \union MinimumDuration \union MaximumDuration \union SplitOptions
    \union GapThresholds \union RemovalOptions \union CreditOptions \union SessionOptions
    \union PolledOptions \union (parsed_filter_rules \ {"filter_csv"})
    \union {"interaction_type_remap", "timezone", "timezone_handling",
            "drop_out_of_source_order_events", "deduplicate_exact_rows",
            "correct_duplicate_event_timestamps", "event_retention_set",
            "model_concurrent_usage", "custom_app_engagement_duration",
            "long_usage_duration_thresholds", "interval_quality_policy",
            "screen_session_construction_strategy", "usage_session_mode",
            "use_app_codebook", "use_apps_forcing_screen_open", "use_background_apps_file",
            "add_no_activity_placeholder_days", "enable_study_window_filter",
            "enable_person_attribution", "day_boundary_attribution",
            "compliance_threshold_percent", "notification_proxy_rule"}
FullOutputReads(on) ==
  analysis_policy_rows(on) \union derive_credited_intervals(on)
    \union assemble_notification_contact_outputs(on)
    \union assemble_polled_emulation_outputs(on) \union parsed_codebook
\* The receipt of the screen construction is bound into the outputs.
PreflightReads(on) == IF ScreensMatter(on) THEN construct_screen_intervals(on) ELSE {}
\* The classified rows are read for the receipt of a selected micro-use policy.
MicroUseReceipt(on) == IF on \intersect MicroUse = {} THEN {} ELSE classify_episode_durations
assemble_primary_outputs(on) ==
  output_options \union {"materialize_full_outputs"} \union ScreenRows(on)
    \union synthesize_placeholder_rows(on) \union PreflightReads(on) \union MicroUseReceipt(on)
    \union parsed_codebook_schema \union (IF Full(on) THEN FullOutputReads(on) ELSE {})
assemble_outputs(on) ==
  assemble_primary_outputs(on)
    \union (IF Full(on) THEN classify_compliance_days(on) \union LateSupport ELSE {})
assemble_result_manifest(on) == assemble_outputs(on) \union collect_early_assembly

\* Every input of the kernel, whatever the others are.
Inputs ==
  LET Everything == {"materialize_full_outputs", "usage_session_mode",
                     "screen_session_maximum_duration_disposition",
                     "locked_screen_audio_disposition", "add_no_activity_placeholder_days",
                     "micro_use_classification_policy"}
  IN  assemble_result_manifest(Everything)
        \union assemble_result_manifest(Everything \union {"screen_session_construction_strategy"})

-------------------------------------------------------------------------------
(***************************************************************************)
(* Two requests get the same value from a query whose footprint under the  *)
(* first is "fields": what the query reads next depends only on what it    *)
(* has read already.                                                       *)
(***************************************************************************)
Agree(fields, v, w) == v \intersect fields = w \intersect fields
===============================================================================
