-------------------------- MODULE MCIncrementalEngine --------------------------
(***************************************************************************)
(* Instances of the incremental engine for TLC: one input is edited in a   *)
(* behaviour, or two of which one decides what is read.                    *)
(***************************************************************************)
EXTENDS IncrementalEngine

Edited == Inputs \ (Raw \union {"fragmented_participant_ids", "materialize_full_outputs"})
\* The inputs that decide what else is read, each alone, in reviews and full runs.
Arms ==
  {"usage_session_mode", "screen_session_construction_strategy",
   "screen_session_maximum_duration_disposition", "locked_screen_audio_disposition",
   "add_no_activity_placeholder_days", "micro_use_classification_policy",
   "model_concurrent_usage"}
Armed ==
  UNION {{{}, {a}, {"materialize_full_outputs"}, {a, "materialize_full_outputs"}} : a \in Arms}

\* Where an input is read and which keys hold it.  Inputs with one signature
\* behave alike, and one of them stands for all.
Signature(f) ==
  <<{<<s, on>> \in Stages \X Armed : f \in Reads(s, on)},
    {<<s, on>> \in Stages \X Armed : f \in SlotKey(s, on)},
    f \in ReviewBaseKey, f \in ReconstructionBaseKey, f \in ScreenBaseKey>>
Representatives ==
  {"usage_session_mode", "screen_session_construction_strategy",
   "screen_session_maximum_duration_disposition", "screen_session_maximum_duration_minutes",
   "screen_session_classification_policy", "locked_screen_audio_disposition",
   "add_no_activity_placeholder_days", "micro_use_classification_policy",
   "model_concurrent_usage", "same_app_stop_types", "timezone", "opener_set",
   "minimum_duration_disposition", "interaction_types_to_remove", "use_filter_file",
   "use_background_apps_file", "use_apps_forcing_screen_open", "apps_forcing_csv",
   "use_app_codebook", "study_dates_csv", "device_sharing_csv", "enrolled_devices_csv",
   "input_capability_evidence_csv"}
Signatures == [f \in Edited |-> Signature(f)]
ASSUME RepresentativesAssumption ==
  \A f \in Edited : \E r \in Representatives : Signatures[r] = Signatures[f]

MCWatches ==
  {{f} : f \in Representatives \union {"timezone"}}
    \union {{"usage_session_mode", "screen_session_construction_strategy"},
            {"screen_session_maximum_duration_disposition",
             "screen_session_maximum_duration_minutes"},
            {"screen_session_maximum_duration_disposition",
             "add_no_activity_placeholder_days"}}
MCFaults == [w \in Watches |-> IF w = {"timezone"} THEN 1 ELSE 0]

\* The two inputs the key of the reconstruction base does not relate.
MCStrategyWatches ==
  {{"screen_session_maximum_duration_disposition", "screen_session_construction_strategy"}}
================================================================================
