------------------------- MODULE MCAppUsageMatcher -------------------------
(***************************************************************************)
(* The pure parts of episode reconstruction for TLC: a request is to match  *)
(* a log, to split sessions that overlap, or to reconstruct uses by one of  *)
(* the published rules.  They share nothing; one runs, the others stay as   *)
(* they are.                                                                *)
(***************************************************************************)
EXTENDS SparseMatcher, EpisodeRules

CONSTANTS Session, Time

VARIABLES
  request,  \* match, split or reconstruct
  from, to, begun, ended, open, segment, rows, done

Split == INSTANCE OverlapSplit WITH start <- from, stop <- to

\* Sessions are numbered and times are integers (i64).
ASSUME SessionsAssumption ==
  Session \subseteq Nat /\ Time \subseteq Int /\ Nil \notin Split!Segments

sessions == <<from, to, begun, ended, open, segment, rows, done>>

Defaults ==
  [reuse |-> FALSE, fallback |-> TRUE, fallbackThreshold |-> FALSE, proximity |-> 2,
   sameStop |-> {"paused"}, otherStop |-> {}, openers |-> {"resumed"}]

\* Stops of the own app with the grace for re-resumed starts; hand-over to the
\* next app; stops of both kinds, with and without reuse; openers that are not
\* resumes.
SomeOptions ==
  {Defaults,
   [Defaults EXCEPT !.otherStop = {"resumed"}, !.fallbackThreshold = TRUE],
   [Defaults EXCEPT !.otherStop = {"resumed", "paused"}, !.openers = {"resumed", "service"}],
   [Defaults EXCEPT !.reuse = TRUE, !.openers = {"service"}],
   [Defaults EXCEPT !.reuse = TRUE, !.otherStop = {"paused"}, !.openers = {"resumed", "service"}]}

\* Openers that are not resumes, and the native openers, under which a service
\* start is a row like any other.
SomeRules ==
  {[name |-> "foregroundBackground", openers |-> Openers],
   [name |-> "draxler", openers |-> Openers],
   [name |-> "morrison", openers |-> {"resumed"}]}

\* Every rule gets the kinds of row it reads, and one it ignores.  The app of a
\* screen event is not read.
SomeRows ==
  [n \in RuleNames |->
    {[app |-> CHOOSE a \in App : a \notin Background, kind |-> k] : k \in {"resumed", "paused"}}
    \cup {[app |-> CHOOSE a \in App : a \in Background, kind |-> k] :
           k \in {"service", "screenOff", "screenOn"}
                 \ (IF n = "morrison" THEN {} ELSE IF n = "draxler" THEN {"screenOn"} ELSE {"screenOff"})}]

NoLog == options = Defaults /\ Init
NoSessions ==
  /\ from = [i \in Session |-> 0] /\ to = [i \in Session |-> 0]
  /\ begun = {} /\ ended = {} /\ open = {} /\ rows = {} /\ done = FALSE
  /\ segment = [i \in Session |-> Nil]
NoEpisodes == rule = [name |-> "draxler", openers |-> Openers] /\ RulesInit

AnyRequest ==
  \/ request = "match" /\ Init /\ NoSessions /\ NoEpisodes
  \/ request = "split" /\ NoLog /\ Split!Init /\ NoEpisodes
  \/ request = "reconstruct" /\ NoLog /\ NoSessions /\ RulesInit

MatchStep == request = "match" /\ Next /\ UNCHANGED <<request, sessions, rulesVars>>
SplitStep == request = "split" /\ Split!Next /\ UNCHANGED <<request, vars, rulesVars>>
ReconstructStep ==
  request = "reconstruct" /\ RulesNext /\ UNCHANGED <<request, vars, sessions>>

RequestSpec ==
  AnyRequest
  /\ [][MatchStep \/ SplitStep \/ ReconstructStep]_<<request, vars, sessions, rulesVars>>

\* The instance's property, under the name the configuration checks: rows of
\* split_overlapping_sessions carry the layers its definition gives.
LayersExact == Split!LayersExact
=============================================================================
