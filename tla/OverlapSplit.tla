---------------------------- MODULE OverlapSplit ----------------------------
(***************************************************************************)
(* split_overlapping_sessions of the app-usage matcher: paired sessions     *)
(* that may overlap are cut into rows, primary while the session is the     *)
(* newest of the open ones and secondary otherwise.  The sweep visits the   *)
(* boundaries in order and records only the changes of a session's layer;   *)
(* one step is one turn of its loop.                                        *)
(***************************************************************************)
EXTENDS Integers

CONSTANTS
  Session,  \* input indices
  Time,     \* timestamps
  Nil

VARIABLES
  start, stop,  \* the input: start[i] <= stop[i]
  begun,        \* sessions before ps in by_start
  ended,        \* sessions before pe in by_stop
  open,         \* the open sessions
  segment,      \* active_segments: since when a session has which layer
  rows,         \* the output
  done          \* the zero-width rows were added

input == <<start, stop>>
vars == <<input, begun, ended, open, segment, rows, done>>

Layers == {"primary", "secondary"}
Segments == [since : Time, layer : Layers]
Rows == [session : Session, start : Time, stop : Time, layer : Layers]

\* Exactly the open sessions have a segment, and a session is open only between
\* the visit of its start and the visit of its stop.
TypeOK ==
  /\ start \in [Session -> Time] /\ stop \in [Session -> Time]
  /\ \A i \in Session : start[i] <= stop[i]
  /\ begun \subseteq Session /\ ended \subseteq Session /\ open \subseteq begun \ ended
  /\ segment \in [Session -> Segments \cup {Nil}]
  /\ \A i \in Session : segment[i] # Nil <=> i \in open
  /\ rows \subseteq Rows
  /\ done \in BOOLEAN

Init ==
  /\ start \in [Session -> Time] /\ stop \in [Session -> Time]
  /\ \A i \in Session : start[i] <= stop[i]
  /\ begun = {} /\ ended = {} /\ open = {}
  /\ segment = [i \in Session |-> Nil]
  /\ rows = {}
  /\ done = FALSE

-----------------------------------------------------------------------------
\* The order of the set of open sessions: by start, then by index.
\* Mutant: ties go to the smaller index.
NewerFirst(i, j) == start[i] > start[j] \/ (start[i] = start[j] /\ i < j)
Newer(i, j) == start[i] > start[j] \/ (start[i] = start[j] /\ i > j)

\* The last of S in that order, as a set of at most one.
Newest(S) == {i \in S : \A j \in S \ {i} : Newer(i, j)}

Boundaries == {start[i] : i \in Session \ begun} \cup {stop[i] : i \in Session \ ended}

Segment(t, layer) == [since |-> t, layer |-> layer]

\* What the segments S say of sessions of I before t.  Empty segments leave
\* no row.
RowsUpTo(S, I, t) ==
  {[session |-> i, start |-> S[i].since, stop |-> t, layer |-> S[i].layer] :
     i \in {k \in I : S[k] # Nil /\ S[k].since < t}}

\* Sessions of I whose layer is another.
Changing(I, layer) == {i \in I : segment[i] # Nil /\ segment[i].layer # layer}

Ending(t) == {i \in Session \ ended : stop[i] <= t}

\* A session that ends where it starts is never opened.
Opening(t) == {i \in Session \ begun : start[i] <= t /\ stop[i] > t}

Demoted(t, now) == Changing(Newest(open) \ (Ending(t) \cup Newest(now)), "secondary")
Promoted(now) == Changing(Newest(now) \ Newest(open), "primary")

Changed(t, now) == Demoted(t, now) \cup Promoted(now)

Boundary(t) ==
  /\ t \in Boundaries /\ \A u \in Boundaries : t <= u
  /\ LET now == (open \ Ending(t)) \cup Opening(t)
         changed == Changed(t, now)
     IN /\ open' = now
        /\ rows' = rows \cup RowsUpTo(segment, Ending(t) \cup changed, t)
        /\ segment' = [i \in Session |->
              IF i \in Opening(t) \cup changed
              THEN Segment(t, IF i \in Newest(now) THEN "primary" ELSE "secondary")
              ELSE IF i \in Ending(t) THEN Nil ELSE segment[i]]
  /\ ended' = ended \cup Ending(t)
  /\ begun' = begun \cup {i \in Session : start[i] <= t}
  /\ UNCHANGED <<input, done>>

ZeroWidthRows ==
  {[session |-> i, start |-> start[i], stop |-> stop[i], layer |-> "primary"] :
     i \in {k \in Session : start[k] = stop[k]}}

Finish ==
  /\ ~done /\ Boundaries = {}
  /\ rows' = rows \cup ZeroWidthRows
  /\ done' = TRUE
  /\ UNCHANGED <<input, begun, ended, open, segment>>

Next == (\E t \in Time : Boundary(t)) \/ Finish

Spec == Init /\ [][Next]_vars

-----------------------------------------------------------------------------
\* Properties

RowsOf(i) == {r \in rows : r.session = i}
IsOpen(i, t) == start[i] <= t /\ t < stop[i]
LayerAt(i, t) ==
  IF \A j \in Session \ {i} : IsOpen(j, t) =>
       start[j] < start[i] \/ (start[j] = start[i] /\ j < i)
  THEN "primary" ELSE "secondary"

\* "In any sub-interval the open session with the greatest start_ns is primary
\* ...; every other open session is secondary": at every instant exactly the
\* open sessions have a row, one each, with the layer that definition gives,
\* and a session without duration keeps one row, a primary one.
LayersExact ==
  done => \A i \in Session :
    /\ \A t \in Time :
         LET here == {r \in RowsOf(i) : r.start <= t /\ t < r.stop}
         IN IF IsOpen(i, t)
            THEN \E r \in here : here = {r} /\ r.layer = LayerAt(i, t)
            ELSE here = {}
    /\ start[i] = stop[i] => RowsOf(i) = {[session |-> i, start |-> start[i],
                                          stop |-> stop[i], layer |-> "primary"]}
=============================================================================
