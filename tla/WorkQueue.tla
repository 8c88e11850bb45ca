------------------------------ MODULE WorkQueue ------------------------------
(***************************************************************************)
(* What the pool of workers promises those who submit to it: a queue with   *)
(* servers.  A submission is taken at once, queued or refused; the queue    *)
(* is served from its head; a server serves one submission at a time, and   *)
(* a submission is served once and ends once.  When the pool closes the     *)
(* queue ends with it.                                                      *)
(***************************************************************************)
EXTENDS Sequences

CONSTANTS
  Slot,    \* servers
  Task,    \* submissions
  NoSlot,
  InOrder  \* nobody passes the queue

VARIABLES
  stage,  \* of each submission: new, waiting, served, ok or failed
  queue,  \* those that wait, oldest first
  server, \* of each submission that is served
  closed

vars == <<stage, queue, server, closed>>

Init ==
  /\ stage = [t \in Task |-> "new"] /\ queue = <<>>
  /\ server = [t \in Task |-> NoSlot] /\ closed = FALSE

Serve(t) ==
  /\ ~closed
  /\ stage' = [stage EXCEPT ![t] = "served"]
  /\ \E s \in Slot :
       /\ \A u \in Task : server[u] # s
       /\ server' = [server EXCEPT ![t] = s]

TakeAtOnce(t) ==
  /\ stage[t] = "new" /\ (InOrder => queue = <<>>)
  /\ Serve(t)
  /\ UNCHANGED <<queue, closed>>

Enqueue(t) ==
  /\ stage[t] = "new" /\ ~closed
  /\ stage' = [stage EXCEPT ![t] = "waiting"]
  /\ queue' = Append(queue, t)
  /\ UNCHANGED <<server, closed>>

\* Nobody is refused while others wait to be served.
Refuse(t) ==
  /\ stage[t] = "new" /\ queue = <<>>
  /\ stage' = [stage EXCEPT ![t] = "failed"]
  /\ UNCHANGED <<queue, server, closed>>

ServeNext ==
  /\ queue # <<>> /\ stage[Head(queue)] = "waiting"
  /\ Serve(Head(queue))
  /\ queue' = Tail(queue)
  /\ UNCHANGED closed

End(t) ==
  /\ stage[t] = "served"
  /\ \E how \in {"ok", "failed"} : stage' = [stage EXCEPT ![t] = how]
  /\ server' = [server EXCEPT ![t] = NoSlot]
  /\ UNCHANGED <<queue, closed>>

\* No server is left, or the pool closes.
EndQueue ==
  /\ ~closed
  /\ stage' = [t \in Task |-> IF stage[t] = "waiting" THEN "failed" ELSE stage[t]]
  /\ queue' = <<>>
  /\ closed' \in BOOLEAN
  /\ UNCHANGED server

Next ==
  \/ \E t \in Task : TakeAtOnce(t) \/ Enqueue(t) \/ Refuse(t) \/ End(t)
  \/ ServeNext \/ EndQueue

Spec == Init /\ [][Next]_vars
=============================================================================
