---------------------------- MODULE SpillBackend ----------------------------
(***************************************************************************)
(* What the payload store and the storage behind it promise each other      *)
(* (trait SpillBackend): a payload is put at most once, reads back as it    *)
(* was put until it is removed, and its identity never returns.             *)
(***************************************************************************)
CONSTANT Id

VARIABLE status

Init == status = [id \in Id |-> "never"]

Put(id) == status[id] = "never" /\ status' = [status EXCEPT ![id] = "held"]

Remove(id) == status[id] \in {"never", "held"} /\ status' = [status EXCEPT ![id] = "gone"]

Next == \E id \in Id : Put(id) \/ Remove(id)

Spec == Init /\ [][Next]_status
=============================================================================
