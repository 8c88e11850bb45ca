--------------------------- MODULE MCPayloadStore ---------------------------
(***************************************************************************)
(* An instance of the payload store for TLC.  PayloadSymmetry: entries,     *)
(* leases and addresses carry no order.                                     *)
(***************************************************************************)
EXTENDS PayloadStore, TLC

PayloadSymmetry ==
  Permutations(Entry) \cup Permutations(Addr) \cup Permutations(RowAddr) \cup Permutations(Lease)
=============================================================================
