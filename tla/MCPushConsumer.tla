--------------------------- MODULE MCPushConsumer ---------------------------
(***************************************************************************)
(* PushConsumer instantiated for TLC.                                      *)
(***************************************************************************)
EXTENDS PushConsumer, TLC

(* Body sizes 1, 2, 1, 2, ...: neighbours differ. *)
MCBytes == [n \in 0..MaxDelivery |-> n + n \div 2]

Symmetry == Permutations(PQ) \cup Permutations(Cycle) \cup Permutations(Syncer)
=============================================================================
