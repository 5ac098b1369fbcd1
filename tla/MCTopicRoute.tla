---------------------------- MODULE MCTopicRoute ----------------------------
(***************************************************************************)
(* TopicRoute instantiated for TLC.                                        *)
(***************************************************************************)
EXTENDS TopicRoute

CONSTANTS r1, r2, r3

(* r1 and r2 differ in the address of a broker, r3 in its partitions. *)
PartitionsValue == [r \in Route |-> IF r = r3 THEN "others" ELSE "some"]
=============================================================================
