------------------------------- MODULE Lists -------------------------------
(***************************************************************************)
(* Loops over lists.                                                       *)
(***************************************************************************)
EXTENDS Naturals, Sequences, FiniteSets, Functions

(* The members of s that are in T, in the order of s. *)
Picked(s, T) ==
  LET picked[k \in 0 .. Len(s)] ==
        IF k = 0 THEN <<>>
        ELSE IF s[k] \in T THEN Append(picked[k - 1], s[k]) ELSE picked[k - 1]
  IN  picked[Len(s)]

(* The lists that s lists, one after the other. *)
Joined(s) ==
  LET joined[k \in 0 .. Len(s)] == IF k = 0 THEN <<>> ELSE joined[k - 1] \o s[k]
  IN  joined[Len(s)]
=============================================================================
