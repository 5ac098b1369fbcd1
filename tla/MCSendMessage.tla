---------------------------- MODULE MCSendMessage ---------------------------
(***************************************************************************)
(* SendMessage instantiated for TLC: one, two or three brokers to try.     *)
(***************************************************************************)
EXTENDS SendMessage

MCLists == {<<"b1">>, <<"b1", "b2">>, <<"b2", "b3", "b1">>}
=============================================================================
