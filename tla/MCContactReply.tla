--------------------------- MODULE MCContactReply ---------------------------
(***************************************************************************)
(* ContactReply with small sets.                                           *)
(***************************************************************************)
EXTENDS ContactReply
=============================================================================
