---------------------------- MODULE MCContactInbox ----------------------------
(***************************************************************************)
(* ContactInbox with small sets.                                           *)
(***************************************************************************)
EXTENDS ContactInbox
=============================================================================
