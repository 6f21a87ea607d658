--------------------------- MODULE MCRefreshTokens ---------------------------
(***************************************************************************)
(* RefreshTokens with a few calls.                                         *)
(***************************************************************************)
EXTENDS RefreshTokens
=============================================================================
