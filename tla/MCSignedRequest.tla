--------------------------- MODULE MCSignedRequest ---------------------------
(***************************************************************************)
(* An instance of SignedRequest for TLC.                                   *)
(***************************************************************************)
EXTENDS SignedRequest

CONSTANTS c1, c2, c3   \* calls
=============================================================================
