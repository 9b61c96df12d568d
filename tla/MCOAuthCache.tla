---------------------------- MODULE MCOAuthCache ----------------------------
(***************************************************************************)
(* An instance of OAuthCache for TLC.                                      *)
(***************************************************************************)
EXTENDS OAuthCache, TLC

CONSTANTS r1, r2, r3,  \* requests
          t1, t2,      \* tokens
          ann, bob     \* people

\* ann's token twice, once in a body that still names bob, and bob's once in a
\* body that names ann
Tokens == r1 :> t1 @@ r2 :> t1 @@ r3 :> t2
Bodies == r1 :> None @@ r2 :> bob @@ r3 :> ann
Owners == t1 :> ann @@ t2 :> bob
\* t2 runs out while requests are still coming
Expiry == t1 :> 9 @@ t2 :> 3
=============================================================================
