----------------------------- MODULE MCSendEmail -----------------------------
(***************************************************************************)
(* Instances of SendEmail for TLC.                                         *)
(***************************************************************************)
EXTENDS SendEmail, TLC

CONSTANTS c1, c2, c3, c4, c5, c6,   \* calls of the tool
          ann, bob, eve     \* users; eve is suspended

AnnAndBob == {ann, bob}

OneEach == [u \in User |-> 1]

AllAnn  == [c \in Call |-> ann]
WithEve == [c \in Call |-> IF c = c6 THEN eve ELSE IF c = c5 THEN bob ELSE ann]

\* ann's calls differ in nothing but their names
AnnsCalls == Permutations({c1, c2, c3, c4})
=============================================================================
