----------------------------- MODULE MCCommandBus -----------------------------
(***************************************************************************)
(* An instance of CommandBus for TLC.                                      *)
(***************************************************************************)
EXTENDS CommandBus

CONSTANTS ann, eve, clarks, daemon,   \* addresses
  p1, forged                         \* POSTs

\* An answer, and one with a signature that does not fit.
Contents == [c \in {p1, forged} |-> "reply"]

AllStyles ==
  {"top", "folded", "block", "html", "below", "attached", "forward", "mail", "mail_html", "inline"}
=============================================================================
