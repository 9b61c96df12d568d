--------------------------- MODULE MCInboundPoller ---------------------------
(***************************************************************************)
(* Instances of InboundPoller for TLC.                                     *)
(***************************************************************************)
EXTENDS InboundPoller, TLC

CONSTANTS b1, b2,      \* mailboxes
          m1, m2,      \* Gmail messages
          i1, i2,      \* Message-IDs
          u1,          \* allow-list endpoint
          ann, bob     \* senders

OneMailbox   == <<b1>>
TwoMailboxes == <<b1, b2>>

OneList  == [b \in Mailbox |-> u1]

\* ann is authorized for good everywhere, bob comes and goes
AnnSteady == [u \in Url |-> {ann}]

Letter(b, d, who, id, h) ==
  [mailbox |-> b, date |-> d, from |-> who, rfc822 |-> id, hygiene |-> h]

\* one message
Single == m1 :> Letter(b1, 1, ann, i1, "pass")

\* the same message in both mailboxes
CrossPosted == m1 :> Letter(b1, 1, ann, i1, "pass") @@ m2 :> Letter(b2, 2, ann, i1, "pass")

\* one message to forward and a younger one to drop
Assorted == m1 :> Letter(b1, 1, ann, i1, "pass") @@ m2 :> Letter(b1, 2, ann, NoMessageId, "drop")

\* a message of ann's, and one of bob's that the hygiene gate raises on
Pair == m1 :> Letter(b1, 1, ann, i1, "pass") @@ m2 :> Letter(b1, 2, bob, i2, "raise")
=============================================================================
