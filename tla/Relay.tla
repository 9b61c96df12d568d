-------------------------------- MODULE Relay --------------------------------
(***************************************************************************)
(* The outbound relay of server.py: Clark POSTs a reply to /send, signed,  *)
(* and the gateway sends it with send_threaded of gmail_client.py.  An     *)
(* administrator's send_approval_notification takes the same way after a   *)
(* test of another kind.  Nothing in a POST tells the gateway that it is a *)
(* repetition of an earlier one.                                           *)
(***************************************************************************)
EXTENDS FiniteSets

CONSTANTS
  Post,      \* POSTs to /send, and calls of send_approval_notification
  Genuine,   \* signed with the shared secret; made by an administrator
  Content    \* Content[c]: "reply", "nobody" without a recipient, "garbage"
             \* that is not JSON, "list" that is JSON but not an object

VARIABLES
  at,     \* at[c]: the next step of c, or how it ended for the caller
  out     \* those whose email Gmail has sent

relayVars == <<at, out>>

Open  == {"send", "copy"}
Ended == {"refused", "yes", "no", "unknown"}

TypeOK ==
  /\ at \in [Post -> {"idle", "body"} \union Open \union Ended]
  /\ out \subseteq Post

Init == at = [c \in Post |-> "idle"] /\ out = {}

Goto(c, step) == at' = [at EXCEPT ![c] = step]

Receive(c) ==
  /\ at[c] = "idle"
  /\ Goto(c, "body")
  /\ UNCHANGED out

Acceptable(c) == c \in Genuine /\ Content[c] = "reply"

Accept(c) ==
  /\ at[c] = "body"
  /\ Acceptable(c)
  /\ Goto(c, "send")
  /\ UNCHANGED out

(***************************************************************************)
(* 401 before the body is looked at, 400 for garbage and for a reply to    *)
(* nobody; a body that is not an object raises.                            *)
(***************************************************************************)
Refuse(c) ==
  /\ at[c] = "body"
  /\ ~ Acceptable(c)
  /\ Goto(c, "refused")
  /\ UNCHANGED out

(***************************************************************************)
(* The connection or the function ends before the body is in.              *)
(***************************************************************************)
BreaksOff(c) ==
  /\ at[c] = "body"
  /\ Goto(c, "refused")
  /\ UNCHANGED out

(***************************************************************************)
(* Gmail sends what it was given, at once or after the gateway has given   *)
(* up.                                                                     *)
(***************************************************************************)
GmailSends(c) ==
  /\ at[c] \in {"send", "no", "unknown"} /\ c \notin out
  /\ out' = out \union {c}
  /\ UNCHANGED at

MailSent(c) ==
  /\ at[c] = "send" /\ c \in out
  /\ Goto(c, "copy")
  /\ UNCHANGED out

\* Slip: a failed send is reported in the body of a 200.
MailFailsSoftly(c) ==
  /\ at[c] = "send"
  /\ Goto(c, "yes")
  /\ UNCHANGED out

(***************************************************************************)
(* The call raises, and the answer is 502, whatever Gmail has done.        *)
(***************************************************************************)
MailFails(c) ==
  /\ at[c] = "send"
  /\ Goto(c, "no")
  /\ UNCHANGED out

(***************************************************************************)
(* The SENT label is best effort: the answer is 200 with or without it.    *)
(***************************************************************************)
CopyToSent(c) ==
  /\ at[c] = "copy"
  /\ Goto(c, "yes")
  /\ UNCHANGED out

(***************************************************************************)
(* The function's 30 s or the connection end before the answer.            *)
(***************************************************************************)
Unheard(c) ==
  /\ at[c] \in Open
  /\ Goto(c, "unknown")
  /\ UNCHANGED out

Handle(c) ==
  \/ Accept(c) \/ Refuse(c) \/ BreaksOff(c)
  \/ MailSent(c) \/ MailFails(c) \/ CopyToSent(c) \/ Unheard(c)

Next == \E c \in Post : Receive(c) \/ Handle(c) \/ GmailSends(c)

Spec == Init /\ [][Next]_relayVars

-----------------------------------------------------------------------------
(* Properties *)

Phase ==
  [c \in Post |-> CASE at[c] = "body" -> "idle"
                    [] at[c] \in Open -> "open"
                    [] at[c] = "refused" -> "declined"
                    [] OTHER -> at[c]]

(***************************************************************************)
(* A reply that was refused is never sent, and one that was answered 200   *)
(* has been: Clark may take 200 as done, and anything else as open.        *)
(***************************************************************************)
Contract == INSTANCE RequestContract WITH Call <- Post, phase <- Phase, done <- out
=============================================================================
