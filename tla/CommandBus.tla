------------------------------ MODULE CommandBus ------------------------------
(***************************************************************************)
(* The email command bus end to end: people write to clark@, the gateway's *)
(* sweep gates and parses what they write (EmailRules), Clark answers      *)
(* through the relay (Relay), and the answers lead to more mail: people    *)
(* reply to them, and so do machines.  How people's clients lay a mail     *)
(* out, and what machines put into its headers, is external to the code.   *)
(* What a sweep does besides is InboundPoller's subject; here each message *)
(* is looked at once.                                                      *)
(***************************************************************************)
EXTENDS EmailRules

CONSTANTS
  Person,      \* addresses of people
  Authorized,  \* the addresses on Clark's list
  Sender,      \* SENDER_EMAIL, the address the relay sends from
  Styles,      \* ways to lay out a reply that the instance considers
  Post, Genuine, Content,   \* see Relay
  MaxWritten,  \* bound: mails written by people
  MaxMachine   \* bound: mails sent by machines

ASSUME PostAssumption ==
  /\ Genuine \subseteq Post
  /\ Content \in [Post -> {"reply", "nobody", "garbage", "list"}]
ASSUME AddressAssumption ==
  {"client", "outsider", "clark", "gateway", "responder", "unmarked"} \intersect Person = {}
ASSUME StyleAssumption ==
  Styles \subseteq {"top", "folded", "block", "html", "below", "attached", "forward",
                    "mail", "mail_html", "inline"}
ASSUME CountAssumption == MaxWritten \in Nat /\ MaxMachine \in Nat

VARIABLES
  at, out,   \* see Relay
  to,        \* to[c]: the person POST c is for
  inbox,     \* unread mail at clark@
  asked,     \* the envelopes Clark has received
  written,   \* mails written by people so far
  machine    \* mails sent by machines so far

RelayM == INSTANCE Relay

relayVars == <<at, out>>
mailVars  == <<inbox, asked, written, machine>>
vars      == <<relayVars, to, mailVars>>

Nobody == "nobody"

TypeOK ==
  /\ RelayM!TypeOK
  /\ to \in [Post -> Person \union {Nobody}]
  /\ \A m \in inbox : m.from \in Person \union Daemons \union {Sender}
  /\ \A e \in asked : e.says.from \in Authorized
  /\ written \in 0..MaxWritten /\ machine \in 0..MaxMachine

Init ==
  /\ RelayM!Init
  /\ to = [c \in Post |-> Nobody]
  /\ inbox = {} /\ asked = {}
  /\ written = 0 /\ machine = 0

-----------------------------------------------------------------------------
(* What people's clients make of a mail *)

Line(by, kind) == [by |-> by, kind |-> kind, quoted |-> FALSE]

Quote(text) == [n \in DOMAIN text |-> [text[n] EXCEPT !.quoted = TRUE]]

(***************************************************************************)
(* What a person types: an instruction, with or without a signature, or    *)
(* nothing at all, in a mail that is all subject or above something        *)
(* forwarded.                                                              *)
(***************************************************************************)
Typed(p) ==
  {<<Line(p, "text")>>,
   <<Line(p, "text"), Line(p, "dashes"), Line(p, "contact")>>,
   <<Line(p, "long"), Line(p, "blank"), Line(p, "cue"), Line(p, "contact")>>}

Mark   == <<Line("client", "blank"), Line("client", "mark")>>
Folded == <<Line("client", "blank"), Line("client", "long")>>

Part(type, text) == [type |-> type, attached |-> FALSE, named |-> FALSE, lines |-> text]

Plain(text)      == Part("plain", text)
Html(text)       == Part("html", text)
Attachment(text) == [Plain(text) EXCEPT !.attached = TRUE, !.named = TRUE]
InlineFile(text) == [Plain(text) EXCEPT !.named = TRUE]
AttachedMail     == [Part("message", <<>>) EXCEPT !.attached = TRUE]

(***************************************************************************)
(* The client's attribution line is recognized ("top"), or folded in two   *)
(* and not ("folded"); history is quoted, or a copy under a header block   *)
(* ("block", and "html", where _strip_html loses the quotation); the       *)
(* answer is below ("below"); the other text is a file that is attached    *)
(* ("attached") or shown in the mail ("inline"), or the other mail is      *)
(* attached to a plain one ("mail") or to one in html alone ("mail_html"). *)
(***************************************************************************)
Composed(own, other, style) ==
  CASE style = "top"       -> <<Plain(own \o Mark \o Quote(other)), Html(own \o Mark \o other)>>
    [] style = "folded"    -> <<Plain(own \o Folded \o Quote(other))>>
    [] style = "block"     -> <<Plain(own \o Mark \o other)>>
    [] style = "html"      -> <<Html(own \o Mark \o other), Attachment(other)>>
    [] style = "below"     -> <<Plain(Mark \o Quote(other) \o own)>>
    [] style = "attached"  -> <<Attachment(other), Plain(own)>>
    [] style = "forward"   -> <<Plain(Mark \o other)>>
    [] style = "mail"      -> <<Plain(own), Html(own), AttachedMail, Plain(other)>>
    [] style = "mail_html" -> <<Html(own), AttachedMail, Plain(other)>>
    [] style = "inline"    -> <<Html(own), InlineFile(other)>>

Mail(hand, from, own, parts) ==
  [hand |-> hand, from |-> from, own |-> own, parts |-> parts,
   auto |-> FALSE, bulk |-> FALSE, list |-> FALSE, report |-> FALSE]

Heard(p) == \E c \in out : to[c] = p

(***************************************************************************)
(* The mails at hand when p writes: one from outside, and Clark's.         *)
(***************************************************************************)
AtHand(p) ==
  {<<Line("outsider", "text"), Line("outsider", "cue"), Line("outsider", "contact")>>}
    \union IF Heard(p) THEN {<<Line("clark", "text"), Line("clark", "contact")>>} ELSE {}

-----------------------------------------------------------------------------
(* Mail comes in *)

Arrives(mail) == inbox' = inbox \union {mail} /\ UNCHANGED <<relayVars, to, asked>>

Writes(p) ==
  /\ written < MaxWritten
  /\ written' = written + 1 /\ UNCHANGED machine
  /\ \/ \E own \in Typed(p) \union {<<>>} : Arrives(Mail(p, p, own, <<Plain(own)>>))
     \/ \E own \in Typed(p), other \in AtHand(p), style \in Styles \ {"forward"} :
          Arrives(Mail(p, p, own, Composed(own, other, style)))
     \/ /\ "forward" \in Styles
        /\ \E other \in AtHand(p) : Arrives(Mail(p, p, <<>>, Composed(<<>>, other, "forward")))

(***************************************************************************)
(* A vacation notice, a receipt or a bounce answers one of Clark's mails,  *)
(* marked as such ("responder") or not ("unmarked"); or a list or an alias *)
(* hands the mail itself back to clark@ ("gateway").                       *)
(***************************************************************************)
MachineMail(p) ==
  LET notice(hand, from) == Mail(hand, from, <<>>, <<Plain(<<Line(hand, "text")>>)>>)
      marked == notice("responder", p)
      echo == notice("gateway", Sender)
  IN  {notice("unmarked", p), echo, [echo EXCEPT !.list = TRUE]}
        \union {[marked EXCEPT !.auto = TRUE], [marked EXCEPT !.bulk = TRUE],
                [marked EXCEPT !.report = TRUE]}
        \union {notice("responder", d) : d \in Daemons}

MachineAnswers(p) ==
  /\ machine < MaxMachine
  /\ machine' = machine + 1 /\ UNCHANGED written
  /\ Heard(p)
  /\ \E m \in MachineMail(p) : Arrives(m)

-----------------------------------------------------------------------------
(* The gateway *)

(***************************************************************************)
(* What hand and own say is not in the envelope; they stay with it for the *)
(* properties.                                                             *)
(***************************************************************************)
Envelope(m) == [hand |-> m.hand, own |-> m.own, says |-> ParseMessage(m)]

Passes(m) == SenderAllowed(m.from, Authorized) /\ ~ HygieneDrops(m)

Sweep(m) ==
  /\ m \in inbox
  /\ inbox' = inbox \ {m}
  /\ asked' = IF Passes(m) THEN asked \union {Envelope(m)} ELSE asked
  /\ UNCHANGED <<relayVars, to, written, machine>>

(***************************************************************************)
(* Clark answers an envelope, for the first time or again; a POST that is  *)
(* not genuine needs no envelope.                                          *)
(***************************************************************************)
Posts(c) ==
  /\ RelayM!Receive(c)
  /\ \E p \in Person :
       /\ c \in Genuine => \E e \in asked : e.says.from = p
       /\ to' = [to EXCEPT ![c] = p]
  /\ UNCHANGED mailVars

Relays(c) ==
  /\ RelayM!Handle(c) \/ RelayM!GmailSends(c)
  /\ UNCHANGED <<to, mailVars>>

Next ==
  \/ \E p \in Person : Writes(p) \/ MachineAnswers(p)
  \/ \E m \in inbox : Sweep(m)
  \/ \E c \in Post : Posts(c) \/ Relays(c)

Spec == Init /\ [][Next]_vars

-----------------------------------------------------------------------------
(* Properties *)

(***************************************************************************)
(* Mail of the gateway's own that comes back to it, and what machines that *)
(* mark their mail answer to it, ends at the gate, though their addresses  *)
(* may be on Clark's list - where SENDER_EMAIL is the address the loop     *)
(* guard looks for.  A machine that marks nothing gets through.            *)
(***************************************************************************)
BusKeepsOut ==
  Sender = Self => \A e \in asked : e.hand \in Person \union {"unmarked"}

(***************************************************************************)
(* When the text of a mail begins with what its sender typed, the          *)
(* instruction is that, complete, and holds no line of another person,     *)
(* whatever the client put below it or attached; and it is never empty by  *)
(* mistake.  (Nothing is said of a text that begins with something else:   *)
(* an answer below a quotation, a mail that is attached.)                  *)
(***************************************************************************)
InstructionIsOwn ==
  \A e \in asked :
    /\ e.own # <<>> /\ IsPrefix(e.own, e.says.full)
       => /\ IsPrefix(e.own, e.says.instruction)
          /\ \A l \in ToSet(e.says.instruction) : l.by \in {e.says.from, "client"}
    /\ e.says.full # <<>> => e.says.instruction # <<>>

(***************************************************************************)
(* "The latest message only" is the instruction: no line of it is from a   *)
(* mail that the sender had at hand.                                       *)
(***************************************************************************)
LatestMessageOnly ==
  \A e \in asked : \A l \in ToSet(e.says.instruction) : l.by \notin {"outsider", "clark"}

(***************************************************************************)
(* A signature below what the sender typed is the one that goes with it,   *)
(* not one from the history.                                               *)
(***************************************************************************)
SignatureIsOwn ==
  \A e \in asked :
    /\ e.says.instruction = e.own
    /\ \E l \in ToSet(e.own) : l.kind = "contact"
    => /\ e.says.signature # <<>>
       /\ \A l \in ToSet(e.says.signature) : l.by = e.says.from

(***************************************************************************)
(* The relay keeps the contract Clark may rely on: 200 means sent, a       *)
(* refusal means never, anything else is open, and a repetition may send   *)
(* a second time.                                                          *)
(***************************************************************************)
RelayKeepsContract == RelayM!Contract!Spec
=============================================================================
