------------------------------ MODULE EmailRules ------------------------------
(***************************************************************************)
(* What email_parse.py and gateway_gate.py make of a message, as functions *)
(* of it.  A line is a record: who wrote it, what it looks like to the     *)
(* patterns, and whether a '>' stands before it.                           *)
(*   "text"     a short line no pattern is interested in                   *)
(*   "long"     one of more than 60 characters                             *)
(*   "blank"                                                               *)
(*   "mark"     one of _REPLY_SEPARATORS: "On ... wrote:", "From: ...",    *)
(*              a rule, "Sent from my ..."                                 *)
(*   "dashes"   the delimiter of RFC 3676                                  *)
(*   "cue"      a title or company, as in the last lines of a mail         *)
(*   "contact"  a telephone number or an address                           *)
(* A message is its headers and its leaf parts in the order of msg.walk(); *)
(* a part has a content type, may have the disposition "attachment" and a  *)
(* file name, and is made of lines (those of an html part are what         *)
(* _strip_html leaves: quotations lose their sign).  walk() descends into  *)
(* a mail that is attached: a part of type "message", which has no payload *)
(* of its own, is followed by the parts of that mail, which have neither   *)
(* disposition nor file name.                                              *)
(***************************************************************************)
EXTENDS Integers, Sequences, SequencesExt, FiniteSets

CONSTANTS
  Self,     \* SENDER_SELF, the address the loop guard looks for
  Daemons   \* mailer-daemon and postmaster

-----------------------------------------------------------------------------
(* gateway_gate.py *)

\* Slip: anyone, once there is a list at all.
SenderAdmitted(from, allowed) == allowed # {}

SenderAllowed(from, allowed) == from \in allowed

SelfLoop(h)  == h.from = Self
Automatic(h) == h.auto \/ h.bulk
ListMail(h)  == h.list
Bounce(h)    == h.from \in Daemons \/ h.report

\* Slip: without the loop guard.
HygieneNoGuard(h) == Automatic(h) \/ ListMail(h) \/ Bounce(h)

(***************************************************************************)
(* hygiene_drop_reason; which of several reasons is named matters to the   *)
(* log only.                                                               *)
(***************************************************************************)
HygieneDrops(h) == SelfLoop(h) \/ Automatic(h) \/ ListMail(h) \/ Bounce(h)

-----------------------------------------------------------------------------
(* The text of a message *)

(***************************************************************************)
(* A message that is not multipart is its text.  Otherwise the first plain *)
(* part that is not an attachment itself, or the first html part, which    *)
(* may be one.                                                             *)
(***************************************************************************)
TextOf(parts) ==
  LET plain == SelectInSeq(parts, LAMBDA p : p.type = "plain" /\ ~ p.attached)
      html  == SelectInSeq(parts, LAMBDA p : p.type = "html")
  IN  CASE Len(parts) = 1 -> parts[1].lines
        [] Len(parts) > 1 /\ plain # 0 -> parts[plain].lines
        [] Len(parts) > 1 /\ plain = 0 /\ html # 0 -> parts[html].lines
        [] OTHER -> <<>>

(***************************************************************************)
(* extract_attachments, of which the envelope carries the description.     *)
(***************************************************************************)
Attachments(parts) ==
  {n \in DOMAIN parts : (parts[n].attached \/ parts[n].named) /\ parts[n].lines # <<>>}

Blank(l) == l.kind = "blank" /\ ~ l.quoted
Solid(l) == ~ Blank(l)

\* str.strip(), of whole lines
Trim(text) ==
  LET first == SelectInSeq(text, Solid)
  IN  IF first = 0 THEN <<>> ELSE SubSeq(text, first, SelectLastInSeq(text, Solid))

History(l) == l.quoted \/ l.kind = "mark"

Newest(text) ==
  LET cut == SelectInSeq(text, History)
  IN  IF cut = 0 THEN text ELSE SubSeq(text, 1, cut - 1)

\* Slip: only lines with a sign are left out, and those after them kept.
StripQuotes(text) == Trim(SelectSeq(text, LAMBDA l : ~ History(l)))

(***************************************************************************)
(* strip_quoted_history: up to the first line of history, or everything    *)
(* when nothing comes before it.                                           *)
(***************************************************************************)
StripQuotedHistory(text) ==
  LET latest == Trim(Newest(text))
  IN  IF latest # <<>> THEN latest ELSE Trim(text)

-----------------------------------------------------------------------------
(* The signature *)

Dashes(l)  == l.kind = "dashes" /\ ~ l.quoted
Ends(l)    == Blank(l) \/ l.kind = "long"
HasCue(l)  == l.kind \in {"cue", "contact"}

\* The lines after the last blank or long one.
TrailingBlock(text) ==
  LET body == Trim(text)
  IN  SubSeq(body, SelectLastInSeq(body, Ends) + 1, Len(body))

LooksLikeSignature(block) ==
  /\ Len(block) <= 8
  /\ \/ Cardinality({n \in DOMAIN block : HasCue(block[n])}) >= 2
     \/ \E n \in DOMAIN block : block[n].kind = "contact"

ExtractSignatureBlock(text) ==
  LET delimiter == SelectInSeq(text, Dashes)
      block == TrailingBlock(text)
  IN  CASE delimiter # 0 -> Trim(SubSeq(text, delimiter + 1, Len(text)))
        [] delimiter = 0 /\ LooksLikeSignature(block) -> block
        [] OTHER -> <<>>

\* Slip: the signature is looked for in the whole text first.
SignatureOfAll(full, latest) ==
  LET whole == ExtractSignatureBlock(full)
  IN  IF whole # <<>> THEN whole ELSE ExtractSignatureBlock(latest)

SignatureOf(full, latest) ==
  LET own == ExtractSignatureBlock(latest)
  IN  IF own # <<>> THEN own ELSE ExtractSignatureBlock(full)

-----------------------------------------------------------------------------
(* parse_message, and what of it goes into the envelope *)
ParseMessage(m) ==
  LET full   == Trim(TextOf(m.parts))
      latest == StripQuotedHistory(full)
  IN  [from |-> m.from, full |-> full, instruction |-> latest,
       signature |-> SignatureOf(full, latest),
       attachments |-> Attachments(m.parts)]
=============================================================================
