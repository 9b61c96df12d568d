---------------------------- MODULE InboundPoller ----------------------------
(***************************************************************************)
(* The inbound command bus: overlapping sweeps (poller.py) over the shared *)
(* mailboxes, each a sequence of calls to Gmail, to the claim and row      *)
(* store (DynamoDB, or SQLite outside Lambda) and to Clark.                *)
(*                                                                         *)
(* One action per call: between two calls of a sweep another sweep, the    *)
(* death of the container, the arrival of mail or the passing of time may  *)
(* come.  A Container runs one sweep at a time and keeps the allow-list    *)
(* cache of clark_client.py between sweeps.                                *)
(***************************************************************************)
EXTENDS Naturals, Sequences, FiniteSets

CONSTANTS
  Container,    \* execution environments that run sweeps
  Mailboxes,    \* the configured mailboxes, in configuration order
  Copy,         \* Gmail messages: one delivery into one mailbox each
  MessageId,    \* RFC822 Message-IDs
  NoMessageId,  \* stands for a missing Message-ID header
  Url,          \* allow-list endpoints of Clark
  ListOf,       \* ListOf[b]: the endpoint of mailbox b
  Sender,       \* the senders whose authorization matters
  Steady,       \* Steady[u]: the senders u never stops authorizing
  Mail,         \* Mail[c]: what copy c holds
  GatewayId,    \* uuids, enough of them
  None,
  MaxResults,   \* listed per call (25 in the code)
  SqliteRows,   \* TRUE: the SQLite store; FALSE: DynamoDB
  Faults,       \* the kinds of failure that may happen
  MaxFaults     \* how many of them

Mailbox == {Mailboxes[i] : i \in 1..Len(Mailboxes)}

FaultKinds == {"senders", "list", "fetch", "claim_lost", "raise", "post",
               "lost_reply", "crash", "ttl", "repeat_release"}

ASSUME MailboxesAssumption == Mailboxes \in Seq(Mailbox)
ASSUME ListAssumption ==
  /\ ListOf \in [Mailbox -> Url]
  /\ Steady \in [Url -> SUBSET Sender]
ASSUME MailAssumption ==
  Mail \in [Copy -> [mailbox : Mailbox, date : Nat, from : Sender,
                     rfc822 : MessageId \union {NoMessageId},
                     hygiene : {"pass", "drop", "raise"}]]
ASSUME KeyAssumption == Copy \intersect MessageId = {}
ASSUME NoneAssumption == None \notin Copy \union GatewayId
ASSUME BoundAssumption == /\ MaxResults \in Nat \ {0}
                          /\ MaxFaults \in Nat
                          /\ SqliteRows \in BOOLEAN
                          /\ Faults \subseteq FaultKinds

Key == Copy \union MessageId

(***************************************************************************)
(* rfc822_id or f"gmail:{mailbox}:{msg_id}"                                *)
(***************************************************************************)
DedupKey(c) == IF Mail[c].rfc822 = NoMessageId THEN c ELSE Mail[c].rfc822

VARIABLES
  gmail,       \* gmail[c]: "absent", "unread" or "read"
  claims,      \* claims[k]: "none", "claimed", or the verdict it ended with
  status,      \* status[g]: the status column of row g, "none" without a row
  origin,      \* origin[g]: the copy that envelope g was built from
  clark,       \* clark[g]: "none"; "lost", accepted but the gateway never saw
               \* the answer; "acked", accepted and answered 2xx
  authorized,  \* authorized[u]: the list Clark would serve at u now
  pc,          \* pc[s]: the next call of the sweep of container s
  box,         \* box[s]: how many mailboxes the sweep has begun
  todo,        \* todo[s]: listed copies it has not looked at
  cur,         \* cur[s]: the copy it has claimed
  gid,         \* gid[s]: the gateway_message_id of its envelope
  verdict,     \* verdict[s]: the status it is about to write
  cache,       \* cache[s]: the cached allow-list
  age,         \* age[s]: "never" fetched, "fresh" or "stale"
  faults       \* failures so far

callVars  == <<pc, cur, gid, verdict>>
sweepVars == <<callVars, box, todo>>
cacheVars == <<cache, age>>
storeVars == <<claims, status, origin>>
worldVars == <<gmail, clark, authorized>>
vars == <<sweepVars, cacheVars, storeVars, worldVars, faults>>

Tombstone == {"acked", "ignored", "dropped"}
Handling  == {"gate", "settle", "record", "post", "confirm", "update", "mark",
              "release", "note"}
Labels    == {"idle", "mailbox", "list", "message"} \union Handling

TypeOK ==
  /\ gmail \in [Copy -> {"absent", "unread", "read"}]
  /\ claims \in [Key -> {"none", "claimed"} \union Tombstone]
  /\ status \in [GatewayId -> {"none", "routed", "acked", "rejected", "send_error"}]
  /\ origin \in [GatewayId -> Copy \union {None}]
  /\ clark \in [GatewayId -> {"none", "lost", "acked"}]
  /\ authorized \in [Url -> SUBSET Sender]
  /\ pc \in [Container -> Labels]
  /\ box \in [Container -> 0..Len(Mailboxes)]
  /\ todo \in [Container -> SUBSET Copy]
  /\ cur \in [Container -> Copy \union {None}]
  /\ gid \in [Container -> GatewayId \union {None}]
  /\ verdict \in [Container -> {None, "ignored", "dropped", "rejected", "send_error"}]
  /\ cache \in [Container -> SUBSET Sender]
  /\ age \in [Container -> {"never", "fresh", "stale"}]
  /\ faults \in 0..MaxFaults

Init ==
  /\ gmail = [c \in Copy |-> "absent"]
  /\ claims = [k \in Key |-> "none"]
  /\ status = [g \in GatewayId |-> "none"]
  /\ origin = [g \in GatewayId |-> None]
  /\ clark = [g \in GatewayId |-> "none"]
  /\ authorized = Steady
  /\ pc = [s \in Container |-> "idle"]
  /\ box = [s \in Container |-> 0]
  /\ todo = [s \in Container |-> {}]
  /\ cur = [s \in Container |-> None]
  /\ gid = [s \in Container |-> None]
  /\ verdict = [s \in Container |-> None]
  /\ cache = [s \in Container |-> {}]
  /\ age = [s \in Container |-> "never"]
  /\ faults = 0

-----------------------------------------------------------------------------
(* Control of one sweep *)

Fault(f) ==
  /\ f \in Faults
  /\ faults < MaxFaults
  /\ faults' = faults + 1

Goto(s, label) == pc' = [pc EXCEPT ![s] = label]

(***************************************************************************)
(* Inside _process_message: go on to the call at label.                    *)
(***************************************************************************)
Enter(s, label, c, g, v) ==
  /\ Goto(s, label)
  /\ cur' = [cur EXCEPT ![s] = c]
  /\ gid' = [gid EXCEPT ![s] = g]
  /\ verdict' = [verdict EXCEPT ![s] = v]

(***************************************************************************)
(* _process_message returns, or raises into the handler of poll_once: the  *)
(* loop over msg_ids goes on in both cases.                                *)
(***************************************************************************)
Return(s) == Enter(s, "message", None, None, None)

(***************************************************************************)
(* A call took effect.  Its answer arrives, or the client library raises   *)
(* all the same (a timeout on the way back).                               *)
(***************************************************************************)
Proceed(s, label, g, v) ==
  \/ /\ Enter(s, label, cur[s], g, v)
     /\ UNCHANGED faults
  \/ /\ Fault("raise")
     /\ Return(s)

Finish(s) ==
  /\ Return(s)
  /\ \/ UNCHANGED faults
     \/ Fault("raise")

-----------------------------------------------------------------------------
(* state_store.py / inbound_store.py *)

\* Slips: dedup by the rows alone, as before there were claims; a claimed key
\* taken over because it looks stuck; a release that marks, not deletes.
NoRowYet(k) == \A g \in GatewayId : origin[g] # None => DedupKey(origin[g]) # k
NotFinal(k) == claims[k] \notin Tombstone
MarkReleased(k) == claims' = [claims EXCEPT ![k] = "released"]

Claimable(k) == claims[k] = "none"

ClaimMessage(k) == claims' = [claims EXCEPT ![k] = "claimed"]

ConfirmClaim(k, v) == claims' = [claims EXCEPT ![k] = v]

ReleaseClaim(k) == claims' = [claims EXCEPT ![k] = "none"]

\* Slip: the upsert made to cover both constraints.
NoConflict(c) == FALSE

(***************************************************************************)
(* SQLite's UNIQUE(rfc822_message_id) is not covered by the statement's    *)
(* ON CONFLICT(gateway_message_id): a second row with the same Message-ID, *)
(* the empty one included, raises IntegrityError.                          *)
(***************************************************************************)
RowConflict(c) ==
  /\ SqliteRows
  /\ \E g \in GatewayId : /\ origin[g] # None
                          /\ Mail[origin[g]].rfc822 = Mail[c].rfc822

Unused == {g \in GatewayId : origin[g] = None}

RecordRow(g, c) ==
  /\ status' = [status EXCEPT ![g] = "routed"]
  /\ origin' = [origin EXCEPT ![g] = c]

UpdateStatus(g, v) == status' = [status EXCEPT ![g] = v]

-----------------------------------------------------------------------------
(* gmail_client.py, gateway_gate.py, clark_client.py *)

Newer(c, d) == Mail[c].date > Mail[d].date

UnreadIn(b) == {c \in Copy : Mail[c].mailbox = b /\ gmail[c] = "unread"}

Listing(b) ==
  {c \in UnreadIn(b) : Cardinality({d \in UnreadIn(b) : Newer(d, c)}) < MaxResults}

MarkRead(c) == gmail' = [gmail EXCEPT ![c] = "read"]

SenderAllowed(s, c) == Mail[c].from \in cache[s]

\* Slip: a failed fetch empties the cache ("fail closed").
FetchOrForget(s, u) ==
  \/ /\ age[s] = "fresh"
     /\ UNCHANGED <<cacheVars, faults>>
  \/ /\ age[s] # "fresh"
     /\ cache' = [cache EXCEPT ![s] = authorized[u]]
     /\ age' = [age EXCEPT ![s] = "fresh"]
     /\ UNCHANGED faults
  \/ /\ age[s] # "fresh"
     /\ Fault("senders")
     /\ cache' = [cache EXCEPT ![s] = {}]
     /\ UNCHANGED age

(***************************************************************************)
(* The list within its TTL is used as it is; otherwise it is fetched, and  *)
(* a failed fetch leaves whatever was cached, an empty list included.  The *)
(* cache has no key: a list fetched for one endpoint serves them all.      *)
(***************************************************************************)
FetchAuthorizedSenders(s, u) ==
  \/ /\ age[s] = "fresh"
     /\ UNCHANGED <<cacheVars, faults>>
  \/ /\ age[s] # "fresh"
     /\ cache' = [cache EXCEPT ![s] = authorized[u]]
     /\ age' = [age EXCEPT ![s] = "fresh"]
     /\ UNCHANGED faults
  \/ /\ age[s] # "fresh"
     /\ Fault("senders")
     /\ UNCHANGED cacheVars

-----------------------------------------------------------------------------
(* poll_once *)

StartSweep(s) ==
  /\ pc[s] = "idle"
  /\ Goto(s, "mailbox")
  /\ UNCHANGED <<box, todo, cur, gid, verdict, cacheVars, storeVars, worldVars, faults>>

NextMailbox(s) ==
  /\ pc[s] = "mailbox"
  /\ box[s] < Len(Mailboxes)
  /\ box' = [box EXCEPT ![s] = @ + 1]
  /\ FetchAuthorizedSenders(s, ListOf[Mailboxes[box[s] + 1]])
  /\ Goto(s, "list")
  /\ UNCHANGED <<todo, cur, gid, verdict, storeVars, worldVars>>

EndSweep(s) ==
  /\ pc[s] = "mailbox"
  /\ box[s] = Len(Mailboxes)
  /\ box' = [box EXCEPT ![s] = 0]
  /\ Goto(s, "idle")
  /\ UNCHANGED <<todo, cur, gid, verdict, cacheVars, storeVars, worldVars, faults>>

ListUnread(s) ==
  /\ pc[s] = "list"
  /\ todo' = [todo EXCEPT ![s] = Listing(Mailboxes[box[s]])]
  /\ Goto(s, "message")
  /\ UNCHANGED <<box, cur, gid, verdict, cacheVars, storeVars, worldVars, faults>>

ListFails(s) ==
  /\ pc[s] = "list"
  /\ Fault("list")
  /\ Goto(s, "mailbox")
  /\ UNCHANGED <<box, todo, cur, gid, verdict, cacheVars, storeVars, worldVars>>

MailboxDone(s) ==
  /\ pc[s] = "message"
  /\ todo[s] = {}
  /\ Goto(s, "mailbox")
  /\ UNCHANGED <<box, todo, cur, gid, verdict, cacheVars, storeVars, worldVars, faults>>

-----------------------------------------------------------------------------
(* _process_message *)

(***************************************************************************)
(* The next listed copy, newest first: fetched, parsed, and not yet        *)
(* claimed.                                                                *)
(***************************************************************************)
TakeNext(s, c) ==
  /\ pc[s] = "message"
  /\ c \in todo[s]
  /\ \A d \in todo[s] : ~ Newer(d, c)
  /\ todo' = [todo EXCEPT ![s] = @ \ {c}]
  /\ UNCHANGED <<box, cacheVars, status, origin, worldVars>>

FetchFails(s, c) ==
  /\ TakeNext(s, c)
  /\ Fault("fetch")
  /\ UNCHANGED <<callVars, claims>>

Claim(s, c) ==
  /\ TakeNext(s, c)
  /\ Claimable(DedupKey(c))
  /\ ClaimMessage(DedupKey(c))
  /\ Enter(s, "gate", c, None, None)
  /\ UNCHANGED faults

SkipSeen(s, c) ==
  /\ TakeNext(s, c)
  /\ ~ Claimable(DedupKey(c))
  /\ UNCHANGED <<callVars, claims, faults>>

(***************************************************************************)
(* The put is written and its answer lost.  The SDK repeats it and gets    *)
(* ConditionalCheckFailed from its own claim, or gives up and raises: the  *)
(* sweep goes on to the next copy either way.                              *)
(***************************************************************************)
ClaimAnswerLost(s, c) ==
  /\ TakeNext(s, c)
  /\ ~ SqliteRows
  /\ Claimable(DedupKey(c))
  /\ ClaimMessage(DedupKey(c))
  /\ Fault("claim_lost")
  /\ UNCHANGED callVars

GateDiscards(s, v) ==
  /\ MarkRead(cur[s])
  /\ Proceed(s, "settle", None, v)
  /\ UNCHANGED <<box, todo, cacheVars, storeVars, clark, authorized>>

GateIgnores(s) ==
  /\ pc[s] = "gate"
  /\ ~ SenderAllowed(s, cur[s])
  /\ GateDiscards(s, "ignored")

GateDrops(s) ==
  /\ pc[s] = "gate"
  /\ SenderAllowed(s, cur[s])
  /\ Mail[cur[s]].hygiene = "drop"
  /\ GateDiscards(s, "dropped")

(***************************************************************************)
(* The gate or the attachment walk raises on what the copy holds (a From   *)
(* header with raw 8-bit bytes is not a str): every sweep, not by chance.  *)
(***************************************************************************)
GateRaises(s) ==
  /\ pc[s] = "gate"
  /\ SenderAllowed(s, cur[s])
  /\ Mail[cur[s]].hygiene = "raise"
  /\ Return(s)
  /\ UNCHANGED <<box, todo, cacheVars, storeVars, worldVars, faults>>

GatePasses(s) ==
  /\ pc[s] = "gate"
  /\ SenderAllowed(s, cur[s])
  /\ Mail[cur[s]].hygiene = "pass"
  /\ Goto(s, "record")
  /\ UNCHANGED <<box, todo, cur, gid, verdict, cacheVars, storeVars, worldVars, faults>>

Settle(s) ==
  /\ pc[s] = "settle"
  /\ ConfirmClaim(DedupKey(cur[s]), verdict[s])
  /\ Finish(s)
  /\ UNCHANGED <<box, todo, cacheVars, status, origin, worldVars>>

Record(s) ==
  /\ pc[s] = "record"
  /\ ~ RowConflict(cur[s])
  /\ Unused # {}
  /\ LET g == CHOOSE g \in Unused : TRUE   \* uuid4: any id never used before
     IN  /\ RecordRow(g, cur[s])
         /\ Proceed(s, "post", g, None)
  /\ UNCHANGED <<box, todo, cacheVars, claims, worldVars>>

RecordConflicts(s) ==
  /\ pc[s] = "record"
  /\ RowConflict(cur[s])
  /\ Return(s)
  /\ UNCHANGED <<box, todo, cacheVars, storeVars, worldVars, faults>>

PostAccepted(s) ==
  /\ pc[s] = "post"
  /\ clark' = [clark EXCEPT ![gid[s]] = "acked"]
  /\ Goto(s, "confirm")
  /\ UNCHANGED <<box, todo, cur, gid, verdict, cacheVars, storeVars, gmail,
                 authorized, faults>>

\* Slips: any answered status taken for success; the release forgotten.
AnyStatusIsSuccess(s, v) ==
  /\ pc[s] = "post"
  /\ Fault("post")
  /\ Goto(s, "confirm")
  /\ UNCHANGED <<box, todo, cur, gid, verdict, cacheVars, storeVars, worldVars>>

FailWithoutRelease(s, v) ==
  /\ pc[s] = "post"
  /\ Fault("post")
  /\ Enter(s, "note", cur[s], gid[s], v)
  /\ UNCHANGED <<box, todo, cacheVars, storeVars, worldVars>>

(***************************************************************************)
(* Every attempt of _request failed or was turned away (send_error), or    *)
(* Clark answered something other than 2xx (rejected).                     *)
(***************************************************************************)
PostFails(s, v) ==
  /\ pc[s] = "post"
  /\ Fault("post")
  /\ Enter(s, "release", cur[s], gid[s], v)
  /\ UNCHANGED <<box, todo, cacheVars, storeVars, worldVars>>

(***************************************************************************)
(* Clark accepted the envelope; the gateway saw an error instead.          *)
(***************************************************************************)
PostReplyLost(s, v) ==
  /\ pc[s] = "post"
  /\ Fault("lost_reply")
  /\ clark' = [clark EXCEPT ![gid[s]] = "lost"]
  /\ Enter(s, "release", cur[s], gid[s], v)
  /\ UNCHANGED <<box, todo, cacheVars, storeVars, gmail, authorized>>

\* Slip: the confirm moved into the try block of the POST.
ConfirmInTry(s) ==
  /\ pc[s] = "confirm"
  /\ UNCHANGED <<box, todo, cacheVars, status, origin, worldVars>>
  /\ \/ /\ ConfirmClaim(DedupKey(cur[s]), "acked")
        /\ Enter(s, "update", cur[s], gid[s], None)
        /\ UNCHANGED faults
     \/ /\ Fault("raise")
        /\ Enter(s, "release", cur[s], gid[s], "send_error")
        /\ UNCHANGED claims

Confirm(s) ==
  /\ pc[s] = "confirm"
  /\ ConfirmClaim(DedupKey(cur[s]), "acked")
  /\ Proceed(s, "update", gid[s], None)
  /\ UNCHANGED <<box, todo, cacheVars, status, origin, worldVars>>

UpdateAcked(s) ==
  /\ pc[s] = "update"
  /\ UpdateStatus(gid[s], "acked")
  /\ Proceed(s, "mark", gid[s], None)
  /\ UNCHANGED <<box, todo, cacheVars, claims, origin, worldVars>>

MarkAcked(s) ==
  /\ pc[s] = "mark"
  /\ MarkRead(cur[s])
  /\ Finish(s)
  /\ UNCHANGED <<box, todo, cacheVars, storeVars, clark, authorized>>

\* Slip: the copy marked read whatever became of the POST.
ReleaseAndMark(s) ==
  /\ pc[s] = "release"
  /\ ReleaseClaim(DedupKey(cur[s]))
  /\ MarkRead(cur[s])
  /\ Proceed(s, "note", gid[s], verdict[s])
  /\ UNCHANGED <<box, todo, cacheVars, status, origin, clark, authorized>>

Release(s) ==
  /\ pc[s] = "release"
  /\ ReleaseClaim(DedupKey(cur[s]))
  /\ Proceed(s, "note", gid[s], verdict[s])
  /\ UNCHANGED <<box, todo, cacheVars, status, origin, worldVars>>

(***************************************************************************)
(* The delete is done and its answer lost: the SDK will delete once more,  *)
(* without a condition.                                                    *)
(***************************************************************************)
ReleaseRepeats(s) ==
  /\ pc[s] = "release"
  /\ ~ SqliteRows
  /\ Fault("repeat_release")
  /\ ReleaseClaim(DedupKey(cur[s]))
  /\ UNCHANGED <<sweepVars, cacheVars, status, origin, worldVars>>

NoteFailure(s) ==
  /\ pc[s] = "note"
  /\ UpdateStatus(gid[s], verdict[s])
  /\ Finish(s)
  /\ UNCHANGED <<box, todo, cacheVars, claims, origin, worldVars>>

(***************************************************************************)
(* A call made on behalf of the claimed copy raises without effect.  The   *)
(* POST catches its own exceptions.                                        *)
(***************************************************************************)
Calling(s) ==
  \/ pc[s] \in Handling \ {"gate", "post"}
  \/ pc[s] = "gate" /\ (~ SenderAllowed(s, cur[s]) \/ Mail[cur[s]].hygiene = "drop")

\* Slip: the handler of poll_once releases the claim of the copy in hand.
RaiseReleases(s) ==
  /\ Calling(s)
  /\ Fault("raise")
  /\ ReleaseClaim(DedupKey(cur[s]))
  /\ Return(s)
  /\ UNCHANGED <<box, todo, cacheVars, status, origin, worldVars>>

CallRaises(s) ==
  /\ Calling(s)
  /\ Fault("raise")
  /\ Return(s)
  /\ UNCHANGED <<box, todo, cacheVars, storeVars, worldVars>>

-----------------------------------------------------------------------------
(* The life of a container *)

Reset(s) ==
  /\ Enter(s, "idle", None, None, None)
  /\ box' = [box EXCEPT ![s] = 0]
  /\ todo' = [todo EXCEPT ![s] = {}]
  /\ cache' = [cache EXCEPT ![s] = {}]
  /\ age' = [age EXCEPT ![s] = "never"]
  /\ UNCHANGED <<storeVars, worldVars>>

(***************************************************************************)
(* The sweep is cut short: the 55 s timeout of the function, a deployment, *)
(* the end of the process.                                                 *)
(***************************************************************************)
Crash(s) ==
  /\ pc[s] # "idle"
  /\ Fault("crash")
  /\ Reset(s)

Recycle(s) ==
  /\ pc[s] = "idle"
  /\ age[s] # "never"
  /\ Reset(s)
  /\ UNCHANGED faults

CacheExpires(s) ==
  /\ age[s] = "fresh"
  /\ age' = [age EXCEPT ![s] = "stale"]
  /\ UNCHANGED <<sweepVars, cache, storeVars, worldVars, faults>>

(***************************************************************************)
(* The verify_sender tool: the allow-list through the same cache, for the  *)
(* endpoint of the first mailbox that has one.                             *)
(***************************************************************************)
VerifySender(s) ==
  /\ pc[s] = "idle"
  /\ Mailboxes # <<>>
  /\ FetchAuthorizedSenders(s, ListOf[Mailboxes[1]])
  /\ UNCHANGED <<sweepVars, storeVars, worldVars>>

-----------------------------------------------------------------------------
(* The world around *)

Deliver(c) ==
  /\ gmail[c] = "absent"
  /\ gmail' = [gmail EXCEPT ![c] = "unread"]
  /\ UNCHANGED <<sweepVars, cacheVars, storeVars, clark, authorized, faults>>

Authorize(u) ==
  \E p \in Sender \ Steady[u] :
    /\ authorized' = [authorized EXCEPT ![u] = IF p \in @ THEN @ \ {p} ELSE @ \union {p}]
    /\ UNCHANGED <<sweepVars, cacheVars, storeVars, gmail, clark, faults>>

(***************************************************************************)
(* DynamoDB drops a claim 90 days after it was put: the sweep that put it  *)
(* is long gone.                                                           *)
(***************************************************************************)
TtlExpires(k) ==
  /\ ~ SqliteRows
  /\ Fault("ttl")
  /\ claims[k] # "none"
  /\ \A s \in Container : cur[s] # None => DedupKey(cur[s]) # k
  /\ ReleaseClaim(k)
  /\ UNCHANGED <<sweepVars, cacheVars, status, origin, worldVars>>

-----------------------------------------------------------------------------
Message(s, c) ==
  \/ FetchFails(s, c)
  \/ Claim(s, c)
  \/ SkipSeen(s, c)
  \/ ClaimAnswerLost(s, c)

Posting(s) ==
  \/ PostAccepted(s)
  \/ \E v \in {"rejected", "send_error"} : PostFails(s, v) \/ PostReplyLost(s, v)

Sweep(s) ==
  \/ NextMailbox(s) \/ EndSweep(s) \/ ListUnread(s) \/ ListFails(s) \/ MailboxDone(s)
  \/ \E c \in Copy : Message(s, c)
  \/ GateIgnores(s) \/ GateDrops(s) \/ GateRaises(s) \/ GatePasses(s) \/ Settle(s)
  \/ Record(s) \/ RecordConflicts(s) \/ Posting(s)
  \/ Confirm(s) \/ UpdateAcked(s) \/ MarkAcked(s)
  \/ Release(s) \/ ReleaseRepeats(s) \/ NoteFailure(s)
  \/ CallRaises(s)

Life(s) == StartSweep(s) \/ Crash(s) \/ Recycle(s) \/ CacheExpires(s) \/ VerifySender(s)

World ==
  \/ \E c \in Copy : Deliver(c)
  \/ \E u \in Url : Authorize(u)
  \/ \E k \in Key : TtlExpires(k)

Next == (\E s \in Container : Sweep(s) \/ Life(s)) \/ World

Spec == Init /\ [][Next]_vars

(***************************************************************************)
(* EventBridge (or _poll_loop) keeps starting sweeps, one somewhere; a     *)
(* sweep that was started takes its next step or is killed.  Nothing is    *)
(* promised about which call fails or when mail arrives.                   *)
(***************************************************************************)
Fairness ==
  /\ WF_vars(\E s \in Container : StartSweep(s))
  /\ \A s \in Container : WF_vars(Sweep(s))

FairSpec == Spec /\ Fairness

-----------------------------------------------------------------------------
(* Properties: safety *)

Holding == {"gate", "settle", "record", "post", "confirm", "release"}

(***************************************************************************)
(* Container s acts on the strength of the claim on k.                     *)
(***************************************************************************)
Holds(s, k) == pc[s] \in Holding /\ DedupKey(cur[s]) = k

KeyOf(g) == DedupKey(origin[g])

Forwards(k) == {g \in GatewayId : clark[g] # "none" /\ KeyOf(g) = k}

(***************************************************************************)
(* At any moment at most one sweep acts on a dedup key, and the claim      *)
(* stands while it does: claim_message lets exactly one sweep win, and     *)
(* neither release_claim nor expiry takes the claim from under a sweep.    *)
(***************************************************************************)
ClaimExclusive ==
  \A k \in Key :
    /\ \A s, t \in Container : Holds(s, k) /\ Holds(t, k) => s = t
    /\ \A s \in Container : Holds(s, k) => claims[k] = "claimed"

(***************************************************************************)
(* A message reaches Clark in at most one envelope, whatever overlaps,     *)
(* fails or dies in _process_message ("never double-forwarded").           *)
(***************************************************************************)
NeverDoubleForwarded ==
  \A g, h \in GatewayId :
    clark[g] # "none" /\ clark[h] # "none" /\ KeyOf(g) = KeyOf(h) => g = h

(***************************************************************************)
(* Whatever fails, a message reaches Clark at most once more than          *)
(* something failed: each envelope beyond the first took a lost answer, a  *)
(* repeated delete or an expiry of its own.                                *)
(***************************************************************************)
RepeatsBounded == \A k \in Key : Cardinality(Forwards(k)) <= 1 + faults

(***************************************************************************)
(* Once a 2xx for a message was seen, no sweep forwards that message       *)
(* again, not even when the confirm that should follow fails and not even  *)
(* when answers to other posts were lost.                                  *)
(***************************************************************************)
NoForwardAfterAck ==
  [][\A g \in GatewayId :
        clark[g] = "none" /\ clark'[g] # "none"
          => \A h \in GatewayId : clark[h] = "acked" => KeyOf(h) # KeyOf(g)]_vars

(***************************************************************************)
(* What the store tells an operator is so: a claim that ended "acked" and  *)
(* a row that says acked both stand for an envelope Clark answered 2xx,    *)
(* and a rejected or failed row never does.                                *)
(***************************************************************************)
BooksTellTruth ==
  /\ \A k \in Key :
       claims[k] = "acked" => \E g \in Forwards(k) : clark[g] = "acked"
  /\ \A g \in GatewayId :
       /\ status[g] = "acked" => clark[g] = "acked" /\ claims[KeyOf(g)] = "acked"
       /\ status[g] \in {"rejected", "send_error"} => clark[g] # "acked"

(***************************************************************************)
(* A confirmed claim is a tombstone: no sweep claims, releases or          *)
(* rewrites it (confirm_claim: "stays until TTL expiry").                  *)
(***************************************************************************)
TombstonesStay ==
  [][\A k \in Key : claims[k] \in Tombstone => claims'[k] = claims[k]]_vars

(***************************************************************************)
(* The gateway never puts away unanswered a message that Clark should      *)
(* have had: clean mail of a sender its endpoint always authorizes is      *)
(* marked read only if the message reached Clark, or by a container that   *)
(* has yet to see an allow-list.                                           *)
(***************************************************************************)
Wanted(c) == /\ Mail[c].from \in Steady[ListOf[Mail[c].mailbox]]
             /\ Mail[c].hygiene = "pass"

NoSilentLoss ==
  [][\A c \in Copy :
        Wanted(c) /\ gmail[c] = "unread" /\ gmail'[c] = "read"
          => \/ Forwards(DedupKey(c)) # {}
             \/ \E s \in Container : cur[s] = c /\ age[s] = "never"]_vars

(***************************************************************************)
(* A claim that is neither free nor final belongs to a sweep in flight     *)
(* (claim_message: "already claimed (in-flight or processed)").            *)
(***************************************************************************)
ClaimedMeansInFlight ==
  \A k \in Key : claims[k] = "claimed" => \E s \in Container : Holds(s, k)

(***************************************************************************)
(* The claims as the sweeps use them keep the dedup contract.              *)
(***************************************************************************)
Contract == INSTANCE DedupContract WITH
  Worker <- Container,
  Envelope <- GatewayId,
  state <- [k \in Key |-> CASE claims[k] = "none" -> "free"
                            [] claims[k] = "claimed" -> "claimed"
                            [] OTHER -> "done"],
  owners <- [k \in Key |-> {s \in Container : Holds(s, k)}],
  forwarded <- [k \in Key |-> Forwards(k)]

KeepsContract == Contract!Spec

-----------------------------------------------------------------------------
(* Properties: liveness *)

Settled(c) ==
  \/ claims[DedupKey(c)] \in Tombstone
  \/ \E g \in Forwards(DedupKey(c)) : clark[g] = "acked"

(***************************************************************************)
(* Every message that arrives is settled in the end, by a forward that     *)
(* Clark answered or by a verdict of a gate ("otherwise it is left unread  *)
(* for retry").                                                            *)
(***************************************************************************)
EveryMailSettled == \A c \in Copy : gmail[c] = "unread" ~> Settled(c)

=============================================================================
