# Verification of the Clark email gateway

TLA+ modules, TLC configurations and TLAPS proofs for the `email_tool` service:
a gateway between Gmail mailboxes, a remote application called Clark, and users
who send email through MCP tools. Line numbers refer to the repository's files
under `src/`.

1. [Inventory](#1-inventory) - 2. [Plan](#2-plan) - 3. [The modules](#3-the-modules) -
4. [The runs](#4-the-runs) - 5. [The proofs](#5-the-proofs) -
6. [Where code and documentation part](#6-where-code-and-documentation-part) -
7. [What is not modelled](#7-what-is-not-modelled)

## 1. Inventory

### The parts, their state, and how they interact

| Component | Source | State it keeps | Operations |
|---|---|---|---|
| Inbound poller | `poller.py`, `lambda_poll.py` | progress of one sweep; `LAST_SUCCESSFUL_POLL`, with a copy in the store | `poll_once`, `_process_message` |
| Claim and row store | `state_store.py` (DynamoDB), `inbound_store.py` (SQLite, or a shim over DynamoDB) | claims by dedup key, rows by `gateway_message_id`, daily counters, `META` | `claim_message`, `confirm_claim`, `release_claim`, `record`, `update_status`, `increment/decrement_daily_count` |
| Allow-list cache | `clark_client.py` | `_senders_cache`, `_senders_cache_ts` (one pair per process, 300 s) | `fetch_authorized_senders` |
| Clark client | `clark_client.py` | none | `_request` (signed, retried), `post_signed` |
| Gates | `gateway_gate.py` | none | sender test, hygiene rules |
| Gmail client | `gmail_client.py` | the UNREAD label (kept by Gmail) | list, fetch, `mark_read`, `send_email`, `send_threaded` |
| send_email tool and daily limit | `server.py`, `access_control.py` | one counter per user and day | `get_user`, `check/consume_daily_limit`, `refund_send` |
| OAuth middleware | `oauth.py` | token cache (256 entries) | introspection, identity of the caller |
| Connector tools | `server.py` | none | signed proxies to Clark |
| `/send` relay | `server.py` | none | `send_relay`, `send_approval_notification` over `send_threaded` |
| Application | `server.py`, `lambda_web.py` | the event loop and the poll task | `build_app`: `lifespan`, `_poll_loop`, `/health`; `poll_inbox`, `verify_sender` |
| Email parsing | `email_parse.py` | none | `parse_message`, `strip_quoted_history`, `extract_signature_block`, `extract_attachments` |
| Configuration, audit, diagnostics, self tests, infrastructure | `bootstrap.py`, `audit_log.py`, `diagnostics.py`, `selftest_*.py`, `infra/` | read once, or none | |

A sweep (EventBridge every minute on Lambda, `_poll_loop` in the local server,
or the `poll_inbox` tool) takes the mailboxes one after the other: the
allow-list of the mailbox's endpoint, the 25 newest unread messages, and for
each message fetch, claim, gates, row, POST to Clark, and then *confirm the
claim, update the row, mark the message read*, or *release the claim and note
the failure*. Sweeps share Gmail, the store and Clark, and nothing else;
two of them may run at once, and a function timeout may cut one at any call.

In the local server one process does everything: an event loop serves requests, and a
background task runs one sweep after the other in a thread. `poll_inbox` runs a sweep on
the loop itself. The two sides share the allow-list cache and the marker, without a
lock; a tool that waits for Clark keeps the loop from everyone else. On Lambda
the web function has no such task.

Clark answers what it received by POSTing a reply to `/send`, which the relay mails. People
answer that reply, and so do vacation responders, mail servers and lists: the command bus
is a circle, and the gates are where it must not close on itself.

The `send_email` tool is independent of the sweeps. Its calls share one counter
per user and day, in DynamoDB on Lambda and in a dict elsewhere.

### What is hard, and what correct means

* **Poller.** Overlapping sweeps; a sweep that dies or raises between two calls;
  calls that take effect and are not answered (to Clark, to DynamoDB); copies of
  one message in two mailboxes; a bounded listing. Correct: one sweep holds a
  message at a time; an acknowledged message is never forwarded again; the rows and
  claims say what happened; a message that should reach Clark is not put away
  silently; every message is settled in the end.
* **Allow-list.** A stale or empty list decides that mail is marked read. Correct:
  mail of a sender who is authorized throughout is not ignored.
* **Daily limit.** Concurrent calls between check and count; midnight between
  charge and refund; an email that fails after it was counted; an ADD, of either sign,
  that the SDK repeats. Correct: no user sends more than the limit a day but by units
  that a failure gave back wrongly, and but for those the counter covers what was granted.
* **Requests to Clark.** An attempt that timed out may be served all the same, later
  than the one that replaced it; a retry is not known as one. Correct: only what may
  have failed for a passing reason is repeated; a tool reports as done only what Clark
  has done; a declined call never reaches Clark; every call ends.
* **OAuth.** Revocation against a cache; eviction at the bound. Correct: a revoked
  token is refused one cache lifetime later at the latest; the cache keeps its bound; a tool
  acts for the caller of its own request.
* **Local server.** Two threads on the list cache and the marker; a task that must
  outlive every sweep that fails; handlers that hold the loop; restarts. Correct: a list
  served within its lifetime is at most that and one slow call old; the marker is the end of
  a recent sweep; what is switched off is not polled; polling never ends, as long as the
  interval can be read and the log be written; every request is answered.
* **Relay.** No idempotency key; Gmail may have sent what the relay reports as failed.
  Correct: 200 means sent, a refusal means never.
* **Command bus.** Mail the gateway itself caused; every mail client's own idea of a
  reply. Correct: what machines mark as theirs, and the gateway's own mail, does not
  instruct Clark; an instruction typed first is the sender's own, complete, and so is the
  signature under it.

The list with a line for each hazard and the properties aimed at it is `hazards`
in `PROJECT.json`.

## 2. Plan

| Step | Module | Subject | State |
|---|---|---|---|
| 1 | `DedupContract` | what claims promise a poller | done |
| 2 | `InboundPoller` (implements 1) | sweeps, store, allow-list cache | done |
| 3 | `SendEmail` | the tool and its counters | done |
| 4 | `InboundPollerProofs` | types, exclusive claims, acknowledged once, forwarded once, tombstones | done |
| 5 | `OAuthCache`, `OAuthCacheProofs` | token cache, middleware, identity | done |
| 6 | `RequestContract`, `SignedRequest` (implements it), `SignedRequestProofs` | the connector tools and the attempts of `_request` under them | done |
| 7 | `SendersCache`, `LocalServer` (composes it) | the list cache with two threads, the event loop, the poll task, the marker, `inbound.enabled` | done |
| 8 | `LocalServerProofs` | types, lag of the list, the marker, switched off means idle | done |
| 9 | `EmailRules`, `Relay` (implements `RequestContract`), `CommandBus` (composes them) | hygiene rules and parsing as functions; `/send`; the circle of mail | done |
| 10 | `SendEmailProofs` | counter covers but for what went astray; the limit from it; never negative | done |
| 11 | `CommandBusProofs` | the bus keeps marked mail out; the relay keeps its contract | done |
| 12 | `InboundBooksProofs` | the books are true; nothing wanted is put away unanswered | done |
| 13 | `InboundContractProofs` | the poller implements 1; a claim is in flight or final | done |
| 14 | `SendEmailProofs` | today's counter is made of the units of calls | done |
| 15 | `CommandBusProofs` | types; `InstructionIsOwn`, `SignatureIsOwn`, from lemmas about the parsing of any text | done |
| 16 | `SendEmailProofs`, `InboundContractProofs` | what a failure costs at most: emails above the limit, repeated forwards | done |

The abstract specifications worth stating are the dedup contract (done) and the
request contract, which two modules implement (done). A "budget" that at most `Limit`
tickets are out at once (for `SendEmail`) and an introspection oracle with bounded lag (for
`OAuthCache`) would say no more than `LimitKept` and `RevocationLag` do.

## 3. The modules

### DedupContract

A key is free, claimed or done; one worker wins a free key, only an owner forwards
under it, the owner releases or finishes it. Two weaknesses of the code are part of
the contract because a client has to live with them: `Mislay` (the claim is written
and no one learns of it) and `Abandon` (the owner goes away and leaves the key
claimed). `InboundPoller` instantiates it with a refinement mapping: `claimed` keys
whose sweep is past the confirm, or gone, have no owner.

### InboundPoller

| Code | Model |
|---|---|
| `poll_once` loops | `pc`, `box` (mailboxes begun), `todo` (listed, not looked at); `StartSweep`, `NextMailbox`, `ListUnread`, `ListFails`, `MailboxDone`, `EndSweep` |
| `_process_message` up to the claim | `FetchFails`, `Claim`, `SkipSeen`, `ClaimAnswerLost` |
| gates and early returns | `GateIgnores`, `GateDrops`, `GateRaises`, `GatePasses`; `Settle` is the confirm that follows a discard |
| row, POST, both outcomes | `Record`, `RecordConflicts`, `PostAccepted`, `PostFails`, `PostReplyLost`, `Confirm`, `UpdateAcked`, `MarkAcked`, `Release`, `ReleaseRepeats`, `NoteFailure` |
| `except Exception` in `poll_once` | `CallRaises` (no effect) and the second disjunct of `Proceed`/`Finish` (effect, then an error) |
| DynamoDB item `CLAIM#key`, SQLite table `claims` | `claims[k]` |
| rows | `status[g]`, `origin[g]` |
| `_senders_cache`, its age | `cache[s]`, `age[s]` |
| what Clark has received | `clark[g]`: `lost` when the gateway never saw the answer |

One action is one call to something outside the process, because that is
where another sweep may come between; local computation is part of the
action that follows it. A listing is a set whose members are taken newest first.
A message is a record: its mailbox, its date, its sender, its Message-ID or none,
and the outcome of the hygiene rules, which are a pure function of it
(`raise` exists: `.strip()` on the `Header` object Python returns for a raw
8-bit `From`). `gateway_message_id` is any id not used before. `_request`'s
attempts for one envelope are one step: they carry the same id, so Clark can tell
them apart from a second forward.

Failures are in `FaultKinds`; a run or a theorem says which of them may happen.

| Kind | Meaning |
|---|---|
| `senders`, `list`, `fetch` | the read fails and the code carries on |
| `claim_lost` | the conditional put is written, the SDK repeats it and is refused |
| `raise` | a call raises, with or without effect |
| `post` | every attempt failed, or Clark answered other than 2xx |
| `lost_reply` | Clark accepted, the gateway saw an error |
| `crash` | the sweep is cut at any point (55 s timeout, deployment) |
| `ttl` | DynamoDB drops a claim after 90 days, when its sweep is long gone |
| `repeat_release` | the SDK deletes the claim a second time |

### SendEmail

`Start` (`get_user`), `Check` (`check_daily_limit`, preview), `Consume` and
`BackOut` (`consume_daily_limit` on DynamoDB: add, look, give back),
`ConsumeLocally`, `MailSent` / `MailFails` / `MailAnswerLost`, `Refund`
(`refund_send`, which takes the date anew), `StoreRaises`, `Crash`, `Restart`,
`Midnight`. The two ADDs of `state_store.py` are not idempotent, and the SDK repeats one whose
answer was lost: `ConsumeRepeats` for `increment_daily_count`, `GiveBackRepeats` for
`decrement_daily_count`, whether a unit is backed out or refunded. `charged[c]` is the date
`consume_daily_limit` used; `store` is where this process keeps its counters. The
in-memory variant lets calls interleave between its functions, a superset of what one
event loop does.

`astray[u][d]` is a history variable, which no guard reads: the units taken from a counter that
were not the taker's to give back. A unit goes astray when an email is refunded that was sent
(`MailAnswerLost`), when a refund is booked on another day than the charge, when a decrement
is repeated, and when a restart forgets the counters in memory. `CounterCovers` and
`LimitKept` say that nothing else lets a counter fall below the calls it has to cover, or an
email above the limit out; `OverrunBounded` says how much failures can do in all, without it.

### OAuthCache

| Code | Model |
|---|---|
| `verify_token` up to the cache | `WithoutToken` (none, or one whose claims do not fit), `CacheHit`, `AskCognito` |
| `_userinfo_email` | `CognitoDecides` at the moment Cognito looks, then `Accepted`, `Rejected` or `Unreachable` when the answer is in |
| pruning, clearing, insertion | `Kept`, `Remember`; `Forget` |
| `middleware`: the 401, the body, the context variables | `Admit`, `ReadBody`, `RunTool` |
| `caller_email` | `CallerEmail` |
| `_token_cache` | `until[t]`, 0 without an entry |
| the local `now` of `verify_token` | `asked[r]`, which is older than the clock when the answer comes |

`verify_token` makes a blocking call in a coroutine: the event loop stands still
while it waits, so at most one request is between `AskCognito` and its answer
(`LoopFree`), while time passes and tokens are revoked. Everything else interleaves
at each `await`. A body may be cut short by the client and then names no caller.
The flag `CONNECTOR_AUTH_REQUIRED` is either, for the life of the process.

### RequestContract

What a caller of Clark may rely on. A request is open or was declined; while it is open,
and after it was answered, Clark may serve it, any number of times; a *yes* is given
only when it has. *No* and *unknown* promise nothing, not even for later: that
is what the code can keep, and what a caller that retries has to know.

### SignedRequest

| Code | Model |
|---|---|
| `caller_email()`, `_connector_env()`, `json.loads(payload_json)` and their early returns | `Ready`, `Begin`, `Decline` |
| one turn of the loop in `_request` | `Send`, then one of `Success`, `ClientError`, `ServerError`, `OkAnyway`, `NetworkError`, `TornAnswer` |
| `attempt < retries - 1` | `Again`, with what the last attempt ends in: a 5xx is returned, a network error raised |
| the `HTTPException` of a body that breaks off, or an error in `e.read()` inside the handler | `TornAnswer`: no handler applies, nothing is repeated; it is seen as `torn`, which is no reason to repeat |
| `analyze_cim`, which asks the body for its `status` before the HTTP status (`server.py:344-356`) | `BodyFirst`, `OkAnyway`: a last 5xx whose body says `ok` is a *yes* |
| `_connector_result` and the tests of the CIM tools | "yes" for a 200 with a JSON object, "no" otherwise |
| the attempts between gateway and Clark | `net[c][n]`, which may be lost or arrive after they were given up |
| the function's 30 s (`infra/template.yaml:120`) | `Kill`: three times 15 s and the backoffs exceed them |

The other tools differ in routes and wording only, so one call stands for any of them. Of
Clark it is assumed that a 5xx says `"status": "ok"` only of an attempt it has acted on, and a 4xx
never does. The model backs what `InboundPoller` takes as one step, the POST
of an envelope: the same contract holds of it, and a "no" or "unknown" that Clark
served is its `PostReplyLost`.

### SendersCache

`fetch_authorized_senders` for any number of threads, statement by statement where
another thread can tell: `Look` (`now`, and the test of the TTL), `ClarkServes`,
`StoreList`, `StoreTime`, `Fail` (each of the four ways to return what there is), `Return`
(the list is the global, read again). A list is represented by the time Clark served it,
0 standing for the empty list of a new process. `MaxDelay` bounds a call (three
attempts of 15 s and their backoffs).

### LocalServer

| Code | Model |
|---|---|
| `asyncio`'s ready queue; a handler that does not await | `queue`, `running`; `Turn`, `TakeUp` |
| `lifespan` | `Polls`, `Startup`, `Shutdown` (the cancelled task's thread goes on, and the process ends after it) |
| `_poll_loop` | `pollTask`; `IntervalRaises` (`int(poll_seconds)`, before the `try`), `StartThread`, `ThreadEnds` (a result, or an exception that is swallowed), `HandlerRaises` (the handler's own log line cannot be printed), `FallAsleep`, `TimerFires` |
| `poll_once` around what `InboundPoller` models | `sweep[t]`, `left[t]`; `BeginSweep` (`inbound.enabled`), `NextMailbox`, `HaveList` (through `SendersCache`), `MailboxDone`, `SweepRaises` |
| the marker | `TakeTime`, `WriteGlobal`, `ReadGlobal`, `WriteMeta`: `_utc_now_iso()`, the global, the global again, `set_meta` |
| `/health`, `verify_sender`, `poll_inbox` | `Health`, `VerifySender`, `PollInbox`; other handlers that wait for something outside are like `VerifySender` |

Thread "poller" is the poll task's, thread "loop" the event loop's. A deployment
(`enabled`, `runPoller`, `useStore`) is read once by a process; `sound` says that `poll_seconds`
is a number and `logs` that standard output can always be written. The comment at
`server.py:802` says "never let the loop die"; without either of the two it does die, and
nothing starts it again before the process is: `SweepsForever` is therefore asked for
only where both hold, and the deployments of the run include one without each.
`finished` is history.

### EmailRules

A line is who wrote it, what the patterns see in it, and whether a `>` stands before it; headers
are the flags the hygiene rules look at. A mail is its leaf parts in the order of `msg.walk()`,
each with its type, whether its disposition is `attachment`, whether it has a file name, and its
lines. `walk()` descends into a mail that is attached: a part of type `message`, which
bears the disposition and no payload, is followed by the parts of the attached mail, which bear
none, so that `TextOf` may take one of them for the body, as the code does. On these,
`HygieneDrops`, `TextOf`, `StripQuotedHistory`, `ExtractSignatureBlock`, `Attachments` and
`ParseMessage` do what the functions of the same names do. Which regular expression
recognizes a line is abstracted into its kind: `mark` for any of
`_REPLY_SEPARATORS`, `cue` and `contact` for the signature cues, `dashes`, `long`.

### Relay

`Receive` up to `await request.body()`; `Refuse` (401, 400, and the 500 of a JSON body that is no
object), `Accept`; `MailSent`, `MailFails` (502), `CopyToSent` (best effort). Gmail may
send a message before or after the call for it has raised (`GmailSends`). The relay is
shown to implement `RequestContract`, the same as the connector's: 200 is its *yes*, a
refusal its *declined*.

### CommandBus

`Writes` lays out what a person types, or nothing but a subject, and the mail it answers in one
of the styles of the mail clients (attribution recognized or folded, header block, html alone,
answer below, forwarded, a file attached or shown in the mail, a mail attached to a plain
one or to one in html alone); `MachineAnswers` sends what responders, servers, lists and
aliases send, the mark of a machine among its headers or not (`unmarked`). Both are external.
`Sender` is the address the relay sends from (`SENDER_EMAIL`, `server.py:51`), `Self` the
constant the loop guard compares with (`SENDER_SELF`, `gateway_gate.py:13`); they are the
same by default and may be configured apart. `Sweep` gates and parses one mail and hands Clark the envelope;
`Posts` is Clark's reply to someone who wrote, or a forgery; `Relays` is `Relay`'s steps.
Each line keeps its author, and each envelope the hand that wrote the mail, which no code
sees and the properties refer to.

Three things about this part that a reader of the properties should not take for granted:
`BusKeepsOut` excepts machines that mark nothing, whose mail does instruct Clark when
their address is on the list, and holds only where `Sender = Self`; `InstructionIsOwn`
says nothing of a text that does not begin with what the sender typed, and below a quotation the
instruction is the whole text, history included; `SignatureIsOwn` says nothing of a sender
who did not sign.

### MCInboundPoller, MCSendEmail, MCOAuthCache, MCSignedRequest, MCLocalServer, MCCommandBus

Messages, callers, tokens, calls, deployments, addresses and limits for the runs below.

### Slips

Operators under a comment that begins with "Slip" are wrong variants of the
definition that follows them: a plausible mistake in the code they stand beside. The
specification does not use them. Each property is known to fail when one of them
takes the place of the original (`mutants` in `PROJECT.json`), so none holds by the
shape of the model.

## 4. The runs

| Run | Shows | Bounds |
|---|---|---|
| `poller_overlap` | `TypeOK`, `ClaimExclusive`, `BooksTellTruth`, `NoForwardAfterAck`, `TombstonesStay`, and the refinement `KeepsContract` | 2 containers, 2 mailboxes with a copy each of one message, 2 failures of any kind but `ttl`, `repeat_release` |
| `poller_settles` | `EveryMailSettled` (liveness) and `ClaimedMeansInFlight` when no call is half-done, and `RepeatsBounded` with every fault that can make a sweep forward again; the listing holds one message, two compete | 2 failures among `senders`, `list`, `fetch`, `post`, `lost_reply`, `ttl`, `repeat_release` |
| `poller_sqlite` | on SQLite: `NeverDoubleForwarded`, lost answers included, and `NoSilentLoss` while the list changes, caches expire and containers start cold | 2 containers, 2 senders, 2 messages, 2 failures among `senders`, `post`, `lost_reply`, `crash`, `raise` |
| `daily_limit` | `TypeOK`, `LimitKept`, `CounterCovers`, `CounterBalances`, `NoNegativeCounter`, `OverrunBounded`, in DynamoDB and in memory, across midnight and restarts | 6 calls of 3 users, four of one user, one a preview, one by a suspended user, limit 1, 2 days, 3 failures of all six kinds (`gmail`, `gmail_lost`, `raise`, `crash`, `repeat_add`, `repeat_back`) |
| `oauth` | `TypeOK`, `RevocationLag`, `CacheBounded`, `OwnIdentity` while requests overlap, tokens run out and are revoked, and processes restart | 3 requests (the token of one person twice), 2 tokens, a cache of 1 entry kept 2 ticks at most, 4 ticks |
| `connector` | `TypeOK`, `RepeatsOnlyTransient`, the refinement `KeepsContract`, and `EveryCallEnds` (liveness) | 3 calls, of which one is ready to be sent (of `analyze_cim`, so that its body counts) and two are declined (a broken payload, no caller); 3 attempts as in the code |
| `local_server` | `TypeOK`, `ListLag`, `MarkerTrue`, `MarkerFollows`, `DisabledMeansIdle`, and `SweepsForever` and `EveryRequestAnswered` (liveness) | 5 deployments (DynamoDB; SQLite with a log that may fail; SQLite with an interval that is no number; inbound off; the web function), 1 mailbox, 1 request asked again and again, 1 restart, 3 ticks, `Ttl` and `MaxDelay` 1 |
| `command_bus` | `TypeOK`, `BusKeepsOut`, `InstructionIsOwn`, `SignatureIsOwn`, and the refinement `RelayKeepsContract` | 2 mails by people in 10 layouts with 3 bodies or without one, 1 by a machine of 5 kinds, 2 POSTs (sound, forged); `Sender = Self` |
| `lost_reply`, `sqlite_retry`, `refund_after_midnight`, `attached_mail` | counterexamples, section 6 | |

**Why these bounds.** A conflict over a claim needs two sweeps and one key;
containers are interchangeable, and one left idle by a crash comes back as a third
sweep. Two copies suffice for a key shared by two messages and for a message that
waits behind another. The known mistakes (see *Slips*) need at most one failure for
the cut and one for the retry, hence `MaxFaults = 2` where retries matter; with
four row ids every retry the failures allow gets its own. For the counters, the
race needs one caller above the limit, and the date race one midnight; a wrong refund, a
repeated decrement and a restart need one failure each, or two (a failure of Gmail and the
repetition of its refund), and four calls of one user are as many as a limit of one and
three failures let through: the bound of `OverrunBounded` is reached with any number of
failures, and there are calls enough to break it with up to two. These four
calls differ in nothing but their names and the properties speak of sets of calls, so
they are a symmetry set. A cache of one
entry is full with the first token and has to make room for the second; a
lifetime of two ticks leaves one for an answer to be late and one for the entry to
outlive the token, and four ticks let an entry start, be used and expire around a
revocation. Calls to Clark share no state, so one that gets through and two that are
declined for different reasons are every kind there is. In the local server two
threads are all there are; a list can be filed under the other call's time within one
tick of delay, found fresh for one more and refreshed after; the handlers take one
request at a time, and a second one waits behind it like the poll task does. A mail is
parsed by itself, so two of them are enough for every layout of a reply to a reply; one
mail by a machine is the first step of a loop. `Faults`, `MaxFaults`, `MaxDay`, `MaxTime`,
`MaxRestarts`, `MaxWritten`, `MaxMachine`, `MaxResults` (25 in the code), `CacheMax` (256), `Ttl` (300 s), `MaxDelay`
(some 47 s), `Retries` (3), `Mailboxes` of `LocalServer` and the sizes of `GatewayId`, `Container`,
`Copy`, `Call`, `Request`, `Token`, `Post` and `Styles` are the only bounds.

**Fairness.** `FairSpec` asks that some container keeps starting sweeps (EventBridge
`rate(1 minute)` or `_poll_loop`, which catches every exception) and that a started
sweep takes its next step or is killed (the function's timeout sees to it). It
promises nothing about which call fails: failures end because `MaxFaults` is
finite, so liveness reads "once failures stop". Delivery of mail, expiry and changes
of the list are not fair. In `SignedRequest` the gateway goes on with a call it
has started, since `urlopen` is given a timeout; nothing is asked of the network or of
Clark. In `LocalServer` the event loop goes on while it has ready tasks (it takes
them in order, so a task that became ready gets its turn), threads run, their calls
end because each has a timeout, timers fire, and a server that was shut down is
started again; clients, Clark and the clock may do nothing at all, and sweeps may raise
every time.

The runs of `SendEmail`, `OAuthCache`, `SignedRequest` and `CommandBus` turn the deadlock
check off: every call, request or mail is done with in the end, and then the model stops. The
poller and the local server never stop.

## 5. The proofs

### InboundPollerProofs

For any number of containers, mailboxes, messages, ids and failures:

| Theorem | States | Faults excluded |
|---|---|---|
| `TypeCorrect` | `Spec => []TypeOK` | none |
| `Exclusive` | `Spec => []ClaimExclusive` | `repeat_release` |
| `AckIsFinal` | `Spec => NoForwardAfterAck` | `repeat_release`, `ttl` |
| `ForwardedOnce` | `Spec => []NeverDoubleForwarded` | also `lost_reply` |
| `TombstonesAreFinal` | `Spec => TombstonesStay` | `repeat_release`, `ttl` |

The excluded faults are not conveniences: with each of them the statement is false
(`lost_reply` is a run; a repeated delete takes another sweep's claim away; an
expired claim of a message that was never marked read is won again). The other
assumptions are those named in `InboundPoller`.

The argument:

1. `TypeOK` is not inductive, since `DedupKey(cur[s])` needs `cur[s]` to be a copy
   while a sweep is in hand of one. `LocalsOK` ties `cur`, `gid`, `verdict` and
   `box` to `pc`; `TypeInv == TypeOK /\ LocalsOK` is inductive (`TypeStep`).
2. `ClaimExclusive` is inductive relative to `TypeInv`: a claim is won only when
   free, and every step that frees one belongs to the sweep that holds it.
3. `AckInv` adds what links `clark` to `claims`: an acknowledged envelope's key is a
   tombstone, or is claimed and either in the hands of the sweep that is about to
   confirm it or in nobody's. So a sweep that is about to POST never holds the key of
   an acknowledged message, even when the confirm was lost.
4. `OnceInv` sharpens 3 when every answer arrives: all envelopes Clark has are
   acknowledged, hence two of one key cannot exist.

5. `TombstonesKept` needs no more than 2: a confirm or a release is a step of a sweep
   that holds the claim, and a held claim says `claimed`, never a tombstone.

### SendEmailProofs

For any number of calls, users, days and failures, and any limits:

| Theorem | States | Assumption |
|---|---|---|
| `TypeCorrect` | `Spec => []TypeOK` | none |
| `LimitIsKept` | `Spec => []LimitKept` | none |
| `CounterAlwaysCovers` | `Spec => []CounterCovers` | none |
| `LimitHolds` | `Spec => []DailyLimitRespected` | `RefundsAreRight`: counters in DynamoDB, Gmail says so when it has sent, no decrement is repeated, and Gmail does not fail where there is a midnight |
| `OverrunsCostFailures` | `Spec => []OverrunBounded` | none |
| `NeverNegative` | `Spec => []NoNegativeCounter` | none; the property is about counters in memory |
| `CounterIsBalanced` | `Spec => []CounterBalances` | finitely many calls |

The limit is not inductive: between the ADD and the back-out a counter may stand above it, and
a wrong refund takes a unit that some other call holds. `CoverInv` separates the calls that *use a
unit* (`Using`: in flight, or their email is out: never more than the counter says plus what went
astray from it) from those that were *admitted* (`Admitted`: their ADD returned at most
the limit, so there are never more than the limit and what went astray). The second
part follows from the first: an ADD whose total is within the limit leaves at most that many who
use a unit of that day, and everyone admitted does. Every step that can disturb it either adds no
user and takes no unit (`Eases`), charges a call (`ChargeCovers`), or gives a unit back
(`GiveBackCovers`: the giver's own, or one that goes astray). Cardinalities enter through
`AtMost(S, n)`, a finite set of at most `n` elements, and three lemmas about it.

`LimitHolds` is the limit as documented, from `LimitIsKept` and the fact that nothing goes astray
under `RefundsAreRight` (`AstrayStep`). Each part of that assumption is needed:
`refund_after_midnight` is the last, and an email that was sent and is refunded, a repeated
decrement or a restart of a process with its counters in memory each let one email too many
out, without midnight.

`BalanceInv` is the converse bound: the units of today's counter are held by calls or were left by
failures (one each, on DynamoDB; none in memory), and the counter of a day to come is
not above zero, which is what midnight needs.

`OverrunsCostFailures` states the cost without `astray`: it bounds what failures can do by their number. `PaidInv`
says that the units gone astray from a day's counter, together with the user's refunds that are
still to come (`Pending`, which may all be wrong, whichever day they will be booked on), are at most what
the failures so far may have cost (`Slack`). A failed send adds a pending refund and a
failure; a refund settles one and may take a unit; a repeated decrement adds a unit and a failure; a
restart empties the counters, which in memory are never above the limit (`MemoryInv`), so it costs no more
than that. With `LimitKept` the bound on the emails follows.

### OAuthCacheProofs

For any number of requests, tokens and people, any lifetime and any size of the cache:

| Theorem | States | Invariant beside it |
|---|---|---|
| `TypeCorrect` | `Spec => []TypeOK` | - |
| `LagBounded` | `Spec => []RevocationLag` | `LagInv`: an entry of a revoked token ends at most one lifetime after the revocation, and the request behind an accepting answer came before the revocation |
| `CacheNeverGrows` | `Spec => []CacheBounded` | `BoundInv`: the entries are a finite set within the bound |
| `IdentityIsOwn` | `Spec => []OwnIdentity` | `IdInv`: what the middleware and the context hold for a request stems from that request |

### SignedRequestProofs

For any number of calls and attempts, nothing excluded:

| Theorem | States | Invariant beside it |
|---|---|---|
| `TypeCorrect` | `Spec => []TypeOK` | `CountOK`: an attempt that is about to be made, or awaited, is one of those there are |
| `OnlyTransientIsRepeated` | `Spec => []RepeatsOnlyTransient` | `RepeatInv`: before another attempt is sent, *all* of those made have failed for a passing reason |
| `RequestKeepsContract` | `Spec => KeepsContract` | `ServedInv`: a 2xx comes from an attempt Clark acted on, and a call that has not begun has nothing on its way |

The last is a refinement proof: `ContractStep` maps every action to a step of
`RequestContract` or to a stutter (`Send`, a lost or refused attempt, a 5xx that is
tried again); `PhaseMoves` says what a change of `pc` does to the phase.

### LocalServerProofs

For any number of requests and mailboxes, any lifetime and any delay:

| Theorem | States | Invariant beside it |
|---|---|---|
| `TypeCorrect` | `Spec => []TypeOK` | `LoopTypes`, `SweepTypes` |
| `LagBounded` | `Spec => []ListLag`, of lists served within their lifetime | `CacheInv`: every call under way began within `MaxDelay`; whatever list is stored was served within `MaxDelay` of the time it is filed under, though the two may stem from different calls |
| `MarkerIsTrue`, `MarkerKeepsUp` | `Spec => []MarkerTrue`, `Spec => []MarkerFollows` | `MarkInv`: a time about to be assigned is the end of a sweep, within `MaxDelay` |
| `DisabledIsIdle` | `Spec => []DisabledMeansIdle` | `LifeInv`: the poll task has at most one thread, which outlives it at a shutdown |

### CommandBusProofs

For any number of people, mails and POSTs, and any of the ten layouts (`StyleAssumption`, the
ones `Composed` knows):

| Theorem | States | Argument |
|---|---|---|
| `TypeCorrect` | `Spec => []TypeOK` | `CountTypes`; `MailInv` |
| `GateHolds` | `Spec => []BusKeepsOut` | `GateInv`: whatever is in the mailbox is a person's or unmarked, or falls under a hygiene rule |
| `InstructionsAreOwn` | `Spec => []InstructionIsOwn`, of texts that begin with what the sender typed | `MailInv`: the envelope of any mail in the mailbox would be `Faithful` |
| `SignaturesAreOwn` | `Spec => []SignatureIsOwn`, of instructions that are exactly what was typed, signature included | the same |
| `LatestMessage` | the latest message of a text that begins with the sender's own lines is those lines: complete, and nothing of the history | holds of every sequence of lines |
| `NeverEmptied` | `StripQuotedHistory` returns nothing only for nothing | holds of every sequence of lines |
| `SignatureIsOfText` | the lines of a signature are lines of the text | holds of every sequence of lines |
| `RelayIsHonest` | `Spec => RelayKeepsContract` | every step of the bus is one of the relay's or leaves it alone (`BusStepsRelay`); every step of the relay is one of `RequestContract` or a stutter (`ContractStep`) |

What a text becomes is proved for texts of any length, without induction: the parsing
asks for the first or last line of a kind (`SelectInSeq`, `SelectLastInSeq`) and takes what lies
between, and the least element of a set of positions exists because `<` is well-founded on
the natural numbers (`LeastExists`; `GreatestExists` mirrors it). The lemmas up to `PrefixOfPrefix`
say what each search and each cut returns; `LatestMessage` and `HistoryOnTop` what that makes of a
text that begins with its sender's lines, or with the history. `OwnOnTop` to
`BelowFold` apply them to what the mail clients compose, `ClientParts` to the choice of the part
that is read, which in one layout is not the sender's (`OtherInstead`), and so each mail is
`Faithful` when it is written, before any step of the gateway (`WrittenIsRead`,
`ForwardIsRead`, `NoticeIsRead` for machines); the invariant carries it to the envelope.

### InboundBooksProofs

| Theorem | States | Assumption |
|---|---|---|
| `BooksAreTrue` | `Spec => []BooksTellTruth` | `repeat_release` and `ttl` excluded |
| `NothingLostSilently` | `Spec => NoSilentLoss` | the endpoints agree on whom they always authorize (`Steady`); no failure excluded |

`BooksInv` carries the first: no two sweeps are about to write the same row (`OneWriter`),
and each sweep that is about to write one *knows* what it says (`Knows`: a row at its POST
is `routed`, an envelope at `confirm` and `update` was acknowledged, one at `release` and
`note` was not). `BookSteps` sorts the steps by what they do to claims, rows and the sweep
that writes them, so the invariant is proved from four kinds of change and not from thirty-odd
actions. With `ttl` the statement is false: the row keeps saying `acked` when the claim is
gone. `LossInv` carries the second: a list that was ever fetched contains every sender who
is authorized for good, and a sweep past its POST works on an envelope Clark has. The
assumption is needed because the cache has no key (`clark_client.py:92`): with two endpoints
that differ, the list of one decides over the mail of the other.

### InboundContractProofs

| Theorem | States | Assumption |
|---|---|---|
| `PollerKeepsContract` | `Spec => KeepsContract` | `repeat_release` excluded |
| `ClaimsAreInFlight` | `Spec => []ClaimedMeansInFlight` | `NobodyWalksAway`: no call raises, no container dies, no answer to a claim is lost, the store is DynamoDB, no copy makes the gate raise |
| `RepeatsCostFailures` | `Spec => []RepeatsBounded` | none |

The first is a refinement proof. `ClaimSteps` sorts the steps by what they do to claims and
holds (nothing; a sweep gives its key up; a claim, confirm, release or expiry), `ContractMoves`
turns a change of one key's state and owners into a step of `DedupContract`, and a POST
becomes its `Forward` (`ForwardsStep`); `ClaimExclusive` provides that the sweep that frees
or finishes a key is its only owner. The assumption of the second lists what leaves a claim
behind in this code; where one of them is allowed, the property fails.

The third excludes nothing: it says what lost answers, expired claims and repeated deletes,
which `ForwardedOnce` and `AckIsFinal` have to exclude, can do together. A message has *chances* to
be in Clark's hands (`Chances`): the envelopes that are, the sweeps that hold its key and may
still post, and its claim while it can be won. `RepeatInv` says that they are at most one and
the failures so far. Each step trades a chance for another (a free claim for a sweep, a sweep
for an envelope or, at the release, for the claim), or adds one together with a failure (`Trades`):
a lost answer leaves the envelope and lets the sweep go on to release, an expiry or a repeated delete frees a
claim.

### Only model-checked

`EveryMailSettled`, `EveryCallEnds`, `SweepsForever` and `EveryRequestAnswered`, which rest on
fairness and are outside this prover's reach. Every other property of a passing run is
a theorem, under the assumptions its table names.

## 6. Where code and documentation part

| Run | Code | Documentation |
|---|---|---|
| `lost_reply` | Clark accepts, the answer is lost: the claim is released and the message forwarded again under a new `gateway_message_id` (`poller.py:150`) | `poller.py:11`, `lambda_poll.py:10-11`: never double-forwarded |
| `sqlite_retry` | the retry's `record()` violates `UNIQUE(rfc822_message_id)` (`inbound_store.py:47`) and leaks the claim | `poller.py:16-17`: a later sweep genuinely retries it |
| `refund_after_midnight` | the refund goes to the new day's counter (`access_control.py:117`) and allows one email too many | `README.md:259`: max emails per user per day |
| `attached_mail` | `walk()` descends into an attached mail (`email_parse.py:49`): under a reply in html alone the attached mail's plain text becomes the instruction | `email_parse.py:48`: not flagged as an attachment; `email_parse.py:8-9`: the latest message only |

Seen while modelling, in the models but without a run of their own: any exception after
the claim is swallowed without a release (`poller.py:218`) and leaves the message claimed by
nobody until the TTL, where `state_store.py:62-63` says that claimed means in flight or
processed (`sqlite_retry` is one way to get there, a `From` line the hygiene gate raises on
another); Clark may act twice on one call of `submit_cim_intake`, which says it creates a
single approval request (`server.py:362`), because a repeated POST carries nothing that
tells it from a new one; an acknowledged
message whose `mark_read` failed is forwarded again once its claim expires; a
container that never fetched a list marks mail of authorized senders read
(excused in `NoSilentLoss`); a list fetched for one endpoint serves them all; a send
whose answer was lost is refunded; a decrement that the SDK repeats gives two units back for
one, and with Gmail working throughout one email too many goes out; two calls in excess can make
a third be refused although a unit is free; 25 settled but unread messages hide older mail; the loser of
a claim never marks its copy read (`poller.py:85`), so a copy in a second mailbox is
listed, fetched and skipped by every sweep, where `gmail_client.py:133-134` says that
processed messages are not re-polled. The docstring of `strip_quoted_history` says to
"drop leading-'>' quote lines" (`email_parse.py:113-114`); the code cuts at the first one, so an
answer below a quotation is not found and the whole text, history included, becomes the
instruction: `LatestMessageOnly` fails in the same way with `Styles = {"below"}` in
`attached_mail.cfg` (the docstring does announce a fallback to the whole text, for the case that
everything would be stripped). The signature falls back to the whole text (`email_parse.py:282`), so an unsigned
reply is given the signature of whoever it quotes. The marker called last *successful*
poll is written by a sweep whose every listing failed, and `/health` prefers the copy in the
store, which may be behind the global. The hygiene gate's loop guard compares with
`SENDER_SELF`, a constant, while the relay sends from `SENDER_EMAIL`
(`gateway_gate.py:13`, `server.py:51`), and an automatic answer without any of the headers it
looks for gets through. The handler under "never let the loop die" (`server.py:802`) prints
without a guard, and `int(poll_seconds)` stands before the loop: either can end the poll
task. While the cutover flag is off, a token
that was *rejected* lets a request fall through to the self-asserted `caller_email`
just as a missing one does (`oauth.py:327-334`; `oauth.py:29-31` speaks of token-less
requests only).

Not in the models: `README.md:32` promises reserved concurrency 1 for the poll
function and `infra/template.yaml` does not set it (the models allow overlap);
the preview step of `send_email` is asked for by the tool's description and not enforced.

## 7. What is not modelled

* The counts of the sweep's summary and audit lines.
* Loss of the SQLite file: claims are assumed durable. TTL of rows (nothing on the
  sweep reads a row back).
* Two endpoints on one list cache, in any run: `NoSilentLoss` does not hold then.
* The decoding of headers and character sets, the regular expressions, and what a
  display name can do to the substring tests on the `From` line.
* Two threads on one `googleapiclient` service object (`gmail_client.py:27`, whose comment speaks
  of token refresh only); what `httplib2` repeats by itself.
* Redirects (`urllib` follows them), the signature itself, and the texts the tools return.
  `show_dashboard`, `check_my_access` and `run_diagnostics` only report.
* OAuth: the discovery documents and the registration shim with its metadata cache;
  scopes that are not HTTP.
* Configuration is read at cold start and constant afterwards. Audit lines go to
  standard output, diagnostics only read, the self tests are tests.
