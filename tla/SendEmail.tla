------------------------------ MODULE SendEmail ------------------------------
(***************************************************************************)
(* The send_email tool (server.py) and the daily limit it is held to       *)
(* (access_control.py): concurrent tool calls of several users against one *)
(* counter per user and day.                                               *)
(*                                                                         *)
(* On Lambda the counters are DynamoDB items changed by atomic ADDs, one   *)
(* call each; elsewhere they are a dict of the process, read and changed   *)
(* without a pause.                                                        *)
(***************************************************************************)
EXTENDS Integers, FiniteSets

CONSTANTS
  Call,       \* invocations of the tool
  User,       \* callers whose identity is known
  Active,     \* the users in the configuration with active = true
  Limit,      \* Limit[u]: daily_limit, or default_daily_limit without one
  CallerOf,   \* CallerOf[c]: the user who makes call c
  Confirmed,  \* the calls made with confirmed = True
  MaxDay,     \* days that pass
  Stores,     \* where counters may be kept: "dynamodb", "memory"
  Faults,     \* the kinds of failure that may happen
  MaxFaults   \* how many of them

FaultKinds == {"gmail", "gmail_lost", "raise", "crash", "repeat_add", "repeat_back"}

ASSUME UserAssumption ==
  /\ Active \subseteq User
  /\ Limit \in [User -> Nat]
  /\ CallerOf \in [Call -> User]
  /\ Confirmed \subseteq Call
ASSUME BoundAssumption ==
  /\ MaxDay \in Nat \ {0}
  /\ MaxFaults \in Nat
  /\ Stores \subseteq {"dynamodb", "memory"}
  /\ Faults \subseteq FaultKinds

Day == 1..MaxDay

VARIABLES
  store,    \* state_store.enabled(): fixed when the process starts
  day,      \* datetime.date.today()
  count,    \* count[u][d]: the counter of user u on day d
  pc,       \* pc[c]: the next step of call c
  charged,  \* charged[c]: the day consume_daily_limit counted c on, 0 before
  mailed,   \* the calls whose email Gmail has sent
  astray,   \* astray[u][d]: units taken from count[u][d] by no right; no code reads it
  faults    \* failures so far

vars == <<store, day, count, pc, charged, mailed, astray, faults>>

UseStore == store = "dynamodb"

Open == {"check", "consume", "backout", "send", "refund"}
Done == {"refused", "previewed", "sent", "failed", "broken"}

TypeOK ==
  /\ store \in Stores
  /\ day \in Day
  /\ count \in [User -> [Day -> Int]]
  /\ pc \in [Call -> {"start"} \union Open \union Done]
  /\ charged \in [Call -> Day \union {0}]
  /\ mailed \subseteq Call
  /\ astray \in [User -> [Day -> Int]]
  /\ faults \in 0..MaxFaults

Init ==
  /\ store \in Stores
  /\ day = 1
  /\ count = [u \in User |-> [d \in Day |-> 0]]
  /\ pc = [c \in Call |-> "start"]
  /\ charged = [c \in Call |-> 0]
  /\ mailed = {}
  /\ astray = [u \in User |-> [d \in Day |-> 0]]
  /\ faults = 0

Fault(f) ==
  /\ f \in Faults
  /\ faults < MaxFaults
  /\ faults' = faults + 1

Goto(c, label) == pc' = [pc EXCEPT ![c] = label]

(***************************************************************************)
(* A call of the store took effect and was answered, or raised all the     *)
(* same: a ClientError is neither ValueError nor RuntimeError and breaks   *)
(* the tool.                                                               *)
(***************************************************************************)
Proceed(c, label) ==
  \/ Goto(c, label) /\ UNCHANGED faults
  \/ UseStore /\ Fault("raise") /\ Goto(c, "broken")

-----------------------------------------------------------------------------
(* access_control.py and the counters of state_store.py *)

Counter(c) == count[CallerOf[c]][day]

LimitOf(c) == Limit[CallerOf[c]]

Add(c, d, n) == count' = [count EXCEPT ![CallerOf[c]][d] = @ + n]

\* A unit is taken from the counter of day d that was not call c's to give back.
Stray(c, d) == astray' = [astray EXCEPT ![CallerOf[c]][d] = @ + 1]

-----------------------------------------------------------------------------
(* One call of the tool *)

(***************************************************************************)
(* get_user: unknown and suspended users get no further.                   *)
(***************************************************************************)
Start(c) ==
  /\ pc[c] = "start"
  /\ Goto(c, IF CallerOf[c] \in Active THEN "check" ELSE "refused")
  /\ UNCHANGED <<store, day, count, charged, mailed, astray, faults>>

(***************************************************************************)
(* check_daily_limit, and the preview when the call is not confirmed.      *)
(***************************************************************************)
Check(c) ==
  /\ pc[c] = "check"
  /\ \/ /\ Counter(c) >= LimitOf(c)
        /\ Goto(c, "refused")
     \/ /\ Counter(c) < LimitOf(c)
        /\ Goto(c, IF c \in Confirmed THEN "consume" ELSE "previewed")
  /\ UNCHANGED <<store, day, count, charged, mailed, astray, faults>>

\* Slips: counted without looking at the total, as record_send does after
\* check_daily_limit; the date of another time zone; nothing given back.
ConsumeUnchecked(c) ==
  /\ UseStore
  /\ pc[c] = "consume"
  /\ Add(c, day, 1)
  /\ charged' = [charged EXCEPT ![c] = day]
  /\ Proceed(c, "send")
  /\ UNCHANGED <<store, day, mailed, astray>>

ConsumeTomorrow(c) ==
  /\ UseStore
  /\ pc[c] = "consume"
  /\ Add(c, day, 1)
  /\ charged' = [charged EXCEPT ![c] = day + 1]
  /\ Proceed(c, IF Counter(c) + 1 > LimitOf(c) THEN "backout" ELSE "send")
  /\ UNCHANGED <<store, day, mailed, astray>>

ConsumeForGood(c) ==
  /\ UseStore
  /\ pc[c] = "consume"
  /\ Add(c, day, 1)
  /\ charged' = [charged EXCEPT ![c] = day]
  /\ Proceed(c, IF Counter(c) + 1 > LimitOf(c) THEN "refused" ELSE "send")
  /\ UNCHANGED <<store, day, mailed, astray>>

(***************************************************************************)
(* consume_daily_limit on DynamoDB: count first, then look at the total.   *)
(***************************************************************************)
Consume(c) ==
  /\ UseStore
  /\ pc[c] = "consume"
  /\ Add(c, day, 1)
  /\ charged' = [charged EXCEPT ![c] = day]
  /\ Proceed(c, IF Counter(c) + 1 > LimitOf(c) THEN "backout" ELSE "send")
  /\ UNCHANGED <<store, day, mailed, astray>>

(***************************************************************************)
(* The ADD is done and its answer lost: the SDK adds once more.            *)
(***************************************************************************)
ConsumeRepeats(c) ==
  /\ UseStore
  /\ pc[c] = "consume"
  /\ Fault("repeat_add")
  /\ Add(c, day, 1)
  /\ UNCHANGED <<store, day, pc, charged, mailed, astray>>

\* Slip: record_send alone, after the check the tool makes before the preview.
RecordLocally(c) ==
  /\ ~ UseStore
  /\ pc[c] = "consume"
  /\ Add(c, day, 1)
  /\ charged' = [charged EXCEPT ![c] = day]
  /\ Goto(c, "send")
  /\ UNCHANGED <<store, day, mailed, astray, faults>>

(***************************************************************************)
(* consume_daily_limit in memory: check and count in one go.               *)
(***************************************************************************)
ConsumeLocally(c) ==
  /\ ~ UseStore
  /\ pc[c] = "consume"
  /\ \/ /\ Counter(c) >= LimitOf(c)
        /\ Goto(c, "refused")
        /\ UNCHANGED <<count, charged>>
     \/ /\ Counter(c) < LimitOf(c)
        /\ Add(c, day, 1)
        /\ charged' = [charged EXCEPT ![c] = day]
        /\ Goto(c, "send")
  /\ UNCHANGED <<store, day, mailed, astray, faults>>

\* Slip: the date taken anew, as refund_send does.
BackOutToday(c) ==
  /\ pc[c] = "backout"
  /\ Add(c, day, -1)
  /\ Proceed(c, "refused")
  /\ UNCHANGED <<store, day, charged, mailed, astray>>

(***************************************************************************)
(* Over the limit: the day that was counted is given back.                 *)
(***************************************************************************)
BackOut(c) ==
  /\ pc[c] = "backout"
  /\ Add(c, charged[c], -1)
  /\ Proceed(c, "refused")
  /\ UNCHANGED <<store, day, charged, mailed, astray>>

(***************************************************************************)
(* decrement_daily_count did its ADD and the answer was lost: the SDK adds *)
(* once more, whether a unit is backed out or refunded.                    *)
(***************************************************************************)
GiveBackRepeats(c) ==
  /\ UseStore
  /\ pc[c] \in {"backout", "refund"}
  /\ Fault("repeat_back")
  /\ LET d == IF pc[c] = "backout" THEN charged[c] ELSE day
     IN  Add(c, d, -1) /\ Stray(c, d)
  /\ UNCHANGED <<store, day, pc, charged, mailed>>

MailSent(c) ==
  /\ pc[c] = "send"
  /\ mailed' = mailed \union {c}
  /\ Goto(c, "sent")
  /\ UNCHANGED <<store, day, count, charged, astray, faults>>

MailFails(c) ==
  /\ pc[c] = "send"
  /\ Fault("gmail")
  /\ Goto(c, "refund")
  /\ UNCHANGED <<store, day, count, charged, mailed, astray>>

(***************************************************************************)
(* Gmail sent the email; the call raised all the same.                     *)
(***************************************************************************)
MailAnswerLost(c) ==
  /\ pc[c] = "send"
  /\ Fault("gmail_lost")
  /\ mailed' = mailed \union {c}
  /\ Goto(c, "refund")
  /\ UNCHANGED <<store, day, count, charged, astray>>

\* Slip: the same on either path.
RefundAnyway(c) ==
  /\ pc[c] = "refund"
  /\ Add(c, day, -1)
  /\ Proceed(c, "failed")
  /\ UNCHANGED <<store, day, charged, mailed, astray>>

(***************************************************************************)
(* refund_send takes the date anew, so the unit may be another day's; and  *)
(* the email may be out.  In memory a counter at zero stays.               *)
(***************************************************************************)
Refund(c) ==
  /\ pc[c] = "refund"
  /\ \/ /\ UseStore \/ Counter(c) > 0
        /\ Add(c, day, -1)
        /\ IF charged[c] = day /\ c \notin mailed THEN UNCHANGED astray ELSE Stray(c, day)
     \/ /\ ~ UseStore /\ Counter(c) <= 0
        /\ UNCHANGED <<count, astray>>
  /\ Proceed(c, "failed")
  /\ UNCHANGED <<store, day, charged, mailed>>

(***************************************************************************)
(* A call of the store raises without effect.                              *)
(***************************************************************************)
StoreRaises(c) ==
  /\ UseStore
  /\ pc[c] \in {"check", "consume", "backout", "refund"}
  /\ Fault("raise")
  /\ Goto(c, "broken")
  /\ UNCHANGED <<store, day, count, charged, mailed, astray>>

(***************************************************************************)
(* The container dies or reaches its 30 s timeout under the call.          *)
(***************************************************************************)
Crash(c) ==
  /\ UseStore
  /\ pc[c] \in Open
  /\ Fault("crash")
  /\ Goto(c, "broken")
  /\ UNCHANGED <<store, day, count, charged, mailed, astray>>

(***************************************************************************)
(* The counters in memory go with the process, and so do its calls.        *)
(***************************************************************************)
Restart ==
  /\ ~ UseStore
  /\ Fault("crash")
  /\ count' = [u \in User |-> [d \in Day |-> 0]]
  /\ astray' = [u \in User |-> [d \in Day |-> astray[u][d] + count[u][d]]]
  /\ pc' = [c \in Call |-> IF pc[c] \in Open THEN "broken" ELSE pc[c]]
  /\ UNCHANGED <<store, day, charged, mailed>>

Midnight ==
  /\ day < MaxDay
  /\ day' = day + 1
  /\ UNCHANGED <<store, count, pc, charged, mailed, astray, faults>>

-----------------------------------------------------------------------------
Step(c) ==
  \/ Start(c) \/ Check(c)
  \/ Consume(c) \/ ConsumeRepeats(c) \/ ConsumeLocally(c)
  \/ BackOut(c) \/ GiveBackRepeats(c)
  \/ MailSent(c) \/ MailFails(c) \/ MailAnswerLost(c) \/ Refund(c)
  \/ StoreRaises(c) \/ Crash(c)

Next == (\E c \in Call : Step(c)) \/ Restart \/ Midnight

Spec == Init /\ [][Next]_vars

-----------------------------------------------------------------------------
(* Properties *)

(***************************************************************************)
(* The calls of user u counted on day d that sent an email.                *)
(***************************************************************************)
Sent(u, d) == {c \in mailed : CallerOf[c] = u /\ charged[c] = d}

(***************************************************************************)
(* No user sends more emails on a day than the limit allows ("Max emails   *)
(* per user per day"), however the calls overlap.                          *)
(***************************************************************************)
DailyLimitRespected ==
  \A u \in User, d \in Day : Cardinality(Sent(u, d)) <= Limit[u]

(***************************************************************************)
(* The limit is kept but for the units that went astray: however the calls *)
(* overlap and whatever fails, only a refund of an email that was sent, a  *)
(* refund booked on the day after the charge, a decrement the SDK repeats  *)
(* or a restart that forgets a counter lets an email above the limit out,  *)
(* one for each unit, on the day and for the user it was taken from.       *)
(***************************************************************************)
LimitKept ==
  \A u \in User, d \in Day : Cardinality(Sent(u, d)) <= Limit[u] + astray[u][d]

(***************************************************************************)
(* What a failure may cost: a unit given back that was used, or on another *)
(* day, or twice; in memory, everything a process has counted.             *)
(***************************************************************************)
FailureCost(u) == IF UseStore THEN 1 ELSE Limit[u]

(***************************************************************************)
(* When calls do fail, an email above the limit has cost a failure: each   *)
(* one lets at most one more through, be it a refund for an email that was *)
(* sent, one booked on the day after the charge or a decrement repeated; a *)
(* restart, where counters are in memory, at most the limit once more.     *)
(***************************************************************************)
OverrunBounded ==
  \A u \in User, d \in Day : Cardinality(Sent(u, d)) <= Limit[u] + faults * FailureCost(u)

(***************************************************************************)
(* The calls that hold a unit of the counter of u on day d.                *)
(***************************************************************************)
Holding(u, d) ==
  {c \in Call : /\ CallerOf[c] = u
                /\ charged[c] = d
                /\ pc[c] \in {"backout", "send", "refund", "sent"}}

(***************************************************************************)
(* What failures may leave in a counter: on DynamoDB a unit each, when the *)
(* call that held it breaks off or its ADD is repeated.                    *)
(***************************************************************************)
Leftover == IF UseStore THEN faults ELSE 0

(***************************************************************************)
(* A call that is refused, or whose email fails, leaves nothing behind in  *)
(* today's counter: but for the leftovers of failures it is not above the  *)
(* emails sent and the calls in flight, whatever midnight and restarts did *)
(* to it.                                                                  *)
(***************************************************************************)
CounterBalances ==
  \A u \in User : count[u][day] <= Cardinality(Holding(u, day)) + Leftover

(***************************************************************************)
(* The counter covers the calls in flight and every email sent, but for    *)
(* the units that went astray: on any other failure it errs on the side of *)
(* refusing.                                                               *)
(***************************************************************************)
CounterCovers ==
  \A u \in User, d \in Day :
    Cardinality(Holding(u, d) \union Sent(u, d)) <= count[u][d] + astray[u][d]

(***************************************************************************)
(* In memory no refund takes a counter below zero, whatever midnight or a  *)
(* restart did to the unit it gives back.                                  *)
(***************************************************************************)
NoNegativeCounter ==
  ~ UseStore => \A u \in User, d \in Day : count[u][d] >= 0
=============================================================================
