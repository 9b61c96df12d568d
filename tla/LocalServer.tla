----------------------------- MODULE LocalServer -----------------------------
(***************************************************************************)
(* The application build_app of server.py makes, run as one process: an    *)
(* event loop that serves requests, the background task _poll_loop, whose  *)
(* sweeps run in a thread of their own, and what both sides share: the     *)
(* allow-list cache (SendersCache) and the marker last_successful_poll.    *)
(* Handlers and tools are synchronous inside: one that waits for Clark or  *)
(* for the store holds the loop.  What a sweep does with mail is           *)
(* InboundPoller's subject; here it is a step that may take any time.      *)
(***************************************************************************)
EXTENDS Integers, Sequences

CONSTANTS
  Request,       \* requests that may be waiting at once
  Deployments,   \* the configurations a process may start with
  Mailboxes,     \* number of mailboxes in the inbound configuration
  MaxRestarts,   \* bound: how often the process is stopped or killed
  Ttl, MaxDelay, MaxTime

(***************************************************************************)
(* sound: poll_seconds is a number; logs: the standard output, to which    *)
(* audit_log prints, can always be written.                                *)
(***************************************************************************)
Deployment ==
  [enabled : BOOLEAN, runPoller : BOOLEAN, useStore : BOOLEAN,
   sound : BOOLEAN, logs : BOOLEAN]

ASSUME DeploymentAssumption == Deployments \subseteq Deployment
ASSUME SizeAssumption == Mailboxes \in Nat /\ MaxRestarts \in Nat
ASSUME TimeAssumption ==
  Ttl \in Nat /\ MaxDelay \in Nat \ {0} /\ MaxTime \in Nat \ {0}

Thread == {"poller", "loop"}

VARIABLES
  clock, senders, stamp, phase, began, got,   \* see SendersCache
  deployed,   \* this process's configuration, read once
  up,         \* the application is between startup and shutdown
  queue,      \* the event loop's ready tasks
  running,    \* the request that holds the loop, or "none"
  pollTask,   \* where _poll_loop is, "off" without the task
  want,       \* want[r]: what a waiting request asks for, or "none"
  sweep,      \* sweep[t]: the next step of the poll_once in thread t, or "none"
  left,       \* left[t]: mailboxes still to visit
  taken,      \* taken[t]: the time a sweep is about to store
  marker,     \* LAST_SUCCESSFUL_POLL, 0 for None
  meta,       \* its copy in the store, 0 when there is none
  finished,   \* history: when sweeps came to their end
  restarts

Cache == INSTANCE SendersCache

cacheVars == <<clock, senders, stamp, phase, began, got>>
loopVars  == <<queue, running, pollTask, want>>
sweepVars == <<sweep, left, taken>>
marks     == <<marker, meta, finished>>
life      == <<deployed, up, restarts>>
vars      == <<cacheVars, loopVars, sweepVars, marks, life>>

Kinds == {"health", "verify_sender", "poll_inbox"}
SweepSteps == {"begin", "next", "list", "mail", "global", "copy", "put",
               "returned", "raised"}
TaskSteps  == {"off", "ready", "thread", "done", "asleep"}

TypeOK ==
  /\ Cache!TypeOK
  /\ deployed \in Deployments /\ up \in BOOLEAN /\ restarts \in 0..MaxRestarts
  /\ queue \in Seq(Request \union {"poll"})
  /\ running \in Request \union {"none"}
  /\ pollTask \in TaskSteps
  /\ want \in [Request -> Kinds \union {"none"}]
  /\ sweep \in [Thread -> SweepSteps \union {"none"}]
  /\ left \in [Thread -> 0..Mailboxes]
  /\ taken \in [Thread -> Cache!Time]
  /\ marker \in Cache!Time /\ meta \in Cache!Time
  /\ finished \subseteq Cache!Time

(***************************************************************************)
(* lifespan: the task exists only with run_poller and inbound.enabled.     *)
(***************************************************************************)
Polls(d) == d.runPoller /\ d.enabled

NoThreads == [t \in Thread |-> "none"]
NoCounts  == [t \in Thread |-> 0]

Init ==
  /\ Cache!Init
  /\ deployed \in Deployments
  /\ up = TRUE /\ restarts = 0
  /\ queue = IF Polls(deployed) THEN <<"poll">> ELSE <<>>
  /\ pollTask = IF Polls(deployed) THEN "ready" ELSE "off"
  /\ running = "none" /\ want = [r \in Request |-> "none"]
  /\ sweep = NoThreads /\ left = NoCounts /\ taken = NoCounts
  /\ marker = 0 /\ meta = 0 /\ finished = {}

Goto(t, step) == sweep' = [sweep EXCEPT ![t] = step]

-----------------------------------------------------------------------------
(* A sweep, in the thread of the poll task or on the loop (poll_inbox) *)

\* Slip: inbound.enabled is left to lifespan.
BeginUnasked(t) ==
  /\ sweep[t] = "begin"
  /\ Goto(t, "next")
  /\ left' = [left EXCEPT ![t] = Mailboxes]
  /\ UNCHANGED <<taken, cacheVars, loopVars, marks, life>>

BeginSweep(t) ==
  /\ sweep[t] = "begin"
  /\ Goto(t, IF deployed.enabled THEN "next" ELSE "returned")
  /\ left' = [left EXCEPT ![t] = IF deployed.enabled THEN Mailboxes ELSE 0]
  /\ UNCHANGED <<taken, cacheVars, loopVars, marks, life>>

\* Slip: one mailbox too many.
NextMailboxToo(t) ==
  /\ sweep[t] = "next" /\ left[t] >= 0
  /\ Cache!Look(t)
  /\ Goto(t, "list")
  /\ left' = [left EXCEPT ![t] = @ - 1]
  /\ UNCHANGED <<taken, loopVars, marks, life>>

NextMailbox(t) ==
  /\ sweep[t] = "next" /\ left[t] > 0
  /\ Cache!Look(t)
  /\ Goto(t, "list")
  /\ left' = [left EXCEPT ![t] = @ - 1]
  /\ UNCHANGED <<taken, loopVars, marks, life>>

HaveList(t) ==
  /\ sweep[t] = "list"
  /\ Cache!Return(t)
  /\ Goto(t, "mail")
  /\ UNCHANGED <<left, taken, loopVars, marks, life>>

(***************************************************************************)
(* The messages of a mailbox are through, or could not be listed.          *)
(***************************************************************************)
MailboxDone(t) ==
  /\ sweep[t] = "mail"
  /\ Goto(t, "next")
  /\ UNCHANGED <<left, taken, cacheVars, loopVars, marks, life>>

\* Slip: the marker is written in a finally clause.
RaiseAndMark(t) ==
  /\ sweep[t] \in {"begin", "next", "mail"}
  /\ Goto(t, "global")
  /\ left' = [left EXCEPT ![t] = 0]
  /\ taken' = [taken EXCEPT ![t] = clock]
  /\ UNCHANGED <<cacheVars, loopVars, marks, life>>

(***************************************************************************)
(* Something outside the handlers of poll_once raises, an entry of the     *)
(* configuration that is not what it should be, or something inside one of *)
(* them, a log that cannot be written.                                     *)
(***************************************************************************)
SweepRaises(t) ==
  /\ sweep[t] \in {"begin", "next", "mail"}
  /\ Goto(t, "raised")
  /\ left' = [left EXCEPT ![t] = 0]
  /\ UNCHANGED <<taken, cacheVars, loopVars, marks, life>>

(***************************************************************************)
(* _utc_now_iso() is evaluated, then assigned, then the global copied to   *)
(* the store: the other thread may come between any two of these.          *)
(***************************************************************************)
TakeTime(t) ==
  /\ sweep[t] = "next" /\ left[t] = 0
  /\ taken' = [taken EXCEPT ![t] = clock]
  /\ finished' = finished \union {clock}
  /\ Goto(t, "global")
  /\ UNCHANGED <<left, cacheVars, loopVars, marker, meta, life>>

\* Slip: set once, as a default is.
WriteOnce(t) ==
  /\ sweep[t] = "global"
  /\ marker' = IF marker = 0 THEN taken[t] ELSE marker
  /\ taken' = [taken EXCEPT ![t] = 0]
  /\ Goto(t, IF deployed.useStore THEN "copy" ELSE "returned")
  /\ UNCHANGED <<left, cacheVars, loopVars, meta, finished, life>>

WriteGlobal(t) ==
  /\ sweep[t] = "global"
  /\ marker' = taken[t]
  /\ taken' = [taken EXCEPT ![t] = 0]
  /\ Goto(t, IF deployed.useStore THEN "copy" ELSE "returned")
  /\ UNCHANGED <<left, cacheVars, loopVars, meta, finished, life>>

(***************************************************************************)
(* What goes to the store is the global, read again.                       *)
(***************************************************************************)
ReadGlobal(t) ==
  /\ sweep[t] = "copy"
  /\ taken' = [taken EXCEPT ![t] = marker]
  /\ Goto(t, "put")
  /\ UNCHANGED <<left, cacheVars, loopVars, marks, life>>

(***************************************************************************)
(* Best effort: what the store says is swallowed.                          *)
(***************************************************************************)
WriteMeta(t) ==
  /\ sweep[t] = "put"
  /\ meta' \in {meta, taken[t]}
  /\ taken' = [taken EXCEPT ![t] = 0]
  /\ Goto(t, "returned")
  /\ UNCHANGED <<left, cacheVars, loopVars, marker, finished, life>>

-----------------------------------------------------------------------------
(* _poll_loop, a task of the event loop *)

Free == up /\ running = "none"

Turn(task) == Free /\ queue # <<>> /\ Head(queue) = task /\ queue' = Tail(queue)

(***************************************************************************)
(* int(poll_seconds) comes before the loop and its try: with an entry that *)
(* is no number the task ends at its first turn.                           *)
(***************************************************************************)
IntervalRaises ==
  /\ Turn("poll") /\ pollTask = "ready" /\ ~ deployed.sound
  /\ pollTask' = "off"
  /\ UNCHANGED <<running, want, sweepVars, cacheVars, marks, life>>

StartThread ==
  /\ Turn("poll") /\ pollTask = "ready" /\ deployed.sound
  /\ pollTask' = "thread"
  /\ Goto("poller", "begin")
  /\ UNCHANGED <<running, want, left, taken, cacheVars, marks, life>>

\* Slip: the exception ends the task.
ThreadEndsTask ==
  /\ sweep["poller"] \in {"returned", "raised"}
  /\ Goto("poller", "none")
  /\ IF pollTask = "thread" /\ sweep["poller"] = "returned"
       THEN pollTask' = "done" /\ queue' = Append(queue, "poll")
       ELSE pollTask' = "off" /\ UNCHANGED queue
  /\ UNCHANGED <<running, want, left, taken, cacheVars, marks, life>>

(***************************************************************************)
(* The thread is through, with a result or an exception that the task logs *)
(* and swallows.  A task that was cancelled meanwhile hears nothing of it. *)
(***************************************************************************)
ThreadEnds ==
  /\ sweep["poller"] \in {"returned", "raised"}
  /\ Goto("poller", "none")
  /\ IF pollTask = "thread"
       THEN pollTask' = "done" /\ queue' = Append(queue, "poll")
       ELSE UNCHANGED <<pollTask, queue>>
  /\ UNCHANGED <<running, want, left, taken, cacheVars, marks, life>>

(***************************************************************************)
(* The handler's own line of the log cannot be written: that exception     *)
(* nobody swallows, and the task ends.                                     *)
(***************************************************************************)
HandlerRaises ==
  /\ sweep["poller"] = "raised" /\ pollTask = "thread" /\ ~ deployed.logs
  /\ Goto("poller", "none")
  /\ pollTask' = "off"
  /\ UNCHANGED <<queue, running, want, left, taken, cacheVars, marks, life>>

FallAsleep ==
  /\ Turn("poll") /\ pollTask = "done"
  /\ pollTask' = "asleep"
  /\ UNCHANGED <<running, want, sweepVars, cacheVars, marks, life>>

TimerFires ==
  /\ pollTask = "asleep"
  /\ pollTask' = "ready"
  /\ queue' = Append(queue, "poll")
  /\ UNCHANGED <<running, want, sweepVars, cacheVars, marks, life>>

-----------------------------------------------------------------------------
(* Requests *)

Arrive(r, kind) ==
  /\ up /\ want[r] = "none"
  /\ want' = [want EXCEPT ![r] = kind]
  /\ queue' = Append(queue, r)
  /\ UNCHANGED <<running, pollTask, sweepVars, cacheVars, marks, life>>

Answer(r) ==
  /\ running' = "none"
  /\ want' = [want EXCEPT ![r] = "none"]
  /\ UNCHANGED <<queue, pollTask>>

Serves(r, kind) == running = r /\ want[r] = kind

(***************************************************************************)
(* A handler has the loop from here to its answer.                         *)
(***************************************************************************)
TakeUp(r) ==
  /\ Turn(r)
  /\ running' = r
  /\ UNCHANGED <<pollTask, want, sweepVars, cacheVars, marks, life>>

Health(r) ==
  /\ Serves(r, "health")
  /\ Answer(r)
  /\ UNCHANGED <<sweepVars, cacheVars, marks, life>>

VerifySender(r) ==
  /\ Serves(r, "verify_sender")
  /\ \/ Cache!Look("loop") /\ UNCHANGED loopVars
     \/ Cache!Return("loop") /\ Answer(r)
  /\ UNCHANGED <<sweepVars, marks, life>>

PollInbox(r) ==
  /\ Serves(r, "poll_inbox")
  /\ \/ sweep["loop"] = "none" /\ Goto("loop", "begin") /\ UNCHANGED loopVars
     \/ sweep["loop"] = "none" /\ UNCHANGED sweep /\ Answer(r)    \* not an admin
     \/ sweep["loop"] \in {"returned", "raised"} /\ Goto("loop", "none") /\ Answer(r)
  /\ UNCHANGED <<left, taken, cacheVars, marks, life>>

-----------------------------------------------------------------------------
(* The process *)

(***************************************************************************)
(* Shutdown waits for the requests, then cancels the task.  The thread     *)
(* behind it is not interrupted.                                           *)
(***************************************************************************)
Shutdown ==
  /\ up /\ restarts < MaxRestarts
  /\ \A r \in Request : want[r] = "none"
  /\ up' = FALSE /\ restarts' = restarts + 1
  /\ pollTask' = "off" /\ queue' = <<>>
  /\ UNCHANGED <<deployed, running, want, sweepVars, cacheVars, marks>>

(***************************************************************************)
(* Everything but the store goes with the process.                         *)
(***************************************************************************)
NewProcess ==
  /\ up' = TRUE
  /\ queue' = IF Polls(deployed) THEN <<"poll">> ELSE <<>>
  /\ pollTask' = IF Polls(deployed) THEN "ready" ELSE "off"
  /\ running' = "none" /\ want' = [r \in Request |-> "none"]
  /\ sweep' = NoThreads /\ left' = NoCounts /\ taken' = NoCounts
  /\ senders' = 0 /\ stamp' = 0
  /\ phase' = Cache!NoCall /\ began' = Cache!NoTime /\ got' = Cache!NoTime
  /\ marker' = 0
  /\ UNCHANGED <<deployed, clock, meta, finished>>

(***************************************************************************)
(* The old process ends when its thread has.                               *)
(***************************************************************************)
Startup ==
  /\ ~ up /\ sweep["poller"] = "none"
  /\ NewProcess
  /\ UNCHANGED restarts

Killed ==
  /\ restarts < MaxRestarts
  /\ NewProcess
  /\ restarts' = restarts + 1

(***************************************************************************)
(* Nor does assigning the marker take longer than MaxDelay.                *)
(***************************************************************************)
Tick ==
  /\ \A t \in Thread : sweep[t] = "global" => clock < taken[t] + MaxDelay
  /\ Cache!Tick
  /\ UNCHANGED <<loopVars, sweepVars, marks, life>>

-----------------------------------------------------------------------------
CacheStep(step) == step /\ UNCHANGED <<loopVars, sweepVars, marks, life>>

SweepStep(t) ==
  \/ BeginSweep(t) \/ NextMailbox(t) \/ HaveList(t) \/ MailboxDone(t)
  \/ TakeTime(t) \/ WriteGlobal(t) \/ ReadGlobal(t) \/ WriteMeta(t)

(* What a thread does until it is through: its calls end, by timeout if    *)
(* need be. *)
ThreadStep(t) == SweepStep(t) \/ CacheStep(Cache!GoOn(t))

LoopStep ==
  \/ IntervalRaises \/ StartThread \/ FallAsleep
  \/ \E r \in Request :
       TakeUp(r) \/ Health(r) \/ VerifySender(r) \/ PollInbox(r)

World ==
  \/ \E t \in Thread : SweepRaises(t) \/ CacheStep(Cache!ClarkServes(t))
  \/ \E r \in Request, kind \in Kinds : Arrive(r, kind)
  \/ HandlerRaises \/ Shutdown \/ Killed \/ Tick

Next ==
  \/ LoopStep \/ ThreadEnds \/ TimerFires \/ Startup
  \/ \E t \in Thread : ThreadStep(t)
  \/ World

Spec == Init /\ [][Next]_vars

(***************************************************************************)
(* The loop takes its ready tasks in order, a thread runs, timers fire,    *)
(* and a server that was stopped comes back.  Nothing is asked of Clark,   *)
(* of clients or of the clock.                                             *)
(***************************************************************************)
Fairness ==
  /\ WF_vars(LoopStep) /\ WF_vars(ThreadEnds) /\ WF_vars(TimerFires)
  /\ WF_vars(Startup)
  /\ \A t \in Thread : WF_vars(ThreadStep(t))

FairSpec == Spec /\ Fairness

-----------------------------------------------------------------------------
(* Properties *)

(***************************************************************************)
(* The list a thread is given from the cache lags less than Ttl + MaxDelay *)
(* behind Clark's, whatever the other thread does with the cache.          *)
(***************************************************************************)
ListLag == Cache!ListLag

(***************************************************************************)
(* What /health may report as last_successful_poll is the time at which a  *)
(* sweep came to its end: no sweep that was cut off, raised or was never   *)
(* allowed to start leaves a mark.                                         *)
(***************************************************************************)
MarkerTrue == {marker, meta} \subseteq finished \union {0}

(***************************************************************************)
(* Sweeps that end together may write the marker out of order, but once a  *)
(* process has one, and no sweep is about to write it, it is not further   *)
(* behind the last end of a sweep than the time it takes to assign it.     *)
(***************************************************************************)
MarkerFollows ==
  marker # 0 /\ (\A t \in Thread : sweep[t] # "global") =>
    \A end \in finished : end - marker <= MaxDelay

(***************************************************************************)
(* inbound.enabled = false: neither the task nor poll_inbox touches a      *)
(* mailbox.                                                                *)
(***************************************************************************)
DisabledMeansIdle ==
  ~ deployed.enabled =>
    /\ pollTask = "off"
    /\ \A t \in Thread : sweep[t] \in {"none", "begin", "returned", "raised"}

(***************************************************************************)
(* "never let the loop die": a server that is to poll starts one sweep     *)
(* after the other, however many of them fail or hang and whatever it is   *)
(* asked to do meanwhile - provided that it can read its interval and      *)
(* write its log, for what comes before the loop and what its handler does *)
(* are not guarded.                                                        *)
(***************************************************************************)
SweepsForever ==
  Polls(deployed) /\ deployed.sound /\ deployed.logs => []<>(sweep["poller"] = "begin")

(***************************************************************************)
(* Every request is answered, or the process ends, though a handler holds  *)
(* the loop while it waits for Clark.                                      *)
(***************************************************************************)
EveryRequestAnswered == \A r \in Request : want[r] # "none" ~> want[r] = "none"
=============================================================================
