-------------------------- MODULE LocalServerProofs --------------------------
(***************************************************************************)
(* Proofs about LocalServer, for any number of requests and mailboxes and  *)
(* any delays.                                                             *)
(***************************************************************************)
EXTENDS LocalServer, TLAPS

(***************************************************************************)
(* The steps by what they leave alone: those of a call for the list, those *)
(* that have no such call in them, and the end of the process.             *)
(***************************************************************************)
Calls(t) ==
  \/ Cache!Look(t) \/ Cache!ClarkServes(t) \/ Cache!Fail(t)
  \/ Cache!StoreList(t) \/ Cache!StoreTime(t) \/ Cache!Return(t)

LEMMA CacheSteps ==
  ASSUME [Next]_vars
  PROVE  \/ \E t \in Thread : Calls(t)
         \/ Tick
         \/ NewProcess
         \/ UNCHANGED cacheVars
<1> USE DEF Calls
<1>1. ASSUME LoopStep PROVE (\E t \in Thread : Calls(t)) \/ UNCHANGED cacheVars
  BY <1>1 DEF LoopStep, IntervalRaises, StartThread, FallAsleep, TakeUp, Health,
     VerifySender, PollInbox, Thread
<1>2. ASSUME ThreadEnds \/ HandlerRaises \/ TimerFires PROVE UNCHANGED cacheVars
  BY <1>2 DEF ThreadEnds, HandlerRaises, TimerFires
<1>3. ASSUME Startup \/ Killed PROVE NewProcess
  BY <1>3 DEF Startup, Killed
<1>4. ASSUME NEW t \in Thread, ThreadStep(t)
      PROVE  (\E u \in Thread : Calls(u)) \/ UNCHANGED cacheVars
  BY <1>4 DEF ThreadStep, SweepStep, CacheStep, BeginSweep, NextMailbox, HaveList,
     MailboxDone, TakeTime, WriteGlobal, ReadGlobal, WriteMeta, Cache!GoOn
<1>5. ASSUME NEW t \in Thread, SweepRaises(t) \/ CacheStep(Cache!ClarkServes(t))
      PROVE  (\E u \in Thread : Calls(u)) \/ UNCHANGED cacheVars
  BY <1>5 DEF SweepRaises, CacheStep
<1>6. ASSUME (\E r \in Request, kind \in Kinds : Arrive(r, kind)) \/ Shutdown
      PROVE  UNCHANGED cacheVars
  BY <1>6 DEF Arrive, Shutdown
<1>7. ASSUME UNCHANGED vars PROVE UNCHANGED cacheVars
  BY <1>7 DEF vars
<1> QED
  BY <1>1, <1>2, <1>3, <1>4, <1>5, <1>6, <1>7 DEF Next, World

-----------------------------------------------------------------------------
(* The allow-list cache *)

(***************************************************************************)
(* What makes ListLag hold.  Whatever is stored was served within MaxDelay *)
(* before, and a time is that of a call that began within MaxDelay before, *)
(* so list and time are never further apart than that, although they may   *)
(* be those of two calls.                                                  *)
(***************************************************************************)
CallsInTime ==
  \A t \in Thread :
    /\ phase[t] # "out" => /\ 1 <= began[t] /\ began[t] <= clock
                           /\ clock <= began[t] + MaxDelay
    /\ phase[t] = "answered" => began[t] <= got[t] /\ got[t] <= clock
    /\ phase[t] = "hit" => Ttl # 0

ListNearTime ==
  /\ stamp <= clock
  /\ stamp # 0 => senders # 0 /\ stamp - senders <= MaxDelay
  /\ \A t \in Thread :
       phase[t] = "half" => senders # 0 /\ began[t] - senders <= MaxDelay

CacheInv == Cache!TypeOK /\ CallsInTime /\ ListNearTime /\ Cache!ListLag

LEMMA CacheStarts == Init => CacheInv
BY TimeAssumption DEF Init, CacheInv, CallsInTime, ListNearTime, Cache!Init, Cache!TypeOK,
   Cache!Time, Cache!ListLag, Cache!NoCall, Cache!NoTime

LEMMA CallKeepsCacheInv ==
  ASSUME CacheInv, NEW t \in Thread, Calls(t)
  PROVE  CacheInv'
<1> USE TimeAssumption DEF CacheInv, CallsInTime, ListNearTime, Cache!TypeOK, Cache!Time,
        Cache!ListLag, Cache!Goto
<1>1. CASE Cache!Look(t)
  BY <1>1 DEF Cache!Look, Cache!Fresh
<1>2. CASE Cache!ClarkServes(t)
  BY <1>2 DEF Cache!ClarkServes
<1>3. CASE Cache!Fail(t)
  BY <1>3 DEF Cache!Fail
<1>4. CASE Cache!StoreList(t)
  BY <1>4 DEF Cache!StoreList
<1>5. CASE Cache!StoreTime(t)
  BY <1>5 DEF Cache!StoreTime
<1>6. CASE Cache!Return(t)
  BY <1>6 DEF Cache!Return
<1> QED
  BY <1>1, <1>2, <1>3, <1>4, <1>5, <1>6 DEF Calls

LEMMA CacheStep1 == CacheInv /\ [Next]_vars => CacheInv'
<1> SUFFICES ASSUME CacheInv, [Next]_vars PROVE CacheInv'
  OBVIOUS
<1> USE TimeAssumption DEF CacheInv, CallsInTime, ListNearTime, Cache!TypeOK, Cache!Time,
        Cache!ListLag
<1>1. CASE Tick
  BY <1>1 DEF Tick, Cache!Tick, Cache!InTime, Cache!cacheVars
<1>2. CASE NewProcess
  BY <1>2 DEF NewProcess, Cache!NoCall, Cache!NoTime
<1>3. CASE UNCHANGED cacheVars
  BY <1>3 DEF cacheVars
<1> QED
  BY <1>1, <1>2, <1>3, CallKeepsCacheInv, CacheSteps

-----------------------------------------------------------------------------
(* Types *)

LoopTypes ==
  /\ deployed \in Deployments /\ up \in BOOLEAN /\ restarts \in 0..MaxRestarts
  /\ queue \in Seq(Request \union {"poll"})
  /\ running \in Request \union {"none"}
  /\ pollTask \in TaskSteps
  /\ want \in [Request -> Kinds \union {"none"}]

SweepTypes ==
  /\ sweep \in [Thread -> SweepSteps \union {"none"}]
  /\ left \in [Thread -> 0..Mailboxes]
  /\ taken \in [Thread -> Cache!Time]
  /\ marker \in Cache!Time /\ meta \in Cache!Time
  /\ finished \subseteq Cache!Time

LEMMA QueueTypes ==
  /\ <<>> \in Seq(Request \union {"poll"})
  /\ <<"poll">> \in Seq(Request \union {"poll"})
OBVIOUS

LEMMA LoopTypeStep == LoopTypes /\ [Next]_vars => LoopTypes'
<1> SUFFICES ASSUME LoopTypes, [Next]_vars PROVE LoopTypes'
  OBVIOUS
<1> USE SizeAssumption DEF LoopTypes, TaskSteps
<1>1. ASSUME LoopStep PROVE LoopTypes'
  <2>1. CASE IntervalRaises \/ StartThread
    BY <2>1 DEF IntervalRaises, StartThread, Turn, Free, sweepVars, life
  <2>2. CASE FallAsleep
    BY <2>2 DEF FallAsleep, Turn, Free, life
  <2>3. ASSUME NEW r \in Request, TakeUp(r) PROVE LoopTypes'
    BY <2>3 DEF TakeUp, Turn, Free, life
  <2>4. ASSUME NEW r \in Request, Health(r) \/ VerifySender(r) \/ PollInbox(r)
        PROVE  LoopTypes'
    BY <2>4 DEF Health, VerifySender, PollInbox, Answer, loopVars, life
  <2> QED
    BY <1>1, <2>1, <2>2, <2>3, <2>4 DEF LoopStep
<1>2. ASSUME ThreadEnds \/ HandlerRaises \/ TimerFires PROVE LoopTypes'
  <2>1. CASE ThreadEnds \/ TimerFires
    BY <2>1 DEF ThreadEnds, TimerFires, life
  <2>2. CASE HandlerRaises
    BY <2>2 DEF HandlerRaises, life
  <2> QED
    BY <1>2, <2>1, <2>2
<1>3. ASSUME Startup \/ Killed PROVE LoopTypes'
  <2>1. /\ deployed' = deployed /\ up' = TRUE /\ running' = "none"
        /\ want' = [r \in Request |-> "none"]
        /\ pollTask' \in {"ready", "off"} /\ queue' \in {<<>>, <<"poll">>}
    BY <1>3 DEF Startup, Killed, NewProcess
  <2>2. restarts' \in 0..MaxRestarts
    BY <1>3 DEF Startup, Killed
  <2> QED
    BY <2>1, <2>2, QueueTypes
<1>4. ASSUME NEW t \in Thread,
             ThreadStep(t) \/ SweepRaises(t) \/ CacheStep(Cache!ClarkServes(t))
      PROVE  LoopTypes'
  BY <1>4 DEF ThreadStep, SweepStep, CacheStep, BeginSweep, NextMailbox, HaveList,
     MailboxDone, TakeTime, WriteGlobal, ReadGlobal, WriteMeta, SweepRaises, loopVars, life
<1>5. ASSUME NEW r \in Request, NEW kind \in Kinds, Arrive(r, kind) PROVE LoopTypes'
  BY <1>5 DEF Arrive, life
<1>6. ASSUME Shutdown PROVE LoopTypes'
  <2>1. queue' = <<>> /\ pollTask' = "off" /\ UNCHANGED <<deployed, running, want>>
    BY <1>6 DEF Shutdown
  <2>2. restarts' \in 0..MaxRestarts
    BY <1>6 DEF Shutdown
  <2>3. up' \in BOOLEAN
    BY <1>6 DEF Shutdown
  <2> QED
    BY <2>1, <2>2, <2>3, QueueTypes
<1>7. ASSUME Tick \/ UNCHANGED vars PROVE LoopTypes'
  BY <1>7 DEF Tick, vars, loopVars, life
<1> QED
  BY <1>1, <1>2, <1>3, <1>4, <1>5, <1>6, <1>7 DEF Next, World

LEMMA SweepTypeStep ==
  ASSUME SweepTypes, Cache!TypeOK, [Next]_vars
  PROVE  SweepTypes'
<1> USE SizeAssumption, TimeAssumption DEF SweepTypes, SweepSteps, Thread, Cache!TypeOK,
        Cache!Time, Goto
<1>1. ASSUME LoopStep \/ ThreadEnds \/ HandlerRaises \/ TimerFires PROVE SweepTypes'
  BY <1>1 DEF LoopStep, IntervalRaises, StartThread, FallAsleep, TakeUp, Health, VerifySender,
     PollInbox, ThreadEnds, HandlerRaises, TimerFires, sweepVars, marks
<1>2. ASSUME Startup \/ Killed PROVE SweepTypes'
  <2>1. /\ sweep' = NoThreads /\ left' = NoCounts /\ taken' = NoCounts
        /\ marker' = 0 /\ UNCHANGED <<meta, finished>>
    BY <1>2 DEF Startup, Killed, NewProcess
  <2> QED
    BY <2>1 DEF NoThreads, NoCounts
<1>3. ASSUME NEW t \in Thread, ThreadStep(t) PROVE SweepTypes'
  <2>1. CASE BeginSweep(t)
    BY <2>1 DEF BeginSweep, marks
  <2>2. CASE NextMailbox(t)
    BY <2>2 DEF NextMailbox, marks
  <2>3. CASE HaveList(t) \/ MailboxDone(t)
    BY <2>3 DEF HaveList, MailboxDone, marks
  <2>4. CASE TakeTime(t)
    BY <2>4 DEF TakeTime
  <2>5. CASE WriteGlobal(t)
    BY <2>5 DEF WriteGlobal
  <2>6. CASE ReadGlobal(t)
    BY <2>6 DEF ReadGlobal, marks
  <2>7. CASE WriteMeta(t)
    BY <2>7 DEF WriteMeta
  <2>8. CASE CacheStep(Cache!GoOn(t))
    BY <2>8 DEF CacheStep, sweepVars, marks
  <2> QED
    BY <1>3, <2>1, <2>2, <2>3, <2>4, <2>5, <2>6, <2>7, <2>8 DEF ThreadStep, SweepStep
<1>4. ASSUME NEW t \in Thread, SweepRaises(t) \/ CacheStep(Cache!ClarkServes(t))
      PROVE  SweepTypes'
  <2>1. CASE SweepRaises(t)
    BY <2>1 DEF SweepRaises, marks
  <2>2. CASE CacheStep(Cache!ClarkServes(t))
    BY <2>2 DEF CacheStep, sweepVars, marks
  <2> QED
    BY <1>4, <2>1, <2>2
<1>5. ASSUME (\E r \in Request, kind \in Kinds : Arrive(r, kind)) \/ Shutdown \/ Tick
             \/ UNCHANGED vars
      PROVE  SweepTypes'
  BY <1>5 DEF Arrive, Shutdown, Tick, vars, sweepVars, marks
<1> QED
  BY <1>1, <1>2, <1>3, <1>4, <1>5 DEF Next, World

TypeInv == CacheInv /\ LoopTypes /\ SweepTypes

LEMMA TypesHold == TypeInv <=> TypeOK /\ CallsInTime /\ ListNearTime /\ Cache!ListLag
BY DEF TypeInv, TypeOK, CacheInv, LoopTypes, SweepTypes

LEMMA TypeInvariance == Spec => []TypeInv
<1>1. Init => TypeInv
  <2> SUFFICES ASSUME Init PROVE TypeInv
    OBVIOUS
  <2>1. LoopTypes
    <3>1. /\ deployed \in Deployments /\ restarts = 0 /\ running = "none"
          /\ want = [r \in Request |-> "none"]
          /\ pollTask \in {"ready", "off"} /\ queue \in {<<>>, <<"poll">>}
      BY DEF Init
    <3>2. up \in BOOLEAN
      BY DEF Init
    <3>3. restarts \in 0..MaxRestarts /\ pollTask \in TaskSteps
      BY <3>1, SizeAssumption DEF TaskSteps
    <3> QED
      BY <3>1, <3>2, <3>3, QueueTypes DEF LoopTypes
  <2>2. SweepTypes
    BY SizeAssumption, TimeAssumption DEF Init, SweepTypes, SweepSteps, Cache!Time, NoThreads, NoCounts
  <2> QED
    BY <2>1, <2>2, CacheStarts DEF TypeInv
<1>2. TypeInv /\ [Next]_vars => TypeInv'
  BY CacheStep1, LoopTypeStep, SweepTypeStep DEF TypeInv, CacheInv
<1> QED
  BY <1>1, <1>2, PTL DEF Spec

-----------------------------------------------------------------------------
(* The task and its thread *)

(***************************************************************************)
(* The task starts a thread only when the last one has ended.  A process   *)
(* that is not to poll has no task.                                        *)
(***************************************************************************)
OneThread == pollTask \in {"ready", "done", "asleep"} => sweep["poller"] = "none"

LifeInv == OneThread /\ DisabledMeansIdle

LEMMA LifeStep == TypeInv /\ LifeInv /\ [Next]_vars => LifeInv'
<1> SUFFICES ASSUME TypeInv, LifeInv, [Next]_vars PROVE LifeInv'
  OBVIOUS
<1> USE DEF LifeInv, OneThread, DisabledMeansIdle, TypeInv, LoopTypes, SweepTypes,
        TaskSteps, SweepSteps, Thread, Goto, life
<1>1. ASSUME LoopStep PROVE LifeInv'
  <2>1. CASE IntervalRaises \/ StartThread
    BY <2>1 DEF IntervalRaises, StartThread, sweepVars
  <2>2. CASE FallAsleep
    BY <2>2 DEF FallAsleep, sweepVars
  <2>3. ASSUME NEW r \in Request, TakeUp(r) \/ Health(r) \/ VerifySender(r) PROVE LifeInv'
    BY <2>3 DEF TakeUp, Health, VerifySender, Answer, sweepVars, loopVars
  <2>4. ASSUME NEW r \in Request, PollInbox(r) PROVE LifeInv'
    BY <2>4 DEF PollInbox, Answer, loopVars
  <2> QED
    BY <1>1, <2>1, <2>2, <2>3, <2>4 DEF LoopStep
<1>2. CASE ThreadEnds \/ HandlerRaises
  BY <1>2 DEF ThreadEnds, HandlerRaises
<1>3. CASE TimerFires
  BY <1>3 DEF TimerFires, sweepVars
<1>4. ASSUME Startup \/ Killed PROVE LifeInv'
  <2>1. /\ sweep' = NoThreads /\ deployed' = deployed
        /\ pollTask' = IF Polls(deployed) THEN "ready" ELSE "off"
    BY <1>4 DEF Startup, Killed, NewProcess
  <2> QED
    BY <2>1 DEF NoThreads, Polls
<1>5. ASSUME NEW t \in Thread, ThreadStep(t) \/ SweepRaises(t) PROVE LifeInv'
  <2>1. CASE BeginSweep(t)
    BY <2>1 DEF BeginSweep, loopVars
  <2>2. CASE NextMailbox(t) \/ HaveList(t) \/ MailboxDone(t)
    BY <2>2 DEF NextMailbox, HaveList, MailboxDone, loopVars
  <2>3. CASE TakeTime(t)
    BY <2>3 DEF TakeTime, loopVars
  <2>4. CASE WriteGlobal(t) \/ ReadGlobal(t) \/ WriteMeta(t)
    BY <2>4 DEF WriteGlobal, ReadGlobal, WriteMeta, loopVars
  <2>5. CASE SweepRaises(t)
    BY <2>5 DEF SweepRaises, loopVars
  <2>6. CASE CacheStep(Cache!GoOn(t))
    BY <2>6 DEF CacheStep, sweepVars, loopVars
  <2> QED
    BY <1>5, <2>1, <2>2, <2>3, <2>4, <2>5, <2>6 DEF ThreadStep, SweepStep
<1>6. ASSUME NEW t \in Thread, CacheStep(Cache!ClarkServes(t)) PROVE LifeInv'
  BY <1>6 DEF CacheStep, sweepVars, loopVars
<1>7. ASSUME (\E r \in Request, kind \in Kinds : Arrive(r, kind)) \/ Shutdown \/ Tick
             \/ UNCHANGED vars
      PROVE  LifeInv'
  <2>1. UNCHANGED <<sweep, deployed>> /\ pollTask' \in {pollTask, "off"}
    BY <1>7 DEF Arrive, Shutdown, Tick, vars, sweepVars, loopVars
  <2> QED
    BY <2>1
<1> QED
  BY <1>1, <1>2, <1>3, <1>4, <1>5, <1>6, <1>7 DEF Next, World

-----------------------------------------------------------------------------
(* The marker *)

(***************************************************************************)
(* A sweep that is about to assign a time has come to its end at that      *)
(* time, less than MaxDelay ago; what it copies to the store is a marker.  *)
(***************************************************************************)
TakenOK ==
  \A t \in Thread :
    /\ sweep[t] = "global" => taken[t] \in finished /\ clock <= taken[t] + MaxDelay
    /\ sweep[t] = "put" => taken[t] \in finished \union {0}

MarkInv ==
  /\ TakenOK
  /\ \A end \in finished : end <= clock
  /\ MarkerTrue
  /\ MarkerFollows

(***************************************************************************)
(* Most steps leave the marker alone and bring no sweep near it.           *)
(***************************************************************************)
Elsewhere ==
  /\ UNCHANGED <<clock, taken, marks>>
  /\ \A t \in Thread : sweep'[t] = "global" <=> sweep[t] = "global"
  /\ \A t \in Thread : sweep'[t] = "put" <=> sweep[t] = "put"

LEMMA ElsewhereKeepsMarkInv ==
  ASSUME MarkInv, Elsewhere
  PROVE  MarkInv'
BY DEF MarkInv, TakenOK, MarkerTrue, MarkerFollows, Elsewhere, marks

LEMMA MarkSteps ==
  ASSUME TypeInv, LifeInv, [Next]_vars
  PROVE  \/ \E t \in Thread : TakeTime(t) \/ WriteGlobal(t) \/ ReadGlobal(t) \/ WriteMeta(t)
         \/ Tick
         \/ NewProcess
         \/ Elsewhere
<1> USE DEF Elsewhere, TypeInv, SweepTypes, Goto, Thread
<1>1. ASSUME LoopStep PROVE Elsewhere
  <2>1. CASE IntervalRaises \/ StartThread
    BY <2>1 DEF IntervalRaises, StartThread, sweepVars, cacheVars, LifeInv, OneThread
  <2>2. CASE FallAsleep
    BY <2>2 DEF FallAsleep, sweepVars, cacheVars
  <2>3. ASSUME NEW r \in Request, TakeUp(r) \/ Health(r) \/ VerifySender(r) PROVE Elsewhere
    BY <2>3 DEF TakeUp, Health, VerifySender, sweepVars, cacheVars, Cache!Look, Cache!Return
  <2>4. ASSUME NEW r \in Request, PollInbox(r) PROVE Elsewhere
    BY <2>4 DEF PollInbox, sweepVars, cacheVars
  <2> QED
    BY <1>1, <2>1, <2>2, <2>3, <2>4 DEF LoopStep
<1>2. ASSUME ThreadEnds \/ HandlerRaises \/ TimerFires PROVE Elsewhere
  BY <1>2 DEF ThreadEnds, HandlerRaises, TimerFires, sweepVars, cacheVars
<1>3. ASSUME Startup \/ Killed PROVE NewProcess
  BY <1>3 DEF Startup, Killed
<1>4. ASSUME NEW t \in Thread, ThreadStep(t)
      PROVE  TakeTime(t) \/ WriteGlobal(t) \/ ReadGlobal(t) \/ WriteMeta(t) \/ Elsewhere
  <2>1. CASE BeginSweep(t)
    BY <2>1 DEF BeginSweep, cacheVars
  <2>2. CASE NextMailbox(t) \/ HaveList(t)
    BY <2>2 DEF NextMailbox, HaveList, Cache!Look, Cache!Return
  <2>3. CASE MailboxDone(t)
    BY <2>3 DEF MailboxDone, cacheVars
  <2>4. CASE CacheStep(Cache!GoOn(t))
    BY <2>4 DEF CacheStep, sweepVars, Cache!GoOn, Cache!Fail, Cache!StoreList, Cache!StoreTime
  <2> QED
    BY <1>4, <2>1, <2>2, <2>3, <2>4 DEF ThreadStep, SweepStep
<1>5. ASSUME NEW t \in Thread, SweepRaises(t) PROVE Elsewhere
  BY <1>5 DEF SweepRaises, cacheVars
<1>6. ASSUME NEW t \in Thread, CacheStep(Cache!ClarkServes(t)) PROVE Elsewhere
  BY <1>6 DEF CacheStep, sweepVars, Cache!ClarkServes
<1>7. ASSUME (\E r \in Request, kind \in Kinds : Arrive(r, kind)) \/ Shutdown \/ UNCHANGED vars
      PROVE  Elsewhere
  <2>1. UNCHANGED <<sweepVars, cacheVars, marks>>
    BY <1>7 DEF Arrive, Shutdown, vars
  <2> QED
    BY <2>1 DEF sweepVars, cacheVars
<1> QED
  BY <1>1, <1>2, <1>3, <1>4, <1>5, <1>6, <1>7 DEF Next, World

LEMMA MarkStep == TypeInv /\ LifeInv /\ MarkInv /\ [Next]_vars => MarkInv'
<1> SUFFICES ASSUME TypeInv, LifeInv, MarkInv, [Next]_vars PROVE MarkInv'
  OBVIOUS
<1> USE TimeAssumption DEF MarkInv, TakenOK, MarkerTrue, MarkerFollows, TypeInv, CacheInv,
        SweepTypes, Cache!TypeOK, Cache!Time
<1>1. ASSUME NEW t \in Thread, TakeTime(t) PROVE MarkInv'
  BY <1>1 DEF TakeTime, Goto, cacheVars
<1>2. ASSUME NEW t \in Thread, WriteGlobal(t) PROVE MarkInv'
  BY <1>2 DEF WriteGlobal, Goto, cacheVars
<1>3. ASSUME NEW t \in Thread, ReadGlobal(t) PROVE MarkInv'
  BY <1>3 DEF ReadGlobal, Goto, cacheVars, marks
<1>4. ASSUME NEW t \in Thread, WriteMeta(t) PROVE MarkInv'
  BY <1>4 DEF WriteMeta, Goto, cacheVars
<1>5. CASE Tick
  BY <1>5 DEF Tick, Cache!Tick, sweepVars, marks
<1>6. CASE NewProcess
  BY <1>6 DEF NewProcess, NoThreads, NoCounts
<1> QED
  BY <1>1, <1>2, <1>3, <1>4, <1>5, <1>6, MarkSteps, ElsewhereKeepsMarkInv

-----------------------------------------------------------------------------
(* Theorems *)

LEMMA LifeInvariance == Spec => []LifeInv
<1>1. Init => LifeInv
  BY DEF Init, LifeInv, OneThread, DisabledMeansIdle, NoThreads, Polls, Thread
<1> QED
  BY <1>1, LifeStep, TypeInvariance, PTL DEF Spec

LEMMA MarkInvariance == Spec => []MarkInv
<1>1. Init => MarkInv
  BY DEF Init, MarkInv, TakenOK, MarkerTrue, MarkerFollows, NoThreads, Thread
<1> QED
  BY <1>1, MarkStep, LifeInvariance, TypeInvariance, PTL DEF Spec

(***************************************************************************)
(* Every variable of the server keeps to its range.                        *)
(***************************************************************************)
THEOREM TypeCorrect == Spec => []TypeOK
BY TypeInvariance, TypesHold, PTL

(***************************************************************************)
(* However the two threads share the allow-list cache, and however slow    *)
(* Clark is, a list from the cache lags less than Ttl + MaxDelay.          *)
(***************************************************************************)
THEOREM LagBounded == Spec => []ListLag
<1>1. TypeInv => ListLag
  BY DEF TypeInv, CacheInv, ListLag
<1> QED
  BY <1>1, TypeInvariance, PTL

(***************************************************************************)
(* /health and the store report only the ends of sweeps.                   *)
(***************************************************************************)
THEOREM MarkerIsTrue == Spec => []MarkerTrue
<1>1. MarkInv => MarkerTrue
  BY DEF MarkInv
<1> QED
  BY <1>1, MarkInvariance, PTL

(***************************************************************************)
(* In whatever order overlapping sweeps write the marker, it is not        *)
(* further behind the last of them than the time that writing takes.       *)
(***************************************************************************)
THEOREM MarkerKeepsUp == Spec => []MarkerFollows
<1>1. MarkInv => MarkerFollows
  BY DEF MarkInv
<1> QED
  BY <1>1, MarkInvariance, PTL

(***************************************************************************)
(* With inbound.enabled = false no sweep touches a mailbox.                *)
(***************************************************************************)
THEOREM DisabledIsIdle == Spec => []DisabledMeansIdle
<1>1. LifeInv => DisabledMeansIdle
  BY DEF LifeInv
<1> QED
  BY <1>1, LifeInvariance, PTL
=============================================================================
