----------------------------- MODULE SendersCache -----------------------------
(***************************************************************************)
(* The allow-list cache of clark_client.py as the threads of one process   *)
(* use it: fetch_authorized_senders without a lock.  The list and the time *)
(* it is filed under are two module globals, assigned one after the other; *)
(* the list is read again on return.  A list is represented by the time at *)
(* which Clark served it, the empty list a process starts with by 0.       *)
(***************************************************************************)
EXTENDS Integers

CONSTANTS
  Thread,    \* the threads that ask for the list
  Ttl,       \* CLARK_SENDERS_TTL, in Nat
  MaxDelay,  \* the longest a call takes, all attempts of _request included
  MaxTime    \* bound: the last value of the clock

VARIABLES
  clock,
  senders,    \* _senders_cache
  stamp,      \* _senders_cache_ts, 0 before the first list
  phase,      \* phase[t]: how far the call of thread t is, "out" without one
  began,      \* began[t]: the local variable now
  got         \* got[t]: the list in the answer to t

cacheVars == <<senders, stamp, phase, began, got>>
vars == <<clock, cacheVars>>

Time == 0..MaxTime

TypeOK ==
  /\ clock \in Time \ {0}
  /\ senders \in Time /\ stamp \in Time
  /\ phase \in [Thread -> {"out", "hit", "asked", "answered", "half", "back"}]
  /\ began \in [Thread -> Time]
  /\ got \in [Thread -> Time]

NoCall == [t \in Thread |-> "out"]
NoTime == [t \in Thread |-> 0]

Init ==
  /\ clock = 1
  /\ senders = 0 /\ stamp = 0
  /\ phase = NoCall /\ began = NoTime /\ got = NoTime

Goto(t, p) == phase' = [phase EXCEPT ![t] = p]

-----------------------------------------------------------------------------
Fresh == stamp # 0 /\ clock - stamp < Ttl

(***************************************************************************)
(* now is taken before anything else; it is what a list that is fetched    *)
(* will be filed under.                                                    *)
(***************************************************************************)
Look(t) ==
  /\ phase[t] = "out"
  /\ began' = [began EXCEPT ![t] = clock]
  /\ Goto(t, IF Fresh THEN "hit" ELSE "asked")
  /\ UNCHANGED <<clock, senders, stamp, got>>

ClarkServes(t) ==
  /\ phase[t] = "asked"
  /\ got' = [got EXCEPT ![t] = clock]
  /\ Goto(t, "answered")
  /\ UNCHANGED <<clock, senders, stamp, began>>

\* Slips: a failed refresh that counts as one, so as not to ask again at
\* once; a request without a timeout.
FailAndWait(t) ==
  /\ phase[t] \in {"asked", "answered"}
  /\ Goto(t, "back")
  /\ stamp' = began[t]
  /\ UNCHANGED <<clock, senders, began, got>>

FailOnAnswer(t) ==
  /\ phase[t] = "answered"
  /\ Goto(t, "back")
  /\ UNCHANGED <<clock, senders, stamp, began, got>>

(***************************************************************************)
(* No URL, no answer in time, not a 2xx or not the JSON expected: whatever *)
(* list there is stays and is returned.                                    *)
(***************************************************************************)
Fail(t) ==
  /\ phase[t] \in {"asked", "answered"}
  /\ Goto(t, "back")
  /\ UNCHANGED <<clock, senders, stamp, began, got>>

StoreList(t) ==
  /\ phase[t] = "answered"
  /\ senders' = got[t]
  /\ Goto(t, "half")
  /\ UNCHANGED <<clock, stamp, began, got>>

StoreTime(t) ==
  /\ phase[t] = "half"
  /\ stamp' = began[t]
  /\ Goto(t, "back")
  /\ UNCHANGED <<clock, senders, began, got>>

(***************************************************************************)
(* The list returned is the one in the global now.                         *)
(***************************************************************************)
Return(t) ==
  /\ phase[t] \in {"hit", "back"}
  /\ Goto(t, "out")
  /\ began' = [began EXCEPT ![t] = 0]
  /\ got' = [got EXCEPT ![t] = 0]
  /\ UNCHANGED <<clock, senders, stamp>>

(***************************************************************************)
(* Time passes, but no call outlives MaxDelay.                             *)
(***************************************************************************)
InTime == \A t \in Thread : phase[t] # "out" => clock < began[t] + MaxDelay

Tick ==
  /\ clock < MaxTime
  /\ InTime
  /\ clock' = clock + 1
  /\ UNCHANGED cacheVars

-----------------------------------------------------------------------------
(* A call goes on by itself, whether Clark answers or not. *)
GoOn(t) == Fail(t) \/ StoreList(t) \/ StoreTime(t)

Next ==
  \/ \E t \in Thread : Look(t) \/ ClarkServes(t) \/ GoOn(t) \/ Return(t)
  \/ Tick

Spec == Init /\ [][Next]_vars

-----------------------------------------------------------------------------
(* Properties *)

(***************************************************************************)
(* A list returned from the cache was served by Clark less than Ttl +      *)
(* MaxDelay before it was asked for, and is never the empty one of a       *)
(* process that has fetched nothing, although two threads may refresh list *)
(* and time at once and leave the list of one under the time of the other. *)
(* With one thread the bound would be Ttl.                                 *)
(***************************************************************************)
ListLag ==
  \A t \in Thread :
    phase[t] = "hit" => senders # 0 /\ began[t] - senders < Ttl + MaxDelay
=============================================================================
