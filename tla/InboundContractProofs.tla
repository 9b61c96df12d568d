------------------------ MODULE InboundContractProofs ------------------------
(***************************************************************************)
(* The sweeps of InboundPoller implement DedupContract, in every instance  *)
(* in which the SDK repeats no delete: each step is one step of the        *)
(* contract, for one key, or leaves its variables alone.  And where        *)
(* nothing makes a sweep walk away, no claim is left behind.               *)
(***************************************************************************)
EXTENDS InboundPollerProofs, FiniteSetTheorems

-----------------------------------------------------------------------------
(* Steps by what they do to claims and holds *)

(***************************************************************************)
(* Sweep t goes on acting under the key it acts under, if any, and does    *)
(* not go back behind an acknowledged POST; or it gives the key up.        *)
(***************************************************************************)
Keeps(t) == /\ pc'[t] \in Holding <=> pc[t] \in Holding
            /\ pc[t] \in Holding => cur'[t] = cur[t]
            /\ pc[t] = "confirm" => pc'[t] = "confirm"

GivesUp(s) == /\ pc[s] \in Holding
              /\ pc'[s] \notin Holding
              /\ \A t \in Container \ {s} : Keeps(t)

(***************************************************************************)
(* What makes a sweep walk away from a claim without a word to the store:  *)
(* a call that raises, the end of the container, a row SQLite refuses, or  *)
(* a copy that the gate cannot digest.                                     *)
(***************************************************************************)
MayWalkAway == \/ "raise" \in Faults \/ "crash" \in Faults
               \/ SqliteRows
               \/ \E c \in Copy : Mail[c].hygiene = "raise"

ClaimStep ==
  \/ claims' = claims /\ \A t \in Container : Keeps(t)
  \/ /\ claims' = claims /\ UNCHANGED clark
     /\ MayWalkAway /\ \E s \in Container : GivesUp(s)
  \/ \E s \in Container, c \in Copy : Claim(s, c) \/ ClaimAnswerLost(s, c)
  \/ \E s \in Container : Settle(s) \/ Confirm(s) \/ Release(s) \/ ReleaseRepeats(s)
  \/ \E k \in Key : TtlExpires(k)

LEMMA ClaimSteps == TypeInv /\ [Next]_vars => ClaimStep
<1> SUFFICES ASSUME TypeInv, [Next]_vars PROVE ClaimStep
  OBVIOUS
<1> USE DEF Keeps, GivesUp, TypeInv, TypeOK, LocalsOK, Holding, Handling, Labels,
            cacheVars, storeVars, worldVars, sweepVars, callVars
<1>1. ASSUME NEW s \in Container, StartSweep(s) PROVE ClaimStep
  <2>1. claims' = claims /\ \A t \in Container : Keeps(t)
    BY <1>1 DEF StartSweep, Goto
  <2> QED
    BY <2>1 DEF ClaimStep
<1>2. ASSUME NEW s \in Container, NextMailbox(s) PROVE ClaimStep
  <2>1. claims' = claims /\ \A t \in Container : Keeps(t)
    BY <1>2 DEF NextMailbox, Goto
  <2> QED
    BY <2>1 DEF ClaimStep
<1>3. ASSUME NEW s \in Container, EndSweep(s) PROVE ClaimStep
  <2>1. claims' = claims /\ \A t \in Container : Keeps(t)
    BY <1>3 DEF EndSweep, Goto
  <2> QED
    BY <2>1 DEF ClaimStep
<1>4. ASSUME NEW s \in Container, ListUnread(s) PROVE ClaimStep
  <2>1. claims' = claims /\ \A t \in Container : Keeps(t)
    BY <1>4 DEF ListUnread, Goto
  <2> QED
    BY <2>1 DEF ClaimStep
<1>5. ASSUME NEW s \in Container, ListFails(s) PROVE ClaimStep
  <2>1. claims' = claims /\ \A t \in Container : Keeps(t)
    BY <1>5 DEF ListFails, Goto
  <2> QED
    BY <2>1 DEF ClaimStep
<1>6. ASSUME NEW s \in Container, MailboxDone(s) PROVE ClaimStep
  <2>1. claims' = claims /\ \A t \in Container : Keeps(t)
    BY <1>6 DEF MailboxDone, Goto
  <2> QED
    BY <2>1 DEF ClaimStep
<1>7. ASSUME NEW s \in Container, NEW c \in Copy, FetchFails(s, c) PROVE ClaimStep
  <2>1. claims' = claims /\ \A t \in Container : Keeps(t)
    BY <1>7 DEF FetchFails, TakeNext
  <2> QED
    BY <2>1 DEF ClaimStep
<1>8. ASSUME NEW s \in Container, NEW c \in Copy, SkipSeen(s, c) PROVE ClaimStep
  <2>1. claims' = claims /\ \A t \in Container : Keeps(t)
    BY <1>8 DEF SkipSeen, TakeNext
  <2> QED
    BY <2>1 DEF ClaimStep
<1>9. ASSUME NEW s \in Container, GateIgnores(s) PROVE ClaimStep
  <2>1. claims' = claims /\ UNCHANGED clark
    BY <1>9 DEF GateIgnores, GateDiscards
  <2>2. (\A t \in Container : Keeps(t)) \/ (GivesUp(s) /\ MayWalkAway)
    BY <1>9 DEF GateIgnores, GateDiscards, Proceed, Return, Enter, Goto, Fault, MayWalkAway
  <2> QED
    BY <2>1, <2>2 DEF ClaimStep
<1>10. ASSUME NEW s \in Container, GateDrops(s) PROVE ClaimStep
  <2>1. claims' = claims /\ UNCHANGED clark
    BY <1>10 DEF GateDrops, GateDiscards
  <2>2. (\A t \in Container : Keeps(t)) \/ (GivesUp(s) /\ MayWalkAway)
    BY <1>10 DEF GateDrops, GateDiscards, Proceed, Return, Enter, Goto, Fault, MayWalkAway
  <2> QED
    BY <2>1, <2>2 DEF ClaimStep
<1>11. ASSUME NEW s \in Container, GateRaises(s) PROVE ClaimStep
  <2>1. claims' = claims /\ UNCHANGED clark
    BY <1>11 DEF GateRaises, Return, Enter, Goto
  <2>2. (\A t \in Container : Keeps(t)) \/ (GivesUp(s) /\ MayWalkAway)
    BY <1>11 DEF GateRaises, Return, Enter, Goto, MayWalkAway
  <2> QED
    BY <2>1, <2>2 DEF ClaimStep
<1>12. ASSUME NEW s \in Container, GatePasses(s) PROVE ClaimStep
  <2>1. claims' = claims /\ \A t \in Container : Keeps(t)
    BY <1>12 DEF GatePasses, Goto
  <2> QED
    BY <2>1 DEF ClaimStep
<1>13. ASSUME NEW s \in Container, Record(s) PROVE ClaimStep
  <2>1. /\ claims' = claims /\ UNCHANGED clark
        /\ pc[s] = "record" /\ \E g \in GatewayId : Proceed(s, "post", g, None)
    BY <1>13 DEF Record, Unused
  <2>2. (\A t \in Container : Keeps(t)) \/ (GivesUp(s) /\ MayWalkAway)
    BY <2>1 DEF Proceed, Return, Enter, Goto, Fault, MayWalkAway
  <2> QED
    BY <2>1, <2>2 DEF ClaimStep
<1>14. ASSUME NEW s \in Container, RecordConflicts(s) PROVE ClaimStep
  <2>1. claims' = claims /\ UNCHANGED clark
    BY <1>14 DEF RecordConflicts, Return, Enter, Goto
  <2>2. (\A t \in Container : Keeps(t)) \/ (GivesUp(s) /\ MayWalkAway)
    BY <1>14 DEF RecordConflicts, Return, Enter, Goto, RowConflict, MayWalkAway
  <2> QED
    BY <2>1, <2>2 DEF ClaimStep
<1>15. ASSUME NEW s \in Container, PostAccepted(s) PROVE ClaimStep
  <2>1. claims' = claims /\ \A t \in Container : Keeps(t)
    BY <1>15 DEF PostAccepted, Goto
  <2> QED
    BY <2>1 DEF ClaimStep
<1>16. ASSUME NEW s \in Container, NEW v \in {"rejected", "send_error"}, PostFails(s, v)
       PROVE ClaimStep
  <2>1. claims' = claims /\ \A t \in Container : Keeps(t)
    BY <1>16 DEF PostFails, Enter, Goto
  <2> QED
    BY <2>1 DEF ClaimStep
<1>17. ASSUME NEW s \in Container, NEW v \in {"rejected", "send_error"}, PostReplyLost(s, v)
       PROVE ClaimStep
  <2>1. claims' = claims /\ \A t \in Container : Keeps(t)
    BY <1>17 DEF PostReplyLost, Enter, Goto
  <2> QED
    BY <2>1 DEF ClaimStep
<1>18. ASSUME NEW s \in Container, UpdateAcked(s) PROVE ClaimStep
  <2>1. claims' = claims /\ \A t \in Container : Keeps(t)
    BY <1>18 DEF UpdateAcked, Proceed, Return, Enter, Goto
  <2> QED
    BY <2>1 DEF ClaimStep
<1>19. ASSUME NEW s \in Container, MarkAcked(s) PROVE ClaimStep
  <2>1. claims' = claims /\ \A t \in Container : Keeps(t)
    BY <1>19 DEF MarkAcked, Finish, Return, Enter, Goto
  <2> QED
    BY <2>1 DEF ClaimStep
<1>20. ASSUME NEW s \in Container, NoteFailure(s) PROVE ClaimStep
  <2>1. claims' = claims /\ \A t \in Container : Keeps(t)
    BY <1>20 DEF NoteFailure, Finish, Return, Enter, Goto
  <2> QED
    BY <2>1 DEF ClaimStep
<1>21. ASSUME NEW s \in Container, CallRaises(s) PROVE ClaimStep
  <2>1. claims' = claims /\ UNCHANGED clark
    BY <1>21 DEF CallRaises, Return, Enter, Goto
  <2>2. (\A t \in Container : Keeps(t)) \/ (GivesUp(s) /\ MayWalkAway)
    BY <1>21 DEF CallRaises, Return, Enter, Goto, Fault, MayWalkAway
  <2> QED
    BY <2>1, <2>2 DEF ClaimStep
<1>22. ASSUME NEW s \in Container, Crash(s) PROVE ClaimStep
  <2>1. claims' = claims /\ UNCHANGED clark
    BY <1>22 DEF Crash, Reset, Enter, Goto
  <2>2. (\A t \in Container : Keeps(t)) \/ (GivesUp(s) /\ MayWalkAway)
    BY <1>22 DEF Crash, Reset, Enter, Goto, Fault, MayWalkAway
  <2> QED
    BY <2>1, <2>2 DEF ClaimStep
<1>23. ASSUME NEW s \in Container, Recycle(s) PROVE ClaimStep
  <2>1. claims' = claims /\ \A t \in Container : Keeps(t)
    BY <1>23 DEF Recycle, Reset, Enter, Goto
  <2> QED
    BY <2>1 DEF ClaimStep
<1>24. ASSUME NEW s \in Container, CacheExpires(s) PROVE ClaimStep
  <2>1. claims' = claims /\ \A t \in Container : Keeps(t)
    BY <1>24 DEF CacheExpires
  <2> QED
    BY <2>1 DEF ClaimStep
<1>25. ASSUME NEW s \in Container, VerifySender(s) PROVE ClaimStep
  <2>1. claims' = claims /\ \A t \in Container : Keeps(t)
    BY <1>25 DEF VerifySender
  <2> QED
    BY <2>1 DEF ClaimStep
<1>26. ASSUME NEW c \in Copy, Deliver(c) PROVE ClaimStep
  <2>1. claims' = claims /\ \A t \in Container : Keeps(t)
    BY <1>26 DEF Deliver
  <2> QED
    BY <2>1 DEF ClaimStep
<1>27. ASSUME NEW u \in Url, Authorize(u) PROVE ClaimStep
  <2>1. claims' = claims /\ \A t \in Container : Keeps(t)
    BY <1>27 DEF Authorize
  <2> QED
    BY <2>1 DEF ClaimStep
<1>28. CASE UNCHANGED vars
  <2>1. claims' = claims /\ \A t \in Container : Keeps(t)
    BY <1>28 DEF vars
  <2> QED
    BY <2>1 DEF ClaimStep
<1>29. ASSUME \/ \E s \in Container, c \in Copy : Claim(s, c) \/ ClaimAnswerLost(s, c)
              \/ \E s \in Container : Settle(s) \/ Confirm(s) \/ Release(s) \/ ReleaseRepeats(s)
              \/ \E k \in Key : TtlExpires(k)
       PROVE ClaimStep
  BY <1>29 DEF ClaimStep
<1> HIDE DEF Keeps, GivesUp, TypeInv, TypeOK, LocalsOK, Holding, Handling, Labels,
             cacheVars, storeVars, worldVars, sweepVars, callVars
<1> QED
  BY <1>1, <1>2, <1>3, <1>4, <1>5, <1>6, <1>7, <1>8, <1>9, <1>10, <1>11, <1>12,
     <1>13, <1>14, <1>15, <1>16, <1>17, <1>18, <1>19, <1>20, <1>21, <1>22, <1>23,
     <1>24, <1>25, <1>26, <1>27, <1>28, <1>29
     DEF Next, Sweep, Life, World, Message, Posting

-----------------------------------------------------------------------------
(* The contract's variables *)

(***************************************************************************)
(* The contract's variables, key by key.                                   *)
(***************************************************************************)
StateOf(k) == CASE claims[k] = "none" -> "free"
                [] claims[k] = "claimed" -> "claimed"
                [] OTHER -> "done"

Owners(k) == {s \in Container : Holds(s, k)}

(***************************************************************************)
(* An envelope Clark has was built from a copy.                            *)
(***************************************************************************)
FromCopy == \A g \in GatewayId : clark[g] # "none" => origin[g] \in Copy

LEMMA FromCopyStep == TypeInv /\ FromCopy /\ [Next]_vars => FromCopy'
<1> SUFFICES ASSUME TypeInv, FromCopy, [Next]_vars,
                    NEW g \in GatewayId, clark'[g] # "none"
             PROVE  origin'[g] \in Copy
  BY DEF FromCopy
<1>1. origin[g] \in Copy
  <2>1. CASE clark[g] # "none"
    BY <2>1 DEF FromCopy
  <2>2. ASSUME NEW s \in Container, clark[g] = "none",
               PostAccepted(s) \/ \E v \in {"rejected", "send_error"} : PostReplyLost(s, v)
        PROVE  origin[g] \in Copy
    <3>1. pc[s] = "post" /\ gid[s] = g
      BY <2>2 DEF PostAccepted, PostReplyLost, TypeInv, TypeOK
    <3> QED
      BY <3>1 DEF TypeInv, LocalsOK, Handling
  <2> QED
    BY <2>1, <2>2, ForwardSteps DEF ForwardStep
<1> QED
  BY <1>1, ForwardSteps, NoneAssumption DEF ForwardStep

(***************************************************************************)
(* What is forwarded under a key changes by a POST alone, and then by the  *)
(* envelope of its sweep under the key that sweep holds.                   *)
(***************************************************************************)
LEMMA ForwardsStep ==
  ASSUME TypeInv, FromCopy, [Next]_vars
  PROVE  \/ \A k \in Key : Forwards(k)' = Forwards(k)
         \/ \E s \in Container : \E k \in Key :
              /\ PostAccepted(s) \/ \E v \in {"rejected", "send_error"} : PostReplyLost(s, v)
              /\ Holds(s, k) /\ gid[s] \in GatewayId
              /\ \A j \in Key : Forwards(j)' =
                   IF j = k THEN Forwards(j) \union {gid[s]} ELSE Forwards(j)
<1>1. \A g \in GatewayId : clark[g] # "none" => DedupKey(origin'[g]) = DedupKey(origin[g])
  BY ForwardSteps, NoneAssumption DEF ForwardStep, FromCopy
<1>2. \A k : Forwards(k)' = {g \in GatewayId : clark'[g] # "none" /\ DedupKey(origin'[g]) = k}
  BY DEF Forwards, KeyOf, DedupKey
<1>3. \A k : Forwards(k) = {g \in GatewayId : clark[g] # "none" /\ DedupKey(origin[g]) = k}
  BY DEF Forwards, KeyOf
<1>4. CASE UNCHANGED clark
  BY <1>1, <1>2, <1>3, <1>4
<1>5. ASSUME NEW s \in Container,
             PostAccepted(s) \/ \E v \in {"rejected", "send_error"} : PostReplyLost(s, v)
      PROVE  \E k \in Key :
              /\ Holds(s, k) /\ gid[s] \in GatewayId
              /\ \A j \in Key : Forwards(j)' =
                   IF j = k THEN Forwards(j) \union {gid[s]} ELSE Forwards(j)
  <2>1. /\ pc[s] = "post" /\ origin' = origin
        /\ \E a \in {"acked", "lost"} : clark' = [clark EXCEPT ![gid[s]] = a]
    BY <1>5 DEF PostAccepted, PostReplyLost, storeVars
  <2>2. /\ gid[s] \in GatewayId /\ cur[s] \in Copy /\ DedupKey(cur[s]) \in Key
        /\ origin[gid[s]] = cur[s]
    BY <2>1, DedupKeyType DEF TypeInv, LocalsOK, Handling
  <2>3. Holds(s, DedupKey(cur[s]))
    BY <2>1 DEF Holds, Holding
  <2>4. \A g \in GatewayId : clark'[g] # "none" <=> clark[g] # "none" \/ g = gid[s]
    BY <2>1, <2>2 DEF TypeInv, TypeOK
  <2>5. \A j \in Key : Forwards(j)' =
          IF j = DedupKey(cur[s]) THEN Forwards(j) \union {gid[s]} ELSE Forwards(j)
    BY <1>2, <1>3, <2>1, <2>2, <2>4
  <2> QED
    BY <2>2, <2>3, <2>5
<1> QED
  BY <1>4, <1>5, ForwardSteps DEF ForwardStep

LEMMA ContractInit == Init => Contract!Init
<1> SUFFICES ASSUME Init PROVE Contract!Init
  OBVIOUS
<1>1. \A k \in Key : claims[k] = "none" /\ Owners(k) = {} /\ Forwards(k) = {}
  BY DEF Init, Owners, Holds, Holding, Forwards
<1> QED
  BY <1>1 DEF Contract!Init, Owners

(***************************************************************************)
(* Contract steps from what they do to each key.                           *)
(***************************************************************************)
SameBut(k) == \A j \in Key \ {k} : StateOf(j)' = StateOf(j) /\ Owners(j)' = Owners(j)

LEMMA ContractMoves ==
  ASSUME NEW k \in Key, SameBut(k), \A j \in Key : Forwards(j)' = Forwards(j)
  PROVE  /\ StateOf(k) = "free" /\ StateOf(k)' = "claimed" /\ Owners(k)' = Owners(k)
              => Contract!Mislay(k)
         /\ StateOf(k) # "free" /\ Owners(k) = {} /\ StateOf(k)' = "free" /\ Owners(k)' = {}
              => Contract!Expire(k)
         /\ \A w \in Container :
              /\ StateOf(k) = "free" /\ StateOf(k)' = "claimed" /\ Owners(k)' = {w}
                   => Contract!Win(w, k)
              /\ w \in Owners(k) /\ StateOf(k)' = "free" /\ Owners(k)' = {}
                   => Contract!Release(w, k)
              /\ w \in Owners(k) /\ StateOf(k)' = "done" /\ Owners(k)' = {}
                   => Contract!Finish(w, k)
              /\ w \in Owners(k) /\ StateOf(k)' = StateOf(k) /\ Owners(k)' = Owners(k) \ {w}
                   => Contract!Abandon(w, k)
<1> DEFINE state == [j \in Key |-> StateOf(j)]
           owners == [j \in Key |-> Owners(j)]
           forwarded == [j \in Key |-> Forwards(j)]
<1>1. \A j \in Key : j # k => StateOf(j)' = StateOf(j) /\ Owners(j)' = Owners(j)
  BY DEF SameBut
<1>2. forwarded' = forwarded
  OBVIOUS
<1>3. state' = [state EXCEPT ![k] = StateOf(k)']
  BY <1>1
<1>4. owners' = [owners EXCEPT ![k] = Owners(k)']
  BY <1>1
<1>5. StateOf(k) = StateOf(k)' => state' = state
  BY <1>1
<1>6. Owners(k) = Owners(k)' => owners' = owners
  BY <1>1
<1>7. state[k] = StateOf(k) /\ owners[k] = Owners(k)
  OBVIOUS
<1>8. /\ state = [j \in Key |-> CASE claims[j] = "none" -> "free"
                                  [] claims[j] = "claimed" -> "claimed"
                                  [] OTHER -> "done"]
      /\ owners = [j \in Key |-> {s \in Container : Holds(s, j)}]
      /\ forwarded = [j \in Key |-> Forwards(j)]
  BY DEF StateOf, Owners
<1>9. /\ state' = [j \in Key |-> CASE claims[j] = "none" -> "free"
                                  [] claims[j] = "claimed" -> "claimed"
                                  [] OTHER -> "done"]'
      /\ owners' = [j \in Key |-> {s \in Container : Holds(s, j)}]'
      /\ forwarded' = [j \in Key |-> Forwards(j)]'
  BY DEF StateOf, Owners
<1> HIDE DEF state, owners, forwarded
<1> QED
  BY <1>2, <1>3, <1>4, <1>5, <1>6, <1>7, <1>8, <1>9
     DEF Contract!Win, Contract!Mislay, Contract!Release, Contract!Finish, Contract!Abandon,
         Contract!Expire

LEMMA ForwardsSame ==
  ASSUME TypeInv, FromCopy, [Next]_vars, UNCHANGED clark
  PROVE  \A k \in Key : Forwards(k)' = Forwards(k)
<1>1. \A g \in GatewayId : clark[g] # "none" => DedupKey(origin'[g]) = DedupKey(origin[g])
  BY ForwardSteps, NoneAssumption DEF ForwardStep, FromCopy
<1>2. \A k : Forwards(k)' = {g \in GatewayId : clark'[g] # "none" /\ DedupKey(origin'[g]) = k}
  BY DEF Forwards, KeyOf, DedupKey
<1>3. \A k : Forwards(k) = {g \in GatewayId : clark[g] # "none" /\ DedupKey(origin[g]) = k}
  BY DEF Forwards, KeyOf
<1> QED
  BY <1>1, <1>2, <1>3

LEMMA StateSame ==
  ASSUME NEW k, claims'[k] = claims[k]
  PROVE  StateOf(k)' = StateOf(k)
BY DEF StateOf

LEMMA KeepsHolds ==
  ASSUME NEW t \in Container, Keeps(t), NEW k
  PROVE  Holds(t, k)' <=> Holds(t, k)
BY DEF Keeps, Holds, DedupKey

(***************************************************************************)
(* A sweep that gives its key up leaves the owners of that key, and no     *)
(* other set of owners changes.                                            *)
(***************************************************************************)
LEMMA GivesUpOwners ==
  ASSUME TypeInv, NEW s \in Container, GivesUp(s)
  PROVE  \E k \in Key :
           /\ k = DedupKey(cur[s])
           /\ s \in Owners(k)
           /\ Owners(k)' = Owners(k) \ {s}
           /\ \A j \in Key \ {k} : Owners(j)' = Owners(j)
<1>1. cur[s] \in Copy /\ pc[s] \in Holding /\ pc'[s] \notin Holding
  BY DEF GivesUp, TypeInv, LocalsOK, Holding, Handling
<1>2. PICK k \in Key : k = DedupKey(cur[s])
  BY <1>1, DedupKeyType
<1>3. \A j : /\ Holds(s, j) <=> j = k
             /\ ~ Holds(s, j)'
  BY <1>1, <1>2 DEF Holds
<1>4. \A t \in Container \ {s} : \A j : Holds(t, j)' <=> Holds(t, j)
  BY KeepsHolds DEF GivesUp
<1>5. \A j : Owners(j) = {t \in Container : Holds(t, j)}
  BY DEF Owners
<1>6. \A j : Owners(j)' = {t \in Container : Holds(t, j)'}
  BY DEF Owners
<1>7. /\ s \in Owners(k)
      /\ Owners(k)' = Owners(k) \ {s}
      /\ \A j \in Key \ {k} : Owners(j)' = Owners(j)
  BY <1>3, <1>4, <1>5, <1>6
<1> QED
  BY <1>2, <1>7

LEMMA OnlyOwner ==
  ASSUME ClaimExclusive, NEW k \in Key, NEW s \in Owners(k)
  PROVE  Owners(k) = {s}
BY DEF ClaimExclusive, Owners

(***************************************************************************)
(* A store call that ends the hold of s on its key.                        *)
(***************************************************************************)
LEMMA EndsHold ==
  ASSUME TypeInv, ClaimExclusive, NEW s \in Container, GivesUp(s), NEW v,
         claims' = [claims EXCEPT ![DedupKey(cur[s])] = v],
         \A j \in Key : Forwards(j)' = Forwards(j)
  PROVE  \E k \in Key : /\ v = "none" => Contract!Release(s, k)
                        /\ v \in Tombstone => Contract!Finish(s, k)
<1>1. PICK k \in Key :
        /\ k = DedupKey(cur[s]) /\ s \in Owners(k)
        /\ Owners(k)' = Owners(k) \ {s}
        /\ \A j \in Key \ {k} : Owners(j)' = Owners(j)
  BY GivesUpOwners
<1>2. claims' = [claims EXCEPT ![k] = v] /\ claims \in [Key -> {"none", "claimed"} \union Tombstone]
  BY <1>1 DEF TypeInv, TypeOK
<1>3. claims'[k] = v /\ \A j \in Key \ {k} : claims'[j] = claims[j]
  BY <1>1, <1>2
<1>4. Owners(k)' = {}
  BY <1>1, OnlyOwner
<1>5. SameBut(k)
  BY <1>1, <1>3, StateSame DEF SameBut
<1>6. /\ v = "none" => StateOf(k)' = "free"
      /\ v \in Tombstone => StateOf(k)' = "done"
  BY <1>3 DEF StateOf, Tombstone
<1>7. /\ StateOf(k)' = "free" => Contract!Release(s, k)
      /\ StateOf(k)' = "done" => Contract!Finish(s, k)
  BY <1>1, <1>4, <1>5, ContractMoves
<1> QED
  BY <1>1, <1>6, <1>7

LEMMA EndsUp ==
  ASSUME TypeInv, NEW s \in Container, Settle(s) \/ Confirm(s) \/ Release(s)
  PROVE  GivesUp(s)
<1>1. /\ pc[s] \in Holding
      /\ pc \in [Container -> Labels] /\ cur \in [Container -> Copy \union {None}]
  BY DEF Settle, Confirm, Release, Holding, TypeInv, TypeOK
<1>2. \E label \in {"message", "update", "note"} : \E c :
        pc' = [pc EXCEPT ![s] = label] /\ cur' = [cur EXCEPT ![s] = c]
  BY DEF Settle, Confirm, Release, Finish, Proceed, Return, Enter, Goto
<1> QED
  BY <1>1, <1>2 DEF GivesUp, Keeps, Holding

LEMMA ContractStep ==
  ASSUME "repeat_release" \notin Faults
  PROVE  TypeInv /\ ClaimExclusive /\ FromCopy /\ [Next]_vars
           => [Contract!Next]_(Contract!vars)
<1> SUFFICES ASSUME TypeInv, ClaimExclusive, FromCopy, [Next]_vars
             PROVE  Contract!Next \/ UNCHANGED Contract!vars
  OBVIOUS
<1>1. ASSUME claims' = claims, \A t \in Container : Keeps(t)
      PROVE  Contract!Next \/ UNCHANGED Contract!vars
  <2>1. \A k \in Key : StateOf(k)' = StateOf(k)
    BY <1>1, StateSame
  <2>2. \A k \in Key : Owners(k)' = Owners(k)
    <3>1. \A k : \A t \in Container : Holds(t, k)' <=> Holds(t, k)
      BY <1>1, KeepsHolds
    <3> QED
      BY <3>1 DEF Owners
  <2>3. CASE \A k \in Key : Forwards(k)' = Forwards(k)
    BY <2>1, <2>2, <2>3 DEF Contract!vars, StateOf, Owners
  <2>4. ASSUME NEW s \in Container, NEW k \in Key, Holds(s, k), gid[s] \in GatewayId,
               \A j \in Key : Forwards(j)' =
                 IF j = k THEN Forwards(j) \union {gid[s]} ELSE Forwards(j)
        PROVE  Contract!Forward(s, k, gid[s])
    BY <2>1, <2>2, <2>4 DEF Contract!Forward, StateOf, Owners
  <2>5. ASSUME NEW s \in Container, NEW k \in Key, gid[s] \in GatewayId,
               Contract!Forward(s, k, gid[s])
        PROVE  Contract!Next
    BY <2>5 DEF Contract!Next
  <2> QED
    BY <2>3, <2>4, <2>5, ForwardsStep
<1>2. ASSUME NEW s \in Container, GivesUp(s), claims' = claims, UNCHANGED clark
      PROVE  Contract!Next
  <2>1. PICK k \in Key :
          /\ s \in Owners(k)
          /\ Owners(k)' = Owners(k) \ {s}
          /\ \A j \in Key \ {k} : Owners(j)' = Owners(j)
    BY <1>2, GivesUpOwners
  <2>2. \A j \in Key : StateOf(j)' = StateOf(j)
    BY <1>2, StateSame
  <2>3. SameBut(k)
    BY <2>1, <2>2 DEF SameBut
  <2>4. Contract!Abandon(s, k)
    BY <1>2, <2>1, <2>2, <2>3, ForwardsSame, ContractMoves
  <2> QED
    BY <2>1, <2>4 DEF Contract!Next
<1>3. ASSUME NEW s \in Container, NEW c \in Copy, Claim(s, c) \/ ClaimAnswerLost(s, c)
      PROVE  Contract!Next
  <2> DEFINE k == DedupKey(c)
  <2>1. /\ k \in Key /\ claims[k] = "none"
        /\ claims' = [claims EXCEPT ![k] = "claimed"] /\ UNCHANGED clark
    BY <1>3, DedupKeyType DEF Claim, ClaimAnswerLost, TakeNext, Claimable, ClaimMessage, worldVars
  <2>2. /\ Claim(s, c) => /\ pc[s] = "message" /\ pc' = [pc EXCEPT ![s] = "gate"]
                          /\ cur' = [cur EXCEPT ![s] = c]
        /\ ClaimAnswerLost(s, c) => UNCHANGED <<pc, cur>>
    BY DEF Claim, ClaimAnswerLost, TakeNext, Enter, Goto, callVars
  <2>3. pc \in [Container -> Labels] /\ cur \in [Container -> Copy \union {None}]
        /\ claims \in [Key -> {"none", "claimed"} \union Tombstone]
    BY DEF TypeInv, TypeOK
  <2> HIDE DEF k
  <2>4. StateOf(k) = "free" /\ StateOf(k)' = "claimed" /\ Owners(k) = {}
    BY <2>1, <2>3 DEF StateOf, Owners, ClaimExclusive
  <2>5. \A j \in Key \ {k} : StateOf(j)' = StateOf(j)
    BY <2>1, <2>3, StateSame
  <2>6. \A j \in Key : Forwards(j)' = Forwards(j)
    BY <2>1, ForwardsSame
  <2>7. CASE Claim(s, c)
    <3>1. /\ \A t \in Container \ {s} : pc'[t] = pc[t] /\ cur'[t] = cur[t]
          /\ pc[s] = "message" /\ pc'[s] = "gate" /\ cur'[s] = c
      BY <2>2, <2>3, <2>7
    <3>2. \A j : \A t \in Container \ {s} : Holds(t, j)' <=> Holds(t, j)
      BY <3>1 DEF Holds, DedupKey
    <3>3. \A j : ~ Holds(s, j) /\ (Holds(s, j)' <=> j = k)
      BY <3>1 DEF Holds, Holding, DedupKey, k
    <3>4. Owners(k)' = {s} /\ \A j \in Key \ {k} : Owners(j)' = Owners(j)
      BY <2>4, <3>2, <3>3 DEF Owners
    <3>5. Contract!Win(s, k)
      BY <2>1, <2>4, <2>5, <2>6, <3>4, ContractMoves DEF SameBut
    <3> QED
      BY <2>1, <3>5 DEF Contract!Next
  <2>8. CASE ClaimAnswerLost(s, c)
    <3>1. \A j \in Key : Owners(j)' = Owners(j)
      BY <2>2, <2>8 DEF Owners, Holds, DedupKey
    <3>2. Contract!Mislay(k)
      BY <2>1, <2>4, <2>5, <2>6, <3>1, ContractMoves DEF SameBut
    <3> QED
      BY <2>1, <3>2 DEF Contract!Next
  <2> QED
    BY <1>3, <2>7, <2>8
<1>4. ASSUME NEW s \in Container, Settle(s) \/ Confirm(s) \/ Release(s)
      PROVE  Contract!Next
  <2>1. \E v \in {"none"} \union Tombstone : claims' = [claims EXCEPT ![DedupKey(cur[s])] = v]
    BY <1>4 DEF Settle, Confirm, Release, ConfirmClaim, ReleaseClaim, TypeInv, LocalsOK, Tombstone
  <2>2. UNCHANGED clark
    BY <1>4 DEF Settle, Confirm, Release, worldVars
  <2>3. GivesUp(s)
    BY <1>4, EndsUp
  <2>4. \A j \in Key : Forwards(j)' = Forwards(j)
    BY <2>2, ForwardsSame
  <2>5. PICK v \in {"none"} \union Tombstone : claims' = [claims EXCEPT ![DedupKey(cur[s])] = v]
    BY <2>1
  <2>6. \E j \in Key : Contract!Release(s, j) \/ Contract!Finish(s, j)
    BY <2>3, <2>4, <2>5, EndsHold
  <2> QED
    BY <2>6 DEF Contract!Next
<1>5. ASSUME NEW s \in Container, ReleaseRepeats(s) PROVE FALSE
  BY <1>5 DEF ReleaseRepeats, Fault
<1>6. ASSUME NEW k \in Key, TtlExpires(k) PROVE Contract!Next
  <2>1. /\ claims' = [claims EXCEPT ![k] = "none"] /\ claims[k] # "none"
        /\ UNCHANGED <<clark, pc, cur>>
        /\ \A s \in Container : cur[s] # None => DedupKey(cur[s]) # k
    BY <1>6 DEF TtlExpires, ReleaseClaim, sweepVars, callVars, worldVars
  <2>2. \A j : Owners(j)' = Owners(j)
    BY <2>1 DEF Owners, Holds, DedupKey
  <2>3. Owners(k) = {}
    BY <2>1, NoneAssumption DEF Owners, Holds, Holding, TypeInv, LocalsOK, Handling
  <2>4. claims'[k] = "none" /\ \A j \in Key \ {k} : claims'[j] = claims[j]
    BY <2>1 DEF TypeInv, TypeOK
  <2>5. StateOf(k) # "free" /\ StateOf(k)' = "free"
    BY <2>1, <2>4 DEF StateOf
  <2>6. SameBut(k)
    BY <2>2, <2>4, StateSame DEF SameBut
  <2>7. \A j \in Key : Forwards(j)' = Forwards(j)
    BY <2>1, ForwardsSame
  <2>8. Contract!Expire(k)
    BY <2>2, <2>3, <2>5, <2>6, <2>7, ContractMoves
  <2> QED
    BY <2>8 DEF Contract!Next
<1> QED
  BY <1>1, <1>2, <1>3, <1>4, <1>5, <1>6, ClaimSteps DEF ClaimStep

(***************************************************************************)
(* What the claims promise of any user of them the sweeps keep: one winner *)
(* per free key, forwards by its owner only, and a key freed or finished   *)
(* by its owner or, once nobody owns it, by expiry.  Lost answers, failed  *)
(* calls, crashes and expiry are all allowed.                              *)
(***************************************************************************)
THEOREM PollerKeepsContract ==
  ASSUME "repeat_release" \notin Faults
  PROVE  Spec => KeepsContract
<1>1. Init => FromCopy
  BY DEF Init, FromCopy
<1>2. TypeInv /\ FromCopy /\ [Next]_vars => FromCopy'
  BY FromCopyStep
<1>3. TypeInv /\ ClaimExclusive /\ FromCopy /\ [Next]_vars => [Contract!Next]_(Contract!vars)
  BY ContractStep
<1>4. Spec => []ClaimExclusive
  BY Exclusive
<1> QED
  BY <1>1, <1>2, <1>3, <1>4, ContractInit, TypeInvariant, PTL DEF Spec, KeepsContract,
     Contract!Spec

-----------------------------------------------------------------------------
(* No claim without its sweep *)

(***************************************************************************)
(* A store that answers, containers that live and copies that the gate and *)
(* the store can digest.                                                   *)
(***************************************************************************)
NobodyWalksAway == ~ MayWalkAway /\ "claim_lost" \notin Faults

LEMMA InFlightStep ==
  ASSUME NobodyWalksAway
  PROVE  TypeInv /\ ClaimedMeansInFlight /\ [Next]_vars => ClaimedMeansInFlight'
<1> SUFFICES ASSUME TypeInv, ClaimedMeansInFlight, [Next]_vars,
                    NEW k \in Key, claims'[k] = "claimed"
             PROVE  \E s \in Container : Holds(s, k)'
  BY DEF ClaimedMeansInFlight
<1>1. claims \in [Key -> {"none", "claimed"} \union Tombstone]
  BY DEF TypeInv, TypeOK
<1>2. CASE claims' = claims /\ \A t \in Container : Keeps(t)
  BY <1>2, KeepsHolds DEF ClaimedMeansInFlight
<1>3. ASSUME NEW s \in Container, NEW c \in Copy, Claim(s, c)
      PROVE  \E t \in Container : Holds(t, k)'
  <2>1. /\ DedupKey(c) \in Key /\ pc[s] = "message"
        /\ claims' = [claims EXCEPT ![DedupKey(c)] = "claimed"]
        /\ pc' = [pc EXCEPT ![s] = "gate"] /\ cur' = [cur EXCEPT ![s] = c]
    BY <1>3, DedupKeyType DEF Claim, TakeNext, ClaimMessage, Enter, Goto
  <2>2. /\ pc'[s] = "gate" /\ cur'[s] = c
        /\ \A t \in Container \ {s} : pc'[t] = pc[t] /\ cur'[t] = cur[t]
    BY <2>1 DEF TypeInv, TypeOK
  <2>3. CASE k = DedupKey(c)
    BY <2>2, <2>3 DEF Holds, Holding, DedupKey
  <2>4. CASE k # DedupKey(c)
    <3>1. PICK t \in Container : Holds(t, k)
      BY <1>1, <2>1, <2>4 DEF ClaimedMeansInFlight
    <3>2. t # s
      BY <2>1, <3>1 DEF Holds, Holding
    <3> QED
      BY <2>2, <3>1, <3>2 DEF Holds, DedupKey
  <2> QED
    BY <2>3, <2>4
<1>4. ASSUME NEW s \in Container, Settle(s) \/ Confirm(s) \/ Release(s)
      PROVE  \E t \in Container : Holds(t, k)'
  <2>1. GivesUp(s)
    BY <1>4, EndsUp
  <2>2. PICK j \in Key :
          /\ j = DedupKey(cur[s])
          /\ \A i \in Key \ {j} : Owners(i)' = Owners(i)
    BY <2>1, GivesUpOwners
  <2>3. \E v \in {"none"} \union Tombstone : claims' = [claims EXCEPT ![j] = v]
    BY <1>4, <2>2 DEF Settle, Confirm, Release, ConfirmClaim, ReleaseClaim, TypeInv, LocalsOK,
       Tombstone
  <2>4. k # j /\ claims[k] = "claimed"
    BY <1>1, <2>3 DEF Tombstone
  <2>5. Owners(k)' = Owners(k) /\ Owners(k) # {}
    BY <2>2, <2>4 DEF ClaimedMeansInFlight, Owners
  <2> QED
    BY <2>5 DEF Owners
<1>5. ASSUME NEW s \in Container, ReleaseRepeats(s) PROVE \E t \in Container : Holds(t, k)'
  <2>1. /\ claims' = [claims EXCEPT ![DedupKey(cur[s])] = "none"]
        /\ UNCHANGED <<pc, cur>>
    BY <1>5 DEF ReleaseRepeats, ReleaseClaim, sweepVars, callVars
  <2>2. claims[k] = "claimed"
    BY <1>1, <2>1
  <2> QED
    BY <2>1, <2>2 DEF ClaimedMeansInFlight, Holds, DedupKey
<1>6. ASSUME NEW j \in Key, TtlExpires(j) PROVE \E t \in Container : Holds(t, k)'
  <2>1. claims' = [claims EXCEPT ![j] = "none"] /\ UNCHANGED <<pc, cur>>
    BY <1>6 DEF TtlExpires, ReleaseClaim, sweepVars, callVars
  <2>2. claims[k] = "claimed"
    BY <1>1, <2>1
  <2> QED
    BY <2>1, <2>2 DEF ClaimedMeansInFlight, Holds, DedupKey
<1>7. ASSUME NEW s \in Container, NEW c \in Copy, ClaimAnswerLost(s, c) PROVE FALSE
  BY <1>7 DEF ClaimAnswerLost, Fault, NobodyWalksAway
<1> QED
  BY <1>2, <1>3, <1>4, <1>5, <1>6, <1>7, ClaimSteps DEF ClaimStep, NobodyWalksAway

(***************************************************************************)
(* Where nothing makes a sweep walk away from its claim, a claim is in     *)
(* flight or final, expiry and repeated deletes or not: each return of     *)
(* _process_message after the claim has confirmed or released it.          *)
(***************************************************************************)
THEOREM ClaimsAreInFlight ==
  ASSUME NobodyWalksAway
  PROVE  Spec => []ClaimedMeansInFlight
<1>1. Init => ClaimedMeansInFlight
  BY DEF Init, ClaimedMeansInFlight
<1>2. TypeInv /\ ClaimedMeansInFlight /\ [Next]_vars => ClaimedMeansInFlight'
  BY InFlightStep
<1> QED
  BY <1>1, <1>2, TypeInvariant, PTL DEF Spec

-----------------------------------------------------------------------------
(* How often a message reaches Clark *)

LEMMA FaultsGrow == TypeInv /\ [Next]_vars => faults' \in {faults, faults + 1}
<1> SUFFICES ASSUME [Next]_vars PROVE faults' \in {faults, faults + 1}
  OBVIOUS
<1>1. ASSUME NEW s \in Container, Sweep(s) PROVE faults' \in {faults, faults + 1}
  <2>1. ASSUME \/ NextMailbox(s) \/ EndSweep(s) \/ ListUnread(s) \/ ListFails(s)
               \/ MailboxDone(s)
               \/ \E c \in Copy : Message(s, c)
        PROVE  faults' \in {faults, faults + 1}
    BY <2>1 DEF NextMailbox, FetchAuthorizedSenders, EndSweep, ListUnread, ListFails,
       MailboxDone, Message, FetchFails, Claim, SkipSeen, ClaimAnswerLost, Fault
  <2>2. ASSUME \/ GateIgnores(s) \/ GateDrops(s) \/ GateRaises(s) \/ GatePasses(s)
               \/ Settle(s) \/ Record(s) \/ RecordConflicts(s)
        PROVE  faults' \in {faults, faults + 1}
    BY <2>2 DEF GateIgnores, GateDrops, GateDiscards, GateRaises, GatePasses, Settle, Record,
       RecordConflicts, Proceed, Finish, Fault
  <2>3. ASSUME \/ Posting(s) \/ Confirm(s) \/ UpdateAcked(s) \/ MarkAcked(s)
               \/ Release(s) \/ ReleaseRepeats(s) \/ NoteFailure(s) \/ CallRaises(s)
        PROVE  faults' \in {faults, faults + 1}
    BY <2>3 DEF Posting, PostAccepted, PostFails, PostReplyLost, Confirm, UpdateAcked,
       MarkAcked, Release, ReleaseRepeats, NoteFailure, CallRaises, Proceed, Finish, Fault
  <2> QED
    BY <1>1, <2>1, <2>2, <2>3 DEF Sweep
<1>2. ASSUME NEW s \in Container, Life(s) PROVE faults' \in {faults, faults + 1}
  BY <1>2 DEF Life, StartSweep, Crash, Recycle, CacheExpires, VerifySender,
     FetchAuthorizedSenders, Fault
<1>3. ASSUME World PROVE faults' \in {faults, faults + 1}
  BY <1>3 DEF World, Deliver, Authorize, TtlExpires, Fault
<1> QED
  BY <1>1, <1>2, <1>3 DEF Next, vars

(***************************************************************************)
(* The chances of a message to be in Clark's hands: the envelopes that     *)
(* are, the sweeps that hold its key and may still post, and its claim     *)
(* while it can be won.                                                    *)
(***************************************************************************)
Posters(k) == {s \in Container : Holds(s, k) /\ pc[s] # "confirm"}

Chances(k) ==
  {<<"envelope", g>> : g \in Forwards(k)}
    \union {<<"sweep", s>> : s \in Posters(k)}
    \union {<<"claim", j>> : j \in {i \in {k} : claims[i] = "none"}}

AtMost(S, n) == IsFiniteSet(S) /\ Cardinality(S) <= n

RepeatInv == \A k \in Key : AtMost(Chances(k), 1 + faults)

(***************************************************************************)
(* A step adds no chance, trades one for another, or adds one at the cost  *)
(* of a failure.                                                           *)
(***************************************************************************)
Trades(k) == \/ Chances(k)' \subseteq Chances(k)
             \/ \E x \in Chances(k) : \E y : Chances(k)' \subseteq (Chances(k) \ {x}) \union {y}
             \/ /\ faults' = faults + 1
                /\ \E y : Chances(k)' \subseteq Chances(k) \union {y}

LEMMA OneMore ==
  ASSUME NEW S, NEW n \in Int, AtMost(S, n), NEW y, NEW T, T \subseteq S \union {y}
  PROVE  AtMost(T, n + 1)
<1>1. /\ IsFiniteSet(S \union {y})
      /\ Cardinality(S \union {y}) = IF y \in S THEN Cardinality(S) ELSE Cardinality(S) + 1
  BY FS_AddElement DEF AtMost
<1>2. /\ IsFiniteSet(T) /\ Cardinality(T) <= Cardinality(S \union {y})
      /\ Cardinality(T) \in Nat /\ Cardinality(S) \in Nat
  BY <1>1, FS_Subset, FS_CardinalityType DEF AtMost
<1> QED
  BY <1>1, <1>2 DEF AtMost

LEMMA NoMore ==
  ASSUME NEW S, NEW n \in Int, AtMost(S, n), NEW T, T \subseteq S, NEW m \in Int, n <= m
  PROVE  AtMost(T, m)
<1>1. /\ IsFiniteSet(T) /\ Cardinality(T) <= Cardinality(S)
      /\ Cardinality(S) \in Nat /\ Cardinality(T) \in Nat
  BY FS_Subset, FS_CardinalityType DEF AtMost
<1> QED
  BY <1>1 DEF AtMost

LEMMA OneForOne ==
  ASSUME NEW S, NEW n \in Int, AtMost(S, n), NEW x \in S, NEW y,
         NEW T, T \subseteq (S \ {x}) \union {y}
  PROVE  AtMost(T, n)
<1>1. /\ IsFiniteSet(S \ {x}) /\ Cardinality(S \ {x}) = Cardinality(S) - 1
      /\ Cardinality(S) \in Nat
  BY FS_RemoveElement, FS_CardinalityType DEF AtMost
<1>2. AtMost(S \ {x}, n - 1)
  BY <1>1 DEF AtMost
<1>3. AtMost(T, (n - 1) + 1)
  BY <1>2, OneMore
<1> QED
  BY <1>3

LEMMA TradesKeep ==
  ASSUME TypeInv, RepeatInv, faults' \in {faults, faults + 1}, \A k \in Key : Trades(k)
  PROVE  RepeatInv'
<1>a. faults \in Nat
  BY BoundAssumption DEF TypeInv, TypeOK
<1>b. faults' = faults \/ faults' = faults + 1
  OBVIOUS
<1>1. /\ 1 + faults \in Int /\ 1 + faults' \in Int
      /\ 1 + faults <= 1 + faults'
      /\ faults' = faults + 1 => (1 + faults) + 1 = 1 + faults'
  <2>1. CASE faults' = faults
    BY <1>a, <2>1
  <2>2. CASE faults' = faults + 1
    <3> DEFINE n == faults
               m == faults'
    <3>1. n \in Nat /\ m = n + 1
      BY <1>a, <2>2
    <3> HIDE DEF n, m
    <3>2. /\ 1 + n \in Int /\ 1 + m \in Int /\ 1 + n <= 1 + m
          /\ (1 + n) + 1 = 1 + m
      BY <3>1
    <3> QED
      BY <3>2 DEF n, m
  <2> QED
    BY <1>b, <2>1, <2>2
<1>2. ASSUME NEW k \in Key PROVE AtMost(Chances(k), 1 + faults)'
  <2>1. AtMost(Chances(k), 1 + faults)
    BY DEF RepeatInv
  <2>2. CASE Chances(k)' \subseteq Chances(k)
    <3>1. AtMost(Chances(k)', 1 + faults')
      BY <1>1, <2>1, <2>2, NoMore
    <3> QED
      BY <3>1 DEF AtMost
  <2>3. ASSUME NEW x \in Chances(k), NEW y,
               Chances(k)' \subseteq (Chances(k) \ {x}) \union {y}
        PROVE  AtMost(Chances(k), 1 + faults)'
    <3>1. AtMost(Chances(k)', 1 + faults)
      BY <1>1, <2>1, <2>3, OneForOne
    <3>2. AtMost(Chances(k)', 1 + faults')
      BY <1>1, <3>1, NoMore
    <3> QED
      BY <3>2 DEF AtMost
  <2>4. ASSUME faults' = faults + 1, NEW y, Chances(k)' \subseteq Chances(k) \union {y}
        PROVE  AtMost(Chances(k), 1 + faults)'
    <3>1. AtMost(Chances(k)', (1 + faults) + 1)
      BY <1>1, <2>1, <2>4, OneMore
    <3>2. AtMost(Chances(k)', 1 + faults')
      BY <1>1, <2>4, <3>1
    <3> QED
      BY <3>2 DEF AtMost
  <2> QED
    BY <2>2, <2>3, <2>4 DEF Trades
<1> QED
  BY <1>2 DEF RepeatInv

(***************************************************************************)
(* The three kinds of chances, one by one.                                 *)
(***************************************************************************)
LEMMA ChancesOf ==
  ASSUME NEW k
  PROVE  /\ \A x : x \in Chances(k) <=>
              \/ \E g \in Forwards(k) : x = <<"envelope", g>>
              \/ \E s \in Posters(k) : x = <<"sweep", s>>
              \/ claims[k] = "none" /\ x = <<"claim", k>>
         /\ \A x : x \in Chances(k)' <=>
              \/ \E g \in Forwards(k)' : x = <<"envelope", g>>
              \/ \E s \in Posters(k)' : x = <<"sweep", s>>
              \/ claims'[k] = "none" /\ x = <<"claim", k>>
<1>1. Chances(k)' = {<<"envelope", g>> : g \in Forwards(k)'}
                      \union {<<"sweep", s>> : s \in Posters(k)'}
                      \union {<<"claim", j>> : j \in {i \in {k} : claims'[i] = "none"}}
  BY DEF Chances
<1> QED
  BY <1>1 DEF Chances

LEMMA KeepsPosters ==
  ASSUME \A t \in Container : Keeps(t)
  PROVE  \A k : Posters(k)' \subseteq Posters(k)
<1>1. \A k : \A t \in Container : Holds(t, k)' => Holds(t, k)
  BY KeepsHolds
<1> QED
  BY <1>1 DEF Posters, Keeps

LEMMA GivesUpPosters ==
  ASSUME NEW s \in Container, GivesUp(s)
  PROVE  \A k : Posters(k)' \subseteq Posters(k) \ {s}
<1>1. \A k : \A t \in Container \ {s} : Holds(t, k)' => Holds(t, k)
  BY KeepsHolds DEF GivesUp
<1>2. \A k : ~ Holds(s, k)'
  BY DEF GivesUp, Holds
<1>3. \A t \in Container \ {s} : pc[t] = "confirm" => pc'[t] = "confirm"
  BY DEF GivesUp, Keeps
<1> QED
  BY <1>1, <1>2, <1>3 DEF Posters

LEMMA RepeatStep == TypeInv /\ FromCopy /\ RepeatInv /\ [Next]_vars => RepeatInv'
<1> SUFFICES ASSUME TypeInv, FromCopy, [Next]_vars, NEW k \in Key PROVE Trades(k)
  BY FaultsGrow, TradesKeep
<1>1. ASSUME claims' = claims, \A t \in Container : Keeps(t) PROVE Trades(k)
  <2>1. Posters(k)' \subseteq Posters(k)
    BY <1>1, KeepsPosters
  <2>2. CASE Forwards(k)' = Forwards(k)
    <3>1. Chances(k)' \subseteq Chances(k)
      BY <1>1, <2>1, <2>2, ChancesOf
    <3> QED
      BY <3>1 DEF Trades
  <2>3. ASSUME NEW s \in Container, Holds(s, k), PostAccepted(s),
               Forwards(k)' = Forwards(k) \union {gid[s]}
        PROVE  Trades(k)
    <3>1. pc[s] = "post" /\ pc'[s] = "confirm"
      BY <2>3 DEF PostAccepted, Goto, TypeInv, TypeOK
    <3>2. s \in Posters(k) /\ s \notin Posters(k)'
      BY <2>3, <3>1 DEF Posters
    <3>3. <<"sweep", s>> \in Chances(k)
      BY <3>2, ChancesOf
    <3>4. Chances(k)' \subseteq (Chances(k) \ {<<"sweep", s>>}) \union {<<"envelope", gid[s]>>}
      BY <1>1, <2>1, <2>3, <3>2, ChancesOf
    <3> QED
      BY <3>3, <3>4 DEF Trades
  <2>4. ASSUME NEW s \in Container, NEW v, PostReplyLost(s, v),
               Forwards(k)' = Forwards(k) \union {gid[s]}
        PROVE  Trades(k)
    <3>1. faults' = faults + 1
      BY <2>4 DEF PostReplyLost, Fault
    <3>2. Chances(k)' \subseteq Chances(k) \union {<<"envelope", gid[s]>>}
      BY <1>1, <2>1, <2>4, ChancesOf
    <3> QED
      BY <3>1, <3>2 DEF Trades
  <2> QED
    BY <2>2, <2>3, <2>4, ForwardsStep
<1>2. ASSUME NEW s \in Container, GivesUp(s), claims' = claims, UNCHANGED clark PROVE Trades(k)
  <2>1. Posters(k)' \subseteq Posters(k) /\ Forwards(k)' = Forwards(k)
    BY <1>2, GivesUpPosters, ForwardsSame
  <2>2. Chances(k)' \subseteq Chances(k)
    BY <1>2, <2>1, ChancesOf
  <2> QED
    BY <2>2 DEF Trades
<1>3. ASSUME NEW s \in Container, NEW c \in Copy, Claim(s, c) \/ ClaimAnswerLost(s, c)
      PROVE  Trades(k)
  <2> DEFINE j == DedupKey(c)
  <2>1. /\ j \in Key /\ claims[j] = "none"
        /\ claims' = [claims EXCEPT ![j] = "claimed"] /\ UNCHANGED clark
    BY <1>3, DedupKeyType DEF Claim, ClaimAnswerLost, TakeNext, Claimable, ClaimMessage, worldVars
  <2>2. /\ claims'[j] = "claimed" /\ \A i \in Key \ {j} : claims'[i] = claims[i]
        /\ Forwards(k)' = Forwards(k)
    BY <2>1, ForwardsSame DEF TypeInv, TypeOK
  <2>3. \/ pc' = [pc EXCEPT ![s] = "gate"] /\ cur' = [cur EXCEPT ![s] = c]
        \/ UNCHANGED <<pc, cur>>
    BY <1>3 DEF Claim, ClaimAnswerLost, Enter, Goto, callVars
  <2>4. pc \in [Container -> Labels] /\ cur \in [Container -> Copy \union {None}]
    BY DEF TypeInv, TypeOK
  <2>5. \A t \in Container : \/ pc'[t] = pc[t] /\ cur'[t] = cur[t]
                             \/ t = s /\ cur'[t] = c
    BY <2>3, <2>4
  <2>6. Posters(k)' \subseteq IF k = j THEN Posters(k) \union {s} ELSE Posters(k)
    BY <2>5 DEF Posters, Holds, DedupKey
  <2> HIDE DEF j
  <2>7. CASE k = j
    <3>1. <<"claim", k>> \in Chances(k)
      BY <2>1, <2>7, ChancesOf
    <3>2. Chances(k)' \subseteq (Chances(k) \ {<<"claim", k>>}) \union {<<"sweep", s>>}
      BY <2>2, <2>6, <2>7, ChancesOf
    <3> QED
      BY <3>1, <3>2 DEF Trades
  <2>8. CASE k # j
    <3>1. Chances(k)' \subseteq Chances(k)
      BY <2>2, <2>6, <2>8, ChancesOf
    <3> QED
      BY <3>1 DEF Trades
  <2> QED
    BY <2>7, <2>8
<1>4. ASSUME NEW s \in Container, Settle(s) \/ Confirm(s) \/ Release(s) PROVE Trades(k)
  <2> DEFINE j == DedupKey(cur[s])
  <2>1. GivesUp(s) /\ j \in Key /\ UNCHANGED clark
    BY <1>4, EndsUp, DedupKeyType
    DEF Settle, Confirm, Release, worldVars, TypeInv, LocalsOK, Handling
  <2>2. Posters(k)' \subseteq Posters(k) \ {s} /\ Forwards(k)' = Forwards(k)
    BY <2>1, GivesUpPosters, ForwardsSame
  <2>3. CASE Settle(s) \/ Confirm(s)
    <3>1. PICK v \in Tombstone : claims' = [claims EXCEPT ![j] = v]
      BY <2>3 DEF Settle, Confirm, ConfirmClaim, TypeInv, LocalsOK, Tombstone
    <3>2. claims'[k] = "none" => claims[k] = "none"
      BY <2>1, <3>1 DEF TypeInv, TypeOK, Tombstone
    <3>3. Chances(k)' \subseteq Chances(k)
      BY <2>2, <3>2, ChancesOf
    <3> QED
      BY <3>3 DEF Trades
  <2>4. CASE Release(s)
    <3>1. claims' = [claims EXCEPT ![j] = "none"] /\ pc[s] = "release"
      BY <2>4 DEF Release, ReleaseClaim
    <3>2. \A i \in Key \ {j} : claims'[i] = claims[i]
      BY <2>1, <3>1 DEF TypeInv, TypeOK
    <3>3. CASE k = j
      <4>1. s \in Posters(k)
        BY <3>1, <3>3 DEF Posters, Holds, Holding
      <4>2. <<"sweep", s>> \in Chances(k)
        BY <4>1, ChancesOf
      <4>3. Chances(k)' \subseteq (Chances(k) \ {<<"sweep", s>>}) \union {<<"claim", k>>}
        BY <2>2, ChancesOf
      <4> QED
        BY <4>2, <4>3 DEF Trades
    <3>4. CASE k # j
      <4>1. Chances(k)' \subseteq Chances(k)
        BY <2>2, <3>2, <3>4, ChancesOf
      <4> QED
        BY <4>1 DEF Trades
    <3> QED
      BY <3>3, <3>4
  <2> QED
    BY <1>4, <2>3, <2>4
<1>5. ASSUME UNCHANGED <<clark, pc, cur>>, faults' = faults + 1 PROVE Trades(k)
  <2>1. Posters(k)' \subseteq Posters(k)
    BY <1>5 DEF Posters, Holds, DedupKey
  <2>2. Chances(k)' \subseteq Chances(k) \union {<<"claim", k>>}
    BY <1>5, <2>1, ForwardsSame, ChancesOf
  <2> QED
    BY <1>5, <2>2 DEF Trades
<1>6. ASSUME NEW s \in Container, ReleaseRepeats(s) PROVE Trades(k)
  BY <1>5, <1>6 DEF ReleaseRepeats, Fault, sweepVars, callVars, worldVars
<1>7. ASSUME NEW j \in Key, TtlExpires(j) PROVE Trades(k)
  BY <1>5, <1>7 DEF TtlExpires, Fault, sweepVars, callVars, worldVars
<1> QED
  BY <1>1, <1>2, <1>3, <1>4, <1>6, <1>7, ClaimSteps DEF ClaimStep

(***************************************************************************)
(* However many containers, copies and failures of every kind, repeated    *)
(* deletes and expired claims included: each envelope of a message beyond  *)
(* the first has cost a failure.                                           *)
(***************************************************************************)
THEOREM RepeatsCostFailures == Spec => []RepeatsBounded
<1>1. Init => FromCopy /\ RepeatInv
  <2> SUFFICES ASSUME Init PROVE FromCopy /\ RepeatInv
    OBVIOUS
  <2>1. ASSUME NEW k \in Key PROVE AtMost(Chances(k), 1 + faults)
    <3>1. Forwards(k) = {} /\ Posters(k) = {} /\ faults = 0
      BY DEF Init, Forwards, Posters, Holds, Holding
    <3>2. Chances(k) \subseteq {<<"claim", k>>}
      BY <3>1, ChancesOf
    <3>3. IsFiniteSet({<<"claim", k>>}) /\ Cardinality({<<"claim", k>>}) = 1
      BY FS_Singleton
    <3>4. AtMost({<<"claim", k>>}, 1)
      BY <3>3 DEF AtMost
    <3> QED
      BY <3>1, <3>2, <3>4, NoMore
  <2> QED
    BY <2>1 DEF Init, FromCopy, RepeatInv
<1>2. TypeInv /\ RepeatInv => RepeatsBounded
  <2> SUFFICES ASSUME TypeInv, RepeatInv, NEW k \in Key PROVE Cardinality(Forwards(k)) <= 1 + faults
    BY DEF RepeatsBounded
  <2> DEFINE f == [g \in Forwards(k) |-> <<"envelope", g>>]
  <2>1. f \in Injection(Forwards(k), Chances(k))
    BY ChancesOf DEF Injection, IsInjective
  <2>2. IsFiniteSet(Forwards(k)) /\ Cardinality(Forwards(k)) <= Cardinality(Chances(k))
    BY <2>1, FS_Injection DEF RepeatInv, AtMost
  <2>3. IsFiniteSet(Chances(k)) /\ Cardinality(Chances(k)) <= 1 + faults
    BY DEF RepeatInv, AtMost
  <2>4. /\ Cardinality(Forwards(k)) \in Nat /\ Cardinality(Chances(k)) \in Nat
        /\ faults \in Nat
    BY <2>2, <2>3, FS_CardinalityType, BoundAssumption DEF TypeInv, TypeOK
  <2> QED
    BY <2>2, <2>3, <2>4
<1>3. TypeInv /\ FromCopy /\ [Next]_vars => FromCopy'
  BY FromCopyStep
<1> QED
  BY <1>1, <1>2, <1>3, RepeatStep, TypeInvariant, PTL DEF Spec
=============================================================================
