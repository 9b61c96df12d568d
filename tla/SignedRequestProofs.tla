------------------------- MODULE SignedRequestProofs -------------------------
(***************************************************************************)
(* Proofs about SignedRequest, for any number of calls and of attempts.    *)
(***************************************************************************)
EXTENDS SignedRequest, TLAPS

(***************************************************************************)
(* An attempt that is made, or awaited, is one of those there are.         *)
(***************************************************************************)
CountOK ==
  \A c \in Call : /\ pc[c] = "start" => attempt[c] = 0
                  /\ pc[c] = "send" => attempt[c] < Retries
                  /\ pc[c] = "wait" => attempt[c] \in Attempt

TypeInv == TypeOK /\ CountOK

LEMMA SeeType ==
  ASSUME TypeInv, NEW c \in Call, pc[c] = "wait",
         NEW what \in {"2xx", "4xx", "torn"} \union Transient, See(c, what)
  PROVE  /\ seen' \in [Call -> [Attempt -> {"none", "2xx", "4xx", "torn"} \union Transient]]
         /\ attempt[c] \in Attempt
BY DEF TypeInv, TypeOK, CountOK, See

LEMMA AgainType ==
  ASSUME TypeInv, NEW c \in Call, pc[c] = "wait", NEW last \in {"no", "raised"}, Again(c, last)
  PROVE  /\ pc' \in [Call -> {"start"} \union Open \union Ended]
         /\ CountOK'
         /\ UNCHANGED <<attempt, net, acted>>
<1>1. /\ attempt[c] \in Nat /\ Retries \in Nat
      /\ pc' = [pc EXCEPT ![c] = IF attempt[c] < Retries THEN "send" ELSE last]
      /\ UNCHANGED <<attempt, net, acted>>
  BY BoundAssumption DEF TypeInv, TypeOK, Again, Goto
<1> QED
  BY <1>1 DEF TypeInv, TypeOK, CountOK, Open, Ended

LEMMA CarryType ==
  ASSUME TypeInv, NEW c \in Call, NEW n \in Attempt,
         NEW state \in {"none", "flying", "lost"} \union Replies, Carry(c, n, state)
  PROVE  /\ net' \in [Call -> [Attempt -> {"none", "flying", "lost"} \union Replies]]
         /\ \A d \in Call, m \in Attempt :
              net'[d][m] = IF d = c /\ m = n THEN state ELSE net[d][m]
BY DEF TypeInv, TypeOK, Carry

(***************************************************************************)
(* Every step keeps every variable in its range.                           *)
(***************************************************************************)
LEMMA TypeStep == TypeInv /\ [Next]_vars => TypeInv'
<1> SUFFICES ASSUME TypeInv, [Next]_vars PROVE TypeInv'
  OBVIOUS
<1> USE DEF TypeInv, TypeOK, CountOK, Open, Ended, Attempt
<1>1. ASSUME NEW c \in Call, Begin(c) PROVE TypeInv'
  BY <1>1, BoundAssumption DEF Begin, Goto
<1>2. ASSUME NEW c \in Call, Decline(c) \/ Kill(c) PROVE TypeInv'
  BY <1>2 DEF Decline, Kill, Goto
<1>3. ASSUME NEW c \in Call, Send(c) PROVE TypeInv'
  <2>1. attempt[c] + 1 \in Attempt /\ attempt[c] + 1 \in 0..Retries
    BY <1>3, BoundAssumption DEF Send
  <2>2. net' \in [Call -> [Attempt -> {"none", "flying", "lost"} \union Replies]]
    BY <1>3, <2>1, CarryType DEF Send
  <2>3. attempt' \in [Call -> 0..Retries] /\ attempt'[c] = attempt[c] + 1
    BY <1>3, <2>1 DEF Send
  <2> QED
    BY <1>3, <2>1, <2>2, <2>3 DEF Send, Goto
<1>4. ASSUME NEW c \in Call, Success(c) \/ ClientError(c) \/ OkAnyway(c) \/ TornAnswer(c)
      PROVE  TypeInv'
  <2>1. /\ pc[c] = "wait"
        /\ \E what \in {"2xx", "4xx", "torn"} \union Transient : See(c, what)
        /\ \E label \in Ended : Goto(c, label)
        /\ UNCHANGED <<attempt, net, acted>>
    BY <1>4 DEF Success, ClientError, OkAnyway, TornAnswer, Arrived, Transient
  <2>2. seen' \in [Call -> [Attempt -> {"none", "2xx", "4xx", "torn"} \union Transient]]
    BY <2>1, SeeType
  <2> QED
    BY <2>1, <2>2 DEF Goto
<1>5. ASSUME NEW c \in Call, ServerError(c) \/ NetworkError(c) PROVE TypeInv'
  <2>1. /\ pc[c] = "wait"
        /\ \E what \in {"2xx", "4xx", "torn"} \union Transient : See(c, what)
        /\ \E last \in {"no", "raised"} : Again(c, last)
    BY <1>5 DEF ServerError, NetworkError, Arrived, Transient
  <2>2. seen' \in [Call -> [Attempt -> {"none", "2xx", "4xx", "torn"} \union Transient]]
    BY <2>1, SeeType
  <2>3. /\ pc' \in [Call -> {"start"} \union Open \union Ended]
        /\ CountOK'
        /\ UNCHANGED <<attempt, net, acted>>
    BY <2>1, AgainType
  <2> QED
    BY <2>2, <2>3
<1>6. ASSUME NEW c \in Call, NEW n \in Attempt,
             Drop(c, n) \/ ClarkServes(c, n) \/ ClarkRefuses(c, n)
      PROVE  TypeInv'
  <2>1. \E state \in {"none", "flying", "lost"} \union Replies : Carry(c, n, state)
    BY <1>6 DEF Drop, ClarkServes, ClarkRefuses, Replies
  <2>2. net' \in [Call -> [Attempt -> {"none", "flying", "lost"} \union Replies]]
    BY <2>1, CarryType
  <2>3. /\ acted' \in [Call -> SUBSET Attempt]
        /\ UNCHANGED <<pc, attempt, seen>>
    <3>1. CASE ClarkServes(c, n)
      BY <3>1 DEF ClarkServes
    <3>2. CASE Drop(c, n) \/ ClarkRefuses(c, n)
      BY <3>2 DEF Drop, ClarkRefuses
    <3> QED
      BY <1>6, <3>1, <3>2
  <2> QED
    BY <2>2, <2>3
<1>7. CASE UNCHANGED vars
  BY <1>7 DEF vars
<1> HIDE DEF TypeInv, TypeOK, CountOK, Open, Ended, Attempt
<1> QED
  BY <1>1, <1>2, <1>3, <1>4, <1>5, <1>6, <1>7 DEF Next, Gateway, Outside

LEMMA TypeInvariance == Spec => []TypeInv
<1>1. Init => TypeInv
  BY BoundAssumption DEF Init, TypeInv, TypeOK, CountOK, Open
<1> QED
  BY <1>1, TypeStep, PTL DEF Spec

(***************************************************************************)
(* Every variable keeps to its range; _request never counts past Retries.  *)
(***************************************************************************)
THEOREM TypeCorrect == Spec => []TypeOK
<1>1. TypeInv => TypeOK
  BY DEF TypeInv
<1> QED
  BY <1>1, TypeInvariance, PTL

-----------------------------------------------------------------------------
(***************************************************************************)
(* While an attempt is awaited the ones before it have failed for a        *)
(* transient reason; before another is sent, all of them have.             *)
(***************************************************************************)
RepeatInv ==
  /\ RepeatsOnlyTransient
  /\ \A c \in Call, n \in Attempt :
       pc[c] = "send" /\ n <= attempt[c] => seen[c][n] \in Transient

LEMMA RepeatStep == TypeInv /\ RepeatInv /\ [Next]_vars => RepeatInv'
<1> SUFFICES ASSUME TypeInv, RepeatInv, [Next]_vars PROVE RepeatInv'
  OBVIOUS
<1> USE DEF TypeInv, TypeOK, CountOK, Attempt, RepeatInv, RepeatsOnlyTransient
<1>1. ASSUME NEW c \in Call, Begin(c) PROVE RepeatInv'
  BY <1>1 DEF Begin, Goto
<1>2. ASSUME NEW c \in Call, Decline(c) \/ Kill(c) PROVE RepeatInv'
  BY <1>2 DEF Decline, Kill, Goto
<1>3. ASSUME NEW c \in Call, Send(c) PROVE RepeatInv'
  BY <1>3, BoundAssumption DEF Send, Goto
<1>4. ASSUME NEW c \in Call, Success(c) \/ ClientError(c) \/ OkAnyway(c) \/ TornAnswer(c)
      PROVE  RepeatInv'
  <2>1. /\ pc[c] = "wait"
        /\ \E what \in {"2xx", "4xx", "torn"} \union Transient : See(c, what)
        /\ \E label \in Ended : Goto(c, label)
        /\ UNCHANGED attempt
    BY <1>4 DEF Success, ClientError, OkAnyway, TornAnswer, Arrived, Transient, Ended
  <2> QED
    BY <2>1 DEF See, Goto, Ended
<1>5. ASSUME NEW c \in Call, ServerError(c) \/ NetworkError(c) PROVE RepeatInv'
  <2>1. PICK what \in Transient : See(c, what)
    BY <1>5 DEF ServerError, NetworkError, Transient
  <2>2. pc[c] = "wait" /\ UNCHANGED attempt
    BY <1>5 DEF ServerError, NetworkError, Arrived, Again
  <2>3. PICK label : Goto(c, label)
    BY <1>5 DEF ServerError, NetworkError, Again
  <2>4. attempt[c] \in Attempt /\ \A n \in Attempt :
          seen'[c][n] = IF n = attempt[c] THEN what ELSE seen[c][n]
    BY <2>1, <2>2 DEF See
  <2>5. \A d \in Call : d # c => seen'[d] = seen[d] /\ pc'[d] = pc[d] /\ attempt'[d] = attempt[d]
    BY <2>1, <2>2, <2>3 DEF See, Goto
  <2>6. \A n \in Attempt : n < attempt[c] => seen[c][n] \in Transient
    OBVIOUS
  <2>7. \A n \in Attempt : n <= attempt[c] => seen'[c][n] \in Transient
    <3> TAKE n \in Attempt
    <3> HAVE n <= attempt[c]
    <3>1. CASE n = attempt[c]
      BY <2>4, <3>1
    <3>2. CASE n < attempt[c]
      BY <2>4, <2>6, <3>2
    <3>3. n \in Int /\ attempt[c] \in Int
      BY <2>4
    <3> QED
      BY <3>1, <3>2, <3>3
  <2>8. \A n \in Attempt : seen'[c][n] # "none" => n <= attempt[c]
    BY <2>4
  <2>9. \A n \in Attempt :
          /\ n < attempt'[c] => seen'[c][n] \in Transient
          /\ seen'[c][n] # "none" => n <= attempt'[c]
          /\ n <= attempt'[c] => seen'[c][n] \in Transient
    BY <2>2, <2>4, <2>7, <2>8
  <2> QED
    BY <2>5, <2>9
<1>6. ASSUME NEW c \in Call, NEW n \in Attempt,
             Drop(c, n) \/ ClarkServes(c, n) \/ ClarkRefuses(c, n)
      PROVE  RepeatInv'
  BY <1>6 DEF Drop, ClarkServes, ClarkRefuses
<1>7. CASE UNCHANGED vars
  BY <1>7 DEF vars
<1> HIDE DEF TypeInv, TypeOK, CountOK, Attempt, RepeatInv, RepeatsOnlyTransient
<1> QED
  BY <1>1, <1>2, <1>3, <1>4, <1>5, <1>6, <1>7 DEF Next, Gateway, Outside

(***************************************************************************)
(* _request repeats nothing that was answered, for any number of attempts. *)
(***************************************************************************)
THEOREM OnlyTransientIsRepeated == Spec => []RepeatsOnlyTransient
<1>1. Init => RepeatInv
  BY BoundAssumption DEF Init, RepeatInv, RepeatsOnlyTransient, Attempt
<1>2. RepeatInv => RepeatsOnlyTransient
  BY DEF RepeatInv
<1> QED
  BY <1>1, <1>2, RepeatStep, TypeInvariance, PTL DEF Spec

-----------------------------------------------------------------------------
(***************************************************************************)
(* A 2xx comes from an attempt that was served, and nothing of a call that *)
(* has not begun is on its way.                                            *)
(***************************************************************************)
ServedInv ==
  /\ \A c \in Call, n \in Attempt : net[c][n] = "2xx" => n \in acted[c]
  /\ \A c \in Call : pc[c] \in {"start", "declined"} =>
       acted[c] = {} /\ \A n \in Attempt : net[c][n] = "none"

Phase == [c \in Call |-> CASE pc[c] = "start" -> "idle"
                           [] pc[c] \in Open -> "open"
                           [] pc[c] \in {"raised", "killed"} -> "unknown"
                           [] OTHER -> pc[c]]

Done == {c \in Call : acted[c] # {}}

LEMMA PhaseMoves ==
  ASSUME TypeInv, NEW c \in Call, NEW label, Goto(c, label)
  PROVE  /\ label \in Open => Phase' = [Phase EXCEPT ![c] = "open"]
         /\ label \in {"raised", "killed"} => Phase' = [Phase EXCEPT ![c] = "unknown"]
         /\ label \in {"declined", "yes", "no"} => Phase' = [Phase EXCEPT ![c] = label]
BY DEF TypeInv, TypeOK, Goto, Phase, Open, Ended

LEMMA ServedStep == TypeInv /\ ServedInv /\ [Next]_vars => ServedInv'
<1> SUFFICES ASSUME TypeInv, ServedInv, [Next]_vars PROVE ServedInv'
  OBVIOUS
<1> USE DEF ServedInv
<1>1. ASSUME NEW c \in Call, Begin(c) \/ Decline(c) \/ Kill(c) PROVE ServedInv'
  BY <1>1 DEF Begin, Decline, Kill, Goto, TypeInv, TypeOK, Open
<1>2. ASSUME NEW c \in Call, Send(c) PROVE ServedInv'
  <2>1. attempt[c] + 1 \in Attempt
    BY <1>2, BoundAssumption DEF Send, TypeInv, TypeOK, CountOK, Attempt
  <2>2. \A d \in Call, m \in Attempt :
          net'[d][m] = IF d = c /\ m = attempt[c] + 1 THEN "flying" ELSE net[d][m]
    BY <1>2, <2>1, CarryType DEF Send
  <2> QED
    BY <1>2, <2>2 DEF Send, Goto, TypeInv, TypeOK
<1>3. ASSUME NEW c \in Call, Success(c) \/ ClientError(c) \/ OkAnyway(c) \/ TornAnswer(c)
      PROVE  ServedInv'
  BY <1>3 DEF Success, ClientError, OkAnyway, TornAnswer, Arrived, Goto, TypeInv, TypeOK
<1>4. ASSUME NEW c \in Call, ServerError(c) \/ NetworkError(c)
      PROVE  ServedInv'
  BY <1>4 DEF ServerError, NetworkError, Arrived, Again, Goto, TypeInv, TypeOK
<1>5. ASSUME NEW c \in Call, NEW n \in Attempt, Drop(c, n) \/ ClarkRefuses(c, n)
      PROVE  ServedInv'
  <2>1. PICK state \in {"lost", "4xx", "5xx"} : Carry(c, n, state)
    BY <1>5 DEF Drop, ClarkRefuses
  <2>2. \A d \in Call, m \in Attempt :
          net'[d][m] = IF d = c /\ m = n THEN state ELSE net[d][m]
    BY <2>1, CarryType DEF Replies
  <2>3. net[c][n] = "flying" /\ UNCHANGED <<pc, acted>>
    BY <1>5 DEF Drop, ClarkRefuses
  <2> QED
    BY <2>2, <2>3
<1>6. ASSUME NEW c \in Call, NEW n \in Attempt, ClarkServes(c, n) PROVE ServedInv'
  <2>1. PICK state \in {"2xx", "5xx"} : Carry(c, n, state)
    BY <1>6 DEF ClarkServes
  <2>2. \A d \in Call, m \in Attempt :
          net'[d][m] = IF d = c /\ m = n THEN state ELSE net[d][m]
    BY <2>1, CarryType DEF Replies
  <2>3. /\ net[c][n] = "flying" /\ UNCHANGED pc
        /\ \A d \in Call : acted'[d] = IF d = c THEN acted[d] \union {n} ELSE acted[d]
    BY <1>6 DEF ClarkServes, TypeInv, TypeOK
  <2>4. \A d \in Call, m \in Attempt : net'[d][m] = "2xx" => m \in acted'[d]
    <3> SUFFICES ASSUME NEW d \in Call, NEW m \in Attempt, net'[d][m] = "2xx"
                 PROVE  m \in acted'[d]
      OBVIOUS
    <3>1. CASE d = c /\ m = n
      BY <2>3, <3>1
    <3>2. CASE ~ (d = c /\ m = n)
      <4>1. net[d][m] = "2xx"
        BY <2>2, <3>2
      <4>2. m \in acted[d]
        BY <4>1
      <4>3. acted'[d] = IF d = c THEN acted[d] \union {n} ELSE acted[d]
        BY <2>3
      <4> QED
        BY <4>2, <4>3
    <3> QED
      BY <3>1, <3>2
  <2>5. pc[c] \notin {"start", "declined"}
    BY <1>6 DEF ClarkServes
  <2>6. \A d \in Call : pc'[d] \in {"start", "declined"} =>
          acted'[d] = {} /\ \A m \in Attempt : net'[d][m] = "none"
    <3> SUFFICES ASSUME NEW d \in Call, pc'[d] \in {"start", "declined"}
                 PROVE  acted'[d] = {} /\ \A m \in Attempt : net'[d][m] = "none"
      OBVIOUS
    <3>1. d # c /\ pc[d] \in {"start", "declined"}
      BY <2>3, <2>5
    <3>2. acted'[d] = acted[d] /\ \A m \in Attempt : net'[d][m] = net[d][m]
      BY <2>2, <2>3, <3>1
    <3> QED
      BY <3>1, <3>2
  <2> QED
    BY <2>4, <2>6
<1>7. CASE UNCHANGED vars
  BY <1>7 DEF vars
<1> HIDE DEF ServedInv
<1> QED
  BY <1>1, <1>2, <1>3, <1>4, <1>5, <1>6, <1>7 DEF Next, Gateway, Outside

LEMMA ServedInvariance == Spec => []ServedInv
<1>1. Init => ServedInv
  BY DEF Init, ServedInv
<1> QED
  BY <1>1, ServedStep, TypeInvariance, PTL DEF Spec

(***************************************************************************)
(* Every step is a step of the contract or changes nothing it speaks of.   *)
(***************************************************************************)
LEMMA ContractStep ==
  TypeInv /\ ServedInv /\ [Next]_vars => [Contract!Next]_(Contract!vars)
<1> SUFFICES ASSUME TypeInv, ServedInv, [Next]_vars
             PROVE  Contract!Next \/ UNCHANGED <<Phase, Done>>
  BY DEF Contract!vars, Phase, Done
<1> DEFINE Become(c, p) == Phase' = [Phase EXCEPT ![c] = p] /\ UNCHANGED Done
<1>0. ASSUME NEW c \in Call, NEW a \in {"yes", "no", "unknown"},
             pc[c] \in Open, Become(c, a), a = "yes" => c \in Done
      PROVE  Contract!Next
  <2>1. Phase[c] = "open"
    BY <1>0 DEF Phase, Open
  <2> QED
    BY <1>0, <2>1 DEF Contract!Next, Contract!Answer, Contract!Answers, Contract!Become, Phase, Done
<1>1. ASSUME NEW c \in Call, Begin(c) \/ Decline(c)
      PROVE  Contract!Next
  <2>1. Phase[c] = "idle"
    BY <1>1 DEF Begin, Decline, Phase, Open
  <2>2. \E p \in {"open", "declined"} : Become(c, p)
    BY <1>1, PhaseMoves DEF Begin, Decline, Open, Done
  <2> QED
    BY <2>1, <2>2 DEF Contract!Next, Contract!Ask, Contract!Become, Phase, Done
<1>2. ASSUME NEW c \in Call, Send(c)
      PROVE  UNCHANGED <<Phase, Done>>
  BY <1>2 DEF Send, Goto, Phase, Done, Open, TypeInv, TypeOK
<1>3. ASSUME NEW c \in Call, Success(c)
      PROVE  Contract!Next
  <2>1. c \in Done /\ pc[c] \in Open
    BY <1>3 DEF Success, Arrived, ServedInv, TypeInv, CountOK, Done, Open
  <2>2. Become(c, "yes") \/ Become(c, "no")
    BY <1>3, PhaseMoves DEF Success, Done
  <2> QED
    BY <2>1, <2>2, <1>0
<1>4. ASSUME NEW c \in Call, OkAnyway(c)
      PROVE  Contract!Next
  <2>1. c \in Done /\ pc[c] \in Open /\ UNCHANGED Done
    BY <1>4 DEF OkAnyway, Arrived, Done, Open
  <2>2. Phase' = [Phase EXCEPT ![c] = "yes"]
    BY <1>4, PhaseMoves DEF OkAnyway
  <2> QED
    BY <2>1, <2>2, <1>0
<1>5. ASSUME NEW c \in Call, ClientError(c)
      PROVE  Contract!Next
  BY <1>5, <1>0, PhaseMoves DEF ClientError, Arrived, Done, Open
<1>6. ASSUME NEW c \in Call, TornAnswer(c) \/ Kill(c)
      PROVE  Contract!Next
  BY <1>6, <1>0, PhaseMoves DEF TornAnswer, Kill, Arrived, Done, Open
<1>7. ASSUME NEW c \in Call, ServerError(c) \/ NetworkError(c)
      PROVE  Contract!Next \/ UNCHANGED <<Phase, Done>>
  <2>1. pc[c] = "wait" /\ UNCHANGED Done
    BY <1>7 DEF ServerError, NetworkError, Arrived, Again, Done
  <2>2. Goto(c, "send") \/ Goto(c, "no") \/ Goto(c, "raised")
    BY <1>7 DEF ServerError, NetworkError, Again
  <2>3. CASE Goto(c, "send")
    BY <2>1, <2>3 DEF Goto, Phase, Open, TypeInv, TypeOK
  <2>4. CASE Goto(c, "no") \/ Goto(c, "raised")
    BY <2>1, <2>4, <1>0, PhaseMoves DEF Open
  <2> QED
    BY <2>2, <2>3, <2>4
<1>8. ASSUME NEW c \in Call, NEW n \in Attempt, Drop(c, n) \/ ClarkRefuses(c, n)
      PROVE  UNCHANGED <<Phase, Done>>
  BY <1>8 DEF Drop, ClarkRefuses, Phase, Done
<1>9. ASSUME NEW c \in Call, NEW n \in Attempt, ClarkServes(c, n)
      PROVE  Contract!Next
  <2>1. pc[c] \notin {"start", "declined"}
    BY <1>9 DEF ClarkServes, ServedInv
  <2>2. Phase[c] \in {"open"} \union Contract!Answers
    BY <2>1 DEF Phase, Contract!Answers, TypeInv, TypeOK, Open, Ended
  <2>3. Done' = Done \union {c} /\ UNCHANGED Phase
    <3>1. /\ UNCHANGED pc
          /\ \A d \in Call : acted'[d] = IF d = c THEN acted[d] \union {n} ELSE acted[d]
      BY <1>9 DEF ClarkServes, TypeInv, TypeOK
    <3>2. \A d \in Call : acted'[d] # {} <=> acted[d] # {} \/ d = c
      BY <3>1
    <3> QED
      BY <3>1, <3>2 DEF Phase, Done
  <2> QED
    BY <2>2, <2>3 DEF Contract!Next, Contract!Serve, Phase, Done
<1>10. CASE UNCHANGED vars
  BY <1>10 DEF vars, Phase, Done
<1> QED
  BY <1>1, <1>2, <1>3, <1>4, <1>5, <1>6, <1>7, <1>8, <1>9, <1>10 DEF Next, Gateway, Outside

(***************************************************************************)
(* The tools over _request keep the contract: whatever is retried, lost,   *)
(* late or killed, a yes means that Clark served the call.                 *)
(***************************************************************************)
THEOREM RequestKeepsContract == Spec => KeepsContract
<1>1. Init => Contract!Init
  <2>1. ASSUME Init PROVE Phase = [c \in Call |-> "idle"] /\ Done = {}
    BY <2>1 DEF Init, Phase, Done, Open
  <2> QED
    BY <2>1 DEF Contract!Init, Phase, Done
<1> QED
  BY <1>1, ContractStep, TypeInvariance, ServedInvariance, PTL
  DEF Spec, KeepsContract, Contract!Spec
=============================================================================
