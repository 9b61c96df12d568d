--------------------------- MODULE SendEmailProofs ---------------------------
(***************************************************************************)
(* Proofs about SendEmail, for any number of calls, users, days and        *)
(* failures, and any limits.                                               *)
(***************************************************************************)
EXTENDS SendEmail, FiniteSetTheorems, TLAPS

(***************************************************************************)
(* A call that holds a unit knows the day it was charged to; only calls on *)
(* DynamoDB back out.                                                      *)
(***************************************************************************)
Charged == {"backout", "send", "refund", "sent"}

LocalsOK ==
  \A c \in Call : /\ pc[c] \in Charged => charged[c] \in Day
                  /\ pc[c] = "backout" => UseStore

TypeInv == TypeOK /\ LocalsOK

LEMMA AddType ==
  ASSUME TypeOK, NEW c \in Call, NEW d \in Day, NEW n \in Int, Add(c, d, n)
  PROVE  /\ count' \in [User -> [Day -> Int]]
         /\ \A u \in User, e \in Day :
              count'[u][e] = IF u = CallerOf[c] /\ e = d THEN count[u][e] + n ELSE count[u][e]
BY UserAssumption DEF Add, TypeOK

LEMMA StrayType ==
  ASSUME TypeOK, NEW c \in Call, NEW d \in Day, Stray(c, d)
  PROVE  /\ astray' \in [User -> [Day -> Int]]
         /\ \A u \in User, e \in Day :
              astray'[u][e] = IF u = CallerOf[c] /\ e = d THEN astray[u][e] + 1 ELSE astray[u][e]
BY UserAssumption DEF Stray, TypeOK

(***************************************************************************)
(* Where the counters are is settled when the process starts.              *)
(***************************************************************************)
LEMMA StoreStays == [Next]_vars => store' = store /\ (UseStore' <=> UseStore)
<1> SUFFICES ASSUME [Next]_vars PROVE store' = store
  BY DEF UseStore
<1>1. ASSUME NEW c \in Call, Step(c) PROVE store' = store
  BY <1>1 DEF Step, Start, Check, Consume, ConsumeRepeats, ConsumeLocally, BackOut, GiveBackRepeats,
     MailSent, MailFails, MailAnswerLost, Refund, StoreRaises, Crash
<1> QED
  BY <1>1 DEF Next, Restart, Midnight, vars

(***************************************************************************)
(* What a refund takes from today's counter, and what it owes for it.      *)
(***************************************************************************)
LEMMA RefundType ==
  ASSUME TypeOK, NEW c \in Call, Refund(c)
  PROVE  /\ count' \in [User -> [Day -> Int]] /\ astray' \in [User -> [Day -> Int]]
         /\ \A u \in User, d \in Day : u # CallerOf[c] \/ d # day =>
              count'[u][d] = count[u][d] /\ astray'[u][d] = astray[u][d]
         /\ LET w == CallerOf[c]
            IN  \/ /\ count'[w][day] = count[w][day] - 1
                   /\ UseStore \/ count[w][day] > 0
                   /\ \/ charged[c] = day /\ c \notin mailed /\ astray'[w][day] = astray[w][day]
                      \/ astray'[w][day] = astray[w][day] + 1
                \/ /\ ~ UseStore /\ count[w][day] <= 0
                   /\ count'[w][day] = count[w][day]
                   /\ astray'[w][day] = astray[w][day]
<1> DEFINE w == CallerOf[c]
<1>1. /\ day \in Day /\ w \in User
      /\ count \in [User -> [Day -> Int]] /\ astray \in [User -> [Day -> Int]]
  BY UserAssumption DEF TypeOK
<1>2. CASE /\ UseStore \/ count[w][day] > 0
           /\ Add(c, day, -1)
           /\ IF charged[c] = day /\ c \notin mailed THEN UNCHANGED astray ELSE Stray(c, day)
  <2>1. /\ count' \in [User -> [Day -> Int]]
        /\ \A u \in User, d \in Day :
             count'[u][d] = IF u = w /\ d = day THEN count[u][d] + (-1) ELSE count[u][d]
    BY <1>1, <1>2, AddType
  <2>2. CASE charged[c] = day /\ c \notin mailed /\ UNCHANGED astray
    BY <1>1, <1>2, <2>1, <2>2
  <2>3. CASE Stray(c, day)
    <3>1. /\ astray' \in [User -> [Day -> Int]]
          /\ \A u \in User, d \in Day :
               astray'[u][d] = IF u = w /\ d = day THEN astray[u][d] + 1 ELSE astray[u][d]
      BY <1>1, <2>3, StrayType
    <3> QED
      BY <1>1, <1>2, <2>1, <3>1
  <2> QED
    BY <1>2, <2>2, <2>3
<1>3. CASE ~ UseStore /\ count[w][day] <= 0 /\ UNCHANGED <<count, astray>>
  BY <1>1, <1>3
<1> QED
  BY <1>2, <1>3 DEF Refund, Counter

LEMMA ProceedType ==
  ASSUME TypeOK, NEW c \in Call, NEW l \in {"backout", "send", "refused", "failed"}, Proceed(c, l)
  PROVE  /\ pc' \in [Call -> {"start"} \union Open \union Done]
         /\ faults' \in 0..MaxFaults
         /\ pc' = [pc EXCEPT ![c] = l] \/ pc' = [pc EXCEPT ![c] = "broken"]
BY BoundAssumption DEF Proceed, Goto, Fault, TypeOK, Open, Done

(***************************************************************************)
(* Every step keeps every variable in its range.                           *)
(***************************************************************************)
LEMMA TypeStep == TypeInv /\ [Next]_vars => TypeInv'
<1> SUFFICES ASSUME TypeInv, [Next]_vars
             PROVE  TypeInv'
  OBVIOUS
<1> USE DEF TypeInv, TypeOK, LocalsOK, Charged, UseStore
<1>1. ASSUME NEW c \in Call, Start(c)
      PROVE  TypeInv'
  BY <1>1 DEF Start, Goto, Open, Done
<1>2. ASSUME NEW c \in Call, Check(c)
      PROVE  TypeInv'
  BY <1>2 DEF Check, Goto, Open, Done
<1>3. ASSUME NEW c \in Call, Consume(c)
      PROVE  TypeInv'
  <2>1. /\ UseStore /\ pc[c] = "consume" /\ day \in Day
        /\ Add(c, day, 1)
        /\ charged' = [charged EXCEPT ![c] = day]
        /\ UNCHANGED <<store, day, mailed, astray>>
    BY <1>3 DEF Consume
  <2>2. PICK l \in {"backout", "send"} : Proceed(c, l)
    BY <1>3 DEF Consume
  <2>3. count' \in [User -> [Day -> Int]]
    BY <2>1, AddType
  <2>4. /\ pc' \in [Call -> {"start"} \union Open \union Done]
        /\ faults' \in 0..MaxFaults
        /\ pc' = [pc EXCEPT ![c] = l] \/ pc' = [pc EXCEPT ![c] = "broken"]
    BY <2>2, ProceedType
  <2> QED
    BY <2>1, <2>3, <2>4
<1>4. ASSUME NEW c \in Call, ConsumeRepeats(c)
      PROVE  TypeInv'
  <2>1. count' \in [User -> [Day -> Int]]
    BY <1>4, AddType DEF ConsumeRepeats
  <2> QED
    BY <1>4, <2>1, BoundAssumption DEF ConsumeRepeats, Fault
<1>5. ASSUME NEW c \in Call, ConsumeLocally(c)
      PROVE  TypeInv'
  <2>1. count' \in [User -> [Day -> Int]]
    BY <1>5, AddType DEF ConsumeLocally
  <2> QED
    BY <1>5, <2>1 DEF ConsumeLocally, Goto, Open, Done
<1>6. ASSUME NEW c \in Call, BackOut(c)
      PROVE  TypeInv'
  <2>1. count' \in [User -> [Day -> Int]]
    BY <1>6, AddType DEF BackOut
  <2>2. /\ pc' \in [Call -> {"start"} \union Open \union Done]
        /\ faults' \in 0..MaxFaults
        /\ pc' = [pc EXCEPT ![c] = "refused"] \/ pc' = [pc EXCEPT ![c] = "broken"]
    BY <1>6, ProceedType DEF BackOut
  <2> QED
    BY <1>6, <2>1, <2>2 DEF BackOut
<1>7. ASSUME NEW c \in Call, MailSent(c) \/ MailFails(c) \/ MailAnswerLost(c)
      PROVE  TypeInv'
  BY <1>7, BoundAssumption DEF MailSent, MailFails, MailAnswerLost, Goto, Fault, Open, Done
<1>8. ASSUME NEW c \in Call, Refund(c)
      PROVE  TypeInv'
  <2>1. count' \in [User -> [Day -> Int]] /\ astray' \in [User -> [Day -> Int]]
    BY <1>8, RefundType
  <2>2. /\ pc' \in [Call -> {"start"} \union Open \union Done]
        /\ faults' \in 0..MaxFaults
        /\ pc' = [pc EXCEPT ![c] = "failed"] \/ pc' = [pc EXCEPT ![c] = "broken"]
    BY <1>8, ProceedType DEF Refund
  <2> QED
    BY <1>8, <2>1, <2>2 DEF Refund
<1>9. ASSUME NEW c \in Call, StoreRaises(c) \/ Crash(c)
      PROVE  TypeInv'
  BY <1>9, BoundAssumption DEF StoreRaises, Crash, Goto, Fault, Open, Done
<1>10. ASSUME Restart
       PROVE  TypeInv'
  <2>1. count' \in [User -> [Day -> Int]] /\ astray' \in [User -> [Day -> Int]]
    BY <1>10 DEF Restart
  <2> QED
    BY <1>10, <2>1, BoundAssumption DEF Restart, Fault, Open, Done
<1>11. ASSUME NEW c \in Call, GiveBackRepeats(c)
       PROVE  TypeInv'
  <2>1. PICK d \in Day : Add(c, d, -1) /\ Stray(c, d)
    <3>1. (IF pc[c] = "backout" THEN charged[c] ELSE day) \in Day
      OBVIOUS
    <3> QED
      BY <1>11, <3>1 DEF GiveBackRepeats
  <2>2. count' \in [User -> [Day -> Int]] /\ astray' \in [User -> [Day -> Int]]
    BY <2>1, AddType, StrayType
  <2> QED
    BY <1>11, <2>2, BoundAssumption DEF GiveBackRepeats, Fault
<1>12. ASSUME Midnight
       PROVE  TypeInv'
  BY <1>12, BoundAssumption DEF Midnight, Day
<1>13. ASSUME UNCHANGED vars
       PROVE  TypeInv'
  BY <1>13 DEF vars
<1> HIDE DEF TypeInv, TypeOK, LocalsOK, Charged, UseStore
<1> QED
  BY <1>1, <1>2, <1>3, <1>4, <1>5, <1>6, <1>7, <1>8, <1>9, <1>10, <1>11, <1>12, <1>13 DEF Next, Step

LEMMA TypeInvariance == Spec => []TypeInv
<1>1. Init => TypeInv
  BY BoundAssumption DEF Init, TypeInv, TypeOK, LocalsOK, Charged, Day
<1> QED
  BY <1>1, TypeStep, PTL DEF Spec

(***************************************************************************)
(* Every variable of the tool and its counters keeps to its range.         *)
(***************************************************************************)
THEOREM TypeCorrect == Spec => []TypeOK
<1>1. TypeInv => TypeOK
  BY DEF TypeInv
<1> QED
  BY <1>1, TypeInvariance, PTL

-----------------------------------------------------------------------------
(***************************************************************************)
(* In memory a step that lowers a counter found it above zero: only a      *)
(* refund does, a back-out is for DynamoDB.                                *)
(***************************************************************************)
LEMMA NoNegativeStep == TypeInv /\ NoNegativeCounter /\ [Next]_vars => NoNegativeCounter'
<1> SUFFICES ASSUME TypeInv, NoNegativeCounter, [Next]_vars, ~ UseStore,
                    NEW u \in User, NEW d \in Day
             PROVE  count'[u][d] >= 0
  BY StoreStays DEF NoNegativeCounter
<1>1. TypeOK /\ day \in Day /\ count[u][d] \in Int /\ count[u][d] >= 0
  BY DEF TypeInv, TypeOK, NoNegativeCounter
<1>2. ASSUME NEW c \in Call, NEW n \in {1, -1}, Add(c, day, n), n = 1 \/ Counter(c) > 0
      PROVE  count'[u][d] >= 0
  BY <1>1, <1>2, AddType DEF Counter
<1>3. ASSUME NEW c \in Call, ConsumeLocally(c)
      PROVE  count'[u][d] >= 0
  BY <1>1, <1>2, <1>3 DEF ConsumeLocally
<1>4. ASSUME NEW c \in Call, Refund(c)
      PROVE  count'[u][d] >= 0
  BY <1>1, <1>2, <1>4 DEF Refund
<1>5. ASSUME NEW c \in Call, Start(c) \/ Check(c) \/ MailSent(c) \/ MailFails(c) \/ MailAnswerLost(c)
      PROVE  count'[u][d] >= 0
  BY <1>1, <1>5 DEF Start, Check, MailSent, MailFails, MailAnswerLost
<1>6. ASSUME Restart
      PROVE  count'[u][d] >= 0
  BY <1>6 DEF Restart
<1>7. ASSUME Midnight \/ UNCHANGED vars
      PROVE  count'[u][d] >= 0
  BY <1>1, <1>7 DEF Midnight, vars
<1>8. \A c \in Call : ~ (Consume(c) \/ ConsumeRepeats(c) \/ BackOut(c) \/ GiveBackRepeats(c)
                        \/ StoreRaises(c) \/ Crash(c))
  BY DEF Consume, ConsumeRepeats, BackOut, GiveBackRepeats, StoreRaises, Crash, TypeInv, LocalsOK
<1> QED
  BY <1>3, <1>4, <1>5, <1>6, <1>7, <1>8 DEF Next, Step

(***************************************************************************)
(* No refund takes a counter in memory below zero, whatever the order of   *)
(* charges, refunds, midnights and restarts.                               *)
(***************************************************************************)
THEOREM NeverNegative == Spec => []NoNegativeCounter
<1>1. Init => NoNegativeCounter
  BY DEF Init, NoNegativeCounter
<1> QED
  BY <1>1, NoNegativeStep, TypeInvariance, PTL DEF Spec

-----------------------------------------------------------------------------
(***************************************************************************)
(* The calls that use a unit of the counter of u on day d: those in flight *)
(* and those that sent an email; and the calls that were let through.      *)
(***************************************************************************)
Using(u, d) == Holding(u, d) \union Sent(u, d)

Admitted(u, d) ==
  {c \in Call : /\ CallerOf[c] = u
                /\ charged[c] = d
                /\ pc[c] \in {"send", "sent"} \/ c \in mailed}

AtMost(S, n) == IsFiniteSet(S) /\ Cardinality(S) <= n

CoverInv ==
  /\ \A c \in mailed : pc[c] \in {"sent", "refund", "failed", "broken"}
  /\ \A u \in User, d \in Day : AtMost(Using(u, d), count[u][d] + astray[u][d])
  /\ \A u \in User, d \in Day : AtMost(Admitted(u, d), Limit[u] + astray[u][d])

LEMMA FewerThan ==
  ASSUME NEW S, NEW n \in Int, AtMost(S, n), NEW T, T \subseteq S, NEW m \in Int, n <= m
  PROVE  AtMost(T, m)
<1>1. /\ IsFiniteSet(T) /\ Cardinality(T) <= Cardinality(S)
      /\ Cardinality(S) \in Nat /\ Cardinality(T) \in Nat
  BY FS_Subset, FS_CardinalityType DEF AtMost
<1> QED
  BY <1>1 DEF AtMost

LEMMA OneMore ==
  ASSUME NEW S, NEW n \in Int, AtMost(S, n), NEW x, NEW T, T \subseteq S \union {x}
  PROVE  AtMost(T, n + 1)
<1>1. /\ IsFiniteSet(S \union {x})
      /\ Cardinality(S \union {x}) = IF x \in S THEN Cardinality(S) ELSE Cardinality(S) + 1
  BY FS_AddElement DEF AtMost
<1>2. Cardinality(S) \in Nat
  BY FS_CardinalityType DEF AtMost
<1>3. AtMost(S \union {x}, n + 1)
  BY <1>1, <1>2 DEF AtMost
<1> QED
  BY <1>3, FewerThan

LEMMA OneLess ==
  ASSUME NEW S, NEW n \in Int, AtMost(S, n), NEW x \in S, NEW T, T \subseteq S \ {x}
  PROVE  AtMost(T, n - 1)
<1>1. IsFiniteSet(S \ {x}) /\ Cardinality(S \ {x}) = Cardinality(S) - 1
  BY FS_RemoveElement DEF AtMost
<1>2. Cardinality(S) \in Nat
  BY FS_CardinalityType DEF AtMost
<1>3. AtMost(S \ {x}, n - 1)
  BY <1>1, <1>2 DEF AtMost
<1> QED
  BY <1>3, FewerThan

(***************************************************************************)
(* A step that takes no call in and gives up no more than it owns to.      *)
(***************************************************************************)
Eases(u, d) ==
  /\ Using(u, d)' \subseteq Using(u, d)
  /\ Admitted(u, d)' \subseteq Admitted(u, d)
  /\ count'[u][d] + astray'[u][d] >= count[u][d] + astray[u][d]
  /\ astray'[u][d] >= astray[u][d]

LEMMA EasesKeeps ==
  ASSUME TypeInv, TypeInv', CoverInv, NEW u \in User, NEW d \in Day, Eases(u, d)
  PROVE  /\ AtMost(Using(u, d), count[u][d] + astray[u][d])'
         /\ AtMost(Admitted(u, d), Limit[u] + astray[u][d])'
<1>1. /\ count[u][d] + astray[u][d] \in Int /\ count'[u][d] + astray'[u][d] \in Int
      /\ Limit[u] + astray[u][d] \in Int /\ Limit[u] + astray'[u][d] \in Int
      /\ count[u][d] + astray[u][d] <= count'[u][d] + astray'[u][d]
      /\ Limit[u] + astray[u][d] <= Limit[u] + astray'[u][d]
  BY UserAssumption DEF TypeInv, TypeOK, Eases
<1>2. /\ AtMost(Using(u, d), count[u][d] + astray[u][d])
      /\ AtMost(Admitted(u, d), Limit[u] + astray[u][d])
  BY DEF CoverInv
<1>3. AtMost(Using(u, d)', count'[u][d] + astray'[u][d])
  BY <1>1, <1>2, FewerThan DEF Eases
<1>4. AtMost(Admitted(u, d)', Limit[u] + astray'[u][d])
  BY <1>1, <1>2, FewerThan DEF Eases
<1> QED
  BY <1>3, <1>4 DEF AtMost

(***************************************************************************)
(* A call is charged, and let through if the counter is within the limit.  *)
(***************************************************************************)
LEMMA ChargeCovers ==
  ASSUME TypeInv, TypeInv', CoverInv, NEW c \in Call, pc[c] = "consume",
         Add(c, day, 1), charged' = [charged EXCEPT ![c] = day], UNCHANGED <<mailed, astray>>,
         pc'[c] \in {"backout", "send", "broken"},
         pc'[c] = "send" => count[CallerOf[c]][day] + 1 <= Limit[CallerOf[c]],
         \A b \in Call \ {c} : pc'[b] = pc[b]
  PROVE  CoverInv'
<1> DEFINE w == CallerOf[c]
<1>1. /\ day \in Day /\ w \in User /\ c \notin mailed
      /\ \A b \in Call \ {c} : charged'[b] = charged[b]
      /\ charged'[c] = day
  BY UserAssumption DEF TypeInv, TypeOK, CoverInv
<1>2. \A u \in User, d \in Day :
        count'[u][d] = IF u = w /\ d = day THEN count[u][d] + 1 ELSE count[u][d]
  BY <1>1, AddType DEF TypeInv
<1>3. ASSUME NEW u \in User, NEW d \in Day
      PROVE  /\ AtMost(Using(u, d), count[u][d] + astray[u][d])'
             /\ AtMost(Admitted(u, d), Limit[u] + astray[u][d])'
  <2>1. /\ AtMost(Using(u, d), count[u][d] + astray[u][d])
        /\ AtMost(Admitted(u, d), Limit[u] + astray[u][d])
        /\ count[u][d] \in Int /\ count'[u][d] \in Int
        /\ Limit[u] \in Int /\ astray[u][d] \in Int
    BY UserAssumption DEF CoverInv, TypeInv, TypeOK
  <2>2. CASE u = w /\ d = day
    <3>1. Using(u, d)' \subseteq Using(u, d) \union {c}
      BY <1>1 DEF Using, Holding, Sent
    <3>2. AtMost(Using(u, d)', count'[u][d] + astray[u][d])
      <4>3. count[u][d] + astray[u][d] \in Int
        BY <2>1
      <4>1. AtMost(Using(u, d)', (count[u][d] + astray[u][d]) + 1)
        BY <2>1, <3>1, <4>3, OneMore
      <4>2. (count[u][d] + astray[u][d]) + 1 = count'[u][d] + astray[u][d]
        BY <1>2, <2>1, <2>2
      <4> QED
        BY <4>1, <4>2
    <3>3. AtMost(Admitted(u, d)', Limit[u] + astray[u][d])
      <4>1. CASE pc'[c] = "send"
        <5>1. Admitted(u, d)' \subseteq Using(u, d)'
          BY DEF Admitted, Using, Holding, Sent
        <5>2. count'[u][d] + astray[u][d] <= Limit[u] + astray[u][d]
          BY <1>2, <2>1, <2>2, <4>1
        <5> QED
          BY <2>1, <3>2, <5>1, <5>2, FewerThan
      <4>2. CASE pc'[c] # "send"
        <5>1. Admitted(u, d)' \subseteq Admitted(u, d)
          BY <1>1, <4>2 DEF Admitted
        <5> QED
          BY <2>1, <5>1, FewerThan
      <4> QED
        BY <4>1, <4>2
    <3> QED
      BY <3>2, <3>3 DEF AtMost
  <2>3. CASE ~ (u = w /\ d = day)
    <3>1. Using(u, d)' \subseteq Using(u, d) /\ Admitted(u, d)' \subseteq Admitted(u, d)
      BY <1>1, <2>3 DEF Using, Holding, Sent, Admitted
    <3>2. count'[u][d] = count[u][d] /\ astray' = astray
      BY <1>2, <2>3
    <3> QED
      BY <2>1, <3>1, <3>2, EasesKeeps DEF Eases
  <2> QED
    BY <2>2, <2>3
<1>4. \A b \in mailed' : pc'[b] \in {"sent", "refund", "failed", "broken"}
  BY <1>1 DEF CoverInv, TypeInv, TypeOK
<1> QED
  BY <1>3, <1>4 DEF CoverInv

(***************************************************************************)
(* A call that used a unit of day e gives it back.                         *)
(***************************************************************************)
LEMMA GiveBackCovers ==
  ASSUME TypeInv, TypeInv', CoverInv, NEW c \in Call, pc[c] \in {"backout", "refund"},
         c \notin mailed, NEW e \in Day, e = charged[c],
         \A u \in User, d \in Day :
           count'[u][d] = IF u = CallerOf[c] /\ d = e THEN count[u][d] - 1 ELSE count[u][d],
         UNCHANGED <<charged, mailed, astray>>,
         pc'[c] \in {"refused", "failed", "broken"},
         \A b \in Call \ {c} : pc'[b] = pc[b]
  PROVE  CoverInv'
<1>1. ASSUME NEW u \in User, NEW d \in Day
      PROVE  /\ AtMost(Using(u, d), count[u][d] + astray[u][d])'
             /\ AtMost(Admitted(u, d), Limit[u] + astray[u][d])'
  <2>1. /\ AtMost(Using(u, d), count[u][d] + astray[u][d])
        /\ AtMost(Admitted(u, d), Limit[u] + astray[u][d])
        /\ count[u][d] \in Int /\ count'[u][d] \in Int
        /\ Limit[u] \in Int /\ astray[u][d] \in Int
    BY UserAssumption DEF CoverInv, TypeInv, TypeOK
  <2>2. Using(u, d)' \subseteq Using(u, d) /\ Admitted(u, d)' \subseteq Admitted(u, d)
    BY DEF Using, Holding, Sent, Admitted
  <2>3. CASE u = CallerOf[c] /\ d = e
    <3>1. c \in Using(u, d) /\ Using(u, d)' \subseteq Using(u, d) \ {c}
      BY <2>2, <2>3 DEF Using, Holding, Sent
    <3>2. AtMost(Using(u, d)', count[u][d] + astray[u][d] - 1)
      BY <2>1, <3>1, OneLess
    <3>3. count[u][d] + astray[u][d] - 1 = count'[u][d] + astray'[u][d]
      BY <2>1, <2>3
    <3>4. AtMost(Using(u, d)', count'[u][d] + astray'[u][d])
      BY <3>2, <3>3
    <3>5. AtMost(Admitted(u, d)', Limit[u] + astray'[u][d])
      BY <2>1, <2>2, FewerThan
    <3> QED
      BY <3>4, <3>5 DEF AtMost
  <2>4. CASE ~ (u = CallerOf[c] /\ d = e)
    <3>1. Eases(u, d)
      BY <2>1, <2>2, <2>4 DEF Eases
    <3> QED
      BY <3>1, EasesKeeps
  <2> QED
    BY <2>3, <2>4
<1>2. \A b \in mailed' : pc'[b] \in {"sent", "refund", "failed", "broken"}
  BY DEF CoverInv, TypeInv, TypeOK
<1> QED
  BY <1>1, <1>2 DEF CoverInv

LEMMA CoverStep == TypeInv /\ TypeInv' /\ NoNegativeCounter /\ CoverInv /\ [Next]_vars => CoverInv'
<1> SUFFICES ASSUME TypeInv, TypeInv', NoNegativeCounter, CoverInv, [Next]_vars
             PROVE  CoverInv'
  OBVIOUS
<1>t. /\ day \in Day /\ charged \in [Call -> Day \union {0}] /\ mailed \subseteq Call
      /\ pc \in [Call -> {"start"} \union Open \union Done] /\ CallerOf \in [Call -> User]
      /\ \A u \in User, d \in Day : count[u][d] \in Int /\ astray[u][d] \in Int
  BY UserAssumption DEF TypeInv, TypeOK
<1>e. ASSUME \A u \in User, d \in Day : Eases(u, d),
             \A b \in mailed' : pc'[b] \in {"sent", "refund", "failed", "broken"}
      PROVE  CoverInv'
  <2>1. ASSUME NEW u \in User, NEW d \in Day
        PROVE  /\ AtMost(Using(u, d), count[u][d] + astray[u][d])'
               /\ AtMost(Admitted(u, d), Limit[u] + astray[u][d])'
    <3>1. Eases(u, d)
      BY <1>e
    <3> QED
      BY <3>1, EasesKeeps
  <2> QED
    BY <1>e, <2>1 DEF CoverInv
<1>1. ASSUME NEW c \in Call, Start(c) \/ Check(c) \/ MailSent(c) \/ MailFails(c) \/ MailAnswerLost(c)
                              \/ StoreRaises(c) \/ Crash(c)
      PROVE  CoverInv'
  <2>1. UNCHANGED <<count, charged, astray>>
    BY <1>1 DEF Start, Check, MailSent, MailFails, MailAnswerLost, StoreRaises, Crash
  <2>2. /\ mailed' \subseteq mailed \union {c} /\ (c \in mailed' => c \in mailed \/ pc[c] = "send")
        /\ \A b \in Call \ {c} : pc'[b] = pc[b]
        /\ pc'[c] \in Charged => pc[c] \in {"send", "backout", "refund"}
        /\ pc'[c] \in {"send", "sent"} => pc[c] = "send"
        /\ c \in mailed' => pc'[c] \in {"sent", "refund", "broken"}
    BY <1>1, <1>t DEF Start, Check, MailSent, MailFails, MailAnswerLost, StoreRaises, Crash, Goto,
                       Open, Charged, CoverInv
  <2>3. ASSUME NEW u \in User, NEW d \in Day PROVE Eases(u, d)
    <3>1. Using(u, d)' \subseteq Using(u, d) /\ Admitted(u, d)' \subseteq Admitted(u, d)
      BY <1>t, <2>1, <2>2 DEF Using, Holding, Sent, Admitted, Charged
    <3> QED
      BY <1>t, <2>1, <3>1 DEF Eases
  <2>4. \A b \in mailed' : pc'[b] \in {"sent", "refund", "failed", "broken"}
    BY <1>t, <2>2 DEF CoverInv
  <2> QED
    BY <1>e, <2>3, <2>4
<1>2. ASSUME NEW c \in Call, Consume(c) PROVE CoverInv'
  <2>1. /\ pc[c] = "consume" /\ Add(c, day, 1) /\ charged' = [charged EXCEPT ![c] = day]
        /\ UNCHANGED <<mailed, astray>>
        /\ \/ Proceed(c, "backout")
           \/ count[CallerOf[c]][day] + 1 <= Limit[CallerOf[c]] /\ Proceed(c, "send")
    BY <1>2, <1>t, UserAssumption DEF Consume, Counter, LimitOf
  <2>2. /\ pc'[c] \in {"backout", "send", "broken"}
        /\ pc'[c] = "send" => count[CallerOf[c]][day] + 1 <= Limit[CallerOf[c]]
        /\ \A b \in Call \ {c} : pc'[b] = pc[b]
    BY <1>t, <2>1, ProceedType DEF TypeInv
  <2> QED
    BY <2>1, <2>2, ChargeCovers
<1>3. ASSUME NEW c \in Call, ConsumeRepeats(c) PROVE CoverInv'
  <2>1. UNCHANGED <<pc, charged, mailed, astray>> /\ Add(c, day, 1)
    BY <1>3 DEF ConsumeRepeats
  <2>2. \A u \in User, d \in Day :
          count'[u][d] = IF u = CallerOf[c] /\ d = day THEN count[u][d] + 1 ELSE count[u][d]
    BY <1>t, <2>1, AddType DEF TypeInv
  <2>3. ASSUME NEW u \in User, NEW d \in Day PROVE Eases(u, d)
    BY <1>t, <2>1, <2>2 DEF Eases, Using, Holding, Sent, Admitted
  <2> QED
    BY <1>e, <2>1, <2>3 DEF CoverInv
<1>4. ASSUME NEW c \in Call, ConsumeLocally(c) PROVE CoverInv'
  <2>1. CASE Goto(c, "refused") /\ UNCHANGED <<count, charged, mailed, astray>> /\ pc[c] = "consume"
    <3>1. /\ \A b \in Call \ {c} : pc'[b] = pc[b]
          /\ pc'[c] = "refused" /\ c \notin mailed
      BY <1>t, <2>1 DEF Goto, CoverInv
    <3>2. ASSUME NEW u \in User, NEW d \in Day PROVE Eases(u, d)
      BY <1>t, <2>1, <3>1 DEF Eases, Using, Holding, Sent, Admitted
    <3>3. \A b \in mailed' : pc'[b] \in {"sent", "refund", "failed", "broken"}
      BY <1>t, <2>1, <3>1 DEF CoverInv
    <3> QED
      BY <1>e, <3>2, <3>3
  <2>2. CASE /\ count[CallerOf[c]][day] < Limit[CallerOf[c]] /\ pc[c] = "consume"
             /\ Add(c, day, 1) /\ charged' = [charged EXCEPT ![c] = day] /\ Goto(c, "send")
             /\ UNCHANGED <<mailed, astray>>
    <3>1. count[CallerOf[c]][day] + 1 <= Limit[CallerOf[c]]
      BY <1>t, <2>2, UserAssumption
    <3>2. pc'[c] = "send" /\ \A b \in Call \ {c} : pc'[b] = pc[b]
      BY <1>t, <2>2 DEF Goto
    <3> QED
      BY <2>2, <3>1, <3>2, ChargeCovers
  <2> QED
    BY <1>4, <2>1, <2>2 DEF ConsumeLocally, Counter, LimitOf
<1>5. ASSUME NEW c \in Call, BackOut(c) PROVE CoverInv'
  <2>1. /\ pc[c] = "backout" /\ charged[c] \in Day /\ c \notin mailed
        /\ Add(c, charged[c], -1) /\ Proceed(c, "refused") /\ UNCHANGED <<charged, mailed, astray>>
    BY <1>5 DEF BackOut, CoverInv, TypeInv, LocalsOK, Charged
  <2>2. \A u \in User, d \in Day :
          count'[u][d] = IF u = CallerOf[c] /\ d = charged[c] THEN count[u][d] + (-1) ELSE count[u][d]
    BY <2>1, AddType DEF TypeInv
  <2>3. \A u \in User, d \in Day :
          count'[u][d] = IF u = CallerOf[c] /\ d = charged[c] THEN count[u][d] - 1 ELSE count[u][d]
    BY <1>t, <2>2
  <2>4. pc'[c] \in {"refused", "broken"} /\ \A b \in Call \ {c} : pc'[b] = pc[b]
    BY <1>t, <2>1, ProceedType DEF TypeInv
  <2> QED
    BY <2>1, <2>3, <2>4, GiveBackCovers
<1>6. ASSUME NEW c \in Call, GiveBackRepeats(c) PROVE CoverInv'
  <2>1. PICK e \in Day : Add(c, e, -1) /\ Stray(c, e)
    <3>1. (IF pc[c] = "backout" THEN charged[c] ELSE day) \in Day
      BY <1>t DEF TypeInv, LocalsOK, Charged
    <3> QED
      BY <1>6, <3>1 DEF GiveBackRepeats
  <2>2. UNCHANGED <<pc, charged, mailed>>
    BY <1>6 DEF GiveBackRepeats
  <2>3. \A u \in User, d \in Day :
          /\ count'[u][d] = IF u = CallerOf[c] /\ d = e THEN count[u][d] + (-1) ELSE count[u][d]
          /\ astray'[u][d] = IF u = CallerOf[c] /\ d = e THEN astray[u][d] + 1 ELSE astray[u][d]
    BY <2>1, AddType, StrayType DEF TypeInv
  <2>4. ASSUME NEW u \in User, NEW d \in Day PROVE Eases(u, d)
    BY <1>t, <2>2, <2>3 DEF Eases, Using, Holding, Sent, Admitted
  <2> QED
    BY <1>e, <2>2, <2>4 DEF CoverInv
<1>7. ASSUME NEW c \in Call, Refund(c) PROVE CoverInv'
  <2> DEFINE w == CallerOf[c]
  <2>1. /\ pc[c] = "refund" /\ charged[c] \in Day /\ w \in User
        /\ Proceed(c, "failed") /\ UNCHANGED <<charged, mailed>>
    BY <1>7, <1>t DEF Refund, TypeInv, LocalsOK, Charged
  <2>2. pc'[c] \in {"failed", "broken"} /\ \A b \in Call \ {c} : pc'[b] = pc[b]
    BY <1>t, <2>1, ProceedType DEF TypeInv
  <2>3. /\ astray \in [User -> [Day -> Int]] /\ astray' \in [User -> [Day -> Int]]
        /\ \A u \in User, d \in Day : u # w \/ d # day =>
             count'[u][d] = count[u][d] /\ astray'[u][d] = astray[u][d]
    BY <1>7, RefundType DEF TypeInv, TypeOK
  <2>4. CASE /\ charged[c] = day /\ c \notin mailed
             /\ count'[w][day] = count[w][day] - 1 /\ astray'[w][day] = astray[w][day]
    <3>1. astray' = astray
      <4>1. \A u \in User, d \in Day : astray'[u][d] = astray[u][d]
        BY <2>3, <2>4
      <4>2. ASSUME NEW u \in User PROVE astray'[u] = astray[u]
        BY <2>3, <4>1
      <4> QED
        BY <2>3, <4>2
    <3>2. \A u \in User, d \in Day :
            count'[u][d] = IF u = w /\ d = day THEN count[u][d] - 1 ELSE count[u][d]
      BY <2>3, <2>4
    <3> QED
      BY <1>t, <2>1, <2>2, <2>4, <3>1, <3>2, GiveBackCovers
  <2>5. CASE \/ count'[w][day] = count[w][day] - 1 /\ astray'[w][day] = astray[w][day] + 1
             \/ count'[w][day] = count[w][day] /\ astray'[w][day] = astray[w][day]
    <3>1. ASSUME NEW u \in User, NEW d \in Day PROVE Eases(u, d)
      <4>1. Using(u, d)' \subseteq Using(u, d) /\ Admitted(u, d)' \subseteq Admitted(u, d)
        BY <1>t, <2>1, <2>2 DEF Using, Holding, Sent, Admitted
      <4>2. CASE u = w /\ d = day
        BY <1>t, <2>5, <4>1, <4>2 DEF Eases
      <4>3. CASE u # w \/ d # day
        BY <1>t, <2>3, <4>1, <4>3 DEF Eases
      <4> QED
        BY <4>2, <4>3
    <3>2. \A b \in mailed' : pc'[b] \in {"sent", "refund", "failed", "broken"}
      BY <1>t, <2>1, <2>2 DEF CoverInv
    <3> QED
      BY <1>e, <3>1, <3>2
  <2> QED
    BY <1>7, <2>4, <2>5, RefundType DEF TypeInv
<1>8. ASSUME Restart PROVE CoverInv'
  <2>1. /\ ~ UseStore /\ UNCHANGED <<charged, mailed>>
        /\ \A u \in User, d \in Day : count'[u][d] = 0 /\ astray'[u][d] = astray[u][d] + count[u][d]
        /\ \A b \in Call : pc'[b] = IF pc[b] \in Open THEN "broken" ELSE pc[b]
    BY <1>8 DEF Restart
  <2>2. ASSUME NEW u \in User, NEW d \in Day PROVE Eases(u, d)
    <3>1. Using(u, d)' \subseteq Using(u, d) /\ Admitted(u, d)' \subseteq Admitted(u, d)
      BY <1>t, <2>1 DEF Using, Holding, Sent, Admitted, Open
    <3>2. count[u][d] >= 0
      BY <2>1 DEF NoNegativeCounter
    <3> QED
      BY <1>t, <2>1, <3>1, <3>2 DEF Eases
  <2>3. \A b \in mailed' : pc'[b] \in {"sent", "refund", "failed", "broken"}
    BY <1>t, <2>1 DEF CoverInv, Open
  <2> QED
    BY <1>e, <2>2, <2>3
<1>9. ASSUME Midnight \/ UNCHANGED vars PROVE CoverInv'
  <2>1. UNCHANGED <<count, pc, charged, mailed, astray>>
    BY <1>9 DEF Midnight, vars
  <2> QED
    BY <2>1 DEF CoverInv, AtMost, Using, Holding, Sent, Admitted
<1> QED
  BY <1>1, <1>2, <1>3, <1>4, <1>5, <1>6, <1>7, <1>8, <1>9 DEF Next, Step

LEMMA CoverInit == Init => CoverInv
<1> SUFFICES ASSUME Init PROVE CoverInv
  OBVIOUS
<1>1. ASSUME NEW u \in User, NEW d \in Day
      PROVE  /\ AtMost(Using(u, d), count[u][d] + astray[u][d])
             /\ AtMost(Admitted(u, d), Limit[u] + astray[u][d])
  <2>1. Using(u, d) = {} /\ Admitted(u, d) = {}
    BY DEF Init, Using, Holding, Sent, Admitted
  <2>2. AtMost({}, 0)
    BY FS_EmptySet DEF AtMost
  <2>3. count[u][d] + astray[u][d] = 0 /\ Limit[u] + astray[u][d] \in Int
        /\ 0 <= Limit[u] + astray[u][d]
    BY UserAssumption DEF Init
  <2> QED
    BY <2>1, <2>2, <2>3, FewerThan
<1>2. mailed = {}
  BY DEF Init
<1> QED
  BY <1>1, <1>2 DEF CoverInv

LEMMA CoverInvariance == Spec => [](TypeInv /\ CoverInv)
<1>1. TypeInv /\ TypeInv' /\ NoNegativeCounter /\ CoverInv /\ [Next]_vars => CoverInv'
  BY CoverStep
<1> QED
  BY <1>1, CoverInit, TypeInvariance, NeverNegative, PTL DEF Spec

LEMMA AdmittedSent == TypeInv /\ CoverInv => LimitKept
<1> SUFFICES ASSUME TypeInv, CoverInv, NEW u \in User, NEW d \in Day
             PROVE  Cardinality(Sent(u, d)) <= Limit[u] + astray[u][d]
  BY DEF LimitKept
<1>1. Sent(u, d) \subseteq Admitted(u, d)
  BY DEF Sent, Admitted, TypeInv, TypeOK
<1>2. AtMost(Admitted(u, d), Limit[u] + astray[u][d]) /\ Limit[u] + astray[u][d] \in Int
  BY UserAssumption DEF CoverInv, TypeInv, TypeOK
<1>3. AtMost(Sent(u, d), Limit[u] + astray[u][d])
  BY <1>1, <1>2, FewerThan
<1> QED
  BY <1>3 DEF AtMost

(***************************************************************************)
(* On DynamoDB and in memory, with any number of calls at once and any     *)
(* failures: every email above the limit of its day is matched by a unit   *)
(* that went astray.                                                       *)
(***************************************************************************)
THEOREM LimitIsKept == Spec => []LimitKept
BY AdmittedSent, CoverInvariance, PTL

(***************************************************************************)
(* A counter and the units that went astray from it cover every call in    *)
(* flight and every email sent, whatever fails.                            *)
(***************************************************************************)
THEOREM CounterAlwaysCovers == Spec => []CounterCovers
<1>1. CoverInv => CounterCovers
  BY DEF CoverInv, CounterCovers, Using, AtMost
<1> QED
  BY <1>1, CoverInvariance, PTL

-----------------------------------------------------------------------------
(***************************************************************************)
(* Where no unit can go astray: on DynamoDB, when no email that is counted *)
(* as failed was sent, no decrement is repeated and no refund comes after  *)
(* midnight.                                                               *)
(***************************************************************************)
RefundsAreRight ==
  /\ Stores = {"dynamodb"}
  /\ "gmail_lost" \notin Faults
  /\ "repeat_back" \notin Faults
  /\ "gmail" \in Faults => MaxDay = 1

NothingAstray ==
  /\ \A c \in Call : pc[c] = "refund" => MaxDay = 1
  /\ \A c \in mailed : pc[c] = "sent"
  /\ \A u \in User, d \in Day : astray[u][d] = 0

LEMMA AstrayStep ==
  ASSUME RefundsAreRight
  PROVE  TypeInv /\ TypeInv' /\ NothingAstray /\ [Next]_vars => NothingAstray'
<1> SUFFICES ASSUME TypeInv, TypeInv', NothingAstray, [Next]_vars
             PROVE  NothingAstray'
  OBVIOUS
<1>t. UseStore /\ day \in Day /\ CallerOf \in [Call -> User] /\ mailed \subseteq Call
      /\ pc \in [Call -> {"start"} \union Open \union Done]
  BY UserAssumption DEF TypeInv, TypeOK, UseStore, RefundsAreRight
<1>1. ASSUME NEW c \in Call, Start(c) \/ Check(c) \/ MailSent(c) \/ MailFails(c)
                              \/ StoreRaises(c) \/ Crash(c)
      PROVE  NothingAstray'
  <2>1. /\ UNCHANGED astray
        /\ \A b \in Call : pc'[b] = "refund" => MaxDay = 1
        /\ \A b \in mailed' : pc'[b] = "sent"
    BY <1>1, <1>t DEF Start, Check, MailSent, MailFails, StoreRaises, Crash, Goto, Fault, Open,
                       NothingAstray, RefundsAreRight
  <2> QED
    BY <2>1 DEF NothingAstray
<1>2. ASSUME NEW c \in Call, NEW l \in {"backout", "send", "refused", "failed"},
             pc[c] # "sent", Proceed(c, l), UNCHANGED <<mailed, astray>>
      PROVE  NothingAstray'
  <2>1. /\ pc'[c] \notin {"refund", "sent"}
        /\ \A b \in Call \ {c} : pc'[b] = pc[b]
    BY <1>t, <1>2, ProceedType DEF TypeInv
  <2> QED
    BY <1>t, <1>2, <2>1 DEF NothingAstray
<1>3. ASSUME NEW c \in Call, Consume(c) \/ BackOut(c) PROVE NothingAstray'
  BY <1>2, <1>3 DEF Consume, BackOut
<1>4. ASSUME NEW c \in Call, ConsumeRepeats(c) PROVE NothingAstray'
  BY <1>4 DEF ConsumeRepeats, NothingAstray
<1>5. ASSUME NEW c \in Call, Refund(c) PROVE NothingAstray'
  <2>1. pc[c] = "refund" /\ Proceed(c, "failed") /\ UNCHANGED mailed /\ c \notin mailed
    BY <1>5 DEF Refund, NothingAstray
  <2>2. charged[c] = day
    BY <2>1, BoundAssumption DEF NothingAstray, TypeInv, TypeOK, LocalsOK, Charged, Day
  <2>3. UNCHANGED astray
    BY <1>5, <1>t, <2>1, <2>2 DEF Refund
  <2> QED
    BY <1>2, <2>1, <2>3
<1>6. ASSUME NEW c \in Call, ConsumeLocally(c) \/ MailAnswerLost(c) \/ GiveBackRepeats(c)
      PROVE  FALSE
  BY <1>6, <1>t DEF ConsumeLocally, MailAnswerLost, GiveBackRepeats, Fault, RefundsAreRight
<1>7. ASSUME Midnight \/ UNCHANGED vars PROVE NothingAstray'
  BY <1>7 DEF Midnight, vars, NothingAstray
<1>8. ~ Restart
  BY <1>t DEF Restart
<1> QED
  BY <1>1, <1>3, <1>4, <1>5, <1>6, <1>7, <1>8 DEF Next, Step

(***************************************************************************)
(* There no user sends more emails a day than the limit allows, with any   *)
(* number of calls at once, crashes, raising calls and repeated increments.*)
(***************************************************************************)
THEOREM LimitHolds ==
  ASSUME RefundsAreRight
  PROVE  Spec => []DailyLimitRespected
<1>1. Init => NothingAstray
  BY DEF Init, NothingAstray
<1>2. TypeInv /\ TypeInv' /\ NothingAstray /\ [Next]_vars => NothingAstray'
  BY AstrayStep
<1>3. LimitKept /\ NothingAstray => DailyLimitRespected
  BY UserAssumption DEF LimitKept, NothingAstray, DailyLimitRespected
<1> QED
  BY <1>1, <1>2, <1>3, TypeInvariance, LimitIsKept, PTL DEF Spec

-----------------------------------------------------------------------------
(***************************************************************************)
(* Today's counter is made of the units of calls and of what failures left *)
(* in it, and a day to come has none.                                      *)
(***************************************************************************)
BalanceInv ==
  /\ \A u \in User : count[u][day] <= Cardinality(Holding(u, day)) + Leftover
  /\ \A u \in User, d \in Day : d > day => count[u][d] <= 0

LEMMA HoldingFinite ==
  ASSUME IsFiniteSet(Call), NEW u, NEW d
  PROVE  /\ IsFiniteSet(Holding(u, d)) /\ Cardinality(Holding(u, d)) \in Nat
         /\ IsFiniteSet(Holding(u, d)') /\ Cardinality(Holding(u, d)') \in Nat
BY FS_Subset, FS_CardinalityType DEF Holding

LEMMA FaultsGrow == TypeInv /\ [Next]_vars => faults' >= faults
<1> SUFFICES ASSUME TypeInv, [Next]_vars PROVE faults' >= faults
  OBVIOUS
<1>1. faults \in Nat
  BY BoundAssumption DEF TypeInv, TypeOK
<1>2. ASSUME NEW c \in Call, Step(c) PROVE faults' >= faults
  BY <1>1, <1>2 DEF Step, Start, Check, Consume, ConsumeRepeats, ConsumeLocally, BackOut,
     GiveBackRepeats, MailSent, MailFails, MailAnswerLost, Refund, StoreRaises, Crash, Proceed, Fault
<1> QED
  BY <1>1, <1>2 DEF Next, Restart, Midnight, vars, Fault

(***************************************************************************)
(* Leftovers only grow, on DynamoDB with every failure.                    *)
(***************************************************************************)
LEMMA LeftoverGrows ==
  ASSUME TypeInv, TypeInv', [Next]_vars
  PROVE  /\ Leftover \in Nat /\ Leftover' \in Nat /\ Leftover' >= Leftover
         /\ UseStore /\ faults' = faults + 1 => Leftover' = Leftover + 1
<1>1. faults \in Nat /\ faults' \in Nat
  BY BoundAssumption DEF TypeInv, TypeOK
<1>3. faults' >= faults
  BY FaultsGrow
<1> QED
  BY <1>1, <1>3, StoreStays DEF Leftover

LEMMA Sizes ==
  ASSUME NEW H, NEW G, IsFiniteSet(H), IsFiniteSet(G), NEW c, NEW k \in {-1, 0, 1},
         k = -1 => H \subseteq G \union {c},
         k = 0 => H \subseteq G,
         k = 1 => c \notin H /\ H \union {c} \subseteq G
  PROVE  Cardinality(G) >= Cardinality(H) + k
<1>1. Cardinality(H) \in Nat /\ Cardinality(G) \in Nat
  BY FS_CardinalityType
<1>2. CASE k = -1
  <2>1. /\ IsFiniteSet(G \union {c})
        /\ Cardinality(G \union {c}) = IF c \in G THEN Cardinality(G) ELSE Cardinality(G) + 1
    BY FS_AddElement
  <2>2. Cardinality(H) <= Cardinality(G \union {c})
    BY <1>2, <2>1, FS_Subset
  <2> QED
    BY <1>1, <1>2, <2>1, <2>2
<1>3. CASE k = 0
  <2>1. Cardinality(H) <= Cardinality(G)
    BY <1>3, FS_Subset
  <2> QED
    BY <1>1, <1>3, <2>1
<1>4. CASE k = 1
  <2>1. Cardinality(H \union {c}) = Cardinality(H) + 1
    BY <1>4, FS_AddElement
  <2>2. Cardinality(H \union {c}) <= Cardinality(G)
    BY <1>4, FS_Subset
  <2> QED
    BY <1>1, <1>4, <2>1, <2>2
<1> QED
  BY <1>2, <1>3, <1>4

(***************************************************************************)
(* A step at which a counter gains no more than its holders and the        *)
(* leftovers do.                                                           *)
(***************************************************************************)
LEMMA Balances ==
  ASSUME IsFiniteSet(Call), TypeInv, TypeInv', BalanceInv, [Next]_vars, NEW u \in User, NEW c,
         NEW k \in {-1, 0, 1},
         k = -1 => Holding(u, day) \subseteq Holding(u, day)' \union {c},
         k = 0 => Holding(u, day) \subseteq Holding(u, day)',
         k = 1 => c \notin Holding(u, day) /\ Holding(u, day) \union {c} \subseteq Holding(u, day)',
         count'[u][day] <= count[u][day] + k + (Leftover' - Leftover)
  PROVE  count'[u][day] <= Cardinality(Holding(u, day)') + Leftover'
<1> DEFINE H == Holding(u, day)
           G == Holding(u, day)'
<1>1. /\ IsFiniteSet(H) /\ IsFiniteSet(G)
      /\ Cardinality(H) \in Nat /\ Cardinality(G) \in Nat
  BY HoldingFinite
<1>2. Cardinality(G) >= Cardinality(H) + k
  BY <1>1, Sizes
<1>3. /\ count[u][day] \in Int /\ count'[u][day] \in Int
      /\ count[u][day] <= Cardinality(H) + Leftover
  BY DEF BalanceInv, TypeInv, TypeOK
<1>4. Leftover \in Nat /\ Leftover' \in Nat
  BY LeftoverGrows
<1> HIDE DEF H, G
<1>5. count'[u][day] <= Cardinality(G) + Leftover'
  BY <1>1, <1>2, <1>3, <1>4
<1> QED
  BY <1>5 DEF G

LEMMA BalanceStep ==
  ASSUME IsFiniteSet(Call)
  PROVE  TypeInv /\ TypeInv' /\ BalanceInv /\ [Next]_vars => BalanceInv'
<1> SUFFICES ASSUME TypeInv, TypeInv', BalanceInv, [Next]_vars PROVE BalanceInv'
  OBVIOUS
<1>t. /\ day \in Day /\ CallerOf \in [Call -> User]
      /\ pc \in [Call -> {"start"} \union Open \union Done]
      /\ \A u \in User, d \in Day : count[u][d] \in Int /\ count'[u][d] \in Int
  BY UserAssumption DEF TypeInv, TypeOK
<1>l. /\ Leftover \in Nat /\ Leftover' \in Nat /\ Leftover' >= Leftover
      /\ UseStore /\ faults' = faults + 1 => Leftover' = Leftover + 1
  BY LeftoverGrows
<1>e. ASSUME day' = day,
             \A u \in User : count'[u][day] <= Cardinality(Holding(u, day)') + Leftover',
             \A u \in User, d \in Day : d # day => count'[u][d] <= count[u][d]
      PROVE  BalanceInv'
  <2>1. \A u \in User, d \in Day : d > day' => count'[u][d] <= 0
    BY <1>t, <1>e DEF BalanceInv, Day
  <2>2. \A u \in User : count'[u][day'] <= Cardinality(Holding(u, day)') + Leftover'
    BY <1>e
  <2> QED
    BY <2>1, <2>2 DEF BalanceInv
<1>1. ASSUME NEW c \in Call, Start(c) \/ Check(c) \/ MailSent(c) \/ MailFails(c) \/ MailAnswerLost(c)
      PROVE  BalanceInv'
  <2>1. UNCHANGED <<day, count, charged>>
    BY <1>1 DEF Start, Check, MailSent, MailFails, MailAnswerLost
  <2>2. \A b \in Call : pc[b] \in Charged => pc'[b] \in Charged
    BY <1>1, <1>t DEF Start, Check, MailSent, MailFails, MailAnswerLost, Goto, Charged
  <2>3. ASSUME NEW u \in User
        PROVE  count'[u][day] <= Cardinality(Holding(u, day)') + Leftover'
    <3>1. Holding(u, day) \subseteq Holding(u, day)'
      BY <2>1, <2>2 DEF Holding, Charged
    <3>2. count'[u][day] <= count[u][day] + 0 + (Leftover' - Leftover)
      BY <1>t, <1>l, <2>1
    <3> QED
      BY <3>1, <3>2, Balances
  <2>4. \A u \in User, d \in Day : d # day => count'[u][d] <= count[u][d]
    BY <1>t, <2>1
  <2> QED
    BY <1>e, <2>1, <2>3, <2>4
<1>2. ASSUME NEW c \in Call, pc[c] = "consume", Add(c, day, 1), day' = day,
             \/ /\ pc'[c] \in {"send", "backout"} /\ charged'[c] = day
             \/ UseStore /\ faults' = faults + 1,
             \A b \in Call \ {c} : pc'[b] = pc[b] /\ charged'[b] = charged[b]
      PROVE  BalanceInv'
  <2>1. \A u \in User, d \in Day :
          count'[u][d] = IF u = CallerOf[c] /\ d = day THEN count[u][d] + 1 ELSE count[u][d]
    BY <1>t, <1>2, AddType DEF TypeInv
  <2>2. ASSUME NEW u \in User
        PROVE  count'[u][day] <= Cardinality(Holding(u, day)') + Leftover'
    <3>1. CASE u = CallerOf[c] /\ pc'[c] \in {"send", "backout"} /\ charged'[c] = day
      <4>1. c \notin Holding(u, day) /\ Holding(u, day) \union {c} \subseteq Holding(u, day)'
        BY <1>2, <3>1 DEF Holding
      <4>2. count'[u][day] <= count[u][day] + 1 + (Leftover' - Leftover)
        BY <1>t, <1>l, <2>1
      <4> QED
        BY <4>1, <4>2, Balances
    <3>2. CASE u # CallerOf[c] \/ (UseStore /\ faults' = faults + 1)
      <4>1. Holding(u, day) \subseteq Holding(u, day)'
        BY <1>2 DEF Holding
      <4>2. count'[u][day] <= count[u][day] + 0 + (Leftover' - Leftover)
        BY <1>t, <1>l, <2>1, <3>2
      <4> QED
        BY <4>1, <4>2, Balances
    <3> QED
      BY <1>2, <3>1, <3>2
  <2>3. \A u \in User, d \in Day : d # day => count'[u][d] <= count[u][d]
    BY <1>t, <2>1
  <2> QED
    BY <1>e, <1>2, <2>2, <2>3
<1>3. ASSUME NEW c \in Call, Consume(c) PROVE BalanceInv'
  <2>1. /\ pc[c] = "consume" /\ UseStore /\ Add(c, day, 1) /\ day' = day
        /\ charged' = [charged EXCEPT ![c] = day]
    BY <1>3 DEF Consume
  <2>2. PICK l \in {"backout", "send"} : Proceed(c, l)
    BY <1>3 DEF Consume
  <2>3. /\ pc'[c] \in {"send", "backout"} \/ faults' = faults + 1
        /\ \A b \in Call \ {c} : pc'[b] = pc[b]
    BY <1>t, <2>2 DEF Proceed, Goto, Fault
  <2>4. charged'[c] = day /\ \A b \in Call \ {c} : charged'[b] = charged[b]
    BY <2>1 DEF TypeInv, TypeOK
  <2> QED
    BY <1>2, <2>1, <2>3, <2>4
<1>4. ASSUME NEW c \in Call, ConsumeRepeats(c) PROVE BalanceInv'
  BY <1>2, <1>4 DEF ConsumeRepeats, Fault
<1>5. ASSUME NEW c \in Call, ConsumeLocally(c) PROVE BalanceInv'
  <2>1. CASE pc[c] = "consume" /\ Goto(c, "refused") /\ UNCHANGED <<day, count, charged>>
    <3>1. \A b \in Call : pc[b] \in Charged => pc'[b] \in Charged
      BY <1>t, <2>1 DEF Goto, Charged
    <3>2. ASSUME NEW u \in User
          PROVE  count'[u][day] <= Cardinality(Holding(u, day)') + Leftover'
      <4>1. Holding(u, day) \subseteq Holding(u, day)'
        BY <2>1, <3>1 DEF Holding, Charged
      <4>2. count'[u][day] <= count[u][day] + 0 + (Leftover' - Leftover)
        BY <1>t, <1>l, <2>1
      <4> QED
        BY <4>1, <4>2, Balances
    <3>3. \A u \in User, d \in Day : d # day => count'[u][d] <= count[u][d]
      BY <1>t, <2>1
    <3> QED
      BY <1>e, <2>1, <3>2, <3>3
  <2>2. CASE /\ pc[c] = "consume" /\ Add(c, day, 1) /\ day' = day
             /\ charged' = [charged EXCEPT ![c] = day] /\ Goto(c, "send")
    <3>1. /\ pc'[c] = "send" /\ charged'[c] = day
          /\ \A b \in Call \ {c} : pc'[b] = pc[b] /\ charged'[b] = charged[b]
      BY <1>t, <2>2 DEF Goto, TypeInv, TypeOK
    <3> QED
      BY <1>2, <2>2, <3>1
  <2> QED
    BY <1>5, <2>1, <2>2 DEF ConsumeLocally
<1>6. ASSUME NEW c \in Call, NEW e \in Day, e = day \/ e = charged[c],
             \A u \in User, d \in Day : u # CallerOf[c] \/ d # e => count'[u][d] = count[u][d],
             LET w == CallerOf[c]
             IN  \/ count'[w][e] = count[w][e] - 1
                 \/ e = day /\ count'[w][e] = count[w][e] /\ count[w][e] <= 0,
             UNCHANGED <<day, charged>>, \A b \in Call \ {c} : pc'[b] = pc[b]
      PROVE  BalanceInv'
  <2> DEFINE w == CallerOf[c]
  <2>1. ASSUME NEW u \in User
        PROVE  count'[u][day] <= Cardinality(Holding(u, day)') + Leftover'
    <3>1. Holding(u, day) \subseteq Holding(u, day)' \union {c}
      BY <1>6 DEF Holding
    <3>2. CASE c \notin Holding(u, day)
      <4>1. Holding(u, day) \subseteq Holding(u, day)'
        BY <3>1, <3>2
      <4>2. count'[u][day] <= count[u][day] + 0 + (Leftover' - Leftover)
        BY <1>t, <1>l, <1>6
      <4> QED
        BY <4>1, <4>2, Balances
    <3>3. CASE c \in Holding(u, day) /\ count'[u][day] = count[u][day] - 1
      <4>1. count'[u][day] <= count[u][day] + (-1) + (Leftover' - Leftover)
        BY <1>t, <1>l, <3>3
      <4> QED
        BY <3>1, <4>1, Balances
    <3>4. CASE count'[u][day] <= 0
      BY <1>t, <1>l, <3>4, HoldingFinite
    <3>5. CASE c \in Holding(u, day)
      <4>1. u = w /\ e = day
        BY <1>6, <3>5 DEF Holding
      <4> QED
        BY <1>t, <1>6, <3>3, <3>4, <3>5, <4>1
    <3> QED
      BY <3>2, <3>5
  <2>2. \A u \in User, d \in Day : d # day => count'[u][d] <= count[u][d]
    BY <1>t, <1>6
  <2> QED
    BY <1>e, <1>6, <2>1, <2>2
<1>7. ASSUME NEW c \in Call, NEW d \in Day, Add(c, d, -1)
      PROVE  /\ \A u \in User, f \in Day : u # CallerOf[c] \/ f # d => count'[u][f] = count[u][f]
             /\ count'[CallerOf[c]][d] = count[CallerOf[c]][d] - 1
  <2>1. \A u \in User, f \in Day :
          count'[u][f] = IF u = CallerOf[c] /\ f = d THEN count[u][f] + (-1) ELSE count[u][f]
    BY <1>7, AddType DEF TypeInv
  <2> QED
    BY <1>t, <2>1
<1>8. ASSUME NEW c \in Call, BackOut(c) PROVE BalanceInv'
  <2>1. /\ charged[c] \in Day /\ Add(c, charged[c], -1) /\ Proceed(c, "refused")
        /\ UNCHANGED <<day, charged>>
    BY <1>8 DEF BackOut, TypeInv, LocalsOK, Charged
  <2>2. \A b \in Call \ {c} : pc'[b] = pc[b]
    BY <1>t, <2>1, ProceedType DEF TypeInv
  <2> QED
    BY <1>6, <1>7, <2>1, <2>2
<1>9. ASSUME NEW c \in Call, GiveBackRepeats(c) PROVE BalanceInv'
  <2>1. /\ UNCHANGED <<day, pc, charged>>
        /\ \E e \in Day : (e = day \/ e = charged[c]) /\ Add(c, e, -1)
    BY <1>9, <1>t DEF GiveBackRepeats, TypeInv, LocalsOK, Charged
  <2> QED
    BY <1>6, <1>7, <2>1
<1>10. ASSUME NEW c \in Call, Refund(c) PROVE BalanceInv'
  <2>1. Proceed(c, "failed") /\ UNCHANGED <<day, charged>>
    BY <1>10 DEF Refund
  <2>2. \A b \in Call \ {c} : pc'[b] = pc[b]
    BY <1>t, <2>1, ProceedType DEF TypeInv
  <2>3. /\ \A u \in User, d \in Day : u # CallerOf[c] \/ d # day => count'[u][d] = count[u][d]
        /\ LET w == CallerOf[c]
           IN  \/ count'[w][day] = count[w][day] - 1
               \/ count'[w][day] = count[w][day] /\ count[w][day] <= 0
    BY <1>10, RefundType DEF TypeInv
  <2> QED
    BY <1>t, <1>6, <2>1, <2>2, <2>3
<1>11. ASSUME NEW c \in Call, StoreRaises(c) \/ Crash(c) PROVE BalanceInv'
  <2>1. /\ UseStore /\ faults' = faults + 1 /\ UNCHANGED <<day, count, charged>>
        /\ \A b \in Call \ {c} : pc'[b] = pc[b]
    BY <1>11, <1>t DEF StoreRaises, Crash, Fault, Goto
  <2>2. ASSUME NEW u \in User
        PROVE  count'[u][day] <= Cardinality(Holding(u, day)') + Leftover'
    <3>1. Holding(u, day) \subseteq Holding(u, day)' \union {c}
      BY <2>1 DEF Holding
    <3>2. count'[u][day] <= count[u][day] + (-1) + (Leftover' - Leftover)
      BY <1>t, <1>l, <2>1
    <3> QED
      BY <3>1, <3>2, Balances
  <2>3. \A u \in User, d \in Day : d # day => count'[u][d] <= count[u][d]
    BY <1>t, <2>1
  <2> QED
    BY <1>e, <2>1, <2>2, <2>3
<1>12. ASSUME Restart PROVE BalanceInv'
  <2>1. day' = day /\ \A u \in User, d \in Day : count'[u][d] = 0
    BY <1>12 DEF Restart
  <2>2. \A u \in User : Cardinality(Holding(u, day)') \in Nat
    BY HoldingFinite
  <2>3. \A u \in User : count'[u][day] <= Cardinality(Holding(u, day)') + Leftover'
    BY <1>t, <1>l, <2>1, <2>2
  <2>4. \A u \in User : count'[u][day'] <= Cardinality(Holding(u, day)') + Leftover'
    BY <2>1, <2>3
  <2>5. \A u \in User, d \in Day : d > day' => count'[u][d] <= 0
    BY <2>1
  <2> QED
    BY <2>4, <2>5 DEF BalanceInv
<1>13. ASSUME Midnight PROVE BalanceInv'
  <2>1. UNCHANGED <<store, count, pc, charged, faults>> /\ day' = day + 1 /\ day' \in Day
    BY <1>13 DEF Midnight, Day, TypeInv, TypeOK
  <2>2. PICK e \in Day : e = day'
    BY <2>1
  <2>3. \A u \in User : count[u][e] <= 0 /\ Cardinality(Holding(u, e)) \in Nat
    BY <1>t, <2>1, <2>2, HoldingFinite DEF BalanceInv, Day
  <2>4. \A u \in User : Holding(u, day)' = Holding(u, e)
    BY <2>1, <2>2 DEF Holding
  <2>5. \A u \in User : count'[u][day'] <= Cardinality(Holding(u, day)') + Leftover'
    BY <1>t, <1>l, <2>1, <2>2, <2>3, <2>4
  <2>6. \A u \in User, d \in Day : d > day' => count'[u][d] <= 0
    BY <1>t, <2>1 DEF BalanceInv, Day
  <2> QED
    BY <2>5, <2>6 DEF BalanceInv
<1>14. ASSUME UNCHANGED vars PROVE BalanceInv'
  BY <1>14 DEF vars, BalanceInv, Holding, Leftover, UseStore
<1> QED
  BY <1>1, <1>3, <1>4, <1>5, <1>8, <1>9, <1>10, <1>11, <1>12, <1>13, <1>14 DEF Next, Step

(***************************************************************************)
(* With any number of calls in any order a refused call and a failed email *)
(* leave nothing behind: today's counter is at most the calls that hold a  *)
(* unit of it and, on DynamoDB, a unit for every failure so far.           *)
(***************************************************************************)
THEOREM CounterIsBalanced ==
  ASSUME IsFiniteSet(Call)
  PROVE  Spec => []CounterBalances
<1>1. Init => BalanceInv
  <2> SUFFICES ASSUME Init PROVE BalanceInv
    OBVIOUS
  <2>1. (\A u \in User, d \in Day : count[u][d] = 0) /\ Leftover = 0
    BY DEF Init, Leftover
  <2>2. \A u \in User : Cardinality(Holding(u, day)) \in Nat
    BY HoldingFinite
  <2>3. day \in Day
    BY BoundAssumption DEF Init, Day
  <2> QED
    BY <2>1, <2>2, <2>3 DEF BalanceInv
<1>2. TypeInv /\ TypeInv' /\ BalanceInv /\ [Next]_vars => BalanceInv'
  BY BalanceStep
<1>3. BalanceInv => CounterBalances
  BY DEF BalanceInv, CounterBalances
<1> QED
  BY <1>1, <1>2, <1>3, TypeInvariance, PTL DEF Spec

-----------------------------------------------------------------------------
(* When calls fail *)

(***************************************************************************)
(* The refunds to come, each of which may take a unit by no right.         *)
(***************************************************************************)
Pending(u) == {c \in Call : CallerOf[c] = u /\ pc[c] = "refund"}

(***************************************************************************)
(* What the failures so far may have cost.                                 *)
(***************************************************************************)
Slack == [u \in User |-> faults * FailureCost(u)]

(***************************************************************************)
(* The failures so far pay for what went astray and for the refunds to     *)
(* come.                                                                   *)
(***************************************************************************)
PaidInv == \A u \in User, d \in Day : AtMost(Pending(u), Slack[u] - astray[u][d])

(***************************************************************************)
(* In memory a counter stays within the limit, so that a restart forgets   *)
(* no more than a failure may cost; and nobody sends who has none.         *)
(***************************************************************************)
MemoryInv ==
  ~ UseStore => /\ \A u \in User, d \in Day : count[u][d] <= Limit[u]
                /\ \A c \in Call : pc[c] = "send" => Limit[CallerOf[c]] > 0

RefusedLocally(c) == ConsumeLocally(c) /\ ~ (Counter(c) < LimitOf(c))
ChargedLocally(c) == ConsumeLocally(c) /\ Counter(c) < LimitOf(c)

LEMMA MemoryStep == TypeInv /\ NoNegativeCounter /\ MemoryInv /\ [Next]_vars => MemoryInv'
<1> SUFFICES ASSUME TypeInv, NoNegativeCounter, MemoryInv, [Next]_vars, ~ UseStore
             PROVE  MemoryInv'
  BY StoreStays DEF MemoryInv
<1>1. /\ TypeOK /\ day \in Day /\ pc \in [Call -> {"start"} \union Open \union Done]
      /\ \A u \in User : Limit[u] \in Nat
      /\ \A u \in User, d \in Day : count[u][d] \in Int /\ 0 <= count[u][d] /\ count[u][d] <= Limit[u]
      /\ \A c \in Call : CallerOf[c] \in User /\ (pc[c] = "send" => Limit[CallerOf[c]] > 0)
  BY UserAssumption DEF TypeInv, TypeOK, NoNegativeCounter, MemoryInv
<1>2. ASSUME NEW c \in Call, ChargedLocally(c)
      PROVE  MemoryInv'
  <2>1. Add(c, day, 1) /\ pc' = [pc EXCEPT ![c] = "send"]
    BY <1>1, <1>2 DEF ChargedLocally, ConsumeLocally, Counter, LimitOf, Goto
  <2>2. count[CallerOf[c]][day] < Limit[CallerOf[c]]
    BY <1>2 DEF ChargedLocally, Counter, LimitOf
  <2>3. \A u \in User, d \in Day :
          count'[u][d] = IF u = CallerOf[c] /\ d = day THEN count[u][d] + 1 ELSE count[u][d]
    BY <1>1, <2>1, AddType
  <2>4. \A u \in User, d \in Day : count'[u][d] <= Limit[u]
    BY <1>1, <2>2, <2>3
  <2>5. \A b \in Call : pc'[b] = "send" => Limit[CallerOf[b]] > 0
    BY <1>1, <2>1, <2>2
  <2> QED
    BY <2>4, <2>5 DEF MemoryInv
<1>3. ASSUME NEW c \in Call, Refund(c)
      PROVE  MemoryInv'
  <2>1. (Add(c, day, -1) \/ UNCHANGED count) /\ pc' = [pc EXCEPT ![c] = "failed"]
    BY <1>3 DEF Refund, Proceed, Goto
  <2>2. \A u \in User, d \in Day : count'[u][d] <= Limit[u]
    <3>1. CASE Add(c, day, -1)
      <4>1. \A u \in User, d \in Day :
              count'[u][d] = IF u = CallerOf[c] /\ d = day THEN count[u][d] + (-1) ELSE count[u][d]
        BY <1>1, <3>1, AddType
      <4> QED
        BY <1>1, <4>1
    <3> QED
      BY <1>1, <2>1, <3>1
  <2> QED
    BY <1>1, <2>1, <2>2 DEF MemoryInv
<1>4. ASSUME NEW c \in Call, \/ Start(c) \/ Check(c) \/ MailSent(c) \/ MailFails(c)
                             \/ MailAnswerLost(c) \/ RefusedLocally(c)
      PROVE  MemoryInv'
  <2>1. UNCHANGED count /\ \A b \in Call : pc'[b] = "send" => pc[b] = "send"
    BY <1>1, <1>4 DEF Start, Check, MailSent, MailFails, MailAnswerLost, RefusedLocally,
                       ConsumeLocally, Goto
  <2> QED
    BY <1>1, <2>1 DEF MemoryInv
<1>5. ASSUME Restart
      PROVE  MemoryInv'
  BY <1>1, <1>5 DEF Restart, MemoryInv, Open
<1>6. ASSUME Midnight \/ UNCHANGED vars
      PROVE  MemoryInv'
  BY <1>6 DEF Midnight, vars, MemoryInv
<1>7. \A c \in Call : ~ (Consume(c) \/ ConsumeRepeats(c) \/ BackOut(c) \/ GiveBackRepeats(c)
                        \/ StoreRaises(c) \/ Crash(c))
  BY DEF Consume, ConsumeRepeats, BackOut, GiveBackRepeats, StoreRaises, Crash, TypeInv, LocalsOK
<1>8. ASSUME NEW c \in Call, ConsumeLocally(c)
      PROVE  MemoryInv'
  BY <1>2, <1>4, <1>8 DEF RefusedLocally, ChargedLocally
<1> QED
  BY <1>3, <1>4, <1>5, <1>6, <1>7, <1>8 DEF Next, Step

(***************************************************************************)
(* How the slack of a user moves with the failures.                        *)
(***************************************************************************)
LEMMA SlackMoves ==
  ASSUME TypeInv, [Next]_vars, NEW u \in User
  PROVE  /\ Slack[u] \in Int /\ Slack'[u] \in Int /\ Slack'[u] >= Slack[u]
         /\ FailureCost(u) \in Nat
         /\ faults' = faults + 1 => Slack'[u] = Slack[u] + FailureCost(u)
<1>1. /\ faults \in Nat /\ faults' \in Nat /\ faults' >= faults
      /\ FailureCost(u) \in Nat
  <2>1. TypeInv'
    BY TypeStep
  <2> QED
    BY <2>1, FaultsGrow, BoundAssumption, UserAssumption DEF TypeInv, TypeOK, FailureCost
<1>2. PICK k \in Nat : k = FailureCost(u)
  BY <1>1
<1>3. Slack[u] = faults * k /\ Slack'[u] = faults' * k
  BY <1>2, StoreStays DEF Slack, FailureCost
<1>4. ASSUME NEW m \in Nat, NEW n \in Nat, n >= m
      PROVE  m * k \in Int /\ n * k \in Int /\ n * k >= m * k /\ (n = m + 1 => n * k = m * k + k)
  <2>1. PICK e \in Nat : n = m + e
    <3>1. n - m \in Nat /\ n = m + (n - m)
      BY <1>4
    <3> QED
      BY <3>1
  <2>2. n * k = m * k + e * k /\ e * k >= 0 /\ m * k \in Int /\ e * k \in Int
    BY <2>1
  <2> QED
    BY <2>1, <2>2
<1> QED
  BY <1>1, <1>2, <1>3, <1>4

LEMMA Margin ==
  ASSUME NEW S, NEW n \in Int, AtMost(S, n), NEW T, NEW m \in Int,
         \/ T \subseteq S /\ m >= n
         \/ (\E y : T \subseteq S \union {y}) /\ m >= n + 1
         \/ (\E x \in S : T \subseteq S \ {x}) /\ m >= n - 1
  PROVE  AtMost(T, m)
<1>1. CASE T \subseteq S /\ m >= n
  BY <1>1, FewerThan
<1>2. ASSUME NEW y, T \subseteq S \union {y}, m >= n + 1
      PROVE  AtMost(T, m)
  <2>1. AtMost(T, n + 1)
    BY <1>2, OneMore
  <2>2. n + 1 \in Int /\ n + 1 <= m
    BY <1>2
  <2> QED
    BY <2>1, <2>2, FewerThan
<1>3. ASSUME NEW x \in S, T \subseteq S \ {x}, m >= n - 1
      PROVE  AtMost(T, m)
  <2>1. AtMost(T, n - 1)
    BY <1>3, OneLess
  <2>2. n - 1 \in Int /\ n - 1 <= m
    BY <1>3
  <2> QED
    BY <2>1, <2>2, FewerThan
<1> QED
  BY <1>1, <1>2, <1>3

(***************************************************************************)
(* A step at which what the failures pay for grows no more than the slack. *)
(***************************************************************************)
LEMMA Paid ==
  ASSUME TypeInv, TypeInv', PaidInv, [Next]_vars, NEW u \in User, NEW d \in Day,
         LET n == Slack[u] - astray[u][d]
             m == Slack'[u] - astray'[u][d]
         IN  \/ Pending(u)' \subseteq Pending(u) /\ m >= n
             \/ (\E y : Pending(u)' \subseteq Pending(u) \union {y}) /\ m >= n + 1
             \/ (\E x \in Pending(u) : Pending(u)' \subseteq Pending(u) \ {x}) /\ m >= n - 1
  PROVE  AtMost(Pending(u)', Slack'[u] - astray'[u][d])
<1>1. /\ Slack[u] \in Int /\ Slack'[u] \in Int
      /\ astray[u][d] \in Int /\ astray'[u][d] \in Int
  BY SlackMoves DEF TypeInv, TypeOK
<1>2. PICK n \in Int : n = Slack[u] - astray[u][d]
  BY <1>1
<1>3. PICK m \in Int : m = Slack'[u] - astray'[u][d]
  BY <1>1
<1>4. AtMost(Pending(u), n)
  BY <1>2 DEF PaidInv
<1>5. \/ Pending(u)' \subseteq Pending(u) /\ m >= n
      \/ (\E y : Pending(u)' \subseteq Pending(u) \union {y}) /\ m >= n + 1
      \/ (\E x \in Pending(u) : Pending(u)' \subseteq Pending(u) \ {x}) /\ m >= n - 1
  BY <1>2, <1>3
<1>6. AtMost(Pending(u)', m)
  BY <1>4, <1>5, Margin
<1> QED
  BY <1>3, <1>6

LEMMA PaidStep ==
  TypeInv /\ TypeInv' /\ NoNegativeCounter /\ MemoryInv /\ PaidInv /\ [Next]_vars => PaidInv'
<1> SUFFICES ASSUME TypeInv, TypeInv', NoNegativeCounter, MemoryInv, PaidInv, [Next]_vars,
                    NEW u \in User, NEW d \in Day
             PROVE  AtMost(Pending(u)', Slack'[u] - astray'[u][d])
  BY DEF PaidInv, AtMost
<1>t. /\ pc \in [Call -> {"start"} \union Open \union Done]
      /\ CallerOf \in [Call -> User] /\ day \in Day /\ Limit[u] \in Nat
      /\ count[u][d] \in Int /\ astray[u][d] \in Int /\ astray'[u][d] \in Int
  BY UserAssumption DEF TypeInv, TypeOK
<1>s. Slack[u] \in Int /\ Slack'[u] \in Int /\ Slack'[u] >= Slack[u]
  BY SlackMoves
<1>f. faults' = faults + 1 => Slack'[u] = Slack[u] + (IF UseStore THEN 1 ELSE Limit[u])
  BY SlackMoves DEF FailureCost
<1>1. ASSUME Pending(u)' \subseteq Pending(u), astray'[u][d] = astray[u][d]
      PROVE  AtMost(Pending(u)', Slack'[u] - astray'[u][d])
  <2>1. Slack'[u] - astray'[u][d] >= Slack[u] - astray[u][d]
    BY <1>t, <1>s, <1>1
  <2> QED
    BY <1>1, <2>1, Paid
<1>2. ASSUME NEW c \in Call, Start(c) \/ Check(c) \/ MailSent(c) \/ StoreRaises(c) \/ Crash(c)
      PROVE  AtMost(Pending(u)', Slack'[u] - astray'[u][d])
  <2>1. /\ UNCHANGED astray
        /\ \A b \in Call : pc'[b] = "refund" => pc[b] = "refund"
    BY <1>2, <1>t DEF Start, Check, MailSent, StoreRaises, Crash, Goto
  <2> QED
    BY <1>1, <2>1 DEF Pending
<1>3. ASSUME NEW c \in Call, NEW l \in {"backout", "send", "refused", "failed"},
             Proceed(c, l), UNCHANGED astray
      PROVE  AtMost(Pending(u)', Slack'[u] - astray'[u][d])
  <2>1. \A b \in Call : pc'[b] = "refund" => pc[b] = "refund"
    BY <1>t, <1>3, ProceedType DEF TypeInv
  <2> QED
    BY <1>1, <1>3, <2>1 DEF Pending
<1>4. ASSUME NEW c \in Call, Consume(c) \/ BackOut(c)
      PROVE  AtMost(Pending(u)', Slack'[u] - astray'[u][d])
  BY <1>3, <1>4 DEF Consume, BackOut
<1>5. ASSUME NEW c \in Call, ConsumeLocally(c)
      PROVE  AtMost(Pending(u)', Slack'[u] - astray'[u][d])
  <2>1. UNCHANGED astray /\ (Goto(c, "refused") \/ Goto(c, "send"))
    BY <1>5 DEF ConsumeLocally
  <2>2. \A b \in Call : pc'[b] = "refund" => pc[b] = "refund"
    BY <1>t, <2>1 DEF Goto
  <2> QED
    BY <1>1, <2>1, <2>2 DEF Pending
<1>6. ASSUME NEW c \in Call, ConsumeRepeats(c)
      PROVE  AtMost(Pending(u)', Slack'[u] - astray'[u][d])
  BY <1>1, <1>6 DEF ConsumeRepeats, Pending
<1>7. ASSUME NEW c \in Call, MailFails(c) \/ MailAnswerLost(c)
      PROVE  AtMost(Pending(u)', Slack'[u] - astray'[u][d])
  <2>1. /\ pc[c] = "send" /\ pc' = [pc EXCEPT ![c] = "refund"]
        /\ UNCHANGED astray /\ faults' = faults + 1
    BY <1>7 DEF MailFails, MailAnswerLost, Goto, Fault
  <2>2. CASE u = CallerOf[c]
    <3>1. Pending(u)' \subseteq Pending(u) \union {c}
      BY <1>t, <2>1 DEF Pending
    <3>2. UseStore \/ Limit[u] > 0
      BY <2>1, <2>2 DEF MemoryInv
    <3>3. Slack'[u] - astray'[u][d] >= (Slack[u] - astray[u][d]) + 1
      BY <1>t, <1>s, <1>f, <2>1, <3>2
    <3> QED
      BY <3>1, <3>3, Paid
  <2>3. CASE u # CallerOf[c]
    <3>1. Pending(u)' \subseteq Pending(u)
      BY <1>t, <2>1, <2>3 DEF Pending
    <3> QED
      BY <1>1, <2>1, <3>1
  <2> QED
    BY <2>2, <2>3
<1>8. ASSUME NEW c \in Call, GiveBackRepeats(c)
      PROVE  AtMost(Pending(u)', Slack'[u] - astray'[u][d])
  <2>1. PICK e \in Day : Stray(c, e)
    <3>1. (IF pc[c] = "backout" THEN charged[c] ELSE day) \in Day
      BY <1>8, <1>t DEF GiveBackRepeats, TypeInv, LocalsOK, Charged
    <3> QED
      BY <1>8, <3>1 DEF GiveBackRepeats
  <2>2. astray'[u][d] <= astray[u][d] + 1
    BY <1>t, <2>1, StrayType DEF TypeInv
  <2>3. UNCHANGED pc /\ UseStore /\ faults' = faults + 1
    BY <1>8 DEF GiveBackRepeats, Fault
  <2>4. Slack'[u] - astray'[u][d] >= Slack[u] - astray[u][d]
    BY <1>t, <1>s, <1>f, <2>2, <2>3
  <2>5. Pending(u)' \subseteq Pending(u)
    BY <2>3 DEF Pending
  <2> QED
    BY <2>4, <2>5, Paid
<1>9. ASSUME NEW c \in Call, Refund(c)
      PROVE  AtMost(Pending(u)', Slack'[u] - astray'[u][d])
  <2>1. pc[c] = "refund" /\ Proceed(c, "failed")
    BY <1>9 DEF Refund
  <2>2. pc'[c] \in {"failed", "broken"} /\ \A b \in Call \ {c} : pc'[b] = pc[b]
    BY <1>t, <2>1, ProceedType DEF TypeInv
  <2>3. CASE u = CallerOf[c]
    <3>1. c \in Pending(u) /\ Pending(u)' \subseteq Pending(u) \ {c}
      BY <2>1, <2>2, <2>3 DEF Pending
    <3>2. astray'[u][d] <= astray[u][d] + 1
      <4>1. CASE d = day
        BY <1>9, <1>t, <2>3, <4>1, RefundType DEF TypeInv
      <4>2. CASE d # day
        BY <1>9, <1>t, <4>2, RefundType DEF TypeInv
      <4> QED
        BY <4>1, <4>2
    <3>3. Slack'[u] - astray'[u][d] >= (Slack[u] - astray[u][d]) - 1
      BY <1>t, <1>s, <3>2
    <3> QED
      BY <3>1, <3>3, Paid
  <2>4. CASE u # CallerOf[c]
    <3>1. Pending(u)' \subseteq Pending(u)
      BY <2>2, <2>4 DEF Pending
    <3>2. astray'[u][d] = astray[u][d]
      BY <1>9, <2>4, RefundType DEF TypeInv
    <3> QED
      BY <1>1, <3>1, <3>2
  <2> QED
    BY <2>3, <2>4
<1>10. ASSUME Restart
       PROVE  AtMost(Pending(u)', Slack'[u] - astray'[u][d])
  <2>1. /\ ~ UseStore /\ faults' = faults + 1
        /\ astray'[u][d] = astray[u][d] + count[u][d]
        /\ \A b \in Call : pc'[b] = "refund" => pc[b] = "refund"
    BY <1>10, <1>t DEF Restart, Fault, Open
  <2>2. count[u][d] <= Limit[u]
    BY <2>1 DEF MemoryInv
  <2>3. Slack'[u] - astray'[u][d] >= Slack[u] - astray[u][d]
    BY <1>t, <1>s, <1>f, <2>1, <2>2
  <2>4. Pending(u)' \subseteq Pending(u)
    BY <2>1 DEF Pending
  <2> QED
    BY <2>3, <2>4, Paid
<1>11. ASSUME Midnight \/ UNCHANGED vars
       PROVE  AtMost(Pending(u)', Slack'[u] - astray'[u][d])
  <2>1. UNCHANGED <<pc, astray>>
    BY <1>11 DEF Midnight, vars
  <2> QED
    BY <1>1, <2>1 DEF Pending
<1> QED
  BY <1>2, <1>4, <1>5, <1>6, <1>7, <1>8, <1>9, <1>10, <1>11 DEF Next, Step

(***************************************************************************)
(* With any number of calls and failures of every kind, an email beyond    *)
(* the limit has cost a failure: one each on DynamoDB; in memory one for   *)
(* as many emails as a restart forgets.                                    *)
(***************************************************************************)
THEOREM OverrunsCostFailures == Spec => []OverrunBounded
<1>1. Init => MemoryInv /\ PaidInv
  <2>1. ASSUME Init, NEW u \in User, NEW d \in Day
        PROVE  AtMost(Pending(u), Slack[u] - astray[u][d])
    <3>1. FailureCost(u) \in Nat
      BY UserAssumption DEF FailureCost
    <3>2. Slack[u] - astray[u][d] = 0 /\ Pending(u) = {}
      BY <2>1, <3>1 DEF Init, Slack, Pending
    <3> QED
      BY <3>2, FS_EmptySet DEF AtMost
  <2> QED
    BY <2>1, UserAssumption DEF Init, MemoryInv, PaidInv
<1>2. TypeInv /\ NoNegativeCounter /\ MemoryInv /\ [Next]_vars => MemoryInv'
  BY MemoryStep
<1>3. TypeInv /\ TypeInv' /\ NoNegativeCounter /\ MemoryInv /\ PaidInv /\ [Next]_vars => PaidInv'
  BY PaidStep
<1>4. TypeInv /\ CoverInv /\ PaidInv => OverrunBounded
  <2> SUFFICES ASSUME TypeInv, CoverInv, PaidInv, NEW u \in User, NEW d \in Day
               PROVE  Cardinality(Sent(u, d)) <= Limit[u] + faults * FailureCost(u)
    BY DEF OverrunBounded
  <2>1. /\ Slack[u] = faults * FailureCost(u) /\ Slack[u] \in Int
        /\ astray[u][d] \in Int /\ Limit[u] \in Int
    BY BoundAssumption, UserAssumption DEF TypeInv, TypeOK, Slack, FailureCost
  <2>2. astray[u][d] <= Slack[u]
    <3>1. /\ Cardinality(Pending(u)) \in Nat
          /\ Cardinality(Pending(u)) <= Slack[u] - astray[u][d]
      BY FS_CardinalityType DEF PaidInv, AtMost
    <3> QED
      BY <2>1, <3>1
  <2>3. Sent(u, d) \subseteq Admitted(u, d)
    BY DEF Sent, Admitted, TypeInv, TypeOK
  <2>4. AtMost(Admitted(u, d), Limit[u] + astray[u][d])
    BY DEF CoverInv
  <2>5. AtMost(Sent(u, d), Limit[u] + Slack[u])
    BY <2>1, <2>2, <2>3, <2>4, FewerThan
  <2> QED
    BY <2>1, <2>5 DEF AtMost
<1> QED
  BY <1>1, <1>2, <1>3, <1>4, TypeInvariance, NeverNegative, CoverInvariance, PTL DEF Spec
=============================================================================
