------------------------- MODULE InboundBooksProofs -------------------------
(***************************************************************************)
(* What the claims and rows of InboundPoller amount to, for every instance *)
(* in which no claim expires and no delete is repeated: the books are      *)
(* true.                                                                   *)
(***************************************************************************)
EXTENDS InboundPollerProofs

-----------------------------------------------------------------------------
(* Steps by what they do to the books *)

RowLabels == {"post", "confirm", "update", "release", "note"}

Still(t) == pc'[t] = pc[t] /\ gid'[t] = gid[t]

(***************************************************************************)
(* How sweep t comes to a call about its row.                              *)
(***************************************************************************)
Advance(t) ==
  \/ Still(t)
  \/ pc'[t] \notin RowLabels
  \/ /\ pc'[t] = "post"
     /\ gid'[t] \in Unused
     /\ status'[gid'[t]] = "routed"
     /\ \A u \in Container \ {t} : Still(u)
  \/ /\ gid'[t] = gid[t]
     /\ \/ pc'[t] = "confirm" /\ pc[t] = "post" /\ clark'[gid[t]] = "acked"
        \/ pc'[t] = "update" /\ pc[t] = "confirm" /\ claims'[KeyOf(gid[t])] = "acked"
        \/ pc'[t] = "release" /\ pc[t] = "post" /\ clark'[gid[t]] \in {"lost", clark[gid[t]]}
        \/ pc'[t] = "note" /\ pc[t] = "release"

BookStep ==
  /\ \A t \in Container : Advance(t)
  /\ \/ UNCHANGED status
     \/ \E s \in Container : Record(s) \/ UpdateAcked(s) \/ NoteFailure(s)
  /\ \A k \in Key : claims'[k] = "acked" =>
       \/ claims[k] = "acked"
       \/ \E s \in Container : Confirm(s) /\ k = DedupKey(cur[s])

LEMMA BookSteps == TypeInv /\ [Next]_vars => BookStep
<1> SUFFICES ASSUME TypeInv, [Next]_vars PROVE BookStep
  OBVIOUS
<1> USE DEF BookStep, Advance, Still, RowLabels, TypeInv, TypeOK, LocalsOK,
            Handling, Labels, Tombstone,
            cacheVars, storeVars, worldVars, sweepVars, callVars
<1>1. ASSUME NEW s \in Container, StartSweep(s) PROVE BookStep
  BY <1>1 DEF StartSweep, Goto
<1>2. ASSUME NEW s \in Container, NextMailbox(s) PROVE BookStep
  BY <1>2 DEF NextMailbox, Goto
<1>3. ASSUME NEW s \in Container, EndSweep(s) PROVE BookStep
  BY <1>3 DEF EndSweep, Goto
<1>4. ASSUME NEW s \in Container, ListUnread(s) PROVE BookStep
  BY <1>4 DEF ListUnread, Goto
<1>5. ASSUME NEW s \in Container, ListFails(s) PROVE BookStep
  BY <1>5 DEF ListFails, Goto
<1>6. ASSUME NEW s \in Container, MailboxDone(s) PROVE BookStep
  BY <1>6 DEF MailboxDone, Goto
<1>7. ASSUME NEW s \in Container, NEW c \in Copy, FetchFails(s, c) PROVE BookStep
  BY <1>7 DEF FetchFails, TakeNext
<1>8. ASSUME NEW s \in Container, NEW c \in Copy, Claim(s, c) PROVE BookStep
  BY <1>8, DedupKeyType DEF Claim, TakeNext, ClaimMessage, Enter, Goto
<1>9. ASSUME NEW s \in Container, NEW c \in Copy, SkipSeen(s, c) PROVE BookStep
  BY <1>9 DEF SkipSeen, TakeNext
<1>10. ASSUME NEW s \in Container, NEW c \in Copy, ClaimAnswerLost(s, c) PROVE BookStep
  BY <1>10, DedupKeyType DEF ClaimAnswerLost, TakeNext, ClaimMessage
<1>11. ASSUME NEW s \in Container, GateIgnores(s) PROVE BookStep
  <2>1. UNCHANGED <<claims, status>>
    BY <1>11 DEF GateIgnores, GateDiscards
  <2>2. ASSUME NEW t \in Container PROVE Still(t) \/ pc'[t] \notin RowLabels
    BY <1>11 DEF GateIgnores, GateDiscards, Proceed, Return, Enter, Goto
  <2> QED
    BY <2>1, <2>2
<1>12. ASSUME NEW s \in Container, GateDrops(s) PROVE BookStep
  <2>1. UNCHANGED <<claims, status>>
    BY <1>12 DEF GateDrops, GateDiscards
  <2>2. ASSUME NEW t \in Container PROVE Still(t) \/ pc'[t] \notin RowLabels
    BY <1>12 DEF GateDrops, GateDiscards, Proceed, Return, Enter, Goto
  <2> QED
    BY <2>1, <2>2
<1>13. ASSUME NEW s \in Container, GateRaises(s) PROVE BookStep
  BY <1>13 DEF GateRaises, Return, Enter, Goto
<1>14. ASSUME NEW s \in Container, GatePasses(s) PROVE BookStep
  BY <1>14 DEF GatePasses, Goto
<1>15. ASSUME NEW s \in Container, Settle(s) PROVE BookStep
  <2>1. status' = status /\ verdict[s] # "acked" /\ claims' = [claims EXCEPT ![DedupKey(cur[s])] = verdict[s]]
    BY <1>15 DEF Settle, ConfirmClaim
  <2>2. ASSUME NEW t \in Container PROVE Still(t) \/ pc'[t] \notin RowLabels
    BY <1>15 DEF Settle, Finish, Return, Enter, Goto
  <2> QED
    BY <2>1, <2>2
<1>16. ASSUME NEW s \in Container, Record(s) PROVE BookStep
  <2> DEFINE h == CHOOSE h \in Unused : TRUE
  <2>1. h \in Unused
    BY <1>16 DEF Record
  <2>2. /\ Proceed(s, "post", h, None)
        /\ status' = [status EXCEPT ![h] = "routed"]
        /\ UNCHANGED claims
    BY <1>16 DEF Record, RecordRow
  <2> HIDE DEF h
  <2>3. status'[h] = "routed"
    BY <2>1, <2>2 DEF Unused
  <2>4. ASSUME NEW t \in Container PROVE Advance(t)
    BY <2>1, <2>2, <2>3 DEF Proceed, Return, Enter, Goto
  <2> QED
    BY <1>16, <2>2, <2>4
<1>17. ASSUME NEW s \in Container, RecordConflicts(s) PROVE BookStep
  BY <1>17 DEF RecordConflicts, Return, Enter, Goto
<1>18. ASSUME NEW s \in Container, PostAccepted(s) PROVE BookStep
  BY <1>18 DEF PostAccepted, Goto
<1>19. ASSUME NEW s \in Container, NEW v \in {"rejected", "send_error"}, PostFails(s, v)
       PROVE BookStep
  BY <1>19 DEF PostFails, Enter, Goto
<1>20. ASSUME NEW s \in Container, NEW v \in {"rejected", "send_error"}, PostReplyLost(s, v)
       PROVE BookStep
  BY <1>20 DEF PostReplyLost, Enter, Goto
<1>21. ASSUME NEW s \in Container, Confirm(s) PROVE BookStep
  <2>1. /\ pc[s] = "confirm" /\ status' = status
        /\ claims' = [claims EXCEPT ![DedupKey(cur[s])] = "acked"]
        /\ Proceed(s, "update", gid[s], None)
    BY <1>21 DEF Confirm, ConfirmClaim
  <2>2. cur[s] \in Copy /\ KeyOf(gid[s]) = DedupKey(cur[s])
    BY <2>1 DEF LocalsOK, KeyOf
  <2>3. claims'[KeyOf(gid[s])] = "acked"
    BY <2>1, <2>2, DedupKeyType
  <2>4. ASSUME NEW t \in Container PROVE Advance(t)
    BY <2>1, <2>3 DEF Proceed, Return, Enter, Goto
  <2> QED
    BY <1>21, <2>1, <2>4
<1>22. ASSUME NEW s \in Container, UpdateAcked(s) PROVE BookStep
  <2>1. claims' = claims /\ Proceed(s, "mark", gid[s], None)
    BY <1>22 DEF UpdateAcked
  <2>2. ASSUME NEW t \in Container PROVE Still(t) \/ pc'[t] \notin RowLabels
    BY <2>1 DEF Proceed, Return, Enter, Goto
  <2> QED
    BY <1>22, <2>1, <2>2
<1>23. ASSUME NEW s \in Container, MarkAcked(s) PROVE BookStep
  BY <1>23 DEF MarkAcked, Finish, Return, Enter, Goto
<1>24. ASSUME NEW s \in Container, Release(s) PROVE BookStep
  <2>1. /\ pc[s] = "release" /\ status' = status
        /\ claims' = [claims EXCEPT ![DedupKey(cur[s])] = "none"]
        /\ Proceed(s, "note", gid[s], verdict[s])
    BY <1>24 DEF Release, ReleaseClaim
  <2>2. ASSUME NEW t \in Container PROVE Advance(t)
    BY <2>1 DEF Proceed, Return, Enter, Goto
  <2> QED
    BY <2>1, <2>2
<1>25. ASSUME NEW s \in Container, ReleaseRepeats(s) PROVE BookStep
  BY <1>25, DedupKeyType DEF ReleaseRepeats, ReleaseClaim
<1>26. ASSUME NEW s \in Container, NoteFailure(s) PROVE BookStep
  <2>1. claims' = claims
    BY <1>26 DEF NoteFailure
  <2>2. ASSUME NEW t \in Container PROVE Still(t) \/ pc'[t] \notin RowLabels
    BY <1>26 DEF NoteFailure, Finish, Return, Enter, Goto
  <2> QED
    BY <1>26, <2>1, <2>2
<1>27. ASSUME NEW s \in Container, CallRaises(s) PROVE BookStep
  BY <1>27 DEF CallRaises, Return, Enter, Goto
<1>28. ASSUME NEW s \in Container, Crash(s) PROVE BookStep
  BY <1>28 DEF Crash, Reset, Enter, Goto
<1>29. ASSUME NEW s \in Container, Recycle(s) PROVE BookStep
  BY <1>29 DEF Recycle, Reset, Enter, Goto
<1>30. ASSUME NEW s \in Container, CacheExpires(s) PROVE BookStep
  BY <1>30 DEF CacheExpires
<1>31. ASSUME NEW s \in Container, VerifySender(s) PROVE BookStep
  BY <1>31 DEF VerifySender
<1>32. ASSUME NEW c \in Copy, Deliver(c) PROVE BookStep
  BY <1>32 DEF Deliver
<1>33. ASSUME NEW u \in Url, Authorize(u) PROVE BookStep
  BY <1>33 DEF Authorize
<1>34. ASSUME NEW k \in Key, TtlExpires(k) PROVE BookStep
  BY <1>34 DEF TtlExpires, ReleaseClaim
<1>35. CASE UNCHANGED vars
  BY <1>35 DEF vars
<1> HIDE DEF BookStep, Advance, Still, RowLabels, TypeInv, TypeOK, LocalsOK,
             Handling, Labels, Tombstone,
             cacheVars, storeVars, worldVars, sweepVars, callVars
<1> QED
  BY <1>1, <1>2, <1>3, <1>4, <1>5, <1>6, <1>7, <1>8, <1>9, <1>10, <1>11, <1>12,
     <1>13, <1>14, <1>15, <1>16, <1>17, <1>18, <1>19, <1>20, <1>21, <1>22, <1>23,
     <1>24, <1>25, <1>26, <1>27, <1>28, <1>29, <1>30, <1>31, <1>32, <1>33, <1>34,
     <1>35
     DEF Next, Sweep, Life, World, Message, Posting

-----------------------------------------------------------------------------
(* The books *)

(***************************************************************************)
(* No two sweeps are about to write the same row, and what a sweep is      *)
(* about to write is so.                                                   *)
(***************************************************************************)
OneWriter ==
  \A s, t \in Container :
    pc[s] \in RowLabels /\ pc[t] \in RowLabels /\ gid[s] = gid[t] => s = t

Knows ==
  \A s \in Container :
    /\ pc[s] = "post" => status[gid[s]] = "routed"
    /\ pc[s] = "confirm" => clark[gid[s]] = "acked"
    /\ pc[s] = "update" => clark[gid[s]] = "acked" /\ claims[KeyOf(gid[s])] = "acked"
    /\ pc[s] \in {"release", "note"} => clark[gid[s]] # "acked"

BooksInv == OneWriter /\ Knows /\ BooksTellTruth

(***************************************************************************)
(* The envelope a sweep works on has an origin.                            *)
(***************************************************************************)
LEMMA RowHasOrigin ==
  ASSUME TypeInv, NEW s \in Container, pc[s] \in RowLabels
  PROVE  /\ gid[s] \in GatewayId
         /\ origin[gid[s]] # None
         /\ cur[s] \in Copy /\ KeyOf(gid[s]) = DedupKey(cur[s]) /\ KeyOf(gid[s]) \in Key
<1>1. gid[s] \in GatewayId /\ origin[gid[s]] = cur[s] /\ cur[s] \in Copy
  BY DEF TypeInv, LocalsOK, RowLabels, Handling
<1> QED
  BY <1>1, NoneAssumption, DedupKeyType DEF KeyOf

(***************************************************************************)
(* What Clark acknowledged stays acknowledged, under the same key; and     *)
(* only a sweep at its POST adds to it.                                    *)
(***************************************************************************)
LEMMA AckedStays ==
  ASSUME TypeInv, AckInv, [Next]_vars, NEW g \in GatewayId, clark[g] = "acked"
  PROVE  clark'[g] = "acked" /\ DedupKey(origin'[g]) = KeyOf(g) /\ KeyOf(g) \in Key
<1>1. origin[g] \in Copy /\ origin'[g] = origin[g]
  BY ForwardSteps, NoneAssumption DEF ForwardStep, AckInv
<1>2. clark'[g] = "acked"
  <2>1. ASSUME NEW s \in Container,
               PostAccepted(s) \/ \E v \in {"rejected", "send_error"} : PostReplyLost(s, v)
        PROVE  clark'[g] = clark[g]
    <3>1. pc[s] = "post" /\ gid[s] \in GatewayId /\ clark[gid[s]] = "none"
      BY <2>1, RowHasOrigin DEF PostAccepted, PostReplyLost, AckInv, RowLabels
    <3> QED
      BY <2>1, <3>1 DEF PostAccepted, PostReplyLost, TypeInv, TypeOK
  <2> QED
    BY <2>1, ForwardSteps DEF ForwardStep
<1> QED
  BY <1>1, <1>2, DedupKeyType DEF KeyOf, DedupKey

LEMMA AckedNew ==
  ASSUME TypeInv, [Next]_vars, NEW g \in GatewayId, clark[g] # "acked", clark'[g] = "acked"
  PROVE  \E s \in Container : PostAccepted(s) /\ pc[s] = "post" /\ gid[s] = g
<1>1. PICK s \in Container :
        PostAccepted(s) \/ \E v \in {"rejected", "send_error"} : PostReplyLost(s, v)
  BY ForwardSteps DEF ForwardStep
<1>2. pc[s] = "post" /\ gid[s] \in GatewayId
  BY <1>1, RowHasOrigin DEF PostAccepted, PostReplyLost, RowLabels
<1> QED
  BY <1>1, <1>2 DEF PostAccepted, PostReplyLost, TypeInv, TypeOK

(***************************************************************************)
(* Only the sweep that works on row g writes its status, once the row is   *)
(* there.                                                                  *)
(***************************************************************************)
LEMMA StatusNew ==
  ASSUME TypeInv, [Next]_vars, NEW g \in GatewayId, status'[g] # status[g]
  PROVE  \/ g \in Unused /\ status'[g] = "routed"
         \/ \E s \in Container :
              /\ gid[s] = g
              /\ \/ pc[s] = "update" /\ status'[g] = "acked"
                 \/ pc[s] = "note" /\ status'[g] \in {"rejected", "send_error"}
<1>1. PICK s \in Container : Record(s) \/ UpdateAcked(s) \/ NoteFailure(s)
  BY BookSteps DEF BookStep
<1>2. CASE Record(s)
  <2> DEFINE h == CHOOSE h \in Unused : TRUE
  <2>1. h \in Unused /\ status' = [status EXCEPT ![h] = "routed"]
    BY <1>2 DEF Record, RecordRow
  <2> HIDE DEF h
  <2> QED
    BY <2>1 DEF TypeInv, TypeOK
<1>3. CASE UpdateAcked(s)
  <2>1. pc[s] = "update" /\ gid[s] \in GatewayId
    BY <1>3, RowHasOrigin DEF UpdateAcked, RowLabels
  <2> QED
    BY <1>3, <2>1 DEF UpdateAcked, UpdateStatus, TypeInv, TypeOK
<1>4. CASE NoteFailure(s)
  <2>1. pc[s] = "note" /\ gid[s] \in GatewayId /\ verdict[s] \in {"rejected", "send_error"}
    BY <1>4, RowHasOrigin DEF NoteFailure, RowLabels, TypeInv, LocalsOK
  <2> QED
    BY <1>4, <2>1 DEF NoteFailure, UpdateStatus, TypeInv, TypeOK
<1> QED
  BY <1>1, <1>2, <1>3, <1>4

LEMMA OneWriterStep == TypeInv /\ OneWriter /\ [Next]_vars => OneWriter'
<1> SUFFICES ASSUME TypeInv, OneWriter, [Next]_vars,
                    NEW s \in Container, NEW t \in Container,
                    pc'[s] \in RowLabels, pc'[t] \in RowLabels, gid'[s] = gid'[t]
             PROVE  s = t
  BY DEF OneWriter
<1>1. Advance(s) /\ Advance(t)
  BY BookSteps DEF BookStep
<1>2. ASSUME NEW u \in Container, Advance(u), pc'[u] \in RowLabels
      PROVE  \/ pc[u] \in RowLabels /\ gid'[u] = gid[u] /\ gid'[u] \notin Unused
             \/ gid'[u] \in Unused /\ \A w \in Container \ {u} : Still(w)
  BY <1>2, RowHasOrigin DEF Advance, Still, RowLabels, Unused
<1> QED
  BY <1>1, <1>2, RowHasOrigin DEF OneWriter, Still, Unused

(***************************************************************************)
(* What s knows of its row outlasts the steps of the others, and its own   *)
(* next call finds what the last one learnt.                               *)
(***************************************************************************)
LEMMA KnowsStep ==
  ASSUME {"repeat_release", "ttl"} \intersect Faults = {}
  PROVE  TypeInv /\ ClaimExclusive /\ AckInv /\ OneWriter /\ Knows /\ [Next]_vars => Knows'
<1> SUFFICES ASSUME TypeInv, ClaimExclusive, AckInv, OneWriter, Knows, [Next]_vars,
                    NEW s \in Container, pc'[s] \in RowLabels
             PROVE  /\ pc'[s] = "post" => status'[gid'[s]] = "routed"
                    /\ pc'[s] = "confirm" => clark'[gid'[s]] = "acked"
                    /\ pc'[s] = "update" => /\ clark'[gid'[s]] = "acked"
                                            /\ claims'[DedupKey(origin'[gid'[s]])] = "acked"
                    /\ pc'[s] \in {"release", "note"} => clark'[gid'[s]] # "acked"
  BY DEF Knows, RowLabels, KeyOf, DedupKey
<1>1. Advance(s)
  BY BookSteps DEF BookStep
<1>2. ASSUME pc'[s] = "post" PROVE status'[gid'[s]] = "routed"
  <2>1. CASE Still(s)
    <3>1. gid[s] \in GatewayId /\ gid[s] \notin Unused /\ status[gid[s]] = "routed"
      BY <1>2, <2>1, RowHasOrigin DEF Knows, Still, RowLabels, Unused
    <3>2. ASSUME NEW t \in Container, gid[t] = gid[s] PROVE pc[t] \notin {"update", "note"}
      BY <1>2, <2>1, <3>2 DEF OneWriter, Still, RowLabels
    <3> QED
      BY <2>1, <3>1, <3>2, StatusNew DEF Still
  <2> QED
    BY <1>1, <1>2, <2>1 DEF Advance
<1>3. ASSUME pc'[s] = "confirm" PROVE clark'[gid'[s]] = "acked"
  <2>1. CASE Still(s)
    BY <1>3, <2>1, AckedStays, RowHasOrigin DEF Knows, Still, RowLabels
  <2> QED
    BY <1>1, <1>3, <2>1 DEF Advance, RowLabels
<1>4. ASSUME pc'[s] = "update"
      PROVE  clark'[gid'[s]] = "acked" /\ claims'[DedupKey(origin'[gid'[s]])] = "acked"
  <2>1. /\ gid'[s] = gid[s] /\ gid[s] \in GatewayId
        /\ clark[gid[s]] = "acked"
    BY <1>1, <1>4, RowHasOrigin DEF Advance, Still, Knows, RowLabels
  <2>2. claims'[KeyOf(gid[s])] = "acked"
    <3>1. CASE Still(s)
      BY <1>4, <3>1, RowHasOrigin, TombstoneStep DEF Still, Knows, RowLabels, TombstonesKept,
         Tombstone
    <3> QED
      BY <1>1, <1>4, <3>1 DEF Advance, RowLabels
  <2>3. clark'[gid[s]] = "acked" /\ DedupKey(origin'[gid[s]]) = KeyOf(gid[s])
    BY <2>1, AckedStays
  <2> QED
    BY <2>1, <2>2, <2>3
<1>5. ASSUME pc'[s] \in {"release", "note"} PROVE clark'[gid'[s]] # "acked"
  <2>1. gid'[s] = gid[s] /\ gid[s] \in GatewayId
    BY <1>1, <1>5, RowHasOrigin DEF Advance, Still, RowLabels
  <2>2. CASE pc[s] = "post"
    BY <1>1, <1>5, <2>1, <2>2 DEF Advance, Still, RowLabels, AckInv
  <2>3. CASE pc[s] \in {"release", "note"}
    <3>1. clark[gid[s]] # "acked"
      BY <2>3 DEF Knows
    <3>2. ASSUME NEW t \in Container, gid[t] = gid[s] PROVE pc[t] # "post"
      BY <2>3, <3>2 DEF OneWriter, RowLabels
    <3> QED
      BY <2>1, <3>1, <3>2, AckedNew
  <2> QED
    BY <1>1, <1>5, <2>2, <2>3 DEF Advance, Still, RowLabels
<1> QED
  BY <1>2, <1>3, <1>4, <1>5

(***************************************************************************)
(* Every verdict in the store follows from what a sweep knew.              *)
(***************************************************************************)
LEMMA TruthStep ==
  ASSUME {"repeat_release", "ttl"} \intersect Faults = {}
  PROVE  TypeInv /\ ClaimExclusive /\ AckInv /\ Knows /\ BooksTellTruth /\ [Next]_vars
         => BooksTellTruth'
<1> SUFFICES ASSUME TypeInv, ClaimExclusive, AckInv, Knows, BooksTellTruth, [Next]_vars
             PROVE  BooksTellTruth'
  OBVIOUS
<1>1. ASSUME NEW g \in GatewayId, clark[g] = "acked"
      PROVE  clark'[g] = "acked" /\ DedupKey(origin'[g]) = KeyOf(g) /\ KeyOf(g) \in Key
  BY <1>1, AckedStays
<1>2. ASSUME NEW k \in Key, claims'[k] = "acked"
      PROVE  \E g \in GatewayId : clark'[g] = "acked" /\ DedupKey(origin'[g]) = k
  <2>1. CASE claims[k] = "acked"
    <3>1. PICK g \in GatewayId : clark[g] = "acked" /\ KeyOf(g) = k
      BY <2>1 DEF BooksTellTruth, Forwards
    <3> QED
      BY <3>1, <1>1
  <2>2. ASSUME NEW s \in Container, Confirm(s), k = DedupKey(cur[s])
        PROVE  \E g \in GatewayId : clark'[g] = "acked" /\ DedupKey(origin'[g]) = k
    <3>1. pc[s] = "confirm"
      BY <2>2 DEF Confirm
    <3>2. gid[s] \in GatewayId /\ clark[gid[s]] = "acked" /\ KeyOf(gid[s]) = k
      BY <2>2, <3>1, RowHasOrigin DEF Knows, RowLabels
    <3> QED
      BY <3>2, <1>1
  <2> QED
    BY <1>2, <2>1, <2>2, BookSteps DEF BookStep
<1>3. ASSUME NEW g \in GatewayId, status'[g] = "acked"
      PROVE  clark'[g] = "acked" /\ claims'[DedupKey(origin'[g])] = "acked"
  <2>1. clark[g] = "acked" /\ claims[KeyOf(g)] = "acked"
    <3>1. CASE status[g] = "acked"
      BY <3>1 DEF BooksTellTruth
    <3>2. CASE status[g] # "acked"
      BY <1>3, <3>2, StatusNew DEF Knows
    <3> QED
      BY <3>1, <3>2
  <2>2. claims'[KeyOf(g)] = "acked"
    BY <1>1, <2>1, TombstoneStep DEF TombstonesKept, Tombstone
  <2> QED
    BY <1>1, <2>1, <2>2
<1>4. ASSUME NEW g \in GatewayId, status'[g] \in {"rejected", "send_error"}
      PROVE  clark'[g] # "acked"
  <2>1. SUFFICES ASSUME clark'[g] = "acked" PROVE FALSE
    OBVIOUS
  <2>2. CASE status[g] = status'[g]
    <3>1. clark[g] # "acked"
      BY <1>4, <2>2 DEF BooksTellTruth
    <3>2. PICK s \in Container : pc[s] = "post" /\ gid[s] = g
      BY <2>1, <3>1, AckedNew
    <3> QED
      BY <1>4, <2>2, <3>2 DEF Knows
  <2>3. CASE status[g] # status'[g]
    <3>1. PICK s \in Container : gid[s] = g /\ pc[s] = "note"
      BY <1>4, <2>3, StatusNew
    <3>2. clark[g] # "acked"
      BY <3>1 DEF Knows
    <3>3. PICK t \in Container : PostAccepted(t)
      BY <2>1, <3>2, AckedNew
    <3>4. status' = status
      BY <3>3 DEF PostAccepted, storeVars
    <3> QED
      BY <2>3, <3>4
  <2> QED
    BY <2>2, <2>3
<1>5. \A k \in Key : claims'[k] = "acked" => \E g \in Forwards(k)' : clark'[g] = "acked"
  <2> SUFFICES ASSUME NEW k \in Key, claims'[k] = "acked"
               PROVE  \E g \in Forwards(k)' : clark'[g] = "acked"
    OBVIOUS
  <2>1. PICK g \in GatewayId : clark'[g] = "acked" /\ DedupKey(origin'[g]) = k
    BY <1>2
  <2>2. g \in Forwards(k)'
    BY <2>1 DEF Forwards, KeyOf, DedupKey
  <2> QED
    BY <2>1, <2>2
<1>6. \A g \in GatewayId : status'[g] = "acked" => claims'[KeyOf(g)'] = "acked"
  BY <1>3 DEF KeyOf, DedupKey
<1> QED
  BY <1>3, <1>4, <1>5, <1>6 DEF BooksTellTruth

(***************************************************************************)
(* What the claims and the rows tell an operator is so, at every moment    *)
(* and whatever overlapped, failed or died: the invariant that carries it  *)
(* says that no two sweeps write one row and what each of them knows.      *)
(***************************************************************************)
THEOREM BooksAreTrue ==
  ASSUME {"repeat_release", "ttl"} \intersect Faults = {}
  PROVE  Spec => []BooksTellTruth
<1>1. Init => AckInv /\ BooksInv
  BY DEF Init, AckInv, BooksInv, OneWriter, Knows, RowLabels, BooksTellTruth
<1>2. TypeInv /\ ClaimExclusive /\ AckInv /\ [Next]_vars => AckInv'
  BY AckStep
<1>3. TypeInv /\ ClaimExclusive /\ AckInv /\ BooksInv /\ [Next]_vars => BooksInv'
  BY OneWriterStep, KnowsStep, TruthStep DEF BooksInv
<1>4. Spec => []ClaimExclusive
  <2>1. "repeat_release" \notin Faults
    OBVIOUS
  <2> QED
    BY <2>1, Exclusive
<1>5. BooksInv => BooksTellTruth
  BY DEF BooksInv
<1> QED
  BY <1>1, <1>2, <1>3, <1>4, <1>5, TypeInvariant, PTL DEF Spec

-----------------------------------------------------------------------------
(* Nothing put away unanswered *)

(***************************************************************************)
(* How sweep t comes to know that Clark has its envelope.                  *)
(***************************************************************************)
Acked == {"confirm", "update", "mark"}

Learns(t) ==
  pc'[t] \in Acked => /\ gid'[t] = gid[t]
                      /\ \/ pc[t] \in Acked
                         \/ pc[t] = "post" /\ clark'[gid[t]] # "none"

(***************************************************************************)
(* What becomes of the allow-list that t holds.                            *)
(***************************************************************************)
Lists(t) ==
  \/ cache'[t] = cache[t] /\ (age'[t] = "never" <=> age[t] = "never")
  \/ age'[t] = "never"
  \/ \E u \in Url : cache'[t] = authorized[u]

PutAway(s, c) == cur[s] = c /\ (GateIgnores(s) \/ GateDrops(s) \/ MarkAcked(s))

MailStep ==
  /\ \A t \in Container : Learns(t) /\ Lists(t)
  /\ \A u \in Url : Steady[u] \subseteq authorized[u] => Steady[u] \subseteq authorized'[u]
  /\ \A c \in Copy : gmail[c] = "unread" /\ gmail'[c] = "read"
       => \E s \in Container : PutAway(s, c)

LEMMA MailSteps == TypeInv /\ [Next]_vars => MailStep
<1> SUFFICES ASSUME TypeInv, [Next]_vars PROVE MailStep
  OBVIOUS
<1> USE DEF Learns, Lists, Acked, TypeInv, TypeOK, LocalsOK, Handling, Labels,
            cacheVars, storeVars, worldVars, sweepVars, callVars
<1>1. ASSUME NEW s \in Container, StartSweep(s) PROVE MailStep
  <2>1. UNCHANGED <<authorized, gmail, cache, age>>
    BY <1>1 DEF StartSweep
  <2>2. \A t \in Container : Learns(t) /\ Lists(t)
    BY <1>1, <2>1 DEF StartSweep, Goto
  <2> QED
    BY <2>1, <2>2 DEF MailStep
<1>2. ASSUME NEW s \in Container, NextMailbox(s) PROVE MailStep
  <2>1. ListOf[Mailboxes[box[s] + 1]] \in Url /\ FetchAuthorizedSenders(s, ListOf[Mailboxes[box[s] + 1]])
    BY <1>2, EndpointType, MailboxesAssumption DEF NextMailbox
  <2>2. \A t \in Container : Lists(t)
    BY <2>1 DEF FetchAuthorizedSenders
  <2>3. (\A t \in Container : Learns(t)) /\ UNCHANGED <<authorized, gmail>>
    BY <1>2 DEF NextMailbox, Goto
  <2> QED
    BY <2>2, <2>3 DEF MailStep
<1>3. ASSUME NEW s \in Container, EndSweep(s) PROVE MailStep
  <2>1. UNCHANGED <<authorized, gmail, cache, age>>
    BY <1>3 DEF EndSweep
  <2>2. \A t \in Container : Learns(t) /\ Lists(t)
    BY <1>3, <2>1 DEF EndSweep, Goto
  <2> QED
    BY <2>1, <2>2 DEF MailStep
<1>4. ASSUME NEW s \in Container, ListUnread(s) PROVE MailStep
  <2>1. UNCHANGED <<authorized, gmail, cache, age>>
    BY <1>4 DEF ListUnread
  <2>2. \A t \in Container : Learns(t) /\ Lists(t)
    BY <1>4, <2>1 DEF ListUnread, Goto
  <2> QED
    BY <2>1, <2>2 DEF MailStep
<1>5. ASSUME NEW s \in Container, ListFails(s) PROVE MailStep
  <2>1. UNCHANGED <<authorized, gmail, cache, age>>
    BY <1>5 DEF ListFails
  <2>2. \A t \in Container : Learns(t) /\ Lists(t)
    BY <1>5, <2>1 DEF ListFails, Goto
  <2> QED
    BY <2>1, <2>2 DEF MailStep
<1>6. ASSUME NEW s \in Container, MailboxDone(s) PROVE MailStep
  <2>1. UNCHANGED <<authorized, gmail, cache, age>>
    BY <1>6 DEF MailboxDone
  <2>2. \A t \in Container : Learns(t) /\ Lists(t)
    BY <1>6, <2>1 DEF MailboxDone, Goto
  <2> QED
    BY <2>1, <2>2 DEF MailStep
<1>7. ASSUME NEW s \in Container, NEW c \in Copy, FetchFails(s, c) PROVE MailStep
  <2>1. UNCHANGED <<authorized, gmail, cache, age>>
    BY <1>7 DEF FetchFails, TakeNext
  <2>2. \A t \in Container : Learns(t) /\ Lists(t)
    BY <1>7, <2>1 DEF FetchFails, TakeNext
  <2> QED
    BY <2>1, <2>2 DEF MailStep
<1>8. ASSUME NEW s \in Container, NEW c \in Copy, Claim(s, c) PROVE MailStep
  <2>1. UNCHANGED <<authorized, gmail, cache, age>>
    BY <1>8 DEF Claim, TakeNext
  <2>2. \A t \in Container : Learns(t) /\ Lists(t)
    BY <1>8, <2>1 DEF Claim, TakeNext, ClaimMessage, Enter, Goto
  <2> QED
    BY <2>1, <2>2 DEF MailStep
<1>9. ASSUME NEW s \in Container, NEW c \in Copy, SkipSeen(s, c) PROVE MailStep
  <2>1. UNCHANGED <<authorized, gmail, cache, age>>
    BY <1>9 DEF SkipSeen, TakeNext
  <2>2. \A t \in Container : Learns(t) /\ Lists(t)
    BY <1>9, <2>1 DEF SkipSeen, TakeNext
  <2> QED
    BY <2>1, <2>2 DEF MailStep
<1>10. ASSUME NEW s \in Container, NEW c \in Copy, ClaimAnswerLost(s, c) PROVE MailStep
  <2>1. UNCHANGED <<authorized, gmail, cache, age>>
    BY <1>10 DEF ClaimAnswerLost, TakeNext
  <2>2. \A t \in Container : Learns(t) /\ Lists(t)
    BY <1>10, <2>1 DEF ClaimAnswerLost, TakeNext, ClaimMessage
  <2> QED
    BY <2>1, <2>2 DEF MailStep
<1>11. ASSUME NEW s \in Container, GateIgnores(s) PROVE MailStep
  <2>1. gmail' = [gmail EXCEPT ![cur[s]] = "read"] /\ UNCHANGED <<authorized, cache, age>>
    BY <1>11 DEF GateIgnores, GateDiscards, MarkRead
  <2>2. \A t \in Container : Learns(t) /\ Lists(t)
    BY <1>11, <2>1 DEF GateIgnores, GateDiscards, Proceed, Return, Enter, Goto
  <2> QED
    BY <1>11, <2>1, <2>2 DEF MailStep, PutAway
<1>12. ASSUME NEW s \in Container, GateDrops(s) PROVE MailStep
  <2>1. gmail' = [gmail EXCEPT ![cur[s]] = "read"] /\ UNCHANGED <<authorized, cache, age>>
    BY <1>12 DEF GateDrops, GateDiscards, MarkRead
  <2>2. \A t \in Container : Learns(t) /\ Lists(t)
    BY <1>12, <2>1 DEF GateDrops, GateDiscards, Proceed, Return, Enter, Goto
  <2> QED
    BY <1>12, <2>1, <2>2 DEF MailStep, PutAway
<1>13. ASSUME NEW s \in Container, GateRaises(s) PROVE MailStep
  <2>1. UNCHANGED <<authorized, gmail, cache, age>>
    BY <1>13 DEF GateRaises
  <2>2. \A t \in Container : Learns(t) /\ Lists(t)
    BY <1>13, <2>1 DEF GateRaises, Return, Enter, Goto
  <2> QED
    BY <2>1, <2>2 DEF MailStep
<1>14. ASSUME NEW s \in Container, GatePasses(s) PROVE MailStep
  <2>1. UNCHANGED <<authorized, gmail, cache, age>>
    BY <1>14 DEF GatePasses
  <2>2. \A t \in Container : Learns(t) /\ Lists(t)
    BY <1>14, <2>1 DEF GatePasses, Goto
  <2> QED
    BY <2>1, <2>2 DEF MailStep
<1>15. ASSUME NEW s \in Container, Settle(s) PROVE MailStep
  <2>1. UNCHANGED <<authorized, gmail, cache, age>>
    BY <1>15 DEF Settle
  <2>2. \A t \in Container : Learns(t) /\ Lists(t)
    BY <1>15, <2>1 DEF Settle, Finish, Return, Enter, Goto
  <2> QED
    BY <2>1, <2>2 DEF MailStep
<1>16. ASSUME NEW s \in Container, Record(s) PROVE MailStep
  <2>1. UNCHANGED <<authorized, gmail, cache, age>>
    BY <1>16 DEF Record
  <2>2. \E g : Proceed(s, "post", g, None)
    BY <1>16 DEF Record
  <2>3. \A t \in Container : Learns(t) /\ Lists(t)
    BY <2>1, <2>2 DEF Proceed, Return, Enter, Goto
  <2> QED
    BY <2>1, <2>3 DEF MailStep
<1>17. ASSUME NEW s \in Container, RecordConflicts(s) PROVE MailStep
  <2>1. UNCHANGED <<authorized, gmail, cache, age>>
    BY <1>17 DEF RecordConflicts
  <2>2. \A t \in Container : Learns(t) /\ Lists(t)
    BY <1>17, <2>1 DEF RecordConflicts, Return, Enter, Goto
  <2> QED
    BY <2>1, <2>2 DEF MailStep
<1>18. ASSUME NEW s \in Container, PostAccepted(s) PROVE MailStep
  <2>1. UNCHANGED <<authorized, gmail, cache, age>>
    BY <1>18 DEF PostAccepted
  <2>2. \A t \in Container : Learns(t) /\ Lists(t)
    BY <1>18, <2>1 DEF PostAccepted, Goto
  <2> QED
    BY <2>1, <2>2 DEF MailStep
<1>19. ASSUME NEW s \in Container, NEW v \in {"rejected", "send_error"}, PostFails(s, v)
       PROVE MailStep
  <2>1. UNCHANGED <<authorized, gmail, cache, age>>
    BY <1>19 DEF PostFails
  <2>2. \A t \in Container : Learns(t) /\ Lists(t)
    BY <1>19, <2>1 DEF PostFails, Enter, Goto
  <2> QED
    BY <2>1, <2>2 DEF MailStep
<1>20. ASSUME NEW s \in Container, NEW v \in {"rejected", "send_error"}, PostReplyLost(s, v)
       PROVE MailStep
  <2>1. UNCHANGED <<authorized, gmail, cache, age>>
    BY <1>20 DEF PostReplyLost
  <2>2. \A t \in Container : Learns(t) /\ Lists(t)
    BY <1>20, <2>1 DEF PostReplyLost, Enter, Goto
  <2> QED
    BY <2>1, <2>2 DEF MailStep
<1>21. ASSUME NEW s \in Container, Confirm(s) PROVE MailStep
  <2>1. UNCHANGED <<authorized, gmail, cache, age>>
    BY <1>21 DEF Confirm
  <2>2. \A t \in Container : Learns(t) /\ Lists(t)
    BY <1>21, <2>1 DEF Confirm, Proceed, Return, Enter, Goto
  <2> QED
    BY <2>1, <2>2 DEF MailStep
<1>22. ASSUME NEW s \in Container, UpdateAcked(s) PROVE MailStep
  <2>1. UNCHANGED <<authorized, gmail, cache, age>>
    BY <1>22 DEF UpdateAcked
  <2>2. \A t \in Container : Learns(t) /\ Lists(t)
    BY <1>22, <2>1 DEF UpdateAcked, Proceed, Return, Enter, Goto
  <2> QED
    BY <2>1, <2>2 DEF MailStep
<1>23. ASSUME NEW s \in Container, MarkAcked(s) PROVE MailStep
  <2>1. gmail' = [gmail EXCEPT ![cur[s]] = "read"] /\ UNCHANGED <<authorized, cache, age>>
    BY <1>23 DEF MarkAcked, MarkRead
  <2>2. \A t \in Container : Learns(t) /\ Lists(t)
    BY <1>23, <2>1 DEF MarkAcked, Finish, Return, Enter, Goto
  <2> QED
    BY <1>23, <2>1, <2>2 DEF MailStep, PutAway
<1>24. ASSUME NEW s \in Container, Release(s) PROVE MailStep
  <2>1. UNCHANGED <<authorized, gmail, cache, age>>
    BY <1>24 DEF Release
  <2>2. \A t \in Container : Learns(t) /\ Lists(t)
    BY <1>24, <2>1 DEF Release, Proceed, Return, Enter, Goto
  <2> QED
    BY <2>1, <2>2 DEF MailStep
<1>25. ASSUME NEW s \in Container, ReleaseRepeats(s) PROVE MailStep
  <2>1. UNCHANGED <<authorized, gmail, cache, age>>
    BY <1>25 DEF ReleaseRepeats
  <2>2. \A t \in Container : Learns(t) /\ Lists(t)
    BY <1>25, <2>1 DEF ReleaseRepeats, ReleaseClaim
  <2> QED
    BY <2>1, <2>2 DEF MailStep
<1>26. ASSUME NEW s \in Container, NoteFailure(s) PROVE MailStep
  <2>1. UNCHANGED <<authorized, gmail, cache, age>>
    BY <1>26 DEF NoteFailure
  <2>2. \A t \in Container : Learns(t) /\ Lists(t)
    BY <1>26, <2>1 DEF NoteFailure, Finish, Return, Enter, Goto
  <2> QED
    BY <2>1, <2>2 DEF MailStep
<1>27. ASSUME NEW s \in Container, CallRaises(s) PROVE MailStep
  <2>1. UNCHANGED <<authorized, gmail, cache, age>>
    BY <1>27 DEF CallRaises
  <2>2. \A t \in Container : Learns(t) /\ Lists(t)
    BY <1>27, <2>1 DEF CallRaises, Return, Enter, Goto
  <2> QED
    BY <2>1, <2>2 DEF MailStep
<1>28. ASSUME NEW s \in Container, Crash(s) PROVE MailStep
  <2>1. UNCHANGED <<authorized, gmail>>
    BY <1>28 DEF Crash, Reset
  <2>2. \A t \in Container : Learns(t) /\ Lists(t)
    BY <1>28 DEF Crash, Reset, Enter, Goto
  <2> QED
    BY <2>1, <2>2 DEF MailStep
<1>29. ASSUME NEW s \in Container, Recycle(s) PROVE MailStep
  <2>1. UNCHANGED <<authorized, gmail>>
    BY <1>29 DEF Recycle, Reset
  <2>2. \A t \in Container : Learns(t) /\ Lists(t)
    BY <1>29 DEF Recycle, Reset, Enter, Goto
  <2> QED
    BY <2>1, <2>2 DEF MailStep
<1>30. ASSUME NEW s \in Container, CacheExpires(s) PROVE MailStep
  BY <1>30 DEF MailStep, CacheExpires
<1>31. ASSUME NEW s \in Container, VerifySender(s) PROVE MailStep
  <2>1. ListOf[Mailboxes[1]] \in Url /\ FetchAuthorizedSenders(s, ListOf[Mailboxes[1]])
    BY <1>31, EndpointType, MailboxesAssumption DEF VerifySender
  <2>2. \A t \in Container : Lists(t)
    BY <2>1 DEF FetchAuthorizedSenders
  <2>3. (\A t \in Container : Learns(t)) /\ UNCHANGED <<authorized, gmail>>
    BY <1>31 DEF VerifySender
  <2> QED
    BY <2>2, <2>3 DEF MailStep
<1>32. ASSUME NEW c \in Copy, Deliver(c) PROVE MailStep
  BY <1>32 DEF MailStep, Deliver
<1>33. ASSUME NEW u \in Url, Authorize(u) PROVE MailStep
  BY <1>33 DEF MailStep, Authorize
<1>34. ASSUME NEW k \in Key, TtlExpires(k) PROVE MailStep
  BY <1>34 DEF MailStep, TtlExpires
<1>35. CASE UNCHANGED vars
  BY <1>35 DEF vars, MailStep
<1> HIDE DEF Learns, Lists, Acked, TypeInv, TypeOK, LocalsOK, Handling, Labels,
             cacheVars, storeVars, worldVars, sweepVars, callVars
<1> QED
  BY <1>1, <1>2, <1>3, <1>4, <1>5, <1>6, <1>7, <1>8, <1>9, <1>10, <1>11, <1>12,
     <1>13, <1>14, <1>15, <1>16, <1>17, <1>18, <1>19, <1>20, <1>21, <1>22, <1>23,
     <1>24, <1>25, <1>26, <1>27, <1>28, <1>29, <1>30, <1>31, <1>32, <1>33, <1>34,
     <1>35
     DEF Next, Sweep, Life, World, Message, Posting

(***************************************************************************)
(* A list that was fetched holds the senders who are authorized for good,  *)
(* and a sweep past its POST works on an envelope Clark has.               *)
(***************************************************************************)
LossInv ==
  /\ \A u \in Url : Steady[u] \subseteq authorized[u]
  /\ \A s \in Container :
       /\ age[s] # "never" => \A u \in Url : Steady[u] \subseteq cache[s]
       /\ pc[s] \in Acked => clark[gid[s]] # "none"

LEMMA LossStep ==
  ASSUME \A u, v \in Url : Steady[u] = Steady[v]
  PROVE  TypeInv /\ LossInv /\ [Next]_vars => LossInv'
<1> SUFFICES ASSUME TypeInv, LossInv, [Next]_vars PROVE LossInv'
  OBVIOUS
<1>1. \A u \in Url : Steady[u] \subseteq authorized'[u]
  BY MailSteps DEF MailStep, LossInv
<1>2. ASSUME NEW s \in Container, age'[s] # "never", NEW u \in Url
      PROVE  Steady[u] \subseteq cache'[s]
  <2>1. Lists(s)
    BY MailSteps DEF MailStep
  <2>2. ASSUME NEW v \in Url, cache'[s] = authorized[v] PROVE Steady[u] \subseteq cache'[s]
    BY <2>2 DEF LossInv
  <2> QED
    BY <1>2, <2>1, <2>2 DEF Lists, LossInv
<1>3. ASSUME NEW s \in Container, pc'[s] \in Acked PROVE clark'[gid'[s]] # "none"
  <2>1. Learns(s)
    BY MailSteps DEF MailStep
  <2>2. ASSUME pc[s] \in Acked PROVE clark'[gid[s]] # "none"
    <3>1. gid[s] \in GatewayId /\ clark[gid[s]] # "none"
      BY <2>2 DEF LossInv, Acked, TypeInv, LocalsOK
    <3>2. ASSUME NEW t \in Container,
                 PostAccepted(t) \/ \E v \in {"rejected", "send_error"} : PostReplyLost(t, v)
          PROVE  clark'[gid[s]] # "none"
      BY <3>1, <3>2 DEF PostAccepted, PostReplyLost, TypeInv, TypeOK
    <3> QED
      BY <3>1, <3>2, ForwardSteps DEF ForwardStep
  <2> QED
    BY <1>3, <2>1, <2>2 DEF Learns
<1> QED
  BY <1>1, <1>2, <1>3 DEF LossInv

(***************************************************************************)
(* When the endpoints agree on whom they always authorize, no wanted       *)
(* message is put away unanswered: what is ignored is not from an          *)
(* authorized sender, unless the container has seen no list; what is       *)
(* dropped is not clean; what is marked after the POST, Clark has.         *)
(***************************************************************************)
THEOREM NothingLostSilently ==
  ASSUME \A u, v \in Url : Steady[u] = Steady[v]
  PROVE  Spec => NoSilentLoss
<1>1. Init => LossInv
  BY DEF Init, LossInv, Acked
<1>2. TypeInv /\ LossInv /\ [Next]_vars => LossInv'
  BY LossStep
<1>3. TypeInv /\ LossInv /\ [Next]_vars =>
        \A c \in Copy :
          Wanted(c) /\ gmail[c] = "unread" /\ gmail'[c] = "read"
            => \/ Forwards(DedupKey(c)) # {}
               \/ \E s \in Container : cur[s] = c /\ age[s] = "never"
  <2> SUFFICES ASSUME TypeInv, LossInv, [Next]_vars, NEW c \in Copy,
                      Wanted(c), gmail[c] = "unread", gmail'[c] = "read",
                      \A s \in Container : cur[s] = c => age[s] # "never"
               PROVE  Forwards(DedupKey(c)) # {}
    OBVIOUS
  <2>1. PICK s \in Container : PutAway(s, c)
    BY MailSteps DEF MailStep
  <2>2. age[s] # "never" /\ cur[s] = c
    BY <2>1 DEF PutAway
  <2>3. SenderAllowed(s, c)
    BY <2>2, MailAssumption, ListAssumption DEF Wanted, LossInv, SenderAllowed
  <2>4. ~ GateIgnores(s) /\ ~ GateDrops(s)
    BY <2>2, <2>3 DEF GateIgnores, GateDrops, Wanted
  <2>5. pc[s] = "mark"
    BY <2>1, <2>4 DEF PutAway, MarkAcked
  <2>6. gid[s] \in GatewayId /\ KeyOf(gid[s]) = DedupKey(c) /\ clark[gid[s]] # "none"
    BY <2>2, <2>5 DEF LossInv, Acked, TypeInv, LocalsOK, KeyOf
  <2> QED
    BY <2>6 DEF Forwards
<1> QED
  BY <1>1, <1>2, <1>3, TypeInvariant, PTL DEF Spec, NoSilentLoss
=============================================================================
