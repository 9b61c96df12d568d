------------------------- MODULE InboundPollerProofs -------------------------
(***************************************************************************)
(* What is proved of InboundPoller for every set of containers, mailboxes, *)
(* messages and senders and for any number of failures.                    *)
(***************************************************************************)
EXTENDS InboundPoller, TLAPS

USE DEF Handling, Labels, Tombstone

(***************************************************************************)
(* What the locals of _process_message hold at each of its calls.          *)
(***************************************************************************)
LocalsOK ==
  \A s \in Container :
    /\ pc[s] \in Handling => cur[s] \in Copy
    /\ pc[s] = "settle" => verdict[s] \in {"ignored", "dropped"}
    /\ pc[s] \in {"release", "note"} => verdict[s] \in {"rejected", "send_error"}
    /\ pc[s] \in {"post", "confirm", "update", "mark", "release", "note"}
         => gid[s] \in GatewayId /\ origin[gid[s]] = cur[s]

TypeInv == TypeOK /\ LocalsOK

(***************************************************************************)
(* The dedup key of a copy is a key.                                       *)
(***************************************************************************)
LEMMA DedupKeyType == ASSUME NEW c \in Copy PROVE DedupKey(c) \in Key
BY MailAssumption DEF DedupKey, Key

(***************************************************************************)
(* The first mailbox not yet swept has an endpoint.                        *)
(***************************************************************************)
LEMMA EndpointType ==
  ASSUME NEW i \in 1..Len(Mailboxes) PROVE ListOf[Mailboxes[i]] \in Url
BY ListAssumption DEF Mailbox

LEMMA TypeInit == Init => TypeInv
<1> SUFFICES ASSUME Init PROVE TypeInv
  OBVIOUS
<1>1. TypeOK
  BY ListAssumption, BoundAssumption, MailboxesAssumption DEF Init, TypeOK
<1>2. LocalsOK
  BY DEF Init, LocalsOK
<1> QED
  BY <1>1, <1>2 DEF TypeInv

(***************************************************************************)
(* A use of the allow-list leaves the cache typed.                         *)
(***************************************************************************)
LEMMA FetchType ==
  ASSUME TypeOK, NEW s \in Container, NEW u \in Url, FetchAuthorizedSenders(s, u)
  PROVE  /\ cache' \in [Container -> SUBSET Sender]
         /\ age' \in [Container -> {"never", "fresh", "stale"}]
         /\ faults' \in 0..MaxFaults
<1>1. CASE age[s] = "fresh"
  BY <1>1 DEF TypeOK, FetchAuthorizedSenders, cacheVars
<1>2. CASE age[s] # "fresh" /\ Fault("senders") /\ UNCHANGED cacheVars
  BY <1>2, BoundAssumption DEF TypeOK, Fault, cacheVars
<1>3. CASE /\ cache' = [cache EXCEPT ![s] = authorized[u]]
           /\ age' = [age EXCEPT ![s] = "fresh"]
           /\ UNCHANGED faults
  BY <1>3 DEF TypeOK
<1> QED
  BY <1>1, <1>2, <1>3 DEF FetchAuthorizedSenders

(***************************************************************************)
(* A call that took effect leaves the locals typed, whether its answer     *)
(* comes or not.                                                           *)
(***************************************************************************)
LEMMA ProceedType ==
  ASSUME TypeOK, NEW s \in Container, NEW label \in Labels, cur[s] \in Copy,
         NEW g \in GatewayId \union {None},
         NEW v \in {None, "ignored", "dropped", "rejected", "send_error"},
         Proceed(s, label, g, v)
  PROVE  /\ pc' \in [Container -> Labels]
         /\ cur' \in [Container -> Copy \union {None}]
         /\ gid' \in [Container -> GatewayId \union {None}]
         /\ verdict' \in [Container -> {None, "ignored", "dropped", "rejected", "send_error"}]
         /\ faults' \in 0..MaxFaults
<1>1. CASE Enter(s, label, cur[s], g, v) /\ UNCHANGED faults
  BY <1>1 DEF TypeOK, Enter, Goto
<1>2. CASE Fault("raise") /\ Return(s)
  BY <1>2, BoundAssumption DEF TypeOK, Fault, Return, Enter, Goto
<1> QED
  BY <1>1, <1>2 DEF Proceed

(***************************************************************************)
(* ... and the sweep of s at label with these locals, or done with the     *)
(* copy; the other sweeps where they were.                                 *)
(***************************************************************************)
LEMMA ProceedLocals ==
  ASSUME TypeOK, NEW s \in Container, NEW label, NEW g, NEW v,
         Proceed(s, label, g, v)
  PROVE  /\ \/ pc'[s] = label /\ cur'[s] = cur[s] /\ gid'[s] = g /\ verdict'[s] = v
            \/ pc'[s] = "message"
         /\ \A t \in Container \ {s} : /\ pc'[t] = pc[t] /\ cur'[t] = cur[t]
                                       /\ gid'[t] = gid[t] /\ verdict'[t] = verdict[t]
BY DEF TypeOK, Proceed, Return, Enter, Goto

LEMMA TypeStep == TypeInv /\ [Next]_vars => TypeInv'
<1> SUFFICES ASSUME TypeInv, [Next]_vars PROVE TypeInv'
  OBVIOUS
<1> USE DEF TypeInv, TypeOK, LocalsOK, cacheVars, storeVars, worldVars, sweepVars, callVars
<1>1. ASSUME NEW s \in Container, StartSweep(s) PROVE TypeInv'
  BY <1>1 DEF StartSweep, Goto
<1>2. ASSUME NEW s \in Container, NextMailbox(s) PROVE TypeInv'
  BY <1>2, FetchType, EndpointType DEF NextMailbox, Goto
<1>3. ASSUME NEW s \in Container, EndSweep(s) PROVE TypeInv'
  BY <1>3 DEF EndSweep, Goto
<1>4. ASSUME NEW s \in Container, ListUnread(s) PROVE TypeInv'
  BY <1>4 DEF ListUnread, Goto, Listing, UnreadIn
<1>5. ASSUME NEW s \in Container, ListFails(s) PROVE TypeInv'
  BY <1>5, BoundAssumption DEF ListFails, Goto, Fault
<1>6. ASSUME NEW s \in Container, MailboxDone(s) PROVE TypeInv'
  BY <1>6 DEF MailboxDone, Goto
<1>7. ASSUME NEW s \in Container, NEW c \in Copy, FetchFails(s, c) PROVE TypeInv'
  BY <1>7, BoundAssumption DEF FetchFails, TakeNext, Fault
<1>8. ASSUME NEW s \in Container, NEW c \in Copy, Claim(s, c) PROVE TypeInv'
  BY <1>8, DedupKeyType DEF Claim, TakeNext, ClaimMessage, Enter, Goto
<1>9. ASSUME NEW s \in Container, NEW c \in Copy, SkipSeen(s, c) PROVE TypeInv'
  BY <1>9 DEF SkipSeen, TakeNext
<1>10. ASSUME NEW s \in Container, NEW c \in Copy, ClaimAnswerLost(s, c) PROVE TypeInv'
  BY <1>10, DedupKeyType, BoundAssumption DEF ClaimAnswerLost, TakeNext, ClaimMessage, Fault
<1>11. ASSUME NEW s \in Container, GateIgnores(s) PROVE TypeInv'
  <2>1. Proceed(s, "settle", None, "ignored") /\ pc[s] = "gate" /\ origin' = origin
    BY <1>11 DEF GateIgnores, GateDiscards, storeVars
  <2>2. TypeOK'
    BY <1>11, ProceedType, <2>1 DEF GateIgnores, GateDiscards, MarkRead
  <2>3. LocalsOK'
    BY <2>1, ProceedLocals
  <2> QED
    BY <2>2, <2>3
<1>12. ASSUME NEW s \in Container, GateDrops(s) PROVE TypeInv'
  <2>1. Proceed(s, "settle", None, "dropped") /\ pc[s] = "gate" /\ origin' = origin
    BY <1>12 DEF GateDrops, GateDiscards, storeVars
  <2>2. TypeOK'
    BY <1>12, ProceedType, <2>1 DEF GateDrops, GateDiscards, MarkRead
  <2>3. LocalsOK'
    BY <2>1, ProceedLocals
  <2> QED
    BY <2>2, <2>3
<1>13. ASSUME NEW s \in Container, GateRaises(s) PROVE TypeInv'
  BY <1>13 DEF GateRaises, Return, Enter, Goto
<1>14. ASSUME NEW s \in Container, GatePasses(s) PROVE TypeInv'
  BY <1>14 DEF GatePasses, Goto
<1>15. ASSUME NEW s \in Container, Settle(s) PROVE TypeInv'
  <2>1. DedupKey(cur[s]) \in Key
    BY <1>15, DedupKeyType DEF Settle
  <2>2. TypeOK'
    BY <1>15, <2>1, BoundAssumption DEF Settle, ConfirmClaim, Finish, Return, Enter, Goto, Fault
  <2>3. LocalsOK'
    BY <1>15 DEF Settle, ConfirmClaim, Finish, Return, Enter, Goto
  <2> QED
    BY <2>2, <2>3
<1>16. ASSUME NEW s \in Container, Record(s) PROVE TypeInv'
  <2> DEFINE g == CHOOSE g \in Unused : TRUE
  <2>1. g \in GatewayId /\ origin[g] = None
    BY <1>16 DEF Record, Unused
  <2>2. Proceed(s, "post", g, None) /\ RecordRow(g, cur[s])
    BY <1>16 DEF Record
  <2> HIDE DEF g
  <2>3. pc[s] = "record" /\ UNCHANGED <<box, todo, cacheVars, claims, worldVars>>
    BY <1>16 DEF Record
  <2>4. TypeOK'
    BY <2>1, <2>2, <2>3, ProceedType DEF RecordRow
  <2>5. LocalsOK'
    BY <2>1, <2>2, <2>3, ProceedLocals, NoneAssumption DEF RecordRow
  <2> QED
    BY <2>4, <2>5
<1>17. ASSUME NEW s \in Container, RecordConflicts(s) PROVE TypeInv'
  BY <1>17 DEF RecordConflicts, Return, Enter, Goto
<1>18. ASSUME NEW s \in Container, PostAccepted(s) PROVE TypeInv'
  BY <1>18 DEF PostAccepted, Goto
<1>19. ASSUME NEW s \in Container, NEW v \in {"rejected", "send_error"}, PostFails(s, v)
       PROVE TypeInv'
  BY <1>19, BoundAssumption DEF PostFails, Enter, Goto, Fault
<1>20. ASSUME NEW s \in Container, NEW v \in {"rejected", "send_error"}, PostReplyLost(s, v)
       PROVE TypeInv'
  BY <1>20, BoundAssumption DEF PostReplyLost, Enter, Goto, Fault
<1>21. ASSUME NEW s \in Container, Confirm(s) PROVE TypeInv'
  <2>1. DedupKey(cur[s]) \in Key
    BY <1>21, DedupKeyType DEF Confirm
  <2>2. Proceed(s, "update", gid[s], None) /\ pc[s] = "confirm" /\ origin' = origin
    BY <1>21 DEF Confirm
  <2>3. TypeOK'
    BY <1>21, <2>1, ProceedType, <2>2 DEF Confirm, ConfirmClaim
  <2>4. LocalsOK'
    BY <2>2, ProceedLocals
  <2> QED
    BY <2>3, <2>4
<1>22. ASSUME NEW s \in Container, UpdateAcked(s) PROVE TypeInv'
  <2>1. Proceed(s, "mark", gid[s], None) /\ pc[s] = "update" /\ origin' = origin
    BY <1>22 DEF UpdateAcked
  <2>2. TypeOK'
    BY <1>22, ProceedType, <2>1 DEF UpdateAcked, UpdateStatus
  <2>3. LocalsOK'
    BY <2>1, ProceedLocals
  <2> QED
    BY <2>2, <2>3
<1>23. ASSUME NEW s \in Container, MarkAcked(s) PROVE TypeInv'
  BY <1>23, BoundAssumption DEF MarkAcked, MarkRead, Finish, Return, Enter, Goto, Fault
<1>24. ASSUME NEW s \in Container, Release(s) PROVE TypeInv'
  <2>1. DedupKey(cur[s]) \in Key
    BY <1>24, DedupKeyType DEF Release
  <2>2. Proceed(s, "note", gid[s], verdict[s]) /\ pc[s] = "release" /\ origin' = origin
    BY <1>24 DEF Release
  <2>3. gid[s] \in GatewayId /\ verdict[s] \in {"rejected", "send_error"} /\ cur[s] \in Copy
    BY <2>2
  <2>4. TypeOK'
    BY <1>24, <2>1, ProceedType, <2>3, <2>2 DEF Release, ReleaseClaim
  <2>5. LocalsOK'
    BY <2>2, ProceedLocals
  <2> QED
    BY <2>4, <2>5
<1>25. ASSUME NEW s \in Container, ReleaseRepeats(s) PROVE TypeInv'
  <2>1. DedupKey(cur[s]) \in Key
    BY <1>25, DedupKeyType DEF ReleaseRepeats
  <2>2. TypeOK'
    BY <1>25, <2>1, BoundAssumption DEF ReleaseRepeats, ReleaseClaim, Fault
  <2>3. LocalsOK'
    BY <1>25 DEF ReleaseRepeats, ReleaseClaim
  <2> QED
    BY <2>2, <2>3
<1>26. ASSUME NEW s \in Container, NoteFailure(s) PROVE TypeInv'
  BY <1>26, BoundAssumption DEF NoteFailure, UpdateStatus, Finish, Return, Enter, Goto, Fault
<1>27. ASSUME NEW s \in Container, CallRaises(s) PROVE TypeInv'
  BY <1>27, BoundAssumption DEF CallRaises, Return, Enter, Goto, Fault
<1>28. ASSUME NEW s \in Container, Crash(s) PROVE TypeInv'
  BY <1>28, BoundAssumption DEF Crash, Reset, Enter, Goto, Fault
<1>29. ASSUME NEW s \in Container, Recycle(s) PROVE TypeInv'
  BY <1>29 DEF Recycle, Reset, Enter, Goto
<1>30. ASSUME NEW s \in Container, CacheExpires(s) PROVE TypeInv'
  BY <1>30 DEF CacheExpires
<1>31. ASSUME NEW s \in Container, VerifySender(s) PROVE TypeInv'
  BY <1>31, FetchType, EndpointType DEF VerifySender
<1>32. ASSUME NEW c \in Copy, Deliver(c) PROVE TypeInv'
  BY <1>32 DEF Deliver
<1>33. ASSUME NEW u \in Url, Authorize(u) PROVE TypeInv'
  BY <1>33 DEF Authorize
<1>34. ASSUME NEW k \in Key, TtlExpires(k) PROVE TypeInv'
  BY <1>34, BoundAssumption DEF TtlExpires, ReleaseClaim, Fault
<1>35. CASE UNCHANGED vars
  BY <1>35 DEF vars
<1> HIDE DEF TypeInv, TypeOK, LocalsOK, cacheVars, storeVars, worldVars, sweepVars, callVars
<1> QED
  BY <1>1, <1>2, <1>3, <1>4, <1>5, <1>6, <1>7, <1>8, <1>9, <1>10, <1>11, <1>12, <1>13, <1>14,
     <1>15, <1>16, <1>17, <1>18, <1>19, <1>20, <1>21, <1>22, <1>23, <1>24, <1>25, <1>26,
     <1>27, <1>28, <1>29, <1>30, <1>31, <1>32, <1>33, <1>34, <1>35 DEF Next, Sweep, Life,
     World, Message, Posting

LEMMA TypeInvariant == Spec => []TypeInv
<1>1. Init => TypeInv
  BY TypeInit
<1>2. TypeInv /\ [Next]_vars => TypeInv'
  BY TypeStep
<1> QED
  BY <1>1, <1>2, PTL DEF Spec

(***************************************************************************)
(* Type correctness: every variable keeps to its range.                    *)
(***************************************************************************)
THEOREM TypeCorrect == Spec => []TypeOK
<1>1. TypeInv => TypeOK
  BY DEF TypeInv
<1> QED
  BY <1>1, TypeInvariant, PTL

(***************************************************************************)
(* After a call that took effect, s holds its key only if the call at      *)
(* label does; nobody else's hold changes.                                 *)
(***************************************************************************)
LEMMA ProceedHolds ==
  ASSUME TypeOK, NEW s \in Container, NEW label, NEW g, NEW v,
         Proceed(s, label, g, v), NEW t \in Container, NEW k, Holds(t, k)'
  PROVE  IF t = s THEN label \in Holding /\ DedupKey(cur[s]) = k ELSE Holds(t, k)
BY DEF TypeOK, Proceed, Return, Enter, Goto, Holds, Holding

LEMMA ExclusiveStep ==
  ASSUME "repeat_release" \notin Faults
  PROVE  TypeInv /\ ClaimExclusive /\ [Next]_vars => ClaimExclusive'
<1> SUFFICES ASSUME TypeInv, ClaimExclusive, [Next]_vars PROVE ClaimExclusive'
  OBVIOUS
<1> USE DEF TypeInv, TypeOK, LocalsOK, ClaimExclusive, Holds, Holding, cacheVars, storeVars,
            worldVars, sweepVars, callVars
<1>1. ASSUME NEW s \in Container, StartSweep(s) PROVE ClaimExclusive'
  BY <1>1, DedupKeyType DEF StartSweep, Goto
<1>2. ASSUME NEW s \in Container, NextMailbox(s) PROVE ClaimExclusive'
  BY <1>2, DedupKeyType DEF NextMailbox, Goto
<1>3. ASSUME NEW s \in Container, EndSweep(s) PROVE ClaimExclusive'
  BY <1>3, DedupKeyType DEF EndSweep, Goto
<1>4. ASSUME NEW s \in Container, ListUnread(s) PROVE ClaimExclusive'
  BY <1>4, DedupKeyType DEF ListUnread, Goto, Listing, UnreadIn
<1>5. ASSUME NEW s \in Container, ListFails(s) PROVE ClaimExclusive'
  BY <1>5, DedupKeyType DEF ListFails, Goto
<1>6. ASSUME NEW s \in Container, MailboxDone(s) PROVE ClaimExclusive'
  BY <1>6, DedupKeyType DEF MailboxDone, Goto
<1>7. ASSUME NEW s \in Container, NEW c \in Copy, FetchFails(s, c) PROVE ClaimExclusive'
  BY <1>7, DedupKeyType DEF FetchFails, TakeNext
<1>8. ASSUME NEW s \in Container, NEW c \in Copy, Claim(s, c) PROVE ClaimExclusive'
  BY <1>8, DedupKeyType DEF Claim, TakeNext, ClaimMessage, Enter, Goto, Claimable
<1>9. ASSUME NEW s \in Container, NEW c \in Copy, SkipSeen(s, c) PROVE ClaimExclusive'
  BY <1>9, DedupKeyType DEF SkipSeen, TakeNext
<1>10. ASSUME NEW s \in Container, NEW c \in Copy, ClaimAnswerLost(s, c) PROVE ClaimExclusive'
  BY <1>10, DedupKeyType DEF ClaimAnswerLost, TakeNext, ClaimMessage, Claimable
<1>11. ASSUME NEW s \in Container, GateIgnores(s) PROVE ClaimExclusive'
  <2>1. Proceed(s, "settle", None, "ignored")
    BY <1>11 DEF GateIgnores, GateDiscards, storeVars
  <2>2. pc[s] = "gate" /\ UNCHANGED claims
    BY <1>11 DEF GateIgnores, GateDiscards, storeVars
  <2> QED
    BY <2>1, <2>2, ProceedHolds, DedupKeyType
<1>12. ASSUME NEW s \in Container, GateDrops(s) PROVE ClaimExclusive'
  <2>1. Proceed(s, "settle", None, "dropped")
    BY <1>12 DEF GateDrops, GateDiscards, storeVars
  <2>2. pc[s] = "gate" /\ UNCHANGED claims
    BY <1>12 DEF GateDrops, GateDiscards, storeVars
  <2> QED
    BY <2>1, <2>2, ProceedHolds, DedupKeyType
<1>13. ASSUME NEW s \in Container, GateRaises(s) PROVE ClaimExclusive'
  BY <1>13, DedupKeyType DEF GateRaises, Return, Enter, Goto
<1>14. ASSUME NEW s \in Container, GatePasses(s) PROVE ClaimExclusive'
  BY <1>14, DedupKeyType DEF GatePasses, Goto
<1>15. ASSUME NEW s \in Container, Settle(s) PROVE ClaimExclusive'
  BY <1>15, DedupKeyType DEF Settle, ConfirmClaim, Finish, Return, Enter, Goto
<1>16. ASSUME NEW s \in Container, Record(s) PROVE ClaimExclusive'
  <2>1. \E g \in GatewayId : Proceed(s, "post", g, None)
    BY <1>16 DEF Record, Unused
  <2>2. pc[s] = "record" /\ UNCHANGED claims
    BY <1>16 DEF Record
  <2> QED
    BY <2>1, <2>2, ProceedHolds
<1>17. ASSUME NEW s \in Container, RecordConflicts(s) PROVE ClaimExclusive'
  BY <1>17, DedupKeyType DEF RecordConflicts, Return, Enter, Goto
<1>18. ASSUME NEW s \in Container, PostAccepted(s) PROVE ClaimExclusive'
  BY <1>18, DedupKeyType DEF PostAccepted, Goto
<1>19. ASSUME NEW s \in Container, NEW v \in {"rejected", "send_error"}, PostFails(s, v)
       PROVE ClaimExclusive'
  BY <1>19, DedupKeyType DEF PostFails, Enter, Goto
<1>20. ASSUME NEW s \in Container, NEW v \in {"rejected", "send_error"}, PostReplyLost(s, v)
       PROVE ClaimExclusive'
  BY <1>20, DedupKeyType DEF PostReplyLost, Enter, Goto
<1>21. ASSUME NEW s \in Container, Confirm(s) PROVE ClaimExclusive'
  <2>1. Proceed(s, "update", gid[s], None)
    BY <1>21 DEF Confirm
  <2>2. pc[s] = "confirm" /\ ConfirmClaim(DedupKey(cur[s]), "acked")
    BY <1>21 DEF Confirm
  <2>3. ASSUME NEW t \in Container, NEW k \in Key, Holds(t, k)'
       PROVE  t # s /\ Holds(t, k)
    BY <2>1, <2>2, <2>3 DEF Proceed, Return, Enter, Goto
  <2> QED
    BY <2>1, <2>2, <2>3, DedupKeyType DEF ConfirmClaim, ReleaseClaim
<1>22. ASSUME NEW s \in Container, UpdateAcked(s) PROVE ClaimExclusive'
  <2>1. Proceed(s, "mark", gid[s], None)
    BY <1>22 DEF UpdateAcked
  <2>2. pc[s] = "update" /\ UNCHANGED claims
    BY <1>22 DEF UpdateAcked
  <2>3. ASSUME NEW t \in Container, NEW k \in Key, Holds(t, k)'
       PROVE  t # s /\ Holds(t, k)
    BY <2>1, <2>2, <2>3 DEF Proceed, Return, Enter, Goto
  <2> QED
    BY <2>1, <2>2, <2>3, DedupKeyType
<1>23. ASSUME NEW s \in Container, MarkAcked(s) PROVE ClaimExclusive'
  BY <1>23, DedupKeyType DEF MarkAcked, MarkRead, Finish, Return, Enter, Goto
<1>24. ASSUME NEW s \in Container, Release(s) PROVE ClaimExclusive'
  <2>1. Proceed(s, "note", gid[s], verdict[s])
    BY <1>24 DEF Release
  <2>2. pc[s] = "release" /\ ReleaseClaim(DedupKey(cur[s]))
    BY <1>24 DEF Release
  <2>3. ASSUME NEW t \in Container, NEW k \in Key, Holds(t, k)'
       PROVE  t # s /\ Holds(t, k)
    BY <2>1, <2>2, <2>3 DEF Proceed, Return, Enter, Goto
  <2> QED
    BY <2>1, <2>2, <2>3, DedupKeyType DEF ConfirmClaim, ReleaseClaim
<1>25. ASSUME NEW s \in Container, ReleaseRepeats(s) PROVE ClaimExclusive'
  BY <1>25, DedupKeyType DEF ReleaseRepeats, ReleaseClaim, Fault
<1>26. ASSUME NEW s \in Container, NoteFailure(s) PROVE ClaimExclusive'
  BY <1>26, DedupKeyType DEF NoteFailure, UpdateStatus, Finish, Return, Enter, Goto
<1>27. ASSUME NEW s \in Container, CallRaises(s) PROVE ClaimExclusive'
  BY <1>27, DedupKeyType DEF CallRaises, Return, Enter, Goto
<1>28. ASSUME NEW s \in Container, Crash(s) PROVE ClaimExclusive'
  BY <1>28, DedupKeyType DEF Crash, Reset, Enter, Goto
<1>29. ASSUME NEW s \in Container, Recycle(s) PROVE ClaimExclusive'
  BY <1>29, DedupKeyType DEF Recycle, Reset, Enter, Goto
<1>30. ASSUME NEW s \in Container, CacheExpires(s) PROVE ClaimExclusive'
  BY <1>30, DedupKeyType DEF CacheExpires
<1>31. ASSUME NEW s \in Container, VerifySender(s) PROVE ClaimExclusive'
  BY <1>31, DedupKeyType DEF VerifySender
<1>32. ASSUME NEW c \in Copy, Deliver(c) PROVE ClaimExclusive'
  BY <1>32, DedupKeyType DEF Deliver
<1>33. ASSUME NEW u \in Url, Authorize(u) PROVE ClaimExclusive'
  BY <1>33, DedupKeyType DEF Authorize
<1>34. ASSUME NEW k \in Key, TtlExpires(k) PROVE ClaimExclusive'
  BY <1>34, DedupKeyType, NoneAssumption DEF TtlExpires, ReleaseClaim
<1>35. CASE UNCHANGED vars
  BY <1>35 DEF vars
<1> HIDE DEF TypeInv, TypeOK, LocalsOK, ClaimExclusive, Holds, Holding, cacheVars, storeVars,
             worldVars, sweepVars, callVars
<1> QED
  BY <1>1, <1>2, <1>3, <1>4, <1>5, <1>6, <1>7, <1>8, <1>9, <1>10, <1>11, <1>12, <1>13, <1>14,
     <1>15, <1>16, <1>17, <1>18, <1>19, <1>20, <1>21, <1>22, <1>23, <1>24, <1>25, <1>26,
     <1>27, <1>28, <1>29, <1>30, <1>31, <1>32, <1>33, <1>34, <1>35 DEF Next, Sweep, Life,
     World, Message, Posting

(***************************************************************************)
(* However many sweeps overlap, fail and die, at most one acts on a dedup  *)
(* key, and its claim stands while it does - as long as the SDK does not   *)
(* repeat a delete that was done.                                          *)
(***************************************************************************)
THEOREM Exclusive ==
  ASSUME "repeat_release" \notin Faults
  PROVE  Spec => []ClaimExclusive
<1>1. Init => ClaimExclusive
  BY DEF Init, ClaimExclusive, Holds, Holding
<1>2. TypeInv /\ ClaimExclusive /\ [Next]_vars => ClaimExclusive'
  BY ExclusiveStep
<1> QED
  BY <1>1, <1>2, TypeInvariant, PTL DEF Spec

(***************************************************************************)
(* A key Clark has acknowledged is not free again, and the only sweep that *)
(* can hold it is the one about to confirm.                                *)
(***************************************************************************)
AckInv ==
  /\ \A g \in GatewayId : clark[g] # "none" => origin[g] \in Copy
  /\ \A s \in Container : pc[s] = "post" => clark[gid[s]] = "none"
  /\ \A g \in GatewayId : clark[g] = "acked" =>
       /\ claims[KeyOf(g)] # "none"
       /\ \A s \in Container : Holds(s, KeyOf(g)) => pc[s] = "confirm"

LEMMA AckStep ==
  ASSUME {"repeat_release", "ttl"} \intersect Faults = {}
  PROVE  TypeInv /\ ClaimExclusive /\ AckInv /\ [Next]_vars => AckInv'
<1> SUFFICES ASSUME TypeInv, ClaimExclusive, AckInv, [Next]_vars PROVE AckInv'
  OBVIOUS
<1> USE DEF TypeInv, TypeOK, LocalsOK, ClaimExclusive, AckInv, KeyOf, Holds, Holding,
            cacheVars, storeVars, worldVars, sweepVars, callVars
<1>1. ASSUME NEW s \in Container, StartSweep(s) PROVE AckInv'
  BY <1>1, DedupKeyType DEF StartSweep, Goto
<1>2. ASSUME NEW s \in Container, NextMailbox(s) PROVE AckInv'
  BY <1>2, DedupKeyType DEF NextMailbox, Goto
<1>3. ASSUME NEW s \in Container, EndSweep(s) PROVE AckInv'
  BY <1>3, DedupKeyType DEF EndSweep, Goto
<1>4. ASSUME NEW s \in Container, ListUnread(s) PROVE AckInv'
  BY <1>4, DedupKeyType DEF ListUnread, Goto, Listing, UnreadIn
<1>5. ASSUME NEW s \in Container, ListFails(s) PROVE AckInv'
  BY <1>5, DedupKeyType DEF ListFails, Goto
<1>6. ASSUME NEW s \in Container, MailboxDone(s) PROVE AckInv'
  BY <1>6, DedupKeyType DEF MailboxDone, Goto
<1>7. ASSUME NEW s \in Container, NEW c \in Copy, FetchFails(s, c) PROVE AckInv'
  BY <1>7, DedupKeyType DEF FetchFails, TakeNext
<1>8. ASSUME NEW s \in Container, NEW c \in Copy, Claim(s, c) PROVE AckInv'
  BY <1>8, DedupKeyType DEF Claim, TakeNext, ClaimMessage, Enter, Goto, Claimable
<1>9. ASSUME NEW s \in Container, NEW c \in Copy, SkipSeen(s, c) PROVE AckInv'
  BY <1>9, DedupKeyType DEF SkipSeen, TakeNext
<1>10. ASSUME NEW s \in Container, NEW c \in Copy, ClaimAnswerLost(s, c) PROVE AckInv'
  BY <1>10, DedupKeyType DEF ClaimAnswerLost, TakeNext, ClaimMessage, Claimable
<1>11. ASSUME NEW s \in Container, GateIgnores(s) PROVE AckInv'
  <2>1. /\ pc[s] = "gate" /\ cur[s] \in Copy
        /\ claims' = claims
        /\ UNCHANGED <<clark, origin>>
    BY <1>11 DEF GateIgnores, GateDiscards
  <2>2. ASSUME NEW t \in Container, pc'[t] = "post"
        PROVE  pc[t] = "post" /\ gid'[t] = gid[t]
    BY <1>11, <2>2 DEF GateIgnores, GateDiscards, Proceed, Return, Enter, Goto
  <2>3. ASSUME NEW t \in Container, pc'[t] \in Holding
        PROVE  /\ pc[t] \in Holding /\ cur'[t] = cur[t]
               /\ pc[t] = "confirm" => pc'[t] = "confirm"
    BY <1>11, <2>3 DEF GateIgnores, GateDiscards, Proceed, Return, Enter, Goto
  <2> QED
    BY <2>1, <2>2, <2>3, DedupKeyType
<1>12. ASSUME NEW s \in Container, GateDrops(s) PROVE AckInv'
  <2>1. /\ pc[s] = "gate" /\ cur[s] \in Copy
        /\ claims' = claims
        /\ UNCHANGED <<clark, origin>>
    BY <1>12 DEF GateDrops, GateDiscards
  <2>2. ASSUME NEW t \in Container, pc'[t] = "post"
        PROVE  pc[t] = "post" /\ gid'[t] = gid[t]
    BY <1>12, <2>2 DEF GateDrops, GateDiscards, Proceed, Return, Enter, Goto
  <2>3. ASSUME NEW t \in Container, pc'[t] \in Holding
        PROVE  /\ pc[t] \in Holding /\ cur'[t] = cur[t]
               /\ pc[t] = "confirm" => pc'[t] = "confirm"
    BY <1>12, <2>3 DEF GateDrops, GateDiscards, Proceed, Return, Enter, Goto
  <2> QED
    BY <2>1, <2>2, <2>3, DedupKeyType
<1>13. ASSUME NEW s \in Container, GateRaises(s) PROVE AckInv'
  BY <1>13, DedupKeyType DEF GateRaises, Return, Enter, Goto
<1>14. ASSUME NEW s \in Container, GatePasses(s) PROVE AckInv'
  BY <1>14, DedupKeyType DEF GatePasses, Goto
<1>15. ASSUME NEW s \in Container, Settle(s) PROVE AckInv'
  BY <1>15, DedupKeyType DEF Settle, ConfirmClaim, Finish, Return, Enter, Goto
<1>16. ASSUME NEW s \in Container, Record(s) PROVE AckInv'
  <2> DEFINE h == CHOOSE h \in Unused : TRUE
  <2>1. h \in GatewayId /\ origin[h] = None
    BY <1>16 DEF Record, Unused
  <2>2. /\ pc[s] = "record" /\ cur[s] \in Copy
        /\ Proceed(s, "post", h, None)
        /\ origin' = [origin EXCEPT ![h] = cur[s]]
        /\ UNCHANGED <<claims, clark>>
    BY <1>16 DEF Record, RecordRow
  <2> HIDE DEF h
  <2>3. clark[h] = "none"
    BY <2>1, NoneAssumption
  <2>4. ASSUME NEW t \in Container, pc'[t] = "post"
        PROVE  \/ pc[t] = "post" /\ gid'[t] = gid[t]
               \/ gid'[t] = h
    BY <2>2, <2>4 DEF Proceed, Return, Enter, Goto
  <2>5. ASSUME NEW t \in Container, pc'[t] \in Holding
        PROVE  /\ pc[t] \in Holding /\ cur'[t] = cur[t]
               /\ pc[t] = "confirm" => pc'[t] = "confirm"
    BY <2>2, <2>5 DEF Proceed, Return, Enter, Goto
  <2>6. \A t \in Container : pc'[t] = "post" => clark'[gid'[t]] = "none"
    BY <2>2, <2>3, <2>4
  <2>7. ASSUME NEW g \in GatewayId, clark[g] # "none"
        PROVE  origin'[g] = origin[g]
    BY <2>1, <2>2, <2>3, <2>7
  <2> QED
    BY <2>2, <2>5, <2>6, <2>7
<1>17. ASSUME NEW s \in Container, RecordConflicts(s) PROVE AckInv'
  BY <1>17, DedupKeyType DEF RecordConflicts, Return, Enter, Goto
<1>18. ASSUME NEW s \in Container, PostAccepted(s) PROVE AckInv'
  BY <1>18, DedupKeyType DEF PostAccepted, Goto
<1>19. ASSUME NEW s \in Container, NEW v \in {"rejected", "send_error"}, PostFails(s, v)
       PROVE AckInv'
  BY <1>19, DedupKeyType DEF PostFails, Enter, Goto
<1>20. ASSUME NEW s \in Container, NEW v \in {"rejected", "send_error"}, PostReplyLost(s, v)
       PROVE AckInv'
  BY <1>20, DedupKeyType DEF PostReplyLost, Enter, Goto
<1>21. ASSUME NEW s \in Container, Confirm(s) PROVE AckInv'
  <2>1. /\ pc[s] = "confirm" /\ cur[s] \in Copy
        /\ claims' = [claims EXCEPT ![DedupKey(cur[s])] = "acked"]
        /\ UNCHANGED <<clark, origin>>
    BY <1>21 DEF Confirm, ConfirmClaim
  <2>2. ASSUME NEW t \in Container, pc'[t] = "post"
        PROVE  pc[t] = "post" /\ gid'[t] = gid[t]
    BY <1>21, <2>2 DEF Confirm, Proceed, Return, Enter, Goto
  <2>3. ASSUME NEW t \in Container, pc'[t] \in Holding
        PROVE  /\ pc[t] \in Holding /\ cur'[t] = cur[t]
               /\ pc[t] = "confirm" => pc'[t] = "confirm"
    BY <1>21, <2>3 DEF Confirm, Proceed, Return, Enter, Goto
  <2> QED
    BY <2>1, <2>2, <2>3, DedupKeyType
<1>22. ASSUME NEW s \in Container, UpdateAcked(s) PROVE AckInv'
  <2>1. /\ pc[s] = "update" /\ cur[s] \in Copy
        /\ claims' = claims
        /\ UNCHANGED <<clark, origin>>
    BY <1>22 DEF UpdateAcked
  <2>2. ASSUME NEW t \in Container, pc'[t] = "post"
        PROVE  pc[t] = "post" /\ gid'[t] = gid[t]
    BY <1>22, <2>2 DEF UpdateAcked, Proceed, Return, Enter, Goto
  <2>3. ASSUME NEW t \in Container, pc'[t] \in Holding
        PROVE  /\ pc[t] \in Holding /\ cur'[t] = cur[t]
               /\ pc[t] = "confirm" => pc'[t] = "confirm"
    BY <1>22, <2>3 DEF UpdateAcked, Proceed, Return, Enter, Goto
  <2> QED
    BY <2>1, <2>2, <2>3, DedupKeyType
<1>23. ASSUME NEW s \in Container, MarkAcked(s) PROVE AckInv'
  BY <1>23, DedupKeyType DEF MarkAcked, MarkRead, Finish, Return, Enter, Goto
<1>24. ASSUME NEW s \in Container, Release(s) PROVE AckInv'
  <2>1. /\ pc[s] = "release" /\ cur[s] \in Copy
        /\ claims' = [claims EXCEPT ![DedupKey(cur[s])] = "none"]
        /\ UNCHANGED <<clark, origin>>
    BY <1>24 DEF Release, ReleaseClaim
  <2>2. ASSUME NEW t \in Container, pc'[t] = "post"
        PROVE  pc[t] = "post" /\ gid'[t] = gid[t]
    BY <1>24, <2>2 DEF Release, Proceed, Return, Enter, Goto
  <2>3. ASSUME NEW t \in Container, pc'[t] \in Holding
        PROVE  /\ pc[t] \in Holding /\ cur'[t] = cur[t]
               /\ pc[t] = "confirm" => pc'[t] = "confirm"
    BY <1>24, <2>3 DEF Release, Proceed, Return, Enter, Goto
  <2> QED
    BY <2>1, <2>2, <2>3, DedupKeyType
<1>25. ASSUME NEW s \in Container, ReleaseRepeats(s) PROVE AckInv'
  BY <1>25, DedupKeyType DEF ReleaseRepeats, ReleaseClaim, Fault
<1>26. ASSUME NEW s \in Container, NoteFailure(s) PROVE AckInv'
  BY <1>26, DedupKeyType DEF NoteFailure, UpdateStatus, Finish, Return, Enter, Goto
<1>27. ASSUME NEW s \in Container, CallRaises(s) PROVE AckInv'
  BY <1>27, DedupKeyType DEF CallRaises, Return, Enter, Goto
<1>28. ASSUME NEW s \in Container, Crash(s) PROVE AckInv'
  BY <1>28, DedupKeyType DEF Crash, Reset, Enter, Goto
<1>29. ASSUME NEW s \in Container, Recycle(s) PROVE AckInv'
  BY <1>29, DedupKeyType DEF Recycle, Reset, Enter, Goto
<1>30. ASSUME NEW s \in Container, CacheExpires(s) PROVE AckInv'
  BY <1>30, DedupKeyType DEF CacheExpires
<1>31. ASSUME NEW s \in Container, VerifySender(s) PROVE AckInv'
  BY <1>31, DedupKeyType DEF VerifySender
<1>32. ASSUME NEW c \in Copy, Deliver(c) PROVE AckInv'
  BY <1>32, DedupKeyType DEF Deliver
<1>33. ASSUME NEW u \in Url, Authorize(u) PROVE AckInv'
  BY <1>33, DedupKeyType DEF Authorize
<1>34. ASSUME NEW k \in Key, TtlExpires(k) PROVE AckInv'
  BY <1>34, DedupKeyType DEF TtlExpires, ReleaseClaim, Fault
<1>35. CASE UNCHANGED vars
  BY <1>35 DEF vars
<1> HIDE DEF TypeInv, TypeOK, LocalsOK, ClaimExclusive, AckInv, KeyOf, Holds, Holding,
             cacheVars, storeVars, worldVars, sweepVars, callVars
<1> QED
  BY <1>1, <1>2, <1>3, <1>4, <1>5, <1>6, <1>7, <1>8, <1>9, <1>10, <1>11, <1>12, <1>13, <1>14,
     <1>15, <1>16, <1>17, <1>18, <1>19, <1>20, <1>21, <1>22, <1>23, <1>24, <1>25, <1>26,
     <1>27, <1>28, <1>29, <1>30, <1>31, <1>32, <1>33, <1>34, <1>35 DEF Next, Sweep, Life,
     World, Message, Posting

(***************************************************************************)
(* Only a POST changes what Clark has, and an envelope's origin is final.  *)
(***************************************************************************)
ForwardStep ==
  /\ \A g \in GatewayId : origin[g] # None => origin'[g] = origin[g]
  /\ \/ UNCHANGED clark
     \/ \E s \in Container :
          PostAccepted(s) \/ \E v \in {"rejected", "send_error"} : PostReplyLost(s, v)

LEMMA ForwardSteps == TypeInv /\ [Next]_vars => ForwardStep
<1> SUFFICES ASSUME TypeInv, [Next]_vars PROVE ForwardStep
  OBVIOUS
<1> USE DEF ForwardStep, storeVars, worldVars
<1>1. ASSUME NEW s \in Container, StartSweep(s) PROVE ForwardStep
  BY <1>1 DEF StartSweep
<1>2. ASSUME NEW s \in Container, NextMailbox(s) PROVE ForwardStep
  BY <1>2 DEF NextMailbox
<1>3. ASSUME NEW s \in Container, EndSweep(s) PROVE ForwardStep
  BY <1>3 DEF EndSweep
<1>4. ASSUME NEW s \in Container, ListUnread(s) PROVE ForwardStep
  BY <1>4 DEF ListUnread
<1>5. ASSUME NEW s \in Container, ListFails(s) PROVE ForwardStep
  BY <1>5 DEF ListFails
<1>6. ASSUME NEW s \in Container, MailboxDone(s) PROVE ForwardStep
  BY <1>6 DEF MailboxDone
<1>7. ASSUME NEW s \in Container, NEW c \in Copy, FetchFails(s, c) PROVE ForwardStep
  BY <1>7 DEF FetchFails, TakeNext
<1>8. ASSUME NEW s \in Container, NEW c \in Copy, Claim(s, c) PROVE ForwardStep
  BY <1>8 DEF Claim, TakeNext
<1>9. ASSUME NEW s \in Container, NEW c \in Copy, SkipSeen(s, c) PROVE ForwardStep
  BY <1>9 DEF SkipSeen, TakeNext
<1>10. ASSUME NEW s \in Container, NEW c \in Copy, ClaimAnswerLost(s, c) PROVE ForwardStep
  BY <1>10 DEF ClaimAnswerLost, TakeNext
<1>11. ASSUME NEW s \in Container, GateIgnores(s) PROVE ForwardStep
  BY <1>11 DEF GateIgnores, GateDiscards
<1>12. ASSUME NEW s \in Container, GateDrops(s) PROVE ForwardStep
  BY <1>12 DEF GateDrops, GateDiscards
<1>13. ASSUME NEW s \in Container, GateRaises(s) PROVE ForwardStep
  BY <1>13 DEF GateRaises
<1>14. ASSUME NEW s \in Container, GatePasses(s) PROVE ForwardStep
  BY <1>14 DEF GatePasses
<1>15. ASSUME NEW s \in Container, Settle(s) PROVE ForwardStep
  BY <1>15 DEF Settle
<1>16. ASSUME NEW s \in Container, Record(s) PROVE ForwardStep
  BY <1>16 DEF Record, RecordRow, Unused, TypeInv, TypeOK
<1>17. ASSUME NEW s \in Container, RecordConflicts(s) PROVE ForwardStep
  BY <1>17 DEF RecordConflicts
<1>18. ASSUME NEW s \in Container, PostAccepted(s) PROVE ForwardStep
  BY <1>18 DEF PostAccepted
<1>19. ASSUME NEW s \in Container, NEW v \in {"rejected", "send_error"}, PostFails(s, v)
       PROVE ForwardStep
  BY <1>19 DEF PostFails
<1>20. ASSUME NEW s \in Container, NEW v \in {"rejected", "send_error"}, PostReplyLost(s, v)
       PROVE ForwardStep
  BY <1>20 DEF PostReplyLost
<1>21. ASSUME NEW s \in Container, Confirm(s) PROVE ForwardStep
  BY <1>21 DEF Confirm
<1>22. ASSUME NEW s \in Container, UpdateAcked(s) PROVE ForwardStep
  BY <1>22 DEF UpdateAcked
<1>23. ASSUME NEW s \in Container, MarkAcked(s) PROVE ForwardStep
  BY <1>23 DEF MarkAcked
<1>24. ASSUME NEW s \in Container, Release(s) PROVE ForwardStep
  BY <1>24 DEF Release
<1>25. ASSUME NEW s \in Container, ReleaseRepeats(s) PROVE ForwardStep
  BY <1>25 DEF ReleaseRepeats
<1>26. ASSUME NEW s \in Container, NoteFailure(s) PROVE ForwardStep
  BY <1>26 DEF NoteFailure
<1>27. ASSUME NEW s \in Container, CallRaises(s) PROVE ForwardStep
  BY <1>27 DEF CallRaises
<1>28. ASSUME NEW s \in Container, Crash(s) PROVE ForwardStep
  BY <1>28 DEF Crash, Reset
<1>29. ASSUME NEW s \in Container, Recycle(s) PROVE ForwardStep
  BY <1>29 DEF Recycle, Reset
<1>30. ASSUME NEW s \in Container, CacheExpires(s) PROVE ForwardStep
  BY <1>30 DEF CacheExpires
<1>31. ASSUME NEW s \in Container, VerifySender(s) PROVE ForwardStep
  BY <1>31 DEF VerifySender
<1>32. ASSUME NEW c \in Copy, Deliver(c) PROVE ForwardStep
  BY <1>32 DEF Deliver
<1>33. ASSUME NEW u \in Url, Authorize(u) PROVE ForwardStep
  BY <1>33 DEF Authorize
<1>34. ASSUME NEW k \in Key, TtlExpires(k) PROVE ForwardStep
  BY <1>34 DEF TtlExpires
<1>35. CASE UNCHANGED vars
  BY <1>35 DEF vars
<1> HIDE DEF ForwardStep, storeVars, worldVars
<1> QED
  BY <1>1, <1>2, <1>3, <1>4, <1>5, <1>6, <1>7, <1>8, <1>9, <1>10, <1>11, <1>12, <1>13, <1>14,
     <1>15, <1>16, <1>17, <1>18, <1>19, <1>20, <1>21, <1>22, <1>23, <1>24, <1>25, <1>26,
     <1>27, <1>28, <1>29, <1>30, <1>31, <1>32, <1>33, <1>34, <1>35 DEF Next, Sweep, Life,
     World, Message, Posting

(***************************************************************************)
(* The sweep that is about to post is the only holder of its key, and      *)
(* Clark has not acknowledged the key.                                     *)
(***************************************************************************)
LEMMA PostersKey ==
  ASSUME TypeInv, AckInv, NEW s \in Container, pc[s] = "post"
  PROVE  /\ gid[s] \in GatewayId
         /\ \A h \in GatewayId : clark[h] = "acked" => KeyOf(h) # KeyOf(gid[s])
<1>1. gid[s] \in GatewayId /\ Holds(s, KeyOf(gid[s]))
  BY DEF TypeInv, LocalsOK, Holds, Holding, KeyOf
<1> QED
  BY <1>1 DEF AckInv

LEMMA AckedOnce ==
  TypeInv /\ AckInv /\ [Next]_vars =>
    \A g \in GatewayId :
      clark[g] = "none" /\ clark'[g] # "none"
        => \A h \in GatewayId : clark[h] = "acked" => KeyOf(h) # KeyOf(g)
<1> SUFFICES ASSUME TypeInv, AckInv, [Next]_vars,
                    NEW g \in GatewayId, clark[g] = "none", clark'[g] # "none"
             PROVE  \A h \in GatewayId : clark[h] = "acked" => KeyOf(h) # KeyOf(g)
  OBVIOUS
<1>1. PICK s \in Container :
        PostAccepted(s) \/ \E v \in {"rejected", "send_error"} : PostReplyLost(s, v)
  BY ForwardSteps DEF ForwardStep
<1>2. pc[s] = "post" /\ g = gid[s]
  BY <1>1 DEF PostAccepted, PostReplyLost, TypeInv, TypeOK
<1> QED
  BY <1>2, PostersKey

(***************************************************************************)
(* A message Clark has acknowledged is never forwarded again, lost answers *)
(* to other posts or not, until its claim expires.                         *)
(***************************************************************************)
THEOREM AckIsFinal ==
  ASSUME {"repeat_release", "ttl"} \intersect Faults = {}
  PROVE  Spec => NoForwardAfterAck
<1>1. Init => AckInv
  BY DEF Init, AckInv
<1>2. TypeInv /\ ClaimExclusive /\ AckInv /\ [Next]_vars => AckInv'
  BY AckStep
<1>3. "repeat_release" \notin Faults
  OBVIOUS
<1>4. Spec => []ClaimExclusive
  BY <1>3, Exclusive
<1>5. Spec => []AckInv
  BY <1>1, <1>2, <1>4, TypeInvariant, PTL DEF Spec
<1> QED
  BY <1>5, TypeInvariant, AckedOnce, PTL DEF Spec, NoForwardAfterAck

(***************************************************************************)
(* When no answer of Clark's is lost, an envelope that Clark has is an     *)
(* envelope it acknowledged.                                               *)
(***************************************************************************)
OnceInv == /\ \A g \in GatewayId : clark[g] # "lost"
           /\ NeverDoubleForwarded

LEMMA OnceStep ==
  ASSUME "lost_reply" \notin Faults
  PROVE  TypeInv /\ AckInv /\ OnceInv /\ [Next]_vars => OnceInv'
<1> SUFFICES ASSUME TypeInv, AckInv, OnceInv, [Next]_vars PROVE OnceInv'
  OBVIOUS
<1>1. \A g \in GatewayId : clark[g] # "none" => KeyOf(g)' = KeyOf(g)
  BY ForwardSteps, NoneAssumption DEF ForwardStep, AckInv, KeyOf, DedupKey
<1>2. CASE UNCHANGED clark
  BY <1>1, <1>2 DEF OnceInv, NeverDoubleForwarded
<1>3. ASSUME NEW s \in Container, PostAccepted(s) PROVE OnceInv'
  <2>1. /\ gid[s] \in GatewayId
        /\ \A h \in GatewayId : clark[h] = "acked" => KeyOf(h) # KeyOf(gid[s])
    BY <1>3, PostersKey DEF PostAccepted
  <2>2. /\ clark' = [clark EXCEPT ![gid[s]] = "acked"]
        /\ UNCHANGED origin
    BY <1>3 DEF PostAccepted, storeVars
  <2> QED
    BY <2>1, <2>2 DEF OnceInv, NeverDoubleForwarded, TypeInv, TypeOK, KeyOf
<1>4. ASSUME NEW s \in Container, NEW v, PostReplyLost(s, v) PROVE FALSE
  BY <1>4 DEF PostReplyLost, Fault
<1> QED
  BY <1>2, <1>3, <1>4, ForwardSteps DEF ForwardStep

(***************************************************************************)
(* No message reaches Clark twice, whatever overlaps, fails or dies - as   *)
(* long as Clark's answers arrive.                                         *)
(***************************************************************************)
THEOREM ForwardedOnce ==
  ASSUME {"lost_reply", "repeat_release", "ttl"} \intersect Faults = {}
  PROVE  Spec => []NeverDoubleForwarded
<1>1. Init => AckInv /\ OnceInv
  BY DEF Init, AckInv, OnceInv, NeverDoubleForwarded
<1>2. TypeInv /\ ClaimExclusive /\ AckInv /\ [Next]_vars => AckInv'
  <2>1. {"repeat_release", "ttl"} \intersect Faults = {}
    OBVIOUS
  <2> QED
    BY <2>1, AckStep
<1>3. TypeInv /\ AckInv /\ OnceInv /\ [Next]_vars => OnceInv'
  <2>1. "lost_reply" \notin Faults
    OBVIOUS
  <2> QED
    BY <2>1, OnceStep
<1>4. Spec => []ClaimExclusive
  <2>1. "repeat_release" \notin Faults
    OBVIOUS
  <2> QED
    BY <2>1, Exclusive
<1>5. OnceInv => NeverDoubleForwarded
  BY DEF OnceInv
<1> QED
  BY <1>1, <1>2, <1>3, <1>4, <1>5, TypeInvariant, PTL DEF Spec

(***************************************************************************)
(* A claim is won only when free and confirmed or released only by the     *)
(* sweep that holds it, for which it says "claimed".                       *)
(***************************************************************************)
TombstonesKept == \A k \in Key : claims[k] \in Tombstone => claims'[k] = claims[k]

LEMMA TombstoneStep ==
  ASSUME {"repeat_release", "ttl"} \intersect Faults = {}
  PROVE  TypeInv /\ ClaimExclusive /\ [Next]_vars => TombstonesKept
<1> SUFFICES ASSUME TypeInv, ClaimExclusive, [Next]_vars PROVE TombstonesKept
  OBVIOUS
<1> USE DEF TombstonesKept, storeVars, worldVars
<1>a. ASSUME NEW s \in Container, pc[s] \in Holding
      PROVE  claims[DedupKey(cur[s])] = "claimed" /\ "claimed" \notin Tombstone
  BY <1>a, DedupKeyType DEF TypeInv, LocalsOK, ClaimExclusive, Holds, Holding, Tombstone
<1>b. /\ claims \in [Key -> {"none", "claimed"} \union Tombstone]
       /\ "none" \notin Tombstone
  BY DEF TypeInv, TypeOK, Tombstone
<1>1. ASSUME NEW s \in Container, StartSweep(s) PROVE TombstonesKept
  BY <1>1 DEF StartSweep
<1>2. ASSUME NEW s \in Container, NextMailbox(s) PROVE TombstonesKept
  BY <1>2 DEF NextMailbox
<1>3. ASSUME NEW s \in Container, EndSweep(s) PROVE TombstonesKept
  BY <1>3 DEF EndSweep
<1>4. ASSUME NEW s \in Container, ListUnread(s) PROVE TombstonesKept
  BY <1>4 DEF ListUnread
<1>5. ASSUME NEW s \in Container, ListFails(s) PROVE TombstonesKept
  BY <1>5 DEF ListFails
<1>6. ASSUME NEW s \in Container, MailboxDone(s) PROVE TombstonesKept
  BY <1>6 DEF MailboxDone
<1>7. ASSUME NEW s \in Container, NEW c \in Copy, FetchFails(s, c) PROVE TombstonesKept
  BY <1>7 DEF FetchFails, TakeNext
<1>8. ASSUME NEW s \in Container, NEW c \in Copy, Claim(s, c) PROVE TombstonesKept
  BY <1>8, <1>b, DedupKeyType DEF Claim, TakeNext, Claimable, ClaimMessage
<1>9. ASSUME NEW s \in Container, NEW c \in Copy, SkipSeen(s, c) PROVE TombstonesKept
  BY <1>9 DEF SkipSeen, TakeNext
<1>10. ASSUME NEW s \in Container, NEW c \in Copy, ClaimAnswerLost(s, c) PROVE TombstonesKept
  BY <1>10, <1>b, DedupKeyType DEF ClaimAnswerLost, TakeNext, Claimable, ClaimMessage
<1>11. ASSUME NEW s \in Container, GateIgnores(s) PROVE TombstonesKept
  BY <1>11 DEF GateIgnores, GateDiscards
<1>12. ASSUME NEW s \in Container, GateDrops(s) PROVE TombstonesKept
  BY <1>12 DEF GateDrops, GateDiscards
<1>13. ASSUME NEW s \in Container, GateRaises(s) PROVE TombstonesKept
  BY <1>13 DEF GateRaises
<1>14. ASSUME NEW s \in Container, GatePasses(s) PROVE TombstonesKept
  BY <1>14 DEF GatePasses
<1>15. ASSUME NEW s \in Container, Settle(s) PROVE TombstonesKept
  BY <1>15, <1>a, <1>b DEF Settle, ConfirmClaim, Holding
<1>16. ASSUME NEW s \in Container, Record(s) PROVE TombstonesKept
  BY <1>16 DEF Record
<1>17. ASSUME NEW s \in Container, RecordConflicts(s) PROVE TombstonesKept
  BY <1>17 DEF RecordConflicts
<1>18. ASSUME NEW s \in Container, PostAccepted(s) PROVE TombstonesKept
  BY <1>18 DEF PostAccepted
<1>19. ASSUME NEW s \in Container, NEW v \in {"rejected", "send_error"}, PostFails(s, v)
       PROVE TombstonesKept
  BY <1>19 DEF PostFails
<1>20. ASSUME NEW s \in Container, NEW v \in {"rejected", "send_error"}, PostReplyLost(s, v)
       PROVE TombstonesKept
  BY <1>20 DEF PostReplyLost
<1>21. ASSUME NEW s \in Container, Confirm(s) PROVE TombstonesKept
  BY <1>21, <1>a, <1>b DEF Confirm, ConfirmClaim, Holding
<1>22. ASSUME NEW s \in Container, UpdateAcked(s) PROVE TombstonesKept
  BY <1>22 DEF UpdateAcked
<1>23. ASSUME NEW s \in Container, MarkAcked(s) PROVE TombstonesKept
  BY <1>23 DEF MarkAcked
<1>24. ASSUME NEW s \in Container, Release(s) PROVE TombstonesKept
  BY <1>24, <1>a, <1>b DEF Release, ReleaseClaim, Holding
<1>25. ASSUME NEW s \in Container, ReleaseRepeats(s) PROVE TombstonesKept
  BY <1>25 DEF ReleaseRepeats, Fault
<1>26. ASSUME NEW s \in Container, NoteFailure(s) PROVE TombstonesKept
  BY <1>26 DEF NoteFailure
<1>27. ASSUME NEW s \in Container, CallRaises(s) PROVE TombstonesKept
  BY <1>27 DEF CallRaises
<1>28. ASSUME NEW s \in Container, Crash(s) PROVE TombstonesKept
  BY <1>28 DEF Crash, Reset
<1>29. ASSUME NEW s \in Container, Recycle(s) PROVE TombstonesKept
  BY <1>29 DEF Recycle, Reset
<1>30. ASSUME NEW s \in Container, CacheExpires(s) PROVE TombstonesKept
  BY <1>30 DEF CacheExpires
<1>31. ASSUME NEW s \in Container, VerifySender(s) PROVE TombstonesKept
  BY <1>31 DEF VerifySender
<1>32. ASSUME NEW c \in Copy, Deliver(c) PROVE TombstonesKept
  BY <1>32 DEF Deliver
<1>33. ASSUME NEW u \in Url, Authorize(u) PROVE TombstonesKept
  BY <1>33 DEF Authorize
<1>34. ASSUME NEW k \in Key, TtlExpires(k) PROVE TombstonesKept
  BY <1>34 DEF TtlExpires, Fault
<1>35. CASE UNCHANGED vars
  BY <1>35 DEF vars
<1> HIDE DEF TombstonesKept, storeVars, worldVars
<1> QED
  BY <1>1, <1>2, <1>3, <1>4, <1>5, <1>6, <1>7, <1>8, <1>9, <1>10, <1>11, <1>12, <1>13, <1>14,
     <1>15, <1>16, <1>17, <1>18, <1>19, <1>20, <1>21, <1>22, <1>23, <1>24, <1>25, <1>26,
     <1>27, <1>28, <1>29, <1>30, <1>31, <1>32, <1>33, <1>34, <1>35 DEF Next, Sweep, Life,
     World, Message, Posting

(***************************************************************************)
(* What a sweep confirmed is final: no other sweep, however late, and no   *)
(* failure frees or rewrites the claim before it expires.                  *)
(***************************************************************************)
THEOREM TombstonesAreFinal ==
  ASSUME {"repeat_release", "ttl"} \intersect Faults = {}
  PROVE  Spec => TombstonesStay
<1>1. "repeat_release" \notin Faults
  OBVIOUS
<1>2. Spec => []ClaimExclusive
  BY <1>1, Exclusive
<1>3. TypeInv /\ ClaimExclusive /\ [Next]_vars => TombstonesKept
  BY TombstoneStep
<1> QED
  BY <1>2, <1>3, TypeInvariant, PTL DEF Spec, TombstonesStay, TombstonesKept

=============================================================================
