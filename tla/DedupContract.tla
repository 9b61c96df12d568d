---------------------------- MODULE DedupContract ----------------------------
(***************************************************************************)
(* What the inbound claims of state_store.py / inbound_store.py promise to *)
(* the poller, stated without a poller: the "dedup contract" of the        *)
(* state_store docstring (state_store.py:22-30).                           *)
(*                                                                         *)
(* Every dedup key is free, claimed or done.  One worker wins a free key;  *)
(* only a worker that owns a key forwards under it; the owner either       *)
(* releases it (the key is free again) or finishes it (a tombstone).  A    *)
(* worker can also abandon a key without doing either, which leaves the    *)
(* key claimed by nobody: that is what the code does, so it is part of the *)
(* contract that can be relied on.                                         *)
(***************************************************************************)
CONSTANTS
  Key,        \* dedup keys
  Worker,     \* whatever runs a sweep
  Envelope    \* gateway message ids

VARIABLES
  state,      \* state[k]: "free", "claimed" or "done"
  owners,     \* owners[k]: the workers that act on the strength of the claim
  forwarded   \* forwarded[k]: the envelopes forwarded under key k

vars == <<state, owners, forwarded>>

TypeOK ==
  /\ state \in [Key -> {"free", "claimed", "done"}]
  /\ owners \in [Key -> SUBSET Worker]
  /\ forwarded \in [Key -> SUBSET Envelope]

Init ==
  /\ state = [k \in Key |-> "free"]
  /\ owners = [k \in Key |-> {}]
  /\ forwarded = [k \in Key |-> {}]

(***************************************************************************)
(* Exactly one worker wins a free key.                                     *)
(***************************************************************************)
Win(w, k) ==
  /\ state[k] = "free"
  /\ state' = [state EXCEPT ![k] = "claimed"]
  /\ owners' = [owners EXCEPT ![k] = {w}]
  /\ UNCHANGED forwarded

(***************************************************************************)
(* The claim is written and nobody learns of it.                           *)
(***************************************************************************)
Mislay(k) ==
  /\ state[k] = "free"
  /\ state' = [state EXCEPT ![k] = "claimed"]
  /\ UNCHANGED <<owners, forwarded>>

Forward(w, k, e) ==
  /\ w \in owners[k]
  /\ forwarded' = [forwarded EXCEPT ![k] = @ \union {e}]
  /\ UNCHANGED <<state, owners>>

Release(w, k) ==
  /\ w \in owners[k]
  /\ state' = [state EXCEPT ![k] = "free"]
  /\ owners' = [owners EXCEPT ![k] = {}]
  /\ UNCHANGED forwarded

Finish(w, k) ==
  /\ w \in owners[k]
  /\ state' = [state EXCEPT ![k] = "done"]
  /\ owners' = [owners EXCEPT ![k] = {}]
  /\ UNCHANGED forwarded

Abandon(w, k) ==
  /\ w \in owners[k]
  /\ owners' = [owners EXCEPT ![k] = @ \ {w}]
  /\ UNCHANGED <<state, forwarded>>

(***************************************************************************)
(* The store expires the claim (TTL), long after its last owner is gone.   *)
(***************************************************************************)
Expire(k) ==
  /\ state[k] # "free"
  /\ owners[k] = {}
  /\ state' = [state EXCEPT ![k] = "free"]
  /\ UNCHANGED <<owners, forwarded>>

Next ==
  \E k \in Key :
    \/ Mislay(k)
    \/ Expire(k)
    \/ \E w \in Worker :
         \/ Win(w, k)
         \/ Release(w, k)
         \/ Finish(w, k)
         \/ Abandon(w, k)
         \/ \E e \in Envelope : Forward(w, k, e)

Spec == Init /\ [][Next]_vars
=============================================================================
