---------------------------- MODULE SignedRequest ----------------------------
(***************************************************************************)
(* The calls of the connector tools to Clark (server.py) and the request   *)
(* under them (_request of clark_client.py), which is tried again after a  *)
(* network error or a 5xx.  The attempts of a call share nothing that      *)
(* would let Clark tell a second one from a second request, and one that   *)
(* the gateway has given up may still arrive.                              *)
(***************************************************************************)
EXTENDS Integers, FiniteSets

CONSTANTS
  Call,        \* invocations of connector tools
  Known,       \* those whose caller oauth.caller_email() resolves
  Parsed,      \* those without a payload_json, or with one that is JSON
  BodyFirst,   \* those of analyze_cim
  Configured,  \* TRUE: base URL and HMAC secret are set
  Retries      \* the attempts _request makes

ASSUME CallAssumption == {Known, Parsed, BodyFirst} \subseteq SUBSET Call
ASSUME BoundAssumption == Configured \in BOOLEAN /\ Retries \in Nat \ {0}

Attempt == 1..Retries

VARIABLES
  pc,       \* pc[c]: the next step of call c, or how it ended
  attempt,  \* attempt[c]: attempts made so far
  net,      \* net[c][n]: attempt n of c between the gateway and Clark
  seen,     \* seen[c][n]: what the gateway made of attempt n
  acted     \* acted[c]: the attempts of c that Clark acted on

vars == <<pc, attempt, net, seen, acted>>

Replies   == {"2xx", "4xx", "5xx"}
Transient == {"5xx", "error"}
Open      == {"send", "wait"}
Ended     == {"declined", "yes", "no", "raised", "killed"}

TypeOK ==
  /\ pc \in [Call -> {"start"} \union Open \union Ended]
  /\ attempt \in [Call -> 0..Retries]
  /\ net \in [Call -> [Attempt -> {"none", "flying", "lost"} \union Replies]]
  /\ seen \in [Call -> [Attempt -> {"none", "2xx", "4xx", "torn"} \union Transient]]
  /\ acted \in [Call -> SUBSET Attempt]

Init ==
  /\ pc = [c \in Call |-> "start"]
  /\ attempt = [c \in Call |-> 0]
  /\ net = [c \in Call |-> [n \in Attempt |-> "none"]]
  /\ seen = [c \in Call |-> [n \in Attempt |-> "none"]]
  /\ acted = [c \in Call |-> {}]

Goto(c, label) == pc' = [pc EXCEPT ![c] = label]

Carry(c, n, state) == net' = [net EXCEPT ![c][n] = state]

See(c, what) == seen' = [seen EXCEPT ![c][attempt[c]] = what]

-----------------------------------------------------------------------------
(* The tools *)

Ready(c) == c \in Known /\ Configured /\ c \in Parsed

Begin(c) ==
  /\ pc[c] = "start"
  /\ Ready(c)
  /\ Goto(c, "send")
  /\ UNCHANGED <<attempt, net, seen, acted>>

(***************************************************************************)
(* No caller, no configuration or a payload that is not JSON: the tool     *)
(* says so and makes no request.                                           *)
(***************************************************************************)
Decline(c) ==
  /\ pc[c] = "start"
  /\ ~ Ready(c)
  /\ Goto(c, "declined")
  /\ UNCHANGED <<attempt, net, seen, acted>>

-----------------------------------------------------------------------------
(* _request *)

Send(c) ==
  /\ pc[c] = "send"
  /\ attempt' = [attempt EXCEPT ![c] = @ + 1]
  /\ Carry(c, attempt[c] + 1, "flying")
  /\ Goto(c, "wait")
  /\ UNCHANGED <<seen, acted>>

Arrived(c, code) == pc[c] = "wait" /\ net[c][attempt[c]] = code

(***************************************************************************)
(* A 2xx whose body is not a JSON object, or that is not a 200, makes a    *)
(* tool report failure all the same.                                       *)
(***************************************************************************)
Success(c) ==
  /\ Arrived(c, "2xx")
  /\ See(c, "2xx")
  /\ Goto(c, "yes") \/ Goto(c, "no")
  /\ UNCHANGED <<attempt, net, acted>>

\* Slip: every HTTPError tried again.
RetryClientError(c) ==
  /\ Arrived(c, "4xx")
  /\ See(c, "4xx")
  /\ Goto(c, IF attempt[c] < Retries THEN "send" ELSE "no")
  /\ UNCHANGED <<attempt, net, acted>>

ClientError(c) ==
  /\ Arrived(c, "4xx")
  /\ See(c, "4xx")
  /\ Goto(c, "no")
  /\ UNCHANGED <<attempt, net, acted>>

\* Slips: one attempt too many; the last 5xx handed on like a body.
AgainOnceMore(c, last) ==
  /\ Goto(c, IF attempt[c] <= Retries THEN "send" ELSE last)
  /\ UNCHANGED <<attempt, net, acted>>

AgainOrYes(c, last) ==
  /\ Goto(c, IF attempt[c] < Retries THEN "send" ELSE "yes")
  /\ UNCHANGED <<attempt, net, acted>>

Again(c, last) ==
  /\ Goto(c, IF attempt[c] < Retries THEN "send" ELSE last)
  /\ UNCHANGED <<attempt, net, acted>>

(***************************************************************************)
(* The last 5xx is returned like any status.                               *)
(***************************************************************************)
ServerError(c) ==
  /\ Arrived(c, "5xx")
  /\ See(c, "5xx")
  /\ Again(c, "no")

(***************************************************************************)
(* analyze_cim asks the body before the status: a last 5xx whose body says *)
(* "ok" is reported as done.  Clark says so only of what it has acted on.  *)
(***************************************************************************)
OkAnyway(c) ==
  /\ c \in BodyFirst /\ attempt[c] = Retries
  /\ Arrived(c, "5xx") /\ attempt[c] \in acted[c]
  /\ See(c, "5xx")
  /\ Goto(c, "yes")
  /\ UNCHANGED <<attempt, net, acted>>

\* Slip: no timeout given to urlopen.
ConnectionLost(c) ==
  /\ pc[c] = "wait"
  /\ net[c][attempt[c]] = "lost"
  /\ See(c, "error")
  /\ Again(c, "raised")

(***************************************************************************)
(* No connection, or no answer within the 15 s, whatever is on its way.    *)
(***************************************************************************)
NetworkError(c) ==
  /\ pc[c] = "wait"
  /\ See(c, "error")
  /\ Again(c, "raised")

(***************************************************************************)
(* An answer that breaks off is neither a URLError nor an OSError: it is   *)
(* raised at once.                                                         *)
(***************************************************************************)
TornAnswer(c) ==
  /\ \E code \in Replies : Arrived(c, code)
  /\ See(c, "torn")
  /\ Goto(c, "raised")
  /\ UNCHANGED <<attempt, net, acted>>

(***************************************************************************)
(* The function's 30 s are over before three attempts are.                 *)
(***************************************************************************)
Kill(c) ==
  /\ pc[c] \in Open
  /\ Goto(c, "killed")
  /\ UNCHANGED <<attempt, net, seen, acted>>

-----------------------------------------------------------------------------
(* The network and Clark *)

Drop(c, n) ==
  /\ net[c][n] = "flying"
  /\ Carry(c, n, "lost")
  /\ UNCHANGED <<pc, attempt, seen, acted>>

ClarkServes(c, n) ==
  /\ net[c][n] = "flying"
  /\ acted' = [acted EXCEPT ![c] = @ \union {n}]
  /\ \E code \in {"2xx", "5xx"} : Carry(c, n, code)
  /\ UNCHANGED <<pc, attempt, seen>>

ClarkRefuses(c, n) ==
  /\ net[c][n] = "flying"
  /\ \E code \in {"4xx", "5xx"} : Carry(c, n, code)
  /\ UNCHANGED <<pc, attempt, seen, acted>>

-----------------------------------------------------------------------------
Gateway(c) ==
  \/ Begin(c) \/ Decline(c) \/ Send(c)
  \/ Success(c) \/ ClientError(c) \/ ServerError(c) \/ OkAnyway(c)
  \/ NetworkError(c) \/ TornAnswer(c)

Outside(c) ==
  \/ Kill(c)
  \/ \E n \in Attempt : Drop(c, n) \/ ClarkServes(c, n) \/ ClarkRefuses(c, n)

Next == \E c \in Call : Gateway(c) \/ Outside(c)

Spec == Init /\ [][Next]_vars

(***************************************************************************)
(* The gateway goes on with a call it has started (its sockets time out).  *)
(* Nothing is asked of the network or of Clark.                            *)
(***************************************************************************)
FairSpec == Spec /\ \A c \in Call : WF_vars(Gateway(c))

-----------------------------------------------------------------------------
(* Properties *)

(***************************************************************************)
(* A request is repeated only after a network error or a 5xx ("HTTP error  *)
(* responses are returned, not retried (except 5xx)"): not after an answer *)
(* that is clear, nor after one that broke off.  If Clark acted on one     *)
(* twice, the gateway never got a clear answer to the first.               *)
(***************************************************************************)
RepeatsOnlyTransient ==
  \A c \in Call, n \in Attempt :
    /\ n < attempt[c] => seen[c][n] \in Transient
    /\ seen[c][n] # "none" => n <= attempt[c]

(***************************************************************************)
(* Clark acts on nothing that was declined, and on what a tool reports as  *)
(* done it has acted.                                                      *)
(***************************************************************************)
Contract == INSTANCE RequestContract WITH
  phase <- [c \in Call |-> CASE pc[c] = "start" -> "idle"
                             [] pc[c] \in Open -> "open"
                             [] pc[c] \in {"raised", "killed"} -> "unknown"
                             [] OTHER -> pc[c]],
  done <- {c \in Call : acted[c] # {}}

KeepsContract == Contract!Spec

(***************************************************************************)
(* Every call comes to an end, though Clark may never answer.              *)
(***************************************************************************)
EveryCallEnds == \A c \in Call : <>(pc[c] \in Ended)
=============================================================================
