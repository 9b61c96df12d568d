----------------------------- MODULE OAuthCache -----------------------------
(***************************************************************************)
(* Who a tool call acts for (oauth.py): the middleware of /mcp, its cache  *)
(* of accepted tokens, and the identity it hands to the tools, while       *)
(* requests overlap, tokens are revoked and time passes.                   *)
(*                                                                         *)
(* verify_token runs on the event loop and does not yield it: while one    *)
(* request waits for Cognito no other request of the process moves.        *)
(***************************************************************************)
EXTENDS Integers, FiniteSets

CONSTANTS
  Request,     \* HTTP requests to /mcp
  Token,       \* access tokens
  Person,      \* email addresses
  None,
  TokenOf,     \* TokenOf[r]: the bearer token r carries, or None
  LegacyOf,    \* LegacyOf[r]: the caller_email argument in its body, or None
  PersonOf,    \* PersonOf[t]: the email userInfo returns for t, None without one
  Exp,         \* Exp[t]: the exp claim of t
  Suitable,    \* the access tokens of this pool issued to this client
  Ttl,         \* _CACHE_TTL_CAP
  CacheMax,    \* _TOKEN_CACHE_MAX
  MaxTime      \* how long the clock runs

ASSUME NoneAssumption == None \notin Token \union Person
ASSUME RequestAssumption ==
  /\ TokenOf \in [Request -> Token \union {None}]
  /\ LegacyOf \in [Request -> Person \union {None}]
ASSUME TokenAssumption ==
  /\ PersonOf \in [Token -> Person \union {None}]
  /\ Exp \in [Token -> Nat]
  /\ Suitable \subseteq Token
ASSUME BoundAssumption ==
  /\ Ttl \in Nat \ {0}
  /\ CacheMax \in Nat \ {0}
  /\ MaxTime \in Nat \ {0}

VARIABLES
  now,        \* time.time()
  required,   \* CONNECTOR_AUTH_REQUIRED, as the process was started
  revokedAt,  \* revokedAt[t]: when t was revoked, 0 before
  until,      \* until[t]: valid_until of t in _token_cache, 0 without an entry
  pc,         \* pc[r]: where request r is
  asked,      \* asked[r]: the time verify_token took for now
  verified,   \* verified[r]: what the middleware holds for r
  identity,   \* identity[r]: _verified_email and _legacy_email in r's context
  actor       \* actor[r]: the caller the tool of r acted for

tokenVars == <<now, required, revokedAt>>
idVars    == <<identity, actor>>
vars == <<tokenVars, until, pc, asked, verified, idVars>>

Nobody == [verified |-> None, legacy |-> None]

Waiting == {"asking", "accepted", "rejected"}
InFlight == {"body", "app"} \union Waiting

TypeOK ==
  /\ now \in 1..MaxTime
  /\ required \in BOOLEAN
  /\ revokedAt \in [Token -> 0..MaxTime]
  /\ until \in [Token -> Nat]
  /\ pc \in [Request -> {"start", "refused", "done", "dropped"} \union InFlight]
  /\ asked \in [Request -> 0..MaxTime]
  /\ verified \in [Request -> Person \union {None}]
  /\ identity \in [Request -> [verified : Person \union {None},
                               legacy : Person \union {None}]]
  /\ actor \in [Request -> Person \union {None}]

Init ==
  /\ now = 1
  /\ required \in BOOLEAN
  /\ revokedAt = [t \in Token |-> 0]
  /\ until = [t \in Token |-> 0]
  /\ pc = [r \in Request |-> "start"]
  /\ asked = [r \in Request |-> 0]
  /\ verified = [r \in Request |-> None]
  /\ identity = [r \in Request |-> Nobody]
  /\ actor = [r \in Request |-> None]

-----------------------------------------------------------------------------
(* _token_cache *)

Cached == {t \in Token : until[t] > 0}

Lower(m, n) == IF m < n THEN m ELSE n

\* Slip: at the bound, expired entries pruned and the rest kept.
KeptLive(n) ==
  IF Cardinality(Cached) < CacheMax THEN Cached ELSE {t \in Cached : until[t] > n}

(***************************************************************************)
(* What is left of the cache once there is room for one more: at the bound *)
(* the entries run out at time n go, and all of them if that is no help.   *)
(***************************************************************************)
Kept(n) ==
  LET live == {t \in Cached : until[t] > n}
  IN  IF Cardinality(Cached) < CacheMax THEN Cached
      ELSE IF Cardinality(live) < CacheMax THEN live ELSE {}

\* Slip: the time taken anew when the answer is in.
RememberFromReturn(t, n) ==
  until' = [[k \in Token |-> IF k \in Kept(n) THEN until[k] ELSE 0]
              EXCEPT ![t] = Lower(Exp[t], now + Ttl)]

Remember(t, n) ==
  until' = [[k \in Token |-> IF k \in Kept(n) THEN until[k] ELSE 0]
              EXCEPT ![t] = Lower(Exp[t], n + Ttl)]

Forget(t) == until' = [until EXCEPT ![t] = 0]

-----------------------------------------------------------------------------
(* One request in the middleware *)

(***************************************************************************)
(* The event loop is free.                                                 *)
(***************************************************************************)
LoopFree == \A r \in Request : pc[r] \notin Waiting

\* Slip: the pair of verify_token unpacked the wrong way round.
AdmitReason(r, who) ==
  /\ pc' = [pc EXCEPT ![r] = IF who = None /\ required THEN "refused" ELSE "body"]
  /\ verified' = [verified EXCEPT ![r] = IF who = None THEN "reason" ELSE None]
  /\ UNCHANGED <<tokenVars, idVars>>

(***************************************************************************)
(* verify_token has returned who (None: a reason instead).                 *)
(***************************************************************************)
Admit(r, who) ==
  /\ pc' = [pc EXCEPT ![r] = IF who = None /\ required THEN "refused" ELSE "body"]
  /\ verified' = [verified EXCEPT ![r] = who]
  /\ UNCHANGED <<tokenVars, idVars>>

WellFormed(t) == t \in Suitable /\ Exp[t] > now

Arrive(r) ==
  /\ pc[r] = "start"
  /\ LoopFree
  /\ asked' = [asked EXCEPT ![r] = now]

WithoutToken(r) ==
  /\ Arrive(r)
  /\ TokenOf[r] = None \/ ~ WellFormed(TokenOf[r])
  /\ Admit(r, None)
  /\ UNCHANGED until

CacheHit(r) ==
  /\ Arrive(r)
  /\ TokenOf[r] # None
  /\ WellFormed(TokenOf[r])
  /\ until[TokenOf[r]] > now
  /\ Admit(r, PersonOf[TokenOf[r]])
  /\ UNCHANGED until

AskCognito(r) ==
  /\ Arrive(r)
  /\ TokenOf[r] # None
  /\ WellFormed(TokenOf[r])
  /\ until[TokenOf[r]] <= now
  /\ pc' = [pc EXCEPT ![r] = "asking"]
  /\ UNCHANGED <<tokenVars, until, verified, idVars>>

(***************************************************************************)
(* userInfo decides on the token as it stands at that moment.              *)
(***************************************************************************)
CognitoDecides(r) ==
  LET t == TokenOf[r]
  IN  /\ pc[r] = "asking"
      /\ pc' = [pc EXCEPT ![r] = IF revokedAt[t] = 0 /\ Exp[t] > now /\ PersonOf[t] # None
                                 THEN "accepted" ELSE "rejected"]
      /\ UNCHANGED <<tokenVars, until, asked, verified, idVars>>

Accepted(r) ==
  /\ pc[r] = "accepted"
  /\ Remember(TokenOf[r], asked[r])
  /\ Admit(r, PersonOf[TokenOf[r]])
  /\ UNCHANGED asked

Rejected(r) ==
  /\ pc[r] = "rejected"
  /\ Forget(TokenOf[r])
  /\ Admit(r, None)
  /\ UNCHANGED asked

(***************************************************************************)
(* No answer, or one that is neither yes nor no.                           *)
(***************************************************************************)
Unreachable(r) ==
  /\ pc[r] \in Waiting
  /\ Forget(TokenOf[r])
  /\ Admit(r, None)
  /\ UNCHANGED asked

\* Slip: the identity in module variables instead of context variables.
ShareIdentity(r, id) == identity' = [q \in Request |-> id]

SetIdentity(r, id) == identity' = [identity EXCEPT ![r] = id]

(***************************************************************************)
(* The body is in, whole or cut short by the client; the argument counts   *)
(* only without a verified caller.                                         *)
(***************************************************************************)
ReadBody(r) ==
  /\ pc[r] = "body"
  /\ LoopFree
  /\ \E legacy \in {LegacyOf[r], None} :
       SetIdentity(r, [verified |-> verified[r],
                       legacy |-> IF verified[r] = None THEN legacy ELSE None])
  /\ pc' = [pc EXCEPT ![r] = "app"]
  /\ UNCHANGED <<tokenVars, until, asked, verified, actor>>

CallerEmail(id) ==
  CASE id.verified # None -> id.verified
    [] id.verified = None /\ ~ required -> id.legacy
    [] OTHER -> None

(***************************************************************************)
(* The tool runs: it resolves its caller, and the context is reset.        *)
(***************************************************************************)
RunTool(r) ==
  /\ pc[r] = "app"
  /\ LoopFree
  /\ actor' = [actor EXCEPT ![r] = CallerEmail(identity[r])]
  /\ SetIdentity(r, Nobody)
  /\ pc' = [pc EXCEPT ![r] = "done"]
  /\ UNCHANGED <<tokenVars, until, asked, verified>>

-----------------------------------------------------------------------------
(* Around it *)

Tick ==
  /\ now < MaxTime
  /\ now' = now + 1
  /\ UNCHANGED <<required, revokedAt, until, pc, asked, verified, idVars>>

Revoke(t) ==
  /\ revokedAt[t] = 0
  /\ revokedAt' = [revokedAt EXCEPT ![t] = now]
  /\ UNCHANGED <<now, required, until, pc, asked, verified, idVars>>

(***************************************************************************)
(* The process ends and another starts with an empty cache.                *)
(***************************************************************************)
Restart ==
  /\ until' = [t \in Token |-> 0]
  /\ pc' = [r \in Request |-> IF pc[r] \in InFlight THEN "dropped" ELSE pc[r]]
  /\ identity' = [r \in Request |-> Nobody]
  /\ UNCHANGED <<tokenVars, asked, verified, actor>>

Handle(r) ==
  \/ WithoutToken(r) \/ CacheHit(r) \/ AskCognito(r) \/ CognitoDecides(r)
  \/ Accepted(r) \/ Rejected(r) \/ Unreachable(r)
  \/ ReadBody(r) \/ RunTool(r)

Next ==
  \/ \E r \in Request : Handle(r)
  \/ Tick
  \/ \E t \in Token : Revoke(t)
  \/ Restart

Spec == Init /\ [][Next]_vars

-----------------------------------------------------------------------------
(* Properties *)

(***************************************************************************)
(* Revocation lags at most the cap of the cache: whoever is admitted on a  *)
(* token that was revoked, presented it less than Ttl after that, however  *)
(* long Cognito's answer was on its way (oauth.py: "capped at 5 minutes so *)
(* revocation lags at most that long").                                    *)
(***************************************************************************)
RevocationLag ==
  \A r \in Request :
    verified[r] # None /\ revokedAt[TokenOf[r]] # 0
      => asked[r] < revokedAt[TokenOf[r]] + Ttl

(***************************************************************************)
(* The cache never holds more entries than its bound, not even when none   *)
(* of those in it has run out ("drop everything rather than grow").        *)
(***************************************************************************)
CacheBounded == Cardinality(Cached) <= CacheMax

(***************************************************************************)
(* A tool acts for the owner of its own request's verified token; for the  *)
(* caller named in its own body only if no token was verified and none is  *)
(* required.  Requests that overlap never act for one another.             *)
(***************************************************************************)
OwnIdentity ==
  \A r \in Request :
    actor[r] # None =>
      \/ TokenOf[r] # None /\ actor[r] = PersonOf[TokenOf[r]] /\ verified[r] = actor[r]
      \/ verified[r] = None /\ ~ required /\ actor[r] = LegacyOf[r]
=============================================================================
