-------------------------- MODULE OAuthCacheProofs --------------------------
(***************************************************************************)
(* Proofs about OAuthCache, for any number of requests, tokens and people, *)
(* any cap, any bound and any run of the clock.                            *)
(***************************************************************************)
EXTENDS OAuthCache, FiniteSetTheorems, TLAPS

(***************************************************************************)
(* A request waits for Cognito, or has a verified caller, only if it       *)
(* carries a token.                                                        *)
(***************************************************************************)
LocalsOK ==
  \A r \in Request :
    /\ pc[r] \in Waiting => TokenOf[r] \in Token
    /\ verified[r] # None => TokenOf[r] \in Token

TypeInv == TypeOK /\ LocalsOK

LEMMA LowerType ==
  ASSUME NEW m \in Nat, NEW n \in Nat
  PROVE  Lower(m, n) \in Nat /\ Lower(m, n) <= m /\ Lower(m, n) <= n
BY DEF Lower

LEMMA RememberType ==
  ASSUME TypeOK, NEW t \in Token, NEW n \in Nat, Remember(t, n)
  PROVE  until' \in [Token -> Nat]
<1>1. Lower(Exp[t], n + Ttl) \in Nat
  BY LowerType, TokenAssumption, BoundAssumption
<1> QED
  BY <1>1 DEF Remember, TypeOK

LEMMA AdmitType ==
  ASSUME TypeInv, NEW r \in Request, NEW who \in Person \union {None},
         who # None => TokenOf[r] \in Token, Admit(r, who)
  PROVE  /\ pc' \in [Request -> {"start", "refused", "done", "dropped"} \union InFlight]
         /\ verified' \in [Request -> Person \union {None}]
         /\ LocalsOK'
         /\ UNCHANGED <<now, required, revokedAt, identity, actor>>
<1>1. pc' \in [Request -> {"start", "refused", "done", "dropped"} \union InFlight]
  BY DEF Admit, TypeInv, TypeOK, InFlight
<1>2. verified' \in [Request -> Person \union {None}]
  BY DEF Admit, TypeInv, TypeOK
<1>3. LocalsOK'
  <2> SUFFICES ASSUME NEW q \in Request
               PROVE  /\ pc'[q] \in Waiting => TokenOf[q] \in Token
                      /\ verified'[q] # None => TokenOf[q] \in Token
    BY DEF LocalsOK
  <2> QED
    BY DEF Admit, TypeInv, TypeOK, LocalsOK, Waiting
<1> QED
  BY <1>1, <1>2, <1>3 DEF Admit, tokenVars, idVars

(***************************************************************************)
(* Every step keeps every variable in its range.                           *)
(***************************************************************************)
LEMMA TypeStep == TypeInv /\ [Next]_vars => TypeInv'
<1> SUFFICES ASSUME TypeInv, [Next]_vars
             PROVE  TypeInv'
  OBVIOUS
<1> USE NoneAssumption, RequestAssumption, TokenAssumption, BoundAssumption
<1>1. ASSUME NEW r \in Request, WithoutToken(r)
      PROVE  TypeInv'
  <2>1. asked' \in [Request -> 0..MaxTime] /\ UNCHANGED until
    BY <1>1 DEF WithoutToken, Arrive, TypeInv, TypeOK
  <2>2. Admit(r, None)
    BY <1>1 DEF WithoutToken
  <2> QED
    BY <2>1, <2>2, AdmitType DEF TypeInv, TypeOK
<1>2. ASSUME NEW r \in Request, CacheHit(r)
      PROVE  TypeInv'
  <2>1. asked' \in [Request -> 0..MaxTime] /\ UNCHANGED until
    BY <1>2 DEF CacheHit, Arrive, TypeInv, TypeOK
  <2>2. TokenOf[r] \in Token /\ PersonOf[TokenOf[r]] \in Person \union {None}
    BY <1>2 DEF CacheHit
  <2>3. Admit(r, PersonOf[TokenOf[r]])
    BY <1>2 DEF CacheHit
  <2> QED
    BY <2>1, <2>2, <2>3, AdmitType DEF TypeInv, TypeOK
<1>3. ASSUME NEW r \in Request, AskCognito(r)
      PROVE  TypeInv'
  <2>1. TypeOK'
    BY <1>3 DEF AskCognito, Arrive, TypeInv, TypeOK, tokenVars, idVars, InFlight, Waiting
  <2>2. LocalsOK'
    BY <1>3 DEF AskCognito, Arrive, TypeInv, TypeOK, LocalsOK
  <2> QED
    BY <2>1, <2>2 DEF TypeInv
<1>4. ASSUME NEW r \in Request, CognitoDecides(r)
      PROVE  TypeInv'
  <2>1. TypeOK'
    BY <1>4 DEF CognitoDecides, TypeInv, TypeOK, tokenVars, idVars, InFlight, Waiting
  <2>2. LocalsOK'
    BY <1>4 DEF CognitoDecides, TypeInv, TypeOK, LocalsOK, Waiting
  <2> QED
    BY <2>1, <2>2 DEF TypeInv
<1>5. ASSUME NEW r \in Request, Accepted(r)
      PROVE  TypeInv'
  <2>1. TokenOf[r] \in Token /\ asked[r] \in Nat
    BY <1>5 DEF Accepted, TypeInv, TypeOK, LocalsOK, Waiting
  <2>2. until' \in [Token -> Nat]
    BY <1>5, <2>1, RememberType DEF Accepted, TypeInv
  <2>3. Admit(r, PersonOf[TokenOf[r]]) /\ UNCHANGED asked
    BY <1>5 DEF Accepted
  <2> QED
    BY <2>1, <2>2, <2>3, AdmitType DEF TypeInv, TypeOK
<1>6. ASSUME NEW r \in Request, Rejected(r) \/ Unreachable(r)
      PROVE  TypeInv'
  <2>1. until' \in [Token -> Nat]
    BY <1>6 DEF Rejected, Unreachable, Forget, TypeInv, TypeOK
  <2>2. Admit(r, None) /\ UNCHANGED asked
    BY <1>6 DEF Rejected, Unreachable
  <2> QED
    BY <2>1, <2>2, AdmitType DEF TypeInv, TypeOK
<1>7. ASSUME NEW r \in Request, ReadBody(r)
      PROVE  TypeInv'
  <2>1. PICK legacy \in {LegacyOf[r], None} :
          SetIdentity(r, [verified |-> verified[r],
                          legacy |-> IF verified[r] = None THEN legacy ELSE None])
    BY <1>7 DEF ReadBody
  <2>2. identity' \in [Request -> [verified : Person \union {None},
                                   legacy : Person \union {None}]]
    BY <2>1 DEF SetIdentity, TypeInv, TypeOK
  <2>3. TypeOK'
    BY <1>7, <2>2 DEF ReadBody, TypeInv, TypeOK, tokenVars, InFlight
  <2>4. LocalsOK'
    BY <1>7 DEF ReadBody, TypeInv, TypeOK, LocalsOK, Waiting
  <2> QED
    BY <2>3, <2>4 DEF TypeInv
<1>8. ASSUME NEW r \in Request, RunTool(r)
      PROVE  TypeInv'
  <2>1. CallerEmail(identity[r]) \in Person \union {None}
    BY DEF CallerEmail, TypeInv, TypeOK
  <2>2. TypeOK'
    BY <1>8, <2>1 DEF RunTool, SetIdentity, Nobody, TypeInv, TypeOK, tokenVars
  <2>3. LocalsOK'
    BY <1>8 DEF RunTool, TypeInv, TypeOK, LocalsOK, Waiting
  <2> QED
    BY <2>2, <2>3 DEF TypeInv
<1>9. ASSUME Tick
      PROVE  TypeInv'
  BY <1>9 DEF Tick, TypeInv, TypeOK, LocalsOK, idVars
<1>10. ASSUME NEW t \in Token, Revoke(t)
       PROVE  TypeInv'
  BY <1>10 DEF Revoke, TypeInv, TypeOK, LocalsOK, idVars
<1>11. ASSUME Restart
       PROVE  TypeInv'
  <2>1. TypeOK'
    BY <1>11 DEF Restart, TypeInv, TypeOK, tokenVars, Nobody
  <2>2. LocalsOK'
    BY <1>11 DEF Restart, TypeInv, TypeOK, LocalsOK, InFlight, Waiting
  <2> QED
    BY <2>1, <2>2 DEF TypeInv
<1>12. ASSUME UNCHANGED vars
       PROVE  TypeInv'
  BY <1>12 DEF vars, tokenVars, idVars, TypeInv, TypeOK, LocalsOK
<1> QED
  BY <1>1, <1>2, <1>3, <1>4, <1>5, <1>6, <1>7, <1>8, <1>9, <1>10, <1>11, <1>12
     DEF Next, Handle

LEMMA TypeInit == Init => TypeInv
BY BoundAssumption, NoneAssumption
   DEF Init, TypeInv, TypeOK, LocalsOK, Nobody, InFlight, Waiting

LEMMA TypeInvariance == Spec => []TypeInv
<1> QED
  BY TypeInit, TypeStep, PTL DEF Spec

(***************************************************************************)
(* Every variable of the middleware keeps to its range.                    *)
(***************************************************************************)
THEOREM TypeCorrect == Spec => []TypeOK
<1>1. TypeInv => TypeOK
  BY DEF TypeInv
<1> QED
  BY <1>1, TypeInvariance, PTL

-----------------------------------------------------------------------------
(***************************************************************************)
(* Revocation: a token is cached for at most Ttl beyond the moment it was  *)
(* presented, and it was in force when Cognito accepted it, which was no   *)
(* earlier than that.                                                      *)
(***************************************************************************)
Known(t) == revokedAt[t] # 0

InForceWhen(t, n) == Known(t) => n <= revokedAt[t]

LagInv ==
  /\ \A t \in Token : until[t] <= now + Ttl
  /\ \A t \in Token : Known(t) => until[t] <= revokedAt[t] + Ttl
  /\ \A r \in Request : asked[r] <= now
  /\ \A r \in Request : pc[r] \in {"start"} \union Waiting => verified[r] = None
  /\ \A r \in Request : pc[r] = "accepted" => InForceWhen(TokenOf[r], asked[r])
  /\ RevocationLag

LEMMA RememberUntil ==
  ASSUME TypeOK, NEW t \in Token, NEW n \in Nat, Remember(t, n)
  PROVE  /\ until'[t] <= n + Ttl
         /\ \A k \in Token \ {t} : until'[k] <= until[k]
<1>1. Lower(Exp[t], n + Ttl) <= n + Ttl
  BY LowerType, TokenAssumption, BoundAssumption
<1> QED
  BY <1>1 DEF Remember, TypeOK

(***************************************************************************)
(* A step that admits r, on its word that the token of r was not revoked   *)
(* Ttl before r came.                                                      *)
(***************************************************************************)
LEMMA AdmitLag ==
  ASSUME TypeInv, LagInv, NEW r \in Request, NEW who, Admit(r, who),
         asked' = [asked EXCEPT ![r] = asked'[r]],
         who # None => (Known(TokenOf[r]) => asked'[r] < revokedAt[TokenOf[r]] + Ttl)
  PROVE  RevocationLag'
BY DEF Admit, TypeInv, TypeOK, LagInv, RevocationLag, Known, tokenVars

LEMMA LagStep == TypeInv /\ TypeInv' /\ LagInv /\ [Next]_vars => LagInv'
<1> SUFFICES ASSUME TypeInv, TypeInv', LagInv, [Next]_vars
             PROVE  LagInv'
  OBVIOUS
<1> USE NoneAssumption, RequestAssumption, TokenAssumption, BoundAssumption
<1>1. ASSUME NEW r \in Request, WithoutToken(r)
      PROVE  LagInv'
  <2>1. /\ Admit(r, None)
        /\ asked' = [asked EXCEPT ![r] = now]
        /\ UNCHANGED until
    BY <1>1 DEF WithoutToken, Arrive
  <2>2. RevocationLag'
    BY <2>1, AdmitLag DEF TypeInv, TypeOK
  <2> QED
    BY <2>1, <2>2 DEF Admit, TypeInv, TypeOK, LagInv, Known, InForceWhen, tokenVars, Waiting
<1>2. ASSUME NEW r \in Request, CacheHit(r)
      PROVE  LagInv'
  <2>1. /\ Admit(r, PersonOf[TokenOf[r]])
        /\ asked' = [asked EXCEPT ![r] = now]
        /\ until[TokenOf[r]] > now
        /\ TokenOf[r] \in Token
        /\ UNCHANGED until
    BY <1>2 DEF CacheHit, Arrive
  <2>2. Known(TokenOf[r]) => asked'[r] < revokedAt[TokenOf[r]] + Ttl
    BY <2>1 DEF TypeInv, TypeOK, LagInv
  <2>3. RevocationLag'
    BY <2>1, <2>2, AdmitLag DEF TypeInv, TypeOK
  <2> QED
    BY <2>1, <2>3 DEF Admit, TypeInv, TypeOK, LagInv, Known, InForceWhen, tokenVars, Waiting
<1>3. ASSUME NEW r \in Request, AskCognito(r)
      PROVE  LagInv'
  BY <1>3 DEF AskCognito, Arrive, TypeInv, TypeOK, LagInv, RevocationLag, Known,
              InForceWhen, tokenVars, idVars, Waiting
<1>4. ASSUME NEW r \in Request, CognitoDecides(r)
      PROVE  LagInv'
  BY <1>4 DEF CognitoDecides, TypeInv, TypeOK, LagInv, RevocationLag, Known, InForceWhen,
              tokenVars, idVars, Waiting
<1>5. ASSUME NEW r \in Request, Accepted(r)
      PROVE  LagInv'
  <2>1. /\ pc[r] = "accepted"
        /\ Remember(TokenOf[r], asked[r])
        /\ Admit(r, PersonOf[TokenOf[r]])
        /\ UNCHANGED asked
    BY <1>5 DEF Accepted
  <2>2. TokenOf[r] \in Token /\ asked[r] \in Nat /\ asked[r] <= now
    BY <2>1 DEF TypeInv, TypeOK, LocalsOK, Waiting, LagInv
  <2>3. InForceWhen(TokenOf[r], asked[r])
    BY <2>1 DEF LagInv
  <2>4. /\ until'[TokenOf[r]] <= asked[r] + Ttl
        /\ \A k \in Token \ {TokenOf[r]} : until'[k] <= until[k]
    BY <2>1, <2>2, RememberUntil DEF TypeInv
  <2>5. UNCHANGED <<now, revokedAt>>
    BY <2>1 DEF Admit, tokenVars
  <2>6. RevocationLag'
    <3>1. Known(TokenOf[r]) => asked[r] < revokedAt[TokenOf[r]] + Ttl
      BY <2>2, <2>3 DEF InForceWhen, TypeInv, TypeOK
    <3> QED
      BY <2>1, <3>1, AdmitLag DEF TypeInv, TypeOK
  <2>7. \A t \in Token : until'[t] <= now' + Ttl
    BY <2>2, <2>4, <2>5 DEF TypeInv, TypeOK, LagInv
  <2>8. \A t \in Token : Known(t)' => until'[t] <= revokedAt'[t] + Ttl
    BY <2>2, <2>3, <2>4, <2>5 DEF TypeInv, TypeOK, LagInv, Known, InForceWhen
  <2> QED
    BY <2>1, <2>5, <2>6, <2>7, <2>8 DEF Admit, TypeInv, TypeOK, LagInv, Known, InForceWhen,
                              Waiting
<1>6. ASSUME NEW r \in Request, Rejected(r) \/ Unreachable(r)
      PROVE  LagInv'
  <2>1. /\ Forget(TokenOf[r])
        /\ Admit(r, None)
        /\ UNCHANGED asked
    BY <1>6 DEF Rejected, Unreachable
  <2>2. RevocationLag'
    BY <2>1, AdmitLag DEF TypeInv, TypeOK
  <2>3. \A t \in Token : until'[t] <= until[t]
    BY <2>1 DEF Forget, TypeInv, TypeOK
  <2> QED
    BY <2>1, <2>2, <2>3 DEF Admit, TypeInv, TypeOK, LagInv, Known, InForceWhen, tokenVars,
       Waiting
<1>7. ASSUME NEW r \in Request, ReadBody(r) \/ RunTool(r)
      PROVE  LagInv'
  BY <1>7 DEF ReadBody, RunTool, TypeInv, TypeOK, LagInv, RevocationLag, Known, InForceWhen,
              tokenVars, Waiting
<1>8. ASSUME Tick
      PROVE  LagInv'
  BY <1>8 DEF Tick, TypeInv, TypeOK, LagInv, RevocationLag, Known, InForceWhen, idVars, Waiting
<1>9. ASSUME NEW t \in Token, Revoke(t)
      PROVE  LagInv'
  BY <1>9 DEF Revoke, TypeInv, TypeOK, LagInv, RevocationLag, Known, InForceWhen, idVars,
     Waiting
<1>10. ASSUME Restart
       PROVE  LagInv'
  BY <1>10 DEF Restart, TypeInv, TypeOK, LagInv, RevocationLag, Known, InForceWhen, tokenVars,
                  Waiting, InFlight
<1>11. ASSUME UNCHANGED vars
       PROVE  LagInv'
  BY <1>11 DEF vars, tokenVars, idVars, LagInv, RevocationLag, Known, InForceWhen
<1> QED
  BY <1>1, <1>2, <1>3, <1>4, <1>5, <1>6, <1>7, <1>8, <1>9, <1>10, <1>11 DEF Next, Handle

(***************************************************************************)
(* Whoever is admitted on a revoked token presented it less than Ttl after *)
(* the revocation.                                                         *)
(***************************************************************************)
THEOREM LagBounded == Spec => []RevocationLag
<1>1. Init => LagInv
  BY BoundAssumption DEF Init, LagInv, RevocationLag, Known, InForceWhen
<1>2. LagInv => RevocationLag
  BY DEF LagInv
<1> QED
  BY <1>1, <1>2, LagStep, TypeInvariance, PTL DEF Spec

-----------------------------------------------------------------------------
(***************************************************************************)
(* The bound of the cache: one entry is added to a cache that has room for *)
(* one.                                                                    *)
(***************************************************************************)
BoundInv == IsFiniteSet(Cached) /\ CacheBounded

LEMMA KeptRoom ==
  ASSUME BoundInv, NEW n
  PROVE  /\ Kept(n) \subseteq Cached
         /\ IsFiniteSet(Kept(n))
         /\ Cardinality(Kept(n)) < CacheMax
<1> DEFINE live == {t \in Cached : until[t] > n}
<1>1. Kept(n) \in {Cached, live, {}}
  BY DEF Kept
<1>2. Kept(n) \subseteq Cached
  BY <1>1
<1>3. IsFiniteSet(Kept(n))
  BY <1>2, FS_Subset DEF BoundInv
<1>4. Cardinality({}) = 0
  BY FS_EmptySet
<1>5. Cardinality(Kept(n)) < CacheMax
  BY <1>4, BoundAssumption DEF Kept
<1> QED
  BY <1>2, <1>3, <1>5

LEMMA SmallerCache ==
  ASSUME BoundInv, Cached' \subseteq Cached
  PROVE  BoundInv'
<1>1. IsFiniteSet(Cached') /\ Cardinality(Cached') <= Cardinality(Cached)
  BY FS_Subset DEF BoundInv
<1>2. Cardinality(Cached) \in Nat /\ Cardinality(Cached') \in Nat
  BY <1>1, FS_CardinalityType DEF BoundInv
<1> QED
  BY <1>1, <1>2, BoundAssumption DEF BoundInv, CacheBounded

LEMMA BoundStep == TypeInv /\ BoundInv /\ [Next]_vars => BoundInv'
<1> SUFFICES ASSUME TypeInv, BoundInv, [Next]_vars
             PROVE  BoundInv'
  OBVIOUS
<1>1. ASSUME NEW r \in Request, Accepted(r)
      PROVE  BoundInv'
  <2> DEFINE t == TokenOf[r]
             K == Kept(asked[r])
  <2>1. Cached' \subseteq K \union {t}
    BY <1>1 DEF Accepted, Remember, Cached
  <2>2. IsFiniteSet(K) /\ Cardinality(K) < CacheMax /\ Cardinality(K) \in Nat
    BY KeptRoom, FS_CardinalityType
  <2>3. /\ IsFiniteSet(K \union {t})
        /\ Cardinality(K \union {t}) <= Cardinality(K) + 1
        /\ Cardinality(K \union {t}) \in Nat
    <3>1. /\ IsFiniteSet(K \union {t})
          /\ Cardinality(K \union {t}) = IF t \in K THEN Cardinality(K) ELSE Cardinality(K) + 1
      BY <2>2, FS_AddElement
    <3> QED
      BY <2>2, <3>1
  <2>4. IsFiniteSet(Cached') /\ Cardinality(Cached') <= Cardinality(K \union {t})
    BY <2>1, <2>3, FS_Subset
  <2>5. Cardinality(Cached') \in Nat
    BY <2>4, FS_CardinalityType
  <2> QED
    BY <2>2, <2>3, <2>4, <2>5, BoundAssumption DEF BoundInv, CacheBounded
<1>2. ASSUME NEW r \in Request, Rejected(r) \/ Unreachable(r)
      PROVE  BoundInv'
  <2>1. until' = [until EXCEPT ![TokenOf[r]] = 0] /\ until \in [Token -> Nat]
    BY <1>2 DEF Rejected, Unreachable, Forget, TypeInv, TypeOK
  <2>2. \A t \in Token : until'[t] > 0 => until[t] > 0
    BY <2>1
  <2>3. Cached' \subseteq Cached
    BY <2>2 DEF Cached
  <2> QED
    BY <2>3, SmallerCache
<1>3. ASSUME Restart
      PROVE  BoundInv'
  <2>1. Cached' \subseteq Cached
    BY <1>3 DEF Restart, Cached
  <2> QED
    BY <2>1, SmallerCache
<1>4. ASSUME UNCHANGED until
      PROVE  BoundInv'
  BY <1>4 DEF BoundInv, CacheBounded, Cached
<1>5. ASSUME NEW r \in Request,
             WithoutToken(r) \/ CacheHit(r) \/ AskCognito(r) \/ CognitoDecides(r)
               \/ ReadBody(r) \/ RunTool(r)
      PROVE  UNCHANGED until
  BY <1>5 DEF WithoutToken, CacheHit, AskCognito, CognitoDecides, ReadBody, RunTool
<1>6. ASSUME Tick \/ (\E t \in Token : Revoke(t)) \/ UNCHANGED vars
      PROVE  UNCHANGED until
  BY <1>6 DEF Tick, Revoke, vars
<1> QED
  BY <1>1, <1>2, <1>3, <1>4, <1>5, <1>6 DEF Next, Handle

(***************************************************************************)
(* The token cache never outgrows its bound.                               *)
(***************************************************************************)
THEOREM CacheNeverGrows == Spec => []CacheBounded
<1>1. Init => BoundInv
  <2> SUFFICES ASSUME Init PROVE BoundInv
    OBVIOUS
  <2>1. Cached = {}
    BY DEF Init, Cached
  <2> QED
    BY <2>1, FS_EmptySet, BoundAssumption DEF BoundInv, CacheBounded
<1>2. BoundInv => CacheBounded
  BY DEF BoundInv
<1> QED
  BY <1>1, <1>2, BoundStep, TypeInvariance, PTL DEF Spec

-----------------------------------------------------------------------------
(***************************************************************************)
(* Identity: what the context of a request holds comes from that request.  *)
(***************************************************************************)
IdInv ==
  /\ \A r \in Request : verified[r] # None => verified[r] = PersonOf[TokenOf[r]]
  /\ \A r \in Request : pc[r] = "app" =>
       /\ identity[r].verified = verified[r]
       /\ identity[r].legacy \in {LegacyOf[r], None}
  /\ \A r \in Request : actor[r] # None => pc[r] = "done"
  /\ OwnIdentity

LEMMA AdmitId ==
  ASSUME TypeInv, IdInv, NEW r \in Request, NEW who, Admit(r, who), pc[r] # "done",
         who # None => who = PersonOf[TokenOf[r]]
  PROVE  IdInv'
BY DEF Admit, TypeInv, TypeOK, IdInv, OwnIdentity, tokenVars, idVars

LEMMA IdStep == TypeInv /\ TypeInv' /\ IdInv /\ [Next]_vars => IdInv'
<1> SUFFICES ASSUME TypeInv, TypeInv', IdInv, [Next]_vars
             PROVE  IdInv'
  OBVIOUS
<1> USE NoneAssumption, RequestAssumption, TokenAssumption
<1>1. ASSUME NEW r \in Request, WithoutToken(r) \/ Rejected(r) \/ Unreachable(r)
      PROVE  IdInv'
  <2>1. Admit(r, None) /\ pc[r] # "done"
    BY <1>1 DEF WithoutToken, Rejected, Unreachable, Arrive, Waiting
  <2> QED
    BY <2>1, AdmitId
<1>2. ASSUME NEW r \in Request, CacheHit(r) \/ Accepted(r)
      PROVE  IdInv'
  <2>1. Admit(r, PersonOf[TokenOf[r]]) /\ pc[r] # "done"
    BY <1>2 DEF CacheHit, Accepted, Arrive
  <2> QED
    BY <2>1, AdmitId
<1>3. ASSUME NEW r \in Request, AskCognito(r) \/ CognitoDecides(r)
      PROVE  IdInv'
  BY <1>3 DEF AskCognito, CognitoDecides, Arrive, TypeInv, TypeOK, IdInv, OwnIdentity,
              tokenVars, idVars
<1>4. ASSUME NEW r \in Request, ReadBody(r)
      PROVE  IdInv'
  <2>1. PICK legacy \in {LegacyOf[r], None} :
          SetIdentity(r, [verified |-> verified[r],
                          legacy |-> IF verified[r] = None THEN legacy ELSE None])
    BY <1>4 DEF ReadBody
  <2>2. \A q \in Request : identity'[q] =
          IF q = r THEN [verified |-> verified[r],
                         legacy |-> IF verified[r] = None THEN legacy ELSE None]
                   ELSE identity[q]
    BY <2>1 DEF SetIdentity, TypeInv, TypeOK
  <2> QED
    BY <1>4, <2>2 DEF ReadBody, TypeInv, TypeOK, IdInv, OwnIdentity, tokenVars
<1>5. ASSUME NEW r \in Request, RunTool(r)
      PROVE  IdInv'
  <2> DEFINE who == CallerEmail(identity[r])
  <2>1. /\ pc[r] = "app"
        /\ actor' = [actor EXCEPT ![r] = who]
        /\ pc' = [pc EXCEPT ![r] = "done"]
        /\ identity' = [identity EXCEPT ![r] = Nobody]
        /\ UNCHANGED <<verified, required>>
    BY <1>5 DEF RunTool, SetIdentity, tokenVars
  <2>2. \/ who = None
        \/ verified[r] # None /\ who = verified[r]
        \/ verified[r] = None /\ ~ required /\ who = LegacyOf[r]
    BY <2>1 DEF CallerEmail, IdInv
  <2>3. /\ verified[r] # None => TokenOf[r] # None
        /\ verified[r] # None => verified[r] = PersonOf[TokenOf[r]]
    BY DEF TypeInv, LocalsOK, IdInv
  <2>4. \A q \in Request \ {r} : /\ actor'[q] = actor[q]
                                 /\ pc'[q] = pc[q]
                                 /\ identity'[q] = identity[q]
    BY <2>1 DEF TypeInv, TypeOK
  <2>5. actor'[r] = who /\ pc'[r] = "done"
    BY <2>1 DEF TypeInv, TypeOK
  <2> QED
    BY <2>1, <2>2, <2>3, <2>4, <2>5 DEF IdInv, OwnIdentity
<1>6. ASSUME Tick \/ (\E t \in Token : Revoke(t)) \/ UNCHANGED vars
      PROVE  IdInv'
  BY <1>6 DEF Tick, Revoke, vars, tokenVars, idVars, IdInv, OwnIdentity
<1>7. ASSUME Restart
      PROVE  IdInv'
  BY <1>7 DEF Restart, TypeInv, TypeOK, IdInv, OwnIdentity, InFlight, Waiting,
                 tokenVars
<1> QED
  BY <1>1, <1>2, <1>3, <1>4, <1>5, <1>6, <1>7 DEF Next, Handle

(***************************************************************************)
(* No tool call acts for anyone but its own request's verified caller, or  *)
(* the caller its own body names when no token is required.                *)
(***************************************************************************)
THEOREM IdentityIsOwn == Spec => []OwnIdentity
<1>1. Init => IdInv
  BY DEF Init, IdInv, OwnIdentity
<1>2. IdInv => OwnIdentity
  BY DEF IdInv
<1> QED
  BY <1>1, <1>2, IdStep, TypeInvariance, PTL DEF Spec
=============================================================================
