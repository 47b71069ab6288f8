----------------------------- MODULE QueryProofs -----------------------------
(***************************************************************************)
(* What the permission check guarantees for every scope, object and time;  *)
(* what the claims it is applied to carry, whatever the grammar finds in a *)
(* record and whatever the model answers; and the properties of Query for  *)
(* every value of its constants.                                           *)
(*                                                                         *)
(* The last follow from one invariant.  What a token says is related to    *)
(* what it was asked for in a way that does not depend on the clock        *)
(* (SoundToken); and a query that is answered holds the decisions of one   *)
(* moment on what it had retrieved (SoundAnswer).                          *)
(***************************************************************************)
EXTENDS Query, Extraction, WellFoundedInduction, TLAPS

-----------------------------------------------------------------------------
(* The permission check.                                                    *)

(* s asks for no more than t, for the same agent and owner.                 *)
Within(s, t) ==
  /\ s.agent = t.agent /\ s.owner = t.owner
  /\ s.sources \subseteq t.sources
  /\ s.kinds \subseteq t.kinds
  /\ t.notBefore # Unset => s.notBefore # Unset /\ s.notBefore >= t.notBefore
  /\ t.notAfter # Unset => s.notAfter # Unset /\ s.notAfter <= t.notAfter
  /\ s.max <= t.max
  /\ t.expires # Unset => s.expires # Unset /\ s.expires <= t.expires

(* An object draws on another: it carries all its sources, kinds and        *)
(* revocations and is no less sensitive.                                    *)
DrawsOn(a, b) ==
  /\ a.owner = b.owner
  /\ b.sources # {} /\ b.sources \subseteq a.sources
  /\ b.kinds # {} /\ b.kinds \subseteq a.kinds
  /\ b.denied \subseteq a.denied
  /\ b.sensitivity <= a.sensitivity
  /\ b.occurred = a.occurred
-----------------------------------------------------------------------------
(* No reason applies.                                                       *)
Allowed(scope, acl, time) ==
  /\ scope.owner = acl.owner
  /\ ~Expired(scope, time)
  /\ scope.agent \notin acl.denied
  /\ Covers(scope.sources, acl.sources)
  /\ Covers(scope.kinds, acl.kinds)
  /\ ~Outside(scope, acl)
  /\ ~(acl.sensitivity > scope.max)

(* One of some checks comes first.                                          *)
LEMMA FirstOfSeven ==
  ASSUME NEW S \in SUBSET (1..7), S # {}
  PROVE  \E i \in S : \A j \in S : i <= j
<1>1. CASE 1 \in S
  BY <1>1
<1>2. CASE 1 \notin S /\ 2 \in S
  BY <1>2
<1>3. CASE S \cap {1, 2} = {} /\ 3 \in S
  BY <1>3
<1>4. CASE S \cap {1, 2, 3} = {} /\ 4 \in S
  BY <1>4
<1>5. CASE S \subseteq {5, 6, 7}
  <2>1. CASE 5 \in S
    BY <1>5, <2>1
  <2>2. CASE 5 \notin S /\ 6 \in S
    BY <1>5, <2>2
  <2>3. CASE S = {7}
    BY <2>3
  <2> QED
    BY <1>5, <2>1, <2>2, <2>3
<1> QED
  BY <1>1, <1>2, <1>3, <1>4, <1>5

(* The order of the checks decides which reason is given and nothing else:  *)
(* `evaluate` allows exactly when no check fails.                           *)
LEMMA PermitsWhenAllowed ==
  ASSUME NEW scope, NEW acl, NEW time
  PROVE  permits(scope, acl, time) <=> Allowed(scope, acl, time)
<1> DEFINE checks == Checks(scope, acl, time)
           failed == {i \in DOMAIN checks : checks[i][2]}
           least == CHOOSE i \in failed : \A j \in failed : i <= j
<1>1. DOMAIN checks = 1..7
  BY DEF Checks
<1>2. failed = {} <=> Allowed(scope, acl, time)
  <2>1. failed = {} <=> \A i \in 1..7 : ~checks[i][2]
    BY <1>1
  <2>2. (\A i \in 1..7 : ~checks[i][2]) <=>
          (~checks[1][2] /\ ~checks[2][2] /\ ~checks[3][2] /\ ~checks[4][2]
            /\ ~checks[5][2] /\ ~checks[6][2] /\ ~checks[7][2])
    BY SMT
  <2> QED
    BY <2>1, <2>2 DEF Checks, Allowed
<1>3. failed # {} => checks[least][1] # "allow"
  <2> SUFFICES ASSUME failed # {}
               PROVE  checks[least][1] # "allow"
    OBVIOUS
  <2>1. failed \in SUBSET (1..7)
    BY <1>1
  <2>2. \E i \in failed : \A j \in failed : i <= j
    BY <2>1, FirstOfSeven
  <2>3. least \in 1..7
    <3> HIDE DEF failed
    <3> QED
      BY <2>1, <2>2
  <2>4. \A i \in 1..7 : checks[i][1] # "allow"
    BY SMT DEF Checks
  <2> QED
    <3> HIDE DEF checks, least
    <3> QED
      BY <2>3, <2>4
<1> QED
  BY <1>2, <1>3 DEF permits, evaluate

(* Deny by default: a scope with no sources or no kinds grants nothing, and *)
(* an object with no sources or no kinds is granted to nobody ("an empty    *)
(* `sources` or `entity_kinds` list in a scope grants nothing rather than   *)
(* everything", permissions.rs:91).                                         *)
THEOREM DenyByDefault ==
  ASSUME NEW scope, NEW acl, NEW time, permits(scope, acl, time)
  PROVE  /\ scope.sources # {} /\ scope.kinds # {}
         /\ acl.sources # {} /\ acl.kinds # {}
BY PermitsWhenAllowed DEF Allowed, Covers

(* A scope that asks for no more, for the same agent and owner, sees no     *)
(* more: narrowing a grant in any field never opens an object.              *)
THEOREM NarrowerSeesLess ==
  ASSUME NEW s \in Scope, NEW t \in Scope, NEW acl \in ObjectAcl, NEW time \in Nat,
         Within(s, t), permits(s, acl, time)
  PROVE  permits(t, acl, time)
<1>1. Allowed(s, acl, time)
  BY PermitsWhenAllowed
<1>2. ~Expired(t, time)
  BY <1>1, UnsetAssumption DEF Within, Allowed, Expired, Scope, Option
<1>3. ~Outside(t, acl)
  BY <1>1, UnsetAssumption DEF Within, Allowed, Outside, Scope, ObjectAcl, Option
<1>4. ~(acl.sensitivity > t.max)
  BY <1>1 DEF Within, Allowed, Scope, ObjectAcl, Sensitivity
<1>5. Covers(t.sources, acl.sources) /\ Covers(t.kinds, acl.kinds)
  BY <1>1 DEF Within, Allowed, Covers
<1>6. t.owner = acl.owner /\ t.agent \notin acl.denied
  BY <1>1 DEF Within, Allowed
<1> QED
  BY <1>2, <1>3, <1>4, <1>5, <1>6, PermitsWhenAllowed DEF Allowed

(* Time only takes away: what a scope sees at some time it saw before, as   *)
(* long as the object did not change.                                       *)
THEOREM TimeOnlyTakesAway ==
  ASSUME NEW scope \in Scope, NEW acl \in ObjectAcl, NEW time \in Nat, NEW later \in Nat,
         time <= later, permits(scope, acl, later)
  PROVE  permits(scope, acl, time)
<1>1. Allowed(scope, acl, later)
  BY PermitsWhenAllowed
<1>2. ~Expired(scope, time)
  BY <1>1, UnsetAssumption DEF Allowed, Expired, Scope, Option
<1> QED
  BY <1>1, <1>2, PermitsWhenAllowed DEF Allowed

(* An object resolved from others, which carries all their sources, kinds   *)
(* and revocations, opens none of them: whoever may see it may see each of  *)
(* them ("a scope covering only one of them must not see it",               *)
(* permissions.rs:32).                                                      *)
THEOREM NoPartLeaks ==
  ASSUME NEW scope \in Scope, NEW whole \in ObjectAcl, NEW part \in ObjectAcl, NEW time,
         DrawsOn(whole, part), permits(scope, whole, time)
  PROVE  permits(scope, part, time)
<1>1. Allowed(scope, whole, time)
  BY PermitsWhenAllowed
<1>2. ~(part.sensitivity > scope.max)
  BY <1>1 DEF DrawsOn, Allowed, Scope, ObjectAcl, Sensitivity
<1>3. Covers(scope.sources, part.sources) /\ Covers(scope.kinds, part.kinds)
  BY <1>1 DEF DrawsOn, Allowed, Covers
<1>4. ~Outside(scope, part)
  BY <1>1 DEF DrawsOn, Allowed, Outside
<1> QED
  BY <1>1, <1>2, <1>3, <1>4, PermitsWhenAllowed DEF DrawsOn, Allowed

-----------------------------------------------------------------------------
(* The claims of the extractors.                                            *)

(* The shape of what the mock grammar finds.                                *)
Decision == [who : STRING, words : Seq(STRING)]
Promise == [by : STRING, to : STRING \cup {None}, words : Seq(STRING),
            due : STRING \cup {None}]
IsMockRecord(r) == r.decisions \in Seq(Decision) /\ r.promises \in Seq(Promise)

IsAnswer(answer) ==
  /\ answer.entities \in Seq([kind : STRING, name : STRING])
  /\ answer.claims \in Seq([words : Seq(STRING), subjects : Seq(STRING),
       commitment : [by : STRING \cup {None}, to : STRING \cup {None},
                     due : STRING \cup {None}]])

LEMMA ElementInSeq ==
  ASSUME NEW S, NEW s \in Seq(S), NEW i \in DOMAIN s
  PROVE  s[i] \in S
OBVIOUS

LEMMA PromiserIsNamed ==
  ASSUME NEW r, IsMockRecord(r), NEW i \in DOMAIN r.promises
  PROVE  r.promises[i].by \in STRING
<1>1. r.promises[i] \in Promise
  BY ElementInSeq DEF IsMockRecord
<1> QED  BY <1>1 DEF Promise

LEMMA PartiesOfAPromise ==
  ASSUME NEW r, IsMockRecord(r), NEW i \in DOMAIN r.promises
  PROVE  Parties(PromiseClaim(r, r.promises[i]).facet) \subseteq MockEntities(r)
<1> DEFINE p == r.promises[i]
<1>1. p \in Image(r.promises)
  BY DEF Image
<1>2. Person(p.by) \in MockEntities(r)
  BY <1>1 DEF MockEntities
<1>3. p.to # None => Person(p.to) \in MockEntities(r)
  BY <1>1 DEF MockEntities
<1>4. Parties(PromiseClaim(r, p).facet) = {Person(p.by), PersonOrNone(p.to)} \ {None}
  BY DEF Parties, PromiseClaim
<1> QED
  BY <1>2, <1>3, <1>4 DEF PersonOrNone

(* Every subject of a claim of the mock extractor and every party of its    *)
(* commitment is an entity of the same record: write stores the entities    *)
(* first, so the links ABOUT, OWED_BY and OWED_TO find both their ends      *)
(* (mock.py:92-240, and what Ingestion assumes of its data).                *)
THEOREM MockClaimsAreMentioned ==
  ASSUME NEW r, IsMockRecord(r), NEW i \in DOMAIN MockClaims(r)
  PROVE  Involved(MockClaims(r)[i]) \subseteq MockEntities(r)
<1> DEFINE D == [j \in DOMAIN r.decisions |-> DecisionClaim(r, r.decisions[j])]
           P == [j \in DOMAIN r.promises |-> PromiseClaim(r, r.promises[j])]
<1>1. D \in Seq(Image(D)) /\ P \in Seq(Image(P)) /\ Len(D) = Len(r.decisions)
        /\ Len(P) = Len(r.promises)
  <2> DEFINE m == Len(r.decisions)  n == Len(r.promises)
  <2>1. m \in Nat /\ n \in Nat /\ DOMAIN r.decisions = 1..m /\ DOMAIN r.promises = 1..n
    BY DEF IsMockRecord
  <2>2. D \in [1..m -> Image(D)] /\ P \in [1..n -> Image(P)]
    BY <2>1 DEF Image
  <2> QED  BY <2>1, <2>2
<1>2. MockClaims(r) = D \o P
  BY DEF MockClaims
<1>3. MockThings(r) \subseteq MockEntities(r)
  BY DEF MockEntities
<1>4. ASSUME NEW j \in DOMAIN r.decisions
      PROVE  Involved(D[j]) \subseteq MockEntities(r)
  BY <1>3 DEF Involved, DecisionClaim, Parties, NoFacet
<1>5. ASSUME NEW j \in DOMAIN r.promises
      PROVE  Involved(P[j]) \subseteq MockEntities(r)
  BY <1>3, PartiesOfAPromise DEF Involved, PromiseClaim
<1>6. i \in 1..(Len(D) + Len(P))
  BY <1>1, <1>2
<1>7. CASE i <= Len(D)
  <2>1. MockClaims(r)[i] = D[i] /\ i \in DOMAIN r.decisions
    BY <1>1, <1>2, <1>6, <1>7 DEF IsMockRecord
  <2> QED  BY <2>1, <1>4
<1>8. CASE i > Len(D)
  <2>1. MockClaims(r)[i] = P[i - Len(D)] /\ i - Len(D) \in DOMAIN r.promises
    BY <1>1, <1>2, <1>6, <1>8 DEF IsMockRecord
  <2> QED  BY <2>1, <1>5
<1> QED  BY <1>1, <1>6, <1>7, <1>8

LEMMA LastOfMany ==
  ASSUME NEW n \in Nat, NEW S \in SUBSET (1..n), S # {}
  PROVE  \E i \in S : \A j \in S : j <= i
<1> DEFINE T == {n - i : i \in S}
<1>1. T \in SUBSET Nat /\ T # {}
  <2>1. \A i \in S : n - i \in Nat
    OBVIOUS
  <2> QED  BY <2>1
<1>2. PICK k \in T : \A m \in T : ~ (<<m, k>> \in OpToRel(<, Nat))
  BY <1>1, NatLessThanWellFounded, WFMin, Zenon
<1>3. PICK i \in S : k = n - i
  BY <1>2
<1>4. ASSUME NEW j \in S  PROVE  j <= i
  <2>1. n - j \in T /\ n - j \in Nat /\ k \in Nat
    BY <1>1
  <2>2. ~(n - j < k)
    BY <1>2, <2>1 DEF OpToRel
  <2> QED  BY <2>1, <2>2, <1>3
<1> QED  BY <1>3, <1>4

(* A name is resolved to an entity the model returned, or to none.          *)
LEMMA NamesResolve ==
  ASSUME NEW answer, IsAnswer(answer), NEW name
  PROVE  by_name(answer, name) \in LlmEntities(answer) \cup {None}
<1> DEFINE named == {i \in DOMAIN answer.entities : answer.entities[i].name = name}
           last == CHOOSE i \in named : \A j \in named : j <= i
<1>1. CASE named = {}
  BY <1>1 DEF by_name
<1>2. CASE named # {}
  <2>1. named \in SUBSET (1..Len(answer.entities)) /\ Len(answer.entities) \in Nat
    BY DEF IsAnswer
  <2>2. \E i \in named : \A j \in named : j <= i
    BY <1>2, <2>1, LastOfMany
  <2>3. last \in named
    BY <2>2
  <2>4. answer.entities[last] \in Image(answer.entities)
    BY <2>3 DEF Image
  <2>5. by_name(answer, name)
          = EntityId(answer.entities[last].kind, answer.entities[last].name)
    BY <1>2 DEF by_name
  <2> QED  BY <2>4, <2>5 DEF LlmEntities
<1> QED  BY <1>1, <1>2

(* The same of the claims of the model, whatever it answers: a subject or a *)
(* party it named and did not return is left out (llm.py:123 and 196), and  *)
(* no commitment is owed by nobody.                                         *)
THEOREM LlmClaimsAreMentioned ==
  ASSUME NEW r, NEW answer, IsAnswer(answer), NEW i \in DOMAIN answer.claims
  PROVE  /\ Involved(LlmClaims(r, answer)[i]) \subseteq LlmEntities(answer)
         /\ LlmClaims(r, answer)[i].facet # NoFacet => LlmClaims(r, answer)[i].facet.by # None
<1> DEFINE raw == answer.claims[i]
           facet == commitment_of(answer, raw.commitment)
<1>1. LlmClaims(r, answer)[i] = LlmClaim(r, answer, raw)
  BY DEF LlmClaims
<1>2. LlmClaim(r, answer, raw).facet = facet
        /\ LlmClaim(r, answer, raw).subjects
             = {by_name(answer, n) : n \in Image(raw.subjects)} \ {None}
  BY DEF LlmClaim
<1>3. Parties(facet) \subseteq LlmEntities(answer) /\ (facet # NoFacet => facet.by # None)
  BY NamesResolve DEF commitment_of, Parties, NoFacet
<1> QED  BY <1>1, <1>2, <1>3, NamesResolve DEF Involved

(* "The parties are part of what this object is about, so a scope that      *)
(* excludes persons must not see it" (mock.py:232): whoever may see a claim *)
(* may see entities of the kind of every subject and party.                 *)
THEOREM ScopeCoversTheInvolved ==
  ASSUME NEW r, NEW c, NEW owner, NEW scope, NEW time,
         permits(scope, ClaimAcl(r, c, owner), time)
  PROVE  /\ KindsOf(Involved(c)) \subseteq scope.kinds
         /\ Involved(c) # {}
<1>1. Covers(scope.kinds, ClaimAcl(r, c, owner).kinds)
  BY PermitsWhenAllowed DEF Allowed
<1>2. ClaimAcl(r, c, owner).kinds = KindsOf(Involved(c))
  BY DEF ClaimAcl
<1> QED  BY <1>1, <1>2 DEF Covers, KindsOf

(* So a promise the mock extractor found is never seen by a scope that      *)
(* excludes persons.                                                        *)
THEOREM PromisesNeedPersons ==
  ASSUME NEW r, IsMockRecord(r), NEW i \in DOMAIN r.promises,
         None \notin {Person(n) : n \in STRING},
         NEW owner, NEW scope, NEW time, "person" \notin scope.kinds
  PROVE  ~permits(scope, ClaimAcl(r, PromiseClaim(r, r.promises[i]), owner), time)
<1> DEFINE c == PromiseClaim(r, r.promises[i])
<1>1. r.promises[i].by \in STRING
  BY PromiserIsNamed
<1>2. Person(r.promises[i].by) \in Involved(c)
  BY <1>1 DEF Involved, Parties, PromiseClaim
<1>3. Person(r.promises[i].by)[2] = "person"
  BY DEF Person, EntityId, stable_id
<1>4. "person" \in KindsOf(Involved(c))
  BY <1>2, <1>3 DEF KindsOf
<1> QED  BY <1>4, ScopeCoversTheInvolved

-----------------------------------------------------------------------------
(* Arithmetic.                                                              *)

LEMMA WrappingShrinks ==
  ASSUME NEW x \in Nat
  PROVE  x % Width \in 0..(Width - 1) /\ x % Width <= x
BY GrantAssumption

LEMMA Fitting ==
  ASSUME NEW x \in Nat, x < Width
  PROVE  x % Width = x
BY GrantAssumption

LEMMA SecsNatural ==
  ASSUME NEW t \in Nat
  PROVE  Secs(t) \in Nat
BY GrantAssumption DEF Secs

LEMMA BeforeTheSecond ==
  ASSUME NEW t \in Nat, NEW e \in Nat, t < e * Second
  PROVE  Secs(t) < e
BY GrantAssumption DEF Secs

LEMMA SecondsCount ==
  ASSUME NEW e \in Nat
  PROVE  e * Second \in Nat /\ e <= e * Second
BY GrantAssumption

-----------------------------------------------------------------------------
(* The invariant.                                                           *)

Limits(g) ==
  /\ g.scope.expires \in Nat
  /\ g.scope.expires <= g.exp * Second
  /\ g.scope.expires <= g.deadline
  /\ g.request.expires # Unset => g.scope.expires <= g.request.expires
  /\ (g.deadline < Width /\ g.request.expires = Unset) => g.scope.expires = g.deadline
  /\ (g.deadline < Width /\ g.request.expires # Unset) =>
       g.scope.expires = g.deadline \/ g.scope.expires = g.request.expires

SoundToken(g) ==
  /\ g.scope = [g.request EXCEPT !.expires = g.scope.expires]
  /\ Limits(g)

SoundAnswer ==
  pc = "answered" =>
    /\ \A x \in permitted : permits(token.scope, candidates[x], checked)
    /\ \A x \in DOMAIN denials :
         x \in DOMAIN candidates /\ ~permits(token.scope, candidates[x], checked)

NothingYet == pc # "answered" => permitted = {}

IInv ==
  /\ TypeOK
  /\ NothingYet
  /\ \A g \in grants : SoundToken(g)
  /\ SoundAnswer

-----------------------------------------------------------------------------
(* What a token that was just minted says.                                  *)

LEMMA NewTokenSound ==
  ASSUME NEW request \in Requests, NEW ttl \in Ttls, now \in Nat
  PROVE  GrantToken(request, ttl) \in Token /\ SoundToken(GrantToken(request, ttl))
<1> DEFINE sum == Secs(now) + ttl
           exp == sum % Width
           limit == (exp * Second) % Width
           expires == IF request.expires = Unset THEN limit ELSE Earlier(request.expires, limit)
           g == GrantToken(request, ttl)
<1>1. sum \in Nat /\ Secs(now) \in Nat
  <2>1. ttl \in Nat
    BY GrantAssumption
  <2> QED
    BY <2>1, SecsNatural
<1>2. exp \in 0..(Width - 1) /\ exp <= sum /\ exp \in Nat
  BY <1>1, WrappingShrinks, GrantAssumption
<1>3. exp * Second \in Nat /\ sum * Second \in Nat /\ exp * Second <= sum * Second
  BY <1>1, <1>2, GrantAssumption
<1>4. limit \in Nat /\ limit <= exp * Second
  BY <1>3, WrappingShrinks, GrantAssumption
<1>5. request \in Scope /\ request.expires \in Nat \cup {Unset}
  BY GrantAssumption DEF Scope, Option
<1>6. expires \in Nat /\ expires <= limit
  BY <1>4, <1>5 DEF Earlier
<1>7. request.expires # Unset =>
        expires <= request.expires /\ (expires = limit \/ expires = request.expires)
  BY <1>4, <1>5 DEF Earlier
<1>8. sum * Second < Width => limit = sum * Second
  <2> SUFFICES ASSUME sum * Second < Width
               PROVE  limit = sum * Second
    OBVIOUS
  <2>1. sum < Width
    BY <1>1, SecondsCount, GrantAssumption
  <2>2. exp = sum
    BY <1>1, <2>1, Fitting
  <2> QED
    BY <1>3, <2>2, Fitting
<1>9. g = [scope |-> [request EXCEPT !.expires = expires], exp |-> exp, request |-> request,
           deadline |-> sum * Second]
  BY DEF GrantToken, ScopeUntil
<1> HIDE DEF g, expires, limit, exp, sum
<1>10. g.scope = [request EXCEPT !.expires = expires] /\ g.scope.expires = expires
       /\ g.scope \in Scope
  BY <1>5, <1>6, <1>9 DEF Scope, Option
<1>11. g \in Token
  BY <1>1, <1>2, <1>3, <1>9, <1>10 DEF Token
<1>12. Limits(g)
  <2>1. expires <= exp * Second /\ expires <= sum * Second
    BY <1>3, <1>4, <1>6
  <2>2. request.expires = Unset => expires = limit
    BY DEF expires
  <2>3. /\ g.scope.expires = expires /\ g.exp = exp
        /\ g.request = request /\ g.deadline = sum * Second
    BY <1>9, <1>10
  <2> QED
    BY <1>6, <1>7, <1>8, <2>1, <2>2, <2>3 DEF Limits
<1>13. SoundToken(g)
  BY <1>9, <1>10, <1>12 DEF SoundToken
<1> QED
  BY <1>11, <1>13 DEF g

-----------------------------------------------------------------------------
LEMMA InitIInv == Init => IInv
BY GrantAssumption DEF Init, IInv, TypeOK, NothingYet, SoundAnswer, NoToken

LEMMA NextIInv ==
  ASSUME IInv, [Next]_vars
  PROVE  IInv'
<1> USE DEF IInv
<1>0. now \in Nat /\ MaxTime \in Nat
  BY GrantAssumption DEF TypeOK
<1>a. NothingYet'
  BY DEF NothingYet, Next, vars, query, Tick, Write, OpenSession, Grant, Authorize,
         Retrieve, CheckPermissions, Return
<1>1. CASE Tick
  <2>1. TypeOK'
    BY <1>0, <1>1 DEF Tick, TypeOK, query
  <2>2. SoundAnswer' /\ \A g \in grants' : SoundToken(g)'
    BY <1>1 DEF Tick, SoundAnswer, SoundToken, query
  <2> QED
    BY <1>a, <2>1, <2>2
<1>2. ASSUME NEW x \in Objects, Write(x)
      PROVE  IInv'
  <2>1. TypeOK'
    BY <1>2 DEF Write, TypeOK, query
  <2>2. SoundAnswer' /\ \A g \in grants' : SoundToken(g)'
    BY <1>2 DEF Write, SoundAnswer, SoundToken, query
  <2> QED
    BY <1>a, <2>1, <2>2
<1>3. ASSUME NEW owner \in Owners, OpenSession(owner)
      PROVE  IInv'
  <2>1. (Secs(now) + SessionTtl) % Width \in 0..(Width - 1)
    BY <1>0, SecsNatural, WrappingShrinks, GrantAssumption, SMTT(20)
  <2>2. TypeOK'
    BY <1>3, <2>1 DEF OpenSession, TypeOK, query
  <2>3. SoundAnswer'
    BY <1>3 DEF OpenSession, SoundAnswer, query
  <2>4. sessions \subseteq sessions' /\ grants' = grants
    BY <1>3 DEF OpenSession
  <2>5. \A g \in grants' : SoundToken(g)'
    BY <2>4 DEF SoundToken
  <2> QED
    BY <1>a, <2>2, <2>3, <2>5
<1>4. ASSUME NEW session \in sessions, NEW request \in Requests, NEW ttl \in Ttls,
             Grant(session, request, ttl)
      PROVE  IInv'
  <2>1. GrantToken(request, ttl) \in Token /\ SoundToken(GrantToken(request, ttl))
    BY <1>0, NewTokenSound
  <2>2. TypeOK'
    BY <1>4, <2>1 DEF Grant, TypeOK, query
  <2>3. SoundAnswer'
    BY <1>4 DEF Grant, SoundAnswer, query
  <2>4. \A g \in grants' : SoundToken(g)'
    BY <1>4, <2>1 DEF Grant, SoundToken
  <2> QED
    BY <1>a, <2>2, <2>3, <2>4
<1>5. ASSUME NEW g \in grants, Authorize(g)
      PROVE  IInv'
  <2>1. g # NoToken
    BY DEF TypeOK, Token, NoToken
  <2>2. TypeOK'
    BY <1>5, <2>1 DEF Authorize, TypeOK
  <2>3. SoundAnswer' /\ \A h \in grants' : SoundToken(h)'
    BY <1>5 DEF Authorize, SoundAnswer, SoundToken
  <2> QED
    BY <1>a, <2>2, <2>3
<1>6. CASE Retrieve
  <2>1. token.scope.owner # Unset
    BY <1>6, UnsetAssumption DEF TypeOK, Token, Scope, Retrieve
  <2>2. PICK S \in SUBSET {x \in Objects : stored[x].owner = token.scope.owner} :
          candidates' = [x \in S |-> stored[x]]
    BY <1>6 DEF Retrieve, Found
  <2>3. \A x \in S : stored[x] \in AclsOf[x]
    BY <2>1, <2>2 DEF TypeOK, NotStored
  <2>4. TypeOK'
    BY <1>6, <2>2, <2>3 DEF Retrieve, TypeOK, NothingYet
  <2>5. SoundAnswer' /\ \A h \in grants' : SoundToken(h)'
    BY <1>6 DEF Retrieve, SoundAnswer, SoundToken
  <2> QED
    BY <1>a, <2>4, <2>5
<1>7. CASE CheckPermissions
  <2>1. permitted' \subseteq DOMAIN candidates
        /\ DOMAIN denials' = DOMAIN candidates \ permitted'
    BY <1>7 DEF CheckPermissions, Denials
  <2>2. TypeOK'
    BY <1>0, <1>7, <2>1 DEF CheckPermissions, TypeOK
  <2>3. SoundAnswer'
    BY <1>7, <2>1 DEF CheckPermissions, SoundAnswer
  <2>4. \A h \in grants' : SoundToken(h)'
    BY <1>7 DEF CheckPermissions, SoundToken
  <2> QED
    BY <1>a, <2>2, <2>3, <2>4
<1>8. CASE Return
  <2>1. TypeOK'
    BY <1>0, <1>8 DEF Return, TypeOK
  <2>2. SoundAnswer' /\ \A h \in grants' : SoundToken(h)'
    BY <1>8 DEF Return, SoundAnswer, SoundToken
  <2> QED
    BY <1>a, <2>1, <2>2
<1>9. CASE UNCHANGED vars
  <2>1. TypeOK'
    BY <1>9 DEF vars, query, TypeOK
  <2>2. SoundAnswer' /\ \A h \in grants' : SoundToken(h)'
    BY <1>9 DEF vars, query, SoundAnswer, SoundToken
  <2> QED
    BY <1>a, <2>1, <2>2
<1> QED
  BY <1>1, <1>2, <1>3, <1>4, <1>5, <1>6, <1>7, <1>8, <1>9 DEF Next

LEMMA InvariantHolds == Spec => []IInv
<1>1. IInv /\ [Next]_vars => IInv'
  BY NextIInv
<1> QED
  BY InitIInv, <1>1, PTL DEF Spec
-----------------------------------------------------------------------------
(* The theorems.                                                            *)

(* Every variable keeps its shape.                                          *)
THEOREM TypeCorrect == Spec => []TypeOK
<1>1. IInv => TypeOK
  BY DEF IInv
<1> QED
  BY InvariantHolds, <1>1, PTL

(* However the sum and the product of issue_grant_token wrap, a token can   *)
(* be used until the expiry its owner was told.                             *)
THEOREM TokensOutlastTheirScopes == Spec => []UsableUntilTold
<1>1. ASSUME IInv PROVE UsableUntilTold
  <2> SUFFICES ASSUME NEW g \in grants, now < g.scope.expires
               PROVE  InForce(g.exp)
    BY DEF UsableUntilTold
  <2>1. now \in Nat /\ g.exp \in Nat /\ g.scope.expires \in Nat
        /\ g.scope.expires <= g.exp * Second
    <3>1. now \in Nat /\ g \in Token
      BY <1>1, GrantAssumption DEF IInv, TypeOK
    <3>2. g.exp \in Nat
      BY <3>1, GrantAssumption DEF Token
    <3>3. Limits(g)
      BY <1>1 DEF IInv, SoundToken
    <3> QED
      BY <3>1, <3>2, <3>3 DEF Limits
  <2>2. g.exp * Second \in Nat
    BY <2>1, SecondsCount
  <2>3. now < g.exp * Second
    BY <2>1, <2>2
  <2>4. Secs(now) < g.exp /\ Secs(now) \in Nat
    BY <2>1, <2>3, BeforeTheSecond, SecsNatural
  <2> QED
    BY <2>1, <2>4, GrantAssumption DEF InForce
<1> QED
  BY InvariantHolds, <1>1, PTL

(* No grant outlives what was asked for it, whatever wraps: a candidate is  *)
(* permitted only before the deadline and before the requested expiry.      *)
THEOREM GrantsEndInTime == Spec => []NothingAfterTheDeadline
<1>1. ASSUME IInv PROVE NothingAfterTheDeadline
  <2> SUFFICES ASSUME pc = "answered", NEW x \in permitted
               PROVE  /\ checked < token.deadline
                      /\ token.request.expires # Unset => checked < token.request.expires
    BY DEF NothingAfterTheDeadline
  <2>1. token \in grants /\ token \in Token /\ checked \in Nat
    BY <1>1, GrantAssumption DEF IInv, TypeOK
  <2>2. permits(token.scope, candidates[x], checked)
    BY <1>1 DEF IInv, SoundAnswer
  <2>3. Limits(token)
    BY <1>1, <2>1 DEF IInv, SoundToken
  <2>4. ~Expired(token.scope, checked)
    BY <2>2, PermitsWhenAllowed DEF Allowed
  <2>5. checked < token.scope.expires
    BY <2>1, <2>3, <2>4, UnsetAssumption DEF Limits, Expired
  <2>6. token.request.expires \in Nat \cup {Unset} /\ token.deadline \in Nat
    BY <2>1, GrantAssumption DEF Token, Scope, Option
  <2> QED
    BY <2>1, <2>3, <2>5, <2>6 DEF Limits
<1> QED
  BY InvariantHolds, <1>1, PTL

(* What is cited was asked for, and the facts it was allowed by are those   *)
(* of the payload that is shown.                                            *)
THEOREM AnswersStayWithinGrants == Spec => []CitesWhatWasGranted
<1>1. ASSUME IInv PROVE CitesWhatWasGranted
  <2> SUFFICES ASSUME pc = "answered", NEW x \in permitted
               PROVE  permits(Always(token.request), candidates[x], checked)
    BY DEF CitesWhatWasGranted
  <2>1. token \in grants /\ token \in Token
    BY <1>1 DEF IInv, TypeOK
  <2>2. token.scope = [token.request EXCEPT !.expires = token.scope.expires]
    BY <1>1, <2>1 DEF IInv, SoundToken
  <2>3. permits(token.scope, candidates[x], checked)
    BY <1>1 DEF IInv, SoundAnswer
  <2>4. Allowed(token.scope, candidates[x], checked)
    BY <2>3, PermitsWhenAllowed
  <2>5. token.request \in Scope
    BY <2>1, GrantAssumption DEF Token
  <2>6. Allowed(Always(token.request), candidates[x], checked)
    BY <2>2, <2>4, <2>5 DEF Allowed, Always, Expired, Outside, Scope
  <2> QED
    BY <2>6, PermitsWhenAllowed
<1> QED
  BY InvariantHolds, <1>1, PTL

(* A denial has a cause in what was asked, as long as the deadline fits the *)
(* numbers of the gateway.                                                  *)
THEOREM DenialsHaveACause == Spec => []DeniedForCause
<1>1. ASSUME IInv PROVE DeniedForCause
  <2> SUFFICES ASSUME pc = "answered", token.deadline < Width, NEW x \in DOMAIN denials,
                      permits(token.request, candidates[x], checked)
               PROVE  checked >= token.deadline
    BY DEF DeniedForCause
  <2>1. token \in grants /\ token \in Token /\ checked \in Nat
    BY <1>1, GrantAssumption DEF IInv, TypeOK
  <2>2. token.scope = [token.request EXCEPT !.expires = token.scope.expires] /\ Limits(token)
    BY <1>1, <2>1 DEF IInv, SoundToken
  <2>3. ~Allowed(token.scope, candidates[x], checked)
    BY <1>1, PermitsWhenAllowed DEF IInv, SoundAnswer
  <2>4. Allowed(token.request, candidates[x], checked)
    BY PermitsWhenAllowed
  <2>5. token.request \in Scope
    BY <2>1, GrantAssumption DEF Token
  <2>6. Expired(token.scope, checked)
    BY <2>2, <2>3, <2>4, <2>5 DEF Allowed, Outside, Scope
  <2>7. token.request.expires \in Nat \cup {Unset} /\ token.deadline \in Nat
    BY <2>1, <2>5 DEF Token, Scope, Option
  <2>8. checked >= token.scope.expires /\ token.scope.expires \in Nat
    BY <2>1, <2>2, <2>6, UnsetAssumption DEF Expired, Limits
  <2>9. token.request.expires # Unset => checked < token.request.expires
    BY <2>1, <2>4, <2>7, UnsetAssumption DEF Allowed, Expired
  <2> QED
    BY <2>1, <2>2, <2>7, <2>8, <2>9 DEF Limits
<1> QED
  BY InvariantHolds, <1>1, PTL
=============================================================================
