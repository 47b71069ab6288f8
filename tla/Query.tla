-------------------------------- MODULE Query --------------------------------
(***************************************************************************)
(* An owner grants an agent a scope for a time, and the agent asks.        *)
(*                                                                         *)
(* The gateway mints session and grant tokens (middleware/session.rs,      *)
(* middleware/grant.rs, routes/memory.rs) and keeps nothing: all it knows  *)
(* of a grant is in the token, which any agent that has it may use again.  *)
(* The query graph (graphs/query.py) turns a token into a scope, retrieves *)
(* without regard to it, checks each candidate and answers, while the      *)
(* clock runs and ingestion replaces the stored objects.  Queries share    *)
(* nothing but the tokens and the store, so one query is enough.           *)
(*                                                                         *)
(* An object is its access control facts here; what it says, and how well  *)
(* it matches a question, are left out.                                    *)
(***************************************************************************)
EXTENDS Permissions, FiniteSets

CONSTANTS
  Objects,
  AclsOf,      \* object -> the access control facts ingestion may write it with
  Requests,    \* scopes an owner may ask a grant for, the agent's name not blank
  Ttls,        \* ttl_secs of the requests
  SessionTtl,  \* SESSION_TTL_SECS
  Leeway,      \* seconds the token library tolerates after exp
  Second,      \* clock units in a second
  Width,       \* the numbers of the gateway are below it
  TopK,        \* candidates of one query
  MaxTime,     \* bound: the clock stops there
  MaxSessions, \* bound: sessions opened
  MaxGrants    \* bound: tokens minted

ASSUME GrantAssumption ==
  /\ AclsOf \in [Objects -> SUBSET ObjectAcl]
  /\ \A x \in Objects : \A a, b \in AclsOf[x] : a.owner = b.owner
  /\ Requests \subseteq Scope
  /\ Ttls \subseteq Nat
  /\ SessionTtl \in Nat /\ Leeway \in Nat
  /\ Second \in Nat \ {0} /\ Width \in Nat \ {0}
  /\ TopK \in Nat /\ MaxTime \in Nat /\ MaxSessions \in Nat /\ MaxGrants \in Nat

VARIABLES
  now,        \* the clock
  stored,     \* store: object -> its access control facts
  sessions,   \* session tokens minted
  grants,     \* grant tokens minted, each with the request it was minted for
  pc,         \* where the query is
  token,      \* the token of the query
  candidates, \* object -> what was retrieved of it
  permitted,  \* the candidates the check allowed
  denials,    \* the other candidates -> the reason
  checked     \* when the check was made

query == <<pc, token, candidates, permitted, denials, checked>>
vars == <<now, stored, sessions, grants, query>>

-----------------------------------------------------------------------------
(* Tokens.                                                                  *)

Secs(t) == t \div Second

(* Mutant: the leeway shortens the life of a token.                         *)
InForceEarly(exp) == Secs(now) + Leeway < exp

(* The token library accepts a token until its exp and some leeway.         *)
InForce(exp) == Secs(now) <= exp + Leeway

RequireSession(session) == InForce(session.exp)

(* scope_introspect: a token in force resolves to the scope in it.          *)
Introspect(g) == InForce(g.exp)

Earlier(a, b) == IF a < b THEN a ELSE b

(* Mutant: the expiry of the request is replaced.                           *)
ScopeForTtl(request, exp) == [request EXCEPT !.expires = (exp * Second) % Width]

(* Mutant: the expiry in seconds.                                           *)
ScopeInSeconds(request, exp) ==
  [request EXCEPT !.expires = IF @ = Unset THEN exp ELSE Earlier(@, exp)]

(* The scope in the token: it expires with the token or as it was asked to, *)
(* whichever comes first.                                                   *)
ScopeUntil(request, exp) ==
  LET limit == (exp * Second) % Width
  IN  [request EXCEPT !.expires = IF @ = Unset THEN limit ELSE Earlier(@, limit)]

(* issue_grant_token: the numbers wrap.  The token is scope and exp; what   *)
(* it was minted for is kept for the properties.                            *)
GrantToken(request, ttl) ==
  LET exp == (Secs(now) + ttl) % Width
  IN  [scope |-> ScopeUntil(request, exp), exp |-> exp,
       request |-> request, deadline |-> (Secs(now) + ttl) * Second]

NotStored == [owner |-> Unset]
NoToken == [scope |-> Unset]

-----------------------------------------------------------------------------
Init ==
  /\ now = 0
  /\ stored = [x \in Objects |-> NotStored]
  /\ sessions = {}
  /\ grants = {}
  /\ pc = "idle"
  /\ token = NoToken
  /\ candidates = <<>> /\ permitted = {} /\ denials = <<>>
  /\ checked = 0

Tick ==
  /\ now < MaxTime
  /\ now' = now + 1
  /\ UNCHANGED <<stored, sessions, grants, query>>

(* Ingestion upserts an object, facts and all.                              *)
Write(x) ==
  /\ stored' \in {[stored EXCEPT ![x] = a] : a \in AclsOf[x]}
  /\ UNCHANGED <<now, sessions, grants, query>>

(* issue_session_token, for an owner whose identity was verified.           *)
OpenSession(owner) ==
  /\ Cardinality(sessions) < MaxSessions
  /\ sessions' = sessions \cup {[owner |-> owner, exp |-> (Secs(now) + SessionTtl) % Width]}
  /\ UNCHANGED <<now, stored, grants, query>>

(* scope_grant: under a session in force, over the owner's own memory.      *)
Grant(session, request, ttl) ==
  /\ Cardinality(grants) < MaxGrants
  /\ RequireSession(session)
  /\ request.owner = session.owner
  /\ grants' = grants \cup {GrantToken(request, ttl)}
  /\ UNCHANGED <<now, stored, sessions, query>>

(* authorize: scope_introspect decodes the token; one that has run out ends *)
(* the query with an error.                                                 *)
Authorize(g) ==
  /\ pc = "idle"
  /\ Introspect(g)
  /\ token' = g
  /\ pc' = "retrieve"
  /\ UNCHANGED <<now, stored, sessions, grants, candidates, permitted, denials, checked>>

(* vector_search: the index looks at everybody's objects, so what it finds  *)
(* of one owner's may be any of them.                                       *)
Found(owner) ==
  {S \in SUBSET {x \in Objects : stored[x].owner = owner} : Cardinality(S) <= TopK}

(* retrieve: some of the owner's objects, whatever the scope says; the      *)
(* second query of the retriever only orders them.                          *)
Retrieve ==
  /\ pc = "retrieve"
  /\ \E S \in Found(token.scope.owner) : candidates' = [x \in S |-> stored[x]]
  /\ pc' = "check"
  /\ UNCHANGED <<now, stored, sessions, grants, token, permitted, denials, checked>>

(* Mutant: a denial leaves no trace.                                        *)
NoDenials(S, acl) == <<>>

(* Every candidate that is not permitted is denied for a reason.            *)
Denials(S, acl) == [x \in S |-> evaluate(token.scope, acl[x], now)]

(* Mutant: the check looks at the store again.                              *)
CheckTheStore ==
  /\ pc = "check"
  /\ permitted' = {x \in DOMAIN candidates : permits(token.scope, stored[x], now)}
  /\ denials' = Denials(DOMAIN candidates \ permitted', stored)
  /\ checked' = now
  /\ pc' = "answered"
  /\ UNCHANGED <<now, stored, sessions, grants, token, candidates>>

(* check_permissions: what was retrieved is checked against the scope of    *)
(* the token.  The answer is assembled from that: the permitted candidates  *)
(* are cited, and if there is none the query declines with the reasons.     *)
CheckPermissions ==
  /\ pc = "check"
  /\ permitted' = {x \in DOMAIN candidates : permits(token.scope, candidates[x], now)}
  /\ denials' = Denials(DOMAIN candidates \ permitted', candidates)
  /\ checked' = now
  /\ pc' = "answered"
  /\ UNCHANGED <<now, stored, sessions, grants, token, candidates>>

Return ==
  /\ pc = "answered"
  /\ pc' = "idle"
  /\ token' = NoToken
  /\ candidates' = <<>> /\ permitted' = {} /\ denials' = <<>>
  /\ checked' = 0
  /\ UNCHANGED <<now, stored, sessions, grants>>

Next ==
  \/ Tick
  \/ \E x \in Objects : Write(x)
  \/ \E owner \in Owners : OpenSession(owner)
  \/ \E session \in sessions, request \in Requests, ttl \in Ttls :
       Grant(session, request, ttl)
  \/ \E g \in grants : Authorize(g)
  \/ Retrieve \/ CheckPermissions \/ Return

Spec == Init /\ [][Next]_vars

-----------------------------------------------------------------------------
(* Properties.                                                              *)

Token == [scope : Scope, exp : 0..(Width - 1),
          request : Requests, deadline : Nat]

(* The shape of every variable.                                             *)
TypeOK ==
  /\ now \in 0..MaxTime
  /\ DOMAIN stored = Objects
  /\ \A x \in Objects : stored[x] \in AclsOf[x] \cup {NotStored}
  /\ sessions \subseteq [owner : Owners, exp : 0..(Width - 1)]
  /\ grants \subseteq Token
  /\ pc \in {"idle", "retrieve", "check", "answered"}
  /\ token \in grants \cup {NoToken}
  /\ token = NoToken <=> pc = "idle"
  /\ DOMAIN candidates \subseteq Objects
  /\ \A x \in DOMAIN candidates : candidates[x] \in AclsOf[x]
  /\ permitted \subseteq DOMAIN candidates
  /\ pc = "answered" => DOMAIN denials = DOMAIN candidates \ permitted
  /\ checked \in 0..now

Always(request) == [request EXCEPT !.expires = Unset]

(* What an answer cites was within what the owner asked the grant for, as   *)
(* it was when it was retrieved: the payload shown and the facts checked    *)
(* are of one read, whatever ingestion wrote since (query.py, "structurally *)
(* impossible for the assembler to see a candidate that was not checked").  *)
CitesWhatWasGranted ==
  pc = "answered" =>
    \A x \in permitted : permits(Always(token.request), candidates[x], checked)

(* Nothing is allowed once the time of the grant is over, counted without   *)
(* leeway and without wrapping, nor past the expiry the owner asked for     *)
(* ("The scope's own expiry is what the permission check enforces per       *)
(* object", grant.rs).                                                      *)
NothingAfterTheDeadline ==
  (pc = "answered" /\ permitted # {}) =>
    /\ checked < token.deadline
    /\ token.request.expires # Unset => checked < token.request.expires

(* Until the expiry the owner was told, the token can be used: the token    *)
(* itself does not run out first, wherever the numbers wrapped.             *)
UsableUntilTold == \A g \in grants : now < g.scope.expires => InForce(g.exp)

(* A denial has a cause in what was asked: an object the request covers is  *)
(* cited as long as the time lasts, if the deadline fits the gateway's      *)
(* numbers.                                                                 *)
DeniedForCause ==
  (pc = "answered" /\ token.deadline < Width) =>
    \A x \in DOMAIN denials :
      \/ ~permits(token.request, candidates[x], checked)
      \/ checked >= token.deadline
=============================================================================
