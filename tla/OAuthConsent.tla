----------------------------- MODULE OAuthConsent -----------------------------
(***************************************************************************)
(* Connecting a source: the gateway's consent flow (gateway/src/routes/    *)
(* auth.rs, middleware/oauth_state.rs, store/), the exchange in the        *)
(* enclave (enclave/src/routes/oauth.rs, services/identity.rs), and the    *)
(* user and the provider around them.                                      *)
(*                                                                         *)
(* A flow is one /auth/authorize: a fresh state id, its PKCE verifier kept *)
(* in the memory of the gateway, a signed state token in the browser.  The *)
(* user may consent more than once on one consent page, each consent being *)
(* a code for one account; the browser may deliver a callback any number   *)
(* of times.  A callback handler runs up to its next await in one step;    *)
(* it may be dropped at any await (an error, the ten seconds of the        *)
(* enclave client, a closed connection).                                   *)
(***************************************************************************)
EXTENDS Naturals, Sequences, FiniteSets

CONSTANTS
  Flows,       \* state ids
  Handlers,    \* callback handlers that may run at a time
  Users,
  Accounts,    \* provider accounts; the account an owner id is derived from
  Providers,
  ProviderOf,  \* account -> provider
  UserOf,      \* account -> the user it belongs to
  Primary,     \* the provider verify looks at first
  TTL,         \* oauth_state_ttl_secs
  MaxTime,     \* bound: seconds
  MaxRestarts, \* bound: restarts of the gateway
  MaxLogins,   \* bound: different sessions from /auth/session
  Nobody       \* neither a flow nor an account

ASSUME ConsentAssumption ==
  /\ ProviderOf \in [Accounts -> Providers]
  /\ UserOf \in [Accounts -> Users]
  /\ Primary \in Providers
  /\ TTL \in Nat \ {0}
  /\ MaxTime \in Nat /\ MaxRestarts \in Nat /\ MaxLogins \in Nat
  /\ Nobody \notin Flows \cup Accounts \cup Providers

VARIABLES
  time,      \* the clock of the host, in seconds
  state,     \* flow -> the claims of its state token
  told,      \* flow -> expires_at of the authorize response, 0 before it
  pending,   \* PendingAuthStore: flow -> expires_at_secs, for those it holds
  codes,     \* provider: the codes given, <<flow, account>>
  minted,    \* provider: the codes exchanged, one refresh token each, in order
  handler,   \* handler -> where it is and what it holds
  rows,      \* SealedTokenStore: <<owner, provider>> -> place in minted, or 0
  sessions,  \* the sessions handed out: user, owner, provider, token
  used,      \* history: flows whose pending entry a callback took
  lost,      \* history: flows whose server side half a restart dropped
  restarts   \* restarts so far

vars == <<time, state, told, pending, codes, minted, handler, rows, sessions,
          used, lost, restarts>>
gateway == <<state, told, pending>>
history == <<used, lost, restarts>>

-----------------------------------------------------------------------------
Idle == [at |-> "idle", flow |-> Nobody, account |-> Nobody, token |-> 0]

(* A state token is valid up to and including the second of its exp         *)
(* (jsonwebtoken, no leeway), a pending entry only before its own.          *)
ValidState(f) == time <= state[f].exp

(* Mutant: the same comparison as for the state token.                      *)
LiveThrough(f) == time <= pending[f]

Live(f) == time < pending[f]

(* What validate_state and take let pass.                                   *)
Open(f) == ValidState(f) /\ f \in DOMAIN pending /\ Live(f)

(* derive_owner_id: the first signal names the owner, and verify puts the   *)
(* account of the primary provider first.                                   *)
OwnerOf(accounts) ==
  CHOOSE a \in accounts :
    ProviderOf[a] = Primary \/ \A b \in accounts : ProviderOf[b] # Primary

Session(accounts, p, token) ==
  [user |-> UserOf[OwnerOf(accounts)], owner |-> OwnerOf(accounts),
   provider |-> p, token |-> token]

-----------------------------------------------------------------------------
Init ==
  /\ time = 1
  /\ state = [f \in Flows |-> [provider |-> Nobody, exp |-> 0]]
  /\ told = [f \in Flows |-> 0]
  /\ pending = <<>>
  /\ codes = {}
  /\ minted = <<>>
  /\ handler = [h \in Handlers |-> Idle]
  /\ rows = [k \in Accounts \X Providers |-> 0]
  /\ sessions = {}
  /\ used = {}
  /\ lost = {}
  /\ restarts = 0

(* authorize: issue_state reads the clock for the exp of the token ...      *)
Issue(f, p) ==
  /\ state[f].exp = 0
  /\ state' = [state EXCEPT ![f] = [provider |-> p, exp |-> time + TTL]]
  /\ UNCHANGED <<time, told, pending, codes, minted, handler, rows, sessions, history>>

(* Issued, and the authorize handler has still to insert the pending entry. *)
Authorizing(f) == state[f].exp # 0 /\ told[f] = 0 /\ f \notin lost

(* Mutant: the pending entry takes its expiry from the state token.         *)
InsertionAsIssued(f, kept) ==
  /\ Authorizing(f)
  /\ told' = [told EXCEPT ![f] = time + TTL]
  /\ pending' = [g \in kept \cup {f} |-> IF g = f THEN state[f].exp ELSE pending[g]]
  /\ UNCHANGED <<time, state, codes, minted, handler, rows, sessions, history>>

(* The pending entry of f joins those that are kept.                        *)
Insertion(f, kept) ==
  /\ Authorizing(f)
  /\ told' = [told EXCEPT ![f] = time + TTL]
  /\ pending' = [g \in kept \cup {f} |-> IF g = f THEN time + TTL ELSE pending[g]]
  /\ UNCHANGED <<time, state, codes, minted, handler, rows, sessions, history>>

(* ... then reads it again for the expiry of the response and of the        *)
(* pending entry; the insertion drops the entries that have expired.        *)
Insert(f) == Insertion(f, {g \in DOMAIN pending : Live(g)})

(* The user consents, at the provider, for one account.                     *)
Consent(f, a) ==
  /\ told[f] # 0
  /\ ProviderOf[a] = state[f].provider
  /\ codes' = codes \cup {<<f, a>>}
  /\ UNCHANGED <<time, gateway, minted, handler, rows, sessions, history>>

(* Mutant: the pending entry is read and left in the store.                 *)
CallbackPeeks(h, code) ==
  LET f == code[1] IN
  /\ handler[h] = Idle
  /\ Open(f)
  /\ handler' = [handler EXCEPT ![h] = [at |-> "exchange", flow |-> f,
                                        account |-> code[2], token |-> 0]]
  /\ used' = used \cup {f}
  /\ UNCHANGED <<time, gateway, codes, minted, rows, sessions, lost, restarts>>

(* callback, up to the call on the enclave: the state is validated and the  *)
(* pending entry removed, even one that has expired.                        *)
Callback(h, code) ==
  LET f == code[1] IN
  /\ handler[h] = Idle
  /\ ValidState(f)
  /\ pending' = [g \in DOMAIN pending \ {f} |-> pending[g]]
  /\ IF Open(f)
     THEN /\ handler' = [handler EXCEPT ![h] = [at |-> "exchange", flow |-> f,
                                                account |-> code[2], token |-> 0]]
          /\ used' = used \cup {f}
     ELSE UNCHANGED <<handler, used>>
  /\ UNCHANGED <<time, state, told, codes, minted, rows, sessions, lost, restarts>>

(* The provider accepts a code once.                                        *)
Redeem(f, a) ==
  /\ \A i \in 1..Len(minted) : minted[i] # <<f, a>>
  /\ minted' = Append(minted, <<f, a>>)

(* exchange, in the enclave: the code is exchanged, the account verified    *)
(* with the access token, the refresh token sealed for the owner.  Google,  *)
(* the primary provider, is asked to issue a refresh token every time;      *)
(* another may issue none, and then there is nothing to store.              *)
Exchange(h) ==
  /\ handler[h].at = "exchange"
  /\ Redeem(handler[h].flow, handler[h].account)
  /\ \E token \in {Len(minted) + 1, 0} :
       /\ ProviderOf[handler[h].account] = Primary => token # 0
       /\ handler' = [handler EXCEPT ![h].at = IF token # 0 THEN "store" ELSE "answer",
                                     ![h].token = token]
  /\ UNCHANGED <<time, gateway, codes, rows, sessions, history>>

(* Mutant: the token is stored under an owner of the user's, not the one    *)
(* the enclave derived from the account.                                    *)
UpsertForUser(h) ==
  LET a == handler[h].account IN
  /\ handler[h].at = "store"
  /\ rows' = [rows EXCEPT ![<<OwnerOf({b \in Accounts : UserOf[b] = UserOf[a]}),
                              ProviderOf[a]>>] = handler[h].token]
  /\ handler' = [handler EXCEPT ![h].at = "answer"]
  /\ UNCHANGED <<time, gateway, codes, minted, sessions, history>>

(* tokens.upsert: the row of the owner and the provider is replaced.        *)
Upsert(h) ==
  LET a == handler[h].account IN
  /\ handler[h].at = "store"
  /\ rows' = [rows EXCEPT ![<<OwnerOf({a}), ProviderOf[a]>>] = handler[h].token]
  /\ handler' = [handler EXCEPT ![h].at = "answer"]
  /\ UNCHANGED <<time, gateway, codes, minted, sessions, history>>

(* The response carries a session for the owner of the account.             *)
Answer(h) ==
  LET a == handler[h].account IN
  /\ handler[h].at = "answer"
  /\ sessions' = sessions \cup {Session({a}, ProviderOf[a], handler[h].token)}
  /\ handler' = [handler EXCEPT ![h] = Idle]
  /\ UNCHANGED <<time, gateway, codes, minted, rows, history>>

(* The handler ends at an await: an error or a timeout of the enclave or    *)
(* the store, or its connection closed.  The enclave may have exchanged the *)
(* code all the same; its refresh token is then in nobody's hands.          *)
Abandon(h) ==
  /\ handler[h] # Idle
  /\ \/ handler[h].at = "exchange" /\ Redeem(handler[h].flow, handler[h].account)
     \/ UNCHANGED minted
  /\ handler' = [handler EXCEPT ![h] = Idle]
  /\ UNCHANGED <<time, gateway, codes, rows, sessions, history>>

(* /auth/session: the user presents tokens of one or more accounts, one for *)
(* each provider at most.                                                   *)
Login(u) ==
  /\ Cardinality({s \in sessions : s.provider = Nobody}) < MaxLogins
  /\ \E accounts \in (SUBSET {a \in Accounts : UserOf[a] = u}) \ {{}} :
       /\ \A a, b \in accounts : ProviderOf[a] = ProviderOf[b] => a = b
       /\ sessions' = sessions \cup {Session(accounts, Nobody, 0)}
  /\ UNCHANGED <<time, gateway, codes, minted, handler, rows, history>>

(* The gateway restarts: the pending entries and the handlers were memory.  *)
(* The rows are those of PostgresTokenStore.                                *)
Restart ==
  /\ restarts < MaxRestarts
  /\ restarts' = restarts + 1
  /\ lost' = lost \cup DOMAIN pending \cup {f \in Flows : Authorizing(f)}
  /\ pending' = <<>>
  /\ handler' = [h \in Handlers |-> Idle]
  /\ UNCHANGED <<time, state, told, codes, minted, rows, sessions, used>>

(* Between the two readings of the clock in authorize there is no await:    *)
(* at most one second ends there.                                           *)
Tick ==
  /\ time < MaxTime
  /\ \A f \in Flows : Authorizing(f) => state[f].exp = time + TTL
  /\ time' = time + 1
  /\ UNCHANGED <<gateway, codes, minted, handler, rows, sessions, history>>

Next ==
  \/ \E f \in Flows : Insert(f) \/ \E p \in Providers : Issue(f, p)
  \/ \E f \in Flows, a \in Accounts : Consent(f, a)
  \/ \E h \in Handlers :
       \/ \E code \in codes : Callback(h, code)
       \/ Exchange(h) \/ Upsert(h) \/ Answer(h) \/ Abandon(h)
  \/ \E u \in Users : Login(u)
  \/ Restart \/ Tick

Spec == Init /\ [][Next]_vars

-----------------------------------------------------------------------------
(* Properties.                                                              *)

(* The shape of every variable.                                             *)
TypeOK ==
  /\ time \in 1..(MaxTime + 1)
  /\ state \in [Flows -> [provider : Providers \cup {Nobody}, exp : Nat]]
  /\ told \in [Flows -> Nat]
  /\ DOMAIN pending \subseteq Flows
  /\ \A f \in DOMAIN pending : pending[f] = told[f] /\ told[f] # 0
  /\ codes \subseteq Flows \X Accounts
  /\ minted \in Seq(codes)
  /\ \A h \in Handlers : handler[h] = Idle \/
       /\ handler[h].at \in {"exchange", "store", "answer"}
       /\ <<handler[h].flow, handler[h].account>> \in codes
       /\ handler[h].token \in 0..Len(minted)
  /\ rows \in [Accounts \X Providers -> 0..Len(minted)]
  /\ \A s \in sessions : s.owner \in Accounts /\ s.token \in 0..Len(minted)
  /\ used \cup lost \subseteq Flows
  /\ restarts \in 0..MaxRestarts

(* Of the codes of one flow at most one is ever exchanged, however often    *)
(* its callbacks are delivered, whatever runs at the same time and across   *)
(* restarts ("validated and consumed before the code goes anywhere").       *)
OneExchangePerFlow ==
  \A i, j \in 1..Len(minted) : minted[i][1] = minted[j][1] => i = j

(* A callback gets through exactly until the time authorize told its        *)
(* caller, unless the flow was used or a restart dropped it: two readings   *)
(* of the clock, two notions of expiry and the pruning by other insertions  *)
(* neither close a flow early nor leave it open for longer.                 *)
OpenUntilTold ==
  \A f \in Flows : told[f] # 0 =>
    (Open(f) <=> time < told[f] /\ f \notin used \cup lost)

(* The refresh token in a row was issued for the account the owner id is    *)
(* derived from and by the provider of the row; and a callback that hands   *)
(* out a session has stored the token that was issued, whatever the         *)
(* handlers of other callbacks do.                                          *)
RowsHoldTheirOwnTokens ==
  /\ \A owner \in Accounts, p \in Providers : rows[<<owner, p>>] # 0 =>
       LET code == minted[rows[<<owner, p>>]]
       IN  code[2] = owner /\ state[code[1]].provider = p
  /\ \A s \in sessions : s.token # 0 => rows[<<s.owner, s.provider>>] # 0
=============================================================================
