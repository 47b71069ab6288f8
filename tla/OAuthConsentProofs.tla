-------------------------- MODULE OAuthConsentProofs --------------------------
(***************************************************************************)
(* Theorems about OAuthConsent, for every set of flows, handlers, users,   *)
(* accounts and providers, every lifetime of a state and every bound.      *)
(***************************************************************************)
EXTENDS OAuthConsent, TLAPS

-----------------------------------------------------------------------------
(* The inductive invariant.                                                 *)

(* What a handler may hold.                                                 *)
Held == [at : {"idle", "exchange", "store", "answer"}, flow : Flows \cup {Nobody},
         account : Accounts \cup {Nobody}, token : Nat]

HeldOK(x) ==
  /\ x \in Held
  /\ x = Idle \/ /\ x.at \in {"exchange", "store", "answer"}
                 /\ <<x.flow, x.account>> \in codes
                 /\ x.token \in 0..Len(minted)

(* The clocks of a flow.  Between issue_state and the insertion at most one *)
(* second ends; so the response promises at most one second more than the   *)
(* state token lasts, and the token is valid through its last second.       *)
ClocksAgree ==
  \A f \in Flows :
    /\ Authorizing(f) => time + TTL <= state[f].exp + 1
    /\ told[f] # 0 => state[f].exp # 0 /\ told[f] <= state[f].exp + 1

(* A flow leaves the store when a callback uses it or a restart loses it;   *)
(* other than that only once its time is over.                              *)
PendingUntilTaken ==
  /\ \A f \in DOMAIN pending : f \notin used \cup lost
  /\ \A f \in used : told[f] # 0
  /\ \A f \in Flows :
       (told[f] # 0 /\ f \notin used \cup lost /\ time < told[f]) => f \in DOMAIN pending

(* A code belongs to a flow whose provider no longer changes.               *)
CodesOfTheProvider ==
  \A f \in Flows, a \in Accounts : <<f, a>> \in codes =>
    told[f] # 0 /\ state[f].provider = ProviderOf[a]

(* A flow in the hands of a handler, or exchanged, was taken; and a handler *)
(* that has still to exchange its code is alone with its flow.              *)
HandlersTakeTurns ==
  /\ \A i \in 1..Len(minted) : minted[i][1] \in used
  /\ \A h \in Handlers : handler[h].at = "exchange" =>
       /\ handler[h].flow \in used
       /\ \A i \in 1..Len(minted) : minted[i][1] # handler[h].flow
       /\ \A g \in Handlers \ {h} :
            handler[g].at = "exchange" => handler[g].flow # handler[h].flow

(* A handler past the exchange holds the token of its own code; one that is *)
(* to answer with a token has stored one for the account.                   *)
HandlersHoldTheirOwn ==
  \A h \in Handlers :
    /\ handler[h].at = "store" => handler[h].token # 0
    /\ handler[h].at \in {"store", "answer"} /\ handler[h].token # 0 =>
         minted[handler[h].token] = <<handler[h].flow, handler[h].account>>
    /\ handler[h].at = "answer" /\ handler[h].token # 0 =>
         rows[<<handler[h].account, ProviderOf[handler[h].account]>>] # 0

(* A session that carries a token names the provider that issued it.        *)
SessionsNameTheProvider == \A s \in sessions : s.token # 0 => s.provider \in Providers

IInv ==
  /\ TypeOK
  /\ handler \in [Handlers -> Held]
  /\ ClocksAgree
  /\ PendingUntilTaken
  /\ CodesOfTheProvider
  /\ HandlersTakeTurns
  /\ HandlersHoldTheirOwn
  /\ SessionsNameTheProvider
  /\ OneExchangePerFlow
  /\ RowsHoldTheirOwnTokens

-----------------------------------------------------------------------------
(* The operators of the model.                                              *)

(* The owner id is derived from one of the accounts that were presented,    *)
(* and from the account itself when there is one.                           *)
LEMMA OwnerIsPresented ==
  ASSUME NEW accounts \in SUBSET Accounts, accounts # {}
  PROVE  OwnerOf(accounts) \in accounts
<1>1. \E a \in accounts : ProviderOf[a] = Primary \/ \A b \in accounts : ProviderOf[b] # Primary
  OBVIOUS
<1>. QED BY <1>1 DEF OwnerOf

LEMMA OwnerOfOne ==
  ASSUME NEW a \in Accounts
  PROVE  OwnerOf({a}) = a
BY OwnerIsPresented

(* A token that was minted keeps its place.                                 *)
LEMMA MintedStays ==
  ASSUME NEW S, NEW s \in Seq(S), NEW x \in S
  PROVE  /\ Append(s, x) \in Seq(S)
         /\ Len(Append(s, x)) = Len(s) + 1 /\ Len(s) \in Nat
         /\ \A i \in 1..Len(s) : Append(s, x)[i] = s[i]
         /\ Append(s, x)[Len(s) + 1] = x
OBVIOUS

-----------------------------------------------------------------------------
(* Every action keeps the invariant.                                        *)

LEMMA InitIInv == Init => IInv
<1>. SUFFICES ASSUME Init PROVE IInv
  OBVIOUS
<1>1. TypeOK /\ handler \in [Handlers -> Held]
  BY ConsentAssumption DEF Init, TypeOK, Idle, Held
<1>2. ClocksAgree /\ PendingUntilTaken /\ CodesOfTheProvider
  BY DEF Init, ClocksAgree, PendingUntilTaken, CodesOfTheProvider, Authorizing
<1>3. HandlersTakeTurns /\ HandlersHoldTheirOwn /\ OneExchangePerFlow /\ RowsHoldTheirOwnTokens
      /\ SessionsNameTheProvider
  BY DEF Init, SessionsNameTheProvider, HandlersTakeTurns, HandlersHoldTheirOwn, OneExchangePerFlow,
         RowsHoldTheirOwnTokens, Idle
<1>. QED BY <1>1, <1>2, <1>3 DEF IInv

LEMMA IssueIInv ==
  ASSUME IInv, NEW f \in Flows, NEW p \in Providers, Issue(f, p)
  PROVE  IInv'
<1>. USE DEF IInv, gateway, history
<1>1. told[f] = 0 /\ time \in Nat /\ TTL \in Nat /\ TTL # 0
  BY ConsentAssumption DEF TypeOK, ClocksAgree, Issue
<1>2. \A g \in Flows : g # f => state'[g] = state[g]
  BY DEF TypeOK, Issue
<1>3. state'[f].exp = time + TTL
  BY DEF TypeOK, Issue
<1>4. TypeOK' /\ (handler \in [Handlers -> Held])'
  BY <1>1 DEF TypeOK, Issue
<1>5. ClocksAgree'
  BY <1>1, <1>2, <1>3 DEF ClocksAgree, Authorizing, Issue, TypeOK
<1>6. PendingUntilTaken' /\ HandlersTakeTurns' /\ HandlersHoldTheirOwn' /\ OneExchangePerFlow'
      /\ SessionsNameTheProvider'
  BY DEF SessionsNameTheProvider, PendingUntilTaken, HandlersTakeTurns, HandlersHoldTheirOwn, OneExchangePerFlow, Issue
<1>7. CodesOfTheProvider'
  BY <1>1, <1>2 DEF CodesOfTheProvider, Issue
<1>8. RowsHoldTheirOwnTokens'
  <2>. SUFFICES ASSUME NEW owner \in Accounts, NEW q \in Providers, rows[<<owner, q>>] # 0
                PROVE  LET code == minted[rows[<<owner, q>>]]
                       IN  code[2] = owner /\ state'[code[1]].provider = q
    BY DEF RowsHoldTheirOwnTokens, Issue
  <2>. DEFINE code == minted[rows[<<owner, q>>]]
  <2>1. code[2] = owner /\ state[code[1]].provider = q
    BY DEF RowsHoldTheirOwnTokens
  <2>2. rows[<<owner, q>>] \in 1..Len(minted)
    BY DEF TypeOK
  <2>3. code \in codes /\ codes \subseteq Flows \X Accounts
    BY <2>2 DEF TypeOK
  <2>4. told[code[1]] # 0
    BY <2>3 DEF CodesOfTheProvider
  <2>. QED BY <2>1, <2>3, <2>4, <1>1, <1>2
<1>. QED BY <1>4, <1>5, <1>6, <1>7, <1>8

LEMMA InsertIInv ==
  ASSUME IInv, NEW f \in Flows, Insert(f)
  PROVE  IInv'
<1>. USE DEF IInv, gateway, history
<1>. DEFINE kept == {g \in DOMAIN pending : Live(g)}
<1>1. /\ Authorizing(f) /\ told' = [told EXCEPT ![f] = time + TTL]
      /\ pending' = [g \in kept \cup {f} |-> IF g = f THEN time + TTL ELSE pending[g]]
      /\ UNCHANGED <<time, state, codes, minted, handler, rows, sessions, history>>
  BY DEF Insert, Insertion
<1>. HIDE DEF kept
<1>2. time \in Nat /\ TTL \in Nat /\ TTL # 0 /\ told[f] = 0 /\ f \notin used \cup lost
  BY <1>1, ConsentAssumption DEF TypeOK, PendingUntilTaken, Authorizing
<1>3. told'[f] = time + TTL /\ \A g \in Flows : g # f => told'[g] = told[g]
  BY <1>1 DEF TypeOK
<1>4. DOMAIN pending' = kept \cup {f} /\ kept \subseteq DOMAIN pending /\ f \notin kept
  BY <1>1, <1>2 DEF kept, TypeOK
<1>5. TypeOK' /\ (handler \in [Handlers -> Held])'
  <2>1. \A g \in DOMAIN pending' : pending'[g] = told'[g] /\ told'[g] # 0
    BY <1>1, <1>2, <1>3, <1>4 DEF TypeOK
  <2>. QED BY <1>1, <1>2, <1>4, <2>1 DEF TypeOK
<1>6. ClocksAgree'
  BY <1>1, <1>2, <1>3 DEF ClocksAgree, Authorizing, TypeOK
<1>7. PendingUntilTaken'
  <2>1. \A g \in DOMAIN pending' : g \notin used \cup lost
    BY <1>2, <1>4 DEF PendingUntilTaken
  <2>2. \A g \in used : told'[g] # 0
    BY <1>2, <1>3 DEF PendingUntilTaken, TypeOK
  <2>3. ASSUME NEW g \in Flows, told'[g] # 0, g \notin used \cup lost, time < told'[g]
        PROVE  g \in DOMAIN pending'
    BY <2>3, <1>3, <1>4 DEF PendingUntilTaken, TypeOK, kept, Live
  <2>. QED BY <1>1, <2>1, <2>2, <2>3 DEF PendingUntilTaken
<1>8. CodesOfTheProvider'
  BY <1>1, <1>2, <1>3 DEF CodesOfTheProvider
<1>9. HandlersTakeTurns' /\ HandlersHoldTheirOwn' /\ OneExchangePerFlow' /\ RowsHoldTheirOwnTokens'
      /\ SessionsNameTheProvider'
  BY <1>1 DEF SessionsNameTheProvider, HandlersTakeTurns, HandlersHoldTheirOwn, OneExchangePerFlow, RowsHoldTheirOwnTokens
<1>. QED BY <1>5, <1>6, <1>7, <1>8, <1>9

LEMMA ConsentIInv ==
  ASSUME IInv, NEW f \in Flows, NEW a \in Accounts, Consent(f, a)
  PROVE  IInv'
<1>. USE DEF IInv, gateway, history
<1>1. TypeOK' /\ (handler \in [Handlers -> Held])'
  <2>1. minted' \in Seq(codes')
    BY DEF TypeOK, Consent
  <2>. QED BY <2>1 DEF TypeOK, Consent
<1>2. CodesOfTheProvider'
  BY DEF CodesOfTheProvider, Consent
<1>3. ClocksAgree' /\ PendingUntilTaken' /\ SessionsNameTheProvider'
  BY DEF ClocksAgree, Authorizing, PendingUntilTaken, SessionsNameTheProvider, Consent
<1>4. HandlersTakeTurns' /\ HandlersHoldTheirOwn' /\ OneExchangePerFlow' /\ RowsHoldTheirOwnTokens'
  <2>1. HandlersTakeTurns' /\ HandlersHoldTheirOwn'
    BY DEF HandlersTakeTurns, HandlersHoldTheirOwn, Consent
  <2>2. OneExchangePerFlow' /\ RowsHoldTheirOwnTokens'
    BY DEF OneExchangePerFlow, RowsHoldTheirOwnTokens, Consent
  <2>. QED BY <2>1, <2>2
<1>. QED BY <1>1, <1>2, <1>3, <1>4

LEMMA CallbackIInv ==
  ASSUME IInv, NEW h \in Handlers, NEW code \in codes, Callback(h, code)
  PROVE  IInv'
<1>. USE DEF IInv, gateway, history
<1>. DEFINE f == code[1]
            a == code[2]
<1>1. /\ handler[h] = Idle /\ ValidState(f)
      /\ pending' = [g \in DOMAIN pending \ {f} |-> pending[g]]
      /\ UNCHANGED <<time, state, told, codes, minted, rows, sessions, lost, restarts>>
  BY DEF Callback
<1>2. f \in Flows /\ a \in Accounts /\ code = <<f, a>> /\ told[f] # 0
  BY DEF TypeOK, CodesOfTheProvider
<1>. HIDE DEF f, a
<1>3. \/ /\ Open(f) /\ used' = used \cup {f}
         /\ handler' = [handler EXCEPT ![h] = [at |-> "exchange", flow |-> f,
                                               account |-> a, token |-> 0]]
      \/ ~Open(f) /\ UNCHANGED <<handler, used>>
  BY DEF Callback, f, a
<1>4. CASE Open(f)
  <2>1. /\ used' = used \cup {f}
        /\ handler' = [handler EXCEPT ![h] = [at |-> "exchange", flow |-> f,
                                              account |-> a, token |-> 0]]
        /\ f \notin used
    BY <1>3, <1>4 DEF Open, PendingUntilTaken
  <2>2. /\ handler'[h] = [at |-> "exchange", flow |-> f, account |-> a, token |-> 0]
        /\ \A g \in Handlers : g # h => handler'[g] = handler[g]
    BY <2>1
  <2>3. TypeOK' /\ (handler \in [Handlers -> Held])'
    <3>1. HeldOK([at |-> "exchange", flow |-> f, account |-> a, token |-> 0])
      BY <1>2 DEF TypeOK, HeldOK, Held
    <3>2. /\ \A g \in Handlers : HeldOK(handler'[g])
          /\ handler' = [g \in Handlers |-> handler'[g]]
      BY <2>1, <2>2, <3>1 DEF TypeOK, HeldOK
    <3>3. DOMAIN pending' \subseteq Flows
          /\ \A g \in DOMAIN pending' : pending'[g] = told[g] /\ told[g] # 0
      BY <1>1 DEF TypeOK
    <3>. QED BY <1>1, <1>2, <2>1, <3>2, <3>3 DEF TypeOK, HeldOK
  <2>4. ClocksAgree' /\ CodesOfTheProvider' /\ OneExchangePerFlow' /\ RowsHoldTheirOwnTokens'
        /\ SessionsNameTheProvider'
    BY <1>1 DEF ClocksAgree, Authorizing, CodesOfTheProvider, OneExchangePerFlow,
                SessionsNameTheProvider, RowsHoldTheirOwnTokens
  <2>5. PendingUntilTaken'
    BY <1>1, <1>2, <2>1 DEF PendingUntilTaken
  <2>6. HandlersTakeTurns'
    BY <1>1, <2>1, <2>2 DEF HandlersTakeTurns
  <2>7. HandlersHoldTheirOwn'
    BY <1>1, <2>2 DEF HandlersHoldTheirOwn
  <2>. QED BY <2>3, <2>4, <2>5, <2>6, <2>7
<1>5. CASE ~Open(f)
  <2>1. UNCHANGED <<handler, used>>
    BY <1>3, <1>5
  <2>2. f \in DOMAIN pending => ~ (time < told[f])
    BY <1>1, <1>5 DEF Open, Live, TypeOK
  <2>3. TypeOK' /\ (handler \in [Handlers -> Held])'
    BY <1>1, <2>1 DEF TypeOK
  <2>4. PendingUntilTaken'
    BY <1>1, <2>1, <2>2 DEF PendingUntilTaken
  <2>5. /\ ClocksAgree' /\ CodesOfTheProvider' /\ HandlersTakeTurns' /\ HandlersHoldTheirOwn'
        /\ SessionsNameTheProvider' /\ OneExchangePerFlow' /\ RowsHoldTheirOwnTokens'
    BY <1>1, <2>1 DEF SessionsNameTheProvider, ClocksAgree, Authorizing, CodesOfTheProvider, HandlersTakeTurns,
           HandlersHoldTheirOwn, OneExchangePerFlow, RowsHoldTheirOwnTokens
  <2>. QED BY <2>3, <2>4, <2>5
<1>. QED BY <1>4, <1>5

(* What the provider's minting of one more token leaves true.               *)
LEMMA RedeemKeeps ==
  ASSUME IInv, NEW h \in Handlers, handler[h].at = "exchange",
         Redeem(handler[h].flow, handler[h].account),
         UNCHANGED <<codes, rows, sessions, used, state>>
  PROVE  /\ minted' \in Seq(codes)
         /\ Len(minted') = Len(minted) + 1 /\ Len(minted) \in Nat
         /\ \A i \in 1..Len(minted) : minted'[i] = minted[i]
         /\ minted'[Len(minted) + 1] = <<handler[h].flow, handler[h].account>>
         /\ handler[h].flow \in used
         /\ OneExchangePerFlow'
         /\ RowsHoldTheirOwnTokens'
         /\ \A i \in 1..Len(minted') : minted'[i][1] \in used
<1>. USE DEF IInv
<1>. DEFINE code == <<handler[h].flow, handler[h].account>>
<1>1. code \in codes /\ minted' = Append(minted, code) /\ minted \in Seq(codes)
  BY DEF TypeOK, Redeem, Idle
<1>2. /\ minted' \in Seq(codes)
      /\ Len(minted') = Len(minted) + 1 /\ Len(minted) \in Nat
      /\ \A i \in 1..Len(minted) : minted'[i] = minted[i]
      /\ minted'[Len(minted) + 1] = code
  BY <1>1, MintedStays
<1>3. code[1] \in used /\ \A i \in 1..Len(minted) : minted[i][1] # code[1]
  BY DEF HandlersTakeTurns
<1>. HIDE DEF code
<1>4. OneExchangePerFlow'
  BY <1>2, <1>3 DEF OneExchangePerFlow
<1>5. RowsHoldTheirOwnTokens'
  <2>1. \A k \in Accounts \X Providers : rows[k] # 0 => minted'[rows[k]] = minted[rows[k]]
    BY <1>2 DEF TypeOK
  <2>. QED BY <2>1 DEF RowsHoldTheirOwnTokens
<1>6. \A i \in 1..Len(minted') : minted'[i][1] \in used
  BY <1>2, <1>3 DEF HandlersTakeTurns
<1>. QED BY <1>2, <1>3, <1>4, <1>5, <1>6 DEF code

LEMMA ExchangeIInv ==
  ASSUME IInv, NEW h \in Handlers, Exchange(h)
  PROVE  IInv'
<1>. USE DEF IInv, gateway, history
<1>1. /\ handler[h].at = "exchange" /\ Redeem(handler[h].flow, handler[h].account)
      /\ UNCHANGED <<time, gateway, codes, rows, sessions, history>>
  BY DEF Exchange
<1>2. PICK token \in {Len(minted) + 1, 0} :
        handler' = [handler EXCEPT ![h].at = IF token # 0 THEN "store" ELSE "answer",
                                   ![h].token = token]
  BY DEF Exchange
<1>3. /\ minted' \in Seq(codes)
      /\ Len(minted') = Len(minted) + 1 /\ Len(minted) \in Nat
      /\ \A i \in 1..Len(minted) : minted'[i] = minted[i]
      /\ minted'[Len(minted) + 1] = <<handler[h].flow, handler[h].account>>
      /\ handler[h].flow \in used
      /\ OneExchangePerFlow' /\ RowsHoldTheirOwnTokens'
      /\ \A i \in 1..Len(minted') : minted'[i][1] \in used
  BY <1>1, RedeemKeeps
<1>4. /\ handler[h] \in Held /\ <<handler[h].flow, handler[h].account>> \in codes
      /\ \A g \in Handlers : g # h => handler'[g] = handler[g]
      /\ handler'[h] = [handler[h] EXCEPT !.at = IF token # 0 THEN "store" ELSE "answer",
                                          !.token = token]
      /\ handler' = [g \in Handlers |-> handler'[g]]
  <2>1. handler[h] \in Held /\ <<handler[h].flow, handler[h].account>> \in codes
    BY <1>1 DEF TypeOK, Idle
  <2>. QED BY <2>1, <1>2
<1>5. /\ handler'[h].flow = handler[h].flow /\ handler'[h].account = handler[h].account
      /\ handler'[h].at = (IF token # 0 THEN "store" ELSE "answer")
      /\ handler'[h].token = token /\ handler'[h] \in Held
  <2>1. token \in Nat
    BY <1>3
  <2>2. handler[h] \in Held /\ handler'[h] = [handler[h] EXCEPT !.at = IF token # 0 THEN "store" ELSE "answer",
                                          !.token = token]
    BY <1>4
  <2>. QED BY <2>1, <2>2 DEF Held
<1>6. TypeOK' /\ (handler \in [Handlers -> Held])'
  <2>1. HeldOK(handler[h])'
    BY <1>1, <1>3, <1>4, <1>5 DEF HeldOK
  <2>4. ASSUME NEW g \in Handlers, g # h PROVE HeldOK(handler[g])'
    BY <2>4, <1>1, <1>3, <1>4 DEF TypeOK, HeldOK
  <2>5. /\ (handler \in [Handlers -> Held])'
        /\ \A g \in Handlers : HeldOK(handler[g])'
    BY <2>1, <2>4, <1>4 DEF HeldOK
  <2>2. (rows \in [Accounts \X Providers -> 0..Len(minted)])'
    BY <1>1, <1>3 DEF TypeOK
  <2>3. \A s \in sessions : s.token \in 0..Len(minted')
    BY <1>3 DEF TypeOK
  <2>. QED BY <1>1, <1>3, <1>4, <2>1, <2>2, <2>3, <2>5 DEF TypeOK, HeldOK
<1>7. ClocksAgree' /\ PendingUntilTaken' /\ CodesOfTheProvider'
      /\ SessionsNameTheProvider'
  BY <1>1 DEF SessionsNameTheProvider, ClocksAgree, Authorizing, PendingUntilTaken, CodesOfTheProvider
<1>8. HandlersTakeTurns'
  <2>1. \A g \in Handlers : handler'[g].at = "exchange" => g # h /\ handler'[g] = handler[g]
    BY <1>4, <1>5
  <2>2. ASSUME NEW g \in Handlers, handler'[g].at = "exchange"
        PROVE  handler'[g].flow \in used /\ handler'[g].flow # handler[h].flow
    BY <1>1, <2>1, <2>2 DEF HandlersTakeTurns
  <2>3. ASSUME NEW g \in Handlers, handler'[g].at = "exchange", NEW i \in 1..Len(minted')
        PROVE  minted'[i][1] # handler'[g].flow
    BY <1>3, <2>1, <2>2, <2>3 DEF HandlersTakeTurns
  <2>. QED BY <1>1, <1>3, <2>1, <2>2, <2>3 DEF HandlersTakeTurns
<1>9. HandlersHoldTheirOwn'
  <2>. SUFFICES ASSUME NEW g \in Handlers
       PROVE  /\ handler'[g].at = "store" => handler'[g].token # 0
              /\ handler'[g].at \in {"store", "answer"} /\ handler'[g].token # 0 =>
                   minted'[handler'[g].token] = <<handler'[g].flow, handler'[g].account>>
              /\ handler'[g].at = "answer" /\ handler'[g].token # 0 =>
                   rows'[<<handler'[g].account, ProviderOf[handler'[g].account]>>] # 0
    BY DEF HandlersHoldTheirOwn
  <2>1. CASE g = h
    BY <2>1, <1>3, <1>5
  <2>2. CASE g # h
    <3>1. handler[g].at \in {"store", "answer"} => handler[g].token \in 0..Len(minted)
      <4>1. handler[g].at \in {"store", "answer"} => handler[g] # Idle
        BY DEF Idle
      <4>. QED BY <4>1 DEF TypeOK
    <3>2. handler[g].at \in {"store", "answer"} /\ handler[g].token # 0 =>
            minted'[handler[g].token] = minted[handler[g].token]
      BY <3>1, <1>3
    <3>. QED BY <2>2, <3>2, <1>1, <1>4 DEF HandlersHoldTheirOwn
  <2>. QED BY <2>1, <2>2
<1>. QED BY <1>3, <1>6, <1>7, <1>8, <1>9
LEMMA UpsertIInv ==
  ASSUME IInv, NEW h \in Handlers, Upsert(h)
  PROVE  IInv'
<1>. USE DEF IInv, gateway, history
<1>. DEFINE a == handler[h].account
            f == handler[h].flow
            n == handler[h].token
<1>1. /\ handler[h].at = "store"
      /\ rows' = [rows EXCEPT ![<<OwnerOf({a}), ProviderOf[a]>>] = n]
      /\ handler' = [handler EXCEPT ![h].at = "answer"]
      /\ UNCHANGED <<time, gateway, codes, minted, sessions, history>>
  BY DEF Upsert
<1>2. handler[h] # Idle /\ handler[h] \in Held
  BY <1>1 DEF Idle
<1>3. /\ <<f, a>> \in codes /\ a \in Accounts /\ f \in Flows /\ n \in 0..Len(minted)
      /\ ProviderOf[a] \in Providers /\ n # 0 /\ minted[n] = <<f, a>>
      /\ state[f].provider = ProviderOf[a]
  <2>1. <<f, a>> \in codes /\ n \in 0..Len(minted)
    BY <1>2 DEF TypeOK
  <2>2. a \in Accounts /\ f \in Flows
    BY <2>1 DEF TypeOK
  <2>. QED BY <2>1, <2>2, <1>1, ConsentAssumption DEF HandlersHoldTheirOwn, CodesOfTheProvider
<1>4. rows' = [rows EXCEPT ![<<a, ProviderOf[a]>>] = n]
  BY <1>1, <1>3, OwnerOfOne
<1>5. /\ \A g \in Handlers : g # h => handler'[g] = handler[g]
      /\ handler'[h] = [handler[h] EXCEPT !.at = "answer"]
      /\ handler' = [g \in Handlers |-> handler'[g]]
  BY <1>1
<1>6. /\ handler'[h] \in Held /\ handler'[h].at = "answer"
      /\ handler'[h].flow = f /\ handler'[h].account = a /\ handler'[h].token = n
  BY <1>2, <1>5 DEF Held
<1>. HIDE DEF a, f, n
<1>7. /\ rows'[<<a, ProviderOf[a]>>] = n
      /\ \A k \in Accounts \X Providers : k # <<a, ProviderOf[a]>> => rows'[k] = rows[k]
      /\ rows' \in [Accounts \X Providers -> 0..Len(minted)]
  BY <1>3, <1>4 DEF TypeOK
<1>8. TypeOK' /\ (handler \in [Handlers -> Held])'
  <2>1. HeldOK(handler'[h])
    BY <1>3, <1>6 DEF HeldOK
  <2>2. \A g \in Handlers : HeldOK(handler'[g])
    BY <2>1, <1>5 DEF TypeOK, HeldOK
  <2>. QED BY <1>1, <1>5, <1>7, <2>2, ZenonT(30) DEF TypeOK, HeldOK
<1>9. ClocksAgree' /\ PendingUntilTaken' /\ CodesOfTheProvider' /\ OneExchangePerFlow'
      /\ SessionsNameTheProvider'
  <2>1. ClocksAgree' /\ PendingUntilTaken'
    BY <1>1 DEF ClocksAgree, Authorizing, PendingUntilTaken
  <2>2. CodesOfTheProvider' /\ OneExchangePerFlow' /\ SessionsNameTheProvider'
    BY <1>1 DEF CodesOfTheProvider, OneExchangePerFlow, SessionsNameTheProvider
  <2>. QED BY <2>1, <2>2
<1>10. HandlersTakeTurns'
  BY <1>1, <1>5, <1>6 DEF HandlersTakeTurns
<1>11. \A k \in Accounts \X Providers : rows[k] # 0 => rows'[k] # 0
  BY <1>3, <1>7
<1>12. HandlersHoldTheirOwn'
  <2>. SUFFICES ASSUME NEW g \in Handlers
       PROVE  /\ handler'[g].at = "store" => handler'[g].token # 0
              /\ handler'[g].at \in {"store", "answer"} /\ handler'[g].token # 0 =>
                   minted[handler'[g].token] = <<handler'[g].flow, handler'[g].account>>
              /\ handler'[g].at = "answer" /\ handler'[g].token # 0 =>
                   rows'[<<handler'[g].account, ProviderOf[handler'[g].account]>>] # 0
    BY <1>1 DEF HandlersHoldTheirOwn
  <2>1. CASE g = h
    BY <2>1, <1>3, <1>6, <1>7
  <2>2. CASE g # h
    <3>1. handler[g].at = "answer" => handler[g] # Idle
      BY DEF Idle
    <3>2. handler[g].at = "answer" =>
            <<handler[g].account, ProviderOf[handler[g].account]>> \in Accounts \X Providers
      BY <3>1, ConsentAssumption DEF TypeOK
    <3>. QED BY <2>2, <3>2, <1>5, <1>11 DEF HandlersHoldTheirOwn
  <2>. QED BY <2>1, <2>2
<1>13. RowsHoldTheirOwnTokens'
  <2>1. ASSUME NEW owner \in Accounts, NEW p \in Providers, rows'[<<owner, p>>] # 0
        PROVE  LET code == minted[rows'[<<owner, p>>]]
               IN  code[2] = owner /\ state[code[1]].provider = p
    <3>1. CASE <<owner, p>> = <<a, ProviderOf[a]>>
      BY <3>1, <1>3, <1>7
    <3>2. CASE <<owner, p>> # <<a, ProviderOf[a]>>
      BY <3>2, <2>1, <1>7 DEF RowsHoldTheirOwnTokens
    <3>. QED BY <3>1, <3>2
  <2>2. ASSUME NEW s \in sessions, s.token # 0
        PROVE  rows'[<<s.owner, s.provider>>] # 0
    <3>1. rows[<<s.owner, s.provider>>] # 0
      BY <2>2 DEF RowsHoldTheirOwnTokens
    <3>2. <<s.owner, s.provider>> \in Accounts \X Providers
      BY <2>2 DEF TypeOK, SessionsNameTheProvider
    <3>. QED BY <3>1, <3>2, <1>11
  <2>. QED BY <1>1, <2>1, <2>2 DEF RowsHoldTheirOwnTokens
<1>. QED BY <1>8, <1>9, <1>10, <1>12, <1>13
LEMMA AnswerIInv ==
  ASSUME IInv, NEW h \in Handlers, Answer(h)
  PROVE  IInv'
<1>. USE DEF IInv, gateway, history
<1>. DEFINE a == handler[h].account
            n == handler[h].token
            answered == Session({a}, ProviderOf[a], n)
<1>1. /\ handler[h].at = "answer"
      /\ sessions' = sessions \cup {answered}
      /\ handler' = [handler EXCEPT ![h] = Idle]
      /\ UNCHANGED <<time, gateway, codes, minted, rows, history>>
  BY DEF Answer
<1>2. a \in Accounts /\ n \in 0..Len(minted) /\ ProviderOf[a] \in Providers
  <2>1. handler[h] # Idle
    BY <1>1 DEF Idle
  <2>. QED BY <2>1, ConsentAssumption DEF TypeOK
<1>3. answered.owner = a /\ answered.provider = ProviderOf[a] /\ answered.token = n
  BY <1>2, OwnerOfOne DEF Session
<1>4. n # 0 => rows[<<a, ProviderOf[a]>>] # 0
  BY <1>1 DEF HandlersHoldTheirOwn
<1>. HIDE DEF a, n, answered
<1>5. /\ \A g \in Handlers : g # h => handler'[g] = handler[g]
      /\ handler'[h] = Idle /\ handler' = [g \in Handlers |-> handler'[g]]
  BY <1>1
<1>6. TypeOK' /\ (handler \in [Handlers -> Held])'
  <2>1. Idle \in Held
    BY DEF Idle, Held
  <2>2. \A g \in Handlers : HeldOK(handler'[g])
    BY <2>1, <1>5 DEF TypeOK, HeldOK
  <2>3. \A s \in sessions' : s.owner \in Accounts /\ s.token \in 0..Len(minted)
    BY <1>1, <1>2, <1>3 DEF TypeOK
  <2>. QED BY <1>1, <1>5, <2>2, <2>3 DEF TypeOK, HeldOK
<1>7. ClocksAgree' /\ PendingUntilTaken' /\ CodesOfTheProvider' /\ OneExchangePerFlow'
  <2>1. ClocksAgree' /\ PendingUntilTaken'
    BY <1>1 DEF ClocksAgree, Authorizing, PendingUntilTaken
  <2>2. CodesOfTheProvider' /\ OneExchangePerFlow'
    BY <1>1 DEF CodesOfTheProvider, OneExchangePerFlow
  <2>. QED BY <2>1, <2>2
<1>8. HandlersTakeTurns' /\ HandlersHoldTheirOwn'
  BY <1>1, <1>5 DEF HandlersTakeTurns, HandlersHoldTheirOwn, Idle
<1>9. SessionsNameTheProvider' /\ RowsHoldTheirOwnTokens'
  BY <1>1, <1>2, <1>3, <1>4 DEF SessionsNameTheProvider, RowsHoldTheirOwnTokens
<1>. QED BY <1>6, <1>7, <1>8, <1>9

LEMMA AbandonIInv ==
  ASSUME IInv, NEW h \in Handlers, Abandon(h)
  PROVE  IInv'
<1>. USE DEF IInv, gateway, history
<1>1. /\ handler' = [handler EXCEPT ![h] = Idle]
      /\ UNCHANGED <<time, gateway, codes, rows, sessions, history>>
  BY DEF Abandon
<1>2. /\ \A g \in Handlers : g # h => handler'[g] = handler[g]
      /\ handler'[h] = Idle /\ handler' = [g \in Handlers |-> handler'[g]]
  BY <1>1
<1>3. Idle \in Held
  BY DEF Idle, Held
<1>4. /\ ClocksAgree' /\ PendingUntilTaken' /\ CodesOfTheProvider' /\ SessionsNameTheProvider'
  BY <1>1 DEF ClocksAgree, Authorizing, PendingUntilTaken, CodesOfTheProvider,
              SessionsNameTheProvider
<1>5. CASE UNCHANGED minted
  <2>1. \A g \in Handlers : HeldOK(handler'[g])
    BY <1>2, <1>3 DEF TypeOK, HeldOK
  <2>2. TypeOK' /\ (handler \in [Handlers -> Held])'
    BY <1>1, <1>2, <1>5, <2>1 DEF TypeOK, HeldOK
  <2>3. OneExchangePerFlow' /\ RowsHoldTheirOwnTokens'
    BY <1>1, <1>5 DEF OneExchangePerFlow, RowsHoldTheirOwnTokens
  <2>4. HandlersTakeTurns' /\ HandlersHoldTheirOwn'
    BY <1>1, <1>2, <1>5 DEF HandlersTakeTurns, HandlersHoldTheirOwn, Idle
  <2>. QED BY <1>4, <2>2, <2>3, <2>4
<1>6. CASE handler[h].at = "exchange" /\ Redeem(handler[h].flow, handler[h].account)
  <2>1. /\ minted' \in Seq(codes)
        /\ Len(minted') = Len(minted) + 1 /\ Len(minted) \in Nat
        /\ \A i \in 1..Len(minted) : minted'[i] = minted[i]
        /\ minted'[Len(minted) + 1] = <<handler[h].flow, handler[h].account>>
        /\ OneExchangePerFlow' /\ RowsHoldTheirOwnTokens'
        /\ \A i \in 1..Len(minted') : minted'[i][1] \in used
    BY <1>1, <1>6, RedeemKeeps
  <2>2. ASSUME NEW g \in Handlers PROVE HeldOK(handler[g])'
    BY <1>1, <1>2, <1>3, <2>1 DEF TypeOK, HeldOK
  <2>3. TypeOK' /\ (handler \in [Handlers -> Held])'
    <3>1. (rows \in [Accounts \X Providers -> 0..Len(minted)])'
      BY <1>1, <2>1 DEF TypeOK
    <3>2. \A s \in sessions : s.token \in 0..Len(minted')
      BY <2>1 DEF TypeOK
    <3>3. (handler \in [Handlers -> Held])' /\ \A g \in Handlers : HeldOK(handler[g])'
      BY <1>2, <2>2 DEF HeldOK
    <3>. QED BY <1>1, <2>1, <3>1, <3>2, <3>3 DEF TypeOK, HeldOK
  <2>4. \A g \in Handlers : handler'[g] # Idle => g # h /\ handler'[g] = handler[g]
    BY <1>2
  <2>5. HandlersTakeTurns'
    <3>1. \A g \in Handlers : handler'[g].at = "exchange" => g # h /\ handler'[g] = handler[g]
      BY <2>4 DEF Idle
    <3>2. ASSUME NEW g \in Handlers, handler'[g].at = "exchange"
          PROVE  handler'[g].flow \in used /\ handler'[g].flow # handler[h].flow
      BY <1>6, <3>1, <3>2 DEF HandlersTakeTurns
    <3>3. ASSUME NEW g \in Handlers, handler'[g].at = "exchange", NEW i \in 1..Len(minted')
          PROVE  minted'[i][1] # handler'[g].flow
      BY <2>1, <3>1, <3>2, <3>3 DEF HandlersTakeTurns
    <3>. QED BY <1>1, <2>1, <3>1, <3>2, <3>3 DEF HandlersTakeTurns
  <2>6. HandlersHoldTheirOwn'
    <3>1. ASSUME NEW g \in Handlers, handler'[g].at \in {"store", "answer"}
          PROVE  /\ handler'[g] = handler[g]
                 /\ handler[g].token # 0 => minted'[handler[g].token] = minted[handler[g].token]
      <4>1. handler'[g] # Idle
        BY <3>1 DEF Idle
      <4>2. handler'[g] = handler[g] /\ handler[g].token \in 0..Len(minted)
        BY <4>1, <2>4 DEF TypeOK
      <4>. QED BY <4>2, <2>1
    <3>. SUFFICES ASSUME NEW g \in Handlers
         PROVE  /\ handler'[g].at = "store" => handler'[g].token # 0
                /\ handler'[g].at \in {"store", "answer"} /\ handler'[g].token # 0 =>
                     minted'[handler'[g].token] = <<handler'[g].flow, handler'[g].account>>
                /\ handler'[g].at = "answer" /\ handler'[g].token # 0 =>
                     rows'[<<handler'[g].account, ProviderOf[handler'[g].account]>>] # 0
      BY DEF HandlersHoldTheirOwn
    <3>2. CASE handler'[g].at \in {"store", "answer"}
      BY <1>1, <3>1, <3>2 DEF HandlersHoldTheirOwn
    <3>. QED BY <3>2
  <2>. QED BY <1>4, <2>1, <2>3, <2>5, <2>6
<1>. QED BY <1>5, <1>6 DEF Abandon
LEMMA LoginIInv ==
  ASSUME IInv, NEW u \in Users, Login(u)
  PROVE  IInv'
<1>. USE DEF IInv, gateway, history
<1>1. PICK accounts \in (SUBSET {a \in Accounts : UserOf[a] = u}) \ {{}} :
        sessions' = sessions \cup {Session(accounts, Nobody, 0)}
  BY DEF Login
<1>2. UNCHANGED <<time, gateway, codes, minted, handler, rows, history>>
  BY DEF Login
<1>3. OwnerOf(accounts) \in Accounts
  BY OwnerIsPresented
<1>4. TypeOK' /\ (handler \in [Handlers -> Held])'
  <2>1. Len(minted) \in Nat
    BY DEF TypeOK
  <2>2. \A s \in sessions' : s.owner \in Accounts /\ s.token \in 0..Len(minted)
    BY <1>1, <1>3, <2>1 DEF TypeOK, Session
  <2>. QED BY <1>2, <2>2 DEF TypeOK
<1>5. SessionsNameTheProvider' /\ RowsHoldTheirOwnTokens'
  BY <1>1, <1>2 DEF SessionsNameTheProvider, RowsHoldTheirOwnTokens, Session
<1>6. /\ ClocksAgree' /\ PendingUntilTaken' /\ CodesOfTheProvider'
      /\ HandlersTakeTurns' /\ HandlersHoldTheirOwn' /\ OneExchangePerFlow'
  BY <1>2 DEF ClocksAgree, Authorizing, PendingUntilTaken, CodesOfTheProvider,
              HandlersTakeTurns, HandlersHoldTheirOwn, OneExchangePerFlow
<1>. QED BY <1>4, <1>5, <1>6

LEMMA RestartIInv == IInv /\ Restart => IInv'
<1>. SUFFICES ASSUME IInv, Restart PROVE IInv'
  OBVIOUS
<1>. USE DEF IInv, gateway, history
<1>1. /\ DOMAIN pending' = {}
      /\ lost' = lost \cup DOMAIN pending \cup {f \in Flows : Authorizing(f)}
      /\ handler' = [h \in Handlers |-> Idle]
      /\ UNCHANGED <<time, state, told, codes, minted, rows, sessions, used>>
  BY DEF Restart
<1>2. TypeOK' /\ (handler \in [Handlers -> Held])'
  <2>1. Idle \in Held
    BY DEF Idle, Held
  <2>2. restarts' \in 0..MaxRestarts
    BY ConsentAssumption DEF TypeOK, Restart
  <2>. QED BY <1>1, <2>1, <2>2 DEF TypeOK
<1>3. ClocksAgree' /\ PendingUntilTaken' /\ CodesOfTheProvider' /\ SessionsNameTheProvider'
  BY <1>1 DEF ClocksAgree, Authorizing, PendingUntilTaken, CodesOfTheProvider,
              SessionsNameTheProvider
<1>4. HandlersTakeTurns' /\ HandlersHoldTheirOwn' /\ OneExchangePerFlow' /\ RowsHoldTheirOwnTokens'
  BY <1>1 DEF HandlersTakeTurns, HandlersHoldTheirOwn, OneExchangePerFlow,
              RowsHoldTheirOwnTokens, Idle
<1>. QED BY <1>2, <1>3, <1>4

LEMMA TickIInv == IInv /\ Tick => IInv'
<1>. SUFFICES ASSUME IInv, Tick PROVE IInv'
  OBVIOUS
<1>. USE DEF IInv, gateway, history
<1>1. time \in Nat /\ TTL \in Nat /\ MaxTime \in Nat
  BY ConsentAssumption DEF TypeOK
<1>2. TypeOK' /\ (handler \in [Handlers -> Held])'
  BY <1>1 DEF TypeOK, Tick
<1>3. ClocksAgree'
  BY <1>1 DEF ClocksAgree, Authorizing, Tick, TypeOK
<1>4. PendingUntilTaken'
  BY <1>1 DEF PendingUntilTaken, Tick, TypeOK
<1>5. /\ CodesOfTheProvider' /\ HandlersTakeTurns' /\ HandlersHoldTheirOwn'
      /\ SessionsNameTheProvider' /\ OneExchangePerFlow' /\ RowsHoldTheirOwnTokens'
  <2>1. CodesOfTheProvider' /\ SessionsNameTheProvider'
    BY DEF CodesOfTheProvider, SessionsNameTheProvider, Tick
  <2>2. HandlersTakeTurns' /\ HandlersHoldTheirOwn'
    BY DEF HandlersTakeTurns, HandlersHoldTheirOwn, Tick
  <2>3. OneExchangePerFlow' /\ RowsHoldTheirOwnTokens'
    BY DEF OneExchangePerFlow, RowsHoldTheirOwnTokens, Tick
  <2>. QED BY <2>1, <2>2, <2>3
<1>. QED BY <1>2, <1>3, <1>4, <1>5

LEMMA NextIInv == IInv /\ [Next]_vars => IInv'
<1>1. ASSUME IInv, NEW f \in Flows, Insert(f) \/ \E p \in Providers : Issue(f, p)
      PROVE  IInv'
  BY <1>1, InsertIInv, IssueIInv
<1>2. ASSUME IInv, NEW h \in Handlers,
             \/ \E code \in codes : Callback(h, code)
             \/ Exchange(h) \/ Upsert(h) \/ Answer(h) \/ Abandon(h)
      PROVE  IInv'
  BY <1>2, CallbackIInv, ExchangeIInv, UpsertIInv, AnswerIInv, AbandonIInv
<1>3. ASSUME IInv, UNCHANGED vars PROVE IInv'
  <2>. USE <1>3 DEF IInv, vars
  <2>1. TypeOK' /\ (handler \in [Handlers -> Held])'
    BY DEF TypeOK
  <2>2. ClocksAgree' /\ PendingUntilTaken' /\ CodesOfTheProvider' /\ SessionsNameTheProvider'
    BY DEF ClocksAgree, Authorizing, PendingUntilTaken, CodesOfTheProvider,
           SessionsNameTheProvider
  <2>3. HandlersTakeTurns' /\ HandlersHoldTheirOwn' /\ OneExchangePerFlow' /\ RowsHoldTheirOwnTokens'
    BY DEF HandlersTakeTurns, HandlersHoldTheirOwn, OneExchangePerFlow, RowsHoldTheirOwnTokens
  <2>. QED BY <2>1, <2>2, <2>3
<1>. QED BY <1>1, <1>2, <1>3, ConsentIInv, LoginIInv, RestartIInv, TickIInv DEF Next

-----------------------------------------------------------------------------
(* Theorems.                                                                *)

LEMMA InvariantHolds == Spec => []IInv
BY InitIInv, NextIInv, PTL DEF Spec

(* Every variable of the consent flow keeps its shape, whatever runs at the *)
(* same time.                                                               *)
THEOREM TypeCorrect == Spec => []TypeOK
<1>1. IInv => TypeOK
  BY DEF IInv
<1>. QED BY <1>1, InvariantHolds, PTL

(* "Validated and consumed before the code goes anywhere": take removes the *)
(* pending entry in the step that reads it, so however often the callbacks  *)
(* of a flow are delivered, at most one of its codes is exchanged.          *)
THEOREM OneExchangeAlways == Spec => []OneExchangePerFlow
<1>1. IInv => OneExchangePerFlow
  BY DEF IInv
<1>. QED BY <1>1, InvariantHolds, PTL

(* The two readings of the clock in authorize, the two comparisons with it  *)
(* and the pruning by insert agree with what the caller was told: a flow    *)
(* that is neither used nor lost is open exactly until expires_at.          *)
THEOREM OpenUntilToldAlways == Spec => []OpenUntilTold
<1>1. IInv => OpenUntilTold
  <2>. SUFFICES ASSUME IInv, NEW f \in Flows, told[f] # 0
                PROVE  Open(f) <=> time < told[f] /\ f \notin used \cup lost
    BY DEF OpenUntilTold
  <2>1. time \in Nat /\ told[f] \in Nat /\ state[f].exp \in Nat
        /\ (f \in DOMAIN pending => pending[f] = told[f])
    BY DEF IInv, TypeOK
  <2>2. Open(f) => time < told[f] /\ f \notin used \cup lost
    BY <2>1 DEF IInv, PendingUntilTaken, Open, Live
  <2>3. ASSUME time < told[f], f \notin used \cup lost PROVE Open(f)
    <3>1. f \in DOMAIN pending /\ told[f] <= state[f].exp + 1
      BY <2>3 DEF IInv, PendingUntilTaken, ClocksAgree
    <3>. QED BY <2>1, <2>3, <3>1 DEF Open, Live, ValidState
  <2>. QED BY <2>2, <2>3
<1>. QED BY <1>1, InvariantHolds, PTL

(* SealedTokenStore never holds a token under an owner or a provider it was *)
(* not issued for, whatever handlers interleave between the exchange and    *)
(* the upsert; and a session that comes with a token finds a row.           *)
THEOREM RowsAlwaysHoldTheirOwn == Spec => []RowsHoldTheirOwnTokens
<1>1. IInv => RowsHoldTheirOwnTokens
  BY DEF IInv
<1>. QED BY <1>1, InvariantHolds, PTL
=============================================================================
