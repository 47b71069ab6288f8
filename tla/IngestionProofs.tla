--------------------------- MODULE IngestionProofs ---------------------------
(***************************************************************************)
(* Theorems about Ingestion, for every set of workers, records, claims and *)
(* windows and every bound.                                                *)
(***************************************************************************)
EXTENDS Ingestion, FiniteSetTheorems, WellFoundedInduction, TLAPS

-----------------------------------------------------------------------------
(* Positions.                                                               *)

(* Every non-empty set of naturals has a least element.                     *)
LEMMA LeastNatural ==
  ASSUME NEW S \in SUBSET Nat, S # {}
  PROVE  \E n \in S : \A m \in S : n <= m
<1>1. \E n \in S : \A m \in S : ~ (<<m, n>> \in OpToRel(<, Nat))
  BY NatLessThanWellFounded, WFMin, Zenon
<1>2. ASSUME NEW n \in S, NEW m \in S, <<m, n>> \notin OpToRel(<, Nat)
      PROVE  n <= m
  BY <1>2 DEF OpToRel
<1>. QED BY <1>1, <1>2, Zenon

(* First returns the least position of a non-empty set: the nodes handle    *)
(* positions in the order of the code.                                      *)
LEMMA FirstIsLeast ==
  ASSUME NEW S \in SUBSET (Nat \X Nat), S # {}
  PROVE  First(S) \in S /\ \A q \in S : NotAfter(First(S), q)
<1>1. PICK k \in {p[1] : p \in S} : \A j \in {p[1] : p \in S} : k <= j
  <2>1. {p[1] : p \in S} \in SUBSET Nat /\ {p[1] : p \in S} # {}
    OBVIOUS
  <2>. QED BY <2>1, LeastNatural
<1>2. PICK i \in {p[2] : p \in {q \in S : q[1] = k}} :
             \A j \in {p[2] : p \in {q \in S : q[1] = k}} : i <= j
  <2>1. {p[2] : p \in {q \in S : q[1] = k}} \in SUBSET Nat
        /\ {p[2] : p \in {q \in S : q[1] = k}} # {}
    BY <1>1
  <2>. QED BY <2>1, LeastNatural
<1>3. PICK p \in S : p[1] = k /\ p[2] = i
  BY <1>2
<1>4. \A q \in S : NotAfter(p, q)
  BY <1>1, <1>2, <1>3 DEF NotAfter
<1>. QED BY <1>4 DEF First

(* The positions of a window are pairs of naturals; those of its claims     *)
(* count from one.                                                          *)
LEMMA PositionsAreNatural ==
  ASSUME NEW win \in Windows \cup {<<>>}
  PROVE  /\ ClaimPositions(win) \in SUBSET (Nat \X (Nat \ {0}))
         /\ RecordPositions(win) \in SUBSET (Nat \X {0})
         /\ \A p \in ClaimPositions(win) : ClaimAt(win, p) \in Claims
<1>. Windows \subseteq Seq(Records) /\ ClaimsOf \in [Records -> Seq(Claims)]
  BY DataAssumption
<1>1. win \in Seq(Records)
  <2>1. CASE win \in Windows
    BY <2>1
  <2>2. CASE win = <<>>
    BY <2>2
  <2>. QED BY <2>1, <2>2
<1>2. DOMAIN win \subseteq Nat \ {0}
  BY <1>1
<1>3. \A k \in DOMAIN win : win[k] \in Records
  BY <1>1
<1>4. \A k \in DOMAIN win : ClaimsOf[win[k]] \in Seq(Claims)
  BY <1>3
<1>5. \A k \in DOMAIN win : DOMAIN ClaimsOf[win[k]] \subseteq Nat \ {0}
  BY <1>4
<1>6. \A k \in DOMAIN win : \A i \in DOMAIN ClaimsOf[win[k]] : ClaimsOf[win[k]][i] \in Claims
  BY <1>4
<1>. QED BY <1>2, <1>5, <1>6 DEF ClaimPositions, RecordPositions, ClaimAt

(* A bounded one has a greatest.                                            *)
LEMMA GreatestNatural ==
  ASSUME NEW B \in Nat, NEW S \in SUBSET (0..B), S # {}
  PROVE  \E n \in S : \A m \in S : m <= n
<1>1. {B - n : n \in S} \in SUBSET Nat /\ {B - n : n \in S} # {}
  <2>1. \A n \in S : B - n \in Nat
    OBVIOUS
  <2>. QED BY <2>1
<1>2. PICK k \in {B - n : n \in S} : \A j \in {B - n : n \in S} : k <= j
  BY <1>1, LeastNatural
<1>3. PICK n \in S : k = B - n
  BY <1>2
<1>4. ASSUME NEW m \in S PROVE m <= n
  <2>1. k <= B - m
    BY <1>2
  <2>. QED BY <1>3, <2>1
<1>. QED BY <1>4

(* Last returns the greatest of a non-empty set of claim positions: of the  *)
(* claims of the batch the one resolved last has the last word.             *)
LEMMA LastIsGreatest ==
  ASSUME NEW win \in Windows \cup {<<>>}, NEW S \in SUBSET ClaimPositions(win), S # {}
  PROVE  Last(S) \in S /\ \A q \in S : NotAfter(q, Last(S))
<1>. Windows \subseteq Seq(Records) /\ ClaimsOf \in [Records -> Seq(Claims)]
  BY DataAssumption
<1>1. win \in Seq(Records)
  <2>1. CASE win \in Windows
    BY <2>1
  <2>2. CASE win = <<>>
    BY <2>2
  <2>. QED BY <2>1, <2>2
<1>2. Len(win) \in Nat /\ DOMAIN win = 1..Len(win) /\ \A k \in DOMAIN win : win[k] \in Records
  BY <1>1
<1>3. \A p \in S : p[1] \in DOMAIN win /\ p[2] \in DOMAIN ClaimsOf[win[p[1]]] /\ p = <<p[1], p[2]>>
  BY DEF ClaimPositions
<1>4. PICK k \in {p[1] : p \in S} : \A j \in {p[1] : p \in S} : j <= k
  <2>1. {p[1] : p \in S} \in SUBSET (0..Len(win)) /\ {p[1] : p \in S} # {}
    BY <1>2, <1>3
  <2>. QED BY <1>2, <2>1, GreatestNatural
<1>5. k \in DOMAIN win /\ ClaimsOf[win[k]] \in Seq(Claims)
  BY <1>2, <1>3, <1>4
<1>6. Len(ClaimsOf[win[k]]) \in Nat /\ DOMAIN ClaimsOf[win[k]] = 1..Len(ClaimsOf[win[k]])
  BY <1>5
<1>. DEFINE I == {p[2] : p \in {q \in S : q[1] = k}}
<1>7. PICK i \in I : \A j \in I : j <= i
  <2>1. I \in SUBSET (0..Len(ClaimsOf[win[k]])) /\ I # {}
    BY <1>3, <1>4, <1>6
  <2>. QED BY <1>6, <2>1, GreatestNatural
<1>8. PICK p \in S : p[1] = k /\ p[2] = i
  BY <1>7
<1>9. ASSUME NEW q \in S PROVE NotAfter(q, p)
  <2>1. q[1] \in Nat /\ k \in Nat /\ q[1] <= k
    BY <1>2, <1>3, <1>4, <1>5, SMTT(30)
  <2>2. q[1] = k => q[2] <= i
    BY <1>7
  <2>. QED BY <1>8, <2>1, <2>2 DEF NotAfter
<1>. QED BY <1>8, <1>9 DEF Last

(* A record position of a set of positions to write names a record of the   *)
(* window, and a claim position an object in memory.                        *)
LEMMA WritePosition ==
  ASSUME NEW win \in Windows, NEW batch, DOMAIN batch \subseteq ClaimPositions(win),
         NEW S, S \subseteq RecordPositions(win) \cup DOMAIN batch, S # {}
  PROVE  /\ First(S) \in S
         /\ First(S)[2] = 0 => RecordAt(win, First(S)) \in Records
         /\ First(S)[2] # 0 => First(S) \in DOMAIN batch
<1>. Windows \subseteq Seq(Records)
  BY DataAssumption
<1>1. win \in Seq(Records) /\ DOMAIN win \subseteq Nat
  OBVIOUS
<1>2. S \in SUBSET (Nat \X Nat)
  BY <1>1, PositionsAreNatural DEF RecordPositions
<1>3. First(S) \in S
  BY <1>2, FirstIsLeast
<1>4. CASE First(S) \in RecordPositions(win)
  BY <1>1, <1>3, <1>4 DEF RecordPositions, RecordAt
<1>5. CASE First(S) \in DOMAIN batch
  BY <1>1, <1>3, <1>5, PositionsAreNatural
<1>. QED BY <1>3, <1>4, <1>5

-----------------------------------------------------------------------------
(* The inductive invariant.                                                 *)

(* What resolve may put on the object of claim c.                           *)
SoundFor(c, older, same) ==
  /\ \A d \in older : Rivals(c, d) /\ Older(d, c)
  /\ \A d \in same : Rivals(c, d) /\ AssertedAt(c) = AssertedAt(d)

SoundLink(l) ==
  /\ l.rel = "SUPERSEDES" =>
       l.to \in Claims /\ Rivals(l.from, l.to) /\ Older(l.to, l.from)
  /\ l.rel = "CONTRADICTS" =>
       Rivals(l.from, l.to) /\ AssertedAt(l.from) = AssertedAt(l.to)

(* What a worker holds in memory is what its node goes by: the positions of *)
(* its queue are claims of its window while it resolves, records and        *)
(* resolved claims while it writes, and every object is sound.              *)
SoundWorker(w) ==
  /\ pc[w] # "idle" => window[w] \in Windows
  /\ pc[w] = "idle" => DOMAIN decided[w] = {}
  /\ pc[w] \in {"resolve", "compare"} => queue[w] \subseteq ClaimPositions(window[w])
  /\ pc[w] \in {"write", "event", "read", "mark"} =>
       queue[w] \subseteq RecordPositions(window[w]) \cup DOMAIN decided[w]
  /\ pc[w] \in {"compare", "event"} => queue[w] # {}
  /\ pc[w] = "event" => First(queue[w])[2] = 0
  /\ pc[w] \in {"read", "mark"} => target[w] \in Claims
  /\ \A p \in DOMAIN decided[w] :
       SoundFor(decided[w][p].claim, decided[w][p].supersedes, decided[w][p].contradicts)
  /\ \A l \in todo[w] : SoundLink(l)

IInv ==
  /\ TypeOK
  /\ \A l \in links : SoundLink(l)
  /\ \A w \in Workers : SoundWorker(w)

-----------------------------------------------------------------------------
(* Relationships are well formed and sound.                                 *)

LEMMA EventLinksSound ==
  ASSUME NEW r \in Records
  PROVE  EventLinks(r) \in SUBSET Edges /\ \A l \in EventLinks(r) : SoundLink(l)
<1>. Mentions[r] \subseteq Entities /\ References[r] \subseteq Records
  BY DataAssumption
<1>. QED BY DEF EventLinks, Edge, Edges, SoundLink

(* What a link of a claim joins, by its name.                               *)
LEMMA LinkOfClaim ==
  ASSUME NEW o, NEW l \in ClaimLinks(o)
  PROVE  /\ l.from = o.claim
         /\ l.rel \in {"ABOUT", "OWED", "CITES", "SUPERSEDES", "CONTRADICTS"}
         /\ l.rel = "ABOUT" => l.to \in About[o.claim]
         /\ l.rel = "OWED" => l.to \in Owed[o.claim]
         /\ l.rel = "CITES" => l = Edge(o.claim, "CITES", RecordOf[o.claim])
         /\ l.rel = "SUPERSEDES" => l.to \in o.supersedes
         /\ l.rel = "CONTRADICTS" => l.to \in o.contradicts
<1>1. CASE l \in {Edge(o.claim, "ABOUT", e) : e \in About[o.claim]}
  BY <1>1 DEF Edge
<1>2. CASE l \in {Edge(o.claim, "OWED", e) : e \in Owed[o.claim]}
  BY <1>2 DEF Edge
<1>3. CASE l = Edge(o.claim, "CITES", RecordOf[o.claim])
  BY <1>3 DEF Edge
<1>4. CASE l \in {Edge(o.claim, "SUPERSEDES", d) : d \in o.supersedes}
  BY <1>4 DEF Edge
<1>5. CASE l \in {Edge(o.claim, "CONTRADICTS", d) : d \in o.contradicts}
  BY <1>5 DEF Edge
<1>. QED BY <1>1, <1>2, <1>3, <1>4, <1>5 DEF ClaimLinks

LEMMA ClaimLinksSound ==
  ASSUME NEW o \in Object, SoundFor(o.claim, o.supersedes, o.contradicts)
  PROVE  ClaimLinks(o) \in SUBSET Edges /\ \A l \in ClaimLinks(o) : SoundLink(l)
<1>1. /\ o.claim \in Claims
      /\ o.supersedes \subseteq Claims
      /\ o.contradicts \subseteq Claims
  BY DEF Object
<1>2. /\ About[o.claim] \subseteq Entities
      /\ Owed[o.claim] \subseteq Entities
      /\ RecordOf[o.claim] \in Records
  BY <1>1, DataAssumption
<1>3. ClaimLinks(o) \in SUBSET Edges
  BY <1>1, <1>2 DEF ClaimLinks, Edge, Edges
<1>4. \A l \in ClaimLinks(o) : SoundLink(l)
  BY <1>1 DEF ClaimLinks, Edge, SoundLink, SoundFor
<1>. QED BY <1>3, <1>4

-----------------------------------------------------------------------------
(* The invariant holds initially and every action preserves it.             *)

LEMMA InitIInv == Init => IInv
<1>. SUFFICES ASSUME Init PROVE IInv
  OBVIOUS
<1>1. TypeOK
  BY BoundAssumption DEF Init, TypeOK, ObjectsOK, AbsentRow, Row, Statuses
<1>2. ASSUME NEW w \in Workers PROVE SoundWorker(w)
  BY DEF Init, SoundWorker
<1>. QED BY <1>1, <1>2 DEF IInv, Init

LEMMA FetchIInv ==
  ASSUME IInv, NEW w \in Workers, Fetch(w)
  PROVE  IInv'
<1>. USE DEF IInv
<1>1. ASSUME NEW v \in Workers PROVE ObjectsOK(v)'
  BY DEF TypeOK, ObjectsOK, SoundWorker, Fetch, store
<1>2. TypeOK'
  BY <1>1, BoundAssumption, PositionsAreNatural DEF TypeOK, Fetch, store, memory
<1>3. \A l \in links' : SoundLink(l)
  BY DEF Fetch, store, memory
<1>4. ASSUME NEW v \in Workers PROVE SoundWorker(v)'
  <2>1. CASE v # w
    BY <2>1 DEF TypeOK, SoundWorker, Fetch, store, memory
  <2>2. CASE v = w
    BY <2>2 DEF TypeOK, SoundWorker, Fetch, store, memory
  <2>. QED BY <2>1, <2>2
<1>. QED BY <1>2, <1>3, <1>4

LEMMA LookUpIInv ==
  ASSUME IInv, NEW w \in Workers, LookUp(w)
  PROVE  IInv'
<1>. USE DEF IInv
<1>1. ASSUME NEW v \in Workers PROVE ObjectsOK(v)'
  BY DEF TypeOK, ObjectsOK, LookUp, store, memory
<1>2. TypeOK'
  BY <1>1, BoundAssumption DEF TypeOK, LookUp, store, memory
<1>3. \A l \in links' : SoundLink(l)
  BY DEF LookUp, store, memory
<1>4. ASSUME NEW v \in Workers PROVE SoundWorker(v)'
  <2>1. CASE v # w
    BY <2>1 DEF TypeOK, SoundWorker, LookUp, store, memory
  <2>2. CASE v = w
    BY <2>2 DEF TypeOK, SoundWorker, LookUp, store, memory
  <2>. QED BY <2>1, <2>2
<1>. QED BY <1>2, <1>3, <1>4

LEMMA EncryptIInv ==
  ASSUME IInv, NEW w \in Workers, Encrypt(w)
  PROVE  IInv'
<1>. USE DEF IInv
<1>. window[w] \in Windows /\ DOMAIN decided[w] \subseteq ClaimPositions(window[w])
  BY DEF TypeOK, ObjectsOK, SoundWorker, Encrypt
<1>1. RecordPositions(window[w]) \cup DOMAIN decided[w] \in SUBSET (Nat \X Nat)
  BY PositionsAreNatural
<1>2. ASSUME NEW v \in Workers PROVE ObjectsOK(v)'
  BY DEF TypeOK, ObjectsOK, Encrypt, store, memory
<1>3. TypeOK'
  <2>1. Sensitive \subseteq Records
    BY DataAssumption
  <2>2. sealed' \in [Workers -> SUBSET Records]
    BY <2>1 DEF TypeOK, Encrypt
  <2>. QED BY <1>1, <1>2, <2>2 DEF TypeOK, Encrypt, store
<1>4. \A l \in links' : SoundLink(l)
  BY DEF Encrypt, store, memory
<1>5. ASSUME NEW v \in Workers PROVE SoundWorker(v)'
  <2>1. CASE v # w
    BY <2>1 DEF TypeOK, SoundWorker, Encrypt, store, memory
  <2>2. CASE v = w
    BY <2>2 DEF TypeOK, SoundWorker, Encrypt, store, memory
  <2>. QED BY <2>1, <2>2
<1>. QED BY <1>3, <1>4, <1>5

LEMMA WriteEntitiesIInv ==
  ASSUME IInv, NEW w \in Workers, WriteEntities(w)
  PROVE  IInv'
<1>. USE DEF IInv
<1>. window[w] \in Windows /\ DOMAIN decided[w] \subseteq ClaimPositions(window[w])
  BY DEF TypeOK, ObjectsOK, SoundWorker, WriteEntities
<1>. DEFINE p == First(queue[w])
<1>1. /\ p \in queue[w]
      /\ p[2] = 0 => RecordAt(window[w], p) \in Records
      /\ p[2] # 0 => p \in DOMAIN decided[w]
  BY WritePosition DEF SoundWorker, WriteEntities
<1>2. ASSUME NEW v \in Workers PROVE ObjectsOK(v)'
  BY DEF TypeOK, ObjectsOK, WriteEntities, store, memory
<1>3. TypeOK'
  <2>1. RecordAt(window[w], p) \in Records
    BY <1>1 DEF WriteEntities
  <2>2. entity' \in [Entities -> Records \cup {Nothing}]
    BY <2>1 DEF TypeOK, WriteEntities
  <2>. QED BY <1>2, <2>2 DEF TypeOK, WriteEntities, memory
<1>4. \A l \in links' : SoundLink(l)
  BY DEF WriteEntities, store, memory
<1>5. ASSUME NEW v \in Workers PROVE SoundWorker(v)'
  <2>1. CASE v # w
    BY <2>1 DEF TypeOK, SoundWorker, WriteEntities, store, memory
  <2>2. CASE v = w
    BY <2>2 DEF TypeOK, SoundWorker, WriteEntities, store, memory
  <2>. QED BY <2>1, <2>2
<1>. QED BY <1>3, <1>4, <1>5

LEMMA WriteEventIInv ==
  ASSUME IInv, NEW w \in Workers, WriteEvent(w)
  PROVE  IInv'
<1>. USE DEF IInv
<1>. window[w] \in Windows /\ DOMAIN decided[w] \subseteq ClaimPositions(window[w])
  BY DEF TypeOK, ObjectsOK, SoundWorker, WriteEvent
<1>. DEFINE p == First(queue[w])
<1>1. /\ p \in queue[w]
      /\ p[2] = 0 => RecordAt(window[w], p) \in Records
      /\ p[2] # 0 => p \in DOMAIN decided[w]
  BY WritePosition DEF SoundWorker, WriteEvent
<1>2. /\ RecordAt(window[w], p) \in Records
      /\ EventLinks(RecordAt(window[w], p)) \in SUBSET Edges
      /\ \A l \in EventLinks(RecordAt(window[w], p)) : SoundLink(l)
  BY <1>1, EventLinksSound DEF SoundWorker, WriteEvent
<1>3. ASSUME NEW v \in Workers PROVE ObjectsOK(v)'
  BY DEF TypeOK, ObjectsOK, WriteEvent, store, memory
<1>4. TypeOK'
  BY <1>3, <1>2 DEF TypeOK, WriteEvent, ExtractedBody, store, memory
<1>5. \A l \in links' : SoundLink(l)
  BY DEF WriteEvent, store, memory
<1>6. ASSUME NEW v \in Workers PROVE SoundWorker(v)'
  <2>1. CASE v # w
    BY <2>1 DEF TypeOK, SoundWorker, WriteEvent, store, memory
  <2>2. CASE v = w
    BY <1>2, <2>2 DEF TypeOK, SoundWorker, WriteEvent, store, memory
  <2>. QED BY <2>1, <2>2
<1>. QED BY <1>4, <1>5, <1>6

LEMMA WriteClaimIInv ==
  ASSUME IInv, NEW w \in Workers, WriteClaim(w)
  PROVE  IInv'
<1>. USE DEF IInv
<1>. window[w] \in Windows /\ DOMAIN decided[w] \subseteq ClaimPositions(window[w])
  BY DEF TypeOK, ObjectsOK, SoundWorker, WriteClaim
<1>. DEFINE p == First(queue[w])
<1>1. /\ p \in queue[w]
      /\ p[2] = 0 => RecordAt(window[w], p) \in Records
      /\ p[2] # 0 => p \in DOMAIN decided[w]
  BY WritePosition DEF SoundWorker, WriteClaim
<1>2. p \in DOMAIN decided[w] /\ decided[w][p] \in Object
  BY <1>1 DEF TypeOK, ObjectsOK, WriteClaim
<1>3. /\ RowOf(decided[w][p]) \in Row
      /\ ClaimLinks(decided[w][p]) \in SUBSET Edges
      /\ \A l \in ClaimLinks(decided[w][p]) : SoundLink(l)
  BY <1>2, ClaimLinksSound DEF SoundWorker, RowOf, Row, Object
<1>4. ASSUME NEW v \in Workers PROVE ObjectsOK(v)'
  BY DEF TypeOK, ObjectsOK, WriteClaim, store, memory
<1>5. TypeOK'
  BY <1>4, <1>2, <1>3 DEF TypeOK, WriteClaim, store, memory
<1>6. \A l \in links' : SoundLink(l)
  BY DEF WriteClaim, store, memory
<1>7. ASSUME NEW v \in Workers PROVE SoundWorker(v)'
  <2>1. CASE v # w
    BY <2>1 DEF TypeOK, SoundWorker, WriteClaim, store, memory
  <2>2. CASE v = w
    BY <1>3, <2>2 DEF TypeOK, SoundWorker, WriteClaim, store, memory
  <2>. QED BY <2>1, <2>2
<1>. QED BY <1>5, <1>6, <1>7

LEMMA LinkIInv ==
  ASSUME IInv, NEW w \in Workers, Link(w)
  PROVE  IInv'
<1>. USE DEF IInv
<1>1. PICK l \in todo[w] :
        /\ links' = IF Stored(l.from) /\ Stored(l.to) THEN links \cup {l} ELSE links
        /\ todo' = [todo EXCEPT ![w] = todo[w] \ {l}]
        /\ IF l.rel = "SUPERSEDES"
           THEN /\ target' = [target EXCEPT ![w] = l.to]
                /\ pc' = [pc EXCEPT ![w] = "read"]
           ELSE UNCHANGED <<target, pc>>
  BY DEF Link
<1>2. l \in Edges /\ SoundLink(l)
  BY <1>1 DEF TypeOK, SoundWorker
<1>3. l.rel = "SUPERSEDES" => l.to \in Claims
  BY <1>2 DEF SoundLink
<1>4. ASSUME NEW v \in Workers PROVE ObjectsOK(v)'
  BY DEF TypeOK, ObjectsOK, Link, store, memory
<1>5. TypeOK'
  BY <1>4, <1>1, <1>2, <1>3 DEF TypeOK, Link, store, memory
<1>6. \A m \in links' : SoundLink(m)
  BY <1>1, <1>2
<1>7. ASSUME NEW v \in Workers PROVE SoundWorker(v)'
  <2>1. CASE v # w
    BY <2>1 DEF TypeOK, SoundWorker, Link, store, memory
  <2>2. CASE v = w
    BY <1>1, <1>3, <2>2 DEF TypeOK, SoundWorker, Link, memory
  <2>. QED BY <2>1, <2>2
<1>. QED BY <1>5, <1>6, <1>7

LEMMA ReadClaimIInv ==
  ASSUME IInv, NEW w \in Workers, ReadClaim(w)
  PROVE  IInv'
<1>. USE DEF IInv
<1>1. target[w] \in Claims /\ claim[target[w]] \in Row
  BY DEF TypeOK, SoundWorker, ReadClaim
<1>2. ASSUME NEW v \in Workers PROVE ObjectsOK(v)'
  BY DEF TypeOK, ObjectsOK, ReadClaim, store, memory
<1>3. TypeOK'
  BY <1>2, <1>1 DEF TypeOK, ReadClaim, store, memory
<1>4. \A l \in links' : SoundLink(l)
  BY DEF ReadClaim, store, memory
<1>5. ASSUME NEW v \in Workers PROVE SoundWorker(v)'
  <2>1. CASE v # w
    BY <2>1 DEF TypeOK, SoundWorker, ReadClaim, store, memory
  <2>2. CASE v = w
    BY <2>2 DEF TypeOK, SoundWorker, ReadClaim, store, memory
  <2>. QED BY <2>1, <2>2
<1>. QED BY <1>3, <1>4, <1>5

LEMMA MarkSupersededIInv ==
  ASSUME IInv, NEW w \in Workers, MarkSuperseded(w)
  PROVE  IInv'
<1>. USE DEF IInv
<1>1. target[w] \in Claims /\ copy[w] \in Row
  BY DEF TypeOK, SoundWorker, MarkSuperseded
<1>2. [copy[w] EXCEPT !.status = "superseded"] \in Row
  BY <1>1 DEF Row, Statuses
<1>3. ASSUME NEW v \in Workers PROVE ObjectsOK(v)'
  BY DEF TypeOK, ObjectsOK, MarkSuperseded, store, memory
<1>4. TypeOK'
  BY <1>3, <1>2, <1>1 DEF TypeOK, MarkSuperseded, store, memory, AbsentRow, Row, Statuses
<1>5. \A l \in links' : SoundLink(l)
  BY DEF MarkSuperseded, store, memory
<1>6. ASSUME NEW v \in Workers PROVE SoundWorker(v)'
  <2>1. CASE v # w
    BY <2>1 DEF TypeOK, SoundWorker, MarkSuperseded, store, memory
  <2>2. CASE v = w
    BY <2>2 DEF TypeOK, SoundWorker, MarkSuperseded, store, memory
  <2>. QED BY <2>1, <2>2
<1>. QED BY <1>4, <1>5, <1>6

LEMMA FinishIInv ==
  ASSUME IInv, NEW w \in Workers, Finish(w)
  PROVE  IInv'
<1>. USE DEF IInv
<1>1. ASSUME NEW v \in Workers PROVE ObjectsOK(v)'
  BY DEF TypeOK, ObjectsOK, Finish, Forget, store
<1>2. TypeOK'
  <2>1. window[w] \in Windows
    BY DEF SoundWorker, Finish
  <2>. QED BY <1>1, <2>1 DEF TypeOK, Finish, store, Forget, AbsentRow, Row, Statuses
<1>3. \A l \in links' : SoundLink(l)
  BY DEF Finish, store, memory
<1>4. ASSUME NEW v \in Workers PROVE SoundWorker(v)'
  <2>1. CASE v # w
    BY <2>1 DEF TypeOK, SoundWorker, Finish, Forget
  <2>2. CASE v = w
    BY <2>2 DEF TypeOK, SoundWorker, Finish, Forget
  <2>. QED BY <2>1, <2>2
<1>. QED BY <1>2, <1>3, <1>4

LEMMA CrashIInv ==
  ASSUME IInv, NEW w \in Workers, Crash(w)
  PROVE  IInv'
<1>. USE DEF IInv
<1>1. ASSUME NEW v \in Workers PROVE ObjectsOK(v)'
  BY DEF TypeOK, ObjectsOK, Crash, Forget, store
<1>2. TypeOK'
  BY <1>1, BoundAssumption DEF TypeOK, Crash, store, Forget, AbsentRow, Row, Statuses
<1>3. \A l \in links' : SoundLink(l)
  BY DEF Crash, store, memory
<1>4. ASSUME NEW v \in Workers PROVE SoundWorker(v)'
  <2>1. CASE v # w
    BY <2>1 DEF TypeOK, SoundWorker, Crash, Forget
  <2>2. CASE v = w
    BY <2>2 DEF TypeOK, SoundWorker, Crash, Forget
  <2>. QED BY <2>1, <2>2
<1>. QED BY <1>2, <1>3, <1>4

LEMMA CompareIInv ==
  ASSUME IInv, NEW w \in Workers, Compare(w)
  PROVE  IInv'
<1>. USE DEF IInv
<1>. DEFINE p == First(queue[w])
            c == ClaimAt(window[w], p)
            batch == decided[w]
            stored == {d \in ClaimsAbout(c) : Rivals(c, d) /\ claim[d].status = "active"}
            prior == {q \in DOMAIN batch : Rivals(c, batch[q].claim) /\ batch[q].status = "active"}
            rivals == stored \cup {batch[q].claim : q \in prior}
            older == {d \in rivals : Older(d, c)}
            same == {d \in rivals : AssertedAt(d) = AssertedAt(c)}
            Resolved(status) ==
              [q \in DOMAIN batch \cup {p} |->
                 IF q = p
                 THEN [claim |-> c, status |-> status, supersedes |-> older, contradicts |-> same]
                 ELSE IF q \in prior /\ Older(batch[q].claim, c)
                 THEN [batch[q] EXCEPT !.status = "superseded"]
                 ELSE batch[q]]
<1>1. PICK status \in Outcomes(c, stored, batch, prior) :
        decided' = [decided EXCEPT ![w] = Resolved(status)]
  BY DEF Compare
<1>2. /\ window[w] \in Windows /\ DOMAIN batch \subseteq ClaimPositions(window[w])
      /\ queue[w] \subseteq ClaimPositions(window[w]) /\ queue[w] # {}
      /\ queue[w] \in SUBSET (Nat \X Nat)
  BY DEF TypeOK, ObjectsOK, SoundWorker, Compare
<1>3. p \in queue[w] /\ p \in ClaimPositions(window[w]) /\ c \in Claims
  BY <1>2, FirstIsLeast, PositionsAreNatural
<1>4. status \in Statuses
  BY <1>1 DEF Outcomes, Verdict, Statuses
<1>5. \A q \in DOMAIN batch : batch[q] \in Object /\ batch[q].claim = ClaimAt(window[w], q)
  BY DEF TypeOK, ObjectsOK
<1>6. /\ stored \subseteq Claims /\ rivals \subseteq Claims
      /\ \A d \in rivals : Rivals(c, d)
  <2>1. stored \subseteq Claims
    BY DEF ClaimsAbout
  <2>2. \A q \in prior : batch[q].claim \in Claims /\ Rivals(c, batch[q].claim)
    BY <1>5 DEF Object
  <2>. QED BY <2>1, <2>2
<1>7. older \subseteq Claims /\ same \subseteq Claims /\ SoundFor(c, older, same)
  BY <1>6 DEF SoundFor
<1>. HIDE DEF c, batch, stored, prior, rivals, older, same
<1>8. /\ DOMAIN Resolved(status) = DOMAIN batch \cup {p}
      /\ \A q \in DOMAIN Resolved(status) :
           /\ q \in ClaimPositions(window[w])
           /\ Resolved(status)[q] \in Object
           /\ Resolved(status)[q].claim = ClaimAt(window[w], q)
           /\ SoundFor(Resolved(status)[q].claim, Resolved(status)[q].supersedes,
                       Resolved(status)[q].contradicts)
  <2>1. DOMAIN Resolved(status) = DOMAIN batch \cup {p}
    OBVIOUS
  <2>2. ASSUME NEW q \in DOMAIN batch \cup {p}
        PROVE  /\ Resolved(status)[q] \in Object
               /\ Resolved(status)[q].claim = ClaimAt(window[w], q)
               /\ SoundFor(Resolved(status)[q].claim, Resolved(status)[q].supersedes,
                           Resolved(status)[q].contradicts)
    <3>1. CASE q = p
      BY <3>1, <1>3, <1>4, <1>7 DEF Object, c
    <3>2. CASE q # p
      <4>1. /\ batch[q] \in Object
            /\ batch[q].claim = ClaimAt(window[w], q)
            /\ SoundFor(batch[q].claim, batch[q].supersedes, batch[q].contradicts)
        BY <3>2, <1>5 DEF SoundWorker, batch
      <4>. QED BY <3>2, <4>1 DEF Object, Statuses
    <3>. QED BY <3>1, <3>2
  <2>. QED BY <1>2, <1>3, <2>1, <2>2
<1>. HIDE DEF Resolved, p
<1>9. /\ decided' = [decided EXCEPT ![w] = Resolved(status)]
      /\ decided'[w] = Resolved(status)
      /\ \A v \in Workers : v # w => decided'[v] = decided[v]
      /\ DOMAIN decided' = Workers
  BY <1>1 DEF TypeOK
<1>10. ASSUME NEW v \in Workers PROVE ObjectsOK(v)'
  BY <1>8, <1>9 DEF TypeOK, ObjectsOK, Compare
<1>11. queue' \in [Workers -> SUBSET (Nat \X Nat)] /\ queue'[w] \subseteq queue[w]
       /\ \A v \in Workers : v # w => queue'[v] = queue[v]
  BY DEF TypeOK, Compare
<1>12. TypeOK'
  BY <1>9, <1>10, <1>11 DEF TypeOK, Compare, store
<1>13. \A l \in links' : SoundLink(l)
  BY DEF Compare, store
<1>14. ASSUME NEW v \in Workers PROVE SoundWorker(v)'
  <2>1. CASE v # w
    BY <2>1, <1>9, <1>11 DEF TypeOK, SoundWorker, Compare, store
  <2>2. CASE v = w
    BY <2>2, <1>2, <1>8, <1>9, <1>11 DEF TypeOK, SoundWorker, Compare, store
  <2>. QED BY <2>1, <2>2
<1>. QED BY <1>12, <1>13, <1>14

LEMMA NextIInv == IInv /\ [Next]_vars => IInv'
<1>1. ASSUME IInv, NEW w \in Workers, Fetch(w) \/ Step(w) \/ Crash(w)
      PROVE  IInv'
  BY <1>1, FetchIInv, LookUpIInv, CompareIInv, EncryptIInv, WriteEntitiesIInv,
     WriteEventIInv, WriteClaimIInv, LinkIInv, ReadClaimIInv, MarkSupersededIInv,
     FinishIInv, CrashIInv DEF Step
<1>2. ASSUME IInv, UNCHANGED vars PROVE IInv'
  BY <1>2 DEF IInv, TypeOK, ObjectsOK, SoundWorker, vars
<1>. QED BY <1>1, <1>2 DEF Next

-----------------------------------------------------------------------------
(* Theorems.                                                                *)

LEMMA InvariantHolds == Spec => []IInv
BY InitIInv, NextIInv, PTL DEF Spec

(* Every variable keeps its shape, however many jobs interleave and die.    *)
THEOREM TypeCorrect == Spec => []TypeOK
<1>1. IInv => TypeOK
  BY DEF IInv
<1>. QED BY <1>1, InvariantHolds, PTL

(* The relationships write creates never point forward in time, nor across  *)
(* topics: whatever two resolvers read of a store that changes under them,  *)
(* a claim supersedes only earlier rivals and contradicts only rivals of    *)
(* its own time.                                                            *)
THEOREM SupersessionAlwaysGoesBack == Spec => []SupersessionGoesBack
<1>1. IInv => SupersessionGoesBack
  BY DEF IInv, SoundLink, SupersessionGoesBack, Older
<1>. QED BY <1>1, InvariantHolds, PTL

(* An event that is stored holds its body if its record is not sensitive,   *)
(* and a sealed one if it is; nothing else is sealed.                       *)
BodiesInOrder ==
  /\ \A w \in Workers : sealed[w] \subseteq Sensitive
  /\ \A r \in Records : event[r] \in {"absent", IF r \in Sensitive THEN "sealed" ELSE "plain"}

LEMMA BodiesStayInOrder == Spec => []BodiesInOrder
<1>1. Init => BodiesInOrder
  BY DEF Init, BodiesInOrder
<1>2. TypeOK /\ BodiesInOrder /\ [Next]_vars => BodiesInOrder'
  <2>. SUFFICES ASSUME TypeOK, BodiesInOrder, [Next]_vars
                PROVE  BodiesInOrder'
    OBVIOUS
  <2>1. ASSUME NEW w \in Workers, Encrypt(w) PROVE BodiesInOrder'
    BY <2>1 DEF TypeOK, BodiesInOrder, Encrypt, store
  <2>2. ASSUME NEW w \in Workers, WriteEvent(w) PROVE BodiesInOrder'
    BY <2>2 DEF TypeOK, BodiesInOrder, WriteEvent, ExtractedBody, memory
  <2>3. ASSUME NEW w \in Workers, Finish(w) \/ Crash(w) PROVE BodiesInOrder'
    BY <2>3 DEF TypeOK, BodiesInOrder, Finish, Crash, Forget, store
  <2>4. ASSUME NEW w \in Workers,
               \/ Fetch(w) \/ LookUp(w) \/ Compare(w) \/ WriteEntities(w) \/ WriteClaim(w)
               \/ Link(w) \/ ReadClaim(w) \/ MarkSuperseded(w)
        PROVE  UNCHANGED <<event, sealed>>
    BY <2>4 DEF Fetch, LookUp, Compare, WriteEntities, WriteClaim, Link, ReadClaim,
                MarkSuperseded, store, memory
  <2>5. CASE UNCHANGED vars
    BY <2>5 DEF vars, BodiesInOrder
  <2>. QED BY <2>1, <2>2, <2>3, <2>4, <2>5 DEF Next, Step, BodiesInOrder
<1>. QED BY <1>1, <1>2, TypeCorrect, PTL DEF Spec

(* A body that was sealed and stored stays, whichever later runs over its   *)
(* record fail to seal it: an event of a sensitive record is written with a *)
(* sealed body or not at all, and no other event was ever sealed.           *)
THEOREM SealedBodiesAlwaysStay == Spec => SealedBodiesStay
<1>1. TypeOK /\ BodiesInOrder /\ [Next]_vars =>
        [\A r \in Records : event[r] = "sealed" => event'[r] = "sealed"]_vars
  <2>. SUFFICES ASSUME TypeOK, BodiesInOrder, [Next]_vars,
                       NEW r \in Records, event[r] = "sealed"
                PROVE  event'[r] = "sealed"
    OBVIOUS
  <2>1. r \in Sensitive
    BY DEF BodiesInOrder
  <2>2. ASSUME NEW w \in Workers, WriteEvent(w) PROVE event'[r] = "sealed"
    BY <2>1, <2>2 DEF TypeOK, WriteEvent, ExtractedBody
  <2>3. ASSUME NEW w \in Workers, Fetch(w) \/ (Step(w) /\ ~WriteEvent(w)) \/ Crash(w)
        PROVE  UNCHANGED event
    BY <2>3 DEF Step, Fetch, LookUp, Compare, Encrypt, WriteEntities, WriteClaim, Link,
                ReadClaim, MarkSuperseded, Finish, Crash, store
  <2>4. CASE UNCHANGED vars
    BY <2>4 DEF vars
  <2>. QED BY <2>2, <2>3, <2>4 DEF Next, Step
<1>. QED BY <1>1, BodiesStayInOrder, TypeCorrect, PTL DEF Spec, SealedBodiesStay
-----------------------------------------------------------------------------
(* What is stored stays, and what a worker has handled is stored.           *)

(* No step of the pipeline removes a claim, an event, an entity or a        *)
(* relationship.                                                            *)
LEMMA StoreGrows ==
  ASSUME IInv, [Next]_vars
  PROVE  /\ \A c \in Claims : Present(c) => Present(c)'
         /\ \A r \in Records : event[r] # "absent" => event'[r] # "absent"
         /\ \A e \in Entities : entity[e] # Nothing => entity'[e] # Nothing
         /\ links \subseteq links'
<1>. USE DEF IInv, Present
<1>1. ASSUME NEW w \in Workers, WriteEntities(w)
      PROVE  /\ UNCHANGED <<claim, event, links>>
             /\ \A e \in Entities : entity[e] # Nothing => entity'[e] # Nothing
  <2>. window[w] \in Windows /\ DOMAIN decided[w] \subseteq ClaimPositions(window[w])
    BY <1>1 DEF TypeOK, ObjectsOK, SoundWorker, WriteEntities
  <2>1. RecordAt(window[w], First(queue[w])) \in Records
    BY <1>1, WritePosition DEF SoundWorker, WriteEntities
  <2>. QED BY <1>1, <2>1, BoundAssumption DEF WriteEntities
<1>2. ASSUME NEW w \in Workers, WriteEvent(w)
      PROVE  /\ UNCHANGED <<claim, entity, links>>
             /\ \A r \in Records : event[r] # "absent" => event'[r] # "absent"
  BY <1>2 DEF WriteEvent, ExtractedBody, TypeOK
<1>3. ASSUME NEW w \in Workers, WriteClaim(w)
      PROVE  /\ UNCHANGED <<event, entity, links>>
             /\ \A c \in Claims : claim[c].status # "absent" => claim'[c].status # "absent"
  <2>. DEFINE p == First(queue[w])
  <2>. window[w] \in Windows /\ DOMAIN decided[w] \subseteq ClaimPositions(window[w])
    BY <1>3 DEF TypeOK, ObjectsOK, SoundWorker, WriteClaim
  <2>1. decided[w][p] \in Object
    BY <1>3, WritePosition DEF TypeOK, ObjectsOK, SoundWorker, WriteClaim
  <2>2. RowOf(decided[w][p]).status # "absent"
    BY <2>1 DEF RowOf, Object, Statuses
  <2>. QED BY <1>3, <2>2 DEF WriteClaim, TypeOK
<1>4. ASSUME NEW w \in Workers, Link(w)
      PROVE  UNCHANGED <<claim, event, entity>> /\ links \subseteq links'
  BY <1>4 DEF Link
<1>5. ASSUME NEW w \in Workers, MarkSuperseded(w)
      PROVE  /\ UNCHANGED <<event, entity, links>>
             /\ \A c \in Claims : claim[c].status # "absent" => claim'[c].status # "absent"
  <2>1. copy[w] \in Row
    BY DEF TypeOK
  <2>2. [copy[w] EXCEPT !.status = "superseded"].status # "absent"
    BY <2>1 DEF Row
  <2>. QED BY <1>5, <2>2 DEF MarkSuperseded, TypeOK
<1>6. ASSUME NEW w \in Workers,
             \/ Fetch(w) \/ LookUp(w) \/ Compare(w) \/ Encrypt(w) \/ ReadClaim(w)
             \/ Finish(w) \/ Crash(w)
      PROVE  UNCHANGED store
  BY <1>6 DEF Fetch, LookUp, Compare, Encrypt, ReadClaim, Finish, Crash
<1>7. CASE UNCHANGED vars
  BY <1>7 DEF vars
<1>. QED BY <1>1, <1>2, <1>3, <1>4, <1>5, <1>6, <1>7 DEF Next, Step, store

(* Nothing that a MATCH finds is lost to a later one.                       *)
LEMMA StoredStays ==
  ASSUME IInv, [Next]_vars, NEW n, Stored(n)
  PROVE  Stored(n)'
BY StoreGrows DEF Stored

(* The positions a node has handled come before those it has still to.      *)
Before(p, q) == ~NotAfter(q, p)

Writing == {"write", "event", "read", "mark"}

RecordWritten(w, r) ==
  /\ \A e \in Mentions[r] : entity[e] # Nothing
  /\ r \in Sensitive \ sealed[w] \/ event[r] # "absent"

(* A claim of the window is still to be handled, or held as an object, or   *)
(* in the store, because resolve found it there or because write stored it; *)
(* a record is still to be handled or stored with its entities.             *)
HandlesInOrder(w) ==
  /\ pc[w] \in {"resolve", "compare"} =>
       /\ \A p \in DOMAIN decided[w], q \in queue[w] : Before(p, q)
       /\ \A p \in ClaimPositions(window[w]) :
            p \in queue[w] \/ p \in DOMAIN decided[w] \/ Present(ClaimAt(window[w], p))
  /\ pc[w] \in Writing =>
       /\ \A p \in ClaimPositions(window[w]) : p \in queue[w] \/ Present(ClaimAt(window[w], p))
       /\ \A k \in DOMAIN window[w] : <<k, 0>> \in queue[w] \/ RecordWritten(w, window[w][k])
  /\ pc[w] = "event" =>
       \A e \in Mentions[RecordAt(window[w], First(queue[w]))] : entity[e] # Nothing
  /\ pc[w] = "mark" => Present(target[w])

(* Claim d is in the store, or an object of worker w.                       *)
Known(w, d) == Present(d) \/ \E q \in DOMAIN decided[w] : decided[w][q].claim = d

(* Claim d is in the store, or an object of an earlier position than p.     *)
KnownBefore(w, p, d) ==
  Present(d) \/ \E q \in DOMAIN decided[w] : Before(q, p) /\ decided[w][q].claim = d

(* What an object refers to is stored before the object is; what retired it *)
(* is stored or will be.                                                    *)
GroundedObject(w, p, o) ==
  /\ \A d \in o.supersedes \cup o.contradicts : KnownBefore(w, p, d)
  /\ o.status = "superseded" =>
       \E d \in Claims : Rivals(o.claim, d) /\ Older(o.claim, d) /\ Known(w, d)
  /\ o.status = "contradicted" =>
       \E d \in Claims : /\ Rivals(o.claim, d) /\ AssertedAt(o.claim) = AssertedAt(d)
                         /\ KnownBefore(w, p, d)

GroundedLink(l) ==
  /\ l.rel \in {"SUPERSEDES", "CONTRADICTS"} =>
       l.from \in Claims /\ Present(l.from) /\ l.to \in Claims /\ Present(l.to)
  /\ l.from \in Claims /\ l.rel # "CITES" => Stored(l.from) /\ Stored(l.to)

Grounded(w) ==
  /\ \A p \in DOMAIN decided[w] : GroundedObject(w, p, decided[w][p])
  /\ \A l \in todo[w] : GroundedLink(l)
  /\ pc[w] \in {"read", "mark"} =>
       \E d \in Claims : Present(d) /\ Edge(d, "SUPERSEDES", target[w]) \in links

WInv == \A w \in Workers : HandlesInOrder(w) /\ Grounded(w)

LEMMA WindowsHoldRecords ==
  ASSUME NEW win \in Windows \cup {<<>>}, NEW k \in DOMAIN win
  PROVE  k \in Nat /\ win[k] \in Records /\ Mentions[win[k]] \subseteq Entities
<1>1. Windows \subseteq Seq(Records) /\ Mentions \in [Records -> SUBSET Entities]
  BY DataAssumption
<1>2. win \in Seq(Records)
  <2>1. CASE win \in Windows
    BY <1>1, <2>1
  <2>2. CASE win = <<>>
    BY <2>2
  <2>. QED BY <2>1, <2>2
<1>3. k \in Nat /\ win[k] \in Records
  BY <1>2
<1>. QED BY <1>1, <1>3

(* What objects and relationships refer to does not go away.                *)
LEMMA GroundStays ==
  ASSUME IInv, [Next]_vars, NEW v \in Workers, Grounded(v)
  PROVE  /\ decided'[v] = decided[v] =>
              \A p \in DOMAIN decided[v] : GroundedObject(v, p, decided[v][p])'
         /\ \A l \in todo[v] : GroundedLink(l)'
<1>. USE DEF IInv
<1>1. /\ \A c \in Claims : Present(c) => Present(c)'
      /\ \A n : Stored(n) => Stored(n)'
  BY StoreGrows, StoredStays
<1>2. ASSUME decided'[v] = decided[v], NEW p \in DOMAIN decided[v]
      PROVE  GroundedObject(v, p, decided[v][p])'
  <2>1. decided[v][p].supersedes \cup decided[v][p].contradicts \subseteq Claims
    BY DEF TypeOK, ObjectsOK, Object
  <2>2. \A d \in Claims : /\ Known(v, d) => Known(v, d)'
                          /\ KnownBefore(v, p, d) => KnownBefore(v, p, d)'
    BY <1>1, <1>2 DEF Known, KnownBefore
  <2>. QED BY <1>2, <2>1, <2>2 DEF Grounded, GroundedObject
<1>3. ASSUME NEW l \in todo[v] PROVE GroundedLink(l)'
  BY <1>1 DEF Grounded, GroundedLink
<1>. QED BY <1>2, <1>3

(* What a worker has handled stays handled while others write.              *)
LEMMA OthersDoNotDisturb ==
  ASSUME IInv, [Next]_vars, NEW v \in Workers, HandlesInOrder(v), Grounded(v),
         UNCHANGED <<pc[v], window[v], queue[v], decided[v], sealed[v], todo[v], target[v]>>
  PROVE  HandlesInOrder(v)' /\ Grounded(v)'
<1>. USE DEF IInv
<1>1. /\ \A c \in Claims : Present(c) => Present(c)'
      /\ \A r \in Records : event[r] # "absent" => event'[r] # "absent"
      /\ \A e \in Entities : entity[e] # Nothing => entity'[e] # Nothing
      /\ links \subseteq links'
      /\ \A n : Stored(n) => Stored(n)'
  BY StoreGrows, StoredStays
<1>2. Windows \subseteq Seq(Records) /\ Mentions \in [Records -> SUBSET Entities]
  BY DataAssumption
<1>3. \A k \in DOMAIN window[v] : window[v][k] \in Records
  BY <1>2 DEF TypeOK
<1>4. \A k \in DOMAIN window[v] : RecordWritten(v, window[v][k]) => RecordWritten(v, window[v][k])'
  BY <1>1, <1>2, <1>3 DEF RecordWritten
<1>5. HandlesInOrder(v)'
  <2>1. ASSUME pc[v] \in {"resolve", "compare"}
        PROVE  /\ \A p \in DOMAIN decided[v], q \in queue[v] : Before(p, q)
               /\ \A p \in ClaimPositions(window[v]) :
                    p \in queue[v] \/ p \in DOMAIN decided[v] \/ Present(ClaimAt(window[v], p))'
    BY <2>1, <1>1, PositionsAreNatural DEF HandlesInOrder, TypeOK
  <2>2. ASSUME pc[v] \in Writing
        PROVE  /\ \A p \in ClaimPositions(window[v]) :
                    p \in queue[v] \/ Present(ClaimAt(window[v], p))'
               /\ \A k \in DOMAIN window[v] :
                    <<k, 0>> \in queue[v] \/ RecordWritten(v, window[v][k])'
    BY <2>2, <1>1, <1>4, PositionsAreNatural DEF HandlesInOrder, TypeOK
  <2>3. ASSUME pc[v] = "event"
        PROVE  \A e \in Mentions[RecordAt(window[v], First(queue[v]))] : entity'[e] # Nothing
    <3>1. DOMAIN decided[v] \subseteq ClaimPositions(window[v]) /\ window[v] \in Windows
      BY <2>3 DEF TypeOK, ObjectsOK, SoundWorker
    <3>2. RecordAt(window[v], First(queue[v])) \in Records
      BY <2>3, <3>1, WritePosition DEF SoundWorker
    <3>. QED BY <2>3, <3>2, <1>1, <1>2 DEF HandlesInOrder
  <2>4. ASSUME pc[v] = "mark" PROVE Present(target[v])'
    BY <2>4, <1>1 DEF HandlesInOrder, SoundWorker
  <2>. QED BY <2>1, <2>2, <2>3, <2>4 DEF HandlesInOrder, Writing
<1>6. Grounded(v)'
  <2>1. /\ \A p \in DOMAIN decided[v] : GroundedObject(v, p, decided[v][p])'
        /\ \A l \in todo[v] : GroundedLink(l)'
    BY GroundStays
  <2>2. ASSUME pc[v] \in {"read", "mark"}
        PROVE  \E d \in Claims : Present(d)' /\ Edge(d, "SUPERSEDES", target[v]) \in links'
    BY <2>2, <1>1 DEF Grounded
  <2>. QED BY <2>1, <2>2 DEF Grounded
<1>. QED BY <1>5, <1>6

(* A step of one worker leaves the memory of the others alone.              *)
LEMMA OwnMemoryOnly ==
  ASSUME IInv, WInv, NEW w \in Workers, Fetch(w) \/ Step(w) \/ Crash(w),
         HandlesInOrder(w)', Grounded(w)'
  PROVE  WInv'
<1>. SUFFICES ASSUME NEW v \in Workers, v # w
              PROVE  HandlesInOrder(v)' /\ Grounded(v)'
  BY DEF WInv
<1>1. UNCHANGED <<pc[v], window[v], queue[v], decided[v], sealed[v], todo[v], target[v]>>
  <2>1. CASE Fetch(w)
    BY <2>1 DEF Fetch, IInv, TypeOK
  <2>2. CASE LookUp(w)
    BY <2>2 DEF LookUp, memory, IInv, TypeOK
  <2>3. CASE Compare(w)
    BY <2>3 DEF Compare, memory, IInv, TypeOK
  <2>4. CASE Encrypt(w)
    BY <2>4 DEF Encrypt, memory, IInv, TypeOK
  <2>5. CASE WriteEntities(w) \/ WriteEvent(w) \/ WriteClaim(w)
    BY <2>5 DEF WriteEntities, WriteEvent, WriteClaim, memory, IInv, TypeOK
  <2>6. CASE Link(w) \/ ReadClaim(w) \/ MarkSuperseded(w)
    BY <2>6 DEF Link, ReadClaim, MarkSuperseded, memory, IInv, TypeOK
  <2>7. CASE Finish(w) \/ Crash(w)
    BY <2>7 DEF Finish, Crash, Forget, IInv, TypeOK
  <2>. QED BY <2>1, <2>2, <2>3, <2>4, <2>5, <2>6, <2>7 DEF Step
<1>. QED BY <1>1, OthersDoNotDisturb DEF WInv, Next

LEMMA FetchWInv ==
  ASSUME IInv, WInv, NEW w \in Workers, Fetch(w)
  PROVE  WInv'
<1>1. HandlesInOrder(w)'
  <2>1. decided'[w] = decided[w] /\ DOMAIN decided[w] = {} /\ pc'[w] = "resolve"
    BY DEF Fetch, IInv, TypeOK, SoundWorker
  <2>2. queue'[w] = ClaimPositions(window'[w])
    BY DEF Fetch, IInv, TypeOK
  <2>. QED BY <2>1, <2>2 DEF HandlesInOrder, Writing
<1>2. Grounded(w)'
  BY GroundStays DEF WInv, Fetch, IInv, TypeOK, Grounded, Next
<1>. QED BY <1>1, <1>2, OwnMemoryOnly

LEMMA LookUpWInv ==
  ASSUME IInv, WInv, NEW w \in Workers, LookUp(w)
  PROVE  WInv'
<1>. DEFINE p == First(queue[w])
<1>1. /\ pc[w] = "resolve" /\ pc'[w] \in {"resolve", "compare"}
      /\ UNCHANGED <<store, memory, todo, target>>
      /\ \/ queue'[w] = queue[w]
         \/ Present(ClaimAt(window[w], p)) /\ queue'[w] = queue[w] \ {p}
  BY DEF LookUp, IInv, TypeOK
<1>2. HandlesInOrder(w)'
  BY <1>1 DEF WInv, HandlesInOrder, Writing, Present, store, memory
<1>3. Grounded(w)'
  <2>1. \A q \in DOMAIN decided[w] : GroundedObject(w, q, decided[w][q])'
    BY <1>1, GroundStays DEF WInv, memory, Next, Step
  <2>. QED BY <1>1, <2>1, GroundStays DEF WInv, Grounded, memory, Next, Step
<1>. QED BY <1>2, <1>3, OwnMemoryOnly DEF Step

LEMMA EncryptWInv ==
  ASSUME IInv, WInv, NEW w \in Workers, Encrypt(w)
  PROVE  WInv'
<1>1. /\ pc[w] = "resolve" /\ pc'[w] = "write" /\ queue[w] = {}
      /\ queue'[w] = RecordPositions(window[w]) \cup DOMAIN decided[w]
      /\ UNCHANGED <<store, window, decided, todo, target>>
  BY DEF Encrypt, IInv, TypeOK
<1>2. HandlesInOrder(w)'
  <2>1. \A k \in DOMAIN window[w] : <<k, 0>> \in queue'[w]
    BY <1>1 DEF RecordPositions
  <2>. QED BY <1>1, <2>1 DEF WInv, HandlesInOrder, Writing, Present, store
<1>3. Grounded(w)'
  <2>1. /\ \A q \in DOMAIN decided[w] : GroundedObject(w, q, decided[w][q])'
        /\ \A l \in todo[w] : GroundedLink(l)'
    BY <1>1, GroundStays DEF WInv, Next, Step
  <2>. QED BY <1>1, <2>1 DEF Grounded
<1>. QED BY <1>2, <1>3, OwnMemoryOnly DEF Step

LEMMA WriteEntitiesWInv ==
  ASSUME IInv, WInv, NEW w \in Workers, WriteEntities(w)
  PROVE  WInv'
<1>. DEFINE p == First(queue[w])
            r == RecordAt(window[w], p)
<1>1. /\ pc[w] = "write" /\ pc'[w] = "event"
      /\ entity' = [e \in Entities |-> IF e \in Mentions[r] THEN r ELSE entity[e]]
      /\ UNCHANGED <<claim, event, links, memory, queue, todo, target>>
  BY DEF WriteEntities, IInv, TypeOK
<1>2. r \in Records /\ r # Nothing /\ Mentions[r] \subseteq Entities
  <2>. window[w] \in Windows /\ DOMAIN decided[w] \subseteq ClaimPositions(window[w])
    BY <1>1 DEF IInv, TypeOK, ObjectsOK, SoundWorker
  <2>1. r \in Records
    BY <1>1, WritePosition DEF IInv, SoundWorker, WriteEntities
  <2>. QED BY <2>1, BoundAssumption, DataAssumption
<1>. HIDE DEF r
<1>3. HandlesInOrder(w)'
  <2>1. \A e \in Mentions[r] : entity'[e] # Nothing
    BY <1>1, <1>2
  <2>2. \A e \in Entities : entity[e] # Nothing => entity'[e] # Nothing
    BY <1>1, <1>2
  <2>3. \A k \in DOMAIN window[w] : window[w][k] \in Records /\ Mentions[window[w][k]] \subseteq Entities
    BY WindowsHoldRecords DEF IInv, TypeOK
  <2>4. \A k \in DOMAIN window[w] : RecordWritten(w, window[w][k]) => RecordWritten(w, window[w][k])'
    BY <1>1, <2>2, <2>3 DEF RecordWritten, memory
  <2>5. window'[w] = window[w] /\ queue'[w] = queue[w] /\ claim' = claim
    BY <1>1 DEF memory
  <2>6. /\ \A q \in ClaimPositions(window[w]) : q \in queue[w] \/ Present(ClaimAt(window[w], q))'
        /\ \A k \in DOMAIN window[w] : <<k, 0>> \in queue[w] \/ RecordWritten(w, window[w][k])'
    BY <1>1, <2>4, <2>5 DEF WInv, HandlesInOrder, Writing, Present
  <2>. QED BY <1>1, <2>1, <2>5, <2>6 DEF HandlesInOrder, Writing, r
<1>4. Grounded(w)'
  <2>1. /\ \A q \in DOMAIN decided[w] : GroundedObject(w, q, decided[w][q])'
        /\ \A l \in todo[w] : GroundedLink(l)'
    BY <1>1, GroundStays DEF WInv, Next, Step, memory
  <2>. QED BY <1>1, <2>1 DEF Grounded, memory
<1>. QED BY <1>3, <1>4, OwnMemoryOnly DEF Step

LEMMA WriteEventWInv ==
  ASSUME IInv, WInv, NEW w \in Workers, WriteEvent(w)
  PROVE  WInv'
<1>. SUFFICES ASSUME NEW p, p = First(queue[w]), NEW r, r = RecordAt(window[w], p)
              PROVE  WInv'
  OBVIOUS
<1>1. /\ pc[w] = "event" /\ pc'[w] = "write"
      /\ queue'[w] = queue[w] \ {p}
      /\ \/ /\ r \in Sensitive /\ r \notin sealed[w] /\ UNCHANGED <<event, todo>>
         \/ /\ event' = [event EXCEPT ![r] = IF r \in sealed[w] THEN "sealed" ELSE ExtractedBody(r)]
            /\ todo'[w] = EventLinks(r)
      /\ UNCHANGED <<claim, entity, links, memory, target>>
  BY DEF WriteEvent, IInv, TypeOK
<1>2. window[w] \in Windows /\ DOMAIN decided[w] \subseteq ClaimPositions(window[w])
  BY <1>1 DEF IInv, TypeOK, ObjectsOK, SoundWorker
<1>3. p[2] = 0 /\ r \in Records
  BY <1>1, <1>2, WritePosition DEF IInv, SoundWorker
<1>4. \A e \in Mentions[r] : entity[e] # Nothing
  BY <1>1 DEF WInv, HandlesInOrder
<1>5. r \in Sensitive \ sealed[w] \/ event'[r] # "absent"
  BY <1>1, <1>3 DEF IInv, TypeOK, ExtractedBody
<1>6. p \in queue[w] /\ p \in Nat \X Nat
  <2>1. queue[w] \in SUBSET (Nat \X Nat) /\ queue[w] # {}
    BY <1>1 DEF IInv, TypeOK, SoundWorker
  <2>. QED BY <2>1, FirstIsLeast
<1>7. HandlesInOrder(w)'
  <2>1. \A k \in Nat : p = <<k, 0>> => window[w][k] = r
    BY <1>6 DEF RecordAt
  <2>2. ASSUME NEW k \in DOMAIN window[w], <<k, 0>> \notin queue[w] \ {p}
        PROVE  RecordWritten(w, window[w][k])'
    <3>1. k \in Nat /\ window[w][k] \in Records /\ Mentions[window[w][k]] \subseteq Entities
      BY <1>2, WindowsHoldRecords
    <3>2. CASE <<k, 0>> = p
      BY <2>1, <3>1, <3>2, <1>1, <1>4, <1>5 DEF RecordWritten, memory
    <3>3. CASE <<k, 0>> \notin queue[w]
      <4>1. RecordWritten(w, window[w][k])
        BY <1>1, <3>3 DEF WInv, HandlesInOrder, Writing
      <4>2. event[window[w][k]] # "absent" => event'[window[w][k]] # "absent"
        BY <3>1, StoreGrows DEF Next, Step
      <4>. QED BY <1>1, <4>1, <4>2 DEF RecordWritten, memory
    <3>. QED BY <2>2, <3>2, <3>3
  <2>3. \A q \in ClaimPositions(window[w]) : q # p
    BY <1>2, <1>3, PositionsAreNatural
  <2>4. \A q \in ClaimPositions(window[w]) : q \in queue'[w] \/ Present(ClaimAt(window[w], q))
    BY <1>1, <2>3 DEF WInv, HandlesInOrder, Writing
  <2>. QED BY <1>1, <2>2, <2>4 DEF HandlesInOrder, Writing, memory, Present
<1>8. Grounded(w)'
  <2>1. /\ \A q \in DOMAIN decided[w] : GroundedObject(w, q, decided[w][q])'
        /\ \A l \in todo[w] : GroundedLink(l)'
    BY <1>1, GroundStays DEF WInv, Next, Step, memory
  <2>2. ASSUME event'[r] # "absent" PROVE \A l \in EventLinks(r) : GroundedLink(l)'
    <3>1. \A e \in Mentions[r] : e \in Entities /\ Stored(e)'
      BY <1>1, <1>3, <1>4, DataAssumption DEF Stored
    <3>2. Stored(r)'
      BY <2>2, <1>3 DEF Stored
    <3>3. \A l \in EventLinks(r) : \/ l.rel = "CITES"
                                   \/ /\ l.rel = "MENTIONS" /\ l.from = r
                                      /\ l.to \in Mentions[r]
      BY DEF EventLinks, Edge
    <3>. QED BY <3>1, <3>2, <3>3 DEF GroundedLink
  <2>3. \A l \in todo'[w] : GroundedLink(l)'
    <3>1. CASE UNCHANGED <<event, todo>>
      BY <2>1, <3>1
    <3>2. CASE /\ event' = [event EXCEPT ![r] = IF r \in sealed[w] THEN "sealed" ELSE ExtractedBody(r)]
               /\ todo'[w] = EventLinks(r)
      <4>1. event'[r] # "absent"
        BY <1>3, <3>2 DEF IInv, TypeOK, ExtractedBody
      <4>. QED BY <2>2, <3>2, <4>1
    <3>. QED BY <1>1, <3>1, <3>2
  <2>. QED BY <1>1, <2>1, <2>3 DEF Grounded, memory
<1>. QED BY <1>7, <1>8, OwnMemoryOnly DEF Step

(* A claim is written at its turn: the positions before its own are done.   *)
LEMMA TurnOfAClaim ==
  ASSUME IInv, WInv, NEW w \in Workers, WriteClaim(w),
         NEW p, p = First(queue[w]), NEW c, c = decided[w][p].claim
  PROVE  /\ p \in queue[w] /\ \A q \in queue[w] : NotAfter(p, q)
         /\ p \in DOMAIN decided[w] /\ decided[w][p] \in Object
         /\ p \in ClaimPositions(window[w]) /\ c = ClaimAt(window[w], p)
         /\ c \in Claims /\ RecordOf[c] = window[w][p[1]]
         /\ RecordOf[c] \in Records /\ RecordWritten(w, RecordOf[c])
<1>1. pc[w] = "write" /\ p[2] # 0 /\ queue[w] # {}
  BY DEF WriteClaim
<1>2. window[w] \in Windows /\ DOMAIN decided[w] \subseteq ClaimPositions(window[w])
      /\ queue[w] \in SUBSET (Nat \X Nat)
  BY <1>1 DEF IInv, TypeOK, ObjectsOK, SoundWorker
<1>3. p \in queue[w] /\ \A q \in queue[w] : NotAfter(p, q)
  BY <1>1, <1>2, FirstIsLeast
<1>4. p \in DOMAIN decided[w]
  BY <1>1, <1>2, WritePosition DEF IInv, SoundWorker
<1>5. /\ decided[w][p] \in Object /\ c = ClaimAt(window[w], p) /\ c \in Claims
      /\ p \in ClaimPositions(window[w])
  BY <1>4 DEF IInv, TypeOK, ObjectsOK, Object
<1>6. p[1] \in DOMAIN window[w] /\ p[2] \in DOMAIN ClaimsOf[window[w][p[1]]]
  BY <1>5 DEF ClaimPositions
<1>7. window[w][p[1]] \in Records
  BY <1>2, <1>6, WindowsHoldRecords
<1>8. RecordOf[c] = window[w][p[1]]
  BY <1>5, <1>6, <1>7, DataAssumption DEF ClaimAt
<1>9. <<p[1], 0>> \notin queue[w]
  BY <1>1, <1>2, <1>3 DEF NotAfter
<1>. QED BY <1>1, <1>3, <1>4, <1>5, <1>6, <1>7, <1>8, <1>9 DEF WInv, HandlesInOrder, Writing

LEMMA WriteClaimWInv ==
  ASSUME IInv, WInv, NEW w \in Workers, WriteClaim(w)
  PROVE  WInv'
<1>. SUFFICES ASSUME NEW p, p = First(queue[w]), NEW o, o = decided[w][p],
                     NEW c, c = o.claim, NEW r, r = window[w][p[1]]
              PROVE  WInv'
  OBVIOUS
<1>1. /\ pc[w] = "write" /\ pc'[w] = "write" /\ p[2] # 0 /\ queue[w] # {}
      /\ claim' = [claim EXCEPT ![c] = RowOf(o)]
      /\ todo'[w] = ClaimLinks(o)
      /\ queue'[w] = queue[w] \ {p}
      /\ UNCHANGED <<event, entity, links, memory, target>>
  BY DEF WriteClaim, IInv, TypeOK
<1>2. window[w] \in Windows /\ DOMAIN decided[w] \subseteq ClaimPositions(window[w])
      /\ queue[w] \in SUBSET (Nat \X Nat)
  BY <1>1 DEF IInv, TypeOK, ObjectsOK, SoundWorker
<1>3. /\ p \in queue[w] /\ \A q \in queue[w] : NotAfter(p, q)
      /\ p \in DOMAIN decided[w] /\ o \in Object /\ c = ClaimAt(window[w], p)
      /\ p \in ClaimPositions(window[w]) /\ c \in Claims
  BY TurnOfAClaim
<1>4. r \in Records /\ RecordOf[c] = r /\ RecordWritten(w, r)
  BY TurnOfAClaim
<1>5. /\ \A d \in Claims : Present(d) => Present(d)'
      /\ Present(c)'
  <2>1. RowOf(o).status # "absent"
    BY <1>3 DEF RowOf, Object, Statuses
  <2>. QED BY <1>1, <1>3, <2>1 DEF Present, IInv, TypeOK
<1>6. HandlesInOrder(w)'
  <2>1. \A q \in ClaimPositions(window[w]) : ClaimAt(window[w], q) \in Claims
    BY <1>2, PositionsAreNatural
  <2>2. \A q \in ClaimPositions(window[w]) : q \in queue'[w] \/ Present(ClaimAt(window[w], q))'
    BY <1>1, <1>3, <1>5, <2>1 DEF WInv, HandlesInOrder, Writing, memory
  <2>3. \A k \in DOMAIN window[w] : <<k, 0>> # p
    BY <1>1, <1>3
  <2>4. \A k \in DOMAIN window[w] : <<k, 0>> \in queue'[w] \/ RecordWritten(w, window[w][k])
    BY <1>1, <2>3 DEF WInv, HandlesInOrder, Writing
  <2>5. \A k \in DOMAIN window[w] : RecordWritten(w, window[w][k]) => RecordWritten(w, window[w][k])'
    BY <1>1 DEF RecordWritten, memory
  <2>. QED BY <1>1, <2>2, <2>4, <2>5 DEF HandlesInOrder, Writing, memory
<1>7. \A d \in o.supersedes \cup o.contradicts : d \in Claims /\ Present(d)'
  <2>. SUFFICES ASSUME NEW d \in o.supersedes \cup o.contradicts PROVE d \in Claims /\ Present(d)'
    OBVIOUS
  <2>1. d \in Claims
    BY <1>3 DEF Object
  <2>2. KnownBefore(w, p, d)
    BY <1>3 DEF WInv, Grounded, GroundedObject
  <2>3. ASSUME NEW q \in DOMAIN decided[w], Before(q, p), decided[w][q].claim = d
        PROVE  Present(d)
    <3>1. q \notin queue[w]
      BY <1>3, <2>3 DEF Before
    <3>2. q \in ClaimPositions(window[w]) /\ d = ClaimAt(window[w], q)
      BY <2>3 DEF IInv, TypeOK, ObjectsOK
    <3>. QED BY <1>1, <3>1, <3>2 DEF WInv, HandlesInOrder, Writing
  <2>. QED BY <1>5, <2>1, <2>2, <2>3 DEF KnownBefore
<1>8. Grounded(w)'
  <2>1. \A q \in DOMAIN decided[w] : GroundedObject(w, q, decided[w][q])'
    BY <1>1, GroundStays DEF WInv, Next, Step, memory
  <2>2. o.claim = c
    OBVIOUS
  <2>3. \A e \in About[c] \cup Owed[c] : e \in Entities /\ Stored(e)'
    <3>1. About[c] \cup Owed[c] \subseteq Mentions[r] /\ Mentions[r] \subseteq Entities
      BY <1>3, <1>4, DataAssumption
    <3>. QED BY <1>1, <1>4, <3>1 DEF RecordWritten, Stored
  <2>4. Stored(c)' /\ \A d \in Claims : Present(d)' => Stored(d)'
    BY <1>3, <1>5 DEF Stored
  <2>5. ASSUME NEW l \in ClaimLinks(o) PROVE GroundedLink(l)'
    <3>1. CASE l.rel = "CITES"
      BY <3>1 DEF GroundedLink
    <3>2. CASE l.from = c /\ l.rel \in {"ABOUT", "OWED"} /\ l.to \in About[c] \cup Owed[c]
      BY <3>2, <2>3, <2>4 DEF GroundedLink
    <3>3. CASE l.from = c /\ l.to \in o.supersedes \cup o.contradicts
      BY <3>3, <1>3, <1>5, <1>7, <2>4 DEF GroundedLink
    <3>. QED BY <2>2, <3>1, <3>2, <3>3, LinkOfClaim
  <2>. QED BY <1>1, <2>1, <2>5 DEF Grounded, memory
<1>. QED BY <1>6, <1>8, OwnMemoryOnly DEF Step

LEMMA LinkWInv ==
  ASSUME IInv, WInv, NEW w \in Workers, Link(w)
  PROVE  WInv'
<1>1. PICK l \in todo[w] :
        /\ links' = IF Stored(l.from) /\ Stored(l.to) THEN links \cup {l} ELSE links
        /\ todo' = [todo EXCEPT ![w] = todo[w] \ {l}]
        /\ IF l.rel = "SUPERSEDES"
           THEN /\ target' = [target EXCEPT ![w] = l.to]
                /\ pc' = [pc EXCEPT ![w] = "read"]
           ELSE UNCHANGED <<target, pc>>
  BY DEF Link
<1>2. /\ pc[w] = "write" /\ todo'[w] = todo[w] \ {l}
      /\ UNCHANGED <<claim, event, entity, memory, queue>>
      /\ l.rel = "SUPERSEDES" => target'[w] = l.to /\ pc'[w] = "read"
      /\ l.rel # "SUPERSEDES" => pc'[w] = "write"
  BY <1>1 DEF Link, IInv, TypeOK
<1>3. HandlesInOrder(w)'
  <2>1. \A k \in DOMAIN window[w] : RecordWritten(w, window[w][k]) => RecordWritten(w, window[w][k])'
    BY <1>2 DEF RecordWritten, memory
  <2>. QED BY <1>2, <2>1 DEF WInv, HandlesInOrder, Writing, Present, memory
<1>4. Grounded(w)'
  <2>1. /\ \A q \in DOMAIN decided[w] : GroundedObject(w, q, decided[w][q])'
        /\ \A m \in todo[w] : GroundedLink(m)'
    BY <1>2, GroundStays DEF WInv, Next, Step, memory
  <2>2. ASSUME l.rel = "SUPERSEDES"
        PROVE  \E d \in Claims : Present(d)' /\ Edge(d, "SUPERSEDES", l.to) \in links'
    <3>1. l \in Edges /\ l.from \in Claims /\ Present(l.from) /\ l.to \in Claims /\ Present(l.to)
      BY <2>2 DEF IInv, TypeOK, WInv, Grounded, GroundedLink
    <3>2. l = Edge(l.from, "SUPERSEDES", l.to)
      BY <2>2, <3>1 DEF Edge, Edges
    <3>3. l \in links'
      BY <1>1, <3>1 DEF Stored
    <3>. QED BY <1>2, <3>1, <3>2, <3>3 DEF Present
  <2>. QED BY <1>2, <2>1, <2>2 DEF Grounded, memory
<1>. QED BY <1>3, <1>4, OwnMemoryOnly DEF Step

LEMMA ReadClaimWInv ==
  ASSUME IInv, WInv, NEW w \in Workers, ReadClaim(w)
  PROVE  WInv'
<1>1. /\ pc[w] = "read" /\ pc'[w] = (IF Present(target[w]) THEN "mark" ELSE "write")
      /\ UNCHANGED <<store, memory, queue, todo, target>>
  BY DEF ReadClaim, IInv, TypeOK
<1>2. HandlesInOrder(w)'
  <2>1. \A k \in DOMAIN window[w] : RecordWritten(w, window[w][k]) => RecordWritten(w, window[w][k])'
    BY <1>1 DEF RecordWritten, memory, store
  <2>. QED BY <1>1, <2>1 DEF WInv, HandlesInOrder, Writing, Present, memory, store
<1>3. Grounded(w)'
  <2>1. /\ \A q \in DOMAIN decided[w] : GroundedObject(w, q, decided[w][q])'
        /\ \A m \in todo[w] : GroundedLink(m)'
    BY <1>1, GroundStays DEF WInv, Next, Step, memory
  <2>. QED BY <1>1, <2>1 DEF WInv, Grounded, Present, memory, store
<1>. QED BY <1>2, <1>3, OwnMemoryOnly DEF Step

LEMMA MarkSupersededWInv ==
  ASSUME IInv, WInv, NEW w \in Workers, MarkSuperseded(w)
  PROVE  WInv'
<1>1. /\ pc[w] = "mark" /\ pc'[w] = "write"
      /\ UNCHANGED <<event, entity, links, memory, queue, todo>>
  BY DEF MarkSuperseded, IInv, TypeOK
<1>2. \A c \in Claims : Present(c) => Present(c)'
  BY StoreGrows DEF Next, Step
<1>3. HandlesInOrder(w)'
  <2>1. \A k \in DOMAIN window[w] : RecordWritten(w, window[w][k]) => RecordWritten(w, window[w][k])'
    BY <1>1 DEF RecordWritten, memory
  <2>2. \A q \in ClaimPositions(window[w]) : ClaimAt(window[w], q) \in Claims
    BY PositionsAreNatural DEF IInv, TypeOK
  <2>3. \A q \in ClaimPositions(window[w]) : q \in queue[w] \/ Present(ClaimAt(window[w], q))'
    BY <1>1, <1>2, <2>2 DEF WInv, HandlesInOrder, Writing, memory
  <2>. QED BY <1>1, <2>1, <2>3 DEF WInv, HandlesInOrder, Writing, memory
<1>4. Grounded(w)'
  <2>1. /\ \A q \in DOMAIN decided[w] : GroundedObject(w, q, decided[w][q])'
        /\ \A m \in todo[w] : GroundedLink(m)'
    BY <1>1, GroundStays DEF WInv, Next, Step, memory
  <2>. QED BY <1>1, <2>1 DEF Grounded, memory
<1>. QED BY <1>3, <1>4, OwnMemoryOnly DEF Step

LEMMA ForgetWInv ==
  ASSUME IInv, WInv, NEW w \in Workers, Finish(w) \/ Crash(w)
  PROVE  WInv'
<1>1. /\ pc'[w] = "idle" /\ decided'[w] = <<>> /\ todo'[w] = {}
  BY DEF Finish, Crash, Forget, IInv, TypeOK
<1>2. HandlesInOrder(w)' /\ Grounded(w)'
  BY <1>1 DEF HandlesInOrder, Grounded, Writing
<1>. QED BY <1>2, OwnMemoryOnly DEF Step

(* What resolve makes of the next claim, given what it read.                *)
LEMMA CompareResolves ==
  ASSUME IInv, NEW w \in Workers, Compare(w)
  PROVE  LET p == First(queue[w])
             c == ClaimAt(window[w], p)
         IN  /\ p \in queue[w] /\ \A q \in queue[w] : NotAfter(p, q)
             /\ c \in Claims /\ DOMAIN decided'[w] = DOMAIN decided[w] \cup {p}
             /\ decided'[w][p].claim = c /\ queue'[w] = queue[w] \ {p}
             /\ \A d \in decided'[w][p].supersedes \cup decided'[w][p].contradicts :
                  Present(d) \/ \E q \in DOMAIN decided[w] : decided[w][q].claim = d
             /\ decided'[w][p].status = "superseded" =>
                  \E d \in Claims : /\ Rivals(c, d) /\ Older(c, d)
                                    /\ Present(d) \/ \E q \in DOMAIN decided[w] : decided[w][q].claim = d
             /\ decided'[w][p].status = "contradicted" =>
                  \E d \in Claims : /\ Rivals(c, d) /\ AssertedAt(c) = AssertedAt(d)
                                    /\ Present(d) \/ \E q \in DOMAIN decided[w] : decided[w][q].claim = d
             /\ \A q \in DOMAIN decided[w] \ {p} :
                  \/ decided'[w][q] = decided[w][q]
                  \/ /\ decided[w][q].status = "active" /\ Rivals(decided[w][q].claim, c)
                     /\ Older(decided[w][q].claim, c)
                     /\ decided'[w][q] = [decided[w][q] EXCEPT !.status = "superseded"]
             /\ \A d \in decided'[w][p].supersedes :
                  \/ Present(d) /\ claim[d].status = "active"
                  \/ \E q \in DOMAIN decided[w] :
                       decided[w][q].claim = d /\ (q # p => decided'[w][q].status = "superseded")
<1>. USE DEF IInv
<1>. DEFINE p == First(queue[w])
            c == ClaimAt(window[w], p)
            batch == decided[w]
            stored == {d \in ClaimsAbout(c) : Rivals(c, d) /\ claim[d].status = "active"}
            prior == {q \in DOMAIN batch : Rivals(c, batch[q].claim) /\ batch[q].status = "active"}
            rivals == stored \cup {batch[q].claim : q \in prior}
            older == {d \in rivals : Older(d, c)}
            same == {d \in rivals : AssertedAt(d) = AssertedAt(c)}
            Resolved(status) ==
              [q \in DOMAIN batch \cup {p} |->
                 IF q = p
                 THEN [claim |-> c, status |-> status, supersedes |-> older, contradicts |-> same]
                 ELSE IF q \in prior /\ Older(batch[q].claim, c)
                 THEN [batch[q] EXCEPT !.status = "superseded"]
                 ELSE batch[q]]
<1>1. PICK status \in Outcomes(c, stored, batch, prior) :
        decided' = [decided EXCEPT ![w] = Resolved(status)]
  BY DEF Compare
<1>2. decided'[w] = Resolved(status) /\ queue'[w] = queue[w] \ {p}
  BY <1>1 DEF TypeOK, Compare
<1>3. /\ p \in queue[w] /\ p \in ClaimPositions(window[w]) /\ c \in Claims
      /\ \A q \in queue[w] : NotAfter(p, q)
  <2>1. /\ window[w] \in Windows /\ queue[w] \subseteq ClaimPositions(window[w])
        /\ queue[w] # {} /\ queue[w] \in SUBSET (Nat \X Nat)
    BY DEF TypeOK, SoundWorker, Compare
  <2>. QED BY <2>1, FirstIsLeast, PositionsAreNatural
<1>4. \A d \in rivals : /\ d \in Claims /\ Rivals(c, d)
                        /\ Present(d) \/ \E q \in DOMAIN batch : batch[q].claim = d
  <2>1. \A d \in stored : d \in Claims /\ Present(d)
    BY DEF ClaimsAbout
  <2>2. \A q \in DOMAIN batch : batch[q].claim \in Claims
    BY DEF TypeOK, ObjectsOK, Object
  <2>. QED BY <2>1, <2>2
<1>5. status # "active" =>
        \E d \in rivals : ~Older(d, c) /\ status = Verdict(c, d)
  <2>. DEFINE later == {q \in prior : ~Older(batch[q].claim, c)}
              rest == {d \in stored : ~Older(d, c)}
  <2>1. CASE later # {}
    <3>1. status = Verdict(c, batch[Last(later)].claim)
      BY <1>1, <2>1 DEF Outcomes
    <3>2. Last(later) \in later
      <4>1. window[w] \in Windows \cup {<<>>} /\ later \subseteq ClaimPositions(window[w])
        BY DEF TypeOK, ObjectsOK
      <4>. QED BY <2>1, <4>1, LastIsGreatest
    <3>. QED BY <3>1, <3>2
  <2>2. CASE later = {}
    BY <1>1, <2>2 DEF Outcomes
  <2>. QED BY <2>1, <2>2
<1>6. \A d \in rivals : ~Older(d, c) =>
        /\ Verdict(c, d) = "superseded" => Older(c, d)
        /\ Verdict(c, d) = "contradicted" => AssertedAt(c) = AssertedAt(d)
  <2>1. \A d \in Claims : AssertedAt(d) \in Nat
    BY DataAssumption DEF AssertedAt
  <2>. QED BY <1>3, <1>4, <2>1 DEF Older, Verdict
<1>7. \A q \in prior : Rivals(batch[q].claim, c) /\ batch[q].status = "active"
                       /\ batch[q] \in Object
  BY DEF Rivals, TypeOK, ObjectsOK
<1>12. \A d \in older :
         \/ Present(d) /\ claim[d].status = "active"
         \/ \E q \in prior : q \in DOMAIN batch /\ batch[q].claim = d /\ Older(batch[q].claim, c)
  BY DEF ClaimsAbout
<1>. HIDE DEF p, c, batch, stored, prior, rivals, older, same
<1>8. /\ DOMAIN decided'[w] = DOMAIN batch \cup {p}
      /\ decided'[w][p] = [claim |-> c, status |-> status, supersedes |-> older, contradicts |-> same]
      /\ \A q \in DOMAIN batch \ {p} :
           decided'[w][q] = IF q \in prior /\ Older(batch[q].claim, c)
                            THEN [batch[q] EXCEPT !.status = "superseded"] ELSE batch[q]
  BY <1>2
<1>9. older \subseteq rivals /\ same \subseteq rivals
  BY DEF older, same
<1>10. \A d \in decided'[w][p].supersedes \cup decided'[w][p].contradicts :
         Present(d) \/ \E q \in DOMAIN batch : batch[q].claim = d
  BY <1>4, <1>8, <1>9
<1>11. /\ status = "superseded" =>
            \E d \in Claims : /\ Rivals(c, d) /\ Older(c, d)
                              /\ Present(d) \/ \E q \in DOMAIN batch : batch[q].claim = d
       /\ status = "contradicted" =>
            \E d \in Claims : /\ Rivals(c, d) /\ AssertedAt(c) = AssertedAt(d)
                              /\ Present(d) \/ \E q \in DOMAIN batch : batch[q].claim = d
  BY <1>4, <1>5, <1>6
<1>13. \A d \in decided'[w][p].supersedes :
         \/ Present(d) /\ claim[d].status = "active"
         \/ \E q \in DOMAIN batch :
              batch[q].claim = d /\ (q # p => decided'[w][q].status = "superseded")
  <2>1. decided'[w][p].supersedes = older
    BY <1>8
  <2>2. ASSUME NEW q \in prior, q \in DOMAIN batch, q # p, Older(batch[q].claim, c)
        PROVE  decided'[w][q].status = "superseded"
    <3>1. decided'[w][q] = [batch[q] EXCEPT !.status = "superseded"]
      BY <1>8, <2>2
    <3>. QED BY <1>7, <3>1 DEF Object
  <2>. QED BY <1>12, <2>1, <2>2
<1>14. \A q \in DOMAIN batch \ {p} :
         \/ decided'[w][q] = batch[q]
         \/ /\ batch[q].status = "active" /\ Rivals(batch[q].claim, c)
            /\ Older(batch[q].claim, c)
            /\ decided'[w][q] = [batch[q] EXCEPT !.status = "superseded"]
  BY <1>7, <1>8
<1>15. /\ DOMAIN decided'[w] = DOMAIN batch \cup {p}
       /\ decided'[w][p].claim = c /\ decided'[w][p].status = status
  BY <1>8
<1>. QED BY <1>2, <1>3, <1>10, <1>11, <1>13, <1>14, <1>15 DEF p, c, batch

LEMMA CompareWInv ==
  ASSUME IInv, WInv, NEW w \in Workers, Compare(w)
  PROVE  WInv'
<1>. SUFFICES ASSUME NEW p, p = First(queue[w]), NEW c, c = ClaimAt(window[w], p)
              PROVE  WInv'
  OBVIOUS
<1>1. /\ p \in queue[w] /\ \A q \in queue[w] : NotAfter(p, q)
      /\ c \in Claims /\ DOMAIN decided'[w] = DOMAIN decided[w] \cup {p}
      /\ decided'[w][p].claim = c /\ queue'[w] = queue[w] \ {p}
      /\ \A d \in decided'[w][p].supersedes \cup decided'[w][p].contradicts :
           Present(d) \/ \E q \in DOMAIN decided[w] : decided[w][q].claim = d
      /\ decided'[w][p].status = "superseded" =>
           \E d \in Claims : /\ Rivals(c, d) /\ Older(c, d)
                             /\ Present(d) \/ \E q \in DOMAIN decided[w] : decided[w][q].claim = d
      /\ decided'[w][p].status = "contradicted" =>
           \E d \in Claims : /\ Rivals(c, d) /\ AssertedAt(c) = AssertedAt(d)
                             /\ Present(d) \/ \E q \in DOMAIN decided[w] : decided[w][q].claim = d
      /\ \A q \in DOMAIN decided[w] \ {p} :
           \/ decided'[w][q] = decided[w][q]
           \/ /\ Rivals(decided[w][q].claim, c) /\ Older(decided[w][q].claim, c)
              /\ decided'[w][q] = [decided[w][q] EXCEPT !.status = "superseded"]
  BY CompareResolves
<1>2. /\ pc[w] = "compare" /\ pc'[w] = "resolve"
      /\ UNCHANGED <<store, window, sealed, todo, target>>
  BY DEF Compare, IInv, TypeOK
<1>3. /\ queue[w] \in SUBSET (Nat \X Nat) /\ DOMAIN decided[w] \in SUBSET (Nat \X Nat)
      /\ \A q \in DOMAIN decided[w] : decided[w][q] \in Object
  <2>1. DOMAIN decided[w] \subseteq ClaimPositions(window[w])
    BY DEF IInv, TypeOK, ObjectsOK
  <2>. QED BY <2>1, PositionsAreNatural DEF IInv, TypeOK, ObjectsOK
<1>4. \A q \in DOMAIN decided[w] : q # p /\ Before(q, p)
  <2>1. \A q \in DOMAIN decided[w] : Before(q, p)
    BY <1>1, <1>2 DEF WInv, HandlesInOrder
  <2>2. ~Before(p, p)
    BY <1>1, <1>3 DEF Before, NotAfter
  <2>. QED BY <2>1, <2>2
<1>5. \A q \in DOMAIN decided[w] :
        /\ q \in DOMAIN decided'[w] /\ decided'[w][q].claim = decided[w][q].claim
        /\ decided'[w][q].supersedes = decided[w][q].supersedes
        /\ decided'[w][q].contradicts = decided[w][q].contradicts
        /\ \/ decided'[w][q].status = decided[w][q].status
           \/ /\ decided'[w][q].status = "superseded"
              /\ Rivals(decided[w][q].claim, c) /\ Older(decided[w][q].claim, c)
  <2>. SUFFICES ASSUME NEW q \in DOMAIN decided[w], NEW o \in Object, o = decided[w][q],
                       NEW n, n = decided'[w][q]
       PROVE  /\ n.claim = o.claim /\ n.supersedes = o.supersedes /\ n.contradicts = o.contradicts
              /\ \/ n.status = o.status
                 \/ n.status = "superseded" /\ Rivals(o.claim, c) /\ Older(o.claim, c)
    BY <1>1, <1>3
  <2>1. \/ n = o
        \/ Rivals(o.claim, c) /\ Older(o.claim, c) /\ n = [o EXCEPT !.status = "superseded"]
    BY <1>1, <1>4
  <2>. QED BY <2>1 DEF Object
<1>6. HandlesInOrder(w)'
  <2>1. \A q \in queue'[w] : Before(p, q)
    BY <1>1, <1>3 DEF Before, NotAfter
  <2>2. \A q \in DOMAIN decided'[w], r \in queue'[w] : Before(q, r)
    BY <1>1, <1>2, <2>1 DEF WInv, HandlesInOrder
  <2>3. \A q \in ClaimPositions(window[w]) :
          q \in queue'[w] \/ q \in DOMAIN decided'[w] \/ Present(ClaimAt(window[w], q))
    BY <1>1, <1>2 DEF WInv, HandlesInOrder
  <2>. QED BY <1>2, <2>2, <2>3 DEF HandlesInOrder, Writing, Present, store
<1>7. Grounded(w)'
  <2>1. \A d \in Claims : Present(d) = Present(d)'
    BY <1>2 DEF Present, store
  <2>2. \A d \in Claims : Known(w, d) => Known(w, d)'
    BY <1>5, <2>1 DEF Known
  <2>3. ASSUME NEW d \in Claims, Present(d) \/ \E q \in DOMAIN decided[w] : decided[w][q].claim = d
        PROVE  Known(w, d)' /\ KnownBefore(w, p, d)'
    BY <1>4, <1>5, <2>1, <2>3 DEF Known, KnownBefore
  <2>4. GroundedObject(w, p, decided[w][p])'
    <3>1. \A d \in decided'[w][p].supersedes \cup decided'[w][p].contradicts : d \in Claims
      <4>1. decided'[w][p] \in Object
        BY <1>1, CompareIInv DEF IInv, TypeOK, ObjectsOK
      <4>. QED BY <4>1 DEF Object
    <3>. QED BY <1>1, <2>3, <3>1 DEF GroundedObject
  <2>5. ASSUME NEW q \in DOMAIN decided[w] PROVE GroundedObject(w, q, decided[w][q])'
    <3>1. GroundedObject(w, q, decided[w][q])
      BY DEF WInv, Grounded
    <3>2. \A d \in Claims : KnownBefore(w, q, d) => KnownBefore(w, q, d)'
      BY <1>5, <2>1 DEF KnownBefore
    <3>3. decided[w][q].supersedes \cup decided[w][q].contradicts \subseteq Claims
      BY <1>3 DEF Object
    <3>4. Known(w, c)'
      BY <1>1 DEF Known
    <3>. QED BY <1>1, <1>5, <2>2, <3>1, <3>2, <3>3, <3>4 DEF GroundedObject
  <2>6. \A l \in todo[w] : GroundedLink(l)'
    BY GroundStays DEF WInv, Next, Step
  <2>. QED BY <1>1, <1>2, <2>4, <2>5, <2>6 DEF Grounded
<1>. QED BY <1>6, <1>7, OwnMemoryOnly DEF Step

LEMMA NextWInv == IInv /\ WInv /\ [Next]_vars => WInv'
<1>1. ASSUME IInv, WInv, NEW w \in Workers, Fetch(w) \/ Step(w) \/ Crash(w)
      PROVE  WInv'
  BY <1>1, FetchWInv, LookUpWInv, CompareWInv, EncryptWInv, WriteEntitiesWInv,
     WriteEventWInv, WriteClaimWInv, LinkWInv, ReadClaimWInv, MarkSupersededWInv,
     ForgetWInv DEF Step
<1>2. ASSUME IInv, WInv, UNCHANGED vars PROVE WInv'
  BY <1>2, OthersDoNotDisturb DEF WInv, vars
<1>. QED BY <1>1, <1>2 DEF Next

LEMMA WriteOrderHolds == Spec => []WInv
<1>1. Init => WInv
  BY DEF Init, WInv, HandlesInOrder, Grounded, Writing
<1>. QED BY <1>1, NextWInv, InvariantHolds, PTL DEF Spec

(* Only write brings a claim into the store.                                *)
LEMMA AppearsWhenWritten ==
  ASSUME IInv, WInv, [Next]_vars, NEW c \in Claims, ~Present(c), Present(c)'
  PROVE  \E w \in Workers : WriteClaim(w) /\ decided[w][First(queue[w])].claim = c
<1>1. ASSUME NEW w \in Workers, WriteClaim(w), decided[w][First(queue[w])].claim # c
      PROVE  FALSE
  BY <1>1 DEF WriteClaim, Present, IInv, TypeOK
<1>2. ASSUME NEW w \in Workers, MarkSuperseded(w)
      PROVE  FALSE
  <2>1. Present(target[w])
    BY <1>2 DEF WInv, HandlesInOrder, MarkSuperseded
  <2>2. claim'[c] = claim[c]
    BY <1>2, <2>1 DEF MarkSuperseded, IInv, TypeOK
  <2>. QED BY <2>2 DEF Present
<1>3. ASSUME NEW w \in Workers, Fetch(w) \/ (Step(w) /\ ~WriteClaim(w) /\ ~MarkSuperseded(w)) \/ Crash(w)
      PROVE  UNCHANGED claim
  BY <1>3 DEF Step, Fetch, LookUp, Compare, Encrypt, WriteEntities, WriteEvent, Link,
              ReadClaim, Finish, Crash, store
<1>4. CASE UNCHANGED vars
  BY <1>4 DEF vars, Present
<1>. QED BY <1>1, <1>2, <1>3, <1>4 DEF Next, Step, Present

-----------------------------------------------------------------------------
(* Theorems about the order of the writes.                                  *)

(* Every step of every job adds to the store or marks what is there:        *)
(* Neo4jStore has no other writes, so nothing that was found is gone later. *)
THEOREM NothingStoredIsRemoved ==
  Spec => [][/\ \A n : Stored(n) => Stored(n)'
             /\ links \subseteq links']_vars
<1>1. IInv /\ [Next]_vars => [/\ \A n : Stored(n) => Stored(n)'
                             /\ links \subseteq links']_vars
  BY StoreGrows, StoredStays
<1>. QED BY <1>1, InvariantHolds, PTL DEF Spec

(* write handles the entities and the event of a record before its claims,  *)
(* and a claim before those that supersede or contradict it: no MATCH of    *)
(* store.link fails and drops a relationship of a claim, whatever the other *)
(* workers do.                                                              *)
THEOREM ClaimLinksAlwaysLand == Spec => []NoClaimLinkIsLost
<1>1. WInv => NoClaimLinkIsLost
  BY DEF WInv, Grounded, GroundedLink, NoClaimLinkIsLost
<1>. QED BY <1>1, WriteOrderHolds, PTL

(* A claim of an ordinary record is never in the store without the event it *)
(* is derived from, wherever a worker dies.                                 *)
THEOREM PlainClaimsAlwaysHaveTheirEvent == Spec => []PlainClaimHasItsEvent
<1>1. Init => PlainClaimHasItsEvent
  BY DEF Init, PlainClaimHasItsEvent, Present, AbsentRow
<1>2. IInv /\ WInv /\ PlainClaimHasItsEvent /\ [Next]_vars => PlainClaimHasItsEvent'
  <2>. SUFFICES ASSUME IInv, WInv, PlainClaimHasItsEvent, [Next]_vars,
                       NEW c \in Claims, Present(c)', RecordOf[c] \notin Sensitive
                PROVE  event'[RecordOf[c]] # "absent"
    BY DEF PlainClaimHasItsEvent
  <2>1. RecordOf[c] \in Records
    BY DataAssumption
  <2>2. CASE Present(c)
    BY <2>1, <2>2, StoreGrows DEF PlainClaimHasItsEvent
  <2>3. CASE ~Present(c)
    <3>1. PICK w \in Workers : WriteClaim(w) /\ decided[w][First(queue[w])].claim = c
      BY <2>3, AppearsWhenWritten
    <3>2. RecordWritten(w, RecordOf[c])
      BY <3>1, TurnOfAClaim
    <3>. QED BY <2>1, <3>2, StoreGrows DEF RecordWritten
  <2>. QED BY <2>2, <2>3
<1>. QED BY <1>1, <1>2, InvariantHolds, WriteOrderHolds, PTL DEF Spec
(* Claim d is stored, or in the part of an object list still to be written. *)
Coming(d) ==
  \/ Present(d)
  \/ \E w \in Workers : \E p \in DOMAIN decided[w] :
       decided[w][p].claim = d /\ p \in queue[w]

(* What is coming keeps coming until it is there, unless a job dies.        *)
LEMMA ComingComes ==
  ASSUME IInv, WInv, [Next]_vars, crashes' = crashes, NEW d \in Claims, Coming(d)
  PROVE  Coming(d)'
<1>. USE DEF IInv
<1>1. CASE Present(d)
  BY <1>1, StoreGrows DEF Coming
<1>2. ASSUME NEW w \in Workers, NEW p \in DOMAIN decided[w],
             decided[w][p].claim = d, p \in queue[w]
      PROVE  Coming(d)'
  <2>1. p \in ClaimPositions(window[w]) /\ p \in Nat \X (Nat \ {0})
    BY PositionsAreNatural DEF TypeOK, ObjectsOK
  <2>2. pc[w] \in Writing
    <3>1. pc[w] # "idle"
      BY DEF SoundWorker
    <3>2. pc[w] \notin {"resolve", "compare"}
      <4>1. ~Before(p, p)
        BY <2>1 DEF Before, NotAfter
      <4>. QED BY <1>2, <4>1 DEF WInv, HandlesInOrder
    <3>. QED BY <3>1, <3>2 DEF TypeOK, Writing
  <2>3. CASE decided'[w] = decided[w] /\ p \in queue'[w]
    BY <1>2, <2>3 DEF Coming
  <2>4. CASE WriteClaim(w)
    <3>1. CASE p = First(queue[w])
      <4>1. RowOf(decided[w][p]).status # "absent"
        BY DEF TypeOK, ObjectsOK, Object, Statuses, RowOf
      <4>2. claim' = [claim EXCEPT ![d] = RowOf(decided[w][p])]
        BY <1>2, <2>4, <3>1 DEF WriteClaim
      <4>. QED BY <4>1, <4>2 DEF Coming, Present, TypeOK
    <3>2. CASE p # First(queue[w])
      BY <1>2, <2>3, <2>4, <3>2 DEF WriteClaim, memory, TypeOK
    <3>. QED BY <3>1, <3>2
  <2>5. CASE WriteEvent(w)
    <3>1. First(queue[w])[2] = 0
      BY <2>5 DEF SoundWorker, WriteEvent
    <3>2. p # First(queue[w])
      BY <2>1, <3>1
    <3>. QED BY <1>2, <2>3, <2>5, <3>2 DEF WriteEvent, memory, TypeOK
  <2>6. CASE WriteEntities(w) \/ Link(w) \/ ReadClaim(w) \/ MarkSuperseded(w)
    BY <1>2, <2>3, <2>6 DEF WriteEntities, Link, ReadClaim, MarkSuperseded, memory, TypeOK
  <2>7. ~Fetch(w) /\ ~LookUp(w) /\ ~Compare(w) /\ ~Encrypt(w) /\ ~Finish(w)
    BY <1>2, <2>2 DEF Fetch, LookUp, Compare, Encrypt, Finish, Writing
  <2>8. ASSUME NEW v \in Workers, Crash(v) PROVE FALSE
    BY <2>8 DEF Crash, TypeOK
  <2>9. ASSUME NEW v \in Workers, v # w, Fetch(v) \/ Step(v)
        PROVE  decided'[w] = decided[w] /\ queue'[w] = queue[w]
    BY <2>9 DEF Step, Fetch, LookUp, Compare, Encrypt, WriteEntities, WriteEvent, WriteClaim,
                Link, ReadClaim, MarkSuperseded, Finish, Forget, memory, TypeOK
  <2>10. CASE UNCHANGED vars
    BY <1>2, <2>3, <2>10 DEF vars
  <2>. QED BY <1>2, <2>3, <2>4, <2>5, <2>6, <2>7, <2>8, <2>9, <2>10 DEF Next, Step
<1>. QED BY <1>1, <1>2 DEF Coming

(* Without deaths a claim is superseded only for a rival of a later time    *)
(* that is stored or will be: neither write nor the two halves of           *)
(* set_claim_status ever retire a claim for one that does not come, whoever *)
(* interleaves with them.                                                   *)
THEOREM SupersededAlwaysForAReason == Spec => []SupersededForAReason
<1>1. Init => SupersededForAReason
  BY DEF Init, SupersededForAReason, AbsentRow
<1>2. IInv /\ WInv /\ SupersededForAReason /\ [Next]_vars => SupersededForAReason'
  <2>. SUFFICES ASSUME IInv, WInv, SupersededForAReason, [Next]_vars, crashes' = 0,
                       NEW c \in Claims, claim'[c].status = "superseded"
                PROVE  \E d \in Claims : Rivals(c, d) /\ Older(c, d) /\ Coming(d)'
    BY DEF SupersededForAReason, Coming
  <2>1. crashes' = crashes
    <3>1. ASSUME NEW w \in Workers, Crash(w) PROVE FALSE
      BY <3>1 DEF Crash, IInv, TypeOK
    <3>2. ASSUME NEW w \in Workers, Fetch(w) \/ Step(w) PROVE crashes' = crashes
      BY <3>2 DEF Step, Fetch, LookUp, Compare, Encrypt, WriteEntities, WriteEvent, WriteClaim,
                  Link, ReadClaim, MarkSuperseded, Finish
    <3>. QED BY <3>1, <3>2 DEF Next, vars
  <2>2. CASE claim[c].status = "superseded"
    <3>1. PICK d \in Claims : Rivals(c, d) /\ Older(c, d) /\ Coming(d)
      BY <2>1, <2>2 DEF SupersededForAReason, Coming
    <3>. QED BY <2>1, <3>1, ComingComes
  <2>3. ASSUME claim[c].status # "superseded", NEW w \in Workers, WriteClaim(w)
        PROVE  \E d \in Claims : Rivals(c, d) /\ Older(c, d) /\ Coming(d)'
    <3>. DEFINE p == First(queue[w])
    <3>1. p \in DOMAIN decided[w] /\ decided[w][p] \in Object
      BY <2>3, TurnOfAClaim
    <3>2. c = decided[w][p].claim /\ decided[w][p].status = "superseded"
      <4>1. claim' = [claim EXCEPT ![decided[w][p].claim] = RowOf(decided[w][p])]
        BY <2>3 DEF WriteClaim
      <4>. QED BY <2>3, <4>1 DEF IInv, TypeOK, RowOf
    <3>3. PICK d \in Claims : Rivals(c, d) /\ Older(c, d) /\ Known(w, d)
      BY <3>1, <3>2 DEF WInv, Grounded, GroundedObject
    <3>4. Coming(d)
      <4>1. ASSUME NEW q \in DOMAIN decided[w], decided[w][q].claim = d
            PROVE  Coming(d)
        <5>1. q \in ClaimPositions(window[w]) /\ d = ClaimAt(window[w], q)
          BY <4>1 DEF IInv, TypeOK, ObjectsOK
        <5>2. q \in queue[w] \/ Present(d)
          BY <2>3, <5>1 DEF WInv, HandlesInOrder, Writing, WriteClaim
        <5>. QED BY <4>1, <5>2 DEF Coming
      <4>. QED BY <3>3, <4>1 DEF Known, Coming
    <3>. QED BY <2>1, <3>3, <3>4, ComingComes
  <2>4. ASSUME claim[c].status # "superseded", NEW w \in Workers, MarkSuperseded(w)
        PROVE  \E d \in Claims : Rivals(c, d) /\ Older(c, d) /\ Coming(d)'
    <3>1. c = target[w]
      BY <2>4 DEF MarkSuperseded, IInv, TypeOK
    <3>2. PICK d \in Claims : Present(d) /\ Edge(d, "SUPERSEDES", c) \in links
      BY <2>4, <3>1 DEF WInv, Grounded, MarkSuperseded
    <3>3. Rivals(c, d) /\ Older(c, d)
      BY <3>2 DEF IInv, SoundLink, Edge, Rivals
    <3>. QED BY <2>1, <3>2, <3>3, ComingComes DEF Coming
  <2>5. ASSUME NEW w \in Workers,
               Fetch(w) \/ (Step(w) /\ ~WriteClaim(w) /\ ~MarkSuperseded(w)) \/ Crash(w)
        PROVE  UNCHANGED claim
    BY <2>5 DEF Step, Fetch, LookUp, Compare, Encrypt, WriteEntities, WriteEvent, Link,
                ReadClaim, Finish, Crash, store
  <2>6. CASE UNCHANGED vars
    BY <2>2, <2>6 DEF vars
  <2>. QED BY <2>2, <2>3, <2>4, <2>5, <2>6 DEF Next, Step
<1>. QED BY <1>1, <1>2, InvariantHolds, WriteOrderHolds, PTL DEF Spec

-----------------------------------------------------------------------------
(* One worker.  Between the two halves of set_claim_status another worker   *)
(* may write the claim (MCOverwrite), so what follows is about one worker   *)
(* on the queue, as scripts/orchestrator_smoke.sh starts it.                *)
OneWorker == \E w : Workers = {w}

(* Claim ids are derived from the event and the statement (stable_id), so a *)
(* window in which no record and no statement comes twice has no claim      *)
(* twice.                                                                   *)
NoClaimTwice ==
  \A win \in Windows : \A p, q \in ClaimPositions(win) :
    ClaimAt(win, p) = ClaimAt(win, q) => p = q

(* A claim an object supersedes is stored as active or superseded, or it is *)
(* an object that is superseded itself.                                     *)
Demoted(w, d) ==
  /\ Present(d) => claim[d].status # "contradicted"
  /\ ~Present(d) => \A q \in DOMAIN decided[w] :
                      decided[w][q].claim = d => decided[w][q].status = "superseded"

(* The objects a worker has still to write, and the claim it is resolving,  *)
(* are not in the store.                                                    *)
Unstored(w) ==
  /\ \A p \in DOMAIN decided[w] :
       (pc[w] \in {"resolve", "compare"} \/ p \in queue[w]) => ~Present(decided[w][p].claim)
  /\ pc[w] = "compare" => ~Present(ClaimAt(window[w], First(queue[w])))

(* What a worker supersedes can be retired, and what it marks is as it has  *)
(* read it.                                                                 *)
Retires(w) ==
  /\ \A p \in DOMAIN decided[w] : \A d \in decided[w][p].supersedes : Demoted(w, d)
  /\ \A l \in todo[w] : l.rel = "SUPERSEDES" => claim[l.to].status # "contradicted"
  /\ pc[w] \in {"read", "mark"} => claim[target[w]].status # "contradicted"
  /\ pc[w] = "mark" => copy[w] = claim[target[w]]

RInv == \A w \in Workers : Unstored(w) /\ Retires(w)

(* Compare adds one object, of a claim the batch does not have, and only    *)
(* demotes the others.                                                      *)
LEMMA CompareAddsOne ==
  ASSUME IInv, WInv, NoClaimTwice, NEW w \in Workers, Compare(w),
         NEW p, p = First(queue[w]), NEW c, c = ClaimAt(window[w], p)
  PROVE  /\ DOMAIN decided'[w] = DOMAIN decided[w] \cup {p} /\ p \notin DOMAIN decided[w]
         /\ c \in Claims /\ decided'[w][p].claim = c
         /\ \A q \in DOMAIN decided[w] :
              /\ decided[w][q] \in Object /\ decided[w][q].claim # c /\ Before(q, p)
              /\ decided'[w][q].claim = decided[w][q].claim
              /\ decided'[w][q].supersedes = decided[w][q].supersedes
              /\ decided'[w][q].status \in {decided[w][q].status, "superseded"}
         /\ \A q, r \in DOMAIN decided[w] : decided[w][q].claim = decided[w][r].claim => q = r
<1>1. /\ p \in queue[w] /\ c \in Claims
      /\ DOMAIN decided'[w] = DOMAIN decided[w] \cup {p} /\ decided'[w][p].claim = c
      /\ \A q \in DOMAIN decided[w] \ {p} :
           \/ decided'[w][q] = decided[w][q]
           \/ decided'[w][q] = [decided[w][q] EXCEPT !.status = "superseded"]
  BY CompareResolves
<1>2. pc[w] = "compare"
  BY DEF Compare
<1>3. /\ p \in ClaimPositions(window[w]) /\ window[w] \in Windows
      /\ p \in Nat \X Nat /\ p \notin DOMAIN decided[w]
      /\ \A q \in DOMAIN decided[w] : q \in ClaimPositions(window[w]) /\ Before(q, p)
  <2>1. p \in ClaimPositions(window[w]) /\ window[w] \in Windows /\ p \in Nat \X Nat
    BY <1>1, <1>2 DEF IInv, TypeOK, SoundWorker
  <2>2. \A q \in DOMAIN decided[w] : q \in ClaimPositions(window[w]) /\ Before(q, p)
    BY <1>1, <1>2 DEF IInv, TypeOK, ObjectsOK, WInv, HandlesInOrder
  <2>3. ~Before(p, p)
    BY <2>1 DEF Before, NotAfter
  <2>. QED BY <2>1, <2>2, <2>3
<1>4. \A q \in DOMAIN decided[w] :
        /\ decided[w][q] \in Object /\ decided[w][q].claim = ClaimAt(window[w], q)
        /\ decided[w][q].claim # c
  <2>1. \A q \in DOMAIN decided[w] :
          decided[w][q] \in Object /\ decided[w][q].claim = ClaimAt(window[w], q)
    BY DEF IInv, TypeOK, ObjectsOK
  <2>. QED BY <1>3, <2>1 DEF NoClaimTwice
<1>5. ASSUME NEW q \in DOMAIN decided[w]
      PROVE  /\ decided'[w][q].claim = decided[w][q].claim
             /\ decided'[w][q].supersedes = decided[w][q].supersedes
             /\ decided'[w][q].status \in {decided[w][q].status, "superseded"}
  <2>1. CASE decided'[w][q] = decided[w][q]
    BY <2>1
  <2>2. CASE decided'[w][q] = [decided[w][q] EXCEPT !.status = "superseded"]
    BY <1>4, <2>2 DEF Object
  <2>. QED BY <1>1, <1>3, <2>1, <2>2
<1>6. \A q, r \in DOMAIN decided[w] : decided[w][q].claim = decided[w][r].claim => q = r
  BY <1>3, <1>4 DEF NoClaimTwice
<1>. QED BY <1>1, <1>3, <1>4, <1>5, <1>6

(* What write handles at its turn is the only object of its claim.          *)
LEMMA WriteClaimOnce ==
  ASSUME IInv, WInv, NoClaimTwice, NEW w \in Workers, WriteClaim(w),
         NEW p, p = First(queue[w]), NEW o, o = decided[w][p]
  PROVE  /\ p \in queue[w] /\ p \in DOMAIN decided[w] /\ o \in Object
         /\ pc[w] = "write" /\ pc'[w] = "write" /\ decided' = decided
         /\ claim' = [claim EXCEPT ![o.claim] = RowOf(o)] /\ claim'[o.claim] = RowOf(o)
         /\ todo'[w] = ClaimLinks(o) /\ queue'[w] = queue[w] \ {p}
         /\ \A q \in DOMAIN decided[w] : decided[w][q].claim = o.claim => q = p
<1>1. /\ p \in queue[w] /\ p \in DOMAIN decided[w] /\ o \in Object /\ o.claim \in Claims
      /\ p \in ClaimPositions(window[w]) /\ o.claim = ClaimAt(window[w], p)
  BY TurnOfAClaim
<1>2. /\ pc[w] = "write" /\ pc'[w] = "write" /\ decided' = decided
      /\ claim' = [claim EXCEPT ![o.claim] = RowOf(o)]
      /\ todo'[w] = ClaimLinks(o) /\ queue'[w] = queue[w] \ {p}
  BY DEF WriteClaim, memory, IInv, TypeOK
<1>3. claim'[o.claim] = RowOf(o)
  BY <1>1, <1>2 DEF IInv, TypeOK
<1>4. \A q \in DOMAIN decided[w] : decided[w][q].claim = o.claim => q = p
  <2>1. window[w] \in Windows
    BY <1>2 DEF IInv, SoundWorker
  <2>. QED BY <1>1, <2>1 DEF IInv, TypeOK, ObjectsOK, NoClaimTwice
<1>. QED BY <1>1, <1>2, <1>3, <1>4

LEMMA StaysUnstored ==
  ASSUME IInv, WInv, NoClaimTwice, NEW w \in Workers, Unstored(w),
         Fetch(w) \/ Step(w) \/ Crash(w)
  PROVE  Unstored(w)'
<1>. USE DEF IInv
<1>1. CASE Fetch(w)
  BY <1>1 DEF Fetch, TypeOK, SoundWorker, Unstored
<1>2. CASE LookUp(w)
  <2>1. /\ UNCHANGED <<claim, decided, window>> /\ pc[w] = "resolve"
        /\ pc'[w] = "compare" => queue' = queue /\ ~Present(ClaimAt(window[w], First(queue[w])))
    BY <1>2 DEF LookUp, store, memory, TypeOK
  <2>. QED BY <2>1 DEF Unstored, Present
<1>3. CASE Compare(w)
  <2>. SUFFICES ASSUME NEW p, p = First(queue[w]), NEW c, c = ClaimAt(window[w], p)
                PROVE  Unstored(w)'
    OBVIOUS
  <2>1. pc[w] = "compare" /\ pc'[w] = "resolve" /\ claim' = claim /\ ~Present(c)
    BY <1>3 DEF Compare, store, TypeOK, Unstored
  <2>. QED BY <1>3, <2>1, CompareAddsOne DEF Unstored, Present
<1>4. CASE Encrypt(w)
  <2>1. UNCHANGED <<claim, decided>> /\ pc[w] = "resolve" /\ pc'[w] = "write"
    BY <1>4 DEF Encrypt, store, TypeOK
  <2>. QED BY <2>1 DEF Unstored, Present
<1>5. CASE WriteEntities(w) \/ WriteEvent(w) \/ Link(w) \/ ReadClaim(w)
  <2>1. /\ UNCHANGED <<claim, decided>> /\ queue'[w] \subseteq queue[w]
        /\ pc'[w] \in {"write", "event", "read", "mark"}
    BY <1>5 DEF WriteEntities, WriteEvent, Link, ReadClaim, store, memory, TypeOK
  <2>. QED BY <2>1 DEF Unstored, Present
<1>6. CASE WriteClaim(w)
  <2>. SUFFICES ASSUME NEW p, p = First(queue[w]), NEW o, o = decided[w][p]
                PROVE  Unstored(w)'
    OBVIOUS
  <2>1. /\ pc'[w] = "write" /\ decided' = decided /\ queue'[w] = queue[w] \ {p}
        /\ claim' = [claim EXCEPT ![o.claim] = RowOf(o)]
        /\ \A q \in DOMAIN decided[w] : decided[w][q].claim = o.claim => q = p
    BY <1>6, WriteClaimOnce
  <2>2. \A q \in DOMAIN decided[w] : decided[w][q].claim \in Claims
    BY DEF TypeOK, ObjectsOK, Object
  <2>. QED BY <2>1, <2>2 DEF Unstored, Present, TypeOK
<1>7. CASE MarkSuperseded(w)
  <2>1. /\ pc'[w] = "write" /\ UNCHANGED <<decided, queue>> /\ Present(target[w])
        /\ claim' = [claim EXCEPT ![target[w]] = [copy[w] EXCEPT !.status = "superseded"]]
    BY <1>7 DEF MarkSuperseded, memory, TypeOK, WInv, HandlesInOrder
  <2>2. \A q \in DOMAIN decided[w] : decided[w][q].claim \in Claims
    BY DEF TypeOK, ObjectsOK, Object
  <2>. QED BY <2>1, <2>2 DEF Unstored, Present, TypeOK
<1>8. CASE Finish(w) \/ Crash(w)
  BY <1>8 DEF Finish, Crash, Forget, TypeOK, Unstored
<1>. QED BY <1>1, <1>2, <1>3, <1>4, <1>5, <1>6, <1>7, <1>8 DEF Step

(* A step that neither writes nor resolves a claim.                         *)
LEMMA OtherRetires ==
  ASSUME IInv, NEW w \in Workers, Retires(w),
         \/ Fetch(w) \/ LookUp(w) \/ Encrypt(w) \/ WriteEntities(w) \/ WriteEvent(w)
         \/ Link(w) \/ ReadClaim(w) \/ Finish(w) \/ Crash(w)
  PROVE  Retires(w)'
<1>. USE DEF IInv
<1>1. CASE Fetch(w)
  <2>1. /\ claim' = claim /\ decided' = decided /\ todo' = todo /\ DOMAIN decided[w] = {}
        /\ pc'[w] = "resolve"
    BY <1>1 DEF Fetch, store, TypeOK, SoundWorker
  <2>. QED BY <2>1 DEF Retires, Demoted
<1>2. CASE LookUp(w)
  <2>1. /\ UNCHANGED <<claim, decided, todo, window>>
        /\ pc[w] = "resolve" /\ pc'[w] \in {"resolve", "compare"}
        /\ pc'[w] = "compare" => queue' = queue /\ ~Present(ClaimAt(window[w], First(queue[w])))
    BY <1>2 DEF LookUp, store, memory, TypeOK
  <2>. QED BY <2>1 DEF Retires, Demoted, Present
<1>3. CASE Encrypt(w)
  <2>1. UNCHANGED <<claim, decided, todo>> /\ pc[w] = "resolve" /\ pc'[w] = "write"
    BY <1>3 DEF Encrypt, store, TypeOK
  <2>. QED BY <2>1 DEF Retires, Demoted, Present
<1>4. CASE WriteEntities(w) \/ WriteEvent(w)
  <2>1. /\ UNCHANGED <<claim, decided>> /\ queue'[w] \subseteq queue[w]
        /\ pc'[w] \in {"write", "event"}
        /\ \A l \in todo'[w] : l \in todo[w] \/ l.rel \in {"MENTIONS", "CITES"}
    BY <1>4 DEF WriteEntities, WriteEvent, memory, TypeOK, EventLinks, Edge
  <2>. QED BY <2>1 DEF Retires, Demoted, Present
<1>5. CASE Link(w)
  <2>1. /\ UNCHANGED <<claim, decided, queue>> /\ todo'[w] \subseteq todo[w]
        /\ pc'[w] = "write" \/ (pc'[w] = "read" /\ claim[target'[w]].status # "contradicted")
    BY <1>5 DEF Link, memory, TypeOK, Retires
  <2>. QED BY <2>1 DEF Retires, Demoted, Present
<1>6. CASE ReadClaim(w)
  <2>1. /\ UNCHANGED <<claim, decided, queue, todo, target>>
        /\ copy'[w] = claim[target[w]] /\ pc[w] = "read" /\ pc'[w] \in {"write", "mark"}
    BY <1>6 DEF ReadClaim, store, memory, TypeOK
  <2>. QED BY <2>1 DEF Retires, Demoted, Present
<1>7. CASE Finish(w) \/ Crash(w)
  <2>1. decided'[w] = <<>> /\ todo'[w] = {} /\ pc'[w] = "idle"
    BY <1>7 DEF Finish, Crash, Forget, TypeOK
  <2>. QED BY <2>1 DEF Retires
<1>. QED BY <1>1, <1>2, <1>3, <1>4, <1>5, <1>6, <1>7

LEMMA MarkRetires ==
  ASSUME IInv, WInv, NEW w \in Workers, Retires(w), MarkSuperseded(w)
  PROVE  Retires(w)'
<1>1. /\ pc[w] = "mark" /\ pc'[w] = "write" /\ UNCHANGED <<decided, queue, todo>>
      /\ target[w] \in Claims /\ Present(target[w])
      /\ claim' = [claim EXCEPT ![target[w]] = [copy[w] EXCEPT !.status = "superseded"]]
  BY DEF MarkSuperseded, memory, IInv, TypeOK, SoundWorker, WInv, HandlesInOrder
<1>2. [copy[w] EXCEPT !.status = "superseded"].status = "superseded"
  BY DEF IInv, TypeOK, Row
<1>3. \A d \in Claims : /\ Present(d)' <=> Present(d)
                        /\ claim'[d].status \in {claim[d].status, "superseded"}
  BY <1>1, <1>2 DEF Present, IInv, TypeOK
<1>4. \A p \in DOMAIN decided[w] : /\ decided[w][p].claim \in Claims
                                   /\ decided[w][p].supersedes \subseteq Claims
  BY DEF IInv, TypeOK, ObjectsOK, Object
<1>5. \A l \in todo[w] : l.rel = "SUPERSEDES" => l.to \in Claims
  BY DEF IInv, SoundWorker, SoundLink
<1>6. ASSUME NEW d \in Claims, Demoted(w, d) PROVE Demoted(w, d)'
  BY <1>1, <1>3, <1>6 DEF Demoted
<1>. QED BY <1>1, <1>3, <1>4, <1>5, <1>6 DEF Retires

LEMMA WriteRetires ==
  ASSUME IInv, WInv, NoClaimTwice, NEW w \in Workers, Unstored(w), Retires(w), WriteClaim(w)
  PROVE  Retires(w)'
<1>. SUFFICES ASSUME NEW p, p = First(queue[w]), NEW o, o = decided[w][p],
                     NEW c, c = o.claim
              PROVE  Retires(w)'
  OBVIOUS
<1>1. /\ p \in queue[w] /\ p \in DOMAIN decided[w] /\ o \in Object /\ c \in Claims
      /\ pc[w] = "write" /\ pc'[w] = "write" /\ decided' = decided
      /\ claim' = [claim EXCEPT ![c] = RowOf(o)] /\ claim'[c].status = o.status
      /\ todo'[w] = ClaimLinks(o)
      /\ \A q \in DOMAIN decided[w] : decided[w][q].claim = c => q = p
  BY WriteClaimOnce DEF Object, RowOf
<1>2. /\ ~Present(c) /\ Present(c)' /\ \A d \in Claims \ {c} : claim'[d] = claim[d]
  BY <1>1 DEF Unstored, Present, Object, Statuses, IInv, TypeOK
<1>3. ASSUME NEW q \in DOMAIN decided[w], NEW d \in decided[w][q].supersedes
      PROVE  Demoted(w, d)'
  <2>1. d \in Claims /\ Demoted(w, d)
    BY DEF Retires, IInv, TypeOK, ObjectsOK, Object
  <2>2. CASE d = c
    BY <1>1, <1>2, <2>1, <2>2, SMTT(20) DEF Demoted
  <2>3. CASE d # c
    BY <1>1, <1>2, <2>1, <2>3 DEF Demoted, Present
  <2>. QED BY <2>2, <2>3
<1>4. \A l \in ClaimLinks(o) : l.rel = "SUPERSEDES" => l.to \in o.supersedes
  BY LinkOfClaim
<1>5. \A d \in o.supersedes : claim'[d].status # "contradicted"
  BY <1>1, <1>3 DEF Demoted, Present
<1>. QED BY <1>1, <1>3, <1>4, <1>5 DEF Retires

LEMMA CompareRetires ==
  ASSUME IInv, WInv, NoClaimTwice, NEW w \in Workers, Unstored(w), Retires(w), Compare(w)
  PROVE  Retires(w)'
<1>. SUFFICES ASSUME NEW p, p = First(queue[w]), NEW c, c = ClaimAt(window[w], p)
              PROVE  Retires(w)'
  OBVIOUS
<1>1. \A d \in decided'[w][p].supersedes :
        \/ Present(d) /\ claim[d].status = "active"
        \/ \E q \in DOMAIN decided[w] :
             decided[w][q].claim = d /\ (q # p => decided'[w][q].status = "superseded")
  BY CompareResolves
<1>2. /\ DOMAIN decided'[w] = DOMAIN decided[w] \cup {p} /\ p \notin DOMAIN decided[w]
      /\ c \in Claims /\ decided'[w][p].claim = c
      /\ \A q \in DOMAIN decided[w] :
           /\ decided[w][q].claim # c
           /\ decided'[w][q].claim = decided[w][q].claim
           /\ decided'[w][q].supersedes = decided[w][q].supersedes
           /\ decided'[w][q].status \in {decided[w][q].status, "superseded"}
      /\ \A q, r \in DOMAIN decided[w] : decided[w][q].claim = decided[w][r].claim => q = r
  BY CompareAddsOne
<1>3. pc[w] = "compare" /\ pc'[w] = "resolve" /\ claim' = claim /\ todo' = todo
  BY DEF Compare, store, IInv, TypeOK
<1>4. ASSUME NEW q \in DOMAIN decided[w], NEW d \in decided[w][q].supersedes
      PROVE  Demoted(w, d)'
  <2>1. Demoted(w, d) /\ KnownBefore(w, q, d)
    BY DEF Retires, WInv, Grounded, GroundedObject
  <2>2. ~Present(d) => d # c
    BY <1>2, <2>1 DEF KnownBefore
  <2>. QED BY <1>2, <1>3, <2>1, <2>2 DEF Demoted, Present
<1>5. ASSUME NEW d \in decided'[w][p].supersedes PROVE Demoted(w, d)'
  <2>1. CASE Present(d) /\ claim[d].status = "active"
    BY <1>3, <2>1 DEF Demoted, Present
  <2>2. ASSUME NEW q \in DOMAIN decided[w], decided[w][q].claim = d,
               decided'[w][q].status = "superseded"
        PROVE  Demoted(w, d)'
    <3>1. d # c /\ ~Present(d)
      BY <1>2, <1>3, <2>2 DEF Unstored
    <3>2. \A r \in DOMAIN decided'[w] : decided'[w][r].claim = d => r = q
      BY <1>2, <2>2, <3>1
    <3>. QED BY <1>3, <2>2, <3>1, <3>2 DEF Demoted, Present
  <2>. QED BY <1>1, <1>2, <2>1, <2>2
<1>6. \A q \in DOMAIN decided'[w] : \A d \in decided'[w][q].supersedes : Demoted(w, d)'
  BY <1>2, <1>4, <1>5
<1>7. \A l \in todo'[w] : l.rel = "SUPERSEDES" => claim'[l.to].status # "contradicted"
  BY <1>3 DEF Retires
<1>. QED BY <1>3, <1>6, <1>7 DEF Retires

LEMMA NextRInv ==
  ASSUME OneWorker, NoClaimTwice, IInv, WInv, RInv, [Next]_vars
  PROVE  RInv'
<1>1. ASSUME NEW w \in Workers, Fetch(w) \/ Step(w) \/ Crash(w)
      PROVE  Unstored(w)' /\ Retires(w)'
  BY <1>1, StaysUnstored, OtherRetires, MarkRetires, WriteRetires, CompareRetires DEF Step, RInv
<1>2. ASSUME UNCHANGED vars, NEW w \in Workers PROVE Unstored(w)' /\ Retires(w)'
  BY <1>2 DEF vars, RInv, Unstored, Retires, Demoted, Present
<1>. QED BY <1>1, <1>2 DEF Next, RInv, OneWorker

LEMMA OneWorkerHolds ==
  ASSUME OneWorker, NoClaimTwice
  PROVE  Spec => [](IInv /\ WInv /\ RInv)
<1>1. Init => RInv
  BY DEF Init, RInv, Unstored, Retires
<1>2. IInv /\ WInv /\ RInv /\ [Next]_vars => RInv'
  BY NextRInv
<1>. QED BY <1>1, <1>2, InvariantHolds, WriteOrderHolds, PTL DEF Spec

(* A claim that is written is new; one that is marked is as it was read.    *)
LEMMA WrittenOnce ==
  ASSUME IInv, WInv, NEW w \in Workers, Unstored(w), WriteClaim(w),
         NEW p, p = First(queue[w]), NEW c, c = decided[w][p].claim
  PROVE  /\ c \in Claims /\ ~Present(c)
         /\ claim' = [claim EXCEPT ![c] = RowOf(decided[w][p])]
<1>1. c \in Claims /\ p \in queue[w] /\ p \in DOMAIN decided[w]
  BY TurnOfAClaim
<1>2. ~Present(c)
  BY <1>1 DEF Unstored
<1>3. claim' = [claim EXCEPT ![c] = RowOf(decided[w][p])]
  BY DEF WriteClaim
<1>. QED BY <1>1, <1>2, <1>3

LEMMA MarkedAsRead ==
  ASSUME IInv, WInv, NEW w \in Workers, Retires(w), MarkSuperseded(w),
         NEW t, t = target[w]
  PROVE  /\ t \in Claims /\ claim[t] \in Row /\ claim[t].status \in {"active", "superseded"}
         /\ claim' = [claim EXCEPT ![t] = [claim[t] EXCEPT !.status = "superseded"]]
<1>1. pc[w] = "mark" /\ t \in Claims /\ Present(t) /\ copy[w] = claim[t]
  BY DEF MarkSuperseded, IInv, SoundWorker, WInv, HandlesInOrder, Retires
<1>2. claim[t] \in Row
  BY <1>1 DEF IInv, TypeOK
<1>3. claim[t].status \in {"active", "superseded"}
  BY <1>1, <1>2 DEF Retires, Present, Row, Statuses
<1>. QED BY <1>1, <1>2, <1>3 DEF MarkSuperseded

LEMMA ClaimsWrittenBy ==
  ASSUME NEW w \in Workers,
         \/ Fetch(w) \/ LookUp(w) \/ Compare(w) \/ Encrypt(w) \/ WriteEntities(w)
         \/ WriteEvent(w) \/ Link(w) \/ ReadClaim(w) \/ Finish(w) \/ Crash(w)
  PROVE  claim' = claim /\ (~Link(w) => links' = links)
BY DEF Fetch, LookUp, Compare, Encrypt, WriteEntities, WriteEvent, Link, ReadClaim, Finish,
       Crash, store

LEMMA OnlyRetires ==
  ASSUME IInv, WInv, RInv, [Next]_vars, NEW c \in Claims, Present(c)
  PROVE  \/ claim'[c] = claim[c]
         \/ /\ claim[c].status = "active"
            /\ claim'[c] = [claim[c] EXCEPT !.status = "superseded"]
<1>1. ASSUME NEW w \in Workers, WriteClaim(w) PROVE claim'[c] = claim[c]
  BY <1>1, WrittenOnce DEF RInv, IInv, TypeOK
<1>2. ASSUME NEW w \in Workers, MarkSuperseded(w)
      PROVE  \/ claim'[c] = claim[c]
             \/ /\ claim[c].status = "active"
                /\ claim'[c] = [claim[c] EXCEPT !.status = "superseded"]
  <2>1. PICK t : t = target[w]
    OBVIOUS
  <2>2. /\ t \in Claims /\ claim[t] \in Row /\ claim[t].status \in {"active", "superseded"}
        /\ claim' = [claim EXCEPT ![t] = [claim[t] EXCEPT !.status = "superseded"]]
    BY <1>2, <2>1, MarkedAsRead DEF RInv
  <2>3. claim[t].status = "superseded" => [claim[t] EXCEPT !.status = "superseded"] = claim[t]
    BY <2>2 DEF Row
  <2>. QED BY <2>2, <2>3 DEF IInv, TypeOK
<1>. QED BY <1>1, <1>2, ClaimsWrittenBy DEF Next, Step, vars

(* "Nothing is ever overwritten" (resolver.py:6) holds of one worker: a     *)
(* stored claim only ever goes from active to superseded.                   *)
THEOREM OneWorkerOnlyRetires ==
  ASSUME OneWorker, NoClaimTwice
  PROVE  Spec => StoredClaimsOnlyRetire
<1>1. IInv /\ WInv /\ RInv /\ [Next]_vars =>
        [\A c \in Claims : Present(c) =>
           \/ claim'[c] = claim[c]
           \/ /\ claim[c].status = "active"
              /\ claim'[c] = [claim[c] EXCEPT !.status = "superseded"]]_vars
  BY OnlyRetires
<1>. QED BY <1>1, OneWorkerHolds, PTL DEF Spec, StoredClaimsOnlyRetire

-----------------------------------------------------------------------------
(* One worker keeps a timeline: the steps of Ingestion are steps of         *)
(* Timeline, or leave it as it is.                                          *)
LEMMA WriteAsserts ==
  ASSUME IInv, WInv, RInv, NEW w \in Workers, WriteClaim(w)
  PROVE  Record!Next
<1>. PICK p : p = First(queue[w])
  OBVIOUS
<1>. PICK o : o = decided[w][p]
  OBVIOUS
<1>. PICK c : c = o.claim
  OBVIOUS
<1>1. /\ c \in Claims /\ ~Present(c) /\ claim' = [claim EXCEPT ![c] = RowOf(o)]
      /\ UNCHANGED links
  BY WrittenOnce DEF RInv, WriteClaim
<1>2. /\ p \in DOMAIN decided[w] /\ o \in Object /\ \A q \in queue[w] : NotAfter(p, q)
  BY TurnOfAClaim
<1>3. o.status = "contradicted" =>
        \E d \in Claims : Present(d) /\ Rivals(c, d) /\ AssertedAt(c) = AssertedAt(d)
  <2>. SUFFICES ASSUME o.status = "contradicted"
                PROVE  \E d \in Claims : /\ Present(d) /\ Rivals(c, d)
                                         /\ AssertedAt(c) = AssertedAt(d)
    OBVIOUS
  <2>1. PICK d \in Claims : /\ Rivals(c, d) /\ AssertedAt(c) = AssertedAt(d)
                            /\ KnownBefore(w, p, d)
    BY <1>2 DEF WInv, Grounded, GroundedObject
  <2>2. ASSUME NEW q \in DOMAIN decided[w], Before(q, p), decided[w][q].claim = d
        PROVE  Present(d)
    <3>1. q \notin queue[w]
      BY <1>2, <2>2 DEF Before
    <3>2. q \in ClaimPositions(window[w]) /\ d = ClaimAt(window[w], q)
      BY <2>2 DEF IInv, TypeOK, ObjectsOK
    <3>. QED BY <3>1, <3>2 DEF WInv, HandlesInOrder, Writing, WriteClaim
  <2>. QED BY <2>1, <2>2 DEF KnownBefore
<1>4. o.status = "superseded" => \E d \in Claims : Rivals(c, d) /\ Older(c, d)
  BY <1>2 DEF WInv, Grounded, GroundedObject
<1>5. o.status \in Statuses
  BY <1>2 DEF Object
<1>6. [d \in Claims |-> claim'[d].status] = [[d \in Claims |-> claim[d].status] EXCEPT ![c] = o.status]
  BY <1>1 DEF IInv, TypeOK, RowOf
<1>7. Record!Assert(c)
  BY <1>1, <1>3, <1>4, <1>5, <1>6
     DEF Record!Assert, Record!Asserted, Record!Rivals, Rivals, Older, Present, Statuses, LinkedPairs
<1>. QED BY <1>1, <1>7 DEF Record!Next

LEMMA LinkSucceeds ==
  ASSUME IInv, WInv, NEW w \in Workers, Link(w)
  PROVE  Record!Next \/ UNCHANGED Record!vars
<1>1. PICK l \in todo[w] :
        links' = IF Stored(l.from) /\ Stored(l.to) THEN links \cup {l} ELSE links
  BY DEF Link
<1>2. UNCHANGED claim
  BY DEF Link
<1>3. l \in Edges /\ SoundLink(l) /\ GroundedLink(l)
  BY DEF IInv, TypeOK, SoundWorker, WInv, Grounded
<1>4. ASSUME NEW rel, rel # l.rel PROVE LinkedPairs(rel)' = LinkedPairs(rel)
  BY <1>1, <1>4 DEF LinkedPairs
<1>5. CASE links' = links
  BY <1>2, <1>5 DEF Record!vars, LinkedPairs
<1>6. CASE links' = links \cup {l} /\ l.rel \notin {"SUPERSEDES", "CONTRADICTS"}
  BY <1>2, <1>4, <1>6 DEF Record!vars
<1>7. CASE links' = links \cup {l} /\ l.rel = "SUPERSEDES"
  <2>1. /\ l.from \in Claims /\ l.to \in Claims /\ Present(l.from) /\ Present(l.to)
        /\ Rivals(l.from, l.to) /\ Older(l.to, l.from)
    BY <1>3, <1>7 DEF SoundLink, GroundedLink
  <2>2. LinkedPairs("SUPERSEDES")' = LinkedPairs("SUPERSEDES") \cup {<<l.from, l.to>>}
    BY <1>7 DEF LinkedPairs
  <2>3. Record!Succeed(l.from, l.to)
    BY <1>2, <1>4, <1>7, <2>1, <2>2
       DEF Record!Succeed, Record!Asserted, Record!Rivals, Rivals, Older, Present
  <2>. QED BY <2>1, <2>3 DEF Record!Next
<1>8. CASE links' = links \cup {l} /\ l.rel = "CONTRADICTS"
  <2>1. /\ l.from \in Claims /\ l.to \in Claims /\ Present(l.from) /\ Present(l.to)
        /\ Rivals(l.from, l.to) /\ AssertedAt(l.from) = AssertedAt(l.to)
    BY <1>3, <1>8 DEF SoundLink, GroundedLink
  <2>2. LinkedPairs("CONTRADICTS")' = LinkedPairs("CONTRADICTS") \cup {<<l.from, l.to>>}
    BY <1>8 DEF LinkedPairs
  <2>3. Record!Conflict(l.from, l.to)
    BY <1>2, <1>4, <1>8, <2>1, <2>2
       DEF Record!Conflict, Record!Asserted, Record!Rivals, Rivals, Present
  <2>. QED BY <2>1, <2>3 DEF Record!Next
<1>. QED BY <1>1, <1>5, <1>6, <1>7, <1>8

LEMMA MarkRetiresOlder ==
  ASSUME IInv, WInv, RInv, NEW w \in Workers, MarkSuperseded(w)
  PROVE  Record!Next \/ UNCHANGED Record!vars
<1>. PICK t : t = target[w]
  OBVIOUS
<1>1. /\ t \in Claims /\ claim[t] \in Row /\ claim[t].status \in {"active", "superseded"}
      /\ claim' = [claim EXCEPT ![t] = [claim[t] EXCEPT !.status = "superseded"]]
      /\ UNCHANGED links
  BY MarkedAsRead DEF RInv, MarkSuperseded
<1>2. [d \in Claims |-> claim'[d].status]
        = [[d \in Claims |-> claim[d].status] EXCEPT ![t] = "superseded"]
  <2>1. [claim[t] EXCEPT !.status = "superseded"].status = "superseded"
    BY <1>1 DEF Row
  <2>. QED BY <1>1, <2>1 DEF IInv, TypeOK
<1>3. CASE claim[t].status = "superseded"
  BY <1>1, <1>2, <1>3 DEF Record!vars, LinkedPairs
<1>4. CASE claim[t].status = "active"
  <2>1. PICK d \in Claims : Edge(d, "SUPERSEDES", t) \in links
    BY DEF WInv, Grounded, MarkSuperseded
  <2>2. <<d, t>> \in LinkedPairs("SUPERSEDES")
    BY <2>1 DEF LinkedPairs, Edge
  <2>3. Record!Retire(t)
    BY <1>1, <1>2, <1>4, <2>2 DEF Record!Retire, LinkedPairs
  <2>. QED BY <1>1, <2>3 DEF Record!Next
<1>. QED BY <1>1, <1>3, <1>4

(* With one worker the store is the timeline resolver.py promises: claims   *)
(* enter once, successions and conflicts between stored claims are only     *)
(* added, and a claim leaves active only by a succession that is recorded.  *)
THEOREM OneWorkerKeepsATimeline ==
  ASSUME OneWorker, NoClaimTwice
  PROVE  Spec => ImplementsTimeline
<1>1. Init => Record!Init
  BY DEF Init, Record!Init, LinkedPairs, AbsentRow
<1>2. IInv /\ WInv /\ RInv /\ [Next]_vars => [Record!Next]_(Record!vars)
  <2>. SUFFICES ASSUME IInv, WInv, RInv, [Next]_vars
                PROVE  Record!Next \/ UNCHANGED Record!vars
    OBVIOUS
  <2>1. ASSUME UNCHANGED <<claim, links>> PROVE UNCHANGED Record!vars
    BY <2>1 DEF Record!vars, LinkedPairs
  <2>. QED BY <2>1, WriteAsserts, LinkSucceeds, MarkRetiresOlder, ClaimsWrittenBy
           DEF Next, Step, vars
<1>. QED BY <1>1, <1>2, OneWorkerHolds, PTL DEF Spec, ImplementsTimeline, Record!Spec

-----------------------------------------------------------------------------
(* One worker, and no job that dies: what it leaves is whole.               *)

(* The relationships the payload of a stored claim calls for.               *)
Due(c) == ClaimLinks([claim |-> c, supersedes |-> claim[c].supersedes,
                      contradicts |-> claim[c].contradicts])

(* Worker w has still to mark claim d.                                      *)
HasToMark(w, d) ==
  \/ pc[w] \in {"read", "mark"} /\ target[w] = d
  \/ \E l \in todo[w] : l.rel = "SUPERSEDES" /\ l.to = d

(* Two claims of which only one may be active.                              *)
Rivalry(c, d) == Rivals(c, d) /\ ShareSubject(c, d)

BothActive(c, d) == claim[c].status = "active" /\ claim[d].status = "active"

(* Relationship l is there, or will be when the worker comes to it; a       *)
(* citation may fail if bodies may be left unsealed.                        *)
Made(w, l) ==
  \/ l \in links
  \/ l \in todo[w] /\ Stored(l.from) /\ Stored(l.to)
  \/ l.rel = "CITES" /\ MaxUnsealed # 0

(* What the store lacks is what the worker has in hand.                     *)
StoreSettles(w) ==
  /\ \A c \in Claims : Present(c) =>
       /\ \A l \in Due(c) : Made(w, l)
       /\ \A d \in claim[c].supersedes :
            Present(d) /\ (claim[d].status = "active" => HasToMark(w, d))
  /\ \A c, d \in Claims : (Rivalry(c, d) /\ BothActive(c, d)) =>
       HasToMark(w, c) \/ HasToMark(w, d)

(* The batch is consistent by itself and with the store.                    *)
BatchSettles(w) ==
  /\ pc[w] \in {"idle", "resolve", "compare", "event"} => todo[w] = {}
  /\ \A p, q \in DOMAIN decided[w] :
       (decided[w][p].status = "active" /\ decided[w][q].status = "active") =>
         ~Rivals(decided[w][p].claim, decided[w][q].claim)
  /\ \A p \in DOMAIN decided[w] :
       /\ pc[w] \in {"resolve", "compare"} \/ p \in queue[w]
       /\ decided[w][p].status = "active"
       => \A d \in Claims : (Rivalry(decided[w][p].claim, d) /\ claim[d].status = "active") =>
            d \in decided[w][p].supersedes
  /\ (MaxUnsealed = 0 /\ pc[w] \in Writing) =>
       \A k \in DOMAIN window[w] : window[w][k] \in Sensitive => window[w][k] \in sealed[w]

SInv == \A w \in Workers : StoreSettles(w) /\ BatchSettles(w)

(* A claim that resolve leaves active supersedes every stored and every     *)
(* earlier rival it can see.                                                *)
LEMMA ActiveSupersedesAll ==
  ASSUME IInv, NEW w \in Workers, Compare(w),
         decided'[w][First(queue[w])].status = "active"
  PROVE  LET p == First(queue[w])
             c == ClaimAt(window[w], p)
         IN  /\ \A d \in ClaimsAbout(c) : (Rivals(c, d) /\ claim[d].status = "active") =>
                  d \in decided'[w][p].supersedes
             /\ \A q \in DOMAIN decided[w] \ {p} :
                  (Rivals(c, decided[w][q].claim) /\ decided[w][q].status = "active") =>
                    decided'[w][q].status = "superseded"
<1>. USE DEF IInv
<1>. DEFINE p == First(queue[w])
            c == ClaimAt(window[w], p)
            batch == decided[w]
            stored == {d \in ClaimsAbout(c) : Rivals(c, d) /\ claim[d].status = "active"}
            prior == {q \in DOMAIN batch : Rivals(c, batch[q].claim) /\ batch[q].status = "active"}
            rivals == stored \cup {batch[q].claim : q \in prior}
            older == {d \in rivals : Older(d, c)}
            same == {d \in rivals : AssertedAt(d) = AssertedAt(c)}
            later == {q \in prior : ~Older(batch[q].claim, c)}
            rest == {d \in stored : ~Older(d, c)}
            Resolved(status) ==
              [q \in DOMAIN batch \cup {p} |->
                 IF q = p
                 THEN [claim |-> c, status |-> status, supersedes |-> older, contradicts |-> same]
                 ELSE IF q \in prior /\ Older(batch[q].claim, c)
                 THEN [batch[q] EXCEPT !.status = "superseded"]
                 ELSE batch[q]]
<1>1. PICK status \in Outcomes(c, stored, batch, prior) :
        decided' = [decided EXCEPT ![w] = Resolved(status)]
  BY DEF Compare
<1>2. decided'[w] = Resolved(status)
  BY <1>1 DEF TypeOK
<1>3. /\ decided'[w][p].supersedes = older /\ status = "active"
      /\ \A q \in prior \ {p} : Older(batch[q].claim, c) =>
           decided'[w][q] = [batch[q] EXCEPT !.status = "superseded"]
  BY <1>2, SMTT(30)
<1>4. later = {} /\ rest = {}
  <2>1. "active" \in Outcomes(c, stored, batch, prior)
    BY <1>1, <1>3
  <2>. QED BY <2>1 DEF Outcomes, Verdict
<1>5. \A q \in prior : batch[q] \in Object
  BY DEF TypeOK, ObjectsOK
<1>6. \A d \in stored : d \in older
  BY <1>4
<1>7. \A q \in prior \ {p} : decided'[w][q].status = "superseded"
  BY <1>3, <1>4, <1>5 DEF Object
<1>. QED BY <1>3, <1>6, <1>7

(* A step that leaves the claims, the relationships and what is to be done  *)
(* about them alone.                                                        *)
LEMMA StoreStaysSettled ==
  ASSUME IInv, NEW w \in Workers, StoreSettles(w), [Next]_vars,
         UNCHANGED <<claim, links>>, todo'[w] = todo[w],
         pc[w] \in {"read", "mark"} =>
           \/ pc'[w] \in {"read", "mark"} /\ target'[w] = target[w]
           \/ ~Present(target[w])
  PROVE  StoreSettles(w)'
<1>1. \A n : Stored(n) => Stored(n)'
  BY StoredStays
<1>2. \A l : Made(w, l) => Made(w, l)'
  BY <1>1 DEF Made
<1>3. \A d \in Claims : Present(d) /\ HasToMark(w, d) => HasToMark(w, d)'
  BY DEF HasToMark
<1>4. \A c \in Claims : /\ Present(c)' <=> Present(c)
                        /\ claim[c].status = "active" => Present(c)
  BY DEF Present
<1>5. \A c \in Claims : Due(c)' = Due(c)
  BY DEF Due
<1>6. \A c, d \in Claims : BothActive(c, d)' <=> BothActive(c, d)
  BY DEF BothActive
<1>7. \A c \in Claims : Present(c) => claim[c].supersedes \subseteq Claims
  BY DEF IInv, TypeOK, Row
<1>8. ASSUME NEW c \in Claims, Present(c)
      PROVE  /\ \A l \in Due(c) : Made(w, l)'
             /\ \A d \in claim[c].supersedes :
                  Present(d)' /\ (claim[d].status = "active" => HasToMark(w, d)')
  BY <1>2, <1>3, <1>4, <1>7, <1>8 DEF StoreSettles
<1>9. ASSUME NEW c \in Claims, NEW d \in Claims, Rivalry(c, d), BothActive(c, d)
      PROVE  HasToMark(w, c)' \/ HasToMark(w, d)'
  BY <1>3, <1>4, <1>9 DEF StoreSettles, BothActive
<1>. QED BY <1>4, <1>5, <1>6, <1>8, <1>9 DEF StoreSettles

(* A fetch returns finitely many records.                                   *)
LEMMA RecordsOfAWindow ==
  ASSUME NEW win \in Windows \cup {<<>>}
  PROVE  IsFiniteSet({win[k] : k \in DOMAIN win})
<1>. DEFINE T == {win[k] : k \in DOMAIN win}
<1>1. PICK n \in Nat : DOMAIN win = 1..n
  <2>1. win \in Seq(Records)
    <3>1. CASE win \in Windows
      BY <3>1, DataAssumption
    <3>2. CASE win = <<>>
      BY <3>2
    <3>. QED BY <3>1, <3>2
  <2>. QED BY <2>1
<1>2. [k \in 1..n |-> win[k]] \in Surjection(1..n, T)
  BY <1>1 DEF Surjection
<1>3. ExistsSurjection(1..n, T)
  BY <1>2 DEF ExistsSurjection
<1>. QED BY <1>3, FS_NatSurjection

(* The steps that neither write a claim nor a relationship.                 *)
LEMMA ReadingSettles ==
  ASSUME IInv, NEW w \in Workers, StoreSettles(w), BatchSettles(w),
         Fetch(w) \/ LookUp(w) \/ Encrypt(w) \/ WriteEntities(w) \/ ReadClaim(w) \/ Finish(w)
  PROVE  StoreSettles(w)' /\ BatchSettles(w)'
<1>. USE DEF IInv
<1>1. /\ UNCHANGED <<claim, links>> /\ todo'[w] = todo[w]
      /\ pc[w] \in {"read", "mark"} =>
           \/ pc'[w] \in {"read", "mark"} /\ target'[w] = target[w]
           \/ ~Present(target[w])
  BY DEF Fetch, LookUp, Encrypt, WriteEntities, ReadClaim, Finish, Forget, store, TypeOK
<1>2. StoreSettles(w)'
  BY <1>1, StoreStaysSettled DEF Next, Step
<1>3. CASE Fetch(w)
  <2>1. pc[w] = "idle" /\ pc'[w] = "resolve" /\ decided'[w] = decided[w] /\ DOMAIN decided[w] = {}
    BY <1>3 DEF Fetch, TypeOK, SoundWorker
  <2>. QED BY <1>1, <1>2, <2>1 DEF BatchSettles, Writing
<1>4. CASE LookUp(w)
  <2>1. /\ pc[w] = "resolve" /\ pc'[w] \in {"resolve", "compare"} /\ decided' = decided
    BY <1>4 DEF LookUp, memory, TypeOK
  <2>. QED BY <1>1, <1>2, <2>1 DEF BatchSettles, Writing
<1>5. CASE Encrypt(w)
  <2>1. /\ pc[w] = "resolve" /\ pc'[w] = "write" /\ UNCHANGED <<decided, window>>
    BY <1>5 DEF Encrypt, TypeOK
  <2>2. ASSUME MaxUnsealed = 0, NEW k \in DOMAIN window[w], window[w][k] \in Sensitive
        PROVE  window[w][k] \in sealed'[w]
    <3>. DEFINE bodies == {r \in Sensitive : \E i \in DOMAIN window[w] : window[w][i] = r}
    <3>1. PICK failed \in SUBSET bodies :
            Cardinality(failed) <= 0 /\ sealed' = [sealed EXCEPT ![w] = bodies \ failed]
      BY <1>5, <2>2 DEF Encrypt
    <3>2. IsFiniteSet(bodies)
      <4>1. IsFiniteSet({window[w][i] : i \in DOMAIN window[w]})
        BY RecordsOfAWindow DEF TypeOK
      <4>2. bodies \subseteq {window[w][i] : i \in DOMAIN window[w]}
        OBVIOUS
      <4>. QED BY <4>1, <4>2, FS_Subset
    <3>3. IsFiniteSet(failed)
      BY <3>2, FS_Subset
    <3>4. failed = {}
      BY <3>1, <3>3, FS_EmptySet, FS_CardinalityType
    <3>. QED BY <2>2, <3>1, <3>4 DEF TypeOK
  <2>. QED BY <1>1, <1>2, <2>1, <2>2 DEF BatchSettles
<1>6. CASE WriteEntities(w)
  <2>1. /\ pc[w] = "write" /\ pc'[w] = "event" /\ todo[w] = {}
        /\ UNCHANGED <<decided, window, sealed, queue>>
    BY <1>6 DEF WriteEntities, memory, TypeOK
  <2>. QED BY <1>1, <1>2, <2>1 DEF BatchSettles, Writing
<1>7. CASE ReadClaim(w)
  <2>1. /\ pc[w] = "read" /\ pc'[w] \in {"mark", "write"}
        /\ UNCHANGED <<decided, window, sealed, queue>>
    BY <1>7 DEF ReadClaim, memory, TypeOK
  <2>. QED BY <1>1, <1>2, <2>1 DEF BatchSettles, Writing
<1>8. CASE Finish(w)
  <2>1. pc'[w] = "idle" /\ todo[w] = {} /\ decided'[w] = <<>>
    BY <1>8 DEF Finish, Forget, TypeOK
  <2>. QED BY <1>1, <1>2, <2>1 DEF BatchSettles, Writing
<1>. QED BY <1>3, <1>4, <1>5, <1>6, <1>7, <1>8

(* With nothing left to create, what the store calls for is there.          *)
LEMMA NothingToDo ==
  ASSUME IInv, NEW w \in Workers, StoreSettles(w), todo[w] = {}, pc[w] \notin {"read", "mark"}
  PROVE  /\ \A c \in Claims : Present(c) =>
              /\ \A l \in Due(c) : l \in links \/ (l.rel = "CITES" /\ MaxUnsealed # 0)
              /\ \A d \in claim[c].supersedes : Present(d) /\ claim[d].status # "active"
         /\ \A c, d \in Claims : Rivalry(c, d) => ~BothActive(c, d)
<1>1. \A l : Made(w, l) => l \in links \/ (l.rel = "CITES" /\ MaxUnsealed # 0)
  BY DEF Made
<1>2. \A d \in Claims : ~HasToMark(w, d)
  BY DEF HasToMark
<1>3. \A c \in Claims : Present(c) => claim[c].supersedes \subseteq Claims
  BY DEF IInv, TypeOK, Row
<1>. QED BY <1>1, <1>2, <1>3 DEF StoreSettles

LEMMA CompareSettles ==
  ASSUME IInv, WInv, NoClaimTwice, NEW w \in Workers, StoreSettles(w), BatchSettles(w), Compare(w)
  PROVE  StoreSettles(w)' /\ BatchSettles(w)'
<1>. SUFFICES ASSUME NEW p, p = First(queue[w]), NEW c, c = ClaimAt(window[w], p)
              PROVE  StoreSettles(w)' /\ BatchSettles(w)'
  OBVIOUS
<1>1. /\ pc[w] = "compare" /\ pc'[w] = "resolve" /\ UNCHANGED <<claim, links, todo>>
      /\ todo[w] = {}
  BY DEF Compare, store, IInv, TypeOK, BatchSettles
<1>2. StoreSettles(w)'
  BY <1>1, StoreStaysSettled DEF Next, Step
<1>3. /\ DOMAIN decided'[w] = DOMAIN decided[w] \cup {p} /\ p \notin DOMAIN decided[w]
      /\ c \in Claims /\ decided'[w][p].claim = c
      /\ \A q \in DOMAIN decided[w] :
           /\ decided'[w][q].claim = decided[w][q].claim
           /\ decided'[w][q].supersedes = decided[w][q].supersedes
           /\ decided'[w][q].status \in {decided[w][q].status, "superseded"}
  BY CompareAddsOne
<1>4. decided'[w][p].status = "active" =>
        /\ \A d \in ClaimsAbout(c) : (Rivals(c, d) /\ claim[d].status = "active") =>
             d \in decided'[w][p].supersedes
        /\ \A q \in DOMAIN decided[w] \ {p} :
             (Rivals(c, decided[w][q].claim) /\ decided[w][q].status = "active") =>
               decided'[w][q].status = "superseded"
  BY ActiveSupersedesAll
<1>5. ASSUME NEW d \in Claims, Rivalry(c, d), claim[d].status = "active"
      PROVE  d \in ClaimsAbout(c)
  <2>1. PICK e \in About[c] : e \in About[d]
    BY <1>5 DEF Rivalry, ShareSubject
  <2>2. Edge(d, "ABOUT", e) \in Due(d) /\ Edge(d, "ABOUT", e).rel = "ABOUT"
    BY <2>1 DEF Due, ClaimLinks, Edge
  <2>3. Present(d)
    BY <1>5 DEF Present
  <2>4. Edge(d, "ABOUT", e) \in links
    BY <1>1, <2>2, <2>3, NothingToDo
  <2>. QED BY <2>1, <2>3, <2>4 DEF ClaimsAbout
<1>6. ASSUME NEW q \in DOMAIN decided'[w], decided'[w][q].status = "active"
      PROVE  /\ \A d \in Claims : (Rivalry(decided'[w][q].claim, d) /\ claim[d].status = "active") =>
                  d \in decided'[w][q].supersedes
             /\ \A r \in DOMAIN decided'[w] : decided'[w][r].status = "active" =>
                  ~Rivals(decided'[w][q].claim, decided'[w][r].claim)
  <2>1. \A b, d : Rivals(b, d) => Rivals(d, b) /\ b # d
    BY DEF Rivals
  <2>2. CASE q = p
    BY <1>3, <1>4, <1>5, <1>6, <2>1, <2>2 DEF Rivalry
  <2>3. CASE q # p
    <3>1. q \in DOMAIN decided[w] /\ decided[w][q].status = "active"
      BY <1>3, <1>6, <2>3
    <3>. QED BY <1>1, <1>3, <1>4, <1>6, <2>1, <3>1 DEF BatchSettles
  <2>. QED BY <2>2, <2>3
<1>. QED BY <1>1, <1>2, <1>6 DEF BatchSettles, Writing

LEMMA WriteEventSettles ==
  ASSUME IInv, NEW w \in Workers, StoreSettles(w), BatchSettles(w), WriteEvent(w)
  PROVE  StoreSettles(w)' /\ BatchSettles(w)'
<1>1. /\ pc[w] = "event" /\ pc'[w] = "write" /\ todo[w] = {} /\ queue'[w] \subseteq queue[w]
      /\ UNCHANGED <<claim, links, decided, window, sealed>>
  BY DEF WriteEvent, memory, IInv, TypeOK, BatchSettles
<1>2. StoreSettles(w)'
  <2>1. \A c \in Claims : (Present(c)' <=> Present(c)) /\ Due(c)' = Due(c)
    BY <1>1 DEF Present, Due
  <2>2. \A l : (l \in links \/ (l.rel = "CITES" /\ MaxUnsealed # 0)) => Made(w, l)'
    BY <1>1 DEF Made
  <2>3. \A c \in Claims : Present(c) => claim[c].supersedes \subseteq Claims
    BY DEF IInv, TypeOK, Row
  <2>4. \A c, d \in Claims : BothActive(c, d)' <=> BothActive(c, d)
    BY <1>1 DEF BothActive
  <2>. QED BY <1>1, <2>1, <2>2, <2>3, <2>4, NothingToDo DEF StoreSettles
<1>3. BatchSettles(w)'
  BY <1>1 DEF BatchSettles, Writing
<1>. QED BY <1>2, <1>3

LEMMA WriteClaimSettles ==
  ASSUME IInv, WInv, WInv', NoClaimTwice, NEW w \in Workers, Unstored(w),
         StoreSettles(w), BatchSettles(w), WriteClaim(w)
  PROVE  StoreSettles(w)' /\ BatchSettles(w)'
<1>. SUFFICES ASSUME NEW p, p = First(queue[w]), NEW o, o = decided[w][p], NEW c, c = o.claim
              PROVE  StoreSettles(w)' /\ BatchSettles(w)'
  OBVIOUS
<1>1. /\ p \in queue[w] /\ p \in DOMAIN decided[w] /\ o \in Object /\ c \in Claims
      /\ pc[w] = "write" /\ pc'[w] = "write" /\ claim'[c] = RowOf(o)
      /\ todo'[w] = ClaimLinks(o) /\ queue'[w] = queue[w] \ {p}
      /\ UNCHANGED <<links, event, window, sealed, decided>> /\ todo[w] = {}
  <2>1. /\ p \in queue[w] /\ p \in DOMAIN decided[w] /\ o \in Object
        /\ pc[w] = "write" /\ pc'[w] = "write" /\ claim'[c] = RowOf(o)
        /\ todo'[w] = ClaimLinks(o) /\ queue'[w] = queue[w] \ {p}
    BY WriteClaimOnce
  <2>2. UNCHANGED <<links, event, window, sealed, decided>> /\ todo[w] = {}
    BY DEF WriteClaim, memory
  <2>. QED BY <2>1, <2>2 DEF Object
<1>2. /\ ~Present(c) /\ Present(c)' /\ \A d \in Claims \ {c} : claim'[d] = claim[d]
  BY <1>1, WriteClaimOnce DEF Unstored, Present, RowOf, Object, Statuses, IInv, TypeOK
<1>3. \A d \in Claims \ {c} : (Present(d)' <=> Present(d)) /\ Due(d)' = Due(d)
  BY <1>2 DEF Present, Due
<1>4. /\ claim'[c].status = o.status /\ claim'[c].supersedes = o.supersedes
      /\ Due(c)' = ClaimLinks(o)
  BY <1>1, SMTT(20) DEF RowOf, Due, ClaimLinks, Object
<1>5. ASSUME NEW l \in ClaimLinks(o) PROVE Made(w, l)'
  <2>1. l.from = c
    BY <1>1, <1>5, LinkOfClaim
  <2>2. CASE l.rel # "CITES"
    <3>1. GroundedLink(l)'
      BY <1>1 DEF WInv, Grounded
    <3>. QED BY <1>1, <2>1, <2>2, <3>1 DEF GroundedLink, Made
  <2>3. CASE l.rel = "CITES" /\ MaxUnsealed = 0
    <3>1. l.to = RecordOf[c] /\ l.to \in Records
      <4>1. l = Edge(c, "CITES", RecordOf[c])
        BY <1>1, <2>3, LinkOfClaim
      <4>. QED BY <1>1, <4>1, DataAssumption DEF Edge
    <3>2. RecordOf[c] = window[w][p[1]] /\ RecordWritten(w, RecordOf[c]) /\ p[1] \in DOMAIN window[w]
      BY TurnOfAClaim DEF ClaimPositions
    <3>3. event[l.to] # "absent"
      BY <1>1, <2>3, <3>1, <3>2 DEF RecordWritten, BatchSettles, Writing
    <3>. QED BY <1>1, <1>2, <2>1, <3>1, <3>3 DEF Made, Stored
  <2>. QED BY <2>2, <2>3 DEF Made
<1>6. ASSUME NEW d \in o.supersedes PROVE d \in Claims /\ Present(d)' /\ HasToMark(w, d)'
  <2>1. Edge(c, "SUPERSEDES", d) \in todo'[w]
    BY <1>1 DEF ClaimLinks
  <2>2. GroundedLink(Edge(c, "SUPERSEDES", d))'
    BY <1>1, <2>1 DEF WInv, Grounded
  <2>. QED BY <1>1, <2>1, <2>2 DEF GroundedLink, HasToMark, Edge
<1>7. ASSUME NEW d \in Claims, Rivalry(c, d), o.status = "active", claim[d].status = "active"
      PROVE  HasToMark(w, d)'
  BY <1>1, <1>6, <1>7 DEF BatchSettles
<1>8. /\ \A b \in Claims : Present(b) =>
           /\ \A l \in Due(b) : l \in links \/ (l.rel = "CITES" /\ MaxUnsealed # 0)
           /\ \A d \in claim[b].supersedes : Present(d) /\ claim[d].status # "active"
      /\ \A b, d \in Claims : Rivalry(b, d) => ~BothActive(b, d)
  BY <1>1, NothingToDo
<1>9. ASSUME NEW b \in Claims, Present(b)'
      PROVE  /\ \A l \in Due(b)' : Made(w, l)'
             /\ \A d \in claim'[b].supersedes :
                  Present(d)' /\ (claim'[d].status = "active" => HasToMark(w, d)')
  <2>1. CASE b = c
    BY <1>4, <1>5, <1>6, <2>1
  <2>2. CASE b # c
    <3>1. /\ Present(b) /\ claim'[b] = claim[b] /\ Due(b)' = Due(b)
          /\ claim[b].supersedes \subseteq Claims
      BY <1>2, <1>3, <1>9, <2>2 DEF IInv, TypeOK, Row
    <3>2. \A l \in Due(b) : Made(w, l)'
      BY <1>1, <1>8, <3>1 DEF Made
    <3>3. \A d \in claim[b].supersedes : d # c /\ Present(d) /\ claim[d].status # "active"
      BY <1>2, <1>8, <3>1
    <3>. QED BY <1>2, <1>3, <3>1, <3>2, <3>3
  <2>. QED BY <2>1, <2>2
<1>10. ASSUME NEW b \in Claims, NEW d \in Claims, Rivalry(b, d),
              claim'[b].status = "active", claim'[d].status = "active"
       PROVE  HasToMark(w, b)' \/ HasToMark(w, d)'
  <2>1. b # d /\ Rivalry(d, b)
    BY <1>10 DEF Rivalry, Rivals, ShareSubject
  <2>2. CASE b = c
    BY <1>2, <1>4, <1>7, <1>10, <2>1, <2>2
  <2>3. CASE d = c
    BY <1>2, <1>4, <1>7, <1>10, <2>1, <2>3
  <2>4. CASE b # c /\ d # c
    BY <1>2, <1>8, <1>10, <2>4 DEF BothActive
  <2>. QED BY <2>2, <2>3, <2>4
<1>11. StoreSettles(w)'
  BY <1>9, <1>10 DEF StoreSettles, BothActive
<1>12. ASSUME NEW q \in DOMAIN decided[w], q \in queue'[w], decided[w][q].status = "active",
              NEW d \in Claims, Rivalry(decided[w][q].claim, d), claim'[d].status = "active"
       PROVE  d \in decided[w][q].supersedes
  <2>1. d # c
    BY <1>1, <1>4, <1>12 DEF BatchSettles, Rivalry
  <2>. QED BY <1>1, <1>2, <1>12, <2>1 DEF BatchSettles
<1>13. BatchSettles(w)'
  BY <1>1, <1>12 DEF BatchSettles, Writing
<1>. QED BY <1>11, <1>13

LEMMA LinkSettles ==
  ASSUME IInv, NEW w \in Workers, StoreSettles(w), BatchSettles(w), Link(w)
  PROVE  StoreSettles(w)' /\ BatchSettles(w)'
<1>1. PICK l \in todo[w] :
        /\ links' = IF Stored(l.from) /\ Stored(l.to) THEN links \cup {l} ELSE links
        /\ todo'[w] = todo[w] \ {l}
        /\ IF l.rel = "SUPERSEDES" THEN target'[w] = l.to /\ pc'[w] = "read" ELSE pc'[w] = "write"
  BY DEF Link, IInv, TypeOK
<1>2. pc[w] = "write" /\ UNCHANGED <<claim, event, entity, queue, decided, window, sealed>>
  BY DEF Link, memory
<1>3. \A n : Stored(n)' <=> Stored(n)
  BY <1>2 DEF Stored, Present
<1>4. \A m : Made(w, m) => Made(w, m)'
  BY <1>1, <1>3 DEF Made
<1>5. \A d : HasToMark(w, d) => HasToMark(w, d)'
  BY <1>1, <1>2 DEF HasToMark
<1>6. \A c \in Claims : (Present(c)' <=> Present(c)) /\ Due(c)' = Due(c)
  BY <1>2 DEF Present, Due
<1>7. StoreSettles(w)'
  <2>1. \A c \in Claims : Present(c) => claim[c].supersedes \subseteq Claims
    BY DEF IInv, TypeOK, Row
  <2>2. \A c, d \in Claims : BothActive(c, d)' <=> BothActive(c, d)
    BY <1>2 DEF BothActive
  <2>. QED BY <1>2, <1>4, <1>5, <1>6, <2>1, <2>2 DEF StoreSettles
<1>8. BatchSettles(w)'
  BY <1>1, <1>2 DEF BatchSettles, Writing
<1>. QED BY <1>7, <1>8

LEMMA MarkSettles ==
  ASSUME IInv, WInv, NEW w \in Workers, Retires(w), StoreSettles(w), BatchSettles(w),
         MarkSuperseded(w)
  PROVE  StoreSettles(w)' /\ BatchSettles(w)'
<1>. SUFFICES ASSUME NEW t, t = target[w]
              PROVE  StoreSettles(w)' /\ BatchSettles(w)'
  OBVIOUS
<1>1. /\ t \in Claims /\ claim[t] \in Row /\ claim[t].status \in {"active", "superseded"}
      /\ claim' = [claim EXCEPT ![t] = [claim[t] EXCEPT !.status = "superseded"]]
  BY MarkedAsRead
<1>2. /\ pc[w] = "mark" /\ pc'[w] = "write"
      /\ UNCHANGED <<event, entity, links, queue, todo, decided, window, sealed>>
  BY DEF MarkSuperseded, memory, IInv, TypeOK
<1>3. \A c \in Claims : /\ claim'[c].status = IF c = t THEN "superseded" ELSE claim[c].status
                        /\ claim'[c].supersedes = claim[c].supersedes
                        /\ claim'[c].contradicts = claim[c].contradicts
  BY <1>1 DEF Row, IInv, TypeOK
<1>4. \A c \in Claims : (Present(c)' <=> Present(c)) /\ Due(c)' = Due(c)
  BY <1>1, <1>3 DEF Present, Due
<1>5. \A l : Made(w, l) => Made(w, l)'
  BY <1>2, <1>4 DEF Made, Stored
<1>6. \A d : d # t /\ HasToMark(w, d) => HasToMark(w, d)'
  BY <1>2 DEF HasToMark
<1>7. StoreSettles(w)'
  <2>1. \A c \in Claims : Present(c) => claim[c].supersedes \subseteq Claims
    BY DEF IInv, TypeOK, Row
  <2>2. ASSUME NEW c \in Claims, Present(c)
        PROVE  /\ \A l \in Due(c) : Made(w, l)'
               /\ \A d \in claim'[c].supersedes :
                    Present(d)' /\ (claim'[d].status = "active" => HasToMark(w, d)')
    BY <1>3, <1>4, <1>5, <1>6, <2>1, <2>2 DEF StoreSettles
  <2>3. ASSUME NEW c \in Claims, NEW d \in Claims, Rivalry(c, d), BothActive(c, d)'
        PROVE  HasToMark(w, c)' \/ HasToMark(w, d)'
    BY <1>3, <1>6, <2>3 DEF StoreSettles, BothActive
  <2>. QED BY <1>4, <2>2, <2>3 DEF StoreSettles
<1>8. BatchSettles(w)'
  BY <1>2, <1>3 DEF BatchSettles, Writing
<1>. QED BY <1>7, <1>8

LEMMA NextSInv ==
  ASSUME OneWorker, NoClaimTwice, IInv, WInv, WInv', RInv, SInv, [Next]_vars, crashes' = 0
  PROVE  SInv'
<1>1. ASSUME NEW w \in Workers, Fetch(w) \/ Step(w) PROVE StoreSettles(w)' /\ BatchSettles(w)'
  <2>1. Unstored(w) /\ Retires(w) /\ StoreSettles(w) /\ BatchSettles(w)
    BY DEF RInv, SInv
  <2>. QED BY <1>1, <2>1, ReadingSettles, CompareSettles, WriteEventSettles, WriteClaimSettles,
              LinkSettles, MarkSettles DEF Step
<1>2. ASSUME UNCHANGED vars, NEW w \in Workers PROVE StoreSettles(w)' /\ BatchSettles(w)'
  BY <1>2 DEF vars, SInv, StoreSettles, BatchSettles, Due, Made, HasToMark, BothActive, Present, Stored
<1>3. ASSUME NEW w \in Workers, Crash(w) PROVE FALSE
  BY <1>3 DEF Crash, IInv, TypeOK
<1>. QED BY <1>1, <1>2, <1>3 DEF Next, SInv, OneWorker

(* An empty store lacks nothing.                                            *)
LEMMA NothingToSettle == Init => SInv
BY DEF Init, SInv, StoreSettles, BatchSettles, Writing, Present, AbsentRow, BothActive

(* A job that dies is counted.                                              *)
LEMMA NoCrashYet ==
  ASSUME IInv, [Next]_vars, crashes' = 0
  PROVE  crashes = 0 /\ \A w \in Workers : ~Crash(w)
<1>1. ASSUME NEW w \in Workers, Crash(w) PROVE FALSE
  BY <1>1 DEF Crash, IInv, TypeOK
<1>2. ASSUME NEW w \in Workers, Fetch(w) \/ Step(w) PROVE crashes' = crashes
  BY <1>2 DEF Step, Fetch, LookUp, Compare, Encrypt, WriteEntities, WriteEvent, WriteClaim,
              Link, ReadClaim, MarkSuperseded, Finish
<1>. QED BY <1>1, <1>2 DEF Next, vars

LEMMA OneWorkerSettles ==
  ASSUME OneWorker, NoClaimTwice
  PROVE  Spec => [](IInv /\ WInv /\ RInv /\ (crashes = 0 => SInv))
<1>1. Init => SInv
  BY NothingToSettle
<1>2. IInv /\ WInv /\ WInv' /\ RInv /\ (crashes = 0 => SInv) /\ [Next]_vars
        => (crashes = 0 => SInv)'
  <2>. SUFFICES ASSUME IInv, WInv, WInv', RInv, crashes = 0 => SInv, [Next]_vars, crashes' = 0
                PROVE  SInv'
    OBVIOUS
  <2>1. crashes = 0
    BY NoCrashYet
  <2>. QED BY <2>1, NextSInv
<1>. QED BY <1>1, <1>2, OneWorkerHolds, PTL DEF Spec

-----------------------------------------------------------------------------
(* Theorems about one worker none of whose jobs died.                       *)

(* With everything marked, no two answers are active.                       *)
LEMMA SettledGivesOneAnswer ==
  ASSUME OneWorker, IInv, SInv
  PROVE  OneActiveAnswer
<1>. SUFFICES ASSUME Quiet, NEW c \in Claims, NEW d \in Claims,
                     Rivals(c, d), ShareSubject(c, d)
              PROVE  ~BothActive(c, d)
  BY DEF OneActiveAnswer, BothActive
<1>1. PICK w : Workers = {w}
  BY DEF OneWorker
<1>2. StoreSettles(w) /\ todo[w] = {} /\ pc[w] = "idle"
  BY <1>1 DEF SInv, BatchSettles, Quiet
<1>. QED BY <1>1, <1>2, NothingToDo DEF Rivalry

(* When the worker is idle, two active claims about the same subject and    *)
(* topic do not differ in content: resolve has superseded the earlier one,  *)
(* and write has come to its status.                                        *)
THEOREM OneWorkerGivesOneAnswer ==
  ASSUME OneWorker, NoClaimTwice
  PROVE  Spec => [](crashes = 0 => OneActiveAnswer)
<1>1. IInv /\ SInv => OneActiveAnswer
  BY SettledGivesOneAnswer
<1>. QED BY <1>1, OneWorkerSettles, PTL

(* A settled claim stays settled while no job dies.                         *)
LEMMA StaysSettled ==
  ASSUME IInv, WInv, RInv, SInv, [Next]_vars, NEW c \in Claims, Settled(c),
         NEW w \in Workers
  PROVE  Settled(c)'
<1>1. /\ Present(c) /\ Due(c) \subseteq links /\ \A d \in claim[c].supersedes : claim[d].status # "active"
      /\ claim[c] \in Row /\ claim[c].supersedes \subseteq Claims
  BY DEF Settled, Due, IInv, TypeOK, Row
<1>2. Present(c)' /\ links \subseteq links'
  BY <1>1, StoreGrows
<1>3. claim'[c].supersedes = claim[c].supersedes /\ claim'[c].contradicts = claim[c].contradicts
  <2>1. CASE claim'[c] = claim[c]
    BY <2>1
  <2>2. CASE claim'[c] = [claim[c] EXCEPT !.status = "superseded"]
    BY <1>1, <2>2 DEF Row
  <2>. QED BY <1>1, <2>1, <2>2, OnlyRetires
<1>4. ASSUME NEW d \in claim[c].supersedes PROVE claim'[d].status # "active"
  <2>1. d \in Claims /\ Present(d) /\ claim[d].status # "active"
    BY <1>1 DEF SInv, StoreSettles
  <2>. QED BY <2>1, OnlyRetires
<1>. QED BY <1>1, <1>2, <1>3, <1>4 DEF Settled, Due

(* What run_ingestion returned as ingested is whole in the graph: every     *)
(* claim of the window with the relationships its payload calls for, and    *)
(* every claim it supersedes marked.                                        *)
THEOREM OneWorkerLeavesRunsWhole ==
  ASSUME OneWorker, NoClaimTwice, MaxUnsealed = 0
  PROVE  Spec => [](crashes = 0 => FinishedRunsAreWhole)
<1>. DEFINE Kept == IInv /\ WInv /\ RInv /\ (crashes = 0 => SInv)
<1>1. Init => FinishedRunsAreWhole
  BY DEF Init, FinishedRunsAreWhole
<1>2. Kept /\ (crashes = 0 => FinishedRunsAreWhole) /\ [Next]_vars
        => (crashes = 0 => FinishedRunsAreWhole)'
  <2>. SUFFICES ASSUME Kept, crashes = 0 => FinishedRunsAreWhole, [Next]_vars, crashes' = 0
                PROVE  FinishedRunsAreWhole'
    OBVIOUS
  <2>1. crashes = 0 /\ \A w \in Workers : ~Crash(w)
    BY NoCrashYet
  <2>2. \A win \in finished : \A p \in ClaimPositions(win) :
          ClaimAt(win, p) \in Claims /\ Settled(ClaimAt(win, p)) /\ Settled(ClaimAt(win, p))'
    <3>1. \A win \in finished : \A p \in ClaimPositions(win) : ClaimAt(win, p) \in Claims
      BY PositionsAreNatural DEF IInv, TypeOK
    <3>2. PICK w \in Workers : TRUE
      BY DEF OneWorker
    <3>. QED BY <2>1, <3>1, <3>2, StaysSettled DEF FinishedRunsAreWhole
  <2>3. CASE finished' = finished
    BY <2>2, <2>3 DEF FinishedRunsAreWhole
  <2>4. ASSUME NEW w \in Workers, Finish(w) PROVE FinishedRunsAreWhole'
    <3>. SUFFICES ASSUME NEW done, done = window[w] PROVE FinishedRunsAreWhole'
      OBVIOUS
    <3>1. /\ pc[w] = "write" /\ todo[w] = {} /\ queue[w] = {}
          /\ finished' = finished \cup {done} /\ UNCHANGED <<claim, links>>
      BY <2>4 DEF Finish, store
    <3>2. ASSUME NEW p \in ClaimPositions(done), NEW c, c = ClaimAt(done, p)
          PROVE  Settled(c)'
      <4>1. c \in Claims
        BY <3>2, PositionsAreNatural DEF IInv, TypeOK
      <4>2. Present(c)
        BY <3>1, <3>2 DEF WInv, HandlesInOrder, Writing
      <4>3. StoreSettles(w)
        BY <2>1 DEF SInv
      <4>4. Settled(c)
        BY <3>1, <4>1, <4>2, <4>3, NothingToDo DEF Settled, Due
      <4>. QED BY <3>1, <4>4 DEF Settled, Present
    <3>. QED BY <2>2, <3>1, <3>2 DEF FinishedRunsAreWhole
  <2>5. ASSUME NEW w \in Workers, Fetch(w) \/ (Step(w) /\ ~Finish(w)) PROVE finished' = finished
    BY <2>5 DEF Step, Fetch, LookUp, Compare, Encrypt, WriteEntities, WriteEvent, WriteClaim,
                Link, ReadClaim, MarkSuperseded
  <2>. QED BY <2>1, <2>3, <2>4, <2>5 DEF Next, Step, vars
<1>. QED BY <1>1, <1>2, OneWorkerSettles, PTL DEF Spec
=============================================================================
