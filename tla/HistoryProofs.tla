----------------------------- MODULE HistoryProofs -----------------------------
(***************************************************************************)
(* Theorems about History, for every graph, every request and every        *)
(* interleaving of a read with ingestion.                                  *)
(***************************************************************************)
EXTENDS History, IngestionProofs

-----------------------------------------------------------------------------
(* Traversals.                                                              *)

(* Induction up to a number, on the set of those it has reached.            *)
LEMMA UpTo ==
  ASSUME NEW d \in Nat, NEW T, 0 \in T, \A k \in 0..d : (k # d /\ k \in T) => k + 1 \in T
  PROVE  0..d \subseteq T
<1>. SUFFICES ASSUME (0..d) \ T # {} PROVE FALSE
  OBVIOUS
<1>1. PICK n \in (0..d) \ T : \A m \in (0..d) \ T : n <= m
  <2>1. (0..d) \ T \in SUBSET Nat
    OBVIOUS
  <2>. QED BY <2>1, LeastNatural
<1>2. n # 0 /\ n - 1 \in 0..d /\ n - 1 # d
  BY <1>1
<1>3. n - 1 \in T
  BY <1>1, <1>2
<1>4. (n - 1) + 1 \in T
  BY <1>2, <1>3
<1>. QED BY <1>1, <1>4

(* The ball of each radius is the one before with its neighbours.           *)
LEMMA BallUnfolds ==
  ASSUME NEW E, NEW S, NEW d \in Nat
  PROVE  LET b == Ball(E, S, d)
         IN  /\ b[0] = S
             /\ \A k \in 0..d : k # d => b[k + 1] = b[k] \cup Neighbours(E, b[k])
<1>. DEFINE Grown(g, k) == IF k = 0 THEN S ELSE g[k-1] \cup Neighbours(E, g[k-1])
            T == {n \in 0..d : \E g : g = [k \in 0..n |-> Grown(g, k)]}
<1>1. 0 \in T
  <2>. DEFINE g == [k \in 0..0 |-> S]
  <2>1. g = [k \in 0..0 |-> Grown(g, k)]
    OBVIOUS
  <2>. HIDE DEF g, Grown
  <2>. QED BY <2>1
<1>2. ASSUME NEW n \in 0..d, n # d, n \in T PROVE n + 1 \in T
  <2>1. PICK g : g = [k \in 0..n |-> Grown(g, k)]
    BY <1>2
  <2>. DEFINE h == [k \in 0..(n+1) |-> IF k = n + 1 THEN g[n] \cup Neighbours(E, g[n]) ELSE g[k]]
  <2>2. h = [k \in 0..(n+1) |-> Grown(h, k)]
    <3>1. ASSUME NEW k \in 0..(n+1) PROVE h[k] = Grown(h, k)
      <4>1. CASE k = n + 1
        BY <4>1
      <4>2. CASE k \in 0..n
        <5>1. h[k] = g[k] /\ (k # 0 => h[k-1] = g[k-1])
          BY <4>2
        <5>2. g[k] = Grown(g, k)
          BY <2>1, <4>2
        <5>. QED BY <5>1, <5>2
      <4>. QED BY <4>1, <4>2
    <3>. HIDE DEF Grown
    <3>. QED BY <3>1
  <2>3. n + 1 \in 0..d
    BY <1>2
  <2>. HIDE DEF h, Grown
  <2>. QED BY <2>2, <2>3
<1>3. d \in T
  <2>. HIDE DEF T
  <2>1. 0..d \subseteq T
    BY <1>1, <1>2, UpTo
  <2>. QED BY <2>1
<1>. DEFINE b == Ball(E, S, d)
<1>4. b = [k \in 0..d |-> Grown(b, k)]
  BY <1>3 DEF Ball
<1>. HIDE DEF b
<1>5. b[0] = S
  BY <1>4
<1>6. \A k \in 0..d : k # d => b[k + 1] = b[k] \cup Neighbours(E, b[k])
  <2>1. \A k \in 0..d : k # d => k + 1 \in 0..d /\ k + 1 # 0 /\ (k + 1) - 1 = k
    OBVIOUS
  <2>2. \A j \in 0..d : b[j] = Grown(b, j)
    BY <1>4
  <2>. QED BY <2>1, <2>2
<1>. QED BY <1>5, <1>6 DEF b

LEMMA BallGrows ==
  ASSUME NEW E, NEW S, NEW d \in Nat, NEW j \in 0..d
  PROVE  \A k \in j..d : Ball(E, S, d)[j] \subseteq Ball(E, S, d)[k]
<1>. DEFINE b == Ball(E, S, d)
            T == {k \in 0..d : k >= j => b[j] \subseteq b[k]}
<1>1. 0 \in T
  <2>1. 0 >= j => j = 0
    OBVIOUS
  <2>. QED BY <2>1
<1>2. ASSUME NEW k \in 0..d, k # d, k \in T PROVE k + 1 \in T
  <2>1. b[k] \subseteq b[k + 1] /\ k + 1 \in 0..d
    BY <1>2, BallUnfolds
  <2>2. k + 1 >= j => k + 1 = j \/ k >= j
    OBVIOUS
  <2>. HIDE DEF b
  <2>. QED BY <1>2, <2>1, <2>2
<1>. HIDE DEF T
<1>3. 0..d \subseteq T
  BY <1>1, <1>2, UpTo
<1>. QED BY <1>3 DEF T

(* More relationships reach more.                                           *)
LEMMA BallMonotone ==
  ASSUME NEW E, NEW F, E \subseteq F, NEW S, NEW d \in Nat
  PROVE  \A k \in 0..d : Ball(E, S, d)[k] \subseteq Ball(F, S, d)[k]
<1>. DEFINE b == Ball(E, S, d)
            c == Ball(F, S, d)
            T == {k \in 0..d : b[k] \subseteq c[k]}
<1>1. 0 \in T
  BY BallUnfolds
<1>2. ASSUME NEW k \in 0..d, k # d, k \in T PROVE k + 1 \in T
  <2>1. b[k + 1] = b[k] \cup Neighbours(E, b[k]) /\ c[k + 1] = c[k] \cup Neighbours(F, c[k])
    BY <1>2, BallUnfolds
  <2>. HIDE DEF b, c
  <2>2. Neighbours(E, b[k]) \subseteq Neighbours(F, c[k])
    BY <1>2 DEF Neighbours
  <2>. QED BY <1>2, <2>1, <2>2
<1>. HIDE DEF T
<1>3. 0..d \subseteq T
  BY <1>1, <1>2, UpTo
<1>. QED BY <1>3 DEF T

(* What no relationship leaves, no traversal leaves.                        *)
LEMMA BallStaysWithin ==
  ASSUME NEW E, NEW S, NEW d \in Nat, NEW U, S \subseteq U,
         \A l \in E : l.from \in U <=> l.to \in U
  PROVE  \A k \in 0..d : Ball(E, S, d)[k] \subseteq U
<1>. DEFINE b == Ball(E, S, d)
            T == {k \in 0..d : b[k] \subseteq U}
<1>1. 0 \in T
  BY BallUnfolds
<1>2. ASSUME NEW k \in 0..d, k # d, k \in T PROVE k + 1 \in T
  <2>1. b[k + 1] = b[k] \cup Neighbours(E, b[k])
    BY <1>2, BallUnfolds
  <2>. HIDE DEF b
  <2>2. Neighbours(E, b[k]) \subseteq U
    BY <1>2 DEF Neighbours
  <2>. QED BY <1>2, <2>1, <2>2
<1>. HIDE DEF T
<1>3. 0..d \subseteq T
  BY <1>1, <1>2, UpTo
<1>. QED BY <1>3 DEF T

(* An object shown at some distance was reached from one a relationship     *)
(* nearer.                                                                  *)
LEMMA DistancesAreShortest ==
  ASSUME NEW E, NEW S, NEW d \in Nat
  PROVE  LET D == Distances(E, S, d)
             b == Ball(E, S, d)
         IN  /\ DOMAIN D = b[d]
             /\ \A n \in DOMAIN D :
                  /\ D[n] \in 0..d /\ n \in b[D[n]]
                  /\ D[n] # 0 => \E m \in DOMAIN D :
                       /\ D[m] = D[n] - 1 /\ m \in b[D[m]]
                       /\ \E l \in E : {l.from, l.to} = {m, n}
<1>. DEFINE D == Distances(E, S, d)
            b == Ball(E, S, d)
            Near(n, k) == n \in b[k] /\ \A j \in 0..(k-1) : n \notin b[j]
<1>1. D = [n \in b[d] |-> CHOOSE k \in 0..d : Near(n, k)]
  BY DEF Distances
<1>2. \A k \in 0..d : k # d => b[k + 1] = b[k] \cup Neighbours(E, b[k])
  BY BallUnfolds
<1>3. \A j \in 0..d : \A k \in j..d : b[j] \subseteq b[k]
  BY BallGrows
<1>. HIDE DEF b, D
<1>4. ASSUME NEW n \in b[d] PROVE D[n] \in 0..d /\ Near(n, D[n])
  <2>1. \E k \in {i \in 0..d : n \in b[i]} : \A j \in {i \in 0..d : n \in b[i]} : k <= j
    <3>1. {i \in 0..d : n \in b[i]} \in SUBSET Nat /\ {i \in 0..d : n \in b[i]} # {}
      BY <1>4
    <3>. QED BY <3>1, LeastNatural
  <2>2. \E k \in 0..d : Near(n, k)
    BY <2>1
  <2>. HIDE DEF Near
  <2>. QED BY <1>1, <1>4, <2>2
<1>5. DOMAIN D = b[d]
  BY <1>1
<1>6. ASSUME NEW n \in b[d], D[n] # 0
      PROVE  \E m \in DOMAIN D : /\ D[m] = D[n] - 1 /\ m \in b[D[m]]
                                 /\ \E l \in E : {l.from, l.to} = {m, n}
  <2>. SUFFICES ASSUME NEW k \in 0..d, k = D[n]
                PROVE  \E m \in DOMAIN D : /\ D[m] = D[n] - 1 /\ m \in b[D[m]]
                                           /\ \E l \in E : {l.from, l.to} = {m, n}
    BY <1>4
  <2>1. k # 0 /\ n \in b[k] /\ n \notin b[k - 1] /\ k - 1 \in 0..d /\ k - 1 # d
    BY <1>4, <1>6
  <2>2. n \in Neighbours(E, b[k - 1])
    <3>1. b[(k - 1) + 1] = b[k - 1] \cup Neighbours(E, b[k - 1])
      BY <1>2, <2>1
    <3>. QED BY <2>1, <3>1
  <2>3. PICK m \in b[k - 1] : \E l \in E : {l.from, l.to} = {m, n}
    BY <2>2 DEF Neighbours
  <2>4. m \in b[d]
    BY <1>3, <2>1
  <2>5. D[m] \in 0..d /\ Near(m, D[m])
    BY <1>4, <2>4
  <2>6. D[m] <= k - 1
    BY <2>1, <2>5
  <2>7. ~(D[m] < k - 1)
    <3>1. SUFFICES ASSUME D[m] < k - 1 PROVE FALSE
      OBVIOUS
    <3>2. b[D[m] + 1] = b[D[m]] \cup Neighbours(E, b[D[m]])
      BY <1>2, <2>1, <2>5, <3>1
    <3>3. n \in Neighbours(E, b[D[m]])
      BY <2>3, <2>5 DEF Neighbours
    <3>4. n \in b[D[m] + 1] /\ D[m] + 1 \in 0..(k - 1)
      BY <2>1, <2>5, <3>1, <3>2, <3>3
    <3>. QED BY <1>4, <3>4
  <2>8. D[m] = D[n] - 1
    BY <2>5, <2>6, <2>7
  <2>. QED BY <1>5, <2>3, <2>4, <2>5, <2>8
<1>. QED BY <1>4, <1>5, <1>6 DEF b, D

-----------------------------------------------------------------------------
(* What is written while a read goes on.                                    *)

(* A relationship joins what is stored; a succession, two claims.           *)
LinksInv ==
  \A l \in links : /\ Stored(l.from) /\ Stored(l.to)
                   /\ l.rel = "SUPERSEDES" => l.from \in Claims /\ l.to \in Claims

StoreInv == IInv /\ WInv /\ LinksInv

LEMMA NextLinksInv ==
  ASSUME StoreInv, [Next]_vars
  PROVE  LinksInv'
<1>1. ASSUME NEW w \in Workers, Link(w) PROVE LinksInv'
  <2>1. PICK l \in todo[w] :
          links' = IF Stored(l.from) /\ Stored(l.to) THEN links \cup {l} ELSE links
    BY <1>1 DEF Link
  <2>2. l.rel = "SUPERSEDES" => l.from \in Claims /\ l.to \in Claims
    BY DEF StoreInv, WInv, Grounded, GroundedLink
  <2>. QED BY <2>1, <2>2, StoredStays DEF StoreInv, LinksInv
<1>2. CASE UNCHANGED links
  BY <1>2, StoredStays DEF StoreInv, LinksInv
<1>3. ASSUME NEW w \in Workers, WriteClaim(w) \/ MarkSuperseded(w) PROVE UNCHANGED links
  BY <1>3 DEF WriteClaim, MarkSuperseded
<1>. QED BY <1>1, <1>2, <1>3, ClaimsWrittenBy DEF Next, Step, vars

(* To the pipeline a read is a pause: no step of it touches the store or a  *)
(* worker.                                                                  *)
LEMMA ReadsOnlyRead ==
  ASSUME [HNext]_allVars
  PROVE  /\ [Next]_vars
         /\ (Read /\ UNCHANGED vars) \/ UNCHANGED read
<1>1. ASSUME Read PROVE UNCHANGED vars
  BY <1>1 DEF Read, Ask, ShiftChain, ShiftConflicts, ShiftExtra, CitesChain, ContextHops,
              ContextEdges, ContextObjects, NeighbourhoodSeeds, NeighbourhoodHops,
              NeighbourhoodObjects, NeighbourhoodEdges, CheckPermissions, Return
<1>. QED BY <1>1 DEF HNext, allVars

LEMMA StoreHolds == HSpec => []StoreInv
<1>1. HInit => StoreInv
  <2>1. Init => WInv
    BY DEF Init, WInv, HandlesInOrder, Grounded, Writing
  <2>. QED BY <2>1, InitIInv DEF HInit, Init, StoreInv, LinksInv
<1>2. StoreInv /\ [HNext]_allVars => StoreInv'
  BY ReadsOnlyRead, NextIInv, NextWInv, NextLinksInv DEF StoreInv
<1>. QED BY <1>1, <1>2, PTL DEF HSpec

-----------------------------------------------------------------------------
(* What a read holds.                                                       *)

(* Where a read is tells what was asked and what it has not touched yet.    *)
ReadInv ==
  /\ ReadOK
  /\ at # "idle" => asked \in Requests
  /\ at \in {"idle", "walk"} => hop = <<>> /\ nodes = <<>> /\ edges = {}
  /\ at # "answered" => denied = {}
  /\ at \in {"conflicts", "extra"} => asked.read = "shift"
  /\ at = "cites" => asked.read = "context"
  /\ at = "objects" => asked.read \in {"context", "neighbourhood"}
  /\ at \in {"hops", "among"} => asked.read = "neighbourhood"

LEMMA LinkEnds ==
  ASSUME StoreInv
  PROVE  /\ \A n : Stored(n) => n \in Objects
         /\ \A rel : Typed(rel) \subseteq links
         /\ links \subseteq Edges
         /\ \A l \in links : l.from \in Objects /\ l.to \in Objects
BY DEF Objects, Stored, StoreInv, LinksInv, Typed, IInv, TypeOK

LEMMA SeedOfARequest ==
  ASSUME asked \in Requests
  PROVE  /\ asked.seeds \subseteq Objects /\ asked.hops \in Nat \ {0}
         /\ asked.read # "neighbourhood" => Seed \in asked.seeds /\ asked.seeds = {Seed}
<1>1. /\ asked.seeds \subseteq Objects /\ asked.hops \in Nat \ {0}
      /\ asked.read # "neighbourhood" => \E n \in asked.seeds : asked.seeds = {n}
  BY RequestAssumption DEF Objects
<1>. QED BY <1>1 DEF Seed

(* The reader has read payloads of objects within reach.                    *)
LEMMA PayloadsAreRows ==
  ASSUME StoreInv, NEW S
  PROVE  /\ DOMAIN GetMany(S) = {n \in S : Stored(n)} /\ DOMAIN GetMany(S) \subseteq Objects
         /\ \A n \in DOMAIN GetMany(S) : GetMany(S)[n] \in Row
         /\ \A n \in DOMAIN GetMany(S) : n \in Claims => GetMany(S)[n] = claim[n]
BY LinkEnds DEF GetMany, Payload, StoreInv, IInv, TypeOK, Row, AbsentRow

LEMMA ReachedObjects ==
  ASSUME StoreInv, NEW E \in SUBSET links, NEW S \in SUBSET Objects, NEW d \in Nat
  PROVE  Ball(E, S, d)[d] \subseteq Objects /\ DOMAIN Distances(E, S, d) \subseteq Objects
<1>1. \A l \in E : l.from \in Objects <=> l.to \in Objects
  BY LinkEnds
<1>2. \A k \in 0..d : Ball(E, S, d)[k] \subseteq Objects
  BY <1>1, BallStaysWithin
<1>3. DOMAIN Distances(E, S, d) = Ball(E, S, d)[d]
  BY DistancesAreShortest
<1>. QED BY <1>2, <1>3

LEMMA AskReadInv ==
  ASSUME StoreInv, ReadInv, Ask \/ CheckPermissions \/ Return
  PROVE  ReadInv'
<1>1. CASE Ask
  BY <1>1 DEF ReadInv, ReadOK, Ask
<1>2. CASE CheckPermissions
  BY <1>2 DEF ReadInv, ReadOK, CheckPermissions
<1>3. CASE Return
  BY <1>3 DEF ReadInv, ReadOK, Return, NoRequest
<1>. QED BY <1>1, <1>2, <1>3

LEMMA ShiftReadInv ==
  ASSUME StoreInv, ReadInv, ShiftChain \/ ShiftConflicts \/ ShiftExtra
  PROVE  ReadInv'
<1>1. ASSUME ShiftChain PROVE ReadInv'
  <2>1. asked \in Requests /\ Seed \in Objects /\ asked.hops \in Nat /\ MaxHops \in Nat
    BY <1>1, SeedOfARequest, RequestAssumption DEF ShiftChain, ReadInv
  <2>2. SupersessionChain(Seed) \subseteq Objects
    <3>1. {Seed} \in SUBSET Objects /\ Typed("SUPERSEDES") \in SUBSET links
      BY <2>1, LinkEnds
    <3>2. Ball(Typed("SUPERSEDES"), {Seed}, MaxHops)[MaxHops] \subseteq Objects
      BY <2>1, <3>1, ReachedObjects
    <3>. QED BY <3>2 DEF SupersessionChain
  <2>. DEFINE S == SupersessionChain(Seed)
  <2>3. /\ DOMAIN nodes' \subseteq Objects
        /\ \A n \in DOMAIN nodes' : nodes'[n] \in Row
    <3>1. nodes' = GetMany(S)
      BY <1>1 DEF ShiftChain
    <3>. HIDE DEF S
    <3>. QED BY <3>1, PayloadsAreRows
  <2>4. hop' = [c \in S |-> 0]
    BY <1>1 DEF ShiftChain
  <2>5. DOMAIN hop' \subseteq Objects /\ \A n \in DOMAIN hop' : hop'[n] = 0
    BY <2>2, <2>4
  <2>. QED BY <1>1, <2>1, <2>3, <2>5 DEF ReadInv, ReadOK, ShiftChain
<1>2. ASSUME ShiftConflicts PROVE ReadInv'
  <2>1. edges' \subseteq Edges
    BY <1>2, LinkEnds DEF ShiftConflicts, ConflictLinks, Typed
  <2>. QED BY <1>2, <2>1 DEF ReadInv, ReadOK, ShiftConflicts
<1>3. ASSUME ShiftExtra PROVE ReadInv'
  <2>. DEFINE extra == UNION {{l.from, l.to} : l \in edges} \ DOMAIN hop
              got == GetMany(extra)
  <2>1. nodes' = [n \in DOMAIN nodes \cup DOMAIN got |->
                    IF n \in DOMAIN nodes THEN nodes[n] ELSE got[n]]
    BY <1>3 DEF ShiftExtra
  <2>2. DOMAIN got \subseteq Objects /\ \A n \in DOMAIN got : got[n] \in Row
    <3>. HIDE DEF extra
    <3>. QED BY PayloadsAreRows
  <2>. HIDE DEF got
  <2>3. DOMAIN nodes' \subseteq Objects /\ \A n \in DOMAIN nodes' : nodes'[n] \in Row
    BY <2>1, <2>2 DEF ReadInv, ReadOK
  <2>. QED BY <1>3, <2>3 DEF ReadInv, ReadOK, ShiftExtra
<1>. QED BY <1>1, <1>2, <1>3

(* What a context finds far from its seed.                                  *)
LEMMA HopsOfAContext ==
  ASSUME StoreInv, ReadInv, NEW before, NEW after, ContextHops(before, after), at # "idle"
  PROVE  /\ Seed \in Objects /\ asked.hops \in Nat \ {0}
         /\ DOMAIN hop' \subseteq Objects
         /\ \A n \in DOMAIN hop' : hop'[n] \in 0..asked.hops
         /\ ~Stored(Seed) => hop' = [n \in {Seed} |-> 0]
         /\ Stored(Seed) => hop' = Distances(Typed("CITES"), {Seed}, asked.hops)
<1>1. asked \in Requests /\ Seed \in Objects /\ asked.hops \in Nat \ {0}
  BY SeedOfARequest DEF ContextHops, ReadInv
<1>2. {Seed} \in SUBSET Objects /\ Typed("CITES") \in SUBSET links
  BY <1>1, LinkEnds
<1>3. hop' = IF Stored(Seed) THEN Distances(Typed("CITES"), {Seed}, asked.hops)
             ELSE [n \in {Seed} |-> 0]
  BY DEF ContextHops
<1>4. CASE Stored(Seed)
  BY <1>1, <1>2, <1>3, <1>4, ReachedObjects, DistancesAreShortest
<1>5. CASE ~Stored(Seed)
  BY <1>1, <1>3, <1>5
<1>. QED BY <1>1, <1>3, <1>4, <1>5

LEMMA ContextReadInv ==
  ASSUME StoreInv, ReadInv, CitesChain \/ ContextObjects
  PROVE  ReadInv'
<1>1. ASSUME ContextHops("walk", "cites") PROVE ReadInv'
  <2>1. at = "walk" /\ at' = "cites" /\ asked.read = "context"
        /\ UNCHANGED <<asked, nodes, edges, denied>>
    BY <1>1 DEF ContextHops
  <2>2. DOMAIN hop' \subseteq Objects /\ \A n \in DOMAIN hop' : hop'[n] \in 0..asked.hops
    BY <1>1, <2>1, HopsOfAContext
  <2>. QED BY <2>1, <2>2 DEF ReadInv, ReadOK
<1>2. ASSUME ContextEdges("cites", "objects") PROVE ReadInv'
  <2>1. edges' \subseteq Edges
    BY <1>2, LinkEnds DEF ContextEdges, CitesEdges, Typed
  <2>. QED BY <1>2, <2>1 DEF ReadInv, ReadOK, ContextEdges
<1>3. ASSUME ContextObjects PROVE ReadInv'
  <2>1. DOMAIN nodes' \subseteq Objects /\ \A n \in DOMAIN nodes' : nodes'[n] \in Row
    BY <1>3, PayloadsAreRows DEF ContextObjects
  <2>. QED BY <1>3, <2>1 DEF ReadInv, ReadOK, ContextObjects
<1>. QED BY <1>1, <1>2, <1>3 DEF CitesChain

LEMMA NeighbourhoodReadInv ==
  ASSUME StoreInv, ReadInv,
         NeighbourhoodSeeds \/ NeighbourhoodHops \/ NeighbourhoodObjects \/ NeighbourhoodEdges
  PROVE  ReadInv'
<1>1. ASSUME NeighbourhoodSeeds PROVE ReadInv'
  <2>1. asked \in Requests /\ asked.seeds \subseteq Objects /\ asked.hops \in Nat \ {0}
    BY <1>1, SeedOfARequest DEF NeighbourhoodSeeds, ReadInv
  <2>2. DOMAIN hop' \subseteq Objects /\ \A n \in DOMAIN hop' : hop'[n] = 0
    BY <1>1, <2>1 DEF NeighbourhoodSeeds
  <2>. QED BY <1>1, <2>1, <2>2 DEF ReadInv, ReadOK, NeighbourhoodSeeds
<1>2. ASSUME NeighbourhoodHops PROVE ReadInv'
  <2>1. asked \in Requests /\ asked.hops \in Nat /\ DOMAIN hop \in SUBSET Objects
    BY <1>2, SeedOfARequest DEF NeighbourhoodHops, ReadInv, ReadOK
  <2>2. hop' = Distances(links, DOMAIN hop, asked.hops)
    BY <1>2 DEF NeighbourhoodHops
  <2>3. DOMAIN hop' \subseteq Objects
    BY <2>1, <2>2, ReachedObjects
  <2>4. \A n \in DOMAIN hop' : hop'[n] \in 0..asked.hops
    BY <2>1, <2>2, DistancesAreShortest
  <2>. QED BY <1>2, <2>3, <2>4 DEF ReadInv, ReadOK, NeighbourhoodHops
<1>3. ASSUME NeighbourhoodObjects PROVE ReadInv'
  <2>1. DOMAIN nodes' \subseteq Objects /\ \A n \in DOMAIN nodes' : nodes'[n] \in Row
    BY <1>3, PayloadsAreRows DEF NeighbourhoodObjects
  <2>. QED BY <1>3, <2>1 DEF ReadInv, ReadOK, NeighbourhoodObjects
<1>4. ASSUME NeighbourhoodEdges PROVE ReadInv'
  <2>1. edges' \subseteq Edges
    BY <1>4, LinkEnds DEF NeighbourhoodEdges, EdgesAmong
  <2>. QED BY <1>4, <2>1 DEF ReadInv, ReadOK, NeighbourhoodEdges
<1>. QED BY <1>1, <1>2, <1>3, <1>4

LEMMA NextReadInv ==
  ASSUME StoreInv, ReadInv, [HNext]_allVars
  PROVE  ReadInv'
<1>1. CASE UNCHANGED read
  BY <1>1 DEF ReadInv, ReadOK, read
<1>2. CASE Read
  BY <1>2, AskReadInv, ShiftReadInv, ContextReadInv, NeighbourhoodReadInv DEF Read
<1>. QED BY <1>1, <1>2, ReadsOnlyRead

LEMMA ReadsHold == HSpec => [](StoreInv /\ ReadInv)
<1>1. HInit => ReadInv
  BY DEF HInit, ReadInv, ReadOK, NoRequest
<1>2. StoreInv /\ ReadInv /\ [HNext]_allVars => ReadInv'
  BY NextReadInv
<1>. QED BY <1>1, <1>2, StoreHolds, PTL DEF HSpec

(* A read keeps its shape: whatever ingestion commits between its queries,  *)
(* it holds objects at most as far as was asked, payloads as they are       *)
(* stored, and denials of what it read only.                                *)
THEOREM ReadTypeCorrect == HSpec => []ReadOK
<1>1. ReadInv => ReadOK
  BY DEF ReadInv
<1>. QED BY <1>1, ReadsHold, PTL

-----------------------------------------------------------------------------
(* Neighbourhoods.                                                          *)

(* Around what is stored, everything is stored.                             *)
LEMMA StoredReach ==
  ASSUME StoreInv, NEW E \in SUBSET links, NEW S, \A n \in S : Stored(n), NEW d \in Nat
  PROVE  \A k \in 0..d : \A n \in Ball(E, S, d)[k] : Stored(n)
<1>. DEFINE U == {n \in Objects : Stored(n)}
<1>1. S \subseteq U /\ \A l \in E : l.from \in U <=> l.to \in U
  BY LinkEnds DEF StoreInv, LinksInv
<1>. HIDE DEF U
<1>2. \A k \in 0..d : Ball(E, S, d)[k] \subseteq U
  BY <1>1, BallStaysWithin
<1>. QED BY <1>2 DEF U

(* Once its distances are read a neighbourhood stays whole: what it found   *)
(* is stored, and so still there for the queries that follow.               *)
NeighbourhoodInv ==
  asked.read = "neighbourhood" =>
    /\ at \in {"hops", "objects"} => \A n \in DOMAIN hop : Stored(n)
    /\ at \in {"among", "check", "answered"} => DOMAIN nodes = DOMAIN hop
    /\ at \in {"check", "answered"} => \A l \in edges : {l.from, l.to} \subseteq DOMAIN hop

LEMMA NextNeighbourhoodInv ==
  ASSUME StoreInv, ReadInv, NeighbourhoodInv, [HNext]_allVars
  PROVE  NeighbourhoodInv'
<1>1. CASE UNCHANGED read
  BY <1>1, ReadsOnlyRead, StoredStays DEF NeighbourhoodInv, read, StoreInv
<1>2. ASSUME Read, UNCHANGED vars PROVE NeighbourhoodInv'
  <2>1. \A n : Stored(n)' <=> Stored(n)
    BY <1>2 DEF Stored, Present, vars
  <2>2. CASE Ask
    BY <2>2 DEF Ask, NeighbourhoodInv
  <2>3. CASE ShiftChain \/ ShiftConflicts \/ ShiftExtra \/ CitesChain \/ ContextObjects
    BY <2>3 DEF ShiftChain, ShiftConflicts, ShiftExtra, CitesChain, ContextHops,
                ContextEdges, ContextObjects, NeighbourhoodInv, ReadInv
  <2>4. CASE NeighbourhoodSeeds
    <3>1. \A n \in DOMAIN hop' : Stored(n)
      BY <2>4 DEF NeighbourhoodSeeds
    <3>2. at' = "hops" \/ (at' = "check" /\ DOMAIN hop' = {} /\ nodes' = <<>> /\ edges' = {})
      BY <2>4 DEF NeighbourhoodSeeds, ReadInv
    <3>. QED BY <2>1, <3>1, <3>2 DEF NeighbourhoodInv
  <2>5. CASE NeighbourhoodHops
    <3>1. asked \in Requests /\ asked.hops \in Nat /\ asked.read = "neighbourhood"
      BY <2>5, SeedOfARequest DEF NeighbourhoodHops, ReadInv
    <3>2. hop' = Distances(links, DOMAIN hop, asked.hops) /\ at' = "objects"
      BY <2>5 DEF NeighbourhoodHops
    <3>3. \A n \in DOMAIN hop : Stored(n)
      BY <2>5, <3>1 DEF NeighbourhoodHops, NeighbourhoodInv
    <3>4. \A n \in DOMAIN hop' : Stored(n)
      BY <3>1, <3>2, <3>3, StoredReach, DistancesAreShortest
    <3>. QED BY <2>1, <3>2, <3>4 DEF NeighbourhoodInv
  <2>6. CASE NeighbourhoodObjects
    <3>1. \A n \in DOMAIN hop : Stored(n)
      BY <2>6 DEF NeighbourhoodObjects, NeighbourhoodInv
    <3>2. DOMAIN nodes' = DOMAIN hop /\ hop' = hop /\ at' = "among"
      BY <2>6, <3>1 DEF NeighbourhoodObjects, GetMany
    <3>. QED BY <3>2 DEF NeighbourhoodInv
  <2>7. CASE NeighbourhoodEdges
    BY <2>7 DEF NeighbourhoodEdges, EdgesAmong, NeighbourhoodInv, ReadInv
  <2>8. CASE CheckPermissions
    BY <2>8 DEF CheckPermissions, NeighbourhoodInv
  <2>9. CASE Return
    BY <2>9 DEF Return, NoRequest, NeighbourhoodInv
  <2>. QED BY <1>2, <2>2, <2>3, <2>4, <2>5, <2>6, <2>7, <2>8, <2>9 DEF Read
<1>. QED BY <1>1, <1>2, ReadsOnlyRead

(* The walk of a neighbourhood loses no object between its queries, and     *)
(* drops an edge only with one of its ends: what is left out was denied.    *)
THEOREM OnlyTheDeniedIsEverWithheld == HSpec => []OnlyTheDeniedIsWithheld
<1>1. HInit => NeighbourhoodInv
  BY DEF HInit, NoRequest, NeighbourhoodInv
<1>2. StoreInv /\ ReadInv /\ NeighbourhoodInv /\ [HNext]_allVars => NeighbourhoodInv'
  BY NextNeighbourhoodInv
<1>3. NeighbourhoodInv => OnlyTheDeniedIsWithheld
  BY DEF NeighbourhoodInv, OnlyTheDeniedIsWithheld, Answered, Visible
<1>. QED BY <1>1, <1>2, <1>3, ReadsHold, PTL DEF HSpec

-----------------------------------------------------------------------------
(* Contexts.                                                                *)

(* A relationship of E joins n to an object a hop nearer.                   *)
ReachedFrom(m, n, E) ==
  /\ hop[m] = hop[n] - 1
  /\ \E l \in E : {l.from, l.to} = {m, n}

(* Between the two queries of cites_chain the distances stay true of the    *)
(* store, which only grows: a relationship that explains one is among those *)
(* the second query returns.                                                *)
ContextInv ==
  asked.read = "context" =>
    /\ at = "cites" =>
         \A n \in DOMAIN hop : hop[n] # 0 =>
           /\ Stored(Seed)
           /\ \E m \in DOMAIN hop :
                /\ Stored(m) /\ m \in Ball(Typed("CITES"), {Seed}, asked.hops)[hop[m]]
                /\ ReachedFrom(m, n, Typed("CITES"))
    /\ at = "objects" =>
         \A n \in DOMAIN hop : hop[n] # 0 =>
           \E m \in DOMAIN hop : Stored(m) /\ ReachedFrom(m, n, edges)
    /\ at \in {"check", "answered"} =>
         \A n \in Reach : \E m \in DOMAIN nodes : ReachedFrom(m, n, edges)

LEMMA PausesKeepContexts ==
  ASSUME StoreInv, ReadInv, ContextInv, [Next]_vars, UNCHANGED read
  PROVE  ContextInv'
<1>. SUFFICES ASSUME asked.read = "context" PROVE ContextInv'
  BY DEF read, ContextInv
<1>1. /\ \A n : Stored(n) => Stored(n)'
      /\ Typed("CITES") \subseteq Typed("CITES")' /\ Seed' = Seed
  BY StoredStays, StoreGrows DEF StoreInv, Typed, Seed, read
<1>2. ASSUME at = "cites",
             NEW n \in DOMAIN hop, hop[n] # 0
      PROVE  /\ Stored(Seed)'
             /\ \E m \in DOMAIN hop :
                  /\ Stored(m)'
                  /\ m \in Ball(Typed("CITES")', {Seed}, asked.hops)[hop[m]]
                  /\ ReachedFrom(m, n, Typed("CITES")')
  <2>1. PICK m \in DOMAIN hop :
          /\ Stored(m) /\ m \in Ball(Typed("CITES"), {Seed}, asked.hops)[hop[m]]
          /\ ReachedFrom(m, n, Typed("CITES"))
    BY <1>2 DEF ContextInv
  <2>2. hop[m] \in 0..asked.hops /\ asked.hops \in Nat
    BY <1>2, SeedOfARequest DEF ReadInv, ReadOK
  <2>3. m \in Ball(Typed("CITES")', {Seed}, asked.hops)[hop[m]]
    BY <1>1, <2>1, <2>2, BallMonotone
  <2>4. ReachedFrom(m, n, Typed("CITES")')
    BY <1>1, <2>1 DEF ReachedFrom
  <2>5. Stored(Seed)' /\ Stored(m)'
    BY <1>1, <1>2, <2>1 DEF ContextInv
  <2>. QED BY <2>3, <2>4, <2>5
<1>3. at = "cites" =>
        \A n \in DOMAIN hop : hop[n] # 0 =>
          /\ Stored(Seed)'
          /\ \E m \in DOMAIN hop :
               /\ Stored(m)' /\ (m \in Ball(Typed("CITES"), {Seed}, asked.hops)[hop[m]])'
               /\ ReachedFrom(m, n, Typed("CITES"))'
  BY <1>1, <1>2 DEF read, ReachedFrom
<1>4. at = "objects" =>
        \A n \in DOMAIN hop : hop[n] # 0 =>
          \E m \in DOMAIN hop : Stored(m)' /\ ReachedFrom(m, n, edges)'
  BY <1>1 DEF ContextInv, ReachedFrom, read
<1>5. at \in {"check", "answered"} =>
        \A n \in Reach : \E m \in DOMAIN nodes : ReachedFrom(m, n, edges)'
  BY DEF ContextInv, ReachedFrom, read
<1>. QED BY <1>1, <1>3, <1>4, <1>5 DEF ContextInv, read, Reach

LEMMA HopsKeepContexts ==
  ASSUME StoreInv, ReadInv, ContextHops("walk", "cites")
  PROVE  ContextInv'
<1>1. /\ at = "walk" /\ at' = "cites" /\ asked.read = "context"
      /\ UNCHANGED <<asked, nodes, edges, denied, vars>>
  BY DEF ContextHops
<1>2. /\ Seed \in Objects /\ asked.hops \in Nat \ {0}
      /\ ~Stored(Seed) => hop' = [n \in {Seed} |-> 0]
      /\ Stored(Seed) => hop' = Distances(Typed("CITES"), {Seed}, asked.hops)
  BY <1>1, HopsOfAContext
<1>3. Typed("CITES")' = Typed("CITES") /\ Seed' = Seed /\ \A n : Stored(n) => Stored(n)'
  BY <1>1 DEF Typed, Seed, vars, Stored, Present
<1>4. ASSUME NEW n \in DOMAIN hop', hop'[n] # 0
      PROVE  /\ Stored(Seed)'
             /\ \E m \in DOMAIN hop' :
                  /\ Stored(m)' /\ m \in Ball(Typed("CITES"), {Seed}, asked.hops)[hop'[m]]
                  /\ hop'[m] = hop'[n] - 1
                  /\ \E l \in Typed("CITES") : {l.from, l.to} = {m, n}
  <2>1. Stored(Seed) /\ hop' = Distances(Typed("CITES"), {Seed}, asked.hops)
    BY <1>2, <1>4
  <2>2. PICK m \in DOMAIN hop' :
          /\ hop'[m] = hop'[n] - 1 /\ m \in Ball(Typed("CITES"), {Seed}, asked.hops)[hop'[m]]
          /\ hop'[m] \in 0..asked.hops
          /\ \E l \in Typed("CITES") : {l.from, l.to} = {m, n}
    <3>1. ASSUME NEW E, NEW S, NEW d \in Nat, NEW D, D = Distances(E, S, d),
                 NEW o \in DOMAIN D, D[o] # 0
          PROVE  \E m \in DOMAIN D :
                   /\ D[m] = D[o] - 1 /\ m \in Ball(E, S, d)[D[m]] /\ D[m] \in 0..d
                   /\ \E l \in E : {l.from, l.to} = {m, o}
      <4>. DEFINE b == Ball(E, S, d)
      <4>1. \A x \in DOMAIN D :
              /\ D[x] \in 0..d
              /\ D[x] # 0 => \E m \in DOMAIN D :
                   D[m] = D[x] - 1 /\ m \in b[D[m]] /\ \E l \in E : {l.from, l.to} = {m, x}
        BY <3>1, DistancesAreShortest
      <4>. HIDE DEF b
      <4>2. \E m \in DOMAIN D :
              D[m] = D[o] - 1 /\ m \in b[D[m]] /\ \E l \in E : {l.from, l.to} = {m, o}
        BY <3>1, <4>1
      <4>. QED BY <4>1, <4>2 DEF b
    <3>. QED BY <1>2, <1>4, <2>1, <3>1
  <2>3. Stored(m)
    <3>1. Typed("CITES") \in SUBSET links
      BY DEF Typed
    <3>. QED BY <1>2, <2>1, <2>2, <3>1, StoredReach
  <2>. QED BY <1>3, <2>1, <2>2, <2>3
<1>5. ASSUME NEW n \in DOMAIN hop', hop'[n] # 0
      PROVE  /\ Stored(Seed)'
             /\ \E m \in DOMAIN hop' :
                  /\ Stored(m)' /\ (m \in Ball(Typed("CITES"), {Seed}, asked.hops)[hop[m]])'
                  /\ ReachedFrom(m, n, Typed("CITES"))'
  BY <1>1, <1>3, <1>4, <1>5 DEF ReachedFrom
<1>. QED BY <1>1, <1>5 DEF ContextInv

LEMMA EdgesKeepContexts ==
  ASSUME StoreInv, ReadInv, ContextInv, ContextEdges("cites", "objects")
  PROVE  ContextInv'
<1>1. /\ at = "cites" /\ at' = "objects" /\ asked.read = "context"
      /\ edges' = IF Stored(Seed) THEN CitesEdges({Seed}, asked.hops) ELSE {}
      /\ UNCHANGED <<asked, hop, nodes, denied, vars>>
  BY DEF ContextEdges
<1>2. asked.hops \in Nat \ {0}
  BY <1>1, SeedOfARequest DEF ReadInv
<1>3. \A n : Stored(n) => Stored(n)'
  BY <1>1 DEF vars, Stored, Present
<1>4. ASSUME NEW n \in DOMAIN hop, hop[n] # 0
      PROVE  \E m \in DOMAIN hop : Stored(m) /\ ReachedFrom(m, n, edges')
  <2>1. PICK m \in DOMAIN hop :
          /\ Stored(Seed) /\ Stored(m)
          /\ m \in Ball(Typed("CITES"), {Seed}, asked.hops)[hop[m]]
          /\ ReachedFrom(m, n, Typed("CITES"))
    BY <1>1, <1>4 DEF ContextInv
  <2>2. hop[m] \in 0..(asked.hops - 1) /\ asked.hops - 1 \in hop[m]..asked.hops
    BY <1>2, <1>4, <2>1 DEF ReachedFrom, ReadInv, ReadOK
  <2>3. m \in Ball(Typed("CITES"), {Seed}, asked.hops)[asked.hops - 1]
    BY <1>2, <2>1, <2>2, BallGrows
  <2>4. PICK l \in Typed("CITES") : {l.from, l.to} = {m, n}
    BY <2>1 DEF ReachedFrom
  <2>5. l \in edges'
    BY <1>1, <2>1, <2>3, <2>4 DEF CitesEdges
  <2>. QED BY <2>1, <2>4, <2>5 DEF ReachedFrom
<1>. QED BY <1>1, <1>3, <1>4 DEF ContextInv, ReachedFrom

LEMMA ObjectsKeepContexts ==
  ASSUME StoreInv, ReadInv, ContextInv, ContextObjects
  PROVE  ContextInv'
<1>1. /\ at = "objects" /\ at' = "check" /\ asked.read = "context"
      /\ UNCHANGED <<asked, hop, edges, denied, vars>>
      /\ nodes' = GetMany(DOMAIN hop)
  BY DEF ContextObjects
<1>2. DOMAIN nodes' = {n \in DOMAIN hop : Stored(n)}
  BY <1>1, PayloadsAreRows
<1>3. \A n \in DOMAIN hop : hop[n] # 0 =>
        \E m \in DOMAIN hop : Stored(m) /\ ReachedFrom(m, n, edges)
  BY <1>1 DEF ContextInv
<1>. QED BY <1>1, <1>2, <1>3 DEF ContextInv, ReachedFrom, Reach

LEMMA NextContextInv ==
  ASSUME StoreInv, ReadInv, ContextInv, [HNext]_allVars
  PROVE  ContextInv'
<1>1. CASE UNCHANGED read
  BY <1>1, ReadsOnlyRead, PausesKeepContexts
<1>2. ASSUME Read PROVE ContextInv'
  <2>1. CASE Ask
    BY <2>1 DEF Ask, ContextInv
  <2>2. CASE ShiftChain \/ ShiftConflicts \/ ShiftExtra \/ NeighbourhoodSeeds
             \/ NeighbourhoodHops \/ NeighbourhoodObjects \/ NeighbourhoodEdges
    BY <2>2 DEF ShiftChain, ShiftConflicts, ShiftExtra, NeighbourhoodSeeds, NeighbourhoodHops,
                NeighbourhoodObjects, NeighbourhoodEdges, ContextInv, ReadInv
  <2>3. CASE CheckPermissions
    BY <2>3 DEF CheckPermissions, ContextInv, ReachedFrom, Reach
  <2>4. CASE Return
    BY <2>4 DEF Return, NoRequest, ContextInv
  <2>. QED BY <1>2, <2>1, <2>2, <2>3, <2>4, HopsKeepContexts, EdgesKeepContexts,
              ObjectsKeepContexts DEF Read, CitesChain
<1>. QED BY <1>1, <1>2, ReadsOnlyRead

(* Distances and relationships come from two queries, with ingestion in     *)
(* between, and the objects from a third: an object shown at some distance  *)
(* is still joined to one a hop nearer that is shown too.                   *)
THEOREM EveryHopAlwaysHasItsEdge == HSpec => []EveryHopHasItsEdge
<1>1. HInit => ContextInv
  BY DEF HInit, NoRequest, ContextInv
<1>2. StoreInv /\ ReadInv /\ ContextInv /\ [HNext]_allVars => ContextInv'
  BY NextContextInv
<1>3. ContextInv => EveryHopHasItsEdge
  BY DEF ContextInv, EveryHopHasItsEdge, Answered, ReachedFrom
<1>. QED BY <1>1, <1>2, <1>3, ReadsHold, PTL DEF HSpec

(* To the pipeline a read is a pause.                                       *)
THEOREM ReadsArePauses == HSpec => Spec
<1>1. HInit => Init
  BY DEF HInit
<1>2. [HNext]_allVars => [Next]_vars
  BY ReadsOnlyRead
<1>. QED BY <1>1, <1>2, PTL DEF HSpec, Spec

-----------------------------------------------------------------------------
(* Shifts, for one worker.                                                  *)

(* A traversal walks inside what it reaches.                                *)
LEMMA BallInside ==
  ASSUME NEW E, NEW S, NEW d \in Nat, NEW U, U = Ball(E, S, d)[d],
         NEW F, \A l \in E : {l.from, l.to} \subseteq U => l \in F
  PROVE  U \subseteq Ball(F, S, d)[d]
<1>. DEFINE b == Ball(E, S, d)
            c == Ball(F, S, d)
            T == {k \in 0..d : b[k] \subseteq c[k]}
<1>1. 0 \in T
  BY BallUnfolds
<1>2. ASSUME NEW k \in 0..d, k # d, k \in T PROVE k + 1 \in T
  <2>1. b[k + 1] = b[k] \cup Neighbours(E, b[k]) /\ c[k + 1] = c[k] \cup Neighbours(F, c[k])
    BY <1>2, BallUnfolds
  <2>2. k + 1 \in 0..d /\ b[k] \subseteq U /\ b[k + 1] \subseteq U
    BY <1>2, BallGrows
  <2>. HIDE DEF b, c
  <2>3. Neighbours(E, b[k]) \subseteq Neighbours(F, c[k])
    BY <1>2, <2>1, <2>2 DEF Neighbours
  <2>. QED BY <1>2, <2>1, <2>2, <2>3
<1>. HIDE DEF T
<1>3. 0..d \subseteq T
  BY <1>1, <1>2, UpTo
<1>. QED BY <1>3 DEF T

(* The claim a relationship starts from is stored, and its payload lists    *)
(* where the relationship goes.                                             *)
Listed(l) ==
  l.rel = "SUPERSEDES" =>
    /\ l.from \in Claims /\ Present(l.from)
    /\ l.to \in claim[l.from].supersedes

Listings ==
  /\ \A l \in links : Listed(l)
  /\ \A w \in Workers : \A l \in todo[w] : Listed(l)

LEMMA ListedStays ==
  ASSUME IInv, WInv, RInv, [Next]_vars, NEW l, Listed(l)
  PROVE  Listed(l)'
<1>. SUFFICES ASSUME NEW c, c = l.from, l.rel = "SUPERSEDES" PROVE Listed(l)'
  BY DEF Listed
<1>1. c \in Claims /\ Present(c) /\ l.to \in claim[c].supersedes
  BY DEF Listed
<1>2. Present(c)' /\ claim'[c].supersedes = claim[c].supersedes
  <2>1. claim[c] \in Row
    BY <1>1 DEF IInv, TypeOK
  <2>2. [claim[c] EXCEPT !.status = "superseded"].supersedes = claim[c].supersedes
    BY <2>1 DEF Row
  <2>. QED BY <1>1, <2>2, OnlyRetires, StoreGrows
<1>. QED BY <1>1, <1>2 DEF Listed

LEMMA NextListings ==
  ASSUME IInv, WInv, RInv, Listings, [Next]_vars
  PROVE  Listings'
<1>1. ASSUME NEW w \in Workers, WriteClaim(w) PROVE \A l \in todo'[w] : Listed(l)'
  <2>. SUFFICES ASSUME NEW p, p = First(queue[w]), NEW o, o = decided[w][p],
                       NEW l \in todo'[w], l.rel = "SUPERSEDES"
                PROVE  Listed(l)'
    BY DEF Listed
  <2>1. o \in Object /\ o.claim \in Claims
    BY <1>1, TurnOfAClaim
  <2>2. todo'[w] = ClaimLinks(o) /\ claim'[o.claim] = RowOf(o)
    <3>1. claim' = [claim EXCEPT ![o.claim] = RowOf(o)] /\ todo'[w] = ClaimLinks(o)
      BY <1>1 DEF WriteClaim, IInv, TypeOK
    <3>. QED BY <2>1, <3>1 DEF IInv, TypeOK
  <2>3. l.from = o.claim /\ l.to \in o.supersedes
    <3>1. \A m \in ClaimLinks(o) :
            m.rel = "SUPERSEDES" => m.from = o.claim /\ m.to \in o.supersedes
      BY LinkOfClaim
    <3>. QED BY <2>2, <3>1
  <2>4. claim'[o.claim].supersedes = o.supersedes /\ claim'[o.claim].status # "absent"
    BY <2>1, <2>2 DEF RowOf, Object, Statuses
  <2>. QED BY <2>1, <2>3, <2>4 DEF Listed, Present
<1>2. ASSUME NEW w \in Workers, Fetch(w) \/ Step(w) \/ Crash(w), ~WriteClaim(w)
      PROVE  \A l \in todo'[w] : l \in todo[w] \/ l.rel \in {"MENTIONS", "CITES"}
  <2>1. CASE WriteEvent(w)
    BY <2>1 DEF WriteEvent, IInv, TypeOK, EventLinks, Edge
  <2>2. CASE Link(w)
    BY <2>2 DEF Link, IInv, TypeOK
  <2>3. CASE Finish(w) \/ Crash(w)
    BY <2>3 DEF Finish, Crash, Forget, IInv, TypeOK
  <2>4. CASE Fetch(w) \/ LookUp(w) \/ Compare(w) \/ Encrypt(w) \/ WriteEntities(w)
             \/ ReadClaim(w) \/ MarkSuperseded(w)
    BY <2>4 DEF Fetch, LookUp, Compare, Encrypt, WriteEntities, ReadClaim, MarkSuperseded
  <2>. QED BY <1>2, <2>1, <2>2, <2>3, <2>4 DEF Step
<1>3. ASSUME NEW w \in Workers, Fetch(w) \/ Step(w) \/ Crash(w), NEW v \in Workers, v # w
      PROVE  todo'[v] = todo[v]
  BY <1>3 DEF Step, Fetch, LookUp, Compare, Encrypt, WriteEntities, WriteEvent, WriteClaim,
              Link, ReadClaim, MarkSuperseded, Finish, Crash, Forget, IInv, TypeOK
<1>4. ASSUME NEW v \in Workers, NEW l \in todo'[v] PROVE Listed(l)'
  <2>1. CASE UNCHANGED vars
    BY <1>4, <2>1, ListedStays DEF vars, Listings
  <2>2. ASSUME NEW w \in Workers, Fetch(w) \/ Step(w) \/ Crash(w) PROVE Listed(l)'
    <3>1. CASE l \in todo[v]
      BY <3>1, ListedStays DEF Listings
    <3>2. CASE l.rel \in {"MENTIONS", "CITES"}
      BY <3>2 DEF Listed
    <3>. QED BY <1>1, <1>2, <1>3, <1>4, <2>2, <3>1, <3>2
  <2>. QED BY <2>1, <2>2 DEF Next
<1>5. ASSUME NEW l \in links' PROVE Listed(l)'
  <2>1. l \in links \/ \E w \in Workers : l \in todo[w]
    BY <1>5, ZenonT(30) DEF Next, Step, Fetch, LookUp, Compare, Encrypt, WriteEntities, WriteEvent,
                WriteClaim, Link, ReadClaim, MarkSuperseded, Finish, Crash, store, vars
  <2>. QED BY <2>1, ListedStays DEF Listings
<1>. QED BY <1>4, <1>5 DEF Listings

(* What the chain found is among the payloads, and they list the            *)
(* relationships it followed.                                               *)
ShiftInv ==
  asked.read = "shift" /\ at \in {"conflicts", "extra", "check", "answered"} =>
    /\ DOMAIN hop \subseteq DOMAIN nodes
    /\ DOMAIN hop \subseteq Ball({l \in Steps : {l.from, l.to} \subseteq DOMAIN hop},
                                asked.seeds, MaxHops)[MaxHops]

LEMMA ChainKeepsShifts ==
  ASSUME StoreInv, Listings, ReadInv, ShiftChain
  PROVE  ShiftInv'
<1>1. /\ at = "walk" /\ asked.read = "shift" /\ asked' = asked
      /\ hop' = [c \in SupersessionChain(Seed) |-> 0]
      /\ nodes' = GetMany(SupersessionChain(Seed))
  BY DEF ShiftChain
<1>2. asked.seeds = {Seed} /\ MaxHops \in Nat
  BY <1>1, SeedOfARequest, RequestAssumption DEF ReadInv
<1>3. SUFFICES ASSUME Stored(Seed), NEW E, E = Typed("SUPERSEDES"),
                     NEW U, U = Ball(E, {Seed}, MaxHops)[MaxHops],
                     NEW G, G = {l \in Steps' : {l.from, l.to} \subseteq U}
              PROVE  ShiftInv'
  <2>1. ASSUME ~Stored(Seed) PROVE DOMAIN hop' = {}
    BY <1>1, <2>1 DEF SupersessionChain
  <2>. QED BY <2>1 DEF ShiftInv
<1>4. SupersessionChain(Seed) = U /\ \A n \in U : Stored(n)
  BY <1>2, <1>3, StoredReach DEF SupersessionChain, Typed
<1>5. /\ DOMAIN hop' = U /\ DOMAIN nodes' = U
      /\ \A n \in U : n \in Claims => nodes'[n] = claim[n]
  BY <1>1, <1>4, PayloadsAreRows
<1>6. \A l \in E : {l.from, l.to} \subseteq U => l \in G
  <2>. SUFFICES ASSUME NEW l \in E, {l.from, l.to} \subseteq U PROVE l \in Steps'
    BY <1>3
  <2>1. l \in Edges /\ l.rel = "SUPERSEDES" /\ l.from \in Claims /\ l.to \in claim[l.from].supersedes
    BY <1>3, LinkEnds DEF Typed, Listings, Listed
  <2>2. l = Edge(l.from, "SUPERSEDES", l.to)
    BY <2>1 DEF Edges, Edge
  <2>3. l.from \in DOMAIN nodes' /\ l.to \in nodes'[l.from].supersedes \cap DOMAIN nodes'
    BY <1>5, <2>1
  <2>. QED BY <2>2, <2>3 DEF Steps
<1>7. U = Ball(E, {Seed}, MaxHops)[MaxHops]
  BY <1>3
<1>8. U \subseteq Ball(G, {Seed}, MaxHops)[MaxHops]
  <2>1. ASSUME NEW S, NEW d \in Nat, NEW V, V = Ball(E, S, d)[d]
        PROVE  (\A l \in E : {l.from, l.to} \subseteq V => l \in G) => V \subseteq Ball(G, S, d)[d]
    BY <2>1, BallInside
  <2>2. MaxHops \in Nat
    BY <1>2
  <2>3. (\A l \in E : {l.from, l.to} \subseteq U => l \in G) =>
          U \subseteq Ball(G, {Seed}, MaxHops)[MaxHops]
    BY <1>7, <2>1, <2>2
  <2>. QED BY <1>6, <2>3
<1>. QED BY <1>1, <1>2, <1>3, <1>5, <1>8 DEF ShiftInv

LEMMA ExtraKeepsShifts ==
  ASSUME ReadInv, ShiftInv, ShiftExtra
  PROVE  ShiftInv'
<1>1. /\ asked.read = "shift" /\ at = "extra" /\ UNCHANGED <<asked, hop>> /\ MaxHops \in Nat
      /\ DOMAIN nodes \subseteq DOMAIN nodes'
      /\ \A n \in DOMAIN nodes : nodes'[n] = nodes[n]
  BY RequestAssumption DEF ShiftExtra, ReadInv
<1>2. Steps \subseteq Steps'
  BY <1>1 DEF Steps
<1>. DEFINE F == {l \in Steps : {l.from, l.to} \subseteq DOMAIN hop}
            G == {l \in Steps' : {l.from, l.to} \subseteq DOMAIN hop}
<1>3. F \subseteq G
  BY <1>2
<1>. HIDE DEF F, G
<1>4. Ball(F, asked.seeds, MaxHops)[MaxHops] \subseteq Ball(G, asked.seeds, MaxHops)[MaxHops]
  BY <1>1, <1>3, BallMonotone
<1>5. DOMAIN hop \subseteq DOMAIN nodes /\ DOMAIN hop \subseteq Ball(F, asked.seeds, MaxHops)[MaxHops]
  BY <1>1 DEF ShiftInv, F
<1>6. DOMAIN hop \subseteq DOMAIN nodes' /\ DOMAIN hop \subseteq Ball(G, asked.seeds, MaxHops)[MaxHops]
  BY <1>1, <1>4, <1>5
<1>. QED BY <1>1, <1>6 DEF ShiftInv, G

LEMMA NextShiftInv ==
  ASSUME StoreInv, Listings, ReadInv, ShiftInv, [HNext]_allVars
  PROVE  ShiftInv'
<1>1. CASE UNCHANGED read
  BY <1>1 DEF ShiftInv, Steps, read
<1>2. ASSUME Read PROVE ShiftInv'
  <2>1. CASE Ask \/ NeighbourhoodSeeds \/ NeighbourhoodHops \/ NeighbourhoodObjects
             \/ NeighbourhoodEdges \/ CitesChain \/ ContextObjects
    BY <2>1 DEF Ask, NeighbourhoodSeeds, NeighbourhoodHops, NeighbourhoodObjects,
                NeighbourhoodEdges, CitesChain, ContextHops, ContextEdges, ContextObjects,
                ShiftInv, ReadInv
  <2>2. CASE ShiftConflicts \/ CheckPermissions
    BY <2>2 DEF ShiftConflicts, CheckPermissions, ShiftInv, Steps, ReadInv
  <2>3. CASE Return
    BY <2>3 DEF Return, ShiftInv
  <2>. QED BY <1>2, <2>1, <2>2, <2>3, ChainKeepsShifts, ExtraKeepsShifts DEF Read
<1>. QED BY <1>1, <1>2, ReadsOnlyRead

(* The chain of a shift comes from the relationships and its steps from the *)
(* payloads, which write stores before it: with one worker, and each claim  *)
(* once in a window, a stored claim keeps the list it was written with, so  *)
(* the steps of an answer join every claim of the chain.                    *)
THEOREM StepsAlwaysJoinTheChain ==
  ASSUME OneWorker, NoClaimTwice
  PROVE  HSpec => []StepsJoinTheChain
<1>1. HInit => Listings /\ ShiftInv
  BY DEF HInit, Init, Listings, ShiftInv
<1>2. HSpec => [](IInv /\ WInv /\ RInv)
  BY OneWorkerHolds, ReadsArePauses
<1>3. IInv /\ WInv /\ RInv /\ Listings /\ [HNext]_allVars => Listings'
  BY NextListings, ReadsOnlyRead
<1>4. StoreInv /\ ReadInv /\ Listings /\ ShiftInv /\ [HNext]_allVars => ShiftInv'
  BY NextShiftInv
<1>5. ShiftInv => StepsJoinTheChain
  <2>. SUFFICES ASSUME ShiftInv, Answered("shift") PROVE StepsJoinTheChain
    BY DEF StepsJoinTheChain
  <2>1. Chain = DOMAIN hop
    BY DEF ShiftInv, Answered, Chain
  <2>. QED BY <2>1 DEF ShiftInv, Answered, StepsJoinTheChain
<1>. QED BY <1>1, <1>2, <1>3, <1>4, <1>5, ReadsHold, PTL DEF HSpec

-----------------------------------------------------------------------------
(* Runs of claims.                                                          *)

(* A traversal of a closed set that is no larger than it is deep finds      *)
(* everything there is: each round reaches something new, or is the last.   *)
LEMMA BallFills ==
  ASSUME NEW E, NEW s, NEW d \in Nat, NEW R, IsFiniteSet(R), Cardinality(R) <= d + 1,
         s \in R, \A l \in E : l.from \in R <=> l.to \in R
  PROVE  Neighbours(E, Ball(E, {s}, d)[d]) \subseteq Ball(E, {s}, d)[d]
<1>. DEFINE b == Ball(E, {s}, d)
            T == {k \in 0..d : Neighbours(E, b[k]) \subseteq b[k] \/ Cardinality(b[k]) >= k + 1}
<1>1. \A k \in 0..d : b[k] \subseteq R
  <2>1. {s} \subseteq R
    OBVIOUS
  <2>. QED BY <2>1, BallStaysWithin
<1>2. b[0] = {s} /\ \A k \in 0..d : k # d => b[k + 1] = b[k] \cup Neighbours(E, b[k])
  BY BallUnfolds
<1>. HIDE DEF b
<1>3. 0 \in T
  <2>1. Cardinality(b[0]) = 1
    BY <1>2, FS_Singleton
  <2>. QED BY <2>1
<1>4. ASSUME NEW k \in 0..d, k # d, k \in T PROVE k + 1 \in T
  <2>1. k + 1 \in 0..d /\ b[k + 1] = b[k] \cup Neighbours(E, b[k])
    BY <1>2, <1>4
  <2>2. CASE Neighbours(E, b[k]) \subseteq b[k]
    <3>1. b[k + 1] = b[k]
      BY <2>1, <2>2
    <3>. QED BY <2>1, <2>2, <3>1
  <2>3. CASE ~(Neighbours(E, b[k]) \subseteq b[k])
    <3>1. b[k] \subseteq b[k + 1] /\ b[k] # b[k + 1]
      BY <2>1, <2>3
    <3>2. IsFiniteSet(b[k + 1])
      BY <1>1, <2>1, FS_Subset
    <3>3. /\ Cardinality(b[k]) <= Cardinality(b[k + 1])
          /\ Cardinality(b[k]) # Cardinality(b[k + 1])
          /\ Cardinality(b[k]) \in Nat /\ Cardinality(b[k + 1]) \in Nat
      BY <3>1, <3>2, FS_Subset, FS_CardinalityType
    <3>4. Cardinality(b[k]) >= k + 1
      BY <1>4, <2>3
    <3>5. Cardinality(b[k + 1]) >= (k + 1) + 1
      BY <3>3, <3>4
    <3>. QED BY <2>1, <3>5
  <2>. QED BY <2>2, <2>3
<1>5. d \in T
  <2>. HIDE DEF T
  <2>1. 0..d \subseteq T
    BY <1>3, <1>4, UpTo
  <2>. QED BY <2>1
<1>6. CASE Cardinality(b[d]) >= d + 1
  <2>1. b[d] \subseteq R /\ Cardinality(b[d]) <= Cardinality(R)
        /\ Cardinality(b[d]) \in Nat /\ Cardinality(R) \in Nat
    BY <1>1, FS_Subset, FS_CardinalityType
  <2>2. b[d] = R
    <3>1. Cardinality(b[d]) = Cardinality(R)
      BY <1>6, <2>1
    <3>. QED BY <2>1, <3>1, FS_Subset
  <2>3. Neighbours(E, R) \subseteq R
    BY DEF Neighbours
  <2>. QED BY <2>2, <2>3 DEF b
<1>7. CASE Neighbours(E, b[d]) \subseteq b[d]
  BY <1>7 DEF b
<1>. QED BY <1>5, <1>6, <1>7

LEMMA BallOfOneStaysWithin ==
  ASSUME NEW E, NEW s, NEW d \in Nat, NEW U, s \in U,
         \A l \in E : l.from \in U <=> l.to \in U
  PROVE  Ball(E, {s}, d)[d] \subseteq U
<1>1. ASSUME NEW S, S = {s} PROVE Ball(E, S, d)[d] \subseteq U
  <2>1. S \subseteq U /\ d \in 0..d
    BY <1>1
  <2>2. \A k \in 0..d : Ball(E, S, d)[k] \subseteq U
    BY <2>1, BallStaysWithin
  <2>. QED BY <2>1, <2>2
<1>. QED BY <1>1

(* Two traversals that found everything found the same when one begins      *)
(* where the other has been.                                                *)
LEMMA ClosedBallsAgree ==
  ASSUME NEW E, NEW s, NEW t, NEW d \in Nat,
         NEW C, C = Ball(E, {s}, d)[d], Neighbours(E, C) \subseteq C,
         NEW D, D = Ball(E, {t}, d)[d], Neighbours(E, D) \subseteq D,
         t \in C
  PROVE  C = D
<1>0. ASSUME NEW r, NEW U, r \in U, \A l \in E : l.from \in U <=> l.to \in U
      PROVE  Ball(E, {r}, d)[d] \subseteq U
  BY <1>0, BallOfOneStaysWithin
<1>1. /\ \A l \in E : l.from \in C <=> l.to \in C
      /\ \A l \in E : l.from \in D <=> l.to \in D
  BY DEF Neighbours
<1>2. s \in C /\ t \in D
  <2>1. \A r : r \in Ball(E, {r}, d)[0]
    BY BallUnfolds
  <2>2. \A r : Ball(E, {r}, d)[0] \subseteq Ball(E, {r}, d)[d]
    BY BallGrows
  <2>. QED BY <2>1, <2>2
<1>3. D \subseteq C
  <2>1. Ball(E, {t}, d)[d] \subseteq C
    BY <1>0, <1>1
  <2>. QED BY <2>1
<1>4. s \in D
  <2>. SUFFICES ASSUME s \notin D, NEW U, U = C \ D PROVE FALSE
    OBVIOUS
  <2>1. s \in U /\ \A l \in E : l.from \in U <=> l.to \in U
    BY <1>1, <1>2
  <2>2. Ball(E, {s}, d)[d] \subseteq U
    BY <1>0, <2>1
  <2>. QED BY <1>2, <2>2
<1>5. C \subseteq D
  <2>1. Ball(E, {s}, d)[d] \subseteq D
    BY <1>0, <1>1, <1>4
  <2>. QED BY <2>1
<1>. QED BY <1>3, <1>5

(* No run of claims is longer than supersession_chain looks: each claim is  *)
(* among at most max_hops more, and no SUPERSEDES leaves them.              *)
RunsAreShort ==
  \A c \in Claims : \E R \in SUBSET Claims :
    /\ c \in R /\ IsFiniteSet(R) /\ Cardinality(R) <= MaxHops + 1
    /\ \A l \in Typed("SUPERSEDES") : l.from \in R <=> l.to \in R

(* The current claim, the original and any in the middle answer the same    *)
(* question, in every state in which no run is longer than max_hops.        *)
THEOREM AnyOfAShortRunWillDo == HSpec => [](RunsAreShort => AnyOfTheRunWillDo)
<1>1. StoreInv => (RunsAreShort => AnyOfTheRunWillDo)
  <2>. SUFFICES ASSUME StoreInv, RunsAreShort, NEW c \in Claims,
                       NEW d \in SupersessionChain(c)
                PROVE  SupersessionChain(d) = SupersessionChain(c)
    BY DEF AnyOfTheRunWillDo
  <2>. DEFINE Run(r) == Ball(Typed("SUPERSEDES"), {r}, MaxHops)[MaxHops]
  <2>1. MaxHops \in Nat /\ Stored(c) /\ d \in Run(c) /\ SupersessionChain(c) = Run(c)
    BY RequestAssumption DEF SupersessionChain
  <2>2. Stored(d) /\ d \in Claims
    <3>1. Stored(d)
      <4>1. \A n \in {c} : Stored(n)
        BY <2>1
      <4>2. Typed("SUPERSEDES") \in SUBSET links
        BY DEF Typed
      <4>. QED BY <2>1, <4>1, <4>2, StoredReach
    <3>2. \A l \in Typed("SUPERSEDES") : l.from \in Claims <=> l.to \in Claims
      BY DEF Typed, StoreInv, LinksInv
    <3>3. Run(c) \subseteq Claims
      BY <2>1, <3>2, BallOfOneStaysWithin
    <3>. QED BY <2>1, <3>1, <3>3
  <2>3. ASSUME NEW r \in Claims PROVE Neighbours(Typed("SUPERSEDES"), Run(r)) \subseteq Run(r)
    <3>1. PICK R \in SUBSET Claims :
            /\ r \in R /\ IsFiniteSet(R) /\ Cardinality(R) <= MaxHops + 1
            /\ \A l \in Typed("SUPERSEDES") : l.from \in R <=> l.to \in R
      BY DEF RunsAreShort
    <3>. QED BY <2>1, <3>1, BallFills
  <2>4. Run(c) = Run(d)
    <3>1. ASSUME NEW E, E = Typed("SUPERSEDES"), NEW C, C = Run(c), NEW D, D = Run(d)
          PROVE  C = D
      <4>1. /\ C = Ball(E, {c}, MaxHops)[MaxHops] /\ Neighbours(E, C) \subseteq C
            /\ D = Ball(E, {d}, MaxHops)[MaxHops] /\ Neighbours(E, D) \subseteq D
            /\ MaxHops \in Nat /\ d \in C
        BY <2>1, <2>2, <2>3, <3>1
      <4>. QED BY <4>1, ClosedBallsAgree
    <3>. QED BY <3>1
  <2>. QED BY <2>1, <2>2, <2>4 DEF SupersessionChain
<1>. QED BY <1>1, StoreHolds, PTL

(* So it is for good where there are no more claims than max_hops and one.  *)
THEOREM AnyOfFewClaimsWillDo ==
  ASSUME IsFiniteSet(Claims), Cardinality(Claims) <= MaxHops + 1
  PROVE  HSpec => []AnyOfTheRunWillDo
<1>1. StoreInv => RunsAreShort
  <2>. SUFFICES ASSUME StoreInv PROVE RunsAreShort
    OBVIOUS
  <2>1. \A l \in Typed("SUPERSEDES") : l.from \in Claims <=> l.to \in Claims
    BY DEF Typed, StoreInv, LinksInv
  <2>. QED BY <2>1 DEF RunsAreShort
<1>. QED BY <1>1, AnyOfAShortRunWillDo, StoreHolds, PTL
=============================================================================
