------------------------------- MODULE History -------------------------------
(***************************************************************************)
(* The graph reads over the record while ingestion goes on writing it:     *)
(* why a decision shifted and the context of an object (graphs/history.py),*)
(* the neighbourhood of some objects (graphs/neighbourhood.py), with the   *)
(* store's read queries (storage/neo4j_store.py).                          *)
(*                                                                         *)
(* A read is authorize, walk, check_permissions, assemble.  The walk makes *)
(* several queries, one transaction each, and ingestion commits in between;*)
(* what follows works on what was read.  Reads do not touch each other, so *)
(* one reader is enough.  The check denies any of the objects walked: what *)
(* `evaluate` decides is the matter of Permissions.                        *)
(***************************************************************************)
EXTENDS Ingestion

CONSTANTS
  Requests,  \* what may be asked: [read, seeds, hops]
  MaxHops    \* supersession_chain's max_hops

ASSUME RequestAssumption ==
  /\ Requests \subseteq [read : {"shift", "context", "neighbourhood"},
                         seeds : SUBSET (Claims \cup Records \cup Entities),
                         hops : Nat \ {0}]
  /\ \A q \in Requests : q.read # "neighbourhood" => \E n \in q.seeds : q.seeds = {n}
  /\ MaxHops \in Nat \ {0}

VARIABLES
  at,     \* where the read is
  asked,  \* the request
  hop,    \* object -> hops from the seeds, for the objects the walk reached
  nodes,  \* object -> the payload read; a claim's is its row
  edges,  \* the relationships read
  denied  \* the objects whose check did not allow them

read == <<at, asked, hop, nodes, edges, denied>>
allVars == <<vars, read>>

Objects == Claims \cup Records \cup Entities

-----------------------------------------------------------------------------
(* The store's read queries, each on the state of one transaction.          *)

(* Mutant: relationships are followed in the direction they are stored in.  *)
CitedOrNewer(E, S) == {l.to : l \in {m \in E : m.from \in S}}

(* The objects one relationship of E away from S, in either direction.      *)
Neighbours(E, S) ==
  {l.to : l \in {m \in E : m.from \in S}} \cup {l.from : l \in {m \in E : m.to \in S}}

Ball(E, S, depth) ==
  LET b[k \in 0..depth] == IF k = 0 THEN S ELSE b[k-1] \cup Neighbours(E, b[k-1])
  IN  b

(* Mutant: one relationship too far.                                        *)
DistancesBeyond(E, S, depth) ==
  LET b == Ball(E, S, depth + 1)
  IN  [n \in b[depth + 1] |-> CHOOSE k \in 0..(depth + 1) :
                                 n \in b[k] /\ \A j \in 0..(k-1) : n \notin b[j]]

(* min(length(path)) for the objects at most depth relationships away.      *)
Distances(E, S, depth) ==
  LET b == Ball(E, S, depth)
  IN  [n \in b[depth] |-> CHOOSE k \in 0..depth :
                             n \in b[k] /\ \A j \in 0..(k-1) : n \notin b[j]]

Typed(rel) == {l \in links : l.rel = rel}

(* supersession_chain: the run of claims around a stored one.               *)
SupersessionChain(c) ==
  IF Stored(c) THEN Ball(Typed("SUPERSEDES"), {c}, MaxHops)[MaxHops] ELSE {}

(* cites_chain, second query: the relationships on a path of at most depth. *)
CitesEdges(S, depth) ==
  LET near == Ball(Typed("CITES"), S, depth)[depth - 1]
  IN  {l \in Typed("CITES") : l.from \in near \/ l.to \in near}

(* conflict_links.                                                          *)
ConflictLinks(S) == {l \in Typed("CONTRADICTS") : l.from \in S \/ l.to \in S}

(* Mutant: a traversal instead of the closed set of ids.                    *)
EdgesAround(S) == {l \in links : l.from \in S \/ l.to \in S}

EdgesAmong(S) == {l \in links : l.from \in S /\ l.to \in S}

(* get_many, and the payloads of the other queries.                         *)
Payload(n) == IF n \in Claims THEN claim[n] ELSE AbsentRow
GetMany(S) == [n \in {m \in S : Stored(m)} |-> Payload(n)]

Seed == CHOOSE n \in asked.seeds : TRUE

-----------------------------------------------------------------------------
NoRequest == [read |-> "none", seeds |-> {}, hops |-> 1]

HInit ==
  /\ Init
  /\ at = "idle"
  /\ asked = NoRequest
  /\ hop = <<>> /\ nodes = <<>> /\ edges = {} /\ denied = {}

(* authorize: the scope of the grant is resolved, then the walk begins.     *)
Ask ==
  /\ at = "idle"
  /\ \E q \in Requests : asked' = q
  /\ at' = "walk"
  /\ UNCHANGED <<hop, nodes, edges, denied, vars>>

(* why did this shift: the chain ...                                        *)
ShiftChain ==
  /\ at = "walk" /\ asked.read = "shift"
  /\ hop' = [c \in SupersessionChain(Seed) |-> 0]
  /\ nodes' = GetMany(SupersessionChain(Seed))
  /\ at' = "conflicts"
  /\ UNCHANGED <<asked, edges, denied, vars>>

(* ... the open conflicts of its claims ...                                 *)
ShiftConflicts ==
  /\ at = "conflicts"
  /\ edges' = ConflictLinks(DOMAIN hop)
  /\ at' = "extra"
  /\ UNCHANGED <<asked, hop, nodes, denied, vars>>

(* ... and the claims these bring in.                                       *)
ShiftExtra ==
  /\ at = "extra"
  /\ LET extra == UNION {{l.from, l.to} : l \in edges} \ DOMAIN hop
         got   == GetMany(extra)
     IN  nodes' = [n \in DOMAIN nodes \cup DOMAIN got |->
                     IF n \in DOMAIN nodes THEN nodes[n] ELSE got[n]]
  /\ at' = "check"
  /\ UNCHANGED <<asked, hop, edges, denied, vars>>

ContextHops(before, after) ==
  /\ at = before /\ asked.read = "context"
  /\ hop' = IF Stored(Seed) THEN Distances(Typed("CITES"), {Seed}, asked.hops)
            ELSE [n \in {Seed} |-> 0]
  /\ at' = after
  /\ UNCHANGED <<asked, nodes, edges, denied, vars>>

ContextEdges(before, after) ==
  /\ at = before /\ asked.read = "context"
  /\ edges' = IF Stored(Seed) THEN CitesEdges({Seed}, asked.hops) ELSE {}
  /\ at' = after
  /\ UNCHANGED <<asked, hop, nodes, denied, vars>>

(* Mutant: the relationships first.                                         *)
EdgesThenHops == ContextEdges("walk", "cites") \/ ContextHops("cites", "objects")

(* context: how far the objects of the citation chain are, then the         *)
(* relationships between them ...                                           *)
CitesChain == ContextHops("walk", "cites") \/ ContextEdges("cites", "objects")

(* ... and the objects.                                                     *)
ContextObjects ==
  /\ at = "objects" /\ asked.read = "context"
  /\ nodes' = GetMany(DOMAIN hop)
  /\ at' = "check"
  /\ UNCHANGED <<asked, hop, edges, denied, vars>>

(* neighbourhood: which of the seeds are stored; none, and the walk finds   *)
(* nothing ...                                                              *)
NeighbourhoodSeeds ==
  /\ at = "walk" /\ asked.read = "neighbourhood"
  /\ hop' = [n \in {m \in asked.seeds : Stored(m)} |-> 0]
  /\ at' = IF DOMAIN hop' = {} THEN "check" ELSE "hops"
  /\ UNCHANGED <<asked, nodes, edges, denied, vars>>

(* ... what is around them ...                                              *)
NeighbourhoodHops ==
  /\ at = "hops"
  /\ hop' = Distances(links, DOMAIN hop, asked.hops)
  /\ at' = "objects"
  /\ UNCHANGED <<asked, nodes, edges, denied, vars>>

(* ... the objects themselves ...                                           *)
NeighbourhoodObjects ==
  /\ at = "objects" /\ asked.read = "neighbourhood"
  /\ nodes' = GetMany(DOMAIN hop)
  /\ at' = "among"
  /\ UNCHANGED <<asked, hop, edges, denied, vars>>

(* ... and the relationships among them.                                    *)
NeighbourhoodEdges ==
  /\ at = "among"
  /\ edges' = EdgesAmong(DOMAIN hop)
  /\ at' = "check"
  /\ UNCHANGED <<asked, hop, nodes, denied, vars>>

(* check_permissions: one decision for each object walked; the answer is    *)
(* assembled from that, without another look at the store.                  *)
CheckPermissions ==
  /\ at = "check"
  /\ denied' \in SUBSET DOMAIN nodes
  /\ at' = "answered"
  /\ UNCHANGED <<asked, hop, nodes, edges, vars>>

(* The answer is returned.                                                  *)
Return ==
  /\ at = "answered"
  /\ at' = "idle"
  /\ asked' = NoRequest
  /\ hop' = <<>> /\ nodes' = <<>> /\ edges' = {} /\ denied' = {}
  /\ UNCHANGED vars

Read ==
  \/ Ask
  \/ ShiftChain \/ ShiftConflicts \/ ShiftExtra
  \/ CitesChain \/ ContextObjects
  \/ NeighbourhoodSeeds \/ NeighbourhoodHops \/ NeighbourhoodObjects \/ NeighbourhoodEdges
  \/ CheckPermissions \/ Return

HNext == Read \/ (Next /\ UNCHANGED read)

HSpec == HInit /\ [][HNext]_allVars

-----------------------------------------------------------------------------
(* What an assembled answer says.                                           *)

Answered(kind) == at = "answered" /\ asked.read = kind

Chain == DOMAIN hop \cap DOMAIN nodes

(* One step for each claim of the walk and each claim its payload lists.    *)
Steps ==
  UNION {{Edge(b, "SUPERSEDES", a) : a \in nodes[b].supersedes \cap DOMAIN nodes} :
           b \in DOMAIN nodes}

(* The objects shown at some distance, withheld or not.                     *)
Reach == {n \in DOMAIN nodes : hop[n] # 0}

Visible == DOMAIN nodes \ denied

-----------------------------------------------------------------------------
(* Properties.                                                              *)

(* The shape of the reader's variables.                                     *)
ReadOK ==
  /\ at \in {"idle", "walk", "conflicts", "extra", "cites", "hops", "objects",
              "among", "check", "answered"}
  /\ asked \in Requests \cup {NoRequest}
  /\ DOMAIN hop \subseteq Objects
  /\ \A n \in DOMAIN hop : hop[n] \in 0..asked.hops
  /\ DOMAIN nodes \subseteq Objects
  /\ \A n \in DOMAIN nodes : nodes[n] \in Row
  /\ edges \subseteq Edges
  /\ denied \subseteq DOMAIN nodes

(* "A caller holding a claim id may be holding the current claim, the       *)
(* original, or something in the middle, and all three have to answer the   *)
(* same question" (neo4j_store.py:333): the claims of one run all lead to   *)
(* the same run.  True as long as no run is longer than max_hops.           *)
AnyOfTheRunWillDo ==
  \A c \in Claims : \A d \in SupersessionChain(c) :
    SupersessionChain(d) = SupersessionChain(c)

(* The chain comes from the relationships and the steps from the payloads,  *)
(* which ingestion writes in different transactions: still, the steps of    *)
(* an answer join every claim of its chain ("a denied link is withheld, not *)
(* dropped": none is missing in between, whatever was denied).              *)
StepsJoinTheChain ==
  Answered("shift") =>
    Chain \subseteq Ball({l \in Steps : {l.from, l.to} \subseteq Chain},
                        asked.seeds, MaxHops)[MaxHops]

(* An object shown at some distance is joined to one shown a hop nearer by  *)
(* a relationship of the same answer, though distances and relationships    *)
(* are read one after the other and ingestion cites in between.             *)
EveryHopHasItsEdge ==
  Answered("context") =>
    \A n \in Reach :
      \E m \in DOMAIN nodes :
        /\ hop[m] = hop[n] - 1
        /\ \E l \in edges : {l.from, l.to} = {m, n}

(* What a neighbourhood leaves out it leaves out because it was denied: the *)
(* walk loses no object between its queries, and an edge is dropped only    *)
(* with one of its ends ("edges dropped because at least one endpoint was   *)
(* withheld").                                                              *)
OnlyTheDeniedIsWithheld ==
  Answered("neighbourhood") =>
    /\ DOMAIN hop \ Visible \subseteq denied
    /\ \A l \in edges : ~({l.from, l.to} \subseteq Visible) =>
                          {l.from, l.to} \cap denied # {}
=============================================================================
