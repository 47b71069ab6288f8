---------------------------- MODULE MCCommitments ----------------------------
(* An instance of Commitments for TLC.                                      *)
EXTENDS Commitments, Extraction, TLC

(* The commitments of the fixtures (connectors/mock.py, mock-005 to         *)
(* mock-007), and what MockExtractor makes of them: a migration that alice  *)
(* owes bob, the same owed by bob to alice with another deadline, and a     *)
(* plan that carol owes nobody in particular.                               *)
Migration == <<"project", "atlas", "ship", "storage", "migration">>
RolloutPlan == <<"project", "beacon", "publish", "rollout", "plan">>
Promise(by, to, words, due) == [by |-> by, to |-> to, words |-> words, due |-> due]
Fixture(id, day, project, promise) ==
  [connector |-> "mock", id |-> id, occurred |-> day, sensitive |-> FALSE,
   participants |-> {promise.by}, decisions |-> <<>>, promises |-> <<promise>>,
   projects |-> {project}, artifacts |-> {}, cites |-> {}]
Fixtures ==
  <<Fixture("mock-005", 12, "atlas", Promise("alice", "bob", Migration, "2025-02-14")),
    Fixture("mock-006", 15, "atlas", Promise("bob", "alice", Migration, "2025-03-07")),
    Fixture("mock-007", 16, "beacon", Promise("carol", None, RolloutPlan, "2025-01-24"))>>

Of(e) == CHOOSE r \in Image(Fixtures) : EventId(r) = e
Extracts == UNION {Image(MockClaims(r)) : r \in Image(Fixtures)}
ClaimOf(id) == CHOOSE c \in Extracts : c.id = id

Events == {EventId(r) : r \in Image(Fixtures)}
ClaimIds == {c.id : c \in Extracts}
EntityIds == UNION {MockEntities(r) : r \in Image(Fixtures)}
ExtractedFrom == [e \in Events |-> [i \in DOMAIN MockClaims(Of(e)) |-> MockClaims(Of(e))[i].id]]
DerivedFrom == [c \in ClaimIds |-> c[2]]
Mentioned == [e \in Events |-> MockEntities(Of(e))]
Cited == [e \in Events |-> MockCitations(Of(e)) \ {e}]
Dates == [e \in Events |-> Of(e).occurred]
Topics == [c \in ClaimIds |-> topic_of(ClaimOf(c))]
Contents == [c \in ClaimIds |-> content_of(ClaimOf(c))]
Subjects == [c \in ClaimIds |-> ClaimOf(c).subjects]
Owners == [c \in ClaimIds |-> Parties(ClaimOf(c).facet)]

(* Any since_ms, and records that arrive late.                              *)
E(i) == EventId(Fixtures[i])
FixtureWindows == {<<E(1)>>, <<E(2)>>, <<E(1), E(2)>>, <<E(1), E(2), E(3)>>, <<E(3), E(1)>>}
=============================================================================
