----------------------------- MODULE MCIngestion -----------------------------
(* Instances of Ingestion for TLC.                                          *)
EXTENDS Ingestion, TLC

CONSTANTS r1, r2, r3, c1, c2, c3, alice, atlas

(* Three records, one claim each, about one project; the second claim is a  *)
(* commitment of alice; the third record is sensitive and cites the first,  *)
(* as in the fixtures of connectors/mock.py.                                *)
ThreeRecords == {r1, r2, r3}
ThreeClaims == {c1, c2, c3}
OneClaimEach == r1 :> <<c1>> @@ r2 :> <<c2>> @@ r3 :> <<c3>>
Statement == c1 :> r1 @@ c2 :> r2 @@ c3 :> r3
AtlasAndAlice == {atlas, alice}
SecondMentionsAlice == r1 :> {atlas} @@ r2 :> {atlas, alice} @@ r3 :> {atlas}
ThirdCitesFirst == r1 :> {} @@ r2 :> {} @@ r3 :> {r1}
Storage == [c \in ThreeClaims |-> "storage"]
ThreeAnswers == c1 :> "postgres" @@ c2 :> "neo4j" @@ c3 :> "sqlite"
AboutAtlas == [c \in ThreeClaims |-> {atlas}]
AliceOwesSecond == c1 :> {} @@ c2 :> {alice} @@ c3 :> {}
InOrder == r1 :> 1 @@ r2 :> 2 @@ r3 :> 3
LastTwoTogether == r1 :> 1 @@ r2 :> 2 @@ r3 :> 2

(* A source that grows at its end, read from the start each time.           *)
Prefixes == {<<r1>>, <<r1, r2>>, <<r1, r2, r3>>}
(* Any since_ms, and records of other sources that arrive late.             *)
AnyWindow == {<<r1>>, <<r2>>, <<r3>>, <<r1, r2>>, <<r2, r3>>, <<r1, r3>>, <<r1, r2, r3>>}
=============================================================================
