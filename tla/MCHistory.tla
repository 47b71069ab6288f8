------------------------------ MODULE MCHistory ------------------------------
(* Instances of History for TLC, over the records of MCIngestion.           *)
EXTENDS History, MCIngestion

Request(kind, S, depth) == [read |-> kind, seeds |-> S, hops |-> depth]

(* A shift of each claim; the context of a claim and of the record that is  *)
(* cited; neighbourhoods of one and of two seeds.                           *)
SomeRequests ==
  {Request("shift", {c}, 1) : c \in {c1, c2, c3}}
    \cup {Request("context", {c3}, 2), Request("context", {r1}, 2)}
    \cup {Request("neighbourhood", {c1}, 2), Request("neighbourhood", {atlas, c2}, 1)}
=============================================================================
