-------------------------------- MODULE MCJobs --------------------------------
(* An instance of Jobs for TLC, with the data of MCIngestion.               *)
EXTENDS Jobs, MCIngestion

(* Two backfills and the late arrival of a record.                          *)
SomeWindows == {<<r1, r3>>, <<r2>>, <<r1, r2, r3>>}
=============================================================================
