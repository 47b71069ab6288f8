--------------------------------- MODULE Jobs ---------------------------------
(***************************************************************************)
(* Ingestion as it is asked for: POST /ingest puts a job on the queue and  *)
(* GET /ingest/{id} tells how it stands (api.py), a worker takes one job   *)
(* at a time (jobs/worker.py, jobs/tasks.py) and runs the pipeline of      *)
(* Ingestion with the owner's session, which may have run out by then.     *)
(*                                                                         *)
(* RQ and Redis are outside the code, modelled from how it uses them: a    *)
(* list of jobs, a status each, a result or an exception.  A job that      *)
(* raises, or exceeds the timeout of the queue, fails; one whose worker is *)
(* gone stays started until RQ cleans up.                                  *)
(***************************************************************************)
EXTENDS Ingestion

CONSTANT MaxTime  \* bound: the clock

(* A job that seals nothing is one more of those Ingestion allows for.      *)
ASSUME JobAssumption == MaxTime \in Nat /\ Cardinality(Sensitive) <= MaxUnsealed

VARIABLES
  now,     \* the gateway's clock
  job,     \* the jobs in the order they were put on the queue
  holds,   \* worker -> the job it performs, or 0
  errors   \* worker -> the records the errors of the graph's state name

jvars == <<vars, now, job, holds, errors>>

Job == [until : 0..(MaxTime + 1), status : {"queued", "started", "finished", "failed"},
        window : Windows \cup {<<>>}, errors : SUBSET Records]

JInit ==
  /\ Init
  /\ now = 0
  /\ job = <<>>
  /\ holds = [w \in Workers |-> 0]
  /\ errors = [w \in Workers |-> {}]

Tick ==
  /\ now < MaxTime
  /\ now' = now + 1
  /\ UNCHANGED <<vars, job, holds, errors>>

(* enqueue_ingest.  The session is accepted before `until`; 0 is no session.*)
enqueue_ingest(until) ==
  /\ Len(job) < MaxJobs
  /\ job' = Append(job, [until |-> until, status |-> "queued", window |-> <<>>, errors |-> {}])
  /\ UNCHANGED <<vars, now, holds, errors>>

Queued == {n \in DOMAIN job : job[n].status = "queued"}

(* ingest_source: a runtime of its own, then fetch.  What a fetch returns   *)
(* depends on when the job is run.                                          *)
ingest_source(w) ==
  /\ Queued # {}
  /\ Fetch(w)
  /\ LET n == CHOOSE m \in Queued : \A k \in Queued : m <= k IN
       /\ job' = [job EXCEPT ![n].status = "started", ![n].window = window'[w]]
       /\ holds' = [holds EXCEPT ![w] = n]
  /\ UNCHANGED <<now, errors>>

Bodies(w) == {r \in Sensitive : \E k \in DOMAIN window[w] : window[w][k] = r}

(* encrypt: adopt_session, then seal_encrypt of each body.  Without a       *)
(* session, or with one that ran out, every call raises.                    *)
SealWithSession(w) ==
  /\ Encrypt(w)
  /\ now >= job[holds[w]].until => sealed'[w] = {}
  /\ errors' = [errors EXCEPT ![w] = @ \cup (Bodies(w) \ sealed'[w])]
  /\ UNCHANGED <<now, job, holds>>

(* write: an event that is skipped is one more error.                       *)
WriteOrSkip(w) ==
  /\ WriteEvent(w)
  /\ LET r == RecordAt(window[w], First(queue[w])) IN
       errors' = IF r \in Sensitive \ sealed[w]
                 THEN [errors EXCEPT ![w] = @ \cup {r}] ELSE errors
  /\ UNCHANGED <<now, job, holds>>

OtherStep(w) ==
  /\ \/ LookUp(w) \/ Compare(w) \/ WriteEntities(w) \/ WriteClaim(w)
     \/ Link(w) \/ ReadClaim(w) \/ MarkSuperseded(w)
  /\ UNCHANGED <<now, job, holds, errors>>

(* Mutant: the job stays with the worker.                                   *)
KeepHolding(w) ==
  /\ errors' = [errors EXCEPT ![w] = {}]
  /\ UNCHANGED <<now, holds>>

Release(w) ==
  /\ holds' = [holds EXCEPT ![w] = 0]
  /\ errors' = [errors EXCEPT ![w] = {}]
  /\ UNCHANGED now

(* Mutant: the result does not carry the errors of the state.               *)
ReturnCounts(w) ==
  /\ Finish(w)
  /\ job' = [job EXCEPT ![holds[w]].status = "finished"]
  /\ Release(w)

(* run_ingestion returns its IngestionResult, which RQ keeps.               *)
ReturnResult(w) ==
  /\ Finish(w)
  /\ job' = [job EXCEPT ![holds[w]].status = "finished", ![holds[w]].errors = errors[w]]
  /\ Release(w)

(* The job raises, or the timeout of the queue does it.                     *)
Fail(w) ==
  /\ Crash(w)
  /\ job' = [job EXCEPT ![holds[w]].status = "failed"]
  /\ Release(w)

(* The worker goes; another one takes its place.                            *)
Vanish(w) ==
  /\ Crash(w)
  /\ UNCHANGED job
  /\ Release(w)

(* RQ: a job that is started and that nobody performs has failed.           *)
CleanUp(n) ==
  /\ job[n].status = "started"
  /\ \A w \in Workers : holds[w] # n
  /\ job' = [job EXCEPT ![n].status = "failed"]
  /\ UNCHANGED <<vars, now, holds, errors>>

Work(w) ==
  \/ ingest_source(w) \/ SealWithSession(w) \/ WriteOrSkip(w) \/ OtherStep(w)
  \/ ReturnResult(w)

JNext ==
  \/ Tick
  \/ \E until \in 0..(MaxTime + 1) : enqueue_ingest(until)
  \/ \E w \in Workers : Work(w) \/ Fail(w) \/ Vanish(w)
  \/ \E n \in DOMAIN job : CleanUp(n)

JSpec == JInit /\ [][JNext]_jvars

(* A worker takes the next job when it is free and runs on; RQ cleans up.   *)
JFairSpec ==
  /\ JSpec
  /\ \A w \in Workers : WF_jvars(Work(w))
  /\ \A n \in 1..MaxJobs : WF_jvars(n \in DOMAIN job /\ CleanUp(n))

-----------------------------------------------------------------------------
(* Properties.                                                              *)

(* The shape of the variables; a job is performed by a worker that is busy. *)
JTypeOK ==
  /\ TypeOK
  /\ now \in 0..MaxTime
  /\ job \in Seq(Job)
  /\ holds \in [Workers -> 0..MaxJobs]
  /\ errors \in [Workers -> SUBSET Records]
  /\ \A w \in Workers : (pc[w] = "idle") <=> (holds[w] = 0)

(* A job GET /ingest/{id} shows as finished has stored every claim of what  *)
(* it fetched, and every event its errors do not name, a sensitive one      *)
(* sealed: whatever sessions run out, and whatever died before it.          *)
ResultNamesWhatIsMissing ==
  \A n \in DOMAIN job : job[n].status = "finished" =>
    /\ \A p \in ClaimPositions(job[n].window) : Present(ClaimAt(job[n].window, p))
    /\ \A k \in DOMAIN job[n].window : LET r == job[n].window[k] IN
         r \in job[n].errors \/ event[r] = IF r \in Sensitive THEN "sealed" ELSE "plain"

(* Whoever polls a job sees it finished or failed in the end (as            *)
(* orchestrator_smoke.sh:88 does), whichever worker dies.                   *)
JobsEnd ==
  \A n \in 1..MaxJobs :
    (n \in DOMAIN job) ~> (n \in DOMAIN job /\ job[n].status \in {"finished", "failed"})
=============================================================================
