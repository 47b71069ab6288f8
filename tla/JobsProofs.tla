------------------------------ MODULE JobsProofs ------------------------------
(***************************************************************************)
(* The queue adds nothing to what the pipeline does to the store: every    *)
(* behaviour of Jobs is one of Ingestion, so what IngestionProofs proves   *)
(* of all runs holds of all jobs.                                          *)
(***************************************************************************)
EXTENDS Jobs, IngestionProofs

(* A step of a job is a step of the pipeline or leaves it alone; sealing    *)
(* without a session is a way of failing to seal.                           *)
LEMMA StepsOfThePipeline ==
  ASSUME [JNext]_jvars
  PROVE  [Next]_vars
<1>1. CASE Tick
  BY <1>1 DEF Tick
<1>2. CASE \E until \in 0..(MaxTime + 1) : enqueue_ingest(until)
  BY <1>2 DEF enqueue_ingest
<1>3. ASSUME NEW w \in Workers, Work(w)  PROVE Next
  <2>1. CASE ingest_source(w)
    BY <2>1 DEF ingest_source, Next
  <2>2. CASE SealWithSession(w)
    BY <2>2 DEF SealWithSession, Next, Step
  <2>3. CASE WriteOrSkip(w)
    BY <2>3 DEF WriteOrSkip, Next, Step
  <2>4. CASE OtherStep(w)
    BY <2>4 DEF OtherStep, Next, Step
  <2>5. CASE ReturnResult(w)
    BY <2>5 DEF ReturnResult, Next, Step
  <2> QED  BY <1>3, <2>1, <2>2, <2>3, <2>4, <2>5 DEF Work
<1>4. ASSUME NEW w \in Workers, Fail(w) \/ Vanish(w)  PROVE Next
  BY <1>4 DEF Fail, Vanish, Next
<1>5. CASE \E n \in DOMAIN job : CleanUp(n)
  BY <1>5 DEF CleanUp
<1>6. CASE UNCHANGED jvars
  BY <1>6 DEF jvars
<1> QED  BY <1>1, <1>2, <1>3, <1>4, <1>5, <1>6 DEF JNext

(* What the jobs of the queue do to the store is what Ingestion allows,     *)
(* whichever sessions run out and whichever workers die.                    *)
THEOREM JobsRunThePipeline == JSpec => Spec
<1>1. JInit => Init
  BY DEF JInit
<1> QED  BY <1>1, StepsOfThePipeline, PTL DEF JSpec, Spec

(* Nothing that happens to the queue makes the graph say that an earlier    *)
(* claim supersedes a later one.                                            *)
THEOREM JobsSupersedeBackwards == JSpec => []SupersessionGoesBack
BY JobsRunThePipeline, SupersessionAlwaysGoesBack, PTL

-----------------------------------------------------------------------------
(* What a job's result says of the store.                                   *)

(* A started job that is performed is performed by one worker, on what the  *)
(* job fetched.                                                             *)
HeldJobs ==
  /\ Len(job) <= MaxJobs
  /\ \A w \in Workers : holds[w] # 0 =>
       /\ holds[w] \in DOMAIN job
       /\ job[holds[w]].status = "started" /\ job[holds[w]].window = window[w]
  /\ \A v, w \in Workers : (holds[v] = holds[w] /\ holds[v] # 0) => v = w

(* What the enclave did not seal is in the errors of the state from encrypt *)
(* on.                                                                      *)
ErrorsName ==
  \A w \in Workers : pc[w] \in Writing =>
    \A k \in DOMAIN window[w] :
      window[w][k] \in Sensitive \ sealed[w] => window[w][k] \in errors[w]

JInv == JTypeOK /\ HeldJobs /\ ErrorsName

(* A step of a run that goes on keeps its worker busy on the same window.   *)
LEMMA BusyStaysBusy ==
  ASSUME IInv, NEW w \in Workers,
         \/ LookUp(w) \/ Compare(w) \/ Encrypt(w) \/ WriteEntities(w) \/ WriteEvent(w)
         \/ WriteClaim(w) \/ Link(w) \/ ReadClaim(w) \/ MarkSuperseded(w)
  PROVE  /\ window' = window /\ pc[w] # "idle" /\ pc'[w] # "idle"
         /\ \A v \in Workers \ {w} : pc'[v] = pc[v]
         /\ ~Encrypt(w) => sealed' = sealed /\ (pc'[w] \in Writing => pc[w] \in Writing)
<1>1. CASE LookUp(w) \/ Compare(w)
  BY <1>1 DEF IInv, TypeOK, LookUp, Compare, memory, Writing
<1>2. CASE Encrypt(w)
  BY <1>2 DEF IInv, TypeOK, Encrypt
<1>3. CASE WriteEntities(w) \/ WriteEvent(w) \/ WriteClaim(w)
  BY <1>3 DEF IInv, TypeOK, WriteEntities, WriteEvent, WriteClaim, memory, Writing
<1>4. CASE Link(w) \/ ReadClaim(w) \/ MarkSuperseded(w)
  BY <1>4 DEF IInv, TypeOK, Link, ReadClaim, MarkSuperseded, memory, Writing
<1>. QED BY <1>1, <1>2, <1>3, <1>4

LEMMA JInitJInv == JInit => JInv
<1>. SUFFICES ASSUME JInit PROVE JInv
  OBVIOUS
<1>1. TypeOK
  BY InitIInv DEF JInit, IInv
<1>2. now \in 0..MaxTime /\ MaxJobs \in Nat
  BY JobAssumption, BoundAssumption DEF JInit
<1>3. job \in Seq(Job) /\ Len(job) = 0
  BY DEF JInit
<1>. QED BY <1>1, <1>2, <1>3 DEF JInit, Init, JInv, JTypeOK, HeldJobs, ErrorsName, Writing

LEMMA RunningJInv ==
  ASSUME IInv, IInv', JInv, NEW w \in Workers,
         SealWithSession(w) \/ WriteOrSkip(w) \/ OtherStep(w)
  PROVE  JInv'
<1>. USE DEF JInv, JTypeOK
<1>1. /\ window' = window /\ pc[w] # "idle" /\ pc'[w] # "idle"
      /\ \A v \in Workers \ {w} : pc'[v] = pc[v]
      /\ ~Encrypt(w) => sealed' = sealed /\ (pc'[w] \in Writing => pc[w] \in Writing)
  BY BusyStaysBusy DEF SealWithSession, WriteOrSkip, OtherStep
<1>2. UNCHANGED <<now, job, holds>>
  BY DEF SealWithSession, WriteOrSkip, OtherStep
<1>3. /\ errors' \in [Workers -> SUBSET Records]
      /\ \A v \in Workers : errors[v] \subseteq errors'[v]
  <2>1. CASE SealWithSession(w)
    <3>1. Bodies(w) \subseteq Records
      BY DataAssumption DEF Bodies
    <3>. QED BY <2>1, <3>1 DEF SealWithSession
  <2>2. CASE WriteOrSkip(w)
    <3>1. Sensitive \subseteq Records
      BY DataAssumption
    <3>. QED BY <2>2, <3>1 DEF WriteOrSkip
  <2>3. CASE OtherStep(w)
    BY <2>3 DEF OtherStep
  <2>. QED BY <2>1, <2>2, <2>3
<1>4. ErrorsName'
  <2>1. CASE SealWithSession(w)
    <3>1. \A k \in DOMAIN window[w] :
            window[w][k] \in Sensitive \ sealed'[w] => window[w][k] \in errors'[w]
      BY <2>1 DEF SealWithSession, Bodies
    <3>2. \A v \in Workers \ {w} : sealed'[v] = sealed[v]
      BY <2>1 DEF SealWithSession, Encrypt, TypeOK
    <3>. QED BY <1>1, <1>3, <3>1, <3>2 DEF ErrorsName
  <2>2. CASE ~Encrypt(w)
    BY <1>1, <1>3, <2>2 DEF ErrorsName
  <2>. QED BY <2>1, <2>2 DEF SealWithSession, WriteOrSkip, OtherStep, WriteEvent, LookUp,
              Compare, WriteEntities, WriteClaim, Link, ReadClaim, MarkSuperseded, Encrypt
<1>5. HeldJobs'
  BY <1>1, <1>2 DEF HeldJobs
<1>. QED BY <1>1, <1>2, <1>3, <1>4, <1>5 DEF IInv

(* The queue is served in order: the job taken is the oldest one waiting.   *)
LEMMA OldestWaiting ==
  ASSUME job \in Seq(Job), Queued # {},
         NEW n, n = CHOOSE m \in Queued : \A k \in Queued : m <= k
  PROVE  n \in DOMAIN job /\ n \in Nat \ {0} /\ job[n].status = "queued"
<1>1. DOMAIN job = 1..Len(job) /\ Len(job) \in Nat
  OBVIOUS
<1>2. \A m \in Queued : m \in DOMAIN job
  BY DEF Queued
<1>3. Queued \subseteq Nat /\ \A m \in Queued : m \in Nat \ {0}
  BY <1>1, <1>2
<1>4. \E m \in Queued : \A k \in Queued : m <= k
  BY <1>3, LeastNatural
<1>5. n \in Queued
  BY <1>4
<1>. QED BY <1>2, <1>3, <1>5 DEF Queued

LEMMA QueueJInv ==
  ASSUME IInv', JInv, \/ Tick \/ \E until \in 0..(MaxTime + 1) : enqueue_ingest(until)
                      \/ UNCHANGED jvars
  PROVE  JInv'
<1>. USE DEF JInv, JTypeOK
<1>1. CASE Tick
  <2>1. now' \in 0..MaxTime
    BY <1>1, JobAssumption DEF Tick
  <2>. QED BY <1>1, <2>1 DEF Tick, vars, IInv, TypeOK, HeldJobs, ErrorsName
<1>2. ASSUME NEW until \in 0..(MaxTime + 1), enqueue_ingest(until) PROVE JInv'
  <2>. DEFINE new == [until |-> until, status |-> "queued", window |-> <<>>, errors |-> {}]
  <2>1. new \in Job
    BY DEF Job
  <2>2. job' = Append(job, new) /\ Len(job) < MaxJobs /\ Len(job) \in Nat /\ MaxJobs \in Nat
    BY <1>2, BoundAssumption DEF enqueue_ingest
  <2>3. job' \in Seq(Job) /\ Len(job') = Len(job) + 1 /\ DOMAIN job = 1..Len(job)
        /\ DOMAIN job' = 1..Len(job') /\ \A n \in DOMAIN job : job'[n] = job[n]
    BY <2>1, <2>2
  <2>4. HeldJobs'
    BY <1>2, <2>2, <2>3 DEF enqueue_ingest, HeldJobs, vars
  <2>. QED BY <1>2, <2>3, <2>4 DEF enqueue_ingest, vars, IInv, TypeOK, ErrorsName
<1>3. CASE UNCHANGED jvars
  BY <1>3 DEF jvars, vars, IInv, HeldJobs, ErrorsName
<1>. QED BY <1>1, <1>2, <1>3

LEMMA IngestJInv ==
  ASSUME IInv, IInv', JInv, NEW w \in Workers, ingest_source(w)
  PROVE  JInv'
<1>. USE DEF JInv, JTypeOK
<1>. DEFINE n == CHOOSE m \in Queued : \A k \in Queued : m <= k
<1>1. n \in DOMAIN job /\ n \in Nat \ {0} /\ job[n].status = "queued"
  BY OldestWaiting DEF ingest_source
<1>2. /\ pc[w] = "idle" /\ pc' = [pc EXCEPT ![w] = "resolve"]
      /\ window'[w] \in Windows /\ \A v \in Workers \ {w} : window'[v] = window[v]
      /\ sealed' = sealed
  BY DEF ingest_source, Fetch, memory, IInv, TypeOK
<1>3. /\ job' = [job EXCEPT ![n].status = "started", ![n].window = window'[w]]
      /\ holds' = [holds EXCEPT ![w] = n] /\ UNCHANGED <<now, errors>>
  BY DEF ingest_source
<1>4. Len(job) \in Nat /\ DOMAIN job = 1..Len(job) /\ job[n] \in Job /\ Len(job) <= MaxJobs
      /\ MaxJobs \in Nat
  BY <1>1, BoundAssumption DEF HeldJobs
<1>5. [job[n] EXCEPT !.status = "started", !.window = window'[w]] \in Job
  BY <1>2, <1>4 DEF Job
<1>6. job' \in Seq(Job) /\ Len(job') = Len(job) /\ DOMAIN job' = DOMAIN job
      /\ \A m \in DOMAIN job \ {n} : job'[m] = job[m]
  BY <1>1, <1>3, <1>4, <1>5
<1>7. job'[n].status = "started" /\ job'[n].window = window'[w]
  BY <1>1, <1>3, <1>4 DEF Job
<1>8. n \in 0..MaxJobs /\ n # 0
  BY <1>1, <1>4
<1>9. \A v \in Workers : holds[v] # n
  BY <1>1, <1>8 DEF HeldJobs
<1>10. HeldJobs'
  <2>. HIDE DEF n
  <2>. QED BY <1>1, <1>2, <1>3, <1>4, <1>6, <1>7, <1>8, <1>9 DEF HeldJobs
<1>11. ErrorsName'
  BY <1>2, <1>3 DEF ErrorsName, Writing, IInv, TypeOK
<1>12. holds' \in [Workers -> 0..MaxJobs] /\ \A v \in Workers : (pc'[v] = "idle") <=> (holds'[v] = 0)
  <2>. HIDE DEF n
  <2>. QED BY <1>2, <1>3, <1>8 DEF IInv, TypeOK
<1>. HIDE DEF n
<1>. QED BY <1>3, <1>6, <1>10, <1>11, <1>12 DEF IInv

(* What the job of a worker becomes when the worker is done with it.        *)
LEMMA ReleaseJInv ==
  ASSUME IInv, IInv', JInv, NEW w \in Workers, Forget(w), Release(w),
         \/ UNCHANGED job
         \/ /\ holds[w] # 0
            /\ \E ended \in Job : job' = [job EXCEPT ![holds[w]] = ended]
  PROVE  JInv'
<1>. USE DEF JInv, JTypeOK
<1>1. /\ pc'[w] = "idle" /\ holds'[w] = 0
      /\ \A v \in Workers \ {w} :
           /\ pc'[v] = pc[v] /\ window'[v] = window[v] /\ sealed'[v] = sealed[v]
           /\ holds'[v] = holds[v] /\ errors'[v] = errors[v]
  BY DEF Forget, Release, IInv, TypeOK
<1>2. holds' \in [Workers -> 0..MaxJobs] /\ errors' \in [Workers -> SUBSET Records] /\ now' = now
  BY BoundAssumption DEF Release
<1>3. /\ job' \in Seq(Job) /\ DOMAIN job' = DOMAIN job /\ Len(job') = Len(job)
      /\ \A n \in DOMAIN job : n # holds[w] => job'[n] = job[n]
  <2>1. CASE UNCHANGED job
    BY <2>1
  <2>2. CASE holds[w] # 0 /\ \E ended \in Job : job' = [job EXCEPT ![holds[w]] = ended]
    BY <2>2 DEF HeldJobs
  <2>. QED BY <2>1, <2>2
<1>4. HeldJobs'
  BY <1>1, <1>3, SMTT(20) DEF HeldJobs
<1>5. ErrorsName'
  BY <1>1 DEF ErrorsName, Writing
<1>. QED BY <1>1, <1>2, <1>3, <1>4, <1>5 DEF IInv

LEMMA JNextJInv == IInv /\ JInv /\ [JNext]_jvars => IInv' /\ JInv'
<1>. SUFFICES ASSUME IInv, JInv, [JNext]_jvars PROVE IInv' /\ JInv'
  OBVIOUS
<1>1. IInv'
  BY StepsOfThePipeline, NextIInv
<1>2. ASSUME NEW w \in Workers, SealWithSession(w) \/ WriteOrSkip(w) \/ OtherStep(w)
      PROVE  JInv'
  BY <1>1, <1>2, RunningJInv
<1>3. ASSUME NEW w \in Workers, ingest_source(w) PROVE JInv'
  BY <1>1, <1>3, IngestJInv
<1>4. ASSUME NEW w \in Workers, ReturnResult(w) \/ Fail(w) \/ Vanish(w) PROVE JInv'
  <2>1. pc[w] # "idle" /\ Forget(w) /\ Release(w)
    BY <1>4 DEF ReturnResult, Fail, Vanish, Finish, Crash
  <2>2. holds[w] # 0 /\ holds[w] \in DOMAIN job /\ job[holds[w]] \in Job
    BY <2>1 DEF JInv, JTypeOK, HeldJobs
  <2>3. CASE UNCHANGED job
    BY <1>1, <2>1, <2>3, ReleaseJInv
  <2>4. CASE ReturnResult(w)
    <3>. DEFINE ended == [job[holds[w]] EXCEPT !.status = "finished", !.errors = errors[w]]
    <3>1. ended \in Job
      BY <2>2 DEF Job, JInv, JTypeOK
    <3>2. job' = [job EXCEPT ![holds[w]] = ended]
      BY <2>2, <2>4 DEF ReturnResult, JInv, JTypeOK
    <3>. QED BY <1>1, <2>1, <2>2, <3>1, <3>2, ReleaseJInv
  <2>5. CASE Fail(w)
    <3>. DEFINE ended == [job[holds[w]] EXCEPT !.status = "failed"]
    <3>1. ended \in Job
      BY <2>2 DEF Job
    <3>2. job' = [job EXCEPT ![holds[w]] = ended]
      BY <2>5 DEF Fail
    <3>. QED BY <1>1, <2>1, <2>2, <3>1, <3>2, ReleaseJInv
  <2>. QED BY <1>4, <2>3, <2>4, <2>5 DEF Vanish
<1>5. ASSUME NEW n \in DOMAIN job, CleanUp(n) PROVE JInv'
  <2>. DEFINE ended == [job[n] EXCEPT !.status = "failed"]
  <2>1. ended \in Job
    <3>1. job[n] \in Job
      BY DEF JInv, JTypeOK
    <3>. QED BY <3>1 DEF Job
  <2>2. job' = [job EXCEPT ![n] = ended] /\ UNCHANGED <<vars, now, holds, errors>>
        /\ \A w \in Workers : holds[w] # n
    BY <1>5 DEF CleanUp
  <2>3. job' \in Seq(Job) /\ DOMAIN job' = DOMAIN job /\ Len(job') = Len(job)
        /\ \A m \in DOMAIN job : m # n => job'[m] = job[m]
    BY <2>1, <2>2 DEF JInv, JTypeOK
  <2>4. HeldJobs'
    BY <2>2, <2>3 DEF vars, JInv, HeldJobs
  <2>. QED BY <1>1, <2>2, <2>3, <2>4 DEF vars, IInv, JInv, JTypeOK, ErrorsName
<1>6. CASE Tick \/ (\E until \in 0..(MaxTime + 1) : enqueue_ingest(until)) \/ UNCHANGED jvars
  BY <1>1, <1>6, QueueJInv
<1>. QED BY <1>1, <1>2, <1>3, <1>4, <1>5, <1>6 DEF JNext, Work

LEMMA JobsInvariant == JSpec => [](IInv /\ JInv)
<1>1. JInit => IInv
  BY InitIInv DEF JInit
<1>. QED BY <1>1, JInitJInv, JNextJInv, PTL DEF JSpec

(* Every job keeps its shape, and a worker is busy exactly while it         *)
(* performs a job, whatever fails, vanishes or is cleaned up.               *)
THEOREM JobsTypeCorrect == JSpec => []JTypeOK
<1>1. JInv => JTypeOK
  BY DEF JInv
<1>. QED BY <1>1, JobsInvariant, PTL
-----------------------------------------------------------------------------
(* What a finished run has stored of its window, and what of it is still    *)
(* there later.                                                             *)
Whole(win, missing) ==
  /\ \A p \in ClaimPositions(win) : Present(ClaimAt(win, p))
  /\ \A k \in DOMAIN win : \/ win[k] \in missing
                           \/ event[win[k]] = IF win[k] \in Sensitive THEN "sealed" ELSE "plain"

(* The stored event of a record is sealed if it is sensitive, else plain.   *)
LEMMA FormOfAnEvent ==
  ASSUME IInv, BodiesInOrder, NEW r \in Records, event[r] # "absent"
  PROVE  event[r] = IF r \in Sensitive THEN "sealed" ELSE "plain"
BY DEF IInv, TypeOK, BodiesInOrder

LEMMA WholeWhenFinished ==
  ASSUME IInv, WInv, JInv, BodiesInOrder, NEW w \in Workers, Finish(w)
  PROVE  Whole(window[w], errors[w])
<1>1. pc[w] \in Writing /\ queue[w] = {} /\ HandlesInOrder(w)
  BY DEF Finish, Writing, WInv
<1>2. ASSUME NEW k \in DOMAIN window[w]
      PROVE  /\ window[w][k] \in Records
             /\ window[w][k] \in errors[w] \/ event[window[w][k]] # "absent"
  <2>1. window[w] \in Windows \cup {<<>>}
    BY DEF IInv, TypeOK
  <2>2. window[w][k] \in Records
    BY <2>1, WindowsHoldRecords
  <2>3. RecordWritten(w, window[w][k])
    BY <1>1 DEF HandlesInOrder
  <2>4. window[w][k] \in Sensitive \ sealed[w] => window[w][k] \in errors[w]
    BY <1>1 DEF JInv, ErrorsName
  <2>. QED BY <2>2, <2>3, <2>4 DEF RecordWritten
<1>. QED BY <1>1, <1>2, FormOfAnEvent DEF HandlesInOrder, Whole

(* Nothing the pipeline does later takes any of it away.                    *)
LEMMA WholeStays ==
  ASSUME IInv, IInv', BodiesInOrder', [Next]_vars,
         NEW win \in Windows \cup {<<>>}, NEW missing, Whole(win, missing)
  PROVE  Whole(win, missing)'
<1>1. \A p \in ClaimPositions(win) : ClaimAt(win, p) \in Claims
  BY PositionsAreNatural
<1>2. \A k \in DOMAIN win : win[k] \in Records
  BY WindowsHoldRecords
<1>3. \A r \in Records :
        event'[r] # "absent" => event'[r] = IF r \in Sensitive THEN "sealed" ELSE "plain"
  BY DEF IInv, TypeOK, BodiesInOrder
<1>4. \A c \in Claims : Present(c) => Present(c)'
  BY StoreGrows
<1>5. \A r \in Records : event[r] # "absent" => event'[r] # "absent"
  BY StoreGrows
<1>6. \A p \in ClaimPositions(win) : Present(ClaimAt(win, p))'
  BY <1>1, <1>4 DEF Whole
<1>7. \A k \in DOMAIN win : \/ win[k] \in missing
                            \/ event'[win[k]] = IF win[k] \in Sensitive THEN "sealed" ELSE "plain"
  BY <1>2, <1>3, <1>5 DEF Whole
<1>. QED BY <1>6, <1>7 DEF Whole

(* A job is finished by the return of its run, and is then left alone.      *)
LEMMA HowJobsFinish ==
  ASSUME IInv, JInv, [JNext]_jvars, NEW n \in DOMAIN job', job'[n].status = "finished"
  PROVE  \/ n \in DOMAIN job /\ job'[n] = job[n]
         \/ \E w \in Workers : /\ Finish(w) /\ n = holds[w]
                               /\ job'[n].window = window[w] /\ job'[n].errors = errors[w]
<1>1. job \in Seq(Job) /\ DOMAIN job = 1..Len(job) /\ Len(job) \in Nat
  BY DEF JInv, JTypeOK
<1>2. CASE \E until \in 0..(MaxTime + 1) : enqueue_ingest(until)
  BY <1>1, <1>2 DEF enqueue_ingest
<1>3. ASSUME NEW w \in Workers, ingest_source(w) PROVE n \in DOMAIN job /\ job'[n] = job[n]
  <2>1. Queued # {}
    BY <1>3 DEF ingest_source
  <2>2. PICK m : m = CHOOSE i \in Queued : \A k \in Queued : i <= k
    OBVIOUS
  <2>3. m \in DOMAIN job /\ job[m] \in Job
    BY <1>1, <2>1, <2>2, OldestWaiting
  <2>4. job' = [job EXCEPT ![m].status = "started", ![m].window = window'[w]]
    BY <1>3, <2>2 DEF ingest_source
  <2>. QED BY <2>3, <2>4 DEF Job
<1>4. ASSUME NEW w \in Workers, ReturnResult(w) \/ Fail(w) \/ Vanish(w)
      PROVE  \/ n \in DOMAIN job /\ job'[n] = job[n]
             \/ /\ Finish(w) /\ n = holds[w]
                /\ job'[n].window = window[w] /\ job'[n].errors = errors[w]
  <2>1. pc[w] # "idle"
    BY <1>4 DEF ReturnResult, Fail, Vanish, Finish, Crash
  <2>2. /\ holds[w] \in DOMAIN job /\ job[holds[w]].window = window[w]
        /\ job[holds[w]] \in Job
    BY <2>1 DEF JInv, JTypeOK, HeldJobs
  <2>3. CASE ReturnResult(w)
    BY <2>2, <2>3 DEF ReturnResult, Job
  <2>4. CASE Fail(w)
    BY <2>2, <2>4 DEF Fail, Job
  <2>5. CASE Vanish(w)
    BY <2>5 DEF Vanish
  <2>. QED BY <1>4, <2>3, <2>4, <2>5
<1>5. ASSUME NEW m \in DOMAIN job, CleanUp(m) PROVE n \in DOMAIN job /\ job'[n] = job[n]
  <2>1. job[m] \in Job
    BY <1>1
  <2>. QED BY <1>5, <2>1 DEF CleanUp, Job
<1>6. CASE UNCHANGED job
  BY <1>6
<1>. QED BY <1>2, <1>3, <1>4, <1>5, <1>6 DEF JNext, Work, Tick, SealWithSession, WriteOrSkip,
            OtherStep, jvars

(* GET /ingest/{id}: of a job it shows as finished, every claim of what the *)
(* job fetched is stored, and every event the result does not list as an    *)
(* error, a sensitive one sealed.                                           *)
THEOREM ResultsAlwaysNameWhatIsMissing == JSpec => []ResultNamesWhatIsMissing
<1>. DEFINE Inv == IInv /\ JInv /\ WInv /\ BodiesInOrder
            Kept == \A n \in DOMAIN job : job[n].status = "finished" =>
                      Whole(job[n].window, job[n].errors)
<1>1. JSpec => []Inv
  BY JobsInvariant, JobsRunThePipeline, WriteOrderHolds, BodiesStayInOrder, PTL
<1>2. JInit => Kept
  BY DEF JInit
<1>3. Inv /\ Inv' /\ Kept /\ [JNext]_jvars => Kept'
  <2>. SUFFICES ASSUME Inv, Inv', Kept, [JNext]_jvars,
                       NEW n \in DOMAIN job', job'[n].status = "finished",
                       NEW win, win = job'[n].window, NEW missing, missing = job'[n].errors
                PROVE  Whole(win, missing)'
    OBVIOUS
  <2>1. Whole(win, missing)
    <3>1. CASE n \in DOMAIN job /\ job'[n] = job[n]
      BY <3>1
    <3>2. ASSUME NEW w \in Workers, Finish(w), job'[n].window = window[w],
                 job'[n].errors = errors[w]
          PROVE  Whole(win, missing)
      BY <3>2, WholeWhenFinished
    <3>. QED BY <3>1, <3>2, HowJobsFinish
  <2>2. win \in Windows \cup {<<>>}
    <3>1. job' \in Seq(Job)
      BY DEF JInv, JTypeOK
    <3>2. job'[n] \in Job
      BY <3>1
    <3>. QED BY <3>2 DEF Job
  <2>. QED BY <2>1, <2>2, WholeStays, StepsOfThePipeline
<1>4. Kept => ResultNamesWhatIsMissing
  BY DEF Whole, ResultNamesWhatIsMissing
<1>. QED BY <1>1, <1>2, <1>3, <1>4, PTL DEF JSpec
=============================================================================
