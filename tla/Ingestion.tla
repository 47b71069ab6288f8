------------------------------ MODULE Ingestion ------------------------------
(***************************************************************************)
(* The ingestion pipeline (graphs/ingestion.py) with the resolver          *)
(* (resolution/resolver.py) and the Neo4j store it writes to               *)
(* (storage/neo4j_store.py), for one owner.                                *)
(*                                                                         *)
(* A worker process runs one ingestion job at a time: fetch, extract,      *)
(* resolve, encrypt, write.  Every call on the store is one autocommit     *)
(* transaction, so each one is an action here: the reads of `resolve` and  *)
(* the writes of `write` of two workers interleave freely, and a worker    *)
(* that dies leaves the store as its last transaction left it.             *)
(*                                                                         *)
(* Data are abstracted to what the resolver compares: a claim is an id     *)
(* with a topic, a content (its tokens and its obligation), subjects, and  *)
(* the record that states it.  Extraction is a pure function of a record,  *)
(* given by the constants.                                                 *)
(***************************************************************************)
EXTENDS Naturals, Sequences, FiniteSets

CONSTANTS
  Workers,     \* worker processes that may run ingestion jobs
  Records,     \* raw records, which are also the ids of their events
  Claims,      \* claim ids
  Entities,    \* entity ids
  Windows,     \* the sequences of records a fetch may return
  ClaimsOf,    \* record -> the claims extracted from it, in order
  RecordOf,    \* claim -> the record its id is derived from
  Mentions,    \* record -> the entities extracted from it
  References,  \* record -> the other records its event cites
  Sensitive,   \* the records whose body must be sealed
  OccurredAt,  \* record -> time; a claim is asserted when its record occurred
  Topic,       \* claim -> the topic of its statement
  Content,     \* claim -> its full token set and obligation
  About,       \* claim -> its subject entities
  Owed,        \* claim -> the parties of its commitment facet
  MaxJobs,     \* bound: ingestion jobs started
  MaxCrashes,  \* bound: jobs that die half way
  MaxUnsealed, \* bound: records of one job the enclave fails to seal
  Nothing      \* neither a record nor a claim: no writer yet, no target

ASSUME DataAssumption ==
  /\ Windows \subseteq Seq(Records)
  /\ ClaimsOf \in [Records -> Seq(Claims)]
  /\ RecordOf \in [Claims -> Records]
  /\ \A r \in Records : \A i \in DOMAIN ClaimsOf[r] : RecordOf[ClaimsOf[r][i]] = r
  /\ Mentions \in [Records -> SUBSET Entities]
  /\ References \in [Records -> SUBSET Records]
  /\ Sensitive \subseteq Records
  /\ OccurredAt \in [Records -> Nat]
  /\ DOMAIN Topic = Claims /\ DOMAIN Content = Claims
  /\ About \in [Claims -> SUBSET Entities]
  /\ Owed \in [Claims -> SUBSET Entities]
  /\ \A c \in Claims : About[c] \cup Owed[c] \subseteq Mentions[RecordOf[c]]

ASSUME BoundAssumption ==
  /\ MaxJobs \in Nat /\ MaxCrashes \in Nat /\ MaxUnsealed \in Nat
  /\ Nothing \notin Records \cup Claims

VARIABLES
  claim,    \* store: claim id -> payload (and the status column)
  event,    \* store: event id -> how its body is held
  entity,   \* store: entity id -> the record whose upsert it holds
  links,    \* store: relationships
  pc,       \* worker -> what it does next
  window,   \* worker -> the records its job fetched
  queue,    \* worker -> positions the current node has still to handle
  decided,  \* worker -> position -> resolved claim object, held in memory
  sealed,   \* worker -> records of the window the enclave sealed
  todo,     \* worker -> relationships still to create for the current object
  target,   \* worker -> the claim set_claim_status is called with
  copy,     \* worker -> the payload _mutate_claim has read
  jobs,     \* jobs started so far
  crashes,  \* jobs that died so far
  finished  \* the windows whose job returned an IngestionResult

store == <<claim, event, entity, links>>
memory == <<window, decided, sealed>>
vars == <<claim, event, entity, links, pc, window, queue, decided, sealed,
          todo, target, copy, jobs, crashes, finished>>

-----------------------------------------------------------------------------
(* Positions: <<k, 0>> is the k-th record of the window, <<k, i>> the i-th   *)
(* claim extracted from it.  The nodes handle them in lexicographic order.  *)

ClaimPositions(win) ==
  UNION {{k} \X DOMAIN ClaimsOf[win[k]] : k \in DOMAIN win}

RecordPositions(win) == {<<k, 0>> : k \in DOMAIN win}

(* Mutant: the claims of a record before the record.                        *)
ClaimsBeforeRecord(p, q) == p[1] < q[1] \/ (p[1] = q[1] /\ p[2] >= q[2])

NotAfter(p, q) == p[1] < q[1] \/ (p[1] = q[1] /\ p[2] <= q[2])

First(S) == CHOOSE p \in S : \A q \in S : NotAfter(p, q)
Last(S) == CHOOSE p \in S : \A q \in S : NotAfter(q, p)

RecordAt(win, p) == win[p[1]]
ClaimAt(win, p) == ClaimsOf[win[p[1]]][p[2]]

-----------------------------------------------------------------------------
(* What the resolver compares.                                              *)

AssertedAt(c) == OccurredAt[RecordOf[c]]
(* Mutant: claims of the same time supersede one another.                   *)
OlderOrSame(c, d) == AssertedAt(c) <= AssertedAt(d)

Older(c, d) == AssertedAt(c) < AssertedAt(d)

Rivals(c, d) == c # d /\ Topic[c] = Topic[d] /\ Content[c] # Content[d]

(* The mark a rival that is not older leaves on the claim being resolved.   *)
Verdict(c, rival) ==
  IF AssertedAt(c) = AssertedAt(rival) THEN "contradicted" ELSE "superseded"

Statuses == {"active", "superseded", "contradicted"}

(* A claim as model_dump_json writes it; "absent" stands for no such node.  *)
Row == [status : Statuses \cup {"absent"},
        supersedes : SUBSET Claims, contradicts : SUBSET Claims]
AbsentRow == [status |-> "absent", supersedes |-> {}, contradicts |-> {}]

Object == [claim : Claims, status : Statuses,
           supersedes : SUBSET Claims, contradicts : SUBSET Claims]
RowOf(o) == [status |-> o.status, supersedes |-> o.supersedes,
             contradicts |-> o.contradicts]

Present(c) == claim[c].status # "absent"

-----------------------------------------------------------------------------
(* Relationships.                                                           *)

Edge(a, rel, b) == [from |-> a, rel |-> rel, to |-> b]

Rank == [MENTIONS |-> 1, ABOUT |-> 1, OWED |-> 2, CITES |-> 3,
         SUPERSEDES |-> 4, CONTRADICTS |-> 5]

Edges == [from : Claims \cup Records,
          rel : {"MENTIONS", "ABOUT", "OWED", "CITES", "SUPERSEDES", "CONTRADICTS"},
          to : Claims \cup Records \cup Entities]

EventLinks(r) ==
  {Edge(r, "MENTIONS", e) : e \in Mentions[r]}
    \cup {Edge(r, "CITES", s) : s \in References[r] \ {r}}

ClaimLinks(o) ==
  {Edge(o.claim, "ABOUT", e) : e \in About[o.claim]}
    \cup {Edge(o.claim, "OWED", e) : e \in Owed[o.claim]}
    \cup {Edge(o.claim, "CITES", RecordOf[o.claim])}
    \cup {Edge(o.claim, "SUPERSEDES", d) : d \in o.supersedes}
    \cup {Edge(o.claim, "CONTRADICTS", d) : d \in o.contradicts}

(* The MATCH of both endpoints.                                             *)
Stored(n) ==
  \/ n \in Claims /\ Present(n)
  \/ n \in Records /\ event[n] # "absent"
  \/ n \in Entities /\ entity[n] # Nothing

(* Mutant: a claim is compared with the claims of its batch only.           *)
NoneAbout(c) == {}

ClaimsAbout(c) ==
  {d \in Claims : Present(d) /\ \E e \in About[c] : Edge(d, "ABOUT", e) \in links}

-----------------------------------------------------------------------------
Init ==
  /\ claim = [c \in Claims |-> AbsentRow]
  /\ event = [r \in Records |-> "absent"]
  /\ entity = [e \in Entities |-> Nothing]
  /\ links = {}
  /\ pc = [w \in Workers |-> "idle"]
  /\ window = [w \in Workers |-> <<>>]
  /\ queue = [w \in Workers |-> {}]
  /\ decided = [w \in Workers |-> <<>>]
  /\ sealed = [w \in Workers |-> {}]
  /\ todo = [w \in Workers |-> {}]
  /\ target = [w \in Workers |-> Nothing]
  /\ copy = [w \in Workers |-> AbsentRow]
  /\ jobs = 0
  /\ crashes = 0
  /\ finished = {}

(* fetch and extract: the source is read once, then everything the later    *)
(* nodes use is in the worker's memory.                                     *)
Fetch(w) ==
  /\ pc[w] = "idle"
  /\ jobs < MaxJobs
  /\ jobs' = jobs + 1
  /\ \E win \in Windows :
       /\ window' = [window EXCEPT ![w] = win]
       /\ queue' = [queue EXCEPT ![w] = ClaimPositions(win)]
  /\ pc' = [pc EXCEPT ![w] = "resolve"]
  /\ UNCHANGED <<store, decided, sealed, todo, target, copy, crashes, finished>>

(* Mutant: no check for a stored duplicate.                                 *)
LookUpNever(w) ==
  /\ pc[w] = "resolve"
  /\ queue[w] # {}
  /\ pc' = [pc EXCEPT ![w] = "compare"]
  /\ UNCHANGED <<store, memory, queue, todo, target, copy, jobs, crashes, finished>>

(* resolve: store.get of the next claim; one that is stored is a duplicate  *)
(* and is dropped from the batch, whatever its state.                       *)
LookUp(w) ==
  /\ pc[w] = "resolve"
  /\ queue[w] # {}
  /\ LET p == First(queue[w]) IN
       IF Present(ClaimAt(window[w], p))
       THEN /\ queue' = [queue EXCEPT ![w] = @ \ {p}]
            /\ UNCHANGED pc
       ELSE /\ pc' = [pc EXCEPT ![w] = "compare"]
            /\ UNCHANGED queue
  /\ UNCHANGED <<store, memory, todo, target, copy, jobs, crashes, finished>>

(* The statuses resolve can leave on claim c: each rival that is not older  *)
(* assigns the status anew, the claims of the batch after the stored ones,  *)
(* and the store returns its rows in no particular order.                   *)
Outcomes(c, stored, batch, prior) ==
  LET later == {q \in prior : ~Older(batch[q].claim, c)}
      rest  == {d \in stored : ~Older(d, c)}
  IN  IF later # {} THEN {Verdict(c, batch[Last(later)].claim)}
      ELSE IF rest # {} THEN {Verdict(c, d) : d \in rest}
      ELSE {"active"}

(* resolve: claims_about, then the loop over the stored claims and the      *)
(* claims of the batch resolved before.  Superseding a claim of the batch   *)
(* changes that object; superseding a stored one changes a copy, the store  *)
(* is told only when this claim is written.                                 *)
Compare(w) ==
  /\ pc[w] = "compare"
  /\ LET p      == First(queue[w])
         c      == ClaimAt(window[w], p)
         batch  == decided[w]
         stored == {d \in ClaimsAbout(c) : Rivals(c, d) /\ claim[d].status = "active"}
         prior  == {q \in DOMAIN batch : /\ Rivals(c, batch[q].claim)
                                         /\ batch[q].status = "active"}
         rivals == stored \cup {batch[q].claim : q \in prior}
     IN  /\ \E status \in Outcomes(c, stored, batch, prior) :
              decided' = [decided EXCEPT ![w] =
                [q \in DOMAIN batch \cup {p} |->
                   IF q = p
                   THEN [claim |-> c, status |-> status,
                         supersedes |-> {d \in rivals : Older(d, c)},
                         contradicts |-> {d \in rivals : AssertedAt(d) = AssertedAt(c)}]
                   ELSE IF q \in prior /\ Older(batch[q].claim, c)
                   THEN [batch[q] EXCEPT !.status = "superseded"]
                   ELSE batch[q]]]
         /\ queue' = [queue EXCEPT ![w] = @ \ {p}]
  /\ pc' = [pc EXCEPT ![w] = "resolve"]
  /\ UNCHANGED <<store, window, sealed, todo, target, copy, jobs, crashes, finished>>

(* encrypt: each sensitive body goes to the enclave by itself; a failure is *)
(* recorded and the next body is tried.                                     *)
Encrypt(w) ==
  /\ pc[w] = "resolve"
  /\ queue[w] = {}
  /\ LET bodies == {r \in Sensitive : \E k \in DOMAIN window[w] : window[w][k] = r}
     IN  \E failed \in SUBSET bodies :
           /\ Cardinality(failed) <= MaxUnsealed
           /\ sealed' = [sealed EXCEPT ![w] = bodies \ failed]
  /\ queue' = [queue EXCEPT ![w] = RecordPositions(window[w]) \cup DOMAIN decided[w]]
  /\ pc' = [pc EXCEPT ![w] = "write"]
  /\ UNCHANGED <<store, window, decided, todo, target, copy, jobs, crashes, finished>>

(* write: the entities of the next record.  Their upserts are one MERGE     *)
(* each; nothing reads an entity between them, so they are one step.        *)
WriteEntities(w) ==
  /\ pc[w] = "write"
  /\ todo[w] = {}
  /\ queue[w] # {}
  /\ LET p == First(queue[w]) IN
       /\ p[2] = 0
       /\ entity' = [e \in Entities |-> IF e \in Mentions[RecordAt(window[w], p)]
                                        THEN RecordAt(window[w], p) ELSE entity[e]]
  /\ pc' = [pc EXCEPT ![w] = "event"]
  /\ UNCHANGED <<claim, event, links, memory, queue, todo, target, copy, jobs, crashes, finished>>

(* The body of an event as extracted: that of a sensitive record is left    *)
(* out, so that its event is bare until a sealed body is put in.            *)
ExtractedBody(r) == IF r \in Sensitive THEN "bare" ELSE "plain"

(* Mutant: the event is written although its body was not sealed.           *)
WriteEventAnyway(w) ==
  /\ pc[w] = "event"
  /\ LET p == First(queue[w])
         r == RecordAt(window[w], p)
     IN  /\ event' = [event EXCEPT ![r] = IF r \in sealed[w] THEN "sealed" ELSE ExtractedBody(r)]
         /\ todo' = [todo EXCEPT ![w] = EventLinks(r)]
         /\ queue' = [queue EXCEPT ![w] = @ \ {p}]
  /\ pc' = [pc EXCEPT ![w] = "write"]
  /\ UNCHANGED <<claim, entity, links, memory, target, copy, jobs, crashes, finished>>

(* write: the event of that record.  A sensitive one whose body was not     *)
(* sealed is skipped, with its relationships.                               *)
WriteEvent(w) ==
  /\ pc[w] = "event"
  /\ LET p == First(queue[w])
         r == RecordAt(window[w], p)
     IN  /\ IF r \in Sensitive /\ r \notin sealed[w]
            THEN UNCHANGED <<event, todo>>
            ELSE /\ event' = [event EXCEPT ![r] = IF r \in sealed[w] THEN "sealed"
                                                   ELSE ExtractedBody(r)]
                 /\ todo' = [todo EXCEPT ![w] = EventLinks(r)]
         /\ queue' = [queue EXCEPT ![w] = @ \ {p}]
  /\ pc' = [pc EXCEPT ![w] = "write"]
  /\ UNCHANGED <<claim, entity, links, memory, target, copy, jobs, crashes, finished>>

(* write: the next claim.  MERGE and SET: whatever the node held before is  *)
(* replaced by the object in memory.                                        *)
WriteClaim(w) ==
  /\ pc[w] = "write"
  /\ todo[w] = {}
  /\ queue[w] # {}
  /\ LET p == First(queue[w]) IN
       /\ p[2] # 0
       /\ claim' = [claim EXCEPT ![decided[w][p].claim] = RowOf(decided[w][p])]
       /\ todo' = [todo EXCEPT ![w] = ClaimLinks(decided[w][p])]
       /\ queue' = [queue EXCEPT ![w] = @ \ {p}]
  /\ UNCHANGED <<event, entity, links, pc, memory, target, copy, jobs, crashes, finished>>

(* Mutant: the claim that supersedes is marked in place of the older one.   *)
LinkBackwards(w) ==
  /\ pc[w] = "write"
  /\ \E l \in todo[w] :
       /\ \A m \in todo[w] : Rank[l.rel] <= Rank[m.rel]
       /\ links' = IF Stored(l.from) /\ Stored(l.to) THEN links \cup {l} ELSE links
       /\ todo' = [todo EXCEPT ![w] = @ \ {l}]
       /\ IF l.rel = "SUPERSEDES"
          THEN /\ target' = [target EXCEPT ![w] = l.from]
               /\ pc' = [pc EXCEPT ![w] = "read"]
          ELSE UNCHANGED <<target, pc>>
  /\ UNCHANGED <<claim, event, entity, memory, queue, copy, jobs, crashes, finished>>

(* write: store.link, in the order of the code; nothing is created when an  *)
(* endpoint is missing.                                                     *)
Link(w) ==
  /\ pc[w] = "write"
  /\ \E l \in todo[w] :
       /\ \A m \in todo[w] : Rank[l.rel] <= Rank[m.rel]
       /\ links' = IF Stored(l.from) /\ Stored(l.to) THEN links \cup {l} ELSE links
       /\ todo' = [todo EXCEPT ![w] = @ \ {l}]
       /\ IF l.rel = "SUPERSEDES"
          THEN /\ target' = [target EXCEPT ![w] = l.to]
               /\ pc' = [pc EXCEPT ![w] = "read"]
          ELSE UNCHANGED <<target, pc>>
  /\ UNCHANGED <<claim, event, entity, memory, queue, copy, jobs, crashes, finished>>

(* set_claim_status, first half: the payload is read; if there is no such   *)
(* claim the call returns.                                                  *)
ReadClaim(w) ==
  /\ pc[w] = "read"
  /\ copy' = [copy EXCEPT ![w] = claim[target[w]]]
  /\ pc' = [pc EXCEPT ![w] = IF Present(target[w]) THEN "mark" ELSE "write"]
  /\ UNCHANGED <<store, memory, queue, todo, target, jobs, crashes, finished>>

(* set_claim_status, second half: the payload that was read is written back *)
(* with the new status.                                                     *)
MarkSuperseded(w) ==
  /\ pc[w] = "mark"
  /\ claim' = [claim EXCEPT ![target[w]] = [copy[w] EXCEPT !.status = "superseded"]]
  /\ target' = [target EXCEPT ![w] = Nothing]
  /\ copy' = [copy EXCEPT ![w] = AbsentRow]
  /\ pc' = [pc EXCEPT ![w] = "write"]
  /\ UNCHANGED <<event, entity, links, memory, queue, todo, jobs, crashes, finished>>

(* Mutant: the resolved objects outlive their job.                          *)
ForgetAllButObjects(w) ==
  /\ pc' = [pc EXCEPT ![w] = "idle"]
  /\ window' = [window EXCEPT ![w] = <<>>]
  /\ queue' = [queue EXCEPT ![w] = {}]
  /\ sealed' = [sealed EXCEPT ![w] = {}]
  /\ todo' = [todo EXCEPT ![w] = {}]
  /\ target' = [target EXCEPT ![w] = Nothing]
  /\ copy' = [copy EXCEPT ![w] = AbsentRow]
  /\ UNCHANGED decided

(* A job leaves nothing in its worker.                                      *)
Forget(w) ==
  /\ pc' = [pc EXCEPT ![w] = "idle"]
  /\ window' = [window EXCEPT ![w] = <<>>]
  /\ queue' = [queue EXCEPT ![w] = {}]
  /\ decided' = [decided EXCEPT ![w] = <<>>]
  /\ sealed' = [sealed EXCEPT ![w] = {}]
  /\ todo' = [todo EXCEPT ![w] = {}]
  /\ target' = [target EXCEPT ![w] = Nothing]
  /\ copy' = [copy EXCEPT ![w] = AbsentRow]

(* Mutant: the run returns with relationships still to create.              *)
FinishEarly(w) ==
  /\ pc[w] = "write"
  /\ queue[w] = {}
  /\ finished' = finished \cup {window[w]}
  /\ Forget(w)
  /\ UNCHANGED <<store, jobs, crashes>>

(* The graph reaches END and run_ingestion returns its IngestionResult.     *)
Finish(w) ==
  /\ pc[w] = "write"
  /\ todo[w] = {}
  /\ queue[w] = {}
  /\ finished' = finished \cup {window[w]}
  /\ Forget(w)
  /\ UNCHANGED <<store, jobs, crashes>>

(* The job dies: an exception from the store, the job timeout, or the end   *)
(* of the process.  The checkpoints were in its memory (MemorySaver, one    *)
(* per run), so nothing is resumed; another job may ingest the same records.*)
Crash(w) ==
  /\ pc[w] # "idle"
  /\ crashes < MaxCrashes
  /\ crashes' = crashes + 1
  /\ Forget(w)
  /\ UNCHANGED <<store, jobs, finished>>

Step(w) ==
  \/ LookUp(w) \/ Compare(w) \/ Encrypt(w)
  \/ WriteEntities(w) \/ WriteEvent(w) \/ WriteClaim(w)
  \/ Link(w) \/ ReadClaim(w) \/ MarkSuperseded(w)
  \/ Finish(w)

Next == \E w \in Workers : Fetch(w) \/ Step(w) \/ Crash(w)

Spec == Init /\ [][Next]_vars

(* A worker that runs a job runs on: the graph is invoked synchronously.    *)
FairSpec == Spec /\ \A w \in Workers : WF_vars(Step(w))

-----------------------------------------------------------------------------
(* Properties.                                                              *)

(* The objects a worker holds are those of the claims of its window.        *)
ObjectsOK(w) ==
  \A p \in DOMAIN decided[w] :
    /\ p \in ClaimPositions(window[w])
    /\ decided[w][p] \in Object
    /\ decided[w][p].claim = ClaimAt(window[w], p)

(* The shape of every variable.                                             *)
TypeOK ==
  /\ claim \in [Claims -> Row]
  /\ event \in [Records -> {"absent", "plain", "bare", "sealed"}]
  /\ entity \in [Entities -> Records \cup {Nothing}]
  /\ links \subseteq Edges
  /\ pc \in [Workers -> {"idle", "resolve", "compare", "write", "event", "read", "mark"}]
  /\ window \in [Workers -> Windows \cup {<<>>}]
  /\ queue \in [Workers -> SUBSET (Nat \X Nat)]
  /\ sealed \in [Workers -> SUBSET Records]
  /\ todo \in [Workers -> SUBSET Edges]
  /\ target \in [Workers -> Claims \cup {Nothing}]
  /\ copy \in [Workers -> Row]
  /\ DOMAIN decided = Workers
  /\ \A w \in Workers : ObjectsOK(w)
  /\ jobs \in 0..MaxJobs
  /\ crashes \in 0..MaxCrashes
  /\ finished \subseteq Windows

(* The graph only ever says that a claim supersedes one asserted strictly   *)
(* earlier on the same topic with another content, and that it contradicts  *)
(* one asserted at the same time (resolver.py, the three-way comparison),   *)
(* however jobs interleave and wherever they die.                           *)
SupersessionGoesBack ==
  \A l \in links :
    /\ l.rel = "SUPERSEDES" =>
         Rivals(l.from, l.to) /\ AssertedAt(l.to) < AssertedAt(l.from)
    /\ l.rel = "CONTRADICTS" =>
         Rivals(l.from, l.to) /\ AssertedAt(l.from) = AssertedAt(l.to)

(* A stored claim has a source: the event it is derived from.               *)
ClaimHasItsEvent == \A c \in Claims : Present(c) => event[RecordOf[c]] # "absent"

(* The part of it that holds: no interleaving and no crash stores a claim   *)
(* before its event (write handles the event of a candidate first), unless  *)
(* the record is sensitive and its body was not sealed.                     *)
PlainClaimHasItsEvent ==
  \A c \in Claims :
    (Present(c) /\ RecordOf[c] \notin Sensitive) => event[RecordOf[c]] # "absent"

(* The store holds the one reference to a sealed body, and upsert replaces  *)
(* an event whole.  No later run over the same record takes it away, one    *)
(* whose own seal fails (an expired session, an unreachable gateway) and    *)
(* whose event is bare included.                                            *)
SealedBodiesStay ==
  [][\A r \in Records : event[r] = "sealed" => event'[r] = "sealed"]_vars

(* Neo4jStore.link creates nothing, silently, when an endpoint is missing.  *)
(* No relationship of a claim is lost that way, except the citation of an   *)
(* event that was skipped: subjects, parties and every claim it supersedes  *)
(* or contradicts are stored when the link is attempted.                    *)
NoClaimLinkIsLost ==
  \A w \in Workers : \A l \in todo[w] :
    (l.from \in Claims /\ l.rel # "CITES") => Stored(l.from) /\ Stored(l.to)

(* A claim is marked superseded only because of a later claim of the same   *)
(* topic that is stored, or that a running job still has to write; a job    *)
(* that died may have left the mark without the claim.                      *)
SupersededForAReason ==
  crashes = 0 => \A c \in Claims : claim[c].status = "superseded" =>
    \E d \in Claims :
      /\ Rivals(c, d) /\ Older(c, d)
      /\ \/ Present(d)
         \/ \E w \in Workers : \E p \in DOMAIN decided[w] :
              decided[w][p].claim = d /\ p \in queue[w]

(* "Nothing is ever overwritten" (resolver.py:6): of a stored claim only    *)
(* the status may change, and only from active to superseded.               *)
StoredClaimsOnlyRetire ==
  [][\A c \in Claims : Present(c) =>
       \/ claim'[c] = claim[c]
       \/ /\ claim[c].status = "active"
          /\ claim'[c] = [claim[c] EXCEPT !.status = "superseded"]]_vars

Quiet == \A w \in Workers : pc[w] = "idle"

ShareSubject(c, d) == About[c] \cap About[d] # {}

(* When no job runs, the record gives one answer: two active claims about   *)
(* the same subject and topic do not differ in content.                     *)
OneActiveAnswer ==
  Quiet => \A c, d \in Claims :
    (Rivals(c, d) /\ ShareSubject(c, d)) =>
      ~(claim[c].status = "active" /\ claim[d].status = "active")

(* A stored claim with every relationship its payload calls for, and every  *)
(* claim it supersedes marked.                                              *)
Settled(c) ==
  /\ Present(c)
  /\ ClaimLinks([claim |-> c, supersedes |-> claim[c].supersedes,
                contradicts |-> claim[c].contradicts]) \subseteq links
  /\ \A d \in claim[c].supersedes : claim[d].status # "active"

(* What a finished run returned as ingested is whole in the graph, the      *)
(* claims it dropped as duplicates included.  Holds when no job died and    *)
(* every body was sealed; otherwise a later run does not repair it.         *)
FinishedRunsAreWhole ==
  \A win \in finished : \A p \in ClaimPositions(win) : Settled(ClaimAt(win, p))

(* The store is a timeline: the abstract specification with the status      *)
(* column and the relationships for its variables.                          *)
LinkedPairs(rel) ==
  {<<l.from, l.to>> : l \in {m \in links : m.rel = rel}}

Record == INSTANCE Timeline WITH
  Time <- [c \in Claims |-> AssertedAt(c)],
  status <- [c \in Claims |-> claim[c].status],
  successions <- LinkedPairs("SUPERSEDES"),
  conflicts <- LinkedPairs("CONTRADICTS")

ImplementsTimeline == Record!Spec

(* Once the graph says that a claim is superseded, its status follows and   *)
(* never comes back.                                                        *)
LinkedIsRetired ==
  \A c, d \in Claims :
    Edge(c, "SUPERSEDES", d) \in links ~> [](claim[d].status = "superseded")
=============================================================================
