# A TLA+ model of memapp

memapp keeps an owner's *memory record*: it ingests what connected sources
return, extracts claims from it, resolves them against what is already known,
and answers agents only within the scope an owner granted them.  This directory
holds TLA+ modules of the parts of it whose correctness depends on the order of
events, the TLC configurations that check them on small instances, and
theorems that the TLAPS proof system checks for every value of the constants.
Paths below are relative to the repository (`src/`).

## 1. The system

Three processes and three stores.  An *orchestrator* (Python: HTTP API, MCP
server, queue workers), a *gateway* (Rust, axum), an *enclave* service (Rust).
Neo4j holds the record, Postgres the sealed refresh tokens, Redis the queue.

| component | state it keeps | operations | correct when |
|---|---|---|---|
| Ingestion graph `orchestrator/.../graphs/ingestion.py` | one `IngestionState` per run, in the memory of its worker (`MemorySaver`) | fetch, extract, resolve, encrypt, write | what it returned as ingested is whole in the store; a sealed body is never lost again; it ends |
| Resolver `.../resolution/resolver.py` | nothing; mutates the claims of its batch | `resolve_batch` | claims supersede strictly older rivals only; nothing is overwritten; history is kept |
| Graph store `.../storage/neo4j_store.py` | nodes with a JSON payload and a few columns, relationships | `upsert`, `link`, `get`, `claims_about`, `set_claim_status`, `set_fulfillment`, `replace_payload`, the read queries | columns and payload agree; relationships join stored nodes |
| Extractors `.../extraction/` | nothing | record -> entities, event, claims | deterministic ids; a claim's subjects and parties are among its record's entities and its ACL covers them |
| Queue and worker `.../jobs/` | RQ job states in Redis, with the owner's session token | enqueue, work, time out, status | every job ends; what a finished job reports is what the store has |
| Query graph, retrieval, permissions `.../graphs/query.py`, `.../retrieval/`, `.../permissions.py`, `shared/src/permissions.rs` | nothing | authorize, retrieve, check, assemble | an answer cites permitted objects only |
| History and neighbourhood `.../graphs/history.py`, `.../graphs/neighbourhood.py` | nothing | walks over SUPERSEDES, CITES, ABOUT | nothing withheld is named; a chain is in order |
| Connectors `.../connectors/` | nothing (exports in a directory; `since_ms` is the caller's) | `fetch(since_ms)`, chunking | a caller that leaves no gap misses nothing new; the transcript is one whole branch, the one forked off last; chunks lose nothing |
| Consent flow of the gateway `gateway/src/routes/auth.rs`, `middleware/oauth_state.rs` | pending PKCE entries in memory; signed state tokens in browsers | authorize, callback, session | a flow is used once, until it expires |
| Sealed token store `gateway/src/store/` | a row per (owner, provider) | upsert, get | the row is the newest grant of its owner |
| Sessions and grants `gateway/src/middleware/{session,grant}.rs`, `routes/memory.rs` | nothing: signed tokens | issue, introspect, seal | a grant permits no longer and no more than its scope |
| Enclave `enclave/src/` | keys | exchange, verify, seal, attest | the owner id is that of the verified account |
| API, MCP server, gateway client, configuration | nothing of their own | one call of a graph each | |

**How they interact.** A worker calls the enclave's seal through the gateway
with the owner's session token, and Neo4j with one autocommit transaction per
store method.  Nothing serialises two workers of one owner.  The gateway calls
the enclave for every code exchange and verification (ten second client
timeout), then Postgres.  Queries take a grant token, introspect it at the
gateway, then read Neo4j while ingestion may be writing.

**What is hard here.** Workers interleave at every store call; a run reads the
store when it resolves and writes it much later, from objects in its memory; a
worker can die between any two transactions and nothing is resumed; records
arrive in any order of their times, several times; one body of a batch may fail
to be sealed; a session runs out while its job waits; two writers change two axes of
one payload; conversations fork, and exports hide one another; `link` is silent when an endpoint is missing; callbacks are
duplicated and overlap; clocks are read twice for one expiry; a restart forgets
half of each consent flow.  `PROJECT.json` lists each of these at the line where
it bites.

## 2. The modules

| module | what it is |
|---|---|
| `Timeline` | abstract specification of the record: claims are asserted, succeeded, retired, and never taken back |
| `Ingestion` | the ingestion graph, the resolver and the store's write path, for several workers |
| `MCIngestion` | instances of it |
| `IngestionProofs` | theorems about `Ingestion` and their proofs |
| `History` | the graph reads (shift, context, neighbourhood) over the store of `Ingestion` while it is written |
| `MCHistory` | instances of it, over the records of `MCIngestion` |
| `HistoryProofs` | theorems about `History`, over what `IngestionProofs` says of the store |
| `Jobs` | the queue, its workers and the session a job carries, around `Ingestion` |
| `MCJobs` | an instance of it, over the records of `MCIngestion` |
| `JobsProofs` | that `Jobs` does to the store what `Ingestion` allows, and what a job's result says |
| `Commitments` | the fulfillment of a claim beside its status, over `Ingestion` |
| `MCCommitments` | an instance of it, over the mock connector's fixtures as `Extraction` reads them |
| `CommitmentsProofs` | that columns and payload agree, and what is settled stays so |
| `Extraction` | what both extractors make of a record, as operators, without state |
| `Conversations` | the ChatGPT connector: growing trees, exports, fetch under any `since_ms`, transcripts |
| `Chunking` | both chunkers, one turn or paragraph at a time; `Conversations` extends it |
| `MCConversations` | an instance of both |
| `ChunkingProofs` | theorems about `Chunking` and their proofs |
| `ConversationsProofs` | theorems about `Conversations`, over what `ChunkingProofs` says of the chunkers |
| `Permissions` | `evaluate` as operators, without state |
| `Query` | sessions, grants, the query graph, the clock, over `Permissions` |
| `MCQuery` | an instance of it |
| `QueryProofs` | theorems about `Query`, about `Permissions` for every scope, object and time, and with it about `Extraction` for every record |
| `OAuthConsent` | connecting a source: authorize, callback, exchange, token store, session |
| `MCOAuthConsent` | instances of it |
| `OAuthConsentProofs` | theorems about `OAuthConsent` and their proofs |

### Ingestion

Variables `claim`, `event`, `entity`, `links` are the store; the others are the
memory of the workers (`pc`, `window`, `queue`, `decided`, `sealed`, `todo`,
`target`, `copy`) and three counters and histories (`jobs`, `crashes`,
`finished`).  One action is one transaction of the store, or the purely local
work of a node:

| action | code |
|---|---|
| `Fetch` | `fetch` and `extract`: a window of records is read once; `ClaimsOf`, `Mentions`, `References` are the extractor |
| `LookUp` | `resolver.resolve`: `store.get(claim.id)`, a stored claim is dropped from the batch |
| `Compare` | `claims_about` and the loop over stored claims and the batch; the outcome is kept in `decided` |
| `Encrypt` | `encrypt`: the bodies are sealed one by one, at most `MaxUnsealed` fail |
| `WriteEntities`, `WriteEvent`, `WriteClaim` | `write`: `upsert` of entities, event, claim (MERGE, SET of the whole payload) |
| `Link` | `write`: `store.link`, in the order of the code, nothing if an endpoint is missing |
| `ReadClaim`, `MarkSuperseded` | the two transactions of `set_claim_status` through `_mutate_claim` |
| `Finish` | the graph reaches END, `run_ingestion` returns |
| `Crash` | the worker dies at any point: exception, job timeout, end of process |

Abstractions.  An event is absent, or it holds its body (`plain`), a sealed
one (`sealed`), or none (`bare`, what both extractors make of a sensitive record:
`ExtractedBody`).  A claim is an id with a topic, a content (its tokens and
obligation, compared for equality), subjects, parties, and the record it is
derived from; its time is its record's, as both extractors set it.  Claim ids
are derived from the record and the statement, so `RecordOf` is a function.
`Compare` reads the subjects' claims in one step: `claims_about` is one query.
The upserts of a record's entities are one step, because nothing reads an entity
between them; each is a MERGE of the same node.  `Outcomes` is nondeterministic
where the code depends on the order in which Neo4j returns rows.

### Jobs

`Jobs` puts the queue around `Ingestion`, whose actions it uses unchanged:
`job` is the list of jobs with what `ingest_status` shows of each, `holds` the
job a worker performs, `errors` the `errors` of its graph state (as the records
they name), `now` the gateway's clock.

| action | code |
|---|---|
| `enqueue_ingest` | `api.py`: a job with the session it was given, which is accepted before `until` |
| `ingest_source` | `tasks.py`, taken by a free worker, first in first out, up to the fetch |
| `SealWithSession` | `encrypt` with `gateway_client.py`: without a session in force every body fails, and each failure is an error |
| `WriteOrSkip`, `OtherStep` | the rest of the pipeline; a skipped event is an error |
| `ReturnResult` | `run_ingestion` returns, RQ keeps the result |
| `Fail`, `Vanish` | an exception or the 900 second timeout; a worker that is gone |
| `CleanUp` | RQ marks a started job nobody performs as failed (external) |

A rejected request (unknown or disabled source) puts nothing on the queue and has
no action.  All bodies of a job are sealed at one reading of the clock; that
some fail and others do not is in `Encrypt` already.

### Commitments

`life` is the fulfillment in a claim's payload and `column` the two promoted
properties `open_commitments` selects on.  `Upsert` and `set_claim_status` are
`WriteClaim`, `ReadClaim` and `MarkSuperseded` of `Ingestion` with these two;
`carried` is the fulfillment in the payload a worker has read and will write
back.  `Settle` and `set_fulfillment` are the two transactions of
`set_fulfillment`, whose caller is outside the code.  `asked` and `stale` are
histories: the fulfillment last asked for, and the claims of which one payload
was written over a change of the other.  The claims, topics, contents and
subjects of `MCCommitments` are computed by `Extraction` from the fixtures
mock-005 to mock-007.

### Extraction

A record is what the mock grammar finds in it, an answer what the model
returned.  `MockEntities`, `MockClaims`, `MockCitations` and `LlmEntities`,
`LlmClaims` follow `mock.py` and `llm.py`; ids are what they are derived from,
which abstracts the hash of `stable_id`.  `topic_of` and `content_of` are what
the resolver compares.  Matching text is not modelled.

### Conversations and Chunking

A conversation is the sequence of its nodes, each with its parent; the children
of a node in that order are `mapping[...]["children"]`.  A message may reply to any
other: one further up its branch forks the tree, one on an older branch is what
a person says who has gone back.  `newest`, a history, is the end of the branch
that was forked off last.

| action or operator | code |
|---|---|
| `Say`, `DropExport`, `RemoveExport` | the person, the provider and the owner's directory (external) |
| `walk_linear`, `Turns`, `conversation_to_record`, `render_transcript` | the functions of `chatgpt.py`; a node whose role, visibility or text keeps it out is `unseen` |
| `resolve_export_path`, `parse_export`, `Fetch` | `fetch`: the first place that holds an export, filtered by last activity |
| `Split` | `chunk_for_source`, with a registered or an unknown source |
| `PackTurn`, `OpenTurn`, `PackParagraph`, `CloseTurn`, `ReturnChunks` | `chunk_transcript` and `pack_paragraphs`, an iteration at a time |

A text is its paragraphs' lengths and where turns begin.  `raw` measures a
paragraph as it stands and `net` stripped, because the two loops measure
different things; a chunk is a range of paragraphs.

No code keeps a `since_ms`: the API takes the caller's, or 0 (`api.py:58`).  So
`Fetch` takes any time up to now (one past every activity yields nothing, as a
later one would), and three histories say what the caller did: `read`
(how much of each conversation was in the most recent export fetched), `given` (the
last activity of a record given to the caller) and `inOrder`, whether its requests
so far leave memory without a gap (`AsksForTheNews`): a request at 0 of an export that
is no older than those before mends everything; after that each asks for what is not
later than `given`, or for exactly `given` where an older export may be found.

### History

`History` extends `Ingestion` with one reader: `at` (where it is), `asked`, and
what it has read so far (`hop`, `nodes`, `edges`, `denied`).  Its next-state
relation is a step of the reader or a step of ingestion, so ingestion commits
between any two queries of a walk.

| action | code |
|---|---|
| `Ask` | `authorize` of the three graphs: the scope is resolved |
| `ShiftChain`, `ShiftConflicts`, `ShiftExtra` | the walk of `build_shift_graph`: `supersession_chain`, `conflict_links`, `get_many` |
| `CitesChain` (`ContextHops`, then `ContextEdges`), `ContextObjects` | the walk of `build_context_graph`: the two queries of `cites_chain`, `get_many` |
| `NeighbourhoodSeeds`, `-Hops`, `-Objects`, `-Edges` | the walk of `neighbourhood.py`: `get_many`, `neighbour_ids`, `get_many`, `edges_among` |
| `CheckPermissions` | one decision per object walked; here any of them may be denied |
| `Return` | the assembled answer is returned; `Steps`, `Chain`, `Reach`, `Visible` are what it says |

Paths in Cypher use a relationship once; for what the queries return (the ids
within a distance, their least distance, the relationships on a path) that is
the same as `Ball`, which grows a set by its neighbours.  One owner: that walks
stay with their owner is a condition of each query, not of the order of events.

### Permissions and Query

`Checks` lists the reasons for a refusal in the order of the code, and
`evaluate` gives the first that applies; `shared/src/permissions.rs` and
`orchestrator/.../permissions.py` are the same function.  An option that is not
there is `Unset`.

In `Query`, `sessions` and `grants` are the tokens ever minted (the gateway
itself keeps none); a grant is the token (`scope`, `exp`) with what it was minted
for (`request`, `deadline`), which only properties read.

| action | code |
|---|---|
| `OpenSession` | `issue_session_token`, after verification |
| `Grant` | `scope_grant`: session in force, the owner's own memory; `GrantToken` is `issue_grant_token`, with its sum and product modulo `Width`, as the release build that `scripts/deploy.sh` makes computes them |
| `Authorize` | `authorize`, `scope_introspect`: accepted up to `Leeway` seconds after `exp` |
| `Retrieve` | `retrieve_stored`: any of the owner's objects, at most `TopK` |
| `CheckPermissions`, `Return` | `check_permissions` and `assemble`, `run_query` |
| `Write` | `upsert` of an object with other access control facts |
| `Tick` | the clock, one unit at a time, `Second` units to a second |

A refused call changes nothing and has no action.  The candidate in memory is
the payload that will be shown, so its facts are those it was retrieved with.

### OAuthConsent

A flow is one `/auth/authorize`.  `Issue` and `Insert` are the two halves of its
handler, which reads the clock twice; `Callback`, `Exchange`, `Upsert`, `Answer`
are a callback handler cut at its awaits, so two handlers interleave there and
nowhere else; `Abandon` is a handler dropped at an await, `Restart` the loss of
`AppState`, `Login` is `/auth/session`.  `Consent` and `Redeem` stand for the
provider (a user may consent several times on one page, a code is redeemed
once); they are marked external in `PROJECT.json`.  A signed token cannot be
made up, so a state token is the record of what was signed; rows are those of
`PostgresTokenStore`, which survive a restart.

## 3. The runs

The instances: three records about one project, one claim each, all three
claims rivals; the second is a commitment of a person, the third is sensitive
and cites the first.  Times are in order (`InOrder`) or the last two coincide
(`LastTwoTogether`, the contradiction branch).  Windows are the prefixes of a
growing source or any subsequence (`AnyWindow`), so that records also arrive
late.  Three claims are the least number with which a claim can have both a
stored and an in-batch rival, and be itself superseded by a third.

| run | bounds | what it shows |
|---|---|---|
| `restarts` | 1 worker, 3 jobs, 2 crashes, 1 unsealed | With one worker a stored claim only ever goes from active to superseded, and the store implements `Timeline`, wherever jobs die and in whatever order they run again. |
| `two_workers` | 2 workers, 2 jobs, 1 crash, 1 unsealed | What survives every interleaving: supersession goes back in time, a sealed body is never lost to a later run, no claim link lost for a missing endpoint, claims of ordinary records have their event, nothing is superseded without a reason. |
| `reliable` | 1 worker, 3 jobs, fair | Without faults: one active answer per subject and topic, finished runs are whole, and every recorded supersession reaches the status and stays. |
| `history` | 1 worker, 2 jobs of any windows, 3 claims, `MaxHops` 2, seven requests | A shift's steps join its whole chain, an object of a context is joined to one a hop nearer in the same answer, a neighbourhood withholds only what was denied, any claim of a run gives the run; all while ingestion writes between the queries. |
| `query` | 2 owners, 2 sessions, 2 grants of 3 requests, ttl 1 or wrapping, 2 objects, 4 seconds of 2 units, leeway 1, width 16 | An answer cites what was requested, by the facts of the payload shown, and nothing after the deadline; a token lasts until its owner was told; a denial has a cause. |
| `conversations` | 2 conversations (one stamped with its times, one not), 4 messages of 3 kinds, 2 exports at 2 places, budget 10 | However conversations fork and whatever the person goes back to, the transcript is the branch forked off last; a caller of `fetch` that leaves no gap has the newest record of each; chunks lose and repeat nothing, keep to the budget and to turns, and are not split without need. |
| `commitments` | 3 fixtures, 5 windows, 1 worker, 2 jobs, 1 crash, 2 calls of `set_fulfillment` | Columns follow the payload; what was settled stays settled through retirement and ingestion again; a reassigned obligation is not returned twice. |
| `jobs` | 1 worker, 2 jobs, 2 crashes, clock 0..1, sessions that run out at 0, 1 or 2, fair | A finished job's result names every event that is missing; every job ends, also one whose worker is gone. |
| `consent` | 2 flows, 2 handlers, 3 accounts of 2 users at 2 providers, TTL 1, 3 seconds, 1 restart, 1 login | One exchange per flow; a flow is open exactly until the time its caller was told; rows hold their own owner's tokens; a session implies a stored token. |

Two jobs are enough for two workers because a conflict is between two runs; the
third job in the other runs is the repair (or not) of what the first two left.
In `history` a run of three claims is as long as `MaxHops` reaches from either
end (see below for longer ones), two jobs give a reader something written before
and something written during its walk, and depth 2 is the least with an object
in between.  In `query` a ttl of 15 makes the sum and the product wrap on a width
of 16, ttl 1 does not; four seconds cover before, at and after the expiry and the
leeway of a grant, one request has an expiry of its own that is neither first nor
last, and the object written again becomes more sensitive and of another source.

In `conversations` four messages allow a fork at the root and one below a fork,
or a continuation after one, or a fork and a return to the older branch, gone on
with or forked again; two exports at two places allow the older to be
found before and after the newer, each under any `since_ms` from 0 to now.  Its budget of ten characters lets two short
turns just fit with their join, has a turn over budget, a paragraph over budget
by itself, and two paragraphs that miss it by one; a blank before a line break
makes `raw` and `net` differ.  Chunks are looked at once all is said and
fetched, which leaves out no transcript.  In `commitments` the second fixture reassigns
the obligation of the first, the third is another one; two calls of
`set_fulfillment` allow one before and one during the retirement of a claim.
In `jobs` a session that ends at 0 is none, at 1 runs out while the job waits or
runs, at 2 lasts; two jobs with two crashes leave one or both without an end of
their own, and the second job meets what the first left.

TTL 1 with three seconds covers before, at and after the expiry of each of two
flows started at different seconds.

**Runs that end in a counterexample.** Each refutes what a comment or document
of the repository says; `PROJECT.json` quotes the line.

| run | what happens |
|---|---|
| `overwrite` | Two workers resolve the same new record; the later `upsert` replaces the stored payload, against "Nothing is ever overwritten". |
| `restart_repairs` | A job dies after `upsert` of a claim; the next run drops that claim as a duplicate, so its links and retirements are never made and the run returns normally. |
| `unsealed_claims` | The event of an unsealed sensitive record is skipped, its claims are written. |

**Observed, not checked.**  *Ingestion.*  A claim that arrives after the claims that
replace it is stored superseded (`resolver.py:125`) and no SUPERSEDES
relationship leads to it, while `resolver.py:6-8` says the link is kept.  A
candidate's own batch is compared by topic only
(`resolver.py:102`), not by subject; an entity's ACL is that of its last upsert,
while `shared/src/permissions.rs` speaks of every source an object draws on; a
statement repeated in one record gives one claim id twice in a batch; a citation
of a skipped event is not made good by the run that seals it later.  The
statements and quotes of a sensitive record's claims are stored in the clear,
sealed body or not, as `README.md:512` says of all derived memory: what is checked
of sealing is that it is not undone and that what is missing is reported.  With a run
of claims longer than `max_hops` (24) `AnyOfTheRunWillDo` fails: a claim at one
end and one in the middle then get different chains (`MaxHops` 1 and three claims
show it), while `neo4j_store.py:333` says all of them "have to answer the same
question".  A claim that was born superseded has no steps, and a shift says of it
that it "has not been superseded or contradicted".  A step may name a claim that
is not in the chain of the same answer, when it was written between the two
queries.  `neighbour_ids` constrains the owner at the ends of a path,
`neighbourhood.py:102` says at every node; relationships join objects of one
owner, so it makes no difference.

*Gateway.*  Two overlapping callbacks of one account may store the earlier grant
last (`auth.rs:177`; `store/mod.rs:47` speaks of replacing "the prior grant").  A
user known by two accounts who connects the second gets a session for another
owner id than at login (`enclave/src/routes/oauth.rs:63` derives it from the one
account, `services/identity.rs:30` says they are the same).

*Commitments.*  The axes "move independently" (`README.md:413`) as long as the two
mutators do not overlap: each writes back the whole payload it read, so either
undoes the other.  Two workers that both found a claim missing both store it, and
the second reopens what was settled in between; that is why `SettledStaysSettled`
is stated for one worker.  A worker that dies between storing a reassignment and
the mark on the old claim leaves both in `open_commitments`, and no later run
repairs it.  Two promises of one record with the same statement and different
owers get one claim id.  `set_fulfillment`, `open_commitments`, `replace_payload`
and `chunk_for_source` are called by tests only so far.

*Conversations.*  "The version the person actually kept" (`chatgpt.py:143`) fails for
a person who switches back to an older branch and continues there: `walk_linear`
follows the last child, so what they say there is in no transcript and no record.
`TranscriptIsNewest` states what the walk does return, the branch forked off last.
A conversation whose newest branch has no turn yields no record, and memory
keeps the one it had.  With `since_ms` 0, the default of the API, an older export
at an earlier place takes records back; so can any time before the last activity
given, and a caller that asks since its last job misses what was said between
the export and the job.  That is why `NewsIsFetched` is about callers that leave
no gap.
An export without conversations hides those behind it too.  The claims of a
conversation that is continued are dated at its start, so they may arrive
superseded; without `create_time` that start moves when the first turn is edited.
A paragraph that begins with `user: ` is taken for a turn.

*Jobs.*  A job whose session ran out finishes, with errors, rather than fails.

**Fairness.** `FairSpec` asks weak fairness of a worker's steps only: a graph is
invoked synchronously and no step waits for another worker, so a run that is not
killed goes on.  Nothing is assumed of `Fetch` (nobody has to start a job) nor
of `Crash`.  `JFairSpec` asks it of a worker's whole work, taking the next job
included (`Worker.work` loops until it is stopped), and of RQ's clean-up, which
is external; `MaxCrashes` bounds how often a worker dies, without which nothing
need ever finish, though each job would still end as failed.  Nothing is assumed
of the clock or of callers.  `OAuthConsent` states no liveness: nothing in the code bounds the
wait for Postgres, and a user need not come back.  `History` and
`Query` state none either: a caller asks or does not.  Deadlock is not checked where
jobs or flows are bounded: a system in which nobody starts one stops.

## 4. The proofs

`IngestionProofs` proves, for any workers, records, claims, windows, extraction
and times that satisfy `DataAssumption` and `BoundAssumption`, three groups of
theorems, each from an invariant of its own.

*Any number of workers* (`IInv`): `TypeCorrect`, `SupersessionAlwaysGoesBack`,
`SealedBodiesAlwaysStay`.  The second is not inductive: a relationship is
created from `todo`, which comes from an object in `decided` made long before;
`IInv` therefore also says that every SUPERSEDES or CONTRADICTS relationship a
worker still has to create is sound, that the lists in each object it holds name
rivals on the right side of its time (`SoundWorker`).  The comparison at `Compare`
establishes it once, and no other action can disturb it, whatever other workers did
to the store in between: that is the argument.  `SealedBodiesAlwaysStay` is an action
property: an upsert writes whatever the worker's object holds, so a stored sealed body
is safe only because no worker writes an event of that record without one.
`BodiesInOrder` says which records can be sealed at all, and from it that a sealed
event belongs to a record that is written sealed or skipped.

*Any number of workers, the order of the writes* (`WInv`): `ClaimLinksAlwaysLand`,
`PlainClaimsAlwaysHaveTheirEvent`, `SupersededAlwaysForAReason`, and
`NothingStoredIsRemoved`, the action property they lean on.  `HandlesInOrder` says
which part of its window a worker has behind it: a claim is still to be handled,
or held as an object, or in the store, and a record with no position left in the
queue is written with its entities.  `Grounded` says that an object supersedes or
contradicts only claims that are stored or come before it in the batch, and that a
relationship of a claim still to be made has both of its ends stored.  Positions
are handled in lexicographic order (`FirstIsLeast`), so a claim comes after its
record and after the batch claims it refers to; and the store only grows
(`StoreGrows`), so no other worker can take an end away.

*One worker* (`RInv`, `SInv`), under two hypotheses: `OneWorker`, and `NoClaimTwice`,
that a window has no claim twice.  `scripts/orchestrator_smoke.sh:41` starts one
worker; with two the theorems are false, as run `overwrite` shows.  A record that
states one thing twice would make a claim id twice (see "Observed, not checked").

- `OneWorkerOnlyRetires` and `OneWorkerKeepsATimeline`, the refinement of
  `Timeline`, wherever jobs die.  `RInv` says that what a worker has still to write
  is not in the store (`Unstored`: LookUp found it missing, and nobody else writes),
  that what it marks is as it was read, and that a claim an object supersedes can be
  retired (`Demoted`: stored and not contradicted, or superseded in the batch).
- `OneWorkerGivesOneAnswer` and `OneWorkerLeavesRunsWhole`, of behaviours in which no
  job has died (and, for the second, no body failed to be sealed: `MaxUnsealed = 0`).
  These are the conditions run `reliable` has, and `restart_repairs` and
  `unsealed_claims` show they are needed.  `SInv` says that each relationship a
  stored payload calls for is made or still in `todo`, each claim it lists is marked
  or about to be, and of two active rivals about one subject one is still to be
  superseded by the other; `StaysSettled` keeps a finished window whole through
  later jobs.

`QueryProofs` proves about `evaluate`, for every scope, object and time:
`DenyByDefault`, `NarrowerSeesLess`, `TimeOnlyTakesAway` and `NoPartLeaks`.  They
rest on `PermitsWhenAllowed`: the CHOOSE of the first reason gives "allow" exactly
when no check fails, which is where the order of the checks drops out.

It proves each property of run `query` from `GrantAssumption` and
`UnsetAssumption`, for any numbers: `TypeCorrect`, `TokensOutlastTheirScopes`,
`GrantsEndInTime`, `AnswersStayWithinGrants`, `DenialsHaveACause`.  None of the
properties is inductive.  `UsableUntilTold` speaks
of the clock, so the invariant relates the two expiries of a token without it:
`Limits` says that the scope's is at most `exp * Second`, the unwrapped deadline
and the requested expiry, and equals one of the last two if nothing wraps.
`NewTokenSound` establishes this when a token is minted, from `x % Width <= x`:
a number that wraps becomes smaller, so an expiry may come early and never late.
`SoundAnswer` says that what a query permitted was permitted by its token at the
moment of the check on what it had retrieved.

`QueryProofs` also proves for every record and every answer of the model that the
subjects and parties of a claim are among the entities of its record
(`MockClaimsAreMentioned`, `LlmClaimsAreMentioned`), which is what makes the links of
a claim find both ends, and, with `Permissions`, that a scope permits a claim only
if it allows every kind the claim involves (`ScopeCoversTheInvolved`,
`PromisesNeedPersons`).  That the last of two entities of one name is chosen
needs a greatest position (`LastOfMany`, from the well-foundedness of `<`).

`ChunkingProofs` proves the four chunk properties for every text that satisfies
`TextAssumption`, every budget and both chunkers: `NothingEverLost`,
`TurnsAlwaysWhole`, `ChunksWithinBudget`, `NeverNeedlesslySplit`, as theorems
of `ChunkerSpec`, whose variables `Conversations` uses.  One
inductive invariant carries all four: `Chain` says of the runs so far, the one
being packed included, that each is good by itself (`GoodRun`) and that each two
neighbours would not have fitted or are kept apart by a turn over budget
(`Follows`); `Between` says what the two loops have in hand when they meet at the border
of a turn.  `Pack` either makes the last run longer (`ChainFront`, `LongerRun`) or
appends one, of which only the last pair is new (`ChainAppend`): `PackKeepsChain` and
`FlushKeepsChain` say so once for both loops, and one lemma per action uses them.

`ConversationsProofs` proves every property of run `conversations`, for any
conversations, messages, places and bounds that satisfy `ConversationAssumption`:
`ConversationsTypeCorrect`, `TranscriptAlwaysNewest`, `NewsAlwaysFetched` and
`TranscriptsAreChunked`, which carries the four chunk properties over to the
transcripts the chunkers are given.  None is inductive.

- The walk goes down by last children, a branch up by parents, and the two meet
  because of how a tree came about.  `Spoken` says that a reply comes after what it
  replies to; `Ends` is the end of the newest branch after each message: it moves to
  the message if that goes on with the branch or forks off it, and stays if the person
  had gone back.  Then each node of the newest branch is the last child of its parent,
  and its end has none (`NewestIsLatest`), whatever was said on older branches in
  between, so each step down follows it (`WalkIsNewest`).
- A snapshot is the state of all conversations at one time (`TakenAt`), so two are
  comparable (`LaterSnapshot`), and what was read is the later of two whole snapshots
  (`MostIsLater`) though it is kept conversation by conversation.  A record is dated by
  its `Mark`: the last message where an update time is exported, else the end of its
  newest branch (`ActivityIsLast`); that one of the two is exported is the condition on
  `Stamps`.  Two snapshots with the same mark give the same record, also where a reply
  to an older branch lies between them (`SameRecord`, `SameTurns`), and the mark only
  moves on (`MarkMovesOn`).  `MemoryInv` puts `given` between the records in memory and
  the time of what was read.  So what a fetch leaves out has not moved since it was read,
  and what an older export offers again under a `since_ms` of `given` is what memory has
  (`FetchIsEnough`).
- A transcript is a text (`TranscriptIsText`), so `Split` starts a chunker as
  `ChunkingProofs` requires, and the steps of a chunker are those of `Chunking`.

`CommitmentsProofs` proves `ColumnsAlwaysFollow` for any number of workers:
`StoredTogether` is the one fact, that every write of a payload writes its
columns from that payload; the rest is that no other step touches either.  For one
worker (`OneWorker`, `NoClaimTwice`) it proves `OneWorkerKeepsSettled` and
`OneWorkerCountsOnce`.  The steps of the pipeline are those of `Ingestion` but for
`Settle`, whose write changes no status and no list, so `IInv`, `WInv`, `RInv` and,
until a job dies, `SInv` carry over (`StepsOfThePipeline`, `PipelineHolds`); a
fulfillment can then be lost in two ways only, a second write of a claim, which
`Unstored` excludes, and a payload written over a change, which `stale` records
(`SettlerInv`, `HistoryInv`).

`JobsProofs` proves the refinement `JobsRunThePipeline`: `JSpec => Spec`.  Sealing
without a session is a way of failing to seal (`JobAssumption`), and every other
step of a job is a step of `Ingestion` or leaves it alone; so what is proved of
`Ingestion` holds of jobs, as `SupersessionGoesBack` does (`JobsSupersedeBackwards`).
`JobsTypeCorrect` relates workers and jobs: each busy
worker performs one started job that no other performs.  From that, the refinement
and `WInv`, `ResultsAlwaysNameWhatIsMissing`: at `ReturnResult` no position is left,
so every claim of the window is stored, and a record is stored or was skipped when
its worker noted an error; afterwards the store only grows.

`OAuthConsentProofs` proves the four invariants of run `consent` for any flows,
handlers, accounts, providers and times: `TypeCorrect`, `OneExchangeAlways`,
`OpenUntilToldAlways`, `RowsAlwaysHoldTheirOwn`.  The invariant relates what is spread
over four places.  `ClocksAgree`: at most one second ends
between the two readings of the clock in `authorize`, so the response promises at most
one second more than the state token lasts, and the token is valid through its last.  `PendingUntilTaken`: a
flow has its pending entry until it is taken, pruned or lost, and is pruned only
when it has run out.  `HandlersTakeTurns`: a handler that has still to
exchange its code is alone with its flow, whatever is delivered again.  `HandlersHoldTheirOwn` and
`CodesOfTheProvider`: what a handler holds between exchange, upsert and answer was
minted for its own flow.

`HistoryProofs` proves, for every graph, request, depth and interleaving with
ingestion by any number of workers: `ReadTypeCorrect`, `OnlyTheDeniedIsEverWithheld`,
`EveryHopAlwaysHasItsEdge`, and the refinement `ReadsArePauses` (`HSpec => Spec`).  What a
read holds is compared with a store that has moved on, so each invariant says what
of it stays true: everything a walk found is stored and stays stored
(`NeighbourhoodInv`); a distance has a relationship that explains it, which the
second query of `cites_chain` will return because it returns every relationship of
a smaller ball over more relationships (`ContextInv`, with `BallMonotone`,
`BallGrows` and `DistancesAreShortest`).  `StepsAlwaysJoinTheChain`, for one worker and
no claim twice in a window, rests on `Listings`: where a SUPERSEDES relationship is,
the payload it starts from is stored and lists its end.  With two workers the second
write of a claim may replace that list.  `AnyOfAShortRunWillDo` proves
`AnyOfTheRunWillDo` in the states in which no run is longer than `max_hops`
(`RunsAreShort`); each round of a traversal reaches something new or is the last
(`BallFills`), and two traversals that end are equal if they meet (`ClosedBallsAgree`).
`AnyOfFewClaimsWillDo` is the case of the run: as many claims in all as `max_hops` and
one.

**Induction over numbers.** `Ball` is a recursive function, and the library's
induction theorems cannot be instantiated.  `LeastNatural` (a set of naturals that is
not empty has a least one, from the well-foundedness of `<`) takes their place:
`UpTo` is induction as a statement about sets, `BallUnfolds` shows with it that a
function with the defining equation exists, and so that `Ball` satisfies it.  In
`ConversationsProofs` `RecursionDefines` says it once, for any function that is defined
by its value at an argument of lower rank: the walk down, the way up, the turns, the
paragraphs (`FlattenSeq`) and their lengths are unfolded with it, and `ByTheSmaller`
and `ByTheGreater` are induction up and down a range of numbers.

Only model-checked: liveness (`LinkedIsRetired`, `JobsEnd`), which is out of the
prover's reach.  `AnyOfTheRunWillDo` is proved where no run of claims is longer than
`max_hops`, and fails elsewhere, as said above.

## 5. What is not modelled, and the plan

Not modelled: ciphers, signatures and attestation (a token is the record of what
was signed), text (extraction rules, wording, embeddings and scores), HTTP
plumbing, configuration and migrations.

Nor the connectors for Google and GitHub, which are stubs that raise; the explorer's
pages and the health checks, which only read; `replace_payload` and
`wipe_owner` of the store, which no code under `orchestrator/src` calls.

Next: `wipe_owner` beside a running job; extraction that states a claim twice in one
record, as an instance of `Ingestion`; runs of claims longer than `max_hops` as an
instance of `History`.
