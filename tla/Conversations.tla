----------------------------- MODULE Conversations -----------------------------
(***************************************************************************)
(* ChatGPT conversations as a source (connectors/chatgpt.py): trees that   *)
(* grow at the provider, exports of them dropped into the owner's places,  *)
(* the records fetch makes of an export, and the chunks of a transcript.   *)
(*                                                                         *)
(* The provider and the person are outside the code: a message replies to  *)
(* any message of its conversation.  A regenerated answer or an edited     *)
(* question forks the tree, and the person may go back to any branch and   *)
(* go on from there.  An export is a snapshot of every tree.  The caller   *)
(* of fetch is outside too: nothing in the code keeps a since_ms, so it is *)
(* any time at all.  One owner.                                            *)
(***************************************************************************)
EXTENDS Chunking, FiniteSetsExt, SequencesExt

CONSTANTS
  Talks,   \* conversation ids
  Kinds,   \* messages, as far as they matter: role and paragraphs
  Stamps,  \* conversation -> which of its times the export gives
  Places,  \* where an export may sit, in the order they are tried
  MaxSaid, \* bound: messages said
  MaxDrops \* bound: exports dropped

ASSUME ConversationAssumption ==
  /\ Stamps \in [Talks -> SUBSET {"create", "update", "message"}]
  /\ \A t \in Talks : Stamps[t] \cap {"update", "message"} # {}
  /\ \A k \in Kinds :
       /\ k.role \in {"user", "assistant", "unseen"}
       /\ k.paragraphs \in Seq([raw : Nat \ {0}, net : Nat \ {0}, opens : BOOLEAN])
       /\ k.paragraphs # <<>> => k.paragraphs[1].opens
  /\ Places \in Seq(ToSet(Places))
  /\ MaxSaid \in Nat /\ MaxDrops \in Nat

VARIABLES
  clock,   \* the provider's time
  thread,  \* conversation -> its nodes in the order they were said
  newest,  \* history: conversation -> the end of the branch forked off last
  export,  \* place -> the snapshot there: how much of each conversation
  drops,   \* exports dropped so far
  memory,  \* conversation -> its record as ingested last
  read,    \* history: the most recent snapshot that was fetched
  given,   \* history: the last activity of a record given to the caller
  inOrder  \* history: whether the caller has asked for all that is news

talking == <<clock, thread, newest>>
memo == <<memory, read, given, inOrder>>
vars == <<talking, export, drops, memo, chunker>>

NoRecord == [occurred |-> 0, activity |-> 0, turns |-> <<>>]
NoExport == [t \in Talks |-> 0]

-----------------------------------------------------------------------------
(* Trees.  Node 0 is the root, which carries no message.                    *)

Children(nodes, i) == {j \in DOMAIN nodes : nodes[j].parent = i}

(* Mutant: the first child is followed.                                     *)
WalkFirst(nodes) ==
  LET down[i \in 0..Len(nodes)] ==
        IF Children(nodes, i) = {} THEN <<>>
        ELSE LET j == Min(Children(nodes, i)) IN <<j>> \o down[j]
  IN  down[0]

(* "The surviving branch": the last child at every fork.                    *)
walk_linear(nodes) ==
  LET down[i \in 0..Len(nodes)] ==
        IF Children(nodes, i) = {} THEN <<>>
        ELSE LET j == Max(Children(nodes, i)) IN <<j>> \o down[j]
  IN  down[0]

(* The branch that ends at a node: the node and everything it replies to.   *)
Branch(nodes, leaf) ==
  LET up[i \in 0..Len(nodes)] ==
        IF i = 0 THEN <<>> ELSE Append(up[nodes[i].parent], i)
  IN  up[leaf]

Turns(nodes) ==
  LET walk == walk_linear(nodes)
      kept[i \in 0..Len(walk)] ==
        IF i = 0 THEN <<>>
        ELSE IF nodes[walk[i]].kind.role = "unseen" THEN kept[i - 1]
        ELSE Append(kept[i - 1], walk[i])
  IN  kept[Len(walk)]

(* The record of a conversation as far as it had got.  It is dated at its   *)
(* start; its last activity is what is filtered on.                         *)
conversation_to_record(t, nodes) ==
  LET turns == Turns(nodes)
      times == IF "message" \in Stamps[t] THEN {nodes[i].at : i \in ToSet(turns)} ELSE {}
      update == IF "update" \in Stamps[t] THEN {nodes[Len(nodes)].at} ELSE {}
      created == IF "create" \in Stamps[t] THEN nodes[1].at
                 ELSE IF times # {} THEN Min(times) ELSE Min(update)
  IN  IF turns = <<>> THEN NoRecord
      ELSE [occurred |-> created, activity |-> Max({created} \cup update \cup times),
            turns |-> [i \in DOMAIN turns |-> nodes[turns[i]].kind]]

RecordIn(snapshot, t) == conversation_to_record(t, SubSeq(thread[t], 1, snapshot[t]))

(* Mutant: the roles are not written.                                       *)
RenderWithoutRoles(turns) ==
  LET paragraphs == FlattenSeq([i \in DOMAIN turns |-> turns[i].paragraphs])
      n == Len(paragraphs)
      raw[i \in 0..n] == IF i = 0 THEN 0 ELSE raw[i - 1] + paragraphs[i].raw + 2
      net[i \in 0..n] == IF i = 0 THEN 0 ELSE net[i - 1] + paragraphs[i].net + 2
  IN  [n |-> n, raw |-> raw, net |-> net, starts |-> {}]

(* The text of a record: its paragraphs, each turn's first one with a role. *)
render_transcript(turns) ==
  LET paragraphs == FlattenSeq([i \in DOMAIN turns |-> turns[i].paragraphs])
      n == Len(paragraphs)
      raw[i \in 0..n] == IF i = 0 THEN 0 ELSE raw[i - 1] + paragraphs[i].raw + 2
      net[i \in 0..n] == IF i = 0 THEN 0 ELSE net[i - 1] + paragraphs[i].net + 2
  IN  [n |-> n, raw |-> raw, net |-> net,
       starts |-> {i \in 1..n : paragraphs[i].opens}]

-----------------------------------------------------------------------------
Init ==
  /\ clock = 0
  /\ thread = [t \in Talks |-> <<>>]
  /\ newest = [t \in Talks |-> 0]
  /\ export = [p \in ToSet(Places) |-> NoExport]
  /\ drops = 0
  /\ memory = [t \in Talks |-> NoRecord]
  /\ read = NoExport
  /\ given = 0
  /\ inOrder = TRUE
  /\ ChunkerInit

(* The chunker's variables are local to a call.                             *)
NoChunker ==
  /\ returned
  /\ text' = EmptyText /\ byTurns' = FALSE
  /\ next' = 1 /\ inner' = 0 /\ current' = NoRun /\ chunks' = <<>>
  /\ returned' = TRUE

(* A message that replies to any other.  Where it replies to one of the     *)
(* newest branch it goes on with that branch or forks a newer one off it;   *)
(* where it replies to one of an older branch, the person has gone back.    *)
(* A conversation without an update time shows that it changed by the times *)
(* of its turns alone.                                                      *)
Say(t, parent, kind) ==
  /\ NoChunker
  /\ clock < MaxSaid
  /\ kind.role = "unseen" => "update" \in Stamps[t]
  /\ clock' = clock + 1
  /\ thread' = [thread EXCEPT ![t] =
                  Append(@, [parent |-> parent, at |-> clock + 1, kind |-> kind])]
  /\ newest' = IF parent = 0 \/ parent \in ToSet(Branch(thread[t], newest[t]))
               THEN [newest EXCEPT ![t] = Len(thread[t]) + 1]
               ELSE newest
  /\ UNCHANGED <<export, drops, memo>>

(* The newest export is put at one of the places.                           *)
DropExport(p) ==
  /\ NoChunker
  /\ clock > 0 /\ drops < MaxDrops
  /\ drops' = drops + 1
  /\ export' = [export EXCEPT ![p] = [t \in Talks |-> Len(thread[t])]]
  /\ UNCHANGED <<talking, memo>>

(* The owner takes an export away, and one that was dropped before is found.*)
RemoveExport(p) ==
  /\ NoChunker
  /\ export[p] # NoExport
  /\ export' = [export EXCEPT ![p] = NoExport]
  /\ UNCHANGED <<talking, drops, memo>>

(* resolve_export_path: the first place that holds an export, if one does;  *)
(* of the zips in the owner's directory the last by name.                   *)
resolve_export_path ==
  LET found == {i \in DOMAIN Places : export[Places[i]] # NoExport}
  IN  IF found = {} THEN {} ELSE {Places[Min(found)]}

(* Mutant: filtered on the time the record occurred.                        *)
NewsByStart(record, since) ==
  {t \in Talks : record[t] # NoRecord /\ record[t].occurred >= since}

(* The conversations that are yielded, their records given.                 *)
parse_export(record, since) ==
  {t \in Talks : record[t] # NoRecord /\ record[t].activity >= since}

(* Whether what a fetch leaves in memory lacks nothing: it starts over, or  *)
(* leaves no gap after what was given before; and where it goes back before *)
(* that, the export is no older than those that were read.                  *)
AsksForTheNews(snapshot, since) ==
  LET later == \A t \in Talks : read[t] <= snapshot[t]
  IN  \/ since = 0 /\ later
      \/ inOrder /\ since <= given /\ later
      \/ inOrder /\ since = given

(* fetch, and the ingestion of what it yields, under any since_ms: the API  *)
(* takes the caller's, or 0.                                                *)
Fetch ==
  /\ NoChunker
  /\ \E p \in resolve_export_path :
       \E record \in {[t \in Talks |-> RecordIn(export[p], t)]}, since \in 0..clock :
         LET yielded == parse_export(record, since)
         IN  /\ memory' = [t \in Talks |-> IF t \in yielded THEN record[t] ELSE memory[t]]
             /\ read' = [t \in Talks |-> Max({read[t], export[p][t]})]
             /\ given' = Max({given} \cup {record[t].activity : t \in yielded})
             /\ inOrder' = AsksForTheNews(export[p], since)
  /\ UNCHANGED <<talking, export, drops>>

(* chunk_for_source: by turns, or by the default when the source is not     *)
(* registered.  Looked at once everything is said and fetched and the       *)
(* exports are taken away, which leaves out no transcript.                  *)
Split(t, registered) ==
  /\ clock = MaxSaid /\ \A u \in Talks : read[u] = Len(thread[u])
  /\ \A p \in ToSet(Places) : export[p] = NoExport
  /\ memory[t] # NoRecord
  /\ Chunk(render_transcript(memory[t].turns), registered)
  /\ UNCHANGED <<talking, export, drops, memo>>

SplitStep == ChunkerStep /\ UNCHANGED <<talking, export, drops, memo>>

Next ==
  \/ \E t \in Talks, k \in Kinds : \E parent \in 0..Len(thread[t]) : Say(t, parent, k)
  \/ \E p \in ToSet(Places) : DropExport(p) \/ RemoveExport(p)
  \/ Fetch
  \/ \E t \in Talks, registered \in BOOLEAN : Split(t, registered)
  \/ SplitStep

Spec == Init /\ [][Next]_vars

-----------------------------------------------------------------------------
(* Properties.                                                              *)

(* The shape of the variables; what a chunker is given is a text.           *)
TypeOK ==
  /\ clock \in Nat
  /\ \A t \in Talks : \A i \in DOMAIN thread[t] :
       thread[t][i].parent \in 0..(i - 1) /\ thread[t][i].at \in 1..clock
  /\ \A t \in Talks : newest[t] \in 0..Len(thread[t]) /\ read[t] \in 0..Len(thread[t])
  /\ \A p \in ToSet(Places) : \A t \in Talks : export[p][t] \in 0..Len(thread[t])
  /\ given \in 0..clock /\ inOrder \in BOOLEAN
  /\ IsText(text)

(* "The last child at each branch point is the most recent regeneration"    *)
(* (chatgpt.py:143): however often a conversation forks, at whichever       *)
(* depths, and wherever the person goes back to in between, the walk down   *)
(* is the branch that was forked off last and what was said on it since.    *)
(* It is the branch "the person actually kept" unless they went back: what  *)
(* is said in reply to an older branch is in no transcript.                 *)
TranscriptIsNewest ==
  \A t \in Talks : walk_linear(thread[t]) = Branch(thread[t], newest[t])

(* Fetching only what is new is enough: as long as the caller starts over   *)
(* or leaves no gap, the record of every conversation is that of the most   *)
(* recent export fetched, also after an older export was fetched from a     *)
(* place that is tried before ("a months-old thread the person added a      *)
(* message to yesterday is new information").  A conversation whose newest  *)
(* branch has no turn yields no record.                                     *)
NewsIsFetched ==
  inOrder => \A t \in Talks : RecordIn(read, t) \in {memory[t], NoRecord}
=============================================================================
