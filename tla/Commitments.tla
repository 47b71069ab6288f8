----------------------------- MODULE Commitments -----------------------------
(***************************************************************************)
(* The lifecycle axis of a commitment beside the epistemic one             *)
(* (storage/neo4j_store.py): the fulfillment is part of the payload, both  *)
(* axes are promoted to columns that open_commitments selects on, and both *)
(* are changed by reading the payload and writing all of it back:          *)
(* set_claim_status by a worker, set_fulfillment by whoever learns that a  *)
(* promise was kept.  That caller is outside the code; one at a time.      *)
(***************************************************************************)
EXTENDS Ingestion

CONSTANT MaxSettled  \* bound: calls of set_fulfillment

VARIABLES
  life,     \* payload: claim -> its fulfillment, or "none" without a facet
  column,   \* promoted properties: claim -> status and fulfillment
  carried,  \* worker -> the fulfillment in the payload it has read
  settler,  \* the payload set_fulfillment has read and changed, or NoCall
  settles,  \* calls of set_fulfillment so far
  asked,    \* history: claim -> the fulfillment it was last given
  stale     \* history: claims written back over a change since the read

axes == <<life, column>>
settling == <<settler, settles>>
history == <<asked, stale>>
cvars == <<vars, axes, carried, settling, history>>

Fulfillment == {"open", "fulfilled", "dropped"}
NoCall == [claim |-> Nothing, row |-> AbsentRow, life |-> "none"]

(* An extractor can see a promise being made, not that it is kept.          *)
Extracted(c) == IF Owed[c] = {} THEN "none" ELSE "open"

Promoted(row, l) == [status |-> row.status, life |-> l]

CInit ==
  /\ Init
  /\ life = [c \in Claims |-> "none"]
  /\ column = [c \in Claims |-> Promoted(AbsentRow, "none")]
  /\ carried = [w \in Workers |-> "none"]
  /\ settler = NoCall
  /\ settles = 0
  /\ asked = [c \in Claims |-> "none"]
  /\ stale = {}

(* Mutant: the columns are not rewritten.                                   *)
StorePayloadOnly(c, l) ==
  /\ life' = [life EXCEPT ![c] = l]
  /\ UNCHANGED column

(* The end of every write of claim c: payload and columns in one statement. *)
StoreAxes(c, l) ==
  /\ life' = [life EXCEPT ![c] = l]
  /\ column' = [column EXCEPT ![c] = Promoted(claim'[c], l)]

(* upsert of a claim as it was extracted.                                   *)
Upsert(w) ==
  /\ WriteClaim(w)
  /\ LET c == decided[w][First(queue[w])].claim IN
       /\ StoreAxes(c, Extracted(c))
       /\ asked' = IF Present(c) THEN asked ELSE [asked EXCEPT ![c] = Extracted(c)]
  /\ UNCHANGED <<carried, settling, stale>>

(* set_claim_status, both halves.                                           *)
ReadPayload(w) ==
  /\ ReadClaim(w)
  /\ carried' = [carried EXCEPT ![w] = life[target[w]]]
  /\ UNCHANGED <<axes, settling, history>>

set_claim_status(w) ==
  /\ MarkSuperseded(w)
  /\ StoreAxes(target[w], carried[w])
  /\ stale' = IF <<claim[target[w]], life[target[w]]>> = <<copy[w], carried[w]>>
              THEN stale ELSE stale \cup {target[w]}
  /\ carried' = [carried EXCEPT ![w] = "none"]
  /\ UNCHANGED <<settling, asked>>

(* set_fulfillment, first half.  Nothing is called off by a claim that is   *)
(* not there; one without a facet raises, and nothing is written.           *)
Settle(c, state) ==
  /\ settler = NoCall
  /\ settles < MaxSettled
  /\ settles' = settles + 1
  /\ settler' = IF Present(c) /\ life[c] # "none"
                THEN [claim |-> c, row |-> claim[c], life |-> state] ELSE NoCall
  /\ UNCHANGED <<vars, axes, carried, history>>

(* Mutant: the payload is built anew, with an active status.                *)
SettleAfresh ==
  /\ settler # NoCall
  /\ LET c == settler.claim IN
       /\ claim' = [claim EXCEPT ![c] = [settler.row EXCEPT !.status = "active"]]
       /\ StoreAxes(c, settler.life)
       /\ asked' = [asked EXCEPT ![c] = settler.life]
       /\ stale' = IF claim[c] = settler.row THEN stale ELSE stale \cup {c}
  /\ settler' = NoCall
  /\ UNCHANGED <<event, entity, links, pc, memory, queue, todo, target, copy,
                 jobs, crashes, finished, carried, settles>>

(* set_fulfillment, second half.                                            *)
set_fulfillment ==
  /\ settler # NoCall
  /\ LET c == settler.claim IN
       /\ claim' = [claim EXCEPT ![c] = settler.row]
       /\ StoreAxes(c, settler.life)
       /\ asked' = [asked EXCEPT ![c] = settler.life]
       /\ stale' = IF claim[c] = settler.row THEN stale ELSE stale \cup {c}
  /\ settler' = NoCall
  /\ UNCHANGED <<event, entity, links, pc, memory, queue, todo, target, copy,
                 jobs, crashes, finished, carried, settles>>

(* The steps of a job that write no claim.                                  *)
OtherStep(w) ==
  /\ \/ Fetch(w) \/ LookUp(w) \/ Compare(w) \/ Encrypt(w)
     \/ WriteEntities(w) \/ WriteEvent(w) \/ Link(w) \/ Finish(w)
  /\ UNCHANGED <<axes, carried, settling, history>>

Die(w) ==
  /\ Crash(w)
  /\ carried' = [carried EXCEPT ![w] = "none"]
  /\ UNCHANGED <<axes, settling, history>>

CNext ==
  \/ \E w \in Workers : OtherStep(w) \/ Upsert(w) \/ ReadPayload(w) \/ set_claim_status(w) \/ Die(w)
  \/ \E c \in Claims, state \in Fulfillment : Settle(c, state)
  \/ set_fulfillment

CSpec == CInit /\ [][CNext]_cvars

(* open_commitments: selected on the columns alone.                         *)
OpenCommitments(includeSuperseded) ==
  {c \in Claims : /\ column[c].life = "open"
                  /\ includeSuperseded \/ column[c].status = "active"}

-----------------------------------------------------------------------------
(* Properties.                                                              *)

(* "The blob and the indexed columns can never disagree"                    *)
(* (neo4j_store.py:172), whatever writes over whatever.                     *)
ColumnsFollowPayload ==
  \A c \in Claims : column[c] = Promoted(claim[c], life[c])

(* What was settled stays settled as it was asked: superseding a commitment *)
(* does not touch its fulfillment, and ingesting its record again does not  *)
(* reopen it, unless one payload was written over a change of the other.    *)
(* Holds of one worker: two that found a claim missing both write it.       *)
SettledStaysSettled == \A c \in Claims \ stale : life[c] = asked[c]

(* An obligation that was reassigned is not counted twice: with no job      *)
(* running, no two commitments open_commitments returns are rivals about    *)
(* one subject, unless a payload was written over a change of the other, or *)
(* a job died between the write of the new one and the mark on the old.     *)
NoObligationTwice ==
  (Quiet /\ stale = {} /\ crashes = 0) => \A c, d \in OpenCommitments(FALSE) :
    ~(Rivals(c, d) /\ ShareSubject(c, d))
=============================================================================
