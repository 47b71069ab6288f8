--------------------------- MODULE CommitmentsProofs ---------------------------
(***************************************************************************)
(* The two axes of a commitment in its payload and in the columns that are *)
(* selected on.                                                            *)
(***************************************************************************)
EXTENDS Commitments, IngestionProofs

Rows == DOMAIN claim = Claims /\ DOMAIN life = Claims /\ DOMAIN column = Claims

AxesInv == Rows /\ ColumnsFollowPayload

(* Whatever payload is written for one claim, its columns are written from  *)
(* that payload.                                                            *)
LEMMA StoredTogether ==
  ASSUME AxesInv, NEW c, NEW row, NEW l,
         claim' = [claim EXCEPT ![c] = row], StoreAxes(c, l)
  PROVE  AxesInv'
<1>1. Rows'
  BY DEF AxesInv, Rows, StoreAxes
<1>2. ASSUME NEW d \in Claims
      PROVE  column'[d] = Promoted(claim'[d], life'[d])
  <2>1. CASE d = c
    BY <2>1 DEF AxesInv, Rows, StoreAxes
  <2>2. CASE d # c
    <3>1. /\ column'[d] = column[d] /\ claim'[d] = claim[d] /\ life'[d] = life[d]
      BY <2>2 DEF AxesInv, Rows, StoreAxes
    <3> QED  BY <3>1 DEF AxesInv, ColumnsFollowPayload
  <2> QED  BY <2>1, <2>2
<1>3. ColumnsFollowPayload'
  BY <1>2 DEF ColumnsFollowPayload
<1> QED  BY <1>1, <1>3 DEF AxesInv

LEMMA NothingStored ==
  ASSUME AxesInv, UNCHANGED <<claim, life, column>>
  PROVE  AxesInv'
BY DEF AxesInv, Rows, ColumnsFollowPayload

LEMMA AxesStep ==
  ASSUME AxesInv, [CNext]_cvars
  PROVE  AxesInv'
<1>1. ASSUME NEW w \in Workers, OtherStep(w)  PROVE AxesInv'
  <2>1. UNCHANGED <<claim, life, column>>
    BY <1>1 DEF OtherStep, axes, store, Fetch, LookUp, Compare, Encrypt,
                WriteEntities, WriteEvent, Link, Finish
  <2> QED  BY <2>1, NothingStored
<1>2. ASSUME NEW w \in Workers, Upsert(w)  PROVE AxesInv'
  <2> DEFINE o == decided[w][First(queue[w])]
  <2>1. claim' = [claim EXCEPT ![o.claim] = RowOf(o)] /\ StoreAxes(o.claim, Extracted(o.claim))
    BY <1>2 DEF Upsert, WriteClaim
  <2> QED  BY <2>1, StoredTogether
<1>3. ASSUME NEW w \in Workers, ReadPayload(w) \/ Die(w)  PROVE AxesInv'
  <2>1. UNCHANGED <<claim, life, column>>
    BY <1>3 DEF ReadPayload, ReadClaim, Die, Crash, axes, store
  <2> QED  BY <2>1, NothingStored
<1>4. ASSUME NEW w \in Workers, set_claim_status(w)  PROVE AxesInv'
  <2>1. /\ claim' = [claim EXCEPT ![target[w]] = [copy[w] EXCEPT !.status = "superseded"]]
        /\ StoreAxes(target[w], carried[w])
    BY <1>4 DEF set_claim_status, MarkSuperseded
  <2> QED  BY <2>1, StoredTogether
<1>5. ASSUME NEW c \in Claims, NEW state \in Fulfillment, Settle(c, state)  PROVE AxesInv'
  <2>1. UNCHANGED <<claim, life, column>>
    BY <1>5 DEF Settle, vars, axes
  <2> QED  BY <2>1, NothingStored
<1>6. CASE set_fulfillment
  <2>1. /\ claim' = [claim EXCEPT ![settler.claim] = settler.row]
        /\ StoreAxes(settler.claim, settler.life)
    BY <1>6 DEF set_fulfillment
  <2> QED  BY <2>1, StoredTogether
<1>7. CASE UNCHANGED cvars
  <2>1. UNCHANGED <<claim, life, column>>
    BY <1>7 DEF cvars, vars, axes
  <2> QED  BY <2>1, NothingStored
<1> QED  BY <1>1, <1>2, <1>3, <1>4, <1>5, <1>6, <1>7 DEF CNext

(* "The blob and the indexed columns can never disagree": whatever number   *)
(* of workers and settlers write over one another, what open_commitments    *)
(* selects on is what the payload says.                                     *)
THEOREM ColumnsAlwaysFollow == CSpec => []ColumnsFollowPayload
<1>1. CInit => AxesInv
  BY DEF CInit, Init, AxesInv, Rows, ColumnsFollowPayload
<1>2. AxesInv => ColumnsFollowPayload
  BY DEF AxesInv
<1> QED  BY <1>1, <1>2, AxesStep, PTL DEF CSpec

-----------------------------------------------------------------------------
(* The pipeline underneath: a call of set_fulfillment is the only step that *)
(* is not one of Ingestion, and it brings no claim into the store.          *)

(* What set_fulfillment has read is a claim that is there.                  *)
SettlerInv ==
  settler # NoCall =>
    /\ settler.claim \in Claims /\ Present(settler.claim)
    /\ settler.row \in Row /\ settler.row.status # "absent"

HistoryInv == DOMAIN life = Claims /\ DOMAIN asked = Claims

PipelineInv == IInv /\ WInv /\ SettlerInv /\ HistoryInv

LEMMA StepsOfThePipeline ==
  ASSUME [CNext]_cvars
  PROVE  [Next]_vars \/ set_fulfillment
<1>1. ASSUME NEW w \in Workers, OtherStep(w) \/ Upsert(w) \/ ReadPayload(w) \/ set_claim_status(w) \/ Die(w)
      PROVE  Next
  BY <1>1 DEF OtherStep, Upsert, ReadPayload, set_claim_status, Die, Next, Step
<1>2. ASSUME NEW c \in Claims, NEW state \in Fulfillment, Settle(c, state) PROVE UNCHANGED vars
  BY <1>2 DEF Settle
<1>. QED BY <1>1, <1>2 DEF CNext, cvars

(* set_fulfillment changes one row of a claim that is there.                *)
LEMMA SettlingKeepsRows ==
  ASSUME PipelineInv, set_fulfillment
  PROVE  /\ claim' \in [Claims -> Row] /\ \A c \in Claims : Present(c)' <=> Present(c)
         /\ stale' = {} => claim' = claim /\ stale = {}
         /\ UNCHANGED <<event, entity, links, pc, window, decided, sealed, queue, todo, target,
                        copy, jobs, crashes, finished>>
<1>. SUFFICES ASSUME NEW c, c = settler.claim, NEW row, row = settler.row
              PROVE  /\ claim' \in [Claims -> Row] /\ \A d \in Claims : Present(d)' <=> Present(d)
                     /\ stale' = {} => claim' = claim /\ stale = {}
                     /\ UNCHANGED <<event, entity, links, pc, window, decided, sealed, queue,
                                    todo, target, copy, jobs, crashes, finished>>
  OBVIOUS
<1>1. c \in Claims /\ Present(c) /\ row \in Row /\ row.status # "absent"
  BY DEF PipelineInv, SettlerInv, set_fulfillment
<1>2. /\ claim' = [claim EXCEPT ![c] = row] /\ claim \in [Claims -> Row]
      /\ stale' = IF claim[c] = row THEN stale ELSE stale \cup {c}
      /\ UNCHANGED <<event, entity, links, pc, window, decided, sealed, queue, todo, target,
                     copy, jobs, crashes, finished>>
  BY DEF set_fulfillment, memory, PipelineInv, IInv, TypeOK
<1>. QED BY <1>1, <1>2 DEF Present

LEMMA SettlingKeepsThePipeline ==
  ASSUME PipelineInv, set_fulfillment
  PROVE  /\ IInv' /\ WInv'
         /\ \A w \in Workers : Unstored(w) => Unstored(w)'
<1>1. /\ claim' \in [Claims -> Row] /\ \A c \in Claims : Present(c)' <=> Present(c)
      /\ UNCHANGED <<event, entity, links, pc, window, decided, sealed, queue, todo, target,
                     copy, jobs, crashes, finished>>
  BY SettlingKeepsRows
<1>2. IInv'
  <2>1. TypeOK'
    BY <1>1 DEF PipelineInv, IInv, TypeOK, ObjectsOK
  <2>2. \A w \in Workers : SoundWorker(w)'
    BY <1>1 DEF PipelineInv, IInv, SoundWorker
  <2>. QED BY <1>1, <2>1, <2>2 DEF PipelineInv, IInv
<1>3. /\ \A n : Stored(n)' <=> Stored(n)
      /\ \A w \in Workers : \A p \in ClaimPositions(window[w]) : ClaimAt(window[w], p) \in Claims
      /\ \A w \in Workers : \A p \in DOMAIN decided[w] :
           decided[w][p].claim \in Claims /\ decided[w][p].supersedes \cup decided[w][p].contradicts \subseteq Claims
  <2>1. \A n : Stored(n)' <=> Stored(n)
    BY <1>1 DEF Stored
  <2>2. \A w \in Workers : \A p \in ClaimPositions(window[w]) : ClaimAt(window[w], p) \in Claims
    BY PositionsAreNatural DEF PipelineInv, IInv, TypeOK
  <2>. QED BY <2>1, <2>2 DEF PipelineInv, IInv, TypeOK, ObjectsOK, Object
<1>4. ASSUME NEW w \in Workers PROVE HandlesInOrder(w)'
  <2>1. HandlesInOrder(w) /\ SoundWorker(w)
    BY DEF PipelineInv, IInv, WInv
  <2>. QED BY <1>1, <1>3, <2>1 DEF HandlesInOrder, SoundWorker, RecordWritten, Writing
<1>5. ASSUME NEW w \in Workers PROVE Grounded(w)'
  <2>1. Grounded(w)
    BY DEF PipelineInv, WInv
  <2>2. \A p \in DOMAIN decided[w] : \A d \in Claims :
          (KnownBefore(w, p, d)' <=> KnownBefore(w, p, d)) /\ (Known(w, d)' <=> Known(w, d))
    BY <1>1 DEF KnownBefore, Known
  <2>3. \A p \in DOMAIN decided[w] : GroundedObject(w, p, decided[w][p])'
    BY <1>1, <1>3, <2>1, <2>2 DEF Grounded, GroundedObject
  <2>4. \A l \in todo[w] : GroundedLink(l)'
    BY <1>1, <1>3, <2>1 DEF Grounded, GroundedLink
  <2>. QED BY <1>1, <2>1, <2>3, <2>4 DEF Grounded
<1>6. ASSUME NEW w \in Workers, Unstored(w) PROVE Unstored(w)'
  <2>1. pc[w] = "compare" => ClaimAt(window[w], First(queue[w])) \in Claims
    <3>1. pc[w] = "compare" =>
            /\ window[w] \in Windows /\ queue[w] \subseteq ClaimPositions(window[w])
            /\ queue[w] # {} /\ queue[w] \in SUBSET (Nat \X Nat)
      BY DEF PipelineInv, IInv, SoundWorker, TypeOK
    <3>. QED BY <1>3, <3>1, FirstIsLeast
  <2>. QED BY <1>1, <1>3, <1>6, <2>1 DEF Unstored
<1>. QED BY <1>2, <1>4, <1>5, <1>6 DEF WInv

LEMMA HistoryStep ==
  ASSUME HistoryInv, [CNext]_cvars
  PROVE  HistoryInv'
<1>1. ASSUME NEW w \in Workers, OtherStep(w) \/ ReadPayload(w) \/ Die(w) PROVE HistoryInv'
  BY <1>1 DEF OtherStep, ReadPayload, Die, HistoryInv, axes, history
<1>2. ASSUME NEW w \in Workers, Upsert(w) \/ set_claim_status(w) PROVE HistoryInv'
  BY <1>2 DEF Upsert, set_claim_status, StoreAxes, HistoryInv, history
<1>3. ASSUME NEW c \in Claims, NEW state \in Fulfillment, Settle(c, state) PROVE HistoryInv'
  BY <1>3 DEF Settle, HistoryInv, axes, history
<1>4. CASE set_fulfillment
  BY <1>4 DEF set_fulfillment, StoreAxes, HistoryInv
<1>. QED BY <1>1, <1>2, <1>3, <1>4 DEF CNext, cvars, axes, history, HistoryInv

LEMMA PipelineStep ==
  ASSUME PipelineInv, [CNext]_cvars
  PROVE  PipelineInv'
<1>1. CASE [Next]_vars
  <2>1. IInv' /\ WInv'
    BY <1>1, NextIInv, NextWInv DEF PipelineInv
  <2>2. \A c \in Claims : Present(c) => Present(c)'
    BY <1>1, StoreGrows DEF PipelineInv
  <2>3. SettlerInv'
    <3>1. ASSUME NEW c \in Claims, NEW state \in Fulfillment, Settle(c, state) PROVE SettlerInv'
      <4>1. claim' = claim /\ claim[c] \in Row
        BY <3>1 DEF Settle, vars, PipelineInv, IInv, TypeOK
      <4>2. settler' = NoCall \/
              (Present(c) /\ settler' = [claim |-> c, row |-> claim[c], life |-> state])
        BY <3>1 DEF Settle
      <4>. QED BY <4>1, <4>2 DEF SettlerInv, Present
    <3>2. CASE settler' = settler
      BY <2>2, <3>2 DEF PipelineInv, SettlerInv
    <3>3. CASE set_fulfillment
      BY <3>3 DEF set_fulfillment, SettlerInv
    <3>. QED BY <3>1, <3>2, <3>3
             DEF CNext, cvars, settling, OtherStep, Upsert, ReadPayload, set_claim_status, Die
  <2>4. HistoryInv'
    BY HistoryStep DEF PipelineInv
  <2>. QED BY <2>1, <2>3, <2>4 DEF PipelineInv
<1>2. CASE set_fulfillment
  BY <1>2, SettlingKeepsThePipeline, HistoryStep DEF PipelineInv, SettlerInv, set_fulfillment
<1>. QED BY <1>1, <1>2, StepsOfThePipeline

(* The pipeline's own invariants survive any number of calls of             *)
(* set_fulfillment, whatever they overwrite.                                *)
LEMMA PipelineHolds == CSpec => []PipelineInv
<1>1. CInit => PipelineInv
  <2>1. Init => IInv
    BY InitIInv
  <2>2. Init => WInv
    BY DEF Init, WInv, HandlesInOrder, Grounded, Writing
  <2>. QED BY <2>1, <2>2 DEF CInit, PipelineInv, SettlerInv, HistoryInv
<1>. QED BY <1>1, PipelineStep, PTL DEF CSpec

-----------------------------------------------------------------------------
(* Theorems about one worker beside the settler.                            *)

AllUnstored == \A w \in Workers : Unstored(w)

LEMMA UnstoredStep ==
  ASSUME OneWorker, NoClaimTwice, PipelineInv, AllUnstored, [CNext]_cvars
  PROVE  AllUnstored'
<1>1. ASSUME NEW w \in Workers, Fetch(w) \/ Step(w) \/ Crash(w) PROVE Unstored(w)'
  BY <1>1, StaysUnstored DEF PipelineInv, AllUnstored
<1>2. ASSUME UNCHANGED vars, NEW w \in Workers PROVE Unstored(w)'
  BY <1>2 DEF vars, AllUnstored, Unstored, Present
<1>3. CASE set_fulfillment
  BY <1>3, SettlingKeepsThePipeline DEF AllUnstored
<1>. QED BY <1>1, <1>2, <1>3, StepsOfThePipeline DEF Next, OneWorker, AllUnstored

(* Whatever writes the payload of a claim again writes the fulfillment it   *)
(* was last given, or the claim is counted as written over.                 *)
LEMMA SettledStep ==
  ASSUME PipelineInv, AllUnstored, SettledStaysSettled, [CNext]_cvars
  PROVE  SettledStaysSettled'
<1>. USE DEF PipelineInv, HistoryInv
<1>1. ASSUME NEW w \in Workers, OtherStep(w) \/ ReadPayload(w) \/ Die(w)
      PROVE  SettledStaysSettled'
  BY <1>1 DEF OtherStep, ReadPayload, Die, SettledStaysSettled, axes, history
<1>2. ASSUME NEW w \in Workers, Upsert(w) PROVE SettledStaysSettled'
  <2>. SUFFICES ASSUME NEW p, p = First(queue[w]), NEW c, c = decided[w][p].claim
                PROVE  SettledStaysSettled'
    OBVIOUS
  <2>1. c \in Claims /\ ~Present(c)
    BY <1>2, WrittenOnce DEF Upsert, AllUnstored
  <2>2. /\ life' = [life EXCEPT ![c] = Extracted(c)] /\ asked' = [asked EXCEPT ![c] = Extracted(c)]
        /\ stale' = stale
    BY <1>2, <2>1 DEF Upsert, StoreAxes
  <2>. QED BY <2>1, <2>2 DEF SettledStaysSettled
<1>3. ASSUME NEW w \in Workers, set_claim_status(w) PROVE SettledStaysSettled'
  <2>1. /\ life' = [life EXCEPT ![target[w]] = carried[w]] /\ asked' = asked
        /\ \/ stale' = stale /\ life[target[w]] = carried[w]
           \/ stale' = stale \cup {target[w]}
    BY <1>3 DEF set_claim_status, StoreAxes
  <2>. QED BY <2>1 DEF SettledStaysSettled
<1>4. ASSUME NEW c \in Claims, NEW state \in Fulfillment, Settle(c, state)
      PROVE  SettledStaysSettled'
  BY <1>4 DEF Settle, SettledStaysSettled, axes, history
<1>5. CASE set_fulfillment
  <2>1. /\ life' = [life EXCEPT ![settler.claim] = settler.life]
        /\ asked' = [asked EXCEPT ![settler.claim] = settler.life] /\ stale \subseteq stale'
    BY <1>5 DEF set_fulfillment, StoreAxes
  <2>. QED BY <2>1 DEF SettledStaysSettled
<1>6. CASE UNCHANGED cvars
  BY <1>6 DEF cvars, axes, history, SettledStaysSettled
<1>. QED BY <1>1, <1>2, <1>3, <1>4, <1>5, <1>6 DEF CNext

(* What was settled stays settled: superseding a commitment carries its     *)
(* fulfillment along, and ingesting its record again finds the claim and    *)
(* does not write it.                                                       *)
THEOREM OneWorkerKeepsSettled ==
  ASSUME OneWorker, NoClaimTwice
  PROVE  CSpec => []SettledStaysSettled
<1>1. CInit => AllUnstored /\ SettledStaysSettled
  BY DEF CInit, Init, AllUnstored, Unstored, SettledStaysSettled
<1>2. PipelineInv /\ AllUnstored /\ SettledStaysSettled /\ [CNext]_cvars
        => AllUnstored' /\ SettledStaysSettled'
  BY UnstoredStep, SettledStep
<1>. QED BY <1>1, <1>2, PipelineHolds, PTL DEF CSpec

(* While nothing was written over a change, the pipeline is as if nobody    *)
(* settled anything.                                                        *)
Undisturbed == stale = {} => RInv /\ (crashes = 0 => SInv)

LEMMA UndisturbedStep ==
  ASSUME OneWorker, NoClaimTwice, PipelineInv, PipelineInv', Undisturbed, [CNext]_cvars
  PROVE  Undisturbed'
<1>. SUFFICES ASSUME stale' = {} PROVE RInv' /\ (crashes' = 0 => SInv')
  BY DEF Undisturbed
<1>1. stale = {} /\ [Next]_vars
  <2>1. CASE set_fulfillment
    BY <2>1, SettlingKeepsRows DEF set_fulfillment, vars, memory
  <2>2. ASSUME ~set_fulfillment PROVE stale \subseteq stale'
    BY <2>2 DEF CNext, cvars, OtherStep, Upsert, ReadPayload, set_claim_status, Die, Settle, history
  <2>. QED BY <2>1, <2>2, StepsOfThePipeline
<1>2. RInv'
  BY <1>1, NextRInv DEF Undisturbed, PipelineInv
<1>3. ASSUME crashes' = 0 PROVE SInv'
  <2>1. crashes = 0
    BY <1>1, <1>3, NoCrashYet DEF PipelineInv
  <2>. QED BY <1>1, <1>3, <2>1, NextSInv DEF Undisturbed, PipelineInv
<1>. QED BY <1>2, <1>3

(* An obligation that was reassigned is not counted twice: of two rival     *)
(* commitments about one subject, open_commitments leaves one out.          *)
THEOREM OneWorkerCountsOnce ==
  ASSUME OneWorker, NoClaimTwice
  PROVE  CSpec => []NoObligationTwice
<1>1. CInit => Undisturbed
  <2>1. Init => RInv
    BY DEF Init, RInv, Unstored, Retires
  <2>2. Init => SInv
    BY NothingToSettle
  <2>. QED BY <2>1, <2>2 DEF CInit, Undisturbed
<1>2. PipelineInv /\ Undisturbed /\ ColumnsFollowPayload => NoObligationTwice
  <2>. SUFFICES ASSUME PipelineInv, Undisturbed, ColumnsFollowPayload,
                       Quiet, stale = {}, crashes = 0,
                       NEW c \in OpenCommitments(FALSE), NEW d \in OpenCommitments(FALSE)
                PROVE  ~(Rivals(c, d) /\ ShareSubject(c, d))
    BY DEF NoObligationTwice
  <2>1. /\ c \in Claims /\ claim[c].status = "active"
        /\ d \in Claims /\ claim[d].status = "active"
    <3>1. \A b \in OpenCommitments(FALSE) : b \in Claims /\ column[b].status = "active"
      BY Zenon DEF OpenCommitments
    <3>2. \A row, l : Promoted(row, l).status = row.status
      BY DEF Promoted
    <3>3. \A b \in Claims : column[b].status = claim[b].status
      BY <3>2, Zenon DEF ColumnsFollowPayload
    <3>. QED BY <3>1, <3>3
  <2>2. OneActiveAnswer
    BY SettledGivesOneAnswer DEF PipelineInv, Undisturbed
  <2>. QED BY <2>1, <2>2 DEF OneActiveAnswer
<1>. QED BY <1>1, <1>2, UndisturbedStep, PipelineHolds, ColumnsAlwaysFollow, PTL DEF CSpec
=============================================================================
