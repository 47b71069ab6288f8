------------------------------- MODULE Chunking -------------------------------
(***************************************************************************)
(* Splitting the text of a record into chunks for retrieval:               *)
(* pack_paragraphs (connectors/base.py), which is the default, and         *)
(* chunk_transcript (connectors/chatgpt.py), which splits at the turns of  *)
(* a conversation and packs paragraphs only inside a turn that is too long.*)
(*                                                                         *)
(* A text is what both look at: its paragraphs 1..n that are not blank,    *)
(* where each ends, and which of them open with a role.  `raw` counts the  *)
(* characters up to the end of a paragraph with the blank line behind it;  *)
(* `net` counts stripped paragraphs, with two characters for the join.     *)
(***************************************************************************)
EXTENDS Integers, Sequences

CONSTANTS
  Texts,    \* the texts that may be split
  MaxChars  \* the budget of a chunk

IsText(t) ==
  /\ t.n \in Nat
  /\ t.raw \in [0..t.n -> Nat] /\ t.net \in [0..t.n -> Nat]
  /\ t.starts \subseteq 1..t.n
  /\ t.n > 0 => 1 \in t.starts
  /\ \A i, j \in 0..t.n : i < j => /\ t.net[j] - t.net[i] >= 3
                                  /\ t.raw[j] - t.raw[i] >= 3

ASSUME TextAssumption == MaxChars \in Nat /\ \A t \in Texts : IsText(t)

VARIABLES
  text,     \* the text being split, or split last
  byTurns,  \* chunk_transcript, or the default chunker
  next,     \* the first paragraph not packed yet
  inner,    \* last paragraph of the stretch packed by paragraphs, or 0
  current,  \* the run of paragraphs being packed
  chunks,   \* the chunks so far
  returned  \* the chunker has returned

chunker == <<text, byTurns, next, inner, current, chunks, returned>>

(* Paragraphs from..to, joined as they stand or as stripped paragraphs.     *)
Run(from, to, stripped) == [from |-> from, to |-> to, stripped |-> stripped]
NoRun == Run(0, 0, FALSE)
EmptyText == [n |-> 0, raw |-> [i \in 0..0 |-> 0], net |-> [i \in 0..0 |-> 0],
              starts |-> {}]

Length(t, r) ==
  IF r.stripped THEN t.net[r.to] - t.net[r.from - 1] - 2
                ELSE t.raw[r.to] - t.raw[r.from - 1] - 2

(* Mutants: the join is not counted; a chunk may not fill its budget.       *)
FitsUnjoined(t, r, u) == Length(t, r) + Length(t, u) <= MaxChars
FitsStrictly(t, r, u) == Length(t, r) + Length(t, u) + 2 < MaxChars

Fits(t, r, u) == Length(t, r) + Length(t, u) + 2 <= MaxChars

(* A message and what follows it up to the next one: \n\n before a role.    *)
IsTurn(t, first, last) ==
  /\ last \in first..t.n
  /\ \A i \in (first + 1)..last : i \notin t.starts
  /\ last = t.n \/ last + 1 \in t.starts

ChunkerInit ==
  /\ text = EmptyText /\ byTurns = FALSE
  /\ next = 1 /\ inner = 0 /\ current = NoRun /\ chunks = <<>>
  /\ returned = TRUE

Chunk(t, turns) ==
  /\ returned
  /\ text' = t
  /\ byTurns' = turns
  /\ next' = 1
  /\ inner' = IF turns THEN 0 ELSE t.n
  /\ current' = NoRun
  /\ chunks' = <<>>
  /\ returned' = FALSE

(* The body of both loops.                                                  *)
Pack(u) ==
  IF current = NoRun
  THEN current' = u /\ UNCHANGED chunks
  ELSE IF Fits(text, current, u)
  THEN current' = Run(current.from, u.to, current.stripped) /\ UNCHANGED chunks
  ELSE current' = u /\ chunks' = Append(chunks, current)

(* Mutants: what was packed is dropped; it is packed on.                    *)
Drop == current' = NoRun /\ UNCHANGED chunks
KeepPacking == UNCHANGED <<current, chunks>>

Flush ==
  /\ chunks' = IF current = NoRun THEN chunks ELSE Append(chunks, current)
  /\ current' = NoRun

PackTurn(last) ==
  /\ ~returned /\ inner = 0
  /\ IsTurn(text, next, last)
  /\ Length(text, Run(next, last, FALSE)) <= MaxChars
  /\ Pack(Run(next, last, FALSE))
  /\ next' = last + 1
  /\ UNCHANGED <<text, byTurns, inner, returned>>

(* A turn over budget: flush, then its paragraphs.                          *)
OpenTurn(last) ==
  /\ ~returned /\ inner = 0
  /\ IsTurn(text, next, last)
  /\ Length(text, Run(next, last, FALSE)) > MaxChars
  /\ Flush
  /\ inner' = last
  /\ UNCHANGED <<text, byTurns, next, returned>>

PackParagraph ==
  /\ ~returned /\ next <= inner
  /\ Pack(Run(next, next, TRUE))
  /\ next' = next + 1
  /\ UNCHANGED <<text, byTurns, inner, returned>>

(* pack_paragraphs returns.                                                 *)
CloseTurn ==
  /\ ~returned /\ inner # 0 /\ next > inner
  /\ Flush
  /\ inner' = 0
  /\ UNCHANGED <<text, byTurns, next, returned>>

ReturnChunks ==
  /\ ~returned /\ inner = 0 /\ next > text.n
  /\ Flush
  /\ returned' = TRUE
  /\ UNCHANGED <<text, byTurns, next, inner>>

ChunkerStep ==
  \/ \E last \in 1..text.n : PackTurn(last) \/ OpenTurn(last)
  \/ PackParagraph \/ CloseTurn \/ ReturnChunks

ChunkerNext == ChunkerStep \/ \E t \in Texts, turns \in BOOLEAN : Chunk(t, turns)

ChunkerSpec == ChunkerInit /\ [][ChunkerNext]_chunker

-----------------------------------------------------------------------------
(* Properties.                                                              *)

Runs == IF current = NoRun THEN chunks ELSE Append(chunks, current)

(* No paragraph is lost, repeated or moved: the runs follow one another     *)
(* from the first paragraph to the last one read.                           *)
NothingLost ==
  /\ Runs = <<>> => next = 1
  /\ Runs # <<>> => Runs[1].from = 1 /\ Runs[Len(Runs)].to = next - 1
  /\ \A i \in 1..(Len(Runs) - 1) : Runs[i + 1].from = Runs[i].to + 1
  /\ returned => next = text.n + 1

(* "The atomic unit of a chat is the turn, so chunks only ever start at     *)
(* one" (chatgpt.py:295): a chunk of a conversation is made of whole turns, *)
(* or lies inside one turn that is by itself over budget.                   *)
TurnsStayWhole ==
  byTurns => \A i \in 1..Len(Runs) :
    LET r == Runs[i] IN
      \/ r.from \in text.starts /\ (r.to = text.n \/ r.to + 1 \in text.starts)
      \/ \E first \in 1..r.from, last \in r.to..text.n :
           /\ first \in text.starts /\ IsTurn(text, first, last)
           /\ Length(text, Run(first, last, FALSE)) > MaxChars

(* A chunk is within budget, or is one paragraph that is too long by itself.*)
WithinBudget ==
  \A i \in 1..Len(Runs) :
    \/ Length(text, Runs[i]) <= MaxChars
    \/ Runs[i].stripped /\ Runs[i].from = Runs[i].to

(* Nothing is split that would fit: two neighbouring chunks of the same     *)
(* kind together exceed the budget, unless a turn begins between them and   *)
(* one of the two was over budget.                                          *)
NoNeedlessSplit ==
  \A i \in 1..(Len(Runs) - 1) :
    (Runs[i].stripped = Runs[i + 1].stripped
       /\ (byTurns /\ Runs[i].stripped => Runs[i + 1].from \notin text.starts))
    => Length(text, Runs[i]) + Length(text, Runs[i + 1]) + 2 > MaxChars
=============================================================================
