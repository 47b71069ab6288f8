---------------------------- MODULE ChunkingProofs ----------------------------
(***************************************************************************)
(* Theorems about Chunking, for every text, every budget and both          *)
(* chunkers.                                                               *)
(***************************************************************************)
EXTENDS Chunking, TLAPS

RunSet == [from : Nat, to : Nat, stripped : BOOLEAN]

(* What TurnsStayWhole and WithinBudget ask of one run.                     *)
WholeOrInside(t, r) ==
  \/ r.from \in t.starts /\ (r.to = t.n \/ r.to + 1 \in t.starts)
  \/ \E first \in 1..r.from, last \in r.to..t.n :
       /\ first \in t.starts /\ IsTurn(t, first, last)
       /\ Length(t, Run(first, last, FALSE)) > MaxChars

GoodRun(t, turns, r) ==
  /\ r \in RunSet
  /\ 1 <= r.from /\ r.from <= r.to /\ r.to <= t.n
  /\ Length(t, r) <= MaxChars \/ (r.stripped /\ r.from = r.to)
  /\ turns => WholeOrInside(t, r)

(* What NothingLost and NoNeedlessSplit ask of two neighbours.              *)
Follows(t, turns, r, u) ==
  /\ u.from = r.to + 1
  /\ (r.stripped = u.stripped /\ (turns /\ r.stripped => u.from \notin t.starts))
       => ~Fits(t, r, u)

(* The runs are good and follow one another up to the paragraph before n.   *)
Chain(t, turns, s, n) ==
  /\ \A i \in 1..Len(s) : GoodRun(t, turns, s[i])
  /\ \A i \in 1..(Len(s) - 1) : Follows(t, turns, s[i], s[i + 1])
  /\ s = <<>> => n = 1
  /\ s # <<>> => s[1].from = 1 /\ s[Len(s)].to = n - 1

ChunkerTypeOK ==
  /\ IsText(text)
  /\ byTurns \in BOOLEAN
  /\ next \in 1..(text.n + 1)
  /\ inner \in 0..text.n
  /\ current \in RunSet
  /\ chunks \in Seq(RunSet)
  /\ returned \in BOOLEAN

(* A chunk is cut short only by the loop that packs it: between turns what  *)
(* is being packed are whole turns, inside an over-budget turn it is a part *)
(* of that turn.                                                            *)
Between ==
  /\ byTurns => next = text.n + 1 \/ next \in text.starts
  /\ ~byTurns => next = text.n + 1 /\ current = NoRun
  /\ current # NoRun => ~current.stripped /\ current.from \in text.starts
  /\ current = NoRun /\ chunks # <<>> => chunks[Len(chunks)].stripped \/ returned

Inside ==
  /\ next <= inner + 1
  /\ inner = text.n \/ inner + 1 \in text.starts
  /\ ~byTurns => inner = text.n /\ (current = NoRun => next = 1)
  /\ current # NoRun => current.stripped
  /\ byTurns => \E first \in text.starts :
       /\ IsTurn(text, first, inner) /\ first <= next
       /\ Length(text, Run(first, inner, FALSE)) > MaxChars
       /\ current # NoRun => first <= current.from
       /\ current = NoRun => next = first

CInv ==
  /\ ChunkerTypeOK
  /\ Chain(text, byTurns, Runs, next)
  /\ inner = 0 => Between
  /\ inner # 0 => Inside
  /\ returned => next = text.n + 1 /\ inner = 0 /\ current = NoRun

-----------------------------------------------------------------------------
(* Sequences of runs.                                                       *)

(* A run that follows the last one may be appended.                         *)
LEMMA ChainAppend ==
  ASSUME NEW t, NEW turns \in BOOLEAN, NEW s \in Seq(RunSet), NEW n \in Nat,
         Chain(t, turns, s, n),
         NEW u, GoodRun(t, turns, u), u.from = n,
         s # <<>> => Follows(t, turns, s[Len(s)], u),
         NEW m \in Nat, u.to = m - 1
  PROVE  Append(s, u) \in Seq(RunSet) /\ Chain(t, turns, Append(s, u), m)
<1>. DEFINE a == Append(s, u)
<1>1. u \in RunSet
  BY DEF GoodRun
<1>2. /\ a \in Seq(RunSet) /\ Len(a) = Len(s) + 1 /\ Len(s) \in Nat
      /\ a[Len(a)] = u /\ \A i \in 1..Len(s) : a[i] = s[i]
  BY <1>1
<1>. HIDE DEF a
<1>3. \A i \in 1..Len(a) : GoodRun(t, turns, a[i])
  BY <1>2 DEF Chain
<1>4. ASSUME NEW i \in 1..(Len(a) - 1)
      PROVE  Follows(t, turns, a[i], a[i + 1])
  <2>1. CASE i = Len(s)
    <3>1. s # <<>> /\ a[i] = s[Len(s)] /\ a[i + 1] = u
      BY <1>2, <2>1
    <3>. QED BY <3>1
  <2>2. CASE i # Len(s)
    <3>1. i \in 1..(Len(s) - 1) /\ a[i] = s[i] /\ a[i + 1] = s[i + 1]
      BY <1>2, <2>2
    <3>. QED BY <3>1 DEF Chain
  <2>. QED BY <2>1, <2>2
<1>5. a # <<>> /\ a[1].from = 1 /\ a[Len(a)].to = m - 1
  <2>1. CASE s = <<>>
    <3>1. Len(s) = 0 /\ n = 1
      BY <2>1 DEF Chain
    <3>2. Len(a) = 1 /\ a[1] = u /\ u.from = 1
      BY <1>2, <3>1
    <3>. QED BY <1>2, <3>2
  <2>2. CASE s # <<>>
    BY <1>2, <2>2 DEF Chain
  <2>. QED BY <2>1, <2>2
<1>6. Chain(t, turns, a, m)
  BY <1>3, <1>4, <1>5 DEF Chain
<1>. QED BY <1>2, <1>6 DEF a

(* The chain without its last run, which follows the one before it.         *)
LEMMA ChainFront ==
  ASSUME NEW t, NEW turns \in BOOLEAN, NEW s \in Seq(RunSet), NEW n \in Nat,
         NEW r \in RunSet, Chain(t, turns, Append(s, r), n)
  PROVE  /\ Chain(t, turns, s, r.from)
         /\ GoodRun(t, turns, r) /\ r.to = n - 1
         /\ s # <<>> => Follows(t, turns, s[Len(s)], r)
<1>. DEFINE a == Append(s, r)
<1>1. /\ a \in Seq(RunSet) /\ Len(a) = Len(s) + 1 /\ Len(s) \in Nat /\ a # <<>>
      /\ a[Len(a)] = r /\ \A i \in 1..Len(s) : a[i] = s[i]
  OBVIOUS
<1>2. Chain(t, turns, a, n)
  OBVIOUS
<1>. HIDE DEF a
<1>3. GoodRun(t, turns, r) /\ r.to = n - 1
  BY <1>1, <1>2 DEF Chain
<1>4. ASSUME s # <<>>
      PROVE  Follows(t, turns, s[Len(s)], r)
  <2>1. Len(s) \in 1..(Len(a) - 1) /\ a[Len(s)] = s[Len(s)] /\ a[Len(s) + 1] = r
    BY <1>1, <1>4
  <2>. QED BY <1>2, <2>1 DEF Chain
<1>5. \A i \in 1..Len(s) : GoodRun(t, turns, s[i])
  BY <1>1, <1>2 DEF Chain
<1>6. ASSUME NEW i \in 1..(Len(s) - 1)
      PROVE  Follows(t, turns, s[i], s[i + 1])
  <2>1. i \in 1..(Len(a) - 1) /\ a[i] = s[i] /\ a[i + 1] = s[i + 1]
    BY <1>1
  <2>. QED BY <1>2, <2>1 DEF Chain
<1>7. s = <<>> => r.from = 1
  BY <1>1, <1>2 DEF Chain
<1>8. s # <<>> => s[1].from = 1 /\ s[Len(s)].to = r.from - 1
  <2>. SUFFICES ASSUME s # <<>> PROVE s[1].from = 1 /\ s[Len(s)].to = r.from - 1
    OBVIOUS
  <2>1. Len(s) >= 1 /\ s[Len(s)] \in RunSet
    OBVIOUS
  <2>2. r.from = s[Len(s)].to + 1
    BY <1>4 DEF Follows
  <2>3. a[1] = s[1] /\ a[1].from = 1
    BY <1>1, <1>2, <2>1 DEF Chain
  <2>. QED BY <2>1, <2>2, <2>3 DEF RunSet
<1>. QED BY <1>3, <1>4, <1>5, <1>6, <1>7, <1>8 DEF Chain

-----------------------------------------------------------------------------
(* Runs of paragraphs.                                                      *)

(* The length of a run is an integer.                                       *)
LEMMA LengthIsInteger ==
  ASSUME NEW t, IsText(t), NEW r \in RunSet, 1 <= r.from, r.from <= r.to, r.to <= t.n
  PROVE  /\ Length(t, r) \in Int
         /\ t.raw[r.to] \in Nat /\ t.raw[r.from - 1] \in Nat
         /\ t.net[r.to] \in Nat /\ t.net[r.from - 1] \in Nat
<1>1. t.n \in Nat /\ r.from \in Nat /\ r.to \in Nat
  BY DEF IsText, RunSet
<1>2. r.to \in 0..t.n /\ r.from - 1 \in 0..t.n
  BY <1>1
<1>3. /\ t.raw[r.to] \in Nat /\ t.raw[r.from - 1] \in Nat
      /\ t.net[r.to] \in Nat /\ t.net[r.from - 1] \in Nat
  BY <1>2 DEF IsText
<1>. QED BY <1>3 DEF Length

(* A run extended to a later paragraph is no shorter.                       *)
LEMMA LongerRun ==
  ASSUME NEW t, IsText(t), NEW r \in RunSet, 1 <= r.from, r.from <= r.to,
         NEW k \in Nat, r.to < k, k <= t.n
  PROVE  /\ Length(t, r) \in Int /\ Length(t, Run(r.from, k, r.stripped)) \in Int
         /\ Length(t, r) <= Length(t, Run(r.from, k, r.stripped))
<1>1. /\ r.to \in 0..t.n /\ r.from - 1 \in 0..t.n /\ k \in 0..t.n
      /\ t.raw \in [0..t.n -> Nat] /\ t.net \in [0..t.n -> Nat]
  BY DEF IsText, RunSet
<1>2. /\ t.raw[r.to] \in Nat /\ t.raw[k] \in Nat /\ t.raw[r.from - 1] \in Nat
      /\ t.net[r.to] \in Nat /\ t.net[k] \in Nat /\ t.net[r.from - 1] \in Nat
  BY <1>1
<1>3. t.raw[k] - t.raw[r.to] >= 3 /\ t.net[k] - t.net[r.to] >= 3
  BY <1>1 DEF IsText
<1>4. /\ Run(r.from, k, r.stripped).from = r.from /\ Run(r.from, k, r.stripped).to = k
      /\ Run(r.from, k, r.stripped).stripped = r.stripped
  BY DEF Run
<1>. QED BY <1>2, <1>3, <1>4 DEF Length

(* Two neighbouring runs of one kind, joined.                               *)
LEMMA JoinedLength ==
  ASSUME NEW t, IsText(t), NEW r \in RunSet, NEW u \in RunSet,
         1 <= r.from, r.from <= r.to, u.from = r.to + 1, u.from <= u.to, u.to <= t.n,
         u.stripped = r.stripped
  PROVE  Length(t, Run(r.from, u.to, r.stripped)) = Length(t, r) + Length(t, u) + 2
<1>1. /\ t.raw[r.to] \in Nat /\ t.raw[r.from - 1] \in Nat /\ t.raw[u.to] \in Nat
      /\ t.net[r.to] \in Nat /\ t.net[r.from - 1] \in Nat /\ t.net[u.to] \in Nat
  <2>1. t.n \in Nat /\ r.to \in Nat /\ u.to \in Nat /\ u.from \in Nat
    BY DEF IsText, RunSet
  <2>2. r.to <= t.n /\ 1 <= u.from
    BY <2>1
  <2>. QED BY <2>2, LengthIsInteger
<1>2. u.from - 1 = r.to
  BY DEF RunSet
<1>3. /\ Run(r.from, u.to, r.stripped).from = r.from
      /\ Run(r.from, u.to, r.stripped).to = u.to
      /\ Run(r.from, u.to, r.stripped).stripped = r.stripped
  BY DEF Run
<1>4. CASE r.stripped
  BY <1>1, <1>2, <1>3, <1>4 DEF Length
<1>5. CASE ~r.stripped
  BY <1>1, <1>2, <1>3, <1>5 DEF Length
<1>. QED BY <1>4, <1>5

-----------------------------------------------------------------------------
(* The steps of a chunker.                                                  *)

(* What is being packed is the end of the chain.                            *)
LEMMA CurrentEndsTheChain ==
  ASSUME CInv
  PROVE  /\ current = NoRun => Chain(text, byTurns, chunks, next)
         /\ current # NoRun => Chain(text, byTurns, Append(chunks, current), next)
         /\ current # NoRun => /\ GoodRun(text, byTurns, current)
                               /\ current.to = next - 1
         /\ current # NoRun /\ chunks # <<>> =>
              Follows(text, byTurns, chunks[Len(chunks)], current)
<1>1. /\ current = NoRun => Chain(text, byTurns, chunks, next)
      /\ current # NoRun => Chain(text, byTurns, Append(chunks, current), next)
  BY DEF CInv, Runs
<1>2. byTurns \in BOOLEAN /\ current \in RunSet /\ chunks \in Seq(RunSet) /\ next \in Nat
  BY DEF CInv, ChunkerTypeOK, IsText
<1>. QED BY <1>1, <1>2, ChainFront

(* The body of the loops: whatever it does with the next unit, the runs     *)
(* still form a chain, up to the end of that unit.                          *)
LEMMA PackKeepsChain ==
  ASSUME CInv, NEW u, GoodRun(text, byTurns, u), u.from = next,
         NEW m \in Nat, u.to = m - 1, Pack(u),
         current # NoRun =>
           /\ current.stripped = u.stripped
           /\ byTurns => WholeOrInside(text, Run(current.from, u.to, current.stripped)),
         current = NoRun /\ chunks # <<>> =>
           Follows(text, byTurns, chunks[Len(chunks)], u)
  PROVE  /\ chunks' \in Seq(RunSet) /\ current' \in RunSet /\ current' # NoRun
         /\ Chain(text, byTurns, Append(chunks', current'), m)
         /\ current'.stripped = u.stripped
         /\ current'.from = u.from \/ (current # NoRun /\ current'.from = current.from)
<1>0. /\ IsText(text) /\ byTurns \in BOOLEAN /\ next \in Nat
      /\ current \in RunSet /\ chunks \in Seq(RunSet)
  BY DEF CInv, ChunkerTypeOK, IsText
<1>p. /\ current = NoRun => current' = u /\ chunks' = chunks
      /\ current # NoRun /\ Fits(text, current, u) =>
           current' = Run(current.from, u.to, current.stripped) /\ chunks' = chunks
      /\ current # NoRun /\ ~Fits(text, current, u) =>
           current' = u /\ chunks' = Append(chunks, current)
  BY DEF Pack
<1>q. /\ current = NoRun => Chain(text, byTurns, chunks, next)
      /\ current # NoRun => Chain(text, byTurns, Append(chunks, current), next)
  BY CurrentEndsTheChain
<1>1. u \in RunSet /\ 1 <= u.from /\ u.from <= u.to /\ u.to <= text.n /\ u # NoRun
  BY DEF GoodRun, NoRun, Run
<1>2. CASE current = NoRun
  BY <1>0, <1>p, <1>q, <1>1, <1>2, ChainAppend
<1>3. CASE current # NoRun /\ ~Fits(text, current, u)
  <2>1. GoodRun(text, byTurns, current) /\ current.to = next - 1
    BY <1>0, <1>p, <1>q, <1>3, ChainFront
  <2>2. u.from = current.to + 1
    BY <1>0, <1>p, <1>q, <2>1 DEF RunSet
  <2>3. Append(chunks, current) \in Seq(RunSet) /\ Append(chunks, current)[Len(Append(chunks, current))] = current
    BY <1>0
  <2>4. Follows(text, byTurns, current, u)
    BY <1>0, <1>p, <1>q, <1>3, <2>2 DEF Follows
  <2>. QED BY <1>0, <1>p, <1>q, <1>1, <1>3, <2>3, <2>4, ChainAppend
<1>4. CASE current # NoRun /\ Fits(text, current, u)
  <2>. DEFINE d == Run(current.from, u.to, current.stripped)
  <2>1. /\ GoodRun(text, byTurns, current) /\ current.to = next - 1 /\ Chain(text, byTurns, chunks, current.from)
        /\ chunks # <<>> => Follows(text, byTurns, chunks[Len(chunks)], current)
    BY <1>0, <1>p, <1>q, <1>4, ChainFront
  <2>2. /\ current.from \in Nat /\ current.to \in Nat /\ 1 <= current.from /\ current.from <= current.to
        /\ u.from = current.to + 1 /\ u.to \in Nat
    BY <1>0, <1>p, <1>q, <1>1, <2>1 DEF GoodRun, RunSet
  <2>3. /\ d \in RunSet /\ d.from = current.from /\ d.to = u.to /\ d.stripped = current.stripped
        /\ d # NoRun
    BY <1>0, <1>p, <1>q, <2>2 DEF RunSet, NoRun, Run
  <2>4. Length(text, d) <= MaxChars
    BY <1>0, <1>p, <1>q, <1>1, <1>4, <2>2, JoinedLength DEF Fits
  <2>5. Length(text, current) \in Int /\ Length(text, d) \in Int /\ Length(text, current) <= Length(text, d)
    BY <1>0, <1>p, <1>q, <1>1, <2>2, LongerRun
  <2>6. GoodRun(text, byTurns, d)
    <3>1. byTurns => WholeOrInside(text, d)
      BY <1>0, <1>p, <1>q, <1>4
    <3>. HIDE DEF d
    <3>. QED BY <1>0, <1>p, <1>q, <1>1, <2>2, <2>3, <2>4, <3>1 DEF GoodRun
  <2>7. ASSUME chunks # <<>>
        PROVE  Follows(text, byTurns, chunks[Len(chunks)], d)
    <3>1. chunks[Len(chunks)] \in RunSet /\ GoodRun(text, byTurns, chunks[Len(chunks)])
      <4>1. Len(chunks) \in 1..Len(chunks)
        BY <1>0, <1>p, <1>q, <2>7
      <4>. QED BY <1>0, <1>p, <1>q, <2>1, <4>1 DEF Chain, GoodRun
    <3>. DEFINE r == chunks[Len(chunks)]
    <3>2. Length(text, r) \in Int
      <4>1. 1 <= r.from /\ r.from <= r.to /\ r.to <= text.n
        BY <1>0, <1>p, <1>q, <3>1 DEF GoodRun
      <4>. HIDE DEF r
      <4>. QED BY <1>0, <1>p, <1>q, <3>1, <4>1, LengthIsInteger DEF r
    <3>3. Follows(text, byTurns, r, current)
      BY <1>0, <1>p, <1>q, <2>1, <2>7
    <3>. HIDE DEF r, d
    <3>4. Fits(text, r, d) => Fits(text, r, current)
      BY <1>0, <1>p, <1>q, <2>5, <3>2, TextAssumption DEF Fits
    <3>. QED BY <1>0, <1>p, <1>q, <2>3, <3>3, <3>4 DEF Follows, r
  <2>8. Append(chunks, d) \in Seq(RunSet) /\ Chain(text, byTurns, Append(chunks, d), m)
    <3>. HIDE DEF d
    <3>. QED BY <1>0, <1>p, <1>q, <2>1, <2>2, <2>3, <2>6, <2>7, ChainAppend
  <2>. QED BY <1>0, <1>p, <1>q, <1>4, <2>3, <2>8
<1>. QED BY <1>2, <1>3, <1>4

LEMMA FlushKeepsChain ==
  ASSUME CInv, Flush
  PROVE  /\ chunks' \in Seq(RunSet) /\ current' = NoRun /\ current' \in RunSet
         /\ Chain(text, byTurns, chunks', next)
         /\ chunks # <<>> \/ current # NoRun =>
              chunks'[Len(chunks')] = IF current = NoRun THEN chunks[Len(chunks)] ELSE current
         /\ current = NoRun => chunks' = chunks
<1>1. current \in RunSet /\ chunks \in Seq(RunSet)
  BY DEF CInv, ChunkerTypeOK
<1>2. NoRun \in RunSet
  BY DEF NoRun, Run, RunSet
<1>3. CASE current = NoRun
  BY <1>1, <1>2, <1>3, CurrentEndsTheChain DEF Flush
<1>4. CASE current # NoRun
  BY <1>1, <1>2, <1>4, CurrentEndsTheChain DEF Flush
<1>. QED BY <1>3, <1>4

LEMMA ChunkStep ==
  ASSUME CInv, NEW t, IsText(t), NEW turns \in BOOLEAN, Chunk(t, turns)
  PROVE  CInv'
<1>1. NoRun \in RunSet /\ <<>> \in Seq(RunSet)
  BY DEF NoRun, Run, RunSet
<1>2. ChunkerTypeOK'
  <2>1. t.n \in Nat
    BY DEF IsText
  <2>2. /\ text' = t /\ byTurns' = turns /\ next' = 1 /\ inner' \in {0, t.n}
        /\ current' = NoRun /\ chunks' = <<>> /\ returned' = FALSE
    BY DEF Chunk
  <2>3. text'.n = t.n /\ next' \in 1..(t.n + 1) /\ inner' \in 0..t.n
    BY <2>1, <2>2
  <2>4. IsText(text')
    BY <2>2
  <2>. QED BY <1>1, <2>2, <2>3, <2>4 DEF ChunkerTypeOK
<1>3. Chain(text', byTurns', Runs', next')
  BY DEF Chain, Chunk, Runs
<1>4. (inner = 0 => Between)'
  <2>. SUFFICES ASSUME inner' = 0 PROVE Between'
    OBVIOUS
  <2>1. turns \/ t.n = 0
    BY DEF Chunk
  <2>2. t.n \in Nat /\ (t.n > 0 => 1 \in t.starts)
    BY DEF IsText
  <2>. QED BY <2>1, <2>2 DEF Between, Chunk
<1>5. (inner # 0 => Inside)'
  <2>. SUFFICES ASSUME inner' # 0 PROVE Inside'
    OBVIOUS
  <2>1. /\ ~turns /\ inner' = t.n /\ t.n \in Nat
        /\ text' = t /\ byTurns' = turns /\ next' = 1 /\ current' = NoRun
    BY DEF Chunk, IsText
  <2>2. 1 <= t.n + 1
    BY <2>1
  <2>. QED BY <2>1, <2>2 DEF Inside
<1>6. ~returned'
  BY DEF Chunk
<1>. QED BY <1>2, <1>3, <1>4, <1>5, <1>6 DEF CInv

LEMMA PackTurnStep ==
  ASSUME CInv, NEW last \in 1..text.n, PackTurn(last)
  PROVE  CInv'
<1>. DEFINE u == Run(next, last, FALSE)
<1>1. /\ IsText(text) /\ text.n \in Nat /\ byTurns \in BOOLEAN /\ next \in Nat /\ next >= 1
      /\ current \in RunSet /\ chunks \in Seq(RunSet) /\ returned \in BOOLEAN
  BY DEF CInv, ChunkerTypeOK, IsText
<1>2. /\ last \in next..text.n /\ (last = text.n \/ last + 1 \in text.starts)
      /\ Length(text, u) <= MaxChars /\ inner = 0 /\ ~returned
      /\ next' = last + 1 /\ inner' = 0 /\ returned' = returned /\ text' = text /\ byTurns' = byTurns
  BY DEF PackTurn, IsTurn
<1>3. Between /\ byTurns /\ next \in text.starts
  BY <1>1, <1>2 DEF CInv, Between
<1>4. u \in RunSet /\ u.from = next /\ u.to = last /\ u.stripped = FALSE
  BY <1>1 DEF Run, RunSet
<1>. HIDE DEF u
<1>5. GoodRun(text, byTurns, u)
  <2>1. WholeOrInside(text, u)
    BY <1>2, <1>3, <1>4 DEF WholeOrInside
  <2>. QED BY <1>1, <1>2, <1>4, <2>1 DEF GoodRun
<1>6. ASSUME current # NoRun
      PROVE  /\ current.stripped = u.stripped
             /\ WholeOrInside(text, Run(current.from, u.to, current.stripped))
  <2>. DEFINE r == Run(current.from, u.to, current.stripped)
  <2>1. r.from = current.from /\ r.to = last
    BY <1>4 DEF Run
  <2>2. WholeOrInside(text, r)
    <3>. HIDE DEF r
    <3>. QED BY <1>2, <1>3, <1>6, <2>1 DEF Between, WholeOrInside
  <2>3. current.stripped = FALSE
    BY <1>1, <1>3, <1>6 DEF Between, RunSet
  <2>. QED BY <1>4, <2>2, <2>3
<1>7. ASSUME current = NoRun, chunks # <<>>
      PROVE  Follows(text, byTurns, chunks[Len(chunks)], u)
  <2>1. chunks[Len(chunks)].stripped
    BY <1>2, <1>3, <1>7 DEF Between
  <2>2. chunks[Len(chunks)].to = next - 1 /\ chunks[Len(chunks)] \in RunSet
    BY <1>1, <1>7, CurrentEndsTheChain DEF Chain
  <2>3. u.from = chunks[Len(chunks)].to + 1
    BY <1>1, <1>4, <2>2 DEF RunSet
  <2>. QED BY <1>4, <2>1, <2>3 DEF Follows
<1>8. /\ chunks' \in Seq(RunSet) /\ current' \in RunSet /\ current' # NoRun
      /\ Chain(text, byTurns, Append(chunks', current'), last + 1)
      /\ current'.stripped = u.stripped
      /\ current'.from = u.from \/ (current # NoRun /\ current'.from = current.from)
  <2>1. Pack(u)
    BY DEF PackTurn, u
  <2>2. last + 1 \in Nat /\ u.to = last + 1 - 1
    BY <1>1, <1>4
  <2>3. /\ current # NoRun =>
             /\ current.stripped = u.stripped
             /\ byTurns => WholeOrInside(text, Run(current.from, u.to, current.stripped))
        /\ current = NoRun /\ chunks # <<>> =>
             Follows(text, byTurns, chunks[Len(chunks)], u)
    BY <1>6, <1>7
  <2>4. /\ chunks' \in Seq(RunSet) /\ current' \in RunSet /\ current' # NoRun
        /\ Chain(text, byTurns, Append(chunks', current'), last + 1)
        /\ current'.stripped = u.stripped
        /\ current'.from = u.from \/ (current # NoRun /\ current'.from = current.from)
    BY <1>4, <1>5, <2>1, <2>2, <2>3, PackKeepsChain
  <2>. QED BY <2>4
<1>9. ChunkerTypeOK'
  BY <1>1, <1>2, <1>8 DEF ChunkerTypeOK
<1>10. Chain(text', byTurns', Runs', next')
  BY <1>2, <1>8 DEF Runs
<1>11. Between'
  BY <1>2, <1>3, <1>4, <1>8 DEF Between
<1>. QED BY <1>2, <1>9, <1>10, <1>11 DEF CInv

LEMMA OpenTurnStep ==
  ASSUME CInv, NEW last \in 1..text.n, OpenTurn(last)
  PROVE  CInv'
<1>1. /\ IsText(text) /\ text.n \in Nat /\ byTurns \in BOOLEAN /\ next \in 1..(text.n + 1)
      /\ current \in RunSet /\ chunks \in Seq(RunSet) /\ returned \in BOOLEAN
  BY DEF CInv, ChunkerTypeOK, IsText
<1>2. /\ last \in next..text.n /\ (last = text.n \/ last + 1 \in text.starts)
      /\ IsTurn(text, next, last)
      /\ Length(text, Run(next, last, FALSE)) > MaxChars /\ inner = 0 /\ ~returned /\ Flush
      /\ next' = next /\ inner' = last /\ returned' = returned /\ text' = text /\ byTurns' = byTurns
  BY DEF OpenTurn, IsTurn
<1>3. Between /\ byTurns /\ next \in text.starts
  BY <1>1, <1>2 DEF CInv, Between
<1>4. /\ chunks' \in Seq(RunSet) /\ current' = NoRun /\ current' \in RunSet
      /\ Chain(text, byTurns, chunks', next)
  BY <1>2, FlushKeepsChain
<1>5. ChunkerTypeOK'
  BY <1>1, <1>2, <1>4 DEF ChunkerTypeOK
<1>6. Chain(text', byTurns', Runs', next')
  BY <1>2, <1>4 DEF Runs
<1>7. Inside'
  <2>1. next' <= inner' + 1 /\ (inner' = text'.n \/ inner' + 1 \in text'.starts)
    BY <1>1, <1>2
  <2>2. \E first \in text.starts :
          /\ IsTurn(text, first, last) /\ first <= next
          /\ Length(text, Run(first, last, FALSE)) > MaxChars
          /\ next = first
    <3>1. next <= next
      BY <1>1
    <3>. next \in text.starts
      BY <1>3
    <3>. WITNESS next \in text.starts
    <3>. QED BY <1>2, <3>1
  <2>. QED BY <1>2, <1>3, <1>4, <2>1, <2>2 DEF Inside
<1>. QED BY <1>1, <1>2, <1>5, <1>6, <1>7 DEF CInv

LEMMA PackParagraphStep ==
  ASSUME CInv, PackParagraph
  PROVE  CInv'
<1>. DEFINE u == Run(next, next, TRUE)
<1>1. /\ IsText(text) /\ text.n \in Nat /\ byTurns \in BOOLEAN /\ next \in Nat /\ next >= 1
      /\ inner \in 0..text.n
      /\ current \in RunSet /\ chunks \in Seq(RunSet) /\ returned \in BOOLEAN
  BY DEF CInv, ChunkerTypeOK, IsText
<1>2. /\ next <= inner /\ ~returned /\ Pack(u)
      /\ next' = next + 1 /\ inner' = inner /\ returned' = returned
      /\ text' = text /\ byTurns' = byTurns
  BY DEF PackParagraph
<1>3. Inside /\ inner # 0 /\ next <= text.n
  BY <1>1, <1>2 DEF CInv
<1>4. u \in RunSet /\ u.from = next /\ u.to = next /\ u.stripped = TRUE
  BY <1>1 DEF Run, RunSet
<1>. HIDE DEF u
<1>5. ASSUME byTurns
      PROVE  \E first \in text.starts :
               /\ IsTurn(text, first, inner) /\ first <= next /\ first \in 1..text.n
               /\ Length(text, Run(first, inner, FALSE)) > MaxChars
               /\ current # NoRun => first <= current.from
               /\ current = NoRun => next = first
  BY <1>1, <1>3, <1>5 DEF Inside, IsText
<1>6. GoodRun(text, byTurns, u)
  <2>1. ASSUME byTurns PROVE WholeOrInside(text, u)
    <3>1. PICK first \in text.starts :
               /\ IsTurn(text, first, inner) /\ first <= next /\ first \in 1..text.n
               /\ Length(text, Run(first, inner, FALSE)) > MaxChars
      BY <1>5, <2>1
    <3>2. first \in 1..u.from /\ inner \in u.to..text.n
      BY <1>1, <1>2, <1>4, <3>1
    <3>. QED BY <3>1, <3>2 DEF WholeOrInside
  <2>. QED BY <1>1, <1>3, <1>4, <2>1 DEF GoodRun
<1>7. ASSUME current # NoRun
      PROVE  /\ current.stripped = u.stripped
             /\ byTurns => WholeOrInside(text, Run(current.from, u.to, current.stripped))
  <2>. DEFINE r == Run(current.from, u.to, current.stripped)
  <2>1. r.from = current.from /\ r.to = next
    BY <1>4 DEF Run
  <2>2. current.stripped = TRUE /\ current.from \in Nat
    BY <1>1, <1>3, <1>7 DEF Inside, RunSet
  <2>. HIDE DEF r
  <2>3. ASSUME byTurns PROVE WholeOrInside(text, r)
    <3>1. PICK first \in text.starts :
               /\ IsTurn(text, first, inner) /\ first <= current.from /\ first \in 1..text.n
               /\ Length(text, Run(first, inner, FALSE)) > MaxChars
      BY <1>5, <1>7, <2>3
    <3>2. first \in 1..r.from /\ inner \in r.to..text.n
      BY <1>1, <1>2, <2>1, <2>2, <3>1
    <3>. QED BY <3>1, <3>2 DEF WholeOrInside
  <2>. QED BY <1>4, <2>2, <2>3 DEF r
<1>8. ASSUME current = NoRun, chunks # <<>>
      PROVE  Follows(text, byTurns, chunks[Len(chunks)], u)
  <2>1. chunks[Len(chunks)].to = next - 1 /\ GoodRun(text, byTurns, chunks[Len(chunks)])
    <3>1. Len(chunks) \in 1..Len(chunks)
      BY <1>1, <1>8
    <3>. QED BY <1>1, <1>8, <3>1, CurrentEndsTheChain DEF Chain
  <2>. DEFINE r == chunks[Len(chunks)]
  <2>2. r.to \in Nat /\ 1 <= r.to
    <3>1. r \in RunSet /\ 1 <= r.from /\ r.from <= r.to
      BY <2>1 DEF GoodRun
    <3>. HIDE DEF r
    <3>. QED BY <3>1 DEF RunSet
  <2>3. u.from = r.to + 1
    BY <1>1, <1>4, <2>1, <2>2
  <2>4. byTurns /\ u.from \in text.starts
    <3>1. next # 1
      BY <1>1, <2>1, <2>2
    <3>. QED BY <1>3, <1>4, <1>5, <1>8, <3>1 DEF Inside
  <2>. HIDE DEF r
  <2>5. Follows(text, byTurns, r, u)
    BY <1>4, <2>3, <2>4 DEF Follows
  <2>. QED BY <2>5 DEF r
<1>9. /\ chunks' \in Seq(RunSet) /\ current' \in RunSet /\ current' # NoRun
      /\ Chain(text, byTurns, Append(chunks', current'), next + 1)
      /\ current'.stripped = u.stripped
      /\ current'.from = u.from \/ (current # NoRun /\ current'.from = current.from)
  <2>1. PICK m \in Nat : m = next + 1 /\ u.to = m - 1
    BY <1>1, <1>4
  <2>2. /\ current # NoRun =>
             /\ current.stripped = u.stripped
             /\ byTurns => WholeOrInside(text, Run(current.from, u.to, current.stripped))
        /\ current = NoRun /\ chunks # <<>> =>
             Follows(text, byTurns, chunks[Len(chunks)], u)
    BY <1>7, <1>8
  <2>3. Pack(u)
    BY <1>2
  <2>4. u.from = next
    BY <1>4
  <2>5. /\ chunks' \in Seq(RunSet) /\ current' \in RunSet /\ current' # NoRun
        /\ Chain(text, byTurns, Append(chunks', current'), m)
        /\ current'.stripped = u.stripped
        /\ current'.from = u.from \/ (current # NoRun /\ current'.from = current.from)
    BY <1>6, <2>1, <2>2, <2>3, <2>4, PackKeepsChain
  <2>. QED BY <2>1, <2>5
<1>10. ChunkerTypeOK'
  <2>1. next' \in 1..(text.n + 1)
    BY <1>1, <1>2, <1>3
  <2>. QED BY <1>1, <1>2, <1>9, <2>1 DEF ChunkerTypeOK
<1>11. Chain(text', byTurns', Runs', next')
  BY <1>2, <1>9 DEF Runs
<1>12. Inside'
  <2>1. /\ next' <= inner' + 1 /\ (inner' = text'.n \/ inner' + 1 \in text'.starts)
        /\ ~byTurns' => inner' = text'.n
        /\ current' # NoRun /\ current'.stripped
    BY <1>1, <1>2, <1>3, <1>4, <1>9 DEF Inside
  <2>2. byTurns => \E first \in text.starts :
          /\ IsTurn(text, first, inner) /\ first <= next + 1
          /\ Length(text, Run(first, inner, FALSE)) > MaxChars
          /\ first <= current'.from
    <3>. SUFFICES ASSUME byTurns PROVE \E first \in text.starts :
          /\ IsTurn(text, first, inner) /\ first <= next + 1
          /\ Length(text, Run(first, inner, FALSE)) > MaxChars
          /\ first <= current'.from
      OBVIOUS
    <3>1. PICK first \in text.starts :
               /\ IsTurn(text, first, inner) /\ first <= next /\ first \in 1..text.n
               /\ Length(text, Run(first, inner, FALSE)) > MaxChars
               /\ current # NoRun => first <= current.from
      BY <1>5
    <3>2. first <= next + 1 /\ first <= current'.from
      BY <1>1, <1>4, <1>9, <3>1
    <3>. QED BY <3>1, <3>2
  <2>. QED BY <1>2, <2>1, <2>2 DEF Inside
<1>. QED BY <1>2, <1>3, <1>10, <1>11, <1>12 DEF CInv

LEMMA CloseTurnStep ==
  ASSUME CInv, CloseTurn
  PROVE  CInv'
<1>1. /\ IsText(text) /\ text.n \in Nat /\ byTurns \in BOOLEAN /\ next \in 1..(text.n + 1)
      /\ inner \in 0..text.n
      /\ current \in RunSet /\ chunks \in Seq(RunSet) /\ returned \in BOOLEAN
  BY DEF CInv, ChunkerTypeOK, IsText
<1>2. /\ next > inner /\ inner # 0 /\ ~returned /\ Flush
      /\ next' = next /\ inner' = 0 /\ returned' = returned
      /\ text' = text /\ byTurns' = byTurns
  BY DEF CloseTurn
<1>3. Inside /\ next = inner + 1
  <2>1. Inside
    BY <1>2 DEF CInv
  <2>2. next <= inner + 1
    BY <2>1 DEF Inside
  <2>. QED BY <1>1, <1>2, <2>1, <2>2
<1>4. /\ chunks' \in Seq(RunSet) /\ current' = NoRun /\ current' \in RunSet
      /\ Chain(text, byTurns, chunks', next)
      /\ chunks # <<>> \/ current # NoRun =>
           chunks'[Len(chunks')] = IF current = NoRun THEN chunks[Len(chunks)] ELSE current
  BY <1>2, FlushKeepsChain
<1>5. current # NoRun
  <2>. SUFFICES ASSUME current = NoRun PROVE FALSE
    OBVIOUS
  <2>1. ~byTurns
    <3>1. byTurns => \E first \in text.starts : IsTurn(text, first, inner) /\ next = first
      BY <1>3 DEF Inside
    <3>2. byTurns => inner \in next..text.n
      BY <3>1 DEF IsTurn
    <3>. QED BY <1>1, <1>2, <3>2
  <2>2. next = 1
    BY <1>3, <2>1 DEF Inside
  <2>. QED BY <1>1, <1>2, <2>2
<1>6. chunks'[Len(chunks')].stripped
  BY <1>3, <1>4, <1>5 DEF Inside
<1>7. ChunkerTypeOK'
  BY <1>1, <1>2, <1>4 DEF ChunkerTypeOK
<1>8. Chain(text', byTurns', Runs', next')
  BY <1>2, <1>4 DEF Runs
<1>9. Between'
  <2>1. /\ byTurns => next = text.n + 1 \/ next \in text.starts
        /\ ~byTurns => next = text.n + 1
    BY <1>3 DEF Inside
  <2>. QED BY <1>2, <1>4, <1>6, <2>1 DEF Between
<1>. QED BY <1>2, <1>7, <1>8, <1>9 DEF CInv

LEMMA ReturnStep ==
  ASSUME CInv, ReturnChunks
  PROVE  CInv'
<1>1. /\ IsText(text) /\ text.n \in Nat /\ byTurns \in BOOLEAN /\ next \in 1..(text.n + 1)
      /\ current \in RunSet /\ chunks \in Seq(RunSet)
  BY DEF CInv, ChunkerTypeOK, IsText
<1>2. /\ next > text.n /\ inner = 0 /\ Flush
      /\ next' = next /\ inner' = inner /\ returned' = TRUE
      /\ text' = text /\ byTurns' = byTurns
  BY DEF ReturnChunks
<1>3. /\ chunks' \in Seq(RunSet) /\ current' = NoRun /\ current' \in RunSet
      /\ Chain(text, byTurns, chunks', next)
  BY <1>2, FlushKeepsChain
<1>4. next = text.n + 1 /\ 0 \in 0..text.n
  BY <1>1, <1>2
<1>5. ChunkerTypeOK'
  BY <1>1, <1>2, <1>3, <1>4 DEF ChunkerTypeOK
<1>6. Chain(text', byTurns', Runs', next')
  BY <1>2, <1>3 DEF Runs
<1>7. Between'
  BY <1>2, <1>3, <1>4 DEF Between
<1>. QED BY <1>2, <1>3, <1>4, <1>5, <1>6, <1>7 DEF CInv

LEMMA ChunkerNextCInv ==
  CInv /\ [ChunkerNext]_chunker => CInv'
<1>. SUFFICES ASSUME CInv, [ChunkerNext]_chunker PROVE CInv'
  OBVIOUS
<1>1. ASSUME NEW last \in 1..text.n, PackTurn(last) \/ OpenTurn(last)
      PROVE  CInv'
  BY <1>1, PackTurnStep, OpenTurnStep
<1>2. CASE PackParagraph
  BY <1>2, PackParagraphStep
<1>3. CASE CloseTurn
  BY <1>3, CloseTurnStep
<1>4. CASE ReturnChunks
  BY <1>4, ReturnStep
<1>5. ASSUME NEW t \in Texts, NEW turns \in BOOLEAN, Chunk(t, turns)
      PROVE  CInv'
  BY <1>5, TextAssumption, ChunkStep
<1>6. CASE UNCHANGED chunker
  <2>1. /\ text' = text /\ byTurns' = byTurns /\ next' = next /\ inner' = inner
        /\ current' = current /\ chunks' = chunks /\ returned' = returned
    BY <1>6 DEF chunker
  <2>. QED BY <2>1 DEF CInv, ChunkerTypeOK, Runs, Between, Inside
<1>. QED BY <1>1, <1>2, <1>3, <1>4, <1>5, <1>6 DEF ChunkerNext, ChunkerStep

LEMMA ChunkerInitCInv ==
  ChunkerInit => CInv
<1>. SUFFICES ASSUME ChunkerInit PROVE CInv
  OBVIOUS
<1>1. /\ text = EmptyText /\ byTurns = FALSE /\ next = 1 /\ inner = 0 /\ current = NoRun
      /\ chunks = <<>> /\ returned = TRUE
  BY DEF ChunkerInit
<1>2. IsText(text) /\ text.n = 0
  BY <1>1 DEF IsText, EmptyText
<1>3. ChunkerTypeOK
  <2>1. NoRun \in RunSet /\ <<>> \in Seq(RunSet)
    BY DEF NoRun, Run, RunSet
  <2>2. next \in 1..(text.n + 1) /\ inner \in 0..text.n
    BY <1>1, <1>2
  <2>3. current \in RunSet /\ chunks \in Seq(RunSet)
    BY <1>1, <2>1
  <2>. QED BY <1>1, <1>2, <2>2, <2>3 DEF ChunkerTypeOK
<1>4. Chain(text, byTurns, Runs, next)
  BY <1>1 DEF Chain, Runs
<1>5. Between
  BY <1>1, <1>2 DEF Between
<1>. QED BY <1>1, <1>2, <1>3, <1>4, <1>5 DEF CInv

-----------------------------------------------------------------------------
(* The theorems.                                                            *)

LEMMA ChunkerInvariant == ChunkerSpec => []CInv
  BY ChunkerInitCInv, ChunkerNextCInv, PTL DEF ChunkerSpec

(* What the invariant says of the runs.                                     *)
LEMMA GoodChunks ==
  CInv => NothingLost /\ TurnsStayWhole /\ WithinBudget /\ NoNeedlessSplit
<1>1. CInv => NothingLost
  BY DEF CInv, Chain, Follows, NothingLost
<1>2. CInv => TurnsStayWhole
  BY DEF CInv, Chain, GoodRun, WholeOrInside, TurnsStayWhole
<1>3. CInv => WithinBudget
  BY DEF CInv, Chain, GoodRun, WithinBudget
<1>4. CInv => NoNeedlessSplit
  <2>. SUFFICES ASSUME CInv, NEW i \in 1..(Len(Runs) - 1),
                       Runs[i].stripped = Runs[i + 1].stripped,
                       byTurns /\ Runs[i].stripped => Runs[i + 1].from \notin text.starts
                PROVE  Length(text, Runs[i]) + Length(text, Runs[i + 1]) + 2 > MaxChars
    BY DEF NoNeedlessSplit
  <2>1. ~Fits(text, Runs[i], Runs[i + 1])
    BY DEF CInv, Chain, Follows
  <2>2. Len(Runs) \in Nat
    BY DEF CInv, ChunkerTypeOK, Runs
  <2>3. GoodRun(text, byTurns, Runs[i]) /\ GoodRun(text, byTurns, Runs[i + 1])
    BY <2>2 DEF CInv, Chain
  <2>4. Length(text, Runs[i]) \in Int /\ Length(text, Runs[i + 1]) \in Int
    BY <2>3, LengthIsInteger DEF GoodRun, CInv, ChunkerTypeOK
  <2>. QED BY <2>1, <2>4, TextAssumption DEF Fits
<1>. QED BY <1>1, <1>2, <1>3, <1>4

(* No paragraph of a text is lost, repeated or moved by either chunker.     *)
THEOREM NothingEverLost == ChunkerSpec => []NothingLost
BY GoodChunks, ChunkerInvariant, PTL

(* A chunk of a conversation never starts inside a turn that fits.          *)
THEOREM TurnsAlwaysWhole == ChunkerSpec => []TurnsStayWhole
BY GoodChunks, ChunkerInvariant, PTL

(* A chunk over budget is a single paragraph.                               *)
THEOREM ChunksWithinBudget == ChunkerSpec => []WithinBudget
BY GoodChunks, ChunkerInvariant, PTL

(* Neighbouring chunks are apart because together they exceed the budget.   *)
THEOREM NeverNeedlesslySplit == ChunkerSpec => []NoNeedlessSplit
BY GoodChunks, ChunkerInvariant, PTL
=============================================================================
