------------------------------ MODULE Extraction ------------------------------
(***************************************************************************)
(* What an extractor makes of one raw record of an owner: entities, the    *)
(* event, and claims (extraction/mock.py, extraction/llm.py), with the     *)
(* parts of a claim the resolver compares (resolution/resolver.py).        *)
(*                                                                         *)
(* A record is what the mock grammar finds in its title and body: the      *)
(* decisions and the promises, and the projects and artifacts that are     *)
(* named anywhere.  Names are in lower case, as ids take them; words are   *)
(* the tokens of a statement that are no stopwords.  An id is what it is   *)
(* derived from.                                                           *)
(***************************************************************************)
EXTENDS Naturals, Sequences

CONSTANT None  \* the party or the deadline that is not there

Image(f) == {f[i] : i \in DOMAIN f}

-----------------------------------------------------------------------------
(* Ids: the prefix and the parts that stable_id hashes.                     *)

stable_id(prefix, a, b) == <<prefix, a, b>>
EventId(r) == stable_id("evt", r.connector, r.id)
EntityId(kind, name) == stable_id("ent", kind, name)
ClaimId(r, words) == stable_id("clm", EventId(r), words)

KindsOf(entities) == {e[2] : e \in entities}

NoFacet == [by |-> None, to |-> None, due |-> None]

(* The entities a claim is about and the parties of its commitment.         *)
Parties(facet) == {facet.by, facet.to} \ {None}
Involved(c) == c.subjects \cup Parties(c.facet)

(* The acl of a claim: the record's own, and the kinds the claim involves.  *)
(* A sensitive record is confidential, any other one personal.              *)
ClaimAcl(r, c, owner) ==
  [owner |-> owner, sources |-> {r.connector},
   sensitivity |-> IF r.sensitive THEN 2 ELSE 1, kinds |-> KindsOf(Involved(c)),
   occurred |-> r.occurred, denied |-> {}]

-----------------------------------------------------------------------------
(* MockExtractor.                                                           *)

Person(name) == EntityId("person", name)
PersonOrNone(name) == IF name = None THEN None ELSE Person(name)

MockThings(r) ==
  {EntityId("project", n) : n \in r.projects} \cup {EntityId("artifact", n) : n \in r.artifacts}

MockEntities(r) ==
  {Person(n) : n \in r.participants \cup {d.who : d \in Image(r.decisions)}}
    \cup {Person(p.by) : p \in Image(r.promises)}
    \cup {Person(p.to) : p \in {q \in Image(r.promises) : q.to # None}}
    \cup MockThings(r)

(* Decisions first, then promises; a deadline is part of the statement.     *)
DecisionClaim(r, d) ==
  [id |-> ClaimId(r, d.words), words |-> d.words,
   subjects |-> MockThings(r), facet |-> NoFacet]

PromiseWords(p) == IF p.due = None THEN p.words ELSE p.words \o <<"by", p.due>>

PromiseClaim(r, p) ==
  [id |-> ClaimId(r, PromiseWords(p)), words |-> PromiseWords(p),
   subjects |-> MockThings(r),
   facet |-> [by |-> Person(p.by), to |-> PersonOrNone(p.to), due |-> p.due]]

MockClaims(r) ==
  [i \in DOMAIN r.decisions |-> DecisionClaim(r, r.decisions[i])]
    \o [i \in DOMAIN r.promises |-> PromiseClaim(r, r.promises[i])]

(* The event cites itself first, and every record the metadata names.       *)
MockCitations(r) == {EventId(r)} \cup {stable_id("evt", c[1], c[2]) : c \in r.cites}

-----------------------------------------------------------------------------
(* The model's answer: entities with kind and name, and claims with the     *)
(* names of their subjects and, perhaps, a commitment.                      *)

LlmEntities(answer) == {EntityId(e.kind, e.name) : e \in Image(answer.entities)}

(* by_name: the last of two entities of one name wins, whatever its kind.   *)
by_name(answer, name) ==
  LET named == {i \in DOMAIN answer.entities : answer.entities[i].name = name}
      last == CHOOSE i \in named : \A j \in named : j <= i
  IN  IF named = {} THEN None
      ELSE EntityId(answer.entities[last].kind, answer.entities[last].name)

(* A commitment nobody owes is a plain claim.                               *)
commitment_of(answer, raw) ==
  IF raw = NoFacet \/ by_name(answer, raw.by) = None THEN NoFacet
  ELSE [by |-> by_name(answer, raw.by), to |-> by_name(answer, raw.to), due |-> raw.due]

LlmClaim(r, answer, raw) ==
  [id |-> ClaimId(r, raw.words), words |-> raw.words,
   subjects |-> {by_name(answer, n) : n \in Image(raw.subjects)} \ {None},
   facet |-> commitment_of(answer, raw.commitment)]

LlmClaims(r, answer) ==
  [i \in DOMAIN answer.claims |-> LlmClaim(r, answer, answer.claims[i])]

-----------------------------------------------------------------------------
(* What the resolver compares of two claims.                                *)

topic_of(c) == {c.words[i] : i \in DOMAIN c.words \cap 1..3}
content_of(c) == <<Image(c.words), c.facet>>
=============================================================================
