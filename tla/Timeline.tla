------------------------------- MODULE Timeline -------------------------------
(***************************************************************************)
(* What the record promises about an owner's claims (resolver.py:3-8):     *)
(* a claim, once asserted, stays; a later claim on the same topic may      *)
(* succeed it and the link between them is kept; a claim is retired from   *)
(* active only by such a link; claims asserted at the same time may be     *)
(* recorded as conflicting.  Nothing is ever taken back.                   *)
(***************************************************************************)
EXTENDS Naturals

CONSTANTS
  Claims,
  Topic,       \* claim -> topic
  Content,     \* claim -> content
  Time         \* claim -> time

VARIABLES
  status,      \* claim -> "absent", or where it stands on the epistemic axis
  successions, \* pairs <<newer, older>>
  conflicts    \* pairs <<claim, claim it contradicts>>

vars == <<status, successions, conflicts>>

Rivals(c, d) == c # d /\ Topic[c] = Topic[d] /\ Content[c] # Content[d]
Asserted(c) == status[c] # "absent"

Init ==
  /\ status = [c \in Claims |-> "absent"]
  /\ successions = {}
  /\ conflicts = {}

(* A claim enters active, or already retired when a later one is known, or  *)
(* contradicted by a claim of the same time that is in the record.          *)
Assert(c) ==
  /\ ~Asserted(c)
  /\ \E s \in {"active", "superseded", "contradicted"} :
       /\ s = "contradicted" =>
            \E d \in Claims : Asserted(d) /\ Rivals(c, d) /\ Time[c] = Time[d]
       /\ s = "superseded" =>
            \E d \in Claims : Rivals(c, d) /\ Time[c] < Time[d]
       /\ status' = [status EXCEPT ![c] = s]
  /\ UNCHANGED <<successions, conflicts>>

Succeed(newer, older) ==
  /\ Asserted(newer) /\ Asserted(older)
  /\ Rivals(newer, older) /\ Time[older] < Time[newer]
  /\ successions' = successions \cup {<<newer, older>>}
  /\ UNCHANGED <<status, conflicts>>

Retire(older) ==
  /\ status[older] = "active"
  /\ \E newer \in Claims : <<newer, older>> \in successions
  /\ status' = [status EXCEPT ![older] = "superseded"]
  /\ UNCHANGED <<successions, conflicts>>

Conflict(c, d) ==
  /\ Asserted(c) /\ Asserted(d)
  /\ Rivals(c, d) /\ Time[c] = Time[d]
  /\ conflicts' = conflicts \cup {<<c, d>>}
  /\ UNCHANGED <<status, successions>>

Next ==
  \/ \E c \in Claims : Assert(c) \/ Retire(c)
  \/ \E c, d \in Claims : Succeed(c, d) \/ Conflict(c, d)

Spec == Init /\ [][Next]_vars
=============================================================================
