----------------------------- MODULE Permissions -----------------------------
(***************************************************************************)
(* The permission check: `evaluate` of shared/src/permissions.rs and its   *)
(* mirror in orchestrator/permissions.py.  It decides from a scope, the    *)
(* access control facts an object carries, and the time, alone.            *)
(***************************************************************************)
EXTENDS Naturals

CONSTANTS
  Owners,
  Agents,
  Sources,
  Kinds,   \* of entities
  Unset    \* the option that is not there

ASSUME UnsetAssumption == Unset \notin Nat \cup Owners

Sensitivity == 0..3
Option == Nat \cup {Unset}

ObjectAcl == [owner : Owners, sources : SUBSET Sources, sensitivity : Sensitivity,
              kinds : SUBSET Kinds, occurred : Nat, denied : SUBSET Agents]

Scope == [agent : Agents, owner : Owners, sources : SUBSET Sources,
          kinds : SUBSET Kinds, notBefore : Option, notAfter : Option,
          max : Sensitivity, expires : Option]

(* All of what an object needs, and an object that needs nothing is not     *)
(* covered by anything.                                                     *)
Covers(granted, needed) == needed # {} /\ needed \subseteq granted

Expired(scope, now) == scope.expires # Unset /\ now >= scope.expires

Outside(scope, acl) ==
  \/ scope.notBefore # Unset /\ acl.occurred < scope.notBefore
  \/ scope.notAfter # Unset /\ acl.occurred > scope.notAfter

(* The reasons for a refusal, in the order they are looked at.              *)
Checks(scope, acl, now) ==
  << <<"wrong_owner", scope.owner # acl.owner>>,
     <<"grant_expired", Expired(scope, now)>>,
     <<"agent_revoked", scope.agent \in acl.denied>>,
     <<"source_not_in_scope", ~Covers(scope.sources, acl.sources)>>,
     <<"entity_kind_not_in_scope", ~Covers(scope.kinds, acl.kinds)>>,
     <<"outside_time_window", Outside(scope, acl)>>,
     <<"too_sensitive", acl.sensitivity > scope.max>> >>

(* evaluate: the first reason that applies.                                 *)
evaluate(scope, acl, now) ==
  LET checks == Checks(scope, acl, now)
      failed == {i \in DOMAIN checks : checks[i][2]}
  IN  IF failed = {} THEN "allow"
      ELSE checks[CHOOSE i \in failed : \A j \in failed : i <= j][1]

permits(scope, acl, now) == evaluate(scope, acl, now) = "allow"

=============================================================================
