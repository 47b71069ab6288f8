------------------------------- MODULE MCQuery -------------------------------
(* An instance of Query for TLC: ann's object is written from a personal    *)
(* record and later from a sensitive one of another source, bob's stays.    *)
EXTENDS Query

CONSTANTS ann, bob, agent, github, calendar, project, person, x1, x2

Acl(who, from, how, kinds) ==
  [owner |-> who, sources |-> {from}, sensitivity |-> how, kinds |-> kinds,
   occurred |-> 1, denied |-> {}]

AnnsChangesBobsDoesNot ==
  [x \in {x1, x2} |->
     IF x = x1 THEN {Acl(ann, github, 1, {project}), Acl(ann, calendar, 2, {project, person})}
     ELSE {Acl(bob, github, 1, {project})}]

Asked(who, sources, kinds, max, expires) ==
  [agent |-> agent, owner |-> who, sources |-> sources, kinds |-> kinds,
   notBefore |-> 1, notAfter |-> Unset, max |-> max, expires |-> expires]

(* Ann's projects on github, everything of hers until some time, bob's.     *)
ThreeRequests ==
  {Asked(ann, {github}, {project}, 1, Unset),
   Asked(ann, {github, calendar}, {project, person}, 3, 3),
   Asked(bob, {github}, {project}, 1, Unset)}
=============================================================================
