---------------------------- MODULE MCOAuthConsent ----------------------------
(* Instances of OAuthConsent for TLC: one user with an account at each of   *)
(* the two providers, and a second user at the first.                       *)
EXTENDS OAuthConsent, TLC

CONSTANTS ann, ben, annGoogle, annGithub, benGoogle, google, github

Providing == annGoogle :> google @@ annGithub :> github @@ benGoogle :> google
Belonging == annGoogle :> ann @@ annGithub :> ann @@ benGoogle :> ben

(* Neither the handlers nor the state ids are told apart.                   *)
Alike == Permutations(Handlers) \cup Permutations(Flows)
=============================================================================
