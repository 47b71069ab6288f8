SPECIFICATION Spec
CONSTANTS
  Unset = Unset
  ann = ann
  bob = bob
  agent = agent
  github = github
  calendar = calendar
  project = project
  person = person
  x1 = x1
  x2 = x2
  Owners = {ann, bob}
  Agents = {agent}
  Sources = {github, calendar}
  Kinds = {project, person}
  Objects = {x1, x2}
  AclsOf <- AnnsChangesBobsDoesNot
  Requests <- ThreeRequests
  Ttls = {1, 15}
  SessionTtl = 2
  Leeway = 1
  Second = 2
  Width = 16
  TopK = 2
  MaxTime = 8
  MaxSessions = 2
  MaxGrants = 2
INVARIANTS TypeOK CitesWhatWasGranted NothingAfterTheDeadline UsableUntilTold DeniedForCause
