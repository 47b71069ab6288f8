SPECIFICATION Spec
CONSTANTS
  ann = ann
  ben = ben
  annGoogle = annGoogle
  annGithub = annGithub
  benGoogle = benGoogle
  google = google
  github = github
  Nobody = Nobody
  Flows = {f1, f2}
  Handlers = {h1, h2}
  Users = {ann, ben}
  Accounts = {annGoogle, annGithub, benGoogle}
  Providers = {google, github}
  ProviderOf <- Providing
  UserOf <- Belonging
  Primary = google
  TTL = 1
  MaxTime = 3
  MaxRestarts = 1
  MaxLogins = 1
INVARIANTS TypeOK OneExchangePerFlow OpenUntilTold RowsHoldTheirOwnTokens
SYMMETRY Alike
CHECK_DEADLOCK FALSE
