SPECIFICATION HostSpec
CONSTANTS
  c1 = c1
  r1 = r1
  r2 = r2
  Instances = {"i1", "users"}
  AllServices <- UsersAndContent
  Passwords = {"yajudge", "other"}
  NewSettings <- AdministratorWrites
  Clients = {c1}
  MaxMonitors = 5
  MaxTries = 1
  Commands <- UsedCommands
  Requests = {r1, r2}
  StaticFiles = {"/index.html", "/app.js"}
  Scenarios <- AllScenarios
INVARIANTS
  HostTypeOK
  StaleIsTold
  UntouchedRunsOn
  NothingLeftBehind
  PanicCause
  OutdatedIsDropped
  CompletedIsUsable
  BadSiteCause
  DialsBounded
  NilOnlyIfDropped
  ReloadIsComplete
  FileServed
PROPERTIES
  WholeFilesKept
  SettlesDown
CHECK_DEADLOCK FALSE
