SPECIFICATION Spec
CONSTANTS
  admin = admin
  member = member
  s1 = s1
  s2 = s2
  k1 = k1
  k2 = k2
  here = here
  elsewhere = elsewhere
  None = None
  Idle = Idle
  ModuleIds = {"widget", "polls", "notes"}
  ModulePaths = {"/api/v1/widgets", "/api/v1/notes", "/api/v1/public/polls"}
  APIPaths = {"/api/v1/widgets", "/api/v1/notes", "/api/v1/public/polls"}
  ReadPaths = {"/admin", "/metrics"}
  WritePaths = {"/api/v1/users", "/api/v1/api-keys", "/api/v1/auth/sessions", "/admin/login",
    "/admin/logout", "/api/v1/widgets", "/api/v1/notes", "/api/v1/public/polls"}
  OperationIds = {"create", "vote"}
  Operations <- MCOperations
  Contributions <- MCContributions
  Users = {admin, member}
  Administrator = admin
  TenantOf <- MCTenantOf
  Sessions = {s1, s2}
  Keys = {k1, k2}
  Owner <- MCOwner
  ScopesOf <- MCScopesOf
INVARIANTS
  TypeOK
  OneOwner
  DeadCredentialsNeverServe
  ConsoleIsTheAdministrators
  WritesHaveAnAuthor
CHECK_DEADLOCK FALSE
