----------------------------- MODULE Extensions -----------------------------
(***************************************************************************)
(* Contributed modules joining the application (pkg/starterapp app.go,     *)
(* extension.go, openapi.go): BuildApp takes them one by one and refuses   *)
(* the first whose names are taken; Mux mounts the routes of all of them   *)
(* next to the starter's own.                                              *)
(*                                                                         *)
(* A path stands for the pattern that matches it; patterns are plain       *)
(* paths, as every module of the repository registers them.                *)
(***************************************************************************)
EXTENDS Naturals, Sequences

CONSTANTS
  ModuleIds,
  ModulePaths,    \* paths contributed modules may register
  OperationIds,
  Operations,     \* OpenAPI operations: an id, a method and path
  Contributions   \* lists of modules a host may pass to WithModules

BuiltinIds == {"admin", "auth_management", "user_management", "branding_management"}
BuiltinAPI == {"/api/v1/users", "/api/v1/api-keys", "/api/v1/auth/sessions"}
Console == {"/admin", "/admin/login", "/admin/logout"}
Operational == {"/healthz", "/metrics", "/live", "/ready", "/openapi/extensions.json"}
Identity == {"/", "/favicon.ico"}   \* the product's own, which a module may claim

\* ModulePlugin; a nil RegisterRoutes is an empty set of paths.
Plugin == [id: BuiltinIds \cup ModuleIds \cup {""},
           private: SUBSET (ModulePaths \cup Operational \cup Identity),
           public: SUBSET (ModulePaths \cup Identity),
           openAPI: Seq(Operations)]

ASSUME ExtensionsAssumption ==
  /\ Operations \subseteq [id: OperationIds, route: STRING]
  /\ Contributions \subseteq Seq(Plugin)
  /\ ModulePaths \cap (BuiltinAPI \cup Console \cup Operational \cup Identity) = {}

VARIABLES
  contributed,     \* the modules BuildApp has still to look at
  extra,           \* those it accepted
  ids,             \* the module ids taken
  openAPIOwners,   \* ids and routes taken by accepted operations
  boot             \* how far the start has come

registry == <<contributed, extra, ids, openAPIOwners>>

RegistryTypeOK ==
  /\ contributed \in Seq(Plugin)
  /\ extra \in Seq(Plugin)
  /\ ids \subseteq BuiltinIds \cup ModuleIds
  /\ openAPIOwners \subseteq OperationIds \cup {o.route : o \in Operations}
  /\ boot \in {"building", "mounted", "refused"}

RegistryInit ==
  /\ contributed \in Contributions
  /\ extra = <<>>
  /\ ids = BuiltinIds
  /\ openAPIOwners = {}
  /\ boot = "building"

-----------------------------------------------------------------------------
Declared(operations) ==
  UNION {{operations[i].id, operations[i].route} : i \in DOMAIN operations}

\* Slip: a module's operations are compared with those of earlier modules only.
ValidOperationsOfOthers(operations) == Declared(operations) \cap openAPIOwners = {}

\* validateOpenAPIOperations: no id and no route is taken, by an earlier module
\* or by an earlier operation of this one.
ValidOperations(operations) ==
  /\ Declared(operations) \cap openAPIOwners = {}
  /\ \A i, j \in DOMAIN operations :
       i # j => operations[i].id # operations[j].id /\ operations[i].route # operations[j].route

Acceptable(plugin) ==
  /\ plugin.id # ""
  /\ plugin.id \notin ids
  /\ plugin.private # {} \/ plugin.public # {}
  /\ ValidOperations(plugin.openAPI)

\* One turn of BuildApp's loop over the contributed modules.
AcceptModule ==
  /\ boot = "building" /\ contributed # <<>>
  /\ LET plugin == Head(contributed) IN
       /\ Acceptable(plugin)
       /\ extra' = Append(extra, plugin)
       /\ ids' = ids \cup {plugin.id}
       /\ openAPIOwners' = openAPIOwners \cup Declared(plugin.openAPI)
  /\ contributed' = Tail(contributed)
  /\ UNCHANGED boot

\* An error of the loop ends BuildApp.
RefuseModule ==
  /\ boot = "building" /\ contributed # <<>>
  /\ ~Acceptable(Head(contributed))
  /\ boot' = "refused"
  /\ UNCHANGED registry

-----------------------------------------------------------------------------
PublicPaths == UNION {extra[i].public : i \in DOMAIN extra}
PrivatePaths == UNION {extra[i].private : i \in DOMAIN extra}
Paths == BuiltinAPI \cup Console \cup Operational \cup Identity \cup PrivatePaths

\* ServeMux refuses a pattern it has; landing page and icon yield, the rest of
\* the starter's paths do not.
Collision ==
  \/ PrivatePaths \cap (BuiltinAPI \cup Console \cup Operational) # {}
  \/ \E i, j \in DOMAIN extra :
       i # j /\ (extra[i].private \cap extra[j].private # {} \/
                 extra[i].public \cap extra[j].public # {})

\* Slip: nobody looks for a public catch-all.
RefusedSurfaceUnlessCollision == Collision

RefusedSurface == Collision \/ "/" \in PublicPaths

\* Mux: the whole surface, or an error (for a collision, a panic).
BuildMux ==
  /\ boot = "building" /\ contributed = <<>>
  /\ boot' = IF RefusedSurface THEN "refused" ELSE "mounted"
  /\ UNCHANGED registry

\* The dispatcher asks the public mux first; a catch-all there matches all.
MatchesPublic(path) == path \in PublicPaths \/ "/" \in PublicPaths

RegistryStep == AcceptModule \/ RefuseModule \/ BuildMux

-----------------------------------------------------------------------------
\* The accepted operations in the order they were taken.
Positions == UNION {{i} \X DOMAIN extra[i].openAPI : i \in DOMAIN extra}
OperationAt(x) == extra[x[1]].openAPI[x[2]]
Later(x, y) == x[1] < y[1] \/ (x[1] = y[1] /\ x[2] < y[2])

\* extensionOpenAPIHandler fills the document in that order: an entry for a method
\* and path overwrites the one before it.
Document ==
  [route \in {OperationAt(x).route : x \in Positions} |->
    LET last == CHOOSE x \in Positions :
                  /\ OperationAt(x).route = route
                  /\ \A y \in Positions : OperationAt(y).route = route => ~Later(x, y)
    IN OperationAt(last).id]

\* What a mounted application publishes is what its modules declared: no entry of
\* the document overwrites another, no operation id appears twice, within a module
\* or across modules, and no module has the id of another or of a built-in one.
OneOwner ==
  boot = "mounted" =>
    /\ \A i, j \in DOMAIN extra :
         /\ extra[i].id \notin BuiltinIds
         /\ i # j => extra[i].id # extra[j].id
    /\ \A x \in Positions :
         /\ Document[OperationAt(x).route] = OperationAt(x).id
         /\ \A y \in Positions \ {x} : OperationAt(y).id # OperationAt(x).id
=============================================================================
