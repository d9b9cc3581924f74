----------------------------- MODULE Perimeter -----------------------------
(***************************************************************************)
(* One request on its way through the middleware of the mounted surface to *)
(* a handler (pkg/starterapp app.go, identity.go, crosssite.go,            *)
(* admin_auth.go; reference/custommodule for a contributed handler), while *)
(* accounts, sessions and keys change between the reads it makes.          *)
(*                                                                         *)
(* The credential is read in one query and its owner in another, so either *)
(* may change in between, and both before the handler runs.                *)
(***************************************************************************)
EXTENDS Extensions

CONSTANTS
  Users,
  Administrator,  \* the seeded account, adminSubject
  TenantOf,
  Sessions,       \* session ids the auth service can still hand out; bounds the logins
  Keys,           \* API keys, some of them from before scopes were reserved
  Owner,          \* the user of each session and key
  ScopesOf,       \* the scopes stored with each key
  ReadPaths, WritePaths,   \* the paths requests are made to
  APIPaths,       \* the contributed paths under /api/v1/
  None, Idle

Tenants == {TenantOf[u] : u \in Users}
Credentials == Sessions \cup Keys
Interactive == {"admin", "console:access"}   \* reservedInteractiveScopes
Scopes == Interactive \cup {"authenticated", "users:write"} \cup UNION {ScopesOf[k] : k \in Keys}

Call == [write: BOOLEAN, path: ReadPaths \cup WritePaths,
         cookie: Sessions \cup {None}, bearer: Credentials \cup {None}, crossSite: BOOLEAN]

\* A page of another site can send the cookie along, but no Authorization header;
\* where a read comes from makes no difference, nor does a second session next to
\* a cookie.
Calls ==
  {c \in Call : /\ c.path \in IF c.write THEN WritePaths ELSE ReadPaths
                /\ c.crossSite => c.write /\ c.bearer = None
                /\ c.cookie # None => c.bearer \notin Sessions}

Anonymous == [via |-> None, subject |-> None, tenant |-> None, scopes |-> {}]
Principal == {Anonymous} \cup
  [via: Credentials, subject: Users, tenant: Tenants, scopes: SUBSET Scopes]
Request ==
  [call: Calls, pc: {"key", "keyOwner", "session", "sessionOwner", "route", "serve"},
   principal: Principal, dead: SUBSET (Credentials \cup Users)]

ASSUME PerimeterAssumption ==
  /\ Administrator \in Users
  /\ Sessions \cap Keys = {}
  /\ Credentials \cap Users = {}
  /\ Owner \in [Credentials -> Users]
  /\ DOMAIN ScopesOf = Keys
  /\ APIPaths \subseteq ModulePaths
  /\ None \notin Credentials \cup Users

VARIABLES
  account,   \* users: active, inactive, deleted
  session,   \* sessions: none (not handed out), live, ended (logged out, expired)
  liveKeys,  \* API keys that Verify accepts
  widgets,   \* the rows of the reference module, by tenant_id and owner_id
  request    \* the request; "dead": which of its credentials were not live, and which
             \* of their owners not active, at any moment since it arrived

vars == <<registry, boot, account, session, liveKeys, widgets, request>>

\* Every variable keeps its shape; nothing is served before the surface is mounted.
TypeOK ==
  /\ RegistryTypeOK
  /\ account \in [Users -> {"active", "inactive", "deleted"}]
  /\ session \in [Sessions -> {"none", "live", "ended"}]
  /\ liveKeys \subseteq Keys
  /\ widgets \subseteq [tenant: Tenants, owner: Users]
  /\ request # Idle => request \in Request /\ boot = "mounted"

Init ==
  /\ RegistryInit
  /\ account = [u \in Users |-> "active"]
  /\ session = [s \in Sessions |-> "none"]
  /\ liveKeys = Keys
  /\ widgets = {}
  /\ request = Idle

Dead(x) ==
  \/ x \in Keys \ liveKeys
  \/ x \in Sessions /\ session[x] # "live"
  \/ x \in Users /\ account[x] # "active"

-----------------------------------------------------------------------------
(***************************************************************************)
(* The middleware, on values.                                              *)
(***************************************************************************)

\* rejectCrossSiteMutations
PassesCrossSite(c) == ~c.write \/ c.bearer # None \/ ~c.crossSite

API(path) == path \in BuiltinAPI \cup APIPaths

\* isLoginRequest
Login(c) == c.write /\ c.path = "/api/v1/auth/sessions"

Has(p, scope) == "admin" \in p.scopes \/ scope \in p.scopes

\* requireAuthenticatedMutations
PassesMutationGate(c, p) == c.write /\ API(c.path) /\ ~Login(c) => p # Anonymous

\* authorizeBuiltinAPI
PassesScopes(c, p) ==
  /\ c.path = "/api/v1/users" =>
       p # Anonymous /\ Has(p, IF c.write THEN "users:write" ELSE "users:read")
  /\ c.path = "/api/v1/api-keys" =>
       p # Anonymous /\ Has(p, IF c.write THEN "api-keys:write" ELSE "api-keys:read")

GuardAdmin(c, p) ==
  c.path = "/admin" => p # Anonymous /\ Interactive \subseteq p.scopes

RequireMetricsAccess(c, p) ==
  c.path = "/metrics" => p # Anonymous /\ Has(p, "metrics:read")

\* requestActorWithScope, which a contributed handler asks itself
ActorWithScope(p, scope) == p # Anonymous /\ Has(p, scope)

\* Slip: key scopes go into the principal as they are stored.
KeyScopesAsStored(k) == ScopesOf[k]

\* newAPIKeyResolver: reserved scopes of old keys are dropped.
KeyScopes(k) == ScopesOf[k] \ Interactive

SessionScopes(s) ==
  {"authenticated"} \cup
    (IF Owner[s] = Administrator THEN Interactive \cup {"users:write"} ELSE {})

PrincipalOf(c, scopes) ==
  [via |-> c, subject |-> Owner[c], tenant |-> TenantOf[Owner[c]], scopes |-> scopes]

-----------------------------------------------------------------------------
(***************************************************************************)
(* The request.                                                            *)
(***************************************************************************)
At(pc) == request # Idle /\ request.pc = pc
Go(pc) == request' = [request EXCEPT !.pc = pc]
World == <<registry, boot, account, session, liveKeys, widgets>>

\* A request gets past the size limit and the cross-site check; one that does
\* not is answered and leaves no trace.
Receive(c) ==
  /\ boot = "mounted"
  /\ request = Idle
  /\ c.path \in Paths \/ MatchesPublic(c.path)
  /\ PassesCrossSite(c)
  /\ request' = [call |-> c, pc |-> "key", principal |-> Anonymous,
       dead |-> LET presented == {c.cookie, c.bearer} \ {None}
                IN {x \in presented \cup {Owner[y] : y \in presented} : Dead(x)}]
  /\ UNCHANGED World

VerifyKey ==
  /\ At("key")
  /\ Go(IF request.call.bearer \in liveKeys THEN "keyOwner" ELSE "session")
  /\ UNCHANGED World

\* activeUser: "credentials outlive their owner"
ActiveUser(u) == account[u] = "active"

\* Slip: a key that verifies needs no owner.
KeyOwnerUnread ==
  /\ At("keyOwner")
  /\ LET k == request.call.bearer IN
       request' = [request EXCEPT !.pc = "route", !.principal = PrincipalOf(k, KeyScopes(k))]
  /\ UNCHANGED World

\* The key's owner is read; an inactive one leaves the turn to the session resolver.
KeyOwner ==
  /\ At("keyOwner")
  /\ LET k == request.call.bearer IN
       IF ActiveUser(Owner[k])
       THEN request' = [request EXCEPT !.pc = "route", !.principal = PrincipalOf(k, KeyScopes(k))]
       ELSE Go("session")
  /\ UNCHANGED World

\* The session id a request presents: its cookie, else the bearer token.
Presented(c) == IF c.cookie # None THEN c.cookie ELSE c.bearer

ValidateSession ==
  /\ At("session")
  /\ LET s == Presented(request.call) IN
       Go(IF s \in Sessions /\ session[s] = "live" THEN "sessionOwner" ELSE "route")
  /\ UNCHANGED World

SessionOwner ==
  /\ At("sessionOwner")
  /\ LET s == Presented(request.call) IN
       IF ActiveUser(Owner[s])
       THEN request' = [request EXCEPT !.pc = "route",
              !.principal = PrincipalOf(s, SessionScopes(s))]
       ELSE Go("route")
  /\ UNCHANGED World

\* The public mux is asked first; what it does not match goes through the gates.
Route ==
  /\ At("route")
  /\ \/ MatchesPublic(request.call.path)
     \/ /\ PassesMutationGate(request.call, request.principal)
        /\ PassesScopes(request.call, request.principal)
        /\ GuardAdmin(request.call, request.principal)
        /\ RequireMetricsAccess(request.call, request.principal)
  /\ Go("serve")
  /\ UNCHANGED World

\* The request is answered, with whatever status, and nothing else happens.
Finish ==
  /\ request # Idle
  /\ request' = Idle
  /\ UNCHANGED World

-----------------------------------------------------------------------------
(***************************************************************************)
(* What handlers change, for this request or for another one.              *)
(***************************************************************************)
\* What comes alive while the request is in flight was not dead all along.
Revive ==
  request' = IF request = Idle THEN Idle
             ELSE [request EXCEPT !.dead = {x \in @ : Dead(x)'}]

SignIn(s) ==
  /\ session[s] = "none"
  /\ account[Owner[s]] = "active"
  /\ session' = [session EXCEPT ![s] = "live"]
  /\ UNCHANGED <<account, liveKeys>>

SignOut(s) ==
  /\ session' = [session EXCEPT ![s] = IF @ = "live" THEN "ended" ELSE @]
  /\ UNCHANGED <<account, liveKeys>>

ChangeAccount(u) ==
  /\ account[u] # "deleted"
  /\ \E state \in {"active", "inactive", "deleted"} \ {account[u]} :
       account' = [account EXCEPT ![u] = state]
  /\ UNCHANGED <<session, liveKeys>>

RevokeKey(k) ==
  /\ k \in liveKeys
  /\ liveKeys' = liveKeys \ {k}
  /\ UNCHANGED <<account, session>>

\* Slip: the row is stored with the owner the body left out.
NewWidgetOfBody(p) == [tenant |-> p.tenant, owner |-> None]

\* "server owns identity": tenant and owner are the principal's.
NewWidget(p) == [tenant |-> p.tenant, owner |-> p.subject]

Serving(path) == At("serve") /\ request.call.write /\ request.call.path = path

\* handleAdminLogin, and the auth module's own login
ServeLogin ==
  /\ Serving("/admin/login") \/ Serving("/api/v1/auth/sessions")
  /\ \E s \in Sessions : SignIn(s)
  /\ request' = Idle
  /\ UNCHANGED <<registry, boot, widgets>>

ServeLogout ==
  /\ Serving("/admin/logout")
  /\ request.call.cookie # None
  /\ SignOut(request.call.cookie)
  /\ request' = Idle
  /\ UNCHANGED <<registry, boot, widgets>>

ServeUserChange ==
  /\ Serving("/api/v1/users") \/ Serving("/admin")
  /\ \E u \in Users : TenantOf[u] = request.principal.tenant /\ ChangeAccount(u)
  /\ request' = Idle
  /\ UNCHANGED <<registry, boot, widgets>>

ServeKeyRevocation ==
  /\ Serving("/api/v1/api-keys")
  /\ \E k \in Keys : TenantOf[Owner[k]] = request.principal.tenant /\ RevokeKey(k)
  /\ request' = Idle
  /\ UNCHANGED <<registry, boot, widgets>>

\* The contributed widget handler asks for an actor and a scope itself.
ServeCreateWidget ==
  /\ Serving("/api/v1/widgets")
  /\ ActorWithScope(request.principal, "widgets:write")
  /\ widgets' = widgets \cup {NewWidget(request.principal)}
  /\ request' = Idle
  /\ UNCHANGED <<registry, boot, account, session, liveKeys>>

\* Other requests, of people entitled to them, and sessions that expire.
Elsewhere ==
  /\ boot = "mounted"
  /\ \/ \E s \in Sessions : SignIn(s) \/ (session[s] = "live" /\ SignOut(s))
     \/ \E u \in Users : ChangeAccount(u)
     \/ \E k \in Keys : RevokeKey(k)
  /\ Revive
  /\ UNCHANGED <<registry, boot, widgets>>

Next ==
  \/ RegistryStep /\ UNCHANGED <<account, session, liveKeys, widgets, request>>
  \/ \E c \in Calls : Receive(c)
  \/ VerifyKey
  \/ KeyOwner
  \/ ValidateSession
  \/ SessionOwner
  \/ Route
  \/ ServeLogin
  \/ ServeLogout
  \/ ServeUserChange
  \/ ServeKeyRevocation
  \/ ServeCreateWidget
  \/ Finish
  \/ Elsewhere

Spec == Init /\ [][Next]_vars

-----------------------------------------------------------------------------
\* "Credentials outlive their owner", and must not speak for it: no handler is
\* called for a principal whose session or key was ended all the time since the
\* request arrived, or whose owner was inactive or gone all that time.  (Both are
\* read, one after the other: that they were ever good together is not said.)
DeadCredentialsNeverServe ==
  At("serve") =>
    /\ request.principal.via \notin request.dead
    /\ request.principal.subject \notin request.dead

\* Interactive privileges are the seeded administrator's session and nobody
\* else's, however old a key is and whatever it was issued with; so nothing but
\* that session reaches the console.
ConsoleIsTheAdministrators ==
  At("serve") =>
    /\ request.principal.scopes \cap Interactive # {} =>
         request.principal.via \in Sessions /\ request.principal.subject = Administrator
    /\ request.call.path = "/admin" => request.principal.subject = Administrator

\* Nothing is written for nobody: a write under /api/v1 that no module declared
\* public, other than the login, is served for a principal, even by a handler
\* that does not ask; no page of another site has a write served on its
\* visitor's cookie; and a row says who wrote it, in whose tenant.
WritesHaveAnAuthor ==
  /\ At("serve") /\ request.call.write =>
       /\ API(request.call.path) /\ request.principal = Anonymous =>
            Login(request.call) \/ request.call.path \in PublicPaths
       /\ request.call.crossSite => request.principal = Anonymous
  /\ \A row \in widgets : row.tenant = TenantOf[row.owner]
=============================================================================
