--------------------------- MODULE PerimeterProofs ---------------------------
(***************************************************************************)
(* What Perimeter guarantees for any accounts, sessions, keys, stored      *)
(* scopes, paths and lists of contributed modules.                         *)
(***************************************************************************)
EXTENDS Perimeter, ExtensionsProofs

-----------------------------------------------------------------------------
(***************************************************************************)
(* Type correctness.                                                       *)
(***************************************************************************)

\* Whom a key or a session makes of a request is a principal.
LEMMA PrincipalTyped ==
  /\ \A k \in Keys : PrincipalOf(k, KeyScopes(k)) \in Principal
  /\ \A s \in Sessions : PrincipalOf(s, SessionScopes(s)) \in Principal
<1>1. ASSUME NEW k \in Keys
      PROVE  PrincipalOf(k, KeyScopes(k)) \in Principal
  <2>1. ScopesOf[k] \subseteq Scopes
    BY DEF Scopes
  <2>2. Owner[k] \in Users /\ TenantOf[Owner[k]] \in Tenants
    BY PerimeterAssumption DEF Credentials, Tenants
  <2>3. QED
    BY <2>1, <2>2 DEF PrincipalOf, KeyScopes, Principal, Credentials
<1>2. ASSUME NEW s \in Sessions
      PROVE  PrincipalOf(s, SessionScopes(s)) \in Principal
  <2>1. SessionScopes(s) \subseteq Scopes
    BY DEF SessionScopes, Scopes, Interactive
  <2>2. Owner[s] \in Users /\ TenantOf[Owner[s]] \in Tenants
    BY PerimeterAssumption DEF Credentials, Tenants
  <2>3. QED
    BY <2>1, <2>2 DEF PrincipalOf, Principal, Credentials
<1>3. QED
  BY <1>1, <1>2

\* What one change to sessions, accounts or keys leaves.
LEMMA CredentialsTyped ==
  ASSUME TypeOK,
         \/ \E s \in Sessions : SignIn(s) \/ SignOut(s)
         \/ \E u \in Users : ChangeAccount(u)
         \/ \E k \in Keys : RevokeKey(k)
  PROVE  /\ account' \in [Users -> {"active", "inactive", "deleted"}]
         /\ session' \in [Sessions -> {"none", "live", "ended"}]
         /\ liveKeys' \subseteq Keys
<1>1. CASE \E s \in Sessions : SignIn(s) \/ SignOut(s)
  BY <1>1 DEF TypeOK, SignIn, SignOut
<1>2. CASE \E u \in Users : ChangeAccount(u)
  BY <1>2 DEF TypeOK, ChangeAccount
<1>3. CASE \E k \in Keys : RevokeKey(k)
  BY <1>3 DEF TypeOK, RevokeKey
<1>4. QED
  BY <1>1, <1>2, <1>3

-----------------------------------------------------------------------------
(***************************************************************************)
(* The inductive invariant.                                                *)
(***************************************************************************)

\* What a principal's privileges say of its credential.
Honest(p) ==
  p = Anonymous \/
    /\ p.tenant = TenantOf[p.subject]
    /\ p.scopes \cap Interactive # {} => p.via \in Sessions /\ p.subject = Administrator

\* The gates on the way to a handler.
Gated(c, p) ==
  /\ PassesMutationGate(c, p)
  /\ GuardAdmin(c, p)

\* What the steps of a request know of it: the credential just read was live at
\* some moment since it arrived, and so was its owner once that is read.
Sound(r) ==
  /\ \A x \in r.dead : Dead(x)
  /\ r.pc = "keyOwner" => r.call.bearer \in Keys \ r.dead
  /\ r.pc = "sessionOwner" => Presented(r.call) \in Sessions \ r.dead
  /\ ~r.call.crossSite
  /\ Honest(r.principal)
  /\ r.principal.via \notin r.dead
  /\ r.principal.subject \notin r.dead
  /\ r.pc = "serve" => MatchesPublic(r.call.path) \/ Gated(r.call, r.principal)

RowsHaveAuthors == \A row \in widgets : row.tenant = TenantOf[row.owner]

IInv ==
  /\ TypeOK
  /\ boot = "mounted" => "/" \notin PublicPaths
  /\ request # Idle => Sound(request)
  /\ RowsHaveAuthors

\* A step that changes the request alone keeps the invariant if the request it
\* leaves is sound.
LEMMA OnlyTheRequest ==
  ASSUME IInv, UNCHANGED World,
         request' # Idle => request' \in Request /\ boot = "mounted" /\ Sound(request')
  PROVE  IInv'
<1> USE DEF World, registry
<1>1. TypeOK'
  BY DEF IInv, TypeOK, RegistryTypeOK
<1>2. (boot = "mounted" => "/" \notin PublicPaths)'
  BY DEF IInv, PublicPaths
<1>3. ASSUME request' # Idle
      PROVE  Sound(request)'
  <2>1. Sound(request')
    BY <1>3
  <2>2. \A x : Dead(x)' <=> Dead(x)
    BY DEF Dead
  <2>3. \A path : MatchesPublic(path)' <=> MatchesPublic(path)
    BY DEF MatchesPublic, PublicPaths
  <2>4. QED
    BY <2>1, <2>2, <2>3 DEF Sound, Gated, PassesMutationGate, GuardAdmin, Honest
<1>4. RowsHaveAuthors'
  BY DEF IInv, RowsHaveAuthors
<1>5. QED
  BY <1>1, <1>2, <1>3, <1>4 DEF IInv

\* A request without a credential claims nothing.
LEMMA AnonymousSound ==
  ASSUME NEW dead \in SUBSET (Credentials \cup Users)
  PROVE  /\ Anonymous \in Principal
         /\ Honest(Anonymous)
         /\ Anonymous.via \notin dead /\ Anonymous.subject \notin dead
BY PerimeterAssumption DEF Anonymous, Principal, Honest

\* A key never carries interactive scopes.
LEMMA KeySound ==
  ASSUME NEW k \in Keys
  PROVE  /\ PrincipalOf(k, KeyScopes(k)) \in Principal
         /\ Honest(PrincipalOf(k, KeyScopes(k)))
<1>1. PrincipalOf(k, KeyScopes(k)) \in Principal
  BY PrincipalTyped
<1>2. KeyScopes(k) \cap Interactive = {}
  BY DEF KeyScopes
<1>3. QED
  BY <1>1, <1>2 DEF Honest, PrincipalOf

\* A session carries them only if it is the administrator's.
LEMMA SessionSound ==
  ASSUME NEW s \in Sessions
  PROVE  /\ PrincipalOf(s, SessionScopes(s)) \in Principal
         /\ Honest(PrincipalOf(s, SessionScopes(s)))
<1>1. PrincipalOf(s, SessionScopes(s)) \in Principal
  BY PrincipalTyped
<1>2. SessionScopes(s) \cap Interactive # {} => Owner[s] = Administrator
  BY DEF SessionScopes, Interactive
<1>3. QED
  BY <1>1, <1>2 DEF Honest, PrincipalOf

-----------------------------------------------------------------------------
(***************************************************************************)
(* The steps of the followed request.                                      *)
(***************************************************************************)
\* A request that arrives claims nothing yet, and is no write of another site.
LEMMA ReceiveSound ==
  ASSUME IInv, NEW c \in Calls, Receive(c)
  PROVE  IInv'
<1> DEFINE presented == {c.cookie, c.bearer} \ {None}
           dead == {x \in presented \cup {Owner[y] : y \in presented} : Dead(x)}
           r == [call |-> c, pc |-> "key", principal |-> Anonymous, dead |-> dead]
<1>1. request' = r /\ boot = "mounted" /\ UNCHANGED World /\ PassesCrossSite(c)
  BY DEF Receive
<1>2. c.cookie \in Sessions \cup {None} /\ c.bearer \in Credentials \cup {None}
  BY DEF Calls, Call
<1>3. dead \in SUBSET (Credentials \cup Users)
  <2>1. presented \subseteq Credentials
    BY <1>2 DEF Credentials
  <2>2. {Owner[y] : y \in presented} \subseteq Users
    BY <2>1, PerimeterAssumption
  <2>3. QED
    BY <2>1, <2>2
<1>4. r \in Request
  BY <1>3, AnonymousSound DEF Request
<1>5. ~c.crossSite
  BY <1>1 DEF Calls, Call, PassesCrossSite
<1>6. Sound(r)
  <2>1. \A x \in dead : Dead(x)
    OBVIOUS
  <2> HIDE DEF dead
  <2>2. QED
    BY <1>3, <1>5, <2>1, AnonymousSound DEF Sound
<1> HIDE DEF r
<1>7. QED
  BY <1>1, <1>4, <1>6, OnlyTheRequest

\* A key that verifies is live at that moment.
LEMMA VerifyKeySound ==
  ASSUME IInv, VerifyKey
  PROVE  IInv'
<1> USE DEF IInv, TypeOK, At, Go
<1>1. request \in Request /\ Sound(request) /\ boot = "mounted"
  BY DEF VerifyKey
<1>2. request' \in Request
  BY <1>1 DEF VerifyKey, Request
<1>3. request.call.bearer \in liveKeys => request.call.bearer \in Keys \ request.dead
  <2>1. liveKeys \subseteq Keys
    OBVIOUS
  <2>2. ASSUME NEW k \in liveKeys
        PROVE  ~Dead(k)
    BY <2>1, PerimeterAssumption DEF Dead, Credentials
  <2>3. QED
    BY <1>1, <2>1, <2>2 DEF Sound
<1>4. Sound(request')
  BY <1>1, <1>3 DEF VerifyKey, Sound, Request
<1>5. QED
  BY <1>1, <1>2, <1>4, OnlyTheRequest DEF VerifyKey

\* An owner read as active is active at that moment, and the key was live before.
LEMMA KeyOwnerSound ==
  ASSUME IInv, KeyOwner
  PROVE  IInv'
<1> DEFINE k == request.call.bearer
           p == PrincipalOf(k, KeyScopes(k))
<1> USE DEF IInv, TypeOK, At
<1>1. request \in Request /\ Sound(request) /\ boot = "mounted" /\ request.pc = "keyOwner"
  BY DEF KeyOwner
<1>2. k \in Keys /\ k \notin request.dead
  BY <1>1 DEF Sound
<1>3. CASE ActiveUser(Owner[k])
  <2>1. request' = [request EXCEPT !.pc = "route", !.principal = p] /\ UNCHANGED World
    BY <1>3 DEF KeyOwner
  <2>2. p \in Principal /\ Honest(p) /\ p.via = k /\ p.subject = Owner[k]
    BY <1>2, KeySound DEF PrincipalOf
  <2>3. Owner[k] \in Users
    BY <1>2, PerimeterAssumption DEF Credentials
  <2>4. Owner[k] \notin request.dead
    BY <1>1, <1>3, <2>3, PerimeterAssumption DEF Sound, Dead, ActiveUser, Credentials
  <2> HIDE DEF p
  <2>5. request' \in Request
    BY <1>1, <2>1, <2>2 DEF Request
  <2>6. Sound(request')
    BY <1>1, <1>2, <2>1, <2>2, <2>4 DEF Sound, Request
  <2>7. QED
    BY <1>1, <2>1, <2>5, <2>6, OnlyTheRequest
<1>4. CASE ~ActiveUser(Owner[k])
  <2>1. request' = [request EXCEPT !.pc = "session"] /\ UNCHANGED World
    BY <1>4 DEF KeyOwner, Go
  <2>2. request' \in Request /\ Sound(request')
    BY <1>1, <2>1 DEF Sound, Request
  <2>3. QED
    BY <1>1, <2>1, <2>2, OnlyTheRequest
<1>5. QED
  BY <1>3, <1>4

\* A session that validates is live at that moment.
LEMMA ValidateSessionSound ==
  ASSUME IInv, ValidateSession
  PROVE  IInv'
<1> DEFINE s == Presented(request.call)
<1> USE DEF IInv, TypeOK, At, Go
<1>1. request \in Request /\ Sound(request) /\ boot = "mounted"
  BY DEF ValidateSession
<1>2. request' \in Request
  BY <1>1 DEF ValidateSession, Request
<1>3. s \in Sessions /\ session[s] = "live" => s \in Sessions \ request.dead
  BY <1>1, PerimeterAssumption DEF Sound, Dead, Credentials
<1> HIDE DEF s
<1>4. Sound(request')
  BY <1>1, <1>3 DEF ValidateSession, Sound, Request, s
<1>5. QED
  BY <1>1, <1>2, <1>4, OnlyTheRequest DEF ValidateSession

\* The same for the owner of a session.
LEMMA SessionOwnerSound ==
  ASSUME IInv, SessionOwner
  PROVE  IInv'
<1> DEFINE s == Presented(request.call)
           p == PrincipalOf(s, SessionScopes(s))
<1> USE DEF IInv, TypeOK, At
<1>1. request \in Request /\ Sound(request) /\ boot = "mounted" /\ request.pc = "sessionOwner"
  BY DEF SessionOwner
<1>2. s \in Sessions /\ s \notin request.dead
  BY <1>1 DEF Sound
<1>3. CASE ActiveUser(Owner[s])
  <2>1. request' = [request EXCEPT !.pc = "route", !.principal = p] /\ UNCHANGED World
    BY <1>3 DEF SessionOwner
  <2>2. p \in Principal /\ Honest(p) /\ p.via = s /\ p.subject = Owner[s]
    BY <1>2, SessionSound DEF PrincipalOf
  <2>3. Owner[s] \in Users
    BY <1>2, PerimeterAssumption DEF Credentials
  <2>4. Owner[s] \notin request.dead
    BY <1>1, <1>3, <2>3, PerimeterAssumption DEF Sound, Dead, ActiveUser, Credentials
  <2> HIDE DEF p, s
  <2>5. request' \in Request
    BY <1>1, <2>1, <2>2 DEF Request
  <2>6. Sound(request')
    BY <1>1, <1>2, <2>1, <2>2, <2>4 DEF Sound, Request
  <2>7. QED
    BY <1>1, <2>1, <2>5, <2>6, OnlyTheRequest
<1>4. CASE ~ActiveUser(Owner[s])
  <2>1. request' = [request EXCEPT !.pc = "route"] /\ UNCHANGED World
    BY <1>4 DEF SessionOwner, Go
  <2>2. request' \in Request /\ Sound(request')
    BY <1>1, <2>1 DEF Sound, Request
  <2>3. QED
    BY <1>1, <2>1, <2>2, OnlyTheRequest
<1>5. QED
  BY <1>3, <1>4

\* Nothing gets past the gates except by a public path.
LEMMA RouteSound ==
  ASSUME IInv, Route
  PROVE  IInv'
<1> USE DEF IInv, TypeOK, At, Go
<1>1. request \in Request /\ Sound(request) /\ boot = "mounted"
  BY DEF Route
<1>2. request' \in Request
  BY <1>1 DEF Route, Request
<1>3. MatchesPublic(request.call.path) \/ Gated(request.call, request.principal)
  BY DEF Route, Gated
<1>4. Sound(request')
  BY <1>1, <1>3 DEF Route, Sound, Request
<1>5. QED
  BY <1>1, <1>2, <1>4, OnlyTheRequest DEF Route
-----------------------------------------------------------------------------
(***************************************************************************)
(* The other steps.                                                        *)
(***************************************************************************)

\* Once the surface is mounted nothing changes it; mounting it is refused with
\* a catch-all among the public paths.
LEMMA RegistrySound ==
  ASSUME IInv, RegistryStep, UNCHANGED <<account, session, liveKeys, widgets, request>>
  PROVE  IInv'
<1>1. RegistryTypeOK' /\ boot # "mounted"
  BY RegistryStepTyped DEF IInv, TypeOK
<1>2. TypeOK'
  BY <1>1 DEF IInv, TypeOK
<1>3. (boot = "mounted" => "/" \notin PublicPaths)'
  <2>1. CASE AcceptModule \/ RefuseModule
    BY <1>1, <2>1 DEF AcceptModule, RefuseModule
  <2>2. CASE BuildMux
    BY <2>2 DEF BuildMux, RefusedSurface, PublicPaths, registry
  <2>3. QED
    BY <2>1, <2>2 DEF RegistryStep
<1>4. request' = Idle
  BY <1>1 DEF IInv, TypeOK
<1>5. RowsHaveAuthors'
  BY DEF IInv, RowsHaveAuthors
<1>6. QED
  BY <1>2, <1>3, <1>4, <1>5 DEF IInv

\* A step that ends the request, and leaves registry and rows alone.
LEMMA EndOfRequest ==
  ASSUME IInv, request' = Idle, UNCHANGED <<registry, boot, widgets>>,
         account' \in [Users -> {"active", "inactive", "deleted"}],
         session' \in [Sessions -> {"none", "live", "ended"}],
         liveKeys' \subseteq Keys
  PROVE  IInv'
BY DEF IInv, TypeOK, RegistryTypeOK, registry, PublicPaths, RowsHaveAuthors

\* Handlers that change sessions, accounts or keys end the request.
LEMMA ServeSound ==
  ASSUME IInv, ServeLogin \/ ServeLogout \/ ServeUserChange \/ ServeKeyRevocation \/ Finish
  PROVE  IInv'
<1> USE DEF TypeOK
<1>0. TypeOK
  BY DEF IInv
<1>1. CASE ServeLogin
  <2>1. PICK s \in Sessions : SignIn(s)
    BY <1>1 DEF ServeLogin
  <2>2. QED
    BY <1>0, <1>1, <2>1, CredentialsTyped, EndOfRequest DEF ServeLogin
<1>2. CASE ServeLogout
  <2>1. request.call.cookie \in Sessions
    BY <1>0, <1>2 DEF ServeLogout, Serving, At, Request, Calls, Call
  <2>2. QED
    BY <1>0, <1>2, <2>1, CredentialsTyped, EndOfRequest DEF ServeLogout
<1>3. CASE ServeUserChange
  BY <1>0, <1>3, CredentialsTyped, EndOfRequest DEF ServeUserChange
<1>4. CASE ServeKeyRevocation
  BY <1>0, <1>4, CredentialsTyped, EndOfRequest DEF ServeKeyRevocation
<1>5. CASE Finish
  BY <1>0, <1>5, EndOfRequest DEF Finish, World
<1>6. QED
  BY <1>1, <1>2, <1>3, <1>4, <1>5

\* The row a principal creates has its subject and that subject's tenant.
LEMMA CreateWidgetSound ==
  ASSUME IInv, ServeCreateWidget
  PROVE  IInv'
<1> DEFINE p == request.principal
<1>1. p \in Principal /\ p # Anonymous /\ Honest(p)
  BY DEF IInv, TypeOK, ServeCreateWidget, Serving, At, Request, Sound, ActorWithScope
<1>2. p.tenant \in Tenants /\ p.subject \in Users /\ p.tenant = TenantOf[p.subject]
  BY <1>1 DEF Principal, Honest
<1> HIDE DEF p
<1>3. widgets' = widgets \cup {[tenant |-> p.tenant, owner |-> p.subject]} /\ request' = Idle
  BY DEF ServeCreateWidget, NewWidget, p
<1>4. TypeOK'
  BY <1>2, <1>3 DEF ServeCreateWidget, IInv, TypeOK, RegistryTypeOK, registry
<1>5. RowsHaveAuthors'
  BY <1>2, <1>3 DEF IInv, RowsHaveAuthors
<1>6. QED
  BY <1>3, <1>4, <1>5 DEF ServeCreateWidget, IInv, registry, PublicPaths

\* What revives is taken off the list of the dead; what dies was not put on it.
LEMMA ElsewhereSound ==
  ASSUME IInv, Elsewhere
  PROVE  IInv'
<1>1. /\ account' \in [Users -> {"active", "inactive", "deleted"}]
      /\ session' \in [Sessions -> {"none", "live", "ended"}]
      /\ liveKeys' \subseteq Keys
  BY CredentialsTyped DEF Elsewhere, IInv
<1>2. CASE request = Idle
  BY <1>1, <1>2, EndOfRequest DEF Elsewhere, Revive
<1>3. CASE request # Idle
  <2>1. request \in Request /\ Sound(request) /\ boot = "mounted"
    BY <1>3 DEF IInv, TypeOK
  <2> DEFINE rest == {x \in request.dead : Dead(x)'}
  <2>2. request' = [request EXCEPT !.dead = rest]
    BY <1>3 DEF Elsewhere, Revive
  <2>3. rest \subseteq request.dead /\ \A x \in rest : Dead(x)'
    OBVIOUS
  <2> HIDE DEF rest
  <2>4. request' \in Request
    BY <2>1, <2>2, <2>3 DEF Request
  <2>5. TypeOK'
    BY <1>1, <2>1, <2>4 DEF Elsewhere, IInv, TypeOK, RegistryTypeOK, registry
  <2>6. \A path : MatchesPublic(path)' <=> MatchesPublic(path)
    BY DEF Elsewhere, registry, MatchesPublic, PublicPaths
  <2>7. Sound(request)'
    BY <2>1, <2>2, <2>3, <2>6
    DEF Sound, Request, Honest, Gated, PassesMutationGate, GuardAdmin
  <2>8. QED
    BY <2>5, <2>7 DEF Elsewhere, IInv, registry, PublicPaths, RowsHaveAuthors
<1>4. QED
  BY <1>2, <1>3

-----------------------------------------------------------------------------
(***************************************************************************)
(* The theorems.                                                           *)
(***************************************************************************)
\* The invariant holds of every reachable state.
LEMMA Inductive == Spec => []IInv
<1>1. Init => IInv
  BY ExtensionsAssumption
  DEF Init, RegistryInit, IInv, TypeOK, RegistryTypeOK, RowsHaveAuthors
<1>2. ASSUME IInv, [Next]_vars
      PROVE  IInv'
  <2>1. CASE RegistryStep /\ UNCHANGED <<account, session, liveKeys, widgets, request>>
    BY <1>2, <2>1, RegistrySound
  <2>2. CASE \E c \in Calls : Receive(c)
    BY <1>2, <2>2, ReceiveSound
  <2>3. CASE VerifyKey \/ KeyOwner \/ ValidateSession \/ SessionOwner \/ Route
    BY <1>2, <2>3, VerifyKeySound, KeyOwnerSound, ValidateSessionSound, SessionOwnerSound,
       RouteSound
  <2>4. CASE ServeLogin \/ ServeLogout \/ ServeUserChange \/ ServeKeyRevocation \/ Finish
    BY <1>2, <2>4, ServeSound
  <2>5. CASE ServeCreateWidget
    BY <1>2, <2>5, CreateWidgetSound
  <2>6. CASE Elsewhere
    BY <1>2, <2>6, ElsewhereSound
  <2>7. CASE UNCHANGED vars
    BY <1>2, <2>7, OnlyTheRequest DEF vars, World, IInv, TypeOK
  <2>8. QED
    BY <1>2, <2>1, <2>2, <2>3, <2>4, <2>5, <2>6, <2>7 DEF Next
<1>3. QED
  BY <1>1, <1>2, PTL DEF Spec

\* Every variable keeps its shape, and nothing is served before the surface is
\* mounted.
THEOREM TypeCorrect == Spec => []TypeOK
<1>1. IInv => TypeOK
  BY DEF IInv
<1>2. QED
  BY <1>1, Inductive, PTL

\* No handler is called for a principal whose credential, or whose owner, was
\* dead all the time since the request arrived.
THEOREM DeadCredentialsRefused == Spec => []DeadCredentialsNeverServe
<1>1. IInv => DeadCredentialsNeverServe
  BY DEF IInv, DeadCredentialsNeverServe, At, Sound
<1>2. QED
  BY <1>1, Inductive, PTL

\* No module takes a name that is taken, and no entry of the published document
\* overwrites another.
THEOREM OneOwnerOfEachName == Spec => []OneOwner
<1> DEFINE I == RegistryTypeOK /\ Distinct
<1>1. Init => I
  BY ExtensionsAssumption, DistinctInitially DEF Init, RegistryInit, RegistryTypeOK
<1>2. ASSUME I, [Next]_vars
      PROVE  I'
  <2>1. CASE RegistryStep
    BY <1>2, <2>1, RegistryStepTyped, RegistryKeepsDistinct
  <2>2. CASE UNCHANGED <<registry, boot>>
    BY <1>2, <2>2, OthersKeepDistinct DEF registry, RegistryTypeOK
  <2>3. QED
    BY <1>2, <2>1, <2>2
    DEF Next, vars, Receive, VerifyKey, KeyOwner, ValidateSession, SessionOwner, Route,
        ServeLogin, ServeLogout, ServeUserChange, ServeKeyRevocation, ServeCreateWidget,
        Finish, Elsewhere, World
<1>3. I => OneOwner
  BY DistinctIsOneOwner
<1>4. QED
  BY <1>1, <1>2, <1>3, PTL DEF Spec

\* No public path is the console's, or matches everything.
LEMMA NoPublicConsole ==
  ASSUME IInv, boot = "mounted"
  PROVE  ~MatchesPublic("/admin")
<1>1. ASSUME NEW i \in DOMAIN extra
      PROVE  "/admin" \notin extra[i].public
  <2>1. extra[i] \in Plugin
    BY DEF IInv, TypeOK, RegistryTypeOK
  <2>2. extra[i].public \subseteq ModulePaths \cup Identity
    BY <2>1 DEF Plugin
  <2>3. QED
    BY <2>2, ExtensionsAssumption DEF Console, Identity
<1>2. QED
  BY <1>1 DEF IInv, MatchesPublic, PublicPaths

\* Interactive privileges, and the console, are the seeded administrator's
\* session's alone, whatever scopes are stored with any key.
THEOREM ConsoleGuarded == Spec => []ConsoleIsTheAdministrators
<1>1. ASSUME IInv, At("serve")
      PROVE  /\ request.principal.scopes \cap Interactive # {} =>
                  request.principal.via \in Sessions /\ request.principal.subject = Administrator
             /\ request.call.path = "/admin" => request.principal.subject = Administrator
  <2>1. Sound(request) /\ boot = "mounted" /\ request.pc = "serve"
    BY <1>1 DEF IInv, At, TypeOK
  <2>2. Anonymous.scopes = {}
    BY DEF Anonymous
  <2>3. request.principal.scopes \cap Interactive # {} =>
          request.principal.via \in Sessions /\ request.principal.subject = Administrator
    BY <2>1, <2>2 DEF Sound, Honest
  <2>4. request.call.path = "/admin" => Interactive \subseteq request.principal.scopes
    BY <1>1, <2>1, NoPublicConsole DEF Sound, Gated, GuardAdmin
  <2>5. QED
    BY <2>3, <2>4 DEF Interactive
<1>2. IInv => ConsoleIsTheAdministrators
  BY <1>1 DEF ConsoleIsTheAdministrators
<1>3. QED
  BY <1>2, Inductive, PTL

\* Writes under /api/v1 that no module declared public have a principal, a page
\* of another site has nothing written, and rows name their author's tenant.
THEOREM WritesAuthored == Spec => []WritesHaveAnAuthor
<1>1. ASSUME IInv, At("serve"), request.call.write
      PROVE  /\ API(request.call.path) /\ request.principal = Anonymous =>
                  Login(request.call) \/ request.call.path \in PublicPaths
             /\ request.call.crossSite => request.principal = Anonymous
  <2>1. Sound(request) /\ boot = "mounted" /\ request.pc = "serve"
    BY <1>1 DEF IInv, At, TypeOK
  <2>2. MatchesPublic(request.call.path) => request.call.path \in PublicPaths
    BY <1>1, <2>1 DEF IInv, MatchesPublic
  <2>3. QED
    BY <1>1, <2>1, <2>2 DEF Sound, Gated, PassesMutationGate
<1>2. IInv => WritesHaveAnAuthor
  BY <1>1 DEF WritesHaveAnAuthor, IInv, RowsHaveAuthors
<1>3. QED
  BY <1>2, Inductive, PTL
=============================================================================
