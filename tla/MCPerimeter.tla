---------------------------- MODULE MCPerimeter ----------------------------
(***************************************************************************)
(* Small instances of Perimeter for TLC.                                   *)
(***************************************************************************)
EXTENDS Perimeter, TLC

CONSTANTS admin, member, s1, s2, k1, k2, here, elsewhere

MCTenantOf == admin :> here @@ member :> elsewhere
MCOwner == s1 :> admin @@ s2 :> member @@ k1 :> member @@ k2 :> admin

\* The second key was issued when keys could still ask for everything.
MCScopesOf ==
  k1 :> {"widgets:write"} @@ k2 :> {"admin", "console:access", "users:write"}

Module(id, private, public, openAPI) ==
  [id |-> id, private |-> private, public |-> public, openAPI |-> openAPI]
Op(id, route) == [id |-> id, route |-> route]

MCOperations == {Op(i, r) : i \in {"create", "vote"}, r \in {"POST widgets", "POST votes"}}

Widgets == Module("widget", {"/api/v1/widgets"}, {}, <<Op("create", "POST widgets")>>)
Polls == Module("polls", {}, {"/api/v1/public/polls"}, <<Op("vote", "POST votes")>>)
\* A module whose handler checks nothing, and which claims the landing page.
Forgetful == Module("notes", {"/api/v1/notes", "/"}, {}, <<>>)

\* A host that works, and one for each reason to refuse.
MCContributions == {
  <<Widgets, Polls, Forgetful>>,
  <<Widgets, Module("polls", {"/api/v1/notes"}, {}, <<Op("create", "POST votes")>>)>>,
  <<Module("polls", {"/api/v1/notes"}, {}, <<Op("create", "POST votes"), Op("vote", "POST votes")>>)>>,
  <<Widgets, Widgets>>,
  <<Module("user_management", {"/api/v1/notes"}, {}, <<>>)>>,
  <<Module("notes", {}, {}, <<>>)>>,
  <<Forgetful, Module("polls", {"/api/v1/notes"}, {}, <<>>)>>,
  <<Module("notes", {"/metrics"}, {}, <<>>)>>,
  <<Forgetful, Module("polls", {}, {"/"}, <<>>)>>}
=============================================================================
