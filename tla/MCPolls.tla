------------------------------ MODULE MCPolls ------------------------------
(***************************************************************************)
(* Small instances of Polls for TLC.                                       *)
(***************************************************************************)
EXTENDS Polls, TLC

CONSTANTS author, moderator, stranger, here, elsewhere

MCUsers == {author, moderator, stranger}
MCModerators == {moderator, stranger}
MCNoModerators == {}
MCAuthorTenant == author :> here
MCTenants == {here, elsewhere}
\* The stranger moderates another tenant.
MCTenantOf == author :> here @@ moderator :> here @@ stranger :> elsewhere

MCAuthorOnly == {author}
\* A poll with three options and one with two.
MCTwoLists == {<<"a", "b", "c">>, <<"b", "a">>}
MCOneList == {<<"a", "b">>}

Symmetric == Permutations(Managers) \cup Permutations(Ballots) \cup Permutations(Voters)
=============================================================================
