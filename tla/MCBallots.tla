----------------------------- MODULE MCBallots -----------------------------
(***************************************************************************)
(* Small instances of Ballots for TLC.                                     *)
(***************************************************************************)
EXTENDS Ballots, TLC

CONSTANTS home

\* The browsers share a line.
MCNetworkOf == [b \in Browsers |-> home]

\* What one run can hold: either two browsers and their account while the clock
\* stands still, or one browser and no account while it passes.
VARIABLE passing

Anonymous ==
  /\ \A b \in Browsers : signedIn[b] = NoAccount
  /\ \A a \in Accounts : votes[a] = NoVote

MCInit ==
  /\ Init
  /\ passing \in BOOLEAN
  /\ IF passing THEN Anonymous /\ Cardinality(strayed) = 1 ELSE strayed = {}

MCNext ==
  /\ Next
  /\ IF passing THEN Anonymous' ELSE now' = now
  /\ UNCHANGED passing

MCSpec == MCInit /\ [][MCNext]_<<vars, passing>>

Symmetric == Permutations(Tabs) \cup Permutations(Tokens) \cup Permutations(Browsers)
=============================================================================
