------------------------------ MODULE Ballots ------------------------------
(***************************************************************************)
(* Public ballots on one poll, from the browser to the vote row            *)
(* (reference/polls/pollmodule handler.go and voter.go): the throttle, the *)
(* signed voter cookie, the row keyed by the voter, the answer that brings *)
(* the cookie back, and a process that restarts.                           *)
(*                                                                         *)
(* How a ballot races the management of its poll is in module Polls; here  *)
(* the service takes a ballot or rejects it.                               *)
(***************************************************************************)
EXTENDS VoteLimiter

CONSTANTS
  Browsers,    \* cookie jars
  Accounts,    \* principals, each a tenant and a subject
  Tabs,        \* ballots in flight at once
  NetworkOf,   \* the rate key of a browser's address
  Tokens,      \* the random ids newID can still draw; bounds the identities minted
  Options,
  NoCookie, NoAccount, NoVote, Idle

Secrets == 1..2   \* the persisted one; another only a slip uses
Cookie == [token: Tokens, secret: Secrets]
Voters == Tokens \cup Accounts   \* "browser:<token>" and "account:<tenant>:<subject>"

Ballot == [browser: Browsers, cookie: Cookie \cup {NoCookie},
           account: Accounts \cup {NoAccount}, option: Options, pc: {"sent", "admitted", "answered"},
           set: Cookie \cup {NoCookie}]

ASSUME BallotsAssumption ==
  /\ NetworkOf \in [Browsers -> Networks]
  /\ Tokens \cap Accounts = {}
  /\ NoCookie \notin Cookie
  /\ NoAccount \notin Accounts
  /\ NoVote \notin Options
  /\ Idle \notin Ballot

VARIABLES
  secret,    \* the key of the HMAC, persisted by the store
  minted,    \* tokens drawn so far
  votes,     \* poll_votes of the poll, by voter_id
  jar,       \* each browser's voter cookie
  signedIn,  \* the account each browser is signed in to; several may share one
  tab,       \* the ballots in flight
  cast,      \* history: the voters each browser's ballots were counted for
  latest,    \* history: the option of the ballot counted last for each browser, or
             \* for the account it is signed in to
  strayed    \* history: browsers that lost an answer, sent first ballots at once,
             \* or signed in or out, and any that were not followed from the start;
             \* strayed browsers are passers-by

browsing == <<jar, signedIn, tab>>
history == <<cast, latest, strayed>>
vars == <<buckets, now, admitted, secret, minted, votes, browsing, history>>

\* Every variable keeps its shape; whatever is signed was drawn.
TypeOK ==
  /\ LimiterTypeOK
  /\ secret \in Secrets
  /\ minted \subseteq Tokens
  /\ votes \in [Voters -> Options \cup {NoVote}]
  /\ jar \in [Browsers -> Cookie \cup {NoCookie}]
  /\ \A b \in Browsers : jar[b] # NoCookie => jar[b].token \in minted
  /\ signedIn \in [Browsers -> Accounts \cup {NoAccount}]
  /\ tab \in [Tabs -> Ballot \cup {Idle}]
  /\ cast \in [Browsers -> SUBSET Voters]
  /\ latest \in [Browsers -> Options \cup {NoVote}]
  /\ strayed \subseteq Browsers

Init ==
  /\ LimiterInit
  /\ secret = 1
  /\ minted = {}
  /\ votes = [v \in Voters |-> NoVote]
  /\ jar = [b \in Browsers |-> NoCookie]
  /\ signedIn \in [Browsers -> Accounts \cup {NoAccount}]
  /\ tab = [i \in Tabs |-> Idle]
  /\ cast = [b \in Browsers |-> {}]
  /\ latest = [b \in Browsers |-> NoVote]
  /\ strayed \in SUBSET Browsers

InFlight(b) == {i \in Tabs : tab[i] # Idle /\ tab[i].browser = b}

\* The ballots of b that carry no identity: the server mints one for each.
FirstBallots(b) ==
  {i \in InFlight(b) : tab[i].cookie = NoCookie /\ tab[i].account = NoAccount}

-----------------------------------------------------------------------------
(***************************************************************************)
(* The server.                                                             *)
(***************************************************************************)

\* allowVote lets the ballot through.  The clock is read before the mutex.
Admit(i) ==
  /\ tab[i] # Idle /\ tab[i].pc = "sent"
  /\ Allow(NetworkOf[tab[i].browser])
  /\ tab' = [tab EXCEPT ![i].pc = "admitted"]
  /\ UNCHANGED <<secret, minted, votes, jar, signedIn, history>>

\* A ballot of a visitor this module does not follow takes its place in a window.
AdmitPasserby(k) ==
  /\ Allow(k)
  /\ UNCHANGED <<secret, minted, votes, browsing, history>>

\* The network is at its limit, or an admitted form names no option: the ballot
\* ends before it gets an identity.
Refuse(i) ==
  /\ tab[i] # Idle
  /\ \/ /\ tab[i].pc = "sent"
        /\ \E t \in ClockReadings :
             LET bucket == buckets[NetworkOf[tab[i].browser]] IN
             bucket # NoBucket /\ ~Expired(bucket, t) /\ bucket.count >= Limit
     \/ tab[i].pc = "admitted"
  /\ tab' = [tab EXCEPT ![i] = Idle]
  /\ UNCHANGED <<buckets, now, admitted, secret, minted, votes, jar, signedIn, history>>

\* existingVoterIdentity: the account, whatever browser it is signed in on, else
\* the token of a cookie this process's key verifies, else none.
ExistingVoter(x) ==
  IF x.account # NoAccount THEN {x.account}
  ELSE IF x.cookie # NoCookie /\ x.cookie.secret = secret THEN {x.cookie.token}
  ELSE {}

\* The browsers that speak for the visitor of a ballot.
SameVisitor(x) ==
  {x.browser} \cup {b \in Browsers : x.account # NoAccount /\ signedIn[b] = x.account}

\* The upsert of SaveVote, unless the service rejects the ballot.
Count(x, voter) ==
  \/ UNCHANGED <<votes, cast, latest>>
  \/ /\ votes' = [votes EXCEPT ![voter] = x.option]
     /\ cast' = [cast EXCEPT ![x.browser] = @ \cup {voter}]
     /\ latest' = [b \in Browsers |-> IF b \in SameVisitor(x) THEN x.option ELSE latest[b]]

\* Slip: a voter who has a row keeps the choice in it.
CastVoteOnce(i) ==
  LET x == tab[i] IN
  /\ x # Idle /\ x.pc = "admitted"
  /\ \E voter \in ExistingVoter(x) \cup (Tokens \ minted) :
       /\ ExistingVoter(x) # {} => voter \in ExistingVoter(x)
       /\ minted' = minted \cup ({voter} \cap Tokens)
       /\ tab' = [tab EXCEPT ![i].pc = "answered",
            ![i].set = IF ExistingVoter(x) = {} THEN [token |-> voter, secret |-> secret]
                       ELSE NoCookie]
       /\ IF votes[voter] = NoVote THEN Count(x, voter)
          ELSE /\ latest' = [b \in Browsers |->
                              IF b \in SameVisitor(x) THEN x.option ELSE latest[b]]
               /\ UNCHANGED <<votes, cast>>
  /\ UNCHANGED <<buckets, now, admitted, secret, jar, signedIn, strayed>>

\* voterIdentity and Service.Vote: an identity is found or minted, the vote is
\* counted or rejected, and the answer, an error too, sets the minted cookie.
CastVote(i) ==
  LET x == tab[i] IN
  /\ x # Idle /\ x.pc = "admitted"
  /\ \E voter \in ExistingVoter(x) \cup (Tokens \ minted) :
       /\ ExistingVoter(x) # {} => voter \in ExistingVoter(x)
       /\ minted' = minted \cup ({voter} \cap Tokens)
       /\ tab' = [tab EXCEPT ![i].pc = "answered",
            ![i].set = IF ExistingVoter(x) = {} THEN [token |-> voter, secret |-> secret]
                       ELSE NoCookie]
       /\ Count(x, voter)
  /\ UNCHANGED <<buckets, now, admitted, secret, jar, signedIn, strayed>>

\* Slip: a starting process signs with a key of its own.
RestartRenewingSecret ==
  /\ ForgetWindows
  /\ secret' = 2
  /\ tab' = [i \in Tabs |-> Idle]
  /\ strayed' = strayed \cup {b \in Browsers : FirstBallots(b) # {}}
  /\ UNCHANGED <<minted, votes, jar, signedIn, cast, latest>>

\* The process dies and starts again: its windows and its requests are gone,
\* the votes and the key are in the database.
Restart ==
  /\ ForgetWindows
  /\ tab' = [i \in Tabs |-> Idle]
  /\ strayed' = strayed \cup {b \in Browsers : FirstBallots(b) # {}}
  /\ UNCHANGED <<secret, minted, votes, jar, signedIn, cast, latest>>

-----------------------------------------------------------------------------
(***************************************************************************)
(* The browsers.                                                           *)
(***************************************************************************)

\* A ballot leaves with the cookie and the session the browser has now.
Submit(i, b, option) ==
  /\ tab[i] = Idle
  /\ b \notin strayed
  /\ tab' = [tab EXCEPT ![i] =
       [browser |-> b, cookie |-> jar[b], account |-> signedIn[b], option |-> option,
        pc |-> "sent", set |-> NoCookie]]
  /\ strayed' = IF jar[b] = NoCookie /\ signedIn[b] = NoAccount /\ FirstBallots(b) # {}
                THEN strayed \cup {b} ELSE strayed
  /\ UNCHANGED <<buckets, now, admitted, secret, minted, votes, jar, signedIn, cast, latest>>

\* The answer arrives and its cookie replaces the browser's.
Answer(i) ==
  /\ tab[i] # Idle /\ tab[i].pc = "answered"
  /\ jar' = IF tab[i].set = NoCookie THEN jar
            ELSE [jar EXCEPT ![tab[i].browser] = tab[i].set]
  /\ tab' = [tab EXCEPT ![i] = Idle]
  /\ UNCHANGED <<buckets, now, admitted, secret, minted, votes, signedIn, history>>

\* The answer never arrives; what the server did stays done.
LoseAnswer(i) ==
  /\ tab[i] # Idle /\ tab[i].pc = "answered"
  /\ strayed' = IF tab[i].set = NoCookie THEN strayed ELSE strayed \cup {tab[i].browser}
  /\ tab' = [tab EXCEPT ![i] = Idle]
  /\ UNCHANGED <<buckets, now, admitted, secret, minted, votes, jar, signedIn, cast, latest>>

\* A ballot of the account from a browser that is not followed writes its row.
CastElsewhere(account, option) ==
  /\ votes' = [votes EXCEPT ![account] = option]
  /\ latest' = [b \in Browsers |-> IF signedIn[b] = account THEN option ELSE latest[b]]
  /\ UNCHANGED <<buckets, now, admitted, secret, minted, browsing, cast, strayed>>

\* A visitor who signs in or out votes as somebody else from then on.
SignInOrOut(b, account) ==
  /\ b \notin strayed
  /\ signedIn[b] # account
  /\ signedIn' = [signedIn EXCEPT ![b] = account]
  /\ strayed' = strayed \cup {b}
  /\ UNCHANGED <<buckets, now, admitted, secret, minted, votes, jar, tab, cast, latest>>

PassTime == Tick /\ UNCHANGED <<secret, minted, votes, browsing, history>>

Next ==
  \/ PassTime
  \/ Restart
  \/ \E k \in Networks : AdmitPasserby(k)
  \/ \E i \in Tabs :
       \/ \E b \in Browsers, o \in Options : Submit(i, b, o)
       \/ Admit(i)
       \/ Refuse(i)
       \/ CastVote(i)
       \/ Answer(i)
       \/ LoseAnswer(i)
  \/ \E a \in Accounts, o \in Options : CastElsewhere(a, o)
  \/ \E b \in Browsers, a \in Accounts \cup {NoAccount} : SignInOrOut(b, a)

Spec == Init /\ [][Next]_vars

-----------------------------------------------------------------------------
\* "One current choice per browser": a browser that got its cookie, and did not
\* change identity since, counts once, through restarts, refusals, rejected
\* ballots and ballots sent at once.
OneChoicePerBrowser ==
  \A b \in Browsers \ strayed : Cardinality(cast[b]) <= 1

\* What the page shows such a browser as its choice (CurrentVote of the identity
\* its cookie or its session proves) is the ballot counted last for it: of its own
\* ballots, or, signed in, of the account's ballots on any browser.
PageShowsLatestChoice ==
  \A b \in Browsers \ strayed :
    latest[b] # NoVote /\ InFlight(b) = {} =>
      \E voter \in ExistingVoter([browser |-> b, account |-> signedIn[b], cookie |-> jar[b]]) :
        votes[voter] = latest[b]

\* The pressure of other networks never resets a window that still runs; only
\* a restart forgets windows.
EvictionSparesRunningWindows ==
  [][Restart \/
     \A k \in Networks :
       buckets[k] # NoBucket /\ now - buckets[k].windowStart < Window =>
         buckets'[k] # NoBucket /\ buckets'[k].windowStart = buckets[k].windowStart]_vars
=============================================================================
