------------------------------ MODULE DpopPage ------------------------------
(***************************************************************************)
(* The page of go-react-dpop in its tabs, with the server and the network  *)
(* between them.  Every click starts an async handler; clicks are numbered *)
(* and the number also names the key a login generates, the proof a        *)
(* handler makes and the token a login gets.                               *)
(*                                                                         *)
(* All tabs share one IndexedDB with one key pair in it.  Its operations   *)
(* are done in the order they were asked for: a transaction waits for the  *)
(* earlier ones over the same store.                                       *)
(***************************************************************************)
EXTENDS DpopServer, Sequences, FiniteSets

CONSTANTS
  Tabs,       \* the tabs the page is open in
  NoTab,      \* the tab of no click
  MaxClicks,  \* bound on the clicks on login and fetch
  Budget      \* bound on what happens altogether: see Spent

VARIABLES
  click,      \* click[c]: the handler started by click c, and where it is
  token,      \* token[t]: the token (and its type) in tab t's state
  db,         \* the key in IndexedDB, 0 for none
  queue,      \* operations IndexedDB has still to do
  request,    \* request[c][i]: the first and the second copy of c's request
  overlapped  \* DPoP logins that had another one beside or after them

pageVars == <<click, token, db, queue, request, overlapped>>
vars == <<serverVars, pageVars>>

Clicks == 1..MaxClicks
ASSUME PageAssumption ==
  /\ MaxClicks \in Nat
  /\ Budget \in Nat \ {0}
  /\ Jtis = Clicks
  /\ NoTab \notin Tabs

Kinds == {"none", "bearer login", "dpop login", "bearer fetch", "dpop fetch"}
Idle == [kind |-> "none", tab |-> NoTab, at |-> "idle",
         token |-> NoToken, key |-> 0, iat |-> 0, outcome |-> "none"]

Init ==
  /\ ServerInit
  /\ click = [c \in Clicks |-> Idle]
  /\ token = [t \in Tabs |-> NoToken]
  /\ db = 0
  /\ queue = <<>>
  /\ request = [c \in Clicks |-> <<"none", "none">>]
  /\ overlapped = {}

Started == {c \in Clicks : click[c].kind # "none"}
Logins == {c \in Clicks : click[c].kind = "dpop login"}
InFlight == {c \in Logins : click[c].at # "over"}

\* A click counts for two, a tick and a request sent again for one.
Spent ==
  2 * Cardinality(Started) + Cardinality({c \in Clicks : request[c][2] # "none"}) + now

Start(c, kind, t, at, tok) ==
  /\ Spent + 2 <= Budget
  /\ Started = 1..(c - 1)
  /\ click' = [click EXCEPT ![c] = [Idle EXCEPT !.kind = kind, !.tab = t,
                                                !.at = at, !.token = tok]]
  /\ UNCHANGED <<serverVars, token, db>>

\* A handler that is over belongs to no tab.
Over(c) == [click[c] EXCEPT !.at = "over", !.tab = NoTab, !.outcome = "none"]

Send(c) == request' = [request EXCEPT ![c][1] = "sent"]

-----------------------------------------------------------------------------
(* Clicks.  The login form is shown while there is no token.               *)

LoginBearer(c, t) ==
  /\ token[t] = NoToken
  /\ Start(c, "bearer login", t, "sent", NoToken)
  /\ Send(c)
  /\ UNCHANGED <<queue, overlapped>>

LoginDPoP(c, t) ==
  /\ token[t] = NoToken
  /\ Start(c, "dpop login", t, "generating", NoToken)
  /\ overlapped' = overlapped \cup Logins \cup (IF InFlight # {} THEN {c} ELSE {})
  /\ UNCHANGED <<queue, request>>

\* The handler keeps the token of the render it was clicked in.
FetchBearer(c, t) ==
  /\ token[t].type = "bearer"
  /\ Start(c, "bearer fetch", t, "sent", token[t])
  /\ Send(c)
  /\ UNCHANGED <<queue, overlapped>>

FetchDPoP(c, t) ==
  /\ token[t].type = "dpop"
  /\ Start(c, "dpop fetch", t, "asking", token[t])
  /\ UNCHANGED <<queue, request, overlapped>>

Logout(t) ==
  /\ token[t] # NoToken
  /\ token' = [token EXCEPT ![t] = NoToken]
  /\ UNCHANGED <<serverVars, click, db, queue, request, overlapped>>

\* The state of the tab is lost and its handlers never continue.
Reload(t) ==
  /\ token' = [token EXCEPT ![t] = NoToken]
  /\ click' = [c \in Clicks |->
       IF click[c].tab = t THEN Over(c) ELSE click[c]]
  /\ UNCHANGED <<serverVars, db, queue, request, overlapped>>

-----------------------------------------------------------------------------
(* The handlers of a DPoP login and of a DPoP fetch.                       *)

\* Variant: the key pair is generated and saved while the proof is made already.
GenerateKeyPairUnawaited(c) ==
  /\ click[c].at = "generating"
  /\ click' = [click EXCEPT ![c].at = "reading"]
  /\ queue' = queue \o <<[op |-> "get", click |-> c], [op |-> "put", click |-> c]>>
  /\ UNCHANGED <<serverVars, token, db, request, overlapped>>

\* The save is not awaited, so createDPoPProof goes on at once; each waits for a
\* connection of its own (getDB), and connections are opened in order.
GenerateKeyPair(c) ==
  /\ click[c].at = "generating"
  /\ click' = [click EXCEPT ![c].at = "asking"]
  /\ queue' = Append(queue, [op |-> "put", click |-> c])
  /\ UNCHANGED <<serverVars, token, db, request, overlapped>>

\* Between a login's put and its get another tab may have asked for something.
AskForKey(c) ==
  /\ click[c].at = "asking"
  /\ click' = [click EXCEPT ![c].at = "reading"]
  /\ queue' = Append(queue, [op |-> "get", click |-> c])
  /\ UNCHANGED <<serverVars, token, db, request, overlapped>>

Put ==
  /\ queue # <<>> /\ Head(queue).op = "put"
  /\ queue' = Tail(queue)
  /\ db' = Head(queue).click
  /\ UNCHANGED <<serverVars, click, token, request, overlapped>>

\* Nobody hears of a put that fails.
PutFails ==
  /\ queue # <<>> /\ Head(queue).op = "put"
  /\ queue' = Tail(queue)
  /\ UNCHANGED <<serverVars, click, token, db, request, overlapped>>

\* No key pair is an error, caught and shown.
Get ==
  /\ queue # <<>> /\ Head(queue).op = "get"
  /\ queue' = Tail(queue)
  /\ LET c == Head(queue).click
     IN  click' = IF click[c].at # "reading" THEN click
                  ELSE [click EXCEPT ![c] =
                    IF db = 0 THEN Over(c) ELSE [@ EXCEPT !.key = db, !.at = "signing"]]
  /\ UNCHANGED <<serverVars, token, db, request, overlapped>>

\* Variant: iat is rounded up.
SignRounded(c) ==
  /\ click[c].at = "signing"
  /\ click' = [click EXCEPT ![c].iat = Sec(now + Second - 1), ![c].at = "sent"]
  /\ Send(c)
  /\ UNCHANGED <<serverVars, token, db, queue, overlapped>>

Sign(c) ==
  /\ click[c].at = "signing"
  /\ click' = [click EXCEPT ![c].iat = Sec(now), ![c].at = "sent"]
  /\ Send(c)
  /\ UNCHANGED <<serverVars, token, db, queue, overlapped>>

-----------------------------------------------------------------------------
(* The network and the server.                                             *)

\* The browser, still waiting, sends the request again on another connection.
Resend(c) ==
  /\ click[c].at = "sent" /\ request[c][2] = "none"
  /\ Spent + 1 <= Budget
  /\ request' = [request EXCEPT ![c][2] = "sent"]
  /\ UNCHANGED <<serverVars, click, token, db, queue, overlapped>>

\* The page hears of the first copy only.
Answer(c, i, outcome, tok) ==
  /\ request' = [request EXCEPT ![c][i] = "over"]
  /\ click' = IF i = 1 /\ click[c].at = "sent"
              THEN [click EXCEPT ![c].outcome = outcome, ![c].token = tok]
              ELSE click
  /\ UNCHANGED <<token, db, queue, overlapped>>

Credentials == BOOLEAN   \* demo and password, or anything else

TokenBearer(c, i) ==
  /\ request[c][i] = "sent" /\ click[c].kind = "bearer login"
  /\ \E good \in Credentials :
       IF good THEN Answer(c, i, "token", Token("bearer", 0, c))
       ELSE Answer(c, i, "Invalid credentials", NoToken)
  /\ UNCHANGED serverVars

GetProtectedBearer(c, i) ==
  /\ request[c][i] = "sent" /\ click[c].kind = "bearer fetch"
  /\ Answer(c, i, ProtectedBearer(click[c].token), click[c].token)
  /\ UNCHANGED serverVars

\* The proof is looked at; time passes before its jti is added to the cache.
Validate(c, i) ==
  /\ request[c][i] = "sent" /\ click[c].kind \in {"dpop login", "dpop fetch"}
  /\ IF Fresh(click[c].iat)
     THEN /\ request' = [request EXCEPT ![c][i] = "fresh"]
          /\ UNCHANGED <<click, token, db, queue, overlapped>>
     ELSE Answer(c, i, "DPoP proof expired", click[c].token)
  /\ UNCHANGED serverVars

AlreadyUsed(c, i) ==
  /\ request[c][i] = "fresh"
  /\ Used(c)
  /\ Answer(c, i, "JTI already used", click[c].token)
  /\ UNCHANGED serverVars

TokenDPoP(c, i) ==
  /\ request[c][i] = "fresh" /\ click[c].kind = "dpop login"
  /\ ~Used(c) /\ Add(c)
  /\ \E good \in Credentials :
       IF good THEN Answer(c, i, "token", Token("dpop", click[c].key, c))
       ELSE Answer(c, i, "Invalid credentials", NoToken)
  /\ UNCHANGED now

GetProtectedDPoP(c, i) ==
  /\ request[c][i] = "fresh" /\ click[c].kind = "dpop fetch"
  /\ ~Used(c) /\ Add(c)
  /\ Answer(c, i, ProtectedDPoP(click[c].token, click[c].key), click[c].token)
  /\ UNCHANGED now

\* The requests it is at work on are lost with the server.
Restart ==
  /\ Forget
  /\ request' = [c \in Clicks |-> [i \in 1..2 |->
       IF request[c][i] = "fresh" THEN "over" ELSE request[c][i]]]
  /\ UNCHANGED <<now, click, token, db, queue, overlapped>>

\* The answer: a login shows its token, a fetch its data, and both an error.
Receive(c) ==
  /\ click[c].at = "sent" /\ click[c].outcome # "none"
  /\ click' = [click EXCEPT ![c] = Over(c)]
  /\ token' = IF click[c].outcome = "token"
              THEN [token EXCEPT ![click[c].tab] = click[c].token] ELSE token
  /\ UNCHANGED <<serverVars, db, queue, request, overlapped>>

\* An await of the handler rejects, and the error is shown; of a request that was
\* sent the server may still hear.
Rejects(c) ==
  /\ click[c].at \notin {"idle", "over"}
  /\ click' = [click EXCEPT ![c] = Over(c)]
  /\ UNCHANGED <<serverVars, token, db, queue, request, overlapped>>

-----------------------------------------------------------------------------

PageNext ==
  \/ \E t \in Tabs : Logout(t) \/ Reload(t)
  \/ \E c \in Clicks, t \in Tabs :
       LoginBearer(c, t) \/ LoginDPoP(c, t) \/ FetchBearer(c, t) \/ FetchDPoP(c, t)
  \/ \E c \in Clicks : GenerateKeyPair(c) \/ AskForKey(c) \/ Sign(c) \/ Receive(c)
                       \/ Rejects(c)
  \/ Put \/ PutFails \/ Get

NetworkNext == \E c \in Clicks : Resend(c)

ServerNext ==
  \/ \E c \in Clicks, i \in 1..2 :
       \/ TokenBearer(c, i) \/ GetProtectedBearer(c, i)
       \/ Validate(c, i) \/ AlreadyUsed(c, i)
       \/ TokenDPoP(c, i) \/ GetProtectedDPoP(c, i)
  \/ Restart

Time == Spent + 1 <= Budget /\ Tick /\ UNCHANGED pageVars

Next == PageNext \/ NetworkNext \/ ServerNext \/ Time

Spec == Init /\ [][Next]_vars

-----------------------------------------------------------------------------
(* Properties.                                                             *)

Outcomes == {"none", "token", "data", "Invalid credentials", "Invalid token",
             "Token missing cnf claim", "DPoP key mismatch", "DPoP proof expired",
             "JTI already used"}

\* Each variable holds what its declaration says, and a proof's iat is never
\* ahead of the clock.
TypeOK ==
  /\ now \in 1..Budget
  /\ \A c \in Clicks :
       /\ jtiCache[c] \in Nat
       /\ click[c].kind \in Kinds /\ click[c].tab \in Tabs \cup {NoTab}
       /\ click[c].at \in {"idle", "generating", "asking", "reading", "signing", "sent", "over"}
       /\ click[c].key \in 0..MaxClicks /\ click[c].iat <= Sec(now)
       /\ click[c].outcome \in Outcomes
       /\ \A i \in 1..2 : request[c][i] \in {"none", "sent", "fresh", "over"}
  /\ db \in 0..MaxClicks
  /\ \A t \in Tabs : token[t].type \in {"none", "bearer", "dpop"}
  /\ overlapped \subseteq Clicks

\* A fetch is refused for the key of its proof only if its token's login had
\* another DPoP login beside it, or one after it before the fetch was over: the
\* one key pair in IndexedDB changes in no other way, though the save is not
\* awaited and may fail unheard.
MismatchNeedsOverlap ==
  \A c \in Clicks :
    click[c].outcome = "DPoP key mismatch" => click[c].token.login \in overlapped

\* One process takes a proof again only when the entry of its jti has run out,
\* and by then the proof is Window whole seconds old: seconds cut off iat, and
\* the time between the check and the cache, never open an earlier gap.
TakenAgainOnlyAtTheEdge ==
  [][\A c \in Clicks : jtiCache[c] # 0 /\ jtiCache'[c] > jtiCache[c]
       => Sec(now) - click[c].iat >= Window]_vars
=============================================================================
