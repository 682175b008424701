--------------------------- MODULE DpopPage_proofs ---------------------------
(***************************************************************************)
(* Proofs about DpopPage, for any tabs, any number of clicks and any       *)
(* length of a tick.  The inductive invariant IInv ties where each handler *)
(* is to its key, to the operations IndexedDB has still to do, to the      *)
(* tokens given out and to the jti cache.                                  *)
(***************************************************************************)
EXTENDS DpopPage, FiniteSetTheorems, SequenceTheorems,
        TLAPS

HandlerStates == {"idle", "generating", "asking", "reading", "signing", "sent", "over"}
CopyStates == {"none", "sent", "fresh", "over"}
Keys == 0..MaxClicks
Tokens == [type : {"none", "bearer", "dpop"}, key : Keys, login : Keys, exp : Nat]
Handlers == [kind : Kinds, tab : Tabs \cup {NoTab}, at : HandlerStates,
             token : Tokens, key : Keys, iat : Nat, outcome : Outcomes]
Ops == [op : {"put", "get"}, click : Clicks]

Types ==
  /\ now \in 1..Budget
  /\ jtiCache \in [Clicks -> Nat]
  /\ click \in [Clicks -> Handlers]
  /\ \A c \in Clicks : click[c].iat <= Sec(now)
  /\ token \in [Tabs -> Tokens]
  /\ db \in Keys
  /\ queue \in Seq(Ops)
  /\ request \in [Clicks -> [1..2 -> CopyStates]]
  /\ overlapped \in SUBSET Clicks

DpopKinds == {"dpop login", "dpop fetch"}

\* A handler has a key once it has read one, and a request only once it has
\* sent it: then its proof is signed and is not signed again.
ProgressOf(handler, copies) ==
  /\ handler.kind = "none" => handler = Idle
  /\ handler.kind # "none" => handler.at # "idle"
  /\ handler.at = "generating" => handler.kind = "dpop login"
  /\ handler.at \in {"generating", "asking", "reading"} => handler.key = 0
  /\ handler.at = "signing" => handler.key # 0
  /\ handler.at = "sent" /\ handler.kind \in DpopKinds => handler.key # 0
  /\ \A i \in 1..2 : copies[i] # "none" =>
       /\ handler.at \in {"sent", "over"}
       /\ handler.kind \in DpopKinds => handler.key # 0

Progress == \A c \in Clicks : ProgressOf(click[c], request[c])

\* The entry of a jti lasts until Window seconds after the iat of its proof.
EntryOutlivesIat ==
  \A c \in Clicks : jtiCache[c] # 0 =>
    /\ click[c].at \in {"sent", "over"}
    /\ click[c].iat * Second + Window * Second <= jtiCache[c]

\* IndexedDB is asked only by handlers that are past generating their key, and
\* for a key only by those that are past asking.
WasAsked(op, handlers) ==
  /\ handlers[op.click].at \notin {"idle", "generating"}
  /\ op.op = "get" => handlers[op.click].at # "asking"
OpsWereAsked == \A j \in 1..Len(queue) : WasAsked(queue[j], click)

\* A login that was not overlapped is the last one, and the only one at work.
Alone ==
  \A c \in Logins \ overlapped : \A d \in Logins \ {c} : click[d].at = "over"

\* Whatever it will read, every key still to be saved is saved before that...
SavedBeforeRead ==
  \A c \in Logins \ overlapped : click[c].at = "reading" =>
    \A i, j \in 1..Len(queue) :
      queue[i].op = "put" /\ queue[j] = [op |-> "get", click |-> c] => i < j

\* ...so that the key it has read stays the key of the page.
KeyIsCurrent ==
  \A c \in Logins \ overlapped : click[c].key # 0 =>
    /\ db = click[c].key
    /\ \A i \in 1..Len(queue) : queue[i].op # "put"

Store == OpsWereAsked /\ Alone /\ SavedBeforeRead /\ KeyIsCurrent

\* A token of type dpop carries the key its login read.
Bound(tok, handlers) ==
  tok.type = "dpop" =>
    /\ tok.login \in Clicks /\ handlers[tok.login].kind = "dpop login"
    /\ tok.key # 0 /\ tok.key = handlers[tok.login].key

TokensAreBound ==
  /\ \A t \in Tabs : Bound(token[t], click)
  /\ \A c \in Clicks : Bound(click[c].token, click)

\* A fetch goes out under the key of its token unless the login of the token
\* was overlapped; it is refused only when the keys differ.
FetchKeys ==
  \A c \in Clicks :
    /\ click[c].kind = "dpop fetch" => click[c].token.type = "dpop"
    /\ /\ click[c].kind = "dpop fetch" /\ click[c].key # 0
       /\ click[c].token.login \notin overlapped
       => click[c].key = click[c].token.key
    /\ click[c].outcome = "DPoP key mismatch" =>
         /\ click[c].kind = "dpop fetch" /\ click[c].key # 0
         /\ click[c].key # click[c].token.key

IInv == Types /\ Progress /\ EntryOutlivesIat /\ Store /\ TokensAreBound /\ FetchKeys

-----------------------------------------------------------------------------
(* Whole seconds.                                                          *)

\* Cutting a time down to whole seconds loses less than a second of it.
LEMMA SecIsFloor ==
  ASSUME NEW t \in Nat
  PROVE  Sec(t) \in Nat /\ Sec(t) * Second <= t
BY ServerAssumption DEF Sec

LEMMA SecGrows ==
  ASSUME NEW t \in Nat
  PROVE  Sec(t) <= Sec(t + 1)
BY ServerAssumption DEF Sec

LEMMA SecReaches ==
  ASSUME NEW t \in Nat, NEW n \in Nat, n * Second <= t
  PROVE  n <= Sec(t)
BY ServerAssumption DEF Sec

\* An entry added now lasts until Window seconds after any iat that is past.
LEMMA EntryLasts ==
  ASSUME NEW t \in Nat, NEW iat \in Nat, iat <= Sec(t)
  PROVE  /\ t + CacheLife \in Nat
         /\ iat * Second + Window * Second <= t + CacheLife
<1>1. Sec(t) \in Nat /\ Sec(t) * Second <= t
  BY SecIsFloor
<1>2. iat * Second <= Sec(t) * Second
  BY <1>1, ServerAssumption
<1>3. iat * Second \in Nat /\ Sec(t) * Second \in Nat /\ Window * Second \in Nat
  BY <1>1, ServerAssumption
<1> QED
  BY <1>1, <1>2, <1>3 DEF CacheLife

\* A time past the entry is at least Window whole seconds after the iat.
LEMMA EntryRunsOutLate ==
  ASSUME NEW t \in Nat, NEW iat \in Nat, NEW end \in Nat,
         iat * Second + Window * Second <= end, end < t
  PROVE  Sec(t) - iat >= Window
<1>1. (iat + Window) * Second = iat * Second + Window * Second
  BY ServerAssumption
<1>2. iat + Window \in Nat /\ (iat + Window) * Second \in Nat
  BY ServerAssumption
<1>3. (iat + Window) * Second <= t
  BY <1>1, <1>2
<1>4. iat + Window <= Sec(t) /\ Sec(t) \in Nat
  BY <1>2, <1>3, SecReaches, SecIsFloor
<1> QED
  BY <1>4, ServerAssumption

-----------------------------------------------------------------------------
(* What the steps have in common.                                          *)

LEMMA NoTokenIsToken == NoToken \in Tokens /\ NoToken.type = "none"
BY PageAssumption DEF NoToken, Tokens, Keys

LEMMA IdleFields ==
  /\ Idle.kind = "none" /\ Idle.at = "idle" /\ Idle.key = 0 /\ Idle.iat = 0
  /\ Idle.outcome = "none" /\ Idle.token = NoToken
BY DEF Idle

LEMMA IdleIsHandler == Idle \in Handlers
<1>1. NoToken \in Tokens /\ 0 \in Keys /\ 0 \in Nat
  BY NoTokenIsToken, PageAssumption DEF Keys
<1>2. /\ "none" \in Kinds /\ NoTab \in Tabs \cup {NoTab} /\ "idle" \in HandlerStates
      /\ "none" \in Outcomes
  BY DEF Kinds, HandlerStates, Outcomes
<1> QED
  BY <1>1, <1>2 DEF Idle, Handlers

LEMMA NowIsNumber ==
  ASSUME Types
  PROVE  now \in Nat /\ Sec(now) \in Nat
BY SecIsFloor, PageAssumption DEF Types

\* A budget of clicks, ticks and requests sent again bounds the clock.
LEMMA SpentIsNumber ==
  ASSUME Types
  PROVE  Spent \in Nat /\ now <= Spent
<1>1. IsFiniteSet(Clicks)
  BY FS_Interval, PageAssumption DEF Clicks
<1>2. \A S \in SUBSET Clicks : Cardinality(S) \in Nat
  BY <1>1, FS_Subset, FS_CardinalityType
<1>3. Started \in SUBSET Clicks /\ {c \in Clicks : request[c][2] # "none"} \in SUBSET Clicks
  BY DEF Started
<1> QED
  BY <1>2, <1>3 DEF Spent, Types

\* The handler of a new click has the next number, which no other had.
Began(c, kind, at, tok) ==
  /\ UNCHANGED <<now, jtiCache, token, db>>
  /\ click' \in [Clicks -> Handlers]
  /\ \A d \in Clicks \ {c} : click'[d] = click[d]
  /\ click[c] = Idle
  /\ click[c].kind = "none" /\ click[c].at = "idle"
  /\ click[c].key = 0 /\ click[c].iat = 0
  /\ click'[c].kind = kind /\ click'[c].at = at /\ click'[c].token = tok
  /\ click'[c].key = 0 /\ click'[c].iat = 0 /\ click'[c].outcome = "none"
  /\ \A i \in 1..2 : request[c][i] = "none"

LEMMA StartBegins ==
  ASSUME Types, Progress, NEW c \in Clicks, NEW t \in Tabs,
         NEW kind \in Kinds \ {"none"}, NEW at \in HandlerStates \ {"idle"},
         NEW tok \in Tokens, Start(c, kind, t, at, tok)
  PROVE  Began(c, kind, at, tok)
<1> DEFINE new == [Idle EXCEPT !.kind = kind, !.tab = t, !.at = at, !.token = tok]
<1>1. c \notin Started
  BY DEF Start, Clicks
<1>2. click[c].kind = "none"
  BY <1>1 DEF Started
<1>3. click[c] = Idle
  BY <1>2 DEF Progress, ProgressOf
<1>4. \A i \in 1..2 : request[c][i] = "none"
  <2>1. click[c].at = "idle"
    BY <1>3 DEF Idle
  <2> QED
    BY <2>1 DEF Progress, ProgressOf
<1>5. /\ new.kind = kind /\ new.at = at /\ new.token = tok
      /\ new.key = 0 /\ new.iat = 0 /\ new.outcome = "none"
  BY DEF Idle
<1>6. new \in Handlers
  <2>1. Idle \in Handlers
    BY IdleIsHandler
  <2> QED
    BY <2>1 DEF Handlers
<1>7. /\ UNCHANGED <<now, jtiCache, token, db>>
      /\ click' = [click EXCEPT ![c] = new] /\ click \in [Clicks -> Handlers]
  BY DEF Start, serverVars, Types
<1> HIDE DEF new
<1>8. /\ click' \in [Clicks -> Handlers] /\ click'[c] = new
      /\ \A d \in Clicks \ {c} : click'[d] = click[d]
  BY <1>6, <1>7
<1> QED
  BY <1>3, <1>4, <1>5, <1>7, <1>8, IdleFields DEF Began

LEMMA OverFacts ==
  ASSUME Types, NEW c \in Clicks
  PROVE  /\ Over(c) \in Handlers
         /\ Over(c).at = "over" /\ Over(c).outcome = "none"
         /\ Over(c).kind = click[c].kind /\ Over(c).token = click[c].token
         /\ Over(c).key = click[c].key /\ Over(c).iat = click[c].iat
<1>1. click[c] \in Handlers
  BY DEF Types
<1> QED
  BY <1>1 DEF Over, Handlers, HandlerStates, Outcomes

\* IndexedDB stays as it is while no login is started, reads or generates.
LEMMA StoreKept ==
  ASSUME Store, UNCHANGED <<queue, db, overlapped>>, queue \in Seq(Ops),
         \A c \in Clicks :
           /\ (click'[c].kind = "dpop login") <=> (click[c].kind = "dpop login")
           /\ click[c].kind = "dpop login" => click'[c].key = click[c].key
           /\ click[c].at = "over" => click'[c].at = "over"
           /\ click'[c].at \in {"idle", "generating", "reading"} =>
                click'[c].at = click[c].at
           /\ click'[c].at = "asking" => click[c].at \in {"idle", "asking"}
  PROVE  Store'
<1>1. Logins' = Logins
  BY DEF Logins
<1>2. OpsWereAsked'
  <2>1. \A j \in 1..Len(queue) : queue[j] \in Ops
    BY ElementOfSeq
  <2> QED
    BY <2>1 DEF Store, OpsWereAsked, WasAsked, Ops
<1>3. Alone'
  BY <1>1 DEF Store, Alone, Logins
<1>4. SavedBeforeRead'
  <2> SUFFICES ASSUME NEW c \in Logins \ overlapped, click'[c].at = "reading",
                      NEW i \in 1..Len(queue), NEW j \in 1..Len(queue),
                      queue[i].op = "put", queue[j] = [op |-> "get", click |-> c]
               PROVE  i < j
    BY <1>1 DEF SavedBeforeRead
  <2>1. c \in Clicks /\ click[c].at = "reading"
    BY DEF Logins
  <2> QED
    BY <2>1 DEF Store, SavedBeforeRead
<1>5. KeyIsCurrent'
  BY <1>1 DEF Store, KeyIsCurrent, Logins
<1> QED
  BY <1>2, <1>3, <1>4, <1>5 DEF Store

\* A token stays bound while the logins keep their keys.
LEMMA BoundKept ==
  ASSUME NEW tok, Bound(tok, click),
         \A c \in Clicks : click[c].kind = "dpop login" /\ click[c].key # 0 =>
           click'[c].kind = "dpop login" /\ click'[c].key = click[c].key
  PROVE  Bound(tok, click')
BY DEF Bound

\* Keys, kinds and tokens that stay leave the tokens bound, and the fetches
\* under the keys they went out with; more logins may count as overlapped.
LEMMA FetchKeysKept ==
  ASSUME FetchKeys, overlapped \subseteq overlapped',
         \A c \in Clicks :
           /\ click'[c].kind = click[c].kind /\ click'[c].key = click[c].key
           /\ click[c].kind = "dpop fetch" => click'[c].token = click[c].token
           /\ click'[c].outcome = "DPoP key mismatch" =>
                /\ click[c].outcome = "DPoP key mismatch"
                /\ click'[c].token = click[c].token
  PROVE  FetchKeys'
BY DEF FetchKeys

-----------------------------------------------------------------------------
(* The initial state.                                                      *)

LEMMA InitIInv == Init => IInv
<1> SUFFICES ASSUME Init PROVE IInv
  OBVIOUS
<1> USE DEF Init, ServerInit
<1>1. /\ click \in [Clicks -> Handlers] /\ token \in [Tabs -> Tokens]
      /\ \A c \in Clicks : click[c] = Idle
      /\ \A c \in Clicks, i \in 1..2 : request[c][i] = "none"
  BY IdleIsHandler, NoTokenIsToken
<1>2. Types
  <2>1. now \in 1..Budget /\ db \in Keys /\ overlapped \in SUBSET Clicks
    BY PageAssumption DEF Keys
  <2>2. jtiCache \in [Clicks -> Nat] /\ queue \in Seq(Ops)
    BY PageAssumption
  <2>3. request \in [Clicks -> [1..2 -> CopyStates]]
    BY DEF CopyStates
  <2>4. \A c \in Clicks : click[c].iat <= Sec(now)
    BY <1>1, SecIsFloor DEF Idle
  <2> QED
    BY <1>1, <2>1, <2>2, <2>3, <2>4 DEF Types
<1>3. Progress
  BY <1>1, IdleFields DEF Progress, ProgressOf
<1>4. EntryOutlivesIat
  BY PageAssumption DEF EntryOutlivesIat
<1>5. Store
  <2>1. Logins = {} /\ Len(queue) = 0
    BY <1>1 DEF Logins, Idle
  <2> QED
    BY <2>1 DEF Store, OpsWereAsked, Alone, SavedBeforeRead, KeyIsCurrent
<1>6. TokensAreBound
  BY <1>1, NoTokenIsToken DEF TokensAreBound, Bound, Idle
<1>7. FetchKeys
  BY <1>1 DEF FetchKeys, Idle
<1> QED
  BY <1>2, <1>3, <1>4, <1>5, <1>6, <1>7 DEF IInv

-----------------------------------------------------------------------------
(* Clicks.                                                                 *)

\* What every new click keeps, whatever it asks of IndexedDB.
LEMMA BeganKeeps ==
  ASSUME IInv, NEW c \in Clicks, NEW kind, NEW at, NEW tok, Began(c, kind, at, tok),
         kind # "none", Bound(tok, click), kind = "dpop fetch" => tok.type = "dpop",
         overlapped \subseteq overlapped', overlapped' \subseteq Clicks,
         queue' \in Seq(Ops), request' \in [Clicks -> [1..2 -> CopyStates]],
         \A d \in Clicks \ {c} : request'[d] = request[d],
         ProgressOf(click'[c], request'[c])
  PROVE  Types' /\ Progress' /\ EntryOutlivesIat' /\ TokensAreBound' /\ FetchKeys'
<1> USE DEF Began
<1>1. Types'
  <2>1. \A d \in Clicks : click'[d].iat <= Sec(now)
    BY DEF IInv, Types
  <2> QED
    BY <2>1 DEF IInv, Types
<1>2. Progress'
  BY DEF IInv, Progress
<1>3. EntryOutlivesIat'
  BY DEF IInv, EntryOutlivesIat
<1>4. \A k : Bound(k, click) => Bound(k, click')
  BY BoundKept
<1>5. TokensAreBound'
  <2>1. \A t \in Tabs : Bound(token'[t], click')
    BY <1>4 DEF IInv, TokensAreBound
  <2>2. \A d \in Clicks : Bound(click'[d].token, click')
    BY <1>4 DEF IInv, TokensAreBound
  <2> QED
    BY <2>1, <2>2 DEF TokensAreBound
<1>6. FetchKeys'
  <2>1. FetchKeys
    BY DEF IInv
  <2>2. \A d \in Clicks \ {c} : click'[d] = click[d]
    OBVIOUS
  <2>3. /\ click'[c].kind = "dpop fetch" => click'[c].token.type = "dpop"
        /\ click'[c].key = 0 /\ click'[c].outcome = "none"
    OBVIOUS
  <2> HIDE DEF Began
  <2> SUFFICES ASSUME NEW d \in Clicks
               PROVE  /\ click'[d].kind = "dpop fetch" => click'[d].token.type = "dpop"
                      /\ /\ click'[d].kind = "dpop fetch" /\ click'[d].key # 0
                         /\ click'[d].token.login \notin overlapped'
                         => click'[d].key = click'[d].token.key
                      /\ click'[d].outcome = "DPoP key mismatch" =>
                           /\ click'[d].kind = "dpop fetch" /\ click'[d].key # 0
                           /\ click'[d].key # click'[d].token.key
    BY DEF FetchKeys
  <2>4. CASE d = c
    BY <2>3, <2>4
  <2>5. CASE d # c
    <3>1. click'[d] = click[d]
      BY <2>2, <2>5
    <3> QED
      BY <2>1, <3>1 DEF FetchKeys
  <2> QED
    BY <2>4, <2>5
<1> QED
  BY <1>1, <1>2, <1>3, <1>5, <1>6

\* A bearer login or fetch goes out with the click and asks IndexedDB nothing.
LEMMA BearerClickIInv ==
  ASSUME IInv, NEW c \in Clicks, NEW t \in Tabs, LoginBearer(c, t) \/ FetchBearer(c, t)
  PROVE  IInv'
<1>1. token[t] \in Tokens /\ NoToken \in Tokens
  BY NoTokenIsToken DEF IInv, Types
<1>2. PICK kind \in {"bearer login", "bearer fetch"}, tok \in {NoToken, token[t]} :
        /\ Start(c, kind, t, "sent", tok) /\ tok.type # "dpop"
        /\ Send(c) /\ UNCHANGED <<queue, overlapped>>
  BY NoTokenIsToken DEF LoginBearer, FetchBearer
<1>3. /\ kind \in Kinds \ {"none"} /\ "sent" \in HandlerStates \ {"idle"} /\ tok \in Tokens
      /\ kind # "none" /\ kind \notin DpopKinds
  BY <1>1 DEF Kinds, HandlerStates, DpopKinds
<1>4. Began(c, kind, "sent", tok)
  BY <1>2, <1>3, StartBegins, Zenon DEF IInv
<1>5. /\ request' \in [Clicks -> [1..2 -> CopyStates]]
      /\ \A d \in Clicks \ {c} : request'[d] = request[d]
  BY <1>2 DEF Send, IInv, Types, CopyStates
<1>6. ProgressOf(click'[c], request'[c])
  BY <1>3, <1>4 DEF Began, ProgressOf
<1>7. Bound(tok, click) /\ (kind = "dpop fetch" => tok.type = "dpop")
  BY <1>2, <1>3 DEF Bound, DpopKinds
<1>8. queue' \in Seq(Ops) /\ overlapped \subseteq overlapped' /\ overlapped' \subseteq Clicks
  BY <1>2 DEF IInv, Types
<1>9. Types' /\ Progress' /\ EntryOutlivesIat' /\ TokensAreBound' /\ FetchKeys'
  BY <1>3, <1>4, <1>5, <1>6, <1>7, <1>8, BeganKeeps
<1>10. Store'
  <2>1. \A d \in Clicks :
           /\ (click'[d].kind = "dpop login") <=> (click[d].kind = "dpop login")
           /\ click[d].kind = "dpop login" => click'[d].key = click[d].key
           /\ click[d].at = "over" => click'[d].at = "over"
           /\ click'[d].at \in {"idle", "generating", "asking", "reading"} =>
                click'[d].at = click[d].at
    BY <1>3, <1>4 DEF Began, DpopKinds
  <2>2. UNCHANGED <<queue, db, overlapped>> /\ queue \in Seq(Ops) /\ Store
    BY <1>2, <1>4 DEF Began, IInv, Types
  <2> QED
    BY <2>1, <2>2, StoreKept
<1> QED
  BY <1>9, <1>10 DEF IInv

\* A new DPoP login counts every login before it as overlapped, and itself
\* when one of them is still at work.
LEMMA LoginDPoPIInv ==
  ASSUME IInv, NEW c \in Clicks, NEW t \in Tabs, LoginDPoP(c, t)
  PROVE  IInv'
<1>1. Start(c, "dpop login", t, "generating", NoToken) /\ UNCHANGED <<queue, request>>
  BY DEF LoginDPoP
<1>2. overlapped' = overlapped \cup Logins \cup (IF InFlight # {} THEN {c} ELSE {})
  BY DEF LoginDPoP
<1>3. /\ "dpop login" \in Kinds \ {"none"} /\ "generating" \in HandlerStates \ {"idle"}
      /\ NoToken \in Tokens
  BY NoTokenIsToken DEF Kinds, HandlerStates
<1>4. Began(c, "dpop login", "generating", NoToken)
  BY <1>1, <1>3, StartBegins, Zenon DEF IInv
<1>5. ProgressOf(click'[c], request'[c])
  BY <1>1, <1>4 DEF Began, ProgressOf
<1>6. Bound(NoToken, click)
  BY NoTokenIsToken DEF Bound
<1>7. /\ queue' \in Seq(Ops) /\ overlapped \subseteq overlapped' /\ overlapped' \subseteq Clicks
      /\ request' \in [Clicks -> [1..2 -> CopyStates]]
      /\ \A d \in Clicks \ {c} : request'[d] = request[d]
  BY <1>1, <1>2 DEF IInv, Types, Logins
<1>8. Types' /\ Progress' /\ EntryOutlivesIat' /\ TokensAreBound' /\ FetchKeys'
  BY <1>4, <1>5, <1>6, <1>7, BeganKeeps
<1>9. Store'
  <2>1. Logins' = Logins \cup {c}
    BY <1>4 DEF Logins, Began
  <2>2. \A d \in Logins' \ overlapped' : d = c /\ InFlight = {}
    BY <1>2, <2>1
  <2>3. \A j \in 1..Len(queue) : queue[j].click \in Clicks \ {c}
    <3>1. \A j \in 1..Len(queue) : queue[j] \in Ops
      BY ElementOfSeq DEF IInv, Types
    <3> QED
      BY <1>4, <3>1 DEF IInv, Store, OpsWereAsked, WasAsked, Ops, Began
  <2>4. OpsWereAsked'
    BY <1>1, <1>4, <2>3 DEF IInv, Store, OpsWereAsked, WasAsked, Began
  <2>5. Alone'
    <3>1. InFlight = {} => \A d \in Logins : click[d].at = "over"
      BY DEF InFlight
    <3>2. \A d \in Logins : d \in Clicks
      BY DEF Logins
    <3> QED
      BY <1>4, <2>1, <2>2, <3>1, <3>2 DEF Alone, Began
  <2>6. SavedBeforeRead' /\ KeyIsCurrent'
    BY <1>4, <2>2 DEF SavedBeforeRead, KeyIsCurrent, Began
  <2> QED
    BY <2>4, <2>5, <2>6 DEF Store
<1> QED
  BY <1>8, <1>9 DEF IInv

\* A DPoP fetch will ask for the key; with the click it asks for nothing.
LEMMA FetchDPoPIInv ==
  ASSUME IInv, NEW c \in Clicks, NEW t \in Tabs, FetchDPoP(c, t)
  PROVE  IInv'
<1>1. /\ Start(c, "dpop fetch", t, "asking", token[t])
      /\ UNCHANGED <<queue, request, overlapped>>
      /\ token[t].type = "dpop"
  BY DEF FetchDPoP
<1>2. /\ "dpop fetch" \in Kinds \ {"none"} /\ "asking" \in HandlerStates \ {"idle"}
      /\ token[t] \in Tokens
  BY DEF IInv, Types, Kinds, HandlerStates
<1>3. Began(c, "dpop fetch", "asking", token[t])
  BY <1>1, <1>2, StartBegins, Zenon DEF IInv
<1>4. ProgressOf(click'[c], request'[c])
  BY <1>1, <1>3 DEF Began, ProgressOf
<1>5. Bound(token[t], click)
  BY DEF IInv, TokensAreBound
<1>6. /\ queue' \in Seq(Ops) /\ overlapped \subseteq overlapped' /\ overlapped' \subseteq Clicks
      /\ request' \in [Clicks -> [1..2 -> CopyStates]]
      /\ \A d \in Clicks \ {c} : request'[d] = request[d]
  BY <1>1 DEF IInv, Types
<1>7. Types' /\ Progress' /\ EntryOutlivesIat' /\ TokensAreBound' /\ FetchKeys'
  BY <1>1, <1>3, <1>4, <1>5, <1>6, BeganKeeps
<1>8. Store'
  <2>1. \A d \in Clicks :
           /\ (click'[d].kind = "dpop login") <=> (click[d].kind = "dpop login")
           /\ click[d].kind = "dpop login" => click'[d].key = click[d].key
           /\ click[d].at = "over" => click'[d].at = "over"
           /\ click'[d].at \in {"idle", "generating", "reading"} =>
                click'[d].at = click[d].at
           /\ click'[d].at = "asking" => click[d].at \in {"idle", "asking"}
    BY <1>3 DEF Began
  <2>2. UNCHANGED <<queue, db, overlapped>> /\ queue \in Seq(Ops) /\ Store
    BY <1>1, <1>3 DEF Began, IInv, Types
  <2> QED
    BY <2>1, <2>2, StoreKept
<1> QED
  BY <1>7, <1>8 DEF IInv

\* What the end of handlers keeps: a logout, a reload, an answer that is shown
\* and one that does not come.
LEMMA EndsKeep ==
  ASSUME IInv, UNCHANGED <<serverVars, db, queue, request, overlapped>>,
         click' \in [Clicks -> Handlers],
         \A c \in Clicks :
           \/ click'[c] = click[c]
           \/ click[c].kind # "none" /\ click'[c] = Over(c),
         token' \in [Tabs -> Tokens], \A t \in Tabs : Bound(token'[t], click)
  PROVE  IInv'
<1>1. /\ UNCHANGED <<now, jtiCache, db, queue, request, overlapped>>
      /\ queue \in Seq(Ops)
  BY DEF serverVars, IInv, Types
<1>2. \A c \in Clicks :
        /\ click'[c].kind = click[c].kind /\ click'[c].token = click[c].token
        /\ click'[c].key = click[c].key /\ click'[c].iat = click[c].iat
        /\ click'[c] = click[c] \/
             (click[c].kind # "none" /\ click'[c].at = "over" /\ click'[c].outcome = "none")
  BY OverFacts DEF IInv
<1>3. Types'
  BY <1>1, <1>2 DEF IInv, Types
<1>4. Progress'
  <2> SUFFICES ASSUME NEW c \in Clicks PROVE ProgressOf(click'[c], request[c])
    BY <1>1 DEF Progress
  <2>1. ProgressOf(click[c], request[c])
    BY DEF IInv, Progress
  <2>2. CASE click'[c] = click[c]
    BY <2>1, <2>2
  <2>3. CASE click[c].kind # "none" /\ click'[c].at = "over"
    BY <1>2, <2>1, <2>3 DEF ProgressOf
  <2> QED
    BY <1>2, <2>2, <2>3
<1>5. EntryOutlivesIat'
  BY <1>1, <1>2 DEF IInv, EntryOutlivesIat
<1>6. Store'
  <2>1. \A c \in Clicks :
          /\ click[c].at = "over" => click'[c].at = "over"
          /\ click'[c].at \in {"idle", "generating", "asking", "reading"} =>
               click'[c].at = click[c].at
    BY <1>2
  <2> QED
    BY <1>1, <1>2, <2>1, StoreKept DEF IInv
<1>7. \A k : Bound(k, click) => Bound(k, click')
  BY <1>2, BoundKept
<1>8. TokensAreBound'
  <2>1. \A t \in Tabs : Bound(token'[t], click')
    BY <1>7
  <2>2. \A c \in Clicks : Bound(click'[c].token, click')
    BY <1>2, <1>7 DEF IInv, TokensAreBound
  <2> QED
    BY <2>1, <2>2 DEF TokensAreBound
<1>9. FetchKeys'
  BY <1>1, <1>2, FetchKeysKept DEF IInv
<1> QED
  BY <1>3, <1>4, <1>5, <1>6, <1>8, <1>9 DEF IInv

LEMMA LogoutIInv ==
  ASSUME IInv, NEW t \in Tabs, Logout(t)
  PROVE  IInv'
<1>1. token' = [token EXCEPT ![t] = NoToken]
      /\ UNCHANGED <<serverVars, click, db, queue, request, overlapped>>
  BY DEF Logout
<1>2. token' \in [Tabs -> Tokens] /\ click' \in [Clicks -> Handlers]
  BY <1>1, NoTokenIsToken DEF IInv, Types
<1>3. Bound(NoToken, click)
  BY NoTokenIsToken DEF Bound
<1>4. \A s \in Tabs : Bound(token'[s], click)
  BY <1>1, <1>3 DEF IInv, Types, TokensAreBound
<1> QED
  BY <1>1, <1>2, <1>4, EndsKeep

LEMMA ReloadIInv ==
  ASSUME IInv, NEW t \in Tabs, Reload(t)
  PROVE  IInv'
<1>1. /\ token' = [token EXCEPT ![t] = NoToken]
      /\ UNCHANGED <<serverVars, db, queue, request, overlapped>>
      /\ click' = [c \in Clicks |-> IF click[c].tab = t THEN Over(c) ELSE click[c]]
  BY DEF Reload
<1>2. token' \in [Tabs -> Tokens] /\ click' \in [Clicks -> Handlers]
  BY <1>1, NoTokenIsToken, OverFacts DEF IInv, Types
<1>3. \A c \in Clicks :
        \/ click'[c] = click[c]
        \/ click[c].kind # "none" /\ click'[c] = Over(c)
  <2> SUFFICES ASSUME NEW c \in Clicks, click[c].tab = t
               PROVE  click[c].kind # "none" /\ click'[c] = Over(c)
    BY <1>1
  <2>1. click[c].kind # "none"
    <3>1. click[c].kind = "none" => click[c] = Idle
      BY DEF IInv, Progress, ProgressOf
    <3>2. Idle.tab \notin Tabs
      BY PageAssumption DEF Idle
    <3> QED
      BY <3>1, <3>2
  <2> QED
    BY <1>1, <2>1
<1>4. Bound(NoToken, click)
  BY NoTokenIsToken DEF Bound
<1>5. \A s \in Tabs : Bound(token'[s], click)
  BY <1>1, <1>4 DEF IInv, Types, TokensAreBound
<1> QED
  BY <1>1, <1>2, <1>3, <1>5, EndsKeep

\* An answer reaches its tab, or an await of the handler rejects.
LEMMA ReceiveIInv ==
  ASSUME IInv, NEW c \in Clicks, Receive(c) \/ Rejects(c)
  PROVE  IInv'
<1>1. /\ UNCHANGED <<serverVars, db, queue, request, overlapped>>
      /\ click[c].at # "idle" /\ click' = [click EXCEPT ![c] = Over(c)]
  BY DEF Receive, Rejects
<1>2. click' \in [Clicks -> Handlers]
  BY <1>1, OverFacts DEF IInv, Types
<1>3. click[c].kind # "none"
  BY <1>1, IdleFields DEF IInv, Progress, ProgressOf
<1>4. \A d \in Clicks :
        \/ click'[d] = click[d]
        \/ click[d].kind # "none" /\ click'[d] = Over(d)
  BY <1>1, <1>3 DEF IInv, Types
<1>5. token' = token \/ token' = [token EXCEPT ![click[c].tab] = click[c].token]
  BY DEF Receive, Rejects
<1>6. click[c].token \in Tokens /\ Bound(click[c].token, click)
  <2>1. click[c] \in Handlers
    BY DEF IInv, Types
  <2> QED
    BY <2>1 DEF IInv, TokensAreBound, Handlers
<1>7. token' \in [Tabs -> Tokens]
  BY <1>5, <1>6 DEF IInv, Types
<1>8. \A t \in Tabs : Bound(token'[t], click)
  <2> SUFFICES ASSUME NEW t \in Tabs PROVE Bound(token'[t], click)
    OBVIOUS
  <2>1. token'[t] = token[t] \/ token'[t] = click[c].token
    BY <1>5 DEF IInv, Types
  <2> QED
    BY <1>6, <2>1 DEF IInv, TokensAreBound
<1> QED
  BY <1>1, <1>2, <1>4, <1>7, <1>8, EndsKeep

-----------------------------------------------------------------------------
(* The handlers of a DPoP login and of a DPoP fetch.                       *)

\* The save is queued; the only login that may not be overlapped is this one.
LEMMA GenerateKeyPairIInv ==
  ASSUME IInv, NEW c \in Clicks, GenerateKeyPair(c)
  PROVE  IInv'
<1> DEFINE op == [op |-> "put", click |-> c]
<1>1. /\ UNCHANGED <<now, jtiCache, token, db, request, overlapped>>
      /\ click[c].at = "generating"
  BY DEF GenerateKeyPair, serverVars
<1>2. queue' = Append(queue, op) /\ click' = [click EXCEPT ![c].at = "asking"]
  BY DEF GenerateKeyPair
<1>3. op.click = c /\ op \in Ops /\ op.op = "put"
  BY DEF Ops
<1> HIDE DEF op
<1>4. /\ queue' \in Seq(Ops) /\ Len(queue) \in Nat /\ Len(queue') = Len(queue) + 1
      /\ \A j \in 1..Len(queue) : queue'[j] = queue[j]
      /\ queue'[Len(queue) + 1] = op
      /\ \A j \in 1..Len(queue) : queue[j] \in Ops
  <2>1. queue \in Seq(Ops)
    BY DEF IInv, Types
  <2> QED
    BY <1>2, <1>3, <2>1, AppendProperties, ElementOfSeq, LenProperties
<1>5. /\ click' \in [Clicks -> Handlers]
      /\ \A d \in Clicks \ {c} : click'[d] = click[d]
      /\ click'[c].at = "asking" /\ click'[c].kind = click[c].kind
      /\ click'[c].key = click[c].key /\ click'[c].iat = click[c].iat
      /\ click'[c].token = click[c].token /\ click'[c].outcome = click[c].outcome
  BY <1>2 DEF IInv, Types, Handlers, HandlerStates
<1>6. ProgressOf(click[c], request[c])
  BY DEF IInv, Progress
<1>7. click[c].kind = "dpop login" /\ click[c].key = 0
  BY <1>1, <1>6, IdleFields DEF ProgressOf
<1>8. Types'
  BY <1>1, <1>4, <1>5 DEF IInv, Types
<1>9. Progress'
  <2>1. ProgressOf(click'[c], request[c])
    BY <1>1, <1>5, <1>6, <1>7 DEF ProgressOf
  <2> QED
    BY <1>1, <1>5, <2>1 DEF IInv, Progress
<1>10. EntryOutlivesIat'
  BY <1>1, <1>5 DEF IInv, EntryOutlivesIat
<1>11. Store'
  <2>1. Logins' = Logins /\ c \in Logins /\ Logins \subseteq Clicks
    BY <1>5, <1>7 DEF Logins
  <2>2. \A j \in 1..Len(queue') : j \in 1..Len(queue) \/ j = Len(queue) + 1
    BY <1>4
  <2>3. \A j \in 1..Len(queue) : queue[j].click \in Clicks \ {c}
    BY <1>1, <1>4 DEF IInv, Store, OpsWereAsked, WasAsked, Ops
  <2>4. \A d \in Logins \ overlapped : d = c
    BY <1>1, <2>1 DEF IInv, Store, Alone
  <2>5. OpsWereAsked'
    <3>1. \A j \in 1..Len(queue) : WasAsked(queue'[j], click')
      BY <1>4, <1>5, <2>3 DEF IInv, Store, OpsWereAsked, WasAsked
    <3>2. WasAsked(op, click')
      BY <1>3, <1>5 DEF WasAsked
    <3> QED
      BY <1>4, <2>2, <3>1, <3>2 DEF OpsWereAsked
  <2>6. Alone'
    <3>1. \A d \in Logins \ {c} : click'[d] = click[d]
      BY <1>5, <2>1
    <3> QED
      BY <1>1, <2>1, <2>4, <3>1 DEF IInv, Store, Alone
  <2>7. SavedBeforeRead' /\ KeyIsCurrent'
    BY <1>1, <1>5, <1>7, <2>1, <2>4 DEF SavedBeforeRead, KeyIsCurrent
  <2> QED
    BY <2>5, <2>6, <2>7 DEF Store
<1>12. \A k : Bound(k, click) => Bound(k, click')
  BY <1>5, <1>7, BoundKept
<1>13. TokensAreBound'
  <2>1. \A t \in Tabs : Bound(token'[t], click')
    BY <1>1, <1>12 DEF IInv, TokensAreBound
  <2>2. \A d \in Clicks : Bound(click'[d].token, click')
    BY <1>5, <1>12 DEF IInv, TokensAreBound
  <2> QED
    BY <2>1, <2>2 DEF TokensAreBound
<1>14. FetchKeys'
  BY <1>1, <1>5, <1>7 DEF IInv, FetchKeys
<1> QED
  BY <1>8, <1>9, <1>10, <1>11, <1>13, <1>14 DEF IInv

\* The read is queued behind every save that was asked for before.
LEMMA AskForKeyIInv ==
  ASSUME IInv, NEW c \in Clicks, AskForKey(c)
  PROVE  IInv'
<1> DEFINE op == [op |-> "get", click |-> c]
<1>1. /\ UNCHANGED <<now, jtiCache, token, db, request, overlapped>>
      /\ click[c].at = "asking"
  BY DEF AskForKey, serverVars
<1>2. queue' = Append(queue, op) /\ click' = [click EXCEPT ![c].at = "reading"]
  BY DEF AskForKey
<1>3. op.click = c /\ op \in Ops /\ op.op = "get"
  BY DEF Ops
<1> HIDE DEF op
<1>4. /\ queue' \in Seq(Ops) /\ Len(queue) \in Nat /\ Len(queue') = Len(queue) + 1
      /\ \A j \in 1..Len(queue) : queue'[j] = queue[j]
      /\ queue'[Len(queue) + 1] = op
      /\ \A j \in 1..Len(queue) : queue[j] \in Ops
  <2>1. queue \in Seq(Ops)
    BY DEF IInv, Types
  <2> QED
    BY <1>2, <1>3, <2>1, AppendProperties, ElementOfSeq, LenProperties
<1>5. /\ click' \in [Clicks -> Handlers]
      /\ \A d \in Clicks \ {c} : click'[d] = click[d]
      /\ click'[c].at = "reading" /\ click'[c].kind = click[c].kind
      /\ click'[c].key = click[c].key /\ click'[c].iat = click[c].iat
      /\ click'[c].token = click[c].token /\ click'[c].outcome = click[c].outcome
  BY <1>2 DEF IInv, Types, Handlers, HandlerStates
<1>6. ProgressOf(click[c], request[c])
  BY DEF IInv, Progress
<1>7. click[c].kind # "none" /\ click[c].key = 0
  BY <1>1, <1>6, IdleFields DEF ProgressOf
<1>8. Types'
  BY <1>1, <1>4, <1>5 DEF IInv, Types
<1>9. Progress'
  <2>1. ProgressOf(click'[c], request[c])
    BY <1>1, <1>5, <1>6, <1>7 DEF ProgressOf
  <2> QED
    BY <1>1, <1>5, <2>1 DEF IInv, Progress
<1>10. EntryOutlivesIat'
  BY <1>1, <1>5 DEF IInv, EntryOutlivesIat
<1>11. Store'
  <2>1. Logins' = Logins /\ Logins \subseteq Clicks
    BY <1>5, <1>7 DEF Logins
  <2>2. \A j \in 1..Len(queue') : j \in 1..Len(queue) \/ j = Len(queue) + 1
    BY <1>4
  <2>3. \A j \in 1..Len(queue) : queue[j] # op
    BY <1>1, <1>3 DEF IInv, Store, OpsWereAsked, WasAsked
  <2>4. OpsWereAsked'
    <3>1. \A j \in 1..Len(queue) : WasAsked(queue'[j], click')
      BY <1>4, <1>5 DEF IInv, Store, OpsWereAsked, WasAsked, Ops
    <3>2. WasAsked(op, click')
      BY <1>3, <1>5 DEF WasAsked
    <3> QED
      BY <1>4, <2>2, <3>1, <3>2 DEF OpsWereAsked
  <2>5. Alone'
    <3>1. \A d \in Logins : click[d].at = "over" => click'[d].at = "over"
      BY <1>1, <1>5, <2>1
    <3> QED
      BY <1>1, <2>1, <3>1 DEF IInv, Store, Alone
  <2>6. SavedBeforeRead'
    <3> SUFFICES ASSUME NEW d \in Logins \ overlapped, click'[d].at = "reading",
                        NEW i \in 1..Len(queue'), NEW j \in 1..Len(queue'),
                        queue'[i].op = "put",
                        queue'[j] = [op |-> "get", click |-> d]
                 PROVE  i < j
      BY <1>1, <2>1 DEF SavedBeforeRead
    <3>1. i \in 1..Len(queue)
      BY <1>3, <1>4, <2>2
    <3>2. CASE d = c
      <4>1. queue'[j] = op
        BY <3>2 DEF op
      <4>2. j = Len(queue) + 1
        BY <1>4, <2>2, <2>3, <4>1
      <4> QED
        BY <1>4, <3>1, <4>2
    <3>3. CASE d # c
      <4>1. click[d].at = "reading"
        BY <1>5, <2>1, <3>3
      <4>2. queue'[j].click # c
        BY <3>3
      <4>3. j \in 1..Len(queue)
        BY <1>3, <1>4, <2>2, <4>2
      <4>4. queue[i].op = "put" /\ queue[j] = [op |-> "get", click |-> d]
        BY <1>4, <3>1, <4>3
      <4> QED
        BY <3>1, <4>1, <4>3, <4>4 DEF IInv, Store, SavedBeforeRead
    <3> QED
      BY <3>2, <3>3
  <2>7. KeyIsCurrent'
    <3>1. \A d \in Logins : click'[d].key = click[d].key
      BY <1>5, <2>1
    <3>2. ASSUME \A i \in 1..Len(queue) : queue[i].op # "put"
          PROVE  \A i \in 1..Len(queue') : queue'[i].op # "put"
      BY <1>3, <1>4, <2>2, <3>2
    <3> QED
      BY <1>1, <2>1, <3>1, <3>2 DEF IInv, Store, KeyIsCurrent
  <2> QED
    BY <2>4, <2>5, <2>6, <2>7 DEF Store
<1>12. \A k : Bound(k, click) => Bound(k, click')
  BY <1>5, <1>7, BoundKept
<1>13. TokensAreBound'
  <2>1. \A t \in Tabs : Bound(token'[t], click')
    BY <1>1, <1>12 DEF IInv, TokensAreBound
  <2>2. \A d \in Clicks : Bound(click'[d].token, click')
    BY <1>5, <1>12 DEF IInv, TokensAreBound
  <2> QED
    BY <2>1, <2>2 DEF TokensAreBound
<1>14. FetchKeys'
  BY <1>1, <1>5, <1>7 DEF IInv, FetchKeys
<1> QED
  BY <1>8, <1>9, <1>10, <1>11, <1>13, <1>14 DEF IInv

\* What IndexedDB has still to do, once it has done the first of it.
LEMMA FirstOpDone ==
  ASSUME IInv, queue # <<>>, queue' = Tail(queue)
  PROVE  /\ Head(queue) = queue[1] /\ queue[1] \in Ops
         /\ queue' \in Seq(Ops) /\ Len(queue) \in Nat \ {0} /\ Len(queue') = Len(queue) - 1
         /\ \A j \in 1..Len(queue') : j + 1 \in 1..Len(queue) /\ queue'[j] = queue[j + 1]
         /\ \A j \in 1..Len(queue) : queue[j] \in Ops
<1>1. queue \in Seq(Ops)
  BY DEF IInv, Types
<1>2. Len(queue) \in Nat \ {0}
  BY <1>1, EmptySeq
<1>3. \A j \in 1..Len(queue) : queue[j] \in Ops
  BY <1>1, ElementOfSeq
<1>4. queue' \in Seq(Ops) /\ Len(queue') = Len(queue) - 1
  BY <1>1, HeadTailProperties
<1>5. \A j \in 1..Len(queue') : queue'[j] = queue[j + 1]
  BY <1>1, HeadTailProperties
<1>6. Head(queue) = queue[1]
  BY <1>1, <1>2
<1> QED
  BY <1>2, <1>3, <1>4, <1>5, <1>6

\* A put that is done or fails: no login that was not overlapped has read yet.
LEMMA PutIInv ==
  ASSUME IInv, Put \/ PutFails
  PROVE  IInv'
<1>1. /\ UNCHANGED <<now, jtiCache, click, token, request, overlapped>>
      /\ queue # <<>> /\ Head(queue).op = "put" /\ queue' = Tail(queue)
      /\ db' = db \/ db' = Head(queue).click
  BY DEF Put, PutFails, serverVars
<1>2. /\ Head(queue) = queue[1] /\ queue[1] \in Ops
      /\ queue' \in Seq(Ops) /\ Len(queue) \in Nat \ {0} /\ Len(queue') = Len(queue) - 1
      /\ \A j \in 1..Len(queue') : j + 1 \in 1..Len(queue) /\ queue'[j] = queue[j + 1]
      /\ \A j \in 1..Len(queue) : queue[j] \in Ops
  BY <1>1, FirstOpDone
<1>3. Types'
  <2>1. db' \in Keys
    BY <1>1, <1>2, PageAssumption DEF IInv, Types, Ops, Keys, Clicks
  <2> QED
    BY <1>1, <1>2, <2>1 DEF IInv, Types
<1>4. Progress' /\ EntryOutlivesIat' /\ TokensAreBound' /\ FetchKeys'
  BY <1>1 DEF IInv, Progress, EntryOutlivesIat, TokensAreBound, FetchKeys
<1>5. Store'
  <2>1. Logins' = Logins
    BY <1>1 DEF Logins
  <2>2. OpsWereAsked' /\ Alone'
    BY <1>1, <1>2, <2>1 DEF IInv, Store, OpsWereAsked, WasAsked, Alone
  <2>3. SavedBeforeRead'
    <3> SUFFICES ASSUME NEW d \in Logins \ overlapped, click[d].at = "reading",
                        NEW i \in 1..Len(queue'), NEW j \in 1..Len(queue'),
                        queue'[i].op = "put",
                        queue'[j] = [op |-> "get", click |-> d]
                 PROVE  i < j
      BY <1>1, <2>1 DEF SavedBeforeRead
    <3>1. i + 1 < j + 1
      BY <1>2 DEF IInv, Store, SavedBeforeRead
    <3> QED
      BY <3>1
  <2>4. \A d \in Logins \ overlapped : click[d].key = 0
    BY <1>1, <1>2 DEF IInv, Store, KeyIsCurrent
  <2>5. KeyIsCurrent'
    BY <1>1, <2>1, <2>4 DEF KeyIsCurrent
  <2> QED
    BY <2>2, <2>3, <2>5 DEF Store
<1> QED
  BY <1>3, <1>4, <1>5 DEF IInv

\* A get: the key a login that was not overlapped reads is the last one saved,
\* and a fetch with its token reads the same.
LEMMA GetIInv ==
  ASSUME IInv, Get
  PROVE  IInv'
<1> DEFINE c == Head(queue).click
<1>1. /\ UNCHANGED <<now, jtiCache, token, db, request, overlapped>>
      /\ queue # <<>> /\ Head(queue).op = "get" /\ queue' = Tail(queue)
  BY DEF Get, serverVars
<1>2. /\ Head(queue) = queue[1] /\ queue[1] \in Ops
      /\ queue' \in Seq(Ops) /\ Len(queue) \in Nat \ {0} /\ Len(queue') = Len(queue) - 1
      /\ \A j \in 1..Len(queue') : j + 1 \in 1..Len(queue) /\ queue'[j] = queue[j + 1]
      /\ \A j \in 1..Len(queue) : queue[j] \in Ops
  BY <1>1, FirstOpDone
<1>3. c \in Clicks /\ queue[1] = [op |-> "get", click |-> c]
  BY <1>1, <1>2 DEF Ops
<1>4. \/ click' = click /\ click[c].at # "reading"
      \/ click[c].at = "reading" /\ db = 0 /\ click' = [click EXCEPT ![c] = Over(c)]
      \/ /\ click[c].at = "reading" /\ db # 0
         /\ click' = [click EXCEPT ![c] = [@ EXCEPT !.key = db, !.at = "signing"]]
  BY DEF Get
<1> HIDE DEF c
<1>5. click \in [Clicks -> Handlers] /\ db \in Keys
  BY DEF IInv, Types
<1>6. /\ click' \in [Clicks -> Handlers]
      /\ \A d \in Clicks \ {c} : click'[d] = click[d]
      /\ \/ click'[c] = click[c] /\ click[c].at # "reading"
         \/ /\ click[c].at = "reading"
            /\ click'[c].kind = click[c].kind /\ click'[c].iat = click[c].iat
            /\ click'[c].token = click[c].token
            /\ \/ /\ click'[c].at = "over" /\ click'[c].key = click[c].key
                  /\ click'[c].outcome = "none"
               \/ /\ click'[c].at = "signing" /\ click'[c].key = db /\ db # 0
                  /\ click'[c].outcome = click[c].outcome
  <2>1. CASE click' = click /\ click[c].at # "reading"
    BY <1>5, <2>1
  <2>2. CASE /\ click[c].at = "reading" /\ click' = [click EXCEPT ![c] = Over(c)]
    BY <1>3, <1>5, <2>2, OverFacts DEF IInv
  <2>3. CASE /\ click[c].at = "reading" /\ db # 0
             /\ click' = [click EXCEPT ![c] = [@ EXCEPT !.key = db, !.at = "signing"]]
    BY <1>3, <1>5, <2>3 DEF Handlers, HandlerStates
  <2> QED
    BY <1>4, <2>1, <2>2, <2>3
<1>7. ProgressOf(click[c], request[c])
  BY <1>3 DEF IInv, Progress
<1>8. click[c].at = "reading" => click[c].key = 0 /\ click[c].kind # "none"
  BY <1>7, IdleFields DEF ProgressOf
<1>9. Types'
  <2>1. \A d \in Clicks : click'[d].iat = click[d].iat
    BY <1>6
  <2> QED
    BY <1>1, <1>2, <1>6, <2>1 DEF IInv, Types
<1>10. Progress'
  <2>1. ProgressOf(click'[c], request[c])
    <3>1. CASE click'[c] = click[c]
      BY <1>7, <3>1
    <3>2. CASE click[c].at = "reading"
      BY <1>6, <1>7, <1>8, <3>2 DEF ProgressOf
    <3> QED
      BY <1>6, <3>1, <3>2
  <2> QED
    BY <1>1, <1>6, <2>1 DEF IInv, Progress
<1>11. EntryOutlivesIat'
  BY <1>1, <1>6 DEF IInv, EntryOutlivesIat
<1>12. Store'
  <2>1. Logins' = Logins /\ Logins \subseteq Clicks
    BY <1>6 DEF Logins
  <2>2. \A d \in Clicks :
          /\ click'[d].at \in {"idle", "generating", "asking", "reading"} => click'[d] = click[d]
          /\ click[d].at = "over" => click'[d].at = "over"
    BY <1>6
  <2>3. OpsWereAsked'
    <3> SUFFICES ASSUME NEW j \in 1..Len(queue') PROVE WasAsked(queue'[j], click')
      BY DEF OpsWereAsked
    <3>1. queue[j + 1].click \in Clicks
      BY <1>2 DEF Ops
    <3>2. WasAsked(queue[j + 1], click)
      BY <1>2 DEF IInv, Store, OpsWereAsked
    <3>3. queue'[j] = queue[j + 1]
      BY <1>2
    <3> QED
      BY <2>2, <3>1, <3>2, <3>3 DEF WasAsked
  <2>4. Alone'
    BY <1>1, <2>1, <2>2 DEF IInv, Store, Alone
  <2>5. SavedBeforeRead'
    <3> SUFFICES ASSUME NEW d \in Logins \ overlapped, click'[d].at = "reading",
                        NEW i \in 1..Len(queue'), NEW j \in 1..Len(queue'),
                        queue'[i].op = "put",
                        queue'[j] = [op |-> "get", click |-> d]
                 PROVE  i < j
      BY <1>1, <2>1 DEF SavedBeforeRead
    <3>1. click[d].at = "reading"
      BY <2>1, <2>2
    <3>2. i + 1 < j + 1
      BY <1>2, <3>1 DEF IInv, Store, SavedBeforeRead
    <3> QED
      BY <3>2
  <2>6. KeyIsCurrent'
    <3> SUFFICES ASSUME NEW d \in Logins \ overlapped, click'[d].key # 0
                 PROVE  /\ db = click'[d].key
                        /\ \A i \in 1..Len(queue') : queue'[i].op # "put"
      BY <1>1, <2>1 DEF KeyIsCurrent
    <3>1. CASE click'[d].key = click[d].key
      BY <1>2, <3>1 DEF IInv, Store, KeyIsCurrent
    <3>2. CASE click'[d].key # click[d].key
      <4>1. d = c /\ click[d].at = "reading" /\ click'[d].key = db
        BY <1>6, <2>1, <3>2
      <4>2. \A i \in 1..Len(queue) : queue[i].op = "put" => i < 1
        BY <1>2, <1>3, <4>1 DEF IInv, Store, SavedBeforeRead
      <4>3. \A i \in 1..Len(queue') : queue'[i].op # "put"
        BY <1>2, <4>2
      <4> QED
        BY <4>1, <4>3
    <3> QED
      BY <3>1, <3>2
  <2> QED
    BY <2>3, <2>4, <2>5, <2>6 DEF Store
<1>13. \A k : Bound(k, click) => Bound(k, click')
  BY <1>6, <1>8, BoundKept
<1>14. TokensAreBound'
  <2>1. \A t \in Tabs : Bound(token'[t], click')
    BY <1>1, <1>13 DEF IInv, TokensAreBound
  <2>2. \A d \in Clicks : Bound(click'[d].token, click')
    BY <1>6, <1>13 DEF IInv, TokensAreBound
  <2> QED
    BY <2>1, <2>2 DEF TokensAreBound
<1>15. FetchKeys'
  <2>1. click[c].at = "reading" => click[c].outcome # "DPoP key mismatch"
    BY <1>3, <1>8 DEF IInv, FetchKeys
  <2>2. ASSUME click[c].at = "reading", click'[c].key = db, db # 0,
               click[c].kind = "dpop fetch", click[c].token.login \notin overlapped
        PROVE  db = click[c].token.key
    <3>1. click[c].token.type = "dpop" /\ Bound(click[c].token, click)
      BY <1>3, <2>2 DEF IInv, FetchKeys, TokensAreBound
    <3>2. /\ click[c].token.login \in Logins \ overlapped
          /\ click[c].token.key # 0
          /\ click[c].token.key = click[click[c].token.login].key
      BY <2>2, <3>1 DEF Bound, Logins
    <3> QED
      BY <3>2 DEF IInv, Store, KeyIsCurrent
  <2>3. ASSUME NEW d \in Clicks, click'[d] = click[d]
        PROVE  /\ click'[d].kind = "dpop fetch" => click'[d].token.type = "dpop"
               /\ /\ click'[d].kind = "dpop fetch" /\ click'[d].key # 0
                  /\ click'[d].token.login \notin overlapped
                  => click'[d].key = click'[d].token.key
               /\ click'[d].outcome = "DPoP key mismatch" =>
                    /\ click'[d].kind = "dpop fetch" /\ click'[d].key # 0
                    /\ click'[d].key # click'[d].token.key
    BY <2>3 DEF IInv, FetchKeys
  <2>4. ASSUME NEW d \in Clicks, click'[d] # click[d]
        PROVE  /\ click'[d].kind = "dpop fetch" => click'[d].token.type = "dpop"
               /\ /\ click'[d].kind = "dpop fetch" /\ click'[d].key # 0
                  /\ click'[d].token.login \notin overlapped
                  => click'[d].key = click'[d].token.key
               /\ click'[d].outcome # "DPoP key mismatch"
    <3>1. /\ d = c /\ click[c].at = "reading" /\ click[c].key = 0
          /\ click'[c].kind = click[c].kind /\ click'[c].token = click[c].token
          /\ click'[c].outcome \in {"none", click[c].outcome}
          /\ click'[c].key = 0 \/ (click'[c].key = db /\ db # 0)
      BY <1>6, <1>8, <2>4
    <3>2. click[c].kind = "dpop fetch" => click[c].token.type = "dpop"
      BY <1>3 DEF IInv, FetchKeys
    <3> QED
      BY <2>1, <2>2, <3>1, <3>2
  <2> QED
    BY <1>1, <2>3, <2>4 DEF FetchKeys
<1> QED
  BY <1>9, <1>10, <1>11, <1>12, <1>14, <1>15 DEF IInv

\* The proof is signed and sent once, and its iat is not ahead of the clock.
LEMMA SignIInv ==
  ASSUME IInv, NEW c \in Clicks, Sign(c)
  PROVE  IInv'
<1>1. /\ UNCHANGED <<now, jtiCache, token, db, queue, overlapped>>
      /\ click[c].at = "signing" /\ request' = [request EXCEPT ![c][1] = "sent"]
      /\ click' = [click EXCEPT ![c].iat = Sec(now), ![c].at = "sent"]
  BY DEF Sign, Send, serverVars
<1>2. now \in Nat /\ Sec(now) \in Nat
  BY NowIsNumber DEF IInv
<1>3. /\ click' \in [Clicks -> Handlers]
      /\ \A d \in Clicks \ {c} : click'[d] = click[d]
      /\ click'[c].at = "sent" /\ click'[c].iat = Sec(now)
      /\ click'[c].kind = click[c].kind /\ click'[c].token = click[c].token
      /\ click'[c].key = click[c].key /\ click'[c].outcome = click[c].outcome
  BY <1>1, <1>2 DEF IInv, Types, Handlers, HandlerStates
<1>4. /\ request' \in [Clicks -> [1..2 -> CopyStates]]
      /\ \A d \in Clicks \ {c} : request'[d] = request[d]
  BY <1>1 DEF IInv, Types, CopyStates
<1>5. ProgressOf(click[c], request[c])
  BY DEF IInv, Progress
<1>6. click[c].key # 0 /\ click[c].kind # "none"
  BY <1>1, <1>5, IdleFields DEF ProgressOf
<1>7. Types'
  <2>1. \A d \in Clicks \ {c} : click'[d].iat <= Sec(now)
    BY <1>3 DEF IInv, Types
  <2>2. click'[c].iat <= Sec(now)
    BY <1>2, <1>3
  <2>3. \A d \in Clicks : click'[d].iat <= Sec(now)
    BY <2>1, <2>2
  <2> QED
    BY <1>1, <1>3, <1>4, <2>3 DEF IInv, Types
<1>8. Progress'
  <2>1. ProgressOf(click'[c], request'[c])
    BY <1>3, <1>6 DEF ProgressOf
  <2> QED
    BY <1>3, <1>4, <2>1 DEF IInv, Progress
<1>9. EntryOutlivesIat'
  BY <1>1, <1>3 DEF IInv, EntryOutlivesIat
<1>10. Store'
  <2>1. \A d \in Clicks :
           /\ click'[d].kind = click[d].kind /\ click'[d].key = click[d].key
           /\ click[d].at = "over" => click'[d].at = "over"
           /\ click'[d].at \in {"idle", "generating", "asking", "reading"} =>
                click'[d].at = click[d].at
    BY <1>1, <1>3
  <2>2. UNCHANGED <<queue, db, overlapped>> /\ queue \in Seq(Ops) /\ Store
    BY <1>1 DEF IInv, Types
  <2> QED
    BY <2>1, <2>2, StoreKept
<1>11. \A k : Bound(k, click) => Bound(k, click')
  BY <1>3, BoundKept
<1>12. TokensAreBound'
  <2>1. \A t \in Tabs : Bound(token'[t], click')
    BY <1>1, <1>11 DEF IInv, TokensAreBound
  <2>2. \A d \in Clicks : Bound(click'[d].token, click')
    BY <1>3, <1>11 DEF IInv, TokensAreBound
  <2> QED
    BY <2>1, <2>2 DEF TokensAreBound
<1>13. FetchKeys'
  <2>1. \A d \in Clicks :
           /\ click'[d].kind = click[d].kind /\ click'[d].key = click[d].key
           /\ click'[d].token = click[d].token /\ click'[d].outcome = click[d].outcome
    BY <1>3
  <2>2. overlapped \subseteq overlapped' /\ FetchKeys
    BY <1>1 DEF IInv
  <2> QED
    BY <2>1, <2>2, FetchKeysKept
<1> QED
  BY <1>7, <1>8, <1>9, <1>10, <1>12, <1>13 DEF IInv

-----------------------------------------------------------------------------
(* The network and the server.                                             *)

\* Nothing but the requests and the cache changes, and both only so that the
\* handler's proof was signed: a request sent again, and a restart.
LEMMA RequestsKeep ==
  ASSUME IInv, UNCHANGED <<now, click, token, db, queue, overlapped>>,
         request' \in [Clicks -> [1..2 -> CopyStates]], jtiCache' \in [Clicks -> Nat],
         \A c \in Clicks : ProgressOf(click[c], request'[c]),
         \A c \in Clicks : jtiCache'[c] \in {0, jtiCache[c]}
  PROVE  IInv'
<1>1. Types'
  BY DEF IInv, Types
<1>2. Progress'
  BY DEF Progress
<1>3. EntryOutlivesIat'
  BY DEF IInv, EntryOutlivesIat
<1>4. Store'
  <2>1. Logins' = Logins
    BY DEF Logins
  <2> QED
    BY <2>1 DEF IInv, Store, OpsWereAsked, WasAsked, Alone, SavedBeforeRead, KeyIsCurrent
<1>5. TokensAreBound'
  BY DEF IInv, TokensAreBound
<1>6. FetchKeys'
  BY DEF IInv, FetchKeys
<1> QED
  BY <1>1, <1>2, <1>3, <1>4, <1>5, <1>6 DEF IInv

LEMMA ResendIInv ==
  ASSUME IInv, NEW c \in Clicks, Resend(c)
  PROVE  IInv'
<1>1. /\ UNCHANGED <<now, jtiCache, click, token, db, queue, overlapped>>
      /\ click[c].at = "sent" /\ request' = [request EXCEPT ![c][2] = "sent"]
  BY DEF Resend, serverVars
<1>2. /\ request' \in [Clicks -> [1..2 -> CopyStates]]
      /\ \A d \in Clicks \ {c} : request'[d] = request[d]
  BY <1>1 DEF IInv, Types, CopyStates
<1>3. ProgressOf(click[c], request[c])
  BY DEF IInv, Progress
<1>4. ProgressOf(click[c], request'[c])
  BY <1>1, <1>3 DEF ProgressOf
<1>5. \A d \in Clicks : ProgressOf(click[d], request'[d])
  BY <1>2, <1>4 DEF IInv, Progress
<1>6. jtiCache' \in [Clicks -> Nat] /\ \A d \in Clicks : jtiCache'[d] \in {0, jtiCache[d]}
  BY <1>1 DEF IInv, Types
<1> QED
  BY <1>1, <1>2, <1>5, <1>6, RequestsKeep

LEMMA RestartIInv ==
  ASSUME IInv, Restart
  PROVE  IInv'
<1>1. /\ UNCHANGED <<now, click, token, db, queue, overlapped>>
      /\ jtiCache' = [j \in Clicks |-> 0]
      /\ request' = [c \in Clicks |-> [i \in 1..2 |->
           IF request[c][i] = "fresh" THEN "over" ELSE request[c][i]]]
  BY PageAssumption DEF Restart, Forget
<1>2. request' \in [Clicks -> [1..2 -> CopyStates]]
  BY <1>1 DEF IInv, Types, CopyStates
<1>3. \A c \in Clicks, i \in 1..2 : request'[c][i] # "none" => request[c][i] # "none"
  BY <1>1
<1>4. \A c \in Clicks : ProgressOf(click[c], request'[c])
  BY <1>3 DEF IInv, Progress, ProgressOf
<1>5. jtiCache' \in [Clicks -> Nat] /\ \A c \in Clicks : jtiCache'[c] \in {0, jtiCache[c]}
  BY <1>1
<1> QED
  BY <1>1, <1>2, <1>4, <1>5, RequestsKeep

\* The proof's age was looked at: the request is fresh from here on.
LEMMA FreshIInv ==
  ASSUME IInv, NEW c \in Clicks, NEW i \in 1..2, request[c][i] = "sent",
         request' = [request EXCEPT ![c][i] = "fresh"],
         UNCHANGED <<serverVars, click, token, db, queue, overlapped>>
  PROVE  IInv'
<1>1. /\ request' \in [Clicks -> [1..2 -> CopyStates]]
      /\ \A d \in Clicks, j \in 1..2 : request'[d][j] # "none" => request[d][j] # "none"
  BY DEF IInv, Types, CopyStates
<1>2. \A d \in Clicks : ProgressOf(click[d], request'[d])
  BY <1>1 DEF IInv, Progress, ProgressOf
<1>3. jtiCache' \in [Clicks -> Nat] /\ \A d \in Clicks : jtiCache'[d] \in {0, jtiCache[d]}
  BY DEF serverVars, IInv, Types
<1> QED
  BY <1>1, <1>2, <1>3, RequestsKeep DEF serverVars

\* An answer of the server, whether or not it first adds the jti to its cache.
LEMMA AnswerIInv ==
  ASSUME IInv, NEW c \in Clicks, NEW i \in 1..2, request[c][i] # "none",
         NEW outcome \in Outcomes, NEW tok \in Tokens, Answer(c, i, outcome, tok),
         now' = now, jtiCache' = jtiCache \/ Add(c),
         Bound(tok, click), click[c].kind = "dpop fetch" => tok = click[c].token,
         outcome = "DPoP key mismatch" =>
           /\ click[c].kind = "dpop fetch" /\ click[c].key # 0
           /\ click[c].key # tok.key
  PROVE  IInv'
<1>1. /\ UNCHANGED <<token, db, queue, overlapped>>
      /\ request' = [request EXCEPT ![c][i] = "over"]
      /\ \/ click' = click
         \/ click' = [click EXCEPT ![c].outcome = outcome, ![c].token = tok]
  BY DEF Answer
<1>2. ProgressOf(click[c], request[c])
  BY DEF IInv, Progress
<1>3. click[c].at \in {"sent", "over"} /\ click[c].kind # "none"
  BY <1>2, IdleFields DEF ProgressOf
<1>4. /\ click' \in [Clicks -> Handlers]
      /\ \A d \in Clicks \ {c} : click'[d] = click[d]
      /\ click'[c].at = click[c].at /\ click'[c].iat = click[c].iat
      /\ click'[c].kind = click[c].kind /\ click'[c].key = click[c].key
      /\ \/ click'[c] = click[c]
         \/ click'[c].outcome = outcome /\ click'[c].token = tok
  <2>1. click \in [Clicks -> Handlers] /\ click[c] \in Handlers
    BY DEF IInv, Types
  <2>2. CASE click' = click
    BY <2>1, <2>2
  <2>3. CASE click' = [click EXCEPT ![c].outcome = outcome, ![c].token = tok]
    <3> DEFINE new == [click[c] EXCEPT !.outcome = outcome, !.token = tok]
    <3>1. /\ new \in Handlers /\ new.outcome = outcome /\ new.token = tok
          /\ new.at = click[c].at /\ new.iat = click[c].iat
          /\ new.kind = click[c].kind /\ new.key = click[c].key
      BY <2>1 DEF Handlers
    <3>2. click' = [click EXCEPT ![c] = new]
      BY <2>1, <2>3
    <3> HIDE DEF new
    <3> QED
      BY <2>1, <3>1, <3>2
  <2> QED
    BY <1>1, <2>2, <2>3
<1>5. \A d \in Clicks :
        /\ click'[d].at = click[d].at /\ click'[d].iat = click[d].iat
        /\ click'[d].kind = click[d].kind /\ click'[d].key = click[d].key
  BY <1>4
<1>6. /\ request' \in [Clicks -> [1..2 -> CopyStates]]
      /\ \A d \in Clicks \ {c} : request'[d] = request[d]
      /\ \A j \in 1..2 : request'[c][j] # "none" => request[c][j] # "none"
  BY <1>1 DEF IInv, Types, CopyStates
<1>7. /\ now \in Nat /\ click[c].iat \in Nat /\ click[c].iat <= Sec(now)
      /\ jtiCache \in [Clicks -> Nat]
  <2>1. click[c] \in Handlers
    BY DEF IInv, Types
  <2>2. now \in Nat
    BY NowIsNumber DEF IInv
  <2>3. click[c].iat \in Nat
    BY <2>1 DEF Handlers
  <2> QED
    BY <2>2, <2>3 DEF IInv, Types
<1>8. /\ now + CacheLife \in Nat
      /\ click[c].iat * Second + Window * Second <= now + CacheLife
  BY <1>7, EntryLasts
<1>9. /\ jtiCache' \in [Clicks -> Nat]
      /\ \A d \in Clicks \ {c} : jtiCache'[d] = jtiCache[d]
      /\ jtiCache'[c] = jtiCache[c] \/ jtiCache'[c] = now + CacheLife
  BY <1>7, <1>8 DEF Add
<1>10. Types'
  BY <1>1, <1>4, <1>5, <1>6, <1>9 DEF IInv, Types
<1>11. Progress'
  <2>1. ProgressOf(click'[c], request'[c])
    BY <1>2, <1>3, <1>5, <1>6 DEF ProgressOf
  <2> QED
    BY <1>4, <1>6, <2>1 DEF IInv, Progress
<1>12. EntryOutlivesIat'
  BY <1>3, <1>5, <1>8, <1>9 DEF IInv, EntryOutlivesIat
<1>13. Store'
  <2>1. UNCHANGED <<queue, db, overlapped>> /\ queue \in Seq(Ops) /\ Store
    BY <1>1 DEF IInv, Types
  <2> QED
    BY <1>5, <2>1, StoreKept
<1>14. \A k : Bound(k, click) => Bound(k, click')
  BY <1>5, BoundKept
<1>15. TokensAreBound'
  <2>1. \A t \in Tabs : Bound(token'[t], click')
    BY <1>1, <1>14 DEF IInv, TokensAreBound
  <2>2. \A d \in Clicks : Bound(click'[d].token, click')
    BY <1>4, <1>14 DEF IInv, TokensAreBound
  <2> QED
    BY <2>1, <2>2 DEF TokensAreBound
<1>16. FetchKeys'
  <2>1. CASE click'[c] = click[c]
    <3>1. \A d \in Clicks : click'[d] = click[d]
      BY <1>4, <2>1
    <3> QED
      BY <1>1, <3>1 DEF IInv, FetchKeys
  <2>2. CASE click'[c].outcome = outcome /\ click'[c].token = tok
    <3>1. /\ click[c].kind = "dpop fetch" => click[c].token.type = "dpop"
          /\ /\ click[c].kind = "dpop fetch" /\ click[c].key # 0
             /\ click[c].token.login \notin overlapped
             => click[c].key = click[c].token.key
      BY DEF IInv, FetchKeys
    <3>2. /\ click'[c].kind = "dpop fetch" => click'[c].token.type = "dpop"
          /\ /\ click'[c].kind = "dpop fetch" /\ click'[c].key # 0
             /\ click'[c].token.login \notin overlapped
             => click'[c].key = click'[c].token.key
          /\ click'[c].outcome = "DPoP key mismatch" =>
               /\ click'[c].kind = "dpop fetch" /\ click'[c].key # 0
               /\ click'[c].key # click'[c].token.key
      BY <1>4, <2>2, <3>1
    <3>3. \A d \in Clicks \ {c} :
            /\ click'[d].kind = "dpop fetch" => click'[d].token.type = "dpop"
            /\ /\ click'[d].kind = "dpop fetch" /\ click'[d].key # 0
               /\ click'[d].token.login \notin overlapped
               => click'[d].key = click'[d].token.key
            /\ click'[d].outcome = "DPoP key mismatch" =>
                 /\ click'[d].kind = "dpop fetch" /\ click'[d].key # 0
                 /\ click'[d].key # click'[d].token.key
      BY <1>4 DEF IInv, FetchKeys
    <3> QED
      BY <1>1, <3>2, <3>3 DEF FetchKeys
  <2> QED
    BY <1>4, <2>1, <2>2
<1> QED
  BY <1>10, <1>11, <1>12, <1>13, <1>15, <1>16 DEF IInv

\* Tokens issued are bound: those of a DPoP login to the key of its proof.
LEMMA IssuedTokens ==
  ASSUME Types, NEW c \in Clicks
  PROVE  /\ Token("bearer", 0, c) \in Tokens
         /\ Token("dpop", click[c].key, c) \in Tokens
         /\ Token("bearer", 0, c).type = "bearer"
         /\ Token("dpop", click[c].key, c).key = click[c].key
         /\ Token("dpop", click[c].key, c).login = c
<1>1. Sec(now) + Life \in Nat /\ 0 \in Keys /\ c \in Keys
  BY NowIsNumber, ServerAssumption, PageAssumption DEF Keys, Clicks
<1>2. click[c].key \in Keys
  BY DEF Types, Handlers
<1> QED
  BY <1>1, <1>2 DEF Token, Tokens

LEMMA BearerTokenIsBound ==
  ASSUME Types, NEW c \in Clicks
  PROVE  Token("bearer", 0, c) \in Tokens /\ Bound(Token("bearer", 0, c), click)
BY IssuedTokens DEF Bound

LEMMA DpopTokenIsBound ==
  ASSUME Types, NEW c \in Clicks, click[c].kind = "dpop login", click[c].key # 0
  PROVE  /\ Token("dpop", click[c].key, c) \in Tokens
         /\ Bound(Token("dpop", click[c].key, c), click)
BY IssuedTokens DEF Bound

LEMMA ServerIInv ==
  ASSUME IInv, NEW c \in Clicks, NEW i \in 1..2,
         \/ TokenBearer(c, i) \/ GetProtectedBearer(c, i)
         \/ Validate(c, i) \/ AlreadyUsed(c, i)
         \/ TokenDPoP(c, i) \/ GetProtectedDPoP(c, i)
  PROVE  IInv'
<1>1. /\ click[c].token \in Tokens /\ click[c].key \in Keys /\ click[c] \in Handlers
      /\ Bound(click[c].token, click) /\ NoToken \in Tokens /\ Bound(NoToken, click)
      /\ Types
  <2>1. click[c] \in Handlers
    BY DEF IInv, Types
  <2>2. Types
    BY DEF IInv
  <2>3. Bound(click[c].token, click) /\ Bound(NoToken, click) /\ NoToken \in Tokens
    BY NoTokenIsToken DEF IInv, TokensAreBound, Bound
  <2> QED
    BY <2>1, <2>2, <2>3 DEF Handlers
<1>2. ProgressOf(click[c], request[c])
  BY DEF IInv, Progress
<1>3. CASE TokenBearer(c, i)
  <2>1. PICK outcome \in {"token", "Invalid credentials"},
             tok \in {NoToken, Token("bearer", 0, c)} :
          /\ Answer(c, i, outcome, tok) /\ UNCHANGED serverVars
          /\ request[c][i] # "none" /\ click[c].kind # "dpop fetch"
    BY <1>3 DEF TokenBearer
  <2>2. outcome \in Outcomes /\ outcome # "DPoP key mismatch"
    BY <2>1 DEF Outcomes
  <2>3. tok \in Tokens /\ Bound(tok, click)
    BY <1>1, <2>1, BearerTokenIsBound
  <2> QED
    BY <2>1, <2>2, <2>3, AnswerIInv DEF serverVars
<1>4. CASE GetProtectedBearer(c, i)
  <2>1. PICK outcome \in {"data", "Invalid token"} :
          /\ Answer(c, i, outcome, click[c].token) /\ UNCHANGED serverVars
          /\ request[c][i] # "none"
    BY <1>4 DEF GetProtectedBearer, ProtectedBearer
  <2>2. outcome \in Outcomes /\ outcome # "DPoP key mismatch"
    BY <2>1 DEF Outcomes
  <2> QED
    BY <1>1, <2>1, <2>2, AnswerIInv DEF serverVars
<1>5. CASE Validate(c, i) /\ Fresh(click[c].iat)
  <2>1. /\ request[c][i] = "sent" /\ request' = [request EXCEPT ![c][i] = "fresh"]
        /\ UNCHANGED <<serverVars, click, token, db, queue, overlapped>>
    BY <1>5 DEF Validate
  <2> QED
    BY <2>1, FreshIInv
<1>6. CASE (Validate(c, i) /\ ~Fresh(click[c].iat)) \/ AlreadyUsed(c, i)
  <2>1. PICK outcome \in {"DPoP proof expired", "JTI already used"} :
          /\ Answer(c, i, outcome, click[c].token) /\ UNCHANGED serverVars
          /\ request[c][i] # "none"
    BY <1>6 DEF Validate, AlreadyUsed
  <2>2. outcome \in Outcomes /\ outcome # "DPoP key mismatch"
    BY <2>1 DEF Outcomes
  <2> QED
    BY <1>1, <2>1, <2>2, AnswerIInv DEF serverVars
<1>7. CASE TokenDPoP(c, i)
  <2>1. PICK outcome \in {"token", "Invalid credentials"},
             tok \in {NoToken, Token("dpop", click[c].key, c)} :
          Answer(c, i, outcome, tok)
    BY <1>7 DEF TokenDPoP
  <2>2. /\ request[c][i] # "none" /\ click[c].kind = "dpop login"
        /\ Add(c) /\ now' = now
    BY <1>7 DEF TokenDPoP
  <2>3. click[c].key # 0
    BY <1>2, <2>2 DEF ProgressOf, DpopKinds
  <2>4. outcome \in Outcomes /\ outcome # "DPoP key mismatch"
    BY <2>1 DEF Outcomes
  <2>5. tok \in Tokens /\ Bound(tok, click)
    BY <1>1, <2>1, <2>2, <2>3, DpopTokenIsBound
  <2> QED
    BY <2>1, <2>2, <2>4, <2>5, AnswerIInv
<1>8. CASE GetProtectedDPoP(c, i)
  <2>1. PICK outcome \in Outcomes :
          /\ Answer(c, i, outcome, click[c].token)
          /\ outcome = ProtectedDPoP(click[c].token, click[c].key)
    BY <1>8 DEF GetProtectedDPoP, ProtectedDPoP, Outcomes
  <2>2. /\ request[c][i] # "none" /\ click[c].kind = "dpop fetch"
        /\ Add(c) /\ now' = now
    BY <1>8 DEF GetProtectedDPoP
  <2>3. click[c].key # 0
    BY <1>2, <2>2 DEF ProgressOf, DpopKinds
  <2>4. outcome = "DPoP key mismatch" => click[c].key # click[c].token.key
    BY <2>1 DEF ProtectedDPoP
  <2> QED
    BY <1>1, <2>1, <2>2, <2>3, <2>4, AnswerIInv
<1> QED
  BY <1>3, <1>4, <1>5, <1>6, <1>7, <1>8

LEMMA TimeIInv ==
  ASSUME IInv, Time
  PROVE  IInv'
<1>1. /\ UNCHANGED <<jtiCache, click, token, db, queue, request, overlapped>>
      /\ now' = now + 1 /\ Spent + 1 <= Budget
  BY DEF Time, Tick, pageVars
<1>2. now \in Nat /\ Sec(now) \in Nat /\ Sec(now) <= Sec(now + 1) /\ Sec(now + 1) \in Nat
  BY NowIsNumber, SecGrows, SecIsFloor DEF IInv
<1>3. Types'
  <2>1. now' \in 1..Budget
    BY <1>1, <1>2, SpentIsNumber, PageAssumption DEF IInv, Types
  <2>2. \A c \in Clicks : click[c].iat <= Sec(now + 1)
    <3>1. \A c \in Clicks : click[c].iat \in Nat /\ click[c].iat <= Sec(now)
      BY DEF IInv, Types, Handlers
    <3> QED
      BY <1>2, <3>1
  <2>3. Sec(now)' = Sec(now + 1)
    BY <1>1 DEF Sec
  <2> QED
    BY <1>1, <2>1, <2>2, <2>3 DEF IInv, Types
<1>4. Progress' /\ EntryOutlivesIat' /\ TokensAreBound' /\ FetchKeys'
  BY <1>1 DEF IInv, Progress, EntryOutlivesIat, TokensAreBound, FetchKeys
<1>5. Store'
  <2>1. Logins' = Logins
    BY <1>1 DEF Logins
  <2> QED
    BY <1>1, <2>1 DEF IInv, Store, OpsWereAsked, WasAsked, Alone, SavedBeforeRead, KeyIsCurrent
<1> QED
  BY <1>3, <1>4, <1>5 DEF IInv

-----------------------------------------------------------------------------

LEMMA StutterIInv == IInv /\ UNCHANGED vars => IInv'
<1> SUFFICES ASSUME IInv, UNCHANGED vars PROVE IInv'
  OBVIOUS
<1>1. /\ UNCHANGED <<now, click, token, db, queue, overlapped>>
      /\ request' = request /\ jtiCache' = jtiCache
  BY DEF vars, serverVars, pageVars
<1>2. request' \in [Clicks -> [1..2 -> CopyStates]] /\ jtiCache' \in [Clicks -> Nat]
  BY <1>1 DEF IInv, Types
<1>3. \A c \in Clicks : ProgressOf(click[c], request'[c]) /\ jtiCache'[c] \in {0, jtiCache[c]}
  BY <1>1 DEF IInv, Progress
<1> QED
  BY <1>1, <1>2, <1>3, RequestsKeep

LEMMA NextIInv == IInv /\ [Next]_vars => IInv'
<1> SUFFICES ASSUME IInv, [Next]_vars PROVE IInv'
  OBVIOUS
<1>1. CASE PageNext
  BY <1>1, LogoutIInv, ReloadIInv, BearerClickIInv, LoginDPoPIInv, FetchDPoPIInv,
     GenerateKeyPairIInv, AskForKeyIInv, SignIInv, ReceiveIInv, PutIInv, GetIInv
     DEF PageNext
<1>2. CASE NetworkNext
  BY <1>2, ResendIInv DEF NetworkNext
<1>3. CASE ServerNext
  BY <1>3, ServerIInv, RestartIInv DEF ServerNext
<1>4. CASE Time
  BY <1>4, TimeIInv
<1>5. CASE UNCHANGED vars
  BY <1>5, StutterIInv
<1> QED
  BY <1>1, <1>2, <1>3, <1>4, <1>5 DEF Next

THEOREM Invariance == Spec => []IInv
BY InitIInv, NextIInv, PTL DEF Spec

\* Every handler, token, request and queued operation is in one of its states,
\* and no proof is dated ahead of the clock.
THEOREM TypeCorrect == Spec => []TypeOK
<1>1. IInv => TypeOK
  <2> SUFFICES ASSUME IInv PROVE TypeOK
    OBVIOUS
  <2>1. /\ now \in 1..Budget /\ db \in 0..MaxClicks /\ overlapped \subseteq Clicks
        /\ \A c \in Clicks : click[c] \in Handlers /\ jtiCache[c] \in Nat
        /\ \A c \in Clicks : click[c].iat <= Sec(now)
        /\ \A c \in Clicks, i \in 1..2 : request[c][i] \in CopyStates
        /\ \A t \in Tabs : token[t] \in Tokens
    BY DEF IInv, Types, Keys
  <2>2. \A c \in Clicks :
          /\ click[c].kind \in Kinds /\ click[c].tab \in Tabs \cup {NoTab}
          /\ click[c].at \in {"idle", "generating", "asking", "reading", "signing", "sent", "over"}
          /\ click[c].key \in 0..MaxClicks /\ click[c].outcome \in Outcomes
    BY <2>1 DEF Handlers, HandlerStates, Keys
  <2>3. \A t \in Tabs : token[t].type \in {"none", "bearer", "dpop"}
    BY <2>1 DEF Tokens
  <2> QED
    BY <2>1, <2>2, <2>3 DEF TypeOK, CopyStates
<1> QED
  BY <1>1, Invariance, PTL

\* While the one key pair of IndexedDB is saved by logins that do not overlap,
\* no fetch is refused for the key of its proof: a save that nobody waits for,
\* or that fails unheard, and a reload at any point change nothing about that.
THEOREM RefusedOnlyAfterOverlap == Spec => []MismatchNeedsOverlap
<1>1. IInv => MismatchNeedsOverlap
  BY DEF IInv, FetchKeys, MismatchNeedsOverlap
<1> QED
  BY <1>1, Invariance, PTL

\* The entry of a jti never runs out while its proof would still be younger
\* than Window seconds, however the ticks fall within a second.
THEOREM ReplayOnlyAtTheEdge == Spec => TakenAgainOnlyAtTheEdge
<1> DEFINE TakenLate ==
      \A c \in Clicks : jtiCache[c] # 0 /\ jtiCache'[c] > jtiCache[c]
        => Sec(now) - click[c].iat >= Window
<1>1. IInv /\ [Next]_vars => [TakenLate]_vars
  <2> SUFFICES ASSUME IInv, Next, NEW c \in Clicks,
                      jtiCache[c] # 0, jtiCache'[c] > jtiCache[c]
               PROVE  Sec(now) - click[c].iat >= Window
    OBVIOUS
  <2>1. jtiCache \in [Clicks -> Nat] /\ Jtis = Clicks
    BY PageAssumption DEF IInv, Types
  <2>2. PICK d \in Clicks, i \in 1..2 : TokenDPoP(d, i) \/ GetProtectedDPoP(d, i)
    <3>1. jtiCache' # jtiCache /\ jtiCache' # [j \in Clicks |-> 0]
      BY <2>1
    <3> QED
      BY <2>1, <3>1 DEF Next, PageNext, NetworkNext, ServerNext, Time, Tick,
         Logout, Reload, LoginBearer, LoginDPoP, FetchBearer, FetchDPoP, Start,
         GenerateKeyPair, AskForKey, Sign, Receive, Put, PutFails, Get, Resend, Rejects,
         TokenBearer, GetProtectedBearer, Validate, AlreadyUsed, Restart, Forget,
         serverVars
  <2>3. ~Used(d) /\ Add(d)
    BY <2>2 DEF TokenDPoP, GetProtectedDPoP
  <2>4. d = c
    BY <2>1, <2>3 DEF Add
  <2>5. now \in Nat /\ click[c].iat \in Nat /\ jtiCache[c] < now
    BY <2>1, <2>3, <2>4, NowIsNumber DEF IInv, Types, Handlers, Used
  <2>6. click[c].iat * Second + Window * Second <= jtiCache[c]
    BY DEF IInv, EntryOutlivesIat
  <2> QED
    BY <2>1, <2>5, <2>6, EntryRunsOutLate
<1>2. Spec => [][TakenLate]_vars
  BY <1>1, Invariance, PTL DEF Spec
<1> QED
  BY <1>2 DEF TakenAgainOnlyAtTheEdge
==============================================================================
