--------------------------- MODULE ReachoutServer ---------------------------
(***************************************************************************)
(* The login of ai-reachout-reminder: the auth routes of server.ts, the    *)
(* routes that need a session, and the codes and sessions of store.ts.     *)
(*                                                                         *)
(* One Node process runs all requests; they interleave where they await.   *)
(* Codes are in its memory and die with it; sessions are in MongoDB.  An   *)
(* await of MongoDB or Twilio may end in an error whether or not the call  *)
(* took effect.  Outside a try, the error ends the process.                *)
(*                                                                         *)
(* A code is the number of its issue: no two codes are alike.  A request   *)
(* begins when its body has been read.                                     *)
(***************************************************************************)
EXTENDS Naturals

CONSTANTS
  Phones,
  Calls,      \* slots for requests: as many can be in flight
  Tokens,     \* what randomBytes may return, never the same again
  MaxCodes,   \* bound: how many codes are issued
  None        \* no phone, no token

ASSUME ReachoutAssumption ==
  /\ MaxCodes \in Nat
  /\ None \notin Phones \cup Tokens
  /\ {"unused", "ended"} \cap Phones = {}

VARIABLES
  up,         \* the process runs
  codes,      \* codes[p]: the code that verifyCode accepts for p, or 0
  sessions,   \* sessions[t]: the phone of the session, or None
  at,         \* at[c]: what the request in slot c awaits
  phone,      \* phone[c]: its phone, from its body or its session
  code,       \* code[c]: the code it sends or has had accepted
  token,      \* token[c]: the session it creates or its cookie names
  issued,     \* how many codes were issued (history)
  owner,      \* owner[n]: the phone that code n is for (history)
  inbox,      \* the codes that arrived (history)
  bornOf,     \* bornOf[t]: the code that session t was created for (history)
  given,      \* the tokens that were set as a cookie
  loggedOut,  \* the tokens whose logout was answered (history)
  late        \* the requests made with such a token (history)

callVars == <<at, phone, code, token, late>>
codeHistory == <<issued, owner, inbox>>
sessionHistory == <<bornOf, given, loggedOut>>
vars == <<up, codes, sessions, callVars, codeHistory, sessionHistory>>

Codes == 1..MaxCodes

Awaits == {"idle", "send", "insert", "inserted", "delete", "deleted",
           "lookup", "act"}

Init ==
  /\ up = TRUE
  /\ codes = [p \in Phones |-> 0]
  /\ sessions = [t \in Tokens |-> None]
  /\ at = [c \in Calls |-> "idle"]
  /\ phone = [c \in Calls |-> None]
  /\ code = [c \in Calls |-> 0]
  /\ token = [c \in Calls |-> None]
  /\ issued = 0
  /\ owner = [n \in Codes |-> "nobody"]
  /\ inbox = {}
  /\ bornOf = [t \in Tokens |-> 0]
  /\ given = {}
  /\ loggedOut = {}
  /\ late = {}

\* The request in slot c now awaits w.
Goes(c, w, p, n, t) ==
  /\ at' = [at EXCEPT ![c] = w]
  /\ phone' = [phone EXCEPT ![c] = p]
  /\ code' = [code EXCEPT ![c] = n]
  /\ token' = [token EXCEPT ![c] = t]

\* It is answered.
Ends(c) == Goes(c, "idle", None, 0, None) /\ late' = late \ {c}

-----------------------------------------------------------------------------
(* POST /auth/send-code.                                                   *)

\* storeVerificationCode, before anything was sent; the code before is gone.
SendCode(c, p) ==
  /\ up /\ at[c] = "idle"
  /\ issued < MaxCodes
  /\ issued' = issued + 1
  /\ owner' = [owner EXCEPT ![issued + 1] = p]
  /\ codes' = [codes EXCEPT ![p] = issued + 1]
  /\ Goes(c, "send", p, issued + 1, None)
  /\ UNCHANGED <<up, sessions, inbox, late, sessionHistory>>

\* sendWhatsApp; the answer is the same for a code that did not arrive.
CodeSent(c) ==
  /\ up /\ at[c] = "send"
  /\ inbox' = inbox \cup {code[c]} \/ UNCHANGED inbox
  /\ Ends(c)
  /\ UNCHANGED <<up, codes, sessions, issued, owner, sessionHistory>>

\* Five minutes are over.
CodeExpires(p) ==
  /\ codes[p] # 0
  /\ codes' = [codes EXCEPT ![p] = 0]
  /\ UNCHANGED <<up, sessions, callVars, codeHistory, sessionHistory>>

-----------------------------------------------------------------------------
(* POST /auth/verify.                                                      *)

\* What a body can hold: a code that arrived, or one that nobody was sent.
Typed == inbox \cup {0}

\* Variant: an accepted code is left in the map.
VerifyKeepsCode(c, p, n) ==
  /\ up /\ at[c] = "idle"
  /\ n # 0 /\ codes[p] = n
  /\ Goes(c, "insert", p, n, None)
  /\ UNCHANGED <<up, codes, sessions, late, codeHistory, sessionHistory>>

\* verifyCode compares and deletes without an await; any other code is refused
\* with 401 and changes nothing.
Verify(c, p, n) ==
  /\ up /\ at[c] = "idle"
  /\ n # 0 /\ codes[p] = n
  /\ codes' = [codes EXCEPT ![p] = 0]
  /\ Goes(c, "insert", p, n, None)
  /\ UNCHANGED <<up, sessions, late, codeHistory, sessionHistory>>

\* insertOne in createSession.
CreateSession(c, t) ==
  /\ up /\ at[c] = "insert"
  /\ bornOf[t] = 0
  /\ sessions' = [sessions EXCEPT ![t] = phone[c]]
  /\ bornOf' = [bornOf EXCEPT ![t] = code[c]]
  /\ Goes(c, "inserted", phone[c], code[c], t)
  /\ UNCHANGED <<up, codes, late, codeHistory, given, loggedOut>>

\* The cookie is set.
SessionCreated(c) ==
  /\ up /\ at[c] = "inserted"
  /\ given' = given \cup {token[c]}
  /\ Ends(c)
  /\ UNCHANGED <<up, codes, sessions, codeHistory, bornOf, loggedOut>>

\* Variant: the insert is tried again.
CreateRetried(c) ==
  /\ up /\ at[c] \in {"insert", "inserted"}
  /\ Goes(c, "insert", phone[c], code[c], None)
  /\ UNCHANGED <<up, codes, sessions, late, codeHistory, sessionHistory>>

\* 500: the code is spent, and a session may be there whose token nobody has.
CreateFails(c) ==
  /\ up /\ at[c] \in {"insert", "inserted"}
  /\ Ends(c)
  /\ UNCHANGED <<up, codes, sessions, codeHistory, sessionHistory>>

-----------------------------------------------------------------------------
(* POST /auth/logout and the routes that need a session.                   *)

\* A request with the cookie of session t.
Request(c, w, t) ==
  /\ up /\ at[c] = "idle"
  /\ t \in given
  /\ Goes(c, w, None, 0, t)
  /\ late' = IF t \in loggedOut THEN late \cup {c} ELSE late
  /\ UNCHANGED <<up, codes, sessions, codeHistory, sessionHistory>>

Logout(c, t) == Request(c, "delete", t)

\* Variant: the session may still be there.
DeleteUnchecked(c) ==
  /\ up /\ at[c] = "delete"
  /\ \/ sessions' = [sessions EXCEPT ![token[c]] = None]
     \/ UNCHANGED sessions
  /\ at' = [at EXCEPT ![c] = "deleted"]
  /\ UNCHANGED <<up, codes, phone, code, token, late, codeHistory, sessionHistory>>

\* deleteOne in deleteSession.
DeleteSession(c) ==
  /\ up /\ at[c] = "delete"
  /\ sessions' = [sessions EXCEPT ![token[c]] = None]
  /\ at' = [at EXCEPT ![c] = "deleted"]
  /\ UNCHANGED <<up, codes, phone, code, token, late, codeHistory, sessionHistory>>

\* 200, and the cookie is cleared.
LoggedOut(c) ==
  /\ up /\ at[c] = "deleted"
  /\ loggedOut' = loggedOut \cup {token[c]}
  /\ Ends(c)
  /\ UNCHANGED <<up, codes, sessions, codeHistory, bornOf, given>>

\* /auth/me, /generate-message, /send-message, /connections.
Ask(c, t) == Request(c, "lookup", t)

\* getSession: without a session the answer is 401; with one, the route does
\* its work for the phone that was read, whatever becomes of the session.
GetSession(c) ==
  /\ up /\ at[c] = "lookup"
  /\ IF sessions[token[c]] = None
       THEN Ends(c)
       ELSE Goes(c, "act", sessions[token[c]], 0, token[c]) /\ UNCHANGED late
  /\ UNCHANGED <<up, codes, sessions, codeHistory, sessionHistory>>

\* The message is sent, the list read, or the call has failed.
Acted(c) ==
  /\ up /\ at[c] = "act"
  /\ Ends(c)
  /\ UNCHANGED <<up, codes, sessions, codeHistory, sessionHistory>>

\* The TTL index, and the expiresAt filter of getSession.
SessionExpires(t) ==
  /\ sessions[t] # None
  /\ sessions' = [sessions EXCEPT ![t] = None]
  /\ UNCHANGED <<up, codes, callVars, codeHistory, sessionHistory>>

-----------------------------------------------------------------------------
(* The process.                                                            *)

\* Variant: a code survives the process.
CrashKeepsCodes ==
  /\ up
  /\ up' = FALSE
  /\ at' = [c \in Calls |-> "idle"]
  /\ phone' = [c \in Calls |-> None]
  /\ code' = [c \in Calls |-> 0]
  /\ token' = [c \in Calls |-> None]
  /\ late' = {}
  /\ UNCHANGED <<codes, sessions, codeHistory, sessionHistory>>

\* It is stopped or dies, as it does when MongoDB fails a request in "lookup",
\* "delete" or "deleted", where no try encloses the await.
Crash ==
  /\ up
  /\ up' = FALSE
  /\ codes' = [p \in Phones |-> 0]
  /\ at' = [c \in Calls |-> "idle"]
  /\ phone' = [c \in Calls |-> None]
  /\ code' = [c \in Calls |-> 0]
  /\ token' = [c \in Calls |-> None]
  /\ late' = {}
  /\ UNCHANGED <<sessions, codeHistory, sessionHistory>>

Restart ==
  /\ ~up
  /\ up' = TRUE
  /\ UNCHANGED <<codes, sessions, callVars, codeHistory, sessionHistory>>

CallNext(c) ==
  \/ \E p \in Phones : SendCode(c, p)
  \/ CodeSent(c)
  \/ \E p \in Phones, n \in Typed : Verify(c, p, n)
  \/ \E t \in Tokens : CreateSession(c, t)
  \/ SessionCreated(c) \/ CreateFails(c)
  \/ \E t \in Tokens : Logout(c, t)
  \/ DeleteSession(c) \/ LoggedOut(c)
  \/ \E t \in Tokens : Ask(c, t)
  \/ GetSession(c) \/ Acted(c)

Next ==
  \/ \E c \in Calls : CallNext(c)
  \/ \E p \in Phones : CodeExpires(p)
  \/ \E t \in Tokens : SessionExpires(t)
  \/ Crash \/ Restart

Spec == Init /\ [][Next]_vars

-----------------------------------------------------------------------------
(* Properties.                                                             *)

\* Type invariant: the process, its requests, the codes and the sessions.
TypeOK ==
  /\ up \in BOOLEAN
  /\ issued \in 0..MaxCodes
  /\ codes \in [Phones -> 0..issued]
  /\ sessions \in [Tokens -> Phones \cup {None}]
  /\ at \in [Calls -> Awaits]
  /\ phone \in [Calls -> Phones \cup {None}]
  /\ code \in [Calls -> 0..issued]
  /\ token \in [Calls -> Tokens \cup {None}]
  /\ owner \in [Codes -> Phones \cup {"nobody"}]
  /\ inbox \in SUBSET (1..issued)
  /\ bornOf \in [Tokens -> 0..issued]
  /\ given \in SUBSET Tokens
  /\ loggedOut \in SUBSET given
  /\ late \in SUBSET Calls
  /\ ~up => codes = [p \in Phones |-> 0] /\ at = [c \in Calls |-> "idle"]

\* However many requests verify a code at once, and whatever fails or crashes
\* on the way, it starts at most one session.
OneSessionPerCode ==
  \A s, t \in Tokens : bornOf[s] = bornOf[t] /\ bornOf[s] # 0 => s = t

\* A session, and a request that acts for it, is of a phone that was sent a
\* code and received it, and whose code it was that began the session.
SessionIsOwned ==
  /\ \A t \in Tokens : sessions[t] # None =>
       bornOf[t] \in inbox /\ owner[bornOf[t]] = sessions[t]
  /\ \A c \in Calls : at[c] = "act" =>
       bornOf[token[c]] \in inbox /\ owner[bornOf[token[c]]] = phone[c]

\* Sessions come of codes: one of each at most, for the phone that received it,
\* however verifications, new codes, failures and crashes interleave.
SessionsComeOfCodes == OneSessionPerCode /\ SessionIsOwned

\* A request made after the logout of its session was answered gets a 401: it
\* never acts, across crashes and whatever other requests do.
LoggedOutStaysOut ==
  \A c \in late : at[c] # "act"

\* The server keeps the promises of Login: a code is open while the map or a
\* request that had it accepted holds it.
IsOpen(n) ==
  \/ \E p \in Phones : codes[p] = n
  \/ \E c \in Calls : at[c] = "insert" /\ code[c] = n

CodeState(n) ==
  IF n > issued THEN "unissued"
  ELSE IF \E t \in Tokens : bornOf[t] = n THEN "spent"
  ELSE IF IsOpen(n) THEN "open" ELSE "lost"

SessionState(t) ==
  IF bornOf[t] = 0 THEN "unused"
  ELSE IF sessions[t] = None THEN "ended" ELSE sessions[t]

Abstract == INSTANCE Login WITH
  state <- [n \in Codes |-> CodeState(n)],
  session <- [t \in Tokens |-> SessionState(t)]

LoginSpec == Abstract!Spec

=============================================================================
