----------------------- MODULE ReachoutServer_proofs -----------------------
(***************************************************************************)
(* Proofs about ReachoutServer, for every set of phones, slots and tokens  *)
(* and any number of codes.                                                *)
(***************************************************************************)
EXTENDS ReachoutServer, TLAPS

\* A code in the map is its phone's and has been used for nothing.
CodeBook ==
  /\ \A n \in Codes : n <= issued => owner[n] \in Phones
  /\ \A p \in Phones :
       codes[p] # 0 =>
         /\ owner[codes[p]] = p
         /\ \A t \in Tokens : bornOf[t] # codes[p]
         /\ \A c \in Calls : at[c] = "insert" => code[c] # codes[p]

\* A request that is to create a session alone holds its code, which arrived;
\* a request with a cookie has one that was set.
Requests ==
  \A c \in Calls :
    /\ at[c] = "send" => code[c] # 0
    /\ at[c] = "insert" =>
         /\ code[c] \in inbox
         /\ owner[code[c]] = phone[c]
         /\ \A t \in Tokens : bornOf[t] # code[c]
         /\ \A d \in Calls : at[d] = "insert" /\ code[d] = code[c] => d = c
    /\ at[c] = "inserted" => token[c] \in Tokens /\ bornOf[token[c]] # 0
    /\ at[c] \in {"delete", "deleted", "lookup", "act"} => token[c] \in given
    /\ at[c] = "deleted" => sessions[token[c]] = None
    /\ c \in late =>
         token[c] \in loggedOut /\ at[c] \in {"delete", "deleted", "lookup"}

\* A token stays with the code that began its session.
SessionBook ==
  /\ \A t \in Tokens : bornOf[t] # 0 => bornOf[t] \in inbox
  /\ \A t \in given : bornOf[t] # 0
  /\ \A t \in loggedOut : sessions[t] = None

IInv ==
  /\ TypeOK
  /\ CodeBook
  /\ Requests
  /\ SessionBook
  /\ OneSessionPerCode
  /\ SessionIsOwned

LEMMA InitIInv == Init => IInv
BY ReachoutAssumption
   DEF Init, IInv, TypeOK, CodeBook, Requests, SessionBook, OneSessionPerCode,
       SessionIsOwned, Awaits, Codes

\* The requests after one of them has moved on.
LEMMA GoesFacts ==
  ASSUME TypeOK, NEW c \in Calls, NEW w, NEW p, NEW n, NEW t,
         Goes(c, w, p, n, t)
  PROVE  /\ at' = [at EXCEPT ![c] = w] /\ at'[c] = w
         /\ phone' = [phone EXCEPT ![c] = p] /\ phone'[c] = p
         /\ code' = [code EXCEPT ![c] = n] /\ code'[c] = n
         /\ token' = [token EXCEPT ![c] = t] /\ token'[c] = t
         /\ \A d \in Calls : d # c =>
              /\ at'[d] = at[d] /\ phone'[d] = phone[d]
              /\ code'[d] = code[d] /\ token'[d] = token[d]
BY DEF Goes, TypeOK

LEMMA SendCodeIInv ==
  ASSUME IInv, NEW c \in Calls, NEW p \in Phones, SendCode(c, p)
  PROVE  IInv'
<1> USE ReachoutAssumption DEF IInv
<1> DEFINE n == issued + 1
<1>1. /\ n \in Codes /\ issued \in Nat /\ issued' = n /\ n \notin 0..issued
      /\ owner' = [owner EXCEPT ![n] = p] /\ codes' = [codes EXCEPT ![p] = n]
      /\ up = TRUE
      /\ UNCHANGED <<up, sessions, inbox, late, bornOf, given, loggedOut>>
  BY DEF SendCode, TypeOK, Codes, sessionHistory
<1>2. Goes(c, "send", p, n, None) /\ at[c] = "idle"
  BY DEF SendCode
<1> HIDE DEF n
<1>3. \A m \in 0..issued : m \in 0..n /\ m # n
  BY <1>1 DEF n
<1>4. 1..issued \subseteq 1..n
  BY <1>1 DEF n
<1>5. TypeOK'
  <2>1. n \in 0..n /\ 0 \in 0..n /\ n \in 0..MaxCodes
    <3>1. n \in Nat /\ 1 <= n /\ n <= MaxCodes
      BY <1>1 DEF Codes
    <3> QED
      BY <3>1
  <2>2. codes' \in [Phones -> 0..n] /\ bornOf \in [Tokens -> 0..n]
    BY <1>1, <1>3, <2>1 DEF TypeOK
  <2>3. code' \in [Calls -> 0..n]
    <3>1. code' = [code EXCEPT ![c] = n]
      BY <1>2 DEF Goes
    <3> QED
      BY <1>3, <2>1, <3>1 DEF TypeOK
  <2>4. owner' \in [Codes -> Phones \cup {"nobody"}] /\ inbox \in SUBSET (1..n)
    BY <1>1, <1>4 DEF TypeOK
  <2>5. /\ at' \in [Calls -> Awaits] /\ phone' \in [Calls -> Phones \cup {None}]
        /\ token' \in [Calls -> Tokens \cup {None}]
    BY <1>2, GoesFacts DEF TypeOK, Awaits
  <2> QED
    BY <1>1, <2>1, <2>2, <2>3, <2>4, <2>5 DEF TypeOK
<1>6. /\ \A m \in 1..issued : owner'[m] = owner[m] /\ m \in Codes
      /\ \A m \in inbox : owner'[m] = owner[m]
      /\ owner'[n] = p
  BY <1>1, <1>3 DEF TypeOK, Codes
<1>7. CodeBook'
  <2>1. ASSUME NEW m \in Codes, m <= n
        PROVE  owner'[m] \in Phones
    <3>1. m = n \/ m <= issued
      BY <1>1, <2>1 DEF n, Codes
    <3> QED
      BY <1>1, <1>6, <2>1, <3>1 DEF CodeBook, TypeOK, Codes
  <2>2. ASSUME NEW q \in Phones, codes'[q] # 0
        PROVE  /\ owner'[codes'[q]] = q
               /\ \A t \in Tokens : bornOf[t] # codes'[q]
               /\ \A d \in Calls : at'[d] = "insert" => code'[d] # codes'[q]
    <3>1. CASE q = p
      <4>1. codes'[q] = n
        BY <1>1, <3>1 DEF TypeOK
      <4> QED
        BY <1>1, <1>2, <1>6, <3>1, <4>1, GoesFacts DEF TypeOK
    <3>2. CASE q # p
      <4>1. codes'[q] = codes[q] /\ codes[q] \in 1..issued
        BY <1>1, <2>2, <3>2 DEF TypeOK
      <4> QED
        BY <1>1, <1>2, <1>6, <2>2, <4>1, GoesFacts DEF CodeBook
    <3> QED
      BY <3>1, <3>2
  <2> QED
    BY <1>1, <2>1, <2>2 DEF CodeBook
<1>8. Requests'
  BY <1>1, <1>2, <1>3, <1>6, GoesFacts DEF TypeOK, Requests
<1>9. SessionIsOwned'
  BY <1>1, <1>2, <1>6, GoesFacts DEF SessionIsOwned
<1> QED
  BY <1>1, <1>5, <1>7, <1>8, <1>9 DEF SessionBook, OneSessionPerCode

LEMMA CodeSentIInv ==
  ASSUME IInv, NEW c \in Calls, CodeSent(c)
  PROVE  IInv'
<1> USE ReachoutAssumption DEF IInv
<1>1. /\ UNCHANGED <<up, codes, sessions, issued, owner, bornOf, given, loggedOut>>
      /\ inbox' = inbox \cup {code[c]} \/ inbox' = inbox
      /\ late' = late \ {c} /\ at[c] = "send" /\ up = TRUE
      /\ Goes(c, "idle", None, 0, None)
  BY DEF CodeSent, Ends, sessionHistory
<1>2. code[c] \in 1..issued /\ issued \in Nat /\ 0 \in 0..issued
  BY <1>1 DEF TypeOK, Requests
<1>3. TypeOK'
  BY <1>1, <1>2, GoesFacts DEF TypeOK, Awaits
<1>4. CodeBook'
  BY <1>1, GoesFacts DEF CodeBook
<1>5. Requests'
  BY <1>1, GoesFacts DEF Requests
<1>6. SessionIsOwned' /\ SessionBook'
  BY <1>1, GoesFacts DEF SessionIsOwned, SessionBook
<1> QED
  BY <1>1, <1>3, <1>4, <1>5, <1>6 DEF OneSessionPerCode

LEMMA VerifyIInv ==
  ASSUME IInv, NEW c \in Calls, NEW p \in Phones, NEW n \in Typed, Verify(c, p, n)
  PROVE  IInv'
<1> USE ReachoutAssumption DEF IInv
<1>1. /\ UNCHANGED <<up, sessions, late, issued, owner, inbox, bornOf, given, loggedOut>>
      /\ codes' = [codes EXCEPT ![p] = 0] /\ codes[p] = n /\ n # 0
      /\ at[c] = "idle" /\ up = TRUE
      /\ Goes(c, "insert", p, n, None)
  BY DEF Verify, codeHistory, sessionHistory
<1>2. n \in inbox /\ n \in 1..issued /\ owner[n] = p
  BY <1>1 DEF TypeOK, Typed, CodeBook
<1>3. TypeOK'
  BY <1>1, <1>2, GoesFacts DEF TypeOK, Awaits
<1>4. \A q \in Phones : codes'[q] # 0 => q # p /\ codes'[q] = codes[q] /\ codes[q] # n
  BY <1>1, <1>2 DEF TypeOK, CodeBook
<1>5. CodeBook'
  BY <1>1, <1>4, GoesFacts DEF CodeBook, TypeOK
<1>6. Requests'
  BY <1>1, <1>2, GoesFacts DEF Requests, CodeBook, TypeOK
<1>7. SessionIsOwned'
  BY <1>1, GoesFacts DEF SessionIsOwned
<1> QED
  BY <1>1, <1>3, <1>5, <1>6, <1>7 DEF OneSessionPerCode, SessionBook

LEMMA CreateSessionIInv ==
  ASSUME IInv, NEW c \in Calls, NEW t \in Tokens, CreateSession(c, t)
  PROVE  IInv'
<1> USE ReachoutAssumption DEF IInv
<1>1. /\ UNCHANGED <<up, codes, late, issued, owner, inbox, given, loggedOut>>
      /\ sessions' = [sessions EXCEPT ![t] = phone[c]]
      /\ bornOf' = [bornOf EXCEPT ![t] = code[c]]
      /\ at[c] = "insert" /\ bornOf[t] = 0 /\ up = TRUE
      /\ Goes(c, "inserted", phone[c], code[c], t)
  BY DEF CreateSession, codeHistory
<1>2. /\ code[c] \in inbox /\ code[c] \in 1..issued /\ owner[code[c]] = phone[c]
      /\ \A s \in Tokens : bornOf[s] # code[c]
      /\ t \notin given
  BY <1>1 DEF TypeOK, Requests, SessionBook
<1>3. TypeOK'
  BY <1>1, <1>2, GoesFacts DEF TypeOK, Awaits
<1>4. \A s \in Tokens : s # t => bornOf'[s] = bornOf[s] /\ sessions'[s] = sessions[s]
  BY <1>1 DEF TypeOK
<1>5. bornOf'[t] = code[c] /\ sessions'[t] = phone[c]
  BY <1>1 DEF TypeOK
<1>6. CodeBook'
  BY <1>1, <1>2, <1>4, <1>5, GoesFacts DEF CodeBook
<1>7. Requests'
  BY <1>1, <1>2, <1>4, <1>5, GoesFacts DEF Requests, TypeOK
<1>8. SessionIsOwned'
  BY <1>1, <1>2, <1>4, <1>5, GoesFacts DEF SessionIsOwned, Requests, TypeOK
<1>9. SessionBook' /\ OneSessionPerCode'
  BY <1>1, <1>2, <1>4, <1>5 DEF SessionBook, OneSessionPerCode, TypeOK
<1> QED
  BY <1>3, <1>6, <1>7, <1>8, <1>9

\* A request that only ends leaves the rest as it was.
LEMMA EndIInv ==
  ASSUME IInv, NEW c \in Calls, Ends(c), up = TRUE,
         UNCHANGED <<up, codes, sessions, issued, owner, inbox, bornOf>>,
         \/ UNCHANGED <<given, loggedOut>>
         \/ /\ token[c] \in Tokens /\ bornOf[token[c]] # 0
            /\ given' = given \cup {token[c]} /\ loggedOut' = loggedOut
         \/ /\ token[c] \in given /\ sessions[token[c]] = None
            /\ loggedOut' = loggedOut \cup {token[c]} /\ given' = given
  PROVE  IInv'
<1> USE ReachoutAssumption DEF IInv
<1>1. Goes(c, "idle", None, 0, None) /\ late' = late \ {c}
  BY DEF Ends
<1>2. TypeOK'
  BY <1>1, GoesFacts DEF TypeOK, Awaits
<1>3. CodeBook'
  BY <1>1, GoesFacts DEF CodeBook
<1>4. Requests'
  BY <1>1, GoesFacts DEF Requests
<1>5. SessionIsOwned' /\ SessionBook'
  BY <1>1, GoesFacts DEF SessionIsOwned, SessionBook
<1> QED
  BY <1>2, <1>3, <1>4, <1>5 DEF OneSessionPerCode

LEMMA RequestIInv ==
  ASSUME IInv, NEW c \in Calls, NEW t \in Tokens, NEW w \in {"delete", "lookup"},
         Request(c, w, t)
  PROVE  IInv'
<1> USE ReachoutAssumption DEF IInv
<1>1. /\ UNCHANGED <<up, codes, sessions, issued, owner, inbox, bornOf, given, loggedOut>>
      /\ late' = late \/ (t \in loggedOut /\ late' = late \cup {c})
      /\ at[c] = "idle" /\ t \in given /\ up = TRUE
      /\ Goes(c, w, None, 0, t)
  BY DEF Request, codeHistory, sessionHistory
<1>2. TypeOK'
  BY <1>1, GoesFacts DEF TypeOK, Awaits
<1>3. CodeBook'
  BY <1>1, GoesFacts DEF CodeBook
<1>4. Requests'
  BY <1>1, GoesFacts DEF Requests
<1>5. SessionIsOwned'
  BY <1>1, GoesFacts DEF SessionIsOwned
<1> QED
  BY <1>1, <1>2, <1>3, <1>4, <1>5 DEF OneSessionPerCode, SessionBook

LEMMA DeleteSessionIInv ==
  ASSUME IInv, NEW c \in Calls, DeleteSession(c)
  PROVE  IInv'
<1> USE ReachoutAssumption DEF IInv
<1>1. /\ UNCHANGED <<up, codes, phone, code, token, late, issued, owner, inbox,
                     bornOf, given, loggedOut>>
      /\ sessions' = [sessions EXCEPT ![token[c]] = None]
      /\ at' = [at EXCEPT ![c] = "deleted"]
      /\ at[c] = "delete" /\ up = TRUE
  BY DEF DeleteSession, codeHistory, sessionHistory
<1>2. token[c] \in given /\ token[c] \in Tokens
  BY <1>1 DEF Requests, TypeOK
<1>3. /\ \A t \in Tokens : sessions'[t] = None \/ sessions'[t] = sessions[t]
      /\ sessions'[token[c]] = None
      /\ at'[c] = "deleted" /\ \A d \in Calls : d # c => at'[d] = at[d]
  BY <1>1, <1>2 DEF TypeOK
<1>4. TypeOK'
  BY <1>1, <1>2 DEF TypeOK, Awaits
<1>5. CodeBook'
  BY <1>1, <1>3 DEF CodeBook
<1>6. Requests'
  BY <1>1, <1>2, <1>3 DEF Requests, TypeOK
<1>7. SessionIsOwned' /\ SessionBook'
  BY <1>1, <1>3 DEF SessionIsOwned, SessionBook, TypeOK
<1> QED
  BY <1>1, <1>4, <1>5, <1>6, <1>7 DEF OneSessionPerCode

LEMMA GetSessionIInv ==
  ASSUME IInv, NEW c \in Calls, GetSession(c)
  PROVE  IInv'
<1> USE ReachoutAssumption DEF IInv
<1>1. /\ UNCHANGED <<up, codes, sessions, issued, owner, inbox, bornOf, given, loggedOut>>
      /\ at[c] = "lookup" /\ up = TRUE
  BY DEF GetSession, codeHistory, sessionHistory
<1>2. token[c] \in given /\ token[c] \in Tokens
  BY <1>1 DEF Requests, TypeOK
<1>3. CASE sessions[token[c]] = None
  BY <1>1, <1>3, EndIInv DEF GetSession
<1>4. CASE sessions[token[c]] # None
  <2>1. Goes(c, "act", sessions[token[c]], 0, token[c]) /\ late' = late
    BY <1>4 DEF GetSession
  <2>2. c \notin late
    BY <1>4 DEF Requests, SessionBook
  <2>3. TypeOK'
    BY <1>1, <1>2, <2>1, GoesFacts DEF TypeOK, Awaits
  <2>4. CodeBook'
    BY <1>1, <2>1, GoesFacts DEF CodeBook
  <2>5. Requests'
    BY <1>1, <1>2, <2>1, <2>2, GoesFacts DEF Requests
  <2>6. SessionIsOwned'
    BY <1>1, <1>2, <1>4, <2>1, GoesFacts DEF SessionIsOwned
  <2> QED
    BY <1>1, <2>3, <2>4, <2>5, <2>6 DEF OneSessionPerCode, SessionBook
<1> QED
  BY <1>3, <1>4

LEMMA CodeExpiresIInv ==
  ASSUME IInv, NEW p \in Phones, CodeExpires(p)
  PROVE  IInv'
<1> USE ReachoutAssumption DEF IInv
<1>1. /\ UNCHANGED <<up, sessions, callVars, codeHistory, sessionHistory>>
      /\ codes' = [codes EXCEPT ![p] = 0]
  BY DEF CodeExpires
<1>0. 0 \in 0..issued
  BY DEF TypeOK
<1>2. \A q \in Phones : codes'[q] = 0 \/ codes'[q] = codes[q]
  BY <1>1 DEF TypeOK
<1>3. TypeOK'
  BY <1>0, <1>1 DEF TypeOK, callVars, codeHistory, sessionHistory
<1>4. CodeBook'
  BY <1>1, <1>2 DEF CodeBook, callVars, codeHistory, sessionHistory
<1> QED
  BY <1>1, <1>3, <1>4 DEF Requests, SessionBook, OneSessionPerCode,
       SessionIsOwned, callVars, codeHistory, sessionHistory

LEMMA SessionExpiresIInv ==
  ASSUME IInv, NEW t \in Tokens, SessionExpires(t)
  PROVE  IInv'
<1> USE ReachoutAssumption DEF IInv
<1>1. /\ UNCHANGED <<up, codes, callVars, codeHistory, sessionHistory>>
      /\ sessions' = [sessions EXCEPT ![t] = None]
  BY DEF SessionExpires
<1>2. \A s \in Tokens : sessions'[s] = None \/ sessions'[s] = sessions[s]
  BY <1>1 DEF TypeOK
<1>3. TypeOK'
  BY <1>1 DEF TypeOK, callVars, codeHistory, sessionHistory
<1>4. Requests'
  BY <1>1, <1>2 DEF Requests, TypeOK, callVars, codeHistory, sessionHistory
<1>5. SessionIsOwned' /\ SessionBook'
  BY <1>1, <1>2 DEF SessionIsOwned, SessionBook, TypeOK, callVars, codeHistory,
                    sessionHistory
<1> QED
  BY <1>1, <1>3, <1>4, <1>5 DEF CodeBook, OneSessionPerCode, callVars,
       codeHistory, sessionHistory

LEMMA CrashIInv == IInv /\ Crash => IInv'
<1> SUFFICES ASSUME IInv, Crash PROVE IInv'
  OBVIOUS
<1>0. 0 \in 0..issued
  BY DEF IInv, TypeOK
<1>1. TypeOK'
  BY <1>0 DEF IInv, Crash, TypeOK, Awaits, codeHistory, sessionHistory
<1> QED
  BY <1>1 DEF IInv, Crash, CodeBook, Requests, SessionBook, OneSessionPerCode,
              SessionIsOwned, codeHistory, sessionHistory

LEMMA RestartIInv == IInv /\ Restart => IInv'
<1> SUFFICES ASSUME IInv, Restart PROVE IInv'
  OBVIOUS
<1>1. TypeOK'
  BY DEF IInv, Restart, TypeOK, callVars, codeHistory, sessionHistory
<1> QED
  BY <1>1 DEF IInv, Restart, CodeBook, Requests, SessionBook,
     OneSessionPerCode, SessionIsOwned, callVars, codeHistory, sessionHistory

LEMMA CallNextIInv ==
  ASSUME IInv, NEW c \in Calls, CallNext(c)
  PROVE  IInv'
<1>1. CASE SessionCreated(c)
  BY <1>1, EndIInv DEF SessionCreated, IInv, Requests, codeHistory
<1>2. CASE CreateFails(c)
  BY <1>2, EndIInv DEF CreateFails, codeHistory, sessionHistory
<1>3. CASE LoggedOut(c)
  BY <1>3, EndIInv DEF LoggedOut, IInv, Requests, codeHistory
<1>4. CASE Acted(c)
  BY <1>4, EndIInv DEF Acted, codeHistory, sessionHistory
<1>5. ASSUME NEW t \in Tokens, Logout(c, t) \/ Ask(c, t)
      PROVE  IInv'
  BY <1>5, RequestIInv DEF Logout, Ask
<1> QED
  BY <1>1, <1>2, <1>3, <1>4, <1>5, SendCodeIInv, CodeSentIInv, VerifyIInv,
     CreateSessionIInv, DeleteSessionIInv, GetSessionIInv
     DEF CallNext

LEMMA NextIInv == IInv /\ [Next]_vars => IInv'
<1> SUFFICES ASSUME IInv, [Next]_vars PROVE IInv'
  OBVIOUS
<1>1. CASE UNCHANGED vars
  <2>1. TypeOK'
    BY <1>1 DEF IInv, TypeOK, vars, callVars, codeHistory, sessionHistory
  <2> QED
    BY <1>1, <2>1 DEF IInv, CodeBook, Requests, SessionBook,
       OneSessionPerCode, SessionIsOwned, vars, callVars, codeHistory,
       sessionHistory
<1>2. CASE Next
  BY <1>2, CallNextIInv, CodeExpiresIInv, SessionExpiresIInv, CrashIInv,
     RestartIInv DEF Next
<1> QED
  BY <1>1, <1>2

\* The inductive invariant holds in every reachable state.
THEOREM SpecIInv == Spec => []IInv
BY InitIInv, NextIInv, PTL DEF Spec

-----------------------------------------------------------------------------
(* What follows from the invariant.                                        *)

\* The process, its requests, the codes and the sessions stay in their states.
THEOREM TypeCorrect == Spec => []TypeOK
<1>1. IInv => TypeOK
  BY DEF IInv
<1> QED
  BY <1>1, SpecIInv, PTL

\* A code that verifyCode accepts begins at most one session (store.ts deletes
\* it before anything is awaited).
THEOREM CodeIsSpentOnce == Spec => []OneSessionPerCode
<1>1. IInv => OneSessionPerCode
  BY DEF IInv
<1> QED
  BY <1>1, SpecIInv, PTL

\* Sessions and the requests that act for them are of the phone that received
\* the code.
THEOREM SessionsAreOwned == Spec => []SessionIsOwned
<1>1. IInv => SessionIsOwned
  BY DEF IInv
<1> QED
  BY <1>1, SpecIInv, PTL

\* Both: a session is what became of one code, and is of that code's phone.
THEOREM SessionsFollowCodes == Spec => []SessionsComeOfCodes
BY CodeIsSpentOnce, SessionsAreOwned, PTL DEF SessionsComeOfCodes

\* After the answer to a logout, no new request acts for that session.
THEOREM LogoutIsFinal == Spec => []LoggedOutStaysOut
<1>1. IInv => LoggedOutStaysOut
  BY DEF IInv, TypeOK, Requests, LoggedOutStaysOut
<1> QED
  BY <1>1, SpecIInv, PTL

-----------------------------------------------------------------------------
(* The server implements Login.                                            *)

LEMMA InitLogin == Init => Abstract!Init
<1> SUFFICES ASSUME Init PROVE Abstract!Init
  OBVIOUS
<1>1. \A n \in Codes : CodeState(n) = "unissued"
  BY ReachoutAssumption DEF Init, CodeState, Codes
<1>2. \A t \in Tokens : SessionState(t) = "unused"
  BY DEF Init, SessionState
<1> QED
  BY <1>1, <1>2 DEF Abstract!Init, Init

\* A step after which no other code is open than before loses the rest.
LEMMA ClosingStep ==
  ASSUME UNCHANGED <<issued, owner, bornOf, sessions>>,
         \A n \in Codes : IsOpen(n)' => IsOpen(n)
  PROVE  Abstract!Next
<1> DEFINE lost == {n \in Codes : CodeState(n) = "open" /\ ~IsOpen(n)'}
<1>1. \A n \in Codes :
        CodeState(n)' = IF n \in lost THEN "lost" ELSE CodeState(n)
  BY DEF CodeState
<1>2. \A t \in Tokens : SessionState(t)' = SessionState(t)
  BY DEF SessionState
<1>3. \A n \in lost : CodeState(n) = "open" /\ n \in Codes
  OBVIOUS
<1>4. lost \in SUBSET Codes
  OBVIOUS
<1> HIDE DEF lost
<1>5. Abstract!Lose(lost)
  BY <1>1, <1>2, <1>3 DEF Abstract!Lose
<1> QED
  BY <1>4, <1>5 DEF Abstract!Next

\* A session that is taken out of the collection ends, if it was there.
LEMMA EndingStep ==
  ASSUME IInv, NEW t \in Tokens,
         UNCHANGED <<issued, owner, bornOf>>,
         \A n \in Codes : IsOpen(n)' <=> IsOpen(n),
         sessions' = [sessions EXCEPT ![t] = None]
  PROVE  Abstract!Next \/ UNCHANGED Abstract!vars
<1>1. \A n \in Codes : CodeState(n)' = CodeState(n)
  BY DEF CodeState
<1>2. /\ \A s \in Tokens : s # t => sessions'[s] = sessions[s]
      /\ sessions'[t] = None
  BY DEF IInv, TypeOK
<1>3. \A s \in Tokens : s # t => SessionState(s)' = SessionState(s)
  BY <1>2 DEF SessionState
<1>4. CASE sessions[t] = None
  <2>1. SessionState(t)' = SessionState(t)
    BY <1>2, <1>4 DEF SessionState
  <2> QED
    BY <1>1, <1>3, <2>1 DEF Abstract!vars
<1>5. CASE sessions[t] # None
  <2>1. bornOf[t] # 0 /\ sessions[t] \in Phones
    BY <1>5 DEF IInv, TypeOK, SessionIsOwned
  <2>2. SessionState(t) \in Phones /\ SessionState(t)' = "ended"
    BY <1>2, <1>5, <2>1 DEF SessionState
  <2>3. Abstract!End(t)
    BY <1>1, <1>3, <2>2 DEF Abstract!End
  <2> QED
    BY <2>3 DEF Abstract!Next
<1> QED
  BY <1>4, <1>5

LEMMA SendCodeIssues ==
  ASSUME IInv, NEW c \in Calls, NEW p \in Phones, SendCode(c, p)
  PROVE  Abstract!Next
<1> USE ReachoutAssumption DEF IInv
<1> DEFINE lost == {m \in Codes : CodeState(m) = "open" /\ ~IsOpen(m)'}
<1>0. PICK n \in Codes : n = issued + 1
  BY DEF SendCode, TypeOK, Codes
<1>1. /\ n \in Codes /\ issued \in Nat /\ issued' = n
      /\ owner' = [owner EXCEPT ![n] = p] /\ codes' = [codes EXCEPT ![p] = n]
      /\ UNCHANGED <<sessions, bornOf>>
      /\ Goes(c, "send", p, n, None) /\ at[c] = "idle"
  BY <1>0 DEF SendCode, TypeOK, sessionHistory
<1>2. /\ n > issued /\ ~(n > issued')
      /\ \A m \in Codes : m # n => (m > issued' <=> m > issued)
      /\ \A t \in Tokens : bornOf[t] # n
  BY <1>0, <1>1 DEF TypeOK, Codes
<1>3. \A m \in Codes : m # n /\ IsOpen(m)' => IsOpen(m)
  BY <1>1, GoesFacts DEF IsOpen, TypeOK
<1>4. IsOpen(n)'
  BY <1>1 DEF IsOpen, TypeOK
<1>5. CodeState(n) = "unissued" /\ CodeState(n)' = "open"
  BY <1>1, <1>2, <1>4 DEF CodeState
<1>6. \A m \in Codes : m # n =>
        CodeState(m)' = IF m \in lost THEN "lost" ELSE CodeState(m)
  BY <1>1, <1>2, <1>3 DEF CodeState
<1>7. \A t \in Tokens : SessionState(t)' = SessionState(t)
  BY <1>1 DEF SessionState
<1>8. /\ lost \in SUBSET Codes
      /\ \A m \in lost : m \in Codes /\ CodeState(m) = "open"
  OBVIOUS
<1> HIDE DEF lost
<1>9. Abstract!Issue(n, p, lost)
  BY <1>1, <1>5, <1>6, <1>7, <1>8 DEF Abstract!Issue
<1> QED
  BY <1>1, <1>8, <1>9 DEF Abstract!Next

LEMMA CreateSessionBegins ==
  ASSUME IInv, NEW c \in Calls, NEW t \in Tokens, CreateSession(c, t)
  PROVE  Abstract!Next
<1> USE ReachoutAssumption DEF IInv
<1>0. PICK n \in Codes : n = code[c]
  BY DEF CreateSession, TypeOK, Requests, Codes
<1>1. /\ UNCHANGED <<codes, issued, owner>>
      /\ sessions' = [sessions EXCEPT ![t] = phone[c]]
      /\ bornOf' = [bornOf EXCEPT ![t] = n]
      /\ at[c] = "insert" /\ bornOf[t] = 0
      /\ Goes(c, "inserted", phone[c], n, t)
  BY <1>0 DEF CreateSession, codeHistory
<1>2. /\ n \in 1..issued /\ issued \in 0..MaxCodes /\ owner[n] = phone[c]
      /\ \A s \in Tokens : bornOf[s] # n
      /\ IsOpen(n)
  BY <1>0, <1>1 DEF TypeOK, Requests, IsOpen
<1>3. n \in Codes /\ n # 0 /\ ~(n > issued)
  BY <1>2 DEF Codes
<1>4. phone[c] \in Phones /\ phone[c] # None
  BY <1>2, <1>3 DEF CodeBook, TypeOK, Codes
<1>5. /\ bornOf'[t] = n /\ sessions'[t] = phone[c]
      /\ \A s \in Tokens : s # t =>
           bornOf'[s] = bornOf[s] /\ sessions'[s] = sessions[s]
  BY <1>1 DEF TypeOK
<1>6. \A m \in Codes : m # n => (IsOpen(m)' <=> IsOpen(m))
  BY <1>0, <1>1, GoesFacts DEF IsOpen
<1>7. CodeState(n) = "open" /\ CodeState(n)' = "spent"
  BY <1>1, <1>2, <1>3, <1>5 DEF CodeState
<1>8. \A m \in Codes : m # n => CodeState(m)' = CodeState(m)
  <2> SUFFICES ASSUME NEW m \in Codes, m # n
               PROVE  CodeState(m)' = CodeState(m)
    OBVIOUS
  <2>1. (\E s \in Tokens : bornOf'[s] = m) <=> (\E s \in Tokens : bornOf[s] = m)
    BY <1>1, <1>5 DEF Codes
  <2> QED
    BY <1>1, <1>6, <2>1 DEF CodeState
<1>9. /\ SessionState(t) = "unused" /\ SessionState(t)' = owner[n]
      /\ \A s \in Tokens : s # t => SessionState(s)' = SessionState(s)
  BY <1>1, <1>2, <1>3, <1>4, <1>5 DEF SessionState
<1>10. Abstract!Begin(n, t)
  BY <1>1, <1>3, <1>7, <1>8, <1>9 DEF Abstract!Begin
<1> QED
  BY <1>3, <1>10 DEF Abstract!Next

\* A request that goes on without creating a session opens no code.
LEMMA GoingOn ==
  ASSUME IInv, NEW c \in Calls, NEW w, NEW p, NEW n, NEW t, w # "insert",
         Goes(c, w, p, n, t),
         UNCHANGED <<codes, issued, owner, bornOf, sessions>>
  PROVE  Abstract!Next
<1>1. \A m \in Codes : IsOpen(m)' => IsOpen(m)
  BY GoesFacts DEF IsOpen, IInv
<1> QED
  BY <1>1, ClosingStep

LEMMA VerifyKeepsOpen ==
  ASSUME IInv, NEW c \in Calls, NEW p \in Phones, NEW n \in Typed, Verify(c, p, n)
  PROVE  Abstract!Next
<1>1. /\ UNCHANGED <<sessions, issued, owner, bornOf>>
      /\ codes' = [codes EXCEPT ![p] = 0] /\ codes[p] = n
      /\ Goes(c, "insert", p, n, None)
  BY DEF Verify, codeHistory, sessionHistory
<1>2. \A m \in Codes : IsOpen(m)' => IsOpen(m)
  <2> SUFFICES ASSUME NEW m \in Codes, IsOpen(m)' PROVE IsOpen(m)
    OBVIOUS
  <2>1. CASE \E q \in Phones : codes'[q] = m
    BY <1>1, <2>1 DEF IsOpen, IInv, TypeOK, Codes
  <2>2. CASE \E d \in Calls : at'[d] = "insert" /\ code'[d] = m
    BY <1>1, <2>2, GoesFacts DEF IsOpen, IInv
  <2> QED
    BY <2>1, <2>2 DEF IsOpen
<1> QED
  BY <1>1, <1>2, ClosingStep

LEMMA CallNextLogin ==
  ASSUME IInv, NEW c \in Calls, CallNext(c)
  PROVE  Abstract!Next \/ UNCHANGED Abstract!vars
<1>1. CASE CodeSent(c) \/ SessionCreated(c) \/ CreateFails(c) \/ LoggedOut(c) \/ Acted(c)
  <2>1. /\ Goes(c, "idle", None, 0, None)
        /\ UNCHANGED <<codes, issued, owner, bornOf, sessions>>
    BY <1>1 DEF CodeSent, SessionCreated, CreateFails, LoggedOut, Acted, Ends,
                codeHistory, sessionHistory
  <2> QED
    BY <2>1, GoingOn
<1>2. ASSUME NEW t \in Tokens, Logout(c, t) \/ Ask(c, t)
      PROVE  Abstract!Next
  <2>1. PICK w \in {"delete", "lookup"} : Request(c, w, t)
    BY <1>2 DEF Logout, Ask
  <2>2. /\ Goes(c, w, None, 0, t)
        /\ UNCHANGED <<codes, issued, owner, bornOf, sessions>>
    BY <2>1 DEF Request, codeHistory, sessionHistory
  <2> QED
    BY <2>2, GoingOn
<1>3. CASE GetSession(c)
  <2>1. UNCHANGED <<codes, issued, owner, bornOf, sessions>>
    BY <1>3 DEF GetSession, codeHistory, sessionHistory
  <2>2. \/ Goes(c, "idle", None, 0, None)
        \/ Goes(c, "act", sessions[token[c]], 0, token[c])
    BY <1>3 DEF GetSession, Ends
  <2> QED
    BY <2>1, <2>2, GoingOn
<1>4. CASE DeleteSession(c)
  <2>1. token[c] \in Tokens
    BY <1>4 DEF DeleteSession, IInv, TypeOK, Requests
  <2>2. \A n \in Codes : IsOpen(n)' <=> IsOpen(n)
    BY <1>4 DEF DeleteSession, IsOpen, IInv, TypeOK, codeHistory, sessionHistory
  <2> QED
    BY <1>4, <2>1, <2>2, EndingStep
       DEF DeleteSession, codeHistory, sessionHistory
<1> QED
  BY <1>1, <1>2, <1>3, <1>4, SendCodeIssues, VerifyKeepsOpen,
     CreateSessionBegins DEF CallNext

LEMMA NextLogin ==
  IInv /\ [Next]_vars => Abstract!Next \/ UNCHANGED Abstract!vars
<1> SUFFICES ASSUME IInv, [Next]_vars
             PROVE  Abstract!Next \/ UNCHANGED Abstract!vars
  OBVIOUS
<1> USE DEF callVars, codeHistory, sessionHistory
<1>1. CASE UNCHANGED vars
  BY <1>1, ClosingStep DEF vars, IsOpen
<1>2. CASE \E c \in Calls : CallNext(c)
  BY <1>2, CallNextLogin
<1>3. ASSUME NEW p \in Phones, CodeExpires(p)
      PROVE  Abstract!Next
  <2>1. \A n \in Codes : IsOpen(n)' => IsOpen(n)
    BY <1>3, ReachoutAssumption DEF CodeExpires, IsOpen, IInv, TypeOK, Codes
  <2> QED
    BY <1>3, <2>1, ClosingStep DEF CodeExpires
<1>4. ASSUME NEW t \in Tokens, SessionExpires(t)
      PROVE  Abstract!Next \/ UNCHANGED Abstract!vars
  BY <1>4, EndingStep DEF SessionExpires, IsOpen
<1>5. CASE Crash
  <2>1. \A n \in Codes : IsOpen(n)' => IsOpen(n)
    BY <1>5, ReachoutAssumption DEF Crash, IsOpen, Codes
  <2> QED
    BY <1>5, <2>1, ClosingStep DEF Crash
<1>6. CASE Restart
  BY <1>6, ClosingStep DEF Restart, IsOpen
<1> QED
  BY <1>1, <1>2, <1>3, <1>4, <1>5, <1>6 DEF Next

\* With whatever is in flight and whatever fails, codes and sessions do what
\* Login promises of them.
THEOREM ServerImplementsLogin == Spec => LoginSpec
<1>1. IInv /\ [Next]_vars => [Abstract!Next]_Abstract!vars
  BY NextLogin
<1> QED
  BY <1>1, InitLogin, SpecIInv, PTL DEF Spec, LoginSpec, Abstract!Spec

=============================================================================
