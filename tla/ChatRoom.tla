------------------------------ MODULE ChatRoom ------------------------------
(***************************************************************************)
(* What the chat server of go-chat-app promises to the people in the room, *)
(* with no goroutine, channel or socket in sight.  There is one log; a     *)
(* member sees it from the moment of joining, entry by entry, and nobody   *)
(* posts while a member who still listens has an entry left to see.        *)
(***************************************************************************)
EXTENDS Naturals, Sequences

CONSTANT Conns  \* the connections, each of which joins at most once

VARIABLES
  members,  \* who is in the room
  lost,     \* members and former members who no longer listen
  log,      \* everything posted, in posting order
  posted,   \* posted[c]: how many lines c has posted
  joinAt,   \* joinAt[c]: the length of the log when c joined
  view      \* view[c]: what c was shown

vars == <<members, lost, log, posted, joinAt, view>>

Entry == [from : Conns, no : Nat]

\* c has been shown everything posted since it joined.
CaughtUp(c) == joinAt[c] + Len(view[c]) = Len(log)

Init ==
  /\ members = {}
  /\ lost = {}
  /\ log = <<>>
  /\ posted = [c \in Conns |-> 0]
  /\ joinAt = [c \in Conns |-> 0]
  /\ view = [c \in Conns |-> <<>>]

Enter(c) ==
  /\ c \notin members
  /\ view[c] = <<>>
  /\ posted[c] = 0
  /\ members' = members \cup {c}
  /\ joinAt' = [joinAt EXCEPT ![c] = Len(log)]
  /\ UNCHANGED <<lost, log, posted, view>>

\* The next line of c becomes the next entry of the log.
Post(c) ==
  /\ c \in members
  /\ \A d \in members \ lost : CaughtUp(d)
  /\ posted' = [posted EXCEPT ![c] = @ + 1]
  /\ log' = Append(log, [from |-> c, no |-> posted[c] + 1])
  /\ UNCHANGED <<members, lost, joinAt, view>>

\* c is shown the first entry it has not seen.
Show(c) ==
  /\ c \in members \ lost
  /\ ~CaughtUp(c)
  /\ view' = [view EXCEPT ![c] = Append(@, log[joinAt[c] + Len(@) + 1])]
  /\ UNCHANGED <<members, lost, log, posted, joinAt>>

Exit(c) ==
  /\ c \in members
  /\ members' = members \ {c}
  /\ UNCHANGED <<lost, log, posted, joinAt, view>>

Lose(c) ==
  /\ lost' = lost \cup {c}
  /\ UNCHANGED <<members, log, posted, joinAt, view>>

Next == \E c \in Conns : Enter(c) \/ Post(c) \/ Show(c) \/ Exit(c) \/ Lose(c)

Spec == Init /\ [][Next]_vars

=============================================================================
