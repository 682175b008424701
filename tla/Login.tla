------------------------------- MODULE Login -------------------------------
(***************************************************************************)
(* What logging in to ai-reachout-reminder promises: a code is for one     *)
(* phone and starts at most one session, which is that phone's; a session  *)
(* that has ended never comes back.                                        *)
(***************************************************************************)
CONSTANTS Phones, Codes, Tokens

VARIABLES
  state,    \* state[n]: "unissued", "open", "spent" or "lost"
  owner,    \* owner[n]: the phone that code n is for, once it is issued
  session   \* session[t]: "unused", the phone it is of, or "ended"

vars == <<state, owner, session>>

Init ==
  /\ state = [n \in Codes |-> "unissued"]
  /\ owner = [n \in Codes |-> "nobody"]
  /\ session = [t \in Tokens |-> "unused"]

\* A new code may put others out of use.
Issue(n, p, lost) ==
  /\ state[n] = "unissued"
  /\ \A m \in lost : state[m] = "open"
  /\ state' = [m \in Codes |-> IF m = n THEN "open"
                               ELSE IF m \in lost THEN "lost" ELSE state[m]]
  /\ owner' = [owner EXCEPT ![n] = p]
  /\ UNCHANGED session

Lose(lost) ==
  /\ \A m \in lost : state[m] = "open"
  /\ state' = [m \in Codes |-> IF m \in lost THEN "lost" ELSE state[m]]
  /\ UNCHANGED <<owner, session>>

Begin(n, t) ==
  /\ state[n] = "open"
  /\ session[t] = "unused"
  /\ state' = [state EXCEPT ![n] = "spent"]
  /\ session' = [session EXCEPT ![t] = owner[n]]
  /\ UNCHANGED owner

End(t) ==
  /\ session[t] \in Phones
  /\ session' = [session EXCEPT ![t] = "ended"]
  /\ UNCHANGED <<state, owner>>

Next ==
  \/ \E n \in Codes, p \in Phones, lost \in SUBSET Codes : Issue(n, p, lost)
  \/ \E lost \in SUBSET Codes : Lose(lost)
  \/ \E n \in Codes, t \in Tokens : Begin(n, t)
  \/ \E t \in Tokens : End(t)

Spec == Init /\ [][Next]_vars

=============================================================================
