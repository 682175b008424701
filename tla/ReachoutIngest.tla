--------------------------- MODULE ReachoutIngest ---------------------------
(***************************************************************************)
(* How connections come into ai-reachout-reminder: POST /webhook, with a   *)
(* WhatsApp message that Twilio passes on, and POST /add, without a login. *)
(* Claude makes a connection of the text, MongoDB stores it under the      *)
(* sender, and over WhatsApp the sender is told so, or else that the text  *)
(* was not understood, and then may send it again.                         *)
(*                                                                         *)
(* Every await may fail; of an insert and of a WhatsApp message that       *)
(* failed nobody knows whether it took effect.                             *)
(***************************************************************************)
EXTENDS Naturals, FiniteSets

CONSTANTS
  Senders,    \* WhatsApp numbers, and Anonymous
  Anonymous,  \* the owner of what comes by /add
  Texts,      \* what is sent
  Calls,      \* slots for requests: as many can be in flight
  MaxSends    \* bound: how often one sender sends one text

ASSUME IngestAssumption ==
  /\ Anonymous \in Senders
  /\ Texts # {}
  /\ IsFiniteSet(Calls)
  /\ MaxSends \in Nat

VARIABLES
  at,         \* at[c]: what the request in slot c awaits
  from,       \* from[c]: its sender
  text,       \* text[c]: its text
  rows,       \* rows[s][x]: the connections of s made of text x
  sends,      \* sends[s][x]: how often s sent x (history)
  confirmed,  \* confirmed[s][x]: how often s read "Saved" about x (history)
  sorry       \* sorry[s][x]: how often s read that x was not understood, less
              \* the times s sent it again

callVars == <<at, from, text>>
vars == <<callVars, rows, sends, confirmed, sorry>>

NoneOf == [s \in Senders |-> [x \in Texts |-> 0]]

Init ==
  /\ at = [c \in Calls |-> "idle"]
  /\ from = [c \in Calls |-> Anonymous]
  /\ text = [c \in Calls |-> CHOOSE x \in Texts : TRUE]
  /\ rows = NoneOf
  /\ sends = NoneOf
  /\ confirmed = NoneOf
  /\ sorry = NoneOf

Goes(c, here, there) ==
  /\ at[c] = here
  /\ at' = [at EXCEPT ![c] = there]

More(count, c) == [count EXCEPT ![from[c]][text[c]] = @ + 1]

\* Whether it took effect or not.
Perhaps(count, c) == {count, More(count, c)}

-----------------------------------------------------------------------------

\* The body was read and is not blank.
Receive(c, s, x) ==
  /\ Goes(c, "idle", "parse")
  /\ sends[s][x] < MaxSends
  /\ from' = [from EXCEPT ![c] = s]
  /\ text' = [text EXCEPT ![c] = x]
  /\ sends' = [sends EXCEPT ![s][x] = @ + 1]
  /\ UNCHANGED <<rows, confirmed>>

\* Somebody sends a text, not because of an answer to an earlier one.
Post(c, s, x) == Receive(c, s, x) /\ UNCHANGED sorry

\* Somebody tries again, as the answer says.
TryAgain(c, s, x) ==
  /\ sorry[s][x] > 0
  /\ Receive(c, s, x)
  /\ sorry' = [sorry EXCEPT ![s][x] = @ - 1]

\* parseConnection.
Parse(c) ==
  /\ Goes(c, "parse", "insert")
  /\ UNCHANGED <<from, text, rows, sends, confirmed, sorry>>

\* Variant: an insert whose error came late is tried again.
InsertRetried(c) ==
  /\ Goes(c, "insert", "insert") \/ Goes(c, "insert", "confirm")
  /\ rows' = More(rows, c)
  /\ UNCHANGED <<from, text, sends, confirmed, sorry>>

\* addConnection.
Insert(c) ==
  /\ Goes(c, "insert", "confirm")
  /\ rows' = More(rows, c)
  /\ UNCHANGED <<from, text, sends, confirmed, sorry>>

\* Either await fails and the catch answers.
InsertFails(c) ==
  /\ Goes(c, "insert", "apologise")
  /\ rows' \in Perhaps(rows, c)
  /\ UNCHANGED <<from, text, sends, confirmed, sorry>>

ParseFails(c) ==
  /\ Goes(c, "parse", "apologise")
  /\ UNCHANGED <<from, text, rows, sends, confirmed, sorry>>

\* /add answers 201 where the webhook sends a WhatsApp message, whose failure
\* takes the webhook to the same catch as the others.
Confirm(c) ==
  /\ Goes(c, "confirm", "idle")
  /\ confirmed' = More(confirmed, c)
  /\ UNCHANGED <<from, text, rows, sends, sorry>>

ConfirmFails(c) ==
  /\ from[c] # Anonymous
  /\ Goes(c, "confirm", "apologise")
  /\ confirmed' \in Perhaps(confirmed, c)
  /\ UNCHANGED <<from, text, rows, sends, sorry>>

\* Variant: the apology is sent again when it seems to have failed.
ApologiseAgain(c) ==
  /\ Goes(c, "apologise", "idle") \/ Goes(c, "apologise", "apologise")
  /\ sorry' = More(sorry, c)
  /\ UNCHANGED <<from, text, rows, sends, confirmed>>

\* Its own failure is swallowed.
Apologise(c) ==
  /\ Goes(c, "apologise", "idle")
  /\ sorry' \in Perhaps(sorry, c)
  /\ UNCHANGED <<from, text, rows, sends, confirmed>>

\* The process ends, and starts again with nothing to do.
Crash ==
  /\ at' = [c \in Calls |-> "idle"]
  /\ UNCHANGED <<from, text, rows, sends, confirmed, sorry>>

Next ==
  \/ \E c \in Calls, s \in Senders, x \in Texts : Post(c, s, x) \/ TryAgain(c, s, x)
  \/ \E c \in Calls :
       \/ Parse(c) \/ ParseFails(c) \/ Insert(c) \/ InsertFails(c)
       \/ Confirm(c) \/ ConfirmFails(c) \/ Apologise(c)
  \/ Crash

Spec == Init /\ [][Next]_vars

-----------------------------------------------------------------------------
(* Properties.                                                             *)

\* Each variable holds what its declaration says, and of no text are there more
\* apologies outstanding than the times it was sent.  (One sending may be both
\* confirmed and apologised for, when the confirmation arrives and still fails.)
TypeOK ==
  /\ at \in [Calls -> {"idle", "parse", "insert", "confirm", "apologise"}]
  /\ from \in [Calls -> Senders]
  /\ text \in [Calls -> Texts]
  /\ \A s \in Senders, x \in Texts :
       /\ sends[s][x] \in 0..MaxSends
       /\ rows[s][x] \in Nat
       /\ confirmed[s][x] \in Nat
       /\ sorry[s][x] \in 0..sends[s][x]

\* Whatever fails, and however often a sender tries again: under every owner
\* there are at least as many connections of a text as confirmations that its
\* sender read, and at most as many as the sender sent it; so nothing that was
\* confirmed is missing, and the server by itself stores nothing twice.
LedgerBalances ==
  \A s \in Senders, x \in Texts :
    confirmed[s][x] <= rows[s][x] /\ rows[s][x] <= sends[s][x]
=============================================================================
