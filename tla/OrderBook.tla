----------------------------- MODULE OrderBook -----------------------------
(***************************************************************************)
(* What the orders table of go-payment-system promises about the payments  *)
(* Stripe takes, with no request, webhook or failure in sight: an order is *)
(* entered before anybody can pay for it, and is marked only with what     *)
(* happened to its payment.                                                *)
(***************************************************************************)
EXTENDS Naturals

CONSTANT Requests

VARIABLES
  status,    \* status[r]: the order of r, "absent" before it is entered
  paid,      \* the requests whose payment went through
  declined   \* the requests of which a card was declined

vars == <<status, paid, declined>>

Init ==
  /\ status = [r \in Requests |-> "absent"]
  /\ paid = {}
  /\ declined = {}

Enter(r) ==
  /\ status[r] = "absent"
  /\ status' = [status EXCEPT ![r] = "pending"]
  /\ UNCHANGED <<paid, declined>>

Pay(r) ==
  /\ status[r] # "absent"
  /\ r \notin paid
  /\ paid' = paid \cup {r}
  /\ UNCHANGED <<status, declined>>

Decline(r) ==
  /\ status[r] # "absent"
  /\ r \notin paid
  /\ declined' = declined \cup {r}
  /\ UNCHANGED <<status, paid>>

MarkCompleted(r) ==
  /\ r \in paid
  /\ status' = [status EXCEPT ![r] = "completed"]
  /\ UNCHANGED <<paid, declined>>

MarkFailed(r) ==
  /\ r \in declined
  /\ status' = [status EXCEPT ![r] = "failed"]
  /\ UNCHANGED <<paid, declined>>

Next ==
  \E r \in Requests :
    Enter(r) \/ Pay(r) \/ Decline(r) \/ MarkCompleted(r) \/ MarkFailed(r)

Spec == Init /\ [][Next]_vars

=============================================================================
