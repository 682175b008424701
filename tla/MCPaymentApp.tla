---------------------------- MODULE MCPaymentApp ----------------------------
(* Instances of PaymentApp for TLC.                                        *)
EXTENDS PaymentApp, TLC

CONSTANTS r1, r2, k1, k2, f1, f2

Prices == (1 :> 5) @@ (2 :> 5)

\* App.jsx always posts the same basket.
AppBasket ==
  [r \in Requests |-> <<[id |-> 1, quantity |-> 1], [id |-> 2, quantity |-> 1]>>]

\* No step of the server or the page reads which events were acknowledged or
\* processed before, and no property of this run does.
AppView == <<phase, amount, intent, declines, status, emitted, uiVars>>

\* Clicks and calls are alike.
AppSymmetry == Permutations(Requests) \cup Permutations(PayCalls)
  \cup Permutations(FetchCalls)

=============================================================================
