----------------------------- MODULE MCPayment -----------------------------
(* Instances of PaymentServer for TLC.                                     *)
EXTENDS PaymentServer, TLC

CONSTANTS r1, r2, r3, r4

\* The two products of the migration, in units of their price.
Prices == (1 :> 5) @@ (2 :> 5)

\* The basket of App.jsx, another whose price of 325 is the least Stripe accepts
\* once a word of 64 values has wrapped around, one with a product that is not
\* in the table, and one too expensive for the column.
Baskets ==
  (r1 :> <<[id |-> 1, quantity |-> 1], [id |-> 2, quantity |-> 1]>>)
  @@ (r2 :> <<[id |-> 1, quantity |-> 65]>>)
  @@ (r3 :> <<[id |-> 1, quantity |-> 1], [id |-> 3, quantity |-> 1]>>)
  @@ (r4 :> <<[id |-> 2, quantity |-> 4]>>)

\* Two requests with the basket of App.jsx.
SameBaskets ==
  [r \in Requests |-> <<[id |-> 1, quantity |-> 1], [id |-> 2, quantity |-> 1]>>]

=============================================================================
