----------------------------- MODULE PaymentApp -----------------------------
(***************************************************************************)
(* go-payment-system/src/App.jsx, one page in a browser, composed with the *)
(* server it calls (PaymentServer) and with getOrders.  Event handlers run *)
(* to their first await and go on when the promise settles, so any number  *)
(* of calls overlap and their answers come in any order.  A request of     *)
(* PaymentServer is one click on Checkout.                                 *)
(***************************************************************************)
EXTENDS PaymentServer

CONSTANTS
  PayCalls,     \* bound: the confirmCardPayment calls in flight at once
  FetchCalls,   \* bound: the fetches of /api/orders in flight at once
  NoSecret,     \* the initial clientSecret, null
  Free,         \* a call slot not in use
  Asked         \* a fetch whose SELECT has not run

Rows == [Requests -> Statuses]
PayCall == [pi : Requests, at : {"sent", "paid", "error", "lost"}]

ASSUME AppAssumption ==
  /\ NoSecret \notin Requests
  /\ Free \notin PayCall \cup Rows
  /\ Asked \notin Rows \cup {Free}

VARIABLES
  showCheckout,  \* the card form is on the page
  clientSecret,  \* the payment intent the form pays, or NoSecret
  orders,        \* orders[r]: the status shown for the order of r
  checkout,      \* checkout[r]: the handleCheckout call that made r
  pay,           \* pay[k]: the payment intent of the handlePay call k and where it is
  fetching       \* fetching[f]: the fetchOrders call f: Asked, or the rows of its answer

uiVars == <<showCheckout, clientSecret, orders, checkout, pay, fetching>>
allVars == <<vars, uiVars>>

NoOrders == [r \in Requests |-> "absent"]

\* The first render: the effect has called fetchOrders.
AppInit ==
  /\ Init
  /\ showCheckout = FALSE
  /\ clientSecret = NoSecret
  /\ orders = NoOrders
  /\ checkout = [r \in Requests |-> "unclicked"]
  /\ pay = [k \in PayCalls |-> Free]
  /\ \E f \in FetchCalls :
       fetching = [g \in FetchCalls |-> IF g = f THEN Asked ELSE Free]

-----------------------------------------------------------------------------
(* handleCheckout.                                                         *)

\* Variant: the form is shown when the call is made, before its answer.
ClickCheckoutShowsForm(r) ==
  /\ checkout[r] = "unclicked"
  /\ Post(r)
  /\ checkout' = [checkout EXCEPT ![r] = "waiting"]
  /\ showCheckout' = TRUE
  /\ UNCHANGED <<clientSecret, orders, pay, fetching>>

\* A click on Checkout, allowed while other calls are in flight.
ClickCheckout(r) ==
  /\ checkout[r] = "unclicked"
  /\ Post(r)
  /\ checkout' = [checkout EXCEPT ![r] = "waiting"]
  /\ UNCHANGED <<showCheckout, clientSecret, orders, pay, fetching>>

\* Variant: an answer is used even when the call has ended before.
CheckoutAnsweredLate(r) ==
  /\ checkout[r] \in {"waiting", "settled"}
  /\ phase[r] = "replied"
  /\ clientSecret' = r
  /\ showCheckout' = TRUE
  /\ checkout' = [checkout EXCEPT ![r] = "settled"]
  /\ UNCHANGED <<vars, orders, pay, fetching>>

\* The answer arrives: whatever form is on the page now pays for r.
CheckoutAnswered(r) ==
  /\ checkout[r] = "waiting"
  /\ phase[r] = "replied"
  /\ clientSecret' = r
  /\ showCheckout' = TRUE
  /\ checkout' = [checkout EXCEPT ![r] = "settled"]
  /\ UNCHANGED <<vars, orders, pay, fetching>>

\* The call ends in the catch: an error status, or the connection is lost at
\* any time, while the server goes on.
CheckoutFails(r) ==
  /\ checkout[r] = "waiting"
  /\ checkout' = [checkout EXCEPT ![r] = "settled"]
  /\ UNCHANGED <<vars, showCheckout, clientSecret, orders, pay, fetching>>

-----------------------------------------------------------------------------
(* CheckoutForm and handlePay.                                             *)

Cancel ==
  /\ showCheckout
  /\ showCheckout' = FALSE
  /\ UNCHANGED <<vars, clientSecret, orders, checkout, pay, fetching>>

\* Variant: the card form is always on the page.
ClickPayAnyTime(k) ==
  /\ pay[k] = Free
  /\ pay' = [pay EXCEPT ![k] = [pi |-> clientSecret, at |-> "sent"]]
  /\ UNCHANGED <<vars, showCheckout, clientSecret, orders, checkout, fetching>>

\* A click on Pay Now, which stays enabled while a payment is in flight.
ClickPay(k) ==
  /\ showCheckout
  /\ pay[k] = Free
  /\ pay' = [pay EXCEPT ![k] = [pi |-> clientSecret, at |-> "sent"]]
  /\ UNCHANGED <<vars, showCheckout, clientSecret, orders, checkout, fetching>>

PayMoves(k, to) == pay' = [pay EXCEPT ![k].at = to]

\* Stripe takes the money, declines the card, or refuses because the intent
\* is paid or the call did not get through.
StripeConfirms(k) ==
  /\ pay[k] # Free
  /\ pay[k].at = "sent"
  /\ \/ CardAccepted(pay[k].pi) /\ PayMoves(k, "paid")
     \/ CardDeclined(pay[k].pi) /\ PayMoves(k, "error")
     \/ UNCHANGED vars /\ PayMoves(k, "error")
  /\ UNCHANGED <<showCheckout, clientSecret, orders, checkout, fetching>>

\* Variant: the order of the form on the page is shown as completed at once.
PaySucceededOptimistic(k) ==
  /\ pay[k] # Free
  /\ pay[k].at = "paid"
  /\ pay' = [pay EXCEPT ![k] = Free]
  /\ showCheckout' = FALSE
  /\ orders' = [orders EXCEPT ![clientSecret] = "completed"]
  /\ UNCHANGED <<vars, clientSecret, checkout, fetching>>

\* onSuccess: whatever form is on the page is closed and fetchOrders called.
PaySucceeded(k) ==
  /\ pay[k] # Free
  /\ pay[k].at = "paid"
  /\ pay' = [pay EXCEPT ![k] = Free]
  /\ showCheckout' = FALSE
  /\ \E f \in FetchCalls :
       /\ fetching[f] = Free
       /\ fetching' = [fetching EXCEPT ![f] = Asked]
  /\ UNCHANGED <<vars, clientSecret, orders, checkout>>

\* result.error, or an exception once Stripe has acted: the form stays as it is.
PayFailed(k) ==
  /\ pay[k] # Free
  /\ pay[k].at \in {"paid", "error"}
  /\ pay' = [pay EXCEPT ![k] = Free]
  /\ UNCHANGED <<vars, showCheckout, clientSecret, orders, checkout, fetching>>

\* The call fails at the page while its request is on its way: the form stays,
\* and nothing takes the request back.
PayLost(k) ==
  /\ pay[k] # Free
  /\ pay[k].at = "sent"
  /\ PayMoves(k, "lost")
  /\ UNCHANGED <<vars, showCheckout, clientSecret, orders, checkout, fetching>>

\* Stripe answers a request that nobody waits for any more, or never sees it.
StripeConfirmsLost(k) ==
  /\ pay[k] # Free
  /\ pay[k].at = "lost"
  /\ CardAccepted(pay[k].pi) \/ CardDeclined(pay[k].pi) \/ UNCHANGED vars
  /\ pay' = [pay EXCEPT ![k] = Free]
  /\ UNCHANGED <<showCheckout, clientSecret, orders, checkout, fetching>>

-----------------------------------------------------------------------------
(* fetchOrders and getOrders.                                              *)

\* getOrders runs its SELECT.  Nobody reads rows.Err(): if the rows stop coming,
\* those that came are answered as if they were all.
GetOrders(f) ==
  /\ fetching[f] = Asked
  /\ \E S \in SUBSET Requests :
       fetching' = [fetching EXCEPT ![f] =
                      [r \in Requests |-> IF r \in S THEN status[r] ELSE "absent"]]
  /\ UNCHANGED <<vars, showCheckout, clientSecret, orders, checkout, pay>>

\* A failed query panics in rows.Next() on nil rows, so no JSON is sent; like
\* any other failed fetch it leaves the list as it is.
FetchFails(f) ==
  /\ fetching[f] # Free
  /\ fetching' = [fetching EXCEPT ![f] = Free]
  /\ UNCHANGED <<vars, showCheckout, clientSecret, orders, checkout, pay>>

FetchAnswered(f) ==
  /\ fetching[f] \notin {Asked, Free}
  /\ orders' = fetching[f]
  /\ fetching' = [fetching EXCEPT ![f] = Free]
  /\ UNCHANGED <<vars, showCheckout, clientSecret, checkout, pay>>

-----------------------------------------------------------------------------

\* What the server does on its own.
ServerNext ==
  /\ \/ \E r \in Requests :
          \/ GetTotalPrice(r) \/ NewIntent(r) \/ InsertOrder(r) \/ Reply(r)
          \/ HookNext(r)
     \/ Crash
  /\ UNCHANGED uiVars

AppNext ==
  \/ ServerNext
  \/ \E r \in Requests :
       ClickCheckout(r) \/ CheckoutAnswered(r) \/ CheckoutFails(r)
  \/ Cancel
  \/ \E k \in PayCalls :
       \/ ClickPay(k) \/ StripeConfirms(k) \/ PaySucceeded(k) \/ PayFailed(k)
       \/ PayLost(k) \/ StripeConfirmsLost(k)
  \/ \E f \in FetchCalls : GetOrders(f) \/ FetchFails(f) \/ FetchAnswered(f)

AppSpec == AppInit /\ [][AppNext]_allVars

-----------------------------------------------------------------------------
(* Properties.                                                             *)

\* Type invariant: the state of the page and of every call it has in flight.
AppTypeOK ==
  /\ showCheckout \in BOOLEAN
  /\ clientSecret \in Requests \cup {NoSecret}
  /\ orders \in Rows
  /\ checkout \in [Requests -> {"unclicked", "waiting", "settled"}]
  /\ pay \in [PayCalls -> PayCall \cup {Free}]
  /\ fetching \in [FetchCalls -> Rows \cup {Asked, Free}]

\* Whenever a card can be charged, its order is in the table: for the form on
\* the page and for every payment in flight, however the calls overlapped.
EveryPaymentHasOrder ==
  /\ showCheckout => clientSecret # NoSecret /\ status[clientSecret] # "absent"
  /\ \A k \in PayCalls :
       pay[k] # Free => pay[k].pi # NoSecret /\ status[pay[k].pi] # "absent"

\* The list is never wrong about money, however old the answer it shows: an
\* order shown as completed is paid, one shown as failed was declined.
ShownIsTrue ==
  \A r \in Requests :
    /\ orders[r] = "completed" => intent[r] = "paid"
    /\ orders[r] = "failed" => declines[r] > 0
    /\ orders[r] # "absent" => status[r] # "absent"

\* A checkout that has no call in flight, whose secret the page no longer holds
\* and for which no confirmation is on its way, not even one given up.
Replaced(r) ==
  /\ checkout[r] = "settled"
  /\ clientSecret # r
  /\ \A k \in PayCalls : pay[k] # Free => pay[k].pi # r

\* A checkout that was replaced by another is never charged later, unless by a
\* confirmation that was already on its way: the secret is not on the page any
\* more, and no late answer brings it back.
ReplacedIsNeverCharged ==
  [][\A r \in Requests :
       Replaced(r) => /\ Replaced(r)'
                      /\ intent'[r] = "paid" => intent[r] = "paid"]_allVars

=============================================================================
