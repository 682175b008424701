--------------------------- MODULE PaymentServer ---------------------------
(***************************************************************************)
(* go-payment-system/server.go: the handlers of /api/create-payment-intent *)
(* and /api/webhook, with the two services they call: Stripe (payment      *)
(* intents, and webhook events delivered at least once in any order) and   *)
(* the orders table.  A handler is a sequence of steps, one per outside    *)
(* call; every call may fail, and may fail after it took effect.           *)
(*                                                                         *)
(* A payment intent and an order are named by the request that made them:  *)
(* one request makes at most one of each, under an id Stripe invents.      *)
(***************************************************************************)
EXTENDS Integers, Sequences, Functions

CONSTANTS
  Requests,      \* requests to create a payment intent
  Basket,        \* Basket[r]: the items of r, each with its id and quantity
  PriceCents,    \* the products table: product id -> price_cents
  MinCharge,     \* the smallest amount Stripe accepts
  MaxInteger,    \* the largest value of an INTEGER column
  HalfWord,      \* 2^63: an int64 is in -HalfWord..HalfWord-1
  MaxDeclines    \* bound: how many cards are declined for one intent

Item == [id : Nat, quantity : Int]

ASSUME PaymentAssumption ==
  /\ Basket \in [Requests -> Seq(Item)]
  /\ \A id \in DOMAIN PriceCents : PriceCents[id] \in Nat
  /\ MinCharge \in Nat \ {0}
  /\ MaxInteger \in Nat
  /\ HalfWord \in Nat \ {0}
  /\ MaxDeclines \in Nat

VARIABLES
  phase,      \* phase[r]: where the handler of r is
  amount,     \* amount[r]: totalAmount; also the amount of its intent and order
  intent,     \* intent[r]: the payment intent at Stripe
  declines,   \* declines[r]: how many cards were declined for it
  status,     \* status[r]: the status column of its order
  emitted,    \* the events Stripe has to report
  acked,      \* the events answered with 200
  processed   \* the events whose UPDATE took effect (history)

vars == <<phase, amount, intent, declines, status, emitted, acked, processed>>

stripeVars == <<intent, declines, emitted>>
hookVars == <<acked, processed>>

Phases == {"none", "total", "intent", "insert", "reply", "replied", "failed"}
InFlight == {"total", "intent", "insert", "reply"}
Intents == {"none", "open", "paid"}
Statuses == {"absent", "pending", "completed", "failed"}

Succeeded(r) == [type |-> "succeeded", pi |-> r, no |-> 0]
PaymentFailed(r, n) == [type |-> "payment_failed", pi |-> r, no |-> n]
Event == [type : {"succeeded", "payment_failed"}, pi : Requests, no : Nat]

Init ==
  /\ phase = [r \in Requests |-> "none"]
  /\ amount = [r \in Requests |-> 0]
  /\ intent = [r \in Requests |-> "none"]
  /\ declines = [r \in Requests |-> 0]
  /\ status = [r \in Requests |-> "absent"]
  /\ emitted = {}
  /\ acked = {}
  /\ processed = {}

-----------------------------------------------------------------------------
(* createPaymentIntent.                                                    *)

\* The request arrives and its body is decoded, or answered with 400.
Post(r) ==
  /\ phase[r] = "none"
  /\ \E p \in {"total", "failed"} : phase' = [phase EXCEPT ![r] = p]
  /\ UNCHANGED <<amount, status, stripeVars, hookVars>>

SumOf(items, S) ==
  FoldFunction(+, 0, [i \in S |-> PriceCents[items[i].id] * items[i].quantity])

\* What the whole basket costs.
Cost(items) == SumOf(items, DOMAIN items)

Int64 == (-HalfWord)..(HalfWord - 1)

\* n as an int64.  Products and sums wrap around on the way, and nothing checks
\* a quantity; wrapped at every step or once at the end, the sum is the same.
Wrap(n) == ((n + HalfWord) % (2 * HalfWord)) - HalfWord

Known(items) == {i \in DOMAIN items : items[i].id \in DOMAIN PriceCents}

\* Variant: an item whose price cannot be read is skipped.
TotalsSkippingErrors(items) ==
  {Wrap(SumOf(items, S)) : S \in SUBSET Known(items)}

\* Variant: a price that cannot be read makes the total -1.
TotalsMinusOne(items) ==
  {-1} \cup IF Known(items) = DOMAIN items THEN {Wrap(Cost(items))} ELSE {}

\* What the loop can return: any query may fail, and the one for an unknown
\* product always does; then the loop returns 0.
Totals(items) ==
  {0} \cup IF Known(items) = DOMAIN items THEN {Wrap(Cost(items))} ELSE {}

GetTotalPrice(r) ==
  /\ phase[r] = "total"
  /\ \E n \in Totals(Basket[r]) : amount' = [amount EXCEPT ![r] = n]
  /\ phase' = [phase EXCEPT ![r] = "intent"]
  /\ UNCHANGED <<status, stripeVars, hookVars>>

\* paymentintent.New: Stripe refuses an amount below its minimum; a call that
\* fails for any other reason may still have created the intent.
NewIntent(r) ==
  /\ phase[r] = "intent"
  /\ \/ /\ amount[r] >= MinCharge
        /\ intent' = [intent EXCEPT ![r] = "open"]
        /\ \E p \in {"insert", "failed"} : phase' = [phase EXCEPT ![r] = p]
     \/ /\ phase' = [phase EXCEPT ![r] = "failed"]
        /\ UNCHANGED intent
  /\ UNCHANGED <<amount, declines, status, emitted, hookVars>>

\* Variant: the error of the INSERT is dropped, as it is for a failed payment.
InsertOrderIgnoringError(r) ==
  /\ phase[r] = "insert"
  /\ \/ /\ amount[r] <= MaxInteger
        /\ status' = [status EXCEPT ![r] = "pending"]
     \/ UNCHANGED status
  /\ phase' = [phase EXCEPT ![r] = "reply"]
  /\ UNCHANGED <<amount, stripeVars, hookVars>>

\* INSERT INTO orders: fails when the amount does not fit the column, or for
\* any other reason, perhaps after the row was committed.
InsertOrder(r) ==
  /\ phase[r] = "insert"
  /\ \/ /\ amount[r] <= MaxInteger
        /\ status' = [status EXCEPT ![r] = "pending"]
        /\ \E p \in {"reply", "failed"} : phase' = [phase EXCEPT ![r] = p]
     \/ /\ phase' = [phase EXCEPT ![r] = "failed"]
        /\ UNCHANGED status
  /\ UNCHANGED <<amount, stripeVars, hookVars>>

\* The client secret leaves the server.
Reply(r) ==
  /\ phase[r] = "reply"
  /\ phase' = [phase EXCEPT ![r] = "replied"]
  /\ UNCHANGED <<amount, status, stripeVars, hookVars>>

\* The process dies and is started again: the requests in flight are lost.
\* A webhook delivery cut short is one that Handle leaves unanswered.
Crash ==
  /\ \E r \in Requests : phase[r] \in InFlight
  /\ phase' = [r \in Requests |->
                 IF phase[r] \in InFlight THEN "failed" ELSE phase[r]]
  /\ UNCHANGED <<amount, status, stripeVars, hookVars>>

-----------------------------------------------------------------------------
(* Stripe.  Only the holder of the client secret can confirm an intent.    *)

CardAccepted(r) ==
  /\ phase[r] = "replied"
  /\ intent[r] = "open"
  /\ intent' = [intent EXCEPT ![r] = "paid"]
  /\ emitted' = emitted \cup {Succeeded(r)}
  /\ UNCHANGED <<phase, amount, declines, status, hookVars>>

CardDeclined(r) ==
  /\ phase[r] = "replied"
  /\ intent[r] = "open"
  /\ declines[r] < MaxDeclines
  /\ declines' = [declines EXCEPT ![r] = @ + 1]
  /\ emitted' = emitted \cup {PaymentFailed(r, declines[r] + 1)}
  /\ UNCHANGED <<phase, amount, intent, status, hookVars>>

-----------------------------------------------------------------------------
(* handleWebhook, from the delivery of e to its answer.  Any event Stripe  *)
(* has emitted may be delivered, again and in any order; the answer may be *)
(* lost, and then Stripe does not count the event as acknowledged.         *)

\* Variant: the UPDATE has no WHERE.
UpdateEveryOrder(r, s) ==
  status' = [q \in Requests |-> IF status[q] = "absent" THEN "absent" ELSE s]

\* UPDATE orders SET status = s WHERE payment_id = r, which touches no row
\* before the order is inserted.
Update(r, s) ==
  status' = IF status[r] = "absent" THEN status ELSE [status EXCEPT ![r] = s]

Answered(e) == \/ acked' = acked \cup {e}
               \/ UNCHANGED acked

\* Variant: the error of the UPDATE is dropped, as in the other case.
HandleSucceededIgnoringError(r) ==
  /\ Succeeded(r) \in emitted
  /\ \/ /\ Update(r, "completed")
        /\ processed' = processed \cup {Succeeded(r)}
     \/ UNCHANGED <<status, processed>>
  /\ Answered(Succeeded(r))
  /\ UNCHANGED <<phase, amount, stripeVars>>

\* case "payment_intent.succeeded": an error of the UPDATE is answered with
\* 500, and the event comes again.
HandleSucceeded(r) ==
  /\ Succeeded(r) \in emitted
  /\ \/ /\ Update(r, "completed")
        /\ processed' = processed \cup {Succeeded(r)}
        /\ Answered(Succeeded(r))
     \/ UNCHANGED <<status, processed, acked>>
  /\ UNCHANGED <<phase, amount, stripeVars>>

\* Variant: the status written is that of the other case.
HandleFailedAsCompleted(r, n) ==
  /\ PaymentFailed(r, n) \in emitted
  /\ Update(r, "completed")
  /\ processed' = processed \cup {PaymentFailed(r, n)}
  /\ Answered(PaymentFailed(r, n))
  /\ UNCHANGED <<phase, amount, stripeVars>>

\* case "payment_intent.payment_failed": the error of the UPDATE is assigned
\* and never read, so 200 is the answer whether or not it took effect.
HandleFailed(r, n) ==
  /\ PaymentFailed(r, n) \in emitted
  /\ \/ /\ Update(r, "failed")
        /\ processed' = processed \cup {PaymentFailed(r, n)}
     \/ UNCHANGED <<status, processed>>
  /\ Answered(PaymentFailed(r, n))
  /\ UNCHANGED <<phase, amount, stripeVars>>

-----------------------------------------------------------------------------

CreateNext(r) ==
  Post(r) \/ GetTotalPrice(r) \/ NewIntent(r) \/ InsertOrder(r) \/ Reply(r)

CardNext(r) == CardAccepted(r) \/ CardDeclined(r)

HookNext(r) ==
  HandleSucceeded(r) \/ \E n \in 1..MaxDeclines : HandleFailed(r, n)

Next ==
  \/ \E r \in Requests : CreateNext(r) \/ CardNext(r) \/ HookNext(r)
  \/ Crash

Spec == Init /\ [][Next]_vars

(***************************************************************************)
(* Fairness.  net/http runs every handler; every outside call returns.     *)
(* Stripe sends an event again until it is answered with 2xx, and outages  *)
(* end before it gives up: a delivery whose UPDATE succeeds and whose      *)
(* answer arrives happens sooner or later to every unacknowledged event.   *)
(* Nobody is obliged to pay, and no card to be accepted.                   *)
(***************************************************************************)
DeliverSucceeded(r) ==
  /\ Succeeded(r) \in emitted \ acked
  /\ HandleSucceeded(r)
  /\ acked' # acked

Fairness ==
  \A r \in Requests :
    /\ WF_vars(GetTotalPrice(r) \/ NewIntent(r) \/ InsertOrder(r) \/ Reply(r))
    /\ WF_vars(DeliverSucceeded(r))

FairSpec == Spec /\ Fairness

-----------------------------------------------------------------------------
(* Properties.                                                             *)

\* The requests whose every product is in the table.
Sold == {r \in Requests : Known(Basket[r]) = DOMAIN Basket[r]}

\* Type invariant: the state of every request, intent, order and event.
TypeOK ==
  /\ phase \in [Requests -> Phases]
  /\ amount \in [Requests -> {0} \cup {Wrap(Cost(Basket[r])) : r \in Sold}]
  /\ intent \in [Requests -> Intents]
  /\ declines \in [Requests -> 0..MaxDeclines]
  /\ status \in [Requests -> Statuses]
  /\ emitted \in SUBSET Event
  /\ acked \in SUBSET emitted
  /\ processed \in SUBSET emitted

\* No event finds its order missing: Stripe can have something to report of
\* an intent only when its order is in the table.  createPaymentIntent holds
\* the client secret back until the INSERT has succeeded; otherwise the UPDATE
\* of handleWebhook would touch no row, report no error and be answered 200.
EventFindsOrder ==
  \A e \in emitted : status[e.pi] # "absent"

\* An order says only what happened: completed when Stripe took the money,
\* failed when a card was declined, whatever the order of the deliveries.
StatusIsTrue ==
  \A r \in Requests :
    /\ status[r] = "completed" => intent[r] = "paid"
    /\ status[r] = "failed" => declines[r] > 0

\* A payment that Stripe need not report again is in the table: its order is
\* not pending, and is completed unless some card was declined for it.
AckedIsRecorded ==
  \A r \in Requests :
    Succeeded(r) \in acked =>
      /\ status[r] \in {"completed", "failed"}
      /\ declines[r] = 0 => status[r] = "completed"

\* What Stripe has to report reaches the table: no UPDATE goes to an order that
\* is not there yet, and nothing is acknowledged that was not written.
EventsReachTheTable == EventFindsOrder /\ AckedIsRecorded

\* An intent is never for a part of the basket, although any of the price
\* queries may fail: its amount is the price of the whole basket if an int64
\* holds that price, and else what is left of it after the wraparound, which
\* Stripe and the table may well accept.  What is in the table fits its column.
RightPrice ==
  \A r \in Requests :
    /\ intent[r] # "none" =>
         /\ r \in Sold
         /\ amount[r] = Wrap(Cost(Basket[r]))
         /\ Cost(Basket[r]) \in Int64 => amount[r] = Cost(Basket[r])
    /\ status[r] # "absent" => amount[r] <= MaxInteger

\* The server, the table and Stripe together keep the order book.
Book == INSTANCE OrderBook WITH
  paid <- {r \in Requests : intent[r] = "paid"},
  declined <- {r \in Requests : declines[r] > 0}

BookSpec == Book!Spec

\* An order for which no card was declined and that is completed stays so.
CompletedIsFinal ==
  [][\A r \in Requests :
       (status[r] = "completed" /\ declines[r] = 0) => status'[r] = "completed"]_vars

\* Every payment is recorded in the end, and for good when no card was
\* declined, although deliveries fail, repeat and overtake one another.
PaidIsRecorded ==
  \A r \in Requests :
    /\ intent[r] = "paid" ~> status[r] \in {"completed", "failed"}
    /\ (intent[r] = "paid" /\ declines[r] = 0) ~> [](status[r] = "completed")

\* The migration has a table of "Processed Stripe Events (for idempotency)":
\* an event processed once changes no order when it is delivered again.
ProcessedEventChangesNothing ==
  [][\A r \in Requests :
       /\ (Succeeded(r) \in processed /\ HandleSucceeded(r)) => UNCHANGED status
       /\ \A n \in 1..MaxDeclines :
            (PaymentFailed(r, n) \in processed /\ HandleFailed(r, n))
              => UNCHANGED status]_vars

=============================================================================
