--------------------------- MODULE Payment_proofs ----------------------------
(*******************************************************************************)
(* Proofs about the payment system: first about PaymentServer, for every set   *)
(* of requests, every basket and price list, every limit of Stripe and of the  *)
(* database, and any number of declined cards; then about PaymentApp, the page *)
(* composed with the server. The composition takes only steps of the server,   *)
(* so what is proved of the server holds of both; and however its calls        *)
(* overlap, the page pays only for what is in the table and shows only what is *)
(* true.                                                                       *)
(*******************************************************************************)
EXTENDS PaymentApp, TLAPS

\* Until the INSERT there is no order and until New there is no intent, and
\* once the client secret is to be sent there is an order.
HandlerProgress ==
  \A r \in Requests :
    /\ phase[r] \in {"none", "total", "intent"} =>
         intent[r] = "none" /\ status[r] = "absent"
    /\ phase[r] = "intent" => amount[r] \in Totals(Basket[r])
    /\ phase[r] = "insert" => status[r] = "absent"
    /\ phase[r] \in {"reply", "replied"} => status[r] # "absent"

\* An event reports what happened to its intent.
EventIsTrue ==
  \A e \in emitted :
    \/ e = Succeeded(e.pi) /\ intent[e.pi] = "paid"
    \/ e.type = "payment_failed" /\ declines[e.pi] > 0

IInv ==
  /\ TypeOK
  /\ HandlerProgress
  /\ EventIsTrue
  /\ EventFindsOrder
  /\ StatusIsTrue
  /\ AckedIsRecorded
  /\ RightPrice

LEMMA InitIInv == Init => IInv
BY PaymentAssumption
   DEF Init, IInv, TypeOK, HandlerProgress, EventIsTrue, EventFindsOrder,
       StatusIsTrue, AckedIsRecorded, RightPrice, Phases, Intents, Statuses

\* An int64 does not wrap around.
LEMMA RemainderIsIdentity ==
  ASSUME NEW m \in Nat \ {0}, NEW n \in 0..(m - 1)
  PROVE  n % m = n
OBVIOUS

LEMMA WrapIsIdentity ==
  ASSUME NEW n \in Int64
  PROVE  Wrap(n) = n
<1>1. n + HalfWord \in 0..(2 * HalfWord - 1) /\ 2 * HalfWord \in Nat \ {0}
  BY PaymentAssumption DEF Int64
<1>2. (n + HalfWord) % (2 * HalfWord) = n + HalfWord
  BY <1>1, RemainderIsIdentity, Zenon
<1> QED
  BY <1>2, PaymentAssumption DEF Wrap, Int64

\* What getTotalPrice returns is 0, or the price of a basket that is sold, as an
\* int64.
LEMMA TotalsFacts ==
  ASSUME NEW r \in Requests, NEW n \in Totals(Basket[r])
  PROVE  /\ n \in {0} \cup {Wrap(Cost(Basket[q])) : q \in Sold}
         /\ n # 0 => r \in Sold /\ n = Wrap(Cost(Basket[r]))
BY DEF Totals, Sold

\* The handler of one request disturbs only that request, and only before its
\* client secret is sent.
LEMMA CreateNextIInv ==
  ASSUME IInv, NEW r \in Requests, CreateNext(r)
  PROVE  IInv'
<1> USE PaymentAssumption DEF IInv
<1>1. /\ UNCHANGED <<declines, emitted, acked, processed>>
      /\ phase[r] \in {"none", "total", "intent", "insert", "reply"}
  BY DEF CreateNext, Post, GetTotalPrice, NewIntent, InsertOrder, Reply,
         stripeVars, hookVars
<1>2. CASE Post(r)
  <2>1. UNCHANGED <<amount, intent, status>>
    BY <1>2 DEF Post, stripeVars
  <2>2. TypeOK' /\ HandlerProgress'
    BY <1>1, <1>2, <2>1 DEF Post, TypeOK, HandlerProgress, Phases
  <2> QED
    BY <1>1, <2>1, <2>2 DEF EventIsTrue, EventFindsOrder, StatusIsTrue,
                            AckedIsRecorded, RightPrice
<1>3. CASE GetTotalPrice(r)
  <2>1. UNCHANGED <<intent, status>> /\ phase[r] = "total"
    BY <1>3 DEF GetTotalPrice, stripeVars
  <2>2. PICK n \in Totals(Basket[r]) : amount' = [amount EXCEPT ![r] = n]
    BY <1>3 DEF GetTotalPrice
  <2>3. TypeOK' /\ HandlerProgress'
    BY <1>1, <1>3, <2>1, <2>2, TotalsFacts
       DEF GetTotalPrice, TypeOK, HandlerProgress, Phases
  <2>4. RightPrice'
    BY <2>1, <2>2 DEF RightPrice, HandlerProgress, TypeOK
  <2> QED
    BY <1>1, <2>1, <2>3, <2>4 DEF EventIsTrue, EventFindsOrder, StatusIsTrue,
                                  AckedIsRecorded
<1>4. CASE NewIntent(r)
  <2>1. /\ UNCHANGED <<amount, status>> /\ phase[r] = "intent"
        /\ intent[r] = "none" /\ status[r] = "absent"
        /\ amount[r] \in Totals(Basket[r])
    BY <1>4 DEF NewIntent, HandlerProgress
  <2>2. \/ /\ amount[r] >= MinCharge
           /\ intent' = [intent EXCEPT ![r] = "open"]
           /\ \E p \in {"insert", "failed"} : phase' = [phase EXCEPT ![r] = p]
        \/ intent' = intent /\ phase' = [phase EXCEPT ![r] = "failed"]
    BY <1>4 DEF NewIntent
  <2>3. TypeOK' /\ HandlerProgress'
    BY <1>1, <2>1, <2>2 DEF TypeOK, HandlerProgress, Phases, Intents
  <2>4. amount[r] >= MinCharge => r \in Sold /\ amount[r] = Wrap(Cost(Basket[r]))
    <3>1. amount[r] = 0 => ~(amount[r] >= MinCharge)
      OBVIOUS
    <3> QED
      BY <2>1, <3>1, TotalsFacts
  <2>5. Cost(Basket[r]) \in Int64 => Wrap(Cost(Basket[r])) = Cost(Basket[r])
    BY WrapIsIdentity
  <2>6. RightPrice'
    BY <2>1, <2>2, <2>4, <2>5 DEF RightPrice, TypeOK
  <2>7. \A q \in Requests : intent[q] = "paid" => intent'[q] = "paid"
    BY <2>1, <2>2 DEF TypeOK
  <2>8. EventIsTrue' /\ StatusIsTrue'
    BY <1>1, <2>1, <2>7 DEF EventIsTrue, StatusIsTrue, TypeOK, Event
  <2> QED
    BY <1>1, <2>1, <2>3, <2>6, <2>8 DEF EventFindsOrder, AckedIsRecorded
<1>5. CASE InsertOrder(r)
  <2>1. /\ UNCHANGED <<amount, intent>> /\ phase[r] = "insert"
        /\ status[r] = "absent"
    BY <1>5 DEF InsertOrder, HandlerProgress, stripeVars
  <2>2. \/ /\ amount[r] <= MaxInteger
           /\ status' = [status EXCEPT ![r] = "pending"]
           /\ \E p \in {"reply", "failed"} : phase' = [phase EXCEPT ![r] = p]
        \/ status' = status /\ phase' = [phase EXCEPT ![r] = "failed"]
    BY <1>5 DEF InsertOrder
  <2>3. TypeOK' /\ HandlerProgress'
    BY <1>1, <2>1, <2>2 DEF TypeOK, HandlerProgress, Phases, Statuses
  <2>4. StatusIsTrue' /\ RightPrice'
    BY <1>1, <2>1, <2>2 DEF StatusIsTrue, RightPrice, TypeOK
  <2>5. AckedIsRecorded'
    BY <1>1, <2>1, <2>2 DEF AckedIsRecorded, TypeOK
  <2>6. EventIsTrue' /\ EventFindsOrder'
    BY <1>1, <2>1, <2>2 DEF EventIsTrue, EventFindsOrder, TypeOK, Event
  <2> QED
    BY <2>3, <2>4, <2>5, <2>6
<1>6. CASE Reply(r)
  <2>1. UNCHANGED <<amount, intent, status>>
    BY <1>6 DEF Reply, stripeVars
  <2>2. TypeOK' /\ HandlerProgress'
    BY <1>1, <1>6, <2>1 DEF Reply, TypeOK, HandlerProgress, Phases
  <2> QED
    BY <1>1, <2>1, <2>2 DEF EventIsTrue, EventFindsOrder, StatusIsTrue,
                            AckedIsRecorded, RightPrice
<1> QED
  BY <1>2, <1>3, <1>4, <1>5, <1>6 DEF CreateNext

\* Stripe emits an event only of an intent whose client secret was sent.
LEMMA CardNextIInv ==
  ASSUME IInv, NEW r \in Requests, CardNext(r)
  PROVE  IInv'
<1> USE PaymentAssumption DEF IInv
<1>1. /\ UNCHANGED <<phase, amount, status, acked, processed>>
      /\ phase[r] = "replied" /\ intent[r] = "open" /\ status[r] # "absent"
  BY DEF CardNext, CardAccepted, CardDeclined, hookVars, HandlerProgress
<1>2. PICK e \in Event :
        /\ emitted' = emitted \cup {e} /\ e.pi = r
        /\ \/ /\ e = Succeeded(r) /\ intent' = [intent EXCEPT ![r] = "paid"]
              /\ UNCHANGED declines
           \/ /\ e.type = "payment_failed" /\ UNCHANGED intent
              /\ declines[r] < MaxDeclines
              /\ declines' = [declines EXCEPT ![r] = @ + 1]
  <2>1. CASE CardAccepted(r)
    BY <2>1 DEF CardAccepted, Succeeded, Event
  <2>2. CASE CardDeclined(r)
    <3>1. PaymentFailed(r, declines[r] + 1) \in Event
      BY DEF TypeOK, PaymentFailed, Event
    <3> QED
      BY <2>2, <3>1 DEF CardDeclined, PaymentFailed
  <2> QED
    BY <2>1, <2>2 DEF CardNext
<1>3. /\ intent' \in [Requests -> Intents]
      /\ declines' \in [Requests -> 0..MaxDeclines]
      /\ \A q \in Requests : intent[q] = "paid" => intent'[q] = "paid"
      /\ \A q \in Requests : declines[q] > 0 => declines'[q] > 0
      /\ \A q \in Requests : intent'[q] = "none" <=> intent[q] = "none"
      /\ e = Succeeded(r) => intent'[r] = "paid"
      /\ e.type = "payment_failed" => declines'[r] > 0
  <2>1. CASE /\ e = Succeeded(r) /\ intent' = [intent EXCEPT ![r] = "paid"]
             /\ UNCHANGED declines
    BY <1>1, <2>1 DEF TypeOK, Intents, Succeeded
  <2>2. CASE /\ e.type = "payment_failed" /\ UNCHANGED intent
             /\ declines[r] < MaxDeclines
             /\ declines' = [declines EXCEPT ![r] = @ + 1]
    BY <1>1, <2>2 DEF TypeOK, Intents, Succeeded
  <2> QED
    BY <1>2, <2>1, <2>2
<1>4. TypeOK' /\ HandlerProgress'
  BY <1>1, <1>2, <1>3 DEF TypeOK, HandlerProgress
<1>5. EventIsTrue'
  <2> SUFFICES ASSUME NEW f \in emitted'
               PROVE  \/ f = Succeeded(f.pi) /\ intent'[f.pi] = "paid"
                      \/ f.type = "payment_failed" /\ declines'[f.pi] > 0
    BY DEF EventIsTrue
  <2>1. CASE f \in emitted
    BY <1>3, <2>1 DEF EventIsTrue, TypeOK, Event
  <2>2. CASE f = e
    BY <1>2, <1>3, <2>2
  <2> QED
    BY <1>2, <2>1, <2>2
<1>6. EventFindsOrder' /\ StatusIsTrue' /\ RightPrice'
  BY <1>1, <1>2, <1>3 DEF EventFindsOrder, StatusIsTrue, RightPrice
<1>7. AckedIsRecorded'
  <2> SUFFICES ASSUME NEW q \in Requests, Succeeded(q) \in acked
               PROVE  declines'[q] = 0 => declines[q] = 0
    BY <1>1 DEF AckedIsRecorded
  <2> QED
    BY <1>1, <1>2, <1>3 DEF TypeOK
<1> QED
  BY <1>4, <1>5, <1>6, <1>7

\* A delivered event finds its order, and writes what is true.
LEMMA HookNextIInv ==
  ASSUME IInv, NEW r \in Requests, HookNext(r)
  PROVE  IInv'
<1> USE PaymentAssumption DEF IInv
<1>1. UNCHANGED <<phase, amount, intent, declines, emitted>>
  BY DEF HookNext, HandleSucceeded, HandleFailed, stripeVars
<1>2. status[r] # "absent"
  <2>1. \E e \in emitted : e.pi = r
    BY DEF HookNext, HandleSucceeded, HandleFailed, Succeeded, PaymentFailed
  <2> QED
    BY <2>1 DEF EventFindsOrder
<1>3. CASE UNCHANGED <<status, acked>> /\ processed' \in SUBSET emitted
  BY <1>1, <1>3 DEF TypeOK, HandlerProgress, EventIsTrue, EventFindsOrder,
                    StatusIsTrue, AckedIsRecorded, RightPrice
<1>4. CASE HandleSucceeded(r) /\ (status' # status \/ acked' # acked)
  <2>1. /\ Succeeded(r) \in emitted /\ status' = [status EXCEPT ![r] = "completed"]
        /\ processed' = processed \cup {Succeeded(r)}
        /\ acked' = acked \cup {Succeeded(r)} \/ acked' = acked
    BY <1>2, <1>4 DEF HandleSucceeded, Update, Answered
  <2>2. intent[r] = "paid"
    BY <2>1 DEF EventIsTrue, Succeeded
  <2>3. TypeOK' /\ HandlerProgress' /\ RightPrice'
    BY <1>1, <1>2, <2>1 DEF TypeOK, HandlerProgress, RightPrice, Statuses
  <2>4. StatusIsTrue' /\ EventIsTrue' /\ EventFindsOrder'
    BY <1>1, <2>1, <2>2 DEF TypeOK, StatusIsTrue, EventIsTrue, EventFindsOrder, Event
  <2>5. AckedIsRecorded'
    BY <1>1, <2>1 DEF TypeOK, AckedIsRecorded, Succeeded
  <2> QED
    BY <2>3, <2>4, <2>5
<1>5. CASE \E n \in 1..MaxDeclines : HandleFailed(r, n)
  <2>1. PICK n \in 1..MaxDeclines : HandleFailed(r, n)
    BY <1>5
  <2>2. /\ PaymentFailed(r, n) \in emitted
        /\ status' = [status EXCEPT ![r] = "failed"] \/ status' = status
        /\ processed' \in SUBSET emitted
        /\ acked' = acked \cup {PaymentFailed(r, n)} \/ acked' = acked
    BY <1>2, <2>1 DEF HandleFailed, Update, Answered, TypeOK
  <2>3. declines[r] > 0
    BY <2>2 DEF EventIsTrue, PaymentFailed, Succeeded
  <2>4. TypeOK' /\ HandlerProgress' /\ RightPrice'
    BY <1>1, <1>2, <2>2 DEF TypeOK, HandlerProgress, RightPrice, Statuses
  <2>5. StatusIsTrue' /\ EventIsTrue' /\ EventFindsOrder'
    BY <1>1, <2>2, <2>3 DEF TypeOK, StatusIsTrue, EventIsTrue, EventFindsOrder, Event
  <2>6. AckedIsRecorded'
    BY <1>1, <2>2, <2>3 DEF TypeOK, AckedIsRecorded, Succeeded, PaymentFailed
  <2> QED
    BY <2>4, <2>5, <2>6
<1>6. CASE HandleSucceeded(r) /\ UNCHANGED <<status, acked>>
  <2>1. processed' \in SUBSET emitted
    BY <1>6 DEF HandleSucceeded, TypeOK
  <2> QED
    BY <1>3, <1>6, <2>1
<1>7. CASE HandleSucceeded(r)
  BY <1>4, <1>6, <1>7
<1> QED
  BY <1>5, <1>7 DEF HookNext

\* A restart loses requests, and nothing that was written.
LEMMA CrashIInv ==
  ASSUME IInv, Crash \/ UNCHANGED vars
  PROVE  IInv'
<1>1. UNCHANGED <<amount, intent, declines, status, emitted, acked, processed>>
  BY DEF Crash, vars, stripeVars, hookVars
<1>2. \A r \in Requests : phase'[r] = phase[r] \/ phase'[r] = "failed"
  BY DEF Crash, vars
<1>3. phase' \in [Requests -> Phases]
  BY DEF IInv, TypeOK, Crash, vars, Phases
<1>4. TypeOK' /\ HandlerProgress'
  BY <1>1, <1>2, <1>3 DEF IInv, TypeOK, HandlerProgress
<1> QED
  BY <1>1, <1>4 DEF IInv, EventIsTrue, EventFindsOrder, StatusIsTrue,
                    AckedIsRecorded, RightPrice

LEMMA NextIInv == IInv /\ [Next]_vars => IInv'
BY CreateNextIInv, CardNextIInv, HookNextIInv, CrashIInv DEF Next

THEOREM SpecIInv == Spec => []IInv
BY InitIInv, NextIInv, PTL DEF Spec

\* Every request, intent, order and event is always in one of its states.
THEOREM TypeCorrect == Spec => []TypeOK
BY SpecIInv, PTL DEF IInv

\* The UPDATE of a webhook never touches no row: the order is in the table
\* before Stripe has anything to report.
THEOREM NoEventIsLost == Spec => []EventFindsOrder
BY SpecIInv, PTL DEF IInv

\* The table says of a payment only what happened to it.
THEOREM TableIsTrue == Spec => []StatusIsTrue
BY SpecIInv, PTL DEF IInv

\* A payment Stripe need not report again is in the table.
THEOREM AckIsSafe == Spec => []AckedIsRecorded
BY SpecIInv, PTL DEF IInv

\* Both: no webhook is lost between Stripe and the table.
THEOREM NoWebhookIsLost == Spec => []EventsReachTheTable
BY NoEventIsLost, AckIsSafe, PTL DEF EventsReachTheTable

\* Nobody is charged for a part of a basket: the amount is the price of all of
\* it, unless no int64 holds that price.
THEOREM PriceIsRight == Spec => []RightPrice
BY SpecIInv, PTL DEF IInv

-----------------------------------------------------------------------------
(* The refinement of OrderBook.                                            *)

LEMMA BookInit == Init => Book!Init
BY DEF Init, Book!Init

\* Of createPaymentIntent only the INSERT shows in the book.
LEMMA CreateNextBook ==
  ASSUME IInv, NEW r \in Requests, CreateNext(r)
  PROVE  [Book!Next]_Book!vars
<1>1. UNCHANGED declines
  BY DEF CreateNext, Post, GetTotalPrice, NewIntent, InsertOrder, Reply, stripeVars
<1>2. {q \in Requests : intent'[q] = "paid"} = {q \in Requests : intent[q] = "paid"}
  BY DEF CreateNext, Post, GetTotalPrice, NewIntent, InsertOrder, Reply,
         stripeVars, IInv, TypeOK, HandlerProgress
<1>3. CASE UNCHANGED status
  BY <1>1, <1>2, <1>3 DEF Book!vars
<1>4. CASE status' # status
  <2>1. InsertOrder(r) /\ status[r] = "absent"
    BY <1>4 DEF CreateNext, Post, GetTotalPrice, NewIntent, InsertOrder, Reply,
                IInv, HandlerProgress
  <2>2. Book!Enter(r)
    BY <1>1, <1>2, <1>4, <2>1 DEF InsertOrder, Book!Enter
  <2> QED
    BY <2>2 DEF Book!Next
<1> QED
  BY <1>3, <1>4

LEMMA CardNextBook ==
  ASSUME IInv, NEW r \in Requests, CardNext(r)
  PROVE  [Book!Next]_Book!vars
<1>1. UNCHANGED status /\ status[r] # "absent" /\ intent[r] = "open"
  BY DEF CardNext, CardAccepted, CardDeclined, IInv, HandlerProgress
<1>2. r \notin {q \in Requests : intent[q] = "paid"}
  BY <1>1
<1>3. CASE CardAccepted(r)
  <2>1. {q \in Requests : intent'[q] = "paid"} =
        {q \in Requests : intent[q] = "paid"} \cup {r}
    BY <1>3 DEF CardAccepted, IInv, TypeOK
  <2>2. Book!Pay(r)
    BY <1>1, <1>2, <1>3, <2>1 DEF CardAccepted, Book!Pay
  <2> QED
    BY <2>2 DEF Book!Next
<1>4. CASE CardDeclined(r)
  <2>1. {q \in Requests : declines'[q] > 0} =
        {q \in Requests : declines[q] > 0} \cup {r}
    BY <1>4 DEF CardDeclined, IInv, TypeOK
  <2>2. Book!Decline(r)
    BY <1>1, <1>2, <1>4, <2>1 DEF CardDeclined, Book!Decline
  <2> QED
    BY <2>2 DEF Book!Next
<1> QED
  BY <1>3, <1>4 DEF CardNext

LEMMA HookNextBook ==
  ASSUME IInv, NEW r \in Requests, HookNext(r)
  PROVE  [Book!Next]_Book!vars
<1>1. UNCHANGED <<intent, declines>>
  BY DEF HookNext, HandleSucceeded, HandleFailed, stripeVars
<1>2. CASE UNCHANGED status
  BY <1>1, <1>2 DEF Book!vars
<1>3. CASE HandleSucceeded(r) /\ status' # status
  <2>1. intent[r] = "paid" /\ status' = [status EXCEPT ![r] = "completed"]
    BY <1>3 DEF HandleSucceeded, Update, IInv, EventIsTrue, Succeeded
  <2>2. Book!MarkCompleted(r)
    BY <1>1, <2>1 DEF Book!MarkCompleted
  <2> QED
    BY <2>2 DEF Book!Next
<1>4. CASE (\E n \in 1..MaxDeclines : HandleFailed(r, n)) /\ status' # status
  <2>1. declines[r] > 0 /\ status' = [status EXCEPT ![r] = "failed"]
    BY <1>4 DEF HandleFailed, Update, IInv, EventIsTrue, PaymentFailed, Succeeded
  <2>2. Book!MarkFailed(r)
    BY <1>1, <2>1 DEF Book!MarkFailed
  <2> QED
    BY <2>2 DEF Book!Next
<1>5. CASE HandleSucceeded(r)
  BY <1>2, <1>3, <1>5
<1>6. CASE \E n \in 1..MaxDeclines : HandleFailed(r, n)
  BY <1>2, <1>4, <1>6
<1> QED
  BY <1>5, <1>6 DEF HookNext

LEMMA NextBook == IInv /\ [Next]_vars => [Book!Next]_Book!vars
<1>1. Crash \/ UNCHANGED vars => UNCHANGED Book!vars
  BY DEF Crash, vars, stripeVars, Book!vars
<1> QED
  BY <1>1, CreateNextBook, CardNextBook, HookNextBook DEF Next

\* The handlers, the table and Stripe together keep the order book: an order
\* is entered before it can be paid for, and marked only with what happened.
THEOREM ServerKeepsBook == Spec => BookSpec
BY SpecIInv, BookInit, NextBook, PTL DEF Spec, BookSpec, Book!Spec

\* No step takes a completed order back unless a card was declined for it.
THEOREM CompletedStays == Spec => CompletedIsFinal
<1> DEFINE Final == \A r \in Requests :
              (status[r] = "completed" /\ declines[r] = 0) => status'[r] = "completed"
<1>1. IInv /\ [Next]_vars => [Final]_vars
  <2> SUFFICES ASSUME IInv, Next, NEW r \in Requests,
                      status[r] = "completed", declines[r] = 0
               PROVE  status'[r] = "completed"
    OBVIOUS
  <2>1. CASE Crash
    BY <2>1 DEF Crash
  <2>2. ASSUME NEW q \in Requests, CreateNext(q)
        PROVE  status'[r] = "completed"
    BY <2>2 DEF CreateNext, Post, GetTotalPrice, NewIntent, InsertOrder, Reply,
                IInv, TypeOK, HandlerProgress
  <2>3. ASSUME NEW q \in Requests, CardNext(q)
        PROVE  status'[r] = "completed"
    BY <2>3 DEF CardNext, CardAccepted, CardDeclined
  <2>4. ASSUME NEW q \in Requests, HandleSucceeded(q)
        PROVE  status'[r] = "completed"
    BY <2>4 DEF HandleSucceeded, Update, IInv, TypeOK
  <2>5. ASSUME NEW q \in Requests, NEW n \in 1..MaxDeclines, HandleFailed(q, n)
        PROVE  status'[r] = "completed"
    <3>1. declines[q] > 0
      BY <2>5 DEF HandleFailed, IInv, EventIsTrue, PaymentFailed, Succeeded
    <3> QED
      BY <2>5, <3>1 DEF HandleFailed, Update, IInv, TypeOK
  <2> QED
    BY <2>1, <2>2, <2>3, <2>4, <2>5 DEF Next, HookNext
<1> QED
  BY SpecIInv, <1>1, PTL DEF Spec, CompletedIsFinal

------------------------------------------------------------------------------
\* The page composed with the server.

\* What a row says of an order has happened.
RowsAreTrue(rows) ==
  \A r \in Requests :
    /\ rows[r] = "completed" => intent[r] = "paid"
    /\ rows[r] = "failed" => declines[r] > 0
    /\ rows[r] # "absent" => status[r] # "absent"

\* So have the rows of every answer on its way.
AnswersAreTrue ==
  \A f \in FetchCalls : fetching[f] \in Rows => RowsAreTrue(fetching[f])

AppIInv ==
  /\ IInv
  /\ AppTypeOK
  /\ EveryPaymentHasOrder
  /\ ShownIsTrue
  /\ AnswersAreTrue

LEMMA AppInitIInv == AppInit => AppIInv
<1> SUFFICES ASSUME AppInit PROVE AppIInv
  OBVIOUS
<1>1. IInv
  BY InitIInv DEF AppInit
<1>2. AppTypeOK
  BY DEF AppInit, AppTypeOK, NoOrders, Rows, Statuses
<1>3. EveryPaymentHasOrder /\ ShownIsTrue
  BY DEF AppInit, EveryPaymentHasOrder, ShownIsTrue, NoOrders
<1>4. AnswersAreTrue
  BY AppAssumption DEF AppInit, AnswersAreTrue
<1> QED
  BY <1>1, <1>2, <1>3, <1>4 DEF AppIInv

\* A call of handlePay in flight names a request.
LEMMA PayCallFacts ==
  ASSUME AppTypeOK, NEW k \in PayCalls, pay[k] # Free
  PROVE  pay[k] \in PayCall /\ pay[k].pi \in Requests
BY DEF AppTypeOK, PayCall

\* Every step of page and server is a step of the server or none of it.
LEMMA AppStepIsServerStep == AppTypeOK /\ [AppNext]_allVars => [Next]_vars
<1> SUFFICES ASSUME AppTypeOK, AppNext, vars' # vars PROVE Next
  BY DEF allVars
<1>1. CASE ServerNext
  BY <1>1 DEF ServerNext, Next, CreateNext
<1>2. CASE \E r \in Requests : ClickCheckout(r)
  BY <1>2 DEF ClickCheckout, Next, CreateNext
<1>3. CASE \E k \in PayCalls : StripeConfirms(k) \/ StripeConfirmsLost(k)
  BY <1>3, PayCallFacts DEF StripeConfirms, StripeConfirmsLost, Next, CardNext
<1>4. CASE \/ \E r \in Requests : CheckoutAnswered(r) \/ CheckoutFails(r)
           \/ Cancel
           \/ \E k \in PayCalls :
                ClickPay(k) \/ PaySucceeded(k) \/ PayFailed(k) \/ PayLost(k)
           \/ \E f \in FetchCalls : GetOrders(f) \/ FetchFails(f) \/ FetchAnswered(f)
  BY <1>4 DEF CheckoutAnswered, CheckoutFails, Cancel, ClickPay, PaySucceeded,
              PayFailed, PayLost, GetOrders, FetchFails, FetchAnswered
<1> QED
  BY <1>1, <1>2, <1>3, <1>4 DEF AppNext

\* What has happened to a payment or an order is never undone.
LEMMA ServerIsMonotone ==
  ASSUME IInv, [Next]_vars, NEW r \in Requests
  PROVE  /\ intent[r] = "paid" => intent'[r] = "paid"
         /\ declines[r] > 0 => declines'[r] > 0
         /\ status[r] # "absent" => status'[r] # "absent"
<1>1. CASE Crash \/ UNCHANGED vars
  BY <1>1 DEF Crash, vars, stripeVars
<1>2. ASSUME NEW q \in Requests, CreateNext(q)
      PROVE  /\ intent[r] = "paid" => intent'[r] = "paid"
             /\ declines[r] > 0 => declines'[r] > 0
             /\ status[r] # "absent" => status'[r] # "absent"
  BY <1>2 DEF CreateNext, Post, GetTotalPrice, NewIntent, InsertOrder, Reply,
              stripeVars, IInv, TypeOK, HandlerProgress
<1>3. ASSUME NEW q \in Requests, CardNext(q)
      PROVE  /\ intent[r] = "paid" => intent'[r] = "paid"
             /\ declines[r] > 0 => declines'[r] > 0
             /\ status[r] # "absent" => status'[r] # "absent"
  BY <1>3 DEF CardNext, CardAccepted, CardDeclined, IInv, TypeOK
<1>4. ASSUME NEW q \in Requests, HookNext(q)
      PROVE  /\ intent[r] = "paid" => intent'[r] = "paid"
             /\ declines[r] > 0 => declines'[r] > 0
             /\ status[r] # "absent" => status'[r] # "absent"
  BY <1>4 DEF HookNext, HandleSucceeded, HandleFailed, Update, stripeVars,
              IInv, TypeOK
<1> QED
  BY <1>1, <1>2, <1>3, <1>4 DEF Next

\* An answer of getOrders that was cut short says less, and nothing else.
LEMMA CutShortIsRows ==
  ASSUME IInv, NEW S \in SUBSET Requests
  PROVE  [r \in Requests |-> IF r \in S THEN status[r] ELSE "absent"] \in Rows
BY DEF IInv, TypeOK, Rows, Statuses

LEMMA AppTypeStep == AppIInv /\ [AppNext]_allVars => AppTypeOK'
<1> SUFFICES ASSUME AppIInv, [AppNext]_allVars PROVE AppTypeOK'
  OBVIOUS
<1>0. IInv /\ AppTypeOK
  BY DEF AppIInv
<1> USE AppAssumption DEF AppTypeOK
<1>1. CASE ServerNext \/ UNCHANGED allVars
  BY <1>0, <1>1 DEF ServerNext, uiVars, allVars
<1>2. ASSUME NEW r \in Requests,
             ClickCheckout(r) \/ CheckoutAnswered(r) \/ CheckoutFails(r)
      PROVE  AppTypeOK'
  BY <1>0, <1>2 DEF ClickCheckout, CheckoutAnswered, CheckoutFails
<1>3. CASE Cancel
  BY <1>0, <1>3 DEF Cancel
<1>4. ASSUME NEW k \in PayCalls, ClickPay(k)
      PROVE  AppTypeOK'
  <2>1. clientSecret \in Requests
    BY <1>0, <1>4 DEF ClickPay, AppIInv, EveryPaymentHasOrder
  <2> QED
    BY <1>0, <1>4, <2>1 DEF ClickPay, PayCall
<1>5. ASSUME NEW k \in PayCalls, StripeConfirms(k) \/ PayLost(k)
      PROVE  AppTypeOK'
  <2>1. pay[k] \in PayCall
    BY <1>0, <1>5, PayCallFacts DEF StripeConfirms, PayLost
  <2>2. pay' \in [PayCalls -> PayCall \cup {Free}]
    BY <1>0, <1>5, <2>1 DEF StripeConfirms, PayLost, PayMoves, PayCall
  <2> QED
    BY <1>0, <1>5, <2>2 DEF StripeConfirms, PayLost
<1>6. ASSUME NEW k \in PayCalls,
             PaySucceeded(k) \/ PayFailed(k) \/ StripeConfirmsLost(k)
      PROVE  AppTypeOK'
  BY <1>0, <1>6 DEF PaySucceeded, PayFailed, StripeConfirmsLost
<1>7. ASSUME NEW f \in FetchCalls, GetOrders(f) \/ FetchFails(f)
      PROVE  AppTypeOK'
  <2>1. CASE GetOrders(f)
    BY <1>0, <2>1, CutShortIsRows DEF GetOrders
  <2>2. CASE FetchFails(f)
    BY <1>0, <2>2 DEF FetchFails
  <2> QED
    BY <1>7, <2>1, <2>2
<1>8. ASSUME NEW f \in FetchCalls, FetchAnswered(f)
      PROVE  AppTypeOK'
  BY <1>0, <1>8 DEF FetchAnswered
<1> QED
  BY <1>1, <1>2, <1>3, <1>4, <1>5, <1>6, <1>7, <1>8 DEF AppNext

\* A payment is confirmed only for what the form holds, and the form holds
\* only what the server answered after its INSERT.
LEMMA PaymentHasOrderStep ==
  AppIInv /\ [AppNext]_allVars => EveryPaymentHasOrder'
<1> SUFFICES ASSUME AppIInv, [AppNext]_allVars PROVE EveryPaymentHasOrder'
  OBVIOUS
<1>0. IInv /\ AppTypeOK /\ EveryPaymentHasOrder /\ [Next]_vars
  BY AppStepIsServerStep DEF AppIInv
<1>1. \A r \in Requests : status[r] # "absent" => status'[r] # "absent"
  BY <1>0, ServerIsMonotone
<1>2. \A k \in PayCalls : pay[k] # Free => pay[k].pi \in Requests
  BY <1>0, PayCallFacts
<1>3. showCheckout => clientSecret \in Requests
  BY <1>0 DEF EveryPaymentHasOrder, AppTypeOK
<1>4. CASE UNCHANGED <<showCheckout, clientSecret, pay>>
  BY <1>0, <1>1, <1>2, <1>3, <1>4 DEF EveryPaymentHasOrder
<1>5. ASSUME NEW r \in Requests, CheckoutAnswered(r)
      PROVE  EveryPaymentHasOrder'
  <2>1. status[r] # "absent"
    BY <1>0, <1>5 DEF CheckoutAnswered, IInv, HandlerProgress
  <2> QED
    BY <1>0, <1>1, <1>2, <1>5, <2>1, AppAssumption
       DEF CheckoutAnswered, EveryPaymentHasOrder
<1>6. CASE Cancel
  BY <1>0, <1>1, <1>2, <1>6 DEF Cancel, EveryPaymentHasOrder
<1>7. ASSUME NEW k \in PayCalls, ClickPay(k)
      PROVE  EveryPaymentHasOrder'
  <2>1. /\ showCheckout /\ UNCHANGED <<status, showCheckout, clientSecret>>
        /\ pay' = [pay EXCEPT ![k] = [pi |-> clientSecret, at |-> "sent"]]
    BY <1>7 DEF ClickPay, vars
  <2> QED
    BY <1>0, <2>1 DEF EveryPaymentHasOrder, AppTypeOK
<1>8. ASSUME NEW k \in PayCalls, StripeConfirms(k) \/ PayLost(k)
      PROVE  EveryPaymentHasOrder'
  <2>1. /\ UNCHANGED <<showCheckout, clientSecret>> /\ pay[k] # Free
        /\ \E to \in {"paid", "error", "lost"} : pay' = [pay EXCEPT ![k].at = to]
    BY <1>8 DEF StripeConfirms, PayLost, PayMoves
  <2>2. pay[k] \in PayCall
    BY <1>0, <2>1, PayCallFacts
  <2>3. \A j \in PayCalls : pay'[j] # Free => pay[j] # Free /\ pay'[j].pi = pay[j].pi
    BY <1>0, <2>1, <2>2 DEF AppTypeOK, PayCall
  <2> QED
    BY <1>0, <1>1, <1>2, <1>3, <2>1, <2>3 DEF EveryPaymentHasOrder
<1>9. ASSUME NEW k \in PayCalls,
             PaySucceeded(k) \/ PayFailed(k) \/ StripeConfirmsLost(k)
      PROVE  EveryPaymentHasOrder'
  <2>1. /\ clientSecret' = clientSecret /\ (showCheckout' => showCheckout)
        /\ pay' = [pay EXCEPT ![k] = Free]
    BY <1>9 DEF PaySucceeded, PayFailed, StripeConfirmsLost
  <2> QED
    BY <1>0, <1>1, <1>2, <1>3, <2>1 DEF EveryPaymentHasOrder, AppTypeOK
<1> QED
  BY <1>4, <1>5, <1>6, <1>7, <1>8, <1>9
     DEF AppNext, allVars, uiVars, ServerNext, ClickCheckout, CheckoutFails,
         GetOrders, FetchFails, FetchAnswered

\* An answer is read off the table, and what it says stays true on its way.
LEMMA ShownStep == AppIInv /\ [AppNext]_allVars => ShownIsTrue' /\ AnswersAreTrue'
<1> SUFFICES ASSUME AppIInv, [AppNext]_allVars
             PROVE  ShownIsTrue' /\ AnswersAreTrue'
  OBVIOUS
<1>0. /\ IInv /\ AppTypeOK /\ ShownIsTrue /\ AnswersAreTrue
      /\ [Next]_vars
  BY AppStepIsServerStep DEF AppIInv
<1>1. \A rows \in Rows : RowsAreTrue(rows) => RowsAreTrue(rows)'
  BY <1>0, ServerIsMonotone DEF RowsAreTrue
<1>2. RowsAreTrue(orders) /\ orders \in Rows
  BY <1>0 DEF ShownIsTrue, RowsAreTrue, AppTypeOK
<1> DEFINE Cut(S) == [r \in Requests |-> IF r \in S THEN status[r] ELSE "absent"]
<1>3. \A S \in SUBSET Requests : RowsAreTrue(Cut(S)) /\ Cut(S) \in Rows
  <2>1. \A S \in SUBSET Requests : RowsAreTrue(Cut(S))
    BY <1>0 DEF IInv, StatusIsTrue, RowsAreTrue
  <2> QED
    BY <1>0, <2>1, CutShortIsRows
<1>4. \/ UNCHANGED <<orders, fetching>>
      \/ orders' = orders /\ \E f \in FetchCalls : fetching' = [fetching EXCEPT ![f] = Asked]
      \/ orders' = orders /\ \E f \in FetchCalls : fetching' = [fetching EXCEPT ![f] = Free]
      \/ /\ orders' = orders /\ UNCHANGED vars
         /\ \E f \in FetchCalls, S \in SUBSET Requests :
              fetching' = [fetching EXCEPT ![f] = Cut(S)]
      \/ \E f \in FetchCalls : /\ fetching[f] \notin {Asked, Free}
                               /\ orders' = fetching[f]
                               /\ fetching' = [fetching EXCEPT ![f] = Free]
  BY DEF AppNext, allVars, uiVars, vars, ServerNext, ClickCheckout,
         CheckoutAnswered, CheckoutFails, Cancel, ClickPay, StripeConfirms,
         PaySucceeded, PayFailed, PayLost, StripeConfirmsLost, GetOrders,
         FetchFails, FetchAnswered
<1> HIDE DEF Cut
<1>5. \A f \in FetchCalls : fetching'[f] \in Rows =>
        \/ fetching'[f] = fetching[f]
        \/ \E S \in SUBSET Requests : fetching'[f] = Cut(S)
  BY <1>0, <1>4, AppAssumption DEF AppTypeOK
<1>6. AnswersAreTrue'
  BY <1>0, <1>1, <1>3, <1>5 DEF AnswersAreTrue
<1>7. orders' = orders \/ \E f \in FetchCalls : fetching[f] \in Rows /\ orders' = fetching[f]
  BY <1>0, <1>4 DEF AppTypeOK
<1>8. ShownIsTrue'
  <2>1. RowsAreTrue(orders)'
    BY <1>0, <1>1, <1>2, <1>7 DEF AnswersAreTrue, RowsAreTrue
  <2> QED
    BY <2>1 DEF ShownIsTrue, RowsAreTrue
<1> QED
  BY <1>6, <1>8

LEMMA AppNextIInv == AppIInv /\ [AppNext]_allVars => AppIInv'
BY AppTypeStep, PaymentHasOrderStep, ShownStep, AppStepIsServerStep, NextIInv
   DEF AppIInv

THEOREM AppSpecIInv == AppSpec => []AppIInv
BY AppInitIInv, AppNextIInv, PTL DEF AppSpec

\* Page and server together behave as the server does with some clients, so
\* every theorem about PaymentServer holds of them.
THEOREM AppImplementsServer == AppSpec => Spec
<1>1. AppInit => Init
  BY DEF AppInit
<1>2. AppIInv /\ [AppNext]_allVars => [Next]_vars
  BY AppStepIsServerStep DEF AppIInv
<1> QED
  BY AppSpecIInv, <1>1, <1>2, PTL DEF AppSpec, Spec

\* The page's form, calls and list are always in one of their states.
THEOREM AppTypeCorrect == AppSpec => []AppTypeOK
BY AppSpecIInv, PTL DEF AppIInv

\* No card is charged for an order that is not in the table.
THEOREM PaymentsHaveOrders == AppSpec => []EveryPaymentHasOrder
BY AppSpecIInv, PTL DEF AppIInv

\* The list shows nothing of a payment that has not happened.
THEOREM ListIsTrue == AppSpec => []ShownIsTrue
BY AppSpecIInv, PTL DEF AppIInv

\* Nothing brings back the secret of a checkout that was replaced.
LEMMA ReplacedStep ==
  ASSUME AppIInv, [AppNext]_allVars, NEW r \in Requests, Replaced(r)
  PROVE  Replaced(r)' /\ (intent'[r] = "paid" => intent[r] = "paid")
<1>0. IInv /\ TypeOK /\ AppTypeOK
  BY DEF AppIInv, IInv
<1>1. \A k \in PayCalls : pay[k] # Free => pay[k] \in PayCall /\ pay[k].pi # r
  BY <1>0, PayCallFacts DEF Replaced
<1>2. \/ UNCHANGED checkout
      \/ \E q \in Requests : /\ checkout[q] \in {"unclicked", "waiting"}
                             /\ \E to \in {"waiting", "settled"} :
                                  checkout' = [checkout EXCEPT ![q] = to]
  BY DEF AppNext, allVars, uiVars, ServerNext, ClickCheckout, CheckoutAnswered,
         CheckoutFails, Cancel, ClickPay, StripeConfirms, PaySucceeded,
         PayFailed, PayLost, StripeConfirmsLost, GetOrders, FetchFails,
         FetchAnswered
<1>3. checkout'[r] = "settled"
  BY <1>0, <1>2 DEF Replaced, AppTypeOK
<1>4. clientSecret' = clientSecret \/ checkout[clientSecret'] = "waiting"
  BY DEF AppNext, allVars, uiVars, ServerNext, ClickCheckout, CheckoutAnswered,
         CheckoutFails, Cancel, ClickPay, StripeConfirms, PaySucceeded,
         PayFailed, PayLost, StripeConfirmsLost, GetOrders, FetchFails,
         FetchAnswered
<1>5. clientSecret' # r
  BY <1>4 DEF Replaced
<1>6. ASSUME NEW k \in PayCalls, pay'[k] # Free
      PROVE  pay'[k].pi # r
  <2>1. CASE UNCHANGED pay
    BY <1>1, <1>6, <2>1
  <2>2. ASSUME NEW j \in PayCalls, ClickPay(j)
        PROVE  pay'[k].pi # r
    BY <1>0, <1>1, <1>6, <2>2 DEF ClickPay, Replaced, AppTypeOK
  <2>3. ASSUME NEW j \in PayCalls, StripeConfirms(j) \/ PayLost(j)
        PROVE  pay'[k].pi # r
    <3>1. PICK to \in {"paid", "error", "lost"} : pay' = [pay EXCEPT ![j].at = to]
      BY <2>3 DEF StripeConfirms, PayLost, PayMoves
    <3>2. pay[j] # Free
      BY <2>3 DEF StripeConfirms, PayLost
    <3>3. pay[k] # Free /\ pay'[k].pi = pay[k].pi
      BY <1>0, <1>1, <1>6, <3>1, <3>2 DEF AppTypeOK, PayCall
    <3> QED
      BY <1>1, <3>3
  <2>4. ASSUME NEW j \in PayCalls,
               PaySucceeded(j) \/ PayFailed(j) \/ StripeConfirmsLost(j)
        PROVE  pay'[k].pi # r
    BY <1>0, <1>1, <1>6, <2>4
       DEF PaySucceeded, PayFailed, StripeConfirmsLost, AppTypeOK
  <2> QED
    BY <2>1, <2>2, <2>3, <2>4
       DEF AppNext, allVars, uiVars, ServerNext, ClickCheckout,
           CheckoutAnswered, CheckoutFails, Cancel, GetOrders, FetchFails,
           FetchAnswered
<1>7. intent'[r] = "paid" => intent[r] = "paid"
  <2>1. CASE UNCHANGED vars
    BY <2>1 DEF vars
  <2>2. CASE ServerNext
    BY <1>0, <2>2 DEF ServerNext, GetTotalPrice, NewIntent, InsertOrder, Reply,
                      HookNext, HandleSucceeded, HandleFailed, Crash,
                      stripeVars, TypeOK
  <2>3. ASSUME NEW q \in Requests, ClickCheckout(q)
        PROVE  intent'[r] = "paid" => intent[r] = "paid"
    BY <2>3 DEF ClickCheckout, Post, stripeVars
  <2>4. ASSUME NEW k \in PayCalls, StripeConfirms(k) \/ StripeConfirmsLost(k)
        PROVE  intent'[r] = "paid" => intent[r] = "paid"
    <3>1. pay[k].pi # r
      BY <1>1, <2>4 DEF StripeConfirms, StripeConfirmsLost
    <3> QED
      BY <1>0, <2>4, <3>1 DEF StripeConfirms, StripeConfirmsLost, CardAccepted,
                              CardDeclined, vars, TypeOK
  <2> QED
    BY <2>1, <2>2, <2>3, <2>4
       DEF AppNext, allVars, CheckoutAnswered, CheckoutFails, Cancel, ClickPay,
           PaySucceeded, PayFailed, PayLost, GetOrders, FetchFails, FetchAnswered
<1> QED
  BY <1>3, <1>5, <1>6, <1>7 DEF Replaced

\* A checkout that another has replaced on the page, and for which no confirmation
\* is on its way, is never charged later, whatever answers still arrive.
THEOREM ReplacedStaysUncharged == AppSpec => ReplacedIsNeverCharged
<1> DEFINE Kept == \A r \in Requests :
       Replaced(r) => /\ Replaced(r)'
                      /\ intent'[r] = "paid" => intent[r] = "paid"
<1>1. AppIInv /\ [AppNext]_allVars => [Kept]_allVars
  BY ReplacedStep
<1> QED
  BY AppSpecIInv, <1>1, PTL DEF AppSpec, ReplacedIsNeverCharged

==============================================================================
