# Verification of practice-projects

TLA+ models of the programs in this repository, the TLC configurations that
check them on small instances, and TLAPS proofs of what matters most for every
instance. The repository holds several small programs that share no code; each
is modelled on its own.

    tlasany M.tla                      parse a module
    tlc -workers 2 -config X.cfg M     run a configuration
    tlapm M_proofs.tla                 check the proofs of a module

`PROJECT.json` lists components, runs, hazards and theorems, and maps every
definition to the source lines it stands for. Comments that begin with
"Variant:" precede operators that no specification uses: each is a plausible
mistake in the operator after it, and a run fails when it takes that operator's
place.

## 1. Inventory

### go-chat-app (`server.go`)

One *broadcaster* goroutine owns `clientMap`; one *handler* per accepted
connection scans lines; `main` accepts. They share nothing but two unbuffered
channels, `clients` (join, leave) and `messages`. A message is written to every
connection in the map by blocking writes inside the broadcaster.

- Hard: messages against joins and leaves; a peer that does not read blocks
  everyone; write errors are ignored; an Accept error ends in a panic; the
  order of the deferred leave and Close.
- Correct when: everyone sees one conversation from the join on, nobody who can
  be written to misses a line, nothing is repeated or reordered, and the map
  holds the open connections.

### go-payment-system (`server.go`, `src/App.jsx`, `db/migrations`)

`createPaymentIntent` prices a basket, creates an intent at Stripe, inserts an
order and answers with the client secret; the page confirms the card with
Stripe; Stripe reports to `handleWebhook`, which updates the order; `getOrders`
lists them. The state is in the table, at Stripe and in the page.

- Hard: every outside call may fail, before or after it took effect; the
  process may stop between two of them; events come at least once and in any
  order; clicks and fetches overlap in the page.
- Correct when: nothing can be paid before its order is in the table, the table
  says only what happened, what Stripe may forget is recorded, the price is
  that of the whole basket as far as an int64 holds it, and the page never charges what was given up.

### ai-reachout-reminder (`index.ts`, `server.ts`, `store.ts`, `parse.ts`, `index.html`)

- *Daily check*: loads all connections, finds what is due today, has Claude
  write a message for each and Twilio send it. Keeps no record of what it sent.
- *Login*: codes sent by WhatsApp and kept in memory, sessions in MongoDB,
  checked by the routes of the page. One Node process; requests interleave at
  each await.
- *Adding connections*: `/add` and `/webhook` have Claude parse a text and
  store the result.
- Hard: days of 23 and 25 hours; failures in the loop; several requests for one
  code or session; what is lost in a crash; replies and retries of the webhook.
- Correct when: messages go out on the right day, none that is due is dropped,
  none is sent twice in a run; a code starts one session, sessions stay with
  their phone, logged out is logged out.

### go-react-dpop (`main.go`, `dpopUtil.go`, `src/`)

Gin server that issues tokens bound to a key and checks proofs against a cache
of identifiers with a lifetime; a page that keeps its key pair in IndexedDB.
Hard: the window of `iat` against that of the cache, requests that arrive
twice, a restart, a key pair whose save is not awaited, logins in flight that
overwrite it. Correct when a proof is accepted once for as long as it is fresh,
and a page that has logged in can make requests with the key it has.

### go-tls (`server.go`, `client.go`, `main.go`)

A handshake over JSON messages, server and client in one process. Hard: both
transcripts have to agree byte for byte; everything an end seals opens in the
place of everything else it seals, and a mismatch of Finished is not fatal; a
value that does not end keeps a Decode waiting; `log.Fatalf` in a handler ends
everything, the process exits on a timer. Correct when the two ends agree on keys
and transcript once both are done, and wait for each other over nothing but a
value that does not end.

### The others

`go-jwt-library` (make and verify tokens; the order of the checks, a token that
was changed, spelt otherwise or is just out of time) and `cryptopals` (padding,
ciphers and the detector of ECB; the length of a text to that of a block, what a
loop carries from one block to the next) are libraries of functions;
`ai-daily-passage` is a loop around a language model and a history file;
`ai-gmail-agent-attack` is a stub, `go-video-streaming` serves files without
state, and `terraform-localstack` is configuration.

## 2. Plan

| step | modules | status |
|------|---------|--------|
| 1 | `ChatRoom` (abstract), `ChatServer`, `ChatServer_proofs` | done |
| 2 | `OrderBook` (abstract), `PaymentServer`, `Payment_proofs` | done |
| 3 | `PaymentApp` (page composed with server), `Payment_proofs` | done |
| 4 | `ReminderCheck`, `ReminderCheck_proofs` | done |
| 5 | `Login` (abstract), `ReachoutServer`, `ReachoutServer_proofs` | done |
| 6 | `ReachoutIngest` (`/add`, `/webhook`, senders who try again), `ReachoutIngest_proofs` | done |
| 7 | `DpopServer` (proof cache, token binding), `DpopPage` (the browser over it), `DpopPage_proofs` | done |
| 8 | `Agreement` (abstract), `TlsHandshake`, `TlsHandshake_proofs` | done |
| 9 | `Jwt`, `Cryptopals`: functions and loops against what undoes them; `Libraries_proofs` | done |
| 10 | proofs about 6, 7 and 9, of `LinesPostedOnceInOrder` and `NobodyWaitsInVain` | done |

Every invariant, every action property and every refinement that a passing run
checks is a theorem; section 7 says why the four liveness properties are not.

## 3. The models

### ChatServer, and ChatRoom above it

| model | code |
|-------|------|
| `handler[c]` | the place of the goroutine `handleConn` of c |
| `clientMap`, `phase`, `todo` | the broadcaster: its map, select or range, and what the range has left |
| `sock`, `read` | what was written to a connection, and how much its peer has read |
| `Accept`, `AcceptError` | the accept loop |
| `Scan`, `ScanEnds`, `CloseConn` | the scan loop and the two deferred calls |
| `Join`, `Leave`, `RecvMessage` | the cases of the select, each with the sender's half of the rendezvous |
| `WriteTo`, `WriteEnds` | one `fmt.Fprintln`, and the end of the range |

A line is its sender and number. `Dial`, `TypeLine`, `PeerRead`, `HangUp` are
the far ends. A socket holds `SockCap` lines: a write blocks when it is full,
and fails or vanishes when the peer has gone. `log` and `joinAt` are history.

`ChatRoom` is the promise without goroutines or sockets: members, who is lost,
what was posted, and each member's view, a slice of one conversation.

### PaymentServer, and OrderBook above it

| model | code |
|-------|------|
| `phase[r]` | the call the handler of request r is at |
| `amount`, `intent`, `declines` | `totalAmount`, the payment intent, the cards declined for it |
| `status[r]` | the `status` column of the order, or absent |
| `emitted`, `acked` | events Stripe has to report, and those answered 200 |
| `Post`, `GetTotalPrice`, `NewIntent`, `InsertOrder`, `Reply` | `createPaymentIntent`, one step per outside call |
| `HandleSucceeded`, `HandleFailed` | `handleWebhook`, from delivery to answer |
| `Crash` | the process stops; requests in flight are lost |

`CardAccepted` and `CardDeclined` are Stripe, for whoever holds the client
secret. Any emitted event may be delivered again at any time. A failing call
may have taken effect. Baskets and prices are constants, and nothing bounds a
quantity: the sum is a fold, and `Wrap` leaves of it what an int64 holds
(`HalfWord` is 2^63). Wrapping at each product and sum or once at the end comes
to the same. `OrderBook` has only orders, payments and declines.

### PaymentApp

The page with the server, by `EXTENDS PaymentServer`: every step of the
composition is a step of the page, of the server, or of both at once (a click
on Checkout is the arrival of a request, a confirmation is a card accepted or
declined). `checkout[r]`, `pay[k]`, `fetching[f]` are the calls in flight;
`showCheckout`, `clientSecret` and `orders` are the React state of those names.
A call that fails at the page may have done its work already (`PayFailed`), or
may still be on its way, to be answered when nobody waits for it any more
(`PayLost`, `StripeConfirmsLost`). A list of orders may come back cut short,
since `getOrders` does not read `rows.Err()`.

### ReminderCheck

| model | code |
|-------|------|
| `Midnight` | the hour at which each local day begins: a calendar in which a day may have 23 or 25 hours |
| `DayOf`, `DaysSince`, `ShouldReach` | the arithmetic of `findReachouts` on dates |
| `StartCheck`, `Load`, `Craft`, `Send`, `Finish`, `Abort` | `main`, with its catch |
| `AddConnection` | `addConnection`, from the server, at any time |
| `runs`, `outcome`, `tried`, `sent` | history |

`Abort` may happen at any await, as a failing query, a failing `craftMessage`
or a kill; `Load` cannot succeed while a connection without events is stored. A
run is taken not to pass midnight. Reminders are taken up in any order.

### ReachoutServer, and Login above it

| model | code |
|-------|------|
| `at[c]`, `phone`, `code`, `token` | the request in slot c: the await it is at, and its local variables |
| `codes[p]` | the entry of the `codes` map, 0 when it is missing or expired |
| `sessions[t]` | the `sessions` collection |
| `SendCode`, `CodeSent` | `/auth/send-code` before and after its await |
| `Verify`, `CreateSession`, `SessionCreated`, `CreateFails` | `/auth/verify` |
| `Logout`, `DeleteSession`, `LoggedOut` | `/auth/logout` |
| `Ask`, `GetSession`, `Acted` | `/auth/me`, `/connections`, `/generate-message`, `/send-message` |
| `CodeExpires`, `SessionExpires` | five minutes, seven days (the TTL index and the filter) |
| `Crash`, `Restart` | the process, also when an error outside any try ends it |

A step is what runs between two awaits, or the effect of a call in MongoDB; the
effect and its answer are separate, so a call can take effect and fail. A code
is the number of its issue, so no two are alike (the code draws six digits).
Callers type codes that arrived, with any phone, or codes that were never sent.
`Login` has a code that is unissued, open, spent or lost, and a session that is
unused, a phone's, or ended.

### ReachoutIngest

| model | code |
|-------|------|
| `at[c]`, `from`, `text` | the request in slot c: the await it is at, its sender, its text |
| `rows[s][x]` | how many connections the collection has of sender s and text x |
| `Post`, `TryAgain` | the body was read; on the sender's own account, or because of an answer |
| `Parse`, `Insert`, `Confirm` | `parseConnection`, `addConnection`, the answer |
| `ParseFails`, `InsertFails`, `ConfirmFails`, `Apologise` | the same awaits failing, and the catch |
| `Crash` | the process ends and starts again |

`/add` and `/webhook` are one sequence of awaits; `Anonymous` is the owner of
what comes by `/add`, whose answer cannot fail after the insert. A failing call
may have taken effect. `sends`, `confirmed`, `sorry` are history. One sending can
be both confirmed and apologised for, when the confirmation arrives and its await
fails all the same.

### DpopServer, and DpopPage over it

| model | code |
|-------|------|
| `jtiCache[j]`, `Used`, `Add`, `CacheLife` | the go-cache of identifiers: an entry counts until its time |
| `Fresh`, `Sec` | `time.Now().Unix() - iat > 60` in whole seconds |
| `Valid`, `ProtectedDPoP`, `ProtectedBearer` | the two middlewares and handlers behind them |
| `click[c]` | the handler a click started: login or fetch, where it is, its key, `iat`, answer |
| `queue`, `db`, `Put`, `PutFails`, `Get` | IndexedDB: operations in the order they were asked for |
| `GenerateKeyPair`, `AskForKey`, `Sign` | `generateAndSaveKeyPair`; `createDPoPProof` up to its `getKeyPair`, and the rest of it |
| `Receive`, `Rejects` | the answer, and the catch: any await of a handler may reject |
| `request[c][i]`, `Resend` | the first and second copy of one request |
| `Validate`, `AlreadyUsed`, `TokenDPoP`, `GetProtectedDPoP` | the server, with time passing between the two checks |
| `Restart` | the cache is lost, tokens stay good |

`DpopPage` extends `DpopServer`: a step is the page's, the network's, the
server's or the clock's. A second is several ticks, since an entry of the cache
does not expire on a whole second and `iat` is one. A login's put and its get are
queued by two steps, each when its connection to the database is open, so that
another tab may put in between. `overlapped` is history.

### TlsHandshake, and Agreement above it

| model | code |
|-------|------|
| `pc[e]` | the message that `handleHandshake` or `doHandshake` is at |
| `transcript[e]`, `secret[e]` | the variables of those names |
| `wire[e]` | what is on its way to e; a `json.Decoder` takes one value at a time, and waits while it does not end |
| `SendX`, `ReceiveX` | the numbered parts of the two functions |
| `Derive` | `NewPublicKey`, `ECDH`, `DeriveKeys` |
| `HandleCSR`, `Listen`, `Dial`, `Accept` | `main`, `StartServer`, `StartClient` |
| `Fatal`, `Return` | `log.Fatalf` in either goroutine, and the end of `main` a second after the client |
| `Noise`, `Break` | a message changes on the way, the connection breaks |

Keys, signatures and ciphertexts are terms: they open or verify for the key and
the text they name and for nothing else. A ciphertext names its writer and the
secret and not the message it was made for, since an end seals everything with
one key and one nonce and without additional data (`Seal`, `Opens`). A changed
message decodes no more, does not end, has another field, or carries a ciphertext
that is damaged or is another one of this handshake (`Changed`, `Ciphertexts`).
`finished[e]` is how the comparison of step 8 or 9 came out, which the code goes
on from in either case. `Agreement` has the session the server vouches for and
who has concluded it.

### Cryptopals and Jwt

| model | code |
|-------|------|
| `encryptAESinECB`, `encryptAESinCBC`, `decryptAES` | the calls: what comes before each loop |
| `EncryptBlockECB`, `EncryptBlockCBC`, `DecryptBlockECB`, `DecryptBlockCBC` | one turn of its loop |
| `prev`, `block`, `encrypted`, `decrypted` | the variables of the loops; `block` counts them |
| `pkcs7pad`, `detectAESinECBorCBC`, `RepeatingKeyXOR`, `XOR`, `getEditDistance` | the functions of those names |
| `CreateJWTHS256`, `VerifyJWTHS256` and those of RS256 | the same |

A text grows byte by byte, is encrypted, and what came of it is decrypted. AES
under a key is a permutation of the blocks, and `ByteXor` is a constant of which
only the algebra is assumed (`XorAssumption`); the run has the real one. Hex has
two digits to a byte. A token is made, changed, cut, spelt otherwise and aged; a
signature names its key and what was signed. The text of a part holds bytes and
has a spelling: `RawURLEncoding` decodes more texts than it makes (line breaks,
bits past the last byte), so header and payload are signed as they are spelt and
a signature counts by its bytes. `Marshal` replaces what is not UTF-8 in a
subject (`Utf8`). `VerifyJWTHS256` looks at `exp` before the signature
and `VerifyJWTRS256` after it, as in the code.

## 4. The runs

| run | instance | distinct states | shows |
|-----|----------|-----------------|-------|
| `chat_safety` | 3 connections that type 2, 1 and 0 lines, one-line sockets | 1.6 million | the five invariants, and `RoomSpec`: the server implements the room |
| `chat_live` | 2 connections, Accept may fail | 65 thousand | a line taken is posted, who hung up is forgotten |
| `payment_safety` | 4 requests: a good basket, one whose price wraps around, an unknown product, one too expensive; 1 decline each | 37 thousand | the table agrees with Stripe, `BookSpec`, every payment is recorded in the end |
| `payment_idempotency` | as `payment_safety` | | violation, see 6 |
| `payment_app` | 2 clicks, 2 payments and 2 fetches in flight, one event each way | 512 thousand | no payment without an order, nothing shown that did not happen, nothing charged that was given up |
| `reminder` | 5 days with one of 25 hours, 4 connections, 5 events, 2 runs a day | 313 thousand | right day, nothing dropped, once per run |
| `reminder_spring` | a day of 23 hours | | violation, see 6 |
| `reachout_login` | 2 phones, 3 requests in flight, 3 codes, 3 sessions | 344 thousand | `LoginSpec`, one session per code, ownership, logout |
| `ingest` | 1 number and the open route, 1 text sent 3 times each, 2 requests in flight | 54 thousand | what was confirmed is there, nothing is there more often than it was sent |
| `dpop` | 2 tabs, 3 clicks, half seconds, a window of 1 second, budget 7 | 711 thousand | a key mismatch takes overlapping logins, a proof is taken again only at the edge |
| `tls` | 3 changes | 38 thousand | `AgreementSpec`, a Finished that opens comes of one view, the ends wait for each other only over a value that does not end, the process ends or is left in one |
| `libraries` | 2-bit bytes, blocks of 2, texts up to 4, 2 keys, all IVs; 2 changes of a token | 100 thousand | every text comes back, ECB shows its repeats, XOR undoes itself, a token verifies exactly when it reads as one that was made so |

Why the bounds are enough for what they look for:

- Chat: one line per socket already lets a reader block the broadcaster; three
  connections are a writer, one that is being written to and one that joins,
  leaves or dies meanwhile; two lines of one sender show reordering.
- Payment: one declined card and one accepted, each delivered any number of
  times, are all the ways in which two events of an intent can pass each other;
  requests are independent of one another, so two suffice where the page makes
  them compete. A word of 64 values is enough for a basket of 65 pieces to come
  out at the price of one, which Stripe and the column take. Two fetches are an
  old list that arrives after a new one.
- Reminder: two reminders due on one day make one failure matter for the other;
  two runs a day are the repetition; one change of the clocks lies between
  event and reminder, on the birthday itself, and outside both.
- Login: three requests are two that compete for one code or session and one
  that replaces, ends or outlives it; three codes let a code be replaced, lost
  and spent; tokens that run out only leave `CreateFails`.
- Ingest: two requests of one sender about one text are what can be counted
  twice; a third send lets one that was confirmed be followed by one that was
  not.
- DPoP: two tabs and three clicks are two logins that overlap and a fetch with
  the token of one; half seconds let a proof be made in the second half of a
  second and its entry end in the first half of another. The budget counts a
  click as two, a tick and a second copy as one (`Spent`): a login, its second
  copy and three ticks, past both windows, fit, and so do three clicks.
- TLS: a second change can hide what the first did, or fail to; there are six
  messages. Three changes put another ciphertext into the Certificate, the
  CertificateVerify and the Finished, which are all that the server seals.
- Libraries: texts of 0 to 4 bytes against blocks of 2 fill their last block or
  not, and make one to three blocks, so that a block can repeat next to itself
  and further on, and CBC carries one over twice; one key moves bytes, one mixes
  them. XOR keys of one byte and of two repeat within a text. Two changes of a
  token exchange header and payload, or payload and signature.

Symmetry is used in `payment_app`, `reachout_login`, `ingest` and `dpop`, on sets
whose members no definition tells apart, with safety properties only.
`payment_app` has a `VIEW` without the events that were acknowledged or processed:
no step and no property of that run reads them. `CHECK_DEADLOCK FALSE`
is set where everybody may be done; `reachout_login` checks deadlock.

## 5. Fairness

Three runs check liveness: `chat_live`, `payment_safety` and `tls`.

`ChatServer!FairSpec`: weak fairness of each goroutine's next step, since the Go
scheduler runs what can run; strong fairness of the rendezvous, since the
runtime queues the senders of a channel first in, first out and select chooses
among ready channels at random. Peers owe nothing, so the properties say
"provided every peer reads or hangs up" (`PeersKeepReading`) themselves: the
code sets no write deadline, and without that promise they are false.

`PaymentServer!FairSpec`: weak fairness of each handler, since every outside
call returns, and of a delivery that succeeds and whose answer arrives, since
Stripe repeats an event until it is acknowledged and outages are taken to end
first. Nobody has to pay.

`TlsHandshake!FairSpec`: weak fairness of each goroutine, and of the end of the
process by a call that cannot succeed (a Decode on a broken connection, a message
that is not the one awaited, a key that is refused), because it returns its error
and every error is passed to `fatal`; but a Decode in the middle of a value owes
nothing while the connection is up, and `Terminates` excepts it. Nothing says that
the connection breaks or holds. The listener is never closed and reads have no
deadline: that `Terminates` holds rests on `main`'s return and on TCP not losing
one message in the middle.

The other models have no fairness: nothing in the repository starts the check or
restarts a server, and what they promise is safety.

## 6. Disagreements of code and documents

- **Processed events.** The migration creates `processed_events` "for
  idempotency", but the webhook never uses it. `payment_idempotency` shows a
  `payment_failed` of an earlier card that is delivered again, after its
  acknowledgement was lost, and takes a completed order to failed. What does
  hold: an order for which no card was declined stays completed
  (theorem `CompletedStays`), and the status is always something that did happen
  (`StatusIsTrue`).
- **Spring.** `findReachouts` is to message "on the same day" and "3 days
  after", but floors hours over 24. `reminder_spring` shows a birthday message a
  day late after a day of 23 hours. The theorems `OnTime` and `DueAreTried`
  hold on every calendar without such a day.

Three things the code does that break no promise a run checks; the properties
state what holds all the same:

- A price that an int64 does not hold wraps around, and what is left of it may be
  an amount Stripe takes (`RightPrice`, and the second basket of
  `payment_safety`).
- `fatal(nil, ...)` returns, so a client that opens another ciphertext of the
  server's in place of its Finished finds that it differs, and goes on to say that
  it verified it (`client.go:124-126`). By then CertificateVerify has made sure of
  the transcript, so what is concluded is still one session
  (`FinishedComesOfOneView`, `AgreementSpec`).
- Reads have no deadline, so a JSON value that does not end can leave both ends of
  the handshake waiting; nothing else can (`NobodyWaitsInVain`, `Terminates`).

## 7. The proofs

All hold for every value of the constants that satisfies the named assumptions
(finite numbers, non-empty sockets and texts, distinct markers, the algebra of
exclusive or).

`ChatServer_proofs`. `IInv` adds to the type invariant that the range runs only
while a message is written (`BroadcasterPhase`) and that who has not joined has
received and scanned nothing (`HandlerProgress`). `NobodyMisses` is needed for
`ViewIsSlice` to be inductive: the next write to c is the last log entry, and
continues its slice only because c has everything before it. From `IInv` every
step maps to a step of `ChatRoom` or a stutter (`ServerImplementsRoom`).
`LinesPostedOnceInOrder` (theorem `EveryLineOnceInOrder`) is inductive with
`IInv`: only the receive cases of the select append to the log
(`OnlyReceivingPosts`), and a line that is received is the next of its sender,
because its handler scans no other before it is taken (`ReceivedIsNext`).

`Payment_proofs`, the server. `IInv` adds what the place of a handler implies
(`HandlerProgress`: no intent and no order before their calls, an order once the
secret is sent) and that events report what happened (`EventIsTrue`). Type,
events, status, acknowledgements, price, `BookSpec` and the action property
`CompletedIsFinal` follow. `WrapIsIdentity` says that the wraparound leaves alone
what an int64 holds, for words of any size.

`Payment_proofs`, the page. Every step of the composition is a step of
`PaymentServer` or leaves it alone (`AppImplementsServer`), so the theorems above
carry over. `AppIInv` adds that every answer on its way is true
(`AnswersAreTrue`), stable because what happened stays so. For
`ReplacedStaysUncharged` a step is looked at as what it can charge: only a
confirmation in flight, also one nobody waits for any more, and a new one pays for
the secret the page holds, which only the answer of a checkout that has not
settled can replace (`ReplacedStep`).

`ReminderCheck_proofs`. `IInv` adds that what a run has in hand is due and not
sent in this run (`HandIsDue`), that what went out was due (`SentWasDue`), and
that what is due is tried, to do, or in hand (`NothingDropped`), all in terms of
`ShouldReach`. `DaysSinceIsRight` then shows that `ShouldReach` means the right
day on a calendar with `WholeDays`.

`ReachoutServer_proofs`. `IInv` adds that a code in the map has been used for
nothing (`CodeBook`), that a request about to create a session alone holds its
code (`Requests`), and that a token keeps the code that began its session
(`SessionBook`). Two lemmas carry the refinement: a step that opens no code
loses some (`ClosingStep`), and a session taken out of the collection ends
(`EndingStep`).

`TlsHandshake_proofs`. `IInv` says what each end's transcript is at each of its
steps, as a function of the ClientHello the server took (`ServerPart`), and what
a message on the wire carries even when it was changed: a ciphertext that opens is
one of the four that were sealed, in whatever message (`Genuine`, `WirePart`), and
only one of them is a signature. When the signature holds, the client therefore
has the server's transcript and secret, and keeps them (`ClientPart`). That is why
a Finished that opens is opened by ends of one view (`FinishedOfOneView`) and why
both conclude the same session (`ImplementsAgreement`). It holds for any number of
changes, but with `Changed` as the only changes: nobody signs with the server's
key or seals under a secret that is not theirs, and nothing of another handshake
is put in.

`ReachoutIngest_proofs`. `LedgerBalances` compares counts, and a request between
its insert and its answer could break it. `IInv` therefore counts what is still
open as well: a request that may yet store, confirm or apologise has reserved its
entry (`RowsReserved`, `ConfirmationsReserved`, `AnswersReserved`). The number
of open requests is a `Cardinality`; `OneMoves`, `OneBegins` and `NoneOpen` say
how it changes when one request moves, one comes and all are lost. The theorem
`NothingLostOrDoubled` holds for any finite number of requests at once, any
senders and any number of attempts.

`DpopPage_proofs`. The write of a new key pair is not awaited, so what a login
reads depends on a queue of operations. While nothing overlapped a login, every
write still queued comes before its read, which is asked for in a later step
(`OpsWereAsked`, `SavedBeforeRead`), so once it has read, its key stays the stored
one (`KeyIsCurrent`), so a later fetch goes out under the key of its token
(`FetchKeys`); this holds whether or not a write takes effect, and gives
`RefusedOnlyAfterOverlap`. For the proof cache, an entry lasts to the end of the
window of the proof it was made for (`EntryOutlivesIat`); with four lemmas about
whole seconds this leaves only the one instant where both end together
(`ReplayOnlyAtTheEdge`), for every length of the window and of a second in ticks.

`TlsHandshake_proofs`, waiting. `Terminates` needs fairness; the safety part of it
does not. While the connection is up, what one end has received together with what
is on its way to it is what the other has sent (`NothingIsLost`), and the place of
an end fixes both numbers. So a client at an empty wire that is up has taken
everything the server wrote, and a server that has written that much and no more
is between two writes, or waits for the ClientHello, which would then be on its
way (`NoEndWaitsInVain`). `Counted` adds that there is no connection before the
client dials, which is where the counting starts.

`Libraries_proofs`, Cryptopals. The loops are steps of the model, one block each,
so the induction over a text is the induction over a behaviour, which the prover
can do, and needs no fold. `TextIInv` says of the encrypting loop that the blocks
so far are the ciphers of the padded text's, each mixed with the block before
(`CiphertextOf`, `Encrypting`), and of the decrypting loop that the whole
ciphertext is such and the blocks so far are the padded text's (`PlaintextOf`,
`Decrypting`). A turn keeps this because a block that is appended becomes the
last and moves none (`AppendedBlock`) and because a block comes back
(`BlockComesBack`, from `CipherIsUndone` and `BlockXorIsUndone`). At the end two
texts with the same blocks are the same (`SameBlocksSameText`) and the last byte
says how much to take off, a whole block included (`PaddingComesOff`): this is
`EveryTextComesBack`, for texts of any length, blocks and bytes of any size in
which a byte can hold the length of a block. `ECBShowsRepeats` follows because a
permutation keeps different blocks apart, `XorIsItsOwnInverse` because hex digits
give their byte back (`HexIsUndone`); its distances are equal because both count
the same bits, so what a bit is does not matter.

`Libraries_proofs`, Jwt. Whatever is exchanged, cut, respelt or made unreadable,
the third part of a token is a signature made under a key of the algorithm it
names, or unreadable (`TokenIsOfMadeParts`). A verifier accepts exactly what is
signed under its key and in time, in whichever order it looks (`VerifiersAccept`),
and such a token reads as the made one (`SignedWasMade`): the same header and
payload to the letter, and a signature with the same bytes. The assumption is that
secrets and key pairs are different things and that what is unreadable is neither
payload nor signature.

`Cryptopals` and `Jwt` have specifications of their own, `TextSpec` and `JwtSpec`,
which the theorems are about; `MCLibraries` runs the steps of one or the other.

Only model-checked: the liveness properties `LineIsPosted`, `GoneIsForgotten`,
`PaidIsRecorded` and `Terminates`, since fairness and ENABLED are out of the
prover's reach. Assumed and not proved: that exclusive or of eight bits satisfies
`XorAssumption`, which TLC evaluates on bytes of two; each bit is on its own.

No module of the project declares a RECURSIVE operator; the community module
Bitwise, which does, is used by `MCLibraries` alone.

## 8. What is not modelled

- Texts, prices in currency, layout and logging; what Claude writes; signature
  checks of webhooks, taken to accept what Stripe sent; cookies as headers.
- A deletion or insertion that MongoDB carries out after the server that sent
  it has died; two server processes at once.
- A daily check that is still running at midnight.
- What Twilio does when the webhook answers late: nothing in the repository
  describes it, and a repeated call would be a `Post`.
- The page of ai-reachout-reminder, `index.html`: it shows what the routes
  answer, and the routes are modelled with requests from any page. An answer
  that arrives after a logout is shown to whoever logs in next; no document says
  it must not be.
- What becomes of bytes behind a JSON value that does not end, which may make the
  Decode fail after all: that is `Fatal`, which the model allows at any time.
- DPoP proofs that are not what the page makes (another method, URL, signature);
  what a page displays.
- The solvers in cryptopals (`BreakRepeatingKeyXOR`, `solveSingleByteXOR`,
  `BreakAESinECB`, `DetectAESinECB`, `challenge14` and the oracles): they guess by letter
  counts or on random numbers, and print what they find. The encryption and the
  detector they call are modelled.
- ai-daily-passage, ai-gmail-agent-attack, go-video-streaming and
  terraform-localstack: a script around a language model, a stub, a file server
  without state, and configuration.
