---------------------------- MODULE TlsHandshake ----------------------------
(***************************************************************************)
(* go-tls: main obtains a certificate from a mock CA, starts the server in *)
(* a goroutine and then runs the client; the two shake hands over a TCP    *)
(* connection inside one process, which log.Fatalf ends for both.          *)
(*                                                                         *)
(* Keys and ciphertexts are terms.  A public key stands for its private    *)
(* key, a shared secret is the set of the two public keys, what is sealed  *)
(* names its writer and the secret, and opens for the other end under that *)
(* secret, in whatever message it arrives: each end seals everything with  *)
(* one key, one nonce and no additional data.  The transcripts are         *)
(* sequences of what is hashed: messages stand for their JSON encoding,    *)
(* the certificate for its DER bytes.                                      *)
(*                                                                         *)
(* The connection may break, and bytes may change on the way: a message    *)
(* may come out as another one, as nothing that decodes, or as a JSON      *)
(* value that does not end, for which Decode goes on reading.              *)
(***************************************************************************)
EXTENDS Naturals, Sequences

CONSTANT MaxNoise   \* bound: how many messages change on the way

ASSUME TlsAssumption == MaxNoise \in Nat

VARIABLES
  run,         \* the process: running, ended by log.Fatalf, or returned
  listening,   \* net.Listen has succeeded
  pc,          \* pc[e]: what end e does next
  conn,        \* the connection: none, open or broken
  wire,        \* wire[e]: what is on its way to e
  secret,      \* secret[e]: sharedSecret, {} before it is computed
  transcript,  \* transcript[e]: what e has appended to it
  finished,    \* finished[e]: how the Finished e received compared
  noise        \* how many messages were changed

vars == <<run, listening, pc, conn, wire, secret, transcript, finished, noise>>
mainVars == <<run, listening, conn, noise>>

Ends == {"client", "server"}
Other(e) == IF e = "client" THEN "server" ELSE "client"

ClientStates == {"csr", "dial", "hello", "serverHello", "derive", "certificate",
                 "certVerify", "finished", "sendFinished", "sleep"}
ServerStates == {"accept", "clientHello", "hello", "derive", "sendCertificate",
                 "sendCertVerify", "sendFinished", "finished", "verified"}

PublicKey(e) == IF e = "client" THEN "client key" ELSE "server key"
ValidKeys == {"client key", "server key", "other key"}
Keys == ValidKeys \cup {"invalid"}   \* NewPublicKey or ECDH refuses the last

\* rest: random and cipher suites, 0 as they were sent.
ClientHello == [type |-> "ClientHello", key |-> PublicKey("client"), rest |-> 0]
ServerHello == [type |-> "ServerHello", key |-> PublicKey("server"), rest |-> 0]

\* encryptAESGCM with the write key and nonce of end e, and the EncryptedCertificate,
\* CertificateVerify or Finished that carries it.
Seal(e, s, plain) == [writer |-> e, under |-> s, plain |-> plain]
Sealed(type, e, s, plain) == [type |-> type, body |-> Seal(e, s, plain)]

ServerCert == [kind |-> "certificate", signer |-> "mockCA", key |-> "serverKey",
               names |-> {"wowthedoge.com", "www.wowthedoge.com"}]
CaStore == {"mockCA"}

\* ParseCertificate and VerifyCert; a certificate out of its time is Fatal too.
VerifyCert(plain) ==
  /\ plain.kind = "certificate"
  /\ plain.signer \in CaStore
  /\ "www.wowthedoge.com" \in plain.names

Signature(key, over) == [kind |-> "signature", signer |-> key, over |-> over]
VerifyData(s, over) == [kind |-> "mac", secret |-> s, over |-> over]

Init ==
  /\ run = "running"
  /\ listening = FALSE
  /\ pc = [e \in Ends |-> IF e = "client" THEN "csr" ELSE "accept"]
  /\ conn = "none"
  /\ wire = [e \in Ends |-> <<>>]
  /\ secret = [e \in Ends |-> {}]
  /\ transcript = [e \in Ends |-> <<>>]
  /\ finished = [e \in Ends |-> "none"]
  /\ noise = 0

-----------------------------------------------------------------------------
(* Steps of one end: at is where it is and then where it goes.             *)

At(e, here, there) ==
  /\ run = "running"
  /\ pc[e] = here
  /\ pc' = [pc EXCEPT ![e] = there]
  /\ UNCHANGED mainVars

\* Writing to a connection that broke loses m; when Encode reports it, Fatal.
Send(e, m) ==
  wire' = IF conn = "open" THEN [wire EXCEPT ![Other(e)] = Append(@, m)] ELSE wire

\* decryptAESGCM: which message the ciphertext is in makes no difference.
Opens(e, m) == m.body.writer = Other(e) /\ m.body.under = secret[e]

\* rsa.VerifyPKCS1v15 with the key of the certificate that was received.
SignatureHolds(signature) ==
  signature = Signature(transcript["client"][3].key, transcript["client"])

\* Variant: the signature is decrypted and not verified.
AcceptsUnsigned(e, m) ==
  \/ pc[e] = "clientHello" /\ m.type = "ClientHello"
  \/ pc[e] = "serverHello" /\ m.type = "ServerHello"
  \/ pc[e] = "certificate" /\ m.type = "Certificate" /\ Opens(e, m)
                          /\ VerifyCert(m.body.plain)
  \/ pc[e] = "certVerify" /\ m.type = "CertificateVerify" /\ Opens(e, m)
  \/ pc[e] = "finished" /\ m.type = "Finished" /\ Opens(e, m)

\* What end e takes for the message it waits for; anything else that ends is Fatal.
Accepts(e, m) ==
  \/ pc[e] = "clientHello" /\ m.type = "ClientHello"
  \/ pc[e] = "serverHello" /\ m.type = "ServerHello"
  \/ pc[e] = "certificate" /\ m.type = "Certificate" /\ Opens(e, m)
                          /\ VerifyCert(m.body.plain)
  \/ pc[e] = "certVerify" /\ m.type = "CertificateVerify" /\ Opens(e, m)
                         /\ SignatureHolds(m.body.plain)
  \/ pc[e] = "finished" /\ m.type = "Finished" /\ Opens(e, m)

Receive(e) ==
  /\ wire[e] # <<>>
  /\ Accepts(e, Head(wire[e]))
  /\ wire' = [wire EXCEPT ![e] = Tail(@)]

Hash(e, entry) ==
  transcript' = [transcript EXCEPT ![e] = Append(@, entry)]

\* NewPublicKey, ECDH and DeriveKeys, with the key in the other end's Hello.
PeerKey(e) == transcript[e][IF e = "server" THEN 1 ELSE 2].key

\* Variant: the errors of NewPublicKey and ECDH are not looked at.
DeriveUnchecked(e, there) ==
  /\ At(e, "derive", there)
  /\ secret' = [secret EXCEPT ![e] = {PublicKey(e), PeerKey(e)}]
  /\ UNCHANGED <<wire, transcript, finished>>

Derive(e, there) ==
  /\ At(e, "derive", there)
  /\ PeerKey(e) \in ValidKeys
  /\ secret' = [secret EXCEPT ![e] = {PublicKey(e), PeerKey(e)}]
  /\ UNCHANGED <<wire, transcript, finished>>

-----------------------------------------------------------------------------
(* main, and the two ends finding each other.                              *)

\* The CSR answered over an unbuffered channel; StartServer runs from here on.
HandleCSR ==
  /\ At("client", "csr", "dial")
  /\ UNCHANGED <<wire, secret, transcript, finished>>

Listen ==
  /\ run = "running"
  /\ pc["client"] # "csr"
  /\ ~listening
  /\ listening' = TRUE
  /\ UNCHANGED <<run, pc, conn, wire, secret, transcript, finished, noise>>

\* Before the server listens net.Dial is refused, which is Fatal.
Dial ==
  /\ run = "running"
  /\ pc["client"] = "dial"
  /\ listening
  /\ pc' = [pc EXCEPT !["client"] = "hello"]
  /\ conn' = "open"
  /\ UNCHANGED <<run, listening, wire, secret, transcript, finished, noise>>

\* An error of Accept is logged and the loop goes on: the state of before.
Accept ==
  /\ conn # "none"
  /\ At("server", "accept", "clientHello")
  /\ UNCHANGED <<wire, secret, transcript, finished>>

-----------------------------------------------------------------------------
(* handleHandshake, one action for each message.                           *)

ReceiveClientHello ==
  /\ At("server", "clientHello", "hello")
  /\ Receive("server")
  /\ Hash("server", Head(wire["server"]))
  /\ UNCHANGED <<secret, finished>>

SendServerHello ==
  /\ At("server", "hello", "derive")
  /\ Send("server", ServerHello)
  /\ Hash("server", ServerHello)
  /\ UNCHANGED <<secret, finished>>

\* The client's key is looked at only after ServerHello is out.
ServerDerive == Derive("server", "sendCertificate")

SendCertificate ==
  /\ At("server", "sendCertificate", "sendCertVerify")
  /\ Send("server", Sealed("Certificate", "server", secret["server"], ServerCert))
  /\ Hash("server", ServerCert)
  /\ UNCHANGED <<secret, finished>>

SendCertVerify ==
  /\ At("server", "sendCertVerify", "sendFinished")
  /\ LET m == Sealed("CertificateVerify", "server", secret["server"],
                     Signature("serverKey", transcript["server"]))
     IN  Send("server", m) /\ Hash("server", m)
  /\ UNCHANGED <<secret, finished>>

ServerFinished ==
  Sealed("Finished", "server", secret["server"],
         VerifyData(secret["server"], transcript["server"]))

\* Variant: the server waits for the client's Finished before it sends its own.
SendServerFinishedLast ==
  /\ wire["server"] # <<>>
  /\ At("server", "sendFinished", "finished")
  /\ Send("server", ServerFinished)
  /\ UNCHANGED <<secret, transcript, finished>>

\* Variant: the server's Finished stays in a buffer nobody flushes.
SendServerFinishedUnflushed ==
  /\ At("server", "sendFinished", "finished")
  /\ UNCHANGED <<wire, secret, transcript, finished>>

SendServerFinished ==
  /\ At("server", "sendFinished", "finished")
  /\ Send("server", ServerFinished)
  /\ UNCHANGED <<secret, transcript, finished>>

\* fatal(nil, ...) returns: the handshake goes on, equal or not.
Compare(e, m) ==
  finished' = [finished EXCEPT ![e] =
    IF m.body.plain = VerifyData(secret[e], transcript[e]) THEN "equal" ELSE "different"]

ReceiveClientFinished ==
  /\ At("server", "finished", "verified")
  /\ Receive("server")
  /\ Compare("server", Head(wire["server"]))
  /\ UNCHANGED <<secret, transcript>>

-----------------------------------------------------------------------------
(* doHandshake.                                                            *)

SendClientHello ==
  /\ At("client", "hello", "serverHello")
  /\ Send("client", ClientHello)
  /\ Hash("client", ClientHello)
  /\ UNCHANGED <<secret, finished>>

ReceiveServerHello ==
  /\ At("client", "serverHello", "derive")
  /\ Receive("client")
  /\ Hash("client", Head(wire["client"]))
  /\ UNCHANGED <<secret, finished>>

ClientDerive == Derive("client", "certificate")

ReceiveCertificate ==
  /\ At("client", "certificate", "certVerify")
  /\ Receive("client")
  /\ Hash("client", Head(wire["client"]).body.plain)
  /\ UNCHANGED <<secret, finished>>

\* Variant: the client does not append CertificateVerify to its transcript.
ReceiveCertVerifyUnhashed ==
  /\ At("client", "certVerify", "finished")
  /\ Receive("client")
  /\ UNCHANGED <<secret, transcript, finished>>

ReceiveCertVerify ==
  /\ At("client", "certVerify", "finished")
  /\ Receive("client")
  /\ Hash("client", Head(wire["client"]))
  /\ UNCHANGED <<secret, finished>>

ReceiveServerFinished ==
  /\ At("client", "finished", "sendFinished")
  /\ Receive("client")
  /\ Compare("client", Head(wire["client"]))
  /\ UNCHANGED <<secret, transcript>>

ClientFinished ==
  Sealed("Finished", "client", secret["client"],
         VerifyData(secret["client"], transcript["client"]))

SendClientFinished ==
  /\ At("client", "sendFinished", "sleep")
  /\ Send("client", ClientFinished)
  /\ UNCHANGED <<secret, transcript, finished>>

\* A second later main returns, whatever the server has come to.
Return ==
  /\ run = "running"
  /\ pc["client"] = "sleep"
  /\ run' = "returned"
  /\ UNCHANGED <<listening, pc, conn, wire, secret, transcript, finished, noise>>

-----------------------------------------------------------------------------
(* What goes wrong.                                                        *)

\* log.Fatalf: a call of either end fails, Listen or Dial is refused, or the
\* handler of some other connection cannot decode a ClientHello.
Fatal ==
  /\ run = "running"
  /\ run' = "fatal"
  /\ UNCHANGED <<listening, pc, conn, wire, secret, transcript, finished, noise>>

Break ==
  /\ run = "running"
  /\ conn = "open"
  /\ conn' = "broken"
  /\ UNCHANGED <<run, listening, pc, wire, secret, transcript, finished, noise>>

\* Everything sealed in this handshake so far.
Ciphertexts ==
  LET t == transcript["server"]
  IN  UNION {
        IF Len(t) >= 3 THEN {Seal("server", secret["server"], ServerCert)} ELSE {},
        IF Len(t) = 4 THEN {t[4].body} ELSE {},
        IF pc["server"] \in {"finished", "verified"} THEN {ServerFinished.body} ELSE {},
        IF pc["client"] = "sleep" THEN {ClientFinished.body} ELSE {}}

\* What may become of a message: it does not decode, its JSON value does not end,
\* it is another Hello, or the ciphertext in it is damaged or another one.
Changed(m) ==
  {[m EXCEPT !.type = t] : t \in {"none", "unfinished"}} \cup
  CASE m.type \in {"ClientHello", "ServerHello"} ->
         {[m EXCEPT !.rest = 1], [m EXCEPT !.key = "other key"], [m EXCEPT !.key = "invalid"]}
    [] m.type \in {"Certificate", "CertificateVerify", "Finished"} ->
         {[m EXCEPT !.body = b] : b \in Ciphertexts \cup {[m.body EXCEPT !.under = {}]}}
    [] OTHER -> {}

Noise ==
  /\ run = "running"
  /\ noise < MaxNoise
  /\ \E e \in Ends : \E i \in 1..Len(wire[e]) : \E m \in Changed(wire[e][i]) :
       wire' = [wire EXCEPT ![e][i] = m]
  /\ noise' = noise + 1
  /\ UNCHANGED <<run, listening, pc, conn, secret, transcript, finished>>

-----------------------------------------------------------------------------

ServerNext ==
  \/ Listen \/ Accept \/ ReceiveClientHello \/ SendServerHello \/ ServerDerive
  \/ SendCertificate \/ SendCertVerify \/ SendServerFinished
  \/ ReceiveClientFinished

ClientNext ==
  \/ HandleCSR \/ Dial \/ SendClientHello \/ ReceiveServerHello \/ ClientDerive
  \/ ReceiveCertificate \/ ReceiveCertVerify \/ ReceiveServerFinished
  \/ SendClientFinished \/ Return

Next == ServerNext \/ ClientNext \/ Fatal \/ Break \/ Noise

Spec == Init /\ [][Next]_vars

(***************************************************************************)
(* Fairness.  Both goroutines run when they can, and a call that cannot    *)
(* succeed returns its error: a Decode whose connection is broken with     *)
(* nothing left to read but part of a value, or whose message is complete  *)
(* and not the one it wants, and NewPublicKey or ECDH of an invalid key.   *)
(* A Decode of a value that does not end owes nothing while the connection *)
(* is up: no read has a deadline.                                          *)
(***************************************************************************)
Waiting(e) ==
  pc[e] \in {"clientHello", "serverHello", "certificate", "certVerify", "finished"}

Unfinished(e) == wire[e] # <<>> /\ Head(wire[e]).type = "unfinished"

Failed(e) ==
  \/ Waiting(e) /\ (wire[e] = <<>> \/ Unfinished(e)) /\ conn = "broken"
  \/ Waiting(e) /\ wire[e] # <<>> /\ ~Unfinished(e) /\ ~Accepts(e, Head(wire[e]))
  \/ pc[e] = "derive" /\ PeerKey(e) \notin ValidKeys

Fairness ==
  /\ WF_vars(ServerNext)
  /\ WF_vars(ClientNext)
  /\ \A e \in Ends : WF_vars(Failed(e) /\ Fatal)

FairSpec == Spec /\ Fairness

-----------------------------------------------------------------------------
(* Properties.                                                             *)

\* Each variable holds what its declaration says, and no secret was computed
\* from a key that NewPublicKey or ECDH refuses.
TypeOK ==
  /\ run \in {"running", "fatal", "returned"}
  /\ listening \in BOOLEAN
  /\ pc["client"] \in ClientStates /\ pc["server"] \in ServerStates
  /\ conn \in {"none", "open", "broken"}
  /\ \A e \in Ends :
       /\ Len(wire[e]) <= 4 /\ Len(transcript[e]) <= 4
       /\ secret[e] \subseteq ValidKeys
       /\ finished[e] \in {"none", "equal", "different"}
  /\ noise \in 0..MaxNoise

View(e) == [secret |-> secret[e], transcript |-> transcript[e]]

\* By the time an end has a Finished in hand that opens, the two have one secret
\* and one transcript, and what the server opens is what it expects.  The client
\* may open another ciphertext of the server's in place of the Finished, and does
\* not stop over it (fatal of a nil error returns), so it matters that whatever
\* changed on the way was caught by CertificateVerify before.
FinishedComesOfOneView ==
  /\ (\E e \in Ends : finished[e] # "none") => View("client") = View("server")
  /\ finished["server"] # "different"

NoSession == [secret |-> {}, transcript |-> <<>>]
Concluded(e) ==
  pc[e] \in (IF e = "client" THEN {"sendFinished", "sleep"} ELSE {"verified"})

Ag == INSTANCE Agreement WITH
  offer     <- IF pc["server"] \in {"finished", "verified"}
               THEN View("server") ELSE NoSession,
  concluded <- [e \in Ends |-> IF Concluded(e) THEN View(e) ELSE NoSession],
  over      <- run # "running"

\* Both ends conclude with the secret and the transcript the server had when it
\* sent its Finished, the client first: whatever changes on the way, the two
\* never come out of the handshake with different views of it.
AgreementSpec == Ag!Spec

\* In Decode, on a connection that is up, in the middle of a value.
Stalled(e) == Waiting(e) /\ Unfinished(e) /\ conn # "broken"

\* Waiting for the other end on a connection that is up, or done.
Blocked(e) ==
  \/ Waiting(e) /\ wire[e] = <<>> /\ conn # "broken"
  \/ Stalled(e)
  \/ pc[e] = "accept" /\ conn = "none"
  \/ pc[e] = "verified"

\* The two ends wait for each other only over a value that does not end: while the
\* client blocks in Decode on a connection that is up and empty, the server is
\* between two messages and about to write, or in the middle of a ClientHello.  No
\* read has a deadline, so nothing else would wake either.
NobodyWaitsInVain ==
  Blocked("client") /\ Blocked("server") => \E e \in Ends : Stalled(e)

\* The process ends, unless an end is left for good in the middle of a value: every
\* other call that cannot succeed is Fatal, and the client does not wait for the
\* server once it has sent its Finished.
Terminates == <>(run # "running") \/ <>[](\E e \in Ends : Stalled(e))
=============================================================================
