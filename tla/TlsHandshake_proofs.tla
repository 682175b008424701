------------------------ MODULE TlsHandshake_proofs ------------------------
(***************************************************************************)
(* Proofs about TlsHandshake, for any number of changes on the way.        *)
(*                                                                         *)
(* What the server appends to its transcript follows from the ClientHello  *)
(* c it took, and what it seals names that transcript.  So the client, once *)
(* the signature in CertificateVerify holds, knows that c is the Hello it  *)
(* sent and that the ServerHello it took is the one that was sent: of all  *)
(* that the server seals only one is a signature, whichever message it     *)
(* comes in.                                                               *)
(***************************************************************************)
EXTENDS TlsHandshake, SequenceTheorems, TLAPS

Hellos == [type : {"ClientHello", "ServerHello", "none", "unfinished"},
           key : Keys, rest : {0, 1}]

\* What the server signs, its CertificateVerify, and its whole transcript.
Signed(c) == <<c, ServerHello, ServerCert>>
CertVerify(c) ==
  Sealed("CertificateVerify", "server", {PublicKey("server"), c.key},
         Signature("serverKey", Signed(c)))
Full(c) == <<c, ServerHello, ServerCert, CertVerify(c)>>

Plains ==
  {ServerCert} \cup {Signature("serverKey", Signed(c)) : c \in Hellos}
    \cup {VerifyData(s, Full(c)) : s \in SUBSET ValidKeys, c \in Hellos}
Bodies == [writer : Ends, under : SUBSET ValidKeys, plain : Plains]
Sealeds ==
  [type : {"Certificate", "CertificateVerify", "Finished", "none", "unfinished"},
   body : Bodies]
Messages == Hellos \cup Sealeds

OnWire(e) == {wire[e][i] : i \in 1..Len(wire[e])}

-----------------------------------------------------------------------------
(* The inductive invariant.                                                *)

Types ==
  /\ run \in {"running", "fatal", "returned"}
  /\ listening \in BOOLEAN
  /\ pc \in [Ends -> ClientStates \cup ServerStates]
  /\ pc["client"] \in ClientStates /\ pc["server"] \in ServerStates
  /\ conn \in {"none", "open", "broken"}
  /\ wire \in [Ends -> Seq(Messages)]
  /\ secret \in [Ends -> SUBSET ValidKeys]
  /\ transcript \in [Ends -> Seq(Messages \cup {ServerCert})]
  /\ finished \in [Ends -> {"none", "equal", "different"}]
  /\ noise \in 0..MaxNoise

\* How many messages an end has sent by the time it is at p.
ServerSent(p) ==
  IF p \in {"accept", "clientHello", "hello"} THEN 0
  ELSE IF p \in {"derive", "sendCertificate"} THEN 1
  ELSE IF p = "sendCertVerify" THEN 2
  ELSE IF p = "sendFinished" THEN 3 ELSE 4
ClientSent(p) ==
  IF p \in {"csr", "dial", "hello"} THEN 0 ELSE IF p = "sleep" THEN 2 ELSE 1

WireIsShort ==
  /\ Len(wire["client"]) <= ServerSent(pc["server"])
  /\ Len(wire["server"]) <= ClientSent(pc["client"])

\* The server has signed and sent its CertificateVerify.
HasSigned == pc["server"] \in {"sendFinished", "finished", "verified"}

\* The server's transcript and secret, by where it is.
ServerPart ==
  LET p == pc["server"]
      t == transcript["server"]
  IN  /\ p \in {"accept", "clientHello"} => t = <<>>
      /\ p = "hello" => t = <<t[1]>>
      /\ p \in {"derive", "sendCertificate"} => t = <<t[1], ServerHello>>
      /\ p = "sendCertVerify" => t = Signed(t[1])
      /\ HasSigned => t = Full(t[1])
      /\ p \notin {"accept", "clientHello"} => t[1] \in Hellos
      /\ p \in {"accept", "clientHello", "hello", "derive"} => secret["server"] = {}
      /\ p \notin {"accept", "clientHello", "hello", "derive"} =>
           secret["server"] = {PublicKey("server"), t[1].key}

\* The client's, until the signature holds; from then on both have the same.
ClientPart ==
  LET p == pc["client"]
      t == transcript["client"]
  IN  /\ p \in {"csr", "dial", "hello"} => t = <<>>
      /\ p = "serverHello" => t = <<ClientHello>>
      /\ p \in {"derive", "certificate"} => t = <<ClientHello, t[2]>> /\ t[2] \in Hellos
      /\ p = "certVerify" => t = <<ClientHello, t[2], ServerCert>>
      /\ p \in {"csr", "dial", "hello", "serverHello", "derive"} => secret["client"] = {}
      /\ p \in {"certificate", "certVerify"} => secret["client"] # {}
      /\ p \in {"finished", "sendFinished", "sleep"} =>
           HasSigned /\ View("client") = View("server")
      /\ p \in {"sendFinished", "sleep"} => pc["server"] \in {"finished", "verified"}
      /\ pc["server"] = "verified" => p = "sleep"

\* A ciphertext that opens is one of the four that were sealed, whichever message
\* it is in; there is one signature among them.
Genuine(b) ==
  \/ b.under = {}
  \/ /\ b.writer = "server"
     /\ \/ b.plain = ServerCert
        \/ HasSigned /\ b = transcript["server"][4].body
        \/ b.plain.kind = "mac"
  \/ /\ b.writer = "client" /\ pc["client"] = "sleep"
     /\ b.plain = VerifyData(secret["client"], transcript["client"])

\* What is on its way, changed or not.
ToClient(m) ==
  /\ m.type = "ServerHello" => m \in Hellos
  /\ m.type = "Certificate" => Genuine(m.body)
  /\ m.type = "CertificateVerify" => HasSigned /\ Genuine(m.body)
  /\ m.type = "Finished" => pc["server"] \in {"finished", "verified"} /\ Genuine(m.body)
ToServer(m) ==
  /\ m.type = "ClientHello" => m \in Hellos
  /\ m.type = "Finished" => pc["client"] = "sleep" /\ Genuine(m.body)
WirePart ==
  /\ \A m \in OnWire("client") : ToClient(m)
  /\ \A m \in OnWire("server") : ToServer(m)

\* How the Finished compared, by where the ends are.
FinishedPart ==
  /\ finished["client"] # "none" => pc["client"] \in {"sendFinished", "sleep"}
  /\ finished["server"] # "none" => pc["server"] = "verified"
  /\ finished["server"] # "different"

IInv ==
  /\ Types
  /\ WireIsShort
  /\ ServerPart
  /\ ClientPart
  /\ WirePart
  /\ FinishedPart

-----------------------------------------------------------------------------
(* Appending to a tuple of known length.                                   *)

LEMMA SameTuple ==
  ASSUME NEW S, NEW s \in Seq(S), NEW t \in Seq(S), Len(s) = Len(t),
         \A i \in 1..Len(s) : s[i] = t[i]
  PROVE  s = t
  BY SeqEqual

LEMMA AppendFacts ==
  ASSUME NEW S, NEW s \in Seq(S), NEW x \in S
  PROVE  /\ Append(s, x) \in Seq(S)
         /\ Len(Append(s, x)) = Len(s) + 1
         /\ \A i \in 1..Len(s) : Append(s, x)[i] = s[i]
         /\ Append(s, x)[Len(s) + 1] = x
  BY AppendProperties

LEMMA AppendToNone ==
  ASSUME NEW a
  PROVE  Append(<<>>, a) = <<a>>
  OBVIOUS

LEMMA AppendToOne ==
  ASSUME NEW a, NEW b
  PROVE  Append(<<a>>, b) = <<a, b>>
<1> DEFINE S == {a, b}
           s == <<a>>
           t == <<a, b>>
<1>1. s \in Seq(S) /\ Len(s) = 1 /\ b \in S
  OBVIOUS
<1>2. s[1] = a
  OBVIOUS
<1>3. t \in Seq(S) /\ Len(t) = 2
  OBVIOUS
<1>4. t[1] = a /\ t[2] = b
  OBVIOUS
<1> HIDE DEF s, t, S
<1>5. /\ Append(s, b) \in Seq(S)
      /\ Len(Append(s, b)) = Len(s) + 1
      /\ \A i \in 1..Len(s) : Append(s, b)[i] = s[i]
      /\ Append(s, b)[Len(s) + 1] = b
  BY <1>1, AppendFacts
<1>6. ASSUME NEW i \in 1..Len(t) PROVE Append(s, b)[i] = t[i]
  <2>1. i = 1 \/ i = 2
    BY <1>3
  <2>2. CASE i = 1
    BY <2>2, <1>1, <1>2, <1>4, <1>5
  <2>3. CASE i = 2
    BY <2>3, <1>1, <1>4, <1>5
  <2> QED
    BY <2>1, <2>2, <2>3
<1>7. Append(s, b) = t
  BY <1>1, <1>3, <1>5, <1>6, SameTuple
<1> QED
  BY <1>7 DEF s, t

LEMMA AppendToTwo ==
  ASSUME NEW a, NEW b, NEW c
  PROVE  Append(<<a, b>>, c) = <<a, b, c>>
<1> DEFINE S == {a, b, c}
           s == <<a, b>>
           t == <<a, b, c>>
<1>1. s \in Seq(S) /\ Len(s) = 2 /\ c \in S
  OBVIOUS
<1>2. s[1] = a /\ s[2] = b
  OBVIOUS
<1>3. t \in Seq(S) /\ Len(t) = 3
  OBVIOUS
<1>4. t[1] = a /\ t[2] = b /\ t[3] = c
  OBVIOUS
<1> HIDE DEF s, t, S
<1>5. /\ Append(s, c) \in Seq(S)
      /\ Len(Append(s, c)) = Len(s) + 1
      /\ \A i \in 1..Len(s) : Append(s, c)[i] = s[i]
      /\ Append(s, c)[Len(s) + 1] = c
  BY <1>1, AppendFacts
<1>6. ASSUME NEW i \in 1..Len(t) PROVE Append(s, c)[i] = t[i]
  <2>1. i = 1 \/ i = 2 \/ i = 3
    BY <1>3
  <2>2. CASE i = 1
    BY <2>2, <1>1, <1>2, <1>4, <1>5
  <2>3. CASE i = 2
    BY <2>3, <1>1, <1>2, <1>4, <1>5
  <2>4. CASE i = 3
    BY <2>4, <1>1, <1>4, <1>5
  <2> QED
    BY <2>1, <2>2, <2>3, <2>4
<1>7. Append(s, c) = t
  BY <1>1, <1>3, <1>5, <1>6, SameTuple
<1> QED
  BY <1>7 DEF s, t

LEMMA AppendToThree ==
  ASSUME NEW a, NEW b, NEW c, NEW d
  PROVE  Append(<<a, b, c>>, d) = <<a, b, c, d>>
<1> DEFINE S == {a, b, c, d}
           s == <<a, b, c>>
           t == <<a, b, c, d>>
<1>1. s \in Seq(S) /\ Len(s) = 3 /\ d \in S
  OBVIOUS
<1>2. s[1] = a /\ s[2] = b /\ s[3] = c
  OBVIOUS
<1>3. t \in Seq(S) /\ Len(t) = 4
  OBVIOUS
<1>4. t[1] = a /\ t[2] = b /\ t[3] = c /\ t[4] = d
  OBVIOUS
<1> HIDE DEF s, t, S
<1>5. /\ Append(s, d) \in Seq(S)
      /\ Len(Append(s, d)) = Len(s) + 1
      /\ \A i \in 1..Len(s) : Append(s, d)[i] = s[i]
      /\ Append(s, d)[Len(s) + 1] = d
  BY <1>1, AppendFacts
<1>6. ASSUME NEW i \in 1..Len(t) PROVE Append(s, d)[i] = t[i]
  <2>1. i = 1 \/ i = 2 \/ i = 3 \/ i = 4
    BY <1>3
  <2>2. CASE i = 1
    BY <2>2, <1>1, <1>2, <1>4, <1>5
  <2>3. CASE i = 2
    BY <2>3, <1>1, <1>2, <1>4, <1>5
  <2>4. CASE i = 3
    BY <2>4, <1>1, <1>2, <1>4, <1>5
  <2>5. CASE i = 4
    BY <2>5, <1>1, <1>4, <1>5
  <2> QED
    BY <2>1, <2>2, <2>3, <2>4, <2>5
<1>7. Append(s, d) = t
  BY <1>1, <1>3, <1>5, <1>6, SameTuple
<1> QED
  BY <1>7 DEF s, t

-----------------------------------------------------------------------------
(* Messages and the wire.                                                  *)

LEMMA HelloIsMessage ==
  /\ ClientHello \in Hellos /\ ServerHello \in Hellos
  /\ ClientHello \in Messages /\ ServerHello \in Messages
BY DEF ClientHello, ServerHello, Hellos, Messages, PublicKey, Keys, ValidKeys

\* An end sends one message more, to the other end.
LEMMA SendLemma ==
  ASSUME Types, NEW e \in Ends, NEW m \in Messages, Send(e, m)
  PROVE  /\ wire' \in [Ends -> Seq(Messages)]
         /\ wire'[e] = wire[e]
         /\ Len(wire'[Other(e)]) <= Len(wire[Other(e)]) + 1
         /\ OnWire(e)' = OnWire(e)
         /\ OnWire(Other(e))' \subseteq OnWire(Other(e)) \cup {m}
<1> DEFINE o == Other(e)
<1>1. e \in Ends /\ o \in Ends /\ o # e
  BY DEF Ends, Other
<1>2. wire \in [Ends -> Seq(Messages)] /\ wire[o] \in Seq(Messages)
  BY <1>1 DEF Types
<1>3. CASE wire' = wire
  BY <1>2, <1>3 DEF OnWire
<1>4. CASE wire' = [wire EXCEPT ![o] = Append(@, m)]
  <2>1. wire'[o] = Append(wire[o], m) /\ wire'[e] = wire[e]
    BY <1>1, <1>2, <1>4
  <2>2. /\ Append(wire[o], m) \in Seq(Messages)
        /\ Len(Append(wire[o], m)) = Len(wire[o]) + 1
        /\ \A i \in 1..Len(wire[o]) : Append(wire[o], m)[i] = wire[o][i]
        /\ Append(wire[o], m)[Len(wire[o]) + 1] = m
    BY <1>2, AppendProperties
  <2>3. wire' \in [Ends -> Seq(Messages)]
    BY <1>1, <1>2, <1>4, <2>2
  <2>4. OnWire(e)' = OnWire(e)
    BY <2>1 DEF OnWire
  <2>5. OnWire(o)' \subseteq OnWire(o) \cup {m}
    <3>1. Len(wire[o]) \in Nat
      BY <1>2, LenProperties
    <3>2. ASSUME NEW i \in 1..Len(wire'[o])
          PROVE  wire'[o][i] \in OnWire(o) \cup {m}
      BY <2>1, <2>2, <3>1, <3>2 DEF OnWire
    <3> QED
      BY <3>2 DEF OnWire
  <2> QED
    BY <2>1, <2>2, <2>3, <2>4, <2>5, <1>2, LenProperties
<1> QED
  BY <1>3, <1>4 DEF Send

\* An end takes the first message, which it accepts.
LEMMA ReceiveLemma ==
  ASSUME Types, NEW e \in Ends, Receive(e)
  PROVE  /\ wire' \in [Ends -> Seq(Messages)]
         /\ wire'[Other(e)] = wire[Other(e)]
         /\ Len(wire'[e]) <= Len(wire[e])
         /\ OnWire(Other(e))' = OnWire(Other(e))
         /\ OnWire(e)' \subseteq OnWire(e)
         /\ Head(wire[e]) \in OnWire(e)
         /\ Head(wire[e]) \in Messages
         /\ Accepts(e, Head(wire[e]))
<1> DEFINE o == Other(e)
<1>1. e \in Ends /\ o \in Ends /\ o # e
  BY DEF Ends, Other
<1>2. wire \in [Ends -> Seq(Messages)] /\ wire[e] \in Seq(Messages) /\ wire[e] # <<>>
  BY <1>1 DEF Types, Receive
<1>3. wire'[e] = Tail(wire[e]) /\ wire'[o] = wire[o]
  BY <1>1, <1>2 DEF Receive
<1>4. /\ Head(wire[e]) \in Messages
      /\ Tail(wire[e]) \in Seq(Messages)
      /\ Len(Tail(wire[e])) = Len(wire[e]) - 1
      /\ \A i \in 1..Len(Tail(wire[e])) : Tail(wire[e])[i] = wire[e][i + 1]
  BY <1>2, HeadTailProperties
<1>5. Len(wire[e]) \in Nat /\ Len(wire[e]) # 0 /\ Head(wire[e]) = wire[e][1]
  BY <1>2, LenProperties, EmptySeq
<1>6. Head(wire[e]) \in OnWire(e)
  BY <1>5 DEF OnWire
<1>7. OnWire(e)' \subseteq OnWire(e)
  <2>1. ASSUME NEW i \in 1..Len(wire'[e]) PROVE wire'[e][i] \in OnWire(e)
    BY <1>3, <1>4, <1>5, <2>1 DEF OnWire
  <2> QED
    BY <2>1 DEF OnWire
<1>8. wire' \in [Ends -> Seq(Messages)]
  BY <1>1, <1>2, <1>4 DEF Receive
<1>9. OnWire(o)' = OnWire(o)
  BY <1>3 DEF OnWire
<1> QED
  BY <1>3, <1>4, <1>5, <1>6, <1>7, <1>8, <1>9 DEF Receive

LEMMA HashLemma ==
  ASSUME Types, NEW e \in Ends, NEW m \in Messages \cup {ServerCert}, Hash(e, m)
  PROVE  /\ transcript' \in [Ends -> Seq(Messages \cup {ServerCert})]
         /\ transcript'[e] = Append(transcript[e], m)
         /\ transcript'[Other(e)] = transcript[Other(e)]
<1>1. transcript[e] \in Seq(Messages \cup {ServerCert})
  BY DEF Types
<1>2. Append(transcript[e], m) \in Seq(Messages \cup {ServerCert})
  BY <1>1, AppendProperties
<1> QED
  BY <1>2 DEF Hash, Types, Ends, Other

LEMMA AtLemma ==
  ASSUME Types, NEW e \in Ends, NEW here, NEW there, At(e, here, there),
         there \in ClientStates \cup ServerStates
  PROVE  /\ pc' \in [Ends -> ClientStates \cup ServerStates]
         /\ pc[e] = here
         /\ pc'[e] = there
         /\ pc'[Other(e)] = pc[Other(e)]
         /\ UNCHANGED <<run, listening, conn, noise>>
  BY DEF At, Types, mainVars, Ends, Other

LEMMA BothEnds ==
  /\ "client" \in Ends /\ "server" \in Ends
  /\ Other("client") = "server" /\ Other("server") = "client"
  BY DEF Ends, Other

\* What was sealed, signed and sent remains so.
Kept ==
  /\ HasSigned => HasSigned' /\ transcript'["server"][4] = transcript["server"][4]
  /\ pc["server"] \in {"finished", "verified"} => pc'["server"] \in {"finished", "verified"}
  /\ pc["client"] = "sleep" =>
       /\ pc'["client"] = "sleep"
       /\ secret'["client"] = secret["client"]
       /\ transcript'["client"] = transcript["client"]

LEMMA KeptLemma ==
  ASSUME Kept, NEW x
  PROVE  (ToClient(x) => ToClient(x)') /\ (ToServer(x) => ToServer(x)')
<1>1. Genuine(x.body) => Genuine(x.body)'
  BY DEF Kept, Genuine
<1> QED
  BY <1>1 DEF Kept, ToClient, ToServer

\* What the wire carries, when each end is sent at most one message more.
LEMMA WireLemma ==
  ASSUME Kept, WirePart, NEW e \in Ends, NEW m,
         OnWire(e)' \subseteq OnWire(e) \cup {m},
         OnWire(Other(e))' \subseteq OnWire(Other(e)),
         IF e = "client" THEN ToClient(m)' ELSE ToServer(m)'
  PROVE  WirePart'
<1>1. ASSUME NEW x PROVE (ToClient(x) => ToClient(x)') /\ (ToServer(x) => ToServer(x)')
  BY KeptLemma
<1>2. CASE e = "client"
  BY <1>1, <1>2 DEF WirePart, Other
<1>3. CASE e = "server"
  BY <1>1, <1>3 DEF WirePart, Other
<1> QED
  BY <1>2, <1>3 DEF Ends

LEMMA WireKept ==
  ASSUME Kept, WirePart,
         OnWire("client")' \subseteq OnWire("client"),
         OnWire("server")' \subseteq OnWire("server")
  PROVE  WirePart'
<1>1. ASSUME NEW x PROVE (ToClient(x) => ToClient(x)') /\ (ToServer(x) => ToServer(x)')
  BY KeptLemma
<1> QED
  BY <1>1 DEF WirePart

-----------------------------------------------------------------------------
(* One lemma for each action of the server.                                *)

LEMMA SignatureIsThere ==
  ASSUME IInv, HasSigned
  PROVE  /\ transcript["server"] = Full(transcript["server"][1])
         /\ transcript["server"][1] \in Hellos
         /\ transcript["server"][4] = CertVerify(transcript["server"][1])
         /\ transcript["server"][4].body.plain.kind = "signature"
<1> DEFINE c == transcript["server"][1]
<1>1. transcript["server"] = Full(c) /\ c \in Hellos
  BY DEF IInv, ServerPart, HasSigned
<1>2. Full(c)[4] = CertVerify(c)
  BY DEF Full
<1>3. CertVerify(c).body.plain.kind = "signature"
  BY DEF CertVerify, Sealed, Seal, Signature
<1> QED
  BY <1>1, <1>2, <1>3

LEMMA AcceptIInv == IInv /\ Accept => IInv'
<1> SUFFICES ASSUME IInv, Accept PROVE IInv'
  OBVIOUS
<1>1. /\ pc' \in [Ends -> ClientStates \cup ServerStates]
      /\ pc["server"] = "accept" /\ pc'["server"] = "clientHello"
      /\ pc'["client"] = pc["client"]
      /\ UNCHANGED <<run, listening, conn, noise, wire, secret, transcript, finished>>
  BY AtLemma, BothEnds DEF Accept, IInv, ServerStates
<1>2. Types'
  BY <1>1 DEF IInv, Types, ServerStates
<1>3. WireIsShort'
  BY <1>1 DEF IInv, WireIsShort, ServerSent, ClientSent
<1>4. ServerPart'
  BY <1>1 DEF IInv, ServerPart, HasSigned
<1>5. ClientPart'
  BY <1>1 DEF IInv, ClientPart, HasSigned, View
<1>6. WirePart'
  <2>1. Kept
    BY <1>1 DEF Kept, HasSigned
  <2>2. OnWire("client")' = OnWire("client") /\ OnWire("server")' = OnWire("server")
    BY <1>1 DEF OnWire
  <2> QED
    BY <2>1, <2>2, WireKept DEF IInv
<1>7. FinishedPart'
  BY <1>1 DEF IInv, FinishedPart
<1> QED
  BY <1>2, <1>3, <1>4, <1>5, <1>6, <1>7 DEF IInv

LEMMA ReceiveClientHelloIInv == IInv /\ ReceiveClientHello => IInv'
<1> SUFFICES ASSUME IInv, ReceiveClientHello PROVE IInv'
  OBVIOUS
<1> DEFINE h == Head(wire["server"])
<1>1. /\ pc' \in [Ends -> ClientStates \cup ServerStates]
      /\ pc["server"] = "clientHello" /\ pc'["server"] = "hello"
      /\ pc'["client"] = pc["client"]
      /\ UNCHANGED <<run, listening, conn, noise, secret, finished>>
  BY AtLemma, BothEnds DEF ReceiveClientHello, IInv, ServerStates
<1>2. /\ wire' \in [Ends -> Seq(Messages)]
      /\ wire'["client"] = wire["client"]
      /\ Len(wire'["server"]) <= Len(wire["server"])
      /\ OnWire("client")' = OnWire("client")
      /\ OnWire("server")' \subseteq OnWire("server")
      /\ h \in OnWire("server") /\ h \in Messages /\ Accepts("server", h)
  BY ReceiveLemma, BothEnds DEF ReceiveClientHello, IInv
<1>3. h \in Hellos
  BY <1>1, <1>2 DEF Accepts, IInv, WirePart, ToServer
<1>4. /\ transcript' \in [Ends -> Seq(Messages \cup {ServerCert})]
      /\ transcript'["server"] = <<h>>
      /\ transcript'["client"] = transcript["client"]
  BY <1>1, <1>2, HashLemma, BothEnds, AppendToNone
     DEF ReceiveClientHello, IInv, ServerPart
<1>5. Types'
  BY <1>1, <1>2, <1>4 DEF IInv, Types, ServerStates
<1>6. WireIsShort'
  BY <1>1, <1>2, BothEnds, LenProperties DEF IInv, Types, WireIsShort, ServerSent, ClientSent
<1>7. ServerPart'
  BY <1>1, <1>3, <1>4 DEF IInv, ServerPart, HasSigned
<1>8. ClientPart'
  BY <1>1, <1>4 DEF IInv, ClientPart, HasSigned
<1>9. WirePart'
  <2>1. Kept
    BY <1>1, <1>4 DEF Kept, HasSigned
  <2> QED
    BY <2>1, <1>2, WireKept DEF IInv
<1>10. FinishedPart'
  BY <1>1 DEF IInv, FinishedPart
<1> QED
  BY <1>5, <1>6, <1>7, <1>8, <1>9, <1>10 DEF IInv

LEMMA SendServerHelloIInv == IInv /\ SendServerHello => IInv'
<1> SUFFICES ASSUME IInv, SendServerHello PROVE IInv'
  OBVIOUS
<1>1. /\ pc' \in [Ends -> ClientStates \cup ServerStates]
      /\ pc["server"] = "hello" /\ pc'["server"] = "derive"
      /\ pc'["client"] = pc["client"]
      /\ UNCHANGED <<run, listening, conn, noise, secret, finished>>
  BY AtLemma, BothEnds DEF SendServerHello, IInv, ServerStates
<1>2. /\ wire' \in [Ends -> Seq(Messages)]
      /\ wire'["server"] = wire["server"]
      /\ Len(wire'["client"]) <= Len(wire["client"]) + 1
      /\ OnWire("server")' = OnWire("server")
      /\ OnWire("client")' \subseteq OnWire("client") \cup {ServerHello}
  BY SendLemma, BothEnds, HelloIsMessage DEF SendServerHello, IInv
<1>3. /\ transcript' \in [Ends -> Seq(Messages \cup {ServerCert})]
      /\ transcript'["server"] = <<transcript["server"][1], ServerHello>>
      /\ transcript'["client"] = transcript["client"]
  <2>1. /\ transcript' \in [Ends -> Seq(Messages \cup {ServerCert})]
        /\ transcript'["server"] = Append(transcript["server"], ServerHello)
        /\ transcript'["client"] = transcript["client"]
    BY HashLemma, BothEnds, HelloIsMessage DEF SendServerHello, IInv
  <2>2. transcript["server"] = <<transcript["server"][1]>>
    BY <1>1 DEF IInv, ServerPart
  <2> QED
    BY <2>1, <2>2, AppendToOne
<1>4. Types'
  BY <1>1, <1>2, <1>3 DEF IInv, Types, ServerStates
<1>5. WireIsShort'
  BY <1>1, <1>2, BothEnds, LenProperties DEF IInv, Types, WireIsShort, ServerSent, ClientSent
<1>6. ServerPart'
  BY <1>1, <1>3 DEF IInv, ServerPart, HasSigned
<1>7. ClientPart'
  BY <1>1, <1>3 DEF IInv, ClientPart, HasSigned
<1>8. WirePart'
  <2>1. Kept
    BY <1>1, <1>3 DEF Kept, HasSigned
  <2>2. ASSUME NEW x, x = ServerHello PROVE ToClient(x)'
    BY HelloIsMessage, <2>2 DEF ToClient, ServerHello
  <2> QED
    BY <2>1, <2>2, <1>2, WireLemma, BothEnds DEF IInv
<1>9. FinishedPart'
  BY <1>1 DEF IInv, FinishedPart
<1> QED
  BY <1>4, <1>5, <1>6, <1>7, <1>8, <1>9 DEF IInv

LEMMA ServerDeriveIInv == IInv /\ ServerDerive => IInv'
<1> SUFFICES ASSUME IInv, ServerDerive PROVE IInv'
  OBVIOUS
<1>1. /\ pc' \in [Ends -> ClientStates \cup ServerStates]
      /\ pc["server"] = "derive" /\ pc'["server"] = "sendCertificate"
      /\ pc'["client"] = pc["client"]
      /\ UNCHANGED <<run, listening, conn, noise, wire, transcript, finished>>
  BY AtLemma, BothEnds DEF ServerDerive, Derive, IInv, ServerStates
<1>2. /\ secret' \in [Ends -> SUBSET ValidKeys]
      /\ secret'["server"] = {PublicKey("server"), transcript["server"][1].key}
      /\ secret'["client"] = secret["client"]
  BY BothEnds DEF ServerDerive, Derive, PeerKey, PublicKey, ValidKeys, IInv, Types
<1>3. Types'
  BY <1>1, <1>2 DEF IInv, Types, ServerStates
<1>4. WireIsShort'
  BY <1>1 DEF IInv, WireIsShort, ServerSent, ClientSent
<1>5. ServerPart'
  BY <1>1, <1>2 DEF IInv, ServerPart, HasSigned
<1>6. ClientPart'
  BY <1>1, <1>2 DEF IInv, ClientPart, HasSigned
<1>7. WirePart'
  <2>1. Kept
    BY <1>1, <1>2 DEF Kept, HasSigned
  <2>2. OnWire("client")' = OnWire("client") /\ OnWire("server")' = OnWire("server")
    BY <1>1 DEF OnWire
  <2> QED
    BY <2>1, <2>2, WireKept DEF IInv
<1>8. FinishedPart'
  BY <1>1 DEF IInv, FinishedPart
<1> QED
  BY <1>3, <1>4, <1>5, <1>6, <1>7, <1>8 DEF IInv

LEMMA SendCertificateIInv == IInv /\ SendCertificate => IInv'
<1> SUFFICES ASSUME IInv, SendCertificate PROVE IInv'
  OBVIOUS
<1> DEFINE m == Sealed("Certificate", "server", secret["server"], ServerCert)
<1>1. /\ pc' \in [Ends -> ClientStates \cup ServerStates]
      /\ pc["server"] = "sendCertificate" /\ pc'["server"] = "sendCertVerify"
      /\ pc'["client"] = pc["client"]
      /\ UNCHANGED <<run, listening, conn, noise, secret, finished>>
  BY AtLemma, BothEnds DEF SendCertificate, IInv, ServerStates
<1>2. m \in Messages
  BY BothEnds DEF Sealed, Seal, Messages, Sealeds, Bodies, Plains, IInv, Types
<1>3. /\ wire' \in [Ends -> Seq(Messages)]
      /\ wire'["server"] = wire["server"]
      /\ Len(wire'["client"]) <= Len(wire["client"]) + 1
      /\ OnWire("server")' = OnWire("server")
      /\ OnWire("client")' \subseteq OnWire("client") \cup {m}
  BY <1>2, SendLemma, BothEnds DEF SendCertificate, IInv
<1>4. /\ transcript' \in [Ends -> Seq(Messages \cup {ServerCert})]
      /\ transcript'["server"] = Signed(transcript["server"][1])
      /\ transcript'["client"] = transcript["client"]
  <2>1. /\ transcript' \in [Ends -> Seq(Messages \cup {ServerCert})]
        /\ transcript'["server"] = Append(transcript["server"], ServerCert)
        /\ transcript'["client"] = transcript["client"]
    BY HashLemma, BothEnds DEF SendCertificate, IInv
  <2>2. transcript["server"] = <<transcript["server"][1], ServerHello>>
    BY <1>1 DEF IInv, ServerPart
  <2>3. Append(<<transcript["server"][1], ServerHello>>, ServerCert)
          = <<transcript["server"][1], ServerHello, ServerCert>>
    BY AppendToTwo
  <2> QED
    BY <2>1, <2>2, <2>3 DEF Signed
<1>5. transcript'["server"][1] = transcript["server"][1]
  BY <1>4 DEF Signed
<1>6. Types'
  BY <1>1, <1>3, <1>4 DEF IInv, Types, ServerStates
<1>7. WireIsShort'
  BY <1>1, <1>3, BothEnds, LenProperties DEF IInv, Types, WireIsShort, ServerSent, ClientSent
<1>8. ServerPart'
  BY <1>1, <1>4, <1>5 DEF IInv, ServerPart, HasSigned
<1>9. ClientPart'
  BY <1>1, <1>4 DEF IInv, ClientPart, HasSigned
<1>10. WirePart'
  <2>1. Kept
    BY <1>1, <1>4 DEF Kept, HasSigned
  <2>2. ASSUME NEW x, x = m PROVE ToClient(x)'
    BY <2>2 DEF ToClient, Sealed, Seal, Genuine
  <2> QED
    BY <2>1, <2>2, <1>3, WireLemma, BothEnds DEF IInv
<1>11. FinishedPart'
  BY <1>1 DEF IInv, FinishedPart
<1> QED
  BY <1>6, <1>7, <1>8, <1>9, <1>10, <1>11 DEF IInv

LEMMA SendCertVerifyIInv == IInv /\ SendCertVerify => IInv'
<1> SUFFICES ASSUME IInv, SendCertVerify PROVE IInv'
  OBVIOUS
<1> DEFINE c == transcript["server"][1]
<1>1. /\ pc' \in [Ends -> ClientStates \cup ServerStates]
      /\ pc["server"] = "sendCertVerify" /\ pc'["server"] = "sendFinished"
      /\ pc'["client"] = pc["client"]
      /\ UNCHANGED <<run, listening, conn, noise, secret, finished>>
  BY AtLemma, BothEnds DEF SendCertVerify, IInv, ServerStates
<1>2. /\ transcript["server"] = Signed(c) /\ c \in Hellos
      /\ secret["server"] = {PublicKey("server"), c.key}
  BY <1>1 DEF IInv, ServerPart
<1>3. Send("server", CertVerify(c)) /\ Hash("server", CertVerify(c))
  BY <1>2 DEF SendCertVerify, CertVerify
<1>4. CertVerify(c) \in Messages
  <2>1. secret["server"] \in SUBSET ValidKeys
    BY BothEnds DEF IInv, Types
  <2> QED
    BY <2>1, <1>2, BothEnds DEF CertVerify, Sealed, Seal, Messages, Sealeds, Bodies, Plains
<1>5. /\ wire' \in [Ends -> Seq(Messages)]
      /\ wire'["server"] = wire["server"]
      /\ Len(wire'["client"]) <= Len(wire["client"]) + 1
      /\ OnWire("server")' = OnWire("server")
      /\ OnWire("client")' \subseteq OnWire("client") \cup {CertVerify(c)}
  BY <1>3, <1>4, SendLemma, BothEnds DEF IInv
<1>6. /\ transcript' \in [Ends -> Seq(Messages \cup {ServerCert})]
      /\ transcript'["server"] = Full(c)
      /\ transcript'["client"] = transcript["client"]
  <2>1. /\ transcript' \in [Ends -> Seq(Messages \cup {ServerCert})]
        /\ transcript'["server"] = Append(transcript["server"], CertVerify(c))
        /\ transcript'["client"] = transcript["client"]
    BY <1>3, <1>4, HashLemma, BothEnds DEF IInv
  <2>2. Append(<<c, ServerHello, ServerCert>>, CertVerify(c)) = Full(c)
    BY AppendToThree DEF Full
  <2> QED
    BY <2>1, <2>2, <1>2 DEF Signed
<1>7. transcript'["server"][1] = c /\ transcript'["server"][4] = CertVerify(c)
  BY <1>6 DEF Full
<1>8. Types'
  BY <1>1, <1>5, <1>6 DEF IInv, Types, ServerStates
<1>9. WireIsShort'
  BY <1>1, <1>5, BothEnds, LenProperties DEF IInv, Types, WireIsShort, ServerSent, ClientSent
<1>10. ServerPart'
  BY <1>1, <1>2, <1>6, <1>7 DEF ServerPart, HasSigned
<1>11. ClientPart'
  BY <1>1, <1>6 DEF IInv, ClientPart, HasSigned
<1>12. WirePart'
  <2>1. Kept
    BY <1>1, <1>6 DEF Kept, HasSigned
  <2>2. ASSUME NEW x, x = CertVerify(c) PROVE ToClient(x)'
    BY <1>1, <1>7, <2>2 DEF ToClient, CertVerify, Sealed, Seal, Genuine, HasSigned
  <2> QED
    BY <2>1, <2>2, <1>5, WireLemma, BothEnds DEF IInv
<1>13. FinishedPart'
  BY <1>1 DEF IInv, FinishedPart
<1> QED
  BY <1>8, <1>9, <1>10, <1>11, <1>12, <1>13 DEF IInv

LEMMA SendServerFinishedIInv == IInv /\ SendServerFinished => IInv'
<1> SUFFICES ASSUME IInv, SendServerFinished PROVE IInv'
  OBVIOUS
<1>1. /\ pc' \in [Ends -> ClientStates \cup ServerStates]
      /\ pc["server"] = "sendFinished" /\ pc'["server"] = "finished"
      /\ pc'["client"] = pc["client"]
      /\ UNCHANGED <<run, listening, conn, noise, secret, transcript, finished>>
  BY AtLemma, BothEnds DEF SendServerFinished, IInv, ServerStates
<1>2. ServerFinished \in Messages
  <2>1. secret["server"] \in SUBSET ValidKeys
    BY BothEnds DEF IInv, Types
  <2>2. \E c \in Hellos : transcript["server"] = Full(c)
    BY <1>1 DEF IInv, ServerPart, HasSigned
  <2>3. VerifyData(secret["server"], transcript["server"]) \in Plains
    BY <2>1, <2>2 DEF Plains
  <2> QED
    BY <2>1, <2>3, BothEnds DEF ServerFinished, Sealed, Seal, Messages, Sealeds, Bodies
<1>3. /\ wire' \in [Ends -> Seq(Messages)]
      /\ wire'["server"] = wire["server"]
      /\ Len(wire'["client"]) <= Len(wire["client"]) + 1
      /\ OnWire("server")' = OnWire("server")
      /\ OnWire("client")' \subseteq OnWire("client") \cup {ServerFinished}
  BY <1>2, SendLemma, BothEnds DEF SendServerFinished, IInv
<1>4. Types'
  BY <1>1, <1>3 DEF IInv, Types, ServerStates
<1>5. WireIsShort'
  BY <1>1, <1>3, BothEnds, LenProperties DEF IInv, Types, WireIsShort, ServerSent, ClientSent
<1>6. ServerPart'
  BY <1>1 DEF IInv, ServerPart, HasSigned
<1>7. ClientPart'
  BY <1>1 DEF IInv, ClientPart, HasSigned, View
<1>8. WirePart'
  <2>1. Kept
    BY <1>1 DEF Kept, HasSigned
  <2>2. ASSUME NEW x, x = ServerFinished PROVE ToClient(x)'
    BY <1>1, <2>2 DEF ToClient, ServerFinished, Sealed, Seal, VerifyData, Genuine
  <2> QED
    BY <2>1, <2>2, <1>3, WireLemma, BothEnds DEF IInv
<1>9. FinishedPart'
  BY <1>1 DEF IInv, FinishedPart
<1> QED
  BY <1>4, <1>5, <1>6, <1>7, <1>8, <1>9 DEF IInv

LEMMA ReceiveClientFinishedIInv == IInv /\ ReceiveClientFinished => IInv'
<1> SUFFICES ASSUME IInv, ReceiveClientFinished PROVE IInv'
  OBVIOUS
<1> DEFINE m == Head(wire["server"])
<1>1. /\ pc' \in [Ends -> ClientStates \cup ServerStates]
      /\ pc["server"] = "finished" /\ pc'["server"] = "verified"
      /\ pc'["client"] = pc["client"]
      /\ UNCHANGED <<run, listening, conn, noise, secret, transcript>>
  BY AtLemma, BothEnds DEF ReceiveClientFinished, IInv, ServerStates
<1>2. /\ wire' \in [Ends -> Seq(Messages)]
      /\ wire'["client"] = wire["client"]
      /\ Len(wire'["server"]) <= Len(wire["server"])
      /\ OnWire("client")' = OnWire("client")
      /\ OnWire("server")' \subseteq OnWire("server")
      /\ m \in OnWire("server") /\ Accepts("server", m)
  BY ReceiveLemma, BothEnds DEF ReceiveClientFinished, IInv
<1>3. /\ pc["client"] = "sleep"
      /\ m.body.plain = VerifyData(secret["client"], transcript["client"])
  <2>1. /\ m.type = "Finished" /\ m.body.writer = "client"
        /\ m.body.under = secret["server"]
    BY <1>1, <1>2, BothEnds DEF Accepts, Opens
  <2>2. secret["server"] # {}
    BY <1>1 DEF IInv, ServerPart
  <2>3. pc["client"] = "sleep" /\ Genuine(m.body)
    BY <1>2, <2>1 DEF IInv, WirePart, ToServer
  <2> QED
    BY <2>1, <2>2, <2>3 DEF Genuine
<1>4. secret["client"] = secret["server"] /\ transcript["client"] = transcript["server"]
  BY <1>3 DEF IInv, ClientPart, View
<1>5. finished' = [finished EXCEPT !["server"] = "equal"]
  BY <1>3, <1>4 DEF ReceiveClientFinished, Compare
<1>6. Types'
  BY <1>1, <1>2, <1>5 DEF IInv, Types, ServerStates
<1>7. WireIsShort'
  BY <1>1, <1>2, BothEnds, LenProperties DEF IInv, Types, WireIsShort, ServerSent, ClientSent
<1>8. ServerPart'
  BY <1>1 DEF IInv, ServerPart, HasSigned
<1>9. ClientPart'
  BY <1>1, <1>3 DEF IInv, ClientPart, HasSigned, View
<1>10. WirePart'
  <2>1. Kept
    BY <1>1 DEF Kept, HasSigned
  <2> QED
    BY <2>1, <1>2, WireKept DEF IInv
<1>11. FinishedPart'
  BY <1>1, <1>5, BothEnds DEF IInv, Types, FinishedPart
<1> QED
  BY <1>6, <1>7, <1>8, <1>9, <1>10, <1>11 DEF IInv

LEMMA ListenIInv == IInv /\ Listen => IInv'
<1> SUFFICES ASSUME IInv, Listen PROVE IInv'
  OBVIOUS
<1>1. listening' = TRUE
      /\ UNCHANGED <<run, pc, conn, wire, secret, transcript, finished, noise>>
  BY DEF Listen
<1>2. Types'
  BY <1>1 DEF IInv, Types
<1>3. WireIsShort' /\ FinishedPart'
  BY <1>1 DEF IInv, WireIsShort, FinishedPart
<1>4. ServerPart' /\ ClientPart'
  BY <1>1 DEF IInv, ServerPart, ClientPart, HasSigned, View
<1>5. WirePart'
  <2>1. Kept
    BY <1>1 DEF Kept, HasSigned
  <2>2. OnWire("client")' = OnWire("client") /\ OnWire("server")' = OnWire("server")
    BY <1>1 DEF OnWire
  <2> QED
    BY <2>1, <2>2, WireKept DEF IInv
<1> QED
  BY <1>2, <1>3, <1>4, <1>5 DEF IInv

-----------------------------------------------------------------------------
(* One lemma for each action of the client.                                *)

LEMMA HandleCSRIInv == IInv /\ HandleCSR => IInv'
<1> SUFFICES ASSUME IInv, HandleCSR PROVE IInv'
  OBVIOUS
<1>1. /\ pc' \in [Ends -> ClientStates \cup ServerStates]
      /\ pc["client"] = "csr" /\ pc'["client"] = "dial"
      /\ pc'["server"] = pc["server"]
      /\ UNCHANGED <<run, listening, conn, noise, wire, secret, transcript, finished>>
  BY AtLemma, BothEnds DEF HandleCSR, IInv, ClientStates
<1>2. Types'
  BY <1>1 DEF IInv, Types, ClientStates
<1>3. WireIsShort' /\ FinishedPart'
  BY <1>1 DEF IInv, WireIsShort, ClientSent, ServerSent, FinishedPart
<1>4. ServerPart' /\ ClientPart'
  BY <1>1 DEF IInv, ServerPart, ClientPart, HasSigned, View
<1>5. WirePart'
  <2>1. Kept
    BY <1>1 DEF Kept, HasSigned
  <2>2. OnWire("client")' = OnWire("client") /\ OnWire("server")' = OnWire("server")
    BY <1>1 DEF OnWire
  <2> QED
    BY <2>1, <2>2, WireKept DEF IInv
<1> QED
  BY <1>2, <1>3, <1>4, <1>5 DEF IInv

LEMMA DialIInv == IInv /\ Dial => IInv'
<1> SUFFICES ASSUME IInv, Dial PROVE IInv'
  OBVIOUS
<1>1. /\ pc["client"] = "dial" /\ pc' = [pc EXCEPT !["client"] = "hello"]
      /\ conn' = "open"
      /\ UNCHANGED <<run, listening, wire, secret, transcript, finished, noise>>
  BY DEF Dial
<1>2. pc'["client"] = "hello" /\ pc'["server"] = pc["server"]
  BY <1>1, BothEnds DEF IInv, Types
<1>3. Types'
  BY <1>1, <1>2 DEF IInv, Types, ClientStates
<1>4. WireIsShort' /\ FinishedPart'
  BY <1>1, <1>2 DEF IInv, WireIsShort, ClientSent, ServerSent, FinishedPart
<1>5. ServerPart' /\ ClientPart'
  BY <1>1, <1>2 DEF IInv, ServerPart, ClientPart, HasSigned, View
<1>6. WirePart'
  <2>1. Kept
    BY <1>1, <1>2 DEF Kept, HasSigned
  <2>2. OnWire("client")' = OnWire("client") /\ OnWire("server")' = OnWire("server")
    BY <1>1 DEF OnWire
  <2> QED
    BY <2>1, <2>2, WireKept DEF IInv
<1> QED
  BY <1>3, <1>4, <1>5, <1>6 DEF IInv

LEMMA SendClientHelloIInv == IInv /\ SendClientHello => IInv'
<1> SUFFICES ASSUME IInv, SendClientHello PROVE IInv'
  OBVIOUS
<1>1. /\ pc' \in [Ends -> ClientStates \cup ServerStates]
      /\ pc["client"] = "hello" /\ pc'["client"] = "serverHello"
      /\ pc'["server"] = pc["server"]
      /\ UNCHANGED <<run, listening, conn, noise, secret, finished>>
  BY AtLemma, BothEnds DEF SendClientHello, IInv, ClientStates
<1>2. /\ wire' \in [Ends -> Seq(Messages)]
      /\ wire'["client"] = wire["client"]
      /\ Len(wire'["server"]) <= Len(wire["server"]) + 1
      /\ OnWire("client")' = OnWire("client")
      /\ OnWire("server")' \subseteq OnWire("server") \cup {ClientHello}
  BY HelloIsMessage, SendLemma, BothEnds DEF SendClientHello, IInv
<1>3. /\ transcript' \in [Ends -> Seq(Messages \cup {ServerCert})]
      /\ transcript'["client"] = <<ClientHello>>
      /\ transcript'["server"] = transcript["server"]
  BY <1>1, HelloIsMessage, HashLemma, BothEnds, AppendToNone
     DEF SendClientHello, IInv, ClientPart
<1>4. Types'
  BY <1>1, <1>2, <1>3 DEF IInv, Types, ClientStates
<1>5. WireIsShort'
  BY <1>1, <1>2, BothEnds, LenProperties DEF IInv, Types, WireIsShort, ServerSent, ClientSent
<1>6. ServerPart'
  BY <1>1, <1>3 DEF IInv, ServerPart, HasSigned
<1>7. ClientPart'
  BY <1>1, <1>3 DEF IInv, ClientPart
<1>8. WirePart'
  <2>1. Kept
    BY <1>1, <1>3 DEF Kept, HasSigned
  <2>2. ASSUME NEW x, x = ClientHello PROVE ToServer(x)'
    BY HelloIsMessage, <2>2 DEF ToServer, ClientHello
  <2> QED
    BY <2>1, <2>2, <1>2, WireLemma, BothEnds DEF IInv
<1>9. FinishedPart'
  BY <1>1 DEF IInv, Types, FinishedPart
<1> QED
  BY <1>4, <1>5, <1>6, <1>7, <1>8, <1>9 DEF IInv

LEMMA ReceiveServerHelloIInv == IInv /\ ReceiveServerHello => IInv'
<1> SUFFICES ASSUME IInv, ReceiveServerHello PROVE IInv'
  OBVIOUS
<1> DEFINE m == Head(wire["client"])
<1>1. /\ pc' \in [Ends -> ClientStates \cup ServerStates]
      /\ pc["client"] = "serverHello" /\ pc'["client"] = "derive"
      /\ pc'["server"] = pc["server"]
      /\ UNCHANGED <<run, listening, conn, noise, secret, finished>>
  BY AtLemma, BothEnds DEF ReceiveServerHello, IInv, ClientStates
<1>2. /\ wire' \in [Ends -> Seq(Messages)]
      /\ wire'["server"] = wire["server"]
      /\ Len(wire'["client"]) <= Len(wire["client"])
      /\ OnWire("server")' = OnWire("server")
      /\ OnWire("client")' \subseteq OnWire("client")
      /\ m \in OnWire("client") /\ m \in Messages /\ Accepts("client", m)
  BY ReceiveLemma, BothEnds DEF ReceiveServerHello, IInv
<1>3. m \in Hellos
  BY <1>1, <1>2 DEF Accepts, IInv, WirePart, ToClient
<1>4. /\ transcript' \in [Ends -> Seq(Messages \cup {ServerCert})]
      /\ transcript'["client"] = <<ClientHello, m>>
      /\ transcript'["server"] = transcript["server"]
  <2>1. /\ transcript' \in [Ends -> Seq(Messages \cup {ServerCert})]
        /\ transcript'["client"] = Append(transcript["client"], m)
        /\ transcript'["server"] = transcript["server"]
    BY <1>2, HashLemma, BothEnds DEF ReceiveServerHello, IInv
  <2>2. transcript["client"] = <<ClientHello>>
    BY <1>1 DEF IInv, ClientPart
  <2>3. Append(<<ClientHello>>, m) = <<ClientHello, m>>
    BY AppendToOne
  <2> QED
    BY <2>1, <2>2, <2>3
<1>5. Types'
  BY <1>1, <1>2, <1>4 DEF IInv, Types, ClientStates
<1>6. WireIsShort'
  BY <1>1, <1>2, BothEnds, LenProperties DEF IInv, Types, WireIsShort, ServerSent, ClientSent
<1>7. ServerPart'
  BY <1>1, <1>4 DEF IInv, ServerPart, HasSigned
<1>8. ClientPart'
  BY <1>1, <1>3, <1>4 DEF IInv, ClientPart
<1>9. WirePart'
  <2>1. Kept
    BY <1>1, <1>4 DEF Kept, HasSigned
  <2> QED
    BY <2>1, <1>2, WireKept DEF IInv
<1>10. FinishedPart'
  BY <1>1 DEF IInv, Types, FinishedPart
<1> QED
  BY <1>5, <1>6, <1>7, <1>8, <1>9, <1>10 DEF IInv

LEMMA ClientDeriveIInv == IInv /\ ClientDerive => IInv'
<1> SUFFICES ASSUME IInv, ClientDerive PROVE IInv'
  OBVIOUS
<1>1. /\ pc' \in [Ends -> ClientStates \cup ServerStates]
      /\ pc["client"] = "derive" /\ pc'["client"] = "certificate"
      /\ pc'["server"] = pc["server"]
      /\ UNCHANGED <<run, listening, conn, noise, wire, transcript, finished>>
  BY AtLemma, BothEnds DEF ClientDerive, Derive, IInv, ClientStates
<1>2. /\ secret' \in [Ends -> SUBSET ValidKeys]
      /\ secret'["client"] # {}
      /\ secret'["server"] = secret["server"]
  BY BothEnds DEF ClientDerive, Derive, PeerKey, PublicKey, ValidKeys, IInv, Types
<1>3. Types'
  BY <1>1, <1>2 DEF IInv, Types, ClientStates
<1>4. WireIsShort'
  BY <1>1, BothEnds, LenProperties DEF IInv, Types, WireIsShort, ServerSent, ClientSent
<1>5. ServerPart'
  BY <1>1, <1>2 DEF IInv, ServerPart, HasSigned
<1>6. ClientPart'
  BY <1>1, <1>2 DEF IInv, ClientPart
<1>7. WirePart'
  <2>1. Kept
    BY <1>1, <1>2 DEF Kept, HasSigned
  <2>2. OnWire("client")' = OnWire("client") /\ OnWire("server")' = OnWire("server")
    BY <1>1 DEF OnWire
  <2> QED
    BY <2>1, <2>2, WireKept DEF IInv
<1>8. FinishedPart'
  BY <1>1 DEF IInv, Types, FinishedPart
<1> QED
  BY <1>3, <1>4, <1>5, <1>6, <1>7, <1>8 DEF IInv

LEMMA ReceiveCertificateIInv == IInv /\ ReceiveCertificate => IInv'
<1> SUFFICES ASSUME IInv, ReceiveCertificate PROVE IInv'
  OBVIOUS
<1> DEFINE m == Head(wire["client"])
<1>1. /\ pc' \in [Ends -> ClientStates \cup ServerStates]
      /\ pc["client"] = "certificate" /\ pc'["client"] = "certVerify"
      /\ pc'["server"] = pc["server"]
      /\ UNCHANGED <<run, listening, conn, noise, secret, finished>>
  BY AtLemma, BothEnds DEF ReceiveCertificate, IInv, ClientStates
<1>2. /\ wire' \in [Ends -> Seq(Messages)]
      /\ wire'["server"] = wire["server"]
      /\ Len(wire'["client"]) <= Len(wire["client"])
      /\ OnWire("server")' = OnWire("server")
      /\ OnWire("client")' \subseteq OnWire("client")
      /\ m \in OnWire("client") /\ m \in Messages /\ Accepts("client", m)
  BY ReceiveLemma, BothEnds DEF ReceiveCertificate, IInv
<1>3. m.body.plain = ServerCert
  <2>1. /\ m.type = "Certificate" /\ m.body.writer = "server"
        /\ m.body.under = secret["client"] /\ m.body.plain.kind = "certificate"
    BY <1>1, <1>2, BothEnds DEF Accepts, Opens, VerifyCert
  <2>2. secret["client"] # {}
    BY <1>1 DEF IInv, ClientPart
  <2>3. Genuine(m.body)
    BY <1>2, <2>1 DEF IInv, WirePart, ToClient
  <2>4. ASSUME HasSigned PROVE m.body # transcript["server"][4].body
    BY <2>1, <2>4, SignatureIsThere
  <2> QED
    BY <2>1, <2>2, <2>3, <2>4 DEF Genuine
<1>4. /\ transcript' \in [Ends -> Seq(Messages \cup {ServerCert})]
      /\ transcript'["client"] = <<ClientHello, transcript["client"][2], ServerCert>>
      /\ transcript'["server"] = transcript["server"]
  <2> DEFINE h == transcript["client"][2]
  <2>1. /\ transcript' \in [Ends -> Seq(Messages \cup {ServerCert})]
        /\ transcript'["client"] = Append(transcript["client"], ServerCert)
        /\ transcript'["server"] = transcript["server"]
    BY <1>3, HashLemma, BothEnds DEF ReceiveCertificate, IInv
  <2>2. transcript["client"] = <<ClientHello, h>>
    BY <1>1 DEF IInv, ClientPart
  <2>3. Append(<<ClientHello, h>>, ServerCert) = <<ClientHello, h, ServerCert>>
    BY AppendToTwo
  <2> QED
    BY <2>1, <2>2, <2>3
<1>5. transcript'["client"][2] = transcript["client"][2]
  BY <1>4
<1>6. Types'
  BY <1>1, <1>2, <1>4 DEF IInv, Types, ClientStates
<1>7. WireIsShort'
  BY <1>1, <1>2, BothEnds, LenProperties DEF IInv, Types, WireIsShort, ServerSent, ClientSent
<1>8. ServerPart'
  BY <1>1, <1>4 DEF IInv, ServerPart, HasSigned
<1>9. ClientPart'
  BY <1>1, <1>4, <1>5 DEF IInv, ClientPart
<1>10. WirePart'
  <2>1. Kept
    BY <1>1, <1>4 DEF Kept, HasSigned
  <2> QED
    BY <2>1, <1>2, WireKept DEF IInv
<1>11. FinishedPart'
  BY <1>1 DEF IInv, Types, FinishedPart
<1> QED
  BY <1>6, <1>7, <1>8, <1>9, <1>10, <1>11 DEF IInv

LEMMA ReceiveCertVerifyIInv == IInv /\ ReceiveCertVerify => IInv'
<1> SUFFICES ASSUME IInv, ReceiveCertVerify PROVE IInv'
  OBVIOUS
<1> DEFINE m == Head(wire["client"])
           c == transcript["server"][1]
           t == transcript["client"]
<1>1. /\ pc' \in [Ends -> ClientStates \cup ServerStates]
      /\ pc["client"] = "certVerify" /\ pc'["client"] = "finished"
      /\ pc'["server"] = pc["server"]
      /\ UNCHANGED <<run, listening, conn, noise, secret, finished>>
  BY AtLemma, BothEnds DEF ReceiveCertVerify, IInv, ClientStates
<1>2. /\ wire' \in [Ends -> Seq(Messages)]
      /\ wire'["server"] = wire["server"]
      /\ Len(wire'["client"]) <= Len(wire["client"])
      /\ OnWire("server")' = OnWire("server")
      /\ OnWire("client")' \subseteq OnWire("client")
      /\ m \in OnWire("client") /\ m \in Messages /\ Accepts("client", m)
  BY ReceiveLemma, BothEnds DEF ReceiveCertVerify, IInv
<1>3. /\ m.type = "CertificateVerify" /\ m.body.writer = "server"
      /\ m.body.under = secret["client"]
      /\ m.body.plain = Signature(t[3].key, t)
  BY <1>1, <1>2, BothEnds DEF Accepts, Opens, SignatureHolds
<1>4. HasSigned /\ transcript["server"] = Full(c)
  BY <1>2, <1>3 DEF IInv, WirePart, ToClient, ServerPart
<1>5. m = CertVerify(c)
  <2>1. Genuine(m.body)
    BY <1>2, <1>3 DEF IInv, WirePart, ToClient
  <2>2. secret["client"] # {}
    BY <1>1 DEF IInv, ClientPart
  <2>3. m.body.plain.kind = "signature" /\ ServerCert.kind = "certificate"
    BY <1>3 DEF Signature, ServerCert
  <2>4. m.body = transcript["server"][4].body
    BY <1>3, <2>1, <2>2, <2>3 DEF Genuine
  <2>5. transcript["server"][4] = CertVerify(c)
    BY <1>4 DEF Full
  <2>6. m = [type |-> m.type, body |-> m.body]
    BY <1>2, <1>3 DEF Messages, Hellos, Sealeds
  <2> QED
    BY <1>3, <2>4, <2>5, <2>6 DEF CertVerify, Sealed
<1>6. secret["client"] = secret["server"]
  <2>1. m.body.under = {PublicKey("server"), c.key}
    BY <1>5 DEF CertVerify, Sealed, Seal
  <2>2. secret["server"] = {PublicKey("server"), c.key}
    BY <1>4 DEF IInv, ServerPart, HasSigned
  <2> QED
    BY <1>3, <2>1, <2>2
<1>7. t = Signed(c)
  <2>1. m.body.plain = Signature("serverKey", Signed(c))
    BY <1>5 DEF CertVerify, Sealed, Seal
  <2>2. m.body.plain.over = Signed(c)
    BY <2>1 DEF Signature
  <2>3. m.body.plain.over = t
    BY <1>3 DEF Signature
  <2> QED
    BY <2>2, <2>3
<1>8. /\ transcript' \in [Ends -> Seq(Messages \cup {ServerCert})]
      /\ transcript'["client"] = Full(c)
      /\ transcript'["server"] = transcript["server"]
  <2>1. /\ transcript' \in [Ends -> Seq(Messages \cup {ServerCert})]
        /\ transcript'["client"] = Append(t, m)
        /\ transcript'["server"] = transcript["server"]
    BY <1>2, HashLemma, BothEnds DEF ReceiveCertVerify, IInv
  <2>2. Append(<<c, ServerHello, ServerCert>>, CertVerify(c)) = Full(c)
    BY AppendToThree DEF Full
  <2> QED
    BY <2>1, <2>2, <1>5, <1>7 DEF Signed
<1>9. Types'
  BY <1>1, <1>2, <1>8 DEF IInv, Types, ClientStates
<1>10. WireIsShort'
  BY <1>1, <1>2, BothEnds, LenProperties DEF IInv, Types, WireIsShort, ServerSent, ClientSent
<1>11. ServerPart'
  BY <1>1, <1>8 DEF IInv, ServerPart, HasSigned
<1>12. ClientPart'
  BY <1>1, <1>4, <1>6, <1>8 DEF IInv, ClientPart, HasSigned, View
<1>13. WirePart'
  <2>1. Kept
    BY <1>1, <1>8 DEF Kept, HasSigned
  <2> QED
    BY <2>1, <1>2, WireKept DEF IInv
<1>14. FinishedPart'
  BY <1>1 DEF IInv, Types, FinishedPart
<1> QED
  BY <1>9, <1>10, <1>11, <1>12, <1>13, <1>14 DEF IInv

LEMMA ReceiveServerFinishedIInv == IInv /\ ReceiveServerFinished => IInv'
<1> SUFFICES ASSUME IInv, ReceiveServerFinished PROVE IInv'
  OBVIOUS
<1> DEFINE m == Head(wire["client"])
<1>1. /\ pc' \in [Ends -> ClientStates \cup ServerStates]
      /\ pc["client"] = "finished" /\ pc'["client"] = "sendFinished"
      /\ pc'["server"] = pc["server"]
      /\ UNCHANGED <<run, listening, conn, noise, secret, transcript>>
  BY AtLemma, BothEnds DEF ReceiveServerFinished, IInv, ClientStates
<1>2. /\ wire' \in [Ends -> Seq(Messages)]
      /\ wire'["server"] = wire["server"]
      /\ Len(wire'["client"]) <= Len(wire["client"])
      /\ OnWire("server")' = OnWire("server")
      /\ OnWire("client")' \subseteq OnWire("client")
      /\ m \in OnWire("client") /\ m \in Messages /\ Accepts("client", m)
  BY ReceiveLemma, BothEnds DEF ReceiveServerFinished, IInv
<1>3. pc["server"] \in {"finished", "verified"}
  BY <1>1, <1>2 DEF Accepts, IInv, WirePart, ToClient
<1>5. /\ finished' \in [Ends -> {"none", "equal", "different"}]
      /\ finished'["server"] = finished["server"]
  BY BothEnds DEF ReceiveServerFinished, Compare, IInv, Types
<1>6. Types'
  BY <1>1, <1>2, <1>5 DEF IInv, Types, ClientStates
<1>7. WireIsShort'
  BY <1>1, <1>2, BothEnds, LenProperties DEF IInv, Types, WireIsShort, ServerSent, ClientSent
<1>8. ServerPart'
  BY <1>1 DEF IInv, ServerPart, HasSigned
<1>9. ClientPart'
  BY <1>1, <1>3 DEF IInv, ClientPart, HasSigned, View
<1>10. WirePart'
  <2>1. Kept
    BY <1>1 DEF Kept, HasSigned
  <2> QED
    BY <2>1, <1>2, WireKept DEF IInv
<1>11. FinishedPart'
  BY <1>1, <1>5, BothEnds DEF IInv, Types, FinishedPart
<1> QED
  BY <1>6, <1>7, <1>8, <1>9, <1>10, <1>11 DEF IInv

LEMMA SendClientFinishedIInv == IInv /\ SendClientFinished => IInv'
<1> SUFFICES ASSUME IInv, SendClientFinished PROVE IInv'
  OBVIOUS
<1> DEFINE m == ClientFinished
<1>1. /\ pc' \in [Ends -> ClientStates \cup ServerStates]
      /\ pc["client"] = "sendFinished" /\ pc'["client"] = "sleep"
      /\ pc'["server"] = pc["server"]
      /\ UNCHANGED <<run, listening, conn, noise, secret, transcript, finished>>
  BY AtLemma, BothEnds DEF SendClientFinished, IInv, ClientStates
<1>2. m \in Messages
  <2>1. secret["client"] \in SUBSET ValidKeys
    BY BothEnds DEF IInv, Types
  <2>2. \E c \in Hellos : transcript["client"] = Full(c)
    BY <1>1 DEF IInv, ClientPart, ServerPart, HasSigned, View
  <2>3. VerifyData(secret["client"], transcript["client"]) \in Plains
    BY <2>1, <2>2 DEF Plains
  <2> QED
    BY <2>1, <2>3, BothEnds DEF ClientFinished, Sealed, Seal, Messages, Sealeds, Bodies
<1>3. /\ wire' \in [Ends -> Seq(Messages)]
      /\ wire'["client"] = wire["client"]
      /\ Len(wire'["server"]) <= Len(wire["server"]) + 1
      /\ OnWire("client")' = OnWire("client")
      /\ OnWire("server")' \subseteq OnWire("server") \cup {m}
  BY <1>2, SendLemma, BothEnds DEF SendClientFinished, IInv
<1>4. Types'
  BY <1>1, <1>3 DEF IInv, Types, ClientStates
<1>5. WireIsShort'
  BY <1>1, <1>3, BothEnds, LenProperties DEF IInv, Types, WireIsShort, ServerSent, ClientSent
<1>6. ServerPart'
  BY <1>1 DEF IInv, ServerPart, HasSigned
<1>7. ClientPart'
  BY <1>1 DEF IInv, ClientPart, HasSigned, View
<1>8. WirePart'
  <2>1. Kept
    BY <1>1 DEF Kept, HasSigned
  <2>2. ASSUME NEW x, x = m PROVE ToServer(x)'
    BY <1>1, <2>2 DEF ToServer, ClientFinished, Sealed, Seal, Genuine
  <2> QED
    BY <2>1, <2>2, <1>3, WireLemma, BothEnds DEF IInv
<1>9. FinishedPart'
  BY <1>1 DEF IInv, Types, FinishedPart
<1> QED
  BY <1>4, <1>5, <1>6, <1>7, <1>8, <1>9 DEF IInv

-----------------------------------------------------------------------------
(* What goes wrong, and the end.                                           *)

LEMMA EndIInv ==
  ASSUME IInv, Return \/ Fatal \/ Break
  PROVE  IInv'
<1>1. /\ run' \in {"running", "fatal", "returned"} /\ conn' \in {"none", "open", "broken"}
      /\ UNCHANGED <<listening, pc, wire, secret, transcript, finished, noise>>
  BY DEF Return, Fatal, Break, IInv, Types
<1>2. Types'
  BY <1>1 DEF IInv, Types
<1>3. WireIsShort' /\ FinishedPart'
  BY <1>1 DEF IInv, WireIsShort, FinishedPart
<1>4. ServerPart' /\ ClientPart'
  BY <1>1 DEF IInv, ServerPart, ClientPart, HasSigned, View
<1>5. WirePart'
  BY <1>1 DEF IInv, WirePart, OnWire, ToClient, ToServer, Genuine, HasSigned
<1> QED
  BY <1>2, <1>3, <1>4, <1>5 DEF IInv

LEMMA ThreeOrFewer ==
  ASSUME NEW s, NEW a, NEW b, NEW c,
         s = <<>> \/ s = <<a>> \/ s = <<a, b>> \/ s = <<a, b, c>>
  PROVE  Len(s) # 4
<1>1. CASE s = <<>>
  BY <1>1
<1>2. CASE s = <<a>>
  BY <1>2
<1>3. CASE s = <<a, b>>
  BY <1>3
<1>4. CASE s = <<a, b, c>>
  BY <1>4
<1> QED
  BY <1>1, <1>2, <1>3, <1>4

\* The server's transcript has four entries only once it has signed.
LEMMA FourIsSigned ==
  ASSUME IInv, Len(transcript["server"]) = 4
  PROVE  HasSigned
<1> DEFINE t == transcript["server"]
<1>1. CASE pc["server"] \in {"accept", "clientHello"}
  <2>1. t = <<>>
    BY <1>1 DEF IInv, ServerPart
  <2> QED
    BY <2>1, ThreeOrFewer, Zenon
<1>2. CASE pc["server"] = "hello"
  <2>1. t = <<t[1]>>
    BY <1>2 DEF IInv, ServerPart
  <2> QED
    BY <2>1, ThreeOrFewer, Zenon
<1>3. CASE pc["server"] \in {"derive", "sendCertificate"}
  <2>1. t = <<t[1], ServerHello>>
    BY <1>3 DEF IInv, ServerPart
  <2> QED
    BY <2>1, ThreeOrFewer, Zenon
<1>4. CASE pc["server"] = "sendCertVerify"
  <2>1. t = Signed(t[1])
    BY <1>4 DEF IInv, ServerPart
  <2> QED
    BY <2>1, ThreeOrFewer, Zenon DEF Signed
<1> QED
  BY <1>1, <1>2, <1>3, <1>4 DEF IInv, Types, ServerStates, HasSigned

\* Nothing but what Genuine lists was sealed.
LEMMA CiphertextsAreGenuine ==
  ASSUME IInv, NEW b \in Ciphertexts
  PROVE  b \in Bodies /\ Genuine(b)
<1> DEFINE t == transcript["server"]
<1>1. secret["server"] \in SUBSET ValidKeys /\ secret["client"] \in SUBSET ValidKeys
  BY BothEnds DEF IInv, Types
<1>2. CASE b = Seal("server", secret["server"], ServerCert)
  BY <1>1, <1>2, BothEnds DEF Seal, Bodies, Plains, Genuine
<1>3. CASE Len(t) = 4 /\ b = t[4].body
  <2>1. HasSigned
    BY <1>3, FourIsSigned
  <2>2. t[4] = CertVerify(t[1]) /\ t[1] \in Hellos
    BY <2>1, SignatureIsThere
  <2>3. secret["server"] = {PublicKey("server"), t[1].key}
    BY <2>1 DEF IInv, ServerPart, HasSigned
  <2>4. b = Seal("server", secret["server"], Signature("serverKey", Signed(t[1])))
    BY <1>3, <2>2, <2>3 DEF CertVerify, Sealed
  <2>5. b \in Bodies
    BY <1>1, <2>2, <2>4, BothEnds DEF Seal, Bodies, Plains
  <2>6. b.writer = "server"
    BY <2>4 DEF Seal
  <2> QED
    BY <1>3, <2>1, <2>5, <2>6 DEF Genuine
<1>4. CASE pc["server"] \in {"finished", "verified"} /\ b = ServerFinished.body
  <2>1. \E c \in Hellos : transcript["server"] = Full(c)
    BY <1>4, SignatureIsThere DEF HasSigned
  <2>2. VerifyData(secret["server"], transcript["server"]) \in Plains
    BY <1>1, <2>1 DEF Plains
  <2>3. b = Seal("server", secret["server"], VerifyData(secret["server"], transcript["server"]))
    BY <1>4 DEF ServerFinished, Sealed
  <2> QED
    BY <1>1, <2>2, <2>3, BothEnds DEF Seal, Bodies, VerifyData, Genuine
<1>5. CASE pc["client"] = "sleep" /\ b = ClientFinished.body
  <2>1. View("client") = View("server") /\ HasSigned
    BY <1>5 DEF IInv, ClientPart
  <2>2. \E c \in Hellos : transcript["client"] = Full(c)
    BY <2>1, SignatureIsThere DEF View
  <2>3. VerifyData(secret["client"], transcript["client"]) \in Plains
    BY <1>1, <2>2 DEF Plains
  <2>4. b = Seal("client", secret["client"], VerifyData(secret["client"], transcript["client"]))
    BY <1>5 DEF ClientFinished, Sealed
  <2> QED
    BY <1>1, <1>5, <2>3, <2>4, BothEnds DEF Seal, Bodies, Genuine
<1> QED
  BY <1>2, <1>3, <1>4, <1>5 DEF Ciphertexts

\* A changed message is a message, and carries nothing that was not sealed.
LEMMA ChangedLemma ==
  ASSUME IInv, NEW x \in Messages, NEW m \in Changed(x)
  PROVE  /\ m \in Messages
         /\ ToClient(x) => ToClient(m)
         /\ ToServer(x) => ToServer(m)
<1>1. CASE x \in Hellos
  <2>1. m \in Hellos
    BY <1>1 DEF Changed, Hellos, Keys, ValidKeys
  <2>2. /\ x.type \in {"ClientHello", "ServerHello", "none", "unfinished"}
        /\ m.type \in {x.type, "none", "unfinished"}
    BY <1>1 DEF Changed, Hellos
  <2> QED
    BY <2>1, <2>2 DEF ToClient, ToServer, Messages
<1>2. CASE x \in Sealeds
  <2>1. x.type \in {"Certificate", "CertificateVerify", "Finished", "none", "unfinished"}
    BY <1>2 DEF Sealeds
  <2>2. \/ \E t \in {"none", "unfinished"} : m = [x EXCEPT !.type = t]
        \/ \E b \in Ciphertexts \cup {[x.body EXCEPT !.under = {}]} : m = [x EXCEPT !.body = b]
    BY <2>1 DEF Changed
  <2>3. ASSUME NEW t \in {"none", "unfinished"}, m = [x EXCEPT !.type = t]
        PROVE  m \in Sealeds /\ m.type = t
    BY <1>2, <2>3 DEF Sealeds
  <2>4. ASSUME NEW b \in Ciphertexts \cup {[x.body EXCEPT !.under = {}]},
               m = [x EXCEPT !.body = b]
        PROVE  m \in Sealeds /\ m.type = x.type /\ Genuine(m.body)
    <3>1. b \in Bodies /\ Genuine(b)
      <4>1. CASE b \in Ciphertexts
        BY <4>1, CiphertextsAreGenuine
      <4>2. CASE b = [x.body EXCEPT !.under = {}]
        BY <1>2, <4>2 DEF Sealeds, Bodies, Genuine
      <4> QED
        BY <4>1, <4>2
    <3> QED
      BY <1>2, <2>4, <3>1 DEF Sealeds
  <2>5. CASE m \in Sealeds /\ m.type \in {"none", "unfinished"}
    BY <2>5 DEF ToClient, ToServer, Messages
  <2>6. CASE m \in Sealeds /\ m.type = x.type /\ Genuine(m.body)
    BY <2>1, <2>6 DEF ToClient, ToServer, Messages
  <2> QED
    BY <2>2, <2>3, <2>4, <2>5, <2>6
<1> QED
  BY <1>1, <1>2 DEF Messages

LEMMA NoiseIInv == IInv /\ Noise => IInv'
<1> SUFFICES ASSUME IInv, Noise PROVE IInv'
  OBVIOUS
<1> USE DEF IInv
<1>0. PICK e \in Ends :
        \E i \in 1..Len(wire[e]) : \E m \in Changed(wire[e][i]) :
          wire' = [wire EXCEPT ![e][i] = m]
  BY DEF Noise
<1>1. PICK i \in 1..Len(wire[e]) :
        \E m \in Changed(wire[e][i]) : wire' = [wire EXCEPT ![e][i] = m]
  BY <1>0
<1>a. PICK m \in Changed(wire[e][i]) : wire' = [wire EXCEPT ![e][i] = m]
  BY <1>1
<1>2. /\ noise \in Nat /\ noise < MaxNoise /\ noise' = noise + 1
      /\ UNCHANGED <<run, listening, pc, conn, secret, transcript, finished>>
  BY TlsAssumption DEF Noise, Types
<1> DEFINE x == wire[e][i]
           s == [wire[e] EXCEPT ![i] = m]
<1>3. wire[e] \in Seq(Messages) /\ x \in Messages
  BY ElementOfSeq DEF Types
<1>4. m \in Messages /\ (ToClient(x) => ToClient(m)) /\ (ToServer(x) => ToServer(m))
  BY <1>3, ChangedLemma
<1>5. /\ s \in Seq(Messages) /\ Len(s) = Len(wire[e])
      /\ \A j \in 1..Len(wire[e]) : s[j] = IF j = i THEN m ELSE wire[e][j]
  BY <1>3, <1>4, ExceptSeq
<1>6. wire' = [wire EXCEPT ![e] = s]
  BY <1>a
<1>7. wire'[e] = s /\ \A f \in Ends : f # e => wire'[f] = wire[f]
  BY <1>6 DEF Types
<1>8. wire' \in [Ends -> Seq(Messages)]
  BY <1>5, <1>6 DEF Types
<1>9. /\ OnWire(e)' \subseteq OnWire(e) \cup {m}
      /\ \A f \in Ends : f # e => OnWire(f)' = OnWire(f)
  <2>1. ASSUME NEW j \in 1..Len(wire'[e]) PROVE wire'[e][j] \in OnWire(e) \cup {m}
    BY <1>5, <1>7, <2>1 DEF OnWire
  <2> QED
    BY <1>7, <2>1 DEF OnWire
<1>10. x \in OnWire(e)
  BY DEF OnWire
<1>11. Types'
  BY <1>2, <1>8, TlsAssumption DEF Types
<1>12. WireIsShort'
  BY <1>2, <1>5, <1>7, BothEnds DEF WireIsShort
<1>13. ServerPart' /\ ClientPart' /\ FinishedPart'
  BY <1>2 DEF ServerPart, ClientPart, HasSigned, View, FinishedPart
<1>14. WirePart'
  <2>1. ASSUME NEW y PROVE (ToClient(y)' <=> ToClient(y)) /\ (ToServer(y)' <=> ToServer(y))
    BY <1>2 DEF ToClient, ToServer, Genuine, HasSigned
  <2>2. CASE e = "client"
    BY <2>1, <2>2, <1>4, <1>9, <1>10, BothEnds DEF WirePart
  <2>3. CASE e = "server"
    BY <2>1, <2>3, <1>4, <1>9, <1>10, BothEnds DEF WirePart
  <2> QED
    BY <2>2, <2>3 DEF Ends
<1> QED
  BY <1>11, <1>12, <1>13, <1>14

-----------------------------------------------------------------------------
(* The invariant, and what it implies.                                     *)

LEMMA InitIInv == Init => IInv
<1> SUFFICES ASSUME Init PROVE IInv
  OBVIOUS
<1>1. Types
  <2>1. wire \in [Ends -> Seq(Messages)]
    BY DEF Init
  <2>2. transcript \in [Ends -> Seq(Messages \cup {ServerCert})]
    BY DEF Init
  <2>3. /\ pc \in [Ends -> ClientStates \cup ServerStates]
        /\ pc["client"] \in ClientStates /\ pc["server"] \in ServerStates
    BY DEF Init, Ends, ClientStates, ServerStates
  <2>4. secret \in [Ends -> SUBSET ValidKeys] /\ noise \in 0..MaxNoise
    BY TlsAssumption DEF Init
  <2>5. /\ run \in {"running", "fatal", "returned"}
        /\ listening \in BOOLEAN
        /\ conn \in {"none", "open", "broken"}
        /\ finished \in [Ends -> {"none", "equal", "different"}]
    BY DEF Init
  <2> QED
    BY <2>1, <2>2, <2>3, <2>4, <2>5 DEF Types
<1>2. WireIsShort
  BY BothEnds DEF Init, WireIsShort, ServerSent, ClientSent
<1>3. ServerPart /\ ClientPart /\ FinishedPart
  BY BothEnds DEF Init, ServerPart, ClientPart, HasSigned, FinishedPart
<1>4. WirePart
  BY BothEnds DEF Init, WirePart, OnWire
<1> QED
  BY <1>1, <1>2, <1>3, <1>4 DEF IInv

LEMMA StutterIInv == IInv /\ UNCHANGED vars => IInv'
<1> SUFFICES ASSUME IInv, UNCHANGED vars PROVE IInv'
  OBVIOUS
<1>1. UNCHANGED <<run, listening, pc, conn, wire, secret, transcript, finished, noise>>
  BY DEF vars
<1>2. Types'
  BY <1>1 DEF IInv, Types
<1>3. WireIsShort' /\ FinishedPart'
  BY <1>1 DEF IInv, WireIsShort, FinishedPart
<1>4. ServerPart' /\ ClientPart'
  BY <1>1 DEF IInv, ServerPart, ClientPart, HasSigned, View
<1>5. WirePart'
  BY <1>1 DEF IInv, WirePart, OnWire, ToClient, ToServer, Genuine, HasSigned
<1> QED
  BY <1>2, <1>3, <1>4, <1>5 DEF IInv

LEMMA NextIInv == IInv /\ [Next]_vars => IInv'
BY ListenIInv, AcceptIInv, ReceiveClientHelloIInv, SendServerHelloIInv,
   ServerDeriveIInv, SendCertificateIInv, SendCertVerifyIInv,
   SendServerFinishedIInv, ReceiveClientFinishedIInv, HandleCSRIInv, DialIInv,
   SendClientHelloIInv, ReceiveServerHelloIInv, ClientDeriveIInv,
   ReceiveCertificateIInv, ReceiveCertVerifyIInv, ReceiveServerFinishedIInv,
   SendClientFinishedIInv, EndIInv, NoiseIInv, StutterIInv
   DEF Next, ServerNext, ClientNext

THEOREM Invariance == Spec => []IInv
BY InitIInv, NextIInv, PTL DEF Spec

LEMMA ShortTuples ==
  ASSUME NEW s, NEW a, NEW b, NEW c, NEW d,
         \/ s = <<a>> \/ s = <<a, b>> \/ s = <<a, b, c>> \/ s = <<a, b, c, d>>
  PROVE  Len(s) <= 4
<1>1. CASE s = <<a>>
  BY <1>1
<1>2. CASE s = <<a, b>>
  BY <1>2
<1>3. CASE s = <<a, b, c>>
  BY <1>3
<1>4. CASE s = <<a, b, c, d>>
  BY <1>4
<1> QED
  BY <1>1, <1>2, <1>3, <1>4

\* Both goroutines, the wire and what they have computed stay in their states,
\* and no secret comes of a key that NewPublicKey or ECDH refuses.
THEOREM TypeCorrect == Spec => []TypeOK
<1>1. IInv => TypeOK
  <2> SUFFICES ASSUME IInv PROVE TypeOK
    OBVIOUS
  <2> USE DEF IInv
  <2>1. ASSUME NEW e \in Ends PROVE Len(wire[e]) <= 4
    BY LenProperties DEF Types, WireIsShort, ServerSent, ClientSent, Ends
  <2>2. Len(transcript["server"]) <= 4
    <3> DEFINE t == transcript["server"]
    <3>1. CASE pc["server"] \in {"accept", "clientHello"}
      BY <3>1 DEF ServerPart
    <3>2. CASE pc["server"] = "hello"
      <4>1. t = <<t[1]>>
        BY <3>2 DEF ServerPart
      <4> QED
        BY <4>1, ShortTuples, Zenon
    <3>3. CASE pc["server"] \in {"derive", "sendCertificate"}
      <4>1. t = <<t[1], ServerHello>>
        BY <3>3 DEF ServerPart
      <4> QED
        BY <4>1, ShortTuples, Zenon
    <3>4. CASE pc["server"] = "sendCertVerify"
      <4>1. t = Signed(t[1])
        BY <3>4 DEF ServerPart
      <4> QED
        BY <4>1, ShortTuples, Zenon DEF Signed
    <3>5. CASE HasSigned
      <4>1. t = Full(t[1])
        BY <3>5 DEF ServerPart
      <4> QED
        BY <4>1, ShortTuples, Zenon DEF Full
    <3> QED
      BY <3>1, <3>2, <3>3, <3>4, <3>5 DEF Types, ServerStates, HasSigned
  <2>3. Len(transcript["client"]) <= 4
    <3> DEFINE t == transcript["client"]
    <3>1. CASE pc["client"] \in {"csr", "dial", "hello"}
      BY <3>1 DEF ClientPart
    <3>2. CASE pc["client"] = "serverHello"
      <4>1. t = <<ClientHello>>
        BY <3>2 DEF ClientPart
      <4> QED
        BY <4>1, ShortTuples, Zenon
    <3>3. CASE pc["client"] \in {"derive", "certificate"}
      <4>1. t = <<ClientHello, t[2]>>
        BY <3>3 DEF ClientPart
      <4> QED
        BY <4>1, ShortTuples, Zenon
    <3>4. CASE pc["client"] = "certVerify"
      <4>1. t = <<ClientHello, t[2], ServerCert>>
        BY <3>4 DEF ClientPart
      <4> QED
        BY <4>1, ShortTuples, Zenon
    <3>5. CASE pc["client"] \in {"finished", "sendFinished", "sleep"}
      <4>1. View("client") = View("server")
        BY <3>5 DEF ClientPart
      <4>2. t = transcript["server"]
        BY <4>1 DEF View
      <4> QED
        BY <2>2, <4>2
    <3> QED
      BY <3>1, <3>2, <3>3, <3>4, <3>5 DEF Types, ClientStates
  <2>4. ASSUME NEW e \in Ends PROVE Len(transcript[e]) <= 4
    BY <2>2, <2>3 DEF Ends
  <2>5. ASSUME NEW e \in Ends
        PROVE  secret[e] \subseteq ValidKeys /\ finished[e] \in {"none", "equal", "different"}
    BY DEF Types
  <2> QED
    BY <2>1, <2>4, <2>5 DEF Types, TypeOK
<1> QED
  BY <1>1, Invariance, PTL

\* However many messages change on the way, a Finished is opened by ends that have
\* one secret and one transcript, and the server's is the one it expects: what
\* the client takes for a Finished may be another ciphertext of the server's
\* (fatal(nil, ...) lets it pass), but never one of another handshake.
THEOREM FinishedOfOneView == Spec => []FinishedComesOfOneView
<1>1. IInv => FinishedComesOfOneView
  <2> SUFFICES ASSUME IInv PROVE FinishedComesOfOneView
    OBVIOUS
  <2>1. ASSUME NEW e \in Ends, finished[e] # "none"
        PROVE  pc["client"] \in {"sendFinished", "sleep"}
    BY <2>1 DEF IInv, FinishedPart, ClientPart, Ends
  <2>2. ASSUME NEW e \in Ends, finished[e] # "none"
        PROVE  View("client") = View("server")
    BY <2>1, <2>2 DEF IInv, ClientPart
  <2> QED
    BY <2>2 DEF FinishedComesOfOneView, IInv, FinishedPart
<1> QED
  BY <1>1, Invariance, PTL

-----------------------------------------------------------------------------
(* Neither end waits for a message that nobody sends: while the connection *)
(* is up, what was sent was received or is on its way.                     *)

\* How many messages an end has received by the time it is at p.
ServerReceived(p) ==
  IF p \in {"accept", "clientHello"} THEN 0 ELSE IF p = "verified" THEN 2 ELSE 1
ClientReceived(p) ==
  IF p \in {"csr", "dial", "hello", "serverHello"} THEN 0
  ELSE IF p \in {"derive", "certificate"} THEN 1
  ELSE IF p = "certVerify" THEN 2
  ELSE IF p = "finished" THEN 3 ELSE 4

NothingIsLost ==
  /\ ClientReceived(pc["client"]) + Len(wire["client"]) = ServerSent(pc["server"])
  /\ ServerReceived(pc["server"]) + Len(wire["server"]) = ClientSent(pc["client"])

Counted ==
  /\ conn = "none" <=> pc["client"] \in {"csr", "dial"}
  /\ conn = "none" => pc["server"] = "accept"
  /\ conn # "broken" => NothingIsLost

LEMMA AppendIsLonger ==
  ASSUME NEW S, NEW s \in Seq(S), NEW m
  PROVE  Len(Append(s, m)) = Len(s) + 1
<1>1. s \in Seq(S \cup {m})
  BY LenProperties, ElementOfSeq, IsASeq
<1> QED
  BY <1>1, AppendProperties

LEMMA CountSent ==
  ASSUME Types, NEW e \in Ends, NEW m, Send(e, m), conn = "open"
  PROVE  /\ Len(wire'[e]) = Len(wire[e])
         /\ Len(wire'[Other(e)]) = Len(wire[Other(e)]) + 1
<1>1. wire \in [Ends -> Seq(Messages)] /\ Other(e) \in Ends /\ Other(e) # e
  BY DEF Types, Ends, Other
<1>2. wire'[e] = wire[e] /\ wire'[Other(e)] = Append(wire[Other(e)], m)
  BY <1>1 DEF Send
<1> QED
  BY <1>1, <1>2, AppendIsLonger

LEMMA CountReceived ==
  ASSUME Types, NEW e \in Ends, Receive(e)
  PROVE  /\ Len(wire'[e]) = Len(wire[e]) - 1
         /\ Len(wire'[Other(e)]) = Len(wire[Other(e)])
<1>1. wire \in [Ends -> Seq(Messages)] /\ Other(e) \in Ends /\ Other(e) # e
  BY DEF Types, Ends, Other
<1>2. wire'[e] = Tail(wire[e]) /\ wire'[Other(e)] = wire[Other(e)]
  BY <1>1 DEF Receive
<1>3. wire[e] # <<>>
  BY DEF Receive
<1> QED
  BY <1>1, <1>2, <1>3, HeadTailProperties

\* One message of the server's more is out, or one more is taken, or none.
LEMMA ServerCounts ==
  ASSUME Types, Types', Counted, NEW here, NEW there, At("server", here, there),
         there \in ServerStates, there # "accept", here = "accept" => conn # "none",
         \/ /\ UNCHANGED wire
            /\ ServerSent(here) = ServerSent(there)
            /\ ServerReceived(here) = ServerReceived(there)
         \/ /\ \E m : Send("server", m)
            /\ ServerSent(here) + 1 = ServerSent(there)
            /\ ServerReceived(here) = ServerReceived(there)
         \/ /\ Receive("server")
            /\ ServerSent(here) = ServerSent(there)
            /\ ServerReceived(here) + 1 = ServerReceived(there)
  PROVE  Counted'
<1>1. /\ pc["server"] = here /\ pc'["server"] = there
      /\ pc'["client"] = pc["client"] /\ UNCHANGED conn
  BY AtLemma, BothEnds
<1>2. conn # "none"
  BY <1>1 DEF Counted
<1>3. /\ Len(wire["client"]) \in Nat /\ Len(wire["server"]) \in Nat
      /\ conn \in {"none", "open", "broken"}
  BY BothEnds, LenProperties DEF Types
<1>4. ASSUME conn = "open" PROVE NothingIsLost'
  <2>1. NothingIsLost
    BY <1>4 DEF Counted
  <2>2. CASE /\ UNCHANGED wire
             /\ ServerSent(here) = ServerSent(there)
             /\ ServerReceived(here) = ServerReceived(there)
    BY <1>1, <2>1, <2>2 DEF NothingIsLost
  <2>3. CASE /\ \E m : Send("server", m)
             /\ ServerSent(here) + 1 = ServerSent(there)
             /\ ServerReceived(here) = ServerReceived(there)
    <3>1. /\ Len(wire'["server"]) = Len(wire["server"])
          /\ Len(wire'["client"]) = Len(wire["client"]) + 1
      BY <1>4, <2>3, CountSent, BothEnds
    <3>2. ClientReceived(pc["client"]) \in Nat
      BY DEF ClientReceived
    <3> QED
      BY <1>1, <1>3, <2>1, <2>3, <3>1, <3>2 DEF NothingIsLost
  <2>4. CASE /\ Receive("server")
             /\ ServerSent(here) = ServerSent(there)
             /\ ServerReceived(here) + 1 = ServerReceived(there)
    <3>1. /\ Len(wire'["server"]) = Len(wire["server"]) - 1
          /\ Len(wire'["client"]) = Len(wire["client"])
      BY <2>4, CountReceived, BothEnds
    <3>2. ServerReceived(here) \in Nat
      BY DEF ServerReceived
    <3> QED
      BY <1>1, <1>3, <2>1, <2>4, <3>1, <3>2 DEF NothingIsLost
  <2> QED
    BY <2>2, <2>3, <2>4
<1> QED
  BY <1>1, <1>2, <1>3, <1>4 DEF Counted

LEMMA ClientCounts ==
  ASSUME Types, Types', Counted, NEW here, NEW there, At("client", here, there),
         there \in ClientStates, here \in {"csr", "dial"} <=> there \in {"csr", "dial"},
         \/ /\ UNCHANGED wire
            /\ ClientSent(here) = ClientSent(there)
            /\ ClientReceived(here) = ClientReceived(there)
         \/ /\ \E m : Send("client", m)
            /\ here \notin {"csr", "dial"}
            /\ ClientSent(here) + 1 = ClientSent(there)
            /\ ClientReceived(here) = ClientReceived(there)
         \/ /\ Receive("client")
            /\ here \notin {"csr", "dial"}
            /\ ClientSent(here) = ClientSent(there)
            /\ ClientReceived(here) + 1 = ClientReceived(there)
  PROVE  Counted'
<1>1. /\ pc["client"] = here /\ pc'["client"] = there
      /\ pc'["server"] = pc["server"] /\ UNCHANGED conn
  BY AtLemma, BothEnds
<1>2. /\ Len(wire["client"]) \in Nat /\ Len(wire["server"]) \in Nat
      /\ conn \in {"none", "open", "broken"}
  BY BothEnds, LenProperties DEF Types
<1>3. ASSUME conn # "broken" PROVE NothingIsLost'
  <2>1. NothingIsLost
    BY <1>3 DEF Counted
  <2>2. CASE /\ UNCHANGED wire
             /\ ClientSent(here) = ClientSent(there)
             /\ ClientReceived(here) = ClientReceived(there)
    BY <1>1, <2>1, <2>2 DEF NothingIsLost
  <2>3. CASE /\ \E m : Send("client", m)
             /\ here \notin {"csr", "dial"}
             /\ ClientSent(here) + 1 = ClientSent(there)
             /\ ClientReceived(here) = ClientReceived(there)
    <3>0. conn = "open"
      BY <1>1, <1>2, <1>3, <2>3 DEF Counted
    <3>1. /\ Len(wire'["client"]) = Len(wire["client"])
          /\ Len(wire'["server"]) = Len(wire["server"]) + 1
      BY <3>0, <2>3, CountSent, BothEnds
    <3>2. ServerReceived(pc["server"]) \in Nat
      BY DEF ServerReceived
    <3> QED
      BY <1>1, <1>2, <2>1, <2>3, <3>1, <3>2 DEF NothingIsLost
  <2>4. CASE /\ Receive("client")
             /\ here \notin {"csr", "dial"}
             /\ ClientSent(here) = ClientSent(there)
             /\ ClientReceived(here) + 1 = ClientReceived(there)
    <3>1. /\ Len(wire'["client"]) = Len(wire["client"]) - 1
          /\ Len(wire'["server"]) = Len(wire["server"])
      BY <2>4, CountReceived, BothEnds
    <3>2. ClientReceived(here) \in Nat
      BY DEF ClientReceived
    <3> QED
      BY <1>1, <1>2, <2>1, <2>4, <3>1, <3>2 DEF NothingIsLost
  <2> QED
    BY <2>2, <2>3, <2>4
<1> QED
  BY <1>1, <1>2, <1>3 DEF Counted

LEMMA InitCounted == Init => Counted
BY BothEnds DEF Init, Counted, NothingIsLost, ServerSent, ClientSent,
                ServerReceived, ClientReceived

LEMMA NextCounted == IInv /\ IInv' /\ Counted /\ [Next]_vars => Counted'
<1> SUFFICES ASSUME IInv, IInv', Counted, [Next]_vars PROVE Counted'
  OBVIOUS
<1> USE DEF IInv
<1>1. CASE Accept
  BY <1>1, ServerCounts DEF Accept, ServerStates, ServerSent, ServerReceived
<1>2. CASE ReceiveClientHello
  BY <1>2, ServerCounts
     DEF ReceiveClientHello, ServerStates, ServerSent, ServerReceived
<1>3. CASE SendServerHello
  BY <1>3, ServerCounts DEF SendServerHello, ServerStates, ServerSent, ServerReceived
<1>4. CASE ServerDerive
  BY <1>4, ServerCounts
     DEF ServerDerive, Derive, ServerStates, ServerSent, ServerReceived
<1>5. CASE SendCertificate
  BY <1>5, ServerCounts DEF SendCertificate, ServerStates, ServerSent, ServerReceived
<1>6. CASE SendCertVerify
  BY <1>6, ServerCounts DEF SendCertVerify, ServerStates, ServerSent, ServerReceived
<1>7. CASE SendServerFinished
  BY <1>7, ServerCounts
     DEF SendServerFinished, ServerStates, ServerSent, ServerReceived
<1>8. CASE ReceiveClientFinished
  BY <1>8, ServerCounts
     DEF ReceiveClientFinished, ServerStates, ServerSent, ServerReceived
<1>9. CASE HandleCSR
  BY <1>9, ClientCounts DEF HandleCSR, ClientStates, ClientSent, ClientReceived
<1>10. CASE Dial
  <2>1. /\ pc["client"] = "dial" /\ pc'["client"] = "hello"
        /\ pc'["server"] = pc["server"] /\ conn' = "open" /\ UNCHANGED wire
    BY <1>10, BothEnds DEF Dial, Types
  <2>2. conn = "none" /\ pc["server"] = "accept" /\ NothingIsLost
    BY <2>1 DEF Counted
  <2> QED
    BY <2>1, <2>2 DEF Counted, NothingIsLost, ClientSent, ClientReceived
<1>11. CASE SendClientHello
  BY <1>11, ClientCounts DEF SendClientHello, ClientStates, ClientSent, ClientReceived
<1>12. CASE ReceiveServerHello
  BY <1>12, ClientCounts
     DEF ReceiveServerHello, ClientStates, ClientSent, ClientReceived
<1>13. CASE ClientDerive
  BY <1>13, ClientCounts
     DEF ClientDerive, Derive, ClientStates, ClientSent, ClientReceived
<1>14. CASE ReceiveCertificate
  BY <1>14, ClientCounts
     DEF ReceiveCertificate, ClientStates, ClientSent, ClientReceived
<1>15. CASE ReceiveCertVerify
  BY <1>15, ClientCounts
     DEF ReceiveCertVerify, ClientStates, ClientSent, ClientReceived
<1>16. CASE ReceiveServerFinished
  BY <1>16, ClientCounts
     DEF ReceiveServerFinished, ClientStates, ClientSent, ClientReceived
<1>17. CASE SendClientFinished
  BY <1>17, ClientCounts
     DEF SendClientFinished, ClientStates, ClientSent, ClientReceived
<1>18. CASE Listen \/ Return \/ Fatal \/ UNCHANGED vars
  <2>1. UNCHANGED <<pc, conn, wire>>
    BY <1>18 DEF Listen, Return, Fatal, vars
  <2> QED
    BY <2>1 DEF Counted, NothingIsLost
<1>19. CASE Break
  BY <1>19 DEF Break, Counted
<1>20. CASE Noise
  <2>1. PICK e \in Ends : \E i \in 1..Len(wire[e]) : \E m \in Changed(wire[e][i]) :
          wire' = [wire EXCEPT ![e][i] = m]
    BY <1>20 DEF Noise
  <2>2. PICK i \in 1..Len(wire[e]) : \E m \in Changed(wire[e][i]) :
          wire' = [wire EXCEPT ![e][i] = m]
    BY <2>1
  <2>3. PICK m \in Changed(wire[e][i]) : wire' = [wire EXCEPT ![e][i] = m]
    BY <2>2
  <2>4. UNCHANGED <<pc, conn>>
    BY <1>20 DEF Noise
  <2>5. ASSUME NEW x \in Ends PROVE Len(wire'[x]) = Len(wire[x])
    <3>1. wire[x] \in Seq(Messages) /\ wire[e] \in Seq(Messages)
      BY DEF Types
    <3>2. Len([wire[e] EXCEPT ![i] = m]) = Len(wire[e])
      BY <3>1, ExceptSeq
    <3> QED
      BY <2>3, <3>1, <3>2 DEF Types
  <2> QED
    BY <2>4, <2>5, BothEnds DEF Counted, NothingIsLost
<1> QED
  BY <1>1, <1>2, <1>3, <1>4, <1>5, <1>6, <1>7, <1>8, <1>9, <1>10, <1>11, <1>12,
     <1>13, <1>14, <1>15, <1>16, <1>17, <1>18, <1>19, <1>20
     DEF Next, ServerNext, ClientNext

\* Until the connection breaks no message is missing, so the client never blocks
\* in Decode for one that the server, waiting itself or done, will not write: only
\* a value that does not end leaves both waiting.
THEOREM NoEndWaitsInVain == Spec => []NobodyWaitsInVain
<1>1. IInv /\ Counted => NobodyWaitsInVain
  <2> SUFFICES ASSUME IInv, Counted, Blocked("client"), Blocked("server"),
                      \A e \in Ends : ~Stalled(e)
               PROVE  FALSE
    BY DEF NobodyWaitsInVain
  <2>1. /\ pc["client"] \in {"serverHello", "certificate", "certVerify", "finished"}
        /\ wire["client"] = <<>> /\ conn # "broken"
    BY BothEnds DEF Blocked, Waiting, IInv, Types, ClientStates
  <2>2. conn = "open" /\ NothingIsLost
    BY <2>1 DEF Counted, IInv, Types
  <2>3. pc["server"] = "verified" \/ pc["server"] \in {"clientHello", "finished"}
    BY <2>2, BothEnds DEF Blocked, Waiting, IInv, Types, ServerStates
  <2>4. pc["server"] # "verified" => wire["server"] = <<>>
    BY <2>2, <2>3, BothEnds DEF Blocked, Waiting
  <2>5. ClientReceived(pc["client"]) = ServerSent(pc["server"])
    BY <2>1, <2>2 DEF NothingIsLost, ClientReceived
  <2>6. CASE pc["server"] = "clientHello"
    BY <2>1, <2>2, <2>4, <2>6 DEF NothingIsLost, ServerReceived, ClientSent
  <2>7. CASE pc["server"] \in {"finished", "verified"}
    BY <2>1, <2>5, <2>7 DEF ClientReceived, ServerSent
  <2> QED
    BY <2>3, <2>6, <2>7
<1> QED
  BY <1>1, Invariance, InitCounted, NextCounted, PTL DEF Spec

-----------------------------------------------------------------------------
(* The handshake implements Agreement.                                     *)

Offered == pc["server"] \in {"finished", "verified"}
OfferOf == IF Offered THEN View("server") ELSE NoSession
ConcludedOf == [e \in Ends |-> IF Concluded(e) THEN View(e) ELSE NoSession]

\* What the server signed is a session.
LEMMA SignedSession ==
  ASSUME IInv, HasSigned
  PROVE  View("server") # NoSession
<1>1. transcript["server"] = Full(transcript["server"][1])
  BY DEF IInv, ServerPart
<1>2. ASSUME NEW a, NEW b, NEW c, NEW d PROVE <<a, b, c, d>> # <<>>
  OBVIOUS
<1>3. transcript["server"] # <<>>
  BY <1>1, <1>2, Zenon DEF Full
<1>4. View("server").transcript # NoSession.transcript
  BY <1>3 DEF View, NoSession
<1> QED
  BY <1>4

\* A step that neither offers nor concludes leaves the abstract state.
LEMMA OthersStutter ==
  ASSUME UNCHANGED run, UNCHANGED Offered,
         Offered => UNCHANGED View("server"),
         \A e \in Ends : UNCHANGED Concluded(e),
         \A e \in Ends : Concluded(e) => UNCHANGED View(e)
  PROVE  UNCHANGED Ag!vars
<1>1. UNCHANGED OfferOf
  BY DEF OfferOf, NoSession
<1>2. UNCHANGED ConcludedOf
  BY DEF ConcludedOf, NoSession
<1> QED
  BY <1>1, <1>2 DEF Ag!vars, OfferOf, Offered, ConcludedOf

LEMMA ServerStutters ==
  ASSUME IInv, NEW here, NEW there \in ServerStates, At("server", here, there),
         here \notin {"finished", "verified"}, there \notin {"finished", "verified"},
         secret'["client"] = secret["client"],
         transcript'["client"] = transcript["client"]
  PROVE  UNCHANGED Ag!vars
<1>1. /\ pc["server"] = here /\ pc'["server"] = there
      /\ pc'["client"] = pc["client"] /\ UNCHANGED run
  BY AtLemma, BothEnds DEF IInv
<1>2. /\ ~Offered /\ UNCHANGED Offered
      /\ ~Concluded("server") /\ UNCHANGED Concluded("server")
  BY <1>1 DEF Offered, Concluded
<1>3. UNCHANGED Concluded("client") /\ UNCHANGED View("client")
  BY <1>1 DEF Concluded, View
<1> QED
  BY <1>1, <1>2, <1>3, OthersStutter DEF Ends

LEMMA ClientStutters ==
  ASSUME IInv, NEW here, NEW there \in ClientStates, At("client", here, there),
         (here \in {"sendFinished", "sleep"} /\ there \in {"sendFinished", "sleep"}
            /\ UNCHANGED <<secret, transcript>>)
           \/ (here \notin {"sendFinished", "sleep"}
                 /\ there \notin {"sendFinished", "sleep"}),
         secret'["server"] = secret["server"],
         transcript'["server"] = transcript["server"]
  PROVE  UNCHANGED Ag!vars
<1>1. /\ pc["client"] = here /\ pc'["client"] = there
      /\ pc'["server"] = pc["server"] /\ UNCHANGED run
  BY AtLemma, BothEnds DEF IInv
<1>2. UNCHANGED Offered /\ UNCHANGED Concluded("server") /\ UNCHANGED View("server")
  BY <1>1 DEF Offered, Concluded, View
<1>3. UNCHANGED Concluded("client") /\ (Concluded("client") => UNCHANGED View("client"))
  BY <1>1 DEF Concluded, View
<1> QED
  BY <1>1, <1>2, <1>3, OthersStutter DEF Ends

\* The secret and the transcript of an end are changed by that end only.
LEMMA OwnState ==
  ASSUME IInv, NEW e \in Ends
  PROVE  /\ \A m : Hash(e, m) => transcript'[Other(e)] = transcript[Other(e)]
         /\ \A there : Derive(e, there) =>
              /\ secret'[Other(e)] = secret[Other(e)]
              /\ UNCHANGED transcript
BY DEF IInv, Types, Hash, Derive, Ends, Other

LEMMA Stutters ==
  ASSUME IInv,
         \/ Listen \/ Accept \/ ReceiveClientHello \/ SendServerHello
         \/ ServerDerive \/ SendCertificate \/ SendCertVerify
         \/ HandleCSR \/ Dial \/ SendClientHello \/ ReceiveServerHello
         \/ ClientDerive \/ ReceiveCertificate \/ ReceiveCertVerify
         \/ SendClientFinished \/ Break \/ Noise \/ UNCHANGED vars
  PROVE  UNCHANGED Ag!vars
<1>1. CASE Listen \/ Break \/ Noise \/ UNCHANGED vars
  <2>1. UNCHANGED <<run, pc, secret, transcript>>
    BY <1>1 DEF Listen, Break, Noise, vars
  <2> QED
    BY <2>1, OthersStutter DEF Offered, Concluded, View
<1>2. CASE Dial
  <2>1. /\ pc["client"] = "dial" /\ pc'["client"] = "hello"
        /\ pc'["server"] = pc["server"]
        /\ UNCHANGED <<run, secret, transcript>>
    BY <1>2 DEF Dial, IInv, Types, Ends
  <2> QED
    BY <2>1, OthersStutter DEF Offered, Concluded, View, Ends
<1>3. CASE Accept
  BY <1>3, ServerStutters DEF Accept, ServerStates
<1>4. CASE ReceiveClientHello
  BY <1>4, ServerStutters, OwnState, BothEnds DEF ReceiveClientHello, ServerStates
<1>5. CASE SendServerHello
  BY <1>5, ServerStutters, OwnState, BothEnds DEF SendServerHello, ServerStates
<1>6. CASE ServerDerive
  BY <1>6, ServerStutters, OwnState, BothEnds DEF ServerDerive, Derive, ServerStates
<1>7. CASE SendCertificate
  BY <1>7, ServerStutters, OwnState, BothEnds DEF SendCertificate, ServerStates
<1>8. CASE SendCertVerify
  BY <1>8, ServerStutters, OwnState, BothEnds DEF SendCertVerify, ServerStates
<1>9. CASE HandleCSR
  BY <1>9, ClientStutters DEF HandleCSR, ClientStates
<1>10. CASE SendClientHello
  BY <1>10, ClientStutters, OwnState, BothEnds DEF SendClientHello, ClientStates
<1>11. CASE ReceiveServerHello
  BY <1>11, ClientStutters, OwnState, BothEnds DEF ReceiveServerHello, ClientStates
<1>12. CASE ClientDerive
  BY <1>12, ClientStutters, OwnState, BothEnds DEF ClientDerive, Derive, ClientStates
<1>13. CASE ReceiveCertificate
  BY <1>13, ClientStutters, OwnState, BothEnds DEF ReceiveCertificate, ClientStates
<1>14. CASE ReceiveCertVerify
  BY <1>14, ClientStutters, OwnState, BothEnds DEF ReceiveCertVerify, ClientStates
<1>15. CASE SendClientFinished
  BY <1>15, ClientStutters DEF SendClientFinished, ClientStates
<1> QED
  BY <1>1, <1>2, <1>3, <1>4, <1>5, <1>6, <1>7, <1>8, <1>9, <1>10, <1>11, <1>12,
     <1>13, <1>14, <1>15

LEMMA StepsOfAgreement ==
  ASSUME IInv, IInv', [Next]_vars
  PROVE  [Ag!Next]_Ag!vars
<1>1. CASE Fatal \/ Return
  <2>1. run = "running" /\ run' # "running" /\ UNCHANGED <<pc, secret, transcript>>
    BY <1>1 DEF Fatal, Return
  <2>2. UNCHANGED OfferOf /\ UNCHANGED ConcludedOf
    BY <2>1 DEF OfferOf, ConcludedOf, Offered, Concluded, View, NoSession
  <2>3. Ag!Stop
    BY <2>1, <2>2 DEF Ag!Stop, OfferOf, Offered, ConcludedOf
  <2> QED
    BY <2>3 DEF Ag!Next
<1>2. CASE SendServerFinished
  <2>1. /\ pc["server"] = "sendFinished" /\ pc'["server"] = "finished"
        /\ pc'["client"] = pc["client"]
        /\ run = "running" /\ UNCHANGED <<run, secret, transcript>>
    BY <1>2, AtLemma, BothEnds DEF SendServerFinished, At, IInv, ServerStates
  <2>2. OfferOf = NoSession /\ OfferOf' = View("server")
    BY <2>1 DEF OfferOf, Offered, View
  <2>3. View("server") # NoSession
    BY <2>1, SignedSession DEF HasSigned
  <2>4. UNCHANGED ConcludedOf
    BY <2>1 DEF ConcludedOf, Concluded, View, NoSession, Ends
  <2>5. Ag!Offer
    BY <2>1, <2>2, <2>3, <2>4 DEF Ag!Offer, OfferOf, Offered, ConcludedOf
  <2> QED
    BY <2>5 DEF Ag!Next
<1>3. CASE ReceiveServerFinished
  <2>1. /\ pc["client"] = "finished" /\ pc'["client"] = "sendFinished"
        /\ pc'["server"] = pc["server"]
        /\ run = "running" /\ UNCHANGED <<run, secret, transcript>>
    BY <1>3, AtLemma, BothEnds DEF ReceiveServerFinished, At, IInv, ClientStates
  <2>2. Offered /\ Offered' /\ HasSigned
    BY <2>1 DEF Offered, IInv, ClientPart, HasSigned
  <2>3. View("client") = View("server") /\ View("server") # NoSession
    BY <2>1, <2>2, SignedSession DEF IInv, ClientPart
  <2>4. OfferOf = View("server") /\ UNCHANGED OfferOf
    BY <2>1, <2>2 DEF OfferOf, View
  <2>5. ConcludedOf["client"] = NoSession
    BY <2>1, BothEnds DEF ConcludedOf, Concluded
  <2>6. ConcludedOf' = [ConcludedOf EXCEPT !["client"] = OfferOf]
    BY <2>1, <2>3, <2>4 DEF ConcludedOf, Concluded, View, NoSession, Ends
  <2>7. Ag!Conclude("client")
    BY <2>1, <2>3, <2>4, <2>5, <2>6
       DEF Ag!Conclude, OfferOf, Offered, ConcludedOf
  <2> QED
    BY <2>7 DEF Ag!Next, Ag!Ends
<1>4. CASE ReceiveClientFinished
  <2>1. /\ pc["server"] = "finished" /\ pc'["server"] = "verified"
        /\ pc'["client"] = pc["client"]
        /\ run = "running" /\ UNCHANGED <<run, secret, transcript>>
    BY <1>4, AtLemma, BothEnds DEF ReceiveClientFinished, At, IInv, ServerStates
  <2>2. pc["client"] = "sleep" /\ HasSigned
    BY <2>1 DEF IInv, ClientPart, HasSigned
  <2>3. View("client") = View("server") /\ View("server") # NoSession
    BY <2>2, SignedSession DEF IInv, ClientPart
  <2>4. OfferOf = View("server") /\ UNCHANGED OfferOf
    BY <2>1 DEF OfferOf, Offered, View
  <2>5. ConcludedOf["server"] = NoSession /\ ConcludedOf["client"] # NoSession
    BY <2>1, <2>2, <2>3, BothEnds DEF ConcludedOf, Concluded
  <2>6. ConcludedOf' = [ConcludedOf EXCEPT !["server"] = OfferOf]
    BY <2>1, <2>4 DEF ConcludedOf, Concluded, View, NoSession, Ends
  <2>7. Ag!Conclude("server")
    BY <2>1, <2>3, <2>4, <2>5, <2>6
       DEF Ag!Conclude, OfferOf, Offered, ConcludedOf
  <2> QED
    BY <2>7 DEF Ag!Next, Ag!Ends
<1> QED
  BY <1>1, <1>2, <1>3, <1>4, Stutters DEF Next, ServerNext, ClientNext

\* Whatever changes on the way, the two ends conclude with the secret and the
\* transcript of the server, the client first, or not at all.
THEOREM ImplementsAgreement == Spec => AgreementSpec
<1>1. Init => Ag!Init
  <2> SUFFICES ASSUME Init PROVE Ag!Init
    OBVIOUS
  <2>1. ~Offered /\ (\A e \in Ends : ~Concluded(e)) /\ run = "running"
    BY DEF Init, Offered, Concluded, Ends
  <2>2. ConcludedOf = [e \in Ends |-> NoSession]
    BY <2>1 DEF ConcludedOf
  <2> QED
    BY <2>1, <2>2 DEF Ag!Init, Offered, ConcludedOf, Ends, Ag!Ends
<1> QED
  BY <1>1, Invariance, StepsOfAgreement, PTL DEF Spec, AgreementSpec, Ag!Spec

=============================================================================
