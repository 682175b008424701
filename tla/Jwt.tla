-------------------------------- MODULE Jwt --------------------------------
(***************************************************************************)
(* go-jwt-library: making and verifying tokens with HS256 and RS256.       *)
(*                                                                         *)
(* A token is the sequence of the texts between its dots.  What is not     *)
(* base64 is Garbled; any other text holds some bytes and is spelt as the  *)
(* encoder spells them or otherwise: DecodeString takes line breaks and any *)
(* bits past the last byte.  The bytes are a header, the JSON of a payload *)
(* or a signature, which names its key and the texts that were signed (an  *)
(* RSA key pair is one name, and so are secrets that are one HMAC key).    *)
(***************************************************************************)
EXTENDS Integers, Sequences

CONSTANTS
  Subjects,
  Utf8,        \* Utf8[s]: the subject s, with what is not UTF-8 replaced
  Secrets,     \* for HS256
  KeyPairs,    \* for RS256
  Garbled, NotJson,
  MaxTime,     \* bound on the clock, and on exp
  MaxChanges   \* bound on the changes made to a token

Payloads == [sub : Subjects, iat : {0}, exp : 0..MaxTime]

Spelt(contents) == [holds : contents, spelt : {"as encoded", "otherwise"}]

Signatures ==
  [key : Secrets \cup KeyPairs, over : Spelt({"HS256", "RS256"}) \X Spelt(Payloads)]

\* What is unreadable is no payload and no signature, and a secret no key pair.
ASSUME JwtAssumption ==
  /\ MaxTime \in Nat
  /\ Utf8 \in [Subjects -> Subjects]
  /\ {Garbled, NotJson} \cap Payloads = {}
  /\ Garbled \notin Signatures \cup Spelt(Signatures) \cup Spelt(Payloads)
  /\ Secrets \cap KeyPairs = {}

VARIABLES
  token,    \* the token that somebody presents
  changes,  \* how often it was changed
  clock     \* in seconds

jwtVars == <<token, changes, clock>>

\* Variant: only the payload is signed.
SignedPayload(header, payload) == <<payload>>

\* encodedHeader + "." + encodedPayload
Signed(header, payload) == <<header, payload>>

Signature(key, header, payload) == [key |-> key, over |-> Signed(header, payload)]

EncodeToString(bytes) == [holds |-> bytes, spelt |-> "as encoded"]

DecodeString(text) == IF text = Garbled THEN Garbled ELSE text.holds

\* json.Marshal, by what Unmarshal reads of it.
Marshal(payload) == [payload EXCEPT !.sub = Utf8[@]]

Create(alg, payload, key) ==
  LET header == EncodeToString(alg)
      body == EncodeToString(Marshal(payload))
  IN <<header, body, EncodeToString(Signature(key, header, body))>>

CreateJWTHS256(payload, secret) == Create("HS256", payload, secret)
CreateJWTRS256(payload, privateKey) == Create("RS256", payload, privateKey)

Error(message) == [err |-> message, payload |-> Garbled]

IsSigned(t, key) == DecodeString(t[3]) = Signature(key, t[1], t[2])

\* The token is read and its time looked at before its signature.
VerifyJWTHS256(t, secret) ==
  IF Len(t) # 3 THEN Error("Invalid token")
  ELSE IF t[3] = Garbled THEN Error("Invalid signature")
  ELSE IF DecodeString(t[2]) \in {Garbled, NotJson} THEN Error("Invalid payload")
  ELSE IF clock > DecodeString(t[2]).exp THEN Error("Token expired")
  ELSE IF ~IsSigned(t, secret) THEN Error("Invalid signature")
  ELSE [err |-> "", payload |-> DecodeString(t[2])]

\* The signature comes first.
VerifyJWTRS256(t, publicKey) ==
  IF Len(t) # 3 THEN Error("Invalid token")
  ELSE IF t[3] = Garbled \/ ~IsSigned(t, publicKey) THEN Error("Invalid signature")
  ELSE IF DecodeString(t[2]) \in {Garbled, NotJson} THEN Error("Invalid payload")
  ELSE IF clock > DecodeString(t[2]).exp THEN Error("Token expired")
  ELSE [err |-> "", payload |-> DecodeString(t[2])]

-----------------------------------------------------------------------------
(* A token is made, and may be changed, before somebody verifies it.       *)

Created ==
  {CreateJWTHS256(p, k) : p \in Payloads, k \in Secrets} \cup
  {CreateJWTRS256(p, k) : p \in Payloads, k \in KeyPairs}

JwtInit == token = <<>> /\ changes = 0 /\ clock = 0

Make ==
  /\ token = <<>>
  /\ token' \in Created
  /\ UNCHANGED <<changes, clock>>

\* One part becomes that of another token, or unreadable, or is spelt otherwise.
Change ==
  /\ token # <<>> /\ changes < MaxChanges
  /\ \E i \in 1..Len(token) :
       \/ \E t \in Created : i <= 3 /\ token' = [token EXCEPT ![i] = t[i]]
       \/ token' = [token EXCEPT ![i] = Garbled]
       \/ i = 2 /\ token' = [token EXCEPT ![i] = EncodeToString(NotJson)]
       \/ token[i] # Garbled /\ token' = [token EXCEPT ![i].spelt = "otherwise"]
  /\ changes' = changes + 1
  /\ UNCHANGED clock

\* A dot too many, or one too few.
Resplit ==
  /\ Len(token) = 3 /\ changes < MaxChanges
  /\ token' = Append(token, Garbled) \/ token' = SubSeq(token, 1, 2)
  /\ changes' = changes + 1
  /\ UNCHANGED clock

Second == clock < MaxTime + 1 /\ clock' = clock + 1 /\ UNCHANGED <<token, changes>>

JwtNext == Make \/ Change \/ Resplit \/ Second

JwtSpec == JwtInit /\ [][JwtNext]_jwtVars

-----------------------------------------------------------------------------
(* Properties.                                                             *)

\* A token that a verifier cannot tell from the one made: header and payload are
\* signed as they are spelt, the signature only counts by its bytes.
ReadsAs(t, made) ==
  /\ Len(t) = 3
  /\ t[1] = made[1] /\ t[2] = made[2]
  /\ DecodeString(t[3]) = DecodeString(made[3])

\* A verifier with key k gives a payload back exactly if the token reads as one
\* that was made with k, of a payload that comes out of JSON as this one, and its
\* exp is not past; so the two algorithms take the same tokens although they
\* look in different orders, no token passes for one of the other algorithm, and
\* nothing of a token can be respelt but its signature.
VerifiesWhatWasMade ==
  token # <<>> =>
    /\ \A k \in Secrets, p \in Payloads :
         VerifyJWTHS256(token, k) = [err |-> "", payload |-> p]
           <=> /\ clock <= p.exp
               /\ \E q \in Payloads :
                    Marshal(q) = p /\ ReadsAs(token, CreateJWTHS256(q, k))
    /\ \A k \in KeyPairs, p \in Payloads :
         VerifyJWTRS256(token, k) = [err |-> "", payload |-> p]
           <=> /\ clock <= p.exp
               /\ \E q \in Payloads :
                    Marshal(q) = p /\ ReadsAs(token, CreateJWTRS256(q, k))
=============================================================================
