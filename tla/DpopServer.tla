----------------------------- MODULE DpopServer -----------------------------
(***************************************************************************)
(* go-react-dpop's server: it takes a proof of possession once, issues     *)
(* tokens bound to the proof's key and serves a resource to whoever shows  *)
(* such a token with a proof under the same key; next to it the same with  *)
(* plain bearer tokens.                                                    *)
(*                                                                         *)
(* Time is counted in ticks, Second of them to a second, because iat and   *)
(* exp are whole seconds and an entry of the jti cache is not.  Keys are   *)
(* numbers, 0 for none.  Signatures, methods and URLs are always right:    *)
(* the page, the only client here, makes a proof for the request it sends. *)
(***************************************************************************)
EXTENDS Naturals

CONSTANTS
  Jtis,      \* identifiers of proofs
  Second,    \* ticks to a second
  Window,    \* 60: a proof is fresh, and its jti kept, for this many seconds
  Life       \* 3600: how long a token is good

ASSUME ServerAssumption ==
  /\ Second \in Nat \ {0}
  /\ Window \in Nat \ {0}
  /\ Life \in Nat \ {0}

VARIABLES
  now,       \* the clock, one for browser and server, which share a machine
  jtiCache   \* jtiCache[j]: when the entry of j expires, 0 if it was never added

serverVars == <<now, jtiCache>>

ServerInit ==
  /\ now = 1
  /\ jtiCache = [j \in Jtis |-> 0]

Sec(t) == t \div Second

\* validateDPoPProof up to the cache: iat is not too old.
Fresh(iat) == Sec(now) - iat <= Window

\* An entry counts until its time is past.
Used(j) == now <= jtiCache[j]

\* Variant: a duration without its unit, which is nanoseconds.
CacheLifeUnitless == 0

CacheLife == Window * Second

\* jtiCache.Add, before the signature is verified or anything else is looked at.
Add(j) == jtiCache' = [jtiCache EXCEPT ![j] = now + CacheLife]

NoToken == [type |-> "none", key |-> 0, login |-> 0, exp |-> 0]

\* The claims of a token for the page's login; a bearer token has no cnf.
Token(type, key, login) ==
  [type |-> type, key |-> key, login |-> login, exp |-> Sec(now) + Life]

\* jwt.ParseWithClaims: before exp, and not at it.
Valid(token) == now < token.exp * Second

\* What DPoPAuthMiddleware and the handler answer to a proof under key.
ProtectedDPoP(token, key) ==
  IF ~Valid(token) THEN "Invalid token"
  ELSE IF token.key = 0 THEN "Token missing cnf claim"
  ELSE IF token.key # key THEN "DPoP key mismatch"
  ELSE "data"

ProtectedBearer(token) == IF Valid(token) THEN "data" ELSE "Invalid token"

Tick ==
  /\ now' = now + 1
  /\ UNCHANGED jtiCache

\* The cache is in memory; tokens are signed and outlive the process.
Forget == jtiCache' = [j \in Jtis |-> 0]
=============================================================================
