----------------------------- MODULE Agreement ------------------------------
(***************************************************************************)
(* What the handshake of go-tls is for, without keys, messages or          *)
(* encryption: the server offers one session, and whoever concludes the    *)
(* handshake concludes that session, the client first.  It may be given up *)
(* at any time, by both at once, since both live in one process.           *)
(***************************************************************************)
CONSTANT NoSession

VARIABLES
  offer,      \* the session the server vouches for, or NoSession
  concluded,  \* concluded[e]: the session end e has, or NoSession
  over        \* nothing more will happen

vars == <<offer, concluded, over>>

Ends == {"client", "server"}

Init ==
  /\ offer = NoSession
  /\ concluded = [e \in Ends |-> NoSession]
  /\ over = FALSE

Offer ==
  /\ ~over
  /\ offer = NoSession
  /\ offer' # NoSession
  /\ UNCHANGED <<concluded, over>>

Conclude(e) ==
  /\ ~over
  /\ offer # NoSession
  /\ concluded[e] = NoSession
  /\ e = "server" => concluded["client"] # NoSession
  /\ concluded' = [concluded EXCEPT ![e] = offer]
  /\ UNCHANGED <<offer, over>>

Stop ==
  /\ ~over
  /\ over' = TRUE
  /\ UNCHANGED <<offer, concluded>>

Next == Offer \/ Stop \/ \E e \in Ends : Conclude(e)

Spec == Init /\ [][Next]_vars
=============================================================================
