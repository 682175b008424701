------------------------ MODULE ReachoutIngest_proofs ------------------------
(***************************************************************************)
(* Proofs about ReachoutIngest, for any finite number of requests at once, *)
(* any senders and texts, and any bound on what is sent.                   *)
(*                                                                         *)
(* A confirmation is backed by a row only because the request that sends   *)
(* it stored one of its own, and a row by a message only because its       *)
(* request came of one.  So the ledger is kept with what is still to be    *)
(* done counted in: a request that may still store, confirm or answer has  *)
(* reserved its entry.                                                     *)
(***************************************************************************)
EXTENDS ReachoutIngest, FiniteSetTheorems, TLAPS

Places == {"idle", "parse", "insert", "confirm", "apologise"}
ToStore == {"parse", "insert"}
ToConfirm == {"confirm"}
ToAnswer == {"parse", "insert", "confirm", "apologise"}

\* The requests of s about x that are at one of the places P, and their number.
CallsAt(P, s, x) == {c \in Calls : at[c] \in P /\ from[c] = s /\ text[c] = x}
Open(P, s, x) == Cardinality(CallsAt(P, s, x))

-----------------------------------------------------------------------------
(* The inductive invariant.                                                *)

Counts == [Senders -> [Texts -> Nat]]

Types ==
  /\ at \in [Calls -> Places]
  /\ from \in [Calls -> Senders]
  /\ text \in [Calls -> Texts]
  /\ rows \in Counts /\ sends \in Counts
  /\ confirmed \in Counts /\ sorry \in Counts

SendsBounded == \A s \in Senders, x \in Texts : sends[s][x] <= MaxSends

RowsReserved ==
  \A s \in Senders, x \in Texts : rows[s][x] + Open(ToStore, s, x) <= sends[s][x]
ConfirmationsReserved ==
  \A s \in Senders, x \in Texts :
    confirmed[s][x] + Open(ToConfirm, s, x) <= rows[s][x]
AnswersReserved ==
  \A s \in Senders, x \in Texts : sorry[s][x] + Open(ToAnswer, s, x) <= sends[s][x]

IInv ==
  /\ Types
  /\ SendsBounded
  /\ RowsReserved
  /\ ConfirmationsReserved
  /\ AnswersReserved

-----------------------------------------------------------------------------
(* Counting the requests at some places.                                   *)

Mine(c, s, x) == from[c] = s /\ text[c] = x

LEMMA OpenIsNat ==
  ASSUME NEW P, NEW s, NEW x
  PROVE  /\ IsFiniteSet(CallsAt(P, s, x)) /\ Open(P, s, x) \in Nat
         /\ IsFiniteSet(CallsAt(P, s, x)') /\ Open(P, s, x)' \in Nat
<1>1. IsFiniteSet(Calls)
  BY IngestAssumption
<1>2. CallsAt(P, s, x) \in SUBSET Calls /\ CallsAt(P, s, x)' \in SUBSET Calls
  BY DEF CallsAt
<1>3. IsFiniteSet(CallsAt(P, s, x)) /\ IsFiniteSet(CallsAt(P, s, x)')
  BY <1>1, <1>2, FS_Subset
<1> QED
  BY <1>3, FS_CardinalityType DEF Open

\* How many are at P when request c, which was at here, is there.
Moved(c, P, here, there, s, x) ==
  /\ ~Mine(c, s, x) \/ (here \in P <=> there \in P) =>
       Open(P, s, x)' = Open(P, s, x)
  /\ Mine(c, s, x) /\ here \notin P /\ there \in P =>
       Open(P, s, x)' = Open(P, s, x) + 1
  /\ Mine(c, s, x) /\ here \in P /\ there \notin P =>
       Open(P, s, x)' = Open(P, s, x) - 1

\* One request goes from one place to another.
LEMMA OneMoves ==
  ASSUME Types, NEW c \in Calls, NEW there \in Places,
         at' = [at EXCEPT ![c] = there], UNCHANGED <<from, text>>,
         NEW P \in SUBSET Places, NEW s, NEW x
  PROVE  Moved(c, P, at[c], there, s, x)
<1> DEFINE A == CallsAt(P, s, x)
<1>1. \A d \in Calls : at'[d] = IF d = c THEN there ELSE at[d]
  BY DEF Types
<1>2. CASE ~Mine(c, s, x) \/ (at[c] \in P <=> there \in P)
  <2>1. A' = A
    BY <1>1, <1>2 DEF CallsAt, Mine
  <2> QED
    BY <1>2, <2>1 DEF Moved, Open
<1>3. CASE Mine(c, s, x) /\ at[c] \notin P /\ there \in P
  <2>1. A' = A \cup {c} /\ c \notin A
    BY <1>1, <1>3 DEF CallsAt, Mine
  <2>2. Cardinality(A \cup {c}) = Cardinality(A) + 1
    BY <2>1, OpenIsNat, FS_AddElement
  <2> QED
    BY <1>3, <2>1, <2>2 DEF Moved, Open
<1>4. CASE Mine(c, s, x) /\ at[c] \in P /\ there \notin P
  <2>1. A' = A \ {c} /\ c \in A
    BY <1>1, <1>4 DEF CallsAt, Mine
  <2>2. Cardinality(A \ {c}) = Cardinality(A) - 1
    BY <2>1, OpenIsNat, FS_RemoveElement
  <2> QED
    BY <1>4, <2>1, <2>2 DEF Moved, Open
<1> QED
  BY <1>2, <1>3, <1>4

\* A request is made in a slot that was free.
LEMMA OneBegins ==
  ASSUME Types, NEW c \in Calls, at[c] = "idle",
         NEW s0 \in Senders, NEW x0 \in Texts,
         at' = [at EXCEPT ![c] = "parse"],
         from' = [from EXCEPT ![c] = s0], text' = [text EXCEPT ![c] = x0],
         NEW P \in SUBSET (Places \ {"idle"}), NEW s, NEW x
  PROVE  /\ s = s0 /\ x = x0 /\ "parse" \in P =>
              Open(P, s, x)' = Open(P, s, x) + 1
         /\ ~(s = s0 /\ x = x0 /\ "parse" \in P) =>
              Open(P, s, x)' = Open(P, s, x)
<1> DEFINE A == CallsAt(P, s, x)
<1>1. \A d \in Calls : /\ at'[d] = IF d = c THEN "parse" ELSE at[d]
                       /\ from'[d] = IF d = c THEN s0 ELSE from[d]
                       /\ text'[d] = IF d = c THEN x0 ELSE text[d]
  BY DEF Types
<1>2. c \notin A
  BY DEF CallsAt
<1>3. CASE s = s0 /\ x = x0 /\ "parse" \in P
  <2>1. A' = A \cup {c}
    BY <1>1, <1>3 DEF CallsAt
  <2>2. Cardinality(A \cup {c}) = Cardinality(A) + 1
    BY <1>2, OpenIsNat, FS_AddElement
  <2> QED
    BY <1>3, <2>1, <2>2 DEF Open
<1>4. CASE ~(s = s0 /\ x = x0 /\ "parse" \in P)
  <2>1. A' = A
    BY <1>1, <1>2, <1>4 DEF CallsAt
  <2> QED
    BY <1>4, <2>1 DEF Open
<1> QED
  BY <1>3, <1>4

\* Nobody is anywhere after a restart.
LEMMA NoneOpen ==
  ASSUME at = [c \in Calls |-> "idle"],
         NEW P \in SUBSET (Places \ {"idle"}), NEW s, NEW x
  PROVE  Open(P, s, x) = 0
<1>1. CallsAt(P, s, x) = {}
  BY DEF CallsAt
<1> QED
  BY <1>1, FS_EmptySet DEF Open

LEMMA NoneOpenNext ==
  ASSUME at' = [c \in Calls |-> "idle"],
         NEW P \in SUBSET (Places \ {"idle"}), NEW s, NEW x
  PROVE  Open(P, s, x)' = 0
<1>1. CallsAt(P, s, x)' = {}
  BY DEF CallsAt
<1> QED
  BY <1>1, FS_EmptySet DEF Open

\* More counts one for the request's sender and text, and Perhaps at most one.
LEMMA MoreLemma ==
  ASSUME Types, NEW c \in Calls, NEW count \in Counts
  PROVE  /\ More(count, c) \in Counts
         /\ \A s \in Senders, x \in Texts :
              More(count, c)[s][x] =
                IF Mine(c, s, x) THEN count[s][x] + 1 ELSE count[s][x]
<1>1. from[c] \in Senders /\ text[c] \in Texts
  BY DEF Types
<1> QED
  BY <1>1 DEF More, Mine, Counts

LEMMA PerhapsLemma ==
  ASSUME Types, NEW c \in Calls, NEW count \in Counts, NEW n \in Perhaps(count, c)
  PROVE  /\ n \in Counts
         /\ \A s \in Senders, x \in Texts :
              /\ count[s][x] <= n[s][x]
              /\ Mine(c, s, x) => n[s][x] <= count[s][x] + 1
              /\ ~Mine(c, s, x) => n[s][x] = count[s][x]
<1>1. n = count \/ n = More(count, c)
  BY DEF Perhaps
<1>2. \A s \in Senders, x \in Texts : count[s][x] \in Nat
  BY DEF Counts
<1>3. CASE n = count
  BY <1>2, <1>3
<1>4. CASE n = More(count, c)
  BY <1>2, <1>4, MoreLemma
<1> QED
  BY <1>1, <1>3, <1>4

\* What a count says of one sender and text is a number.
LEMMA CountsAreNat ==
  ASSUME Types, NEW s \in Senders, NEW x \in Texts
  PROVE  /\ rows[s][x] \in Nat /\ sends[s][x] \in Nat
         /\ confirmed[s][x] \in Nat /\ sorry[s][x] \in Nat
BY DEF Types, Counts

-----------------------------------------------------------------------------
(* One lemma for each action.                                              *)

LEMMA GoesLemma ==
  ASSUME Types, NEW c \in Calls, NEW here, NEW there \in Places,
         Goes(c, here, there), UNCHANGED <<from, text>>
  PROVE  /\ at' \in [Calls -> Places] /\ at[c] = here
         /\ \A P \in SUBSET Places : \A s \in Senders, x \in Texts :
              Moved(c, P, here, there, s, x)
<1>1. at[c] = here /\ at' = [at EXCEPT ![c] = there] /\ at' \in [Calls -> Places]
  BY DEF Goes, Types
<1>2. ASSUME NEW P \in SUBSET Places, NEW s \in Senders, NEW x \in Texts
      PROVE  Moved(c, P, at[c], there, s, x)
  BY <1>1, OneMoves
<1> QED
  BY <1>1, <1>2

LEMMA PlacesLemma ==
  /\ ToStore \in SUBSET Places /\ ToConfirm \in SUBSET Places
  /\ ToAnswer \in SUBSET Places
  /\ ToStore \in SUBSET (Places \ {"idle"})
  /\ ToConfirm \in SUBSET (Places \ {"idle"})
  /\ ToAnswer \in SUBSET (Places \ {"idle"})
BY DEF ToStore, ToConfirm, ToAnswer, Places

\* What a request at place has reserved among the entries for P.
In(place, P) == IF place \in P THEN 1 ELSE 0

\* A request that goes on may add to the ledger what it gives up of reservations.
LEMMA GoesIInv ==
  ASSUME IInv, NEW c \in Calls, NEW here \in Places, NEW there \in Places,
         Goes(c, here, there), UNCHANGED <<from, text, sends>>,
         rows' \in Counts, confirmed' \in Counts, sorry' \in Counts,
         \A s \in Senders, x \in Texts :
           IF Mine(c, s, x)
           THEN /\ rows'[s][x] + In(there, ToStore) <= rows[s][x] + In(here, ToStore)
                /\ confirmed'[s][x] + In(there, ToConfirm) + rows[s][x]
                     <= confirmed[s][x] + In(here, ToConfirm) + rows'[s][x]
                /\ sorry'[s][x] + In(there, ToAnswer) <= sorry[s][x] + In(here, ToAnswer)
           ELSE /\ rows'[s][x] = rows[s][x]
                /\ confirmed'[s][x] = confirmed[s][x]
                /\ sorry'[s][x] = sorry[s][x]
  PROVE  IInv'
<1>1. /\ at' \in [Calls -> Places]
      /\ \A P \in SUBSET Places : \A s \in Senders, x \in Texts :
           Moved(c, P, here, there, s, x)
  BY GoesLemma DEF IInv
<1>2. Types' /\ SendsBounded'
  BY <1>1 DEF IInv, Types, SendsBounded
<1>3. ASSUME NEW s \in Senders, NEW x \in Texts
      PROVE  /\ rows'[s][x] + Open(ToStore, s, x)' <= sends'[s][x]
             /\ confirmed'[s][x] + Open(ToConfirm, s, x)' <= rows'[s][x]
             /\ sorry'[s][x] + Open(ToAnswer, s, x)' <= sends'[s][x]
  <2>1. /\ rows[s][x] + Open(ToStore, s, x) <= sends[s][x]
        /\ confirmed[s][x] + Open(ToConfirm, s, x) <= rows[s][x]
        /\ sorry[s][x] + Open(ToAnswer, s, x) <= sends[s][x]
    BY DEF IInv, RowsReserved, ConfirmationsReserved, AnswersReserved
  <2>2. /\ rows[s][x] \in Nat /\ sends[s][x] \in Nat
        /\ confirmed[s][x] \in Nat /\ sorry[s][x] \in Nat
        /\ rows'[s][x] \in Nat /\ sends'[s][x] = sends[s][x]
        /\ confirmed'[s][x] \in Nat /\ sorry'[s][x] \in Nat
    BY CountsAreNat DEF IInv, Counts
  <2>3. \A P : Open(P, s, x) \in Nat /\ Open(P, s, x)' \in Nat
    BY OpenIsNat
  <2>4. /\ Moved(c, ToStore, here, there, s, x) /\ Moved(c, ToConfirm, here, there, s, x)
        /\ Moved(c, ToAnswer, here, there, s, x)
    BY <1>1, PlacesLemma
  <2>5. CASE ~Mine(c, s, x)
    BY <2>1, <2>2, <2>4, <2>5 DEF Moved
  <2>6. CASE Mine(c, s, x)
    <3>1. Open(ToStore, s, x)' + In(here, ToStore)
            = Open(ToStore, s, x) + In(there, ToStore)
      BY <2>3, <2>4, <2>6 DEF Moved, In
    <3>2. Open(ToConfirm, s, x)' + In(here, ToConfirm)
            = Open(ToConfirm, s, x) + In(there, ToConfirm)
      BY <2>3, <2>4, <2>6 DEF Moved, In
    <3>3. Open(ToAnswer, s, x)' + In(here, ToAnswer)
            = Open(ToAnswer, s, x) + In(there, ToAnswer)
      BY <2>3, <2>4, <2>6 DEF Moved, In
    <3>4. \A place, P : In(place, P) \in Nat
      BY DEF In
    <3> QED
      BY <2>1, <2>2, <2>3, <2>6, <3>1, <3>2, <3>3, <3>4
  <2> QED
    BY <2>5, <2>6
<1> QED
  BY <1>2, <1>3 DEF IInv, RowsReserved, ConfirmationsReserved, AnswersReserved

LEMMA ParseIInv ==
  ASSUME IInv, NEW c \in Calls, Parse(c)
  PROVE  IInv'
<1>1. Goes(c, "parse", "insert") /\ UNCHANGED <<from, text, rows, sends, confirmed, sorry>>
  BY DEF Parse
<1>2. /\ rows \in Counts /\ confirmed \in Counts /\ sorry \in Counts
      /\ \A s \in Senders, x \in Texts :
           rows[s][x] \in Nat /\ confirmed[s][x] \in Nat /\ sorry[s][x] \in Nat
  BY DEF IInv, Types, Counts
<1> QED
  BY <1>1, <1>2, GoesIInv DEF In, ToStore, ToConfirm, ToAnswer, Places

LEMMA ParseFailsIInv ==
  ASSUME IInv, NEW c \in Calls, ParseFails(c)
  PROVE  IInv'
<1>1. Goes(c, "parse", "apologise") /\ UNCHANGED <<from, text, rows, sends, confirmed, sorry>>
  BY DEF ParseFails
<1>2. /\ rows \in Counts /\ confirmed \in Counts /\ sorry \in Counts
      /\ \A s \in Senders, x \in Texts :
           rows[s][x] \in Nat /\ confirmed[s][x] \in Nat /\ sorry[s][x] \in Nat
  BY DEF IInv, Types, Counts
<1> QED
  BY <1>1, <1>2, GoesIInv DEF In, ToStore, ToConfirm, ToAnswer, Places

LEMMA InsertIInv ==
  ASSUME IInv, NEW c \in Calls, Insert(c)
  PROVE  IInv'
<1>1. Goes(c, "insert", "confirm") /\ UNCHANGED <<from, text, sends, confirmed, sorry>>
  BY DEF Insert
<1>2. /\ rows \in Counts /\ confirmed \in Counts /\ sorry \in Counts
      /\ \A s \in Senders, x \in Texts :
           rows[s][x] \in Nat /\ confirmed[s][x] \in Nat /\ sorry[s][x] \in Nat
  BY DEF IInv, Types, Counts
<1>3. /\ rows' \in Counts
      /\ \A s \in Senders, x \in Texts :
           /\ Mine(c, s, x) => rows'[s][x] = rows[s][x] + 1
           /\ ~Mine(c, s, x) => rows'[s][x] = rows[s][x]
           /\ rows'[s][x] \in Nat
  BY <1>2, MoreLemma DEF Insert, IInv, Counts
<1> QED
  BY <1>1, <1>2, <1>3, GoesIInv DEF In, ToStore, ToConfirm, ToAnswer, Places

LEMMA InsertFailsIInv ==
  ASSUME IInv, NEW c \in Calls, InsertFails(c)
  PROVE  IInv'
<1>1. Goes(c, "insert", "apologise") /\ UNCHANGED <<from, text, sends, confirmed, sorry>>
  BY DEF InsertFails
<1>2. /\ rows \in Counts /\ confirmed \in Counts /\ sorry \in Counts
      /\ \A s \in Senders, x \in Texts :
           rows[s][x] \in Nat /\ confirmed[s][x] \in Nat /\ sorry[s][x] \in Nat
  BY DEF IInv, Types, Counts
<1>3. /\ rows' \in Counts
      /\ \A s \in Senders, x \in Texts :
           /\ rows[s][x] <= rows'[s][x]
           /\ Mine(c, s, x) => rows'[s][x] <= rows[s][x] + 1
           /\ ~Mine(c, s, x) => rows'[s][x] = rows[s][x]
           /\ rows'[s][x] \in Nat
  BY <1>2, PerhapsLemma DEF InsertFails, IInv, Counts
<1> QED
  BY <1>1, <1>2, <1>3, GoesIInv DEF In, ToStore, ToConfirm, ToAnswer, Places

LEMMA ConfirmIInv ==
  ASSUME IInv, NEW c \in Calls, Confirm(c)
  PROVE  IInv'
<1>1. Goes(c, "confirm", "idle") /\ UNCHANGED <<from, text, rows, sends, sorry>>
  BY DEF Confirm
<1>2. /\ rows \in Counts /\ confirmed \in Counts /\ sorry \in Counts
      /\ \A s \in Senders, x \in Texts :
           rows[s][x] \in Nat /\ confirmed[s][x] \in Nat /\ sorry[s][x] \in Nat
  BY DEF IInv, Types, Counts
<1>3. /\ confirmed' \in Counts
      /\ \A s \in Senders, x \in Texts :
           /\ Mine(c, s, x) => confirmed'[s][x] = confirmed[s][x] + 1
           /\ ~Mine(c, s, x) => confirmed'[s][x] = confirmed[s][x]
           /\ confirmed'[s][x] \in Nat
  BY <1>2, MoreLemma DEF Confirm, IInv, Counts
<1> QED
  BY <1>1, <1>2, <1>3, GoesIInv DEF In, ToStore, ToConfirm, ToAnswer, Places

LEMMA ConfirmFailsIInv ==
  ASSUME IInv, NEW c \in Calls, ConfirmFails(c)
  PROVE  IInv'
<1>1. Goes(c, "confirm", "apologise") /\ UNCHANGED <<from, text, rows, sends, sorry>>
  BY DEF ConfirmFails
<1>2. /\ rows \in Counts /\ confirmed \in Counts /\ sorry \in Counts
      /\ \A s \in Senders, x \in Texts :
           rows[s][x] \in Nat /\ confirmed[s][x] \in Nat /\ sorry[s][x] \in Nat
  BY DEF IInv, Types, Counts
<1>3. /\ confirmed' \in Counts
      /\ \A s \in Senders, x \in Texts :
           /\ confirmed[s][x] <= confirmed'[s][x]
           /\ Mine(c, s, x) => confirmed'[s][x] <= confirmed[s][x] + 1
           /\ ~Mine(c, s, x) => confirmed'[s][x] = confirmed[s][x]
           /\ confirmed'[s][x] \in Nat
  BY <1>2, PerhapsLemma DEF ConfirmFails, IInv, Counts
<1> QED
  BY <1>1, <1>2, <1>3, GoesIInv DEF In, ToStore, ToConfirm, ToAnswer, Places

LEMMA ApologiseIInv ==
  ASSUME IInv, NEW c \in Calls, Apologise(c)
  PROVE  IInv'
<1>1. Goes(c, "apologise", "idle") /\ UNCHANGED <<from, text, rows, sends, confirmed>>
  BY DEF Apologise
<1>2. /\ rows \in Counts /\ confirmed \in Counts /\ sorry \in Counts
      /\ \A s \in Senders, x \in Texts :
           rows[s][x] \in Nat /\ confirmed[s][x] \in Nat /\ sorry[s][x] \in Nat
  BY DEF IInv, Types, Counts
<1>3. /\ sorry' \in Counts
      /\ \A s \in Senders, x \in Texts :
           /\ sorry[s][x] <= sorry'[s][x]
           /\ Mine(c, s, x) => sorry'[s][x] <= sorry[s][x] + 1
           /\ ~Mine(c, s, x) => sorry'[s][x] = sorry[s][x]
           /\ sorry'[s][x] \in Nat
  BY <1>2, PerhapsLemma DEF Apologise, IInv, Counts
<1> QED
  BY <1>1, <1>2, <1>3, GoesIInv DEF In, ToStore, ToConfirm, ToAnswer, Places

LEMMA ReceiveIInv ==
  ASSUME IInv, NEW c \in Calls, NEW s0 \in Senders, NEW x0 \in Texts,
         Post(c, s0, x0) \/ TryAgain(c, s0, x0)
  PROVE  IInv'
<1>1. /\ at[c] = "idle" /\ at' = [at EXCEPT ![c] = "parse"]
      /\ from' = [from EXCEPT ![c] = s0] /\ text' = [text EXCEPT ![c] = x0]
      /\ sends[s0][x0] < MaxSends
      /\ sends' = [sends EXCEPT ![s0][x0] = @ + 1]
      /\ UNCHANGED <<rows, confirmed>>
  BY DEF Post, TryAgain, Receive, Goes
<1>2. \/ sorry' = sorry
      \/ sorry[s0][x0] > 0 /\ sorry' = [sorry EXCEPT ![s0][x0] = @ - 1]
  BY DEF Post, TryAgain
<1>3. at' \in [Calls -> Places] /\ from' \in [Calls -> Senders] /\ text' \in [Calls -> Texts]
  BY <1>1 DEF IInv, Types, Places
<1>4. /\ sends' \in Counts
      /\ \A s \in Senders, x \in Texts :
           sends'[s][x] = IF s = s0 /\ x = x0 THEN sends[s][x] + 1 ELSE sends[s][x]
  BY <1>1 DEF IInv, Types, Counts
<1>5. /\ sorry' \in Counts
      /\ \A s \in Senders, x \in Texts : sorry'[s][x] <= sorry[s][x]
  <2>1. CASE sorry' = sorry
    BY <2>1 DEF IInv, Types, Counts
  <2>2. CASE sorry[s0][x0] > 0 /\ sorry' = [sorry EXCEPT ![s0][x0] = @ - 1]
    BY <2>2 DEF IInv, Types, Counts
  <2> QED
    BY <1>2, <2>1, <2>2
<1>6. Types'
  BY <1>1, <1>3, <1>4, <1>5 DEF IInv, Types
<1>7. SendsBounded'
  BY <1>1, <1>4, IngestAssumption, CountsAreNat DEF IInv, SendsBounded
<1>8. ASSUME NEW P \in SUBSET (Places \ {"idle"}), NEW s, NEW x
      PROVE  /\ s = s0 /\ x = x0 /\ "parse" \in P =>
                  Open(P, s, x)' = Open(P, s, x) + 1
             /\ ~(s = s0 /\ x = x0 /\ "parse" \in P) =>
                  Open(P, s, x)' = Open(P, s, x)
  BY <1>1, OneBegins DEF IInv
<1>9. RowsReserved'
  <2> SUFFICES ASSUME NEW s \in Senders, NEW x \in Texts
               PROVE  rows'[s][x] + Open(ToStore, s, x)' <= sends'[s][x]
    BY DEF RowsReserved
  <2>1. /\ rows[s][x] + Open(ToStore, s, x) <= sends[s][x]
        /\ rows[s][x] \in Nat /\ sends[s][x] \in Nat
    BY CountsAreNat DEF IInv, RowsReserved
  <2>2. Open(ToStore, s, x) \in Nat
    BY OpenIsNat
  <2>3. rows'[s][x] \in Nat /\ sends'[s][x] \in Nat
    BY <1>6 DEF Types, Counts
  <2>4. /\ s = s0 /\ x = x0 /\ "parse" \in ToStore =>
             Open(ToStore, s, x)' = Open(ToStore, s, x) + 1
        /\ ~(s = s0 /\ x = x0 /\ "parse" \in ToStore) =>
             Open(ToStore, s, x)' = Open(ToStore, s, x)
    BY <1>8, PlacesLemma
  <2> QED
    BY <1>1, <1>4, <2>1, <2>2, <2>3, <2>4 DEF ToStore
<1>10. ConfirmationsReserved'
  <2> SUFFICES ASSUME NEW s \in Senders, NEW x \in Texts
               PROVE  confirmed'[s][x] + Open(ToConfirm, s, x)' <= rows'[s][x]
    BY DEF ConfirmationsReserved
  <2>1. /\ confirmed[s][x] + Open(ToConfirm, s, x) <= rows[s][x]
        /\ confirmed[s][x] \in Nat /\ rows[s][x] \in Nat
    BY CountsAreNat DEF IInv, ConfirmationsReserved
  <2>2. Open(ToConfirm, s, x) \in Nat
    BY OpenIsNat
  <2>3. confirmed'[s][x] \in Nat /\ rows'[s][x] \in Nat
    BY <1>6 DEF Types, Counts
  <2>4. /\ s = s0 /\ x = x0 /\ "parse" \in ToConfirm =>
             Open(ToConfirm, s, x)' = Open(ToConfirm, s, x) + 1
        /\ ~(s = s0 /\ x = x0 /\ "parse" \in ToConfirm) =>
             Open(ToConfirm, s, x)' = Open(ToConfirm, s, x)
    BY <1>8, PlacesLemma
  <2> QED
    BY <1>1, <2>1, <2>2, <2>3, <2>4 DEF ToConfirm
<1>11. AnswersReserved'
  <2> SUFFICES ASSUME NEW s \in Senders, NEW x \in Texts
               PROVE  sorry'[s][x] + Open(ToAnswer, s, x)' <= sends'[s][x]
    BY DEF AnswersReserved
  <2>1. /\ sorry[s][x] + Open(ToAnswer, s, x) <= sends[s][x]
        /\ sorry[s][x] \in Nat /\ sends[s][x] \in Nat
    BY CountsAreNat DEF IInv, AnswersReserved
  <2>2. Open(ToAnswer, s, x) \in Nat
    BY OpenIsNat
  <2>3. sorry'[s][x] \in Nat /\ sends'[s][x] \in Nat
    BY <1>6 DEF Types, Counts
  <2>4. /\ s = s0 /\ x = x0 /\ "parse" \in ToAnswer =>
             Open(ToAnswer, s, x)' = Open(ToAnswer, s, x) + 1
        /\ ~(s = s0 /\ x = x0 /\ "parse" \in ToAnswer) =>
             Open(ToAnswer, s, x)' = Open(ToAnswer, s, x)
    BY <1>8, PlacesLemma
  <2> QED
    BY <1>4, <1>5, <2>1, <2>2, <2>3, <2>4 DEF ToAnswer
<1> QED
  BY <1>6, <1>7, <1>9, <1>10, <1>11 DEF IInv

LEMMA CrashIInv ==
  ASSUME IInv, Crash
  PROVE  IInv'
<1>1. /\ at' = [c \in Calls |-> "idle"]
      /\ UNCHANGED <<from, text, rows, sends, confirmed, sorry>>
  BY DEF Crash
<1>2. Types' /\ SendsBounded'
  BY <1>1 DEF IInv, Types, SendsBounded, Places
<1>4. ASSUME NEW s \in Senders, NEW x \in Texts
      PROVE  /\ Open(ToStore, s, x)' = 0 /\ Open(ToConfirm, s, x)' = 0
             /\ Open(ToAnswer, s, x)' = 0
  BY <1>1, PlacesLemma, NoneOpenNext
<1>5. RowsReserved' /\ ConfirmationsReserved' /\ AnswersReserved'
  BY <1>1, <1>4, OpenIsNat, CountsAreNat
     DEF IInv, RowsReserved, ConfirmationsReserved, AnswersReserved
<1> QED
  BY <1>2, <1>5 DEF IInv

-----------------------------------------------------------------------------
(* The invariant, and what it implies.                                     *)

LEMMA InitIInv == Init => IInv
<1> SUFFICES ASSUME Init PROVE IInv
  OBVIOUS
<1>1. /\ at = [c \in Calls |-> "idle"]
      /\ rows = NoneOf /\ sends = NoneOf /\ confirmed = NoneOf /\ sorry = NoneOf
  BY DEF Init
<1>2. NoneOf \in Counts /\ \A s \in Senders, x \in Texts : NoneOf[s][x] = 0
  BY DEF NoneOf, Counts
<1>3. from \in [Calls -> Senders] /\ text \in [Calls -> Texts]
  BY IngestAssumption DEF Init
<1>4. Types /\ SendsBounded
  BY <1>1, <1>2, <1>3, IngestAssumption DEF Types, SendsBounded, Places
<1>6. ASSUME NEW s \in Senders, NEW x \in Texts
      PROVE  /\ Open(ToStore, s, x) = 0 /\ Open(ToConfirm, s, x) = 0
             /\ Open(ToAnswer, s, x) = 0
  BY <1>1, PlacesLemma, NoneOpen
<1>7. RowsReserved /\ ConfirmationsReserved /\ AnswersReserved
  BY <1>1, <1>2, <1>6
     DEF RowsReserved, ConfirmationsReserved, AnswersReserved
<1> QED
  BY <1>4, <1>7 DEF IInv

LEMMA NextIInv == IInv /\ [Next]_vars => IInv'
<1> SUFFICES ASSUME IInv, [Next]_vars PROVE IInv'
  OBVIOUS
<1>1. ASSUME NEW c \in Calls, NEW s \in Senders, NEW x \in Texts,
             Post(c, s, x) \/ TryAgain(c, s, x)
      PROVE  IInv'
  BY <1>1, ReceiveIInv
<1>2. ASSUME NEW c \in Calls,
             \/ Parse(c) \/ ParseFails(c) \/ Insert(c) \/ InsertFails(c)
             \/ Confirm(c) \/ ConfirmFails(c) \/ Apologise(c)
      PROVE  IInv'
  BY <1>2, ParseIInv, ParseFailsIInv, InsertIInv, InsertFailsIInv, ConfirmIInv,
     ConfirmFailsIInv, ApologiseIInv
<1>3. CASE Crash
  BY <1>3, CrashIInv
<1>4. CASE UNCHANGED vars
  BY <1>4 DEF vars, callVars, IInv, Types, SendsBounded, RowsReserved,
     ConfirmationsReserved, AnswersReserved, Open, CallsAt
<1> QED
  BY <1>1, <1>2, <1>3, <1>4 DEF Next

THEOREM Invariance == Spec => []IInv
BY InitIInv, NextIInv, PTL DEF Spec

\* Every request stays in its states, and there are never more apologies that a
\* sender has not tried again after than times that sender sent the text.
THEOREM TypeCorrect == Spec => []TypeOK
<1>1. IInv => TypeOK
  <2> SUFFICES ASSUME IInv PROVE TypeOK
    OBVIOUS
  <2>1. ASSUME NEW s \in Senders, NEW x \in Texts
        PROVE  sends[s][x] \in 0..MaxSends /\ sorry[s][x] \in 0..sends[s][x]
    BY CountsAreNat, OpenIsNat, IngestAssumption
       DEF IInv, SendsBounded, AnswersReserved
  <2> QED
    BY <2>1, CountsAreNat DEF IInv, Types, TypeOK, Places
<1> QED
  BY <1>1, Invariance, PTL

\* Whatever fails and whoever tries again, what was confirmed is stored, and the
\* server by itself stores nothing twice.
THEOREM NothingLostOrDoubled == Spec => []LedgerBalances
<1>1. IInv => LedgerBalances
  <2> SUFFICES ASSUME IInv, NEW s \in Senders, NEW x \in Texts
               PROVE  confirmed[s][x] <= rows[s][x] /\ rows[s][x] <= sends[s][x]
    BY DEF LedgerBalances
  <2> QED
    BY CountsAreNat, OpenIsNat DEF IInv, RowsReserved, ConfirmationsReserved
<1> QED
  BY <1>1, Invariance, PTL
=============================================================================
