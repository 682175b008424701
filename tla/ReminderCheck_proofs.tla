----------------------- MODULE ReminderCheck_proofs -----------------------
(***************************************************************************)
(* Proofs about ReminderCheck, for every calendar, set of connections and  *)
(* events, and any number of runs a day.                                   *)
(***************************************************************************)
EXTENDS ReminderCheck, TLAPS

\* What a run has in hand is due today and not yet sent by this run.
HandIsDue ==
  /\ phase \in {"idle", "load"} => todo = {}
  /\ \A e \in todo \cup ({current} \ {NoEvent}) :
       ShouldReach(e, day) /\ sent[e][day] < runs[day]
  /\ phase = "load" => \A e \in Events : sent[e][day] < runs[day]
  /\ current \notin todo

\* Every message that went out was due on its day.
SentWasDue ==
  \A e \in Events, d \in Days : sent[e][d] > 0 => ShouldReach(e, d)

\* Of what is due and can be sent, nothing is dropped between load and end.
NothingDropped ==
  /\ outcome = "done" => phase = "idle" /\ todo = {}
  /\ phase \in {"loop", "send"} \/ outcome = "done" =>
       \A e \in Events :
         Of[e] \in loaded \cap WithPhone /\ ShouldReach(e, day) =>
           e \in tried \cup todo \cup {current}

IInv ==
  /\ TypeOK
  /\ HandIsDue
  /\ SentWasDue
  /\ NothingDropped
  /\ SentOncePerRun

LEMMA InitIInv == Init => IInv
BY ReminderAssumption
   DEF Init, IInv, TypeOK, HandIsDue, SentWasDue, NothingDropped,
       SentOncePerRun, Days, Phases, Outcomes

-----------------------------------------------------------------------------
(* One lemma for each action.                                              *)

LEMMA NextDayIInv == IInv /\ NextDay => IInv'
<1> SUFFICES ASSUME IInv, NextDay PROVE IInv'
  OBVIOUS
<1> USE ReminderAssumption DEF IInv
<1>1. TypeOK'
  <2>1. day' \in Days
    <3>1. day \in 0..LastDay /\ day < LastDay /\ day' = day + 1
      BY DEF NextDay, TypeOK, Days
    <3> QED
      BY <3>1, LastDay \in Nat DEF Days
  <2>2. UNCHANGED <<stored, runs, phase, loaded, todo, current, tried, sent>>
    BY DEF NextDay
  <2>3. outcome' \in Outcomes
    BY DEF NextDay, Outcomes
  <2> QED
    BY <2>1, <2>2, <2>3 DEF TypeOK
<1>2. todo = {} /\ current = NoEvent
  BY DEF NextDay, TypeOK, HandIsDue
<1>3. HandIsDue'
  BY <1>2 DEF NextDay, HandIsDue
<1> QED
  BY <1>1, <1>3 DEF NextDay, SentWasDue, NothingDropped, SentOncePerRun

LEMMA AddConnectionIInv ==
  ASSUME IInv, NEW c \in Connections, AddConnection(c)
  PROVE  IInv'
<1>1. TypeOK'
  BY DEF IInv, AddConnection, TypeOK, runVars
<1> QED
  BY <1>1 DEF IInv, AddConnection, HandIsDue, SentWasDue, NothingDropped,
              SentOncePerRun, runVars

LEMMA StartCheckIInv == IInv /\ StartCheck => IInv'
<1> SUFFICES ASSUME IInv, StartCheck PROVE IInv'
  OBVIOUS
<1> USE ReminderAssumption DEF IInv
<1>1. TypeOK'
  BY DEF StartCheck, TypeOK, Phases, Outcomes
<1>2. todo = {} /\ current = NoEvent
  BY DEF StartCheck, TypeOK, HandIsDue
<1>3. \A e \in Events, d \in Days :
        /\ sent[e][d] \in Nat /\ runs[d] \in Nat /\ runs'[d] \in Nat
        /\ runs[d] <= runs'[d]
        /\ d = day => runs'[d] = runs[d] + 1
  BY DEF StartCheck, TypeOK
<1>4. HandIsDue'
  BY <1>2, <1>3 DEF StartCheck, HandIsDue, SentOncePerRun, TypeOK
<1>5. SentOncePerRun'
  BY <1>3 DEF StartCheck, SentOncePerRun
<1> QED
  BY <1>1, <1>4, <1>5 DEF StartCheck, SentWasDue, NothingDropped

LEMMA LoadIInv == IInv /\ Load => IInv'
<1> SUFFICES ASSUME IInv, Load PROVE IInv'
  OBVIOUS
<1> USE ReminderAssumption DEF IInv
<1>1. TypeOK'
  BY DEF Load, TypeOK, FindReachouts, Phases
<1>2. current = NoEvent /\ outcome # "done"
  BY DEF Load, TypeOK, NothingDropped
<1>3. HandIsDue'
  BY <1>2 DEF Load, HandIsDue, FindReachouts
<1>4. NothingDropped'
  BY <1>2 DEF Load, NothingDropped, FindReachouts
<1> QED
  BY <1>1, <1>3, <1>4 DEF Load, SentWasDue, SentOncePerRun

LEMMA AbortIInv == IInv /\ Abort => IInv'
<1> SUFFICES ASSUME IInv, Abort PROVE IInv'
  OBVIOUS
<1> USE ReminderAssumption DEF IInv
<1>1. TypeOK'
  BY DEF Abort, End, TypeOK, Phases, Outcomes
<1> QED
  BY <1>1 DEF Abort, End, HandIsDue, SentWasDue, NothingDropped, SentOncePerRun

LEMMA FinishIInv == IInv /\ Finish => IInv'
<1> SUFFICES ASSUME IInv, Finish PROVE IInv'
  OBVIOUS
<1> USE ReminderAssumption DEF IInv
<1>1. TypeOK'
  BY DEF Finish, End, TypeOK, Phases, Outcomes
<1>2. NothingDropped'
  BY DEF Finish, End, NothingDropped, TypeOK
<1> QED
  BY <1>1, <1>2 DEF Finish, End, HandIsDue, SentWasDue, SentOncePerRun

LEMMA CraftIInv ==
  ASSUME IInv, NEW e \in Events, Craft(e)
  PROVE  IInv'
<1> USE ReminderAssumption DEF IInv
<1>1. /\ current = NoEvent /\ outcome # "done"
      /\ UNCHANGED <<day, stored, runs, loaded, outcome, tried, sent>>
      /\ todo' = todo \ {e} /\ e \in todo
  BY DEF Craft, TypeOK, NothingDropped
<1>2. \/ Of[e] \in WithPhone /\ phase' = "send" /\ current' = e
      \/ Of[e] \notin WithPhone /\ phase' = "loop" /\ current' = NoEvent
  BY <1>1 DEF Craft
<1>3. TypeOK'
  BY <1>1, <1>2 DEF TypeOK, Phases
<1>4. HandIsDue'
  BY <1>1, <1>2 DEF HandIsDue, TypeOK
<1>5. NothingDropped'
  BY <1>1, <1>2 DEF Craft, NothingDropped
<1> QED
  BY <1>1, <1>3, <1>4, <1>5 DEF SentWasDue, SentOncePerRun

LEMMA SendIInv == IInv /\ Send => IInv'
<1> SUFFICES ASSUME IInv, Send PROVE IInv'
  OBVIOUS
<1> USE ReminderAssumption DEF IInv
<1>1. /\ current \in Events /\ current \notin todo /\ NoEvent \notin todo
      /\ ShouldReach(current, day) /\ sent[current][day] < runs[day]
      /\ day \in Days /\ runs[day] \in Nat /\ sent[current][day] \in Nat
      /\ outcome # "done"
  BY DEF Send, TypeOK, HandIsDue, NothingDropped
<1>2. /\ UNCHANGED <<day, stored, runs, loaded, todo, outcome>>
      /\ tried' = tried \cup {current} /\ current' = NoEvent
      /\ phase' = "loop" /\ phase = "send"
  BY DEF Send
<1>3. \/ sent' = sent
      \/ sent' = [sent EXCEPT ![current][day] = @ + 1]
  BY DEF Send, Delivered
<1>4. \A f \in Events, d \in Days :
        \/ sent'[f][d] = sent[f][d]
        \/ f = current /\ d = day /\ sent'[f][d] = sent[f][d] + 1
  BY <1>1, <1>3 DEF TypeOK
<1>5. sent' \in [Events -> [Days -> Nat]]
  <2> DEFINE row == [sent[current] EXCEPT ![day] = @ + 1]
  <2>1. row \in [Days -> Nat]
    BY <1>1 DEF TypeOK
  <2>2. sent' = sent \/ sent' = [sent EXCEPT ![current] = row]
    BY <1>3
  <2> HIDE DEF row
  <2> QED
    BY <1>1, <2>1, <2>2 DEF TypeOK
<1>6. TypeOK'
  BY <1>1, <1>2, <1>5 DEF TypeOK, Phases
<1>7. HandIsDue'
  BY <1>1, <1>2, <1>4 DEF HandIsDue, TypeOK
<1>8. SentWasDue' /\ SentOncePerRun'
  BY <1>1, <1>2, <1>4 DEF SentWasDue, SentOncePerRun, TypeOK
<1>9. NothingDropped'
  BY <1>1, <1>2 DEF NothingDropped
<1> QED
  BY <1>6, <1>7, <1>8, <1>9

LEMMA NextIInv == IInv /\ [Next]_vars => IInv'
<1> SUFFICES ASSUME IInv, [Next]_vars PROVE IInv'
  OBVIOUS
<1>1. CASE UNCHANGED vars
  BY <1>1 DEF vars, IInv, TypeOK, HandIsDue, SentWasDue, NothingDropped,
              SentOncePerRun
<1>2. CASE Next
  BY <1>2, NextDayIInv, AddConnectionIInv, StartCheckIInv, LoadIInv, AbortIInv,
     CraftIInv, SendIInv, FinishIInv
     DEF Next
<1> QED
  BY <1>1, <1>2

\* The inductive invariant holds in every reachable state.
THEOREM SpecIInv == Spec => []IInv
BY InitIInv, NextIInv, PTL DEF Spec

-----------------------------------------------------------------------------
(* What follows from the invariant alone.                                  *)

\* The clock, the collection and the check stay in their states.
THEOREM TypeCorrect == Spec => []TypeOK
<1>1. IInv => TypeOK
  BY DEF IInv
<1> QED
  BY <1>1, SpecIInv, PTL

\* However sends fail and runs end, no run sends two messages about an event
\* (main's loop takes up each reminder once).
THEOREM OncePerRun == Spec => []SentOncePerRun
<1>1. IInv => SentOncePerRun
  BY DEF IInv
<1> QED
  BY <1>1, SpecIInv, PTL

-----------------------------------------------------------------------------
(* What also needs the calendar.                                           *)

\* From one midnight to another is at least 24 hours for each day between, and
\* less than one day more: the clocks may go back once, and never forward.
WholeDays ==
  \A d, f \in Days :
    d <= f => LET hours == Midnight[f] - Midnight[d]
              IN  24 * (f - d) <= hours /\ hours < 24 * (f - d) + 24

\* On such a calendar the number of days that findReachouts computes is right.
LEMMA DaysSinceIsRight ==
  ASSUME WholeDays, NEW e \in Events, NEW today \in Days
  PROVE  ShouldReach(e, today) <=> today = DueDay(e)
<1> USE ReminderAssumption
<1>1. DayOf(e) \in Days
  BY DEF DayOf
<1> DEFINE from == DayOf(e)
           hours == Midnight[today] - Midnight[from]
<1>2. from \in Int /\ today \in Int /\ hours \in Int
  BY <1>1 DEF Days
<1>3. from <= today =>
        24 * (today - from) <= hours /\ hours < 24 * (today - from) + 24
  BY <1>1, <1>2 DEF WholeDays
<1>4. today < from => hours < 0
  <2>1. Midnight[from] \in Int /\ Midnight[today] \in Int
    BY <1>1 DEF Days
  <2>2. today <= from => 24 * (from - today) <= Midnight[from] - Midnight[today]
    BY <1>1 DEF WholeDays
  <2> QED
    BY <1>2, <2>1, <2>2
<1>5. from <= today => hours \div 24 = today - from
  <2> HIDE DEF from, hours
  <2> QED
    BY <1>2, <1>3
<1>6. today < from => hours \div 24 < 0
  <2> HIDE DEF from, hours
  <2> QED
    BY <1>2, <1>4
<1>7. DaysSince(e, today) = hours \div 24 /\ DayOf(e) = from
  BY DEF DaysSince
<1> HIDE DEF from, hours
<1>8. hours \div 24 \in Int
  BY <1>2
<1> QED
  BY <1>2, <1>5, <1>6, <1>7, <1>8 DEF ShouldReach, DueDay

\* Unless the clocks go forward, no message goes out on a day that is not the
\* one findReachouts means.
THEOREM OnTime == ASSUME WholeDays PROVE Spec => []OnTheRightDay
<1>1. IInv => OnTheRightDay
  BY DaysSinceIsRight DEF IInv, SentWasDue, OnTheRightDay
<1> QED
  BY <1>1, SpecIInv, PTL

\* Unless the clocks go forward, a run that ends by itself has tried to send
\* everything that is due, whichever sends failed.
THEOREM DueAreTried == ASSUME WholeDays PROVE Spec => []DueIsTried
<1>1. IInv => DueIsTried
  <2> SUFFICES ASSUME IInv, outcome = "done", NEW e \in Events,
                      Of[e] \in loaded \cap WithPhone, DueDay(e) = day
               PROVE  e \in tried
    BY DEF DueIsTried
  <2>1. ShouldReach(e, day)
    BY DaysSinceIsRight DEF IInv, TypeOK
  <2>2. todo = {} /\ current = NoEvent /\ e # NoEvent
    BY ReminderAssumption DEF IInv, TypeOK, NothingDropped
  <2> QED
    BY <2>1, <2>2 DEF IInv, NothingDropped
<1> QED
  BY <1>1, SpecIInv, PTL

=============================================================================
