--------------------------- MODULE ReminderCheck ---------------------------
(***************************************************************************)
(* ai-reachout-reminder/index.ts, the daily check: a process, started once *)
(* or several times a day, that loads every connection, finds the events   *)
(* that need a reachout today, and for each has Claude write a message and *)
(* Twilio send it.  server.ts adds connections at any time.  Nothing       *)
(* records what was sent.                                                  *)
(*                                                                         *)
(* Local time is a calendar: Midnight[d] is the hour, from some origin, at *)
(* which local day d begins.  A day has 24 hours unless the clocks change. *)
(* The order of the reminders is left open: find() promises none.          *)
(***************************************************************************)
EXTENDS Integers

CONSTANTS
  LastDay,      \* bound: the last day on which the check is run
  Midnight,     \* the calendar
  Connections,  \* the connections that may be added
  Unreadable,   \* those saved without an events array
  WithPhone,    \* those that have a phone number
  Events,       \* the events of all of them
  Of,           \* Of[e]: the connection whose event e is
  Birthdays,    \* the events named "birthday"
  At,           \* At[e]: the hour of e, the date Claude made of it in UTC
  NoEvent,      \* no event in hand
  MaxRuns       \* bound: how often the check is started in one day

Days == 0..LastDay

\* Local day d is on at hour h.
IsOn(d, h) == Midnight[d] <= h /\ (d < LastDay => h < Midnight[d + 1])

ASSUME ReminderAssumption ==
  /\ LastDay \in Nat
  /\ Midnight \in [Days -> Nat]
  /\ Unreadable \subseteq Connections
  /\ WithPhone \subseteq Connections
  /\ Of \in [Events -> Connections]
  /\ Birthdays \subseteq Events
  /\ At \in [Events -> Nat]
  /\ \A e \in Events : \E d \in Days : IsOn(d, At[e])
  /\ NoEvent \notin Events
  /\ MaxRuns \in Nat

VARIABLES
  day,      \* the local day
  stored,   \* the connections collection
  runs,     \* runs[d]: how often the check was started on day d (history)
  phase,    \* where the check is
  loaded,   \* the connections this run loaded
  todo,     \* the reminders of this run it has not taken up
  current,  \* the reminder whose message is being sent, or NoEvent
  outcome,  \* how the last run of today ended (history)
  tried,    \* the reminders it passed to Twilio (history)
  sent      \* sent[e][d]: how many messages about e went out on day d (history)

vars == <<day, stored, runs, phase, loaded, todo, current, outcome, tried, sent>>

runVars == <<phase, loaded, todo, current, outcome, tried>>

Phases == {"idle", "load", "loop", "send"}
Outcomes == {"none", "done", "aborted"}

Init ==
  /\ day = 0
  /\ stored = {}
  /\ runs = [d \in Days |-> 0]
  /\ phase = "idle"
  /\ loaded = {}
  /\ todo = {}
  /\ current = NoEvent
  /\ outcome = "none"
  /\ tried = {}
  /\ sent = [e \in Events |-> [d \in Days |-> 0]]

-----------------------------------------------------------------------------
(* findReachouts.                                                          *)

\* The local day of the event, which a UTC date falls on.
DayOf(e) == CHOOSE d \in Days : IsOn(d, At[e])

\* Whole days from the local midnight of e to that of today, rounded down.
DaysSince(e, today) == (Midnight[today] - Midnight[DayOf(e)]) \div 24

\* Variant: every event that is old enough needs a reachout.
ShouldReachLate(e, today) ==
  IF e \in Birthdays THEN DaysSince(e, today) = 0 ELSE DaysSince(e, today) >= 3

\* Birthdays on the same day, other events three days after.
ShouldReach(e, today) ==
  IF e \in Birthdays THEN DaysSince(e, today) = 0 ELSE DaysSince(e, today) = 3

FindReachouts(connections, today) ==
  {e \in Events : Of[e] \in connections /\ ShouldReach(e, today)}

-----------------------------------------------------------------------------

\* The clock; a check does not run past midnight.
NextDay ==
  /\ phase = "idle"
  /\ day < LastDay
  /\ day' = day + 1
  /\ outcome' = "none"
  /\ UNCHANGED <<stored, runs, phase, loaded, todo, current, tried, sent>>

\* addConnection, called by the server.
AddConnection(c) ==
  /\ stored' = stored \cup {c}
  /\ UNCHANGED <<day, runs, sent, runVars>>

\* npm run check.
StartCheck ==
  /\ phase = "idle"
  /\ runs[day] < MaxRuns
  /\ runs' = [runs EXCEPT ![day] = @ + 1]
  /\ phase' = "load"
  /\ loaded' = {}
  /\ outcome' = "none"
  /\ tried' = {}
  /\ UNCHANGED <<day, stored, todo, current, sent>>

End(how) ==
  /\ phase' = "idle"
  /\ todo' = {}
  /\ current' = NoEvent
  /\ outcome' = how

\* loadAllConnections returns what is stored at this moment, and findReachouts
\* reads all of it.
Load ==
  /\ phase = "load"
  /\ stored \cap Unreadable = {}
  /\ loaded' = stored
  /\ todo' = FindReachouts(stored, day)
  /\ phase' = "loop"
  /\ UNCHANGED <<day, stored, runs, current, outcome, tried, sent>>

\* Variant: the reminder in hand is not forgotten.
AbortKeepsCurrent ==
  /\ phase # "idle"
  /\ phase' = "idle"
  /\ todo' = {}
  /\ outcome' = "aborted"
  /\ UNCHANGED <<day, stored, runs, loaded, current, tried, sent>>

\* The run ends early, in main's catch or killed: the query fails, a connection
\* has no events to iterate over, craftMessage throws.
Abort ==
  /\ phase # "idle"
  /\ End("aborted")
  /\ UNCHANGED <<day, stored, runs, loaded, tried, sent>>

\* craftMessage, then the send, or without a phone number only a print.
Craft(e) ==
  /\ phase = "loop"
  /\ e \in todo
  /\ todo' = todo \ {e}
  /\ IF Of[e] \in WithPhone
       THEN phase' = "send" /\ current' = e
       ELSE UNCHANGED <<phase, current>>
  /\ UNCHANGED <<day, stored, runs, loaded, outcome, tried, sent>>

Delivered(e) == sent' = [sent EXCEPT ![e][day] = @ + 1]

\* Variant: a failed send ends the loop.
SendBreaks ==
  /\ phase = "send"
  /\ tried' = tried \cup {current}
  /\ current' = NoEvent
  /\ phase' = "loop"
  /\ \/ Delivered(current) /\ UNCHANGED todo
     \/ UNCHANGED sent /\ todo' = {}
  /\ UNCHANGED <<day, stored, runs, loaded, outcome>>

\* Variant: what failed is put back to be sent again, though it may have gone.
SendRetried ==
  /\ phase = "send"
  /\ tried' = tried \cup {current}
  /\ current' = NoEvent
  /\ phase' = "loop"
  /\ Delivered(current)
  /\ \/ UNCHANGED todo
     \/ current \notin tried /\ todo' = todo \cup {current}
  /\ UNCHANGED <<day, stored, runs, loaded, outcome>>

\* sendWhatsApp; its error is caught, and the message may have gone out or not.
Send ==
  /\ phase = "send"
  /\ tried' = tried \cup {current}
  /\ current' = NoEvent
  /\ phase' = "loop"
  /\ Delivered(current) \/ UNCHANGED sent
  /\ UNCHANGED <<day, stored, runs, loaded, todo, outcome>>

\* The loop is over.
Finish ==
  /\ phase = "loop"
  /\ todo = {}
  /\ End("done")
  /\ UNCHANGED <<day, stored, runs, loaded, tried, sent>>

Next ==
  \/ NextDay \/ StartCheck \/ Load \/ Abort \/ Send \/ Finish
  \/ \E c \in Connections : AddConnection(c)
  \/ \E e \in Events : Craft(e)

Spec == Init /\ [][Next]_vars

-----------------------------------------------------------------------------
(* Properties.                                                             *)

\* The day on which e needs a reachout, as the comment of findReachouts and
\* the plan have it.
DueDay(e) == IF e \in Birthdays THEN DayOf(e) ELSE DayOf(e) + 3

\* Type invariant: the clock, the collection and the state of the check.
TypeOK ==
  /\ day \in Days
  /\ stored \in SUBSET Connections
  /\ runs \in [Days -> 0..MaxRuns]
  /\ phase \in Phases
  /\ loaded \in SUBSET stored
  /\ todo \in SUBSET Events
  /\ current \in Events \cup {NoEvent}
  /\ phase = "send" <=> current # NoEvent
  /\ outcome \in Outcomes
  /\ tried \in SUBSET Events
  /\ sent \in [Events -> [Days -> Nat]]

\* "Birthdays: message on the same day. Other events: message 3 days after."
\* No message goes out on any other day.
OnTheRightDay ==
  \A e \in Events, d \in Days : sent[e][d] > 0 => d = DueDay(e)

\* A run that ends by itself has tried to send every reminder that is due and
\* has a phone number, of every connection it loaded, whichever sends failed.
DueIsTried ==
  outcome = "done" =>
    \A e \in Events :
      (Of[e] \in loaded \cap WithPhone /\ DueDay(e) = day) => e \in tried

\* One run sends one message about an event: whatever failed, there are never
\* more messages about it in a day than runs.
SentOncePerRun ==
  \A e \in Events, d \in Days : sent[e][d] <= runs[d]

=============================================================================
