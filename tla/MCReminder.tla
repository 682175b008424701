----------------------------- MODULE MCReminder -----------------------------
(* Instances of ReminderCheck for TLC.                                     *)
EXTENDS ReminderCheck, TLC

CONSTANTS sarah, tom, ann, empty

\* A week in which the clocks go back in the night of day 2, and one in which
\* they go forward in the night of day 1.
FallBack == <<24, 48, 73, 97, 121>>
SpringForward == <<24, 47, 71, 95, 119>>

CalendarOf(week) == [d \in 0..LastDay |-> IF d = 0 THEN 0 ELSE week[d]]
FallCalendar == CalendarOf(FallBack)
SpringCalendar == CalendarOf(SpringForward)

\* A conference and a birthday of one connection, a birthday and a meeting of
\* another, and the birthday of one that has no phone number.
EventConnection == <<sarah, sarah, tom, tom, ann>>
EventHour == <<9, 24, 60, 20, 40>>

=============================================================================
