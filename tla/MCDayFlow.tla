----------------------------- MODULE MCDayFlow -----------------------------
(* Small instances of the day flow for TLC. *)
EXTENDS DayFlow

\* Windows open every second instant: a day, a night.
MCOffset == [d \in Days |-> 2 * Cardinality({e \in Days : e < d})]

\* Drafts are saved on the text days only.
MCEdits == [d \in Days |-> IF d \in TextDays THEN 1 ELSE 0]
=============================================================================
