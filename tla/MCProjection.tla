---------------------------- MODULE MCProjection ----------------------------
(***************************************************************************)
(* Instances of Projection for TLC: months of a few days, of different     *)
(* lengths, stand for the calendar.  Income days run past the end of the   *)
(* shorter months and windows past the first day of every month.           *)
(***************************************************************************)
EXTENDS Projection

\* Months of 5, 4, 6 and 5 days.
MCDaysBefore == <<0, 5, 9, 15, 20>>
=============================================================================
