----------------------------- MODULE MCSnapshot -----------------------------
(***************************************************************************)
(* A calendar for SnapshotScheduler, from a Friday (date 0) to Tuesday     *)
(* (date 4).  New York has a pre-market, after-hours that last past        *)
(* midnight UTC, and a holiday on Monday.  EAST opens before midnight UTC, *)
(* like Sydney, and has a lunch break, like Hong Kong.  Closes are further *)
(* apart than a capture, the pause and a fetch take.                       *)
(***************************************************************************)
EXTENDS SnapshotScheduler, TLC

CONSTANTS NYSE, EAST

Hours(d, open, breakStart, breakEnd, close) ==
    d :> [open |-> open + d * DayLength,
          breakStart |-> breakStart + d * DayLength,
          breakEnd |-> breakEnd + d * DayLength,
          close |-> close + d * DayLength]

East(d) == Hours(d, -1, 1, 2, 4)
NewYork(d) == Hours(d, 10, 10, 10, 15)

MCSchedule ==
    EAST :> (East(0) @@ East(3) @@ East(4)) @@
    NYSE :> (NewYork(0) @@ NewYork(4))

MCOffset == EAST :> 8 @@ NYSE :> -4

ASSUME MCClosesApart == ClosesApart
ASSUME MCRegular == RegularCalendar

=============================================================================
