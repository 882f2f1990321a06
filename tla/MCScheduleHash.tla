--------------------------- MODULE MCScheduleHash ---------------------------
(***************************************************************************)
(* Instance of ScheduleHash for TLC.                                       *)
(***************************************************************************)
EXTENDS ScheduleHash

(* The page sends each time once, and a day only with times; a request of   *)
(* another origin may repeat a time, in any order, or list none.            *)
MCClaimList == {<<>>, <<1>>, <<2>>, <<2, 1>>, <<2, 2>>}

MCTime == 1..2
=============================================================================
