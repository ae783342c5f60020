------------------------------ MODULE MCClock -------------------------------
(***************************************************************************)
(* The last seconds of January: every register but the year changes at     *)
(* once, and the month becomes what register 0x0B holds in the mode 2.     *)
(* And noon on a 27th.                                                     *)
(***************************************************************************)
EXTENDS Clock

At(d, mo, h, mi, s) ==
    [second |-> s, minute |-> mi, hour |-> h, day |-> d, month |-> mo, year |-> 2027]

MCHistories ==
    {<<At(31, 1, 23, 59, 58), At(31, 1, 23, 59, 59), At(1, 2, 0, 0, 0)>>,
     <<At(27, 12, 11, 59, 59), At(27, 12, 12, 0, 0)>>}
=============================================================================
