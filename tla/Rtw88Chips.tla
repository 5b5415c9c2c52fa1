------------------------------ MODULE Rtw88Chips ------------------------------
(***************************************************************************)
(* The chips of rtw88: of each rtw_chip_info the sizes from which          *)
(* rtw_llt_init computes the boundaries, and whether its set_channel       *)
(* operation programs the MAC.                                             *)
(***************************************************************************)
Rtw8821c == [txff |-> 38400, page |-> 128, rsvd |-> 8, programs |-> FALSE]
Rtw8822b == [txff |-> 38400, page |-> 128, rsvd |-> 8, programs |-> TRUE]
Rtw8822c == [txff |-> 38400, page |-> 128, rsvd |-> 8, programs |-> TRUE]
Rtw8723d == [txff |-> 38400, page |-> 128, rsvd |-> 8, programs |-> TRUE]
=============================================================================
