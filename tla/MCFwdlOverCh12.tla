--------------------------- MODULE MCFwdlOverCh12 ----------------------------
(* One image of a header and two packets: the least with a chunk after a   *)
(* chunk.                                                                  *)
EXTENDS FwdlOverCh12

MCImages ==
    {[ver |-> 0, secs |-> <<2020, 5>>, size |-> 2089, at |-> <<64, 2084, 2089>>]}
=============================================================================
