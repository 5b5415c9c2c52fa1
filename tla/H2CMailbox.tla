----------------------------- MODULE H2CMailbox ------------------------------
(***************************************************************************)
(* What the CH12 ring promises its callers between two clearings of the    *)
(* ring index: a mailbox that is emptied at most once.                     *)
(*                                                                         *)
(* Until a call fails, the device can only take the packet of the call     *)
(* that is running, whole. Once a call has failed, its packet is still     *)
(* posted: the device may take any packet offered so far, or garbage (0).  *)
(* A call may report success only when the mailbox has been emptied; it    *)
(* need not have been emptied by that call.                                *)
(***************************************************************************)
EXTENDS Naturals, Sequences

CONSTANT MaxSends   (* bound: calls *)

VARIABLES
    sends,   (* calls made: packets are numbered 1..sends *)
    busy,    (* a call is running                         *)
    taken,   (* <<>>, or <<the packet the device took>>   *)
    acked,   (* the calls that reported success           *)
    failed   (* some call reported failure                *)

vars == <<sends, busy, taken, acked, failed>>

Init == sends = 0 /\ busy = FALSE /\ taken = <<>> /\ acked = {} /\ failed = FALSE

Begin ==
    /\ ~busy /\ sends < MaxSends
    /\ busy' = TRUE /\ sends' = sends + 1
    /\ UNCHANGED <<taken, acked, failed>>

TakeCurrent ==
    /\ ~failed /\ busy /\ taken = <<>>
    /\ taken' = <<sends>>
    /\ UNCHANGED <<sends, busy, acked, failed>>

TakeLate ==
    /\ failed /\ taken = <<>>
    /\ \E p \in 0..sends : taken' = <<p>>
    /\ UNCHANGED <<sends, busy, acked, failed>>

Succeed ==
    /\ busy /\ taken # <<>>
    /\ busy' = FALSE /\ acked' = acked \cup {sends}
    /\ UNCHANGED <<sends, taken, failed>>

Fail ==
    /\ busy /\ taken = <<>>
    /\ busy' = FALSE /\ failed' = TRUE
    /\ UNCHANGED <<sends, taken, acked>>

Next == Begin \/ TakeCurrent \/ TakeLate \/ Succeed \/ Fail

Spec == Init /\ [][Next]_vars
=============================================================================
