------------------------------ MODULE LoadCycle ------------------------------
(***************************************************************************)
(* What the kext promises about its loads: every load gets its work done   *)
(* at most once, on an instance that is whole, and an instance is taken    *)
(* apart only when that work is over and cannot come again.                *)
(*                                                                         *)
(* The work is the timer handler with everything it calls. A start that    *)
(* fails leaves an instance that nobody takes apart; its work is done too  *)
(* if it was due by then. The firmware of a load is reported ready by the  *)
(* work of that load or not at all.                                        *)
(***************************************************************************)
EXTENDS Naturals

CONSTANT MaxLoads   (* bound: loads *)

VARIABLES
    load,    (* number of the current load                                 *)
    life,    (* "out", "started", "failed", "stopping", "detached",        *)
             (* "stopped"                                                  *)
    work,    (* "none": done or never due, "due", or "running"             *)
    whole,   (* what the work needs has not been given back                *)
    ready    (* firmware of this load has been reported ready              *)

vars == <<load, life, work, whole, ready>>

Init == load = 0 /\ life = "out" /\ work = "none" /\ whole = FALSE /\ ready = FALSE

Enter ==
    /\ life \in {"out", "stopped"} /\ load < MaxLoads
    /\ load' = load + 1 /\ ready' = FALSE
    /\ \/ life' = "started" /\ work' = "due" /\ whole' = TRUE
       \/ life' = "failed" /\ work' = "due" /\ whole' = TRUE
       \/ life' = "failed" /\ work' = "none" /\ whole' \in BOOLEAN

(* Work that is due is called off, or is past calling off.                 *)
Leave ==
    /\ life = "started" /\ life' = "stopping"
    /\ work' = work \/ (work = "due" /\ work' = "none")
    /\ UNCHANGED <<load, whole, ready>>

Work ==
    /\ work = "due" /\ whole /\ work' = "running"
    /\ UNCHANGED <<load, life, whole, ready>>

WorkEnds ==
    /\ work = "running" /\ whole /\ work' = "none"
    /\ ready' \in {ready, TRUE}
    /\ UNCHANGED <<load, life, whole>>

Detach ==
    /\ life = "stopping" /\ work # "running"
    /\ life' = "detached" /\ work' = "none"
    /\ UNCHANGED <<load, whole, ready>>

TakeApart ==
    /\ life = "detached"
    /\ life' = "stopped" /\ whole' = FALSE
    /\ UNCHANGED <<load, work, ready>>

Next == Enter \/ Leave \/ Work \/ WorkEnds \/ Detach \/ TakeApart

Spec == Init /\ [][Next]_vars
=============================================================================
