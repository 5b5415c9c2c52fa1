----------------------------- MODULE MCRtw88Pci ------------------------------
(* The eight TX queues and two RX queues of rtw88.h.                       *)
EXTENDS Rtw88Pci

MCTxRings == <<"BK", "BE", "VI", "VO", "BCN", "MGMT", "HI0", "H2C">>
MCRxRings == <<"MPDU", "C2H">>
=============================================================================
