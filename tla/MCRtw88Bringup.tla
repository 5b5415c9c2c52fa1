--------------------------- MODULE MCRtw88Bringup ----------------------------
EXTENDS Rtw88Bringup, Rtw88Chips

MCSpec88 ==
    [c \in Chips |-> CASE c = "8821c" -> Rtw8821c [] c = "8822b" -> Rtw8822b
                       [] c = "8822c" -> Rtw8822c [] c = "8723d" -> Rtw8723d]
=============================================================================
