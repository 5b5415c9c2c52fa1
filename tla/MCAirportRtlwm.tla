--------------------------- MODULE MCAirportRtlwm ----------------------------
(* The two networks that a scan of the code adds.                          *)
EXTENDS AirportRtlwm

MCNetworks == {"Realtek_Test", "WiFi_5G"}
MCFound    == <<"Realtek_Test", "WiFi_5G">>
=============================================================================
