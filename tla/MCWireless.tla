---------------------------- MODULE MCWireless ----------------------------
(* Wireless_Ctrl with a small radio.                                        *)
EXTENDS Wireless
=============================================================================
