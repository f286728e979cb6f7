---------------------------- MODULE MCSaveWriter ----------------------------
(* Small instances of SaveWriter for TLC. *)
EXTENDS SaveWriter

CONSTANTS bram, cart

TwoSavers == <<bram, cart>>
OneSaver == <<bram>>
=============================================================================
