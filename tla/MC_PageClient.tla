--------------------------- MODULE MC_PageClient ---------------------------
(* PageClient for TLC.                                                     *)
EXTENDS PageClient, TLC

CONSTANTS s, p, w

TheWarmList == <<s, p>>
=============================================================================
