----------------------------- MODULE MCAtaProbe -----------------------------
(* Small instances of the probe: every choice of attached drives, three    *)
(* words to an identification.                                             *)
EXTENDS AtaProbe
=============================================================================
