------------------------- MODULE MCServiceStartup -----------------------------
(* A small instance of the start-up: five ticks for setTimeout, so that the  *)
(* fourth delay is too long for it.                                          *)
EXTENDS ServiceStartup
===============================================================================
