--------------------------- MODULE MCDiagnostics ---------------------------
(* Diagnostics on small instances; see MCDiagnostics.cfg.                  *)
EXTENDS Diagnostics
=============================================================================
