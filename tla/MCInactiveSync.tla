--------------------------- MODULE MCInactiveSync ---------------------------
(* Small instances of InactiveSync.                                        *)
EXTENDS InactiveSync
=============================================================================
