------------------------- MODULE MCSalesforceExport -------------------------
(* Small instances of SalesforceExport.                                    *)
EXTENDS SalesforceExport

CONSTANTS r1, r2, r3, e1, e2, k1, k2

\* Two entities, and credentials that changed between two requests.
TwoTargets == [r \in Requests |-> IF r = r3 THEN e2 ELSE e1]
TwoKeys == [r \in Requests |-> IF r = r3 THEN k2 ELSE k1]
=============================================================================
