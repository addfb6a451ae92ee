------------------------- MODULE MCExportScenarios -------------------------
(* One instance of SalesforceExport for two situations, of which each       *)
(* behavior chooses one: three exports of one entity in sequence, other     *)
(* credentials for the last of them, a deletion; or two concurrent exports  *)
(* of two entities, one of them a deletion, that share the token.           *)
EXTENDS MCSalesforceExport

CONSTANTS r4, r5, e3, t1, t2, t3

VARIABLE scenario

ScenarioTarget == [r \in Requests |-> CASE r = r4 -> e2 [] r = r5 -> e3 [] OTHER -> e1]
Callers == [sequence |-> {r1, r2, r3}, together |-> {r4, r5}]
Exported(s) == {ScenarioTarget[r] : r \in Callers[s]}

\* Nothing happens to the entities and the requests of the other situation.
\* Tokens are interchangeable, so they are issued in turn, two of them in a
\* sequence; r2 and r3 come after r1.  The entity changes between the first
\* two exports only: each reads its content once, at its start.
ScenarioInit ==
  /\ Init /\ scenario \in DOMAIN Callers
  /\ \A e \in Entities \ Exported(scenario) : local[e] = NONE
ScenarioNext ==
  /\ Next
  /\ \A r \in Requests \ Callers[scenario] : pc'[r] = pc[r]
  /\ \/ local' = local
     \/ pc[r1] # "idle" /\ pc[r2] = "idle" /\ \A r \in Requests : ~Running(r)
  /\ \A r \in {r2, r3} : pc'[r] # "idle" => pc[r1] # "idle"
  /\ owner'[t2] # NONE => owner[t1] # NONE
  /\ owner'[t3] # NONE => owner[t2] # NONE /\ scenario = "together"
  /\ UNCHANGED scenario
ScenarioSpec == ScenarioInit /\ [][ScenarioNext]_<<vars, scenario>> /\ Fairness
=============================================================================
