------------------------ MODULE MCCustomerScenarios ------------------------
(* One instance of CustomerSync for several senders: each behavior chooses *)
(* a scenario and sends the messages of that one.                          *)
EXTENDS MCCustomerSync

VARIABLE scenario

Scenarios == [create |-> CreateMessages, rename |-> RenameMessages,
              legacy |-> LegacyMessages, refuse |-> RefusedMessages,
              patch |-> PatchMessages]
AllMessages == UNION {Scenarios[s] : s \in DOMAIN Scenarios}

\* Other programs, whose steps are those that leave every pc alone, insert
\* and delete customers in one of the scenarios.
ScenarioInit == Init /\ scenario \in DOMAIN Scenarios
ScenarioNext ==
  /\ Next
  /\ \A w \in Workers : msg'[w] \in {msg[w], NONE} \cup Scenarios[scenario]
  /\ UNCHANGED pc => scenario = "legacy"
  /\ UNCHANGED scenario
ScenarioSpec == ScenarioInit /\ [][ScenarioNext]_<<vars, scenario>>
=============================================================================
