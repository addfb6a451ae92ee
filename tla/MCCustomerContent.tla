-------------------------- MODULE MCCustomerContent --------------------------
(***************************************************************************)
(* One customer, two references of each kind, two events after its          *)
(* creation and one write of another program.                               *)
(***************************************************************************)
EXTENDS CustomerContent, TLC

MCCategoryIds   == [cartridge_toner |-> 1, networking |-> 14]
MCCategoryNames == (1 :> "Cartridges") @@ (14 :> "Networking")
MCGroupIds      == [geser_prodigix |-> 2, closed_activity |-> 36]
MCGroupNames    == (2 :> "Geser") @@ (36 :> "Closed")
MCChannelIds    == [N1 |-> 1, N2 |-> 2]
MCChannelNames  == (1 :> <<"N1", "Web">>) @@ (2 :> <<"Shops">>)
Card(id)        == [user_login |-> <<"agent", id>>, name |-> <<"agent name", id>>,
                    email |-> <<"agent email", id>>, phone |-> NONE]
MCAgents        == [id \in 1..3 |-> Card(id)]
MCPlaces        == <<<<"IT", "Roma">>, <<"FR", "Paris">>>>
MCPayments      == <<"transfer", "card">>
MCTables        == [categories |-> {1, 14}, groups |-> {2, 36}, channels |-> {1, 2},
                    agents |-> 1..3, payment_types |-> {"transfer", "card"},
                    regions |-> {MCPlaces[1], MCPlaces[2]}]

Payload == INSTANCE CustomerPayloads WITH
             CategoryCodes <- <<"cartridge_toner", "networking">>,
             GroupCodes    <- <<"geser_prodigix", "closed_activity">>,
             ChannelCodes  <- <<"N1", "N2">>,
             AgentRefs     <- <<2, 3>>,
             Payments      <- MCPayments,
             Places        <- MCPlaces

MCCreations == Payload!AllCreations
MCPatches   == Payload!AllPatches(2)
=============================================================================
