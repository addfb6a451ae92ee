-------------------------- MODULE IdempotentEvents --------------------------
(***************************************************************************)
(* What customer synchronization promises to the sender, whatever backend  *)
(* stores the customers: an event takes effect at most once, together with *)
(* the record of it and on the customers as they are at that moment; every *)
(* success it is answered with is the recorded one; and once it is         *)
(* recorded the same event is never refused.                               *)
(*                                                                         *)
(* Applies(before, body, ref, after) is the effect of one event, given by  *)
(* the backend that instantiates this module.                              *)
(***************************************************************************)
CONSTANTS
  EventIds, Bodies, Ids, Customers,
  NONE,                \* no customer, no record, no reference
  Applies(_, _, _, _)

VARIABLES
  customers,           \* the customer stored under each id
  events,              \* the completed events: their content and result
  answers              \* the definitive answers the sender was given

vars == <<customers, events, answers>>

Record == [body : Bodies, ref : Ids]
Answer == [event : EventIds, body : Bodies,
           status : {200, 400, 404, 409, 422}, ref : Ids \cup {NONE}]

TypeOK ==
  /\ customers \in [Ids -> Customers \cup {NONE}]
  /\ events \in [EventIds -> Record \cup {NONE}]
  /\ answers \subseteq Answer

Init ==
  /\ customers \in [Ids -> Customers \cup {NONE}]
  /\ events = [e \in EventIds |-> NONE]
  /\ answers = {}

Success(e, b, r) == [event |-> e, body |-> b, status |-> 200, ref |-> r]
Refusal(e, b, s) == [event |-> e, body |-> b, status |-> s, ref |-> NONE]

\* The event is new: its effect and its record appear in one step, and the
\* sender hears of it in the same step or, the answer being lost, not yet.
Accept(e, b, r) ==
  /\ events[e] = NONE
  /\ events' = [events EXCEPT ![e] = [body |-> b, ref |-> r]]
  /\ Applies(customers, b, r, customers')
  /\ answers' \in {answers, answers \cup {Success(e, b, r)}}

\* The event is known with this content: its recorded result is repeated.
Repeat(e, b, r) ==
  /\ events[e] = [body |-> b, ref |-> r]
  /\ answers' = answers \cup {Success(e, b, r)}
  /\ UNCHANGED <<customers, events>>

\* Anything but an event that is recorded with this very content may be
\* refused, and a refusal changes nothing.
Refuse(e, b, s) ==
  /\ events[e] # NONE => events[e].body # b
  /\ UNCHANGED <<customers, events>>
  /\ answers' = answers \cup {Refusal(e, b, s)}

\* Some other program adds a customer, or removes one no event refers to.
Insert(r) ==
  /\ customers[r] = NONE
  /\ customers'[r] \in Customers
  /\ customers' = [customers EXCEPT ![r] = customers'[r]]
  /\ UNCHANGED <<events, answers>>
Remove(r) ==
  /\ \A e \in EventIds : events[e] # NONE => events[e].ref # r
  /\ customers' = [customers EXCEPT ![r] = NONE]
  /\ UNCHANGED <<events, answers>>

Step ==
  \/ \E e \in EventIds, b \in Bodies, r \in Ids : Accept(e, b, r) \/ Repeat(e, b, r)
  \/ \E e \in EventIds, b \in Bodies, s \in {400, 404, 409, 422} : Refuse(e, b, s)
  \/ \E r \in Ids : Remove(r) \/ Insert(r)

\* A step that changes nothing, like an answer given twice, is none.
Next == vars' # vars /\ Step

Spec == Init /\ [][Next]_vars
=============================================================================
