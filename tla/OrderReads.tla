----------------------------- MODULE OrderReads -----------------------------
(***************************************************************************)
(* Reading orders while other programs change them.  An export reads the    *)
(* order, its lines and the shipping product in the snapshot of one         *)
(* REPEATABLE READ transaction.  The listing reads a page of orders and     *)
(* then their lines in two READ COMMITTED statements, each of which sees    *)
(* what is committed when it runs; a client walks from page to page.        *)
(*                                                                         *)
(* The database is the sequence of its committed states, so that a          *)
(* statement can see an earlier one.                                        *)
(***************************************************************************)
EXTENDS OrderRows, FiniteSets

CONSTANTS
  Ids,             \* order ids, integers
  Qualifying,      \* the logistic states that are listed
  OtherStates,
  Contents,        \* what the writers may put in an order and in its lines
  Dates,           \* of invoices
  TAX,             \* the tax that they put in every total
  InitialStates,   \* the databases to start from
  ProductIds, ShippingProducts, \* the products with the isin ADMGST
  Exports, Target, \* the export calls and the order that each reads
  Limit,           \* the page size of the client
  MaxCommits,      \* bound: the commits of other programs
  MISSING, FAILED  \* 404 and 503

ASSUME OrderReadsAssumption ==
  /\ Ids \subseteq Nat /\ IsFiniteSet(Ids)
  /\ Target \in [Exports -> Ids]
  /\ Limit \in Nat \ {0} /\ MaxCommits \in Nat
  /\ NONE \notin {MISSING, FAILED, REFUSED} /\ FAILED \notin {MISSING, REFUSED}

VARIABLES
  history,         \* the committed states of the database
  \* the exports
  pc, began, snapshot, row, details, answer, ended,
  \* the walk through the listing
  walk,            \* "page", "lines" or "done"
  started, offset, page, pageAt, response, found

exportVars == <<pc, began, snapshot, row, details, answer, ended>>
walkVars == <<walk, started, offset, page, pageAt, response, found>>
vars == <<history, exportVars, walkVars>>

Now == Len(history)
db == history[Now]

Qualifies(d, id) == d.orders[id] # NONE /\ d.orders[id].logistic_state \in Qualifying

Init ==
  /\ \E d \in InitialStates : history = <<d>>
  /\ pc = [e \in Exports |-> "idle"]
  /\ began = [e \in Exports |-> 0] /\ ended = [e \in Exports |-> 0]
  /\ snapshot = [e \in Exports |-> 0]
  /\ row = [e \in Exports |-> NONE] /\ details = [e \in Exports |-> NONE]
  /\ answer = [e \in Exports |-> NONE]
  /\ walk = "page" /\ started = 1 /\ offset = 0
  /\ page = <<>> /\ pageAt = 1 /\ response = <<>> /\ found = {}

-----------------------------------------------------------------------------
(* The export: get_order.                                                  *)

\* SET TRANSACTION does not take a snapshot.
Begin(e) ==
  /\ pc[e] = "idle"
  /\ pc' = [pc EXCEPT ![e] = "order"]
  /\ began' = [began EXCEPT ![e] = Now]
  /\ UNCHANGED <<history, snapshot, row, details, answer, ended, walkVars>>

Answer(e, value) ==
  /\ pc' = [pc EXCEPT ![e] = "done"]
  /\ answer' = [answer EXCEPT ![e] = value]
  /\ ended' = [ended EXCEPT ![e] = Now]

\* The first statement takes the snapshot of the transaction.
ReadOrder(e) ==
  /\ pc[e] = "order"
  /\ snapshot' = [snapshot EXCEPT ![e] = Now]
  /\ row' = [row EXCEPT ![e] = db.orders[Target[e]]]
  /\ IF db.orders[Target[e]] = NONE
     THEN Answer(e, MISSING)
     ELSE pc' = [pc EXCEPT ![e] = "details"] /\ UNCHANGED <<answer, ended>>
  /\ UNCHANGED <<history, began, details, walkVars>>

Committed(e) == db
Snapshot(e) == history[snapshot[e]]

ReadDetails(e) ==
  LET lines == Snapshot(e).lines[Target[e]] IN
  /\ pc[e] = "details"
  /\ details' = [details EXCEPT ![e] = lines]
  /\ IF row[e].delivery_cost # 0
     THEN pc' = [pc EXCEPT ![e] = "shipping"] /\ UNCHANGED <<answer, ended>>
     ELSE Answer(e, OrderFromRows(row[e], lines, <<>>))
  /\ UNCHANGED <<history, began, snapshot, row, walkVars>>

ReadShipping(e) ==
  /\ pc[e] = "shipping"
  /\ Answer(e, OrderFromRows(row[e], details[e], Snapshot(e).shipping))
  /\ UNCHANGED <<history, began, snapshot, row, details, walkVars>>

\* Any statement may fail: DBException.
Fail(e) ==
  /\ pc[e] \notin {"idle", "done"}
  /\ Answer(e, FAILED)
  /\ UNCHANGED <<history, began, snapshot, row, details, walkVars>>

-----------------------------------------------------------------------------
(* The listing: get_orders, page after page until an empty one.            *)

MinOf(a, b) == IF a < b THEN a ELSE b

\* ORDER BY id DESC.
Descending(ids) ==
  [k \in 1..Cardinality(ids) |->
     CHOOSE id \in ids : Cardinality({other \in ids : other >= id}) = k]

\* LIMIT and OFFSET; of each order the header as the statement sees it.
PageOneMore(d, from) ==
  LET ids == Descending({id \in Ids : Qualifies(d, id)})
      cut == SubSeq(ids, from + 1, MinOf(from + Limit + 1, Len(ids)))
  IN [i \in DOMAIN cut |-> d.orders[cut[i]]]
PageFilteredLate(d, from) ==
  LET ids == Descending({id \in Ids : d.orders[id] # NONE})
      cut == SubSeq(ids, from + 1, MinOf(from + Limit, Len(ids)))
      listed == SelectSeq(cut, LAMBDA id : Qualifies(d, id))
  IN [i \in DOMAIN listed |-> d.orders[listed[i]]]
Page(d, from) ==
  LET ids == Descending({id \in Ids : Qualifies(d, id)})
      cut == SubSeq(ids, from + 1, MinOf(from + Limit, Len(ids)))
  IN [i \in DOMAIN cut |-> d.orders[cut[i]]]

\* The statement returns the lines by ascending order id; they are grouped.
InQueryOrder(d, headers, i) == d.lines[headers[Len(headers) + 1 - i].id]
DetailsOf(d, headers, i) == d.lines[headers[i].id]

Response(d, headers) ==
  [i \in DOMAIN headers |-> [header |-> headers[i], details |-> DetailsOf(d, headers, i)]]

ReadPage ==
  /\ walk = "page"
  /\ page' = Page(db, offset) /\ pageAt' = Now
  /\ response' = <<>>
  /\ walk' = IF page' = <<>> THEN "done" ELSE "lines"
  /\ UNCHANGED <<history, exportVars, started, offset, found>>

\* READ COMMITTED: the second statement may see a later state than the first.
ReadLines ==
  /\ walk = "lines"
  /\ response' = Response(db, page)
  /\ found' = found \cup {page[i].id : i \in DOMAIN page}
  /\ offset' = offset + Limit
  /\ walk' = "page"
  /\ UNCHANGED <<history, exportVars, started, page, pageAt>>

\* DBException: the client asks for the same page again.
ListingFails ==
  /\ walk = "lines"
  /\ walk' = "page" /\ response' = <<>>
  /\ UNCHANGED <<history, exportVars, started, offset, page, pageAt, found>>

-----------------------------------------------------------------------------
(* The other programs: each commit leaves orders whose total is the net of  *)
(* their lines, the shipping and TAX.                                       *)

Net(lines) == AddUp([i \in DOMAIN lines |-> lines[i].price * lines[i].qty])

Header(id, content, state) ==
  [ id |-> id, logistic_state |-> state,
    total |-> Net(content.lines) + content.delivery_cost + TAX,
    delivery_cost |-> content.delivery_cost, stamp_duty |-> content.stamp_duty,
    invoice_doc_n |-> content.invoice_doc_n, invoice_doc_date |-> content.invoice_doc_date,
    delivery |-> content.delivery, billing |-> content.billing ]

Commit(d) ==
  /\ Now <= MaxCommits
  /\ history' = Append(history, d)
  /\ UNCHANGED <<exportVars, walkVars>>

WithOrder(id, header, lines) ==
  [db EXCEPT !.orders[id] = header, !.lines[id] = lines]

Place(id, content, state) ==
  /\ db.orders[id] = NONE
  /\ Commit(WithOrder(id, Header(id, content, state), content.lines))

Revise(id, content) ==
  /\ db.orders[id] # NONE
  /\ Commit(WithOrder(id, Header(id, content, db.orders[id].logistic_state), content.lines))

Move(id, state) ==
  /\ db.orders[id] # NONE /\ db.orders[id].logistic_state # state
  /\ Commit([db EXCEPT !.orders[id].logistic_state = state])

Delete(id) ==
  /\ db.orders[id] # NONE
  /\ Commit(WithOrder(id, NONE, <<>>))

\* The products whose isin is ADMGST.
SellShipping(products) ==
  /\ products # db.shipping
  /\ Commit([db EXCEPT !.shipping = products])

Writer ==
  \/ \E id \in Ids, content \in Contents, state \in Qualifying \cup OtherStates :
       Place(id, content, state)
  \/ \E id \in Ids, content \in Contents : Revise(id, content)
  \/ \E id \in Ids, state \in Qualifying \cup OtherStates : Move(id, state)
  \/ \E id \in Ids : Delete(id)
  \/ \E products \in ShippingProducts : SellShipping(products)

Export(e) ==
  \/ Begin(e)
  \/ ReadOrder(e)
  \/ ReadDetails(e)
  \/ ReadShipping(e)
  \/ Fail(e)

Listing == ReadPage \/ ReadLines \/ ListingFails

Next == Listing \/ Writer \/ \E e \in Exports : Export(e)

Spec == Init /\ [][Next]_vars

-----------------------------------------------------------------------------
Details == [id : Nat, price : Int, qty : Int]

Headers ==
  [ id : Ids, logistic_state : Qualifying \cup OtherStates, total : Int,
    delivery_cost : Int, stamp_duty : Int \cup {NONE},
    invoice_doc_n : Int \cup {NONE}, invoice_doc_date : Dates \cup {NONE},
    delivery : Addresses \cup {NONE}, billing : Addresses \cup {NONE} ]

Databases ==
  [ orders : [Ids -> Headers \cup {NONE}], lines : [Ids -> Seq(Details)],
    shipping : Seq(ProductIds) ]

\* An order as the other programs leave it: with the id of its row, and with the
\* net of its lines, the shipping and TAX as its total.
Kept(d, id) ==
  LET header == d.orders[id] IN
  /\ header.id = id
  /\ header.total = Net(d.lines[id]) + header.delivery_cost + TAX

AsWritten(d) == \A id \in Ids : d.orders[id] # NONE => Kept(d, id)

\* What other programs write, also before the first step.
ASSUME WritersAssumption ==
  /\ TAX \in Int
  /\ Contents \subseteq
       [ lines : Seq(Details), delivery_cost : Int, stamp_duty : Int \cup {NONE},
         invoice_doc_n : Int \cup {NONE}, invoice_doc_date : Dates \cup {NONE},
         delivery : Addresses \cup {NONE}, billing : Addresses \cup {NONE} ]
  /\ ShippingProducts \subseteq Seq(ProductIds)
  /\ InitialStates \subseteq Databases
  /\ \A d \in InitialStates : AsWritten(d)

\* Every variable is in its type; the states of the database are complete
\* tables, an order header carries the id of its row.
TypeOK ==
  /\ history \in Seq(Databases) /\ Now \in 1..(MaxCommits + 1)
  /\ \A i \in 1..Now, id \in Ids :
       history[i].orders[id] # NONE => history[i].orders[id].id = id
  /\ pc \in [Exports -> {"idle", "order", "details", "shipping", "done"}]
  /\ {began, snapshot, ended} \subseteq [Exports -> 0..Now]
  /\ row \in [Exports -> Headers \cup {NONE}]
  /\ details \in [Exports -> Seq(Details) \cup {NONE}]
  /\ walk \in {"page", "lines", "done"}
  /\ started \in 1..Now /\ pageAt \in 1..Now /\ offset \in Nat
  /\ page \in Seq(Headers) /\ Len(page) <= Limit
  /\ found \subseteq Ids

\* What an export that runs alone in the state d of the database answers.
ExportIn(d, id) ==
  IF d.orders[id] = NONE THEN MISSING
  ELSE OrderFromRows(d.orders[id], d.lines[id], d.shipping)

\* A full order is the one of a single committed state, which was current at
\* some moment between the call and its answer: the header, the lines and the
\* shipping product that the three statements read are never mixed
\* (order_export/__init__.py:18-42).
ExportOneState ==
  \A e \in Exports : pc[e] = "done" /\ answer[e] # FAILED =>
    \E i \in began[e]..ended[e] : answer[e] = ExportIn(history[i], Target[e])

\* The tax of an exported order, computed as the residual of the stored gross,
\* is the tax that the writer put in it, with discounts and shipping and while
\* the order is being revised (order_export/order.py:109-140).
TaxAsStored ==
  \A e \in Exports : answer[e] \notin {NONE, FAILED, MISSING, REFUSED} =>
    answer[e].totals.tax = TAX

\* A page of the listing shows each order with its own lines, by descending
\* id, every header in a listed state; the lines are those of one state not
\* older than the headers' (orders.py:85-105).
ListingOrdered ==
  response # <<>> =>
    /\ \A i, j \in DOMAIN response : i < j => response[i].header.id > response[j].header.id
    /\ \A i \in DOMAIN response : response[i].header.logistic_state \in Qualifying
    /\ \E j \in pageAt..Now : \A i \in DOMAIN response :
         /\ response[i].header = history[pageAt].orders[response[i].header.id]
         /\ response[i].details = history[j].lines[response[i].header.id]

\* A client that walks the pages to the end finds every order that was listed
\* throughout, although orders are placed meanwhile, unless some order left the
\* listed states during the walk (orders.py:18-32).
WalkMissesNone ==
  walk = "done" =>
    \A id \in Ids :
      \/ id \in found
      \/ \E i \in started..Now : ~Qualifies(history[i], id)
      \/ \E other \in Ids, i \in started..(Now - 1) :
           Qualifies(history[i], other) /\ ~Qualifies(history[i + 1], other)
=============================================================================
