----------------------------- MODULE OrderRows -----------------------------
(***************************************************************************)
(* The export of one order from its rows: an order, its detail lines and    *)
(* the products that stand for shipping.  Amounts are integers (cents).     *)
(* What foreign keys and column types already guarantee is left out: the    *)
(* customer, the product and the line ids exist, every amount is finite.    *)
(***************************************************************************)
EXTENDS Integers, Sequences

CONSTANTS NONE,        \* SQL NULL, None
          REFUSED,     \* InvalidOrderDataException
          SHIPPING,    \* the line id of the shipping line
          Addresses,   \* what the columns of an address may hold
          Incomplete   \* those that lack a part the export needs

Abs(n) == IF n < 0 THEN 0 - n ELSE n

\* A line with a negative price is a discount: it reduces the net.
UnsignedTotal(detail) == Abs(detail.price) * detail.qty
SignedTotal(detail) == detail.price * detail.qty

ExportLine(detail) ==
  [line_id |-> detail.id, quantity |-> detail.qty, unit_price |-> Abs(detail.price),
   line_total |-> SignedTotal(detail)]

ShippingLine(cost) ==
  [line_id |-> SHIPPING, quantity |-> 1, unit_price |-> cost, line_total |-> cost]

Lines(row, details) ==
  [i \in DOMAIN details |-> ExportLine(details[i])]
    \o IF row.delivery_cost = 0 THEN <<>> ELSE <<ShippingLine(row.delivery_cost)>>

\* The amounts added one after the other.
AddUp(amounts) ==
  LET upTo[i \in 0..Len(amounts)] == IF i = 0 THEN 0 ELSE upTo[i - 1] + amounts[i]
  IN upTo[Len(amounts)]

Totals(row, lines) ==
  LET net == AddUp([i \in DOMAIN lines |-> lines[i].line_total])
  IN [net |-> net, tax |-> row.total - net, gross |-> row.total]

\* An invoice number of zero stands for none.
Invoiced(row) == row.invoice_doc_n \notin {NONE, 0}

Invoice(row) ==
  IF Invoiced(row) THEN [number |-> row.invoice_doc_n, date |-> row.invoice_doc_date]
                   ELSE NONE

InvoiceRefused(row) ==
  \/ Invoiced(row) # (row.invoice_doc_date # NONE)
  \/ Invoiced(row) /\ row.invoice_doc_n < 0

\* The first address of which anything is known.
Address(row) == IF row.delivery # NONE THEN row.delivery ELSE row.billing

OrderRefused(row, details, shipping) ==
  \/ row.stamp_duty \notin {NONE, 0}
  \/ details = <<>>
  \/ \E i \in DOMAIN details : details[i].qty <= 0
  \/ row.delivery_cost < 0
  \/ row.delivery_cost # 0 /\ Len(shipping) # 1
  \/ row.total = NONE
  \/ InvoiceRefused(row)
  \/ Address(row) \in Incomplete

OrderFromRows(row, details, shipping) ==
  IF OrderRefused(row, details, shipping) THEN REFUSED
  ELSE LET lines == Lines(row, details) IN
       [ order_number     |-> row.id,
         status           |-> row.logistic_state,
         invoice          |-> Invoice(row),
         totals           |-> Totals(row, lines),
         shipping_address |-> Address(row),
         lines            |-> lines ]
=============================================================================
