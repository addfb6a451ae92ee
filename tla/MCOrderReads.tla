---------------------------- MODULE MCOrderReads ----------------------------
EXTENDS OrderReads

CONSTANTS ISSUED, HOME, ABROAD

MCIds == 1..3
MCExports == {"export"}
MCTarget == [e \in MCExports |-> 2]
MCQualifying == {"CONFIRMED"}
MCOtherStates == {"CANCELLED"}
MCDates == {ISSUED}
MCAddresses == {HOME, ABROAD}
MCIncomplete == {ABROAD}

Goods == [id |-> 1, price |-> 100, qty |-> 2]
Discount == [id |-> 2, price |-> -10, qty |-> 1]

\* A plain order, one with a discount and shipping, a historical one that is
\* refused.
Plain ==
  [lines |-> <<Goods>>, delivery_cost |-> 0, stamp_duty |-> NONE, invoice_doc_n |-> 0,
   invoice_doc_date |-> NONE, delivery |-> NONE, billing |-> HOME]
Discounted ==
  [lines |-> <<Goods, Discount>>, delivery_cost |-> 5, stamp_duty |-> 0, invoice_doc_n |-> 7,
   invoice_doc_date |-> ISSUED, delivery |-> HOME, billing |-> ABROAD]
Historical ==
  [lines |-> <<Discount>>, delivery_cost |-> 0, stamp_duty |-> 0, invoice_doc_n |-> NONE,
   invoice_doc_date |-> ISSUED, delivery |-> ABROAD, billing |-> NONE]

MCContents == {Plain, Discounted, Historical}
MCProductIds == {9, 10}
MCShippingProducts == {<<>>, <<9>>, <<9, 10>>}

EmptyShop == [orders |-> [id \in Ids |-> NONE], lines |-> [id \in Ids |-> <<>>],
              shipping |-> <<9>>]

Shop(contents) ==
  [EmptyShop EXCEPT
     !.orders = [id \in Ids |-> IF id \in DOMAIN contents
                                THEN Header(id, contents[id], "CONFIRMED") ELSE NONE],
     !.lines  = [id \in Ids |-> IF id \in DOMAIN contents THEN contents[id].lines ELSE <<>>]]

MCInitialStates == {Shop(<<Plain, Discounted>>)}
=============================================================================
