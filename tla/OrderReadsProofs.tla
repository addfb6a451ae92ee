-------------------------- MODULE OrderReadsProofs --------------------------
(***************************************************************************)
(* A full order is the one of a single committed state of its call, however *)
(* many programs write, for every number of exports, orders and commits.    *)
(***************************************************************************)
EXTENDS OrderReads, TLAPS, WellFoundedInduction, FunctionTheorems,
        FiniteSetTheorems, SequenceTheorems

-----------------------------------------------------------------------------
(* Sums.  Each induction is over the least number that is an exception.    *)

LEMMA LeastException ==
  ASSUME NEW T, T \subseteq Nat, T # {}
  PROVE  \E n \in T : \A m \in T : n <= m
<1>1. PICK n \in T : \A m \in T : ~ (<<m, n>> \in OpToRel(<, Nat))
  BY NatLessThanWellFounded, WFMin
<1>2. \A m \in T : ~ (m < n)
  BY <1>1 DEF OpToRel
<1> QED
  BY <1>2

\* The amounts up to each index.
Sums(s, amounts, n) == s[0] = 0 /\ \A i \in 1..n : s[i] = s[i - 1] + amounts[i]

LEMMA SumsUnique ==
  ASSUME NEW n \in Nat, NEW a, NEW s, NEW t, Sums(s, a, n), Sums(t, a, n)
  PROVE  s[n] = t[n]
<1> DEFINE Exceptions == {i \in 0..n : s[i] # t[i]}
<1> SUFFICES ASSUME Exceptions # {} PROVE FALSE
  <2>1. n \in 0..n
    OBVIOUS
  <2> QED
    BY <2>1
<1>1. PICK i \in Exceptions : \A j \in Exceptions : i <= j
  <2>1. Exceptions \subseteq Nat
    OBVIOUS
  <2> HIDE DEF Exceptions
  <2> QED
    BY <2>1, LeastException
<1>2. i \in 0..n /\ s[i] # t[i]
  OBVIOUS
<1>3. i # 0
  BY <1>2 DEF Sums
<1>4. i - 1 \in 0..n /\ i \in 1..n
  BY <1>2, <1>3
<1>5. s[i - 1] = t[i - 1]
  BY <1>1, <1>4
<1>6. s[i] = s[i - 1] + a[i] /\ t[i] = t[i - 1] + a[i]
  BY <1>4 DEF Sums
<1> QED
  BY <1>2, <1>5, <1>6

LEMMA SumsExist ==
  ASSUME NEW a \in Seq(Int)
  PROVE  \E s \in [0..Len(a) -> Int] : Sums(s, a, Len(a))
<1> DEFINE n == Len(a)
           Summed(k) == \E s \in [0..k -> Int] : Sums(s, a, k)
           Exceptions == {k \in 0..n : ~ Summed(k)}
<1>0. n \in Nat /\ \A i \in 1..n : a[i] \in Int
  OBVIOUS
<1>1. SUFFICES ASSUME Exceptions # {} PROVE FALSE
  <2>1. n \in 0..n
    BY <1>0
  <2> QED
    BY <2>1
<1>2. PICK k \in Exceptions : \A j \in Exceptions : k <= j
  <2>1. Exceptions \subseteq Nat /\ Exceptions # {}
    BY <1>1
  <2> HIDE DEF Exceptions
  <2> QED
    BY <2>1, LeastException
<1>3. k \in 0..n /\ ~ Summed(k)
  OBVIOUS
<1>4. k # 0
  <2>1. [i \in 0..0 |-> 0] \in [0..0 -> Int] /\ Sums([i \in 0..0 |-> 0], a, 0)
    BY DEF Sums
  <2>2. Summed(0)
    BY <2>1
  <2> QED
    BY <1>3, <2>2
<1>5. k \in 1..n /\ k - 1 \in 0..n /\ k \in Nat /\ a[k] \in Int
  BY <1>0, <1>3, <1>4
<1>6. Summed(k - 1)
  BY <1>2, <1>5
<1>7. PICK s \in [0..(k - 1) -> Int] : Sums(s, a, k - 1)
  BY <1>6
<1> DEFINE t == [i \in 0..k |-> IF i = k THEN s[k - 1] + a[k] ELSE s[i]]
<1>8. t \in [0..k -> Int]
  BY <1>5, <1>7
<1>9. Sums(t, a, k)
  <2>1. t[0] = 0
    BY <1>5, <1>7 DEF Sums
  <2>2. ASSUME NEW i \in 1..k PROVE t[i] = t[i - 1] + a[i]
    <3>1. CASE i = k
      BY <1>5, <3>1
    <3>2. CASE i # k
      BY <1>5, <1>7, <3>2 DEF Sums
    <3> QED
      BY <3>1, <3>2
  <2> QED
    BY <2>1, <2>2 DEF Sums
<1> QED
  BY <1>3, <1>8, <1>9

\* AddUp is the last of these sums (the built-in sum of order.py:135).
LEMMA AddUpSums ==
  ASSUME NEW a \in Seq(Int)
  PROVE  \E s \in [0..Len(a) -> Int] : Sums(s, a, Len(a)) /\ AddUp(a) = s[Len(a)]
<1> DEFINE p == CHOOSE f : f = [i \in 0..Len(a) |-> IF i = 0 THEN 0 ELSE f[i - 1] + a[i]]
<1>0. Len(a) \in Nat
  OBVIOUS
<1>1. PICK s \in [0..Len(a) -> Int] : Sums(s, a, Len(a))
  BY SumsExist
<1>2. s = [i \in 0..Len(a) |-> IF i = 0 THEN 0 ELSE s[i - 1] + a[i]]
  BY <1>0, <1>1 DEF Sums
<1>3. p = [i \in 0..Len(a) |-> IF i = 0 THEN 0 ELSE p[i - 1] + a[i]]
  BY <1>2
<1>4. AddUp(a) = p[Len(a)]
  BY DEF AddUp
<1> HIDE DEF p
<1>5. Sums(p, a, Len(a))
  <2>1. 0 \in 0..Len(a) /\ \A i \in 1..Len(a) : i \in 0..Len(a) /\ i # 0
    BY <1>0
  <2>2. p[0] = 0
    BY <1>3, <2>1
  <2>3. \A i \in 1..Len(a) : p[i] = p[i - 1] + a[i]
    BY <1>3, <2>1
  <2> QED
    BY <2>2, <2>3 DEF Sums
<1>6. p[Len(a)] = s[Len(a)]
  BY <1>0, <1>1, <1>5, SumsUnique
<1> QED
  BY <1>1, <1>4, <1>6

LEMMA AddUpType ==
  ASSUME NEW a \in Seq(Int)
  PROVE  AddUp(a) \in Int
<1>1. PICK s \in [0..Len(a) -> Int] : AddUp(a) = s[Len(a)]
  BY AddUpSums
<1>2. Len(a) \in 0..Len(a)
  OBVIOUS
<1> QED
  BY <1>1, <1>2

LEMMA AddUpAppend ==
  ASSUME NEW a \in Seq(Int), NEW x \in Int
  PROVE  AddUp(Append(a, x)) = AddUp(a) + x
<1> DEFINE b == Append(a, x)
<1>0. /\ Len(a) \in Nat /\ b \in Seq(Int) /\ Len(b) = Len(a) + 1
      /\ b[Len(a) + 1] = x /\ \A i \in 1..Len(a) : a[i] = b[i]
  OBVIOUS
<1> HIDE DEF b
<1>1. PICK s \in [0..Len(a) -> Int] : Sums(s, a, Len(a)) /\ AddUp(a) = s[Len(a)]
  BY AddUpSums
<1>2. PICK t \in [0..Len(b) -> Int] : Sums(t, b, Len(b)) /\ AddUp(b) = t[Len(b)]
  BY <1>0, AddUpSums
<1>3. Sums(t, a, Len(a))
  BY <1>0, <1>2 DEF Sums
<1>4. s[Len(a)] = t[Len(a)]
  BY <1>0, <1>1, <1>3, SumsUnique
<1>5. t[Len(a) + 1] = t[Len(a)] + b[Len(a) + 1]
  <2>1. \A i \in 1..Len(b) : t[i] = t[i - 1] + b[i]
    BY <1>2 DEF Sums
  <2>2. Len(a) + 1 \in 1..Len(b) /\ (Len(a) + 1) - 1 = Len(a)
    BY <1>0
  <2> QED
    BY <2>1, <2>2
<1> QED
  BY <1>0, <1>1, <1>2, <1>4, <1>5 DEF b

-----------------------------------------------------------------------------
(* The order of the listing.  The row of an order is the number of listed   *)
(* orders that are not before it; exactly one order has each row.          *)

Row(ids, id) == Cardinality({other \in ids : other >= id})

LEMMA RowsDiffer ==
  ASSUME NEW ids \in SUBSET Ids
  PROVE  /\ IsFiniteSet(ids) /\ Cardinality(ids) \in Nat
         /\ \A id \in ids : Row(ids, id) \in 1..Cardinality(ids)
         /\ \A x, y \in ids : x > y => Row(ids, x) < Row(ids, y)
<1> DEFINE From(id) == {other \in ids : other >= id}
<1>1. IsFiniteSet(ids) /\ Cardinality(ids) \in Nat
  BY OrderReadsAssumption, FS_Subset, FS_CardinalityType
<1>2. ASSUME NEW id \in ids
      PROVE  /\ IsFiniteSet(From(id)) /\ Cardinality(From(id)) \in 1..Cardinality(ids)
  <2>1. From(id) \in SUBSET ids /\ id \in From(id)
    BY OrderReadsAssumption
  <2> HIDE DEF From
  <2>2. IsFiniteSet(From(id)) /\ Cardinality(From(id)) <= Cardinality(ids)
    BY <1>1, <2>1, FS_Subset
  <2>3. Cardinality(From(id)) \in Nat /\ Cardinality(From(id)) # 0
    BY <2>1, <2>2, FS_CardinalityType, FS_EmptySet
  <2> QED
    BY <1>1, <2>2, <2>3
<1>3. ASSUME NEW x \in ids, NEW y \in ids, x > y
      PROVE  Cardinality(From(x)) < Cardinality(From(y))
  <2>0. \A id \in ids : id \in Nat
    BY OrderReadsAssumption
  <2>1. From(x) \in SUBSET From(y) /\ y \in From(y) /\ y \notin From(x)
    <3>1. ASSUME NEW other \in ids, other >= x PROVE other >= y
      BY <1>3, <2>0, <3>1
    <3> QED
      BY <1>3, <2>0, <3>1
  <2>2. From(x) # From(y)
    BY <2>1
  <2>3. Cardinality(From(x)) \in Nat /\ Cardinality(From(y)) \in Nat /\ IsFiniteSet(From(y))
    BY <1>1, <1>2
  <2> HIDE DEF From
  <2>4. /\ Cardinality(From(x)) <= Cardinality(From(y))
        /\ Cardinality(From(y)) = Cardinality(From(x)) => From(y) = From(x)
    BY <2>1, <2>3, FS_Subset
  <2> QED
    BY <2>2, <2>3, <2>4
<1> QED
  BY <1>1, <1>2, <1>3 DEF Row

LEMMA DescendingRows ==
  ASSUME NEW ids \in SUBSET Ids
  PROVE  /\ Descending(ids) \in Seq(ids) /\ Len(Descending(ids)) = Cardinality(ids)
         /\ \A k \in 1..Cardinality(ids) : Row(ids, Descending(ids)[k]) = k
         /\ \A id \in ids : Descending(ids)[Row(ids, id)] = id
<1> DEFINE n == Cardinality(ids)
           rows == [id \in ids |-> Row(ids, id)]
<1>1. /\ IsFiniteSet(ids) /\ n \in Nat
      /\ \A id \in ids : Row(ids, id) \in 1..n
      /\ \A x, y \in ids : x > y => Row(ids, x) < Row(ids, y)
  BY RowsDiffer
<1>2. \A x, y \in ids : Row(ids, x) = Row(ids, y) => x = y
  <2> SUFFICES ASSUME NEW x \in ids, NEW y \in ids, x # y
               PROVE  Row(ids, x) # Row(ids, y)
    OBVIOUS
  <2>1. x > y \/ y > x
    BY OrderReadsAssumption
  <2>2. Row(ids, x) \in 1..n /\ Row(ids, y) \in 1..n
    BY <1>1
  <2> QED
    BY <1>1, <2>1, <2>2
<1>3. rows \in Injection(ids, 1..n)
  <2>1. rows \in [ids -> 1..n]
    BY <1>1
  <2> QED
    BY <1>2, <2>1, Fun_IsInj
<1>4. IsFiniteSet(1..n) /\ Cardinality(1..n) = n
  BY <1>1, FS_Interval
<1>5. rows \in Surjection(ids, 1..n)
  BY <1>3, <1>4, FS_Injection
<1>6. \A k \in 1..n : \E id \in ids : Row(ids, id) = k
  BY <1>5 DEF Surjection
<1>7. Descending(ids) = [k \in 1..n |-> CHOOSE id \in ids : Row(ids, id) = k]
  BY DEF Descending, Row
<1>8. \A k \in 1..n : Descending(ids)[k] \in ids /\ Row(ids, Descending(ids)[k]) = k
  BY <1>6, <1>7
<1>9. Descending(ids) \in Seq(ids) /\ Len(Descending(ids)) = n
  BY <1>1, <1>7, <1>8
<1> QED
  BY <1>1, <1>2, <1>8, <1>9

Listed(d) == {id \in Ids : Qualifies(d, id)}

\* A page is the rows after its offset, as many as there are up to the limit.
LEMMA PageRows ==
  ASSUME NEW d, NEW from \in Nat
  PROVE  /\ \E k \in Nat :
              /\ k <= Limit /\ Page(d, from) = [i \in 1..k |-> Page(d, from)[i]]
              /\ k = 0 => \A id \in Listed(d) : Row(Listed(d), id) <= from
         /\ \A i \in DOMAIN Page(d, from) : \E id \in Listed(d) :
              Page(d, from)[i] = d.orders[id] /\ Row(Listed(d), id) = from + i
         /\ \A id \in Listed(d) :
              Row(Listed(d), id) \in (from + 1)..(from + Limit) =>
                /\ Row(Listed(d), id) - from \in DOMAIN Page(d, from)
                /\ Page(d, from)[Row(Listed(d), id) - from] = d.orders[id]
<1> DEFINE ids == Listed(d)
           n == Cardinality(ids)
           s == Descending(ids)
           last == MinOf(from + Limit, n)
           cut == SubSeq(s, from + 1, last)
           p == [i \in DOMAIN cut |-> d.orders[cut[i]]]
           k == IF last > from THEN last - from ELSE 0
<1>0. Limit \in Nat \ {0} /\ ids \in SUBSET Ids
  BY OrderReadsAssumption DEF Listed
<1>1. /\ n \in Nat /\ \A id \in ids : Row(ids, id) \in 1..n
      /\ s \in Seq(ids) /\ Len(s) = n
      /\ \A i \in 1..n : s[i] \in ids /\ Row(ids, s[i]) = i
      /\ \A id \in ids : s[Row(ids, id)] = id
  BY <1>0, RowsDiffer, DescendingRows
<1>2. Page(d, from) = p
  BY <1>1 DEF Page, Listed
<1> HIDE DEF ids, n, s
<1>3. last \in Nat /\ last <= from + Limit /\ last <= n /\ (last = from + Limit \/ last = n)
  BY <1>0, <1>1 DEF MinOf
<1>4. /\ k \in Nat /\ k <= Limit /\ (k = 0 => n <= from)
      /\ \A i \in 1..k : from + i \in 1..n
      /\ \A i \in 1..n : i > from /\ i <= from + Limit => i - from \in 1..k
  BY <1>0, <1>1, <1>3
<1> HIDE DEF last
<1>5. Len(cut) = k /\ cut \in Seq(ids) /\ \A i \in 1..k : cut[i] = s[from + i]
  <2>1. \A i \in (from + 1)..last : s[i] \in ids
    BY <1>1, <1>3
  <2>2. /\ cut \in Seq(ids)
        /\ Len(cut) = IF from + 1 <= last THEN last - (from + 1) + 1 ELSE 0
        /\ \A i \in 1..(last - (from + 1) + 1) : cut[i] = s[from + 1 + i - 1]
    BY <1>3, <2>1, SubSeqProperties
  <2> QED
    BY <1>3, <2>2
<1> HIDE DEF cut, k
<1>6. p = [i \in 1..k |-> d.orders[s[from + i]]]
  BY <1>4, <1>5
<1> HIDE DEF p
<1>7. ASSUME k = 0, NEW id \in ids PROVE Row(ids, id) <= from
  BY <1>1, <1>4, <1>7
<1>8. ASSUME NEW i \in 1..k
      PROVE  \E id \in ids : p[i] = d.orders[id] /\ Row(ids, id) = from + i
  BY <1>1, <1>4, <1>6
<1>9. ASSUME NEW id \in ids, Row(ids, id) \in (from + 1)..(from + Limit)
      PROVE  Row(ids, id) - from \in 1..k /\ p[Row(ids, id) - from] = d.orders[id]
  <2>1. Row(ids, id) \in 1..n /\ s[Row(ids, id)] = id
    BY <1>1
  <2>2. Row(ids, id) - from \in 1..k /\ from + (Row(ids, id) - from) = Row(ids, id)
    BY <1>0, <1>4, <1>9, <2>1
  <2> QED
    BY <1>6, <2>1, <2>2
<1> QED
  <2>1. p = [i \in 1..k |-> p[i]] /\ DOMAIN p = 1..k
    BY <1>6
  <2>2. \E m \in Nat : /\ m <= Limit /\ p = [i \in 1..m |-> p[i]]
                       /\ m = 0 => \A id \in ids : Row(ids, id) <= from
    BY <1>4, <1>7, <2>1
  <2> QED
    BY <1>2, <1>8, <1>9, <2>1, <2>2 DEF ids

-----------------------------------------------------------------------------
(* Types.  What the writers leave is of its type and as they say.          *)

LEMMA NetType ==
  ASSUME NEW lines \in Seq(Details)
  PROVE  Net(lines) \in Int
<1> DEFINE amounts == [i \in DOMAIN lines |-> lines[i].price * lines[i].qty]
<1>1. \A i \in DOMAIN lines : lines[i] \in Details
  OBVIOUS
<1>2. amounts \in Seq(Int)
  <2>1. DOMAIN lines = 1..Len(lines) /\ Len(lines) \in Nat
    OBVIOUS
  <2>2. \A i \in 1..Len(lines) : lines[i].price * lines[i].qty \in Int
    BY <1>1, <2>1 DEF Details
  <2> QED
    BY <2>1, <2>2
<1>3. AddUp(amounts) \in Int
  BY <1>2, AddUpType
<1> QED
  BY <1>3 DEF Net

LEMMA HeaderType ==
  ASSUME NEW id \in Ids, NEW content \in Contents, NEW state \in Qualifying \cup OtherStates
  PROVE  /\ content.lines \in Seq(Details)
         /\ Header(id, content, state) \in Headers
         /\ Header(id, content, state).id = id
         /\ Header(id, content, state).total =
              Net(content.lines) + Header(id, content, state).delivery_cost + TAX
<1>1. /\ content.lines \in Seq(Details) /\ content.delivery_cost \in Int
      /\ content.stamp_duty \in Int \cup {NONE} /\ content.invoice_doc_n \in Int \cup {NONE}
      /\ content.invoice_doc_date \in Dates \cup {NONE}
      /\ content.delivery \in Addresses \cup {NONE}
      /\ content.billing \in Addresses \cup {NONE}
      /\ TAX \in Int
  BY WritersAssumption
<1>2. Net(content.lines) + content.delivery_cost + TAX \in Int
  BY <1>1, NetType
<1> QED
  BY <1>1, <1>2 DEF Header, Headers

\* A database with one order replaced by one as the writers write it.
LEMMA OneOrderWritten ==
  ASSUME NEW d \in Databases, AsWritten(d), NEW id \in Ids,
         NEW header \in Headers \cup {NONE}, NEW lines \in Seq(Details),
         header # NONE =>
           header.id = id /\ header.total = Net(lines) + header.delivery_cost + TAX
  PROVE  LET e == [d EXCEPT !.orders[id] = header, !.lines[id] = lines]
         IN  e \in Databases /\ AsWritten(e)
<1> DEFINE e == [d EXCEPT !.orders[id] = header, !.lines[id] = lines]
<1>1. /\ d.orders \in [Ids -> Headers \cup {NONE}] /\ d.lines \in [Ids -> Seq(Details)]
      /\ d.shipping \in Seq(ProductIds)
  BY DEF Databases
<1>2. /\ e.orders = [d.orders EXCEPT ![id] = header] /\ e.lines = [d.lines EXCEPT ![id] = lines]
      /\ e = [orders |-> e.orders, lines |-> e.lines, shipping |-> d.shipping]
  <2> DEFINE orders == [d.orders EXCEPT ![id] = header]
             rows == [d.lines EXCEPT ![id] = lines]
  <2>1. d = [orders |-> d.orders, lines |-> d.lines, shipping |-> d.shipping]
    BY DEF Databases
  <2>2. e = [d EXCEPT !.orders = orders, !.lines = rows]
    OBVIOUS
  <2> HIDE DEF orders, rows, e
  <2>3. e = [orders |-> orders, lines |-> rows, shipping |-> d.shipping]
    BY <2>1, <2>2
  <2> QED
    BY <2>3 DEF orders, rows
<1> HIDE DEF e
<1>3. e.orders \in [Ids -> Headers \cup {NONE}] /\ e.lines \in [Ids -> Seq(Details)]
  BY <1>1, <1>2
<1>4. e \in Databases
  <2> DEFINE orders == e.orders
             rows == e.lines
  <2>1. /\ e = [orders |-> orders, lines |-> rows, shipping |-> d.shipping]
        /\ orders \in [Ids -> Headers \cup {NONE}] /\ rows \in [Ids -> Seq(Details)]
    BY <1>2, <1>3
  <2> HIDE DEF orders, rows
  <2> QED
    BY <1>1, <2>1 DEF Databases
<1>5. ASSUME NEW other \in Ids, e.orders[other] # NONE PROVE Kept(e, other)
  <2>1. CASE other = id
    <3>1. e.orders[other] = header /\ e.lines[other] = lines
      BY <1>1, <1>2, <2>1
    <3> QED
      BY <1>5, <2>1, <3>1 DEF Kept
  <2>2. CASE other # id
    <3>1. e.orders[other] = d.orders[other] /\ e.lines[other] = d.lines[other]
      BY <1>1, <1>2, <2>2
    <3> QED
      BY <1>5, <3>1 DEF AsWritten, Kept
  <2> QED
    BY <2>1, <2>2
<1> QED
  BY <1>4, <1>5 DEF e, AsWritten

LEMMA WritersWrite ==
  ASSUME db \in Databases, AsWritten(db), Writer
  PROVE  \E d \in Databases : AsWritten(d) /\ Commit(d)
<1>1. ASSUME NEW id \in Ids, NEW content \in Contents,
             NEW state \in Qualifying \cup OtherStates, Place(id, content, state)
      PROVE  \E d \in Databases : AsWritten(d) /\ Commit(d)
  <2> DEFINE header == Header(id, content, state)
  <2>1. /\ header \in Headers \cup {NONE} /\ content.lines \in Seq(Details)
        /\ header.id = id
        /\ header.total = Net(content.lines) + header.delivery_cost + TAX
    BY HeaderType
  <2>2. Commit(WithOrder(id, header, content.lines))
    BY <1>1 DEF Place
  <2> HIDE DEF header
  <2> QED
    BY <2>1, <2>2, OneOrderWritten DEF WithOrder
<1>2. ASSUME NEW id \in Ids, NEW content \in Contents, Revise(id, content)
      PROVE  \E d \in Databases : AsWritten(d) /\ Commit(d)
  <2> DEFINE state == db.orders[id].logistic_state
             header == Header(id, content, state)
  <2>0. state \in Qualifying \cup OtherStates
    BY <1>2 DEF Revise, Databases, Headers
  <2>1. /\ header \in Headers \cup {NONE} /\ content.lines \in Seq(Details)
        /\ header.id = id
        /\ header.total = Net(content.lines) + header.delivery_cost + TAX
    BY <2>0, HeaderType
  <2>2. Commit(WithOrder(id, header, content.lines))
    BY <1>2 DEF Revise
  <2> HIDE DEF header
  <2> QED
    BY <2>1, <2>2, OneOrderWritten DEF WithOrder
<1>3. ASSUME NEW id \in Ids, NEW state \in Qualifying \cup OtherStates, Move(id, state)
      PROVE  \E d \in Databases : AsWritten(d) /\ Commit(d)
  <2> DEFINE old == db.orders[id]
             header == [old EXCEPT !.logistic_state = state]
             e == [db EXCEPT !.orders[id].logistic_state = state]
  <2>1. old # NONE /\ old \in Headers /\ Kept(db, id)
    BY <1>3 DEF Move, Databases, AsWritten
  <2>2. header \in Headers /\ header.id = old.id /\ header.total = old.total
        /\ header.delivery_cost = old.delivery_cost
    BY <2>1 DEF Headers
  <2>3. db.lines[id] \in Seq(Details) /\ db.lines = [db.lines EXCEPT ![id] = db.lines[id]]
    BY DEF Databases
  <2>4. e = [db EXCEPT !.orders[id] = header, !.lines[id] = db.lines[id]]
    BY <2>3 DEF Databases
  <2>5. header.id = id /\ header.total = Net(db.lines[id]) + header.delivery_cost + TAX
    BY <2>1, <2>2 DEF Kept
  <2>6. Commit(e)
    BY <1>3 DEF Move
  <2> HIDE DEF header, e
  <2> QED
    BY <2>2, <2>3, <2>4, <2>5, <2>6, OneOrderWritten
<1>4. ASSUME NEW id \in Ids, Delete(id)
      PROVE  \E d \in Databases : AsWritten(d) /\ Commit(d)
  <2>1. Commit(WithOrder(id, NONE, <<>>)) /\ <<>> \in Seq(Details)
    BY <1>4 DEF Delete
  <2> QED
    BY <2>1, OneOrderWritten DEF WithOrder
<1>5. ASSUME NEW products \in ShippingProducts, SellShipping(products)
      PROVE  \E d \in Databases : AsWritten(d) /\ Commit(d)
  <2> DEFINE e == [db EXCEPT !.shipping = products]
  <2>1. products \in Seq(ProductIds)
    BY WritersAssumption
  <2>2. e \in Databases /\ e.orders = db.orders /\ e.lines = db.lines
    BY <2>1 DEF Databases
  <2>3. Commit(e)
    BY <1>5 DEF SellShipping
  <2> HIDE DEF e
  <2>4. AsWritten(e)
    BY <2>2 DEF AsWritten, Kept
  <2> QED
    BY <2>2, <2>3, <2>4
<1> QED
  BY <1>1, <1>2, <1>3, <1>4, <1>5 DEF Writer

-----------------------------------------------------------------------------
\* The committed states form a sequence that is never empty.
HistoryKept ==
  /\ \E States : history \in Seq(States)
  /\ Now \in Nat \ {0}

ReaderTypes ==
  /\ pc \in [Exports -> {"idle", "order", "details", "shipping", "done"}]
  /\ began \in [Exports -> Nat] /\ snapshot \in [Exports -> Nat]
  /\ ended \in [Exports -> Nat]
  /\ DOMAIN row = Exports /\ DOMAIN details = Exports /\ DOMAIN answer = Exports

\* From its first statement on, an export has read from the state of its
\* snapshot, which was current during the call.
ReadsSnapshot(e) ==
  /\ pc[e] # "idle" => began[e] <= Now
  /\ pc[e] \in {"details", "shipping"} =>
       /\ snapshot[e] \in 1..Now /\ began[e] <= snapshot[e]
       /\ row[e] = Snapshot(e).orders[Target[e]] /\ row[e] # NONE
  /\ pc[e] = "shipping" => details[e] = Snapshot(e).lines[Target[e]]

\* What it answers is what an export that runs alone in that state answers.
AnswersSnapshot(e) ==
  pc[e] = "done" /\ answer[e] # FAILED =>
    /\ ended[e] <= Now
    /\ \E i \in 1..ended[e] : began[e] <= i /\ answer[e] = ExportIn(history[i], Target[e])

IInv ==
  /\ HistoryKept
  /\ ReaderTypes
  /\ \A e \in Exports : ReadsSnapshot(e) /\ AnswersSnapshot(e)

-----------------------------------------------------------------------------
\* A commit leaves the earlier states as they were (conn.commit of the writers).
LEMMA CommitKeepsStates ==
  ASSUME HistoryKept, NEW d, history' = Append(history, d)
  PROVE  /\ HistoryKept'
         /\ Now' = Now + 1
         /\ \A i \in 1..Now : history'[i] = history[i]
<1>1. PICK States : history \in Seq(States)
  BY DEF HistoryKept
<1>2. history \in Seq(States \cup {d}) /\ d \in States \cup {d}
  BY <1>1
<1>3. history' \in Seq(States \cup {d})
  BY <1>2
<1>4. /\ Len(history') = Len(history) + 1
      /\ \A i \in 1..Len(history) : history'[i] = history[i]
  BY <1>2
<1> QED
  BY <1>3, <1>4 DEF HistoryKept, Now

\* The shipping products matter only to an order that pays for shipping
\* (order_export/__init__.py:37).
LEMMA ShippingUnread ==
  ASSUME NEW r, NEW lines, NEW shipping, r.delivery_cost = 0
  PROVE  OrderFromRows(r, lines, <<>>) = OrderFromRows(r, lines, shipping)
<1>1. OrderRefused(r, lines, <<>>) <=> OrderRefused(r, lines, shipping)
  BY DEF OrderRefused
<1> QED
  BY <1>1, Zenon DEF OrderFromRows

-----------------------------------------------------------------------------
LEMMA InitEstablishes == Init => IInv
<1> SUFFICES ASSUME Init PROVE IInv
  OBVIOUS
<1>1. PICK d \in InitialStates : history = <<d>>
  BY DEF Init
<1>2. HistoryKept
  <2>1. history \in Seq({d}) /\ Len(history) = 1
    BY <1>1
  <2> QED
    BY <2>1 DEF HistoryKept, Now
<1>3. ReaderTypes
  BY DEF Init, ReaderTypes
<1>4. ASSUME NEW e \in Exports PROVE ReadsSnapshot(e) /\ AnswersSnapshot(e)
  BY DEF Init, ReadsSnapshot, AnswersSnapshot
<1> QED
  BY <1>2, <1>3, <1>4 DEF IInv

\* The exports of others and the states before a commit are untouched.
LEMMA CommitPreserves ==
  ASSUME IInv, NEW d, Commit(d)
  PROVE  IInv'
<1> USE DEF Commit, exportVars
<1>1. /\ HistoryKept' /\ Now' = Now + 1 /\ Now \in Nat
      /\ \A i \in 1..Now : history'[i] = history[i]
  BY CommitKeepsStates DEF IInv, HistoryKept
<1>2. ReaderTypes'
  BY DEF IInv, ReaderTypes
<1>3. ASSUME NEW e \in Exports PROVE ReadsSnapshot(e)'
  <2>1. ReadsSnapshot(e) /\ began[e] \in Nat
    BY DEF IInv, ReaderTypes
  <2>2. pc[e] # "idle" => began[e] <= Now'
    BY <1>1, <2>1 DEF ReadsSnapshot
  <2>3. pc[e] \in {"details", "shipping"} => snapshot[e] \in 1..Now
    BY <2>1 DEF ReadsSnapshot
  <2>4. pc[e] \in {"details", "shipping"} => history'[snapshot[e]] = history[snapshot[e]]
    BY <1>1, <2>3
  <2>5. pc[e] \in {"details", "shipping"} => snapshot[e] \in 1..Now'
    BY <1>1, <2>3
  <2> QED
    BY <2>1, <2>2, <2>4, <2>5 DEF ReadsSnapshot, Snapshot
<1>4. ASSUME NEW e \in Exports PROVE AnswersSnapshot(e)'
  <2> SUFFICES ASSUME pc[e] = "done", answer[e] # FAILED
               PROVE  /\ ended[e] <= Now'
                      /\ \E i \in 1..ended[e] :
                           began[e] <= i /\ answer[e] = ExportIn(history'[i], Target[e])
    BY DEF AnswersSnapshot
  <2>1. ended[e] <= Now /\ ended[e] \in Nat
    BY DEF IInv, ReaderTypes, AnswersSnapshot
  <2>2. PICK i \in 1..ended[e] : began[e] <= i /\ answer[e] = ExportIn(history[i], Target[e])
    BY DEF IInv, AnswersSnapshot
  <2>3. i \in 1..Now
    BY <1>1, <2>1, <2>2
  <2>4. history'[i] = history[i]
    BY <1>1, <2>3
  <2>5. ended[e] <= Now'
    BY <1>1, <2>1
  <2> QED
    BY <2>2, <2>4, <2>5
<1> QED
  BY <1>1, <1>2, <1>3, <1>4 DEF IInv

\* A step that leaves the history and the exports alone.
LEMMA OthersPreserve ==
  ASSUME IInv, UNCHANGED <<history, exportVars>>
  PROVE  IInv'
BY DEF IInv, HistoryKept, Now, ReaderTypes, ReadsSnapshot, AnswersSnapshot, Snapshot, exportVars

\* The other exports are as they were when one export steps.
OtherExports(e) ==
  \A f \in Exports \ {e} :
    /\ pc'[f] = pc[f] /\ began'[f] = began[f] /\ snapshot'[f] = snapshot[f]
    /\ row'[f] = row[f] /\ details'[f] = details[f]
    /\ answer'[f] = answer[f] /\ ended'[f] = ended[f]

LEMMA OneExportPreserves ==
  ASSUME IInv, NEW e \in Exports, history' = history, ReaderTypes',
         OtherExports(e), ReadsSnapshot(e)', AnswersSnapshot(e)'
  PROVE  IInv'
<1>1. HistoryKept'
  BY DEF IInv, HistoryKept, Now
<1>2. ASSUME NEW f \in Exports, f # e PROVE ReadsSnapshot(f)' /\ AnswersSnapshot(f)'
  BY <1>2 DEF IInv, OtherExports, ReadsSnapshot, AnswersSnapshot, Snapshot, Now
<1> QED
  BY <1>1, <1>2 DEF IInv

LEMMA BeginPreserves ==
  ASSUME IInv, NEW e \in Exports, Begin(e) PROVE IInv'
<1>1. /\ history' = history /\ pc' = [pc EXCEPT ![e] = "order"]
      /\ began' = [began EXCEPT ![e] = Now]
      /\ UNCHANGED <<snapshot, row, details, answer, ended>>
  BY DEF Begin
<1>2. ReaderTypes' /\ OtherExports(e)
  BY <1>1 DEF IInv, HistoryKept, ReaderTypes, OtherExports
<1>3. ReadsSnapshot(e)' /\ AnswersSnapshot(e)'
  BY <1>1 DEF IInv, HistoryKept, ReaderTypes, ReadsSnapshot, AnswersSnapshot, Now
<1> QED
  BY <1>1, <1>2, <1>3, OneExportPreserves

\* An answer given from the state number i, which was current during the call.
LEMMA AnswerPreserves ==
  ASSUME IInv, NEW e \in Exports, NEW value, NEW i \in 1..Now,
         Answer(e, value), history' = history, pc[e] # "idle",
         began' = began, snapshot' \in [Exports -> Nat],
         DOMAIN row' = Exports, DOMAIN details' = Exports,
         \A f \in Exports \ {e} :
           snapshot'[f] = snapshot[f] /\ row'[f] = row[f] /\ details'[f] = details[f],
         value # FAILED => began[e] <= i /\ value = ExportIn(history[i], Target[e])
  PROVE  IInv'
<1>0. Now' = Now /\ Now \in Nat
  BY DEF Now, IInv, HistoryKept
<1>1. /\ pc' = [pc EXCEPT ![e] = "done"] /\ answer' = [answer EXCEPT ![e] = value]
      /\ ended' = [ended EXCEPT ![e] = Now]
  BY DEF Answer
<1>2. ReaderTypes'
  BY <1>0, <1>1 DEF IInv, ReaderTypes
<1>3. OtherExports(e)
  BY <1>1 DEF IInv, ReaderTypes, OtherExports
<1>4. pc'[e] = "done" /\ answer'[e] = value /\ ended'[e] = Now
  BY <1>1 DEF IInv, ReaderTypes
<1>5. ReadsSnapshot(e)'
  BY <1>0, <1>4 DEF IInv, ReadsSnapshot
<1>6. AnswersSnapshot(e)'
  BY <1>0, <1>4 DEF AnswersSnapshot
<1> QED
  BY <1>2, <1>3, <1>5, <1>6, OneExportPreserves

LEMMA ReadOrderPreserves ==
  ASSUME IInv, NEW e \in Exports, ReadOrder(e) PROVE IInv'
<1>1. /\ pc[e] = "order" /\ history' = history
      /\ UNCHANGED <<began, details>>
      /\ snapshot' = [snapshot EXCEPT ![e] = Now]
      /\ row' = [row EXCEPT ![e] = db.orders[Target[e]]]
  BY DEF ReadOrder
<1>2. began[e] <= Now /\ Now \in Nat \ {0} /\ Now' = Now
  BY <1>1 DEF IInv, ReadsSnapshot, HistoryKept, Now
<1>3. /\ snapshot' \in [Exports -> Nat] /\ snapshot'[e] = Now
      /\ DOMAIN row' = Exports /\ row'[e] = db.orders[Target[e]]
      /\ \A f \in Exports \ {e} : snapshot'[f] = snapshot[f] /\ row'[f] = row[f]
  BY <1>1, <1>2 DEF IInv, ReaderTypes
<1>4. CASE db.orders[Target[e]] = NONE
  <2>1. Answer(e, MISSING)
    BY <1>4 DEF ReadOrder
  <2>2. MISSING = ExportIn(history[Now], Target[e])
    BY <1>4 DEF ExportIn, db
  <2> QED
    BY <1>1, <1>2, <1>3, <2>1, <2>2, AnswerPreserves DEF IInv, ReaderTypes
<1>5. CASE db.orders[Target[e]] # NONE
  <2>1. pc' = [pc EXCEPT ![e] = "details"] /\ UNCHANGED <<answer, ended>>
    BY <1>5 DEF ReadOrder
  <2>2. ReaderTypes' /\ pc'[e] = "details"
    BY <1>1, <1>3, <2>1 DEF IInv, ReaderTypes
  <2>3. OtherExports(e)
    BY <1>1, <1>3, <2>1 DEF IInv, ReaderTypes, OtherExports
  <2>4. ReadsSnapshot(e)'
    BY <1>1, <1>2, <1>3, <1>5, <2>2 DEF ReadsSnapshot, Snapshot, db
  <2>5. AnswersSnapshot(e)'
    BY <2>2 DEF AnswersSnapshot
  <2> QED
    BY <1>1, <2>2, <2>3, <2>4, <2>5, OneExportPreserves
<1> QED
  BY <1>4, <1>5

LEMMA ReadDetailsPreserves ==
  ASSUME IInv, NEW e \in Exports, ReadDetails(e) PROVE IInv'
<1> DEFINE lines == Snapshot(e).lines[Target[e]]
<1>1. /\ pc[e] = "details" /\ history' = history
      /\ UNCHANGED <<began, snapshot, row>>
      /\ details' = [details EXCEPT ![e] = lines]
  BY DEF ReadDetails
<1>2. /\ snapshot[e] \in 1..Now /\ began[e] <= snapshot[e] /\ Now' = Now /\ Now \in Nat
      /\ began[e] <= Now
      /\ row[e] = history[snapshot[e]].orders[Target[e]] /\ row[e] # NONE
  BY <1>1 DEF IInv, ReadsSnapshot, HistoryKept, Now, Snapshot
<1>3. /\ DOMAIN details' = Exports /\ details'[e] = lines
      /\ \A f \in Exports \ {e} : details'[f] = details[f]
  BY <1>1 DEF IInv, ReaderTypes
<1>4. CASE row[e].delivery_cost # 0
  <2>1. pc' = [pc EXCEPT ![e] = "shipping"] /\ UNCHANGED <<answer, ended>>
    BY <1>4 DEF ReadDetails
  <2>2. ReaderTypes' /\ pc'[e] = "shipping"
    BY <1>1, <1>3, <2>1 DEF IInv, ReaderTypes
  <2>3. OtherExports(e)
    BY <1>1, <1>3, <2>1 DEF IInv, ReaderTypes, OtherExports
  <2>4. ReadsSnapshot(e)'
    BY <1>1, <1>2, <1>3, <2>2 DEF ReadsSnapshot, Snapshot
  <2>5. AnswersSnapshot(e)'
    BY <2>2 DEF AnswersSnapshot
  <2> QED
    BY <1>1, <2>2, <2>3, <2>4, <2>5, OneExportPreserves
<1>5. CASE row[e].delivery_cost = 0
  <2>1. Answer(e, OrderFromRows(row[e], lines, <<>>))
    BY <1>5 DEF ReadDetails
  <2>2. OrderFromRows(row[e], lines, <<>>) = OrderFromRows(row[e], lines, Snapshot(e).shipping)
    BY <1>5, ShippingUnread
  <2>3. OrderFromRows(row[e], lines, <<>>) = ExportIn(history[snapshot[e]], Target[e])
    BY <1>2, <2>2, Zenon DEF ExportIn, Snapshot
  <2> QED
    BY <1>1, <1>2, <1>3, <2>1, <2>3, AnswerPreserves DEF IInv, ReaderTypes
<1> QED
  BY <1>4, <1>5

LEMMA ReadShippingPreserves ==
  ASSUME IInv, NEW e \in Exports, ReadShipping(e) PROVE IInv'
<1>1. /\ pc[e] = "shipping" /\ UNCHANGED <<history, began, snapshot, row, details>>
      /\ Answer(e, OrderFromRows(row[e], details[e], Snapshot(e).shipping))
  BY DEF ReadShipping
<1>2. /\ snapshot[e] \in 1..Now /\ began[e] <= snapshot[e]
      /\ row[e] = Snapshot(e).orders[Target[e]] /\ row[e] # NONE
      /\ details[e] = Snapshot(e).lines[Target[e]]
  BY <1>1 DEF IInv, ReadsSnapshot
<1>3. OrderFromRows(row[e], details[e], Snapshot(e).shipping)
        = ExportIn(history[snapshot[e]], Target[e])
  BY <1>2, Zenon DEF ExportIn, Snapshot
<1> QED
  BY <1>1, <1>2, <1>3, AnswerPreserves DEF IInv, ReaderTypes

LEMMA FailPreserves ==
  ASSUME IInv, NEW e \in Exports, Fail(e) PROVE IInv'
<1>1. /\ pc[e] \notin {"idle", "done"} /\ Answer(e, FAILED)
      /\ UNCHANGED <<history, began, snapshot, row, details>>
  BY DEF Fail
<1>2. Now \in 1..Now
  BY DEF IInv, HistoryKept
<1> QED
  BY <1>1, <1>2, AnswerPreserves DEF IInv, ReaderTypes

LEMMA NextPreserves == IInv /\ [Next]_vars => IInv'
<1> SUFFICES ASSUME IInv, [Next]_vars PROVE IInv'
  OBVIOUS
<1>1. CASE Listing
  BY <1>1, OthersPreserve DEF Listing, ReadPage, ReadLines, ListingFails
<1>2. CASE Writer
  <2>1. \E d : Commit(d)
    BY <1>2 DEF Writer, Place, Revise, Move, Delete, SellShipping
  <2> QED
    BY <2>1, CommitPreserves
<1>3. ASSUME NEW e \in Exports, Export(e) PROVE IInv'
  BY <1>3, BeginPreserves, ReadOrderPreserves, ReadDetailsPreserves,
     ReadShippingPreserves, FailPreserves DEF Export
<1>4. CASE UNCHANGED vars
  BY <1>4, OthersPreserve DEF vars
<1> QED
  BY <1>1, <1>2, <1>3, <1>4 DEF Next

LEMMA IInvImplies == IInv => ExportOneState
<1> SUFFICES ASSUME IInv, NEW e \in Exports, pc[e] = "done", answer[e] # FAILED
             PROVE  \E i \in began[e]..ended[e] : answer[e] = ExportIn(history[i], Target[e])
  BY DEF ExportOneState
<1>1. began[e] \in Nat /\ ended[e] \in Nat
  BY DEF IInv, ReaderTypes
<1>2. PICK i \in 1..ended[e] : began[e] <= i /\ answer[e] = ExportIn(history[i], Target[e])
  BY DEF IInv, AnswersSnapshot
<1>3. i \in began[e]..ended[e]
  BY <1>1, <1>2
<1> QED
  BY <1>2, <1>3

\* A full order is the one of a single committed state, which was current
\* between the call and its answer (order_export/__init__.py:18-42).
THEOREM ExportsAreOneState == Spec => []ExportOneState
<1>1. Spec => []IInv
  BY InitEstablishes, NextPreserves, PTL DEF Spec
<1> QED
  BY <1>1, IInvImplies, PTL

-----------------------------------------------------------------------------
(* The type invariant.                                                     *)

TInv == TypeOK /\ \A i \in 1..Now : AsWritten(history[i])

LEMMA TypeOfDb ==
  ASSUME TInv
  PROVE  /\ Now \in Nat \ {0} /\ Now <= MaxCommits + 1 /\ MaxCommits \in Nat
         /\ \A i \in 1..Now : history[i] \in Databases /\ AsWritten(history[i])
         /\ db \in Databases /\ AsWritten(db)
<1>1. Now \in 1..(MaxCommits + 1) /\ MaxCommits \in Nat
  BY OrderReadsAssumption DEF TInv, TypeOK
<1>2. \A i \in 1..Now : history[i] \in Databases /\ AsWritten(history[i])
  BY DEF TInv, TypeOK, Now
<1> QED
  BY <1>1, <1>2 DEF db

LEMMA TypeInit == Init => TInv
<1> SUFFICES ASSUME Init PROVE TInv
  OBVIOUS
<1>1. PICK d \in InitialStates : history = <<d>>
  BY DEF Init
<1>2. d \in Databases /\ AsWritten(d)
  BY WritersAssumption
<1>3. /\ history \in Seq(Databases) /\ Now = 1 /\ history[1] = d
      /\ Now \in 1..(MaxCommits + 1)
  BY <1>1, <1>2, OrderReadsAssumption DEF Now
<1>4. \A i \in 1..Now : AsWritten(history[i])
  BY <1>2, <1>3
<1>5. \A i \in 1..Now, id \in Ids :
        history[i].orders[id] # NONE => history[i].orders[id].id = id
  BY <1>4 DEF AsWritten, Kept
<1>6. page \in Seq(Headers) /\ Len(page) <= Limit
  BY OrderReadsAssumption DEF Init
<1>7. /\ pc \in [Exports -> {"idle", "order", "details", "shipping", "done"}]
      /\ {began, snapshot, ended} \subseteq [Exports -> 0..Now]
      /\ row \in [Exports -> Headers \cup {NONE}]
      /\ details \in [Exports -> Seq(Details) \cup {NONE}]
      /\ walk \in {"page", "lines", "done"}
      /\ started \in 1..Now /\ pageAt \in 1..Now /\ offset \in Nat /\ found \subseteq Ids
  BY <1>3 DEF Init
<1> QED
  BY <1>3, <1>4, <1>5, <1>6, <1>7 DEF TInv, TypeOK

LEMMA TypeCommit ==
  ASSUME TInv, NEW d \in Databases, AsWritten(d), Commit(d)
  PROVE  TInv'
<1> USE DEF Commit, exportVars, walkVars
<1>1. history \in Seq(Databases) /\ Now \in Nat /\ Now <= MaxCommits
  BY TypeOfDb DEF TInv, TypeOK
<1>2. /\ history' \in Seq(Databases) /\ Now' = Now + 1 /\ history'[Now'] = d
      /\ \A i \in 1..Now : history'[i] = history[i]
  BY <1>1 DEF Now
<1>3. \A i \in 1..Now' : AsWritten(history'[i])
  <2>1. \A i \in 1..Now' : i = Now' \/ i \in 1..Now
    BY <1>1, <1>2
  <2> QED
    BY <1>2, <2>1 DEF TInv
<1>4. \A i \in 1..Now', id \in Ids :
        history'[i].orders[id] # NONE => history'[i].orders[id].id = id
  BY <1>3 DEF AsWritten, Kept
<1>5. Now' \in 1..(MaxCommits + 1) /\ 1..Now \subseteq 1..Now' /\ 0..Now \subseteq 0..Now'
  BY <1>1, <1>2, OrderReadsAssumption
<1>6. {began, snapshot, ended}' \subseteq [Exports -> 0..Now']
  BY <1>5 DEF TInv, TypeOK
<1>7. started' \in 1..Now' /\ pageAt' \in 1..Now'
  BY <1>5 DEF TInv, TypeOK
<1>8. /\ pc' \in [Exports -> {"idle", "order", "details", "shipping", "done"}]
      /\ row' \in [Exports -> Headers \cup {NONE}]
      /\ details' \in [Exports -> Seq(Details) \cup {NONE}]
      /\ walk' \in {"page", "lines", "done"}
      /\ page' \in Seq(Headers) /\ Len(page') <= Limit
      /\ offset' \in Nat /\ found' \subseteq Ids
  BY DEF TInv, TypeOK
<1>9. /\ (history \in Seq(Databases))' /\ (Now \in 1..(MaxCommits + 1))'
      /\ (\A i \in 1..Now : AsWritten(history[i]))'
      /\ (\A i \in 1..Now, id \in Ids :
            history[i].orders[id] # NONE => history[i].orders[id].id = id)'
  BY <1>2, <1>3, <1>4, <1>5
<1> QED
  BY <1>6, <1>7, <1>8, <1>9 DEF TInv, TypeOK

\* A step of an export changes only what the export has.
LEMMA TypeExport ==
  ASSUME TInv, history' = history, UNCHANGED walkVars,
         pc' \in [Exports -> {"idle", "order", "details", "shipping", "done"}],
         {began, snapshot, ended}' \subseteq [Exports -> 0..Now],
         row' \in [Exports -> Headers \cup {NONE}],
         details' \in [Exports -> Seq(Details) \cup {NONE}]
  PROVE  TInv'
BY DEF TInv, TypeOK, Now, walkVars

LEMMA TypeExports ==
  ASSUME TInv, IInv, NEW e \in Exports, Export(e)
  PROVE  TInv'
<1>0. /\ Now \in Nat \ {0} /\ Now \in 0..Now /\ Target[e] \in Ids
      /\ \A i \in 1..Now : /\ history[i].orders[Target[e]] \in Headers \cup {NONE}
                           /\ history[i].lines[Target[e]] \in Seq(Details)
      /\ db.orders[Target[e]] \in Headers \cup {NONE}
  <2>1. Target[e] \in Ids /\ Now \in Nat \ {0} /\ db = history[Now]
    BY TypeOfDb, OrderReadsAssumption DEF db
  <2>2. \A i \in 1..Now : /\ history[i].orders[Target[e]] \in Headers \cup {NONE}
                          /\ history[i].lines[Target[e]] \in Seq(Details)
    BY TypeOfDb, <2>1 DEF Databases
  <2> QED
    BY <2>1, <2>2
<1>1. /\ pc \in [Exports -> {"idle", "order", "details", "shipping", "done"}]
      /\ began \in [Exports -> 0..Now] /\ snapshot \in [Exports -> 0..Now]
      /\ ended \in [Exports -> 0..Now]
      /\ row \in [Exports -> Headers \cup {NONE}]
      /\ details \in [Exports -> Seq(Details) \cup {NONE}]
  BY DEF TInv, TypeOK
<1> USE DEF Answer
<1>2. CASE Begin(e)
  BY <1>0, <1>1, <1>2, TypeExport DEF Begin
<1>3. CASE ReadOrder(e)
  <2>1. /\ snapshot' = [snapshot EXCEPT ![e] = Now]
        /\ row' = [row EXCEPT ![e] = db.orders[Target[e]]]
        /\ UNCHANGED <<history, began, details, walkVars>>
    BY <1>3 DEF ReadOrder
  <2>2. /\ pc' \in [Exports -> {"idle", "order", "details", "shipping", "done"}]
        /\ ended' \in [Exports -> 0..Now]
    BY <1>0, <1>1, <1>3 DEF ReadOrder
  <2> QED
    BY <1>0, <1>1, <2>1, <2>2, TypeExport
<1>4. CASE ReadDetails(e)
  <2>1. /\ details' = [details EXCEPT ![e] = history[snapshot[e]].lines[Target[e]]]
        /\ UNCHANGED <<history, began, snapshot, row, walkVars>>
    BY <1>4 DEF ReadDetails, Snapshot
  <2>2. snapshot[e] \in 1..Now
    BY <1>4 DEF ReadDetails, IInv, ReadsSnapshot
  <2>3. /\ pc' \in [Exports -> {"idle", "order", "details", "shipping", "done"}]
        /\ ended' \in [Exports -> 0..Now]
    BY <1>0, <1>1, <1>4 DEF ReadDetails
  <2> QED
    BY <1>0, <1>1, <2>1, <2>2, <2>3, TypeExport
<1>5. CASE ReadShipping(e)
  BY <1>0, <1>1, <1>5, TypeExport DEF ReadShipping
<1>6. CASE Fail(e)
  BY <1>0, <1>1, <1>6, TypeExport DEF Fail
<1> QED
  BY <1>2, <1>3, <1>4, <1>5, <1>6 DEF Export

\* A step of the walk changes only what the client has.
LEMMA TypeWalk ==
  ASSUME TInv, UNCHANGED <<history, exportVars, started>>,
         walk' \in {"page", "lines", "done"}, pageAt' \in 1..Now, offset' \in Nat,
         page' \in Seq(Headers), Len(page') <= Limit, found' \subseteq Ids
  PROVE  TInv'
BY DEF TInv, TypeOK, Now, exportVars

LEMMA TypeListing ==
  ASSUME TInv, Listing
  PROVE  TInv'
<1>0. /\ Now \in Nat \ {0} /\ Limit \in Nat /\ offset \in Nat /\ Now' = Now
      /\ page \in Seq(Headers) /\ \A i \in DOMAIN page : page[i].id \in Ids
  <2>1. \A i \in DOMAIN page : page[i] \in Headers
    BY DEF TInv, TypeOK
  <2> QED
    BY <2>1, TypeOfDb, OrderReadsAssumption
       DEF TInv, TypeOK, Headers, Now, Listing, ReadPage, ReadLines, ListingFails
<1>1. CASE ReadPage
  <2> DEFINE p == Page(db, offset)
  <2>1. /\ UNCHANGED <<history, exportVars, started, offset, found>>
        /\ page' = p /\ pageAt' = Now /\ walk' \in {"lines", "done"}
    BY <1>1 DEF ReadPage
  <2>2. PICK k \in Nat : k <= Limit /\ p = [i \in 1..k |-> p[i]]
    BY <1>0, PageRows
  <2>3. \A i \in 1..k : p[i] \in Headers
    <3>1. \A i \in DOMAIN p : \E id \in Listed(db) : p[i] = db.orders[id]
      BY <1>0, PageRows
    <3>2. \A id \in Listed(db) : db.orders[id] \in Headers
      BY TypeOfDb DEF Listed, Qualifies, Databases
    <3> QED
      BY <2>2, <3>1, <3>2
  <2> HIDE DEF p
  <2>4. p \in Seq(Headers) /\ Len(p) <= Limit
    BY <2>2, <2>3
  <2>5. Now \in 1..Now /\ found \subseteq Ids /\ exportVars' = exportVars
    BY <1>0, <2>1 DEF TInv, TypeOK
  <2> QED
    BY <1>0, <2>1, <2>4, <2>5, TypeWalk
<1>2. CASE ReadLines
  <2>1. found' \subseteq Ids
    BY <1>0, <1>2 DEF ReadLines, TInv, TypeOK
  <2>2. offset' \in Nat
    BY <1>0, <1>2 DEF ReadLines
  <2> QED
    BY <1>2, <2>1, <2>2, TypeWalk DEF ReadLines, TInv, TypeOK
<1>3. CASE ListingFails
  BY <1>3, TypeWalk DEF ListingFails, TInv, TypeOK
<1> QED
  BY <1>1, <1>2, <1>3 DEF Listing

LEMMA TypeNext == TInv /\ IInv /\ [Next]_vars => TInv'
<1> SUFFICES ASSUME TInv, IInv, [Next]_vars PROVE TInv'
  OBVIOUS
<1>1. CASE Listing
  BY <1>1, TypeListing
<1>2. CASE Writer
  BY <1>2, TypeOfDb, WritersWrite, TypeCommit
<1>3. ASSUME NEW e \in Exports, Export(e) PROVE TInv'
  BY <1>3, TypeExports
<1>4. CASE UNCHANGED vars
  BY <1>4 DEF vars, exportVars, walkVars, TInv, TypeOK, Now
<1> QED
  BY <1>1, <1>2, <1>3, <1>4 DEF Next

\* Each variable is in its type, and in every state of the database an order is
\* as a program has written it.
THEOREM TypeCorrect == Spec => []TypeOK
<1>1. Spec => []IInv
  BY InitEstablishes, NextPreserves, PTL DEF Spec
<1>2. Spec => []TInv
  BY <1>1, TypeInit, TypeNext, PTL DEF Spec
<1>3. TInv => TypeOK
  BY DEF TInv
<1> QED
  BY <1>2, <1>3, PTL

-----------------------------------------------------------------------------
(* The tax of an exported order.                                           *)

\* The amounts of the exported lines are those of the stored lines and the
\* shipping (order_export/order.py:92-135).
LEMMA NetOfLines ==
  ASSUME NEW header \in Headers, NEW details0 \in Seq(Details)
  PROVE  Totals(header, Lines(header, details0)).net
           = Net(details0) + header.delivery_cost
<1> DEFINE cost == header.delivery_cost
           lines == Lines(header, details0)
           exported == [i \in DOMAIN details0 |-> ExportLine(details0[i])]
           stored == [i \in DOMAIN details0 |-> details0[i].price * details0[i].qty]
           amounts == [i \in DOMAIN lines |-> lines[i].line_total]
           n == Len(details0)
<1>0. /\ n \in Nat /\ DOMAIN details0 = 1..n /\ cost \in Int
      /\ \A i \in 1..n : details0[i] \in Details
  BY DEF Headers
<1>1. Totals(header, lines).net = AddUp(amounts)
  BY DEF Totals
<1>2. Net(details0) = AddUp(stored)
  BY DEF Net
<1>3. stored \in Seq(Int) /\ Len(stored) = n
  <2>1. \A i \in 1..n : details0[i].price * details0[i].qty \in Int
    BY <1>0 DEF Details
  <2> QED
    BY <1>0, <2>1
<1>4. \A i \in 1..n : stored[i] = exported[i].line_total
  BY <1>0 DEF ExportLine, SignedTotal
<1>5. exported \in Seq({ExportLine(details0[i]) : i \in 1..n}) /\ Len(exported) = n
  BY <1>0
<1>6. CASE cost = 0
  <2>1. lines = exported \o <<>>
    BY <1>6 DEF Lines
  <2>2. lines = exported
    <3> HIDE DEF exported, lines
    <3> QED
      BY <1>5, <2>1
  <2>3. amounts = stored
    BY <1>0, <1>4, <2>2
  <2>4. AddUp(stored) \in Int
    BY <1>3, AddUpType
  <2>5. AddUp(stored) = AddUp(stored) + cost
    BY <1>6, <2>4
  <2> HIDE DEF amounts, stored
  <2> QED
    BY <1>1, <1>2, <2>3, <2>5
<1>7. CASE cost # 0
  <2>1. lines = exported \o <<ShippingLine(cost)>>
    BY <1>7 DEF Lines
  <2>2. /\ DOMAIN lines = 1..(n + 1) /\ lines[n + 1] = ShippingLine(cost)
        /\ \A i \in 1..n : lines[i] = exported[i]
    <3> HIDE DEF exported, lines
    <3>1. PICK all : exported \in Seq(all) /\ ShippingLine(cost) \in all
      <4>1. exported \in Seq({ExportLine(details0[i]) : i \in 1..n} \cup {ShippingLine(cost)})
        BY <1>5
      <4> QED
        BY <4>1
    <3> DEFINE one == <<ShippingLine(cost)>>
    <3>2. one \in Seq(all) /\ Len(one) = 1 /\ one[1] = ShippingLine(cost)
      BY <3>1
    <3> HIDE DEF one
    <3>3. /\ exported \o one \in Seq(all) /\ Len(exported \o one) = n + 1
          /\ \A i \in 1..(n + 1) :
               (exported \o one)[i] = IF i <= n THEN exported[i] ELSE one[i - n]
      <4>1. /\ exported \o one \in Seq(all)
            /\ Len(exported \o one) = Len(exported) + Len(one)
            /\ \A i \in 1..Len(exported) + Len(one) : (exported \o one)[i] =
                 IF i <= Len(exported) THEN exported[i] ELSE one[i - Len(exported)]
        BY <3>1, <3>2, ConcatProperties
      <4>2. Len(exported) = n /\ Len(exported) + Len(one) = n + 1
        BY <1>5, <3>2
      <4> QED
        BY <4>1, <4>2
    <3>4. lines = exported \o one
      BY <2>1 DEF one
    <3>5. lines \in Seq(all) /\ Len(lines) = n + 1
      BY <3>3, <3>4
    <3>6. n + 1 \in 1..(n + 1) /\ ~ (n + 1 <= n) /\ (n + 1) - n = 1
          /\ \A i \in 1..n : i \in 1..(n + 1) /\ i <= n
      BY <1>0
    <3> QED
      BY <3>2, <3>3, <3>4, <3>5, <3>6
  <2>3. lines[n + 1].line_total = cost
    BY <2>2 DEF ShippingLine
  <2>4. \A i \in 1..n : lines[i].line_total = stored[i]
    BY <1>4, <2>2
  <2>5. amounts = [i \in 1..(n + 1) |-> IF i = n + 1 THEN cost ELSE stored[i]]
    <3> HIDE DEF lines, stored
    <3> QED
      BY <1>0, <2>2, <2>3, <2>4
  <2> HIDE DEF amounts, stored
  <2>6. amounts = Append(stored, cost)
    BY <1>0, <1>3, <2>5
  <2>7. AddUp(amounts) = AddUp(stored) + cost
    BY <1>0, <1>3, <2>6, AddUpAppend
  <2> QED
    BY <1>1, <1>2, <2>7
<1> QED
  BY <1>6, <1>7

LEMMA ExportedTax ==
  ASSUME NEW d \in Databases, AsWritten(d), NEW id \in Ids, NEW order,
         order = ExportIn(d, id), order \notin {MISSING, REFUSED}
  PROVE  order.totals.tax = TAX
<1> DEFINE header == d.orders[id]
           lines == d.lines[id]
<1>1. header # NONE /\ order = OrderFromRows(header, lines, d.shipping)
  BY DEF ExportIn
<1>2. header \in Headers /\ lines \in Seq(Details) /\ Kept(d, id)
  BY <1>1 DEF Databases, AsWritten
<1>3. header.total = Net(lines) + header.delivery_cost + TAX
  BY <1>2 DEF Kept
<1> HIDE DEF header, lines
<1>4. order.totals = Totals(header, Lines(header, lines))
  BY <1>1 DEF OrderFromRows
<1>5. /\ Totals(header, Lines(header, lines)).net = Net(lines) + header.delivery_cost
      /\ Totals(header, Lines(header, lines)).tax
           = header.total - Totals(header, Lines(header, lines)).net
  BY <1>2, NetOfLines DEF Totals
<1>6. Net(lines) \in Int /\ header.delivery_cost \in Int /\ TAX \in Int
  BY <1>2, NetType, WritersAssumption DEF Headers
<1> QED
  BY <1>3, <1>4, <1>5, <1>6

\* An export has an answer only when it is done.
Unanswered == \A e \in Exports : pc[e] # "done" => answer[e] = NONE

LEMMA UnansweredNext == IInv /\ Unanswered /\ [Next]_vars => Unanswered'
<1> SUFFICES ASSUME IInv, Unanswered, [Next]_vars PROVE Unanswered'
  OBVIOUS
<1>0. DOMAIN pc = Exports /\ DOMAIN answer = Exports
  BY DEF IInv, ReaderTypes
<1>1. CASE Listing \/ Writer
  BY <1>1 DEF Unanswered, Listing, ReadPage, ReadLines, ListingFails, exportVars, Writer,
       Place, Revise, Move, Delete, SellShipping, Commit
<1>2. ASSUME NEW e \in Exports, Export(e) PROVE Unanswered'
  <2>1. CASE \E value : Answer(e, value)
    BY <1>0, <2>1 DEF Unanswered, Answer
  <2>2. CASE \E place : pc' = [pc EXCEPT ![e] = place] /\ pc[e] # "done" /\ answer' = answer
    BY <1>0, <2>2 DEF Unanswered
  <2> QED
    BY <1>2, <2>1, <2>2 DEF Export, Begin, ReadOrder, ReadDetails, ReadShipping, Fail
<1>3. CASE UNCHANGED vars
  BY <1>3 DEF Unanswered, vars, exportVars
<1> QED
  BY <1>1, <1>2, <1>3 DEF Next

\* The tax of an exported order, a residual of the stored gross, is the one its
\* writer put in it, for every order, however many lines it has
\* (order_export/order.py:109-140).
THEOREM ExportedTaxes == Spec => []TaxAsStored
<1>1. Init => Unanswered
  BY DEF Init, Unanswered
<1>2. Spec => [](IInv /\ TInv /\ Unanswered)
  BY <1>1, InitEstablishes, NextPreserves, TypeInit, TypeNext, UnansweredNext, PTL DEF Spec
<1>3. IInv /\ TInv /\ Unanswered => TaxAsStored
  <2> SUFFICES ASSUME IInv, TInv, Unanswered, NEW e \in Exports,
                      answer[e] \notin {NONE, FAILED, MISSING, REFUSED}
               PROVE  answer[e].totals.tax = TAX
    BY DEF TaxAsStored
  <2>1. pc[e] = "done" /\ answer[e] # FAILED
    BY DEF Unanswered
  <2>2. PICK i \in 1..ended[e] :
          ended[e] <= Now /\ answer[e] = ExportIn(history[i], Target[e])
    BY <2>1 DEF IInv, AnswersSnapshot
  <2>3. i \in 1..Now
    BY <2>2 DEF IInv, HistoryKept, ReaderTypes
  <2>4. history[i] \in Databases /\ AsWritten(history[i]) /\ Target[e] \in Ids
    BY <2>3, TypeOfDb, OrderReadsAssumption
  <2> QED
    BY <2>2, <2>4, ExportedTax
<1> QED
  BY <1>2, <1>3, PTL

-----------------------------------------------------------------------------
(* The pages of the listing.                                               *)

\* The page that was read shows orders that were listed then, by descending id.
PageInv ==
  /\ started <= pageAt
  /\ walk = "lines" => page = Page(history[pageAt], offset)
  /\ \A i \in DOMAIN page :
       /\ page[i].id \in Listed(history[pageAt])
       /\ page[i] = history[pageAt].orders[page[i].id]
  /\ \A i, j \in DOMAIN page : i < j => page[i].id > page[j].id

LInv == TInv /\ PageInv /\ ListingOrdered

\* What ORDER BY and LIMIT promise of one page (orders.py:18-33).
LEMMA PageOrdered ==
  ASSUME NEW d \in Databases, AsWritten(d), NEW from \in Nat, NEW p, p = Page(d, from)
  PROVE  /\ \A i \in DOMAIN p : p[i].id \in Listed(d) /\ p[i] = d.orders[p[i].id]
         /\ \A i, j \in DOMAIN p : i < j => p[i].id > p[j].id
<1>1. PICK k \in Nat : p = [i \in 1..k |-> p[i]]
  BY PageRows
<1>2. ASSUME NEW i \in DOMAIN p
      PROVE  /\ p[i].id \in Listed(d) /\ p[i] = d.orders[p[i].id]
             /\ Row(Listed(d), p[i].id) = from + i
  <2>1. PICK id \in Listed(d) : p[i] = d.orders[id] /\ Row(Listed(d), id) = from + i
    BY PageRows
  <2>2. d.orders[id].id = id
    BY <2>1 DEF Listed, Qualifies, AsWritten, Kept
  <2> QED
    BY <2>1, <2>2
<1>3. ASSUME NEW i \in DOMAIN p, NEW j \in DOMAIN p, i < j PROVE p[i].id > p[j].id
  <2> DEFINE x == p[i].id
             y == p[j].id
  <2>1. x \in Listed(d) /\ Row(Listed(d), x) = from + i
    BY <1>2
  <2>2. y \in Listed(d) /\ Row(Listed(d), y) = from + j
    BY <1>2
  <2>3. i \in Nat /\ j \in Nat /\ x \in Nat /\ y \in Nat /\ Listed(d) \in SUBSET Ids
    BY <1>1, <2>1, <2>2, OrderReadsAssumption DEF Listed
  <2>4. y > x => Row(Listed(d), y) < Row(Listed(d), x)
    BY <2>1, <2>2, <2>3, RowsDiffer
  <2> HIDE DEF x, y
  <2>5. x # y /\ ~ (y > x)
    BY <1>3, <2>1, <2>2, <2>3, <2>4
  <2>6. x > y
    BY <2>3, <2>5
  <2> QED
    BY <2>6 DEF x, y
<1> QED
  BY <1>2, <1>3

LEMMA ListingInit == Init => LInv
<1> SUFFICES ASSUME Init PROVE LInv
  OBVIOUS
<1>1. page = <<>> /\ response = <<>> /\ started = 1 /\ pageAt = 1 /\ walk = "page"
  BY DEF Init
<1> QED
  BY <1>1, TypeInit DEF LInv, PageInv, ListingOrdered

LEMMA ListingCommit ==
  ASSUME LInv, TInv', NEW d, Commit(d)
  PROVE  LInv'
<1>1. /\ Now \in Nat /\ Now' = Now + 1 /\ pageAt \in 1..Now
      /\ \A i \in 1..Now : history'[i] = history[i]
  <2>1. history \in Seq(Databases) /\ Now \in Nat /\ pageAt \in 1..Now
    BY TypeOfDb DEF LInv, TInv, TypeOK
  <2>2. history' = Append(history, d)
    BY DEF Commit
  <2> QED
    BY <2>1, <2>2, AppendProperties DEF Now
<1>2. UNCHANGED <<walk, started, offset, page, pageAt, response>>
  BY DEF Commit, walkVars
<1>3. history'[pageAt] = history[pageAt]
  BY <1>1
<1>4. PageInv'
  BY <1>2, <1>3 DEF LInv, PageInv
<1>5. ListingOrdered'
  <2> SUFFICES ASSUME response # <<>>
               PROVE  \E j \in pageAt..Now' : \A i \in DOMAIN response :
                        /\ response[i].header = history'[pageAt].orders[response[i].header.id]
                        /\ response[i].details = history'[j].lines[response[i].header.id]
    BY <1>2 DEF LInv, ListingOrdered
  <2>1. PICK j \in pageAt..Now : \A i \in DOMAIN response :
          /\ response[i].header = history[pageAt].orders[response[i].header.id]
          /\ response[i].details = history[j].lines[response[i].header.id]
    BY DEF LInv, ListingOrdered
  <2>2. j \in pageAt..Now' /\ history'[j] = history[j]
    BY <1>1
  <2> QED
    BY <1>3, <2>1, <2>2
<1> QED
  BY <1>4, <1>5 DEF LInv

LEMMA ListingSteps ==
  ASSUME LInv, TInv', Listing
  PROVE  LInv'
<1>0. /\ Now \in Nat \ {0} /\ Now' = Now /\ history' = history /\ started' = started
      /\ pageAt \in 1..Now /\ started \in 1..Now /\ offset \in Nat
      /\ db \in Databases /\ AsWritten(db) /\ db = history[Now]
  BY TypeOfDb DEF LInv, TInv, TypeOK, Now, Listing, ReadPage, ReadLines, ListingFails, db
<1>1. CASE ReadPage
  <2>1. /\ page' = Page(db, offset) /\ pageAt' = Now /\ response' = <<>>
        /\ offset' = offset
    BY <1>1 DEF ReadPage
  <2>2. /\ \A i \in DOMAIN page' : page'[i].id \in Listed(db) /\ page'[i] = db.orders[page'[i].id]
        /\ \A i, j \in DOMAIN page' : i < j => page'[i].id > page'[j].id
    BY <1>0, <2>1, PageOrdered
  <2>3. PageInv'
    BY <1>0, <2>1, <2>2 DEF PageInv
  <2> QED
    BY <2>1, <2>3 DEF LInv, ListingOrdered
<1>2. CASE ReadLines
  <2>1. /\ response' = Response(db, page) /\ walk' = "page"
        /\ UNCHANGED <<page, pageAt>>
    BY <1>2 DEF ReadLines
  <2>2. PageInv'
    BY <1>0, <2>1 DEF LInv, PageInv
  <2>3. /\ DOMAIN response' = DOMAIN page
        /\ \A i \in DOMAIN page :
             response'[i].header = page[i] /\ response'[i].details = db.lines[page[i].id]
    BY <2>1 DEF Response, DetailsOf
  <2>4. \A i \in DOMAIN page : page[i].logistic_state \in Qualifying
    BY DEF LInv, PageInv, Listed, Qualifies
  <2>5. Now \in pageAt..Now
    BY <1>0
  <2>6. ListingOrdered'
    BY <1>0, <2>1, <2>3, <2>4, <2>5 DEF LInv, PageInv, ListingOrdered
  <2> QED
    BY <2>2, <2>6 DEF LInv
<1>3. CASE ListingFails
  BY <1>0, <1>3 DEF ListingFails, LInv, PageInv, ListingOrdered
<1> QED
  BY <1>1, <1>2, <1>3 DEF Listing

LEMMA ListingNext == IInv /\ LInv /\ [Next]_vars => LInv'
<1> SUFFICES ASSUME IInv, LInv, [Next]_vars PROVE LInv'
  OBVIOUS
<1>0. TInv /\ TInv'
  BY TypeNext DEF LInv
<1>1. CASE Listing
  BY <1>0, <1>1, ListingSteps
<1>2. CASE Writer
  BY <1>0, <1>2, TypeOfDb, WritersWrite, ListingCommit
<1>3. CASE history' = history /\ UNCHANGED walkVars
  BY <1>0, <1>3 DEF LInv, PageInv, ListingOrdered, Now, walkVars
<1> QED
  BY <1>1, <1>2, <1>3
     DEF Next, Export, Begin, ReadOrder, ReadDetails, ReadShipping, Fail, vars

\* A page shows each order with its own lines, by descending id, headers of one
\* state and lines of one that is not older (orders.py:85-105).
THEOREM PagesAreOrdered == Spec => []ListingOrdered
<1>1. Spec => [](IInv /\ LInv)
  BY InitEstablishes, NextPreserves, ListingInit, ListingNext, PTL DEF Spec
<1>2. LInv => ListingOrdered
  BY DEF LInv
<1> QED
  BY <1>1, <1>2, PTL

-----------------------------------------------------------------------------
(* The walk through the pages.                                             *)

Stays(id) == \A i \in started..Now : Qualifies(history[i], id)

NoneLeft ==
  \A other \in Ids, i \in started..(Now - 1) :
    Qualifies(history[i], other) => Qualifies(history[i + 1], other)

\* While no order leaves the listing it only grows, and an order that was
\* listed throughout has been found or has a row after the offset: rows only
\* move down.
Ahead(id) ==
  \/ id \in found
  \/ walk = "page" /\ Row(Listed(db), id) > offset
  \/ walk = "lines" /\ Row(Listed(history[pageAt]), id) > offset

WalkInv ==
  /\ NoneLeft => \A i \in started..Now : Listed(history[i]) \subseteq Listed(db)
  /\ NoneLeft => \A id \in Ids : Stays(id) => Ahead(id)

WInv == LInv /\ WalkInv

LEMMA RowsGrow ==
  ASSUME NEW fewer \in SUBSET Ids, NEW more \in SUBSET Ids, fewer \subseteq more, NEW id
  PROVE  /\ Row(fewer, id) \in Nat /\ Row(more, id) \in Nat
         /\ Row(fewer, id) <= Row(more, id)
<1> DEFINE A == {other \in fewer : other >= id}
           B == {other \in more : other >= id}
<1>1. A \in SUBSET B /\ B \in SUBSET Ids
  OBVIOUS
<1>2. Row(fewer, id) = Cardinality(A) /\ Row(more, id) = Cardinality(B)
  BY DEF Row
<1> HIDE DEF A, B
<1>3. IsFiniteSet(B)
  BY <1>1, OrderReadsAssumption, FS_Subset
<1>4. IsFiniteSet(A) /\ Cardinality(A) <= Cardinality(B)
  BY <1>1, <1>3, FS_Subset
<1> QED
  BY <1>2, <1>3, <1>4, FS_CardinalityType

LEMMA WalkTypes ==
  ASSUME LInv
  PROVE  /\ Now \in Nat \ {0} /\ started \in 1..Now /\ pageAt \in started..Now
         /\ offset \in Nat /\ Limit \in Nat \ {0} /\ db = history[Now] /\ Now \in started..Now
         /\ walk \in {"page", "lines", "done"}
BY TypeOfDb, OrderReadsAssumption DEF LInv, PageInv, TInv, TypeOK, db

LEMMA WalkInit == Init => WInv
<1> SUFFICES ASSUME Init PROVE WInv
  OBVIOUS
<1>1. LInv /\ started = 1 /\ Now = 1 /\ db = history[1] /\ walk = "page" /\ offset = 0
  BY ListingInit DEF Init, Now, db
<1>2. ASSUME NEW id \in Ids, Stays(id) PROVE Ahead(id)
  <2>1. id \in Listed(db)
    BY <1>1, <1>2 DEF Stays, Listed
  <2>2. Listed(db) \in SUBSET Ids
    BY DEF Listed
  <2>3. Cardinality(Listed(db)) \in Nat /\ Row(Listed(db), id) \in 1..Cardinality(Listed(db))
    BY <2>1, <2>2, RowsDiffer
  <2> QED
    BY <1>1, <2>3 DEF Ahead
<1>3. \A i \in started..Now : i = 1
  BY <1>1
<1> QED
  BY <1>1, <1>2, <1>3 DEF WInv, WalkInv

LEMMA WalkCommit ==
  ASSUME WInv, NEW d, Commit(d)
  PROVE  WalkInv'
<1>0. /\ Now \in Nat \ {0} /\ started \in 1..Now /\ pageAt \in started..Now
      /\ offset \in Nat /\ db = history[Now] /\ Now \in started..Now
  BY WalkTypes DEF WInv
<1>1. /\ Now' = Now + 1 /\ db' = d /\ history'[Now + 1] = d
      /\ \A i \in 1..Now : history'[i] = history[i]
  <2>1. history \in Seq(Databases) /\ history' = Append(history, d)
    BY DEF WInv, LInv, TInv, TypeOK, Commit
  <2>2. Len(history') = Len(history) + 1 /\ history'[Len(history) + 1] = d
        /\ \A i \in 1..Len(history) : history'[i] = history[i]
    BY <2>1
  <2> QED
    BY <2>2 DEF Now, db
<1>2. UNCHANGED <<walk, started, offset, page, pageAt, found>>
  BY DEF Commit, walkVars
<1> SUFFICES ASSUME NoneLeft'
             PROVE  /\ \A i \in started..(Now + 1) : Listed(history'[i]) \subseteq Listed(d)
                    /\ \A id \in Ids : Stays(id)' => Ahead(id)'
  BY <1>1, <1>2 DEF WalkInv
<1>3. \A other \in Ids, i \in started..Now :
        Qualifies(history'[i], other) => Qualifies(history'[i + 1], other)
  <2>1. (Now + 1) - 1 = Now
    BY <1>0
  <2> QED
    BY <1>1, <1>2, <2>1 DEF NoneLeft
<1>4. NoneLeft
  <2> SUFFICES ASSUME NEW other \in Ids, NEW i \in started..(Now - 1)
               PROVE  Qualifies(history[i], other) => Qualifies(history[i + 1], other)
    BY DEF NoneLeft
  <2>1. i \in started..Now /\ i \in 1..Now /\ i + 1 \in 1..Now
    BY <1>0
  <2> QED
    BY <1>1, <1>3, <2>1
<1>5. Listed(db) \subseteq Listed(d)
  <2>1. history'[Now] = history[Now]
    BY <1>0, <1>1
  <2> QED
    BY <1>0, <1>1, <1>3, <2>1 DEF Listed
<1>6. ASSUME NEW i \in started..(Now + 1) PROVE Listed(history'[i]) \subseteq Listed(d)
  <2>1. CASE i = Now + 1
    BY <1>1, <2>1
  <2>2. CASE i # Now + 1
    <3>1. i \in started..Now /\ history'[i] = history[i]
      BY <1>0, <1>1, <2>2
    <3>2. Listed(history[i]) \subseteq Listed(db)
      BY <1>4, <3>1 DEF WInv, WalkInv
    <3> QED
      BY <1>5, <3>1, <3>2
  <2> QED
    BY <2>1, <2>2
<1>7. ASSUME NEW id \in Ids, Stays(id)' PROVE Ahead(id)'
  <2>1. Stays(id)
    <3>1. \A i \in started..Now : i \in started..(Now + 1) /\ history'[i] = history[i]
      BY <1>0, <1>1
    <3>2. \A i \in started..(Now + 1) : Qualifies(history'[i], id)
      BY <1>1, <1>2, <1>7 DEF Stays
    <3> QED
      BY <3>1, <3>2 DEF Stays
  <2>2. Ahead(id)
    BY <1>4, <2>1 DEF WInv, WalkInv
  <2>3. Listed(db) \in SUBSET Ids /\ Listed(d) \in SUBSET Ids
    BY DEF Listed
  <2>4. /\ Row(Listed(db), id) \in Nat /\ Row(Listed(d), id) \in Nat
        /\ Row(Listed(db), id) <= Row(Listed(d), id)
    BY <1>5, <2>3, RowsGrow
  <2>5. history'[pageAt] = history[pageAt]
    BY <1>0, <1>1
  <2> QED
    BY <1>0, <1>1, <1>2, <2>2, <2>4, <2>5 DEF Ahead
<1> QED
  BY <1>6, <1>7

LEMMA WalkSteps ==
  ASSUME WInv, Listing
  PROVE  WalkInv'
<1>0. /\ Now \in Nat \ {0} /\ started \in 1..Now /\ pageAt \in started..Now
      /\ offset \in Nat /\ Limit \in Nat \ {0} /\ db = history[Now] /\ Now \in started..Now
  BY WalkTypes DEF WInv
<1>1. Now' = Now /\ history' = history /\ started' = started /\ db' = db
  BY DEF Listing, ReadPage, ReadLines, ListingFails, Now, db
<1> SUFFICES ASSUME NoneLeft, NEW id \in Ids, Stays(id) PROVE Ahead(id)'
  BY <1>1 DEF WInv, WalkInv, NoneLeft, Stays
<1> DEFINE read == Listed(history[pageAt])
<1>2. Ahead(id)
  BY DEF WInv, WalkInv
<1>3. /\ id \in read /\ id \in Listed(db) /\ read \subseteq Listed(db)
      /\ read \in SUBSET Ids /\ Listed(db) \in SUBSET Ids
  BY <1>0 DEF Stays, Listed, WInv, WalkInv
<1>4. /\ Row(read, id) \in Nat /\ Row(Listed(db), id) \in Nat
      /\ Row(read, id) <= Row(Listed(db), id)
  BY <1>3, RowsGrow
<1> HIDE DEF read
<1>5. CASE ReadPage
  <2> DEFINE p == Page(db, offset)
  <2>1. /\ page' = p /\ pageAt' = Now /\ walk = "page"
        /\ walk' = (IF p = <<>> THEN "done" ELSE "lines")
        /\ offset' = offset /\ found' = found
    BY <1>5 DEF ReadPage
  <2>2. PICK k \in Nat : /\ k <= Limit /\ p = [i \in 1..k |-> p[i]]
                         /\ k = 0 => \A other \in Listed(db) : Row(Listed(db), other) <= offset
    <3>1. PICK d : d = db
      OBVIOUS
    <3>2. \E k \in Nat :
            /\ k <= Limit /\ Page(d, offset) = [i \in 1..k |-> Page(d, offset)[i]]
            /\ k = 0 => \A other \in Listed(d) : Row(Listed(d), other) <= offset
      BY <1>0, PageRows
    <3> QED
      BY <3>1, <3>2
  <2> HIDE DEF p
  <2>3. p = <<>> => k = 0
    <3>1. DOMAIN p = 1..k
      BY <2>2
    <3>2. p = <<>> => DOMAIN p = {}
      OBVIOUS
    <3>3. k # 0 => 1 \in 1..k
      OBVIOUS
    <3> QED
      BY <3>1, <3>2, <3>3
  <2>4. id \in found \/ Row(Listed(db), id) > offset
    BY <1>2, <2>1 DEF Ahead
  <2>5. CASE p = <<>>
    <3>1. Row(Listed(db), id) <= offset
      BY <1>3, <2>2, <2>3, <2>5
    <3>2. id \in found
      BY <1>0, <1>4, <2>4, <3>1
    <3> QED
      BY <2>1, <3>2 DEF Ahead
  <2>6. CASE p # <<>>
    <3>1. walk' = "lines" /\ history'[pageAt'] = db
      BY <1>0, <1>1, <2>1, <2>6
    <3> QED
      BY <2>1, <2>4, <3>1 DEF Ahead
  <2> QED
    BY <2>5, <2>6
<1>6. CASE ReadLines
  <2>1. /\ walk = "lines" /\ walk' = "page" /\ offset' = offset + Limit
        /\ found' = found \cup {page[i].id : i \in DOMAIN page}
        /\ page = Page(history[pageAt], offset)
    BY <1>6 DEF ReadLines, WInv, LInv, PageInv
  <2>2. CASE id \in found
    BY <2>1, <2>2 DEF Ahead
  <2>3. CASE id \notin found /\ Row(read, id) <= offset + Limit
    <3>1. Row(read, id) > offset
      BY <1>2, <2>1, <2>3 DEF Ahead, read
    <3>2. Row(read, id) \in (offset + 1)..(offset + Limit)
      BY <1>0, <1>4, <2>3, <3>1
    <3>3. /\ Row(read, id) - offset \in DOMAIN page
          /\ page[Row(read, id) - offset] = history[pageAt].orders[id]
      BY <1>0, <1>3, <2>1, <3>2, PageRows DEF read
    <3>4. history[pageAt].orders[id].id = id
      <4>1. AsWritten(history[pageAt]) /\ history[pageAt].orders[id] # NONE
        BY <1>0, <1>3, TypeOfDb DEF WInv, LInv, read, Listed, Qualifies
      <4> QED
        BY <4>1 DEF AsWritten, Kept
    <3>5. id \in found'
      BY <2>1, <3>3, <3>4
    <3> QED
      BY <3>5 DEF Ahead
  <2>4. CASE Row(read, id) > offset + Limit
    <3>1. Row(Listed(db), id) > offset + Limit
      BY <1>0, <1>4, <2>4
    <3> QED
      BY <1>1, <2>1, <3>1 DEF Ahead
  <2> QED
    BY <1>0, <1>4, <2>2, <2>3, <2>4
<1>7. CASE ListingFails
  <2>1. walk = "lines" /\ walk' = "page" /\ offset' = offset /\ found' = found
    BY <1>7 DEF ListingFails
  <2>2. id \in found \/ Row(read, id) > offset
    BY <1>2, <2>1 DEF Ahead, read
  <2>3. id \in found \/ Row(Listed(db), id) > offset
    BY <1>0, <1>4, <2>2
  <2> QED
    BY <1>1, <2>1, <2>3 DEF Ahead
<1> QED
  BY <1>5, <1>6, <1>7 DEF Listing

LEMMA WalkNext == IInv /\ WInv /\ [Next]_vars => WInv'
<1> SUFFICES ASSUME IInv, WInv, [Next]_vars PROVE WInv'
  OBVIOUS
<1>1. LInv'
  BY ListingNext DEF WInv
<1>2. CASE Listing
  BY <1>1, <1>2, WalkSteps DEF WInv
<1>3. CASE Writer
  <2>1. \E d : Commit(d)
    BY <1>3 DEF Writer, Place, Revise, Move, Delete, SellShipping
  <2> QED
    BY <1>1, <2>1, WalkCommit DEF WInv
<1>4. CASE history' = history /\ UNCHANGED walkVars
  BY <1>1, <1>4 DEF WInv, WalkInv, NoneLeft, Stays, Ahead, Now, db, walkVars
<1> QED
  BY <1>2, <1>3, <1>4
     DEF Next, Export, Begin, ReadOrder, ReadDetails, ReadShipping, Fail, vars

\* A client that walks the pages to the end finds every order that was listed
\* throughout, unless some order left the listing meanwhile: the only way to
\* miss one, for every page size and any number of orders and commits
\* (orders.py:18-32).
THEOREM WalksMissNone == Spec => []WalkMissesNone
<1>1. Spec => [](IInv /\ WInv)
  BY InitEstablishes, NextPreserves, WalkInit, WalkNext, PTL DEF Spec
<1>2. WInv => WalkMissesNone
  <2> SUFFICES ASSUME WInv, walk = "done", NEW id \in Ids, Stays(id), NoneLeft
               PROVE  id \in found
    BY DEF WalkMissesNone, Stays, NoneLeft
  <2> QED
    BY DEF WInv, WalkInv, Ahead
<1> QED
  BY <1>1, <1>2, PTL
=============================================================================
