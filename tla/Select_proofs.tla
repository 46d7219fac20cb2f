---------------------------- MODULE Select_proofs ----------------------------
(***************************************************************************)
(* Proofs about Select: a SELECT fails exactly when it must, and answers   *)
(* with what the query means, for any tables, queries and expressions.     *)
(***************************************************************************)
EXTENDS Select, SequenceTheorems, FiniteSetTheorems, TLAPS

Given == query \in Queries /\ rows \in Data
N == Len(query.tables)

\* ON of table k + 1 lets the combination u be followed by row r, 0 for none.
Follows(k, u, r) ==
    IF r # 0 THEN On(k + 1, Append(u, r)) = "true"
    ELSE /\ query.joins[k + 1].type = "LEFT"
         /\ \A s \in DOMAIN RowsOf(k + 1) : On(k + 1, Append(u, s)) # "true"
-----------------------------------------------------------------------------
(* Combinations. *)

\* A query has a table, and tables have rows.
LEMMA Loaded ==
    ASSUME Given
    PROVE  /\ N \in Nat \ {0} /\ DOMAIN query.tables = 1 .. N
           /\ \A i \in 1 .. N : /\ RowsOf(i) \in Seq(Seq(Value))
                                /\ Len(RowsOf(i)) \in Nat /\ DOMAIN RowsOf(i) = 1 .. Len(RowsOf(i))
<1>1. /\ query.tables \in Seq([name : STRING, alias : STRING, cols : Seq(STRING)])
      /\ Len(query.tables) > 0
      /\ \A i \in DOMAIN query.tables : RowsOf(i) \in Seq(Seq(Value))
  BY SelectAssumption DEF Given, RowsOf
<1> QED
  BY <1>1 DEF N

\* Sequences of a length are functions.
LEMMA Functions ==
    ASSUME NEW k \in Nat
    PROVE  \A x : x \in [1 .. k -> Nat] <=> x \in Seq(Nat) /\ Len(x) = k
<1>1. ASSUME NEW x \in [1 .. k -> Nat] PROVE x \in Seq(Nat) /\ Len(x) = k
  BY SeqDef
<1>2. ASSUME NEW x \in Seq(Nat), Len(x) = k PROVE x \in [1 .. k -> Nat]
  BY <1>2
<1> QED
  BY <1>1, <1>2

\* A tuple with one more row.
LEMMA Longer ==
    ASSUME NEW k \in Nat, NEW u \in [1 .. k -> Nat], NEW r \in Nat
    PROVE  /\ u \in Seq(Nat) /\ Len(u) = k
           /\ Append(u, r) \in [1 .. k + 1 -> Nat] /\ Append(u, r) \in Seq(Nat)
           /\ Len(Append(u, r)) = k + 1
           /\ \A i \in 1 .. k : Append(u, r)[i] = u[i]
           /\ Append(u, r)[k + 1] = r
           /\ SubSeq(Append(u, r), 1, k) = u
           /\ SubSeq(Append(u, r), 1, k + 1) = Append(u, r)
           /\ \A i \in 1 .. k : SubSeq(Append(u, r), 1, i) = SubSeq(u, 1, i)
<1>1. u \in Seq(Nat) /\ Len(u) = k
  BY Functions
<1>2. /\ Append(u, r) \in Seq(Nat)
      /\ Len(Append(u, r)) = k + 1
      /\ \A i \in 1 .. k : Append(u, r)[i] = u[i]
      /\ Append(u, r)[k + 1] = r
  BY <1>1
<1>3. SubSeq(Append(u, r), 1, k) = u
  BY <1>1, <1>2
<1>4. SubSeq(Append(u, r), 1, k + 1) = Append(u, r)
  BY <1>1, <1>2
<1>5. ASSUME NEW i \in 1 .. k PROVE SubSeq(Append(u, r), 1, i) = SubSeq(u, 1, i)
  BY <1>1, <1>2
<1>6. Append(u, r) \in [1 .. k + 1 -> Nat]
  <2> DEFINE w == Append(u, r)
  <2>1. w \in Seq(Nat) /\ Len(w) = k + 1
    BY <1>2
  <2> HIDE DEF w
  <2>2. w \in [1 .. k + 1 -> Nat]
    BY <2>1
  <2> QED
    BY <2>2 DEF w
<1> QED
  BY <1>1, <1>2, <1>3, <1>4, <1>5, <1>6

\* A tuple and its last row.
LEMMA Shorter ==
    ASSUME NEW k \in Nat, NEW x \in [1 .. k + 1 -> Nat]
    PROVE  /\ SubSeq(x, 1, k) \in [1 .. k -> Nat]
           /\ x[k + 1] \in Nat
           /\ x = Append(SubSeq(x, 1, k), x[k + 1])
<1>1. x \in Seq(Nat) /\ Len(x) = k + 1
  BY Functions
<1>2. SubSeq(x, 1, k) \in Seq(Nat) /\ Len(SubSeq(x, 1, k)) = k
  BY <1>1
<1>3. SubSeq(x, 1, k) \in [1 .. k -> Nat]
  BY <1>2, Functions
<1> QED
  BY <1>1, <1>2, <1>3

LEMMA CombinationsAreTuples ==
    ASSUME Given, NEW k \in 1 .. N, NEW x \in Combinations(k)
    PROVE  /\ x \in [1 .. k -> Nat] /\ x \in Seq(Nat) /\ Len(x) = k
           /\ \A i \in 1 .. k : x[i] \in 0 .. Len(RowsOf(i))
<1>1. \A i \in 1 .. k : Len(RowsOf(i)) \in Nat
  BY Loaded
<1>2. x \in [1 .. k -> UNION {0 .. Len(RowsOf(i)) : i \in 1 .. k}] /\ \A i \in 1 .. k : x[i] <= Len(RowsOf(i))
  BY DEF Combinations
<1>3. UNION {0 .. Len(RowsOf(i)) : i \in 1 .. k} \subseteq Nat
  BY <1>1
<1>4. x \in [1 .. k -> Nat]
  BY <1>2, <1>3
<1>5. ASSUME NEW i \in 1 .. k PROVE x[i] \in 0 .. Len(RowsOf(i))
  <2>1. x[i] \in Nat /\ Len(RowsOf(i)) \in Nat /\ x[i] <= Len(RowsOf(i))
    BY <1>1, <1>2, <1>4
  <2> QED
    BY <2>1
<1> QED
  BY <1>4, <1>5, Functions

\* Membership with fewer quantifiers.
LEMMA Member ==
    ASSUME Given, NEW k \in 1 .. N, NEW x \in [1 .. k -> Nat]
    PROVE  x \in Combinations(k) <=>
             /\ x[1] # 0
             /\ \A i \in 1 .. k : x[i] <= Len(RowsOf(i))
             /\ \A i \in 2 .. k : Follows(i - 1, SubSeq(x, 1, i - 1), x[i])
<1>1. \A i \in 1 .. k : Len(RowsOf(i)) \in Nat /\ x[i] \in Nat
  BY Loaded
<1>2. ASSUME \A i \in 1 .. k : x[i] <= Len(RowsOf(i))
      PROVE  x \in [1 .. k -> UNION {0 .. Len(RowsOf(i)) : i \in 1 .. k}]
  BY <1>1, <1>2
<1>3. ASSUME NEW i \in 2 .. k
      PROVE  SubSeq(x, 1, i) = Append(SubSeq(x, 1, i - 1), x[i])
  <2>1. x \in Seq(Nat) /\ Len(x) = k
    BY Functions
  <2> QED
    BY <2>1
<1>4. ASSUME NEW i \in 2 .. k
      PROVE  Follows(i - 1, SubSeq(x, 1, i - 1), x[i]) <=>
               IF x[i] # 0 THEN On(i, SubSeq(x, 1, i)) = "true"
               ELSE /\ query.joins[i].type = "LEFT"
                    /\ \A r \in DOMAIN RowsOf(i) : On(i, Append(SubSeq(x, 1, i - 1), r)) # "true"
  <2>1. (i - 1) + 1 = i
    OBVIOUS
  <2> QED
    BY <2>1, <1>3 DEF Follows
<1> QED
  BY <1>2, <1>4 DEF Combinations

\* The combinations of k + 1 tables are those of k, each with what follows it.
LEMMA Extension ==
    ASSUME Given, NEW k \in 1 .. N - 1, NEW u \in [1 .. k -> Nat], NEW r \in Nat
    PROVE  Append(u, r) \in Combinations(k + 1) <=>
             u \in Combinations(k) /\ r <= Len(RowsOf(k + 1)) /\ Follows(k, u, r)
<1> DEFINE x == Append(u, r)
<1>1. N \in Nat /\ k \in Nat /\ k \in 1 .. N /\ k + 1 \in 1 .. N
  BY Loaded
<1>2. /\ x \in [1 .. k + 1 -> Nat] /\ x[k + 1] = r
      /\ \A i \in 1 .. k : x[i] = u[i] /\ SubSeq(x, 1, i) = SubSeq(u, 1, i)
      /\ SubSeq(x, 1, k) = u
  <2>1. x \in [1 .. k + 1 -> Nat] /\ u \in Seq(Nat) /\ Len(u) = k
    BY <1>1, Longer
  <2>2. \A i \in 1 .. k : x[i] = u[i]
    BY <1>1, Longer
  <2>3. \A i \in 1 .. k : SubSeq(x, 1, i) = SubSeq(u, 1, i)
    BY <1>1, Longer
  <2>4. SubSeq(x, 1, k) = u
    BY <1>1, Longer
  <2> QED
    BY <2>1, <2>2, <2>3, <2>4
<1> HIDE DEF x
<1>3. x \in Combinations(k + 1) <=>
        /\ x[1] # 0
        /\ \A i \in 1 .. k + 1 : x[i] <= Len(RowsOf(i))
        /\ \A i \in 2 .. k + 1 : Follows(i - 1, SubSeq(x, 1, i - 1), x[i])
  BY <1>1, <1>2, Member
<1>4. u \in Combinations(k) <=>
        /\ u[1] # 0
        /\ \A i \in 1 .. k : u[i] <= Len(RowsOf(i))
        /\ \A i \in 2 .. k : Follows(i - 1, SubSeq(u, 1, i - 1), u[i])
  BY <1>1, Member
<1>5. (\A i \in 1 .. k + 1 : x[i] <= Len(RowsOf(i))) <=>
        (\A i \in 1 .. k : u[i] <= Len(RowsOf(i))) /\ r <= Len(RowsOf(k + 1))
  <2>1. \A i \in 1 .. k + 1 : i = k + 1 \/ i \in 1 .. k
    BY <1>1
  <2> QED
    BY <1>1, <1>2, <2>1
<1>6. (\A i \in 2 .. k + 1 : Follows(i - 1, SubSeq(x, 1, i - 1), x[i])) <=>
        (\A i \in 2 .. k : Follows(i - 1, SubSeq(u, 1, i - 1), u[i])) /\ Follows(k, u, r)
  <2>1. \A i \in 2 .. k : i \in 1 .. k /\ i - 1 \in 1 .. k
    BY <1>1
  <2>2. \A i \in 2 .. k : Follows(i - 1, SubSeq(x, 1, i - 1), x[i]) <=> Follows(i - 1, SubSeq(u, 1, i - 1), u[i])
    BY <1>2, <2>1
  <2>3. \A i \in 2 .. k + 1 : i = k + 1 \/ i \in 2 .. k
    BY <1>1
  <2>4. k + 1 \in 2 .. k + 1 /\ (k + 1) - 1 = k /\ \A i \in 2 .. k : i \in 2 .. k + 1
    BY <1>1
  <2> QED
    BY <1>2, <2>2, <2>3, <2>4
<1>7. x[1] = u[1]
  BY <1>1, <1>2
<1> QED
  BY <1>3, <1>4, <1>5, <1>6, <1>7 DEF x

\* The combinations to begin with are the rows of the first table.
LEMMA FirstCombinations ==
    ASSUME Given
    PROVE  \A x : x \in Combinations(1) <=> \E r \in DOMAIN RowsOf(1) : x = <<r>>
<1>1. 1 \in 1 .. N /\ DOMAIN RowsOf(1) = 1 .. Len(RowsOf(1)) /\ Len(RowsOf(1)) \in Nat
  BY Loaded
<1>2. ASSUME NEW x \in Combinations(1) PROVE \E r \in DOMAIN RowsOf(1) : x = <<r>>
  <2>1. x \in [1 .. 1 -> Nat] /\ x[1] # 0 /\ x[1] <= Len(RowsOf(1)) /\ x \in Seq(Nat) /\ Len(x) = 1
    <3>1. x \in [1 .. 1 -> Nat] /\ x \in Seq(Nat) /\ Len(x) = 1
      BY <1>1, CombinationsAreTuples
    <3>2. x[1] # 0 /\ x[1] <= Len(RowsOf(1))
      <4>1. 1 \in 1 .. 1
        OBVIOUS
      <4> QED
        BY <1>1, <3>1, <4>1, Member
    <3> QED
      BY <3>1, <3>2
  <2>2. x = <<x[1]>> /\ x[1] \in DOMAIN RowsOf(1)
    BY <1>1, <2>1
  <2> QED
    BY <2>2
<1>3. ASSUME NEW r \in DOMAIN RowsOf(1) PROVE <<r>> \in Combinations(1)
  <2>1. <<r>> \in [1 .. 1 -> Nat] /\ <<r>>[1] = r /\ r # 0 /\ r <= Len(RowsOf(1)) /\ r \in Nat
    BY <1>1
  <2>2. \A i \in 1 .. 1 : <<r>>[i] <= Len(RowsOf(i))
    BY <2>1
  <2>3. 2 .. 1 = {}
    OBVIOUS
  <2> QED
    BY <1>1, <2>1, <2>2, <2>3, Member
<1> QED
  BY <1>2, <1>3
-----------------------------------------------------------------------------
(* The orders. *)

\* Rows by their numbers: one row more keeps the order, or decides it.
LEMMA RowsLessLonger ==
    ASSUME NEW k \in Nat, NEW u \in [1 .. k -> Nat], NEW v \in [1 .. k -> Nat],
           NEW a \in Nat, NEW b \in Nat
    PROVE  /\ RowsLess(u, v) => RowsLess(Append(u, a), Append(v, b))
           /\ a < b => RowsLess(Append(u, a), Append(u, b))
<1> DEFINE x == Append(u, a)
           y == Append(v, b)
           z == Append(u, b)
<1>1. /\ x \in [1 .. k + 1 -> Nat] /\ y \in [1 .. k + 1 -> Nat] /\ z \in [1 .. k + 1 -> Nat]
      /\ \A i \in 1 .. k : x[i] = u[i] /\ y[i] = v[i] /\ z[i] = u[i]
      /\ x[k + 1] = a /\ z[k + 1] = b
  <2>1. x \in [1 .. k + 1 -> Nat] /\ u \in Seq(Nat) /\ Len(u) = k /\ \A i \in 1 .. k : x[i] = u[i]
    BY Longer
  <2>2. y \in [1 .. k + 1 -> Nat] /\ \A i \in 1 .. k : y[i] = v[i]
    BY Longer
  <2>3. z \in [1 .. k + 1 -> Nat]
    BY Longer
  <2>4. \A i \in 1 .. k : z[i] = u[i]
    BY <2>1
  <2> QED
    BY SMTT(40), <2>1, <2>2, <2>3, <2>4
<1> HIDE DEF x, y, z
<1>2. ASSUME RowsLess(u, v) PROVE RowsLess(x, y)
  <2>1. PICK i \in 1 .. k : u[i] < v[i] /\ \A j \in 1 .. i - 1 : u[j] = v[j]
    BY <1>2 DEF RowsLess
  <2>2. i \in DOMAIN x /\ x[i] < y[i] /\ \A j \in 1 .. i - 1 : j \in 1 .. k
    BY <1>1, <2>1
  <2> QED
    BY <1>1, <2>1, <2>2 DEF RowsLess
<1>3. ASSUME a < b PROVE RowsLess(x, z)
  <2>1. k + 1 \in DOMAIN x /\ x[k + 1] < z[k + 1] /\ \A j \in 1 .. (k + 1) - 1 : x[j] = z[j]
    BY <1>1, <1>3
  <2> QED
    BY <2>1 DEF RowsLess
<1> QED
  BY <1>2, <1>3 DEF x, y, z

\* It is a strict order of the tuples of one length.
LEMMA RowsLessIsOrder ==
    ASSUME NEW k \in Nat, NEW x \in [1 .. k -> Nat]
    PROVE  /\ ~ RowsLess(x, x)
           /\ \A y, z \in [1 .. k -> Nat] : RowsLess(x, y) /\ RowsLess(y, z) => RowsLess(x, z)
<1>1. ~ RowsLess(x, x)
  BY DEF RowsLess
<1>2. ASSUME NEW y \in [1 .. k -> Nat], NEW z \in [1 .. k -> Nat], RowsLess(x, y), RowsLess(y, z)
      PROVE  RowsLess(x, z)
  <2>1. PICK i \in 1 .. k : x[i] < y[i] /\ \A j \in 1 .. i - 1 : x[j] = y[j]
    BY <1>2 DEF RowsLess
  <2>2. PICK m \in 1 .. k : y[m] < z[m] /\ \A j \in 1 .. m - 1 : y[j] = z[j]
    BY <1>2 DEF RowsLess
  <2> DEFINE l == IF i < m THEN i ELSE m
  <2>3. l \in 1 .. k /\ x[l] < z[l] /\ \A j \in 1 .. l - 1 : x[j] = z[j]
    BY <2>1, <2>2
  <2> QED
    BY <2>3 DEF RowsLess
<1> QED
  BY <1>1, <1>2

\* The value ORDER BY looks at, and its order.
Key(x) == At(x, Slot(query.order))
KeyBefore(x, y) == IF query.order.dir = "ASC" THEN KeyLess(Key(x), Key(y)) ELSE KeyLess(Key(y), Key(x))

\* Two values of one column.
Keys(a, b) == /\ IsNull(a) \/ Comparand(a) \in Int
              /\ IsNull(b) \/ Comparand(b) \in Int
              /\ IsNull(a) \/ IsNull(b) \/ Comparable(a, b)

LEMMA KeyLessNumbers ==
    ASSUME NEW a, NEW b, Keys(a, b)
    PROVE  /\ KeyLess(a, b) <=> ~ IsNull(b) /\ (IsNull(a) \/ Comparand(a) < Comparand(b))
           /\ OrderCmp(a, b) < 0 <=> KeyLess(a, b)
           /\ OrderCmp(a, b) > 0 <=> KeyLess(b, a)
<1>1. CASE ~ IsNull(a) /\ ~ IsNull(b)
  <2>1. Comparable(a, b) /\ Comparable(b, a) /\ Comparand(a) \in Int /\ Comparand(b) \in Int
    BY <1>1 DEF Keys, Comparable
  <2>2. /\ Compare(a, "LT", b) = "true" <=> Comparand(a) < Comparand(b)
        /\ Compare(b, "LT", a) = "true" <=> Comparand(b) < Comparand(a)
        /\ Same(a, b) <=> Comparand(a) = Comparand(b)
    BY <1>1, <2>1 DEF Compare, Holds, Same
  <2>3. OrderCmp(a, b) = IF Same(a, b) THEN 0 ELSE IF Compare(a, "LT", b) = "true" THEN -1 ELSE 1
    BY <1>1 DEF OrderCmp
  <2> QED
    BY <1>1, <2>1, <2>2, <2>3 DEF KeyLess
<1>2. CASE IsNull(a) \/ IsNull(b)
  <2>1. ~ Compare(a, "LT", b) = "true" /\ ~ Compare(b, "LT", a) = "true"
    BY <1>2 DEF Compare
  <2>2. OrderCmp(a, b) = (IF IsNull(b) THEN 1 ELSE 0) - (IF IsNull(a) THEN 1 ELSE 0)
    BY <1>2 DEF OrderCmp
  <2> QED
    BY <1>2, <2>1, <2>2 DEF KeyLess
<1> QED
  BY <1>1, <1>2

\* A reference that resolves has a slot.
LEMMA SlotResolves ==
    ASSUME NEW ref, Resolves(ref)
    PROVE  Slot(ref) \in Slots(ref)
<1>1. Slots(ref) # {}
  BY FS_EmptySet DEF Resolves
<1> QED
  BY <1>1 DEF Slot

\* The keys of all combinations are of one column.
LEMMA KeysOfOneColumn ==
    ASSUME Given, Resolves(query.order), NEW x \in Combinations(N), NEW y \in Combinations(N)
    PROVE  Keys(Key(x), Key(y))
<1>1. PICK i \in 1 .. N : \E c \in DOMAIN query.tables[i].cols : Slot(query.order) = <<i, c>>
  <2>1. Slot(query.order) \in Slots(query.order)
    BY SlotResolves
  <2> QED
    BY <2>1, Loaded DEF Slots
<1> PICK c \in DOMAIN query.tables[i].cols : Slot(query.order) = <<i, c>>
  BY <1>1
<1>2. /\ \A r \in DOMAIN RowsOf(i) : Comparand(RowsOf(i)[r][c]) \in Int
      /\ \A r, s \in DOMAIN RowsOf(i) : LET a == RowsOf(i)[r][c]
                                            b == RowsOf(i)[s][c]
                                        IN  IsNull(a) \/ IsNull(b) \/ Comparable(a, b)
  <2>1. query \in Queries /\ rows \in Data /\ i \in DOMAIN query.tables
    BY Loaded DEF Given
  <2> QED
    BY <2>1, SelectAssumption DEF RowsOf
<1>3. IsNull(Null)
  BY DEF IsNull, Null
<1>4. ASSUME NEW z \in Combinations(N)
      PROVE  \/ Key(z) = Null
             \/ \E r \in DOMAIN RowsOf(i) : Key(z) = RowsOf(i)[r][c]
  <2>1. z[i] \in 0 .. Len(RowsOf(i)) /\ DOMAIN RowsOf(i) = 1 .. Len(RowsOf(i))
    BY Loaded, CombinationsAreTuples
  <2>2. Key(z) = IF z[i] = 0 THEN Null ELSE RowsOf(i)[z[i]][c]
    BY DEF Key, At
  <2> QED
    BY <2>1, <2>2
<1>5. Key(x) = Null \/ \E r \in DOMAIN RowsOf(i) : Key(x) = RowsOf(i)[r][c]
  BY <1>4
<1>6. Key(y) = Null \/ \E r \in DOMAIN RowsOf(i) : Key(y) = RowsOf(i)[r][c]
  BY <1>4
<1> QED
  BY <1>2, <1>3, <1>5, <1>6 DEF Keys

\* The order of the keys is as the sort sees it, and is a weak order.
LEMMA KeyBeforeIsOrder ==
    ASSUME Given, query.order # NoOrder, Resolves(query.order),
           NEW x \in Combinations(N), NEW y \in Combinations(N), NEW z \in Combinations(N)
    PROVE  /\ ShouldSwap(x, y) <=> KeyBefore(y, x)
           /\ ~ KeyBefore(x, x)
           /\ KeyBefore(x, y) => ~ KeyBefore(y, x)
           /\ KeyBefore(x, z) => KeyBefore(x, y) \/ KeyBefore(y, z)
<1>1. query.order.dir \in {"ASC", "DESC"}
  BY SelectAssumption DEF Given
<1>2. \A u, v \in {x, y, z} : Keys(Key(u), Key(v))
  BY KeysOfOneColumn
<1>3. \A u, v \in {x, y, z} :
        /\ KeyLess(Key(u), Key(v)) <=> /\ ~ IsNull(Key(v))
                                       /\ IsNull(Key(u)) \/ Comparand(Key(u)) < Comparand(Key(v))
        /\ OrderCmp(Key(u), Key(v)) < 0 <=> KeyLess(Key(u), Key(v))
        /\ OrderCmp(Key(u), Key(v)) > 0 <=> KeyLess(Key(v), Key(u))
  BY <1>2, KeyLessNumbers
<1>4. \A u \in {x, y, z} : IsNull(Key(u)) \/ Comparand(Key(u)) \in Int
  BY <1>2 DEF Keys
<1>5. ShouldSwap(x, y) <=> KeyBefore(y, x)
  BY <1>1, <1>3 DEF ShouldSwap, KeyBefore, Key
<1>6. \A u, v, w \in {x, y, z} :
        /\ ~ KeyLess(Key(u), Key(u))
        /\ KeyLess(Key(u), Key(v)) => ~ KeyLess(Key(v), Key(u))
        /\ KeyLess(Key(u), Key(w)) => KeyLess(Key(u), Key(v)) \/ KeyLess(Key(v), Key(w))
  BY <1>3, <1>4
<1> QED
  BY <1>5, <1>6 DEF KeyBefore

\* By which tuples precede each other.
LEMMA PrecedesByKey ==
    ASSUME query.order # NoOrder, Given, Resolves(query.order),
           NEW x \in Combinations(N), NEW y \in Combinations(N)
    PROVE  Precedes(x, y) <=> KeyBefore(x, y) \/ (~ KeyBefore(y, x) /\ RowsLess(x, y))
<1>1. query.order.dir \in {"ASC", "DESC"}
  BY SelectAssumption DEF Given
<1>2. KeyBefore(x, y) => ~ KeyBefore(y, x)
  BY KeyBeforeIsOrder
<1> QED
  BY <1>1, <1>2 DEF Precedes, KeyBefore, Key

\* The result has a strict order.
LEMMA PrecedesIsOrder ==
    ASSUME Given, ~ OrderFails, NEW x \in Combinations(N)
    PROVE  /\ ~ Precedes(x, x)
           /\ \A y, z \in Combinations(N) : Precedes(x, y) /\ Precedes(y, z) => Precedes(x, z)
<1>1. N \in Nat /\ N \in 1 .. N
  BY Loaded
<1>2. x \in [1 .. N -> Nat] /\ \A y \in Combinations(N) : y \in [1 .. N -> Nat]
  BY <1>1, CombinationsAreTuples
<1>3. /\ ~ RowsLess(x, x)
      /\ \A y, z \in Combinations(N) : RowsLess(x, y) /\ RowsLess(y, z) => RowsLess(x, z)
  BY <1>1, <1>2, RowsLessIsOrder
<1>4. CASE query.order = NoOrder
  BY <1>3, <1>4 DEF Precedes
<1>5. CASE query.order # NoOrder
  <2>1. Resolves(query.order)
    BY <1>5 DEF OrderFails
  <2>2. ~ KeyBefore(x, x)
    BY <1>5, <2>1, KeyBeforeIsOrder
  <2>3. ~ Precedes(x, x)
    BY <1>3, <1>5, <2>1, <2>2, PrecedesByKey
  <2>4. ASSUME NEW y \in Combinations(N), NEW z \in Combinations(N), Precedes(x, y), Precedes(y, z)
        PROVE  Precedes(x, z)
    <3>1. KeyBefore(x, y) \/ (~ KeyBefore(y, x) /\ RowsLess(x, y))
      BY <1>5, <2>1, <2>4, PrecedesByKey
    <3>2. KeyBefore(y, z) \/ (~ KeyBefore(z, y) /\ RowsLess(y, z))
      BY <1>5, <2>1, <2>4, PrecedesByKey
    <3>3. KeyBefore(x, y) => KeyBefore(x, z) \/ KeyBefore(z, y)
      BY <1>5, <2>1, KeyBeforeIsOrder
    <3>4. KeyBefore(y, z) => KeyBefore(y, x) \/ KeyBefore(x, z)
      BY <1>5, <2>1, KeyBeforeIsOrder
    <3>5. KeyBefore(z, x) => KeyBefore(z, y) \/ KeyBefore(y, x)
      BY <1>5, <2>1, KeyBeforeIsOrder
    <3>6. (KeyBefore(x, y) => ~ KeyBefore(y, x)) /\ (KeyBefore(y, z) => ~ KeyBefore(z, y))
      BY <1>5, <2>1, KeyBeforeIsOrder
    <3>7. KeyBefore(x, z) \/ (~ KeyBefore(z, x) /\ RowsLess(x, z))
      BY <1>3, <3>1, <3>2, <3>3, <3>4, <3>5, <3>6
    <3> QED
      BY <1>5, <2>1, <3>7, PrecedesByKey
  <2> QED
    BY <2>3, <2>4
<1> QED
  BY <1>4, <1>5
-----------------------------------------------------------------------------
(* Lists of tuples. *)

\* A sequence has the elements of a set; its order.
Lists(q, S) == q \in Seq(S) /\ \A x \in S : \E m \in DOMAIN q : q[m] = x
Increasing(q) == \A m, n \in DOMAIN q : m < n => RowsLess(q[m], q[n])
Sorted(q) == \A m, n \in DOMAIN q : m < n => Precedes(q[m], q[n])

\* Different elements count as many as their places.
LEMMA Counted ==
    ASSUME NEW S, NEW q \in Seq(S), NEW m \in 0 .. Len(q),
           \A i, j \in 1 .. m : q[i] = q[j] => i = j
    PROVE  Cardinality({q[i] : i \in 1 .. m}) = m
<1> DEFINE T == {q[i] : i \in 1 .. m}
           f == [i \in 1 .. m |-> q[i]]
<1>1. f \in Bijection(1 .. m, T)
  <2>1. f \in [1 .. m -> T] /\ \A i \in 1 .. m : f[i] = q[i]
    OBVIOUS
  <2>2. \A t \in T : \E i \in 1 .. m : f[i] = t
    BY <2>1
  <2> HIDE DEF f
  <2>3. f \in Injection(1 .. m, T)
    BY <2>1 DEF Injection, IsInjective
  <2>4. f \in Surjection(1 .. m, T)
    BY <2>1, <2>2 DEF Surjection
  <2> QED
    BY <2>3, <2>4 DEF Bijection
<1>2. ExistsBijection(1 .. m, T)
  BY <1>1 DEF ExistsBijection
<1>3. m \in Nat
  OBVIOUS
<1> QED
  BY <1>2, <1>3, FS_CountingElements

\* In a sorted list of the selected tuples, as many precede one as stand
\* before it.
LEMMA SortedRanks ==
    ASSUME Given, ~ OrderFails, NEW q, Lists(q, Selected), Sorted(q)
    PROVE  /\ Cardinality(Selected) = Len(q)
           /\ \A p \in DOMAIN q : Cardinality({u \in Selected : Precedes(u, q[p])}) = p - 1
<1>1. q \in Seq(Selected) /\ Len(q) \in Nat /\ DOMAIN q = 1 .. Len(q)
  BY DEF Lists
<1>2. \A i \in DOMAIN q : q[i] \in Combinations(N)
  BY <1>1 DEF Selected, N
<1>3. \A i, j \in DOMAIN q : i < j => ~ Precedes(q[j], q[i])
  BY <1>2, PrecedesIsOrder DEF Sorted
<1>4. \A i \in DOMAIN q : ~ Precedes(q[i], q[i])
  BY <1>2, PrecedesIsOrder
<1>5. \A i, j \in DOMAIN q : q[i] = q[j] => i = j
  <2> SUFFICES ASSUME NEW i \in DOMAIN q, NEW j \in DOMAIN q, q[i] = q[j], i # j PROVE FALSE
    OBVIOUS
  <2>1. i < j \/ j < i
    BY <1>1
  <2> QED
    BY <1>4, <2>1 DEF Sorted
<1>6. Selected = {q[i] : i \in 1 .. Len(q)}
  BY <1>1 DEF Lists
<1>7. Cardinality(Selected) = Len(q)
  <2>1. Len(q) \in 0 .. Len(q)
    BY <1>1
  <2> QED
    BY <1>1, <1>5, <1>6, <2>1, Counted
<1>8. ASSUME NEW p \in DOMAIN q
      PROVE  Cardinality({u \in Selected : Precedes(u, q[p])}) = p - 1
  <2>1. p - 1 \in 0 .. Len(q) /\ 1 .. p - 1 \subseteq DOMAIN q /\ \A i \in 1 .. p - 1 : i < p
    BY <1>1
  <2>2. \A i \in DOMAIN q : i < p <=> Precedes(q[i], q[p])
    <3>1. \A i \in DOMAIN q : i < p \/ i = p \/ p < i
      BY <1>1
    <3> QED
      BY <1>3, <1>4, <3>1 DEF Sorted
  <2>3. {u \in Selected : Precedes(u, q[p])} = {q[i] : i \in 1 .. p - 1}
    <3>1. \A i \in DOMAIN q : i < p <=> i \in 1 .. p - 1
      BY <1>1
    <3> QED
      BY <1>1, <1>6, <2>1, <2>2, <3>1
  <2> QED
    BY <1>1, <1>5, <2>1, <2>3, Counted
<1> QED
  BY <1>7, <1>8

\* A list becomes longer at its end.
LEMMA Appended ==
    ASSUME NEW S, NEW q \in Seq(S), NEW e \in S
    PROVE  /\ Append(q, e) \in Seq(S)
           /\ DOMAIN q = 1 .. Len(q) /\ Len(q) \in Nat
           /\ DOMAIN Append(q, e) = 1 .. Len(q) + 1
           /\ \A m \in DOMAIN q : m \in DOMAIN Append(q, e) /\ Append(q, e)[m] = q[m]
           /\ Len(q) + 1 \in DOMAIN Append(q, e) /\ Append(q, e)[Len(q) + 1] = e
           /\ \A m \in DOMAIN Append(q, e) : m \in DOMAIN q \/ m = Len(q) + 1
<1>1. Append(q, e) \in Seq(S) /\ DOMAIN q = 1 .. Len(q) /\ Len(q) \in Nat
  OBVIOUS
<1>2. DOMAIN Append(q, e) = 1 .. Len(q) + 1
  OBVIOUS
<1>3. \A m \in DOMAIN q : m \in DOMAIN Append(q, e) /\ Append(q, e)[m] = q[m]
  OBVIOUS
<1>4. Len(q) + 1 \in DOMAIN Append(q, e) /\ Append(q, e)[Len(q) + 1] = e
  BY <1>1
<1>5. \A m \in DOMAIN Append(q, e) : m \in DOMAIN q \/ m = Len(q) + 1
  BY <1>1, <1>2
<1> QED
  BY <1>1, <1>2, <1>3, <1>4, <1>5

\* ... and stays increasing when its end is greater.
LEMMA IncreasingAppended ==
    ASSUME NEW S, NEW q \in Seq(S), NEW e \in S, Increasing(q),
           \A m \in DOMAIN q : RowsLess(q[m], e)
    PROVE  Increasing(Append(q, e))
<1> DEFINE w == Append(q, e)
<1> SUFFICES ASSUME NEW m \in DOMAIN w, NEW n \in DOMAIN w, m < n PROVE RowsLess(w[m], w[n])
  BY DEF Increasing
<1>1. m \in DOMAIN q
  BY Appended
<1>2. w[m] = q[m]
  BY <1>1, Appended
<1>3. CASE n \in DOMAIN q
  BY <1>1, <1>2, <1>3, Appended DEF Increasing
<1>4. CASE n = Len(q) + 1
  BY <1>1, <1>2, <1>4, Appended
<1> QED
  BY <1>3, <1>4, Appended
-----------------------------------------------------------------------------
(* The invariant. *)

\* The combinations that the loop has passed when it is at tuple t and row r.
Passed(x, t, r) == \E c \in DOMAIN tuples :
                      /\ SubSeq(x, 1, joined) = tuples[c]
                      /\ c < t \/ (c = t /\ x[joined + 1] \in 1 .. r - 1)

\* While a table is joined, the combinations that were passed are found, and
\* none has failed.
JoinLoop ==
    /\ row \in 1 .. Len(RowsOf(joined + 1)) + 1
    /\ found \in Seq(Combinations(joined + 1))
    /\ \A m \in DOMAIN found : Passed(found[m], cur, row)
    /\ \A x \in Combinations(joined + 1) : Passed(x, cur, row) => \E m \in DOMAIN found : found[m] = x
    /\ \A c \in DOMAIN tuples, r \in DOMAIN RowsOf(joined + 1) :
         c < cur \/ (c = cur /\ r < row) => On(joined + 1, Append(tuples[c], r)) # "error"
    /\ matched <=> \E r \in 1 .. row - 1 : On(joined + 1, Append(tuples[cur], r)) = "true"

\* The filter has found the tuples it has passed that WHERE selects.
FilterLoop ==
    /\ found \in Seq(Selected)
    /\ \A m \in DOMAIN found : \E c \in 1 .. cur - 1 : found[m] = tuples[c]
    /\ \A c \in 1 .. cur - 1 :
         /\ Where(tuples[c]) # "error"
         /\ Where(tuples[c]) = "true" => \E m \in DOMAIN found : found[m] = tuples[c]

\* The tuples joined so far are all there are, in order.
Combining ==
    /\ Lists(tuples, Combinations(joined)) /\ Increasing(tuples)
    /\ \A i \in 2 .. joined : ~ OnFails(i)
    /\ cur \in 1 .. Len(tuples) + 1
    /\ Increasing(found)
    /\ IF joined < N THEN JoinLoop ELSE FilterLoop

\* The first sorted + 1 tuples are in order but for the one at pos, which has
\* passed those behind it; the others follow in the order they were found.
Inserting ==
    /\ pos \in 1 .. sorted + 1
    /\ \A m, n \in 1 .. sorted + 1 : m < n /\ m # pos /\ n # pos => Precedes(tuples[m], tuples[n])
    /\ \A n \in pos + 1 .. sorted + 1 : Precedes(tuples[pos], tuples[n])
    /\ \A m \in 1 .. pos - 1 : RowsLess(tuples[m], tuples[pos])
    /\ \A m \in DOMAIN tuples, n \in sorted + 2 .. Len(tuples) : m < n => RowsLess(tuples[m], tuples[n])

Sorting ==
    /\ Lists(tuples, Selected)
    /\ query.order # NoOrder /\ ~ OrderFails
    /\ sorted \in Nat \ {0}
    /\ IF sorted < Len(tuples) THEN Inserting ELSE Sorted(tuples)

\* LIMIT leaves the first of the selected tuples.
Limited ==
    /\ ~ OrderFails
    /\ tuples \in Seq(Selected)
    /\ Len(tuples) = IF query.limit # NoLimit /\ query.limit < Cardinality(Selected)
                     THEN query.limit ELSE Cardinality(Selected)
    /\ \A p \in DOMAIN tuples : Cardinality({u \in Selected : Precedes(u, tuples[p])}) = p - 1

\* What has been passed without an error.
Checked == joined = N /\ ~ WhereFails /\ \A i \in 2 .. N : ~ OnFails(i)

SelectInv ==
    /\ Given
    /\ joined \in 1 .. N
    /\ stage \in {"join", "order", "sort", "limit", "project", "done", "failed"}
    /\ stage = "join" => Combining
    /\ stage \in {"order", "sort", "limit", "project"} => Checked
    /\ stage = "order" => Lists(tuples, Selected) /\ Increasing(tuples)
    /\ stage = "sort" => Sorting
    /\ stage = "limit" => ~ OrderFails /\ Lists(tuples, Selected) /\ Sorted(tuples)
    /\ stage = "project" => Limited
    /\ AnswerIsRight
    /\ ErrorsAreReal

\* What does not depend on the loops stays as it is.
LEMMA Constants ==
    ASSUME query' = query, rows' = rows
    PROVE  /\ N' = N /\ Given' = Given
           /\ \A i : RowsOf(i)' = RowsOf(i)
           /\ \A i, x : On(i, x)' = On(i, x)
           /\ \A x : Where(x)' = Where(x)
           /\ \A k : Combinations(k)' = Combinations(k)
           /\ Selected' = Selected
           /\ \A i : OnFails(i)' = OnFails(i)
           /\ WhereFails' = WhereFails
           /\ OrderFails' = OrderFails
           /\ ListResolves' = ListResolves
           /\ \A x, y : Precedes(x, y)' = Precedes(x, y)
           /\ \A x, s : At(x, s)' = At(x, s)
           /\ Projection' = Projection
<1>1. N' = N /\ Given' = Given
  BY DEF N, Given
<1>2. \A i : RowsOf(i)' = RowsOf(i)
  BY DEF RowsOf
<1>3. \A x : Bindings(x)' = Bindings(x)
  BY <1>2 DEF Bindings
<1>4. (\A i, x : On(i, x)' = On(i, x)) /\ \A x : Where(x)' = Where(x)
  BY <1>3 DEF On, Where
<1>5. \A k : Combinations(k)' = Combinations(k)
  BY <1>2, <1>4 DEF Combinations
<1>6. Selected' = Selected
  BY <1>4, <1>5 DEF Selected
<1>7. (\A i : OnFails(i)' = OnFails(i)) /\ WhereFails' = WhereFails
  BY <1>2, <1>4, <1>5 DEF OnFails, WhereFails
<1>8. (\A ref : Slots(ref)' = Slots(ref)) /\ (\A ref : Slot(ref)' = Slot(ref)) /\ \A ref : Resolves(ref)' = Resolves(ref)
  BY DEF Slots, Slot, Resolves
<1>9. OrderFails' = OrderFails /\ ListResolves' = ListResolves
  BY <1>8 DEF OrderFails, ListResolves
<1>10. \A x, s : At(x, s)' = At(x, s)
  BY <1>2 DEF At
<1>11. \A x, y : Precedes(x, y)' = Precedes(x, y)
  BY <1>8, <1>10 DEF Precedes, RowsLess
<1>12. Projection' = Projection
  BY <1>8 DEF Projection
<1> QED
  BY <1>1, <1>2, <1>4, <1>5, <1>6, <1>7, <1>9, <1>10, <1>11, <1>12
-----------------------------------------------------------------------------
(* Joins. *)

\* A loop begins with nothing found.
Begun == /\ Given /\ joined \in 1 .. N /\ tuples \in Seq(Combinations(joined))
         /\ found = <<>> /\ cur = 1 /\ row = 1 /\ matched = FALSE
Looping == /\ cur \in 1 .. Len(tuples) + 1
           /\ Increasing(found)
           /\ IF joined < N THEN JoinLoop ELSE FilterLoop

LEMMA FreshLoop == Begun => Looping
<1> SUFFICES ASSUME Begun PROVE Looping
  OBVIOUS
<1> USE DEF Begun
<1>1. cur \in 1 .. Len(tuples) + 1 /\ Increasing(found) /\ 1 .. row - 1 = {} /\ 1 .. cur - 1 = {}
  BY DEF Increasing
<1>2. ASSUME joined < N PROVE JoinLoop
  <2>1. Len(RowsOf(joined + 1)) \in Nat /\ DOMAIN RowsOf(joined + 1) = 1 .. Len(RowsOf(joined + 1))
    <3>1. joined + 1 \in 1 .. N
      BY <1>2, Loaded
    <3> QED
      BY <3>1, Loaded
  <2>2. \A x : ~ Passed(x, cur, row)
    BY <1>1 DEF Passed
  <2> QED
    BY <1>1, <2>1, <2>2 DEF JoinLoop
<1>3. FilterLoop
  BY <1>1 DEF FilterLoop
<1> QED
  BY <1>1, <1>2, <1>3 DEF Looping

\* Steps of a loop that do not end the query.
LEMMA GoesOn ==
    ASSUME SelectInv, stage' \notin {"done", "failed"}
    PROVE  AnswerIsRight' /\ ErrorsAreReal'
BY DEF AnswerIsRight, ErrorsAreReal

\* What is known where a row is tried or a tuple is left.
LEMMA AtTuple ==
    ASSUME SelectInv, Joining, cur <= Len(tuples)
    PROVE  /\ joined \in 1 .. N - 1 /\ joined + 1 \in 2 .. N /\ joined \in Nat
           /\ Combining /\ JoinLoop
           /\ DOMAIN tuples = 1 .. Len(tuples) /\ Len(tuples) \in Nat /\ cur \in DOMAIN tuples
           /\ \A c \in DOMAIN tuples : tuples[c] \in Combinations(joined) /\ tuples[c] \in [1 .. joined -> Nat]
           /\ Len(RowsOf(joined + 1)) \in Nat /\ DOMAIN RowsOf(joined + 1) = 1 .. Len(RowsOf(joined + 1))
<1>1. N \in Nat /\ joined \in 1 .. N /\ joined < N /\ Combining
  BY Loaded DEF SelectInv, Joining, N
<1>2. joined \in 1 .. N - 1 /\ joined + 1 \in 1 .. N /\ joined + 1 \in 2 .. N /\ joined \in Nat
  BY <1>1
<1>3. tuples \in Seq(Combinations(joined)) /\ cur \in 1 .. Len(tuples) + 1 /\ JoinLoop
  BY <1>1 DEF Combining, Lists
<1>4. DOMAIN tuples = 1 .. Len(tuples) /\ Len(tuples) \in Nat /\ cur \in DOMAIN tuples
  BY <1>3
<1>5. \A c \in DOMAIN tuples : tuples[c] \in Combinations(joined)
  BY <1>3
<1>6. \A c \in DOMAIN tuples : tuples[c] \in [1 .. joined -> Nat]
  BY <1>1, <1>5, CombinationsAreTuples DEF SelectInv
<1>7. Len(RowsOf(joined + 1)) \in Nat /\ DOMAIN RowsOf(joined + 1) = 1 .. Len(RowsOf(joined + 1))
  BY <1>2, Loaded DEF SelectInv
<1> QED
  BY <1>1, <1>2, <1>3, <1>4, <1>5, <1>6, <1>7

\* A combination of the next table is a tuple that is joined and what follows.
LEMMA Parts ==
    ASSUME SelectInv, Joining, cur <= Len(tuples), NEW y \in Combinations(joined + 1)
    PROVE  /\ SubSeq(y, 1, joined) \in [1 .. joined -> Nat]
           /\ SubSeq(y, 1, joined) \in Combinations(joined)
           /\ y[joined + 1] \in 0 .. Len(RowsOf(joined + 1))
           /\ y = Append(SubSeq(y, 1, joined), y[joined + 1])
           /\ Follows(joined, SubSeq(y, 1, joined), y[joined + 1])
<1> DEFINE u == SubSeq(y, 1, joined)
           r == y[joined + 1]
<1>1. joined \in 1 .. N - 1 /\ joined + 1 \in 1 .. N /\ joined \in Nat
  BY AtTuple
<1>2. y \in [1 .. joined + 1 -> Nat]
  BY <1>1, CombinationsAreTuples DEF SelectInv
<1>3. u \in [1 .. joined -> Nat] /\ r \in Nat /\ y = Append(u, r)
  BY <1>1, <1>2, Shorter
<1> HIDE DEF u, r
<1>4. Append(u, r) \in Combinations(joined + 1)
  BY <1>3
<1>5. u \in Combinations(joined) /\ r <= Len(RowsOf(joined + 1)) /\ Follows(joined, u, r)
  BY <1>1, <1>3, <1>4, Extension DEF SelectInv
<1>6. r \in 0 .. Len(RowsOf(joined + 1))
  <2>1. Len(RowsOf(joined + 1)) \in Nat
    BY AtTuple
  <2> QED
    BY <1>3, <1>5, <2>1
<1> QED
  BY <1>3, <1>5, <1>6 DEF u, r

\* What has been found comes before what the current tuple gives next.
LEMMA FoundBefore ==
    ASSUME SelectInv, Joining, cur <= Len(tuples), NEW r \in Nat,
           r < row => ~ matched,
           NEW m \in DOMAIN found
    PROVE  RowsLess(found[m], Append(tuples[cur], r))
<1> DEFINE y == found[m]
           k == joined
<1>1. JoinLoop /\ Combining /\ cur \in DOMAIN tuples /\ k \in Nat
  BY AtTuple
<1>2. y \in Combinations(k + 1) /\ Passed(y, cur, row)
  BY <1>1 DEF JoinLoop
<1>3. PICK c \in DOMAIN tuples :
        /\ SubSeq(y, 1, k) = tuples[c]
        /\ c < cur \/ (c = cur /\ y[k + 1] \in 1 .. row - 1)
  BY <1>2 DEF Passed
<1>4. /\ y[k + 1] \in Nat /\ y = Append(tuples[c], y[k + 1])
      /\ Follows(k, tuples[c], y[k + 1])
  <2>1. /\ y[k + 1] \in 0 .. Len(RowsOf(k + 1))
        /\ y = Append(SubSeq(y, 1, k), y[k + 1])
        /\ Follows(k, SubSeq(y, 1, k), y[k + 1])
    BY <1>2, Parts
  <2>2. y[k + 1] \in Nat
    BY <2>1
  <2> QED
    BY <1>3, <2>1, <2>2
<1>5. tuples[c] \in [1 .. k -> Nat] /\ tuples[cur] \in [1 .. k -> Nat]
  BY <1>1, AtTuple
<1> DEFINE s == y[k + 1]
<1> HIDE DEF y
<1>6. CASE c < cur
  <2>1. RowsLess(tuples[c], tuples[cur])
    BY <1>1, <1>6 DEF Combining, Increasing
  <2>2. RowsLess(Append(tuples[c], s), Append(tuples[cur], r))
    BY <1>1, <1>4, <1>5, <2>1, RowsLessLonger
  <2> QED
    BY <1>4, <2>2 DEF y
<1>7. CASE c = cur /\ s \in 1 .. row - 1
  <2>1. On(k + 1, Append(tuples[cur], s)) = "true"
    BY <1>4, <1>7 DEF Follows
  <2>2. matched
    BY <1>1, <1>7, <2>1 DEF JoinLoop
  <2>3. row \in Nat
    BY <1>1, AtTuple DEF JoinLoop
  <2>4. s < r
    BY <1>7, <2>2, <2>3
  <2>5. RowsLess(Append(tuples[cur], s), Append(tuples[cur], r))
    BY <1>1, <1>4, <1>5, <2>4, RowsLessLonger
  <2> QED
    BY <1>4, <1>7, <2>5 DEF y
<1> QED
  BY <1>3, <1>6, <1>7

\* Combining while the tuples stay: what the loop changes.
LEMMA CombiningStays ==
    ASSUME SelectInv, Joining, cur <= Len(tuples),
           UNCHANGED <<query, rows, stage, tuples, joined>>,
           cur' \in 1 .. Len(tuples) + 1, Increasing(found'), JoinLoop'
    PROVE  SelectInv'
<1>1. /\ Given /\ joined \in 1 .. N - 1 /\ joined \in 1 .. N /\ N \in Nat
      /\ stage = "join" /\ Combining
  BY AtTuple, Loaded DEF SelectInv, Joining
<1>2. Given' /\ joined' \in 1 .. N' /\ joined' < N'
  BY <1>1, Constants
<1>3. Lists(tuples, Combinations(joined))' /\ Increasing(tuples)'
  BY <1>1, Constants DEF Combining, Lists, Increasing
<1>4. (\A i \in 2 .. joined : ~ OnFails(i))'
  BY <1>1, Constants DEF Combining
<1>5. Increasing(found)'
  BY DEF Increasing
<1>6. Combining'
  BY <1>2, <1>3, <1>4, <1>5 DEF Combining
<1>7. AnswerIsRight' /\ ErrorsAreReal'
  BY <1>1, GoesOn
<1> QED
  BY <1>1, <1>2, <1>6, <1>7 DEF SelectInv

\* A row is tried.
LEMMA TryRowStep == ASSUME SelectInv, TryRow PROVE SelectInv'
<1> DEFINE k == joined
           u == tuples[cur]
           x == Candidate
           ok == On(k + 1, x) = "true"
<1>1. Joining /\ cur <= Len(tuples) /\ row <= Len(RowsOf(k + 1)) /\ On(k + 1, x) # "error"
  BY DEF TryRow, Trying
<1>2. /\ k \in 1 .. N - 1 /\ k \in Nat /\ Combining /\ JoinLoop /\ Given
      /\ cur \in DOMAIN tuples /\ DOMAIN tuples = 1 .. Len(tuples) /\ Len(tuples) \in Nat
      /\ u \in Combinations(k) /\ u \in [1 .. k -> Nat]
      /\ Len(RowsOf(k + 1)) \in Nat /\ DOMAIN RowsOf(k + 1) = 1 .. Len(RowsOf(k + 1))
  BY <1>1, AtTuple DEF SelectInv
<1>3. row \in Nat \ {0} /\ row \in DOMAIN RowsOf(k + 1) /\ x = Append(u, row)
  BY <1>1, <1>2 DEF JoinLoop, Candidate
<1>4. /\ UNCHANGED <<query, rows, stage, tuples, joined, cur>> /\ row' = row + 1
      /\ found' = (IF ok THEN Append(found, x) ELSE found)
      /\ matched' = (IF ok THEN TRUE ELSE matched)
  BY DEF TryRow
<1>5. ok <=> x \in Combinations(k + 1)
  <2>1. Follows(k, u, row) <=> ok
    BY <1>3 DEF Follows
  <2> QED
    BY <1>1, <1>2, <1>3, <2>1, Extension
<1>6. SubSeq(x, 1, k) = u /\ x[k + 1] = row
  <2>1. u \in Seq(Nat) /\ Len(u) = k
    BY <1>2, Functions
  <2>2. SubSeq(x, 1, k) = u
    BY <1>2, <1>3, Longer
  <2> QED
    BY <1>3, <2>1, <2>2
<1> HIDE DEF x, ok
<1>7. \A y : Passed(y, cur, row + 1) <=> Passed(y, cur, row) \/ (SubSeq(y, 1, k) = u /\ y[k + 1] = row)
  <2>1. \A z : z \in 1 .. (row + 1) - 1 <=> z \in 1 .. row - 1 \/ z = row
    BY <1>3
  <2> QED
    BY <1>2, <1>4, <2>1 DEF Passed
<1>8. found \in Seq(Combinations(k + 1)) /\ Increasing(found)
  BY <1>2 DEF JoinLoop, Combining
<1>9. /\ found' \in Seq(Combinations(k + 1))
      /\ \A m \in DOMAIN found' : Passed(found'[m], cur, row + 1)
      /\ \A m \in DOMAIN found : m \in DOMAIN found' /\ found'[m] = found[m]
      /\ ok => \E m \in DOMAIN found' : found'[m] = x
      /\ Increasing(found')
  <2>1. CASE ~ ok
    BY <1>2, <1>4, <1>7, <1>8, <2>1 DEF JoinLoop
  <2>2. CASE ok
    <3>1. x \in Combinations(k + 1) /\ found' = Append(found, x)
      BY <1>4, <1>5, <2>2
    <3>2. \A m \in DOMAIN found : RowsLess(found[m], x)
      <4>1. ~ row < row
        BY <1>3
      <4> QED
        BY <1>1, <1>3, <4>1, FoundBefore
    <3>3. Passed(x, cur, row + 1) /\ \A m \in DOMAIN found : Passed(found[m], cur, row + 1)
      BY <1>2, <1>6, <1>7 DEF JoinLoop
    <3> QED
      BY <1>8, <3>1, <3>2, <3>3, Appended, IncreasingAppended
  <2> QED
    BY <2>1, <2>2
<1>10. \A y \in Combinations(k + 1) : Passed(y, cur, row + 1) => \E m \in DOMAIN found' : found'[m] = y
  <2> SUFFICES ASSUME NEW y \in Combinations(k + 1), Passed(y, cur, row + 1) PROVE \E m \in DOMAIN found' : found'[m] = y
    OBVIOUS
  <2>1. CASE Passed(y, cur, row)
    BY <1>2, <1>9, <2>1 DEF JoinLoop
  <2>2. CASE SubSeq(y, 1, k) = u /\ y[k + 1] = row
    <3>1. y = x
      BY <1>1, <1>3, <2>2, Parts
    <3> QED
      BY <1>5, <1>9, <3>1
  <2> QED
    BY <1>7, <2>1, <2>2
<1>11. \A c \in DOMAIN tuples, r \in DOMAIN RowsOf(k + 1) :
         c < cur \/ (c = cur /\ r < row + 1) => On(k + 1, Append(tuples[c], r)) # "error"
  <2>1. \A r \in DOMAIN RowsOf(k + 1) : r < row + 1 <=> r < row \/ r = row
    BY <1>2, <1>3
  <2> QED
    BY <1>1, <1>2, <1>3, <2>1 DEF JoinLoop, x
<1>12. matched' <=> \E r \in 1 .. (row + 1) - 1 : On(k + 1, Append(u, r)) = "true"
  <2>1. \A r : r \in 1 .. (row + 1) - 1 <=> r \in 1 .. row - 1 \/ r = row
    BY <1>3
  <2> QED
    BY <1>2, <1>3, <1>4, <2>1 DEF JoinLoop, ok, x
<1>13. row' \in 1 .. Len(RowsOf(k + 1)) + 1
  BY <1>1, <1>2, <1>3, <1>4
<1>14. JoinLoop'
  BY SMTT(40), <1>4, <1>9, <1>10, <1>11, <1>12, <1>13, Constants DEF JoinLoop, Passed
<1> QED
  BY <1>1, <1>2, <1>4, <1>9, <1>14, CombiningStays

\* A tuple is left.
LEMMA NextTupleStep == ASSUME SelectInv, NextTuple PROVE SelectInv'
<1> DEFINE k == joined
           u == tuples[cur]
           x == Append(u, 0)
           pad == ~ matched /\ query.joins[k + 1].type = "LEFT"
<1>1. Joining /\ cur <= Len(tuples) /\ row > Len(RowsOf(k + 1))
  BY DEF NextTuple
<1>2. /\ k \in 1 .. N - 1 /\ k \in Nat /\ Combining /\ JoinLoop /\ Given
      /\ cur \in DOMAIN tuples /\ DOMAIN tuples = 1 .. Len(tuples) /\ Len(tuples) \in Nat
      /\ u \in Combinations(k) /\ u \in [1 .. k -> Nat]
      /\ Len(RowsOf(k + 1)) \in Nat /\ DOMAIN RowsOf(k + 1) = 1 .. Len(RowsOf(k + 1))
  BY <1>1, AtTuple DEF SelectInv
<1>3. row = Len(RowsOf(k + 1)) + 1 /\ 1 .. row - 1 = DOMAIN RowsOf(k + 1)
  BY <1>1, <1>2 DEF JoinLoop
<1>4. /\ UNCHANGED <<query, rows, stage, tuples, joined>>
      /\ cur' = cur + 1 /\ row' = 1 /\ matched' = FALSE
      /\ found' = (IF pad THEN Append(found, x) ELSE found)
  BY DEF NextTuple
<1>5. pad <=> x \in Combinations(k + 1)
  <2>1. Follows(k, u, 0) <=> pad
    BY <1>2, <1>3 DEF Follows, JoinLoop
  <2> QED
    BY <1>2, <2>1, Extension
<1>6. SubSeq(x, 1, k) = u /\ x[k + 1] = 0
  <2>1. u \in Seq(Nat) /\ Len(u) = k
    BY <1>2, Functions
  <2>2. SubSeq(x, 1, k) = u
    BY <1>2, Longer
  <2> QED
    BY <2>1, <2>2
<1> HIDE DEF x, pad
<1>7. \A y : Passed(y, cur + 1, 1) <=> Passed(y, cur, row) \/ SubSeq(y, 1, k) = u
  <2>1. 1 .. 1 - 1 = {} /\ \A c \in DOMAIN tuples : c < cur + 1 <=> c < cur \/ c = cur
    BY <1>2
  <2> QED
    BY <1>2, <2>1 DEF Passed
<1>8. found \in Seq(Combinations(k + 1)) /\ Increasing(found)
  BY <1>2 DEF JoinLoop, Combining
<1>9. /\ found' \in Seq(Combinations(k + 1))
      /\ \A m \in DOMAIN found' : Passed(found'[m], cur + 1, 1)
      /\ \A m \in DOMAIN found : m \in DOMAIN found' /\ found'[m] = found[m]
      /\ pad => \E m \in DOMAIN found' : found'[m] = x
      /\ Increasing(found')
  <2>1. CASE ~ pad
    BY <1>2, <1>4, <1>7, <1>8, <2>1 DEF JoinLoop
  <2>2. CASE pad
    <3>1. x \in Combinations(k + 1) /\ found' = Append(found, x)
      BY <1>4, <1>5, <2>2
    <3>2. \A m \in DOMAIN found : RowsLess(found[m], x)
      BY <1>1, <2>2, FoundBefore DEF x, pad
    <3>3. Passed(x, cur + 1, 1) /\ \A m \in DOMAIN found : Passed(found[m], cur + 1, 1)
      BY <1>2, <1>6, <1>7 DEF JoinLoop
    <3> QED
      BY <1>8, <3>1, <3>2, <3>3, Appended, IncreasingAppended
  <2> QED
    BY <2>1, <2>2
<1>10. \A y \in Combinations(k + 1) : Passed(y, cur + 1, 1) => \E m \in DOMAIN found' : found'[m] = y
  <2> SUFFICES ASSUME NEW y \in Combinations(k + 1), Passed(y, cur + 1, 1) PROVE \E m \in DOMAIN found' : found'[m] = y
    OBVIOUS
  <2>1. CASE Passed(y, cur, row)
    BY <1>2, <1>9, <2>1 DEF JoinLoop
  <2>2. CASE SubSeq(y, 1, k) = u
    <3>1. y[k + 1] \in 0 .. Len(RowsOf(k + 1)) /\ y = Append(u, y[k + 1])
      BY <1>1, <2>2, Parts
    <3>2. CASE y[k + 1] = 0
      <4>1. y = x
        BY <3>1, <3>2 DEF x
      <4> QED
        BY <1>5, <1>9, <4>1
    <3>3. CASE y[k + 1] # 0
      <4>1. y[k + 1] \in 1 .. row - 1
        BY <1>2, <1>3, <3>1, <3>3
      <4>2. Passed(y, cur, row)
        BY <1>2, <2>2, <4>1 DEF Passed
      <4> QED
        BY <2>1, <4>2
    <3> QED
      BY <3>2, <3>3
  <2> QED
    BY <1>7, <2>1, <2>2
<1>11. \A c \in DOMAIN tuples, r \in DOMAIN RowsOf(k + 1) :
         c < cur + 1 \/ (c = cur + 1 /\ r < 1) => On(k + 1, Append(tuples[c], r)) # "error"
  <2>1. \A r \in DOMAIN RowsOf(k + 1) : r < row /\ ~ r < 1
    BY <1>2, <1>3
  <2>2. \A c \in DOMAIN tuples : c < cur + 1 <=> c < cur \/ c = cur
    BY <1>2
  <2> QED
    BY <1>2, <2>1, <2>2 DEF JoinLoop
<1>12. matched' <=> \E r \in 1 .. 1 - 1 : On(k + 1, Append(tuples[cur + 1], r)) = "true"
  BY <1>4
<1>13. row' \in 1 .. Len(RowsOf(k + 1)) + 1
  BY <1>2, <1>4
<1>14. JoinLoop'
  BY <1>4, <1>9, <1>10, <1>11, <1>12, <1>13, Constants DEF JoinLoop, Passed
<1>15. cur' \in 1 .. Len(tuples) + 1
  BY <1>2, <1>4
<1> QED
  BY <1>1, <1>4, <1>9, <1>14, <1>15, CombiningStays

\* ON fails.
LEMMA JoinErrorStep == ASSUME SelectInv, JoinError PROVE SelectInv'
<1>1. Joining /\ cur <= Len(tuples) /\ row <= Len(RowsOf(joined + 1)) /\ On(joined + 1, Candidate) = "error"
  BY DEF JoinError, Trying
<1>2. UNCHANGED <<query, rows, joined>> /\ stage' = "failed"
  BY DEF JoinError, Fail
<1>3. joined + 1 \in 2 .. N /\ tuples[cur] \in Combinations(joined) /\ row \in DOMAIN RowsOf(joined + 1)
  BY <1>1, AtTuple DEF JoinLoop
<1>4. OnFails(joined + 1)
  <2>1. (joined + 1) - 1 = joined
    BY <1>1, AtTuple
  <2> QED
    BY <1>1, <1>3, <2>1 DEF OnFails, Candidate
<1>5. \E i \in 2 .. N' : OnFails(i)'
  BY <1>2, <1>3, <1>4, Constants
<1>6. ErrorsAreReal' /\ AnswerIsRight'
  BY <1>2, <1>5 DEF ErrorsAreReal, AnswerIsRight, N
<1> QED
  BY <1>2, <1>6, Constants DEF SelectInv

\* A table is joined.
LEMMA EndJoinStep == ASSUME SelectInv, EndJoin PROVE SelectInv'
<1> DEFINE k == joined
<1>1. /\ stage = "join" /\ k < N /\ cur > Len(tuples) /\ Given
      /\ k \in 1 .. N /\ N \in Nat /\ Combining
  BY Loaded DEF EndJoin, Joining, SelectInv, N
<1>2. /\ UNCHANGED <<query, rows, stage>> /\ tuples' = found /\ joined' = k + 1
      /\ found' = <<>> /\ cur' = 1 /\ row' = 1 /\ matched' = FALSE
  BY DEF EndJoin, Replaced
<1>3. /\ JoinLoop /\ tuples \in Seq(Combinations(k)) /\ cur = Len(tuples) + 1
      /\ DOMAIN tuples = 1 .. Len(tuples) /\ Len(tuples) \in Nat
      /\ k \in 1 .. N - 1 /\ k + 1 \in 1 .. N /\ k \in Nat
  BY <1>1 DEF Combining, Lists
<1>4. \A c \in DOMAIN tuples : c < cur
  BY <1>3
<1>5. Lists(found, Combinations(k + 1))
  <2> SUFFICES ASSUME NEW y \in Combinations(k + 1) PROVE \E m \in DOMAIN found : found[m] = y
    BY <1>3 DEF Lists, JoinLoop
  <2>1. SubSeq(y, 1, k) \in Combinations(k)
    <3>1. y \in [1 .. k + 1 -> Nat]
      BY <1>1, <1>3, CombinationsAreTuples
    <3>2. SubSeq(y, 1, k) \in [1 .. k -> Nat] /\ y[k + 1] \in Nat /\ y = Append(SubSeq(y, 1, k), y[k + 1])
      BY <1>3, <3>1, Shorter
    <3>3. Append(SubSeq(y, 1, k), y[k + 1]) \in Combinations(k + 1)
      BY <3>2
    <3> QED
      BY <1>1, <1>3, <3>2, <3>3, Extension
  <2>2. Passed(y, cur, row)
    BY <1>1, <1>4, <2>1 DEF Passed, Combining, Lists
  <2> QED
    BY <1>3, <2>2 DEF JoinLoop
<1>6. Increasing(found)
  BY <1>1 DEF Combining
<1>7. ~ OnFails(k + 1)
  <2>1. (k + 1) - 1 = k
    BY <1>3
  <2>2. \A t \in Combinations(k) : \E c \in DOMAIN tuples : tuples[c] = t
    BY <1>1 DEF Combining, Lists
  <2> QED
    BY <1>3, <1>4, <2>1, <2>2 DEF OnFails, JoinLoop
<1>8. \A i \in 2 .. k + 1 : ~ OnFails(i)
  <2>1. \A i \in 2 .. k + 1 : i = k + 1 \/ i \in 2 .. k
    BY <1>3
  <2> QED
    BY <1>1, <1>7, <2>1 DEF Combining
<1>9. Begun'
  BY <1>1, <1>2, <1>3, <1>5, Constants DEF Begun, Lists
<1>10. Looping'
  BY <1>9, FreshLoop, PTL
<1>11. Lists(tuples, Combinations(joined))' /\ Increasing(tuples)' /\ (\A i \in 2 .. joined : ~ OnFails(i))'
  BY <1>2, <1>5, <1>6, <1>8, Constants DEF Lists, Increasing
<1>12. Combining'
  BY <1>10, <1>11 DEF Combining, Looping
<1>13. AnswerIsRight' /\ ErrorsAreReal'
  BY <1>1, <1>2, GoesOn
<1> QED
  BY <1>1, <1>2, <1>9, <1>12, <1>13 DEF SelectInv, Begun
-----------------------------------------------------------------------------
(* WHERE. *)

\* What is known where a tuple is filtered.
LEMMA AtFilter ==
    ASSUME SelectInv, Filtering
    PROVE  /\ Given /\ stage = "join" /\ joined = N /\ N \in Nat /\ N \in 1 .. N
           /\ Combining /\ FilterLoop /\ found \in Seq(Selected)
           /\ DOMAIN tuples = 1 .. Len(tuples) /\ Len(tuples) \in Nat
           /\ \A c \in DOMAIN tuples : tuples[c] \in Combinations(N)
           /\ cur \in 1 .. Len(tuples) + 1
<1>1. Given /\ stage = "join" /\ joined = N /\ N \in Nat /\ N \in 1 .. N /\ Combining
  BY Loaded DEF SelectInv, Filtering, N
<1>2. FilterLoop /\ found \in Seq(Selected)
  BY <1>1 DEF Combining, FilterLoop
<1>3. tuples \in Seq(Combinations(N)) /\ cur \in 1 .. Len(tuples) + 1
  BY <1>1 DEF Combining, Lists
<1> QED
  BY <1>1, <1>2, <1>3

\* A tuple is filtered.
LEMMA FilterStep == ASSUME SelectInv, Filter PROVE SelectInv'
<1> DEFINE u == tuples[cur]
           ok == Where(u) = "true"
<1>1. Filtering /\ cur <= Len(tuples) /\ Where(u) # "error"
  BY DEF Filter
<1>2. /\ Given /\ stage = "join" /\ joined = N /\ N \in Nat /\ N \in 1 .. N
      /\ Combining /\ FilterLoop /\ found \in Seq(Selected)
      /\ DOMAIN tuples = 1 .. Len(tuples) /\ Len(tuples) \in Nat
      /\ \A c \in DOMAIN tuples : tuples[c] \in Combinations(N)
      /\ cur \in DOMAIN tuples
  BY <1>1, AtFilter
<1>3. /\ UNCHANGED <<query, rows, stage, tuples, joined>> /\ cur' = cur + 1
      /\ found' = (IF ok THEN Append(found, u) ELSE found)
  BY DEF Filter
<1>4. 1 .. (cur + 1) - 1 = 1 .. cur /\ \A c : c \in 1 .. cur <=> c \in 1 .. cur - 1 \/ c = cur
  BY <1>2
<1>5. ok => u \in Selected
  BY <1>2 DEF Selected, N
<1> HIDE DEF u, ok
<1>6. /\ found' \in Seq(Selected)
      /\ \A m \in DOMAIN found' : \E c \in 1 .. cur : found'[m] = tuples[c]
      /\ \A m \in DOMAIN found : m \in DOMAIN found' /\ found'[m] = found[m]
      /\ ok => \E m \in DOMAIN found' : found'[m] = u
      /\ Increasing(found')
  <2>1. CASE ~ ok
    BY <1>2, <1>3, <1>4, <2>1 DEF FilterLoop, Combining
  <2>2. CASE ok
    <3>1. u \in Selected /\ found' = Append(found, u) /\ Increasing(found)
      BY <1>2, <1>3, <1>5, <2>2 DEF Combining
    <3>2. \A m \in DOMAIN found : RowsLess(found[m], u)
      <4> SUFFICES ASSUME NEW m \in DOMAIN found PROVE RowsLess(found[m], u)
        OBVIOUS
      <4>1. PICK c \in 1 .. cur - 1 : found[m] = tuples[c]
        BY <1>2 DEF FilterLoop
      <4>2. c \in DOMAIN tuples /\ c < cur
        BY <1>2
      <4> QED
        BY <1>2, <4>1, <4>2 DEF Combining, Increasing, u
    <3>3. \A m \in DOMAIN found : \E c \in 1 .. cur : found[m] = tuples[c]
      BY <1>2, <1>4 DEF FilterLoop
    <3>4. \E c \in 1 .. cur : u = tuples[c]
      BY <1>2, <1>4 DEF u
    <3> QED
      BY SMTT(40), <1>2, <3>1, <3>2, <3>3, <3>4, Appended, IncreasingAppended
  <2> QED
    BY <2>1, <2>2
<1>7. \A c \in 1 .. cur : /\ Where(tuples[c]) # "error"
                          /\ Where(tuples[c]) = "true" => \E m \in DOMAIN found' : found'[m] = tuples[c]
  <2>1. \A c \in 1 .. cur - 1 : /\ Where(tuples[c]) # "error"
                                /\ Where(tuples[c]) = "true" => \E m \in DOMAIN found' : found'[m] = tuples[c]
    BY <1>2, <1>6 DEF FilterLoop
  <2>2. /\ Where(tuples[cur]) # "error"
        /\ Where(tuples[cur]) = "true" => \E m \in DOMAIN found' : found'[m] = tuples[cur]
    BY <1>1, <1>6 DEF u, ok
  <2> QED
    BY <1>4, <2>1, <2>2
<1>8. FilterLoop'
  <2>1. 1 .. cur' - 1 = 1 .. cur /\ tuples' = tuples
    BY <1>3, <1>4
  <2>2. Selected' = Selected /\ \A x : Where(x)' = Where(x)
    BY <1>3, Constants
  <2>3. (found \in Seq(Selected))'
    BY <1>6, <2>2
  <2>4. \A m \in DOMAIN found' : \E c \in 1 .. cur' - 1 : found'[m] = tuples'[c]
    BY <1>6, <2>1
  <2>5. \A c \in 1 .. cur' - 1 :
          /\ Where(tuples[c])' # "error"
          /\ Where(tuples[c])' = "true" => \E m \in DOMAIN found' : found'[m] = tuples'[c]
    BY <1>7, <2>1, <2>2
  <2> QED
    BY <2>3, <2>4, <2>5 DEF FilterLoop
<1>9. Given' /\ joined' \in 1 .. N' /\ ~ joined' < N' /\ cur' \in 1 .. Len(tuples') + 1
  BY <1>2, <1>3, Constants
<1>10. Lists(tuples, Combinations(joined))' /\ Increasing(tuples)' /\ (\A i \in 2 .. joined : ~ OnFails(i))'
  BY <1>2, <1>3, Constants DEF Combining, Lists, Increasing
<1>11. Increasing(found)'
  BY <1>6 DEF Increasing
<1>12. Combining'
  BY <1>8, <1>9, <1>10, <1>11 DEF Combining
<1>13. AnswerIsRight' /\ ErrorsAreReal'
  BY <1>2, <1>3, GoesOn
<1> QED
  BY <1>2, <1>3, <1>9, <1>12, <1>13 DEF SelectInv

\* WHERE fails.
LEMMA FilterErrorStep == ASSUME SelectInv, FilterError PROVE SelectInv'
<1>1. Filtering /\ cur <= Len(tuples) /\ Where(tuples[cur]) = "error"
  BY DEF FilterError
<1>2. UNCHANGED <<query, rows, joined>> /\ stage' = "failed"
  BY DEF FilterError, Fail
<1>3. tuples[cur] \in Combinations(N)
  BY <1>1, AtFilter
<1>4. WhereFails'
  BY <1>1, <1>2, <1>3, Constants DEF WhereFails, N
<1>5. ErrorsAreReal' /\ AnswerIsRight'
  BY <1>2, <1>4 DEF ErrorsAreReal, AnswerIsRight
<1> QED
  BY <1>2, <1>5, Constants DEF SelectInv

\* All tuples are filtered.
LEMMA EndFilterStep == ASSUME SelectInv, EndFilter PROVE SelectInv'
<1>1. Filtering /\ cur > Len(tuples)
  BY DEF EndFilter
<1>2. UNCHANGED <<query, rows, joined>> /\ tuples' = found /\ stage' = "order"
  BY DEF EndFilter, Replaced
<1>3. /\ Given /\ joined = N /\ N \in 1 .. N /\ Combining /\ FilterLoop /\ found \in Seq(Selected)
      /\ 1 .. cur - 1 = DOMAIN tuples
  BY <1>1, AtFilter
<1>4. \A t \in Combinations(N) : \E c \in 1 .. cur - 1 : tuples[c] = t
  BY <1>3 DEF Combining, Lists
<1>5. ~ WhereFails
  BY <1>3, <1>4 DEF FilterLoop, WhereFails, N
<1>6. Lists(found, Selected) /\ Increasing(found)
  <2>1. \A t \in Selected : \E m \in DOMAIN found : found[m] = t
    BY <1>3, <1>4 DEF FilterLoop, Selected, N
  <2> QED
    BY <1>3, <2>1 DEF Lists, Combining
<1>7. Checked'
  BY <1>2, <1>3, <1>5, Constants DEF Checked, Combining
<1>8. Lists(tuples, Selected)' /\ Increasing(tuples)'
  BY <1>2, <1>6, Constants DEF Lists, Increasing
<1>9. AnswerIsRight' /\ ErrorsAreReal'
  BY <1>2, GoesOn
<1> QED
  BY <1>2, <1>3, <1>7, <1>8, <1>9, Constants DEF SelectInv
-----------------------------------------------------------------------------
(* ORDER BY. *)

\* The sort begins with one tuple in order, and a second to insert.
LEMMA StartSortStep == ASSUME SelectInv, StartSort PROVE SelectInv'
<1>1. /\ Given /\ joined \in 1 .. N /\ stage = "order" /\ Checked
      /\ Lists(tuples, Selected) /\ Increasing(tuples)
  BY DEF SelectInv, StartSort
<1>2. UNCHANGED <<query, rows, tuples, joined>> /\ ~ OrderFails
  BY DEF StartSort, OrderFails
<1>3. Given' /\ joined' \in 1 .. N' /\ Checked' /\ Lists(tuples, Selected)' /\ ~ OrderFails'
  BY <1>1, <1>2, Constants DEF Checked, Lists
<1>4. CASE query.order = NoOrder
  <2>1. stage' = "limit"
    BY <1>4 DEF StartSort
  <2>2. Sorted(tuples)
    BY <1>1, <1>4 DEF Sorted, Increasing, Precedes
  <2>3. Sorted(tuples)'
    BY <1>2, <2>2, Constants DEF Sorted
  <2>4. AnswerIsRight' /\ ErrorsAreReal'
    BY <2>1, GoesOn
  <2> QED
    BY <1>3, <2>1, <2>3, <2>4 DEF SelectInv
<1>5. CASE query.order # NoOrder
  <2>1. stage' = "sort" /\ sorted' = 1 /\ pos' = 2
    BY <1>5 DEF StartSort
  <2>2. DOMAIN tuples = 1 .. Len(tuples) /\ Len(tuples) \in Nat
    BY <1>1 DEF Lists
  <2>3. ASSUME 1 < Len(tuples) PROVE Inserting'
    <3>1. \A m, n \in 1 .. 2 : ~ (m < n /\ m # 2 /\ n # 2)
      OBVIOUS
    <3>2. \A m \in 1 .. 1 : RowsLess(tuples[m], tuples[2])
      BY <1>1, <2>2, <2>3 DEF Increasing
    <3>3. \A m \in DOMAIN tuples, n \in 3 .. Len(tuples) : m < n => RowsLess(tuples[m], tuples[n])
      BY <1>1, <2>2 DEF Increasing
    <3>4. sorted' + 1 = 2 /\ sorted' + 2 = 3 /\ pos' + 1 = 3 /\ pos' - 1 = 1 /\ 3 .. 2 = {} /\ tuples' = tuples
      BY <1>2, <2>1
    <3> QED
      BY <2>1, <3>1, <3>2, <3>3, <3>4 DEF Inserting, RowsLess
  <2>4. ASSUME ~ 1 < Len(tuples) PROVE Sorted(tuples)'
    BY <1>2, <2>2, <2>4 DEF Sorted
  <2>5. Sorting'
    BY <1>2, <1>3, <1>5, <2>1, <2>3, <2>4 DEF Sorting
  <2>6. AnswerIsRight' /\ ErrorsAreReal'
    BY <2>1, GoesOn
  <2> QED
    BY <1>3, <2>1, <2>5, <2>6 DEF SelectInv
<1> QED
  BY <1>4, <1>5

\* ORDER BY names no column, or several.
LEMMA OrderErrorStep == ASSUME SelectInv, OrderError PROVE SelectInv'
<1>1. UNCHANGED <<query, rows, joined>> /\ stage' = "failed" /\ OrderFails
  BY DEF OrderError, Fail, OrderFails
<1>2. ErrorsAreReal' /\ AnswerIsRight'
  BY <1>1, Constants DEF ErrorsAreReal, AnswerIsRight
<1> QED
  BY <1>1, <1>2, Constants DEF SelectInv

\* What is known while a tuple is inserted.
LEMMA AtInsertion ==
    ASSUME SelectInv, stage = "sort", sorted < Len(tuples)
    PROVE  /\ Given /\ joined \in 1 .. N /\ Checked /\ Sorting /\ Inserting
           /\ query.order # NoOrder /\ ~ OrderFails /\ Resolves(query.order)
           /\ Lists(tuples, Selected)
           /\ DOMAIN tuples = 1 .. Len(tuples) /\ Len(tuples) \in Nat
           /\ sorted \in Nat \ {0} /\ sorted + 1 \in 1 .. Len(tuples)
           /\ pos \in Nat /\ pos \in 1 .. sorted + 1
           /\ \A m \in DOMAIN tuples : tuples[m] \in Selected /\ tuples[m] \in Combinations(N)
<1>1. /\ Given /\ joined \in 1 .. N /\ Checked /\ Sorting /\ Inserting
      /\ query.order # NoOrder /\ ~ OrderFails /\ Lists(tuples, Selected) /\ sorted \in Nat \ {0}
  BY DEF SelectInv, Sorting
<1>2. Resolves(query.order)
  BY <1>1 DEF OrderFails
<1>3. DOMAIN tuples = 1 .. Len(tuples) /\ Len(tuples) \in Nat /\ \A m \in DOMAIN tuples : tuples[m] \in Selected
  BY <1>1 DEF Lists
<1>4. pos \in 1 .. sorted + 1 /\ pos \in Nat /\ sorted + 1 \in 1 .. Len(tuples)
  BY <1>1, <1>3 DEF Inserting
<1> QED
  BY <1>1, <1>2, <1>3, <1>4 DEF Selected, N

\* The tuple changes places with the one in front of it.
LEMMA ShiftStep == ASSUME SelectInv, Shift PROVE SelectInv'
<1> DEFINE t == tuples
           p == pos
           s == sorted
           Old(m) == IF m = p THEN p - 1 ELSE IF m = p - 1 THEN p ELSE m
<1>1. stage = "sort" /\ s < Len(t) /\ p > 1 /\ ShouldSwap(t[p - 1], t[p])
  BY DEF Shift, Shifts
<1>2. /\ Given /\ joined \in 1 .. N /\ Checked /\ Sorting /\ Inserting
      /\ query.order # NoOrder /\ ~ OrderFails /\ Resolves(query.order) /\ Lists(t, Selected)
      /\ DOMAIN t = 1 .. Len(t) /\ Len(t) \in Nat /\ s \in Nat \ {0} /\ s + 1 \in 1 .. Len(t)
      /\ p \in 1 .. s + 1 /\ p \in Nat
      /\ \A m \in DOMAIN t : t[m] \in Selected /\ t[m] \in Combinations(N)
  BY <1>1, AtInsertion
<1>3. /\ UNCHANGED <<query, rows, joined, stage, sorted>> /\ pos' = p - 1
      /\ tuples' = [t EXCEPT ![p] = t[p - 1], ![p - 1] = t[p]]
  BY DEF Shift
<1>4. p \in DOMAIN t /\ p - 1 \in DOMAIN t
  BY <1>1, <1>2
<1>5. \A m \in DOMAIN t : Old(m) \in DOMAIN t /\ tuples'[m] = t[Old(m)] /\ Old(Old(m)) = m
  BY <1>1, <1>2, <1>3, <1>4
<1>6. tuples' \in Seq(Selected) /\ Len(tuples') = Len(t) /\ DOMAIN tuples' = DOMAIN t
  BY <1>2, <1>3, <1>4 DEF Lists
<1>7. Lists(tuples', Selected)
  <2> SUFFICES ASSUME NEW x \in Selected PROVE \E m \in DOMAIN tuples' : tuples'[m] = x
    BY <1>6 DEF Lists
  <2>1. PICK m \in DOMAIN t : t[m] = x
    BY <1>2 DEF Lists
  <2>2. Old(m) \in DOMAIN tuples' /\ tuples'[Old(m)] = x
    BY <1>5, <1>6, <2>1
  <2> QED
    BY <2>2
<1>8. Precedes(t[p], t[p - 1])
  BY <1>1, <1>2, <1>4, KeyBeforeIsOrder, PrecedesByKey
<1>9. \A m, n \in 1 .. s + 1 : m < n /\ m # p - 1 /\ n # p - 1 => Precedes(tuples'[m], tuples'[n])
  <2> SUFFICES ASSUME NEW m \in 1 .. s + 1, NEW n \in 1 .. s + 1, m < n, m # p - 1, n # p - 1
               PROVE  Precedes(tuples'[m], tuples'[n])
    OBVIOUS
  <2>1. m \in DOMAIN t /\ n \in DOMAIN t
    BY <1>2
  <2>2. /\ Old(m) \in 1 .. s + 1 /\ Old(n) \in 1 .. s + 1 /\ Old(m) < Old(n)
        /\ Old(m) # p /\ Old(n) # p
    BY <1>1, <1>2
  <2>3. Precedes(t[Old(m)], t[Old(n)])
    BY <1>2, <2>2 DEF Inserting
  <2> QED
    BY <1>5, <2>1, <2>3
<1>10. \A n \in p .. s + 1 : Precedes(tuples'[p - 1], tuples'[n])
  <2> SUFFICES ASSUME NEW n \in p .. s + 1 PROVE Precedes(tuples'[p - 1], tuples'[n])
    OBVIOUS
  <2>1. n \in DOMAIN t /\ (n = p \/ n \in p + 1 .. s + 1)
    BY <1>1, <1>2
  <2>2. tuples'[p - 1] = t[p]
    BY <1>1, <1>4, <1>5
  <2>3. CASE n = p
    <3>1. tuples'[n] = t[p - 1]
      BY <1>4, <1>5, <2>3
    <3> QED
      BY <1>8, <2>2, <3>1
  <2>4. CASE n \in p + 1 .. s + 1
    <3>1. tuples'[n] = t[n]
      <4>1. n # p /\ n # p - 1
        BY <1>2, <2>4
      <4> QED
        BY <1>5, <2>1, <4>1
    <3> QED
      BY <1>2, <2>2, <2>4, <3>1 DEF Inserting
  <2> QED
    BY <2>1, <2>3, <2>4
<1>11. \A m \in 1 .. (p - 1) - 1 : RowsLess(tuples'[m], tuples'[p - 1])
  <2> SUFFICES ASSUME NEW m \in 1 .. (p - 1) - 1 PROVE RowsLess(tuples'[m], tuples'[p - 1])
    OBVIOUS
  <2>1. m \in DOMAIN t /\ m \in 1 .. p - 1 /\ m # p /\ m # p - 1
    BY <1>1, <1>2
  <2>2. tuples'[m] = t[m] /\ tuples'[p - 1] = t[p]
    BY <1>1, <1>4, <1>5, <2>1
  <2> QED
    BY <1>2, <2>1, <2>2 DEF Inserting
<1>12. \A m \in DOMAIN tuples', n \in s + 2 .. Len(tuples') : m < n => RowsLess(tuples'[m], tuples'[n])
  <2> SUFFICES ASSUME NEW m \in DOMAIN t, NEW n \in s + 2 .. Len(t), m < n
               PROVE  RowsLess(tuples'[m], tuples'[n])
    BY <1>6
  <2>1. n \in DOMAIN t /\ Old(n) = n /\ Old(m) < n /\ Old(m) \in DOMAIN t
    BY <1>1, <1>2
  <2>2. RowsLess(t[Old(m)], t[n])
    BY <1>2, <2>1 DEF Inserting
  <2> QED
    BY <1>5, <2>1, <2>2
<1>13. Inserting'
  <2>1. pos' \in 1 .. s + 1 /\ pos' + 1 = p
    BY <1>1, <1>2, <1>3
  <2>2. \A x, y : Precedes(x, y)' = Precedes(x, y)
    BY <1>3, Constants
  <2>3. (\A m, n \in 1 .. sorted + 1 : m < n /\ m # pos /\ n # pos => Precedes(tuples[m], tuples[n]))'
    BY <1>3, <1>9, <2>2
  <2>4. (\A n \in pos + 1 .. sorted + 1 : Precedes(tuples[pos], tuples[n]))'
    BY <1>3, <1>10, <2>1, <2>2
  <2>5. (\A m \in 1 .. pos - 1 : RowsLess(tuples[m], tuples[pos]))'
    <3>1. pos' - 1 = (p - 1) - 1 /\ \A m \in 1 .. (p - 1) - 1 : RowsLess(tuples'[m], tuples'[pos'])
      BY <1>3, <1>11
    <3> QED
      BY <3>1 DEF RowsLess
  <2>6. (\A m \in DOMAIN tuples, n \in sorted + 2 .. Len(tuples) : m < n => RowsLess(tuples[m], tuples[n]))'
    BY <1>3, <1>12 DEF RowsLess
  <2> QED
    BY <1>3, <2>1, <2>3, <2>4, <2>5, <2>6 DEF Inserting
<1>14. Given' /\ joined' \in 1 .. N' /\ Checked' /\ Lists(tuples, Selected)' /\ ~ OrderFails'
  <2>1. Lists(tuples, Selected)'
    <3>1. Selected' = Selected
      BY <1>3, Constants
    <3> QED
      BY <1>7, <3>1 DEF Lists
  <2> QED
    BY <1>2, <1>3, <2>1, Constants DEF Checked
<1>15. Sorting'
  BY <1>1, <1>2, <1>3, <1>6, <1>13, <1>14 DEF Sorting
<1>16. AnswerIsRight' /\ ErrorsAreReal'
  BY <1>1, <1>3, GoesOn
<1> QED
  BY <1>1, <1>3, <1>14, <1>15, <1>16 DEF SelectInv

\* The tuple stands right: after it come those it has passed, and before it
\* those whose key is not greater and that were found before it.
LEMMA PlaceStep == ASSUME SelectInv, Place PROVE SelectInv'
<1> DEFINE t == tuples
           p == pos
           s == sorted
<1>1. stage = "sort" /\ s < Len(t) /\ ~ Shifts
  BY DEF Place
<1>2. /\ Given /\ joined \in 1 .. N /\ Checked /\ Sorting /\ Inserting
      /\ query.order # NoOrder /\ ~ OrderFails /\ Resolves(query.order) /\ Lists(t, Selected)
      /\ DOMAIN t = 1 .. Len(t) /\ Len(t) \in Nat /\ s \in Nat \ {0} /\ s + 1 \in 1 .. Len(t)
      /\ p \in 1 .. s + 1 /\ p \in Nat
      /\ \A m \in DOMAIN t : t[m] \in Selected /\ t[m] \in Combinations(N)
  BY <1>1, AtInsertion
<1>3. UNCHANGED <<query, rows, joined, stage, tuples>> /\ sorted' = s + 1 /\ pos' = s + 2
  BY DEF Place
<1>4. \A m \in 1 .. s + 1 : m \in DOMAIN t
  BY <1>2
<1>5. ASSUME NEW m \in 1 .. p - 1 PROVE Precedes(t[m], t[p])
  <2>1. p - 1 \in 1 .. s + 1 /\ p - 1 < p /\ p - 1 \in 1 .. p - 1 /\ m \in 1 .. s + 1 /\ (m = p - 1 \/ m < p - 1)
    BY <1>2
  <2>2. Precedes(t[p - 1], t[p])
    <3>1. ~ ShouldSwap(t[p - 1], t[p])
      BY <1>1, <1>2, <2>1 DEF Shifts
    <3>2. RowsLess(t[p - 1], t[p])
      BY <1>2, <2>1 DEF Inserting
    <3>3. t[p - 1] \in Combinations(N) /\ t[p] \in Combinations(N)
      BY <1>2, <1>4, <2>1
    <3>4. ~ KeyBefore(t[p], t[p - 1])
      BY <1>2, <3>1, <3>3, KeyBeforeIsOrder
    <3> QED
      BY <1>2, <3>2, <3>3, <3>4, PrecedesByKey
  <2>3. CASE m < p - 1
    <3>1. Precedes(t[m], t[p - 1])
      BY <1>2, <2>1, <2>3 DEF Inserting
    <3>2. t[m] \in Combinations(N) /\ t[p - 1] \in Combinations(N) /\ t[p] \in Combinations(N)
      BY <1>2, <1>4, <2>1
    <3> QED
      BY <1>2, <2>2, <3>1, <3>2, PrecedesIsOrder
  <2> QED
    BY <2>1, <2>2, <2>3
<1>6. \A m, n \in 1 .. s + 1 : m < n => Precedes(t[m], t[n])
  <2> SUFFICES ASSUME NEW m \in 1 .. s + 1, NEW n \in 1 .. s + 1, m < n PROVE Precedes(t[m], t[n])
    OBVIOUS
  <2>1. CASE m # p /\ n # p
    BY <1>2, <2>1 DEF Inserting
  <2>2. CASE m = p
    <3>1. n \in p + 1 .. s + 1
      BY <1>2, <2>2
    <3> QED
      BY <1>2, <2>2, <3>1 DEF Inserting
  <2>3. CASE n = p
    <3>1. m \in 1 .. p - 1
      BY <1>2, <2>3
    <3> QED
      BY <1>5, <2>3, <3>1
  <2> QED
    BY <2>1, <2>2, <2>3
<1>7. ASSUME s + 1 < Len(t) PROVE Inserting'
  <2>1. \A m, n \in 1 .. s + 2 : m < n /\ m # s + 2 /\ n # s + 2 => Precedes(t[m], t[n])
    <3>1. \A m \in 1 .. s + 2 : m # s + 2 => m \in 1 .. s + 1
      BY <1>2
    <3> QED
      BY <1>6, <3>1
  <2>2. \A m \in 1 .. s + 1 : RowsLess(t[m], t[s + 2])
    <3>1. s + 2 \in s + 2 .. Len(t) /\ \A m \in 1 .. s + 1 : m < s + 2
      BY <1>2, <1>7
    <3> QED
      BY <1>2, <1>4, <3>1 DEF Inserting
  <2>3. \A m \in DOMAIN t, n \in s + 3 .. Len(t) : m < n => RowsLess(t[m], t[n])
    <3>1. \A n \in s + 3 .. Len(t) : n \in s + 2 .. Len(t)
      BY <1>2
    <3> QED
      BY <1>2, <3>1 DEF Inserting
  <2>4. /\ sorted' + 1 = s + 2 /\ sorted' + 2 = s + 3 /\ pos' - 1 = s + 1
        /\ pos' + 1 .. s + 2 = {} /\ pos' \in 1 .. s + 2
    BY <1>2, <1>3
  <2>5. \A x, y : Precedes(x, y)' = Precedes(x, y)
    BY <1>3, Constants
  <2>6. (\A m, n \in 1 .. sorted + 1 : m < n /\ m # pos /\ n # pos => Precedes(tuples[m], tuples[n]))'
    BY <1>3, <2>1, <2>4, <2>5
  <2>7. (\A n \in pos + 1 .. sorted + 1 : Precedes(tuples[pos], tuples[n]))'
    BY <2>4
  <2>8. (\A m \in 1 .. pos - 1 : RowsLess(tuples[m], tuples[pos]))'
    BY <1>3, <2>2, <2>4 DEF RowsLess
  <2>9. (\A m \in DOMAIN tuples, n \in sorted + 2 .. Len(tuples) : m < n => RowsLess(tuples[m], tuples[n]))'
    BY <1>3, <2>3, <2>4 DEF RowsLess
  <2> QED
    BY <2>4, <2>6, <2>7, <2>8, <2>9 DEF Inserting
<1>8. ASSUME ~ s + 1 < Len(t) PROVE Sorted(tuples)'
  <2>1. DOMAIN t = 1 .. s + 1
    <3>1. s + 1 \in 1 .. Len(t) /\ Len(t) \in Nat /\ s \in Nat
      BY <1>2
    <3>2. s + 1 = Len(t)
      BY <1>8, <3>1
    <3> QED
      BY <1>2, <3>2
  <2>2. Sorted(t)
    BY <1>6, <2>1 DEF Sorted
  <2> QED
    BY <1>3, <2>2, Constants DEF Sorted
<1>9. Given' /\ joined' \in 1 .. N' /\ Checked' /\ Lists(tuples, Selected)' /\ ~ OrderFails'
  BY <1>2, <1>3, Constants DEF Checked, Lists
<1>10. Sorting'
  BY <1>2, <1>3, <1>7, <1>8, <1>9 DEF Sorting
<1>11. AnswerIsRight' /\ ErrorsAreReal'
  BY <1>1, <1>3, GoesOn
<1> QED
  BY <1>1, <1>3, <1>9, <1>10, <1>11 DEF SelectInv

\* All tuples are in order.
LEMMA EndSortStep == ASSUME SelectInv, EndSort PROVE SelectInv'
<1>1. /\ Given /\ joined \in 1 .. N /\ stage = "sort" /\ Checked /\ ~ OrderFails
      /\ Lists(tuples, Selected) /\ Sorted(tuples)
  <2>1. sorted >= Len(tuples) /\ stage = "sort" /\ Sorting /\ sorted \in Nat /\ Len(tuples) \in Nat
    BY DEF SelectInv, EndSort, Sorting, Lists
  <2>2. ~ sorted < Len(tuples)
    BY <2>1
  <2> QED
    BY <2>1, <2>2 DEF SelectInv, Sorting
<1>2. UNCHANGED <<query, rows, tuples, joined>> /\ stage' = "limit"
  BY DEF EndSort
<1>3. /\ Given' /\ joined' \in 1 .. N' /\ Checked' /\ Lists(tuples, Selected)' /\ ~ OrderFails'
      /\ Sorted(tuples)'
  BY <1>1, <1>2, Constants DEF Checked, Lists, Sorted
<1>4. AnswerIsRight' /\ ErrorsAreReal'
  BY <1>2, GoesOn
<1> QED
  BY <1>2, <1>3, <1>4 DEF SelectInv
-----------------------------------------------------------------------------
(* LIMIT and the select list. *)

\* LIMIT cuts the list off: the place of a tuple is still its rank.
LEMMA LimitStep == ASSUME SelectInv, Limit PROVE SelectInv'
<1>1. /\ Given /\ joined \in 1 .. N /\ stage = "limit" /\ Checked /\ ~ OrderFails
      /\ Lists(tuples, Selected) /\ Sorted(tuples)
  BY DEF SelectInv, Limit
<1>2. /\ UNCHANGED <<query, rows, joined>> /\ stage' = "project"
      /\ tuples' = IF query.limit = NoLimit \/ query.limit >= Len(tuples) THEN tuples
                   ELSE SubSeq(tuples, 1, query.limit)
  BY DEF Limit
<1>3. /\ Cardinality(Selected) = Len(tuples)
      /\ \A p \in DOMAIN tuples : Cardinality({u \in Selected : Precedes(u, tuples[p])}) = p - 1
  BY <1>1, SortedRanks
<1>4. query.limit \in Nat \cup {NoLimit} /\ NoLimit = -1
  BY <1>1, SelectAssumption DEF Given, NoLimit
<1>5. tuples \in Seq(Selected) /\ Len(tuples) \in Nat /\ DOMAIN tuples = 1 .. Len(tuples)
  BY <1>1 DEF Lists
<1>6. /\ tuples' \in Seq(Selected)
      /\ Len(tuples') = IF query.limit # NoLimit /\ query.limit < Len(tuples) THEN query.limit ELSE Len(tuples)
      /\ \A p \in DOMAIN tuples' : p \in DOMAIN tuples /\ tuples'[p] = tuples[p]
  <2>1. CASE query.limit = NoLimit \/ query.limit >= Len(tuples)
    BY <1>2, <1>4, <1>5, <2>1
  <2>2. CASE ~ (query.limit = NoLimit \/ query.limit >= Len(tuples))
    <3> DEFINE l == query.limit
    <3>1. l \in Nat /\ l < Len(tuples) /\ l # NoLimit /\ tuples' = SubSeq(tuples, 1, l)
      BY <1>2, <1>4, <1>5, <2>2
    <3> HIDE DEF l
    <3>2. /\ SubSeq(tuples, 1, l) \in Seq(Selected) /\ Len(SubSeq(tuples, 1, l)) = l
          /\ DOMAIN SubSeq(tuples, 1, l) = 1 .. l
          /\ \A p \in 1 .. l : SubSeq(tuples, 1, l)[p] = tuples[p]
      BY <1>5, <3>1
    <3>3. \A p \in 1 .. l : p \in DOMAIN tuples
      BY <1>5, <3>1
    <3> QED
      BY <3>1, <3>2, <3>3 DEF l
  <2> QED
    BY <2>1, <2>2
<1>7. Limited'
  <2>1. Selected' = Selected /\ (\A x, y : Precedes(x, y)' = Precedes(x, y)) /\ ~ OrderFails'
    BY <1>1, <1>2, Constants
  <2>2. \A p \in DOMAIN tuples' : Cardinality({u \in Selected : Precedes(u, tuples'[p])}) = p - 1
    BY <1>3, <1>6
  <2>3. (\A p \in DOMAIN tuples : Cardinality({u \in Selected : Precedes(u, tuples[p])}) = p - 1)'
    BY <2>1, <2>2
  <2>4. (tuples \in Seq(Selected))'
    BY <1>6, <2>1
  <2>5. (Len(tuples) = IF query.limit # NoLimit /\ query.limit < Cardinality(Selected)
                      THEN query.limit ELSE Cardinality(Selected))'
    BY <1>2, <1>3, <1>6, <2>1
  <2> QED
    BY <2>1, <2>3, <2>4, <2>5 DEF Limited
<1>8. Given' /\ joined' \in 1 .. N' /\ Checked'
  BY <1>1, <1>2, Constants DEF Checked
<1>9. AnswerIsRight' /\ ErrorsAreReal'
  BY <1>2, GoesOn
<1> QED
  BY <1>2, <1>7, <1>8, <1>9 DEF SelectInv

\* The rows of the result are those of the tuples.
LEMMA ProjectStep == ASSUME SelectInv, Project PROVE SelectInv'
<1>1. Given /\ joined \in 1 .. N /\ stage = "project" /\ Checked /\ Limited /\ ListResolves
  BY DEF SelectInv, Project
<1>2. /\ UNCHANGED <<query, rows, joined, tuples>> /\ stage' = "done"
      /\ result' = [t \in DOMAIN tuples |-> [i \in DOMAIN Projection |-> At(tuples[t], Projection[i])]]
  BY DEF Project
<1>3. /\ tuples \in Seq(Selected)
      /\ Len(tuples) = IF query.limit # NoLimit /\ query.limit < Cardinality(Selected)
                       THEN query.limit ELSE Cardinality(Selected)
      /\ \A p \in DOMAIN tuples : Cardinality({u \in Selected : Precedes(u, tuples[p])}) = p - 1
  BY <1>1 DEF Limited
<1>4. /\ DOMAIN result' = DOMAIN tuples /\ Len(result') = Len(tuples)
      /\ \A p \in DOMAIN tuples : \A i \in DOMAIN result'[p] : result'[p][i] = At(tuples[p], Projection[i])
  <2> DEFINE r == result'
             S == {r[p] : p \in DOMAIN r}
  <2>1. DOMAIN r = 1 .. Len(tuples) /\ Len(tuples) \in Nat /\ DOMAIN r = DOMAIN tuples
    BY <1>2, <1>3
  <2>2. r = [p \in 1 .. Len(tuples) |-> r[p]]
    BY <1>2, <2>1
  <2>3. \A p \in DOMAIN tuples : \A i \in DOMAIN r[p] : r[p][i] = At(tuples[p], Projection[i])
    BY <1>2
  <2> HIDE DEF r
  <2>4. r \in [1 .. Len(tuples) -> S]
    BY <2>1, <2>2
  <2>5. r \in Seq(S)
    BY <2>1, <2>4, SeqDef
  <2>6. Len(r) = Len(tuples)
    BY <2>1, <2>5
  <2> QED
    BY <2>1, <2>3, <2>6 DEF r
<1>5. /\ Selected' = Selected /\ (\A x, y : Precedes(x, y)' = Precedes(x, y))
      /\ Projection' = Projection /\ \A x, s : At(x, s)' = At(x, s)
  BY <1>2, Constants
<1>6. AnswerIsRight'
  <2>1. (Len(result) = IF query.limit # NoLimit /\ query.limit < Cardinality(Selected)
                       THEN query.limit ELSE Cardinality(Selected))'
    BY <1>2, <1>3, <1>4, <1>5
  <2>2. ASSUME NEW p \in DOMAIN result'
        PROVE  \E t \in Selected' :
                 /\ Cardinality({u \in Selected : Precedes(u, t)})' = p - 1
                 /\ \A i \in DOMAIN result'[p] : result'[p][i] = At(t, Projection[i])'
    <3>1. tuples[p] \in Selected /\ Cardinality({u \in Selected : Precedes(u, tuples[p])}) = p - 1
      BY <1>3, <1>4, <2>2
    <3>2. \A i \in DOMAIN result'[p] : result'[p][i] = At(tuples[p], Projection[i])
      BY <1>4, <2>2
    <3>3. \A t : {u \in Selected : Precedes(u, t)}' = {u \in Selected : Precedes(u, t)}
      BY <1>5
    <3>4. \A t, i : At(t, Projection[i])' = At(t, Projection[i])
      BY <1>2, <1>5 DEF At, RowsOf
    <3> QED
      BY <1>5, <3>1, <3>2, <3>3, <3>4
  <2> QED
    BY <2>1, <2>2 DEF AnswerIsRight
<1>7. ErrorsAreReal'
  <2>1. ~ WhereFails' /\ ~ OrderFails' /\ ListResolves' /\ \A i \in 2 .. N' : ~ OnFails(i)'
    BY <1>1, <1>2, Constants DEF Checked, Limited
  <2> QED
    BY <1>2, <2>1 DEF ErrorsAreReal, N
<1> QED
  BY <1>1, <1>2, <1>6, <1>7, Constants DEF SelectInv

\* The list names no column, or several.
LEMMA ProjectErrorStep == ASSUME SelectInv, ProjectError PROVE SelectInv'
<1>1. UNCHANGED <<query, rows, joined>> /\ stage' = "failed" /\ ~ ListResolves
  BY DEF ProjectError, Fail
<1>2. ErrorsAreReal' /\ AnswerIsRight'
  BY <1>1, Constants DEF ErrorsAreReal, AnswerIsRight
<1> QED
  BY <1>1, <1>2, Constants DEF SelectInv
-----------------------------------------------------------------------------
(* The theorems. *)

\* A query begins with the rows of its first table.
LEMMA InitSelectInv == SelectInit => SelectInv
<1> SUFFICES ASSUME SelectInit PROVE SelectInv
  OBVIOUS
<1>1. /\ Given /\ joined = 1 /\ stage = "join" /\ tuples = [r \in DOMAIN RowsOf(1) |-> <<r>>]
      /\ found = <<>> /\ cur = 1 /\ row = 1 /\ matched = FALSE
  BY DEF SelectInit, Given
<1>2. N \in Nat \ {0} /\ 1 \in 1 .. N /\ DOMAIN RowsOf(1) = 1 .. Len(RowsOf(1)) /\ Len(RowsOf(1)) \in Nat
  BY <1>1, Loaded
<1>3. \A x : x \in Combinations(1) <=> \E r \in DOMAIN RowsOf(1) : x = <<r>>
  BY <1>1, FirstCombinations
<1>4. DOMAIN tuples = DOMAIN RowsOf(1) /\ \A r \in DOMAIN tuples : tuples[r] = <<r>> /\ r \in Nat
  BY <1>1, <1>2
<1>5. Lists(tuples, Combinations(1))
  <2>1. tuples \in [1 .. Len(RowsOf(1)) -> Combinations(1)]
    BY <1>1, <1>2, <1>3
  <2>2. tuples \in Seq(Combinations(1))
    BY <1>2, <2>1, SeqDef
  <2> QED
    BY <1>3, <1>4, <2>2 DEF Lists
<1>6. Increasing(tuples)
  <2> SUFFICES ASSUME NEW m \in DOMAIN tuples, NEW n \in DOMAIN tuples, m < n
               PROVE  RowsLess(tuples[m], tuples[n])
    BY DEF Increasing
  <2>1. 1 \in DOMAIN <<m>> /\ <<m>>[1] < <<n>>[1] /\ 1 .. 1 - 1 = {}
    BY <1>4
  <2> QED
    BY <1>4, <2>1 DEF RowsLess
<1>7. Looping
  BY <1>1, <1>2, <1>5, FreshLoop DEF Begun, Lists
<1>8. \A i \in 2 .. 1 : ~ OnFails(i)
  OBVIOUS
<1>9. Combining
  BY <1>1, <1>5, <1>6, <1>7, <1>8 DEF Combining, Looping
<1>10. AnswerIsRight /\ ErrorsAreReal
  BY <1>1 DEF AnswerIsRight, ErrorsAreReal
<1> QED
  BY <1>1, <1>2, <1>9, <1>10 DEF SelectInv

\* A step in which nothing happens.
LEMMA UnchangedSelectInv == ASSUME SelectInv, UNCHANGED vars PROVE SelectInv'
<1> USE DEF vars, loop, sort
<1>1. Given' = Given /\ N' = N /\ joined' = joined
  BY Constants
<1>2. JoinLoop' = JoinLoop /\ FilterLoop' = FilterLoop
  BY DEF JoinLoop, FilterLoop, Passed, Selected, Where, On, Bindings, RowsOf, Combinations
<1>3. Combining' = Combining
  BY <1>1, <1>2, Constants DEF Combining, Lists, Increasing, RowsLess
<1>4. Inserting' = Inserting /\ Sorting' = Sorting
  BY Constants DEF Inserting, Sorting, Lists, Sorted, RowsLess
<1>5. Limited' = Limited /\ Checked' = Checked
  BY Constants DEF Limited, Checked
<1>6. AnswerIsRight' = AnswerIsRight
  BY DEF AnswerIsRight, Selected, Combinations, Where, On, Bindings, RowsOf, Precedes, RowsLess,
         At, Projection, Slot, Slots
<1>7. ErrorsAreReal' = ErrorsAreReal
  BY Constants DEF ErrorsAreReal
<1>8. /\ Lists(tuples, Selected)' = Lists(tuples, Selected) /\ Increasing(tuples)' = Increasing(tuples)
      /\ Sorted(tuples)' = Sorted(tuples) /\ OrderFails' = OrderFails
  BY Constants DEF Lists, Increasing, Sorted, RowsLess
<1> QED
  BY <1>1, <1>3, <1>4, <1>5, <1>6, <1>7, <1>8 DEF SelectInv

LEMMA StepSelectInv == SelectInv /\ [SelectNext]_vars => SelectInv'
<1> SUFFICES ASSUME SelectInv, [SelectNext]_vars PROVE SelectInv'
  OBVIOUS
<1>1. CASE TryRow       BY <1>1, TryRowStep
<1>2. CASE NextTuple    BY <1>2, NextTupleStep
<1>3. CASE EndJoin      BY <1>3, EndJoinStep
<1>4. CASE JoinError    BY <1>4, JoinErrorStep
<1>5. CASE Filter       BY <1>5, FilterStep
<1>6. CASE EndFilter    BY <1>6, EndFilterStep
<1>7. CASE FilterError  BY <1>7, FilterErrorStep
<1>8. CASE StartSort    BY <1>8, StartSortStep
<1>9. CASE OrderError   BY <1>9, OrderErrorStep
<1>10. CASE Shift       BY <1>10, ShiftStep
<1>11. CASE Place       BY <1>11, PlaceStep
<1>12. CASE EndSort     BY <1>12, EndSortStep
<1>13. CASE Limit       BY <1>13, LimitStep
<1>14. CASE Project     BY <1>14, ProjectStep
<1>15. CASE ProjectError BY <1>15, ProjectErrorStep
<1>16. CASE UNCHANGED vars
  BY <1>16, UnchangedSelectInv
<1> QED
  BY <1>1, <1>2, <1>3, <1>4, <1>5, <1>6, <1>7, <1>8, <1>9, <1>10, <1>11, <1>12,
     <1>13, <1>14, <1>15, <1>16 DEF SelectNext

\* A SELECT holds to the invariant: exec_select's loops have at every turn
\* found just the combinations they have passed.
THEOREM SelectInvariant == SelectSpec => []SelectInv
BY InitSelectInv, StepSelectInv, PTL DEF SelectSpec

\* Nested loops, padding, insertion sort and cutting off compute what the
\* query means, for every query and all tables.
THEOREM AnswersWhatIsMeant == SelectSpec => []AnswerIsRight
<1>1. SelectInv => AnswerIsRight
  BY DEF SelectInv
<1> QED
  BY <1>1, SelectInvariant, PTL

\* A SELECT fails exactly if ON or WHERE fails for a combination that is
\* looked at or a reference does not resolve: for any expressions, whatever
\* their evaluation does.
THEOREM ErrorsExactlyWhenDue == SelectSpec => []ErrorsAreReal
<1>1. SelectInv => ErrorsAreReal
  BY DEF SelectInv
<1> QED
  BY <1>1, SelectInvariant, PTL
=============================================================================
