--------------------------- MODULE Engine_proofs ---------------------------
(***************************************************************************)
(* Proofs about Engine, for any number of handles, any schema, statements  *)
(* and start rows: the statements' locking is that of TableLocks, what a   *)
(* statement loaded stays current until it unlocks, every statement is     *)
(* atomic, crashes and I/O errors included, and INSERT, UPDATE and DELETE  *)
(* make good rows of good rows.                                            *)
(***************************************************************************)
EXTENDS Engine, SequenceTheorems, FiniteSetTheorems, TLAPS

(* What INSERT, UPDATE and DELETE make of good rows. *)

\* Rows a table may hold: typed, fitting its schema, each key once.
Good(t, rows) == /\ rows \in Seq(Seq(Value))
                 /\ \A i \in DOMAIN rows : Fits(t, rows[i])
                 /\ KeysApart(t, rows)

\* A statement that writes, as the parser makes them.
Writer(s) ==
    /\ IsWrite(s) /\ s.table \in Table
    /\ s.op = "INSERT" => s.cols \in Seq(Nat) /\ s.rows \in Seq(Seq(Value))
    /\ s.op = "UPDATE" => s.set \in Seq([col : Nat, value : Value])
----------------------------------------------------------------------------
\* A function on 1 .. n is a sequence.
LEMMA Sequence ==
    ASSUME NEW S, NEW n \in Nat, NEW f \in [1 .. n -> S]
    PROVE  f \in Seq(S) /\ Len(f) = n /\ DOMAIN f = 1 .. n
BY SeqDef

\* What is in a sequence is of its type.
LEMMA Element ==
    ASSUME NEW S, NEW q \in Seq(S), NEW i \in DOMAIN q
    PROVE  q[i] \in S
OBVIOUS
----------------------------------------------------------------------------
(* Choosing rows by their positions. *)

\* Any number up to their count is the rank of one of finitely many positions.
LEMMA NthRanks ==
    ASSUME NEW n \in Nat, NEW K \in SUBSET (1 .. n), NEW k \in 1 .. Cardinality(K)
    PROVE  Nth(K, k) \in K /\ Cardinality({j \in K : j <= Nth(K, k)}) = k
<1> DEFINE Upto(i) == {j \in K : j <= i}
           rank == [i \in K |-> Cardinality(Upto(i))]
           size == Cardinality(K)
<1>1. IsFiniteSet(K) /\ size \in Nat
    <2>1. IsFiniteSet(1 .. n)
        BY FS_Interval
    <2>2. IsFiniteSet(K)
        BY <2>1, FS_Subset
    <2>3. QED
        BY <2>2, FS_CardinalityType
<1>2. ASSUME NEW i \in K PROVE Cardinality(Upto(i)) \in 1 .. size
    <2>1. Upto(i) \in SUBSET K /\ i \in Upto(i)
        OBVIOUS
    <2>2. IsFiniteSet(Upto(i)) /\ Cardinality(Upto(i)) <= size
        BY <1>1, <2>1, FS_Subset
    <2>3. Cardinality(Upto(i)) \in Nat /\ Cardinality(Upto(i)) # 0
        BY <2>1, <2>2, FS_CardinalityType, FS_EmptySet
    <2>4. QED
        BY <1>1, <2>2, <2>3
<1>3. ASSUME NEW i \in K, NEW j \in K, i < j PROVE Cardinality(Upto(i)) # Cardinality(Upto(j))
    <2>1. Upto(i) \in SUBSET Upto(j) /\ j \in Upto(j) /\ j \notin Upto(i)
        <3>1. \A m \in K : m \in Int
            OBVIOUS
        <3>2. \A m \in K : m <= i => m <= j
            BY <1>3, <3>1
        <3>3. j <= j /\ ~ (j <= i)
            BY <1>3, <3>1
        <3>4. QED
            BY <3>2, <3>3
    <2>2. IsFiniteSet(Upto(j))
        <3>1. Upto(j) \in SUBSET K
            OBVIOUS
        <3>2. QED
            BY <1>1, <3>1, FS_Subset
    <2>3. Cardinality(Upto(j)) = Cardinality(Upto(i)) => Upto(j) = Upto(i)
        BY <2>1, <2>2, FS_Subset
    <2>4. QED
        BY <2>1, <2>3
<1>4. \A i, j \in K : rank[i] = rank[j] => i = j
    <2>1. \A i, j \in K : i < j \/ j < i \/ i = j
        OBVIOUS
    <2> HIDE DEF Upto
    <2>2. QED
        BY <1>3, <2>1
<1>5. rank \in Injection(K, 1 .. size)
    <2> HIDE DEF Upto, size
    <2>1. rank \in [K -> 1 .. size]
        BY <1>2
    <2>2. QED
        BY <1>4, <2>1 DEF Injection, IsInjective
<1>6. IsFiniteSet(1 .. size) /\ Cardinality(1 .. size) = size
    BY <1>1, FS_Interval
<1>7. rank \in Surjection(K, 1 .. size)
    <2> HIDE DEF rank, size
    <2>1. Cardinality(K) = size
        BY DEF size
    <2>2. QED
        BY <1>5, <1>6, <2>1, FS_Injection
<1>8. PICK i \in K : Cardinality(Upto(i)) = k
    <2> HIDE DEF Upto
    <2>1. \E i \in K : rank[i] = k
        BY <1>7 DEF Surjection
    <2>2. QED
        BY <2>1
<1>9. QED
    BY <1>8 DEF Nth

\* The rows at some positions are among the rows, and no position is used twice.
LEMMA RowsAtPositions ==
    ASSUME NEW S, NEW rows \in Seq(S), NEW K \in SUBSET DOMAIN rows
    PROVE  /\ RowsAt(rows, K) \in Seq(S)
           /\ DOMAIN RowsAt(rows, K) = 1 .. Cardinality(K)
           /\ \A k \in 1 .. Cardinality(K) :
                Nth(K, k) \in K /\ RowsAt(rows, K)[k] = rows[Nth(K, k)]
           /\ \A k, l \in 1 .. Cardinality(K) : Nth(K, k) = Nth(K, l) => k = l
<1>1. Len(rows) \in Nat /\ DOMAIN rows = 1 .. Len(rows) /\ \A i \in DOMAIN rows : rows[i] \in S
    OBVIOUS
<1>2. Cardinality(K) \in Nat
    <2>1. IsFiniteSet(DOMAIN rows)
        BY <1>1, FS_Interval
    <2>2. IsFiniteSet(K)
        BY <2>1, FS_Subset
    <2>3. QED
        BY <2>2, FS_CardinalityType
<1>3. \A k \in 1 .. Cardinality(K) :
        Nth(K, k) \in K /\ Cardinality({j \in K : j <= Nth(K, k)}) = k
    BY <1>1, NthRanks
<1>4. \A k, l \in 1 .. Cardinality(K) : Nth(K, k) = Nth(K, l) => k = l
    BY <1>3
<1>5. RowsAt(rows, K) \in [1 .. Cardinality(K) -> S]
    BY <1>1, <1>3 DEF RowsAt
<1>6. RowsAt(rows, K) \in Seq(S)
    BY <1>2, <1>5, SeqDef
<1>7. QED
    BY <1>3, <1>4, <1>6 DEF RowsAt
----------------------------------------------------------------------------
(* Reading back what was written. *)

\* Equality of values: of no NULL, symmetric, and of any other with itself.
LEMMA SameValues ==
    ASSUME NEW a \in Value, NEW b \in Value
    PROVE  /\ Same(a, b) => ~ IsNull(a) /\ ~ IsNull(b) /\ Same(b, a)
           /\ ~ IsNull(a) => Same(a, a)
BY DEF Same, Compare, Comparable, Holds

\* A stored value is read back as it is, but for '' as NULL.
LEMMA ParsedValues ==
    ASSUME NEW a \in Value
    PROVE  /\ ParsedValue(a) \in Value
           /\ ~ IsNull(ParsedValue(a)) => ParsedValue(a) = a
           /\ ParsedValue(a).type = a.type \/ (a.type = "TEXT" /\ IsNull(ParsedValue(a)))
BY DEF ParsedValue, EmptyText, Null, Value, Type, IsNull

\* Each row that storage_load returns is one that was written, and no written
\* row is returned twice.
Lines(rows) == {i \in DOMAIN rows : ~ IsBlankLine(rows[i])}

\* What is read back is a choice of the rows that were written.
LEMMA ParsedLines ==
    ASSUME NEW rows \in Seq(Seq(Value))
    PROVE  /\ Parsed(rows) \in Seq(Seq(Value))
           /\ \A k \in DOMAIN Parsed(rows) :
                /\ Nth(Lines(rows), k) \in DOMAIN rows
                /\ Parsed(rows)[k] = ParsedRow(rows[Nth(Lines(rows), k)])
           /\ \A k, l \in DOMAIN Parsed(rows) :
                Nth(Lines(rows), k) = Nth(Lines(rows), l) => k = l
<1> DEFINE lines == RowsAt(rows, Lines(rows))
<1>1. Lines(rows) \in SUBSET DOMAIN rows
    BY DEF Lines
<1>2. /\ lines \in Seq(Seq(Value))
      /\ DOMAIN lines = 1 .. Cardinality(Lines(rows))
      /\ \A k \in DOMAIN lines : /\ Nth(Lines(rows), k) \in DOMAIN rows
                                 /\ lines[k] = rows[Nth(Lines(rows), k)]
      /\ \A k, l \in DOMAIN lines : Nth(Lines(rows), k) = Nth(Lines(rows), l) => k = l
    <2> DEFINE K == Lines(rows)
    <2>1. K \in SUBSET DOMAIN rows
        BY <1>1
    <2> HIDE DEF K
    <2>2. /\ RowsAt(rows, K) \in Seq(Seq(Value))
          /\ DOMAIN RowsAt(rows, K) = 1 .. Cardinality(K)
          /\ \A k \in 1 .. Cardinality(K) :
               Nth(K, k) \in K /\ RowsAt(rows, K)[k] = rows[Nth(K, k)]
          /\ \A k, l \in 1 .. Cardinality(K) : Nth(K, k) = Nth(K, l) => k = l
        BY <2>1, RowsAtPositions
    <2>3. K = Lines(rows)
        BY DEF K
    <2>4. QED
        BY <2>1, <2>2, <2>3
<1>3. Parsed(rows) = [i \in DOMAIN lines |-> ParsedRow(lines[i])]
    BY DEF Parsed, Lines
<1> HIDE DEF lines
<1>4. ASSUME NEW row \in Seq(Value) PROVE ParsedRow(row) \in Seq(Value)
    <2>1. \A c \in DOMAIN row : ParsedValue(row[c]) \in Value
        BY ParsedValues
    <2>2. Len(row) \in Nat /\ DOMAIN row = 1 .. Len(row)
        OBVIOUS
    <2>3. ParsedRow(row) \in [1 .. Len(row) -> Value]
        BY <2>1, <2>2 DEF ParsedRow
    <2>4. QED
        BY SMTT(40), <2>2, <2>3, SeqDef
<1>5. Parsed(rows) \in Seq(Seq(Value))
    <2>1. Len(lines) \in Nat /\ DOMAIN lines = 1 .. Len(lines)
        BY <1>2
    <2>2. \A k \in DOMAIN lines : lines[k] \in Seq(Value)
        BY <1>2
    <2>3. Parsed(rows) \in [1 .. Len(lines) -> Seq(Value)]
        BY <1>3, <1>4, <2>1, <2>2
    <2>4. QED
        BY <2>1, <2>3, SeqDef
<1>6. QED
    BY <1>2, <1>3, <1>5

\* Good rows are read back as good rows.
LEMMA ParsedGood ==
    ASSUME NEW t \in Table, NEW rows, Good(t, rows)
    PROVE  Good(t, Parsed(rows))
<1> DEFINE line(k) == Nth(Lines(rows), k)
<1>1. rows \in Seq(Seq(Value))
    BY DEF Good
<1>2. /\ Parsed(rows) \in Seq(Seq(Value))
      /\ \A k \in DOMAIN Parsed(rows) :
           line(k) \in DOMAIN rows /\ Parsed(rows)[k] = ParsedRow(rows[line(k)])
      /\ \A k, l \in DOMAIN Parsed(rows) : line(k) = line(l) => k = l
    BY <1>1, ParsedLines
<1> HIDE DEF line
<1>3. ASSUME NEW k \in DOMAIN Parsed(rows), NEW c \in DOMAIN Schema[t]
      PROVE  /\ rows[line(k)][c] \in Value
             /\ Parsed(rows)[k][c] = ParsedValue(rows[line(k)][c])
    <2>1. c \in DOMAIN rows[line(k)]
        BY <1>2 DEF Good, Fits
    <2>2. rows[line(k)] \in Seq(Value)
        BY <1>1, <1>2
    <2>3. QED
        BY <1>2, <2>1, <2>2 DEF ParsedRow
<1>4. ASSUME NEW k \in DOMAIN Parsed(rows) PROVE Fits(t, Parsed(rows)[k])
    <2>1. DOMAIN Parsed(rows)[k] = DOMAIN Schema[t]
        BY <1>2 DEF Good, Fits, ParsedRow
    <2>2. ASSUME NEW c \in DOMAIN Schema[t]
          PROVE  LET col == Schema[t][c]
                     v == Parsed(rows)[k][c]
                 IN  v.type = col.type \/ (IsNull(v) /\ (col.nullable \/ col.type = "TEXT"))
        <3>1. LET col == Schema[t][c]
                  v == rows[line(k)][c]
              IN  v.type = col.type \/ (IsNull(v) /\ (col.nullable \/ col.type = "TEXT"))
            BY <1>2 DEF Good, Fits
        <3>2. LET v == rows[line(k)][c] IN
              /\ ParsedValue(v).type = v.type \/ (v.type = "TEXT" /\ IsNull(ParsedValue(v)))
              /\ Parsed(rows)[k][c] = ParsedValue(v)
            BY <1>3, ParsedValues
        <3>3. QED
            BY <3>1, <3>2 DEF IsNull
    <2>3. QED
        BY <2>1, <2>2 DEF Fits
<1>5. ASSUME NEW c \in DOMAIN Schema[t], Schema[t][c].pk,
             NEW k \in DOMAIN Parsed(rows), NEW l \in DOMAIN Parsed(rows),
             Same(Parsed(rows)[k][c], Parsed(rows)[l][c])
      PROVE  k = l
    <2>1. Parsed(rows)[k][c] = rows[line(k)][c] /\ Parsed(rows)[l][c] = rows[line(l)][c]
        BY <1>3, <1>5, SameValues, ParsedValues
    <2>2. line(k) = line(l)
        BY <1>2, <1>5, <2>1 DEF Good, KeysApart
    <2>3. QED
        BY <1>2, <2>2
<1>6. QED
    BY <1>2, <1>4, <1>5 DEF Good, KeysApart
----------------------------------------------------------------------------
(* INSERT. *)

\* coerce_and_validate stores a value of the column's type, or a NULL the
\* column allows.
LEMMA CoercedValues ==
    ASSUME NEW col \in Column, NEW v \in Value
    PROVE  /\ Coerced(col, v) \in Value
           /\ ~ Refused(col, v) =>
                \/ Coerced(col, v).type = col.type
                \/ IsNull(Coerced(col, v)) /\ col.nullable
BY DEF Coerced, Refused, IsNull, Value, Type, Column

\* The columns of a table are a sequence.
LEMMA Columns ==
    ASSUME NEW t \in Table
    PROVE  /\ Len(Schema[t]) \in Nat /\ DOMAIN Schema[t] = 1 .. Len(Schema[t])
           /\ \A c \in DOMAIN Schema[t] : Schema[t][c] \in Column
<1>1. Schema[t] \in Seq(Column)
    BY DmlAssumption
<1>2. QED
    BY <1>1

\* An INSERT gives each column a value.
LEMMA GivenValues ==
    ASSUME NEW s, Writer(s), s.op = "INSERT", ~ Malformed(s),
           NEW r \in DOMAIN s.rows, NEW c \in DOMAIN Schema[s.table]
    PROVE  Given(s, r, c) \in Value
<1>1. s.rows[r] \in Seq(Value) /\ s.cols \in Seq(Nat) /\ s.table \in Table
    BY DEF Writer
<1>2. CASE \E i \in DOMAIN Target(s) : Target(s)[i] = c
    <2>1. PICK i \in DOMAIN Target(s) : i = CHOOSE k \in DOMAIN Target(s) : Target(s)[k] = c
        BY <1>2
    <2>2. Given(s, r, c) = s.rows[r][i]
        BY <1>2, <2>1 DEF Given
    <2>3. DOMAIN Target(s) = DOMAIN s.rows[r]
        <3>1. CASE s.cols = <<>>
            <4>1. Len(s.rows[r]) = Len(Schema[s.table])
                BY <3>1 DEF Malformed
            <4>2. DOMAIN Target(s) = DOMAIN Schema[s.table]
                BY <3>1 DEF Target
            <4>3. QED
                BY <1>1, <4>1, <4>2, Columns
        <3>2. CASE s.cols # <<>>
            BY <1>1, <3>2 DEF Malformed, Target
        <3>3. QED
            BY <3>1, <3>2
    <2>4. s.rows[r][i] \in Value
        BY <1>1, <2>1, <2>3, Element
    <2>5. QED
        BY <2>2, <2>4
<1>3. CASE ~ \E i \in DOMAIN Target(s) : Target(s)[i] = c
    <2>1. Given(s, r, c) = Null
        BY <1>3 DEF Given
    <2>2. QED
        BY <2>1 DEF Null, Value
<1>4. QED
    BY <1>2, <1>3

\* A new row has the values given, coerced, one per column.
LEMMA NewRowValues ==
    ASSUME NEW s, Writer(s), s.op = "INSERT", ~ Malformed(s), NEW r \in DOMAIN s.rows
    PROVE  /\ NewRow(s, r) \in Seq(Value)
           /\ DOMAIN NewRow(s, r) = DOMAIN Schema[s.table]
           /\ \A c \in DOMAIN Schema[s.table] :
                /\ NewRow(s, r)[c] = Coerced(Schema[s.table][c], Given(s, r, c))
                /\ NewRow(s, r)[c] \in Value
<1>1. s.table \in Table
    BY DEF Writer
<1>2. \A c \in DOMAIN Schema[s.table] :
        Given(s, r, c) \in Value /\ Coerced(Schema[s.table][c], Given(s, r, c)) \in Value
    BY <1>1, GivenValues, CoercedValues, Columns
<1>3. NewRow(s, r) \in [1 .. Len(Schema[s.table]) -> Value] /\ Len(Schema[s.table]) \in Nat
    BY <1>1, <1>2, Columns DEF NewRow
<1>4. NewRow(s, r) \in Seq(Value)
    BY <1>3, SeqDef
<1>5. QED
    BY <1>2, <1>4 DEF NewRow

\* The rows an INSERT writes are those it loads, then the new ones.
LEMMA Inserted ==
    ASSUME NEW s, Writer(s), s.op = "INSERT", ~ Malformed(s),
           NEW rows \in Seq(Seq(Value))
    PROVE  /\ rows \o NewRows(s) \in Seq(Seq(Value))
           /\ \A i \in DOMAIN (rows \o NewRows(s)) :
                \/ i \in DOMAIN rows /\ (rows \o NewRows(s))[i] = rows[i]
                \/ /\ i - Len(rows) \in DOMAIN s.rows
                   /\ i \notin DOMAIN rows
                   /\ (rows \o NewRows(s))[i] = NewRow(s, i - Len(rows))
<1>1. s.rows \in Seq(Seq(Value))
    BY DEF Writer
<1>2. NewRows(s) \in Seq(Seq(Value)) /\ Len(NewRows(s)) = Len(s.rows)
    <2>1. Len(s.rows) \in Nat /\ DOMAIN s.rows = 1 .. Len(s.rows)
        BY <1>1
    <2>2. NewRows(s) \in [1 .. Len(s.rows) -> Seq(Value)]
        BY <2>1, NewRowValues DEF NewRows
    <2>3. QED
        BY <2>1, <2>2, Sequence
<1>3. \A r \in DOMAIN s.rows : NewRows(s)[r] = NewRow(s, r)
    BY DEF NewRows
<1> DEFINE all == rows \o NewRows(s)
<1>4. /\ all \in Seq(Seq(Value)) /\ Len(all) = Len(rows) + Len(s.rows)
      /\ \A i \in 1 .. Len(rows) + Len(s.rows) :
            all[i] = IF i <= Len(rows) THEN rows[i] ELSE NewRows(s)[i - Len(rows)]
    <2> DEFINE new == NewRows(s)
    <2>1. new \in Seq(Seq(Value)) /\ Len(new) = Len(s.rows)
        BY <1>2
    <2> HIDE DEF new
    <2>2. /\ rows \o new \in Seq(Seq(Value)) /\ Len(rows \o new) = Len(rows) + Len(new)
          /\ \A i \in 1 .. Len(rows) + Len(new) :
               (rows \o new)[i] = IF i <= Len(rows) THEN rows[i] ELSE new[i - Len(rows)]
        BY ZenonT(60), <2>1, ConcatProperties
    <2>3. QED
        BY <2>1, <2>2 DEF new
<1> HIDE DEF all
<1>5. /\ Len(rows) \in Nat /\ DOMAIN rows = 1 .. Len(rows)
      /\ Len(s.rows) \in Nat /\ DOMAIN s.rows = 1 .. Len(s.rows)
      /\ DOMAIN all = 1 .. Len(rows) + Len(s.rows)
    BY <1>1, <1>4
<1>6. ASSUME NEW i \in DOMAIN all
      PROVE  \/ i \in DOMAIN rows /\ all[i] = rows[i]
             \/ /\ i - Len(rows) \in DOMAIN s.rows
                /\ i \notin DOMAIN rows
                /\ all[i] = NewRow(s, i - Len(rows))
    <2>1. i \in 1 .. Len(rows) + Len(s.rows)
        BY <1>5
    <2>2. CASE i <= Len(rows)
        BY <1>4, <1>5, <2>1, <2>2
    <2>3. CASE ~ (i <= Len(rows))
        <3>1. i - Len(rows) \in 1 .. Len(s.rows) /\ i \notin 1 .. Len(rows)
            BY <1>5, <2>1, <2>3
        <3>2. all[i] = NewRows(s)[i - Len(rows)]
            BY <1>4, <2>1, <2>3
        <3>3. QED
            BY <1>3, <1>5, <3>1, <3>2
    <2>4. QED
        BY <2>2, <2>3
<1>7. QED
    BY <1>4, <1>6 DEF all

\* An INSERT that does not fail leaves good rows.
LEMMA InsertGood ==
    ASSUME NEW s, Writer(s), s.op = "INSERT", ~ Malformed(s),
           NEW contents, Good(s.table, contents[0]), ~ InsertFails(s, contents)
    PROVE  Good(s.table, contents[0] \o NewRows(s))
<1> DEFINE t == s.table
           rows == contents[0]
           all == rows \o NewRows(s)
           new(i) == i - Len(rows)
<1>1. t \in Table /\ rows \in Seq(Seq(Value))
    BY DEF Writer, Good
<1>2. /\ all \in Seq(Seq(Value))
      /\ \A i \in DOMAIN all :
           \/ i \in DOMAIN rows /\ all[i] = rows[i]
           \/ new(i) \in DOMAIN s.rows /\ i \notin DOMAIN rows /\ all[i] = NewRow(s, new(i))
    BY <1>1, Inserted
<1>3. /\ Len(rows) \in Nat /\ DOMAIN rows = 1 .. Len(rows)
      /\ Len(all) \in Nat /\ DOMAIN all = 1 .. Len(all)
      /\ \A r \in DOMAIN s.rows : r \in Nat
    <2>1. s.rows \in Seq(Seq(Value))
        BY DEF Writer
    <2>2. QED
        BY <1>1, <1>2, <2>1
<1>4. KeysApart(t, rows) /\ \A i \in DOMAIN rows : Fits(t, rows[i])
    BY DEF Good
<1> HIDE DEF all, rows
<1>5. ASSUME NEW i \in DOMAIN all PROVE Fits(t, all[i])
    <2>1. CASE i \in DOMAIN rows /\ all[i] = rows[i]
        BY <1>4, <2>1
    <2>2. CASE new(i) \in DOMAIN s.rows /\ all[i] = NewRow(s, new(i))
        <3>1. /\ DOMAIN all[i] = DOMAIN Schema[t]
              /\ \A c \in DOMAIN Schema[t] :
                    all[i][c] = Coerced(Schema[t][c], Given(s, new(i), c))
            BY <2>2, NewRowValues
        <3>2. \A c \in DOMAIN Schema[t] : ~ Refused(Schema[t][c], Given(s, new(i), c))
            BY <2>2 DEF InsertFails
        <3>3. \A c \in DOMAIN Schema[t] :
                 \/ all[i][c].type = Schema[t][c].type
                 \/ IsNull(all[i][c]) /\ Schema[t][c].nullable
            BY <1>1, <2>2, <3>1, <3>2, CoercedValues, GivenValues, Columns
        <3>4. QED
            BY <3>1, <3>3 DEF Fits
    <2>3. QED
        BY <1>2, <2>1, <2>2
\* The later of two rows with the same key is a new one, and in conflict.
<1>6. ASSUME NEW c \in DOMAIN Schema[t], Schema[t][c].pk,
             NEW i \in DOMAIN all, NEW j \in DOMAIN all, i < j, Same(all[i][c], all[j][c])
      PROVE  FALSE
    <2>1. /\ all[i][c] \in Value /\ all[j][c] \in Value
        <3>1. all[i] \in Seq(Value) /\ all[j] \in Seq(Value)
            BY <1>2
        <3>2. c \in DOMAIN all[i] /\ c \in DOMAIN all[j]
            BY <1>5 DEF Fits
        <3>3. QED
            BY <3>1, <3>2
    <2>2. ~ IsNull(all[j][c])
        BY <1>6, <2>1, SameValues
    <2>3. CASE j \in DOMAIN rows /\ all[j] = rows[j]
        <3>1. i \in DOMAIN rows
            BY <1>3, <1>6, <2>3
        <3>2. all[i] = rows[i]
            BY <1>2, <3>1
        <3>3. QED
            <4>1. i = j
                BY <1>4, <1>6, <2>3, <3>1, <3>2 DEF KeysApart
            <4>2. QED
                BY <1>3, <1>6, <4>1
    <2>4. CASE new(j) \in DOMAIN s.rows /\ all[j] = NewRow(s, new(j))
        <3>1. ~ InsertConflict(s, rows, new(j), c)
            BY <2>2, <2>4 DEF InsertFails, rows
        <3>2. CASE i \in DOMAIN rows /\ all[i] = rows[i]
            <4>1. Exists(rows, c, NewRow(s, new(j))[c])
                BY <1>6, <2>4, <3>2 DEF Exists
            <4>2. QED
                BY <1>6, <3>1, <4>1 DEF InsertConflict
        <3>3. CASE new(i) \in DOMAIN s.rows /\ all[i] = NewRow(s, new(i))
            <4>1. new(i) \in 1 .. new(j) - 1
                <5>1. s.rows \in Seq(Seq(Value))
                    BY DEF Writer
                <5>2. i \in Nat /\ j \in Nat /\ new(i) \in Nat /\ 1 <= new(i)
                    BY <1>3, <3>3, <5>1
                <5>3. QED
                    BY <1>3, <1>6, <5>2
            <4>2. QED
                BY <1>6, <2>4, <3>1, <3>3, <4>1 DEF InsertConflict
        <3>4. QED
            BY <1>2, <3>2, <3>3
    <2>5. QED
        BY <1>2, <2>3, <2>4
<1>7. KeysApart(t, all)
    <2>1. \A i, j \in DOMAIN all : i < j \/ j < i \/ i = j
        BY <1>3
    <2>2. \A c \in DOMAIN Schema[t], i, j \in DOMAIN all :
            Same(all[i][c], all[j][c]) => Same(all[j][c], all[i][c])
        <3>1. \A c \in DOMAIN Schema[t], i \in DOMAIN all : all[i][c] \in Value
            BY <1>2, <1>5 DEF Fits
        <3>2. QED
            BY <3>1, SameValues
    <2>3. QED
        BY <1>6, <2>1, <2>2 DEF KeysApart
<1>8. QED
    BY <1>2, <1>5, <1>7 DEF Good, all, rows
----------------------------------------------------------------------------
(* DELETE. *)

\* Some of the rows of good rows are good.
LEMMA FewerGood ==
    ASSUME NEW t \in Table, NEW rows, Good(t, rows), NEW K \in SUBSET DOMAIN rows
    PROVE  Good(t, RowsAt(rows, K))
<1> DEFINE kept == RowsAt(rows, K)
<1>1. rows \in Seq(Seq(Value))
    BY DEF Good
<1>2. /\ kept \in Seq(Seq(Value))
      /\ \A k \in DOMAIN kept : Nth(K, k) \in DOMAIN rows /\ kept[k] = rows[Nth(K, k)]
      /\ \A k, l \in DOMAIN kept : Nth(K, k) = Nth(K, l) => k = l
    <2>1. /\ RowsAt(rows, K) \in Seq(Seq(Value))
          /\ DOMAIN RowsAt(rows, K) = 1 .. Cardinality(K)
          /\ \A k \in 1 .. Cardinality(K) :
               Nth(K, k) \in K /\ RowsAt(rows, K)[k] = rows[Nth(K, k)]
          /\ \A k, l \in 1 .. Cardinality(K) : Nth(K, k) = Nth(K, l) => k = l
        BY <1>1, RowsAtPositions
    <2>2. QED
        BY <2>1
<1> HIDE DEF kept
<1>3. \A k \in DOMAIN kept : Fits(t, kept[k])
    BY <1>2 DEF Good
<1>4. KeysApart(t, kept)
    BY <1>2 DEF Good, KeysApart
<1>5. QED
    BY <1>2, <1>3, <1>4 DEF Good, kept
----------------------------------------------------------------------------
(* UPDATE. *)

\* The assignment to column c that wins: the last one.
Assignments(s, c) == {i \in DOMAIN s.set : s.set[i].col = c}
Last(s, c) == CHOOSE i \in Assignments(s, c) : \A j \in Assignments(s, c) : j <= i

\* Of several assignments to a column one is the last.
LEMMA LastAssignment ==
    ASSUME NEW s, Writer(s), s.op = "UPDATE", NEW c, Assignments(s, c) # {}
    PROVE  Last(s, c) \in DOMAIN s.set /\ s.set[Last(s, c)].col = c
<1> DEFINE K == Assignments(s, c)
           n == Len(s.set)
           last == Nth(K, Cardinality(K))
<1>1. n \in Nat /\ K \in SUBSET (1 .. n)
    BY DEF Writer, Assignments
<1>2. IsFiniteSet(K) /\ Cardinality(K) \in Nat /\ Cardinality(K) # 0
    <2>1. IsFiniteSet(1 .. n)
        BY <1>1, FS_Interval
    <2>2. IsFiniteSet(K)
        BY <1>1, <2>1, FS_Subset
    <2>3. QED
        BY <2>2, FS_CardinalityType, FS_EmptySet
<1> HIDE DEF K, n
<1>3. last \in K /\ Cardinality({j \in K : j <= last}) = Cardinality(K)
    <2>1. Cardinality(K) \in 1 .. Cardinality(K)
        BY <1>2
    <2>2. QED
        BY <1>1, <2>1, NthRanks
<1>4. {j \in K : j <= last} = K
    <2>1. {j \in K : j <= last} \in SUBSET K
        OBVIOUS
    <2>2. QED
        BY <1>2, <1>3, <2>1, FS_Subset
<1>5. \E i \in K : \A j \in K : j <= i
    BY <1>3, <1>4
<1>6. Last(s, c) \in K
    BY <1>5 DEF Last, K
<1>7. QED
    BY <1>6 DEF K, Assignments

\* An UPDATE assigns values to columns of its table.
LEMMA SetValues ==
    ASSUME NEW s, Writer(s), s.op = "UPDATE", ~ Malformed(s), NEW i \in DOMAIN s.set
    PROVE  /\ s.set[i].value \in Value /\ SetValue(s, i) \in Value
           /\ s.set[i].col \in DOMAIN Schema[s.table]
           /\ Schema[s.table][s.set[i].col] \in Column
<1>1. s.table \in Table /\ s.set[i] \in [col : Nat, value : Value]
    <2>1. s.table \in Table /\ s.set \in Seq([col : Nat, value : Value])
        BY DEF Writer
    <2>2. QED
        BY <2>1, Element
<1>2. s.set[i].col \in DOMAIN Schema[s.table]
    BY DEF Malformed
<1>3. Schema[s.table][s.set[i].col] \in Column
    BY <1>1, <1>2, Columns
<1>4. QED
    BY <1>1, <1>2, <1>3, CoercedValues DEF SetValue

\* Assigned columns get the last value assigned, the others keep theirs.
LEMMA UpdatedValues ==
    ASSUME NEW s, Writer(s), s.op = "UPDATE", ~ Malformed(s), NEW row \in Seq(Value)
    PROVE  /\ UpdatedRow(s, row) \in Seq(Value)
           /\ DOMAIN UpdatedRow(s, row) = DOMAIN row
           /\ \A c \in DOMAIN row :
                UpdatedRow(s, row)[c] = IF Assignments(s, c) = {} THEN row[c]
                                        ELSE SetValue(s, Last(s, c))
<1>1. UpdatedRow(s, row) = [c \in DOMAIN row |-> IF Assignments(s, c) = {} THEN row[c]
                                                 ELSE SetValue(s, Last(s, c))]
    BY DEF UpdatedRow, Assignments, Last
<1>2. Len(row) \in Nat /\ DOMAIN row = 1 .. Len(row) /\ \A c \in DOMAIN row : row[c] \in Value
    OBVIOUS
<1>3. UpdatedRow(s, row) \in [1 .. Len(row) -> Value]
    BY <1>1, <1>2, LastAssignment, SetValues
<1>4. QED
    BY <1>1, <1>2, <1>3, Sequence

\* Row i of an UPDATE gets a new value in column c.
Touched(s, rows, i, c) == Matches(s, rows[i]) /\ Assignments(s, c) # {}

\* An updated row keeps every value but those assigned to.
LEMMA Updated ==
    ASSUME NEW s, Writer(s), s.op = "UPDATE", ~ Malformed(s),
           NEW rows, Good(s.table, rows)
    PROVE  /\ UpdatedRows(s, rows) \in Seq(Seq(Value))
           /\ DOMAIN UpdatedRows(s, rows) = DOMAIN rows
           /\ \A i \in DOMAIN rows :
                /\ DOMAIN UpdatedRows(s, rows)[i] = DOMAIN Schema[s.table]
                /\ \A c \in DOMAIN Schema[s.table] :
                     /\ UpdatedRows(s, rows)[i][c] \in Value
                     /\ UpdatedRows(s, rows)[i][c] =
                            IF Touched(s, rows, i, c) THEN SetValue(s, Last(s, c)) ELSE rows[i][c]
<1> DEFINE all == UpdatedRows(s, rows)
<1>1. /\ rows \in Seq(Seq(Value)) /\ Len(rows) \in Nat /\ DOMAIN rows = 1 .. Len(rows)
      /\ \A i \in DOMAIN rows : rows[i] \in Seq(Value) /\ DOMAIN rows[i] = DOMAIN Schema[s.table]
    BY DEF Good, Fits
<1>2. all = [i \in DOMAIN rows |-> IF Matches(s, rows[i]) THEN UpdatedRow(s, rows[i]) ELSE rows[i]]
    BY DEF UpdatedRows
<1> HIDE DEF all
<1>3. ASSUME NEW i \in DOMAIN rows
      PROVE  /\ all[i] \in Seq(Value) /\ DOMAIN all[i] = DOMAIN Schema[s.table]
             /\ \A c \in DOMAIN Schema[s.table] :
                  all[i][c] = IF Touched(s, rows, i, c) THEN SetValue(s, Last(s, c)) ELSE rows[i][c]
    <2>1. CASE Matches(s, rows[i])
        <3>1. all[i] = UpdatedRow(s, rows[i])
            BY <1>2, <2>1
        <3>2. /\ rows[i] \in Seq(Value) /\ DOMAIN rows[i] = DOMAIN Schema[s.table]
            BY <1>1
        <3>3. /\ UpdatedRow(s, rows[i]) \in Seq(Value)
              /\ DOMAIN UpdatedRow(s, rows[i]) = DOMAIN rows[i]
              /\ \A c \in DOMAIN rows[i] :
                    UpdatedRow(s, rows[i])[c] = IF Assignments(s, c) = {} THEN rows[i][c]
                                                ELSE SetValue(s, Last(s, c))
            BY <3>2, UpdatedValues
        <3>4. QED
            BY <2>1, <3>1, <3>2, <3>3 DEF Touched
    <2>2. CASE ~ Matches(s, rows[i])
        BY <1>1, <1>2, <2>2 DEF Touched
    <2>3. QED
        BY <2>1, <2>2
<1>4. all \in Seq(Seq(Value)) /\ DOMAIN all = DOMAIN rows
    <2>1. all \in [1 .. Len(rows) -> Seq(Value)]
        BY <1>1, <1>2, <1>3
    <2>2. QED
        BY <1>1, <2>1, Sequence
<1>5. \A i \in DOMAIN rows, c \in DOMAIN Schema[s.table] : all[i][c] \in Value
    BY <1>3
<1>6. QED
    BY <1>3, <1>4, <1>5 DEF all

\* An UPDATE that does not fail leaves good rows: when two updated rows would
\* get the same key the later one finds the earlier, when an updated row gets
\* the key of one that is not, the first of them finds the other as it was.
LEMMA UpdateGood ==
    ASSUME NEW s, Writer(s), s.op = "UPDATE", ~ Malformed(s),
           NEW contents, Good(s.table, contents[0]), ~ UpdateFails(s, contents)
    PROVE  Good(s.table, UpdatedRows(s, contents[0]))
<1> DEFINE t == s.table
           rows == contents[0]
           all == UpdatedRows(s, rows)
<1>1. t \in Table /\ Good(t, rows)
    BY DEF Writer
<1>2. /\ all \in Seq(Seq(Value))
      /\ DOMAIN all = DOMAIN rows
      /\ \A i \in DOMAIN rows :
           /\ DOMAIN all[i] = DOMAIN Schema[t]
           /\ \A c \in DOMAIN Schema[t] :
                /\ all[i][c] \in Value
                /\ all[i][c] = IF Touched(s, rows, i, c) THEN SetValue(s, Last(s, c)) ELSE rows[i][c]
    BY <1>1, Updated
<1>3. \A i, j \in DOMAIN rows : i < j \/ j < i \/ i = j
    BY DEF Good
<1>a. \A i, j \in DOMAIN rows : i < j => i # j /\ ~ (j < i)
    BY DEF Good
\* The checks of exec_update on row i for the last assignment to c.
<1>4. ASSUME NEW i \in DOMAIN rows, NEW c \in DOMAIN Schema[t], Touched(s, rows, i, c)
      PROVE  LET v == s.set[Last(s, c)].value IN
             /\ v \in Value
             /\ all[i][c] = Coerced(Schema[t][c], v)
             /\ ~ Refused(Schema[t][c], v)
             /\ ~ IsNull(all[i][c]) /\ Schema[t][c].pk =>
                  \A o \in DOMAIN rows \ {i} : ~ Same(Current(s, rows, i, o)[c], all[i][c])
    <2>1. Last(s, c) \in DOMAIN s.set /\ s.set[Last(s, c)].col = c
        BY <1>4, LastAssignment DEF Touched
    <2>2. s.set[Last(s, c)].value \in Value
        BY <2>1, SetValues
    <2>3. all[i][c] = SetValue(s, Last(s, c)) /\ i \in Matched(s, rows)
        BY <1>2, <1>4 DEF Touched, Matched
    <2>4. /\ ~ Refused(Schema[t][c], s.set[Last(s, c)].value)
          /\ IsNull(all[i][c]) \/ ~ UpdateConflict(s, rows, i, Last(s, c))
        BY <2>1, <2>3 DEF UpdateFails
    <2>5. QED
        BY <2>1, <2>2, <2>3, <2>4 DEF SetValue, UpdateConflict
<1> HIDE DEF all, rows
<1>5. ASSUME NEW i \in DOMAIN all PROVE Fits(t, all[i])
    <2>1. ASSUME NEW c \in DOMAIN Schema[t], Touched(s, rows, i, c)
          PROVE  \/ all[i][c].type = Schema[t][c].type
                 \/ IsNull(all[i][c]) /\ Schema[t][c].nullable
        BY <1>1, <1>2, <1>4, <2>1, CoercedValues, Columns
    <2>2. ASSUME NEW c \in DOMAIN Schema[t], ~ Touched(s, rows, i, c)
          PROVE  \/ all[i][c].type = Schema[t][c].type
                 \/ IsNull(all[i][c]) /\ (Schema[t][c].nullable \/ Schema[t][c].type = "TEXT")
        BY <1>1, <1>2, <2>2 DEF Good, Fits
    <2>3. QED
        BY <1>2, <2>1, <2>2 DEF Fits
<1>6. ASSUME NEW c \in DOMAIN Schema[t], Schema[t][c].pk,
             NEW i \in DOMAIN all, NEW j \in DOMAIN all, i < j, Same(all[i][c], all[j][c])
      PROVE  FALSE
    <2>1. /\ ~ IsNull(all[i][c]) /\ ~ IsNull(all[j][c])
          /\ Same(all[j][c], all[i][c])
          /\ i \in DOMAIN rows /\ j \in DOMAIN rows /\ i # j /\ ~ (j < i)
        BY <1>2, <1>6, <1>a, SameValues
    <2>2. CASE Touched(s, rows, j, c)
        <3>1. Current(s, rows, j, i) = all[i]
            BY <1>6 DEF Current, all
        <3>2. QED
            BY <1>4, <1>6, <2>1, <2>2, <3>1
    <2>3. CASE Touched(s, rows, i, c) /\ ~ Touched(s, rows, j, c)
        <3>1. Current(s, rows, i, j) = rows[j] /\ all[j][c] = rows[j][c]
            BY <1>2, <2>1, <2>3 DEF Current
        <3>2. QED
            BY <1>4, <1>6, <2>1, <2>3, <3>1
    <2>4. CASE ~ Touched(s, rows, i, c) /\ ~ Touched(s, rows, j, c)
        BY <1>1, <1>2, <1>6, <2>1, <2>4 DEF Good, KeysApart
    <2>5. QED
        BY <2>2, <2>3, <2>4
<1>7. KeysApart(t, all)
    <2>1. \A c \in DOMAIN Schema[t], i, j \in DOMAIN all :
            Same(all[i][c], all[j][c]) => Same(all[j][c], all[i][c])
        BY <1>2, SameValues
    <2>2. QED
        BY <1>2, <1>3, <1>6, <2>1 DEF KeysApart
<1>8. QED
    BY <1>2, <1>5, <1>7 DEF Good, all, rows
----------------------------------------------------------------------------
(* Any statement that writes. *)

\* Good rows stay good, in memory and when they are read back.
LEMMA WrittenGood ==
    ASSUME NEW s, Writer(s), ~ Malformed(s),
           NEW contents, Good(s.table, contents[0]), ~ Fails(s, contents)
    PROVE  /\ Good(s.table, Written(s, contents))
           /\ Good(s.table, Parsed(Written(s, contents)))
<1>1. s.table \in Table
    BY DEF Writer
<1>2. CASE s.op = "INSERT"
    <2>1. ~ InsertFails(s, contents) /\ Written(s, contents) = contents[0] \o NewRows(s)
        BY <1>2 DEF Fails, Written
    <2>2. QED
        BY <1>1, <1>2, <2>1, InsertGood, ParsedGood
<1>3. CASE s.op = "UPDATE"
    <2>1. ~ UpdateFails(s, contents) /\ Written(s, contents) = UpdatedRows(s, contents[0])
        BY <1>3 DEF Fails, Written
    <2>2. QED
        BY <1>1, <1>3, <2>1, UpdateGood, ParsedGood
<1>4. CASE s.op = "DELETE"
    <2>1. Written(s, contents) = RowsAt(contents[0], DOMAIN contents[0] \ Matched(s, contents[0]))
        BY <1>4 DEF Written
    <2>2. QED
        BY <1>1, <2>1, FewerGood, ParsedGood
<1>5. QED
    BY <1>2, <1>3, <1>4 DEF Writer, IsWrite

\* v is in column c of the table, or in the column its foreign key refers to.
Founded(s, contents, c, v) ==
    \/ Exists(contents[0], c, v)
    \/ \E l \in Loads(s) : /\ TableOf(s, l) = Schema[s.table][c].fk.table
                           /\ Exists(contents[l], Schema[s.table][c].fk.col, v)

\* Each foreign key in the rows that an INSERT writes was there or was found.
LEMMA InsertFounded ==
    ASSUME NEW s, Writer(s), s.op = "INSERT", ~ Malformed(s),
           NEW contents, Good(s.table, contents[0]), ~ InsertFails(s, contents),
           NEW c \in DOMAIN Schema[s.table], HasFk(Schema[s.table][c]),
           NEW i \in DOMAIN Written(s, contents), ~ IsNull(Written(s, contents)[i][c])
    PROVE  Founded(s, contents, c, Written(s, contents)[i][c])
<1> DEFINE rows == contents[0]
           r == i - Len(rows)
<1>1. rows \in Seq(Seq(Value)) /\ Written(s, contents) = rows \o NewRows(s)
    BY DEF Good, Written
<1>2. \/ i \in DOMAIN rows /\ Written(s, contents)[i] = rows[i]
      \/ r \in DOMAIN s.rows /\ Written(s, contents)[i] = NewRow(s, r)
    <2>1. rows \in Seq(Seq(Value)) /\ i \in DOMAIN (rows \o NewRows(s))
        BY <1>1
    <2>2. \/ i \in DOMAIN rows /\ (rows \o NewRows(s))[i] = rows[i]
          \/ i - Len(rows) \in DOMAIN s.rows
             /\ (rows \o NewRows(s))[i] = NewRow(s, i - Len(rows))
        <3> HIDE DEF rows, r
        <3>1. QED
            BY <2>1, Inserted
    <2>3. QED
        BY <1>1, <2>2
<1>3. CASE i \in DOMAIN rows /\ Written(s, contents)[i] = rows[i]
    <2>1. rows[i][c] \in Value
        <3>1. rows[i] \in Seq(Value) /\ c \in DOMAIN rows[i]
            BY <1>1, <1>3 DEF Good, Fits
        <3>2. QED
            BY <3>1
    <2>2. Same(rows[i][c], rows[i][c])
        BY <1>3, <2>1, SameValues
    <2>3. QED
        BY <1>3, <2>2 DEF Founded, Exists
<1>4. CASE r \in DOMAIN s.rows /\ Written(s, contents)[i] = NewRow(s, r)
    <2>1. c \in Loads(s) /\ TableOf(s, c) = Schema[s.table][c].fk.table
          /\ FkOf(s, c) = Schema[s.table][c].fk
        <3>1. c # 0
            BY Columns DEF Writer
        <3>2. QED
            BY <3>1 DEF Loads, TableOf, FkOf
    <2>2. ~ Dangling(s, contents, c, NewRow(s, r)[c])
        BY <1>4 DEF InsertFails
    <2>3. QED
        BY <1>4, <2>1, <2>2 DEF Founded, Dangling
<1>5. QED
    BY <1>2, <1>3, <1>4

\* Each foreign key in the rows that an UPDATE writes was there or was found.
LEMMA UpdateFounded ==
    ASSUME NEW s, Writer(s), s.op = "UPDATE", ~ Malformed(s),
           NEW contents, Good(s.table, contents[0]), ~ UpdateFails(s, contents),
           NEW c \in DOMAIN Schema[s.table], HasFk(Schema[s.table][c]),
           NEW i \in DOMAIN Written(s, contents), ~ IsNull(Written(s, contents)[i][c])
    PROVE  Founded(s, contents, c, Written(s, contents)[i][c])
<1> DEFINE rows == contents[0]
           v == Written(s, contents)[i][c]
           l == Last(s, c)
<1>1. Written(s, contents) = UpdatedRows(s, rows)
    BY DEF Written
<1>2. /\ i \in DOMAIN rows /\ v \in Value
      /\ v = IF Touched(s, rows, i, c) THEN SetValue(s, l) ELSE rows[i][c]
    BY <1>1, Updated
<1>3. CASE ~ Touched(s, rows, i, c)
    <2>1. v = rows[i][c] /\ Same(v, v)
        BY <1>2, <1>3, SameValues
    <2>2. QED
        BY <1>2, <2>1 DEF Founded, Exists
<1>4. CASE Touched(s, rows, i, c)
    <2>1. l \in DOMAIN s.set /\ s.set[l].col = c /\ l # 0
        <3>1. l \in DOMAIN s.set /\ s.set[l].col = c
            BY <1>4, LastAssignment DEF Touched
        <3>2. s.set \in Seq([col : Nat, value : Value])
            BY DEF Writer
        <3>3. QED
            BY <3>1, <3>2
    <2>2. /\ l \in Loads(s) /\ TableOf(s, l) = Schema[s.table][c].fk.table
          /\ FkOf(s, l) = Schema[s.table][c].fk
        BY <2>1 DEF Loads, TableOf, FkOf
    <2>3. i \in Matched(s, rows) /\ v = SetValue(s, l)
        BY <1>2, <1>4 DEF Touched, Matched
    <2>4. ~ Dangling(s, contents, l, v)
        BY <2>1, <2>3 DEF UpdateFails
    <2>5. QED
        BY <2>2, <2>4 DEF Founded, Dangling
<1>5. QED
    BY <1>3, <1>4

\* A foreign-key value in a file that is read back was in the column before,
\* or is in the referenced table that was contents.
LEMMA WrittenFounded ==
    ASSUME NEW s, Writer(s), ~ Malformed(s),
           NEW contents, Good(s.table, contents[0]), ~ Fails(s, contents),
           NEW c \in DOMAIN Schema[s.table], HasFk(Schema[s.table][c]),
           NEW k \in DOMAIN Parsed(Written(s, contents)),
           ~ IsNull(Parsed(Written(s, contents))[k][c])
    PROVE  Founded(s, contents, c, Parsed(Written(s, contents))[k][c])
<1> DEFINE all == Written(s, contents)
           i == Nth(Lines(all), k)
<1>1. s.table \in Table /\ Good(s.table, all)
    BY WrittenGood DEF Writer
<1>2. i \in DOMAIN all /\ Parsed(all)[k] = ParsedRow(all[i])
    BY <1>1, ParsedLines DEF Good
<1>3. all[i][c] \in Value /\ Parsed(all)[k][c] = ParsedValue(all[i][c])
    <2>1. all[i] \in Seq(Value) /\ c \in DOMAIN all[i]
        BY <1>1, <1>2 DEF Good, Fits
    <2>2. QED
        BY <1>2, <2>1 DEF ParsedRow
<1>4. Parsed(all)[k][c] = all[i][c]
    BY <1>3, ParsedValues
<1>5. ~ IsNull(all[i][c])
    BY <1>4
<1>6. CASE s.op = "INSERT"
    BY <1>2, <1>4, <1>5, <1>6, InsertFounded DEF Fails
<1>7. CASE s.op = "UPDATE"
    BY <1>2, <1>4, <1>5, <1>7, UpdateFounded DEF Fails
<1>8. CASE s.op = "DELETE"
    <2> DEFINE K == DOMAIN contents[0] \ Matched(s, contents[0])
    <2>1. all = RowsAt(contents[0], K)
        BY <1>8 DEF Written
    <2>2. K \in SUBSET DOMAIN contents[0] /\ contents[0] \in Seq(Seq(Value))
        BY DEF Good
    <2> HIDE DEF K, all, i
    <2>3. PICK j \in DOMAIN contents[0] : all[i] = contents[0][j]
        <3>1. /\ DOMAIN RowsAt(contents[0], K) = 1 .. Cardinality(K)
              /\ \A m \in 1 .. Cardinality(K) :
                   Nth(K, m) \in K /\ RowsAt(contents[0], K)[m] = contents[0][Nth(K, m)]
            BY <2>2, RowsAtPositions
        <3>2. QED
            BY <1>2, <2>1, <2>2, <3>1
    <2>4. Same(all[i][c], all[i][c])
        BY <1>3, <1>5, SameValues
    <2>5. Exists(contents[0], c, all[i][c])
        BY <2>3, <2>4 DEF Exists
    <2>6. QED
        BY <1>4, <2>5 DEF Founded, all
<1>9. QED
    BY <1>6, <1>7, <1>8 DEF Writer, IsWrite
-----------------------------------------------------------------------------
(* The handles. *)

Working(h) == pc[h] \in {"loading", "writing", "renaming"}

\* flock() keeps an exclusively locked table to one handle.
Excluded ==
    \A g, h \in Handle : \A t \in held[g] \cap held[h] :
        g # h => LockMode(stmt[g]) = "SH" /\ LockMode(stmt[h]) = "SH"

\* A statement past its first checks is one that can lock; once it works it
\* holds every table it loads or writes.
LockedAt(h) ==
    /\ InStatement(h) => stmt[h] \in Statements /\ ~ Rejected(h)
    /\ pc[h] = "called" => stmt[h] \in Statements /\ left[h] > 0
    /\ held[h] \subseteq Entries[h]
    /\ pc[h] = "locking" => held[h] \cup todo[h] = LockNames(stmt[h])
    /\ Working(h) => held[h] = LockNames(stmt[h])
    /\ pc[h] # "locking" => todo[h] = {}
    /\ pc[h] \in {"called", "locking"} => loaded[h] = NoLoads

Locked == \A h \in Handle : LockedAt(h)

\* loaded[h] is what the files hold of the tables loaded so far.
AsOnDisk(h) == loaded[h] = [i \in DOMAIN loaded[h] |-> Rows(TableOf(stmt[h], i))]

LoadedFresh(h) ==
    Working(h) => /\ AsOnDisk(h)
                  /\ \A i \in DOMAIN loaded[h] : ~ RefColumnMissing(stmt[h], i)

\* A statement that writes has loaded everything and passed its checks; the
\* file it is about to rename is the one it computed.
Writing(h) ==
    /\ pc[h] \in {"writing", "renaming"} =>
         /\ DOMAIN loaded[h] = Loads(stmt[h])
         /\ ~ Fails(stmt[h], loaded[h])
         /\ Writes(stmt[h], loaded[h])
    /\ pc[h] = "renaming" => tmp[stmt[h].table] = Whole(Written(stmt[h], loaded[h]))

EngineInv == /\ TypeOK
             /\ Excluded
             /\ Locked
             /\ \A h \in Handle : LoadedFresh(h) /\ Writing(h)
----------------------------------------------------------------------------
\* A writing statement locks the table it writes, exclusively.
LEMMA WriterLocks ==
    ASSUME NEW s \in Statements, IsWrite(s)
    PROVE  /\ 0 \in Loads(s) /\ TableOf(s, 0) = s.table
           /\ s.table \in LockNames(s)
           /\ LockMode(s) = "EX"
BY DEF IsWrite, Loads, TableOf, LockNames, LockMode

LEMMA OnlyWritersWrite ==
    ASSUME NEW s \in Statements, NEW l, Writes(s, l)
    PROVE  IsWrite(s)
BY EngineAssumption DEF Writes, IsWrite

LEMMA NoStmtLoads == Loads(NoStmt) = {} /\ LockMode(NoStmt) = "SH"
BY DEF Loads, NoStmt, LockMode

LEMMA NamesAreTables ==
    ASSUME NEW s \in Statements
    PROVE  LockNames(s) \in SUBSET Table /\ \A i \in Loads(s) : TableOf(s, i) \in LockNames(s)
BY EngineAssumption DEF LockNames

LEMMA InitEngineInv == Init => EngineInv
<1> SUFFICES ASSUME Init PROVE EngineInv
    OBVIOUS
<1>1. TypeOK
    BY EngineAssumption, NoStmtLoads
    DEF Init, TypeOK, Label, FileState, InStatement, Whole, Absent, NoLoads
<1>2. Excluded /\ Locked
    BY DEF Init, Excluded, Locked, LockedAt, InStatement, Working
<1>3. \A h \in Handle : LoadedFresh(h) /\ Writing(h)
    BY DEF Init, LoadedFresh, Writing, Working
<1>4. QED
    BY <1>1, <1>2, <1>3 DEF EngineInv

\* Type correctness, one action at a time.
LEMMA TypeStep == EngineInv /\ [Next]_vars => TypeOK'
<1> SUFFICES ASSUME EngineInv, [Next]_vars PROVE TypeOK'
    OBVIOUS
<1> USE EngineAssumption DEF EngineInv, TypeOK, Label, FileState, InStatement, Goto, Answered,
        Whole, Absent, Torn, IsFirst
<1>1. ASSUME NEW h \in Handle, NEW s \in Statements, Call(h, s) PROVE TypeOK'
    BY <1>1 DEF Call, Locked, LockedAt, NoLoads
<1>2. ASSUME NEW h \in Handle, Reject(h) PROVE TypeOK'
    BY <1>2 DEF Reject
<1>3. ASSUME NEW h \in Handle, StartLocking(h) PROVE TypeOK'
    <2>1. /\ stmt[h] \in Statements /\ LockNames(stmt[h]) \in SUBSET Table
          /\ held[h] = {}
        BY <1>3, NamesAreTables DEF StartLocking, Locked, LockedAt
    <2>2. left[h] - 1 \in 0 .. MaxStatements
        BY <1>3 DEF StartLocking, Locked, LockedAt
    <2>3. QED
        BY <1>3, <2>1, <2>2 DEF StartLocking
<1>4. ASSUME NEW h \in Handle, NEW t \in Table, Acquire(h, t) PROVE TypeOK'
    BY <1>4 DEF Acquire
<1>5. ASSUME NEW h \in Handle, NEW t \in Table, GiveUp(h, t) PROVE TypeOK'
    BY <1>5 DEF GiveUp
<1>6. ASSUME NEW h \in Handle, AllLocked(h) PROVE TypeOK'
    BY <1>6 DEF AllLocked
<1>7. ASSUME NEW h \in Handle, NEW i \in Loads(stmt[h]), Load(h, i) PROVE TypeOK'
    BY <1>7 DEF Load
<1>8. ASSUME NEW h \in Handle, pc[h] = "loading", Abandon(h) PROVE TypeOK'
    BY <1>8 DEF Abandon
<1>9. ASSUME NEW h \in Handle, FinishReadOnly(h) PROVE TypeOK'
    BY <1>9 DEF FinishReadOnly
<1>10. ASSUME NEW h \in Handle, OpenTmp(h) PROVE TypeOK'
    BY <1>10 DEF OpenTmp
<1>11. ASSUME NEW h \in Handle, FillTmp(h) PROVE TypeOK'
    BY <1>11 DEF FillTmp
<1>12. ASSUME NEW h \in Handle, WriteError(h) PROVE TypeOK'
    BY <1>12 DEF WriteError
<1>13. ASSUME NEW h \in Handle, Rename(h) PROVE TypeOK'
    BY <1>13 DEF Rename
<1>14. ASSUME NEW h \in Handle, NEW t \in Table, Release(h, t) PROVE TypeOK'
    BY <1>14 DEF Release
<1>15. ASSUME NEW h \in Handle, AllReleased(h) PROVE TypeOK'
    BY <1>15 DEF AllReleased, Locked, LockedAt
<1>16. ASSUME NEW h \in Handle, Return(h) PROVE TypeOK'
    BY <1>16 DEF Return
<1>17. ASSUME NEW h \in Handle, Crash(h) PROVE TypeOK'
    BY <1>17 DEF Crash
<1>18. ASSUME NEW h \in Handle, Restart(h) PROVE TypeOK'
    BY <1>18 DEF Restart
<1>19. CASE UNCHANGED vars
    BY <1>19 DEF vars
<1>20. QED
    BY <1>1, <1>2, <1>3, <1>4, <1>5, <1>6, <1>7, <1>8, <1>9, <1>10, <1>11, <1>12, <1>13,
       <1>14, <1>15, <1>16, <1>17, <1>18, <1>19
    DEF Next, Progress, LockStep, WorkStep, Fault, NoSuchTable, LockError, LoadRefused,
        LoadError, Refuse, OpenTmpError
\* Exclusion and the bookkeeping of locks.
LEMMA LockStepInv == EngineInv /\ [Next]_vars => Excluded' /\ Locked'
<1> SUFFICES ASSUME EngineInv, [Next]_vars PROVE Excluded' /\ Locked'
    OBVIOUS
<1> USE EngineAssumption DEF EngineInv, TypeOK, Label, InStatement, Goto, Answered,
        IsFirst, Excluded, Locked, LockedAt, Working, Rejected
<1>1. ASSUME NEW h \in Handle, NEW s \in Statements, Call(h, s) PROVE Excluded' /\ Locked'
    <2>1. held[h] = {} /\ todo[h] = {} /\ held' = held /\ todo' = todo
        BY <1>1 DEF Call
    <2>2. Excluded'
        BY <1>1, <2>1 DEF Call
    <2>3. ASSUME NEW g \in Handle, g # h
          PROVE  /\ pc'[g] = pc[g] /\ stmt'[g] = stmt[g] /\ loaded'[g] = loaded[g]
                 /\ Rejected(g)' = Rejected(g)
        BY <1>1, <2>3 DEF Call
    <2>4. pc'[h] = "called" /\ stmt'[h] = s /\ loaded'[h] = NoLoads /\ left' = left /\ left[h] > 0
        BY <1>1 DEF Call
    <2>5. LockedAt(h)'
        BY <2>1, <2>4
    <2>6. ASSUME NEW g \in Handle, g # h PROVE LockedAt(g)'
        <3>1. LockedAt(g)
            OBVIOUS
        <3> HIDE DEF Rejected
        <3>2. QED
            BY <2>1, <2>3, <2>4, <2>6, <3>1
    <2>7. QED
        BY <2>2, <2>5, <2>6
<1>2. ASSUME NEW h \in Handle, Reject(h) PROVE Excluded' /\ Locked'
    BY <1>2 DEF Reject
<1>3. ASSUME NEW h \in Handle, StartLocking(h) PROVE Excluded' /\ Locked'
    BY <1>3 DEF StartLocking
<1>4. ASSUME NEW h \in Handle, NEW t \in Table, Acquire(h, t) PROVE Excluded' /\ Locked'
    BY <1>4 DEF Acquire, Grantable
<1>5. ASSUME NEW h \in Handle, NEW t \in Table, GiveUp(h, t) PROVE Excluded' /\ Locked'
    BY <1>5 DEF GiveUp
<1>6. ASSUME NEW h \in Handle, AllLocked(h) PROVE Excluded' /\ Locked'
    <2>1. held[h] = LockNames(stmt[h])
        BY <1>6 DEF AllLocked
    <2>2. QED
        BY <1>6, <2>1 DEF AllLocked
<1>7. ASSUME NEW h \in Handle, NEW i \in Loads(stmt[h]), Load(h, i) PROVE Excluded' /\ Locked'
    BY <1>7 DEF Load
<1>8. ASSUME NEW h \in Handle, pc[h] = "loading", Abandon(h) PROVE Excluded' /\ Locked'
    BY <1>8 DEF Abandon
<1>9. ASSUME NEW h \in Handle, FinishReadOnly(h) PROVE Excluded' /\ Locked'
    BY <1>9 DEF FinishReadOnly
<1>10. ASSUME NEW h \in Handle, OpenTmp(h) PROVE Excluded' /\ Locked'
    BY <1>10 DEF OpenTmp
<1>11. ASSUME NEW h \in Handle, FillTmp(h) PROVE Excluded' /\ Locked'
    BY <1>11 DEF FillTmp
<1>12. ASSUME NEW h \in Handle, WriteError(h) PROVE Excluded' /\ Locked'
    BY <1>12 DEF WriteError
<1>13. ASSUME NEW h \in Handle, Rename(h) PROVE Excluded' /\ Locked'
    BY <1>13 DEF Rename
<1>14. ASSUME NEW h \in Handle, NEW t \in Table, Release(h, t) PROVE Excluded' /\ Locked'
    BY <1>14 DEF Release
<1>15. ASSUME NEW h \in Handle, AllReleased(h) PROVE Excluded' /\ Locked'
    BY <1>15 DEF AllReleased
<1>16. ASSUME NEW h \in Handle, Return(h) PROVE Excluded' /\ Locked'
    BY <1>16 DEF Return
<1>17. ASSUME NEW h \in Handle, Crash(h) PROVE Excluded' /\ Locked'
    BY <1>17 DEF Crash
<1>18. ASSUME NEW h \in Handle, Restart(h) PROVE Excluded' /\ Locked'
    BY <1>18 DEF Restart
<1>19. CASE UNCHANGED vars
    BY <1>19 DEF vars
<1>20. QED
    BY <1>1, <1>2, <1>3, <1>4, <1>5, <1>6, <1>7, <1>8, <1>9, <1>10, <1>11, <1>12, <1>13,
       <1>14, <1>15, <1>16, <1>17, <1>18, <1>19
    DEF Next, Progress, LockStep, WorkStep, Fault, NoSuchTable, LockError, LoadRefused,
        LoadError, Refuse, OpenTmpError
\* What h knows of its own statement survives a step that leaves its pc,
\* statement and loads alone, and the file of every table it works on, and
\* its own temporary file.
LEMMA Undisturbed ==
    ASSUME NEW h \in Handle, EngineInv, LoadedFresh(h) /\ Writing(h),
           pc'[h] = pc[h], stmt'[h] = stmt[h], loaded'[h] = loaded[h],
           Working(h) => \A i \in DOMAIN loaded[h] :
               file'[TableOf(stmt[h], i)] = file[TableOf(stmt[h], i)],
           pc[h] = "renaming" => tmp'[stmt[h].table] = tmp[stmt[h].table]
    PROVE  LoadedFresh(h)' /\ Writing(h)'
<1>1. Working(h)' = Working(h)
    BY DEF Working
<1>2. ASSUME Working(h), AsOnDisk(h) PROVE AsOnDisk(h)'
    <2>1. \A i \in DOMAIN loaded[h] : Rows(TableOf(stmt[h], i))' = Rows(TableOf(stmt[h], i))
        BY <1>2 DEF Rows
    <2>2. QED
        BY <1>2, <2>1 DEF AsOnDisk
<1>3. LoadedFresh(h)'
    BY <1>1, <1>2 DEF LoadedFresh
<1>4. Writing(h)'
    BY DEF Writing
<1>5. QED
    BY <1>3, <1>4

\* Nobody else works on a table h writes.
LEMMA WriterAlone ==
    ASSUME EngineInv, NEW h \in Handle, NEW g \in Handle, g # h,
           Working(h), Working(g), IsWrite(stmt[h])
    PROVE  /\ \A i \in DOMAIN loaded[g] : TableOf(stmt[g], i) # stmt[h].table
           /\ IsWrite(stmt[g]) => stmt[g].table # stmt[h].table
<1>1. /\ stmt[h] \in Statements /\ stmt[g] \in Statements
      /\ held[h] = LockNames(stmt[h]) /\ held[g] = LockNames(stmt[g])
    BY DEF EngineInv, Locked, LockedAt, Working, InStatement
<1>2. stmt[h].table \in held[h] /\ LockMode(stmt[h]) = "EX"
    BY <1>1, WriterLocks
<1>3. stmt[h].table \notin held[g]
    BY <1>2 DEF EngineInv, Excluded
<1>4. \A i \in DOMAIN loaded[g] : TableOf(stmt[g], i) \in held[g]
    BY <1>1, NamesAreTables DEF EngineInv, TypeOK
<1>5. IsWrite(stmt[g]) => stmt[g].table \in held[g]
    BY <1>1, WriterLocks
<1>6. QED
    BY <1>3, <1>4, <1>5
Known == \A h \in Handle : LoadedFresh(h) /\ Writing(h)

\* A step of h that touches no file and leaves h outside the working phases.
LEMMA QuietStep ==
    ASSUME NEW h \in Handle, EngineInv, file' = file, tmp' = tmp,
           \A g \in Handle \ {h} : pc'[g] = pc[g] /\ stmt'[g] = stmt[g] /\ loaded'[g] = loaded[g],
           ~ Working(h)'
    PROVE  Known'
<1>1. ASSUME NEW g \in Handle, g # h PROVE LoadedFresh(g)' /\ Writing(g)'
    BY <1>1, Undisturbed DEF EngineInv
<1>2. LoadedFresh(h)' /\ Writing(h)'
    BY DEF LoadedFresh, Writing, Working
<1>3. QED
    BY <1>1, <1>2 DEF Known

\* The working steps of h: what h knows is given, what others know depends
\* on the table h writes, if any.
LEMMA WorkingStep ==
    ASSUME NEW h \in Handle, EngineInv, Working(h), IsWrite(stmt[h]),
           \A g \in Handle \ {h} : pc'[g] = pc[g] /\ stmt'[g] = stmt[g] /\ loaded'[g] = loaded[g],
           \A t \in Table \ {stmt[h].table} : file'[t] = file[t] /\ tmp'[t] = tmp[t],
           LoadedFresh(h)' /\ Writing(h)'
    PROVE  Known'
<1>1. ASSUME NEW g \in Handle, g # h, Working(g) PROVE LoadedFresh(g)' /\ Writing(g)'
    <2>1. stmt[g] \in Statements
        BY <1>1 DEF EngineInv, Locked, LockedAt, Working, InStatement
    <2>2. \A i \in DOMAIN loaded[g] : TableOf(stmt[g], i) \in Table \ {stmt[h].table}
        BY <1>1, <2>1, WriterAlone, NamesAreTables DEF EngineInv, TypeOK
    <2>3. pc[g] = "renaming" => stmt[g].table \in Table \ {stmt[h].table}
        <3>1. ASSUME pc[g] = "renaming" PROVE IsWrite(stmt[g])
            BY <2>1, <3>1, OnlyWritersWrite DEF EngineInv, Writing
        <3>2. QED
            BY <1>1, <2>1, <3>1, WriterAlone, EngineAssumption
    <2>4. QED
        BY <1>1, <2>2, <2>3, Undisturbed DEF EngineInv
<1>2. ASSUME NEW g \in Handle, g # h, ~ Working(g) PROVE LoadedFresh(g)' /\ Writing(g)'
    BY <1>2 DEF LoadedFresh, Writing, Working
<1>3. QED
    BY <1>1, <1>2 DEF Known

LEMMA KnownStep == EngineInv /\ [Next]_vars => Known'
<1> SUFFICES ASSUME EngineInv, [Next]_vars PROVE Known'
    OBVIOUS
<1>a. pc \in [Handle -> Label] /\ stmt \in [Handle -> Statements \cup {NoStmt}]
      /\ DOMAIN loaded = Handle /\ DOMAIN file = Table /\ DOMAIN tmp = Table
    BY DEF EngineInv, TypeOK
<1>b. ASSUME NEW h \in Handle, Writes(stmt[h], loaded[h]), Working(h)
      PROVE  stmt[h] \in Statements /\ IsWrite(stmt[h]) /\ stmt[h].table \in Table
    <2>1. stmt[h] \in Statements
        BY <1>b DEF EngineInv, Locked, LockedAt, Working, InStatement
    <2>2. QED
        BY <1>b, <2>1, OnlyWritersWrite, EngineAssumption
<1>1. ASSUME NEW h \in Handle, NEW s \in Statements, Call(h, s) PROVE Known'
    BY <1>1, <1>a, QuietStep DEF Call, Goto, Working
<1>2. ASSUME NEW h \in Handle, Reject(h) PROVE Known'
    BY <1>2, <1>a, QuietStep DEF Reject, Goto, Working
<1>3. ASSUME NEW h \in Handle, StartLocking(h) PROVE Known'
    BY <1>3, <1>a, QuietStep DEF StartLocking, Goto, Working
<1>4. ASSUME NEW h \in Handle, NEW t \in Table, Acquire(h, t) PROVE Known'
    BY <1>4, <1>a, QuietStep DEF Acquire, Working
<1>5. ASSUME NEW h \in Handle, NEW t \in Table, GiveUp(h, t) PROVE Known'
    BY <1>5, <1>a, QuietStep DEF GiveUp, Goto, Working
<1>6. ASSUME NEW h \in Handle, AllLocked(h) PROVE Known'
    <2>a. pc'[h] = "loading" /\ loaded'[h] = NoLoads
        BY <1>6, <1>a DEF AllLocked, Goto, EngineInv, Locked, LockedAt
    <2>1. LoadedFresh(h)' /\ Writing(h)'
        BY <2>a DEF LoadedFresh, Writing, AsOnDisk, NoLoads
    <2>2. ASSUME NEW g \in Handle, g # h PROVE LoadedFresh(g)' /\ Writing(g)'
        BY <1>6, <1>a, <2>2, Undisturbed DEF AllLocked, Goto, EngineInv
    <2>3. QED
        BY <2>1, <2>2 DEF Known
<1>7. ASSUME NEW h \in Handle, NEW i \in Loads(stmt[h]), Load(h, i) PROVE Known'
    <2>1. LoadedFresh(h)'
        BY <1>7, <1>a DEF Load, EngineInv, LoadedFresh, Working, AsOnDisk, Rows
    <2>2. Writing(h)'
        BY <1>7, <1>a DEF Load, Writing
    <2>3. ASSUME NEW g \in Handle, g # h PROVE LoadedFresh(g)' /\ Writing(g)'
        BY <1>7, <1>a, <2>3, Undisturbed DEF Load, EngineInv
    <2>4. QED
        BY <2>1, <2>2, <2>3 DEF Known
<1>8. ASSUME NEW h \in Handle, Abandon(h) PROVE Known'
    BY <1>8, <1>a, QuietStep DEF Abandon, Goto, Working
<1>9. ASSUME NEW h \in Handle, FinishReadOnly(h) PROVE Known'
    BY <1>9, <1>a, QuietStep DEF FinishReadOnly, Goto, Working
<1>10. ASSUME NEW h \in Handle, OpenTmp(h) PROVE Known'
    <2>1. Working(h) /\ IsWrite(stmt[h])
        BY <1>10, <1>b DEF OpenTmp, Working
    <2>2. DOMAIN loaded[h] = Loads(stmt[h])
        BY <1>10 DEF OpenTmp, ToLoad, EngineInv, TypeOK
    <2>3. pc'[h] = "writing" /\ loaded' = loaded /\ stmt' = stmt /\ file' = file
        BY <1>10, <1>a DEF OpenTmp, Goto
    <2>4. LoadedFresh(h)'
        BY <2>1, <2>3 DEF EngineInv, LoadedFresh, Working, AsOnDisk, Rows
    <2>5. Writing(h)'
        BY <1>10, <2>2, <2>3 DEF OpenTmp, Writing
    <2>6. QED
        BY <1>10, <1>a, <2>1, <2>4, <2>5, WorkingStep DEF OpenTmp, Goto
<1>11. ASSUME NEW h \in Handle, FillTmp(h) PROVE Known'
    <2>1. Working(h) /\ IsWrite(stmt[h]) /\ stmt[h].table \in Table
        BY <1>11, <1>b DEF FillTmp, Working, EngineInv, Writing
    <2>2. LoadedFresh(h)' /\ Writing(h)'
        BY <1>11, <1>a, <2>1 DEF FillTmp, Goto, EngineInv, LoadedFresh, Writing, Working,
                           AsOnDisk, Rows
    <2>3. QED
        BY <1>11, <1>a, <2>1, <2>2, WorkingStep DEF FillTmp, Goto
<1>12. ASSUME NEW h \in Handle, WriteError(h) PROVE Known'
    <2>1. Working(h) /\ IsWrite(stmt[h])
        BY <1>12, <1>b DEF WriteError, Working, EngineInv, Writing
    <2>2. LoadedFresh(h)' /\ Writing(h)'
        BY <1>12, <1>a DEF WriteError, Goto, LoadedFresh, Writing, Working
    <2>3. QED
        BY <1>12, <1>a, <2>1, <2>2, WorkingStep DEF WriteError, Goto
<1>13. ASSUME NEW h \in Handle, Rename(h) PROVE Known'
    <2>1. Working(h) /\ IsWrite(stmt[h])
        BY <1>13, <1>b DEF Rename, Working, EngineInv, Writing
    <2>2. LoadedFresh(h)' /\ Writing(h)'
        BY <1>13, <1>a DEF Rename, Goto, LoadedFresh, Writing, Working
    <2>3. QED
        BY <1>13, <1>a, <2>1, <2>2, WorkingStep DEF Rename, Goto
<1>14. ASSUME NEW h \in Handle, NEW t \in Table, Release(h, t) PROVE Known'
    BY <1>14, <1>a, QuietStep DEF Release, Working
<1>15. ASSUME NEW h \in Handle, AllReleased(h) PROVE Known'
    BY <1>15, <1>a, QuietStep DEF AllReleased, Goto, Working
<1>16. ASSUME NEW h \in Handle, Return(h) PROVE Known'
    BY <1>16, <1>a, QuietStep DEF Return, Goto, Working
<1>17. ASSUME NEW h \in Handle, Crash(h) PROVE Known'
    BY <1>17, <1>a, QuietStep DEF Crash, Goto, Working
<1>18. ASSUME NEW h \in Handle, Restart(h) PROVE Known'
    BY <1>18, <1>a, QuietStep DEF Restart, Goto, Working
<1>19. CASE UNCHANGED vars
    BY <1>19 DEF vars, EngineInv, Known, LoadedFresh, Writing, Working, AsOnDisk, Rows
<1>20. QED
    BY <1>1, <1>2, <1>3, <1>4, <1>5, <1>6, <1>7, <1>8, <1>9, <1>10, <1>11, <1>12, <1>13,
       <1>14, <1>15, <1>16, <1>17, <1>18, <1>19
    DEF Next, Progress, LockStep, WorkStep, Fault, NoSuchTable, LockError, LoadRefused,
        LoadError, Refuse, OpenTmpError

\* The inductive invariant of the engine.
THEOREM EngineInvariant == Spec => []EngineInv
<1>1. Init => EngineInv
    BY InitEngineInv
<1>2. EngineInv /\ [Next]_vars => EngineInv'
    BY TypeStep, LockStepInv, KnownStep DEF EngineInv, Known
<1>3. QED
    BY <1>1, <1>2, PTL DEF Spec

\* Every variable keeps its type.
THEOREM EngineTypeCorrect == Spec => []TypeOK
<1>1. EngineInv => TypeOK
    BY DEF EngineInv
<1>2. QED
    BY <1>1, EngineInvariant, PTL

\* What a statement loaded stays current until it unlocks.
THEOREM LoadsStayFresh == Spec => []FreshLoads
<1>1. EngineInv => FreshLoads
    BY DEF EngineInv, LoadedFresh, AsOnDisk, Working, FreshLoads
<1>2. QED
    BY <1>1, EngineInvariant, PTL
----------------------------------------------------------------------------
(* Locking is that of TableLocks. *)

LEMMA StatementNames ==
    ASSUME EngineInv, NEW h \in Handle, StartLocking(h)
    PROVE  LockNames(stmt[h]) \in SUBSET Table /\ LockMode(stmt[h]) \in {"SH", "EX"}
BY NamesAreTables DEF EngineInv, Locked, LockedAt, StartLocking, LockMode

LEMMA BeginRefined ==
    ASSUME EngineInv, NEW h \in Handle, StartLocking(h) PROVE TL!Begin(h)
<1> DEFINE names == LockNames(stmt[h])
           m == LockMode(stmt[h])
<1>1. names \in SUBSET TL!Table /\ m \in TL!Mode
    BY StatementNames DEF Table, TL!Table, TL!Mode
<1>2. stmt[h] \in Statements /\ left[h] > 0
    BY DEF StartLocking, EngineInv, Locked, LockedAt
<1>3. names # {}
    BY <1>2, EngineAssumption DEF LockNames
<1>4. TL!BeginLocking(h, names, m)
    BY <1>2, <1>3 DEF EngineInv, TypeOK, Label, InStatement, Goto, StartLocking, TL!BeginLocking
<1> HIDE DEF names, m
<1>5. QED
    BY <1>1, <1>4 DEF TL!Begin, TL!BeginLocking

LEMMA LocksInitRefined == Init => TL!Init
BY DEF Init, TL!Init, InStatement

LEMMA LocksStepRefined == EngineInv /\ [Next]_vars => [TL!Next]_TL!vars
<1> SUFFICES ASSUME EngineInv, [Next]_vars PROVE [TL!Next]_TL!vars
    OBVIOUS
<1> USE DEF EngineInv, TypeOK, Label, InStatement, Goto, IsFirst, TL!IsFirst
<1>1. ASSUME NEW h \in Handle, NEW s \in Statements, Call(h, s) PROVE UNCHANGED TL!vars
    BY <1>1 DEF Call, TL!vars
<1>2. ASSUME NEW h \in Handle, Reject(h) PROVE UNCHANGED TL!vars
    BY <1>2 DEF Reject, TL!vars
<1>3. ASSUME NEW h \in Handle, StartLocking(h) PROVE TL!Begin(h)
    BY <1>3, BeginRefined
<1>4. ASSUME NEW h \in Handle, NEW t \in Table, Acquire(h, t) PROVE TL!Acquire(h, t)
    BY <1>4 DEF Acquire, TL!Acquire, Grantable, TL!Grantable
<1>5. ASSUME NEW h \in Handle, NEW t \in Table, GiveUp(h, t) PROVE TL!GiveUp(h, t)
    BY <1>5 DEF GiveUp, TL!GiveUp
<1>6. ASSUME NEW h \in Handle, AllLocked(h) PROVE TL!AllLocked(h)
    BY <1>6 DEF AllLocked, TL!AllLocked
<1>7. ASSUME NEW h \in Handle, NEW i \in Loads(stmt[h]), Load(h, i) PROVE UNCHANGED TL!vars
    BY <1>7 DEF Load, TL!vars
<1>8. ASSUME NEW h \in Handle, pc[h] = "loading", Abandon(h) PROVE TL!Finish(h)
    BY <1>8 DEF Abandon, TL!Finish
<1>9. ASSUME NEW h \in Handle, FinishReadOnly(h) PROVE TL!Finish(h)
    BY <1>9 DEF FinishReadOnly, TL!Finish
<1>10. ASSUME NEW h \in Handle, OpenTmp(h) PROVE UNCHANGED TL!vars
    BY <1>10 DEF OpenTmp, TL!vars
<1>11. ASSUME NEW h \in Handle, FillTmp(h) PROVE UNCHANGED TL!vars
    BY <1>11 DEF FillTmp, TL!vars
<1>12. ASSUME NEW h \in Handle, WriteError(h) PROVE TL!Finish(h)
    BY <1>12 DEF WriteError, TL!Finish
<1>13. ASSUME NEW h \in Handle, Rename(h) PROVE TL!Finish(h)
    BY <1>13 DEF Rename, TL!Finish
<1>14. ASSUME NEW h \in Handle, NEW t \in Table, Release(h, t) PROVE TL!Release(h, t)
    BY <1>14 DEF Release, TL!Release
<1>15. ASSUME NEW h \in Handle, AllReleased(h) PROVE TL!AllReleased(h)
    BY <1>15 DEF AllReleased, TL!AllReleased
<1>16. ASSUME NEW h \in Handle, Return(h) PROVE UNCHANGED TL!vars
    BY <1>16 DEF Return, TL!vars
<1>17. ASSUME NEW h \in Handle, Crash(h) PROVE TL!Crash(h)
    BY <1>17 DEF Crash, TL!Crash
<1>18. ASSUME NEW h \in Handle, Restart(h) PROVE TL!Restart(h)
    BY <1>18 DEF Restart, TL!Restart
<1>19. CASE UNCHANGED vars
    BY <1>19 DEF vars, TL!vars
<1>20. ASSUME NEW h \in Handle, NEW t \in Table
       PROVE  /\ NoSuchTable(h, t) => TL!NoSuchTable(h, t)
              /\ LockError(h, t) => TL!LockError(h, t)
    BY <1>5 DEF NoSuchTable, TL!NoSuchTable, LockError, TL!LockError
<1>21. ASSUME NEW h \in Handle, Progress(h) PROVE TL!Next \/ UNCHANGED TL!vars
    <2>1. ASSUME StartLocking(h) PROVE TL!Begin(h)
        BY <1>3, <2>1
    <2>2. ASSUME LockStep(h), ~ StartLocking(h) PROVE TL!Progress(h)
        <3>1. CASE \E t \in Table : Acquire(h, t) \/ NoSuchTable(h, t) \/ Release(h, t)
            BY <1>4, <1>14, <1>20, <3>1 DEF TL!Progress, Table, TL!Table
        <3>2. CASE AllLocked(h) \/ AllReleased(h)
            BY <1>6, <1>15, <3>2 DEF TL!Progress
        <3>3. QED
            BY <2>2, <3>1, <3>2 DEF LockStep
    <2>3. ASSUME WorkStep(h) PROVE TL!Finish(h) \/ UNCHANGED TL!vars
        BY <1>7, <1>8, <1>9, <1>10, <1>11, <1>13, <2>3 DEF WorkStep, LoadRefused, Refuse
    <2>4. QED
        BY <1>2, <1>16, <1>21, <2>1, <2>2, <2>3 DEF Progress, TL!Next, TL!Progress
<1>22. ASSUME NEW h \in Handle, Fault(h) PROVE TL!Next \/ UNCHANGED TL!vars
    <2>1. ASSUME LoadError(h) \/ OpenTmpError(h) PROVE TL!Finish(h) \/ TL!Crash(h)
        BY <1>8, <1>17, <2>1 DEF LoadError, OpenTmpError
    <2>2. ASSUME NEW t \in Table, LockError(h, t) PROVE TL!Fault(h)
        BY <1>20, <2>2 DEF TL!Fault, Table, TL!Table
    <2>3. QED
        BY <1>12, <1>17, <1>22, <2>1, <2>2 DEF Fault, TL!Next, TL!Fault, TL!Progress
<1>23. ASSUME NEW h \in Handle, Restart(h) PROVE TL!Next
    BY <1>18, <1>23 DEF TL!Next
<1> HIDE DEF EngineInv, TypeOK, Label, InStatement, Goto, IsFirst, TL!IsFirst
<1>24. QED
    BY <1>1, <1>19, <1>21, <1>22, <1>23 DEF Next

\* The engine takes, holds and gives up its locks as TableLocks says.
THEOREM LocksRefined == Spec => LocksAsSpecified
<1>1. Spec => TL!Init /\ [][TL!Next]_TL!vars
    BY LocksInitRefined, LocksStepRefined, EngineInvariant, PTL DEF Spec
<1>2. QED
    BY <1>1 DEF LocksAsSpecified, TL!Spec
----------------------------------------------------------------------------
(* Every statement is atomic. *)

LEMMA AtomicInitRefined == Init => AD!InitDb
<1> SUFFICES ASSUME Init PROVE AD!InitDb
    OBVIOUS
<1>1. \A t \in Table : Rows(t) = Parsed(StartRows[t])
    BY EngineAssumption DEF Init, Rows, Whole, Absent
<1>2. QED
    BY <1>1 DEF Init, AD!InitDb, NoStmt, Error, AD!NoCall, AD!Error

\* Once a statement has loaded everything, its loads are the snapshot AtomicDB
\* takes of the whole database.
LEMMA LoadsAreSnapshot ==
    ASSUME EngineInv, NEW h \in Handle, Working(h), ToLoad(h) = {}
    PROVE  /\ loaded[h] = AD!Snapshot(stmt[h], [t \in Table |-> Rows(t)])
           /\ ~ Malformed(stmt[h])
           /\ ~ Impossible(stmt[h])
<1>1. DOMAIN loaded[h] = Loads(stmt[h])
    BY DEF ToLoad, EngineInv, TypeOK
<1>2. stmt[h] \in Statements /\ ~ Rejected(h)
    BY DEF EngineInv, Locked, LockedAt, Working, InStatement
<1>3. \A i \in Loads(stmt[h]) : TableOf(stmt[h], i) \in Table
    BY <1>2, NamesAreTables
<1>4. loaded[h] = AD!Snapshot(stmt[h], [t \in Table |-> Rows(t)])
    BY <1>1, <1>3 DEF AD!Snapshot, EngineInv, LoadedFresh, AsOnDisk
<1>5. ~ Malformed(stmt[h])
    BY <1>2, EngineAssumption DEF Rejected, Malformed, IsWrite
<1>6. \A i \in Loads(stmt[h]) : ~ RefColumnMissing(stmt[h], i)
    BY <1>1 DEF EngineInv, LoadedFresh
<1>7. QED
    BY <1>4, <1>5, <1>6 DEF Impossible

LEMMA AtomicStepRefined == EngineInv /\ [Next]_vars => [AD!NextDb]_AD!dbVars
<1> SUFFICES ASSUME EngineInv, [Next]_vars PROVE [AD!NextDb]_AD!dbVars
    OBVIOUS
<1>a. /\ pc \in [Handle -> Label] /\ stmt \in [Handle -> Statements \cup {NoStmt}]
      /\ DOMAIN loaded = Handle /\ DOMAIN file = Table /\ DOMAIN tmp = Table
    BY DEF EngineInv, TypeOK
<1> USE <1>a DEF Label, Goto, Rows
<1>1. ASSUME NEW h \in Handle, NEW s \in Statements, Call(h, s) PROVE AD!Invoke(h, s)
    BY <1>1 DEF Call, Answered, Error, AD!Invoke, AD!Error
<1>2. ASSUME NEW h \in Handle, Reject(h) PROVE AD!Fail(h)
    BY <1>2 DEF Reject, AD!Fail
<1>3. ASSUME NEW h \in Handle, StartLocking(h) PROVE UNCHANGED AD!dbVars
    BY <1>3 DEF StartLocking, AD!dbVars
<1>4. ASSUME NEW h \in Handle, NEW t \in Table, Acquire(h, t) PROVE UNCHANGED AD!dbVars
    BY <1>4 DEF Acquire, AD!dbVars
<1>5. ASSUME NEW h \in Handle, NEW t \in Table, GiveUp(h, t) PROVE AD!Fail(h)
    BY <1>5 DEF GiveUp, AD!Fail
<1>6. ASSUME NEW h \in Handle, AllLocked(h) PROVE UNCHANGED AD!dbVars
    BY <1>6 DEF AllLocked, AD!dbVars
<1>7. ASSUME NEW h \in Handle, NEW i \in Loads(stmt[h]), Load(h, i) PROVE UNCHANGED AD!dbVars
    BY <1>7 DEF Load, AD!dbVars
<1>8. ASSUME NEW h \in Handle, pc[h] = "loading", Abandon(h) PROVE AD!Fail(h)
    BY <1>8 DEF Abandon, AD!Fail
<1>9. ASSUME NEW h \in Handle, FinishReadOnly(h) PROVE AD!Commit(h)
    <2>1. /\ loaded[h] = AD!Snapshot(stmt[h], [t \in Table |-> Rows(t)])
          /\ ~ Impossible(stmt[h])
        BY <1>9, LoadsAreSnapshot DEF FinishReadOnly, Working
    <2>2. QED
        BY <1>9, <2>1 DEF FinishReadOnly, Answered, Success, AD!Commit, AD!Success
<1>10. ASSUME NEW h \in Handle, OpenTmp(h) PROVE UNCHANGED AD!dbVars
    BY <1>10 DEF OpenTmp, AD!dbVars
<1>11. ASSUME NEW h \in Handle, FillTmp(h) PROVE UNCHANGED AD!dbVars
    BY <1>11 DEF FillTmp, AD!dbVars
<1>12. ASSUME NEW h \in Handle, WriteError(h) PROVE AD!Fail(h)
    BY <1>12 DEF WriteError, AD!Fail
<1>13. ASSUME NEW h \in Handle, Rename(h) PROVE AD!Commit(h)
    <2>1. /\ loaded[h] = AD!Snapshot(stmt[h], [t \in Table |-> Rows(t)])
          /\ ~ Impossible(stmt[h])
        BY <1>13, LoadsAreSnapshot DEF Rename, Working, EngineInv, Writing, ToLoad
    <2>2. /\ ~ Fails(stmt[h], loaded[h]) /\ Writes(stmt[h], loaded[h])
          /\ tmp[stmt[h].table] = Whole(Written(stmt[h], loaded[h]))
        BY <1>13 DEF Rename, EngineInv, Writing
    <2>3. stmt[h] \in Statements /\ IsWrite(stmt[h]) /\ stmt[h].table \in Table
        BY <1>13, <2>2, OnlyWritersWrite, EngineAssumption
        DEF Rename, EngineInv, Locked, LockedAt, InStatement
    <2>4. Answer(stmt[h], loaded[h]) = <<>>
        BY <2>3 DEF Answer, IsWrite
    <2>5. [t \in Table |-> Rows(t)]' =
             [[t \in Table |-> Rows(t)] EXCEPT ![stmt[h].table] = Parsed(Written(stmt[h], loaded[h]))]
        <3>1. ASSUME NEW t \in Table, t # stmt[h].table PROVE file'[t] = file[t]
            BY <1>13, <3>1 DEF Rename
        <3>2. file'[stmt[h].table].rows = Written(stmt[h], loaded[h])
            BY <1>13, <2>2, <2>3 DEF Rename, Whole
        <3>3. QED
            BY <2>3, <3>1, <3>2
    <2>6. QED
        BY <1>13, <2>1, <2>2, <2>4, <2>5 DEF Rename, Answered, Success, AD!Commit, AD!Success
<1>14. ASSUME NEW h \in Handle, NEW t \in Table, Release(h, t) PROVE UNCHANGED AD!dbVars
    BY <1>14 DEF Release, AD!dbVars
<1>15. ASSUME NEW h \in Handle, AllReleased(h) PROVE UNCHANGED AD!dbVars
    BY <1>15 DEF AllReleased, AD!dbVars
<1>16. ASSUME NEW h \in Handle, Return(h) PROVE AD!Return(h)
    BY <1>16 DEF Return, AD!Return
<1>17. ASSUME NEW h \in Handle, Crash(h) PROVE AD!Die(h)
    BY <1>17 DEF Crash, AD!Die
<1>18. ASSUME NEW h \in Handle, Restart(h) PROVE AD!Reopen(h)
    BY <1>18 DEF Restart, AD!Reopen
<1>19. CASE UNCHANGED vars
    BY <1>19 DEF vars, AD!dbVars
<1> HIDE <1>a DEF Label, Goto, Rows
<1>20. ASSUME NEW h \in Handle, Progress(h) PROVE AD!NextDb \/ UNCHANGED AD!dbVars
    BY <1>2, <1>3, <1>4, <1>5, <1>6, <1>7, <1>8, <1>9, <1>10, <1>11, <1>13, <1>14, <1>15,
       <1>16, <1>20
    DEF Progress, LockStep, WorkStep, NoSuchTable, LoadRefused, Refuse, AD!NextDb
<1>21. ASSUME NEW h \in Handle, Fault(h) PROVE AD!NextDb
    BY <1>5, <1>8, <1>12, <1>17, <1>21
    DEF Fault, LockError, LoadError, OpenTmpError, AD!NextDb
<1>22. ASSUME NEW h \in Handle, Restart(h) PROVE AD!NextDb
    BY <1>18, <1>22 DEF AD!NextDb
<1>23. ASSUME NEW h \in Handle, NEW s \in Statements, Call(h, s) PROVE AD!NextDb
    BY <1>1, <1>23 DEF AD!NextDb
<1>24. QED
    BY <1>19, <1>20, <1>21, <1>22, <1>23 DEF Next

\* The engine implements AtomicDB: every statement is all or nothing, at one
\* instant, whatever runs beside it, fails or dies.
THEOREM EngineIsAtomic == Spec => StatementsAtomic
<1>1. Spec => AD!InitDb /\ [][AD!NextDb]_AD!dbVars
    BY AtomicInitRefined, AtomicStepRefined, EngineInvariant, PTL DEF Spec
<1>2. QED
    BY <1>1 DEF StatementsAtomic, AD!SpecDb
----------------------------------------------------------------------------
(* The tables stay good, and foreign keys have their row. *)

\* Whatever is stored may be loaded, and each key is there once.
TablesGood ==
    \A t \in Table : /\ (\E h \in Handle : t \in Entries[h]) => file[t].state = "whole"
                     /\ Good(t, Rows(t))

\* The tables to begin with are good by StartAssumption.
LEMMA InitTablesGood == Init => TablesGood
<1> SUFFICES ASSUME Init, NEW t \in Table
             PROVE  /\ (\E h \in Handle : t \in Entries[h]) => file[t].state = "whole"
                    /\ Good(t, Rows(t))
    BY DEF TablesGood
<1>1. Rows(t) = Parsed(StartRows[t]) /\ StartRows[t] \in Seq(Seq(Value))
    BY EngineAssumption DEF Init, Rows, Whole, Absent
<1>2. Good(t, Parsed(StartRows[t]))
    BY <1>1, StartAssumption, ParsedLines DEF Good
<1>3. QED
    BY <1>1, <1>2 DEF Init, Whole

\* No step but a rename changes a table.
LEMMA OnlyRenameReplaces ==
    ASSUME [Next]_vars
    PROVE  file' = file \/ \E h \in Handle : Rename(h)
BY ZenonT(60) DEF Next, Progress, LockStep, WorkStep, Fault, NoSuchTable, LockError, LoadRefused, LoadError,
       Refuse, OpenTmpError, Call, Reject, StartLocking, Acquire, GiveUp, AllLocked, Load, Abandon,
       Crash, FinishReadOnly, OpenTmp, FillTmp, WriteError, Release, AllReleased, Return, Restart,
       vars

\* A rename puts in place what a statement that passed its checks computed
\* from the tables as they are.
LEMMA RenameWrites ==
    ASSUME EngineInv, NEW h \in Handle, Rename(h)
    PROVE  LET s == stmt[h] IN
           /\ Writer(s) /\ ~ Malformed(s) /\ ~ Fails(s, loaded[h])
           /\ loaded[h][0] = Rows(s.table)
           /\ \A l \in Loads(s) : loaded[h][l] = Rows(TableOf(s, l))
           /\ \A t \in Table \ {s.table} : file'[t] = file[t]
           /\ file'[s.table] = Whole(Written(s, loaded[h]))
<1>1. Working(h) /\ InStatement(h) /\ pc[h] = "renaming"
    BY DEF Rename, Working, InStatement
<1>2. /\ DOMAIN loaded[h] = Loads(stmt[h]) /\ ~ Fails(stmt[h], loaded[h])
      /\ Writes(stmt[h], loaded[h])
      /\ tmp[stmt[h].table] = Whole(Written(stmt[h], loaded[h]))
    BY <1>1 DEF EngineInv, Writing
<1>3. stmt[h] \in Statements /\ ~ Rejected(h)
    BY <1>1 DEF EngineInv, Locked, LockedAt
<1>4. IsWrite(stmt[h])
    BY <1>2, <1>3, OnlyWritersWrite
<1>5. Writer(stmt[h]) /\ ~ Malformed(stmt[h])
    BY <1>3, <1>4, EngineAssumption DEF Writer, Rejected
<1>6. \A l \in Loads(stmt[h]) : loaded[h][l] = Rows(TableOf(stmt[h], l))
    BY <1>1, <1>2 DEF EngineInv, LoadedFresh, AsOnDisk
<1>7. loaded[h][0] = Rows(stmt[h].table)
    BY <1>3, <1>4, <1>6, WriterLocks
<1>8. /\ \A t \in Table \ {stmt[h].table} : file'[t] = file[t]
      /\ file'[stmt[h].table] = Whole(Written(stmt[h], loaded[h]))
    BY <1>2, <1>5 DEF Rename, EngineInv, TypeOK, Writer
<1>9. QED
    BY <1>2, <1>5, <1>6, <1>7, <1>8

\* A rename replaces a good table by a good one.
LEMMA TablesGoodStep == EngineInv /\ TablesGood /\ [Next]_vars => TablesGood'
<1> SUFFICES ASSUME EngineInv, TablesGood, [Next]_vars PROVE TablesGood'
    OBVIOUS
<1>1. CASE file' = file
    BY <1>1 DEF TablesGood, Rows
<1>2. ASSUME NEW h \in Handle, Rename(h) PROVE TablesGood'
    <2> DEFINE s == stmt[h]
    <2>1. /\ Writer(s) /\ ~ Malformed(s) /\ ~ Fails(s, loaded[h])
          /\ loaded[h][0] = Rows(s.table)
          /\ \A t \in Table \ {s.table} : file'[t] = file[t]
          /\ file'[s.table] = Whole(Written(s, loaded[h]))
        BY <1>2, RenameWrites
    <2>2. s.table \in Table /\ Good(s.table, loaded[h][0])
        BY <2>1 DEF Writer, TablesGood
    <2>3. Good(s.table, Parsed(Written(s, loaded[h])))
        BY <2>1, <2>2, WrittenGood
    <2> HIDE DEF s
    <2>4. /\ file'[s.table].state = "whole"
          /\ Parsed(file'[s.table].rows) = Parsed(Written(s, loaded[h]))
        BY <2>1 DEF Whole
    <2>5. ASSUME NEW t \in Table
          PROVE  /\ (\E g \in Handle : t \in Entries[g]) => file'[t].state = "whole"
                 /\ Good(t, Parsed(file'[t].rows))
        BY <2>1, <2>3, <2>4 DEF TablesGood, Rows
    <2>6. QED
        BY <2>5 DEF TablesGood, Rows
<1>3. QED
    BY <1>1, <1>2, OnlyRenameReplaces

\* At every instant each table is one that may be loaded, with each key once
\* (storage_write, exec_insert, exec_update).
THEOREM TablesStayGood == Spec => []TablesGood
BY InitTablesGood, TablesGoodStep, EngineInvariant, PTL DEF Spec

\* Every listed table can be loaded, whatever statements ran together, failed
\* half-way or died: only a rename changes a table, to rows that were checked
\* against the tables as they still are (exec_insert, exec_update, exec_delete
\* and storage_write).
THEOREM ListedTablesLoad == Spec => []FilesLoadable
<1>1. TablesGood => FilesLoadable
    BY DEF TablesGood, Good, FilesLoadable
<1>2. QED
    BY <1>1, TablesStayGood, PTL

\* A primary key is in a table once, whatever INSERTs and UPDATEs ran at the
\* same time: both check the key under the lock they write under.
THEOREM KeysStayUnique == Spec => []KeysUnique
<1>1. TablesGood => KeysUnique
    BY DEF TablesGood, Good, KeysUnique
<1>2. QED
    BY <1>1, TablesStayGood, PTL

\* What ReferencesExist asks of a step.
Founding ==
    \A t \in Table : \A c \in DOMAIN Schema[t] : HasFk(Schema[t][c]) =>
        LET rows == Rows(t)'
            fk == Schema[t][c].fk
        IN  \A i \in DOMAIN rows :
               \/ IsNull(rows[i][c])
               \/ Exists(Rows(t), c, rows[i][c])
               \/ Exists(Rows(fk.table), fk.col, rows[i][c])

\* What a rename puts in place has its foreign keys founded.
LEMMA FoundingStep == EngineInv /\ TablesGood /\ [Next]_vars => Founding
<1> SUFFICES ASSUME EngineInv, TablesGood, [Next]_vars,
                    NEW t \in Table, NEW c \in DOMAIN Schema[t], HasFk(Schema[t][c]),
                    NEW i \in DOMAIN Rows(t)', ~ IsNull(Rows(t)'[i][c])
             PROVE  \/ Exists(Rows(t), c, Rows(t)'[i][c])
                    \/ Exists(Rows(Schema[t][c].fk.table), Schema[t][c].fk.col, Rows(t)'[i][c])
    BY DEF Founding
<1>1. CASE Rows(t)' = Rows(t)
    <2>1. Rows(t)[i] \in Seq(Value) /\ c \in DOMAIN Rows(t)[i]
        BY <1>1, Element DEF TablesGood, Good, Fits
    <2>2. Same(Rows(t)[i][c], Rows(t)[i][c])
        BY <1>1, <2>1, SameValues
    <2>3. QED
        BY <1>1, <2>2 DEF Exists
<1>2. CASE Rows(t)' # Rows(t)
    <2>1. PICK h \in Handle : Rename(h)
        BY <1>2, OnlyRenameReplaces DEF Rows
    <2> DEFINE s == stmt[h]
    <2>2. /\ Writer(s) /\ ~ Malformed(s) /\ ~ Fails(s, loaded[h])
          /\ loaded[h][0] = Rows(s.table)
          /\ \A l \in Loads(s) : loaded[h][l] = Rows(TableOf(s, l))
          /\ \A u \in Table \ {s.table} : file'[u] = file[u]
          /\ file'[s.table] = Whole(Written(s, loaded[h]))
        BY <2>1, RenameWrites
    <2> HIDE DEF s
    <2>3. t = s.table
        BY <1>2, <2>2 DEF Rows
    <2>4. Rows(t)' = Parsed(Written(s, loaded[h])) /\ Good(t, loaded[h][0])
        BY <2>2, <2>3 DEF Rows, Whole, TablesGood
    <2>5. Founded(s, loaded[h], c, Rows(t)'[i][c])
        BY <2>2, <2>3, <2>4, WrittenFounded
    <2>6. QED
        BY <2>2, <2>3, <2>5 DEF Founded
<1>3. QED
    BY <1>1, <1>2

\* A foreign-key value that is new in its column is, at the instant it gets
\* there, in the referenced table: exec_insert and exec_update hold that table's
\* lock since before they loaded it.  Of a value that stood in the column
\* before nothing is said: its row may have been deleted since.
THEOREM StoredReferencesExist == Spec => ReferencesExist
<1>1. EngineInv /\ TablesGood /\ [Next]_vars => [Founding]_vars
    BY FoundingStep
<1>2. Spec => [][Founding]_vars
    BY <1>1, EngineInvariant, TablesStayGood, PTL DEF Spec
<1>3. QED
    BY <1>2 DEF ReferencesExist, Founding
=============================================================================
