-------------------------- MODULE Programs_proofs --------------------------
(***************************************************************************)
(* The programs around a statement, for every text, list of arguments and  *)
(* session: that the lexer and the splitter agree, that the command line   *)
(* is what the usage text says, that a script runs its statements in       *)
(* order, and that a session runs what was typed.                          *)
(***************************************************************************)
EXTENDS MCLexer, Cli, Repl, SequenceTheorems, FiniteSetTheorems, WellFoundedInduction, TLAPS
-----------------------------------------------------------------------------
(* Where repl.c ends a statement, for every text: at the first ';' with an *)
(* even number of quotes before it.  Recursive functions exist because     *)
(* each of their values depends on later positions only.  And which        *)
(* statement is the next one, for what takes them one at a time.           *)

\* A nonempty set of natural numbers has a least element.
LEMMA LeastElement ==
    ASSUME NEW S \in SUBSET Nat, S # {}
    PROVE  \E x \in S : \A y \in S : x <= y
<1>1. PICK x \in S : \A y \in S : ~ (<<y, x>> \in OpToRel(<, Nat))
    BY NatLessThanWellFounded, WFMin
<1>2. \A y \in S : ~ (y < x)
    BY <1>1 DEF OpToRel
<1>3. QED
    BY <1>2

\* Body[i][f], the value at i of a function f on 1 .. n by its recursion,
\* depends on the values of f after i only.
LooksAhead(n, V, Body) ==
    /\ Body \in [1 .. n -> [[1 .. n -> V] -> V]]
    /\ \A i \in 1 .. n : \A f, g \in [1 .. n -> V] :
          (\A j \in i + 1 .. n : f[j] = g[j]) => Body[i][f] = Body[i][g]

Solves(n, V, Body, f) == f \in [1 .. n -> V] /\ \A i \in 1 .. n : f[i] = Body[i][f]

\* Such a recursion has a solution.
LEMMA RecursionFromTheEnd ==
    ASSUME NEW n \in Nat, NEW V, V # {}, NEW Body, LooksAhead(n, V, Body)
    PROVE  \E f : Solves(n, V, Body, f)
<1> USE DEF LooksAhead, Solves
<1> DEFINE Solved == {k \in Nat : k <= n /\ \E f \in [1 .. n -> V] : \A i \in k + 1 .. n : f[i] = Body[i][f]}
<1>1. n \in Solved
    <2>1. PICK v : v \in V
        OBVIOUS
    <2>2. [i \in 1 .. n |-> v] \in [1 .. n -> V]
        BY <2>1
    <2>3. \A i \in n + 1 .. n : FALSE
        OBVIOUS
    <2>4. \E f \in [1 .. n -> V] : \A i \in n + 1 .. n : f[i] = Body[i][f]
        BY <2>2, <2>3
    <2>5. QED
        BY <2>4
<1>2. PICK k \in Solved : \A l \in Solved : k <= l
    <2> HIDE DEF Solved
    <2>1. Solved \in SUBSET Nat
        BY DEF Solved
    <2>2. QED
        BY <1>1, <2>1, LeastElement
<1>3. PICK f \in [1 .. n -> V] : \A i \in k + 1 .. n : f[i] = Body[i][f]
    BY <1>2
<1>4. k = 0
    <2> SUFFICES ASSUME k # 0 PROVE FALSE
        OBVIOUS
    <2> DEFINE g == [f EXCEPT ![k] = Body[k][f]]
    <2>1. k \in 1 .. n /\ k - 1 \in Nat /\ k - 1 < k
        BY <1>2
    <2>2. g \in [1 .. n -> V] /\ g[k] = Body[k][f] /\ \A j \in k + 1 .. n : g[j] = f[j]
        BY <2>1, <1>3
    <2> HIDE DEF g
    <2>3. \A i \in k .. n : Body[i][g] = Body[i][f]
        <3> SUFFICES ASSUME NEW i \in k .. n PROVE Body[i][g] = Body[i][f]
            OBVIOUS
        <3>1. i \in 1 .. n /\ \A j \in i + 1 .. n : j \in k + 1 .. n
            BY <2>1
        <3>2. QED
            BY <3>1, <2>2, <1>3
    <2>4. \A i \in (k - 1) + 1 .. n : g[i] = Body[i][g]
        <3> SUFFICES ASSUME NEW i \in k .. n PROVE g[i] = Body[i][g]
            BY <2>1
        <3>1. CASE i = k
            BY <3>1, <2>2, <2>3
        <3>2. CASE i # k
            <4>1. i \in k + 1 .. n
                BY <3>2, <2>1
            <4>2. QED
                BY <4>1, <2>2, <2>3, <1>3
        <3>3. QED
            BY <3>1, <3>2
    <2>5. k - 1 \in Solved
        BY <2>1, <2>2, <2>4
    <2> HIDE DEF Solved
    <2>6. QED
        BY <2>1, <2>5, <1>2
<1>5. QED
    BY <1>3, <1>4

\* Induction from the end: what holds of i if it holds of all after i holds.
LEMMA InductionFromTheEnd ==
    ASSUME NEW n \in Nat, NEW P,
           \A i \in 1 .. n : (\A j \in i + 1 .. n : j \in P) => i \in P
    PROVE  \A i \in 1 .. n : i \in P
<1> DEFINE Missing == {k \in Nat : k < n /\ n - k \notin P}
<1>1. SUFFICES ASSUME Missing # {} PROVE FALSE
    <2> SUFFICES ASSUME NEW i \in 1 .. n, i \notin P PROVE Missing # {}
        OBVIOUS
    <2>1. n - i \in Nat /\ n - i < n /\ n - (n - i) = i
        OBVIOUS
    <2>2. n - i \in Missing
        BY <2>1
    <2>3. QED
        BY <2>2
<1>2. PICK k \in Missing : \A l \in Missing : k <= l
    <2> HIDE DEF Missing
    <2>1. Missing \in SUBSET Nat
        BY DEF Missing
    <2>2. QED
        BY <1>1, <2>1, LeastElement
<1>3. \A j \in (n - k) + 1 .. n : j \in P
    <2> SUFFICES ASSUME NEW j \in (n - k) + 1 .. n, j \notin P PROVE FALSE
        OBVIOUS
    <2>1. n - j \in Nat /\ n - j < n /\ n - (n - j) = j /\ n - j < k
        BY <1>2
    <2>2. n - j \in Missing
        BY <2>1
    <2>3. QED
        BY <1>2, <2>1, <2>2
<1>4. QED
    BY <1>2, <1>3
-----------------------------------------------------------------------------
\* The characters that matter are different.
LEMMA CharactersDiffer ==
    /\ Apostrophe # Terminator
    /\ Apostrophe \notin Blanks
    /\ Terminator \notin Blanks
<1>1. Apostrophe # Terminator
    BY Zenon DEF Apostrophe, Terminator
<1>2. Apostrophe \notin Blanks
    BY Zenon DEF Apostrophe, Blanks
<1>3. Terminator \notin Blanks
    BY Zenon DEF Terminator, Blanks
<1>4. QED
    BY <1>1, <1>2, <1>3

\* The recursion of AfterString.
IsAfter(code, f) ==
    f = [j \in 1 .. Len(code) + 1 |->
            IF j > Len(code) THEN j
            ELSE IF code[j] # Apostrophe THEN f[j + 1]
            ELSE IF j < Len(code) /\ code[j + 1] = Apostrophe THEN f[j + 2]
            ELSE j + 1]

LEMMA AfterExists ==
    ASSUME NEW S, NEW code \in Seq(S)
    PROVE  \E f : IsAfter(code, f)
<1> DEFINE n == Len(code) + 1
           Body == [i \in 1 .. n |-> [f \in [1 .. n -> Nat] |->
                       IF i > Len(code) THEN i
                       ELSE IF code[i] # Apostrophe THEN f[i + 1]
                       ELSE IF i < Len(code) /\ code[i + 1] = Apostrophe THEN f[i + 2]
                       ELSE i + 1]]
<1>1. Len(code) \in Nat /\ n \in Nat
    OBVIOUS
<1>2. \A i \in 1 .. n : \A f \in [1 .. n -> Nat] : 
        Body[i][f] = IF i > Len(code) THEN i
                       ELSE IF code[i] # Apostrophe THEN f[i + 1]
                       ELSE IF i < Len(code) /\ code[i + 1] = Apostrophe THEN f[i + 2]
                       ELSE i + 1
    OBVIOUS
<1>3. \A i \in 1 .. n : ~ (i > Len(code)) => i + 1 \in i + 1 .. n /\ (i < Len(code) => i + 2 \in i + 1 .. n)
    BY <1>1
<1>4. \A i \in 1 .. n : \A j \in i + 1 .. n : j \in 1 .. n
    BY <1>1
<1>5. Body \in [1 .. n -> [[1 .. n -> Nat] -> Nat]]
    <2> SUFFICES ASSUME NEW i \in 1 .. n, NEW f \in [1 .. n -> Nat]
                 PROVE  (IF i > Len(code) THEN i
                       ELSE IF code[i] # Apostrophe THEN f[i + 1]
                       ELSE IF i < Len(code) /\ code[i + 1] = Apostrophe THEN f[i + 2]
                       ELSE i + 1) \in Nat
        OBVIOUS
    <2> HIDE DEF n
    <2> QED BY <1>3, <1>4, <1>1
<1>6. \A i \in 1 .. n : \A f, g \in [1 .. n -> Nat] :
              (\A j \in i + 1 .. n : f[j] = g[j]) => Body[i][f] = Body[i][g]
    <2> SUFFICES ASSUME NEW i \in 1 .. n, NEW f \in [1 .. n -> Nat], NEW g \in [1 .. n -> Nat],
                        \A j \in i + 1 .. n : f[j] = g[j]
                 PROVE  Body[i][f] = Body[i][g]
        OBVIOUS
    <2>1. ~ (i > Len(code)) => f[i + 1] = g[i + 1] /\ (i < Len(code) => f[i + 2] = g[i + 2])
        BY <1>3
    <2> HIDE DEF n, Body
    <2> QED BY <1>2, <2>1
<1>7. PICK f \in [1 .. n -> Nat] : \A i \in 1 .. n : f[i] = Body[i][f]
    <2>1. LooksAhead(n, Nat, Body)
        BY <1>5, <1>6 DEF LooksAhead
    <2>2. Nat # {}
        OBVIOUS
    <2> HIDE DEF n, Body
    <2>3. \E f : Solves(n, Nat, Body, f)
        BY <1>1, <2>1, <2>2, RecursionFromTheEnd
    <2> QED BY <2>3 DEF Solves
<1>8. IsAfter(code, f)
    BY <1>7, <1>2 DEF IsAfter
<1> QED BY <1>8

\* AfterString is what it recursively says.
LEMMA AfterStringTurn ==
    ASSUME NEW S, NEW code \in Seq(S), NEW j \in 1 .. Len(code) + 1
    PROVE  AfterString(code, j) =
              IF j > Len(code) THEN j
              ELSE IF code[j] # Apostrophe THEN AfterString(code, j + 1)
              ELSE IF j < Len(code) /\ code[j + 1] = Apostrophe THEN AfterString(code, j + 2)
              ELSE j + 1
<1> DEFINE f == CHOOSE f : IsAfter(code, f)
<1>1. \A i : AfterString(code, i) = f[i]
    BY DEF AfterString, IsAfter
<1>2. IsAfter(code, f)
    BY AfterExists
<1> HIDE DEF f
<1>3. f[j] = IF j > Len(code) THEN j
            ELSE IF code[j] # Apostrophe THEN f[j + 1]
            ELSE IF j < Len(code) /\ code[j + 1] = Apostrophe THEN f[j + 2]
            ELSE j + 1
    BY <1>2 DEF IsAfter
<1>4. QED
    BY <1>1, <1>3

\* The quotes before position i.
Quotes(code, i) == Cardinality({j \in 1 .. i - 1 : code[j] = Apostrophe})

LEMMA QuotesBefore ==
    ASSUME NEW S, NEW code \in Seq(S), NEW i \in 1 .. Len(code)
    PROVE  /\ Quotes(code, 1) = 0
           /\ Quotes(code, i) \in Nat
           /\ Quotes(code, i + 1) = Quotes(code, i) + (IF code[i] = Apostrophe THEN 1 ELSE 0)
<1> DEFINE before(k) == {j \in 1 .. k - 1 : code[j] = Apostrophe}
<1>1. before(1) = {}
    OBVIOUS
<1>2. IsFiniteSet(before(i))
    <2>1. IsFiniteSet(1 .. i - 1)
        BY FS_Interval
    <2>2. QED
        BY <2>1, FS_Subset
<1>3. before(i + 1) = IF code[i] = Apostrophe THEN before(i) \cup {i} ELSE before(i)
    OBVIOUS
<1>4. i \notin before(i)
    OBVIOUS
<1>5. Cardinality(before(1)) = 0
    BY <1>1, FS_EmptySet
<1>6. Cardinality(before(i)) \in Nat
    BY <1>2, FS_CardinalityType
<1>7. Cardinality(before(i) \cup {i}) = Cardinality(before(i)) + 1
    <2> HIDE DEF before
    <2> QED BY <1>2, <1>4, FS_AddElement
<1> HIDE DEF before
<1>8. Cardinality(before(i + 1)) = Cardinality(before(i)) + (IF code[i] = Apostrophe THEN 1 ELSE 0)
    BY <1>3, <1>6, <1>7
<1>9. QED
    BY <1>5, <1>6, <1>8 DEF Quotes, before

LEMMA QuotesType ==
    ASSUME NEW S, NEW code \in Seq(S), NEW i \in 1 .. Len(code) + 1
    PROVE  Quotes(code, i) \in Nat
<1>1. CASE i = 1
    <2>1. {j \in 1 .. 1 - 1 : code[j] = Apostrophe} = {}
        OBVIOUS
    <2>2. QED
        BY <1>1, <2>1, FS_EmptySet DEF Quotes
<1>2. CASE i # 1
    <2>1. i - 1 \in 1 .. Len(code) /\ (i - 1) + 1 = i
        BY <1>2
    <2>2. QED
        BY <2>1, QuotesBefore
<1>3. QED
    BY <1>1, <1>2

\* A string ends where it should: within it no ';' has an odd number of
\* quotes before it, counted from its opening quote on, and it ends after an
\* odd number of quotes or with the text.
Closes(code, i, a) ==
    /\ a \in i .. Len(code) + 1
    /\ i <= Len(code) => a > i
    /\ \A k \in i .. a - 1 : code[k] = Terminator => (Quotes(code, k) - Quotes(code, i)) % 2 = 0
    /\ a <= Len(code) => (Quotes(code, a) - Quotes(code, i)) % 2 = 1

LEMMA StringsClose ==
    ASSUME NEW S, NEW code \in Seq(S)
    PROVE  \A i \in 1 .. Len(code) + 1 : Closes(code, i, AfterString(code, i))
<1> DEFINE n == Len(code)
<1>1. n \in Nat
    OBVIOUS
<1>2. ASSUME NEW i \in 1 .. n + 1,
             \A j \in i + 1 .. n + 1 : Closes(code, j, AfterString(code, j))
      PROVE  Closes(code, i, AfterString(code, i))
    <2>1. CASE i > n
        <3>1. i = n + 1 /\ AfterString(code, i) = i
            BY <2>1, <1>1, AfterStringTurn
        <3>2. i .. i - 1 = {}
            OBVIOUS
        <3>3. Closes(code, i, i)
            BY <3>1, <3>2, <1>1 DEF Closes
        <3>4. QED
            BY <3>1, <3>3
    <2>2. CASE i <= n /\ code[i] # Apostrophe
        <3>1. AfterString(code, i) = AfterString(code, i + 1)
            BY <2>2, AfterStringTurn
        <3>2. Closes(code, i + 1, AfterString(code, i + 1))
            BY <1>2, <2>2
        <3>3. Quotes(code, i + 1) = Quotes(code, i) /\ Quotes(code, i) \in Nat
            BY <2>2, QuotesBefore
        <3> DEFINE a == AfterString(code, i + 1)
        <3>4. /\ a \in i + 1 .. n + 1
              /\ \A k \in i + 1 .. a - 1 : code[k] = Terminator => (Quotes(code, k) - Quotes(code, i)) % 2 = 0
              /\ a <= n => (Quotes(code, a) - Quotes(code, i)) % 2 = 1
            BY <3>2, <3>3 DEF Closes
        <3> HIDE DEF a
        <3>5. \A k \in i .. a - 1 : code[k] = Terminator => (Quotes(code, k) - Quotes(code, i)) % 2 = 0
            <4> SUFFICES ASSUME NEW k \in i .. a - 1, code[k] = Terminator
                         PROVE  (Quotes(code, k) - Quotes(code, i)) % 2 = 0
                OBVIOUS
            <4>1. CASE k = i
                <5>1. Quotes(code, k) - Quotes(code, i) = 0
                    BY <4>1, <3>3
                <5>2. QED
                    BY <5>1
            <4>2. CASE k # i
                <5>1. k \in i + 1 .. a - 1
                    BY <4>2, <3>4, <1>1
                <5>2. QED
                    BY <5>1, <3>4
            <4>3. QED
                BY <4>1, <4>2
        <3>6. Closes(code, i, a)
            BY <3>4, <3>5, <2>2 DEF Closes
        <3>7. QED
            BY <3>1, <3>6 DEF a
    <2>3. CASE i <= n /\ code[i] = Apostrophe /\ i < n /\ code[i + 1] = Apostrophe
        <3>1. AfterString(code, i) = AfterString(code, i + 2)
            BY <2>3, AfterStringTurn
        <3>2. Closes(code, i + 2, AfterString(code, i + 2))
            BY <1>2, <2>3
        <3>3. Quotes(code, i + 1) = Quotes(code, i) + 1 /\ Quotes(code, i) \in Nat
            BY <2>3, QuotesBefore
        <3>4. Quotes(code, i + 2) = Quotes(code, i) + 2
            BY SMTT(40), <2>3, <3>3, QuotesBefore
        <3> DEFINE a == AfterString(code, i + 2)
        <3>5. /\ a \in i + 2 .. n + 1
              /\ \A k \in i + 2 .. a - 1 : code[k] = Terminator => (Quotes(code, k) - (Quotes(code, i) + 2)) % 2 = 0
              /\ a <= n => (Quotes(code, a) - (Quotes(code, i) + 2)) % 2 = 1
            BY <3>2, <3>4 DEF Closes
        <3> HIDE DEF a
        <3>6. \A k \in i .. a - 1 : code[k] = Terminator => (Quotes(code, k) - Quotes(code, i)) % 2 = 0
            <4> SUFFICES ASSUME NEW k \in i .. a - 1, code[k] = Terminator
                         PROVE  (Quotes(code, k) - Quotes(code, i)) % 2 = 0
                OBVIOUS
            <4>1. k # i /\ k # i + 1
                BY <2>3, CharactersDiffer
            <4>2. k \in i + 2 .. a - 1 /\ k \in 1 .. n + 1
                BY <4>1, <3>5, <1>1
            <4>3. Quotes(code, k) \in Nat
                BY <4>2, QuotesType
            <4>4. (Quotes(code, k) - (Quotes(code, i) + 2)) % 2 = 0
                BY <4>2, <3>5
            <4>5. QED
                BY <4>3, <4>4, <3>3
        <3>7. a <= n => (Quotes(code, a) - Quotes(code, i)) % 2 = 1
            <4>1. Quotes(code, a) \in Nat
                BY <3>5, QuotesType
            <4>2. QED
                BY <4>1, <3>3, <3>5
        <3>8. Closes(code, i, a)
            BY <3>5, <3>6, <3>7, <1>1 DEF Closes
        <3>9. QED
            BY <3>1, <3>8 DEF a
    <2>4. CASE i <= n /\ code[i] = Apostrophe /\ ~ (i < n /\ code[i + 1] = Apostrophe)
        <3>1. AfterString(code, i) = i + 1
            BY <2>4, AfterStringTurn
        <3>2. Quotes(code, i + 1) = Quotes(code, i) + 1 /\ Quotes(code, i) \in Nat
            BY <2>4, QuotesBefore
        <3>3. (Quotes(code, i + 1) - Quotes(code, i)) % 2 = 1
            <4>1. Quotes(code, i + 1) - Quotes(code, i) = 1
                BY <3>2
            <4>2. QED
                BY <4>1
        <3>4. \A k \in i .. (i + 1) - 1 : code[k] # Terminator
            BY <2>4, CharactersDiffer
        <3>5. Closes(code, i, i + 1)
            BY <2>4, <3>3, <3>4, <1>1 DEF Closes
        <3>6. QED
            BY <3>1, <3>5
    <2>5. QED
        BY <1>1, <2>1, <2>2, <2>3, <2>4
<1>3. QED
    <2> DEFINE P == {i \in 1 .. n + 1 : Closes(code, i, AfterString(code, i))}
    <2>1. \A i \in 1 .. n + 1 : (\A j \in i + 1 .. n + 1 : j \in P) => i \in P
        BY <1>2
    <2>2. \A i \in 1 .. n + 1 : i \in P
        <3> HIDE DEF P
        <3>1. n + 1 \in Nat
            BY <1>1
        <3>2. QED
            BY <2>1, <3>1, InductionFromTheEnd
    <2>3. QED
        BY <2>2

\* The recursion of FindStatementEnd.
IsEnd(code, f) ==
    f = [i \in 1 .. Len(code) + 1 |->
            IF i > Len(code) THEN Len(code)
            ELSE IF code[i] = Apostrophe THEN f[AfterString(code, i + 1)]
            ELSE IF code[i] = Terminator THEN i
            ELSE f[i + 1]]

LEMMA EndExists ==
    ASSUME NEW S, NEW code \in Seq(S)
    PROVE  \E f : IsEnd(code, f)
<1> DEFINE n == Len(code) + 1
           Body == [i \in 1 .. n |-> [f \in [1 .. n -> Nat] |->
                       IF i > Len(code) THEN Len(code)
                       ELSE IF code[i] = Apostrophe THEN f[AfterString(code, i + 1)]
                       ELSE IF code[i] = Terminator THEN i
                       ELSE f[i + 1]]]
<1>1. Len(code) \in Nat /\ n \in Nat
    OBVIOUS
<1>2. \A i \in 1 .. n : \A f \in [1 .. n -> Nat] :
        Body[i][f] = IF i > Len(code) THEN Len(code)
                     ELSE IF code[i] = Apostrophe THEN f[AfterString(code, i + 1)]
                     ELSE IF code[i] = Terminator THEN i
                     ELSE f[i + 1]
    OBVIOUS
<1>3. \A i \in 1 .. n : ~ (i > Len(code)) => i + 1 \in i + 1 .. n /\ AfterString(code, i + 1) \in i + 1 .. n
    <2> SUFFICES ASSUME NEW i \in 1 .. n, i <= Len(code)
                 PROVE  i + 1 \in i + 1 .. n /\ AfterString(code, i + 1) \in i + 1 .. n
        BY <1>1
    <2>1. i + 1 \in i + 1 .. n /\ i + 1 \in 1 .. Len(code) + 1
        BY <1>1
    <2>2. Closes(code, i + 1, AfterString(code, i + 1))
        BY <2>1, StringsClose
    <2>3. QED
        BY <2>1, <2>2, <1>1 DEF Closes
<1>4. \A i \in 1 .. n : \A j \in i + 1 .. n : j \in 1 .. n
    BY <1>1
<1>5. Body \in [1 .. n -> [[1 .. n -> Nat] -> Nat]]
    <2> SUFFICES ASSUME NEW i \in 1 .. n, NEW f \in [1 .. n -> Nat]
                 PROVE  (IF i > Len(code) THEN Len(code)
                         ELSE IF code[i] = Apostrophe THEN f[AfterString(code, i + 1)]
                         ELSE IF code[i] = Terminator THEN i
                         ELSE f[i + 1]) \in Nat
        OBVIOUS
    <2> HIDE DEF n
    <2>1. QED
        BY <1>1, <1>3, <1>4
<1>6. \A i \in 1 .. n : \A f, g \in [1 .. n -> Nat] :
              (\A j \in i + 1 .. n : f[j] = g[j]) => Body[i][f] = Body[i][g]
    <2> SUFFICES ASSUME NEW i \in 1 .. n, NEW f \in [1 .. n -> Nat], NEW g \in [1 .. n -> Nat],
                        \A j \in i + 1 .. n : f[j] = g[j]
                 PROVE  Body[i][f] = Body[i][g]
        OBVIOUS
    <2>1. ~ (i > Len(code)) => /\ f[i + 1] = g[i + 1]
                              /\ f[AfterString(code, i + 1)] = g[AfterString(code, i + 1)]
        BY <1>3
    <2> HIDE DEF n, Body
    <2>2. QED
        BY <1>2, <2>1
<1>7. PICK f \in [1 .. n -> Nat] : \A i \in 1 .. n : f[i] = Body[i][f]
    <2>1. LooksAhead(n, Nat, Body)
        BY <1>5, <1>6 DEF LooksAhead
    <2>2. Nat # {}
        OBVIOUS
    <2> HIDE DEF n, Body
    <2>3. \E f : Solves(n, Nat, Body, f)
        BY <1>1, <2>1, <2>2, RecursionFromTheEnd
    <2>4. QED
        BY <2>3 DEF Solves
<1>8. IsEnd(code, f)
    BY <1>7, <1>2 DEF IsEnd
<1>9. QED
    BY <1>8

\* Where the statement ends if position i is outside strings.
EndFrom(code, i) == (CHOOSE f : IsEnd(code, f))[i]

LEMMA EndFromTurn ==
    ASSUME NEW S, NEW code \in Seq(S), NEW i \in 1 .. Len(code) + 1
    PROVE  /\ FindStatementEnd(code) = EndFrom(code, 1)
           /\ EndFrom(code, i) = IF i > Len(code) THEN Len(code)
                                 ELSE IF code[i] = Apostrophe THEN EndFrom(code, AfterString(code, i + 1))
                                 ELSE IF code[i] = Terminator THEN i
                                 ELSE EndFrom(code, i + 1)
<1> DEFINE f == CHOOSE f : IsEnd(code, f)
<1>1. \A k : EndFrom(code, k) = f[k]
    BY DEF EndFrom
<1>2. FindStatementEnd(code) = f[1]
    BY DEF FindStatementEnd, IsEnd
<1>3. IsEnd(code, f)
    BY EndExists
<1> HIDE DEF f
<1>4. f[i] = IF i > Len(code) THEN Len(code)
            ELSE IF code[i] = Apostrophe THEN f[AfterString(code, i + 1)]
            ELSE IF code[i] = Terminator THEN i
            ELSE f[i + 1]
    BY <1>3 DEF IsEnd
<1>5. QED
    BY <1>1, <1>2, <1>4

\* The ends from i on, if i is outside strings.
EndsFrom(code, i) ==
    {k \in i .. Len(code) : code[k] = Terminator /\ (Quotes(code, k) - Quotes(code, i)) % 2 = 0}

\* e is the first of the ends from i on, or the end of the text.
FirstEnd(code, i, e) ==
    \/ e \in EndsFrom(code, i) /\ \A k \in EndsFrom(code, i) : e <= k
    \/ e = Len(code) /\ EndsFrom(code, i) = {}

\* Counts from b and counts from a, an odd number after b + 1, agree modulo 2.
LEMMA ParitySplit ==
    ASSUME NEW x \in Int, NEW a \in Int, NEW b \in Int, (a - (b + 1)) % 2 = 1
    PROVE  (x - b) % 2 = 0 <=> (x - a) % 2 = 0
OBVIOUS

\* Outside strings, the statement ends at the first end.
LEMMA EndsAtFirst ==
    ASSUME NEW S, NEW code \in Seq(S)
    PROVE  \A i \in 1 .. Len(code) + 1 : FirstEnd(code, i, EndFrom(code, i))
<1> DEFINE n == Len(code)
<1>1. n \in Nat
    OBVIOUS
<1>2. ASSUME NEW i \in 1 .. n + 1,
             \A j \in i + 1 .. n + 1 : FirstEnd(code, j, EndFrom(code, j))
      PROVE  FirstEnd(code, i, EndFrom(code, i))
    <2>1. CASE i > n
        <3>1. i .. n = {}
            BY <2>1, <1>1
        <3>2. EndsFrom(code, i) = {}
            BY <3>1 DEF EndsFrom
        <3>3. EndFrom(code, i) = n
            BY <2>1, EndFromTurn
        <3>4. QED
            BY <3>2, <3>3 DEF FirstEnd
    <2>2. CASE i <= n /\ code[i] = Apostrophe
        <3> DEFINE a == AfterString(code, i + 1)
        <3>1. EndFrom(code, i) = EndFrom(code, a)
            BY <2>2, EndFromTurn
        <3>2. Closes(code, i + 1, a)
            BY <2>2, <1>1, StringsClose
        <3>3. /\ a \in i + 1 .. n + 1
              /\ \A k \in i + 1 .. a - 1 : code[k] = Terminator => (Quotes(code, k) - Quotes(code, i + 1)) % 2 = 0
              /\ a <= n => (Quotes(code, a) - Quotes(code, i + 1)) % 2 = 1
            BY <3>2 DEF Closes
        <3> HIDE DEF a
        <3>4. Quotes(code, i) \in Nat /\ Quotes(code, i + 1) = Quotes(code, i) + 1
            BY <2>2, QuotesBefore
        <3>5. \A k \in i .. a - 1 : k \notin EndsFrom(code, i)
            <4> SUFFICES ASSUME NEW k \in i .. a - 1, k \in EndsFrom(code, i) PROVE FALSE
                OBVIOUS
            <4>1. code[k] = Terminator /\ (Quotes(code, k) - Quotes(code, i)) % 2 = 0
                BY DEF EndsFrom
            <4>2. k \in i + 1 .. a - 1 /\ k \in 1 .. n + 1
                <5>1. k # i
                    BY <4>1, <2>2, CharactersDiffer
                <5>2. QED
                    BY <5>1, <3>3, <1>1
            <4>3. Quotes(code, k) \in Nat
                BY <4>2, QuotesType
            <4>4. (Quotes(code, k) - (Quotes(code, i) + 1)) % 2 = 0
                BY <4>1, <4>2, <3>3, <3>4
            <4>5. QED
                BY <4>1, <4>3, <4>4, <3>4
        <3>6. \A k \in a .. n : k \in EndsFrom(code, i) <=> k \in EndsFrom(code, a)
            <4> SUFFICES ASSUME NEW k \in a .. n
                         PROVE  (Quotes(code, k) - Quotes(code, i)) % 2 = 0
                                <=> (Quotes(code, k) - Quotes(code, a)) % 2 = 0
                BY <3>3 DEF EndsFrom
            <4>1. a <= n /\ k \in 1 .. n + 1 /\ a \in 1 .. n + 1
                BY <3>3, <1>1
            <4>2. Quotes(code, k) \in Nat /\ Quotes(code, a) \in Nat
                BY <4>1, QuotesType
            <4>3. (Quotes(code, a) - (Quotes(code, i) + 1)) % 2 = 1
                BY <4>1, <3>3, <3>4
            <4>4. Quotes(code, k) \in Int /\ Quotes(code, a) \in Int /\ Quotes(code, i) \in Int
                BY <4>2, <3>4
            <4>5. QED
                BY <4>3, <4>4, ParitySplit
        <3>7. EndsFrom(code, i) = EndsFrom(code, a)
            <4>1. \A k \in EndsFrom(code, i) : k \in a .. n
                <5> SUFFICES ASSUME NEW k \in EndsFrom(code, i) PROVE k \in a .. n
                    OBVIOUS
                <5>1. k \in i .. n
                    BY DEF EndsFrom
                <5>2. k \notin i .. a - 1
                    BY <3>5
                <5>3. QED
                    BY <5>1, <5>2, <3>3, <1>1
            <4>2. \A k \in EndsFrom(code, a) : k \in a .. n
                BY DEF EndsFrom
            <4>3. QED
                BY <4>1, <4>2, <3>6
        <3>8. FirstEnd(code, a, EndFrom(code, a))
            BY <1>2, <3>3
        <3>9. QED
            BY <3>1, <3>7, <3>8 DEF FirstEnd
    <2>3. CASE i <= n /\ code[i] = Terminator
        <3>1. EndFrom(code, i) = i
            BY <2>3, EndFromTurn, CharactersDiffer
        <3>2. i \in EndsFrom(code, i)
            <4>1. Quotes(code, i) \in Nat
                BY QuotesType
            <4>2. (Quotes(code, i) - Quotes(code, i)) % 2 = 0
                BY <4>1
            <4>3. QED
                BY <4>2, <2>3, <1>1 DEF EndsFrom
        <3>3. \A k \in EndsFrom(code, i) : i <= k
            BY DEF EndsFrom
        <3>4. QED
            BY <3>1, <3>2, <3>3 DEF FirstEnd
    <2>4. CASE i <= n /\ code[i] # Apostrophe /\ code[i] # Terminator
        <3>1. EndFrom(code, i) = EndFrom(code, i + 1)
            BY <2>4, EndFromTurn
        <3>2. Quotes(code, i + 1) = Quotes(code, i)
            BY <2>4, QuotesBefore
        <3>3. EndsFrom(code, i) = EndsFrom(code, i + 1)
            <4>1. \A k \in EndsFrom(code, i) : k # i
                BY <2>4 DEF EndsFrom
            <4>2. QED
                BY <4>1, <3>2, <1>1 DEF EndsFrom
        <3>4. FirstEnd(code, i + 1, EndFrom(code, i + 1))
            BY <1>2, <2>4, <1>1
        <3>5. QED
            BY <3>1, <3>3, <3>4 DEF FirstEnd
    <2>5. QED
        BY <1>1, <2>1, <2>2, <2>3, <2>4
<1>3. QED
    <2> DEFINE P == {i \in 1 .. n + 1 : FirstEnd(code, i, EndFrom(code, i))}
    <2>1. \A i \in 1 .. n + 1 : (\A j \in i + 1 .. n + 1 : j \in P) => i \in P
        BY <1>2
    <2>2. \A i \in 1 .. n + 1 : i \in P
        <3> HIDE DEF P
        <3>1. n + 1 \in Nat
            BY <1>1
        <3>2. QED
            BY <2>1, <3>1, InductionFromTheEnd
    <2>3. QED
        BY <2>2

\* The first ';' with an even number of quotes before it ends the statement.
LEMMA StatementEnd ==
    ASSUME NEW S, NEW code \in Seq(S)
    PROVE  \/ /\ FindStatementEnd(code) \in Ends(code)
              /\ \A k \in Ends(code) : FindStatementEnd(code) <= k
           \/ FindStatementEnd(code) = Len(code) /\ Ends(code) = {}
<1>1. FirstEnd(code, 1, FindStatementEnd(code))
    BY EndsAtFirst, EndFromTurn
<1>2. Quotes(code, 1) = 0
    <2>1. {j \in 1 .. 1 - 1 : code[j] = Apostrophe} = {}
        OBVIOUS
    <2>2. QED
        BY <2>1, FS_EmptySet DEF Quotes
<1>3. EndsFrom(code, 1) = Ends(code)
    <2>1. \A k \in 1 .. Len(code) : Quotes(code, k) - Quotes(code, 1) = Quotes(code, k)
        BY <1>2, QuotesType
    <2>2. EndsFrom(code, 1) = {k \in 1 .. Len(code) : code[k] = Terminator /\ Quotes(code, k) % 2 = 0}
        BY <2>1 DEF EndsFrom
    <2>3. DOMAIN code = 1 .. Len(code)
        OBVIOUS
    <2>4. QED
        BY <2>2, <2>3 DEF Ends, Quotes
<1>4. QED
    BY <1>1, <1>3 DEF FirstEnd
-----------------------------------------------------------------------------
(* The statements of a text. *)

LEMMA MinIs ==
    ASSUME NEW S, \A j \in S : j \in Nat, NEW i \in S, \A j \in S : i <= j
    PROVE  Min(S) = i
<1>1. \A m \in S : (\A j \in S : m <= j) => m = i
    OBVIOUS
<1>2. QED
    BY <1>1 DEF Min

LEMMA MaxIs ==
    ASSUME NEW S, \A j \in S : j \in Nat, NEW i \in S, \A j \in S : i >= j
    PROVE  Max(S) = i
<1>1. \A m \in S : (\A j \in S : m >= j) => m = i
    OBVIOUS
<1>2. QED
    BY <1>1 DEF Max

\* Quotes are counted position by position.
LEMMA QuotesPlain ==
    ASSUME NEW S, NEW code \in Seq(S), NEW a \in 1 .. Len(code) + 1, NEW b \in a .. Len(code) + 1,
           \A k \in a .. b - 1 : code[k] # Apostrophe
    PROVE  Quotes(code, b) = Quotes(code, a)
<1>1. {j \in 1 .. b - 1 : code[j] = Apostrophe} = {j \in 1 .. a - 1 : code[j] = Apostrophe}
    OBVIOUS
<1>2. QED
    BY <1>1 DEF Quotes

\* The quotes of the rest of a text.
LEMMA QuotesOfRest ==
    ASSUME NEW S, NEW code \in Seq(S), NEW i \in 1 .. Len(code),
           NEW rest \in Seq(S), Len(rest) = Len(code) - i + 1,
           \A k \in 1 .. Len(rest) : rest[k] = code[k + i - 1]
    PROVE  \A k \in 1 .. Len(code) - i + 2 : Quotes(code, k + i - 1) = Quotes(code, i) + Quotes(rest, k)
<1> DEFINE n == Len(code)
           m == n - i + 1
           Wrong == {k \in 1 .. Len(code) - i + 2 : Quotes(code, k + i - 1) # Quotes(code, i) + Quotes(rest, k)}
<1>1. /\ n \in Nat /\ m \in Nat /\ m >= 1
      /\ rest \in Seq(S) /\ Len(rest) = m
      /\ \A k \in 1 .. m : rest[k] = code[k + i - 1] /\ k + i - 1 \in 1 .. n
    <2>1. n \in Nat /\ m \in Nat /\ m >= 1 /\ Len(rest) = m
        OBVIOUS
    <2>2. \A k \in 1 .. m : k + i - 1 \in 1 .. n
        BY <2>1
    <2>3. QED
        BY <2>1, <2>2
<1>2. SUFFICES ASSUME Wrong # {} PROVE FALSE
    OBVIOUS
<1>3. PICK k \in Wrong : \A l \in Wrong : k <= l
    <2>1. Wrong \in SUBSET Nat
        OBVIOUS
    <2> HIDE DEF Wrong
    <2>2. QED
        BY <1>2, <2>1, LeastElement
<1> HIDE DEF m
<1>4. k # 1
    <2>1. Quotes(rest, 1) = 0
        <3>1. 1 \in 1 .. Len(rest)
            BY <1>1
        <3>2. QED
            BY <1>1, <3>1, QuotesBefore
    <2>2. Quotes(code, i) \in Nat
        BY QuotesType
    <2>3. Quotes(code, 1 + i - 1) = Quotes(code, i)
        <3>1. 1 + i - 1 = i
            OBVIOUS
        <3>2. QED
            BY <3>1
    <2>4. QED
        BY <1>3, <2>1, <2>2, <2>3
<1>5. k - 1 \in 1 .. m /\ k - 1 \notin Wrong
    BY <1>3, <1>4, <1>1
<1>6. Quotes(code, (k - 1) + i - 1) = Quotes(code, i) + Quotes(rest, k - 1)
    <2>1. k - 1 \in 1 .. Len(code) - i + 2
        BY <1>5, <1>1 DEF m
    <2>2. QED
        BY <1>5, <2>1
<1>7. Quotes(rest, k) = Quotes(rest, k - 1) + (IF rest[k - 1] = Apostrophe THEN 1 ELSE 0) /\ Quotes(rest, k - 1) \in Nat
    <2>1. (k - 1) + 1 = k
        BY <1>3
    <2>2. QED
        BY <2>1, <1>5, <1>1, QuotesBefore
<1>8. Quotes(code, k + i - 1) = Quotes(code, (k - 1) + i - 1) + (IF code[(k - 1) + i - 1] = Apostrophe THEN 1 ELSE 0)
    <2>1. ((k - 1) + i - 1) + 1 = k + i - 1
        BY <1>3
    <2>2. (k - 1) + i - 1 \in 1 .. n
        BY <1>5, <1>1
    <2>3. QED
        BY <2>1, <2>2, QuotesBefore
<1>9. Quotes(code, i) \in Nat
    BY QuotesType
<1>10. rest[k - 1] = code[(k - 1) + i - 1]
    BY <1>5, <1>1
<1> HIDE DEF n
<1>11. Quotes(code, k + i - 1) = Quotes(code, i) + Quotes(rest, k)
    BY <1>6, <1>7, <1>8, <1>9, <1>10
<1>12. QED
    BY <1>3, <1>11

\* Between two statements: position p ended the one before (0 before the
\* first), and up to i there is only whitespace.
Between(code, p, i) ==
    /\ p \in {0} \cup Ends(code) /\ i \in p + 1 .. Len(code) + 1
    /\ \A k \in p + 1 .. i - 1 : code[k] \in Blanks

LEMMA EvenSum ==
    ASSUME NEW a \in Nat, NEW b \in Nat, a % 2 = 0
    PROVE  (a + b) % 2 = 0 <=> b % 2 = 0
OBVIOUS

LEMMA BlanksArePlain == \A c \in Blanks : c # Apostrophe /\ c # Terminator
BY CharactersDiffer

\* An end is a ';' outside strings, whose quotes are even in number.
LEMMA EndsAre ==
    ASSUME NEW S, NEW code \in Seq(S)
    PROVE  /\ Ends(code) = {k \in 1 .. Len(code) : code[k] = Terminator /\ Quotes(code, k) % 2 = 0}
           /\ IsFiniteSet(Ends(code))
<1>1. Ends(code) = {k \in 1 .. Len(code) : code[k] = Terminator /\ Quotes(code, k) % 2 = 0}
    BY DEF Ends, Quotes
<1>2. IsFiniteSet(1 .. Len(code))
    BY FS_Interval
<1>3. QED
    BY <1>1, <1>2, FS_Subset

\* A statement begins outside strings.
LEMMA QuotesEven ==
    ASSUME NEW S, NEW code \in Seq(S), NEW p, NEW i, Between(code, p, i)
    PROVE  Quotes(code, i) \in Nat /\ Quotes(code, i) % 2 = 0
<1>1. /\ p \in 0 .. Len(code) /\ i \in p + 1 .. Len(code) + 1
      /\ \A k \in p + 1 .. i - 1 : code[k] # Apostrophe
    BY BlanksArePlain, EndsAre DEF Between
<1>2. Quotes(code, i) = Quotes(code, p + 1)
    BY <1>1, QuotesPlain
<1>3. CASE p = 0
    <2>1. {j \in 1 .. 1 - 1 : code[j] = Apostrophe} = {}
        OBVIOUS
    <2>2. Quotes(code, 1) = 0
        BY <2>1, FS_EmptySet DEF Quotes
    <2>3. QED
        BY <1>2, <1>3, <2>2
<1>4. CASE p # 0
    <2>1. p \in 1 .. Len(code) /\ code[p] = Terminator /\ Quotes(code, p) % 2 = 0
        BY <1>4, EndsAre DEF Between
    <2>2. Quotes(code, p + 1) = Quotes(code, p) /\ Quotes(code, p) \in Nat
        BY <2>1, QuotesBefore, CharactersDiffer
    <2>3. QED
        BY <1>2, <2>1, <2>2
<1>5. QED
    BY <1>3, <1>4

\* The ends of the rest of a text, from where a statement begins.
LEMMA EndsOfRest ==
    ASSUME NEW S, NEW code \in Seq(S), NEW p, NEW i, Between(code, p, i), i <= Len(code),
           NEW rest \in Seq(S), Len(rest) = Len(code) - i + 1,
           \A k \in 1 .. Len(rest) : rest[k] = code[k + i - 1]
    PROVE  \A k \in 1 .. Len(rest) : k \in Ends(rest) <=> k + i - 1 \in Ends(code)
<1>1. i \in 1 .. Len(code)
    BY EndsAre DEF Between
<1>2. rest \in Seq(S) /\ Len(rest) = Len(code) - i + 1 /\ \A k \in 1 .. Len(rest) : rest[k] = code[k + i - 1]
    OBVIOUS
<1>3. ASSUME NEW k \in 1 .. Len(rest)
      PROVE  k \in Ends(rest) <=> k + i - 1 \in Ends(code)
    <2>1. k + i - 1 \in 1 .. Len(code) /\ rest[k] = code[k + i - 1]
        BY <1>1, <1>2
    <2>2. Quotes(code, k + i - 1) = Quotes(code, i) + Quotes(rest, k)
        <3>1. k \in 1 .. Len(code) - i + 2
            BY <1>1, <1>2
        <3>2. \A l \in 1 .. Len(code) - i + 2 : Quotes(code, l + i - 1) = Quotes(code, i) + Quotes(rest, l)
            BY <1>1, <1>2, QuotesOfRest
        <3>3. QED
            BY <3>1, <3>2
    <2>3. Quotes(code, i) \in Nat /\ Quotes(code, i) % 2 = 0
        BY QuotesEven
    <2>4. Quotes(rest, k) \in Nat
        <3>1. k \in 1 .. Len(rest) + 1
            BY <1>2
        <3>2. QED
            BY <1>2, <3>1, QuotesType
    <2>5. Quotes(code, k + i - 1) % 2 = 0 <=> Quotes(rest, k) % 2 = 0
        BY <2>2, <2>3, <2>4, EvenSum
    <2>6. k \in Ends(rest) <=> rest[k] = Terminator /\ Quotes(rest, k) % 2 = 0
        BY <1>2, EndsAre
    <2>7. k + i - 1 \in Ends(code) <=> code[k + i - 1] = Terminator /\ Quotes(code, k + i - 1) % 2 = 0
        BY <2>1, EndsAre
    <2>8. QED
        BY <2>1, <2>5, <2>6, <2>7
<1>4. QED
    BY <1>2, <1>3

\* The statement that begins at i ends at the first end after p, or with the
\* text if there is none.
LEMMA StatementEndsAt ==
    ASSUME NEW S, NEW code \in Seq(S), NEW p, NEW i, Between(code, p, i), i <= Len(code),
           NEW e, e = i - 1 + FindStatementEnd(SubSeq(code, i, Len(code)))
    PROVE  /\ e \in i - 1 .. Len(code) /\ e \in Int /\ p < i
           /\ \/ e \in Ends(code) /\ e >= i /\ \A k \in Ends(code) : k > p => k >= e
              \/ e = Len(code) /\ \A k \in Ends(code) : k <= p
<1> DEFINE rest == SubSeq(code, i, Len(code))
           f == FindStatementEnd(rest)
<1>1. /\ rest \in Seq(S) /\ Len(rest) = Len(code) - i + 1
      /\ \A k \in 1 .. Len(rest) : k \in Ends(rest) <=> k + i - 1 \in Ends(code)
    <2>1. i \in 1 .. Len(code)
        BY EndsAre DEF Between
    <2>2. /\ rest \in Seq(S) /\ Len(rest) = Len(code) - i + 1
          /\ \A k \in 1 .. Len(rest) : rest[k] = code[k + i - 1]
        BY <2>1, SubSeqProperties
    <2> HIDE DEF rest
    <2>3. QED
        BY <2>2, EndsOfRest
<1> HIDE DEF rest
<1>2. \/ f \in Ends(rest) /\ \A k \in Ends(rest) : f <= k
      \/ f = Len(rest) /\ Ends(rest) = {}
    BY <1>1, StatementEnd
<1>3. p \in 0 .. Len(code) /\ i \in p + 1 .. Len(code)
    BY EndsAre DEF Between
<1>4. ASSUME NEW k \in Ends(code), k > p
      PROVE  k - i + 1 \in 1 .. Len(rest) /\ k - i + 1 \in Ends(rest)
    <2>1. k \in 1 .. Len(code) /\ code[k] = Terminator
        BY EndsAre
    <2>2. k \notin p + 1 .. i - 1
        BY <2>1, BlanksArePlain DEF Between
    <2>3. k >= i
        BY <1>3, <1>4, <2>1, <2>2
    <2>4. k - i + 1 \in 1 .. Len(rest) /\ (k - i + 1) + i - 1 = k
        BY <1>1, <1>3, <2>1, <2>3
    <2>5. QED
        BY <1>1, <2>4
<1>5. e = i - 1 + f
    BY DEF rest
<1> HIDE DEF f
<1>6. CASE f \in Ends(rest) /\ \A k \in Ends(rest) : f <= k
    <2>1. f \in 1 .. Len(rest)
        BY <1>1, <1>6, EndsAre
    <2>2. e \in Ends(code) /\ e >= i /\ e <= Len(code)
        <3>1. f + i - 1 \in Ends(code) /\ f + i - 1 = e
            <4>1. f + i - 1 \in Ends(code)
                BY <1>1, <1>6, <2>1
            <4>2. QED
                BY <4>1, <1>3, <1>5, <2>1
        <3>2. QED
            BY <3>1, <1>1, <1>3, <2>1
    <2>3. ASSUME NEW k \in Ends(code), k > p PROVE k >= e
        <3>1. f <= k - i + 1
            BY <1>4, <1>6, <2>3
        <3>2. k \in 1 .. Len(code)
            BY EndsAre
        <3>3. QED
            BY <3>1, <3>2, <1>3, <1>5, <2>1
    <2>4. QED
        BY <2>2, <2>3, <1>3
<1>7. CASE f = Len(rest) /\ Ends(rest) = {}
    <2>1. e = Len(code)
        BY <1>1, <1>3, <1>5, <1>7
    <2>2. \A k \in Ends(code) : ~ (k > p)
        BY <1>4, <1>7
    <2>3. \A k \in Ends(code) : k \in Nat
        BY EndsAre
    <2>4. QED
        BY <2>1, <2>2, <2>3, <1>3
<1>8. QED
    BY <1>2, <1>6, <1>7

\* Without the whitespace a text begins with it begins at its first other
\* character.
LEMMA SkipWhiteFrom ==
    ASSUME NEW S, NEW code \in Seq(S), NEW p \in Nat, NEW i \in p + 1 .. Len(code) + 1,
           NEW e \in i - 1 .. Len(code),
           \A k \in p + 1 .. i - 1 : code[k] \in Blanks, i <= e => code[i] \notin Blanks
    PROVE  SkipWhite(SubSeq(code, p + 1, e)) = SubSeq(code, i, e)
<1> DEFINE piece == SubSeq(code, p + 1, e)
           Stops(j) == /\ j > Len(piece) \/ piece[j] \notin Blanks
                       /\ \A k \in 1 .. j - 1 : piece[k] \in Blanks
<1>1. /\ piece \in Seq(S) /\ Len(piece) = e - p
      /\ \A k \in 1 .. e - p : piece[k] = code[k + p] /\ k + p \in 1 .. Len(code)
    <2>1. p + 1 \in Int /\ e \in Int /\ \A k \in p + 1 .. e : code[k] \in S
        OBVIOUS
    <2>2. /\ piece \in Seq(S)
          /\ Len(piece) = IF p + 1 <= e THEN e - (p + 1) + 1 ELSE 0
          /\ \A k \in 1 .. e - (p + 1) + 1 : piece[k] = code[(p + 1) + k - 1]
        BY <2>1, SubSeqProperties
    <2> HIDE DEF piece
    <2>3. \A k \in 1 .. e - p : (p + 1) + k - 1 = k + p /\ k + p \in 1 .. Len(code)
        OBVIOUS
    <2>4. QED
        BY <2>2, <2>3
<1> HIDE DEF piece
<1>2. i - p \in 1 .. Len(piece) + 1 /\ Stops(i - p)
    <2>1. i - p \in 1 .. Len(piece) + 1
        BY <1>1
    <2>2. ASSUME i - p <= Len(piece) PROVE piece[i - p] \notin Blanks
        <3>1. i <= e /\ i - p \in 1 .. e - p /\ (i - p) + p = i
            BY <2>2, <1>1
        <3>2. QED
            BY <3>1, <1>1
    <2>3. \A k \in 1 .. (i - p) - 1 : k \in 1 .. e - p /\ k + p \in p + 1 .. i - 1
        OBVIOUS
    <2>4. \A k \in 1 .. (i - p) - 1 : piece[k] \in Blanks
        BY <1>1, <2>3
    <2>5. QED
        BY <2>1, <2>2, <2>4, <1>1
<1>3. \A j \in 1 .. Len(piece) + 1 : Stops(j) => j = i - p
    <2> SUFFICES ASSUME NEW j \in 1 .. Len(piece) + 1, Stops(j), j # i - p PROVE FALSE
        OBVIOUS
    <2>1. CASE j < i - p
        <3>1. j \in 1 .. (i - p) - 1 /\ ~ (j > Len(piece))
            BY <2>1, <1>1, <1>2
        <3>2. QED
            BY <3>1, <1>2
    <2>2. CASE j > i - p
        <3>1. i - p \in 1 .. j - 1 /\ ~ (i - p > Len(piece))
            BY <2>2, <1>1, <1>2
        <3>2. QED
            BY <3>1, <1>2
    <2>3. QED
        BY <2>1, <2>2, <1>1
<1>4. SkipWhite(piece) = SubSeq(piece, i - p, Len(piece))
    <2>1. (CHOOSE j \in 1 .. Len(piece) + 1 : Stops(j)) = i - p
        BY <1>2, <1>3
    <2>2. QED
        BY <2>1 DEF SkipWhite
<1>5. SubSeq(piece, i - p, Len(piece)) = SubSeq(code, i, e)
    <2>1. \A k \in i - p .. e - p : k \in 1 .. e - p
        BY <1>1
    <2>2. /\ SubSeq(piece, i - p, e - p) \in Seq(S)
          /\ Len(SubSeq(piece, i - p, e - p)) = IF i - p <= e - p THEN (e - p) - (i - p) + 1 ELSE 0
          /\ \A k \in 1 .. (e - p) - (i - p) + 1 : SubSeq(piece, i - p, e - p)[k] = piece[(i - p) + k - 1]
        <3>1. i - p \in Int /\ e - p \in Int /\ \A k \in i - p .. e - p : piece[k] \in S
            BY <1>1, <2>1
        <3>2. QED
            BY <3>1, SubSeqProperties
    <2>3. /\ SubSeq(code, i, e) \in Seq(S)
          /\ Len(SubSeq(code, i, e)) = IF i <= e THEN e - i + 1 ELSE 0
          /\ \A k \in 1 .. e - i + 1 : SubSeq(code, i, e)[k] = code[i + k - 1]
        <3>1. i \in Int /\ e \in Int /\ \A k \in i .. e : code[k] \in S
            OBVIOUS
        <3>2. QED
            BY <3>1, SubSeqProperties
    <2>4. \A k \in 1 .. e - i + 1 : /\ k \in 1 .. (e - p) - (i - p) + 1
                                   /\ (i - p) + k - 1 \in 1 .. e - p /\ ((i - p) + k - 1) + p = i + k - 1
        OBVIOUS
    <2>5. \A k \in 1 .. e - i + 1 : SubSeq(piece, i - p, e - p)[k] = SubSeq(code, i, e)[k]
        <3> SUFFICES ASSUME NEW k \in 1 .. e - i + 1
                     PROVE  SubSeq(piece, i - p, e - p)[k] = SubSeq(code, i, e)[k]
            OBVIOUS
        <3>1. SubSeq(piece, i - p, e - p)[k] = piece[(i - p) + k - 1]
            BY <2>2, <2>4
        <3>2. SubSeq(code, i, e)[k] = code[i + k - 1]
            BY <2>3
        <3>3. piece[(i - p) + k - 1] = code[((i - p) + k - 1) + p]
            BY <2>4, <1>1
        <3>4. QED
            BY <2>4, <3>1, <3>2, <3>3
    <2>6. Len(SubSeq(piece, i - p, e - p)) = Len(SubSeq(code, i, e))
        BY <2>2, <2>3
    <2>7. SubSeq(piece, i - p, e - p) = SubSeq(code, i, e)
        <3>1. \A k \in 1 .. Len(SubSeq(code, i, e)) : k \in 1 .. e - i + 1
            BY <2>3
        <3>2. QED
            BY <2>2, <2>3, <2>5, <2>6, <3>1, SeqEqual
    <2>8. QED
        BY <2>7, <1>1
<1>6. QED
    BY <1>4, <1>5 DEF piece

\* Whitespace before does not matter to SkipWhite.
LEMMA SkipWhiteSame ==
    ASSUME NEW S, NEW code \in Seq(S), NEW p \in Nat, NEW i \in p + 1 .. Len(code) + 1,
           NEW e \in i - 1 .. Len(code),
           \A k \in p + 1 .. i - 1 : code[k] \in Blanks
    PROVE  SkipWhite(SubSeq(code, p + 1, e)) = SkipWhite(SubSeq(code, i, e))
<1> DEFINE Stops == {j \in i .. e + 1 : j <= e => code[j] \notin Blanks}
<1>1. Stops \in SUBSET Nat /\ e + 1 \in Stops
    OBVIOUS
<1>2. PICK j \in Stops : \A m \in Stops : j <= m
    <2> HIDE DEF Stops
    <2>1. QED
        BY <1>1, LeastElement
<1>3. \A k \in i .. j - 1 : code[k] \in Blanks
    <2> SUFFICES ASSUME NEW k \in i .. j - 1, code[k] \notin Blanks PROVE FALSE
        OBVIOUS
    <2>1. k \in Stops
        BY <1>2
    <2>2. QED
        BY <1>2, <2>1
<1>4. j \in i .. e + 1 /\ (j <= e => code[j] \notin Blanks)
    BY <1>2
<1>5. \A k \in p + 1 .. j - 1 : code[k] \in Blanks
    <2>1. \A k \in p + 1 .. j - 1 : k \in p + 1 .. i - 1 \/ k \in i .. j - 1
        BY <1>4
    <2>2. QED
        BY <1>3, <2>1
<1>6. j \in p + 1 .. Len(code) + 1 /\ e \in j - 1 .. Len(code)
    BY <1>4
<1>7. SkipWhite(SubSeq(code, p + 1, e)) = SubSeq(code, j, e)
    BY <1>4, <1>5, <1>6, SkipWhiteFrom
<1>8. SkipWhite(SubSeq(code, i, e)) = SubSeq(code, j, e)
    <2>1. i - 1 \in Nat /\ (i - 1) + 1 = i
        OBVIOUS
    <2>2. SkipWhite(SubSeq(code, (i - 1) + 1, e)) = SubSeq(code, j, e)
        <3>1. j \in (i - 1) + 1 .. Len(code) + 1 /\ \A k \in (i - 1) + 1 .. j - 1 : code[k] \in Blanks
            BY <1>3, <1>4, <1>6, <2>1
        <3>2. QED
            BY <1>4, <1>6, <2>1, <3>1, SkipWhiteFrom
    <2>3. QED
        BY <2>1, <2>2
<1>9. QED
    BY <1>7, <1>8

\* HasContent sees what a text says.
LEMMA ContentIsSaid ==
    ASSUME NEW S, NEW code \in Seq(S)
    PROVE  HasContent(code) <=> Says(code)
BY DEF HasContent, Says, Range

LEMMA PartIs ==
    ASSUME NEW S, NEW t \in Seq(S), NEW a \in 1 .. Len(t) + 1, NEW b \in a - 1 .. Len(t)
    PROVE  /\ SubSeq(t, a, b) \in Seq(S) /\ Len(SubSeq(t, a, b)) = b - a + 1
           /\ \A k \in 1 .. b - a + 1 : SubSeq(t, a, b)[k] = t[a + k - 1]
<1>1. a \in Int /\ b \in Int /\ \A k \in a .. b : t[k] \in S
    OBVIOUS
<1>2. /\ SubSeq(t, a, b) \in Seq(S)
      /\ Len(SubSeq(t, a, b)) = IF a <= b THEN b - a + 1 ELSE 0
      /\ \A k \in 1 .. b - a + 1 : SubSeq(t, a, b)[k] = t[a + k - 1]
    BY <1>1, SubSeqProperties
<1>3. b - a + 1 = IF a <= b THEN b - a + 1 ELSE 0
    BY <1>1
<1>4. QED
    BY <1>2, <1>3

\* A part of the rest of a text is a part of the text.
LEMMA PartOfRest ==
    ASSUME NEW S, NEW t \in Seq(S), NEW a \in 1 .. Len(t) + 1, NEW r \in Seq(S), Len(r) = Len(t) - a + 1,
           \A k \in 1 .. Len(t) - a + 1 : r[k] = t[a + k - 1],
           NEW c \in 1 .. Len(r) + 1, NEW d \in c - 1 .. Len(r),
           NEW from, from = a + c - 1, NEW to, to = a + d - 1
    PROVE  SubSeq(r, c, d) = SubSeq(t, from, to)
<1>1. from \in 1 .. Len(t) + 1 /\ to \in from - 1 .. Len(t) /\ to - from + 1 = d - c + 1 /\ d - c + 1 \in Nat
    OBVIOUS
<1>2. /\ SubSeq(t, from, to) \in Seq(S) /\ Len(SubSeq(t, from, to)) = d - c + 1
      /\ \A k \in 1 .. d - c + 1 : SubSeq(t, from, to)[k] = t[from + k - 1]
    <2>1. /\ SubSeq(t, from, to) \in Seq(S) /\ Len(SubSeq(t, from, to)) = to - from + 1
          /\ \A k \in 1 .. to - from + 1 : SubSeq(t, from, to)[k] = t[from + k - 1]
        BY <1>1, PartIs
    <2>2. QED
        BY <1>1, <2>1
<1>3. /\ SubSeq(r, c, d) \in Seq(S) /\ Len(SubSeq(r, c, d)) = d - c + 1
      /\ \A k \in 1 .. d - c + 1 : SubSeq(r, c, d)[k] = r[c + k - 1]
    BY PartIs
<1>4. ASSUME NEW k \in 1 .. d - c + 1 PROVE SubSeq(r, c, d)[k] = SubSeq(t, from, to)[k]
    <2>1. c + k - 1 \in 1 .. Len(t) - a + 1 /\ a + (c + k - 1) - 1 = from + k - 1
        OBVIOUS
    <2>2. r[c + k - 1] = t[from + k - 1]
        BY <2>1
    <2>3. QED
        BY <1>2, <1>3, <2>2
<1>5. QED
    BY <1>2, <1>3, <1>4, SeqEqual

\* Where the whitespace after position e ends.
LEMMA WhiteEnds ==
    ASSUME NEW S, NEW t \in Seq(S), NEW e \in 0 .. Len(t)
    PROVE  \E s \in e + 1 .. Len(t) + 1 : /\ \A k \in e + 1 .. s - 1 : t[k] \in Blanks
                                          /\ s <= Len(t) => t[s] \notin Blanks
<1> DEFINE Stops == {s \in e + 1 .. Len(t) + 1 : s <= Len(t) => t[s] \notin Blanks}
<1>1. Stops \in SUBSET Nat /\ Len(t) + 1 \in Stops
    OBVIOUS
<1>2. PICK s \in Stops : \A x \in Stops : s <= x
    <2> HIDE DEF Stops
    <2>1. QED
        BY <1>1, LeastElement
<1>3. \A k \in e + 1 .. s - 1 : t[k] \in Blanks
    <2> SUFFICES ASSUME NEW k \in e + 1 .. s - 1 PROVE t[k] \in Blanks
        OBVIOUS
    <2>1. k \notin Stops
        BY <1>2
    <2>2. k \in e + 1 .. Len(t) + 1
        BY <1>2
    <2>3. QED
        BY <2>1, <2>2
<1>4. QED
    BY <1>2, <1>3

\* The ends of the pieces that say something, those up to p, and the k-th.
Said(code) == {e \in Ends(code) : Says(Piece(code, e))}
SaidUpTo(code, p) == {f \in Said(code) : f <= p}
Nth(E, k) == CHOOSE e \in E : Cardinality({f \in E : f <= e}) = k

LEMMA StatementsAre ==
    ASSUME NEW S, NEW code \in Seq(S)
    PROVE  /\ Said(code) \subseteq 1 .. Len(code)
           /\ IsFiniteSet(Said(code)) /\ Cardinality(Said(code)) \in Nat
           /\ \A p : IsFiniteSet(SaidUpTo(code, p)) /\ Cardinality(SaidUpTo(code, p)) \in Nat
           /\ Statements(code) = [k \in 1 .. Cardinality(Said(code)) |-> SkipWhite(Piece(code, Nth(Said(code), k)))]
<1>1. Said(code) \subseteq Ends(code) /\ IsFiniteSet(Ends(code)) /\ Ends(code) \subseteq 1 .. Len(code)
    BY EndsAre DEF Said
<1>2. IsFiniteSet(Said(code))
    BY <1>1, FS_Subset
<1>3. \A p : IsFiniteSet(SaidUpTo(code, p)) /\ Cardinality(SaidUpTo(code, p)) \in Nat
    BY <1>2, FS_Subset, FS_CardinalityType DEF SaidUpTo
<1>4. Statements(code) = [k \in 1 .. Cardinality(Said(code)) |-> SkipWhite(Piece(code, Nth(Said(code), k)))]
    BY DEF Statements, Said, Nth
<1>5. QED
    BY <1>1, <1>2, <1>3, <1>4, FS_CardinalityType

\* The elements of a finite set of numbers are numbered by counting those up to
\* them.
LEMMA NthIs ==
    ASSUME NEW E \in SUBSET Nat, IsFiniteSet(E), NEW e \in E
    PROVE  /\ Cardinality({f \in E : f <= e}) \in 1 .. Cardinality(E)
           /\ Nth(E, Cardinality({f \in E : f <= e})) = e
<1> DEFINE upTo(x) == {f \in E : f <= x}
<1>1. \A x \in E : IsFiniteSet(upTo(x)) /\ Cardinality(upTo(x)) \in Nat /\ Cardinality(upTo(x)) <= Cardinality(E)
    BY FS_Subset, FS_CardinalityType
<1>2. \A x \in E : Cardinality(upTo(x)) # 0
    <2>1. \A x \in E : upTo(x) # {}
        OBVIOUS
    <2> HIDE DEF upTo
    <2>2. QED
        BY <1>1, <2>1, FS_EmptySet
<1>3. ASSUME NEW x \in E, NEW y \in E, x < y
      PROVE  Cardinality(upTo(x)) # Cardinality(upTo(y))
    <2>1. upTo(x) \subseteq upTo(y) /\ y \in upTo(y) /\ y \notin upTo(x)
        <3>1. \A f \in E : f \in Nat
            OBVIOUS
        <3>2. \A f \in E : f <= x => f <= y
            BY <1>3, <3>1
        <3>3. y <= y /\ ~ (y <= x)
            BY <1>3, <3>1
        <3>4. QED
            BY <3>2, <3>3
    <2> HIDE DEF upTo
    <2>2. QED
        BY <1>1, <2>1, FS_Subset
<1>4. \A x \in E : Cardinality(upTo(x)) = Cardinality(upTo(e)) => x = e
    <2> HIDE DEF upTo
    <2>1. \A x \in E : x < e \/ e < x \/ x = e
        OBVIOUS
    <2>2. QED
        BY <1>3, <2>1
<1>5. Nth(E, Cardinality(upTo(e))) = e
    BY <1>4 DEF Nth
<1>6. Cardinality(E) \in Nat
    BY FS_CardinalityType
<1> HIDE DEF upTo
<1>7. Cardinality(upTo(e)) \in 1 .. Cardinality(E)
    BY <1>1, <1>2, <1>6
<1>8. QED
    BY <1>5, <1>7 DEF upTo

LEMMA EndBeforeIs ==
    ASSUME NEW S, NEW code \in Seq(S), NEW p \in {0} \cup Ends(code), NEW e \in Nat, p < e,
           \A k \in Ends(code) : k > p => k >= e
    PROVE  EndBefore(code, e) = p
<1> DEFINE before == {0} \cup {f \in Ends(code) : f < e}
<1>1. \A k \in Ends(code) : k \in Nat
    BY EndsAre
<1>2. p \in before /\ (\A k \in before : k \in Nat /\ p >= k)
    BY <1>1
<1> HIDE DEF before
<1>3. Max(before) = p
    BY <1>2, MaxIs
<1>4. QED
    BY <1>3 DEF EndBefore, before

\* What a piece says it says after the whitespace it begins with.
LEMMA SaysAfterBlanks ==
    ASSUME NEW S, NEW code \in Seq(S), NEW p \in Nat, NEW i \in p + 1 .. Len(code) + 1,
           NEW e \in i - 1 .. Len(code),
           \A k \in p + 1 .. i - 1 : code[k] \in Blanks
    PROVE  Says(SubSeq(code, p + 1, e)) <=> Says(SubSeq(code, i, e))
<1> DEFINE said(k) == code[k] \notin Blanks \cup {Terminator}
<1>1. ASSUME NEW a \in 1 .. Len(code) + 1, a - 1 <= e
      PROVE  Says(SubSeq(code, a, e)) <=> \E k \in a .. e : said(k)
    <2> DEFINE part == SubSeq(code, a, e)
    <2>1. /\ part \in Seq(S) /\ Len(part) = e - a + 1
          /\ \A k \in 1 .. e - a + 1 : part[k] = code[a + k - 1]
        <3>1. a \in Int /\ e \in Int /\ \A k \in a .. e : code[k] \in S
            OBVIOUS
        <3>2. /\ part \in Seq(S) /\ Len(part) = IF a <= e THEN e - a + 1 ELSE 0
              /\ \A k \in 1 .. e - a + 1 : part[k] = code[a + k - 1]
            BY <3>1, SubSeqProperties
        <3> HIDE DEF part
        <3>3. QED
            BY <3>2, <1>1
    <2> HIDE DEF part
    <2>2. DOMAIN part = 1 .. e - a + 1
        BY <2>1
    <2>3. ASSUME NEW k \in DOMAIN part, part[k] \notin Blanks \cup {Terminator}
          PROVE  \E l \in a .. e : said(l)
        <3>1. a + k - 1 \in a .. e /\ said(a + k - 1)
            BY <2>1, <2>2, <2>3
        <3>2. QED
            BY <3>1
    <2>4. ASSUME NEW k \in a .. e, said(k)
          PROVE  \E l \in DOMAIN part : part[l] \notin Blanks \cup {Terminator}
        <3>1. k - a + 1 \in 1 .. e - a + 1 /\ a + (k - a + 1) - 1 = k
            OBVIOUS
        <3>2. part[k - a + 1] \notin Blanks \cup {Terminator}
            BY <3>1, <2>1, <2>4
        <3>3. QED
            BY <3>1, <3>2, <2>2
    <2>5. QED
        BY <2>3, <2>4 DEF Says, part
<1>2. \A k \in p + 1 .. e : said(k) => k \in i .. e
    OBVIOUS
<1>3. \A k \in i .. e : k \in p + 1 .. e
    OBVIOUS
<1>4. Says(SubSeq(code, p + 1, e)) <=> \E k \in p + 1 .. e : said(k)
    <2>1. p + 1 \in 1 .. Len(code) + 1 /\ (p + 1) - 1 <= e
        OBVIOUS
    <2> HIDE DEF said
    <2>2. QED
        BY <1>1, <2>1
<1>5. Says(SubSeq(code, i, e)) <=> \E k \in i .. e : said(k)
    <2>1. i \in 1 .. Len(code) + 1 /\ i - 1 <= e
        OBVIOUS
    <2> HIDE DEF said
    <2>2. QED
        BY <1>1, <2>1
<1>6. QED
    BY <1>2, <1>3, <1>4, <1>5

\* The statement that begins at i and ends at e is the next one, if it says
\* something.
LEMMA NextStatement ==
    ASSUME NEW S, NEW code \in Seq(S), NEW p, NEW i, Between(code, p, i),
           i <= Len(code) => code[i] \notin Blanks,
           NEW e \in Ends(code), e >= i, \A k \in Ends(code) : k > p => k >= e
    PROVE  /\ ~ Says(SubSeq(code, i, e)) => SaidUpTo(code, e) = SaidUpTo(code, p)
           /\ Says(SubSeq(code, i, e)) =>
                 /\ Cardinality(SaidUpTo(code, e)) = Cardinality(SaidUpTo(code, p)) + 1
                 /\ Cardinality(SaidUpTo(code, e)) \in 1 .. Cardinality(Said(code))
                 /\ Statements(code)[Cardinality(SaidUpTo(code, e))] = SubSeq(code, i, e)
<1>1. p \in Nat /\ i \in p + 1 .. Len(code) + 1 /\ e \in i .. Len(code) /\ e \in i - 1 .. Len(code)
    BY EndsAre DEF Between
<1>2. Piece(code, e) = SubSeq(code, p + 1, e)
    <2>1. p \in {0} \cup Ends(code) /\ p < e /\ e \in Nat
        BY <1>1 DEF Between
    <2>2. EndBefore(code, e) = p
        BY <2>1, EndBeforeIs
    <2>3. QED
        BY <2>2 DEF Piece
<1>3. \A k \in p + 1 .. i - 1 : code[k] \in Blanks
    BY DEF Between
<1>4. e \in Said(code) <=> Says(SubSeq(code, i, e))
    <2>1. Says(SubSeq(code, p + 1, e)) <=> Says(SubSeq(code, i, e))
        BY <1>1, <1>3, SaysAfterBlanks
    <2>2. QED
        BY <1>2, <2>1 DEF Said
<1>5. \A f \in Said(code) : f \in Ends(code) /\ f \in Nat
    BY EndsAre DEF Said
<1>6. \A f \in Said(code) : f <= e <=> f <= p \/ f = e
    BY <1>1, <1>5
<1>7. CASE ~ Says(SubSeq(code, i, e))
    BY <1>4, <1>6, <1>7 DEF SaidUpTo
<1>8. CASE Says(SubSeq(code, i, e))
    <2>1. SaidUpTo(code, e) = SaidUpTo(code, p) \cup {e} /\ e \notin SaidUpTo(code, p)
        BY <1>1, <1>4, <1>6, <1>8 DEF SaidUpTo
    <2>2. Cardinality(SaidUpTo(code, e)) = Cardinality(SaidUpTo(code, p)) + 1
        BY <2>1, StatementsAre, FS_AddElement
    <2>3. Said(code) \in SUBSET Nat /\ IsFiniteSet(Said(code)) /\ e \in Said(code)
        BY <1>4, <1>5, <1>8, StatementsAre
    <2>4. /\ Cardinality({f \in Said(code) : f <= e}) \in 1 .. Cardinality(Said(code))
          /\ Nth(Said(code), Cardinality({f \in Said(code) : f <= e})) = e
        BY <2>3, NthIs
    <2>5. /\ Cardinality(SaidUpTo(code, e)) \in 1 .. Cardinality(Said(code))
          /\ Nth(Said(code), Cardinality(SaidUpTo(code, e))) = e
        BY <2>4 DEF SaidUpTo
    <2>6. Statements(code)[Cardinality(SaidUpTo(code, e))] = SkipWhite(Piece(code, e))
        BY <2>5, StatementsAre
    <2>7. SkipWhite(SubSeq(code, p + 1, e)) = SubSeq(code, i, e)
        <3>1. i <= e => code[i] \notin Blanks
            BY <1>1 DEF Between
        <3>2. QED
            BY <1>1, <1>3, <3>1, SkipWhiteFrom
    <2>8. QED
        BY <1>2, <1>8, <2>2, <2>5, <2>6, <2>7
<1>9. QED
    BY <1>7, <1>8

\* What follows the last end is not finished.
LEMMA LastStatement ==
    ASSUME NEW S, NEW code \in Seq(S), NEW p, NEW i, Between(code, p, i),
           i <= Len(code) => code[i] \notin Blanks,
           \A k \in Ends(code) : k <= p
    PROVE  /\ SaidUpTo(code, p) = Said(code)
           /\ Unfinished(code) = SubSeq(code, i, Len(code))
<1>1. p \in Nat /\ i \in p + 1 .. Len(code) + 1 /\ p \in {0} \cup Ends(code) /\ Len(code) \in i - 1 .. Len(code)
    BY EndsAre DEF Between
<1>2. \A k \in Ends(code) : k \in Nat
    BY EndsAre
<1>3. SaidUpTo(code, p) = Said(code)
    BY DEF SaidUpTo, Said
<1>4. EndBefore(code, Len(code) + 1) = p
    <2>1. \A k \in Ends(code) : k > p => k >= Len(code) + 1
        BY <1>1, <1>2
    <2>2. p < Len(code) + 1 /\ Len(code) + 1 \in Nat
        BY <1>1
    <2>3. QED
        BY <1>1, <2>1, <2>2, EndBeforeIs
<1>5. SkipWhite(SubSeq(code, p + 1, Len(code))) = SubSeq(code, i, Len(code))
    <2>1. /\ \A k \in p + 1 .. i - 1 : code[k] \in Blanks
          /\ i <= Len(code) => code[i] \notin Blanks
        BY DEF Between
    <2>2. QED
        BY <1>1, <2>1, SkipWhiteFrom
<1>6. QED
    BY <1>3, <1>4, <1>5 DEF Unfinished

\* A nonempty finite set of numbers has a greatest element.
LEMMA GreatestElement ==
    ASSUME NEW n \in Nat, NEW E \in SUBSET (0 .. n), E # {}
    PROVE  \E x \in E : \A y \in E : y <= x
<1> DEFINE Away == {n - x : x \in E}
<1>1. Away \in SUBSET Nat /\ Away # {}
    <2>1. PICK x : x \in E
        OBVIOUS
    <2>2. n - x \in Away
        BY <2>1
    <2>3. \A y \in E : n - y \in Nat
        OBVIOUS
    <2>4. QED
        BY <2>2, <2>3
<1>2. PICK d \in Away : \A m \in Away : d <= m
    <2> HIDE DEF Away
    <2>1. QED
        BY <1>1, LeastElement
<1>3. PICK x \in E : d = n - x
    BY <1>2
<1>4. \A y \in E : n - x <= n - y
    BY <1>2, <1>3
<1>5. \A y \in E : y <= x
    <2> SUFFICES ASSUME NEW y \in E PROVE y <= x
        OBVIOUS
    <2>1. n - x <= n - y /\ x \in 0 .. n /\ y \in 0 .. n
        BY <1>4
    <2>2. QED
        BY <2>1
<1>6. QED
    BY <1>5

\* Counting up a finite set of numbers passes no number.
LEMMA NthExists ==
    ASSUME NEW n \in Nat, NEW E \in SUBSET (1 .. n), NEW k \in 1 .. Cardinality(E)
    PROVE  \E e \in E : Cardinality({f \in E : f <= e}) = k
<1> DEFINE upTo(x) == {f \in E : f <= x}
           enough == {x \in E : Cardinality(upTo(x)) >= k}
<1>1. IsFiniteSet(E) /\ Cardinality(E) \in Nat /\ E \in SUBSET (0 .. n) /\ E \in SUBSET Nat
    <2>1. IsFiniteSet(1 .. n)
        BY FS_Interval
    <2>2. IsFiniteSet(E)
        BY <2>1, FS_Subset
    <2>3. QED
        BY <2>2, FS_CardinalityType
<1>2. \A x : IsFiniteSet(upTo(x)) /\ Cardinality(upTo(x)) \in Nat
    BY <1>1, FS_Subset, FS_CardinalityType
<1>3. E # {}
    BY FS_EmptySet
<1>4. enough # {}
    <2>1. PICK x \in E : \A y \in E : y <= x
        BY <1>1, <1>3, GreatestElement
    <2>2. upTo(x) = E
        BY <2>1
    <2>3. Cardinality(upTo(x)) >= k
        BY <2>2, <1>1
    <2>4. QED
        BY <2>3
<1>5. PICK e \in enough : \A y \in enough : e <= y
    <2>1. enough \in SUBSET Nat
        BY <1>1
    <2> HIDE DEF enough
    <2>2. QED
        BY <1>4, <2>1, LeastElement
<1> DEFINE below == upTo(e) \ {e}
<1>6. e \in E /\ e \in upTo(e) /\ Cardinality(upTo(e)) >= k
    BY <1>1, <1>5
<1>7. IsFiniteSet(below) /\ Cardinality(below) = Cardinality(upTo(e)) - 1
    <2> HIDE DEF upTo
    <2>1. QED
        BY <1>2, <1>6, FS_RemoveElement
<1>8. ~ (Cardinality(below) >= k)
    <2> SUFFICES ASSUME Cardinality(below) >= k PROVE FALSE
        OBVIOUS
    <2>1. below # {}
        <3>1. Cardinality(below) # 0
            BY <1>2, <1>7
        <3>2. QED
            BY <3>1, FS_EmptySet
    <2>2. below \in SUBSET (0 .. n)
        BY <1>1
    <2>3. PICK x \in below : \A y \in below : y <= x
        <3> HIDE DEF below
        <3>1. QED
            BY <2>1, <2>2, GreatestElement
    <2>4. x \in E /\ x < e /\ x \in Nat
        BY <1>1, <1>6, <2>3
    <2>5. \A f \in E : f <= x <=> f \in below
        <3>1. \A f \in below : f <= x /\ f \in E
            BY <2>3
        <3>2. \A f \in E : f <= x => f \in below
            BY <1>1, <1>6, <2>4
        <3>3. QED
            BY <3>1, <3>2
    <2>6. upTo(x) = below
        BY <2>5
    <2>7. x \in enough
        BY <2>4, <2>6
    <2>8. QED
        BY <1>1, <1>5, <1>6, <2>4, <2>7
<1>9. Cardinality(upTo(e)) = k
    <2>1. Cardinality(upTo(e)) \in Nat /\ Cardinality(below) \in Int
        BY <1>2, <1>7
    <2> HIDE DEF below, upTo
    <2>2. QED
        BY <1>6, <1>7, <1>8, <2>1
<1>10. QED
    BY <1>6, <1>9

\* The statement from i to e, the next one, is the next of those that say
\* something, or says nothing.
LEMMA NextSaid ==
    ASSUME NEW S, NEW code \in Seq(S), NEW p, NEW i, Between(code, p, i),
           NEW e \in Ends(code), e >= i, \A k \in Ends(code) : k > p => k >= e
    PROVE  /\ ~ Says(SubSeq(code, i, e)) => SaidUpTo(code, e) = SaidUpTo(code, p)
           /\ Says(SubSeq(code, i, e)) =>
                 /\ SaidUpTo(code, e) = SaidUpTo(code, p) \cup {e}
                 /\ Cardinality(SaidUpTo(code, e)) = Cardinality(SaidUpTo(code, p)) + 1
           /\ SkipWhite(Piece(code, e)) = SkipWhite(SubSeq(code, i, e))
<1>1. p \in Nat /\ i \in p + 1 .. Len(code) + 1 /\ e \in i .. Len(code) /\ e \in i - 1 .. Len(code)
    BY EndsAre DEF Between
<1>2. Piece(code, e) = SubSeq(code, p + 1, e)
    <2>1. p \in {0} \cup Ends(code) /\ p < e /\ e \in Nat
        BY <1>1 DEF Between
    <2>2. EndBefore(code, e) = p
        BY <2>1, EndBeforeIs
    <2>3. QED
        BY <2>2 DEF Piece
<1>3. \A k \in p + 1 .. i - 1 : code[k] \in Blanks
    BY DEF Between
<1>4. e \in Said(code) <=> Says(SubSeq(code, i, e))
    <2>1. Says(SubSeq(code, p + 1, e)) <=> Says(SubSeq(code, i, e))
        BY <1>1, <1>3, SaysAfterBlanks
    <2>2. QED
        BY <1>2, <2>1 DEF Said
<1>5. \A f \in Said(code) : f \in Nat /\ (f > p => f >= e)
    BY EndsAre DEF Said
<1>6. \A f \in Said(code) : f <= e <=> f <= p \/ f = e
    BY <1>1, <1>5
<1>7. ~ Says(SubSeq(code, i, e)) => SaidUpTo(code, e) = SaidUpTo(code, p)
    BY <1>4, <1>6 DEF SaidUpTo
<1>8. Says(SubSeq(code, i, e)) => /\ SaidUpTo(code, e) = SaidUpTo(code, p) \cup {e}
                                 /\ e \notin SaidUpTo(code, p)
    BY <1>1, <1>4, <1>6 DEF SaidUpTo
<1>9. Says(SubSeq(code, i, e)) => Cardinality(SaidUpTo(code, e)) = Cardinality(SaidUpTo(code, p)) + 1
    BY <1>8, StatementsAre, FS_AddElement
<1>10. SkipWhite(SubSeq(code, p + 1, e)) = SkipWhite(SubSeq(code, i, e))
    BY <1>1, <1>3, SkipWhiteSame
<1>11. QED
    BY <1>2, <1>7, <1>8, <1>9, <1>10

\* Texts that begin with the same m characters.
SameUpTo(t, u, m) == m <= Len(t) /\ m <= Len(u) /\ \A k \in 1 .. m : t[k] = u[k]

\* They say the same up to m.
LEMMA SameStatements ==
    ASSUME NEW S, NEW t \in Seq(S), NEW u \in Seq(S), NEW m \in Nat, SameUpTo(t, u, m)
    PROVE  /\ \A k \in 1 .. m : k \in Ends(t) <=> k \in Ends(u)
           /\ \A k \in 1 .. m : k \in Ends(t) => Piece(t, k) = Piece(u, k)
           /\ \A p \in 0 .. m : SaidUpTo(t, p) = SaidUpTo(u, p)
<1>1. /\ Len(t) \in Nat /\ Len(u) \in Nat /\ m <= Len(t) /\ m <= Len(u)
      /\ \A k \in 1 .. m : t[k] = u[k]
    BY DEF SameUpTo
<1>2. \A k \in 1 .. m : Quotes(t, k) = Quotes(u, k)
    <2> SUFFICES ASSUME NEW k \in 1 .. m PROVE Quotes(t, k) = Quotes(u, k)
        OBVIOUS
    <2>1. {j \in 1 .. k - 1 : t[j] = Apostrophe} = {j \in 1 .. k - 1 : u[j] = Apostrophe}
        BY <1>1
    <2>2. QED
        BY <2>1 DEF Quotes
<1>3. ASSUME NEW k \in 1 .. m PROVE k \in Ends(t) <=> k \in Ends(u)
    <2>1. k \in 1 .. Len(t) /\ k \in 1 .. Len(u)
        BY <1>1
    <2>2. k \in Ends(t) <=> t[k] = Terminator /\ Quotes(t, k) % 2 = 0
        BY <2>1, EndsAre
    <2>3. k \in Ends(u) <=> u[k] = Terminator /\ Quotes(u, k) % 2 = 0
        BY <2>1, EndsAre
    <2>4. QED
        BY <1>1, <1>2, <2>2, <2>3
<1>4. ASSUME NEW k \in 1 .. m PROVE Piece(t, k) = Piece(u, k)
    <2>1. \A e \in Ends(t) : e < k => e \in 1 .. m
        <3>1. \A e \in Ends(t) : e \in 1 .. Len(t)
            BY EndsAre
        <3>2. QED
            BY <3>1
    <2>2. \A e \in Ends(u) : e < k => e \in 1 .. m
        <3>1. \A e \in Ends(u) : e \in 1 .. Len(u)
            BY EndsAre
        <3>2. QED
            BY <3>1
    <2>3. {e \in Ends(t) : e < k} = {e \in Ends(u) : e < k}
        BY <1>3, <2>1, <2>2
    <2>4. EndBefore(t, k) = EndBefore(u, k)
        BY <2>3 DEF EndBefore
    <2>5. PICK b : b = EndBefore(t, k)
        OBVIOUS
    <2>6. b \in Nat
        <3> DEFINE before == {0} \cup {e \in Ends(t) : e < k}
        <3>1. before \in SUBSET (0 .. m) /\ before # {}
            BY <2>1
        <3> HIDE DEF before
        <3>2. PICK x \in before : \A y \in before : y <= x
            BY <3>1, GreatestElement
        <3>3. \A y \in before : y \in Nat /\ x >= y
            BY <3>1, <3>2
        <3>4. Max(before) = x
            BY <3>3, MaxIs
        <3>5. QED
            BY <2>5, <3>3, <3>4 DEF EndBefore, before
    <2>7. SubSeq(t, b + 1, k) = SubSeq(u, b + 1, k)
        <3>1. \A i \in b + 1 .. k : i \in 1 .. m /\ i \in 1 .. Len(t) /\ i \in 1 .. Len(u)
            BY <1>1, <2>6
        <3>2. \A i \in b + 1 .. k : t[i] \in S /\ u[i] \in S /\ t[i] = u[i]
            BY <1>1, <3>1
        <3>3. /\ SubSeq(t, b + 1, k) \in Seq(S)
              /\ Len(SubSeq(t, b + 1, k)) = IF b + 1 <= k THEN k - (b + 1) + 1 ELSE 0
              /\ \A i \in 1 .. k - (b + 1) + 1 : SubSeq(t, b + 1, k)[i] = t[(b + 1) + i - 1]
            BY <2>6, <3>2, SubSeqProperties
        <3>4. /\ SubSeq(u, b + 1, k) \in Seq(S)
              /\ Len(SubSeq(u, b + 1, k)) = IF b + 1 <= k THEN k - (b + 1) + 1 ELSE 0
              /\ \A i \in 1 .. k - (b + 1) + 1 : SubSeq(u, b + 1, k)[i] = u[(b + 1) + i - 1]
            BY <2>6, <3>2, SubSeqProperties
        <3>5. \A i \in 1 .. Len(SubSeq(t, b + 1, k)) :
                  i \in 1 .. k - (b + 1) + 1 /\ (b + 1) + i - 1 \in b + 1 .. k
            BY <2>6, <3>3
        <3>6. \A i \in 1 .. Len(SubSeq(t, b + 1, k)) : SubSeq(t, b + 1, k)[i] = SubSeq(u, b + 1, k)[i]
            BY <3>2, <3>3, <3>4, <3>5
        <3>7. Len(SubSeq(t, b + 1, k)) = Len(SubSeq(u, b + 1, k))
            BY <3>3, <3>4
        <3>8. QED
            BY <3>3, <3>4, <3>6, <3>7, SeqEqual
    <2>8. QED
        BY <2>4, <2>5, <2>7 DEF Piece
<1>5. ASSUME NEW p \in 0 .. m PROVE SaidUpTo(t, p) = SaidUpTo(u, p)
    <2>1. \A e \in Said(t) : e <= p => e \in 1 .. m /\ e \in Ends(t)
        <3>1. \A e \in Said(t) : e \in 1 .. Len(t) /\ e \in Ends(t)
            BY EndsAre DEF Said
        <3>2. QED
            BY <3>1
    <2>2. \A e \in Said(u) : e <= p => e \in 1 .. m /\ e \in Ends(u)
        <3>1. \A e \in Said(u) : e \in 1 .. Len(u) /\ e \in Ends(u)
            BY EndsAre DEF Said
        <3>2. QED
            BY <3>1
    <2>3. \A e \in Said(t) : e <= p => e \in Said(u)
        BY <1>3, <1>4, <2>1 DEF Said
    <2>4. \A e \in Said(u) : e <= p => e \in Said(t)
        BY <1>3, <1>4, <2>2 DEF Said
    <2>5. QED
        BY <2>3, <2>4 DEF SaidUpTo
<1>6. QED
    BY <1>3, <1>4, <1>5
-----------------------------------------------------------------------------
(* The lexer and the splitter. *)

\* Appending, to a sequence of anything.
LEMMA AppendTo ==
    ASSUME NEW n \in Nat, NEW s, s = [k \in 1 .. n |-> s[k]], NEW e
    PROVE  Append(s, e) = [k \in 1 .. n + 1 |-> IF k = n + 1 THEN e ELSE s[k]]
<1> DEFINE S == {s[k] : k \in 1 .. n} \cup {e}
<1>1. s \in [1 .. n -> S]
    OBVIOUS
<1>2. s \in Seq(S) /\ Len(s) = n /\ e \in S
    BY <1>1
<1> HIDE DEF S
<1>3. QED
    BY <1>2, AppendProperties

\* What is plain does not end a statement and does not begin a string.
LEMMA CharactersOfTokens ==
    /\ Quote = Apostrophe /\ Semicolon = Terminator
    /\ \A c \in White \cup Digits \cup Letters \cup {".", "-"} : c # Apostrophe /\ c # Terminator /\ c # "end"
    /\ "end" # Quote
    /\ \A c \in Symbols : c # Apostrophe
    /\ \A c \in {"<=", ">=", "!=", "<", ">", "=", "!", "integer", "real", "string", "identifier", "error"} :
          c # Terminator /\ c # Apostrophe
<1>1. Quote = Apostrophe /\ Semicolon = Terminator
    BY Zenon DEF Quote, Apostrophe, Semicolon, Terminator
<1>2. \A c \in White \cup {".", "-"} : c # Apostrophe /\ c # Terminator /\ c # "end"
    BY Zenon DEF White, Apostrophe, Terminator
<1>3. Digits = {"0", "1", "2", "3", "4", "5", "6", "7", "8", "9"}
    <2>1. DOMAIN DigitAt = 1 .. 10
        BY DEF DigitAt
    <2>2. Digits = {DigitAt[k] : k \in 1 .. 10}
        BY <2>1 DEF Digits, Range
    <2>3. QED
        BY <2>2 DEF DigitAt
<1>4. \A c \in Digits : c # Apostrophe /\ c # Terminator /\ c # "end"
    BY <1>3, Zenon DEF Apostrophe, Terminator
<1>5. \A c \in Letters : c # Quote /\ c # Semicolon /\ c # "end"
    BY LettersAssumption, Zenon DEF Symbols
<1>6. \A c \in Symbols : c # Apostrophe
    BY Zenon DEF Symbols, Semicolon, Apostrophe
<1>7. \A c \in {"<=", ">=", "!=", "<", ">", "=", "!", "integer", "real", "string", "identifier", "error"} :
          c # Terminator /\ c # Apostrophe
    BY Zenon DEF Apostrophe, Terminator
<1>8. "end" # Quote
    BY Zenon DEF Quote
<1>9. QED
    BY <1>1, <1>2, <1>4, <1>5, <1>6, <1>7, <1>8

\* Between statement ends and strings the end stays the same.
LEMMA EndFromRun ==
    ASSUME NEW S, NEW t \in Seq(S), NEW b \in 1 .. Len(t) + 1
    PROVE  \A a \in 1 .. b :
              (\A k \in a .. b - 1 : t[k] # Apostrophe /\ t[k] # Terminator)
              => EndFrom(t, a) = EndFrom(t, b)
<1> DEFINE Plain(a) == \A k \in a .. b - 1 : t[k] # Apostrophe /\ t[k] # Terminator
           P == {a \in 1 .. b : Plain(a) => EndFrom(t, a) = EndFrom(t, b)}
<1>1. ASSUME NEW a \in 1 .. b, \A j \in a + 1 .. b : j \in P
      PROVE  a \in P
    <2> SUFFICES ASSUME Plain(a) PROVE EndFrom(t, a) = EndFrom(t, b)
        OBVIOUS
    <2>1. CASE a = b
        BY <2>1
    <2>2. CASE a # b
        <3>1. a \in 1 .. Len(t) /\ a + 1 \in a + 1 .. b /\ a \in a .. b - 1
            BY <2>2
        <3>2. EndFrom(t, a) = EndFrom(t, a + 1)
            BY <3>1, EndFromTurn
        <3>3. Plain(a + 1)
            BY <3>1
        <3>4. QED
            BY <3>1, <3>2, <3>3, <1>1
    <2>3. QED
        BY <2>1, <2>2
<1>2. \A a \in 1 .. b : a \in P
    <2> HIDE DEF P
    <2>1. b \in Nat
        OBVIOUS
    <2>2. QED
        BY <1>1, <2>1, InductionFromTheEnd
<1>3. QED
    BY <1>2

LEMMA RunEnds ==
    ASSUME src \in Seq(STRING), NEW S, "end" \notin S, NEW i \in 1 .. Len(src) + 1
    PROVE  /\ RunEnd(S, i) \in i .. Len(src) + 1
           /\ Char(RunEnd(S, i)) \notin S
           /\ \A k \in i .. RunEnd(S, i) - 1 : src[k] \in S
<1> DEFINE Stops == {j \in i .. Len(src) + 1 : Char(j) \notin S}
<1>1. Len(src) \in Nat /\ DOMAIN src = 1 .. Len(src)
    OBVIOUS
<1>2. Len(src) + 1 \in Stops
    BY <1>1 DEF Char
<1>3. PICK j \in Stops : \A m \in Stops : j <= m
    <2>1. Stops \in SUBSET Nat
        BY <1>1
    <2> HIDE DEF Stops
    <2>2. QED
        BY <2>1, <1>2, LeastElement
<1>4. \A k \in i .. j - 1 : src[k] \in S
    <2> SUFFICES ASSUME NEW k \in i .. j - 1, src[k] \notin S PROVE FALSE
        OBVIOUS
    <2>1. k \in Stops
        BY <1>1, <1>3 DEF Char
    <2>2. QED
        BY <2>1, <1>3, <1>1
<1>5. \E m \in i .. Len(src) + 1 : Char(m) \notin S /\ \A k \in i .. m - 1 : src[k] \in S
    BY <1>3, <1>4
<1>6. QED
    BY <1>5 DEF RunEnd
-----------------------------------------------------------------------------
\* The recursion of String.
IsFrom(f) ==
    f = [j \in 1 .. Len(src) + 1 |->
            IF j > Len(src) THEN [end |-> 0, text |-> <<>>]
              ELSE IF Char(j) # Quote THEN [f[j + 1] EXCEPT !.text = <<src[j]>> \o @]
              ELSE IF Char(j + 1) = Quote THEN [f[j + 2] EXCEPT !.text = <<Quote>> \o @]
              ELSE [end |-> j, text |-> <<>>]]

\* Its values.
Texted == [end : Nat, text : Seq(STRING \cup {Quote})]

LEMMA Prepending ==
    ASSUME NEW v \in Texted, NEW c \in STRING \cup {Quote}
    PROVE  /\ [v EXCEPT !.text = <<c>> \o @] \in Texted
           /\ [v EXCEPT !.text = <<c>> \o @].end = v.end
<1> DEFINE C == STRING \cup {Quote}
<1>1. v \in [end : Nat, text : Seq(C)] /\ c \in C
    BY DEF Texted
<1> HIDE DEF C
<1>2. <<c>> \o v.text \in Seq(C)
    <2>1. <<c>> \in Seq(C)
        BY <1>1
    <2>2. v.text \in Seq(C)
        BY <1>1
    <2>3. QED
        BY <2>1, <2>2, ConcatProperties
<1>3. /\ [v EXCEPT !.text = <<c>> \o @] \in [end : Nat, text : Seq(C)]
      /\ [v EXCEPT !.text = <<c>> \o @].end = v.end
    BY <1>1, <1>2
<1>4. QED
    BY <1>3 DEF Texted, C

LEMMA FromExists == src \in Seq(STRING) => \E f : IsFrom(f)
<1> SUFFICES ASSUME src \in Seq(STRING) PROVE \E f : IsFrom(f)
    OBVIOUS
<1> DEFINE n == Len(src) + 1
           C == STRING \cup {Quote}
           V == Texted
           Turn(j, f) ==
            IF j > Len(src) THEN [end |-> 0, text |-> <<>>]
              ELSE IF Char(j) # Quote THEN [f[j + 1] EXCEPT !.text = <<src[j]>> \o @]
              ELSE IF Char(j + 1) = Quote THEN [f[j + 2] EXCEPT !.text = <<Quote>> \o @]
              ELSE [end |-> j, text |-> <<>>]
           Body == [j \in 1 .. n |-> [f \in [1 .. n -> V] |-> Turn(j, f)]]
<1>1. Len(src) \in Nat /\ n \in Nat /\ DOMAIN src = 1 .. Len(src)
    OBVIOUS
<1>2. \A j \in 1 .. n : \A f \in [1 .. n -> V] : Body[j][f] = Turn(j, f)
    <2> HIDE DEF Turn
    <2>1. QED
        OBVIOUS
<1>3. ASSUME NEW j \in 1 .. n
      PROVE  /\ Char(j) # Quote /\ ~ (j > Len(src)) => j + 1 \in j + 1 .. n /\ src[j] \in C
             /\ ~ (j > Len(src)) /\ Char(j + 1) = Quote => j + 2 \in j + 1 .. n
             /\ j > Len(src) => Char(j) = "end"
    BY <1>1, CharactersOfTokens DEF Char
<1>4. \A j \in 1 .. n : \A k \in j + 1 .. n : k \in 1 .. n
    BY <1>1
<1>5. \A v \in V, c \in C : [v EXCEPT !.text = <<c>> \o @] \in V
    BY Prepending DEF Texted
<1>6. [end |-> 0, text |-> <<>>] \in V /\ \A j \in 1 .. n : [end |-> j, text |-> <<>>] \in V
    BY DEF Texted
<1>7. ASSUME NEW j \in 1 .. n, NEW f \in [1 .. n -> V] PROVE Turn(j, f) \in V
    <2> HIDE DEF n, V, C
    <2>1. CASE j > Len(src)
        <3>1. Turn(j, f) = [end |-> 0, text |-> <<>>]
            BY <2>1
        <3>2. QED
            BY <3>1, <1>6
    <2>2. CASE ~ (j > Len(src)) /\ Char(j) # Quote
        <3>1. f[j + 1] \in V /\ src[j] \in C
            BY <2>2, <1>3, <1>4
        <3>2. QED
            BY <2>2, <3>1, <1>5
    <2>3. CASE ~ (j > Len(src)) /\ Char(j) = Quote /\ Char(j + 1) = Quote
        <3>1. f[j + 2] \in V /\ Quote \in C
            BY <2>3, <1>3, <1>4 DEF C
        <3>2. QED
            BY <2>3, <3>1, <1>5
    <2>4. CASE ~ (j > Len(src)) /\ Char(j) = Quote /\ Char(j + 1) # Quote
        BY <2>4, <1>6
    <2>5. QED
        BY <2>1, <2>2, <2>3, <2>4
<1>8. ASSUME NEW j \in 1 .. n, NEW f \in [1 .. n -> V], NEW g \in [1 .. n -> V],
             \A k \in j + 1 .. n : f[k] = g[k]
      PROVE  Turn(j, f) = Turn(j, g)
    <2> HIDE DEF n, V, C
    <2>1. CASE j > Len(src)
        BY <2>1
    <2>2. CASE ~ (j > Len(src)) /\ Char(j) # Quote
        <3>1. f[j + 1] = g[j + 1]
            BY <2>2, <1>3, <1>8
        <3>2. QED
            BY <2>2, <3>1
    <2>3. CASE ~ (j > Len(src)) /\ Char(j) = Quote /\ Char(j + 1) = Quote
        <3>1. f[j + 2] = g[j + 2]
            BY <2>3, <1>3, <1>8
        <3>2. QED
            BY <2>3, <3>1
    <2>4. CASE ~ (j > Len(src)) /\ Char(j) = Quote /\ Char(j + 1) # Quote
        BY <2>4
    <2>5. QED
        BY <2>1, <2>2, <2>3, <2>4
<1>9. LooksAhead(n, V, Body)
    <2>1. Body \in [1 .. n -> [[1 .. n -> V] -> V]]
        <3> HIDE DEF Turn, V
        <3>1. QED
            BY <1>7
    <2>2. \A j \in 1 .. n : \A f, g \in [1 .. n -> V] :
             (\A k \in j + 1 .. n : f[k] = g[k]) => Body[j][f] = Body[j][g]
        <3> HIDE DEF Turn, V, Body
        <3>1. QED
            BY <1>2, <1>8
    <2> HIDE DEF Body, V
    <2>3. QED
        BY <2>1, <2>2 DEF LooksAhead
<1>10. PICK f \in [1 .. n -> V] : \A j \in 1 .. n : f[j] = Body[j][f]
    <2> HIDE DEF n, Body, V
    <2>1. V # {}
        BY <1>6
    <2>2. \E f : Solves(n, V, Body, f)
        BY <1>1, <1>9, <2>1, RecursionFromTheEnd
    <2>3. QED
        BY <2>2 DEF Solves
<1>11. f = [j \in 1 .. n |-> Turn(j, f)]
    <2> HIDE DEF Turn, V, Body
    <2>1. QED
        BY <1>10, <1>2
<1>12. IsFrom(f)
    BY <1>11 DEF IsFrom
<1>13. QED
    BY <1>12

\* What the lexer takes for a string the splitter does too.
LEMMA StringsAgree ==
    ASSUME src \in Seq(STRING), NEW i \in 1 .. Len(src), String(i).end # 0
    PROVE  /\ String(i).end \in i + 1 .. Len(src)
           /\ AfterString(src, i + 1) = String(i).end + 1
<1> DEFINE f == CHOOSE f : IsFrom(f)
           n == Len(src) + 1
           Agrees(j) == /\ f[j] \in Texted
                        /\ f[j].end # 0 => /\ f[j].end \in j .. Len(src)
                                        /\ AfterString(src, j) = f[j].end + 1
<1>1. String(i) = f[i + 1]
    BY DEF String, IsFrom
<1>2. IsFrom(f)
    BY FromExists
<1>3. Len(src) \in Nat /\ DOMAIN src = 1 .. Len(src)
    OBVIOUS
<1> HIDE DEF f
<1>4. ASSUME NEW j \in 1 .. n, \A k \in j + 1 .. n : Agrees(k)
      PROVE  Agrees(j)
    <2>1. f[j] = IF j > Len(src) THEN [end |-> 0, text |-> <<>>]
                 ELSE IF Char(j) # Quote THEN [f[j + 1] EXCEPT !.text = <<src[j]>> \o @]
                 ELSE IF Char(j + 1) = Quote THEN [f[j + 2] EXCEPT !.text = <<Quote>> \o @]
                 ELSE [end |-> j, text |-> <<>>]
        BY <1>2 DEF IsFrom
    <2>2. Char(j) = Quote => j <= Len(src)
        BY <1>3, CharactersOfTokens DEF Char
    <2>3. CASE j > Len(src)
        <3>1. f[j] = [end |-> 0, text |-> <<>>]
            BY <2>3, <2>1
        <3>2. QED
            BY <3>1 DEF Texted
    <2>4. CASE j <= Len(src) /\ Char(j) # Quote
        <3>1. f[j] = [f[j + 1] EXCEPT !.text = <<src[j]>> \o @]
            BY <2>4, <1>3, <2>1
        <3>2. Agrees(j + 1)
            BY <2>4, <1>4, <1>3
        <3>3. src[j] \in STRING
            BY <2>4, <1>3
        <3>4. f[j] \in Texted /\ f[j].end = f[j + 1].end
            BY SMTT(40), <3>1, <3>2, <3>3, Prepending
        <3>5. AfterString(src, j) = AfterString(src, j + 1)
            BY <2>4, <1>3, AfterStringTurn, CharactersOfTokens DEF Char
        <3>6. QED
            BY <3>2, <3>4, <3>5, <1>3
    <2>5. CASE Char(j) = Quote /\ Char(j + 1) = Quote
        <3>1. j < Len(src)
            BY <2>5, <1>3, CharactersOfTokens DEF Char
        <3>2. f[j] = [f[j + 2] EXCEPT !.text = <<Quote>> \o @]
            BY <2>5, <3>1, <1>3, <2>1
        <3>3. Agrees(j + 2)
            BY <3>1, <1>4, <1>3
        <3>4. f[j] \in Texted /\ f[j].end = f[j + 2].end
            BY <3>2, <3>3, Prepending
        <3>5. AfterString(src, j) = AfterString(src, j + 2)
            BY <2>5, <3>1, <1>3, AfterStringTurn, CharactersOfTokens DEF Char
        <3>6. QED
            BY <3>3, <3>4, <3>5, <1>3
    <2>6. CASE Char(j) = Quote /\ Char(j + 1) # Quote
        <3>1. f[j] = [end |-> j, text |-> <<>>]
            BY <2>6, <2>2, <1>3, <2>1
        <3>2. AfterString(src, j) = j + 1
            BY <2>6, <2>2, <1>3, AfterStringTurn, CharactersOfTokens DEF Char
        <3>3. QED
            BY <3>1, <3>2, <2>6, <2>2 DEF Texted
    <2>7. QED
        BY <1>3, <2>3, <2>4, <2>5, <2>6
<1>5. \A j \in 1 .. n : Agrees(j)
    <2> DEFINE P == {j \in 1 .. n : Agrees(j)}
    <2>1. \A j \in 1 .. n : (\A k \in j + 1 .. n : k \in P) => j \in P
        BY <1>4
    <2>2. \A j \in 1 .. n : j \in P
        <3> HIDE DEF P
        <3>1. n \in Nat
            BY <1>3
        <3>2. QED
            BY <2>1, <3>1, InductionFromTheEnd
    <2>3. QED
        BY <2>2
<1>6. QED
    BY <1>1, <1>3, <1>5
-----------------------------------------------------------------------------
SemicolonsOf(ts) == {ts[k].from : k \in {k \in DOMAIN ts : ts[k].token.type = Semicolon}}

\* The statement ends at the first semicolon token, or where the splitter
\* would find its end from here on.
EndsAgree(t, position, semicolons) ==
    /\ \A s \in semicolons : s \in 1 .. position - 1
    /\ \/ semicolons = {} /\ FindStatementEnd(t) = EndFrom(t, position)
       \/ /\ FindStatementEnd(t) \in semicolons
          /\ \A s \in semicolons : FindStatementEnd(t) <= s

LexOK ==
    /\ src \in Seq(STRING) /\ lexPos \in 1 .. Len(src) + 1
    /\ \E n \in Nat : tokens = [k \in 1 .. n |-> tokens[k]]
    /\ EndsAgree(src, lexPos, SemicolonsOf(tokens))
    /\ lexStatus = "eof" => TokenStart > Len(src)

LEMMA InitLexOK == LexInit => LexOK
<1> SUFFICES ASSUME LexInit PROVE LexOK
    OBVIOUS
<1>1. src \in Seq(STRING) /\ lexPos = 1 /\ tokens = <<>> /\ lexStatus = "reading"
    BY LettersAssumption DEF LexInit
<1>2. SemicolonsOf(tokens) = {}
    BY <1>1 DEF SemicolonsOf
<1>3. tokens = [k \in 1 .. 0 |-> tokens[k]]
    BY <1>1
<1>4. FindStatementEnd(src) = EndFrom(src, 1)
    BY <1>1, EndFromTurn
<1>5. EndsAgree(src, lexPos, SemicolonsOf(tokens))
    BY <1>1, <1>2, <1>4 DEF EndsAgree
<1>6. QED
    BY <1>1, <1>3, <1>5 DEF LexOK

\* Whitespace does not end a statement.
LEMMA TokenStarts ==
    ASSUME src \in Seq(STRING), lexPos \in 1 .. Len(src) + 1
    PROVE  /\ TokenStart \in lexPos .. Len(src) + 1
           /\ EndFrom(src, lexPos) = EndFrom(src, TokenStart)
<1>1. "end" \notin White
    BY CharactersOfTokens
<1>2. /\ TokenStart \in lexPos .. Len(src) + 1
      /\ \A k \in lexPos .. TokenStart - 1 : src[k] \in White
    BY <1>1, RunEnds DEF TokenStart
<1>3. \A k \in lexPos .. TokenStart - 1 : src[k] # Apostrophe /\ src[k] # Terminator
    BY <1>2, CharactersOfTokens
<1>4. lexPos \in 1 .. TokenStart /\ TokenStart \in 1 .. Len(src) + 1
    BY <1>2
<1>5. QED
    BY <1>2, <1>3, <1>4, EndFromRun

\* A token that is no semicolon leaves the end where it is, a semicolon is it.
LEMMA TakeAgrees ==
    ASSUME LexOK, Reading, NEW token, NEW end \in TokenStart + 1 .. Len(src) + 1, Take(token, end),
           \/ token.type # Semicolon /\ EndFrom(src, TokenStart) = EndFrom(src, end)
           \/ token.type = Semicolon /\ EndFrom(src, TokenStart) = TokenStart
    PROVE  LexOK'
<1> DEFINE taken == [token |-> token, from |-> TokenStart, to |-> end - 1]
           old == SemicolonsOf(tokens)
<1>1. src \in Seq(STRING) /\ lexPos \in 1 .. Len(src) + 1 /\ EndsAgree(src, lexPos, old)
    BY DEF LexOK
<1>2. TokenStart \in lexPos .. Len(src) + 1 /\ EndFrom(src, lexPos) = EndFrom(src, TokenStart)
    BY <1>1, TokenStarts
<1>3. PICK n \in Nat : tokens = [k \in 1 .. n |-> tokens[k]]
    BY DEF LexOK
<1>4. tokens' = Append(tokens, taken) /\ lexPos' = end /\ src' = src /\ lexStatus' = "reading"
    BY DEF Take, Reading
<1> HIDE DEF taken
<1>5. tokens' = [k \in 1 .. n + 1 |-> IF k = n + 1 THEN taken ELSE tokens[k]]
    BY <1>3, <1>4, AppendTo
<1>6. tokens' = [k \in 1 .. n + 1 |-> tokens'[k]]
    BY <1>5
<1>7. SemicolonsOf(tokens') = IF token.type = Semicolon THEN old \cup {TokenStart} ELSE old
    <2>1. DOMAIN tokens = 1 .. n /\ DOMAIN tokens' = 1 .. n + 1
        BY <1>3, <1>5
    <2>2. \A k \in 1 .. n : tokens'[k] = tokens[k]
        BY <1>5
    <2>3. tokens'[n + 1] = taken /\ taken.from = TokenStart /\ taken.token = token
        BY <1>5 DEF taken
    <2>4. \A k \in 1 .. n + 1 : k \in 1 .. n \/ k = n + 1
        OBVIOUS
    <2>5. \A x : x \in SemicolonsOf(tokens') <=>
                    \/ \E k \in 1 .. n : tokens[k].token.type = Semicolon /\ x = tokens[k].from
                    \/ token.type = Semicolon /\ x = TokenStart
        BY <2>1, <2>2, <2>3, <2>4 DEF SemicolonsOf
    <2>6. \A x : x \in old <=> \E k \in 1 .. n : tokens[k].token.type = Semicolon /\ x = tokens[k].from
        BY <2>1 DEF SemicolonsOf
    <2>7. QED
        BY <2>5, <2>6
<1>8. EndsAgree(src, end, SemicolonsOf(tokens'))
    <2> HIDE DEF old
    <2>1. CASE token.type # Semicolon
        <3>1. SemicolonsOf(tokens') = old /\ EndFrom(src, end) = EndFrom(src, lexPos)
            BY <2>1, <1>2, <1>7
        <3>2. QED
            BY <3>1, <1>1, <1>2 DEF EndsAgree
    <2>2. CASE token.type = Semicolon
        <3>1. SemicolonsOf(tokens') = old \cup {TokenStart} /\ EndFrom(src, lexPos) = TokenStart
            BY <2>2, <1>2, <1>7
        <3>2. \A s \in old \cup {TokenStart} : s \in 1 .. end - 1
            BY <1>1, <1>2 DEF EndsAgree
        <3>3. CASE old = {}
            <4>1. FindStatementEnd(src) = TokenStart
                BY <3>1, <3>3, <1>1 DEF EndsAgree
            <4>2. SemicolonsOf(tokens') = {TokenStart}
                BY <3>1, <3>3
            <4>3. TokenStart <= TokenStart
                BY <1>1, <1>2
            <4>4. QED
                BY <4>1, <4>2, <4>3, <3>1, <3>2 DEF EndsAgree
        <3>4. CASE old # {}
            <4>1. FindStatementEnd(src) \in old /\ \A s \in old : FindStatementEnd(src) <= s
                BY <3>4, <1>1 DEF EndsAgree
            <4>2. FindStatementEnd(src) <= TokenStart
                BY <4>1, <1>1, <1>2 DEF EndsAgree
            <4>3. QED
                BY <3>1, <3>2, <4>1, <4>2 DEF EndsAgree
        <3>5. QED
            BY <3>3, <3>4
    <2>3. QED
        BY <2>1, <2>2
<1>9. end \in 1 .. Len(src) + 1
    BY <1>1, <1>2
<1>10. \E m \in Nat : tokens' = [k \in 1 .. m |-> tokens'[k]]
    <2>1. n + 1 \in Nat
        OBVIOUS
    <2>2. QED
        BY <2>1, <1>6
<1>11. EndsAgree(src', lexPos', SemicolonsOf(tokens'))
    BY <1>4, <1>8
<1>12. QED
    BY <1>1, <1>4, <1>9, <1>10, <1>11 DEF LexOK

LEMMA WordAgrees == LexOK /\ LexWord => LexOK'
<1> SUFFICES ASSUME LexOK, LexWord PROVE LexOK'
    OBVIOUS
<1> DEFINE end == RunEnd(Letters \cup Digits, TokenStart)
           token == Word(SubSeq(src, TokenStart, end - 1))
<1>1. src \in Seq(STRING) /\ lexPos \in 1 .. Len(src) + 1
    BY DEF LexOK
<1>2. TokenStart \in 1 .. Len(src) + 1 /\ TokenStart \in Nat
    BY <1>1, TokenStarts
<1>3. "end" \notin Letters \cup Digits
    BY CharactersOfTokens
<1>4. /\ end \in TokenStart .. Len(src) + 1 /\ Char(end) \notin Letters \cup Digits
      /\ \A k \in TokenStart .. end - 1 : src[k] \in Letters \cup Digits
    BY <1>1, <1>2, <1>3, RunEnds
<1>5. Reading /\ Char(TokenStart) \in Letters /\ Take(token, end)
    BY DEF LexWord
<1>6. token.type # Semicolon
    <2> DEFINE upper(t) == [k \in DOMAIN t |-> UpperCase[t[k]]]
    <2>1. \A t : upper(t) \in DOMAIN Keywords => Keywords[upper(t)] # Semicolon
        BY LettersAssumption DEF Symbols
    <2>2. "identifier" # Semicolon
        BY CharactersOfTokens
    <2>3. \A t : Word(t).type # Semicolon
        BY <2>1, <2>2 DEF Word
    <2>4. QED
        BY <2>3
<1> HIDE DEF end, token
<1>7. end \in TokenStart + 1 .. Len(src) + 1
    BY <1>2, <1>4, <1>5
<1>8. EndFrom(src, TokenStart) = EndFrom(src, end)
    <2>1. \A k \in TokenStart .. end - 1 : src[k] # Apostrophe /\ src[k] # Terminator
        BY <1>4, CharactersOfTokens
    <2>2. QED
        BY <1>1, <1>2, <1>4, <2>1, EndFromRun
<1>9. QED
    BY <1>5, <1>6, <1>7, <1>8, TakeAgrees

\* Digits and a point.
LEMMA NumberRuns ==
    ASSUME src \in Seq(STRING), NEW i \in 1 .. Len(src)
    PROVE  /\ NumberEnd(i) \in i .. Len(src) + 1
           /\ Char(i) \in Digits => NumberEnd(i) > i
           /\ EndFrom(src, i) = EndFrom(src, NumberEnd(i))
<1> DEFINE whole == RunEnd(Digits, i)
           fraction == RunEnd(Digits, whole + 1)
<1>1. "end" \notin Digits /\ Len(src) \in Nat
    BY CharactersOfTokens
<1>2. /\ whole \in i .. Len(src) + 1 /\ Char(whole) \notin Digits
      /\ \A k \in i .. whole - 1 : src[k] \in Digits
    BY <1>1, RunEnds
<1>3. \A k \in i .. whole - 1 : src[k] # Apostrophe /\ src[k] # Terminator
    BY <1>2, CharactersOfTokens
<1>4. EndFrom(src, i) = EndFrom(src, whole)
    BY <1>2, <1>3, EndFromRun
<1>5. Char(i) \in Digits => whole > i
    BY <1>2
<1>6. CASE Char(whole) = "." /\ Char(whole + 1) \in Digits
    <2>1. NumberEnd(i) = fraction
        BY <1>6 DEF NumberEnd
    <2>2. whole \in 1 .. Len(src) /\ src[whole] = "."
        BY <1>6, <1>2, CharactersOfTokens DEF Char
    <2>3. /\ fraction \in whole + 1 .. Len(src) + 1
          /\ \A k \in whole + 1 .. fraction - 1 : src[k] \in Digits
        BY <1>1, <2>2, RunEnds
    <2> HIDE DEF whole, fraction
    <2>4. \A k \in whole .. fraction - 1 : src[k] # Apostrophe /\ src[k] # Terminator
        <3> SUFFICES ASSUME NEW k \in whole .. fraction - 1
                     PROVE  src[k] # Apostrophe /\ src[k] # Terminator
            OBVIOUS
        <3>1. CASE k = whole
            BY <3>1, <2>2, CharactersOfTokens
        <3>2. CASE k # whole
            <4>1. src[k] \in Digits
                BY <3>2, <2>2, <2>3
            <4>2. QED
                BY <4>1, CharactersOfTokens
        <3>3. QED
            BY <3>1, <3>2
    <2>5. EndFrom(src, whole) = EndFrom(src, fraction)
        BY <2>2, <2>3, <2>4, EndFromRun
    <2>6. QED
        BY <1>2, <1>4, <1>5, <2>1, <2>3, <2>5
<1>7. CASE ~ (Char(whole) = "." /\ Char(whole + 1) \in Digits)
    <2>1. NumberEnd(i) = whole
        BY <1>7 DEF NumberEnd
    <2> HIDE DEF whole
    <2>2. QED
        BY <1>2, <1>4, <1>5, <2>1
<1>8. QED
    BY <1>6, <1>7

LEMMA NumberAgrees == LexOK /\ LexNumber => LexOK'
<1> SUFFICES ASSUME LexOK, LexNumber PROVE LexOK'
    OBVIOUS
<1> DEFINE negative == Char(TokenStart) = "-"
           first == IF negative THEN TokenStart + 1 ELSE TokenStart
           end == NumberEnd(first)
           number == Number(SubSeq(src, first, end - 1), negative)
<1>1. src \in Seq(STRING) /\ lexPos \in 1 .. Len(src) + 1 /\ Len(src) \in Nat
    BY DEF LexOK
<1>2. TokenStart \in 1 .. Len(src) + 1 /\ TokenStart \in Nat
    BY <1>1, TokenStarts
<1>3. Reading /\ Char(first) \in Digits /\ (IF number.type = "error" THEN Fail ELSE Take(number, end))
    BY DEF LexNumber
<1>4. first \in TokenStart .. Len(src)
    BY <1>1, <1>2, <1>3, CharactersOfTokens DEF Char
<1>5. number.type \in {"error", "integer", "real"}
    BY DEF Number
<1>6. EndFrom(src, TokenStart) = EndFrom(src, first)
    <2>1. CASE negative
        <3>1. TokenStart \in 1 .. Len(src) /\ src[TokenStart] = "-"
            BY <2>1, <1>4, <1>2 DEF Char
        <3>2. src[TokenStart] # Apostrophe /\ src[TokenStart] # Terminator
            BY <3>1, CharactersOfTokens
        <3>3. QED
            BY <2>1, <1>1, <3>1, <3>2, EndFromTurn
    <2>2. CASE ~ negative
        BY <2>2
    <2>3. QED
        BY <2>1, <2>2
<1> HIDE DEF first, number
<1>7. end \in first + 1 .. Len(src) + 1 /\ EndFrom(src, first) = EndFrom(src, end)
    BY <1>1, <1>2, <1>3, <1>4, NumberRuns
<1> HIDE DEF end
<1>8. CASE number.type = "error"
    <2>1. Fail
        BY <1>3, <1>8
    <2>2. QED
        BY <2>1 DEF Fail, LexOK, TokenStart, RunEnd, Char
<1>9. CASE number.type # "error"
    <2>1. Take(number, end)
        BY <1>3, <1>9
    <2>2. number.type # Semicolon
        BY <1>5, CharactersOfTokens
    <2>3. end \in TokenStart + 1 .. Len(src) + 1
        BY <1>2, <1>4, <1>7
    <2>4. EndFrom(src, TokenStart) = EndFrom(src, end)
        BY <1>6, <1>7
    <2>5. QED
        BY <1>3, <2>1, <2>2, <2>3, <2>4, TakeAgrees
<1>10. QED
    BY <1>8, <1>9

LEMMA StringAgrees == LexOK /\ LexString => LexOK'
<1> SUFFICES ASSUME LexOK, LexString PROVE LexOK'
    OBVIOUS
<1> DEFINE string == String(TokenStart)
           token == [type |-> "string", v |-> string.text]
<1>1. src \in Seq(STRING) /\ lexPos \in 1 .. Len(src) + 1 /\ Len(src) \in Nat
    BY DEF LexOK
<1>2. TokenStart \in 1 .. Len(src) + 1 /\ TokenStart \in Nat
    BY <1>1, TokenStarts
<1>3. Reading /\ Char(TokenStart) = Quote /\ (IF string.end = 0 THEN Fail ELSE Take(token, string.end + 1))
    BY DEF LexString
<1>4. TokenStart \in 1 .. Len(src) /\ src[TokenStart] = Apostrophe
    BY <1>1, <1>2, <1>3, CharactersOfTokens DEF Char
<1>5. CASE string.end = 0
    <2>1. Fail
        BY <1>3, <1>5
    <2>2. QED
        BY <2>1 DEF Fail, LexOK, TokenStart, RunEnd, Char
<1>6. CASE string.end # 0
    <2>1. string.end \in TokenStart + 1 .. Len(src) /\ AfterString(src, TokenStart + 1) = string.end + 1
        BY <1>1, <1>4, <1>6, StringsAgree
    <2>2. EndFrom(src, TokenStart) = EndFrom(src, AfterString(src, TokenStart + 1))
        BY <1>1, <1>4, EndFromTurn
    <2>3. Take(token, string.end + 1)
        BY <1>3, <1>6
    <2>4. token.type # Semicolon
        BY CharactersOfTokens
    <2>5. string.end + 1 \in TokenStart + 1 .. Len(src) + 1
        BY <2>1, <1>1, <1>2
    <2> HIDE DEF string, token
    <2>6. EndFrom(src, TokenStart) = EndFrom(src, string.end + 1)
        BY <2>1, <2>2
    <2>7. QED
        BY <1>3, <2>3, <2>4, <2>5, <2>6, TakeAgrees
<1>7. QED
    BY <1>5, <1>6

LEMMA SymbolAgrees == LexOK /\ LexSymbol => LexOK'
<1> SUFFICES ASSUME LexOK, LexSymbol PROVE LexOK'
    OBVIOUS
<1> DEFINE symbol == SymbolAt(TokenStart)
           end == TokenStart + (IF symbol \in Pairs THEN 2 ELSE 1)
           token == [type |-> symbol, v |-> 0]
<1>1. src \in Seq(STRING) /\ lexPos \in 1 .. Len(src) + 1 /\ Len(src) \in Nat /\ DOMAIN src = 1 .. Len(src)
    BY DEF LexOK
<1>2. TokenStart \in 1 .. Len(src) + 1 /\ TokenStart \in Nat
    BY <1>1, TokenStarts
<1>3. Reading /\ symbol # "" /\ Take(token, end)
    BY DEF LexSymbol
<1>4. \/ /\ symbol \in Pairs
         /\ Char(TokenStart) \in {"<", ">", "!"} /\ Char(TokenStart + 1) = "="
      \/ symbol = Char(TokenStart) /\ symbol \in Symbols
    <2>1. CASE Char(TokenStart) \in {"<", ">", "!"} /\ Char(TokenStart + 1) = "="
        BY <2>1 DEF SymbolAt, Pairs
    <2>2. CASE ~ (Char(TokenStart) \in {"<", ">", "!"} /\ Char(TokenStart + 1) = "=")
        <3>1. symbol = IF Char(TokenStart) \in Symbols THEN Char(TokenStart) ELSE ""
            BY <2>2 DEF SymbolAt
        <3>2. QED
            BY <1>3, <3>1
    <2>3. QED
        BY <2>1, <2>2
<1>5. \A c \in Symbols : c \notin Pairs
    BY Zenon DEF Symbols, Pairs, Semicolon
<1>6. "=" \in Symbols /\ "end" \notin Symbols
    BY Zenon DEF Symbols, Semicolon
<1>7. "end" \notin {"<", ">", "!", "="}
    OBVIOUS
<1>8. CASE symbol \in Pairs
    <2>1. Char(TokenStart) \in {"<", ">", "!"} /\ Char(TokenStart + 1) = "="
        BY <1>4, <1>5, <1>8
    <2>2. /\ TokenStart \in 1 .. Len(src) /\ src[TokenStart] \in {"<", ">", "!"}
          /\ TokenStart + 1 \in 1 .. Len(src) /\ src[TokenStart + 1] = "="
        BY <2>1, <1>1, <1>7 DEF Char
    <2>3. \A k \in TokenStart .. (TokenStart + 2) - 1 : src[k] \in {"<", ">", "!", "="}
        BY <2>2, <1>2
    <2>4. \A k \in TokenStart .. (TokenStart + 2) - 1 : src[k] # Apostrophe /\ src[k] # Terminator
        BY <2>3, CharactersOfTokens
    <2>5. end = TokenStart + 2 /\ end \in TokenStart + 1 .. Len(src) + 1
        BY <1>8, <2>2, <1>1
    <2>6. TokenStart \in 1 .. TokenStart + 2 /\ TokenStart + 2 \in 1 .. Len(src) + 1
        BY <2>2, <1>1
    <2>7. EndFrom(src, TokenStart) = EndFrom(src, TokenStart + 2)
        BY <2>4, <2>6, <1>1, EndFromRun
    <2>8. token.type # Semicolon
        BY <1>8, CharactersOfTokens DEF Pairs
    <2> HIDE DEF token, end
    <2>9. QED
        BY <1>3, <2>5, <2>7, <2>8, TakeAgrees
<1>9. CASE symbol \notin Pairs
    <2>1. symbol = Char(TokenStart) /\ symbol \in Symbols
        BY <1>4, <1>9
    <2>2. TokenStart \in 1 .. Len(src) /\ src[TokenStart] = symbol
        BY <2>1, <1>1, <1>6, <1>2 DEF Char
    <2>3. end = TokenStart + 1 /\ end \in TokenStart + 1 .. Len(src) + 1
        BY <1>9, <2>2, <1>1
    <2>4. token.type = symbol
        OBVIOUS
    <2>5. src[TokenStart] # Apostrophe
        BY <2>1, <2>2, CharactersOfTokens
    <2> HIDE DEF token, end, symbol
    <2>6. CASE symbol = Semicolon
        <3>1. EndFrom(src, TokenStart) = TokenStart
            BY <2>2, <2>5, <2>6, <1>1, EndFromTurn, CharactersOfTokens
        <3>2. QED
            BY <1>3, <2>3, <2>4, <2>6, <3>1, TakeAgrees
    <2>7. CASE symbol # Semicolon
        <3>1. EndFrom(src, TokenStart) = EndFrom(src, TokenStart + 1)
            BY <2>2, <2>5, <2>7, <1>1, EndFromTurn, CharactersOfTokens
        <3>2. QED
            BY <1>3, <2>3, <2>4, <2>7, <3>1, TakeAgrees
    <2>8. QED
        BY <2>6, <2>7
<1>10. QED
    BY <1>8, <1>9

LEMMA LexStep == LexOK /\ [LexNext]_lexVars => LexOK'
<1> SUFFICES ASSUME LexOK, [LexNext]_lexVars PROVE LexOK'
    OBVIOUS
<1>1. CASE LexEnd
    BY <1>1 DEF LexEnd, LexOK, TokenStart, RunEnd, Char
<1>2. CASE LexUnexpected
    BY <1>2 DEF LexUnexpected, Fail, LexOK, TokenStart, RunEnd, Char
<1>3. CASE UNCHANGED lexVars
    BY <1>3 DEF lexVars, LexOK, TokenStart, RunEnd, Char
<1>4. QED
    BY <1>1, <1>2, <1>3, WordAgrees, NumberAgrees, StringAgrees, SymbolAgrees DEF LexNext

LEMMA LexOKAgrees == LexOK => SplitterAgrees
<1> SUFFICES ASSUME LexOK, lexStatus = "eof"
             PROVE  FindStatementEnd(src) = IF SemicolonsOf(tokens) = {} THEN Len(src)
                                            ELSE Min(SemicolonsOf(tokens))
    BY DEF SplitterAgrees, SemicolonsOf
<1>1. src \in Seq(STRING) /\ lexPos \in 1 .. Len(src) + 1 /\ TokenStart > Len(src) /\ Len(src) \in Nat
    BY DEF LexOK
<1>2. EndsAgree(src, lexPos, SemicolonsOf(tokens))
    BY DEF LexOK
<1>3. CASE SemicolonsOf(tokens) = {}
    <2>1. TokenStart \in 1 .. Len(src) + 1 /\ EndFrom(src, lexPos) = EndFrom(src, TokenStart)
        BY <1>1, TokenStarts
    <2>2. EndFrom(src, TokenStart) = Len(src)
        BY <2>1, <1>1, EndFromTurn
    <2>3. FindStatementEnd(src) = EndFrom(src, lexPos)
        BY <1>2, <1>3 DEF EndsAgree
    <2>4. QED
        BY <1>3, <2>1, <2>2, <2>3
<1>4. CASE SemicolonsOf(tokens) # {}
    <2> DEFINE S == SemicolonsOf(tokens)
    <2>1. \A s \in S : s \in Nat
        BY <1>1, <1>2 DEF EndsAgree
    <2>2. FindStatementEnd(src) \in S /\ \A s \in S : FindStatementEnd(src) <= s
        BY <1>2, <1>4 DEF EndsAgree
    <2> HIDE DEF S
    <2>3. Min(S) = FindStatementEnd(src)
        BY <2>1, <2>2, MinIs
    <2>4. QED
        BY <1>4, <2>3 DEF S
<1>5. QED
    BY <1>3, <1>4

\* For all texts (repl_find_statement_end, lexer_next).
THEOREM SplitterAndLexerAgree == LexSpec => []SplitterAgrees
<1>1. LexSpec => []LexOK
    BY InitLexOK, LexStep, PTL DEF LexSpec
<1>2. QED
    BY <1>1, LexOKAgrees, PTL
-----------------------------------------------------------------------------
(* The arguments of the command line. *)

Fields == {"db", "command", "script", "format"}
Taking == {"db", "command", "format"}
Values == STRING \cup {Null, ".", "table"}
ArgumentsType == /\ args \in ArgLists /\ args \in Seq(STRING)
                 /\ argPos \in 1 .. Len(args) + 1
                 /\ opts \in [Fields -> Values]

\* The argument i of list is the option o, and the last head that is.
Is(list, i, o) == list[i] \in Options /\ OptionOf[list[i]] = o
LastOf(list, heads, o, i) ==
    i \in heads /\ Is(list, i, o) /\ \A j \in heads : Is(list, j, o) => j <= i

\* What the first n arguments of list choose, heads being those no option took.
AreHeads(list, heads, n) ==
    heads = {i \in 1 .. n : ~ (i - 1 \in heads /\ list[i - 1] \in Options)}
AreGood(list, heads, n) ==
    \A i \in heads : /\ list[i] \in Dashed => list[i] \in Options /\ i < n
                     /\ Is(list, i, "format") => list[i + 1] \in Formats
OnePlain(list, heads) ==
    \A i, j \in heads : list[i] \notin Dashed /\ list[j] \notin Dashed => i = j
LastCounts(list, chosen, heads) ==
    \A o \in Taking :
       \/ chosen[o] = NoOptions[o] /\ \A i \in heads : ~ Is(list, i, o)
       \/ \E i \in heads : LastOf(list, heads, o, i) /\ chosen[o] = list[i + 1]
PlainIsScript(list, chosen, heads) ==
    \/ chosen["script"] = Null /\ \A i \in heads : list[i] \in Dashed
    \/ \E i \in heads : list[i] \notin Dashed /\ chosen["script"] = list[i]

Read(list, chosen, heads, n) ==
    /\ AreHeads(list, heads, n)
    /\ AreGood(list, heads, n)
    /\ OnePlain(list, heads)
    /\ LastCounts(list, chosen, heads)
    /\ PlainIsScript(list, chosen, heads)

AsRead == \E heads \in SUBSET (1 .. argPos - 1) : Read(args, opts, heads, argPos - 1)

ArgumentsOK ==
    /\ ArgumentsType
    /\ phase # "exited" => AsRead
    /\ phase \notin {"start", "exited"} => argPos = Len(args) + 1 /\ (opts["command"] = Null \/ opts["script"] = Null)

LEMMA OptionTakes == \A a \in Options : OptionOf[a] \in Taking /\ a \in Dashed
<1>1. \A a \in Options : OptionOf[a] \in Taking
    BY DEF Options, OptionOf, Taking
<1>2. QED
    BY <1>1, ArgumentsAssumption

LEMMA InitArguments == CliInit => ArgumentsOK
<1> SUFFICES ASSUME CliInit PROVE ArgumentsOK
    OBVIOUS
<1>1. args \in ArgLists /\ args \in Seq(STRING) /\ argPos = 1 /\ opts = NoOptions /\ phase = "start"
    BY ArgumentsAssumption DEF CliInit
<1>2. ArgumentsType
    <2>1. \A f \in Fields : NoOptions[f] \in Values
        <3>1. /\ NoOptions["db"] = "." /\ NoOptions["command"] = Null
              /\ NoOptions["script"] = Null /\ NoOptions["format"] = "table"
            BY DEF NoOptions
        <3>2. QED
            BY <3>1 DEF Fields, Values
    <2>2. NoOptions = [f \in Fields |-> NoOptions[f]]
        <3>1. NoOptions = [f \in {"db", "command", "script", "format"} |-> NoOptions[f]]
            BY DEF NoOptions
        <3>2. QED
            BY <3>1 DEF Fields
    <2>3. NoOptions \in [Fields -> Values]
        BY <2>1, <2>2
    <2>4. QED
        BY <1>1, <2>3 DEF ArgumentsType
<1>3. Read(args, opts, {}, 0)
    BY <1>1 DEF Read, AreHeads, AreGood, OnePlain, LastCounts, PlainIsScript, NoOptions, Taking
<1>4. AsRead
    BY <1>1, <1>3 DEF AsRead
<1>5. QED
    BY <1>1, <1>2, <1>4 DEF ArgumentsOK

LEMMA TakeOptionReads == ArgumentsOK /\ TakeOption => ArgumentsOK'
<1> SUFFICES ASSUME ArgumentsOK, TakeOption PROVE ArgumentsOK'
    OBVIOUS
<1>0. PICK p : p = argPos
    OBVIOUS
<1> DEFINE arg == args[p]
           o == OptionOf[arg]
<1>1. /\ args \in ArgLists /\ args \in Seq(STRING) /\ p \in 1 .. Len(args) /\ p < Len(args)
      /\ opts \in [Fields -> Values] /\ phase = "start"
    BY <1>0 DEF ArgumentsOK, ArgumentsType, TakeOption, Arguing, Usable
<1>2. arg \in Options /\ o \in Taking /\ arg \in Dashed /\ arg \in STRING /\ args[p + 1] \in STRING
    BY <1>0, <1>1, OptionTakes DEF TakeOption, Argument
<1>3. /\ args' = args /\ argPos' = p + 2 /\ phase' = "start"
      /\ opts' = [opts EXCEPT ![o] = args[p + 1]]
    BY <1>0, <1>1 DEF TakeOption, Argument
<1>4. o = "format" => args[p + 1] \in Formats
    BY <1>0 DEF TakeOption, Usable, Argument
<1>5. /\ opts' \in [Fields -> Values] /\ opts'[o] = args[p + 1]
      /\ \A q \in Fields : q # o => opts'[q] = opts[q]
    BY <1>1, <1>2, <1>3 DEF Fields, Taking, Values
<1>6. ArgumentsType'
    BY <1>1, <1>3, <1>5 DEF ArgumentsType
<1>7. PICK old \in SUBSET (1 .. p - 1) : Read(args, opts, old, p - 1)
    BY <1>0, <1>1 DEF ArgumentsOK, AsRead
<1> DEFINE new == old \cup {p}
<1> HIDE DEF arg, o
<1>8. p \in Nat /\ p \notin old /\ old \subseteq 1 .. p - 1 /\ p >= 1
    BY <1>1
<1>9. ~ (p - 1 \in old /\ args[p - 1] \in Options)
    BY <1>7, <1>8, OptionTakes DEF Read, AreGood
<1>10. new = {i \in 1 .. p + 1 : ~ (i - 1 \in new /\ args[i - 1] \in Options)}
    <2>1. \A i \in 1 .. p - 1 : i \in new <=> ~ (i - 1 \in new /\ args[i - 1] \in Options)
        <3>1. \A i \in 1 .. p - 1 : (i \in new <=> i \in old) /\ (i - 1 \in new <=> i - 1 \in old)
            BY <1>8
        <3>2. old = {i \in 1 .. p - 1 : ~ (i - 1 \in old /\ args[i - 1] \in Options)}
            BY <1>7 DEF Read, AreHeads
        <3>3. QED
            BY <3>1, <3>2
    <2>2. p \in new /\ ~ (p - 1 \in new /\ args[p - 1] \in Options)
        BY <1>8, <1>9
    <2>3. p + 1 \notin new /\ (p + 1) - 1 = p /\ args[p] \in Options
        BY <1>8, <1>2 DEF arg
    <2>4. \A i \in 1 .. p + 1 : i \in 1 .. p - 1 \/ i = p \/ i = p + 1
        BY <1>8
    <2>5. new \subseteq 1 .. p + 1
        BY <1>8
    <2> HIDE DEF new
    <2>6. QED
        BY <2>1, <2>2, <2>3, <2>4, <2>5
<1>11. AreGood(args, new, p + 1)
    <2> SUFFICES ASSUME NEW i \in new
                 PROVE  /\ args[i] \in Dashed => args[i] \in Options /\ i < p + 1
                        /\ Is(args, i, "format") => args[i + 1] \in Formats
        BY DEF AreGood
    <2>1. CASE i \in old
        BY <2>1, <1>7, <1>8 DEF Read, AreGood
    <2>2. CASE i = p
        BY <2>2, <1>2, <1>4, <1>8 DEF Is, arg, o
    <2>3. QED
        BY <2>1, <2>2
<1>12. \A i, j \in new : args[i] \notin Dashed /\ args[j] \notin Dashed => i = j
    BY <1>7, <1>2 DEF Read, OnePlain, arg
<1>13. ASSUME NEW q \in Taking
       PROVE  \/ opts'[q] = NoOptions[q] /\ \A i \in new : ~ Is(args, i, q)
              \/ \E i \in new : LastOf(args, new, q, i) /\ opts'[q] = args[i + 1]
    <2>1. CASE q = o
        <3>1. Is(args, p, q)
            BY <2>1, <1>2 DEF Is, o, arg
        <3>2. \A j \in new : j <= p
            BY <1>8
        <3>3. LastOf(args, new, q, p) /\ p \in new
            BY <3>1, <3>2 DEF LastOf
        <3>4. opts'[q] = args[p + 1]
            BY <2>1, <1>5
        <3>5. QED
            BY <3>3, <3>4
    <2>2. CASE q # o
        <3>1. ~ Is(args, p, q)
            BY <2>2 DEF Is, o, arg
        <3>2. opts'[q] = opts[q]
            BY <2>2, <1>5 DEF Taking, Fields
        <3>3. \/ opts[q] = NoOptions[q] /\ \A i \in old : ~ Is(args, i, q)
              \/ \E i \in old : LastOf(args, old, q, i) /\ opts[q] = args[i + 1]
            BY <1>7 DEF Read, LastCounts
        <3>4. \A i \in old : LastOf(args, old, q, i) => LastOf(args, new, q, i)
            BY <3>1 DEF LastOf
        <3>5. QED
            BY <3>1, <3>2, <3>3, <3>4
    <2>3. QED
        BY <2>1, <2>2
<1>14. \/ opts'["script"] = Null /\ \A i \in new : args[i] \in Dashed
       \/ \E i \in new : args[i] \notin Dashed /\ opts'["script"] = args[i]
    <2>1. opts'["script"] = opts["script"]
        BY <1>5, <1>2 DEF Taking, Fields
    <2>2. args[p] \in Dashed
        BY <1>2 DEF arg
    <2>3. QED
        BY <1>7, <2>1, <2>2 DEF Read, PlainIsScript
<1>15. Read(args, opts', new, p + 1)
    <2> HIDE DEF new
    <2>1. AreHeads(args, new, p + 1)
        BY <1>10 DEF AreHeads
    <2>2. AreGood(args, new, p + 1)
        BY <1>11
    <2>3. OnePlain(args, new)
        BY <1>12 DEF OnePlain
    <2>4. LastCounts(args, opts', new)
        BY <1>13 DEF LastCounts
    <2>5. PlainIsScript(args, opts', new)
        BY <1>14 DEF PlainIsScript
    <2>6. QED
        BY <2>1, <2>2, <2>3, <2>4, <2>5 DEF Read
<1>16. AsRead'
    <2>1. argPos' - 1 = p + 1 /\ new \in SUBSET (1 .. argPos' - 1)
        BY <1>3, <1>8
    <2>2. QED
        BY <1>3, <1>15, <2>1 DEF AsRead
<1>17. QED
    BY <1>3, <1>6, <1>16 DEF ArgumentsOK

LEMMA TakeScriptReads == ArgumentsOK /\ TakeScript => ArgumentsOK'
<1> SUFFICES ASSUME ArgumentsOK, TakeScript PROVE ArgumentsOK'
    OBVIOUS
<1>0. PICK p : p = argPos
    OBVIOUS
<1>1. /\ args \in ArgLists /\ args \in Seq(STRING) /\ p \in 1 .. Len(args)
      /\ opts \in [Fields -> Values] /\ phase = "start"
    BY <1>0 DEF ArgumentsOK, ArgumentsType, TakeScript, Arguing
<1>2. args[p] \notin Dashed /\ args[p] \in STRING /\ args[p] \notin Options /\ opts["script"] = Null
    BY <1>0, <1>1, OptionTakes DEF TakeScript, Argument
<1>3. /\ args' = args /\ argPos' = p + 1 /\ phase' = "start"
      /\ opts' = [opts EXCEPT !["script"] = args[p]]
    BY <1>0, <1>1 DEF TakeScript, Argument
<1>4. /\ opts' \in [Fields -> Values] /\ opts'["script"] = args[p]
      /\ \A q \in Taking : opts'[q] = opts[q]
    BY <1>1, <1>2, <1>3 DEF Fields, Taking, Values
<1>5. ArgumentsType'
    BY <1>1, <1>3, <1>4 DEF ArgumentsType
<1>6. PICK old \in SUBSET (1 .. p - 1) : Read(args, opts, old, p - 1)
    BY <1>0, <1>1 DEF ArgumentsOK, AsRead
<1> DEFINE new == old \cup {p}
<1>7. p \in Nat /\ p \notin old /\ old \subseteq 1 .. p - 1 /\ p >= 1
    BY <1>1
<1>8. ~ (p - 1 \in old /\ args[p - 1] \in Options)
    BY <1>6, <1>7, OptionTakes DEF Read, AreGood
<1>9. AreHeads(args, new, p)
    <2>1. \A i \in 1 .. p - 1 : i \in new <=> ~ (i - 1 \in new /\ args[i - 1] \in Options)
        <3>1. \A i \in 1 .. p - 1 : (i \in new <=> i \in old) /\ (i - 1 \in new <=> i - 1 \in old)
            BY <1>7
        <3>2. old = {i \in 1 .. p - 1 : ~ (i - 1 \in old /\ args[i - 1] \in Options)}
            BY <1>6 DEF Read, AreHeads
        <3>3. QED
            BY <3>1, <3>2
    <2>2. p \in new /\ ~ (p - 1 \in new /\ args[p - 1] \in Options)
        BY <1>7, <1>8
    <2>3. \A i \in 1 .. p : i \in 1 .. p - 1 \/ i = p
        BY <1>7
    <2>4. new \subseteq 1 .. p
        BY <1>7
    <2> HIDE DEF new
    <2>5. new = {i \in 1 .. p : ~ (i - 1 \in new /\ args[i - 1] \in Options)}
        BY <2>1, <2>2, <2>3, <2>4
    <2>6. QED
        BY <2>5 DEF AreHeads
<1>10. AreGood(args, new, p)
    BY <1>6, <1>7, <1>2 DEF Read, AreGood, Is
<1>11. \A i \in old : args[i] \in Dashed
    <2>1. \A i \in old : args[i] # Null
        BY <1>1, <1>7, ArgumentsAssumption
    <2>2. PlainIsScript(args, opts, old)
        BY <1>6 DEF Read
    <2>3. QED
        BY <2>1, <2>2, <1>2 DEF PlainIsScript
<1>12. OnePlain(args, new)
    BY <1>11 DEF OnePlain
<1>13. LastCounts(args, opts', new)
    <2>1. \A q : ~ Is(args, p, q)
        BY <1>2 DEF Is
    <2>2. LastCounts(args, opts, old)
        BY <1>6 DEF Read
    <2>3. \A i, q : LastOf(args, old, q, i) => LastOf(args, new, q, i)
        BY <2>1 DEF LastOf
    <2>4. QED
        BY <2>1, <2>2, <2>3, <1>4 DEF LastCounts
<1>14. PlainIsScript(args, opts', new)
    BY <1>2, <1>4 DEF PlainIsScript
<1>15. Read(args, opts', new, p)
    <2> HIDE DEF new
    <2>1. QED
        BY <1>9, <1>10, <1>12, <1>13, <1>14 DEF Read
<1>16. AsRead'
    <2>1. argPos' - 1 = p /\ new \in SUBSET (1 .. argPos' - 1)
        BY <1>3, <1>7
    <2>2. QED
        BY <1>3, <1>15, <2>1 DEF AsRead
<1>17. QED
    BY <1>3, <1>5, <1>16 DEF ArgumentsOK

\* Once the arguments are read no step changes what they chose.
LEMMA ArgumentsStep == ArgumentsOK /\ [CliNext]_cliVars => ArgumentsOK'
<1> SUFFICES ASSUME ArgumentsOK, [CliNext]_cliVars PROVE ArgumentsOK'
    OBVIOUS
<1>1. CASE TakeOption
    BY <1>1, TakeOptionReads
<1>2. CASE TakeScript
    BY <1>2, TakeScriptReads
<1>3. CASE /\ argVars' = argVars
           /\ \/ phase' = "exited"
              \/ phase \notin {"start", "exited"} /\ phase' # "start"
              \/ phase' = phase
              \/ phase' = "open" /\ EndArguments
    <2>1. args' = args /\ argPos' = argPos /\ opts' = opts
        BY <1>3 DEF argVars
    <2>2. ArgumentsType'
        BY <2>1 DEF ArgumentsOK, ArgumentsType
    <2>3. phase # "exited" => AsRead'
        BY <2>1 DEF ArgumentsOK, AsRead
    <2>4. EndArguments => argPos = Len(args) + 1 /\ (opts["command"] = Null \/ opts["script"] = Null)
        BY DEF EndArguments, ArgumentsOK, ArgumentsType
    <2>5. EndArguments => phase = "start"
        BY DEF EndArguments
    <2>6. QED
        BY <1>3, <2>1, <2>2, <2>3, <2>4, <2>5 DEF ArgumentsOK
<1>4. QED
    <2>1. ASSUME UNCHANGED cliVars PROVE argVars' = argVars /\ phase' = phase
        BY <2>1 DEF cliVars
    <2>2. ASSUME TakeHelp \/ UsageError PROVE argVars' = argVars /\ phase' = "exited"
        BY <2>2 DEF TakeHelp, UsageError, Exit
    <2>3. ASSUME EndArguments PROVE argVars' = argVars /\ phase' = "open"
        BY <2>3 DEF EndArguments
    <2>4. ASSUME OpenDatabase PROVE argVars' = argVars /\ phase = "open" /\ phase' # "start"
        BY <2>4 DEF OpenDatabase, Exit
    <2>5. ASSUME RunCommand \/ LoadScript
          PROVE  argVars' = argVars /\ phase \in {"command", "load"} /\ phase' \in {"close", "script"}
        BY <2>5 DEF RunCommand, LoadScript
    <2>6. ASSUME RunStatement \/ SkipPiece \/ EndScript \/ LeaveRepl
          PROVE  argVars' = argVars /\ phase \in {"script", "repl"} /\ phase' \in {"script", "close"}
        BY <2>6 DEF RunStatement, SkipPiece, EndScript, LeaveRepl
    <2>7. ASSUME CloseDatabase PROVE argVars' = argVars /\ phase' = "exited"
        BY <2>7 DEF CloseDatabase, Exit
    <2>8. QED
        BY <1>1, <1>2, <1>3, <2>1, <2>2, <2>3, <2>4, <2>5, <2>6, <2>7 DEF CliNext, Program, ParseArgs

\* What was read is what the usage text allows.
LEMMA ReadIsDocumented == ArgumentsOK => OnlyDocumentedUse
<1> SUFFICES ASSUME ArgumentsOK, phase \notin {"start", "exited"} PROVE Documented
    BY DEF OnlyDocumentedUse
<1> DEFINE n == Len(args)
<1>1. args \in Seq(STRING) /\ n \in Nat /\ (opts["command"] = Null \/ opts["script"] = Null)
    BY DEF ArgumentsOK, ArgumentsType
<1>2. PICK heads \in SUBSET (1 .. n) : Read(args, opts, heads, n)
    BY <1>1 DEF ArgumentsOK, AsRead
<1> DEFINE plain == {i \in heads : args[i] \notin Dashed}
           given(o) == {i \in heads : args[i] \in Options /\ OptionOf[args[i]] = o}
<1>3. heads = {i \in DOMAIN args : ~ (i - 1 \in heads /\ args[i - 1] \in Options)}
    BY <1>1, <1>2 DEF Read, AreHeads
<1>4. \A i \in heads : args[i] \in Dashed => args[i] \in Options /\ i < Len(args)
    BY <1>2 DEF Read, AreGood
<1>5. \A i \in given("format") : args[i + 1] \in Formats
    BY <1>2 DEF Read, AreGood, Is
<1>6. ASSUME NEW o \in Taking
      PROVE  opts[o] = IF given(o) = {} THEN NoOptions[o] ELSE args[Max(given(o)) + 1]
    <2>1. LastCounts(args, opts, heads)
        BY <1>2 DEF Read
    <2>2. CASE \A i \in heads : ~ Is(args, i, o)
        <3>1. given(o) = {}
            BY <2>2 DEF Is
        <3>2. QED
            BY <2>1, <2>2, <3>1 DEF LastCounts, LastOf
    <2>3. CASE ~ \A i \in heads : ~ Is(args, i, o)
        <3>1. PICK i \in heads : LastOf(args, heads, o, i) /\ opts[o] = args[i + 1]
            BY <2>1, <2>3 DEF LastCounts
        <3>2. i \in given(o) /\ \A j \in given(o) : i >= j
            BY <3>1 DEF LastOf, Is
        <3>3. \A j \in given(o) : j \in Nat
            BY <1>1
        <3> HIDE DEF given
        <3>4. Max(given(o)) = i
            BY <3>2, <3>3, MaxIs
        <3>5. QED
            BY <3>1, <3>2, <3>4
    <2>4. QED
        BY <2>2, <2>3
<1>7. PlainIsScript(args, opts, heads) /\ OnePlain(args, heads)
    BY <1>2 DEF Read
<1>8. \A i \in heads : args[i] # Null
    BY <1>1, ArgumentsAssumption
<1>9. opts["script"] = IF plain = {} THEN Null ELSE args[CHOOSE i \in plain : TRUE]
    <2>1. CASE \A i \in heads : args[i] \in Dashed
        <3>1. plain = {}
            BY <2>1
        <3>2. QED
            BY <2>1, <3>1, <1>7 DEF PlainIsScript
    <2>2. CASE ~ \A i \in heads : args[i] \in Dashed
        <3>1. PICK i \in plain : opts["script"] = args[i]
            BY <2>2, <1>7 DEF PlainIsScript
        <3>2. plain = {i}
            BY <3>1, <1>7 DEF OnePlain
        <3> HIDE DEF plain
        <3>3. (CHOOSE k \in plain : TRUE) = i
            BY <3>2
        <3>4. QED
            BY <3>1, <3>2, <3>3
    <2>3. QED
        BY <2>1, <2>2
<1>10. Cardinality(plain) <= (IF given("command") = {} THEN 1 ELSE 0)
    <2>1. CASE plain = {}
        <3>1. Cardinality(plain) = 0
            BY <2>1, FS_EmptySet
        <3>2. QED
            BY <3>1
    <2>2. CASE plain # {}
        <3>1. PICK i \in plain : TRUE
            BY <2>2
        <3>2. plain = {i}
            BY <3>1, <1>7 DEF OnePlain
        <3>3. Cardinality(plain) = 1
            BY <3>2, FS_Singleton
        <3>4. opts["script"] # Null
            BY <3>1, <1>7, <1>8 DEF PlainIsScript
        <3>5. opts["command"] = Null
            BY <3>4, <1>1
        <3>6. given("command") = {}
            <4> SUFFICES ASSUME NEW j \in given("command") PROVE FALSE
                OBVIOUS
            <4>1. Is(args, j, "command") /\ "command" \in Taking
                BY DEF Is, Taking
            <4>2. PICK k \in heads : LastOf(args, heads, "command", k) /\ opts["command"] = args[k + 1]
                BY <4>1, <1>2 DEF Read, LastCounts
            <4>3. k < n
                BY <4>2, <1>4, OptionTakes DEF LastOf, Is
            <4>4. args[k + 1] # Null
                BY <4>2, <4>3, <1>1, ArgumentsAssumption
            <4>5. QED
                BY <4>2, <4>4, <3>5
        <3>7. QED
            BY <3>3, <3>6
    <2>3. QED
        BY <2>1, <2>2
<1>11. QED
    <2>1. \A o \in {"db", "command", "format"} :
             opts[o] = IF given(o) = {} THEN NoOptions[o] ELSE args[Max(given(o)) + 1]
        BY <1>6 DEF Taking
    <2>2. heads \in SUBSET DOMAIN args
        BY <1>1
    <2>3. QED
        BY <1>3, <1>4, <1>5, <2>1, <2>2, <1>9, <1>10 DEF Documented

\* For all argument lists (parse_args).
THEOREM UseIsDocumented == CliSpec => []OnlyDocumentedUse
<1>1. CliSpec => []ArgumentsOK
    BY InitArguments, ArgumentsStep, PTL DEF CliSpec
<1>2. QED
    BY <1>1, ReadIsDocumented, PTL
-----------------------------------------------------------------------------
(* Scripts. *)

\* What the loop sees of a script: what stands before its first NUL.
ScriptCharacters == STRING \ {Nul}
Cut == CString(text)
Whole == Nul \notin Range(text)

LEMMA CutIs ==
    ASSUME NEW t \in Seq(STRING)
    PROVE  /\ CString(t) \in Seq(ScriptCharacters)
           /\ Len(CString(t)) <= Len(t)
           /\ \A i \in 1 .. Len(CString(t)) : CString(t)[i] = t[i]
           /\ \/ CString(t) = t /\ Nul \notin Range(t)
              \/ Len(CString(t)) < Len(t) /\ t[Len(CString(t)) + 1] = Nul
<1> DEFINE Stops == {n \in 0 .. Len(t) : n = Len(t) \/ t[n + 1] = Nul}
           Good(n) == (n = Len(t) \/ t[n + 1] = Nul) /\ \A i \in 1 .. n : t[i] # Nul
<1>1. Len(t) \in Nat /\ Len(t) \in Stops /\ Stops \in SUBSET Nat
    OBVIOUS
<1>2. PICK m \in Stops : \A n \in Stops : m <= n
    <2> HIDE DEF Stops
    <2>1. QED
        BY <1>1, LeastElement
<1>3. \A i \in 1 .. m : t[i] # Nul
    <2> SUFFICES ASSUME NEW i \in 1 .. m, t[i] = Nul PROVE FALSE
        OBVIOUS
    <2>1. i - 1 \in 0 .. Len(t) /\ t[(i - 1) + 1] = Nul
        BY <1>1, <1>2
    <2>2. i - 1 \in Stops
        BY <2>1
    <2>3. QED
        BY <1>2, <2>2
<1>4. m \in 0 .. Len(t) /\ Good(m)
    BY <1>2, <1>3
<1>5. PICK n : n = CHOOSE k \in 0 .. Len(t) : Good(k)
    OBVIOUS
<1>6. n \in 0 .. Len(t) /\ Good(n)
    <2> HIDE DEF Good
    <2>1. QED
        BY <1>4, <1>5
<1>7. CString(t) = SubSeq(t, 1, n)
    BY <1>5 DEF CString
<1>8. \A i \in 1 .. n : t[i] \in ScriptCharacters
    BY <1>1, <1>6 DEF ScriptCharacters
<1>9. /\ SubSeq(t, 1, n) \in Seq(ScriptCharacters) /\ Len(SubSeq(t, 1, n)) = n
      /\ \A i \in 1 .. n : SubSeq(t, 1, n)[i] = t[i]
    BY <1>1, <1>6, <1>8, SubSeqProperties
<1>10. CASE n = Len(t)
    <2>1. SubSeq(t, 1, n) = t
        BY <1>10
    <2>2. Nul \notin Range(t)
        BY <1>6, <1>10 DEF Range
    <2>3. QED
        BY <1>6, <1>7, <1>9, <2>1, <2>2
<1>11. CASE n # Len(t)
    <2>1. n < Len(t) /\ t[n + 1] = Nul
        BY <1>1, <1>6, <1>11
    <2>2. QED
        BY <1>6, <1>7, <1>9, <2>1
<1>12. QED
    BY <1>10, <1>11

LEMMA EmptyCut == CString(<<>>) = <<>> /\ Nul \notin Range(<<>>)
<1>1. <<>> \in Seq(STRING) /\ Len(<<>>) = 0
    OBVIOUS
<1>2. Len(CString(<<>>)) <= 0 /\ CString(<<>>) \in Seq(ScriptCharacters)
    BY <1>1, CutIs
<1>3. CString(<<>>) = <<>>
    BY <1>2
<1>4. QED
    BY <1>3 DEF Range

\* What is to be run.
FileStatements(t) == Statements(t) \o (IF Says(Unfinished(t)) THEN <<Unfinished(t)>> ELSE <<>>)
Pieces(chosen, t) == IF chosen["script"] = Null THEN <<chosen["command"]>> ELSE FileStatements(t)

\* A sequence of its own length.
IsSeq(s) == Len(s) \in Nat /\ s = [k \in 1 .. Len(s) |-> s[k]]

LEMMA PiecesOfText ==
    ASSUME NEW S, NEW t \in Seq(S)
    PROVE  LET n == Cardinality(Said(t)) IN
           /\ IsSeq(FileStatements(t)) /\ n \in Nat
           /\ Len(FileStatements(t)) = IF Says(Unfinished(t)) THEN n + 1 ELSE n
           /\ \A k \in 1 .. n : FileStatements(t)[k] = Statements(t)[k]
           /\ Says(Unfinished(t)) => FileStatements(t)[n + 1] = Unfinished(t)
<1> DEFINE n == Cardinality(Said(t))
           st == Statements(t)
           last == IF Says(Unfinished(t)) THEN <<Unfinished(t)>> ELSE <<>>
           V == {st[k] : k \in 1 .. n} \cup {Unfinished(t)}
           all == st \o last
<1>1. n \in Nat /\ st = [k \in 1 .. n |-> SkipWhite(Piece(t, Nth(Said(t), k)))]
    BY StatementsAre
<1> HIDE DEF st, n
<1>2. st \in Seq(V) /\ Len(st) = n
    <2>1. st \in [1 .. n -> V]
        BY <1>1
    <2>2. Len(st) = n
        BY <1>1
    <2> HIDE DEF V
    <2>3. QED
        BY <1>1, <2>1, <2>2
<1>3. last \in Seq(V) /\ Len(last) = IF Says(Unfinished(t)) THEN 1 ELSE 0
    <2>1. Unfinished(t) \in V
        OBVIOUS
    <2> HIDE DEF V
    <2>2. QED
        BY <2>1
<1>4. Says(Unfinished(t)) => last[1] = Unfinished(t)
    OBVIOUS
<1> HIDE DEF last, V
<1>5. /\ all \in Seq(V) /\ Len(all) = n + Len(last)
      /\ \A k \in 1 .. n + Len(last) : all[k] = IF k <= n THEN st[k] ELSE last[k - n]
    BY <1>2, <1>3, ConcatProperties
<1>6. all = FileStatements(t)
    BY DEF FileStatements, last, st
<1> HIDE DEF all
<1>7. IsSeq(all)
    BY <1>5 DEF IsSeq
<1>8. Len(all) = IF Says(Unfinished(t)) THEN n + 1 ELSE n
    BY <1>1, <1>3, <1>5
<1>9. \A k \in 1 .. n : all[k] = st[k]
    BY <1>1, <1>3, <1>5
<1>10. Says(Unfinished(t)) => all[n + 1] = Unfinished(t)
    <2> SUFFICES ASSUME Says(Unfinished(t)) PROVE all[n + 1] = Unfinished(t)
        OBVIOUS
    <2>1. n + 1 \in 1 .. n + Len(last) /\ ~ (n + 1 <= n) /\ (n + 1) - n = 1
        BY <1>1, <1>3
    <2>2. QED
        BY <2>1, <1>4, <1>5
<1>11. QED
    BY <1>1, <1>6, <1>7, <1>8, <1>9, <1>10 DEF n, st

LEMMA PiecesAreSeq ==
    ASSUME NEW chosen, NEW S, NEW t \in Seq(S)
    PROVE  IsSeq(Pieces(chosen, t))
<1>1. CASE chosen["script"] = Null
    BY <1>1 DEF Pieces, IsSeq
<1>2. CASE chosen["script"] # Null
    BY <1>2, PiecesOfText DEF Pieces
<1>3. QED
    BY <1>1, <1>2

\* Nothing is to be run of an empty script.
LEMMA NothingToRun == Len(FileStatements(<<>>)) = 0 /\ Cardinality(SaidUpTo(<<>>, 0)) = 0
<1>1. <<>> \in Seq(ScriptCharacters) /\ Len(<<>>) = 0
    OBVIOUS
<1>2. Ends(<<>>) = {}
    <2>1. DOMAIN <<>> = {}
        OBVIOUS
    <2>2. QED
        BY <2>1 DEF Ends
<1>3. Between(<<>>, 0, 1)
    BY <1>1, <1>2 DEF Between
<1>4. Unfinished(<<>>) = SubSeq(<<>>, 1, 0)
    <2>1. ~ (1 <= Len(<<>>))
        BY <1>1
    <2>2. Unfinished(<<>>) = SubSeq(<<>>, 1, Len(<<>>))
        BY <1>1, <1>2, <1>3, <2>1, LastStatement
    <2>3. QED
        BY <1>1, <2>2
<1>5. SubSeq(<<>>, 1, 0) = <<>>
    OBVIOUS
<1>6. ~ Says(<<>>)
    BY DEF Says
<1>7. Said(<<>>) = {} /\ SaidUpTo(<<>>, 0) = {}
    BY <1>2 DEF Said, SaidUpTo
<1>8. Cardinality(Said(<<>>)) = 0
    BY <1>7, FS_EmptySet
<1>9. Len(FileStatements(<<>>)) = Cardinality(Said(<<>>))
    BY <1>1, <1>4, <1>5, <1>6, PiecesOfText
<1>10. QED
    BY <1>7, <1>8, <1>9, FS_EmptySet
-----------------------------------------------------------------------------
\* What was run are the first of the pieces, all before the last one with
\* success.
Shown(run, pieces) == /\ Len(run) <= Len(pieces)
                      /\ \A k \in 1 .. Len(run) : run[k].sql = pieces[k]
                      /\ \A k \in 1 .. Len(run) - 1 : run[k].ok
AllGood(run) == \A k \in 1 .. Len(run) : run[k].ok

\* A run that went well, and one that did not.
WentWell(run, chosen, pieces) ==
    AllGood(run) /\ (run # <<>> \/ chosen["script"] # Null => Len(run) = Len(pieces))
WentWrong(run) == run = <<>> \/ ~ run[Len(run)].ok

\* The loop stands after the end of a statement, or at the end of the script.
Progress(t, pos, run) ==
    \/ /\ pos - 1 \in {0} \cup Ends(t)
       /\ Len(run) = Cardinality(SaidUpTo(t, pos - 1))
       /\ \A k \in 1 .. Len(run) : run[k].sql = Statements(t)[k]
    \/ /\ pos = Len(t) + 1
       /\ Len(run) = Len(FileStatements(t))
       /\ \A k \in 1 .. Len(run) : run[k].sql = FileStatements(t)[k]

SqlTexts == Seq(STRING) \cup Values
Runs == [sql : SqlTexts, ok : BOOLEAN]
Phases == {"start", "open", "command", "load", "script", "repl", "close", "exited"}

ScriptType == /\ cliRan \in Seq(Runs) /\ ok \in BOOLEAN
              /\ text \in Seq(STRING) /\ scriptPos \in 1 .. Len(Cut) + 1
              /\ phase \in Phases /\ exitStatus \in -1 .. 2

Unbegun == phase \in {"start", "open", "command", "load", "repl"} =>
              cliRan = <<>> /\ text = <<>> /\ scriptPos = 1 /\ ok
Kinds == /\ phase \in {"command", "repl"} => opts["script"] = Null
         /\ phase \in {"load", "script"} => opts["script"] # Null
InScript == phase = "script" => Progress(Cut, scriptPos, cliRan) /\ AllGood(cliRan) /\ ok
Closing == phase = "close" => IF ok THEN Whole /\ WentWell(cliRan, opts, Pieces(opts, Cut)) ELSE WentWrong(cliRan)
Exited == /\ phase # "exited" => exitStatus = -1
          /\ phase = "exited" =>
                /\ exitStatus \in 0 .. 2
                /\ exitStatus = 0 => Whole /\ WentWell(cliRan, opts, Pieces(opts, Cut))
                /\ exitStatus = 1 => WentWrong(cliRan)
                /\ exitStatus = 2 => cliRan = <<>> /\ text = <<>>

ScriptOK == /\ ScriptType
            /\ Shown(cliRan, Pieces(opts, Cut))
            /\ Unbegun /\ Kinds /\ InScript /\ Closing /\ Exited

LEMMA NothingShown ==
    ASSUME NEW chosen, NEW S, NEW t \in Seq(S)
    PROVE  /\ Shown(<<>>, Pieces(chosen, t)) /\ WentWrong(<<>>)
           /\ WentWell(<<>>, chosen, Pieces(chosen, <<>>))
<1>1. Len(<<>>) = 0 /\ Len(Pieces(chosen, t)) \in Nat
    BY PiecesAreSeq DEF IsSeq
<1>2. chosen["script"] # Null => Len(Pieces(chosen, <<>>)) = 0
    BY NothingToRun DEF Pieces
<1>3. QED
    BY <1>1, <1>2 DEF Shown, WentWrong, WentWell, AllGood

LEMMA InitScript == CliInit => ScriptOK
<1> SUFFICES ASSUME CliInit PROVE ScriptOK
    OBVIOUS
<1>1. /\ phase = "start" /\ exitStatus = -1 /\ text = <<>> /\ scriptPos = 1
      /\ cliRan = <<>> /\ ok = TRUE
    BY DEF CliInit
<1>a. Cut = <<>>
    BY <1>1, EmptyCut DEF Cut
<1>2. ScriptType
    BY <1>1, <1>a DEF ScriptType, Phases
<1>3. Shown(cliRan, Pieces(opts, Cut))
    <2>1. <<>> \in Seq(ScriptCharacters)
        OBVIOUS
    <2>2. QED
        BY <1>1, <1>a, <2>1, NothingShown
<1>4. QED
    BY <1>1, <1>2, <1>3 DEF ScriptOK, Unbegun, Kinds, InScript, Closing, Exited

\* Until a statement is run there is nothing to show.
LEMMA BeforeScript ==
    ASSUME ScriptOK, phase \in {"start", "open"},
           UNCHANGED <<scriptVars, cliRan, ok>>,
           \/ phase' \in {"start", "open"} /\ UNCHANGED exitStatus
           \/ phase' = "exited" /\ exitStatus' \in 0 .. 2
           \/ phase' \in {"command", "load", "repl"} /\ UNCHANGED <<exitStatus, opts>>
              /\ (phase' = "load" <=> opts["script"] # Null)
    PROVE  ScriptOK'
<1>1. /\ cliRan = <<>> /\ text = <<>> /\ scriptPos = 1 /\ ok /\ exitStatus = -1
      /\ ok \in BOOLEAN
    BY DEF ScriptOK, Unbegun, Exited, ScriptType
<1>2. cliRan' = <<>> /\ text' = <<>> /\ scriptPos' = 1 /\ ok' = ok /\ Cut' = <<>> /\ Whole'
    BY <1>1, EmptyCut DEF scriptVars, Cut, Whole
<1>3. Shown(cliRan', Pieces(opts', Cut')) /\ WentWrong(cliRan') /\ WentWell(cliRan', opts', Pieces(opts', Cut'))
    <2>1. <<>> \in Seq(ScriptCharacters)
        OBVIOUS
    <2>2. QED
        BY <1>2, <2>1, NothingShown
<1>4. ScriptType'
    BY <1>1, <1>2 DEF ScriptType, Phases
<1>5. Exited'
    BY <1>1, <1>2, <1>3 DEF Exited
<1>6. Unbegun' /\ Kinds' /\ InScript' /\ Closing'
    BY <1>1, <1>2 DEF Unbegun, Kinds, InScript, Closing
<1>7. QED
    BY <1>3, <1>4, <1>5, <1>6 DEF ScriptOK

\* What is read of a script is a text.
LEMMA OpenedScript ==
    ASSUME ArgumentsOK, phase = "load", opts["script"] # Null,
           NEW file \in Scripts[opts["script"]], NEW n \in 0 .. Len(file)
    PROVE  SubSeq(file, 1, n) \in Seq(STRING)
<1>1. PICK heads \in SUBSET (1 .. argPos - 1) : PlainIsScript(args, opts, heads)
    BY DEF ArgumentsOK, AsRead, Read
<1>2. PICK i \in heads : opts["script"] = args[i]
    BY <1>1 DEF PlainIsScript
<1>3. i \in DOMAIN args /\ args \in ArgLists
    BY DEF ArgumentsOK, ArgumentsType
<1>4. file \in Seq(STRING)
    BY <1>2, <1>3, ArgumentsAssumption
<1>5. n \in Nat /\ \A k \in 1 .. n : file[k] \in STRING
    BY <1>4
<1>6. QED
    BY <1>5, SubSeqProperties

LEMMA LoadScriptOK == ArgumentsOK /\ ScriptOK /\ LoadScript => ScriptOK'
<1> SUFFICES ASSUME ArgumentsOK, ScriptOK, LoadScript PROVE ScriptOK'
    OBVIOUS
<1>1. /\ phase = "load" /\ opts["script"] # Null
      /\ cliRan = <<>> /\ text = <<>> /\ scriptPos = 1 /\ ok /\ exitStatus = -1
      /\ ok \in BOOLEAN
    BY DEF ScriptOK, Unbegun, Kinds, Exited, ScriptType, LoadScript
<1>2. /\ cliRan' = <<>> /\ scriptPos' = 1 /\ exitStatus' = -1 /\ opts' = opts
      /\ \/ ok' = FALSE /\ phase' = "close" /\ text' = <<>>
         \/ ok' = ok /\ phase' = "script" /\ text' \in Seq(STRING)
    <2>1. /\ \/ ok' = FALSE /\ phase' = "close" /\ UNCHANGED text
             \/ /\ \E file \in Scripts[opts["script"]] : \E n \in 0 .. Len(file) : text' = SubSeq(file, 1, n)
                /\ phase' = "script" /\ UNCHANGED ok
          /\ UNCHANGED <<argVars, exitStatus, scriptPos, cliRan>>
        BY DEF LoadScript
    <2>2. (\E file \in Scripts[opts["script"]] : \E n \in 0 .. Len(file) : text' = SubSeq(file, 1, n))
             => text' \in Seq(STRING)
        BY <1>1, OpenedScript
    <2>3. QED
        BY <1>1, <2>1, <2>2 DEF argVars
<1>3. /\ text' \in Seq(STRING) /\ phase' \in {"close", "script"} /\ ok' \in BOOLEAN
      /\ Cut' \in Seq(ScriptCharacters)
    <2>1. text' \in Seq(STRING) /\ phase' \in {"close", "script"} /\ ok' \in BOOLEAN
        <3>a. <<>> \in Seq(STRING)
            OBVIOUS
        <3>1. CASE ok' = FALSE /\ phase' = "close" /\ text' = <<>>
            <4>1. text' \in Seq(STRING)
                BY <3>a, <3>1, Zenon
            <4>2. QED
                BY <3>1, <4>1
        <3>2. CASE ok' = ok /\ phase' = "script" /\ text' \in Seq(STRING)
            BY <1>1, <3>2
        <3>3. QED
            BY <1>2, <3>1, <3>2
    <2>2. CString(text') \in Seq(ScriptCharacters)
        BY <2>1, CutIs
    <2>3. QED
        BY <2>1, <2>2 DEF Cut
<1>4. ScriptType'
    BY <1>2, <1>3 DEF ScriptType, Phases
<1>5. Shown(cliRan', Pieces(opts', Cut')) /\ WentWrong(cliRan')
    BY <1>2, <1>3, NothingShown
<1>6. phase' = "script" => ok' /\ AllGood(cliRan') /\ Progress(Cut', scriptPos', cliRan')
    <2>1. AllGood(<<>>)
        BY DEF AllGood
    <2>2. Cardinality(SaidUpTo(Cut', 0)) = 0
        <3>1. SaidUpTo(Cut', 0) = {}
            BY <1>3, StatementsAre DEF SaidUpTo
        <3>2. QED
            BY <3>1, FS_EmptySet
    <2>3. Progress(Cut', 1, <<>>)
        BY <2>2 DEF Progress
    <2>4. QED
        BY <1>1, <1>2, <2>1, <2>3
<1>7. Unbegun' /\ Kinds' /\ InScript' /\ Closing' /\ Exited'
    BY <1>1, <1>2, <1>5, <1>6 DEF Unbegun, Kinds, InScript, Closing, Exited
<1>8. QED
    BY <1>4, <1>5, <1>7 DEF ScriptOK

LEMMA RunCommandOK == ArgumentsOK /\ ScriptOK /\ RunCommand => ScriptOK'
<1> SUFFICES ASSUME ArgumentsOK, ScriptOK, RunCommand PROVE ScriptOK'
    OBVIOUS
<1>1. /\ phase = "command" /\ opts["script"] = Null /\ opts["command"] \in SqlTexts
      /\ text = <<>> /\ scriptPos = 1 /\ exitStatus = -1
    <2>1. opts["command"] \in Values
        BY DEF ArgumentsOK, ArgumentsType, Fields
    <2>2. QED
        BY <2>1 DEF ScriptOK, Unbegun, Kinds, Exited, ScriptType, RunCommand, SqlTexts
<1>2. PICK good \in BOOLEAN : cliRan' = <<[sql |-> opts["command"], ok |-> good]>> /\ ok' = good
    BY DEF RunCommand
<1>3. phase' = "close" /\ exitStatus' = -1 /\ opts' = opts /\ text' = <<>> /\ scriptPos' = 1
      /\ Cut' = <<>> /\ Whole'
    BY <1>1, EmptyCut DEF RunCommand, argVars, scriptVars, Cut, Whole
<1> DEFINE entry == [sql |-> opts["command"], ok |-> good]
<1>4. entry \in Runs /\ entry.sql = opts["command"] /\ entry.ok = good
    BY <1>1 DEF Runs
<1>5. cliRan' = <<entry>> /\ Pieces(opts, Cut') = <<opts["command"]>>
    BY <1>1, <1>2 DEF Pieces
<1> HIDE DEF entry
<1>6. cliRan' \in Seq(Runs) /\ Len(cliRan') = 1 /\ cliRan'[1] = entry /\ cliRan' # <<>>
    BY <1>4, <1>5
<1>7. ScriptType'
    BY <1>1, <1>2, <1>3, <1>6 DEF ScriptType, Phases
<1>8. Shown(cliRan', Pieces(opts', Cut'))
    BY <1>3, <1>4, <1>5, <1>6 DEF Shown
<1>9. IF ok' THEN WentWell(cliRan', opts', Pieces(opts', Cut')) ELSE WentWrong(cliRan')
    <2>1. CASE good
        BY <2>1, <1>2, <1>3, <1>4, <1>5, <1>6 DEF WentWell, AllGood
    <2>2. CASE ~ good
        BY <2>2, <1>2, <1>4, <1>6 DEF WentWrong
    <2>3. QED
        BY <2>1, <2>2
<1>10. Unbegun' /\ Kinds' /\ InScript' /\ Closing' /\ Exited'
    BY <1>3, <1>9 DEF Unbegun, Kinds, InScript, Closing, Exited
<1>11. QED
    BY <1>7, <1>8, <1>10 DEF ScriptOK

LEMMA CloseDatabaseOK == ScriptOK /\ CloseDatabase => ScriptOK'
<1> SUFFICES ASSUME ScriptOK, CloseDatabase PROVE ScriptOK'
    OBVIOUS
<1>1. /\ phase = "close" /\ phase' = "exited" /\ exitStatus' = IF ok THEN 0 ELSE 1
      /\ opts' = opts /\ text' = text /\ scriptPos' = scriptPos /\ cliRan' = cliRan /\ ok' = ok
      /\ Cut' = Cut /\ Whole' = Whole
    BY DEF CloseDatabase, Exit, argVars, scriptVars, Cut, Whole
<1>2. exitStatus' \in 0 .. 2 /\ (exitStatus' = 0 <=> ok) /\ (exitStatus' = 1 <=> ~ ok) /\ exitStatus' # 2
    BY <1>1 DEF ScriptOK, ScriptType
<1>3. ScriptType' /\ Shown(cliRan', Pieces(opts', Cut'))
    BY <1>1, <1>2 DEF ScriptOK, ScriptType, Phases
<1>4. IF ok THEN Whole' /\ WentWell(cliRan', opts', Pieces(opts', Cut')) ELSE WentWrong(cliRan')
    BY <1>1 DEF ScriptOK, Closing
<1>5. Unbegun' /\ Kinds' /\ InScript' /\ Closing' /\ Exited'
    BY <1>1, <1>2, <1>4 DEF Unbegun, Kinds, InScript, Closing, Exited
<1>6. QED
    BY <1>3, <1>5 DEF ScriptOK

LEMMA LeaveReplOK == ScriptOK /\ LeaveRepl => ScriptOK'
<1> SUFFICES ASSUME ScriptOK, LeaveRepl PROVE ScriptOK'
    OBVIOUS
<1>1. /\ phase = "repl" /\ opts["script"] = Null /\ cliRan = <<>> /\ ok
      /\ text = <<>> /\ exitStatus = -1
    BY DEF ScriptOK, Unbegun, Kinds, Exited, ScriptType, LeaveRepl
<1>2. /\ phase' = "close" /\ exitStatus' = exitStatus /\ opts' = opts /\ text' = text
      /\ scriptPos' = scriptPos /\ cliRan' = cliRan /\ ok' = ok
      /\ Cut' = Cut /\ Cut = <<>> /\ Whole'
    BY <1>1, EmptyCut DEF LeaveRepl, argVars, scriptVars, Cut, Whole
<1>3. ScriptType' /\ Shown(cliRan', Pieces(opts', Cut'))
    BY <1>2 DEF ScriptOK, ScriptType, Phases
<1>4. WentWell(cliRan', opts', Pieces(opts', Cut'))
    <2>1. <<>> \in Seq(ScriptCharacters)
        OBVIOUS
    <2>2. QED
        BY <1>1, <1>2, <2>1, NothingShown
<1>5. Unbegun' /\ Kinds' /\ InScript' /\ Closing' /\ Exited'
    BY <1>1, <1>2, <1>4 DEF Unbegun, Kinds, InScript, Closing, Exited
<1>6. QED
    BY <1>3, <1>5 DEF ScriptOK
-----------------------------------------------------------------------------
LEMMA CutOfText ==
    ASSUME text \in Seq(STRING)
    PROVE  /\ Cut \in Seq(ScriptCharacters) /\ Len(Cut) \in Nat /\ Len(Cut) <= Len(text)
           /\ \A i \in 1 .. Len(Cut) : Cut[i] = text[i]
           /\ \/ Cut = text /\ Whole
              \/ Len(Cut) < Len(text) /\ text[Len(Cut) + 1] = Nul
  BY CutIs DEF Cut, Whole

\* The loop does not look beyond the first NUL.
LEMMA FromIs ==
    ASSUME text \in Seq(STRING), scriptPos \in 1 .. Len(Cut) + 1
    PROVE  /\ From \in scriptPos .. Len(Cut) + 1
           /\ From <= Len(Cut) => Cut[From] \notin Blanks
           /\ \A j \in scriptPos .. From - 1 : Cut[j] \in Blanks
<1> DEFINE Stops == {j \in scriptPos .. Len(text) + 1 : j > Len(text) \/ text[j] \notin Blanks}
<1>1. Len(text) \in Nat /\ Len(text) + 1 \in Stops /\ Stops \in SUBSET Nat
    BY CutOfText
<1>2. PICK i \in Stops : \A m \in Stops : i <= m
    <2> HIDE DEF Stops
    <2>1. QED
        BY <1>1, LeastElement
<1>3. \A j \in scriptPos .. i - 1 : text[j] \in Blanks
    <2> SUFFICES ASSUME NEW j \in scriptPos .. i - 1, text[j] \notin Blanks PROVE FALSE
        OBVIOUS
    <2>1. j \in Stops /\ j < i
        BY <1>2
    <2>2. QED
        BY <1>2, <2>1
<1>4. \E k \in scriptPos .. Len(text) + 1 :
         (k > Len(text) \/ text[k] \notin Blanks) /\ \A j \in scriptPos .. k - 1 : text[j] \in Blanks
    BY <1>2, <1>3
<1>5. /\ From \in scriptPos .. Len(text) + 1
      /\ From <= Len(text) => text[From] \notin Blanks
      /\ \A j \in scriptPos .. From - 1 : text[j] \in Blanks
    BY SMTT(40), <1>4 DEF From
<1> HIDE DEF Stops
<1>6. PICK f, n : f = From /\ n = Len(Cut)
    OBVIOUS
<1>7. /\ n \in Nat /\ n <= Len(text) /\ (n = Len(text) \/ text[n + 1] = Nul)
      /\ \A k \in 1 .. n : Cut[k] = text[k]
    BY <1>6, CutOfText
<1>8. f \in scriptPos .. n + 1
    <2>1. Nul \notin Blanks
        BY DEF Nul, Blanks
    <2>2. f > n + 1 => n + 1 \in scriptPos .. f - 1 /\ n # Len(text)
        BY <1>1, <1>5, <1>6, <1>7
    <2>3. QED
        BY <1>1, <1>5, <1>6, <1>7, <2>1, <2>2
<1>9. QED
    BY <1>5, <1>6, <1>7, <1>8

\* A part of the text before its first NUL is a part of what the loop sees.
LEMMA PartOfCut ==
    ASSUME text \in Seq(STRING), NEW i \in 1 .. Len(Cut) + 1, NEW e \in i - 1 .. Len(Cut)
    PROVE  SubSeq(text, i, e) = SubSeq(Cut, i, e)
<1>1. /\ Cut \in Seq(ScriptCharacters) /\ Len(Cut) \in Nat /\ Len(Cut) <= Len(text)
      /\ \A k \in 1 .. Len(Cut) : Cut[k] = text[k]
    BY CutOfText
<1>2. \A k \in i .. e : text[k] \in STRING /\ Cut[k] \in STRING /\ text[k] = Cut[k]
    BY <1>1 DEF ScriptCharacters
<1>3. i \in Int /\ e \in Int
    BY <1>1
<1>4. /\ SubSeq(text, i, e) \in Seq(STRING) /\ Len(SubSeq(text, i, e)) = IF i <= e THEN e - i + 1 ELSE 0
      /\ \A k \in 1 .. e - i + 1 : SubSeq(text, i, e)[k] = text[i + k - 1]
    BY SMTT(40), <1>2, <1>3, SubSeqProperties
<1>5. /\ SubSeq(Cut, i, e) \in Seq(STRING) /\ Len(SubSeq(Cut, i, e)) = IF i <= e THEN e - i + 1 ELSE 0
      /\ \A k \in 1 .. e - i + 1 : SubSeq(Cut, i, e)[k] = Cut[i + k - 1]
    BY <1>2, <1>3, SubSeqProperties
<1>6. \A k \in 1 .. e - i + 1 : i + k - 1 \in i .. e
    BY <1>3
<1>7. PICK s, t : s = SubSeq(text, i, e) /\ t = SubSeq(Cut, i, e)
    OBVIOUS
<1>8. s \in Seq(STRING) /\ t \in Seq(STRING) /\ Len(s) = Len(t) /\ \A k \in 1 .. Len(s) : s[k] = t[k]
    BY <1>2, <1>3, <1>4, <1>5, <1>6, <1>7
<1>9. QED
    BY <1>7, <1>8, SeqEqual

\* So is the C string from a position on.
LEMMA RestOfCut ==
    ASSUME text \in Seq(STRING), NEW i \in 1 .. Len(Cut) + 1, i <= Len(text)
    PROVE  CString(SubSeq(text, i, Len(text))) = SubSeq(Cut, i, Len(Cut))
<1>1. PICK n, m : n = Len(Cut) /\ m = Len(text)
    OBVIOUS
<1>2. /\ Cut \in Seq(ScriptCharacters) /\ n \in Nat /\ n <= m /\ m \in Nat
      /\ \A k \in 1 .. n : Cut[k] = text[k]
      /\ (n = m \/ text[n + 1] = Nul)
    BY <1>1, CutOfText
<1>3. PICK rest : rest = SubSeq(text, i, m)
    OBVIOUS
<1>4. rest \in Seq(STRING) /\ Len(rest) = m - i + 1 /\ \A k \in 1 .. m - i + 1 : rest[k] = text[i + k - 1]
    <2>1. \A k \in i .. m : text[k] \in STRING
        BY <1>1, <1>2
    <2>2. i \in Int /\ i <= m
        BY <1>1
    <2>3. QED
        BY <1>2, <1>3, <2>1, <2>2, SubSeqProperties
<1>5. PICK c : c = CString(rest)
    OBVIOUS
<1>6. /\ c \in Seq(ScriptCharacters) /\ Len(c) <= Len(rest) /\ \A k \in 1 .. Len(c) : c[k] = rest[k]
      /\ (c = rest \/ (Len(c) < Len(rest) /\ rest[Len(c) + 1] = Nul))
    BY <1>4, <1>5, CutIs
<1>7. PICK d : d = SubSeq(Cut, i, n)
    OBVIOUS
<1>8. d \in Seq(ScriptCharacters) /\ Len(d) = n - i + 1 /\ \A k \in 1 .. n - i + 1 : d[k] = Cut[i + k - 1]
    <2>1. \A k \in i .. n : Cut[k] \in ScriptCharacters
        BY <1>1, <1>2
    <2>2. i \in Int /\ (IF i <= n THEN n - i + 1 ELSE 0) = n - i + 1
        BY <1>1, <1>2
    <2>3. QED
        BY <1>2, <1>7, <2>1, <2>2, SubSeqProperties
<1>9. Len(c) = Len(d)
    <2>1. ~ (Len(c) > Len(d))
        <3> SUFFICES ASSUME Len(c) > Len(d) PROVE FALSE
            OBVIOUS
        <3>1. PICK k : k = n - i + 2
            OBVIOUS
        <3>2. k \in 1 .. Len(c) /\ k \in 1 .. m - i + 1 /\ i + k - 1 = n + 1 /\ n # m
            <4>1. PICK x, y : x = Len(c) /\ y = Len(rest)
                OBVIOUS
            <4>2. x \in Nat /\ y = m - i + 1 /\ x <= y /\ x > n - i + 1 /\ i \in 1 .. n + 1
                BY <1>1, <1>4, <1>6, <1>8, <4>1
            <4>3. n \in Nat /\ m \in Nat
                BY <1>2
            <4>4. k \in 1 .. x /\ k \in 1 .. m - i + 1 /\ i + k - 1 = n + 1 /\ n # m
                BY <3>1, <4>2, <4>3
            <4>5. QED
                BY <4>1, <4>4
        <3>3. c[k] = Nul
            BY <1>2, <1>4, <1>6, <3>2
        <3>4. QED
            BY <1>6, <3>2, <3>3 DEF ScriptCharacters
    <2>2. ~ (Len(c) < Len(d))
        <3> SUFFICES ASSUME Len(c) < Len(d) PROVE FALSE
            OBVIOUS
        <3>1. PICK k : k = Len(c) + 1
            OBVIOUS
        <3>2. c # rest /\ rest[k] = Nul /\ k \in 1 .. n - i + 1 /\ k \in 1 .. m - i + 1 /\ i + k - 1 \in 1 .. n
            BY SMTT(40), <1>1, <1>2, <1>4, <1>6, <1>8, <3>1
        <3>3. Cut[i + k - 1] = Nul
            <4>1. rest[k] = text[i + k - 1]
                BY <1>4, <3>2
            <4>2. Cut[i + k - 1] = text[i + k - 1]
                BY <1>2, <3>2
            <4>3. QED
                BY <3>2, <4>1, <4>2
        <3>4. QED
            BY <1>1, <1>2, <3>2, <3>3 DEF ScriptCharacters
    <2>3. Len(c) \in Nat /\ Len(d) \in Nat
        BY <1>6, <1>8
    <2>4. QED
        BY <2>1, <2>2, <2>3
<1>10. \A k \in 1 .. Len(c) : c[k] = d[k]
    <2> SUFFICES ASSUME NEW k \in 1 .. Len(c) PROVE c[k] = d[k]
        OBVIOUS
    <2>1. k \in 1 .. n - i + 1 /\ k \in 1 .. m - i + 1 /\ i + k - 1 \in 1 .. n
        BY <1>1, <1>2, <1>4, <1>6, <1>8, <1>9
    <2>2. QED
        BY <1>2, <1>4, <1>6, <1>8, <2>1
<1>11. c = d
    BY <1>6, <1>8, <1>9, <1>10, SeqEqual
<1>12. QED
    BY <1>1, <1>3, <1>5, <1>7, <1>11

\* Before a NUL there is nothing to run, and the loop stays.
LEMMA NothingAtNul ==
    ASSUME text \in Seq(STRING), scriptPos \in 1 .. Len(Cut) + 1, From > Len(Cut), From <= Len(text)
    PROVE  To = Len(Cut) /\ ~ HasContent(Sql)
<1>1. PICK n : n = Len(Cut)
    OBVIOUS
<1>2. n \in Nat /\ From = n + 1 /\ Cut \in Seq(ScriptCharacters) /\ n < Len(text)
    BY <1>1, FromIs, CutOfText
<1>3. CString(SubSeq(text, From, Len(text))) = SubSeq(Cut, n + 1, n)
    BY <1>1, <1>2, RestOfCut
<1>4. SubSeq(Cut, n + 1, n) = <<>>
    BY <1>2, SubSeqEmpty
<1>5. FindStatementEnd(<<>>) = 0
    <2>1. <<>> \in Seq(STRING) /\ Len(<<>>) = 0
        OBVIOUS
    <2>2. Ends(<<>>) = {}
        <3>1. DOMAIN <<>> = {}
            OBVIOUS
        <3>2. QED
            BY <3>1 DEF Ends
    <2>3. QED
        BY <2>1, <2>2, StatementEnd
<1>6. To = n
    BY <1>2, <1>3, <1>4, <1>5 DEF To
<1>7. Sql = <<>>
    <2>1. SubSeq(text, n + 1, n) = <<>>
        BY <1>2, SubSeqEmpty
    <2>2. QED
        BY <1>2, <1>6, <2>1 DEF Sql
<1>8. ~ HasContent(<<>>)
    BY DEF HasContent, Range
<1>9. QED
    BY <1>1, <1>6, <1>7, <1>8

\* The step of the loop: what stands from its position to the next end.
LEMMA LoopStep ==
    ASSUME ScriptOK, phase = "script", From <= Len(Cut)
    PROVE  LET p == scriptPos - 1 IN
           /\ Sql = SubSeq(Cut, From, To)
           /\ Between(Cut, p, From) /\ Progress(Cut, scriptPos, cliRan) /\ Cut[From] \notin Blanks
           /\ p \in {0} \cup Ends(Cut)
           /\ Len(cliRan) = Cardinality(SaidUpTo(Cut, p))
           /\ \A k \in 1 .. Len(cliRan) : cliRan[k].sql = Statements(Cut)[k]
           /\ To \in From - 1 .. Len(Cut)
           /\ \/ To \in Ends(Cut) /\ To >= From /\ \A k \in Ends(Cut) : k > p => k >= To
              \/ To = Len(Cut) /\ \A k \in Ends(Cut) : k <= p
           /\ Sql \in Seq(STRING) /\ (HasContent(Sql) <=> Says(Sql))
<1> DEFINE p == scriptPos - 1
<1>1. Cut \in Seq(ScriptCharacters) /\ scriptPos \in 1 .. Len(Cut) + 1 /\ Progress(Cut, scriptPos, cliRan)
    BY CutOfText DEF ScriptOK, ScriptType, InScript
<1>2. /\ From \in scriptPos .. Len(Cut) + 1 /\ Cut[From] \notin Blanks
      /\ \A j \in scriptPos .. From - 1 : Cut[j] \in Blanks
    BY FromIs DEF ScriptOK, ScriptType
<1>3. /\ p \in {0} \cup Ends(Cut)
      /\ Len(cliRan) = Cardinality(SaidUpTo(Cut, p))
      /\ \A k \in 1 .. Len(cliRan) : cliRan[k].sql = Statements(Cut)[k]
    <2>1. scriptPos # Len(Cut) + 1
        BY <1>1, <1>2
    <2>2. QED
        BY <1>1, <2>1 DEF Progress
<1>4. Between(Cut, p, From)
    <2>1. p + 1 = scriptPos
        BY <1>1
    <2>2. QED
        BY <1>2, <1>3, <2>1 DEF Between
<1>a. text \in Seq(STRING) /\ Len(Cut) \in Nat /\ Len(text) \in Nat /\ Len(Cut) <= Len(text)
    BY CutOfText DEF ScriptOK, ScriptType
<1>5. To = From - 1 + FindStatementEnd(SubSeq(Cut, From, Len(Cut)))
    <2>1. From \in 1 .. Len(Cut) + 1 /\ From <= Len(text)
        BY <1>1, <1>2, <1>a
    <2>2. QED
        BY <1>a, <2>1, RestOfCut DEF To
<1> HIDE DEF p
<1>6. PICK i : i = From
    OBVIOUS
<1>7. PICK e : e = To
    OBVIOUS
<1>8. /\ e \in i - 1 .. Len(Cut)
      /\ \/ e \in Ends(Cut) /\ e >= i /\ \A k \in Ends(Cut) : k > p => k >= e
         \/ e = Len(Cut) /\ \A k \in Ends(Cut) : k <= p
    BY <1>1, <1>4, <1>5, <1>6, <1>7, StatementEndsAt
<1>9. Sql \in Seq(STRING) /\ Sql = SubSeq(Cut, i, e)
    <2>1. \A k \in i .. e : Cut[k] \in STRING
        BY <1>1, <1>2, <1>6, <1>8 DEF ScriptCharacters
    <2>2. SubSeq(Cut, i, e) \in Seq(STRING)
        BY <1>1, <1>2, <1>6, <1>8, <2>1, SubSeqProperties
    <2>3. Sql = SubSeq(Cut, i, e)
        <3>1. i \in 1 .. Len(Cut) + 1 /\ e \in i - 1 .. Len(Cut)
            BY <1>1, <1>2, <1>6, <1>8
        <3>2. SubSeq(text, i, e) = SubSeq(Cut, i, e)
            BY <1>a, <3>1, PartOfCut
        <3>3. QED
            BY <1>6, <1>7, <3>2 DEF Sql
    <2>4. QED
        BY <2>2, <2>3
<1>10. HasContent(Sql) <=> Says(Sql)
    BY <1>9, ContentIsSaid
<1>11. QED
    BY <1>1, <1>2, <1>3, <1>4, <1>6, <1>7, <1>8, <1>9, <1>10 DEF p

\* With the next statement what was run is the first of the pieces still.
LEMMA NextRuns ==
    ASSUME ScriptOK, phase = "script", From <= Len(Cut), HasContent(Sql)
    PROVE  LET n == Len(cliRan) IN
           /\ n + 1 <= Len(FileStatements(Cut)) /\ FileStatements(Cut)[n + 1] = Sql
           /\ \A k \in 1 .. n : cliRan[k].sql = FileStatements(Cut)[k]
           /\ \/ /\ To \in Ends(Cut)
                 /\ n + 1 = Cardinality(SaidUpTo(Cut, To))
                 /\ Statements(Cut)[n + 1] = Sql
              \/ To = Len(Cut) /\ n + 1 = Len(FileStatements(Cut))
<1> DEFINE n == Len(cliRan)
<1>1. PICK p : p = scriptPos - 1
    OBVIOUS
<1>2. PICK i : i = From
    OBVIOUS
<1>3. PICK e : e = To
    OBVIOUS
<1>4. /\ Between(Cut, p, i) /\ Cut[i] \notin Blanks /\ n = Cardinality(SaidUpTo(Cut, p))
      /\ \A k \in 1 .. n : cliRan[k].sql = Statements(Cut)[k]
      /\ \/ e \in Ends(Cut) /\ e >= i /\ \A k \in Ends(Cut) : k > p => k >= e
         \/ e = Len(Cut) /\ \A k \in Ends(Cut) : k <= p
      /\ Says(SubSeq(Cut, i, e)) /\ Sql = SubSeq(Cut, i, e)
    BY <1>1, <1>2, <1>3, LoopStep
<1>5. Cut \in Seq(ScriptCharacters)
    BY CutOfText DEF ScriptOK, ScriptType
<1>6. /\ Cardinality(SaidUpTo(Cut, p)) <= Cardinality(Said(Cut))
      /\ Cardinality(SaidUpTo(Cut, p)) \in Nat /\ Cardinality(Said(Cut)) \in Nat
    <2>1. SaidUpTo(Cut, p) \in SUBSET Said(Cut)
        BY DEF SaidUpTo
    <2>2. QED
        BY <1>5, <2>1, StatementsAre, FS_Subset
<1> DEFINE fs == FileStatements(Cut)
           m == Cardinality(Said(Cut))
<1>7. /\ Len(fs) = IF Says(Unfinished(Cut)) THEN m + 1 ELSE m
      /\ \A k \in 1 .. m : fs[k] = Statements(Cut)[k]
      /\ Says(Unfinished(Cut)) => fs[m + 1] = Unfinished(Cut)
    BY <1>5, PiecesOfText
<1> HIDE DEF fs
<1>8. \A k \in 1 .. n : cliRan[k].sql = fs[k]
    <2>1. \A k \in 1 .. n : k \in 1 .. m
        BY <1>4, <1>6
    <2>2. QED
        BY <1>4, <1>7, <2>1
<1>9. CASE e \in Ends(Cut) /\ e >= i /\ \A k \in Ends(Cut) : k > p => k >= e
    <2>1. /\ Cardinality(SaidUpTo(Cut, e)) = n + 1 /\ n + 1 \in 1 .. m
          /\ Statements(Cut)[n + 1] = Sql
        BY <1>4, <1>5, <1>9, NextStatement
    <2>2. n + 1 <= Len(fs) /\ fs[n + 1] = Sql
        BY <1>4, <1>6, <1>7, <2>1
    <2>3. QED
        BY <1>3, <1>8, <1>9, <2>1, <2>2 DEF fs
<1>10. CASE e = Len(Cut) /\ \A k \in Ends(Cut) : k <= p
    <2>1. SaidUpTo(Cut, p) = Said(Cut) /\ Unfinished(Cut) = Sql
        BY <1>4, <1>5, <1>10, LastStatement
    <2>2. n + 1 = Len(fs) /\ fs[n + 1] = Sql
        BY <1>4, <1>6, <1>7, <2>1
    <2>3. n + 1 <= Len(fs)
        BY <1>4, <1>6, <2>2
    <2>4. QED
        BY <1>3, <1>8, <1>10, <2>2, <2>3 DEF fs
<1>11. QED
    BY <1>4, <1>9, <1>10

LEMMA RunStatementOK == ScriptOK /\ RunStatement => ScriptOK'
<1> SUFFICES ASSUME ScriptOK, RunStatement PROVE ScriptOK'
    OBVIOUS
<1>1. PICK n : n = Len(cliRan)
    OBVIOUS
<1>2. PICK good \in BOOLEAN :
         /\ cliRan' = Append(cliRan, [sql |-> Sql, ok |-> good]) /\ ok' = good
         /\ IF good THEN scriptPos' = To + 1 /\ UNCHANGED phase
            ELSE phase' = "close" /\ UNCHANGED scriptPos
    BY DEF RunStatement
<1>3. /\ phase = "script" /\ From <= Len(Cut) /\ HasContent(Sql)
      /\ opts' = opts /\ text' = text /\ Cut' = Cut /\ exitStatus' = exitStatus
    <2>1. From <= Len(text) /\ HasContent(Sql)
        BY DEF RunStatement
    <2>2. /\ text \in Seq(STRING) /\ scriptPos \in 1 .. Len(Cut) + 1
          /\ From \in Int /\ Len(Cut) \in Int
        BY FromIs, CutOfText DEF ScriptOK, ScriptType
    <2>3. From <= Len(Cut)
        BY <2>1, <2>2, NothingAtNul
    <2>4. QED
        BY <2>1, <2>3 DEF RunStatement, argVars, Cut
<1>4. /\ cliRan \in Seq(Runs) /\ n \in Nat /\ Cut \in Seq(ScriptCharacters) /\ opts["script"] # Null
      /\ exitStatus = -1 /\ scriptPos \in 1 .. Len(Cut) + 1
      /\ text \in Seq(STRING)
      /\ \A k \in 1 .. n : cliRan[k].ok
    BY <1>1, <1>3, CutOfText DEF ScriptOK, ScriptType, Kinds, Exited, InScript, AllGood
<1>5. PICK e : e = To
    OBVIOUS
<1>6. PICK sql : sql = Sql
    OBVIOUS
<1>7. sql \in SqlTexts /\ e \in 0 .. Len(Cut)
    <2>1. Sql \in Seq(STRING) /\ To \in From - 1 .. Len(Cut) /\ From \in scriptPos .. Len(Cut) + 1
        BY <1>3, <1>4, LoopStep, FromIs
    <2>2. QED
        BY <1>4, <1>5, <1>6, <2>1 DEF SqlTexts
<1> DEFINE entry == [sql |-> sql, ok |-> good]
<1>8. entry \in Runs /\ entry.sql = sql /\ entry.ok = good /\ cliRan' = Append(cliRan, entry)
    BY <1>2, <1>6, <1>7 DEF Runs
<1> HIDE DEF entry
<1>9. /\ cliRan' \in Seq(Runs) /\ Len(cliRan') = n + 1 /\ cliRan' # <<>>
      /\ \A k \in 1 .. n : cliRan'[k] = cliRan[k]
      /\ cliRan'[n + 1] = entry
    BY <1>1, <1>4, <1>8, AppendProperties
<1> DEFINE fs == FileStatements(Cut)
<1>10. /\ n + 1 <= Len(fs) /\ fs[n + 1] = sql
       /\ \A k \in 1 .. n : cliRan[k].sql = fs[k]
       /\ \/ /\ e \in Ends(Cut)
             /\ n + 1 = Cardinality(SaidUpTo(Cut, e))
             /\ Statements(Cut)[n + 1] = sql
          \/ e = Len(Cut) /\ n + 1 = Len(fs)
    BY <1>1, <1>3, <1>5, <1>6, NextRuns
<1>11. Pieces(opts', Cut') = fs
    BY <1>3, <1>4 DEF Pieces
<1> HIDE DEF fs
<1>12. \A k \in 1 .. n + 1 : cliRan'[k].sql = fs[k]
    BY <1>4, <1>8, <1>9, <1>10
<1>13. Shown(cliRan', fs)
    BY <1>4, <1>9, <1>10, <1>12 DEF Shown
<1>14. CASE good
    <2>1. phase' = "script" /\ scriptPos' = e + 1 /\ ok'
        BY <1>2, <1>3, <1>5, <1>14
    <2>2. ScriptType'
        BY <1>3, <1>4, <1>7, <1>9, <2>1, <1>2 DEF ScriptType, Phases
    <2>3. AllGood(cliRan')
        <3>1. \A k \in 1 .. n : cliRan'[k].ok
            BY <1>4, <1>9
        <3>2. cliRan'[n + 1].ok
            BY <1>8, <1>9, <1>14
        <3>3. \A k \in 1 .. Len(cliRan') : k \in 1 .. n \/ k = n + 1
            BY <1>4, <1>9
        <3>4. QED
            BY <3>1, <3>2, <3>3 DEF AllGood
    <2>4. Progress(Cut, e + 1, cliRan')
        <3>1. CASE /\ e \in Ends(Cut)
                   /\ n + 1 = Cardinality(SaidUpTo(Cut, e))
                   /\ Statements(Cut)[n + 1] = sql
            <4>1. (e + 1) - 1 = e
                BY <1>7
            <4>2. \A k \in 1 .. n : cliRan[k].sql = Statements(Cut)[k]
                BY <1>1, <1>3, LoopStep
            <4>3. \A k \in 1 .. n + 1 : cliRan'[k].sql = Statements(Cut)[k]
                BY <1>4, <1>8, <1>9, <3>1, <4>2
            <4>4. QED
                BY <1>9, <3>1, <4>1, <4>3 DEF Progress
        <3>2. CASE e = Len(Cut) /\ n + 1 = Len(fs)
            BY <1>9, <1>12, <3>2 DEF Progress, fs
        <3>3. QED
            BY <1>10, <3>1, <3>2
    <2>5. Unbegun' /\ Kinds' /\ InScript' /\ Closing' /\ Exited'
        BY <1>3, <1>4, <2>1, <2>3, <2>4 DEF Unbegun, Kinds, InScript, Closing, Exited
    <2>6. QED
        BY <1>11, <1>13, <2>2, <2>5 DEF ScriptOK
<1>15. CASE ~ good
    <2>1. phase' = "close" /\ scriptPos' = scriptPos /\ ~ ok' /\ ok' \in BOOLEAN
        BY <1>2, <1>15
    <2>2. ScriptType'
        BY <1>3, <1>4, <1>9, <2>1 DEF ScriptType, Phases
    <2>3. WentWrong(cliRan')
        BY <1>8, <1>9, <1>15 DEF WentWrong
    <2>4. Unbegun' /\ Kinds' /\ InScript' /\ Closing' /\ Exited'
        BY <1>3, <1>4, <2>1, <2>3 DEF Unbegun, Kinds, InScript, Closing, Exited
    <2>5. QED
        BY <1>11, <1>13, <2>2, <2>4 DEF ScriptOK
<1>16. QED
    BY <1>14, <1>15

\* At the end of what it sees, the loop has run all there is.
LEMMA AllLooped ==
    ASSUME ScriptOK, phase = "script", From > Len(Cut)
    PROVE  /\ Len(cliRan) = Len(FileStatements(Cut))
           /\ \A k \in 1 .. Len(cliRan) : cliRan[k].sql = FileStatements(Cut)[k]
<1>2. /\ Cut \in Seq(ScriptCharacters) /\ scriptPos \in 1 .. Len(Cut) + 1 /\ opts["script"] # Null
      /\ Progress(Cut, scriptPos, cliRan) /\ text \in Seq(STRING)
    BY CutOfText DEF ScriptOK, ScriptType, InScript, Kinds
<1>3. From = Len(Cut) + 1 /\ \A j \in scriptPos .. Len(Cut) : Cut[j] \in Blanks
    <2>1. /\ From \in scriptPos .. Len(Cut) + 1
          /\ \A j \in scriptPos .. From - 1 : Cut[j] \in Blanks
        BY <1>2, FromIs
    <2>2. From = Len(Cut) + 1
        BY <1>2, <2>1
    <2>3. QED
        BY <1>2, <2>1, <2>2
<1>4. Len(cliRan) = Len(FileStatements(Cut))
    <2>1. CASE scriptPos - 1 \in {0} \cup Ends(Cut) /\ Len(cliRan) = Cardinality(SaidUpTo(Cut, scriptPos - 1))
        <3>1. PICK p : p = scriptPos - 1
            OBVIOUS
        <3>2. Between(Cut, p, Len(Cut) + 1) /\ p \in Nat /\ p + 1 = scriptPos
            BY <1>2, <1>3, <2>1, <3>1 DEF Between
        <3>3. \A k \in Ends(Cut) : k <= p
            <4> SUFFICES ASSUME NEW k \in Ends(Cut), k > p PROVE FALSE
                BY <3>2, EndsAre, <1>2
            <4>1. k \in 1 .. Len(Cut) /\ Cut[k] = Terminator
                BY <1>2, EndsAre
            <4>2. k \in scriptPos .. Len(Cut)
                BY <3>2, <4>1
            <4>3. QED
                BY <1>3, <4>1, <4>2, BlanksArePlain
        <3>4. SaidUpTo(Cut, p) = Said(Cut) /\ Unfinished(Cut) = SubSeq(Cut, Len(Cut) + 1, Len(Cut))
            BY <1>2, <3>2, <3>3, LastStatement
        <3>5. ~ Says(Unfinished(Cut))
            <4>1. SubSeq(Cut, Len(Cut) + 1, Len(Cut)) = <<>>
                BY <1>2, SubSeqEmpty
            <4>2. QED
                BY <3>4, <4>1 DEF Says
        <3>6. QED
            BY <1>2, <2>1, <3>1, <3>4, <3>5, PiecesOfText
    <2>2. CASE Len(cliRan) = Len(FileStatements(Cut))
        BY <2>2
    <2>3. QED
        BY <1>2, <2>1, <2>2 DEF Progress
<1>5. Shown(cliRan, FileStatements(Cut))
    BY <1>2 DEF ScriptOK, Pieces
<1>6. QED
    BY <1>4, <1>5 DEF Shown

LEMMA StayAtNulOK ==
    ASSUME ScriptOK, SkipPiece, From > Len(Cut)
    PROVE  ScriptOK'
<1>1. /\ text \in Seq(STRING) /\ scriptPos \in 1 .. Len(Cut) + 1 /\ Len(Cut) \in Nat
      /\ phase = "script" /\ From <= Len(text)
    BY CutOfText DEF ScriptOK, ScriptType, SkipPiece
<1>2. To = Len(Cut)
    BY <1>1, NothingAtNul
<1>3. /\ scriptPos' = Len(Cut) + 1
      /\ opts' = opts /\ text' = text /\ Cut' = Cut /\ exitStatus' = exitStatus /\ phase' = phase
      /\ cliRan' = cliRan /\ ok' = ok
    BY <1>2 DEF SkipPiece, argVars, Cut
<1>4. Progress(Cut, Len(Cut) + 1, cliRan)
    BY <1>1, AllLooped DEF Progress
<1>5. ScriptType' /\ Shown(cliRan', Pieces(opts', Cut'))
    BY <1>1, <1>3 DEF ScriptOK, ScriptType
<1>6. AllGood(cliRan) /\ ok /\ opts["script"] # Null /\ exitStatus = -1
    BY <1>1 DEF ScriptOK, InScript, Kinds, Exited
<1>7. Unbegun' /\ Kinds' /\ InScript' /\ Closing' /\ Exited'
    BY <1>1, <1>3, <1>4, <1>6 DEF Unbegun, Kinds, InScript, Closing, Exited
<1>8. QED
    BY <1>5, <1>7 DEF ScriptOK

LEMMA SkipPieceOK == ScriptOK /\ SkipPiece => ScriptOK'
<1> SUFFICES ASSUME ScriptOK, SkipPiece PROVE ScriptOK'
    OBVIOUS
<1>a. /\ text \in Seq(STRING) /\ scriptPos \in 1 .. Len(Cut) + 1 /\ phase = "script"
      /\ From <= Len(text) /\ From \in Int /\ Len(Cut) \in Nat
    BY FromIs, CutOfText DEF ScriptOK, ScriptType, SkipPiece
<1> SUFFICES ASSUME From <= Len(Cut) PROVE ScriptOK'
    <2>1. From > Len(Cut) => ScriptOK'
        BY <1>a, StayAtNulOK
    <2>2. QED
        BY <1>a, <2>1
<1>1. PICK p : p = scriptPos - 1
    OBVIOUS
<1>2. PICK i : i = From
    OBVIOUS
<1>3. PICK e : e = To
    OBVIOUS
<1>4. PICK n : n = Len(cliRan)
    OBVIOUS
<1>5. /\ phase = "script" /\ From <= Len(Cut) /\ ~ HasContent(Sql) /\ scriptPos' = e + 1
      /\ opts' = opts /\ text' = text /\ Cut' = Cut /\ exitStatus' = exitStatus /\ phase' = phase
      /\ cliRan' = cliRan /\ ok' = ok
    BY <1>a, <1>3 DEF SkipPiece, argVars, Cut
<1>6. /\ Between(Cut, p, i) /\ Cut[i] \notin Blanks /\ n = Cardinality(SaidUpTo(Cut, p))
      /\ \A k \in 1 .. n : cliRan[k].sql = Statements(Cut)[k]
      /\ e \in i - 1 .. Len(Cut)
      /\ \/ e \in Ends(Cut) /\ e >= i /\ \A k \in Ends(Cut) : k > p => k >= e
         \/ e = Len(Cut) /\ \A k \in Ends(Cut) : k <= p
      /\ ~ Says(SubSeq(Cut, i, e))
    BY <1>1, <1>2, <1>3, <1>4, <1>5, LoopStep
<1>7. Cut \in Seq(ScriptCharacters) /\ scriptPos \in 1 .. Len(Cut) + 1 /\ i \in scriptPos .. Len(Cut) + 1
    BY <1>a, <1>2, FromIs, CutOfText
<1>8. e \in 0 .. Len(Cut) /\ (e + 1) - 1 = e
    BY <1>6, <1>7
<1>9. Progress(Cut, e + 1, cliRan)
    <2>1. CASE e \in Ends(Cut) /\ e >= i /\ \A k \in Ends(Cut) : k > p => k >= e
        <3>1. SaidUpTo(Cut, e) = SaidUpTo(Cut, p)
            BY <1>6, <1>7, <2>1, NextStatement
        <3>2. QED
            BY <1>4, <1>6, <1>8, <2>1, <3>1 DEF Progress
    <2>2. CASE e = Len(Cut) /\ \A k \in Ends(Cut) : k <= p
        <3>1. SaidUpTo(Cut, p) = Said(Cut) /\ ~ Says(Unfinished(Cut))
            BY <1>6, <1>7, <2>2, LastStatement
        <3>2. /\ Len(FileStatements(Cut)) = Cardinality(Said(Cut))
              /\ \A k \in 1 .. Cardinality(Said(Cut)) : FileStatements(Cut)[k] = Statements(Cut)[k]
            BY <1>7, <3>1, PiecesOfText
        <3>3. QED
            BY <1>4, <1>6, <2>2, <3>1, <3>2 DEF Progress
    <2>3. QED
        BY <1>6, <2>1, <2>2
<1>10. ScriptType' /\ Shown(cliRan', Pieces(opts', Cut'))
    BY <1>5, <1>8 DEF ScriptOK, ScriptType
<1>11. AllGood(cliRan) /\ ok /\ opts["script"] # Null /\ exitStatus = -1
    BY <1>5 DEF ScriptOK, InScript, Kinds, Exited
<1>12. Unbegun' /\ Kinds' /\ InScript' /\ Closing' /\ Exited'
    BY <1>5, <1>9, <1>11 DEF Unbegun, Kinds, InScript, Closing, Exited
<1>13. QED
    BY <1>10, <1>12 DEF ScriptOK

LEMMA EndScriptOK == ScriptOK /\ EndScript => ScriptOK'
<1> SUFFICES ASSUME ScriptOK, EndScript PROVE ScriptOK'
    OBVIOUS
<1>1. /\ phase = "script" /\ From > Len(text) /\ phase' = "close"
      /\ opts' = opts /\ text' = text /\ scriptPos' = scriptPos /\ exitStatus' = exitStatus
      /\ cliRan' = cliRan /\ ok' = ok /\ Cut' = Cut /\ Whole' = Whole
    BY DEF EndScript, argVars, scriptVars, Cut, Whole
<1>2. /\ opts["script"] # Null /\ AllGood(cliRan) /\ ok /\ exitStatus = -1
      /\ text \in Seq(STRING) /\ scriptPos \in 1 .. Len(Cut) + 1
    BY <1>1 DEF ScriptOK, ScriptType, InScript, Kinds, Exited
<1>3. From > Len(Cut) /\ Whole
    <2>1. From \in scriptPos .. Len(Cut) + 1 /\ Len(Cut) \in Nat /\ Len(text) \in Nat /\ Len(Cut) <= Len(text)
        BY <1>2, FromIs, CutOfText
    <2>2. From > Len(Cut) /\ ~ (Len(Cut) < Len(text))
        BY <1>1, <1>2, <2>1
    <2>3. QED
        BY <1>2, <2>2, CutOfText
<1>4. Len(cliRan) = Len(FileStatements(Cut))
    BY <1>1, <1>3, AllLooped
<1>5. WentWell(cliRan, opts, Pieces(opts, Cut))
    BY <1>2, <1>4 DEF WentWell, Pieces
<1>6. ScriptType' /\ Shown(cliRan', Pieces(opts', Cut'))
    BY <1>1 DEF ScriptOK, ScriptType, Phases
<1>7. Unbegun' /\ Kinds' /\ InScript' /\ Closing' /\ Exited'
    BY <1>1, <1>2, <1>3, <1>5 DEF Unbegun, Kinds, InScript, Closing, Exited
<1>8. QED
    BY <1>6, <1>7 DEF ScriptOK

\* Every step of the program keeps to its script.
LEMMA ScriptStep == ArgumentsOK /\ ScriptOK /\ [CliNext]_cliVars => ScriptOK'
<1> SUFFICES ASSUME ArgumentsOK, ScriptOK, [CliNext]_cliVars PROVE ScriptOK'
    OBVIOUS
<1>1. CASE ParseArgs
    <2>1. /\ phase = "start" /\ UNCHANGED <<scriptVars, cliRan, ok>>
          /\ \/ phase' \in {"start", "open"} /\ UNCHANGED exitStatus
             \/ phase' = "exited" /\ exitStatus' \in 0 .. 2
        BY <1>1 DEF ParseArgs, TakeHelp, TakeOption, TakeScript, EndArguments, UsageError, Exit, Arguing
    <2>2. QED
        BY <2>1, BeforeScript
<1>2. CASE OpenDatabase
    <2>1. phase = "open" /\ UNCHANGED <<scriptVars, cliRan, ok, opts>>
        BY <1>2 DEF OpenDatabase, argVars
    <2>2. opts["command"] = Null \/ opts["script"] = Null
        BY <2>1 DEF ArgumentsOK
    <2>3. \/ phase' = "exited" /\ exitStatus' \in 0 .. 2
          \/ /\ phase' \in {"command", "load", "repl"} /\ UNCHANGED <<exitStatus, opts>>
             /\ (phase' = "load" <=> opts["script"] # Null)
        BY <1>2, <2>1, <2>2 DEF OpenDatabase, Exit
    <2>4. QED
        BY <2>1, <2>3, BeforeScript
<1>3. CASE UNCHANGED cliVars
    <2>1. UNCHANGED <<text, scriptPos, cliRan, ok, opts, phase, exitStatus, Cut, Whole>>
        BY <1>3 DEF cliVars, argVars, scriptVars, Cut, Whole
    <2>2. QED
        BY <2>1 DEF ScriptOK, ScriptType, Unbegun, Kinds, InScript, Closing, Exited
<1>4. QED
    BY <1>1, <1>2, <1>3, RunCommandOK, LoadScriptOK, RunStatementOK, SkipPieceOK, EndScriptOK,
       CloseDatabaseOK, LeaveReplOK DEF CliNext, Program

\* Sequences of their own lengths that agree are prefixes.
LEMMA PrefixIs ==
    ASSUME NEW s, IsSeq(s), NEW t, IsSeq(t), Len(s) <= Len(t), \A k \in 1 .. Len(s) : s[k] = t[k]
    PROVE  IsPrefix(s, t) /\ (Len(s) = Len(t) => s = t)
<1> DEFINE V == {s[k] : k \in 1 .. Len(s)} \cup {t[k] : k \in 1 .. Len(t)}
<1>1. s \in Seq(V) /\ t \in Seq(V)
    <2>1. s \in [1 .. Len(s) -> V] /\ t \in [1 .. Len(t) -> V]
        BY DEF IsSeq
    <2> HIDE DEF V
    <2>2. QED
        BY <2>1 DEF IsSeq
<1> HIDE DEF V
<1>2. Len(s) \in Nat /\ Len(t) \in Nat
    BY DEF IsSeq
<1>3. /\ SubSeq(t, 1, Len(s)) \in Seq(V) /\ Len(SubSeq(t, 1, Len(s))) = Len(s)
      /\ \A k \in 1 .. Len(s) : SubSeq(t, 1, Len(s))[k] = t[k]
    <2>1. \A k \in 1 .. Len(s) : t[k] \in V
        BY <1>1, <1>2
    <2>2. QED
        BY <1>1, <1>2, <2>1, SubSeqProperties
<1>4. SubSeq(t, 1, Len(s)) = s
    BY <1>1, <1>3, SeqEqual
<1>5. SubSeq(s, 1, Len(s)) = s
    BY <1>1
<1>6. Len(s) = Len(t) => s = t
    BY <1>1, SeqEqual
<1>7. QED
    BY <1>4, <1>5, <1>6 DEF IsPrefix

LEMMA ScriptOKImplies == ScriptOK => ScriptRunsInOrder
<1> SUFFICES ASSUME ScriptOK PROVE ScriptRunsInOrder
    OBVIOUS
<1> DEFINE pieces == Pieces(opts, Cut)
           sqls == [i \in DOMAIN cliRan |-> cliRan[i].sql]
           failed == {i \in DOMAIN cliRan : ~ cliRan[i].ok}
<1>1. /\ cliRan \in Seq(Runs) /\ Len(cliRan) \in Nat /\ DOMAIN cliRan = 1 .. Len(cliRan)
      /\ Cut \in Seq(ScriptCharacters) /\ IsSeq(pieces) /\ Shown(cliRan, pieces)
    BY CutOfText, PiecesAreSeq DEF ScriptOK, ScriptType
<1> HIDE DEF pieces
<1>2. IsSeq(sqls) /\ Len(sqls) = Len(cliRan) /\ \A k \in 1 .. Len(sqls) : sqls[k] = cliRan[k].sql
    BY <1>1 DEF IsSeq
<1> HIDE DEF sqls
<1>3. IsPrefix(sqls, pieces) /\ (Len(cliRan) = Len(pieces) => sqls = pieces)
    BY <1>1, <1>2, PrefixIs DEF Shown
<1>4. failed \subseteq {Len(cliRan)}
    <2> SUFFICES ASSUME NEW i \in failed, i # Len(cliRan) PROVE FALSE
        OBVIOUS
    <2>1. i \in 1 .. Len(cliRan) - 1
        BY <1>1
    <2>2. QED
        BY <1>1, <2>1 DEF Shown
<1>5. WentWell(cliRan, opts, pieces) => failed = {} /\ (cliRan # <<>> \/ opts["script"] # Null => sqls = pieces)
    BY <1>1, <1>3 DEF WentWell, AllGood
<1>6. WentWrong(cliRan) => cliRan = <<>> \/ failed # {}
    <2> SUFFICES ASSUME cliRan # <<>>, ~ cliRan[Len(cliRan)].ok PROVE failed # {}
        BY DEF WentWrong
    <2>1. Len(cliRan) \in DOMAIN cliRan
        BY <1>1
    <2>2. QED
        BY <2>1
<1> HIDE DEF failed
<1>7. (CASE exitStatus = 0 -> failed = {} /\ Whole /\ (cliRan # <<>> \/ opts["script"] # Null => sqls = pieces)
        [] exitStatus = 1 -> cliRan = <<>> \/ failed # {}
        [] exitStatus = 2 -> cliRan = <<>> /\ text = <<>>
        [] OTHER -> phase # "exited")
    <2>1. CASE phase # "exited"
        BY <2>1 DEF ScriptOK, Exited
    <2>2. CASE phase = "exited" /\ exitStatus = 0
        BY <2>2, <1>5 DEF ScriptOK, Exited, pieces
    <2>3. CASE phase = "exited" /\ exitStatus = 1
        BY <2>3, <1>6 DEF ScriptOK, Exited
    <2>4. CASE phase = "exited" /\ exitStatus = 2
        BY <2>4 DEF ScriptOK, Exited
    <2>5. QED
        BY <2>1, <2>2, <2>3, <2>4 DEF ScriptOK, Exited
<1>8. QED
    BY <1>3, <1>4, <1>7 DEF ScriptRunsInOrder, pieces, sqls, failed, Pieces, FileStatements, Cut, Whole

\* For all argument lists and all scripts, those with a NUL and those that
\* were not read to their end included (run_script, main).
THEOREM ScriptsRunInOrder == CliSpec => []ScriptRunsInOrder
<1>1. CliInit => ArgumentsOK /\ ScriptOK
    BY InitArguments, InitScript
<1>2. (ArgumentsOK /\ ScriptOK) /\ [CliNext]_cliVars => (ArgumentsOK /\ ScriptOK)'
    BY ArgumentsStep, ScriptStep
<1>3. (ArgumentsOK /\ ScriptOK) => ScriptRunsInOrder
    BY ScriptOKImplies
<1>4. QED
    BY <1>1, <1>2, <1>3, PTL DEF CliSpec
-----------------------------------------------------------------------------
(* The session. *)

\* What can be typed, with the newlines the session puts in.
Typable == Characters \cup {NewlineChar}

\* Where the session stands in what was typed: p ended the last statement
\* taken, the buffer begins at s.
ReplType == /\ typed \in Seq(Typable) /\ buffer \in Seq(Typable)
            /\ replRan \in Seq(Seq(Typable)) /\ draining \in BOOLEAN

\* The statements run are those up to p.
RanUpTo(run, t, p) ==
    /\ Len(run) = Cardinality(SaidUpTo(t, p))
    /\ \A e \in SaidUpTo(t, p) : SkipWhite(run[Cardinality(SaidUpTo(t, e))]) = SkipWhite(Piece(t, e))

\* A buffer that begins with whitespace was begun by a line of its own.
FreshLine(t, p, s) ==
    s <= Len(t) /\ t[s] \in Blanks => p = 0 \/ \E j \in p + 1 .. s - 1 : t[j] = NewlineChar

Lined(t) == t = <<>> \/ t[Len(t)] = NewlineChar

Standing(t, b, run, p, s) ==
    /\ Between(t, p, s) /\ b = SubSeq(t, s, Len(t))
    /\ RanUpTo(run, t, p) /\ FreshLine(t, p, s)

AllTaken(t, p) == \A e \in Ends(t) : e <= p

ReplOK == /\ ReplType /\ Lined(typed)
          /\ \E p, s \in Nat : /\ Standing(typed, buffer, replRan, p, s)
                               /\ ~ draining => AllTaken(typed, p)

LEMMA NewlineDiffers == NewlineChar # Terminator /\ NewlineChar # Apostrophe /\ NewlineChar \in Blanks
<1>1. NewlineChar # Terminator /\ NewlineChar # Apostrophe
    BY Zenon DEF NewlineChar, Terminator, Apostrophe
<1>2. NewlineChar \in Blanks
    BY Zenon DEF NewlineChar, Blanks
<1>3. QED
    BY <1>1, <1>2

LEMMA NothingSaid == \A t : t \in Seq(Typable) => SaidUpTo(t, 0) = {} /\ Cardinality(SaidUpTo(t, 0)) = 0
<1> SUFFICES ASSUME NEW t \in Seq(Typable) PROVE SaidUpTo(t, 0) = {} /\ Cardinality(SaidUpTo(t, 0)) = 0
    OBVIOUS
<1>1. SaidUpTo(t, 0) = {}
    BY StatementsAre DEF SaidUpTo
<1>2. QED
    BY <1>1, FS_EmptySet

LEMMA InitRepl == ReplInit => ReplOK
<1> SUFFICES ASSUME ReplInit PROVE ReplOK
    OBVIOUS
<1>1. typed = <<>> /\ buffer = <<>> /\ replRan = <<>> /\ draining = FALSE /\ Len(<<>>) = 0
    BY DEF ReplInit
<1>2. ReplType /\ Lined(typed) /\ typed \in Seq(Typable)
    <2>1. <<>> \in Seq(Typable) /\ <<>> \in Seq(Seq(Typable)) /\ FALSE \in BOOLEAN
        OBVIOUS
    <2>2. QED
        BY <1>1, <2>1 DEF ReplType, Lined
<1>3. Ends(typed) = {}
    <2>1. DOMAIN typed = {}
        BY <1>1
    <2>2. QED
        BY <2>1 DEF Ends
<1>4. RanUpTo(replRan, typed, 0)
    BY <1>1, <1>2, NothingSaid DEF RanUpTo
<1>5. Between(typed, 0, 1) /\ FreshLine(typed, 0, 1) /\ AllTaken(typed, 0)
    BY <1>1, <1>3 DEF Between, FreshLine, AllTaken
<1>6. buffer = SubSeq(typed, 1, Len(typed))
    <2>1. SubSeq(<<>>, 1, 0) = <<>>
        OBVIOUS
    <2>2. QED
        BY <1>1, <2>1
<1>7. Standing(typed, buffer, replRan, 0, 1)
    BY <1>4, <1>5, <1>6 DEF Standing
<1>8. QED
    BY <1>2, <1>5, <1>7 DEF ReplOK

\* What was run is the same in a text that begins the same.
LEMMA SameRan ==
    ASSUME NEW t \in Seq(Typable), NEW u \in Seq(Typable), NEW m \in Nat, SameUpTo(t, u, m),
           NEW p \in 0 .. m, NEW run, RanUpTo(run, t, p)
    PROVE  RanUpTo(run, u, p)
<1>1. /\ \A k \in 1 .. m : k \in Ends(t) => Piece(t, k) = Piece(u, k)
      /\ \A q \in 0 .. m : SaidUpTo(t, q) = SaidUpTo(u, q)
    BY SameStatements
<1>2. SaidUpTo(t, p) = SaidUpTo(u, p)
    BY <1>1
<1>3. \A e \in SaidUpTo(t, p) : e \in 1 .. m /\ e \in 0 .. m /\ e \in Ends(t)
    <2>1. \A e \in SaidUpTo(t, p) : e \in Ends(t) /\ e <= p
        BY DEF SaidUpTo, Said
    <2>2. \A e \in Ends(t) : e \in 1 .. Len(t)
        BY EndsAre
    <2>3. \A e \in SaidUpTo(t, p) : e \in 1 .. Len(t) /\ e <= p
        BY <2>1, <2>2
    <2>4. \A e \in SaidUpTo(t, p) : e \in 1 .. m /\ e \in 0 .. m
        BY <2>3
    <2>5. QED
        BY <2>1, <2>4
<1>4. \A e \in SaidUpTo(t, p) : SaidUpTo(t, e) = SaidUpTo(u, e) /\ Piece(t, e) = Piece(u, e)
    BY <1>1, <1>3
<1>5. QED
    BY <1>2, <1>4 DEF RanUpTo

\* One more line: it is at the end of the buffer and of what was typed.
LEMMA EnterSqlOK ==
    ASSUME ReplOK, NEW line \in Seq(Characters), EnterSql(line)
    PROVE  ReplOK'
<1>1. PICK p \in Nat, s \in Nat : Standing(typed, buffer, replRan, p, s)
    BY DEF ReplOK
<1>2. typed \in Seq(Typable) /\ buffer \in Seq(Typable) /\ replRan \in Seq(Seq(Typable)) /\ Lined(typed)
    BY DEF ReplOK, ReplType
<1>3. /\ buffer' = buffer \o line \o Newline /\ typed' = typed \o line \o Newline
      /\ draining' = TRUE /\ replRan' = replRan
    BY DEF EnterSql
<1>4. PICK added : added = line \o Newline
    OBVIOUS
<1>5. /\ line \in Seq(Typable) /\ added \in Seq(Typable) /\ Len(added) = Len(line) + 1
      /\ added[Len(added)] = NewlineChar
    <2>1. line \in Seq(Typable)
        BY DEF Typable
    <2>2. Newline \in Seq(Typable) /\ Len(Newline) = 1 /\ Newline[1] = NewlineChar
        BY DEF Newline, Typable
    <2>3. /\ added \in Seq(Typable) /\ Len(added) = Len(line) + 1
          /\ added[Len(line) + 1] = IF Len(line) + 1 <= Len(line) THEN line[Len(line) + 1] ELSE Newline[(Len(line) + 1) - Len(line)]
        BY <1>4, <2>1, <2>2, ConcatProperties
    <2>4. (Len(line) + 1) - Len(line) = 1 /\ ~ (Len(line) + 1 <= Len(line))
        BY <2>1
    <2>5. QED
        BY <2>1, <2>2, <2>3, <2>4
<1>6. buffer' = buffer \o added /\ typed' = typed \o added
    <2>1. Newline \in Seq(Typable)
        BY DEF Newline, Typable
    <2>2. /\ (buffer \o line) \o Newline = buffer \o (line \o Newline)
          /\ (typed \o line) \o Newline = typed \o (line \o Newline)
        <3>1. \A a, b, c \in Seq(Typable) : (a \o b) \o c = a \o (b \o c)
            BY ConcatAssociative
        <3>2. QED
            BY SMTT(40), <1>2, <1>5, <2>1, <3>1
    <2>3. QED
        BY <1>3, <1>4, <2>2
<1>7. PICK n : n = Len(typed)
    OBVIOUS
<1>8. PICK u : u = typed'
    OBVIOUS
<1>9. /\ n \in Nat /\ u \in Seq(Typable) /\ Len(u) = n + Len(added) /\ Len(added) \in Nat /\ Len(added) >= 1
      /\ \A k \in 1 .. n : u[k] = typed[k]
      /\ \A k \in n + 1 .. Len(u) : u[k] = added[k - n]
    <2>1. /\ u \in Seq(Typable) /\ Len(u) = n + Len(added)
          /\ \A k \in 1 .. n + Len(added) : u[k] = IF k <= n THEN typed[k] ELSE added[k - n]
        BY <1>2, <1>5, <1>6, <1>7, <1>8, ConcatProperties
    <2>2. n \in Nat /\ Len(added) \in Nat /\ Len(added) >= 1
        BY <1>2, <1>5, <1>7
    <2>3. QED
        BY <2>1, <2>2
<1>10. SameUpTo(typed, u, n)
    BY <1>2, <1>7, <1>9 DEF SameUpTo
<1>11. /\ p \in 0 .. n /\ s \in p + 1 .. n + 1 /\ p \in {0} \cup Ends(typed)
       /\ \A k \in p + 1 .. s - 1 : typed[k] \in Blanks
       /\ buffer = SubSeq(typed, s, n) /\ RanUpTo(replRan, typed, p) /\ FreshLine(typed, p, s)
    BY <1>1, <1>2, <1>7, EndsAre DEF Standing, Between
<1>12. RanUpTo(replRan, u, p)
    BY <1>2, <1>9, <1>10, <1>11, SameRan
<1>13. Between(u, p, s)
    <2>1. p \in {0} \cup Ends(u)
        BY <1>2, <1>9, <1>10, <1>11, SameStatements
    <2>2. \A k \in p + 1 .. s - 1 : u[k] \in Blanks
        BY <1>9, <1>11
    <2>3. s \in p + 1 .. Len(u) + 1
        BY <1>9, <1>11
    <2>4. QED
        BY <2>1, <2>2, <2>3 DEF Between
<1>14. FreshLine(u, p, s)
    <2>1. CASE s <= n
        <3>1. u[s] = typed[s] /\ \A k \in p + 1 .. s - 1 : u[k] = typed[k]
            BY <1>9, <1>11, <2>1
        <3>2. QED
            BY <1>7, <1>11, <2>1, <3>1 DEF FreshLine
    <2>2. CASE s = n + 1 /\ n # 0 /\ p # 0
        <3>1. typed[n] = NewlineChar
            BY <1>2, <1>7, <2>2 DEF Lined
        <3>2. typed[p] = Terminator
            BY <1>2, <1>11, <2>2, EndsAre
        <3>3. n \in p + 1 .. s - 1
            BY <1>9, <1>11, <2>2, <3>1, <3>2, NewlineDiffers
        <3>4. u[n] = NewlineChar
            BY <1>9, <2>2, <3>1
        <3>5. QED
            BY <3>3, <3>4 DEF FreshLine
    <2>3. CASE p = 0
        BY <2>3 DEF FreshLine
    <2>4. QED
        BY <1>9, <1>11, <2>1, <2>2, <2>3
<1>15. buffer' = SubSeq(u, s, Len(u))
    <2>1. /\ buffer \in Seq(Typable) /\ Len(buffer) = n - s + 1
          /\ \A k \in 1 .. n - s + 1 : buffer[k] = typed[s + k - 1]
        <3>1. s \in 1 .. Len(typed) + 1 /\ n \in s - 1 .. Len(typed)
            BY SMTT(40), <1>2, <1>7, <1>9, <1>11
        <3>2. QED
            BY <1>2, <1>11, <3>1, PartIs
    <2>2. PICK a \in Nat : a = Len(added)
        BY <1>9
    <2>3. /\ buffer' \in Seq(Typable) /\ Len(buffer') = (n - s + 1) + a
          /\ \A k \in 1 .. (n - s + 1) + a : buffer'[k] = IF k <= n - s + 1 THEN buffer[k] ELSE added[k - (n - s + 1)]
        <3>1. /\ buffer \o added \in Seq(Typable) /\ Len(buffer \o added) = Len(buffer) + Len(added)
              /\ \A k \in 1 .. Len(buffer) + Len(added) :
                    (buffer \o added)[k] = IF k <= Len(buffer) THEN buffer[k] ELSE added[k - Len(buffer)]
            BY <1>5, <2>1, ConcatProperties
        <3>2. QED
            BY <1>6, <2>1, <2>2, <3>1
    <2>4. /\ SubSeq(u, s, n + a) \in Seq(Typable)
          /\ Len(SubSeq(u, s, n + a)) = IF s <= n + a THEN (n + a) - s + 1 ELSE 0
          /\ \A k \in 1 .. (n + a) - s + 1 : SubSeq(u, s, n + a)[k] = u[s + k - 1]
        <3>1. \A k \in s .. n + a : u[k] \in Typable
            BY <1>9, <1>11, <2>2
        <3>2. QED
            BY <1>9, <3>1, SubSeqProperties
    <2>5. ASSUME NEW k \in 1 .. (n - s + 1) + a PROVE buffer'[k] = u[s + k - 1]
        <3>1. CASE k <= n - s + 1
            <4>1. s + k - 1 \in 1 .. n /\ k \in 1 .. n - s + 1
                <5>1. n \in Nat /\ s \in 1 .. n + 1 /\ k \in 1 .. (n - s + 1) + a
                    BY <1>9, <1>11
                <5>2. QED
                    BY <5>1, <3>1
            <4>2. QED
                BY <1>9, <2>1, <2>3, <3>1, <4>1
        <3>2. CASE ~ (k <= n - s + 1)
            <4>1. s + k - 1 \in n + 1 .. n + a /\ (s + k - 1) - n = k - (n - s + 1)
                <5>1. n \in Nat /\ s \in 1 .. n + 1 /\ k \in 1 .. (n - s + 1) + a
                    BY <1>9, <1>11
                <5>2. QED
                    BY <5>1, <3>2
            <4>2. u[s + k - 1] = added[(s + k - 1) - n]
                BY <1>9, <2>2, <4>1
            <4>3. QED
                BY <2>3, <3>2, <4>1, <4>2
        <3>3. QED
            BY <3>1, <3>2
    <2>6. Len(buffer') = Len(SubSeq(u, s, n + a))
        BY <1>9, <1>11, <2>2, <2>3, <2>4
    <2>7. \A k \in 1 .. Len(buffer') : buffer'[k] = SubSeq(u, s, n + a)[k]
        BY SMTT(40), <1>9, <1>11, <2>3, <2>4, <2>5
    <2>8. buffer' = SubSeq(u, s, n + a)
        BY <2>3, <2>4, <2>6, <2>7, SeqEqual
    <2>9. QED
        BY <1>9, <2>2, <2>8
<1>16. Standing(u, buffer', replRan, p, s)
    BY <1>12, <1>13, <1>14, <1>15 DEF Standing
<1>17. Lined(u)
    BY <1>5, <1>9 DEF Lined
<1>18. buffer' \in Seq(Typable)
    BY <1>2, <1>5, <1>6, ConcatProperties
<1>19. ReplType'
    BY <1>2, <1>3, <1>8, <1>9, <1>18 DEF ReplType
<1>20. QED
    BY <1>3, <1>8, <1>16, <1>17, <1>19 DEF ReplOK

LEMMA StandingIs ==
    ASSUME NEW t \in Seq(Typable), NEW b, NEW run, NEW p, NEW s, Standing(t, b, run, p, s)
    PROVE  /\ p \in 0 .. Len(t) /\ s \in p + 1 .. Len(t) + 1 /\ s \in 1 .. Len(t) + 1
           /\ p \in {0} \cup Ends(t)
           /\ b \in Seq(Typable) /\ Len(b) = Len(t) - s + 1
<1>1. p \in 0 .. Len(t) /\ s \in p + 1 .. Len(t) + 1 /\ p \in {0} \cup Ends(t)
    BY EndsAre DEF Standing, Between
<1>2. s \in 1 .. Len(t) + 1 /\ Len(t) \in s - 1 .. Len(t)
    BY <1>1
<1>3. b = SubSeq(t, s, Len(t))
    BY DEF Standing
<1>4. QED
    BY <1>1, <1>2, <1>3, PartIs

LEMMA BufferIs ==
    ASSUME NEW t \in Seq(Typable), NEW b, NEW run, NEW p, NEW s, Standing(t, b, run, p, s)
    PROVE  \A k \in 1 .. Len(t) - s + 1 : b[k] = t[s + k - 1]
<1>1. s \in 1 .. Len(t) + 1 /\ Len(t) \in s - 1 .. Len(t)
    BY StandingIs
<1>2. b = SubSeq(t, s, Len(t))
    BY DEF Standing
<1>3. QED
    BY <1>1, <1>2, PartIs

\* The buffer holds a complete statement when one of the ends of what was typed
\* is still to be taken.
LEMMA CompleteIs ==
    ASSUME NEW p, NEW s, Standing(typed, buffer, replRan, p, s),
           typed \in Seq(Typable), Lined(typed), NEW e, e = s - 1 + End
    PROVE  /\ Complete => /\ e \in Ends(typed) /\ e >= s /\ e \in s .. Len(typed)
                          /\ \A k \in Ends(typed) : k > p => k >= e
                          /\ s <= Len(typed)
           /\ ~ Complete => AllTaken(typed, p)
<1>1. /\ p \in 0 .. Len(typed) /\ s \in p + 1 .. Len(typed) + 1
      /\ buffer \in Seq(Typable) /\ Len(buffer) = Len(typed) - s + 1
      /\ \A k \in 1 .. Len(typed) - s + 1 : buffer[k] = typed[s + k - 1]
    <2>1. p \in 0 .. Len(typed) /\ s \in p + 1 .. Len(typed) + 1
        BY StandingIs
    <2>2. buffer \in Seq(Typable) /\ Len(buffer) = Len(typed) - s + 1
        BY StandingIs
    <2>3. \A k \in 1 .. Len(typed) - s + 1 : buffer[k] = typed[s + k - 1]
        BY BufferIs
    <2>4. QED
        BY <2>1, <2>2, <2>3
<1>2. \A k \in Ends(typed) : k \in 1 .. Len(typed) /\ typed[k] = Terminator
    BY EndsAre
<1>3. CASE s > Len(typed)
    <2>1. Len(buffer) = 0 /\ s = Len(typed) + 1
        BY <1>1, <1>3
    <2>2. End = 0
        <3>1. Len(buffer) + 1 = 1 /\ 1 \in 1 .. Len(buffer) + 1 /\ 1 > Len(buffer)
            BY <2>1
        <3>2. QED
            BY <1>1, <2>1, <3>1, EndFromTurn DEF End
    <2>3. ~ Complete
        BY <2>2 DEF Complete
    <2>4. \A k \in Ends(typed) : k <= p
        <3>1. \A k \in p + 1 .. Len(typed) : typed[k] \in Blanks
            BY <2>1 DEF Standing, Between
        <3>2. \A k \in Ends(typed) : k \notin p + 1 .. Len(typed)
            BY <1>2, <3>1, BlanksArePlain
        <3>3. QED
            BY <1>1, <1>2, <3>2
    <2>5. QED
        BY <2>3, <2>4 DEF AllTaken
<1>4. CASE s <= Len(typed)
    <2>1. /\ e \in s - 1 .. Len(typed) /\ e \in Int /\ p < s
          /\ \/ e \in Ends(typed) /\ e >= s /\ \A k \in Ends(typed) : k > p => k >= e
             \/ e = Len(typed) /\ \A k \in Ends(typed) : k <= p
        <3>1. Between(typed, p, s)
            BY DEF Standing
        <3>2. e = s - 1 + FindStatementEnd(SubSeq(typed, s, Len(typed)))
            BY DEF Standing, End
        <3>3. QED
            BY <1>4, <3>1, <3>2, StatementEndsAt
    <2>2. End \in Int
        <3>1. End \in Ends(buffer) \/ End = Len(buffer)
            BY <1>1, StatementEnd DEF End
        <3>2. QED
            BY <1>1, <3>1, EndsAre
    <2>3. CASE e \in Ends(typed) /\ e >= s /\ \A k \in Ends(typed) : k > p => k >= e
        <3>1. End \in 1 .. Len(typed) - s + 1 /\ s + End - 1 = e
            BY <1>1, <1>2, <2>1, <2>2, <2>3
        <3>2. End > 0 /\ buffer[End] = typed[e]
            <4>1. buffer[End] = typed[s + End - 1]
                BY <3>1, BufferIs
            <4>2. QED
                BY <3>1, <4>1
        <3>3. Complete
            BY <1>2, <2>3, <3>2 DEF Complete
        <3>4. QED
            BY <1>1, <1>4, <2>1, <2>3, <3>3
    <2>4. CASE e = Len(typed) /\ \A k \in Ends(typed) : k <= p
        <3>1. End \in 1 .. Len(typed) - s + 1 /\ s + End - 1 = Len(typed)
            <4>1. Len(typed) \in Nat /\ s \in Nat
                BY <1>1
            <4>2. s - 1 + End = Len(typed)
                BY <2>4
            <4>3. QED
                BY <1>4, <2>2, <4>1, <4>2
        <3>2. buffer[End] = typed[Len(typed)]
            BY <1>1, <3>1
        <3>3. typed[Len(typed)] = NewlineChar
            <4>1. typed # <<>>
                BY <1>1, <1>4
            <4>2. QED
                BY <4>1 DEF Lined
        <3>4. ~ Complete
            BY <3>2, <3>3, NewlineDiffers DEF Complete
        <3>5. QED
            BY <2>4, <3>4 DEF AllTaken
    <2>5. QED
        BY <2>1, <2>3, <2>4
<1>5. QED
    BY <1>1, <1>3, <1>4

LEMMA DrainEndOK ==
    ASSUME ReplOK, DrainEnd
    PROVE  ReplOK'
<1>1. PICK p \in Nat, s \in Nat : Standing(typed, buffer, replRan, p, s)
    BY DEF ReplOK
<1>2. typed \in Seq(Typable) /\ Lined(typed) /\ ReplType
    BY DEF ReplOK, ReplType
<1>3. AllTaken(typed, p)
    <2>1. PICK e : e = s - 1 + End
        OBVIOUS
    <2>2. QED
        BY <1>1, <1>2, <2>1, CompleteIs DEF DrainEnd
<1>4. ReplType' /\ typed' = typed /\ buffer' = buffer /\ replRan' = replRan
    BY <1>2 DEF DrainEnd, ReplType
<1>5. QED
    BY <1>1, <1>2, <1>3, <1>4 DEF ReplOK

\* The statements up to one of them.
LEMMA NumberUpTo ==
    ASSUME NEW t \in Seq(Typable), NEW p \in Nat, NEW f \in SaidUpTo(t, p)
    PROVE  Cardinality(SaidUpTo(t, f)) \in 1 .. Cardinality(SaidUpTo(t, p))
<1> DEFINE E == SaidUpTo(t, p)
<1>1. E \in SUBSET Nat /\ IsFiniteSet(E)
    <2>1. IsFiniteSet(E) /\ Said(t) \subseteq 1 .. Len(t)
        BY StatementsAre
    <2>2. E \subseteq Said(t)
        BY DEF SaidUpTo
    <2> HIDE DEF E
    <2>3. QED
        BY <2>1, <2>2
<1>2. SaidUpTo(t, f) = {g \in E : g <= f}
    <2>1. f \in Nat /\ f <= p
        BY <1>1 DEF SaidUpTo
    <2>2. \A g \in Said(t) : g \in Nat /\ (g <= f => g <= p)
        <3>1. \A g \in Said(t) : g \in Nat
            BY StatementsAre
        <3>2. QED
            BY <2>1, <3>1
    <2>3. QED
        BY <2>2 DEF SaidUpTo
<1> HIDE DEF E
<1>3. Cardinality({g \in E : g <= f}) \in 1 .. Cardinality(E)
    BY <1>1, NthIs DEF E
<1>4. QED
    BY <1>2, <1>3 DEF E

\* What is run when the statement from s to e is complete.
LEMMA OneMoreRan ==
    ASSUME NEW t \in Seq(Typable), NEW p \in Nat, NEW s, Between(t, p, s),
           NEW e \in Ends(t), e >= s, \A k \in Ends(t) : k > p => k >= e,
           NEW run \in Seq(Seq(Typable)), RanUpTo(run, t, p),
           NEW piece \in Seq(Typable), piece = SubSeq(t, s, e)
    PROVE  RanUpTo(IF HasContent(piece) THEN Append(run, piece) ELSE run, t, e)
<1>1. /\ ~ Says(SubSeq(t, s, e)) => SaidUpTo(t, e) = SaidUpTo(t, p)
      /\ Says(SubSeq(t, s, e)) => /\ SaidUpTo(t, e) = SaidUpTo(t, p) \cup {e}
                                  /\ Cardinality(SaidUpTo(t, e)) = Cardinality(SaidUpTo(t, p)) + 1
      /\ SkipWhite(Piece(t, e)) = SkipWhite(SubSeq(t, s, e))
    BY NextSaid
<1>2. HasContent(piece) <=> Says(piece)
    BY ContentIsSaid
<1>3. CASE ~ Says(piece)
    <2>1. RanUpTo(run, t, e)
        BY <1>1, <1>3 DEF RanUpTo
    <2>2. QED
        BY <1>2, <1>3, <2>1
<1>4. CASE Says(piece)
    <2>1. PICK more : more = Append(run, piece)
        OBVIOUS
    <2>2. PICK n \in Nat : n = Cardinality(SaidUpTo(t, p))
        BY StatementsAre
    <2>3. Len(run) = n /\ Cardinality(SaidUpTo(t, e)) = n + 1
        BY <1>1, <1>4, <2>2 DEF RanUpTo
    <2>4. /\ Len(more) = n + 1 /\ more[n + 1] = piece
          /\ \A k \in 1 .. n : more[k] = run[k]
        <3>1. /\ Len(more) = Len(run) + 1 /\ \A k \in 1 .. Len(run) : more[k] = run[k]
              /\ more[Len(run) + 1] = piece
            BY SMTT(40), <2>1, AppendProperties
        <3>2. QED
            BY <2>3, <3>1
    <2>5. ASSUME NEW f \in SaidUpTo(t, p)
          PROVE  SkipWhite(more[Cardinality(SaidUpTo(t, f))]) = SkipWhite(Piece(t, f))
        <3>1. Cardinality(SaidUpTo(t, f)) \in 1 .. n
            BY <2>2, NumberUpTo
        <3>2. more[Cardinality(SaidUpTo(t, f))] = run[Cardinality(SaidUpTo(t, f))]
            BY <2>4, <3>1
        <3>3. QED
            BY <3>2 DEF RanUpTo
    <2>6. SkipWhite(more[Cardinality(SaidUpTo(t, e))]) = SkipWhite(Piece(t, e))
        BY <1>1, <2>3, <2>4
    <2>7. RanUpTo(more, t, e)
        BY <1>1, <1>4, <2>3, <2>4, <2>5, <2>6 DEF RanUpTo
    <2>8. QED
        BY <1>2, <1>4, <2>1, <2>7
<1>5. QED
    BY <1>3, <1>4

\* The first statement of the buffer is taken, and the whitespace after it.
LEMMA DrainStatementOK ==
    ASSUME ReplOK, DrainStatement
    PROVE  ReplOK'
<1>1. PICK p \in Nat, s \in Nat : Standing(typed, buffer, replRan, p, s)
    BY DEF ReplOK
<1>2. /\ typed \in Seq(Typable) /\ replRan \in Seq(Seq(Typable)) /\ Lined(typed)
      /\ typed' = typed /\ draining' = draining /\ draining \in BOOLEAN
    BY DEF ReplOK, ReplType, DrainStatement
<1>3. PICK n \in Nat : n = Len(typed)
    BY <1>2
<1>4. /\ p \in 0 .. n /\ s \in p + 1 .. n + 1 /\ s \in 1 .. n + 1
      /\ buffer \in Seq(Typable) /\ Len(buffer) = n - s + 1
      /\ \A k \in 1 .. n - s + 1 : buffer[k] = typed[s + k - 1]
    <2>1. /\ p \in 0 .. Len(typed) /\ s \in p + 1 .. Len(typed) + 1 /\ s \in 1 .. Len(typed) + 1
          /\ buffer \in Seq(Typable) /\ Len(buffer) = Len(typed) - s + 1
          /\ \A k \in 1 .. Len(typed) - s + 1 : buffer[k] = typed[s + k - 1]
        <3>1. typed \in Seq(Typable)
            BY <1>2
        <3>2. p \in 0 .. Len(typed) /\ s \in p + 1 .. Len(typed) + 1
            BY <1>1, <3>1, StandingIs
        <3>3. s \in 1 .. Len(typed) + 1
            BY <1>1, <3>1, StandingIs
        <3>4. buffer \in Seq(Typable) /\ Len(buffer) = Len(typed) - s + 1
            BY <1>1, <3>1, StandingIs
        <3>5. \A k \in 1 .. Len(typed) - s + 1 : buffer[k] = typed[s + k - 1]
            BY <1>1, <3>1, BufferIs
        <3>6. QED
            BY <3>2, <3>3, <3>4, <3>5
    <2>2. QED
        BY <1>3, <2>1
<1>5. PICK e : e = s - 1 + End
    OBVIOUS
<1>6. /\ e \in Ends(typed) /\ e >= s /\ e \in s .. n
      /\ \A k \in Ends(typed) : k > p => k >= e
    BY <1>1, <1>2, <1>3, <1>5, CompleteIs DEF DrainStatement
<1>7. PICK f : f = End
    OBVIOUS
<1>8. f = e - s + 1 /\ f \in 1 .. n - s + 1
    <2>1. f \in Int
        <3>1. f \in Ends(buffer) \/ f = Len(buffer)
            BY <1>4, <1>7, StatementEnd DEF End
        <3>2. QED
            BY <1>4, <3>1, EndsAre
    <2>2. QED
        BY <1>4, <1>5, <1>6, <1>7, <2>1
<1>9. First = SubSeq(typed, s, e)
    <2>1. 1 \in 1 .. Len(buffer) + 1 /\ f \in 1 - 1 .. Len(buffer) /\ s = s + 1 - 1 /\ e = s + f - 1
        BY <1>4, <1>6, <1>8
    <2>2. SubSeq(buffer, 1, f) = SubSeq(typed, s, e)
        <3>1. /\ s \in 1 .. Len(typed) + 1 /\ Len(buffer) = Len(typed) - s + 1
              /\ \A k \in 1 .. Len(typed) - s + 1 : buffer[k] = typed[s + k - 1]
            BY <1>3, <1>4
        <3>2. QED
            BY <1>2, <1>4, <2>1, <3>1, PartOfRest
    <2>3. QED
        BY <1>7, <2>2 DEF First
<1>10. SubSeq(buffer, f + 1, Len(buffer)) = SubSeq(typed, e + 1, n)
    <2>1. /\ f + 1 \in 1 .. Len(buffer) + 1 /\ Len(buffer) \in (f + 1) - 1 .. Len(buffer)
          /\ e + 1 = s + (f + 1) - 1 /\ n = s + Len(buffer) - 1
        BY <1>4, <1>6, <1>8
    <2>2. QED
        <3>1. /\ s \in 1 .. Len(typed) + 1 /\ Len(buffer) = Len(typed) - s + 1
              /\ \A k \in 1 .. Len(typed) - s + 1 : buffer[k] = typed[s + k - 1]
            BY <1>3, <1>4
        <3>2. PICK c, d, x \in Nat : c = f + 1 /\ d = Len(buffer) /\ x = e + 1
            BY <1>4, <1>6, <1>8
        <3>3. c \in 1 .. Len(buffer) + 1 /\ d \in c - 1 .. Len(buffer) /\ x = s + c - 1 /\ n = s + d - 1
            BY <2>1, <3>2
        <3>4. SubSeq(buffer, c, d) = SubSeq(typed, x, n)
            BY <1>2, <1>4, <3>1, <3>3, PartOfRest
        <3>5. QED
            BY <3>2, <3>4
<1>11. PICK s2 \in e + 1 .. n + 1 : /\ \A k \in e + 1 .. s2 - 1 : typed[k] \in Blanks
                                    /\ s2 <= n => typed[s2] \notin Blanks
    <2>1. e \in 0 .. Len(typed)
        BY <1>3, <1>4, <1>6
    <2>2. PICK x \in e + 1 .. Len(typed) + 1 : /\ \A k \in e + 1 .. x - 1 : typed[k] \in Blanks
                                               /\ x <= Len(typed) => typed[x] \notin Blanks
        BY <1>2, <2>1, WhiteEnds
    <2>3. QED
        BY <1>3, <2>2
<1>12. e \in Nat /\ s2 \in Nat
    BY <1>4, <1>6, <1>11
<1>13. buffer' = SubSeq(typed, s2, n)
    <2>1. SkipWhite(SubSeq(typed, e + 1, n)) = SubSeq(typed, s2, n)
        <3>1. s2 \in e + 1 .. Len(typed) + 1 /\ n \in s2 - 1 .. Len(typed)
            BY <1>3, <1>11, <1>12
        <3>2. QED
            BY <1>2, <1>11, <1>12, <3>1, SkipWhiteFrom
    <2>2. QED
        BY <1>7, <1>10, <2>1 DEF DrainStatement
<1>14. First \in Seq(Typable)
    <2>1. s \in 1 .. Len(typed) + 1 /\ e \in s - 1 .. Len(typed)
        BY <1>3, <1>4, <1>6
    <2>2. QED
        BY <1>2, <1>9, <2>1, PartIs
<1>15. RanUpTo(replRan', typed, e)
    <2>1. Between(typed, p, s) /\ RanUpTo(replRan, typed, p)
        BY <1>1 DEF Standing
    <2>2. PICK piece : piece = First
        OBVIOUS
    <2>3. RanUpTo(IF HasContent(piece) THEN Append(replRan, piece) ELSE replRan, typed, e)
        BY <1>1, <1>2, <1>6, <1>9, <1>14, <2>1, <2>2, OneMoreRan
    <2>4. QED
        BY <2>2, <2>3 DEF DrainStatement
<1>16. Standing(typed, buffer', replRan', e, s2)
    <2>1. Between(typed, e, s2)
        BY <1>3, <1>6, <1>11 DEF Between
    <2>2. FreshLine(typed, e, s2)
        BY <1>3, <1>11 DEF FreshLine
    <2>3. QED
        BY <1>3, <1>13, <1>15, <2>1, <2>2 DEF Standing
<1>17. ReplType'
    <2>1. buffer' \in Seq(Typable)
        <3>1. s2 \in 1 .. Len(typed) + 1 /\ n \in s2 - 1 .. Len(typed)
            BY <1>3, <1>11, <1>12
        <3>2. QED
            BY <1>2, <1>13, <3>1, PartIs
    <2>2. replRan' \in Seq(Seq(Typable))
        BY <1>2, <1>14 DEF DrainStatement
    <2>3. QED
        BY <1>2, <2>1, <2>2 DEF ReplType
<1>18. draining'
    BY <1>2 DEF DrainStatement
<1>19. QED
    BY <1>2, <1>12, <1>16, <1>17, <1>18 DEF ReplOK

\* What was being typed is forgotten, and the prompt is on a line of its own.
LEMMA InterruptOK ==
    ASSUME ReplOK, Interrupt
    PROVE  ReplOK'
<1>1. PICK p \in Nat, s \in Nat : Standing(typed, buffer, replRan, p, s) /\ AllTaken(typed, p)
    BY DEF ReplOK, Interrupt, Prompt
<1>2. /\ typed \in Seq(Typable) /\ replRan \in Seq(Seq(Typable)) /\ draining \in BOOLEAN
      /\ buffer' = <<>> /\ replRan' = replRan /\ draining' = draining
    BY DEF ReplOK, ReplType, Interrupt
<1>3. PICK m : m = s - 1
    OBVIOUS
<1>4. /\ p \in 0 .. Len(typed) /\ s \in p + 1 .. Len(typed) + 1 /\ p \in {0} \cup Ends(typed)
      /\ Len(buffer) = Len(typed) - s + 1
    BY <1>1, <1>2, StandingIs
<1>5. \A k \in p + 1 .. s - 1 : typed[k] \in Blanks
    BY <1>1 DEF Standing, Between
<1>6. m \in Nat /\ p \in 0 .. m /\ m <= Len(typed) /\ s = m + 1 /\ Len(typed) - Len(buffer) = m
    BY <1>2, <1>3, <1>4
<1>7. PICK kept : kept = SubSeq(typed, 1, m)
    OBVIOUS
<1>8. kept \in Seq(Typable) /\ Len(kept) = m /\ \A k \in 1 .. m : kept[k] = typed[k]
    <2>1. 1 \in 1 .. Len(typed) + 1 /\ m \in 1 - 1 .. Len(typed) /\ m - 1 + 1 = m
        BY <1>2, <1>6
    <2>2. /\ kept \in Seq(Typable) /\ Len(kept) = m - 1 + 1
          /\ \A k \in 1 .. m - 1 + 1 : kept[k] = typed[1 + k - 1]
        BY <1>2, <1>7, <2>1, PartIs
    <2>3. \A k \in 1 .. m : 1 + k - 1 = k
        BY <1>6
    <2>4. QED
        BY <2>1, <2>2, <2>3
<1>9. PICK u : u = typed'
    OBVIOUS
<1>10. /\ u \in Seq(Typable) /\ Len(u) = m + 1 /\ u[m + 1] = NewlineChar
       /\ \A k \in 1 .. m : u[k] = typed[k]
    <2>1. Newline \in Seq(Typable) /\ Len(Newline) = 1 /\ Newline[1] = NewlineChar
        BY DEF Newline, Typable
    <2>2. u = kept \o Newline
        BY <1>6, <1>7, <1>9 DEF Interrupt
    <2>3. /\ u \in Seq(Typable) /\ Len(u) = Len(kept) + Len(Newline)
          /\ \A k \in 1 .. Len(kept) + Len(Newline) : u[k] = IF k <= Len(kept) THEN kept[k] ELSE Newline[k - Len(kept)]
        BY <1>8, <2>1, <2>2, ConcatProperties
    <2>4. m + 1 \in 1 .. m + 1 /\ ~ (m + 1 <= m) /\ (m + 1) - m = 1 /\ \A k \in 1 .. m : k \in 1 .. m + 1 /\ k <= m
        BY <1>6
    <2>5. QED
        BY <1>8, <2>1, <2>3, <2>4
<1>11. SameUpTo(typed, u, m)
    BY <1>6, <1>10 DEF SameUpTo
<1>12. \A k \in 1 .. m : k \in Ends(typed) <=> k \in Ends(u)
    BY <1>2, <1>6, <1>10, <1>11, SameStatements
<1>13. RanUpTo(replRan, u, p)
    BY <1>1, <1>2, <1>6, <1>10, <1>11, SameRan DEF Standing
<1>14. Between(u, p, m + 2)
    <2>1. p \in {0} \cup Ends(u)
        BY <1>4, <1>6, <1>12
    <2>2. \A k \in p + 1 .. (m + 2) - 1 : u[k] \in Blanks
        <3> SUFFICES ASSUME NEW k \in p + 1 .. (m + 2) - 1 PROVE u[k] \in Blanks
            OBVIOUS
        <3>1. CASE k = m + 1
            BY <1>10, <3>1, NewlineDiffers
        <3>2. CASE k # m + 1
            <4>1. k \in 1 .. m /\ k \in p + 1 .. s - 1
                BY <1>6, <3>2
            <4>2. QED
                BY <1>5, <1>10, <4>1
        <3>3. QED
            BY <3>1, <3>2
    <2>3. m + 2 \in p + 1 .. Len(u) + 1
        BY <1>6, <1>10
    <2>4. QED
        BY <2>1, <2>2, <2>3 DEF Between
<1>15. <<>> = SubSeq(u, m + 2, Len(u))
    <2>1. m + 2 \in 1 .. Len(u) + 1 /\ Len(u) \in (m + 2) - 1 .. Len(u) /\ Len(u) - (m + 2) + 1 = 0
        BY <1>6, <1>10
    <2>2. SubSeq(u, m + 2, Len(u)) \in Seq(Typable) /\ Len(SubSeq(u, m + 2, Len(u))) = 0
        <3>1. PICK a, b : a = m + 2 /\ b = Len(u)
            OBVIOUS
        <3>2. SubSeq(u, a, b) \in Seq(Typable) /\ Len(SubSeq(u, a, b)) = b - a + 1
            BY <1>10, <2>1, <3>1, PartIs
        <3>3. QED
            BY <2>1, <3>1, <3>2
    <2>3. QED
        BY <2>2
<1>16. FreshLine(u, p, m + 2)
    BY <1>6, <1>10 DEF FreshLine
<1>17. AllTaken(u, p)
    <2>1. \A e \in Ends(u) : e \in 1 .. m + 1 /\ u[e] = Terminator
        BY <1>10, EndsAre
    <2>2. \A e \in Ends(u) : e # m + 1
        BY <1>10, <2>1, NewlineDiffers
    <2>3. \A e \in Ends(u) : e \in 1 .. m
        BY <1>6, <2>1, <2>2
    <2>4. QED
        BY <1>1, <1>12, <2>3 DEF AllTaken
<1>18. Lined(u)
    BY <1>10 DEF Lined
<1>19. Standing(u, <<>>, replRan, p, m + 2)
    BY <1>13, <1>14, <1>15, <1>16 DEF Standing
<1>20. <<>> \in Seq(Typable) /\ m + 2 \in Nat
    BY <1>6
<1>21. ReplType'
    BY <1>2, <1>9, <1>10, <1>20 DEF ReplType
<1>22. QED
    BY <1>2, <1>9, <1>17, <1>18, <1>19, <1>20, <1>21 DEF ReplOK

LEMMA ReplStep == ReplOK /\ [ReplNext]_replVars => ReplOK'
<1> SUFFICES ASSUME ReplOK, [ReplNext]_replVars PROVE ReplOK'
    OBVIOUS
<1> DEFINE Same == UNCHANGED <<buffer, replRan, draining, typed>>
<1>1. Same => ReplOK'
    BY DEF ReplOK, ReplType
<1>2. \A line \in Lines : line \in Seq(Characters)
    BY LinesAssumption DEF Lines
<1> HIDE DEF Same
<1>3. ASSUME NEW line \in Lines, EnterMeta(line) PROVE ReplOK'
    BY <1>1, <1>3 DEF EnterMeta, Same
<1>4. ASSUME NEW line \in Lines, EnterSql(line) PROVE ReplOK'
    BY <1>2, <1>4, EnterSqlOK
<1>5. CASE DrainStatement
    BY <1>5, DrainStatementOK
<1>6. CASE DrainEnd
    BY <1>6, DrainEndOK
<1>7. CASE EnterNothing
    BY <1>1, <1>7 DEF EnterNothing, replVars, Same
<1>8. CASE Interrupt
    BY <1>8, InterruptOK
<1>9. CASE EndOfInput
    BY <1>1, <1>9 DEF EndOfInput, Same
<1>10. CASE UNCHANGED replVars
    BY <1>1, <1>10 DEF replVars, Same
<1>11. QED
    BY <1>3, <1>4, <1>5, <1>6, <1>7, <1>8, <1>9, <1>10 DEF ReplNext

LEMMA AllTakenRanAll ==
    ASSUME ReplOK, ~ draining
    PROVE  RunsWhatWasTyped
<1>1. PICK p \in Nat, s \in Nat : Standing(typed, buffer, replRan, p, s) /\ AllTaken(typed, p)
    BY DEF ReplOK
<1>2. typed \in Seq(Typable) /\ replRan \in Seq(Seq(Typable)) /\ Lined(typed)
    BY DEF ReplOK, ReplType
<1>3. PICK n \in Nat : n = Len(typed)
    BY <1>2
<1>4. p \in 0 .. n /\ s \in p + 1 .. n + 1 /\ p \in {0} \cup Ends(typed)
    BY <1>1, <1>2, <1>3, EndsAre DEF Standing, Between
<1>5. /\ \A k \in p + 1 .. s - 1 : typed[k] \in Blanks
      /\ buffer = SubSeq(typed, s, n) /\ RanUpTo(replRan, typed, p) /\ FreshLine(typed, p, s)
    BY <1>1, <1>3 DEF Standing, Between
<1>6. \A e \in Ends(typed) : e \in 1 .. n /\ e <= p
    BY <1>1, <1>2, <1>3, EndsAre DEF AllTaken
<1>7. [i \in DOMAIN replRan |-> SkipWhite(replRan[i])] = Statements(typed)
    <2>1. SaidUpTo(typed, p) = Said(typed)
        BY <1>6 DEF SaidUpTo, Said
    <2>2. PICK E : E = Said(typed)
        OBVIOUS
    <2>3. /\ E \in SUBSET (1 .. n) /\ IsFiniteSet(E) /\ Cardinality(E) \in Nat
          /\ Statements(typed) = [k \in 1 .. Cardinality(E) |-> SkipWhite(Piece(typed, Nth(E, k)))]
        BY <1>2, <1>3, <2>2, StatementsAre
    <2>4. DOMAIN replRan = 1 .. Cardinality(E)
        BY <1>2, <1>5, <2>1, <2>2 DEF RanUpTo
    <2>5. ASSUME NEW k \in 1 .. Cardinality(E)
          PROVE  SkipWhite(replRan[k]) = SkipWhite(Piece(typed, Nth(E, k)))
        <3>1. PICK e \in E : Cardinality({f \in E : f <= e}) = k
            BY ZenonT(60), <2>3, NthExists
        <3>2. E \in SUBSET Nat
            BY <2>3
        <3>3. Nth(E, k) = e
            BY <2>3, <3>1, <3>2, NthIs
        <3>4. SaidUpTo(typed, e) = {f \in E : f <= e} /\ e \in SaidUpTo(typed, p)
            BY <2>1, <2>2, <3>1 DEF SaidUpTo
        <3>5. SkipWhite(replRan[k]) = SkipWhite(Piece(typed, e))
            BY <1>5, <3>1, <3>4 DEF RanUpTo
        <3>6. QED
            BY <3>3, <3>5
    <2>6. QED
        BY <2>3, <2>4, <2>5
<1>8. SkipWhite(buffer) = Unfinished(typed)
    <2>1. EndBefore(typed, n + 1) = p
        <3>1. \A k \in Ends(typed) : k > p => k >= n + 1
            BY <1>4, <1>6
        <3>2. n + 1 \in Nat /\ p < n + 1
            BY <1>4
        <3>3. QED
            BY <1>2, <1>4, <3>1, <3>2, EndBeforeIs
    <2>2. SkipWhite(SubSeq(typed, p + 1, n)) = SkipWhite(SubSeq(typed, s, n))
        <3>1. s \in p + 1 .. Len(typed) + 1 /\ n \in s - 1 .. Len(typed)
            BY <1>3, <1>4
        <3>2. QED
            BY <1>2, <1>5, <3>1, SkipWhiteSame
    <2>3. QED
        BY <1>3, <1>5, <2>1, <2>2 DEF Unfinished
<1>9. ASSUME JustEnded PROVE buffer = <<>>
    <2>1. PICK e \in Ends(typed) : \A i \in e + 1 .. n - 1 : typed[i] \in Blanks \ {NewlineChar}
        BY <1>3, <1>9 DEF JustEnded
    <2>2. e \in 1 .. n /\ e <= p /\ typed[e] = Terminator
        BY <1>2, <1>6, <2>1, EndsAre
    <2>3. typed[n] = NewlineChar
        <3>1. typed # <<>>
            BY <1>3, <2>2
        <3>2. QED
            BY <1>2, <1>3, <3>1 DEF Lined
    <2>4. p = e
        <3>1. p \in Ends(typed)
            BY <1>4, <2>2
        <3>2. typed[p] = Terminator
            BY <1>2, <3>1, EndsAre
        <3>3. p # n
            BY <2>3, <3>2, NewlineDiffers
        <3>4. p \notin e + 1 .. n - 1
            BY <2>1, <3>2, BlanksArePlain
        <3>5. QED
            BY <1>4, <2>2, <3>3, <3>4
    <2>5. SUFFICES ASSUME s <= n PROVE FALSE
        <3>1. CASE s = n + 1
            BY <1>2, <1>3, <1>5, <3>1
        <3>2. QED
            BY <1>3, <1>4, <2>5, <3>1
    <2>6. typed[s] \in Blanks
        <3>1. CASE s = n
            BY <2>3, <3>1, NewlineDiffers
        <3>2. CASE s # n
            <4>1. s \in e + 1 .. n - 1
                BY <1>4, <2>2, <2>4, <2>5, <3>2
            <4>2. QED
                BY <2>1, <4>1
        <3>3. QED
            BY <3>1, <3>2
    <2>7. PICK j \in p + 1 .. s - 1 : typed[j] = NewlineChar
        BY <1>3, <1>5, <2>2, <2>4, <2>5, <2>6 DEF FreshLine
    <2>8. j \in e + 1 .. n - 1
        BY <1>4, <2>2, <2>4, <2>5, <2>7
    <2>9. QED
        BY <2>1, <2>7, <2>8
<1>10. QED
    BY <1>7, <1>8, <1>9 DEF RunsWhatWasTyped, RanAll

\* At every prompt the statements run are those typed, and after a line that
\* ended a statement the prompt is fresh (repl_run, drain_complete_statements).
THEOREM SessionsRunWhatWasTyped == ReplSpec => []RunsWhatWasTyped
<1>1. ReplInit => ReplOK
    BY InitRepl
<1>2. ReplOK /\ [ReplNext]_replVars => ReplOK'
    BY ReplStep
<1>3. ReplOK => RunsWhatWasTyped
    <2>1. draining => RunsWhatWasTyped
        BY DEF RunsWhatWasTyped
    <2>2. QED
        BY <2>1, AllTakenRanAll
<1>4. QED
    BY <1>1, <1>2, <1>3, PTL DEF ReplSpec
=============================================================================
