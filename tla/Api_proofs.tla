------------------------------ MODULE Api_proofs ------------------------------
(***************************************************************************)
(* Proofs about Api: no call leaks, failures are described, and nothing is *)
(* given to the caller of a statement that failed, for any tables, names   *)
(* and number of results.                                                  *)
(***************************************************************************)
EXTENDS Api, SequenceTheorems, FiniteSetTheorems, TLAPS

Phases == {"parse", "execute", "wrap"}

\* What is allocated while no statement runs.
Owned == (IF open THEN {Handle} ELSE {})
         \cup {Result(id) : id \in held} \cup {Wrapper(id) : id \in held}

\* What the statement under way has allocated.
InCall == IF call.phase = "execute" THEN {Statement}
          ELSE IF call.phase = "wrap" THEN {Result(call.result)} ELSE {}

CallOK == /\ call \in {Idle} \cup [phase : Phases, of : Calls, result : Ids \cup {NoId}]
          /\ call.phase = "wrap" => call.result \in Ids \ held
          /\ call # Idle => open /\ out = NoOut

\* The invariant: what a statement has made is known at each of its steps.
Accounted == held \subseteq Ids /\ CallOK /\ heap = Owned \cup InCall

\* The message and the last failure, also while a statement runs.
Described == open => errmsg = failed

LEMMA InitAccounted == Init => Accounted /\ Described
BY DEF Init, Accounted, Described, CallOK, Owned, InCall, Idle, NoMessage

LEMMA StepAccounted == Accounted /\ [Next]_vars => Accounted'
<1> SUFFICES ASSUME Accounted, [Next]_vars PROVE Accounted'
  OBVIOUS
<1> USE DEF Accounted, CallOK, Owned, InCall, Idle, Phases, Handle, Statement, Result, Wrapper, catalog
<1>1. CASE Open
  BY <1>1 DEF Open
<1>2. CASE OpenError
  BY <1>2 DEF OpenError, vars
<1>3. CASE Close
  BY <1>3 DEF Close
<1>4. ASSUME NEW n \in Names, Edit(n) PROVE Accounted'
  BY <1>4 DEF Edit
<1>5. ASSUME NEW c \in Calls, Begin(c) PROVE Accounted'
  BY <1>5 DEF Begin, NoOut
<1>6. CASE Exec
  <2>1. CASE ParseError
    BY <2>1 DEF ParseError, ReturnError
  <2>2. CASE ParseStatement
    BY <2>2 DEF ParseStatement
  <2>3. CASE ExecCreate
    BY <2>3 DEF ExecCreate, Executed
  <2>4. CASE ExecDrop
    BY <2>4 DEF ExecDrop, Executed
  <2>5. CASE ExecInsert
    BY <2>5 DEF ExecInsert, Executed
  <2>6. CASE ExecSelect
    <3>1. PICK id \in Ids : /\ Result(id) \notin heap
                            /\ heap' = (heap \ {Statement}) \cup {Result(id)}
                            /\ call' = [call EXCEPT !.phase = "wrap", !.result = id]
      BY <2>6 DEF ExecSelect
    <3>2. call.phase = "execute" /\ UNCHANGED <<open, held, out>>
      BY <2>6 DEF ExecSelect
    <3>3. id \notin held
      BY <3>1
    <3>4. call' \in [phase : Phases, of : Calls, result : Ids \cup {NoId}]
      <4>1. call \in [phase : Phases, of : Calls, result : Ids \cup {NoId}]
        BY <3>2
      <4>2. call' = [phase |-> "wrap", of |-> call.of, result |-> id]
        BY <3>1, <4>1
      <4> QED
        BY <4>1, <4>2
    <3>5. call'.phase = "wrap" /\ call'.result = id
      BY <3>1, <3>2
    <3>6. CallOK'
      BY <3>2, <3>3, <3>4, <3>5
    <3>7. Statement \notin Owned
      BY <3>2
    <3>8. heap' = Owned \cup {Result(id)}
      BY <3>1, <3>2, <3>7
    <3> QED
      BY <3>2, <3>5, <3>6, <3>8
  <2>7. CASE ExecError
    BY <2>7 DEF ExecError, ReturnError
  <2>8. CASE Wrap
    BY <2>8 DEF Wrap
  <2>9. CASE WrapError
    BY <2>9 DEF WrapError, ReturnError
  <2>10. CASE FreeUnwanted
    BY <2>10 DEF FreeUnwanted
  <2> QED
    BY <1>6, <2>1, <2>2, <2>3, <2>4, <2>5, <2>6, <2>7, <2>8, <2>9, <2>10 DEF Exec
<1>7. ASSUME NEW id \in Ids, ResultFree(id) PROVE Accounted'
  BY <1>7 DEF ResultFree
<1>8. ASSUME NEW n \in Safe, SchemaString(n) PROVE Accounted'
  BY <1>8 DEF SchemaString
<1>9. CASE UNCHANGED vars
  BY <1>9 DEF vars
<1> QED
  BY <1>1, <1>2, <1>3, <1>4, <1>5, <1>6, <1>7, <1>8, <1>9 DEF Next

\* Between two calls nothing is allocated but the handle and the results the
\* caller still has to free.
THEOREM NoCallLeaks == Spec => []NothingLeaks
<1>1. Accounted => NothingLeaks
  BY DEF Accounted, NothingLeaks, Owned, InCall, Idle
<1> QED
  BY <1>1, InitAccounted, StepAccounted, PTL DEF Spec

\* Between calls the message is about the last call that returned an error.
THEOREM LastFailureDescribed == Spec => []FailuresDescribed
<1>1. Described /\ [Next]_vars => Described'
  <2> SUFFICES ASSUME Described, [Next]_vars PROVE Described'
    OBVIOUS
  <2> USE DEF Described
  <2>1. CASE Open
    BY <2>1 DEF Open
  <2>2. CASE Close
    BY <2>2 DEF Close
  <2>3. ASSUME NEW c \in Calls, Begin(c) PROVE Described'
    BY <2>3 DEF Begin, Message, catalog
  <2>4. CASE ParseError \/ ExecError \/ WrapError
    BY <2>4 DEF ParseError, ExecError, WrapError, ReturnError, Describe
  <2>5. CASE ParseStatement \/ ExecCreate \/ ExecDrop \/ ExecInsert \/ ExecSelect \/ Wrap \/ FreeUnwanted
    BY <2>5 DEF ParseStatement, ExecCreate, ExecDrop, ExecInsert, ExecSelect, Executed, Wrap,
                FreeUnwanted, catalog
  <2>6. ASSUME NEW n \in Safe, SchemaString(n) PROVE Described'
    BY <2>6 DEF SchemaString, Message
  <2>7. ASSUME NEW n \in Names, Edit(n) PROVE Described'
    BY <2>7 DEF Edit
  <2>8. ASSUME NEW id \in Ids, ResultFree(id) PROVE Described'
    BY <2>8 DEF ResultFree, catalog
  <2>9. CASE OpenError \/ UNCHANGED vars
    BY <2>9 DEF OpenError, vars
  <2> QED
    BY <2>1, <2>2, <2>3, <2>4, <2>5, <2>6, <2>7, <2>8, <2>9 DEF Next, Exec
<1>2. Described => FailuresDescribed
  BY DEF Described, FailuresDescribed
<1> QED
  BY <1>1, <1>2, InitAccounted, PTL DEF Spec

\* A statement that fails leaves the caller neither a result nor a count.
THEOREM FailuresGiveNothing == Spec => NothingGivenOnFailure
<1> DEFINE Step == call # Idle /\ call' = Idle /\ failed' # failed => out' = NoOut
<1>1. Accounted /\ [Next]_vars => [Step]_vars
  <2> SUFFICES ASSUME Accounted, Next, call # Idle, failed' # failed PROVE out' = NoOut
    OBVIOUS
  <2>1. out = NoOut
    BY DEF Accounted, CallOK
  <2>2. CASE ParseError \/ ExecError \/ WrapError
    BY <2>1, <2>2 DEF ParseError, ExecError, WrapError
  <2>3. ~(ParseStatement \/ ExecCreate \/ ExecDrop \/ ExecInsert \/ ExecSelect \/ Wrap \/ FreeUnwanted)
    BY DEF ParseStatement, ExecCreate, ExecDrop, ExecInsert, ExecSelect, Executed, Wrap, FreeUnwanted
  <2>4. ~(Open \/ OpenError \/ Close)
    BY DEF Open, OpenError, Close, Accounted, CallOK, vars
  <2>5. ~(\E c \in Calls : Begin(c)) /\ ~(\E n \in Safe : SchemaString(n))
    BY DEF Begin, SchemaString
  <2>6. ~(\E n \in Names : Edit(n)) /\ ~(\E id \in Ids : ResultFree(id))
    BY DEF Edit, ResultFree
  <2> QED
    BY <2>2, <2>3, <2>4, <2>5, <2>6 DEF Next, Exec
<1> QED
  BY <1>1, InitAccounted, StepAccounted, PTL DEF Spec, NothingGivenOnFailure
-----------------------------------------------------------------------------
(* The list of tables. *)

TableEntry == [name : Safe, cached : BOOLEAN]

\* The tables are listed while there is a handle.
Catalogued == /\ files \in [Names -> {"absent", "good", "corrupt"}]
              /\ entries \in Seq(TableEntry)
              /\ ~open => entries = <<>>

\* A function on 1 .. n is a sequence.
LEMMA SequenceOfEntries ==
    ASSUME NEW n \in Nat, NEW f \in [1 .. n -> TableEntry]
    PROVE  f \in Seq(TableEntry) /\ DOMAIN f = 1 .. n
BY SeqDef

\* Reading a schema lists the tables as before.
LEMMA CachedLists ==
    ASSUME Catalogued, NEW n
    PROVE  /\ Cached(n) \in Seq(TableEntry) /\ DOMAIN Cached(n) = DOMAIN entries
           /\ \A i \in DOMAIN entries : Cached(n)[i].name = entries[i].name
<1>1. Len(entries) \in Nat /\ DOMAIN entries = 1 .. Len(entries)
  BY DEF Catalogued
<1>2. \A i \in DOMAIN entries : entries[i] \in TableEntry
  BY DEF Catalogued
<1>3. Cached(n) \in [1 .. Len(entries) -> TableEntry]
  BY <1>1, <1>2 DEF Cached, TableEntry
<1>4. Cached(n) \in Seq(TableEntry)
  BY <1>1, <1>3, SequenceOfEntries
<1>5. \A i \in DOMAIN entries : Cached(n)[i].name = entries[i].name
  BY <1>2 DEF Cached, TableEntry
<1> QED
  BY <1>4, <1>5 DEF Cached

\* A dropped table is listed no more; the others are, once each.
LEMMA WithoutLists ==
    ASSUME Catalogued, ListedOnce, NEW n, Listed(n)
    PROVE  /\ Without(n) \in Seq(TableEntry)
           /\ \A i, j \in DOMAIN Without(n) : Without(n)[i].name = Without(n)[j].name => i = j
           /\ \A i \in DOMAIN Without(n) : /\ Without(n)[i].name # n
                                           /\ \E j \in DOMAIN entries : Without(n)[i] = entries[j]
<1> DEFINE last == Len(entries)
<1>1. PICK k \in DOMAIN entries : entries[k].name = n
  BY DEF Listed
<1>2. last \in Nat /\ last >= 1 /\ DOMAIN entries = 1 .. last /\ k \in 1 .. last
  BY <1>1 DEF Catalogued
<1>3. \A i \in 1 .. last : entries[i] \in TableEntry
  BY <1>2 DEF Catalogued
<1>4. \A i, j \in 1 .. last : entries[i].name = entries[j].name => i = j
  BY <1>2 DEF ListedOnce
<1>5. Without(n) = [i \in 1 .. last - 1 |-> IF i = k THEN entries[last] ELSE entries[i]]
  BY <1>1, <1>2, <1>4 DEF Without
<1> HIDE DEF last
<1>6. Without(n) \in [1 .. last - 1 -> TableEntry]
  BY <1>2, <1>3, <1>5
<1>7. Without(n) \in Seq(TableEntry) /\ DOMAIN Without(n) = 1 .. last - 1
  BY <1>2, <1>6, SequenceOfEntries
<1>8. ASSUME NEW i \in 1 .. last - 1
      PROVE  \E j \in 1 .. last : /\ Without(n)[i] = entries[j] /\ j # k
                                  /\ j = IF i = k THEN last ELSE i
  BY <1>2, <1>5
<1>9. \A i, j \in 1 .. last - 1 : Without(n)[i].name = Without(n)[j].name => i = j
  BY <1>2, <1>4, <1>8
<1>10. \A i \in 1 .. last - 1 : Without(n)[i].name # n
  BY <1>1, <1>2, <1>4, <1>8
<1> QED
  BY <1>2, <1>7, <1>8, <1>9, <1>10

\* Nothing is listed to begin with.
LEMMA InitCatalogued == Init => Catalogued /\ ListedOnce
BY DEF Init, Catalogued, ListedOnce

\* Only CREATE, DROP and opening change the list, each keeps it free of doubles.
LEMMA StepCatalogued ==
    Accounted /\ Catalogued /\ ListedOnce /\ [Next]_vars => (Catalogued /\ ListedOnce)'
<1> SUFFICES ASSUME Accounted, Catalogued, ListedOnce, [Next]_vars
             PROVE  Catalogued' /\ ListedOnce'
  OBVIOUS
<1>1. CASE Open
  <2> DEFINE present == {n \in Names : files[n] # "absent"}
  <2>1. PICK order \in [1 .. Cardinality(present) -> present] :
            /\ \A i, j \in DOMAIN order : order[i] = order[j] => i = j
            /\ entries' = Entries(order)
    BY <1>1 DEF Open
  <2>2. open' = TRUE /\ files' = files /\ present \subseteq Safe
    BY <1>1 DEF Open
  <2>3. Cardinality(present) \in Nat
    <3>1. IsFiniteSet(present)
      BY NamesAssumption, FS_Subset
    <3> QED
      BY <3>1, FS_CardinalityType
  <2>4. entries' \in [1 .. Cardinality(present) -> TableEntry]
    BY <2>1, <2>2 DEF Entries, TableEntry
  <2>5. entries' \in Seq(TableEntry) /\ DOMAIN entries' = 1 .. Cardinality(present)
    BY <2>3, <2>4, SequenceOfEntries
  <2>6. \A i \in DOMAIN entries' : entries'[i].name = order[i] /\ files[order[i]] # "absent"
    BY <2>1, <2>5 DEF Entries
  <2>7. Catalogued'
    BY <2>2, <2>5 DEF Catalogued
  <2> QED
    BY <2>1, <2>2, <2>5, <2>6, <2>7 DEF ListedOnce
<1>2. CASE Close
  BY <1>2 DEF Close, Catalogued, ListedOnce
<1>3. ASSUME NEW n \in Names, Edit(n) PROVE Catalogued' /\ ListedOnce'
  BY <1>3 DEF Edit, Catalogued, ListedOnce
<1>4. CASE ExecCreate
  <2>1. /\ files' = [files EXCEPT ![call.of.name] = "good"] /\ open' = open
        /\ entries' = Append(entries, [name |-> call.of.name, cached |-> TRUE])
        /\ ~Listed(call.of.name)
    BY <1>4 DEF ExecCreate
  <2>2. call.of.name \in Safe /\ call.of.name \in Names /\ open
    BY <1>4, NamesAssumption DEF ExecCreate, Accounted, CallOK, Calls, Idle
  <2>3. [name |-> call.of.name, cached |-> TRUE] \in TableEntry
    BY <2>2 DEF TableEntry
  <2>4. Catalogued'
    BY <2>1, <2>2, <2>3 DEF Catalogued
  <2>5. \A i \in DOMAIN entries' :
          \/ i \in DOMAIN entries /\ entries'[i] = entries[i]
          \/ i = Len(entries) + 1 /\ entries'[i].name = call.of.name
    BY <2>1 DEF Catalogued
  <2> QED
    BY <2>1, <2>2, <2>4, <2>5 DEF ListedOnce, Listed, Catalogued
<1>5. CASE ExecDrop
  <2>1. /\ files' = [files EXCEPT ![call.of.name] = "absent"] /\ open' = open
        /\ entries' = Without(call.of.name) /\ Listed(call.of.name)
    BY <1>5 DEF ExecDrop
  <2>2. open
    BY <1>5 DEF ExecDrop, Accounted, CallOK, Idle
  <2> DEFINE dropped == call.of.name
  <2>3. /\ Without(dropped) \in Seq(TableEntry)
        /\ \A i, j \in DOMAIN Without(dropped) :
             Without(dropped)[i].name = Without(dropped)[j].name => i = j
        /\ \A i \in DOMAIN Without(dropped) :
             /\ Without(dropped)[i].name # dropped
             /\ \E j \in DOMAIN entries : Without(dropped)[i] = entries[j]
    BY <2>1, WithoutLists
  <2>4. Catalogued'
    BY <2>1, <2>2, <2>3 DEF Catalogued
  <2>5. \A i \in DOMAIN entries : entries[i].name \in Names /\ files[entries[i].name] # "absent"
    <3>1. \A i \in DOMAIN entries : entries[i] \in TableEntry
      BY DEF Catalogued
    <3> QED
      BY <3>1, NamesAssumption DEF TableEntry, ListedOnce
  <2>6. \A i \in DOMAIN entries' : files'[entries'[i].name] # "absent"
    BY <2>1, <2>3, <2>5 DEF Catalogued
  <2> QED
    BY <2>1, <2>3, <2>4, <2>6 DEF ListedOnce
<1>6. ASSUME NEW n, entries' = Cached(n), files' = files, open' = open, open
      PROVE  Catalogued' /\ ListedOnce'
  BY <1>6, CachedLists DEF Catalogued, ListedOnce
<1>7. CASE ExecInsert
  BY <1>6, <1>7 DEF ExecInsert, Accounted, CallOK, Idle
<1>8. CASE ExecSelect
  BY <1>6, <1>8 DEF ExecSelect, Accounted, CallOK, Idle
<1>9. CASE ExecError
  <2>1. open /\ open' = open /\ call.of.name \in Names
    BY <1>9, NamesAssumption DEF ExecError, Accounted, CallOK, Calls, Idle
  <2>2. entries' = entries \/ entries' = Cached(call.of.name)
    BY <1>9 DEF ExecError
  <2>3. files' = files \/ (files' = [files EXCEPT ![call.of.name] = "good"])
    BY <1>9 DEF ExecError
  <2>4. /\ entries' \in Seq(TableEntry) /\ DOMAIN entries' = DOMAIN entries
        /\ \A i \in DOMAIN entries : entries'[i].name = entries[i].name
    BY <2>2, CachedLists DEF Catalogued
  <2>5. /\ files' \in [Names -> {"absent", "good", "corrupt"}]
        /\ \A n \in Names : files[n] # "absent" => files'[n] # "absent"
    BY <2>1, <2>3 DEF Catalogued
  <2>6. \A i \in DOMAIN entries : entries[i].name \in Names
    <3>1. \A i \in DOMAIN entries : entries[i] \in TableEntry
      BY DEF Catalogued
    <3> QED
      BY <3>1, NamesAssumption DEF TableEntry
  <2> QED
    BY <2>1, <2>4, <2>5, <2>6 DEF Catalogued, ListedOnce
<1>10. ASSUME NEW n \in Safe, SchemaString(n) PROVE Catalogued' /\ ListedOnce'
  <2>1. CASE Readable(n)
    BY <1>6, <1>10, <2>1 DEF SchemaString
  <2>2. CASE ~Readable(n)
    BY <1>10, <2>2 DEF SchemaString, Catalogued, ListedOnce
  <2> QED
    BY <2>1, <2>2
<1>11. CASE UNCHANGED catalog
  BY <1>11 DEF catalog, Catalogued, ListedOnce
<1>12. CASE OpenError \/ ParseError \/ ParseStatement \/ Wrap \/ WrapError \/ FreeUnwanted
            \/ UNCHANGED vars
  BY <1>11, <1>12 DEF OpenError, ParseError, ParseStatement, Wrap, WrapError, FreeUnwanted, vars, catalog
<1>13. ASSUME NEW c \in Calls, Begin(c) PROVE UNCHANGED catalog
  BY <1>13 DEF Begin
<1>14. ASSUME NEW id \in Ids, ResultFree(id) PROVE UNCHANGED catalog
  BY <1>14 DEF ResultFree
<1> QED
  BY <1>1, <1>2, <1>3, <1>4, <1>5, <1>7, <1>8, <1>9, <1>10, <1>11, <1>12, <1>13, <1>14 DEF Next, Exec

\* The handle lists every table once, and each that it lists has its schema
\* file, whatever was created, dropped, read or has failed.
THEOREM TablesListedOnce == Spec => []ListedOnce
BY InitAccounted, StepAccounted, InitCatalogued, StepCatalogued, PTL DEF Spec
=============================================================================
