------------------------------- MODULE Values -------------------------------
(***************************************************************************)
(* The values of value.c and how they compare.                             *)
(*                                                                         *)
(* A value is [type, v] with v an integer: the number of an INTEGER or a   *)
(* (whole) REAL, 0 or 1 for a BOOLEAN, a number that orders a TEXT among   *)
(* the others as strcmp does, 0 for ''.                                    *)
(***************************************************************************)
EXTENDS Integers

CONSTANT Double(_)  \* the double an integer is converted to

Type == {"INTEGER", "REAL", "TEXT", "BOOLEAN"}
Value == [type : Type \cup {"NULL"}, v : Int]
Null == [type |-> "NULL", v |-> 0]
EmptyText == [type |-> "TEXT", v |-> 0]
Bool(b) == [type |-> "BOOLEAN", v |-> IF b THEN 1 ELSE 0]

IsNull(v) == v.type = "NULL"
Numeric(v) == v.type \in {"INTEGER", "REAL"}
Comparable(a, b) == (Numeric(a) /\ Numeric(b)) \/ a.type = b.type

\* Two numbers are compared as doubles, two INTEGERs too.
Comparand(v) == IF Numeric(v) THEN Double(v.v) ELSE v.v

Holds(x, op, y) == \/ op = "EQ" /\ x = y
                   \/ op = "NE" /\ x # y
                   \/ op = "LT" /\ x < y
                   \/ op = "LE" /\ x <= y
                   \/ op = "GT" /\ x > y
                   \/ op = "GE" /\ x >= y

\* value_compare: "error" when the types cannot be compared.
Compare(a, op, b) ==
    IF IsNull(a) \/ IsNull(b) THEN "unknown"
    ELSE IF ~ Comparable(a, b) THEN "error"
    ELSE IF Holds(Comparand(a), op, Comparand(b)) THEN "true" ELSE "false"

Same(a, b) == Compare(a, "EQ", b) = "true"
=============================================================================
