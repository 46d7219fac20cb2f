----------------------------- MODULE SchemaFile -----------------------------
(***************************************************************************)
(* schema.c: schemas, what makes one valid, and their JSON form.           *)
(*                                                                         *)
(* A schema is [name, columns], a column [name, type, nullable,            *)
(* primaryKey, fk] with fk = NoReference or [table, column].  A JSON       *)
(* document is what cJSON makes of it: [kind, v] with v the members of an  *)
(* object (a function from names), the elements of an array, or the value  *)
(* of a string or boolean; Malformed if it cannot be parsed.               *)
(***************************************************************************)
EXTENDS Integers, Sequences, FiniteSets

CONSTANT Identifiers  \* the strings is_valid_identifier accepts

Types == {"INTEGER", "REAL", "TEXT", "BOOLEAN"}
EmptyName == ""

\* is_valid_identifier refuses the empty name.
ASSUME IdentifiersAssumption == EmptyName \notin Identifiers

NoReference == [none |-> TRUE]
SchemaColumn == [name : STRING, type : Types, nullable : BOOLEAN, primaryKey : BOOLEAN,
                 fk : {NoReference} \cup [table : STRING, column : STRING]]
AnySchema == [name : STRING, columns : Seq(SchemaColumn)]

NoSchema == [name |-> EmptyName, columns |-> <<>>]
Malformed == [kind |-> "malformed", v |-> 0]
Absent == [kind |-> "absent", v |-> 0]

\* schema_validate
Validates(schema) ==
    /\ schema.name \in Identifiers
    /\ schema.columns # <<>>
    /\ \A i \in DOMAIN schema.columns :
          LET c == schema.columns[i] IN
          /\ c.name \in Identifiers
          /\ \A j \in 1 .. i - 1 : schema.columns[j].name # c.name
          /\ c.fk # NoReference => c.fk.table \in Identifiers /\ c.fk.column \in Identifiers
    /\ Cardinality({i \in DOMAIN schema.columns : schema.columns[i].primaryKey}) <= 1
-----------------------------------------------------------------------------
(* The document of a schema. *)

Text(s) == [kind |-> "string", v |-> s]
Truth(b) == [kind |-> "boolean", v |-> b]
Object(members) == [kind |-> "object", v |-> members]
Array(elements) == [kind |-> "array", v |-> elements]

Reference(fk) == Object([table |-> Text(fk.table), column |-> Text(fk.column)])

\* Mutant: NOT NULL is not written.
ColumnWithoutNullable(c) ==
    IF c.fk = NoReference
    THEN Object([name |-> Text(c.name), type |-> Text(c.type), primary_key |-> Truth(c.primaryKey)])
    ELSE Object([name |-> Text(c.name), type |-> Text(c.type), primary_key |-> Truth(c.primaryKey),
                 foreign_key |-> Reference(c.fk)])

\* Defaults are written out, an absent reference is not.
ColumnToJson(c) ==
    IF c.fk = NoReference
    THEN Object([name |-> Text(c.name), type |-> Text(c.type), nullable |-> Truth(c.nullable),
                 primary_key |-> Truth(c.primaryKey)])
    ELSE Object([name |-> Text(c.name), type |-> Text(c.type), nullable |-> Truth(c.nullable),
                 primary_key |-> Truth(c.primaryKey), foreign_key |-> Reference(c.fk)])

\* schema_to_json_string
SchemaToJson(schema) ==
    Object([name |-> Text(schema.name),
            columns |-> Array([i \in DOMAIN schema.columns |-> ColumnToJson(schema.columns[i])])])
-----------------------------------------------------------------------------
(* The schema of a document. *)

Member(item, name) == IF item.kind = "object" /\ name \in DOMAIN item.v THEN item.v[name] ELSE Absent
IsText(item) == item.kind = "string"
Flag(item, default) == IF item.kind = "absent" THEN default ELSE item.v

\* The column objects that are read without an error.
IsColumn(item) ==
    /\ IsText(Member(item, "name")) /\ Member(item, "name").v # EmptyName
    /\ IsText(Member(item, "type")) /\ Member(item, "type").v \in Types
    /\ \A flag \in {"nullable", "primary_key"} : Member(item, flag).kind \in {"absent", "boolean"}
    /\ LET fk == Member(item, "foreign_key") IN
       fk.kind # "absent" => IsText(Member(fk, "table")) /\ IsText(Member(fk, "column"))

Column(item) ==
    LET fk == Member(item, "foreign_key") IN
    [name |-> Member(item, "name").v, type |-> Member(item, "type").v,
     nullable |-> Flag(Member(item, "nullable"), TRUE),
     primaryKey |-> Flag(Member(item, "primary_key"), FALSE),
     fk |-> IF fk.kind = "absent" THEN NoReference
            ELSE [table |-> Member(fk, "table").v, column |-> Member(fk, "column").v]]

\* schema_parse_json: NoSchema where it fails.
ParseSchema(doc) ==
    LET name == Member(doc, "name")
        columns == Member(doc, "columns")
        schema == [name |-> name.v, columns |-> [i \in DOMAIN columns.v |-> Column(columns.v[i])]]
    IN  IF /\ IsText(name) /\ name.v # EmptyName
           /\ columns.kind = "array"
           /\ \A i \in DOMAIN columns.v : IsColumn(columns.v[i])
           /\ Validates(schema)
        THEN schema ELSE NoSchema
=============================================================================
