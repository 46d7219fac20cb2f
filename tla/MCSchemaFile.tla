---------------------------- MODULE MCSchemaFile ----------------------------
(***************************************************************************)
(* SchemaFile on schemas, and on their documents after up to MaxEdits      *)
(* changes of the kind a hand-edited file has: a member left out, or of    *)
(* another type.                                                           *)
(***************************************************************************)
EXTENDS SchemaFile

CONSTANTS Schemas,  \* the schemas the documents are written for
          MaxEdits  \* bound: changes

VARIABLES schema,   \* the schema the document was written for
          doc,
          dropped,  \* the members left out: <<column or 0, name>>
          retyped   \* the members of another type

docVars == <<schema, doc, dropped, retyped>>

\* Only the number of edits is bounded.
ASSUME SchemasAssumption == Schemas \subseteq AnySchema /\ MaxEdits \in Nat

DocInit == /\ schema \in Schemas
           /\ doc = SchemaToJson(schema)
           /\ dropped = {} /\ retyped = {}

\* The object that has the members of column c, 0 for those of the table.
Part(c) == IF c = 0 THEN doc ELSE doc.v["columns"].v[c]
Put(c, object) == IF c = 0 THEN object
                  ELSE Object([doc.v EXCEPT !["columns"] = Array([@.v EXCEPT ![c] = object])])

Edits == Cardinality(dropped \cup retyped)
Editable == CASE doc.kind = "malformed" -> {}
              [] Member(doc, "columns").kind = "array" -> {0} \cup DOMAIN schema.columns
              [] OTHER -> {0}

DropMember ==
    /\ Edits < MaxEdits
    /\ \E c \in Editable : \E m \in {m \in DOMAIN Part(c).v : <<c, m>> \notin retyped} :
         /\ doc' = Put(c, Object([n \in DOMAIN Part(c).v \ {m} |-> Part(c).v[n]]))
         /\ dropped' = dropped \cup {<<c, m>>}
    /\ UNCHANGED <<schema, retyped>>

Number == [kind |-> "number", v |-> 0]

Retype ==
    /\ Edits < MaxEdits
    /\ \E c \in Editable : \E m \in DOMAIN Part(c).v :
         /\ doc' = Put(c, Object([Part(c).v EXCEPT ![m] = Number]))
         /\ retyped' = retyped \cup {<<c, m>>}
    /\ UNCHANGED <<schema, dropped>>

Spoil == Edits = 0 /\ doc' = Malformed /\ retyped' = {<<0, "document">>}
         /\ UNCHANGED <<schema, dropped>>

DocNext == DropMember \/ Retype \/ Spoil
DocSpec == DocInit /\ [][DocNext]_docVars
-----------------------------------------------------------------------------
\* A schema the docs call valid (docs/schema-format.md "Validation").
Proper(s) ==
    LET names == {s.columns[i].name : i \in DOMAIN s.columns}
        refs == {s.columns[i].fk : i \in DOMAIN s.columns} \ {NoReference}
    IN  /\ s.columns # <<>>
        /\ Cardinality(names) = Len(s.columns)
        /\ {s.name} \cup names \cup UNION {{r.table, r.column} : r \in refs} \subseteq Identifiers
        /\ \A i, j \in DOMAIN s.columns :
              s.columns[i].primaryKey /\ s.columns[j].primaryKey => i = j

\* The schema with the defaults where a member was left out.
Defaulted(s) ==
    [s EXCEPT !.columns = [i \in DOMAIN s.columns |->
        [s.columns[i] EXCEPT !.nullable = @ \/ <<i, "nullable">> \in dropped,
                             !.primaryKey = @ /\ <<i, "primary_key">> \notin dropped,
                             !.fk = IF <<i, "foreign_key">> \in dropped THEN NoReference ELSE @]]]

Optional == {"nullable", "primary_key", "foreign_key"}

\* A table file is read back as the schema it was written for, whatever an
\* edit left out has its default, and everything else is refused: what is
\* loaded is what CREATE TABLE could have made (schema_parse_json,
\* schema_to_json_string, schema_validate).
FilesMeanTheirSchema ==
    ParseSchema(doc) =
        IF /\ retyped = {} /\ \A d \in dropped : d[2] \in Optional
           /\ Proper(Defaulted(schema))
        THEN Defaulted(schema) ELSE NoSchema
=============================================================================
