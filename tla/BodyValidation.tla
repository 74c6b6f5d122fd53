--------------------------- MODULE BodyValidation ---------------------------
(***************************************************************************)
(* What #[nestforge::dto] makes of the rules on the fields of a struct     *)
(* (nestforge-macros/src/lib.rs): the validate() that ValidatedBody calls  *)
(* (nestforge-core/src/request.rs), and the schema that the OpenAPI        *)
(* document shows for the same struct.                                     *)
(*                                                                         *)
(* A body is the JSON object of the values of its fields, in order.  The   *)
(* values are reduced to what serde, validate() and a schema ask of them.  *)
(* Members of other names, which none of the three minds, serde attributes *)
(* on fields and aliases of Option are left out.                           *)
(***************************************************************************)
EXTENDS Integers, Sequences

CONSTANTS
    Dtos,      \* the structs that bodies are read into
    FieldsOf,  \* FieldsOf[t]: the fields of struct t, in order
    None

\* String, a numeric primitive, or any other type.
Kinds == {"text", "number", "other"}

Field == [kind: Kinds, optional: BOOLEAN,
          whole: BOOLEAN, low: Int, high: Int,     \* the numbers of its type
          required: BOOLEAN, email: BOOLEAN,       \* #[validate(...)]
          min: Int \cup {None}, max: Int \cup {None}]

ASSUME FieldsAssumption ==
    /\ \A t \in Dtos : FieldsOf[t] \in Seq(Field)
    /\ None \notin Int \cup Dtos

Absent == [kind |-> "absent"]
Null == [kind |-> "null"]

\* The length of a text in bytes and in characters, whether it is blank, and
\* whether it has no '@', has one, or is even the address of a mailbox.
Text(bytes, chars, blank, mail) ==
    [kind |-> "text", bytes |-> bytes, chars |-> chars, blank |-> blank, mail |-> mail]

\* A number, counted in a unit that the type of its field holds exactly, and how
\* it is written: 3, 3.0 (or 3e0), 3.5.
Number(value, form) == [kind |-> "number", value |-> value, form |-> form]

\* Any other value, and any that meets a field of another type (a null too,
\* unless the field is an Option): whether serde reads it into that type, and
\* whether it conforms to the schema of that type, with what is nested in both.
Other(reads, conforms) == [kind |-> "other", reads |-> reads, conforms |-> conforms]

Value == {Absent, Null}
         \cup {v \in [kind: {"text"}, bytes: Nat, chars: Nat, blank: BOOLEAN,
                      mail: {"none", "at", "address"}] : v.chars <= v.bytes}
         \cup [kind: {"number"}, value: Int, form: {"whole", "point", "fraction"}]
         \cup [kind: {"other"}, reads: BOOLEAN, conforms: BOOLEAN]

-----------------------------------------------------------------------------
\* serde: a field that is not an Option must be there, and be of its type.  An
\* integer type takes no number that is written with a point, nor one it cannot
\* hold.
Reads(f, v) ==
    \/ v.kind \in {"absent", "null"} /\ f.optional
    \/ v.kind = "text" /\ f.kind = "text"
    \/ /\ v.kind = "number" /\ f.kind = "number"
       /\ v.value \in f.low..f.high
       /\ f.whole => v.form = "whole"
    \/ v.kind = "other" /\ f.kind = "other" /\ v.reads

Deserializes(t, body) ==
    /\ Len(body) = Len(FieldsOf[t])
    /\ \A i \in 1..Len(body) : Reads(FieldsOf[t][i], body[i])

Outside(n, f) == (f.min # None /\ n < f.min) \/ (f.max # None /\ n > f.max)

\* `required` asks for a text that is not blank, or for any other Option to be set.
BreaksRequired(f, v) ==
    f.required /\ IF f.kind = "text" THEN v.kind # "text" \/ v.blank
                                     ELSE f.optional /\ v.kind # f.kind

BreaksEmail(f, v) == f.email /\ v.kind = "text" /\ ~v.blank /\ v.mail = "none"

\* Fault: the bounds are exclusive.
BreaksBoundsExclusive(f, v) ==
    \/ v.kind = "text" /\ (Outside(v.bytes, f) \/ v.bytes = f.max)
    \/ v.kind = "number" /\ Outside(v.value, f)

\* String::len() counts bytes.
BreaksBounds(f, v) ==
    \/ v.kind = "text" /\ Outside(v.bytes, f)
    \/ v.kind = "number" /\ Outside(v.value, f)

\* The rules of a struct within are not looked at.
Validates(t, body) ==
    \A i \in 1..Len(body) : LET f == FieldsOf[t][i] IN
        ~(BreaksRequired(f, body[i]) \/ BreaksEmail(f, body[i]) \/ BreaksBounds(f, body[i]))

-----------------------------------------------------------------------------
\* The schema of a numeric type says only whether its numbers are whole.
TypeSchema(f) == [kind |-> f.kind, whole |-> f.whole]

\* The property of a field in the schema; a rule only matters to values of the
\* type it is about.
PropertyOf(f) == [type |-> TypeSchema(f), nullable |-> f.optional, email |-> f.email,
                  min |-> f.min, max |-> f.max,
                  required |-> ~f.optional \/ f.required]

SchemaOf(t) == [i \in 1..Len(FieldsOf[t]) |-> PropertyOf(FieldsOf[t][i])]

\* JSON Schema: minLength and maxLength count characters, 3.0 is an integer, and
\* the format "email" asks for an address.
Conforms(p, v) ==
    \/ v.kind = "absent" /\ ~p.required
    \/ v.kind = "null" /\ p.nullable
    \/ /\ v.kind = "text" /\ p.type.kind = "text"
       /\ ~Outside(v.chars, p)
       /\ p.email => v.mail = "address"
    \/ /\ v.kind = "number" /\ p.type.kind = "number"
       /\ ~Outside(v.value, p)
       /\ p.type.whole => v.form # "fraction"
    \/ v.kind = "other" /\ p.type.kind = "other" /\ v.conforms

=============================================================================
