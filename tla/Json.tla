------------------------------- MODULE Json -------------------------------
(***************************************************************************)
(* What serde writes for a Rust type and what it reads into one, up to the *)
(* form of the JSON value: the values of a form are not told apart.        *)
(***************************************************************************)
EXTENDS Naturals

Forms == {"string", "bool", "int", "decimal", "list", "object", "null", "absent"}

\* A field's Rust type: what it is made of, how deep it is nested in Vec, and
\* whether it is an Option.
Type(of) == [of |-> of, lists |-> 0, option |-> FALSE]

String == Type("String")
Bool == Type("bool")
I64 == Type("i64")

\* Seeded fault: map_type() gives every number the type i64.
F64AsInt == Type("i64")

F64 == Type("f64")
Value == Type("Value")
Struct(name) == Type(name)
Vec(type) == [type EXCEPT !.lists = @ + 1]
Option(type) == [type EXCEPT !.option = TRUE]

\* A struct without fields.
Nothing == <<>>

-----------------------------------------------------------------------------

\* What a value of the type looks like on the wire. An f64 is written with its
\* point and a whole number is read into it.
WritesPlain(type) ==
    IF type.lists > 0
    THEN {"list"}
    ELSE CASE type.of = "String" -> {"string"}
           [] type.of = "bool" -> {"bool"}
           [] type.of = "i64" -> {"int"}
           [] type.of = "f64" -> {"decimal"}
           [] type.of = "Value" -> Forms \ {"absent"}
           [] OTHER -> {"object"}

ReadsPlain(type) ==
    WritesPlain(type) \cup
        IF type.lists = 0 /\ type.of = "f64" THEN {"int"} ELSE {}

\* Seeded fault: None is written as null instead of being left out.
WritesNulls(type) ==
    WritesPlain(type) \cup IF type.option THEN {"null"} ELSE {}

\* `default` and `skip_serializing_if = "Option::is_none"`: None is left out of
\* what is written; null and a field that is not there are both read as None.
Writes(type) ==
    WritesPlain(type) \cup IF type.option THEN {"absent"} ELSE {}

Reads(type) ==
    ReadsPlain(type) \cup IF type.option THEN {"null", "absent"} ELSE {}

=============================================================================
