------------------------------- MODULE RustWire -------------------------------
(***************************************************************************)
(* The serde attributes, the oneof codec and validate of generated Rust    *)
(* (internal/genrust/types.go), for one field of a message.                *)
(***************************************************************************)
EXTENDS WireField

\* rustFieldType: which fields are an Option; a nullable one is two.
IsOption(f) == f.kind = "oneof" \/ (f.card = "one" /\ (f.opt \/ f.kind = "msg"))

Memory(f) ==
    IF f.kind = "none"      THEN {Unset}
    ELSE IF f.card # "one"  THEN Collections(f)
    ELSE IF f.nullable      THEN {Unset, Null} \cup Values(f)
    ELSE IF IsOption(f)     THEN {Unset} \cup (Values(f) \ {Is("nomsg")})
    ELSE IF TimeText(f)     THEN {Unset} \cup Values(f)
    ELSE Values(f)

\* A mutant: an optional field is left out at its zero value.
Bug_SkipsZero(f, m) == m \in {Unset, NoItems, Zero(f)}

\* fieldSerdeOptions: what skip_serializing_if leaves out.  A message field
\* without the ? marker has none, and its None is written as null.
Skipped(f, m) ==
    \/ f.kind = "none"
    \/ m = Unset /\ (f.opt \/ f.kind = "oneof" \/ TimeText(f))
    \/ m = NoItems /\ ~EmitZero(f)

\* writeQueryParams, writeClientPathSubstitution, query_value: the null of a
\* nullable field is an empty text.
Parameter(f, m) ==
    IF m = Null THEN Param(IF f.kind = "text" THEN "zero" ELSE "empty") ELSE ParamToken(f, m)

Encode(f, m) ==
    IF f.place # "body"         THEN Parameter(f, m)
    ELSE IF Skipped(f, m)       THEN Absent
    ELSE IF m \in {Unset, Null} THEN JNull
    ELSE IF f.kind = "oneof"    THEN OneofToken(m[2], Absent)
    ELSE IF f.card # "one"      THEN LET T(v) == ItemToken(f, v) IN Container(f, m, T)
    ELSE ItemToken(f, m[2])

\* writeRequestExtractor, repeatedQueryFields, writeWSQueryBinding, parse_path:
\* without a list in the query, serde reads it by the names of the fields.
Bind(f, tok) ==
    LET I(v) == ParamText(f, v) IN
    IF tok # Absent /\ (f.card = "list" \/ ~f.alias) THEN ReadParam(f, tok, I)
    ELSE IF f.card = "list" THEN NoItems
    ELSE IF f.opt           THEN Unset
    ELSE Zero(f)

\* serde reads exactly the declared type: null only into an Option and into
\* raw JSON; "default" supplies what is absent.  A oneof needs its payload.
Decode(f, tok) ==
    LET I(t) == Reads(f, t) IN
    IF f.place # "body"                THEN Bind(f, tok)
    ELSE IF f.kind = "none"            THEN Unset
    ELSE IF tok = Absent
         THEN IF f.card # "one" THEN NoItems ELSE IF IsOption(f) \/ TimeText(f) THEN Unset ELSE Zero(f)
    ELSE IF f.kind = "oneof"           THEN ReadOneof(tok, Failed)
    ELSE IF f.card # "one"             THEN ReadContainer(f, tok, I)
    ELSE IF tok = JNull /\ f.nullable  THEN Null
    ELSE IF tok = JNull /\ IsOption(f) THEN Unset
    ELSE ReadValue(tok, I)

\* writeRequiredValidation.
Valid(f, m) == f.required =>
    IF f.card # "one"       THEN m # NoItems
    ELSE IF IsOption(f)     THEN m # Unset
    ELSE IF f.kind = "text" THEN m # Zero(f)
    ELSE TRUE
===============================================================================
