------------------------------- MODULE SwiftWire -------------------------------
(***************************************************************************)
(* toJSON, init(json:) and validate of generated Swift                     *)
(* (internal/genswift/types.go and runtime/Onekit.swift), for one field.   *)
(***************************************************************************)
EXTENDS WireField

\* isNullableKind: the fields whose type is an optional.
MayBeNil(f) ==
    \/ f.kind = "oneof"
    \/ f.card = "one" /\ (f.opt \/ f.kind \in {"msg", "time", "json"})

\* fieldType: a nullable field has a Null flag beside it.
Memory(f) ==
    IF f.kind = "none"      THEN {Unset}
    ELSE IF f.card # "one"  THEN Collections(f)
    ELSE {Is(v) : v \in ItemValues(f) \ {"null", "nomsg"}}
                  \cup (IF MayBeNil(f) THEN {Unset} ELSE {})
                  \cup (IF f.nullable THEN {Null} ELSE {})

\* writeToJSONField: what is left out when it is empty or zero.
Omitted(f, m) ==
    \/ m = Unset
    \/ m = NoItems /\ ~EmitZero(f)
    \/ /\ m = Is("zero") /\ f.kind \in {"text", "number", "bytes"} \cup Integers64
       /\ ~f.opt /\ ~EmitZero(f) /\ ~NeedsInt64StringEncoding(f)

\* writePathAndQuery, onekitQueryValue.
Parameter(f, m) == ParamToken(f, m)

Encode(f, m) ==
    IF f.place # "body"      THEN Parameter(f, m)
    ELSE IF Omitted(f, m)    THEN Absent
    ELSE IF m = Null         THEN JNull
    ELSE IF f.kind = "oneof" THEN OneofToken(m[2], Absent)
    ELSE IF f.card # "one"   THEN LET T(v) == ItemToken(f, v) IN Container(f, m, T)
    ELSE ItemToken(f, m[2])

\* fromJSONExpr and the fromJSON of a oneof: null is read as absent, except
\* that a nullable field remembers which it was.  An integer is read exactly,
\* as a string or as a number, or not at all.
Decode(f, tok) ==
    LET I(t) == ReadsEitherForm(f, t) IN
    IF f.kind = "none"                THEN Unset
    ELSE IF f.kind = "oneof"          THEN ReadOneof(tok, Is("msg zero"))
    ELSE IF tok = JNull /\ f.nullable THEN Null
    ELSE IF tok \in {Absent, JNull}
         THEN IF MayBeNil(f) THEN Unset ELSE IF f.card # "one" THEN NoItems ELSE Zero(f)
    ELSE IF f.card # "one"            THEN ReadContainer(f, tok, I)
    ELSE ReadValue(tok, I)

\* validateField.
Valid(f, m) == f.required =>
    IF f.card # "one"       THEN m # NoItems
    ELSE IF f.kind = "text" THEN m \notin {Unset, Null, Is("zero")}
    ELSE IF MayBeNil(f)     THEN m # Unset
    ELSE TRUE
===============================================================================
