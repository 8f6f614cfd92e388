------------------------------- MODULE DartWire -------------------------------
(***************************************************************************)
(* toJson, fromJson and validate of generated Dart                         *)
(* (internal/gendart/types.go and runtime/onekit.dart), for one field.     *)
(***************************************************************************)
EXTENDS WireField

\* isNullableKind: the fields whose type ends in "?".
MayBeNull(f) ==
    \/ f.kind = "oneof"
    \/ f.card = "one" /\ (f.opt \/ f.kind \in {"msg", "time", "json"})

Memory(f) ==
    IF f.kind = "none"      THEN {Unset}
    ELSE IF f.card # "one"  THEN Collections(f)
    ELSE {Is(v) : v \in ItemValues(f) \ {"null", "nomsg"}}
                  \cup (IF MayBeNull(f) THEN {Unset} ELSE {})
                  \cup (IF f.nullable THEN {Null} ELSE {})

\* encodeValue: a uint64 sent as a number goes through BigInt.toInt, which
\* clamps to the range of int.
Token(f, v) ==
    IF f.kind = "uint64" /\ ~NeedsInt64StringEncoding(f) /\ v = "huge"
    THEN Num("int", "clamped") ELSE ItemToken(f, v)

\* writePathAndQuery.
Parameter(f, m) == ParamToken(f, m)

\* writeToJSONField, writeDartConditionalJSON.
Encode(f, m) ==
    IF f.place # "body"      THEN Parameter(f, m)
    ELSE IF m = Unset        THEN Absent
    ELSE IF m = Null         THEN JNull
    ELSE IF f.kind = "oneof" THEN OneofToken(m[2], Absent)
    ELSE IF m = NoItems /\ ~EmitZero(f) THEN Absent
    ELSE IF f.card # "one"  THEN LET T(v) == Token(f, v) IN Container(f, m, T)
    ELSE IF /\ m = Is("zero") /\ ~MayBeNull(f) /\ ~EmitZero(f)
            /\ f.kind # "enum" /\ ~NeedsInt64StringEncoding(f) THEN Absent
    ELSE Token(f, m[2])

\* decodeValue: jsonDecode reads a number over an int's range as a double.
Item(f, tok) ==
    IF tok = Num("int", "huge") THEN "rounded" ELSE ReadsEitherForm(f, tok)

\* fromJSONExpr and the fromJson of a oneof: null is read as absent, except
\* that a nullable field remembers which it was.
Decode(f, tok) ==
    LET I(t) == Item(f, t) IN
    IF f.kind = "none"                THEN Unset
    ELSE IF f.kind = "oneof"          THEN ReadOneof(tok, Is("msg zero"))
    ELSE IF tok = JNull /\ f.nullable THEN Null
    ELSE IF tok \in {Absent, JNull}
         THEN IF MayBeNull(f) THEN Unset ELSE IF f.card # "one" THEN NoItems ELSE Zero(f)
    ELSE IF f.card # "one"            THEN ReadContainer(f, tok, I)
    ELSE ReadValue(tok, I)

Valid(f, m) == f.required =>
    IF f.card # "one"       THEN m # NoItems
    ELSE IF f.kind = "text" THEN m \notin {Unset, Null, Is("zero")}
    ELSE IF MayBeNull(f)    THEN m # Unset
    ELSE TRUE
===============================================================================
