-------------------------------- MODULE TSWire --------------------------------
(***************************************************************************)
(* The JSON codec, the types and the validator of generated TypeScript     *)
(* (internal/gents/types.go), for one field of a message.                  *)
(***************************************************************************)
EXTENDS WireField

\* writeField: a property without "?" and without undefined.
TypedRequired(f) == f.required \/ AlwaysSent(f) \/ (EmitZero(f) /\ ResponseOnly(f))

\* A number property holds a double.
Unsafe(f, v) ==
    f.kind \in Integers64 /\ ~NeedsInt64StringEncoding(f) /\ v \in {"big", "huge"}

Memory(f) ==
    LET absent == IF TypedRequired(f) THEN {} ELSE {Unset}
        null   == IF f.nullable THEN {Null} ELSE {}
        safe   == {v \in ItemValues(f) \ {"null", "nomsg"} : ~Unsafe(f, v)}
    IN  IF f.kind = "none"      THEN {Unset}
        ELSE IF f.card # "one"  THEN absent \cup {NoItems} \cup {Items(<<v>>) : v \in safe}
        ELSE absent \cup null \cup {Is(v) : v \in safe}

\* writeClientQueryParams and the path of writeClientMethod: String(value),
\* whatever the value is.
Parameter(f, m) ==
    IF m = Unset /\ f.place = "path"      THEN Param("undefined")
    ELSE IF m = Null                      THEN Param("null")
    ELSE ParamToken(f, m)

\* writeEncodeFunc, encodeExpr, encodeOneofExpr and tsZeroLiteral.
Encode(f, m) ==
    IF f.place # "body"      THEN Parameter(f, m)
    ELSE IF f.kind = "none"  THEN Absent
    ELSE IF m = Unset        THEN IF ~EmitZero(f) THEN Absent
                                  ELSE IF f.card # "one" THEN <<f.card>> ELSE ItemToken(f, ZeroValue(f))
    ELSE IF m = Null         THEN JNull
    ELSE IF f.kind = "oneof" THEN OneofToken(m[2], Absent)
    ELSE IF f.card # "one"   THEN LET T(v) == ItemToken(f, v) IN Container(f, m, T)
    ELSE ItemToken(f, m[2])

\* JSON.parse rounds what a double cannot hold.
Item(f, tok) ==
    LET v == Reads(f, tok) IN IF Unsafe(f, v) THEN "rounded" ELSE v

\* writeServerQueryParams, the path of writeRoute, parseScalar: a 64-bit integer
\* is checked and stays a text, whatever the type of its property.
Bind(f, tok) ==
    LET I(v) == IF f.kind \in Integers64 /\ v \in ItemValues(f) /\ ~NeedsInt64StringEncoding(f)
                THEN "digits" ELSE ParamText(f, v)
    IN  IF tok = Absent THEN Unset ELSE ReadParam(f, tok, I)

\* writeDecodeFunc, decodeExpr, decodeOneofExpr: the value passes through, null
\* and a missing key with it.
Decode(f, tok) ==
    LET I(t) == Item(f, t) IN
    IF f.place # "body"      THEN Bind(f, tok)
    ELSE IF f.kind = "none"  THEN Unset
    ELSE IF f.kind = "oneof" THEN IF tok = Absent THEN Unset ELSE ReadOneof(tok, Is("nomsg"))
    ELSE IF tok = Absent     THEN IF f.nullable /\ AlwaysSent(f) THEN Null ELSE Unset
    ELSE IF tok = JNull      THEN Null
    ELSE IF f.card # "one"   THEN ReadContainer(f, tok, I)
    ELSE ReadValue(tok, I)

\* writeValidateFunc and writeTSFieldChecks: absent and null are one; what is
\* present has its type, a number being a safe integer.
Valid(f, m) ==
    LET present == m \notin {Unset, Null} IN
    /\ m # Failed /\ \A i \in DOMAIN m : m[i] \notin {"rounded", "digits"}
    /\ f.required =>
         /\ present
         /\ f.card # "one" => m # NoItems
         /\ f.kind = "text" /\ f.card = "one" => m # Is("zero")
===============================================================================
