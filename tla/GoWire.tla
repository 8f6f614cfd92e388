-------------------------------- MODULE GoWire --------------------------------
(***************************************************************************)
(* The JSON codec and the validator of generated Go                        *)
(* (internal/gengo/appendjson.go, decodejson.go, validate.go), for one     *)
(* field of a message.                                                     *)
(***************************************************************************)
EXTENDS WireField

\* What a Go struct can hold: a plain field always holds a value; a pointer, a
\* message, a oneof and raw JSON may be nil; a nullable field has a Null flag.
Memory(f) ==
    IF f.kind = "none"      THEN {Unset}
    ELSE IF f.card # "one"  THEN Collections(f)
    ELSE IF f.nullable      THEN {Unset, Null} \cup Values(f)
    ELSE IF f.opt \/ f.kind \in {"msg", "oneof", "json"} THEN {Unset} \cup Values(f)
    ELSE Values(f)

\* A mutant: only zeros decide, not the answers that always have the field.
Bug_ZerosOmitted(f, m) == f.kind # "none" /\ m \notin {Unset, NoItems, Zero(f)}

\* fieldCondition: when the key is written.
Written(f, m) ==
    IF f.kind = "none"       THEN FALSE
    ELSE IF f.kind = "oneof" THEN m # Unset
    ELSE IF f.nullable       THEN AlwaysSent(f) \/ m # Unset
    ELSE IF f.card # "one"   THEN EmitZero(f) \/ m # NoItems
    ELSE IF f.opt            THEN m # Unset
    ELSE IF f.kind = "msg"   THEN AlwaysSent(f) \/ m # Unset
    ELSE IF NeedsInt64StringEncoding(f) \/ NeedsEnumNumberEncoding(f) \/ f.kind = "time" THEN TRUE
    ELSE IF f.kind = "json"  THEN m # Unset
    ELSE EmitZero(f) \/ m # Zero(f)

\* writeClientQueryParams, writeClientPathBuildReturning, clientStringifyExpr.
Parameter(f, m) == ParamToken(f, m)

\* fieldBody, mapBody, oneofBody.
Encode(f, m) ==
    IF f.place # "body"                       THEN Parameter(f, m)
    ELSE IF ~Written(f, m)                    THEN Absent
    ELSE IF f.kind = "oneof"                  THEN OneofToken(m[2], Absent)
    ELSE IF f.nullable /\ m \in {Unset, Null} THEN JNull
    ELSE IF f.card # "one"                    THEN LET T(v) == ItemToken(f, v) IN Container(f, m, T)
    ELSE IF m = Unset                         THEN ItemToken(f, "zero")
    ELSE ItemToken(f, m[2])

\* value: an ordinal is not checked against the enum.
Item(f, tok) ==
    IF NeedsEnumNumberEncoding(f) /\ tok[1] = "number" /\ tok[3] \notin DOMAIN f.names
    THEN "unknown" ELSE Reads(f, tok)

\* writePathParamBinding, writeQueryParamBinding: a parameter that is not there
\* leaves the field as it is.
Bind(f, tok) ==
    LET I(v) == ParamText(f, v) IN
    IF tok # Absent         THEN ReadParam(f, tok, I)
    ELSE IF f.card = "list" THEN NoItems
    ELSE IF f.opt           THEN Unset
    ELSE Zero(f)

\* field, nullable, optional, plain, repeated, mapField, oneof.
Decode(f, tok) ==
    LET I(t) == Item(f, t) IN
    IF f.place # "body"             THEN Bind(f, tok)
    ELSE IF f.kind = "none"         THEN Unset
    ELSE IF tok = Absent            THEN IF f.card # "one" THEN NoItems
                                         ELSE IF f.opt \/ f.kind \in {"msg", "oneof", "json"} THEN Unset
                                         ELSE Zero(f)
    ELSE IF f.kind = "oneof"        THEN ReadOneof(tok, Is("nomsg"))
    ELSE IF f.card # "one"          THEN IF tok = JNull THEN NoItems ELSE ReadContainer(f, tok, I)
    ELSE IF tok # JNull             THEN ReadValue(tok, I)
    ELSE IF f.nullable              THEN Null
    ELSE IF f.opt \/ f.kind = "msg" THEN Unset
    ELSE IF f.kind = "enum"         THEN IF NeedsEnumNumberEncoding(f) THEN Zero(f) ELSE Failed
    ELSE Zero(f)

\* requiredRule: whether Validate passes.  A number, a bool or bytes has no
\* rule: its zero is a value.
Valid(f, m) == f.required =>
    IF f.card # "one"       THEN m # NoItems
    ELSE IF f.opt \/ f.kind \in {"msg", "oneof"} THEN m # Unset
    ELSE IF f.kind = "text" THEN m # Zero(f)
    ELSE TRUE
===============================================================================
