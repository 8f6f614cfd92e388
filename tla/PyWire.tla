-------------------------------- MODULE PyWire --------------------------------
(***************************************************************************)
(* to_dict, from_dict and validate of generated Python                     *)
(* (internal/genpy/types.go), for one field of a message.                  *)
(***************************************************************************)
EXTENDS WireField

\* writeFieldDecl: None is the unset value of what may be missing; a text form
\* of time is a str whose default is empty.
Memory(f) ==
    IF f.kind = "none"      THEN {Unset}
    ELSE IF f.card # "one"  THEN Collections(f)
    ELSE IF f.nullable      THEN {Unset, Null} \cup (Values(f) \ {Is("null")})
    ELSE IF f.opt \/ f.kind \in {"msg", "oneof", "json"} \/ TimeText(f) THEN {Unset} \cup (Values(f) \ {Is("null")})
    ELSE Values(f)

\* writeClientQueryParams, writePyPathParams.
Parameter(f, m) == ParamToken(f, m)

\* writeToDictFieldValue, writeRepeatedFieldToDict, writeMapFieldToDict: falsy
\* values are left out unless the project emits zeros.
Encode(f, m) ==
    IF f.place # "body"      THEN Parameter(f, m)
    ELSE IF m = Unset        THEN Absent
    ELSE IF m = Null         THEN JNull
    ELSE IF f.kind = "oneof" THEN OneofToken(m[2], JNull)
    ELSE IF m = NoItems /\ ~EmitZero(f) THEN Absent
    ELSE IF f.card # "one"  THEN LET T(v) == ItemToken(f, v) IN Container(f, m, T)
    ELSE IF /\ m = Is("zero") /\ ~f.opt /\ ~EmitZero(f) /\ ~NeedsInt64StringEncoding(f)
            /\ f.kind # "msg" /\ ~TimeText(f) THEN Absent
    ELSE ItemToken(f, m[2])

\* writeFromDictField: "d.get(key) or default" takes every falsy value for a
\* missing one.
Decode(f, tok) ==
    LET I(t) == ReadsEitherForm(f, t) IN
    IF f.kind = "none"                THEN Unset
    ELSE IF f.kind = "oneof"          THEN IF tok \in {Absent, JNull} THEN Unset ELSE ReadOneof(tok, Is("nomsg"))
    ELSE IF f.card # "one"            THEN IF tok \in {Absent, JNull} THEN NoItems ELSE ReadContainer(f, tok, I)
    ELSE IF tok = JNull /\ f.nullable THEN Null
    ELSE IF tok \in {Absent, JNull}
         THEN IF f.opt \/ f.kind \in {"msg", "json"} \/ TimeText(f) THEN Unset ELSE Zero(f)
    ELSE IF f.kind = "json" /\ ~f.opt /\ tok = JAny("falsy") THEN Unset
    ELSE ReadValue(tok, I)

\* writePyFieldValidation: it returns at the first variant of a oneof that is not
\* a message, before it comes to @required.
Valid(f, m) == f.required /\ f.kind # "oneof" =>
    IF f.card # "one" THEN m # NoItems
    ELSE m \notin {Unset, Null} /\ (f.kind = "text" => m # Is("zero"))
===============================================================================
