------------------------------ MODULE OnkCompat ------------------------------
(***************************************************************************)
(* onkt check and onkt compat for one field: what the compiler accepts     *)
(* (internal/onkcompile) and which findings the comparison of two schemas  *)
(* reports (internal/onkcompat/compat.go).                                 *)
(***************************************************************************)
EXTENDS WireField

\* ---- onkt check.

\* nullableIneligibleReason, when it gives none.
NullableEligible(f) ==
    /\ f.opt /\ f.card = "one" /\ ~f.required
    /\ f.kind \notin {"bytes", "oneof"}
    /\ f.kind \in Integers64 => f.enc = "number"
    /\ f.kind \in {"enum", "msg", "time"} => f.enc = ""

\* The @encode case of validateFieldDecoratorType: a list or a map has none,
\* except 64-bit integers as numbers (a list) and dates.
EncodeAllowed(f) ==
    \/ f.enc = ""
    \/ f.enc = "number" /\ f.kind \in Integers64 /\ f.card # "map"
    \/ f.enc = "number" /\ f.kind = "enum" /\ f.card = "one"
    \/ f.enc = "hex" /\ f.kind = "bytes" /\ f.card = "one"
    \/ f.enc = "date" /\ f.kind = "time"
    \/ f.enc = "unix" /\ f.kind = "time" /\ f.card = "one"

\* @required on what always holds a value needs the ? marker.
RequiredAllowed(f) ==
    \/ f.opt \/ f.card = "map" \/ f.kind \in {"text", "msg", "oneof"}
    \/ f.kind = "enum" /\ f.card = "list"

\* isHTTPParameterScalar.
IsHTTPParameterScalar(f) == f.kind \in {"text", "number"} \cup Integers64 /\ f.card # "map"

\* bindQueryFields: what a verb without a body puts in the query by itself.
InferredQuery(f) == f.place = "query" /\ f.card = "one" /\ ~f.alias

\* validateMethodBindings: a parameter is a scalar, and one in the path is always
\* there.  A nullable field cannot carry @query, but it can be inferred.
PlaceAllowed(f) ==
    /\ f.place # "body" => IsHTTPParameterScalar(f)
    /\ f.place = "path" => f.card = "one" /\ ~f.opt
    /\ f.alias => f.place = "query"
    /\ f.nullable /\ f.place = "query" => InferredQuery(f)

\* A map cannot have the ? marker.  A list and a oneof can, and do not here.
Compiles(f) ==
    /\ EncodeAllowed(f)
    /\ PlaceAllowed(f)
    /\ f.nullable => NullableEligible(f)
    /\ f.required => RequiredAllowed(f)
    /\ f.card # "one" \/ f.kind = "oneof" => ~f.opt
    /\ f.kind = "oneof" => f.card = "one"

\* ---- onkt compat.

Finding(what, found) == IF found THEN {what} ELSE {}

IsRequired(f) == ~f.opt \/ f.required

FieldTypeSignature(f) == <<f.kind, f.card>>

\* The decorators other than @required, and the project's settings that the
\* field's JSON depends on.
FieldContractSignature(f) == <<f.enc, EmitZero(f), f.nullable>>

AddedField(new) ==
    Finding("required field was added", "request" \in new.use /\ IsRequired(new))

CompareMessage(old, new) ==
    UNION {Finding("field type, cardinality, or oneof contract changed",
                   FieldTypeSignature(old) # FieldTypeSignature(new)),
           Finding("field validation or JSON mapping changed",
                   FieldContractSignature(old) # FieldContractSignature(new)),
           Finding("field became required",
                   "request" \in new.use /\ ~IsRequired(old) /\ IsRequired(new)),
           Finding("field became optional in a response",
                   "response" \in new.use /\ IsRequired(old) /\ ~IsRequired(new))}

\* A mutant: values of a numbered enum may move.
Bug_PositionsFree(old, new) ==
    Finding("enum value was removed", Range(old.names) \ Range(new.names) # {})

\* compareEnum, addedEnumValues and compareEnumPositions, for an enum of which
\* this field is the only use.
CompareEnum(old, new) ==
    LET before == Range(old.names)
        after  == Range(new.names)
    IN  UNION {Finding("enum value was removed", before \ after # {}),
               Finding("enum value was added to a response enum",
                       "response" \in new.use /\ after \ before # {}),
               Finding("enum value moved",
                       /\ old.enc = "number"
                       /\ \E v \in before \cap after : Ordinal(old, v) # Ordinal(new, v))}

\* routes, compareRoute and methodSignature: the path and the query parameters
\* of the methods that take the message.
CompareRoute(old, new) ==
    Finding("route or query parameters changed",
            <<old.place, old.alias>> # <<new.place, new.alias>>)

CompareField(old, new) ==
    IF old.kind = "none"      THEN AddedField(new)
    ELSE IF new.kind = "none" THEN {"field was removed"}
    ELSE CompareMessage(old, new)
         \cup IF old.kind = "enum" /\ new.kind = "enum" THEN CompareEnum(old, new) ELSE {}

Compare(old, new) == IF old = new THEN {} ELSE CompareField(old, new) \cup CompareRoute(old, new)
===============================================================================
