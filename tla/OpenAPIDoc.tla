----------------------------- MODULE OpenAPIDoc -----------------------------
(***************************************************************************)
(* The schema the OpenAPI document has for one field                       *)
(* (internal/genopenapi/generator.go): the shapes of JSON it allows.       *)
(***************************************************************************)
EXTENDS WireField

\* The JSON type of a token and, for strings and numbers, their form.
Shape(tok) == IF tok[1] \in {"string", "number"} THEN <<tok[1], tok[2]>> ELSE <<tok[1]>>

\* scalarSchema and typeSchemaProxy: a type by itself, without its field.
TypeSchema(kind) ==
    CASE kind = "text"         -> {<<"string", "text">>}
      [] kind = "number"       -> {<<"number", "number">>}
      [] kind \in Integers64   -> {<<"string", "int">>}
      [] kind = "enum"         -> {<<"string", "name">>}
      [] kind \in {"bytes", "time"} -> {<<"string", "">>}
      [] kind = "msg"          -> {<<"object">>}
      [] OTHER                 -> {<<"any">>, <<"null">>}

\* concreteTypeSchema and the item of a list or a map.  The values of a map are
\* described by their type alone, dates apart.
ItemSchema(f) ==
    CASE f.kind = "time" /\ f.enc = "date" -> {<<"string", "date">>}
      [] f.kind = "time" /\ f.enc = "unix" -> {<<"number", "unix">>}
      [] f.kind = "bytes" /\ f.enc = "hex" -> {<<"string", "hex">>}
      [] f.kind \in Integers64 /\ f.card # "map" /\ f.enc = "number" -> {<<"number", "int">>}
      [] NeedsEnumNumberEncoding(f)        -> {<<"number", "index">>}
      [] OTHER                             -> TypeSchema(f.kind)

\* messageSchema: the properties that are listed as required.
Required(f) == f.kind # "none" /\ (~f.opt \/ f.required)

\* pathParameter, queryParameters: a parameter the document says is required, and
\* the texts its schema allows.
ParameterRequired(f) == f.place = "path" \/ f.required

ParameterConforms(f, tok) == \A i \in 2 .. Len(tok) : ParamText(f, tok[i]) # "bad"

\* fieldSchemaProxy and nullableSchema.
Conforms(f, tok) ==
    CASE f.kind = "oneof" -> /\ tok[1] = "oneof"
                             /\ Shape(tok[3]) =
                                  (IF tok[2] = "int" THEN <<"string", "int">> ELSE <<"object">>)
      [] f.card # "one"   -> tok[1] = f.card /\ \A i \in 2 .. Len(tok) : Shape(tok[i]) \in ItemSchema(f)
      [] OTHER            -> Shape(tok) \in ItemSchema(f) \/ (f.nullable /\ tok = JNull)
==============================================================================
