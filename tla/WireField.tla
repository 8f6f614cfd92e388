------------------------------ MODULE WireField ------------------------------
(***************************************************************************)
(* A field of a message, as the compiled schema has it, and the JSON it is *)
(* sent as.  Every generator asks the predicates of this module the same   *)
(* questions (internal/genshared) and then writes an encoder, a decoder    *)
(* and a validator of its own: GoWire, TSWire, PyWire, DartWire, SwiftWire *)
(* and RustWire.                                                           *)
(*                                                                         *)
(* A field is a record                                                     *)
(*   kind      its type: text, number (bool, int32, uint32, float), int64, *)
(*             uint64, enum, bytes, time, json, msg, oneof; "none" is a    *)
(*             field the schema does not have                              *)
(*   card      "one", "list" or "map"                                      *)
(*   enc       its @encode, or "number" for int64_encoding = "number"      *)
(*   opt       the ? marker              nullable  @nullable (| null)      *)
(*   required  @Onkt.required            names     the values of its enum  *)
(*   emit      the project's emit_zero_values                              *)
(*   use       what its message is used in: "request", "response"          *)
(*   place     where a request has it: "body", "query" or "path"           *)
(*   alias     its @query gives the parameter a name of its own            *)
(***************************************************************************)
EXTENDS Naturals, Sequences, Functions

Integers64 == {"int64", "uint64"}

\* ---- What the compiler derives from a field.

EmitZero(f) ==
    /\ f.emit /\ ~f.opt
    /\ \/ f.card = "map"
       \/ f.kind = "msg" /\ f.card = "list"
       \/ f.kind \notin {"msg", "oneof", "time", "json", "none"}

ResponseOnly(f) == f.use = {"response"}

\* The fields a Go server writes whatever they hold, because only responses
\* have them.  A message field here is one whose type never leads back.
AlwaysSent(f) ==
    /\ ResponseOnly(f)
    /\ \/ f.nullable
       \/ f.emit /\ ~f.opt /\ f.card = "one" /\ f.enc = "" /\ f.kind \in {"time", "msg"}

\* ---- The questions of genshared.

NeedsInt64StringEncoding(f) ==
    f.kind \in Integers64 /\ f.card # "map" /\ f.enc # "number"

NeedsEnumNumberEncoding(f) == f.kind = "enum" /\ f.card = "one" /\ f.enc = "number"

\* ---- What a field holds in the memory of a program.

Unset    == <<"unset">>
Null     == <<"null">>
Is(v)    == <<"is", v>>
Items(s) == <<"items">> \o s
NoItems  == Items(<<>>)
Failed   == <<"failed">>

\* "big" needs more than a double holds, "huge" more than an int64 holds.  A
\* oneof holds a 64-bit payload, a message, or the message variant with no message.
ItemValues(f) ==
    CASE f.kind = "int64"  -> {"zero", "val", "big"}
      [] f.kind = "uint64" -> {"zero", "val", "big", "huge"}
      [] f.kind = "enum"   -> Range(f.names)
      [] f.kind = "json"   -> {"null", "falsy", "val"}
      [] f.kind = "oneof"  -> {"int", "msg", "nomsg"}
      [] f.kind = "none"   -> {}
      [] OTHER             -> {"zero", "val"}

\* What a plain field holds when nothing was set.  The zero of a time is no
\* time, which is year one in Go and the epoch or an empty text elsewhere.
ZeroValue(f) == CASE f.kind = "enum" -> f.names[1] [] f.kind = "json" -> "null" [] OTHER -> "zero"
Zero(f)      == Is(ZeroValue(f))

Values(f)     == {Is(v) : v \in ItemValues(f)}
Collections(f) == {NoItems} \cup {Items(<<v>>) : v \in ItemValues(f) \ {"null"}}

TimeText(f) == f.kind = "time" /\ f.enc \in {"", "date"}

\* ---- What is on the wire: a key that is absent, or a JSON value.

Absent       == <<"absent">>
JNull        == <<"null">>
Str(form, v) == <<"string", form, v>>
Num(form, v) == <<"number", form, v>>
Obj(v)       == <<"object", v>>
JAny(v)      == <<"any", v>>

\* A parameter in the query or the path: a text, or one text for each item.
Param(v)  == <<"param", v>>
Params(m) == <<"params">> \o Tail(m)

\* The text of a value, when it has one.
ParamToken(f, m) ==
    IF m \in {Unset, Null, NoItems} THEN Absent
    ELSE IF f.card = "list"         THEN Params(m)
    ELSE Param(m[2])

\* A text that is not one of the numbers is refused where a number is expected.
ParamText(f, v) == IF f.kind = "text" \/ v \in ItemValues(f) THEN v ELSE "bad"

\* An empty segment of a path matches no route.
NoRoute(f, tok) == f.place = "path" /\ f.kind = "text" /\ tok = Param("zero")

\* What a server takes from the texts of a parameter, each read by Item.
ReadParam(f, tok, Item(_)) ==
    LET items == {Item(tok[i]) : i \in 2 .. Len(tok)}
    IN  IF NoRoute(f, tok) \/ "bad" \in items THEN Failed
        ELSE IF f.card = "list" THEN Items([i \in 1 .. Len(tok) - 1 |-> Item(tok[i + 1])])
        ELSE Is(Item(tok[2]))

\* The place of a value in its enum.
Ordinal(f, v) == CHOOSE i \in DOMAIN f.names : f.names[i] = v

\* The JSON of one value: a 64-bit integer is a string unless the field says
\* number or it is the value of a map; a decorated form applies to the field
\* itself and not to the values of a map.
ItemToken(f, v) ==
    CASE f.kind \in Integers64  -> IF NeedsInt64StringEncoding(f) THEN Str("int", v) ELSE Num("int", v)
      [] f.kind = "enum"        -> IF NeedsEnumNumberEncoding(f)
                                   THEN Num("index", Ordinal(f, v))
                                   ELSE Str("name", v)
      [] f.kind = "bytes"       -> Str(IF f.card = "one" THEN f.enc ELSE "", v)
      [] f.kind = "time"        -> IF f.enc = "unix" THEN Num("unix", v) ELSE Str(f.enc, v)
      [] f.kind = "number"      -> Num("number", v)
      [] f.kind = "msg"         -> Obj(v)
      [] f.kind = "json"        -> IF v = "null" THEN JNull ELSE JAny(v)
      [] OTHER                  -> Str("text", v)

\* A oneof is an object with its tag and, under the variant's name, its payload;
\* a 64-bit payload is a string whatever the project says.
OneofToken(v, nomsg) ==
    CASE v = "int" -> <<"oneof", "int", Str("int", "big")>>
      [] v = "msg" -> <<"oneof", "msg", Obj("val")>>
      [] OTHER     -> <<"oneof", "msg", nomsg>>

\* A list or a map with its items, each written by Token.
Container(f, m, Token(_)) == <<f.card>> \o [i \in 1 .. Len(m) - 1 |-> Token(m[i + 1])]

\* ---- Reading back: the value whose JSON this is, or "bad".

Reads(f, tok) ==
    LET matching == {v \in ItemValues(f) : ItemToken(f, v) = tok}
    IN  IF matching = {} THEN "bad" ELSE CHOOSE v \in matching : TRUE

\* Decoders that take a 64-bit integer in either form.
ReadsEitherForm(f, tok) ==
    IF f.kind \in Integers64 /\ Len(tok) = 3 /\ tok[2] = "int" /\ tok[3] \in ItemValues(f)
    THEN tok[3] ELSE Reads(f, tok)

\* A value, or a whole container, through a decoder of items.
ReadValue(tok, Item(_)) == IF Item(tok) = "bad" THEN Failed ELSE Is(Item(tok))

ReadContainer(f, tok, Item(_)) ==
    LET items == [i \in 1 .. Len(tok) - 1 |-> Item(tok[i + 1])]
    IN  IF tok[1] # f.card \/ "bad" \in Range(items) THEN Failed ELSE Items(items)

\* The variant a oneof's tag names; nomsg is how a payload that is absent or
\* null is read.
ReadOneof(tok, nomsg) ==
    IF tok[1] # "oneof" THEN Unset
    ELSE IF tok[2] = "int" THEN Is("int")
    ELSE IF tok[3] = Obj("val") THEN Is("msg") ELSE nomsg
==============================================================================
