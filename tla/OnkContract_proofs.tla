------------------------- MODULE OnkContract_proofs -------------------------
(* What OnkContract promises for every schema: fields and enums of any     *)
(* number, any change of one, any client and server of the six languages.  *)
(* What a program means by its JSON (Writes) is carried by the JSON to     *)
(* what a reader makes of it (Decodes), language by language; Meaning does *)
(* not tell the two ends apart.  A change onkt compat has no finding for   *)
(* keeps what the JSON carries.                                            *)
EXTENDS OnkContract, TLAPS

-----------------------------------------------------------------------------
(* What onkt compat promises of values, for enums of any size.             *)

\* Two values of an enum have two ordinals.
LEMMA OrdinalsDiffer ==
  ASSUME NEW f, NEW v \in Range(f.names), NEW w \in Range(f.names), Ordinal(f, v) = Ordinal(f, w)
  PROVE  v = w
<1>1. \A u \in Range(f.names) : f.names[Ordinal(f, u)] = u
  BY DEF Range, Ordinal
<1> QED
  BY <1>1

\* Two values of a field have two JSON texts.
LEMMA TokensDiffer ==
  ASSUME NEW f, NEW v \in ItemValues(f), NEW w \in ItemValues(f), ItemToken(f, v) = ItemToken(f, w)
  PROVE  v = w
<1> USE DEF Str, Num, Obj, JAny
<1>1. CASE f.kind = "enum" /\ NeedsEnumNumberEncoding(f)
  <2>1. \A u : ItemToken(f, u) = Num("index", Ordinal(f, u))
    BY <1>1 DEF ItemToken, Integers64
  <2>2. Ordinal(f, v) = Ordinal(f, w)
    BY <2>1
  <2> QED
    BY <1>1, <2>2, OrdinalsDiffer DEF ItemValues
<1>2. CASE f.kind = "enum" /\ ~NeedsEnumNumberEncoding(f)
  BY <1>2 DEF ItemToken, Integers64
<1>3. CASE f.kind \in Integers64
  BY <1>3 DEF ItemToken, Integers64
<1>4. CASE f.kind = "json"
  <2>1. JNull # JAny(v) /\ JNull # JAny(w)
    BY DEF JNull
  <2> QED
    BY <1>4, <2>1 DEF ItemToken, Integers64
<1>5. CASE f.kind \in {"bytes", "number", "msg"}
  BY <1>5 DEF ItemToken, Integers64
<1>6. CASE f.kind = "time"
  BY <1>6 DEF ItemToken, Integers64
<1>7. CASE f.kind \notin Integers64 \cup {"enum", "json", "bytes", "number", "msg", "time"}
  BY <1>7 DEF ItemToken, Integers64
<1> QED
  BY <1>1, <1>2, <1>3, <1>4, <1>5, <1>6, <1>7

\* So the reader of a value finds the one that was written.
LEMMA ReadsBack ==
  ASSUME NEW f, NEW v \in ItemValues(f)
  PROVE  Reads(f, ItemToken(f, v)) = v
<1> DEFINE matching == {u \in ItemValues(f) : ItemToken(f, u) = ItemToken(f, v)}
<1>1. matching = {v}
  BY TokensDiffer
<1>2. (CHOOSE u \in matching : TRUE) = v
  BY <1>1
<1> QED
  BY <1>1, <1>2 DEF Reads

\* A change of a field that compat has no finding for.
Unfound(f, g) == Compare(f, g) = {} /\ f.kind # "none" /\ g.kind # "none" /\ g.use = f.use

LEMMA NothingFound ==
  ASSUME NEW f, NEW g, Unfound(f, g), f # g
  PROVE  /\ f.kind = g.kind /\ f.card = g.card /\ f.enc = g.enc
         /\ f.kind = "enum" =>
              /\ Range(f.names) \subseteq Range(g.names)
              /\ "response" \in g.use => Range(g.names) \subseteq Range(f.names)
              /\ f.enc = "number" =>
                   \A v \in Range(f.names) \cap Range(g.names) : Ordinal(f, v) = Ordinal(g, v)
<1>1. CompareField(f, g) = {}
  BY DEF Unfound, Compare
<1>2. CompareMessage(f, g) = {}
  BY <1>1 DEF CompareField, Unfound
<1>3. \A what, found : Finding(what, found) = {} => ~found
  BY DEF Finding
<1>4. \A s, t : UNION {s, t} = {} => s = {} /\ t = {}
  OBVIOUS
<1>5. /\ Finding("field type, cardinality, or oneof contract changed",
                 FieldTypeSignature(f) # FieldTypeSignature(g)) = {}
      /\ Finding("field validation or JSON mapping changed",
                 FieldContractSignature(f) # FieldContractSignature(g)) = {}
  BY <1>2 DEF CompareMessage
<1>6. f.kind = g.kind /\ f.card = g.card /\ f.enc = g.enc
  BY <1>3, <1>5 DEF FieldTypeSignature, FieldContractSignature
<1>7. ASSUME f.kind = "enum"
      PROVE  /\ Range(f.names) \subseteq Range(g.names)
             /\ "response" \in g.use => Range(g.names) \subseteq Range(f.names)
             /\ f.enc = "number" =>
                  \A v \in Range(f.names) \cap Range(g.names) : Ordinal(f, v) = Ordinal(g, v)
  <2>1. CompareEnum(f, g) = {}
    BY <1>1, <1>6, <1>7 DEF CompareField
  <2>2. /\ Finding("enum value was removed", Range(f.names) \ Range(g.names) # {}) = {}
        /\ Finding("enum value was added to a response enum",
                   "response" \in g.use /\ Range(g.names) \ Range(f.names) # {}) = {}
        /\ Finding("enum value moved",
                   /\ f.enc = "number"
                   /\ \E v \in Range(f.names) \cap Range(g.names) : Ordinal(f, v) # Ordinal(g, v)) = {}
    BY <2>1 DEF CompareEnum
  <2> QED
    BY <1>3, <2>2
<1> QED
  BY <1>6, <1>7

\* Its values keep their JSON.
LEMMA SameTokens ==
  ASSUME NEW f, NEW g, Unfound(f, g), NEW v \in ItemValues(f), v \in ItemValues(g)
  PROVE  ItemToken(f, v) = ItemToken(g, v)
<1>1. CASE f = g
  BY <1>1
<1>2. CASE f # g /\ f.kind = "enum" /\ NeedsEnumNumberEncoding(f)
  <2>1. f.kind = g.kind /\ f.card = g.card /\ f.enc = g.enc /\ f.enc = "number"
    BY <1>2, NothingFound DEF NeedsEnumNumberEncoding
  <2>2. v \in Range(f.names) \cap Range(g.names)
    BY <1>2, <2>1 DEF ItemValues
  <2>3. Ordinal(f, v) = Ordinal(g, v)
    BY <1>2, <2>1, <2>2, NothingFound
  <2>4. /\ ItemToken(f, v) = Num("index", Ordinal(f, v))
        /\ ItemToken(g, v) = Num("index", Ordinal(g, v))
    BY <1>2, <2>1 DEF ItemToken, NeedsEnumNumberEncoding, Integers64
  <2> QED
    BY <2>3, <2>4
<1>3. CASE f # g /\ ~(f.kind = "enum" /\ NeedsEnumNumberEncoding(f))
  <2>1. f.kind = g.kind /\ f.card = g.card /\ f.enc = g.enc
    BY <1>3, NothingFound
  <2> QED
    BY <1>3, <2>1
       DEF ItemToken, NeedsEnumNumberEncoding, NeedsInt64StringEncoding, Integers64
<1> QED
  BY <1>1, <1>2, <1>3

\* None of them goes, and an answer has no new one.
LEMMA SameValues ==
  ASSUME NEW f, NEW g, Unfound(f, g)
  PROVE  /\ ItemValues(f) \subseteq ItemValues(g)
         /\ "response" \in g.use => ItemValues(g) \subseteq ItemValues(f)
<1>1. CASE f = g
  BY <1>1
<1>2. CASE f # g
  <2>1. f.kind = g.kind
    BY <1>2, NothingFound
  <2>2. CASE f.kind = "enum"
    BY <1>2, <2>1, <2>2, NothingFound DEF ItemValues
  <2>3. CASE f.kind # "enum"
    BY <2>1, <2>3 DEF ItemValues
  <2> QED
    BY <2>2, <2>3
<1> QED
  BY <1>1, <1>2

\* Nothing was found in a schema that was released, and its messages are used
\* as they were.
ReleasedInv == new.use = old.use /\ (phase = "released" => Compare(old, new) = {})

LEMMA ReleasedInvariant == Spec => []ReleasedInv
<1>1. Init => ReleasedInv
  BY DEF Init, ReleasedInv
<1>2. ReleasedInv /\ [Next]_vars => ReleasedInv'
  <2> SUFFICES ASSUME ReleasedInv, [Next]_vars PROVE ReleasedInv'
    OBVIOUS
  <2>1. ASSUME NEW f \in Fields, Release(f) PROVE ReleasedInv'
    BY <2>1 DEF Release, ReleasedInv
  <2>2. ASSUME NEW client, NEW server, NEW m, Call(client, server, m) \/ Answer(client, server, m)
        PROVE  ReleasedInv'
    BY <2>2 DEF Call, Answer, ReleasedInv
  <2>3. CASE Handle \/ Read
    BY <2>3 DEF Handle, Read, ReleasedInv
  <2>4. CASE UNCHANGED vars
    BY <2>4 DEF vars, ReleasedInv
  <2> QED
    BY <2>1, <2>2, <2>3, <2>4 DEF Next
<1> QED
  BY <1>1, <1>2, PTL DEF Spec

\* A release that onkt compat has no finding for keeps the JSON of every value,
\* and the values an old client may send or be sent (compareEnum,
\* addedEnumValues, compareEnumPositions), for enums of any size.
THEOREM ValuesKeptAlways == Spec => []ValuesKept
<1>1. ReleasedInv => ValuesKept
  <2> SUFFICES ASSUME ReleasedInv, phase = "released", InBoth
               PROVE  /\ "request" \in old.use =>
                           \A v \in ItemValues(old) : Reads(new, ItemToken(old, v)) = v
                      /\ "response" \in old.use =>
                           \A v \in ItemValues(new) : Reads(old, ItemToken(new, v)) = v
    BY DEF ValuesKept
  <2>1. Unfound(old, new)
    BY DEF ReleasedInv, InBoth, Unfound
  <2>2. ASSUME NEW v \in ItemValues(old) PROVE Reads(new, ItemToken(old, v)) = v
    <3>1. v \in ItemValues(new)
      BY <2>1, SameValues
    <3> QED
      BY <2>1, <3>1, SameTokens, ReadsBack
  <2>3. ASSUME "response" \in old.use, NEW v \in ItemValues(new)
        PROVE  Reads(old, ItemToken(new, v)) = v
    <3>1. v \in ItemValues(old)
      BY <2>1, <2>3, SameValues DEF ReleasedInv
    <3> QED
      BY <2>1, <3>1, SameTokens, ReadsBack
  <2> QED
    BY <2>2, <2>3
<1> QED
  BY <1>1, ReleasedInvariant, PTL

-----------------------------------------------------------------------------
(* What a program holds, and the JSON it is sent as.                       *)

\* What is held: nothing, null, a value, or a list or a map of one or none.
LEMMA HeldApart ==
  /\ \A v : Items(<<v>>) = <<"items", v>>
  /\ NoItems = <<"items">>
  /\ Unset # Null /\ Unset # Failed /\ Null # Failed /\ Unset # NoItems /\ Null # NoItems
  /\ Failed # NoItems
  /\ \A v, w : /\ Is(v) \notin {Unset, Null, Failed, NoItems} /\ Items(<<v>>) \notin {Unset, Null, Failed, NoItems}
               /\ Is(v) # Items(<<w>>)
               /\ Is(v) = Is(w) => v = w
               /\ Items(<<v>>) = Items(<<w>>) => v = w
<1>1. \A v : <<"items", v>> = <<"items">> \o <<v>>
  OBVIOUS
<1>2. <<"items">> \o <<>> = <<"items">>
  OBVIOUS
<1>3. \A v : Items(<<v>>) = <<"items", v>>
  BY <1>1 DEF Items
<1>4. NoItems = <<"items">>
  BY <1>2 DEF NoItems, Items
<1>5. /\ Unset # Null /\ Unset # Failed /\ Null # Failed /\ Unset # NoItems /\ Null # NoItems
      /\ Failed # NoItems
  BY <1>4 DEF Unset, Null, Failed
<1>6. ASSUME NEW v, NEW w
      PROVE  /\ Is(v) \notin {Unset, Null, Failed, NoItems}
             /\ Items(<<v>>) \notin {Unset, Null, Failed, NoItems}
             /\ Is(v) # Items(<<w>>)
             /\ Is(v) = Is(w) => v = w
             /\ Items(<<v>>) = Items(<<w>>) => v = w
  BY <1>3, <1>4 DEF Unset, Null, Failed, Is
<1> QED
  BY <1>3, <1>4, <1>5, <1>6

LEMMA HeldItems ==
  /\ \A v : Is(v)[2] = v /\ Is(v)[1] = "is" /\ DOMAIN Is(v) = 1..2
  /\ \A v : Items(<<v>>)[2] = v /\ Items(<<v>>)[1] = "items" /\ Len(Items(<<v>>)) = 2
            /\ DOMAIN Items(<<v>>) = 1..2 /\ Tail(Items(<<v>>)) = <<v>>
  /\ Len(NoItems) = 1 /\ DOMAIN NoItems = 1..1 /\ NoItems[1] = "items"
<1>1. \A v : Items(<<v>>) = <<"items", v>>
  BY HeldApart
<1>2. NoItems = <<"items">>
  BY HeldApart
<1>3. \A v : Tail(<<"items", v>>) = <<v>>
  OBVIOUS
<1>4. \A v : Is(v)[2] = v /\ Is(v)[1] = "is" /\ DOMAIN Is(v) = 1..2
  BY DEF Is
<1>5. ASSUME NEW v
      PROVE  /\ Items(<<v>>)[2] = v /\ Items(<<v>>)[1] = "items" /\ Len(Items(<<v>>)) = 2
             /\ DOMAIN Items(<<v>>) = 1..2 /\ Tail(Items(<<v>>)) = <<v>>
  <2> HIDE DEF Items
  <2>1. Items(<<v>>) = <<"items", v>> /\ Tail(<<"items", v>>) = <<v>>
    BY <1>1, <1>3
  <2>2. <<"items", v>>[2] = v /\ <<"items", v>>[1] = "items" /\ Len(<<"items", v>>) = 2 /\ DOMAIN <<"items", v>> = 1..2
    OBVIOUS
  <2> QED
    BY <2>1, <2>2
<1>6. Len(NoItems) = 1 /\ DOMAIN NoItems = 1..1 /\ NoItems[1] = "items"
  <2>1. Len(<<"items">>) = 1 /\ DOMAIN <<"items">> = 1..1 /\ <<"items">>[1] = "items"
    OBVIOUS
  <2> QED
    BY <1>2, <2>1
<1> QED
  BY <1>4, <1>5, <1>6

\* The JSON of a value is a text of its own: only the null of raw JSON is null.
LEMMA TokenShape ==
  ASSUME NEW f, NEW v
  PROVE  /\ ItemToken(f, v) # Absent
         /\ ItemToken(f, v)[1] \in {"string", "number", "object", "any", "null"}
         /\ ItemToken(f, v) = JNull <=> f.kind = "json" /\ v = "null"
<1> USE DEF ItemToken, Str, Num, Obj, JAny, JNull, Absent, Integers64
<1>1. CASE f.kind = "enum" /\ NeedsEnumNumberEncoding(f)
  <2>1. \E i : ItemToken(f, v) = <<"number", "index", i>>
    BY <1>1
  <2> HIDE DEF ItemToken
  <2> QED
    BY <1>1, <2>1
<1>2. CASE f.kind = "enum" /\ ~NeedsEnumNumberEncoding(f)
  BY <1>2
<1>3. CASE f.kind \in Integers64
  BY <1>3
<1>4. CASE f.kind = "json"
  BY <1>4
<1>5. CASE f.kind \in {"bytes", "number", "msg", "time"}
  BY <1>5
<1>6. CASE f.kind \notin Integers64 \cup {"enum", "json", "bytes", "number", "msg", "time"}
  BY <1>6
<1> QED
  BY <1>1, <1>2, <1>3, <1>4, <1>5, <1>6

LEMMA WireApart ==
  /\ Absent # JNull /\ Absent[1] = "absent" /\ JNull[1] = "null"
  /\ \A v, n : OneofToken(v, n)[1] = "oneof" /\ OneofToken(v, n) \notin {Absent, JNull}
BY DEF Absent, JNull, OneofToken

-----------------------------------------------------------------------------
(* The six modules use one WireField: an operator of it is the same one in *)
(* each of them.                                                           *)

LEMMA GoSame ==
  /\ Go!Unset = Unset /\ Go!Null = Null /\ Go!NoItems = NoItems /\ Go!Failed = Failed
  /\ Go!Absent = Absent /\ Go!JNull = JNull /\ Go!Integers64 = Integers64
  /\ \A v : /\ Go!Is(v) = Is(v) /\ Go!Items(v) = Items(v) /\ Go!Param(v) = Param(v)
            /\ Go!Params(v) = Params(v) /\ Go!JAny(v) = JAny(v) /\ Go!Obj(v) = Obj(v)
            /\ Go!Range(v) = Range(v)
  /\ \A t, v : /\ Go!Num(t, v) = Num(t, v)
               /\ Go!OneofToken(v, t) = OneofToken(v, t) /\ Go!ReadOneof(t, v) = ReadOneof(t, v)
  /\ \A f : /\ Go!EmitZero(f) = EmitZero(f) /\ Go!AlwaysSent(f) = AlwaysSent(f)
            /\ Go!NeedsInt64StringEncoding(f) = NeedsInt64StringEncoding(f)
            /\ Go!NeedsEnumNumberEncoding(f) = NeedsEnumNumberEncoding(f)
            /\ Go!TimeText(f) = TimeText(f) /\ Go!ItemValues(f) = ItemValues(f)
            /\ Go!Values(f) = Values(f) /\ Go!Collections(f) = Collections(f)
            /\ Go!ZeroValue(f) = ZeroValue(f) /\ Go!Zero(f) = Zero(f)
  /\ \A f, v : /\ Go!ItemToken(f, v) = ItemToken(f, v) /\ Go!Reads(f, v) = Reads(f, v)
               /\ Go!ReadsEitherForm(f, v) = ReadsEitherForm(f, v)
               /\ Go!ParamToken(f, v) = ParamToken(f, v) /\ Go!ParamText(f, v) = ParamText(f, v)
               /\ Go!NoRoute(f, v) = NoRoute(f, v)
<1>1. /\ Go!Unset = Unset /\ Go!Null = Null /\ Go!NoItems = NoItems /\ Go!Failed = Failed
      /\ Go!Absent = Absent /\ Go!JNull = JNull /\ Go!Integers64 = Integers64
  BY DEF Go!Unset, Go!Null, Go!NoItems, Go!Items, Go!Failed, Go!Absent, Go!JNull, Go!Integers64,
     Unset, Null, NoItems, Items, Failed, Absent, JNull, Integers64
<1>2. \A t, v : /\ Go!Is(v) = Is(v) /\ Go!Items(v) = Items(v) /\ Go!Param(v) = Param(v)
                /\ Go!Params(v) = Params(v) /\ Go!JAny(v) = JAny(v) /\ Go!Obj(v) = Obj(v)
                /\ Go!Num(t, v) = Num(t, v) /\ Go!Str(t, v) = Str(t, v) /\ Go!Range(v) = Range(v)
  BY DEF Go!Is, Go!Items, Go!Param, Go!Params, Go!JAny, Go!Obj, Go!Num, Go!Str, Go!Range,
     Is, Items, Param, Params, JAny, Obj, Num, Str, Range
<1>3. \A t, v : Go!OneofToken(v, t) = OneofToken(v, t) /\ Go!ReadOneof(t, v) = ReadOneof(t, v)
  BY <1>1, <1>2 DEF Go!OneofToken, OneofToken, Go!ReadOneof, ReadOneof
<1>4. \A f : Go!EmitZero(f) = EmitZero(f) /\ Go!AlwaysSent(f) = AlwaysSent(f)
  BY DEF Go!EmitZero, EmitZero, Go!AlwaysSent, AlwaysSent, Go!ResponseOnly, ResponseOnly
<1>5. \A f : /\ Go!NeedsInt64StringEncoding(f) = NeedsInt64StringEncoding(f)
             /\ Go!NeedsEnumNumberEncoding(f) = NeedsEnumNumberEncoding(f)
             /\ Go!TimeText(f) = TimeText(f)
  BY <1>1 DEF Go!NeedsInt64StringEncoding, NeedsInt64StringEncoding,
     Go!NeedsEnumNumberEncoding, NeedsEnumNumberEncoding, Go!TimeText, TimeText
<1>6. \A f : Go!ItemValues(f) = ItemValues(f)
  BY DEF Go!ItemValues, ItemValues
<1>7. \A f : Go!ZeroValue(f) = ZeroValue(f) /\ Go!Zero(f) = Zero(f)
  BY <1>2 DEF Go!ZeroValue, ZeroValue, Go!Zero, Zero
<1>8. \A f : Go!Values(f) = Values(f) /\ Go!Collections(f) = Collections(f)
  BY <1>1, <1>2, <1>6 DEF Go!Values, Values, Go!Collections, Collections
<1>9. ASSUME NEW f, NEW v PROVE Go!ItemToken(f, v) = ItemToken(f, v)
  <2>1. Go!Ordinal(f, v) = Ordinal(f, v)
    BY Zenon DEF Go!Ordinal, Ordinal
  <2> QED
    BY <1>1, <1>2, <1>5, <2>1 DEF Go!ItemToken, ItemToken
<1>10. ASSUME NEW f, NEW v PROVE Go!Reads(f, v) = Reads(f, v)
  <2> DEFINE There == {u \in Go!ItemValues(f) : Go!ItemToken(f, u) = v}
             Here == {u \in ItemValues(f) : ItemToken(f, u) = v}
  <2>1. There = Here
    BY <1>6, <1>9
  <2>2. Go!Reads(f, v) = IF There = {} THEN "bad" ELSE CHOOSE w \in There : TRUE
    BY Zenon DEF Go!Reads
  <2>3. Reads(f, v) = IF Here = {} THEN "bad" ELSE CHOOSE w \in Here : TRUE
    BY Zenon DEF Reads
  <2> HIDE DEF There, Here
  <2>4. (CHOOSE w \in There : TRUE) = (CHOOSE w \in Here : TRUE)
    BY <2>1
  <2> QED
    BY <2>1, <2>2, <2>3, <2>4
<1>11. \A f, v : /\ Go!ReadsEitherForm(f, v) = ReadsEitherForm(f, v)
                 /\ Go!ParamToken(f, v) = ParamToken(f, v) /\ Go!ParamText(f, v) = ParamText(f, v)
                 /\ Go!NoRoute(f, v) = NoRoute(f, v)
  BY <1>1, <1>2, <1>6, <1>10
     DEF Go!ReadsEitherForm, ReadsEitherForm, Go!ParamToken, ParamToken, Go!ParamText, ParamText,
         Go!NoRoute, NoRoute
<1> QED
  BY <1>1, <1>2, <1>3, <1>4, <1>5, <1>6, <1>7, <1>8, <1>9, <1>10, <1>11

LEMMA TSSame ==
  /\ TS!Unset = Unset /\ TS!Null = Null /\ TS!NoItems = NoItems /\ TS!Failed = Failed
  /\ TS!Absent = Absent /\ TS!JNull = JNull /\ TS!Integers64 = Integers64
  /\ \A v : /\ TS!Is(v) = Is(v) /\ TS!Items(v) = Items(v) /\ TS!Param(v) = Param(v)
            /\ TS!Params(v) = Params(v) /\ TS!JAny(v) = JAny(v) /\ TS!Obj(v) = Obj(v)
            /\ TS!Range(v) = Range(v)
  /\ \A t, v : /\ TS!Num(t, v) = Num(t, v)
               /\ TS!OneofToken(v, t) = OneofToken(v, t) /\ TS!ReadOneof(t, v) = ReadOneof(t, v)
  /\ \A f : /\ TS!EmitZero(f) = EmitZero(f) /\ TS!AlwaysSent(f) = AlwaysSent(f)
            /\ TS!NeedsInt64StringEncoding(f) = NeedsInt64StringEncoding(f)
            /\ TS!NeedsEnumNumberEncoding(f) = NeedsEnumNumberEncoding(f)
            /\ TS!TimeText(f) = TimeText(f) /\ TS!ItemValues(f) = ItemValues(f)
            /\ TS!Values(f) = Values(f) /\ TS!Collections(f) = Collections(f)
            /\ TS!ZeroValue(f) = ZeroValue(f) /\ TS!Zero(f) = Zero(f)
  /\ \A f, v : /\ TS!ItemToken(f, v) = ItemToken(f, v) /\ TS!Reads(f, v) = Reads(f, v)
               /\ TS!ReadsEitherForm(f, v) = ReadsEitherForm(f, v)
               /\ TS!ParamToken(f, v) = ParamToken(f, v) /\ TS!ParamText(f, v) = ParamText(f, v)
               /\ TS!NoRoute(f, v) = NoRoute(f, v)
<1>1. /\ TS!Unset = Unset /\ TS!Null = Null /\ TS!NoItems = NoItems /\ TS!Failed = Failed
      /\ TS!Absent = Absent /\ TS!JNull = JNull /\ TS!Integers64 = Integers64
  BY DEF TS!Unset, TS!Null, TS!NoItems, TS!Items, TS!Failed, TS!Absent, TS!JNull, TS!Integers64,
     Unset, Null, NoItems, Items, Failed, Absent, JNull, Integers64
<1>2. \A t, v : /\ TS!Is(v) = Is(v) /\ TS!Items(v) = Items(v) /\ TS!Param(v) = Param(v)
                /\ TS!Params(v) = Params(v) /\ TS!JAny(v) = JAny(v) /\ TS!Obj(v) = Obj(v)
                /\ TS!Num(t, v) = Num(t, v) /\ TS!Str(t, v) = Str(t, v) /\ TS!Range(v) = Range(v)
  BY DEF TS!Is, TS!Items, TS!Param, TS!Params, TS!JAny, TS!Obj, TS!Num, TS!Str, TS!Range,
     Is, Items, Param, Params, JAny, Obj, Num, Str, Range
<1>3. \A t, v : TS!OneofToken(v, t) = OneofToken(v, t) /\ TS!ReadOneof(t, v) = ReadOneof(t, v)
  BY <1>1, <1>2 DEF TS!OneofToken, OneofToken, TS!ReadOneof, ReadOneof
<1>4. \A f : TS!EmitZero(f) = EmitZero(f) /\ TS!AlwaysSent(f) = AlwaysSent(f)
  BY DEF TS!EmitZero, EmitZero, TS!AlwaysSent, AlwaysSent, TS!ResponseOnly, ResponseOnly
<1>5. \A f : /\ TS!NeedsInt64StringEncoding(f) = NeedsInt64StringEncoding(f)
             /\ TS!NeedsEnumNumberEncoding(f) = NeedsEnumNumberEncoding(f)
             /\ TS!TimeText(f) = TimeText(f)
  BY <1>1 DEF TS!NeedsInt64StringEncoding, NeedsInt64StringEncoding,
     TS!NeedsEnumNumberEncoding, NeedsEnumNumberEncoding, TS!TimeText, TimeText
<1>6. \A f : TS!ItemValues(f) = ItemValues(f)
  BY DEF TS!ItemValues, ItemValues
<1>7. \A f : TS!ZeroValue(f) = ZeroValue(f) /\ TS!Zero(f) = Zero(f)
  BY <1>2 DEF TS!ZeroValue, ZeroValue, TS!Zero, Zero
<1>8. \A f : TS!Values(f) = Values(f) /\ TS!Collections(f) = Collections(f)
  BY <1>1, <1>2, <1>6 DEF TS!Values, Values, TS!Collections, Collections
<1>9. ASSUME NEW f, NEW v PROVE TS!ItemToken(f, v) = ItemToken(f, v)
  <2>1. TS!Ordinal(f, v) = Ordinal(f, v)
    BY Zenon DEF TS!Ordinal, Ordinal
  <2> QED
    BY <1>1, <1>2, <1>5, <2>1 DEF TS!ItemToken, ItemToken
<1>10. ASSUME NEW f, NEW v PROVE TS!Reads(f, v) = Reads(f, v)
  <2> DEFINE There == {u \in TS!ItemValues(f) : TS!ItemToken(f, u) = v}
             Here == {u \in ItemValues(f) : ItemToken(f, u) = v}
  <2>1. There = Here
    BY <1>6, <1>9
  <2>2. TS!Reads(f, v) = IF There = {} THEN "bad" ELSE CHOOSE w \in There : TRUE
    BY Zenon DEF TS!Reads
  <2>3. Reads(f, v) = IF Here = {} THEN "bad" ELSE CHOOSE w \in Here : TRUE
    BY Zenon DEF Reads
  <2> HIDE DEF There, Here
  <2>4. (CHOOSE w \in There : TRUE) = (CHOOSE w \in Here : TRUE)
    BY <2>1
  <2> QED
    BY <2>1, <2>2, <2>3, <2>4
<1>11. \A f, v : /\ TS!ReadsEitherForm(f, v) = ReadsEitherForm(f, v)
                 /\ TS!ParamToken(f, v) = ParamToken(f, v) /\ TS!ParamText(f, v) = ParamText(f, v)
                 /\ TS!NoRoute(f, v) = NoRoute(f, v)
  BY <1>1, <1>2, <1>6, <1>10
     DEF TS!ReadsEitherForm, ReadsEitherForm, TS!ParamToken, ParamToken, TS!ParamText, ParamText,
         TS!NoRoute, NoRoute
<1> QED
  BY <1>1, <1>2, <1>3, <1>4, <1>5, <1>6, <1>7, <1>8, <1>9, <1>10, <1>11

LEMMA PythonSame ==
  /\ Python!Unset = Unset /\ Python!Null = Null /\ Python!NoItems = NoItems /\ Python!Failed = Failed
  /\ Python!Absent = Absent /\ Python!JNull = JNull /\ Python!Integers64 = Integers64
  /\ \A v : /\ Python!Is(v) = Is(v) /\ Python!Items(v) = Items(v) /\ Python!Param(v) = Param(v)
            /\ Python!Params(v) = Params(v) /\ Python!JAny(v) = JAny(v) /\ Python!Obj(v) = Obj(v)
            /\ Python!Range(v) = Range(v)
  /\ \A t, v : /\ Python!Num(t, v) = Num(t, v)
               /\ Python!OneofToken(v, t) = OneofToken(v, t) /\ Python!ReadOneof(t, v) = ReadOneof(t, v)
  /\ \A f : /\ Python!EmitZero(f) = EmitZero(f) /\ Python!AlwaysSent(f) = AlwaysSent(f)
            /\ Python!NeedsInt64StringEncoding(f) = NeedsInt64StringEncoding(f)
            /\ Python!NeedsEnumNumberEncoding(f) = NeedsEnumNumberEncoding(f)
            /\ Python!TimeText(f) = TimeText(f) /\ Python!ItemValues(f) = ItemValues(f)
            /\ Python!Values(f) = Values(f) /\ Python!Collections(f) = Collections(f)
            /\ Python!ZeroValue(f) = ZeroValue(f) /\ Python!Zero(f) = Zero(f)
  /\ \A f, v : /\ Python!ItemToken(f, v) = ItemToken(f, v) /\ Python!Reads(f, v) = Reads(f, v)
               /\ Python!ReadsEitherForm(f, v) = ReadsEitherForm(f, v)
               /\ Python!ParamToken(f, v) = ParamToken(f, v) /\ Python!ParamText(f, v) = ParamText(f, v)
               /\ Python!NoRoute(f, v) = NoRoute(f, v)
<1>1. /\ Python!Unset = Unset /\ Python!Null = Null /\ Python!NoItems = NoItems /\ Python!Failed = Failed
      /\ Python!Absent = Absent /\ Python!JNull = JNull /\ Python!Integers64 = Integers64
  BY DEF Python!Unset, Python!Null, Python!NoItems, Python!Items, Python!Failed, Python!Absent, Python!JNull, Python!Integers64,
     Unset, Null, NoItems, Items, Failed, Absent, JNull, Integers64
<1>2. \A t, v : /\ Python!Is(v) = Is(v) /\ Python!Items(v) = Items(v) /\ Python!Param(v) = Param(v)
                /\ Python!Params(v) = Params(v) /\ Python!JAny(v) = JAny(v) /\ Python!Obj(v) = Obj(v)
                /\ Python!Num(t, v) = Num(t, v) /\ Python!Str(t, v) = Str(t, v) /\ Python!Range(v) = Range(v)
  BY DEF Python!Is, Python!Items, Python!Param, Python!Params, Python!JAny, Python!Obj, Python!Num, Python!Str, Python!Range,
     Is, Items, Param, Params, JAny, Obj, Num, Str, Range
<1>3. \A t, v : Python!OneofToken(v, t) = OneofToken(v, t) /\ Python!ReadOneof(t, v) = ReadOneof(t, v)
  BY <1>1, <1>2 DEF Python!OneofToken, OneofToken, Python!ReadOneof, ReadOneof
<1>4. \A f : Python!EmitZero(f) = EmitZero(f) /\ Python!AlwaysSent(f) = AlwaysSent(f)
  BY DEF Python!EmitZero, EmitZero, Python!AlwaysSent, AlwaysSent, Python!ResponseOnly, ResponseOnly
<1>5. \A f : /\ Python!NeedsInt64StringEncoding(f) = NeedsInt64StringEncoding(f)
             /\ Python!NeedsEnumNumberEncoding(f) = NeedsEnumNumberEncoding(f)
             /\ Python!TimeText(f) = TimeText(f)
  BY <1>1 DEF Python!NeedsInt64StringEncoding, NeedsInt64StringEncoding,
     Python!NeedsEnumNumberEncoding, NeedsEnumNumberEncoding, Python!TimeText, TimeText
<1>6. \A f : Python!ItemValues(f) = ItemValues(f)
  BY DEF Python!ItemValues, ItemValues
<1>7. \A f : Python!ZeroValue(f) = ZeroValue(f) /\ Python!Zero(f) = Zero(f)
  BY <1>2 DEF Python!ZeroValue, ZeroValue, Python!Zero, Zero
<1>8. \A f : Python!Values(f) = Values(f) /\ Python!Collections(f) = Collections(f)
  BY <1>1, <1>2, <1>6 DEF Python!Values, Values, Python!Collections, Collections
<1>9. ASSUME NEW f, NEW v PROVE Python!ItemToken(f, v) = ItemToken(f, v)
  <2>1. Python!Ordinal(f, v) = Ordinal(f, v)
    BY Zenon DEF Python!Ordinal, Ordinal
  <2> QED
    BY <1>1, <1>2, <1>5, <2>1 DEF Python!ItemToken, ItemToken
<1>10. ASSUME NEW f, NEW v PROVE Python!Reads(f, v) = Reads(f, v)
  <2> DEFINE There == {u \in Python!ItemValues(f) : Python!ItemToken(f, u) = v}
             Here == {u \in ItemValues(f) : ItemToken(f, u) = v}
  <2>1. There = Here
    BY <1>6, <1>9
  <2>2. Python!Reads(f, v) = IF There = {} THEN "bad" ELSE CHOOSE w \in There : TRUE
    BY Zenon DEF Python!Reads
  <2>3. Reads(f, v) = IF Here = {} THEN "bad" ELSE CHOOSE w \in Here : TRUE
    BY Zenon DEF Reads
  <2> HIDE DEF There, Here
  <2>4. (CHOOSE w \in There : TRUE) = (CHOOSE w \in Here : TRUE)
    BY <2>1
  <2> QED
    BY <2>1, <2>2, <2>3, <2>4
<1>11. \A f, v : /\ Python!ReadsEitherForm(f, v) = ReadsEitherForm(f, v)
                 /\ Python!ParamToken(f, v) = ParamToken(f, v) /\ Python!ParamText(f, v) = ParamText(f, v)
                 /\ Python!NoRoute(f, v) = NoRoute(f, v)
  BY <1>1, <1>2, <1>6, <1>10
     DEF Python!ReadsEitherForm, ReadsEitherForm, Python!ParamToken, ParamToken, Python!ParamText, ParamText,
         Python!NoRoute, NoRoute
<1> QED
  BY <1>1, <1>2, <1>3, <1>4, <1>5, <1>6, <1>7, <1>8, <1>9, <1>10, <1>11

LEMMA DartSame ==
  /\ Dart!Unset = Unset /\ Dart!Null = Null /\ Dart!NoItems = NoItems /\ Dart!Failed = Failed
  /\ Dart!Absent = Absent /\ Dart!JNull = JNull /\ Dart!Integers64 = Integers64
  /\ \A v : /\ Dart!Is(v) = Is(v) /\ Dart!Items(v) = Items(v) /\ Dart!Param(v) = Param(v)
            /\ Dart!Params(v) = Params(v) /\ Dart!JAny(v) = JAny(v) /\ Dart!Obj(v) = Obj(v)
            /\ Dart!Range(v) = Range(v)
  /\ \A t, v : /\ Dart!Num(t, v) = Num(t, v)
               /\ Dart!OneofToken(v, t) = OneofToken(v, t) /\ Dart!ReadOneof(t, v) = ReadOneof(t, v)
  /\ \A f : /\ Dart!EmitZero(f) = EmitZero(f) /\ Dart!AlwaysSent(f) = AlwaysSent(f)
            /\ Dart!NeedsInt64StringEncoding(f) = NeedsInt64StringEncoding(f)
            /\ Dart!NeedsEnumNumberEncoding(f) = NeedsEnumNumberEncoding(f)
            /\ Dart!TimeText(f) = TimeText(f) /\ Dart!ItemValues(f) = ItemValues(f)
            /\ Dart!Values(f) = Values(f) /\ Dart!Collections(f) = Collections(f)
            /\ Dart!ZeroValue(f) = ZeroValue(f) /\ Dart!Zero(f) = Zero(f)
  /\ \A f, v : /\ Dart!ItemToken(f, v) = ItemToken(f, v) /\ Dart!Reads(f, v) = Reads(f, v)
               /\ Dart!ReadsEitherForm(f, v) = ReadsEitherForm(f, v)
               /\ Dart!ParamToken(f, v) = ParamToken(f, v) /\ Dart!ParamText(f, v) = ParamText(f, v)
               /\ Dart!NoRoute(f, v) = NoRoute(f, v)
<1>1. /\ Dart!Unset = Unset /\ Dart!Null = Null /\ Dart!NoItems = NoItems /\ Dart!Failed = Failed
      /\ Dart!Absent = Absent /\ Dart!JNull = JNull /\ Dart!Integers64 = Integers64
  BY DEF Dart!Unset, Dart!Null, Dart!NoItems, Dart!Items, Dart!Failed, Dart!Absent, Dart!JNull, Dart!Integers64,
     Unset, Null, NoItems, Items, Failed, Absent, JNull, Integers64
<1>2. \A t, v : /\ Dart!Is(v) = Is(v) /\ Dart!Items(v) = Items(v) /\ Dart!Param(v) = Param(v)
                /\ Dart!Params(v) = Params(v) /\ Dart!JAny(v) = JAny(v) /\ Dart!Obj(v) = Obj(v)
                /\ Dart!Num(t, v) = Num(t, v) /\ Dart!Str(t, v) = Str(t, v) /\ Dart!Range(v) = Range(v)
  BY DEF Dart!Is, Dart!Items, Dart!Param, Dart!Params, Dart!JAny, Dart!Obj, Dart!Num, Dart!Str, Dart!Range,
     Is, Items, Param, Params, JAny, Obj, Num, Str, Range
<1>3. \A t, v : Dart!OneofToken(v, t) = OneofToken(v, t) /\ Dart!ReadOneof(t, v) = ReadOneof(t, v)
  BY <1>1, <1>2 DEF Dart!OneofToken, OneofToken, Dart!ReadOneof, ReadOneof
<1>4. \A f : Dart!EmitZero(f) = EmitZero(f) /\ Dart!AlwaysSent(f) = AlwaysSent(f)
  BY DEF Dart!EmitZero, EmitZero, Dart!AlwaysSent, AlwaysSent, Dart!ResponseOnly, ResponseOnly
<1>5. \A f : /\ Dart!NeedsInt64StringEncoding(f) = NeedsInt64StringEncoding(f)
             /\ Dart!NeedsEnumNumberEncoding(f) = NeedsEnumNumberEncoding(f)
             /\ Dart!TimeText(f) = TimeText(f)
  BY <1>1 DEF Dart!NeedsInt64StringEncoding, NeedsInt64StringEncoding,
     Dart!NeedsEnumNumberEncoding, NeedsEnumNumberEncoding, Dart!TimeText, TimeText
<1>6. \A f : Dart!ItemValues(f) = ItemValues(f)
  BY DEF Dart!ItemValues, ItemValues
<1>7. \A f : Dart!ZeroValue(f) = ZeroValue(f) /\ Dart!Zero(f) = Zero(f)
  BY <1>2 DEF Dart!ZeroValue, ZeroValue, Dart!Zero, Zero
<1>8. \A f : Dart!Values(f) = Values(f) /\ Dart!Collections(f) = Collections(f)
  BY <1>1, <1>2, <1>6 DEF Dart!Values, Values, Dart!Collections, Collections
<1>9. ASSUME NEW f, NEW v PROVE Dart!ItemToken(f, v) = ItemToken(f, v)
  <2>1. Dart!Ordinal(f, v) = Ordinal(f, v)
    BY Zenon DEF Dart!Ordinal, Ordinal
  <2> QED
    BY <1>1, <1>2, <1>5, <2>1 DEF Dart!ItemToken, ItemToken
<1>10. ASSUME NEW f, NEW v PROVE Dart!Reads(f, v) = Reads(f, v)
  <2> DEFINE There == {u \in Dart!ItemValues(f) : Dart!ItemToken(f, u) = v}
             Here == {u \in ItemValues(f) : ItemToken(f, u) = v}
  <2>1. There = Here
    BY <1>6, <1>9
  <2>2. Dart!Reads(f, v) = IF There = {} THEN "bad" ELSE CHOOSE w \in There : TRUE
    BY Zenon DEF Dart!Reads
  <2>3. Reads(f, v) = IF Here = {} THEN "bad" ELSE CHOOSE w \in Here : TRUE
    BY Zenon DEF Reads
  <2> HIDE DEF There, Here
  <2>4. (CHOOSE w \in There : TRUE) = (CHOOSE w \in Here : TRUE)
    BY <2>1
  <2> QED
    BY <2>1, <2>2, <2>3, <2>4
<1>11. \A f, v : /\ Dart!ReadsEitherForm(f, v) = ReadsEitherForm(f, v)
                 /\ Dart!ParamToken(f, v) = ParamToken(f, v) /\ Dart!ParamText(f, v) = ParamText(f, v)
                 /\ Dart!NoRoute(f, v) = NoRoute(f, v)
  BY <1>1, <1>2, <1>6, <1>10
     DEF Dart!ReadsEitherForm, ReadsEitherForm, Dart!ParamToken, ParamToken, Dart!ParamText, ParamText,
         Dart!NoRoute, NoRoute
<1> QED
  BY <1>1, <1>2, <1>3, <1>4, <1>5, <1>6, <1>7, <1>8, <1>9, <1>10, <1>11

LEMMA SwiftSame ==
  /\ Swift!Unset = Unset /\ Swift!Null = Null /\ Swift!NoItems = NoItems /\ Swift!Failed = Failed
  /\ Swift!Absent = Absent /\ Swift!JNull = JNull /\ Swift!Integers64 = Integers64
  /\ \A v : /\ Swift!Is(v) = Is(v) /\ Swift!Items(v) = Items(v) /\ Swift!Param(v) = Param(v)
            /\ Swift!Params(v) = Params(v) /\ Swift!JAny(v) = JAny(v) /\ Swift!Obj(v) = Obj(v)
            /\ Swift!Range(v) = Range(v)
  /\ \A t, v : /\ Swift!Num(t, v) = Num(t, v)
               /\ Swift!OneofToken(v, t) = OneofToken(v, t) /\ Swift!ReadOneof(t, v) = ReadOneof(t, v)
  /\ \A f : /\ Swift!EmitZero(f) = EmitZero(f) /\ Swift!AlwaysSent(f) = AlwaysSent(f)
            /\ Swift!NeedsInt64StringEncoding(f) = NeedsInt64StringEncoding(f)
            /\ Swift!NeedsEnumNumberEncoding(f) = NeedsEnumNumberEncoding(f)
            /\ Swift!TimeText(f) = TimeText(f) /\ Swift!ItemValues(f) = ItemValues(f)
            /\ Swift!Values(f) = Values(f) /\ Swift!Collections(f) = Collections(f)
            /\ Swift!ZeroValue(f) = ZeroValue(f) /\ Swift!Zero(f) = Zero(f)
  /\ \A f, v : /\ Swift!ItemToken(f, v) = ItemToken(f, v) /\ Swift!Reads(f, v) = Reads(f, v)
               /\ Swift!ReadsEitherForm(f, v) = ReadsEitherForm(f, v)
               /\ Swift!ParamToken(f, v) = ParamToken(f, v) /\ Swift!ParamText(f, v) = ParamText(f, v)
               /\ Swift!NoRoute(f, v) = NoRoute(f, v)
<1>1. /\ Swift!Unset = Unset /\ Swift!Null = Null /\ Swift!NoItems = NoItems /\ Swift!Failed = Failed
      /\ Swift!Absent = Absent /\ Swift!JNull = JNull /\ Swift!Integers64 = Integers64
  BY DEF Swift!Unset, Swift!Null, Swift!NoItems, Swift!Items, Swift!Failed, Swift!Absent, Swift!JNull, Swift!Integers64,
     Unset, Null, NoItems, Items, Failed, Absent, JNull, Integers64
<1>2. \A t, v : /\ Swift!Is(v) = Is(v) /\ Swift!Items(v) = Items(v) /\ Swift!Param(v) = Param(v)
                /\ Swift!Params(v) = Params(v) /\ Swift!JAny(v) = JAny(v) /\ Swift!Obj(v) = Obj(v)
                /\ Swift!Num(t, v) = Num(t, v) /\ Swift!Str(t, v) = Str(t, v) /\ Swift!Range(v) = Range(v)
  BY DEF Swift!Is, Swift!Items, Swift!Param, Swift!Params, Swift!JAny, Swift!Obj, Swift!Num, Swift!Str, Swift!Range,
     Is, Items, Param, Params, JAny, Obj, Num, Str, Range
<1>3. \A t, v : Swift!OneofToken(v, t) = OneofToken(v, t) /\ Swift!ReadOneof(t, v) = ReadOneof(t, v)
  BY <1>1, <1>2 DEF Swift!OneofToken, OneofToken, Swift!ReadOneof, ReadOneof
<1>4. \A f : Swift!EmitZero(f) = EmitZero(f) /\ Swift!AlwaysSent(f) = AlwaysSent(f)
  BY DEF Swift!EmitZero, EmitZero, Swift!AlwaysSent, AlwaysSent, Swift!ResponseOnly, ResponseOnly
<1>5. \A f : /\ Swift!NeedsInt64StringEncoding(f) = NeedsInt64StringEncoding(f)
             /\ Swift!NeedsEnumNumberEncoding(f) = NeedsEnumNumberEncoding(f)
             /\ Swift!TimeText(f) = TimeText(f)
  BY <1>1 DEF Swift!NeedsInt64StringEncoding, NeedsInt64StringEncoding,
     Swift!NeedsEnumNumberEncoding, NeedsEnumNumberEncoding, Swift!TimeText, TimeText
<1>6. \A f : Swift!ItemValues(f) = ItemValues(f)
  BY DEF Swift!ItemValues, ItemValues
<1>7. \A f : Swift!ZeroValue(f) = ZeroValue(f) /\ Swift!Zero(f) = Zero(f)
  BY <1>2 DEF Swift!ZeroValue, ZeroValue, Swift!Zero, Zero
<1>8. \A f : Swift!Values(f) = Values(f) /\ Swift!Collections(f) = Collections(f)
  BY <1>1, <1>2, <1>6 DEF Swift!Values, Values, Swift!Collections, Collections
<1>9. ASSUME NEW f, NEW v PROVE Swift!ItemToken(f, v) = ItemToken(f, v)
  <2>1. Swift!Ordinal(f, v) = Ordinal(f, v)
    BY Zenon DEF Swift!Ordinal, Ordinal
  <2> QED
    BY <1>1, <1>2, <1>5, <2>1 DEF Swift!ItemToken, ItemToken
<1>10. ASSUME NEW f, NEW v PROVE Swift!Reads(f, v) = Reads(f, v)
  <2> DEFINE There == {u \in Swift!ItemValues(f) : Swift!ItemToken(f, u) = v}
             Here == {u \in ItemValues(f) : ItemToken(f, u) = v}
  <2>1. There = Here
    BY <1>6, <1>9
  <2>2. Swift!Reads(f, v) = IF There = {} THEN "bad" ELSE CHOOSE w \in There : TRUE
    BY Zenon DEF Swift!Reads
  <2>3. Reads(f, v) = IF Here = {} THEN "bad" ELSE CHOOSE w \in Here : TRUE
    BY Zenon DEF Reads
  <2> HIDE DEF There, Here
  <2>4. (CHOOSE w \in There : TRUE) = (CHOOSE w \in Here : TRUE)
    BY <2>1
  <2> QED
    BY <2>1, <2>2, <2>3, <2>4
<1>11. \A f, v : /\ Swift!ReadsEitherForm(f, v) = ReadsEitherForm(f, v)
                 /\ Swift!ParamToken(f, v) = ParamToken(f, v) /\ Swift!ParamText(f, v) = ParamText(f, v)
                 /\ Swift!NoRoute(f, v) = NoRoute(f, v)
  BY <1>1, <1>2, <1>6, <1>10
     DEF Swift!ReadsEitherForm, ReadsEitherForm, Swift!ParamToken, ParamToken, Swift!ParamText, ParamText,
         Swift!NoRoute, NoRoute
<1> QED
  BY <1>1, <1>2, <1>3, <1>4, <1>5, <1>6, <1>7, <1>8, <1>9, <1>10, <1>11

LEMMA RustSame ==
  /\ Rust!Unset = Unset /\ Rust!Null = Null /\ Rust!NoItems = NoItems /\ Rust!Failed = Failed
  /\ Rust!Absent = Absent /\ Rust!JNull = JNull /\ Rust!Integers64 = Integers64
  /\ \A v : /\ Rust!Is(v) = Is(v) /\ Rust!Items(v) = Items(v) /\ Rust!Param(v) = Param(v)
            /\ Rust!Params(v) = Params(v) /\ Rust!JAny(v) = JAny(v) /\ Rust!Obj(v) = Obj(v)
            /\ Rust!Range(v) = Range(v)
  /\ \A t, v : /\ Rust!Num(t, v) = Num(t, v)
               /\ Rust!OneofToken(v, t) = OneofToken(v, t) /\ Rust!ReadOneof(t, v) = ReadOneof(t, v)
  /\ \A f : /\ Rust!EmitZero(f) = EmitZero(f) /\ Rust!AlwaysSent(f) = AlwaysSent(f)
            /\ Rust!NeedsInt64StringEncoding(f) = NeedsInt64StringEncoding(f)
            /\ Rust!NeedsEnumNumberEncoding(f) = NeedsEnumNumberEncoding(f)
            /\ Rust!TimeText(f) = TimeText(f) /\ Rust!ItemValues(f) = ItemValues(f)
            /\ Rust!Values(f) = Values(f) /\ Rust!Collections(f) = Collections(f)
            /\ Rust!ZeroValue(f) = ZeroValue(f) /\ Rust!Zero(f) = Zero(f)
  /\ \A f, v : /\ Rust!ItemToken(f, v) = ItemToken(f, v) /\ Rust!Reads(f, v) = Reads(f, v)
               /\ Rust!ReadsEitherForm(f, v) = ReadsEitherForm(f, v)
               /\ Rust!ParamToken(f, v) = ParamToken(f, v) /\ Rust!ParamText(f, v) = ParamText(f, v)
               /\ Rust!NoRoute(f, v) = NoRoute(f, v)
<1>1. /\ Rust!Unset = Unset /\ Rust!Null = Null /\ Rust!NoItems = NoItems /\ Rust!Failed = Failed
      /\ Rust!Absent = Absent /\ Rust!JNull = JNull /\ Rust!Integers64 = Integers64
  BY DEF Rust!Unset, Rust!Null, Rust!NoItems, Rust!Items, Rust!Failed, Rust!Absent, Rust!JNull, Rust!Integers64,
     Unset, Null, NoItems, Items, Failed, Absent, JNull, Integers64
<1>2. \A t, v : /\ Rust!Is(v) = Is(v) /\ Rust!Items(v) = Items(v) /\ Rust!Param(v) = Param(v)
                /\ Rust!Params(v) = Params(v) /\ Rust!JAny(v) = JAny(v) /\ Rust!Obj(v) = Obj(v)
                /\ Rust!Num(t, v) = Num(t, v) /\ Rust!Str(t, v) = Str(t, v) /\ Rust!Range(v) = Range(v)
  BY DEF Rust!Is, Rust!Items, Rust!Param, Rust!Params, Rust!JAny, Rust!Obj, Rust!Num, Rust!Str, Rust!Range,
     Is, Items, Param, Params, JAny, Obj, Num, Str, Range
<1>3. \A t, v : Rust!OneofToken(v, t) = OneofToken(v, t) /\ Rust!ReadOneof(t, v) = ReadOneof(t, v)
  BY <1>1, <1>2 DEF Rust!OneofToken, OneofToken, Rust!ReadOneof, ReadOneof
<1>4. \A f : Rust!EmitZero(f) = EmitZero(f) /\ Rust!AlwaysSent(f) = AlwaysSent(f)
  BY DEF Rust!EmitZero, EmitZero, Rust!AlwaysSent, AlwaysSent, Rust!ResponseOnly, ResponseOnly
<1>5. \A f : /\ Rust!NeedsInt64StringEncoding(f) = NeedsInt64StringEncoding(f)
             /\ Rust!NeedsEnumNumberEncoding(f) = NeedsEnumNumberEncoding(f)
             /\ Rust!TimeText(f) = TimeText(f)
  BY <1>1 DEF Rust!NeedsInt64StringEncoding, NeedsInt64StringEncoding,
     Rust!NeedsEnumNumberEncoding, NeedsEnumNumberEncoding, Rust!TimeText, TimeText
<1>6. \A f : Rust!ItemValues(f) = ItemValues(f)
  BY DEF Rust!ItemValues, ItemValues
<1>7. \A f : Rust!ZeroValue(f) = ZeroValue(f) /\ Rust!Zero(f) = Zero(f)
  BY <1>2 DEF Rust!ZeroValue, ZeroValue, Rust!Zero, Zero
<1>8. \A f : Rust!Values(f) = Values(f) /\ Rust!Collections(f) = Collections(f)
  BY <1>1, <1>2, <1>6 DEF Rust!Values, Values, Rust!Collections, Collections
<1>9. ASSUME NEW f, NEW v PROVE Rust!ItemToken(f, v) = ItemToken(f, v)
  <2>1. Rust!Ordinal(f, v) = Ordinal(f, v)
    BY Zenon DEF Rust!Ordinal, Ordinal
  <2> QED
    BY <1>1, <1>2, <1>5, <2>1 DEF Rust!ItemToken, ItemToken
<1>10. ASSUME NEW f, NEW v PROVE Rust!Reads(f, v) = Reads(f, v)
  <2> DEFINE There == {u \in Rust!ItemValues(f) : Rust!ItemToken(f, u) = v}
             Here == {u \in ItemValues(f) : ItemToken(f, u) = v}
  <2>1. There = Here
    BY <1>6, <1>9
  <2>2. Rust!Reads(f, v) = IF There = {} THEN "bad" ELSE CHOOSE w \in There : TRUE
    BY Zenon DEF Rust!Reads
  <2>3. Reads(f, v) = IF Here = {} THEN "bad" ELSE CHOOSE w \in Here : TRUE
    BY Zenon DEF Reads
  <2> HIDE DEF There, Here
  <2>4. (CHOOSE w \in There : TRUE) = (CHOOSE w \in Here : TRUE)
    BY <2>1
  <2> QED
    BY <2>1, <2>2, <2>3, <2>4
<1>11. \A f, v : /\ Rust!ReadsEitherForm(f, v) = ReadsEitherForm(f, v)
                 /\ Rust!ParamToken(f, v) = ParamToken(f, v) /\ Rust!ParamText(f, v) = ParamText(f, v)
                 /\ Rust!NoRoute(f, v) = NoRoute(f, v)
  BY <1>1, <1>2, <1>6, <1>10
     DEF Rust!ReadsEitherForm, ReadsEitherForm, Rust!ParamToken, ParamToken, Rust!ParamText, ParamText,
         Rust!NoRoute, NoRoute
<1> QED
  BY <1>1, <1>2, <1>3, <1>4, <1>5, <1>6, <1>7, <1>8, <1>9, <1>10, <1>11

-----------------------------------------------------------------------------
(* What the JSON of a field says, whoever wrote it.                        *)

\* A field of which a reader cannot tell that it is zero from that it is not there.
Blank(f) == ~f.opt /\ f.kind \notin {"oneof", "json"} /\ (f.kind = "msg" => AlwaysSent(f))

\* Two things a field may hold that mean the same.
Alike(f, x, y) ==
    \/ x = y
    \/ ~f.nullable /\ {x, y} \subseteq {Unset, NoItems, Null, Is("null")}
    \/ Blank(f) /\ {x, y} \subseteq {Unset, Zero(f)}
    \/ f.nullable /\ {x, y} \subseteq {Null, Is("null")}
    \/ f.nullable /\ AlwaysSent(f) /\ {x, y} \subseteq {Unset, Null}
    \/ {x, y} \subseteq {Is("nomsg"), Is("msg zero")}

\* The JSON of what is held, for a program that leaves nothing out: c is there.
Value(f, v, tok) ==
    /\ v \in ItemValues(f) \ {"null"} /\ f.card = "one"
    /\ IF f.place # "body" THEN tok = Param(v)
       ELSE IF f.kind = "oneof" THEN tok \in {OneofToken(v, Absent), OneofToken(v, JNull)}
       ELSE tok = ItemToken(f, v)

Item(f, v, tok) ==
    /\ v \in ItemValues(f) \ {"null"} /\ f.card # "one"
    /\ tok = IF f.place = "body" THEN <<f.card, ItemToken(f, v)>> ELSE <<"params", v>>

Carries(f, c, tok) ==
    \/ c = Unset /\ tok = Absent
    \/ /\ c = Null /\ tok = JNull
       /\ f.place = "body" /\ f.card = "one" /\ (f.nullable \/ f.kind \in {"json", "msg"})
    \/ c = NoItems /\ tok = <<f.card>> /\ f.place = "body" /\ f.card # "one"
    \/ \E v : c = Is(v) /\ Value(f, v, tok)
    \/ \E v : c = Items(<<v>>) /\ Item(f, v, tok)

\* What a program holds is written as JSON that says the same, and that says
\* more only where it is an empty or a zero value.
Writes(f, m, tok) ==
    \E c : /\ Carries(f, c, tok) /\ Alike(f, c, m)
           /\ c = m \/ c \in {Unset, Null, NoItems, Zero(f)}

\* What the fields of any language hold.
Held(f, m) ==
  /\ f.kind = "none" => m = Unset
  /\ \/ m = Unset
     \/ m = Null /\ f.nullable
     \/ f.card = "one" /\ \E v \in ItemValues(f) : m = Is(v)
     \/ f.card # "one" /\ m = NoItems
     \/ f.card # "one" /\ \E v \in ItemValues(f) \ {"null"} : m = Items(<<v>>)

Compiled(f) == IsField(f) /\ Compiles(f)

\* The JSON of what is held in a body, in the cases a program can be in: what it
\* leaves out, what it writes for nothing, and each value.
Encodes(f, m, tok) ==
    /\ m = Unset =>
         \/ tok = Absent
         \/ tok = JNull /\ f.card = "one" /\ IF f.nullable THEN AlwaysSent(f) ELSE f.kind = "msg"
         \/ tok = ItemToken(f, ZeroValue(f)) /\ f.card = "one" /\ Blank(f) /\ f.kind # "none"
         \/ tok = <<f.card>> /\ f.card # "one"
    /\ m = Null => tok = JNull
    /\ m = NoItems => tok \in {Absent, <<f.card>>}
    /\ \A v \in ItemValues(f) : m = Is(v) =>
         \/ tok = Absent /\ m = Zero(f) /\ Blank(f)
         \/ IF f.kind = "oneof" THEN tok \in {OneofToken(v, Absent), OneofToken(v, JNull)}
            ELSE tok = ItemToken(f, v)
    /\ \A v \in ItemValues(f) : m = Items(<<v>>) => tok = <<f.card, ItemToken(f, v)>>

Boxes(f, m) == <<f.card>> \o [i \in 1 .. Len(m) - 1 |-> ItemToken(f, m[i + 1])]

\* What Compiles says of the markers.
LEMMA Markers ==
  ASSUME NEW f, Compiled(f)
  PROVE  /\ f.nullable => f.opt /\ ~f.required /\ f.card = "one" /\ f.kind \notin {"oneof", "bytes", "none"}
         /\ f.kind \in {"none", "oneof"} => f.card = "one"
         /\ f.kind = "none" => ~f.opt /\ ~f.required /\ f.place = "body"
         /\ f.card # "one" => ~f.opt
         /\ f.kind = "oneof" => ~f.opt
         /\ {f.opt, f.nullable, f.required, f.emit, f.alias} \subseteq BOOLEAN
BY DEF Compiled, IsField, Compiles, NullableEligible

LEMMA Members ==
  ASSUME NEW f, NEW m
  PROVE  /\ m \in Values(f) <=> \E v \in ItemValues(f) : m = Is(v)
         /\ m \in Collections(f) <=> \/ m = NoItems
                                     \/ \E v \in ItemValues(f) \ {"null"} : m = Items(<<v>>)
BY DEF Values, Collections

\* The zero of a field: only that of raw JSON is null.
LEMMA Zeros ==
  ASSUME NEW f, Compiled(f)
  PROVE  /\ f.kind = "json" => Zero(f) = Is("null")
         /\ f.kind # "json" => Zero(f) # Is("null")
         /\ f.kind \notin {"json", "enum"} => Zero(f) = Is("zero")
<1>1. f.kind = "enum" => f.names[1] # "null"
  BY DEF Compiled, IsField, Words, Range
<1> QED
  BY <1>1, HeldApart DEF Zero, ZeroValue

LEMMA BoxesOf ==
  ASSUME NEW f
  PROVE  /\ Boxes(f, NoItems) = <<f.card>>
         /\ \A v : Boxes(f, Items(<<v>>)) = <<f.card, ItemToken(f, v)>>
<1>1. [i \in 1 .. Len(NoItems) - 1 |-> ItemToken(f, NoItems[i + 1])] = <<>>
  BY HeldItems
<1>2. <<f.card>> = <<f.card>> \o <<>>
  OBVIOUS
<1>3. ASSUME NEW v PROVE Boxes(f, Items(<<v>>)) = <<f.card, ItemToken(f, v)>>
  <2> DEFINE m == Items(<<v>>)
             s == [i \in 1 .. Len(m) - 1 |-> ItemToken(f, m[i + 1])]
  <2>1. Len(m) = 2 /\ m[2] = v
    BY HeldItems
  <2> HIDE DEF m
  <2>2. s = <<ItemToken(f, v)>>
    BY <2>1
  <2>3. <<f.card, ItemToken(f, v)>> = <<f.card>> \o <<ItemToken(f, v)>>
    OBVIOUS
  <2> HIDE DEF s
  <2>4. Boxes(f, m) = <<f.card>> \o s
    BY DEF Boxes, s
  <2> QED
    BY <2>2, <2>3, <2>4 DEF m
<1> QED
  BY <1>1, <1>2, <1>3 DEF Boxes

LEMMA EncodesWrites ==
  ASSUME NEW f, Compiled(f), f.place = "body", NEW m, Held(f, m), NEW tok, Encodes(f, m, tok)
  PROVE  Writes(f, m, tok)
<1>1. /\ f.nullable => f.opt /\ f.card = "one" /\ f.kind # "oneof"
      /\ f.kind \in {"none", "oneof"} => f.card = "one"
  BY Markers
<1>2. CASE m = Unset
  <2>1. Alike(f, Unset, m)
    BY <1>2 DEF Alike
  <2>2. CASE tok = Absent
    BY <2>1, <2>2 DEF Writes, Carries
  <2>3. CASE tok = JNull /\ f.card = "one" /\ IF f.nullable THEN AlwaysSent(f) ELSE f.kind = "msg"
    <3>1. Alike(f, Null, m)
      BY <1>2, <2>3 DEF Alike
    <3> QED
      BY <2>3, <3>1 DEF Writes, Carries
  <2>4. CASE tok = ItemToken(f, ZeroValue(f)) /\ f.card = "one" /\ Blank(f) /\ f.kind # "none"
    <3>1. ZeroValue(f) \in ItemValues(f) \ {"null"}
      BY <2>4 DEF ZeroValue, ItemValues, Blank, Compiled, IsField, Words, Range
    <3>2. Value(f, ZeroValue(f), tok)
      BY <2>4, <3>1 DEF Value, Blank
    <3>3. Alike(f, Zero(f), m)
      BY <1>2, <2>4 DEF Alike
    <3> QED
      BY <3>2, <3>3 DEF Writes, Carries, Zero
  <2>5. CASE tok = <<f.card>> /\ f.card # "one"
    <3>1. Alike(f, NoItems, m)
      BY <1>1, <1>2, <2>5 DEF Alike
    <3> QED
      BY <2>5, <3>1 DEF Writes, Carries
  <2> QED
    BY <1>2, <2>2, <2>3, <2>4, <2>5 DEF Encodes
<1>3. CASE m = Null /\ f.nullable
  <2>1. tok = JNull
    BY <1>3 DEF Encodes
  <2> QED
    BY <1>1, <1>3, <2>1 DEF Writes, Carries, Alike
<1>4. CASE m = NoItems /\ f.card # "one"
  <2>1. Alike(f, Unset, m) /\ Alike(f, NoItems, m)
    BY <1>1, <1>4 DEF Alike
  <2>2. tok \in {Absent, <<f.card>>}
    BY <1>4 DEF Encodes
  <2> QED
    BY <1>4, <2>1, <2>2 DEF Writes, Carries
<1>5. ASSUME f.card = "one", NEW v \in ItemValues(f), m = Is(v) PROVE Writes(f, m, tok)
  <2>1. CASE tok = Absent /\ m = Zero(f) /\ Blank(f)
    <3>1. Alike(f, Unset, m)
      BY <2>1 DEF Alike
    <3> QED
      BY <2>1, <3>1 DEF Writes, Carries
  <2>2. CASE v = "null" /\ tok = ItemToken(f, v)
    <3>1. f.kind = "json"
      BY <2>2 DEF ItemValues, Compiled, IsField, Words
    <3>2. tok = JNull
      BY <2>2, <3>1, TokenShape
    <3>3. Alike(f, Null, m)
      BY <1>1, <1>5, <2>2, Markers DEF Alike
    <3> QED
      BY <1>5, <3>1, <3>2, <3>3 DEF Writes, Carries
  <2>3. CASE v # "null" /\ IF f.kind = "oneof" THEN tok \in {OneofToken(v, Absent), OneofToken(v, JNull)}
                           ELSE tok = ItemToken(f, v)
    BY <1>5, <2>3 DEF Writes, Carries, Value, Alike
  <2>4. v = "null" => f.kind # "oneof"
    BY DEF ItemValues
  <2> QED
    BY <1>5, <2>1, <2>2, <2>3, <2>4 DEF Encodes
<1>6. ASSUME f.card # "one", NEW v \in ItemValues(f) \ {"null"}, m = Items(<<v>>) PROVE Writes(f, m, tok)
  <2>1. tok = <<f.card, ItemToken(f, v)>>
    BY <1>6 DEF Encodes
  <2> QED
    BY <1>6, <2>1 DEF Writes, Carries, Alike, Item
<1> QED
  BY <1>2, <1>3, <1>4, <1>5, <1>6 DEF Held

-----------------------------------------------------------------------------
(* What each language writes.                                              *)

LEMMA GoHolds ==
  ASSUME NEW f, Compiled(f), NEW m \in Go!Memory(f)
  PROVE  /\ Held(f, m)
         /\ m = Unset => f.kind = "none" \/ (f.card = "one" /\ (f.opt \/ f.kind \in {"msg", "oneof", "json"}))
<1>1. /\ f.kind = "none" => m = Unset
      /\ f.kind # "none" /\ f.card # "one" => m \in Collections(f)
      /\ f.kind # "none" /\ f.card = "one" => m \in {Unset} \cup Values(f) \/ (f.nullable /\ m = Null)
      /\ f.kind # "none" /\ f.card = "one" /\ ~f.nullable /\ ~f.opt /\ f.kind \notin {"msg", "oneof", "json"}
           => m \in Values(f)
  BY GoSame DEF Go!Memory
<1>2. /\ \A v : Is(v) # Unset /\ Items(<<v>>) # Unset
      /\ NoItems # Unset
  BY HeldApart
<1>3. /\ f.nullable => f.opt
      /\ f.kind = "none" => f.card = "one"
  BY Markers
<1>4. Unset \notin Values(f) \cup Collections(f)
  BY <1>2 DEF Values, Collections
<1>5. m = Unset => f.kind = "none" \/ (f.card = "one" /\ (f.opt \/ f.kind \in {"msg", "oneof", "json"}))
  BY <1>1, <1>3, <1>4
<1> QED
  BY <1>1, <1>3, <1>5, Members DEF Held

LEMMA GoEncodes ==
  ASSUME NEW f, Compiled(f), f.place = "body", NEW m \in Go!Memory(f)
  PROVE  Encodes(f, m, Go!Encode(f, m))
<1> DEFINE tok == Go!Encode(f, m)
<1>1. /\ f.nullable => f.opt /\ f.card = "one" /\ f.kind # "oneof"
      /\ f.kind \in {"none", "oneof"} => f.card = "one"
      /\ f.card # "one" => ~f.opt
  BY Markers
<1>2. tok = IF ~Go!Written(f, m) THEN Absent
            ELSE IF f.kind = "oneof" THEN OneofToken(m[2], Absent)
            ELSE IF f.nullable /\ m \in {Unset, Null} THEN JNull
            ELSE IF f.card # "one" THEN Boxes(f, m)
            ELSE IF m = Unset THEN ItemToken(f, "zero")
            ELSE ItemToken(f, m[2])
  BY GoSame DEF Go!Encode, Go!Container, Boxes
<1>3. Go!Written(f, m) <=>
        IF f.kind = "none" THEN FALSE
        ELSE IF f.kind = "oneof" THEN m # Unset
        ELSE IF f.nullable THEN AlwaysSent(f) \/ m # Unset
        ELSE IF f.card # "one" THEN EmitZero(f) \/ m # NoItems
        ELSE IF f.opt THEN m # Unset
        ELSE IF f.kind = "msg" THEN AlwaysSent(f) \/ m # Unset
        ELSE IF NeedsInt64StringEncoding(f) \/ NeedsEnumNumberEncoding(f) \/ f.kind = "time" THEN TRUE
        ELSE IF f.kind = "json" THEN m # Unset
        ELSE EmitZero(f) \/ m # Zero(f)
  BY GoSame DEF Go!Written
<1> HIDE DEF tok
<1>4. Held(f, m) /\ (f.kind = "none" => m = Unset)
  BY GoHolds DEF Held
<1>5. m = Unset => f.kind = "none" \/ (f.card = "one" /\ (f.opt \/ f.kind \in {"msg", "oneof", "json"}))
  BY GoHolds
<1>6. ASSUME m = Unset
      PROVE  \/ tok = Absent
             \/ tok = JNull /\ f.card = "one" /\ IF f.nullable THEN AlwaysSent(f) ELSE f.kind = "msg"
             \/ tok = ItemToken(f, ZeroValue(f)) /\ f.card = "one" /\ Blank(f) /\ f.kind # "none"
  <2>1. CASE f.nullable
    BY <1>1, <1>2, <1>3, <1>6, <2>1
  <2>2. CASE ~f.nullable
    BY <1>2, <1>3, <1>5, <1>6, <2>2
       DEF NeedsInt64StringEncoding, NeedsEnumNumberEncoding, Integers64, Blank, ZeroValue
  <2> QED
    BY <2>1, <2>2
<1>7. ASSUME m = Null PROVE tok = JNull
  BY <1>1, <1>2, <1>3, <1>4, <1>7, HeldApart DEF Held
<1>8. ASSUME m = NoItems PROVE tok \in {Absent, <<f.card>>}
  <2>1. f.card # "one" /\ f.kind # "oneof" /\ ~f.nullable
    BY <1>1, <1>4, <1>8, HeldApart DEF Held
  <2> QED
    BY <1>2, <1>8, <2>1, BoxesOf
<1>9. ASSUME NEW v \in ItemValues(f), m = Is(v)
      PROVE  \/ tok = Absent /\ m = Zero(f) /\ Blank(f)
             \/ IF f.kind = "oneof" THEN tok = OneofToken(v, Absent) ELSE tok = ItemToken(f, v)
  <2>1. m[2] = v /\ m \notin {Unset, Null, NoItems}
    BY <1>9, HeldItems, HeldApart
  <2>2. f.card = "one"
    BY <1>4, <1>9, <2>1, HeldApart DEF Held
  <2> QED
    BY <1>2, <1>3, <1>4, <2>1, <2>2 DEF Blank
<1>10. ASSUME NEW v \in ItemValues(f), m = Items(<<v>>) PROVE tok = <<f.card, ItemToken(f, v)>>
  <2>1. m \notin {Unset, Null, NoItems} /\ \A u : m # Is(u)
    BY <1>10, HeldApart
  <2>2. f.card # "one"
    BY <1>4, <2>1 DEF Held
  <2> QED
    BY <1>1, <1>2, <1>3, <1>4, <1>10, <2>1, <2>2, BoxesOf
<1> QED
  BY <1>6, <1>7, <1>8, <1>9, <1>10 DEF Encodes, tok

LEMMA ZeroItem ==
  ASSUME NEW f, Compiled(f), "zero" \in ItemValues(f)
  PROVE  f.kind \notin {"none", "json", "oneof", "enum"} /\ Zero(f) = Is("zero")
<1>1. f.kind \notin {"none", "json", "oneof", "enum"}
  BY DEF ItemValues, Compiled, IsField, Words
<1> QED
  BY <1>1, Zeros

\* A number that a Dart program would clamp.
DartClamps(f, m) == Holds(m, {"huge"}) /\ f.kind \in Integers64 /\ ~NeedsInt64StringEncoding(f)

DartBoxes(f, m) == <<f.card>> \o [i \in 1 .. Len(m) - 1 |-> Dart!Token(f, m[i + 1])]

LEMMA DartToken ==
  ASSUME NEW f, NEW v, NEW m, m = Is(v) \/ m = Items(<<v>>), ~DartClamps(f, m)
  PROVE  Dart!Token(f, v) = ItemToken(f, v)
<1>1. v = "huge" => Holds(m, {"huge"})
  BY HeldItems DEF Holds
<1> QED
  BY <1>1, DartSame DEF Dart!Token, DartClamps, Integers64

LEMMA DartBoxesOf ==
  ASSUME NEW f, NEW m, ~DartClamps(f, m), m = NoItems \/ \E v : m = Items(<<v>>)
  PROVE  DartBoxes(f, m) = Boxes(f, m)
<1>1. CASE m = NoItems
  <2>1. Len(m) = 1
    BY <1>1, HeldItems
  <2>2. [i \in 1 .. Len(m) - 1 |-> Dart!Token(f, m[i + 1])] = [i \in 1 .. Len(m) - 1 |-> ItemToken(f, m[i + 1])]
    BY <2>1
  <2> QED
    BY <2>2 DEF DartBoxes, Boxes
<1>2. ASSUME NEW v, m = Items(<<v>>) PROVE DartBoxes(f, m) = Boxes(f, m)
  <2>1. Len(m) = 2 /\ m[2] = v
    BY <1>2, HeldItems
  <2>2. Dart!Token(f, m[2]) = ItemToken(f, m[2])
    BY <1>2, <2>1, DartToken
  <2>3. [i \in 1 .. Len(m) - 1 |-> Dart!Token(f, m[i + 1])] = [i \in 1 .. Len(m) - 1 |-> ItemToken(f, m[i + 1])]
    BY <2>1, <2>2
  <2> QED
    BY <2>3 DEF DartBoxes, Boxes
<1> QED
  BY <1>1, <1>2

LEMMA TSHolds ==
  ASSUME NEW f, Compiled(f), NEW m \in TS!Memory(f)
  PROVE  Held(f, m)
<1>1. /\ f.kind = "none" => m = Unset
      /\ f.kind # "none" /\ f.card # "one" => m = Unset \/ m \in Collections(f)
      /\ f.kind # "none" /\ f.card = "one" => m = Unset \/ m \in Values(f) \/ (f.nullable /\ m = Null)
  BY TSSame DEF TS!Memory, Values, Collections
<1> QED
  BY <1>1, Markers, Members DEF Held

LEMMA TSEncodes ==
  ASSUME NEW f, Compiled(f), f.place = "body", NEW m \in TS!Memory(f)
  PROVE  Encodes(f, m, TS!Encode(f, m))
<1> DEFINE tok == TS!Encode(f, m)
<1>1. /\ f.nullable => f.opt /\ f.card = "one" /\ f.kind # "oneof"
      /\ f.kind \in {"none", "oneof"} => f.card = "one"
      /\ f.card # "one" => ~f.opt
  BY Markers
<1>2. tok = IF f.kind = "none" THEN Absent
            ELSE IF m = Unset THEN IF ~EmitZero(f) THEN Absent
                                   ELSE IF f.card # "one" THEN <<f.card>> ELSE ItemToken(f, ZeroValue(f))
            ELSE IF m = Null THEN JNull
            ELSE IF f.kind = "oneof" THEN OneofToken(m[2], Absent)
            ELSE IF f.card # "one" THEN Boxes(f, m)
            ELSE ItemToken(f, m[2])
  BY TSSame DEF TS!Encode, TS!Container, Boxes
<1> HIDE DEF tok
<1>3. Held(f, m) /\ (f.kind = "none" => m = Unset)
  BY TSHolds DEF Held
<1>4. NoItems \notin {Unset, Null} /\ Unset # Null
  BY HeldApart
<1>5. ASSUME m = Unset
      PROVE  \/ tok = Absent
             \/ tok = ItemToken(f, ZeroValue(f)) /\ f.card = "one" /\ Blank(f) /\ f.kind # "none"
             \/ tok = <<f.card>> /\ f.card # "one"
  <2>1. EmitZero(f) /\ f.card = "one" => Blank(f)
    BY <1>1 DEF EmitZero, Blank
  <2> QED
    BY <1>2, <1>5, <2>1
<1>6. ASSUME m = Null PROVE tok = JNull
  <2>1. f.nullable /\ f.kind # "none"
    BY <1>3, <1>4, <1>6, HeldApart DEF Held
  <2> QED
    BY <1>1, <1>2, <1>4, <1>6, <2>1, HeldApart
<1>7. ASSUME m = NoItems PROVE tok \in {Absent, <<f.card>>}
  <2>1. f.card # "one" /\ f.kind \notin {"none", "oneof"}
    BY <1>1, <1>3, <1>4, <1>7, HeldApart DEF Held
  <2> QED
    BY <1>2, <1>4, <1>7, <2>1, BoxesOf
<1>8. ASSUME NEW v \in ItemValues(f), m = Is(v)
      PROVE  \/ tok = Absent /\ m = Zero(f) /\ Blank(f)
             \/ IF f.kind = "oneof" THEN tok = OneofToken(v, Absent) ELSE tok = ItemToken(f, v)
  <2>1. m[2] = v /\ m \notin {Unset, Null, NoItems}
    BY <1>8, HeldItems, HeldApart
  <2>2. f.card = "one" /\ f.kind # "none"
    BY <1>3, <1>8, <2>1, HeldApart DEF Held
  <2> QED
    BY <1>2, <2>1, <2>2
<1>9. ASSUME NEW v \in ItemValues(f), m = Items(<<v>>) PROVE tok = <<f.card, ItemToken(f, v)>>
  <2>1. m \notin {Unset, Null, NoItems} /\ \A u : m # Is(u)
    BY <1>9, HeldApart
  <2>2. f.card # "one" /\ f.kind \notin {"none", "oneof"}
    BY <1>1, <1>3, <2>1 DEF Held
  <2> QED
    BY <1>2, <1>9, <2>1, <2>2, BoxesOf
<1> QED
  BY <1>5, <1>6, <1>7, <1>8, <1>9 DEF Encodes, tok

LEMMA PythonHolds ==
  ASSUME NEW f, Compiled(f), NEW m \in Python!Memory(f)
  PROVE  Held(f, m)
<1>1. /\ f.kind = "none" => m = Unset
      /\ f.kind # "none" /\ f.card # "one" => m = Unset \/ m \in Collections(f)
      /\ f.kind # "none" /\ f.card = "one" => m = Unset \/ m \in Values(f) \/ (f.nullable /\ m = Null)
  BY PythonSame DEF Python!Memory, Values, Collections
<1> QED
  BY <1>1, Markers, Members DEF Held

LEMMA PythonEncodes ==
  ASSUME NEW f, Compiled(f), f.place = "body", NEW m \in Python!Memory(f)
  PROVE  Encodes(f, m, Python!Encode(f, m))
<1> DEFINE tok == Python!Encode(f, m)
<1>1. /\ f.nullable => f.opt /\ f.card = "one" /\ f.kind # "oneof"
      /\ f.kind \in {"none", "oneof"} => f.card = "one"
      /\ f.card # "one" => ~f.opt
  BY Markers
<1>2. tok = IF m = Unset THEN Absent
            ELSE IF m = Null THEN JNull
            ELSE IF f.kind = "oneof" THEN OneofToken(m[2], JNull)
            ELSE IF m = NoItems /\ ~EmitZero(f) THEN Absent
            ELSE IF f.card # "one" THEN Boxes(f, m)
            ELSE IF /\ m = Is("zero") /\ ~f.opt /\ ~EmitZero(f) /\ ~NeedsInt64StringEncoding(f)
                    /\ f.kind # "msg" /\ ~TimeText(f) THEN Absent
            ELSE ItemToken(f, m[2])
  BY PythonSame DEF Python!Encode, Python!Container, Boxes
<1> HIDE DEF tok
<1>3. Held(f, m) /\ (f.kind = "none" => m = Unset)
  BY PythonHolds DEF Held
<1>4. NoItems \notin {Unset, Null} /\ Unset # Null
  BY HeldApart
<1>5. ASSUME m = Unset PROVE tok = Absent
  BY <1>2, <1>5
<1>6. ASSUME m = Null PROVE tok = JNull
  <2>1. f.nullable /\ f.kind # "none"
    BY <1>3, <1>4, <1>6, HeldApart DEF Held
  <2> QED
    BY <1>1, <1>2, <1>4, <1>6, <2>1, HeldApart
<1>7. ASSUME m = NoItems PROVE tok \in {Absent, <<f.card>>}
  <2>1. f.card # "one" /\ f.kind \notin {"none", "oneof"}
    BY <1>1, <1>3, <1>4, <1>7, HeldApart DEF Held
  <2> QED
    BY <1>2, <1>4, <1>7, <2>1, BoxesOf
<1>8. ASSUME NEW v \in ItemValues(f), m = Is(v)
      PROVE  \/ tok = Absent /\ m = Zero(f) /\ Blank(f)
             \/ IF f.kind = "oneof" THEN tok = OneofToken(v, JNull) ELSE tok = ItemToken(f, v)
  <2>1. m[2] = v /\ m \notin {Unset, Null, NoItems}
    BY <1>8, HeldItems, HeldApart
  <2>2. f.card = "one" /\ f.kind # "none"
    BY <1>3, <1>8, <2>1, HeldApart DEF Held
  <2>3. m = Is("zero") /\ ~f.opt /\ f.kind \notin {"oneof", "msg"} => m = Zero(f) /\ Blank(f)
    BY <1>8, HeldApart, ZeroItem DEF Blank
  <2> QED
    BY <1>2, <2>1, <2>2, <2>3
<1>9. ASSUME NEW v \in ItemValues(f), m = Items(<<v>>) PROVE tok = <<f.card, ItemToken(f, v)>>
  <2>1. m \notin {Unset, Null, NoItems} /\ \A u : m # Is(u)
    BY <1>9, HeldApart
  <2>2. f.card # "one" /\ f.kind \notin {"none", "oneof"}
    BY <1>1, <1>3, <2>1 DEF Held
  <2> QED
    BY <1>2, <1>9, <2>1, <2>2, BoxesOf
<1> QED
  BY <1>5, <1>6, <1>7, <1>8, <1>9 DEF Encodes, tok

LEMMA DartHolds ==
  ASSUME NEW f, Compiled(f), NEW m \in Dart!Memory(f)
  PROVE  Held(f, m)
<1>1. /\ f.kind = "none" => m = Unset
      /\ f.kind # "none" /\ f.card # "one" => m = Unset \/ m \in Collections(f)
      /\ f.kind # "none" /\ f.card = "one" => m = Unset \/ m \in Values(f) \/ (f.nullable /\ m = Null)
  BY DartSame DEF Dart!Memory, Values, Collections
<1> QED
  BY <1>1, Markers, Members DEF Held

LEMMA DartEncodes ==
  ASSUME NEW f, Compiled(f), f.place = "body", NEW m \in Dart!Memory(f), ~DartClamps(f, m)
  PROVE  Encodes(f, m, Dart!Encode(f, m))
<1> DEFINE tok == Dart!Encode(f, m)
<1>1. /\ f.nullable => f.opt /\ f.card = "one" /\ f.kind # "oneof"
      /\ f.kind \in {"none", "oneof"} => f.card = "one"
      /\ f.card # "one" => ~f.opt
  BY Markers
<1>2. tok = IF m = Unset THEN Absent
            ELSE IF m = Null THEN JNull
            ELSE IF f.kind = "oneof" THEN OneofToken(m[2], Absent)
            ELSE IF m = NoItems /\ ~EmitZero(f) THEN Absent
            ELSE IF f.card # "one" THEN DartBoxes(f, m)
            ELSE IF /\ m = Is("zero") /\ ~Dart!MayBeNull(f) /\ ~EmitZero(f)
                    /\ f.kind # "enum" /\ ~NeedsInt64StringEncoding(f) THEN Absent
            ELSE Dart!Token(f, m[2])
  BY DartSame DEF Dart!Encode, Dart!Container, Boxes, DartBoxes
<1> HIDE DEF tok
<1>3. Held(f, m) /\ (f.kind = "none" => m = Unset)
  BY DartHolds DEF Held
<1>4. NoItems \notin {Unset, Null} /\ Unset # Null
  BY HeldApart
<1>5. ASSUME m = Unset PROVE tok = Absent
  BY <1>2, <1>5
<1>6. ASSUME m = Null PROVE tok = JNull
  <2>1. f.nullable /\ f.kind # "none"
    BY <1>3, <1>4, <1>6, HeldApart DEF Held
  <2> QED
    BY <1>1, <1>2, <1>4, <1>6, <2>1, HeldApart
<1>7. ASSUME m = NoItems PROVE tok \in {Absent, <<f.card>>}
  <2>1. f.card # "one" /\ f.kind \notin {"none", "oneof"}
    BY <1>1, <1>3, <1>4, <1>7, HeldApart DEF Held
  <2> QED
    BY <1>2, <1>4, <1>7, <2>1, BoxesOf, DartBoxesOf
<1>8. ASSUME NEW v \in ItemValues(f), m = Is(v)
      PROVE  \/ tok = Absent /\ m = Zero(f) /\ Blank(f)
             \/ IF f.kind = "oneof" THEN tok = OneofToken(v, Absent) ELSE tok = ItemToken(f, v)
  <2>1. m[2] = v /\ m \notin {Unset, Null, NoItems}
    BY <1>8, HeldItems, HeldApart
  <2>2. f.card = "one" /\ f.kind # "none"
    BY <1>3, <1>8, <2>1, HeldApart DEF Held
  <2>3. m = Is("zero") /\ ~f.opt /\ f.kind \notin {"oneof", "msg"} => m = Zero(f) /\ Blank(f)
    BY <1>8, HeldApart, ZeroItem DEF Blank
  <2>4. ~Dart!MayBeNull(f) => ~f.opt /\ f.kind \notin {"oneof", "msg"}
    BY <2>2 DEF Dart!MayBeNull
  <2>5. Dart!Token(f, v) = ItemToken(f, v)
    BY <1>8, <2>1, DartToken
  <2> QED
    BY <1>2, <2>1, <2>2, <2>3, <2>4, <2>5
<1>9. ASSUME NEW v \in ItemValues(f), m = Items(<<v>>) PROVE tok = <<f.card, ItemToken(f, v)>>
  <2>1. m \notin {Unset, Null, NoItems} /\ \A u : m # Is(u)
    BY <1>9, HeldApart
  <2>2. f.card # "one" /\ f.kind \notin {"none", "oneof"}
    BY <1>1, <1>3, <2>1 DEF Held
  <2> QED
    BY <1>2, <1>9, <2>1, <2>2, BoxesOf, DartBoxesOf
<1> QED
  BY <1>5, <1>6, <1>7, <1>8, <1>9 DEF Encodes, tok

LEMMA SwiftHolds ==
  ASSUME NEW f, Compiled(f), NEW m \in Swift!Memory(f)
  PROVE  Held(f, m)
<1>1. /\ f.kind = "none" => m = Unset
      /\ f.kind # "none" /\ f.card # "one" => m = Unset \/ m \in Collections(f)
      /\ f.kind # "none" /\ f.card = "one" => m = Unset \/ m \in Values(f) \/ (f.nullable /\ m = Null)
  BY SwiftSame DEF Swift!Memory, Values, Collections
<1> QED
  BY <1>1, Markers, Members DEF Held

LEMMA SwiftEncodes ==
  ASSUME NEW f, Compiled(f), f.place = "body", NEW m \in Swift!Memory(f)
  PROVE  Encodes(f, m, Swift!Encode(f, m))
<1> DEFINE tok == Swift!Encode(f, m)
<1>1. /\ f.nullable => f.opt /\ f.card = "one" /\ f.kind # "oneof"
      /\ f.kind \in {"none", "oneof"} => f.card = "one"
      /\ f.card # "one" => ~f.opt
  BY Markers
<1>2. tok = IF \/ m = Unset
               \/ m = NoItems /\ ~EmitZero(f)
               \/ /\ m = Is("zero") /\ f.kind \in {"text", "number", "bytes"} \cup Integers64
                  /\ ~f.opt /\ ~EmitZero(f) /\ ~NeedsInt64StringEncoding(f)
            THEN Absent
            ELSE IF m = Null THEN JNull
            ELSE IF f.kind = "oneof" THEN OneofToken(m[2], Absent)
            ELSE IF f.card # "one" THEN Boxes(f, m)
            ELSE ItemToken(f, m[2])
  BY SwiftSame DEF Swift!Encode, Swift!Container, Boxes, Swift!Omitted
<1> HIDE DEF tok
<1>3. Held(f, m) /\ (f.kind = "none" => m = Unset)
  BY SwiftHolds DEF Held
<1>4. NoItems \notin {Unset, Null} /\ Unset # Null
  BY HeldApart
<1>5. ASSUME m = Unset PROVE tok = Absent
  BY <1>2, <1>5
<1>6. ASSUME m = Null PROVE tok = JNull
  <2>1. f.nullable /\ f.kind # "none"
    BY <1>3, <1>4, <1>6, HeldApart DEF Held
  <2> QED
    BY <1>1, <1>2, <1>4, <1>6, <2>1, HeldApart
<1>7. ASSUME m = NoItems PROVE tok \in {Absent, <<f.card>>}
  <2>1. f.card # "one" /\ f.kind \notin {"none", "oneof"}
    BY <1>1, <1>3, <1>4, <1>7, HeldApart DEF Held
  <2> QED
    BY <1>2, <1>4, <1>7, <2>1, BoxesOf
<1>8. ASSUME NEW v \in ItemValues(f), m = Is(v)
      PROVE  \/ tok = Absent /\ m = Zero(f) /\ Blank(f)
             \/ IF f.kind = "oneof" THEN tok = OneofToken(v, Absent) ELSE tok = ItemToken(f, v)
  <2>1. m[2] = v /\ m \notin {Unset, Null, NoItems}
    BY <1>8, HeldItems, HeldApart
  <2>2. f.card = "one" /\ f.kind # "none"
    BY <1>3, <1>8, <2>1, HeldApart DEF Held
  <2>3. m = Is("zero") /\ ~f.opt /\ f.kind \notin {"oneof", "msg"} => m = Zero(f) /\ Blank(f)
    BY <1>8, HeldApart, ZeroItem DEF Blank
  <2> QED
    BY <1>2, <2>1, <2>2, <2>3 DEF Integers64
<1>9. ASSUME NEW v \in ItemValues(f), m = Items(<<v>>) PROVE tok = <<f.card, ItemToken(f, v)>>
  <2>1. m \notin {Unset, Null, NoItems} /\ \A u : m # Is(u)
    BY <1>9, HeldApart
  <2>2. f.card # "one" /\ f.kind \notin {"none", "oneof"}
    BY <1>1, <1>3, <2>1 DEF Held
  <2> QED
    BY <1>2, <1>9, <2>1, <2>2, BoxesOf
<1> QED
  BY <1>5, <1>6, <1>7, <1>8, <1>9 DEF Encodes, tok

LEMMA RustHolds ==
  ASSUME NEW f, Compiled(f), NEW m \in Rust!Memory(f)
  PROVE  /\ Held(f, m)
         /\ m = Unset => \/ f.kind \in {"none", "oneof"} \/ f.opt \/ TimeText(f)
                        \/ (f.card = "one" /\ f.kind = "msg")
<1>1. /\ f.kind = "none" => m = Unset
      /\ f.kind # "none" /\ f.card # "one" => m = Unset \/ m \in Collections(f)
      /\ f.kind # "none" /\ f.card = "one" => m = Unset \/ m \in Values(f) \/ (f.nullable /\ m = Null)
  BY RustSame DEF Rust!Memory, Values, Collections
<1>2. m = Unset => \/ f.kind \in {"none", "oneof"} \/ f.opt \/ TimeText(f)
                   \/ (f.card = "one" /\ f.kind = "msg")
  <2>1. Unset \notin Values(f) \cup Collections(f)
    BY HeldApart DEF Values, Collections
  <2>2. f.nullable => f.opt
    BY Markers
  <2> QED
    BY <2>1, <2>2, RustSame DEF Rust!Memory, Rust!IsOption
<1> QED
  BY <1>1, <1>2, Markers, Members DEF Held

LEMMA RustEncodes ==
  ASSUME NEW f, Compiled(f), f.place = "body", NEW m \in Rust!Memory(f)
  PROVE  Encodes(f, m, Rust!Encode(f, m))
<1> DEFINE tok == Rust!Encode(f, m)
<1>1. /\ f.nullable => f.opt /\ f.card = "one" /\ f.kind # "oneof"
      /\ f.kind \in {"none", "oneof"} => f.card = "one"
      /\ f.card # "one" => ~f.opt
  BY Markers
<1>2. tok = IF \/ f.kind = "none"
               \/ m = Unset /\ (f.opt \/ f.kind = "oneof" \/ TimeText(f))
               \/ m = NoItems /\ ~EmitZero(f)
            THEN Absent
            ELSE IF m \in {Unset, Null} THEN JNull
            ELSE IF f.kind = "oneof" THEN OneofToken(m[2], Absent)
            ELSE IF f.card # "one" THEN Boxes(f, m)
            ELSE ItemToken(f, m[2])
  BY RustSame DEF Rust!Encode, Rust!Container, Boxes, Rust!Skipped
<1> HIDE DEF tok
<1>3. Held(f, m) /\ (f.kind = "none" => m = Unset)
  BY RustHolds DEF Held
<1>4. NoItems \notin {Unset, Null} /\ Unset # Null
  BY HeldApart
<1>5. ASSUME m = Unset
      PROVE  tok = Absent \/ (tok = JNull /\ f.card = "one" /\ f.kind = "msg" /\ ~f.nullable)
  BY <1>1, <1>2, <1>5, RustHolds
<1>6. ASSUME m = Null PROVE tok = JNull
  <2>1. f.nullable /\ f.kind # "none"
    BY <1>3, <1>4, <1>6, HeldApart DEF Held
  <2> QED
    BY <1>1, <1>2, <1>4, <1>6, <2>1, HeldApart
<1>7. ASSUME m = NoItems PROVE tok \in {Absent, <<f.card>>}
  <2>1. f.card # "one" /\ f.kind \notin {"none", "oneof"}
    BY <1>1, <1>3, <1>4, <1>7, HeldApart DEF Held
  <2> QED
    BY <1>2, <1>4, <1>7, <2>1, BoxesOf
<1>8. ASSUME NEW v \in ItemValues(f), m = Is(v)
      PROVE  \/ tok = Absent /\ m = Zero(f) /\ Blank(f)
             \/ IF f.kind = "oneof" THEN tok = OneofToken(v, Absent) ELSE tok = ItemToken(f, v)
  <2>1. m[2] = v /\ m \notin {Unset, Null, NoItems}
    BY <1>8, HeldItems, HeldApart
  <2>2. f.card = "one" /\ f.kind # "none"
    BY <1>3, <1>8, <2>1, HeldApart DEF Held
  <2> QED
    BY <1>2, <2>1, <2>2
<1>9. ASSUME NEW v \in ItemValues(f), m = Items(<<v>>) PROVE tok = <<f.card, ItemToken(f, v)>>
  <2>1. m \notin {Unset, Null, NoItems} /\ \A u : m # Is(u)
    BY <1>9, HeldApart
  <2>2. f.card # "one" /\ f.kind \notin {"none", "oneof"}
    BY <1>1, <1>3, <2>1 DEF Held
  <2> QED
    BY <1>2, <1>9, <2>1, <2>2, BoxesOf
<1> QED
  BY <1>5, <1>6, <1>7, <1>8, <1>9 DEF Encodes, tok

-----------------------------------------------------------------------------
(* What each language reads.                                               *)

\* What a reader takes from the JSON that carries c.
Decodes(g, c, d) ==
    /\ c = Unset =>
         \/ d = Unset
         \/ d = NoItems /\ g.card # "one"
         \/ d = Zero(g) /\ ~g.nullable /\ (Blank(g) \/ g.kind = "json")
         \/ d = Null /\ g.nullable /\ AlwaysSent(g)
    /\ c = Null => d = Null \/ (d \in {Unset, Is("null")} /\ ~g.nullable)
    /\ c = NoItems => d = NoItems
    /\ \A v \in ItemValues(g) \ {"null"} :
         c \in {Is(v), Items(<<v>>)} => d = c \/ (c = Is("nomsg") /\ d = Is("msg zero"))

LEMMA DecodesAlike ==
  ASSUME NEW g, Compiled(g), NEW c, NEW tok, Carries(g, c, tok), NEW d, Decodes(g, c, d)
  PROVE  d # Failed /\ Alike(g, c, d)
<1>1. g.nullable => g.card = "one"
  BY Markers
<1>2. /\ Failed \notin {Unset, Null, NoItems}
      /\ \A v : Is(v) # Failed /\ Items(<<v>>) # Failed
  BY HeldApart
<1>3. Zero(g) # Failed /\ (g.kind = "json" => Zero(g) = Is("null"))
  BY <1>2, Zeros DEF Zero
<1>4. CASE c = Unset
  BY <1>1, <1>2, <1>3, <1>4 DEF Decodes, Alike
<1>5. CASE c = Null
  BY <1>2, <1>5 DEF Decodes, Alike
<1>6. CASE c = NoItems
  BY <1>2, <1>6 DEF Decodes, Alike
<1>7. ASSUME NEW v \in ItemValues(g) \ {"null"}, c \in {Is(v), Items(<<v>>)} PROVE d # Failed /\ Alike(g, c, d)
  BY <1>2, <1>7 DEF Decodes, Alike
<1> QED
  BY <1>4, <1>5, <1>6, <1>7 DEF Carries, Value, Item

LEMMA Bare ==
  /\ Unset # Null /\ Unset # NoItems /\ Null # NoItems
  /\ \A v : /\ Unset # Is(v) /\ Unset # Items(<<v>>) /\ Null # Is(v) /\ Null # Items(<<v>>)
            /\ NoItems # Is(v) /\ NoItems # Items(<<v>>)
BY HeldApart

LEMMA DecodesBare ==
  ASSUME NEW g, NEW c \in {Unset, Null, NoItems}, NEW d,
         c = Unset => \/ d = Unset
                      \/ d = NoItems /\ g.card # "one"
                      \/ d = Zero(g) /\ ~g.nullable /\ (Blank(g) \/ g.kind = "json")
                      \/ d = Null /\ g.nullable /\ AlwaysSent(g),
         c = Null => d = Null \/ (d \in {Unset, Is("null")} /\ ~g.nullable),
         c = NoItems => d = NoItems
  PROVE  Decodes(g, c, d)
<1>1. \A v : c \notin {Is(v), Items(<<v>>)}
  BY Bare
<1> QED
  BY <1>1 DEF Decodes

\* The value in a JSON text, as the three kinds of decoder find it.
LEMMA TokenRead ==
  ASSUME NEW g, Compiled(g), NEW v \in ItemValues(g) \ {"null"}
  PROVE  /\ ItemToken(g, v) \notin {Absent, JNull}
         /\ Reads(g, ItemToken(g, v)) = v
         /\ ReadsEitherForm(g, ItemToken(g, v)) = v
         /\ v \notin {"bad", "rounded", "digits", "unknown"}
<1>1. ItemToken(g, v) \notin {Absent, JNull}
  BY TokenShape
<1>2. Reads(g, ItemToken(g, v)) = v
  BY ReadsBack
<1>3. g.kind \in Integers64 => \E form : ItemToken(g, v) = <<form, "int", v>>
  BY DEF ItemToken, Str, Num, Integers64
<1>4. ReadsEitherForm(g, ItemToken(g, v)) = v
  BY <1>2, <1>3 DEF ReadsEitherForm
<1>5. v \notin {"bad", "rounded", "digits", "unknown"}
  BY DEF ItemValues, Compiled, IsField, Words
<1> QED
  BY <1>1, <1>2, <1>4, <1>5

\* The variant of a oneof.
LEMMA OneofRead ==
  ASSUME NEW g, g.kind = "oneof", NEW v \in ItemValues(g), NEW n,
         NEW tok \in {OneofToken(v, Absent), OneofToken(v, JNull)}
  PROVE  /\ tok \notin {Absent, JNull}
         /\ ReadOneof(tok, n) = IF v = "nomsg" THEN n ELSE Is(v)
<1>1. v \in {"int", "msg", "nomsg"}
  BY DEF ItemValues
<1>2. Absent # Obj("val") /\ JNull # Obj("val")
  BY DEF Absent, JNull, Obj
<1>3. tok \notin {Absent, JNull}
  BY WireApart
<1>4. CASE v = "int"
  <2>1. tok = <<"oneof", "int", Str("int", "big")>>
    BY <1>4 DEF OneofToken
  <2>2. tok[1] = "oneof" /\ tok[2] = "int"
    BY <2>1
  <2> QED
    BY <1>3, <1>4, <2>2 DEF ReadOneof
<1>5. CASE v = "msg"
  <2>1. tok = <<"oneof", "msg", Obj("val")>>
    BY <1>5 DEF OneofToken
  <2>2. tok[1] = "oneof" /\ tok[2] = "msg" /\ tok[3] = Obj("val")
    BY <2>1
  <2> QED
    BY <1>3, <1>5, <2>2 DEF ReadOneof
<1>6. CASE v = "nomsg"
  <2>1. tok \in {<<"oneof", "msg", Absent>>, <<"oneof", "msg", JNull>>}
    BY <1>6 DEF OneofToken
  <2>2. tok[1] = "oneof" /\ tok[2] = "msg" /\ tok[3] \in {Absent, JNull}
    BY <2>1
  <2> QED
    BY <1>2, <1>3, <1>6, <2>2 DEF ReadOneof
<1> QED
  BY <1>1, <1>3, <1>4, <1>5, <1>6

\* A value through a decoder of items, and a list or a map of what it has found.
OneValue(v) == IF v = "bad" THEN Failed ELSE Is(v)

Unboxed(g, tag, items) == IF tag # g.card \/ "bad" \in Range(items) THEN Failed ELSE Items(items)

LEMMA UnboxedOf ==
  ASSUME NEW g
  PROVE  /\ Unboxed(g, g.card, <<>>) = NoItems
         /\ \A v : v # "bad" => Unboxed(g, g.card, <<v>>) = Items(<<v>>)
<1>1. Range(<<>>) = {} /\ \A v : Range(<<v>>) = {v}
  BY DEF Range
<1> QED
  BY <1>1 DEF Unboxed, NoItems

LEMMA BoxShape ==
  ASSUME NEW g, Compiled(g), g.card # "one"
  PROVE  /\ <<g.card>> \notin {Absent, JNull} /\ \A t : <<g.card, t>> \notin {Absent, JNull}
         /\ Len(<<g.card>>) = 1 /\ <<g.card>>[1] = g.card
         /\ \A t : Len(<<g.card, t>>) = 2 /\ <<g.card, t>>[1] = g.card /\ <<g.card, t>>[2] = t
<1>1. g.card \in {"list", "map"}
  BY DEF Compiled, IsField
<1> QED
  BY <1>1 DEF Absent, JNull

\* A value of an enum has an ordinal that the enum has.
LEMMA GoItem ==
  ASSUME NEW g, Compiled(g), NEW v \in ItemValues(g) \ {"null"}
  PROVE  Go!Item(g, ItemToken(g, v)) = v
<1>1. Reads(g, ItemToken(g, v)) = v
  BY TokenRead
<1>2. NeedsEnumNumberEncoding(g) => ItemToken(g, v)[3] \in DOMAIN g.names
  <2>1. NeedsEnumNumberEncoding(g) => v \in Range(g.names) /\ ItemToken(g, v) = <<"number", "index", Ordinal(g, v)>>
    BY DEF NeedsEnumNumberEncoding, ItemValues, ItemToken, Num, Integers64
  <2>2. v \in Range(g.names) => Ordinal(g, v) \in DOMAIN g.names
    BY DEF Range, Ordinal
  <2> QED
    BY <2>1, <2>2
<1> QED
  BY <1>1, <1>2, GoSame DEF Go!Item

LEMMA GoReads ==
  ASSUME NEW g, Compiled(g), g.place = "body", NEW c, NEW tok, Carries(g, c, tok)
  PROVE  Decodes(g, c, Go!Decode(g, tok))
<1> DEFINE d == Go!Decode(g, tok)
           items == [i \in 1 .. Len(tok) - 1 |-> Go!Item(g, tok[i + 1])]
<1>1. /\ g.nullable => g.opt /\ g.card = "one" /\ g.kind \notin {"none", "oneof"}
      /\ g.kind \in {"none", "oneof"} => g.card = "one"
      /\ g.card # "one" => ~g.opt
  BY Markers
<1>2. d = IF g.kind = "none" THEN Unset
          ELSE IF tok = Absent THEN IF g.card # "one" THEN NoItems
                                    ELSE IF g.opt \/ g.kind \in {"msg", "oneof", "json"} THEN Unset
                                    ELSE Zero(g)
          ELSE IF g.kind = "oneof" THEN ReadOneof(tok, Is("nomsg"))
          ELSE IF g.card # "one" THEN IF tok = JNull THEN NoItems ELSE Unboxed(g, tok[1], items)
          ELSE IF tok # JNull THEN OneValue(Go!Item(g, tok))
          ELSE IF g.nullable THEN Null
          ELSE IF g.opt \/ g.kind = "msg" THEN Unset
          ELSE IF g.kind = "enum" THEN IF NeedsEnumNumberEncoding(g) THEN Zero(g) ELSE Failed
          ELSE Zero(g)
  BY GoSame DEF Go!Decode, Go!ReadContainer, Go!ReadValue, Unboxed, OneValue
<1> SUFFICES Decodes(g, c, d)
  OBVIOUS
<1> HIDE DEF d, items
<1>3. Absent # JNull
  BY WireApart
<1>4. CASE c = Unset /\ tok = Absent
  <2>1. \/ d = Unset
        \/ d = NoItems /\ g.card # "one"
        \/ d = Zero(g) /\ ~g.nullable /\ (Blank(g) \/ g.kind = "json")
        \/ d = Null /\ g.nullable /\ AlwaysSent(g)
    BY <1>1, <1>2, <1>3, <1>4 DEF Blank
  <2> QED
    BY <1>4, <2>1, Bare, DecodesBare
<1>5. CASE /\ c = Null /\ tok = JNull
           /\ g.card = "one" /\ (g.nullable \/ g.kind \in {"json", "msg"})
  <2>1. d = Null \/ (d \in {Unset, Is("null")} /\ ~g.nullable)
    BY <1>1, <1>2, <1>3, <1>5, Zeros
  <2> QED
    BY <1>5, <2>1, Bare, DecodesBare
<1>6. CASE c = NoItems /\ tok = <<g.card>> /\ g.card # "one"
  <2>1. Len(tok) = 1 /\ tok[1] = g.card /\ tok \notin {Absent, JNull}
    BY <1>6, BoxShape
  <2>2. items = <<>>
    BY <2>1 DEF items
  <2>3. d = NoItems
    BY <1>1, <1>2, <1>6, <2>1, <2>2, UnboxedOf
  <2> QED
    BY <1>6, <2>3, Bare, DecodesBare
<1>7. ASSUME NEW v, c = Is(v), Value(g, v, tok) PROVE Decodes(g, c, d)
  <2>1. v \in ItemValues(g) \ {"null"} /\ g.card = "one" /\ g.kind # "none"
    BY <1>7 DEF Value, ItemValues
  <2>2. CASE g.kind = "oneof"
    <3>1. tok \in {OneofToken(v, Absent), OneofToken(v, JNull)}
      BY <1>7, <2>2 DEF Value
    <3>2. d = Is(v) \/ (v = "nomsg" /\ d = Is("msg zero"))
      BY <1>1, <1>2, <2>1, <2>2, <3>1, OneofRead
    <3> QED
      BY <1>7, <3>2, HeldApart DEF Decodes
  <2>3. CASE g.kind # "oneof"
    <3>1. tok = ItemToken(g, v)
      BY <1>7, <2>3 DEF Value
    <3>2. tok \notin {Absent, JNull} /\ v # "bad"
      BY <2>1, <3>1, TokenRead
    <3>3. Go!Item(g, tok) = v
      BY <2>1, <3>1, GoItem
    <3>4. OneValue(v) = Is(v)
      BY <3>2 DEF OneValue
    <3>5. d = c
      BY <1>2, <1>7, <2>1, <2>3, <3>2, <3>3, <3>4
    <3> QED
      BY <1>7, <3>5, HeldApart DEF Decodes
  <2> QED
    BY <2>2, <2>3
<1>8. ASSUME NEW v, c = Items(<<v>>), Item(g, v, tok) PROVE Decodes(g, c, d)
  <2> DEFINE t == ItemToken(g, v)
  <2>1. v \in ItemValues(g) \ {"null"} /\ g.card # "one" /\ tok = <<g.card, t>>
    BY <1>8 DEF Item
  <2>2. Len(tok) = 2 /\ tok[1] = g.card /\ tok[2] = t /\ tok \notin {Absent, JNull}
    BY <2>1, BoxShape
  <2>3. v # "bad"
    BY <2>1, TokenRead
  <2>4. Go!Item(g, t) = v
    BY <2>1, GoItem
  <2> HIDE DEF t
  <2>5. items = <<v>>
    BY <2>2, <2>4 DEF items
  <2>6. d = c
    BY <1>1, <1>2, <1>8, <2>1, <2>2, <2>3, <2>5, UnboxedOf
  <2> QED
    BY <1>8, <2>6, HeldApart DEF Decodes
<1> QED
  BY <1>4, <1>5, <1>6, <1>7, <1>8 DEF Carries

\* A number that a TypeScript program would round.
TSRounds(f, m) == Holds(m, {"big", "huge"}) /\ f.kind \in Integers64 /\ ~NeedsInt64StringEncoding(f)

LEMMA TSItem ==
  ASSUME NEW g, Compiled(g), NEW v \in ItemValues(g) \ {"null"}, NEW c,
         c = Is(v) \/ c = Items(<<v>>), ~TSRounds(g, c)
  PROVE  TS!Item(g, ItemToken(g, v)) = v
<1>1. Reads(g, ItemToken(g, v)) = v
  BY TokenRead
<1>2. v \in {"big", "huge"} => Holds(c, {"big", "huge"})
  BY HeldItems DEF Holds
<1> QED
  BY <1>1, <1>2, TSSame DEF TS!Item, TS!Unsafe, TSRounds

LEMMA TSReads ==
  ASSUME NEW g, Compiled(g), g.place = "body", NEW c, NEW tok, Carries(g, c, tok), ~TSRounds(g, c)
  PROVE  Decodes(g, c, TS!Decode(g, tok))
<1> DEFINE d == TS!Decode(g, tok)
           items == [i \in 1 .. Len(tok) - 1 |-> TS!Item(g, tok[i + 1])]
<1>1. /\ g.nullable => g.opt /\ g.card = "one" /\ g.kind \notin {"none", "oneof"}
      /\ g.kind \in {"none", "oneof"} => g.card = "one"
      /\ g.card # "one" => ~g.opt
  BY Markers
<1>2. d = IF g.kind = "none" THEN Unset
          ELSE IF g.kind = "oneof" THEN IF tok = Absent THEN Unset ELSE ReadOneof(tok, Is("nomsg"))
          ELSE IF tok = Absent THEN IF g.nullable /\ AlwaysSent(g) THEN Null ELSE Unset
          ELSE IF tok = JNull THEN Null
          ELSE IF g.card # "one" THEN Unboxed(g, tok[1], items)
          ELSE OneValue(TS!Item(g, tok))
  BY TSSame DEF TS!Decode, TS!ReadContainer, TS!ReadValue, Unboxed, OneValue
<1> SUFFICES Decodes(g, c, d)
  OBVIOUS
<1> HIDE DEF d, items
<1>3. Absent # JNull
  BY WireApart
<1>4. CASE c = Unset /\ tok = Absent
  <2>1. \/ d = Unset
        \/ d = NoItems /\ g.card # "one"
        \/ d = Zero(g) /\ ~g.nullable /\ (Blank(g) \/ g.kind = "json")
        \/ d = Null /\ g.nullable /\ AlwaysSent(g)
    BY <1>1, <1>2, <1>3, <1>4
  <2> QED
    BY <1>4, <2>1, Bare, DecodesBare
<1>5. CASE /\ c = Null /\ tok = JNull
           /\ g.card = "one" /\ (g.nullable \/ g.kind \in {"json", "msg"})
  <2>1. d = Null \/ (d \in {Unset, Is("null")} /\ ~g.nullable)
    BY <1>1, <1>2, <1>3, <1>5
  <2> QED
    BY <1>5, <2>1, Bare, DecodesBare
<1>6. CASE c = NoItems /\ tok = <<g.card>> /\ g.card # "one"
  <2>1. Len(tok) = 1 /\ tok[1] = g.card /\ tok \notin {Absent, JNull}
    BY <1>6, BoxShape
  <2>2. items = <<>>
    BY <2>1 DEF items
  <2>3. d = NoItems
    BY <1>1, <1>2, <1>6, <2>1, <2>2, UnboxedOf
  <2> QED
    BY <1>6, <2>3, Bare, DecodesBare
<1>7. ASSUME NEW v, c = Is(v), Value(g, v, tok) PROVE Decodes(g, c, d)
  <2>1. v \in ItemValues(g) \ {"null"} /\ g.card = "one" /\ g.kind # "none"
    BY <1>7 DEF Value, ItemValues
  <2>2. CASE g.kind = "oneof"
    <3>1. tok \in {OneofToken(v, Absent), OneofToken(v, JNull)}
      BY <1>7, <2>2 DEF Value
    <3>2. d = Is(v) \/ (v = "nomsg" /\ d = Is("msg zero"))
      BY <1>1, <1>2, <2>1, <2>2, <3>1, OneofRead
    <3> QED
      BY <1>7, <3>2, HeldApart DEF Decodes
  <2>3. CASE g.kind # "oneof"
    <3>1. tok = ItemToken(g, v)
      BY <1>7, <2>3 DEF Value
    <3>2. tok \notin {Absent, JNull} /\ v # "bad"
      BY <2>1, <3>1, TokenRead
    <3>3. TS!Item(g, tok) = v
      BY <1>7, <2>1, <3>1, TSItem
    <3>4. OneValue(v) = Is(v)
      BY <3>2 DEF OneValue
    <3>5. d = c
      BY <1>2, <1>7, <2>1, <2>3, <3>2, <3>3, <3>4
    <3> QED
      BY <1>7, <3>5, HeldApart DEF Decodes
  <2> QED
    BY <2>2, <2>3
<1>8. ASSUME NEW v, c = Items(<<v>>), Item(g, v, tok) PROVE Decodes(g, c, d)
  <2> DEFINE t == ItemToken(g, v)
  <2>1. v \in ItemValues(g) \ {"null"} /\ g.card # "one" /\ tok = <<g.card, t>>
    BY <1>8 DEF Item
  <2>2. Len(tok) = 2 /\ tok[1] = g.card /\ tok[2] = t /\ tok \notin {Absent, JNull}
    BY <2>1, BoxShape
  <2>3. v # "bad"
    BY <2>1, TokenRead
  <2>4. TS!Item(g, t) = v
    BY <1>8, <2>1, TSItem
  <2> HIDE DEF t
  <2>5. items = <<v>>
    BY <2>2, <2>4 DEF items
  <2>6. d = c
    BY <1>1, <1>2, <1>8, <2>1, <2>2, <2>3, <2>5, UnboxedOf
  <2> QED
    BY <1>8, <2>6, HeldApart DEF Decodes
<1> QED
  BY <1>4, <1>5, <1>6, <1>7, <1>8 DEF Carries

LEMMA PythonTruthy ==
  ASSUME NEW g, NEW v, g.kind = "json", ItemToken(g, v) = JAny("falsy")
  PROVE  v = "falsy"
BY DEF ItemToken, Integers64, JAny, JNull

LEMMA PythonReads ==
  ASSUME NEW g, Compiled(g), g.place = "body", NEW c, NEW tok, Carries(g, c, tok), ~(g.kind = "json" /\ c = Is("falsy"))
  PROVE  Decodes(g, c, Python!Decode(g, tok))
<1> DEFINE d == Python!Decode(g, tok)
           items == [i \in 1 .. Len(tok) - 1 |-> ReadsEitherForm(g, tok[i + 1])]
<1>1. /\ g.nullable => g.opt /\ g.card = "one" /\ g.kind \notin {"none", "oneof"}
      /\ g.kind \in {"none", "oneof"} => g.card = "one"
      /\ g.card # "one" => ~g.opt
  BY Markers
<1>2. d = IF g.kind = "none" THEN Unset
          ELSE IF g.kind = "oneof" THEN IF tok \in {Absent, JNull} THEN Unset ELSE ReadOneof(tok, Is("nomsg"))
          ELSE IF g.card # "one" THEN IF tok \in {Absent, JNull} THEN NoItems ELSE Unboxed(g, tok[1], items)
          ELSE IF tok = JNull /\ g.nullable THEN Null
          ELSE IF tok \in {Absent, JNull}
               THEN IF g.opt \/ g.kind \in {"msg", "json"} \/ TimeText(g) THEN Unset ELSE Zero(g)
          ELSE IF g.kind = "json" /\ ~g.opt /\ tok = JAny("falsy") THEN Unset
          ELSE OneValue(ReadsEitherForm(g, tok))
  BY PythonSame DEF Python!Decode, Python!ReadContainer, Python!ReadValue, Unboxed, OneValue
<1> SUFFICES Decodes(g, c, d)
  OBVIOUS
<1> HIDE DEF d, items
<1>3. Absent # JNull
  BY WireApart
<1>4. CASE c = Unset /\ tok = Absent
  <2>1. \/ d = Unset
        \/ d = NoItems /\ g.card # "one"
        \/ d = Zero(g) /\ ~g.nullable /\ (Blank(g) \/ g.kind = "json")
        \/ d = Null /\ g.nullable /\ AlwaysSent(g)
    BY <1>1, <1>2, <1>3, <1>4 DEF Blank
  <2> QED
    BY <1>4, <2>1, Bare, DecodesBare
<1>5. CASE /\ c = Null /\ tok = JNull
           /\ g.card = "one" /\ (g.nullable \/ g.kind \in {"json", "msg"})
  <2>1. d = Null \/ (d \in {Unset, Is("null")} /\ ~g.nullable)
    BY <1>1, <1>2, <1>3, <1>5
  <2> QED
    BY <1>5, <2>1, Bare, DecodesBare
<1>6. CASE c = NoItems /\ tok = <<g.card>> /\ g.card # "one"
  <2>1. Len(tok) = 1 /\ tok[1] = g.card /\ tok \notin {Absent, JNull}
    BY <1>6, BoxShape
  <2>2. items = <<>>
    BY <2>1 DEF items
  <2>3. d = NoItems
    BY <1>1, <1>2, <1>6, <2>1, <2>2, UnboxedOf
  <2> QED
    BY <1>6, <2>3, Bare, DecodesBare
<1>7. ASSUME NEW v, c = Is(v), Value(g, v, tok) PROVE Decodes(g, c, d)
  <2>1. v \in ItemValues(g) \ {"null"} /\ g.card = "one" /\ g.kind # "none"
    BY <1>7 DEF Value, ItemValues
  <2>2. CASE g.kind = "oneof"
    <3>1. tok \in {OneofToken(v, Absent), OneofToken(v, JNull)}
      BY <1>7, <2>2 DEF Value
    <3>2. d = Is(v) \/ (v = "nomsg" /\ d = Is("msg zero"))
      BY <1>1, <1>2, <2>1, <2>2, <3>1, OneofRead
    <3> QED
      BY <1>7, <3>2, HeldApart DEF Decodes
  <2>3. CASE g.kind # "oneof"
    <3>1. tok = ItemToken(g, v)
      BY <1>7, <2>3 DEF Value
    <3>2. tok \notin {Absent, JNull} /\ v # "bad"
      BY <2>1, <3>1, TokenRead
    <3>3. ReadsEitherForm(g, tok) = v
      BY <2>1, <3>1, TokenRead
    <3>4. OneValue(v) = Is(v)
      BY <3>2 DEF OneValue
    <3>5. d = c
      BY <1>2, <1>7, <2>1, <2>3, <3>2, <3>1, <3>3, <3>4, PythonTruthy, HeldApart
    <3> QED
      BY <1>7, <3>5, HeldApart DEF Decodes
  <2> QED
    BY <2>2, <2>3
<1>8. ASSUME NEW v, c = Items(<<v>>), Item(g, v, tok) PROVE Decodes(g, c, d)
  <2> DEFINE t == ItemToken(g, v)
  <2>1. v \in ItemValues(g) \ {"null"} /\ g.card # "one" /\ tok = <<g.card, t>>
    BY <1>8 DEF Item
  <2>2. Len(tok) = 2 /\ tok[1] = g.card /\ tok[2] = t /\ tok \notin {Absent, JNull}
    BY <2>1, BoxShape
  <2>3. v # "bad"
    BY <2>1, TokenRead
  <2>4. ReadsEitherForm(g, t) = v
    BY <2>1, TokenRead
  <2> HIDE DEF t
  <2>5. items = <<v>>
    BY <2>2, <2>4 DEF items
  <2>6. d = c
    BY <1>1, <1>2, <1>8, <2>1, <2>2, <2>3, <2>5, UnboxedOf
  <2> QED
    BY <1>8, <2>6, HeldApart DEF Decodes
<1> QED
  BY <1>4, <1>5, <1>6, <1>7, <1>8 DEF Carries

LEMMA AbsentOneof == \A n : ReadOneof(Absent, n) = Unset
BY DEF ReadOneof, Absent

LEMMA DartItem ==
  ASSUME NEW g, Compiled(g), NEW v \in ItemValues(g) \ {"null"}, NEW c,
         c = Is(v) \/ c = Items(<<v>>), ~DartClamps(g, c)
  PROVE  Dart!Item(g, ItemToken(g, v)) = v
<1>1. ReadsEitherForm(g, ItemToken(g, v)) = v
  BY TokenRead
<1>2. v = "huge" => Holds(c, {"huge"})
  BY HeldItems DEF Holds
<1>3. ItemToken(g, v) = Num("int", "huge") => v = "huge" /\ g.kind \in Integers64 /\ ~NeedsInt64StringEncoding(g)
  <2>1. CASE g.kind \in Integers64
    BY <2>1 DEF ItemToken, Str, Num, Integers64
  <2>2. CASE g.kind \notin Integers64
    BY <2>2 DEF ItemToken, Str, Num, Obj, JAny, JNull
  <2> QED
    BY <2>1, <2>2
<1> QED
  BY <1>1, <1>2, <1>3, DartSame DEF Dart!Item, DartClamps

LEMMA DartReads ==
  ASSUME NEW g, Compiled(g), g.place = "body", NEW c, NEW tok, Carries(g, c, tok), ~DartClamps(g, c)
  PROVE  Decodes(g, c, Dart!Decode(g, tok))
<1> DEFINE d == Dart!Decode(g, tok)
           items == [i \in 1 .. Len(tok) - 1 |-> Dart!Item(g, tok[i + 1])]
<1>1. /\ g.nullable => g.opt /\ g.card = "one" /\ g.kind \notin {"none", "oneof"}
      /\ g.kind \in {"none", "oneof"} => g.card = "one"
      /\ g.card # "one" => ~g.opt
  BY Markers
<1>2. d = IF g.kind = "none" THEN Unset
          ELSE IF g.kind = "oneof" THEN ReadOneof(tok, Is("msg zero"))
          ELSE IF tok = JNull /\ g.nullable THEN Null
          ELSE IF tok \in {Absent, JNull}
               THEN IF Dart!MayBeNull(g) THEN Unset ELSE IF g.card # "one" THEN NoItems ELSE Zero(g)
          ELSE IF g.card # "one" THEN Unboxed(g, tok[1], items)
          ELSE OneValue(Dart!Item(g, tok))
  BY DartSame DEF Dart!Decode, Dart!ReadContainer, Dart!ReadValue, Unboxed, OneValue
<1> SUFFICES Decodes(g, c, d)
  OBVIOUS
<1> HIDE DEF d, items
<1>3. Absent # JNull
  BY WireApart
<1>4. CASE c = Unset /\ tok = Absent
  <2>1. \/ d = Unset
        \/ d = NoItems /\ g.card # "one"
        \/ d = Zero(g) /\ ~g.nullable /\ (Blank(g) \/ g.kind = "json")
        \/ d = Null /\ g.nullable /\ AlwaysSent(g)
    BY <1>1, <1>2, <1>3, <1>4, AbsentOneof DEF Blank, Dart!MayBeNull
  <2> QED
    BY <1>4, <2>1, Bare, DecodesBare
<1>5. CASE /\ c = Null /\ tok = JNull
           /\ g.card = "one" /\ (g.nullable \/ g.kind \in {"json", "msg"})
  <2>1. d = Null \/ (d \in {Unset, Is("null")} /\ ~g.nullable)
    BY <1>1, <1>2, <1>3, <1>5 DEF Dart!MayBeNull
  <2> QED
    BY <1>5, <2>1, Bare, DecodesBare
<1>6. CASE c = NoItems /\ tok = <<g.card>> /\ g.card # "one"
  <2>1. Len(tok) = 1 /\ tok[1] = g.card /\ tok \notin {Absent, JNull}
    BY <1>6, BoxShape
  <2>2. items = <<>>
    BY <2>1 DEF items
  <2>3. d = NoItems
    BY <1>1, <1>2, <1>6, <2>1, <2>2, UnboxedOf
  <2> QED
    BY <1>6, <2>3, Bare, DecodesBare
<1>7. ASSUME NEW v, c = Is(v), Value(g, v, tok) PROVE Decodes(g, c, d)
  <2>1. v \in ItemValues(g) \ {"null"} /\ g.card = "one" /\ g.kind # "none"
    BY <1>7 DEF Value, ItemValues
  <2>2. CASE g.kind = "oneof"
    <3>1. tok \in {OneofToken(v, Absent), OneofToken(v, JNull)}
      BY <1>7, <2>2 DEF Value
    <3>2. d = Is(v) \/ (v = "nomsg" /\ d = Is("msg zero"))
      BY <1>1, <1>2, <2>1, <2>2, <3>1, OneofRead
    <3> QED
      BY <1>7, <3>2, HeldApart DEF Decodes
  <2>3. CASE g.kind # "oneof"
    <3>1. tok = ItemToken(g, v)
      BY <1>7, <2>3 DEF Value
    <3>2. tok \notin {Absent, JNull} /\ v # "bad"
      BY <2>1, <3>1, TokenRead
    <3>3. Dart!Item(g, tok) = v
      BY <1>7, <2>1, <3>1, DartItem
    <3>4. OneValue(v) = Is(v)
      BY <3>2 DEF OneValue
    <3>5. d = c
      BY <1>2, <1>7, <2>1, <2>3, <3>2, <3>3, <3>4
    <3> QED
      BY <1>7, <3>5, HeldApart DEF Decodes
  <2> QED
    BY <2>2, <2>3
<1>8. ASSUME NEW v, c = Items(<<v>>), Item(g, v, tok) PROVE Decodes(g, c, d)
  <2> DEFINE t == ItemToken(g, v)
  <2>1. v \in ItemValues(g) \ {"null"} /\ g.card # "one" /\ tok = <<g.card, t>>
    BY <1>8 DEF Item
  <2>2. Len(tok) = 2 /\ tok[1] = g.card /\ tok[2] = t /\ tok \notin {Absent, JNull}
    BY <2>1, BoxShape
  <2>3. v # "bad"
    BY <2>1, TokenRead
  <2>4. Dart!Item(g, t) = v
    BY <1>8, <2>1, DartItem
  <2> HIDE DEF t
  <2>5. items = <<v>>
    BY <2>2, <2>4 DEF items
  <2>6. d = c
    BY <1>1, <1>2, <1>8, <2>1, <2>2, <2>3, <2>5, UnboxedOf
  <2> QED
    BY <1>8, <2>6, HeldApart DEF Decodes
<1> QED
  BY <1>4, <1>5, <1>6, <1>7, <1>8 DEF Carries

LEMMA SwiftReads ==
  ASSUME NEW g, Compiled(g), g.place = "body", NEW c, NEW tok, Carries(g, c, tok)
  PROVE  Decodes(g, c, Swift!Decode(g, tok))
<1> DEFINE d == Swift!Decode(g, tok)
           items == [i \in 1 .. Len(tok) - 1 |-> ReadsEitherForm(g, tok[i + 1])]
<1>1. /\ g.nullable => g.opt /\ g.card = "one" /\ g.kind \notin {"none", "oneof"}
      /\ g.kind \in {"none", "oneof"} => g.card = "one"
      /\ g.card # "one" => ~g.opt
  BY Markers
<1>2. d = IF g.kind = "none" THEN Unset
          ELSE IF g.kind = "oneof" THEN ReadOneof(tok, Is("msg zero"))
          ELSE IF tok = JNull /\ g.nullable THEN Null
          ELSE IF tok \in {Absent, JNull}
               THEN IF Swift!MayBeNil(g) THEN Unset ELSE IF g.card # "one" THEN NoItems ELSE Zero(g)
          ELSE IF g.card # "one" THEN Unboxed(g, tok[1], items)
          ELSE OneValue(ReadsEitherForm(g, tok))
  BY SwiftSame DEF Swift!Decode, Swift!ReadContainer, Swift!ReadValue, Unboxed, OneValue
<1> SUFFICES Decodes(g, c, d)
  OBVIOUS
<1> HIDE DEF d, items
<1>3. Absent # JNull
  BY WireApart
<1>4. CASE c = Unset /\ tok = Absent
  <2>1. \/ d = Unset
        \/ d = NoItems /\ g.card # "one"
        \/ d = Zero(g) /\ ~g.nullable /\ (Blank(g) \/ g.kind = "json")
        \/ d = Null /\ g.nullable /\ AlwaysSent(g)
    BY <1>1, <1>2, <1>3, <1>4, AbsentOneof DEF Blank, Swift!MayBeNil
  <2> QED
    BY <1>4, <2>1, Bare, DecodesBare
<1>5. CASE /\ c = Null /\ tok = JNull
           /\ g.card = "one" /\ (g.nullable \/ g.kind \in {"json", "msg"})
  <2>1. d = Null \/ (d \in {Unset, Is("null")} /\ ~g.nullable)
    BY <1>1, <1>2, <1>3, <1>5 DEF Swift!MayBeNil
  <2> QED
    BY <1>5, <2>1, Bare, DecodesBare
<1>6. CASE c = NoItems /\ tok = <<g.card>> /\ g.card # "one"
  <2>1. Len(tok) = 1 /\ tok[1] = g.card /\ tok \notin {Absent, JNull}
    BY <1>6, BoxShape
  <2>2. items = <<>>
    BY <2>1 DEF items
  <2>3. d = NoItems
    BY <1>1, <1>2, <1>6, <2>1, <2>2, UnboxedOf
  <2> QED
    BY <1>6, <2>3, Bare, DecodesBare
<1>7. ASSUME NEW v, c = Is(v), Value(g, v, tok) PROVE Decodes(g, c, d)
  <2>1. v \in ItemValues(g) \ {"null"} /\ g.card = "one" /\ g.kind # "none"
    BY <1>7 DEF Value, ItemValues
  <2>2. CASE g.kind = "oneof"
    <3>1. tok \in {OneofToken(v, Absent), OneofToken(v, JNull)}
      BY <1>7, <2>2 DEF Value
    <3>2. d = Is(v) \/ (v = "nomsg" /\ d = Is("msg zero"))
      BY <1>1, <1>2, <2>1, <2>2, <3>1, OneofRead
    <3> QED
      BY <1>7, <3>2, HeldApart DEF Decodes
  <2>3. CASE g.kind # "oneof"
    <3>1. tok = ItemToken(g, v)
      BY <1>7, <2>3 DEF Value
    <3>2. tok \notin {Absent, JNull} /\ v # "bad"
      BY <2>1, <3>1, TokenRead
    <3>3. ReadsEitherForm(g, tok) = v
      BY <2>1, <3>1, TokenRead
    <3>4. OneValue(v) = Is(v)
      BY <3>2 DEF OneValue
    <3>5. d = c
      BY <1>2, <1>7, <2>1, <2>3, <3>2, <3>3, <3>4
    <3> QED
      BY <1>7, <3>5, HeldApart DEF Decodes
  <2> QED
    BY <2>2, <2>3
<1>8. ASSUME NEW v, c = Items(<<v>>), Item(g, v, tok) PROVE Decodes(g, c, d)
  <2> DEFINE t == ItemToken(g, v)
  <2>1. v \in ItemValues(g) \ {"null"} /\ g.card # "one" /\ tok = <<g.card, t>>
    BY <1>8 DEF Item
  <2>2. Len(tok) = 2 /\ tok[1] = g.card /\ tok[2] = t /\ tok \notin {Absent, JNull}
    BY <2>1, BoxShape
  <2>3. v # "bad"
    BY <2>1, TokenRead
  <2>4. ReadsEitherForm(g, t) = v
    BY <2>1, TokenRead
  <2> HIDE DEF t
  <2>5. items = <<v>>
    BY <2>2, <2>4 DEF items
  <2>6. d = c
    BY <1>1, <1>2, <1>8, <2>1, <2>2, <2>3, <2>5, UnboxedOf
  <2> QED
    BY <1>8, <2>6, HeldApart DEF Decodes
<1> QED
  BY <1>4, <1>5, <1>6, <1>7, <1>8 DEF Carries

\* serde reads null as raw JSON.
LEMMA RustNull ==
  ASSUME NEW g, g.kind = "json"
  PROVE  OneValue(Reads(g, JNull)) = Is("null")
<1>1. "null" \in ItemValues(g) /\ ItemToken(g, "null") = JNull
  BY DEF ItemValues, ItemToken, Integers64
<1>2. Reads(g, JNull) = "null"
  BY <1>1, ReadsBack
<1> QED
  BY <1>2 DEF OneValue

LEMMA RustReads ==
  ASSUME NEW g, Compiled(g), g.place = "body", NEW c, NEW tok, Carries(g, c, tok), c # Is("nomsg")
  PROVE  Decodes(g, c, Rust!Decode(g, tok))
<1> DEFINE d == Rust!Decode(g, tok)
           items == [i \in 1 .. Len(tok) - 1 |-> Reads(g, tok[i + 1])]
<1>1. /\ g.nullable => g.opt /\ g.card = "one" /\ g.kind \notin {"none", "oneof"}
      /\ g.kind \in {"none", "oneof"} => g.card = "one"
      /\ g.card # "one" => ~g.opt
  BY Markers
<1>2. d = IF g.kind = "none" THEN Unset
          ELSE IF tok = Absent
               THEN IF g.card # "one" THEN NoItems
                    ELSE IF Rust!IsOption(g) \/ TimeText(g) THEN Unset ELSE Zero(g)
          ELSE IF g.kind = "oneof" THEN ReadOneof(tok, Failed)
          ELSE IF g.card # "one" THEN Unboxed(g, tok[1], items)
          ELSE IF tok = JNull /\ g.nullable THEN Null
          ELSE IF tok = JNull /\ Rust!IsOption(g) THEN Unset
          ELSE OneValue(Reads(g, tok))
  BY RustSame DEF Rust!Decode, Rust!ReadContainer, Rust!ReadValue, Unboxed, OneValue
<1> SUFFICES Decodes(g, c, d)
  OBVIOUS
<1> HIDE DEF d, items
<1>3. Absent # JNull
  BY WireApart
<1>4. CASE c = Unset /\ tok = Absent
  <2>1. \/ d = Unset
        \/ d = NoItems /\ g.card # "one"
        \/ d = Zero(g) /\ ~g.nullable /\ (Blank(g) \/ g.kind = "json")
        \/ d = Null /\ g.nullable /\ AlwaysSent(g)
    BY <1>1, <1>2, <1>3, <1>4 DEF Blank, Rust!IsOption
  <2> QED
    BY <1>4, <2>1, Bare, DecodesBare
<1>5. CASE /\ c = Null /\ tok = JNull
           /\ g.card = "one" /\ (g.nullable \/ g.kind \in {"json", "msg"})
  <2>1. d = Null \/ (d \in {Unset, Is("null")} /\ ~g.nullable)
    BY <1>1, <1>2, <1>3, <1>5, RustNull DEF Rust!IsOption
  <2> QED
    BY <1>5, <2>1, Bare, DecodesBare
<1>6. CASE c = NoItems /\ tok = <<g.card>> /\ g.card # "one"
  <2>1. Len(tok) = 1 /\ tok[1] = g.card /\ tok \notin {Absent, JNull}
    BY <1>6, BoxShape
  <2>2. items = <<>>
    BY <2>1 DEF items
  <2>3. d = NoItems
    BY <1>1, <1>2, <1>6, <2>1, <2>2, UnboxedOf
  <2> QED
    BY <1>6, <2>3, Bare, DecodesBare
<1>7. ASSUME NEW v, c = Is(v), Value(g, v, tok) PROVE Decodes(g, c, d)
  <2>1. v \in ItemValues(g) \ {"null"} /\ g.card = "one" /\ g.kind # "none"
    BY <1>7 DEF Value, ItemValues
  <2>2. CASE g.kind = "oneof"
    <3>1. tok \in {OneofToken(v, Absent), OneofToken(v, JNull)}
      BY <1>7, <2>2 DEF Value
    <3>2. d = Is(v) \/ (v = "nomsg" /\ d = Is("msg zero"))
      BY <1>1, <1>2, <2>1, <2>2, <3>1, OneofRead, <1>7
    <3> QED
      BY <1>7, <3>2, HeldApart DEF Decodes
  <2>3. CASE g.kind # "oneof"
    <3>1. tok = ItemToken(g, v)
      BY <1>7, <2>3 DEF Value
    <3>2. tok \notin {Absent, JNull} /\ v # "bad"
      BY <2>1, <3>1, TokenRead
    <3>3. Reads(g, tok) = v
      BY <2>1, <3>1, TokenRead
    <3>4. OneValue(v) = Is(v)
      BY <3>2 DEF OneValue
    <3>5. d = c
      BY <1>2, <1>7, <2>1, <2>3, <3>2, <3>3, <3>4
    <3> QED
      BY <1>7, <3>5, HeldApart DEF Decodes
  <2> QED
    BY <2>2, <2>3
<1>8. ASSUME NEW v, c = Items(<<v>>), Item(g, v, tok) PROVE Decodes(g, c, d)
  <2> DEFINE t == ItemToken(g, v)
  <2>1. v \in ItemValues(g) \ {"null"} /\ g.card # "one" /\ tok = <<g.card, t>>
    BY <1>8 DEF Item
  <2>2. Len(tok) = 2 /\ tok[1] = g.card /\ tok[2] = t /\ tok \notin {Absent, JNull}
    BY <2>1, BoxShape
  <2>3. v # "bad"
    BY <2>1, TokenRead
  <2>4. Reads(g, t) = v
    BY <2>1, TokenRead
  <2> HIDE DEF t
  <2>5. items = <<v>>
    BY <2>2, <2>4 DEF items
  <2>6. d = c
    BY <1>1, <1>2, <1>8, <2>1, <2>2, <2>3, <2>5, UnboxedOf
  <2> QED
    BY <1>8, <2>6, HeldApart DEF Decodes
<1> QED
  BY <1>4, <1>5, <1>6, <1>7, <1>8 DEF Carries

-----------------------------------------------------------------------------
(* Parameters in the path and the query.                                   *)

LEMMA ParamFacts ==
  ASSUME NEW f, Compiled(f), f.place # "body"
  PROVE  /\ f.kind \in {"text", "number", "int64", "uint64"} /\ f.card \in {"one", "list"}
         /\ ~AlwaysSent(f) /\ "null" \notin ItemValues(f)
         /\ f.use = {"request"}
<1>1. f.kind \in {"text", "number", "int64", "uint64"} /\ f.card \in {"one", "list"}
  BY DEF Compiled, Compiles, PlaceAllowed, IsHTTPParameterScalar, Integers64, IsField
<1>2. f.use = {"request"}
  BY DEF Compiled, IsField
<1>3. f.use # {"response"}
  BY <1>2
<1> QED
  BY <1>1, <1>2, <1>3 DEF AlwaysSent, ResponseOnly, ItemValues

LEMMA ParamWrites ==
  ASSUME NEW f, Compiled(f), f.place # "body", NEW m, Held(f, m), m # Null
  PROVE  Writes(f, m, ParamToken(f, m))
<1>1. /\ f.kind \in {"text", "number", "int64", "uint64"} /\ f.card \in {"one", "list"}
      /\ "null" \notin ItemValues(f)
  BY ParamFacts
<1>2. f.card # "one" => ~f.nullable
  BY Markers
<1>3. CASE m \in {Unset, NoItems}
  <2>1. ParamToken(f, m) = Absent
    BY <1>3 DEF ParamToken
  <2>2. m = NoItems => ~f.nullable
    BY <1>2, Bare, HeldApart DEF Held
  <2>3. Alike(f, Unset, m)
    BY <1>3, <2>2 DEF Alike
  <2> QED
    BY <2>1, <2>3 DEF Writes, Carries
<1>4. ASSUME f.card = "one", NEW v \in ItemValues(f), m = Is(v) PROVE Writes(f, m, ParamToken(f, m))
  <2>1. m[2] = v /\ m \notin {Unset, Null, NoItems}
    BY <1>4, HeldItems, HeldApart
  <2>2. ParamToken(f, m) = Param(v)
    BY <1>4, <2>1 DEF ParamToken
  <2>3. Value(f, v, Param(v))
    BY <1>1, <1>4 DEF Value
  <2> QED
    BY <1>4, <2>2, <2>3 DEF Writes, Carries, Alike
<1>5. ASSUME f.card # "one", NEW v \in ItemValues(f) \ {"null"}, m = Items(<<v>>)
      PROVE  Writes(f, m, ParamToken(f, m))
  <2>1. Tail(m) = <<v>> /\ m \notin {Unset, Null, NoItems}
    BY <1>5, HeldItems, HeldApart
  <2>2. <<"params", v>> = <<"params">> \o <<v>>
    OBVIOUS
  <2>3. ParamToken(f, m) = <<"params", v>>
    BY <1>1, <1>5, <2>1, <2>2 DEF ParamToken, Params
  <2>4. Item(f, v, <<"params", v>>)
    BY <1>5 DEF Item
  <2> QED
    BY <1>5, <2>3, <2>4 DEF Writes, Carries, Alike
<1> QED
  BY <1>3, <1>4, <1>5 DEF Held

\* What a client writes, in any of the languages.
WriterLoss(l, f, m) ==
    \/ l = "Dart" /\ DartClamps(f, m)
    \/ f.place # "body" /\ (m = Null \/ (f.place = "path" /\ l = "TS" /\ m = Unset))

LEMMA LanguageWrites ==
  ASSUME NEW l \in Languages, NEW f, Compiled(f), NEW m \in Memory(l, f), ~WriterLoss(l, f, m)
  PROVE  Held(f, m) /\ Writes(f, m, Encode(l, f, m))
<1>1. CASE l = "Go"
  <2>1. m \in Go!Memory(f) /\ Encode(l, f, m) = Go!Encode(f, m)
    BY <1>1 DEF Memory, Encode
  <2>2. Held(f, m)
    BY <2>1, GoHolds
  <2>3. CASE f.place = "body"
    <3>1. Encodes(f, m, Go!Encode(f, m))
      BY <2>1, <2>3, GoEncodes
    <3> QED
      BY <2>1, <2>2, <2>3, <3>1, EncodesWrites
  <2>4. CASE f.place # "body"
    <3>1. m # Null
      BY <1>1, <2>4 DEF WriterLoss
    <3>2. Go!Encode(f, m) = ParamToken(f, m)
      BY <2>4, <3>1, GoSame DEF Go!Encode, Go!Parameter
    <3> QED
      BY <2>1, <2>2, <2>4, <3>1, <3>2, ParamWrites
  <2> QED
    BY <2>3, <2>4
<1>2. CASE l = "TS"
  <2>1. m \in TS!Memory(f) /\ Encode(l, f, m) = TS!Encode(f, m)
    BY <1>2 DEF Memory, Encode
  <2>2. Held(f, m)
    BY <2>1, TSHolds
  <2>3. CASE f.place = "body"
    <3>1. Encodes(f, m, TS!Encode(f, m))
      BY <2>1, <2>3, TSEncodes
    <3> QED
      BY <2>1, <2>2, <2>3, <3>1, EncodesWrites
  <2>4. CASE f.place # "body"
    <3>1. m # Null /\ ~(m = Unset /\ f.place = "path")
      BY <1>2, <2>4 DEF WriterLoss
    <3>2. TS!Encode(f, m) = ParamToken(f, m)
      BY <2>4, <3>1, TSSame DEF TS!Encode, TS!Parameter
    <3> QED
      BY <2>1, <2>2, <2>4, <3>1, <3>2, ParamWrites
  <2> QED
    BY <2>3, <2>4
<1>3. CASE l = "Python"
  <2>1. m \in Python!Memory(f) /\ Encode(l, f, m) = Python!Encode(f, m)
    BY <1>3 DEF Memory, Encode
  <2>2. Held(f, m)
    BY <2>1, PythonHolds
  <2>3. CASE f.place = "body"
    <3>1. Encodes(f, m, Python!Encode(f, m))
      BY <2>1, <2>3, PythonEncodes
    <3> QED
      BY <2>1, <2>2, <2>3, <3>1, EncodesWrites
  <2>4. CASE f.place # "body"
    <3>1. m # Null
      BY <1>3, <2>4 DEF WriterLoss
    <3>2. Python!Encode(f, m) = ParamToken(f, m)
      BY <2>4, <3>1, PythonSame DEF Python!Encode, Python!Parameter
    <3> QED
      BY <2>1, <2>2, <2>4, <3>1, <3>2, ParamWrites
  <2> QED
    BY <2>3, <2>4
<1>4. CASE l = "Dart"
  <2>1. m \in Dart!Memory(f) /\ Encode(l, f, m) = Dart!Encode(f, m)
    BY <1>4 DEF Memory, Encode
  <2>2. ~DartClamps(f, m)
    BY <1>4 DEF WriterLoss
  <2>3. Held(f, m)
    BY <2>1, DartHolds
  <2>4. CASE f.place = "body"
    <3>1. Encodes(f, m, Dart!Encode(f, m))
      BY <2>1, <2>4, DartEncodes, <2>2
    <3> QED
      BY <2>1, <2>3, <2>4, <3>1, EncodesWrites
  <2>5. CASE f.place # "body"
    <3>1. m # Null
      BY <1>4, <2>5 DEF WriterLoss
    <3>2. Dart!Encode(f, m) = ParamToken(f, m)
      BY <2>5, <3>1, DartSame DEF Dart!Encode, Dart!Parameter
    <3> QED
      BY <2>1, <2>3, <2>5, <3>1, <3>2, ParamWrites
  <2> QED
    BY <2>4, <2>5
<1>5. CASE l = "Swift"
  <2>1. m \in Swift!Memory(f) /\ Encode(l, f, m) = Swift!Encode(f, m)
    BY <1>5 DEF Memory, Encode
  <2>2. Held(f, m)
    BY <2>1, SwiftHolds
  <2>3. CASE f.place = "body"
    <3>1. Encodes(f, m, Swift!Encode(f, m))
      BY <2>1, <2>3, SwiftEncodes
    <3> QED
      BY <2>1, <2>2, <2>3, <3>1, EncodesWrites
  <2>4. CASE f.place # "body"
    <3>1. m # Null
      BY <1>5, <2>4 DEF WriterLoss
    <3>2. Swift!Encode(f, m) = ParamToken(f, m)
      BY <2>4, <3>1, SwiftSame DEF Swift!Encode, Swift!Parameter
    <3> QED
      BY <2>1, <2>2, <2>4, <3>1, <3>2, ParamWrites
  <2> QED
    BY <2>3, <2>4
<1>6. CASE l = "Rust"
  <2>1. m \in Rust!Memory(f) /\ Encode(l, f, m) = Rust!Encode(f, m)
    BY <1>6 DEF Memory, Encode
  <2>2. Held(f, m)
    BY <2>1, RustHolds
  <2>3. CASE f.place = "body"
    <3>1. Encodes(f, m, Rust!Encode(f, m))
      BY <2>1, <2>3, RustEncodes
    <3> QED
      BY <2>1, <2>2, <2>3, <3>1, EncodesWrites
  <2>4. CASE f.place # "body"
    <3>1. m # Null
      BY <1>6, <2>4 DEF WriterLoss
    <3>2. Rust!Encode(f, m) = ParamToken(f, m)
      BY <2>4, <3>1, RustSame DEF Rust!Encode, Rust!Parameter
    <3> QED
      BY <2>1, <2>2, <2>4, <3>1, <3>2, ParamWrites
  <2> QED
    BY <2>3, <2>4
<1> QED
  BY <1>1, <1>2, <1>3, <1>4, <1>5, <1>6 DEF Languages

-----------------------------------------------------------------------------
(* What a server takes from a parameter.                                   *)

Bound(g, tok, texts, list) ==
    IF NoRoute(g, tok) \/ "bad" \in texts THEN Failed
    ELSE IF g.card = "list" THEN Items(list)
    ELSE Is(ParamText(g, tok[2]))

Texts(g, tok) == {ParamText(g, tok[i]) : i \in 2 .. Len(tok)}
List(g, tok)  == [i \in 1 .. Len(tok) - 1 |-> ParamText(g, tok[i + 1])]

\* Each text is read as the value it is the text of.
LEMMA BoundOf ==
  ASSUME NEW g, Compiled(g), g.place # "body", NEW v, NEW c, NEW tok, ~NoRoute(g, tok),
         \/ c = Is(v) /\ Value(g, v, tok)
         \/ c = Items(<<v>>) /\ Item(g, v, tok)
  PROVE  tok # Absent /\ v \in ItemValues(g) \ {"null"} /\ Bound(g, tok, Texts(g, tok), List(g, tok)) = c
<1>1. v \in ItemValues(g) \ {"null"} /\ v # "bad"
  BY TokenRead DEF Value, Item
<1>2. ParamText(g, v) = v
  BY <1>1 DEF ParamText
<1>3. g.card \in {"one", "list"}
  BY ParamFacts
<1>4. tok = <<"param", v>> \/ tok = <<"params", v>>
  BY DEF Value, Item, Param
<1>5. tok # Absent /\ Len(tok) = 2 /\ tok[2] = v
  BY <1>4 DEF Absent
<1>6. Texts(g, tok) = {v}
  BY <1>2, <1>5 DEF Texts
<1>7. List(g, tok) = <<v>>
  BY <1>2, <1>5 DEF List
<1>8. CASE c = Is(v) /\ Value(g, v, tok)
  <2>1. g.card = "one"
    BY <1>8 DEF Value
  <2> QED
    BY <1>1, <1>2, <1>5, <1>6, <1>8, <2>1 DEF Bound
<1>9. CASE c = Items(<<v>>) /\ Item(g, v, tok)
  <2>1. g.card = "list"
    BY <1>3, <1>9 DEF Item
  <2> QED
    BY <1>1, <1>5, <1>6, <1>7, <1>9, <2>1 DEF Bound
<1> QED
  BY <1>8, <1>9

LEMMA GoBinds ==
  ASSUME NEW g, Compiled(g), g.place # "body", NEW c, NEW tok, Carries(g, c, tok), ~NoRoute(g, tok)
  PROVE  Decodes(g, c, Go!Decode(g, tok))
<1> DEFINE d == Go!Decode(g, tok)
<1>1. /\ g.nullable => g.opt
      /\ g.kind \notin {"none", "json", "oneof", "msg"}
  BY Markers, ParamFacts
<1>2. d = IF tok # Absent THEN Bound(g, tok, Texts(g, tok), List(g, tok))
          ELSE IF g.card = "list" THEN NoItems
          ELSE IF g.opt THEN Unset
          ELSE Zero(g)
  BY GoSame DEF Go!Decode, Go!Bind, Go!ReadParam, Bound, Texts, List
<1> SUFFICES Decodes(g, c, d)
  OBVIOUS
<1> HIDE DEF d
<1>3. CASE c = Unset /\ tok = Absent
  <2>1. \/ d = Unset
        \/ d = NoItems /\ g.card # "one"
        \/ d = Zero(g) /\ ~g.nullable /\ (Blank(g) \/ g.kind = "json")
    BY <1>1, <1>2, <1>3 DEF Blank
  <2> QED
    BY <1>3, <2>1, Bare, DecodesBare
<1>4. ASSUME NEW v,
             \/ c = Is(v) /\ Value(g, v, tok)
             \/ c = Items(<<v>>) /\ Item(g, v, tok)
      PROVE  Decodes(g, c, d)
  <2>1. tok # Absent /\ v \in ItemValues(g) \ {"null"} /\ Bound(g, tok, Texts(g, tok), List(g, tok)) = c
    BY <1>4, BoundOf
  <2>2. d = c
    BY <1>2, <2>1
  <2> QED
    BY <1>4, <2>2, HeldApart DEF Decodes
<1> QED
  BY <1>3, <1>4 DEF Carries

LEMMA TSBinds ==
  ASSUME NEW g, Compiled(g), g.place # "body", NEW c, NEW tok, Carries(g, c, tok), ~NoRoute(g, tok),
         ~(g.kind \in Integers64 /\ ~NeedsInt64StringEncoding(g))
  PROVE  Decodes(g, c, TS!Decode(g, tok))
<1> DEFINE d == TS!Decode(g, tok)
<1>1. /\ g.nullable => g.opt
      /\ g.kind \notin {"none", "json", "oneof", "msg"}
  BY Markers, ParamFacts
<1>2. d = IF tok = Absent THEN Unset ELSE Bound(g, tok, Texts(g, tok), List(g, tok))
  BY TSSame DEF TS!Decode, TS!Bind, TS!ReadParam, Bound, Texts, List
<1> SUFFICES Decodes(g, c, d)
  OBVIOUS
<1> HIDE DEF d
<1>3. CASE c = Unset /\ tok = Absent
  <2>1. \/ d = Unset
        \/ d = NoItems /\ g.card # "one"
        \/ d = Zero(g) /\ ~g.nullable /\ (Blank(g) \/ g.kind = "json")
    BY <1>1, <1>2, <1>3 DEF Blank
  <2> QED
    BY <1>3, <2>1, Bare, DecodesBare
<1>4. ASSUME NEW v,
             \/ c = Is(v) /\ Value(g, v, tok)
             \/ c = Items(<<v>>) /\ Item(g, v, tok)
      PROVE  Decodes(g, c, d)
  <2>1. tok # Absent /\ v \in ItemValues(g) \ {"null"} /\ Bound(g, tok, Texts(g, tok), List(g, tok)) = c
    BY <1>4, BoundOf
  <2>2. d = c
    BY <1>2, <2>1
  <2> QED
    BY <1>4, <2>2, HeldApart DEF Decodes
<1> QED
  BY <1>3, <1>4 DEF Carries

LEMMA RustBinds ==
  ASSUME NEW g, Compiled(g), g.place # "body", NEW c, NEW tok, Carries(g, c, tok), ~NoRoute(g, tok), ~g.alias
  PROVE  Decodes(g, c, Rust!Decode(g, tok))
<1> DEFINE d == Rust!Decode(g, tok)
<1>1. /\ g.nullable => g.opt
      /\ g.kind \notin {"none", "json", "oneof", "msg"}
  BY Markers, ParamFacts
<1>2. d = IF tok # Absent THEN Bound(g, tok, Texts(g, tok), List(g, tok))
          ELSE IF g.card = "list" THEN NoItems
          ELSE IF g.opt THEN Unset
          ELSE Zero(g)
  BY RustSame DEF Rust!Decode, Rust!Bind, Rust!ReadParam, Bound, Texts, List
<1> SUFFICES Decodes(g, c, d)
  OBVIOUS
<1> HIDE DEF d
<1>3. CASE c = Unset /\ tok = Absent
  <2>1. \/ d = Unset
        \/ d = NoItems /\ g.card # "one"
        \/ d = Zero(g) /\ ~g.nullable /\ (Blank(g) \/ g.kind = "json")
    BY <1>1, <1>2, <1>3 DEF Blank
  <2> QED
    BY <1>3, <2>1, Bare, DecodesBare
<1>4. ASSUME NEW v,
             \/ c = Is(v) /\ Value(g, v, tok)
             \/ c = Items(<<v>>) /\ Item(g, v, tok)
      PROVE  Decodes(g, c, d)
  <2>1. tok # Absent /\ v \in ItemValues(g) \ {"null"} /\ Bound(g, tok, Texts(g, tok), List(g, tok)) = c
    BY <1>4, BoundOf
  <2>2. d = c
    BY <1>2, <2>1
  <2> QED
    BY <1>4, <2>2, HeldApart DEF Decodes
<1> QED
  BY <1>3, <1>4 DEF Carries


-----------------------------------------------------------------------------
(* Any reader, and what it validates.                                      *)

\* What a reader loses, in one of the languages.
ReaderLoss(l, g, c, tok) ==
    \/ l = "TS" /\ TSRounds(g, c)
    \/ l = "Dart" /\ DartClamps(g, c)
    \/ l = "Python" /\ g.kind = "json" /\ c = Is("falsy")
    \/ l = "Rust" /\ c = Is("nomsg")
    \/ /\ g.place # "body"
       /\ \/ NoRoute(g, tok)
          \/ l = "TS" /\ g.kind \in Integers64 /\ ~NeedsInt64StringEncoding(g)
          \/ l = "Rust" /\ g.alias

LEMMA LanguageReads ==
  ASSUME NEW l \in Languages, NEW g, Compiled(g), g.place # "body" => l \in {"Go", "TS", "Rust"},
         NEW c, NEW tok, Carries(g, c, tok), ~ReaderLoss(l, g, c, tok)
  PROVE  Decodes(g, c, Decode(l, g, tok))
<1>1. CASE l = "Go"
  <2>1. Decode(l, g, tok) = Go!Decode(g, tok)
    BY <1>1 DEF Decode
  <2>2. CASE g.place = "body"
    BY <2>1, <2>2, GoReads
  <2>3. CASE g.place # "body"
    <3>1. ~NoRoute(g, tok)
      BY <1>1, <2>3 DEF ReaderLoss
    <3> QED
      BY <2>1, <2>3, <3>1, GoBinds
  <2> QED
    BY <2>2, <2>3
<1>2. CASE l = "TS"
  <2>1. Decode(l, g, tok) = TS!Decode(g, tok)
    BY <1>2 DEF Decode
  <2>2. CASE g.place = "body"
    <3>1. ~TSRounds(g, c)
      BY <1>2 DEF ReaderLoss
    <3> QED
      BY <2>1, <2>2, <3>1, TSReads
  <2>3. CASE g.place # "body"
    <3>1. ~NoRoute(g, tok) /\ ~(g.kind \in Integers64 /\ ~NeedsInt64StringEncoding(g))
      BY <1>2, <2>3 DEF ReaderLoss
    <3> QED
      BY <2>1, <2>3, <3>1, TSBinds
  <2> QED
    BY <2>2, <2>3
<1>3. CASE l = "Python"
  <2>1. Decode(l, g, tok) = Python!Decode(g, tok)
    BY <1>3 DEF Decode
  <2>2. CASE g.place = "body"
    <3>1. ~(g.kind = "json" /\ c = Is("falsy"))
      BY <1>3 DEF ReaderLoss
    <3> QED
      BY <2>1, <2>2, <3>1, PythonReads
  <2>3. CASE g.place # "body"
    BY <1>3, <2>3
  <2> QED
    BY <2>2, <2>3
<1>4. CASE l = "Dart"
  <2>1. Decode(l, g, tok) = Dart!Decode(g, tok)
    BY <1>4 DEF Decode
  <2>2. CASE g.place = "body"
    <3>1. ~DartClamps(g, c)
      BY <1>4 DEF ReaderLoss
    <3> QED
      BY <2>1, <2>2, <3>1, DartReads
  <2>3. CASE g.place # "body"
    BY <1>4, <2>3
  <2> QED
    BY <2>2, <2>3
<1>5. CASE l = "Swift"
  <2>1. Decode(l, g, tok) = Swift!Decode(g, tok)
    BY <1>5 DEF Decode
  <2>2. CASE g.place = "body"
    BY <2>1, <2>2, SwiftReads
  <2>3. CASE g.place # "body"
    BY <1>5, <2>3
  <2> QED
    BY <2>2, <2>3
<1>6. CASE l = "Rust"
  <2>1. Decode(l, g, tok) = Rust!Decode(g, tok)
    BY <1>6 DEF Decode
  <2>2. CASE g.place = "body"
    <3>1. c # Is("nomsg")
      BY <1>6 DEF ReaderLoss
    <3> QED
      BY <2>1, <2>2, <3>1, RustReads
  <2>3. CASE g.place # "body"
    <3>1. ~NoRoute(g, tok) /\ ~g.alias
      BY <1>6, <2>3 DEF ReaderLoss
    <3> QED
      BY <2>1, <2>3, <3>1, RustBinds
  <2> QED
    BY <2>2, <2>3
<1> QED
  BY <1>1, <1>2, <1>3, <1>4, <1>5, <1>6 DEF Languages

\* What @required asks of a field.
Full(f, m) ==
    /\ m \notin {Unset, Null, NoItems, Is("null")}
    /\ f.kind = "text" /\ f.card = "one" => m # Is("zero")

\* A client that validates its request has the fields that are asked for.
LEMMA Asked ==
  ASSUME NEW l \in Languages, NEW f, Compiled(f), f.required, NEW m \in Memory(l, f), Valid(l, f, m),
         Held(f, m), ~(l = "Python" /\ f.kind = "oneof" /\ m = Unset)
  PROVE  /\ m \notin {Unset, Null, NoItems}
         /\ f.kind = "text" /\ f.card = "one" /\ ~f.opt => m # Zero(f)
<1>1. /\ ~f.nullable /\ f.kind # "none"
      /\ f.kind = "oneof" => f.card = "one"
      /\ f.opt \in BOOLEAN
      /\ f.card = "one" => f.opt \/ f.kind \in {"text", "msg", "oneof"}
  BY Markers DEF Compiled, Compiles, RequiredAllowed
<1>2. m # Null
  BY <1>1, HeldApart DEF Held
<1>3. f.kind = "text" => Zero(f) = Is("zero")
  BY Zeros
<1>5. CASE f.card # "one"
  <2>1. m \notin {Unset, NoItems}
    <3>1. CASE l = "Go"
      <4>1. m \in Go!Memory(f) /\ Go!Valid(f, m)
        BY <1>5, <3>1 DEF Memory, Valid
      <4>2. m \in Collections(f)
        BY <1>1, <1>5, <4>1, GoSame DEF Go!Memory
      <4>3. m # NoItems
        BY <1>1, <1>5, <4>1, GoSame DEF Go!Valid
      <4> QED
        BY <4>2, <4>3, HeldApart DEF Collections
    <3>2. CASE l = "TS"
      <4>1. m \in TS!Memory(f) /\ TS!Valid(f, m)
        BY <1>5, <3>2 DEF Memory, Valid
      <4> QED
        BY <1>1, <1>5, <4>1, TSSame DEF TS!Valid
    <3>3. CASE l = "Python"
      <4>1. m \in Python!Memory(f) /\ Python!Valid(f, m)
        BY <1>5, <3>3 DEF Memory, Valid
      <4>2. m \in Collections(f)
        BY <1>1, <1>5, <4>1, PythonSame DEF Python!Memory
      <4>3. m # NoItems
        BY <1>1, <1>5, <4>1, PythonSame DEF Python!Valid
      <4> QED
        BY <4>2, <4>3, HeldApart DEF Collections
    <3>4. CASE l = "Dart"
      <4>1. m \in Dart!Memory(f) /\ Dart!Valid(f, m)
        BY <1>5, <3>4 DEF Memory, Valid
      <4>2. m \in Collections(f)
        BY <1>1, <1>5, <4>1, DartSame DEF Dart!Memory
      <4>3. m # NoItems
        BY <1>1, <1>5, <4>1, DartSame DEF Dart!Valid
      <4> QED
        BY <4>2, <4>3, HeldApart DEF Collections
    <3>5. CASE l = "Swift"
      <4>1. m \in Swift!Memory(f) /\ Swift!Valid(f, m)
        BY <1>5, <3>5 DEF Memory, Valid
      <4>2. m \in Collections(f)
        BY <1>1, <1>5, <4>1, SwiftSame DEF Swift!Memory
      <4>3. m # NoItems
        BY <1>1, <1>5, <4>1, SwiftSame DEF Swift!Valid
      <4> QED
        BY <4>2, <4>3, HeldApart DEF Collections
    <3>6. CASE l = "Rust"
      <4>1. m \in Rust!Memory(f) /\ Rust!Valid(f, m)
        BY <1>5, <3>6 DEF Memory, Valid
      <4>2. m \in Collections(f)
        BY <1>1, <1>5, <4>1, RustSame DEF Rust!Memory
      <4>3. m # NoItems
        BY <1>1, <1>5, <4>1, RustSame DEF Rust!Valid
      <4> QED
        BY <4>2, <4>3, HeldApart DEF Collections
    <3> QED
      BY <3>1, <3>2, <3>3, <3>4, <3>5, <3>6 DEF Languages
  <2> QED
    BY <1>2, <1>5, <2>1
<1>6. CASE f.card = "one"
  <2>1. m # NoItems
    BY <1>6, HeldApart DEF Held
  <2>2. m # Unset /\ (f.kind = "text" /\ ~f.opt => m # Zero(f))
    <3>1. CASE l = "Go"
      <4>1. m \in Go!Memory(f) /\ Go!Valid(f, m)
        BY <3>1 DEF Memory, Valid
      <4>2. ~f.opt /\ f.kind = "text" => m \in Values(f)
        BY <1>1, <1>6, <4>1, GoSame DEF Go!Memory, TimeText
      <4>3. f.opt \/ f.kind \in {"msg", "oneof"} => m # Unset
        BY <1>1, <1>6, <4>1, GoSame DEF Go!Valid
      <4>4. f.kind = "text" /\ ~f.opt => m # Zero(f)
        BY <1>6, <4>1, GoSame DEF Go!Valid
      <4> QED
        BY <1>1, <1>6, <4>2, <4>3, <4>4, HeldApart DEF Values
    <3>2. CASE l = "TS"
      <4>1. m \in TS!Memory(f) /\ TS!Valid(f, m)
        BY <3>2 DEF Memory, Valid
      <4> QED
        BY <1>1, <1>3, <1>6, <3>2, <4>1, TSSame DEF TS!Valid
    <3>3. CASE l = "Python"
      <4>1. m \in Python!Memory(f) /\ Python!Valid(f, m)
        BY <3>3 DEF Memory, Valid
      <4> QED
        BY <1>1, <1>3, <1>6, <3>3, <4>1, PythonSame DEF Python!Valid
    <3>4. CASE l = "Dart"
      <4>1. m \in Dart!Memory(f) /\ Dart!Valid(f, m)
        BY <3>4 DEF Memory, Valid
      <4> QED
        BY <1>1, <1>3, <1>6, <3>4, <4>1, DartSame DEF Dart!Valid, Dart!MayBeNull
    <3>5. CASE l = "Swift"
      <4>1. m \in Swift!Memory(f) /\ Swift!Valid(f, m)
        BY <3>5 DEF Memory, Valid
      <4> QED
        BY <1>1, <1>3, <1>6, <3>5, <4>1, SwiftSame DEF Swift!Valid, Swift!MayBeNil
    <3>6. CASE l = "Rust"
      <4>1. m \in Rust!Memory(f) /\ Rust!Valid(f, m)
        BY <3>6 DEF Memory, Valid
      <4>2. ~f.opt /\ f.kind = "text" => m \in Values(f)
        BY <1>1, <1>6, <4>1, RustSame DEF Rust!Memory, TimeText, Rust!IsOption
      <4>3. f.opt \/ f.kind \in {"msg", "oneof"} => m # Unset
        BY <1>1, <1>6, <4>1, RustSame DEF Rust!Valid, Rust!IsOption
      <4>4. f.kind = "text" /\ ~f.opt => m # Zero(f)
        BY <1>6, <4>1, RustSame DEF Rust!Valid, Rust!IsOption
      <4> QED
        BY <1>1, <1>6, <4>2, <4>3, <4>4, HeldApart DEF Values
    <3> QED
      BY <3>1, <3>2, <3>3, <3>4, <3>5, <3>6 DEF Languages
  <2> QED
    BY <1>2, <2>1, <2>2
<1> QED
  BY <1>5, <1>6

LEMMA AskedFull ==
  ASSUME NEW l \in Languages, NEW f, Compiled(f), f.required, NEW m \in Memory(l, f), Valid(l, f, m),
         Held(f, m), ~(l = "Python" /\ f.kind = "oneof" /\ m = Unset),
         ~(f.kind \in {"text", "json"} /\ m = Zero(f))
  PROVE  Full(f, m)
<1>1. m \notin {Unset, Null, NoItems}
  BY Asked
<1>2. m # Is("null")
  <2>1. "null" \in ItemValues(f) => f.kind = "json"
    BY DEF ItemValues, Compiled, IsField, Words
  <2>2. m = Is("null") => "null" \in ItemValues(f)
    BY HeldApart DEF Held
  <2>3. f.kind = "json" => Zero(f) = Is("null")
    BY Zeros
  <2> QED
    BY <2>1, <2>2, <2>3
<1>3. f.kind = "text" => m # Is("zero")
  BY Zeros
<1> QED
  BY <1>1, <1>2, <1>3 DEF Full

\* No zero stands for a variant of a oneof.
LEMMA ZeroWords ==
  ASSUME NEW f, Compiled(f)
  PROVE  Zero(f) \notin {Is("nomsg"), Is("msg zero")}
<1>1. ZeroValue(f) \notin {"nomsg", "msg zero"}
  BY DEF ZeroValue, Compiled, IsField, Words, Range
<1> QED
  BY <1>1, HeldApart DEF Zero

\* What a request has to have is written as it is.
LEMMA Filled ==
  ASSUME NEW f, Compiled(f), "request" \in f.use, f.required, NEW m, Held(f, m), Full(f, m), NEW c,
         Alike(f, c, m), c = m \/ c \in {Unset, Null, NoItems, Zero(f)}
  PROVE  c = m
<1>1. /\ ~f.nullable /\ f.kind # "none"
      /\ f.card = "one" => f.opt \/ f.kind \in {"text", "msg", "oneof"}
  BY Markers DEF Compiled, Compiles, RequiredAllowed
<1>2. f.use # {"response"}
  OBVIOUS
<1>3. ~AlwaysSent(f)
  BY <1>2 DEF AlwaysSent, ResponseOnly
<1>4. CASE Blank(f) /\ c \in {Unset, Zero(f)} /\ m = Zero(f)
  <2>1. f.card = "one"
    BY <1>4, HeldApart DEF Held, Zero
  <2> QED
    BY <1>1, <1>3, <1>4, <2>1, Zeros DEF Full, Blank
<1>5. CASE c \in {Is("nomsg"), Is("msg zero")}
  BY <1>5, ZeroWords, HeldApart
<1> QED
  BY <1>1, <1>4, <1>5 DEF Alike, Full


Whole(m) == \A i \in DOMAIN m : m[i] \notin {"rounded", "digits"}

\* No server takes a rounded number, or digits, for a value of the field.
LEMMA Clean ==
  ASSUME NEW g, Compiled(g), NEW c, NEW tok, Carries(g, c, tok), NEW d, Decodes(g, c, d)
  PROVE  Whole(d)
<1>1. Whole(Unset) /\ Whole(Null)
  BY DEF Whole, Unset, Null
<1>2. Whole(NoItems)
  BY HeldItems DEF Whole
<1>3. ASSUME NEW v, v \notin {"rounded", "digits"} PROVE Whole(Is(v)) /\ Whole(Items(<<v>>))
  <2>1. Whole(<<"is", v>>) /\ Whole(<<"items", v>>)
    BY <1>3 DEF Whole
  <2> QED
    BY <2>1, HeldApart DEF Is
<1>4. Whole(Is("null")) /\ Whole(Is("msg zero"))
  BY <1>3
<1>5. Whole(Zero(g))
  <2>1. ZeroValue(g) \notin {"rounded", "digits"}
    BY DEF ZeroValue, Compiled, IsField, Words, Range
  <2> QED
    BY <1>3, <2>1 DEF Zero
<1>6. ASSUME NEW v \in ItemValues(g) \ {"null"}, c \in {Is(v), Items(<<v>>)} PROVE Whole(d)
  <2>1. Whole(Is(v)) /\ Whole(Items(<<v>>))
    BY <1>3, TokenRead
  <2> QED
    BY <1>4, <1>6, <2>1 DEF Decodes
<1>7. CASE c \in {Unset, Null, NoItems}
  <2>1. d \in {Unset, NoItems, Zero(g), Null, Is("null")}
    BY <1>7 DEF Decodes
  <2> QED
    BY <1>1, <1>2, <1>4, <1>5, <2>1
<1> QED
  BY <1>6, <1>7 DEF Carries, Value, Item

\* A server accepts what it has read, when what it requires is there.
LEMMA Passes ==
  ASSUME NEW l \in {"Go", "TS", "Rust"}, NEW g, Compiled(g), NEW c, NEW tok, Carries(g, c, tok),
         NEW d, Decodes(g, c, d), g.required => Full(g, c)
  PROVE  d # Failed /\ Valid(l, g, d)
<1>1. d # Failed
  BY DecodesAlike
<1>2. \A i \in DOMAIN d : d[i] \notin {"rounded", "digits"}
  BY Clean DEF Whole
<1>3. ASSUME g.required
      PROVE  /\ d \notin {Unset, Null, NoItems}
             /\ g.kind = "text" /\ g.card = "one" => d # Is("zero")
  <2>1. PICK v \in ItemValues(g) \ {"null"} : c \in {Is(v), Items(<<v>>)}
    BY <1>3 DEF Carries, Full, Value, Item
  <2>2. d = c \/ d = Is("msg zero")
    BY <2>1 DEF Decodes
  <2> QED
    BY <1>3, <2>2, HeldApart DEF Full
<1>4. g.kind = "text" => Zero(g) = Is("zero")
  BY Zeros
<1>5. CASE l = "Go"
  <2>1. Valid(l, g, d) <=> Go!Valid(g, d)
    BY <1>5 DEF Valid
  <2> QED
    BY <1>1, <1>3, <1>4, <2>1, GoSame DEF Go!Valid
<1>6. CASE l = "TS"
  <2>1. Valid(l, g, d) <=> TS!Valid(g, d)
    BY <1>6 DEF Valid
  <2> QED
    BY <1>1, <1>2, <1>3, <2>1, TSSame DEF TS!Valid
<1>7. CASE l = "Rust"
  <2>1. Valid(l, g, d) <=> Rust!Valid(g, d)
    BY <1>7 DEF Valid
  <2> QED
    BY <1>1, <1>3, <1>4, <2>1, RustSame DEF Rust!Valid
<1> QED
  BY <1>5, <1>6, <1>7

-----------------------------------------------------------------------------
(* From one schema to the next.                                            *)

\* What else no finding leaves alone.
LEMMA NothingElse ==
  ASSUME NEW f, NEW g, Unfound(f, g), Compiled(f), Compiled(g)
  PROVE  /\ f.kind = g.kind /\ f.card = g.card /\ f.enc = g.enc
         /\ f.nullable = g.nullable /\ f.place = g.place /\ f.alias = g.alias
         /\ "request" \in g.use /\ g.required /\ ~f.required => ~f.opt
<1>1. CASE f = g
  BY <1>1 DEF Unfound
<1>2. CASE f # g
  <2>1. f.kind = g.kind /\ f.card = g.card /\ f.enc = g.enc
    BY <1>2, NothingFound
  <2>2. CompareMessage(f, g) = {} /\ CompareRoute(f, g) = {}
    BY <1>2 DEF Unfound, Compare, CompareField
  <2>3. \A what, found : Finding(what, found) = {} => ~found
    BY DEF Finding
  <2>4. /\ Finding("field validation or JSON mapping changed",
                   FieldContractSignature(f) # FieldContractSignature(g)) = {}
        /\ Finding("field became required",
                   "request" \in g.use /\ ~IsRequired(f) /\ IsRequired(g)) = {}
    BY <2>2 DEF CompareMessage
  <2>5. FieldContractSignature(f) = FieldContractSignature(g)
    BY <2>3, <2>4
  <2>6. f.nullable = g.nullable
    BY <2>5 DEF FieldContractSignature
  <2>7. ~("request" \in g.use /\ ~IsRequired(f) /\ IsRequired(g))
    BY <2>3, <2>4
  <2>8. <<f.place, f.alias>> = <<g.place, g.alias>>
    BY <2>2, <2>3 DEF CompareRoute
  <2> QED
    BY <2>1, <2>6, <2>7, <2>8 DEF IsRequired
<1> QED
  BY <1>1, <1>2

\* The JSON that carries something for the one carries it for the other.
LEMMA CarriesOver ==
  ASSUME NEW f, NEW g, f.kind = g.kind, f.card = g.card, f.place = g.place, f.nullable = g.nullable,
         ItemValues(f) \subseteq ItemValues(g),
         \A v \in ItemValues(f) : ItemToken(f, v) = ItemToken(g, v),
         NEW c, NEW tok, Carries(f, c, tok)
  PROVE  Carries(g, c, tok)
<1>1. CASE c \in {Unset, Null, NoItems}
  BY <1>1, Bare DEF Carries
<1>2. ASSUME NEW v, c = Is(v), Value(f, v, tok) PROVE Carries(g, c, tok)
  BY <1>2 DEF Carries, Value
<1>3. ASSUME NEW v, c = Items(<<v>>), Item(f, v, tok) PROVE Carries(g, c, tok)
  BY <1>3 DEF Carries, Item
<1> QED
  BY <1>1, <1>2, <1>3 DEF Carries

\* What is alike for one of the two fields has one meaning.
LEMMA AlikeMeans ==
  ASSUME NEW f, f \in {old, new}, Compiled(f), Compiled(old), Zero(f) = Zero(old),
         f.kind = old.kind, NEW x, NEW y, Alike(f, x, y)
  PROVE  Meaning(x) = Meaning(y)
<1> DEFINE always == \E g \in {old, new} : AlwaysSent(g)
           null   == IF \A g \in {old, new} : g.nullable THEN Null ELSE Unset
           plain  == /\ \E g \in {old, new} : ~g.opt
                     /\ old.kind \notin {"oneof", "json"} /\ (old.kind = "msg" => always)
<1>1. \A m : Meaning(m) = IF m \in {Null, Is("null")} THEN null
                          ELSE IF m = Unset THEN IF always THEN null ELSE Unset
                          ELSE IF m = NoItems \/ (m = Zero(old) /\ plain) THEN Unset
                          ELSE IF m = Is("msg zero") THEN Is("nomsg")
                          ELSE m
  BY DEF Meaning
<1>2. ~f.nullable => null = Unset
  OBVIOUS
<1>3. AlwaysSent(f) => always
  OBVIOUS
<1>4. Blank(f) => plain /\ null = Unset
  BY <1>3, Markers DEF Blank
<1> HIDE DEF always, null, plain
<1>5. CASE x = y
  BY <1>5
<1>6. CASE ~f.nullable /\ {x, y} \subseteq {Unset, NoItems, Null, Is("null")}
  <2>1. \A m \in {Unset, NoItems, Null, Is("null")} : Meaning(m) = Unset
    BY <1>1, <1>2, <1>6, HeldApart
  <2> QED
    BY <1>6, <2>1
<1>7. CASE Blank(f) /\ {x, y} \subseteq {Unset, Zero(f)}
  <2>1. Zero(old) \notin {Unset, NoItems} /\ null = Unset /\ plain
    BY <1>4, <1>7, HeldApart DEF Zero
  <2>2. Meaning(Unset) = Unset /\ Meaning(Zero(old)) = Unset
    BY <1>1, <2>1
  <2> QED
    BY <1>7, <2>2
<1>8. CASE {x, y} \subseteq {Null, Is("null")}
  BY <1>1, <1>8
<1>9. CASE AlwaysSent(f) /\ {x, y} \subseteq {Unset, Null}
  BY <1>1, <1>3, <1>9
<1>10. CASE {x, y} \subseteq {Is("nomsg"), Is("msg zero")}
  <2>1. Zero(old) \notin {Is("nomsg"), Is("msg zero")}
    BY ZeroWords
  <2>2. /\ Is("nomsg") \notin {Null, Is("null"), Unset, NoItems, Is("msg zero")}
        /\ Is("msg zero") \notin {Null, Is("null"), Unset, NoItems}
    BY HeldApart
  <2>3. Meaning(Is("nomsg")) = Is("nomsg") /\ Meaning(Is("msg zero")) = Is("nomsg")
    BY <1>1, <2>1, <2>2
  <2> QED
    BY <1>10, <2>3
<1> QED
  BY <1>5, <1>6, <1>7, <1>8, <1>9, <1>10 DEF Alike

-----------------------------------------------------------------------------
(* A message, from what was sent to what is got.                           *)

LEMMA HoldsNone ==
  ASSUME NEW f, Compiled(f), f.kind \in Integers64, NEW c \in {Unset, Null, NoItems, Zero(f)}
  PROVE  ~Holds(c, {"big", "huge"}) /\ ~Holds(c, {"huge"})
<1>1. Zero(f) = Is("zero")
  BY Zeros DEF Integers64
<1>2. \A i \in DOMAIN Unset : Unset[i] \notin {"big", "huge"}
  BY DEF Unset
<1>3. \A i \in DOMAIN Null : Null[i] \notin {"big", "huge"}
  BY DEF Null
<1>4. \A i \in DOMAIN NoItems : NoItems[i] \notin {"big", "huge"}
  BY HeldItems
<1>5. \A i \in DOMAIN Is("zero") : Is("zero")[i] \notin {"big", "huge"}
  BY DEF Is
<1> QED
  BY <1>1, <1>2, <1>3, <1>4, <1>5 DEF Holds

\* What a writer leaves out, or writes for nothing, is not what a reader loses.
LEMMA Unlost ==
  ASSUME NEW f, Compiled(f), NEW g, f.kind = g.kind, f.card = g.card, f.enc = g.enc,
         f.place = g.place, f.alias = g.alias,
         NEW l, NEW m, NEW tok, ~ReaderLoss(l, f, m, tok),
         NEW c, c = m \/ c \in {Unset, Null, NoItems, Zero(f)}
  PROVE  ~ReaderLoss(l, g, c, tok)
<1>1. NeedsInt64StringEncoding(f) <=> NeedsInt64StringEncoding(g)
  BY DEF NeedsInt64StringEncoding
<1>2. NoRoute(f, tok) <=> NoRoute(g, tok)
  BY DEF NoRoute
<1>3. ~(l = "TS" /\ TSRounds(g, c))
  BY <1>1, HoldsNone DEF ReaderLoss, TSRounds
<1>4. ~(l = "Dart" /\ DartClamps(g, c))
  BY <1>1, HoldsNone DEF ReaderLoss, DartClamps
<1>5. ~(l = "Python" /\ g.kind = "json" /\ c = Is("falsy"))
  <2>1. g.kind = "json" => Zero(f) = Is("null")
    BY Zeros
  <2>2. Is("falsy") \notin {Unset, Null, NoItems, Is("null")}
    BY HeldApart
  <2> QED
    BY <2>1, <2>2 DEF ReaderLoss
<1>6. ~(l = "Rust" /\ c = Is("nomsg"))
  <2>1. Is("nomsg") \notin {Unset, Null, NoItems, Zero(f)}
    BY ZeroWords, HeldApart
  <2> QED
    BY <2>1 DEF ReaderLoss
<1>7. ~(/\ g.place # "body"
        /\ \/ NoRoute(g, tok)
           \/ l = "TS" /\ g.kind \in Integers64 /\ ~NeedsInt64StringEncoding(g)
           \/ l = "Rust" /\ g.alias)
  BY <1>1, <1>2 DEF ReaderLoss
<1> QED
  BY <1>3, <1>4, <1>5, <1>6, <1>7 DEF ReaderLoss

\* The losses of this message, for the field of either schema.
LEMMA NotLost ==
  ASSUME ~KnownLoss, NEW f, f.kind = old.kind, f.card = old.card, f.enc = old.enc,
         f.place = old.place, f.alias = old.alias
  PROVE  ~ReaderLoss(reader, f, sent, wire) /\ ~WriterLoss(writer, f, sent)
<1>1. NeedsInt64StringEncoding(f) <=> NeedsInt64StringEncoding(old)
  BY DEF NeedsInt64StringEncoding
<1>2. NoRoute(f, wire) <=> NoRoute(old, wire)
  BY DEF NoRoute
<1>3. ~(reader = "TS" /\ TSRounds(f, sent))
  BY <1>1 DEF KnownLoss, TSRounds
<1>4. ~("Dart" \in {reader, writer} /\ DartClamps(f, sent))
  BY <1>1 DEF KnownLoss, DartClamps
<1>5. ~(reader = "Python" /\ f.kind = "json" /\ sent = Is("falsy"))
  BY DEF KnownLoss
<1>6. ~(reader = "Rust" /\ sent = Is("nomsg"))
  BY DEF KnownLoss
<1>7. f.place # "body" => ~LostOnTheWay
  BY DEF KnownLoss
<1>8. ~(/\ f.place # "body"
        /\ \/ NoRoute(f, wire)
           \/ reader = "TS" /\ f.kind \in Integers64 /\ ~NeedsInt64StringEncoding(f)
           \/ reader = "Rust" /\ f.alias)
  BY <1>1, <1>2, <1>7 DEF LostOnTheWay
<1>9. ~(f.place # "body" /\ (sent = Null \/ (f.place = "path" /\ writer = "TS" /\ sent = Unset)))
  BY <1>7 DEF LostOnTheWay
<1> QED
  BY <1>3, <1>4, <1>5, <1>6, <1>8, <1>9 DEF ReaderLoss, WriterLoss

\* How a message of a field that both schemas have gets there: the JSON carries c.
Arrives(f, g, c) ==
    LET d == Decode(reader, g, wire) IN
    /\ Alike(f, c, sent)
    /\ c = sent \/ c \in {Unset, Null, NoItems, Zero(f)}
    /\ Carries(g, c, wire) /\ Decodes(g, c, d)
    /\ Meaning(d) = Meaning(sent)

LEMMA InBothArrives ==
  ASSUME Compiled(old), Compiled(new), Unfound(old, new), ~KnownLoss, ~CompatGap,
         writer \in Languages, reader \in Languages,
         NEW f \in {old, new}, NEW g \in {old, new}, g.place # "body" => reader \in {"Go", "TS", "Rust"},
         ItemValues(f) \subseteq ItemValues(g),
         sent \in Memory(writer, f), wire = Encode(writer, f, sent)
  PROVE  Held(f, sent) /\ \E c : Arrives(f, g, c)
<1>1. /\ old.kind = new.kind /\ old.card = new.card /\ old.enc = new.enc
      /\ old.nullable = new.nullable /\ old.place = new.place /\ old.alias = new.alias
  BY NothingElse
<1>2. Zero(old) = Zero(new)
  <2>1. old.kind = "enum" => old.names[1] = new.names[1]
    BY DEF CompatGap, InBoth, Unfound
  <2> QED
    BY <1>1, <2>1 DEF Zero, ZeroValue
<1>3. \A v \in ItemValues(f) : ItemToken(f, v) = ItemToken(g, v)
  <2>1. \A v \in ItemValues(old) : v \in ItemValues(new) => ItemToken(old, v) = ItemToken(new, v)
    BY SameTokens
  <2> QED
    BY <2>1
<1>4. /\ f.kind = old.kind /\ f.card = old.card /\ f.enc = old.enc /\ f.nullable = old.nullable
      /\ f.place = old.place /\ f.alias = old.alias /\ Zero(f) = Zero(old) /\ Compiled(f)
  BY <1>1, <1>2
<1>5. /\ g.kind = old.kind /\ g.card = old.card /\ g.enc = old.enc /\ g.nullable = old.nullable
      /\ g.place = old.place /\ g.alias = old.alias /\ Zero(g) = Zero(old) /\ Compiled(g)
  BY <1>1, <1>2
<1>6. ~ReaderLoss(reader, f, sent, wire) /\ ~WriterLoss(writer, f, sent)
  BY <1>4, NotLost
<1>7. Held(f, sent) /\ Writes(f, sent, wire)
  BY <1>4, <1>6, LanguageWrites
<1>8. PICK c : /\ Carries(f, c, wire) /\ Alike(f, c, sent)
               /\ c = sent \/ c \in {Unset, Null, NoItems, Zero(f)}
  BY <1>7 DEF Writes
<1>9. Carries(g, c, wire)
  BY <1>3, <1>4, <1>5, <1>8, CarriesOver
<1>10. ~ReaderLoss(reader, g, c, wire)
  BY <1>4, <1>5, <1>6, <1>8, Unlost
<1> DEFINE d == Decode(reader, g, wire)
<1>11. Decodes(g, c, d)
  BY <1>5, <1>9, <1>10, LanguageReads
<1>12. Alike(g, c, d)
  BY <1>5, <1>9, <1>11, DecodesAlike
<1>13. Meaning(c) = Meaning(sent)
  BY <1>4, <1>8, AlikeMeans
<1>14. Meaning(c) = Meaning(d)
  BY <1>5, <1>12, AlikeMeans
<1> QED
  BY <1>7, <1>8, <1>9, <1>11, <1>13, <1>14 DEF Arrives

\* Two schemas between which nothing was found: both have the field, or the old
\* one did not and the new one does not ask for it.
LEMMA TwoSchemas ==
  ASSUME Compare(old, new) = {}, new.use = old.use, Compiled(old), Compiled(new)
  PROVE  \/ Unfound(old, new)
         \/ /\ old.kind = "none" /\ new.place = "body"
            /\ "request" \in new.use => ~new.required
<1>1. CASE old = new
  BY <1>1, Markers DEF Unfound
<1>2. CASE old # new /\ old.kind = "none"
  <2>1. AddedField(new) = {} /\ CompareRoute(old, new) = {}
    BY <1>2 DEF Compare, CompareField
  <2>2. \A what, found : Finding(what, found) = {} => ~found
    BY DEF Finding
  <2>3. ~("request" \in new.use /\ IsRequired(new))
    BY <2>1, <2>2 DEF AddedField
  <2>4. <<old.place, old.alias>> = <<new.place, new.alias>>
    BY <2>1, <2>2 DEF CompareRoute
  <2>5. old.place = "body"
    BY <1>2, Markers
  <2> QED
    BY <1>2, <2>3, <2>4, <2>5 DEF IsRequired
<1>3. CASE old # new /\ old.kind # "none"
  <2>1. new.kind # "none"
    BY <1>3 DEF Compare, CompareField
  <2> QED
    BY <1>3, <2>1 DEF Unfound
<1> QED
  BY <1>1, <1>2, <1>3


\* A field the old schema does not have is not written, and not read.
LEMMA NoneWritten ==
  ASSUME NEW l \in Languages, NEW f, Compiled(f), f.kind = "none", NEW m \in Memory(l, f)
  PROVE  Encode(l, f, m) = Absent
<1>1. f.place = "body" /\ f.card = "one" /\ ~f.nullable /\ ItemValues(f) = {}
  BY Markers DEF ItemValues, Compiled, IsField
<1>2. ~WriterLoss(l, f, m)
  BY <1>1 DEF WriterLoss, DartClamps, Integers64
<1>3. Writes(f, m, Encode(l, f, m))
  BY <1>2, LanguageWrites
<1>4. PICK c : Carries(f, c, Encode(l, f, m))
  BY <1>3 DEF Writes
<1> QED
  BY <1>1, <1>4 DEF Carries, Value, Item

LEMMA NoneRead ==
  ASSUME NEW l \in Languages, NEW g, Compiled(g), g.kind = "none", NEW tok
  PROVE  Decode(l, g, tok) = Unset
<1>1. g.place = "body"
  BY Markers
<1>2. CASE l = "Go"
  <2>1. Decode(l, g, tok) = Go!Decode(g, tok)
    BY <1>2 DEF Decode
  <2> QED
    BY <1>1, <2>1, GoSame DEF Go!Decode
<1>3. CASE l = "TS"
  <2>1. Decode(l, g, tok) = TS!Decode(g, tok)
    BY <1>3 DEF Decode
  <2> QED
    BY <1>1, <2>1, TSSame DEF TS!Decode
<1>4. CASE l = "Python"
  <2>1. Decode(l, g, tok) = Python!Decode(g, tok)
    BY <1>4 DEF Decode
  <2> QED
    BY <2>1, PythonSame DEF Python!Decode
<1>5. CASE l = "Dart"
  <2>1. Decode(l, g, tok) = Dart!Decode(g, tok)
    BY <1>5 DEF Decode
  <2> QED
    BY <2>1, DartSame DEF Dart!Decode
<1>6. CASE l = "Swift"
  <2>1. Decode(l, g, tok) = Swift!Decode(g, tok)
    BY <1>6 DEF Decode
  <2> QED
    BY <2>1, SwiftSame DEF Swift!Decode
<1>7. CASE l = "Rust"
  <2>1. Decode(l, g, tok) = Rust!Decode(g, tok)
    BY <1>7 DEF Decode
  <2> QED
    BY <1>1, <2>1, RustSame DEF Rust!Decode
<1> QED
  BY <1>2, <1>3, <1>4, <1>5, <1>6, <1>7 DEF Languages

-----------------------------------------------------------------------------
(* Requests and answers.                                                   *)

Released == /\ Compiled(old) /\ Compiled(new) /\ new.use = old.use
            /\ Compare(old, new) = {}

Requested ==
    /\ writer \in Languages /\ reader \in {"Go", "TS", "Rust"} /\ "request" \in old.use
    /\ sent \in Memory(writer, old) /\ Valid(writer, old, sent) /\ wire = Encode(writer, old, sent)

Answered ==
    /\ writer \in {"Go", "TS", "Rust"} /\ reader \in Languages /\ "response" \in old.use
    /\ sent \in Memory(writer, new) /\ wire = Encode(writer, new, sent)

Accepted(m) == m # Failed /\ Valid(reader, new, m)

\* A server accepts a request, and has in the field what the client meant.
LEMMA RequestDelivered ==
  ASSUME Released, Requested, ~KnownLoss, ~CompatGap
  PROVE  LET m == Decode(reader, new, wire) IN Accepted(m) /\ (InBoth => Meaning(m) = Meaning(sent))
<1> DEFINE m == Decode(reader, new, wire)
<1>1. writer \in Languages /\ reader \in Languages
  BY DEF Requested, Languages
<1>2. CASE Unfound(old, new)
  <2>1. ItemValues(old) \subseteq ItemValues(new)
    BY <1>2, SameValues
  <2>2. Held(old, sent) /\ \E c : Arrives(old, new, c)
    BY <1>1, <1>2, <2>1, InBothArrives DEF Released, Requested
  <2>3. PICK c : Arrives(old, new, c)
    BY <2>2
  <2>4. /\ Alike(old, c, sent) /\ Carries(new, c, wire) /\ Decodes(new, c, m)
        /\ c = sent \/ c \in {Unset, Null, NoItems, Zero(old)}
        /\ Meaning(m) = Meaning(sent)
    BY <2>3 DEF Arrives
  <2> HIDE DEF m
  <2>5. ASSUME new.required PROVE Full(new, c)
    <3>1. /\ old.kind = new.kind /\ old.card = new.card
          /\ "request" \in new.use /\ new.required /\ ~old.required => ~old.opt
      BY <1>2, NothingElse DEF Released
    <3>2. old.required
      <4>1. "request" \in new.use
        BY DEF Released, Requested
      <4>2. ~(new.required /\ ~old.required /\ ~old.opt)
        BY DEF CompatGap
      <4> QED
        BY <2>5, <3>1, <4>1, <4>2
    <3>3. ~(writer = "Python" /\ old.kind = "oneof" /\ sent = Unset)
      BY <3>2 DEF KnownLoss, NotAskedFor
    <3>4. ~(old.kind \in {"text", "json"} /\ sent = Zero(old))
      BY <3>2 DEF KnownLoss
    <3>5. Full(old, sent)
      BY <1>1, <2>2, <3>2, <3>3, <3>4, AskedFull DEF Released, Requested
    <3>6. c = sent
      BY <2>2, <2>4, <3>2, <3>5, Filled DEF Released, Requested
    <3> QED
      BY <3>1, <3>5, <3>6 DEF Full
  <2>6. Accepted(m)
    BY <2>4, <2>5, Passes DEF Released, Requested, Accepted
  <2> QED
    BY <2>4, <2>6 DEF m
<1>3. CASE old.kind = "none" /\ new.place = "body" /\ ~new.required
  <2>1. wire = Absent
    BY <1>1, <1>3, NoneWritten DEF Released, Requested
  <2>2. Carries(new, Unset, wire)
    BY <2>1 DEF Carries
  <2>3. ~ReaderLoss(reader, new, Unset, wire)
    <3>1. ~Holds(Unset, {"big", "huge"}) /\ ~Holds(Unset, {"huge"})
      BY DEF Holds, Unset
    <3>2. \A v : Unset # Is(v)
      BY Bare
    <3> QED
      BY <1>3, <3>1, <3>2 DEF ReaderLoss, TSRounds, DartClamps
  <2>4. Decodes(new, Unset, m)
    BY <1>1, <1>3, <2>2, <2>3, LanguageReads DEF Released
  <2> HIDE DEF m
  <2>5. Accepted(m)
    BY <1>3, <2>2, <2>4, Passes DEF Released, Requested, Accepted
  <2>6. ~InBoth
    BY <1>3 DEF InBoth
  <2> QED
    BY <2>5, <2>6 DEF m
<1> QED
  BY <1>2, <1>3, TwoSchemas DEF Released, Requested

\* A client reads an answer, and has in the field what the server meant.
LEMMA AnswerDelivered ==
  ASSUME Released, Answered, ~KnownLoss, ~CompatGap
  PROVE  LET m == Decode(reader, old, wire) IN m # Failed /\ (InBoth => Meaning(m) = Meaning(sent))
<1> DEFINE m == Decode(reader, old, wire)
<1>1. writer \in Languages /\ reader \in Languages
  BY DEF Answered, Languages
<1>2. CASE Unfound(old, new)
  <2>1. ItemValues(new) \subseteq ItemValues(old)
    BY <1>2, SameValues DEF Released, Answered
  <2>2. old.place = "body"
    BY DEF Released, Answered, Compiled, IsField
  <2>3. \E c : Arrives(new, old, c)
    BY <1>1, <1>2, <2>1, <2>2, InBothArrives DEF Released, Answered
  <2>4. PICK c : Arrives(new, old, c)
    BY <2>3
  <2>5. Carries(old, c, wire) /\ Decodes(old, c, m) /\ Meaning(m) = Meaning(sent)
    BY <2>4 DEF Arrives
  <2> HIDE DEF m
  <2>6. m # Failed
    BY <2>5, DecodesAlike DEF Released
  <2> QED
    BY <2>5, <2>6 DEF m
<1>3. CASE old.kind = "none"
  <2>1. m = Unset
    BY <1>1, <1>3, NoneRead DEF Released
  <2>2. m # Failed /\ ~InBoth
    BY <1>3, <2>1, HeldApart DEF InBoth
  <2> QED
    BY <2>2
<1> QED
  BY <1>2, <1>3, TwoSchemas DEF Released

\* What is known of a message on its way, and of what was made of it.
Handled == LET m == Decode(reader, new, wire) IN got = IF Accepted(m) THEN m ELSE Failed

MessageInv ==
    /\ old \in Fields /\ new \in Fields /\ new.use = old.use
    /\ phase \in {"released", "request", "response", "done"} => Compare(old, new) = {}
    /\ phase = "request" => Requested
    /\ phase = "response" => Answered
    /\ phase = "done" => \/ Requested /\ Handled
                         \/ Answered /\ got = Decode(reader, old, wire)

LEMMA MessageInvariant == Spec => []MessageInv
<1>1. Init => MessageInv
  BY DEF Init, MessageInv
<1>2. MessageInv /\ [Next]_vars => MessageInv'
  <2> SUFFICES ASSUME MessageInv, [Next]_vars PROVE MessageInv'
    OBVIOUS
  <2>1. ASSUME NEW f \in Fields, Release(f) PROVE MessageInv'
    BY <2>1 DEF Release, MessageInv
  <2>2. ASSUME NEW client \in Clients, NEW server \in Servers, NEW m, Call(client, server, m)
        PROVE  MessageInv'
    <3>1. client \in Languages /\ server \in {"Go", "TS", "Rust"}
      BY LanguagesAssumption
    <3>2. Requested'
      BY <2>2, <3>1 DEF Call, Requested, Memory, Encode, Valid
    <3> QED
      BY <2>2, <3>2 DEF Call, MessageInv
  <2>3. ASSUME NEW client \in Clients, NEW server \in Servers, NEW m, Answer(client, server, m)
        PROVE  MessageInv'
    <3>1. client \in Languages /\ server \in {"Go", "TS", "Rust"}
      BY LanguagesAssumption
    <3>2. Answered'
      BY <2>3, <3>1 DEF Answer, Answered, MessageInv
    <3> QED
      BY <2>3, <3>2 DEF Answer, MessageInv
  <2>4. CASE Handle
    BY <2>4 DEF Handle, Handled, Accepted, Requested, MessageInv
  <2>5. CASE Read
    BY <2>5 DEF Read, Answered, MessageInv
  <2>6. CASE UNCHANGED vars
    BY <2>6 DEF vars, Requested, Answered, Handled, Accepted, MessageInv
  <2> QED
    BY <2>1, <2>2, <2>3, <2>4, <2>5, <2>6 DEF Next
<1> QED
  BY <1>1, <1>2, PTL DEF Spec

LEMMA DoneDelivered ==
  ASSUME MessageInv, phase = "done", ~KnownLoss, ~CompatGap
  PROVE  Delivered
<1>1. Released
  BY FieldsAssumption DEF MessageInv, Released, Compiled
<1>2. CASE Requested /\ Handled
  <2>1. got = Decode(reader, new, wire) /\ got # Failed /\ (InBoth => Meaning(got) = Meaning(sent))
    BY <1>1, <1>2, RequestDelivered DEF Handled, Accepted
  <2> QED
    BY <2>1 DEF Delivered
<1>3. CASE Answered /\ got = Decode(reader, old, wire)
  BY <1>1, <1>3, AnswerDelivered DEF Delivered
<1> QED
  BY <1>2, <1>3 DEF MessageInv

\* Any two of the programs generated from one schema, a client and a server in
\* whatever languages, understand each other: the message is accepted and its
\* field means what the writer's did, but for the losses that are named.
THEOREM RoundTripsAlways == Spec => []RoundTrips
<1>1. MessageInv => RoundTrips
  <2>1. new = old => ~CompatGap
    BY DEF CompatGap
  <2> QED
    BY <2>1, DoneDelivered DEF RoundTrips
<1> QED
  BY <1>1, MessageInvariant, PTL

\* A change of a field that onkt compat has no finding for leaves the client of
\* the old schema and the server of the new one understanding each other.
THEOREM CompatProtectsClientsAlways == Spec => []CompatProtectsClients
<1>1. MessageInv => CompatProtectsClients
  BY DoneDelivered DEF CompatProtectsClients
<1> QED
  BY <1>1, MessageInvariant, PTL

-----------------------------------------------------------------------------
(* What is published: the OpenAPI document and the TypeScript types.       *)

LEMMA Emitted ==
  ASSUME NEW f, Compiled(f), EmitZero(f)
  PROVE  /\ ~f.opt /\ ~f.nullable /\ f.kind \notin {"none", "oneof"}
         /\ f.card = "one" => f.kind \notin {"msg", "time", "json"}
BY Markers DEF EmitZero, Compiled, IsField

LEMMA BoxesWritten ==
  ASSUME NEW f, Compiled(f), f.card # "one", NEW m \in Collections(f)
  PROVE  Boxes(f, m) # Absent
<1>1. CASE m = NoItems
  <2>1. Boxes(f, m) = <<f.card>>
    BY <1>1, BoxesOf
  <2> QED
    BY <2>1, BoxShape
<1>2. ASSUME NEW v, m = Items(<<v>>) PROVE Boxes(f, m) # Absent
  <2>1. Boxes(f, m) = <<f.card, ItemToken(f, v)>>
    BY <1>2, BoxesOf
  <2> QED
    BY <2>1, BoxShape
<1> QED
  BY <1>1, <1>2, Members

LEMMA GoEmits ==
  ASSUME NEW f, Compiled(f), f.place = "body", EmitZero(f), NEW m \in Go!Memory(f)
  PROVE  Go!Encode(f, m) # Absent
<1> DEFINE tok == Go!Encode(f, m)
<1>1. /\ ~f.opt /\ ~f.nullable /\ f.kind \notin {"none", "oneof"}
      /\ f.card = "one" => f.kind \notin {"msg", "time", "json"}
  BY Emitted
<1>2. IF f.card = "one" THEN m \in Values(f) ELSE m \in Collections(f)
  BY <1>1, GoSame DEF Go!Memory, Values, Collections
<1>3. m # Null /\ m # Unset
  BY <1>2, HeldApart DEF Values, Collections
<1>4. m # NoItems \/ f.card # "one"
  BY <1>2, HeldApart DEF Values
<1>5. tok = IF f.card # "one" THEN Boxes(f, m) ELSE ItemToken(f, m[2])
  BY <1>1, <1>3, <1>4, GoSame DEF Go!Encode, Go!Container, Boxes, Go!Written
<1> HIDE DEF tok
<1>6. CASE f.card = "one"
  BY <1>5, <1>6, TokenShape DEF tok
<1>7. CASE f.card # "one"
  <2>1. Boxes(f, m) # Absent
    BY <1>2, <1>7, BoxesWritten
  <2> QED
    BY <1>5, <1>7, <2>1 DEF tok
<1> QED
  BY <1>6, <1>7

LEMMA TSEmits ==
  ASSUME NEW f, Compiled(f), f.place = "body", EmitZero(f), NEW m \in TS!Memory(f)
  PROVE  TS!Encode(f, m) # Absent
<1> DEFINE tok == TS!Encode(f, m)
<1>1. /\ ~f.opt /\ ~f.nullable /\ f.kind \notin {"none", "oneof"}
      /\ f.card = "one" => f.kind \notin {"msg", "time", "json"}
  BY Emitted
<1>2. IF f.card = "one" THEN m \in Values(f) \/ m = Unset ELSE m \in Collections(f) \/ m = Unset
  BY <1>1, TSSame DEF TS!Memory, Values, Collections
<1>3. m # Null
  BY <1>2, HeldApart DEF Values, Collections
<1>4. m # NoItems \/ f.card # "one"
  BY <1>2, HeldApart DEF Values
<1>5. tok = IF m = Unset THEN IF f.card # "one" THEN <<f.card>> ELSE ItemToken(f, ZeroValue(f))
            ELSE IF f.card # "one" THEN Boxes(f, m) ELSE ItemToken(f, m[2])
  BY <1>1, <1>3, <1>4, TSSame DEF TS!Encode, TS!Container, Boxes
<1> HIDE DEF tok
<1>6. CASE f.card = "one"
  BY <1>5, <1>6, TokenShape DEF tok
<1>7. CASE f.card # "one" /\ m # Unset
  <2>1. Boxes(f, m) # Absent
    BY <1>2, <1>7, BoxesWritten
  <2> QED
    BY <1>5, <1>7, <2>1 DEF tok
<1>8. CASE f.card # "one" /\ m = Unset
  BY <1>5, <1>8, BoxShape DEF tok
<1> QED
  BY <1>6, <1>7, <1>8

LEMMA PythonEmits ==
  ASSUME NEW f, Compiled(f), f.place = "body", EmitZero(f), NEW m \in Python!Memory(f)
  PROVE  Python!Encode(f, m) # Absent
<1> DEFINE tok == Python!Encode(f, m)
<1>1. /\ ~f.opt /\ ~f.nullable /\ f.kind \notin {"none", "oneof"}
      /\ f.card = "one" => f.kind \notin {"msg", "time", "json"}
  BY Emitted
<1>2. IF f.card = "one" THEN m \in Values(f) ELSE m \in Collections(f)
  BY <1>1, PythonSame DEF Python!Memory, Values, Collections, TimeText
<1>3. m # Null /\ m # Unset
  BY <1>2, HeldApart DEF Values, Collections
<1>4. m # NoItems \/ f.card # "one"
  BY <1>2, HeldApart DEF Values
<1>5. tok = IF f.card # "one" THEN Boxes(f, m) ELSE ItemToken(f, m[2])
  BY <1>1, <1>3, <1>4, PythonSame DEF Python!Encode, Python!Container, Boxes
<1> HIDE DEF tok
<1>6. CASE f.card = "one"
  BY <1>5, <1>6, TokenShape DEF tok
<1>7. CASE f.card # "one"
  <2>1. Boxes(f, m) # Absent
    BY <1>2, <1>7, BoxesWritten
  <2> QED
    BY <1>5, <1>7, <2>1 DEF tok
<1> QED
  BY <1>6, <1>7

LEMMA DartEmits ==
  ASSUME NEW f, Compiled(f), f.place = "body", EmitZero(f), NEW m \in Dart!Memory(f), ~DartClamps(f, m)
  PROVE  Dart!Encode(f, m) # Absent
<1> DEFINE tok == Dart!Encode(f, m)
<1>1. /\ ~f.opt /\ ~f.nullable /\ f.kind \notin {"none", "oneof"}
      /\ f.card = "one" => f.kind \notin {"msg", "time", "json"}
  BY Emitted
<1>2. IF f.card = "one" THEN m \in Values(f) ELSE m \in Collections(f)
  BY <1>1, DartSame DEF Dart!Memory, Values, Collections, Dart!MayBeNull
<1>3. m # Null /\ m # Unset
  BY <1>2, HeldApart DEF Values, Collections
<1>4. m # NoItems \/ f.card # "one"
  BY <1>2, HeldApart DEF Values
<1>5. tok = IF f.card # "one" THEN DartBoxes(f, m) ELSE Dart!Token(f, m[2])
  BY <1>1, <1>3, <1>4, DartSame DEF Dart!Encode, Dart!Container, DartBoxes
<1> HIDE DEF tok
<1>6. CASE f.card = "one"
  <2>1. PICK v : m = Is(v)
    BY <1>2, <1>6 DEF Values
  <2>2. m[2] = v /\ Dart!Token(f, v) = ItemToken(f, v)
    BY <2>1, HeldItems, DartToken
  <2> QED
    BY <1>5, <1>6, <2>2, TokenShape DEF tok
<1>7. CASE f.card # "one"
  <2>1. Boxes(f, m) # Absent
    BY <1>2, <1>7, BoxesWritten
  <2>2. DartBoxes(f, m) = Boxes(f, m)
    BY <1>2, <1>7, Members, DartBoxesOf
  <2> QED
    BY <1>5, <1>7, <2>1, <2>2 DEF tok
<1> QED
  BY <1>6, <1>7

LEMMA SwiftEmits ==
  ASSUME NEW f, Compiled(f), f.place = "body", EmitZero(f), NEW m \in Swift!Memory(f)
  PROVE  Swift!Encode(f, m) # Absent
<1> DEFINE tok == Swift!Encode(f, m)
<1>1. /\ ~f.opt /\ ~f.nullable /\ f.kind \notin {"none", "oneof"}
      /\ f.card = "one" => f.kind \notin {"msg", "time", "json"}
  BY Emitted
<1>2. IF f.card = "one" THEN m \in Values(f) ELSE m \in Collections(f)
  BY <1>1, SwiftSame DEF Swift!Memory, Values, Collections, Swift!MayBeNil
<1>3. m # Null /\ m # Unset
  BY <1>2, HeldApart DEF Values, Collections
<1>4. m # NoItems \/ f.card # "one"
  BY <1>2, HeldApart DEF Values
<1>5. tok = IF f.card # "one" THEN Boxes(f, m) ELSE ItemToken(f, m[2])
  BY <1>1, <1>3, <1>4, SwiftSame DEF Swift!Encode, Swift!Container, Boxes, Swift!Omitted
<1> HIDE DEF tok
<1>6. CASE f.card = "one"
  BY <1>5, <1>6, TokenShape DEF tok
<1>7. CASE f.card # "one"
  <2>1. Boxes(f, m) # Absent
    BY <1>2, <1>7, BoxesWritten
  <2> QED
    BY <1>5, <1>7, <2>1 DEF tok
<1> QED
  BY <1>6, <1>7

LEMMA RustEmits ==
  ASSUME NEW f, Compiled(f), f.place = "body", EmitZero(f), NEW m \in Rust!Memory(f)
  PROVE  Rust!Encode(f, m) # Absent
<1> DEFINE tok == Rust!Encode(f, m)
<1>1. /\ ~f.opt /\ ~f.nullable /\ f.kind \notin {"none", "oneof"}
      /\ f.card = "one" => f.kind \notin {"msg", "time", "json"}
  BY Emitted
<1>2. IF f.card = "one" THEN m \in Values(f) ELSE m \in Collections(f)
  BY <1>1, RustSame DEF Rust!Memory, Values, Collections, Rust!IsOption, TimeText
<1>3. m # Null /\ m # Unset
  BY <1>2, HeldApart DEF Values, Collections
<1>4. m # NoItems \/ f.card # "one"
  BY <1>2, HeldApart DEF Values
<1>5. tok = IF f.card # "one" THEN Boxes(f, m) ELSE ItemToken(f, m[2])
  BY <1>1, <1>3, <1>4, RustSame DEF Rust!Encode, Rust!Container, Boxes, Rust!Skipped
<1> HIDE DEF tok
<1>6. CASE f.card = "one"
  BY <1>5, <1>6, TokenShape DEF tok
<1>7. CASE f.card # "one"
  <2>1. Boxes(f, m) # Absent
    BY <1>2, <1>7, BoxesWritten
  <2> QED
    BY <1>5, <1>7, <2>1 DEF tok
<1> QED
  BY <1>6, <1>7


\* Only a message that a Rust program left out is a null nobody asked for.
LEMMA NoNull ==
  ASSUME NEW l \in Languages \ {"Rust"}, NEW f, Compiled(f), f.place = "body", Unset \in Memory(l, f),
         Encode(l, f, Unset) = JNull
  PROVE  f.nullable
<1>1. /\ Absent # JNull /\ <<f.card>> # JNull
      /\ \A v : ItemToken(f, v) = JNull <=> f.kind = "json" /\ v = "null"
  <2>1. f.card \in {"one", "list", "map"}
    BY DEF Compiled, IsField
  <2>2. <<f.card>> # JNull
    BY <2>1 DEF JNull
  <2> QED
    BY <2>2, WireApart, TokenShape
<1>2. CASE l = "Go"
  <2>1. Unset \in Go!Memory(f) /\ Go!Encode(f, Unset) = JNull
    BY <1>2 DEF Memory, Encode
  <2>2. f.card = "one" \/ f.kind = "none"
    BY <2>1, GoHolds
  <2>3. ~f.nullable /\ f.kind = "oneof" => ~Go!Written(f, Unset)
    BY GoSame DEF Go!Written
  <2>4. ~f.nullable => Go!Encode(f, Unset) \in {Absent, ItemToken(f, "zero")}
    <3>1. f.kind = "none" => ~Go!Written(f, Unset)
      BY DEF Go!Written
    <3> QED
      BY <2>2, <2>3, <3>1, GoSame DEF Go!Encode
  <2> QED
    BY <1>1, <2>1, <2>4
<1>3. CASE l = "TS"
  <2>1. TS!Encode(f, Unset) = JNull
    BY <1>3 DEF Encode
  <2>2. TS!Encode(f, Unset) = IF f.kind = "none" \/ ~EmitZero(f) THEN Absent
                              ELSE IF f.card # "one" THEN <<f.card>> ELSE ItemToken(f, ZeroValue(f))
    BY TSSame DEF TS!Encode
  <2>3. EmitZero(f) /\ f.card = "one" => f.kind # "json"
    BY Emitted
  <2> QED
    BY <1>1, <2>1, <2>2, <2>3
<1>4. CASE l = "Python"
  <2>1. Encode(l, f, Unset) = Python!Encode(f, Unset)
    BY <1>4 DEF Encode
  <2> QED
    BY <1>1, <2>1, PythonSame DEF Python!Encode
<1>5. CASE l = "Dart"
  <2>1. Encode(l, f, Unset) = Dart!Encode(f, Unset)
    BY <1>5 DEF Encode
  <2> QED
    BY <1>1, <2>1, DartSame DEF Dart!Encode
<1>6. CASE l = "Swift"
  <2>1. Encode(l, f, Unset) = Swift!Encode(f, Unset)
    BY <1>6 DEF Encode
  <2> QED
    BY <1>1, <2>1, SwiftSame DEF Swift!Encode, Swift!Omitted
<1> QED
  BY <1>2, <1>3, <1>4, <1>5, <1>6 DEF Languages

\* The JSON of a value has the type and the form of its schema.
LEMMA ItemConforms ==
  ASSUME NEW f, Compiled(f), f.kind \notin {"none", "oneof"}, ~(f.kind \in Integers64 /\ f.card = "map"), NEW v
  PROVE  Document!Shape(ItemToken(f, v)) \in Document!ItemSchema(f)
<1> USE DEF Document!Shape, Document!ItemSchema, Document!TypeSchema, Document!Integers64,
            Document!NeedsEnumNumberEncoding, ItemToken, Str, Num, Obj, JAny, JNull, Integers64
<1>1. EncodeAllowed(f)
  BY DEF Compiled, Compiles
<1>2. CASE f.kind = "enum" /\ NeedsEnumNumberEncoding(f)
  <2>1. \E i : ItemToken(f, v) = <<"number", "index", i>>
    BY <1>2
  <2>2. Document!ItemSchema(f) = {<<"number", "index">>}
    BY <1>2 DEF NeedsEnumNumberEncoding
  <2> HIDE DEF ItemToken, Document!ItemSchema
  <2> QED
    BY <2>1, <2>2
<1>3. CASE f.kind = "enum" /\ ~NeedsEnumNumberEncoding(f)
  BY <1>3 DEF NeedsEnumNumberEncoding
<1>4. CASE f.kind \in Integers64
  BY <1>1, <1>4 DEF NeedsInt64StringEncoding
<1>5. CASE f.kind = "bytes"
  BY <1>1, <1>5 DEF EncodeAllowed
<1>6. CASE f.kind = "time"
  BY <1>1, <1>6 DEF EncodeAllowed
<1>7. CASE f.kind \in {"number", "msg", "text", "json"}
  BY <1>7
<1> QED
  BY <1>2, <1>3, <1>4, <1>5, <1>6, <1>7 DEF Compiled, IsField

LEMMA ZeroIsItem ==
  ASSUME NEW f, Compiled(f), f.kind \notin {"none", "oneof"}
  PROVE  ZeroValue(f) \in ItemValues(f)
BY DEF ZeroValue, ItemValues, Compiled, IsField, Words, Range

\* What is written in a body is what the document says.
LEMMA BodyConforms ==
  ASSUME NEW f, Compiled(f), f.kind # "none", ~(f.kind \in Integers64 /\ f.card = "map"),
         NEW m, Held(f, m), m # Is("nomsg"), NEW tok, Encodes(f, m, tok), tok # Absent,
         m = Unset /\ tok = JNull => f.nullable
  PROVE  Document!Conforms(f, tok)
<1>1. /\ f.nullable => f.card = "one" /\ f.kind # "oneof"
      /\ f.kind = "oneof" => f.card = "one" /\ ~f.nullable
  BY Markers
<1>2. CASE tok = JNull /\ f.nullable
  BY <1>1, <1>2 DEF Document!Conforms, Document!JNull, JNull
<1>3. ASSUME f.card = "one", f.kind # "oneof", NEW v, tok = ItemToken(f, v)
      PROVE  Document!Conforms(f, tok)
  <2>1. Document!Shape(tok) \in Document!ItemSchema(f)
    BY <1>3, ItemConforms
  <2> QED
    BY <1>3, <2>1 DEF Document!Conforms
<1>4. CASE f.card # "one" /\ tok = <<f.card>>
  <2>1. tok[1] = f.card /\ Len(tok) = 1
    BY <1>4, BoxShape
  <2> QED
    BY <1>1, <1>4, <2>1 DEF Document!Conforms
<1>5. ASSUME f.card # "one", NEW v, tok = <<f.card, ItemToken(f, v)>>
      PROVE  Document!Conforms(f, tok)
  <2>1. tok[1] = f.card /\ Len(tok) = 2 /\ tok[2] = ItemToken(f, v)
    BY <1>5, BoxShape
  <2>2. Document!Shape(tok[2]) \in Document!ItemSchema(f)
    BY <1>1, <1>5, <2>1, ItemConforms
  <2> QED
    BY <1>1, <1>5, <2>1, <2>2 DEF Document!Conforms
<1>6. ASSUME f.kind = "oneof", NEW v \in ItemValues(f), v # "nomsg",
             tok \in {OneofToken(v, Absent), OneofToken(v, JNull)}
      PROVE  Document!Conforms(f, tok)
  <2>1. v \in {"int", "msg"}
    BY <1>6 DEF ItemValues
  <2>2. tok = <<"oneof", "int", Str("int", "big")>> \/ tok = <<"oneof", "msg", Obj("val")>>
    BY <1>6, <2>1 DEF OneofToken
  <2>3. /\ Document!Shape(Str("int", "big")) = <<"string", "int">>
        /\ Document!Shape(Obj("val")) = <<"object">>
    BY DEF Document!Shape, Str, Obj
  <2>4. Document!Conforms(f, tok) <=>
          tok[1] = "oneof" /\ Document!Shape(tok[3]) = IF tok[2] = "int" THEN <<"string", "int">> ELSE <<"object">>
    BY <1>1, <1>6 DEF Document!Conforms
  <2>5. CASE tok = <<"oneof", "int", Str("int", "big")>>
    <3>1. tok[1] = "oneof" /\ tok[2] = "int" /\ tok[3] = Str("int", "big")
      BY <2>5
    <3> QED
      BY <2>3, <2>4, <3>1
  <2>6. CASE tok = <<"oneof", "msg", Obj("val")>>
    <3>1. tok[1] = "oneof" /\ tok[2] = "msg" /\ tok[3] = Obj("val")
      BY <2>6
    <3> QED
      BY <2>3, <2>4, <3>1
  <2> QED
    BY <2>2, <2>5, <2>6
<1>7. CASE m = Unset
  BY <1>1, <1>2, <1>3, <1>4, <1>7 DEF Encodes, Blank
<1>8. CASE m = Null
  <2>1. f.nullable
    BY <1>8, HeldApart DEF Held
  <2> QED
    BY <1>2, <1>8, <2>1 DEF Encodes
<1>9. CASE m = NoItems
  <2>1. f.card # "one"
    BY <1>9, HeldApart DEF Held
  <2> QED
    BY <1>4, <1>9, <2>1 DEF Encodes
<1>10. ASSUME NEW v \in ItemValues(f), m = Is(v), f.card = "one" PROVE Document!Conforms(f, tok)
  <2>1. v # "nomsg"
    BY <1>10
  <2> QED
    BY <1>3, <1>6, <1>10, <2>1 DEF Encodes
<1>11. ASSUME NEW v \in ItemValues(f), m = Items(<<v>>), f.card # "one" PROVE Document!Conforms(f, tok)
  BY <1>5, <1>11 DEF Encodes
<1> QED
  BY <1>7, <1>8, <1>9, <1>10, <1>11 DEF Held

\* A number that Dart clamps is a number.
LEMMA ClampedConforms ==
  ASSUME NEW f, Compiled(f), f.place = "body", f.card # "map", NEW m \in Dart!Memory(f), DartClamps(f, m)
  PROVE  Dart!Encode(f, m) # Absent /\ Document!Conforms(f, Dart!Encode(f, m))
<1> DEFINE tok == Dart!Encode(f, m)
           clamped == Num("int", "clamped")
<1>1. f.kind \in Integers64 /\ f.enc = "number" /\ ~NeedsInt64StringEncoding(f)
  BY DEF DartClamps, NeedsInt64StringEncoding
<1>2. Held(f, m)
  BY DartHolds
<1>3. m \notin {Unset, Null, NoItems}
  BY <1>1, HoldsNone DEF DartClamps, Holds
<1>4. Document!Shape(clamped) \in Document!ItemSchema(f)
  BY <1>1 DEF Document!Shape, Document!ItemSchema, Document!Integers64, Document!NeedsEnumNumberEncoding,
     Integers64, Num
<1>5. clamped # Absent
  BY DEF Num, Absent
<1> HIDE DEF clamped
<1>6. ASSUME f.card = "one", NEW v \in ItemValues(f), m = Is(v)
      PROVE  tok # Absent /\ Document!Conforms(f, tok)
  <2>1. v = "huge" /\ f.kind = "uint64" /\ m # Is("zero")
    BY <1>1, <1>6, HeldItems, HeldApart DEF DartClamps, Holds, ItemValues, Integers64, Is
  <2>2. m[2] = v
    BY <1>6, HeldItems
  <2>3. Dart!Token(f, v) = clamped
    BY <1>1, <2>1, DartSame DEF Dart!Token, clamped
  <2>4. tok = clamped
    BY <1>3, <1>6, <2>1, <2>2, <2>3, DartSame DEF Dart!Encode
  <2> HIDE DEF tok
  <2> QED
    BY <1>1, <1>4, <1>5, <1>6, <2>4 DEF Document!Conforms, Integers64
<1>7. ASSUME f.card # "one", NEW v \in ItemValues(f), m = Items(<<v>>)
      PROVE  tok # Absent /\ Document!Conforms(f, tok)
  <2>1. v = "huge" /\ f.kind = "uint64"
    BY <1>1, <1>7, HeldItems DEF DartClamps, Holds, ItemValues, Integers64
  <2>2. m[2] = v /\ Len(m) = 2
    BY <1>7, HeldItems
  <2>3. Dart!Token(f, v) = clamped
    BY <1>1, <2>1, DartSame DEF Dart!Token, clamped
  <2>4. tok = DartBoxes(f, m)
    BY <1>3, <1>7, <2>1, DartSame DEF Dart!Encode, Dart!Container, DartBoxes
  <2> HIDE DEF tok
  <2>5. [i \in 1 .. Len(m) - 1 |-> Dart!Token(f, m[i + 1])] = <<clamped>>
    BY <2>2, <2>3
  <2>6. <<f.card, clamped>> = <<f.card>> \o <<clamped>>
    OBVIOUS
  <2>7. tok = <<f.card, clamped>>
    BY <2>4, <2>5, <2>6 DEF DartBoxes
  <2>8. tok # Absent /\ tok[1] = f.card /\ Len(tok) = 2 /\ tok[2] = clamped
    BY <1>7, <2>7, BoxShape
  <2> QED
    BY <1>1, <1>4, <1>7, <2>8 DEF Document!Conforms, Integers64
<1> QED
  BY <1>2, <1>3, <1>6, <1>7 DEF Held


LEMMA LanguageEncodes ==
  ASSUME NEW l \in Languages, NEW f, Compiled(f), f.place = "body", NEW m \in Memory(l, f),
         ~(l = "Dart" /\ DartClamps(f, m))
  PROVE  Encodes(f, m, Encode(l, f, m))
<1>1. CASE l = "Go"
  <2>1. m \in Go!Memory(f) /\ Encode(l, f, m) = Go!Encode(f, m)
    BY <1>1 DEF Memory, Encode
  <2> QED
    BY <1>1, <2>1, GoEncodes
<1>2. CASE l = "TS"
  <2>1. m \in TS!Memory(f) /\ Encode(l, f, m) = TS!Encode(f, m)
    BY <1>2 DEF Memory, Encode
  <2> QED
    BY <1>2, <2>1, TSEncodes
<1>3. CASE l = "Python"
  <2>1. m \in Python!Memory(f) /\ Encode(l, f, m) = Python!Encode(f, m)
    BY <1>3 DEF Memory, Encode
  <2> QED
    BY <1>3, <2>1, PythonEncodes
<1>4. CASE l = "Dart"
  <2>1. m \in Dart!Memory(f) /\ Encode(l, f, m) = Dart!Encode(f, m)
    BY <1>4 DEF Memory, Encode
  <2> QED
    BY <1>4, <2>1, DartEncodes
<1>5. CASE l = "Swift"
  <2>1. m \in Swift!Memory(f) /\ Encode(l, f, m) = Swift!Encode(f, m)
    BY <1>5 DEF Memory, Encode
  <2> QED
    BY <1>5, <2>1, SwiftEncodes
<1>6. CASE l = "Rust"
  <2>1. m \in Rust!Memory(f) /\ Encode(l, f, m) = Rust!Encode(f, m)
    BY <1>6 DEF Memory, Encode
  <2> QED
    BY <1>6, <2>1, RustEncodes
<1> QED
  BY <1>1, <1>2, <1>3, <1>4, <1>5, <1>6 DEF Languages

LEMMA LanguageEmits ==
  ASSUME NEW l \in Languages, NEW f, Compiled(f), f.place = "body", EmitZero(f), NEW m \in Memory(l, f),
         ~(l = "Dart" /\ DartClamps(f, m))
  PROVE  Encode(l, f, m) # Absent
<1>1. CASE l = "Go"
  <2>1. m \in Go!Memory(f) /\ Encode(l, f, m) = Go!Encode(f, m)
    BY <1>1 DEF Memory, Encode
  <2> QED
    BY <1>1, <2>1, GoEmits
<1>2. CASE l = "TS"
  <2>1. m \in TS!Memory(f) /\ Encode(l, f, m) = TS!Encode(f, m)
    BY <1>2 DEF Memory, Encode
  <2> QED
    BY <1>2, <2>1, TSEmits
<1>3. CASE l = "Python"
  <2>1. m \in Python!Memory(f) /\ Encode(l, f, m) = Python!Encode(f, m)
    BY <1>3 DEF Memory, Encode
  <2> QED
    BY <1>3, <2>1, PythonEmits
<1>4. CASE l = "Dart"
  <2>1. m \in Dart!Memory(f) /\ Encode(l, f, m) = Dart!Encode(f, m)
    BY <1>4 DEF Memory, Encode
  <2> QED
    BY <1>4, <2>1, DartEmits
<1>5. CASE l = "Swift"
  <2>1. m \in Swift!Memory(f) /\ Encode(l, f, m) = Swift!Encode(f, m)
    BY <1>5 DEF Memory, Encode
  <2> QED
    BY <1>5, <2>1, SwiftEmits
<1>6. CASE l = "Rust"
  <2>1. m \in Rust!Memory(f) /\ Encode(l, f, m) = Rust!Encode(f, m)
    BY <1>6 DEF Memory, Encode
  <2> QED
    BY <1>6, <2>1, RustEmits
<1> QED
  BY <1>1, <1>2, <1>3, <1>4, <1>5, <1>6 DEF Languages

LEMMA LanguageHolds ==
  ASSUME NEW l \in Languages, NEW f, Compiled(f), NEW m \in Memory(l, f)
  PROVE  Held(f, m)
<1>1. CASE l = "Go"
  <2>1. m \in Go!Memory(f) /\ Encode(l, f, m) = Go!Encode(f, m)
    BY <1>1 DEF Memory, Encode
  <2> QED
    BY <1>1, <2>1, GoHolds
<1>2. CASE l = "TS"
  <2>1. m \in TS!Memory(f) /\ Encode(l, f, m) = TS!Encode(f, m)
    BY <1>2 DEF Memory, Encode
  <2> QED
    BY <1>2, <2>1, TSHolds
<1>3. CASE l = "Python"
  <2>1. m \in Python!Memory(f) /\ Encode(l, f, m) = Python!Encode(f, m)
    BY <1>3 DEF Memory, Encode
  <2> QED
    BY <1>3, <2>1, PythonHolds
<1>4. CASE l = "Dart"
  <2>1. m \in Dart!Memory(f) /\ Encode(l, f, m) = Dart!Encode(f, m)
    BY <1>4 DEF Memory, Encode
  <2> QED
    BY <1>4, <2>1, DartHolds
<1>5. CASE l = "Swift"
  <2>1. m \in Swift!Memory(f) /\ Encode(l, f, m) = Swift!Encode(f, m)
    BY <1>5 DEF Memory, Encode
  <2> QED
    BY <1>5, <2>1, SwiftHolds
<1>6. CASE l = "Rust"
  <2>1. m \in Rust!Memory(f) /\ Encode(l, f, m) = Rust!Encode(f, m)
    BY <1>6 DEF Memory, Encode
  <2> QED
    BY <1>6, <2>1, RustHolds
<1> QED
  BY <1>1, <1>2, <1>3, <1>4, <1>5, <1>6 DEF Languages

\* What a request has to have is written, at its zero value too.
LEMMA RequiredWritten ==
  ASSUME NEW f, Compiled(f), f.required, "request" \in f.use, NEW m, Held(f, m),
         m \notin {Unset, Null, NoItems}, f.kind = "text" /\ f.card = "one" /\ ~f.opt => m # Zero(f),
         NEW tok, Encodes(f, m, tok)
  PROVE  tok # Absent
<1>1. f.card = "one" => f.opt \/ f.kind \in {"text", "msg", "oneof"}
  BY DEF Compiled, Compiles, RequiredAllowed
<1>2. f.use # {"response"}
  OBVIOUS
<1>3. ~AlwaysSent(f)
  BY <1>2 DEF AlwaysSent, ResponseOnly
<1>4. ASSUME f.card = "one", NEW v \in ItemValues(f), m = Is(v) PROVE tok # Absent
  <2>1. ~(m = Zero(f) /\ Blank(f))
    BY <1>1, <1>3, <1>4 DEF Blank
  <2>2. IF f.kind = "oneof" THEN tok \in {OneofToken(v, Absent), OneofToken(v, JNull)}
        ELSE tok = ItemToken(f, v)
    BY <1>4, <2>1 DEF Encodes
  <2> QED
    BY <2>2, TokenShape, WireApart
<1>5. ASSUME f.card # "one", NEW v \in ItemValues(f), m = Items(<<v>>) PROVE tok # Absent
  <2>1. tok = <<f.card, ItemToken(f, v)>>
    BY <1>5 DEF Encodes
  <2> QED
    BY <1>5, <2>1, BoxShape
<1> QED
  BY <1>4, <1>5 DEF Held

\* A parameter in the path is there, and one of a value is the text of it.
LEMMA PathWritten ==
  ASSUME NEW l \in Languages, NEW f, Compiled(f), f.place = "path", NEW m \in Memory(l, f),
         ~(l = "TS" /\ m = Unset)
  PROVE  m \notin {Unset, Null, NoItems}
<1>1. /\ f.kind \in {"text", "number", "int64", "uint64"} /\ f.card = "one" /\ ~f.opt /\ ~f.nullable
  BY ParamFacts, Markers DEF Compiled, Compiles, PlaceAllowed
<1>2. Held(f, m)
  BY LanguageHolds
<1>3. m \notin {Null, NoItems}
  BY <1>1, <1>2, HeldApart DEF Held
<1>4. CASE l = "Go"
  <2>1. m \in Go!Memory(f)
    BY <1>4 DEF Memory
  <2>2. m \in Values(f)
    BY <1>1, <2>1, GoSame DEF Go!Memory
  <2> QED
    BY <1>3, <2>2, HeldApart DEF Values
<1>5. CASE l = "TS"
  BY <1>3, <1>5
<1>6. CASE l = "Python"
  <2>1. m \in Python!Memory(f)
    BY <1>6 DEF Memory
  <2>2. m \in Values(f)
    BY <1>1, <2>1, PythonSame DEF Python!Memory, TimeText
  <2> QED
    BY <1>3, <2>2, HeldApart DEF Values
<1>7. CASE l = "Dart"
  <2>1. m \in Dart!Memory(f)
    BY <1>7 DEF Memory
  <2>2. m \in Values(f)
    BY <1>1, <2>1, DartSame DEF Dart!Memory, Dart!MayBeNull, Values
  <2> QED
    BY <1>3, <2>2, HeldApart DEF Values
<1>8. CASE l = "Swift"
  <2>1. m \in Swift!Memory(f)
    BY <1>8 DEF Memory
  <2>2. m \in Values(f)
    BY <1>1, <2>1, SwiftSame DEF Swift!Memory, Swift!MayBeNil, Values
  <2> QED
    BY <1>3, <2>2, HeldApart DEF Values
<1>9. CASE l = "Rust"
  <2>1. m \in Rust!Memory(f)
    BY <1>9 DEF Memory
  <2>2. m \in Values(f)
    BY <1>1, <2>1, RustSame DEF Rust!Memory, Rust!IsOption, TimeText
  <2> QED
    BY <1>3, <2>2, HeldApart DEF Values
<1> QED
  BY <1>4, <1>5, <1>6, <1>7, <1>8, <1>9 DEF Languages

LEMMA ParamConforms ==
  ASSUME NEW f, Compiled(f), f.place # "body", NEW m, Held(f, m), m # Null, ParamToken(f, m) # Absent
  PROVE  Document!ParameterConforms(f, ParamToken(f, m))
<1> DEFINE tok == ParamToken(f, m)
<1>1. PICK c : Carries(f, c, tok)
  BY ParamWrites DEF Writes
<1>2. PICK v \in ItemValues(f) \ {"null"} : tok = <<"param", v>> \/ tok = <<"params", v>>
  BY <1>1 DEF Carries, Value, Item, Param
<1> HIDE DEF tok
<1>3. Len(tok) = 2 /\ tok[2] = v
  BY <1>2
<1>4. v # "bad"
  BY TokenRead
<1>5. Document!ParamText(f, v) = v
  <2>1. Document!ItemValues(f) = ItemValues(f)
    BY DEF Document!ItemValues, ItemValues, Document!Range, Range
  <2> QED
    BY <2>1 DEF Document!ParamText
<1>6. \A i \in 2 .. Len(tok) : Document!ParamText(f, tok[i]) # "bad"
  BY <1>3, <1>4, <1>5
<1> QED
  BY <1>6 DEF Document!ParameterConforms, tok

\* Parameters as each language writes them.
LEMMA LanguageParameter ==
  ASSUME NEW l \in Languages, NEW f, Compiled(f), f.place # "body", NEW m \in Memory(l, f)
  PROVE  Encode(l, f, m) = ParamToken(f, m) \/ (m \in {Unset, Null} /\ Encode(l, f, m) # Absent)
<1>1. \A v : Param(v) # Absent
  BY DEF Param, Absent
<1>2. CASE l = "Go"
  <2>1. Encode(l, f, m) = Go!Encode(f, m)
    BY <1>2 DEF Encode
  <2> QED
    BY <1>1, <2>1, GoSame DEF Go!Encode, Go!Parameter
<1>3. CASE l = "TS"
  <2>1. Encode(l, f, m) = TS!Encode(f, m)
    BY <1>3 DEF Encode
  <2> QED
    BY <1>1, <2>1, TSSame DEF TS!Encode, TS!Parameter
<1>4. CASE l = "Python"
  <2>1. Encode(l, f, m) = Python!Encode(f, m)
    BY <1>4 DEF Encode
  <2> QED
    BY <1>1, <2>1, PythonSame DEF Python!Encode, Python!Parameter
<1>5. CASE l = "Dart"
  <2>1. Encode(l, f, m) = Dart!Encode(f, m)
    BY <1>5 DEF Encode
  <2> QED
    BY <1>1, <2>1, DartSame DEF Dart!Encode, Dart!Parameter
<1>6. CASE l = "Swift"
  <2>1. Encode(l, f, m) = Swift!Encode(f, m)
    BY <1>6 DEF Encode
  <2> QED
    BY <1>1, <2>1, SwiftSame DEF Swift!Encode, Swift!Parameter
<1>7. CASE l = "Rust"
  <2>1. Encode(l, f, m) = Rust!Encode(f, m)
    BY <1>7 DEF Encode
  <2> QED
    BY <1>1, <2>1, RustSame DEF Rust!Encode, Rust!Parameter
<1> QED
  BY <1>2, <1>3, <1>4, <1>5, <1>6, <1>7 DEF Languages


\* The JSON in a body, in whatever language it was written.
LEMMA BodyHolds ==
  ASSUME NEW l \in Languages, NEW f, Compiled(f), f.place = "body", f.kind # "none",
         ~(f.kind \in Integers64 /\ f.card = "map"), NEW m \in Memory(l, f), m # Is("nomsg"),
         ~(l = "Rust" /\ f.kind = "msg" /\ m = Unset), Encode(l, f, m) # Absent
  PROVE  Document!Conforms(f, Encode(l, f, m))
<1>1. CASE l = "Dart" /\ DartClamps(f, m)
  <2>1. m \in Dart!Memory(f) /\ Encode(l, f, m) = Dart!Encode(f, m)
    BY <1>1 DEF Memory, Encode
  <2>2. f.card # "map"
    BY <1>1 DEF DartClamps
  <2> QED
    BY <1>1, <2>1, <2>2, ClampedConforms
<1>2. CASE ~(l = "Dart" /\ DartClamps(f, m))
  <2>1. Encodes(f, m, Encode(l, f, m)) /\ Held(f, m)
    BY <1>2, LanguageEncodes, LanguageHolds
  <2>2. ASSUME m = Unset, Encode(l, f, m) = JNull PROVE f.nullable
    <3>1. CASE l # "Rust"
      BY <2>2, <3>1, NoNull
    <3>2. CASE l = "Rust"
      <4>1. f.kind # "msg" /\ f.card \in {"one", "list", "map"}
        BY <2>2, <3>2 DEF Compiled, IsField
      <4>2. JNull # Absent /\ JNull # <<f.card>>
        BY <4>1, WireApart DEF JNull
      <4>3. JNull = ItemToken(f, ZeroValue(f)) => ~Blank(f)
        BY TokenShape DEF Blank
      <4> QED
        BY <2>1, <2>2, <4>1, <4>2, <4>3 DEF Encodes
    <3> QED
      BY <3>1, <3>2
  <2> QED
    BY <2>1, <2>2, BodyConforms
<1> QED
  BY <1>1, <1>2

\* What emit_zero_values, or @required in a request, asks for is in the JSON.
LEMMA BodyWritten ==
  ASSUME NEW l \in Languages, NEW f, Compiled(f), f.place = "body",
         ~(f.kind \in Integers64 /\ f.card = "map"), NEW m \in Memory(l, f),
         \/ EmitZero(f)
         \/ /\ f.required /\ "request" \in f.use /\ Valid(l, f, m)
            /\ ~(l = "Python" /\ f.kind = "oneof" /\ m = Unset)
  PROVE  Encode(l, f, m) # Absent
<1>1. CASE l = "Dart" /\ DartClamps(f, m)
  <2>1. m \in Dart!Memory(f) /\ Encode(l, f, m) = Dart!Encode(f, m)
    BY <1>1 DEF Memory, Encode
  <2>2. f.card # "map"
    BY <1>1 DEF DartClamps
  <2> QED
    BY <1>1, <2>1, <2>2, ClampedConforms
<1>2. CASE ~(l = "Dart" /\ DartClamps(f, m)) /\ EmitZero(f)
  BY <1>2, LanguageEmits
<1>3. CASE ~(l = "Dart" /\ DartClamps(f, m)) /\ ~EmitZero(f)
  <2>1. Encodes(f, m, Encode(l, f, m)) /\ Held(f, m)
    BY <1>3, LanguageEncodes, LanguageHolds
  <2>2. /\ f.required /\ "request" \in f.use /\ Valid(l, f, m)
        /\ ~(l = "Python" /\ f.kind = "oneof" /\ m = Unset)
    BY <1>3
  <2>3. /\ m \notin {Unset, Null, NoItems}
        /\ f.kind = "text" /\ f.card = "one" /\ ~f.opt => m # Zero(f)
    BY <2>1, <2>2, Asked
  <2> QED
    BY <2>1, <2>2, <2>3, RequiredWritten
<1> QED
  BY <1>1, <1>2, <1>3

\* A parameter is what the document says it is, and one it asks for is there.
LEMMA ParameterHolds ==
  ASSUME NEW l \in Languages, NEW f, Compiled(f), f.place # "body", NEW m \in Memory(l, f), Valid(l, f, m),
         ~(Encode(l, f, m) # Absent /\ m \in {Null, Unset})
  PROVE  IF Encode(l, f, m) = Absent THEN ~Document!ParameterRequired(f)
         ELSE Document!ParameterConforms(f, Encode(l, f, m))
<1>1. Held(f, m) /\ Encode(l, f, m) = ParamToken(f, m)
  BY LanguageHolds, LanguageParameter
<1>2. CASE Encode(l, f, m) # Absent
  <2>1. m # Null
    BY <1>2
  <2> QED
    BY <1>1, <1>2, <2>1, ParamConforms
<1>3. CASE Encode(l, f, m) = Absent
  <2>1. m \in {Unset, Null, NoItems}
    BY <1>1, <1>3 DEF ParamToken, Absent, Param, Params
  <2>2. ~f.required
    <3>1. f.kind # "oneof"
      BY ParamFacts
    <3> QED
      BY <1>1, <2>1, <3>1, Asked
  <2>3. f.place # "path"
    <3>1. ASSUME f.place = "path", l = "TS", m = Unset PROVE FALSE
      <4>1. Encode(l, f, m) = TS!Encode(f, m)
        BY <3>1 DEF Encode
      <4>2. TS!Encode(f, m) = Param("undefined")
        BY <3>1, TSSame DEF TS!Encode, TS!Parameter
      <4> QED
        BY <1>3, <4>1, <4>2 DEF Param, Absent
    <3> QED
      BY <2>1, <3>1, PathWritten
  <2> QED
    BY <1>3, <2>2, <2>3 DEF Document!ParameterRequired
<1> QED
  BY <1>2, <1>3

LEMMA DocumentAlways == MessageInv => DocumentHolds
<1> SUFFICES ASSUME MessageInv, phase \in {"request", "response"},
                    NEW f, f = IF phase = "request" THEN old ELSE new,
                    f.kind # "none", ~DocumentGap(f)
             PROVE  IF f.place # "body"
                    THEN IF wire = Absent THEN ~Document!ParameterRequired(f) ELSE Document!ParameterConforms(f, wire)
                    ELSE IF wire = Absent THEN ~Document!Required(f) ELSE Document!Conforms(f, wire)
  BY DEF DocumentHolds
<1>1. Compiled(f) /\ writer \in Languages /\ sent \in Memory(writer, f) /\ wire = Encode(writer, f, sent)
  BY FieldsAssumption DEF MessageInv, Compiled, Requested, Answered, Languages
<1>2. phase = "request" => f = old /\ "request" \in f.use /\ Valid(writer, f, sent)
  BY DEF MessageInv, Requested
<1>3. CASE f.place # "body"
  <2>1. phase = "request"
    BY <1>1, <1>3 DEF Compiled, IsField, MessageInv, Answered
  <2>2. ~(Encode(writer, f, sent) # Absent /\ sent \in {Null, Unset})
    BY <1>1, <1>3 DEF DocumentGap
  <2> QED
    BY <1>1, <1>2, <1>3, <2>1, <2>2, ParameterHolds
<1>4. CASE f.place = "body" /\ wire # Absent
  <2>1. /\ ~(f.kind \in Integers64 /\ f.card = "map") /\ sent # Is("nomsg")
        /\ ~(writer = "Rust" /\ f.kind = "msg" /\ sent = Unset)
    BY DEF DocumentGap
  <2> QED
    BY <1>1, <1>4, <2>1, BodyHolds
<1>5. CASE f.place = "body" /\ wire = Absent
  <2>1. /\ ~(f.kind \in Integers64 /\ f.card = "map")
        /\ \/ EmitZero(f)
           \/ phase = "request" /\ f.required /\ ~NotAskedFor
    BY <1>5 DEF DocumentGap
  <2>2. ASSUME phase = "request", f.required, ~NotAskedFor
        PROVE  ~(writer = "Python" /\ f.kind = "oneof" /\ sent = Unset)
    BY <1>2, <2>2 DEF NotAskedFor
  <2>3. Encode(writer, f, sent) # Absent
    BY <1>1, <1>2, <1>5, <2>1, <2>2, BodyWritten
  <2> QED
    BY <1>1, <1>5, <2>3
<1> QED
  BY <1>3, <1>4, <1>5


\* A property that a TypeScript client takes for granted is in the answer.
LEMMA TypedAnswered ==
  ASSUME NEW l \in {"Go", "TS", "Rust"}, NEW f, Compiled(f), ResponseOnly(f), f.place = "body",
         EmitZero(f) \/ (l # "Rust" /\ AlwaysSent(f)), NEW m \in Memory(l, f)
  PROVE  /\ Encodes(f, m, Encode(l, f, m))
         /\ Encode(l, f, m) # Absent \/ f.nullable
         /\ Encode(l, f, m) = JNull => f.nullable
<1>1. l \in Languages /\ l # "Dart"
  BY DEF Languages
<1>2. Encodes(f, m, Encode(l, f, m)) /\ Held(f, m)
  BY <1>1, LanguageEncodes, LanguageHolds
<1>3. /\ f.kind \notin {"none", "oneof"} /\ f.card \in {"one", "list", "map"}
      /\ f.card = "one" /\ ~f.nullable => f.kind # "json"
      /\ f.card = "one" /\ EmitZero(f) => f.kind \notin {"msg", "time"}
  BY Markers, Emitted DEF AlwaysSent, Compiled, IsField
<1>4. ASSUME ~EmitZero(f), ~f.nullable
      PROVE  /\ l \in {"Go", "TS"} /\ AlwaysSent(f) /\ ~f.opt /\ f.card = "one" /\ f.kind \in {"time", "msg"}
  BY <1>4 DEF AlwaysSent
<1>5. Encode(l, f, m) # Absent \/ f.nullable
  <2>1. CASE EmitZero(f)
    BY <1>1, <2>1, LanguageEmits
  <2>2. ASSUME ~EmitZero(f), ~f.nullable, l = "Go" PROVE Encode(l, f, m) # Absent
    <3>1. m \in Go!Memory(f) /\ Encode(l, f, m) = Go!Encode(f, m)
      BY <2>2 DEF Memory, Encode
    <3>2. Go!Written(f, m)
      BY <1>4, <2>2, GoSame DEF Go!Written
    <3>3. Go!Encode(f, m) \in {ItemToken(f, "zero"), ItemToken(f, m[2])}
      BY <1>4, <2>2, <3>2, GoSame DEF Go!Encode
    <3> QED
      BY <3>1, <3>3, TokenShape
  <2>3. ASSUME ~EmitZero(f), ~f.nullable, l = "TS" PROVE Encode(l, f, m) # Absent
    <3>1. m \in TS!Memory(f) /\ Encode(l, f, m) = TS!Encode(f, m)
      BY <2>3 DEF Memory, Encode
    <3>2. TS!TypedRequired(f)
      BY <1>4, <2>3, TSSame DEF TS!TypedRequired
    <3>3. \E v : m = Is(v)
      BY <1>4, <2>3, <3>1, <3>2, TSSame DEF TS!Memory
    <3>4. m \notin {Unset, Null}
      BY <3>3, HeldApart
    <3>5. TS!Encode(f, m) = ItemToken(f, m[2])
      BY <1>4, <2>3, <3>4, TSSame DEF TS!Encode
    <3> QED
      BY <3>1, <3>5, TokenShape
  <2> QED
    BY <1>4, <2>1, <2>2, <2>3
<1>6. ASSUME Encode(l, f, m) = JNull, ~f.nullable PROVE FALSE
  <2>1. /\ JNull # Absent /\ JNull # <<f.card>> /\ \A t : f.card # "one" => <<f.card, t>> # JNull
        /\ \A v : ItemToken(f, v) = JNull <=> f.kind = "json" /\ v = "null"
    BY <1>3, BoxShape, WireApart, TokenShape DEF JNull
  <2>2. CASE m = Unset
    <3>1. CASE l # "Rust"
      BY <1>1, <1>6, <2>2, <3>1, NoNull
    <3>2. CASE l = "Rust"
      <4>1. EmitZero(f)
        BY <3>2
      <4>2. \/ f.card = "one" /\ f.kind = "msg"
            \/ JNull = ItemToken(f, ZeroValue(f)) /\ f.card = "one" /\ Blank(f)
        BY <1>2, <1>6, <2>1, <2>2 DEF Encodes
      <4> QED
        BY <1>3, <1>6, <2>1, <4>1, <4>2
    <3> QED
      BY <3>1, <3>2
  <2>3. CASE m = Null
    BY <1>2, <1>6, <2>3, HeldApart DEF Held
  <2>4. CASE m = NoItems
    BY <1>2, <1>6, <2>1, <2>4 DEF Encodes
  <2>5. ASSUME f.card = "one", NEW v \in ItemValues(f), m = Is(v) PROVE FALSE
    BY <1>2, <1>3, <1>6, <2>1, <2>5 DEF Encodes
  <2>6. ASSUME f.card # "one", NEW v \in ItemValues(f), m = Items(<<v>>) PROVE FALSE
    BY <1>2, <1>6, <2>1, <2>6 DEF Encodes
  <2> QED
    BY <1>2, <2>2, <2>3, <2>4, <2>5, <2>6 DEF Held
<1> QED
  BY <1>2, <1>5, <1>6

\* What TypeScript has for a value that is there: a null for a null, and no other.
LEMMA TypedRead ==
  ASSUME NEW f, Compiled(f), f.place = "body", f.kind \notin {"none", "oneof"}, NEW m, Held(f, m),
         NEW tok, Encodes(f, m, tok), tok \notin {Absent, JNull}
  PROVE  TS!Decode(f, tok) \notin {Unset, Null}
<1> DEFINE d == TS!Decode(f, tok)
           items == [i \in 1 .. Len(tok) - 1 |-> TS!Item(f, tok[i + 1])]
<1>1. d = IF f.card # "one" THEN Unboxed(f, tok[1], items) ELSE OneValue(TS!Item(f, tok))
  BY TSSame DEF TS!Decode, TS!ReadContainer, TS!ReadValue, Unboxed, OneValue
<1> SUFFICES d \notin {Unset, Null}
  OBVIOUS
<1> HIDE DEF d
<1>2. CASE f.card = "one"
  BY <1>1, <1>2, HeldApart DEF OneValue
<1>3. CASE f.card # "one"
  <2>1. tok = <<f.card>> \/ \E t : tok = <<f.card, t>>
    BY <1>3, HeldApart, Markers DEF Held, Encodes
  <2>2. Len(tok) = 1 \/ Len(tok) = 2
    BY <1>3, <2>1, BoxShape
  <2>3. items = <<>> \/ \E x : items = <<x>>
    <3>1. CASE Len(tok) = 1
      BY <3>1
    <3>2. CASE Len(tok) = 2
      <4>1. items = <<TS!Item(f, tok[2])>>
        BY <3>2
      <4> QED
        BY <4>1
    <3> QED
      BY <2>2, <3>1, <3>2
  <2> HIDE DEF items
  <2>4. Items(items) \notin {Unset, Null}
    BY <2>3, HeldApart DEF NoItems
  <2> QED
    BY <1>1, <1>3, <2>4, HeldApart DEF Unboxed
<1> QED
  BY <1>2, <1>3

LEMMA TypesAlways == MessageInv => TypesHold
<1> SUFFICES ASSUME MessageInv, phase = "done", new = old, reader = "TS", writer # "Rust" \/ EmitZero(old),
                    old.use = {"response"}, ~old.required, TS!TypedRequired(old)
             PROVE  got # Unset /\ (got = Null => old.nullable)
  BY DEF TypesHold
<1>1. Answered /\ got = Decode(reader, old, wire)
  BY DEF MessageInv, Requested
<1>2. Compiled(old) /\ old.place = "body" /\ ResponseOnly(old)
  BY FieldsAssumption DEF MessageInv, Compiled, IsField, ResponseOnly
<1>3. AlwaysSent(old) \/ EmitZero(old)
  BY TSSame DEF TS!TypedRequired
<1>4. old.kind \notin {"none", "oneof"}
  BY <1>2, <1>3, Markers, Emitted DEF AlwaysSent
<1>5. writer \in {"Go", "TS", "Rust"} /\ sent \in Memory(writer, old) /\ wire = Encode(writer, old, sent)
  BY <1>1 DEF Answered
<1>6. /\ Encodes(old, sent, wire)
      /\ wire # Absent \/ old.nullable
      /\ wire = JNull => old.nullable
  BY <1>2, <1>3, <1>5, TypedAnswered
<1>7. Held(old, sent) /\ got = TS!Decode(old, wire)
  BY <1>1, <1>2, <1>5, LanguageHolds DEF Decode, Languages
<1>8. CASE wire = Absent
  <2>1. AlwaysSent(old) /\ old.nullable
    BY <1>2, <1>6, <1>8 DEF AlwaysSent
  <2>2. got = Null
    BY <1>2, <1>4, <1>7, <1>8, <2>1, TSSame DEF TS!Decode
  <2> QED
    BY <2>1, <2>2, HeldApart
<1>9. CASE wire = JNull
  <2>1. got = Null
    BY <1>2, <1>4, <1>7, <1>9, WireApart, TSSame DEF TS!Decode
  <2> QED
    BY <1>6, <1>9, <2>1, HeldApart
<1>10. CASE wire \notin {Absent, JNull}
  BY <1>2, <1>4, <1>6, <1>7, <1>10, TypedRead
<1> QED
  BY <1>8, <1>9, <1>10

\* The TypeScript types and the OpenAPI document tell the truth: what a response
\* is declared to have is there, and what any of the programs writes is what the
\* document says, but for the differences that are named.
THEOREM PublishedHoldsAlways == Spec => []PublishedHolds
<1>1. MessageInv => PublishedHolds
  BY DocumentAlways, TypesAlways DEF PublishedHolds
<1> QED
  BY <1>1, MessageInvariant, PTL
=============================================================================
