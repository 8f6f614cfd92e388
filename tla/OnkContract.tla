----------------------------- MODULE OnkContract -----------------------------
(***************************************************************************)
(* A schema, two releases of it, and a client and a server generated from  *)
(* them in two languages.  A release is made when onkt compat has no       *)
(* finding; from then on a client of the old schema sends a request to, or *)
(* reads a response of, a server of the new one.  The client and the       *)
(* server were written by different generators: what one means by its JSON *)
(* has to be what the other reads.                                         *)
(***************************************************************************)
EXTENDS OnkCompat

CONSTANTS Fields,       \* the fields a schema may have
          Clients,      \* the languages of the client
          Servers       \* the languages of the server

\* Words that stand for what a program reads or holds, and name no value of an enum.
Words == {"zero", "null", "bad", "unknown", "rounded", "digits", "nomsg", "msg zero"}

\* A field as the compiler has it.  A message with parameters is one that only
\* requests use, and a field that a schema does not have has no markers.
IsField(f) ==
    /\ f.kind \in {"none", "text", "number", "int64", "uint64", "enum", "bytes", "time", "json",
                   "msg", "oneof"}
    /\ f.card \in {"one", "list", "map"}
    /\ f.enc \in {"", "number", "hex", "unix", "date"}
    /\ {f.opt, f.nullable, f.required, f.emit, f.alias} \subseteq BOOLEAN
    /\ f.use \subseteq {"request", "response"}
    /\ f.place \in {"body", "query", "path"}
    /\ f.place # "body" => f.use = {"request"}
    /\ f.kind = "none" => f.card = "one" /\ ~f.opt /\ ~f.required /\ f.place = "body"
    /\ f.kind = "enum" => 1 \in DOMAIN f.names /\ Range(f.names) \cap Words = {}

Languages == {"Go", "TS", "Python", "Dart", "Swift", "Rust"}

ASSUME FieldsAssumption == \A f \in Fields : IsField(f) /\ Compiles(f)
ASSUME LanguagesAssumption == Clients \subseteq Languages /\ Servers \subseteq {"Go", "TS", "Rust"}

VARIABLES
    phase,    \* "schema", "blocked", "released", "request", "response", "done"
    old, new, \* the field in the client's and in the server's schema
    writer,   \* the language that wrote the message
    reader,   \* the language that reads it
    sent,     \* what the writer's field held
    wire,     \* the JSON between them
    got       \* what the reader's field holds, or Failed

vars == <<phase, old, new, writer, reader, sent, wire, got>>

Go     == INSTANCE GoWire
TS     == INSTANCE TSWire
Python == INSTANCE PyWire
Dart   == INSTANCE DartWire
Swift  == INSTANCE SwiftWire
Rust   == INSTANCE RustWire

Document == INSTANCE OpenAPIDoc

Memory(l, f) ==
    CASE l = "Go"     -> Go!Memory(f)
      [] l = "TS"     -> TS!Memory(f)
      [] l = "Python" -> Python!Memory(f)
      [] l = "Dart"   -> Dart!Memory(f)
      [] l = "Swift"  -> Swift!Memory(f)
      [] l = "Rust"   -> Rust!Memory(f)

Encode(l, f, m) ==
    CASE l = "Go"     -> Go!Encode(f, m)
      [] l = "TS"     -> TS!Encode(f, m)
      [] l = "Python" -> Python!Encode(f, m)
      [] l = "Dart"   -> Dart!Encode(f, m)
      [] l = "Swift"  -> Swift!Encode(f, m)
      [] l = "Rust"   -> Rust!Encode(f, m)

Decode(l, f, tok) ==
    CASE l = "Go"     -> Go!Decode(f, tok)
      [] l = "TS"     -> TS!Decode(f, tok)
      [] l = "Python" -> Python!Decode(f, tok)
      [] l = "Dart"   -> Dart!Decode(f, tok)
      [] l = "Swift"  -> Swift!Decode(f, tok)
      [] l = "Rust"   -> Rust!Decode(f, tok)

Valid(l, f, m) ==
    CASE l = "Go"     -> Go!Valid(f, m)
      [] l = "TS"     -> TS!Valid(f, m)
      [] l = "Python" -> Python!Valid(f, m)
      [] l = "Dart"   -> Dart!Valid(f, m)
      [] l = "Swift"  -> Swift!Valid(f, m)
      [] l = "Rust"   -> Rust!Valid(f, m)

-----------------------------------------------------------------------------

Init ==
    /\ phase = "schema"
    /\ old \in Fields /\ new = old
    /\ writer = "" /\ reader = ""
    /\ sent = Unset /\ wire = Absent /\ got = Unset

\* The next schema: the same, or with this one field changed in any way that
\* compiles.  A message is in the requests and the responses it was in.
Release(f) ==
    /\ phase = "schema"
    /\ f.use = old.use
    /\ new' = f
    /\ phase' = IF Compare(old, f) = {} THEN "released" ELSE "blocked"
    /\ UNCHANGED <<old, writer, reader, sent, wire, got>>

\* A client validates what it sends.
Call(client, server, m) ==
    /\ phase = "released" /\ "request" \in old.use
    /\ m \in Memory(client, old) /\ Valid(client, old, m)
    /\ phase' = "request" /\ writer' = client /\ reader' = server
    /\ sent' = m /\ wire' = Encode(client, old, m)
    /\ UNCHANGED <<old, new, got>>

\* The server decodes it, validates it, and answers 400 when either fails.
Handle ==
    LET m == Decode(reader, new, wire) IN
    /\ phase = "request" /\ phase' = "done"
    /\ got' = IF m # Failed /\ Valid(reader, new, m) THEN m ELSE Failed
    /\ UNCHANGED <<old, new, writer, reader, sent, wire>>

\* The answer is not validated, on either side.
Answer(client, server, m) ==
    /\ phase = "released" /\ "response" \in old.use
    /\ m \in Memory(server, new)
    /\ phase' = "response" /\ writer' = server /\ reader' = client
    /\ sent' = m /\ wire' = Encode(server, new, m)
    /\ UNCHANGED <<old, new, got>>

Read ==
    /\ phase = "response" /\ phase' = "done"
    /\ got' = Decode(reader, old, wire)
    /\ UNCHANGED <<old, new, writer, reader, sent, wire>>

Next ==
    \/ \E f \in Fields : Release(f)
    \/ \E client \in Clients, server \in Servers :
         \/ \E m \in Memory(client, old) : Call(client, server, m)
         \/ \E m \in Memory(server, new) : Answer(client, server, m)
    \/ Handle
    \/ Read

Spec == Init /\ [][Next]_vars

-----------------------------------------------------------------------------

\* ---- Properties.

\* Every field that is in both schemas.
InBoth == old.kind # "none" /\ new.kind # "none"

\* What a value means.  Absent and null are one unless the field is nullable in
\* both schemas; absent and empty or zero are one unless both have the ? marker;
\* a field that a response always has is never absent.
Meaning(m) ==
    LET fs     == {old, new}
        always == \E f \in fs : AlwaysSent(f)
        null   == IF \A f \in fs : f.nullable THEN Null ELSE Unset
        plain  == /\ \E f \in fs : ~f.opt
                  /\ old.kind \notin {"oneof", "json"} /\ (old.kind = "msg" => always)
    IN  IF m \in {Null, Is("null")} THEN null
        ELSE IF m = Unset           THEN IF always THEN null ELSE Unset
        ELSE IF m = NoItems \/ (m = Zero(old) /\ plain) THEN Unset
        ELSE IF m = Is("msg zero")  THEN Is("nomsg")
        ELSE m

\* Losses that lie in one language's types or that its decoder is known for.
Holds(m, vs) == \E i \in DOMAIN m : m[i] \in vs

\* A Python client does not ask for a @required oneof that has a scalar variant.
NotAskedFor == writer = "Python" /\ old.required /\ old.kind = "oneof" /\ sent = Unset

\* A parameter in the path or the query.
LostOnTheWay ==
    \* An empty text in a path is no segment; there is no text for null.
    \/ NoRoute(old, wire) \/ sent = Null
    \* A TypeScript client writes "undefined" for a path field that is not set.
    \/ old.place = "path" /\ writer = "TS" /\ sent = Unset
    \* A TypeScript server has a 64-bit integer as a text and expects a number.
    \/ reader = "TS" /\ old.kind \in Integers64 /\ ~NeedsInt64StringEncoding(old)
    \* A Rust server takes the name of the field for the name in the query.
    \/ reader = "Rust" /\ old.alias

KnownLoss ==
    \* A double does not hold every 64-bit integer; nor does a Dart int a uint64.
    \/ reader = "TS" /\ Holds(sent, {"big", "huge"}) /\ ~NeedsInt64StringEncoding(old)
    \/ "Dart" \in {writer, reader} /\ Holds(sent, {"huge"}) /\ ~NeedsInt64StringEncoding(old)
    \* Python reads a json false, 0 or "" as no value.
    \/ reader = "Python" /\ old.kind = "json" /\ sent = Is("falsy")
    \* A Rust client refuses a message variant whose message was left nil.
    \/ reader = "Rust" /\ sent = Is("nomsg")
    \/ NotAskedFor
    \* Go and Rust take an empty text, or a json null, for a @required field with
    \* the ? marker: it is set.
    \/ old.required /\ old.kind \in {"text", "json"} /\ sent = Zero(old)
    \/ old.place # "body" /\ LostOnTheWay

\* Changes of a schema that onkt compat has no finding for and that break.
CompatGap ==
    \* @required on what had no ? marker: IsRequired was true before.
    \/ new.required /\ ~old.required /\ ~old.opt
    \* Another first value for an enum by name: Go leaves the first one out.
    \/ old.kind = "enum" /\ InBoth /\ old.names[1] # new.names[1]

Delivered == got # Failed /\ (InBoth => Meaning(got) = Meaning(sent))

\* Two programs generated from one schema, in any two languages, understand each
\* other: the reader accepts the message and its field means what the writer's did.
RoundTrips == phase = "done" /\ new = old /\ ~KnownLoss => Delivered

\* A change onkt compat has no finding for does not break a client that was
\* generated before it, whatever the two languages.
CompatProtectsClients ==
    phase = "done" /\ new # old /\ ~KnownLoss /\ ~CompatGap => Delivered

\* A property that TypeScript declares without "?" in a response, because the
\* project emits zeros or the field is always sent, is there when a client reads
\* an answer.  That a field is always sent is promised of the Go server; the
\* TypeScript server has the same type, and the Rust server has neither.
TypesHold ==
    /\ phase = "done" /\ new = old /\ reader = "TS" /\ (writer # "Rust" \/ EmitZero(old))
    /\ old.use = {"response"} /\ ~old.required /\ TS!TypedRequired(old)
    => got # Unset /\ (got = Null => old.nullable)

\* Where the JSON of a program is not what the document says.
DocumentGap(f) ==
    \* The values of a map are numbers; the document has the string of a field.
    \/ f.kind \in Integers64 /\ f.card = "map"
    \* A property without the ? marker that is left out at its zero value; what
    \* @required asks of a request is never left out.
    \/ f.place = "body" /\ wire = Absent /\ ~EmitZero(f) /\ (phase = "request" /\ f.required => NotAskedFor)
    \* A message a Rust program left out, written as null.
    \/ writer = "Rust" /\ f.kind = "msg" /\ sent = Unset
    \* A message variant whose message was left nil.
    \/ sent = Is("nomsg")
    \* A null, or a path field of TypeScript that is not set, sent as a text.
    \/ f.place # "body" /\ wire # Absent /\ sent \in {Null, Unset}

\* What any of the programs writes is what the OpenAPI document of its schema
\* says: a required property is there, and a value has the type and the form the
\* document gives it.
DocumentHolds ==
    LET f == IF phase = "request" THEN old ELSE new
    IN  phase \in {"request", "response"} /\ f.kind # "none" /\ ~DocumentGap(f)
        => IF f.place # "body"
           THEN IF wire = Absent THEN ~Document!ParameterRequired(f) ELSE Document!ParameterConforms(f, wire)
           ELSE IF wire = Absent THEN ~Document!Required(f) ELSE Document!Conforms(f, wire)

\* What is published about a message holds: its TypeScript types and its document.
PublishedHolds == TypesHold /\ DocumentHolds

\* A release leaves the JSON of every value alone that its old clients send or
\* are sent, and the other side reads it as that value: an enum's value is not
\* taken away, given another number, or new in an answer (compareEnum).
ValuesKept ==
    phase = "released" /\ InBoth =>
        /\ "request" \in old.use =>
             \A v \in ItemValues(old) : Reads(new, ItemToken(old, v)) = v
        /\ "response" \in old.use =>
             \A v \in ItemValues(new) : Reads(old, ItemToken(new, v)) = v
===============================================================================
