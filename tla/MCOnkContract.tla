---------------------------- MODULE MCOnkContract ----------------------------
(***************************************************************************)
(* Every field that compiles, of every kind, cardinality, encoding and     *)
(* marker, for an enum of up to three values.                              *)
(***************************************************************************)
EXTENDS OnkContract

Kinds == {"text", "number", "int64", "uint64", "enum", "bytes", "time", "json", "msg", "oneof"}

Enums == {<<"A", "B">>, <<"B", "A">>, <<"A">>, <<"A", "B", "C">>, <<"C", "A", "B">>}

Uses == {{"request"}, {"response"}, {"request", "response"}}

Raw(kinds, names) ==
    [kind : kinds, card : {"one", "list", "map"}, enc : {"", "number", "hex", "unix", "date"},
     opt : BOOLEAN, nullable : BOOLEAN, required : BOOLEAN, names : names,
     emit : BOOLEAN, use : Uses, place : {"body"}, alias : {FALSE}]

\* Parameters of messages that only requests use, in a project that omits zeros.
RawParam ==
    [kind : Kinds, card : {"one", "list"}, enc : {"", "number"}, opt : BOOLEAN,
     nullable : BOOLEAN, required : BOOLEAN, names : {<<>>}, emit : {FALSE},
     use : {{"request"}}, place : {"query", "path"}, alias : BOOLEAN]

NoField ==
    [kind : {"none"}, card : {"one"}, enc : {""}, opt : {FALSE}, nullable : {FALSE},
     required : {FALSE}, names : {<<>>}, emit : BOOLEAN, use : Uses, place : {"body"},
     alias : {FALSE}]

MCFields ==
    NoField \cup
    {f \in Raw(Kinds \ {"enum"}, {<<>>}) \cup Raw({"enum"}, Enums) \cup RawParam : Compiles(f)}
==============================================================================
