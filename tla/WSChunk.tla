------------------------------ MODULE WSChunk ------------------------------
(* Large WebSocket messages: a message over the threshold is sent as a run *)
(* of chunks under the handle's mutex (wsWriteChunked) and put together    *)
(* again by the reader (wsAssembler.feed), which shares its read buffer    *)
(* with the messages it hands over when it may.                            *)
(*                                                                         *)
(* Sizes are in units; the proportions are the code's: a threshold of two  *)
(* chunks, a read cap that a chunk and a plain message never exceed.       *)
(* Unit u of message m is <<m, part, k>>, so a body says whose bytes it    *)
(* holds and in which order.                                               *)
EXTENDS Integers, Sequences, SequencesExt

CONSTANTS
  Msg,         \* messages, each sent once by a goroutine of its own
  Parts,       \* [Msg -> Seq(Nat)]: the lengths of a frame's parts, head and raw
  Binary,      \* messages with a binary encoding
  ChunkBytes,  \* wsChunkBytes
  Threshold,   \* wsChunkThreshold
  Limit,       \* the receiver's message limit
  Retain,      \* the longest read buffer kept for the next frame
  NoMsg

ASSUME ChunkAssumption ==
  /\ ChunkBytes \in Nat \ {0}
  /\ Threshold \in Nat /\ ChunkBytes <= Threshold
  /\ Limit \in Nat /\ Retain \in Nat
  /\ Parts \in [Msg -> Seq(Nat)] /\ \A m \in Msg : Parts[m] # <<>>
  /\ Binary \subseteq Msg /\ NoMsg \notin Msg

VARIABLES
  pc,       \* [Msg -> ...]: where Send is
  writer,   \* the locals of wsWriteChunked of the goroutine that holds mu
  wire,     \* frames sent and not read yet, oldest first
  up,       \* whether the connection is open
  code,     \* the status the receiver closed with; 0 for none
  asm,      \* the receiver's wsAssembler
  mem,      \* the contents of each buffer the receiver allocated
  readBuf,  \* the buffer kept for the next frame; 0 for none
  inbox,    \* the messages handed over, in order
  order,    \* history: the messages whose Send began a frame, in that order
  torn      \* history: the place in order of the first message that was given
            \* up in its middle on an open connection; 0 for none

sendVars == <<pc, writer, order, torn>>
recvVars == <<asm, mem, readBuf, inbox, code>>
vars == <<sendVars, recvVars, wire, up>>

-----------------------------------------------------------------------------
(* The data of a message.                                                  *)

Total(m) == FoldLeft(LAMBDA a, b : a + b, 0, Parts[m])
PartUnits(m, p, from, n) == [k \in 1..n |-> <<m, p, from + k>>]
Body(m) ==
  FlattenSeq([p \in 1..Len(Parts[m]) |-> PartUnits(m, p, 0, Parts[m][p])])

Idle == [msg |-> NoMsg, index |-> 1, offset |-> 0, sent |-> 0, room |-> 0,
         frame |-> <<>>]
NoAssembly == [active |-> FALSE, total |-> 0, binary |-> FALSE, buf |-> <<>>]

Plain(m) == [chunk |-> FALSE, binary |-> m \in Binary, total |-> Total(m),
             data |-> Body(m)]
Chunk(m, data) == [chunk |-> TRUE, binary |-> m \in Binary,
                   total |-> Total(m), data |-> data]

-----------------------------------------------------------------------------
(* Send.                                                                   *)

Release(m) == /\ writer' = Idle
              /\ pc' = [pc EXCEPT ![m] = "done"]

Begun(m) == \E i \in DOMAIN order : order[i] = m
Begins(m) == order' = IF Begun(m) THEN order ELSE Append(order, m)

Lock(m) ==
  /\ pc[m] = "new" /\ writer.msg = NoMsg
  /\ writer' = [Idle EXCEPT !.msg = m]
  /\ pc' = [pc EXCEPT ![m] = IF Total(m) > Threshold THEN "next" ELSE "plain"]
  /\ UNCHANGED <<recvVars, wire, up, order, torn>>

WritePlain(m) ==
  /\ pc[m] = "plain" /\ up
  /\ wire' = Append(wire, Plain(m))
  /\ Begins(m) /\ Release(m)
  /\ UNCHANGED <<recvVars, up, torn>>

\* newWriter and the header of one chunk.
NewWriter(m) ==
  /\ pc[m] = "next" /\ up
  /\ writer' = [writer EXCEPT !.room = ChunkBytes, !.frame = <<>>]
  /\ pc' = [pc EXCEPT ![m] = "fill"]
  /\ Begins(m)
  /\ UNCHANGED <<recvVars, wire, up, torn>>

MoreRoom(m) == writer.room > 0 /\ writer.index <= Len(Parts[m])

\* A mistake: a part is written to its end, whatever room the chunk has.
Bug_IgnoresRoom(m) ==
  /\ pc[m] = "fill" /\ up /\ MoreRoom(m)
  /\ LET left == Parts[m][writer.index] - writer.offset
     IN  writer' =
           [writer EXCEPT
              !.room = @ - left, !.sent = @ + left,
              !.frame = @ \o PartUnits(m, writer.index, writer.offset, left),
              !.index = @ + 1, !.offset = 0]
  /\ UNCHANGED <<recvVars, wire, up, order, torn, pc>>


\* One turn of the inner loop: what is left of a part, or what fits of it.
FillPart(m) ==
  /\ pc[m] = "fill" /\ up /\ MoreRoom(m)
  /\ LET left == Parts[m][writer.index] - writer.offset
         n == IF left < writer.room THEN left ELSE writer.room
         ends == n = left
     IN  writer' =
           [writer EXCEPT
              !.room = @ - n, !.sent = @ + n,
              !.frame = @ \o PartUnits(m, writer.index, writer.offset, n),
              !.index = IF ends THEN @ + 1 ELSE @,
              !.offset = IF ends THEN 0 ELSE @ + n]
  /\ UNCHANGED <<recvVars, wire, up, order, torn, pc>>

\* w.Close sends the chunk; the loop ends when everything has been sent.
CloseChunk(m) ==
  /\ pc[m] = "fill" /\ up /\ ~MoreRoom(m)
  /\ wire' = Append(wire, Chunk(m, writer.frame))
  /\ IF writer.sent >= Total(m)
     THEN Release(m)
     ELSE pc' = [pc EXCEPT ![m] = "next"] /\ UNCHANGED writer
  /\ UNCHANGED <<recvVars, up, order, torn>>

\* A write fails: Send returns its error, the mutex is released.  The
\* connection is gone, or it is open and the context of this Send has ended;
\* then the chunks sent before stay sent, and w.Close may still send the one
\* begun as it is.
WriteFails(m) ==
  /\ pc[m] \in {"plain", "next", "fill"}
  /\ \/ UNCHANGED wire
     \/ up /\ pc[m] = "fill" /\ wire' = Append(wire, Chunk(m, writer.frame))
  /\ torn' = IF up /\ Begun(m) /\ torn = 0 THEN Len(order) ELSE torn
  /\ Release(m)
  /\ UNCHANGED <<recvVars, up, order>>

-----------------------------------------------------------------------------
(* The reader: read a frame into the read buffer, feed it to the assembler,*)
(* decode the message it completes.                                        *)

\* The buffer a frame is read into: the one kept, or a new one.
Target == IF readBuf = 0 THEN Len(mem) + 1 ELSE readBuf
Filled(data) == IF readBuf = 0 THEN Append(mem, data)
                ELSE [mem EXCEPT ![readBuf] = data]

\* A mistake: the read buffer is kept whoever shares it.
Bug_AlwaysKeep(aliased, binary, data) ==
  readBuf' = IF Len(data) > Retain THEN 0 ELSE Target

\* A plain message is aliased: a binary one keeps slices of the buffer.
KeepBuffer(aliased, binary, data) ==
  readBuf' = IF (aliased /\ binary) \/ Len(data) > Retain THEN 0 ELSE Target

\* A decoded message: text is copied, and an assembled body has a buffer of
\* its own; buf is the read buffer that a binary plain message shares.
Delivered(binary, body, buf) == [binary |-> binary, body |-> body, buf |-> buf]

\* A mistake: the announced size is not checked.
Bug_NoLimit(f) ==
  IF asm.active # f.chunk /\ asm.active THEN 1007 ELSE 0

\* What is wrong with frame f for the assembler: the close status, 0 if nothing.
Fault(f) ==
  CASE ~f.chunk -> IF asm.active THEN 1007 ELSE 0
    [] f.chunk /\ ~asm.active ->
         IF f.total > Limit THEN 1009
         ELSE IF Len(f.data) > f.total THEN 1007 ELSE 0
    [] OTHER ->
         IF \/ f.total # asm.total \/ f.binary # asm.binary
            \/ Len(asm.buf) + Len(f.data) > asm.total
         THEN 1007 ELSE 0

Grown(f) == (IF asm.active THEN asm.buf ELSE <<>>) \o f.data

FeedPlain(f) ==
  /\ ~f.chunk
  /\ inbox' = Append(inbox, IF f.binary THEN Delivered(TRUE, <<>>, Target)
                                        ELSE Delivered(FALSE, f.data, 0))
  /\ KeepBuffer(TRUE, f.binary, f.data)
  /\ UNCHANGED asm

\* A mistake: the assembler stays active after the last chunk.
Bug_StaysActive(f) ==
  /\ f.chunk
  /\ asm' = [active |-> TRUE, total |-> f.total, binary |-> f.binary,
             buf |-> Grown(f)]
  /\ KeepBuffer(FALSE, FALSE, f.data)
  /\ inbox' = IF Len(Grown(f)) < f.total THEN inbox
              ELSE Append(inbox, Delivered(f.binary, Grown(f), 0))

FeedChunk(f) ==
  /\ f.chunk
  /\ IF Len(Grown(f)) < f.total
     THEN /\ asm' = [active |-> TRUE, total |-> f.total, binary |-> f.binary,
                     buf |-> Grown(f)]
          /\ KeepBuffer(FALSE, FALSE, f.data)
          /\ UNCHANGED inbox
     ELSE /\ asm' = [asm EXCEPT !.active = FALSE, !.buf = <<>>]
          /\ inbox' = Append(inbox, Delivered(f.binary, Grown(f), 0))
          /\ KeepBuffer(FALSE, f.binary, f.data)

Feed ==
  /\ wire # <<>> /\ code = 0
  /\ LET f == Head(wire)
     IN  /\ mem' = Filled(f.data)
         /\ code' = Fault(f)
         /\ IF Fault(f) = 0
            THEN (FeedPlain(f) \/ FeedChunk(f)) /\ UNCHANGED up
            ELSE /\ up' = FALSE
                 /\ UNCHANGED <<asm, inbox, readBuf>>
  /\ wire' = Tail(wire)
  /\ UNCHANGED sendVars

\* The connection goes away, with any suffix of what is still on its way.
\* The library closes it too when a write fails, or its context ends during it.
Drop ==
  /\ up /\ up' = FALSE
  /\ \E k \in 0..Len(wire) : wire' = SubSeq(wire, 1, k)
  /\ UNCHANGED <<sendVars, recvVars>>

-----------------------------------------------------------------------------
Init ==
  /\ pc = [m \in Msg |-> "new"] /\ writer = Idle /\ order = <<>> /\ torn = 0
  /\ wire = <<>> /\ up = TRUE /\ code = 0
  /\ asm = NoAssembly /\ mem = <<>> /\ readBuf = 0 /\ inbox = <<>>

Writing(m) == WritePlain(m) \/ NewWriter(m) \/ FillPart(m) \/ CloseChunk(m)

Sending(m) == Writing(m) \/ WriteFails(m)

Next == Drop \/ Feed \/ \E m \in Msg : Lock(m) \/ Sending(m)

Spec == Init /\ [][Next]_vars

\* A goroutine that has the mutex runs, and the reader keeps reading.  Nobody
\* has to send, and no context has to end.
FairSpec ==
  /\ Spec /\ WF_vars(Feed)
  /\ \A m \in Msg : WF_vars(Writing(m)) /\ WF_vars(~up /\ WriteFails(m))

-----------------------------------------------------------------------------
(* Properties.                                                             *)

Content(d) == IF d.buf = 0 THEN d.body ELSE mem[d.buf]

TypeOK ==
  /\ pc \in [Msg -> {"new", "plain", "next", "fill", "done"}]
  /\ writer.msg \in Msg \cup {NoMsg}
  /\ writer.room \in 0..ChunkBytes
  /\ writer.msg # NoMsg => writer.index \in 1..(Len(Parts[writer.msg]) + 1)
  /\ up \in BOOLEAN /\ code \in {0, 1007, 1009}
  /\ asm.active \in BOOLEAN
  /\ readBuf \in 0..Len(mem) /\ torn \in 0..Len(order)
  /\ \A i \in DOMAIN inbox : inbox[i].buf \in 0..Len(mem)

\* A Send whose context ends between two chunks leaves a beginning of its
\* message on a connection that stays open.  The assembler takes what follows
\* for its rest, so nothing is promised of that message and of later ones: the
\* j-th is one of them.
Lost(j) == torn # 0 /\ j >= torn

\* Messages of concurrent senders arrive whole and in the order the senders
\* began to write, chunked or not, and stay as they were handed over: no
\* later frame overwrites a buffer that a message still shares
\* (wsWriteChunked, wsAssembler.feed and the aliasing rule of writeWSAssemble).
\* A Send that was given up before it wrote anything disturbs nobody, and one
\* given up in its middle nobody before it.
ArriveWhole ==
  \A i \in DOMAIN inbox : ~Lost(i) =>
    /\ i \in DOMAIN order
    /\ Content(inbox[i]) = Body(order[i])
    /\ inbox[i].binary = (order[i] \in Binary)

\* What one end sends, the other accepts: the assembler's rejections
\* (wsChunkCloseCode) are met only for a message over the limit, and where the
\* next one to be handed over was given up in its middle or comes after one
\* that was.
OnlyTooBigRejected ==
  code # 0 =>
    \/ Lost(Len(inbox) + 1)
    \/ /\ code = 1009 /\ Len(inbox) < Len(order)
       /\ Total(order[Len(inbox) + 1]) > Limit

\* The receiver never holds more of a message than it announced, and never
\* announces more than the limit allows (feed checks before it allocates).
AssemblyBounded ==
  asm.active => /\ asm.total <= Limit
                /\ Len(asm.buf) < asm.total


=============================================================================
