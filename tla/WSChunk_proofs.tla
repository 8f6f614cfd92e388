--------------------------- MODULE WSChunk_proofs ---------------------------
(* What WSChunk promises for every set of messages and every size: types,  *)
(* with the mutual exclusion and the position in the parts that they rest  *)
(* on, the bound on what an assembler holds, and that messages arrive      *)
(* whole.                                                                  *)
EXTENDS WSChunk, NaturalsInduction, WellFoundedInduction, TLAPS

Inside(m) == pc[m] \in {"plain", "next", "fill"}

\* Whoever is inside holds mu, and knows where it is: never past the end of a
\* part, nor past the last part by more than one.
WriterOK ==
  /\ pc \in [Msg -> {"new", "plain", "next", "fill", "done"}]
  /\ \A m \in Msg : Inside(m) => writer.msg = m
  /\ DOMAIN writer = {"msg", "index", "offset", "sent", "room", "frame"}
  /\ writer.msg \in Msg \cup {NoMsg}
  /\ writer.room \in 0..ChunkBytes /\ writer.offset \in Nat
  /\ writer.msg # NoMsg =>
       /\ writer.index \in 1..(Len(Parts[writer.msg]) + 1)
       /\ writer.index <= Len(Parts[writer.msg])
            => writer.offset <= Parts[writer.msg][writer.index]

Sequence(s) == \E S : s \in Seq(S)

StateOK ==
  /\ up \in BOOLEAN /\ code \in {0, 1007, 1009}
  /\ DOMAIN asm = {"active", "total", "binary", "buf"} /\ asm.active \in BOOLEAN

BufferOK == Sequence(mem) /\ readBuf \in 0..Len(mem)

InboxOK == Sequence(inbox) /\ \A i \in DOMAIN inbox : inbox[i].buf \in 0..Len(mem)

ReaderOK == StateOK /\ BufferOK /\ InboxOK

\* Append keeps a sequence one, whatever its elements are.
LEMMA AppendSequence ==
  ASSUME NEW s, NEW x, Sequence(s)
  PROVE  /\ Sequence(Append(s, x)) /\ Len(Append(s, x)) = Len(s) + 1 /\ Len(s) \in Nat
         /\ \A i \in DOMAIN Append(s, x) :
              (i \in DOMAIN s /\ Append(s, x)[i] = s[i]) \/ Append(s, x)[i] = x
<1>1. PICK S : s \in Seq(S)
  BY DEF Sequence
<1>2. s \in Seq(S \cup {x})
  BY <1>1
<1>3. Append(s, x) \in Seq(S \cup {x})
  BY <1>2
<1> QED
  BY <1>2, <1>3 DEF Sequence

\* Overwriting an element keeps a sequence one, of the same length.
LEMMA ExceptSequence ==
  ASSUME NEW s, NEW x, Sequence(s), NEW k \in 1..Len(s)
  PROVE  Sequence([s EXCEPT ![k] = x]) /\ Len([s EXCEPT ![k] = x]) = Len(s)
<1>1. PICK S : s \in Seq(S)
  BY DEF Sequence
<1>2. s \in Seq(S \cup {x})
  BY <1>1
<1>3. [s EXCEPT ![k] = x] \in Seq(S \cup {x}) /\ Len([s EXCEPT ![k] = x]) = Len(s)
  BY <1>2
<1> QED
  BY <1>3 DEF Sequence

-----------------------------------------------------------------------------

\* wsWriteChunked: every step of a sender keeps mu exclusive and its position
\* within the parts.
LEMMA NextWriterOK == WriterOK /\ [Next]_vars => WriterOK'
<1> SUFFICES ASSUME WriterOK, [Next]_vars PROVE WriterOK'
  OBVIOUS
<1> USE ChunkAssumption
<1>1. ASSUME NEW m \in Msg, Lock(m) PROVE WriterOK'
  <2>1. writer' = [Idle EXCEPT !.msg = m]
    BY <1>1 DEF Lock
  <2>2. /\ DOMAIN writer' = {"msg", "index", "offset", "sent", "room", "frame"}
        /\ writer'.msg = m /\ writer'.index = 1 /\ writer'.offset = 0 /\ writer'.room = 0
    BY <2>1 DEF Idle
  <2>3. Parts[m] \in Seq(Nat) /\ Len(Parts[m]) \in Nat
    OBVIOUS
  <2>4. 1 <= Len(Parts[m]) => 0 <= Parts[m][1]
    BY <2>3
  <2>5. \A k \in Msg : ~Inside(k)
    BY <1>1 DEF Lock, WriterOK
  <2>6. /\ pc' \in [Msg -> {"new", "plain", "next", "fill", "done"}]
        /\ \A k \in Msg : Inside(k)' => k = m
    BY <1>1, <2>5 DEF Lock, WriterOK, Inside
  <2> QED
    BY <2>2, <2>3, <2>4, <2>6 DEF WriterOK
<1>2. ASSUME NEW m \in Msg, Inside(m), Release(m) PROVE WriterOK'
  <2>1. writer' = Idle
    BY <1>2 DEF Release
  <2>2. /\ DOMAIN writer' = {"msg", "index", "offset", "sent", "room", "frame"}
        /\ writer'.msg = NoMsg /\ writer'.offset = 0 /\ writer'.room = 0
    BY <2>1 DEF Idle
  <2>3. \A k \in Msg : Inside(k) => k = m
    BY <1>2 DEF WriterOK
  <2>4. /\ pc' \in [Msg -> {"new", "plain", "next", "fill", "done"}]
        /\ \A k \in Msg : ~Inside(k)'
    BY <1>2, <2>3 DEF Release, WriterOK, Inside
  <2> QED
    BY <2>2, <2>4 DEF WriterOK
<1>3. ASSUME NEW m \in Msg, Inside(m), UNCHANGED writer,
             pc' = [pc EXCEPT ![m] = "next"]
      PROVE WriterOK'
  BY <1>3 DEF WriterOK, Inside
<1>4. ASSUME NEW m \in Msg, NewWriter(m) PROVE WriterOK'
  <2>1. /\ DOMAIN writer' = DOMAIN writer /\ writer'.msg = writer.msg
        /\ writer'.room = ChunkBytes /\ writer'.offset = writer.offset
        /\ writer'.index = writer.index
    BY <1>4 DEF NewWriter, WriterOK
  <2>2. /\ pc' \in [Msg -> {"new", "plain", "next", "fill", "done"}]
        /\ \A k \in Msg : Inside(k)' => Inside(k)
    BY <1>4 DEF NewWriter, WriterOK, Inside
  <2> QED
    BY <2>1, <2>2 DEF WriterOK
<1>5. ASSUME NEW m \in Msg, FillPart(m) PROVE WriterOK'
  <2> DEFINE left == Parts[m][writer.index] - writer.offset
             n == IF left < writer.room THEN left ELSE writer.room
  <2>1. Inside(m) /\ writer.msg = m /\ m # NoMsg
    BY <1>5 DEF FillPart, Inside, WriterOK
  <2>2. /\ Parts[m] \in Seq(Nat) /\ Len(Parts[m]) \in Nat
        /\ writer.index \in 1..Len(Parts[m]) /\ Parts[m][writer.index] \in Nat
    BY <1>5, <2>1 DEF FillPart, MoreRoom, WriterOK
  <2>3. left \in Nat /\ n \in 0..left /\ n \in 0..writer.room
    BY <2>1, <2>2 DEF WriterOK
  <2>4. /\ DOMAIN writer' = DOMAIN writer /\ writer'.msg = m
        /\ writer'.room = writer.room - n
        /\ writer'.index = IF n = left THEN writer.index + 1 ELSE writer.index
        /\ writer'.offset = IF n = left THEN 0 ELSE writer.offset + n
    BY <1>5, <2>1 DEF FillPart, WriterOK
  <2>5. writer'.room \in 0..ChunkBytes /\ writer'.offset \in Nat
    BY <2>3, <2>4 DEF WriterOK
  <2>6. writer'.index \in 1..(Len(Parts[m]) + 1)
    BY <2>2, <2>4
  <2>7. writer'.index <= Len(Parts[m]) => writer'.offset <= Parts[m][writer'.index]
    <3>1. CASE n = left
      <4>1. writer'.index <= Len(Parts[m]) => Parts[m][writer'.index] \in Nat
        BY <2>2, <2>6
      <4> QED
        BY <3>1, <4>1, <2>4
    <3>2. CASE n # left
      BY <3>2, <2>1, <2>2, <2>3, <2>4 DEF WriterOK
    <3> QED
      BY <3>1, <3>2
  <2>8. pc' = pc
    BY <1>5 DEF FillPart
  <2> QED
    BY <2>1, <2>4, <2>5, <2>6, <2>7, <2>8 DEF WriterOK, Inside
<1>6. ASSUME UNCHANGED <<pc, writer>> PROVE WriterOK'
  BY <1>6 DEF WriterOK, Inside
<1>7. ASSUME NEW m \in Msg, Sending(m) PROVE WriterOK'
  BY <1>7, <1>2, <1>3, <1>4, <1>5
     DEF Sending, Writing, WritePlain, CloseChunk, WriteFails, Inside
<1> QED
  BY <1>1, <1>6, <1>7 DEF Next, Drop, Feed, vars, sendVars

-----------------------------------------------------------------------------

\* The reader: a message handed over refers to a buffer there is, and so does
\* the buffer kept for the next frame.
LEMMA FeedReaderOK == ReaderOK /\ Feed => ReaderOK'
<1> SUFFICES ASSUME ReaderOK, Feed PROVE ReaderOK'
  OBVIOUS
<1> DEFINE f == Head(wire)
<1>1. Fault(f) \in {0, 1007, 1009} /\ code' = Fault(f)
  BY DEF Fault, Feed
<1>2. Sequence(mem') /\ Len(mem') \in Nat /\ Len(mem') >= Len(mem) /\ Target \in 1..Len(mem')
  <2>1. mem' = Filled(f.data) /\ Len(mem) \in Nat
    BY AppendSequence DEF Feed, ReaderOK, StateOK, BufferOK, InboxOK
  <2>2. CASE readBuf = 0
    BY <2>1, <2>2, AppendSequence DEF Filled, Target, ReaderOK, StateOK, BufferOK, InboxOK
  <2>3. CASE readBuf # 0
    <3>1. readBuf \in 1..Len(mem)
      BY <2>1, <2>3 DEF ReaderOK, StateOK, BufferOK, InboxOK
    <3>2. mem' = [mem EXCEPT ![readBuf] = f.data] /\ Target = readBuf
      BY <2>1, <2>3 DEF Filled, Target
    <3>3. Sequence(mem') /\ Len(mem') = Len(mem)
      <4>1. /\ Sequence([mem EXCEPT ![readBuf] = f.data])
            /\ Len([mem EXCEPT ![readBuf] = f.data]) = Len(mem)
        <5>1. Sequence(mem)
          BY DEF ReaderOK, BufferOK
        <5> DEFINE k == readBuf
        <5>2. k \in 1..Len(mem)
          BY <3>1
        <5> HIDE DEF k
        <5>3. Sequence([mem EXCEPT ![k] = f.data]) /\ Len([mem EXCEPT ![k] = f.data]) = Len(mem)
          <6> DEFINE x == f.data
          <6> HIDE DEF x
          <6>1. Sequence([mem EXCEPT ![k] = x]) /\ Len([mem EXCEPT ![k] = x]) = Len(mem)
            BY <5>1, <5>2, ExceptSequence
          <6> QED
            BY <6>1 DEF x
        <5> QED
          BY <5>3 DEF k
      <4> QED
        BY <3>2, <4>1, Zenon
    <3> QED
      BY <2>1, <3>1, <3>2, <3>3
  <2> QED
    BY <2>2, <2>3
<1>3. CASE Fault(f) # 0
  <2>1. up' = FALSE /\ UNCHANGED <<asm, inbox, readBuf>>
    BY <1>3 DEF Feed
  <2>2. Len(mem) \in Nat
    BY AppendSequence DEF ReaderOK, StateOK, BufferOK, InboxOK
  <2>3. \A i \in DOMAIN inbox : inbox[i].buf \in 0..Len(mem')
    BY <1>2, <2>2 DEF ReaderOK, StateOK, BufferOK, InboxOK
  <2>4. readBuf' \in 0..Len(mem')
    BY <1>2, <2>1, <2>2 DEF ReaderOK, StateOK, BufferOK, InboxOK
  <2>5. Sequence(inbox') /\ \A i \in DOMAIN inbox' : inbox'[i].buf \in 0..Len(mem')
    BY <2>1, <2>3 DEF ReaderOK, StateOK, BufferOK, InboxOK
  <2>6. DOMAIN asm' = {"active", "total", "binary", "buf"} /\ asm'.active \in BOOLEAN
    BY <2>1 DEF ReaderOK, StateOK, BufferOK, InboxOK
  <2>7. StateOK'
    <3>1. code' \in {0, 1007, 1009}
      BY <1>1
    <3>2. up' \in BOOLEAN
      BY <2>1
    <3> QED
      BY <2>6, <3>1, <3>2 DEF StateOK
  <2>8. BufferOK' /\ InboxOK'
    BY <1>2, <2>4, <2>5, ZenonT(40) DEF BufferOK, InboxOK
  <2> QED
    BY <2>7, <2>8 DEF ReaderOK
<1>4. CASE Fault(f) = 0
  <2>1. UNCHANGED up /\ (FeedPlain(f) \/ FeedChunk(f))
    BY <1>4 DEF Feed
  <2>2. Len(mem) \in Nat
    BY AppendSequence DEF ReaderOK, StateOK, BufferOK, InboxOK
  <2>3. readBuf' \in 0..Len(mem')
    <3>1. ASSUME NEW a, NEW b, NEW d, KeepBuffer(a, b, d) PROVE readBuf' \in {0, Target}
      BY <3>1, Zenon DEF KeepBuffer
    <3>2. readBuf' \in {0, Target}
      BY <2>1, <3>1, Zenon DEF FeedPlain, FeedChunk
    <3> QED
      BY <1>2, <3>2
  <2>4. DOMAIN asm' = {"active", "total", "binary", "buf"} /\ asm'.active \in BOOLEAN
    <3>1. CASE UNCHANGED asm
      BY <3>1 DEF ReaderOK, StateOK, BufferOK, InboxOK
    <3>2. CASE asm' = [active |-> TRUE, total |-> f.total, binary |-> f.binary, buf |-> Grown(f)]
      BY <3>2
    <3>3. CASE asm' = [asm EXCEPT !.active = FALSE, !.buf = <<>>]
      BY <3>3 DEF ReaderOK, StateOK, BufferOK, InboxOK
    <3> QED
      BY <2>1, <3>1, <3>2, <3>3 DEF FeedPlain, FeedChunk
  <2>5. inbox' = inbox \/ \E d : inbox' = Append(inbox, d) /\ d.buf \in {0, Target}
    <3>1. ASSUME NEW b, NEW d, NEW k \in {0, Target}, inbox' = Append(inbox, Delivered(b, d, k))
          PROVE  \E e : inbox' = Append(inbox, e) /\ e.buf \in {0, Target}
      BY <3>1 DEF Delivered
    <3>2. CASE FeedPlain(f) /\ f.binary
      BY <3>2, <3>1, Zenon DEF FeedPlain
    <3>3. CASE FeedPlain(f) /\ ~f.binary
      BY <3>3, <3>1, Zenon DEF FeedPlain
    <3>4. CASE FeedChunk(f)
      BY <3>4, <3>1, Zenon DEF FeedChunk
    <3> QED
      BY <2>1, <3>2, <3>3, <3>4
  <2>6. Sequence(inbox') /\ \A i \in DOMAIN inbox' : inbox'[i].buf \in 0..Len(mem')
    <3>1. CASE inbox' = inbox
      BY <3>1, <1>2, <2>2 DEF ReaderOK, StateOK, BufferOK, InboxOK
    <3>2. ASSUME NEW d, inbox' = Append(inbox, d), d.buf \in {0, Target}
          PROVE  Sequence(inbox') /\ \A i \in DOMAIN inbox' : inbox'[i].buf \in 0..Len(mem')
      BY <3>2, <1>2, <2>2, AppendSequence DEF ReaderOK, StateOK, BufferOK, InboxOK
    <3> QED
      BY <2>5, <3>1, <3>2
  <2>7. StateOK'
    <3>1. up' \in BOOLEAN
      BY <2>1 DEF ReaderOK, StateOK
    <3>2. code' \in {0, 1007, 1009}
      BY <1>1
    <3> QED
      BY <2>4, <3>1, <3>2 DEF StateOK
  <2>8. BufferOK' /\ InboxOK'
    BY <1>2, <2>3, <2>6, ZenonT(40) DEF BufferOK, InboxOK
  <2> QED
    BY <2>7, <2>8 DEF ReaderOK
<1> QED
  BY <1>3, <1>4

\* Only the reader moves its own state.
LEMMA NextReaderOK == ReaderOK /\ [Next]_vars => ReaderOK'
<1> SUFFICES ASSUME ReaderOK, [Next]_vars PROVE ReaderOK'
  OBVIOUS
<1>1. CASE Feed
  BY <1>1, FeedReaderOK
<1>2. ASSUME UNCHANGED recvVars, up' = up \/ up' = FALSE PROVE ReaderOK'
  <2>1. UNCHANGED <<asm, mem, readBuf, inbox, code>>
    BY <1>2 DEF recvVars
  <2>2. up \in BOOLEAN
    BY DEF ReaderOK, StateOK
  <2>3. StateOK'
    <3>1. up' \in BOOLEAN
      BY <1>2, <2>2
    <3> QED
      BY <2>1, <3>1 DEF ReaderOK, StateOK
  <2>4. BufferOK' /\ InboxOK'
    BY <2>1, ZenonT(40) DEF ReaderOK, BufferOK, InboxOK
  <2> QED
    BY <2>3, <2>4 DEF ReaderOK
<1>3. ASSUME NEW m \in Msg, Lock(m) \/ Sending(m) PROVE UNCHANGED <<recvVars, up>>
  BY <1>3 DEF Lock, Sending, Writing, WritePlain, NewWriter, FillPart, CloseChunk, WriteFails
<1> QED
  BY <1>1, <1>2, <1>3 DEF Next, Drop, vars

\* Nobody is inside, and nothing has been read, at first.
LEMMA InitOK == Init => WriterOK /\ ReaderOK
<1> SUFFICES ASSUME Init PROVE WriterOK /\ ReaderOK
  OBVIOUS
<1>1. WriterOK
  BY ChunkAssumption DEF Init, WriterOK, Idle, Inside
<1>2. <<>> \in Seq({}) /\ Len(<<>>) = 0
  OBVIOUS
<1>3. Sequence(<<>>)
  BY <1>2 DEF Sequence
<1> QED
  BY <1>1, <1>2, <1>3 DEF Init, ReaderOK, StateOK, BufferOK, InboxOK, NoAssembly

\* The history of what was sent.
OrderOK == order \in Seq(Msg) /\ torn \in 0..Len(order)

\* The messages that began so far stay so.
OrderGrows ==
  /\ Len(order) \in Nat /\ Len(order') \in Nat /\ Len(order) <= Len(order')
  /\ DOMAIN order = 1..Len(order) /\ DOMAIN order' = 1..Len(order')
  /\ \A j \in 1..Len(order) : order'[j] = order[j]

\* A message that begins is the last so far.
LEMMA BeginsOK ==
  ASSUME order \in Seq(Msg), NEW m \in Msg, Begins(m)
  PROVE  /\ order' \in Seq(Msg) /\ OrderGrows /\ Begun(m)'
         /\ \A k \in Msg : k # m /\ ~Begun(k) => ~Begun(k)'
         /\ ~Begun(m) => Len(order') = Len(order) + 1 /\ order'[Len(order')] = m
         /\ Begun(m) => order' = order
<1>1. CASE Begun(m)
  <2>1. order' = order
    BY <1>1 DEF Begins
  <2> QED
    BY <1>1, <2>1 DEF Begun, OrderGrows
<1>2. CASE ~Begun(m)
  <2>1. order' = Append(order, m)
    BY <1>2 DEF Begins
  <2>2. /\ order' \in Seq(Msg) /\ Len(order) \in Nat /\ Len(order') = Len(order) + 1
        /\ DOMAIN order = 1..Len(order) /\ DOMAIN order' = 1..(Len(order) + 1)
        /\ order'[Len(order) + 1] = m /\ \A j \in 1..Len(order) : order'[j] = order[j]
    BY <2>1
  <2>3. OrderGrows
    BY <2>2 DEF OrderGrows
  <2>4. Begun(m)'
    BY <2>2 DEF Begun
  <2>5. ASSUME NEW k \in Msg, k # m, ~Begun(k) PROVE ~Begun(k)'
    BY <2>2, <2>5 DEF Begun
  <2> QED
    BY <1>2, <2>2, <2>3, <2>4, <2>5
<1> QED
  BY <1>1, <1>2

\* Only Send adds to the history.
LEMMA NextOrderOK == OrderOK /\ [Next]_vars => OrderOK'
<1> SUFFICES ASSUME OrderOK, [Next]_vars PROVE OrderOK'
  OBVIOUS
<1>1. ASSUME NEW m \in Msg, Begins(m), UNCHANGED torn PROVE OrderOK'
  <2>1. /\ order' \in Seq(Msg) /\ Len(order) \in Nat /\ Len(order') \in Nat
        /\ Len(order) <= Len(order')
    BY <1>1, BeginsOK DEF OrderOK, OrderGrows
  <2> QED
    BY <1>1, <2>1 DEF OrderOK
<1>2. ASSUME NEW m \in Msg, WriteFails(m) PROVE OrderOK'
  <2>1. order' = order /\ (torn' = torn \/ torn' = Len(order))
    BY <1>2 DEF WriteFails
  <2>2. order \in Seq(Msg) /\ Len(order) \in 0..Len(order) /\ torn \in 0..Len(order)
    BY DEF OrderOK
  <2> QED
    BY <2>1, <2>2 DEF OrderOK
<1>3. ASSUME UNCHANGED <<order, torn>> PROVE OrderOK'
  BY <1>3 DEF OrderOK
<1>4. ASSUME NEW m \in Msg, Lock(m) \/ Sending(m) PROVE OrderOK'
  BY <1>1, <1>2, <1>3, <1>4
     DEF Lock, Sending, Writing, WritePlain, NewWriter, FillPart, CloseChunk
<1> QED
  BY <1>3, <1>4 DEF Next, Drop, Feed, vars, sendVars

\* The state of sender and receiver keeps its types: the writer never runs
\* past a part, a chunk never has negative room, and every message handed over
\* names a buffer there is (wsWriteChunked, writeWSAssemble).
THEOREM TypeCorrect == Spec => []TypeOK
<1>1. WriterOK /\ ReaderOK /\ OrderOK => TypeOK
  BY DEF WriterOK, ReaderOK, StateOK, BufferOK, InboxOK, OrderOK, TypeOK
<1>2. Init => OrderOK
  BY DEF Init, OrderOK
<1> QED
  BY <1>1, <1>2, InitOK, NextWriterOK, NextReaderOK, NextOrderOK, PTL DEF Spec

\* One sender at a time is inside Send (the handle's mutex): what makes the
\* chunks of two messages not mix.
THEOREM OneSenderInside ==
  Spec => [](\A m, k \in Msg : Inside(m) /\ Inside(k) => m = k)
<1>1. WriterOK => \A m, k \in Msg : Inside(m) /\ Inside(k) => m = k
  BY DEF WriterOK
<1> QED
  BY <1>1, InitOK, NextWriterOK, PTL DEF Spec

-----------------------------------------------------------------------------
(* The data of a message.  Total and Body are folds; what they compute is  *)
(* found by induction, which here is the least counterexample.             *)

\* A set of numbers has a least one.
LEMMA LeastNumber ==
  ASSUME NEW T \in SUBSET Nat, T # {}
  PROVE  \E n \in T : \A k \in T : n <= k
<1> DEFINE R == OpToRel(<, Nat)
<1>1. \A x, y \in Nat : <<x, y>> \in R <=> x < y
  BY DEF OpToRel
<1>2. \E x \in T : \A y \in T : ~ (<<y, x>> \in R)
  <2> HIDE DEF R
  <2>1. IsWellFoundedOn(R, Nat)
    BY NatLessThanWellFounded DEF R
  <2> QED
    BY <2>1, WFMin
<1> HIDE DEF R
<1>3. PICK n \in T : \A k \in T : ~ (<<k, n>> \in R)
  BY <1>2
<1>4. ASSUME NEW k \in T PROVE n <= k
  <2>1. k \in Nat /\ n \in Nat /\ ~(k < n)
    BY <1>1, <1>3
  <2> QED
    BY <2>1
<1> QED
  BY <1>4

\* A set that contains a number if it contains all smaller ones.
LEMMA Induction ==
  ASSUME NEW L \in Nat, NEW T, 0 \in T, \A n \in 1..L : n - 1 \in T => n \in T
  PROVE  0..L \subseteq T
<1> SUFFICES ASSUME NEW x \in 0..L, x \notin T PROVE FALSE
  OBVIOUS
<1> DEFINE Bad == {n \in Nat : n \in 0..L /\ n \notin T}
<1>1. Bad \in SUBSET Nat /\ Bad # {}
  OBVIOUS
<1>2. PICK n \in Bad : \A k \in Bad : n <= k
  <2> HIDE DEF Bad
  <2> QED
    BY <1>1, LeastNumber
<1>3. n \in 0..L /\ n \notin T
  OBVIOUS
<1>4. n \in 1..L
  BY <1>3
<1>5. n - 1 \in Nat /\ n - 1 \in 0..L /\ ~(n <= n - 1)
  BY <1>4
<1>6. n - 1 \notin Bad
  <2> HIDE DEF Bad
  <2> QED
    BY <1>2, <1>5
<1> QED
  BY <1>3, <1>4, <1>5, <1>6

\* g is the beginnings of the concatenation of n sequences.
Beginnings(seqs, n, g) ==
  g = [i \in 1..n |-> IF i = 1 THEN seqs[1] ELSE g[i - 1] \o seqs[i]]

\* There is such a function, for the first n sequences by induction on n.
LEMMA BeginningsExist ==
  ASSUME NEW S, NEW seqs \in Seq(Seq(S)), Len(seqs) >= 1
  PROVE  \E g : Beginnings(seqs, Len(seqs), g)
<1> DEFINE T == {n \in Nat : n = 0 \/ \E g : Beginnings(seqs, n, g)}
<1>1. Len(seqs) \in Nat /\ 0 \in T
  OBVIOUS
<1>2. ASSUME NEW n \in 1..Len(seqs), n - 1 \in T PROVE n \in T
  <2>0. n \in Nat /\ (n - 1 = 0 \/ \E g : Beginnings(seqs, n - 1, g))
    BY <1>2
  <2>1. CASE n = 1
    <3>1. Beginnings(seqs, n, [i \in 1..1 |-> seqs[1]])
      BY <2>1 DEF Beginnings
    <3> QED
      BY <2>0, <3>1
  <2>2. CASE n # 1
    <3>1. PICK g : Beginnings(seqs, n - 1, g)
      BY <2>0, <2>2
    <3> DEFINE h == [i \in 1..n |-> IF i = n THEN g[n - 1] \o seqs[n] ELSE g[i]]
    <3>2. \A i \in 1..(n - 1) : g[i] = IF i = 1 THEN seqs[1] ELSE g[i - 1] \o seqs[i]
      BY <3>1 DEF Beginnings
    <3>3. n - 1 \in 1..n /\ n - 1 # n
      BY <2>0, <2>2
    <3>4. ASSUME NEW i \in 1..n PROVE h[i] = IF i = 1 THEN seqs[1] ELSE h[i - 1] \o seqs[i]
      <4>1. CASE i = n
        <5>1. h[i] = g[n - 1] \o seqs[n]
          BY <4>1
        <5>2. h[n - 1] = g[n - 1]
          BY <3>3
        <5> HIDE DEF h
        <5> QED
          BY <5>1, <5>2, <4>1, <2>2
      <4>2. CASE i # n
        <5>1. i \in 1..(n - 1) /\ h[i] = g[i]
          BY <4>2
        <5>2. CASE i = 1
          BY <5>1, <5>2, <3>2
        <5>3. CASE i # 1
          <6>1. i - 1 \in 1..n /\ i - 1 # n
            BY <5>1, <5>3
          <6>2. h[i - 1] = g[i - 1]
            BY <6>1
          <6> HIDE DEF h
          <6> QED
            BY <5>1, <5>3, <6>2, <3>2
        <5> QED
          BY <5>2, <5>3
      <4> QED
        BY <4>1, <4>2
    <3>5. h = [i \in 1..n |-> h[i]]
      OBVIOUS
    <3>6. Beginnings(seqs, n, h)
      <4> HIDE DEF h
      <4> QED
        BY <3>4, <3>5 DEF Beginnings
    <3> QED
      BY <2>0, <3>6
  <2> QED
    BY <2>1, <2>2
<1>3. Len(seqs) \in T
  <2> HIDE DEF T
  <2>1. 0..Len(seqs) \subseteq T
    BY <1>1, <1>2, Induction
  <2>2. Len(seqs) \in 0..Len(seqs)
    BY <1>1
  <2> QED
    BY <2>1, <2>2
<1> QED
  BY <1>3

\* FlattenSeq is the last of them.
LEMMA Flattened ==
  ASSUME NEW S, NEW seqs \in Seq(Seq(S)), Len(seqs) >= 1
  PROVE  \E g : Beginnings(seqs, Len(seqs), g) /\ FlattenSeq(seqs) = g[Len(seqs)]
<1> DEFINE flatten ==
      CHOOSE g : g = [i \in 1..Len(seqs) |-> IF i = 1 THEN seqs[i] ELSE g[i-1] \o seqs[i]]
<1>1. Len(seqs) # 0
  OBVIOUS
<1>2. FlattenSeq(seqs) = flatten[Len(seqs)]
  BY <1>1, SMT DEF FlattenSeq
<1>3. PICK g : Beginnings(seqs, Len(seqs), g)
  BY BeginningsExist
<1>4. g = [i \in 1..Len(seqs) |-> IF i = 1 THEN seqs[i] ELSE g[i-1] \o seqs[i]]
  BY <1>3 DEF Beginnings
<1>5. flatten = [i \in 1..Len(seqs) |-> IF i = 1 THEN seqs[i] ELSE flatten[i-1] \o seqs[i]]
  BY <1>4, Zenon
<1> HIDE DEF flatten
<1>6. flatten = [i \in 1..Len(seqs) |-> IF i = 1 THEN seqs[1] ELSE flatten[i-1] \o seqs[i]]
  BY <1>5
<1> QED
  BY <1>2, <1>6, Zenon DEF Beginnings

\* h sums up any of the first n parts of m.
Sums(m, n, h) ==
  h = [s \in SUBSET (1..n) |-> IF s = {} THEN 0 ELSE h[s \ {Max(s)}] + Parts[m][Max(s)]]

\* The greatest number of a set, where there is one.
LEMMA MaxOf ==
  /\ \A s, n : n \in s /\ n \in Nat /\ s \subseteq 1..n => Max(s) = n
  /\ \A n \in Nat : \A s \in SUBSET (1..n) : s # {} => Max(s) \in s
<1>1. ASSUME NEW s, NEW n, n \in s, n \in Nat, s \subseteq 1..n PROVE Max(s) = n
  <2>1. \A y \in s : n >= y
    BY <1>1
  <2>2. Max(s) \in s /\ \A y \in s : Max(s) >= y
    BY <1>1, <2>1 DEF Max
  <2>3. Max(s) >= n /\ n >= Max(s) /\ Max(s) \in 1..n
    BY <1>1, <2>1, <2>2
  <2> QED
    BY <1>1, <2>3
<1>2. \A n \in Nat : \A s \in SUBSET (1..n) : s # {} => \E x \in s : \A y \in s : x >= y
  <2> SUFFICES ASSUME NEW n \in Nat, NEW s \in SUBSET (1..n), s # {}
               PROVE  \E x \in s : \A y \in s : x >= y
    OBVIOUS
  <2> DEFINE T == {n - y : y \in s}
  <2>0. \A y \in s : n - y \in Nat
    OBVIOUS
  <2>1. T \in SUBSET Nat /\ T # {}
    BY <2>0
  <2>2. PICK k \in T : \A j \in T : k <= j
    <3> HIDE DEF T
    <3> QED
      BY <2>1, LeastNumber
  <2>3. PICK x \in s : k = n - x
    OBVIOUS
  <2>4. ASSUME NEW y \in s PROVE x >= y
    <3>1. n - y \in T
      OBVIOUS
    <3>2. n - x <= n - y
      BY <2>2, <2>3, <3>1
    <3> QED
      BY <3>2
  <2> QED
    BY <2>4
<1>3. ASSUME NEW n \in Nat, NEW s \in SUBSET (1..n), s # {} PROVE Max(s) \in s
  <2>1. \E x \in s : \A y \in s : x >= y
    BY <1>2, <1>3
  <2> QED
    BY <2>1 DEF Max
<1> QED
  BY <1>1, <1>3

\* There are such sums, again by induction.
LEMMA SumsExist ==
  ASSUME NEW m, NEW L \in Nat
  PROVE  \E h : Sums(m, L, h)
<1> DEFINE T == {n \in Nat : \E h : Sums(m, n, h)}
<1>1. 0 \in T
  <2>1. SUBSET (1..0) = {{}}
    OBVIOUS
  <2>2. Sums(m, 0, [s \in SUBSET (1..0) |-> 0])
    BY <2>1 DEF Sums
  <2> QED
    BY <2>2
<1>2. ASSUME NEW n \in 1..L, n - 1 \in T PROVE n \in T
  <2>1. n \in Nat /\ n - 1 \in Nat
    OBVIOUS
  <2>2. PICK h : Sums(m, n - 1, h)
    BY <1>2
  <2> DEFINE k == [s \in SUBSET (1..n) |-> IF n \in s THEN h[s \ {n}] + Parts[m][n] ELSE h[s]]
             value(s) == IF s = {} THEN 0 ELSE k[s \ {Max(s)}] + Parts[m][Max(s)]
  <2>3. \A s \in SUBSET (1..(n - 1)) : h[s] = IF s = {} THEN 0
                                              ELSE h[s \ {Max(s)}] + Parts[m][Max(s)]
    BY <2>2 DEF Sums
  <2>4. \A s \in SUBSET (1..n) : n \notin s => s \in SUBSET (1..(n - 1)) /\ k[s] = h[s]
    BY <2>1
  <2>5. ASSUME NEW s \in SUBSET (1..n) PROVE k[s] = value(s)
    <3>1. CASE n \in s
      <4>1. Max(s) = n
        BY <3>1, <2>1, MaxOf
      <4>2. s \ {n} \in SUBSET (1..n) /\ n \notin s \ {n}
        OBVIOUS
      <4>3. k[s \ {n}] = h[s \ {n}]
        BY <4>2, <2>4
      <4>4. k[s] = h[s \ {n}] + Parts[m][n]
        BY <3>1
      <4> HIDE DEF k
      <4> QED
        BY <3>1, <4>1, <4>3, <4>4
    <3>2. CASE n \notin s
      <4>1. s \in SUBSET (1..(n - 1)) /\ k[s] = h[s]
        BY <3>2, <2>4
      <4>2. CASE s = {}
        BY <4>1, <4>2, <2>3
      <4>3. CASE s # {}
        <5>1. s \ {Max(s)} \in SUBSET (1..n) /\ n \notin s \ {Max(s)}
          BY <3>2
        <5>2. k[s \ {Max(s)}] = h[s \ {Max(s)}]
          BY <5>1, <2>4
        <5> HIDE DEF k
        <5> QED
          BY <4>1, <4>3, <5>2, <2>3
      <4> QED
        BY <4>2, <4>3
    <3> QED
      BY <3>1, <3>2
  <2>6. k = [s \in SUBSET (1..n) |-> k[s]]
    OBVIOUS
  <2>7. Sums(m, n, k)
    <3> HIDE DEF k
    <3> QED
      BY <2>5, <2>6 DEF Sums
  <2> QED
    BY <2>1, <2>7
<1>3. L \in T
  <2> HIDE DEF T
  <2> QED
    BY <1>1, <1>2, Induction
<1> QED
  BY <1>3

\* Total is the last of these sums.
LEMMA Summed ==
  ASSUME NEW m \in Msg
  PROVE  \E h : Sums(m, Len(Parts[m]), h) /\ Total(m) = h[1..Len(Parts[m])]
<1> DEFINE D == 1..Len(Parts[m])
           iter == CHOOSE h : h = [s \in SUBSET D |->
                                    IF s = {} THEN 0 ELSE h[s \ {Max(s)}] + Parts[m][Max(s)]]
<1>1. DOMAIN Parts[m] = D /\ Len(Parts[m]) \in Nat
  BY ChunkAssumption DEF ChunkAssumption
<1>2. Total(m) = iter[D]
  BY <1>1, SMT DEF Total, FoldLeft, MapThenFoldSet
<1>3. PICK h : Sums(m, Len(Parts[m]), h)
  BY <1>1, SumsExist
<1>4. iter = [s \in SUBSET D |-> IF s = {} THEN 0 ELSE iter[s \ {Max(s)}] + Parts[m][Max(s)]]
  BY <1>3, Zenon DEF Sums
<1> HIDE DEF iter
<1>5. Sums(m, Len(Parts[m]), iter)
  BY <1>4, Zenon DEF Sums
<1> QED
  BY <1>2, <1>5

\* The units of messages, and those of them that one part has.
Unit == Msg \X Nat \X Nat
Whole(m, p) == PartUnits(m, p, 0, Parts[m][p])

\* start[p] is how many units of m come before its part p.
Layout(m, start) ==
  /\ Body(m) \in Seq(Unit) /\ Total(m) = Len(Body(m))
  /\ start \in [1..(Len(Parts[m]) + 1) -> 0..Total(m)]
  /\ start[1] = 0 /\ start[Len(Parts[m]) + 1] = Total(m)
  /\ \A p \in 1..Len(Parts[m]) :
       /\ start[p + 1] = start[p] + Parts[m][p]
       /\ \A k \in 1..Parts[m][p] : Body(m)[start[p] + k] = <<m, p, k>>

Start(m) == CHOOSE start : Layout(m, start)

\* The elements of a concatenation.
LEMMA Concatenated ==
  ASSUME NEW S, NEW a \in Seq(S), NEW b \in Seq(S)
  PROVE  /\ a \o b \in Seq(S) /\ Len(a \o b) = Len(a) + Len(b)
         /\ \A i \in 1..Len(a) : (a \o b)[i] = a[i]
         /\ \A k \in 1..Len(b) : (a \o b)[Len(a) + k] = b[k]
<1>1. \A k \in 1..Len(b) : Len(a) + k \in 1..(Len(a) + Len(b)) /\ ~(Len(a) + k <= Len(a))
                          /\ (Len(a) + k) - Len(a) = k
  OBVIOUS
<1>2. \A k \in 1..Len(b) : (a \o b)[Len(a) + k] = b[k]
  BY <1>1
<1> QED
  BY <1>2

\* The units of one part, by number.
LEMMA PartTyped ==
  ASSUME NEW m \in Msg
  PROVE  /\ Len(Parts[m]) \in Nat /\ Len(Parts[m]) >= 1
         /\ \A p \in 1..Len(Parts[m]) : Parts[m][p] \in Nat
         /\ \A p \in 1..Len(Parts[m]), from, n \in Nat :
              /\ PartUnits(m, p, from, n) \in Seq(Unit) /\ Len(PartUnits(m, p, from, n)) = n
              /\ \A k \in 1..n : PartUnits(m, p, from, n)[k] = <<m, p, from + k>>
<1>1. Parts[m] \in Seq(Nat) /\ Parts[m] # <<>>
  BY ChunkAssumption DEF ChunkAssumption
<1>2. ASSUME NEW p \in 1..Len(Parts[m]), NEW from \in Nat, NEW n \in Nat
      PROVE  /\ PartUnits(m, p, from, n) \in Seq(Unit) /\ Len(PartUnits(m, p, from, n)) = n
             /\ \A k \in 1..n : PartUnits(m, p, from, n)[k] = <<m, p, from + k>>
  <2>1. p \in Nat
    BY <1>1
  <2>2. \A k \in 1..n : <<m, p, from + k>> \in Unit
    BY <2>1 DEF Unit
  <2>3. PartUnits(m, p, from, n) = [k \in 1..n |-> <<m, p, from + k>>]
    BY DEF PartUnits
  <2>4. PartUnits(m, p, from, n) \in [1..n -> Unit]
    BY <2>2, <2>3
  <2>5. \A k \in 1..n : PartUnits(m, p, from, n)[k] = <<m, p, from + k>>
    BY <2>3
  <2> HIDE DEF Unit
  <2>6. ASSUME NEW u \in [1..n -> Unit] PROVE u \in Seq(Unit) /\ Len(u) = n
    OBVIOUS
  <2> QED
    BY <2>4, <2>5, <2>6
<1>3. /\ Len(Parts[m]) \in Nat /\ Len(Parts[m]) >= 1
      /\ \A p \in 1..Len(Parts[m]) : Parts[m][p] \in Nat
  BY <1>1
<1> QED
  BY <1>2, <1>3

\* Every message has a layout: FlattenSeq puts the parts one behind the other, and
\* FoldLeft finds as many units as that makes.
LEMMA LayoutExists == \A m \in Msg : Layout(m, Start(m))
<1> SUFFICES ASSUME NEW m \in Msg PROVE Layout(m, Start(m))
  OBVIOUS
<1> DEFINE L == Len(Parts[m])
           seqs == [p \in 1..L |-> Whole(m, p)]
<1>l. L \in Nat /\ L >= 1 /\ \A p \in 1..L : Parts[m][p] \in Nat
  BY PartTyped
<1>w. \A p \in 1..L :
        /\ Whole(m, p) \in Seq(Unit) /\ Len(Whole(m, p)) = Parts[m][p]
        /\ \A k \in 1..Parts[m][p] : Whole(m, p)[k] = <<m, p, k>>
  <2> SUFFICES ASSUME NEW p \in 1..L
               PROVE  /\ Whole(m, p) \in Seq(Unit) /\ Len(Whole(m, p)) = Parts[m][p]
                      /\ \A k \in 1..Parts[m][p] : Whole(m, p)[k] = <<m, p, k>>
    OBVIOUS
  <2>1. 0 \in Nat /\ Parts[m][p] \in Nat
    BY <1>l
  <2>2. /\ Whole(m, p) \in Seq(Unit) /\ Len(Whole(m, p)) = Parts[m][p]
        /\ \A k \in 1..Parts[m][p] : Whole(m, p)[k] = <<m, p, 0 + k>>
    BY <2>1, PartTyped DEF Whole
  <2>3. \A k \in 1..Parts[m][p] : 0 + k = k
    BY <2>1
  <2> QED
    BY <2>2, <2>3
<1>1. seqs \in Seq(Seq(Unit)) /\ Len(seqs) = L /\ \A p \in 1..L : seqs[p] = Whole(m, p)
  <2> HIDE DEF Unit, Whole, L
  <2> QED
    BY <1>l, <1>w
<1>2. Body(m) = FlattenSeq(seqs)
  BY DEF Body, Whole
<1>3. PICK g : Beginnings(seqs, L, g) /\ Body(m) = g[L]
  <2> HIDE DEF seqs, L
  <2> QED
    BY <1>1, <1>2, <1>l, Flattened
<1>4. \A p \in 1..L : g[p] = IF p = 1 THEN Whole(m, 1) ELSE g[p - 1] \o Whole(m, p)
  <2>1. \A p \in 1..L : g[p] = IF p = 1 THEN seqs[1] ELSE g[p - 1] \o seqs[p]
    BY <1>3 DEF Beginnings
  <2> HIDE DEF seqs
  <2> QED
    BY <2>1, <1>1
<1> HIDE DEF seqs, L
<1> USE <1>l
<1> DEFINE start == [p \in 1..(L + 1) |-> IF p = 1 THEN 0 ELSE Len(g[p - 1])]
\* The first n parts.
<1> DEFINE Laid(n) ==
      /\ g[n] \in Seq(Unit)
      /\ \A p \in 1..n :
           /\ start[p] \in Nat /\ start[p + 1] = start[p] + Parts[m][p]
           /\ start[p + 1] <= Len(g[n])
           /\ \A k \in 1..Parts[m][p] : g[n][start[p] + k] = <<m, p, k>>
<1>5. \A p \in 1..L : start[p + 1] = Len(g[p])
  OBVIOUS
<1>6. start[1] = 0
  OBVIOUS
<1>7. \A n \in 1..L : n = 1 \/ Laid(n - 1) => Laid(n)
  <2> SUFFICES ASSUME NEW n \in 1..L, n = 1 \/ Laid(n - 1) PROVE Laid(n)
    OBVIOUS
  <2>1. /\ Whole(m, n) \in Seq(Unit) /\ Len(Whole(m, n)) = Parts[m][n] /\ Parts[m][n] \in Nat
        /\ \A k \in 1..Parts[m][n] : Whole(m, n)[k] = <<m, n, k>>
    BY <1>w
  <2> HIDE DEF Unit, Whole, start
  <2>2. CASE n = 1
    <3>1. g[n] = Whole(m, n)
      BY <1>4, <2>2
    <3>2. start[n] = 0 /\ start[n + 1] = Parts[m][n]
      BY <1>5, <1>6, <2>1, <2>2, <3>1
    <3>3. \A k \in 1..Parts[m][n] : g[n][start[n] + k] = <<m, n, k>>
      BY <2>1, <3>1, <3>2
    <3> QED
      BY <2>1, <2>2, <3>1, <3>2, <3>3
  <2>3. CASE n # 1
    <3>1. g[n] = g[n - 1] \o Whole(m, n) /\ g[n - 1] \in Seq(Unit)
      BY <1>4, <2>3
    <3>2. /\ g[n] \in Seq(Unit) /\ Len(g[n]) = Len(g[n - 1]) + Parts[m][n]
          /\ \A i \in 1..Len(g[n - 1]) : g[n][i] = g[n - 1][i]
          /\ \A k \in 1..Parts[m][n] : g[n][Len(g[n - 1]) + k] = Whole(m, n)[k]
      <4> DEFINE a == g[n - 1]
                 b == Whole(m, n)
      <4>1. a \in Seq(Unit) /\ b \in Seq(Unit)
        BY <2>1, <3>1
      <4>2. g[n] = a \o b /\ Len(b) = Parts[m][n]
        BY <2>1, <3>1
      <4> HIDE DEF a, b
      <4>3. /\ a \o b \in Seq(Unit) /\ Len(a \o b) = Len(a) + Len(b)
            /\ \A i \in 1..Len(a) : (a \o b)[i] = a[i]
            /\ \A k \in 1..Len(b) : (a \o b)[Len(a) + k] = b[k]
        BY <4>1, Concatenated
      <4>4. /\ g[n] \in Seq(Unit) /\ Len(g[n]) = Len(a) + Parts[m][n]
            /\ \A i \in 1..Len(a) : g[n][i] = a[i]
            /\ \A k \in 1..Parts[m][n] : g[n][Len(a) + k] = b[k]
        BY <4>2, <4>3
      <4> QED
        BY <4>4 DEF a, b
    <3>3. start[n] = Len(g[n - 1]) /\ start[n + 1] = Len(g[n]) /\ start[n] \in Nat
      <4>1. n - 1 \in 1..L /\ (n - 1) + 1 = n
        BY <2>3
      <4>2. start[(n - 1) + 1] = Len(g[n - 1])
        BY <1>5, <4>1
      <4>3. start[n] = Len(g[n - 1])
        BY <4>1, <4>2
      <4>4. start[n + 1] = Len(g[n])
        BY <1>5
      <4>5. Len(g[n - 1]) \in Nat
        BY <3>1
      <4> QED
        BY <4>3, <4>4, <4>5
    <3>4. ASSUME NEW p \in 1..n
          PROVE  /\ start[p] \in Nat /\ start[p + 1] = start[p] + Parts[m][p]
                 /\ start[p + 1] <= Len(g[n])
                 /\ \A k \in 1..Parts[m][p] : g[n][start[p] + k] = <<m, p, k>>
      <4>1. CASE p = n
        <5>1. \A k \in 1..Parts[m][n] : g[n][start[n] + k] = <<m, n, k>>
          BY <2>1, <3>2, <3>3
        <5>2. start[n + 1] = start[n] + Parts[m][n] /\ start[n + 1] <= Len(g[n])
          BY <2>1, <3>2, <3>3
        <5> QED
          BY <4>1, <3>3, <5>1, <5>2
      <4>2. CASE p # n
        <5>1. p \in 1..(n - 1)
          BY <4>2
        <5>2. /\ start[p] \in Nat /\ start[p + 1] = start[p] + Parts[m][p]
              /\ start[p + 1] <= Len(g[n - 1])
              /\ \A k \in 1..Parts[m][p] : g[n - 1][start[p] + k] = <<m, p, k>>
          BY <2>3, <5>1
        <5>0. /\ Len(g[n - 1]) \in Nat /\ Len(g[n - 1]) <= Len(g[n]) /\ Parts[m][p] \in Nat
              /\ p \in 1..L
          BY <2>1, <3>1, <3>2
        <5>3. \A k \in 1..Parts[m][p] : start[p] + k \in 1..Len(g[n - 1])
          <6>1. \A s, w, e \in Nat : s + w <= e => \A k \in 1..w : s + k \in 1..e
            OBVIOUS
          <6>2. start[p] \in Nat /\ Parts[m][p] \in Nat /\ Len(g[n - 1]) \in Nat
            BY <5>0, <5>2, Zenon
          <6>3. start[p] + Parts[m][p] <= Len(g[n - 1])
            BY <5>2, Zenon
          <6> QED
            BY <6>1, <6>2, <6>3, Zenon
        <5>4. \A k \in 1..Parts[m][p] : g[n][start[p] + k] = <<m, p, k>>
          BY <3>2, <5>2, <5>3
        <5>5. start[p + 1] <= Len(g[n])
          BY <5>0, <5>2
        <5> QED
          BY <5>2, <5>4, <5>5
      <4> QED
        BY <4>1, <4>2
    <3> QED
      BY <3>2, <3>4
  <2> QED
    BY <2>2, <2>3
<1> HIDE DEF start
<1>8. Laid(L)
  <2> DEFINE T == {n \in Nat : n = 0 \/ Laid(n)}
  <2> HIDE DEF Laid
  <2>1. 0 \in T
    OBVIOUS
  <2>2. ASSUME NEW n \in 1..L, n - 1 \in T PROVE n \in T
    <3>1. n \in Nat /\ (n = 1 \/ Laid(n - 1))
      BY <2>2
    <3> QED
      BY <1>7, <3>1
  <2> HIDE DEF T
  <2>3. 0..L \subseteq T
    BY <2>1, <2>2, Induction
  <2>4. L \in 0..L /\ L # 0
    OBVIOUS
  <2>5. L \in T
    BY <2>3, <2>4
  <2> QED
    BY <2>4, <2>5 DEF T
<1>9. Total(m) = Len(Body(m))
  <2>1. PICK h : Sums(m, L, h) /\ Total(m) = h[1..L]
    BY Summed DEF L
  <2>2. \A s \in SUBSET (1..L) : h[s] = IF s = {} THEN 0
                                        ELSE h[s \ {Max(s)}] + Parts[m][Max(s)]
    BY <2>1 DEF Sums
  <2> DEFINE T == {n \in Nat : n \in 0..L /\ h[1..n] = start[n + 1]}
  <2>3. 0 \in T
    <3>1. 1..0 = {} /\ {} \in SUBSET (1..L)
      OBVIOUS
    <3>2. h[{}] = 0
      BY <2>2, <3>1, Zenon
    <3>3. 0 \in 0..L /\ 0 + 1 = 1
      OBVIOUS
    <3> QED
      BY <3>1, <3>2, <3>3, <1>6
  <2>4. ASSUME NEW n \in 1..L, n - 1 \in T PROVE n \in T
    <3>1. n \in Nat /\ 1..n \in SUBSET (1..L) /\ n \in 1..n /\ (n - 1) + 1 = n
      OBVIOUS
    <3>2. Max(1..n) = n
      BY <3>1, MaxOf
    <3>3. (1..n) \ {n} = 1..(n - 1)
      BY <3>1
    <3>4. h[1..n] = h[1..(n - 1)] + Parts[m][n]
      BY <2>2, <3>1, <3>2, <3>3
    <3>5. h[1..(n - 1)] = start[n]
      BY <2>4, <3>1
    <3>6. start[n + 1] = start[n] + Parts[m][n]
      BY <1>8
    <3> QED
      BY <3>1, <3>4, <3>5, <3>6
  <2> HIDE DEF T
  <2>5. 0..L \subseteq T
    BY <2>3, <2>4, Induction
  <2>6. L \in 0..L
    OBVIOUS
  <2>7. L \in T
    BY <2>5, <2>6
  <2> QED
    BY <1>3, <1>5, <2>1, <2>7 DEF T
<1>10. start \in [1..(L + 1) -> 0..Total(m)]
  <2>1. \A p \in 1..(L + 1) : start[p] \in 0..Total(m)
    <3> SUFFICES ASSUME NEW p \in 1..(L + 1) PROVE start[p] \in 0..Total(m)
      OBVIOUS
    <3>0. Total(m) \in Nat /\ Total(m) = Len(g[L])
      BY <1>3, <1>8, <1>9
    <3>1. CASE p = 1
      BY <1>6, <3>0, <3>1
    <3>2. CASE p # 1
      <4>1. p - 1 \in 1..L /\ (p - 1) + 1 = p
        BY <3>2
      <4>2. start[p] <= Len(g[L]) /\ start[p - 1] \in Nat /\ Parts[m][p - 1] \in Nat
            /\ start[p] = start[p - 1] + Parts[m][p - 1]
        BY <1>8, <4>1
      <4> QED
        BY <3>0, <4>2
    <3> QED
      BY <3>1, <3>2
  <2> QED
    BY <2>1 DEF start
<1>11. Layout(m, start)
  <2>1. start[L + 1] = Total(m)
    BY <1>3, <1>5, <1>9
  <2> QED
    BY <1>3, <1>6, <1>8, <1>9, <1>10, <2>1 DEF Layout, L
<1> QED
  BY <1>11, Zenon DEF Start

\* Units a + 1 to b of message m.
Slice(m, a, b) == SubSeq(Body(m), a + 1, b)

\* A message is as long as its parts together.
LEMMA WholeBody ==
  ASSUME NEW m \in Msg
  PROVE  /\ Total(m) \in Nat /\ Body(m) \in Seq(Unit) /\ Len(Body(m)) = Total(m)
         /\ Slice(m, 0, Total(m)) = Body(m)
<1> DEFINE B == Body(m)
<1>1. B \in Seq(Unit) /\ Total(m) = Len(B)
  BY LayoutExists DEF Layout
<1> HIDE DEF B, Unit
<1>2. Len(B) \in Nat
  BY <1>1
<1>3. SubSeq(B, 0 + 1, Len(B)) = B
  BY <1>1, <1>2
<1> QED
  BY <1>1, <1>2, <1>3 DEF Slice, B

-----------------------------------------------------------------------------

\* Every frame on the wire announces a number of units.
WireOK == Sequence(wire) /\ \A i \in DOMAIN wire : wire[i].total \in Nat

\* A frame taken from the front, and a wire cut short, are as the wire was.
LEMMA PartOfSequence ==
  ASSUME NEW s, Sequence(s)
  PROVE  /\ Sequence(Tail(s)) \/ s = <<>>
         /\ s # <<>> => 1 \in DOMAIN s /\ Head(s) = s[1]
         /\ s # <<>> => \A i \in DOMAIN Tail(s) : i + 1 \in DOMAIN s /\ Tail(s)[i] = s[i + 1]
         /\ \A k \in 0..Len(s) :
              /\ Sequence(SubSeq(s, 1, k))
              /\ \A i \in DOMAIN SubSeq(s, 1, k) : i \in DOMAIN s /\ SubSeq(s, 1, k)[i] = s[i]
<1>1. PICK S : s \in Seq(S)
  BY DEF Sequence
<1>2. s # <<>> => Tail(s) \in Seq(S)
  BY <1>1
<1>3. \A k \in 0..Len(s) : SubSeq(s, 1, k) \in Seq(S)
  BY <1>1
<1>4. s # <<>> => 1 \in DOMAIN s /\ Head(s) = s[1]
  BY <1>1
<1>5. s # <<>> => \A i \in DOMAIN Tail(s) : i + 1 \in DOMAIN s /\ Tail(s)[i] = s[i + 1]
  BY <1>1
<1>6. \A k \in 0..Len(s) : \A i \in DOMAIN SubSeq(s, 1, k) :
         i \in DOMAIN s /\ SubSeq(s, 1, k)[i] = s[i]
  BY <1>1
<1> QED
  BY <1>2, <1>3, <1>4, <1>5, <1>6 DEF Sequence

\* Senders announce the size of their message.
LEMMA NextWireOK == WireOK /\ [Next]_vars => WireOK'
<1> SUFFICES ASSUME WireOK, [Next]_vars PROVE WireOK'
  OBVIOUS
<1>1. CASE UNCHANGED wire
  BY <1>1 DEF WireOK
<1>2. CASE Feed
  <2>1. wire # <<>> /\ wire' = Tail(wire)
    BY <1>2 DEF Feed
  <2> QED
    BY <2>1, PartOfSequence DEF WireOK
<1>3. CASE Drop
  <2>1. PICK k \in 0..Len(wire) : wire' = SubSeq(wire, 1, k)
    BY <1>3 DEF Drop
  <2> QED
    BY <2>1, PartOfSequence DEF WireOK
<1>4. ASSUME NEW m \in Msg, NEW d, d.total = Total(m), wire' = Append(wire, d) PROVE WireOK'
  <2>1. d.total \in Nat
    BY <1>4, WholeBody
  <2> QED
    BY <1>4, <2>1, AppendSequence DEF WireOK
<1>5. ASSUME NEW m \in Msg, WritePlain(m) PROVE WireOK'
  <2>1. Plain(m).total = Total(m) /\ wire' = Append(wire, Plain(m))
    BY <1>5 DEF WritePlain, Plain
  <2> QED
    BY <2>1, <1>4
<1>6. ASSUME NEW m \in Msg, CloseChunk(m) PROVE WireOK'
  <2>1. /\ Chunk(m, writer.frame).total = Total(m)
        /\ wire' = Append(wire, Chunk(m, writer.frame))
    BY <1>6 DEF CloseChunk, Chunk
  <2> QED
    BY <2>1, <1>4
<1>7. ASSUME NEW m \in Msg, Lock(m) \/ NewWriter(m) \/ FillPart(m)
      PROVE  UNCHANGED wire
  BY <1>7 DEF Lock, NewWriter, FillPart
<1>8. ASSUME NEW m \in Msg, WriteFails(m) PROVE WireOK'
  <2>1. Chunk(m, writer.frame).total = Total(m)
    BY DEF Chunk
  <2>2. UNCHANGED wire \/ wire' = Append(wire, Chunk(m, writer.frame))
    BY <1>8 DEF WriteFails
  <2> QED
    BY <2>1, <2>2, <1>1, <1>4
<1> QED
  BY <1>1, <1>2, <1>3, <1>5, <1>6, <1>7, <1>8 DEF Next, Sending, Writing, vars

\* feed takes a chunk only if it announces no more than the limit, or than what
\* the message in assembly announced.
LEMMA FeedBounded == WireOK /\ ReaderOK /\ AssemblyBounded /\ Feed => AssemblyBounded'
<1> SUFFICES ASSUME WireOK, ReaderOK, AssemblyBounded, Feed PROVE AssemblyBounded'
  OBVIOUS
<1> DEFINE f == Head(wire)
<1>1. f.total \in Nat
  BY PartOfSequence DEF WireOK, Feed
<1>2. CASE UNCHANGED asm
  BY <1>2 DEF AssemblyBounded
<1>3. ASSUME Fault(f) = 0, FeedChunk(f) PROVE AssemblyBounded'
  <2>1. f.chunk
    BY <1>3 DEF FeedChunk
  <2>2. CASE Len(Grown(f)) < f.total
    <3>1. asm' = [active |-> TRUE, total |-> f.total, binary |-> f.binary, buf |-> Grown(f)]
      BY <1>3, <2>2 DEF FeedChunk
    <3>2. CASE asm.active
      <4>1. f.total = asm.total
        <5>1. ASSUME f.total # asm.total PROVE Fault(f) = 1007
          <6>1. Fault(f) = IF \/ f.total # asm.total \/ f.binary # asm.binary
                              \/ Len(asm.buf) + Len(f.data) > asm.total
                           THEN 1007 ELSE 0
            BY <2>1, <3>2, Zenon DEF Fault
          <6> QED
            BY <5>1, <6>1, Zenon
        <5> QED
          BY <1>3, <5>1
      <4> QED
        BY <2>2, <3>1, <3>2, <4>1 DEF AssemblyBounded
    <3>3. CASE ~asm.active
      <4>1. ~(f.total > Limit)
        BY <1>3, <2>1, <3>3 DEF Fault
      <4>2. f.total <= Limit
        BY <1>1, <4>1, ChunkAssumption
      <4> QED
        BY <2>2, <3>1, <4>2 DEF AssemblyBounded
    <3> QED
      BY <3>2, <3>3
  <2>3. CASE ~(Len(Grown(f)) < f.total)
    <3>1. asm' = [asm EXCEPT !.active = FALSE, !.buf = <<>>]
      BY <1>3, <2>3 DEF FeedChunk
    <3>2. asm'.active = FALSE
      BY <3>1 DEF ReaderOK, StateOK, BufferOK, InboxOK
    <3> QED
      BY <3>2 DEF AssemblyBounded
  <2> QED
    BY <2>2, <2>3
<1> QED
  BY <1>2, <1>3 DEF Feed, FeedPlain

\* wsAssembler.feed never holds as much as it announced, nor announces more
\* than the limit, for any limit, sizes and frames.
THEOREM AssemblyBoundedAlways == Spec => []AssemblyBounded
<1>1. Init => AssemblyBounded /\ WireOK
  <2>1. <<>> \in Seq({})
    OBVIOUS
  <2> QED
    BY <2>1 DEF Init, AssemblyBounded, NoAssembly, WireOK, Sequence
<1>2. WireOK /\ ReaderOK /\ AssemblyBounded /\ [Next]_vars => AssemblyBounded'
  <2> SUFFICES ASSUME WireOK, ReaderOK, AssemblyBounded, [Next]_vars PROVE AssemblyBounded'
    OBVIOUS
  <2>1. CASE UNCHANGED asm
    BY <2>1 DEF AssemblyBounded
  <2>2. ASSUME NEW m \in Msg, Lock(m) \/ Sending(m) PROVE UNCHANGED asm
    BY <2>2 DEF Lock, Sending, Writing, WritePlain, NewWriter, FillPart, CloseChunk, WriteFails, recvVars
  <2> QED
    BY <2>1, <2>2, FeedBounded DEF Next, Drop, vars, recvVars
<1> QED
  BY <1>1, <1>2, InitOK, NextReaderOK, NextWireOK, PTL DEF Spec

-----------------------------------------------------------------------------
(* Messages arrive whole: the sender.                                      *)

\* Nobody's message began before its Send holds mu; whoever holds it began last,
\* if it began, and else has sent nothing.
HoldsOK ==
  /\ OrderOK
  /\ \A m \in Msg : pc[m] \in {"new", "plain"} => ~Begun(m)
  /\ writer.msg # NoMsg =>
       /\ Inside(writer.msg)
       /\ pc[writer.msg] = "fill" => Begun(writer.msg)
       /\ Begun(writer.msg) => order[Len(order)] = writer.msg
       /\ ~Begun(writer.msg) => writer.sent = 0

\* A sender in wsWriteChunked knows how much it has sent, and its frame is the
\* latest part of that.
PlaceOK ==
  \A m \in Msg :
    /\ pc[m] = "plain" => ~(Total(m) > Threshold)
    /\ pc[m] \in {"next", "fill"} =>
         /\ Total(m) > Threshold /\ writer.sent \in 0..Total(m)
         /\ writer.sent = Start(m)[writer.index] + writer.offset
    /\ pc[m] = "fill" =>
         /\ writer.frame \in Seq(Unit) /\ Len(writer.frame) <= writer.sent
         /\ writer.frame = Slice(m, writer.sent - Len(writer.frame), writer.sent)

\* Consecutive units make a longer slice.
LEMMA SliceGrows ==
  ASSUME NEW m \in Msg, NEW a \in Nat, NEW b \in Nat, NEW u \in Seq(Unit),
         a <= b, b + Len(u) <= Total(m),
         \A k \in 1..Len(u) : u[k] = Body(m)[b + k]
  PROVE  /\ Slice(m, a, b) \in Seq(Unit) /\ Len(Slice(m, a, b)) = b - a
         /\ \A k \in 1..(b - a) : Slice(m, a, b)[k] = Body(m)[a + k]
         /\ Slice(m, a, b) \o u = Slice(m, a, b + Len(u))
<1> DEFINE B == Body(m)
           L == Len(u)
           s == SubSeq(B, a + 1, b)
           t == SubSeq(B, a + 1, b + L)
<1>1. B \in Seq(Unit) /\ Total(m) = Len(B) /\ Len(B) \in Nat /\ L \in Nat
  BY LayoutExists DEF Layout
<1> HIDE DEF B, Unit
<1>2. /\ s \in Seq(Unit) /\ Len(s) = b - a
      /\ \A k \in 1..(b - a) : s[k] = B[a + k]
  <2>1. a + 1 \in Nat /\ a + 1 >= 1 /\ b <= Len(B) /\ b - a \in Nat
    BY <1>1
  <2>2. \A k \in 1..(b - a) : (a + 1) + k - 1 = a + k /\ a + k \in 1..Len(B)
    BY <1>1
  <2>3. Len(s) = b - a /\ s \in Seq(Unit)
    BY <1>1, <2>1, <2>2
  <2>4. \A k \in 1..(b - a) : s[k] = B[a + k]
    BY <1>1, <2>1, <2>2
  <2> QED
    BY <2>3, <2>4
<1>3. /\ t \in Seq(Unit) /\ Len(t) = (b + L) - a
      /\ \A k \in 1..((b + L) - a) : t[k] = B[a + k]
  <2>1. a + 1 \in Nat /\ a + 1 >= 1 /\ b + L <= Len(B) /\ (b + L) - a \in Nat
    BY <1>1
  <2>2. \A k \in 1..((b + L) - a) : (a + 1) + k - 1 = a + k /\ a + k \in 1..Len(B)
    BY <1>1
  <2>3. Len(t) = (b + L) - a /\ t \in Seq(Unit)
    BY <1>1, <2>1, <2>2
  <2>4. \A k \in 1..((b + L) - a) : t[k] = B[a + k]
    BY <1>1, <2>1, <2>2
  <2> QED
    BY <2>3, <2>4
<1> HIDE DEF s, t
<1>4. /\ s \o u \in Seq(Unit) /\ Len(s \o u) = (b + L) - a
      /\ \A i \in 1..(b - a) : (s \o u)[i] = s[i]
      /\ \A k \in 1..L : (s \o u)[(b - a) + k] = u[k]
  <2>1. /\ s \o u \in Seq(Unit) /\ Len(s \o u) = Len(s) + Len(u)
        /\ \A i \in 1..Len(s) : (s \o u)[i] = s[i]
        /\ \A k \in 1..Len(u) : (s \o u)[Len(s) + k] = u[k]
    <3>1. s \in Seq(Unit) /\ u \in Seq(Unit)
      BY <1>2
    <3> QED
      BY <3>1, Concatenated
  <2>2. (b - a) + L = (b + L) - a
    BY <1>1
  <2>3. Len(s) = b - a /\ Len(u) = L
    BY <1>2
  <2> HIDE DEF L
  <2> QED
    BY <2>1, <2>2, <2>3
<1>5. ASSUME NEW i \in 1..((b + L) - a) PROVE (s \o u)[i] = t[i]
  <2>1. CASE i <= b - a
    BY <1>2, <1>3, <1>4, <2>1
  <2>2. CASE ~(i <= b - a)
    <3>1. i - (b - a) \in 1..L /\ (b - a) + (i - (b - a)) = i /\ b + (i - (b - a)) = a + i
      BY <1>1, <2>2
    <3>2. (s \o u)[i] = u[i - (b - a)]
      BY <1>4, <3>1
    <3>3. u[i - (b - a)] = B[a + i]
      BY <3>1 DEF B, L
    <3> QED
      BY <1>3, <3>2, <3>3
  <2> QED
    BY <2>1, <2>2
<1>6. s \o u = t
  <2> DEFINE x == s \o u
             l == (b + L) - a
  <2>1. /\ x \in Seq(Unit) /\ t \in Seq(Unit) /\ Len(x) = l /\ Len(t) = l
        /\ \A i \in 1..l : x[i] = t[i]
    BY <1>3, <1>4, <1>5
  <2> HIDE DEF x, l
  <2>2. x = t
    BY <2>1
  <2> QED
    BY <2>2 DEF x
<1> QED
  BY <1>2, <1>6 DEF Slice, B, s, t, L

\* Send takes mu before anything is written, and order records it with the first
\* frame.
LEMMA NextHoldsOK == WriterOK /\ HoldsOK /\ [Next]_vars => HoldsOK'
<1> SUFFICES ASSUME WriterOK, HoldsOK, [Next]_vars PROVE HoldsOK'
  OBVIOUS
<1> USE ChunkAssumption
<1>0. OrderOK' /\ order \in Seq(Msg)
  BY NextOrderOK DEF HoldsOK, OrderOK
<1>1. ASSUME NEW m \in Msg, Lock(m) PROVE HoldsOK'
  <2>1. /\ writer'.msg = m /\ writer'.sent = 0 /\ order' = order /\ ~Begun(m)
        /\ pc[m] = "new" /\ pc'[m] \in {"next", "plain"}
        /\ \A k \in Msg : k # m => pc'[k] = pc[k]
    BY <1>1 DEF Lock, Idle, HoldsOK, WriterOK
  <2>2. ~Begun(m)' /\ \A k \in Msg : pc'[k] \in {"new", "plain"} => ~Begun(k)'
    BY <2>1 DEF HoldsOK, Begun
  <2>3. Inside(m)'
    BY <2>1 DEF Inside
  <2> QED
    BY <1>0, <2>1, <2>2, <2>3 DEF HoldsOK
<1>2. ASSUME NEW m \in Msg, Release(m), Begins(m) \/ UNCHANGED order PROVE HoldsOK'
  <2>1. /\ writer'.msg = NoMsg /\ pc'[m] = "done"
        /\ \A k \in Msg : k # m => pc'[k] = pc[k]
    BY <1>2 DEF Release, Idle, WriterOK
  <2>2. \A k \in Msg : k # m /\ ~Begun(k) => ~Begun(k)'
    BY <1>0, <1>2, BeginsOK DEF Begun
  <2> QED
    BY <1>0, <2>1, <2>2 DEF HoldsOK
<1>3. ASSUME NEW m \in Msg, CloseChunk(m), ~(writer.sent >= Total(m)) PROVE HoldsOK'
  <2>1. /\ pc[m] = "fill" /\ UNCHANGED <<writer, order>> /\ writer.msg = m /\ m # NoMsg
        /\ pc'[m] = "next" /\ \A k \in Msg : k # m => pc'[k] = pc[k]
    BY <1>3 DEF CloseChunk, WriterOK, Inside
  <2>2. Begun(m) /\ order[Len(order)] = m
    BY <2>1 DEF HoldsOK
  <2>3. Begun(m)' /\ \A k \in Msg : pc'[k] \in {"new", "plain"} => ~Begun(k)'
    BY <2>1, <2>2 DEF HoldsOK, Begun
  <2>4. Inside(m)'
    BY <2>1 DEF Inside
  <2> QED
    BY <1>0, <2>1, <2>2, <2>3, <2>4 DEF HoldsOK
<1>4. ASSUME NEW m \in Msg, NewWriter(m) PROVE HoldsOK'
  <2>1. /\ writer'.msg = m /\ writer.msg = m /\ m # NoMsg /\ pc[m] = "next"
        /\ pc'[m] = "fill" /\ \A k \in Msg : k # m => pc'[k] = pc[k]
    BY <1>4 DEF NewWriter, WriterOK, Inside
  <2>2. /\ Begun(m)' /\ \A k \in Msg : k # m /\ ~Begun(k) => ~Begun(k)'
        /\ order'[Len(order')] = m
    BY <1>0, <1>4, <2>1, BeginsOK DEF NewWriter, HoldsOK
  <2>3. Inside(m)' /\ \A k \in Msg : pc'[k] \in {"new", "plain"} => ~Begun(k)'
    BY <2>1, <2>2 DEF HoldsOK, Inside
  <2> QED
    BY <1>0, <2>1, <2>2, <2>3 DEF HoldsOK
<1>5. ASSUME NEW m \in Msg, FillPart(m) PROVE HoldsOK'
  <2>1. /\ writer'.msg = writer.msg /\ UNCHANGED <<pc, order>>
        /\ writer.msg = m /\ pc[m] = "fill" /\ m # NoMsg
    BY <1>5 DEF FillPart, WriterOK, Inside
  <2>2. Begun(m) /\ order[Len(order)] = m
    BY <2>1 DEF HoldsOK
  <2> QED
    BY <1>0, <2>1, <2>2 DEF HoldsOK, Inside, Begun
<1>6. ASSUME UNCHANGED <<pc, writer, order>> PROVE HoldsOK'
  BY <1>0, <1>6 DEF HoldsOK, Inside, Begun
<1>7. ASSUME NEW m \in Msg, Sending(m) PROVE HoldsOK'
  <2>1. CASE CloseChunk(m)
    BY <2>1, <1>2, <1>3 DEF CloseChunk
  <2> QED
    BY <1>7, <2>1, <1>2, <1>4, <1>5 DEF Sending, Writing, WritePlain, WriteFails
<1> QED
  BY <1>1, <1>6, <1>7 DEF Next, Drop, Feed, vars, sendVars

\* One turn of the inner loop: the frame grows by the units that come next.
LEMMA FillPlaceOK ==
  ASSUME WriterOK, PlaceOK, NEW m \in Msg, FillPart(m)
  PROVE  /\ PlaceOK' /\ writer'.msg = m /\ writer.msg = m
         /\ writer'.sent - Len(writer'.frame) = writer.sent - Len(writer.frame)
<1> DEFINE left == Parts[m][writer.index] - writer.offset
           n == IF left < writer.room THEN left ELSE writer.room
           u == PartUnits(m, writer.index, writer.offset, n)
<1>1. Inside(m) /\ writer.msg = m /\ m # NoMsg /\ pc[m] = "fill"
  BY ChunkAssumption DEF FillPart, Inside, WriterOK
<1>2. /\ Len(Parts[m]) \in Nat
      /\ writer.index \in 1..Len(Parts[m]) /\ Parts[m][writer.index] \in Nat
  BY <1>1, PartTyped DEF FillPart, MoreRoom, WriterOK
<1>3. left \in Nat /\ n \in 0..left /\ n \in Nat /\ writer.offset \in Nat
  BY <1>1, <1>2 DEF WriterOK
<1>4. /\ writer'.msg = m /\ writer'.sent = writer.sent + n
      /\ writer'.frame = writer.frame \o u
      /\ writer'.index = IF n = left THEN writer.index + 1 ELSE writer.index
      /\ writer'.offset = IF n = left THEN 0 ELSE writer.offset + n
      /\ pc' = pc
  BY <1>1 DEF FillPart, WriterOK
<1>5. /\ u \in Seq(Unit) /\ Len(u) = n
      /\ \A k \in 1..n : u[k] = <<m, writer.index, writer.offset + k>>
  <2> DEFINE p == writer.index
             from == writer.offset
  <2>1. p \in 1..Len(Parts[m]) /\ from \in Nat /\ n \in Nat
    BY <1>2, <1>3
  <2> HIDE DEF n, left, Unit, p, from
  <2>2. /\ PartUnits(m, p, from, n) \in Seq(Unit) /\ Len(PartUnits(m, p, from, n)) = n
        /\ \A k \in 1..n : PartUnits(m, p, from, n)[k] = <<m, p, from + k>>
    <3>1. \A i \in 1..Len(Parts[m]), k, l \in Nat :
            /\ PartUnits(m, i, k, l) \in Seq(Unit) /\ Len(PartUnits(m, i, k, l)) = l
            /\ \A j \in 1..l : PartUnits(m, i, k, l)[j] = <<m, i, k + j>>
      BY PartTyped
    <3> QED
      BY <2>1, <3>1
  <2> QED
    BY <2>2 DEF p, from
<1> DEFINE S == Start(m)
<1>6. /\ S[writer.index] \in 0..Total(m) /\ S[writer.index + 1] \in 0..Total(m)
      /\ Total(m) \in Nat
      /\ S[writer.index + 1] = S[writer.index] + Parts[m][writer.index]
      /\ \A k \in 1..Parts[m][writer.index] : Body(m)[S[writer.index] + k] = <<m, writer.index, k>>
  <2>1. Layout(m, S)
    BY LayoutExists
  <2>2. writer.index \in 1..(Len(Parts[m]) + 1) /\ writer.index + 1 \in 1..(Len(Parts[m]) + 1)
    BY <1>2
  <2>3. Total(m) = Len(Body(m)) /\ Body(m) \in Seq(Unit)
    BY <2>1 DEF Layout
  <2>4. Total(m) \in Nat
    <3> HIDE DEF Unit
    <3> QED
      BY <2>3
  <2> HIDE DEF S
  <2> QED
    BY <1>2, <2>1, <2>2, <2>4 DEF Layout
<1>7. /\ Total(m) > Threshold /\ writer.sent \in 0..Total(m)
      /\ writer.sent = S[writer.index] + writer.offset
      /\ writer.frame \in Seq(Unit) /\ Len(writer.frame) <= writer.sent
      /\ writer.frame = Slice(m, writer.sent - Len(writer.frame), writer.sent)
  BY <1>1 DEF PlaceOK
<1> HIDE DEF left, n, u, S, Unit
<1>l. left = Parts[m][writer.index] - writer.offset
  BY DEF left
<1>a. \A at, o, p, l, k \in Nat : l = p - o /\ k <= l =>
        /\ (at + o) + k <= at + p /\ (at + o) + k = at + (o + k)
        /\ k = l => (at + o) + k = at + p
  OBVIOUS
<1>b. /\ S[writer.index] \in Nat /\ S[writer.index + 1] \in Nat
      /\ S[writer.index + 1] <= Total(m) /\ writer.sent \in Nat
  BY <1>6, <1>7
<1>8. writer'.sent \in 0..Total(m) /\ writer'.sent = S[writer'.index] + writer'.offset
  <2>1. writer.sent + n <= S[writer.index + 1]
    <3>1. n <= left
      BY <1>3
    <3>2. (S[writer.index] + writer.offset) + n <= S[writer.index] + Parts[m][writer.index]
      BY <1>2, <1>3, <1>l, <1>a, <1>b, <3>1
    <3> QED
      BY <1>6, <1>7, <3>2
  <2>2. writer'.sent \in 0..Total(m)
    <3>1. writer.sent + n \in 0..Total(m)
      BY <2>1, <1>3, <1>6, <1>b
    <3> QED
      BY <1>4, <3>1
  <2>3. CASE n = left
    <3>1. writer'.index = writer.index + 1 /\ writer'.offset = 0
      BY <1>4, <2>3
    <3>2. writer.sent + n = S[writer.index + 1] + 0
      <4>1. n <= left
        BY <1>3
      <4>2. (S[writer.index] + writer.offset) + n = S[writer.index] + Parts[m][writer.index]
        <5>1. \A a, o, p \in Nat : (a + o) + (p - o) = a + p
          OBVIOUS
        <5>2. /\ Parts[m][writer.index] \in Nat /\ writer.offset \in Nat
              /\ S[writer.index] \in Nat
          BY <1>2, <1>3, <1>b, Zenon
        <5>3. (S[writer.index] + writer.offset) + (Parts[m][writer.index] - writer.offset)
              = S[writer.index] + Parts[m][writer.index]
          BY <5>1, <5>2, Zenon
        <5> QED
          BY <1>l, <2>3, <5>3, Zenon
      <4> QED
        BY <1>6, <1>7, <1>b, <4>2
    <3> QED
      BY <2>2, <3>1, <3>2, <1>4
  <2>4. CASE n # left
    <3>1. writer'.index = writer.index /\ writer'.offset = writer.offset + n
      BY <1>4, <2>4
    <3>2. writer.sent + n = S[writer.index] + (writer.offset + n)
      BY <1>3, <1>7, <1>b
    <3> QED
      BY <2>2, <3>1, <3>2, <1>4
  <2> QED
    BY <2>3, <2>4
<1>9. \A k \in 1..n : u[k] = Body(m)[writer.sent + k]
  <2> SUFFICES ASSUME NEW k \in 1..n PROVE u[k] = Body(m)[writer.sent + k]
    OBVIOUS
  <2>1. writer.offset + k \in 1..Parts[m][writer.index]
    <3>1. \A w, o, l \in Nat : l = w - o => \A i \in 0..l : \A x \in 1..i : o + x \in 1..w
      OBVIOUS
    <3>2. Parts[m][writer.index] \in Nat /\ left \in Nat /\ writer.offset \in Nat /\ n \in 0..left
      BY <1>2, <1>3, Zenon
    <3> QED
      BY <1>l, <3>1, <3>2, Zenon
  <2>2. S[writer.index] + (writer.offset + k) = writer.sent + k
    <3>1. \A s, o, x \in Nat : s + (o + x) = (s + o) + x
      OBVIOUS
    <3>2. k \in Nat
      BY <1>3
    <3>3. S[writer.index] \in Nat /\ writer.offset \in Nat
      BY <1>3, <1>b, Zenon
    <3>4. writer.sent = S[writer.index] + writer.offset
      BY <1>7, Zenon
    <3>5. S[writer.index] + (writer.offset + k) = (S[writer.index] + writer.offset) + k
      BY <3>1, <3>2, <3>3
    <3> QED
      BY <3>4, <3>5
  <2> QED
    BY <1>5, <1>6, <2>1, <2>2
<1> DEFINE old == Len(writer.frame)
           a == writer.sent - old
<1>10. old \in Nat /\ a \in Nat /\ a <= writer.sent /\ writer.sent \in Nat
  BY <1>6, <1>7
<1>11. /\ writer.frame \o u = Slice(m, a, writer.sent + n)
       /\ writer.frame \o u \in Seq(Unit) /\ Len(writer.frame \o u) = old + n
  <2>1. writer.sent + Len(u) <= Total(m)
    BY <1>4, <1>5, <1>6, <1>8
  <2>2. writer.frame = Slice(m, a, writer.sent)
    BY <1>7
  <2> HIDE DEF a, old
  <2>3. Slice(m, a, writer.sent) \o u = Slice(m, a, writer.sent + Len(u))
    <3>1. \A k \in 1..Len(u) : u[k] = Body(m)[writer.sent + k]
      BY <1>5, <1>9
    <3> DEFINE at == writer.sent
    <3>2. /\ at \in Nat /\ a \in Nat /\ a <= at /\ u \in Seq(Unit)
          /\ at + Len(u) <= Total(m) /\ \A k \in 1..Len(u) : u[k] = Body(m)[at + k]
      BY <1>5, <1>10, <2>1, <3>1
    <3> HIDE DEF at
    <3>3. Slice(m, a, at) \o u = Slice(m, a, at + Len(u))
      <4>1. \A x, y \in Nat, v \in Seq(Unit) :
              /\ x <= y /\ y + Len(v) <= Total(m)
              /\ \A k \in 1..Len(v) : v[k] = Body(m)[y + k]
              => Slice(m, x, y) \o v = Slice(m, x, y + Len(v))
        BY SliceGrows
      <4> QED
        BY <3>2, <4>1, Zenon
    <3> QED
      BY <3>3 DEF at
  <2>4. writer.frame \o u = Slice(m, a, writer.sent + n)
    BY <1>5, <2>2, <2>3
  <2>5. writer.frame \o u \in Seq(Unit) /\ Len(writer.frame \o u) = old + n
    <3>1. writer.frame \in Seq(Unit) /\ u \in Seq(Unit) /\ Len(u) = n /\ Len(writer.frame) = old
      BY <1>5, <1>7, Zenon DEF old
    <3>2. \A x, y \in Seq(Unit) : x \o y \in Seq(Unit) /\ Len(x \o y) = Len(x) + Len(y)
      BY Concatenated
    <3> QED
      BY <3>1, <3>2, Zenon
  <2> QED
    BY <2>4, <2>5
<1>12. writer'.sent - Len(writer'.frame) = a /\ Len(writer'.frame) <= writer'.sent
  <2> HIDE DEF a
  <2>1. Len(writer'.frame) = old + n /\ writer'.sent = writer.sent + n
    BY <1>4, <1>11
  <2> HIDE DEF old
  <2> QED
    BY <1>3, <1>10, <2>1 DEF a
<1>13. /\ writer'.frame \in Seq(Unit)
       /\ writer'.frame = Slice(m, writer'.sent - Len(writer'.frame), writer'.sent)
  <2> HIDE DEF a, old
  <2> QED
    BY <1>4, <1>11, <1>12
<1>14. ASSUME NEW k \in Msg, k # m PROVE ~Inside(k) /\ pc'[k] = pc[k]
  BY <1>1, <1>4, <1>14 DEF WriterOK
<1>15. PlaceOK'
  <2>1. \A k \in Msg : k # m => pc'[k] \notin {"plain", "next", "fill"}
    BY <1>14 DEF Inside
  <2>2. pc'[m] = "fill"
    BY <1>1, <1>4
  <2>3. /\ Total(m) > Threshold /\ writer'.sent \in 0..Total(m)
        /\ writer'.sent = Start(m)[writer'.index] + writer'.offset
    BY <1>7, <1>8 DEF S
  <2> QED
    BY <2>1, <2>2, <2>3, <1>12, <1>13, Zenon DEF PlaceOK
<1> QED
  BY <1>1, <1>4, <1>12, <1>15

\* The loop of wsWriteChunked always knows where it is in the message.
LEMMA NextPlaceOK == WriterOK /\ PlaceOK /\ [Next]_vars => PlaceOK'
<1> SUFFICES ASSUME WriterOK, PlaceOK, [Next]_vars PROVE PlaceOK'
  OBVIOUS
<1> USE ChunkAssumption
<1>1. ASSUME NEW m \in Msg, Lock(m) PROVE PlaceOK'
  <2>1. /\ writer'.index = 1 /\ writer'.offset = 0 /\ writer'.sent = 0
        /\ pc'[m] = IF Total(m) > Threshold THEN "next" ELSE "plain"
    BY <1>1 DEF Lock, Idle, WriterOK
  <2>2. \A k \in Msg : k # m => ~Inside(k) /\ pc'[k] = pc[k]
    BY <1>1 DEF Lock, WriterOK
  <2>3. Total(m) \in Nat /\ Start(m)[1] = 0
    <3>1. Layout(m, Start(m))
      BY LayoutExists
    <3>2. Total(m) = Len(Body(m)) /\ Body(m) \in Seq(Unit) /\ Start(m)[1] = 0
      BY <3>1 DEF Layout
    <3> HIDE DEF Unit
    <3> QED
      BY <3>2
  <2>4. 0 \in 0..Total(m) /\ 0 = Start(m)[1] + 0
    BY <2>3
  <2>5. /\ pc'[m] = "plain" => ~(Total(m) > Threshold)
        /\ pc'[m] = "next" => Total(m) > Threshold
        /\ pc'[m] # "fill"
    BY <2>1
  <2>6. \A k \in Msg : k # m => pc'[k] \notin {"plain", "next", "fill"}
    BY <2>2 DEF Inside
  <2>7. /\ writer'.sent \in 0..Total(m)
        /\ writer'.sent = Start(m)[writer'.index] + writer'.offset
    BY <2>1, <2>4
  <2> QED
    BY <2>5, <2>6, <2>7, Zenon DEF PlaceOK
<1>2. ASSUME NEW m \in Msg, Inside(m), Release(m) PROVE PlaceOK'
  <2>1. \A k \in Msg : pc'[k] \notin {"plain", "next", "fill"}
    BY <1>2 DEF Release, WriterOK, Inside
  <2> QED
    BY <2>1, Zenon DEF PlaceOK
<1>3. ASSUME NEW m \in Msg, UNCHANGED writer, pc[m] = "fill", pc' = [pc EXCEPT ![m] = "next"]
      PROVE PlaceOK'
  BY <1>3 DEF WriterOK, PlaceOK
<1>4. ASSUME NEW m \in Msg, NewWriter(m) PROVE PlaceOK'
  <2>1. /\ writer'.frame = <<>> /\ writer'.sent = writer.sent
        /\ writer'.offset = writer.offset /\ writer'.index = writer.index
        /\ pc[m] = "next" /\ pc'[m] = "fill" /\ Inside(m)
    BY <1>4 DEF NewWriter, WriterOK, Inside
  <2>2. \A k \in Msg : k # m => ~Inside(k) /\ pc'[k] = pc[k]
    BY <1>4, <2>1 DEF NewWriter, WriterOK
  <2>3. /\ Total(m) > Threshold /\ writer.sent \in 0..Total(m)
        /\ writer.sent = Start(m)[writer.index] + writer.offset
    BY <2>1 DEF PlaceOK
  <2>4. <<>> \in Seq(Unit) /\ Len(<<>>) = 0 /\ 0 <= writer.sent
    <3> HIDE DEF Unit
    <3>1. Body(m) \in Seq(Unit) /\ Total(m) = Len(Body(m))
      BY LayoutExists DEF Layout
    <3> QED
      BY <2>3, <3>1
  <2>5. Slice(m, writer.sent - 0, writer.sent) = <<>>
    <3>1. Total(m) \in Nat
      <4>1. Body(m) \in Seq(Unit) /\ Total(m) = Len(Body(m))
        BY LayoutExists DEF Layout
      <4> HIDE DEF Unit
      <4> QED
        BY <4>1
    <3>2. writer.sent \in Nat /\ writer.sent - 0 = writer.sent /\ writer.sent <= writer.sent
          /\ writer.sent + 0 <= Total(m)
      BY <2>3, <3>1
    <3>3. Len(Slice(m, writer.sent, writer.sent)) = writer.sent - writer.sent
          /\ Slice(m, writer.sent, writer.sent) \in Seq(Unit)
      <4>1. \A k \in 1..Len(<<>>) : <<>>[k] = Body(m)[writer.sent + k]
        BY <2>4
      <4> DEFINE s == writer.sent
                 none == <<>>
      <4>2. /\ none \in Seq(Unit) /\ Len(none) = 0 /\ s \in Nat /\ s <= s
            /\ s + Len(none) <= Total(m) /\ \A k \in 1..Len(none) : none[k] = Body(m)[s + k]
        BY <2>4, <3>2, <4>1
      <4> HIDE DEF Unit, s, none
      <4>3. Len(Slice(m, s, s)) = s - s /\ Slice(m, s, s) \in Seq(Unit)
        BY <4>2, SliceGrows
      <4> QED
        BY <4>3 DEF s
    <3> HIDE DEF Unit
    <3> QED
      BY <3>2, <3>3
  <2>6. \A k \in Msg : k # m => pc'[k] \notin {"plain", "next", "fill"}
    BY <2>2 DEF Inside
  <2>7. /\ writer'.frame \in Seq(Unit) /\ Len(writer'.frame) <= writer'.sent
        /\ writer'.frame = Slice(m, writer'.sent - Len(writer'.frame), writer'.sent)
    <3> HIDE DEF Unit
    <3> QED
      BY <2>1, <2>4, <2>5
  <2>8. /\ writer'.sent \in 0..Total(m)
        /\ writer'.sent = Start(m)[writer'.index] + writer'.offset
    BY <2>1, <2>3
  <2>9. pc'[m] # "plain"
    BY <2>1
  <2> QED
    BY <2>3, <2>6, <2>7, <2>8, <2>9, Zenon DEF PlaceOK
<1>5. ASSUME NEW m \in Msg, FillPart(m) PROVE PlaceOK'
  BY <1>5, FillPlaceOK
<1>6. ASSUME UNCHANGED <<pc, writer>> PROVE PlaceOK'
  BY <1>6, Zenon DEF PlaceOK
<1>7. ASSUME NEW m \in Msg, Sending(m) PROVE PlaceOK'
  BY <1>7, <1>2, <1>3, <1>4, <1>5
     DEF Sending, Writing, WritePlain, CloseChunk, WriteFails, Inside
<1> QED
  BY <1>1, <1>6, <1>7 DEF Next, Drop, Feed, vars, sendVars

-----------------------------------------------------------------------------
(* Messages arrive whole: what is on its way.                              *)

Progress == IF asm.active THEN Len(asm.buf) ELSE 0

\* With the messages o, frame f carries the units of the j-th that come after
\* the first s.
Carries(o, f, j, s) ==
  /\ j \in 1..Len(o)
  /\ f.total = Total(o[j]) /\ f.binary = (o[j] \in Binary)
  /\ f.chunk = (Total(o[j]) > Threshold)
  /\ Len(f.data) \in Nat /\ s + Len(f.data) <= Total(o[j])
  /\ f.data = Slice(o[j], s, s + Len(f.data))
  /\ ~f.chunk => s = 0 /\ f.data = Body(o[j])

\* After n units of the j-th message come those of the i-th after the first s.
Follows(o, j, n, i, s) ==
  IF n < Total(o[j]) THEN i = j /\ s = n ELSE i = j + 1 /\ s = 0

\* Nothing is known of the j-th message if t is the first that was torn.
Gone(t, j) == t # 0 /\ j >= t

\* With the messages o, of which t is the first that was torn, frame f carries
\* the units of the j-th after the first s, and those of the i-th after the
\* first k follow; unless nothing is known of the j-th, and then not of the i-th.
Joined(o, t, f, j, s, i, k) ==
  IF Gone(t, j) THEN Gone(t, i)
  ELSE Carries(o, f, j, s) /\ Follows(o, j, s + Len(f.data), i, k)

\* The next frame sent carries the units of the j-th message after the first s.
SendsFrom(j, s) ==
  IF writer.msg # NoMsg /\ Begun(writer.msg)
  THEN /\ j = Len(order)
       /\ pc[writer.msg] = "next" => s = writer.sent
       /\ pc[writer.msg] = "fill" => s = writer.sent - Len(writer.frame)
  ELSE j = Len(order) + 1 /\ s = 0

SendsAt(j, s) == IF torn # 0 THEN Gone(torn, j) ELSE SendsFrom(j, s)

\* The wire goes on where the receiver stands, without a gap, to where the
\* senders stand.
Wired(who, from) ==
  /\ who[1] = Len(inbox) + 1 /\ from[1] = Progress
  /\ \A i \in 1..Len(wire) :
       Joined(order, torn, wire[i], who[i], from[i], who[i + 1], from[i + 1])
  /\ up => \E j, s \in Nat : /\ SendsAt(j, s)
                            /\ who[Len(wire) + 1] = j /\ from[Len(wire) + 1] = s

\* The next message to be handed over is the first that was torn, or later.
Spoilt == Gone(torn, Len(inbox) + 1)

FlowOK ==
  code = 0 /\ ~Spoilt => \E who \in [Nat -> Nat], from \in [Nat -> Nat] : Wired(who, from)

\* A message in assembly is a beginning of the next one to be handed over.
AssemblyOK ==
  asm.active /\ ~Spoilt =>
    /\ Len(inbox) + 1 \in 1..Len(order)
    /\ Total(order[Len(inbox) + 1]) > Threshold
    /\ asm.total = Total(order[Len(inbox) + 1])
    /\ asm.binary = (order[Len(inbox) + 1] \in Binary)
    /\ Len(asm.buf) \in 0..asm.total
    /\ asm.buf = Slice(order[Len(inbox) + 1], 0, Len(asm.buf))

\* The buffer kept for the next frame is not one that a message shares.
DeliveredOK ==
  ArriveWhole /\ \A i \in DOMAIN inbox : inbox[i].buf # 0 => inbox[i].buf # readBuf

\* The receiver's side, which depends on the senders by the history alone.
ReceivedOK == AssemblyOK /\ DeliveredOK /\ OnlyTooBigRejected

\* The first message that was torn stays it.
TornKept == UNCHANGED torn \/ (torn = 0 /\ torn' # 0)

\* A sender's step adds to the order or leaves it.
LEMMA NextOrderGrows ==
  ASSUME HoldsOK, NEW m \in Msg, Begins(m) \/ UNCHANGED order
  PROVE  OrderGrows
<1>1. order \in Seq(Msg)
  BY DEF HoldsOK, OrderOK
<1>2. CASE Begins(m)
  BY <1>1, <1>2, BeginsOK
<1>3. CASE UNCHANGED order
  BY <1>1, <1>3 DEF OrderGrows
<1> QED
  BY <1>2, <1>3

\* Such steps change nothing about the frames on their way.
LEMMA CarriesKept ==
  ASSUME OrderGrows, NEW f, NEW j, NEW s, Carries(order, f, j, s)
  PROVE  /\ Carries(order', f, j, s)
         /\ \A n, i, k : Follows(order, j, n, i, k) => Follows(order', j, n, i, k)
<1>1. j \in 1..Len(order) /\ j \in 1..Len(order') /\ order'[j] = order[j]
  BY DEF OrderGrows, Carries
<1>2. Carries(order', f, j, s)
  BY <1>1, Zenon DEF Carries
<1>3. \A n, i, k : Follows(order, j, n, i, k) => Follows(order', j, n, i, k)
  BY <1>1, Zenon DEF Follows
<1> QED
  BY <1>2, <1>3

LEMMA JoinedKept ==
  ASSUME OrderGrows, TornKept, torn' \in Nat, NEW f, NEW j \in Nat, NEW s, NEW i, NEW k,
         Joined(order, torn, f, j, s, i, k)
  PROVE  Joined(order', torn', f, j, s, i, k)
<1>1. CASE Gone(torn, j)
  <2>1. torn' = torn /\ Gone(torn, i)
    BY <1>1 DEF TornKept, Gone, Joined
  <2> QED
    BY <1>1, <2>1, Zenon DEF Joined
<1>2. CASE ~Gone(torn, j)
  <2>1. Carries(order, f, j, s) /\ Follows(order, j, s + Len(f.data), i, k)
    BY <1>2, Zenon DEF Joined
  <2>2. Carries(order', f, j, s) /\ Follows(order', j, s + Len(f.data), i, k)
    BY <2>1, CarriesKept
  <2>3. i = j \/ i = j + 1
    BY <2>1, Zenon DEF Follows
  <2>4. Gone(torn', j) => Gone(torn', i)
    BY <2>3 DEF Gone
  <2> QED
    BY <2>2, <2>4, Zenon DEF Joined
<1> QED
  BY <1>1, <1>2

\* What is spoilt stays so.
LEMMA SpoiltKept ==
  ASSUME TornKept, torn \in Nat, Len(inbox) \in Nat, Len(inbox') \in Nat,
         Len(inbox) <= Len(inbox'), Spoilt
  PROVE  Spoilt'
BY DEF TornKept, Spoilt, Gone

\* A step that sends nothing and does not move where the next frame starts.
LEMMA FlowKept ==
  ASSUME FlowOK, OrderGrows, TornKept, torn \in Nat, torn' \in Nat,
         UNCHANGED <<wire, inbox, asm, code>>, up' => up,
         \A j, s \in Nat : up' /\ SendsAt(j, s) => SendsAt(j, s)'
  PROVE  FlowOK'
<1> SUFFICES ASSUME code = 0, ~Spoilt'
             PROVE  \E who \in [Nat -> Nat], from \in [Nat -> Nat] : Wired(who, from)'
  BY Zenon DEF FlowOK
<1>0. ~Spoilt
  BY DEF Spoilt, Gone, TornKept
<1>1. PICK who \in [Nat -> Nat], from \in [Nat -> Nat] : Wired(who, from)
  BY <1>0 DEF FlowOK
<1>2. who[1] = Len(inbox') + 1 /\ from[1] = Progress'
  BY <1>1, Zenon DEF Wired, Progress
<1>3. ASSUME NEW i \in 1..Len(wire')
      PROVE  Joined(order', torn', wire'[i], who[i], from[i], who[i + 1], from[i + 1])
  <2>1. i \in 1..Len(wire) /\ wire'[i] = wire[i]
    OBVIOUS
  <2>2. Joined(order, torn, wire[i], who[i], from[i], who[i + 1], from[i + 1])
    BY <1>1, <2>1 DEF Wired
  <2>3. who[i] \in Nat
    BY <2>1
  <2> QED
    BY <2>1, <2>2, <2>3, JoinedKept
<1>4. up' => \E j, s \in Nat : /\ SendsAt(j, s)'
                              /\ who[Len(wire') + 1] = j /\ from[Len(wire') + 1] = s
  <2>1. up => \E j, s \in Nat : /\ SendsAt(j, s)
                               /\ who[Len(wire) + 1] = j /\ from[Len(wire) + 1] = s
    BY <1>1 DEF Wired
  <2>2. wire' = wire
    OBVIOUS
  <2> QED
    BY <2>1, <2>2, Zenon
<1>5. Wired(who, from)'
  BY <1>2, <1>3, <1>4, Zenon DEF Wired
<1> QED
  BY <1>5

\* The elements of a sequence with one more.
LEMMA Appended ==
  ASSUME NEW s, NEW x, Sequence(s)
  PROVE  /\ Len(s) \in Nat /\ Len(Append(s, x)) = Len(s) + 1
         /\ Append(s, x)[Len(s) + 1] = x
         /\ \A i \in 1..Len(s) : Append(s, x)[i] = s[i]
<1>1. PICK S : s \in Seq(S)
  BY DEF Sequence
<1>2. s \in Seq(S \cup {x})
  BY <1>1
<1>3. Len(s) \in Nat /\ Len(Append(s, x)) = Len(s) + 1
  BY <1>2
<1>4. Append(s, x)[Len(s) + 1] = x
  BY <1>2, <1>3
<1>5. \A i \in 1..Len(s) : Append(s, x)[i] = s[i]
  BY <1>2, <1>3
<1> QED
  BY <1>3, <1>4, <1>5

\* What is behind the first element, and the first.
LEMMA FrontTaken ==
  ASSUME NEW s, Sequence(s), s # <<>>
  PROVE  /\ Len(s) \in Nat /\ Len(s) >= 1 /\ Head(s) = s[1]
         /\ Len(Tail(s)) = Len(s) - 1
         /\ \A i \in 1..(Len(s) - 1) : Tail(s)[i] = s[i + 1]
<1>1. PICK S : s \in Seq(S)
  BY DEF Sequence
<1>2. Len(s) \in Nat /\ Len(s) >= 1 /\ Head(s) = s[1]
  BY <1>1
<1>3. Tail(s) \in Seq(S) /\ Len(Tail(s)) = Len(s) - 1
  BY <1>1
<1>4. \A i \in 1..(Len(s) - 1) : Tail(s)[i] = s[i + 1]
  BY <1>1, <1>2
<1> QED
  BY <1>2, <1>3, <1>4

\* The first k elements.
LEMMA CutShort ==
  ASSUME NEW s, Sequence(s), NEW k \in 0..Len(s)
  PROVE  /\ Len(SubSeq(s, 1, k)) = k
         /\ \A i \in 1..k : i \in 1..Len(s) /\ SubSeq(s, 1, k)[i] = s[i]
<1>1. PICK S : s \in Seq(S)
  BY DEF Sequence
<1>2. Len(SubSeq(s, 1, k)) = k
  BY <1>1
<1>3. \A i \in 1..k : i \in 1..Len(s) /\ SubSeq(s, 1, k)[i] = s[i]
  BY <1>1
<1> QED
  BY <1>2, <1>3

\* Frame f carries what was to be sent next, and what then is follows it.
SendsNext(f) ==
  \A j, s \in Nat : SendsAt(j, s) =>
    \E i, k \in Nat : Joined(order', torn', f, j, s, i, k) /\ SendsAt(i, k)'

\* A step that sends frame f, where the next frame was to start.
LEMMA FlowSent ==
  ASSUME FlowOK, Sequence(wire), OrderGrows, TornKept, torn \in Nat, torn' \in Nat,
         UNCHANGED <<inbox, asm, code>>, up,
         NEW f, wire' = Append(wire, f), SendsNext(f)
  PROVE  FlowOK'
<1> SUFFICES ASSUME code = 0, ~Spoilt'
             PROVE  \E who \in [Nat -> Nat], from \in [Nat -> Nat] : Wired(who, from)'
  BY Zenon DEF FlowOK
<1>0. ~Spoilt
  BY DEF Spoilt, Gone, TornKept
<1>1. PICK who \in [Nat -> Nat], from \in [Nat -> Nat] : Wired(who, from)
  BY <1>0 DEF FlowOK
<1> DEFINE n == Len(wire)
           j == who[n + 1]
           s == from[n + 1]
<1>2. /\ Len(wire') = n + 1 /\ n \in Nat /\ wire'[n + 1] = f
      /\ \A i \in 1..n : wire'[i] = wire[i]
  <2>1. /\ Len(wire) \in Nat /\ Len(Append(wire, f)) = Len(wire) + 1
        /\ Append(wire, f)[Len(wire) + 1] = f
        /\ \A x \in 1..Len(wire) : Append(wire, f)[x] = wire[x]
    <3> HIDE DEF n, j, s
    <3>1. PICK S : wire \in Seq(S)
      BY DEF Sequence
    <3>2. wire \in Seq(S \cup {f}) /\ f \in S \cup {f}
      BY <3>1
    <3>3. Len(wire) \in Nat /\ Len(Append(wire, f)) = Len(wire) + 1
      BY <3>2
    <3>4. Append(wire, f)[Len(wire) + 1] = f
      BY <3>2, <3>3
    <3>5. \A x \in 1..Len(wire) : Append(wire, f)[x] = wire[x]
      BY <3>2, <3>3
    <3> QED
      BY <3>3, <3>4, <3>5
  <2>2. wire' = Append(wire, f)
    OBVIOUS
  <2> HIDE DEF j, s
  <2> QED
    BY <2>1, <2>2
<1>3. SendsAt(j, s)
  <2>1. \E a, b \in Nat : SendsAt(a, b) /\ j = a /\ s = b
    BY <1>1, Zenon DEF Wired
  <2> HIDE DEF j, s
  <2> QED
    BY <2>1
<1>4. \E i, k \in Nat : Joined(order', torn', f, j, s, i, k) /\ SendsAt(i, k)'
  <2>1. j \in Nat /\ s \in Nat
    BY <1>2
  <2> HIDE DEF j, s
  <2> QED
    BY <2>1, <1>3 DEF SendsNext
<1>5. PICK i \in Nat, k \in Nat : Joined(order', torn', f, j, s, i, k) /\ SendsAt(i, k)'
  BY <1>4
<1>a. n + 2 \in Nat /\ 1 \in 1..(n + 1) /\ \A x \in 1..(n + 1) : x \in Nat /\ x # n + 2
  <2> HIDE DEF j, s
  <2>1. n \in Nat
    BY <1>2
  <2> HIDE DEF n
  <2> QED
    BY <2>1
<1>b. \A w \in [Nat -> Nat], v \in Nat : \E w2 \in [Nat -> Nat] :
        w2[n + 2] = v /\ \A x \in 1..(n + 1) : w2[x] = w[x]
  <2> SUFFICES ASSUME NEW w \in [Nat -> Nat], NEW v \in Nat
               PROVE  \E w2 \in [Nat -> Nat] :
                        w2[n + 2] = v /\ \A x \in 1..(n + 1) : w2[x] = w[x]
    OBVIOUS
  <2> HIDE DEF n, j, s
  <2>1. LET w2 == [w EXCEPT ![n + 2] = v]
        IN  /\ w2 \in [Nat -> Nat] /\ w2[n + 2] = v
            /\ \A x \in 1..(n + 1) : w2[x] = w[x]
    BY <1>a
  <2> QED
    BY <2>1
<1>c. PICK who2 \in [Nat -> Nat] :
        who2[n + 2] = i /\ \A x \in 1..(n + 1) : who2[x] = who[x]
  BY <1>b
<1>d. PICK from2 \in [Nat -> Nat] :
        from2[n + 2] = k /\ \A x \in 1..(n + 1) : from2[x] = from[x]
  BY <1>b
<1>6. /\ \A x \in 1..(n + 1) : who2[x] = who[x] /\ from2[x] = from[x]
      /\ who2[n + 2] = i /\ from2[n + 2] = k /\ 1 \in 1..(n + 1)
  BY <1>a, <1>c, <1>d
<1>7. who2[1] = Len(inbox') + 1 /\ from2[1] = Progress'
  BY <1>1, <1>6, Zenon DEF Wired, Progress
<1>8. ASSUME NEW x \in 1..Len(wire')
      PROVE  Joined(order', torn', wire'[x], who2[x], from2[x], who2[x + 1], from2[x + 1])
  <2>1. CASE x \in 1..n
    <3>1. x \in 1..(n + 1) /\ x + 1 \in 1..(n + 1) /\ wire'[x] = wire[x]
      <4>1. n \in Nat /\ \A y \in 1..n : wire'[y] = wire[y]
        BY <1>2
      <4>2. x \in 1..n
        BY <2>1
      <4>3. \A a \in Nat : \A b \in 1..a : b \in 1..(a + 1) /\ b + 1 \in 1..(a + 1)
        OBVIOUS
      <4> HIDE DEF n, j, s
      <4> QED
        BY <4>1, <4>2, <4>3, Zenon
    <3>2. Joined(order, torn, wire[x], who[x], from[x], who[x + 1], from[x + 1])
      BY <1>1, <2>1 DEF Wired
    <3>3. who[x] \in Nat
      BY <2>1
    <3>4. Joined(order', torn', wire[x], who[x], from[x], who[x + 1], from[x + 1])
      BY <3>2, <3>3, JoinedKept
    <3> QED
      BY <1>6, <3>1, <3>4
  <2>2. CASE x = n + 1
    <3>1. x \in 1..(n + 1) /\ x + 1 = n + 2 /\ wire'[x] = f
      BY <1>2, <2>2
    <3>2. who2[x] = j /\ from2[x] = s /\ who2[x + 1] = i /\ from2[x + 1] = k
      BY <1>6, <2>2, <3>1
    <3> HIDE DEF n, j, s
    <3> QED
      BY <1>5, <3>1, <3>2
  <2>3. x \in 1..n \/ x = n + 1
    <3>1. x \in 1..(n + 1) /\ n \in Nat
      BY <1>2
    <3> HIDE DEF n
    <3> QED
      BY <3>1
  <2> HIDE DEF n, j, s
  <2> QED
    BY <2>1, <2>2, <2>3
<1>9. /\ SendsAt(i, k)' /\ who2[Len(wire') + 1] = i /\ from2[Len(wire') + 1] = k
  <2>1. Len(wire') + 1 = n + 2
    BY <1>2
  <2> HIDE DEF n
  <2> QED
    BY <1>5, <1>6, <2>1
<1>10. Wired(who2, from2)'
  <2>1. up' => \E a, b \in Nat : /\ SendsAt(a, b)'
                         /\ who2[Len(wire') + 1] = a /\ from2[Len(wire') + 1] = b
    BY <1>9, Zenon
  <2> HIDE DEF n, j, s
  <2> QED
    BY <1>7, <1>8, <2>1, Zenon DEF Wired
<1> QED
  BY <1>10, Zenon

\* The frame at the front is what the receiver is to read, and reading it moves
\* the receiver to where the next one starts.
LEMMA FlowRead ==
  ASSUME FlowOK, ~Spoilt, Sequence(wire), wire # <<>>, code = 0, UNCHANGED <<sendVars, up>>,
         wire' = Tail(wire)
  PROVE  /\ Carries(order, Head(wire), Len(inbox) + 1, Progress) /\ Progress \in Nat
         /\ Follows(order, Len(inbox) + 1, Progress + Len(Head(wire).data),
                    Len(inbox') + 1, Progress')
              => FlowOK'
<1>1. PICK who \in [Nat -> Nat], from \in [Nat -> Nat] : Wired(who, from)
  BY DEF FlowOK
<1> DEFINE n == Len(wire)
<1>2. /\ n \in Nat /\ n >= 1 /\ Len(wire') = n - 1 /\ Head(wire) = wire[1]
      /\ \A x \in 1..(n - 1) : wire'[x] = wire[x + 1]
  BY FrontTaken
<1>3. /\ Carries(order, wire[1], who[1], from[1])
      /\ Follows(order, who[1], from[1] + Len(wire[1].data), who[2], from[2])
      /\ who[1] = Len(inbox) + 1 /\ from[1] = Progress
  <2>1. 1 \in 1..Len(wire) /\ 1 + 1 = 2
    BY <1>2
  <2>2. who[1] = Len(inbox) + 1 /\ from[1] = Progress
    BY <1>1 DEF Wired
  <2>3. Joined(order, torn, wire[1], who[1], from[1], who[2], from[2])
    BY <1>1, <2>1 DEF Wired
  <2>4. ~Gone(torn, who[1])
    BY <2>2 DEF Spoilt
  <2> QED
    BY <2>2, <2>3, <2>4, Zenon DEF Joined
<1>4. Carries(order, Head(wire), Len(inbox) + 1, Progress) /\ Progress \in Nat
  BY <1>2, <1>3
<1>5. ASSUME Follows(order, Len(inbox) + 1, Progress + Len(Head(wire).data),
                     Len(inbox') + 1, Progress')
      PROVE  FlowOK'
  <2> DEFINE who2 == [x \in Nat |-> who[x + 1]]
             from2 == [x \in Nat |-> from[x + 1]]
  <2>1. /\ who2 \in [Nat -> Nat] /\ from2 \in [Nat -> Nat]
        /\ \A x \in Nat : who2[x] = who[x + 1] /\ from2[x] = from[x + 1]
    <3>1. \A x \in Nat : x + 1 \in Nat
      OBVIOUS
    <3> HIDE DEF n
    <3> QED
      BY <3>1
  <2> HIDE DEF who2, from2
  <2>2. who2[1] = Len(inbox') + 1 /\ from2[1] = Progress'
    <3>1. Follows(order, who[1], from[1] + Len(wire[1].data), Len(inbox') + 1, Progress')
      BY <1>2, <1>3, <1>5
    <3>2. who[2] = Len(inbox') + 1 /\ from[2] = Progress'
      BY <1>3, <3>1, Zenon DEF Follows
    <3> QED
      BY <2>1, <3>2
  <2>3. ASSUME NEW x \in 1..Len(wire')
        PROVE  Joined(order', torn', wire'[x], who2[x], from2[x], who2[x + 1], from2[x + 1])
    <3>1. x + 1 \in 1..n /\ x \in Nat /\ x + 1 \in Nat /\ wire'[x] = wire[x + 1]
      BY <1>2
    <3>2. Joined(order, torn, wire[x + 1], who[x + 1], from[x + 1],
                 who[(x + 1) + 1], from[(x + 1) + 1])
      BY <1>1, <3>1 DEF Wired
    <3>3. order' = order /\ torn' = torn
      BY DEF sendVars
    <3>4. /\ who2[x] = who[x + 1] /\ from2[x] = from[x + 1]
          /\ who2[x + 1] = who[(x + 1) + 1] /\ from2[x + 1] = from[(x + 1) + 1]
      BY <2>1, <3>1
    <3> QED
      BY <3>1, <3>2, <3>3, <3>4
  <2>4. up' => \E j, s \in Nat : /\ SendsAt(j, s)'
                         /\ who2[Len(wire') + 1] = j /\ from2[Len(wire') + 1] = s
    <3>1. up => \E j, s \in Nat : /\ SendsAt(j, s)
                          /\ who[Len(wire) + 1] = j /\ from[Len(wire) + 1] = s
      BY <1>1 DEF Wired
    <3>2. Len(wire') + 1 = n /\ who2[n] = who[n + 1] /\ from2[n] = from[n + 1]
      BY <1>2, <2>1
    <3>3. \A j, s : SendsAt(j, s) => SendsAt(j, s)'
      BY Zenon DEF SendsAt, SendsFrom, Begun, sendVars
    <3> QED
      BY <3>1, <3>2, <3>3
  <2>5. Wired(who2, from2)'
    BY <2>2, <2>3, <2>4, Zenon DEF Wired
  <2> QED
    BY <2>1, <2>5, Zenon DEF FlowOK
<1> QED
  BY <1>4, <1>5

\* What is left on a wire that goes away is its beginning.
LEMMA DropFlowOK == FlowOK /\ Sequence(wire) /\ Drop => FlowOK'
<1> SUFFICES ASSUME FlowOK, Sequence(wire), Drop, code = 0, ~Spoilt
             PROVE  \E who \in [Nat -> Nat], from \in [Nat -> Nat] : Wired(who, from)'
  BY Zenon DEF FlowOK, Spoilt, Drop, sendVars, recvVars
<1>1. PICK who \in [Nat -> Nat], from \in [Nat -> Nat] : Wired(who, from)
  BY DEF FlowOK
<1>2. /\ order' = order /\ torn' = torn /\ inbox' = inbox /\ asm' = asm /\ up' = FALSE
  BY DEF Drop, sendVars, recvVars
<1>3. \A x \in 1..Len(wire') : x \in 1..Len(wire) /\ wire'[x] = wire[x]
  <2>1. PICK k \in 0..Len(wire) : wire' = SubSeq(wire, 1, k)
    BY DEF Drop
  <2> QED
    BY <2>1, CutShort
<1>4. who[1] = Len(inbox') + 1 /\ from[1] = Progress'
  BY <1>1, <1>2, Zenon DEF Wired, Progress
<1>5. ASSUME NEW x \in 1..Len(wire')
      PROVE  Joined(order', torn', wire'[x], who[x], from[x], who[x + 1], from[x + 1])
  BY <1>1, <1>2, <1>3 DEF Wired
<1>6. Wired(who, from)'
  BY <1>2, <1>4, <1>5, Zenon DEF Wired
<1> QED
  BY <1>6

\* Who is inside is who holds mu, and if its message began it is the last.
LEMMA HolderOrdered ==
  ASSUME WriterOK, HoldsOK, NEW m \in Msg, Inside(m)
  PROVE  /\ writer.msg = m /\ m # NoMsg /\ order \in Seq(Msg) /\ Len(order) \in Nat
         /\ torn \in Nat
         /\ Begun(m) => Len(order) \in 1..Len(order) /\ order[Len(order)] = m
<1>1. writer.msg = m /\ m # NoMsg
  BY ChunkAssumption DEF WriterOK
<1>2. order \in Seq(Msg) /\ Len(order) \in Nat /\ torn \in Nat
  BY DEF HoldsOK, OrderOK
<1>3. ASSUME Begun(m) PROVE Len(order) \in 1..Len(order) /\ order[Len(order)] = m
  <2>1. order[Len(order)] = m
    BY <1>1, <1>3 DEF HoldsOK
  <2>2. PICK i \in 1..Len(order) : TRUE
    BY <1>2, <1>3 DEF Begun
  <2> QED
    BY <1>2, <2>1, <2>2
<1> QED
  BY <1>1, <1>2, <1>3

\* Behind what was torn, any frame may come.
LEMMA GoneOn ==
  ASSUME torn # 0, UNCHANGED torn, NEW f
  PROVE  SendsNext(f)
<1> SUFFICES ASSUME NEW j \in Nat, NEW s \in Nat, SendsAt(j, s)
             PROVE  Joined(order', torn', f, j, s, j, s) /\ SendsAt(j, s)'
  BY DEF SendsNext
<1>1. Gone(torn, j) /\ torn' = torn
  BY DEF SendsAt
<1> QED
  BY <1>1, Zenon DEF Joined, SendsAt, Gone

\* A message within the threshold is one frame.
LEMMA PlainFlowOK ==
  ASSUME WriterOK, HoldsOK, PlaceOK, FlowOK, Sequence(wire), NEW m \in Msg, WritePlain(m)
  PROVE  FlowOK'
<1>1. /\ UNCHANGED <<inbox, asm, code, torn>> /\ up
      /\ wire' = Append(wire, Plain(m)) /\ writer' = Idle
  BY DEF WritePlain, recvVars, Release
<1>2. pc[m] = "plain" /\ ~(Total(m) > Threshold) /\ Inside(m) /\ ~Begun(m)
  BY DEF WritePlain, PlaceOK, HoldsOK, Inside
<1>3. /\ writer.msg = m /\ m # NoMsg /\ torn \in Nat /\ torn' \in Nat
      /\ Len(order) \in Nat /\ order \in Seq(Msg)
  BY <1>1, <1>2, HolderOrdered
<1>a. /\ OrderGrows /\ Len(order') = Len(order) + 1 /\ order'[Len(order')] = m
  BY <1>2, <1>3, BeginsOK DEF WritePlain
<1>4. /\ Total(m) \in Nat /\ Len(Body(m)) = Total(m) /\ Slice(m, 0, Total(m)) = Body(m)
  BY WholeBody
<1>5. /\ Plain(m).chunk = FALSE /\ Plain(m).binary = (m \in Binary)
      /\ Plain(m).total = Total(m) /\ Plain(m).data = Body(m)
  BY DEF Plain
<1> DEFINE f == Plain(m)
           l == Len(order')
           T == Total(m)
<1> HIDE DEF f, l, T
<1>6. ASSUME torn = 0, NEW j \in Nat, NEW s \in Nat, SendsAt(j, s)
      PROVE  \E i, k \in Nat : Joined(order', torn', f, j, s, i, k) /\ SendsAt(i, k)'
  <2>1. j = l /\ s = 0
    BY <1>2, <1>3, <1>6, <1>a, Zenon DEF SendsAt, SendsFrom, l
  <2>2. 0 + T = T /\ T <= T /\ T \in Nat /\ ~(T < T) /\ l + 1 \in Nat
    BY <1>3, <1>4, <1>a DEF T, l
  <2>3. Carries(order', f, l, 0)
    <3>1. l \in 1..Len(order') /\ order'[l] = m
      BY <1>3, <1>a DEF l
    <3>2. /\ f.total = T /\ f.binary = (m \in Binary) /\ f.chunk = (T > Threshold)
          /\ ~f.chunk /\ f.data = Body(m) /\ Len(f.data) = T
      <4>1. f.chunk = FALSE
        BY <1>5 DEF f
      <4>2. (T > Threshold) = FALSE
        BY <1>2 DEF T
      <4> QED
        BY <4>1, <4>2, <1>4, <1>5 DEF f, T
    <3>3. Slice(m, 0, T) = Body(m)
      BY <1>4 DEF T
    <3> QED
      BY <2>2, <3>1, <3>2, <3>3 DEF Carries, T
  <2>4. Follows(order', l, 0 + Len(f.data), l + 1, 0)
    <3>1. order'[l] = m /\ Len(f.data) = T
      BY <1>a, <1>4, <1>5 DEF l, f, T
    <3>2. ~(0 + Len(f.data) < T)
      BY <2>2, <3>1
    <3> QED
      BY <3>1, <3>2 DEF Follows, T
  <2>7. \E i, k \in Nat : Joined(order', torn', f, l, 0, i, k) /\ SendsAt(i, k)'
    <3>1. PICK i \in Nat : i = l + 1
      BY <2>2
    <3>2. SendsAt(i, 0)'
      BY <1>1, <1>6, <3>1 DEF SendsAt, SendsFrom, Idle, l
    <3>3. ~Gone(torn', l)
      BY <1>1, <1>6 DEF Gone
    <3>4. Joined(order', torn', f, l, 0, i, 0)
      BY <2>3, <2>4, <3>1, <3>3, Zenon DEF Joined
    <3> QED
      BY <3>1, <3>2, <3>4
  <2> QED
    BY <2>1, <2>7
<1> QED
  <2>1. SendsNext(f)
    BY <1>1, <1>6, GoneOn DEF SendsNext
  <2> QED
    BY <1>1, <1>3, <1>a, <2>1, FlowSent DEF f, TornKept

\* A chunk carries what its sender put into it, and the next one what follows.
LEMMA ChunkFlowOK ==
  ASSUME WriterOK, HoldsOK, PlaceOK, FlowOK, Sequence(wire), NEW m \in Msg, CloseChunk(m)
  PROVE  FlowOK'
<1> DEFINE f == Chunk(m, writer.frame)
           l == Len(order)
           T == Total(m)
           sent == writer.sent
           n == Len(writer.frame)
<1>1. UNCHANGED <<order, inbox, asm, code, torn>> /\ up /\ wire' = Append(wire, f)
  BY DEF CloseChunk, recvVars
<1>2. /\ pc[m] = "fill" /\ Inside(m) /\ T > Threshold /\ sent \in 0..T
      /\ writer.frame \in Seq(Unit) /\ n <= sent /\ writer.frame = Slice(m, sent - n, sent)
  BY DEF CloseChunk, PlaceOK, Inside
<1>3. /\ writer.msg = m /\ m # NoMsg /\ torn \in Nat /\ Begun(m)
      /\ l \in Nat /\ l \in 1..Len(order) /\ order[l] = m
  <2>1. writer.msg = m /\ m # NoMsg /\ torn \in Nat /\ l \in Nat
    BY <1>2, HolderOrdered
  <2>2. Begun(m)
    BY <1>2, <2>1 DEF HoldsOK
  <2> QED
    BY <1>2, <2>1, <2>2, HolderOrdered
<1>a. OrderGrows
  BY <1>1, NextOrderGrows
<1>4. T \in Nat
  BY WholeBody
<1>5. f.chunk = TRUE /\ f.binary = (m \in Binary) /\ f.total = T /\ f.data = writer.frame
  BY DEF Chunk
<1>7. /\ n \in Nat /\ sent \in Nat /\ sent - n \in Nat /\ (sent - n) + n = sent /\ sent <= T
      /\ l + 1 \in Nat
  <2>1. n \in Nat
    <3> HIDE DEF Unit
    <3> QED
      BY <1>2
  <2>2. sent \in 0..T /\ n <= sent /\ l \in Nat
    BY <1>2, <1>3
  <2> HIDE DEF n, sent, T, l
  <2> QED
    BY <2>1, <2>2, <1>4
<1>8. Carries(order, f, l, sent - n)
  <2>1. Len(f.data) = n /\ f.data = Slice(m, sent - n, (sent - n) + n)
    BY <1>2, <1>5, <1>7
  <2> HIDE DEF f, n, sent, l
  <2> QED
    BY <1>2, <1>3, <1>5, <1>7, <2>1 DEF Carries
<1>b. Begun(m)' /\ order' = order
  BY <1>1, <1>3, Zenon DEF Begun
<1>9. \E i, k \in Nat : Follows(order, l, sent, i, k) /\ SendsFrom(i, k)'
  <2>1. CASE sent >= T
    <3>1. writer' = Idle
      BY <2>1 DEF CloseChunk, Release
    <3>2. PICK i \in Nat : i = l + 1
      BY <1>7
    <3>3. SendsFrom(i, 0)'
      BY <1>1, <3>1, <3>2 DEF SendsFrom, Idle
    <3>4. Follows(order, l, sent, i, 0)
      <4>1. ~(sent < T)
        BY <1>4, <1>7, <2>1
      <4> QED
        BY <1>3, <3>2, <4>1 DEF Follows
    <3> QED
      BY <3>3, <3>4
  <2>2. CASE ~(sent >= T)
    <3>1. writer' = writer /\ pc'[m] = "next"
      BY <2>2, <1>2 DEF CloseChunk, WriterOK
    <3>2. PICK i \in Nat, k \in Nat : i = l /\ k = sent
      BY <1>3, <1>7
    <3>3. SendsFrom(i, k)'
      BY <1>1, <1>3, <1>b, <3>1, <3>2 DEF SendsFrom
    <3>4. Follows(order, l, sent, i, k)
      <4>1. sent < T
        BY <1>4, <1>7, <2>2
      <4> QED
        BY <1>3, <3>2, <4>1 DEF Follows
    <3> QED
      BY <3>3, <3>4
  <2> QED
    BY <2>1, <2>2
<1>10. ASSUME torn = 0, NEW j \in Nat, NEW s \in Nat, SendsAt(j, s)
       PROVE  \E i, k \in Nat : Joined(order', torn', f, j, s, i, k) /\ SendsAt(i, k)'
  <2>1. j = l /\ s = sent - n
    BY <1>2, <1>3, <1>10, Zenon DEF SendsAt, SendsFrom
  <2>2. Len(f.data) = n
    BY <1>5
  <2>3. s + Len(f.data) = sent
    <3> HIDE DEF f, n, sent, l
    <3> QED
      BY <1>7, <2>1, <2>2
  <2> HIDE DEF f, n, sent, l
  <2>4. PICK i \in Nat, k \in Nat : Follows(order, l, sent, i, k) /\ SendsFrom(i, k)'
    BY <1>9
  <2>5. torn' = 0 /\ order' = order /\ ~Gone(torn', j)
    BY <1>1, <1>10 DEF Gone
  <2>6. Joined(order', torn', f, j, s, i, k)
    BY <1>8, <2>1, <2>3, <2>4, <2>5 DEF Joined
  <2>7. SendsAt(i, k)'
    BY <2>4, <2>5, Zenon DEF SendsAt
  <2> QED
    BY <2>6, <2>7
<1> HIDE DEF f
<1>11. PICK g : g = f
  OBVIOUS
<1> QED
  <2>1. SendsNext(g)
    BY <1>1, <1>10, <1>11, GoneOn DEF SendsNext
  <2>2. wire' = Append(wire, g) /\ torn' \in Nat
    BY <1>1, <1>3, <1>11
  <2> QED
    BY <1>1, <1>3, <1>a, <2>1, <2>2, FlowSent DEF TornKept

\* A Send that fails while the connection is open leaves the next frame where it
\* was to start, or tears its message.
LEMMA FailEnds ==
  ASSUME WriterOK, HoldsOK, NEW m \in Msg, WriteFails(m), up,
         NEW j \in Nat, NEW s \in Nat, SendsAt(j, s)
  PROVE  SendsAt(j, s)' /\ (pc[m] = "fill" => torn' # 0 /\ Gone(torn', j))
<1>1. Inside(m) /\ order' = order /\ writer' = Idle
  BY DEF WriteFails, Release, Inside
<1>2. /\ writer.msg = m /\ m # NoMsg /\ torn \in Nat /\ Len(order) \in Nat
      /\ Begun(m) => Len(order) # 0
  BY <1>1, HolderOrdered
<1>3. torn' = IF Begun(m) /\ torn = 0 THEN Len(order) ELSE torn
  BY DEF WriteFails
<1>4. CASE Begun(m) \/ torn # 0
  <2>1. torn' # 0 /\ Gone(torn', j)
    <3>1. CASE torn # 0
      BY <1>3, <3>1 DEF SendsAt
    <3>2. CASE torn = 0
      <4>1. torn' = Len(order) /\ torn' # 0
        BY <1>2, <1>3, <1>4, <3>2
      <4>2. j = Len(order)
        BY <1>2, <1>4, <3>2 DEF SendsAt, SendsFrom
      <4> QED
        BY <4>1, <4>2 DEF Gone
    <3> QED
      BY <3>1, <3>2
  <2> QED
    BY <2>1, Zenon DEF SendsAt
<1>5. CASE ~Begun(m) /\ torn = 0
  <2>1. torn' = 0 /\ pc[m] # "fill"
    BY <1>2, <1>3, <1>5 DEF HoldsOK
  <2>2. j = Len(order) + 1 /\ s = 0
    BY <1>2, <1>5 DEF SendsAt, SendsFrom
  <2>3. SendsFrom(j, s)'
    BY <1>1, <2>2 DEF SendsFrom, Idle
  <2> QED
    BY <2>1, <2>3, Zenon DEF SendsAt
<1> QED
  BY <1>4, <1>5

\* A Send fails, and the chunk it was in may be sent as it is.
LEMMA FailFlowOK ==
  ASSUME WriterOK, HoldsOK, FlowOK, Sequence(wire), NEW m \in Msg, WriteFails(m)
  PROVE  FlowOK'
<1>1. UNCHANGED <<order, inbox, asm, code, up>> /\ OrderGrows
  <2>1. UNCHANGED order
    BY DEF WriteFails
  <2> QED
    BY <2>1, NextOrderGrows DEF WriteFails, recvVars
<1>2. torn \in Nat /\ torn' \in Nat /\ TornKept
  <2>1. /\ Inside(m) /\ torn' = IF up /\ Begun(m) /\ torn = 0 THEN Len(order) ELSE torn
    BY DEF WriteFails, Inside
  <2>2. torn \in Nat /\ Len(order) \in Nat /\ (Begun(m) => Len(order) # 0)
    BY <2>1, HolderOrdered
  <2> QED
    BY <2>1, <2>2 DEF TornKept
<1>3. CASE UNCHANGED wire
  <2>1. \A j, s \in Nat : up' /\ SendsAt(j, s) => SendsAt(j, s)'
    BY <1>1, FailEnds
  <2> QED
    BY <1>1, <1>2, <1>3, <2>1, FlowKept
<1>4. ASSUME NEW f, f = Chunk(m, writer.frame), up, pc[m] = "fill", wire' = Append(wire, f)
      PROVE  FlowOK'
  <2>1. ASSUME NEW j \in Nat, NEW s \in Nat, SendsAt(j, s)
        PROVE  Joined(order', torn', f, j, s, j, s) /\ SendsAt(j, s)'
    <3>1. SendsAt(j, s)' /\ Gone(torn', j)
      BY <1>4, <2>1, FailEnds
    <3> QED
      BY <3>1, Zenon DEF Joined
  <2>2. SendsNext(f)
    BY <2>1, Zenon DEF SendsNext
  <2> QED
    BY <1>1, <1>2, <1>4, <2>2, FlowSent
<1> QED
  <2>1. PICK f : f = Chunk(m, writer.frame)
    OBVIOUS
  <2>2. UNCHANGED wire \/ (up /\ pc[m] = "fill" /\ wire' = Append(wire, f))
    BY <2>1 DEF WriteFails
  <2> QED
    BY <1>3, <1>4, <2>1, <2>2

\* The other steps of a sender send nothing.
LEMMA SilentFlowOK ==
  ASSUME WriterOK, HoldsOK, PlaceOK, FlowOK, NEW m \in Msg,
         Lock(m) \/ NewWriter(m) \/ FillPart(m)
  PROVE  FlowOK'
<1>1. UNCHANGED <<wire, inbox, asm, code, up, torn>>
  BY DEF Lock, NewWriter, FillPart, recvVars
<1>2. OrderGrows
  <2>1. Begins(m) \/ UNCHANGED order
    BY DEF Lock, NewWriter, FillPart
  <2> QED
    BY <2>1, NextOrderGrows
<1>t. torn \in Nat /\ torn' \in Nat /\ TornKept
  BY <1>1 DEF HoldsOK, OrderOK, TornKept
<1>3. ASSUME NEW j \in Nat, NEW s \in Nat, SendsFrom(j, s) PROVE SendsFrom(j, s)'
  <2>1. CASE Lock(m)
    <3>1. writer'.msg = m /\ order' = order /\ ~Begun(m) /\ writer.msg = NoMsg
      BY <2>1 DEF Lock, Idle, HoldsOK
    <3>2. ~Begun(m)'
      BY <3>1 DEF Begun
    <3>3. j = Len(order) + 1 /\ s = 0
      BY <1>3, <3>1 DEF SendsFrom
    <3> QED
      BY <3>1, <3>2, <3>3 DEF SendsFrom
  <2>2. CASE NewWriter(m)
    <3>1. pc[m] = "next" /\ pc'[m] = "fill" /\ Inside(m)
      BY <2>2 DEF NewWriter, WriterOK, Inside
    <3>2. writer.msg = m /\ m # NoMsg /\ order \in Seq(Msg)
      BY <3>1, HolderOrdered
    <3>3. writer'.msg = m /\ writer'.sent = writer.sent /\ writer'.frame = <<>>
      BY <2>2, <3>2 DEF NewWriter, WriterOK
    <3>4. /\ Begun(m)' /\ (Begun(m) => order' = order)
          /\ ~Begun(m) => Len(order') = Len(order) + 1
      BY <2>2, <3>2, BeginsOK DEF NewWriter
    <3>5. j = Len(order') /\ s = writer.sent
      BY <1>3, <3>1, <3>2, <3>4 DEF SendsFrom, HoldsOK
    <3>6. writer'.sent - Len(writer'.frame) = writer.sent
      <4>1. writer.sent \in 0..Total(m)
        BY <3>1 DEF PlaceOK
      <4>2. Len(<<>>) = 0
        OBVIOUS
      <4> QED
        BY <3>3, <4>1, <4>2
    <3> QED
      BY <3>1, <3>2, <3>3, <3>4, <3>5, <3>6, Zenon DEF SendsFrom
  <2>3. CASE FillPart(m)
    <3>1. /\ writer'.msg = m /\ writer.msg = m
          /\ writer'.sent - Len(writer'.frame) = writer.sent - Len(writer.frame)
      BY <2>3, FillPlaceOK
    <3>2. pc[m] = "fill" /\ pc'[m] = "fill" /\ UNCHANGED order /\ m # NoMsg
      BY <2>3, ChunkAssumption DEF FillPart
    <3>3. Begun(m)' <=> Begun(m)
      BY <3>2, Zenon DEF Begun
    <3> QED
      BY <1>3, <3>1, <3>2, <3>3, Zenon DEF SendsFrom
  <2> QED
    BY <2>1, <2>2, <2>3
<1>4. \A j, s \in Nat : up' /\ SendsAt(j, s) => SendsAt(j, s)'
  BY <1>1, <1>3, Zenon DEF SendsAt
<1> QED
  BY <1>1, <1>2, <1>t, <1>4, FlowKept

-----------------------------------------------------------------------------
(* Messages arrive whole: the receiver.                                    *)

\* Reading a frame leaves alone every buffer that a message shares.
LEMMA SharedKept ==
  ASSUME ReaderOK, DeliveredOK, NEW data, mem' = Filled(data)
  PROVE  /\ Target # 0 /\ mem'[Target] = data
         /\ \A i \in DOMAIN inbox : inbox[i].buf # 0 =>
              inbox[i].buf # Target /\ mem'[inbox[i].buf] = mem[inbox[i].buf]
<1>0. /\ Sequence(mem) /\ readBuf \in 0..Len(mem) /\ Len(mem) \in Nat
      /\ \A i \in DOMAIN inbox : /\ inbox[i].buf \in 0..Len(mem)
                                 /\ inbox[i].buf # 0 => inbox[i].buf # readBuf
  <2>1. Sequence(mem) /\ readBuf \in 0..Len(mem)
    BY DEF ReaderOK, BufferOK
  <2>2. Len(mem) \in Nat
    BY <2>1, Appended
  <2>3. \A i \in DOMAIN inbox : /\ inbox[i].buf \in 0..Len(mem)
                                /\ inbox[i].buf # 0 => inbox[i].buf # readBuf
    BY DEF ReaderOK, InboxOK, DeliveredOK
  <2> QED
    BY <2>1, <2>2, <2>3
<1>1. CASE readBuf = 0
  <2>1. mem' = Append(mem, data) /\ Target = Len(mem) + 1
    BY <1>1 DEF Filled, Target
  <2>2. /\ Append(mem, data)[Len(mem) + 1] = data
        /\ \A k \in 1..Len(mem) : Append(mem, data)[k] = mem[k]
    BY <1>0, Appended
  <2>3. ASSUME NEW i \in DOMAIN inbox, inbox[i].buf # 0
        PROVE  inbox[i].buf # Target /\ mem'[inbox[i].buf] = mem[inbox[i].buf]
    <3>1. inbox[i].buf \in 1..Len(mem)
      BY <1>0, <2>3
    <3> QED
      BY <1>0, <2>1, <2>2, <3>1
  <2>4. Target # 0 /\ mem'[Target] = data
    BY <1>0, <2>1, <2>2
  <2> QED
    BY <2>3, <2>4
<1>2. CASE readBuf # 0
  <2>1. mem' = [mem EXCEPT ![readBuf] = data] /\ Target = readBuf
    BY <1>2 DEF Filled, Target
  <2>2. readBuf \in DOMAIN mem
    <3>1. PICK S : mem \in Seq(S)
      BY <1>0 DEF Sequence
    <3> QED
      BY <1>0, <1>2, <3>1
  <2>3. mem'[Target] = data
    BY <2>1, <2>2
  <2>4. ASSUME NEW i \in DOMAIN inbox, inbox[i].buf # 0
        PROVE  inbox[i].buf # Target /\ mem'[inbox[i].buf] = mem[inbox[i].buf]
    <3>1. inbox[i].buf \in DOMAIN mem /\ inbox[i].buf # readBuf
      <4>1. PICK S : mem \in Seq(S)
        BY <1>0 DEF Sequence
      <4> QED
        BY <1>0, <2>4, <4>1
    <3> QED
      BY <2>1, <3>1
  <2> QED
    BY <1>2, <2>1, <2>3, <2>4
<1> QED
  BY <1>1, <1>2

\* A frame is read and nothing is handed over.
LEMMA DeliveredKept ==
  ASSUME ReaderOK, DeliveredOK, NEW data, mem' = Filled(data),
         UNCHANGED <<order, torn, inbox>>,
         readBuf' \in {0, Target, readBuf}
  PROVE  DeliveredOK'
<1>1. /\ Target # 0
      /\ \A i \in DOMAIN inbox : inbox[i].buf # 0 =>
           /\ inbox[i].buf # Target /\ mem'[inbox[i].buf] = mem[inbox[i].buf]
           /\ inbox[i].buf # readBuf
  BY SharedKept DEF DeliveredOK
<1>2. ASSUME NEW i \in DOMAIN inbox, ~Lost(i)
      PROVE  /\ i \in DOMAIN order
             /\ (IF inbox[i].buf = 0 THEN inbox[i].body
                 ELSE mem'[inbox[i].buf]) = Body(order[i])
             /\ inbox[i].binary = (order[i] \in Binary)
  <2>1. /\ i \in DOMAIN order
        /\ (IF inbox[i].buf = 0 THEN inbox[i].body ELSE mem[inbox[i].buf]) = Body(order[i])
        /\ inbox[i].binary = (order[i] \in Binary)
    BY <1>2, Zenon DEF DeliveredOK, ArriveWhole, Content
  <2> QED
    BY <1>1, <2>1
<1>4. ArriveWhole'
  BY <1>2, Zenon DEF ArriveWhole, Content, Lost
<1>5. \A i \in DOMAIN inbox' : inbox'[i].buf # 0 => inbox'[i].buf # readBuf'
  BY <1>1
<1> QED
  BY <1>4, <1>5, Zenon DEF DeliveredOK

\* A frame is read and message d is handed over in a buffer that is not
\* kept: the next one whole, unless that is lost.
LEMMA DeliveredMore ==
  ASSUME ReaderOK, HoldsOK, DeliveredOK, NEW data, mem' = Filled(data),
         UNCHANGED <<order, torn>>, NEW d, inbox' = Append(inbox, d),
         ~Spoilt => /\ Len(inbox) + 1 \in 1..Len(order)
                    /\ (IF d.buf = 0 THEN d.body ELSE mem'[d.buf])
                          = Body(order[Len(inbox) + 1])
                    /\ d.binary = (order[Len(inbox) + 1] \in Binary),
         readBuf' \in {0, Target}, d.buf # 0 => d.buf # readBuf'
  PROVE  DeliveredOK'
<1> DEFINE n == Len(inbox)
<1>0. Sequence(inbox)
  BY DEF ReaderOK, InboxOK
<1>1. /\ n \in Nat /\ Len(inbox') = n + 1 /\ inbox'[n + 1] = d
      /\ \A i \in 1..n : inbox'[i] = inbox[i]
  <2>1. /\ Len(inbox) \in Nat /\ Len(Append(inbox, d)) = Len(inbox) + 1
        /\ Append(inbox, d)[Len(inbox) + 1] = d
        /\ \A i \in 1..Len(inbox) : Append(inbox, d)[i] = inbox[i]
    BY <1>0, Appended
  <2>2. inbox' = Append(inbox, d)
    OBVIOUS
  <2> QED
    BY <2>1, <2>2
<1>2. DOMAIN inbox = 1..n /\ DOMAIN inbox' = 1..(n + 1)
  <2>1. PICK S : inbox \in Seq(S)
    BY <1>0 DEF Sequence
  <2>2. Append(inbox, d) \in Seq(S \cup {d})
    BY <2>1
  <2>3. inbox' \in Seq(S \cup {d})
    BY <2>2
  <2>4. DOMAIN inbox = 1..Len(inbox) /\ DOMAIN inbox' = 1..Len(inbox')
    BY <2>1, <2>3
  <2> QED
    BY <1>1, <2>4
<1>3. /\ Target # 0
      /\ \A i \in 1..n : inbox[i].buf # 0 =>
           inbox[i].buf # Target /\ mem'[inbox[i].buf] = mem[inbox[i].buf]
  BY <1>2, SharedKept
<1> HIDE DEF n
<1>o. DOMAIN order = 1..Len(order)
  BY DEF HoldsOK, OrderOK
<1>5. ASSUME NEW i \in 1..(n + 1) PROVE inbox'[i].buf # 0 => inbox'[i].buf # readBuf'
  <2>1. CASE i \in 1..n
    BY <1>1, <1>2, <1>3, <2>1 DEF DeliveredOK
  <2>2. CASE i = n + 1
    BY <1>1, <2>2
  <2>3. i \in 1..n \/ i = n + 1
    BY <1>1
  <2> QED
    BY <2>1, <2>2, <2>3
<1>4. ASSUME NEW i \in 1..(n + 1), ~Lost(i)
      PROVE  /\ i \in DOMAIN order
             /\ (IF inbox'[i].buf = 0 THEN inbox'[i].body
                 ELSE mem'[inbox'[i].buf]) = Body(order[i])
             /\ inbox'[i].binary = (order[i] \in Binary)
  <2>1. CASE i \in 1..n
    <3>1. /\ i \in DOMAIN order
          /\ (IF inbox[i].buf = 0 THEN inbox[i].body ELSE mem[inbox[i].buf]) = Body(order[i])
          /\ inbox[i].binary = (order[i] \in Binary)
      BY <1>2, <1>4, <2>1, Zenon DEF DeliveredOK, ArriveWhole, Content
    <3> QED
      BY <1>1, <1>3, <2>1, <3>1
  <2>2. CASE i = n + 1
    <3>1. inbox'[i] = d /\ i = Len(inbox) + 1
      BY <1>1, <2>2 DEF n
    <3>2. ~Spoilt
      BY <1>4, <3>1 DEF Spoilt, Gone, Lost
    <3> QED
      BY <1>o, <3>1, <3>2
  <2>3. i \in 1..n \/ i = n + 1
    BY <1>1
  <2> QED
    BY <2>1, <2>2, <2>3
<1>6. ArriveWhole'
  <2>1. \A i \in DOMAIN inbox' : ~Lost(i)' =>
          /\ i \in DOMAIN order'
          /\ (IF inbox'[i].buf = 0 THEN inbox'[i].body
              ELSE mem'[inbox'[i].buf]) = Body(order'[i])
          /\ inbox'[i].binary = (order'[i] \in Binary)
    BY <1>2, <1>4 DEF Lost
  <2> QED
    BY <2>1, Zenon DEF ArriveWhole, Content
<1>7. \A i \in DOMAIN inbox' : inbox'[i].buf # 0 => inbox'[i].buf # readBuf'
  BY <1>2, <1>5
<1> QED
  BY <1>6, <1>7, Zenon DEF DeliveredOK

\* The assembler finds no fault with what comes next, but its size.
LEMMA FaultFound ==
  ASSUME HoldsOK, AssemblyOK, ~Spoilt, NEW f, Carries(order, f, Len(inbox) + 1, Progress)
  PROVE  /\ Fault(f) # 0 => Fault(f) = 1009 /\ Total(order[Len(inbox) + 1]) > Limit
         /\ ~f.chunk /\ Fault(f) = 0 => ~asm.active
<1> DEFINE j == Len(inbox) + 1
           m == order[j]
<1>1. /\ j \in 1..Len(order) /\ f.total = Total(m) /\ f.binary = (m \in Binary)
      /\ f.chunk = (Total(m) > Threshold)
      /\ Len(f.data) \in Nat /\ Progress + Len(f.data) <= Total(m)
  BY DEF Carries
<1>2. m \in Msg
  <2>1. order \in Seq(Msg)
    BY DEF HoldsOK, OrderOK
  <2> HIDE DEF j
  <2> QED
    BY <1>1, <2>1
<1>3. Total(m) \in Nat
  BY <1>2, WholeBody
<1>4. asm.active => /\ Total(m) > Threshold /\ asm.total = Total(m)
                    /\ asm.binary = (m \in Binary) /\ Progress = Len(asm.buf)
  BY DEF AssemblyOK, Progress
<1> HIDE DEF j, m
<1>5. CASE ~f.chunk
  <2>1. ~asm.active
    BY <1>1, <1>4, <1>5
  <2>2. Fault(f) = 0
    BY <1>5, <2>1 DEF Fault
  <2> QED
    BY <2>1, <2>2
<1>6. CASE f.chunk /\ ~asm.active
  <2>1. Progress = 0
    BY <1>6 DEF Progress
  <2>2. ~(Len(f.data) > f.total)
    BY <1>1, <1>3, <2>1
  <2>3. Fault(f) = IF f.total > Limit THEN 1009 ELSE 0
    BY <1>6, <2>2 DEF Fault
  <2>4. Fault(f) = IF Total(m) > Limit THEN 1009 ELSE 0
    BY <1>1, <2>3
  <2> QED
    BY <1>6, <2>4 DEF m, j
<1>7. CASE f.chunk /\ asm.active
  <2>1. f.total = asm.total /\ f.binary = asm.binary
    BY <1>1, <1>4, <1>7
  <2>2. ~(Len(asm.buf) + Len(f.data) > asm.total)
    <3>1. /\ Progress + Len(f.data) <= Total(m) /\ Progress = Len(asm.buf)
          /\ asm.total = Total(m)
      BY <1>1, <1>4, <1>7
    <3>2. Len(asm.buf) + Len(f.data) <= asm.total
      BY <3>1
    <3>3. Len(asm.buf) \in 0..asm.total
      BY <1>7 DEF AssemblyOK
    <3>4. Len(asm.buf) \in Nat /\ Len(f.data) \in Nat /\ asm.total \in Nat
      BY <1>1, <1>3, <3>1, <3>3
    <3>5. \A x, y, z \in Nat : x + y <= z => ~(x + y > z)
      OBVIOUS
    <3> QED
      BY <3>2, <3>4, <3>5, Zenon
  <2>3. Fault(f) = 0
    BY <1>7, <2>1, <2>2, Zenon DEF Fault
  <2> QED
    BY <1>7, <2>3
<1> QED
  BY <1>5, <1>6, <1>7

\* Where a message is handed over, the next one starts.
LEMMA NextStarts ==
  ASSUME HoldsOK, NEW d, Sequence(inbox), inbox' = Append(inbox, d), ~asm'.active,
         NEW n \in Nat, n = Total(order[Len(inbox) + 1])
  PROVE  Follows(order, Len(inbox) + 1, n, Len(inbox') + 1, Progress')
<1>1. Len(inbox') = Len(inbox) + 1
  BY Appended
<1>2. Progress' = 0
  BY DEF Progress
<1>3. ~(n < Total(order[Len(inbox) + 1]))
  OBVIOUS
<1> QED
  BY <1>1, <1>2, <1>3 DEF Follows

\* feed, of a plain message.
LEMMA FeedPlainOK ==
  ASSUME ReaderOK, HoldsOK, ReceivedOK, ~Spoilt, NEW f, mem' = Filled(f.data),
         UNCHANGED <<order, torn>>, code' = 0, Fault(f) = 0,
         Carries(order, f, Len(inbox) + 1, Progress), Progress \in Nat, FeedPlain(f)
  PROVE  /\ ReceivedOK'
         /\ Follows(order, Len(inbox) + 1, Progress + Len(f.data), Len(inbox') + 1, Progress')
<1> DEFINE j == Len(inbox) + 1
           m == order[j]
<1>1. /\ j \in 1..Len(order) /\ f.binary = (m \in Binary) /\ ~f.chunk
      /\ Progress = 0 /\ f.data = Body(m) /\ Len(f.data) \in Nat
  BY DEF Carries, FeedPlain
<1>2. asm' = asm /\ ~asm.active
  BY <1>1, FaultFound DEF FeedPlain, ReceivedOK
<1>3. m \in Msg
  <2>1. order \in Seq(Msg)
    BY DEF HoldsOK, OrderOK
  <2> HIDE DEF j
  <2> QED
    BY <1>1, <2>1
<1>4. Target # 0 /\ mem'[Target] = f.data
  BY SharedKept DEF ReceivedOK
<1>5. ASSUME f.binary PROVE DeliveredOK'
  <2> DEFINE d == Delivered(TRUE, <<>>, Target)
  <2>1. inbox' = Append(inbox, d) /\ KeepBuffer(TRUE, f.binary, f.data)
    BY <1>5 DEF FeedPlain
  <2>2. d.buf = Target /\ d.binary = TRUE
    BY DEF Delivered
  <2>3. readBuf' = 0
    BY <1>5, <2>1 DEF KeepBuffer
  <2>4. d.binary = (m \in Binary)
    BY <1>1, <1>5, <2>2
  <2>5. (IF d.buf = 0 THEN d.body ELSE mem'[d.buf]) = Body(m)
    BY <1>1, <1>4, <2>2
  <2>6. d.buf # 0 => d.buf # readBuf'
    BY <2>3
  <2> HIDE DEF d
  <2>7. DeliveredOK'
    BY <1>1, <2>1, <2>3, <2>4, <2>5, <2>6, DeliveredMore DEF ReceivedOK
  <2> QED
    BY <2>7
<1>6. ASSUME ~f.binary PROVE DeliveredOK'
  <2> DEFINE d == Delivered(FALSE, f.data, 0)
  <2>1. inbox' = Append(inbox, d) /\ KeepBuffer(TRUE, f.binary, f.data)
    BY <1>6 DEF FeedPlain
  <2>2. d.buf = 0 /\ d.binary = FALSE /\ d.body = f.data
    BY DEF Delivered
  <2>3. readBuf' \in {0, Target}
    BY <2>1 DEF KeepBuffer
  <2>4. d.binary = (m \in Binary)
    <3>1. ~(m \in Binary)
      BY <1>1, <1>6
    <3>3. (m \in Binary) = FALSE
      <4> HIDE DEF m
      <4> QED
        BY <3>1
    <3> QED
      BY <2>2, <3>3
  <2>5. (IF d.buf = 0 THEN d.body ELSE mem'[d.buf]) = Body(m)
    BY <1>1, <2>2
  <2>6. d.buf # 0 => d.buf # readBuf'
    BY <2>2
  <2> HIDE DEF d
  <2>7. DeliveredOK'
    BY <1>1, <2>1, <2>3, <2>4, <2>5, <2>6, DeliveredMore DEF ReceivedOK
  <2> QED
    BY <2>7
<1>7. DeliveredOK' /\ \E d : inbox' = Append(inbox, d)
  <2>1. \E d : inbox' = Append(inbox, d)
    BY DEF FeedPlain
  <2> QED
    BY <1>5, <1>6, <2>1
<1>8. ReceivedOK'
  BY <1>2, <1>7 DEF ReceivedOK, AssemblyOK, OnlyTooBigRejected
<1>9. Follows(order, j, Progress + Len(f.data), Len(inbox') + 1, Progress')
  <2>1. Total(m) \in Nat /\ Len(Body(m)) = Total(m)
    BY <1>3, WholeBody
  <2>2. Progress + Len(f.data) = Total(m) /\ Progress + Len(f.data) \in Nat
    BY <1>1, <2>1
  <2>3. Sequence(inbox)
    BY DEF ReaderOK, InboxOK
  <2> QED
    BY <1>2, <1>7, <2>2, <2>3, NextStarts
<1> QED
  BY <1>8, <1>9

\* feed, of a chunk: what is assembled grows by what comes next.
LEMMA FeedChunkOK ==
  ASSUME ReaderOK, HoldsOK, ReceivedOK, ~Spoilt, NEW f, mem' = Filled(f.data),
         UNCHANGED <<order, torn>>, code' = 0,
         Carries(order, f, Len(inbox) + 1, Progress), Progress \in Nat, FeedChunk(f)
  PROVE  /\ ReceivedOK'
         /\ Follows(order, Len(inbox) + 1, Progress + Len(f.data), Len(inbox') + 1, Progress')
<1> DEFINE j == Len(inbox) + 1
           m == order[j]
           T == Total(m)
           p == Progress
           n == Len(f.data)
           g == Grown(f)
<1>1. /\ j \in 1..Len(order) /\ f.total = T /\ f.binary = (m \in Binary) /\ f.chunk
      /\ T > Threshold /\ n \in Nat /\ p + n <= T /\ f.data = Slice(m, p, p + n) /\ p \in Nat
  BY DEF Carries, FeedChunk
<1>2. m \in Msg
  <2>1. order \in Seq(Msg)
    BY DEF HoldsOK, OrderOK
  <2> HIDE DEF j
  <2> QED
    BY <1>1, <2>1
<1>3. T \in Nat
  BY <1>2, WholeBody
<1>4. g = (IF asm.active THEN asm.buf ELSE <<>>) \o f.data
  BY DEF Grown
<1>5. (IF asm.active THEN asm.buf ELSE <<>>) = Slice(m, 0, p)
  <2>1. CASE asm.active
    BY <2>1 DEF ReceivedOK, AssemblyOK, Progress
  <2>2. CASE ~asm.active
    <3>1. p = 0
      BY <2>2 DEF Progress
    <3>2. SubSeq(Body(m), 0 + 1, 0) = <<>>
      <4>1. Body(m) \in Seq(Unit)
        BY <1>2, WholeBody
      <4> HIDE DEF Unit
      <4> QED
        BY <4>1
    <3> QED
      BY <2>2, <3>1, <3>2 DEF Slice
  <2> QED
    BY <2>1, <2>2
<1> HIDE DEF j, m, T, p, n, g
<1>t. \A x, y : Slice(m, x, y) = SubSeq(Body(m), x + 1, y)
  BY DEF Slice
<1>6. /\ f.data \in Seq(Unit) /\ n = Len(f.data)
      /\ \A k \in 1..n : f.data[k] = Body(m)[p + k]
  <2> DEFINE none == <<>>
             b == p + n
  <2>1. /\ b \in Nat /\ p <= b /\ b - p = n /\ b + 0 <= T
    BY <1>1, <1>3
  <2>2. /\ none \in Seq(Unit) /\ Len(none) = 0
        /\ \A k \in 1..Len(none) : none[k] = Body(m)[b + k]
    <3> HIDE DEF Unit
    <3> QED
      OBVIOUS
  <2> HIDE DEF none, b, Unit
  <2>3. /\ Slice(m, p, b) \in Seq(Unit) /\ Len(Slice(m, p, b)) = b - p
        /\ \A k \in 1..(b - p) : Slice(m, p, b)[k] = Body(m)[p + k]
    BY <1>1, <1>2, <2>1, <2>2, SliceGrows DEF T
  <2> QED
    BY <1>1, <2>1, <2>3 DEF b, n
<1>7. g = Slice(m, 0, p + n) /\ Len(g) = p + n
  <2>1. /\ 0 \in Nat /\ 0 <= p /\ p + Len(f.data) <= Total(m)
        /\ \A k \in 1..Len(f.data) : f.data[k] = Body(m)[p + k]
    BY <1>1, <1>6 DEF n, T
  <2> DEFINE u == f.data
  <2>2. /\ u \in Seq(Unit) /\ p + Len(u) <= Total(m)
        /\ \A k \in 1..Len(u) : u[k] = Body(m)[p + k]
    BY <1>6, <2>1
  <2> HIDE DEF u, Unit
  <2>3. /\ Slice(m, 0, p) \in Seq(Unit) /\ Len(Slice(m, 0, p)) = p - 0
        /\ Slice(m, 0, p) \o u = Slice(m, 0, p + Len(u))
    BY <1>1, <1>2, <2>1, <2>2, SliceGrows
  <2>4. g = Slice(m, 0, p) \o u /\ Len(u) = n
    BY <1>4, <1>5 DEF u, n
  <2>5. Len(Slice(m, 0, p) \o u) = (p - 0) + Len(u)
    BY <2>2, <2>3, Concatenated
  <2>6. (p - 0) + n = p + n
    BY <1>1
  <2> QED
    BY <2>3, <2>4, <2>5, <2>6
<1>8. p + n \in Nat /\ p + n \in 0..T
  BY <1>1, <1>3
<1>9. Sequence(inbox)
  BY DEF ReaderOK, InboxOK
<1>10. CASE Len(g) < T
  <2>1. /\ asm' = [active |-> TRUE, total |-> f.total, binary |-> f.binary, buf |-> g]
        /\ KeepBuffer(FALSE, FALSE, f.data) /\ inbox' = inbox
    BY <1>1, <1>10 DEF FeedChunk, g
  <2>2. asm'.active = TRUE /\ asm'.total = T /\ asm'.binary = (m \in Binary) /\ asm'.buf = g
    BY <1>1, <2>1
  <2>3. readBuf' \in {0, Target}
    BY <2>1 DEF KeepBuffer
  <2>4. DeliveredOK'
    BY <2>1, <2>3, DeliveredKept DEF ReceivedOK
  <2>5. AssemblyOK'
    <3>1. Len(inbox') + 1 = j /\ order' = order
      BY <2>1 DEF j
    <3>2. /\ j \in 1..Len(order) /\ Total(order[j]) > Threshold
          /\ asm'.total = Total(order[j])
          /\ asm'.binary = (order[j] \in Binary) /\ Len(asm'.buf) \in 0..asm'.total
          /\ asm'.buf = Slice(order[j], 0, Len(asm'.buf))
      <4>1. /\ asm'.buf = Slice(m, 0, Len(asm'.buf)) /\ Len(asm'.buf) \in 0..asm'.total
        BY <1>7, <1>8, <2>2
      <4> QED
        BY <1>1, <2>2, <4>1 DEF m, T
    <3> QED
      BY <3>1, <3>2, Zenon DEF AssemblyOK, Slice
  <2>6. ReceivedOK'
    BY <2>4, <2>5 DEF ReceivedOK, OnlyTooBigRejected
  <2>7. Follows(order, j, p + n, Len(inbox') + 1, Progress')
    <3>1. Progress' = p + n /\ p + n < Total(order[j]) /\ Len(inbox') + 1 = j
      BY <1>7, <1>10, <2>1, <2>2 DEF Progress, T, m, j
    <3> QED
      BY <3>1 DEF Follows
  <2> QED
    BY <2>6, <2>7 DEF j, p, n
<1>11. CASE ~(Len(g) < T)
  <2> DEFINE d == Delivered(f.binary, g, 0)
  <2>1. /\ asm' = [asm EXCEPT !.active = FALSE, !.buf = <<>>]
        /\ inbox' = Append(inbox, d) /\ KeepBuffer(FALSE, f.binary, f.data)
    BY <1>1, <1>11 DEF FeedChunk, g
  <2>2. ~asm'.active
    BY <2>1 DEF ReaderOK, StateOK
  <2>3. p + n = T /\ g = Body(m)
    <3>1. p + n = T
      BY <1>1, <1>3, <1>7, <1>8, <1>11
    <3>2. Slice(m, 0, T) = Body(m)
      BY <1>2, WholeBody DEF T
    <3> QED
      BY <1>7, <3>1, <3>2
  <2>4. d.buf = 0 /\ d.body = g /\ d.binary = f.binary
    BY DEF Delivered
  <2>5. readBuf' \in {0, Target}
    BY <2>1 DEF KeepBuffer
  <2>6. (IF d.buf = 0 THEN d.body ELSE mem'[d.buf]) = Body(m)
    BY <2>3, <2>4
  <2>7. d.binary = (m \in Binary) /\ (d.buf # 0 => d.buf # readBuf')
    BY <1>1, <2>4
  <2> HIDE DEF d
  <2>8. DeliveredOK'
    BY <1>1, <2>1, <2>5, <2>6, <2>7, DeliveredMore DEF ReceivedOK, m, j
  <2>9. ReceivedOK'
    BY <2>2, <2>8 DEF ReceivedOK, AssemblyOK, OnlyTooBigRejected
  <2>10. Follows(order, j, p + n, Len(inbox') + 1, Progress')
    BY <1>8, <1>9, <2>1, <2>2, <2>3, NextStarts DEF j, m, T
  <2> QED
    BY <2>9, <2>10 DEF j, p, n
<1> QED
  BY <1>10, <1>11

\* What is spoilt stays so, and nothing is promised of what is handed over, but
\* that no buffer is shared.
LEMMA FeedSpoiltOK ==
  ASSUME ReaderOK, HoldsOK, ReceivedOK, Spoilt, Feed
  PROVE  ReceivedOK' /\ FlowOK'
<1>1. PICK f : f = Head(wire)
  OBVIOUS
<1>2. mem' = Filled(f.data) /\ UNCHANGED <<order, torn>>
  BY <1>1 DEF Feed, sendVars
<1>3. Target # 0
  BY <1>2, SharedKept DEF ReceivedOK
<1>4. DeliveredOK' /\ (inbox' = inbox \/ \E d : inbox' = Append(inbox, d))
  <2>1. CASE UNCHANGED <<inbox, readBuf>>
    BY <1>2, <2>1, DeliveredKept DEF ReceivedOK
  <2>2. CASE inbox' = inbox /\ readBuf' \in {0, Target}
    BY <1>2, <2>2, DeliveredKept DEF ReceivedOK
  <2>3. ASSUME NEW d, inbox' = Append(inbox, d), readBuf' \in {0, Target},
               d.buf # 0 => d.buf # readBuf'
        PROVE  DeliveredOK'
    BY <1>2, <2>3, DeliveredMore DEF ReceivedOK
  <2>4. ASSUME NEW a, NEW b, NEW d, KeepBuffer(a, b, d) PROVE readBuf' \in {0, Target}
    BY <2>4, Zenon DEF KeepBuffer
  <2>5. CASE FeedPlain(f)
    <3>1. CASE f.binary
      <4>1. PICK d : d = Delivered(TRUE, <<>>, Target)
        OBVIOUS
      <4>2. inbox' = Append(inbox, d) /\ KeepBuffer(TRUE, f.binary, f.data)
        BY <2>5, <3>1, <4>1 DEF FeedPlain
      <4>3. readBuf' = 0
        BY <3>1, <4>2 DEF KeepBuffer
      <4> QED
        BY <2>3, <4>2, <4>3
    <3>2. CASE ~f.binary
      <4>1. PICK d : d = Delivered(FALSE, f.data, 0)
        OBVIOUS
      <4>2. inbox' = Append(inbox, d) /\ KeepBuffer(TRUE, f.binary, f.data)
        BY <2>5, <3>2, <4>1 DEF FeedPlain
      <4>3. d.buf = 0 /\ readBuf' \in {0, Target}
        BY <2>4, <4>1, <4>2 DEF Delivered
      <4> QED
        BY <2>3, <4>2, <4>3
    <3> QED
      BY <3>1, <3>2
  <2>6. CASE FeedChunk(f)
    <3>1. CASE Len(Grown(f)) < f.total
      <4>1. inbox' = inbox /\ KeepBuffer(FALSE, FALSE, f.data)
        BY <2>6, <3>1, Zenon DEF FeedChunk
      <4> QED
        BY <2>2, <2>4, <4>1
    <3>2. CASE ~(Len(Grown(f)) < f.total)
      <4>1. PICK d : d = Delivered(f.binary, Grown(f), 0)
        OBVIOUS
      <4>2. inbox' = Append(inbox, d) /\ KeepBuffer(FALSE, f.binary, f.data)
        BY <2>6, <3>2, <4>1, Zenon DEF FeedChunk
      <4>3. d.buf = 0 /\ readBuf' \in {0, Target}
        BY <2>4, <4>1, <4>2 DEF Delivered
      <4> QED
        BY <2>3, <4>2, <4>3
    <3> QED
      BY <3>1, <3>2
  <2>7. UNCHANGED <<inbox, readBuf>> \/ FeedPlain(f) \/ FeedChunk(f)
    BY <1>1, Zenon DEF Feed
  <2> QED
    BY <2>1, <2>5, <2>6, <2>7
<1>5. Spoilt'
  <2>1. Sequence(inbox)
    BY DEF ReaderOK, InboxOK
  <2>2. Len(inbox) \in Nat
    <3>1. PICK S : inbox \in Seq(S)
      BY <2>1 DEF Sequence
    <3> QED
      BY <3>1
  <2>3. Len(inbox') \in Nat /\ Len(inbox) <= Len(inbox')
    <3>1. CASE inbox' = inbox
      BY <2>2, <3>1
    <3>2. ASSUME NEW d, inbox' = Append(inbox, d)
          PROVE  Len(inbox') \in Nat /\ Len(inbox) <= Len(inbox')
      <4>1. Len(inbox') = Len(inbox) + 1
        BY <2>1, <3>2, Appended
      <4> QED
        BY <2>2, <4>1
    <3> QED
      BY <1>4, <3>1, <3>2
  <2>4. torn \in Nat
    BY DEF HoldsOK, OrderOK
  <2> QED
    BY <1>2, <2>2, <2>3, <2>4, SpoiltKept DEF TornKept
<1>6. AssemblyOK' /\ FlowOK'
  BY <1>5, Zenon DEF AssemblyOK, FlowOK
<1>7. OnlyTooBigRejected'
  <2>1. Lost(Len(inbox) + 1)'
    BY <1>5, Zenon DEF Spoilt, Gone, Lost
  <2> QED
    BY <2>1, Zenon DEF OnlyTooBigRejected
<1> QED
  BY <1>4, <1>6, <1>7 DEF ReceivedOK

\* The reader reads, and closes the connection on a message that is too big.
LEMMA FeedOK ==
  ASSUME ReaderOK, HoldsOK, ReceivedOK, FlowOK, Sequence(wire), Feed
  PROVE  ReceivedOK' /\ FlowOK'
<1>s. CASE Spoilt
  BY <1>s, FeedSpoiltOK
<1>n. SUFFICES ASSUME ~Spoilt PROVE ReceivedOK' /\ FlowOK'
  BY <1>s
<1> DEFINE f == Head(wire)
<1>1. /\ wire # <<>> /\ code = 0 /\ mem' = Filled(f.data) /\ code' = Fault(f)
      /\ wire' = Tail(wire) /\ UNCHANGED sendVars
  BY DEF Feed
<1>2. UNCHANGED <<order, torn>>
  BY <1>1 DEF sendVars
<1>3. CASE Fault(f) = 0
  <2>1. (FeedPlain(f) \/ FeedChunk(f)) /\ UNCHANGED up
    BY <1>3 DEF Feed
  <2>2. /\ Carries(order, f, Len(inbox) + 1, Progress) /\ Progress \in Nat
        /\ Follows(order, Len(inbox) + 1, Progress + Len(f.data), Len(inbox') + 1, Progress')
             => FlowOK'
    BY <1>1, <1>n, <2>1, FlowRead
  <2> HIDE DEF f
  <2>3. CASE FeedPlain(f)
    BY <1>1, <1>2, <1>3, <1>n, <2>2, <2>3, FeedPlainOK
  <2>4. CASE FeedChunk(f)
    BY <1>1, <1>2, <1>3, <1>n, <2>2, <2>4, FeedChunkOK
  <2> QED
    BY <2>1, <2>3, <2>4
<1>4. CASE Fault(f) # 0
  <2>1. UNCHANGED <<asm, inbox, readBuf>>
    BY <1>4 DEF Feed
  <2>2. Carries(order, f, Len(inbox) + 1, Progress)
    <3>1. PICK who \in [Nat -> Nat], from \in [Nat -> Nat] : Wired(who, from)
      BY <1>1, <1>n DEF FlowOK
    <3>2. 1 \in 1..Len(wire) /\ Head(wire) = wire[1]
      BY <1>1, FrontTaken
    <3>3. Joined(order, torn, wire[1], who[1], from[1], who[1 + 1], from[1 + 1])
      BY <3>1, <3>2 DEF Wired
    <3>4. who[1] = Len(inbox) + 1 /\ from[1] = Progress
      BY <3>1 DEF Wired
    <3>5. ~Gone(torn, who[1])
      BY <1>n, <3>4 DEF Spoilt
    <3>6. Carries(order, wire[1], who[1], from[1])
      BY <3>3, <3>5, Zenon DEF Joined
    <3> QED
      BY <3>2, <3>4, <3>6
  <2> HIDE DEF f
  <2>3. code' = 1009 /\ Total(order[Len(inbox) + 1]) > Limit
    BY <1>1, <1>4, <1>n, <2>2, FaultFound DEF ReceivedOK
  <2>4. Len(inbox) < Len(order)
    <3>1. Len(inbox) \in Nat /\ Len(order) \in Nat
      <4>1. Sequence(inbox) /\ Sequence(order)
        BY DEF ReaderOK, InboxOK, HoldsOK, OrderOK, Sequence
      <4> QED
        BY <4>1, Appended
    <3>2. Len(inbox) + 1 \in 1..Len(order)
      BY <2>2 DEF Carries
    <3> QED
      BY <3>1, <3>2
  <2>5. OnlyTooBigRejected'
    BY <1>2, <2>1, <2>3, <2>4, Zenon DEF OnlyTooBigRejected
  <2>6. AssemblyOK'
    BY <1>2, <2>1, Zenon DEF ReceivedOK, AssemblyOK, Slice, Spoilt, Gone
  <2>7. DeliveredOK'
    BY <1>1, <1>2, <2>1, DeliveredKept DEF ReceivedOK
  <2>8. FlowOK'
    BY <2>3 DEF FlowOK
  <2> QED
    BY <2>5, <2>6, <2>7, <2>8 DEF ReceivedOK
<1> QED
  BY <1>3, <1>4

\* All that makes messages arrive whole.
WholeInv ==
  WriterOK /\ ReaderOK /\ Sequence(wire) /\ HoldsOK /\ PlaceOK /\ FlowOK /\ ReceivedOK

\* It holds before anything was sent.
LEMMA InitWhole == Init => WholeInv
<1> SUFFICES ASSUME Init PROVE WholeInv
  OBVIOUS
<1>1. WriterOK /\ ReaderOK
  BY InitOK
<1>2. /\ <<>> \in Seq({}) /\ <<>> \in Seq(Msg) /\ Len(<<>>) = 0
      /\ 1..0 = {} /\ DOMAIN <<>> = {}
  OBVIOUS
<1>3. Sequence(wire) /\ HoldsOK
  <2>1. Sequence(wire)
    BY <1>2 DEF Init, Sequence
  <2>2. OrderOK /\ \A m \in Msg : ~Begun(m)
    BY <1>2 DEF Init, OrderOK, Begun
  <2>3. writer.msg = NoMsg
    BY DEF Init, Idle
  <2> QED
    BY <2>1, <2>2, <2>3 DEF HoldsOK
<1>4. PlaceOK
  BY DEF Init, PlaceOK
<1>5. ReceivedOK
  BY <1>2 DEF Init, ReceivedOK, AssemblyOK, DeliveredOK, ArriveWhole, OnlyTooBigRejected, NoAssembly
<1>6. FlowOK
  <2> DEFINE who == [x \in Nat |-> 1]
             from == [x \in Nat |-> 0]
  <2>1. who \in [Nat -> Nat] /\ from \in [Nat -> Nat] /\ who[1] = 1 /\ from[1] = 0
    OBVIOUS
  <2> HIDE DEF who, from
  <2>2. Progress = 0 /\ Len(inbox) + 1 = 1 /\ Len(wire) = 0
    BY <1>2 DEF Init, Progress, NoAssembly
  <2>3. SendsAt(1, 0)
    BY <1>2 DEF Init, Idle, SendsAt, SendsFrom
  <2>4. Wired(who, from)
    <3>1. 1..Len(wire) = {} /\ Len(wire) + 1 = 1
      BY <1>2, <2>2
    <3> QED
      BY <2>1, <2>2, <2>3, <3>1 DEF Wired
  <2> QED
    BY <2>1, <2>4 DEF FlowOK
<1> QED
  BY <1>1, <1>3, <1>4, <1>5, <1>6 DEF WholeInv

\* The receiver's side is not touched by what only adds to the order.
LEMMA ReceivedKept ==
  ASSUME ReaderOK, ReceivedOK, HoldsOK, OrderGrows, TornKept, UNCHANGED recvVars
  PROVE  ReceivedOK'
<1>1. UNCHANGED <<asm, mem, readBuf, inbox, code>>
  BY DEF recvVars
<1>2. /\ Len(order) \in Nat /\ Len(order') \in Nat /\ Len(order) <= Len(order')
      /\ \A j \in 1..Len(order) : j \in 1..Len(order') /\ order'[j] = order[j]
  BY DEF OrderGrows
<1>t. torn \in Nat
  BY DEF HoldsOK, OrderOK
<1>4. Sequence(inbox)
  BY DEF ReaderOK, InboxOK
<1>5. Len(inbox) \in Nat /\ DOMAIN inbox = 1..Len(inbox)
  <2>1. PICK S : inbox \in Seq(S)
    BY <1>4 DEF Sequence
  <2> QED
    BY <2>1
<1>s. (Spoilt => Spoilt') /\ \A i : Lost(i) => Lost(i)'
  BY <1>1 DEF Spoilt, Gone, Lost, TornKept
<1>3. AssemblyOK'
  <2>1. CASE asm.active /\ ~Spoilt
    <3>1. Len(inbox) + 1 \in 1..Len(order)
      BY <2>1 DEF ReceivedOK, AssemblyOK
    <3>2. Len(inbox) + 1 \in 1..Len(order') /\ order'[Len(inbox) + 1] = order[Len(inbox) + 1]
      BY <1>2, <3>1
    <3> QED
      BY <1>1, <2>1, <3>2, Zenon DEF ReceivedOK, AssemblyOK, Slice
  <2>2. CASE ~asm.active \/ Spoilt
    BY <1>1, <1>s, <2>2 DEF AssemblyOK
  <2> QED
    BY <2>1, <2>2
<1>6. DeliveredOK'
  <2>1. DOMAIN order = 1..Len(order) /\ DOMAIN order' = 1..Len(order')
    BY DEF OrderGrows
  <2>2. \A i \in DOMAIN order : i \in DOMAIN order' /\ order'[i] = order[i]
    BY <1>2, <2>1
  <2>4. ArriveWhole'
    BY <1>1, <1>s, <2>2, Zenon DEF ReceivedOK, DeliveredOK, ArriveWhole, Content
  <2> QED
    BY <1>1, <2>4, Zenon DEF ReceivedOK, DeliveredOK
<1>7. OnlyTooBigRejected'
  <2>1. CASE code = 0
    BY <1>1, <2>1 DEF OnlyTooBigRejected
  <2>3. CASE Lost(Len(inbox) + 1)
    BY <1>1, <1>s, <2>3, Zenon DEF OnlyTooBigRejected
  <2>2. CASE code # 0 /\ ~Lost(Len(inbox) + 1)
    <3>1. /\ code = 1009 /\ Len(inbox) < Len(order)
          /\ Total(order[Len(inbox) + 1]) > Limit
      BY <2>2 DEF ReceivedOK, OnlyTooBigRejected
    <3>2. Len(inbox) < Len(order') /\ Len(inbox) + 1 \in 1..Len(order)
      BY <1>2, <1>5, <3>1
    <3>3. order'[Len(inbox) + 1] = order[Len(inbox) + 1]
      BY <1>2, <3>2
    <3> QED
      BY <1>1, <3>1, <3>2, <3>3, Zenon DEF OnlyTooBigRejected
  <2> QED
    BY <2>1, <2>2, <2>3
<1> QED
  BY <1>3, <1>6, <1>7 DEF ReceivedOK

\* It is inductive.
LEMMA NextWhole == WholeInv /\ [Next]_vars => WholeInv'
<1> SUFFICES ASSUME WholeInv, [Next]_vars PROVE WholeInv'
  OBVIOUS
<1>0. WriterOK /\ ReaderOK /\ Sequence(wire) /\ HoldsOK /\ PlaceOK /\ FlowOK /\ ReceivedOK
  BY DEF WholeInv
<1>1. WriterOK' /\ ReaderOK' /\ HoldsOK' /\ PlaceOK'
  BY <1>0, NextWriterOK, NextReaderOK, NextHoldsOK, NextPlaceOK
<1> SUFFICES Sequence(wire)' /\ FlowOK' /\ ReceivedOK'
  BY <1>1 DEF WholeInv
<1>2. CASE Feed
  <2>1. wire # <<>> /\ wire' = Tail(wire)
    BY <1>2 DEF Feed
  <2>2. Sequence(wire')
    BY <1>0, <2>1, PartOfSequence
  <2> QED
    BY <1>0, <1>2, <2>2, FeedOK
<1>3. CASE Drop
  <2>1. OrderGrows /\ UNCHANGED recvVars
    <3>1. order \in Seq(Msg) /\ order' = order
      BY <1>0, <1>3 DEF Drop, sendVars, HoldsOK, OrderOK
    <3>2. Len(order) \in Nat /\ DOMAIN order = 1..Len(order)
      BY <3>1
    <3> QED
      BY <1>3, <3>1, <3>2 DEF Drop, OrderGrows
  <2>2. ReceivedOK'
    BY <1>0, <1>3, <2>1, ReceivedKept DEF TornKept, Drop, sendVars
  <2>3. FlowOK'
    BY <1>0, <1>3, DropFlowOK
  <2>4. Sequence(wire')
    <3>1. PICK k \in 0..Len(wire) : wire' = SubSeq(wire, 1, k)
      BY <1>3 DEF Drop
    <3> QED
      BY <1>0, <3>1, PartOfSequence
  <2> QED
    BY <2>2, <2>3, <2>4
<1>4. ASSUME NEW m \in Msg, Lock(m) \/ Sending(m)
      PROVE  Sequence(wire)' /\ FlowOK' /\ ReceivedOK'
  <2>1. UNCHANGED recvVars /\ (Begins(m) \/ UNCHANGED order)
    BY <1>4 DEF Lock, Sending, Writing, WritePlain, NewWriter, FillPart, CloseChunk, WriteFails
  <2>t. TornKept
    <3>1. CASE WriteFails(m)
      <4>1. Inside(m) /\ torn' = IF up /\ Begun(m) /\ torn = 0 THEN Len(order) ELSE torn
        BY <3>1 DEF WriteFails, Inside
      <4>2. Len(order) \in Nat /\ (Begun(m) => Len(order) # 0)
        BY <1>0, <4>1, HolderOrdered
      <4> QED
        BY <4>1, <4>2 DEF TornKept
    <3>2. CASE ~WriteFails(m)
      BY <1>4, <3>2
         DEF Lock, Sending, Writing, WritePlain, NewWriter, FillPart, CloseChunk, TornKept
    <3> QED
      BY <3>1, <3>2
  <2>2. ReceivedOK'
    BY <1>0, <2>1, <2>t, NextOrderGrows, ReceivedKept
  <2>3. FlowOK'
    BY <1>0, <1>4, PlainFlowOK, ChunkFlowOK, SilentFlowOK, FailFlowOK DEF Sending, Writing
  <2>4. UNCHANGED wire \/ \E f : wire' = Append(wire, f)
    BY <1>4 DEF Lock, Sending, Writing, WritePlain, NewWriter, FillPart, CloseChunk, WriteFails
  <2>5. Sequence(wire')
    BY <1>0, <2>4, AppendSequence
  <2> QED
    BY <2>2, <2>3, <2>5
<1>5. CASE UNCHANGED vars
  <2>1. UNCHANGED <<recvVars, wire, up, order, torn, pc, writer>>
    BY <1>5 DEF vars, sendVars
  <2>2. UNCHANGED <<asm, mem, readBuf, inbox, code>>
    BY <2>1 DEF recvVars
  <2>3. OrderGrows
    <3>1. order \in Seq(Msg)
      BY <1>0 DEF HoldsOK, OrderOK
    <3>2. Len(order) \in Nat /\ DOMAIN order = 1..Len(order)
      BY <3>1
    <3> QED
      BY <2>1, <3>2 DEF OrderGrows
  <2>t. TornKept /\ torn \in Nat /\ torn' \in Nat
    BY <1>0, <2>1 DEF TornKept, HoldsOK, OrderOK
  <2>4. ReceivedOK'
    BY <1>0, <2>1, <2>3, <2>t, ReceivedKept
  <2>5. \A j, s \in Nat : up' /\ SendsAt(j, s) => SendsAt(j, s)'
    BY <2>1, Zenon DEF SendsAt, SendsFrom, Begun
  <2>6. FlowOK'
    BY <1>0, <2>1, <2>2, <2>3, <2>5, <2>t, FlowKept
  <2> QED
    BY <1>0, <2>1, <2>4, <2>6
<1> QED
  BY <1>2, <1>3, <1>4, <1>5 DEF Next

\* Messages of concurrent senders arrive whole and in the order the senders
\* began to write, chunked or not, and stay as they were handed over, for any
\* messages, parts and sizes, up to the first Send that was given up in its
\* middle on an open connection, if there is one; a Send given up before it wrote
\* anything disturbs nobody (wsWriteChunked, wsAssembler.feed, writeWSAssemble).
THEOREM ArriveWholeAlways == Spec => []ArriveWhole
<1>1. WholeInv => ArriveWhole
  BY DEF WholeInv, ReceivedOK, DeliveredOK
<1> QED
  BY <1>1, InitWhole, NextWhole, PTL DEF Spec

\* What one end sends the other accepts: where no Send was given up in its
\* middle before, of the assembler's rejections only the one of a message over
\* the limit is ever met, for that message (wsChunkCloseCode).
THEOREM OnlyTooBigRejectedAlways == Spec => []OnlyTooBigRejected
<1>1. WholeInv => OnlyTooBigRejected
  BY DEF WholeInv, ReceivedOK
<1> QED
  BY <1>1, InitWhole, NextWhole, PTL DEF Spec
=============================================================================
