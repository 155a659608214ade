-------------------------- MODULE ConnectionProofs ---------------------------
(***************************************************************************)
(* Proofs about Connection, for any number of pieces and either kind of    *)
(* plugin: the types, that no output waits for nothing, and that the two   *)
(* buffers implement OrderedStream.  At the end, proofs about Starter, the *)
(* attempts a connection starts with.                                      *)
(***************************************************************************)
EXTENDS Connection, Starter, SequenceTheorems, TLAPS

\* a sequence of pieces said so far stays one when more are said
LEMMA MoreSaid ==
  ASSUME NEW m \in Nat, NEW n \in Nat, m <= n, NEW s \in Seq(1 .. m)
  PROVE  s \in Seq(1 .. n)
<1>1. 1 .. m \subseteq 1 .. n
  OBVIOUS
<1> QED
  BY <1>1, SeqMonotonic

LEMMA WriteBufTypes ==
  ASSUME TypeOK, WriteBuf
  PROVE  /\ said' \in Nat /\ said' = said + 1 /\ flushing' \in BOOLEAN
         /\ {stream', backlog'} \subseteq Seq(1 .. said')
<1>1. said \in Nat /\ said' \in Nat /\ said' = said + 1 /\ said' \in 1 .. said'
  BY DEF TypeOK, WriteBuf
<1>2. stream \in Seq(1 .. said') /\ backlog \in Seq(1 .. said')
  BY <1>1, MoreSaid DEF TypeOK
<1>3. /\ Append(stream, said') \in Seq(1 .. said')
      /\ Append(backlog, said') \in Seq(1 .. said')
  BY <1>1, <1>2
<1>4. flushing' \in BOOLEAN
  BY DEF TypeOK, WriteBuf
<1> QED
  BY <1>1, <1>2, <1>3, <1>4 DEF WriteBuf

\* a part of a sequence of pieces
LEMMA PartTypes ==
  ASSUME NEW S, NEW s \in Seq(S), NEW n \in 0 .. Len(s)
  PROVE  /\ SubSeq(s, 1, n) \in Seq(S) /\ Len(SubSeq(s, 1, n)) = n
         /\ \A i \in 1 .. n : SubSeq(s, 1, n)[i] = s[i]
         /\ SubSeq(s, n + 1, Len(s)) \in Seq(S)
<1>1. n \in Int /\ Len(s) \in Nat /\ n + 1 \in Int
  OBVIOUS
<1>2. (\A i \in 1 .. n : s[i] \in S) /\ (\A i \in n + 1 .. Len(s) : s[i] \in S)
  BY <1>1, ElementOfSeq
<1>3. /\ SubSeq(s, 1, n) \in Seq(S)
      /\ Len(SubSeq(s, 1, n)) = IF 1 <= n THEN n - 1 + 1 ELSE 0
      /\ \A i \in 1 .. n - 1 + 1 : SubSeq(s, 1, n)[i] = s[1 + i - 1]
  BY <1>1, <1>2, SubSeqProperties
<1>4. SubSeq(s, n + 1, Len(s)) \in Seq(S)
  BY <1>1, <1>2, SubSeqProperties
<1> QED
  BY <1>1, <1>3, <1>4

(***************************************************************************)
(* The variables keep their types: the buffers and the wire only ever hold *)
(* pieces that were written to the connection.                             *)
(***************************************************************************)
THEOREM TypeCorrect == Spec => []TypeOK
<1>1. Init => TypeOK
  <2> SUFFICES ASSUME Init PROVE TypeOK
    OBVIOUS
  <2>1. {stream, backlog, wire} \subseteq Seq(1 .. said)
    BY EmptySeq DEF Init
  <2> QED
    BY <2>1 DEF Init, TypeOK
<1>2. TypeOK /\ [Next]_vars => TypeOK'
  <2> SUFFICES ASSUME TypeOK, [Next]_vars PROVE TypeOK'
    OBVIOUS
  <2>e. <<>> \in Seq(1 .. said) /\ <<>> \in Seq(1 .. said')
    BY EmptySeq
  <2>1. CASE Add
    BY <2>1 DEF Add, TypeOK
  <2>2. CASE Write
    <3>1. wire \in Seq(1 .. said')
      BY <2>2, WriteBufTypes, MoreSaid DEF Write, TypeOK
    <3> QED
      BY <2>2, <3>1, WriteBufTypes DEF Write, TypeOK
  <2>3. CASE FlushDone
    <3>1. wire \o stream \in Seq(1 .. said)
      BY ConcatProperties DEF TypeOK
    <3>2. stray' \in BOOLEAN
      BY <2>3 DEF FlushDone, TypeOK
    <3>3. flushing' \in BOOLEAN /\ {stream', backlog'} \subseteq Seq(1 .. said)
      BY <2>3, <2>e DEF FlushDone, Refill, TypeOK
    <3> QED
      BY <2>3, <3>1, <3>2, <3>3 DEF FlushDone, TypeOK
  <2>4. CASE FlushFailed
    <3>1. PICK n \in 0 .. Len(stream) :
            /\ wire' = wire \o SubSeq(stream, 1, n)
            /\ stream' = SubSeq(stream, n + 1, Len(stream))
      <4>1. 0 \in 0 .. Len(stream)
        BY DEF TypeOK
      <4> QED
        BY <2>4, <4>1 DEF FlushFailed
    <3>2. stream \in Seq(1 .. said) /\ wire \in Seq(1 .. said)
      BY DEF TypeOK
    <3>3. wire' \in Seq(1 .. said) /\ stream' \in Seq(1 .. said)
      BY <3>1, <3>2, PartTypes, ConcatProperties
    <3>4. stray' \in BOOLEAN
      BY <2>4 DEF FlushFailed, TypeOK
    <3> QED
      BY <2>4, <3>3, <3>4 DEF FlushFailed, TypeOK
  <2>5. CASE ReadData
    <3>1. CASE WriteBuf /\ UNCHANGED <<life, reading, wire, broken, stray>>
      <4>1. wire \in Seq(1 .. said')
        BY <3>1, WriteBufTypes, MoreSaid DEF TypeOK
      <4> QED
        BY <3>1, <4>1, WriteBufTypes DEF TypeOK
    <3>2. CASE Remove /\ stray' = TRUE
               /\ UNCHANGED <<stream, flushing, wire, broken, said>>
      BY <3>2, <2>e DEF Remove, TypeOK
    <3> QED
      BY <2>5, <3>1, <3>2 DEF ReadData
  <2>6. CASE ReadEnd
    <3>1. PICK n \in {0, 1, 2} :
            /\ said' = said + n
            /\ stream' = IF n = 0 \/ flushing THEN stream
                         ELSE Append(stream, said + 1)
            /\ flushing' = (flushing \/ n > 0)
      BY <2>6 DEF ReadEnd
    <3>2. said \in Nat /\ said' \in Nat /\ said <= said'
      BY <3>1 DEF TypeOK
    <3>3. stream \in Seq(1 .. said') /\ wire \in Seq(1 .. said')
      BY <3>2, MoreSaid DEF TypeOK
    <3>4. n # 0 => said + 1 \in 1 .. said'
      BY <3>1, <3>2
    <3>5. stream' \in Seq(1 .. said')
      <4>1. CASE n = 0 \/ flushing
        BY <3>1, <3>3, <4>1
      <4>2. CASE ~(n = 0 \/ flushing)
        <5>1. stream' = Append(stream, said + 1)
          BY <3>1, <4>2
        <5> QED
          BY <3>3, <3>4, <4>2, <5>1
      <4> QED
        BY <4>1, <4>2
    <3>6. flushing' \in BOOLEAN /\ stray' \in BOOLEAN
      <4>1. PICK dropped \in {FALSE, HangsUp} : stray' = (stray \/ dropped)
        BY <2>6 DEF ReadEnd
      <4>2. stray' \in BOOLEAN
        BY <4>1 DEF TypeOK
      <4>3. flushing' \in BOOLEAN
        BY <3>1 DEF TypeOK
      <4> QED
        BY <4>2, <4>3
    <3>7. life' = "freed" /\ reading' = FALSE /\ backlog' = <<>>
          /\ UNCHANGED <<wire, broken>>
      BY <2>6 DEF ReadEnd, Remove
    <3> QED
      BY <2>e, <3>2, <3>3, <3>5, <3>6, <3>7 DEF TypeOK
  <2>7. CASE UNCHANGED vars
    BY <2>7 DEF vars, TypeOK
  <2> QED
    BY <2>1, <2>2, <2>3, <2>4, <2>5, <2>6, <2>7 DEF Next
<1> QED
  BY <1>1, <1>2, PTL DEF Spec

-----------------------------------------------------------------------------
(***************************************************************************)
(* The inductive invariant behind the order.  While the socket works, the  *)
(* stream continues what is on the wire and the backlog what is in the     *)
(* stream; the wire never gets ahead of what was said.                     *)
(***************************************************************************)
From(s, a) == \A i \in 1 .. Len(s) : s[i] = a + i

WireInv == From(wire, 0) /\ Len(wire) <= said

StreamInv == ~broken => /\ From(stream, Len(wire))
                        /\ Len(wire) + Len(stream) <= said

BacklogInv ==
  ~broken /\ life # "freed" =>
    /\ From(backlog, Len(wire) + Len(stream))
    /\ Len(wire) + Len(stream) + Len(backlog) = said

FreshInv == life = "none" =>
              said = 0 /\ stream = <<>> /\ backlog = <<>> /\ wire = <<>>

OInv ==
  /\ TypeOK /\ WireInv /\ StreamInv /\ BacklogInv /\ FreshInv
  /\ NothingStranded

LEMMA InitOInv == Init => OInv
<1> SUFFICES ASSUME Init PROVE OInv
  OBVIOUS
<1>1. TypeOK
  <2>1. {stream, backlog, wire} \subseteq Seq(1 .. said)
    BY EmptySeq DEF Init
  <2> QED
    BY <2>1 DEF Init, TypeOK
<1>2. Len(<<>>) = 0 /\ \A a \in Nat : From(<<>>, a)
  BY DEF From
<1>3. /\ stream = <<>> /\ backlog = <<>> /\ wire = <<>> /\ said = 0
      /\ life = "none" /\ ~broken
  BY DEF Init
<1> QED
  BY <1>1, <1>2, <1>3
     DEF OInv, WireInv, StreamInv, BacklogInv, FreshInv, NothingStranded

\* the lengths are numbers
LEMMA Lengths ==
  ASSUME TypeOK
  PROVE  /\ said \in Nat
         /\ stream \in Seq(Nat) /\ backlog \in Seq(Nat) /\ wire \in Seq(Nat)
         /\ Len(stream) \in Nat /\ Len(backlog) \in Nat /\ Len(wire) \in Nat
<1>1. said \in Nat /\ 1 .. said \subseteq Nat
  BY DEF TypeOK
<1>2. stream \in Seq(Nat) /\ backlog \in Seq(Nat) /\ wire \in Seq(Nat)
  BY <1>1, SeqMonotonic DEF TypeOK
<1> QED
  BY <1>1, <1>2

\* an empty sequence is one of length zero
LEMMA Emptiness == ASSUME NEW s \in Seq(Nat) PROVE s = <<>> <=> Len(s) = 0
BY EmptySeq

\* the next piece continues a sequence
LEMMA NextPiece ==
  ASSUME NEW s \in Seq(Nat), NEW a \in Nat, From(s, a)
  PROVE  /\ From(Append(s, a + Len(s) + 1), a)
         /\ Len(Append(s, a + Len(s) + 1)) = Len(s) + 1
BY DEF From

\* a sequence that continues another makes one with it
LEMMA Joined ==
  ASSUME NEW s \in Seq(Nat), NEW t \in Seq(Nat), NEW a \in Nat,
         From(s, a), From(t, a + Len(s))
  PROVE  /\ From(s \o t, a) /\ s \o t \in Seq(Nat)
         /\ Len(s \o t) = Len(s) + Len(t)
<1>1. /\ s \o t \in Seq(Nat)
      /\ Len(s \o t) = Len(s) + Len(t)
      /\ \A i \in 1 .. Len(s) + Len(t) : (s \o t)[i] =
           IF i <= Len(s) THEN s[i] ELSE t[i - Len(s)]
  BY ConcatProperties
<1>2. Len(s) \in Nat /\ Len(t) \in Nat
  OBVIOUS
<1>3. ASSUME NEW i \in 1 .. Len(s) + Len(t) PROVE (s \o t)[i] = a + i
  <2>1. CASE i <= Len(s)
    BY <1>1, <1>2, <2>1 DEF From
  <2>2. CASE i > Len(s)
    <3>1. i - Len(s) \in 1 .. Len(t)
      BY <1>2, <2>2
    <3> QED
      BY <1>1, <1>2, <2>2, <3>1 DEF From
  <2> QED
    BY <1>2, <2>1, <2>2
<1> QED
  BY <1>1, <1>3 DEF From

\* and so does the beginning of it
LEMMA JoinedPart ==
  ASSUME NEW s \in Seq(Nat), NEW t \in Seq(Nat), NEW a \in Nat,
         NEW n \in 0 .. Len(t), From(s, a), From(t, a + Len(s))
  PROVE  /\ From(s \o SubSeq(t, 1, n), a) /\ s \o SubSeq(t, 1, n) \in Seq(Nat)
         /\ Len(s \o SubSeq(t, 1, n)) = Len(s) + n
<1>1. /\ SubSeq(t, 1, n) \in Seq(Nat) /\ Len(SubSeq(t, 1, n)) = n
      /\ \A i \in 1 .. n : SubSeq(t, 1, n)[i] = t[i]
  BY PartTypes
<1>2. From(SubSeq(t, 1, n), a + Len(s))
  BY <1>1 DEF From
<1> QED
  BY <1>1, <1>2, Joined

-----------------------------------------------------------------------------
LEMMA WriteBufKeeps ==
  ASSUME OInv, life = "live", WriteBuf, UNCHANGED <<life, wire, broken>>
  PROVE  WireInv' /\ StreamInv' /\ BacklogInv' /\ NothingStranded'
<1> USE Lengths DEF OInv
<1>1. said' = said + 1 /\ WireInv'
  BY DEF WriteBuf, WireInv
<1>2. CASE broken
  BY <1>1, <1>2 DEF StreamInv, BacklogInv, NothingStranded
<1>3. CASE ~broken /\ flushing
  <2>1. backlog' = Append(backlog, said + 1) /\ UNCHANGED <<stream, flushing>>
    BY <1>1, <1>3 DEF WriteBuf
  <2>2. /\ From(backlog, Len(wire) + Len(stream))
        /\ said = Len(wire) + Len(stream) + Len(backlog)
        /\ From(stream, Len(wire)) /\ Len(wire) + Len(stream) <= said
    BY <1>3 DEF BacklogInv, StreamInv
  <2>3. /\ From(backlog', Len(wire) + Len(stream))
        /\ Len(backlog') = Len(backlog) + 1
    BY <2>1, <2>2, NextPiece
  <2> QED
    BY <1>1, <1>3, <2>1, <2>2, <2>3
       DEF StreamInv, BacklogInv, NothingStranded, From
<1>4. CASE ~broken /\ ~flushing
  <2>1. /\ stream' = Append(stream, said + 1) /\ flushing' = TRUE
        /\ UNCHANGED backlog
    BY <1>1, <1>4 DEF WriteBuf
  <2>2. Len(stream) = 0 /\ Len(backlog) = 0
    BY <1>4, Emptiness DEF NothingStranded
  <2>3. Len(wire) = said /\ From(stream, Len(wire))
    BY <1>4, <2>2 DEF BacklogInv, StreamInv
  <2>4. From(stream', Len(wire)) /\ Len(stream') = 1
    <3>1. stream' = Append(stream, Len(wire) + Len(stream) + 1)
      BY <2>1, <2>2, <2>3
    <3>2. /\ From(stream', Len(wire)) /\ Len(stream') = Len(stream) + 1
      BY <3>1, <2>3, NextPiece
    <3> QED
      BY <3>2, <2>2
  <2> QED
    BY <1>1, <1>4, <2>1, <2>2, <2>3, <2>4
       DEF StreamInv, BacklogInv, NothingStranded, From
<1> QED
  BY <1>2, <1>3, <1>4

LEMMA FlushDoneKeeps ==
  ASSUME OInv, FlushDone
  PROVE  WireInv' /\ StreamInv' /\ BacklogInv' /\ NothingStranded'
<1> USE Lengths DEF OInv
<1>1. /\ ~broken /\ ~broken' /\ wire' = wire \o stream /\ said' = said
      /\ life' = life
  BY DEF FlushDone
<1>2. /\ From(wire', 0) /\ Len(wire') = Len(wire) + Len(stream)
      /\ Len(wire') <= said
  BY <1>1, Joined DEF WireInv, StreamInv
<1>3. CASE life = "live" /\ backlog # <<>>
  <2>1. stream' = backlog /\ flushing' = TRUE /\ backlog' = <<>>
    BY <1>3 DEF FlushDone, Refill
  <2>2. /\ From(backlog, Len(wire'))
        /\ Len(wire') + Len(backlog) = said
    BY <1>1, <1>2, <1>3 DEF BacklogInv
  <2>3. Len(backlog') = 0
    BY <2>1
  <2> QED
    BY <1>1, <1>2, <2>1, <2>2, <2>3
       DEF WireInv, StreamInv, BacklogInv, NothingStranded, From
<1>4. CASE ~(life = "live" /\ backlog # <<>>)
  <2>1. stream' = <<>> /\ flushing' = FALSE /\ backlog' = backlog
    BY <1>4 DEF FlushDone, Refill
  <2>2. Len(stream') = 0
    BY <2>1
  <2>3. life # "freed" => Len(backlog) = 0
    BY <1>4, Emptiness DEF FreshInv, TypeOK
  <2>4. life = "live" => backlog = <<>>
    BY <1>4
  <2>5. life # "freed" => Len(wire') = said
    BY <1>1, <1>2, <2>3 DEF BacklogInv
  <2> QED
    BY <1>1, <1>2, <2>1, <2>2, <2>3, <2>4, <2>5
       DEF WireInv, StreamInv, BacklogInv, NothingStranded, From
<1> QED
  BY <1>3, <1>4

LEMMA FlushFailedKeeps ==
  ASSUME OInv, FlushFailed
  PROVE  WireInv' /\ StreamInv' /\ BacklogInv' /\ NothingStranded'
<1> USE Lengths DEF OInv
<1>1. broken' /\ said' = said
  BY DEF FlushFailed
<1>2. PICK n \in IF broken THEN {0} ELSE 0 .. Len(stream) :
        wire' = wire \o SubSeq(stream, 1, n)
  BY DEF FlushFailed
<1>3. WireInv'
  <2>1. CASE broken
    <3>1. n = 0 /\ SubSeq(stream, 1, n) = <<>>
      BY <1>2, <2>1, SubSeqEmpty
    <3>2. wire' = wire
      BY <1>2, <3>1, ConcatEmptySeq
    <3> QED
      BY <1>1, <3>2 DEF WireInv
  <2>2. CASE ~broken
    <3>1. n \in 0 .. Len(stream)
      BY <1>2, <2>2
    <3>2. From(wire', 0) /\ Len(wire') = Len(wire) + n
      BY <1>2, <2>2, <3>1, JoinedPart DEF WireInv, StreamInv
    <3> QED
      BY <1>1, <2>2, <3>1, <3>2 DEF WireInv, StreamInv
  <2> QED
    BY <2>1, <2>2
<1> QED
  BY <1>1, <1>3 DEF StreamInv, BacklogInv, NothingStranded

LEMMA ReadEndKeeps ==
  ASSUME OInv, ReadEnd
  PROVE  WireInv' /\ StreamInv' /\ BacklogInv' /\ NothingStranded'
<1> USE Lengths DEF OInv
<1>1. /\ life = "live" /\ life' = "freed" /\ UNCHANGED <<wire, broken>>
  BY DEF ReadEnd, Remove
<1>2. PICK n \in {0, 1, 2} :
        /\ said' = said + n
        /\ stream' = IF n = 0 \/ flushing THEN stream
                     ELSE Append(stream, said + 1)
  BY DEF ReadEnd
<1>3. WireInv'
  BY <1>1, <1>2 DEF WireInv
<1>4. BacklogInv' /\ NothingStranded'
  BY <1>1 DEF BacklogInv, NothingStranded
<1>5. StreamInv'
  <2>1. CASE broken
    BY <1>1, <2>1 DEF StreamInv
  <2>2. CASE ~broken /\ (n = 0 \/ flushing)
    BY <1>1, <1>2, <2>2 DEF StreamInv
  <2>3. CASE ~broken /\ ~(n = 0 \/ flushing)
    <3>1. stream' = Append(stream, said + 1) /\ said' >= said + 1
      BY <1>2, <2>3
    <3>2. Len(stream) = 0 /\ Len(backlog) = 0
      BY <1>1, <2>3, Emptiness DEF NothingStranded
    <3>3. Len(wire) = said /\ From(stream, Len(wire))
      BY <1>1, <2>3, <3>2 DEF BacklogInv, StreamInv
    <3>4. From(stream', Len(wire)) /\ Len(stream') = 1
      <4>1. stream' = Append(stream, Len(wire) + Len(stream) + 1)
        BY <3>1, <3>2, <3>3
      <4>2. /\ From(stream', Len(wire)) /\ Len(stream') = Len(stream) + 1
        BY <4>1, <3>3, NextPiece
      <4> QED
        BY <4>2, <3>2
    <3> QED
      BY <1>1, <1>2, <3>1, <3>3, <3>4 DEF StreamInv, From
  <2> QED
    BY <2>1, <2>2, <2>3
<1> QED
  BY <1>3, <1>4, <1>5

LEMMA NextOInv == OInv /\ TypeOK' /\ [Next]_vars => OInv'
<1> SUFFICES ASSUME OInv, TypeOK', [Next]_vars PROVE OInv'
  OBVIOUS
<1>f. ASSUME life' # "none" PROVE FreshInv'
  BY <1>f DEF FreshInv
<1>1. CASE Add
  <2>1. /\ life = "none" /\ life' = "live"
        /\ UNCHANGED <<stream, flushing, backlog, wire, broken, said>>
    BY <1>1 DEF Add
  <2> QED
    BY <2>1 DEF OInv, WireInv, StreamInv, BacklogInv, FreshInv,
                NothingStranded, From
<1>2. CASE Write
  BY <1>2, <1>f, WriteBufKeeps DEF Write, OInv
<1>3. CASE FlushDone
  <2>1. life' = life /\ flushing
    BY <1>3 DEF FlushDone
  <2>2. CASE life = "none"
    <3>1. wire = <<>> /\ stream = <<>> /\ backlog = <<>> /\ said = 0
      BY <2>2 DEF OInv, FreshInv
    <3>2. wire' = <<>> /\ stream' = <<>> /\ backlog' = <<>> /\ said' = 0
      BY <1>3, <2>2, <3>1 DEF FlushDone, Refill
    <3> QED
      BY <1>3, <3>2, FlushDoneKeeps DEF OInv, FreshInv
  <2> QED
    BY <1>3, <1>f, <2>1, <2>2, FlushDoneKeeps DEF OInv
<1>4. CASE FlushFailed
  <2>1. life' = life
    BY <1>4 DEF FlushFailed
  <2>2. CASE life = "none"
    <3>1. wire = <<>> /\ stream = <<>> /\ backlog = <<>> /\ said = 0
      BY <2>2 DEF OInv, FreshInv
    <3>2. UNCHANGED <<backlog, said>>
      BY <1>4 DEF FlushFailed
    <3>3. wire' = <<>> /\ stream' = <<>>
      BY <1>4, <3>1 DEF FlushFailed
    <3> QED
      BY <1>4, <3>1, <3>2, <3>3, FlushFailedKeeps DEF OInv, FreshInv
  <2> QED
    BY <1>4, <1>f, <2>1, <2>2, FlushFailedKeeps DEF OInv
<1>5. CASE ReadData
  <2>1. CASE WriteBuf /\ UNCHANGED <<life, reading, wire, broken, stray>>
    BY <1>5, <1>f, <2>1, WriteBufKeeps DEF ReadData, OInv
  <2>2. CASE Remove /\ UNCHANGED <<stream, flushing, wire, broken, said>>
    <3>1. life' = "freed"
      BY <2>2 DEF Remove
    <3> QED
      BY <1>f, <2>2, <3>1 DEF OInv, WireInv, StreamInv, BacklogInv,
                              NothingStranded, From
  <2> QED
    BY <1>5, <2>1, <2>2 DEF ReadData
<1>6. CASE ReadEnd
  <2>1. life' = "freed"
    BY <1>6 DEF ReadEnd, Remove
  <2> QED
    BY <1>6, <1>f, <2>1, ReadEndKeeps DEF OInv
<1>7. CASE UNCHANGED vars
  BY <1>7 DEF vars, OInv, WireInv, StreamInv, BacklogInv, FreshInv,
              NothingStranded, From
<1> QED
  BY <1>1, <1>2, <1>3, <1>4, <1>5, <1>6, <1>7 DEF Next

\* The invariant holds in every reachable state.
LEMMA OrderInvariance == Spec => []OInv
<1>1. OInv /\ TypeOK' /\ [Next]_vars => OInv'
  BY NextOInv
<1> QED
  BY <1>1, InitOInv, TypeCorrect, PTL DEF Spec

(***************************************************************************)
(* While the socket works, data in the stream or the backlog always has a  *)
(* flush under way that will take it out (done_async_write).               *)
(***************************************************************************)
THEOREM NothingWaitsForNothing == Spec => []NothingStranded
<1>1. OInv => NothingStranded
  BY DEF OInv
<1> QED
  BY <1>1, OrderInvariance, PTL

-----------------------------------------------------------------------------
(***************************************************************************)
(* The refinement: what has been said is the sequence of the numbers.      *)
(***************************************************************************)
SaidSeq(n) == [i \in 1 .. n |-> i]

LEMMA SaidSeqFacts ==
  ASSUME NEW n \in Nat
  PROVE  SaidSeq(n) \in Seq(Nat) /\ Len(SaidSeq(n)) = n /\ From(SaidSeq(n), 0)
BY DEF SaidSeq, From

\* a sequence is known by its first number and its length
LEMMA SameNumbers ==
  ASSUME NEW a \in Nat, NEW s \in Seq(Nat), NEW t \in Seq(Nat),
         From(s, a), From(t, a), Len(s) = Len(t)
  PROVE  s = t
<1>1. ASSUME NEW i \in 1 .. Len(s) PROVE s[i] = t[i]
  <2>1. s[i] = a + i
    BY DEF From
  <2>2. t[i] = a + i
    BY DEF From
  <2> QED
    BY <2>1, <2>2
<1> QED
  BY <1>1, SeqEqual

\* saying more appends to it
LEMMA SayOne ==
  ASSUME NEW n \in Nat
  PROVE  SaidSeq(n + 1) = Append(SaidSeq(n), Len(SaidSeq(n)) + 1)
<1>1. /\ SaidSeq(n) \in Seq(Nat) /\ Len(SaidSeq(n)) = n
      /\ From(SaidSeq(n), 0)
  BY SaidSeqFacts
<1> DEFINE w == Append(SaidSeq(n), n + 1)
<1>2. w \in Seq(Nat) /\ From(w, 0) /\ Len(w) = n + 1
  BY <1>1 DEF From
<1>3. /\ SaidSeq(n + 1) \in Seq(Nat) /\ Len(SaidSeq(n + 1)) = n + 1
      /\ From(SaidSeq(n + 1), 0)
  BY SaidSeqFacts
<1> HIDE DEF w
<1>4. w = SaidSeq(n + 1)
  BY <1>2, <1>3, SameNumbers
<1> QED
  BY <1>1, <1>4 DEF w

LEMMA SayMore ==
  ASSUME NEW n \in Nat, NEW k \in Nat
  PROVE  SaidSeq(n + k) = SaidSeq(n) \o [i \in 1 .. k |-> Len(SaidSeq(n)) + i]
<1>1. /\ SaidSeq(n) \in Seq(Nat) /\ Len(SaidSeq(n)) = n
      /\ From(SaidSeq(n), 0)
  BY SaidSeqFacts
<1> DEFINE rest == [i \in 1 .. k |-> n + i]
<1>2. rest \in Seq(Nat) /\ Len(rest) = k /\ From(rest, n)
  BY DEF From
<1> HIDE DEF rest
<1>3. From(rest, 0 + Len(SaidSeq(n)))
  BY <1>1, <1>2
<1>4. /\ SaidSeq(n) \o rest \in Seq(Nat) /\ From(SaidSeq(n) \o rest, 0)
      /\ Len(SaidSeq(n) \o rest) = Len(SaidSeq(n)) + Len(rest)
  BY <1>1, <1>2, <1>3, Joined
<1>5. n + k \in Nat /\ Len(SaidSeq(n) \o rest) = n + k
  BY <1>1, <1>2, <1>4
<1>6. SaidSeq(n) \o rest = SaidSeq(n + k)
  BY <1>4, <1>5, SaidSeqFacts, SameNumbers
<1> QED
  BY <1>1, <1>6 DEF rest

\* a sequence of the numbers from 1 is a beginning of it
LEMMA Beginning ==
  ASSUME NEW w \in Seq(Nat), NEW n \in Nat, From(w, 0), Len(w) <= n
  PROVE  w = SubSeq(SaidSeq(n), 1, Len(w))
<1>1. /\ SaidSeq(n) \in Seq(Nat) /\ Len(SaidSeq(n)) = n
      /\ From(SaidSeq(n), 0) /\ Len(w) \in 0 .. Len(SaidSeq(n))
  BY SaidSeqFacts
<1> DEFINE part == SubSeq(SaidSeq(n), 1, Len(w))
<1>2. /\ part \in Seq(Nat) /\ Len(part) = Len(w)
      /\ \A i \in 1 .. Len(w) : part[i] = SaidSeq(n)[i]
  BY <1>1, PartTypes
<1> HIDE DEF part
<1>3. From(part, 0)
  BY <1>1, <1>2 DEF From
<1>4. part = w
  BY <1>2, <1>3, SameNumbers
<1> QED
  BY <1>4 DEF part

\* what the wire holds is the beginning of what was said
LEMMA WireBegins ==
  ASSUME TypeOK, WireInv
  PROVE  /\ Len(SaidSeq(said)) = said /\ Len(wire) \in 0 .. said
         /\ wire = SubSeq(SaidSeq(said), 1, Len(wire))
<1>1. /\ said \in Nat /\ wire \in Seq(Nat) /\ Len(wire) \in Nat
      /\ From(wire, 0) /\ Len(wire) <= said
  BY Lengths DEF WireInv
<1> QED
  BY <1>1, Beginning, SaidSeqFacts

LEMMA InitMaps == Init => Ordered!Init
<1> SUFFICES ASSUME Init PROVE Ordered!Init
  OBVIOUS
<1>1. said = 0 /\ wire = <<>> /\ (life = "live") = FALSE
  BY DEF Init
<1>2. [i \in 1 .. said |-> i] = <<>>
  BY <1>1
<1> QED
  BY <1>1, <1>2 DEF Ordered!Init

\* a write, from wherever it comes, is a Say
LEMMA WriteMaps ==
  ASSUME OInv, life = "live", WriteBuf, UNCHANGED <<life, wire>>
  PROVE  Ordered!Say
<1>1. said \in Nat /\ said' = said + 1
  BY Lengths DEF OInv, WriteBuf
<1>2. SaidSeq(said') = Append(SaidSeq(said), Len(SaidSeq(said)) + 1)
  BY <1>1, SayOne
<1> QED
  BY <1>2 DEF Ordered!Say, SaidSeq

\* a flush, however it ends, is a Deliver
LEMMA FlushMaps ==
  ASSUME OInv, TypeOK', WireInv', UNCHANGED <<life, said>>,
         Len(wire) <= Len(wire')
  PROVE  Ordered!Deliver
<1>1. /\ Len(SaidSeq(said)) = said /\ Len(wire') \in 0 .. said
      /\ wire' = SubSeq(SaidSeq(said), 1, Len(wire'))
  <2>1. /\ said \in Nat /\ wire' \in Seq(Nat) /\ From(wire', 0)
        /\ Len(wire') <= said
    <3>1. wire' \in Seq(1 .. said) /\ said \in Nat
      BY DEF OInv, TypeOK
    <3>2. wire' \in Seq(Nat)
      BY <3>1, SeqMonotonic
    <3> QED
      BY <3>1, <3>2 DEF WireInv
  <2> QED
    BY <2>1, Beginning, SaidSeqFacts
<1>2. Len(wire') \in Len(wire) .. Len(SaidSeq(said))
  BY <1>1, Lengths DEF OInv
<1>3. \E n \in Len(wire) .. Len(SaidSeq(said)) :
        wire' = SubSeq(SaidSeq(said), 1, n)
  BY <1>1, <1>2
<1>4. SaidSeq(said') = SaidSeq(said) /\ (life = "live")' = (life = "live")
  OBVIOUS
<1> QED
  BY <1>3, <1>4 DEF Ordered!Deliver, SaidSeq

\* the end is a Close
LEMMA CloseMaps ==
  ASSUME OInv, life = "live", life' = "freed", wire' = wire,
         NEW n \in {0, 1, 2}, said' = said + n
  PROVE  Ordered!Close
<1>1. said \in Nat /\ n \in Nat
  BY Lengths DEF OInv
<1>2. SaidSeq(said') = SaidSeq(said) \o [i \in 1 .. n |-> Len(SaidSeq(said)) + i]
  BY <1>1, SayMore
<1>3. (life = "live") = TRUE /\ (life = "live")' = FALSE
  OBVIOUS
<1> QED
  BY <1>2, <1>3 DEF Ordered!Close, SaidSeq

LEMMA NextMaps ==
  ASSUME OInv, TypeOK', WireInv', [Next]_vars
  PROVE  [Ordered!Next]_(Ordered!vars)
<1>1. CASE Add
  <2>1. /\ said = 0 /\ said' = 0 /\ wire' = wire
        /\ (life = "live") = FALSE /\ (life = "live")' = TRUE
    BY <1>1 DEF Add, OInv, FreshInv
  <2>2. /\ [i \in 1 .. said |-> i] = <<>>
        /\ [i \in 1 .. said |-> i]' = [i \in 1 .. said |-> i]
    BY <2>1
  <2>3. Ordered!Open
    BY <2>1, <2>2 DEF Ordered!Open
  <2> QED
    BY <2>3 DEF Ordered!Next
<1>2. CASE Write
  <2>1. Ordered!Say
    BY <1>2, WriteMaps DEF Write
  <2> QED
    BY <2>1 DEF Ordered!Next
<1>3. CASE FlushDone
  <2>1. wire' = wire \o stream /\ UNCHANGED <<life, said>>
    BY <1>3 DEF FlushDone
  <2>2. Len(wire) <= Len(wire')
    BY <2>1, Lengths, ConcatProperties DEF OInv
  <2>3. Ordered!Deliver
    BY <2>1, <2>2, FlushMaps
  <2> QED
    BY <2>3 DEF Ordered!Next
<1>4. CASE FlushFailed
  <2>1. UNCHANGED <<life, said>>
    BY <1>4 DEF FlushFailed
  <2>2. PICK n \in 0 .. Len(stream) : wire' = wire \o SubSeq(stream, 1, n)
    <3>1. 0 \in 0 .. Len(stream)
      BY Lengths DEF OInv
    <3> QED
      BY <1>4, <3>1 DEF FlushFailed
  <2>3. wire \in Seq(Nat) /\ stream \in Seq(Nat)
    BY Lengths DEF OInv
  <2>4. SubSeq(stream, 1, n) \in Seq(Nat) /\ Len(SubSeq(stream, 1, n)) = n
    BY <2>3, PartTypes
  <2>5. Len(wire) <= Len(wire')
    BY <2>2, <2>3, <2>4, ConcatProperties
  <2>6. Ordered!Deliver
    BY <2>1, <2>5, FlushMaps
  <2> QED
    BY <2>6 DEF Ordered!Next
<1>5. CASE ReadData
  <2>1. life = "live"
    BY <1>5 DEF ReadData
  <2>2. CASE WriteBuf /\ UNCHANGED <<life, reading, wire, broken, stray>>
    <3>1. Ordered!Say
      BY <2>1, <2>2, WriteMaps
    <3> QED
      BY <3>1 DEF Ordered!Next
  <2>3. CASE Remove /\ UNCHANGED <<stream, flushing, wire, broken, said>>
    <3>1. life' = "freed" /\ said' = said + 0 /\ 0 \in {0, 1, 2}
      BY <2>3, Lengths DEF Remove, OInv
    <3>2. Ordered!Close
      BY <2>1, <2>3, <3>1, CloseMaps
    <3> QED
      BY <3>2 DEF Ordered!Next
  <2> QED
    BY <1>5, <2>2, <2>3 DEF ReadData
<1>6. CASE ReadEnd
  <2>1. life = "live" /\ life' = "freed" /\ wire' = wire
    BY <1>6 DEF ReadEnd, Remove
  <2>2. PICK n \in {0, 1, 2} : said' = said + n
    BY <1>6 DEF ReadEnd
  <2>3. Ordered!Close
    BY <2>1, <2>2, CloseMaps
  <2> QED
    BY <2>3 DEF Ordered!Next
<1>7. CASE UNCHANGED vars
  BY <1>7 DEF vars, Ordered!vars
<1> QED
  BY <1>1, <1>2, <1>3, <1>4, <1>5, <1>6, <1>7 DEF Next

(***************************************************************************)
(* The stream, the backlog and the flush implement OrderedStream: whatever *)
(* the order of writes, flushes, input and the end, the peer gets what was *)
(* written in order, once, and with no gap.                                *)
(***************************************************************************)
THEOREM Refinement == Spec => KeepsOrder
<1>1. OInv /\ OInv' /\ [Next]_vars => [Ordered!Next]_(Ordered!vars)
  BY NextMaps DEF OInv
<1> QED
  BY <1>1, InitMaps, OrderInvariance, PTL DEF Spec, KeepsOrder, Ordered!Spec

-----------------------------------------------------------------------------
(***************************************************************************)
(* How the connection came about, Starter, for lists of servers of every   *)
(* length: what the plugin is told, and which servers were tried before.   *)
(* The argument is AtFollows: current_server is always one past the last   *)
(* server tried.                                                           *)
(***************************************************************************)
LastTried == tried[Len(tried)]

AtFollows ==
  /\ op = "new" => tried = <<>> /\ told = <<>> /\ servers = conf.servers
                   /\ ~freed /\ ~crashed
  /\ op \in {"connect", "handshake"} =>
       /\ tried # <<>> /\ servers >= 1
       /\ at <= servers + 1
       /\ at >= 1 => LastTried = at - 1
       /\ at < 1 => LastTried = 0
       /\ at = Dangling => conf.servers = 0

StarterInv ==
  StarterTypeOK /\ OneOutcome /\ AllTried /\ AtFollows

-----------------------------------------------------------------------------
\* a starter begins with nothing tried
LEMMA InitStarter ==
  ASSUME StarterInit
  PROVE  StarterInv
<1> USE StarterAssumption
<1>1. StarterTypeOK
  <2>1. conf \in Confs /\ servers \in -1 .. MaxServers
    BY DEF StarterInit, Confs
  <2>2. tried \in Seq(Targets) /\ told \in Seq({"connected", "failed"})
    BY DEF StarterInit
  <2>3. /\ servers \in -1 .. MaxServers + 1
        /\ at \in -1 .. MaxServers + 2
    BY <2>1 DEF StarterInit
  <2> QED BY <2>1, <2>2, <2>3 DEF StarterInit, StarterTypeOK
<1>2. OneOutcome /\ AllTried /\ AtFollows
  BY DEF StarterInit, OneOutcome, AllTried, AtFollows
<1> QED BY <1>1, <1>2 DEF StarterInv

\* the next server on the list is tried
LEMMA TryServerStep ==
  ASSUME StarterInv, NEW i \in Int,
         TryServer(i), op # "none", servers' = servers,
         UNCHANGED <<conf, cancelled>>,
         1 <= i, i <= servers,
         IF tried = <<>> THEN i = 1 ELSE LastTried = i - 1
  PROVE  StarterInv'
<1> USE StarterAssumption DEF NoList, Dangling
<1>1. /\ tried' = Append(tried, i) /\ tried \in Seq(Targets)
      /\ i \in Targets
  BY DEF StarterInv, StarterTypeOK, TryServer, Targets
<1>2. /\ tried' \in Seq(Targets) /\ Len(tried') = Len(tried) + 1
      /\ tried' # <<>> /\ tried'[Len(tried) + 1] = i
      /\ \A k \in 1 .. Len(tried) : tried'[k] = tried[k]
      /\ Len(tried) \in Nat
  BY <1>1
<1>3. StarterTypeOK'
  BY <1>2 DEF StarterInv, StarterTypeOK, TryServer, Targets
<1>4. OneOutcome'
  BY DEF StarterInv, StarterTypeOK, OneOutcome, TryServer
<1>5. AllTried'
  <2>1. tried'[1] \in {0, 1}
    BY <1>1, <1>2 DEF StarterInv, AllTried
  <2>2. \A k \in 1 .. Len(tried') - 1 : tried'[k + 1] = tried'[k] + 1
    <3> SUFFICES ASSUME NEW k \in 1 .. Len(tried') - 1
                 PROVE  tried'[k + 1] = tried'[k] + 1
      OBVIOUS
    <3>1. CASE k = Len(tried)
      BY <3>1, <1>1, <1>2 DEF LastTried
    <3>2. CASE k # Len(tried)
      BY <3>2, <1>1, <1>2 DEF StarterInv, AllTried
    <3> QED BY <3>1, <3>2
  <2>3. \A k \in DOMAIN tried' : tried'[k] <= servers'
    BY <1>1, <1>2 DEF StarterInv, AllTried
  <2>4. told' # <<"failed">>
    <3>1. told' = <<>> /\ Len(<<>>) # Len(<<"failed">>)
      BY DEF StarterInv, OneOutcome, TryServer
    <3> QED BY <3>1
  <2> QED BY <2>1, <2>2, <2>3, <2>4 DEF AllTried
<1>6. AtFollows'
  BY <1>1, <1>2
  DEF StarterInv, StarterTypeOK, TryServer, AtFollows, LastTried,
      Confs
<1> QED BY <1>3, <1>4, <1>5, <1>6 DEF StarterInv

\* the plugin is told how it ended
LEMMA TellStep ==
  ASSUME StarterInv,
         NEW what \in {"connected", "failed"}, Tell(what), op # "none",
         servers' = servers, UNCHANGED <<conf, cancelled>>,
         what = "failed" => \/ cancelled
                            \/ servers < 1
                            \/ conf.servers = 0
                            \/ (tried # <<>> /\ LastTried = servers)
  PROVE  StarterInv'
<1>1. told = <<>> /\ told' = <<what>>
  <2>1. told = <<>>
    BY DEF StarterInv, OneOutcome
  <2> QED BY <2>1 DEF Tell
<1>2. StarterTypeOK' /\ OneOutcome' /\ AtFollows'
  BY <1>1
  DEF StarterInv, StarterTypeOK, OneOutcome, AtFollows, Tell,
      LastTried
<1>3. AllTried'
  BY <1>1 DEF StarterInv, AllTried, Tell, LastTried
<1> QED BY <1>2, <1>3 DEF StarterInv

\* the program ends
LEMMA CrashStep ==
  ASSUME StarterInv, Crash, op # "none",
         servers' = servers, UNCHANGED <<conf, cancelled>>
  PROVE  StarterInv'
<1>1. told = <<>>
  BY DEF StarterInv, OneOutcome
<1> QED
  BY <1>1
  DEF StarterInv, StarterTypeOK, OneOutcome, AllTried,
      AtFollows, Crash, LastTried

\* done_async_connect() fails, or the handshake does
LEMMA FailedStep ==
  ASSUME StarterInv, NEW stop \in BOOLEAN,
         Failed(at, servers, stop), stop => cancelled,
         op \in {"connect", "handshake"}, servers' = servers,
         UNCHANGED <<conf, cancelled>>
  PROVE  StarterInv'
<1> USE StarterAssumption DEF NoList, Dangling
<1>1. at \in Int /\ servers \in Int /\ op # "none"
  BY DEF StarterInv, StarterTypeOK
<1>2. CASE /\ Tell("failed")
           /\ \/ stop
              \/ at > servers /\ at # NoList
              \/ at = Dangling
  BY <1>1, <1>2, TellStep DEF StarterInv, AtFollows
<1>3. CASE Crash
  BY <1>1, <1>3, CrashStep
<1>4. CASE /\ at <= servers /\ at # NoList
           /\ TryServer(IF at = Dangling THEN 1 ELSE at)
  <2>1. at = Dangling \/ at >= 1
    BY <1>4 DEF StarterInv, StarterTypeOK
  <2> QED BY <1>1, <1>4, <2>1, TryServerStep DEF StarterInv, AtFollows
<1> QED BY <1>2, <1>3, <1>4 DEF Failed

\* ekg_connection_starter_run()
LEMMA RunStep ==
  ASSUME StarterInv, Run
  PROVE  StarterInv'
<1> USE StarterAssumption DEF NoList, Dangling
<1> DEFINE n == conf.servers
           begin == IF n = -1 THEN NoList ELSE 1
<1>1. /\ n \in -1 .. MaxServers /\ servers = n /\ tried = <<>> /\ told = <<>>
      /\ op = "new" /\ ~freed /\ ~crashed /\ UNCHANGED <<conf, cancelled>>
  BY DEF Run, StarterInv, StarterTypeOK, AtFollows, Confs
<1>2. CASE servers' = servers /\ Failed(begin, n, FALSE)
  <2>1. CASE /\ Tell("failed")
             /\ \/ begin > n /\ begin # NoList
                \/ begin = Dangling
    BY <1>1, <1>2, <2>1, TellStep
  <2>2. CASE Crash
    BY <1>1, <1>2, <2>2, CrashStep
  <2>3. CASE begin = 1 /\ begin <= n /\ TryServer(1)
    BY <1>1, <1>2, <2>3, TryServerStep
  <2> QED BY <1>1, <1>2, <2>1, <2>2, <2>3 DEF Failed
<1>3. CASE /\ servers' = IF n < 1 THEN 1 ELSE n
           /\ at' = CASE n = -1 -> NoList
                      [] n = 0 -> Dangling
                      [] OTHER -> 1
           /\ op' = "connect" /\ tried' = Append(tried, 0)
           /\ UNCHANGED <<told, freed, crashed>>
  <2>1. tried' = <<0>>
    BY <1>1, <1>3
  <2>2. /\ at' \in -1 .. 1 /\ (at' = Dangling => n = 0)
        /\ servers' \in 1 .. MaxServers + 1
    BY <1>1, <1>3
  <2>3. StarterTypeOK'
    <3>1. tried' \in Seq(Targets)
      BY <2>1 DEF Targets
    <3> QED BY <1>1, <1>3, <2>2, <3>1 DEF StarterInv, StarterTypeOK
  <2>4. OneOutcome' /\ AllTried' /\ AtFollows'
    BY <1>1, <1>3, <2>1, <2>2
    DEF OneOutcome, AllTried, AtFollows, LastTried
  <2> QED BY <2>3, <2>4 DEF StarterInv
<1>4. CASE /\ servers' = servers
           /\ IF n < 1 THEN Crash ELSE TryServer(1)
  BY <1>1, <1>4, CrashStep, TryServerStep
<1> QED BY <1>2, <1>3, <1>4 DEF Run

\* each step keeps the invariant
LEMMA NextStarter ==
  ASSUME StarterInv, [StarterNext]_starterVars
  PROVE  StarterInv'
<1>1. CASE Run
  BY <1>1, RunStep
<1>2. CASE Connects
  <2>1. CASE Tell("connected")
    BY <1>2, <2>1, TellStep DEF Connects
  <2>2. CASE op' = "handshake" /\ UNCHANGED <<at, tried, told, freed, crashed>>
    BY <1>2, <2>2
    DEF Connects, StarterInv, StarterTypeOK, OneOutcome,
        AllTried, AtFollows, LastTried
  <2> QED BY <1>2, <2>1, <2>2 DEF Connects
<1>3. CASE Fails
  BY <1>3, FailedStep DEF Fails
<1>4. CASE Shakes
  BY <1>4, TellStep DEF Shakes
<1>5. CASE ShakeFails
  <2>1. CASE Failed(at, servers, FALSE)
    BY <1>5, <2>1, FailedStep DEF ShakeFails
  <2>2. CASE Crash
    BY <1>5, <2>2, CrashStep DEF ShakeFails
  <2> QED BY <1>5, <2>1, <2>2 DEF ShakeFails
<1>6. CASE Cancel
  BY <1>6
  DEF Cancel, StarterInv, StarterTypeOK, OneOutcome,
      AllTried, AtFollows, LastTried
<1>7. CASE UNCHANGED starterVars
  BY <1>7
  DEF starterVars, StarterInv, StarterTypeOK, OneOutcome,
      AllTried, AtFollows, LastTried
<1> QED BY <1>1, <1>2, <1>3, <1>4, <1>5, <1>6, <1>7 DEF StarterNext

\* the invariant that the next three follow from
THEOREM StarterInvariance ==
  StarterSpec => []StarterInv
<1>1. StarterInit => StarterInv BY InitStarter
<1>2. StarterInv /\ [StarterNext]_starterVars => StarterInv'
  BY NextStarter
<1> QED BY <1>1, <1>2, PTL DEF StarterSpec

\* every variable has its type (ekg/connections.c, the starter)
THEOREM StarterTyped ==
  StarterSpec => []StarterTypeOK
<1>1. StarterInv => StarterTypeOK BY DEF StarterInv
<1> QED BY <1>1, StarterInvariance, PTL

\* the plugin is told one thing, once (connections.c 350-373)
THEOREM OutcomeIsOne ==
  StarterSpec => []OneOutcome
<1>1. StarterInv => OneOutcome BY DEF StarterInv
<1> QED BY <1>1, StarterInvariance, PTL

\* no server is skipped, and a failure is the last one's (connections.c 350-415)
THEOREM EveryServer ==
  StarterSpec => []AllTried
<1>1. StarterInv => AllTried BY DEF StarterInv
<1> QED BY <1>1, StarterInvariance, PTL

=============================================================================
