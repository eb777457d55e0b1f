---------------------------- MODULE FramingProofs ----------------------------
(* Proofs about Framing for any base, buffer, items and writers.            *)
EXTENDS Framing, SequenceTheorems, FiniteSetTheorems, TLAPS

-----------------------------------------------------------------------------
(* Writers that share a stream without a lock.                              *)

\* Between two writes of one item its writer is not idle, and only a frame or
\* a file takes more than one.
WritersOk ==
    /\ sent \in Seq(Items)
    /\ wr = [w \in Writers |-> wr[w]]
    /\ (\E w \in Writers : wr[w].pc # "idle")
           => \E n \in DOMAIN sent : sent[n].kind # "message"

\* What a step that is none of Begin does to the writers.
LEMMA OtherSteps ==
    ASSUME [Next]_vars, \A w \in Writers, i \in Items : ~Begin(w, i)
    PROVE  /\ UNCHANGED <<sent, mixed>>
           /\ UNCHANGED wr \/ \E w \in Writers : WriterStep(w)
  <1>1. CASE \E w \in Writers : WriterStep(w)
    BY <1>1 DEF WriterStep, GoOn, WriterFails
  <1>2. CASE \E n \in 0..MaxRest : Cut(n)
    BY <1>2 DEF Cut
  <1>3. CASE \E reader \in Readers : Call(reader)
    BY <1>3 DEF Call, WritersUnchanged
  <1>4. CASE ReaderStep
    BY <1>4 DEF ReaderStep, ReadSize, HeaderUnwritten, ReadHead, ReadErrorCode, ReadData,
                FieldFails, CreateTmp, CopyPiece, PieceFails, PiecesDone, CloseTmp, RenameTmp,
                WritersUnchanged
  <1>5. CASE UNCHANGED vars
    BY <1>5 DEF vars
  <1> QED BY <1>1, <1>2, <1>3, <1>4, <1>5 DEF Next

LEMMA BeginStep ==
    ASSUME WritersOk, NEW w \in Writers, NEW i \in Items, Begin(w, i)
    PROVE  /\ WritersOk'
           /\ mixed' => mixed \/ \E n \in DOMAIN sent' : sent'[n].kind # "message"
  <1>1. /\ sent' = Append(sent, i) /\ sent \in Seq(Items)
        /\ wr' = [wr EXCEPT ![w] =
                     IF Len(Writes(i)) = 1 THEN IdleWriter
                     ELSE [pc |-> "midway", item |-> i, left |-> Tail(Writes(i))]]
        /\ mixed' = (mixed \/ \E v \in Writers : wr[v].pc # "idle")
    BY DEF Begin, Put, WritersOk
  <1>2. sent' \in Seq(Items) /\ wr' = [v \in Writers |-> wr'[v]]
    <2>1. PICK x : wr' = [wr EXCEPT ![w] = x]
      BY <1>1
    <2>2. wr' = [v \in Writers |-> wr'[v]]
      BY <2>1 DEF WritersOk
    <2> QED BY <1>1, <2>2
  <1>3. ASSUME NEW n \in DOMAIN sent, sent[n].kind # "message"
        PROVE  \E k \in DOMAIN sent' : sent'[k].kind # "message"
    BY <1>1, <1>3
  <1>4. CASE i.kind = "message"
    <2>1. Len(Writes(i)) = 1
      BY <1>4 DEF Writes, MessageWrites
    <2>2. \A v \in Writers : wr'[v].pc # "idle" => wr[v].pc # "idle"
      BY <1>1, <2>1 DEF WritersOk, IdleWriter
    <2> QED BY <1>1, <1>2, <1>3, <2>2 DEF WritersOk
  <1>5. CASE i.kind # "message"
    <2>1. Len(sent') \in DOMAIN sent' /\ sent'[Len(sent')].kind # "message"
      BY <1>1, <1>5
    <2> QED BY <1>2, <2>1 DEF WritersOk
  <1> QED BY <1>4, <1>5

LEMMA WritersStep == WritersOk /\ [Next]_vars => WritersOk'
  <1> SUFFICES ASSUME WritersOk, [Next]_vars PROVE WritersOk'
    OBVIOUS
  <1>1. CASE \E w \in Writers, i \in Items : Begin(w, i)
    BY <1>1, BeginStep
  <1>2. CASE \A w \in Writers, i \in Items : ~Begin(w, i)
    <2>1. UNCHANGED sent
      BY <1>2, OtherSteps
    <2>2. CASE UNCHANGED wr
      BY <2>1, <2>2 DEF WritersOk
    <2>3. ASSUME NEW w \in Writers, WriterStep(w) PROVE WritersOk'
      <3>1. wr[w].pc # "idle" /\ wr' = [wr EXCEPT ![w] = wr'[w]]
        BY <2>3 DEF WriterStep, GoOn, WriterFails, Put, WritersOk
      <3>2. wr' = [v \in Writers |-> wr'[v]]
        BY <3>1 DEF WritersOk
      <3> QED BY <2>1, <3>1, <3>2 DEF WritersOk
    <2> QED BY <1>2, <2>2, <2>3, OtherSteps
  <1> QED BY <1>1, <1>2

\* Goroutines that share a connection without a lock cannot mix messages,
\* however many they are and whatever fails: WriteMessage makes one Write.
THEOREM MessagesApart == Spec => []MessagesNeverMix
  <1>1. Init => WritersOk /\ MessagesNeverMix
    BY DEF Init, WritersOk, MessagesNeverMix, IdleWriter
  <1>2. WritersOk /\ MessagesNeverMix /\ [Next]_vars => MessagesNeverMix'
    <2> SUFFICES ASSUME WritersOk, MessagesNeverMix, [Next]_vars
                 PROVE  MessagesNeverMix'
      OBVIOUS
    <2>1. ASSUME NEW w \in Writers, NEW i \in Items, Begin(w, i)
          PROVE  MessagesNeverMix'
      <3>1. sent' = Append(sent, i) /\ sent \in Seq(Items)
        BY <2>1 DEF Begin, WritersOk
      <3>2. \A n \in DOMAIN sent : n \in DOMAIN sent' /\ sent'[n] = sent[n]
        BY <3>1
      <3> QED BY <2>1, <3>2, BeginStep DEF MessagesNeverMix
    <2>2. CASE \A w \in Writers, i \in Items : ~Begin(w, i)
      BY <2>2, OtherSteps DEF MessagesNeverMix
    <2> QED BY <2>1, <2>2
  <1> QED BY <1>1, <1>2, WritersStep, PTL DEF Spec

-----------------------------------------------------------------------------
(* The temporary file of ReadBinary.                                        *)

Fields == {"pc", "as", "name", "size", "code", "cmd", "left", "sized"}

\* readNBinary is at work on it, or has failed to close or to remove it.
TmpOk ==
    /\ DOMAIN rd = Fields /\ rd = [f \in Fields |-> rd[f]]
    /\ rd.pc \in {"open", "close", "rename"} => rd.as = "file"
    /\ rd.pc = "pieces" => rd.as \in {"copy", "file"}
    /\ tmp # NoFile =>
           \/ rd.pc \in {"pieces", "close", "rename"} /\ rd.as = "file"
           \/ {"close", "remove"} \cap faults # {}

LEMMA TmpStep == TmpOk /\ [Next]_vars => TmpOk'
  <1> SUFFICES ASSUME TmpOk, [Next]_vars PROVE TmpOk'
    OBVIOUS
  <1>1. CASE ReadSize
    BY <1>1 DEF ReadSize, WritersUnchanged, DiskUnchanged, TmpOk, Fields
  <1>2. CASE ReadHead
    BY <1>2 DEF ReadHead, WritersUnchanged, DiskUnchanged, TmpOk, Fields
  <1>3. CASE ReadErrorCode
    BY <1>3 DEF ReadErrorCode, WritersUnchanged, DiskUnchanged, TmpOk, Fields
  <1>4. CASE ReadData
    <2>1. rd.pc = "data" /\ UNCHANGED <<tmp, faults>>
      BY <1>4 DEF ReadData, DiskUnchanged
    <2>2. \/ rd' = IdleReader
          \/ rd' = [rd EXCEPT !.pc = "failed"]
          \/ \E data : rd' = [rd EXCEPT !.pc = "size", !.name = data]
      BY <1>4 DEF ReadData, Deliver
    <2>3. ~(rd.pc \in {"pieces", "close", "rename"})
      BY <2>1
    <2>4. tmp' # NoFile => {"close", "remove"} \cap faults' # {}
      BY <2>1, <2>3 DEF TmpOk
    <2>5. /\ DOMAIN rd' = Fields /\ rd' = [f \in Fields |-> rd'[f]]
          /\ rd'.pc \in {"idle", "failed", "size"}
      <3>1. CASE rd' = IdleReader
        BY <3>1 DEF IdleReader, Fields
      <3>2. CASE rd' = [rd EXCEPT !.pc = "failed"]
        BY <3>2 DEF TmpOk, Fields
      <3>3. ASSUME NEW data, rd' = [rd EXCEPT !.pc = "size", !.name = data]
            PROVE  /\ DOMAIN rd' = Fields /\ rd' = [f \in Fields |-> rd'[f]]
                   /\ rd'.pc \in {"idle", "failed", "size"}
        BY <3>3 DEF TmpOk, Fields
      <3> QED BY <2>2, <3>1, <3>2, <3>3
    <2> QED BY <2>4, <2>5 DEF TmpOk
  <1>5. CASE FieldFails
    BY <1>5 DEF FieldFails, WritersUnchanged, DiskUnchanged, TmpOk, Fields
  <1>18. CASE HeaderUnwritten
    BY <1>18 DEF HeaderUnwritten, Fail, WritersUnchanged, DiskUnchanged, TmpOk, Fields
  <1>6. CASE CreateTmp
    BY <1>6 DEF CreateTmp, Fail, WritersUnchanged, TmpOk, Fields
  <1>7. CASE CopyPiece
    BY <1>7 DEF CopyPiece, Store, WritersUnchanged, TmpOk, Fields
  <1>8. CASE PieceFails
    BY <1>8 DEF PieceFails, PieceShort, PieceUnwritten, CleanUp, Fail, WritersUnchanged,
                TmpOk, Fields
  <1>9. CASE PiecesDone
    BY <1>9 DEF PiecesDone, Deliver, IdleReader, WritersUnchanged, DiskUnchanged, TmpOk,
                Fields
  <1>10. CASE CloseTmp
    BY <1>10 DEF CloseTmp, Fail, WritersUnchanged, DiskUnchanged, TmpOk, Fields
  <1>11. CASE RenameTmp
    BY <1>11 DEF RenameTmp, Deliver, IdleReader, CleanUp, Fail, WritersUnchanged, TmpOk,
                 Fields
  <1>12. CASE \E reader \in Readers : Call(reader)
    BY <1>12 DEF Call, WritersUnchanged, DiskUnchanged, TmpOk, Fields
  <1>13. CASE \E n \in 0..MaxRest : Cut(n)
    BY <1>13 DEF Cut, Fail, TmpOk
  <1>14. CASE \/ \E w \in Writers, i \in Items : Begin(w, i)
              \/ \E w \in Writers : WriterStep(w)
    BY <1>14 DEF Begin, WriterStep, GoOn, WriterFails, Fail, ReaderUnchanged, TmpOk
  <1>15. CASE UNCHANGED vars
    BY <1>15 DEF vars, TmpOk
  <1> QED BY <1>1, <1>2, <1>3, <1>4, <1>5, <1>6, <1>7, <1>8, <1>9, <1>10, <1>11, <1>12,
             <1>13, <1>14, <1>15, <1>18 DEF Next, ReaderStep

\* Unless its Close or its removal failed, no temporary file outlives the
\* ReadBinary that made it.
THEOREM NoTmpLeft == Spec => []TmpRemoved
  <1>1. Init => TmpOk
    BY DEF Init, IdleReader, TmpOk, Fields
  <1>2. TmpOk => TmpRemoved
    BY DEF TmpOk, TmpRemoved
  <1> QED BY <1>1, <1>2, TmpStep, PTL DEF Spec

-----------------------------------------------------------------------------
(* Bytes.                                                                   *)

LEMMA Division ==
    ASSUME NEW b \in Nat, b > 0, NEW n \in Nat
    PROVE  /\ n \div b \in Nat /\ n % b \in 0..b - 1
           /\ n = b * (n \div b) + (n % b)
  <1>1. n \div b \in Nat /\ n % b \in 0..b - 1
    OBVIOUS
  <1> DEFINE q == n \div b
             r == n % b
  <1>2. n = b * q + r
    <2>1. \A x, y \in Nat : x = n \div b /\ y = n % b => n = b * x + y
      OBVIOUS
    <2> QED BY <1>1, <2>1
  <1> QED BY <1>1, <1>2

LEMMA DivisionLess ==
    ASSUME NEW b \in Nat, b > 0, NEW m \in Nat, NEW n \in Nat, n < m * b
    PROVE  n \div b < m
  <1>1. PICK q \in Nat, r \in 0..b - 1 : q = n \div b /\ n = b * q + r
    BY Division
  <1>2. q >= m => q * b >= m * b
    OBVIOUS
  <1>3. q * b = b * q
    OBVIOUS
  <1> QED BY <1>1, <1>2, <1>3

LEMMA ToBytesTyped ==
    ASSUME NEW n \in Nat
    PROVE  /\ ToBytes(n) \in Seq(Bytes) /\ Len(ToBytes(n)) = 4
           /\ DOMAIN ToBytes(n) = 1..4
  <1>1. Base \in Nat /\ Base > 0
    BY FramingAssumption
  <1> DEFINE n1 == n \div Base
             n2 == n1 \div Base
             n3 == n2 \div Base
  <1>2. n1 \in Nat /\ n % Base \in Bytes
    BY <1>1, Division DEF Bytes
  <1>3. n2 \in Nat /\ n1 % Base \in Bytes
    BY <1>1, <1>2, Division DEF Bytes
  <1>4. n3 \in Nat /\ n2 % Base \in Bytes
    BY <1>1, <1>3, Division DEF Bytes
  <1>5. n3 % Base \in Bytes
    BY <1>1, <1>4, Division DEF Bytes
  <1>6. ToBytes(n) = <<n3 % Base, n2 % Base, n1 % Base, n % Base>>
    BY DEF ToBytes
  <1> QED BY <1>2, <1>3, <1>4, <1>5, <1>6

\* Four bytes are enough for what Fits admits, and nothing of it is lost.
LEMMA FromToBytes ==
    ASSUME NEW n \in Nat, Fits(n)
    PROVE  FromBytes(ToBytes(n)) = n
  <1>1. Base \in Nat /\ Base > 0 /\ Base > 1
    BY FramingAssumption
  <1> DEFINE n1 == n \div Base
             n2 == n1 \div Base
             n3 == n2 \div Base
  <1>2. n1 \in Nat /\ n % Base \in Nat /\ n = Base * n1 + (n % Base)
    BY <1>1, Division
  <1>3. n2 \in Nat /\ n1 % Base \in Nat /\ n1 = Base * n2 + (n1 % Base)
    BY <1>1, <1>2, Division
  <1>4. n3 \in Nat /\ n2 % Base \in Nat /\ n2 = Base * n3 + (n2 % Base)
    BY <1>1, <1>3, Division
  <1>5. n3 % Base = n3
    <2>1. n < (Base * Base * Base) * Base /\ Base * Base * Base \in Nat
      BY <1>1 DEF Fits, Uint32Max
    <2>2. n1 < (Base * Base) * Base /\ Base * Base \in Nat
      BY <1>1, <2>1, DivisionLess
    <2>3. n2 < Base * Base
      BY <1>1, <1>2, <2>2, DivisionLess
    <2>4. n3 < Base
      BY <1>1, <1>3, <2>3, DivisionLess
    <2> HIDE DEF n1, n2, n3
    <2> QED BY <1>1, <1>4, <2>4
  <1>6. ToBytes(n) = <<n3, n2 % Base, n1 % Base, n % Base>>
    BY <1>5 DEF ToBytes
  <1> DEFINE r0 == n % Base
             r1 == n1 % Base
             r2 == n2 % Base
  <1>7. FromBytes(ToBytes(n)) = ((n3 * Base + r2) * Base + r1) * Base + r0
    BY <1>6 DEF FromBytes
  <1>8. /\ n = Base * n1 + r0 /\ n1 = Base * n2 + r1 /\ n2 = Base * n3 + r2
        /\ n1 \in Nat /\ n2 \in Nat /\ n3 \in Nat
        /\ r0 \in Nat /\ r1 \in Nat /\ r2 \in Nat
    BY <1>2, <1>3, <1>4
  <1> HIDE DEF n1, n2, n3, r0, r1, r2
  <1>9. n3 * Base + r2 = n2
    BY <1>1, <1>8
  <1>10. n2 * Base + r1 = n1
    BY <1>1, <1>8
  <1>11. n1 * Base + r0 = n
    BY <1>1, <1>8
  <1> QED BY <1>7, <1>9, <1>10, <1>11

\* The number of pieces of n bytes, and where they start.
LEMMA PieceCount ==
    ASSUME NEW n \in Nat
    PROVE  LET p == (n + BufferSize - 1) \div BufferSize
           IN  /\ p \in Nat /\ n <= p * BufferSize
               /\ \A k \in 1..p : (k - 1) * BufferSize < n
               /\ \A k \in 1..p - 1 : k * BufferSize < n
  <1>0. BufferSize \in Nat /\ BufferSize > 0
    BY FramingAssumption
  <1> DEFINE p == (n + BufferSize - 1) \div BufferSize
             r == (n + BufferSize - 1) % BufferSize
  <1>1. n + BufferSize - 1 \in Nat
    BY <1>0
  <1>2. p \in Nat /\ r \in 0..BufferSize - 1 /\ n + BufferSize - 1 = BufferSize * p + r
    BY <1>0, <1>1, Division
  <1> HIDE DEF p, r
  <1>3. BufferSize * p = p * BufferSize
    BY <1>0, <1>2
  <1>4. n <= p * BufferSize /\ p * BufferSize < n + BufferSize
    BY <1>0, <1>2, <1>3
  <1>5. ASSUME NEW k \in Nat, k < p
        PROVE  k * BufferSize < n
    <2>1. (k + 1) * BufferSize <= p * BufferSize
      BY <1>0, <1>2, <1>5
    <2>2. (k + 1) * BufferSize = k * BufferSize + BufferSize
      BY <1>0
    <2>3. k * BufferSize \in Nat
      BY <1>0
    <2> QED BY <1>0, <1>2, <1>3, <1>4, <2>1, <2>2, <2>3
  <1>6. \A k \in 1..p : (k - 1) * BufferSize < n
    <2> TAKE k \in 1..p
    <2>1. k - 1 \in Nat /\ k - 1 < p
      BY <1>2
    <2> QED BY <1>5, <2>1
  <1>7. \A k \in 1..p - 1 : k * BufferSize < n
    BY <1>2, <1>5
  <1> QED BY <1>2, <1>4, <1>6, <1>7 DEF p

\* readWrite writes pieces of bytes, whose number and places are these.
LEMMA PiecesTyped ==
    ASSUME NEW d \in Seq(Bytes)
    PROVE  /\ Pieces(d) \in Seq(Seq(Bytes))
           /\ Len(Pieces(d)) = (Len(d) + BufferSize - 1) \div BufferSize
           /\ \A k \in 1..Len(Pieces(d)) :
                  LET a == (k - 1) * BufferSize
                      n == Piece(Len(d) - a)
                  IN  /\ Pieces(d)[k] = SubSeq(d, a + 1, a + n)
                      /\ Len(Pieces(d)[k]) = n /\ n \in 1..Len(d) - a
                      /\ a \in Nat
  <1> DEFINE p == (Len(d) + BufferSize - 1) \div BufferSize
             piece(k) == SubSeq(d, (k - 1) * BufferSize + 1,
                                (k - 1) * BufferSize + 1
                                    + Piece(Len(d) - ((k - 1) * BufferSize + 1) + 1) - 1)
  <1>0. BufferSize \in Nat /\ BufferSize > 0 /\ Len(d) \in Nat
    BY FramingAssumption
  <1>1. p \in Nat /\ \A k \in 1..p : (k - 1) * BufferSize < Len(d)
    BY <1>0, PieceCount
  <1>2. Pieces(d) = [k \in 1..p |-> piece(k)]
    BY DEF Pieces
  <1>3. ASSUME NEW k \in 1..p
        PROVE  LET a == (k - 1) * BufferSize
                   n == Piece(Len(d) - a)
               IN  /\ piece(k) = SubSeq(d, a + 1, a + n) /\ piece(k) \in Seq(Bytes)
                   /\ Len(piece(k)) = n /\ n \in 1..Len(d) - a
                   /\ a \in Nat
    <2> DEFINE a == (k - 1) * BufferSize
               n == Piece(Len(d) - a)
    <2>1. a \in Nat /\ a < Len(d)
      <3>1. k - 1 \in Nat
        BY <1>1
      <3> QED BY <1>0, <1>1, <3>1
    <2> HIDE DEF a
    <2>2. n \in 1..Len(d) - a
      BY <1>0, <2>1 DEF Piece
    <2>3. Len(d) - (a + 1) + 1 = Len(d) - a
      BY <1>0, <2>1
    <2> HIDE DEF n
    <2>4. piece(k) = SubSeq(d, a + 1, a + n)
      <3>1. piece(k) = SubSeq(d, a + 1, a + 1 + n - 1)
        BY <2>3 DEF a, n
      <3>2. a + 1 + n - 1 = a + n
        BY <1>0, <2>1, <2>2
      <3> HIDE DEF piece
      <3> QED BY <3>1, <3>2
    <2> HIDE DEF piece
    <2>5. piece(k) \in Seq(Bytes) /\ Len(piece(k)) = n
      BY <1>0, <2>1, <2>2, <2>4
    <2> QED BY <2>1, <2>2, <2>4, <2>5 DEF a, n
  <1> HIDE DEF p, piece
  <1>4. Pieces(d) \in Seq(Seq(Bytes)) /\ Len(Pieces(d)) = p
    BY <1>1, <1>2, <1>3
  <1>5. \A k \in 1..p : Pieces(d)[k] = piece(k)
    BY <1>2
  <1>6. ASSUME NEW k \in 1..p
        PROVE  LET a == (k - 1) * BufferSize
                   n == Piece(Len(d) - a)
               IN  /\ Pieces(d)[k] = SubSeq(d, a + 1, a + n)
                   /\ Len(Pieces(d)[k]) = n /\ n \in 1..Len(d) - a
                   /\ a \in Nat
    BY <1>3, <1>5
  <1> QED BY <1>4, <1>6 DEF p

-----------------------------------------------------------------------------
(* Types.                                                                   *)

\* Each call of writer.Write is given bytes, and no item takes none.
LEMMA WritesTyped ==
    ASSUME NEW i \in Items
    PROVE  Writes(i) \in Seq(Seq(Bytes)) /\ Len(Writes(i)) > 0
  <1>1. i \in ItemType
    BY ItemsAssumption
  <1>2. /\ i.name \in Seq(Bytes) /\ i.data \in Seq(Bytes) /\ i.kind \in Kinds
        /\ i.code \in Bytes /\ i.cmd \in Bytes /\ Len(i.name) \in Nat /\ Len(i.data) \in Nat
    BY <1>1 DEF ItemType
  <1>3. ToBytes(Len(i.data)) \in Seq(Bytes) /\ ToBytes(Len(i.name)) \in Seq(Bytes)
    BY <1>2, ToBytesTyped
  <1>4. 0 \in Bytes
    BY FramingAssumption DEF Bytes
  <1>5. CASE i.kind = "message"
    BY <1>2, <1>3, <1>5 DEF Writes, MessageWrites
  <1>6. CASE i.kind = "frame"
    BY <1>2, <1>3, <1>6 DEF Writes, FrameWrites
  <1>7. CASE i.kind = "file"
    <2>1. FrameWrites(i.name, 0) \in Seq(Seq(Bytes)) /\ FrameWrites(i.name, 0) # <<>>
      BY <1>2, <1>3, <1>4 DEF FrameWrites
    <2>2. <<ToBytes(Len(i.data)), <<0>>>> \in Seq(Seq(Bytes))
      BY <1>3, <1>4
    <2>3. Pieces(i.data) \in Seq(Seq(Bytes))
      BY <1>2, PiecesTyped
    <2> HIDE DEF FrameWrites
    <2>4. FileWrites(i) \in Seq(Seq(Bytes)) /\ Len(FileWrites(i)) >= 2
      BY <2>1, <2>2, <2>3 DEF FileWrites
    <2> QED BY <1>7, <2>4 DEF Writes
  <1> QED BY <1>2, <1>5, <1>6, <1>7 DEF Kinds

\* What the locals of a writer and of the reader may be at each point.
Shape ==
    /\ \A w \in Writers :
           wr[w].pc = "midway" => wr[w].item \in Items /\ Len(wr[w].left) > 0
    /\ rd.pc = "head" => rd.as = "message"
    /\ rd.pc = "code" => rd.as \in {"frame", "file"}
    /\ rd.pc = "data" => rd.as # "copy" /\ (rd.as = "file" => rd.name = NoFile)
    /\ rd.pc \in {"open", "close", "rename"} => rd.as = "file"
    /\ rd.pc = "pieces" => rd.as \in {"copy", "file"}
    /\ rd.name # NoFile => rd.as = "file"
    /\ rd.as = "file" /\ rd.pc \in {"open", "pieces", "close", "rename"}
           => rd.name # NoFile
    /\ rd.as = "file" /\ rd.pc \in {"pieces", "close", "rename"} => tmp # NoFile

ReaderType == [pc : RdPCs, as : Readers, name : Seq(Bytes) \cup {NoFile},
               size : Nat, code : Bytes, cmd : Bytes, left : Nat, sized : BOOLEAN]
WriterType == [pc : {"idle", "midway", "failed"},
               item : Items \cup {NoFile}, left : Seq(Seq(Bytes))]

LEMMA Constants ==
    /\ Base \in Nat /\ Base > 1 /\ 0 \in Bytes /\ 1 \in Bytes
    /\ BufferSize \in Nat /\ BufferSize > 0
    /\ \A b \in Bytes : ReadCode(b) \in Bytes
    /\ \A b \in Bytes : b \in Nat
    /\ \A s \in Seq(Bytes) : s # NoFile
    /\ <<>> # NoFile
  <1>1. \A b \in Bytes : b \in Nat
    BY FramingAssumption DEF Bytes
  <1>2. \A s \in Seq(Bytes) : s \in Seq(Nat)
    BY <1>1
  <1>3. \A s \in Seq(Bytes) : s # NoFile
    BY <1>2, FramingAssumption
  <1>4. Base \in Nat /\ Base > 1 /\ BufferSize \in Nat /\ BufferSize > 0
    BY FramingAssumption
  <1>5. 0 \in Bytes /\ 1 \in Bytes
    BY <1>4 DEF Bytes
  <1>6. \A b \in Bytes : ReadCode(b) \in Bytes
    BY <1>5 DEF ReadCode
  <1>7. <<>> # NoFile
    <2>1. <<>> \in Seq(Bytes)
      OBVIOUS
    <2> QED BY <1>3, <2>1
  <1> QED BY <1>1, <1>3, <1>4, <1>5, <1>6, <1>7

\* The first bytes of the stream, and the ones after them.
LEMMA SplitTyped ==
    ASSUME NEW s \in Seq(Bytes), NEW n \in Nat, n <= Len(s)
    PROVE  /\ SubSeq(s, 1, n) \in Seq(Bytes) /\ Len(SubSeq(s, 1, n)) = n
           /\ SubSeq(s, n + 1, Len(s)) \in Seq(Bytes)
           /\ Len(SubSeq(s, n + 1, Len(s))) = Len(s) - n
           /\ \A k \in 1..n : s[k] \in Bytes /\ SubSeq(s, 1, n)[k] = s[k]
           /\ \A k \in 1..Len(s) - n : SubSeq(s, n + 1, Len(s))[k] = s[n + k]
  OBVIOUS

LEMMA FromBytesTyped ==
    ASSUME NEW b \in Seq(Bytes), Len(b) = 4
    PROVE  FromBytes(b) \in Nat
  <1>0. \A x \in Bytes : x \in Nat
    BY Constants
  <1>1. b[1] \in Nat /\ b[2] \in Nat /\ b[3] \in Nat /\ b[4] \in Nat
    <2>1. b[1] \in Bytes /\ b[2] \in Bytes /\ b[3] \in Bytes /\ b[4] \in Bytes
      <3>1. \A k \in 1..4 : b[k] \in Bytes
        BY ElementOfSeq
      <3> QED BY <3>1
    <2> QED BY <1>0, <2>1
  <1>2. b[1] * Base + b[2] \in Nat
    BY <1>1, Constants
  <1>3. (b[1] * Base + b[2]) * Base + b[3] \in Nat
    BY <1>1, <1>2, Constants
  <1>4. ((b[1] * Base + b[2]) * Base + b[3]) * Base + b[4] \in Nat
    BY <1>1, <1>3, Constants
  <1> QED BY <1>4 DEF FromBytes

LEMMA CopyLengthTyped ==
    ASSUME NEW n \in Nat
    PROVE  CopyLength(n) \in Nat /\ (Fits(n + 2) => CopyLength(n) = n + 2)
  <1> DEFINE m == Uint32Max + 1
  <1>1. m = Base * Base * Base * Base /\ Uint32Max \in Int /\ m \in Nat /\ m > 0
    <2>1. Base * Base \in Nat /\ Base * Base > 0
      BY Constants
    <2>2. Base * Base * Base \in Nat /\ Base * Base * Base > 0
      BY <2>1, Constants
    <2>3. Base * Base * Base * Base \in Nat /\ Base * Base * Base * Base > 0
      BY <2>2, Constants
    <2> QED BY <2>3 DEF Uint32Max
  <1>2. Fits(n + 2) => n + 2 < m
    BY <1>1 DEF Fits
  <1> HIDE DEF m
  <1>3. (n + 2) % m \in Nat /\ (n + 2 < m => (n + 2) % m = n + 2)
    BY <1>1
  <1> QED BY <1>2, <1>3 DEF CopyLength, m

\* A writer's step.
LEMMA PutTyped ==
    ASSUME TypeOK, Shape, NEW w \in Writers, NEW i \in Items, NEW left \in Seq(Seq(Bytes)),
           Len(left) > 0, Put(w, i, left)
    PROVE  /\ wire' \in Seq(Bytes)
           /\ wr' \in [Writers -> WriterType]
           /\ \A v \in Writers :
                  wr'[v].pc = "midway" => wr'[v].item \in Items /\ Len(wr'[v].left) > 0
  <1>1. wire \in Seq(Bytes) /\ wr \in [Writers -> WriterType]
    BY DEF TypeOK, WriterType
  <1>2. Head(left) \in Seq(Bytes) /\ Tail(left) \in Seq(Seq(Bytes))
    OBVIOUS
  <1>3. Len(left) # 1 => Len(Tail(left)) > 0
    <2>1. Len(Tail(left)) = Len(left) - 1 /\ Len(left) \in Nat
      BY HeadTailProperties, LenProperties
    <2>2. \A l \in Nat : l > 0 /\ l # 1 => l - 1 > 0
      OBVIOUS
    <2> QED BY <2>1, <2>2
  <1> DEFINE x == IF Len(left) = 1 THEN IdleWriter
                  ELSE [pc |-> "midway", item |-> i, left |-> Tail(left)]
  <1>4. x \in WriterType /\ (x.pc = "midway" => x.item \in Items /\ Len(x.left) > 0)
    BY <1>2, <1>3 DEF WriterType, IdleWriter
  <1>5. wire' = wire \o Head(left) /\ wr' = [wr EXCEPT ![w] = x]
    BY DEF Put
  <1> HIDE DEF x
  <1>6. wire' \in Seq(Bytes) /\ wr' \in [Writers -> WriterType]
    BY <1>1, <1>2, <1>4, <1>5
  <1>7. \A v \in Writers :
            (v = w => wr'[v] = x) /\ (v # w => wr'[v] = wr[v])
    BY <1>1, <1>5
  <1>8. \A v \in Writers :
            wr[v].pc = "midway" => wr[v].item \in Items /\ Len(wr[v].left) > 0
    BY DEF Shape
  <1> QED BY <1>4, <1>6, <1>7, <1>8

\* A failure, and none, keep faults typed.
LEMMA FailTyped ==
    ASSUME TypeOK, \/ UNCHANGED faults
                   \/ \E F \in SUBSET Faults : Fail(F)
    PROVE  faults' \subseteq Faults /\ Cardinality(faults') <= MaxFaults
  <1>1. CASE UNCHANGED faults
    BY <1>1 DEF TypeOK
  <1>2. ASSUME NEW F \in SUBSET Faults, Fail(F)
        PROVE  faults' \subseteq Faults /\ Cardinality(faults') <= MaxFaults
    <2>1. faults' = F \cup faults /\ Cardinality(F \cup faults) <= MaxFaults
      BY <1>2 DEF Fail
    <2> QED BY <2>1 DEF TypeOK
  <1> QED BY <1>1, <1>2

\* What a step of the reader changes.
ReaderTyped ==
    /\ wire \in Seq(Bytes) /\ astray \in BOOLEAN
    /\ rd \in ReaderType
    /\ out \in Seq(Bytes) /\ tmp \in Seq(Bytes) \cup {NoFile}
    /\ \A f \in shown : f.name \in Seq(Bytes) /\ f.data \in Seq(Bytes)
    /\ got \in Seq(ItemType)
    /\ faults \subseteq Faults /\ Cardinality(faults) <= MaxFaults

LEMMA ReaderKeepsTypes ==
    ASSUME TypeOK, Shape, ReaderTyped', WritersUnchanged
    PROVE  TypeOK'
  BY DEF TypeOK, ReaderTyped, ReaderType, WritersUnchanged

LEMMA DeliverTyped ==
    ASSUME TypeOK, NEW item \in ItemType, Deliver(item)
    PROVE  /\ got' \in Seq(ItemType) /\ rd' \in ReaderType
           /\ rd' = IdleReader
  BY Constants DEF Deliver, TypeOK, IdleReader, ReaderType, RdPCs, Readers, Kinds

LEMMA CopyHeaderTyped ==
    ASSUME NEW size \in Nat
    PROVE  CopyHeader(size) \in Seq(Bytes)
  <1>1. ToBytes(size) \in Seq(Bytes) /\ 0 \in Bytes
    BY ToBytesTyped, Constants
  <1>2. <<0>> \in Seq(Bytes) /\ <<>> \in Seq(Bytes)
    BY <1>1
  <1> QED BY <1>1, <1>2, ConcatProperties DEF CopyHeader

\* The reader's steps.
LEMMA ReadSizeTyped == TypeOK /\ Shape /\ ReadSize => TypeOK' /\ Shape'
  <1> SUFFICES ASSUME TypeOK, Shape, ReadSize PROVE TypeOK' /\ Shape'
    OBVIOUS
  <1> DEFINE size == FromBytes(SubSeq(wire, 1, 4))
  <1>1. ReaderTyped
    BY DEF TypeOK, ReaderTyped, ReaderType
  <1>2. Len(wire) >= 4 /\ wire' = SubSeq(wire, 5, Len(wire)) /\ rd.pc = "size"
    BY DEF ReadSize, Take
  <1>3. size \in Nat /\ wire' \in Seq(Bytes)
    <2>1. 4 <= Len(wire) /\ wire \in Seq(Bytes)
      BY <1>1, <1>2, LenProperties DEF ReaderTyped
    <2>2. SubSeq(wire, 1, 4) \in Seq(Bytes) /\ Len(SubSeq(wire, 1, 4)) = 4
          /\ SubSeq(wire, 4 + 1, Len(wire)) \in Seq(Bytes)
      BY <2>1, SplitTyped
    <2>3. size \in Nat
      BY <2>2, FromBytesTyped
    <2> HIDE DEF size
    <2> QED BY <1>2, <2>2, <2>3
  <1>4. CopyHeader(size) \in Seq(Bytes) /\ CopyLength(size) \in Nat
    <2> HIDE DEF size
    <2> QED BY <1>3, CopyHeaderTyped, CopyLengthTyped
  <1>5. UNCHANGED <<tmp, shown, got, faults>> /\ WritersUnchanged
    BY DEF ReadSize, DiskUnchanged
  <1>6. astray' \in BOOLEAN
    BY <1>1 DEF ReadSize, ReaderTyped
  <1>7. \/ /\ rd.as = "message"
           /\ rd' = [rd EXCEPT !.pc = "head", !.size = size]
           /\ out' = out
        \/ /\ rd.as = "copy"
           /\ out' = CopyHeader(size)
           /\ rd' = [rd EXCEPT !.pc = "pieces", !.size = size,
                               !.left = CopyLength(size)]
        \/ /\ rd.as \in {"frame", "file"}
           /\ rd' = [rd EXCEPT !.pc = "code", !.size = size]
           /\ out' = out
    BY DEF ReadSize
  <1> HIDE DEF size
  <1>8. rd' \in ReaderType /\ out' \in Seq(Bytes)
    BY <1>1, <1>3, <1>4, <1>7 DEF ReaderTyped, ReaderType, RdPCs
  <1>9. ReaderTyped'
    BY <1>1, <1>3, <1>5, <1>6, <1>8 DEF ReaderTyped
  <1>10. Shape'
    BY <1>1, <1>2, <1>5, <1>7 DEF Shape, ReaderTyped, ReaderType, WritersUnchanged
  <1> QED BY <1>5, <1>9, <1>10, ReaderKeepsTypes

LEMMA HeaderUnwrittenTyped == TypeOK /\ Shape /\ HeaderUnwritten => TypeOK' /\ Shape'
  <1> SUFFICES ASSUME TypeOK, Shape, HeaderUnwritten PROVE TypeOK' /\ Shape'
    OBVIOUS
  <1> DEFINE size == FromBytes(SubSeq(wire, 1, 4))
  <1>1. ReaderTyped
    BY DEF TypeOK, ReaderTyped, ReaderType
  <1>2. Len(wire) >= 4 /\ wire' = SubSeq(wire, 5, Len(wire)) /\ rd.pc = "size"
        /\ UNCHANGED <<tmp, shown, got, astray>> /\ WritersUnchanged
        /\ rd' = [rd EXCEPT !.pc = "failed"]
    BY DEF HeaderUnwritten, Take, DiskUnchanged
  <1>3. size \in Nat /\ wire' \in Seq(Bytes)
    <2>1. 4 <= Len(wire) /\ wire \in Seq(Bytes)
      BY <1>1, <1>2, LenProperties DEF ReaderTyped
    <2>2. SubSeq(wire, 1, 4) \in Seq(Bytes) /\ Len(SubSeq(wire, 1, 4)) = 4
          /\ SubSeq(wire, 4 + 1, Len(wire)) \in Seq(Bytes)
      BY <2>1, SplitTyped
    <2>3. size \in Nat
      BY <2>2, FromBytesTyped
    <2> HIDE DEF size
    <2> QED BY <1>2, <2>2, <2>3
  <1>4. PICK k \in 0..Len(CopyHeader(size)) - 1 : out' = SubSeq(CopyHeader(size), 1, k)
    BY DEF HeaderUnwritten
  <1> HIDE DEF size
  <1>5. CopyHeader(size) \in Seq(Bytes)
    BY <1>3, CopyHeaderTyped
  <1>6. out' \in Seq(Bytes)
    <2>1. k \in Nat /\ k <= Len(CopyHeader(size))
      BY <1>5, LenProperties
    <2> QED BY <1>4, <1>5, <2>1, SplitTyped
  <1>7. faults' \subseteq Faults /\ Cardinality(faults') <= MaxFaults
    BY FailTyped DEF HeaderUnwritten, Faults
  <1>8. ReaderTyped'
    BY <1>1, <1>2, <1>3, <1>6, <1>7 DEF ReaderTyped, ReaderType, RdPCs
  <1>9. Shape'
    BY <1>1, <1>2 DEF Shape, ReaderTyped, ReaderType, WritersUnchanged
  <1> QED BY <1>2, <1>8, <1>9, ReaderKeepsTypes

LEMMA ReadHeadTyped == TypeOK /\ Shape /\ ReadHead => TypeOK' /\ Shape'
  <1> SUFFICES ASSUME TypeOK, Shape, ReadHead PROVE TypeOK' /\ Shape'
    OBVIOUS
  <1>1. ReaderTyped
    BY DEF TypeOK, ReaderTyped, ReaderType
  <1>2. /\ Len(wire) >= 2 /\ wire' = SubSeq(wire, 3, Len(wire)) /\ rd.pc = "head"
        /\ rd' = [rd EXCEPT !.pc = "data", !.code = wire[1], !.cmd = wire[2]]
    BY DEF ReadHead, Take
  <1>3. wire[1] \in Bytes /\ wire[2] \in Bytes /\ wire' \in Seq(Bytes)
    <2>1. 2 <= Len(wire) /\ wire \in Seq(Bytes)
      BY <1>1, <1>2, LenProperties DEF ReaderTyped
    <2>2. (\A k \in 1..2 : wire[k] \in Bytes)
          /\ SubSeq(wire, 2 + 1, Len(wire)) \in Seq(Bytes)
      BY <2>1, SplitTyped
    <2> QED BY <1>2, <2>2
  <1>4. UNCHANGED <<out, tmp, shown, got, astray, faults>> /\ WritersUnchanged
    BY DEF ReadHead, DiskUnchanged
  <1>5. rd' \in ReaderType
    BY <1>1, <1>2, <1>3 DEF ReaderTyped, ReaderType, RdPCs
  <1>6. ReaderTyped'
    BY <1>1, <1>3, <1>4, <1>5 DEF ReaderTyped
  <1>7. Shape'
    BY <1>1, <1>2, <1>4 DEF Shape, ReaderTyped, ReaderType, WritersUnchanged
  <1> QED BY <1>4, <1>6, <1>7, ReaderKeepsTypes

LEMMA ReadErrorCodeTyped == TypeOK /\ Shape /\ ReadErrorCode => TypeOK' /\ Shape'
  <1> SUFFICES ASSUME TypeOK, Shape, ReadErrorCode PROVE TypeOK' /\ Shape'
    OBVIOUS
  <1>1. ReaderTyped
    BY DEF TypeOK, ReaderTyped, ReaderType
  <1>2. /\ Len(wire) >= 1 /\ wire' = SubSeq(wire, 2, Len(wire)) /\ rd.pc = "code"
        /\ rd' = [rd EXCEPT !.code = ReadCode(wire[1]), !.cmd = 0,
                            !.pc = IF rd.as = "file" /\ rd.name # NoFile
                                   THEN "open" ELSE "data"]
    BY DEF ReadErrorCode, Take
  <1>3. ReadCode(wire[1]) \in Bytes /\ wire' \in Seq(Bytes)
    <2>1. 1 <= Len(wire) /\ wire \in Seq(Bytes)
      BY <1>1, <1>2, LenProperties DEF ReaderTyped
    <2>2. (\A k \in 1..1 : wire[k] \in Bytes)
          /\ SubSeq(wire, 1 + 1, Len(wire)) \in Seq(Bytes)
      BY <2>1, SplitTyped
    <2> QED BY <1>2, <2>2, Constants
  <1>4. UNCHANGED <<out, tmp, shown, got, astray, faults>> /\ WritersUnchanged
    BY DEF ReadErrorCode, DiskUnchanged
  <1>5. rd' \in ReaderType
    BY <1>1, <1>2, <1>3, Constants DEF ReaderTyped, ReaderType, RdPCs
  <1>6. ReaderTyped'
    BY <1>1, <1>3, <1>4, <1>5 DEF ReaderTyped
  <1>7. Shape'
    BY <1>1, <1>2, <1>4 DEF Shape, ReaderTyped, ReaderType, WritersUnchanged
  <1> QED BY <1>4, <1>6, <1>7, ReaderKeepsTypes

LEMMA ReadDataTyped == TypeOK /\ Shape /\ ReadData => TypeOK' /\ Shape'
  <1> SUFFICES ASSUME TypeOK, Shape, ReadData PROVE TypeOK' /\ Shape'
    OBVIOUS
  <1> DEFINE data == SubSeq(wire, 1, rd.size)
             item == [kind |-> rd.as, code |-> rd.code, cmd |-> rd.cmd,
                      name |-> <<>>, data |-> data]
  <1>1. ReaderTyped
    BY DEF TypeOK, ReaderTyped, ReaderType
  <1>2. Len(wire) >= rd.size /\ wire' = SubSeq(wire, rd.size + 1, Len(wire)) /\ rd.pc = "data"
    BY DEF ReadData, Take
  <1>3. data \in Seq(Bytes) /\ wire' \in Seq(Bytes)
    <2>1. rd.size <= Len(wire) /\ wire \in Seq(Bytes) /\ rd.size \in Nat
      BY <1>1, <1>2, LenProperties DEF ReaderTyped, ReaderType
    <2>2. SubSeq(wire, 1, rd.size) \in Seq(Bytes)
          /\ SubSeq(wire, rd.size + 1, Len(wire)) \in Seq(Bytes)
      BY <2>1, SplitTyped
    <2> QED BY <1>2, <2>2
  <1>4. UNCHANGED <<out, tmp, shown, astray, faults>> /\ WritersUnchanged
    BY DEF ReadData, DiskUnchanged
  <1>5. \/ rd.as # "file" /\ Deliver(item)
        \/ /\ rd.as = "file" /\ UNCHANGED got
           /\ \/ rd' = [rd EXCEPT !.pc = "failed"]
              \/ rd' = [rd EXCEPT !.pc = "size", !.name = data]
    BY DEF ReadData
  <1>6. rd.as # "file" => item \in ItemType
    <2>1. rd.as # "copy" /\ rd.as \in Readers /\ rd.code \in Bytes /\ rd.cmd \in Bytes
      BY <1>1, <1>2 DEF Shape, ReaderTyped, ReaderType
    <2>2. <<>> \in Seq(Bytes)
      OBVIOUS
    <2> QED BY <1>3, <2>1, <2>2 DEF ItemType, Kinds, Readers
  <1> HIDE DEF data, item
  <1>7. rd' \in ReaderType /\ got' \in Seq(ItemType)
    BY <1>1, <1>3, <1>5, <1>6, DeliverTyped DEF ReaderTyped, ReaderType, RdPCs
  <1>8. ReaderTyped'
    BY <1>1, <1>3, <1>4, <1>7 DEF ReaderTyped
  <1>9. \/ rd' = IdleReader
        \/ rd' = [rd EXCEPT !.pc = "failed"]
        \/ rd.as = "file" /\ rd' = [rd EXCEPT !.pc = "size", !.name = data]
    BY <1>5 DEF Deliver
  <1>10. /\ rd'.pc \in {"idle", "failed", "size"}
         /\ rd'.name # NoFile => rd'.as = "file"
    <2>1. CASE rd' = IdleReader
      BY <2>1 DEF IdleReader
    <2>2. CASE rd' = [rd EXCEPT !.pc = "failed"]
      BY <1>1, <2>2 DEF Shape, ReaderTyped, ReaderType
    <2>3. CASE rd.as = "file" /\ rd' = [rd EXCEPT !.pc = "size", !.name = data]
      BY <1>1, <2>3 DEF ReaderTyped, ReaderType
    <2> QED BY <1>9, <2>1, <2>2, <2>3
  <1>11. Shape'
    BY <1>4, <1>10 DEF Shape, WritersUnchanged
  <1> QED BY <1>4, <1>8, <1>11, ReaderKeepsTypes

LEMMA FieldFailsTyped == TypeOK /\ Shape /\ FieldFails => TypeOK' /\ Shape'
  <1> SUFFICES ASSUME TypeOK, Shape, FieldFails PROVE TypeOK' /\ Shape'
    OBVIOUS
  <1>1. ReaderTyped
    BY DEF TypeOK, ReaderTyped, ReaderType
  <1>2. /\ UNCHANGED <<out, tmp, shown, got, astray, faults>> /\ WritersUnchanged
        /\ wire' = <<>> /\ rd' = [rd EXCEPT !.pc = "failed"]
    BY DEF FieldFails, Short, DiskUnchanged
  <1>3. ReaderTyped'
    BY <1>1, <1>2 DEF ReaderTyped, ReaderType, RdPCs
  <1>4. Shape'
    BY <1>1, <1>2 DEF Shape, ReaderTyped, ReaderType, WritersUnchanged
  <1> QED BY <1>2, <1>3, <1>4, ReaderKeepsTypes

LEMMA CreateTmpTyped == TypeOK /\ Shape /\ CreateTmp => TypeOK' /\ Shape'
  <1> SUFFICES ASSUME TypeOK, Shape, CreateTmp PROVE TypeOK' /\ Shape'
    OBVIOUS
  <1>1. ReaderTyped
    BY DEF TypeOK, ReaderTyped, ReaderType
  <1>2. UNCHANGED <<wire, out, shown, got, astray>> /\ WritersUnchanged
    BY DEF CreateTmp
  <1>3. /\ rd.pc = "open"
        /\ \/ tmp' = <<>> /\ rd' = [rd EXCEPT !.pc = "pieces", !.left = rd.size]
           \/ UNCHANGED tmp /\ rd' = [rd EXCEPT !.pc = "failed"]
    BY DEF CreateTmp
  <1>4. faults' \subseteq Faults /\ Cardinality(faults') <= MaxFaults
    BY FailTyped DEF CreateTmp, Faults
  <1>5. tmp' \in Seq(Bytes) \cup {NoFile} /\ rd' \in ReaderType
    <2>1. <<>> \in Seq(Bytes)
      OBVIOUS
    <2>2. tmp' \in Seq(Bytes) \cup {NoFile}
      BY <1>1, <1>3, <2>1 DEF ReaderTyped
    <2> QED BY <1>1, <1>3, <2>2 DEF ReaderTyped, ReaderType, RdPCs
  <1>6. ReaderTyped'
    BY <1>1, <1>2, <1>4, <1>5 DEF ReaderTyped
  <1>7. Shape'
    BY <1>1, <1>2, <1>3, Constants DEF Shape, ReaderTyped, ReaderType, WritersUnchanged
  <1> QED BY <1>2, <1>6, <1>7, ReaderKeepsTypes

\* The size of a round of readWrite.
LEMMA PieceTyped ==
    ASSUME NEW n \in Nat
    PROVE  /\ Piece(n) \in Nat /\ Piece(n) <= n
           /\ n > 0 => Piece(n) > 0
           /\ (IF Piece(n) < n THEN n - Piece(n) ELSE 0) = n - Piece(n)
  BY Constants DEF Piece

LEMMA CopyPieceTyped == TypeOK /\ Shape /\ CopyPiece => TypeOK' /\ Shape'
  <1> SUFFICES ASSUME TypeOK, Shape, CopyPiece PROVE TypeOK' /\ Shape'
    OBVIOUS
  <1> DEFINE n == Piece(rd.left)
             b == SubSeq(wire, 1, n)
  <1>1. ReaderTyped
    BY DEF TypeOK, ReaderTyped, ReaderType
  <1>2. UNCHANGED <<shown, got, astray, faults>> /\ WritersUnchanged
    BY DEF CopyPiece
  <1>3. /\ rd.pc = "pieces" /\ Len(wire) >= n /\ wire' = SubSeq(wire, n + 1, Len(wire))
        /\ Store(b)
        /\ rd' = [rd EXCEPT !.left = IF n < rd.left THEN rd.left - n ELSE 0]
    BY DEF CopyPiece, Take
  <1>4. n \in Nat /\ (IF n < rd.left THEN rd.left - n ELSE 0) \in Nat
    <2>1. rd.left \in Nat
      BY <1>1 DEF ReaderTyped, ReaderType
    <2> QED BY <2>1, PieceTyped
  <1> HIDE DEF n
  <1>5. b \in Seq(Bytes) /\ wire' \in Seq(Bytes)
    <2>1. n <= Len(wire) /\ wire \in Seq(Bytes)
      BY <1>1, <1>3, <1>4, LenProperties DEF ReaderTyped
    <2> QED BY <1>3, <1>4, <2>1, SplitTyped
  <1> HIDE DEF b
  <1>6. /\ out' \in Seq(Bytes) /\ tmp' \in Seq(Bytes) \cup {NoFile}
        /\ rd.as = "file" => tmp' # NoFile
    <2>1. CASE rd.as = "copy"
      <3>1. out' = out \o b /\ tmp' = tmp
        BY <1>3, <2>1 DEF Store
      <3>2. out' \in Seq(Bytes)
        BY <1>1, <1>5, <3>1, ConcatProperties DEF ReaderTyped
      <3> QED BY <1>1, <2>1, <3>1, <3>2 DEF ReaderTyped
    <2>2. CASE rd.as # "copy"
      <3>1. rd.as = "file" /\ tmp # NoFile
        BY <1>3, <2>2 DEF Shape
      <3>2. tmp \in Seq(Bytes)
        BY <1>1, <3>1 DEF ReaderTyped
      <3>3. tmp' = tmp \o b /\ out' = out
        BY <1>3, <2>2 DEF Store
      <3>4. tmp' \in Seq(Bytes)
        BY <1>5, <3>2, <3>3, ConcatProperties
      <3> QED BY <1>1, <3>3, <3>4, Constants DEF ReaderTyped
    <2> QED BY <2>1, <2>2
  <1>7. rd' \in ReaderType
    BY <1>1, <1>3, <1>4 DEF ReaderTyped, ReaderType
  <1>8. ReaderTyped'
    BY <1>1, <1>2, <1>5, <1>6, <1>7 DEF ReaderTyped
  <1>9. Shape'
    BY <1>1, <1>2, <1>3, <1>6 DEF Shape, ReaderTyped, ReaderType, WritersUnchanged
  <1> QED BY <1>2, <1>8, <1>9, ReaderKeepsTypes

LEMMA CleanUpTyped ==
    ASSUME TypeOK, NEW F \in SUBSET Faults, CleanUp(F)
    PROVE  /\ faults' \subseteq Faults /\ Cardinality(faults') <= MaxFaults
           /\ tmp' \in Seq(Bytes) \cup {NoFile}
  <1>1. F \cup {"remove"} \in SUBSET Faults
    BY DEF Faults
  <1>2. \E G \in SUBSET Faults : Fail(G)
    BY <1>1 DEF CleanUp
  <1> QED BY <1>2, FailTyped DEF CleanUp, TypeOK

LEMMA PieceFailsTyped == TypeOK /\ Shape /\ PieceFails => TypeOK' /\ Shape'
  <1> SUFFICES ASSUME TypeOK, Shape, PieceFails PROVE TypeOK' /\ Shape'
    OBVIOUS
  <1> DEFINE n == Piece(rd.left)
  <1>1. ReaderTyped
    BY DEF TypeOK, ReaderTyped, ReaderType
  <1>2. /\ UNCHANGED <<shown, got, astray>> /\ WritersUnchanged
        /\ rd' = [rd EXCEPT !.pc = "failed"]
    BY DEF PieceFails, PieceShort, PieceUnwritten
  <1>3. n \in Nat /\ wire \in Seq(Bytes) /\ rd.left \in Nat
    BY <1>1, PieceTyped DEF ReaderTyped, ReaderType
  <1>4. /\ wire' \in Seq(Bytes) /\ out' \in Seq(Bytes) /\ tmp' \in Seq(Bytes) \cup {NoFile}
        /\ faults' \subseteq Faults /\ Cardinality(faults') <= MaxFaults
    <2>1. CASE PieceShort
      <3>1. wire' = <<>> /\ out' = out
        BY <2>1 DEF PieceShort, Short
      <3>2. UNCHANGED <<tmp, faults>> \/ CleanUp({})
        BY <2>1 DEF PieceShort
      <3>3. {} \in SUBSET Faults
        OBVIOUS
      <3>4. tmp' \in Seq(Bytes) \cup {NoFile} /\ faults' \subseteq Faults
            /\ Cardinality(faults') <= MaxFaults
        BY <1>1, <3>2, <3>3, CleanUpTyped DEF ReaderTyped
      <3> QED BY <1>1, <3>1, <3>4 DEF ReaderTyped
    <2>2. CASE PieceUnwritten
      <3>1. n <= Len(wire) /\ wire' = SubSeq(wire, n + 1, Len(wire))
        BY <1>3, <2>2, LenProperties DEF PieceUnwritten, Take
      <3>2. wire' \in Seq(Bytes)
        BY <1>3, <3>1, SplitTyped
      <3>3. {"write"} \in SUBSET Faults
        BY DEF Faults
      <3>4. CASE rd.as = "copy"
        <4>1. /\ \E k \in 0..n - 1 : out' = out \o SubSeq(wire, 1, k)
              /\ Fail({"write"}) /\ UNCHANGED tmp
          BY <2>2, <3>4 DEF PieceUnwritten
        <4>2. PICK k \in 0..n - 1 : out' = out \o SubSeq(wire, 1, k)
          BY <4>1
        <4>3. k \in Nat /\ k <= Len(wire)
          BY <1>3, <3>1, LenProperties
        <4>4. SubSeq(wire, 1, k) \in Seq(Bytes)
          BY <1>3, <4>3, SplitTyped
        <4>5. out' \in Seq(Bytes)
          BY <1>1, <4>2, <4>4, ConcatProperties DEF ReaderTyped
        <4> QED BY <1>1, <3>2, <3>3, <4>1, <4>5, FailTyped DEF ReaderTyped
      <3>5. CASE rd.as # "copy"
        <4>1. CleanUp({"write"}) /\ out' = out
          BY <2>2, <3>5 DEF PieceUnwritten
        <4> QED BY <1>1, <3>2, <3>3, <4>1, CleanUpTyped DEF ReaderTyped
      <3> QED BY <3>4, <3>5
    <2> QED BY <2>1, <2>2 DEF PieceFails
  <1>5. rd' \in ReaderType
    BY <1>1, <1>2 DEF ReaderTyped, ReaderType, RdPCs
  <1>6. ReaderTyped'
    BY <1>1, <1>2, <1>4, <1>5 DEF ReaderTyped
  <1>7. Shape'
    BY <1>1, <1>2 DEF Shape, ReaderTyped, ReaderType, WritersUnchanged
  <1> QED BY <1>2, <1>6, <1>7, ReaderKeepsTypes

LEMMA PiecesDoneTyped == TypeOK /\ Shape /\ PiecesDone => TypeOK' /\ Shape'
  <1> SUFFICES ASSUME TypeOK, Shape, PiecesDone PROVE TypeOK' /\ Shape'
    OBVIOUS
  <1>1. ReaderTyped
    BY DEF TypeOK, ReaderTyped, ReaderType
  <1>2. UNCHANGED <<wire, out, tmp, shown, astray, faults>> /\ WritersUnchanged
    BY DEF PiecesDone, DiskUnchanged
  <1>3. /\ rd.pc = "pieces"
        /\ \/ rd.as = "copy" /\ Deliver(Copied)
           \/ rd.as # "copy" /\ rd' = [rd EXCEPT !.pc = "close"] /\ UNCHANGED got
    BY DEF PiecesDone
  <1>4. Copied \in ItemType
    <2> DEFINE a == Len(CopyHeader(rd.size)) + 1
               body == SubSeq(out, a, Len(out))
               data == SubSeq(body, 3, Len(body))
    <2>1. a \in Nat /\ a > 0 /\ out \in Seq(Bytes)
      <3>1. ToBytes(rd.size) \in Seq(Bytes) /\ <<0>> \in Seq(Bytes) /\ <<>> \in Seq(Bytes)
        BY <1>1, ToBytesTyped, Constants DEF ReaderTyped, ReaderType
      <3>2. CopyHeader(rd.size) \in Seq(Bytes)
        BY <3>1, ConcatProperties DEF CopyHeader
      <3> QED BY <1>1, <3>2, LenProperties DEF ReaderTyped
    <2> HIDE DEF a
    <2>2. body \in Seq(Bytes)
      BY <2>1
    <2> HIDE DEF body
    <2>3. data \in Seq(Bytes)
      BY <2>2
    <2>4. /\ body # <<>> => body[1] \in Bytes
          /\ ~(Len(body) < 2) => body[2] \in Bytes
      BY <2>2
    <2>5. 0 \in Bytes /\ <<>> \in Seq(Bytes)
      BY Constants
    <2> HIDE DEF data
    <2>6. Copied = [kind |-> "message", name |-> <<>>,
                    code |-> IF body = <<>> THEN 0 ELSE body[1],
                    cmd  |-> IF Len(body) < 2 THEN 0 ELSE body[2],
                    data |-> data]
      BY DEF Copied, a, body, data
    <2> QED BY <2>3, <2>4, <2>5, <2>6 DEF ItemType, Kinds
  <1>5. rd' \in ReaderType /\ got' \in Seq(ItemType)
    BY <1>1, <1>3, <1>4, DeliverTyped DEF ReaderTyped, ReaderType, RdPCs
  <1>6. ReaderTyped'
    BY <1>1, <1>2, <1>5 DEF ReaderTyped
  <1>7. Shape'
    <2>1. CASE rd' = IdleReader
      BY <1>2, <2>1 DEF IdleReader, Shape, WritersUnchanged
    <2>2. CASE rd.as # "copy" /\ rd' = [rd EXCEPT !.pc = "close"]
      BY <1>1, <1>2, <1>3, <2>2 DEF Shape, ReaderTyped, ReaderType, WritersUnchanged
    <2> QED BY <1>3, <2>1, <2>2 DEF Deliver
  <1> QED BY <1>2, <1>6, <1>7, ReaderKeepsTypes

LEMMA CloseTmpTyped == TypeOK /\ Shape /\ CloseTmp => TypeOK' /\ Shape'
  <1> SUFFICES ASSUME TypeOK, Shape, CloseTmp PROVE TypeOK' /\ Shape'
    OBVIOUS
  <1>1. ReaderTyped
    BY DEF TypeOK, ReaderTyped, ReaderType
  <1>2. UNCHANGED <<wire, out, tmp, shown, got, astray>> /\ WritersUnchanged
    BY DEF CloseTmp, DiskUnchanged
  <1>3. /\ rd.pc = "close"
        /\ rd' = [rd EXCEPT !.pc = "rename"] \/ rd' = [rd EXCEPT !.pc = "failed"]
    BY DEF CloseTmp
  <1>4. faults' \subseteq Faults /\ Cardinality(faults') <= MaxFaults
    BY FailTyped DEF CloseTmp, Faults
  <1>5. rd' \in ReaderType
    BY <1>1, <1>3 DEF ReaderTyped, ReaderType, RdPCs
  <1>6. ReaderTyped'
    BY <1>1, <1>2, <1>4, <1>5 DEF ReaderTyped
  <1>7. Shape'
    BY <1>1, <1>2, <1>3 DEF Shape, ReaderTyped, ReaderType, WritersUnchanged
  <1> QED BY <1>2, <1>6, <1>7, ReaderKeepsTypes

LEMMA RenameTmpTyped == TypeOK /\ Shape /\ RenameTmp => TypeOK' /\ Shape'
  <1> SUFFICES ASSUME TypeOK, Shape, RenameTmp PROVE TypeOK' /\ Shape'
    OBVIOUS
  <1> DEFINE file == [name |-> rd.name, data |-> tmp]
             item == [kind |-> "file", code |-> rd.code, cmd |-> 0,
                      name |-> rd.name, data |-> tmp]
  <1>1. ReaderTyped
    BY DEF TypeOK, ReaderTyped, ReaderType
  <1>2. UNCHANGED <<wire, out, astray>> /\ WritersUnchanged
    BY DEF RenameTmp
  <1>3. rd.as = "file" /\ rd.name \in Seq(Bytes) /\ tmp \in Seq(Bytes) /\ rd.code \in Bytes
    BY <1>1 DEF RenameTmp, Shape, ReaderTyped, ReaderType
  <1>4. CASE /\ shown' = {f \in shown : f.name # rd.name} \cup {file}
             /\ tmp' = NoFile /\ Deliver(item) /\ UNCHANGED faults
    <2>1. item \in ItemType
      BY <1>3, Constants DEF ItemType, Kinds
    <2> HIDE DEF item
    <2>2. got' \in Seq(ItemType) /\ rd' \in ReaderType /\ rd' = IdleReader
      BY <1>4, <2>1, DeliverTyped
    <2>3. \A f \in shown' : f.name \in Seq(Bytes) /\ f.data \in Seq(Bytes)
      BY <1>1, <1>3, <1>4 DEF ReaderTyped
    <2>4. ReaderTyped'
      BY <1>1, <1>2, <1>4, <2>2, <2>3 DEF ReaderTyped
    <2>5. Shape'
      BY <1>2, <2>2 DEF IdleReader, Shape, WritersUnchanged
    <2> QED BY <1>2, <2>4, <2>5, ReaderKeepsTypes
  <1>5. CASE /\ CleanUp({"rename"})
             /\ rd' = [rd EXCEPT !.pc = "failed"]
             /\ UNCHANGED <<shown, got>>
    <2>1. {"rename"} \in SUBSET Faults
      BY DEF Faults
    <2>2. faults' \subseteq Faults /\ Cardinality(faults') <= MaxFaults
          /\ tmp' \in Seq(Bytes) \cup {NoFile}
      BY <1>5, <2>1, CleanUpTyped
    <2>3. rd' \in ReaderType
      BY <1>1, <1>5 DEF ReaderTyped, ReaderType, RdPCs
    <2>4. ReaderTyped'
      BY <1>1, <1>2, <1>5, <2>2, <2>3 DEF ReaderTyped
    <2>5. Shape'
      BY <1>1, <1>2, <1>5 DEF Shape, ReaderTyped, ReaderType, WritersUnchanged
    <2> QED BY <1>2, <2>4, <2>5, ReaderKeepsTypes
  <1> QED BY <1>4, <1>5 DEF RenameTmp

LEMMA CallTyped ==
    ASSUME TypeOK, Shape, NEW reader \in Readers, Call(reader)
    PROVE  TypeOK' /\ Shape'
  <1>1. ReaderTyped
    BY DEF TypeOK, ReaderTyped, ReaderType
  <1>2. /\ UNCHANGED <<wire, tmp, shown, got, astray, faults>> /\ WritersUnchanged
        /\ out' = <<>>
    BY DEF Call, DiskUnchanged
  <1>3. \E b \in BOOLEAN :
            rd' = [rd EXCEPT !.pc = "size", !.as = reader, !.name = NoFile, !.sized = b]
    <2> DEFINE R(b) == [rd EXCEPT !.pc = "size", !.as = reader, !.name = NoFile,
                                  !.sized = b]
               B == IF reader = "copy" THEN BOOLEAN ELSE {FALSE}
    <2>1. \E b \in B : rd' = R(b)
      BY Zenon DEF Call
    <2>2. B \subseteq BOOLEAN
      OBVIOUS
    <2> HIDE DEF R, B
    <2>3. \E b \in BOOLEAN : rd' = R(b)
      BY <2>1, <2>2
    <2> QED BY <2>3, Zenon DEF R
  <1>4. rd' \in ReaderType
    BY <1>1, <1>3 DEF ReaderTyped, ReaderType, RdPCs
  <1>5. ReaderTyped'
    BY <1>1, <1>2, <1>4 DEF ReaderTyped
  <1>6. Shape'
    BY <1>1, <1>2, <1>3 DEF Shape, ReaderTyped, ReaderType, WritersUnchanged
  <1> QED BY <1>2, <1>5, <1>6, ReaderKeepsTypes

\* The writers' steps, and the end of the stream.
LEMMA BeginTyped ==
    ASSUME TypeOK, Shape, NEW w \in Writers, NEW i \in Items, Begin(w, i)
    PROVE  TypeOK' /\ Shape'
  <1>1. /\ UNCHANGED <<cut, rd, out, tmp, shown, got, astray, faults>>
        /\ Put(w, i, Writes(i)) /\ sent' = Append(sent, i) /\ Len(sent) < MaxItems
        /\ mixed' = (mixed \/ \E v \in Writers : wr[v].pc # "idle")
    BY DEF Begin, ReaderUnchanged
  <1>2. Writes(i) \in Seq(Seq(Bytes)) /\ Len(Writes(i)) > 0
    BY WritesTyped
  <1>3. /\ wire' \in Seq(Bytes) /\ wr' \in [Writers -> WriterType]
        /\ \A v \in Writers :
               wr'[v].pc = "midway" => wr'[v].item \in Items /\ Len(wr'[v].left) > 0
    BY <1>1, <1>2, PutTyped
  <1>4. sent' \in Seq(Items) /\ Len(sent') <= MaxItems
    <2>1. sent \in Seq(Items) /\ Len(sent) \in Nat /\ MaxItems \in Nat
      BY FramingAssumption, LenProperties DEF TypeOK
    <2>2. sent' \in Seq(Items) /\ Len(sent') = Len(sent) + 1
      BY <1>1, <2>1, AppendProperties
    <2> QED BY <1>1, <2>1, <2>2
  <1>5. mixed' \in BOOLEAN
    BY <1>1 DEF TypeOK
  <1>6. TypeOK'
    BY <1>1, <1>3, <1>4, <1>5 DEF TypeOK, WriterType
  <1>7. Shape'
    BY <1>1, <1>3 DEF Shape
  <1> QED BY <1>6, <1>7

LEMMA WriterStepTyped ==
    ASSUME TypeOK, Shape, NEW w \in Writers, WriterStep(w)
    PROVE  TypeOK' /\ Shape'
  <1>1. UNCHANGED <<cut, rd, out, tmp, shown, got, astray, sent, mixed>>
    BY DEF WriterStep, GoOn, WriterFails, ReaderUnchanged
  <1>2. wr \in [Writers -> WriterType] /\ wr[w].pc = "midway"
    BY DEF TypeOK, WriterType, WriterStep, GoOn, WriterFails
  <1>3. /\ wire' \in Seq(Bytes) /\ wr' \in [Writers -> WriterType]
        /\ \A v \in Writers :
               wr'[v].pc = "midway" => wr'[v].item \in Items /\ Len(wr'[v].left) > 0
        /\ faults' \subseteq Faults /\ Cardinality(faults') <= MaxFaults
    <2>1. CASE GoOn(w)
      <3>1. Put(w, wr[w].item, wr[w].left) /\ UNCHANGED faults
        BY <2>1 DEF GoOn
      <3>2. wr[w].item \in Items /\ Len(wr[w].left) > 0
        BY <1>2 DEF Shape
      <3>3. wr[w].left \in Seq(Seq(Bytes))
        BY <1>2 DEF WriterType
      <3> QED BY <3>1, <3>2, <3>3, PutTyped, FailTyped
    <2>2. CASE WriterFails(w)
      <3>1. UNCHANGED wire /\ wr' = [wr EXCEPT ![w].pc = "failed"]
        BY <2>2 DEF WriterFails
      <3>2. faults' \subseteq Faults /\ Cardinality(faults') <= MaxFaults
        BY <2>2, FailTyped DEF WriterFails, Faults
      <3>3. wire' \in Seq(Bytes)
        BY <3>1 DEF TypeOK
      <3>4. wr' \in [Writers -> WriterType]
        BY <1>2, <3>1 DEF WriterType
      <3>5. \A v \in Writers : (v # w => wr'[v] = wr[v]) /\ wr'[w].pc = "failed"
        BY <1>2, <3>1 DEF WriterType
      <3> QED BY <3>2, <3>3, <3>4, <3>5 DEF Shape
    <2> QED BY <2>1, <2>2 DEF WriterStep
  <1>4. TypeOK'
    BY <1>1, <1>3 DEF TypeOK, WriterType
  <1>5. Shape'
    BY <1>1, <1>3 DEF Shape
  <1> QED BY <1>4, <1>5

LEMMA CutTyped ==
    ASSUME TypeOK, Shape, NEW n \in 0..MaxRest, Cut(n)
    PROVE  TypeOK' /\ Shape'
  <1>1. /\ UNCHANGED <<wr, rd, out, tmp, shown, sent, got, mixed, astray>>
        /\ cut' = TRUE /\ n <= Len(wire) /\ wire' = SubSeq(wire, 1, n)
    BY DEF Cut
  <1>2. faults' \subseteq Faults /\ Cardinality(faults') <= MaxFaults
    BY FailTyped DEF Cut, Faults
  <1>3. wire' \in Seq(Bytes)
    <2>1. n \in Nat /\ wire \in Seq(Bytes)
      BY FramingAssumption DEF TypeOK
    <2> QED BY <1>1, <2>1, SplitTyped
  <1>4. TypeOK'
    BY <1>1, <1>2, <1>3 DEF TypeOK
  <1>5. Shape'
    BY <1>1 DEF Shape
  <1> QED BY <1>4, <1>5

LEMMA TypedStep == TypeOK /\ Shape /\ [Next]_vars => TypeOK' /\ Shape'
  <1> SUFFICES ASSUME TypeOK, Shape, [Next]_vars PROVE TypeOK' /\ Shape'
    OBVIOUS
  <1>1. CASE ReaderStep
    BY <1>1, ReadSizeTyped, HeaderUnwrittenTyped, ReadHeadTyped, ReadErrorCodeTyped,
       ReadDataTyped, FieldFailsTyped, CreateTmpTyped, CopyPieceTyped, PieceFailsTyped,
       PiecesDoneTyped, CloseTmpTyped, RenameTmpTyped DEF ReaderStep
  <1>2. CASE UNCHANGED vars
    BY <1>2 DEF vars, TypeOK, Shape
  <1> QED BY <1>1, <1>2, BeginTyped, WriterStepTyped, CutTyped, CallTyped DEF Next

LEMMA TypedInit == Init => TypeOK /\ Shape
  <1> SUFFICES ASSUME Init PROVE TypeOK /\ Shape
    OBVIOUS
  <1>1. rd \in ReaderType /\ rd = IdleReader
    BY Constants DEF Init, IdleReader, ReaderType, RdPCs, Readers, Kinds
  <1>2. wr \in [Writers -> WriterType] /\ \A w \in Writers : wr[w].pc = "idle"
    BY DEF Init, IdleWriter, WriterType
  <1>3. /\ sent \in Seq(Items) /\ Len(sent) = 0 /\ got \in Seq(ItemType)
        /\ wire \in Seq(Bytes) /\ out \in Seq(Bytes)
    BY EmptySeq DEF Init
  <1>4. Cardinality(faults) <= MaxFaults /\ faults \subseteq Faults /\ 0 <= MaxItems
    BY FS_EmptySet, FramingAssumption DEF Init
  <1>5. TypeOK
    BY <1>1, <1>2, <1>3, <1>4 DEF Init, TypeOK, ReaderType, WriterType
  <1>6. Shape
    BY <1>1, <1>2 DEF IdleReader, Shape
  <1> QED BY <1>5, <1>6

\* What crosses the stream are bytes, what is read is an item, and every local
\* of the writers and of the reader stays in its range.
THEOREM FramingTyped == Spec => []TypeOK
  <1>1. Init => TypeOK /\ Shape
    BY TypedInit
  <1>2. TypeOK /\ Shape /\ [Next]_vars => TypeOK' /\ Shape'
    BY TypedStep
  <1> QED BY <1>1, <1>2, PTL DEF Spec

-----------------------------------------------------------------------------
(* The bytes of an item, and where each Write puts its own.                 *)

\* What the Writes of an item amount to.
Image(i) ==
    CASE i.kind = "message" -> ToBytes(Len(i.data)) \o <<i.code, i.cmd>> \o i.data
      [] i.kind = "frame"   -> ToBytes(Len(i.data)) \o <<i.code>> \o i.data
      [] i.kind = "file"    -> (ToBytes(Len(i.name)) \o <<0>> \o i.name)
                               \o (ToBytes(Len(i.data)) \o <<0>> \o i.data)

LEMMA ItemFields ==
    ASSUME NEW i \in Items
    PROVE  /\ i \in ItemType /\ i.kind \in Kinds /\ i.code \in Bytes /\ i.cmd \in Bytes
           /\ i.name \in Seq(Bytes) /\ i.data \in Seq(Bytes)
           /\ Len(i.name) \in Nat /\ Len(i.data) \in Nat
           /\ i.kind # "message" => i.cmd = 0
           /\ i.kind = "file" => i.code = 0
           /\ i.kind # "file" => i.name = <<>>
  <1>1. i \in ItemType
    BY ItemsAssumption
  <1> QED BY <1>1, ItemsAssumption DEF ItemType

\* A size, a field and a payload, one after the other.
LEMMA Fields3 ==
    ASSUME NEW h \in Seq(Bytes), Len(h) = 4, NEW x \in Seq(Bytes), NEW d \in Seq(Bytes)
    PROVE  LET s == h \o x \o d
           IN  /\ s \in Seq(Bytes) /\ Len(s) = 4 + Len(x) + Len(d)
               /\ \A j \in 1..4 : s[j] = h[j]
               /\ \A j \in 1..Len(x) : s[4 + j] = x[j]
               /\ \A j \in 1..Len(d) : s[4 + Len(x) + j] = d[j]
  <1> DEFINE a == h \o x
             s == a \o d
  <1>1. Len(x) \in Nat /\ Len(d) \in Nat
    OBVIOUS
  <1>2. /\ a \in Seq(Bytes) /\ Len(a) = 4 + Len(x)
        /\ \A j \in 1..4 + Len(x) : a[j] = IF j <= 4 THEN h[j] ELSE x[j - 4]
    <2>1. /\ a \in Seq(Bytes) /\ Len(a) = Len(h) + Len(x)
          /\ \A j \in 1..Len(h) + Len(x) : a[j] = IF j <= Len(h) THEN h[j] ELSE x[j - Len(h)]
      BY ConcatProperties
    <2> QED BY <2>1
  <1> HIDE DEF a
  <1>3. /\ s \in Seq(Bytes) /\ Len(s) = 4 + Len(x) + Len(d)
        /\ \A j \in 1..4 + Len(x) + Len(d) :
               s[j] = IF j <= 4 + Len(x) THEN a[j] ELSE d[j - (4 + Len(x))]
    <2>1. /\ s \in Seq(Bytes) /\ Len(s) = Len(a) + Len(d)
          /\ \A j \in 1..Len(a) + Len(d) : s[j] = IF j <= Len(a) THEN a[j] ELSE d[j - Len(a)]
      BY <1>2, ConcatProperties
    <2> QED BY <1>2, <2>1
  <1> HIDE DEF s
  <1>4. \A j \in 1..4 : s[j] = h[j]
    BY <1>1, <1>2, <1>3
  <1>5. ASSUME NEW j \in 1..Len(x) PROVE s[4 + j] = x[j]
    <2>1. 4 + j \in 1..4 + Len(x) /\ 4 + j \in 1..4 + Len(x) + Len(d) /\ (4 + j) - 4 = j
          /\ 4 + j <= 4 + Len(x) /\ ~(4 + j <= 4)
      BY <1>1
    <2> QED BY <1>2, <1>3, <2>1
  <1>6. ASSUME NEW j \in 1..Len(d) PROVE s[4 + Len(x) + j] = d[j]
    <2>1. 4 + Len(x) + j \in 1..4 + Len(x) + Len(d) /\ (4 + Len(x) + j) - (4 + Len(x)) = j
          /\ ~(4 + Len(x) + j <= 4 + Len(x))
      BY <1>1
    <2> QED BY <1>3, <2>1
  <1> QED BY <1>3, <1>4, <1>5, <1>6 DEF a, s

LEMMA MessageImage ==
    ASSUME NEW i \in Items, i.kind = "message"
    PROVE  /\ Image(i) \in Seq(Bytes) /\ Len(Image(i)) = 6 + Len(i.data)
           /\ \A j \in 1..4 : Image(i)[j] = ToBytes(Len(i.data))[j]
           /\ Image(i)[5] = i.code /\ Image(i)[6] = i.cmd
           /\ \A j \in 1..Len(i.data) : Image(i)[6 + j] = i.data[j]
  <1> DEFINE h == ToBytes(Len(i.data))
             x == <<i.code, i.cmd>>
             s == h \o x \o i.data
  <1>1. h \in Seq(Bytes) /\ Len(h) = 4
    BY ItemFields, ToBytesTyped
  <1>2. x \in Seq(Bytes) /\ Len(x) = 2 /\ x[1] = i.code /\ x[2] = i.cmd
    BY ItemFields
  <1>3. i.data \in Seq(Bytes) /\ Len(i.data) \in Nat
    BY ItemFields
  <1>4. Image(i) = s
    BY DEF Image
  <1> HIDE DEF h, x
  <1>5. /\ s \in Seq(Bytes) /\ Len(s) = 4 + Len(x) + Len(i.data)
        /\ \A j \in 1..4 : s[j] = h[j]
        /\ \A j \in 1..Len(x) : s[4 + j] = x[j]
        /\ \A j \in 1..Len(i.data) : s[4 + Len(x) + j] = i.data[j]
    BY <1>1, <1>2, <1>3, Fields3
  <1> HIDE DEF s
  <1>6. Len(s) = 6 + Len(i.data) /\ s[4 + 1] = x[1] /\ s[4 + 2] = x[2]
    BY <1>2, <1>3, <1>5
  <1>7. \A j \in 1..Len(i.data) : s[6 + j] = i.data[j]
    BY <1>2, <1>5
  <1> QED BY <1>2, <1>4, <1>5, <1>6, <1>7 DEF h

LEMMA FrameImage ==
    ASSUME NEW i \in Items, i.kind = "frame"
    PROVE  /\ Image(i) \in Seq(Bytes) /\ Len(Image(i)) = 5 + Len(i.data)
           /\ \A j \in 1..4 : Image(i)[j] = ToBytes(Len(i.data))[j]
           /\ Image(i)[5] = i.code
           /\ \A j \in 1..Len(i.data) : Image(i)[5 + j] = i.data[j]
  <1> DEFINE h == ToBytes(Len(i.data))
             x == <<i.code>>
             s == h \o x \o i.data
  <1>1. h \in Seq(Bytes) /\ Len(h) = 4
    BY ItemFields, ToBytesTyped
  <1>2. x \in Seq(Bytes) /\ Len(x) = 1 /\ x[1] = i.code
    BY ItemFields
  <1>3. i.data \in Seq(Bytes) /\ Len(i.data) \in Nat
    BY ItemFields
  <1>4. Image(i) = s
    BY DEF Image
  <1> HIDE DEF h, x
  <1>5. /\ s \in Seq(Bytes) /\ Len(s) = 4 + Len(x) + Len(i.data)
        /\ \A j \in 1..4 : s[j] = h[j]
        /\ \A j \in 1..Len(x) : s[4 + j] = x[j]
        /\ \A j \in 1..Len(i.data) : s[4 + Len(x) + j] = i.data[j]
    BY <1>1, <1>2, <1>3, Fields3
  <1> HIDE DEF s
  <1>6. Len(s) = 5 + Len(i.data) /\ s[4 + 1] = x[1]
    BY <1>2, <1>3, <1>5
  <1>7. \A j \in 1..Len(i.data) : s[5 + j] = i.data[j]
    BY <1>2, <1>5
  <1> QED BY <1>2, <1>4, <1>5, <1>6, <1>7 DEF h

LEMMA FileImage ==
    ASSUME NEW i \in Items, i.kind = "file"
    PROVE  LET N == Len(i.name)
               L == Len(i.data)
           IN  /\ Image(i) \in Seq(Bytes) /\ Len(Image(i)) = 10 + N + L
               /\ \A j \in 1..4 : Image(i)[j] = ToBytes(N)[j]
               /\ Image(i)[5] = 0
               /\ \A j \in 1..N : Image(i)[5 + j] = i.name[j]
               /\ \A j \in 1..4 : Image(i)[5 + N + j] = ToBytes(L)[j]
               /\ Image(i)[10 + N] = 0
               /\ \A j \in 1..L : Image(i)[10 + N + j] = i.data[j]
  <1> DEFINE N == Len(i.name)
             L == Len(i.data)
             h == ToBytes(N)
             k == ToBytes(L)
             x == <<0>>
             s == h \o x \o i.name
             t == k \o x \o i.data
             u == s \o t
  <1>1. h \in Seq(Bytes) /\ Len(h) = 4
    BY ItemFields, ToBytesTyped
  <1>1a. k \in Seq(Bytes) /\ Len(k) = 4
    BY ItemFields, ToBytesTyped
  <1>2. x \in Seq(Bytes) /\ Len(x) = 1 /\ x[1] = 0
    BY Constants
  <1>2a. x \in Seq(Bytes)
    BY <1>2
  <1>3. i.data \in Seq(Bytes) /\ L \in Nat /\ i.name \in Seq(Bytes) /\ N \in Nat
    BY ItemFields
  <1>3a. i.name \in Seq(Bytes)
    BY <1>3
  <1>3b. i.data \in Seq(Bytes)
    BY <1>3
  <1>4. Image(i) = u
    BY DEF Image
  <1> HIDE DEF h, k, x
  <1>5. /\ s \in Seq(Bytes) /\ Len(s) = 4 + Len(x) + N
        /\ \A j \in 1..4 : s[j] = h[j]
        /\ \A j \in 1..Len(x) : s[4 + j] = x[j]
        /\ \A j \in 1..N : s[4 + Len(x) + j] = i.name[j]
    BY <1>1, <1>2a, <1>3a, Fields3
  <1>6. /\ t \in Seq(Bytes) /\ Len(t) = 4 + Len(x) + L
        /\ \A j \in 1..4 : t[j] = k[j]
        /\ \A j \in 1..Len(x) : t[4 + j] = x[j]
        /\ \A j \in 1..L : t[4 + Len(x) + j] = i.data[j]
    BY <1>1a, <1>2a, <1>3b, Fields3
  <1> HIDE DEF s, t
  <1>7. /\ u \in Seq(Bytes) /\ Len(u) = Len(s) + Len(t)
        /\ \A j \in 1..Len(s) + Len(t) : u[j] = IF j <= Len(s) THEN s[j] ELSE t[j - Len(s)]
    <2>1. s \in Seq(Bytes) /\ t \in Seq(Bytes)
      BY <1>5, <1>6
    <2> QED BY <2>1, ConcatProperties
  <1>8. Len(s) = 5 + N /\ Len(t) = 5 + L
    BY <1>2, <1>3, <1>5, <1>6
  <1> HIDE DEF u, N, L
  <1>9. /\ \A j \in 1..5 + N : u[j] = s[j]
        /\ \A j \in 1..5 + L : u[5 + N + j] = t[j]
    <2>1. ASSUME NEW j \in 1..5 + N PROVE u[j] = s[j]
      <3>1. j \in 1..Len(s) + Len(t) /\ j <= Len(s)
        BY <1>3, <1>8
      <3> QED BY <1>7, <3>1
    <2>2. ASSUME NEW j \in 1..5 + L PROVE u[5 + N + j] = t[j]
      <3>1. 5 + N + j \in 1..Len(s) + Len(t) /\ ~(5 + N + j <= Len(s))
            /\ (5 + N + j) - Len(s) = j
        BY <1>3, <1>8
      <3> QED BY <1>7, <3>1
    <2> QED BY <2>1, <2>2
  <1>10. \A j \in 1..4 : u[j] = h[j] /\ u[5 + N + j] = k[j]
    BY <1>3, <1>5, <1>6, <1>9
  <1>11. u[5] = 0 /\ u[10 + N] = 0
    <2>1. s[4 + 1] = 0 /\ t[4 + 1] = 0
      BY <1>2, <1>5, <1>6
    <2>2. 5 \in 1..5 + N /\ 5 \in 1..5 + L /\ 5 + N + 5 = 10 + N
      BY <1>3
    <2> QED BY <1>9, <2>1, <2>2
  <1>12. ASSUME NEW j \in 1..N PROVE u[5 + j] = i.name[j]
    <2>1. 5 + j \in 1..5 + N /\ 4 + Len(x) + j = 5 + j
      BY <1>2, <1>3
    <2> QED BY <1>5, <1>9, <2>1
  <1>13. ASSUME NEW j \in 1..L PROVE u[10 + N + j] = i.data[j]
    <2>1. 5 + j \in 1..5 + L /\ 4 + Len(x) + j = 5 + j /\ 5 + N + (5 + j) = 10 + N + j
      BY <1>2, <1>3
    <2> QED BY <1>6, <1>9, <2>1
  <1>14. Len(u) = 10 + N + L
    BY <1>3, <1>7, <1>8
  <1> QED BY <1>4, <1>7, <1>10, <1>11, <1>12, <1>13, <1>14 DEF h, k, N, L

\* How many bytes of item i come before its k-th Write.
Start(i, k) ==
    CASE k = 1 -> 0
      [] k # 1 /\ i.kind = "message" -> 6 + Len(i.data)
      [] k # 1 /\ i.kind = "frame"   -> IF k = 2 THEN 5 ELSE 5 + Len(i.data)
      [] k # 1 /\ i.kind = "file"    ->
             IF k = 2 THEN 5
             ELSE IF k = 3 THEN 5 + Len(i.name)
             ELSE IF k = 4 THEN 9 + Len(i.name)
             ELSE 10 + Len(i.name) + (IF k - 5 = Len(Pieces(i.data)) THEN Len(i.data)
                                      ELSE (k - 5) * BufferSize)

\* The k-th Write of item i continues where those before it end.
Placed(i, k) ==
    LET b == Writes(i)[k]
    IN  /\ Start(i, k) \in Nat /\ Start(i, k + 1) = Start(i, k) + Len(b)
        /\ Start(i, k + 1) <= Len(Image(i))
        /\ \A j \in 1..Len(b) : Image(i)[Start(i, k) + j] = b[j]

LEMMA MessagePlaced ==
    ASSUME NEW i \in Items, i.kind = "message", NEW k \in 1..Len(Writes(i))
    PROVE  Placed(i, k) /\ Start(i, Len(Writes(i)) + 1) = Len(Image(i))
  <1>1. Writes(i) = <<Image(i)>>
    BY DEF Writes, MessageWrites, Image
  <1>2. k = 1 /\ Writes(i)[k] = Image(i) /\ Len(Writes(i)) = 1
    BY <1>1
  <1>3. Len(Image(i)) = 6 + Len(i.data) /\ Len(i.data) \in Nat
    BY MessageImage, ItemFields
  <1>4. Start(i, 1) = 0 /\ Start(i, 2) = Len(Image(i))
    BY <1>3 DEF Start
  <1>5. \A j \in 1..Len(Image(i)) : 0 + j = j
    BY <1>3
  <1> QED BY <1>2, <1>3, <1>4, <1>5 DEF Placed

\* A size and the byte after it.
LEMMA SizeAndByte ==
    ASSUME NEW h \in Seq(Bytes), Len(h) = 4, NEW c \in Bytes
    PROVE  /\ Len(h \o <<c>>) = 5 /\ (h \o <<c>>)[5] = c
           /\ \A j \in 1..4 : (h \o <<c>>)[j] = h[j]
  <1> DEFINE x == <<c>>
             b == h \o x
  <1>1. x \in Seq(Bytes) /\ Len(x) = 1 /\ x[1] = c
    OBVIOUS
  <1> HIDE DEF x
  <1>2. /\ Len(b) = Len(h) + Len(x)
        /\ \A j \in 1..Len(h) + Len(x) : b[j] = IF j <= Len(h) THEN h[j] ELSE x[j - Len(h)]
    BY <1>1, ConcatProperties
  <1> HIDE DEF b
  <1>3. Len(b) = 5 /\ b[5] = c /\ \A j \in 1..4 : b[j] = h[j]
    BY <1>1, <1>2
  <1> QED BY <1>3 DEF b, x

LEMMA FramePlaced ==
    ASSUME NEW i \in Items, i.kind = "frame", NEW k \in 1..Len(Writes(i))
    PROVE  Placed(i, k) /\ Start(i, Len(Writes(i)) + 1) = Len(Image(i))
  <1> DEFINE h == ToBytes(Len(i.data))
             L == Len(i.data)
             b == h \o <<i.code>>
  <1>1. Writes(i) = <<b, i.data>>
    BY DEF Writes, FrameWrites
  <1>2. Len(Writes(i)) = 2 /\ Writes(i)[1] = b /\ Writes(i)[2] = i.data
    BY <1>1
  <1>3. h \in Seq(Bytes) /\ Len(h) = 4 /\ L \in Nat /\ i.code \in Bytes
    BY ToBytesTyped, ItemFields
  <1> HIDE DEF h
  <1>4. Len(b) = 5 /\ (\A j \in 1..4 : b[j] = h[j]) /\ b[5] = i.code
    BY <1>3, SizeAndByte
  <1>5. /\ Len(Image(i)) = 5 + L
        /\ \A j \in 1..4 : Image(i)[j] = h[j]
        /\ Image(i)[5] = i.code
        /\ \A j \in 1..L : Image(i)[5 + j] = i.data[j]
    BY FrameImage DEF h
  <1> HIDE DEF b, L
  <1>6. Start(i, 1) = 0 /\ Start(i, 2) = 5 /\ Start(i, 3) = 5 + L
    BY DEF Start, L
  <1>7. \A j \in 1..5 : Image(i)[0 + j] = b[j]
    BY <1>4, <1>5
  <1>8. CASE k = 1
    <2>1. Placed(i, 1)
      BY <1>2, <1>3, <1>4, <1>5, <1>6, <1>7 DEF Placed
    <2> QED BY <1>2, <1>5, <1>6, <1>8, <2>1
  <1>9. CASE k = 2
    <2>1. Placed(i, 2)
      BY <1>2, <1>3, <1>5, <1>6 DEF Placed, L
    <2> QED BY <1>2, <1>5, <1>6, <1>9, <2>1
  <1> QED BY <1>2, <1>8, <1>9

LEMMA FileWritesAre ==
    ASSUME NEW i \in Items, i.kind = "file"
    PROVE  LET w == Writes(i)
               p == Pieces(i.data)
           IN  /\ Len(p) \in Nat /\ Len(w) = 4 + Len(p)
               /\ w[1] = ToBytes(Len(i.name)) \o <<0>> /\ w[2] = i.name
               /\ w[3] = ToBytes(Len(i.data)) /\ w[4] = <<0>>
               /\ \A n \in 1..Len(p) : w[4 + n] = p[n]
  <1> DEFINE p == Pieces(i.data)
             f == <<ToBytes(Len(i.name)) \o <<0>>, i.name>>
             g == <<ToBytes(Len(i.data)), <<0>>>>
  <1>0. 0 \in Bytes /\ ToBytes(Len(i.data)) \in Seq(Bytes) /\ ToBytes(Len(i.name)) \in Seq(Bytes)
        /\ i.name \in Seq(Bytes) /\ i.data \in Seq(Bytes)
    BY Constants, ItemFields, ToBytesTyped
  <1>1. p \in Seq(Seq(Bytes)) /\ Len(p) \in Nat
    BY <1>0, PiecesTyped
  <1>2. f \in Seq(Seq(Bytes)) /\ g \in Seq(Seq(Bytes)) /\ Len(f) = 2 /\ Len(g) = 2
    BY <1>0
  <1>3. Writes(i) = f \o g \o p
    BY DEF Writes, FileWrites, FrameWrites
  <1>4. f[1] = ToBytes(Len(i.name)) \o <<0>> /\ f[2] = i.name
        /\ g[1] = ToBytes(Len(i.data)) /\ g[2] = <<0>>
    OBVIOUS
  <1> HIDE DEF p, f, g
  <1> DEFINE a == f \o g
             w == a \o p
  <1>5. /\ a \in Seq(Seq(Bytes)) /\ Len(a) = 4
        /\ \A n \in 1..4 : a[n] = IF n <= 2 THEN f[n] ELSE g[n - 2]
    <2>1. /\ a \in Seq(Seq(Bytes)) /\ Len(a) = Len(f) + Len(g)
          /\ \A n \in 1..Len(f) + Len(g) : a[n] = IF n <= Len(f) THEN f[n] ELSE g[n - Len(f)]
      BY <1>2, ConcatProperties
    <2> QED BY <1>2, <2>1
  <1> HIDE DEF a
  <1>6. /\ Len(w) = 4 + Len(p)
        /\ \A n \in 1..4 + Len(p) : w[n] = IF n <= 4 THEN a[n] ELSE p[n - 4]
    <2>1. a \in Seq(Seq(Bytes)) /\ p \in Seq(Seq(Bytes))
      BY <1>1, <1>5
    <2>2. /\ Len(w) = Len(a) + Len(p)
          /\ \A n \in 1..Len(a) + Len(p) : w[n] = IF n <= Len(a) THEN a[n] ELSE p[n - Len(a)]
      BY <2>1, ConcatProperties
    <2> QED BY <1>5, <2>2
  <1> HIDE DEF w
  <1>7. w[1] = a[1] /\ w[2] = a[2] /\ w[3] = a[3] /\ w[4] = a[4]
    BY <1>1, <1>6
  <1>8. a[1] = f[1] /\ a[2] = f[2] /\ a[3] = g[1] /\ a[4] = g[2]
    BY <1>5
  <1>9. ASSUME NEW n \in 1..Len(p) PROVE w[4 + n] = p[n]
    <2>1. 4 + n \in 1..4 + Len(p) /\ ~(4 + n <= 4) /\ (4 + n) - 4 = n
      BY <1>1
    <2> QED BY <1>6, <2>1
  <1> QED BY <1>1, <1>3, <1>4, <1>6, <1>7, <1>8, <1>9 DEF p, a, w

LEMMA FilePlaced ==
    ASSUME NEW i \in Items, i.kind = "file", NEW k \in 1..Len(Writes(i))
    PROVE  Placed(i, k) /\ Start(i, Len(Writes(i)) + 1) = Len(Image(i))
  <1> DEFINE w == Writes(i)
             p == Pieces(i.data)
             N == Len(i.name)
             L == Len(i.data)
             h == ToBytes(N)
             b == h \o <<0>>
  <1>1. /\ Len(p) \in Nat /\ Len(w) = 4 + Len(p)
        /\ w[1] = b /\ w[2] = i.name /\ w[3] = ToBytes(L) /\ w[4] = <<0>>
        /\ \A n \in 1..Len(p) : w[4 + n] = p[n]
    BY FileWritesAre
  <1>2. /\ Len(Image(i)) = 10 + N + L
        /\ \A j \in 1..4 : Image(i)[j] = h[j]
        /\ Image(i)[5] = 0
        /\ \A j \in 1..N : Image(i)[5 + j] = i.name[j]
        /\ \A j \in 1..4 : Image(i)[5 + N + j] = ToBytes(L)[j]
        /\ Image(i)[10 + N] = 0
        /\ \A j \in 1..L : Image(i)[10 + N + j] = i.data[j]
    BY FileImage
  <1>3. N \in Nat /\ L \in Nat /\ i.data \in Seq(Bytes)
    BY ItemFields
  <1>4. h \in Seq(Bytes) /\ Len(h) = 4 /\ Len(ToBytes(L)) = 4 /\ 0 \in Bytes
    BY <1>3, ToBytesTyped, Constants
  <1> HIDE DEF h
  <1>5. Len(b) = 5 /\ (\A j \in 1..4 : b[j] = h[j]) /\ b[5] = 0
    BY <1>4, SizeAndByte
  <1> HIDE DEF b, w
  <1>6. /\ Len(p) = (L + BufferSize - 1) \div BufferSize
        /\ \A n \in 1..Len(p) :
               LET a == (n - 1) * BufferSize
                   m == Piece(L - a)
               IN  /\ p[n] = SubSeq(i.data, a + 1, a + m)
                   /\ Len(p[n]) = m /\ m \in 1..L - a /\ a \in Nat
    BY <1>3, PiecesTyped
  <1>7. /\ L <= Len(p) * BufferSize
        /\ \A n \in 1..Len(p) - 1 : n * BufferSize < L
    BY <1>3, <1>6, PieceCount
  <1>8. /\ Start(i, 1) = 0 /\ Start(i, 2) = 5 /\ Start(i, 3) = 5 + N /\ Start(i, 4) = 9 + N
        /\ \A n \in 0..Len(p) :
               Start(i, 5 + n) = 10 + N + (IF n = Len(p) THEN L ELSE n * BufferSize)
    <2>1. Start(i, 1) = 0 /\ Start(i, 2) = 5 /\ Start(i, 3) = 5 + N /\ Start(i, 4) = 9 + N
      BY DEF Start
    <2>2. ASSUME NEW n \in 0..Len(p)
          PROVE  Start(i, 5 + n) = 10 + N + (IF n = Len(p) THEN L ELSE n * BufferSize)
      <3>1. 5 + n # 1 /\ 5 + n # 2 /\ 5 + n # 3 /\ 5 + n # 4 /\ (5 + n) - 5 = n
        BY <1>1
      <3> QED BY <3>1 DEF Start
    <2> QED BY <2>1, <2>2
  <1> HIDE DEF p, N, L
  <1>9. BufferSize \in Nat /\ BufferSize > 0
    BY Constants
  <1>10. Start(i, 5) = 10 + N
    <2>1. CASE Len(p) = 0
      <3>1. L <= 0 * BufferSize
        BY <1>7, <2>1
      <3>2. L = 0
        BY <1>3, <1>9, <3>1
      <3>3. Start(i, 5 + 0) = 10 + N + L
        BY <1>1, <1>8, <2>1
      <3> QED BY <1>3, <3>2, <3>3
    <2>2. CASE Len(p) # 0
      <3>1. Start(i, 5 + 0) = 10 + N + 0 * BufferSize
        BY <1>1, <1>8, <2>2
      <3>2. 0 * BufferSize = 0
        BY <1>9
      <3> QED BY <1>3, <3>1, <3>2
    <2> QED BY <2>1, <2>2
  <1>11. Start(i, Len(w) + 1) = Len(Image(i))
    <2>1. Start(i, 5 + Len(p)) = 10 + N + L
      BY <1>1, <1>8
    <2>2. Len(w) + 1 = 5 + Len(p)
      BY <1>1
    <2> QED BY <1>2, <2>1, <2>2
  <1>12. Placed(i, 1)
    <2>1. \A j \in 1..5 : Image(i)[0 + j] = b[j]
      BY <1>2, <1>5
    <2>2. Start(i, 1 + 1) = Start(i, 1) + 5 /\ Start(i, 1 + 1) <= Len(Image(i))
      BY <1>2, <1>3, <1>8
    <2> QED BY <1>1, <1>5, <1>8, <2>1, <2>2 DEF Placed, w
  <1>13. Placed(i, 2)
    <2>1. Start(i, 2 + 1) = Start(i, 2) + N /\ Start(i, 2 + 1) <= Len(Image(i))
      BY <1>2, <1>3, <1>8
    <2>2. Writes(i)[2] = i.name /\ Len(i.name) = N
      BY <1>1 DEF w, N
    <2>3. \A j \in 1..Len(Writes(i)[2]) : Image(i)[Start(i, 2) + j] = Writes(i)[2][j]
      BY <1>2, <1>8, <2>2
    <2>4. Start(i, 2) \in Nat
      BY <1>8
    <2> QED BY <2>1, <2>2, <2>3, <2>4 DEF Placed
  <1>14. Placed(i, 3)
    <2>1. Start(i, 3 + 1) = Start(i, 3) + 4 /\ Start(i, 3 + 1) <= Len(Image(i))
      BY <1>2, <1>3, <1>8
    <2>2. Writes(i)[3] = ToBytes(L) /\ Len(ToBytes(L)) = 4 /\ Start(i, 3) \in Nat
      BY <1>1, <1>3, <1>4, <1>8 DEF w
    <2> QED BY <1>2, <1>8, <2>1, <2>2 DEF Placed
  <1>15. Placed(i, 4)
    <2>1. Start(i, 4 + 1) = Start(i, 4) + 1 /\ Start(i, 4 + 1) <= Len(Image(i))
      BY <1>2, <1>3, <1>8, <1>10
    <2>2. Writes(i)[4] = <<0>> /\ Len(<<0>>) = 1 /\ Start(i, 4) \in Nat
      BY <1>1, <1>3, <1>8 DEF w
    <2>3. \A j \in 1..1 : Image(i)[(9 + N) + j] = <<0>>[j]
      BY <1>2, <1>3
    <2> QED BY <1>8, <2>1, <2>2, <2>3 DEF Placed
  <1>16. ASSUME NEW n \in 1..Len(p) PROVE Placed(i, 4 + n)
    <2> DEFINE a == (n - 1) * BufferSize
               m == Piece(L - a)
    <2>1. /\ w[4 + n] = p[n] /\ p[n] = SubSeq(i.data, a + 1, a + m)
          /\ Len(p[n]) = m /\ m \in 1..L - a /\ a \in Nat
      BY <1>1, <1>6
    <2>2. Start(i, 4 + n) = 10 + N + a
      <3>1. n - 1 \in 0..Len(p) /\ n - 1 # Len(p) /\ 5 + (n - 1) = 4 + n
        BY <1>1
      <3> QED BY <1>8, <3>1
    <2>3. a + BufferSize = n * BufferSize
      BY <1>1, <1>9
    <2>4. Start(i, 5 + n) = 10 + N + (a + m) /\ a + m <= L
      <3>1. m = IF L - a < BufferSize THEN L - a ELSE BufferSize
        BY DEF Piece
      <3> HIDE DEF a, m
      <3>2. CASE n = Len(p)
        <4>1. L <= a + BufferSize
          BY <1>7, <2>3, <3>2
        <4>2. a + m = L
          BY <1>3, <1>9, <2>1, <3>1, <4>1
        <4>3. Start(i, 5 + n) = 10 + N + L
          BY <1>1, <1>8, <3>2
        <4> QED BY <1>3, <4>2, <4>3
      <3>3. CASE n # Len(p)
        <4>1. a + BufferSize < L
          BY <1>1, <1>7, <2>3, <3>3
        <4>2. m = BufferSize
          BY <1>3, <1>9, <2>1, <3>1, <4>1
        <4>3. Start(i, 5 + n) = 10 + N + n * BufferSize
          BY <1>1, <1>8, <3>3
        <4>4. n * BufferSize = a + m /\ a + m <= L
          BY <1>3, <1>9, <2>1, <2>3, <4>1, <4>2
        <4> QED BY <4>3, <4>4
      <3> QED BY <3>2, <3>3
    <2> HIDE DEF a, m
    <2>5. ASSUME NEW j \in 1..m PROVE Image(i)[(10 + N + a) + j] = p[n][j]
      <3>1. a + j \in 1..L
        BY <1>3, <2>1
      <3>2. p[n][j] = i.data[a + j]
        <4>1. a + 1 \in Int /\ a + m \in Int /\ j \in 1..(a + m) - (a + 1) + 1
              /\ (a + 1) + j - 1 = a + j
          BY <1>3, <2>1
        <4>2. \A x \in (a + 1)..(a + m) : i.data[x] \in Bytes
          <5>1. \A x \in (a + 1)..(a + m) : x \in 1..L
            BY <1>3, <2>1
          <5> QED BY <1>3, <5>1, ElementOfSeq DEF L
        <4>3. SubSeq(i.data, a + 1, a + m)[j] = i.data[(a + 1) + j - 1]
          BY <4>1, <4>2, SubSeqProperties
        <4> QED BY <2>1, <4>1, <4>3
      <3>3. Image(i)[10 + N + (a + j)] = i.data[a + j]
        BY <1>2, <3>1
      <3>4. (10 + N + a) + j = 10 + N + (a + j)
        BY <1>3, <2>1
      <3> QED BY <3>2, <3>3, <3>4
    <2>6. /\ 4 + n + 1 = 5 + n /\ 10 + N + a \in Nat
          /\ 10 + N + (a + m) = (10 + N + a) + m /\ 10 + N + (a + m) <= 10 + N + L
      BY <1>1, <1>3, <2>1, <2>4
    <2>7. Writes(i)[4 + n] = p[n] /\ Len(p[n]) = m
      BY <2>1 DEF w
    <2> QED BY <1>2, <2>2, <2>4, <2>5, <2>6, <2>7 DEF Placed
  <1>17. Placed(i, k)
    <2>1. k \in 1..4 + Len(p)
      BY <1>1 DEF w
    <2>2. CASE k <= 4
      BY <1>12, <1>13, <1>14, <1>15, <2>1, <2>2
    <2>3. CASE k > 4
      <3>1. k - 4 \in 1..Len(p) /\ 4 + (k - 4) = k
        BY <1>1, <2>1, <2>3
      <3>2. PICK n \in 1..Len(p) : 4 + n = k
        BY <3>1
      <3> QED BY <1>16, <3>2
    <2> QED BY <1>1, <2>1, <2>2, <2>3
  <1> QED BY <1>11, <1>17 DEF w

LEMMA WritesPlaced ==
    ASSUME NEW i \in Items, NEW k \in 1..Len(Writes(i))
    PROVE  /\ Placed(i, k) /\ Start(i, 1) = 0
           /\ Start(i, Len(Writes(i)) + 1) = Len(Image(i))
           /\ Image(i) \in Seq(Bytes) /\ Len(Image(i)) \in Nat
  <1>1. i.kind \in Kinds
    BY ItemFields
  <1>2. Start(i, 1) = 0
    BY DEF Start
  <1>3. Image(i) \in Seq(Bytes)
    BY <1>1, MessageImage, FrameImage, FileImage DEF Kinds
  <1>4. Placed(i, k) /\ Start(i, Len(Writes(i)) + 1) = Len(Image(i))
    BY <1>1, MessagePlaced, FramePlaced, FilePlaced DEF Kinds
  <1> QED BY <1>2, <1>3, <1>4, LenProperties

-----------------------------------------------------------------------------
(* Where the items sent lie on the stream: q[n] is the place in b, the bytes *)
(* not read yet, of the first byte of s[n] (0 or less once that is read),    *)
(* and q[Len(s) + 1] the one after the last item.                            *)

Laid(q, b, s) ==
    /\ q \in [1..Len(s) + 1 -> Int]
    /\ \A n \in 1..Len(s) : q[n + 1] = q[n] + Len(Image(s[n]))
    /\ \A m, n \in 1..Len(s) + 1 : m <= n => q[m] <= q[n]
    /\ Len(b) <= q[Len(s) + 1] - 1
    /\ \A n \in 1..Len(s) : \A j \in 1..Len(Image(s[n])) :
           q[n] + j - 1 \in 1..Len(b) => b[q[n] + j - 1] = Image(s[n])[j]
    /\ \A n \in 1..Len(s) : Fits(Len(s[n].name)) /\ Fits(Len(s[n].data))

LEMMA ImageTyped ==
    ASSUME NEW i \in Items
    PROVE  Image(i) \in Seq(Bytes) /\ Len(Image(i)) \in Nat /\ Len(Image(i)) >= 5
  <1>1. i.kind \in Kinds /\ Len(i.data) \in Nat /\ Len(i.name) \in Nat
    BY ItemFields
  <1>2. Image(i) \in Seq(Bytes)
    BY <1>1, MessageImage, FrameImage, FileImage DEF Kinds
  <1>3. \/ Len(Image(i)) = 6 + Len(i.data)
        \/ Len(Image(i)) = 5 + Len(i.data)
        \/ Len(Image(i)) = 10 + Len(i.name) + Len(i.data)
    BY <1>1, MessageImage, FrameImage, FileImage DEF Kinds
  <1>4. \A l, m \in Nat : /\ 6 + l \in Nat /\ 6 + l >= 5
                          /\ 5 + l \in Nat /\ 5 + l >= 5
                          /\ 10 + m + l \in Nat /\ 10 + m + l >= 5
    OBVIOUS
  <1> QED BY <1>1, <1>2, <1>3, <1>4

LEMMA LaidEmpty == \E q : Laid(q, <<>>, <<>>) /\ q[1] = 1
  <1> DEFINE q == [n \in 1..1 |-> 1]
  <1>1. Len(<<>>) = 0
    OBVIOUS
  <1>2. Laid(q, <<>>, <<>>)
    BY <1>1 DEF Laid
  <1> QED BY <1>2

\* The first n bytes are read.
LEMMA LaidTake ==
    ASSUME NEW q, NEW b \in Seq(Bytes), NEW s \in Seq(Items), Laid(q, b, s),
           NEW n \in Nat, n <= Len(b)
    PROVE  \E p : /\ Laid(p, SubSeq(b, n + 1, Len(b)), s)
                  /\ \A m \in 1..Len(s) + 1 : p[m] = q[m] - n
  <1> DEFINE p == [m \in 1..Len(s) + 1 |-> q[m] - n]
             c == SubSeq(b, n + 1, Len(b))
  <1>1. /\ c \in Seq(Bytes) /\ Len(c) = Len(b) - n
        /\ \A k \in 1..Len(b) - n : c[k] = b[n + k]
    BY SplitTyped
  <1>2. q \in [1..Len(s) + 1 -> Int] /\ Len(s) \in Nat /\ Len(b) \in Nat
    BY DEF Laid
  <1> HIDE DEF c
  <1>3. p \in [1..Len(s) + 1 -> Int] /\ \A m \in 1..Len(s) + 1 : p[m] = q[m] - n /\ q[m] \in Int
    BY <1>2
  <1> HIDE DEF p
  <1>4. ASSUME NEW m \in 1..Len(s) PROVE p[m + 1] = p[m] + Len(Image(s[m]))
    <2>1. q[m + 1] = q[m] + Len(Image(s[m])) /\ Len(Image(s[m])) \in Nat
      <3>1. s[m] \in Items
        OBVIOUS
      <3> QED BY <3>1, ImageTyped DEF Laid
    <2>2. m + 1 \in 1..Len(s) + 1 /\ m \in 1..Len(s) + 1
      BY <1>2
    <2>3. p[m + 1] = q[m + 1] - n /\ p[m] = q[m] - n /\ q[m] \in Int
      BY <1>3, <2>2
    <2>4. \A x \in Int, l \in Nat : (x + l) - n = (x - n) + l
      OBVIOUS
    <2> QED BY <2>1, <2>3, <2>4
  <1>5. \A m, k \in 1..Len(s) + 1 : m <= k => p[m] <= p[k]
    <2> SUFFICES ASSUME NEW m \in 1..Len(s) + 1, NEW k \in 1..Len(s) + 1, m <= k
                 PROVE  p[m] <= p[k]
      OBVIOUS
    <2>1. q[m] <= q[k]
      BY DEF Laid
    <2>2. p[m] = q[m] - n /\ p[k] = q[k] - n /\ q[m] \in Int /\ q[k] \in Int
      BY <1>3
    <2>3. \A x, y \in Int : x <= y => x - n <= y - n
      OBVIOUS
    <2> QED BY <2>1, <2>2, <2>3
  <1>6. Len(c) <= p[Len(s) + 1] - 1
    <2>1. Len(b) <= q[Len(s) + 1] - 1 /\ Len(s) + 1 \in 1..Len(s) + 1
      BY <1>2 DEF Laid
    <2> QED BY <1>1, <1>2, <1>3, <2>1
  <1>7. ASSUME NEW m \in 1..Len(s), NEW j \in 1..Len(Image(s[m])), p[m] + j - 1 \in 1..Len(c)
        PROVE  c[p[m] + j - 1] = Image(s[m])[j]
    <2>1. m \in 1..Len(s) + 1
      BY <1>2
    <2>2. Len(Image(s[m])) \in Nat
      <3>1. s[m] \in Items
        OBVIOUS
      <3> QED BY <3>1, ImageTyped
    <2>3. q[m] + j - 1 \in 1..Len(b) /\ q[m] + j - 1 = n + (p[m] + j - 1)
      <3>1. p[m] = q[m] - n /\ q[m] \in Int /\ j \in Int
        BY <1>3, <2>1, <2>2
      <3>2. \A x, y \in Int, l \in Nat :
                (x - n) + y - 1 \in 1..l - n
                    => x + y - 1 \in 1..l /\ x + y - 1 = n + ((x - n) + y - 1)
        OBVIOUS
      <3>3. (q[m] - n) + j - 1 \in 1..Len(b) - n
        BY <1>1, <1>7, <3>1
      <3> QED BY <1>2, <3>1, <3>2, <3>3
    <2>4. b[q[m] + j - 1] = Image(s[m])[j]
      BY <2>3 DEF Laid
    <2>5. c[p[m] + j - 1] = b[n + (p[m] + j - 1)]
      BY <1>1, <1>7
    <2> QED BY <2>3, <2>4, <2>5
  <1>8. \A m \in 1..Len(s) : Fits(Len(s[m].name)) /\ Fits(Len(s[m].data))
    BY DEF Laid
  <1>9. Laid(p, c, s)
    BY <1>3, <1>4, <1>5, <1>6, <1>7, <1>8 DEF Laid
  <1> QED BY <1>3, <1>9 DEF c

\* The stream ends: only the first n bytes arrive.
LEMMA LaidCut ==
    ASSUME NEW q, NEW b \in Seq(Bytes), NEW s \in Seq(Items), Laid(q, b, s),
           NEW n \in Nat, n <= Len(b)
    PROVE  Laid(q, SubSeq(b, 1, n), s)
  <1> DEFINE c == SubSeq(b, 1, n)
  <1>1. Len(c) = n /\ \A k \in 1..n : c[k] = b[k]
    BY SplitTyped
  <1>2. q \in [1..Len(s) + 1 -> Int] /\ Len(s) \in Nat /\ Len(b) \in Nat
        /\ Len(b) <= q[Len(s) + 1] - 1
    BY DEF Laid
  <1> HIDE DEF c
  <1>3. Len(c) <= q[Len(s) + 1] - 1
    <2>1. q[Len(s) + 1] \in Int
      BY <1>2
    <2> QED BY <1>1, <1>2, <2>1
  <1>4. ASSUME NEW m \in 1..Len(s), NEW j \in 1..Len(Image(s[m])), q[m] + j - 1 \in 1..Len(c)
        PROVE  c[q[m] + j - 1] = Image(s[m])[j]
    <2>1. q[m] + j - 1 \in 1..Len(b)
      BY <1>1, <1>2, <1>4
    <2>2. b[q[m] + j - 1] = Image(s[m])[j]
      BY <2>1 DEF Laid
    <2> QED BY <1>1, <1>4, <2>2
  <1> QED BY <1>3, <1>4 DEF Laid, c

\* The last item is i, whose k-th Write is next, or is made.
Due(q, b, s, i, k) ==
    /\ Laid(q, b, s) /\ Len(s) > 0 /\ i = s[Len(s)] /\ k \in 1..Len(Writes(i))
    /\ Len(b) = q[Len(s)] + Start(i, k) - 1
Made(q, b, s, i, k) ==
    /\ Laid(q, b, s) /\ Len(s) > 0 /\ i = s[Len(s)] /\ k \in 1..Len(Writes(i))
    /\ Len(b) = q[Len(s)] + Start(i, k + 1) - 1

LEMMA LaidWrite ==
    ASSUME NEW q, NEW b \in Seq(Bytes), NEW s \in Seq(Items), NEW i, NEW k,
           Due(q, b, s, i, k)
    PROVE  Made(q, b \o Writes(i)[k], s, i, k)
  <1>0. /\ Laid(q, b, s) /\ Len(s) > 0 /\ i = s[Len(s)] /\ k \in 1..Len(Writes(i))
        /\ Len(b) = q[Len(s)] + Start(i, k) - 1
    BY DEF Due
  <1> DEFINE x == Writes(i)[k]
             c == b \o x
             n == Len(s)
             f == Start(i, k)
  <1>1. i \in Items /\ n \in Nat /\ n \in 1..n
    BY <1>0, LenProperties, ElementOfSeq
  <1>2. x \in Seq(Bytes) /\ Len(x) \in Nat
    <2>1. Writes(i) \in Seq(Seq(Bytes))
      BY <1>1, WritesTyped
    <2> QED BY <1>0, <2>1, ElementOfSeq, LenProperties
  <1>3. /\ f \in Nat /\ Start(i, k + 1) = f + Len(x) /\ f + Len(x) <= Len(Image(i))
        /\ \A j \in 1..Len(x) : Image(i)[f + j] = x[j]
    BY <1>0, <1>1, WritesPlaced DEF Placed
  <1> HIDE DEF x, f
  <1>4. /\ c \in Seq(Bytes) /\ Len(c) = Len(b) + Len(x)
        /\ \A j \in 1..Len(b) + Len(x) : c[j] = IF j <= Len(b) THEN b[j] ELSE x[j - Len(b)]
    BY <1>2, ConcatProperties
  <1> HIDE DEF c
  <1>5. /\ q \in [1..n + 1 -> Int] /\ q[n + 1] = q[n] + Len(Image(i)) /\ Len(b) \in Nat
        /\ q[n] \in Int /\ Len(Image(i)) \in Nat /\ Len(b) = q[n] + f - 1
    <2>1. q \in [1..n + 1 -> Int] /\ q[n + 1] = q[n] + Len(Image(i))
      BY <1>0, <1>1 DEF Laid
    <2>2. n \in 1..n + 1
      BY <1>1
    <2> QED BY <1>0, <1>1, <2>1, <2>2, ImageTyped, LenProperties DEF f
  <1>6. Len(c) <= q[n + 1] - 1 /\ Len(c) = q[n] + Start(i, k + 1) - 1
    BY <1>2, <1>3, <1>4, <1>5
  <1>7. ASSUME NEW m \in 1..n, NEW j \in 1..Len(Image(s[m])), q[m] + j - 1 \in 1..Len(c)
        PROVE  c[q[m] + j - 1] = Image(s[m])[j]
    <2>1. s[m] \in Items /\ Len(Image(s[m])) \in Nat /\ q[m] \in Int
      <3>1. s[m] \in Items /\ m \in 1..n + 1
        BY <1>1, ElementOfSeq
      <3> QED BY <1>5, <3>1, ImageTyped
    <2>2. CASE q[m] + j - 1 <= Len(b)
      <3>1. q[m] + j - 1 \in 1..Len(b) /\ q[m] + j - 1 \in 1..Len(b) + Len(x)
        BY <1>2, <1>4, <1>5, <1>7, <2>1, <2>2
      <3>2. b[q[m] + j - 1] = Image(s[m])[j]
        BY <1>0, <3>1 DEF Laid
      <3> QED BY <1>4, <2>2, <3>1, <3>2
    <2>3. CASE q[m] + j - 1 > Len(b)
      <3>1. m = n
        <4>1. CASE m < n
          <5>0. j \in Int /\ j <= Len(Image(s[m]))
            BY <2>1
          <5>1. m + 1 \in 1..n + 1 /\ n \in 1..n + 1 /\ m + 1 <= n
            BY <1>1, <4>1
          <5>2. q[m + 1] <= q[n]
            BY <1>0, <5>1 DEF Laid
          <5>3. q[m + 1] = q[m] + Len(Image(s[m]))
            BY <1>0 DEF Laid
          <5> DEFINE u == q[m]
                     v == q[n]
                     l == Len(Image(s[m]))
          <5>4. u \in Int /\ v \in Int /\ l \in Int /\ u + l <= v
            BY <1>5, <2>1, <5>2, <5>3
          <5>5. u + j - 1 > v + f - 1
            BY <1>5, <2>3
          <5>6. f \in Nat /\ j \in Int /\ j <= l
            BY <1>3, <5>0
          <5> HIDE DEF u, v, l
          <5> QED BY <5>4, <5>5, <5>6
        <4> QED BY <1>1, <4>1
      <3> DEFINE d == j - f
      <3>2. d \in 1..Len(x) /\ f + d = j /\ (q[m] + j - 1) - Len(b) = d
        <4> DEFINE u == q[m]
                   l == Len(x)
        <4>1. j \in Int /\ f \in Int /\ l \in Int /\ u \in Int /\ Len(b) = u + f - 1
          BY <1>2, <1>3, <1>5, <2>1, <3>1
        <4>2. u + j - 1 > u + f - 1 /\ u + j - 1 \in 1..Len(b) + l
          BY <1>4, <1>7, <2>3, <4>1
        <4>3. u + j - 1 \in 1..(u + f - 1) + l
          BY <4>1, <4>2
        <4> HIDE DEF u, l
        <4>4. j - f \in 1..l /\ f + (j - f) = j /\ (u + j - 1) - (u + f - 1) = j - f
          BY <4>1, <4>2, <4>3
        <4>5. (u + j - 1) - Len(b) = j - f
          BY <4>1, <4>4
        <4> QED BY <4>4, <4>5 DEF u, l
      <3>3. c[q[m] + j - 1] = x[d]
        <4> DEFINE y == q[m] + j - 1
        <4>2. y \in Int /\ Len(b) \in Int /\ y > Len(b)
          <5>1. j \in Int
            BY <2>1
          <5> QED BY <1>5, <2>1, <2>3, <5>1
        <4>3. y \in 1..Len(b) + Len(x)
          BY <1>4, <1>7
        <4> HIDE DEF y
        <4>4. ~(y <= Len(b))
          BY <4>2
        <4>1. q[m] + j - 1 \in 1..Len(b) + Len(x) /\ ~(q[m] + j - 1 <= Len(b))
          BY <4>3, <4>4 DEF y
        <4> HIDE DEF d
        <4> QED BY <1>4, <3>2, <4>1
      <3> HIDE DEF d
      <3>4. Image(i)[j] = x[d]
        BY <1>3, <3>2
      <3> QED BY <1>0, <3>1, <3>3, <3>4
    <2>4. \A y, z \in Int : y <= z \/ y > z
      OBVIOUS
    <2>5. q[m] + j - 1 \in Int /\ Len(b) \in Int
      BY <1>5, <2>1
    <2> QED BY <2>2, <2>3, <2>4, <2>5
  <1>8. Laid(q, c, s)
    BY <1>0, <1>6, <1>7 DEF Laid
  <1> QED BY <1>0, <1>6, <1>8 DEF Made, c, x

\* An item is begun.
LEMMA LaidAppend ==
    ASSUME NEW q, NEW b \in Seq(Bytes), NEW s \in Seq(Items), Laid(q, b, s),
           NEW i \in Items, Fits(Len(i.name)), Fits(Len(i.data))
    PROVE  \E p : /\ Laid(p, b, Append(s, i))
                  /\ \A m \in 1..Len(s) + 1 : p[m] = q[m]
  <1> DEFINE n == Len(s)
             t == Append(s, i)
             size == Len(Image(i))
             p == [m \in 1..n + 2 |-> IF m <= n + 1 THEN q[m] ELSE q[n + 1] + size]
  <1>1. /\ t \in Seq(Items) /\ Len(t) = n + 1 /\ n \in Nat
        /\ \A m \in 1..n : t[m] = s[m]
        /\ t[n + 1] = i
    BY AppendProperties, LenProperties
  <1>2. size \in Nat
    BY ImageTyped
  <1>3. q \in [1..n + 1 -> Int] /\ Len(b) <= q[n + 1] - 1 /\ Len(b) \in Nat
    BY LenProperties DEF Laid
  <1> HIDE DEF size, t
  <1>4. /\ p \in [1..n + 2 -> Int]
        /\ \A m \in 1..n + 1 : p[m] = q[m] /\ q[m] \in Int
        /\ p[n + 2] = q[n + 1] + size
    <2>1. \A m \in 1..n + 1 : q[m] \in Int
      BY <1>3
    <2>2. n + 1 \in 1..n + 1 /\ n + 2 \in 1..n + 2 /\ ~(n + 2 <= n + 1)
      BY <1>1
    <2>3. q[n + 1] + size \in Int
      BY <1>2, <2>1, <2>2
    <2>4. \A m \in 1..n + 2 : m <= n + 1 => m \in 1..n + 1
      BY <1>1
    <2>5. \A m \in 1..n + 1 : m \in 1..n + 2 /\ m <= n + 1
      BY <1>1
    <2> QED BY <2>1, <2>2, <2>3, <2>4, <2>5
  <1> HIDE DEF p
  <1>5. ASSUME NEW m \in 1..n + 1 PROVE p[m + 1] = p[m] + Len(Image(t[m]))
    <2>1. CASE m <= n
      <3>1. m \in 1..n /\ m + 1 \in 1..n + 1
        BY <1>1, <2>1
      <3>2. q[m + 1] = q[m] + Len(Image(s[m]))
        BY <3>1 DEF Laid
      <3> QED BY <1>1, <1>4, <3>1, <3>2
    <2>2. CASE m = n + 1
      <3>1. m + 1 = n + 2
        BY <1>1, <2>2
      <3> QED BY <1>1, <1>4, <2>2, <3>1 DEF size
    <2> QED BY <1>1, <2>1, <2>2
  <1>6. ASSUME NEW m \in 1..n + 2, NEW k \in 1..n + 2, m <= k PROVE p[m] <= p[k]
    <2>1. \A u, v \in 1..n + 1 : u <= v => q[u] <= q[v]
      BY DEF Laid
    <2>2. CASE k <= n + 1
      <3>1. m \in 1..n + 1 /\ k \in 1..n + 1
        BY <1>1, <1>6, <2>2
      <3> QED BY <1>4, <1>6, <2>1, <3>1
    <2>3. CASE m <= n + 1 /\ k = n + 2
      <3>1. m \in 1..n + 1 /\ n + 1 \in 1..n + 1 /\ m <= n + 1
        BY <1>1, <2>3
      <3>2. q[m] <= q[n + 1]
        BY <2>1, <3>1
      <3>3. q[m] <= q[n + 1] + size
        BY <1>2, <1>4, <3>1, <3>2
      <3> QED BY <1>4, <2>3, <3>1, <3>3
    <2>4. CASE m = n + 2 /\ k = n + 2
      <3>1. p[n + 2] \in Int
        BY <1>1, <1>4
      <3> QED BY <2>4, <3>1
    <2> QED BY <1>1, <1>6, <2>2, <2>3, <2>4
  <1>7. Len(b) <= p[n + 2] - 1
    <2>1. q[n + 1] \in Int
      BY <1>1, <1>3
    <2> QED BY <1>2, <1>3, <1>4, <2>1
  <1>8. ASSUME NEW m \in 1..n + 1, NEW j \in 1..Len(Image(t[m])), p[m] + j - 1 \in 1..Len(b)
        PROVE  b[p[m] + j - 1] = Image(t[m])[j]
    <2>1. m # n + 1
      <3>1. CASE m = n + 1
        <4>1. Len(Image(t[m])) \in Nat
          BY <1>1, <1>2, <3>1 DEF size
        <4>2. p[m] = q[n + 1] /\ q[n + 1] \in Int
          BY <1>4, <3>1
        <4> QED BY <1>3, <1>8, <4>1, <4>2
      <3> QED BY <3>1
    <2>2. m \in 1..n /\ t[m] = s[m] /\ p[m] = q[m]
      BY <1>1, <1>4, <2>1
    <2> QED BY <1>8, <2>2 DEF Laid
  <1>9. ASSUME NEW m \in 1..n + 1
        PROVE  Fits(Len(t[m].name)) /\ Fits(Len(t[m].data))
    <2>1. CASE m = n + 1
      BY <1>1, <2>1
    <2>2. CASE m # n + 1
      <3>1. m \in 1..n
        BY <1>1, <2>2
      <3> QED BY <1>1, <3>1 DEF Laid
    <2> QED BY <2>1, <2>2
  <1>10. Len(t) + 1 = n + 2
    BY <1>1
  <1>11. Laid(p, b, t)
    BY <1>1, <1>4, <1>5, <1>6, <1>7, <1>8, <1>9, <1>10 DEF Laid
  <1> QED BY <1>4, <1>11 DEF t

\* What is read next, when o bytes of s[n] are read.
LEMMA LaidRead ==
    ASSUME NEW q, NEW b \in Seq(Bytes), NEW s \in Seq(Items), Laid(q, b, s),
           NEW n \in 1..Len(s), NEW o \in Nat, q[n] = 1 - o,
           NEW k \in Nat, k <= Len(b), o + k <= Len(Image(s[n]))
    PROVE  \A j \in 1..k : b[j] = Image(s[n])[o + j]
  <1> SUFFICES ASSUME NEW j \in 1..k PROVE b[j] = Image(s[n])[o + j]
    OBVIOUS
  <1>1. Len(Image(s[n])) \in Nat /\ Len(b) \in Nat
    <2>1. s[n] \in Items
      OBVIOUS
    <2> QED BY <2>1, ImageTyped, LenProperties
  <1>2. o + j \in 1..Len(Image(s[n])) /\ q[n] + (o + j) - 1 = j /\ j \in 1..Len(b)
    BY <1>1
  <1> QED BY <1>2 DEF Laid

-----------------------------------------------------------------------------
(* Where the writers and the reader are in the items sent.                  *)

\* At most one item is being written, the last one, and it is on the stream
\* up to its next Write.
Writing(q, b, s, ws, c) ==
    /\ \A v, w \in Writers : ws[v].pc # "idle" /\ ws[w].pc # "idle" => v = w
    /\ ~c /\ (\A w \in Writers : ws[w].pc = "idle") => Len(b) = q[Len(s) + 1] - 1
    /\ \A w \in Writers : ws[w].pc = "midway" /\ ~c =>
           /\ Len(s) > 0 /\ ws[w].item = s[Len(s)]
           /\ \E k \in 1..Len(Writes(ws[w].item)) - 1 :
                  /\ Len(ws[w].left) = Len(Writes(ws[w].item)) - k
                  /\ \A j \in 1..Len(ws[w].left) :
                         ws[w].left[j] = Writes(ws[w].item)[k + j]
                  /\ Len(b) = q[Len(s)] + Start(ws[w].item, k + 1) - 1

\* The reader has read some bytes of an item.
Begun(r) == r.pc \notin {"idle", "failed"} /\ ~(r.pc = "size" /\ r.name = NoFile)

\* How many of item i it has.
Within(r, i) ==
    LET N == Len(i.name)
        L == Len(i.data)
    IN  CASE r.pc = "size" -> 5 + N
          [] r.pc = "head" -> 4
          [] r.pc = "code" -> IF r.name = NoFile THEN 4 ELSE 9 + N
          [] r.pc = "data" -> IF r.as = "message" THEN 6 ELSE 5
          [] r.pc = "open" -> 10 + N
          [] r.pc = "pieces" -> IF r.as = "copy" THEN 6 + L - r.left
                                ELSE 10 + N + L - r.left
          [] r.pc \in {"close", "rename"} -> 10 + N + L
Where(r, i) == IF Begun(r) THEN Within(r, i) ELSE 0

Header(r) == (IF r.sized THEN ToBytes(r.size) ELSE <<>>) \o <<0>>

\* The error code a reader is to see in an item.
SeenCode(i) == IF i.kind = "message" THEN i.code ELSE ReadCode(i.code)

\* What its locals, the bytes copied and the temporary file hold of item i.
Holds(r, i, o, t) ==
    LET L == Len(i.data)
    IN  /\ Tracks(r.as, i)
        /\ r.name # NoFile => r.name = i.name
        /\ r.pc # "size" =>
               r.size = IF r.as = "file" /\ r.name = NoFile THEN Len(i.name) ELSE L
        /\ r.pc \in {"data", "open", "close", "rename"} \/ (r.pc = "pieces" /\ r.as = "file")
               => r.code = SeenCode(i)
        /\ r.pc = "data" => r.cmd = i.cmd
        /\ r.pc = "pieces" /\ r.as = "copy" =>
               /\ r.left <= L + 2 /\ Len(o) = Len(Header(r)) + (L + 2 - r.left)
               /\ \A j \in 1..L + 2 - r.left : o[Len(Header(r)) + j] = Image(i)[4 + j]
        /\ r.pc = "pieces" /\ r.as = "file" =>
               /\ r.left <= L /\ Len(t) = L - r.left
               /\ \A j \in 1..L - r.left : t[j] = i.data[j]
        /\ r.pc \in {"close", "rename"} => t = i.data

Reading(q, s, g, r, o, t) ==
    /\ Len(g) <= Len(s) /\ q[Len(g) + 1] = 1 - Where(r, s[Len(g) + 1])
    /\ Begun(r) => Len(g) < Len(s) /\ Holds(r, s[Len(g) + 1], o, t)

Located ==
    \E q : /\ Laid(q, wire, sent) /\ Writing(q, wire, sent, wr, cut)
           /\ Reading(q, sent, got, rd, out, tmp)

\* While both sides are in step and the reader has not failed, the stream
\* holds what is left of the items sent, and no byte in between.
Ordered == InStep /\ rd.pc # "failed" => Located

\* A writer's next Writes are those of item i from its k-th.
Rest(left, i, k) ==
    /\ left \in Seq(Seq(Bytes)) /\ Len(left) = Len(Writes(i)) - k + 1
    /\ \A j \in 1..Len(left) : left[j] = Writes(i)[k - 1 + j]

\* No other writer than w is at work.
Alone(ws, w) == /\ DOMAIN ws = Writers /\ w \in Writers
                /\ \A v \in Writers : v # w => ws[v].pc = "idle"

AfterPut(ws, w, i, left) ==
    [ws EXCEPT ![w] = IF Len(left) = 1 THEN IdleWriter
                      ELSE [pc |-> "midway", item |-> i, left |-> Tail(left)]]

LEMMA WritingPut ==
    ASSUME NEW s \in Seq(Items), NEW q, NEW b, NEW i, NEW k, Made(q, b, s, i, k),
           NEW ws, NEW w, Alone(ws, w), NEW left, Rest(left, i, k), NEW c
    PROVE  Writing(q, b, s, AfterPut(ws, w, i, left), c)
  <1> DEFINE x == IF Len(left) = 1 THEN IdleWriter
                  ELSE [pc |-> "midway", item |-> i, left |-> Tail(left)]
             us == AfterPut(ws, w, i, left)
  <1>0. /\ Laid(q, b, s) /\ Len(s) > 0 /\ i = s[Len(s)] /\ k \in 1..Len(Writes(i))
        /\ Len(b) = q[Len(s)] + Start(i, k + 1) - 1
        /\ w \in Writers /\ left \in Seq(Seq(Bytes)) /\ Len(left) = Len(Writes(i)) - k + 1
        /\ \A j \in 1..Len(left) : left[j] = Writes(i)[k - 1 + j]
    BY DEF Made, Alone, Rest
  <1>1. \A v \in Writers : (v = w => us[v] = x) /\ (v # w => us[v].pc = "idle")
    BY DEF Alone, AfterPut
  <1>2. i \in Items /\ Len(s) \in 1..Len(s) /\ Len(s) \in Nat
    BY <1>0, LenProperties, ElementOfSeq
  <1>3. Writes(i) \in Seq(Seq(Bytes)) /\ Len(Writes(i)) \in Nat
    BY <1>2, WritesTyped, LenProperties
  <1>4. Start(i, Len(Writes(i)) + 1) = Len(Image(i)) /\ Len(Image(i)) \in Nat
        /\ Start(i, k + 1) \in Int
    <2>1. Start(i, Len(Writes(i)) + 1) = Len(Image(i)) /\ Placed(i, k) /\ Len(Image(i)) \in Nat
      BY <1>0, <1>2, WritesPlaced
    <2>2. Start(i, k + 1) = Start(i, k) + Len(Writes(i)[k]) /\ Start(i, k) \in Nat
      BY <2>1 DEF Placed
    <2>3. Len(Writes(i)[k]) \in Nat
      BY <1>0, <1>3, ElementOfSeq, LenProperties
    <2>4. \A y, z \in Nat : y + z \in Int
      OBVIOUS
    <2> QED BY <2>1, <2>2, <2>3, <2>4
  <1>5. q[Len(s) + 1] = q[Len(s)] + Len(Image(i)) /\ q[Len(s)] \in Int
    <2>1. Len(s) \in 1..Len(s) + 1
      BY <1>2
    <2> QED BY <1>0, <1>2, <2>1 DEF Laid
  <1> HIDE DEF us, x
  <1>6. /\ \A v \in Writers : us[v].pc # "idle" => v = w
        /\ \A u, v \in Writers : us[u].pc # "idle" /\ us[v].pc # "idle" => u = v
    BY <1>1
  <1>7. CASE Len(left) = 1
    <2>1. us[w].pc = "idle" /\ \A v \in Writers : us[v].pc # "midway"
      <3>1. x.pc = "idle"
        BY <1>7 DEF x, IdleWriter
      <3> QED BY <1>0, <1>1, <3>1
    <2>2. k = Len(Writes(i))
      <3>1. \A l, m \in Int : 1 = l - m + 1 => m = l
        OBVIOUS
      <3>2. 1 = Len(Writes(i)) - k + 1
        BY <1>0, <1>7
      <3>3. k \in Int /\ Len(Writes(i)) \in Int
        BY <1>0, <1>3
      <3> QED BY <3>1, <3>2, <3>3
    <2>3. Len(b) = q[Len(s) + 1] - 1
      BY <1>0, <1>4, <1>5, <2>2
    <2> QED BY <1>6, <2>1, <2>3 DEF Writing, us
  <1>8. CASE Len(left) # 1
    <2>1. us[w] = [pc |-> "midway", item |-> i, left |-> Tail(left)]
      BY <1>0, <1>1, <1>8 DEF x
    <2>2. Len(left) \in Nat /\ k \in Nat /\ Len(left) > 1
      <3>1. Len(left) \in Nat
        BY <1>0, LenProperties
      <3>2. \A l, m, y \in Nat : y >= 1 /\ y <= m /\ l = m - y + 1 /\ l # 1 => l > 1
        OBVIOUS
      <3>3. k \in Nat /\ k >= 1 /\ k <= Len(Writes(i))
        BY <1>0, <1>3
      <3> QED BY <1>0, <1>3, <1>8, <3>1, <3>2, <3>3
    <2>3. /\ Len(Tail(left)) = Len(left) - 1
          /\ \A j \in 1..Len(Tail(left)) : Tail(left)[j] = left[j + 1]
      <3>1. left # <<>>
        BY <2>2
      <3> QED BY <1>0, <3>1, HeadTailProperties
    <2>4. k \in 1..Len(Writes(i)) - 1 /\ Len(Tail(left)) = Len(Writes(i)) - k
      <3>1. \A l, m, y \in Nat : y >= 1 /\ y <= m /\ l = m - y + 1 /\ l > 1
                => y \in 1..m - 1 /\ l - 1 = m - y
        OBVIOUS
      <3>2. k \in Nat /\ k >= 1 /\ k <= Len(Writes(i))
        BY <1>0, <1>3
      <3> QED BY <1>0, <1>3, <2>2, <2>3, <3>1, <3>2
    <2>5. ASSUME NEW j \in 1..Len(Tail(left)) PROVE Tail(left)[j] = Writes(i)[k + j]
      <3>1. j + 1 \in 1..Len(left) /\ k - 1 + (j + 1) = k + j
        BY <2>2, <2>3
      <3>2. left[j + 1] = Writes(i)[k - 1 + (j + 1)]
        BY <1>0, <3>1
      <3> QED BY <2>3, <3>1, <3>2
    <2>7. us[w].pc # "idle" /\ us[w].item = i /\ us[w].left = Tail(left)
      BY <2>1
    <2>8. ASSUME NEW v \in Writers, us[v].pc = "midway"
          PROVE  /\ Len(s) > 0 /\ us[v].item = s[Len(s)]
                 /\ \E n \in 1..Len(Writes(us[v].item)) - 1 :
                        /\ Len(us[v].left) = Len(Writes(us[v].item)) - n
                        /\ \A j \in 1..Len(us[v].left) :
                               us[v].left[j] = Writes(us[v].item)[n + j]
                        /\ Len(b) = q[Len(s)] + Start(us[v].item, n + 1) - 1
      <3>1. v = w
        BY <1>6, <2>8
      <3> QED BY <1>0, <2>4, <2>5, <2>7, <3>1
    <2> QED BY <1>0, <1>6, <2>7, <2>8 DEF Writing, us
  <1> QED BY <1>7, <1>8

\* The reader's place is the same in a longer list of items.
LEMMA ReadingKept ==
    ASSUME NEW s \in Seq(Items), NEW i \in Items, NEW g \in Seq(ItemType),
           NEW q, NEW p, \A m \in 1..Len(s) + 1 : p[m] = q[m],
           NEW r, NEW o, NEW t, Reading(q, s, g, r, o, t)
    PROVE  Reading(p, Append(s, i), g, r, o, t)
  <1> DEFINE u == Append(s, i)
             c == Len(g) + 1
  <1>1. Len(s) \in Nat /\ Len(g) \in Nat /\ Len(g) <= Len(s) /\ q[c] = 1 - Where(r, s[c])
        /\ (Begun(r) => Len(g) < Len(s) /\ Holds(r, s[c], o, t))
    BY LenProperties DEF Reading
  <1>2. Len(u) = Len(s) + 1 /\ \A m \in 1..Len(s) : u[m] = s[m]
    BY AppendProperties
  <1>3. c \in 1..Len(s) + 1 /\ Len(g) <= Len(s) + 1 /\ (Begun(r) => c \in 1..Len(s))
    BY <1>1
  <1> HIDE DEF u, c
  <1>4. p[c] = q[c]
    BY <1>3
  <1>5. CASE Begun(r)
    <2>1. u[c] = s[c] /\ Len(g) < Len(s) + 1
      BY <1>1, <1>2, <1>3, <1>5
    <2>2. p[c] = 1 - Where(r, u[c]) /\ Holds(r, u[c], o, t)
      BY <1>1, <1>4, <1>5, <2>1
    <2> QED BY <1>2, <1>3, <2>1, <2>2 DEF Reading, u, c
  <1>6. CASE ~Begun(r)
    <2>1. Where(r, u[c]) = 0 /\ Where(r, s[c]) = 0
      BY <1>6 DEF Where
    <2>2. p[c] = 1 - Where(r, u[c])
      BY <1>1, <1>4, <2>1
    <2> QED BY <1>2, <1>3, <1>6, <2>2 DEF Reading, u, c
  <1> QED BY <1>5, <1>6

\* No step brings the sides back in step or a reader back from its failure.
LEMMA Back ==
    ASSUME TypeOK, [Next]_vars
    PROVE  (InStep' => InStep) /\ (rd'.pc # "failed" => rd.pc # "failed")
  <1>1. CASE ReaderStep
    <2>1. CASE ReadSize
      BY <2>1 DEF ReadSize, WritersUnchanged, InStep
    <2>12. CASE HeaderUnwritten
      BY <2>12 DEF HeaderUnwritten, WritersUnchanged, InStep
    <2>2. CASE ReadHead
      BY <2>2 DEF ReadHead, WritersUnchanged, InStep
    <2>3. CASE ReadErrorCode
      BY <2>3 DEF ReadErrorCode, WritersUnchanged, InStep
    <2>4. CASE ReadData
      BY <2>4 DEF ReadData, WritersUnchanged, InStep
    <2>5. CASE FieldFails
      BY <2>5 DEF FieldFails, WritersUnchanged, InStep
    <2>6. CASE CreateTmp
      BY <2>6 DEF CreateTmp, WritersUnchanged, InStep
    <2>7. CASE CopyPiece
      BY <2>7 DEF CopyPiece, WritersUnchanged, InStep
    <2>8. CASE PieceFails
      BY <2>8 DEF PieceFails, WritersUnchanged, InStep
    <2>9. CASE PiecesDone
      BY <2>9 DEF PiecesDone, WritersUnchanged, InStep
    <2>10. CASE CloseTmp
      BY <2>10 DEF CloseTmp, WritersUnchanged, InStep
    <2>11. CASE RenameTmp
      BY <2>11 DEF RenameTmp, WritersUnchanged, InStep
    <2> QED BY <1>1, <2>1, <2>2, <2>3, <2>4, <2>5, <2>6, <2>7, <2>8, <2>9, <2>10, <2>11,
            <2>12 DEF ReaderStep
  <1>2. CASE \E w \in Writers, i \in Items : Begin(w, i)
    BY <1>2 DEF Begin, ReaderUnchanged
  <1>3. CASE \E w \in Writers : WriterStep(w)
    BY <1>3 DEF WriterStep, GoOn, WriterFails, ReaderUnchanged, InStep
  <1>4. CASE \E n \in 0..MaxRest : Cut(n)
    BY <1>4 DEF Cut, InStep
  <1>5. CASE \E reader \in Readers : Call(reader)
    BY <1>5 DEF Call
  <1>6. CASE UNCHANGED vars
    BY <1>6 DEF vars, InStep
  <1> QED BY <1>1, <1>2, <1>3, <1>4, <1>5, <1>6 DEF Next

LEMMA BeginOrdered ==
    ASSUME TypeOK, NEW w \in Writers, NEW i \in Items, Begin(w, i), InStep',
           NEW q, Laid(q, wire, sent), Writing(q, wire, sent, wr, cut),
           Reading(q, sent, got, rd, out, tmp)
    PROVE  \E p : /\ Laid(p, wire', sent') /\ Writing(p, wire', sent', wr', cut')
                  /\ Reading(p, sent', got', rd', out', tmp')
  <1> DEFINE n == Len(sent)
             x == IF Len(Writes(i)) = 1 THEN IdleWriter
                  ELSE [pc |-> "midway", item |-> i, left |-> Tail(Writes(i))]
  <1>1. /\ ~cut /\ wire' = wire \o Head(Writes(i)) /\ wr' = [wr EXCEPT ![w] = x]
        /\ sent' = Append(sent, i) /\ UNCHANGED <<cut, rd, out, tmp, got>>
        /\ Fits(Len(i.name)) /\ Fits(Len(i.data))
        /\ \A v \in Writers : wr[v].pc = "idle"
    BY DEF Begin, Put, ReaderUnchanged, InStep
  <1>2. /\ wire \in Seq(Bytes) /\ sent \in Seq(Items) /\ got \in Seq(ItemType)
        /\ wr \in [Writers -> WriterType] /\ n \in Nat
    BY LenProperties DEF TypeOK, WriterType
  <1>3. /\ Writes(i) \in Seq(Seq(Bytes)) /\ Len(Writes(i)) > 0 /\ Len(Writes(i)) \in Nat
        /\ 1 \in 1..Len(Writes(i)) /\ Head(Writes(i)) = Writes(i)[1]
    <2>1. Writes(i) \in Seq(Seq(Bytes)) /\ Len(Writes(i)) > 0 /\ Len(Writes(i)) \in Nat
      BY WritesTyped, LenProperties
    <2>2. \A l \in Nat : l > 0 => 1 \in 1..l
      OBVIOUS
    <2> QED BY <2>1, <2>2
  <1>4. Len(wire) = q[n + 1] - 1
    BY <1>1 DEF Writing
  <1>5. PICK p : Laid(p, wire, sent') /\ \A m \in 1..n + 1 : p[m] = q[m]
    BY <1>1, <1>2, LaidAppend
  <1>6. sent' \in Seq(Items) /\ Len(sent') = n + 1 /\ sent'[n + 1] = i
    BY <1>1, <1>2, AppendProperties
  <1>7. Due(p, wire, sent', i, 1)
    <2>1. n + 1 \in 1..n + 1
      BY <1>2
    <2>2. p[n + 1] = q[n + 1] /\ Start(i, 1) = 0
      BY <1>5, <2>1 DEF Start
    <2>3. p[n + 1] \in Int
      <3>1. n + 1 \in 1..Len(sent') + 1
        BY <1>2, <1>6
      <3> QED BY <1>5, <3>1 DEF Laid
    <2>4. Len(wire) = p[Len(sent')] + Start(i, 1) - 1
      BY <1>4, <1>6, <2>2, <2>3
    <2>5. Len(sent') > 0 /\ i = sent'[Len(sent')]
      BY <1>2, <1>6
    <2> QED BY <1>3, <1>5, <2>4, <2>5 DEF Due
  <1>8. Made(p, wire', sent', i, 1)
    <2>1. Made(p, wire \o Writes(i)[1], sent', i, 1)
      BY <1>2, <1>6, <1>7, LaidWrite
    <2> QED BY <1>1, <1>3, <2>1
  <1>9. Writing(p, wire', sent', wr', cut')
    <2>1. Rest(Writes(i), i, 1)
      BY <1>3 DEF Rest
    <2>2. Alone(wr, w)
      BY <1>1, <1>2 DEF Alone
    <2>3. wr' = AfterPut(wr, w, i, Writes(i))
      BY <1>1 DEF AfterPut
    <2>4. Writing(p, wire', sent', AfterPut(wr, w, i, Writes(i)), cut')
      BY <1>6, <1>8, <2>1, <2>2, WritingPut
    <2> QED BY <2>3, <2>4
  <1>10. Reading(p, sent', got, rd, out, tmp)
    BY <1>1, <1>2, <1>5, ReadingKept
  <1> QED BY <1>1, <1>8, <1>9, <1>10 DEF Made

LEMMA GoOnOrdered ==
    ASSUME TypeOK, Shape, NEW w \in Writers, GoOn(w),
           NEW q, Laid(q, wire, sent), Writing(q, wire, sent, wr, cut)
    PROVE  Laid(q, wire', sent) /\ Writing(q, wire', sent, wr', cut)
  <1> DEFINE i == wr[w].item
             left == wr[w].left
             x == IF Len(left) = 1 THEN IdleWriter
                  ELSE [pc |-> "midway", item |-> i, left |-> Tail(left)]
  <1>1. /\ wr[w].pc = "midway" /\ ~cut /\ wire' = wire \o Head(left)
        /\ wr' = [wr EXCEPT ![w] = x]
    BY DEF GoOn, Put
  <1>2. /\ wire \in Seq(Bytes) /\ sent \in Seq(Items) /\ wr \in [Writers -> WriterType]
        /\ left \in Seq(Seq(Bytes)) /\ Len(left) > 0 /\ Len(left) \in Nat
    <2>1. wr \in [Writers -> WriterType]
      BY DEF TypeOK, WriterType
    <2>2. left \in Seq(Seq(Bytes)) /\ Len(left) > 0
      BY <1>1, <2>1 DEF Shape, WriterType
    <2> QED BY <2>1, <2>2, LenProperties DEF TypeOK
  <1>3. Len(sent) > 0 /\ i = sent[Len(sent)] /\ i \in Items
    <2>1. Len(sent) > 0 /\ i = sent[Len(sent)]
      BY <1>1 DEF Writing
    <2> QED BY <1>1, <2>1 DEF Shape
  <1>4. PICK k \in 1..Len(Writes(i)) - 1 :
            /\ Len(left) = Len(Writes(i)) - k
            /\ \A j \in 1..Len(left) : left[j] = Writes(i)[k + j]
            /\ Len(wire) = q[Len(sent)] + Start(i, k + 1) - 1
    BY <1>1 DEF Writing
  <1>5. \A v \in Writers : v # w => wr[v].pc = "idle"
    BY <1>1 DEF Writing
  <1>6. Len(Writes(i)) \in Nat
    BY <1>3, WritesTyped, LenProperties
  <1> HIDE DEF i, left
  <1>7. k + 1 \in 1..Len(Writes(i)) /\ (k + 1) - 1 = k
        /\ Len(left) = Len(Writes(i)) - (k + 1) + 1
    BY <1>4, <1>6
  <1>8. Rest(left, i, k + 1)
    BY <1>2, <1>4, <1>7 DEF Rest
  <1>9. Head(left) = Writes(i)[k + 1]
    <2>1. 1 \in 1..Len(left)
      BY <1>2
    <2>2. left[1] = Writes(i)[k + 1] /\ Head(left) = left[1]
      BY <1>2, <1>4, <2>1
    <2> QED BY <2>2
  <1>10. Due(q, wire, sent, i, k + 1)
    BY <1>3, <1>4, <1>7 DEF Due
  <1>11. Made(q, wire', sent, i, k + 1)
    <2>1. Made(q, wire \o Writes(i)[k + 1], sent, i, k + 1)
      BY <1>2, <1>10, LaidWrite
    <2> QED BY <1>1, <1>9, <2>1
  <1>12. Alone(wr, w)
    BY <1>2, <1>5 DEF Alone
  <1>13. Writing(q, wire', sent, AfterPut(wr, w, i, left), cut)
    BY <1>2, <1>8, <1>11, <1>12, WritingPut
  <1>14. wr' = AfterPut(wr, w, i, left)
    BY <1>1 DEF AfterPut
  <1> QED BY <1>11, <1>13, <1>14 DEF Made

LEMMA WriterFailsOrdered ==
    ASSUME TypeOK, NEW w \in Writers, WriterFails(w),
           NEW q, Writing(q, wire, sent, wr, cut)
    PROVE  Writing(q, wire, sent, wr', cut)
  <1>1. wr[w].pc = "midway" /\ wr' = [wr EXCEPT ![w].pc = "failed"]
    BY DEF WriterFails
  <1>2. wr \in [Writers -> WriterType]
    BY DEF TypeOK, WriterType
  <1>3. \A v \in Writers : (v # w => wr'[v] = wr[v]) /\ wr'[w].pc = "failed"
    BY <1>1, <1>2 DEF WriterType
  <1>4. \A u, v \in Writers : wr'[u].pc # "idle" /\ wr'[v].pc # "idle" => u = v
    BY <1>1, <1>3 DEF Writing
  <1>5. \A v \in Writers : wr'[v].pc = "midway" => wr'[v] = wr[v]
    BY <1>3
  <1> QED BY <1>3, <1>4, <1>5 DEF Writing

\* Bytes read leave the writers where they are.
LEMMA TakeOrdered ==
    ASSUME TypeOK, NEW n \in Nat, Take(n),
           NEW q, Laid(q, wire, sent), Writing(q, wire, sent, wr, cut)
    PROVE  \E p : /\ Laid(p, wire', sent) /\ Writing(p, wire', sent, wr, cut)
                  /\ \A m \in 1..Len(sent) + 1 : p[m] = q[m] - n
  <1>1. /\ wire \in Seq(Bytes) /\ sent \in Seq(Items) /\ Len(sent) \in Nat /\ Len(wire) \in Nat
        /\ wr \in [Writers -> WriterType]
    BY LenProperties DEF TypeOK, WriterType
  <1>2. n <= Len(wire) /\ wire' = SubSeq(wire, n + 1, Len(wire)) /\ Len(wire') = Len(wire) - n
    <2>1. \A l \in Nat : l >= n => n <= l
      OBVIOUS
    <2>2. n <= Len(wire) /\ wire' = SubSeq(wire, n + 1, Len(wire))
      BY <1>1, <2>1 DEF Take
    <2> QED BY <1>1, <2>2, SplitTyped
  <1>3. PICK p : /\ Laid(p, wire', sent)
                 /\ \A m \in 1..Len(sent) + 1 : p[m] = q[m] - n
    <2>1. wire \in Seq(Bytes) /\ sent \in Seq(Items) /\ n <= Len(wire)
      BY <1>1, <1>2
    <2>2. \E p : /\ Laid(p, SubSeq(wire, n + 1, Len(wire)), sent)
                 /\ \A m \in 1..Len(sent) + 1 : p[m] = q[m] - n
      BY <2>1, LaidTake
    <2> QED BY <1>2, <2>2
  <1>4. q \in [1..Len(sent) + 1 -> Int]
    BY DEF Laid
  <1>5. \A x, y, z \in Int : x = y + z - 1 => x - n = (y - n) + z - 1
    OBVIOUS
  <1>6. ~cut /\ (\A w \in Writers : wr[w].pc = "idle") => Len(wire') = p[Len(sent) + 1] - 1
    <2>1. Len(sent) + 1 \in 1..Len(sent) + 1
      BY <1>1
    <2>2. p[Len(sent) + 1] = q[Len(sent) + 1] - n /\ q[Len(sent) + 1] \in Int
      BY <1>3, <1>4, <2>1
    <2>3. \A x, y \in Int : x = y - 1 => x - n = (y - n) - 1
      OBVIOUS
    <2> QED BY <1>1, <1>2, <2>2, <2>3 DEF Writing
  <1>7. ASSUME NEW w \in Writers, wr[w].pc = "midway", ~cut
        PROVE  /\ Len(sent) > 0 /\ wr[w].item = sent[Len(sent)]
               /\ \E k \in 1..Len(Writes(wr[w].item)) - 1 :
                      /\ Len(wr[w].left) = Len(Writes(wr[w].item)) - k
                      /\ \A j \in 1..Len(wr[w].left) :
                             wr[w].left[j] = Writes(wr[w].item)[k + j]
                      /\ Len(wire') = p[Len(sent)] + Start(wr[w].item, k + 1) - 1
    <2> DEFINE i == wr[w].item
    <2>1. Len(sent) > 0 /\ i = sent[Len(sent)]
      BY <1>7 DEF Writing
    <2>2. PICK k \in 1..Len(Writes(i)) - 1 :
              /\ Len(wr[w].left) = Len(Writes(i)) - k
              /\ \A j \in 1..Len(wr[w].left) : wr[w].left[j] = Writes(i)[k + j]
              /\ Len(wire) = q[Len(sent)] + Start(i, k + 1) - 1
      BY <1>7 DEF Writing
    <2>3. i \in Items /\ Len(sent) \in 1..Len(sent) + 1
      BY <1>1, <2>1, ElementOfSeq
    <2> HIDE DEF i
    <2>4. Start(i, k + 1) \in Int
      <3>1. /\ k + 1 \in 1..Len(Writes(i)) /\ Writes(i) \in Seq(Seq(Bytes))
        BY <2>3, WritesTyped, LenProperties
      <3>2. Placed(i, k + 1)
        BY <2>3, <3>1, WritesPlaced
      <3> QED BY <3>2 DEF Placed
    <2>5. p[Len(sent)] = q[Len(sent)] - n /\ q[Len(sent)] \in Int
      BY <1>3, <1>4, <2>3
    <2>6. Len(wire') = p[Len(sent)] + Start(i, k + 1) - 1
      BY <1>1, <1>2, <1>5, <2>2, <2>4, <2>5
    <2> QED BY <2>1, <2>2, <2>6 DEF i
  <1>8. Writing(p, wire', sent, wr, cut)
    BY <1>6, <1>7 DEF Writing
  <1> QED BY <1>3, <1>8

\* A step of the reader within an item.
LEMMA ReadingOn ==
    ASSUME NEW s \in Seq(Items), NEW g \in Seq(ItemType), NEW q, NEW p,
           q \in [1..Len(s) + 1 -> Int],
           NEW n \in Nat, \A m \in 1..Len(s) + 1 : p[m] = q[m] - n,
           NEW r, NEW o, NEW t, Reading(q, s, g, r, o, t), Len(g) < Len(s),
           NEW r2, NEW o2, NEW t2, Begun(r2), Holds(r2, s[Len(g) + 1], o2, t2),
           Where(r, s[Len(g) + 1]) \in Int,
           Where(r2, s[Len(g) + 1]) = Where(r, s[Len(g) + 1]) + n
    PROVE  Reading(p, s, g, r2, o2, t2)
  <1> DEFINE c == Len(g) + 1
             x == Where(r, s[c])
             y == Where(r2, s[c])
  <1>1. Len(s) \in Nat /\ Len(g) \in Nat /\ c \in 1..Len(s) + 1
    BY LenProperties
  <1>2. p[c] = q[c] - n /\ q[c] = 1 - x
    BY <1>1 DEF Reading
  <1>3. x \in Int /\ y = x + n
    OBVIOUS
  <1> HIDE DEF x, y
  <1>4. (1 - x) - n = 1 - (x + n)
    BY <1>3
  <1>5. p[c] = 1 - y
    BY <1>2, <1>3, <1>4
  <1> QED BY <1>1, <1>5 DEF Reading, y

\* The reader has got the whole item.
LEMMA ReadingDone ==
    ASSUME NEW s \in Seq(Items), NEW g \in Seq(ItemType), NEW q, NEW p, NEW b,
           Laid(q, b, s),
           NEW n \in Nat, \A m \in 1..Len(s) + 1 : p[m] = q[m] - n,
           NEW r, NEW o, NEW t, Reading(q, s, g, r, o, t), Len(g) < Len(s),
           Where(r, s[Len(g) + 1]) \in Int,
           Where(r, s[Len(g) + 1]) + n = Len(Image(s[Len(g) + 1])),
           NEW x \in ItemType, NEW o2, NEW t2
    PROVE  Reading(p, s, Append(g, x), IdleReader, o2, t2)
  <1> DEFINE c == Len(g) + 1
             y == Where(r, s[c])
             l == Len(Image(s[c]))
  <1>1. Len(s) \in Nat /\ Len(g) \in Nat /\ c \in 1..Len(s) /\ c + 1 \in 1..Len(s) + 1
    BY LenProperties
  <1>2. p[c + 1] = q[c + 1] - n /\ q[c] = 1 - y /\ q[c + 1] = q[c] + l
    BY <1>1 DEF Reading, Laid
  <1>3. y \in Int /\ y + n = l
    OBVIOUS
  <1> HIDE DEF y, l
  <1>4. ((1 - y) + (y + n)) - n = 1
    BY <1>3
  <1>5. p[c + 1] = 1
    BY <1>2, <1>3, <1>4
  <1>6. Len(Append(g, x)) = c /\ c <= Len(s)
    BY <1>1, AppendProperties
  <1>7. ~Begun(IdleReader)
    BY DEF Begun, IdleReader
  <1>8. Where(IdleReader, s[c + 1]) = 0
    BY <1>7 DEF Where
  <1> HIDE DEF c
  <1> QED BY <1>5, <1>6, <1>7, <1>8 DEF Reading

\* What the reader knows of the item it is in, and what comes next.
LEMMA ItemAt ==
    ASSUME TypeOK, NEW q, Laid(q, wire, sent), Reading(q, sent, got, rd, out, tmp),
           Begun(rd)
    PROVE  LET i == sent[Len(got) + 1]
               o == Where(rd, i)
           IN  /\ Len(got) < Len(sent) /\ i \in Items /\ Holds(rd, i, out, tmp)
               /\ Fits(Len(i.name)) /\ Fits(Len(i.data))
               /\ \A k \in Nat :
                      o \in Nat /\ k <= Len(wire) /\ o + k <= Len(Image(i))
                          => \A j \in 1..k : wire[j] = Image(i)[o + j]
  <1> DEFINE c == Len(got) + 1
             i == sent[c]
             o == Where(rd, i)
  <1>1. /\ wire \in Seq(Bytes) /\ sent \in Seq(Items) /\ Len(sent) \in Nat /\ Len(got) \in Nat
    BY LenProperties DEF TypeOK
  <1>2. Len(got) < Len(sent) /\ q[c] = 1 - o /\ Holds(rd, i, out, tmp)
    BY DEF Reading
  <1>3. c \in 1..Len(sent)
    BY <1>1, <1>2
  <1>4. i \in Items /\ Fits(Len(i.name)) /\ Fits(Len(i.data))
    BY <1>1, <1>3, ElementOfSeq DEF Laid
  <1> HIDE DEF o
  <1>5. ASSUME NEW k \in Nat, o \in Nat, k <= Len(wire), o + k <= Len(Image(i))
        PROVE  \A j \in 1..k : wire[j] = Image(i)[o + j]
    <2>1. /\ wire \in Seq(Bytes) /\ sent \in Seq(Items) /\ q[c] = 1 - o /\ i = sent[c]
      BY <1>1, <1>2
    <2>2. o + k <= Len(Image(sent[c]))
      BY <1>5
    <2> HIDE DEF c, i
    <2>3. \A j \in 1..k : wire[j] = Image(sent[c])[o + j]
      BY <1>3, <1>5, <2>1, <2>2, LaidRead
    <2> QED BY <2>1, <2>3
  <1> QED BY <1>2, <1>4, <1>5 DEF o

\* A step of the reader that takes n bytes and stays in its item...
LEMMA WithinOrdered ==
    ASSUME TypeOK, NEW n \in Nat, Take(n), WritersUnchanged, UNCHANGED got,
           NEW q, Laid(q, wire, sent), Writing(q, wire, sent, wr, cut),
           Reading(q, sent, got, rd, out, tmp), Len(got) < Len(sent), Begun(rd'),
           Holds(rd', sent[Len(got) + 1], out', tmp'),
           Where(rd, sent[Len(got) + 1]) \in Int,
           Where(rd', sent[Len(got) + 1]) = Where(rd, sent[Len(got) + 1]) + n
    PROVE  Located'
  <1>1. sent \in Seq(Items) /\ got \in Seq(ItemType) /\ q \in [1..Len(sent) + 1 -> Int]
    BY DEF TypeOK, Laid
  <1>2. PICK p : /\ Laid(p, wire', sent) /\ Writing(p, wire', sent, wr, cut)
                 /\ \A m \in 1..Len(sent) + 1 : p[m] = q[m] - n
    BY TakeOrdered
  <1>3. Reading(p, sent, got, rd', out', tmp')
    BY <1>1, <1>2, ReadingOn
  <1> QED BY <1>2, <1>3 DEF Located, WritersUnchanged

\* ...or completes it.
LEMMA DoneOrdered ==
    ASSUME TypeOK, NEW n \in Nat, Take(n), WritersUnchanged,
           NEW x \in ItemType, Deliver(x),
           NEW q, Laid(q, wire, sent), Writing(q, wire, sent, wr, cut),
           Reading(q, sent, got, rd, out, tmp), Len(got) < Len(sent),
           Where(rd, sent[Len(got) + 1]) \in Int,
           Where(rd, sent[Len(got) + 1]) + n = Len(Image(sent[Len(got) + 1]))
    PROVE  Located'
  <1>1. sent \in Seq(Items) /\ got \in Seq(ItemType)
    BY DEF TypeOK
  <1>2. PICK p : /\ Laid(p, wire', sent) /\ Writing(p, wire', sent, wr, cut)
                 /\ \A m \in 1..Len(sent) + 1 : p[m] = q[m] - n
    BY TakeOrdered
  <1>3. Reading(p, sent, Append(got, x), IdleReader, out', tmp')
    BY <1>1, <1>2, ReadingDone
  <1> QED BY <1>2, <1>3 DEF Located, WritersUnchanged, Deliver

LEMMA TakeNone == ASSUME TypeOK, UNCHANGED wire PROVE Take(0)
  <1>1. wire \in Seq(Bytes) /\ Len(wire) \in Nat /\ 0 <= Len(wire) /\ 0 + 1 = 1
    BY LenProperties DEF TypeOK
  <1> DEFINE t == SubSeq(wire, 1, Len(wire))
  <1>2. t \in Seq(Bytes) /\ Len(t) = Len(wire) /\ \A k \in 1..Len(wire) : t[k] = wire[k]
    BY <1>1, SplitTyped
  <1>3. t = wire
    BY <1>1, <1>2, SeqEqual
  <1>4. Len(wire) >= 0
    BY <1>1
  <1> QED BY <1>1, <1>3, <1>4 DEF Take

LEMMA ReadHeadOrdered == ASSUME TypeOK, Shape, Located, ReadHead PROVE Located'
  <1> DEFINE i == sent[Len(got) + 1]
  <1>1. PICK q : /\ Laid(q, wire, sent) /\ Writing(q, wire, sent, wr, cut)
                 /\ Reading(q, sent, got, rd, out, tmp)
    BY DEF Located
  <1>2. /\ rd.pc = "head" /\ rd.as = "message" /\ rd.name = NoFile /\ rd \in ReaderType
        /\ rd' = [rd EXCEPT !.pc = "data", !.code = wire[1], !.cmd = wire[2]]
    BY DEF ReadHead, Shape, TypeOK, ReaderType
  <1>3. Begun(rd) /\ Begun(rd')
    BY <1>2 DEF Begun, ReaderType
  <1>4. Where(rd, i) = 4 /\ Where(rd', i) = 6
    BY <1>2, <1>3 DEF Where, Within, ReaderType
  <1>5. /\ Len(got) < Len(sent) /\ i \in Items /\ Holds(rd, i, out, tmp)
        /\ \A k \in Nat : k <= Len(wire) /\ 4 + k <= Len(Image(i))
               => \A j \in 1..k : wire[j] = Image(i)[4 + j]
    BY <1>1, <1>3, <1>4, ItemAt
  <1>6. i.kind = "message" /\ rd.size = Len(i.data)
    BY <1>2, <1>5 DEF Holds, Tracks, Agrees, Wraps, KindOf
  <1>7. Len(Image(i)) >= 4 + 2 /\ 2 <= Len(wire) /\ Image(i)[4 + 1] = i.code /\ Image(i)[4 + 2] = i.cmd
    <2>1. 4 + 1 = 5 /\ 4 + 2 = 6
      OBVIOUS
    <2>2. Len(wire) >= 2 /\ Len(wire) \in Nat
      BY LenProperties DEF ReadHead, Take, TypeOK
    <2>3. \A l \in Nat : (6 + l >= 6) /\ (l >= 2 => 2 <= l)
      OBVIOUS
    <2>4. Len(i.data) \in Nat
      BY <1>5, ItemFields
    <2> QED BY <1>5, <1>6, <2>1, <2>2, <2>3, <2>4, MessageImage
  <1>8. wire[1] = i.code /\ wire[2] = i.cmd
    <2>1. \A j \in 1..2 : wire[j] = Image(i)[4 + j]
      <3>1. \A l \in Int : l >= 4 + 2 => 4 + 2 <= l
        OBVIOUS
      <3> QED BY <1>5, <1>7, <3>1, ImageTyped
    <2> QED BY <1>7, <2>1
  <1>9. Holds(rd', i, out', tmp')
    BY <1>2, <1>5, <1>6, <1>8 DEF Holds, Tracks, Agrees, Wraps, SeenCode, ReaderType
  <1>10. Take(2) /\ WritersUnchanged /\ UNCHANGED got
    BY DEF ReadHead
  <1> HIDE DEF i
  <1>11. Where(rd, i) \in Int /\ Where(rd', i) = Where(rd, i) + 2
    BY <1>4
  <1> QED BY <1>1, <1>3, <1>5, <1>9, <1>10, <1>11, WithinOrdered DEF i

LEMMA ReadErrorCodeOrdered ==
    ASSUME TypeOK, Shape, Located, ReadErrorCode PROVE Located'
  <1> DEFINE i == sent[Len(got) + 1]
             o == IF rd.name = NoFile THEN 4 ELSE 9 + Len(i.name)
  <1>1. PICK q : /\ Laid(q, wire, sent) /\ Writing(q, wire, sent, wr, cut)
                 /\ Reading(q, sent, got, rd, out, tmp)
    BY DEF Located
  <1>2. /\ rd.pc = "code" /\ rd.as \in {"frame", "file"} /\ rd \in ReaderType
        /\ rd.name # NoFile => rd.as = "file"
        /\ rd' = [rd EXCEPT !.code = ReadCode(wire[1]), !.cmd = 0,
                            !.pc = IF rd.as = "file" /\ rd.name # NoFile
                                   THEN "open" ELSE "data"]
    BY DEF ReadErrorCode, Shape, TypeOK, ReaderType
  <1>3. Begun(rd) /\ Begun(rd')
    BY <1>2 DEF Begun, ReaderType
  <1>4. Where(rd, i) = o
    BY <1>2, <1>3 DEF Where, Within, ReaderType
  <1>5. /\ Len(got) < Len(sent) /\ i \in Items /\ Holds(rd, i, out, tmp)
        /\ \A k \in Nat : o \in Nat /\ k <= Len(wire) /\ o + k <= Len(Image(i))
               => \A j \in 1..k : wire[j] = Image(i)[o + j]
    BY <1>1, <1>3, <1>4, ItemAt
  <1>6. i.kind = rd.as /\ Len(i.name) \in Nat /\ Len(i.data) \in Nat
    <2>1. Len(i.name) \in Nat /\ Len(i.data) \in Nat
      BY <1>5, ItemFields
    <2>2. i.kind = rd.as
      BY <1>2, <1>5 DEF Holds, Tracks, Agrees, Wraps, KindOf
    <2> QED BY <2>1, <2>2
  <1>7. /\ o \in Nat /\ o + 1 <= Len(Image(i)) /\ o + 1 = IF rd.name = NoFile THEN 5 ELSE 10 + Len(i.name)
    <2>1. CASE i.kind = "frame"
      BY <1>2, <1>5, <1>6, <2>1, FrameImage
    <2>2. CASE i.kind = "file"
      <3>1. Len(Image(i)) = 10 + Len(i.name) + Len(i.data)
        BY <1>5, <2>2, FileImage
      <3>2. \A l, m \in Nat : /\ 9 + l \in Nat /\ (9 + l) + 1 = 10 + l
                              /\ (9 + l) + 1 <= 10 + l + m /\ 4 + 1 <= 10 + l + m
        OBVIOUS
      <3> HIDE DEF i
      <3>3. CASE rd.name = NoFile
        <4>1. o = 4
          BY <3>3
        <4>2. 4 \in Nat /\ 4 + 1 = 5
          OBVIOUS
        <4>3. 4 + 1 <= Len(Image(i))
          BY <1>6, <3>1, <3>2
        <4> HIDE DEF o
        <4> QED BY <3>3, <4>1, <4>2, <4>3
      <3>4. CASE rd.name # NoFile
        <4>1. o = 9 + Len(i.name)
          BY <3>4
        <4> QED BY <1>6, <3>1, <3>2, <3>4, <4>1
      <3> QED BY <3>3, <3>4
    <2> QED BY <1>2, <1>6, <2>1, <2>2
  <1>8. wire[1] = Image(i)[o + 1]
    <2>1. Len(wire) >= 1 /\ Len(wire) \in Nat
      BY LenProperties DEF ReadErrorCode, Take, TypeOK
    <2>2. \A l \in Nat : l >= 1 => 1 <= l
      OBVIOUS
    <2> HIDE DEF o, i
    <2>3. \A j \in 1..1 : wire[j] = Image(i)[o + j]
      BY <1>5, <1>7, <2>1, <2>2
    <2> QED BY <2>3
  <1>9. wire[1] = i.code /\ ReadCode(wire[1]) = SeenCode(i) /\ i.cmd = 0
    <2>1. CASE i.kind = "frame"
      <3>1. Image(i)[5] = i.code /\ i.cmd = 0 /\ rd.name = NoFile
        BY <1>2, <1>5, <1>6, <2>1, FrameImage, ItemFields
      <3> QED BY <1>7, <1>8, <2>1, <3>1 DEF SeenCode
    <2>2. CASE i.kind = "file"
      <3>1. Image(i)[5] = 0 /\ Image(i)[10 + Len(i.name)] = 0 /\ i.code = 0 /\ i.cmd = 0
        BY <1>5, <2>2, FileImage, ItemFields
      <3> QED BY <1>7, <1>8, <2>2, <3>1 DEF SeenCode
    <2> QED BY <1>2, <1>6, <2>1, <2>2
  <1>10. Where(rd', i) = o + 1
    <2>1. CASE rd.as = "file" /\ rd.name # NoFile
      BY <1>2, <1>3, <1>7, <2>1 DEF Where, Within, ReaderType
    <2>2. CASE ~(rd.as = "file" /\ rd.name # NoFile)
      BY <1>2, <1>3, <1>7, <2>2 DEF Where, Within, ReaderType
    <2> QED BY <2>1, <2>2
  <1>11. Holds(rd', i, out', tmp')
    BY <1>2, <1>5, <1>9 DEF Holds, Tracks, Agrees, Wraps, ReaderType
  <1>12. Take(1) /\ WritersUnchanged /\ UNCHANGED got
    BY DEF ReadErrorCode
  <1> HIDE DEF i, o
  <1>13. Where(rd, i) \in Int /\ Where(rd', i) = Where(rd, i) + 1
    BY <1>4, <1>7, <1>10
  <1> QED BY <1>1, <1>3, <1>5, <1>11, <1>12, <1>13, WithinOrdered DEF i

\* An item is read: the reader gets what it is to see.
Received == /\ Len(got) < Len(sent)
            /\ got' = Append(got, Seen(sent[Len(got) + 1]))

LEMMA ReadDataOrdered ==
    ASSUME TypeOK, Shape, Located, ReadData, rd'.pc # "failed"
    PROVE  Located' /\ (Received \/ UNCHANGED got)
  <1> DEFINE i == sent[Len(got) + 1]
             o == IF rd.as = "message" THEN 6 ELSE 5
             n == rd.size
             data == SubSeq(wire, 1, n)
             x == IF rd.as = "file" THEN i.name ELSE i.data
  <1>1. PICK q : /\ Laid(q, wire, sent) /\ Writing(q, wire, sent, wr, cut)
                 /\ Reading(q, sent, got, rd, out, tmp)
    BY DEF Located
  <1>2. /\ rd.pc = "data" /\ rd \in ReaderType /\ n \in Nat
        /\ rd.as \in {"message", "frame", "file"} /\ rd.name = NoFile
    BY DEF ReadData, Shape, TypeOK, ReaderType, Readers, Kinds
  <1>3. Begun(rd)
    BY <1>2 DEF Begun
  <1>4. Where(rd, i) = o
    BY <1>2, <1>3 DEF Where, Within
  <1>5. /\ Len(got) < Len(sent) /\ i \in Items /\ Holds(rd, i, out, tmp)
        /\ \A k \in Nat : o \in Nat /\ k <= Len(wire) /\ o + k <= Len(Image(i))
               => \A j \in 1..k : wire[j] = Image(i)[o + j]
    BY <1>1, <1>3, <1>4, ItemAt
  <1>6. /\ i.kind = rd.as /\ n = Len(x) /\ x \in Seq(Bytes)
        /\ rd.code = SeenCode(i) /\ rd.cmd = i.cmd
    <2>1. i.kind = rd.as /\ rd.code = SeenCode(i) /\ rd.cmd = i.cmd
      BY <1>2, <1>5 DEF Holds, Tracks, Agrees, Wraps, KindOf
    <2>2. n = Len(x)
      BY <1>2, <1>5 DEF Holds
    <2> QED BY <1>5, <2>1, <2>2, ItemFields
  <1>7. /\ o \in Nat /\ o + n <= Len(Image(i))
        /\ \A j \in 1..n : Image(i)[o + j] = x[j]
    <2>1. Len(i.name) \in Nat /\ Len(i.data) \in Nat
      BY <1>5, ItemFields
    <2>2. CASE i.kind = "message"
      BY <1>5, <1>6, <2>1, <2>2, MessageImage
    <2>3. CASE i.kind = "frame"
      BY <1>5, <1>6, <2>1, <2>3, FrameImage
    <2>4. CASE i.kind = "file"
      <3>1. /\ Len(Image(i)) = 10 + Len(i.name) + Len(i.data)
            /\ \A j \in 1..Len(i.name) : Image(i)[5 + j] = i.name[j]
        BY <1>5, <2>4, FileImage
      <3>2. o = 5 /\ x = i.name
        BY <1>6, <2>4
      <3>3. \A l, m \in Nat : 5 + l <= 10 + l + m
        OBVIOUS
      <3>4. n = Len(i.name)
        BY <1>6, <3>2
      <3> HIDE DEF o, n, x, i
      <3> QED BY <2>1, <3>1, <3>2, <3>3, <3>4
    <2> QED BY <1>2, <1>6, <2>2, <2>3, <2>4
  <1>8. n <= Len(wire) /\ wire \in Seq(Bytes) /\ Take(n)
    <2>1. Len(wire) >= n /\ Len(wire) \in Nat /\ wire \in Seq(Bytes)
      BY LenProperties DEF ReadData, Take, TypeOK
    <2>2. \A l, m \in Nat : l >= m => m <= l
      OBVIOUS
    <2> QED BY <1>2, <2>1, <2>2 DEF ReadData
  <1>9. data = x
    <2>1. data \in Seq(Bytes) /\ Len(data) = n /\ \A j \in 1..n : data[j] = wire[j]
      BY <1>2, <1>8, SplitTyped
    <2>2. \A j \in 1..n : wire[j] = Image(i)[o + j]
      BY <1>2, <1>5, <1>7, <1>8
    <2> HIDE DEF data, x, n, i, o
    <2>3. \A j \in 1..n : data[j] = x[j]
      BY <1>7, <2>1, <2>2
    <2> QED BY <1>6, <2>1, <2>3, SeqEqual
  <1>10. WritersUnchanged
    BY DEF ReadData
  <1>11. CASE rd.as # "file"
    <2> DEFINE y == [kind |-> rd.as, code |-> rd.code, cmd |-> rd.cmd,
                     name |-> <<>>, data |-> data]
    <2>1. Deliver(y)
      BY <1>11 DEF ReadData
    <2>2. y = Seen(i)
      <3>1. i \in ItemType /\ i.name = <<>> /\ i.data = data
        BY <1>5, <1>6, <1>9, <1>11, ItemFields
      <3>2. i.kind = rd.as /\ rd.cmd = i.cmd
            /\ rd.code = IF i.kind = "message" \/ i.code \in Known \cup {0} THEN i.code ELSE 1
        BY <1>6 DEF SeenCode, ReadCode
      <3> HIDE DEF data, i, x
      <3>3. CASE i.kind = "message" \/ i.code \in Known \cup {0}
        <4>1. Seen(i) = i
          BY <3>3 DEF Seen
        <4> QED BY <3>1, <3>2, <3>3, <4>1 DEF ItemType
      <3>4. CASE ~(i.kind = "message" \/ i.code \in Known \cup {0})
        <4>1. Seen(i) = [i EXCEPT !.code = 1]
          BY <3>4 DEF Seen
        <4> QED BY <3>1, <3>2, <3>4, <4>1 DEF ItemType
      <3> QED BY <3>3, <3>4
    <2>3. y \in ItemType
      <3>1. data \in Seq(Bytes) /\ <<>> \in Seq(Bytes)
        BY <1>6, <1>9, EmptySeq
      <3> HIDE DEF data
      <3> QED BY <1>2, <1>11, <3>1 DEF ItemType, ReaderType, Kinds
    <2>4. o + n = Len(Image(i))
      <3>1. Len(i.data) \in Nat
        BY <1>5, ItemFields
      <3>2. CASE i.kind = "message"
        BY <1>5, <1>6, <3>1, <3>2, MessageImage
      <3>3. CASE i.kind = "frame"
        BY <1>5, <1>6, <3>1, <3>3, FrameImage
      <3> QED BY <1>2, <1>6, <1>11, <3>2, <3>3
    <2> HIDE DEF y, o, n, data, x
    <2>5. Where(rd, i) \in Int /\ Where(rd, i) + n = Len(Image(i)) /\ n \in Nat
      BY <1>2, <1>4, <1>7, <2>4
    <2>6. Located'
      BY <1>1, <1>5, <1>8, <1>10, <2>1, <2>3, <2>5, DoneOrdered
    <2> QED BY <1>5, <2>1, <2>2, <2>6 DEF Received, Deliver
  <1>12. CASE rd.as = "file"
    <2>1. rd' = [rd EXCEPT !.pc = "size", !.name = i.name] /\ UNCHANGED got
      <3>1. data = i.name
        BY <1>9, <1>12
      <3> HIDE DEF data, i
      <3>2. /\ rd' = IF rd.code # 0 \/ data = <<>> THEN [rd EXCEPT !.pc = "failed"]
                     ELSE [rd EXCEPT !.pc = "size", !.name = data]
            /\ UNCHANGED got
        BY <1>12 DEF ReadData, data
      <3>3. [rd EXCEPT !.pc = "failed"].pc = "failed"
        BY <1>2 DEF ReaderType
      <3> QED BY <3>1, <3>2, <3>3
    <2>2. i.name # NoFile
      BY <1>5, ItemFields, Constants
    <2>3. Begun(rd')
      BY <1>2, <2>1, <2>2 DEF Begun, ReaderType
    <2>4. Where(rd', i) = 5 + n
      BY <1>2, <1>6, <1>12, <2>1, <2>3 DEF Where, Within, ReaderType
    <2>5. Holds(rd', i, out', tmp')
      BY <1>2, <1>5, <2>1 DEF Holds, Tracks, Agrees, Wraps, ReaderType
    <2> HIDE DEF i, n, x, data
    <2>6. Where(rd, i) \in Int /\ Where(rd', i) = Where(rd, i) + n /\ n \in Nat
      BY <1>2, <1>4, <1>12, <2>4
    <2>7. Located'
      BY <1>1, <1>5, <1>8, <1>10, <2>1, <2>3, <2>5, <2>6, WithinOrdered DEF i
    <2> QED BY <2>1, <2>7
  <1> QED BY <1>11, <1>12

\* The four bytes of a size that fits are read as that size.
LEMMA SizeRead ==
    ASSUME NEW b \in Seq(Bytes), 4 <= Len(b), NEW l \in Nat, Fits(l),
           \A j \in 1..4 : b[j] = ToBytes(l)[j]
    PROVE  FromBytes(SubSeq(b, 1, 4)) = l
  <1> DEFINE x == SubSeq(b, 1, 4)
  <1>1. x \in Seq(Bytes) /\ Len(x) = 4 /\ \A j \in 1..4 : x[j] = b[j]
    BY SplitTyped
  <1>2. ToBytes(l) \in Seq(Bytes) /\ Len(ToBytes(l)) = 4
    BY ToBytesTyped
  <1> HIDE DEF x
  <1>3. x = ToBytes(l)
    BY <1>1, <1>2, SeqEqual
  <1> QED BY <1>3, FromToBytes DEF x

\* The size that starts a message, a frame or a file.
LEMMA FirstSizeOrdered ==
    ASSUME TypeOK, Shape, Located, ReadSize, rd.name = NoFile, ~mixed, ~astray'
    PROVE  Located'
  <1> DEFINE i == sent[Len(got) + 1]
             l == IF rd.as = "file" THEN Len(i.name) ELSE Len(i.data)
             size == FromBytes(SubSeq(wire, 1, 4))
  <1>1. PICK q : /\ Laid(q, wire, sent) /\ Writing(q, wire, sent, wr, cut)
                 /\ Reading(q, sent, got, rd, out, tmp)
    BY DEF Located
  <1>2. /\ rd.pc = "size" /\ rd \in ReaderType /\ wire \in Seq(Bytes) /\ 4 <= Len(wire)
        /\ sent \in Seq(Items) /\ Len(got) \in Nat /\ Len(sent) \in Nat /\ Len(wire) \in Nat
        /\ rd.as \in {"message", "copy", "frame", "file"}
    <2>1. Len(wire) >= 4 /\ Len(wire) \in Nat
      BY LenProperties DEF ReadSize, Take, TypeOK
    <2>2. \A m \in Nat : m >= 4 => 4 <= m
      OBVIOUS
    <2>3. rd.pc = "size" /\ rd \in ReaderType /\ wire \in Seq(Bytes) /\ sent \in Seq(Items)
          /\ Len(got) \in Nat /\ Len(sent) \in Nat
      BY LenProperties DEF ReadSize, TypeOK, ReaderType
    <2> QED BY <2>1, <2>2, <2>3 DEF ReaderType, Readers, Kinds
  <1>3. Where(rd, i) = 0 /\ Len(got) <= Len(sent) /\ q[Len(got) + 1] = 1
    <2>1. Where(rd, i) = 0
      BY <1>2 DEF Where, Begun
    <2> QED BY <1>1, <2>1 DEF Reading
  <1>4. Len(got) < Len(sent)
    <2>1. ASSUME Len(got) = Len(sent) PROVE FALSE
      <3>1. q[Len(sent) + 1] = 1
        BY <1>3, <2>1
      <3>2. Len(wire) <= 1 - 1
        BY <1>1, <3>1 DEF Laid
      <3> QED BY <1>2, <3>2
    <2> QED BY <1>2, <1>3, <2>1
  <1>5. Len(got) + 1 \in 1..Len(sent) /\ i \in Items
    <2>1. Len(got) + 1 \in 1..Len(sent)
      BY <1>2, <1>4
    <2> QED BY <1>2, <2>1, ElementOfSeq
  <1>6. Tracks(rd.as, i)
    BY DEF ReadSize
  <1>7. i.kind = IF rd.as = "copy" THEN "message" ELSE rd.as
    BY <1>6 DEF Tracks, Agrees, Wraps, KindOf
  <1>8. /\ l \in Nat /\ Fits(l) /\ 0 + 4 <= Len(Image(i))
        /\ \A j \in 1..4 : Image(i)[0 + j] = ToBytes(l)[j]
    <2>1. Fits(Len(i.name)) /\ Fits(Len(i.data))
      BY <1>1, <1>5 DEF Laid
    <2>2. Len(i.name) \in Nat /\ Len(i.data) \in Nat
      BY <1>5, ItemFields
    <2>3. Len(Image(i)) >= 5 /\ Len(Image(i)) \in Nat
      BY <1>5, ImageTyped
    <2>4. \A j \in 1..4 : Image(i)[j] = ToBytes(l)[j]
      <3>1. CASE i.kind = "message"
        BY <1>2, <1>5, <1>7, <3>1, MessageImage
      <3>2. CASE i.kind = "frame"
        BY <1>2, <1>5, <1>7, <3>2, FrameImage
      <3>3. CASE i.kind = "file"
        BY <1>2, <1>5, <1>7, <3>3, FileImage
      <3> QED BY <1>2, <1>7, <3>1, <3>2, <3>3
    <2>5. \A j \in 1..4 : 0 + j = j
      OBVIOUS
    <2>6. \A m \in Nat : m >= 5 => 0 + 4 <= m
      OBVIOUS
    <2>7. l \in Nat /\ Fits(l)
      BY <2>1, <2>2
    <2> HIDE DEF i, l
    <2> QED BY <2>3, <2>4, <2>5, <2>6, <2>7
  <1>9. size = l
    <2>1. q[Len(got) + 1] = 1 - 0 /\ 0 \in Nat /\ 4 \in Nat
      BY <1>3
    <2> DEFINE c == Len(got) + 1
    <2>2. c \in 1..Len(sent) /\ q[c] = 1 - 0 /\ i = sent[c] /\ 0 + 4 <= Len(Image(sent[c]))
      BY <1>5, <1>8, <2>1
    <2> DEFINE o == 0
               k == 4
    <2>3. o \in Nat /\ k \in Nat /\ q[c] = 1 - o /\ k <= Len(wire) /\ o + k <= Len(Image(sent[c]))
      BY <1>2, <2>2
    <2> HIDE DEF c, i, l, o, k
    <2>4. \A j \in 1..k : wire[j] = Image(sent[c])[o + j]
      BY <1>1, <1>2, <2>2, <2>3, LaidRead
    <2>5. \A j \in 1..4 : wire[j] = ToBytes(l)[j]
      BY <1>8, <2>2, <2>4 DEF o, k
    <2> QED BY <1>2, <1>8, <2>5, SizeRead
  <1> HIDE DEF size
  <1>10. Take(4) /\ WritersUnchanged /\ UNCHANGED <<got, tmp>>
    BY DEF ReadSize, DiskUnchanged
  <1>11. \/ /\ rd.as = "message"
            /\ rd' = [rd EXCEPT !.pc = "head", !.size = l]
         \/ /\ rd.as = "copy" /\ out' = CopyHeader(l)
            /\ rd' = [rd EXCEPT !.pc = "pieces", !.size = l, !.left = CopyLength(l)]
         \/ /\ rd.as \in {"frame", "file"}
            /\ rd' = [rd EXCEPT !.pc = "code", !.size = l]
    <2> HIDE DEF l
    <2> QED BY <1>9 DEF ReadSize, size
  <1>12. Begun(rd') /\ Where(rd', i) = 4 /\ Holds(rd', i, out', tmp')
    <2>1. CASE rd.as \in {"message", "frame", "file"}
      <3>1. /\ rd'.pc = IF rd.as = "message" THEN "head" ELSE "code"
            /\ rd'.size = l /\ rd'.name = NoFile /\ rd'.as = rd.as
        BY <1>2, <1>11, <2>1 DEF ReaderType
      <3>2. Begun(rd')
        BY <3>1 DEF Begun
      <3>3. Where(rd', i) = 4
        BY <3>1, <3>2 DEF Where, Within
      <3> QED BY <1>6, <3>1, <3>2, <3>3 DEF Holds
    <2>2. CASE rd.as = "copy"
      <3>1. CopyLength(l) = l + 2 /\ l = Len(i.data)
        BY <1>6, <1>8, <2>2, CopyLengthTyped DEF Tracks, Agrees, Wraps
      <3>2. /\ rd'.pc = "pieces" /\ rd'.size = l /\ rd'.name = NoFile /\ rd'.as = "copy"
            /\ rd'.left = l + 2 /\ rd'.sized = rd.sized /\ out' = CopyHeader(l)
        BY <1>2, <1>11, <2>2, <3>1 DEF ReaderType
      <3>3. Begun(rd')
        BY <3>2 DEF Begun
      <3> DEFINE D == Len(i.data)
      <3>4. /\ rd'.left <= D + 2 /\ D + 2 - rd'.left = 0 /\ 6 + D - rd'.left = 4
        <4>1. \A d \in Nat : d + 2 <= d + 2 /\ d + 2 - (d + 2) = 0 /\ 6 + d - (d + 2) = 4
          OBVIOUS
        <4>2. D \in Nat /\ rd'.left = D + 2
          BY <1>8, <3>1, <3>2
        <4> HIDE DEF D
        <4> QED BY <4>1, <4>2
      <3>5. Where(rd', i) = 4
        <4>1. Where(rd', i) = 6 + D - rd'.left
          BY <3>2, <3>3 DEF Where, Within
        <4> QED BY <3>4, <4>1
      <3>6. out' = Header(rd') /\ Len(Header(rd')) \in Nat
        <4>1. out' \in Seq(Bytes)
          <5>1. <<0>> \in Seq(Bytes)
            BY Constants
          <5>2. ToBytes(l) \in Seq(Bytes)
            BY <1>8, ToBytesTyped
          <5> HIDE DEF l
          <5> QED BY <3>2, <5>1, <5>2, ConcatProperties, EmptySeq DEF CopyHeader
        <4>2. out' = Header(rd')
          BY <3>2 DEF Header, CopyHeader
        <4> QED BY <4>1, <4>2, LenProperties
      <3>7. Len(out') = Len(Header(rd')) + (D + 2 - rd'.left)
        BY <3>4, <3>6
      <3>8. \A j \in 1..D + 2 - rd'.left : out'[Len(Header(rd')) + j] = Image(i)[4 + j]
        <4>1. \A j \in 1..0 : FALSE
          OBVIOUS
        <4> QED BY <3>4, <4>1
      <3>9. rd'.size = D /\ rd'.as = rd.as
        BY <2>2, <3>1, <3>2
      <3> HIDE DEF i
      <3>10. Holds(rd', i, out', tmp')
        BY <1>6, <3>2, <3>4, <3>7, <3>8, <3>9 DEF Holds
      <3> QED BY <3>3, <3>5, <3>10
    <2> QED BY <1>2, <2>1, <2>2
  <1> HIDE DEF i
  <1>13. Where(rd, i) \in Int /\ Where(rd', i) = Where(rd, i) + 4
    BY <1>3, <1>12
  <1> QED BY <1>1, <1>4, <1>10, <1>12, <1>13, WithinOrdered DEF i

\* The size of a file, after its name.
LEMMA FileSizeOrdered ==
    ASSUME TypeOK, Shape, Located, ReadSize, rd.name # NoFile
    PROVE  Located'
  <1> DEFINE i == sent[Len(got) + 1]
             N == Len(i.name)
             L == Len(i.data)
             size == FromBytes(SubSeq(wire, 1, 4))
  <1>1. PICK q : /\ Laid(q, wire, sent) /\ Writing(q, wire, sent, wr, cut)
                 /\ Reading(q, sent, got, rd, out, tmp)
    BY DEF Located
  <1>2. /\ rd.pc = "size" /\ rd \in ReaderType /\ wire \in Seq(Bytes) /\ 4 <= Len(wire)
        /\ rd.as = "file" /\ Len(wire) \in Nat
    <2>1. Len(wire) >= 4 /\ Len(wire) \in Nat /\ wire \in Seq(Bytes)
      BY LenProperties DEF ReadSize, Take, TypeOK
    <2>2. \A m \in Nat : m >= 4 => 4 <= m
      OBVIOUS
    <2>3. rd.pc = "size" /\ rd \in ReaderType /\ rd.as = "file"
      BY DEF ReadSize, TypeOK, ReaderType, Shape
    <2> QED BY <2>1, <2>2, <2>3
  <1>3. Begun(rd)
    BY <1>2 DEF Begun
  <1>4. Where(rd, i) = 5 + N
    BY <1>2, <1>3 DEF Where, Within
  <1>5. /\ Len(got) < Len(sent) /\ i \in Items /\ Holds(rd, i, out, tmp) /\ Fits(L)
        /\ \A k \in Nat : 5 + N \in Nat /\ k <= Len(wire) /\ (5 + N) + k <= Len(Image(i))
               => \A j \in 1..k : wire[j] = Image(i)[(5 + N) + j]
    BY <1>1, <1>3, <1>4, ItemAt
  <1>6. i.kind = "file" /\ Tracks(rd.as, i) /\ rd.name = i.name /\ N \in Nat /\ L \in Nat
    BY <1>2, <1>5, ItemFields DEF Holds, Tracks, Agrees, Wraps, KindOf
  <1>7. size = L
    <2>1. /\ Len(Image(i)) = 10 + N + L
          /\ \A j \in 1..4 : Image(i)[5 + N + j] = ToBytes(L)[j]
      BY <1>5, <1>6, FileImage
    <2> HIDE DEF N, L, i
    <2>2. 5 + N \in Nat /\ (5 + N) + 4 <= 10 + N + L
      BY <1>6
    <2>3. \A j \in 1..4 : wire[j] = Image(i)[5 + N + j]
      BY <1>2, <1>5, <2>1, <2>2
    <2>4. \A j \in 1..4 : wire[j] = ToBytes(L)[j]
      BY <2>1, <2>3
    <2> QED BY <1>2, <1>5, <1>6, <2>4, SizeRead
  <1> HIDE DEF size
  <1>8. Take(4) /\ WritersUnchanged /\ UNCHANGED <<got, tmp>>
    BY DEF ReadSize, DiskUnchanged
  <1>9. rd' = [rd EXCEPT !.pc = "code", !.size = L]
    <2>1. rd' = [rd EXCEPT !.pc = "code", !.size = size]
      BY <1>2 DEF ReadSize, size
    <2> QED BY <1>7, <2>1
  <1>10. /\ rd'.pc = "code" /\ rd'.size = L /\ rd'.name = rd.name /\ rd'.as = "file"
    BY <1>2, <1>9 DEF ReaderType
  <1>11. Begun(rd')
    BY <1>10 DEF Begun
  <1>12. Where(rd', i) = 9 + N
    BY <1>10, <1>11 DEF Where, Within
  <1>13. Holds(rd', i, out', tmp')
    BY <1>2, <1>6, <1>10 DEF Holds
  <1> HIDE DEF i, N, L
  <1>14. Where(rd, i) \in Int /\ Where(rd', i) = Where(rd, i) + 4
    BY <1>4, <1>6, <1>12
  <1> QED BY <1>1, <1>5, <1>8, <1>11, <1>13, <1>14, WithinOrdered DEF i

LEMMA CreateTmpOrdered ==
    ASSUME TypeOK, Shape, Located, CreateTmp, rd'.pc # "failed" PROVE Located'
  <1> DEFINE i == sent[Len(got) + 1]
             N == Len(i.name)
             L == Len(i.data)
  <1>1. PICK q : /\ Laid(q, wire, sent) /\ Writing(q, wire, sent, wr, cut)
                 /\ Reading(q, sent, got, rd, out, tmp)
    BY DEF Located
  <1>2. /\ rd.pc = "open" /\ rd \in ReaderType /\ rd.as = "file" /\ rd.name # NoFile
    BY DEF CreateTmp, TypeOK, ReaderType, Shape
  <1>3. tmp' = <<>> /\ rd' = [rd EXCEPT !.pc = "pieces", !.left = rd.size]
    BY <1>2 DEF CreateTmp, ReaderType
  <1>4. Begun(rd)
    BY <1>2 DEF Begun
  <1>5. /\ Len(got) < Len(sent) /\ i \in Items /\ Holds(rd, i, out, tmp)
    BY <1>1, <1>4, ItemAt
  <1>6. /\ rd'.pc = "pieces" /\ rd'.name = rd.name /\ rd'.as = "file" /\ rd'.size = L
        /\ rd'.left = L /\ rd'.code = SeenCode(i) /\ Tracks(rd'.as, i) /\ rd.name = i.name
    BY <1>2, <1>3, <1>5 DEF Holds, ReaderType
  <1>7. Begun(rd')
    BY <1>6 DEF Begun
  <1>8. N \in Nat /\ L \in Nat
    BY <1>5, ItemFields
  <1>9. /\ Where(rd, i) \in Int /\ Where(rd', i) = Where(rd, i) + 0
    <2>1. Where(rd, i) = 10 + N
      BY <1>2, <1>4 DEF Where, Within
    <2>2. Where(rd', i) = 10 + N + (L - rd'.left)
      BY <1>6, <1>7 DEF Where, Within
    <2> HIDE DEF N, L, i
    <2>3. 10 + N + (L - rd'.left) = (10 + N) + 0 /\ 10 + N \in Int
      BY <1>6, <1>8
    <2> QED BY <2>1, <2>2, <2>3
  <1>10. Holds(rd', i, out', tmp')
    <2>1. rd'.left <= L /\ L - rd'.left = 0
      <3> HIDE DEF L
      <3> QED BY <1>6, <1>8
    <2>2. Len(tmp') = L - rd'.left
      BY <1>3, <2>1
    <2>3. \A j \in 1..L - rd'.left : tmp'[j] = i.data[j]
      <3>1. \A j \in 1..0 : FALSE
        OBVIOUS
      <3> QED BY <2>1, <3>1
    <2> QED BY <1>2, <1>6, <2>1, <2>2, <2>3 DEF Holds
  <1>11. Take(0) /\ WritersUnchanged /\ UNCHANGED got
    BY TakeNone DEF CreateTmp
  <1> HIDE DEF i, N, L
  <1> QED BY <1>1, <1>5, <1>7, <1>9, <1>10, <1>11, WithinOrdered DEF i

LEMMA CloseTmpOrdered ==
    ASSUME TypeOK, Shape, Located, CloseTmp, rd'.pc # "failed" PROVE Located'
  <1> DEFINE i == sent[Len(got) + 1]
  <1>1. PICK q : /\ Laid(q, wire, sent) /\ Writing(q, wire, sent, wr, cut)
                 /\ Reading(q, sent, got, rd, out, tmp)
    BY DEF Located
  <1>2. /\ rd.pc = "close" /\ rd \in ReaderType /\ rd.as = "file" /\ rd.name # NoFile
    BY DEF CloseTmp, TypeOK, ReaderType, Shape
  <1>3. rd' = [rd EXCEPT !.pc = "rename"] /\ tmp' = tmp
    BY <1>2 DEF CloseTmp, DiskUnchanged, ReaderType
  <1>4. Begun(rd)
    BY <1>2 DEF Begun
  <1>5. Len(got) < Len(sent) /\ i \in Items /\ Holds(rd, i, out, tmp)
    BY <1>1, <1>4, ItemAt
  <1>6. /\ rd'.pc = "rename" /\ rd'.name = rd.name /\ rd'.as = "file" /\ rd'.size = rd.size
        /\ rd'.code = rd.code
    BY <1>2, <1>3 DEF ReaderType
  <1>7. Begun(rd')
    BY <1>6 DEF Begun
  <1>8. Where(rd, i) \in Int /\ Where(rd', i) = Where(rd, i) + 0
    <2> DEFINE o == 10 + Len(i.name) + Len(i.data)
    <2>1. Where(rd, i) = o /\ Where(rd', i) = o
      BY <1>2, <1>4, <1>6, <1>7 DEF Where, Within
    <2>2. o \in Int
      BY <1>5, ItemFields
    <2> HIDE DEF o, i
    <2> QED BY <2>1, <2>2
  <1>9. Holds(rd', i, out', tmp')
    BY <1>2, <1>3, <1>5, <1>6 DEF Holds
  <1>10. Take(0) /\ WritersUnchanged /\ UNCHANGED got
    BY TakeNone DEF CloseTmp
  <1> HIDE DEF i
  <1> QED BY <1>1, <1>5, <1>7, <1>8, <1>9, <1>10, WithinOrdered DEF i

LEMMA RenameTmpOrdered ==
    ASSUME TypeOK, Shape, Located, RenameTmp, rd'.pc # "failed"
    PROVE  /\ Located' /\ Received
           /\ sent[Len(got) + 1].kind = "file" /\ rd.name = sent[Len(got) + 1].name
           /\ tmp = sent[Len(got) + 1].data
           /\ shown' = {f \in shown : f.name # rd.name} \cup {[name |-> rd.name, data |-> tmp]}
  <1> DEFINE i == sent[Len(got) + 1]
             y == [kind |-> "file", code |-> rd.code, cmd |-> 0, name |-> rd.name, data |-> tmp]
  <1>1. PICK q : /\ Laid(q, wire, sent) /\ Writing(q, wire, sent, wr, cut)
                 /\ Reading(q, sent, got, rd, out, tmp)
    BY DEF Located
  <1>2. /\ rd.pc = "rename" /\ rd \in ReaderType /\ rd.as = "file" /\ rd.name # NoFile
    BY DEF RenameTmp, TypeOK, ReaderType, Shape
  <1>3. /\ Deliver(y)
        /\ shown' = {f \in shown : f.name # rd.name} \cup {[name |-> rd.name, data |-> tmp]}
    BY <1>2 DEF RenameTmp, ReaderType
  <1>4. Begun(rd)
    BY <1>2 DEF Begun
  <1>5. Len(got) < Len(sent) /\ i \in Items /\ Holds(rd, i, out, tmp)
    BY <1>1, <1>4, ItemAt
  <1>6. /\ rd.name = i.name /\ tmp = i.data /\ i.kind = "file" /\ rd.code = SeenCode(i)
    BY <1>2, <1>5 DEF Holds, Tracks, Agrees, Wraps, KindOf
  <1>7. y = i /\ i \in ItemType /\ Seen(i) = i
    <2>1. i.code = 0 /\ i.cmd = 0 /\ i \in ItemType
      BY <1>5, <1>6, ItemFields
    <2>2. rd.code = 0
      BY <1>6, <2>1 DEF SeenCode, ReadCode
    <2>3. Seen(i) = i
      BY <2>1 DEF Seen
    <2> HIDE DEF i
    <2> QED BY <1>6, <2>1, <2>2, <2>3 DEF ItemType
  <1>8. Where(rd, i) \in Int /\ Where(rd, i) + 0 = Len(Image(i))
    <2> DEFINE o == 10 + Len(i.name) + Len(i.data)
    <2>1. Where(rd, i) = o
      BY <1>2, <1>4 DEF Where, Within
    <2>2. o \in Int
      BY <1>5, ItemFields
    <2>3. Len(Image(i)) = o
      BY <1>5, <1>6, FileImage
    <2> HIDE DEF o, i
    <2> QED BY <2>1, <2>2, <2>3
  <1>9. Take(0) /\ WritersUnchanged
    BY TakeNone DEF RenameTmp
  <1> HIDE DEF i, y
  <1>10. Deliver(i)
    BY <1>3, <1>7
  <1>11. Located'
    BY <1>1, <1>5, <1>7, <1>8, <1>9, <1>10, DoneOrdered DEF i
  <1>12. Received
    BY <1>5, <1>7, <1>10 DEF Received, Deliver, i
  <1> QED BY <1>3, <1>6, <1>11, <1>12 DEF i

\* After its first h bytes, t is the d bytes of f after the first e; x is
\* those of f after the first e.
Copies(t, h, f, e, d) == /\ Len(t) = h + d
                         /\ \A j \in 1..d : t[h + j] = f[e + j]
Follows(x, f, e) == \A j \in 1..Len(x) : x[j] = f[e + j]

LEMMA CopyGrows ==
    ASSUME NEW t \in Seq(Bytes), NEW x \in Seq(Bytes), NEW h \in Nat, NEW d \in Nat,
           NEW f, NEW e \in Nat, Copies(t, h, f, e, d), Follows(x, f, e + d)
    PROVE  Copies(t \o x, h, f, e, d + Len(x))
  <1> DEFINE u == t \o x
             m == Len(x)
  <1>1. m \in Nat
    BY LenProperties
  <1>2. /\ Len(u) = (h + d) + m
        /\ \A k \in 1..(h + d) + m : u[k] = IF k <= h + d THEN t[k] ELSE x[k - (h + d)]
    <2>0. Len(t) = h + d
      BY DEF Copies
    <2>1. /\ Len(u) = Len(t) + Len(x)
          /\ \A k \in 1..Len(t) + Len(x) :
                 u[k] = IF k <= Len(t) THEN t[k] ELSE x[k - Len(t)]
      <3>1. t \in Seq(Bytes) /\ x \in Seq(Bytes)
        OBVIOUS
      <3> QED BY ONLY <3>1, ConcatProperties
    <2> HIDE DEF u
    <2> QED BY <2>0, <2>1
  <1>3. /\ \A j \in 1..m : x[j] = f[(e + d) + j]
        /\ \A j \in 1..d : t[h + j] = f[e + j]
    BY DEF Copies, Follows
  <1> HIDE DEF u, m
  <1>4. ASSUME NEW j \in 1..d + m PROVE u[h + j] = f[e + j]
    <2>1. j \in Nat /\ h + j \in 1..(h + d) + m
      BY <1>1
    <2>2. CASE j <= d
      <3>1. h + j <= h + d /\ j \in 1..d
        BY <1>1, <2>1, <2>2
      <3> QED BY <1>2, <1>3, <2>1, <3>1
    <2>3. CASE j > d
      <3>1. /\ ~(h + j <= h + d) /\ (h + j) - (h + d) = j - d /\ j - d \in 1..m
            /\ (e + d) + (j - d) = e + j
        BY <1>1, <2>1, <2>3
      <3>2. u[h + j] = x[j - d]
        BY <1>2, <2>1, <3>1
      <3> QED BY <1>3, <3>1, <3>2
    <2> QED BY <2>1, <2>2, <2>3
  <1>5. (h + d) + m = h + (d + m)
    BY <1>1
  <1> QED BY <1>2, <1>4, <1>5 DEF Copies, u, m

LEMMA CopyPieceOrdered ==
    ASSUME TypeOK, Shape, Located, CopyPiece PROVE Located'
  <1> DEFINE i == sent[Len(got) + 1]
             N == Len(i.name)
             L == Len(i.data)
             n == Piece(rd.left)
             left == rd.left
             H == Header(rd)
             x == SubSeq(wire, 1, n)
             o == Where(rd, i)
  <1>1. PICK q : /\ Laid(q, wire, sent) /\ Writing(q, wire, sent, wr, cut)
                 /\ Reading(q, sent, got, rd, out, tmp)
    BY DEF Located
  <1>2. /\ rd.pc = "pieces" /\ rd \in ReaderType /\ rd.as \in {"copy", "file"}
        /\ left \in Nat /\ left > 0 /\ Take(n) /\ Store(x)
        /\ rd' = [rd EXCEPT !.left = IF n < @ THEN @ - n ELSE 0]
        /\ rd.as = "file" => rd.name # NoFile /\ tmp # NoFile
        /\ rd.as = "copy" => rd.name = NoFile
    BY DEF CopyPiece, TypeOK, ReaderType, Shape
  <1>3. n \in Nat /\ n <= left /\ rd'.left = left - n /\ left - n \in Nat
    <2>1. n \in Nat /\ n <= left
      BY <1>2, PieceTyped
    <2>2. rd'.left = IF n < left THEN left - n ELSE 0
      BY <1>2 DEF ReaderType
    <2> HIDE DEF n, left
    <2> QED BY <1>2, <2>1, <2>2
  <1>4. /\ rd'.pc = "pieces" /\ rd'.as = rd.as /\ rd'.name = rd.name /\ rd'.size = rd.size
        /\ rd'.code = rd.code /\ rd'.sized = rd.sized
    BY <1>2 DEF ReaderType
  <1>5. Begun(rd) /\ Begun(rd')
    BY <1>2, <1>4 DEF Begun
  <1>6. /\ Len(got) < Len(sent) /\ i \in Items /\ Holds(rd, i, out, tmp)
        /\ \A k \in Nat : o \in Nat /\ k <= Len(wire) /\ o + k <= Len(Image(i))
               => \A j \in 1..k : wire[j] = Image(i)[o + j]
    BY <1>1, <1>5, ItemAt
  <1>7. N \in Nat /\ L \in Nat
    BY <1>6, ItemFields
  <1>8. /\ wire \in Seq(Bytes) /\ n <= Len(wire)
        /\ x \in Seq(Bytes) /\ Len(x) = n /\ \A j \in 1..n : x[j] = wire[j]
    <2>1. wire \in Seq(Bytes) /\ Len(wire) \in Nat /\ Len(wire) >= n
      BY <1>2, LenProperties DEF Take, TypeOK
    <2> HIDE DEF n
    <2>2. n <= Len(wire)
      BY <1>3, <2>1
    <2> QED BY <1>3, <2>1, <2>2, SplitTyped
  <1>9. WritersUnchanged /\ UNCHANGED got
    BY DEF CopyPiece
  <1>10. Tracks(rd'.as, i) /\ i.kind = IF rd.as = "copy" THEN "message" ELSE "file"
    BY <1>2, <1>4, <1>6 DEF Holds, Tracks, Agrees, Wraps, KindOf
  <1>11. CASE rd.as = "copy"
    <2>1. /\ left <= L + 2 /\ Len(out) = Len(H) + (L + (2 - left)) /\ rd.size = L
          /\ \A j \in 1..L + (2 - left) : out[Len(H) + j] = Image(i)[4 + j]
      BY <1>2, <1>6, <1>11 DEF Holds
    <2>2. o = 6 + (L - left) /\ Where(rd', i) = 6 + (L - rd'.left)
      BY <1>2, <1>4, <1>5, <1>11 DEF Where, Within
    <2>3. Len(Image(i)) = 6 + L
      BY <1>6, <1>10, <1>11, MessageImage
    <2>4. out' = out \o x /\ out \in Seq(Bytes) /\ H \in Seq(Bytes) /\ Len(H) \in Nat
      <3>1. out' = out \o x /\ out \in Seq(Bytes)
        BY <1>2, <1>11 DEF Store, TypeOK
      <3>2. <<0>> \in Seq(Bytes) /\ ToBytes(rd.size) \in Seq(Bytes)
        BY <1>7, <2>1, Constants, ToBytesTyped
      <3>3. H \in Seq(Bytes)
        BY <3>2, ConcatProperties, EmptySeq DEF Header
      <3> QED BY <3>1, <3>3, LenProperties
    <2>5. Header(rd') = H
      BY <1>4 DEF Header
    <2> DEFINE d == L + (2 - left)
               h == Len(H)
    <2> HIDE DEF L, N, i, o, left, n, x, H
    <2>6. d \in Nat /\ 4 + d \in Nat /\ o = 4 + d /\ o \in Nat /\ o + n <= 6 + L
          /\ d + n = L + (2 - rd'.left) /\ rd'.left <= L + 2
          /\ Where(rd', i) = o + n
      <3>1. \A l, a, b \in Nat : a <= l + 2 /\ b <= a =>
                /\ l + (2 - a) \in Nat /\ 4 + (l + (2 - a)) \in Nat
                /\ 6 + (l - a) = 4 + (l + (2 - a)) /\ (6 + (l - a)) + b <= 6 + l
                /\ (l + (2 - a)) + b = l + (2 - (a - b)) /\ a - b <= l + 2
                /\ 6 + (l - (a - b)) = (6 + (l - a)) + b
        OBVIOUS
      <3>2. left \in Nat
        BY <1>2
      <3> QED BY <1>3, <1>7, <2>1, <2>2, <3>1, <3>2
    <2>7. \A j \in 1..n : wire[j] = Image(i)[(4 + d) + j]
      BY <1>3, <1>6, <1>8, <2>3, <2>6
    <2>8. \A j \in 1..Len(x) : x[j] = Image(i)[(4 + d) + j]
      BY <1>8, <2>7
    <2>9. /\ Len(out) = h + d /\ \A j \in 1..d : out[h + j] = Image(i)[4 + j]
      BY <2>1
    <2> HIDE DEF d, h
    <2>10. /\ Len(out \o x) = h + (d + Len(x))
           /\ \A j \in 1..d + Len(x) : (out \o x)[h + j] = Image(i)[4 + j]
      <3> DEFINE e == 4
      <3>1. h \in Nat /\ d \in Nat /\ e \in Nat
        BY <2>4, <2>6 DEF h
      <3>2. out \in Seq(Bytes) /\ x \in Seq(Bytes) /\ Len(out) = h + d
        BY <1>8, <2>4, <2>9
      <3>3. Copies(out, h, Image(i), e, d)
        BY <2>9 DEF Copies
      <3>4. Follows(x, Image(i), e + d)
        BY <2>8 DEF Follows
      <3> HIDE DEF e
      <3>5. Copies(out \o x, h, Image(i), e, d + Len(x))
        BY ONLY <3>1, <3>2, <3>3, <3>4, CopyGrows
      <3> QED BY <3>5 DEF Copies, e
    <2>11. /\ Len(out') = Len(Header(rd')) + (L + (2 - rd'.left))
           /\ \A j \in 1..L + (2 - rd'.left) : out'[Len(Header(rd')) + j] = Image(i)[4 + j]
      BY <1>8, <2>4, <2>5, <2>6, <2>10 DEF h
    <2>12. rd'.size = L
      BY <1>4, <2>1
    <2>13. Holds(rd', i, out', tmp')
      BY <1>2, <1>4, <1>10, <1>11, <2>6, <2>11, <2>12 DEF Holds, L
    <2>14. o \in Int
      BY <2>6
    <2> QED BY <1>1, <1>2, <1>3, <1>5, <1>6, <1>9, <2>6, <2>13, <2>14, WithinOrdered DEF i, o
  <1>12. CASE rd.as = "file"
    <2>1. /\ left <= L /\ Len(tmp) = L - left /\ rd.size = L
          /\ \A j \in 1..L - left : tmp[j] = i.data[j]
          /\ rd.name = i.name /\ rd.code = SeenCode(i)
      BY <1>2, <1>6, <1>12 DEF Holds
    <2>2. o = 10 + N + (L - left) /\ Where(rd', i) = 10 + N + (L - rd'.left)
      BY <1>2, <1>4, <1>5, <1>12 DEF Where, Within
    <2>3. /\ Len(Image(i)) = 10 + N + L
          /\ \A j \in 1..L : Image(i)[10 + N + j] = i.data[j]
      BY <1>6, <1>10, <1>12, FileImage
    <2>4. tmp' = tmp \o x /\ tmp \in Seq(Bytes)
      BY <1>2, <1>12 DEF Store, TypeOK
    <2> DEFINE d == L - left
               e == 10 + N
    <2> HIDE DEF L, N, i, o, left, n, x, H
    <2>5. d \in Nat /\ e \in Nat /\ o = e + d /\ o \in Nat /\ o + n <= 10 + N + L
          /\ d + n = L - rd'.left /\ rd'.left <= L /\ d <= L /\ d + n <= L
          /\ Where(rd', i) = o + n
      <3>1. \A l, a, b, c \in Nat : a <= l /\ b <= a =>
                /\ l - a \in Nat /\ c + (l - a) \in Nat /\ (c + (l - a)) + b <= c + l
                /\ (l - a) + b = l - (a - b) /\ a - b <= l /\ l - a <= l /\ (l - a) + b <= l
                /\ c + (l - (a - b)) = (c + (l - a)) + b
        OBVIOUS
      <3>2. left \in Nat
        BY <1>2
      <3>3. e \in Nat
        BY <1>7
      <3>4. o = e + (L - left) /\ Where(rd', i) = e + (L - (left - n))
        BY <1>3, <2>2
      <3> HIDE DEF e
      <3>5. /\ L - left \in Nat /\ e + (L - left) \in Nat /\ (e + (L - left)) + n <= e + L
            /\ (L - left) + n = L - (left - n) /\ left - n <= L /\ L - left <= L
            /\ (L - left) + n <= L /\ e + (L - (left - n)) = (e + (L - left)) + n
        BY <1>3, <1>7, <2>1, <3>1, <3>2, <3>3
      <3>6. e + L = 10 + N + L
        BY DEF e
      <3> QED BY <1>3, <3>3, <3>4, <3>5, <3>6
    <2>6. \A j \in 1..n : wire[j] = Image(i)[(e + d) + j]
      BY <1>3, <1>6, <1>8, <2>3, <2>5
    <2>7. \A j \in 1..Len(x) : x[j] = Image(i)[(e + d) + j]
      BY <1>8, <2>6
    <2>8. Len(tmp) = 0 + d /\ \A j \in 1..d : tmp[0 + j] = Image(i)[e + j]
      <3>1. \A j \in 1..d : 0 + j = j /\ j \in 1..L
        BY <1>7, <2>5
      <3>2. Len(tmp) = d /\ 0 + d = d
        BY <2>1, <2>5
      <3> QED BY <2>1, <2>3, <3>1, <3>2
    <2> HIDE DEF d, e
    <2>9. \A j \in 1..d + Len(x) : (tmp \o x)[0 + j] = Image(i)[e + j]
      <3> DEFINE h == 0
      <3>1. h \in Nat /\ d \in Nat /\ e \in Nat
        BY <2>5
      <3>2. tmp \in Seq(Bytes) /\ x \in Seq(Bytes) /\ Len(tmp) = h + d
        BY <1>8, <2>4, <2>8
      <3>3. Copies(tmp, h, Image(i), e, d)
        BY <2>8 DEF Copies
      <3>4. Follows(x, Image(i), e + d)
        BY <2>7 DEF Follows
      <3> HIDE DEF h
      <3>5. Copies(tmp \o x, h, Image(i), e, d + Len(x))
        BY ONLY <3>1, <3>2, <3>3, <3>4, CopyGrows
      <3> QED BY <3>5 DEF Copies, h
    <2>10. Len(tmp') = L - rd'.left
      <3>1. tmp \in Seq(Bytes) /\ x \in Seq(Bytes)
        BY <1>8, <2>4
      <3>2. Len(tmp \o x) = Len(tmp) + Len(x)
        BY ONLY <3>1, ConcatProperties
      <3>3. Len(tmp) = d /\ Len(x) = n
        BY <1>8, <2>5, <2>8
      <3> QED BY <2>4, <2>5, <3>2, <3>3
    <2>11. \A j \in 1..L - rd'.left : tmp'[j] = i.data[j]
      <3>1. \A j \in 1..d + n : 0 + j = j /\ j \in 1..L
        BY <1>3, <1>7, <2>5
      <3> QED BY <1>8, <2>3, <2>4, <2>5, <2>9, <3>1 DEF e
    <2>12. rd'.size = L
      BY <1>4, <2>1
    <2>13. Holds(rd', i, out', tmp')
      BY <1>2, <1>4, <1>10, <1>12, <2>1, <2>5, <2>10, <2>11, <2>12 DEF Holds, L
    <2>14. o \in Int
      BY <2>5
    <2> QED BY <1>1, <1>2, <1>3, <1>5, <1>6, <1>9, <2>5, <2>13, <2>14, WithinOrdered DEF i, o
  <1> QED BY <1>2, <1>11, <1>12

LEMMA CopiedIs ==
    ASSUME TypeOK, rd.pc = "pieces", rd.as = "copy", rd.left = 0,
           NEW i \in Items, i.kind = "message", Holds(rd, i, out, tmp)
    PROVE  Copied = i
  <1> DEFINE L == Len(i.data)
             H == Header(rd)
             body == SubSeq(out, Len(H) + 1, Len(out))
             data == SubSeq(body, 3, Len(body))
  <1>1. i.data \in Seq(Bytes) /\ L \in Nat /\ i \in ItemType /\ i.name = <<>>
    BY ItemFields
  <1>2. /\ Len(out) = Len(H) + (L + (2 - rd.left)) /\ rd.size = L
        /\ \A j \in 1..L + (2 - rd.left) : out[Len(H) + j] = Image(i)[4 + j]
    BY DEF Holds
  <1>3. out \in Seq(Bytes) /\ H \in Seq(Bytes) /\ Len(H) \in Nat
    <2>1. out \in Seq(Bytes)
      BY DEF TypeOK
    <2>2. <<0>> \in Seq(Bytes) /\ ToBytes(rd.size) \in Seq(Bytes)
      BY <1>1, <1>2, Constants, ToBytesTyped
    <2>3. H \in Seq(Bytes)
      BY <2>2, ConcatProperties, EmptySeq DEF Header
    <2> QED BY <2>1, <2>3, LenProperties
  <1>4. CopyHeader(rd.size) = H
    BY DEF CopyHeader, Header
  <1> DEFINE m == L + 2
             h == Len(H)
  <1>5. h \in Nat /\ m \in Nat /\ Len(out) = h + m
        /\ \A j \in 1..m : out[h + j] = Image(i)[4 + j]
    <2>1. L + (2 - rd.left) = m
      <3> HIDE DEF L
      <3> QED BY <1>1
    <2> HIDE DEF H, L
    <2> QED BY <1>1, <1>2, <1>3, <2>1
  <1> HIDE DEF H, h, m
  <1>6. body \in Seq(Bytes) /\ Len(body) = m /\ \A j \in 1..m : body[j] = Image(i)[4 + j]
    <2>1. h <= Len(out) /\ Len(out) - h = m
      BY <1>5
    <2>2. /\ SubSeq(out, h + 1, Len(out)) \in Seq(Bytes)
          /\ Len(SubSeq(out, h + 1, Len(out))) = Len(out) - h
          /\ \A k \in 1..Len(out) - h : SubSeq(out, h + 1, Len(out))[k] = out[h + k]
      BY <1>3, <1>5, <2>1, SplitTyped
    <2>3. body = SubSeq(out, h + 1, Len(out))
      BY DEF h
    <2> HIDE DEF body
    <2> QED BY <1>5, <2>1, <2>2, <2>3
  <1> HIDE DEF body
  <1>7. m = L + 2 /\ 1 \in 1..m /\ 2 \in 1..m /\ 2 <= m /\ ~(m < 2) /\ m - 2 = L
    <2>1. m = L + 2
      BY DEF m
    <2> HIDE DEF L
    <2> QED BY <1>1, <2>1
  <1>8. /\ Image(i)[5] = i.code /\ Image(i)[6] = i.cmd
        /\ \A j \in 1..L : Image(i)[6 + j] = i.data[j]
    BY MessageImage
  <1>9. body[1] = i.code /\ body[2] = i.cmd /\ body # <<>> /\ ~(Len(body) < 2)
    <2>1. 4 + 1 = 5 /\ 4 + 2 = 6
      OBVIOUS
    <2>2. body[1] = Image(i)[4 + 1] /\ body[2] = Image(i)[4 + 2]
      BY <1>6, <1>7
    <2>3. Len(<<>>) = 0
      OBVIOUS
    <2> QED BY <1>6, <1>7, <1>8, <2>1, <2>2, <2>3
  <1>10. data = i.data
    <2>1. 2 + 1 = 3
      OBVIOUS
    <2>2. /\ SubSeq(body, 2 + 1, Len(body)) \in Seq(Bytes)
          /\ Len(SubSeq(body, 2 + 1, Len(body))) = Len(body) - 2
          /\ \A k \in 1..Len(body) - 2 : SubSeq(body, 2 + 1, Len(body))[k] = body[2 + k]
      <3> DEFINE z == 2
      <3>1. z \in Nat /\ z <= Len(body)
        BY <1>6, <1>7
      <3> HIDE DEF z
      <3>2. /\ SubSeq(body, z + 1, Len(body)) \in Seq(Bytes)
            /\ Len(SubSeq(body, z + 1, Len(body))) = Len(body) - z
            /\ \A k \in 1..Len(body) - z : SubSeq(body, z + 1, Len(body))[k] = body[z + k]
        BY <1>6, <3>1, SplitTyped
      <3> QED BY <3>2 DEF z
    <2>3. data \in Seq(Bytes) /\ Len(data) = L
      BY <1>6, <1>7, <2>1, <2>2
    <2>4. ASSUME NEW j \in 1..L PROVE data[j] = i.data[j]
      <3>1. 2 + j \in 1..m /\ 4 + (2 + j) = 6 + j
        <4> HIDE DEF L
        <4> QED BY <1>1, <1>7
      <3>2. data[j] = body[2 + j]
        BY <1>6, <1>7, <2>1, <2>2
      <3>3. body[2 + j] = Image(i)[6 + j]
        BY <1>6, <3>1
      <3> QED BY <1>8, <3>2, <3>3
    <2> HIDE DEF data
    <2> QED BY <1>1, <2>3, <2>4, SeqEqual
  <1>11. Copied = [kind |-> "message", name |-> <<>>, code |-> i.code, cmd |-> i.cmd,
                   data |-> i.data]
    <2>1. Copied = [kind |-> "message", name |-> <<>>,
                    code |-> IF body = <<>> THEN 0 ELSE body[1],
                    cmd |-> IF Len(body) < 2 THEN 0 ELSE body[2], data |-> data]
      BY <1>4 DEF Copied, body
    <2> HIDE DEF data
    <2> QED BY <1>9, <1>10, <2>1
  <1> QED BY <1>1, <1>11 DEF ItemType

LEMMA PiecesDoneOrdered ==
    ASSUME TypeOK, Shape, Located, PiecesDone
    PROVE  Located' /\ (Received \/ UNCHANGED got)
  <1> DEFINE i == sent[Len(got) + 1]
             N == Len(i.name)
             L == Len(i.data)
  <1>1. PICK q : /\ Laid(q, wire, sent) /\ Writing(q, wire, sent, wr, cut)
                 /\ Reading(q, sent, got, rd, out, tmp)
    BY DEF Located
  <1>2. /\ rd.pc = "pieces" /\ rd \in ReaderType /\ rd.as \in {"copy", "file"} /\ rd.left = 0
        /\ rd.as = "file" => rd.name # NoFile /\ tmp # NoFile
    BY DEF PiecesDone, TypeOK, ReaderType, Shape
  <1>3. Begun(rd)
    BY <1>2 DEF Begun
  <1>4. Len(got) < Len(sent) /\ i \in Items /\ Holds(rd, i, out, tmp)
    BY <1>1, <1>3, ItemAt
  <1>5. N \in Nat /\ L \in Nat /\ i.data \in Seq(Bytes)
    BY <1>4, ItemFields
  <1>6. i.kind = IF rd.as = "copy" THEN "message" ELSE "file"
    BY <1>2, <1>4 DEF Holds, Tracks, Agrees, Wraps, KindOf
  <1>7. Take(0) /\ WritersUnchanged
    BY TakeNone DEF PiecesDone
  <1>8. CASE rd.as = "copy"
    <2>1. Copied = i
      BY <1>2, <1>4, <1>6, <1>8, CopiedIs
    <2>2. Deliver(i)
      <3>1. Deliver(Copied)
        BY <1>8 DEF PiecesDone
      <3> QED BY <2>1, <3>1
    <2>3. i \in ItemType /\ Seen(i) = i
      BY <1>4, <1>6, <1>8, ItemFields DEF Seen
    <2>4. Where(rd, i) \in Int /\ Where(rd, i) + 0 = Len(Image(i))
      <3>1. Where(rd, i) = 6 + (L - rd.left)
        BY <1>2, <1>3, <1>8 DEF Where, Within
      <3>2. Len(Image(i)) = 6 + L
        BY <1>4, <1>6, <1>8, MessageImage
      <3> HIDE DEF L, i
      <3>3. 6 + (L - rd.left) = 6 + L /\ 6 + L \in Int /\ (6 + L) + 0 = 6 + L
        BY <1>2, <1>5
      <3> QED BY <3>1, <3>2, <3>3
    <2> HIDE DEF i
    <2>5. Located'
      BY <1>1, <1>4, <1>7, <2>2, <2>3, <2>4, DoneOrdered DEF i
    <2>6. Received
      BY <1>4, <2>2, <2>3 DEF Received, Deliver, i
    <2> QED BY <2>5, <2>6
  <1>9. CASE rd.as = "file"
    <2>1. rd' = [rd EXCEPT !.pc = "close"] /\ UNCHANGED <<got, tmp>>
      BY <1>9 DEF PiecesDone, DiskUnchanged
    <2>2. tmp = i.data
      <3>1. /\ Len(tmp) = L - rd.left /\ \A j \in 1..L - rd.left : tmp[j] = i.data[j]
        BY <1>2, <1>4, <1>9 DEF Holds
      <3>2. L - rd.left = L
        <4> HIDE DEF L
        <4> QED BY <1>2, <1>5
      <3>3. tmp \in Seq(Bytes)
        BY <1>2, <1>9 DEF TypeOK
      <3> QED BY <1>5, <3>1, <3>2, <3>3, SeqEqual
    <2>3. /\ rd'.pc = "close" /\ rd'.name = rd.name /\ rd'.as = "file" /\ rd'.size = rd.size
          /\ rd'.code = rd.code
      BY <1>2, <1>9, <2>1 DEF ReaderType
    <2>4. Begun(rd')
      BY <2>3 DEF Begun
    <2>5. Where(rd, i) \in Int /\ Where(rd', i) = Where(rd, i) + 0
      <3>1. Where(rd, i) = 10 + N + (L - rd.left)
        BY <1>2, <1>3, <1>9 DEF Where, Within
      <3>2. Where(rd', i) = 10 + N + L
        BY <2>3, <2>4 DEF Where, Within
      <3> HIDE DEF L, N, i
      <3>3. 10 + N + (L - rd.left) = 10 + N + L /\ 10 + N + L \in Int
            /\ (10 + N + L) + 0 = 10 + N + L
        BY <1>2, <1>5
      <3> QED BY <3>1, <3>2, <3>3
    <2>6. Holds(rd', i, out', tmp')
      BY <1>2, <1>4, <1>9, <2>1, <2>2, <2>3 DEF Holds
    <2> HIDE DEF i
    <2>7. Located'
      BY <1>1, <1>4, <1>7, <2>1, <2>4, <2>5, <2>6, WithinOrdered DEF i
    <2> QED BY <2>1, <2>7
  <1> QED BY <1>2, <1>8, <1>9

LEMMA CutOrdered ==
    ASSUME TypeOK, Located, NEW n \in 0..MaxRest, Cut(n) PROVE Located'
  <1>1. PICK q : /\ Laid(q, wire, sent) /\ Writing(q, wire, sent, wr, cut)
                 /\ Reading(q, sent, got, rd, out, tmp)
    BY DEF Located
  <1>2. /\ cut' = TRUE /\ n <= Len(wire) /\ wire' = SubSeq(wire, 1, n)
        /\ UNCHANGED <<wr, rd, out, tmp, sent, got>>
    BY DEF Cut
  <1>3. wire \in Seq(Bytes) /\ sent \in Seq(Items) /\ n \in Nat
    BY FramingAssumption DEF TypeOK
  <1>4. Laid(q, wire', sent)
    <2>1. Laid(q, SubSeq(wire, 1, n), sent)
      BY <1>1, <1>2, <1>3, LaidCut
    <2> QED BY <1>2, <2>1
  <1>5. Writing(q, wire', sent, wr, TRUE)
    BY <1>1 DEF Writing
  <1> QED BY <1>1, <1>2, <1>4, <1>5 DEF Located

LEMMA CallOrdered ==
    ASSUME TypeOK, Located, NEW reader \in Readers, Call(reader) PROVE Located'
  <1>1. PICK q : /\ Laid(q, wire, sent) /\ Writing(q, wire, sent, wr, cut)
                 /\ Reading(q, sent, got, rd, out, tmp)
    BY DEF Located
  <1>2. /\ UNCHANGED <<wire, wr, cut, sent, got, tmp>> /\ rd.pc = "idle"
    BY DEF Call, WritersUnchanged, DiskUnchanged
  <1>3. rd'.pc = "size" /\ rd'.name = NoFile
    <2>1. rd \in ReaderType
      BY DEF TypeOK, ReaderType
    <2>2. PICK b \in IF reader = "copy" THEN BOOLEAN ELSE {FALSE} :
              rd' = [rd EXCEPT !.pc = "size", !.as = reader, !.name = NoFile, !.sized = b]
      BY Zenon DEF Call
    <2> QED BY <2>1, <2>2 DEF ReaderType
  <1>4. ~Begun(rd) /\ ~Begun(rd')
    BY <1>2, <1>3 DEF Begun
  <1>5. Where(rd, sent[Len(got) + 1]) = 0 /\ Where(rd', sent[Len(got) + 1]) = 0
    BY <1>4 DEF Where
  <1>6. Reading(q, sent, got, rd', out', tmp)
    BY <1>1, <1>4, <1>5 DEF Reading
  <1> QED BY <1>1, <1>2, <1>6 DEF Located

\* A step of the reader keeps the order, and what it gets is the next item.
LEMMA ReaderOrdered ==
    ASSUME TypeOK, Shape, Located, InStep, InStep', ReaderStep
    PROVE  /\ rd'.pc # "failed" => Located'
           /\ Received \/ UNCHANGED got
  <1>1. CASE ReadSize
    <2>1. ~mixed /\ ~astray'
      BY DEF InStep
    <2>2. Located'
      BY <1>1, <2>1, FirstSizeOrdered, FileSizeOrdered
    <2> QED BY <1>1, <2>2 DEF ReadSize
  <1>12. CASE HeaderUnwritten
    <2>1. rd \in ReaderType
      BY DEF TypeOK, ReaderType
    <2>2. rd' = [rd EXCEPT !.pc = "failed"] /\ UNCHANGED got
      BY <1>12 DEF HeaderUnwritten
    <2>3. rd'.pc = "failed"
      BY <2>1, <2>2 DEF ReaderType
    <2> QED BY <2>2, <2>3
  <1>2. CASE ReadHead
    BY <1>2, ReadHeadOrdered DEF ReadHead
  <1>3. CASE ReadErrorCode
    BY <1>3, ReadErrorCodeOrdered DEF ReadErrorCode
  <1>4. CASE ReadData
    <2>1. CASE rd'.pc = "failed"
      <3>1. UNCHANGED got
        BY <1>4, <2>1 DEF ReadData, Deliver, IdleReader
      <3> QED BY <2>1, <3>1
    <2>2. CASE rd'.pc # "failed"
      BY <1>4, <2>2, ReadDataOrdered
    <2> QED BY <2>1, <2>2
  <1>5. CASE FieldFails
    <2>1. rd \in ReaderType
      BY DEF TypeOK, ReaderType
    <2>2. rd' = [rd EXCEPT !.pc = "failed"] /\ UNCHANGED got
      BY <1>5 DEF FieldFails
    <2>3. rd'.pc = "failed"
      BY <2>1, <2>2 DEF ReaderType
    <2> QED BY <2>2, <2>3
  <1>6. CASE CreateTmp
    BY <1>6, CreateTmpOrdered DEF CreateTmp
  <1>7. CASE CopyPiece
    BY <1>7, CopyPieceOrdered DEF CopyPiece
  <1>8. CASE PieceFails
    <2>1. rd \in ReaderType
      BY DEF TypeOK, ReaderType
    <2>2. rd' = [rd EXCEPT !.pc = "failed"] /\ UNCHANGED got
      BY <1>8 DEF PieceFails, PieceShort, PieceUnwritten
    <2>3. rd'.pc = "failed"
      BY <2>1, <2>2 DEF ReaderType
    <2> QED BY <2>2, <2>3
  <1>9. CASE PiecesDone
    BY <1>9, PiecesDoneOrdered
  <1>10. CASE CloseTmp
    BY <1>10, CloseTmpOrdered DEF CloseTmp
  <1>11. CASE RenameTmp
    <2>1. CASE rd'.pc = "failed"
      <3>1. UNCHANGED got
        BY <1>11, <2>1 DEF RenameTmp, Deliver, IdleReader
      <3> QED BY <2>1, <3>1
    <2>2. CASE rd'.pc # "failed"
      BY <1>11, <2>2, RenameTmpOrdered
    <2> QED BY <2>1, <2>2
  <1> QED BY <1>1, <1>2, <1>3, <1>4, <1>5, <1>6, <1>7, <1>8, <1>9, <1>10, <1>11,
         <1>12 DEF ReaderStep

LEMMA OrderedStep ==
    ASSUME TypeOK, Shape, Ordered, [Next]_vars PROVE Ordered'
  <1> SUFFICES ASSUME InStep', rd'.pc # "failed" PROVE Located'
    BY DEF Ordered
  <1>1. InStep /\ rd.pc # "failed" /\ Located
    BY Back DEF Ordered
  <1>2. PICK q : /\ Laid(q, wire, sent) /\ Writing(q, wire, sent, wr, cut)
                 /\ Reading(q, sent, got, rd, out, tmp)
    BY <1>1 DEF Located
  <1>3. CASE \E w \in Writers, i \in Items : Begin(w, i)
    <2>1. PICK w \in Writers, i \in Items : Begin(w, i)
      BY <1>3
    <2> QED BY <1>2, <2>1, BeginOrdered DEF Located
  <1>4. CASE \E w \in Writers : WriterStep(w)
    <2>1. PICK w \in Writers : GoOn(w) \/ WriterFails(w)
      BY <1>4 DEF WriterStep
    <2>2. CASE GoOn(w)
      <3>1. UNCHANGED <<cut, rd, out, tmp, got, sent>>
        BY <2>2 DEF GoOn, ReaderUnchanged
      <3>2. Laid(q, wire', sent) /\ Writing(q, wire', sent, wr', cut)
        BY <1>2, <2>2, GoOnOrdered
      <3> QED BY <1>2, <3>1, <3>2 DEF Located
    <2>3. CASE WriterFails(w)
      <3>1. UNCHANGED <<wire, cut, rd, out, tmp, got, sent>>
        BY <2>3 DEF WriterFails, ReaderUnchanged
      <3>2. Writing(q, wire, sent, wr', cut)
        BY <1>2, <2>3, WriterFailsOrdered
      <3> QED BY <1>2, <3>1, <3>2 DEF Located
    <2> QED BY <2>1, <2>2, <2>3
  <1>5. CASE \E n \in 0..MaxRest : Cut(n)
    BY <1>1, <1>5, CutOrdered
  <1>6. CASE \E reader \in Readers : Call(reader)
    BY <1>1, <1>6, CallOrdered
  <1>7. CASE ReaderStep
    BY <1>1, <1>7, ReaderOrdered
  <1>8. CASE UNCHANGED vars
    BY <1>1, <1>8 DEF vars, Located
  <1> QED BY <1>3, <1>4, <1>5, <1>6, <1>7, <1>8 DEF Next

LEMMA OrderedInit == Init => Ordered
  <1> SUFFICES ASSUME Init PROVE Located
    BY DEF Ordered
  <1>1. /\ wire = <<>> /\ sent = <<>> /\ got = <<>> /\ cut = FALSE
        /\ wr = [w \in Writers |-> IdleWriter] /\ rd = IdleReader
    BY DEF Init
  <1>2. PICK q : Laid(q, <<>>, <<>>) /\ q[1] = 1
    BY LaidEmpty
  <1>3. Len(<<>>) = 0
    OBVIOUS
  <1>4. \A w \in Writers : wr[w].pc = "idle"
    BY <1>1 DEF IdleWriter
  <1>5. Writing(q, wire, sent, wr, cut)
    BY <1>1, <1>2, <1>3, <1>4 DEF Writing
  <1>6. Reading(q, sent, got, rd, out, tmp)
    <2>1. ~Begun(rd)
      BY <1>1 DEF Begun, IdleReader
    <2>2. Where(rd, sent[Len(got) + 1]) = 0
      BY <2>1 DEF Where
    <2>3. Len(got) <= Len(sent) /\ q[Len(got) + 1] = 1
      BY <1>1, <1>2, <1>3
    <2> QED BY <2>1, <2>2, <2>3 DEF Reading
  <1> QED BY <1>1, <1>2, <1>5, <1>6 DEF Located

LEMMA OrderKept == Spec => [](TypeOK /\ Shape /\ Ordered)
  <1>1. Init => TypeOK /\ Shape /\ Ordered
    BY TypedInit, OrderedInit
  <1>2. TypeOK /\ Shape /\ Ordered /\ [Next]_vars => (TypeOK /\ Shape /\ Ordered)'
    BY TypedStep, OrderedStep
  <1> QED BY <1>1, <1>2, PTL DEF Spec

-----------------------------------------------------------------------------
\* Readers of the right kind get the items written by WriteMessage,
\* WriteBytesErr and WriteBinary, each whole and in order, for items of any
\* size that fits its header and whatever fails on the way: what the functions
\* of util.go do is a MessageStream.
THEOREM FramingImplementsStream == Spec => Implements
  <1>1. Init => Stream!Init
    BY DEF Init, Stream!Init, InStep
  <1>2. ASSUME TypeOK, Shape, Ordered, [Next]_vars
        PROVE  [Stream!Next \/ (~InStep /\ ~InStep')]_(Stream!vars)
    <2>1. CASE ~InStep
      <3>1. ~InStep'
        BY <1>2, <2>1, Back
      <3> QED BY <2>1, <3>1
    <2>2. CASE InStep /\ ~InStep'
      BY <2>2 DEF Stream!Next
    <2>3. CASE InStep /\ InStep'
      <3>1. CASE \E w \in Writers, i \in Items : Begin(w, i)
        <4>1. PICK i \in Items : sent' = Append(sent, i) /\ UNCHANGED got
          BY <3>1 DEF Begin, ReaderUnchanged
        <4> QED BY <2>3, <4>1 DEF Stream!Next, Stream!Send
      <3>2. CASE ReaderStep
        <4>1. rd.pc # "failed"
          BY <3>2 DEF ReaderStep, ReadSize, HeaderUnwritten, ReadHead, ReadErrorCode,
                      ReadData, FieldFails, CreateTmp, CopyPiece, PieceFails, PiecesDone,
                      CloseTmp, RenameTmp
        <4>2. Received \/ UNCHANGED got
          BY <1>2, <2>3, <3>2, <4>1, ReaderOrdered DEF Ordered
        <4>3. UNCHANGED sent
          BY <3>2 DEF ReaderStep, ReadSize, HeaderUnwritten, ReadHead, ReadErrorCode,
                      ReadData, FieldFails, CreateTmp, CopyPiece, PieceFails, PiecesDone,
                      CloseTmp, RenameTmp,
                      WritersUnchanged
        <4>4. CASE Received
          BY <2>3, <4>3, <4>4 DEF Received, Stream!Next, Stream!Receive
        <4>5. CASE UNCHANGED got
          BY <2>3, <4>3, <4>5 DEF Stream!vars
        <4> QED BY <4>2, <4>4, <4>5
      <3>3. ASSUME UNCHANGED <<sent, got>>
            PROVE  UNCHANGED Stream!vars
        BY <2>3, <3>3 DEF Stream!vars
      <3>4. CASE \E w \in Writers : WriterStep(w)
        <4>1. UNCHANGED <<sent, got>>
          BY <3>4 DEF WriterStep, GoOn, WriterFails, ReaderUnchanged
        <4> QED BY <3>3, <4>1
      <3>5. CASE \E n \in 0..MaxRest : Cut(n)
        <4>1. UNCHANGED <<sent, got>>
          BY <3>5 DEF Cut
        <4> QED BY <3>3, <4>1
      <3>6. CASE \E reader \in Readers : Call(reader)
        <4>1. UNCHANGED <<sent, got>>
          BY <3>6 DEF Call, WritersUnchanged
        <4> QED BY <3>3, <4>1
      <3>7. CASE UNCHANGED vars
        <4>1. UNCHANGED <<sent, got>>
          BY <3>7 DEF vars
        <4> QED BY <3>3, <4>1
      <3> QED BY <1>2, <3>1, <3>2, <3>4, <3>5, <3>6, <3>7 DEF Next
    <2> QED BY <2>1, <2>2, <2>3
  <1> QED BY <1>1, <1>2, OrderKept, PTL DEF Spec, Implements, Stream!Spec

-----------------------------------------------------------------------------
(* What is shown in DownloadPath.                                           *)

\* f is a file that was sent, whole.
FromSent(f, s) == \E i \in DOMAIN s :
                      s[i].kind = "file" /\ s[i].name = f.name /\ s[i].data = f.data

AllShown(sh, s, g) ==
    /\ \A f \in sh : FromSent(f, s)
    /\ \A i \in DOMAIN g : g[i].kind = "file" => \E f \in sh : f.name = g[i].name

LEMMA ShownSame ==
    ASSUME TypeOK, AllShown(shown, sent, got), UNCHANGED shown,
           UNCHANGED sent \/ \E i \in Items : sent' = Append(sent, i),
           UNCHANGED got \/ \E x : x.kind # "file" /\ got' = Append(got, x)
    PROVE  AllShown(shown', sent', got')
  <1>1. sent \in Seq(Items) /\ got \in Seq(ItemType)
    BY DEF TypeOK
  <1>2. ASSUME NEW f \in shown PROVE FromSent(f, sent')
    <2>1. PICK i \in DOMAIN sent :
              sent[i].kind = "file" /\ sent[i].name = f.name /\ sent[i].data = f.data
      BY DEF AllShown, FromSent
    <2>2. i \in DOMAIN sent' /\ sent'[i] = sent[i]
      <3>1. CASE UNCHANGED sent
        BY <3>1
      <3>2. CASE \E x \in Items : sent' = Append(sent, x)
        <4>1. PICK x \in Items : sent' = Append(sent, x)
          BY <3>2
        <4>2. /\ DOMAIN sent = 1..Len(sent) /\ DOMAIN sent' = 1..Len(sent) + 1
              /\ \A j \in 1..Len(sent) : sent'[j] = sent[j]
          BY <1>1, <4>1, AppendProperties, LenProperties
        <4>3. Len(sent) \in Nat
          BY <1>1, LenProperties
        <4> QED BY <4>2, <4>3
      <3> QED BY <3>1, <3>2
    <2> QED BY <2>1, <2>2 DEF FromSent
  <1>3. ASSUME NEW i \in DOMAIN got', got'[i].kind = "file"
        PROVE  i \in DOMAIN got /\ got'[i] = got[i]
    <2>1. CASE UNCHANGED got
      BY <1>3, <2>1
    <2>2. CASE \E x : x.kind # "file" /\ got' = Append(got, x)
      <3>1. PICK x : x.kind # "file" /\ got' = Append(got, x)
        BY <2>2
      <3>2. /\ DOMAIN got = 1..Len(got) /\ DOMAIN got' = 1..Len(got) + 1
            /\ \A j \in 1..Len(got) : got'[j] = got[j]
            /\ got'[Len(got) + 1] = x
        BY <1>1, <3>1, AppendProperties, LenProperties
      <3>3. Len(got) \in Nat
        BY <1>1, LenProperties
      <3>4. ASSUME i = Len(got) + 1 PROVE FALSE
        <4>1. got'[i] = x
          BY <3>2, <3>4
        <4> QED BY <1>3, <3>1, <4>1
      <3> QED BY <1>3, <3>2, <3>3, <3>4
    <2> QED BY <2>1, <2>2
  <1> QED BY <1>2, <1>3 DEF AllShown

LEMMA ShownRenamed ==
    ASSUME TypeOK, Shape, Located, RenameTmp, rd'.pc # "failed",
           AllShown(shown, sent, got)
    PROVE  AllShown(shown', sent', got')
  <1> DEFINE c == Len(got) + 1
             new == [name |-> rd.name, data |-> tmp]
  <1>1. /\ Len(got) < Len(sent) /\ got' = Append(got, Seen(sent[c]))
        /\ sent[c].kind = "file" /\ rd.name = sent[c].name /\ tmp = sent[c].data
        /\ shown' = {f \in shown : f.name # rd.name} \cup {new}
    BY RenameTmpOrdered DEF Received
  <1>2. sent \in Seq(Items) /\ got \in Seq(ItemType) /\ Len(got) \in Nat /\ Len(sent) \in Nat
        /\ DOMAIN sent = 1..Len(sent) /\ DOMAIN got = 1..Len(got) /\ UNCHANGED sent
    BY LenProperties DEF TypeOK, RenameTmp, WritersUnchanged
  <1>3. c \in DOMAIN sent /\ sent[c] \in Items
    BY <1>1, <1>2, ElementOfSeq
  <1>4. FromSent(new, sent)
    BY <1>1, <1>3 DEF FromSent
  <1>5. \A f \in shown' : FromSent(f, sent')
    BY <1>1, <1>2, <1>4 DEF AllShown
  <1>6. Seen(sent[c]).name = rd.name /\ Seen(sent[c]) \in ItemType
    <2>1. sent[c] \in ItemType /\ sent[c].code = 0
      BY <1>1, <1>3, ItemFields
    <2>2. Seen(sent[c]) = sent[c]
      BY <2>1 DEF Seen
    <2> QED BY <1>1, <2>1, <2>2
  <1>7. new \in shown' /\ new.name = rd.name
    BY <1>1
  <1> HIDE DEF new
  <1>8. /\ DOMAIN got' = 1..Len(got) + 1
        /\ \A j \in 1..Len(got) : got'[j] = got[j]
        /\ got'[Len(got) + 1] = Seen(sent[c])
    <2>1. Len(got') = Len(got) + 1 /\ got' \in Seq(ItemType)
      BY <1>1, <1>2, <1>6, AppendProperties
    <2> QED BY <1>1, <1>2, <1>6, <2>1, AppendProperties, LenProperties
  <1>9. ASSUME NEW i \in DOMAIN got', got'[i].kind = "file"
        PROVE  \E f \in shown' : f.name = got'[i].name
    <2>1. CASE i = Len(got) + 1
      BY <1>6, <1>7, <1>8, <2>1
    <2>2. CASE i # Len(got) + 1
      <3>1. i \in DOMAIN got /\ got'[i] = got[i]
        BY <1>2, <1>8, <1>9, <2>2
      <3>2. PICK f \in shown : f.name = got[i].name
        BY <1>9, <3>1 DEF AllShown
      <3>3. CASE f.name = rd.name
        BY <1>7, <3>1, <3>2, <3>3
      <3>4. CASE f.name # rd.name
        BY <1>1, <3>1, <3>2, <3>4
      <3> QED BY <3>3, <3>4
    <2> QED BY <2>1, <2>2
  <1> QED BY <1>5, <1>9 DEF AllShown

\* A file in DownloadPath is one that was sent, whole, whatever failed while it
\* was downloaded (readNBinary renames its temporary file only when every piece
\* is copied), and every file ReadBinary reports as read is there.
THEOREM FramingShownWhole == Spec => []ShownWhole
  <1> DEFINE Whole == InStep => AllShown(shown, sent, got)
  <1>1. Init => Whole
    BY DEF Init, AllShown
  <1>2. ASSUME TypeOK, Shape, Ordered, Whole, [Next]_vars PROVE Whole'
    <2> SUFFICES ASSUME InStep' PROVE AllShown(shown', sent', got')
      OBVIOUS
    <2>1. InStep /\ AllShown(shown, sent, got)
      BY <1>2, Back
    <2> HIDE DEF Whole
    <2>2. ASSUME UNCHANGED <<shown, sent, got>> PROVE AllShown(shown', sent', got')
      BY <2>1, <2>2
    <2>3. CASE \E w \in Writers, i \in Items : Begin(w, i)
      <3>1. UNCHANGED <<shown, got>> /\ \E i \in Items : sent' = Append(sent, i)
        BY <2>3 DEF Begin, ReaderUnchanged
      <3> QED BY <1>2, <2>1, <3>1, ShownSame
    <2>4. CASE \E w \in Writers : WriterStep(w)
      <3>1. UNCHANGED <<shown, sent, got>>
        BY <2>4 DEF WriterStep, GoOn, WriterFails, ReaderUnchanged
      <3> QED BY <2>2, <3>1
    <2>5. CASE \E n \in 0..MaxRest : Cut(n)
      <3>1. UNCHANGED <<shown, sent, got>>
        BY <2>5 DEF Cut
      <3> QED BY <2>2, <3>1
    <2>6. CASE \E reader \in Readers : Call(reader)
      <3>1. UNCHANGED <<shown, sent, got>>
        BY <2>6 DEF Call, WritersUnchanged, DiskUnchanged
      <3> QED BY <2>2, <3>1
    <2>7. CASE UNCHANGED vars
      <3>1. UNCHANGED <<shown, sent, got>>
        BY <2>7 DEF vars
      <3> QED BY <2>2, <3>1
    <2>8. CASE \/ ReadSize \/ HeaderUnwritten \/ ReadHead \/ ReadErrorCode \/ FieldFails
               \/ CreateTmp \/ CopyPiece \/ PieceFails \/ CloseTmp
      <3>1. UNCHANGED <<shown, sent, got>>
        BY <2>8 DEF ReadSize, HeaderUnwritten, ReadHead, ReadErrorCode, FieldFails,
                    CreateTmp, CopyPiece, PieceFails, CloseTmp, WritersUnchanged, DiskUnchanged
      <3> QED BY <2>2, <3>1
    <2>9. CASE ReadData
      <3>1. UNCHANGED <<shown, sent>>
        BY <2>9 DEF ReadData, WritersUnchanged, DiskUnchanged
      <3>3. \/ UNCHANGED got
            \/ \E x : x.kind # "file" /\ got' = Append(got, x)
        <4>1. CASE rd.as = "file"
          BY <2>9, <4>1 DEF ReadData
        <4>2. CASE rd.as # "file"
          <5> DEFINE x == [kind |-> rd.as, code |-> rd.code, cmd |-> rd.cmd,
                           name |-> <<>>, data |-> SubSeq(wire, 1, rd.size)]
          <5>1. Deliver(x) /\ x.kind # "file"
            BY <2>9, <4>2 DEF ReadData
          <5> HIDE DEF x
          <5> QED BY <5>1 DEF Deliver
        <4> QED BY <4>1, <4>2
      <3> QED BY <1>2, <2>1, <3>1, <3>3, ShownSame
    <2>10. CASE PiecesDone
      <3>1. UNCHANGED <<shown, sent>>
        BY <2>10 DEF PiecesDone, WritersUnchanged, DiskUnchanged
      <3>3. \/ UNCHANGED got
            \/ \E x : x.kind # "file" /\ got' = Append(got, x)
        <4>1. CASE rd.as = "copy"
          <5>1. got' = Append(got, Copied)
            BY <2>10, <4>1 DEF PiecesDone, Deliver
          <5>2. Copied.kind # "file"
            BY DEF Copied
          <5> QED BY <5>1, <5>2
        <4>2. CASE rd.as # "copy"
          BY <2>10, <4>2 DEF PiecesDone
        <4> QED BY <4>1, <4>2
      <3> QED BY <1>2, <2>1, <3>1, <3>3, ShownSame
    <2>11. CASE RenameTmp
      <3>1. CASE rd'.pc = "failed"
        <4>1. UNCHANGED <<shown, sent, got>>
          BY <2>11, <3>1 DEF RenameTmp, Deliver, IdleReader, WritersUnchanged
        <4> QED BY <2>2, <4>1
      <3>2. CASE rd'.pc # "failed"
        <4>1. Located
          <5>1. rd.pc # "failed"
            BY <2>11 DEF RenameTmp
          <5> QED BY <1>2, <2>1, <5>1 DEF Ordered
        <4> QED BY <1>2, <2>1, <2>11, <3>2, <4>1, ShownRenamed
      <3> QED BY <3>1, <3>2
    <2> QED BY <1>2, <2>3, <2>4, <2>5, <2>6, <2>7, <2>8, <2>9, <2>10, <2>11
         DEF Next, ReaderStep
  <1>3. Whole => ShownWhole
    BY DEF ShownWhole, AllShown, FromSent
  <1> HIDE DEF Whole
  <1> QED BY <1>1, <1>2, <1>3, OrderKept, PTL DEF Spec
=============================================================================
