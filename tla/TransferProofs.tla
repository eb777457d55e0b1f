--------------------------- MODULE TransferProofs ---------------------------
(* Proofs about Transfer for every chunk size, word size, file size and     *)
(* number of faults.                                                        *)
EXTENDS Transfer, TLAPS

-----------------------------------------------------------------------------
(* Arithmetic of chunk numbers.                                             *)

LEMMA Multiples ==
    ASSUME NEW a \in Nat, NEW b \in Nat, NEW c \in Nat, a >= b
    PROVE  a * c >= b * c
  OBVIOUS

LEMMA DivMod ==
    ASSUME NEW n \in Nat, NEW c \in Nat \ {0}
    PROVE  /\ n \div c \in Nat /\ n % c \in 0..c - 1
           /\ n = (n \div c) * c + (n % c)
  OBVIOUS

LEMMA ModUnique ==
    ASSUME NEW q \in Nat, NEW r \in Nat, NEW c \in Nat \ {0}, r < c
    PROVE  (q * c + r) % c = r
  OBVIOUS

LEMMA ModSmall ==
    ASSUME NEW n \in Nat, NEW c \in Nat \ {0}, n < c
    PROVE  n % c = n
  OBVIOUS

\* Adding one to a number kept modulo c keeps it right.
LEMMA ModSucc ==
    ASSUME NEW n \in Nat, NEW c \in Nat \ {0}
    PROVE  ((n % c) + 1) % c = (n + 1) % c
  <1> DEFINE q == n \div c
             r == n % c
  <1>1. q \in Nat /\ r \in 0..c - 1 /\ n = q * c + r
    BY DivMod
  <1> HIDE DEF q, r
  <1>2. CASE r + 1 < c
    <2>1. (r + 1) % c = r + 1
      BY <1>1, <1>2
    <2>2. (q * c + (r + 1)) % c = r + 1
      BY <1>1, <1>2, ModUnique
    <2>3. n + 1 = q * c + (r + 1)
      BY <1>1
    <2> QED BY <2>1, <2>2, <2>3 DEF r
  <1>3. CASE r + 1 = c
    <2>1. ((0 + 1) * c + 0) % c = 0
      BY ModUnique
    <2>2. ((q + 1) * c + 0) % c = 0
      BY <1>1, ModUnique
    <2>3. n + 1 = (q + 1) * c + 0
      BY <1>1, <1>3
    <2>4. r + 1 = (0 + 1) * c + 0
      BY <1>1, <1>3
    <2> QED BY <2>1, <2>2, <2>3, <2>4 DEF r
  <1> QED BY <1>1, <1>2, <1>3

\* The number of chunks is the least one whose chunks hold the file.
LEMMA ChunksCover ==
    ASSUME NEW s \in Nat
    PROVE  /\ Chunks(s) \in Nat
           /\ Chunks(s) * ChunkSize >= s
           /\ \A k \in Nat : k * ChunkSize < s => k < Chunks(s)
  <1>0. ChunkSize \in Nat \ {0}
    BY TransferAssumption
  <1> DEFINE n == s + ChunkSize - 1
             q == n \div ChunkSize
             r == n % ChunkSize
  <1>1. n \in Nat
    BY <1>0
  <1>2. q \in Nat /\ r \in 0..ChunkSize - 1 /\ n = q * ChunkSize + r
    BY <1>0, <1>1, DivMod
  <1>3. q = Chunks(s)
    BY DEF Chunks
  <1>4. q * ChunkSize \in Nat /\ s + ChunkSize - 1 = q * ChunkSize + r
    BY <1>0, <1>2
  <1> HIDE DEF n, q, r
  <1>5. q * ChunkSize >= s
    BY <1>0, <1>2, <1>4
  <1>6. ASSUME NEW k \in Nat, k * ChunkSize < s
        PROVE  k < q
    <2>1. k >= q => k * ChunkSize >= q * ChunkSize
      BY <1>0, <1>2, Multiples
    <2>2. k * ChunkSize \in Nat
      BY <1>0
    <2> QED BY <2>1, <2>2, <1>2, <1>4, <1>5, <1>6
  <1> QED BY <1>2, <1>3, <1>5, <1>6

-----------------------------------------------------------------------------
(* What a faulty stream does to a sequence.                                 *)

LEMMA RemoveSeq ==
    ASSUME NEW S, NEW s \in Seq(S), NEW i \in DOMAIN s
    PROVE  RemoveAt(s, i) \in Seq(S)
  BY DEF RemoveAt

LEMMA InsertSeq ==
    ASSUME NEW S, NEW s \in Seq(S), NEW i \in DOMAIN s, NEW e \in S
    PROVE  InsertAt(s, i, e) \in Seq(S)
  BY DEF InsertAt

LEMMA SwapSeq ==
    ASSUME NEW S, NEW s \in Seq(S), NEW i \in DOMAIN s, i < Len(s)
    PROVE  [s EXCEPT ![i] = s[i + 1], ![i + 1] = s[i]] \in Seq(S)
  OBVIOUS

-----------------------------------------------------------------------------
(* First invariant, with no bound on the file: types, where the sender is,  *)
(* and that every frame on the wire is one it made.                         *)

\* f is the k-th chunk of a file of the given size.
IsChunk(f, size, k) ==
    /\ f.off = k * ChunkSize /\ f.off < size
    /\ f.num = ToUint16(k)
    /\ f.len = IF f.off + ChunkSize >= size THEN size - f.off ELSE ChunkSize

Genuine(size) ==
    {f \in Frames : /\ f.kind = "chunk" => \E k \in Nat : IsChunk(f, size, k)
                    /\ f.kind = "key" => f.num = ToUint16(Chunks(size))}

SenderPos ==
    \E k \in Nat : /\ snd.num = ToUint16(k)
                   /\ snd.off < snd.size => snd.off = k * ChunkSize

SenderInv ==
    /\ snd.count = ToUint16(Chunks(snd.size))
    /\ SenderPos
    /\ snd.pc = "chunk" => snd.held \in Genuine(snd.size)
    /\ wire \in Seq(Genuine(snd.size))

LEMMA WordFacts ==
    /\ ChunkSize \in Nat \ {0} /\ Word \in Nat \ {0}
    /\ \A n \in Nat : ToUint16(n) \in 0..Word - 1
    /\ \A s \in Sizes : s \in Nat /\ Chunks(s) \in Nat
  BY TransferAssumption, ChunksCover, DivMod DEF ToUint16

LEMMA InitSender == Init => TypeOK /\ SenderInv
  <1> SUFFICES ASSUME Init PROVE TypeOK /\ SenderInv
    OBVIOUS
  <1> USE WordFacts
  <1>1. PICK s \in Sizes : snd = [pc |-> "key", size |-> s, count |-> ToUint16(Chunks(s)),
                                  off |-> 0, num |-> 0, held |-> NoFrame]
    BY DEF Init
  <1>2. NoFrame \in Frames
    BY DEF NoFrame, Frame, Frames
  <1>3. ToUint16(0) = 0 /\ 0 * ChunkSize = 0
    BY ModSmall DEF ToUint16
  <1>4. TypeOK
    BY <1>1, <1>2, TransferAssumption
       DEF Init, TypeOK, SndType, RcvType, TmpType, SndPCs, RcvPCs, HeaderPCs, Results
  <1>5. SenderPos
    BY <1>1, <1>3 DEF SenderPos
  <1> QED BY <1>1, <1>4, <1>5 DEF Init, SenderInv

LEMMA SendHeaderInv ==
    TypeOK /\ SenderInv /\ SendHeader => TypeOK' /\ SenderInv'
  <1> SUFFICES ASSUME TypeOK, SenderInv, SendHeader PROVE TypeOK' /\ SenderInv'
    OBVIOUS
  <1> USE WordFacts
  <1> DEFINE f == Frame(IF snd.pc = "nameiv" THEN "iv" ELSE snd.pc, -1,
                        IF snd.pc = "key" THEN snd.count ELSE 0, 0)
  <1>1. f \in Frames /\ f \in Genuine(snd.size)
    BY DEF TypeOK, SndType, SenderInv, SendHeader, HeaderPCs, Frame, Frames, Genuine
  <1>2. wire' = Append(wire, f)
    BY DEF SendHeader
  <1> HIDE DEF f
  <1>3. wire' \in Seq(Frames) /\ wire' \in Seq(Genuine(snd.size))
    BY <1>1, <1>2 DEF TypeOK, SndType, SenderInv
  <1>4. After(snd.pc) \in {"sig", "nameiv", "name", "loop"}
    BY DEF After, SendHeader, HeaderPCs
  <1>5. snd' = [snd EXCEPT !.pc = After(snd.pc)]
    BY DEF SendHeader
  <1>6. TypeOK'
    BY <1>3, <1>4, <1>5 DEF TypeOK, SndType, SendHeader, RcvUnchanged, SndPCs, HeaderPCs
  <1>7. SenderInv'
    BY <1>3, <1>4, <1>5 DEF TypeOK, SndType, SenderInv, SenderPos
  <1> QED BY <1>6, <1>7

LEMMA SendIvInv ==
    TypeOK /\ SenderInv /\ SendIv => TypeOK' /\ SenderInv'
  <1> SUFFICES ASSUME TypeOK, SenderInv, SendIv PROVE TypeOK' /\ SenderInv'
    OBVIOUS
  <1> USE WordFacts
  <1> DEFINE iv == Frame("iv", snd.off, 0, 0)
             ch == Frame("chunk", snd.off, snd.num, NextLen)
  <1>0. /\ snd.off \in Nat /\ snd.size \in Nat /\ snd.off < snd.size
        /\ snd.num \in 0..Word - 1
    BY DEF TypeOK, SndType, SendIv
  <1>1. NextLen \in Nat /\ snd.off + NextLen <= snd.size
    BY <1>0 DEF NextLen
  <1>2. iv \in Frames /\ iv \in Genuine(snd.size)
    BY <1>0 DEF Frame, Frames, Genuine
  <1>3. PICK k \in Nat : snd.num = ToUint16(k) /\ snd.off = k * ChunkSize
    BY <1>0 DEF SenderInv, SenderPos
  <1>4. ch \in Frames /\ ch \in Genuine(snd.size)
    <2>1. ch \in Frames
      BY <1>0, <1>1 DEF Frame, Frames
    <2>2. IsChunk(ch, snd.size, k)
      BY <1>0, <1>3 DEF IsChunk, Frame, NextLen
    <2> QED BY <2>1, <2>2 DEF Genuine, Frame
  <1>5. /\ wire' = Append(wire, iv)
        /\ snd' = [snd EXCEPT !.pc = "chunk", !.held = ch,
                              !.off = snd.off + NextLen,
                              !.num = ToUint16(snd.num + 1)]
    BY DEF SendIv
  <1> HIDE DEF iv, ch
  <1>6. wire' \in Seq(Frames) /\ wire' \in Seq(Genuine(snd.size))
    BY <1>2, <1>5 DEF TypeOK, SndType, SenderInv
  <1>7. TypeOK'
    <2>1. ToUint16(snd.num + 1) \in 0..Word - 1 /\ snd.off + NextLen \in Nat
      BY <1>0, <1>1
    <2>2. /\ snd' \in SndType
          /\ snd'.off <= snd'.size
      BY <1>1, <1>4, <1>5, <2>1 DEF TypeOK, SndType, SndPCs
    <2> QED BY <1>6, <2>2 DEF TypeOK, SndType, SendIv, RcvUnchanged
  <1>8. SenderPos'
    <2>1. ToUint16(snd.num + 1) = ToUint16(k + 1)
      BY <1>3, ModSucc DEF ToUint16
    <2>2. snd.off + NextLen < snd.size => snd.off + NextLen = (k + 1) * ChunkSize
      BY <1>0, <1>3 DEF NextLen
    <2>3. snd'.num = ToUint16(k + 1) /\ snd'.off = snd.off + NextLen /\ snd'.size = snd.size
      BY <1>5, <2>1 DEF TypeOK, SndType
    <2>4. k + 1 \in Nat
      OBVIOUS
    <2> QED BY <2>2, <2>3, <2>4 DEF SenderPos
  <1>9. SenderInv'
    BY <1>4, <1>5, <1>6, <1>8 DEF TypeOK, SndType, SenderInv
  <1> QED BY <1>7, <1>9

LEMMA SendRestInv ==
    TypeOK /\ SenderInv /\ (SendChunk \/ SendDone \/ SendFail) => TypeOK' /\ SenderInv'
  <1> SUFFICES ASSUME TypeOK, SenderInv, SendChunk \/ SendDone \/ SendFail
               PROVE  TypeOK' /\ SenderInv'
    OBVIOUS
  <1>1. CASE SendChunk
    <2>1. snd.held \in Frames /\ snd.held \in Genuine(snd.size)
      BY <1>1 DEF TypeOK, SndType, SenderInv, SendChunk
    <2>2. wire' \in Seq(Frames) /\ wire' \in Seq(Genuine(snd.size))
      BY <1>1, <2>1 DEF TypeOK, SndType, SenderInv, SendChunk
    <2>3. snd' = [snd EXCEPT !.pc = "loop"]
      BY <1>1 DEF SendChunk
    <2>4. TypeOK'
      BY <1>1, <2>2, <2>3 DEF TypeOK, SndType, SendChunk, RcvUnchanged, SndPCs
    <2> QED BY <2>2, <2>3, <2>4 DEF TypeOK, SndType, SenderInv, SenderPos
  <1>2. CASE SendDone
    BY <1>2 DEF TypeOK, SndType, SenderInv, SenderPos, SendDone, RcvUnchanged, SndPCs
  <1>3. CASE SendFail
    <2>1. snd' = [snd EXCEPT !.pc = "failed"] /\ UNCHANGED <<wire, rcv, tmp, dest>>
      BY <1>3 DEF SendFail
    <2>2. faults' \in 0..MaxFaults
      BY <1>3, TransferAssumption DEF TypeOK, SendFail
    <2>3. TypeOK'
      BY <2>1, <2>2 DEF TypeOK, SndType, SndPCs
    <2> QED BY <2>1, <2>3 DEF TypeOK, SndType, SenderInv, SenderPos
  <1> QED BY <1>1, <1>2, <1>3

LEMMA StreamFaultInv ==
    TypeOK /\ SenderInv /\ StreamFault => TypeOK' /\ SenderInv'
  <1> SUFFICES ASSUME TypeOK, SenderInv, StreamFault PROVE TypeOK' /\ SenderInv'
    OBVIOUS
  <1>1. ASSUME NEW S, wire \in Seq(S) PROVE wire' \in Seq(S)
    <2>1. PICK i \in DOMAIN wire :
            \/ wire' = RemoveAt(wire, i)
            \/ wire' = InsertAt(wire, i, wire[i])
            \/ i < Len(wire) /\ wire' = [wire EXCEPT ![i] = wire[i + 1],
                                                     ![i + 1] = wire[i]]
      BY DEF StreamFault
    <2>2. wire[i] \in S
      BY <1>1
    <2>3. RemoveAt(wire, i) \in Seq(S)
      BY <1>1, RemoveSeq
    <2>4. InsertAt(wire, i, wire[i]) \in Seq(S)
      BY <1>1, <2>2, InsertSeq
    <2>5. i < Len(wire) => [wire EXCEPT ![i] = wire[i + 1],
                                        ![i + 1] = wire[i]] \in Seq(S)
      BY <1>1, SwapSeq
    <2> QED BY <2>1, <2>3, <2>4, <2>5
  <1>2. wire' \in Seq(Frames) /\ wire' \in Seq(Genuine(snd.size))
    BY <1>1 DEF TypeOK, SndType, SenderInv
  <1>3. TypeOK'
    BY <1>2, TransferAssumption DEF TypeOK, SndType, StreamFault
  <1> QED BY <1>2, <1>3 DEF SenderInv, SenderPos, StreamFault

\* The receiver only shortens the wire: what it reads is genuine, and the
\* invariant of the sender is kept.
LEMMA TailInv ==
    ASSUME TypeOK, SenderInv, wire # <<>>, wire' = Tail(wire), snd' = snd
    PROVE  /\ Head(wire) \in Frames /\ Head(wire) \in Genuine(snd.size)
           /\ wire' \in Seq(Frames) /\ SenderInv'
  BY DEF TypeOK, SenderInv, SenderPos

LEMMA FailType ==
    ASSUME rcv \in RcvType, NEW r \in Results, Fail(r)
    PROVE  rcv' \in RcvType
  BY DEF RcvType, RcvPCs, Fail

LEMMA DecryptTypes ==
    TypeOK /\ SenderInv /\ Decrypt => TypeOK' /\ SenderInv'
  <1> SUFFICES ASSUME TypeOK, SenderInv, Decrypt PROVE TypeOK' /\ SenderInv'
    OBVIOUS
  <1>0. rcv \in RcvType /\ tmp \in TmpType /\ dest \in {"old", "whole", "broken"}
    BY DEF TypeOK
  <1>1. ASSUME UNCHANGED <<snd, faults>>,
               \/ UNCHANGED wire
               \/ wire # <<>> /\ wire' = Tail(wire),
               rcv' \in RcvType, tmp' \in TmpType,
               dest' \in {"old", "whole", "broken"}
        PROVE  TypeOK' /\ SenderInv'
    <2>1. CASE UNCHANGED wire
      BY <1>1, <2>1 DEF TypeOK, SenderInv, SenderPos
    <2>2. CASE wire # <<>> /\ wire' = Tail(wire)
      BY <1>1, <2>2, TailInv DEF TypeOK
    <2> QED BY <1>1, <2>1, <2>2
  <1>2. "error" \in Results /\ "died" \in Results /\ "ok" \in Results
    BY DEF Results
  <1> DEFINE f == Head(wire)
  <1>3. wire # <<>> => f \in Frames
    BY DEF TypeOK
  <1> HIDE DEF f
  <1>4. CASE ReadEof
    BY <1>0, <1>1, <1>2, <1>4, FailType DEF ReadEof, SndUnchanged
  <1>5. CASE ReadKey
    <2>1. rcv' = [rcv EXCEPT !.pc = "sig", !.keyed = (f.kind = "key"), !.count = f.num]
      BY <1>5 DEF ReadKey, f
    <2>2. (f.kind = "key") \in BOOLEAN /\ f.num \in 0..Word - 1
      BY <1>3, <1>5 DEF Frames, ReadKey
    <2>3. rcv' \in RcvType
      BY <1>0, <2>1, <2>2 DEF RcvType, RcvPCs, HeaderPCs
    <2> QED BY <1>0, <1>1, <1>5, <2>3 DEF ReadKey, SndUnchanged
  <1>6. CASE ReadSig
    <2>1. rcv' = [rcv EXCEPT !.pc = "nameiv"] \/ Fail("error")
      BY <1>6 DEF ReadSig
    <2>2. rcv' \in RcvType
      BY <1>0, <1>2, <2>1, FailType DEF RcvType, RcvPCs, HeaderPCs
    <2> QED BY <1>0, <1>1, <1>6, <2>2 DEF ReadSig, SndUnchanged
  <1>7. CASE ReadIv
    <2>1. (IF f.kind = "iv" THEN f.off ELSE -2) \in Nat \cup {-1, -2}
      BY <1>3, <1>7 DEF Frames, ReadIv
    <2>2. PICK pc \in RcvPCs : rcv' =
              [rcv EXCEPT !.pc = pc, !.iv = IF f.kind = "iv" THEN f.off ELSE -2]
      BY <1>7 DEF ReadIv, RcvPCs, HeaderPCs, f
    <2>3. rcv' \in RcvType
      BY <1>0, <2>1, <2>2 DEF RcvType
    <2> QED BY <1>0, <1>1, <1>7, <2>3 DEF ReadIv, SndUnchanged
  <1>8. CASE ReadName
    <2>1. \/ rcv' = [rcv EXCEPT !.pc = Loop(rcv.num, rcv.count)]
          \/ Fail("error") \/ Fail("died")
      BY <1>8 DEF ReadName
    <2>2. Loop(rcv.num, rcv.count) \in RcvPCs
      BY DEF Loop, RcvPCs
    <2>3. rcv' \in RcvType
      <3>1. CASE rcv' = [rcv EXCEPT !.pc = Loop(rcv.num, rcv.count)]
        BY <1>0, <2>2, <3>1 DEF RcvType
      <3> QED BY <1>0, <1>2, <2>1, <3>1, FailType
    <2> QED BY <1>0, <1>1, <1>8, <2>3 DEF ReadName, SndUnchanged
  <1>9. CASE ReadChunk
    <2>1. wire # <<>> /\ wire' = Tail(wire) /\ UNCHANGED <<snd, faults, dest>>
      BY <1>9 DEF ReadChunk, SndUnchanged
    <2>2. CASE Opens(f) /\ InOrder(f)
      <3>1. ToUint16(rcv.num + 1) \in 0..Word - 1
        BY <1>0, WordFacts DEF RcvType
      <3>2. rcv' = [rcv EXCEPT !.num = ToUint16(rcv.num + 1),
                               !.pc = Loop(ToUint16(rcv.num + 1), rcv.count)]
        BY <1>9, <2>2 DEF ReadChunk, f
      <3>3. Loop(ToUint16(rcv.num + 1), rcv.count) \in RcvPCs
        BY DEF Loop, RcvPCs
      <3>4. rcv' \in RcvType
        BY <1>0, <3>1, <3>2, <3>3 DEF RcvType
      <3> DEFINE g == tmp.good /\ f.off = tmp.len
      <3>5. tmp' = [tmp EXCEPT !.len = tmp.len + f.len, !.good = g]
        BY <1>9, <2>2 DEF ReadChunk, Written, f
      <3>6. g \in BOOLEAN
        OBVIOUS
      <3> HIDE DEF g
      <3>7. tmp' \in TmpType
        <4>1. f.len \in Nat
          BY <1>3, <2>1 DEF Frames
        <4>2. tmp.len + f.len \in Nat
          BY <1>0, <4>1 DEF TmpType
        <4>3. PICK n \in Nat : tmp' = [tmp EXCEPT !.len = n, !.good = g]
          BY <3>5, <4>2
        <4> QED BY <1>0, <3>6, <4>3 DEF TmpType
      <3> QED BY <1>0, <1>1, <2>1, <3>4, <3>7
    <2>3. CASE ~(Opens(f) /\ InOrder(f))
      <3>1. (Fail("error") \/ Fail("died")) /\ UNCHANGED tmp
        BY <1>9, <2>3 DEF ReadChunk, f
      <3> QED BY <1>0, <1>1, <1>2, <2>1, <3>1, FailType
    <2> QED BY <2>2, <2>3
  <1>10. CASE CloseTmp
    <2>1. rcv' = [rcv EXCEPT !.pc = "rename"] \/ Fail("error")
      BY <1>10 DEF CloseTmp
    <2>2. rcv' \in RcvType
      BY <1>0, <1>2, <2>1, FailType DEF RcvType, RcvPCs
    <2>3. tmp' \in TmpType
      BY <1>0, <1>10 DEF CloseTmp, TmpType
    <2> QED BY <1>0, <1>1, <1>10, <2>2, <2>3 DEF CloseTmp, SndUnchanged
  <1>11. CASE Rename
    <2>1. tmp' \in TmpType /\ dest' \in {"old", "whole", "broken"}
      BY <1>0, <1>11 DEF Rename, TmpType
    <2> QED BY <1>0, <1>1, <1>2, <1>11, <2>1, FailType DEF Rename, SndUnchanged
  <1> QED BY <1>4, <1>5, <1>6, <1>7, <1>8, <1>9, <1>10, <1>11 DEF Decrypt

LEMMA LocalFaultTypes ==
    TypeOK /\ SenderInv /\ (WriteFail \/ FinishFail \/ Die) => TypeOK' /\ SenderInv'
  <1> SUFFICES ASSUME TypeOK, SenderInv, WriteFail \/ FinishFail \/ Die
               PROVE  TypeOK' /\ SenderInv'
    OBVIOUS
  <1>1. faults' \in 0..MaxFaults
    BY TransferAssumption DEF TypeOK, WriteFail, FinishFail, Die
  <1>2. Fail("error") \/ Fail("died")
    BY DEF WriteFail, FinishFail, Die
  <1>3. rcv' \in RcvType
    BY <1>2, FailType DEF TypeOK, Results
  <1>4. tmp' \in TmpType
    BY DEF TypeOK, TmpType, WriteFail, FinishFail, Die
  <1>5. UNCHANGED <<snd, dest>>
    BY DEF WriteFail, FinishFail, Die
  <1>6. wire' \in Seq(Frames) /\ SenderInv'
    <2>1. CASE UNCHANGED wire
      BY <1>5, <2>1 DEF TypeOK, SenderInv, SenderPos
    <2>2. CASE wire # <<>> /\ wire' = Tail(wire)
      BY <1>5, <2>2, TailInv
    <2> QED BY <2>1, <2>2 DEF WriteFail, FinishFail, Die
  <1> QED BY <1>1, <1>3, <1>4, <1>5, <1>6 DEF TypeOK

LEMMA TypeStep == TypeOK /\ SenderInv /\ [Next]_vars => (TypeOK /\ SenderInv)'
  <1> SUFFICES ASSUME TypeOK, SenderInv, [Next]_vars PROVE (TypeOK /\ SenderInv)'
    OBVIOUS
  <1>1. CASE Encrypt
    BY <1>1, SendHeaderInv, SendIvInv, SendRestInv DEF Encrypt
  <1>2. CASE Decrypt
    BY <1>2, DecryptTypes
  <1>3. CASE Fault
    BY <1>3, SendRestInv, StreamFaultInv, LocalFaultTypes DEF Fault
  <1>4. CASE UNCHANGED vars
    BY <1>4 DEF vars, TypeOK, SenderInv, SenderPos
  <1> QED BY <1>1, <1>2, <1>3, <1>4 DEF Next

\* The variables of Transfer keep their types, whatever the sizes, the word
\* and the number of faults; every frame on the wire is one Encrypt made.
THEOREM TypeCorrect == Spec => [](TypeOK /\ SenderInv)
  <1>1. Init => TypeOK /\ SenderInv
    BY InitSender
  <1>2. TypeOK /\ SenderInv /\ [Next]_vars => (TypeOK /\ SenderInv)'
    BY TypeStep
  <1> QED BY <1>1, <1>2, PTL DEF Spec

-----------------------------------------------------------------------------
(* Second invariant, for files whose number of chunks fits a chunk number:  *)
(* the temporary file holds exactly the chunks counted by writeChunkNum.    *)

ChunksFit == \A s \in Sizes : Chunks(s) < Word

ReceiverInv ==
    /\ rcv.keyed => rcv.count = ToUint16(Chunks(snd.size))
    /\ rcv.pc \notin {"key", "sig", "done"} => rcv.keyed
    /\ rcv.pc \in {"key", "sig", "nameiv", "name"} => rcv.num = 0
    /\ rcv.pc \in {"iv", "chunk"} => rcv.num < rcv.count
    /\ rcv.pc = "rename" => rcv.num = rcv.count

FileInv ==
    /\ tmp.good
    /\ tmp.len = IF rcv.num * ChunkSize < snd.size THEN rcv.num * ChunkSize
                                                   ELSE snd.size

ResultInv ==
    /\ rcv.pc = "done" <=> rcv.result # "none"
    /\ dest = IF rcv.result = "ok" THEN "whole" ELSE "old"

IInv == TypeOK /\ SenderInv /\ ReceiverInv /\ FileInv /\ ResultInv

LEMMA CountFits ==
    ASSUME ChunksFit, NEW s \in Sizes
    PROVE  ToUint16(Chunks(s)) = Chunks(s)
  BY WordFacts, ModSmall DEF ChunksFit, ToUint16

\* The chunk that is accepted is the one whose place is the end of the
\* temporary file, and it leaves the number of chunks right.
LEMMA NextChunk ==
    ASSUME ChunksFit, NEW size \in Sizes, NEW num \in Nat, num < Chunks(size),
           NEW f \in Genuine(size), f.kind = "chunk", f.num = num
    PROVE  /\ f.off = num * ChunkSize /\ f.off < size
           /\ f.off + f.len = IF (num + 1) * ChunkSize < size
                              THEN (num + 1) * ChunkSize ELSE size
           /\ ToUint16(num + 1) = num + 1
  <1>0. /\ ChunkSize \in Nat \ {0} /\ Word \in Nat \ {0} /\ size \in Nat
        /\ Chunks(size) \in Nat /\ Chunks(size) < Word
    BY WordFacts DEF ChunksFit
  <1>1. PICK k \in Nat : IsChunk(f, size, k)
    BY DEF Genuine
  <1>2. k < Word
    BY <1>0, <1>1, ChunksCover DEF IsChunk
  <1>3. k = num
    BY <1>0, <1>1, <1>2, ModSmall DEF IsChunk, ToUint16
  <1>4. num + 1 < Word
    BY <1>0
  <1>5. ToUint16(num + 1) = num + 1
    BY <1>0, <1>4, ModSmall DEF ToUint16
  <1>6. (num + 1) * ChunkSize = num * ChunkSize + ChunkSize /\ num * ChunkSize \in Nat
    BY <1>0
  <1>7. f.off = num * ChunkSize /\ f.off < size
    BY <1>1, <1>3 DEF IsChunk
  <1>8. f.len = IF f.off + ChunkSize >= size THEN size - f.off ELSE ChunkSize
    BY <1>1 DEF IsChunk
  <1> QED BY <1>0, <1>5, <1>6, <1>7, <1>8

LEMMA InitReceiver == Init => ReceiverInv /\ FileInv /\ ResultInv
  <1> SUFFICES ASSUME Init PROVE ReceiverInv /\ FileInv /\ ResultInv
    OBVIOUS
  <1>1. snd.size \in Nat /\ 0 * ChunkSize = 0
    BY WordFacts DEF Init
  <1> QED BY <1>1 DEF Init, ReceiverInv, FileInv, ResultInv

\* Encrypt and the stream do not touch what the invariant speaks of.
LEMMA SenderKeeps ==
    ASSUME IInv, Encrypt \/ SendFail \/ StreamFault
    PROVE  ReceiverInv' /\ FileInv' /\ ResultInv'
  <1>1. UNCHANGED <<rcv, tmp, dest>>
    BY DEF Encrypt, SendHeader, SendIv, SendChunk, SendDone, SendFail,
           StreamFault, RcvUnchanged
  <1>2. snd'.size = snd.size
    BY DEF Encrypt, SendHeader, SendIv, SendChunk, SendDone, SendFail,
           StreamFault, IInv, TypeOK, SndType
  <1> QED BY <1>1, <1>2 DEF IInv, ReceiverInv, FileInv, ResultInv

\* A call that fails leaves the files as they are, or deletes the temporary
\* one.
LEMMA FailKeeps ==
    ASSUME IInv, rcv.pc # "done", UNCHANGED <<snd, dest>>,
           tmp' = tmp \/ tmp' = [tmp EXCEPT !.exists = FALSE],
           Fail("error") \/ Fail("died")
    PROVE  ReceiverInv' /\ FileInv' /\ ResultInv'
  <1>1. /\ rcv'.num = rcv.num /\ rcv'.count = rcv.count /\ rcv'.keyed = rcv.keyed
        /\ rcv'.pc = "done" /\ rcv'.result \in {"error", "died"}
    BY DEF Fail, IInv, TypeOK, RcvType
  <1>2. tmp'.good = tmp.good /\ tmp'.len = tmp.len
    BY DEF IInv, TypeOK, TmpType
  <1>3. dest = "old"
    BY DEF IInv, ResultInv
  <1> QED BY <1>1, <1>2, <1>3 DEF IInv, ReceiverInv, FileInv, ResultInv

\* The steps that read the header and the IVs.
LEMMA HeaderKeeps ==
    ASSUME ChunksFit, IInv, ReadKey \/ ReadSig \/ ReadIv \/ ReadName
    PROVE  ReceiverInv' /\ FileInv' /\ ResultInv'
  <1>0. /\ rcv \in RcvType /\ snd.size \in Sizes
        /\ UNCHANGED <<snd, tmp, dest>> /\ rcv.pc # "done"
    BY DEF IInv, TypeOK, SndType, ReadKey, ReadSig, ReadIv, ReadName, SndUnchanged
  <1> DEFINE f == Head(wire)
  <1>1. wire # <<>> /\ f \in Frames /\ f \in Genuine(snd.size)
    BY DEF IInv, TypeOK, SenderInv, ReadKey, ReadSig, ReadIv, ReadName
  <1>2. ASSUME Fail("error") \/ Fail("died")
        PROVE  ReceiverInv' /\ FileInv' /\ ResultInv'
    BY <1>0, <1>2, FailKeeps
  <1>3. CASE ReadKey
    <2>1. /\ rcv'.pc = "sig" /\ rcv'.keyed = (f.kind = "key") /\ rcv'.count = f.num
          /\ rcv'.num = rcv.num /\ rcv'.result = rcv.result
      BY <1>0, <1>3 DEF ReadKey, RcvType
    <2>2. f.kind = "key" => f.num = ToUint16(Chunks(snd.size))
      BY <1>1 DEF Genuine
    <2>3. rcv.pc = "key"
      BY <1>3 DEF ReadKey
    <2> QED BY <1>0, <2>1, <2>2, <2>3 DEF IInv, ReceiverInv, FileInv, ResultInv
  <1>4. CASE ReadSig
    <2>1. CASE rcv.keyed /\ f.kind = "sig"
      <3>1. rcv' = [rcv EXCEPT !.pc = "nameiv"] /\ rcv.pc = "sig"
        BY <1>4, <2>1 DEF ReadSig
      <3> QED BY <1>0, <2>1, <3>1
              DEF IInv, ReceiverInv, FileInv, ResultInv, RcvType
    <2>2. CASE ~(rcv.keyed /\ f.kind = "sig")
      BY <1>2, <1>4, <2>2 DEF ReadSig
    <2> QED BY <2>1, <2>2
  <1>5. CASE ReadIv
    <2>1. PICK pc, iv :
              /\ rcv' = [rcv EXCEPT !.pc = pc, !.iv = iv]
              /\ \/ rcv.pc = "nameiv" /\ pc = "name"
                 \/ rcv.pc = "iv" /\ pc = "chunk"
      BY <1>5 DEF ReadIv
    <2>2. /\ rcv'.pc = pc /\ rcv'.keyed = rcv.keyed /\ rcv'.count = rcv.count
          /\ rcv'.num = rcv.num /\ rcv'.result = rcv.result
      BY <1>0, <2>1 DEF RcvType
    <2>3. ReceiverInv'
      BY <1>0, <2>1, <2>2 DEF IInv, ReceiverInv
    <2>4. FileInv' /\ ResultInv'
      BY <1>0, <2>1, <2>2 DEF IInv, FileInv, ResultInv
    <2> QED BY <2>3, <2>4
  <1>6. CASE ReadName
    <2>1. CASE Opens(f)
      <3>1. rcv' = [rcv EXCEPT !.pc = Loop(rcv.num, rcv.count)] /\ rcv.pc = "name"
        BY <1>6, <2>1 DEF ReadName
      <3>2. /\ rcv'.pc = (IF rcv.num < rcv.count THEN "iv" ELSE "close")
            /\ rcv'.keyed = rcv.keyed /\ rcv'.count = rcv.count
            /\ rcv'.num = rcv.num /\ rcv'.result = rcv.result
        BY <1>0, <3>1 DEF Loop, RcvType
      <3> QED BY <1>0, <3>1, <3>2 DEF IInv, ReceiverInv, FileInv, ResultInv
    <2>2. CASE ~Opens(f)
      BY <1>2, <1>6, <2>2 DEF ReadName
    <2> QED BY <2>1, <2>2
  <1> QED BY <1>3, <1>4, <1>5, <1>6

LEMMA ReadChunkKeeps ==
    ASSUME ChunksFit, IInv, ReadChunk
    PROVE  ReceiverInv' /\ FileInv' /\ ResultInv'
  <1>0. /\ rcv \in RcvType /\ tmp \in TmpType /\ snd.size \in Sizes
        /\ UNCHANGED <<snd, dest>> /\ rcv.pc = "chunk"
    BY DEF IInv, TypeOK, SndType, ReadChunk, SndUnchanged
  <1> DEFINE f == Head(wire)
  <1>1. f \in Frames /\ f \in Genuine(snd.size)
    BY DEF IInv, TypeOK, SenderInv, ReadChunk
  <1>2. CASE Opens(f) /\ InOrder(f)
    <2>1. f.kind = "chunk" /\ f.num = rcv.num
      BY <1>2 DEF InOrder
    <2>2. /\ rcv.num \in Nat /\ rcv.keyed
          /\ rcv.count = Chunks(snd.size) /\ rcv.num < rcv.count
      BY <1>0, CountFits DEF IInv, ReceiverInv, RcvType
    <2>3. /\ f.off = rcv.num * ChunkSize /\ f.off < snd.size
          /\ f.off + f.len = IF (rcv.num + 1) * ChunkSize < snd.size
                             THEN (rcv.num + 1) * ChunkSize ELSE snd.size
          /\ ToUint16(rcv.num + 1) = rcv.num + 1
      BY <1>0, <1>1, <2>1, <2>2, NextChunk
    <2>4. /\ rcv' = [rcv EXCEPT !.num = ToUint16(rcv.num + 1),
                               !.pc = Loop(ToUint16(rcv.num + 1), rcv.count)]
          /\ tmp' = [tmp EXCEPT !.len = tmp.len + f.len,
                                !.good = tmp.good /\ f.off = tmp.len]
      BY <1>2 DEF ReadChunk, Written
    <2> HIDE DEF f
    <2>5. /\ rcv'.num = rcv.num + 1
          /\ rcv'.pc = IF rcv.num + 1 < rcv.count THEN "iv" ELSE "close"
          /\ rcv'.keyed = rcv.keyed /\ rcv'.count = rcv.count
          /\ rcv'.result = rcv.result
      BY <1>0, <2>3, <2>4 DEF Loop, RcvType
    <2>6. tmp.good /\ tmp.len = f.off
      BY <2>3 DEF IInv, FileInv
    <2>7. tmp'.good /\ tmp'.len = f.off + f.len
      BY <1>0, <2>4, <2>6 DEF TmpType
    <2>8. FileInv'
      BY <1>0, <2>3, <2>5, <2>7 DEF FileInv
    <2>9. ReceiverInv' /\ ResultInv'
      BY <1>0, <2>2, <2>5 DEF IInv, ReceiverInv, ResultInv
    <2> QED BY <2>8, <2>9
  <1>3. CASE ~(Opens(f) /\ InOrder(f))
    <2>1. (Fail("error") \/ Fail("died")) /\ UNCHANGED tmp
      BY <1>3 DEF ReadChunk
    <2> QED BY <1>0, <2>1, FailKeeps
  <1> QED BY <1>2, <1>3

LEMMA FinishKeeps ==
    ASSUME ChunksFit, IInv, CloseTmp \/ Rename
    PROVE  ReceiverInv' /\ FileInv' /\ ResultInv'
  <1>0. /\ rcv \in RcvType /\ tmp \in TmpType /\ snd.size \in Sizes /\ UNCHANGED snd
    BY DEF IInv, TypeOK, SndType, CloseTmp, Rename, SndUnchanged
  <1>1. CASE CloseTmp
    <2>1. CASE rcv.num = rcv.count
      <3>1. rcv' = [rcv EXCEPT !.pc = "rename"] /\ UNCHANGED <<tmp, dest>>
        BY <1>1, <2>1 DEF CloseTmp
      <3> QED BY <1>0, <1>1, <2>1, <3>1
              DEF CloseTmp, IInv, ReceiverInv, FileInv, ResultInv, RcvType
    <2>2. CASE rcv.num # rcv.count
      BY <1>0, <1>1, <2>2, FailKeeps DEF CloseTmp
    <2> QED BY <2>1, <2>2
  <1>2. CASE Rename
    <2>1. rcv.pc = "rename" /\ rcv.num = Chunks(snd.size)
      BY <1>0, <1>2, CountFits DEF Rename, IInv, ReceiverInv
    <2>2. tmp.good /\ tmp.len = snd.size
      <3>1. snd.size \in Nat /\ Chunks(snd.size) * ChunkSize >= snd.size
        BY <1>0, WordFacts, ChunksCover
      <3>2. ~(rcv.num * ChunkSize < snd.size)
        <4>1. Chunks(snd.size) * ChunkSize \in Nat
          BY <1>0, WordFacts
        <4> QED BY <2>1, <3>1, <4>1
      <3> QED BY <3>2 DEF IInv, FileInv
    <2>3. /\ rcv'.pc = "done" /\ rcv'.result = "ok" /\ dest' = "whole"
          /\ rcv'.keyed = rcv.keyed /\ rcv'.count = rcv.count /\ rcv'.num = rcv.num
          /\ tmp'.good = tmp.good /\ tmp'.len = tmp.len
      BY <1>0, <1>2, <2>2 DEF Rename, Fail, RcvType, TmpType
    <2> QED BY <1>0, <2>3 DEF IInv, ReceiverInv, FileInv, ResultInv
  <1> QED BY <1>1, <1>2

LEMMA StepKeeps == ChunksFit /\ IInv /\ [Next]_vars => IInv'
  <1> SUFFICES ASSUME ChunksFit, IInv, [Next]_vars PROVE IInv'
    OBVIOUS
  <1>0. (TypeOK /\ SenderInv)'
    BY TypeStep DEF IInv
  <1> DEFINE Rest == ReceiverInv' /\ FileInv' /\ ResultInv'
  <1>1. ASSUME Encrypt \/ SendFail \/ StreamFault PROVE Rest
    BY <1>1, SenderKeeps
  <1>2. ASSUME WriteFail \/ FinishFail \/ Die \/ ReadEof PROVE Rest
    <2>1. rcv.pc # "done" /\ UNCHANGED <<snd, dest>>
      BY <1>2 DEF WriteFail, FinishFail, Die, ReadEof, SndUnchanged
    <2>2. tmp' = tmp \/ tmp' = [tmp EXCEPT !.exists = FALSE]
      BY <1>2 DEF WriteFail, FinishFail, Die, ReadEof
    <2>3. Fail("error") \/ Fail("died")
      BY <1>2 DEF WriteFail, FinishFail, Die, ReadEof
    <2> QED BY <2>1, <2>2, <2>3, FailKeeps
  <1>3. ASSUME ReadKey \/ ReadSig \/ ReadIv \/ ReadName PROVE Rest
    BY <1>3, HeaderKeeps
  <1>4. ASSUME ReadChunk PROVE Rest
    BY <1>4, ReadChunkKeeps
  <1>5. ASSUME CloseTmp \/ Rename PROVE Rest
    BY <1>5, FinishKeeps
  <1>6. ASSUME UNCHANGED vars PROVE Rest
    BY <1>6 DEF vars, IInv, ReceiverInv, FileInv, ResultInv
  <1>7. Rest
    BY <1>1, <1>2, <1>3, <1>4, <1>5, <1>6 DEF Next, Decrypt, Fault
  <1> QED BY <1>0, <1>7 DEF IInv

LEMMA IInvAlways == ChunksFit => (Spec => []IInv)
  <1> SUFFICES ASSUME ChunksFit PROVE Spec => []IInv
    OBVIOUS
  <1>1. Init => IInv
    BY InitSender, InitReceiver DEF IInv
  <1>2. IInv /\ [Next]_vars => IInv'
    BY StepKeeps
  <1> QED BY <1>1, <1>2, PTL DEF Spec

\* What is in the temporary file is always the beginning of the file sent
\* (decryptChunk's check of the chunk number), for every file that fits.
THEOREM PrefixAlways == ChunksFit => (Spec => []PrefixWritten)
  <1>1. IInv => PrefixWritten
    BY DEF IInv, FileInv, PrefixWritten
  <1> QED BY <1>1, IInvAlways, PTL

\* Decrypt returns nil only with the whole file in place (the doc comment of
\* Decrypt), for every file that fits.
THEOREM OkAlwaysWhole == ChunksFit => (Spec => []OkMeansWhole)
  <1>1. IInv => OkMeansWhole
    BY DEF IInv, ResultInv, OkMeansWhole
  <1> QED BY <1>1, IInvAlways, PTL

-----------------------------------------------------------------------------
(* The refinement: Rename is Deliver, a returned error is Refuse.           *)

LEMMA DeliveryInit == Init => Delivery!DInit
  BY DEF Init, Delivery!DInit

LEMMA DeliveryStep ==
    ChunksFit /\ IInv /\ IInv' /\ [Next]_vars
    => [Delivery!Deliver \/ Delivery!Refuse]_(Delivery!dVars)
  <1> SUFFICES ASSUME ChunksFit, IInv, IInv', [Next]_vars
               PROVE  [Delivery!Deliver \/ Delivery!Refuse]_(Delivery!dVars)
    OBVIOUS
  <1>0. rcv \in RcvType /\ rcv' \in RcvType
    BY DEF IInv, TypeOK
  <1>1. ASSUME rcv'.result = rcv.result, UNCHANGED dest
        PROVE  UNCHANGED Delivery!dVars
    BY <1>1 DEF Delivery!dVars
  <1>2. ASSUME Fail("error") \/ Fail("died"), UNCHANGED dest, rcv.pc # "done"
        PROVE  Delivery!Refuse \/ UNCHANGED Delivery!dVars
    <2>1. rcv.result = "none"
      BY <1>0, <1>2 DEF IInv, ResultInv
    <2>2. rcv'.result \in {"error", "died"}
      BY <1>0, <1>2 DEF Fail, RcvType
    <2> QED BY <1>2, <2>1, <2>2 DEF Delivery!Refuse, Delivery!dVars
  <1>3. CASE Rename
    <2>1. rcv.result = "none" /\ rcv'.result = "ok"
      BY <1>0, <1>3 DEF IInv, ResultInv, Rename, Fail, RcvType
    <2>2. dest' = "whole"
      BY <2>1 DEF IInv, ResultInv
    <2> QED BY <2>1, <2>2 DEF Delivery!Deliver
  <1>4. CASE Next /\ ~Rename
    <2>1. UNCHANGED dest
      BY <1>4 DEF Next, Encrypt, Decrypt, Fault, SendHeader, SendIv, SendChunk,
                  SendDone, SendFail, StreamFault, RcvUnchanged, ReadEof, ReadKey,
                  ReadSig, ReadIv, ReadName, ReadChunk, CloseTmp, WriteFail,
                  FinishFail, Die
    <2>2. \/ rcv'.result = rcv.result
          \/ (Fail("error") \/ Fail("died")) /\ rcv.pc # "done"
      <3>1. CASE Encrypt \/ SendFail \/ StreamFault
        BY <3>1 DEF Encrypt, SendHeader, SendIv, SendChunk, SendDone, SendFail,
                    StreamFault, RcvUnchanged
      <3>2. CASE ReadEof \/ WriteFail \/ FinishFail \/ Die
        BY <3>2 DEF ReadEof, WriteFail, FinishFail, Die
      <3>3. CASE ReadKey \/ ReadSig \/ ReadIv
        BY <1>0, <3>3 DEF ReadKey, ReadSig, ReadIv, RcvType
      <3>4. CASE ReadName \/ ReadChunk \/ CloseTmp
        BY <1>0, <3>4 DEF ReadName, ReadChunk, CloseTmp, RcvType
      <3> QED BY <1>4, <3>1, <3>2, <3>3, <3>4 DEF Next, Decrypt, Fault
    <2> QED BY <1>1, <1>2, <2>1, <2>2
  <1>5. CASE UNCHANGED vars
    BY <1>1, <1>5 DEF vars
  <1> QED BY <1>3, <1>4, <1>5

\* A transfer, with whatever faults of the stream, of the disk and of either
\* process, keeps the promise of FileDelivery for every file that fits.
THEOREM TransferDelivers == ChunksFit => (Spec => Implements)
  <1> SUFFICES ASSUME ChunksFit PROVE Spec => Implements
    OBVIOUS
  <1>1. IInv /\ IInv' /\ [Next]_vars
        => [Delivery!Deliver \/ Delivery!Refuse]_(Delivery!dVars)
    BY DeliveryStep
  <1> QED BY <1>1, DeliveryInit, IInvAlways, PTL DEF Spec, Implements, Delivery!DSpec
=============================================================================
