------------------------------ MODULE Transfer ------------------------------
(* Sending a file in encrypted chunks                                       *)
(* (src/pkg/cryptography/aes_gcm_chunks.go): EncryptSetup and Encrypt at    *)
(* the sender, DecryptSetup and Decrypt at the receiver, and the stream of  *)
(* length-prefixed frames (util.WriteBytes, util.ReadBytes) between them.   *)
(* A frame that decrypts is one the sender made with the same IV; file      *)
(* contents are abstracted to byte offsets.                                 *)
(* A ...Bug definition is a wrong version of the one below it.              *)
EXTENDS Integers, Sequences, SequencesExt

CONSTANTS
    Sizes,          \* the file sizes considered, in bytes
    ChunkSize,      \* bytes of the file in a chunk
    Word,           \* 2^16: a chunk number is a uint16
    MaxFaults       \* how often the stream may misbehave

ASSUME TransferAssumption ==
    /\ Sizes \subseteq Nat
    /\ ChunkSize \in Nat \ {0}
    /\ Word \in Nat \ {0}
    /\ MaxFaults \in Nat

VARIABLES
    snd,        \* the sender's AesGcmChunk and program counter
    wire,       \* frames written and not read yet
    rcv,        \* the receiver's AesGcmChunk, program counter and result
    tmp,        \* its temporary file
    dest,       \* the file under its final name
    faults      \* faults of the stream so far

vars == <<snd, wire, rcv, tmp, dest, faults>>

\* ceil(size / ChunkSize), before its conversion to uint16.
ChunksBug(size) == size \div ChunkSize
Chunks(size)    == (size + ChunkSize - 1) \div ChunkSize

\* uint16(...): the high bits are lost.
ToUint16(n) == n % Word

\* A frame: which write of Encrypt made it, and for "iv" and "chunk" the
\* offset of the chunk (-1: the file name), its number and its length.
Frame(kind, off, num, len) == [kind |-> kind, off |-> off, num |-> num, len |-> len]

HeaderPCs == {"key", "sig", "nameiv", "name"}
SndPCs == HeaderPCs \cup {"loop", "chunk", "done", "failed"}
RcvPCs == HeaderPCs \cup {"iv", "chunk", "close", "rename", "done"}
Results == {"none", "ok", "error", "died"}
Frames == [kind : {"key", "sig", "iv", "name", "chunk"}, off : Nat \cup {-1},
           num : 0..Word - 1, len : Nat]

SndType == [pc : SndPCs, size : Sizes, count : 0..Word - 1, off : Nat,
            num : 0..Word - 1, held : Frames]
RcvType == [pc : RcvPCs, keyed : BOOLEAN, count : 0..Word - 1,
            num : 0..Word - 1, iv : Nat \cup {-1, -2}, result : Results]
TmpType == [exists : BOOLEAN, len : Nat, good : BOOLEAN]

TypeOK ==
    /\ snd \in SndType /\ snd.off <= snd.size
    /\ wire \in Seq(Frames)
    /\ rcv \in RcvType
    /\ tmp \in TmpType
    /\ dest \in {"old", "whole", "broken"}
    /\ faults \in 0..MaxFaults

-----------------------------------------------------------------------------
NoFrame == Frame("key", -1, 0, 0)

\* EncryptSetup takes the size and the number of chunks; DecryptSetup creates
\* the temporary file.
Init ==
    /\ \E s \in Sizes :
          snd = [pc |-> "key", size |-> s, count |-> ToUint16(Chunks(s)),
                 off |-> 0, num |-> 0, held |-> NoFrame]
    /\ wire = <<>>
    /\ rcv = [pc |-> "key", keyed |-> FALSE, count |-> 0, num |-> 0, iv |-> -2,
              result |-> "none"]
    /\ tmp = [exists |-> TRUE, len |-> 0, good |-> TRUE]
    /\ dest = "old"
    /\ faults = 0

\* --- Encrypt ----------------------------------------------------------------

RcvUnchanged == UNCHANGED <<rcv, tmp, dest, faults>>

\* The encrypted key with the chunk count, its signature, the IV of the file
\* name and the encrypted file name.
After(pc) == CASE pc = "key"    -> "sig"
               [] pc = "sig"    -> "nameiv"
               [] pc = "nameiv" -> "name"
               [] pc = "name"   -> "loop"

SendHeader ==
    /\ snd.pc \in HeaderPCs
    /\ wire' = Append(wire, Frame(IF snd.pc = "nameiv" THEN "iv" ELSE snd.pc, -1,
                                  IF snd.pc = "key" THEN snd.count ELSE 0, 0))
    /\ snd' = [snd EXCEPT !.pc = After(@)]
    /\ RcvUnchanged

\* The length of the chunk at readOffset, the last one shorter.
NextLenBug == ChunkSize
NextLen == IF snd.off + ChunkSize >= snd.size THEN snd.size - snd.off ELSE ChunkSize

\* One round of the loop: encryptChunk reads a chunk and advances readOffset
\* and readChunkNum, then the IV is written...
SendIv ==
    /\ snd.pc = "loop" /\ snd.off < snd.size
    /\ wire' = Append(wire, Frame("iv", snd.off, 0, 0))
    /\ snd' = [snd EXCEPT !.pc = "chunk",
                          !.held = Frame("chunk", snd.off, snd.num, NextLen),
                          !.off = @ + NextLen, !.num = ToUint16(@ + 1)]
    /\ RcvUnchanged

\* ...and then the encrypted chunk.
SendChunk ==
    /\ snd.pc = "chunk"
    /\ wire' = Append(wire, snd.held)
    /\ snd' = [snd EXCEPT !.pc = "loop"]
    /\ RcvUnchanged

SendDone ==
    /\ snd.pc = "loop" /\ snd.off >= snd.size
    /\ snd' = [snd EXCEPT !.pc = "done"]
    /\ RcvUnchanged /\ UNCHANGED wire

\* A read of the file or a write to the stream fails: Encrypt returns.
SendFail ==
    /\ snd.pc \notin {"done", "failed"}
    /\ faults < MaxFaults /\ faults' = faults + 1
    /\ snd' = [snd EXCEPT !.pc = "failed"]
    /\ UNCHANGED <<wire, rcv, tmp, dest>>

\* --- The stream: a frame is lost, doubled or overtaken ----------------------

StreamFault ==
    /\ faults < MaxFaults /\ faults' = faults + 1
    /\ \E i \in DOMAIN wire :
          \/ wire' = RemoveAt(wire, i)
          \/ wire' = InsertAt(wire, i, wire[i])
          \/ i < Len(wire) /\ wire' = [wire EXCEPT ![i] = wire[i + 1],
                                                   ![i + 1] = wire[i]]
    /\ UNCHANGED <<snd, rcv, tmp, dest>>

\* --- Decrypt ----------------------------------------------------------------

SndUnchanged == UNCHANGED <<snd, faults>>

Fail(r) == rcv' = [rcv EXCEPT !.pc = "done", !.result = r]

\* Reading fails at the end of a stream the sender has left. That it has an end
\* is assumed of Encrypt's caller: Encrypt itself never closes its writer.
AtEofBug == FALSE
AtEof    == wire = <<>> /\ snd.pc \in {"done", "failed"}

ReadEof ==
    /\ rcv.pc \in {"key", "sig", "nameiv", "name", "iv", "chunk"}
    /\ AtEof
    /\ Fail("error")
    /\ SndUnchanged /\ UNCHANGED <<wire, tmp, dest>>

\* The loop goes on while writeChunkNum < chunkCount.
Loop(num, count) == IF num < count THEN "iv" ELSE "close"

\* DecryptVerifyMsg fails on anything but an encrypted key and its signature.
ReadKey ==
    /\ rcv.pc = "key" /\ wire # <<>> /\ wire' = Tail(wire)
    /\ rcv' = [rcv EXCEPT !.pc = "sig",
                          !.keyed = Head(wire).kind = "key",
                          !.count = Head(wire).num]
    /\ SndUnchanged /\ UNCHANGED <<tmp, dest>>

ReadSig ==
    /\ rcv.pc = "sig" /\ wire # <<>> /\ wire' = Tail(wire)
    /\ IF rcv.keyed /\ Head(wire).kind = "sig"
       THEN rcv' = [rcv EXCEPT !.pc = "nameiv"]
       ELSE Fail("error")
    /\ SndUnchanged /\ UNCHANGED <<tmp, dest>>

\* An IV is read as whatever frame comes: -2 when it has not an IV's length.
ReadIv ==
    /\ rcv.pc \in {"nameiv", "iv"} /\ wire # <<>> /\ wire' = Tail(wire)
    /\ rcv' = [rcv EXCEPT
           !.pc = IF @ = "nameiv" THEN "name" ELSE "chunk",
           !.iv = IF Head(wire).kind = "iv" THEN Head(wire).off ELSE -2]
    /\ SndUnchanged /\ UNCHANGED <<tmp, dest>>

\* aesGcm.Open: panics on an IV of the wrong length, fails unless the frame is
\* a ciphertext and the IV the one it was made with.
Opens(f) == f.kind \in {"name", "chunk"} /\ f.off = rcv.iv

ReadName ==
    /\ rcv.pc = "name" /\ wire # <<>> /\ wire' = Tail(wire)
    /\ IF Opens(Head(wire))
       THEN rcv' = [rcv EXCEPT !.pc = Loop(rcv.num, rcv.count)]
       ELSE Fail(IF rcv.iv = -2 THEN "died" ELSE "error")
    /\ SndUnchanged /\ UNCHANGED <<tmp, dest>>

\* decryptChunk: the number in the chunk must be writeChunkNum. (A file name
\* read as a chunk is taken not to begin with that number.)
InOrderBug(f)  == f.kind = "chunk"
InOrderBug2(f) == f.kind = "chunk" /\ f.num = rcv.num + 1
InOrder(f)     == f.kind = "chunk" /\ f.num = rcv.num

\* Contents after the chunk is appended: good while every byte is in place.
Written(f) == [tmp EXCEPT !.len = @ + f.len, !.good = @ /\ f.off = tmp.len]

ReadChunk ==
    LET f == Head(wire)
    IN  /\ rcv.pc = "chunk" /\ wire # <<>> /\ wire' = Tail(wire)
        /\ IF Opens(f) /\ InOrder(f)
           THEN /\ rcv' = [rcv EXCEPT !.num = ToUint16(@ + 1),
                                      !.pc = Loop(ToUint16(rcv.num + 1), rcv.count)]
                /\ tmp' = Written(f)
           ELSE /\ Fail(IF rcv.iv = -2 THEN "died" ELSE "error")
                /\ UNCHANGED tmp
        /\ SndUnchanged /\ UNCHANGED dest

\* Writing the chunk to the temporary file fails.
WriteFail ==
    /\ rcv.pc = "chunk" /\ wire # <<>> /\ wire' = Tail(wire)
    /\ Opens(Head(wire)) /\ InOrder(Head(wire))
    /\ faults < MaxFaults /\ faults' = faults + 1
    /\ Fail("error")
    /\ UNCHANGED <<snd, tmp, dest>>

\* After the loop: close; then rename, or delete when chunks are missing.
CloseTmp ==
    /\ rcv.pc = "close"
    /\ IF rcv.num = rcv.count
       THEN rcv' = [rcv EXCEPT !.pc = "rename"] /\ UNCHANGED tmp
       ELSE Fail("error") /\ tmp' = [tmp EXCEPT !.exists = FALSE]
    /\ SndUnchanged /\ UNCHANGED <<wire, dest>>

Rename ==
    /\ rcv.pc = "rename"
    /\ dest' = IF tmp.good /\ tmp.len = snd.size THEN "whole" ELSE "broken"
    /\ tmp' = [tmp EXCEPT !.exists = FALSE]
    /\ Fail("ok")
    /\ SndUnchanged /\ UNCHANGED wire

\* Close or Rename fails: the temporary file is removed, if that works.
FinishFail ==
    /\ rcv.pc \in {"close", "rename"}
    /\ faults < MaxFaults /\ faults' = faults + 1
    /\ \/ tmp' = [tmp EXCEPT !.exists = FALSE]
       \/ UNCHANGED tmp
    /\ Fail("error")
    /\ UNCHANGED <<snd, wire, dest>>

\* The receiving process is killed.
Die ==
    /\ rcv.pc # "done"
    /\ faults < MaxFaults /\ faults' = faults + 1
    /\ Fail("died")
    /\ UNCHANGED <<snd, wire, tmp, dest>>

-----------------------------------------------------------------------------
Encrypt == SendHeader \/ SendIv \/ SendChunk \/ SendDone
Decrypt == \/ ReadEof \/ ReadKey \/ ReadSig \/ ReadIv \/ ReadName \/ ReadChunk
           \/ CloseTmp \/ Rename
Fault   == SendFail \/ StreamFault \/ WriteFail \/ FinishFail \/ Die

Next == Encrypt \/ Decrypt \/ Fault

Spec == Init /\ [][Next]_vars

FairSpec == Spec /\ WF_vars(Encrypt) /\ WF_vars(Decrypt)

-----------------------------------------------------------------------------
\* What has been written to the temporary file is the beginning of the file
\* sent, whatever the stream lost, doubled or reordered.
PrefixWritten == tmp.good

\* The transfer keeps the promise of FileDelivery: the final name shows the
\* old file or the whole new one, and Decrypt returns success exactly when it
\* is the new one. A receiver that died returned nothing.
Delivery == INSTANCE FileDelivery
                WITH verdict <- IF rcv.result = "died" THEN "none" ELSE rcv.result
Implements == Delivery!DSpec

\* Decrypt returns (or the process dies): in whatever state faults leave it, the
\* end of the stream ends it. It rests on the assumption that whoever calls
\* Encrypt closes the stream afterwards (AtEof), which nothing in the code does:
\* on a stream left open a Decrypt that misses a frame waits for ever. Without a
\* fault it needs no such end (Arrives).
Returns == <>(rcv.pc = "done")

\* Unless there is a fault the file arrives.
Arrives == <>(faults > 0 \/ (rcv.result = "ok" /\ dest = "whole"))

\* "err == nil indicates successful execution" (aes_gcm_chunks.go:274): when
\* Decrypt returns nil the whole file is there.
OkMeansWhole == rcv.result = "ok" => dest = "whole"
=============================================================================
