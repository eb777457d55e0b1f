------------------------------- MODULE Framing -------------------------------
(* Messages, frames and files on a stream of bytes (src/pkg/util/util.go).  *)
(* Kinds of item, by the functions that write and read them:                *)
(*   message  WriteMessage               ReadMessage, ReadBytesToWriter     *)
(*   frame    WriteBytesErr              ReadBytesErr                       *)
(*   file     WriteBinary                ReadBinary, readNBinary            *)
(* The stream may be cut after any byte, a file may be unreadable or        *)
(* shorter than it was, and the reader's disk may fail.                     *)
(* A ...Bug definition is a wrong version of the one below it.              *)
EXTENDS Naturals, FiniteSets, Sequences, SequencesExt

CONSTANTS
    Base,           \* 256: a byte is a number below Base
    BufferSize,     \* the largest piece readWrite copies at once
    Known,          \* error codes with an entry in common.ErrorCodes
    Items,          \* what may be written
    Writers,        \* goroutines that write
    MaxItems,       \* how many items are written
    MaxRest,        \* how many bytes may still arrive after a cut
    MaxFaults,      \* how many of Faults may happen, each once
    NoFile

ASSUME FramingAssumption ==
    /\ Base \in Nat \ {0, 1}
    /\ {BufferSize, MaxItems, MaxRest, MaxFaults} \subseteq Nat /\ BufferSize > 0
    /\ Known \subseteq 1..Base - 1
    /\ NoFile \notin Seq(Nat)

Bytes == 0..Base - 1
Kinds == {"message", "frame", "file"}
Readers == Kinds \cup {"copy"}      \* "copy": ReadBytesToWriter

\* The kind of item a reader is made for.
KindOf(reader) == IF reader = "copy" THEN "message" ELSE reader

\* Fields an item's kind does not have are 0 or empty.
ItemType == [kind : Kinds, code : Bytes, cmd : Bytes, name : Seq(Bytes),
             data : Seq(Bytes)]
ASSUME ItemsAssumption ==
    /\ Items \subseteq ItemType
    /\ \A i \in Items :
        /\ i.kind # "message" => i.cmd = 0
        /\ i.kind = "file" => i.code = 0
        /\ i.kind # "file" => i.name = <<>>

VARIABLES
    wire,       \* bytes written and not read yet
    cut,        \* the stream has ended
    wr,         \* per writer: state, its item and the Writes it has left
    rd,         \* the reader: program counter and locals
    out,        \* what ReadBytesToWriter has written for its message
    tmp,        \* the temporary file, or NoFile
    shown,      \* files in DownloadPath: [name, data]
    sent,       \* items whose first byte is written, in that order (history)
    got,        \* items read (history)
    mixed,      \* an item was begun inside another one (history)
    astray,     \* a reader stopped elsewhere than its item ends: it was not
                \* made for that kind, or its copy's length wrapped (history)
    faults      \* what has failed so far

vars == <<wire, cut, wr, rd, out, tmp, shown, sent, got, mixed, astray,
          faults>>

\* Writers and reader agree on where an item starts, and of what kind it is.
\* What is promised below ends when they do not.
InStep == ~mixed /\ ~astray

-----------------------------------------------------------------------------
(* Bytes.                                                                   *)

\* binary.BigEndian.PutUint32 and Uint32.
ToBytesBug(n) == <<0, 0, 0, n>>
ToBytes(n) ==
    LET n1 == n \div Base       \* n >> 8
        n2 == n1 \div Base
        n3 == n2 \div Base
    IN  <<n3 % Base, n2 % Base, n1 % Base, n % Base>>
FromBytesBug(b) == ((b[4] * Base + b[3]) * Base + b[2]) * Base + b[1]
FromBytes(b) == ((b[1] * Base + b[2]) * Base + b[3]) * Base + b[4]

Uint32Max == Base * Base * Base * Base - 1

\* IntToUint32, Int64ToUint32: a longer payload is refused, with no byte
\* written.
FitsBug(n) == TRUE
Fits(n)    == n <= Uint32Max

\* readErrorCode: a code without an entry reads as UnknownCodeError, code 1.
ReadCodeBug(code) == IF code \in Known THEN code ELSE 0
ReadCode(code)    == IF code = 0 \/ code \in Known THEN code ELSE 1

\* readWrite copies pieces of BufferSize, the last one shorter.
Piece(left)    == IF left < BufferSize THEN left ELSE BufferSize
Pieces(data) ==
    LET n == (Len(data) + BufferSize - 1) \div BufferSize
        first(i) == (i - 1) * BufferSize + 1
    IN  [i \in 1..n |-> SubSeq(data, first(i),
                               first(i) + Piece(Len(data) - first(i) + 1) - 1)]

\* The calls of writer.Write for each kind: createHeader and WriteMessage make
\* one, WriteBytesErr two, WriteBinary those for the name, the size, the error
\* code and each piece.
MessageWritesBug(i) == <<ToBytes(Len(i.data)) \o <<i.code, i.cmd>>, i.data>>
MessageWrites(i)    == <<ToBytes(Len(i.data)) \o <<i.code, i.cmd>> \o i.data>>
FrameWritesBug(data, code) == <<ToBytes(Len(data)), data>>
FrameWrites(data, code) == <<ToBytes(Len(data)) \o <<code>>, data>>
FileWrites(i) == FrameWrites(i.name, 0)
                 \o <<ToBytes(Len(i.data)), <<0>>>> \o Pieces(i.data)
Writes(i) == CASE i.kind = "message" -> MessageWrites(i)
               [] i.kind = "frame"   -> FrameWrites(i.data, i.code)
               [] i.kind = "file"    -> FileWrites(i)

-----------------------------------------------------------------------------
Faults == {"stream", "source", "create", "write", "close", "rename", "remove"}
RdPCs == {"idle", "size", "head", "code", "data", "open", "pieces", "close",
          "rename", "failed"}

TypeOK ==
    /\ wire \in Seq(Bytes)
    /\ {cut, mixed, astray} \subseteq BOOLEAN
    /\ wr \in [Writers -> [pc : {"idle", "midway", "failed"},
                           item : Items \cup {NoFile}, left : Seq(Seq(Bytes))]]
    /\ rd \in [pc : RdPCs, as : Readers, name : Seq(Bytes) \cup {NoFile},
               size : Nat, code : Bytes, cmd : Bytes, left : Nat,
               sized : BOOLEAN]
    /\ out \in Seq(Bytes)
    /\ tmp \in Seq(Bytes) \cup {NoFile}
    /\ \A f \in shown : f.name \in Seq(Bytes) /\ f.data \in Seq(Bytes)
    /\ sent \in Seq(Items) /\ Len(sent) <= MaxItems
    /\ got \in Seq(ItemType)
    /\ faults \subseteq Faults /\ Cardinality(faults) <= MaxFaults

IdleWriter == [pc |-> "idle", item |-> NoFile, left |-> <<>>]
IdleReader == [pc |-> "idle", as |-> "message", name |-> NoFile, size |-> 0,
               code |-> 0, cmd |-> 0, left |-> 0, sized |-> FALSE]

Init ==
    /\ wire = <<>> /\ cut = FALSE
    /\ wr = [w \in Writers |-> IdleWriter]
    /\ rd = IdleReader
    /\ out = <<>> /\ tmp = NoFile /\ shown = {}
    /\ sent = <<>> /\ got = <<>>
    /\ mixed = FALSE /\ astray = FALSE
    /\ faults = {}

\* F happens in this step.
Fail(F) == /\ F \cap faults = {} /\ Cardinality(F \cup faults) <= MaxFaults
           /\ faults' = faults \cup F

\* --- The writers ------------------------------------------------------------

ReaderUnchanged == UNCHANGED <<cut, rd, out, tmp, shown, got, astray>>

\* One writer.Write, the first of those left for item i.
Put(w, i, left) ==
    /\ ~cut
    /\ wire' = wire \o Head(left)
    /\ wr' = [wr EXCEPT ![w] =
                 IF Len(left) = 1 THEN IdleWriter
                 ELSE [pc |-> "midway", item |-> i, left |-> Tail(left)]]

Begin(w, i) ==
    /\ wr[w].pc = "idle" /\ Fits(Len(i.name)) /\ Fits(Len(i.data))
    /\ Len(sent) < MaxItems /\ InStep
    /\ Put(w, i, Writes(i))
    /\ sent' = Append(sent, i)
    /\ mixed' = (mixed \/ \E v \in Writers : wr[v].pc # "idle")
    /\ ReaderUnchanged /\ UNCHANGED faults

GoOn(w) ==
    /\ wr[w].pc = "midway"
    /\ Put(w, wr[w].item, wr[w].left)
    /\ ReaderUnchanged /\ UNCHANGED <<sent, mixed, faults>>

\* The stream is gone, or a piece of the file cannot be read or is shorter
\* than the size already sent.
WriterFails(w) ==
    LET i == wr[w].item
    IN  /\ wr[w].pc = "midway"
        /\ \/ cut /\ UNCHANGED faults
           \/ /\ i.kind = "file" /\ Len(wr[w].left) <= Len(Pieces(i.data))
              /\ Fail({"source"})
        /\ wr' = [wr EXCEPT ![w].pc = "failed"]
        /\ ReaderUnchanged /\ UNCHANGED <<wire, sent, mixed>>

\* The stream ends; the first n of the bytes under way still arrive. (Bound:
\* at most MaxRest, since the reader may take what comes before those first.)
Cut(n) ==
    /\ ~cut /\ n <= Len(wire) /\ Fail({"stream"})
    /\ cut' = TRUE
    /\ wire' = SubSeq(wire, 1, n)
    /\ UNCHANGED <<wr, rd, out, tmp, shown, sent, got, mixed, astray>>

\* --- The reader -------------------------------------------------------------

WritersUnchanged == UNCHANGED <<cut, wr, sent, mixed>>
DiskUnchanged    == UNCHANGED <<tmp, shown>>

\* io.ReadFull of n bytes: all of them, or an error when the stream ends
\* before (io.EOF if there is none left, whatever field it is in).
Take(n)  == Len(wire) >= n /\ wire' = SubSeq(wire, n + 1, Len(wire))
Short(n) == Len(wire) < n /\ cut /\ wire' = <<>>

Deliver(item) ==
    /\ got' = Append(got, item)
    /\ rd' = IdleReader

\* The caller calls one of the functions that read. (Bound: what it reads
\* once the sides are out of step is not followed.)
Call(reader) ==
    /\ rd.pc = "idle" /\ InStep
    /\ \E b \in IF reader = "copy" THEN BOOLEAN ELSE {FALSE} :
           rd' = [rd EXCEPT !.pc = "size", !.as = reader, !.name = NoFile,
                            !.sized = b]
    /\ out' = <<>>
    /\ WritersUnchanged /\ DiskUnchanged /\ UNCHANGED <<wire, got, astray, faults>>

\* What ReadBytesToWriter writes before it copies: the size if asked to, and
\* the byte of writeErrorCode.
CopyHeader(size) == (IF rd.sized THEN ToBytes(size) ELSE <<>>) \o <<0>>

\* It copies size+2 bytes, in uint32: the error and command bytes too.
CopyLengthBug(size) == size + 1
CopyLength(size)    == (size + 2) % (Uint32Max + 1)

\* The reader is made for the item.
Agrees(reader, i) == KindOf(reader) = i.kind

\* It is, and yet size+2 wraps: ReadBytesToWriter copies a byte or none of the
\* longest messages and returns no error. The code does this wrong; Tracks
\* keeps it out of what is promised below.
Wraps(reader, i) == reader = "copy" /\ ~Fits(Len(i.data) + 2)

Tracks(reader, i) == Agrees(reader, i) /\ ~Wraps(reader, i)

\* readSize: of a message, of a frame (a file's name is one) or of a file.
ReadSize ==
    LET size == FromBytes(SubSeq(wire, 1, 4))
        first == rd.name = NoFile
    IN  /\ rd.pc = "size" /\ Take(4)
        /\ \/ /\ rd.as = "message"
              /\ rd' = [rd EXCEPT !.pc = "head", !.size = size]
              /\ UNCHANGED out
           \/ /\ rd.as = "copy"
              /\ out' = CopyHeader(size)
              /\ rd' = [rd EXCEPT !.pc = "pieces", !.size = size,
                                  !.left = CopyLength(size)]
           \/ /\ rd.as \in {"frame", "file"}
              /\ rd' = [rd EXCEPT !.pc = "code", !.size = size]
              /\ UNCHANGED out
        /\ astray' = (astray \/
               (first /\ ~mixed /\ ~Tracks(rd.as, sent[Len(got) + 1])))
        /\ WritersUnchanged /\ DiskUnchanged /\ UNCHANGED <<got, faults>>

\* writeSize or writeErrorCode fails: the message is left in the stream.
HeaderUnwritten ==
    LET header == CopyHeader(FromBytes(SubSeq(wire, 1, 4)))
    IN  /\ rd.pc = "size" /\ rd.as = "copy" /\ Take(4)
        /\ \E k \in 0..Len(header) - 1 : out' = SubSeq(header, 1, k)
        /\ rd' = [rd EXCEPT !.pc = "failed"]
        /\ Fail({"write"})
        /\ WritersUnchanged /\ DiskUnchanged /\ UNCHANGED <<got, astray>>

\* ReadMessage: the error code and the command.
ReadHead ==
    /\ rd.pc = "head" /\ Take(2)
    /\ rd' = [rd EXCEPT !.pc = "data", !.code = wire[1], !.cmd = wire[2]]
    /\ WritersUnchanged /\ DiskUnchanged /\ UNCHANGED <<out, got, astray, faults>>

ReadErrorCode ==
    /\ rd.pc = "code" /\ Take(1)
    /\ rd' = [rd EXCEPT !.code = ReadCode(wire[1]), !.cmd = 0,
                        !.pc = IF rd.as = "file" /\ rd.name # NoFile
                               THEN "open" ELSE "data"]
    /\ WritersUnchanged /\ DiskUnchanged /\ UNCHANGED <<out, got, astray, faults>>

\* The payload of a message or a frame; or the name of a file, which ends
\* ReadBinary if it is empty or came with an error code.
ReadData ==
    LET data == SubSeq(wire, 1, rd.size)
    IN  /\ rd.pc = "data" /\ Take(rd.size)
        /\ \/ /\ rd.as # "file"
              /\ Deliver([kind |-> rd.as, code |-> rd.code, cmd |-> rd.cmd,
                          name |-> <<>>, data |-> data])
           \/ /\ rd.as = "file"
              /\ rd' = IF rd.code # 0 \/ data = <<>>
                       THEN [rd EXCEPT !.pc = "failed"]
                       ELSE [rd EXCEPT !.pc = "size", !.name = data]
              /\ UNCHANGED got
        /\ WritersUnchanged /\ DiskUnchanged /\ UNCHANGED <<out, astray, faults>>

Width == CASE rd.pc = "size" -> 4
           [] rd.pc = "head" -> 2
           [] rd.pc = "code" -> 1
           [] rd.pc = "data" -> rd.size

FieldFails ==
    /\ rd.pc \in {"size", "head", "code", "data"} /\ Short(Width)
    /\ rd' = [rd EXCEPT !.pc = "failed"]
    /\ WritersUnchanged /\ DiskUnchanged /\ UNCHANGED <<out, got, astray, faults>>

\* readNBinary: the temporary file.
CreateTmp ==
    /\ rd.pc = "open"
    /\ \/ /\ tmp' = <<>>
          /\ rd' = [rd EXCEPT !.pc = "pieces", !.left = rd.size]
          /\ UNCHANGED faults
       \/ /\ Fail({"create"})
          /\ rd' = [rd EXCEPT !.pc = "failed"]
          /\ UNCHANGED tmp
    /\ WritersUnchanged /\ UNCHANGED <<wire, out, shown, got, astray>>

\* Bytes written by a round of readWrite.
Store(b) == IF rd.as = "copy" THEN out' = out \o b /\ UNCHANGED tmp
                              ELSE tmp' = tmp \o b /\ UNCHANGED out

\* A round of readWrite.
CopyPiece ==
    LET n == Piece(rd.left)
    IN  /\ rd.pc = "pieces" /\ rd.left > 0 /\ Take(n)
        /\ Store(SubSeq(wire, 1, n))
        /\ rd' = [rd EXCEPT !.left = IF n < @ THEN @ - n ELSE 0]
        /\ WritersUnchanged /\ UNCHANGED <<shown, got, astray, faults>>

\* readNBinary removes the file (deferred, or after a failed Rename).
CleanUpBug(F) == Fail(F) /\ UNCHANGED tmp
CleanUp(F)    == \/ Fail(F) /\ tmp' = NoFile
                 \/ Fail(F \cup {"remove"}) /\ UNCHANGED tmp

\* A piece that cannot be read whole is an error...
PieceShortBug == /\ Short(Piece(rd.left))
                 /\ rd' = [rd EXCEPT !.left = 0]
                 /\ UNCHANGED <<out, tmp, faults>>
PieceShort == /\ Short(Piece(rd.left))
              /\ rd' = [rd EXCEPT !.pc = "failed"]
              /\ UNCHANGED out
              /\ IF rd.as = "copy" THEN UNCHANGED <<tmp, faults>> ELSE CleanUp({})

\* ...and so is one that cannot be written whole.
PieceUnwritten ==
    LET n == Piece(rd.left)
    IN  /\ Take(n)
        /\ rd' = [rd EXCEPT !.pc = "failed"]
        /\ IF rd.as = "copy"
           THEN /\ \E k \in 0..n - 1 : out' = out \o SubSeq(wire, 1, k)
                /\ Fail({"write"}) /\ UNCHANGED tmp
           ELSE CleanUp({"write"}) /\ UNCHANGED out

PieceFails ==
    /\ rd.pc = "pieces" /\ rd.left > 0
    /\ PieceShort \/ PieceUnwritten
    /\ WritersUnchanged /\ UNCHANGED <<shown, got, astray>>

\* What ReadBytesToWriter copied, as a message.
Copied ==
    LET body == SubSeq(out, Len(CopyHeader(rd.size)) + 1, Len(out))
    IN  [kind |-> "message", name |-> <<>>,
         code |-> IF body = <<>> THEN 0 ELSE body[1],
         cmd  |-> IF Len(body) < 2 THEN 0 ELSE body[2],
         data |-> SubSeq(body, 3, Len(body))]

PiecesDone ==
    /\ rd.pc = "pieces" /\ rd.left = 0
    /\ IF rd.as = "copy"
       THEN Deliver(Copied)
       ELSE rd' = [rd EXCEPT !.pc = "close"] /\ UNCHANGED got
    /\ WritersUnchanged /\ DiskUnchanged /\ UNCHANGED <<wire, out, astray, faults>>

\* isDownloadComplete is set by now: when Close fails nothing is removed.
CloseTmp ==
    /\ rd.pc = "close"
    /\ \/ rd' = [rd EXCEPT !.pc = "rename"] /\ UNCHANGED faults
       \/ rd' = [rd EXCEPT !.pc = "failed"] /\ Fail({"close"})
    /\ WritersUnchanged /\ DiskUnchanged /\ UNCHANGED <<wire, out, got, astray>>

\* os.Rename replaces a file of that name; if it fails the temporary file is
\* removed.
RenameTmp ==
    /\ rd.pc = "rename"
    /\ \/ /\ shown' = {f \in shown : f.name # rd.name}
                      \cup {[name |-> rd.name, data |-> tmp]}
          /\ tmp' = NoFile
          /\ Deliver([kind |-> "file", code |-> rd.code, cmd |-> 0,
                      name |-> rd.name, data |-> tmp])
          /\ UNCHANGED faults
       \/ /\ CleanUp({"rename"})
          /\ rd' = [rd EXCEPT !.pc = "failed"]
          /\ UNCHANGED <<shown, got>>
    /\ WritersUnchanged /\ UNCHANGED <<wire, out, astray>>

-----------------------------------------------------------------------------
WriterStep(w) == GoOn(w) \/ WriterFails(w)

ReaderStep ==
    \/ ReadSize \/ HeaderUnwritten \/ ReadHead \/ ReadErrorCode \/ ReadData
    \/ FieldFails \/ CreateTmp \/ CopyPiece \/ PieceFails \/ PiecesDone
    \/ CloseTmp \/ RenameTmp

Next ==
    \/ \E w \in Writers, i \in Items : Begin(w, i)
    \/ \E w \in Writers : WriterStep(w)
    \/ \E n \in 0..MaxRest : Cut(n)
    \/ \E reader \in Readers : Call(reader)
    \/ ReaderStep

Spec == Init /\ [][Next]_vars

\* Both sides run, and the caller reads in a loop.
FairSpec == /\ Spec
            /\ \A w \in Writers : WF_vars(WriterStep(w))
            /\ WF_vars(\E reader \in Readers : Call(reader))
            /\ WF_vars(ReaderStep)

-----------------------------------------------------------------------------
(* Properties.                                                              *)

\* What a reader is to get for an item: an unknown error code of a frame
\* becomes UnknownCodeError, and nothing else changes.
Seen(i) == IF i.kind = "message" \/ i.code \in Known \cup {0} THEN i
           ELSE [i EXCEPT !.code = 1]

\* Readers of the right kind get the items written, each whole and in order,
\* wherever the stream is cut and whatever fails: no error of util.go is
\* taken for an item and no failed item is followed by another.
Stream == INSTANCE MessageStream WITH inStep <- InStep
Implements == Stream!Spec

\* The goroutines that share client.conn without a lock cannot spoil it by
\* WriteMessage: items mix only if one of them is a frame or a file.
MessagesNeverMix ==
    mixed => \E i \in DOMAIN sent : sent[i].kind # "message"

\* "Returns error == nil only if file is fully downloaded, renamed and moved
\* to DownloadPath" (util.go:304): what is shown there is a file that was
\* sent, whole, and each file reported as read has been shown.
ShownWhole ==
    InStep =>
        /\ \A f \in shown : \E i \in DOMAIN sent :
               sent[i].kind = "file" /\ sent[i].name = f.name /\ sent[i].data = f.data
        /\ \A i \in DOMAIN got : got[i].kind = "file" =>
               \E f \in shown : f.name = got[i].name

\* readNBinary leaves its temporary file behind only if it failed to close or
\* to remove it.
TmpRemoved ==
    tmp # NoFile /\ rd.pc \in {"idle", "failed"} =>
        {"close", "remove"} \cap faults # {}

\* Every item written is read, unless something failed or the sides are out of
\* step: no reader waits for bytes that its writer does not send.
AllRead ==
    \A n \in 1..MaxItems :
        Len(sent) >= n ~> Len(got) >= n \/ faults # {} \/ ~InStep
=============================================================================
