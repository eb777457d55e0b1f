# Coconut Desktop: a TLA+ development

Coconut is a desktop program (Go, GTK) that registers with a relay server, shows
a six-digit *Add Code* by which another user can find it, and is to send files,
encrypted in chunks. This directory holds TLA+ models of its code, the TLC runs
that check them on small instances, and theorems about them that TLAPS proves
for every instance. `PROJECT.json` is the index: runs, mutants, the lines of code
each definition stands for, findings, hazards and theorems. Source paths below
are relative to the repository.

To check a run: `tlc -config client_safety.cfg MCClient.tla`; to check proofs:
`tlapm ClientProofs.tla`.

## 1. Inventory

| Component | Source | State | Operations |
|---|---|---|---|
| Relay connection | `internal/client/client.go` | `conn`, `chanMap`, `addCode`; a goroutine per operation, one handler per connection | `Connect`, `Disconnect`, `DoGetAddCode`, `DoRemoveAddCode`, `DoRequestRelay`, `DoRequestPubKey`, `commandHandler`, `handleGetPubKey` |
| Main window | `internal/client/ui.go`, `data/ui/UI.glade` | `onlineStatus`, sensitivity and expansion of widgets, queued callbacks | clicks on the status label and the Add Code expander, shutdown |
| List of files | `internal/client/ui.go` | rows of each window, `fileMap`, two totals | add chosen files, remove selected rows, open another window |
| File transfer | `pkg/cryptography/aes_gcm_chunks.go` | `AesGcmChunk` at both ends, the temporary file | `EncryptSetup`, `Encrypt`, `DecryptSetup`, `Decrypt` |
| Key files | `pkg/cryptography/rsa.go` | `key.pub`, `key.priv` | `OpenKeys` at each activation |
| RSA primitives | `pkg/cryptography/rsa.go` | none | encrypt and sign, hash |
| Framing | `pkg/util/util.go` | the stream, a temporary file | `ReadMessage`, `WriteMessage`, `ReadBytes`, `WriteBytes`, `ReadBinary`, `WriteBinary`, `ReadBytesToWriter` |
| Contacts | `internal/client/client.go` | `contactMap`, `contacts.gob` | read, write, add, remove |
| Tables, config, log, entry | `pkg/common`, `pkg/log`, `cmd` | constants | none of interest |

How they interact. A GTK handler on the main loop starts a goroutine; the
goroutine calls one operation of the client and then queues a callback with
`glib.IdleAdd`. An operation makes a channel, puts it into `chanMap` under its
command, writes its request to `conn` and receives its answer from the channel.
`commandHandler` reads messages from `conn` and sends each to the channel that is
registered under its command *at that moment*; a `GetPubKey` request it answers
itself. `conn`, `chanMap` and `addCode` are shared by all of them and no lock
protects any; that concurrent writes to `conn` do not mix is owed to `WriteMessage`,
which makes one `Write` per message. File transfer is not wired to the connection
yet, and no handler calls the functions for contacts.

Starting the program again does not make a second process: GTK sends `activate`
to the one that runs, whose handler (ui.go:91-138) opens the key files again and
builds a second window over the same `UIStatus`. From then on every handler, of
either window, looks widgets up in the second one.

What is hard, and what makes each part correct:

* *Relay connection.* Interleavings of goroutines over unprotected state; answers
  routed by command alone; a handler that re-reads `client.conn` in every round;
  a sleep in the place of a synchronisation. Correct when each operation gets its
  own answer and reports it, no registration outlives its operation, a connection
  has one reader, no live connection is dropped, and everything returns.
* *Main window.* `onlineStatus` lags behind `conn` by a goroutine and a callback;
  callbacks of different goroutines overwrite each other's widgets. Correct when
  connecting and disconnecting never overlap, the window shows what is the case,
  and it never stays insensitive.
* *List of files.* Failures in the middle of an addition; removal by position.
  A second window with a list of its own over the same map and totals. Correct
  when lists, map and totals agree.
* *File transfer.* A stream that misbehaves, failures and kills at any step,
  `uint16` chunk numbers. Correct when the final name shows the whole file or
  nothing of it and `Decrypt` tells which.
* *Key files.* Kills between four file operations on two files. Correct when a
  client that runs has both halves of one pair, always the same.
* *Framing.* Three kinds of item whose headers differ, on streams that end anywhere;
  several writers without a lock; `uint32` arithmetic; a temporary file with five
  operations that may fail. Correct when what is read is what was written, item by
  item, and a file is shown whole or not at all.
* *Contacts.* A file that is truncated before it is rewritten, and errors that a
  deferred `Close` replaces. Correct when what was saved is there after a restart
  and what was removed stays away.

Every hazard, at its line, is in `PROJECT.json` under `hazards`.

## 2. Modules

| Module | Models | Lines of code |
|---|---|---|
| `Client` | the client's side of the connection, with the relay server and the network as its environment | `client.go` 84-320 |
| `Desktop` (EXTENDS `Client`) | the window composed with the client | `ui.go` 56-155, 215-400 |
| `FileList` | the list of files, in one or more windows | `ui.go` 90-137, 446-612 |
| `FileDelivery` | what a transfer promises (abstract) | |
| `Transfer` | both ends of a transfer and the stream | `aes_gcm_chunks.go` 40-454 |
| `KeyStore` | the two key files across starts | `rsa.go` 36-158, `ui.go` 90-104 |
| `MessageStream` | what framing promises (abstract) | |
| `Framing` | writers, a stream of bytes, a reader, its disk | `util.go` 20-606 |
| `Contacts` | `contactMap` and `contacts.gob` across restarts | `client.go` 66-102, 420-493 |
| `MC...` | instances for TLC | |
| `ClientProofs`, `ClientReplyProofs`, `DesktopProofs`, `TransferProofs`, `KeyStoreProofs`, `ContactsProofs`, `FramingProofs`, `FileListProofs` | theorems | |

A definition whose name ends in `Bug` is a wrong version of the one it precedes.
No specification uses it: it exists so that one can check that a property fails
when the code is wrong in that way.

### Client

A member of `Calls` is one call of an operation, with its goroutine, the channel
it makes, its request and (for `Connect`) the connection it dials. `call[c].pc`
follows the code: `enter` (the test of `conn`), `dial`, `make` (the channel is
registered), `write`, `look` (the operand of the receive is evaluated, *once*),
`recv`, `delete` (in `getResult`), `defer` (the deferred delete), `sleep`, `clear`
(`conn = nil`). Each is one access to shared state, so that every interleaving of
such accesses is explored. `hdl[k]` is the handler started by the `Connect` of
connection `k`: `top` evaluates `client.conn`, `read` waits, `got` looks into
`chanMap`, `send` sends, and `pubmake`, `pubwrite`, `pubdelete` are
`handleGetPubKey`.

`conn` is `Nil`, a connection, or `TypedNil`: a failed `tls.Dial` returns a nil
`*tls.Conn`, and the assignment to the `net.Conn` field makes an interface that
does not equal `nil`. A nil use ends the process (`fate = "nilpanic"`), as does a
pair of unsynchronised accesses to the map (`MapFault`), which the runtime may or
may not detect: TLC explores both.

External: the server answers the last message of a request with the data (if the
operation reads one) and the result, accepting or refusing as it likes, except
that only the registered Add Code can be removed; after an accepted QUIT it hangs
up. It may push a `GetPubKey` request once an Add Code is registered. The network
may drop the link with everything under way (`CanLose`).

`MayStart` is the order in which the window starts operations. `Overlap` lets
Disconnect start while a panel operation is out, which the window does allow. The
window allows two more things, which `Desktop` has and `MayStart` has not: a panel
operation may start while Disconnect is at work, and after a reconnect while one of
the previous connection is still out. What is said of `Client` holds under `MayStart`;
`OwnReplyInWindow` says which of it holds in the window.
`Slept` is the one abstraction of time: the second that Disconnect sleeps before
`Close` is taken to be enough for every handler to be back in its read. (With
`SlowBug` in its place `OneReader` fails: the sleep is what keeps an old handler
from the new connection.)

### Desktop

`Desktop` replaces `MayStart` by the handlers themselves: what may start follows
from the sensitivity of the widgets. A call's goroutine queues its callback when
the call is done (`Post`), callbacks run in order on the main loop (`Callback`),
and handlers may run between any two steps of the goroutines. After `shutdown`
no handler and no callback runs. An expander's `activate` handler runs before
GTK's own, which toggles the expander.

### FileList

One action for `addFilesToListStore` over all chosen names and one for
`removeSelectedFiles`: both run on the main loop without interruption. For each
new file the outcome is chosen: `os.Stat` fails, the row cannot be set, or a size.
Their loops are the recursive functions inside `AddAll` and `RemoveAll`, one round of
which is `AddFile` and `RemoveRow`.
GTK may reorder the rows at any time (the columns are sortable).

`list.rows` are the rows of the last window, `list.before` those of the windows
opened earlier. `Activate` opens another window. `DeletePressed` takes the positions
from the window in which the key is pressed and applies them to the store of the
last one, as `removeSelectedFiles` does. The order of an earlier window's rows is
read by nothing and is not tracked. A window that is closed only loses its handlers;
the model keeps them, which allows more. `isFileTab` is left out: it decides which
dialog "+" opens, and files may be added at any time.

### Transfer

The unit of the model is a frame (one `WriteBytes`). File contents are offsets: a
chunk carries the offset and the length of the part of the file it was made from,
and the temporary file is "good" while each byte is where it belongs. A
ciphertext opens only with the IV it was made with, an IV of the wrong length
makes `Open` panic. Chunk numbers and counts are taken modulo `Word`. The stream
may lose, double or swap frames, reads and writes may fail at either end, and the
receiver may be killed; `MaxFaults` bounds how often. `FileDelivery` is the
promise: one step from the old state of the final name to the whole file, with
success reported exactly then.

That reading fails once the sender has left (`AtEof`) is an assumption about the
callers, since `Encrypt` never closes its writer and nothing wires the two
functions to a connection yet. `Returns` rests on it: on a stream that is left open
a `Decrypt` that misses a frame waits for ever. `Arrives` does not need it.

Two simplifications: a file name that is decrypted in the place of a chunk (after
four faults or more) is taken not to begin with the expected chunk number, and
one transfer runs at a time.

### KeyStore

The `n`-th activation of the application, of a new process or of the one that
runs, makes pair `n` if it makes one. Files are `NoFile`,
`Torn` (no PEM block in it) or hold one half of a pair. Kill and failure may
come between any two file operations. A partial `pem.Encode` does not decode.
`LosePub` is the user who loses `key.pub` or restores `key.priv` alone.

### Framing

The stream is a sequence of bytes; a byte is a number below `Base` (256 in the code),
and `ToBytes`, `FromBytes` are the big-endian `uint32` of the headers. An item is a
message, a frame or a file. `Writes(i)` is the list of `Write` calls that its writer
makes: one for a message, two for a frame, four and one per piece for a file. A
writer with writes left is `midway`, so that several writers interleave exactly as
unlocked goroutines would: `mixed` records that an item was begun inside another.
The reader is called for any kind of item at any time and goes field by field:
`size`, `head` or `code`, `data`, then for a file `open`, `pieces`, `close`,
`rename`. `astray` records that it stopped elsewhere than its item ends, for one of
two reasons: it was not made for the kind that comes (not `Agrees`), or it is
`ReadBytesToWriter` and the `size+2` that it copies wraps (`Wraps`). `Cut` ends the
stream with some prefix of the bytes under way.

`MessageStream` is the promise: as long as the two sides are in step, what is read is
what was written, item by item, in order, whole. `Implements` checks it, for all
kinds, wherever the stream is cut and whatever fails; an item is delivered only by
a reader that returned no error. What a reader does after the sides fell out of
step is not followed (`InStep` guards `Begin` and `Call`). The first reason is a
mistake of the caller; the second is one of the code, and the promise simply ends
there: no property catches it (see below).

Two simplifications: `io.ReadFull` is one step once its bytes are there, and the
pool of buffers is left out.

### Contacts

`proc` is the process, `saving` between the `O_TRUNC` of `WriteContactsFile` and the
end of its `Encode`. A map of contacts is encoded whole or not: gob decodes a value
only once its bytes are complete. `ReadContactsFile` either decodes the file
(`DecodeFile`) or loads nothing (`ReadFails`), and in both cases the caller is told
what `Close` returns. The history variables keep what the last save promised,
whether one was interrupted since, which removals were saved, and for the process
that runs whether it has `loaded` a file that is as saved and which contacts it has
`removed`. No caller exists yet; the functions are called in any order, and
`addContact` with any name.

## 3. Runs

Each run's question is its comment in the `.cfg` and its `about` in
`PROJECT.json`. States are distinct states.

| Run | Bounds | States | Result |
|---|---|---|---|
| `client_safety` | 4 calls of INIT, QUIT, GADC, RADC, RPUB, 1 push, link may be lost, overlap | 1 515 000 | `TypeOK`, `OwnReply`, `VerdictFaithful`, `ChannelOwner`, `NeverFull`, `OneReader` hold |
| `client_orderly` | 4 calls of INIT, QUIT, GADC; no loss, push or overlap; fair | 198 000 | `NoAbandonedLink`, `CallsReturn`, `HandlersEnd` hold, no deadlock |
| `desktop_safety` | 4 calls, lost links | 511 000 | `DesktopTypeOK`, `OneStatusCall`, `OnlineHasConnection`, `NilOnlyInPanel`, `OwnReplyInWindow`, `ShownIsRegistered` hold |
| `desktop_live` | 3 calls, no loss; fair | 95 000 | `RowReturns`, `ShutDownEnds` hold |
| `files_list` | 3 files, 2 sizes, 3 windows | 3 175 | `TypeOK`, `TotalsMatch`, `ListedOnce`, `RemovedMayReturn`, `RemovesSelected` hold |
| `transfer` | files of 0 to 6 bytes, chunks of 2, numbers modulo 4, 2 faults; fair | 47 000 | `TypeOK`, `PrefixWritten`, `Implements`, `Returns`, `Arrives` hold |
| `keys` | 4 activations, 3 kills or failures, 2 losses of `key.pub` | 1 965 | `TypeOK`, `PairMatches`, `SamePair`, `KeysReturned` hold |
| `framing` | base 2, pieces of 2 bytes, 2 writers, 2 items, 2 faults, at most 3 bytes after a cut; fair | 725 000 | `TypeOK`, `MessagesNeverMix`, `ShownWhole`, `TmpRemoved`, `Implements`, `AllRead` hold |
| `contacts` | 2 contacts, 2 names, 3 kills or failures | 41 800 | `TypeOK`, `RemovedStaysGone`, `SavedStaysThere` hold |

Why the bounds are enough. Four calls make a whole cycle (connect, an operation,
disconnect, connect again), which is what is needed for a handler, a channel or a
message of one connection to reach the next. For two panel operations of two
connections to meet takes five: with `Calls = {c1, ..., c5}` in `desktop_safety.cfg`
all its properties hold too (2 513 000 states, some four minutes), and without the
condition `~MayMix` `OwnReplyInWindow` and `ShownIsRegistered` fail. The channels' capacity is 2 in the
runs and 10 in the code: an operation reads at most two messages, and `NeverFull`
fails at capacity 1. Files of 0 to 3 chunks include the empty file, the exact
multiple and the shorter last chunk. Two faults are the smallest number that lose
one frame and double or move another. Four starts with three faults leave every
combination of the two files behind. In `framing`, base 2 makes the largest size 15,
so that a payload that does not fit, a size that wraps when 2 is added, an empty one
and one of several pieces are all among the items. Two writers and two items are
what mixing takes. After a cut at most `MaxRest` bytes arrive: the reader may have
taken any number before, so that every position of the cut is reached. Of the two
requests about other clients `client_safety` calls `RPUB`; `RELY` writes and reads
as `RADC` does, and the theorems cover it. The theorems below remove most of these
bounds.

`CHECK_DEADLOCK FALSE` is given where the program really may stop: calls that
wait for ever on a lost connection, a finished transfer, all starts used up.

### What the code does against its own words

Three runs expect a violation: each checks a sentence of a comment that the code
does not keep, and has an entry in `findings`.

| Run | The sentence | What happens |
|---|---|---|
| `client_push_hang` | client.go:247 | `handleGetPubKey` uses the command of `DoGetAddCode` and takes away its channel; `DoGetAddCode` never returns |
| `desktop_offline_panel` | ui.go:217 | a click during Disconnect leads to a write on a nil connection |
| `transfer_overflow` | aes_gcm_chunks.go:274 | a file of more than 65535 chunks (1 TiB) arrives truncated, reported as success |

The other disagreements met while modelling are kept as the conditions of
properties that hold, or can be seen by giving TLC the formula shown here as an
invariant of the named module:

* A refused `DoRequestPubKey` leaves its result unread (client.go:315), and the
  calls of it that follow run one message behind. `OwnReply`, `VerdictFaithful` and
  `NeverFull` except those calls (`AfterRefusal`) and no other.
* A failed `tls.Dial` leaves a nil `*tls.Conn` in `client.conn` (client.go:160), and
  every later Connect says "existing" (client.go:153): `Client`, with `CanLose`,
  `\A c \in Calls : call[c].result = "existing" => conn # TypedNil`. `NilOnlyInPanel`
  says that, driven by the window, no call uses this nil.
* A Connect whose `doInit` is refused returns an error and leaves the connection and
  its handler (client.go:170): `Client`, `\A c \in Calls : call[c].op = "INIT" /\
  call[c].result = "fail" => NilConn(conn)`. No comment promises anything else.
* A torn key file makes `OpenKeys` return neither keys nor an error (rsa.go:54).
  `KeysReturned` says that this takes a kill or a failure before it.
* With `key.pub` lost and `key.priv` kept, one start writes a new `key.pub` and
  fails, the next runs with halves of two pairs (rsa.go:85, 120). `PairMatches`
  says that this takes the loss.
* A file whose `Stat` failed once is "already added" for ever (ui.go:572, 577).
  `RemovedMayReturn` says that no other file is.
* Connect's callback enables the expander while a panel operation of the previous
  connection is out (ui.go:241, 394): `Desktop`, `Ongoing(PanelOps) => ~ui.exp`. Then
  two `DoGetAddCode` may be out together. The later one replaces the channel of the
  earlier one, which may read the other's reply; and the callback of the earlier one
  writes its code, of a connection that is gone, into the panel, where it stays on
  display if the later one is refused. `MayMix` marks these runs; five calls show
  both, with `ui.shut = Nil => OwnReply` and `ShownIsRegistered` without `~MayMix`.
* The Disconnect of the shutdown (ui.go:145) may run beside one that a click has
  started, replace its channel and read its reply: `Desktop`, `OwnReply`.
* A panel callback enables the expander after Disconnect's callback disabled it
  (ui.go:286, 316): `Desktop`, `~ui.online => ~ui.exp`.
* A refused removal closes the panel and leaves the code active (ui.go:253,
  UI.glade:310). `ShownIsRegistered` excludes refusals for this reason.
* An error inside the loop of `Decrypt` leaves the temporary file behind
  (aes_gcm_chunks.go:338, 391): `Transfer`, `rcv.result = "error" => ~tmp.exists`.
* With two windows, Delete in the first one removes rows of the second ("selected
  files are removed from the list", ui.go:446). `RemovesSelected` speaks of the last
  window only. The info box of the second window counts the rows of both. The flag
  `isFileTab` is shared, so that "+" may open the dialog of the other tab. The second
  window's status row is sensitive while a Connect of the first is out, so that two
  Connects may overlap; `Desktop` has one window.
* `ReadBytesToWriter` adds a zero byte and copies `size+2` bytes (util.go:265, 269):
  its output is in neither format, and it asks for two bytes more than a blob with
  a bare size has, which is what `TestReadBytesTemp` feeds it. The model reads the
  copy as a message behind the header that it adds. For the two largest sizes
  `size+2` wraps in `uint32`: one byte or none is copied and nil returned. `Framing`,
  with `Agrees` for `Tracks` in `ReadSize`: `Implements` fails.
* `io.EOF`, which `commandHandler` takes for an orderly end (client.go:137), is also
  what a stream cut between two fields of a message gives (util.go:178).
* When `Close` of a downloaded file fails, the temporary file stays
  (util.go:344-351). `TmpRemoved` says that this and a failed removal are the only ways.
* `ReadContactsFile` and `WriteContactsFile` return nil when decoding or encoding
  failed, because the deferred `err = file.Close()` replaces the error (client.go:429,
  456). A program that trusts this nil after a read that failed starts with an empty
  map, and its next save writes that over the contacts on disk: `Contacts`,
  `[][ReadContactsFile /\ ret' = "ok" /\ ~broken => \A k \in Keys : promised[k] # None
  => contactMap'[k] = promised[k]]_vars`. `SavedStaysThere` holds for processes that
  have loaded the file once, and excepts saves that were interrupted or failed, of
  which the caller need not hear either.

### Fairness

`FairSpec` of `Client` gives weak fairness to each goroutine (the Go scheduler
runs a goroutine that stays runnable) and to a connected server's answer (an
assumption about the server; without it nothing the client waits for need come).
No fairness is given to the user (`Start`, `UserStep`), to the push, to the loss
of a link or to the map fault. `Desktop` adds the main loop. `Transfer` gives
fairness to both ends, none to faults. `Framing` gives it to writers that are
midway, to the reader and to the caller that reads in a loop (as `commandHandler`
does), none to `Begin`, `Cut` or failures. `RowReturns` and `CallsReturn` are checked
without lost links: with them a call that waits for an answer waits for ever,
because the handler that ends tells nobody (a hazard at client.go:137).

## 4. Theorems

All are of the form `Spec => []P` or `Spec => [][A]_vars`, for every value of the
constants allowed by the module's assumption.

`ClientProofs`. The inductive invariant is `TypeOK /\ LocalsInv /\ OwnerInv /\
StatusInv /\ ReaderInv`.
* `LocalsInv` ties a call's program counter to its operation (only Connect dials,
  only Disconnect sleeps).
* `OwnerInv` is `ChannelOwner` sharpened by program counters: the call is past
  its registration and has not passed its deferred delete. It needs the guard
  that two calls of one operation do not overlap (`MayStart`).
* `StatusInv` says at most one of Connect and Disconnect is out, and what `conn`
  is at each of its steps.
* `ReaderInv` says which connection each handler has evaluated: its own, as long
  as the handler of every earlier connection is past its last evaluation when
  `conn` changes. Here `Slept` is used.

From it: `ClientTypeCorrect`, `ChannelOwned`, `OneReaderOnly`, `NoLinkAbandoned`.
`OneReader` is not inductive by itself: that no two handlers read one connection
now does not say that none is about to evaluate `client.conn` again.

`ClientReplyProofs` goes on from there with `RInv`, which follows the messages. All
places a message of the server can be (on a connection, with its handler, in a
channel, taken by a call) are the one function `flow`, so that a step is a move from
one place to another, an arrival or a loss.
* `TruthInv`: a message says what the server decided on the request it answers;
  `UniqueInv`: it is in one place only.
* `RequestInv`: a request under way is the only one of its call, and undecided.
* `PendingInv`: requests and answers under way are those of calls that still wait for
  them. This is what keeps an answer from a later call of the same operation. It fails
  for a `DoRequestPubKey` that gave up on its key, so it stops at the first of those
  (`Tracked`), as `OwnReply` does (`AfterRefusal`).
* `OrderInv`: the data of an answer is ahead of its result, or has arrived.
* `ChannelInv`, `HeldInv`, `PushInv`: what the handler puts into the channel of a call
  answers that call; the channel of a push is never filled.
* `ReplyInv`: what a call has taken, and what it made of it, by program counter.

From it: `RepliesAreOwn`, `VerdictsAreFaithful`, and `ChannelsNeverFull` for every
capacity of at least two (the code has ten): of one answer at most data and result can
be in the channel and with the handler at once.

`DesktopProofs`. The inductive invariant is `CallsInv /\ DesktopTypeOK /\ QueueInv
/\ (ui.shut = Nil => RowInv)`. A status call is `Out` from the click until its
callback has run. `RowInv` says that at most one is out and none while the row is
sensitive; that the label says "Offline" during a Connect and "Online" during a
Disconnect; and that a Connect past `Dial` and a Disconnect that has not given it up
have a connection, which is what their callbacks need to leave label and connection
in agreement. `QueueInv` (a callback is queued once) is needed for the callback to be
the last of its call. `CallsInv` is the little that has to be known of `Client`: no
order of starts is assumed, so that the theorems hold for every sequence of clicks,
also where those of `ClientProofs` do not apply. From it: `WindowTyped`,
`StatusCallsApart`, `OnlineIsConnected`.

`RepliesInWindow` then shows that the widgets keep the calls in the order that
`ClientProofs` and `ClientReplyProofs` ask for, though a panel call may start during
Disconnect: their lemmas need only that no call of the same operation is out, and no
status call when one starts. `PanelInv` gives the first: as long as there was one
Connect, the expander is sensitive only when no panel call is left. With two, panel
calls of two connections may meet, and the theorem stops as the property does.

`NilUseConfined` says who may meet a nil connection: only the write of a panel call,
and only after a Disconnect that succeeded (that it may is the run
`desktop_offline_panel`). `NilOnlyInPanel` is not inductive; `MissingInv` is what it
takes: where the window is online or a panel call has been made there is a
connection, or a Disconnect has succeeded. It holds because only Connect's callback
makes the window online and only a Disconnect that succeeds clears `conn`. `RowInv`
gives Connect and Disconnect a connection at each use, though a failed `Dial` leaves a
typed nil, and `ReaderInv` gives one to the handlers. Like `RepliesInWindow` it ends
with the shutdown, whose Disconnect may run beside another.

`ShownCodeRegistered` relates what the panel displays to what the server has, with
callbacks between them that come late. Its invariant `ShowInv` holds while the window
is open and calls cannot mix (`~Mixed`: one Connect at most, or one panel call):

* `HistoryInv`: a Connect has returned before the label says Online or a Disconnect
  starts, and the panel is untouched before; with one Connect there is no connection
  after a Disconnect that succeeded.
* `LinkInv`: only a connection that a Connect has dialed carries requests.
* `CodeInv`: the Add Code a panel call was given stays in `client.addCode`, which all
  of them share, until the callback has displayed it.
* `AcceptedInv`: what returned nil was accepted by the server.
* `OneConnectInv`: with one Connect, panel calls come one after the other and each
  leaves the panel as the server has left the registration.
* `OnePanelInv`: with one panel call, whatever came of the connection, the panel stays
  open only on the connection on which the call was made; the "Offline" callback
  closes it.

The two cases need different arguments: in the first the connection never changes and
the registration does, in the second the other way round. `DialMoves`, `RequestMoves`
and `CodeMoves` say what any step of the client does to connections, requests and
codes, so that the argument about the widgets does not repeat the client's actions.
`ShutInv` covers the time after the shutdown: its Disconnect has no callback, so the
window is not quiet again. TLC checked `ShowInv /\ ShutInv` with 4 calls (all 511 000
states) before it was proved.

`TransferProofs`. The inductive invariant is `TypeOK /\ SenderInv /\ ReceiverInv
/\ FileInv /\ ResultInv`. `SenderInv` relates offset, chunk number and length of
every frame sent: as long as the count fits the word (`ChunksFit`), chunk number
`n` starts at byte `n * ChunkSize`. `FileInv` says the length of the temporary
file is that of the first `rcv.num` chunks; together with the test of the number
in `decryptChunk` the next chunk written starts where the file ends, whatever the
stream did. From it: `TypeCorrect`, `PrefixAlways`, `OkAlwaysWhole`, and
`TransferDelivers`, the refinement of `FileDelivery`. Without `ChunksFit` they are
false: that is `transfer_overflow`.

`KeyStoreProofs`. `PairKept` holds for any number of starts, kills, failed
operations and losses of `key.pub`; it rests on `O_EXCL`: once a private key has
been written no step writes it. `PairsMatch` has the invariant that, as long as
`key.pub` has not been lost, it holds the same pair as `key.priv` whenever the
latter is whole.

`KeysAreReturned` follows files and locals while nothing
failed: only the step between `os.Create` and `pem.Encode` sees a file without a block.

`ContactsProofs`. The inductive invariant `Kept` says that the file is empty while it
is being written, and otherwise, if no save was interrupted, holds what the last one
promised. `Gone` (what was saved as removed is in neither memory nor file) gives
`RemovalHolds`. `Covered` (a process that has loaded the file has in memory whatever the
last save promised, but for what it removed) gives `SavedIsNotLost`: it needs `Kept`
where a file is decoded, and holds in spite of a read that fails without saying so,
because such a read loads nothing and takes nothing away.

`FileListProofs`. The values of a loop are functions on `0 .. n`, about which nothing
follows from their definition alone: `LoopKeeps` and `LoopRuns` show, by way of the
first round that would break it, that such a function exists and what it keeps. The
same is done for finite sets (`FiniteKeeps`) and for sums over them (`SumExists`,
`SumOthers`: the order in which `CHOOSE` takes the members does not matter;
`SumRenamed`: nor do their names).
* `Tidy` is `ShownOnce`, `ShownIsMapped` and `MappedIsShown`. `ListedOnce` is not
  inductive without the second: a listed file that the map has lost would be added
  again. Nor is the second without the first: of a file listed twice, the removal of
  one row takes the other out of the map. From them: `NeverListedTwice`; and
  `RemovedAreForgotten` from the third.
* `Leaves` says which rows are left after some positions of a descending order, and
  `InPlace` that those before the last one removed have not moved, so that the next
  position still means the row that was selected. From it: `SelectedRemoved`.
* `Totals`: count and size are those of the spots, that is of the places in any window
  that show a file. A round of removal or addition takes one spot away or adds one and
  renames the rest (`Carries`), which is where failed rows have to be passed over. From
  it: `TotalsAgree`, and `ListTypeCorrect`, which needs it: a total that is decremented
  stays a natural number only because it counts the row that goes.

`FramingProofs`. `MessagesApart` rests on `WritersOk`: a writer between two writes has
a frame or a file in `sent`, because a message takes one. It holds for any number of
goroutines, which is what the unlocked `client.conn` needs. `NoTmpLeft` follows the
reader's program counter and kind: a temporary file exists only under `readNBinary`
or after a failed `Close` or removal.

`FramingTyped` and `FramingShownWhole` follow the reader's locals: a size that was read
is that of bytes of the stream, the pieces copied so far are a prefix of what was
announced, and a file is renamed with all of it. `FramingImplementsStream` is the
refinement of `MessageStream`, step by step. Its invariant `Ordered` says, while both
sides are in step and the reader has not failed, where each item lies on the stream:
the items sent fill it one after the other without a byte in between (`Laid`), of the
last one a writer may still owe some of its `Write` calls (`Writing`), and the reader's
locals hold the fields that precede its position in the item it is at (`Reading`).
With it a `ReadData` or `RenameTmp` that ends an item delivers that very item; every
other step of the reader stutters.

Only model-checked: the liveness properties (`CallsReturn`, `HandlersEnd`,
`RowReturns`, `ShutDownEnds`, `Returns`, `Arrives`, `AllRead`), since TLAPS does not
treat fairness and ENABLED. Every invariant, action property and refinement that a
passing run checks is also a theorem.

## 5. Not modelled

* RSA and AES themselves, certificates, key and IV generation: they appear as what
  they promise.
* The relay server: only what the client sees of it.
* Command and error codes outside the tables of `pkg/common`: an unknown command
  code would dereference nil (client.go:144), an unknown error code reads as
  success (client.go:127).
* Configuration (`ReadConfig`, `WriteConfig`, flags): read once before any goroutine
  starts; a missing or unreadable file leaves the defaults.
* The entry of another user's Add Code (`handleAddCodeDone`), which is unfinished in
  the code: it parses the number and drops it.
* Logging, widget getters, wording, colours, file permissions.
* A second window in `Desktop`, and what its handlers do to the widgets of the first.

## 6. Plan

Done, in the order of importance: `Client`, `Desktop`, `Transfer` with
`FileDelivery`, `KeyStore`, `FileList`, `Framing` with `MessageStream`, `Contacts`;
proofs for all of them.

To come:
1. Several transfers into one download directory: temporary names, two files with
   one final name.
2. Two windows in `Desktop`.
