------------------------------- MODULE Client -------------------------------
(* The client's side of its connection to the relay server                  *)
(* (src/internal/client/client.go): the Do* operations, each on a goroutine *)
(* of its own, the commandHandler goroutine that routes what the server     *)
(* sends through chanMap, and the connection they share without a lock.     *)
(* The relay server and the network are not in the repository: their        *)
(* actions (Srv..., Lose, Push, HangUp) are what the client's code relies   *)
(* on or must bear.                                                         *)
(*                                                                          *)
(* A call to an operation is a member of Calls and happens once. It also    *)
(* names the channel it makes, its request at the server, the Add Code it   *)
(* is given (DoGetAddCode) and the connection it dials (Connect).           *)
EXTENDS Naturals, Sequences, SequencesExt

CONSTANTS
    Calls,          \* the calls that may be made
    PubReqs,        \* GetPubKey requests the server may push
    Ops,            \* the operations this instance calls
    BufferSize,     \* const bufferSize, the capacity of a channel
    Nil,            \* the nil interface, channel or pointer
    TypedNil,       \* a non-nil net.Conn that holds a nil *tls.Conn
    CanLose,        \* TRUE: the network may drop a connection, Dial may fail
    Overlap         \* TRUE: Disconnect may start while a panel call is out

ASSUME ClientAssumption ==
    /\ Nil # TypedNil
    /\ {Nil, TypedNil} \cap (Calls \cup PubReqs) = {}
    /\ Calls \cap PubReqs = {}
    /\ BufferSize \in Nat \ {0}
    /\ Ops \subseteq {"INIT", "QUIT", "GADC", "RADC", "RPUB", "RELY"}
    /\ {CanLose, Overlap} \subseteq BOOLEAN

Operations == {"INIT", "QUIT", "GADC", "RADC", "RPUB", "RELY"}
Commands   == Operations \cup {"GPUB"}
Chans      == Calls \cup PubReqs
Conns      == Calls

\* The command under which handleGetPubKey answers and registers: the code
\* says common.GetAddCode.
PubKeyCommand == "GADC"

\* Messages an operation writes, and reads before it returns.
WritesTooMany(op) == 3
Writes(op) == IF op \in {"RADC", "RPUB", "RELY", "INIT"} THEN 2 ELSE 1
Reads(op)  == IF op \in {"GADC", "RPUB"} THEN 2 ELSE 1

VARIABLES
    call,       \* per call: its operation, program counter and locals
    hdl,        \* per connection: the commandHandler goroutine of its Connect
    net,        \* per connection: state of the link and bytes under way
    conn,       \* client.conn
    chanMap,    \* client.chanMap
    buf,        \* per channel: its buffered messages
    addCode,    \* client.addCode
    verdict,    \* per call: the server's decision; per push: sent (history)
    fate        \* "running", or how the process ended

vars == <<call, hdl, net, conn, chanMap, buf, addCode, verdict, fate>>

CallPCs == {"idle", "enter", "dial", "make", "write", "look", "recv",
            "delete", "defer", "sleep", "clear", "done"}
HdlPCs  == {"none", "top", "read", "got", "send", "pubmake", "pubwrite",
            "pubdelete", "exited"}
Links   == {"none", "open", "lost", "closed"}
Results == {"none", "ok", "fail", "existing", "incomplete", "nokey", "ioerr"}
Bodies  == {"value", "junk", "ok", "fail"}

\* What the server sends: a reply (to a call) or a GetPubKey request.
DownMsg == [cmd : Commands, to : Chans, body : Bodies]
\* What the client sends; only the last message of a request gets an answer.
UpMsg == [cmd : Operations, from : Chans, last : BOOLEAN,
          arg : Calls \cup {Nil}]

CallType == [op : Operations, pc : CallPCs, left : 0..2,
             held : Chans \cup {Nil}, got : Seq(DownMsg), result : Results]
HdlType  == [pc : HdlPCs, conn : Conns \cup {Nil}, msg : DownMsg \cup {Nil},
             chan : Chans \cup {Nil}]
NetType  == [link : Links, up : Seq(UpMsg), down : Seq(DownMsg),
             code : Calls \cup {Nil}]

TypeOK ==
    /\ call \in [Calls -> CallType]
    /\ hdl \in [Conns -> HdlType]
    /\ net \in [Conns -> NetType]
    /\ conn \in Conns \cup {Nil, TypedNil}
    /\ chanMap \in [Commands -> Chans \cup {Nil}]
    /\ buf \in [Chans -> Seq(DownMsg)]
    /\ addCode \in Calls \cup {Nil}
    /\ verdict \in [Chans -> {"none", "ok", "fail"}]
    /\ fate \in {"running", "nilpanic", "mapfault", "indexpanic", "exited"}

-----------------------------------------------------------------------------
Init ==
    /\ call = [c \in Calls |-> [op |-> "INIT", pc |-> "idle", left |-> 0,
                                held |-> Nil, got |-> <<>>, result |-> "none"]]
    /\ hdl = [k \in Conns |-> [pc |-> "none", conn |-> Nil, msg |-> Nil,
                               chan |-> Nil]]
    /\ net = [k \in Conns |-> [link |-> "none", up |-> <<>>, down |-> <<>>,
                               code |-> Nil]]
    /\ conn = Nil
    /\ chanMap = [m \in Commands |-> Nil]
    /\ buf = [h \in Chans |-> <<>>]
    /\ addCode = Nil
    /\ verdict = [h \in Chans |-> "none"]
    /\ fate = "running"

InFlight(c)   == call[c].pc \notin {"idle", "done"}
OpInFlight(X) == \E c \in Calls : InFlight(c) /\ call[c].op \in X
NilConn(k)    == k \in {Nil, TypedNil}

StatusOps == {"INIT", "QUIT"}       \* started by a click on the status label
PanelOps  == {"GADC", "RADC"}       \* started by the Add Code expander

\* The order in which the user interface starts operations: the status label
\* is insensitive while Connect or Disconnect runs, the expander while a
\* panel operation runs and while the client is offline. (The window itself,
\* which allows a little more, is Desktop.)
MayStart(op) ==
    /\ ~OpInFlight({op})
    /\ op \in StatusOps => /\ ~OpInFlight(StatusOps)
                           /\ Overlap \/ ~OpInFlight(Operations)
    /\ op \in Operations \ StatusOps =>
           ~NilConn(conn) /\ ~OpInFlight(StatusOps)
    /\ op \in PanelOps => ~OpInFlight(PanelOps)

\* Helpers of the code, apart so that each stands alone. A ...Bug definition
\* is a wrong version of the one below it, used to show that a property can
\* fail.

\* client.chanMap[command] = make(chan *util.Message, bufferSize)
RegisterBug(op, c) ==
    chanMap' = [chanMap EXCEPT !["GPUB"] = c]
RegisterBug2(op, c) ==
    chanMap' = [chanMap EXCEPT ![IF op = "QUIT" THEN "INIT" ELSE op] = c]
Register(op, c) == chanMap' = [chanMap EXCEPT ![op] = c]

CapacityBug == 1
Capacity    == BufferSize

\* delete(client.chanMap, command)
UnregisterBug(op) == UNCHANGED chanMap
Unregister(op)    == chanMap' = [chanMap EXCEPT ![op] = Nil]

\* getResult: the error code decides.
OutcomeBug(m) == IF m.body = "junk" THEN "fail" ELSE "ok"
Outcome(m)    == IF m.body = "fail" THEN "fail" ELSE "ok"

\* DoRequestPubKey gives up when the data is not a key, with the result unread.
GivesUpBug(op, m)  == op = "GADC" /\ m.body # "value"
GivesUp(op, m)     == op = "RPUB" /\ m.body # "value"

\* Connect refuses, Disconnect has nothing to do.
AlreadyConnectedBug == FALSE
AlreadyConnected    == conn # Nil
NotConnected    == conn = Nil

\* util.ReadMessage fails on a link that is closed, or dropped and drained.
ReadFailsBug(n) == n.link = "lost" /\ n.down = <<>>
ReadFails(n)    == n.link = "closed" \/ (n.link = "lost" /\ n.down = <<>>)

\* time.Sleep(1 * time.Second) in Disconnect: "Timer allows graceful shutdown
\* for client.conn". A second is taken to be enough for every handler that is
\* routing a message to be back in Read.
SlowBug == TRUE
Slept   == \A k \in Conns : hdl[k].pc \in {"none", "read", "exited"}

\* --- The operations: Connect, Disconnect, Do... ---------------------------

\* `go client.Op()`: the goroutine starts.
Invoke(c, op) ==
    /\ call[c].pc = "idle"
    /\ call' = [call EXCEPT ![c].op = op,
                            ![c].pc = IF op \in StatusOps THEN "enter" ELSE "make"]
    /\ UNCHANGED <<hdl, net, conn, chanMap, buf, addCode, verdict, fate>>

Finish(c, r) ==
    call' = [call EXCEPT ![c].pc = "done", ![c].result = r, ![c].held = Nil]

ConnectEnter(c) ==
    /\ call[c].pc = "enter" /\ call[c].op = "INIT"
    /\ IF AlreadyConnected THEN Finish(c, "existing")
       ELSE call' = [call EXCEPT ![c].pc = "dial"]
    /\ UNCHANGED <<hdl, net, conn, chanMap, buf, addCode, verdict, fate>>

\* client.conn, err = tls.Dial(...): a failed Dial returns a nil *tls.Conn,
\* which the assignment wraps in the interface.
Dial(c) ==
    /\ call[c].pc = "dial"
    /\ \/ /\ conn' = c
          /\ hdl' = [hdl EXCEPT ![c].pc = "top"]
          /\ net' = [net EXCEPT ![c].link = "open"]
          /\ call' = [call EXCEPT ![c].pc = "make"]
       \/ /\ CanLose
          /\ conn' = TypedNil
          /\ Finish(c, "ioerr")
          /\ UNCHANGED <<hdl, net>>
    /\ UNCHANGED <<chanMap, buf, addCode, verdict, fate>>

DisconnectEnter(c) ==
    /\ call[c].pc = "enter" /\ call[c].op = "QUIT"
    /\ IF NotConnected THEN Finish(c, "ok")
       ELSE call' = [call EXCEPT ![c].pc = "make"]
    /\ UNCHANGED <<hdl, net, conn, chanMap, buf, addCode, verdict, fate>>

MakeChan(c) ==
    /\ call[c].pc = "make"
    /\ Register(call[c].op, c)
    /\ call' = [call EXCEPT ![c].pc = "write", ![c].left = Writes(call[c].op)]
    /\ UNCHANGED <<hdl, net, conn, buf, addCode, verdict, fate>>

\* util.WriteMessage(client.conn, ...): on a dropped link the kernel may
\* still take the bytes; on nil it panics.
Write(c) ==
    LET op   == call[c].op
        last == call[c].left = 1
        m    == [cmd |-> op, from |-> c, last |-> last,
                 arg |-> IF op = "RADC" /\ last THEN addCode ELSE Nil]
        sent == call' = [call EXCEPT ![c].left = @ - 1,
                                     ![c].pc = IF last THEN "look" ELSE "write"]
        failed == call' = [call EXCEPT ![c].pc = "defer", ![c].result = "ioerr"]
    IN  /\ call[c].pc = "write"
        /\ \/ /\ NilConn(conn)
              /\ fate' = "nilpanic"
              /\ UNCHANGED <<call, net>>
           \/ /\ ~NilConn(conn)
              /\ \/ /\ net[conn].link = "open"
                    /\ net' = [net EXCEPT ![conn].up = Append(@, m)]
                    /\ sent
                 \/ /\ net[conn].link = "lost"
                    /\ sent \/ failed
                    /\ UNCHANGED net
                 \/ /\ net[conn].link = "closed"
                    /\ failed
                    /\ UNCHANGED net
              /\ UNCHANGED fate
        /\ UNCHANGED <<hdl, conn, chanMap, buf, addCode, verdict>>

\* The operand of `<-client.chanMap[command]` is evaluated once; a missing
\* entry is a nil channel, on which the receive blocks for ever.
Look(c) ==
    /\ call[c].pc = "look"
    /\ call' = [call EXCEPT ![c].pc = "recv", ![c].held = chanMap[call[c].op]]
    /\ UNCHANGED <<hdl, net, conn, chanMap, buf, addCode, verdict, fate>>

\* What the operation does with the message it receives: DoGetAddCode takes
\* the Add Code, DoRequestPubKey saves the key and stops on an error,
\* getResult (the last message) reads the error code.
Recv(c) ==
    LET op   == call[c].op
        m    == Head(buf[call[c].held])
        last == Len(call[c].got) + 1 = Reads(op)
        bad  == ~last /\ GivesUp(op, m)
    IN  /\ call[c].pc = "recv"
        /\ call[c].held # Nil /\ buf[call[c].held] # <<>>
        /\ buf' = [buf EXCEPT ![call[c].held] = Tail(@)]
        /\ call' = [call EXCEPT
               ![c].got = Append(@, m),
               ![c].pc = IF bad THEN "defer" ELSE IF last THEN "delete" ELSE "look",
               ![c].result = IF bad THEN "nokey"
                             ELSE IF ~last THEN "none"
                             ELSE Outcome(m)]
        /\ addCode' = IF op = "GADC" /\ ~last
                      THEN IF m.body = "value" /\ m.to \in Calls THEN m.to ELSE Nil
                      ELSE addCode
        /\ UNCHANGED <<hdl, net, conn, chanMap, verdict, fate>>

\* getResult deletes the entry...
Delete(c) ==
    /\ call[c].pc = "delete"
    /\ Unregister(call[c].op)
    /\ call' = [call EXCEPT ![c].pc = "defer"]
    /\ UNCHANGED <<hdl, net, conn, buf, addCode, verdict, fate>>

\* ...and so does the deferred delete; then the operation returns, except
\* that Disconnect goes on when doQuit succeeded.
Defer(c) ==
    /\ call[c].pc = "defer"
    /\ Unregister(call[c].op)
    /\ IF call[c].op # "QUIT"         THEN Finish(c, call[c].result)
       ELSE IF call[c].result = "ok" THEN call' = [call EXCEPT ![c].pc = "sleep"]
       ELSE Finish(c, "incomplete")
    /\ UNCHANGED <<hdl, net, conn, buf, addCode, verdict, fate>>

\* After the sleep, client.conn.Close(); the TLS close alert may fail on a
\* link the server has dropped.
Close(c) ==
    /\ call[c].pc = "sleep"
    /\ Slept
    /\ \/ /\ NilConn(conn)
          /\ fate' = "nilpanic"
          /\ UNCHANGED <<call, net>>
       \/ /\ ~NilConn(conn)
          /\ \/ call' = [call EXCEPT ![c].pc = "clear"]
             \/ net[conn].link # "open" /\ Finish(c, "ioerr")
          /\ net' = [net EXCEPT ![conn].link = "closed"]
          /\ UNCHANGED fate
    /\ UNCHANGED <<hdl, conn, chanMap, buf, addCode, verdict>>

Clear(c) ==
    /\ call[c].pc = "clear"
    /\ conn' = Nil
    /\ Finish(c, "ok")
    /\ UNCHANGED <<hdl, net, chanMap, buf, addCode, verdict, fate>>

\* --- commandHandler, one goroutine per connection -------------------------

HandlerUnchanged == UNCHANGED <<call, conn, addCode, verdict>>

\* The operand of util.ReadMessage(client.conn): evaluated in every round.
HTop(k) ==
    /\ hdl[k].pc = "top"
    /\ IF NilConn(conn)
       THEN fate' = "nilpanic" /\ UNCHANGED hdl
       ELSE /\ hdl' = [hdl EXCEPT ![k].pc = "read", ![k].conn = conn]
            /\ UNCHANGED fate
    /\ HandlerUnchanged /\ UNCHANGED <<net, chanMap, buf>>

HRead(k) ==
    LET j == hdl[k].conn
    IN  /\ hdl[k].pc = "read"
        /\ net[j].link # "closed" /\ net[j].down # <<>>
        /\ hdl' = [hdl EXCEPT ![k].pc = "got", ![k].msg = Head(net[j].down)]
        /\ net' = [net EXCEPT ![j].down = Tail(@)]
        /\ HandlerUnchanged /\ UNCHANGED <<chanMap, buf, fate>>

\* EOF or any other error ends the loop; no waiting operation is told.
HExit(k) ==
    /\ hdl[k].pc = "read"
    /\ ReadFails(net[hdl[k].conn])
    /\ hdl' = [hdl EXCEPT ![k].pc = "exited"]
    /\ HandlerUnchanged /\ UNCHANGED <<net, chanMap, buf, fate>>

\* if c, ok := client.chanMap[command]; ok ... else if command == GetPubKey
HDispatch(k) ==
    LET m == hdl[k].msg
        h == chanMap[m.cmd]
    IN  /\ hdl[k].pc = "got"
        /\ \/ /\ h # Nil
              /\ hdl' = [hdl EXCEPT ![k].pc = "send", ![k].chan = h]
           \/ /\ h = Nil /\ m.cmd = "GPUB"
              /\ hdl' = [hdl EXCEPT ![k].pc = "pubmake"]
           \/ /\ h = Nil /\ m.cmd # "GPUB"
              /\ hdl' = [hdl EXCEPT ![k].pc = "top", ![k].msg = Nil]
        /\ HandlerUnchanged /\ UNCHANGED <<net, chanMap, buf, fate>>

HSend(k) ==
    LET h == hdl[k].chan
    IN  /\ hdl[k].pc = "send"
        /\ Len(buf[h]) < Capacity
        /\ buf' = [buf EXCEPT ![h] = Append(@, hdl[k].msg)]
        /\ hdl' = [hdl EXCEPT ![k].pc = "top", ![k].msg = Nil, ![k].chan = Nil]
        /\ HandlerUnchanged /\ UNCHANGED <<net, chanMap, fate>>

\* handleGetPubKey: make the channel, write the key, deferred delete.
HPubMake(k) ==
    /\ hdl[k].pc = "pubmake"
    /\ Register(PubKeyCommand, hdl[k].msg.to)
    /\ hdl' = [hdl EXCEPT ![k].pc = "pubwrite"]
    /\ HandlerUnchanged /\ UNCHANGED <<net, buf, fate>>

HPubWrite(k) ==
    LET m == [cmd |-> PubKeyCommand, from |-> hdl[k].msg.to, last |-> TRUE,
              arg |-> Nil]
    IN  /\ hdl[k].pc = "pubwrite"
        /\ IF NilConn(conn)
           THEN fate' = "nilpanic" /\ UNCHANGED <<hdl, net>>
           ELSE /\ net' = IF net[conn].link = "open"
                          THEN [net EXCEPT ![conn].up = Append(@, m)] ELSE net
                /\ hdl' = [hdl EXCEPT ![k].pc = "pubdelete"]
                /\ UNCHANGED fate
        /\ HandlerUnchanged /\ UNCHANGED <<chanMap, buf>>

HPubDelete(k) ==
    /\ hdl[k].pc = "pubdelete"
    /\ Unregister(PubKeyCommand)
    /\ hdl' = [hdl EXCEPT ![k].pc = "top", ![k].msg = Nil]
    /\ HandlerUnchanged /\ UNCHANGED <<net, buf, fate>>

\* The runtime kills a program whose goroutines use a map concurrently, one
\* of them writing: the goroutines that are at such an access.
Writing(g) == IF g[1] = "call" THEN call[g[2]].pc \in {"make", "delete", "defer"}
                               ELSE hdl[g[2]].pc \in {"pubmake", "pubdelete"}
Reading(g) == IF g[1] = "call" THEN call[g[2]].pc = "look"
                               ELSE hdl[g[2]].pc = "got"
Goroutines == {"call", "hdl"} \X Calls

MapFault ==
    /\ \E g, h \in Goroutines :
           g # h /\ Writing(g) /\ (Writing(h) \/ Reading(h))
    /\ fate' = "mapfault"
    /\ UNCHANGED <<call, hdl, net, conn, chanMap, buf, addCode, verdict>>

\* --- The relay server and the network (not in the repository) -------------

Reply(c, op, body) == [cmd |-> op, to |-> c, body |-> body]

\* The answer to request c: a data message when the operation reads one, then
\* the result.
Answer(c, op, ok) ==
    (IF Reads(op) = 1 THEN <<>>
     ELSE <<Reply(c, op, IF ok THEN "value" ELSE "junk")>>)
    \o <<Reply(c, op, IF ok THEN "ok" ELSE "fail")>>

\* The server takes a message; the last one of a request is answered. A
\* public key (sent for a GetPubKey request) is not. An Add Code that is not
\* the registered one cannot be removed, and QUIT ends the connection.
SrvServe(k) ==
    LET m == Head(net[k].up)
        c == m.from
    IN  /\ net[k].link = "open" /\ net[k].up # <<>>
        /\ IF ~m.last \/ c \in PubReqs
           THEN net' = [net EXCEPT ![k].up = Tail(@)] /\ UNCHANGED verdict
           ELSE \E ok \in BOOLEAN :
                /\ ok /\ m.cmd = "RADC" => m.arg # Nil /\ m.arg = net[k].code
                /\ verdict' = [verdict EXCEPT ![c] = IF ok THEN "ok" ELSE "fail"]
                /\ net' = [net EXCEPT
                       ![k].up = Tail(@),
                       ![k].down = @ \o Answer(c, m.cmd, ok),
                       ![k].link = IF ok /\ m.cmd = "QUIT" THEN "lost" ELSE @,
                       ![k].code = IF ok /\ m.cmd = "GADC" THEN c
                                   ELSE IF ok /\ m.cmd = "RADC" THEN Nil ELSE @]
        /\ UNCHANGED <<call, hdl, conn, chanMap, buf, addCode, fate>>

\* The server asks for this client's public key: another client used the Add
\* Code it registered, which it knows once the operation has returned.
SrvPush(k, p) ==
    /\ net[k].link = "open" /\ verdict[p] = "none"
    /\ net[k].code # Nil /\ call[net[k].code].pc = "done"
    /\ verdict' = [verdict EXCEPT ![p] = "ok"]
    /\ \E i \in 1..Len(net[k].down) + 1 :
           net' = [net EXCEPT ![k].down =
                       InsertAt(@, i, [cmd |-> "GPUB", to |-> p, body |-> "ok"])]
    /\ UNCHANGED <<call, hdl, conn, chanMap, buf, addCode, fate>>

\* The connection drops, with the bytes under way.
Lose(k) ==
    /\ CanLose /\ net[k].link = "open"
    /\ net' = [net EXCEPT ![k].link = "lost", ![k].up = <<>>, ![k].down = <<>>]
    /\ UNCHANGED <<call, hdl, conn, chanMap, buf, addCode, verdict, fate>>

-----------------------------------------------------------------------------
CallStep(c) ==
    \/ ConnectEnter(c) \/ Dial(c) \/ DisconnectEnter(c) \/ MakeChan(c)
    \/ Write(c) \/ Look(c) \/ Recv(c) \/ Delete(c) \/ Defer(c)
    \/ Close(c) \/ Clear(c)

HandlerStep(k) ==
    \/ HTop(k) \/ HRead(k) \/ HExit(k) \/ HDispatch(k) \/ HSend(k)
    \/ HPubMake(k) \/ HPubWrite(k) \/ HPubDelete(k)

EnvStep(k) == SrvServe(k) \/ Lose(k) \/ \E p \in PubReqs : SrvPush(k, p)

Step ==
    /\ fate = "running"
    /\ \/ \E c \in Calls : CallStep(c) \/ HandlerStep(c) \/ EnvStep(c)
       \/ MapFault

Start == /\ fate = "running"
         /\ \E c \in Calls, op \in Ops : MayStart(op) /\ Invoke(c, op)

\* Nothing is out, or the process is dead: the program may rest.
Rest == /\ fate # "running" \/ ~OpInFlight(Operations)
        /\ UNCHANGED vars

Next == Step \/ Start \/ Rest

Spec == Init /\ [][Next]_vars

\* Goroutines are scheduled, and a server that is connected answers.
Fairness ==
    \A c \in Calls :
        /\ WF_vars(fate = "running" /\ CallStep(c))
        /\ WF_vars(fate = "running" /\ HandlerStep(c))
        /\ WF_vars(fate = "running" /\ SrvServe(c))

FairSpec == Spec /\ Fairness

-----------------------------------------------------------------------------
(* Properties.                                                              *)

\* An earlier DoRequestPubKey was refused: it returned with its result unread.
AfterRefusal(c) ==
    /\ call[c].op = "RPUB"
    /\ \E d \in Calls \ {c} :
           /\ call[d].pc = "done" /\ call[d].op = "RPUB" /\ call[d].got # <<>>
           /\ Head(call[d].got).body = "junk"

\* Every message an operation takes from its channel answers that very call
\* (never an earlier call, a later one or a push), the data before the result.
\* Only a DoRequestPubKey after a refused one may read what is left of it.
OwnReply ==
    \A c \in Calls : AfterRefusal(c) \/ \A i \in DOMAIN call[c].got :
        LET m == call[c].got[i]
        IN  m.to = c /\ (m.body \in {"ok", "fail"} <=> i = Reads(call[c].op))

\* What an operation returns is what the server decided on that very request:
\* success only if it accepted, refusal only if it refused.
VerdictFaithful ==
    \A c \in Calls : call[c].pc = "done" /\ call[c].got # <<>> /\ ~AfterRefusal(c) =>
        /\ call[c].result = "ok" => verdict[c] = "ok"
        /\ call[c].result \in {"fail", "incomplete", "nokey"} => verdict[c] = "fail"

\* The channel registered under a command belongs to a call of that command
\* which has not returned, or to the GetPubKey request being answered: no
\* operation leaves an entry behind that swallows a later one's replies.
ChannelOwner ==
    \A m \in Commands : chanMap[m] # Nil =>
        \/ /\ chanMap[m] \in Calls
           /\ InFlight(chanMap[m]) /\ call[chanMap[m]].op = m
        \/ \E k \in Conns : /\ hdl[k].pc \in {"pubwrite", "pubdelete"}
                            /\ hdl[k].msg.to = chanMap[m] /\ m = PubKeyCommand

\* The handler never has to block on a full channel: what the server sends
\* for a call fits. (What refused requests left unread piles up beside it.)
NeverFull ==
    \A k \in Conns : hdl[k].pc = "send" =>
        \/ Len(buf[hdl[k].chan]) < Capacity
        \/ hdl[k].chan \in Calls /\ AfterRefusal(hdl[k].chan)

\* At most one commandHandler reads from a connection: two would split the
\* bytes of a message between them.
OneReader ==
    \A j, k \in Conns :
        hdl[j].pc = "read" /\ hdl[k].pc = "read" /\ hdl[j].conn = hdl[k].conn
            => j = k

\* client.conn is replaced only by a call that found it nil, and cleared only
\* after Close: no step abandons a live connection.
NoAbandonedLink ==
    [][conn' # conn /\ ~NilConn(conn) => net[conn].link = "closed"]_vars

\* Every operation that starts returns, unless the process dies.
CallsReturn ==
    \A c \in Calls :
        InFlight(c) ~> call[c].pc = "done" \/ fate # "running"

\* "DoGetAddCode signals the relay server to send the Add Code. Returns
\* common.NoAvailableAddCodeError if no Add Code is available"
\* (client.go:247): it returns one way or the other.
GetAddCodeReturns ==
    \A c \in Calls :
        InFlight(c) /\ call[c].op = "GADC"
            ~> call[c].pc = "done" \/ fate # "running"

\* The handler of a connection that was closed ends: no goroutine is left
\* behind by Disconnect.
HandlersEnd ==
    \A k \in Conns :
        net[k].link = "closed" ~> hdl[k].pc = "exited" \/ fate # "running"
=============================================================================
