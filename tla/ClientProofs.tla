---------------------------- MODULE ClientProofs ----------------------------
(* Proofs about Client, for any number of calls and pushed requests, any    *)
(* capacity, with or without a network that drops connections: the types,   *)
(* who owns an entry of chanMap, who reads a connection, and when           *)
(* client.conn may change.                                                  *)
EXTENDS Client, SequenceTheorems, TLAPS

\* What a goroutine's program counter says of its locals.
LocalsInv ==
    /\ \A c \in Calls :
        /\ call[c].pc = "write" => call[c].left \in 1..2
        /\ call[c].pc = "enter" => call[c].op \in StatusOps
        /\ call[c].pc = "dial" => call[c].op = "INIT"
        /\ call[c].pc \in {"sleep", "clear"} => call[c].op = "QUIT"
    /\ \A k \in Conns :
        /\ hdl[k].pc \in {"got", "send", "pubmake", "pubwrite", "pubdelete"}
               => hdl[k].msg \in DownMsg
        /\ hdl[k].pc = "send" => hdl[k].chan \in Chans

\* ChannelOwner with the program counters between make and delete.
OwnerInv ==
    \A m \in Commands : chanMap[m] # Nil =>
        \/ /\ chanMap[m] \in Calls
           /\ call[chanMap[m]].pc \in {"write", "look", "recv", "delete", "defer"}
           /\ call[chanMap[m]].op = m
        \/ \E k \in Conns : /\ hdl[k].pc \in {"pubwrite", "pubdelete"}
                            /\ hdl[k].msg.to = chanMap[m] /\ m = PubKeyCommand

\* One Connect or Disconnect at a time, and what it found.
StatusInv ==
    /\ \A c, d \in Calls : InFlight(c) /\ InFlight(d)
           /\ {call[c].op, call[d].op} \subseteq StatusOps => c = d
    /\ \A c \in Calls :
        /\ call[c].pc = "dial" => conn = Nil
        /\ call[c].pc = "clear" => ~NilConn(conn) /\ net[conn].link = "closed"

\* A handler uses the connection of its own Connect; one that is not in Read
\* has that connection in client.conn, not closed.
ReaderInv ==
    \A k \in Conns :
        /\ hdl[k].pc = "read" => /\ hdl[k].conn = k
                                 /\ net[k].link = "closed" \/ conn = k
        /\ hdl[k].pc \notin {"none", "read", "exited"} =>
               conn = k /\ net[k].link # "closed"

IInv == TypeOK /\ LocalsInv /\ OwnerInv /\ StatusInv /\ ReaderInv

LEMMA InitIInv == Init => IInv
  <1> SUFFICES ASSUME Init PROVE IInv
    OBVIOUS
  <1>1. call \in [Calls -> CallType]
    BY DEF Init, CallType, Operations, CallPCs, Results
  <1>2. hdl \in [Conns -> HdlType] /\ net \in [Conns -> NetType]
    BY DEF Init, HdlType, HdlPCs, NetType, Links, Conns
  <1>3. TypeOK
    BY <1>1, <1>2 DEF TypeOK, Init
  <1>4. LocalsInv /\ StatusInv /\ ReaderInv
    BY DEF Init, LocalsInv, StatusInv, ReaderInv, InFlight, Conns
  <1>5. OwnerInv
    BY DEF Init, OwnerInv
  <1> QED BY <1>3, <1>4, <1>5 DEF IInv

-----------------------------------------------------------------------------
(* What keeps the parts of the invariant that speak of several actors.      *)

OwnPCs      == {"write", "look", "recv", "delete", "defer"}
Others(c)   == \A d \in Calls \ {c} : call'[d] = call[d]
OtherHdl(k) == \A j \in Conns \ {k} : hdl'[j] = hdl[j]
SameLinks   == \A k \in Conns : net'[k].link = net[k].link

\* A call that moves on inside its operation.
Moves(c) == Others(c) /\ InFlight(c) /\ call'[c].op = call[c].op

LEMMA OwnerKept ==
    ASSUME OwnerInv, NEW c \in Calls, Others(c), UNCHANGED <<hdl, chanMap>>,
           call[c].pc \in OwnPCs =>
               call'[c].pc \in OwnPCs /\ call'[c].op = call[c].op
    PROVE  OwnerInv'
  BY DEF OwnerInv, Others, OwnPCs

LEMMA OwnerRegistered ==
    ASSUME TypeOK, OwnerInv, NEW c \in Calls, Others(c), UNCHANGED hdl,
           Register(call[c].op, c), call[c].pc \notin OwnPCs,
           call'[c].pc \in OwnPCs, call'[c].op = call[c].op
    PROVE  OwnerInv'
  <1> SUFFICES ASSUME NEW m \in Commands, chanMap'[m] # Nil
               PROVE  \/ /\ chanMap'[m] \in Calls
                         /\ call'[chanMap'[m]].pc \in OwnPCs
                         /\ call'[chanMap'[m]].op = m
                      \/ \E k \in Conns : /\ hdl'[k].pc \in {"pubwrite", "pubdelete"}
                                          /\ hdl'[k].msg.to = chanMap'[m]
                                          /\ m = PubKeyCommand
    BY DEF OwnerInv, OwnPCs
  <1>1. CASE m = call[c].op
    BY <1>1 DEF Register, TypeOK
  <1>2. CASE m # call[c].op
    <2>1. chanMap'[m] = chanMap[m]
      BY <1>2 DEF Register, TypeOK
    <2> QED BY <2>1 DEF OwnerInv, Others, OwnPCs
  <1> QED BY <1>1, <1>2

LEMMA OwnerDropped ==
    ASSUME TypeOK, OwnerInv, NEW c \in Calls, Others(c), UNCHANGED hdl,
           Unregister(call[c].op)
    PROVE  OwnerInv'
  <1> SUFFICES ASSUME NEW m \in Commands, chanMap'[m] # Nil
               PROVE  \/ /\ chanMap'[m] \in Calls
                         /\ call'[chanMap'[m]].pc \in OwnPCs
                         /\ call'[chanMap'[m]].op = m
                      \/ \E k \in Conns : /\ hdl'[k].pc \in {"pubwrite", "pubdelete"}
                                          /\ hdl'[k].msg.to = chanMap'[m]
                                          /\ m = PubKeyCommand
    BY DEF OwnerInv, OwnPCs
  <1>1. m # call[c].op /\ chanMap'[m] = chanMap[m]
    BY DEF Unregister, TypeOK
  <1> QED BY <1>1 DEF OwnerInv, Others, OwnPCs

LEMMA StatusKept ==
    ASSUME StatusInv, NEW c \in Calls, Moves(c), UNCHANGED conn,
           call'[c].pc = "dial" => conn = Nil,
           call'[c].pc = "clear" => ~NilConn(conn) /\ net[conn].link = "closed",
           \A k \in Conns : net[k].link = "closed" => net'[k].link = "closed",
           conn \in Conns \cup {Nil, TypedNil}
    PROVE  StatusInv'
  <1>1. \A d \in Calls : d # c => call'[d] = call[d]
    BY DEF Moves, Others
  <1>2. \A d \in Calls : InFlight(d)' => InFlight(d) /\ call'[d].op = call[d].op
    BY <1>1 DEF Moves, InFlight
  <1>3. ~NilConn(conn) => conn \in Conns
    BY DEF NilConn
  <1>4. \A d \in Calls : /\ call'[d].pc = "dial" => conn' = Nil
                         /\ call'[d].pc = "clear" =>
                                ~NilConn(conn') /\ net'[conn'].link = "closed"
    BY <1>1, <1>3 DEF StatusInv
  <1>5. ASSUME NEW d \in Calls, NEW e \in Calls, InFlight(d)', InFlight(e)',
               {call'[d].op, call'[e].op} \subseteq StatusOps
        PROVE  d = e
    BY <1>2, <1>5 DEF StatusInv
  <1> QED BY <1>4, <1>5 DEF StatusInv, NilConn

LEMMA ReaderKept ==
    ASSUME ReaderInv, UNCHANGED <<hdl, conn>>, SameLinks
    PROVE  ReaderInv'
  BY DEF ReaderInv, SameLinks

\* A step of the handler of k: the calls and client.conn stay.
LEMMA StatusKeptByHandler ==
    ASSUME TypeOK, StatusInv, UNCHANGED <<call, conn>>, SameLinks
    PROVE  StatusInv'
  <1>1. ~NilConn(conn) => conn \in Conns
    BY DEF NilConn, TypeOK
  <1> QED BY <1>1 DEF StatusInv, NilConn, InFlight, SameLinks

LEMMA ReaderKeptByHandler ==
    ASSUME ReaderInv, NEW k \in Conns, OtherHdl(k), UNCHANGED conn, SameLinks,
           hdl'[k].pc = "read" => /\ hdl'[k].conn = k
                                  /\ net[k].link = "closed" \/ conn = k,
           hdl'[k].pc \notin {"none", "read", "exited"} =>
               conn = k /\ net[k].link # "closed"
    PROVE  ReaderInv'
  BY DEF ReaderInv, OtherHdl, SameLinks

LEMMA OwnerKeptByHandler ==
    ASSUME OwnerInv, NEW k \in Conns, OtherHdl(k), UNCHANGED <<call, chanMap>>,
           hdl[k].pc \in {"pubwrite", "pubdelete"} =>
               /\ hdl'[k].pc \in {"pubwrite", "pubdelete"}
               /\ hdl'[k].msg = hdl[k].msg
    PROVE  OwnerInv'
  BY DEF OwnerInv, OtherHdl

-----------------------------------------------------------------------------
(* The steps of a call.                                                     *)

LEMMA CallUpdate ==
    ASSUME TypeOK, NEW c \in Calls, NEW r \in CallType,
           call' = [call EXCEPT ![c] = r]
    PROVE  call' \in [Calls -> CallType] /\ call'[c] = r /\ Others(c)
  BY DEF TypeOK, Others

\* A step that changes only where a call stands.
LEMMA CallOnly ==
    ASSUME IInv, NEW c \in Calls, Moves(c), call' \in [Calls -> CallType],
           UNCHANGED <<hdl, conn, chanMap>>, SameLinks,
           net' \in [Conns -> NetType], buf' \in [Chans -> Seq(DownMsg)],
           addCode' \in Calls \cup {Nil}, UNCHANGED verdict,
           fate' \in {"running", "nilpanic", "mapfault", "indexpanic", "exited"},
           call[c].pc \in OwnPCs => call'[c].pc \in OwnPCs,
           call'[c].pc = "write" => call'[c].left \in 1..2,
           call'[c].pc \notin {"enter", "clear"},
           call'[c].pc = "dial" => conn = Nil /\ call[c].op = "INIT",
           call'[c].pc = "sleep" => call[c].op = "QUIT"
    PROVE  IInv'
  <1>1. TypeOK'
    BY DEF IInv, TypeOK
  <1>2. LocalsInv'
    <2>1. ASSUME NEW d \in Calls
          PROVE  /\ call'[d].pc = "write" => call'[d].left \in 1..2
                 /\ call'[d].pc = "enter" => call'[d].op \in StatusOps
                 /\ call'[d].pc = "dial" => call'[d].op = "INIT"
                 /\ call'[d].pc \in {"sleep", "clear"} => call'[d].op = "QUIT"
      <3>1. CASE d = c
        BY <3>1 DEF Moves
      <3>2. CASE d # c
        BY <3>2 DEF IInv, LocalsInv, Moves, Others
      <3> QED BY <3>1, <3>2
    <2> QED BY <2>1 DEF IInv, LocalsInv
  <1>3. OwnerInv'
    BY OwnerKept DEF IInv, Moves
  <1>4. StatusInv'
    BY StatusKept DEF IInv, TypeOK, SameLinks
  <1>5. ReaderInv'
    BY ReaderKept DEF IInv
  <1> QED BY <1>1, <1>2, <1>3, <1>4, <1>5 DEF IInv

LEMMA FinishCall ==
    ASSUME TypeOK, NEW c \in Calls, NEW r \in Results, Finish(c, r)
    PROVE  /\ call' \in [Calls -> CallType] /\ Others(c)
           /\ call'[c].pc = "done" /\ call'[c].op = call[c].op
  <1>1. call[c] \in CallType
    BY DEF TypeOK
  <1>2. [call[c] EXCEPT !.pc = "done", !.result = r, !.held = Nil] \in CallType
    BY <1>1 DEF CallType, CallPCs
  <1>3. call' = [call EXCEPT ![c] =
                     [call[c] EXCEPT !.pc = "done", !.result = r, !.held = Nil]]
    BY DEF Finish, TypeOK
  <1> QED BY <1>1, <1>2, <1>3, CallUpdate DEF CallType

LEMMA GoTo ==
    ASSUME TypeOK, NEW c \in Calls, NEW pc \in CallPCs,
           call' = [call EXCEPT ![c].pc = pc]
    PROVE  /\ call' \in [Calls -> CallType] /\ Others(c)
           /\ call'[c].pc = pc /\ call'[c].op = call[c].op
  <1>1. call[c] \in CallType
    BY DEF TypeOK
  <1> DEFINE r == [call[c] EXCEPT !.pc = pc]
  <1>2. r \in CallType /\ r.pc = pc /\ r.op = call[c].op
    BY <1>1 DEF CallType
  <1>3. call' = [call EXCEPT ![c] = r]
    BY DEF TypeOK
  <1> HIDE DEF r
  <1> QED BY <1>2, <1>3, CallUpdate

LEMMA InvokeInv ==
    ASSUME IInv, NEW c \in Calls, NEW op \in Operations, Invoke(c, op),
           op \in StatusOps => ~OpInFlight(StatusOps)
    PROVE  IInv'
  <1> DEFINE pc == IF op \in StatusOps THEN "enter" ELSE "make"
             r == [call[c] EXCEPT !.op = op, !.pc = pc]
  <1>0. TypeOK /\ LocalsInv /\ OwnerInv /\ StatusInv /\ ReaderInv
    BY DEF IInv
  <1>1. call[c] \in CallType /\ pc \in CallPCs /\ call[c].pc = "idle"
    BY <1>0 DEF TypeOK, CallPCs, Invoke
  <1>2. r \in CallType
    BY <1>1 DEF CallType
  <1>3. call' = [call EXCEPT ![c] = r]
    BY <1>0 DEF Invoke, TypeOK
  <1>4. r.op = op /\ r.pc = pc
    BY <1>1 DEF CallType
  <1> HIDE DEF r
  <1>5. /\ call' \in [Calls -> CallType] /\ Others(c)
        /\ call'[c].pc = pc /\ call'[c].op = op
    BY <1>0, <1>2, <1>3, <1>4, CallUpdate
  <1>6. UNCHANGED <<hdl, net, conn, chanMap, buf, addCode, verdict, fate>>
    BY DEF Invoke
  <1>7. TypeOK'
    BY <1>0, <1>5, <1>6 DEF TypeOK
  <1>8. LocalsInv'
    BY <1>0, <1>5, <1>6 DEF LocalsInv, Others
  <1>9. OwnerInv'
    BY <1>0, <1>1, <1>5, <1>6, OwnerKept DEF OwnPCs
  <1>10. StatusInv'
    <2>1. \A d \in Calls : d # c => call'[d] = call[d]
      BY <1>5 DEF Others
    <2>2. ASSUME NEW d \in Calls, d # c, op \in StatusOps, InFlight(d)
          PROVE  call[d].op \notin StatusOps
      BY <2>2 DEF OpInFlight
    <2>3. \A d \in Calls : d # c => (InFlight(d)' <=> InFlight(d))
      BY <2>1 DEF InFlight
    <2>4. ASSUME NEW d \in Calls, NEW e \in Calls, InFlight(d)', InFlight(e)',
                 {call'[d].op, call'[e].op} \subseteq StatusOps
          PROVE  d = e
      BY <1>0, <1>5, <2>1, <2>2, <2>3, <2>4 DEF StatusInv
    <2>5. \A d \in Calls : /\ call'[d].pc = "dial" => conn' = Nil
                           /\ call'[d].pc = "clear" =>
                                  ~NilConn(conn') /\ net'[conn'].link = "closed"
      BY <1>0, <1>5, <1>6, <2>1 DEF StatusInv
    <2> QED BY <2>4, <2>5 DEF StatusInv, NilConn
  <1>11. ReaderInv'
    BY <1>0, <1>6, ReaderKept DEF SameLinks
  <1> QED BY <1>7, <1>8, <1>9, <1>10, <1>11 DEF IInv

LEMMA EnterInv ==
    ASSUME IInv, NEW c \in Calls, ConnectEnter(c) \/ DisconnectEnter(c)
    PROVE  IInv'
  <1>0. /\ TypeOK /\ InFlight(c) /\ call[c].pc = "enter" /\ SameLinks
        /\ UNCHANGED <<hdl, net, conn, chanMap, buf, addCode, verdict, fate>>
    BY DEF IInv, ConnectEnter, DisconnectEnter, InFlight, SameLinks
  <1>1. CASE Finish(c, "existing") \/ Finish(c, "ok")
    <2>1. /\ call' \in [Calls -> CallType] /\ Others(c)
          /\ call'[c].pc = "done" /\ call'[c].op = call[c].op
      BY <1>0, <1>1, FinishCall DEF Results
    <2> QED BY <1>0, <2>1, CallOnly DEF Moves, TypeOK, OwnPCs
  <1>2. ASSUME NEW pc \in {"dial", "make"}, call' = [call EXCEPT ![c].pc = pc],
               pc = "dial" => conn = Nil /\ call[c].op = "INIT"
        PROVE  IInv'
    <2>1. /\ call' \in [Calls -> CallType] /\ Others(c)
          /\ call'[c].pc = pc /\ call'[c].op = call[c].op
      BY <1>0, <1>2, GoTo DEF CallPCs
    <2> QED BY <1>0, <1>2, <2>1, CallOnly DEF Moves, TypeOK, OwnPCs
  <1> QED BY <1>1, <1>2 DEF ConnectEnter, DisconnectEnter, AlreadyConnected

LEMMA LookInv ==
    ASSUME IInv, NEW c \in Calls, Look(c)
    PROVE  IInv'
  <1> DEFINE r == [call[c] EXCEPT !.pc = "recv", !.held = chanMap[call[c].op]]
  <1>0. /\ TypeOK /\ InFlight(c) /\ call[c].pc = "look" /\ SameLinks
        /\ UNCHANGED <<hdl, net, conn, chanMap, buf, addCode, verdict, fate>>
    BY DEF IInv, Look, InFlight, SameLinks
  <1>1. call[c] \in CallType /\ call' = [call EXCEPT ![c] = r]
    BY <1>0 DEF TypeOK, Look
  <1>2. chanMap[call[c].op] \in Chans \cup {Nil}
    BY <1>0, <1>1 DEF TypeOK, CallType, Commands
  <1>3. r \in CallType /\ r.pc = "recv" /\ r.op = call[c].op
    BY <1>1, <1>2 DEF CallType, CallPCs
  <1> HIDE DEF r
  <1>4. /\ call' \in [Calls -> CallType] /\ Others(c)
        /\ call'[c].pc = "recv" /\ call'[c].op = call[c].op
    BY <1>0, <1>1, <1>3, CallUpdate
  <1> QED BY <1>0, <1>4, CallOnly DEF Moves, TypeOK, OwnPCs

LEMMA MakeChanInv ==
    ASSUME IInv, NEW c \in Calls, MakeChan(c)
    PROVE  IInv'
  <1> DEFINE op == call[c].op
             n  == Writes(op)
             r  == [call[c] EXCEPT !.pc = "write", !.left = n]
  <1>0. /\ TypeOK /\ InFlight(c) /\ call[c].pc = "make" /\ SameLinks
        /\ Register(op, c)
        /\ UNCHANGED <<hdl, net, conn, buf, addCode, verdict, fate>>
    BY DEF IInv, MakeChan, InFlight, SameLinks
  <1>1. call[c] \in CallType /\ op \in Commands /\ n \in 1..2 /\ n \in 0..2
    BY <1>0 DEF TypeOK, CallType, Commands, Writes
  <1>9. call' = [call EXCEPT ![c] = r]
    BY <1>0 DEF TypeOK, MakeChan
  <1> HIDE DEF n
  <1>2. r \in CallType /\ r.pc = "write" /\ r.op = op /\ r.left \in 1..2
    BY <1>1 DEF CallType, CallPCs
  <1> HIDE DEF r
  <1>3. /\ call' \in [Calls -> CallType] /\ Others(c) /\ call'[c].pc = "write"
        /\ call'[c].op = call[c].op /\ call'[c].left \in 1..2
    BY <1>0, <1>9, <1>2, CallUpdate
  <1>4. TypeOK'
    <2>1. chanMap' \in [Commands -> Chans \cup {Nil}]
      BY <1>0, <1>1 DEF Register, TypeOK, Chans
    <2> QED BY <1>0, <1>3, <2>1 DEF TypeOK
  <1>5. LocalsInv'
    BY <1>0, <1>3 DEF IInv, LocalsInv, Others
  <1>6. OwnerInv'
    BY <1>0, <1>3, OwnerRegistered DEF IInv, OwnPCs
  <1>7. StatusInv'
    BY <1>0, <1>3, StatusKept DEF IInv, TypeOK, Moves
  <1>8. ReaderInv'
    BY <1>0, ReaderKept DEF IInv
  <1> QED BY <1>4, <1>5, <1>6, <1>7, <1>8 DEF IInv

\* delete(client.chanMap, command), in getResult and in the deferred call.
LEMMA UnregisterInv ==
    ASSUME IInv, NEW c \in Calls, InFlight(c), Unregister(call[c].op),
           call' \in [Calls -> CallType], Others(c), call'[c].op = call[c].op,
           call'[c].pc \in {"defer", "done", "sleep"},
           call'[c].pc = "sleep" => call[c].op = "QUIT",
           UNCHANGED <<hdl, net, conn, buf, addCode, verdict, fate>>
    PROVE  IInv'
  <1>1. TypeOK'
    <2>1. call[c].op \in Commands
      BY DEF IInv, TypeOK, CallType, Commands
    <2>2. chanMap' \in [Commands -> Chans \cup {Nil}]
      BY <2>1 DEF IInv, Unregister, TypeOK
    <2> QED BY <2>2 DEF IInv, TypeOK
  <1>2. LocalsInv'
    BY DEF IInv, LocalsInv, Others
  <1>3. OwnerInv'
    BY OwnerDropped DEF IInv
  <1>4. SameLinks
    BY DEF SameLinks
  <1>5. StatusInv'
    BY StatusKept DEF IInv, TypeOK, Moves
  <1>6. ReaderInv'
    BY <1>4, ReaderKept DEF IInv
  <1> QED BY <1>1, <1>2, <1>3, <1>5, <1>6 DEF IInv

LEMMA DeleteInv ==
    ASSUME IInv, NEW c \in Calls, Delete(c) \/ Defer(c)
    PROVE  IInv'
  <1>0. /\ TypeOK /\ InFlight(c) /\ Unregister(call[c].op)
        /\ UNCHANGED <<hdl, net, conn, buf, addCode, verdict, fate>>
    BY DEF IInv, Delete, Defer, InFlight
  <1>1. ASSUME NEW pc \in {"defer", "sleep"}, call' = [call EXCEPT ![c].pc = pc],
               pc = "sleep" => call[c].op = "QUIT"
        PROVE  IInv'
    BY <1>0, <1>1, GoTo, UnregisterInv DEF CallPCs
  <1>2. ASSUME NEW r \in Results, Finish(c, r)
        PROVE  IInv'
    BY <1>0, <1>2, FinishCall, UnregisterInv
  <1>3. CASE Delete(c)
    BY <1>1, <1>3 DEF Delete
  <1>4. CASE Defer(c)
    <2>1. call[c].result \in Results
      BY <1>0 DEF TypeOK, CallType
    <2>2. \/ Finish(c, call[c].result)
          \/ call' = [call EXCEPT ![c].pc = "sleep"] /\ call[c].op = "QUIT"
          \/ Finish(c, "incomplete")
      BY <1>4 DEF Defer
    <2> QED BY <1>1, <1>2, <2>1, <2>2 DEF Results
  <1> QED BY <1>3, <1>4

LEMMA WriteInv ==
    ASSUME IInv, NEW c \in Calls, Write(c)
    PROVE  IInv'
  <1> DEFINE op == call[c].op
             last == call[c].left = 1
             m == [cmd |-> op, from |-> c, last |-> last,
                   arg |-> IF op = "RADC" /\ last THEN addCode ELSE Nil]
             n  == call[c].left - 1
             pc == IF last THEN "look" ELSE "write"
             sent == [call[c] EXCEPT !.left = n, !.pc = pc]
             failed == [call[c] EXCEPT !.pc = "defer", !.result = "ioerr"]
  <1>0. /\ TypeOK /\ InFlight(c) /\ call[c].pc = "write" /\ call[c] \in CallType
        /\ UNCHANGED <<hdl, conn, chanMap, buf, addCode, verdict>>
    BY DEF IInv, Write, InFlight, TypeOK
  <1>1. call[c].left \in 1..2 /\ op \in Operations /\ last \in BOOLEAN
    BY <1>0 DEF IInv, LocalsInv, CallType
  <1>2. m \in UpMsg
    BY <1>0, <1>1 DEF UpMsg, TypeOK, Chans
  <1>3. /\ sent \in CallType /\ sent.op = op /\ sent.pc \in {"look", "write"}
        /\ sent.pc = "write" => sent.left \in 1..2
    <2>1. n \in 0..2 /\ pc \in {"look", "write"} /\ (pc = "write" => n \in 1..2)
      BY <1>1
    <2> HIDE DEF n, pc
    <2> QED BY <1>0, <2>1 DEF CallType, CallPCs
  <1>4. failed \in CallType /\ failed.op = op /\ failed.pc = "defer"
    BY <1>0 DEF CallType, CallPCs, Results
  <1>5. CASE NilConn(conn)
    <2>1. UNCHANGED <<call, net>> /\ fate' = "nilpanic"
      BY <1>5 DEF Write
    <2>2. TypeOK'
      BY <1>0, <2>1 DEF TypeOK
    <2> QED BY <1>0, <2>1, <2>2 DEF IInv, LocalsInv, OwnerInv, StatusInv,
                                    ReaderInv, InFlight, NilConn
  <1>6. CASE ~NilConn(conn)
    <2>1. conn \in Conns /\ net[conn] \in NetType /\ UNCHANGED fate
      BY <1>0, <1>6 DEF NilConn, TypeOK, Write
    <2>2. net' = net \/ net' = [net EXCEPT ![conn].up = Append(net[conn].up, m)]
      BY <1>6 DEF Write
    <2>3. net' \in [Conns -> NetType] /\ SameLinks
      <3>1. CASE net' = net
        BY <1>0, <3>1 DEF TypeOK, SameLinks
      <3>2. CASE net' = [net EXCEPT ![conn].up = Append(net[conn].up, m)]
        <4> HIDE DEF m
        <4>2. Append(net[conn].up, m) \in Seq(UpMsg)
          BY <1>2, <2>1, AppendProperties DEF NetType
        <4>1. PICK up \in Seq(UpMsg) : net' = [net EXCEPT ![conn].up = up]
          BY <3>2, <4>2
        <4> QED BY <1>0, <2>1, <4>1 DEF TypeOK, NetType, SameLinks
      <3> QED BY <2>2, <3>1, <3>2
    <2>4. call' = [call EXCEPT ![c] = sent] \/ call' = [call EXCEPT ![c] = failed]
      BY <1>0, <1>6 DEF Write, TypeOK
    <2> HIDE DEF sent, failed
    <2>5. /\ call' \in [Calls -> CallType] /\ Others(c)
          /\ call'[c].op = op /\ call'[c].pc \in {"look", "write", "defer"}
          /\ call'[c].pc = "write" => call'[c].left \in 1..2
      BY <1>0, <1>3, <1>4, <2>4, CallUpdate
    <2> QED BY <1>0, <2>1, <2>3, <2>5, CallOnly DEF Moves, TypeOK, OwnPCs
  <1> QED BY <1>5, <1>6

LEMMA RecvInv ==
    ASSUME IInv, NEW c \in Calls, Recv(c)
    PROVE  IInv'
  <1> DEFINE h   == call[c].held
             m   == Head(buf[h])
             got == Append(call[c].got, m)
  <1>0. /\ TypeOK /\ InFlight(c) /\ call[c].pc = "recv" /\ call[c] \in CallType
        /\ h # Nil /\ buf[h] # <<>> /\ SameLinks
        /\ UNCHANGED <<hdl, net, conn, chanMap, verdict, fate>>
    BY DEF IInv, Recv, InFlight, TypeOK, SameLinks
  <1>1. h \in Chans /\ buf[h] \in Seq(DownMsg) /\ m \in DownMsg
    BY <1>0 DEF CallType, TypeOK
  <1>2. buf' = [buf EXCEPT ![h] = Tail(buf[h])] /\ Tail(buf[h]) \in Seq(DownMsg)
    BY <1>0, <1>1 DEF Recv, TypeOK
  <1>3. buf' \in [Chans -> Seq(DownMsg)]
    BY <1>0, <1>1, <1>2 DEF TypeOK
  <1>4. addCode' \in Calls \cup {Nil}
    BY <1>0 DEF Recv, TypeOK
  <1>5. got \in Seq(DownMsg)
    BY <1>0, <1>1, AppendProperties DEF CallType
  <1>6. PICK pc \in {"defer", "delete", "look"}, res \in Results :
            call' = [call EXCEPT ![c].got = got, ![c].pc = pc, ![c].result = res]
    <2> DEFINE last == Len(call[c].got) + 1 = Reads(call[c].op)
               bad  == ~last /\ GivesUp(call[c].op, m)
               pc   == IF bad THEN "defer" ELSE IF last THEN "delete" ELSE "look"
               res  == IF bad THEN "nokey" ELSE IF ~last THEN "none" ELSE Outcome(m)
    <2>1. pc \in {"defer", "delete", "look"} /\ res \in Results
      BY DEF Results, Outcome
    <2>2. call' = [call EXCEPT ![c].got = got, ![c].pc = pc, ![c].result = res]
      BY <1>0 DEF Recv, TypeOK
    <2> HIDE DEF got, pc, res
    <2> QED BY <2>1, <2>2
  <1> DEFINE r == [call[c] EXCEPT !.got = got, !.pc = pc, !.result = res]
  <1> HIDE DEF got
  <1>7. call' = [call EXCEPT ![c] = r]
    BY <1>0, <1>6 DEF TypeOK
  <1>8. r \in CallType /\ r.pc = pc /\ r.op = call[c].op
    BY <1>0, <1>5, <1>6 DEF CallType, CallPCs
  <1> HIDE DEF r
  <1>9. /\ call' \in [Calls -> CallType] /\ Others(c)
        /\ call'[c].pc = pc /\ call'[c].op = call[c].op
    BY <1>0, <1>7, <1>8, CallUpdate
  <1> QED BY <1>0, <1>3, <1>4, <1>6, <1>9, CallOnly DEF Moves, TypeOK, OwnPCs

\* A connection is dialled only when there is none: no live link is abandoned.
LEMMA DialInv ==
    ASSUME IInv, NEW c \in Calls, Dial(c)
    PROVE  IInv' /\ conn = Nil
  <1>0. /\ TypeOK /\ InFlight(c) /\ call[c].pc = "dial" /\ call[c].op = "INIT"
        /\ conn = Nil /\ UNCHANGED <<chanMap, buf, addCode, verdict, fate>>
    BY DEF IInv, LocalsInv, StatusInv, Dial, InFlight
  <1>1. ASSUME conn' \notin Conns, Finish(c, "ioerr"), UNCHANGED <<hdl, net>>,
               conn' = TypedNil
        PROVE  IInv'
    <2>1. /\ call' \in [Calls -> CallType] /\ Others(c)
          /\ call'[c].pc = "done" /\ call'[c].op = call[c].op
      BY <1>0, <1>1, FinishCall DEF Results
    <2>2. TypeOK'
      BY <1>0, <1>1, <2>1 DEF TypeOK
    <2>3. LocalsInv'
      BY <1>1, <2>1 DEF IInv, LocalsInv, Others
    <2>4. OwnerInv'
      BY <1>0, <1>1, <2>1, OwnerKept DEF IInv, OwnPCs
    <2>5. StatusInv'
      <3>1. \A d \in Calls : d # c => call'[d] = call[d]
        BY <2>1 DEF Others
      <3>2. ASSUME NEW d \in Calls, d # c, InFlight(d)
            PROVE  call[d].op \notin StatusOps
        BY <1>0, <3>2 DEF IInv, StatusInv, StatusOps
      <3>3. ASSUME NEW d \in Calls, InFlight(d)'
            PROVE  d # c /\ InFlight(d) /\ call'[d] = call[d]
        BY <2>1, <3>1, <3>3 DEF InFlight
      <3>4. \A d \in Calls : call'[d].pc \notin {"dial", "clear"}
        <4> SUFFICES ASSUME NEW d \in Calls, call'[d].pc \in {"dial", "clear"}
                     PROVE  FALSE
          OBVIOUS
        <4>1. d # c /\ InFlight(d) /\ call'[d] = call[d]
          BY <3>3 DEF InFlight
        <4>2. call[d].op \in StatusOps
          BY <4>1 DEF IInv, LocalsInv, StatusOps
        <4> QED BY <3>2, <4>1, <4>2
      <3> QED BY <3>2, <3>3, <3>4 DEF StatusInv
    <2>6. ReaderInv'
      BY <1>0, <1>1, ClientAssumption DEF IInv, ReaderInv, Conns
    <2> QED BY <2>2, <2>3, <2>4, <2>5, <2>6 DEF IInv
  <1>2. ASSUME conn' = c, hdl' = [hdl EXCEPT ![c].pc = "top"],
               net' = [net EXCEPT ![c].link = "open"],
               call' = [call EXCEPT ![c].pc = "make"]
        PROVE  IInv'
    <2>1. /\ call' \in [Calls -> CallType] /\ Others(c)
          /\ call'[c].pc = "make" /\ call'[c].op = call[c].op
      BY <1>0, <1>2, GoTo DEF CallPCs
    <2>2. /\ hdl' \in [Conns -> HdlType] /\ OtherHdl(c) /\ hdl'[c].pc = "top"
          /\ hdl'[c].msg = hdl[c].msg
      BY <1>0, <1>2 DEF TypeOK, HdlType, HdlPCs, Conns, OtherHdl
    <2>3. /\ net' \in [Conns -> NetType] /\ net'[c].link = "open"
          /\ \A k \in Conns \ {c} : net'[k] = net[k]
      BY <1>0, <1>2 DEF TypeOK, NetType, Links, Conns
    <2>4. TypeOK'
      BY <1>0, <1>2, <2>1, <2>2, <2>3 DEF TypeOK, Conns
    <2>5. LocalsInv'
      BY <2>1, <2>2 DEF IInv, LocalsInv, Others, OtherHdl
    <2>6. \A k \in Conns : hdl[k].pc \in {"none", "read", "exited"}
      BY <1>0, ClientAssumption DEF IInv, ReaderInv, Conns
    <2>7. OwnerInv'
      BY <1>0, <2>1, <2>2, <2>6 DEF IInv, OwnerInv, Others, OtherHdl
    <2>8. StatusInv'
      <3>1. \A d \in Calls : d # c => call'[d] = call[d]
        BY <2>1 DEF Others
      <3>2. ASSUME NEW d \in Calls, d # c, InFlight(d)
            PROVE  call[d].op \notin StatusOps
        BY <1>0, <3>2 DEF IInv, StatusInv, StatusOps
      <3>3. \A d \in Calls : InFlight(d)' => InFlight(d)
        BY <1>0, <3>1 DEF InFlight
      <3>4. \A d \in Calls : call'[d].pc \notin {"dial", "clear"}
        <4> SUFFICES ASSUME NEW d \in Calls, call'[d].pc \in {"dial", "clear"}
                     PROVE  FALSE
          OBVIOUS
        <4>1. d # c /\ InFlight(d) /\ call'[d] = call[d]
          BY <2>1, <3>1 DEF InFlight
        <4>2. call[d].op \in StatusOps
          BY <4>1 DEF IInv, LocalsInv, StatusOps
        <4> QED BY <3>2, <4>1, <4>2
      <3>5. ASSUME NEW d \in Calls, NEW e \in Calls, InFlight(d)', InFlight(e)',
                   {call'[d].op, call'[e].op} \subseteq StatusOps
            PROVE  d = e
        BY <3>1, <3>2, <3>3, <3>5
      <3> QED BY <3>4, <3>5 DEF StatusInv
    <2>9. ReaderInv'
      <3>1. ASSUME NEW k \in Conns, hdl'[k].pc = "read"
            PROVE  /\ hdl'[k].conn = k
                   /\ net'[k].link = "closed" \/ conn' = k
        BY <1>0, <2>2, <2>3, <3>1, ClientAssumption
           DEF IInv, ReaderInv, OtherHdl, Conns
      <3>2. ASSUME NEW k \in Conns, hdl'[k].pc \notin {"none", "read", "exited"}
            PROVE  conn' = k /\ net'[k].link # "closed"
        BY <1>2, <2>2, <2>3, <2>6, <3>2 DEF OtherHdl
      <3> QED BY <3>1, <3>2 DEF ReaderInv
    <2> QED BY <2>4, <2>5, <2>7, <2>8, <2>9 DEF IInv
  <1> QED BY <1>0, <1>1, <1>2, ClientAssumption DEF Dial, Conns

LEMMA CloseInv ==
    ASSUME IInv, NEW c \in Calls, Close(c)
    PROVE  IInv'
  <1>0. /\ TypeOK /\ InFlight(c) /\ call[c].pc = "sleep" /\ call[c].op = "QUIT"
        /\ \A k \in Conns : hdl[k].pc \in {"none", "read", "exited"}
        /\ UNCHANGED <<hdl, conn, chanMap, buf, addCode, verdict>>
    BY DEF IInv, LocalsInv, Close, InFlight, Slept
  <1>1. CASE NilConn(conn)
    <2>1. UNCHANGED <<call, net>> /\ fate' = "nilpanic"
      BY <1>1 DEF Close
    <2>2. TypeOK'
      BY <1>0, <2>1 DEF TypeOK
    <2> QED BY <1>0, <2>1, <2>2 DEF IInv, LocalsInv, OwnerInv, StatusInv,
                                    ReaderInv, InFlight, NilConn
  <1>2. CASE ~NilConn(conn)
    <2>1. /\ conn \in Conns /\ UNCHANGED fate
          /\ net' = [net EXCEPT ![conn].link = "closed"]
      BY <1>0, <1>2 DEF NilConn, TypeOK, Close
    <2>2. /\ net' \in [Conns -> NetType] /\ net'[conn].link = "closed"
          /\ \A k \in Conns \ {conn} : net'[k] = net[k]
      BY <1>0, <2>1 DEF TypeOK, NetType, Links
    <2>3. /\ call' \in [Calls -> CallType] /\ Others(c)
          /\ call'[c].pc \in {"clear", "done"} /\ call'[c].op = call[c].op
      <3>1. call' = [call EXCEPT ![c].pc = "clear"] \/ Finish(c, "ioerr")
        BY <1>2 DEF Close
      <3> QED BY <1>0, <3>1, GoTo, FinishCall DEF CallPCs, Results
    <2>4. TypeOK'
      BY <1>0, <2>1, <2>2, <2>3 DEF TypeOK
    <2>5. LocalsInv'
      BY <1>0, <2>3 DEF IInv, LocalsInv, Others
    <2>6. OwnerInv'
      BY <1>0, <2>3, OwnerKept DEF IInv, OwnPCs
    <2>7. StatusInv'
      <3>1. \A k \in Conns : net[k].link = "closed" => net'[k].link = "closed"
        BY <2>2
      <3>2. ~NilConn(conn)' /\ net'[conn'].link = "closed"
        BY <1>0, <1>2, <2>2 DEF NilConn
      <3>3. \A d \in Calls : d # c => call'[d] = call[d]
        BY <2>3 DEF Others
      <3>4. \A d \in Calls : InFlight(d)' => InFlight(d) /\ call'[d].op = call[d].op
        BY <1>0, <2>3, <3>3 DEF InFlight
      <3>5. \A d \in Calls : /\ call'[d].pc = "dial" => conn' = Nil
                             /\ call'[d].pc = "clear" =>
                                    ~NilConn(conn') /\ net'[conn'].link = "closed"
        BY <1>0, <2>3, <3>2, <3>3 DEF IInv, StatusInv, NilConn
      <3>6. ASSUME NEW d \in Calls, NEW e \in Calls, InFlight(d)', InFlight(e)',
                   {call'[d].op, call'[e].op} \subseteq StatusOps
            PROVE  d = e
        BY <3>4, <3>6 DEF IInv, StatusInv
      <3> QED BY <3>5, <3>6 DEF StatusInv, NilConn
    <2>8. ReaderInv'
      BY <1>0, <2>2 DEF IInv, ReaderInv
    <2> QED BY <2>4, <2>5, <2>6, <2>7, <2>8 DEF IInv
  <1> QED BY <1>1, <1>2

\* client.conn is cleared only after it was closed.
LEMMA ClearInv ==
    ASSUME IInv, NEW c \in Calls, Clear(c)
    PROVE  IInv' /\ net[conn].link = "closed"
  <1>0. /\ TypeOK /\ InFlight(c) /\ call[c].pc = "clear" /\ call[c].op = "QUIT"
        /\ ~NilConn(conn) /\ net[conn].link = "closed" /\ conn' = Nil
        /\ UNCHANGED <<hdl, net, chanMap, buf, addCode, verdict, fate>>
    BY DEF IInv, LocalsInv, StatusInv, Clear, InFlight
  <1>1. /\ call' \in [Calls -> CallType] /\ Others(c)
        /\ call'[c].pc = "done" /\ call'[c].op = call[c].op
    BY <1>0, FinishCall DEF Clear, Results
  <1>2. TypeOK'
    BY <1>0, <1>1 DEF TypeOK
  <1>3. LocalsInv'
    BY <1>0, <1>1 DEF IInv, LocalsInv, Others
  <1>4. OwnerInv'
    BY <1>0, <1>1, OwnerKept DEF IInv, OwnPCs
  <1>5. StatusInv'
    <2>1. \A d \in Calls : d # c => call'[d] = call[d]
      BY <1>1 DEF Others
    <2>2. ASSUME NEW d \in Calls, d # c, InFlight(d)
          PROVE  call[d].op \notin StatusOps
      BY <1>0, <2>2 DEF IInv, StatusInv, StatusOps
    <2>3. ASSUME NEW d \in Calls, InFlight(d)'
          PROVE  d # c /\ InFlight(d) /\ call'[d] = call[d]
      BY <1>1, <2>1, <2>3 DEF InFlight
    <2>4. \A d \in Calls : call'[d].pc # "clear"
      <3> SUFFICES ASSUME NEW d \in Calls, call'[d].pc = "clear" PROVE FALSE
        OBVIOUS
      <3>1. d # c /\ InFlight(d) /\ call'[d] = call[d]
        BY <2>3 DEF InFlight
      <3>2. call[d].op \in StatusOps
        BY <3>1 DEF IInv, LocalsInv, StatusOps
      <3> QED BY <2>2, <3>1, <3>2
    <2>5. ASSUME NEW d \in Calls, NEW e \in Calls, InFlight(d)', InFlight(e)',
                 {call'[d].op, call'[e].op} \subseteq StatusOps
          PROVE  d = e
      BY <2>2, <2>3, <2>5
    <2> QED BY <1>0, <2>4, <2>5 DEF StatusInv
  <1>6. ReaderInv'
    <2>1. conn \in Conns
      BY <1>0 DEF TypeOK, NilConn
    <2> QED BY <1>0, <2>1 DEF IInv, ReaderInv
  <1> QED BY <1>0, <1>2, <1>3, <1>4, <1>5, <1>6 DEF IInv

-----------------------------------------------------------------------------
(* The steps of a handler.                                                  *)

LEMMA HdlUpdate ==
    ASSUME TypeOK, NEW k \in Conns, NEW r \in HdlType,
           hdl' = [hdl EXCEPT ![k] = r]
    PROVE  hdl' \in [Conns -> HdlType] /\ hdl'[k] = r /\ OtherHdl(k)
  BY DEF TypeOK, OtherHdl

\* A step that changes only where the handler stands.
LEMMA HdlOnly ==
    ASSUME IInv, NEW k \in Conns, OtherHdl(k), hdl' \in [Conns -> HdlType],
           UNCHANGED <<call, conn, chanMap, addCode, verdict, fate>>, SameLinks,
           net' \in [Conns -> NetType], buf' \in [Chans -> Seq(DownMsg)],
           hdl[k].pc \in {"pubwrite", "pubdelete"} =>
               /\ hdl'[k].pc \in {"pubwrite", "pubdelete"}
               /\ hdl'[k].msg = hdl[k].msg,
           hdl'[k].pc = "read" => /\ hdl'[k].conn = k
                                  /\ net[k].link = "closed" \/ conn = k,
           hdl'[k].pc \notin {"none", "read", "exited"} =>
               conn = k /\ net[k].link # "closed",
           hdl'[k].pc \in {"got", "send", "pubmake", "pubwrite", "pubdelete"}
               => hdl'[k].msg \in DownMsg,
           hdl'[k].pc = "send" => hdl'[k].chan \in Chans
    PROVE  IInv'
  <1>1. TypeOK'
    BY DEF IInv, TypeOK
  <1>2. LocalsInv'
    BY DEF IInv, LocalsInv, OtherHdl
  <1>3. OwnerInv'
    BY OwnerKeptByHandler DEF IInv
  <1>4. StatusInv'
    BY StatusKeptByHandler DEF IInv
  <1>5. ReaderInv'
    BY ReaderKeptByHandler DEF IInv
  <1> QED BY <1>1, <1>2, <1>3, <1>4, <1>5 DEF IInv

\* A step that only ends the process.
LEMMA FateOnly ==
    ASSUME IInv, UNCHANGED <<call, hdl, net, conn, chanMap, buf, addCode, verdict>>,
           fate' \in {"running", "nilpanic", "mapfault", "indexpanic", "exited"}
    PROVE  IInv'
  <1>1. TypeOK'
    BY DEF IInv, TypeOK
  <1> QED BY <1>1 DEF IInv, LocalsInv, OwnerInv, StatusInv, ReaderInv, InFlight,
                      NilConn

LEMMA HTopInv ==
    ASSUME IInv, NEW k \in Conns, HTop(k)
    PROVE  IInv'
  <1>0. /\ TypeOK /\ hdl[k].pc = "top" /\ hdl[k] \in HdlType
        /\ conn = k /\ net[k].link # "closed"
        /\ UNCHANGED <<call, net, conn, chanMap, buf, addCode, verdict>>
    BY DEF IInv, ReaderInv, TypeOK, HTop, HandlerUnchanged
  <1>1. ~NilConn(conn)
    BY <1>0, ClientAssumption DEF NilConn, Conns
  <1> DEFINE r == [hdl[k] EXCEPT !.pc = "read", !.conn = k]
  <1>2. hdl' = [hdl EXCEPT ![k] = r] /\ UNCHANGED fate
    BY <1>0, <1>1 DEF HTop, TypeOK
  <1>3. r \in HdlType /\ r.pc = "read" /\ r.conn = k
    BY <1>0 DEF HdlType, HdlPCs
  <1> HIDE DEF r
  <1>4. hdl' \in [Conns -> HdlType] /\ hdl'[k] = r /\ OtherHdl(k)
    BY <1>0, <1>2, <1>3, HdlUpdate
  <1> QED BY <1>0, <1>2, <1>3, <1>4, HdlOnly DEF SameLinks, TypeOK

LEMMA HReadInv ==
    ASSUME IInv, NEW k \in Conns, HRead(k)
    PROVE  IInv'
  <1>0. /\ TypeOK /\ hdl[k].pc = "read" /\ hdl[k].conn = k /\ net[k] \in NetType
        /\ net[k].link # "closed" /\ conn = k /\ net[k].down # <<>>
        /\ hdl[k] \in HdlType
        /\ UNCHANGED <<call, conn, chanMap, buf, addCode, verdict, fate>>
    BY DEF IInv, ReaderInv, TypeOK, HRead, HandlerUnchanged
  <1> DEFINE m == Head(net[k].down)
             d == Tail(net[k].down)
             r == [hdl[k] EXCEPT !.pc = "got", !.msg = m]
  <1>1. m \in DownMsg /\ d \in Seq(DownMsg)
    BY <1>0 DEF NetType
  <1>2. hdl' = [hdl EXCEPT ![k] = r] /\ net' = [net EXCEPT ![k].down = d]
    BY <1>0 DEF HRead, TypeOK
  <1> HIDE DEF m, d
  <1>3. r \in HdlType /\ r.pc = "got" /\ r.msg = m
    BY <1>0, <1>1 DEF HdlType, HdlPCs
  <1> HIDE DEF r
  <1>4. hdl' \in [Conns -> HdlType] /\ hdl'[k] = r /\ OtherHdl(k)
    BY <1>0, <1>2, <1>3, HdlUpdate
  <1>5. net' \in [Conns -> NetType] /\ SameLinks
    BY <1>0, <1>1, <1>2 DEF TypeOK, NetType, SameLinks
  <1> QED BY <1>0, <1>1, <1>3, <1>4, <1>5, HdlOnly DEF TypeOK

\* The handler moves on within a round, or leaves the loop.
LEMMA HMoveInv ==
    ASSUME IInv, NEW k \in Conns, HExit(k) \/ HDispatch(k) \/ HSend(k)
    PROVE  IInv'
  <1>0. /\ TypeOK /\ hdl[k] \in HdlType
        /\ UNCHANGED <<call, net, conn, chanMap, addCode, verdict, fate>>
        /\ hdl[k].pc \in {"read", "got", "send"}
    BY DEF IInv, TypeOK, HExit, HDispatch, HSend, HandlerUnchanged
  <1>1. SameLinks
    BY <1>0 DEF SameLinks
  <1>2. ASSUME NEW r \in HdlType, hdl' = [hdl EXCEPT ![k] = r],
               r.pc \in {"exited", "send", "pubmake", "top"},
               r.pc # "exited" => hdl[k].pc \in {"got", "send"},
               r.pc \in {"send", "pubmake"} => r.msg \in DownMsg,
               r.pc = "send" => r.chan \in Chans,
               buf' \in [Chans -> Seq(DownMsg)]
        PROVE  IInv'
    <2>1. hdl' \in [Conns -> HdlType] /\ hdl'[k] = r /\ OtherHdl(k)
      BY <1>0, <1>2, HdlUpdate
    <2>2. r.pc # "exited" => conn = k /\ net[k].link # "closed"
      BY <1>2 DEF IInv, ReaderInv
    <2> QED BY <1>0, <1>1, <1>2, <2>1, <2>2, HdlOnly DEF TypeOK
  <1>3. CASE HExit(k)
    <2> DEFINE r == [hdl[k] EXCEPT !.pc = "exited"]
    <2>1. hdl' = [hdl EXCEPT ![k] = r] /\ UNCHANGED buf
      BY <1>0, <1>3 DEF HExit, TypeOK
    <2>2. r \in HdlType /\ r.pc = "exited"
      BY <1>0 DEF HdlType, HdlPCs
    <2> HIDE DEF r
    <2> QED BY <1>0, <1>2, <2>1, <2>2 DEF TypeOK
  <1>4. CASE HDispatch(k)
    <2> DEFINE m == hdl[k].msg
               h == chanMap[m.cmd]
    <2>1. m \in DownMsg /\ hdl[k].pc = "got" /\ UNCHANGED buf
      BY <1>4 DEF IInv, LocalsInv, HDispatch
    <2>2. h \in Chans \cup {Nil}
      BY <1>0, <2>1 DEF TypeOK, DownMsg
    <2>3. CASE h # Nil
      <3> DEFINE r == [hdl[k] EXCEPT !.pc = "send", !.chan = h]
      <3>1. hdl' = [hdl EXCEPT ![k] = r]
        BY <1>0, <1>4, <2>3 DEF HDispatch, TypeOK
      <3>2. r \in HdlType /\ r.pc = "send" /\ r.chan \in Chans /\ r.msg \in DownMsg
        BY <1>0, <2>1, <2>2, <2>3 DEF HdlType, HdlPCs
      <3> HIDE DEF r
      <3> QED BY <1>0, <1>2, <2>1, <3>1, <3>2 DEF TypeOK
    <2>4. CASE h = Nil /\ m.cmd = "GPUB"
      <3> DEFINE r == [hdl[k] EXCEPT !.pc = "pubmake"]
      <3>1. hdl' = [hdl EXCEPT ![k] = r]
        BY <1>0, <1>4, <2>4 DEF HDispatch, TypeOK
      <3>2. r \in HdlType /\ r.pc = "pubmake" /\ r.msg \in DownMsg
        BY <1>0, <2>1 DEF HdlType, HdlPCs
      <3> HIDE DEF r
      <3> QED BY <1>0, <1>2, <2>1, <3>1, <3>2 DEF TypeOK
    <2>5. CASE h = Nil /\ m.cmd # "GPUB"
      <3> DEFINE r == [hdl[k] EXCEPT !.pc = "top", !.msg = Nil]
      <3>1. hdl' = [hdl EXCEPT ![k] = r]
        BY <1>0, <1>4, <2>5 DEF HDispatch, TypeOK
      <3>2. r \in HdlType /\ r.pc = "top"
        BY <1>0 DEF HdlType, HdlPCs
      <3> HIDE DEF r
      <3> QED BY <1>0, <1>2, <2>1, <3>1, <3>2 DEF TypeOK
    <2> QED BY <2>3, <2>4, <2>5
  <1>5. CASE HSend(k)
    <2> DEFINE h == hdl[k].chan
               b == Append(buf[h], hdl[k].msg)
               r == [hdl[k] EXCEPT !.pc = "top", !.msg = Nil, !.chan = Nil]
    <2>1. hdl[k].pc = "send" /\ h \in Chans /\ hdl[k].msg \in DownMsg
      BY <1>5 DEF IInv, LocalsInv, HSend
    <2>2. b \in Seq(DownMsg)
      BY <1>0, <2>1, AppendProperties DEF TypeOK
    <2>3. buf' = [buf EXCEPT ![h] = b] /\ hdl' = [hdl EXCEPT ![k] = r]
      BY <1>0, <1>5 DEF HSend, TypeOK
    <2>4. r \in HdlType /\ r.pc = "top"
      BY <1>0 DEF HdlType, HdlPCs
    <2> HIDE DEF r, b
    <2>5. buf' \in [Chans -> Seq(DownMsg)]
      BY <1>0, <2>1, <2>2, <2>3 DEF TypeOK
    <2> QED BY <1>2, <2>1, <2>3, <2>4, <2>5
  <1> QED BY <1>3, <1>4, <1>5

LEMMA HPubInv ==
    ASSUME IInv, NEW k \in Conns, HPubMake(k) \/ HPubWrite(k) \/ HPubDelete(k)
    PROVE  IInv'
  <1>0. /\ TypeOK /\ hdl[k] \in HdlType /\ hdl[k].msg \in DownMsg
        /\ hdl[k].msg.to \in Chans /\ conn = k /\ net[k].link # "closed"
        /\ hdl[k].pc \in {"pubmake", "pubwrite", "pubdelete"}
        /\ UNCHANGED <<call, conn, buf, addCode, verdict>>
    BY DEF IInv, TypeOK, LocalsInv, ReaderInv, DownMsg, HPubMake, HPubWrite,
           HPubDelete, HandlerUnchanged
  <1>1. ~NilConn(conn)
    BY <1>0, ClientAssumption DEF NilConn, Conns
  <1>2. ASSUME NEW r \in HdlType, hdl' = [hdl EXCEPT ![k] = r]
        PROVE  hdl' \in [Conns -> HdlType] /\ hdl'[k] = r /\ OtherHdl(k)
    BY <1>0, <1>2, HdlUpdate
  <1>3. CASE HPubWrite(k)
    <2> DEFINE m == [cmd |-> PubKeyCommand, from |-> hdl[k].msg.to, last |-> TRUE,
                     arg |-> Nil]
               up == Append(net[k].up, m)
               r  == [hdl[k] EXCEPT !.pc = "pubdelete"]
    <2>1. m \in UpMsg
      BY <1>0 DEF UpMsg, PubKeyCommand, Operations
    <2> HIDE DEF m
    <2>2. up \in Seq(UpMsg)
      BY <1>0, <2>1, AppendProperties DEF TypeOK, NetType
    <2>3. net' = net \/ net' = [net EXCEPT ![k].up = up]
      BY <1>0, <1>1, <1>3 DEF HPubWrite, m
    <2>4. hdl' = [hdl EXCEPT ![k] = r] /\ UNCHANGED <<chanMap, fate>>
      BY <1>0, <1>1, <1>3 DEF HPubWrite, TypeOK
    <2>5. r \in HdlType /\ r.pc = "pubdelete" /\ r.msg = hdl[k].msg
      BY <1>0 DEF HdlType, HdlPCs
    <2> HIDE DEF up, r
    <2>6. hdl' \in [Conns -> HdlType] /\ hdl'[k] = r /\ OtherHdl(k)
      BY <1>2, <2>4, <2>5
    <2>7. net' \in [Conns -> NetType] /\ SameLinks
      <3>1. CASE net' = net
        BY <1>0, <3>1 DEF TypeOK, SameLinks
      <3>2. CASE net' = [net EXCEPT ![k].up = up]
        BY <1>0, <2>2, <3>2 DEF TypeOK, NetType, SameLinks
      <3> QED BY <2>3, <3>1, <3>2
    <2> QED BY <1>0, <2>4, <2>5, <2>6, <2>7, HdlOnly DEF TypeOK
  <1>4. CASE HPubMake(k) \/ HPubDelete(k)
    <2>1. UNCHANGED <<net, fate>> /\ SameLinks
      BY <1>4 DEF HPubMake, HPubDelete, SameLinks
    <2>2. PICK r \in HdlType :
              /\ hdl' = [hdl EXCEPT ![k] = r]
              /\ \/ /\ r.pc = "pubwrite" /\ r.msg = hdl[k].msg
                    /\ hdl[k].pc = "pubmake"
                    /\ Register(PubKeyCommand, hdl[k].msg.to)
                 \/ /\ r.pc = "top"
                    /\ Unregister(PubKeyCommand)
      <3>1. CASE HPubMake(k)
        <4> DEFINE r == [hdl[k] EXCEPT !.pc = "pubwrite"]
        <4>1. r \in HdlType /\ r.pc = "pubwrite" /\ r.msg = hdl[k].msg
          BY <1>0 DEF HdlType, HdlPCs
        <4>2. hdl' = [hdl EXCEPT ![k] = r]
          BY <1>0, <3>1 DEF HPubMake, TypeOK
        <4> HIDE DEF r
        <4> QED BY <3>1, <4>1, <4>2 DEF HPubMake
      <3>2. CASE HPubDelete(k)
        <4> DEFINE r == [hdl[k] EXCEPT !.pc = "top", !.msg = Nil]
        <4>1. r \in HdlType /\ r.pc = "top"
          BY <1>0 DEF HdlType, HdlPCs
        <4>2. hdl' = [hdl EXCEPT ![k] = r]
          BY <1>0, <3>2 DEF HPubDelete, TypeOK
        <4> HIDE DEF r
        <4> QED BY <3>2, <4>1, <4>2 DEF HPubDelete
      <3> QED BY <1>4, <3>1, <3>2
    <2>3. hdl' \in [Conns -> HdlType] /\ hdl'[k] = r /\ OtherHdl(k)
      BY <1>2, <2>2
    <2>4. PubKeyCommand \in Commands
      BY DEF PubKeyCommand, Commands, Operations
    <2>5. TypeOK'
      <3>1. chanMap' \in [Commands -> Chans \cup {Nil}]
        BY <1>0, <2>2, <2>4 DEF TypeOK, Register, Unregister
      <3> QED BY <1>0, <2>1, <2>3, <3>1 DEF TypeOK
    <2>6. LocalsInv'
      BY <1>0, <2>2, <2>3 DEF IInv, LocalsInv, OtherHdl
    <2>7. OwnerInv'
      <3> SUFFICES ASSUME NEW m \in Commands, chanMap'[m] # Nil
                   PROVE  \/ /\ chanMap'[m] \in Calls
                             /\ call'[chanMap'[m]].pc \in OwnPCs
                             /\ call'[chanMap'[m]].op = m
                          \/ \E j \in Conns :
                                /\ hdl'[j].pc \in {"pubwrite", "pubdelete"}
                                /\ hdl'[j].msg.to = chanMap'[m]
                                /\ m = PubKeyCommand
        BY DEF OwnerInv, OwnPCs
      <3>1. CASE m = PubKeyCommand
        <4>1. chanMap'[m] = hdl[k].msg.to /\ r.pc = "pubwrite" /\ r.msg = hdl[k].msg
          BY <1>0, <2>2, <2>4, <3>1 DEF Register, Unregister, TypeOK
        <4> QED BY <2>3, <3>1, <4>1
      <3>2. CASE m # PubKeyCommand
        <4>1. chanMap'[m] = chanMap[m]
          BY <1>0, <2>2, <3>2 DEF Register, Unregister, TypeOK
        <4> QED BY <1>0, <3>2, <4>1 DEF IInv, OwnerInv, OwnPCs
      <3> QED BY <3>1, <3>2
    <2>8. StatusInv'
      BY <1>0, <2>1, StatusKeptByHandler DEF IInv
    <2>9. ReaderInv'
      BY <1>0, <2>1, <2>2, <2>3, ReaderKeptByHandler DEF IInv
    <2> QED BY <2>5, <2>6, <2>7, <2>8, <2>9 DEF IInv
  <1> QED BY <1>3, <1>4

-----------------------------------------------------------------------------
(* The server and the network: a link is never closed or reopened by them.  *)

LEMMA NetOnly ==
    ASSUME IInv, NEW k \in Conns, net[k].link = "open",
           UNCHANGED <<call, hdl, conn, chanMap, buf, addCode, fate>>,
           verdict' \in [Chans -> {"none", "ok", "fail"}],
           NEW r \in NetType, net' = [net EXCEPT ![k] = r], r.link # "closed"
    PROVE  IInv'
  <1>1. /\ net' \in [Conns -> NetType] /\ net'[k] = r
        /\ \A j \in Conns \ {k} : net'[j] = net[j]
    BY DEF IInv, TypeOK
  <1>2. TypeOK'
    BY <1>1 DEF IInv, TypeOK
  <1>3. ~NilConn(conn) => conn \in Conns
    BY DEF IInv, TypeOK, NilConn
  <1>4. \A j \in Conns : net'[j].link = "closed" <=> net[j].link = "closed"
    BY <1>1
  <1>5. StatusInv'
    BY <1>3, <1>4 DEF IInv, StatusInv, InFlight, NilConn
  <1>6. ReaderInv'
    BY <1>4 DEF IInv, ReaderInv
  <1> QED BY <1>2, <1>5, <1>6 DEF IInv, LocalsInv, OwnerInv

LEMMA EnvInv ==
    ASSUME IInv, NEW k \in Conns, EnvStep(k)
    PROVE  IInv'
  <1>0. TypeOK /\ net[k] \in NetType
    BY DEF IInv, TypeOK
  <1>1. CASE SrvServe(k)
    <2> DEFINE m == Head(net[k].up)
               c == m.from
    <2>0. net[k].up \in Seq(UpMsg) /\ net[k].up # <<>>
      BY <1>0, <1>1 DEF SrvServe, NetType
    <2>1. /\ net[k].link = "open" /\ m \in UpMsg /\ Tail(net[k].up) \in Seq(UpMsg)
          /\ UNCHANGED <<call, hdl, conn, chanMap, buf, addCode, fate>>
      <3>1. m \in UpMsg /\ Tail(net[k].up) \in Seq(UpMsg)
        BY <2>0, HeadTailProperties
      <3> QED BY <1>1, <3>1 DEF SrvServe
    <2>2. CASE ~m.last \/ c \in PubReqs
      <3> DEFINE r == [net[k] EXCEPT !.up = Tail(net[k].up)]
      <3>1. net' = [net EXCEPT ![k] = r] /\ UNCHANGED verdict
        BY <1>0, <1>1, <2>2 DEF SrvServe, TypeOK
      <3>2. r \in NetType /\ r.link # "closed"
        BY <1>0, <2>1 DEF NetType
      <3> HIDE DEF r
      <3> QED BY <1>0, <2>1, <3>1, <3>2, NetOnly DEF TypeOK
    <2>3. CASE ~(~m.last \/ c \in PubReqs)
      <3>1. c \in Calls /\ m.cmd \in Operations
        BY <2>1, <2>3 DEF UpMsg, Chans
      <3>2. PICK ok \in BOOLEAN :
              /\ verdict' = [verdict EXCEPT ![c] = IF ok THEN "ok" ELSE "fail"]
              /\ net' = [net EXCEPT
                     ![k].up = Tail(@),
                     ![k].down = @ \o Answer(c, m.cmd, ok),
                     ![k].link = IF ok /\ m.cmd = "QUIT" THEN "lost" ELSE @,
                     ![k].code = IF ok /\ m.cmd = "GADC" THEN c
                                 ELSE IF ok /\ m.cmd = "RADC" THEN Nil ELSE @]
        BY <1>1, <2>3 DEF SrvServe
      <3> DEFINE up   == Tail(net[k].up)
                 down == net[k].down \o Answer(c, m.cmd, ok)
                 link == IF ok /\ m.cmd = "QUIT" THEN "lost" ELSE net[k].link
                 code == IF ok /\ m.cmd = "GADC" THEN c
                         ELSE IF ok /\ m.cmd = "RADC" THEN Nil ELSE net[k].code
      <3>3. net' = [net EXCEPT ![k].up = up, ![k].down = down, ![k].link = link,
                               ![k].code = code]
        BY <1>0, <3>2 DEF TypeOK, NetType
      <3>4. down \in Seq(DownMsg)
        <4>1. Answer(c, m.cmd, ok) \in Seq(DownMsg)
          <5> DEFINE v == Reply(c, m.cmd, IF ok THEN "value" ELSE "junk")
                     w == Reply(c, m.cmd, IF ok THEN "ok" ELSE "fail")
          <5> HIDE DEF m, c
          <5>1. v \in DownMsg /\ w \in DownMsg
            BY <3>1 DEF Reply, DownMsg, Commands, Chans, Bodies
          <5>2. Answer(c, m.cmd, ok) = <<>> \o <<w>> \/ Answer(c, m.cmd, ok) = <<v>> \o <<w>>
            BY DEF Answer
          <5> HIDE DEF v, w
          <5>3. <<w>> \in Seq(DownMsg) /\ <<v>> \in Seq(DownMsg) /\ <<>> \in Seq(DownMsg)
            BY <5>1
          <5> QED BY <5>2, <5>3, ConcatProperties
        <4> QED BY <1>0, <4>1, ConcatProperties DEF NetType
      <3>5. link \in Links /\ link # "closed" /\ code \in Calls \cup {Nil}
        BY <1>0, <2>1, <3>1 DEF NetType, Links
      <3>6. up \in Seq(UpMsg)
        BY <2>1
      <3> HIDE DEF up, down, link, code
      <3> DEFINE r == [net[k] EXCEPT !.up = up, !.down = down, !.link = link,
                                     !.code = code]
      <3>9. net' = [net EXCEPT ![k] = r]
        BY <1>0, <3>3 DEF TypeOK
      <3>7. r \in NetType /\ r.link # "closed"
        BY <1>0, <3>4, <3>5, <3>6 DEF NetType
      <3> HIDE DEF r
      <3>8. verdict' \in [Chans -> {"none", "ok", "fail"}]
        BY <1>0, <3>1, <3>2 DEF TypeOK, Chans
      <3> QED BY <2>1, <3>7, <3>8, <3>9, NetOnly
    <2> QED BY <2>2, <2>3
  <1>2. CASE Lose(k)
    <2> DEFINE e == <<>>
               r == [net[k] EXCEPT !.link = "lost", !.up = e, !.down = e]
    <2>0. e \in Seq(UpMsg) /\ e \in Seq(DownMsg)
      OBVIOUS
    <2>3. net' = [net EXCEPT ![k].link = "lost", ![k].up = e, ![k].down = e]
      BY <1>2 DEF Lose
    <2> HIDE DEF e
    <2>1. net' = [net EXCEPT ![k] = r] /\ net[k].link = "open"
      BY <1>0, <1>2, <2>3 DEF Lose, TypeOK
    <2>2. r \in NetType /\ r.link # "closed"
      BY <1>0, <2>0 DEF NetType, Links
    <2> HIDE DEF r
    <2> QED BY <1>0, <1>2, <2>1, <2>2, NetOnly DEF Lose, TypeOK
  <1>3. ASSUME NEW p \in PubReqs, SrvPush(k, p)
        PROVE  IInv'
    <2> DEFINE m == [cmd |-> "GPUB", to |-> p, body |-> "ok"]
    <2>1. PICK i \in 1..Len(net[k].down) + 1 :
              net' = [net EXCEPT ![k].down = InsertAt(@, i, m)]
      BY <1>3 DEF SrvPush
    <2> DEFINE d == InsertAt(net[k].down, i, m)
               r == [net[k] EXCEPT !.down = d]
    <2>2. m \in DownMsg
      BY DEF DownMsg, Commands, Chans, Bodies
    <2> HIDE DEF m
    <2>3. d \in Seq(DownMsg)
      <3>1. net[k].down \in Seq(DownMsg)
        BY <1>0 DEF NetType
      <3> QED BY <2>2, <3>1 DEF InsertAt
    <2>4. net' = [net EXCEPT ![k] = r]
      BY <1>0, <2>1 DEF TypeOK
    <2> HIDE DEF d
    <2>5. r \in NetType /\ r.link = net[k].link
      BY <1>0, <2>3 DEF NetType
    <2> HIDE DEF r
    <2>6. /\ net[k].link = "open"
          /\ UNCHANGED <<call, hdl, conn, chanMap, buf, addCode, fate>>
          /\ verdict' \in [Chans -> {"none", "ok", "fail"}]
      BY <1>0, <1>3 DEF SrvPush, TypeOK
    <2> QED BY <2>4, <2>5, <2>6, NetOnly
  <1> QED BY <1>1, <1>2, <1>3 DEF EnvStep

-----------------------------------------------------------------------------
(* The theorems.                                                            *)

LEMMA CallStepInv ==
    ASSUME IInv, NEW c \in Calls, CallStep(c)
    PROVE  IInv' /\ (conn' # conn /\ ~NilConn(conn) => net[conn].link = "closed")
  <1>1. CASE Dial(c)
    BY <1>1, DialInv DEF NilConn
  <1>2. CASE Clear(c)
    BY <1>2, ClearInv
  <1>3. CASE ConnectEnter(c) \/ DisconnectEnter(c)
    BY <1>3, EnterInv DEF ConnectEnter, DisconnectEnter
  <1>4. CASE MakeChan(c) \/ Write(c) \/ Look(c) \/ Recv(c)
    BY <1>4, MakeChanInv, WriteInv, LookInv, RecvInv
       DEF MakeChan, Write, Look, Recv
  <1>5. CASE Delete(c) \/ Defer(c)
    BY <1>5, DeleteInv DEF Delete, Defer
  <1>6. CASE Close(c)
    BY <1>6, CloseInv DEF Close
  <1> QED BY <1>1, <1>2, <1>3, <1>4, <1>5, <1>6 DEF CallStep

LEMMA NextInv ==
    ASSUME IInv, [Next]_vars
    PROVE  IInv' /\ (conn' # conn /\ ~NilConn(conn) => net[conn].link = "closed")
  <1>1. ASSUME NEW c \in Calls, CallStep(c)
        PROVE  IInv' /\ (conn' # conn /\ ~NilConn(conn) => net[conn].link = "closed")
    BY <1>1, CallStepInv
  <1>2. ASSUME NEW k \in Calls, HandlerStep(k)
        PROVE  IInv' /\ UNCHANGED conn
    <2>1. IInv'
      BY <1>2, HTopInv, HReadInv, HMoveInv, HPubInv DEF HandlerStep, Conns
    <2>2. UNCHANGED conn
      BY <1>2 DEF HandlerStep, HTop, HRead, HExit, HDispatch, HSend, HPubMake,
                  HPubWrite, HPubDelete, HandlerUnchanged
    <2> QED BY <2>1, <2>2
  <1>3. ASSUME NEW k \in Calls, EnvStep(k)
        PROVE  IInv' /\ UNCHANGED conn
    BY <1>3, EnvInv DEF EnvStep, SrvServe, Lose, SrvPush, Conns
  <1>4. CASE MapFault
    BY <1>4, FateOnly DEF MapFault
  <1>5. CASE Start
    <2>1. PICK c \in Calls, op \in Ops : MayStart(op) /\ Invoke(c, op)
      BY <1>5 DEF Start
    <2>2. op \in Operations
      BY ClientAssumption DEF Operations
    <2> QED BY <2>1, <2>2, InvokeInv DEF Invoke, MayStart
  <1>6. CASE UNCHANGED vars
    BY <1>6, FateOnly DEF vars, IInv, TypeOK
  <1> QED BY <1>1, <1>2, <1>3, <1>4, <1>5, <1>6 DEF Next, Step, Rest

LEMMA ClientInvariant == Spec => []IInv
  <1>1. IInv /\ [Next]_vars => IInv'
    BY NextInv
  <1> QED BY <1>1, InitIInv, PTL DEF Spec

\* The variables of Client keep their types.
THEOREM ClientTypeCorrect == Spec => []TypeOK
  <1>1. IInv => TypeOK
    BY DEF IInv
  <1> QED BY <1>1, ClientInvariant, PTL

\* An entry of chanMap belongs to a call of that command which has not
\* returned, or to the GetPubKey request being answered, whatever calls are
\* made: the deferred deletes are enough.
THEOREM ChannelOwned == Spec => []ChannelOwner
  <1>1. IInv => ChannelOwner
    BY DEF IInv, OwnerInv, ChannelOwner, InFlight
  <1> QED BY <1>1, ClientInvariant, PTL

\* Two commandHandlers never read from one connection.
THEOREM OneReaderOnly == Spec => []OneReader
  <1>1. IInv => OneReader
    BY DEF IInv, ReaderInv, OneReader
  <1> QED BY <1>1, ClientInvariant, PTL

\* Connect and Disconnect never drop a connection that is not closed.
THEOREM NoLinkAbandoned == Spec => NoAbandonedLink
  <1>1. IInv /\ [Next]_vars
        => [conn' # conn /\ ~NilConn(conn) => net[conn].link = "closed"]_vars
    BY NextInv
  <1> QED BY <1>1, ClientInvariant, PTL DEF Spec, NoAbandonedLink
=============================================================================
