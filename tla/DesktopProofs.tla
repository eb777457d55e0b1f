---------------------------- MODULE DesktopProofs ---------------------------
(* Proofs about Desktop, for any number of calls and with or without a      *)
(* network that drops connections: Connect and Disconnect never overlap     *)
(* while the window is open, an "Online" row has a connection, the calls    *)
(* the window makes read their own replies, only panel calls may meet a nil *)
(* connection, and the Add Code it displays is the registered one.          *)
EXTENDS Desktop, ClientReplyProofs, FiniteSetTheorems

BodyPCs == {"make", "write", "look", "recv", "delete", "defer"}

IsCall(k) ==
    k \in [op : {k.op}, pc : {k.pc}, left : {k.left}, held : {k.held},
           got : {k.got}, result : {k.result}]

\* Calls are records, and a program counter belongs to its operation.
CallsInv ==
    /\ call = [c \in Calls |-> call[c]]
    /\ \A c \in Calls :
        /\ IsCall(call[c])
        /\ call[c].op \in StatusOps \cup PanelOps
        /\ call[c].op = "INIT" =>
               call[c].pc \in {"idle", "enter", "dial", "done"} \cup BodyPCs
        /\ call[c].op = "QUIT" =>
               call[c].pc \in {"enter", "sleep", "clear", "done"} \cup BodyPCs
        /\ call[c].op \in PanelOps => call[c].pc \in {"done"} \cup BodyPCs
    /\ addCode \in Calls \cup {Nil}

\* A callback is queued once.
QueueInv ==
    /\ \A i \in DOMAIN ui.idle : ui.idle[i] \in ui.posted
    /\ \A i, j \in DOMAIN ui.idle : ui.idle[i] = ui.idle[j] => i = j

\* Connect or Disconnect c, its goroutine or its callback, is under way.
Out(c) ==
    /\ call[c].op \in StatusOps
    /\ \/ InFlight(c)
       \/ call[c].pc = "done" /\ c \notin ui.posted
       \/ \E i \in DOMAIN ui.idle : ui.idle[i] = c

\* Connect c has a connection; Disconnect c has given it up.
Connected(c) == \/ call[c].pc \in BodyPCs
                \/ call[c].pc = "done" /\ call[c].result = "ok"
GivenUp(c)   == call[c].pc = "done" /\ call[c].result = "ok"

RowInv ==
    /\ ui.row => \A c \in Calls : ~Out(c)
    /\ ui.row /\ ui.online => conn \in Conns
    /\ \A c, d \in Calls : Out(c) /\ Out(d) => c = d
    /\ \A c \in Calls : Out(c) /\ call[c].op = "INIT" =>
           ~ui.online /\ (Connected(c) => conn \in Conns)
    /\ \A c \in Calls : Out(c) /\ call[c].op = "QUIT" =>
           ui.online /\ (~GivenUp(c) => conn \in Conns)

DInv ==
    /\ CallsInv /\ DesktopTypeOK /\ QueueInv
    /\ ui.shut = Nil => RowInv

LEMMA InitDInv == DesktopInit => DInv
  <1> SUFFICES ASSUME DesktopInit PROVE DInv
    OBVIOUS
  <1>1. CallsInv
    BY DEF DesktopInit, Init, CallsInv, IsCall, StatusOps, PanelOps, BodyPCs
  <1>2. DesktopTypeOK /\ QueueInv
    BY DEF DesktopInit, Init, DesktopTypeOK, QueueInv
  <1>3. \A c \in Calls : ~Out(c)
    BY DEF DesktopInit, Init, Out, InFlight
  <1>4. RowInv
    BY <1>3 DEF DesktopInit, RowInv
  <1> QED BY <1>1, <1>2, <1>4 DEF DInv

-----------------------------------------------------------------------------
(* What one step of a call does, as far as the window can tell.             *)

Effect(c) ==
    /\ Others(c) /\ InFlight(c)
    /\ call'[c].op = call[c].op /\ call'[c].pc # "idle"
    /\ call[c].op \in PanelOps => UNCHANGED conn
    /\ call[c].op = "INIT" /\ Connected(c)' =>
           conn' \in Conns \/ (Connected(c) /\ UNCHANGED conn)
    /\ call[c].op = "QUIT" /\ ~GivenUp(c)' => UNCHANGED conn

\* A step that moves call c and leaves client.conn alone.
LEMMA EffectOfMove ==
    ASSUME CallsInv, NEW c \in Calls, InFlight(c), UNCHANGED conn, NEW r,
           call' = [call EXCEPT ![c] = r],
           IsCall(r), r.op = call[c].op,
           addCode' \in Calls \cup {Nil},
           r.pc \in CallPCs \ {"enter", "idle"},
           r.pc = "dial" => r.op = "INIT",
           r.pc \in {"sleep", "clear"} => r.op = "QUIT",
           r.op = "INIT" /\ r.pc \in BodyPCs => call[c].pc \in BodyPCs,
           r.op = "INIT" /\ r.pc = "done" /\ r.result = "ok" =>
               call[c].pc \in BodyPCs
    PROVE  CallsInv' /\ Effect(c)
  <1>1. call'[c] = r /\ Others(c) /\ call' = [d \in Calls |-> call'[d]]
    BY DEF CallsInv, Others
  <1>3. CallsInv'
    <2>1. /\ r.op \in StatusOps \cup PanelOps
          /\ r.op = "INIT" => r.pc \in {"idle", "enter", "dial", "done"} \cup BodyPCs
          /\ r.op = "QUIT" => r.pc \in {"enter", "sleep", "clear", "done"} \cup BodyPCs
          /\ r.op \in PanelOps => r.pc \in {"done"} \cup BodyPCs
      BY DEF CallsInv, CallPCs, BodyPCs, StatusOps, PanelOps
    <2>2. \A d \in Calls : d # c => call'[d] = call[d]
      BY <1>1 DEF Others
    <2> QED BY <1>1, <2>1, <2>2 DEF CallsInv
  <1>4. Effect(c)
    BY <1>1 DEF Effect, Connected, GivenUp, BodyPCs
  <1> QED BY <1>3, <1>4

LEMMA EffectOfCall ==
    ASSUME CallsInv, NEW c \in Calls, CallStep(c)
    PROVE  CallsInv' /\ Effect(c)
  <1> DEFINE k == call[c]
  <1>0. /\ k.op \in StatusOps \cup PanelOps /\ addCode \in Calls \cup {Nil}
        /\ IsCall(k)
        /\ k.op = "INIT" => k.pc \in {"idle", "enter", "dial", "done"} \cup BodyPCs
        /\ k.op = "QUIT" => k.pc \in {"enter", "sleep", "clear", "done"} \cup BodyPCs
        /\ k.op \in PanelOps => k.pc \in {"done"} \cup BodyPCs
    BY DEF CallsInv
  <1>1. ASSUME NEW r, Finish(c, r), InFlight(c), UNCHANGED <<conn, addCode>>,
               k.op = "INIT" /\ r = "ok" => k.pc \in BodyPCs
        PROVE  CallsInv' /\ Effect(c)
    <2> DEFINE n == [k EXCEPT !.pc = "done", !.result = r, !.held = Nil]
    <2>1. call' = [call EXCEPT ![c] = n]
      BY <1>1 DEF Finish, CallsInv
    <2>2. IsCall(n) /\ n.op = k.op /\ n.pc = "done" /\ n.result = r
      BY <1>0 DEF IsCall
    <2> HIDE DEF n
    <2> QED BY <1>0, <1>1, <2>1, <2>2, EffectOfMove DEF CallPCs, BodyPCs
  <1>2. ASSUME NEW pc \in CallPCs \ {"enter", "idle", "done"}, InFlight(c),
               call' = [call EXCEPT ![c].pc = pc], UNCHANGED <<conn, addCode>>,
               pc = "dial" => k.op = "INIT",
               pc \in {"sleep", "clear"} => k.op = "QUIT",
               k.op = "INIT" /\ pc \in BodyPCs => k.pc \in BodyPCs
        PROVE  CallsInv' /\ Effect(c)
    <2> DEFINE n == [k EXCEPT !.pc = pc]
    <2>1. call' = [call EXCEPT ![c] = n]
      BY <1>2 DEF CallsInv
    <2>2. IsCall(n) /\ n.op = k.op /\ n.pc = pc
      BY <1>0 DEF IsCall
    <2> HIDE DEF n
    <2> QED BY <1>0, <1>2, <2>1, <2>2, EffectOfMove
  <1>3. CASE ConnectEnter(c)
    <2>1. /\ k.pc = "enter" /\ k.op = "INIT" /\ InFlight(c)
          /\ UNCHANGED <<conn, addCode>>
          /\ Finish(c, "existing") \/ call' = [call EXCEPT ![c].pc = "dial"]
      BY <1>3 DEF ConnectEnter, InFlight
    <2> QED BY <1>1, <1>2, <2>1 DEF CallPCs, BodyPCs
  <1>4. CASE DisconnectEnter(c)
    <2>1. /\ k.pc = "enter" /\ k.op = "QUIT" /\ InFlight(c)
          /\ UNCHANGED <<conn, addCode>>
          /\ Finish(c, "ok") \/ call' = [call EXCEPT ![c].pc = "make"]
      BY <1>4 DEF DisconnectEnter, InFlight
    <2> QED BY <1>1, <1>2, <2>1 DEF CallPCs, BodyPCs
  <1>5. CASE Dial(c)
    <2>0. k.pc = "dial" /\ k.op = "INIT" /\ InFlight(c) /\ UNCHANGED addCode
      BY <1>0, <1>5 DEF Dial, InFlight, StatusOps, PanelOps, BodyPCs
    <2>1. PICK n : /\ call' = [call EXCEPT ![c] = n]
                   /\ IsCall(n) /\ n.op = "INIT"
                   /\ \/ n.pc = "make" /\ conn' = c
                      \/ n.pc = "done" /\ n.result = "ioerr"
      <3>1. CASE conn' = c /\ call' = [call EXCEPT ![c].pc = "make"]
        <4> DEFINE n == [k EXCEPT !.pc = "make"]
        <4>1. call' = [call EXCEPT ![c] = n]
          BY <3>1 DEF CallsInv
        <4>2. IsCall(n) /\ n.op = k.op /\ n.pc = "make"
          BY <1>0 DEF IsCall
        <4> HIDE DEF n
        <4> QED BY <2>0, <3>1, <4>1, <4>2
      <3>2. CASE Finish(c, "ioerr")
        <4> DEFINE n == [k EXCEPT !.pc = "done", !.result = "ioerr", !.held = Nil]
        <4>1. call' = [call EXCEPT ![c] = n]
          BY <3>2 DEF Finish, CallsInv
        <4>2. IsCall(n) /\ n.op = k.op /\ n.pc = "done" /\ n.result = "ioerr"
          BY <1>0 DEF IsCall
        <4> HIDE DEF n
        <4> QED BY <2>0, <4>1, <4>2
      <3> QED BY <1>5, <3>1, <3>2 DEF Dial
    <2>2. call'[c] = n /\ Others(c) /\ call' = [d \in Calls |-> call'[d]]
      BY <2>1 DEF CallsInv, Others
    <2>3. CallsInv'
      <3>1. \A d \in Calls : d # c => call'[d] = call[d]
        BY <2>2 DEF Others
      <3> QED BY <1>0, <2>0, <2>1, <2>2, <3>1
              DEF CallsInv, StatusOps, PanelOps, BodyPCs
    <2>4. Effect(c)
      BY <2>0, <2>1, <2>2 DEF Effect, Connected, PanelOps, Conns, BodyPCs
    <2> QED BY <2>3, <2>4
  <1>6. CASE MakeChan(c) \/ Look(c)
    <2>1. InFlight(c) /\ UNCHANGED <<conn, addCode>> /\ k.pc \in BodyPCs
      BY <1>6 DEF MakeChan, Look, InFlight, BodyPCs
    <2>2. PICK n : /\ call' = [call EXCEPT ![c] = n]
                   /\ IsCall(n) /\ n.op = k.op /\ n.pc \in {"write", "recv"}
      <3>1. CASE MakeChan(c)
        <4> DEFINE x == Writes(k.op)
                   n == [k EXCEPT !.pc = "write", !.left = x]
        <4>1. call' = [call EXCEPT ![c] = n]
          BY <3>1 DEF MakeChan, CallsInv
        <4> HIDE DEF x
        <4>2. IsCall(n) /\ n.op = k.op /\ n.pc = "write"
          BY <1>0 DEF IsCall
        <4> HIDE DEF n
        <4> QED BY <4>1, <4>2
      <3>2. CASE Look(c)
        <4> DEFINE h == chanMap[k.op]
                   n == [k EXCEPT !.pc = "recv", !.held = h]
        <4>1. call' = [call EXCEPT ![c] = n]
          BY <3>2 DEF Look, CallsInv
        <4> HIDE DEF h
        <4>2. IsCall(n) /\ n.op = k.op /\ n.pc = "recv"
          BY <1>0 DEF IsCall
        <4> HIDE DEF n
        <4> QED BY <4>1, <4>2
      <3> QED BY <1>6, <3>1, <3>2
    <2> QED BY <1>0, <2>1, <2>2, EffectOfMove DEF CallPCs, BodyPCs
  <1>7. CASE Write(c)
    <2>1. InFlight(c) /\ UNCHANGED <<conn, addCode>> /\ k.pc = "write"
      BY <1>7 DEF Write, InFlight
    <2> DEFINE pc == IF k.left = 1 THEN "look" ELSE "write"
               x  == k.left - 1
    <2>2. \/ UNCHANGED call
          \/ call' = [call EXCEPT ![c].left = @ - 1, ![c].pc = pc]
          \/ call' = [call EXCEPT ![c].pc = "defer", ![c].result = "ioerr"]
      BY <1>7 DEF Write
    <2>3. pc \in {"look", "write"}
      OBVIOUS
    <2> HIDE DEF pc
    <2>4. CASE call' = [call EXCEPT ![c].left = @ - 1, ![c].pc = pc]
      <3> DEFINE n == [k EXCEPT !.left = x, !.pc = pc]
      <3>1. call' = [call EXCEPT ![c] = n]
        BY <2>4 DEF CallsInv
      <3> HIDE DEF x
      <3>2. IsCall(n) /\ n.op = k.op /\ n.pc = pc
        BY <1>0 DEF IsCall
      <3> HIDE DEF n
      <3> QED BY <1>0, <2>1, <2>3, <3>1, <3>2, EffectOfMove DEF CallPCs, BodyPCs
    <2>6. CASE call' = [call EXCEPT ![c].pc = "defer", ![c].result = "ioerr"]
      <3> DEFINE n == [k EXCEPT !.pc = "defer", !.result = "ioerr"]
      <3>1. call' = [call EXCEPT ![c] = n]
        BY <2>6 DEF CallsInv
      <3>2. IsCall(n) /\ n.op = k.op /\ n.pc = "defer"
        BY <1>0 DEF IsCall
      <3> HIDE DEF n
      <3> QED BY <1>0, <2>1, <3>1, <3>2, EffectOfMove DEF CallPCs, BodyPCs
    <2>5. CASE UNCHANGED call
      BY <2>1, <2>5 DEF CallsInv, Effect, Others, InFlight, Connected
    <2> QED BY <2>2, <2>4, <2>5, <2>6
  <1>8. CASE Recv(c)
    <2> DEFINE m  == Head(buf[k.held])
               l  == Len(k.got) + 1 = Reads(k.op)
               b  == ~l /\ GivesUp(k.op, m)
               g  == Append(k.got, m)
               pc == IF b THEN "defer" ELSE IF l THEN "delete" ELSE "look"
               w  == IF b THEN "nokey" ELSE IF ~l THEN "none" ELSE Outcome(m)
    <2>1. /\ InFlight(c) /\ UNCHANGED conn /\ k.pc = "recv"
          /\ addCode' = IF k.op = "GADC" /\ ~l
                        THEN IF m.body = "value" /\ m.to \in Calls THEN m.to ELSE Nil
                        ELSE addCode
          /\ call' = [call EXCEPT ![c].got = Append(@, m), ![c].pc = pc,
                                  ![c].result = w]
      BY <1>8 DEF Recv, InFlight
    <2>2. addCode' \in Calls \cup {Nil}
      BY <1>0, <2>1
    <2>3. call' = [call EXCEPT ![c].got = g, ![c].pc = pc, ![c].result = w]
      BY <2>1 DEF CallsInv
    <2>4. pc \in {"defer", "delete", "look"}
      OBVIOUS
    <2> HIDE DEF m, l, b, g, pc, w
    <2> DEFINE n == [k EXCEPT !.got = g, !.pc = pc, !.result = w]
    <2>5. call' = [call EXCEPT ![c] = n]
      BY <2>3 DEF CallsInv
    <2>6. IsCall(n) /\ n.op = k.op /\ n.pc = pc
      BY <1>0 DEF IsCall
    <2> HIDE DEF n
    <2> QED BY <1>0, <2>1, <2>2, <2>4, <2>5, <2>6, EffectOfMove DEF CallPCs, BodyPCs
  <1>9. CASE Delete(c)
    <2>1. /\ InFlight(c) /\ UNCHANGED <<conn, addCode>> /\ k.pc = "delete"
          /\ call' = [call EXCEPT ![c].pc = "defer"]
      BY <1>9 DEF Delete, InFlight
    <2> QED BY <1>2, <2>1 DEF CallPCs, BodyPCs
  <1>10. CASE Defer(c)
    <2>1. /\ InFlight(c) /\ UNCHANGED <<conn, addCode>> /\ k.pc = "defer"
          /\ \/ Finish(c, k.result)
             \/ k.op = "QUIT" /\ call' = [call EXCEPT ![c].pc = "sleep"]
             \/ Finish(c, "incomplete")
      BY <1>10 DEF Defer, InFlight
    <2> QED BY <1>1, <1>2, <2>1 DEF CallPCs, BodyPCs
  <1>11. CASE Close(c)
    <2>1. /\ InFlight(c) /\ UNCHANGED <<conn, addCode>> /\ k.pc = "sleep"
          /\ \/ UNCHANGED call
             \/ call' = [call EXCEPT ![c].pc = "clear"]
             \/ Finish(c, "ioerr")
      BY <1>11 DEF Close, InFlight
    <2>2. k.op = "QUIT"
      BY <1>0, <2>1 DEF StatusOps, PanelOps, BodyPCs
    <2>3. CASE UNCHANGED call
      BY <2>1, <2>3 DEF CallsInv, Effect, Others, InFlight, Connected
    <2> QED BY <1>1, <1>2, <2>1, <2>2, <2>3 DEF CallPCs, BodyPCs
  <1>12. CASE Clear(c)
    <2>1. /\ InFlight(c) /\ UNCHANGED addCode /\ k.pc = "clear"
          /\ Finish(c, "ok")
      BY <1>12 DEF Clear, InFlight
    <2>2. k.op = "QUIT"
      BY <1>0, <2>1 DEF StatusOps, PanelOps, BodyPCs
    <2> DEFINE n == [k EXCEPT !.pc = "done", !.result = "ok", !.held = Nil]
    <2>3. call' = [call EXCEPT ![c] = n]
      BY <2>1 DEF Finish, CallsInv
    <2>4. IsCall(n) /\ n.op = k.op /\ n.pc = "done" /\ n.result = "ok"
      BY <1>0 DEF IsCall
    <2> HIDE DEF n
    <2>5. call'[c] = n /\ Others(c) /\ call' = [d \in Calls |-> call'[d]]
      BY <2>3 DEF CallsInv, Others
    <2>6. CallsInv'
      <3>1. \A d \in Calls : d # c => call'[d] = call[d]
        BY <2>5 DEF Others
      <3> QED BY <1>0, <2>1, <2>2, <2>4, <2>5, <3>1
              DEF CallsInv, StatusOps, PanelOps, BodyPCs
    <2>7. Effect(c)
      BY <2>1, <2>2, <2>4, <2>5 DEF Effect, GivenUp, PanelOps
    <2> QED BY <2>6, <2>7
  <1> QED BY <1>3, <1>4, <1>5, <1>6, <1>7, <1>8, <1>9, <1>10, <1>11, <1>12
          DEF CallStep

LEMMA InvokeEffect ==
    ASSUME CallsInv, NEW c \in Calls, NEW op \in StatusOps \cup PanelOps,
           Invoke(c, op)
    PROVE  /\ CallsInv' /\ Others(c) /\ UNCHANGED <<conn, addCode>>
           /\ call[c].pc = "idle" /\ call'[c].op = op
           /\ call'[c].pc = IF op \in StatusOps THEN "enter" ELSE "make"
  <1> DEFINE k  == call[c]
             pc == IF op \in StatusOps THEN "enter" ELSE "make"
             n  == [k EXCEPT !.op = op, !.pc = pc]
  <1>1. IsCall(k) /\ k.pc = "idle" /\ UNCHANGED <<conn, addCode>>
    BY DEF CallsInv, Invoke
  <1>2. call' = [call EXCEPT ![c] = n]
    BY DEF CallsInv, Invoke
  <1>3. /\ pc \in {"enter"} \cup BodyPCs
        /\ op \in PanelOps => pc \in BodyPCs
    BY DEF StatusOps, PanelOps, BodyPCs
  <1> HIDE DEF pc
  <1>4. IsCall(n) /\ n.op = op /\ n.pc = pc
    BY <1>1 DEF IsCall
  <1> HIDE DEF n
  <1>5. call'[c] = n /\ Others(c) /\ call' = [d \in Calls |-> call'[d]]
    BY <1>2 DEF CallsInv, Others
  <1>6. \A d \in Calls : d # c => call'[d] = call[d]
    BY <1>5 DEF Others
  <1>7. CallsInv'
    BY <1>1, <1>3, <1>4, <1>5, <1>6 DEF CallsInv
  <1> QED BY <1>1, <1>4, <1>5, <1>7 DEF pc

-----------------------------------------------------------------------------
(* The steps of the window.                                                 *)

UiType == [online : BOOLEAN, row : BOOLEAN, exp : BOOLEAN, open : BOOLEAN,
           grid : Calls \cup {Nil}, idle : Seq(Calls), posted : SUBSET Calls,
           shut : Calls \cup {Nil}]

\* A queued callback belongs to a call that has returned.
LEMMA IdleNotOut ==
    ASSUME DesktopTypeOK, QueueInv, NEW c \in Calls, call[c].pc # "done"
    PROVE  /\ c \notin ui.posted
           /\ \A i \in DOMAIN ui.idle : ui.idle[i] # c
  BY DEF DesktopTypeOK, QueueInv

\* A handler starts call c and changes widgets only.
LEMMA HandlerInv ==
    ASSUME DInv, NEW c \in Calls, NEW op \in StatusOps \cup PanelOps, Invoke(c, op),
           ui' \in UiType, ui'.idle = ui.idle, ui'.posted = ui.posted
    PROVE  /\ CallsInv' /\ DesktopTypeOK' /\ QueueInv'
           /\ \A d \in Calls \ {c} : call'[d] = call[d] /\ (Out(d)' <=> Out(d))
           /\ Out(c)' <=> op \in StatusOps
           /\ op \in StatusOps => ~Connected(c)'
           /\ ~GivenUp(c)' /\ call'[c].op = op /\ UNCHANGED conn
  <1>1. /\ CallsInv' /\ Others(c) /\ UNCHANGED <<conn, addCode>>
        /\ call[c].pc = "idle" /\ call'[c].op = op
        /\ call'[c].pc = IF op \in StatusOps THEN "enter" ELSE "make"
    BY InvokeEffect DEF DInv
  <1>2. /\ c \notin ui.posted
        /\ \A i \in DOMAIN ui.idle : ui.idle[i] # c
    BY <1>1, IdleNotOut DEF DInv
  <1>3. DesktopTypeOK' /\ QueueInv'
    BY <1>1, <1>2 DEF DInv, DesktopTypeOK, QueueInv, Others, UiType
  <1>4. \A d \in Calls \ {c} : call'[d] = call[d] /\ (Out(d)' <=> Out(d))
    BY <1>1 DEF Others, Out, InFlight
  <1>5. Out(c)' <=> op \in StatusOps
    BY <1>1, <1>2 DEF Out, InFlight
  <1> QED BY <1>1, <1>3, <1>4, <1>5
          DEF Connected, GivenUp, BodyPCs, StatusOps, PanelOps

LEMMA UserInv ==
    ASSUME DInv, UserStep
    PROVE  DInv'
  <1>0. ui \in UiType /\ ui.shut = Nil /\ RowInv
    BY DEF DInv, DesktopTypeOK, UiType, UserStep
  <1>1. CASE ActivateOffline
    <2>1. /\ ui' = [ui EXCEPT !.open = FALSE]
          /\ UNCHANGED <<call, conn, addCode>>
      BY <1>1 DEF ActivateOffline, vars
    <2>2. /\ ui' \in UiType /\ ui'.idle = ui.idle /\ ui'.posted = ui.posted
          /\ ui'.row = ui.row /\ ui'.online = ui.online
      BY <1>0, <2>1 DEF UiType
    <2>3. CallsInv' /\ DesktopTypeOK' /\ QueueInv'
      BY <2>1, <2>2 DEF DInv, CallsInv, DesktopTypeOK, QueueInv, UiType
    <2>4. \A c \in Calls : Out(c)' <=> Out(c)
      BY <2>1, <2>2 DEF Out, InFlight
    <2>5. RowInv'
      BY <1>0, <2>1, <2>2, <2>4 DEF RowInv, Connected, GivenUp
    <2> QED BY <2>3, <2>5 DEF DInv
  <1>2. ASSUME NEW c \in Calls, ClickStatus(c)
        PROVE  DInv'
    <2> DEFINE op == IF ui.online THEN "QUIT" ELSE "INIT"
    <2>1. /\ ui.row /\ ui' = [ui EXCEPT !.row = FALSE] /\ Invoke(c, op)
          /\ op \in StatusOps
      BY <1>2 DEF ClickStatus, RowOff, StatusOps
    <2>2. /\ ui' \in UiType /\ ui'.idle = ui.idle /\ ui'.posted = ui.posted
          /\ ~ui'.row /\ ui'.online = ui.online
      BY <1>0, <2>1 DEF UiType
    <2>3. /\ CallsInv' /\ DesktopTypeOK' /\ QueueInv'
          /\ \A d \in Calls \ {c} : call'[d] = call[d] /\ (Out(d)' <=> Out(d))
          /\ ~Connected(c)' /\ ~GivenUp(c)' /\ call'[c].op = op /\ UNCHANGED conn
      BY <2>1, <2>2, HandlerInv DEF StatusOps, PanelOps
    <2>4. \A d \in Calls \ {c} : ~Out(d)'
      BY <1>0, <2>1, <2>3 DEF RowInv
    <2>5. RowInv'
      BY <1>0, <2>1, <2>2, <2>3, <2>4 DEF RowInv
    <2> QED BY <2>3, <2>5 DEF DInv
  <1>3. ASSUME NEW c \in Calls, ActivateOnline(c)
        PROVE  DInv'
    <2> DEFINE op == IF ui.open THEN "RADC" ELSE "GADC"
    <2>1. /\ ui' = [ui EXCEPT !.exp = FALSE, !.open = ~@] /\ Invoke(c, op)
          /\ op \in PanelOps
      BY <1>3 DEF ActivateOnline, PanelOps
    <2>2. /\ ui' \in UiType /\ ui'.idle = ui.idle /\ ui'.posted = ui.posted
          /\ ui'.row = ui.row /\ ui'.online = ui.online
      BY <1>0, <2>1 DEF UiType
    <2>3. /\ CallsInv' /\ DesktopTypeOK' /\ QueueInv' /\ ~Out(c)'
          /\ \A d \in Calls \ {c} : call'[d] = call[d] /\ (Out(d)' <=> Out(d))
          /\ UNCHANGED conn
      BY <2>1, <2>2, HandlerInv DEF StatusOps, PanelOps
    <2>4. \A d \in Calls : Out(d)' => /\ Out(d) /\ call'[d] = call[d]
                                     /\ Connected(d)' = Connected(d)
                                     /\ GivenUp(d)' = GivenUp(d)
      BY <2>3 DEF Connected, GivenUp
    <2>5. RowInv'
      BY <1>0, <2>2, <2>3, <2>4 DEF RowInv
    <2> QED BY <2>3, <2>5 DEF DInv
  <1>4. ASSUME NEW c \in Calls, ShutDown(c)
        PROVE  DInv'
    <2>1. /\ ui' = [ui EXCEPT !.shut = c]
          /\ UNCHANGED <<call, addCode>> \/ Invoke(c, "QUIT")
      BY <1>4 DEF ShutDown
    <2>2. /\ ui' \in UiType /\ ui'.idle = ui.idle /\ ui'.posted = ui.posted
          /\ ui'.shut # Nil
      BY <1>0, <2>1, ClientAssumption DEF UiType
    <2>3. CASE UNCHANGED <<call, addCode>>
      BY <2>2, <2>3 DEF DInv, CallsInv, DesktopTypeOK, QueueInv, UiType
    <2>4. CASE Invoke(c, "QUIT")
      BY <2>2, <2>4, HandlerInv DEF StatusOps, DInv
    <2> QED BY <2>1, <2>3, <2>4
  <1> QED BY <1>1, <1>2, <1>3, <1>4 DEF UserStep

\* What the callback of c makes of the panel, given the widgets a after it.
PanelAfter(a, c) ==
    LET ok   == call[c].result = "ok"
        same == a.open = ui.open /\ a.grid = ui.grid
    IN  /\ call[c].op = "INIT" => same /\ (ok \/ a.exp = ui.exp)
        /\ call[c].op = "QUIT" =>
               IF ok THEN ~a.exp /\ ~a.open /\ a.grid \in {Nil, ui.grid}
                     ELSE same /\ a.exp = ui.exp
        /\ call[c].op = "GADC" =>
               IF ok THEN a.grid = addCode /\ a.open = ui.open
                     ELSE a.grid = ui.grid /\ a.open
        /\ call[c].op = "RADC" =>
               IF ok THEN a.grid = Nil /\ a.open = ui.open
                     ELSE a.grid = ui.grid /\ ~a.open

\* The callback of c is taken off the queue, in which no other one of c is.
CallbackOf(c) ==
    /\ call[c].pc = "done" /\ c \in ui.posted
    /\ \E i \in DOMAIN ui.idle : ui.idle[i] = c
    /\ \A i \in DOMAIN ui'.idle :
        /\ ui'.idle[i] # c
        /\ \E j \in DOMAIN ui.idle : ui.idle[j] = ui'.idle[i]
    /\ \A i \in DOMAIN ui.idle : ui.idle[i] # c =>
           \E j \in DOMAIN ui'.idle : ui'.idle[j] = ui.idle[i]
    /\ ui' \in UiType /\ ui'.posted = ui.posted /\ ui'.shut = ui.shut
    /\ call[c].op \in PanelOps => ui'.row = ui.row /\ ui'.online = ui.online
    /\ call[c].op = "INIT" =>
           ui'.online = (call[c].result = "ok" \/ ui.online)
    /\ call[c].op = "QUIT" => /\ ui'.online = (call[c].result # "ok" /\ ui.online)
                              /\ ui'.exp => ui.exp
    /\ PanelAfter(ui', c)

LEMMA CallbackEffect ==
    ASSUME DInv, ui.shut = Nil, Callback
    PROVE  /\ UNCHANGED <<call, conn, addCode>> /\ QueueInv'
           /\ \E c \in Calls : CallbackOf(c)
  <1>0. /\ ui \in UiType /\ RowInv /\ ui.idle \in Seq(Calls) /\ ui.idle # <<>>
        /\ UNCHANGED <<call, conn, addCode>>
    <2>1. ui.idle # <<>> /\ UNCHANGED <<call, conn, addCode>>
      BY ZenonT(30) DEF Callback
    <2> QED BY <2>1 DEF DInv, DesktopTypeOK, UiType
  <1>1. PICK c \in Calls :
        /\ c = Head(ui.idle) /\ c = ui.idle[1] /\ 1 \in DOMAIN ui.idle
        /\ Tail(ui.idle) \in Seq(Calls)
        /\ DOMAIN Tail(ui.idle) = 1..Len(ui.idle) - 1
        /\ \A i \in DOMAIN Tail(ui.idle) :
               i + 1 \in DOMAIN ui.idle /\ Tail(ui.idle)[i] = ui.idle[i + 1]
    <2>1. Len(ui.idle) \in Nat /\ Len(ui.idle) # 0 /\ DOMAIN ui.idle = 1..Len(ui.idle)
      BY <1>0, EmptySeq, LenProperties
    <2> QED BY <1>0, <2>1, HeadTailProperties
  <1> DEFINE ok == call[c].result = "ok"
  <1>2. call[c].op \in StatusOps \cup PanelOps /\ addCode \in Calls \cup {Nil}
    BY <1>1 DEF DInv, CallsInv
  <1>3. PICK after \in UiType :
            /\ ui' = [after EXCEPT !.idle = Tail(ui.idle)]
            /\ after.posted = ui.posted /\ after.shut = ui.shut
            /\ call[c].op \in PanelOps =>
                   after.row = ui.row /\ after.online = ui.online
            /\ call[c].op = "INIT" => after.online = (ok \/ ui.online)
            /\ call[c].op = "QUIT" => /\ after.online = (~ok /\ ui.online)
                                      /\ after.exp => ui.exp
            /\ PanelAfter(after, c)
    <2> DEFINE after == CASE call[c].op = "INIT" -> AfterConnect(ok)
                          [] call[c].op = "QUIT" -> AfterDisconnect(ok)
                          [] call[c].op = "GADC" -> AfterGetAddCode(ok)
                          [] call[c].op = "RADC" -> AfterRemoveAddCode(ok)
    <2>1. ui' = [after EXCEPT !.idle = Tail(@)]
      BY <1>1, ZenonT(40) DEF Callback
    <2>2. CASE call[c].op = "INIT"
      <3>1. after = AfterConnect(ok)
        BY <2>2
      <3>2. /\ AfterConnect(ok) \in UiType /\ AfterConnect(ok).idle = ui.idle
            /\ AfterConnect(ok).posted = ui.posted /\ AfterConnect(ok).shut = ui.shut
            /\ AfterConnect(ok).online = (ok \/ ui.online)
        BY <1>0 DEF AfterConnect, UiType
      <3>3. PanelAfter(AfterConnect(ok), c)
        BY <1>0, <2>2 DEF AfterConnect, UiType, PanelAfter
      <3> QED BY <2>1, <2>2, <3>1, <3>2, <3>3 DEF PanelOps
    <2>3. CASE call[c].op = "QUIT"
      <3>1. after = AfterDisconnect(ok)
        BY <2>3
      <3>2. /\ AfterDisconnect(ok) \in UiType /\ AfterDisconnect(ok).idle = ui.idle
            /\ AfterDisconnect(ok).posted = ui.posted
            /\ AfterDisconnect(ok).shut = ui.shut
            /\ AfterDisconnect(ok).online = (~ok /\ ui.online)
            /\ AfterDisconnect(ok).exp => ui.exp
        BY <1>0 DEF AfterDisconnect, UiType
      <3>3. PanelAfter(AfterDisconnect(ok), c)
        BY <1>0, <2>3 DEF AfterDisconnect, UiType, PanelAfter
      <3> QED BY <2>1, <2>3, <3>1, <3>2, <3>3 DEF PanelOps
    <2>4. CASE call[c].op = "GADC"
      <3>1. after = AfterGetAddCode(ok)
        BY <2>4
      <3>2. /\ AfterGetAddCode(ok) \in UiType /\ AfterGetAddCode(ok).idle = ui.idle
            /\ AfterGetAddCode(ok).posted = ui.posted
            /\ AfterGetAddCode(ok).shut = ui.shut
            /\ AfterGetAddCode(ok).row = ui.row
            /\ AfterGetAddCode(ok).online = ui.online
        BY <1>0, <1>2 DEF AfterGetAddCode, UiType
      <3>3. PanelAfter(AfterGetAddCode(ok), c)
        BY <1>0, <2>4 DEF AfterGetAddCode, UiType, PanelAfter
      <3> QED BY <2>1, <2>4, <3>1, <3>2, <3>3
    <2>5. CASE call[c].op = "RADC"
      <3>1. after = AfterRemoveAddCode(ok)
        BY <2>5
      <3>2. /\ AfterRemoveAddCode(ok) \in UiType
            /\ AfterRemoveAddCode(ok).idle = ui.idle
            /\ AfterRemoveAddCode(ok).posted = ui.posted
            /\ AfterRemoveAddCode(ok).shut = ui.shut
            /\ AfterRemoveAddCode(ok).row = ui.row
            /\ AfterRemoveAddCode(ok).online = ui.online
        BY <1>0 DEF AfterRemoveAddCode, UiType
      <3>3. PanelAfter(AfterRemoveAddCode(ok), c)
        BY <1>0, <2>5 DEF AfterRemoveAddCode, UiType, PanelAfter
      <3> QED BY <2>1, <2>5, <3>1, <3>2, <3>3
    <2>6. call[c].op \in {"INIT", "QUIT", "GADC", "RADC"}
      BY <1>2 DEF StatusOps, PanelOps
    <2> HIDE DEF after
    <2> QED BY <2>2, <2>3, <2>4, <2>5, <2>6
  <1>4. /\ ui' \in UiType /\ ui'.idle = Tail(ui.idle) /\ ui'.posted = ui.posted
        /\ ui'.shut = ui.shut /\ ui'.row = after.row /\ ui'.online = after.online
        /\ ui'.exp = after.exp /\ ui'.open = after.open /\ ui'.grid = after.grid
    BY <1>1, <1>3 DEF UiType
  <1>11. PanelAfter(ui', c)
    BY <1>3, <1>4 DEF PanelAfter
  <1>5. ASSUME NEW i \in DOMAIN Tail(ui.idle)
        PROVE  Tail(ui.idle)[i] # c
    <2>1. i \in Nat /\ i # 0 /\ i + 1 # 1 /\ i + 1 \in DOMAIN ui.idle
      <3>1. Len(ui.idle) \in Nat
        BY <1>0, LenProperties
      <3> QED BY <1>1, <1>5, <3>1
    <2>2. Tail(ui.idle)[i] = ui.idle[i + 1]
      BY <1>1, <1>5
    <2>3. ui.idle[i + 1] # ui.idle[1]
      BY <1>1, <2>1 DEF DInv, QueueInv
    <2> QED BY <1>1, <2>2, <2>3
  <1>6. QueueInv'
    BY <1>1, <1>4 DEF DInv, QueueInv
  <1>7. call[c].pc = "done" /\ c \in ui.posted
    BY <1>1 DEF DInv, QueueInv, DesktopTypeOK
  <1>8. \A i \in DOMAIN ui'.idle :
            /\ ui'.idle[i] # c
            /\ \E j \in DOMAIN ui.idle : ui.idle[j] = ui'.idle[i]
    BY <1>1, <1>4, <1>5
  <1>9. \E i \in DOMAIN ui.idle : ui.idle[i] = c
    BY <1>1
  <1>10. ASSUME NEW i \in DOMAIN ui.idle, ui.idle[i] # c
         PROVE  \E j \in DOMAIN ui'.idle : ui'.idle[j] = ui.idle[i]
    <2>1. Len(ui.idle) \in Nat /\ DOMAIN ui.idle = 1..Len(ui.idle) /\ i # 1
      BY <1>0, <1>1, <1>10, LenProperties
    <2>2. i - 1 \in DOMAIN Tail(ui.idle) /\ (i - 1) + 1 = i
      BY <1>1, <2>1
    <2>3. Tail(ui.idle)[i - 1] = ui.idle[i]
      BY <1>1, <2>2
    <2> QED BY <1>4, <2>2, <2>3
  <1>12. /\ ui' \in UiType /\ ui'.posted = ui.posted /\ ui'.shut = ui.shut
         /\ call[c].op \in PanelOps => ui'.row = ui.row /\ ui'.online = ui.online
         /\ call[c].op = "INIT" => ui'.online = (ok \/ ui.online)
         /\ call[c].op = "QUIT" => /\ ui'.online = (~ok /\ ui.online)
                                   /\ ui'.exp => ui.exp
    BY <1>3, <1>4
  <1>13. CallbackOf(c)
    BY <1>7, <1>8, <1>9, <1>10, <1>11, <1>12 DEF CallbackOf
  <1> QED BY <1>0, <1>6, <1>13

LEMMA CallbackInv ==
    ASSUME DInv, ui.shut = Nil, Callback
    PROVE  DInv'
  <1>0. /\ ui \in UiType /\ RowInv /\ QueueInv'
        /\ UNCHANGED <<call, conn, addCode>>
    BY CallbackEffect DEF DInv, DesktopTypeOK, UiType
  <1>1. PICK c \in Calls : CallbackOf(c)
    BY CallbackEffect
  <1>2. call[c].op \in StatusOps \cup PanelOps
    BY DEF DInv, CallsInv
  <1>5. CallsInv' /\ DesktopTypeOK'
    BY <1>0, <1>1 DEF CallbackOf, DInv, CallsInv, DesktopTypeOK, UiType
  <1>7. /\ \A d \in Calls \ {c} : Out(d)' => Out(d)
        /\ ~Out(c)'
    BY <1>0, <1>1 DEF CallbackOf, Out, InFlight
  <1>8. RowInv'
    <2>1. CASE call[c].op \in StatusOps
      <3>1. Out(c)
        BY <1>1, <2>1 DEF CallbackOf, Out
      <3>2. \A d \in Calls : ~Out(d)'
        <4>1. \A d \in Calls : Out(d) => d = c
          BY <1>0, <1>1, <3>1 DEF RowInv
        <4> QED BY <1>7, <4>1
      <3>3. ui'.online => conn' \in Conns
        BY <1>0, <1>1, <2>1, <3>1
           DEF CallbackOf, RowInv, StatusOps, Connected, GivenUp
      <3> QED BY <3>2, <3>3 DEF RowInv
    <2>2. CASE call[c].op \notin StatusOps
      <3>1. ui'.row = ui.row /\ ui'.online = ui.online
        <4>1. call[c].op \in PanelOps
          BY <1>2, <2>2
        <4> QED BY <1>1, <4>1 DEF CallbackOf
      <3>2. \A d \in Calls : Out(d)' => Out(d)
        BY <1>7
      <3>3. \A d \in Calls : Connected(d)' = Connected(d) /\ GivenUp(d)' = GivenUp(d)
        BY <1>0 DEF Connected, GivenUp
      <3> QED BY <1>0, <3>1, <3>2, <3>3 DEF RowInv
    <2> QED BY <2>1, <2>2
  <1> QED BY <1>0, <1>5, <1>8 DEF DInv

LEMMA DInvStays ==
    ASSUME DInv, UNCHANGED <<call, conn, addCode, ui>>
    PROVE  DInv'
  <1>1. CallsInv' /\ DesktopTypeOK' /\ QueueInv'
    BY DEF DInv, CallsInv, DesktopTypeOK, QueueInv
  <1>2. RowInv => RowInv'
    BY DEF RowInv, Out, InFlight, Connected, GivenUp
  <1> QED BY <1>1, <1>2 DEF DInv

LEMMA LoopInv ==
    ASSUME DInv, LoopStep
    PROVE  DInv'
  <1>1. CASE ui.shut = Nil /\ Callback
    BY <1>1, CallbackInv
  <1>2. ASSUME NEW c \in Calls, Post(c), ui.shut = Nil
        PROVE  DInv'
    <2>0. ui \in UiType /\ RowInv /\ ui.idle \in Seq(Calls)
      BY <1>2 DEF DInv, DesktopTypeOK, UiType
    <2>1. /\ call[c].pc = "done" /\ c \notin ui.posted
          /\ ui' = [ui EXCEPT !.idle = Append(@, c), !.posted = @ \cup {c}]
          /\ UNCHANGED <<call, conn, addCode>>
      BY <1>2 DEF Post, Returned, vars
    <2>2. /\ Append(ui.idle, c) \in Seq(Calls)
          /\ DOMAIN Append(ui.idle, c) = DOMAIN ui.idle \cup {Len(ui.idle) + 1}
          /\ Len(ui.idle) + 1 \notin DOMAIN ui.idle
          /\ \A i \in DOMAIN ui.idle : Append(ui.idle, c)[i] = ui.idle[i]
          /\ Append(ui.idle, c)[Len(ui.idle) + 1] = c
      <3>1. Len(ui.idle) \in Nat /\ DOMAIN ui.idle = 1..Len(ui.idle)
        BY <2>0, LenProperties
      <3> QED BY <2>0, <3>1, AppendProperties
    <2>3. /\ ui' \in UiType /\ ui'.idle = Append(ui.idle, c)
          /\ ui'.posted = ui.posted \cup {c} /\ ui'.shut = ui.shut
          /\ ui'.row = ui.row /\ ui'.online = ui.online
      BY <2>0, <2>1, <2>2 DEF UiType
    <2>4. CallsInv' /\ DesktopTypeOK'
      BY <2>1, <2>3 DEF DInv, CallsInv, DesktopTypeOK, UiType
    <2>5. QueueInv'
      BY <2>1, <2>2, <2>3 DEF DInv, QueueInv
    <2>6. \A d \in Calls : Out(d)' => Out(d)
      BY <2>1, <2>2, <2>3 DEF Out, InFlight
    <2>7. RowInv'
      BY <2>0, <2>1, <2>3, <2>6 DEF RowInv, Connected, GivenUp
    <2> QED BY <2>4, <2>5, <2>7 DEF DInv
  <1>3. ASSUME NEW c \in Calls, Exit(c)
        PROVE  DInv'
    BY <1>3, DInvStays DEF Exit
  <1> QED BY <1>1, <1>2, <1>3 DEF LoopStep

LEMMA ClientInv ==
    ASSUME DInv, ClientStep
    PROVE  DInv'
  <1>1. ASSUME NEW c \in Calls, CallStep(c), UNCHANGED ui
        PROVE  DInv'
    <2>1. CallsInv' /\ Effect(c)
      BY <1>1, EffectOfCall DEF DInv
    <2>2. DesktopTypeOK' /\ QueueInv'
      <3>1. \A d \in Calls : call[d].pc = "done" => call'[d].pc = "done"
        BY <2>1 DEF Effect, Others, InFlight
      <3>2. DesktopTypeOK'
        BY <1>1, <3>1 DEF DInv, DesktopTypeOK
      <3> QED BY <1>1, <3>2 DEF DInv, QueueInv
    <2>3. ASSUME RowInv PROVE RowInv'
      <3>1. \A d \in Calls \ {c} : call'[d] = call[d]
        BY <2>1 DEF Effect, Others
      <3>2. \A d \in Calls : Out(d)' => Out(d) /\ call'[d].op = call[d].op
        BY <1>1, <2>1, <3>1 DEF Effect, Out, InFlight
      <3>3. UNCHANGED conn \/ Out(c)
        BY <2>1 DEF Effect, Out, DInv, CallsInv
      <3>4. ui.row /\ ui.online => conn' \in Conns
        BY <2>3, <3>3 DEF RowInv
      <3>5. ASSUME NEW d \in Calls, Out(d)', call'[d].op = "INIT"
            PROVE  ~ui.online /\ (Connected(d)' => conn' \in Conns)
        <4>1. CASE d = c
          BY <2>1, <2>3, <3>2, <3>5, <4>1 DEF RowInv, Effect
        <4>2. CASE d # c
          BY <2>3, <3>1, <3>2, <3>3, <3>5, <4>2 DEF RowInv, Connected
        <4> QED BY <4>1, <4>2
      <3>6. ASSUME NEW d \in Calls, Out(d)', call'[d].op = "QUIT"
            PROVE  ui.online /\ (~GivenUp(d)' => conn' \in Conns)
        <4>1. CASE d = c
          BY <2>1, <2>3, <3>2, <3>6, <4>1 DEF RowInv, Effect, GivenUp, InFlight
        <4>2. CASE d # c
          BY <2>3, <3>1, <3>2, <3>3, <3>6, <4>2 DEF RowInv, GivenUp
        <4> QED BY <4>1, <4>2
      <3> QED BY <1>1, <2>3, <3>2, <3>4, <3>5, <3>6 DEF RowInv
    <2> QED BY <1>1, <2>1, <2>2, <2>3 DEF DInv
  <1>2. ASSUME NEW k \in Calls, HandlerStep(k)
        PROVE  UNCHANGED <<call, conn, addCode>>
    <2>1. HandlerUnchanged
      BY <1>2, Zenon DEF HandlerStep, HTop, HRead, HExit, HDispatch, HSend, HPubMake,
                         HPubWrite, HPubDelete
    <2> QED BY <2>1 DEF HandlerUnchanged
  <1>3. ASSUME NEW k \in Calls, EnvStep(k)
        PROVE  UNCHANGED <<call, conn, addCode>>
    <2>1. CASE SrvServe(k)
      BY <2>1, Zenon DEF SrvServe
    <2> QED BY <1>3, <2>1 DEF EnvStep, SrvPush, Lose
  <1>4. MapFault => UNCHANGED <<call, conn, addCode>>
    BY DEF MapFault
  <1> QED BY <1>1, <1>2, <1>3, <1>4, DInvStays DEF ClientStep, Step

-----------------------------------------------------------------------------
(* The replies to the calls of the window. What Client's proofs ask of the  *)
(* order of calls (MayStart) follows here from the widgets.                 *)

MadeOf(X) == {c \in Calls : call[c].pc # "idle" /\ call[c].op \in X}

ManyConnects == \E c, d \in MadeOf({"INIT"}) : c # d
ManyPanels   == \E c, d \in MadeOf(PanelOps) : c # d
Mixed        == ManyConnects /\ ManyPanels

\* Panel call c, its goroutine or its callback, is under way.
PanelOut(c) ==
    /\ call[c].op \in PanelOps
    /\ \/ InFlight(c)
       \/ call[c].pc = "done" /\ c \notin ui.posted
       \/ \E i \in DOMAIN ui.idle : ui.idle[i] = c

\* While there was only one Connect, the expander keeps panel calls apart.
PanelInv ==
    ~ManyConnects =>
        /\ \A c, d \in Calls : PanelOut(c) /\ PanelOut(d) => c = d
        /\ ui.exp => \A c \in Calls : ~PanelOut(c)
        /\ MadeOf(PanelOps) # {} => \A c \in Calls : Out(c) => call[c].op # "INIT"
        /\ ui.online \/ MadeOf(PanelOps) # {} => MadeOf({"INIT"}) # {}

FiniteInv == IsFiniteSet({c \in Calls : call[c].pc # "idle"})

WindowInv ==
    ui.shut = Nil => /\ IInv /\ IdleInv /\ PanelInv /\ FiniteInv
                     /\ ~Mixed => RInv

LEMMA InitWindow == DesktopInit => WindowInv
  <1> SUFFICES ASSUME DesktopInit
               PROVE  IInv /\ IdleInv /\ PanelInv /\ FiniteInv /\ RInv
    BY DEF WindowInv
  <1>1. IInv /\ IdleInv /\ RInv
    BY InitIInv, InitReply DEF DesktopInit
  <1>2. \A c \in Calls : call[c].pc = "idle"
    BY DEF DesktopInit, Init
  <1>3. FiniteInv
    <2>1. {c \in Calls : call[c].pc # "idle"} = {}
      BY <1>2
    <2> QED BY <2>1, FS_EmptySet DEF FiniteInv
  <1>4. PanelInv
    BY <1>2 DEF DesktopInit, PanelInv, PanelOut, InFlight, MadeOf
  <1> QED BY <1>1, <1>3, <1>4

\* Two Connects and two panel calls are what MayMix counts.
LEMMA MixedIsCounted ==
    ASSUME FiniteInv, Mixed
    PROVE  MayMix
  <1>1. ASSUME NEW X, NEW c \in MadeOf(X), NEW d \in MadeOf(X), c # d
        PROVE  Cardinality(MadeOf(X)) > 1
    <2>1. IsFiniteSet(MadeOf(X))
      <3>1. MadeOf(X) \subseteq {e \in Calls : call[e].pc # "idle"}
        BY DEF MadeOf
      <3> QED BY <3>1, FS_Subset DEF FiniteInv
    <2>2. {c, d} \subseteq MadeOf(X)
      BY <1>1
    <2>3. Cardinality({c, d}) = 2
      <3>1. IsFiniteSet({c}) /\ Cardinality({c}) = 1
        BY FS_Singleton
      <3>2. Cardinality({c} \cup {d}) = Cardinality({c}) + 1
        BY <1>1, <3>1, FS_AddElement
      <3>3. {c} \cup {d} = {c, d}
        OBVIOUS
      <3> QED BY <3>1, <3>2, <3>3
    <2>4. Cardinality({c, d}) <= Cardinality(MadeOf(X)) /\ Cardinality(MadeOf(X)) \in Nat
      BY <2>1, <2>2, FS_Subset, FS_CardinalityType
    <2> HIDE DEF MadeOf
    <2> QED BY <2>3, <2>4
  <1>2. Cardinality(MadeOf({"INIT"})) > 1 /\ Cardinality(MadeOf(PanelOps)) > 1
    BY <1>1 DEF Mixed, ManyConnects, ManyPanels
  <1> QED BY <1>2 DEF MayMix, MadeOf

\* What the window has seen of a call is not forgotten.
LEMMA MadeStays ==
    ASSUME \A d \in Calls : call[d].pc # "idle" =>
               call'[d].pc # "idle" /\ call'[d].op = call[d].op
    PROVE  /\ \A X : MadeOf(X) \subseteq MadeOf(X)'
           /\ ManyConnects => ManyConnects'
           /\ Mixed => Mixed'
  <1>1. \A X : MadeOf(X) \subseteq MadeOf(X)'
    BY DEF MadeOf
  <1> QED BY <1>1 DEF ManyConnects, ManyPanels, Mixed

\* A step that starts no call and makes no widget sensitive.
LEMMA PanelStays ==
    ASSUME PanelInv,
           \A d \in Calls : /\ call'[d].pc = "idle" <=> call[d].pc = "idle"
                            /\ call'[d].op = call[d].op
                            /\ PanelOut(d)' => PanelOut(d)
                            /\ Out(d)' => Out(d),
           ui'.exp => ui.exp, ui'.online => ui.online
    PROVE  PanelInv' /\ MadeOf(PanelOps)' = MadeOf(PanelOps)
           /\ MadeOf({"INIT"})' = MadeOf({"INIT"})
  <1>1. MadeOf(PanelOps)' = MadeOf(PanelOps) /\ MadeOf({"INIT"})' = MadeOf({"INIT"})
    BY DEF MadeOf
  <1>2. ManyConnects' <=> ManyConnects
    BY <1>1 DEF ManyConnects
  <1> QED BY <1>1, <1>2 DEF PanelInv

\* A handler starts call c.
LEMMA StartKeeps ==
    ASSUME DInv, IdleInv, FiniteInv, NEW c \in Calls,
           NEW op \in StatusOps \cup PanelOps, Invoke(c, op)
    PROVE  /\ IdleInv' /\ FiniteInv'
           /\ Mixed => Mixed'
           /\ ManyConnects => ManyConnects'
           /\ call[c].pc = "idle" /\ call'[c].op = op /\ call'[c].pc # "idle"
           /\ InFlight(c)'
           /\ \A d \in Calls \ {c} : call'[d] = call[d]
           /\ op \in PanelOps => MadeOf(PanelOps)' = MadeOf(PanelOps) \cup {c}
           /\ op \notin PanelOps => MadeOf(PanelOps)' = MadeOf(PanelOps)
           /\ op = "INIT" => MadeOf({"INIT"})' = MadeOf({"INIT"}) \cup {c}
           /\ op # "INIT" => MadeOf({"INIT"})' = MadeOf({"INIT"})
  <1>1. /\ call[c].pc = "idle" /\ call'[c].op = op /\ call'[c].pc # "idle"
        /\ \A d \in Calls \ {c} : call'[d] = call[d]
        /\ InFlight(c)'
    BY InvokeEffect DEF DInv, Others, InFlight
  <1>2. IdleInv'
    BY <1>1 DEF IdleInv
  <1>3. FiniteInv'
    <2>1. {d \in Calls : call'[d].pc # "idle"}
              = {d \in Calls : call[d].pc # "idle"} \cup {c}
      BY <1>1
    <2>2. IsFiniteSet({d \in Calls : call[d].pc # "idle"} \cup {c})
      BY FS_AddElement DEF FiniteInv
    <2> QED BY <2>1, <2>2 DEF FiniteInv
  <1>4. \A d \in Calls : call[d].pc # "idle" =>
            call'[d].pc # "idle" /\ call'[d].op = call[d].op
    BY <1>1
  <1>5. (Mixed => Mixed') /\ (ManyConnects => ManyConnects')
    BY <1>4, MadeStays
  <1>6. ASSUME NEW X
        PROVE  MadeOf(X)' = IF op \in X THEN MadeOf(X) \cup {c} ELSE MadeOf(X)
    BY <1>1 DEF MadeOf
  <1> QED BY <1>1, <1>2, <1>3, <1>5, <1>6

\* The row is sensitive: no Connect or Disconnect is left.
LEMMA ClickWindow ==
    ASSUME DInv, WindowInv, ui.shut = Nil, NEW c \in Calls, ClickStatus(c)
    PROVE  WindowInv'
  <1> DEFINE op == IF ui.online THEN "QUIT" ELSE "INIT"
  <1>0. /\ IInv /\ IdleInv /\ PanelInv /\ FiniteInv /\ (~Mixed => RInv)
        /\ ui \in UiType /\ RowInv
    BY DEF WindowInv, DInv, DesktopTypeOK, UiType
  <1>1. /\ ui.row /\ Invoke(c, op) /\ ui' = [ui EXCEPT !.row = FALSE]
        /\ op \in StatusOps /\ op \in Operations /\ op \notin PanelOps
    BY DEF ClickStatus, RowOff, StatusOps, PanelOps, Operations
  <1>2. /\ ui'.idle = ui.idle /\ ui'.posted = ui.posted
        /\ ui'.exp = ui.exp /\ ui'.online = ui.online
    BY <1>0, <1>1 DEF UiType
  <1>3. \A d \in Calls : InFlight(d) => call[d].op \notin StatusOps
    BY <1>0, <1>1 DEF RowInv, Out
  <1>4. IInv'
    BY <1>0, <1>1, <1>3, InvokeInv DEF OpInFlight
  <1>5. /\ IdleInv' /\ FiniteInv' /\ (Mixed => Mixed')
        /\ (ManyConnects => ManyConnects')
        /\ call[c].pc = "idle" /\ call'[c].op = op /\ call'[c].pc # "idle"
        /\ \A d \in Calls \ {c} : call'[d] = call[d]
        /\ MadeOf(PanelOps)' = MadeOf(PanelOps)
        /\ op = "INIT" => MadeOf({"INIT"})' = MadeOf({"INIT"}) \cup {c}
        /\ op # "INIT" => MadeOf({"INIT"})' = MadeOf({"INIT"})
    BY <1>0, <1>1, StartKeeps
  <1>6. ~Mixed' => RInv'
    BY <1>0, <1>1, <1>3, <1>5, InvokeReply
  <1>7. PanelInv'
    <2> SUFFICES ASSUME ~ManyConnects' PROVE PanelInv'
      BY DEF PanelInv
    <2>1. /\ \A d, e \in Calls : PanelOut(d) /\ PanelOut(e) => d = e
          /\ ui.exp => \A d \in Calls : ~PanelOut(d)
          /\ ui.online \/ MadeOf(PanelOps) # {} => MadeOf({"INIT"}) # {}
      BY <1>0, <1>5 DEF PanelInv
    <2>2. \A d \in Calls : PanelOut(d)' => PanelOut(d)
      <3>1. ~PanelOut(c)'
        BY <1>1, <1>5 DEF PanelOut
      <3> QED BY <1>2, <1>5, <3>1 DEF PanelOut, InFlight
    <2>3. MadeOf(PanelOps) # {} => op # "INIT"
      <3> SUFFICES ASSUME op = "INIT", NEW e \in MadeOf({"INIT"}) PROVE FALSE
        BY <2>1
      <3>1. e # c /\ e \in MadeOf({"INIT"})' /\ c \in MadeOf({"INIT"})'
        BY <1>5 DEF MadeOf
      <3> QED BY <3>1 DEF ManyConnects
    <2>4. ASSUME MadeOf(PanelOps) # {}, NEW d \in Calls, Out(d)'
          PROVE  call'[d].op # "INIT"
      <3>1. CASE d = c
        BY <1>5, <2>3, <2>4, <3>1
      <3>2. CASE d # c
        <4>1. call'[d] = call[d]
          BY <1>5, <3>2
        <4>2. Out(d)
          BY <1>2, <2>4, <4>1 DEF Out, InFlight
        <4> QED BY <1>0, <1>1, <4>2 DEF RowInv
      <3> QED BY <3>1, <3>2
    <2>5. MadeOf({"INIT"}) \subseteq MadeOf({"INIT"})'
      BY <1>5
    <2> QED BY <1>2, <1>5, <2>1, <2>2, <2>4, <2>5 DEF PanelInv
  <1> QED BY <1>4, <1>5, <1>6, <1>7 DEF WindowInv

\* The panel is sensitive: the window is online, and unless there was another
\* Connect no panel call is left.
LEMMA ActivateWindow ==
    ASSUME DInv, WindowInv, ui.shut = Nil, NEW c \in Calls, ActivateOnline(c)
    PROVE  WindowInv'
  <1> DEFINE op == IF ui.open THEN "RADC" ELSE "GADC"
  <1>0. /\ IInv /\ IdleInv /\ PanelInv /\ FiniteInv /\ (~Mixed => RInv)
        /\ ui \in UiType /\ RowInv
    BY DEF WindowInv, DInv, DesktopTypeOK, UiType
  <1>1. /\ ui.exp /\ ui.online /\ Invoke(c, op)
        /\ ui' = [ui EXCEPT !.exp = FALSE, !.open = ~@]
        /\ op \in PanelOps /\ op \in Operations /\ op \notin StatusOps /\ op # "INIT"
    BY DEF ActivateOnline, StatusOps, PanelOps, Operations
  <1>2. /\ ui'.idle = ui.idle /\ ui'.posted = ui.posted
        /\ ~ui'.exp /\ ui'.online
    BY <1>0, <1>1 DEF UiType
  <1>4. IInv'
    BY <1>0, <1>1, InvokeInv
  <1>5. /\ IdleInv' /\ FiniteInv' /\ (Mixed => Mixed')
        /\ (ManyConnects => ManyConnects')
        /\ call[c].pc = "idle" /\ call'[c].op = op /\ call'[c].pc # "idle"
        /\ \A d \in Calls \ {c} : call'[d] = call[d]
        /\ MadeOf(PanelOps)' = MadeOf(PanelOps) \cup {c}
        /\ MadeOf({"INIT"})' = MadeOf({"INIT"})
    BY <1>0, <1>1, StartKeeps
  <1>6. ASSUME ~Mixed', NEW d \in Calls, InFlight(d), call[d].op = op
        PROVE  FALSE
    <2>1. CASE ManyConnects
      <3>1. d # c /\ d \in MadeOf(PanelOps)' /\ c \in MadeOf(PanelOps)'
        BY <1>1, <1>5, <1>6 DEF MadeOf, InFlight
      <3> QED BY <1>5, <1>6, <2>1, <3>1 DEF Mixed, ManyPanels
    <2>2. CASE ~ManyConnects
      BY <1>0, <1>1, <1>6, <2>2 DEF PanelInv, PanelOut
    <2> QED BY <2>1, <2>2
  <1>7. ~Mixed' => RInv'
    BY <1>0, <1>1, <1>5, <1>6, InvokeReply
  <1>8. PanelInv'
    <2> SUFFICES ASSUME ~ManyConnects' PROVE PanelInv'
      BY DEF PanelInv
    <2>1. /\ \A d \in Calls : ~PanelOut(d)
          /\ MadeOf({"INIT"}) # {}
      BY <1>0, <1>1, <1>5 DEF PanelInv
    <2>2. \A d \in Calls \ {c} : ~PanelOut(d)'
      BY <1>2, <1>5, <2>1 DEF PanelOut, InFlight
    <2>3. ASSUME NEW d \in Calls, Out(d)'
          PROVE  call'[d].op # "INIT"
      <3>1. CASE d = c
        BY <1>1, <1>5, <3>1
      <3>2. CASE d # c
        <4>1. call'[d] = call[d]
          BY <1>5, <3>2
        <4>2. Out(d)
          BY <1>2, <2>3, <4>1 DEF Out, InFlight
        <4> QED BY <1>0, <1>1, <4>1, <4>2 DEF RowInv
      <3> QED BY <3>1, <3>2
    <2> QED BY <1>2, <1>5, <2>1, <2>2, <2>3 DEF PanelInv
  <1> QED BY <1>4, <1>5, <1>7, <1>8 DEF WindowInv

\* The steps of the main loop and of the user that start no call.
LEMMA QuietWindow ==
    ASSUME WindowInv, ui.shut = Nil, PanelInv',
           UNCHANGED <<call, hdl, net, conn, chanMap, buf, addCode, verdict>>,
           fate' \in {"running", "nilpanic", "mapfault", "indexpanic", "exited"}
    PROVE  WindowInv'
  <1>1. IInv' /\ (RInv => RInv')
    BY FateOnly, StutterReply DEF WindowInv
  <1>2. IdleInv' /\ FiniteInv' /\ (Mixed' <=> Mixed)
    BY DEF WindowInv, IdleInv, FiniteInv, Mixed, ManyConnects, ManyPanels, MadeOf
  <1> QED BY <1>1, <1>2 DEF WindowInv

LEMMA OfflineWindow ==
    ASSUME DInv, WindowInv, ui.shut = Nil, ActivateOffline
    PROVE  WindowInv'
  <1>1. /\ ui \in UiType /\ ui' = [ui EXCEPT !.open = FALSE] /\ UNCHANGED vars
        /\ PanelInv /\ IInv
    BY DEF ActivateOffline, WindowInv, DInv, DesktopTypeOK, UiType
  <1>2. /\ ui'.idle = ui.idle /\ ui'.posted = ui.posted
        /\ ui'.exp = ui.exp /\ ui'.online = ui.online
    BY <1>1 DEF UiType
  <1>3. UNCHANGED call /\ fate' \in {"running", "nilpanic", "mapfault", "indexpanic", "exited"}
    BY <1>1 DEF vars, IInv, TypeOK
  <1>4. \A d \in Calls : (PanelOut(d)' <=> PanelOut(d)) /\ (Out(d)' <=> Out(d))
    BY <1>2, <1>3 DEF PanelOut, Out, InFlight
  <1>5. PanelInv'
    BY <1>1, <1>2, <1>3, <1>4, PanelStays
  <1> QED BY <1>1, <1>3, <1>5, QuietWindow DEF vars

LEMMA PostWindow ==
    ASSUME DInv, WindowInv, ui.shut = Nil, NEW c \in Calls, Post(c)
    PROVE  WindowInv'
  <1>1. /\ ui \in UiType /\ ui.idle \in Seq(Calls) /\ UNCHANGED vars
        /\ ui' = [ui EXCEPT !.idle = Append(@, c), !.posted = @ \cup {c}]
        /\ call[c].pc = "done" /\ c \notin ui.posted
        /\ PanelInv /\ IInv
    BY DEF Post, Returned, WindowInv, DInv, DesktopTypeOK, UiType
  <1>2. /\ ui'.idle = Append(ui.idle, c) /\ ui'.posted = ui.posted \cup {c}
        /\ ui'.exp = ui.exp /\ ui'.online = ui.online
    BY <1>1 DEF UiType
  <1>3. UNCHANGED call /\ fate' \in {"running", "nilpanic", "mapfault", "indexpanic", "exited"}
    BY <1>1 DEF vars, IInv, TypeOK
  <1>4. \A i \in DOMAIN ui'.idle :
            ui'.idle[i] = c \/ (i \in DOMAIN ui.idle /\ ui'.idle[i] = ui.idle[i])
    BY <1>1, <1>2, AppendAt
  <1>5. \A d \in Calls : (PanelOut(d)' => PanelOut(d)) /\ (Out(d)' => Out(d))
    BY <1>1, <1>2, <1>3, <1>4 DEF PanelOut, Out, InFlight
  <1>6. PanelInv'
    BY <1>1, <1>2, <1>3, <1>5, PanelStays
  <1> QED BY <1>1, <1>3, <1>6, QuietWindow DEF vars

\* Connect's callback makes the expander sensitive when no panel call is left
\* of this connection; a panel call's, when it was the only one.
LEMMA CallbackWindow ==
    ASSUME DInv, WindowInv, ui.shut = Nil, Callback
    PROVE  WindowInv'
  <1>0. /\ UNCHANGED <<call, hdl, net, conn, chanMap, buf, addCode, verdict>>
        /\ fate' \in {fate, "indexpanic"}
    <2>1. UNCHANGED <<call, hdl, net, conn, chanMap, buf, addCode, verdict>>
      BY Zenon DEF Callback
    <2>2. fate' \in {fate, "indexpanic"}
      <3> DEFINE P == call[Head(ui.idle)].op = "GADC"
                      /\ call[Head(ui.idle)].result = "ok" /\ addCode = Nil
      <3>1. fate' = IF P THEN "indexpanic" ELSE fate
        BY Zenon DEF Callback
      <3> HIDE DEF P
      <3> QED BY <3>1
    <2> QED BY <2>1, <2>2
  <1>1. PICK c \in Calls : CallbackOf(c)
    BY CallbackEffect
  <1>2. call[c].op \in StatusOps \cup PanelOps
    BY DEF DInv, CallsInv
  <1>3. /\ \A d \in Calls \ {c} : (PanelOut(d)' => PanelOut(d)) /\ (Out(d)' => Out(d))
        /\ ~PanelOut(c)' /\ ~Out(c)'
    BY <1>0, <1>1 DEF CallbackOf, PanelOut, Out, InFlight
  <1>4. MadeOf(PanelOps)' = MadeOf(PanelOps) /\ MadeOf({"INIT"})' = MadeOf({"INIT"})
    BY <1>0 DEF MadeOf
  <1>5. PanelInv'
    <2> SUFFICES ASSUME ~ManyConnects' PROVE PanelInv'
      BY DEF PanelInv
    <2>0. /\ \A d, e \in Calls : PanelOut(d) /\ PanelOut(e) => d = e
          /\ ui.exp => \A d \in Calls : ~PanelOut(d)
          /\ MadeOf(PanelOps) # {} => \A d \in Calls : Out(d) => call[d].op # "INIT"
          /\ ui.online \/ MadeOf(PanelOps) # {} => MadeOf({"INIT"}) # {}
      BY <1>4 DEF WindowInv, PanelInv, ManyConnects
    <2>1. c \in MadeOf({call[c].op}) /\ call[c].pc # "idle"
      BY <1>1 DEF CallbackOf, MadeOf
    <2>2. ui'.exp => \A d \in Calls : ~PanelOut(d)'
      <3>1. CASE call[c].op = "INIT"
        <4>1. Out(c)
          BY <1>1, <3>1 DEF CallbackOf, Out, StatusOps
        <4>2. MadeOf(PanelOps) = {}
          BY <2>0, <3>1, <4>1
        <4>3. \A d \in Calls : call[d].op \in PanelOps => call[d].pc = "idle"
          BY <4>2 DEF MadeOf
        <4>4. \A d \in Calls : call[d].pc = "idle" => ~PanelOut(d)
          BY IdleNotOut DEF DInv, PanelOut, InFlight
        <4> QED BY <1>3, <4>3, <4>4 DEF PanelOut
      <3>2. CASE call[c].op = "QUIT"
        BY <1>1, <1>3, <2>0, <3>2 DEF CallbackOf
      <3>3. CASE call[c].op \in PanelOps
        <4>1. PanelOut(c)
          BY <1>1, <3>3 DEF CallbackOf, PanelOut
        <4> QED BY <1>3, <2>0, <4>1
      <3> QED BY <1>2, <3>1, <3>2, <3>3 DEF StatusOps
    <2>3. ui'.online => MadeOf({"INIT"}) # {}
      <3>1. CASE call[c].op = "INIT"
        BY <2>1, <3>1
      <3>2. CASE call[c].op = "QUIT"
        BY <1>1, <2>0, <3>2 DEF CallbackOf
      <3>3. CASE call[c].op \in PanelOps
        BY <1>1, <2>0, <3>3 DEF CallbackOf
      <3> QED BY <1>2, <3>1, <3>2, <3>3 DEF StatusOps
    <2> QED BY <1>0, <1>3, <1>4, <2>0, <2>2, <2>3 DEF PanelInv
  <1>6. fate' \in {"running", "nilpanic", "mapfault", "indexpanic", "exited"}
    BY <1>0 DEF WindowInv, IInv, TypeOK
  <1> QED BY <1>0, <1>5, <1>6, QuietWindow

LEMMA ClientWindow ==
    ASSUME DInv, WindowInv, ui.shut = Nil, ClientStep
    PROVE  WindowInv'
  <1>0. /\ IInv /\ IdleInv /\ PanelInv /\ FiniteInv /\ (~Mixed => RInv) /\ UNCHANGED ui
    BY DEF WindowInv, ClientStep
  <1>1. ASSUME NEW c \in Calls, CallStep(c)
        PROVE  WindowInv'
    <2>1. IInv'
      BY <1>0, <1>1, CallStepInv
    <2>2. ~Mixed => RInv'
      BY <1>0, <1>1, <2>1, CallReply
    <2>3. Effect(c)
      BY <1>1, EffectOfCall DEF DInv
    <2>4. \A d \in Calls : /\ call'[d].pc = "idle" <=> call[d].pc = "idle"
                           /\ call'[d].op = call[d].op
                           /\ PanelOut(d)' => PanelOut(d)
                           /\ Out(d)' => Out(d)
      BY <1>0, <2>3 DEF Effect, Others, InFlight, PanelOut, Out
    <2>5. PanelInv' /\ (Mixed => Mixed')
      BY <1>0, <2>4, PanelStays, MadeStays
    <2>6. IdleInv' /\ FiniteInv'
      <3>1. {d \in Calls : call'[d].pc # "idle"} = {d \in Calls : call[d].pc # "idle"}
        BY <2>4
      <3> QED BY <1>0, <2>4, <3>1 DEF IdleInv, FiniteInv
    <2> QED BY <2>1, <2>2, <2>5, <2>6 DEF WindowInv
  <1>2. ASSUME UNCHANGED call, IInv', ~Mixed => RInv'
        PROVE  WindowInv'
    <2>1. IdleInv' /\ FiniteInv' /\ (Mixed' <=> Mixed)
      BY <1>0, <1>2 DEF IdleInv, FiniteInv, Mixed, ManyConnects, ManyPanels, MadeOf
    <2>2. PanelInv'
      BY <1>0, <1>2 DEF PanelInv, ManyConnects, MadeOf, PanelOut, Out, InFlight
    <2> QED BY <1>2, <2>1, <2>2 DEF WindowInv
  <1>3. ASSUME NEW k \in Calls, HandlerStep(k)
        PROVE  WindowInv'
    <2>1. k \in Conns
      BY DEF Conns
    <2>2. IInv'
      BY <1>0, <1>3, <2>1, HTopInv, HReadInv, HMoveInv, HPubInv DEF HandlerStep
    <2>3. UNCHANGED call
      BY <1>3 DEF HandlerStep, HTop, HRead, HExit, HDispatch, HSend, HPubMake,
                  HPubWrite, HPubDelete, HandlerUnchanged
    <2> QED BY <1>0, <1>2, <1>3, <2>1, <2>2, <2>3, HandlerReply
  <1>4. ASSUME NEW k \in Calls, EnvStep(k)
        PROVE  WindowInv'
    <2>1. k \in Conns
      BY DEF Conns
    <2>2. IInv'
      BY <1>0, <1>4, <2>1, EnvInv
    <2>3. UNCHANGED call
      <3>1. CASE SrvServe(k)
        BY <3>1, Zenon DEF SrvServe
      <3> QED BY <1>4, <3>1 DEF EnvStep, SrvPush, Lose
    <2> QED BY <1>0, <1>2, <1>4, <2>1, <2>2, <2>3, EnvReply
  <1>5. CASE MapFault
    BY <1>0, <1>2, <1>5, FateOnly, StutterReply DEF MapFault
  <1> QED BY <1>1, <1>3, <1>4, <1>5 DEF ClientStep, Step

-----------------------------------------------------------------------------
(* The theorems.                                                            *)

LEMMA DesktopInvariant == DesktopSpec => []DInv
  <1>1. DInv /\ [DesktopNext]_dvars => DInv'
    <2>1. DInv /\ UNCHANGED dvars => DInv'
      BY DInvStays DEF dvars, vars
    <2> QED BY <2>1, UserInv, LoopInv, ClientInv DEF DesktopNext, DesktopRest
  <1> QED BY <1>1, InitDInv, PTL DEF DesktopSpec

\* The widgets keep their types, and a callback is queued only for a call that
\* has returned.
THEOREM WindowTyped == DesktopSpec => []DesktopTypeOK
  <1>1. DInv => DesktopTypeOK
    BY DEF DInv
  <1> QED BY <1>1, DesktopInvariant, PTL

\* However many clicks there are and whatever the network does: Connect and
\* Disconnect do not overlap, and nothing is left of them when the status row
\* takes a click (ui.go:340, 344, 377, 395), until the shutdown.
THEOREM StatusCallsApart == DesktopSpec => []OneStatusCall
  <1>1. DInv => OneStatusCall
    BY DEF DInv, RowInv, OneStatusCall, Ongoing, Out, StatusOps
  <1> QED BY <1>1, DesktopInvariant, PTL

\* A click on an "Online" row finds a connection to close (ui.go:336).
THEOREM OnlineIsConnected == DesktopSpec => []OnlineHasConnection
  <1>1. DInv => OnlineHasConnection
    BY DEF DInv, RowInv, OnlineHasConnection
  <1> QED BY <1>1, DesktopInvariant, PTL

LEMMA WindowInvariant == DesktopSpec => [](DInv /\ WindowInv)
  <1>1. DInv /\ WindowInv /\ [DesktopNext]_dvars => WindowInv'
    <2> SUFFICES ASSUME DInv, WindowInv, [DesktopNext]_dvars, ui'.shut = Nil
                 PROVE  WindowInv'
      BY DEF WindowInv
    <2>1. CASE UserStep
      <3>1. ui.shut = Nil
        BY <2>1 DEF UserStep
      <3>2. ASSUME NEW c \in Calls, ShutDown(c)
            PROVE  FALSE
        <4>1. ui'.shut = c
          BY <3>2 DEF ShutDown, DInv, DesktopTypeOK
        <4> QED BY <4>1, ClientAssumption
      <3> QED BY <2>1, <3>1, <3>2, OfflineWindow, ClickWindow, ActivateWindow
              DEF UserStep
    <2>2. CASE LoopStep
      <3>1. ASSUME NEW c \in Calls, Exit(c)
            PROVE  FALSE
        BY <3>1, ClientAssumption DEF Exit
      <3> QED BY <2>2, <3>1, CallbackWindow, PostWindow DEF LoopStep
    <2>3. CASE ClientStep
      BY <2>3, ClientWindow DEF ClientStep
    <2>4. CASE UNCHANGED dvars
      <3>1. UNCHANGED <<call, hdl, net, conn, chanMap, buf, addCode, verdict, fate, ui>>
        BY <2>4 DEF dvars, vars
      <3>2. IInv /\ PanelInv /\ ui.shut = Nil
        BY <3>1 DEF WindowInv
      <3>3. PanelInv'
        BY <3>1, <3>2 DEF PanelInv, ManyConnects, MadeOf, PanelOut, Out, InFlight
      <3>4. fate' \in {"running", "nilpanic", "mapfault", "indexpanic", "exited"}
        BY <3>1, <3>2 DEF IInv, TypeOK
      <3> QED BY <3>1, <3>2, <3>3, <3>4, QuietWindow
    <2> QED BY <2>1, <2>2, <2>3, <2>4 DEF DesktopNext, DesktopRest
  <1> QED BY <1>1, InitWindow, DesktopInvariant, PTL DEF DesktopSpec

\* The widgets keep the calls in an order in which each takes its own replies
\* and returns what the server decided: clicks on the row and on the expander
\* in any order (ui.go:203, 330), with callbacks that come late and whatever
\* the network does, until the shutdown or until there are two Connects and
\* two panel calls.
THEOREM RepliesInWindow == DesktopSpec => []OwnReplyInWindow
  <1>1. WindowInv => OwnReplyInWindow
    BY MixedIsCounted, TakenIsOwn, ReturnedIsDecided DEF WindowInv, OwnReplyInWindow
  <1> QED BY <1>1, WindowInvariant, PTL

-----------------------------------------------------------------------------
(* Who may meet a nil connection.                                           *)

QuitOk == \E c \in Calls : call[c].op = "QUIT" /\ GivenUp(c)

\* Where the window lets panel calls start, a connection is missing only after
\* a Disconnect that succeeded.
MissingInv ==
    ui.online \/ MadeOf(PanelOps) # {} => conn \in Conns \/ QuitOk

NilInv == ui.shut = Nil => MissingInv /\ NilOnlyInPanel

LEMMA QuitStays ==
    ASSUME QuitOk, \A d \in Calls : call[d].pc = "done" => call'[d] = call[d]
    PROVE  QuitOk'
  BY DEF QuitOk, GivenUp

\* A step that starts no panel call and does not touch client.conn.
LEMMA MissingKept ==
    ASSUME MissingInv, UNCHANGED conn, ui'.online => ui.online \/ conn \in Conns,
           MadeOf(PanelOps)' = MadeOf(PanelOps),
           \A d \in Calls : call[d].pc = "done" => call'[d] = call[d]
    PROVE  MissingInv'
  BY QuitStays DEF MissingInv

LEMMA UserMissing ==
    ASSUME DInv, WindowInv, MissingInv, UserStep, ui'.shut = Nil
    PROVE  MissingInv'
  <1>0. /\ ui.shut = Nil /\ RowInv /\ ui \in UiType /\ IdleInv /\ FiniteInv
    BY DEF UserStep, DInv, WindowInv, DesktopTypeOK, UiType
  <1>1. CASE ActivateOffline
    <2>1. UNCHANGED <<call, conn>> /\ ui'.online = ui.online
      BY <1>0, <1>1 DEF ActivateOffline, vars, UiType
    <2> QED BY <2>1, MissingKept DEF MadeOf
  <1>2. ASSUME NEW c \in Calls, ClickStatus(c)
        PROVE  MissingInv'
    <2> DEFINE op == IF ui.online THEN "QUIT" ELSE "INIT"
    <2>1. Invoke(c, op) /\ op \in StatusOps \cup PanelOps /\ op \notin PanelOps
      BY <1>2 DEF ClickStatus, StatusOps, PanelOps
    <2>2. ui'.online = ui.online
      BY <1>0, <1>2 DEF ClickStatus, UiType
    <2>3. UNCHANGED conn
      BY <2>1 DEF Invoke
    <2> HIDE DEF op
    <2>4. /\ MadeOf(PanelOps)' = MadeOf(PanelOps) /\ call[c].pc = "idle"
          /\ \A d \in Calls \ {c} : call'[d] = call[d]
      BY <1>0, <2>1, StartKeeps
    <2> QED BY <2>2, <2>3, <2>4, MissingKept
  <1>3. ASSUME NEW c \in Calls, ActivateOnline(c)
        PROVE  MissingInv'
    <2> DEFINE op == IF ui.open THEN "RADC" ELSE "GADC"
    <2>1. ui.online /\ Invoke(c, op) /\ op \in StatusOps \cup PanelOps
      BY <1>3 DEF ActivateOnline, StatusOps, PanelOps
    <2>2. UNCHANGED conn
      BY <2>1 DEF Invoke
    <2> HIDE DEF op
    <2>3. /\ call[c].pc = "idle"
          /\ \A d \in Calls \ {c} : call'[d] = call[d]
      BY <1>0, <2>1, StartKeeps
    <2>4. conn \in Conns \/ QuitOk'
      BY <2>1, <2>3, QuitStays DEF MissingInv
    <2> QED BY <2>2, <2>4 DEF MissingInv
  <1>4. ASSUME NEW c \in Calls, ShutDown(c)
        PROVE  FALSE
    <2>1. ui'.shut = c
      BY <1>0, <1>4 DEF ShutDown, UiType
    <2> QED BY <2>1, ClientAssumption
  <1> QED BY <1>1, <1>2, <1>3, <1>4 DEF UserStep

\* Only Connect's callback makes the window online, with a connection.
LEMMA CallbackMissing ==
    ASSUME DInv, MissingInv, ui.shut = Nil, Callback
    PROVE  MissingInv'
  <1>1. UNCHANGED <<call, conn>>
    BY Zenon DEF Callback
  <1>2. PICK c \in Calls : CallbackOf(c)
    BY CallbackEffect
  <1>3. call[c].op \in StatusOps \cup PanelOps /\ RowInv
    BY DEF DInv, CallsInv
  <1>4. ui'.online => ui.online \/ conn \in Conns
    <2>1. CASE call[c].op = "INIT"
      <3>1. Out(c)
        BY <1>2, <2>1 DEF CallbackOf, Out, StatusOps
      <3> QED BY <1>2, <1>3, <2>1, <3>1 DEF CallbackOf, RowInv, Connected
    <2>2. CASE call[c].op = "QUIT"
      BY <1>2, <2>2 DEF CallbackOf
    <2>3. CASE call[c].op \in PanelOps
      BY <1>2, <2>3 DEF CallbackOf
    <2> QED BY <1>3, <2>1, <2>2, <2>3 DEF StatusOps
  <1> QED BY <1>1, <1>4, MissingKept DEF MadeOf

\* Connect dials when client.conn is nil, and Disconnect clears it when it
\* succeeds.
LEMMA CallMissing ==
    ASSUME DInv, IInv, MissingInv, UNCHANGED ui, NEW c \in Calls, CallStep(c)
    PROVE  MissingInv'
  <1>1. Effect(c)
    BY EffectOfCall DEF DInv
  <1>2. /\ \A d \in Calls : /\ call'[d].pc = "idle" <=> call[d].pc = "idle"
                            /\ call'[d].op = call[d].op
                            /\ call[d].pc = "done" => call'[d] = call[d]
    BY <1>1 DEF Effect, Others, InFlight
  <1>3. MadeOf(PanelOps)' = MadeOf(PanelOps)
    BY <1>2 DEF MadeOf
  <1>4. CASE Dial(c)
    <2>1. conn \notin Conns
      BY <1>4, ClientAssumption DEF Dial, IInv, StatusInv, Conns
    <2>2. ui'.online \/ MadeOf(PanelOps)' # {} => QuitOk'
      BY <1>2, <1>3, <2>1, QuitStays DEF MissingInv
    <2> QED BY <2>2 DEF MissingInv
  <1>5. CASE Clear(c)
    <2>1. call[c].op = "QUIT"
      BY <1>5 DEF Clear, IInv, LocalsInv
    <2>2. call'[c].pc = "done" /\ call'[c].result = "ok"
      BY <1>5 DEF Clear, Finish, IInv, TypeOK, CallType
    <2>3. QuitOk'
      BY <1>2, <2>1, <2>2 DEF QuitOk, GivenUp
    <2> QED BY <2>3 DEF MissingInv
  <1>6. CASE ~Dial(c) /\ ~Clear(c)
    <2>1. UNCHANGED conn
      BY <1>6, Zenon DEF CallStep, ConnectEnter, DisconnectEnter, MakeChan, Write, Look,
                         Recv, Delete, Defer, Close
    <2> QED BY <1>2, <1>3, <2>1, MissingKept
  <1> QED BY <1>4, <1>5, <1>6

\* Every use of client.conn but that of a panel call has a connection.
LEMMA NilUse ==
    ASSUME DInv, WindowInv, MissingInv, ui.shut = Nil, ClientStep, fate' = "nilpanic"
    PROVE  NilOnlyInPanel'
  <1>0. /\ IInv /\ RowInv /\ fate = "running" /\ Nil \notin Conns /\ TypedNil \notin Conns
        /\ UNCHANGED ui
    BY ClientAssumption DEF WindowInv, DInv, ClientStep, Step, Conns
  <1>1. ASSUME NEW c \in Calls, call[c].op \in StatusOps, call[c].pc \in {"write", "sleep"}
        PROVE  conn \in Conns
    <2>1. Out(c) /\ ~GivenUp(c)
      BY <1>1 DEF Out, InFlight, GivenUp
    <2>2. call[c].op = "INIT" => call[c].pc = "write"
      BY <1>0, <1>1 DEF IInv, LocalsInv
    <2> QED BY <1>0, <1>1, <2>1, <2>2 DEF RowInv, Connected, BodyPCs, StatusOps
  <1>2. ASSUME NEW k \in Conns, hdl[k].pc \in {"top", "pubwrite"}
        PROVE  conn \in Conns
    BY <1>0, <1>2 DEF IInv, ReaderInv
  <1>3. ASSUME NEW c \in Calls, Write(c), NilConn(conn), UNCHANGED <<call, conn>>
        PROVE  NilOnlyInPanel'
    <2>1. call[c].pc = "write" /\ conn \notin Conns
      BY <1>0, <1>3 DEF Write, NilConn
    <2>2. call[c].op \in PanelOps
      BY <1>1, <2>1 DEF DInv, CallsInv
    <2>3. QuitOk
      BY <2>1, <2>2 DEF MissingInv, MadeOf
    <2> QED BY <1>3, <2>1, <2>2, <2>3 DEF NilOnlyInPanel, QuitOk, GivenUp
  <1>4. ASSUME NEW c \in Calls, CallStep(c)
        PROVE  NilOnlyInPanel'
    <2>1. CASE Write(c)
      <3>1. NilConn(conn) /\ UNCHANGED <<call, conn>>
        BY <1>0, <2>1, Zenon DEF Write
      <3> QED BY <1>3, <2>1, <3>1
    <2>2. CASE Close(c)
      <3>1. NilConn(conn) /\ call[c].pc = "sleep"
        BY <1>0, <2>2, Zenon DEF Close
      <3>2. call[c].op = "QUIT"
        BY <1>0, <3>1 DEF IInv, LocalsInv
      <3> QED BY <1>0, <1>1, <3>1, <3>2 DEF NilConn, StatusOps
    <2>3. CASE ~Write(c) /\ ~Close(c)
      <3>1. UNCHANGED fate
        BY <1>4, <2>3, Zenon DEF CallStep, ConnectEnter, Dial, DisconnectEnter, MakeChan,
                                 Look, Recv, Delete, Defer, Clear
      <3> QED BY <1>0, <3>1
    <2> QED BY <2>1, <2>2, <2>3
  <1>5. ASSUME NEW k \in Calls, HandlerStep(k)
        PROVE  FALSE
    <2>0. k \in Conns
      BY DEF Conns
    <2>1. CASE HTop(k)
      <3>1. NilConn(conn) /\ hdl[k].pc = "top"
        BY <1>0, <2>1, Zenon DEF HTop
      <3> QED BY <1>0, <1>2, <2>0, <3>1 DEF NilConn
    <2>2. CASE HPubWrite(k)
      <3>1. NilConn(conn) /\ hdl[k].pc = "pubwrite"
        BY <1>0, <2>2, Zenon DEF HPubWrite
      <3> QED BY <1>0, <1>2, <2>0, <3>1 DEF NilConn
    <2>3. CASE ~HTop(k) /\ ~HPubWrite(k)
      <3>1. UNCHANGED fate
        BY <1>5, <2>3, Zenon DEF HandlerStep, HRead, HExit, HDispatch, HSend, HPubMake,
                                 HPubDelete
      <3> QED BY <1>0, <3>1
    <2> QED BY <2>1, <2>2, <2>3
  <1>6. ASSUME NEW k \in Calls, EnvStep(k)
        PROVE  FALSE
    <2>1. CASE SrvServe(k)
      <3>1. UNCHANGED fate
        BY <2>1, Zenon DEF SrvServe
      <3> QED BY <1>0, <3>1
    <2> QED BY <1>0, <1>6, <2>1 DEF EnvStep, SrvPush, Lose
  <1>7. MapFault => FALSE
    BY DEF MapFault
  <1> QED BY <1>4, <1>5, <1>6, <1>7 DEF ClientStep, Step

LEMMA ClientNil ==
    ASSUME DInv, WindowInv, NilInv, ui.shut = Nil, ClientStep
    PROVE  NilInv'
  <1>0. IInv /\ MissingInv /\ UNCHANGED ui
    BY DEF WindowInv, NilInv, ClientStep
  <1>1. NilOnlyInPanel'
    <2>1. CASE fate' = "nilpanic"
      BY <1>0, <2>1, NilUse
    <2> QED BY <2>1 DEF NilOnlyInPanel
  <1>2. ASSUME UNCHANGED <<call, conn>>
        PROVE  MissingInv'
    BY <1>0, <1>2, MissingKept DEF MadeOf
  <1>3. ASSUME NEW k \in Calls, HandlerStep(k)
        PROVE  UNCHANGED <<call, conn>>
    <2>1. HandlerUnchanged
      BY <1>3, Zenon DEF HandlerStep, HTop, HRead, HExit, HDispatch, HSend, HPubMake,
                         HPubWrite, HPubDelete
    <2> QED BY <2>1 DEF HandlerUnchanged
  <1>4. ASSUME NEW k \in Calls, EnvStep(k)
        PROVE  UNCHANGED <<call, conn>>
    <2>1. CASE SrvServe(k)
      BY <2>1, Zenon DEF SrvServe
    <2> QED BY <1>4, <2>1 DEF EnvStep, SrvPush, Lose
  <1>5. MapFault => UNCHANGED <<call, conn>>
    BY DEF MapFault
  <1>6. MissingInv'
    BY <1>0, <1>2, <1>3, <1>4, <1>5, CallMissing DEF ClientStep, Step
  <1> QED BY <1>1, <1>6 DEF NilInv

LEMMA NilStays ==
    ASSUME DInv, WindowInv, NilInv, [DesktopNext]_dvars
    PROVE  NilInv'
  <1> SUFFICES ASSUME ui'.shut = Nil PROVE NilInv'
    BY DEF NilInv
  <1>1. CASE UserStep
    <2>1. ui.shut = Nil /\ fate = "running" /\ RowInv
      BY <1>1 DEF UserStep, DInv
    <2>2. MissingInv'
      BY <1>1, <2>1, UserMissing DEF NilInv
    <2>3. fate' # "nilpanic"
      BY <1>1, <2>1 DEF UserStep, ActivateOffline, ClickStatus, ActivateOnline, ShutDown,
                        Invoke, vars
    <2> QED BY <2>2, <2>3 DEF NilInv, NilOnlyInPanel
  <1>2. CASE LoopStep
    <2>1. ASSUME NEW c \in Calls, Exit(c)
          PROVE  FALSE
      BY <2>1, ClientAssumption DEF Exit
    <2>2. ui.shut = Nil /\ fate = "running"
      BY <1>2, <2>1 DEF LoopStep
    <2>3. CASE Callback
      <3>1. fate' # "nilpanic"
        BY <2>2, <2>3, Zenon DEF Callback
      <3> QED BY <2>2, <2>3, <3>1, CallbackMissing DEF NilInv, NilOnlyInPanel
    <2>4. ASSUME NEW c \in Calls, Post(c)
          PROVE  NilInv'
      <3>1. UNCHANGED <<call, conn, fate>> /\ ui'.online = ui.online
        BY <2>4 DEF Post, vars, DInv, DesktopTypeOK
      <3>2. MissingInv'
        BY <2>2, <3>1, MissingKept DEF NilInv, MadeOf
      <3> QED BY <2>2, <3>1, <3>2 DEF NilInv, NilOnlyInPanel
    <2> QED BY <1>2, <2>1, <2>3, <2>4 DEF LoopStep
  <1>3. CASE ClientStep
    BY <1>3, ClientNil DEF ClientStep
  <1>4. CASE UNCHANGED dvars
    <2>1. UNCHANGED <<call, conn, fate, ui>>
      BY <1>4 DEF dvars, vars
    <2>2. MissingInv'
      BY <2>1, MissingKept DEF NilInv, MadeOf
    <2> QED BY <2>1, <2>2 DEF NilInv, NilOnlyInPanel
  <1> QED BY <1>1, <1>2, <1>3, <1>4 DEF DesktopNext, DesktopRest

\* Until the shutdown nothing but the write of a panel call (client.go:247, 303)
\* uses a nil client.conn, and that only after a Disconnect has succeeded: no
\* handler of a connection that is closed, and neither Connect nor Disconnect
\* where a failed Dial has left a typed nil (client.go:160), for any clicks,
\* pushes, late callbacks and lost connections.
THEOREM NilUseConfined == DesktopSpec => []NilOnlyInPanel
  <1>1. DesktopInit => NilInv
    BY DEF DesktopInit, Init, NilInv, MissingInv, MadeOf, NilOnlyInPanel
  <1>2. DInv /\ WindowInv /\ NilInv /\ [DesktopNext]_dvars => NilInv'
    BY NilStays
  <1>3. NilInv => NilOnlyInPanel
    BY DEF NilInv, NilOnlyInPanel
  <1> QED BY <1>1, <1>2, <1>3, WindowInvariant, PTL DEF DesktopSpec

-----------------------------------------------------------------------------
(* The Add Code on display.                                                 *)

\* Online, and so Disconnect, come after a Connect that has returned; before
\* that the panel is untouched. With one Connect there is no connection left
\* after a Disconnect.
HistoryInv ==
    /\ ui.online \/ MadeOf({"QUIT"}) # {} =>
           \E c \in Calls : call[c].op = "INIT" /\ call[c].pc = "done"
    /\ ~ui.online /\ ~QuitOk =>
           ~ui.exp /\ ~ui.open /\ ui.grid = Nil /\ MadeOf(PanelOps) = {}
    /\ ~ManyConnects /\ conn \in Conns => ~QuitOk

\* Only a connection that some Connect has dialed carries requests.
Dialed(k) == net[k].link # "none"
LinkInv ==
    /\ conn \in Conns => Dialed(conn)
    /\ \A k \in Conns : \A i \in DOMAIN net[k].up : Dialed(k)
    /\ \A k \in Conns : Dialed(k) => k \in MadeOf({"INIT"})

\* The Add Code that DoGetAddCode c was given is client.addCode until its
\* callback has displayed it.
HasCode(c) == \E i \in DOMAIN call[c].got : call[c].got[i].body = "value"
CodeInv ==
    \A c \in Calls : call[c].op = "GADC" /\ PanelOut(c) /\ HasCode(c) => addCode = c

\* What succeeded was accepted.
AcceptedInv ==
    \A c \in Calls : call[c].op \in PanelOps /\ GivenUp(c) =>
        verdict[c] = "ok" /\ (call[c].op = "GADC" => HasCode(c))

\* No removal was refused.
NoRefusal ==
    \A c \in Calls : call[c].op = "RADC" /\ call[c].pc = "done" => call[c].result = "ok"

\* While there was one Connect: panel calls come one after the other, and each
\* leaves the panel as the server has left the registration.
OneConnectInv ==
    ~ManyConnects /\ conn \in Conns /\ NoRefusal =>
        /\ (\A c \in Calls : ~PanelOut(c)) =>
               /\ ~ui.open => ui.grid = Nil
               /\ ui.grid # Nil => net[conn].code = ui.grid
        /\ \A c \in Calls : PanelOut(c) /\ call[c].op = "GADC" =>
               /\ ui.open /\ ui.grid = Nil
               /\ verdict[c] = "ok" => net[conn].code = c

\* While there was one panel call, whatever came of the connection: the panel
\* stays open only on the connection on which the call was made.
Pending(c, k) == \E i \in DOMAIN net[k].up : net[k].up[i].from = c /\ net[k].up[i].last
Hopes(c)      == call[c].pc = "done" => call[c].result = "ok"
OnThisLink(c) ==
    /\ ui.online
    /\ conn \in Conns =>
        /\ verdict[c] = "ok" => net[conn].code = c
        /\ \A k \in Conns : Pending(c, k) => k = conn
OnePanelInv ==
    ~ManyPanels =>
        /\ MadeOf(PanelOps) = {} => ~ui.open /\ ui.grid = Nil
        /\ \A c \in MadeOf(PanelOps) :
            /\ call[c].op = "GADC"
            /\ PanelOut(c) => ui.grid = Nil
            /\ ui.grid # Nil => ui.grid = c /\ GivenUp(c)
            /\ ui.open /\ Hopes(c) => OnThisLink(c)

ShowInv ==
    ui.shut = Nil /\ ~Mixed =>
        /\ HistoryInv /\ LinkInv /\ CodeInv /\ AcceptedInv
        /\ OneConnectInv /\ OnePanelInv

\* The Disconnect of the shutdown has no callback.
ShutInv ==
    ui.shut # Nil /\ fate = "running" =>
        /\ call[ui.shut].op = "QUIT" /\ call[ui.shut].pc # "idle"
        /\ ui.shut \notin ui.posted

-----------------------------------------------------------------------------
(* What a step of the client does to requests, answers and connections.     *)

\* No connection is forgotten, and a new one is in client.conn.
DialMoves ==
    /\ \A k \in Conns : Dialed(k) => Dialed(k)'
    /\ \A k \in Conns : Dialed(k)' => Dialed(k) \/ k = conn' \/ k = conn
    /\ \/ UNCHANGED conn
       \/ conn' \notin Conns
       \/ /\ conn' \in Calls /\ InFlight(conn') /\ call[conn'].op = "INIT"
          /\ net'[conn'].link # "none"

\* A request under way was, or goes out on client.conn.
RequestMoves ==
    \A k \in Conns : \A i \in DOMAIN net'[k].up :
        \/ \E j \in DOMAIN net[k].up : net'[k].up[i] = net[k].up[j]
        \/ k = conn /\ UNCHANGED conn

\* The server decides on the request of panel call c, on connection k.
Decides(c, k) ==
    /\ InFlight(c) /\ InFlight(c)' /\ call[c].op \in PanelOps
    /\ verdict[c] = "none" /\ Pending(c, k)
    /\ call[c].op = "GADC" /\ verdict'[c] = "ok" => net'[k].code = c
CodeMoves ==
    /\ \A k \in Conns : net'[k].code = net[k].code \/ \E c \in Calls : Decides(c, k)
    /\ \A c \in Calls : call[c].op \in PanelOps =>
           verdict'[c] = verdict[c] \/ \E k \in Conns : Decides(c, k)

LEMMA SameNet ==
    ASSUME UNCHANGED <<net, conn>>
    PROVE  DialMoves /\ RequestMoves
  BY DEF DialMoves, RequestMoves, Dialed

\* Links change and requests are lost at most.
LEMMA LinkMoves ==
    ASSUME UNCHANGED <<conn, verdict>>,
           \A k \in Conns : /\ Dialed(k) => Dialed(k)'
                            /\ Dialed(k)' => Dialed(k) \/ k = conn
                            /\ net'[k].code = net[k].code
                            /\ net'[k].up = net[k].up \/ DOMAIN net'[k].up = {}
    PROVE  DialMoves /\ RequestMoves /\ CodeMoves
  <1>1. DialMoves /\ CodeMoves
    BY DEF DialMoves, CodeMoves
  <1>2. RequestMoves
    BY DEF RequestMoves
  <1> QED BY <1>1, <1>2

\* Message m goes out on client.conn.
LEMMA SendMoves ==
    ASSUME TypeOK, NEW m \in UpMsg, conn \in Conns, UNCHANGED <<conn, verdict>>,
           net' = [net EXCEPT ![conn].up = Append(@, m)]
    PROVE  DialMoves /\ RequestMoves /\ CodeMoves
  <1>1. net \in [Conns -> NetType]
    BY DEF TypeOK
  <1>2. \A k \in Conns : /\ net'[k].link = net[k].link /\ net'[k].code = net[k].code
                         /\ net'[k].up = IF k = conn THEN Append(net[k].up, m) ELSE net[k].up
    BY <1>1 DEF NetType
  <1>3. DialMoves /\ CodeMoves
    BY <1>2 DEF DialMoves, CodeMoves, Dialed
  <1>4. Sent(conn, m)
    BY <1>2 DEF Sent
  <1>5. RequestMoves
    BY <1>4, SentAt DEF RequestMoves
  <1> QED BY <1>3, <1>5

LEMMA CallMoves ==
    ASSUME IInv, NEW c \in Calls, CallStep(c)
    PROVE  DialMoves /\ RequestMoves /\ CodeMoves
  <1>0. TypeOK /\ net \in [Conns -> NetType] /\ call[c].op \in Operations /\ c \in Conns
        /\ addCode \in Calls \cup {Nil} /\ conn \in Conns \cup {Nil, TypedNil}
    BY DEF IInv, TypeOK, CallType, Conns
  <1>1. ASSUME UNCHANGED <<net, conn, verdict>>
        PROVE  DialMoves /\ RequestMoves /\ CodeMoves
    BY <1>1, SameNet DEF CodeMoves
  <1>2. CASE ConnectEnter(c) \/ DisconnectEnter(c) \/ MakeChan(c) \/ Look(c)
             \/ Delete(c) \/ Defer(c)
    BY <1>1, <1>2 DEF ConnectEnter, DisconnectEnter, MakeChan, Look, Delete, Defer
  <1>3. CASE Recv(c)
    <2>1. UNCHANGED <<net, conn, verdict>>
      BY <1>3, Zenon DEF Recv
    <2> QED BY <1>1, <2>1
  <1>4. CASE Dial(c)
    <2>1. UNCHANGED verdict /\ call[c].op = "INIT" /\ InFlight(c)
      BY <1>4, Zenon DEF Dial, IInv, LocalsInv, InFlight
    <2>2. CASE conn' = c /\ net' = [net EXCEPT ![c].link = "open"]
      <3>1. \A k \in Conns : /\ net'[k].link = IF k = c THEN "open" ELSE net[k].link
                             /\ net'[k].code = net[k].code /\ net'[k].up = net[k].up
        BY <1>0, <2>2 DEF NetType
      <3>2. DialMoves
        BY <1>0, <2>1, <2>2, <3>1 DEF DialMoves, Dialed
      <3>3. RequestMoves
        BY <3>1 DEF RequestMoves
      <3>4. CodeMoves
        BY <2>1, <3>1 DEF CodeMoves
      <3> QED BY <3>2, <3>3, <3>4
    <2>3. CASE conn' = TypedNil /\ UNCHANGED net
      <3>1. TypedNil \notin Conns
        BY ClientAssumption DEF Conns
      <3> QED BY <2>1, <2>3, <3>1 DEF DialMoves, RequestMoves, CodeMoves, Dialed
    <2> QED BY <1>4, <2>2, <2>3 DEF Dial
  <1>5. CASE Write(c)
    <2> DEFINE m == [cmd |-> call[c].op, from |-> c, last |-> call[c].left = 1,
                     arg |-> IF call[c].op = "RADC" /\ call[c].left = 1
                             THEN addCode ELSE Nil]
    <2>1. m \in UpMsg
      BY <1>0 DEF UpMsg, Chans
    <2>2. /\ UNCHANGED <<conn, verdict>>
          /\ UNCHANGED net \/ (~NilConn(conn) /\ net' = [net EXCEPT ![conn].up = Append(@, m)])
      BY <1>5 DEF Write
    <2> HIDE DEF m
    <2>3. CASE UNCHANGED net
      BY <1>1, <2>2, <2>3
    <2>4. CASE ~NilConn(conn) /\ net' = [net EXCEPT ![conn].up = Append(@, m)]
      <3>1. conn \in Conns
        BY <1>0, <2>4 DEF NilConn
      <3> QED BY <1>0, <2>1, <2>2, <2>4, <3>1, SendMoves
    <2> QED BY <2>2, <2>3, <2>4
  <1>6. CASE Close(c)
    <2>1. /\ UNCHANGED <<conn, verdict>>
          /\ UNCHANGED net \/ (~NilConn(conn) /\ net' = [net EXCEPT ![conn].link = "closed"])
      BY <1>6 DEF Close
    <2>2. CASE ~NilConn(conn) /\ net' = [net EXCEPT ![conn].link = "closed"]
      <3>1. \A k \in Conns : /\ net'[k].link = IF k = conn THEN "closed" ELSE net[k].link
                             /\ net'[k].code = net[k].code /\ net'[k].up = net[k].up
        BY <1>0, <2>2 DEF NetType
      <3> QED BY <2>1, <3>1, LinkMoves DEF Dialed
    <2> QED BY <1>1, <2>1, <2>2
  <1>7. CASE Clear(c)
    <2>1. UNCHANGED <<net, verdict>> /\ conn' = Nil /\ Nil \notin Conns
      BY <1>7, ClientAssumption DEF Clear, Conns
    <2> QED BY <2>1 DEF DialMoves, RequestMoves, CodeMoves, Dialed
  <1> QED BY <1>2, <1>3, <1>4, <1>5, <1>6, <1>7 DEF CallStep

LEMMA HandlerMoves ==
    ASSUME IInv, RInv, NEW k \in Conns, HandlerStep(k)
    PROVE  DialMoves /\ RequestMoves /\ CodeMoves
  <1>0. TypeOK /\ net \in [Conns -> NetType] /\ conn \in Conns \cup {Nil, TypedNil}
    BY DEF IInv, TypeOK
  <1>1. UNCHANGED <<conn, verdict>>
    BY DEF HandlerStep, HTop, HRead, HExit, HDispatch, HSend, HPubMake, HPubWrite,
           HPubDelete, HandlerUnchanged
  <1>2. ASSUME UNCHANGED net
        PROVE  DialMoves /\ RequestMoves /\ CodeMoves
    BY <1>1, <1>2, SameNet DEF CodeMoves
  <1>3. CASE HTop(k) \/ HExit(k) \/ HDispatch(k) \/ HSend(k) \/ HPubMake(k) \/ HPubDelete(k)
    BY <1>2, <1>3 DEF HTop, HExit, HDispatch, HSend, HPubMake, HPubDelete
  <1>4. CASE HRead(k)
    <2> DEFINE j == hdl[k].conn
    <2>1. net' = [net EXCEPT ![j].down = Tail(@)]
      BY <1>4 DEF HRead
    <2>2. \A i \in Conns : /\ net'[i].link = net[i].link /\ net'[i].code = net[i].code
                           /\ net'[i].up = net[i].up
      BY <1>0, <2>1 DEF NetType
    <2> QED BY <1>1, <2>2, LinkMoves DEF Dialed
  <1>5. CASE HPubWrite(k)
    <2> DEFINE m == [cmd |-> PubKeyCommand, from |-> hdl[k].msg.to, last |-> TRUE,
                     arg |-> Nil]
    <2>1. /\ hdl[k].pc = "pubwrite" /\ hdl[k].msg \in DownMsg /\ hdl[k].msg.cmd = "GPUB"
          /\ hdl[k].pc \in HoldingPCs
      BY <1>5, RInvParts DEF HPubWrite, IInv, LocalsInv, PushInv, HoldingPCs
    <2>2. hdl[k].msg.to \in PubReqs
      BY <2>1, HeldMessage DEF Truthful
    <2>3. m \in UpMsg
      BY <2>2 DEF UpMsg, PubKeyCommand, Operations, Chans
    <2>4. \/ UNCHANGED net
          \/ conn \in Conns /\ net' = [net EXCEPT ![conn].up = Append(@, m)]
      BY <1>0, <1>5 DEF HPubWrite, NilConn
    <2> HIDE DEF m
    <2> QED BY <1>0, <1>1, <1>2, <2>3, <2>4, SendMoves
  <1> QED BY <1>3, <1>4, <1>5 DEF HandlerStep

LEMMA ServeMoves ==
    ASSUME IInv, RInv, NEW k \in Conns, SrvServe(k)
    PROVE  DialMoves /\ RequestMoves /\ CodeMoves
  <1> DEFINE up == Tail(net[k].up)
  <1>0. PICK m : m = Head(net[k].up)
    OBVIOUS
  <1>1. /\ net \in [Conns -> NetType] /\ net[k].up \in Seq(UpMsg) /\ net[k].up # <<>>
        /\ verdict \in [Chans -> {"none", "ok", "fail"}]
        /\ net[k].link = "open" /\ UNCHANGED <<call, conn>>
    BY DEF SrvServe, IInv, TypeOK, NetType
  <1>2. /\ m = net[k].up[1] /\ 1 \in DOMAIN net[k].up /\ m \in UpMsg
        /\ \A i \in DOMAIN up : i + 1 \in DOMAIN net[k].up /\ up[i] = net[k].up[i + 1]
    <2>1. /\ m = net[k].up[1] /\ 1 \in DOMAIN net[k].up
          /\ \A i \in DOMAIN up : i + 1 \in DOMAIN net[k].up /\ up[i] = net[k].up[i + 1]
      BY <1>0, <1>1, TailAt
    <2> QED BY <1>1, <2>1
  <1> DEFINE c == m.from
             answered == m.last /\ c \notin PubReqs
  <1>3. CASE ~answered
    <2>1. net' = [net EXCEPT ![k].up = up] /\ UNCHANGED verdict
      BY <1>0, <1>3 DEF SrvServe
    <2> HIDE DEF up
    <2>2. \A j \in Conns : /\ net'[j].link = net[j].link /\ net'[j].code = net[j].code
                           /\ net'[j].up = IF j = k THEN up ELSE net[j].up
      BY <1>1, <2>1 DEF NetType
    <2>3. DialMoves /\ CodeMoves
      BY <1>1, <2>1, <2>2 DEF DialMoves, CodeMoves, Dialed
    <2>4. RequestMoves
      BY <1>2, <2>2 DEF RequestMoves
    <2> QED BY <2>3, <2>4
  <1>4. CASE answered
    <2>1. PICK ok \in BOOLEAN :
            /\ verdict' = [verdict EXCEPT ![c] = IF ok THEN "ok" ELSE "fail"]
            /\ net' = [net EXCEPT
                   ![k].up = up,
                   ![k].down = @ \o Answer(c, m.cmd, ok),
                   ![k].link = IF ok /\ m.cmd = "QUIT" THEN "lost" ELSE @,
                   ![k].code = IF ok /\ m.cmd = "GADC" THEN c
                               ELSE IF ok /\ m.cmd = "RADC" THEN Nil ELSE @]
      BY <1>0, <1>4 DEF SrvServe
    <2>2. c \in Calls /\ c \in Chans
      BY <1>2, <1>4, ClientAssumption DEF UpMsg, Chans
    <2>3. verdict[c] = "none" /\ m.cmd = call[c].op
      BY <1>2, <1>4, <2>2, RInvParts DEF RequestInv
    <2>4. call[c].op \in PanelOps => call[c].pc \in WaitPCs
      <3>1. call[c].op \in PanelOps => Tracked(c)
        BY DEF Tracked, PanelOps
      <3> QED BY <1>2, <1>4, <2>2, <3>1, RInvParts DEF RequestsAwaited
    <2>5. Pending(c, k)
      BY <1>2, <1>4 DEF Pending
    <2> HIDE DEF up
    <2>6. \A j \in Conns :
            /\ j # k => net'[j] = net[j]
            /\ net'[j].link # "none" <=> net[j].link # "none"
            /\ net'[j].up = IF j = k THEN up ELSE net[j].up
      BY <1>1, <2>1 DEF NetType
    <2>7. net'[k].code = IF ok /\ m.cmd = "GADC" THEN c
                         ELSE IF ok /\ m.cmd = "RADC" THEN Nil ELSE net[k].code
      BY <1>1, <2>1 DEF NetType
    <2>8. /\ verdict'[c] = IF ok THEN "ok" ELSE "fail"
          /\ \A d \in Calls : d # c => verdict'[d] = verdict[d]
      BY <1>1, <2>1, <2>2 DEF Chans
    <2>9. call[c].op \in PanelOps => Decides(c, k)
      BY <1>1, <2>3, <2>4, <2>5, <2>7, <2>8 DEF Decides, WaitPCs, InFlight
    <2>10. call[c].op \notin PanelOps => net'[k].code = net[k].code
      BY <2>3, <2>7 DEF PanelOps
    <2>11. CodeMoves
      BY <2>2, <2>6, <2>8, <2>9, <2>10 DEF CodeMoves
    <2>12. DialMoves
      BY <1>1, <2>6 DEF DialMoves, Dialed
    <2>13. RequestMoves
      BY <1>2, <2>6 DEF RequestMoves
    <2> QED BY <2>11, <2>12, <2>13
  <1> QED BY <1>3, <1>4

\* Where the client and its surroundings may move.
LEMMA ClientMoves ==
    ASSUME IInv, RInv, ClientStep
    PROVE  DialMoves /\ RequestMoves /\ CodeMoves
  <1>0. TypeOK /\ net \in [Conns -> NetType]
    BY DEF IInv, TypeOK
  <1>1. ASSUME NEW k \in Conns, Lose(k)
        PROVE  DialMoves /\ RequestMoves /\ CodeMoves
    <2>1. /\ net' = [net EXCEPT ![k].link = "lost", ![k].up = <<>>, ![k].down = <<>>]
          /\ net[k].link = "open" /\ UNCHANGED <<conn, verdict>>
      BY <1>1 DEF Lose
    <2>2. \A j \in Conns : /\ net'[j].link = IF j = k THEN "lost" ELSE net[j].link
                           /\ net'[j].code = net[j].code
                           /\ net'[j].up = IF j = k THEN <<>> ELSE net[j].up
      BY <1>0, <2>1 DEF NetType
    <2>3. net[k].link = "open" /\ UNCHANGED <<conn, verdict>>
      BY <2>1
    <2>4. DialMoves
      <3>1. \A j \in Conns : j # k => (Dialed(j)' <=> Dialed(j))
        BY <2>2 DEF Dialed
      <3>2. Dialed(k)' /\ Dialed(k)
        BY <2>2, <2>3 DEF Dialed
      <3> QED BY <2>3, <3>1, <3>2 DEF DialMoves
    <2>5. CodeMoves
      BY <2>2, <2>3 DEF CodeMoves
    <2>6. \A j \in Conns : \A i \in DOMAIN net'[j].up : net'[j].up = net[j].up
      BY <2>2
    <2>7. RequestMoves
      BY <2>6 DEF RequestMoves
    <2> QED BY <2>4, <2>5, <2>7
  <1>2. ASSUME NEW k \in Conns, NEW p \in PubReqs, SrvPush(k, p)
        PROVE  DialMoves /\ RequestMoves /\ CodeMoves
    <2>1. /\ UNCHANGED conn /\ verdict' = [verdict EXCEPT ![p] = "ok"]
          /\ \E i \in 1..Len(net[k].down) + 1 :
                net' = [net EXCEPT ![k].down =
                           InsertAt(@, i, [cmd |-> "GPUB", to |-> p, body |-> "ok"])]
      BY <1>2 DEF SrvPush
    <2>2. PICK x : net' = [net EXCEPT ![k].down = x]
      BY <2>1
    <2>3. \A j \in Conns : /\ net'[j].link = net[j].link /\ net'[j].code = net[j].code
                           /\ net'[j].up = net[j].up
      BY <1>0, <2>2 DEF NetType
    <2>4. \A d \in Calls : verdict'[d] = verdict[d]
      BY <1>0, <2>1, ClientAssumption DEF TypeOK, Chans
    <2> QED BY <2>1, <2>3, <2>4 DEF DialMoves, RequestMoves, CodeMoves, Dialed
  <1>3. CASE MapFault
    <2>1. UNCHANGED <<net, conn, verdict>>
      BY <1>3 DEF MapFault
    <2> QED BY <2>1, SameNet DEF CodeMoves
  <1> QED BY <1>1, <1>2, <1>3, CallMoves, HandlerMoves, ServeMoves
          DEF ClientStep, Step, EnvStep, Conns

\* What a step of the client leaves of the calls.
CallsKept ==
    /\ UNCHANGED ui
    /\ \A d \in Calls :
        /\ call'[d].op = call[d].op
        /\ call'[d].pc = "idle" <=> call[d].pc = "idle"
        /\ call[d].pc = "done" => call'[d] = call[d]
        /\ PanelOut(d)' <=> PanelOut(d)

MadeKept ==
    /\ MadeOf(PanelOps)' = MadeOf(PanelOps)
    /\ MadeOf({"INIT"})' = MadeOf({"INIT"})
    /\ MadeOf({"QUIT"})' = MadeOf({"QUIT"})
    /\ ManyConnects' <=> ManyConnects
    /\ ManyPanels' <=> ManyPanels

\* Other steps than those of a call leave all calls alone.
LEMMA CallOrNot ==
    ASSUME ClientStep
    PROVE  \/ \E c \in Calls : CallStep(c)
           \/ UNCHANGED <<call, conn, addCode>>
  <1>1. ASSUME NEW k \in Calls, HandlerStep(k)
        PROVE  UNCHANGED <<call, conn, addCode>>
    <2>1. HandlerUnchanged
      BY <1>1, Zenon DEF HandlerStep, HTop, HRead, HExit, HDispatch, HSend, HPubMake,
                         HPubWrite, HPubDelete
    <2> QED BY <2>1 DEF HandlerUnchanged
  <1>2. ASSUME NEW k \in Calls, EnvStep(k)
        PROVE  UNCHANGED <<call, conn, addCode>>
    <2>1. CASE SrvServe(k)
      BY <2>1, Zenon DEF SrvServe
    <2> QED BY <1>2, <2>1 DEF EnvStep, SrvPush, Lose
  <1>3. MapFault => UNCHANGED <<call, conn, addCode>>
    BY DEF MapFault
  <1> QED BY <1>1, <1>2, <1>3 DEF ClientStep, Step

LEMMA ClientKeeps ==
    ASSUME DInv, ClientStep
    PROVE  CallsKept
  <1>1. UNCHANGED ui
    BY DEF ClientStep
  <1>2. CASE UNCHANGED call
    BY <1>1, <1>2 DEF CallsKept, PanelOut, InFlight
  <1>3. ASSUME NEW c \in Calls, CallStep(c)
        PROVE  CallsKept
    <2>1. Effect(c)
      BY <1>3, EffectOfCall DEF DInv
    <2>2. /\ \A d \in Calls \ {c} : call'[d] = call[d]
          /\ call'[c].op = call[c].op /\ call'[c].pc # "idle"
          /\ call[c].pc # "idle" /\ call[c].pc # "done" /\ InFlight(c)
      BY <2>1 DEF Effect, Others, InFlight
    <2>3. c \notin ui.posted
      BY <2>2, IdleNotOut DEF DInv
    <2>4. PanelOut(c)' <=> PanelOut(c)
      BY <1>1, <2>2, <2>3 DEF PanelOut, InFlight
    <2>5. \A d \in Calls \ {c} : PanelOut(d)' <=> PanelOut(d)
      BY <1>1, <2>2 DEF PanelOut, InFlight
    <2> QED BY <1>1, <2>2, <2>4, <2>5 DEF CallsKept
  <1> QED BY <1>2, <1>3, CallOrNot

LEMMA KeptMade ==
    ASSUME CallsKept
    PROVE  MadeKept
  <1>1. /\ MadeOf(PanelOps)' = MadeOf(PanelOps)
        /\ MadeOf({"INIT"})' = MadeOf({"INIT"})
        /\ MadeOf({"QUIT"})' = MadeOf({"QUIT"})
    BY DEF CallsKept, MadeOf
  <1> QED BY <1>1 DEF MadeKept, ManyConnects, ManyPanels

\* A panel call under way has been made.
LEMMA OutIsMade ==
    ASSUME DInv, NEW c \in Calls, PanelOut(c)
    PROVE  c \in MadeOf(PanelOps)
  <1>1. call[c].pc # "idle"
    BY IdleNotOut DEF DInv, PanelOut, InFlight
  <1> QED BY <1>1 DEF MadeOf, PanelOut

\* Panel calls are apart until connections and panel calls can mix.
LEMMA OnePanelOut ==
    ASSUME DInv, PanelInv, ~Mixed, NEW c \in Calls, NEW d \in Calls,
           PanelOut(c), PanelOut(d)
    PROVE  c = d
  <1>1. CASE ~ManyConnects
    BY <1>1 DEF PanelInv
  <1>2. CASE ~ManyPanels
    BY <1>2, OutIsMade DEF ManyPanels
  <1> QED BY <1>1, <1>2 DEF Mixed

\* How a call ends.
LEMMA CallEnds ==
    ASSUME DInv, IInv, NEW c \in Calls, CallStep(c), GivenUp(c)'
    PROVE  /\ call[c].op = "QUIT" => conn' = Nil
           /\ call[c].op \in PanelOps =>
                /\ call[c].pc = "defer" /\ call[c].result = "ok"
                /\ call'[c].got = call[c].got
  <1>0. /\ TypeOK /\ call \in [Calls -> CallType] /\ call[c] \in CallType
        /\ call'[c].pc = "done" /\ call'[c].result = "ok"
    BY DEF IInv, TypeOK, GivenUp
  <1>1. ASSUME NEW pc, pc # "done", call' = [call EXCEPT ![c].pc = pc]
        PROVE  FALSE
    BY <1>0, <1>1 DEF CallType
  <1>2. ASSUME NEW r, Finish(c, r)
        PROVE  /\ r = "ok" /\ call'[c].got = call[c].got
    BY <1>0, <1>2 DEF CallType, Finish
  <1>3. CASE ConnectEnter(c)
    BY <1>1, <1>2, <1>3 DEF ConnectEnter, PanelOps
  <1>4. CASE Dial(c)
    <2>1. Finish(c, "ioerr") \/ call' = [call EXCEPT ![c].pc = "make"]
      BY <1>4 DEF Dial
    <2> QED BY <1>1, <1>2, <2>1
  <1>5. CASE DisconnectEnter(c)
    <2>1. \/ conn' = Nil /\ call[c].op = "QUIT"
          \/ call' = [call EXCEPT ![c].pc = "make"]
      BY <1>5 DEF DisconnectEnter, NotConnected
    <2> QED BY <1>1, <2>1 DEF PanelOps
  <1>6. CASE MakeChan(c) \/ Look(c)
    <2>1. call'[c].pc \in {"write", "recv"}
      BY <1>0, <1>6 DEF MakeChan, Look, CallType
    <2> QED BY <1>0, <2>1
  <1>7. CASE Write(c)
    <2> DEFINE pc == IF call[c].left = 1 THEN "look" ELSE "write"
    <2>1. \/ UNCHANGED call
          \/ call' = [call EXCEPT ![c].left = @ - 1, ![c].pc = pc]
          \/ call' = [call EXCEPT ![c].pc = "defer", ![c].result = "ioerr"]
      BY <1>7 DEF Write
    <2>2. call[c].pc = "write" /\ pc \in {"look", "write"}
      BY <1>7 DEF Write
    <2> HIDE DEF pc
    <2> QED BY <1>0, <2>1, <2>2 DEF CallType
  <1>8. CASE Recv(c)
    <2> DEFINE m   == Head(buf[call[c].held])
               pc  == IF ~(Len(call[c].got) + 1 = Reads(call[c].op)) /\ GivesUp(call[c].op, m)
                      THEN "defer"
                      ELSE IF Len(call[c].got) + 1 = Reads(call[c].op) THEN "delete"
                      ELSE "look"
               res == IF ~(Len(call[c].got) + 1 = Reads(call[c].op)) /\ GivesUp(call[c].op, m)
                      THEN "nokey"
                      ELSE IF ~(Len(call[c].got) + 1 = Reads(call[c].op)) THEN "none"
                      ELSE Outcome(m)
    <2>1. call' = [call EXCEPT ![c].got = Append(@, m), ![c].pc = pc, ![c].result = res]
      BY <1>8, Zenon DEF Recv
    <2>2. pc \in {"defer", "delete", "look"}
      OBVIOUS
    <2> HIDE DEF pc, res, m
    <2> QED BY <1>0, <2>1, <2>2 DEF CallType
  <1>9. CASE Delete(c)
    BY <1>1, <1>9 DEF Delete
  <1>10. CASE Defer(c)
    <2>1. CASE call[c].op = "QUIT"
      <3>1. call' = [call EXCEPT ![c].pc = "sleep"] \/ Finish(c, "incomplete")
        BY <1>10, <2>1 DEF Defer
      <3> QED BY <1>1, <1>2, <3>1
    <2>2. CASE call[c].op # "QUIT"
      <3>1. Finish(c, call[c].result) /\ call[c].pc = "defer"
        BY <1>10, <2>2 DEF Defer
      <3> QED BY <1>2, <2>2, <3>1
    <2> QED BY <2>1, <2>2
  <1>11. CASE Close(c)
    <2>1. /\ call[c].pc = "sleep"
          /\ \/ UNCHANGED call
             \/ call' = [call EXCEPT ![c].pc = "clear"]
             \/ Finish(c, "ioerr")
      BY <1>11 DEF Close
    <2> QED BY <1>0, <1>1, <1>2, <2>1
  <1>12. CASE Clear(c)
    <2>1. conn' = Nil /\ call[c].pc = "clear"
      BY <1>12 DEF Clear
    <2>2. call[c].op \notin PanelOps
      BY <2>1 DEF DInv, CallsInv, BodyPCs
    <2> QED BY <2>1, <2>2
  <1> QED BY <1>3, <1>4, <1>5, <1>6, <1>7, <1>8, <1>9, <1>10, <1>11, <1>12 DEF CallStep

\* A panel call that is about to return success was accepted.
LEMMA AcceptedAtEnd ==
    ASSUME IInv, RInv, NEW c \in Calls, call[c].op \in PanelOps,
           call[c].pc = "defer", call[c].result = "ok"
    PROVE  verdict[c] = "ok" /\ (call[c].op = "GADC" => HasCode(c))
  <1>1. ReplyOk(c)
    BY RInvParts DEF ReplyInv, AfterRefusal, PanelOps
  <1>2. Whole(c) /\ call[c].result = Outcome(Final(c))
    BY <1>1 DEF ReplyOk, GaveUp, PanelOps
  <1>3. call[c].got \in Seq(DownMsg) /\ Reads(call[c].op) \in 1..2
    BY DEF IInv, TypeOK, CallType, Reads
  <1>4. ASSUME NEW i \in DOMAIN call[c].got
        PROVE  /\ call[c].got[i].to = c /\ call[c].got[i].body \in Bodies
               /\ verdict[c] = IF call[c].got[i].body \in {"value", "ok"}
                               THEN "ok" ELSE "fail"
    <2>1. <<"got", c>> \in Places /\ flow[<<"got", c>>] = call[c].got
      BY FlowIs DEF Places
    <2>2. Truthful(call[c].got[i])
      BY <2>1, RInvParts DEF TruthInv
    <2>3. call[c].got[i] \in DownMsg
      BY <1>3, <1>4
    <2> QED BY <1>1, <2>2, <2>3 DEF ReplyOk, Truthful, DownMsg
  <1>5. /\ DOMAIN call[c].got = 1..Reads(call[c].op)
        /\ \A i \in DOMAIN call[c].got :
               IsResult(call[c].got[i]) <=> i = Reads(call[c].op)
    BY <1>1, <1>2, <1>3, LenProperties DEF Whole, ReplyOk
  <1>6. verdict[c] = "ok"
    <2>1. Reads(call[c].op) \in DOMAIN call[c].got
      BY <1>3, <1>5
    <2>2. IsResult(Final(c)) /\ Final(c).body # "fail"
      BY <1>2, <1>5, <2>1 DEF Final, Outcome
    <2> QED BY <1>4, <2>1, <2>2 DEF Final, IsResult
  <1>7. ASSUME call[c].op = "GADC"
        PROVE  HasCode(c)
    <2>1. 1 \in DOMAIN call[c].got /\ ~IsResult(call[c].got[1])
      BY <1>5, <1>7 DEF Reads
    <2>2. call[c].got[1].body = "value"
      BY <1>4, <1>6, <2>1 DEF Bodies, IsResult
    <2> QED BY <2>1, <2>2 DEF HasCode
  <1> QED BY <1>6, <1>7

-----------------------------------------------------------------------------
(* Steps of the client keep the invariant of the display.                   *)

\* All that is known while the window is open and calls cannot mix.
Known ==
    /\ DInv /\ IInv /\ RInv /\ PanelInv /\ RowInv
    /\ HistoryInv /\ LinkInv /\ CodeInv /\ AcceptedInv
    /\ OneConnectInv /\ OnePanelInv
    /\ ~Mixed

\* A connection that is new was dialed while the window was offline.
LEMMA NewConnection ==
    ASSUME Known, DialMoves, conn' \in Conns, conn' # conn
    PROVE  /\ net'[conn'].link # "none" /\ conn' \in MadeOf({"INIT"})
           /\ InFlight(conn') /\ ~ui.online
           /\ ~ManyConnects => MadeOf(PanelOps) = {}
  <1>1. /\ conn' \in Calls /\ InFlight(conn') /\ call[conn'].op = "INIT"
        /\ net'[conn'].link # "none"
    BY DEF DialMoves
  <1>2. Out(conn') /\ conn' \in MadeOf({"INIT"})
    BY <1>1 DEF Out, StatusOps, MadeOf, InFlight
  <1>3. ~ui.online
    BY <1>1, <1>2 DEF Known, RowInv
  <1>4. ~ManyConnects => MadeOf(PanelOps) = {}
    BY <1>1, <1>2 DEF Known, PanelInv
  <1> QED BY <1>1, <1>2, <1>3, <1>4

\* Before the second Connect, a Disconnect was not behind the only one.
LEMMA FirstConnection ==
    ASSUME Known, QuitOk, NEW k \in MadeOf({"INIT"}), InFlight(k)
    PROVE  ManyConnects
  <1>1. PICK q \in Calls : call[q].op = "QUIT" /\ GivenUp(q)
    BY DEF QuitOk
  <1>2. q \in MadeOf({"QUIT"})
    BY <1>1 DEF MadeOf, GivenUp
  <1>3. PICK a \in Calls : call[a].op = "INIT" /\ call[a].pc = "done"
    BY <1>2 DEF Known, HistoryInv
  <1>4. a \in MadeOf({"INIT"}) /\ a # k
    BY <1>3 DEF MadeOf, InFlight
  <1> QED BY <1>4 DEF ManyConnects

LEMMA HistoryKept ==
    ASSUME Known, ClientStep, CallsKept, MadeKept, DialMoves
    PROVE  HistoryInv'
  <1>0. /\ \A d \in Calls : call[d].pc = "done" => call'[d] = call[d]
        /\ \A d \in Calls : call'[d].op = call[d].op
        /\ UNCHANGED ui
    BY DEF CallsKept
  <1>1. QuitOk => QuitOk'
    BY <1>0 DEF QuitOk, GivenUp
  <1>2. ui'.online \/ MadeOf({"QUIT"})' # {} =>
            \E c \in Calls : call'[c].op = "INIT" /\ call'[c].pc = "done"
    <2> SUFFICES ASSUME ui.online \/ MadeOf({"QUIT"}) # {}
                 PROVE  \E c \in Calls : call'[c].op = "INIT" /\ call'[c].pc = "done"
      BY <1>0 DEF MadeKept
    <2>1. PICK c \in Calls : call[c].op = "INIT" /\ call[c].pc = "done"
      BY DEF Known, HistoryInv
    <2> QED BY <1>0, <2>1
  <1>3. ~ui'.online /\ ~QuitOk' =>
            ~ui'.exp /\ ~ui'.open /\ ui'.grid = Nil /\ MadeOf(PanelOps)' = {}
    BY <1>0, <1>1 DEF MadeKept, Known, HistoryInv
  <1>4. ASSUME ~ManyConnects', conn' \in Conns, QuitOk'
        PROVE  FALSE
    <2>1. ~ManyConnects
      BY <1>4 DEF MadeKept
    <2>2. CASE QuitOk
      <3>1. conn' # conn
        BY <1>4, <2>1, <2>2 DEF Known, HistoryInv
      <3>2. conn' \in MadeOf({"INIT"}) /\ InFlight(conn')
        BY <1>4, <3>1, NewConnection
      <3> QED BY <2>1, <2>2, <3>2, FirstConnection
    <2>3. CASE ~QuitOk
      <3>1. PICK q \in Calls : call'[q].op = "QUIT" /\ GivenUp(q)'
        BY <1>4 DEF QuitOk
      <3>2. call[q].op = "QUIT" /\ ~GivenUp(q) /\ call'[q] # call[q]
        <4>1. call[q].op = "QUIT"
          BY <1>0, <3>1
        <4>2. ~GivenUp(q)
          BY <2>3, <4>1 DEF QuitOk
        <4> QED BY <3>1, <4>1, <4>2 DEF GivenUp
      <3>3. PICK c \in Calls : CallStep(c)
        BY <3>2, CallOrNot
      <3>4. c = q
        BY <3>2, <3>3, EffectOfCall DEF Known, DInv, Effect, Others
      <3>5. conn' = Nil
        BY <3>1, <3>2, <3>3, <3>4, CallEnds DEF Known
      <3> QED BY <1>4, <3>5, ClientAssumption DEF Conns
    <2> QED BY <2>2, <2>3
  <1> QED BY <1>2, <1>3, <1>4 DEF HistoryInv

LEMMA LinkKept ==
    ASSUME Known, MadeKept, DialMoves, RequestMoves
    PROVE  LinkInv'
  <1>0. /\ conn \in Conns => Dialed(conn)
        /\ \A k \in Conns : \A i \in DOMAIN net[k].up : Dialed(k)
        /\ \A k \in Conns : Dialed(k) => k \in MadeOf({"INIT"})
    BY DEF Known, LinkInv
  <1>1. \A k \in Conns : Dialed(k) => Dialed(k)'
    BY DEF DialMoves
  <1>2. conn' \in Conns => net'[conn'].link # "none"
    <2>1. CASE conn' = conn
      BY <1>0, <1>1, <2>1 DEF Dialed
    <2>2. CASE conn' # conn
      BY <2>2, NewConnection
    <2> QED BY <2>1, <2>2
  <1>3. ASSUME NEW k \in Conns, NEW i \in DOMAIN net'[k].up
        PROVE  Dialed(k)'
    BY <1>0, <1>1, <1>3 DEF RequestMoves
  <1>4. ASSUME NEW k \in Conns, Dialed(k)'
        PROVE  k \in MadeOf({"INIT"})'
    <2>1. CASE Dialed(k) \/ k = conn
      BY <1>0, <2>1 DEF MadeKept
    <2>2. CASE k = conn' /\ k # conn
      BY <2>2, NewConnection DEF MadeKept
    <2> QED BY <1>4, <2>1, <2>2 DEF DialMoves
  <1>5. (conn \in Conns => Dialed(conn))'
    BY <1>2 DEF Dialed
  <1> QED BY <1>3, <1>4, <1>5 DEF LinkInv

\* An Add Code comes to client.addCode and to its call at once.
LEMMA CodeKept ==
    ASSUME Known, ClientStep, CallsKept
    PROVE  CodeInv'
  <1>0. /\ \A c \in Calls : call'[c].op = call[c].op
        /\ \A c \in Calls : PanelOut(c)' <=> PanelOut(c)
        /\ \A c \in Calls : call[c].op = "GADC" /\ PanelOut(c) /\ HasCode(c)
                                => addCode = c
        /\ TypeOK
    BY DEF CallsKept, Known, CodeInv, IInv
  <1>1. CASE UNCHANGED <<call, conn, addCode>>
    BY <1>0, <1>1 DEF CodeInv, HasCode
  <1>2. ASSUME NEW d \in Calls, CallStep(d), ~Recv(d)
        PROVE  CodeInv'
    <2>1. UNCHANGED addCode
      BY <1>2 DEF CallStep, ConnectEnter, Dial, DisconnectEnter, MakeChan, Write, Look,
                  Delete, Defer, Close, Clear
    <2>2. \A c \in Calls : call'[c].got = call[c].got
      <3>1. Others(d)
        BY <1>2, EffectOfCall DEF Known, DInv, Effect
      <3>2. call'[d].got = call[d].got
        <4>1. call \in [Calls -> CallType]
          BY <1>0 DEF TypeOK
        <4>2. CASE Write(d)
          <5> DEFINE pc == IF call[d].left = 1 THEN "look" ELSE "write"
          <5>1. \/ UNCHANGED call
                \/ call' = [call EXCEPT ![d].left = @ - 1, ![d].pc = pc]
                \/ call' = [call EXCEPT ![d].pc = "defer", ![d].result = "ioerr"]
            BY <4>2 DEF Write
          <5> HIDE DEF pc
          <5> QED BY <4>1, <5>1 DEF CallType
        <4>3. CASE ConnectEnter(d) \/ Dial(d) \/ DisconnectEnter(d) \/ Defer(d)
                   \/ Close(d) \/ Clear(d) \/ Delete(d)
          <5>1. \/ UNCHANGED call
                \/ \E r : Finish(d, r)
                \/ \E pc : call' = [call EXCEPT ![d].pc = pc]
            BY <4>3 DEF ConnectEnter, Dial, DisconnectEnter, Defer, Close, Clear, Delete
          <5> QED BY <4>1, <5>1 DEF CallType, Finish
        <4>4. CASE MakeChan(d) \/ Look(d)
          BY <4>1, <4>4 DEF MakeChan, Look, CallType
        <4> QED BY <1>2, <4>2, <4>3, <4>4 DEF CallStep
      <3> QED BY <3>1, <3>2 DEF Others
    <2> QED BY <1>0, <2>1, <2>2 DEF CodeInv, HasCode
  <1>3. ASSUME NEW d \in Calls, Recv(d)
        PROVE  CodeInv'
    <2> DEFINE m    == Head(buf[d])
               last == Len(call[d].got) + 1 = Reads(call[d].op)
    <2>1. /\ Others(d) /\ call[d].got \in Seq(DownMsg) /\ m \in DownMsg
          /\ call'[d].got = Append(call[d].got, m)
      BY <1>3, RecvEffect DEF Known
    <2>2. addCode' = IF call[d].op = "GADC" /\ ~last
                     THEN IF m.body = "value" /\ m.to \in Calls THEN m.to ELSE Nil
                     ELSE addCode
      <3>1. call[d].held = d
        <4>1. call[d].held \in {d} \cup PubReqs /\ buf[call[d].held] # <<>>
          BY <1>3, RInvParts DEF Recv, HeldInv, Known
        <4> QED BY <4>1, RInvParts DEF PushInv, Known
      <3> QED BY <1>3, <3>1, Zenon DEF Recv
    <2>3. call[d].op = "GADC" =>
              /\ m.to = d /\ Len(call[d].got) < 2
              /\ IsResult(m) <=> last
      <3>1. call[d].op = "GADC" => ~AfterRefusal(d) /\ Reads(call[d].op) = 2
        BY DEF AfterRefusal, Reads
      <3> QED BY <1>3, <3>1, TakesOwn DEF Known
    <2> HIDE DEF m
    <2>4. ASSUME NEW c \in Calls, call[c].op = "GADC", PanelOut(c), HasCode(c)'
          PROVE  addCode' = c
      <3>1. CASE c # d
        <4>1. HasCode(c)
          BY <2>1, <2>4, <3>1 DEF HasCode, Others
        <4>2. addCode = c
          BY <1>0, <2>4, <4>1
        <4>3. call[d].op # "GADC"
          <5>1. InFlight(d)
            BY <1>3 DEF Recv, InFlight
          <5>2. call[d].op = "GADC" => PanelOut(d)
            BY <5>1 DEF PanelOut, PanelOps
          <5> QED BY <2>4, <3>1, <5>2, OnePanelOut DEF Known
        <4> QED BY <2>2, <4>2, <4>3
      <3>2. CASE c = d /\ last
        <4>1. IsResult(m) /\ addCode' = addCode
          BY <2>2, <2>3, <2>4, <3>2
        <4>2. HasCode(c)
          <5>1. PICK i \in DOMAIN call'[c].got : call'[c].got[i].body = "value"
            BY <2>4 DEF HasCode
          <5>2. call'[c].got[i] = m \/ \E j \in DOMAIN call[c].got : call'[c].got[i] = call[c].got[j]
            BY <2>1, <3>2, <5>1, AppendAt
          <5> QED BY <4>1, <5>1, <5>2 DEF HasCode, IsResult
        <4> QED BY <1>0, <2>4, <4>1, <4>2
      <3>3. CASE c = d /\ ~last
        <4>1. Len(call[d].got) = 0
          BY <2>1, <2>3, <2>4, <3>3, LenProperties DEF Reads
        <4>2. PICK i \in DOMAIN call'[c].got : call'[c].got[i].body = "value"
          BY <2>4 DEF HasCode
        <4>3. call'[c].got[i] = m
          <5>1. call[d].got = <<>>
            BY <2>1, <4>1, EmptySeq
          <5>2. call'[d].got = <<m>>
            BY <2>1, <5>1
          <5> QED BY <3>3, <4>2, <5>2
        <4> QED BY <2>2, <2>3, <2>4, <3>3, <4>2, <4>3
      <3> QED BY <3>1, <3>2, <3>3
    <2> QED BY <1>0, <2>4 DEF CodeInv
  <1> QED BY <1>1, <1>2, <1>3, CallOrNot

\* A decision on a call that has returned does not change.
LEMMA VerdictStays ==
    ASSUME CodeMoves, NEW c \in Calls, call[c].op \in PanelOps, call[c].pc = "done"
    PROVE  verdict'[c] = verdict[c]
  BY DEF CodeMoves, Decides, InFlight

LEMMA AcceptedKept ==
    ASSUME Known, ClientStep, CallsKept, CodeMoves
    PROVE  AcceptedInv'
  <1> SUFFICES ASSUME NEW c \in Calls, call'[c].op \in PanelOps, GivenUp(c)'
               PROVE  verdict'[c] = "ok" /\ (call'[c].op = "GADC" => HasCode(c)')
    BY DEF AcceptedInv
  <1>0. /\ call'[c].op = call[c].op
        /\ call[c].pc = "done" => call'[c] = call[c]
    BY DEF CallsKept
  <1>1. CASE call[c].pc = "done"
    <2>1. GivenUp(c)
      BY <1>0, <1>1 DEF GivenUp
    <2>2. verdict[c] = "ok" /\ (call[c].op = "GADC" => HasCode(c))
      BY <1>0, <2>1 DEF Known, AcceptedInv
    <2>3. verdict'[c] = verdict[c]
      BY <1>0, <1>1, VerdictStays
    <2>4. HasCode(c) => HasCode(c)'
      BY <1>0, <1>1 DEF HasCode
    <2> QED BY <1>0, <2>2, <2>3, <2>4
  <1>2. CASE call[c].pc # "done"
    <2>1. call'[c] # call[c]
      BY <1>2 DEF GivenUp
    <2>2. PICK d \in Calls : CallStep(d)
      BY <2>1, CallOrNot
    <2>3. d = c
      BY <2>1, <2>2, EffectOfCall DEF Known, DInv, Effect, Others
    <2>4. /\ call[c].pc = "defer" /\ call[c].result = "ok"
          /\ call'[c].got = call[c].got
      BY <1>0, <2>2, <2>3, CallEnds DEF Known
    <2>5. verdict[c] = "ok" /\ (call[c].op = "GADC" => HasCode(c))
      BY <1>0, <2>4, AcceptedAtEnd DEF Known
    <2>6. UNCHANGED verdict
      BY <2>2, <2>3, <2>4 DEF CallStep, ConnectEnter, Dial, DisconnectEnter, MakeChan,
          Write, Look, Recv, Delete, Defer, Close, Clear
    <2>7. HasCode(c) => HasCode(c)'
      BY <2>4 DEF HasCode
    <2> QED BY <1>0, <2>5, <2>6, <2>7
  <1> QED BY <1>1, <1>2

LEMMA OneConnectKept ==
    ASSUME Known, ClientStep, CallsKept, MadeKept, DialMoves, CodeMoves
    PROVE  OneConnectInv'
  <1> SUFFICES ASSUME ~ManyConnects, conn' \in Conns, NoRefusal'
               PROVE  /\ (\A c \in Calls : ~PanelOut(c)) =>
                             /\ ~ui.open => ui.grid = Nil
                             /\ ui.grid # Nil => net'[conn'].code = ui.grid
                      /\ \A c \in Calls : PanelOut(c) /\ call[c].op = "GADC" =>
                             /\ ui.open /\ ui.grid = Nil
                             /\ verdict'[c] = "ok" => net'[conn'].code = c
    BY DEF OneConnectInv, CallsKept, MadeKept
  <1>0. \A c \in Calls : PanelOut(c) => c \in MadeOf(PanelOps)
    BY OutIsMade DEF Known
  <1>1. CASE conn' # conn
    <2>1. /\ conn' \in MadeOf({"INIT"}) /\ InFlight(conn') /\ ~ui.online
          /\ MadeOf(PanelOps) = {}
      BY <1>1, NewConnection DEF Known
    <2>2. ~QuitOk
      BY <2>1, FirstConnection
    <2>3. ~ui.open /\ ui.grid = Nil
      BY <2>1, <2>2 DEF Known, HistoryInv
    <2> QED BY <1>0, <2>1, <2>3
  <1>2. CASE conn' = conn
    <2>1. NoRefusal
      BY DEF NoRefusal, CallsKept
    <2>2. /\ (\A c \in Calls : ~PanelOut(c)) =>
                 /\ ~ui.open => ui.grid = Nil
                 /\ ui.grid # Nil => net[conn].code = ui.grid
          /\ \A c \in Calls : PanelOut(c) /\ call[c].op = "GADC" =>
                 /\ ui.open /\ ui.grid = Nil
                 /\ verdict[c] = "ok" => net[conn].code = c
      BY <1>2, <2>1 DEF Known, OneConnectInv
    <2>3. \A c \in Calls, k \in Conns : Decides(c, k) => PanelOut(c)
      BY DEF Decides, PanelOut
    <2>4. net'[conn].code = net[conn].code \/ \E c \in Calls : Decides(c, conn)
      BY <1>2 DEF CodeMoves
    <2>5. ASSUME NEW c \in Calls, PanelOut(c), call[c].op = "GADC", verdict'[c] = "ok"
          PROVE  net'[conn].code = c
      <3>1. CASE verdict'[c] = verdict[c]
        <4>1. net[conn].code = c
          BY <2>2, <2>5, <3>1
        <4>2. ASSUME NEW d \in Calls, Decides(d, conn)
              PROVE  FALSE
          <5>1. d = c
            BY <2>3, <2>5, <4>2, <1>2, OnePanelOut DEF Known
          <5> QED BY <2>5, <3>1, <4>2, <5>1 DEF Decides
        <4> QED BY <2>4, <4>1, <4>2
      <3>2. CASE verdict'[c] # verdict[c]
        <4>1. PICK k \in Conns : Decides(c, k)
          BY <2>5, <3>2 DEF CodeMoves, PanelOps
        <4>2. Dialed(k) /\ Dialed(conn)
          BY <1>2, <4>1 DEF Decides, Pending, Known, LinkInv
        <4>3. k = conn
          BY <1>2, <4>2 DEF Known, LinkInv, ManyConnects
        <4> QED BY <2>5, <4>1, <4>3 DEF Decides
      <3> QED BY <3>1, <3>2
    <2> QED BY <1>2, <2>2, <2>3, <2>4, <2>5
  <1> QED BY <1>1, <1>2

LEMMA OnePanelKept ==
    ASSUME Known, CallsKept, MadeKept, DialMoves, RequestMoves, CodeMoves
    PROVE  OnePanelInv'
  <1> SUFFICES ASSUME ~ManyPanels'
               PROVE  /\ MadeOf(PanelOps)' = {} => ~ui'.open /\ ui'.grid = Nil
                      /\ \A c \in MadeOf(PanelOps)' :
                          /\ call'[c].op = "GADC"
                          /\ PanelOut(c)' => ui'.grid = Nil
                          /\ ui'.grid # Nil => ui'.grid = c /\ GivenUp(c)'
                          /\ ui'.open /\ Hopes(c)' => OnThisLink(c)'
    BY DEF OnePanelInv
  <1>1. ~ManyPanels /\ MadeOf(PanelOps)' = MadeOf(PanelOps) /\ UNCHANGED ui
    BY DEF MadeKept, CallsKept
  <1>2. MadeOf(PanelOps) = {} => ~ui.open /\ ui.grid = Nil
    BY <1>1 DEF Known, OnePanelInv
  <1>3. ASSUME NEW c \in MadeOf(PanelOps)
        PROVE  /\ call'[c].op = "GADC"
               /\ PanelOut(c)' => ui.grid = Nil
               /\ ui.grid # Nil => ui.grid = c /\ GivenUp(c)'
               /\ ui.open /\ Hopes(c)' => OnThisLink(c)'
    <2>1. /\ c \in Calls /\ call'[c].op = call[c].op
          /\ PanelOut(c)' <=> PanelOut(c)
          /\ call[c].pc = "done" => call'[c] = call[c]
      BY DEF CallsKept, MadeOf
    <2>2. /\ call[c].op = "GADC"
          /\ PanelOut(c) => ui.grid = Nil
          /\ ui.grid # Nil => ui.grid = c /\ GivenUp(c)
          /\ ui.open /\ Hopes(c) => OnThisLink(c)
      BY <1>1 DEF Known, OnePanelInv
    <2>3. (GivenUp(c) => GivenUp(c)') /\ (Hopes(c)' => Hopes(c))
      BY <2>1 DEF GivenUp, Hopes
    <2>4. ASSUME ui.open, OnThisLink(c)
          PROVE  OnThisLink(c)'
      <3>1. ui'.online
        BY <1>1, <2>4 DEF OnThisLink
      <3>2. ASSUME conn' \in Conns
            PROVE  /\ verdict'[c] = "ok" => net'[conn'].code = c
                   /\ \A k \in Conns : Pending(c, k)' => k = conn'
        <4>1. conn' = conn
          BY <1>1, <3>1, <3>2, NewConnection
        <4>2. /\ verdict[c] = "ok" => net[conn].code = c
              /\ \A k \in Conns : Pending(c, k) => k = conn
          BY <2>4, <3>2, <4>1 DEF OnThisLink
        <4>3. ASSUME NEW k \in Conns, Pending(c, k)'
              PROVE  k = conn
          <5>1. PICK i \in DOMAIN net'[k].up :
                    net'[k].up[i].from = c /\ net'[k].up[i].last
            BY <4>3 DEF Pending
          <5>2. CASE \E j \in DOMAIN net[k].up : net'[k].up[i] = net[k].up[j]
            BY <4>2, <5>1, <5>2 DEF Pending
          <5> QED BY <5>1, <5>2 DEF RequestMoves
        <4>4. ASSUME verdict'[c] = "ok"
              PROVE  net'[conn].code = c
          <5>1. CASE verdict'[c] = verdict[c]
            <6>1. net[conn].code = c
              BY <4>2, <4>4, <5>1
            <6>2. ASSUME NEW d \in Calls, Decides(d, conn)
                  PROVE  FALSE
              <7>1. d \in MadeOf(PanelOps)
                BY <6>2 DEF Decides, InFlight, MadeOf
              <7>2. d = c
                BY <1>1, <7>1 DEF ManyPanels
              <7> QED BY <4>4, <5>1, <6>2, <7>2 DEF Decides
            <6> QED BY <3>2, <4>1, <6>1, <6>2 DEF CodeMoves
          <5>2. CASE verdict'[c] # verdict[c]
            <6>1. PICK k \in Conns : Decides(c, k)
              BY <2>1, <2>2, <5>2 DEF CodeMoves, PanelOps
            <6>2. k = conn
              BY <4>2, <6>1 DEF Decides
            <6> QED BY <2>2, <4>4, <6>1, <6>2 DEF Decides
          <5> QED BY <5>1, <5>2
        <4> QED BY <4>1, <4>3, <4>4
      <3> QED BY <3>1, <3>2 DEF OnThisLink
    <2> QED BY <2>1, <2>2, <2>3, <2>4
  <1> QED BY <1>1, <1>2, <1>3

\* Whatever the calls, the handlers, the server and the network do.
LEMMA ClientShow ==
    ASSUME DInv, WindowInv, ShowInv, ClientStep
    PROVE  ShowInv'
  <1> SUFFICES ASSUME ui'.shut = Nil, ~Mixed'
               PROVE  /\ HistoryInv' /\ LinkInv' /\ CodeInv' /\ AcceptedInv'
                      /\ OneConnectInv' /\ OnePanelInv'
    BY DEF ShowInv
  <1>1. CallsKept /\ MadeKept
    BY ClientKeeps, KeptMade
  <1>2. ui.shut = Nil /\ ~Mixed
    BY <1>1 DEF CallsKept, MadeKept, Mixed
  <1>3. Known
    BY <1>2 DEF Known, DInv, WindowInv, ShowInv
  <1>4. DialMoves /\ RequestMoves /\ CodeMoves
    BY <1>3, ClientMoves DEF Known
  <1> QED BY <1>1, <1>3, <1>4, HistoryKept, LinkKept, CodeKept, AcceptedKept,
             OneConnectKept, OnePanelKept

-----------------------------------------------------------------------------
(* Steps of the window keep the invariant of the display.                   *)

WindowOnly == UNCHANGED <<net, conn, addCode, verdict>>

\* The calls that were made are as they were; one may have started.
CallsStay ==
    \A d \in Calls : call[d].pc # "idle" => call'[d] = call[d]

LEMMA StayKeeps ==
    ASSUME CallsStay
    PROVE  /\ ManyConnects => ManyConnects'
           /\ ManyPanels => ManyPanels'
           /\ Mixed => Mixed'
           /\ NoRefusal' => NoRefusal
           /\ QuitOk => QuitOk'
           /\ \A d \in Calls : call[d].pc = "done" => call'[d] = call[d]
           /\ MadeOf({"INIT"}) \subseteq MadeOf({"INIT"})'
  <1>1. MadeOf({"INIT"}) \subseteq MadeOf({"INIT"})'
        /\ MadeOf(PanelOps) \subseteq MadeOf(PanelOps)'
    BY DEF CallsStay, MadeOf
  <1>2. \A d \in Calls : call[d].pc = "done" => call'[d] = call[d]
    BY DEF CallsStay
  <1> QED BY <1>1, <1>2 DEF ManyConnects, ManyPanels, Mixed, NoRefusal, QuitOk, GivenUp

\* Connections and requests are nothing a window's step touches.
LEMMA LinksStay ==
    ASSUME LinkInv, WindowOnly, CallsStay
    PROVE  LinkInv'
  <1>1. MadeOf({"INIT"}) \subseteq MadeOf({"INIT"})'
    BY StayKeeps
  <1>2. UNCHANGED <<net, conn>>
    BY DEF WindowOnly
  <1>3. \A k \in Conns : Dialed(k)' <=> Dialed(k)
    BY <1>2 DEF Dialed
  <1> QED BY <1>1, <1>2, <1>3 DEF LinkInv, Dialed

\* A Connect or Disconnect may have started, a callback been queued, a
\* callback may have changed the status row: the panel shows what it showed.
LEMMA SamePanel ==
    ASSUME Known, WindowOnly, CallsStay,
           ui'.open = ui.open, ui'.grid = ui.grid,
           MadeOf(PanelOps)' = MadeOf(PanelOps),
           \A d \in Calls : PanelOut(d)' <=> PanelOut(d),
           \A d \in Calls : GivenUp(d)' => GivenUp(d) /\ call'[d] = call[d],
           MadeOf({"QUIT"})' # {} => MadeOf({"QUIT"}) # {} \/ ui.online,
           \/ ui'.online = ui.online /\ (ui'.exp => ui.exp)
           \/ /\ ui'.online
              /\ \E c \in Calls : call[c].op = "INIT" /\ call[c].pc = "done"
    PROVE  /\ HistoryInv' /\ LinkInv' /\ CodeInv' /\ AcceptedInv'
           /\ OneConnectInv' /\ OnePanelInv'
  <1>0. /\ ManyConnects => ManyConnects'
        /\ NoRefusal' => NoRefusal
        /\ \A d \in Calls : call[d].pc = "done" => call'[d] = call[d]
    BY StayKeeps
  <1>1. UNCHANGED <<net, conn, addCode, verdict>>
    BY DEF WindowOnly
  <1>2. QuitOk' <=> QuitOk
    BY <1>0 DEF QuitOk, GivenUp
  <1>3. \A c \in MadeOf(PanelOps) : call'[c] = call[c]
    BY DEF MadeOf, CallsStay
  <1>4. \A c \in Calls : PanelOut(c) => c \in MadeOf(PanelOps)
    BY OutIsMade DEF Known
  <1>5. HistoryInv'
    <2>1. ui'.online \/ MadeOf({"QUIT"})' # {} =>
              \E c \in Calls : call'[c].op = "INIT" /\ call'[c].pc = "done"
      <3> SUFFICES ASSUME ui'.online \/ MadeOf({"QUIT"})' # {}
                   PROVE  \E c \in Calls : call[c].op = "INIT" /\ call[c].pc = "done"
        BY <1>0
      <3> QED BY DEF Known, HistoryInv
    <2>2. ~ui'.online /\ ~QuitOk' =>
              ~ui'.exp /\ ~ui'.open /\ ui'.grid = Nil /\ MadeOf(PanelOps)' = {}
      BY <1>2 DEF Known, HistoryInv
    <2>3. ~ManyConnects' /\ conn' \in Conns => ~QuitOk'
      BY <1>0, <1>1, <1>2 DEF Known, HistoryInv
    <2> QED BY <2>1, <2>2, <2>3 DEF HistoryInv
  <1>6. LinkInv'
    <2>1. LinkInv
      BY DEF Known
    <2> QED BY <2>1, LinksStay
  <1>7. CodeInv'
    BY <1>1, <1>3, <1>4 DEF Known, CodeInv, HasCode
  <1>8. AcceptedInv'
    BY <1>1 DEF Known, AcceptedInv, HasCode
  <1>9. OneConnectInv'
    <2> SUFFICES ASSUME ~ManyConnects, conn \in Conns, NoRefusal
                 PROVE  /\ (\A c \in Calls : ~PanelOut(c)) =>
                               /\ ~ui.open => ui.grid = Nil
                               /\ ui.grid # Nil => net[conn].code = ui.grid
                        /\ \A c \in Calls : PanelOut(c) /\ call[c].op = "GADC" =>
                               /\ ui.open /\ ui.grid = Nil
                               /\ verdict[c] = "ok" => net[conn].code = c
      BY <1>0, <1>1, <1>3, <1>4 DEF OneConnectInv
    <2> QED BY DEF Known, OneConnectInv
  <1>10. OnePanelInv'
    <2> SUFFICES ASSUME ~ManyPanels'
                 PROVE  /\ MadeOf(PanelOps)' = {} => ~ui'.open /\ ui'.grid = Nil
                        /\ \A c \in MadeOf(PanelOps)' :
                            /\ call'[c].op = "GADC"
                            /\ PanelOut(c)' => ui'.grid = Nil
                            /\ ui'.grid # Nil => ui'.grid = c /\ GivenUp(c)'
                            /\ ui'.open /\ Hopes(c)' => OnThisLink(c)'
      BY DEF OnePanelInv
    <2>1. ~ManyPanels
      BY DEF ManyPanels
    <2>2. MadeOf(PanelOps) = {} => ~ui.open /\ ui.grid = Nil
      BY <2>1 DEF Known, OnePanelInv
    <2>3. ASSUME NEW c \in MadeOf(PanelOps)
          PROVE  /\ call'[c].op = "GADC"
                 /\ PanelOut(c)' => ui.grid = Nil
                 /\ ui.grid # Nil => ui.grid = c /\ GivenUp(c)'
                 /\ ui.open /\ Hopes(c)' => OnThisLink(c)'
      <3>1. /\ call[c].op = "GADC"
            /\ PanelOut(c) => ui.grid = Nil
            /\ ui.grid # Nil => ui.grid = c /\ GivenUp(c)
            /\ ui.open /\ Hopes(c) => OnThisLink(c)
        BY <2>1 DEF Known, OnePanelInv
      <3>2. c \in Calls /\ call'[c] = call[c]
        BY <1>3 DEF MadeOf
      <3>3. (GivenUp(c) => GivenUp(c)') /\ (Hopes(c)' => Hopes(c))
        BY <3>2 DEF GivenUp, Hopes
      <3>4. OnThisLink(c) => OnThisLink(c)'
        BY <1>1 DEF OnThisLink, Pending
      <3> QED BY <3>1, <3>2, <3>3, <3>4
    <2> QED BY <2>2, <2>3
  <1> QED BY <1>5, <1>6, <1>7, <1>8, <1>9, <1>10

\* What all steps of the window start from.
LEMMA KnownHere ==
    ASSUME DInv, WindowInv, ShowInv, ui.shut = Nil, ~Mixed
    PROVE  Known /\ ui \in UiType /\ IdleInv /\ FiniteInv
  BY DEF Known, DInv, WindowInv, ShowInv, DesktopTypeOK, UiType

LEMMA ClickShow ==
    ASSUME DInv, WindowInv, ShowInv, ui.shut = Nil, NEW c \in Calls, ClickStatus(c)
    PROVE  ShowInv'
  <1> DEFINE op == IF ui.online THEN "QUIT" ELSE "INIT"
  <1>1. /\ Invoke(c, op) /\ ui' = [ui EXCEPT !.row = FALSE]
        /\ op \in StatusOps /\ op \notin PanelOps /\ WindowOnly
        /\ op = "QUIT" => ui.online
    BY DEF ClickStatus, RowOff, StatusOps, PanelOps, Invoke, WindowOnly
  <1>2. /\ Mixed => Mixed'
        /\ call[c].pc = "idle" /\ call'[c].op = op /\ call'[c].pc # "idle" /\ InFlight(c)'
        /\ \A d \in Calls \ {c} : call'[d] = call[d]
        /\ MadeOf(PanelOps)' = MadeOf(PanelOps)
    BY <1>1, StartKeeps DEF WindowInv
  <1> SUFFICES ASSUME ~Mixed'
               PROVE  /\ HistoryInv' /\ LinkInv' /\ CodeInv' /\ AcceptedInv'
                      /\ OneConnectInv' /\ OnePanelInv'
    BY DEF ShowInv
  <1>3. Known /\ ui \in UiType
    BY <1>2, KnownHere
  <1>4. /\ ui'.idle = ui.idle /\ ui'.posted = ui.posted
        /\ ui'.exp = ui.exp /\ ui'.online = ui.online
        /\ ui'.open = ui.open /\ ui'.grid = ui.grid
    BY <1>1, <1>3 DEF UiType
  <1>5. CallsStay
    BY <1>2 DEF CallsStay
  <1>6. \A d \in Calls : PanelOut(d)' <=> PanelOut(d)
    <2>1. ~PanelOut(c)
      BY <1>2, IdleNotOut DEF PanelOut, InFlight, DInv
    <2>2. ~PanelOut(c)'
      BY <1>1, <1>2 DEF PanelOut
    <2>3. \A d \in Calls \ {c} : PanelOut(d)' <=> PanelOut(d)
      BY <1>2, <1>4 DEF PanelOut, InFlight
    <2> QED BY <2>1, <2>2, <2>3
  <1>7. \A d \in Calls : GivenUp(d)' => GivenUp(d) /\ call'[d] = call[d]
    BY <1>2 DEF GivenUp, InFlight
  <1>8. MadeOf({"QUIT"})' # {} => MadeOf({"QUIT"}) # {} \/ ui.online
    BY <1>1, <1>2 DEF MadeOf
  <1> HIDE DEF op
  <1> QED BY <1>1, <1>2, <1>3, <1>4, <1>5, <1>6, <1>7, <1>8, SamePanel

LEMMA PostShow ==
    ASSUME DInv, WindowInv, ShowInv, ui.shut = Nil, NEW c \in Calls, Post(c)
    PROVE  ShowInv'
  <1>1. /\ ui \in UiType /\ ui.idle \in Seq(Calls) /\ UNCHANGED vars
        /\ ui' = [ui EXCEPT !.idle = Append(@, c), !.posted = @ \cup {c}]
        /\ call[c].pc = "done" /\ c \notin ui.posted
    BY DEF Post, Returned, DInv, DesktopTypeOK, UiType
  <1>2. /\ ui'.idle = Append(ui.idle, c) /\ ui'.posted = ui.posted \cup {c}
        /\ ui'.exp = ui.exp /\ ui'.online = ui.online
        /\ ui'.open = ui.open /\ ui'.grid = ui.grid
    BY <1>1 DEF UiType
  <1>3. UNCHANGED call /\ WindowOnly
    BY <1>1 DEF vars, WindowOnly
  <1>4. /\ \A i \in DOMAIN ui'.idle :
               ui'.idle[i] = c \/ (i \in DOMAIN ui.idle /\ ui'.idle[i] = ui.idle[i])
        /\ \A i \in DOMAIN ui.idle : i \in DOMAIN ui'.idle /\ ui'.idle[i] = ui.idle[i]
        /\ \E i \in DOMAIN ui'.idle : ui'.idle[i] = c
    BY <1>1, <1>2, AppendAt
  <1>5. \A d \in Calls : PanelOut(d)' <=> PanelOut(d)
    BY <1>1, <1>2, <1>3, <1>4 DEF PanelOut, InFlight
  <1>6. (Mixed' <=> Mixed) /\ CallsStay /\ MadeOf(PanelOps)' = MadeOf(PanelOps)
        /\ MadeOf({"QUIT"})' = MadeOf({"QUIT"})
    BY <1>3 DEF Mixed, ManyConnects, ManyPanels, MadeOf, CallsStay
  <1>7. \A d \in Calls : GivenUp(d)' => GivenUp(d) /\ call'[d] = call[d]
    BY <1>3 DEF GivenUp
  <1> SUFFICES ASSUME ~Mixed
               PROVE  /\ HistoryInv' /\ LinkInv' /\ CodeInv' /\ AcceptedInv'
                      /\ OneConnectInv' /\ OnePanelInv'
    BY <1>6 DEF ShowInv
  <1>8. Known
    BY KnownHere
  <1> QED BY <1>2, <1>3, <1>5, <1>6, <1>7, <1>8, SamePanel

\* The window or the whole program stands still.
LEMMA StillShow ==
    ASSUME DInv, WindowInv, ShowInv, ui.shut = Nil, UNCHANGED dvars
    PROVE  ShowInv'
  <1>1. UNCHANGED <<call, ui>> /\ WindowOnly
    BY DEF dvars, vars, WindowOnly
  <1>2. (Mixed' <=> Mixed) /\ CallsStay /\ MadeOf(PanelOps)' = MadeOf(PanelOps)
        /\ MadeOf({"QUIT"})' = MadeOf({"QUIT"})
    BY <1>1 DEF Mixed, ManyConnects, ManyPanels, MadeOf, CallsStay
  <1>3. \A d \in Calls : /\ PanelOut(d)' <=> PanelOut(d)
                         /\ GivenUp(d)' => GivenUp(d) /\ call'[d] = call[d]
    BY <1>1 DEF GivenUp, PanelOut, InFlight
  <1> SUFFICES ASSUME ~Mixed
               PROVE  /\ HistoryInv' /\ LinkInv' /\ CodeInv' /\ AcceptedInv'
                      /\ OneConnectInv' /\ OnePanelInv'
    BY <1>2 DEF ShowInv
  <1>4. Known /\ ui \in UiType
    BY KnownHere
  <1> QED BY <1>1, <1>2, <1>3, <1>4, SamePanel

\* Offline with a sensitive panel: a Disconnect has succeeded.
LEMMA OfflineShow ==
    ASSUME DInv, WindowInv, ShowInv, ui.shut = Nil, ActivateOffline
    PROVE  ShowInv'
  <1>1. /\ ui.exp /\ ~ui.online /\ UNCHANGED vars /\ WindowOnly
        /\ ui' = [ui EXCEPT !.open = FALSE]
    BY DEF ActivateOffline, vars, WindowOnly
  <1>2. /\ UNCHANGED <<call, net, conn, addCode, verdict>>
        /\ (Mixed' <=> Mixed) /\ (ManyConnects' <=> ManyConnects)
        /\ (ManyPanels' <=> ManyPanels) /\ (QuitOk' <=> QuitOk)
        /\ MadeOf(PanelOps)' = MadeOf(PanelOps)
        /\ MadeOf({"QUIT"})' = MadeOf({"QUIT"})
    BY <1>1 DEF vars, Mixed, ManyConnects, ManyPanels, MadeOf, QuitOk, GivenUp
  <1> SUFFICES ASSUME ~Mixed
               PROVE  /\ HistoryInv' /\ LinkInv' /\ CodeInv' /\ AcceptedInv'
                      /\ OneConnectInv' /\ OnePanelInv'
    BY <1>2 DEF ShowInv
  <1>3. Known /\ ui \in UiType
    BY KnownHere
  <1>4. /\ ui'.idle = ui.idle /\ ui'.posted = ui.posted /\ ui'.grid = ui.grid
        /\ ui'.exp = ui.exp /\ ui'.online = ui.online /\ ~ui'.open
    BY <1>1, <1>3 DEF UiType
  <1>5. QuitOk
    BY <1>1, <1>3 DEF Known, HistoryInv
  <1>6. HistoryInv'
    BY <1>2, <1>3, <1>4, <1>5 DEF Known, HistoryInv
  <1>7. LinkInv'
    <2>1. LinkInv /\ CallsStay
      BY <1>2, <1>3 DEF Known, CallsStay
    <2> QED BY <1>1, <2>1, LinksStay
  <1>8. \A d \in Calls : PanelOut(d)' <=> PanelOut(d)
    BY <1>2, <1>4 DEF PanelOut, InFlight
  <1>9. CodeInv' /\ AcceptedInv'
    BY <1>2, <1>3, <1>8 DEF Known, CodeInv, AcceptedInv, HasCode, GivenUp
  <1>10. OneConnectInv'
    BY <1>2, <1>3, <1>5 DEF Known, HistoryInv, OneConnectInv
  <1>11. OnePanelInv'
    <2>1. \A d \in Calls : GivenUp(d) => GivenUp(d)'
      BY <1>2 DEF GivenUp
    <2>2. MadeOf(PanelOps) \subseteq Calls /\ OnePanelInv
      BY <1>3 DEF MadeOf, Known
    <2> QED BY <1>2, <1>4, <1>8, <2>1, <2>2 DEF OnePanelInv
  <1> QED BY <1>6, <1>7, <1>9, <1>10, <1>11

\* Online with a sensitive panel: the first panel call opens it, and no
\* other is left while there was one Connect.
LEMMA ActivateShow ==
    ASSUME DInv, WindowInv, ShowInv, ui.shut = Nil, NEW c \in Calls, ActivateOnline(c)
    PROVE  ShowInv'
  <1> DEFINE op == IF ui.open THEN "RADC" ELSE "GADC"
  <1>1. /\ ui.exp /\ ui.online /\ Invoke(c, op) /\ WindowOnly
        /\ ui' = [ui EXCEPT !.exp = FALSE, !.open = ~@]
        /\ op \in PanelOps /\ op # "INIT" /\ op # "QUIT"
        /\ call' = [call EXCEPT ![c].op = op, ![c].pc = "make"]
    BY DEF ActivateOnline, StatusOps, PanelOps, Invoke, WindowOnly
  <1>2. /\ Mixed => Mixed'
        /\ call[c].pc = "idle" /\ call'[c].op = op /\ call'[c].pc # "idle" /\ InFlight(c)'
        /\ \A d \in Calls \ {c} : call'[d] = call[d]
        /\ MadeOf(PanelOps)' = MadeOf(PanelOps) \cup {c}
        /\ MadeOf({"INIT"})' = MadeOf({"INIT"})
    BY <1>1, StartKeeps DEF WindowInv
  <1> SUFFICES ASSUME ~Mixed'
               PROVE  /\ HistoryInv' /\ LinkInv' /\ CodeInv' /\ AcceptedInv'
                      /\ OneConnectInv' /\ OnePanelInv'
    BY DEF ShowInv
  <1>3. Known /\ ui \in UiType
    BY <1>2, KnownHere
  <1>4. /\ ui'.idle = ui.idle /\ ui'.posted = ui.posted /\ ui'.grid = ui.grid
        /\ ui'.online /\ ui'.open = ~ui.open
        /\ UNCHANGED <<net, conn, addCode, verdict>>
    BY <1>1, <1>3 DEF UiType, WindowOnly
  <1>5. verdict[c] = "none" /\ call'[c].got = <<>>
    <2>1. verdict[c] = "none" /\ call[c].got = <<>>
      BY <1>2, <1>3, RInvParts DEF Known, FreshInv, BeforePCs
    <2>2. call'[c].got = call[c].got
      <3>1. call \in [Calls -> CallType]
        BY <1>3 DEF Known, IInv, TypeOK
      <3> HIDE DEF op
      <3> QED BY <1>1, <3>1 DEF CallType
    <2> QED BY <2>1, <2>2
  <1> HIDE DEF op
  <1>6. \A d \in Calls \ {c} : PanelOut(d)' <=> PanelOut(d)
    BY <1>2, <1>4 DEF PanelOut, InFlight
  <1>7. CallsStay /\ ~GivenUp(c)' /\ ~HasCode(c)' /\ PanelOut(c)'
    <2>1. CallsStay
      BY <1>2 DEF CallsStay
    <2>2. ~GivenUp(c)' /\ PanelOut(c)'
      BY <1>1, <1>2 DEF GivenUp, InFlight, PanelOut
    <2>3. ~HasCode(c)'
      <3>1. DOMAIN call'[c].got = {}
        BY <1>5
      <3> QED BY <3>1 DEF HasCode
    <2> QED BY <2>1, <2>2, <2>3
  <1>8. /\ ManyConnects' <=> ManyConnects
        /\ NoRefusal' => NoRefusal
        /\ QuitOk' => QuitOk
        /\ MadeOf({"QUIT"})' = MadeOf({"QUIT"})
    <2>1. ManyConnects' <=> ManyConnects
      BY <1>2 DEF ManyConnects
    <2>2. NoRefusal' => NoRefusal
      BY <1>7, StayKeeps
    <2>3. QuitOk' => QuitOk
      BY <1>2, <1>7 DEF QuitOk, GivenUp
    <2>4. MadeOf({"QUIT"})' = MadeOf({"QUIT"})
      BY <1>1, <1>2 DEF MadeOf
    <2> QED BY <2>1, <2>2, <2>3, <2>4
  <1>9. HistoryInv'
    <2>1. PICK a \in Calls : call[a].op = "INIT" /\ call[a].pc = "done"
      BY <1>1, <1>3 DEF Known, HistoryInv
    <2>2. call'[a] = call[a]
      BY <1>2, <2>1
    <2> QED BY <1>3, <1>4, <1>8, <2>1, <2>2 DEF Known, HistoryInv
  <1>10. LinkInv'
    <2>1. LinkInv
      BY <1>3 DEF Known
    <2> QED BY <1>1, <1>7, <2>1, LinksStay
  <1>11. CodeInv' /\ AcceptedInv'
    BY <1>2, <1>3, <1>4, <1>6, <1>7 DEF Known, CodeInv, AcceptedInv, HasCode, GivenUp
  <1>12. OneConnectInv'
    <2> SUFFICES ASSUME ~ManyConnects, conn \in Conns, NoRefusal,
                        NEW d \in Calls, PanelOut(d)', call'[d].op = "GADC"
                 PROVE  /\ ui'.open /\ ui'.grid = Nil
                        /\ verdict'[d] = "ok" => net'[conn'].code = d
      BY <1>4, <1>7, <1>8 DEF OneConnectInv
    <2>1. \A e \in Calls : ~PanelOut(e)
      BY <1>1, <1>3 DEF Known, PanelInv
    <2>2. d = c /\ ~ui.open
      BY <1>2, <1>6, <2>1 DEF op
    <2>3. ui.grid = Nil
      BY <1>3, <2>1, <2>2 DEF Known, OneConnectInv
    <2> QED BY <1>4, <1>5, <2>2, <2>3
  <1>13. OnePanelInv'
    <2> SUFFICES ASSUME ~ManyPanels'
                 PROVE  /\ call'[c].op = "GADC" /\ ui'.grid = Nil
                        /\ MadeOf(PanelOps)' = {c} /\ OnThisLink(c)'
      BY DEF OnePanelInv
    <2>1. MadeOf(PanelOps) = {}
      <3>1. ASSUME NEW e \in MadeOf(PanelOps)
            PROVE  FALSE
        <4>1. e # c
          BY <1>2 DEF MadeOf
        <4> QED BY <1>2, <4>1 DEF ManyPanels
      <3> QED BY <3>1
    <2>2. ~ManyPanels
      BY <2>1 DEF ManyPanels
    <2>3. ~ui.open /\ ui.grid = Nil
      BY <1>3, <2>1, <2>2 DEF Known, OnePanelInv
    <2>4. \A k \in Conns : ~Pending(c, k)
      BY <1>2, <1>3, RInvParts DEF Known, RequestInv, Pending, BeforePCs
    <2>5. OnThisLink(c)'
      BY <1>4, <1>5, <2>4 DEF OnThisLink, Pending
    <2> QED BY <1>2, <1>4, <2>1, <2>3, <2>5 DEF op
  <1> QED BY <1>9, <1>10, <1>11, <1>12, <1>13

\* A callback displays the Add Code its call was given, or takes it away.
LEMMA CallbackShow ==
    ASSUME DInv, WindowInv, ShowInv, ui.shut = Nil, Callback
    PROVE  ShowInv'
  <1>1. UNCHANGED <<call, net, conn, addCode, verdict>> /\ WindowOnly
    <2>1. UNCHANGED <<call, hdl, net, conn, chanMap, buf, addCode, verdict>>
      BY Zenon DEF Callback
    <2> QED BY <2>1 DEF WindowOnly
  <1>2. PICK c \in Calls : CallbackOf(c)
    BY CallbackEffect
  <1>3. /\ (Mixed' <=> Mixed) /\ (ManyConnects' <=> ManyConnects)
        /\ (ManyPanels' <=> ManyPanels) /\ (QuitOk' <=> QuitOk)
        /\ (NoRefusal' <=> NoRefusal) /\ CallsStay
        /\ MadeOf(PanelOps)' = MadeOf(PanelOps)
        /\ MadeOf({"INIT"})' = MadeOf({"INIT"})
        /\ MadeOf({"QUIT"})' = MadeOf({"QUIT"})
    BY <1>1 DEF Mixed, ManyConnects, ManyPanels, MadeOf, QuitOk, GivenUp, NoRefusal,
                CallsStay
  <1> SUFFICES ASSUME ~Mixed
               PROVE  /\ HistoryInv' /\ LinkInv' /\ CodeInv' /\ AcceptedInv'
                      /\ OneConnectInv' /\ OnePanelInv'
    BY <1>3 DEF ShowInv
  <1>4. Known /\ ui.online \in BOOLEAN
    <2>1. Known /\ ui \in UiType
      BY KnownHere
    <2> QED BY <2>1 DEF UiType
  <1>5. /\ call[c].pc = "done" /\ PanelAfter(ui', c)
        /\ call[c].op \in StatusOps \cup PanelOps
        /\ call[c].op \in PanelOps => ui'.online = ui.online /\ PanelOut(c)
        /\ call[c].op \in PanelOps => c \in MadeOf(PanelOps)
        /\ ~PanelOut(c)'
        /\ \A d \in Calls \ {c} : PanelOut(d)' <=> PanelOut(d)
    <2>1. /\ call[c].pc = "done" /\ PanelAfter(ui', c)
          /\ call[c].op \in PanelOps => ui'.online = ui.online /\ PanelOut(c)
      BY <1>2 DEF CallbackOf, PanelOut
    <2>2. call[c].op \in StatusOps \cup PanelOps
      BY DEF DInv, CallsInv
    <2>3. ~PanelOut(c)'
      BY <1>1, <1>2 DEF CallbackOf, PanelOut, InFlight
    <2>4. \A d \in Calls \ {c} : PanelOut(d)' <=> PanelOut(d)
      BY <1>1, <1>2 DEF CallbackOf, PanelOut, InFlight
    <2>5. call[c].op \in PanelOps => c \in MadeOf(PanelOps)
      BY <2>1 DEF MadeOf
    <2> QED BY <2>1, <2>2, <2>3, <2>4, <2>5
  <1>6. \A d \in Calls : GivenUp(d)' => GivenUp(d) /\ call'[d] = call[d]
    BY <1>1 DEF GivenUp
  \* What does not depend on the widgets.
  <1>7. LinkInv'
    <2>1. LinkInv
      BY <1>4 DEF Known
    <2> QED BY <1>1, <1>3, <2>1, LinksStay
  <1>8. CodeInv' /\ AcceptedInv'
    BY <1>1, <1>4, <1>5 DEF Known, CodeInv, AcceptedInv, HasCode, GivenUp
  <1>9. CASE call[c].op \in StatusOps /\ ~(call[c].op = "QUIT" /\ GivenUp(c))
    <2>1. \A d \in Calls : PanelOut(d)' <=> PanelOut(d)
      <3>1. ~PanelOut(c)
        BY <1>9 DEF PanelOut, StatusOps, PanelOps
      <3> QED BY <1>5, <3>1
    <2>2. ui'.open = ui.open /\ ui'.grid = ui.grid
      BY <1>5, <1>9 DEF PanelAfter, StatusOps, GivenUp
    <2>3. \/ ui'.online = ui.online /\ (ui'.exp => ui.exp)
          \/ /\ ui'.online
             /\ \E d \in Calls : call[d].op = "INIT" /\ call[d].pc = "done"
      <3>1. CASE call[c].op = "INIT" /\ call[c].result = "ok"
        BY <1>2, <1>5, <3>1 DEF CallbackOf
      <3>2. CASE call[c].op = "INIT" /\ call[c].result # "ok"
        <4>1. ui'.online = ui.online
          BY <1>2, <1>4, <3>2 DEF CallbackOf
        <4>2. ui'.exp = ui.exp
          BY <1>5, <3>2 DEF PanelAfter
        <4> QED BY <4>1, <4>2
      <3>3. CASE call[c].op = "QUIT"
        <4>1. call[c].result # "ok"
          BY <1>5, <1>9, <3>3 DEF GivenUp
        <4>2. ui'.online = ui.online /\ (ui'.exp => ui.exp)
          BY <1>2, <1>4, <3>3, <4>1 DEF CallbackOf
        <4> QED BY <4>2
      <3> QED BY <1>9, <3>1, <3>2, <3>3 DEF StatusOps
    <2> QED BY <1>1, <1>3, <1>4, <1>6, <2>1, <2>2, <2>3, SamePanel
  <1>10. CASE call[c].op = "QUIT" /\ GivenUp(c)
    <2>1. QuitOk /\ ~ui'.open /\ ui'.grid \in {Nil, ui.grid} /\ c \in MadeOf({"QUIT"})
      BY <1>5, <1>10 DEF PanelAfter, QuitOk, GivenUp, MadeOf
    <2>2. HistoryInv'
      BY <1>1, <1>3, <1>4, <2>1 DEF Known, HistoryInv
    <2>3. OneConnectInv'
      BY <1>1, <1>3, <1>4, <2>1 DEF Known, HistoryInv, OneConnectInv
    <2>4. OnePanelInv'
      <3>1. \A d \in Calls : PanelOut(d)' => PanelOut(d)
        BY <1>5
      <3>2. \A d \in Calls : GivenUp(d) => GivenUp(d)'
        BY <1>1 DEF GivenUp
      <3>3. MadeOf(PanelOps) \subseteq Calls /\ OnePanelInv
        BY <1>4 DEF MadeOf, Known
      <3> QED BY <1>1, <1>3, <2>1, <3>1, <3>2, <3>3 DEF OnePanelInv
    <2> QED BY <1>7, <1>8, <2>2, <2>3, <2>4
  <1>11. CASE call[c].op \in PanelOps
    <2>1. \A d \in Calls : ~PanelOut(d)'
      <3>1. \A d \in Calls : PanelOut(d) => d = c
        BY <1>4, <1>5, <1>11, OnePanelOut DEF Known
      <3> QED BY <1>5, <3>1
    <2>2. HistoryInv'
      <3>1. ~ui.online => QuitOk
        BY <1>4, <1>5, <1>11 DEF Known, HistoryInv
      <3> QED BY <1>1, <1>3, <1>4, <1>5, <1>11, <3>1 DEF Known, HistoryInv
    <2>3. call[c].op = "GADC" /\ GivenUp(c) => ui'.grid = c /\ verdict[c] = "ok"
      BY <1>4, <1>5, <1>11 DEF Known, AcceptedInv, CodeInv, PanelAfter, GivenUp
    <2>4. OneConnectInv'
      <3> SUFFICES ASSUME ~ManyConnects, conn \in Conns, NoRefusal
                   PROVE  /\ ~ui'.open => ui'.grid = Nil
                          /\ ui'.grid # Nil => net[conn].code = ui'.grid
        BY <1>1, <1>3, <2>1 DEF OneConnectInv
      <3>1. CASE call[c].op = "GADC"
        <4>1. /\ ui.open /\ ui.grid = Nil
              /\ verdict[c] = "ok" => net[conn].code = c
          BY <1>4, <1>5, <3>1, <1>11 DEF Known, OneConnectInv
        <4> QED BY <1>5, <2>3, <3>1, <4>1 DEF PanelAfter, GivenUp
      <3>2. CASE call[c].op = "RADC"
        <4>1. call[c].result = "ok"
          BY <1>5, <3>2 DEF NoRefusal
        <4> QED BY <1>5, <3>2, <4>1 DEF PanelAfter
      <3> QED BY <1>11, <3>1, <3>2 DEF PanelOps
    <2>5. OnePanelInv'
      <3> SUFFICES ASSUME ~ManyPanels
                   PROVE  \A d \in MadeOf(PanelOps) :
                            /\ call[d].op = "GADC"
                            /\ ui'.grid # Nil => ui'.grid = d /\ GivenUp(d)
                            /\ ui'.open /\ Hopes(d) => OnThisLink(d)'
        <4>1. \A d \in Calls : (GivenUp(d)' <=> GivenUp(d)) /\ (Hopes(d)' <=> Hopes(d))
          BY <1>1 DEF GivenUp, Hopes
        <4>2. c \in MadeOf(PanelOps) /\ MadeOf(PanelOps) \subseteq Calls
          BY <1>5, <1>11 DEF MadeOf
        <4> QED BY <1>1, <1>3, <2>1, <4>1, <4>2 DEF OnePanelInv
      <3>1. \A d \in MadeOf(PanelOps) : d = c
        BY <1>5, <1>11 DEF ManyPanels
      <3>2. /\ call[c].op = "GADC" /\ ui.grid = Nil
            /\ ui.open /\ Hopes(c) => OnThisLink(c)
        BY <1>4, <1>5, <1>11 DEF Known, OnePanelInv
      <3>3. OnThisLink(c) => OnThisLink(c)'
        BY <1>1, <1>5, <1>11 DEF OnThisLink, Pending
      <3>4. /\ ui'.grid # Nil => ui'.grid = c /\ GivenUp(c)
            /\ ui'.open /\ Hopes(c) => OnThisLink(c)'
        BY <1>5, <2>3, <3>2, <3>3 DEF PanelAfter, GivenUp, Hopes
      <3> QED BY <3>1, <3>2, <3>4
    <2> QED BY <1>7, <1>8, <2>2, <2>4, <2>5
  <1> QED BY <1>5, <1>9, <1>10, <1>11

-----------------------------------------------------------------------------

LEMMA InitShow == DesktopInit => ShowInv /\ ShutInv
  <1> SUFFICES ASSUME DesktopInit
               PROVE  /\ HistoryInv /\ LinkInv /\ CodeInv /\ AcceptedInv
                      /\ OneConnectInv /\ OnePanelInv /\ ShutInv
    BY DEF ShowInv
  <1>1. /\ \A c \in Calls : call[c].pc = "idle" /\ call[c].op = "INIT"
        /\ \A k \in Conns : net[k].link = "none" /\ net[k].up = <<>>
        /\ conn = Nil /\ Nil \notin Conns
        /\ ~ui.online /\ ~ui.exp /\ ~ui.open /\ ui.grid = Nil /\ ui.shut = Nil
    BY ClientAssumption DEF DesktopInit, Init, Conns
  <1>2. \A X : MadeOf(X) = {}
    BY <1>1 DEF MadeOf
  <1>3. HistoryInv /\ LinkInv
    BY <1>1, <1>2 DEF HistoryInv, LinkInv, Dialed
  <1>4. CodeInv /\ AcceptedInv
    BY <1>1 DEF CodeInv, AcceptedInv, GivenUp, PanelOps
  <1>5. OneConnectInv /\ OnePanelInv /\ ShutInv
    BY <1>1, <1>2 DEF OneConnectInv, OnePanelInv, ShutInv
  <1> QED BY <1>3, <1>4, <1>5

\* The shutdown's Disconnect runs on, and nothing takes the window back.
LEMMA ShutStays ==
    ASSUME DInv, ShutInv, [DesktopNext]_dvars
    PROVE  ShutInv'
  <1> SUFFICES ASSUME ui'.shut # Nil, fate' = "running"
               PROVE  /\ call'[ui'.shut].op = "QUIT" /\ call'[ui'.shut].pc # "idle"
                      /\ ui'.shut \notin ui'.posted
    BY DEF ShutInv
  <1>0. ui \in UiType
    BY DEF DInv, DesktopTypeOK, UiType
  <1>1. CASE ClientStep
    <2>1. UNCHANGED ui /\ fate = "running"
      BY <1>1 DEF ClientStep, Step
    <2>2. CallsKept
      BY <1>1, ClientKeeps
    <2>3. ui.shut \in Calls /\ call[ui.shut].op = "QUIT" /\ call[ui.shut].pc # "idle"
          /\ ui.shut \notin ui.posted
      BY <1>0, <2>1 DEF ShutInv, UiType
    <2> QED BY <2>1, <2>2, <2>3 DEF CallsKept
  <1>2. ASSUME NEW c \in Calls, ShutDown(c)
        PROVE  /\ call'[ui'.shut].op = "QUIT" /\ call'[ui'.shut].pc # "idle"
               /\ ui'.shut \notin ui'.posted
    <2>1. ui'.shut = c /\ ui'.posted = ui.posted
      BY <1>0, <1>2 DEF ShutDown, UiType
    <2>2. Invoke(c, "QUIT")
      BY <1>2 DEF ShutDown
    <2>3. call[c].pc = "idle" /\ call'[c].op = "QUIT" /\ call'[c].pc = "enter"
      BY <2>2, InvokeEffect DEF DInv, StatusOps
    <2>4. c \notin ui.posted
      BY <2>3, IdleNotOut DEF DInv
    <2> QED BY <2>1, <2>3, <2>4
  <1>3. ASSUME ui.shut = Nil, ui'.shut = ui.shut
        PROVE  FALSE
    BY <1>3
  <1>4. ASSUME UserStep, \A c \in Calls : ~ShutDown(c)
        PROVE  ui.shut = Nil /\ ui'.shut = ui.shut
    BY <1>0, <1>4 DEF UserStep, ActivateOffline, ClickStatus, ActivateOnline, UiType
  <1>5. ASSUME NEW c \in Calls, Exit(c)
        PROVE  FALSE
    BY <1>5 DEF Exit
  <1>6. ASSUME LoopStep, \A c \in Calls : ~Exit(c)
        PROVE  ui.shut = Nil /\ ui'.shut = ui.shut
    <2>1. ui.shut = Nil /\ (Callback \/ \E c \in Calls : Post(c))
      BY <1>6 DEF LoopStep
    <2>2. CASE Callback
      BY <2>1, <2>2, CallbackEffect DEF CallbackOf
    <2>3. ASSUME NEW c \in Calls, Post(c)
          PROVE  ui'.shut = ui.shut
      BY <1>0, <2>3 DEF Post, UiType
    <2> QED BY <2>1, <2>2, <2>3
  <1>7. CASE UNCHANGED dvars
    <2>1. UNCHANGED <<call, fate, ui>>
      BY <1>7 DEF dvars, vars
    <2> QED BY <2>1 DEF ShutInv
  <1> QED BY <1>1, <1>2, <1>3, <1>4, <1>5, <1>6, <1>7 DEF DesktopNext, DesktopRest

LEMMA ShowStays ==
    ASSUME DInv, WindowInv, ShowInv, [DesktopNext]_dvars
    PROVE  ShowInv'
  <1> SUFFICES ASSUME ui'.shut = Nil
               PROVE  ShowInv'
    BY DEF ShowInv
  <1>0. ui \in UiType
    BY DEF DInv, DesktopTypeOK, UiType
  <1>1. CASE UserStep
    <2>1. ui.shut = Nil
      BY <1>1 DEF UserStep
    <2>2. ASSUME NEW c \in Calls, ShutDown(c)
          PROVE  FALSE
      <3>1. ui'.shut = c
        BY <1>0, <2>2 DEF ShutDown, UiType
      <3> QED BY <3>1, ClientAssumption
    <2> QED BY <1>1, <2>1, <2>2, OfflineShow, ClickShow, ActivateShow DEF UserStep
  <1>2. CASE LoopStep
    <2>1. ASSUME NEW c \in Calls, Exit(c)
          PROVE  FALSE
      BY <2>1, ClientAssumption DEF Exit
    <2> QED BY <1>2, <2>1, CallbackShow, PostShow DEF LoopStep
  <1>3. CASE ClientStep
    BY <1>3, ClientShow
  <1>4. CASE UNCHANGED dvars
    <2>1. ui.shut = Nil
      BY <1>4 DEF dvars
    <2> QED BY <1>4, <2>1, StillShow
  <1> QED BY <1>1, <1>2, <1>3, <1>4 DEF DesktopNext, DesktopRest

LEMMA ShowInvariant == DesktopSpec => [](DInv /\ WindowInv /\ ShowInv /\ ShutInv)
  <1>1. DInv /\ WindowInv /\ ShowInv /\ ShutInv /\ [DesktopNext]_dvars
            => ShowInv' /\ ShutInv'
    BY ShowStays, ShutStays
  <1> QED BY <1>1, InitShow, WindowInvariant, PTL DEF DesktopSpec

\* In a quiet window whose open panel displays an Add Code, that is the one the
\* server has for this connection (ui.go:217-325, client.go:247, 303): however
\* the clicks, late callbacks, drops of the link and repeated connections came,
\* unless two Connects and two panel calls could mix or the server refused to
\* remove a code.
THEOREM ShownCodeRegistered == DesktopSpec => []ShownIsRegistered
  <1>1. ASSUME DInv, WindowInv, ShowInv, ShutInv
        PROVE  ShownIsRegistered
    <2> SUFFICES ASSUME ~MayMix, ui.online, ui.open, ui.grid # Nil,
                        ~Ongoing(Operations), fate = "running", conn \in Conns,
                        \A c \in Calls : call[c].op = "RADC" => call[c].result = "ok"
                 PROVE  net[conn].code = ui.grid
      BY DEF ShownIsRegistered
    <2>1. ui.shut = Nil
      <3> SUFFICES ASSUME ui.shut # Nil PROVE FALSE
        OBVIOUS
      <3>1. /\ ui.shut \in Calls /\ call[ui.shut].op = "QUIT"
            /\ call[ui.shut].pc # "idle" /\ ui.shut \notin ui.posted
        BY <1>1 DEF ShutInv, DInv, DesktopTypeOK
      <3> QED BY <3>1 DEF Ongoing, InFlight, Operations
    <2>2. ~Mixed
      BY <1>1, <2>1, MixedIsCounted DEF WindowInv
    <2>3. Known
      BY <1>1, <2>1, <2>2, KnownHere
    <2>4. \A c \in Calls : ~PanelOut(c)
      BY DEF Ongoing, PanelOut, PanelOps, Operations
    <2>5. CASE ~ManyConnects
      <3>1. NoRefusal
        BY DEF NoRefusal
      <3> QED BY <2>3, <2>4, <2>5, <3>1 DEF Known, OneConnectInv
    <2>6. CASE ~ManyPanels
      <3>1. PICK c \in MadeOf(PanelOps) : TRUE
        BY <2>3, <2>6 DEF Known, OnePanelInv
      <3>2. call[c].op = "GADC" /\ ui.grid = c /\ GivenUp(c)
            /\ (ui.open /\ Hopes(c) => OnThisLink(c))
        BY <2>3, <2>6, <3>1 DEF Known, OnePanelInv
      <3>3. c \in Calls /\ Hopes(c)
        BY <3>2 DEF MadeOf, Hopes, GivenUp
      <3>4. verdict[c] = "ok"
        BY <2>3, <3>2, <3>3 DEF Known, AcceptedInv, PanelOps
      <3> QED BY <3>2, <3>3, <3>4 DEF OnThisLink
    <2> QED BY <2>2, <2>5, <2>6 DEF Mixed
  <1> QED BY <1>1, ShowInvariant, PTL
=============================================================================
