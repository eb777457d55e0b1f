------------------------------ MODULE Desktop -------------------------------
(* The main window's use of the client (src/internal/client/ui.go): the     *)
(* status label that connects and disconnects, the Add Code panel that gets *)
(* and removes the Add Code, and the shutdown of the application. Handlers  *)
(* run on GTK's main loop; each starts a goroutine that makes one call of   *)
(* Client and then queues a callback with glib.IdleAdd.                     *)
EXTENDS Client, FiniteSets

VARIABLE ui     \* widgets, callbacks and the main loop
dvars == <<vars, ui>>

DesktopTypeOK ==
    /\ ui \in [online : BOOLEAN,       \* UIStatus.onlineStatus
               row    : BOOLEAN,       \* the status row is sensitive
               exp    : BOOLEAN,       \* the expander is sensitive
               open   : BOOLEAN,       \* the expander is expanded
               grid   : Calls \cup {Nil},      \* the Add Code displayed
               idle   : Seq(Calls),            \* callbacks queued
               posted : SUBSET Calls,          \* calls whose callback was queued
               shut   : Calls \cup {Nil}]      \* the Disconnect of the shutdown
    /\ \A c \in ui.posted : call[c].pc = "done"

DesktopInit ==
    /\ Init
    /\ ui = [online |-> FALSE, row |-> TRUE, exp |-> FALSE, open |-> FALSE,
             grid |-> Nil, idle |-> <<>>, posted |-> {}, shut |-> Nil]

\* --- Handlers of the main loop ---------------------------------------------

\* handleStatusClick: gray out the row, Disconnect or Connect.
RowOffBug == TRUE
RowOff    == FALSE

ClickStatus(c) ==
    /\ ui.row
    /\ ui' = [ui EXCEPT !.row = RowOff]
    /\ Invoke(c, IF ui.online THEN "QUIT" ELSE "INIT")

\* handleActivateExpander, then GTK's default handler, which toggles the
\* expander.
ActivateOffline ==
    /\ ui.exp /\ ~ui.online
    /\ ui' = [ui EXCEPT !.open = FALSE]
    /\ UNCHANGED vars

ActivateOnline(c) ==
    /\ ui.exp /\ ui.online
    /\ ui' = [ui EXCEPT !.exp = FALSE, !.open = ~@]
    /\ Invoke(c, IF ui.open THEN "RADC" ELSE "GADC")

\* The "shutdown" signal: Disconnect on the main thread, unless conn is nil.
\* No handler and no callback runs any more.
ShutDown(c) ==
    /\ ui' = [ui EXCEPT !.shut = c]
    /\ IF conn = Nil
       THEN fate' = "exited" /\ UNCHANGED <<call, hdl, net, conn, chanMap, buf,
                                            addCode, verdict>>
       ELSE Invoke(c, "QUIT") 

\* application.Run returns, os.Exit.
Exit(c) ==
    /\ ui.shut = c /\ call[c].pc = "done"
    /\ fate' = "exited"
    /\ UNCHANGED <<call, hdl, net, conn, chanMap, buf, addCode, verdict, ui>>

\* --- Callbacks --------------------------------------------------------------

\* The goroutine of call c, which has returned, calls glib.IdleAdd.
ReturnedBug(c) == call[c].pc = "defer"
Returned(c)    == call[c].pc = "done"

Post(c) ==
    /\ Returned(c) /\ c \notin ui.posted
    /\ ui' = [ui EXCEPT !.idle = Append(@, c), !.posted = @ \cup {c}]
    /\ UNCHANGED vars

\* Widgets after the callback of a call to op that succeeded or failed.
AfterConnectBug(ok) == [ui EXCEPT !.online = TRUE, !.exp = TRUE, !.row = TRUE]
AfterConnect(ok) ==
    IF ok THEN [ui EXCEPT !.online = TRUE, !.exp = TRUE, !.row = TRUE]
          ELSE [ui EXCEPT !.row = TRUE]
AfterDisconnectBug(ok) ==
    IF ok THEN [ui EXCEPT !.online = FALSE, !.exp = FALSE, !.row = TRUE,
                          !.open = FALSE, !.grid = IF ui.open THEN Nil ELSE @]
          ELSE ui
AfterDisconnect(ok) ==
    IF ok THEN [ui EXCEPT !.online = FALSE, !.exp = FALSE, !.row = TRUE,
                          !.open = FALSE, !.grid = IF ui.open THEN Nil ELSE @]
          ELSE [ui EXCEPT !.row = TRUE]
AfterGetAddCode(ok) ==
    IF ok THEN [ui EXCEPT !.grid = addCode, !.exp = TRUE]
          ELSE [ui EXCEPT !.open = TRUE, !.exp = TRUE]
AfterRemoveAddCodeBug(ok) == [ui EXCEPT !.open = FALSE, !.exp = TRUE]
AfterRemoveAddCode(ok) ==
    IF ok THEN [ui EXCEPT !.grid = Nil, !.exp = TRUE]
          ELSE [ui EXCEPT !.open = FALSE, !.exp = TRUE]

Callback ==
    LET c  == Head(ui.idle)
        op == call[c].op
        ok == call[c].result = "ok"
        after == CASE op = "INIT" -> AfterConnect(ok)
                   [] op = "QUIT" -> AfterDisconnect(ok)
                   [] op = "GADC" -> AfterGetAddCode(ok)
                   [] op = "RADC" -> AfterRemoveAddCode(ok)
    IN  /\ ui.idle # <<>>
        /\ ui' = [after EXCEPT !.idle = Tail(@)]
        \* client.addCode[5] of an empty Add Code
        /\ fate' = IF op = "GADC" /\ ok /\ addCode = Nil THEN "indexpanic" ELSE fate
        /\ UNCHANGED <<call, hdl, net, conn, chanMap, buf, addCode, verdict>>

-----------------------------------------------------------------------------
UserStep ==
    /\ fate = "running" /\ ui.shut = Nil
    /\ \/ ActivateOffline
       \/ \E c \in Calls : ClickStatus(c) \/ ActivateOnline(c) \/ ShutDown(c)

LoopStep ==
    /\ fate = "running"
    /\ \/ ui.shut = Nil /\ (Callback \/ \E c \in Calls : Post(c))
       \/ \E c \in Calls : Exit(c)

ClientStep == Step /\ UNCHANGED ui

DesktopRest == fate # "running" /\ UNCHANGED dvars

DesktopNext == UserStep \/ LoopStep \/ ClientStep \/ DesktopRest

DesktopSpec == DesktopInit /\ [][DesktopNext]_dvars

\* The goroutines are scheduled, the main loop runs; the user need do nothing.
DesktopFairness ==
    /\ WF_dvars(LoopStep)
    /\ \A c \in Calls :
        /\ WF_dvars(fate = "running" /\ CallStep(c) /\ UNCHANGED ui)
        /\ WF_dvars(fate = "running" /\ HandlerStep(c) /\ UNCHANGED ui)
        /\ WF_dvars(fate = "running" /\ SrvServe(c) /\ UNCHANGED ui)

DesktopFairSpec == DesktopSpec /\ DesktopFairness

-----------------------------------------------------------------------------
\* A goroutine or its callback is still to come for a call to one of X.
Ongoing(X) ==
    \E c \in Calls : /\ call[c].op \in X
                     /\ \/ InFlight(c)
                        \/ call[c].pc = "done" /\ c \notin ui.posted
                        \/ \E i \in DOMAIN ui.idle : ui.idle[i] = c

\* Connect and Disconnect never overlap: while one is under way the row takes
\* no click, and when it is sensitive nothing of an earlier one is left.
OneStatusCall ==
    ui.shut = Nil =>
        /\ ui.row => ~Ongoing(StatusOps)
        /\ \A c, d \in Calls : InFlight(c) /\ InFlight(d)
               /\ {call[c].op, call[d].op} \subseteq StatusOps => c = d

\* An "Online" label with the row sensitive means there is a connection, so
\* that the click that follows has one to close.
OnlineHasConnection ==
    ui.shut = Nil /\ ui.row /\ ui.online => conn \in Conns

\* Until the shutdown only a panel operation ever uses a nil connection, and only
\* after a Disconnect has succeeded: neither commandHandler (client.go:136), which
\* evaluates client.conn again while Disconnect sets it to nil, nor Connect or
\* Disconnect, though a failed Dial leaves a typed nil that they take for a
\* connection (client.go:153, 181).
NilOnlyInPanel ==
    ui.shut = Nil /\ fate = "nilpanic" =>
        /\ \E c \in Calls : call[c].op \in PanelOps /\ call[c].pc = "write"
        /\ \E d \in Calls : /\ call[d].op = "QUIT"
                           /\ call[d].pc = "done" /\ call[d].result = "ok"

\* Panel calls of two connections may be out together: Connect's callback enables
\* the expander (ui.go:394) whatever is left of an earlier connection.
MayMix ==
    LET Made(X) == {c \in Calls : call[c].pc # "idle" /\ call[c].op \in X}
    IN  Cardinality(Made({"INIT"})) > 1 /\ Cardinality(Made(PanelOps)) > 1

\* Until the shutdown, whose Disconnect (ui.go:145) asks no widget, and as long as
\* panel calls of two connections cannot mix, the widgets keep the calls in an
\* order in which each reads its own replies and returns what the server decided,
\* though a panel call may start while Disconnect is at work and Disconnect while
\* a panel call is out.
OwnReplyInWindow ==
    ui.shut = Nil /\ ~MayMix => OwnReply /\ VerdictFaithful

\* In a quiet state, unless panel calls of two connections could mix and unless
\* the server refused to remove a code, the Add Code displayed in the open panel
\* is the one registered for this connection.
ShownIsRegistered ==
    /\ ~MayMix /\ ui.online /\ ui.open /\ ui.grid # Nil /\ ~Ongoing(Operations)
    /\ fate = "running" /\ conn \in Conns /\ net[conn].link = "open"
    /\ \A c \in Calls : call[c].op = "RADC" => call[c].result = "ok"
    => net[conn].code = ui.grid

\* A click on the status label is answered: the row becomes sensitive again,
\* unless the application ends first.
RowReturns == ~ui.row ~> ui.row \/ ui.shut # Nil \/ fate # "running"

\* Shutting down while no Connect or Disconnect is under way ends the process.
ShutDownEnds == ui.shut # Nil /\ ui.row ~> fate # "running"

\* "If current status is offline, do nothing" (ui.go:217): no panel operation
\* comes to write on a nil connection.
PanelDoesNothingOffline ==
    \A c \in Calls : call[c].pc = "write" /\ call[c].op \in PanelOps
                        => ~NilConn(conn)
=============================================================================
