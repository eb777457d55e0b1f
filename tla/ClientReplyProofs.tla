-------------------------- MODULE ClientReplyProofs ---------------------------
(* Proofs about Client, continued: every message an operation takes answers *)
(* that very call, and what it returns is what the server decided. The      *)
(* invariant follows the messages: a request from the call to the server,   *)
(* the answer from there to the connection, the handler, a channel and the  *)
(* call.                                                                    *)
EXTENDS ClientProofs

\* Where the server's messages are: on a connection, with its handler, in a
\* channel, taken by a call.
Places == ({"down", "hdl", "got"} \X Calls) \cup ({"buf"} \X Chans)

HoldingPCs == {"got", "send", "pubmake", "pubwrite", "pubdelete"}

Queue(p) ==
    CASE p[1] = "down" -> net[p[2]].down
      [] p[1] = "hdl"  -> IF hdl[p[2]].pc \in HoldingPCs THEN <<hdl[p[2]].msg>>
                                                         ELSE <<>>
      [] p[1] = "got"  -> call[p[2]].got
      [] OTHER         -> buf[p[2]]

flow == [p \in Places |-> Queue(p)]

IsData(m)   == m.body \in {"value", "junk"}
IsResult(m) == m.body \in {"ok", "fail"}

BeforePCs == {"idle", "enter", "dial", "make", "write"}
WaitPCs   == {"look", "recv"}

\* One call of an operation at a time.
SingleInv ==
    \A c, d \in Calls :
        InFlight(c) /\ InFlight(d) /\ call[c].op = call[d].op => c = d

\* Before its request is written, a call has no answer.
FreshInv ==
    \A c \in Calls : call[c].pc \in BeforePCs =>
        verdict[c] = "none" /\ call[c].got = <<>>

\* A request under way is the only one of its call, and undecided.
RequestInv ==
    \A k \in Conns : \A i \in DOMAIN net[k].up :
        LET m == net[k].up[i]
        IN  m.from \in Calls /\ m.last =>
                /\ verdict[m.from] = "none" /\ m.cmd = call[m.from].op
                /\ call[m.from].pc \notin BeforePCs
                /\ \A j \in Conns : \A n \in DOMAIN net[j].up :
                       net[j].up[n].from = m.from /\ net[j].up[n].last
                           => j = k /\ n = i

\* A message says what the server decided on the request it answers...
Truthful(m) ==
    /\ verdict[m.to] = IF m.body \in {"value", "ok"} THEN "ok" ELSE "fail"
    /\ m.to \in PubReqs <=> m.cmd = "GPUB"
    /\ m.to \in Calls => m.cmd = call[m.to].op
    /\ IsData(m) => Reads(m.cmd) = 2 /\ m.to \in Calls

TruthInv == \A p \in Places : \A i \in DOMAIN flow[p] : Truthful(flow[p][i])

\* ...and is in one place only.
Distinct(q) ==
    \A p, r \in Places : \A i \in DOMAIN q[p], j \in DOMAIN q[r] :
        q[p][i] = q[r][j] => p = r /\ i = j

UniqueInv == Distinct(flow)

\* What is left of a GetPubKey request when its key has been written: nothing
\* is ever put into its channel.
PushInv ==
    /\ \A k \in Conns :
        /\ hdl[k].pc \in {"pubmake", "pubwrite", "pubdelete"}
               => hdl[k].msg.cmd = "GPUB"
        /\ hdl[k].pc = "send" => hdl[k].chan \in Calls
    /\ \A p \in PubReqs : buf[p] = <<>>

\* The channel a call receives from is its own (or it waits for ever).
HeldInv ==
    \A c \in Calls :
        call[c].pc = "recv" => call[c].held \in {c, Nil} \cup PubReqs

\* The data of an answer comes to the channel of c before the result, whichever
\* of the two the handler drops.
DataAt(c, s, i) == IsData(s[i]) /\ s[i].to = c
DataIn(c)       == \/ call[c].got # <<>>
                   \/ \E i \in DOMAIN buf[c] : DataAt(c, buf[c], i)
DataHeld(c, k)  == /\ \/ hdl[k].pc = "got"
                      \/ hdl[k].pc = "send" /\ hdl[k].chan = c
                   /\ IsData(hdl[k].msg) /\ hdl[k].msg.to = c
Second(c, m)    == m.to = c /\ IsResult(m) /\ Reads(call[c].op) = 2

BufOrder(c) ==
    \A j \in DOMAIN buf[c] : Second(c, buf[c][j]) =>
        call[c].got # <<>> \/ \E i \in 1..(j - 1) : DataAt(c, buf[c], i)
HdlOrder(c, k) ==
    /\ \/ hdl[k].pc = "send" /\ hdl[k].chan = c
       \/ hdl[k].pc = "got" /\ chanMap[call[c].op] = c
    /\ Second(c, hdl[k].msg)
    => DataIn(c)
DownOrder(c, k) ==
    chanMap[call[c].op] = c =>
        \A j \in DOMAIN net[k].down : Second(c, net[k].down[j]) =>
            \/ DataIn(c) \/ DataHeld(c, k)
            \/ \E i \in 1..(j - 1) : DataAt(c, net[k].down, i)

OrderInv ==
    \A c \in Calls : BufOrder(c) /\ \A k \in Conns : HdlOrder(c, k) /\ DownOrder(c, k)

\* Some DoRequestPubKey was refused: its result may be under way for ever.
Refused ==
    \E d \in Calls : /\ call[d].pc = "done" /\ call[d].op = "RPUB"
                     /\ call[d].got # <<>> /\ Head(call[d].got).body = "junk"
Tracked(c) == call[c].op = "RPUB" => ~Refused

\* Requests and answers under way are those of calls that wait for them.
Awaits(c) ==
    \/ call[c].pc \in WaitPCs
    \/ call[c].pc = "defer" /\ call[c].op = "RPUB" /\ call[c].result = "nokey"
AnswersAwaited ==
    \A p \in Places : p[1] # "got" =>
        \A i \in DOMAIN flow[p] :
            LET c == flow[p][i].to IN c \in Calls /\ Tracked(c) => Awaits(c)
RequestsAwaited ==
    \A k \in Conns : \A i \in DOMAIN net[k].up :
        LET m == net[k].up[i]
        IN  m.last /\ m.from \in Calls /\ Tracked(m.from)
                => call[m.from].pc \in WaitPCs
PendingInv == AnswersAwaited /\ RequestsAwaited

\* The handler puts into the channel of a call answers to that call.
ChannelInv ==
    \A h \in Calls : ~AfterRefusal(h) =>
        /\ \A i \in DOMAIN buf[h] : buf[h][i].to = h
        /\ \A k \in Conns :
               hdl[k].pc = "send" /\ hdl[k].chan = h => hdl[k].msg.to = h

\* What a call has taken, and what it made of it.
Whole(c)  == Len(call[c].got) = Reads(call[c].op)
Final(c)  == call[c].got[Reads(call[c].op)]
GaveUp(c) == /\ call[c].op = "RPUB" /\ call[c].result = "nokey"
             /\ Len(call[c].got) = 1 /\ call[c].got[1].body = "junk"

ReplyOk(c) ==
    /\ Len(call[c].got) <= Reads(call[c].op)
    /\ \A i \in DOMAIN call[c].got :
        /\ call[c].got[i].to = c
        /\ IsResult(call[c].got[i]) <=> i = Reads(call[c].op)
    /\ call[c].pc \in WaitPCs => Len(call[c].got) < Reads(call[c].op)
    /\ call[c].pc = "delete" => Whole(c) /\ call[c].result = Outcome(Final(c))
    /\ call[c].pc = "defer" =>
        \/ call[c].got = <<>> /\ call[c].result = "ioerr"
        \/ GaveUp(c)
        \/ Whole(c) /\ call[c].result = Outcome(Final(c))
    /\ call[c].pc \in {"sleep", "clear"} => Whole(c) /\ Final(c).body = "ok"
    /\ call[c].pc = "done" /\ call[c].got # <<>> =>
        \/ GaveUp(c)
        \/ /\ Whole(c)
           /\ \/ call[c].result = Outcome(Final(c))
              \/ call[c].result = "incomplete" /\ Final(c).body = "fail"
              \/ call[c].result = "ioerr"

ReplyInv == \A c \in Calls : ~AfterRefusal(c) => ReplyOk(c)

RInv ==
    /\ SingleInv /\ FreshInv /\ RequestInv /\ TruthInv /\ UniqueInv
    /\ PushInv /\ HeldInv /\ OrderInv /\ PendingInv /\ ChannelInv /\ ReplyInv

-----------------------------------------------------------------------------
(* Messages in queues, whatever the queues stand for.                       *)

Flows == [Places -> Seq(DownMsg)]

\* The first message of a becomes the last of b; or a is emptied.
Moved(q, r, a, b) ==
    /\ a # b /\ q[a] # <<>>
    /\ r[a] = Tail(q[a]) /\ r[b] = Append(q[b], Head(q[a]))
    /\ \A p \in Places \ {a, b} : r[p] = q[p]
Dropped(q, r, a) ==
    r[a] = <<>> /\ \A p \in Places \ {a} : r[p] = q[p]

\* Every message of r was one of q, not yet taken if it is not taken now.
Carries(q, r) ==
    \A p \in Places : \A i \in DOMAIN r[p] :
        \E s \in Places : \E j \in DOMAIN q[s] :
            q[s][j] = r[p][i] /\ (p[1] # "got" => s[1] # "got")

LEMMA TailAt ==
    ASSUME NEW S, NEW s \in Seq(S), s # <<>>
    PROVE  /\ Head(s) = s[1] /\ 1 \in DOMAIN s /\ Tail(s) \in Seq(S)
           /\ Len(Tail(s)) = Len(s) - 1
           /\ \A i \in DOMAIN Tail(s) : i + 1 \in DOMAIN s /\ Tail(s)[i] = s[i + 1]
  BY HeadTailProperties

LEMMA AppendAt ==
    ASSUME NEW S, NEW s \in Seq(S), NEW m \in S
    PROVE  /\ Append(s, m) \in Seq(S) /\ Len(Append(s, m)) = Len(s) + 1
           /\ \A i \in DOMAIN s : Append(s, m)[i] = s[i]
           /\ \A i \in DOMAIN Append(s, m) :
                  \/ i \in DOMAIN s /\ i <= Len(s) /\ Append(s, m)[i] = s[i]
                  \/ i = Len(s) + 1 /\ Append(s, m)[i] = m
  BY AppendProperties

LEMMA MovedOrigin ==
    ASSUME NEW q \in Flows, NEW r \in Flows, NEW a \in Places, NEW b \in Places,
           Moved(q, r, a, b), NEW p \in Places, NEW i \in DOMAIN r[p]
    PROVE  \/ p = a /\ i + 1 \in DOMAIN q[a] /\ r[p][i] = q[a][i + 1]
           \/ /\ p = b /\ i = Len(q[b]) + 1 /\ 1 \in DOMAIN q[a]
              /\ r[p][i] = q[a][1]
           \/ /\ p # a /\ i \in DOMAIN q[p] /\ r[p][i] = q[p][i]
              /\ p = b => i <= Len(q[b])
  <1>1. q[a] \in Seq(DownMsg) /\ q[b] \in Seq(DownMsg) /\ q[a] # <<>>
    BY DEF Flows, Moved
  <1>2. Head(q[a]) \in DownMsg
    BY <1>1, HeadTailProperties
  <1>3. CASE p = a
    <2>1. r[p] = Tail(q[a]) /\ i \in DOMAIN Tail(q[a])
      BY <1>3 DEF Moved
    <2>2. i + 1 \in DOMAIN q[a] /\ Tail(q[a])[i] = q[a][i + 1]
      BY <1>1, <2>1, TailAt
    <2> QED BY <1>3, <2>1, <2>2
  <1>4. CASE p = b
    <2> DEFINE m == Head(q[a])
               t == Append(q[b], m)
    <2>1. a # b /\ r[p] = t /\ i \in DOMAIN t
      BY <1>4 DEF Moved
    <2>2. \/ i \in DOMAIN q[b] /\ i <= Len(q[b]) /\ t[i] = q[b][i]
          \/ i = Len(q[b]) + 1 /\ t[i] = m
      <3>0. m \in DownMsg
        BY <1>2
      <3> HIDE DEF m
      <3>1. \A n \in DOMAIN t :
                \/ n \in DOMAIN q[b] /\ n <= Len(q[b]) /\ t[n] = q[b][n]
                \/ n = Len(q[b]) + 1 /\ t[n] = m
        BY <1>1, <3>0, AppendAt
      <3> QED BY <2>1, <3>1
    <2>3. Head(q[a]) = q[a][1] /\ 1 \in DOMAIN q[a]
      BY <1>1, TailAt
    <2> QED BY <1>4, <2>1, <2>2, <2>3
  <1>5. CASE p # a /\ p # b
    BY <1>5 DEF Moved
  <1> QED BY <1>3, <1>4, <1>5

LEMMA MovedDistinct ==
    ASSUME NEW q \in Flows, NEW r \in Flows, NEW a \in Places, NEW b \in Places,
           Moved(q, r, a, b), Distinct(q)
    PROVE  Distinct(r)
  <1> SUFFICES ASSUME NEW p \in Places, NEW s \in Places,
                      NEW i \in DOMAIN r[p], NEW j \in DOMAIN r[s],
                      r[p][i] = r[s][j]
               PROVE  p = s /\ i = j
    BY DEF Distinct
  <1>0. /\ i \in Nat \ {0} /\ j \in Nat \ {0} /\ q[a] \in Seq(DownMsg)
        /\ Len(q[b]) \in Nat /\ a # b
    BY DEF Flows, Moved
  <1>1. \/ p = a /\ i + 1 \in DOMAIN q[a] /\ r[p][i] = q[a][i + 1]
        \/ /\ p = b /\ i = Len(q[b]) + 1 /\ 1 \in DOMAIN q[a]
           /\ r[p][i] = q[a][1]
        \/ /\ p # a /\ i \in DOMAIN q[p] /\ r[p][i] = q[p][i]
           /\ p = b => i <= Len(q[b])
    BY MovedOrigin
  <1>2. \/ s = a /\ j + 1 \in DOMAIN q[a] /\ r[s][j] = q[a][j + 1]
        \/ /\ s = b /\ j = Len(q[b]) + 1 /\ 1 \in DOMAIN q[a]
           /\ r[s][j] = q[a][1]
        \/ /\ s # a /\ j \in DOMAIN q[s] /\ r[s][j] = q[s][j]
           /\ s = b => j <= Len(q[b])
    BY MovedOrigin
  <1>3. \A u, v \in Places : \A m \in DOMAIN q[u], n \in DOMAIN q[v] :
            q[u][m] = q[v][n] => u = v /\ m = n
    BY DEF Distinct
  <1>4. CASE p = a /\ i + 1 \in DOMAIN q[a] /\ r[p][i] = q[a][i + 1]
    BY <1>0, <1>2, <1>3, <1>4
  <1>5. CASE /\ p = b /\ i = Len(q[b]) + 1 /\ 1 \in DOMAIN q[a]
             /\ r[p][i] = q[a][1]
    BY <1>0, <1>2, <1>3, <1>5
  <1>6. CASE /\ p # a /\ i \in DOMAIN q[p] /\ r[p][i] = q[p][i]
             /\ p = b => i <= Len(q[b])
    BY <1>0, <1>2, <1>3, <1>6
  <1> QED BY <1>1, <1>4, <1>5, <1>6

LEMMA MovedCarries ==
    ASSUME NEW q \in Flows, NEW r \in Flows, NEW a \in Places, NEW b \in Places,
           Moved(q, r, a, b), a[1] # "got"
    PROVE  Carries(q, r)
  <1> SUFFICES ASSUME NEW p \in Places, NEW i \in DOMAIN r[p]
               PROVE  \E s \in Places : \E j \in DOMAIN q[s] :
                          q[s][j] = r[p][i] /\ (p[1] # "got" => s[1] # "got")
    BY DEF Carries
  <1> QED BY MovedOrigin

LEMMA DroppedKeeps ==
    ASSUME NEW q \in Flows, NEW r \in Flows, NEW a \in Places, Dropped(q, r, a)
    PROVE  Carries(q, r) /\ (Distinct(q) => Distinct(r))
  <1>1. \A p \in Places : \A i \in DOMAIN r[p] :
            p # a /\ r[p] = q[p] /\ i \in DOMAIN q[p]
    BY DEF Dropped
  <1>2. Carries(q, r)
    BY <1>1 DEF Carries
  <1>3. Distinct(q) => Distinct(r)
    BY <1>1 DEF Distinct
  <1> QED BY <1>2, <1>3

LEMMA SameCarries ==
    ASSUME NEW q \in Flows
    PROVE  Carries(q, q)
  BY DEF Carries
-----------------------------------------------------------------------------
(* The queues of a state.                                                   *)

LEMMA FlowIs ==
    /\ \A k \in Calls :
        /\ flow[<<"down", k>>] = net[k].down
        /\ flow[<<"hdl", k>>] =
               IF hdl[k].pc \in HoldingPCs THEN <<hdl[k].msg>> ELSE <<>>
        /\ flow[<<"got", k>>] = call[k].got
    /\ \A h \in Chans : flow[<<"buf", h>>] = buf[h]
    /\ \A k \in Calls :
        /\ flow'[<<"down", k>>] = net'[k].down
        /\ flow'[<<"hdl", k>>] =
               IF hdl'[k].pc \in HoldingPCs THEN <<hdl'[k].msg>> ELSE <<>>
        /\ flow'[<<"got", k>>] = call'[k].got
    /\ \A h \in Chans : flow'[<<"buf", h>>] = buf'[h]
  BY DEF flow, Queue, Places

LEMMA PlacesAre ==
    \A p \in Places :
        \/ \E k \in Calls : p \in {<<"down", k>>, <<"hdl", k>>, <<"got", k>>}
        \/ \E h \in Chans : p = <<"buf", h>>
  BY DEF Places

LEMMA FlowTyped == (IInv => flow \in Flows) /\ (IInv' => flow' \in Flows)
  <1>1. ASSUME IInv, NEW p \in Places
        PROVE  Queue(p) \in Seq(DownMsg)
    <2>1. ASSUME NEW k \in Calls, p = <<"hdl", k>>
          PROVE  Queue(p) \in Seq(DownMsg)
      BY <1>1, <2>1 DEF IInv, LocalsInv, Queue, HoldingPCs, Conns
    <2>2. ASSUME NEW k \in Calls, p = <<"down", k>> \/ p = <<"got", k>>
          PROVE  Queue(p) \in Seq(DownMsg)
      BY <1>1, <2>2 DEF IInv, TypeOK, NetType, CallType, Queue, Conns
    <2>3. ASSUME NEW h \in Chans, p = <<"buf", h>>
          PROVE  Queue(p) \in Seq(DownMsg)
      BY <1>1, <2>3 DEF IInv, TypeOK, Queue
    <2> QED BY <2>1, <2>2, <2>3, PlacesAre
  <1>2. ASSUME IInv', NEW p \in Places
        PROVE  Queue(p)' \in Seq(DownMsg)
    <2>1. ASSUME NEW k \in Calls, p = <<"hdl", k>>
          PROVE  Queue(p)' \in Seq(DownMsg)
      BY <1>2, <2>1 DEF IInv, LocalsInv, Queue, HoldingPCs, Conns
    <2>2. ASSUME NEW k \in Calls, p = <<"down", k>> \/ p = <<"got", k>>
          PROVE  Queue(p)' \in Seq(DownMsg)
      BY <1>2, <2>2 DEF IInv, TypeOK, NetType, CallType, Queue, Conns
    <2>3. ASSUME NEW h \in Chans, p = <<"buf", h>>
          PROVE  Queue(p)' \in Seq(DownMsg)
      BY <1>2, <2>3 DEF IInv, TypeOK, Queue
    <2> QED BY <2>1, <2>2, <2>3, PlacesAre
  <1> QED BY <1>1, <1>2 DEF flow, Flows

LEMMA FlowSame ==
    ASSUME UNCHANGED buf,
           \A k \in Calls :
               /\ net'[k].down = net[k].down /\ call'[k].got = call[k].got
               /\ \/ hdl'[k].pc \in HoldingPCs /\ hdl[k].pc \in HoldingPCs
                     /\ hdl'[k].msg = hdl[k].msg
                  \/ hdl'[k].pc \notin HoldingPCs /\ hdl[k].pc \notin HoldingPCs
    PROVE  flow' = flow
  <1>1. ASSUME NEW p \in Places
        PROVE  Queue(p)' = Queue(p)
    BY PlacesAre DEF Queue
  <1> QED BY <1>1 DEF flow

-----------------------------------------------------------------------------
(* Steps that move no message.                                              *)

SameOps == \A c \in Calls : call'[c].op = call[c].op

\* What is said of messages stays true when they stay or move.
LEMMA TruthKept ==
    ASSUME TruthInv, Carries(flow, flow'), SameOps, UNCHANGED verdict
    PROVE  TruthInv'
  <1> SUFFICES ASSUME NEW p \in Places, NEW i \in DOMAIN flow'[p]
               PROVE  Truthful(flow[p][i])'
    BY DEF TruthInv
  <1>0. PICK s \in Places : \E j \in DOMAIN flow[s] : flow[s][j] = flow'[p][i]
    BY DEF Carries
  <1>1. PICK j \in DOMAIN flow[s] : flow[s][j] = flow'[p][i]
    BY <1>0
  <1>2. Truthful(flow[s][j])
    BY DEF TruthInv
  <1> QED BY <1>1, <1>2 DEF Truthful, SameOps

\* No call forgets that it was refused.
LEMMA RefusalStays ==
    ASSUME NEW c \in Calls, Others(c), InFlight(c), call'[c].op = call[c].op
    PROVE  \A d \in Calls : /\ Tracked(d)' => Tracked(d)
                            /\ AfterRefusal(d) => AfterRefusal(d)'
                            /\ call'[d].op = call[d].op
  <1>1. \A d \in Calls : d # c => call'[d] = call[d]
    BY DEF Others
  <1>2. \A d \in Calls : call[d].pc = "done" => d # c
    BY DEF InFlight
  <1>3. \A d \in Calls : call'[d].op = call[d].op
    BY <1>1
  <1>4. Refused => Refused'
    BY <1>1, <1>2 DEF Refused
  <1>5. \A d \in Calls : AfterRefusal(d) => AfterRefusal(d)'
    BY <1>1, <1>2, <1>3 DEF AfterRefusal
  <1> QED BY <1>3, <1>4, <1>5 DEF Tracked

\* The handlers and the server's messages stay, but that a handler may start.
NothingRead ==
    \A k \in Conns :
        /\ net'[k].down = net[k].down
        /\ \/ hdl'[k] = hdl[k]
           \/ hdl'[k].pc = "top" /\ hdl[k].pc \notin HoldingPCs

\* A step of call c that moves no message.
QuietCall(c) ==
    /\ InFlight(c) /\ Others(c)
    /\ call'[c].op = call[c].op /\ call'[c].got = call[c].got
    /\ call'[c].pc \in BeforePCs => call[c].pc \in BeforePCs
    /\ call'[c].pc = "recv" => call'[c].held \in {c, Nil} \cup PubReqs
    /\ UNCHANGED <<buf, verdict>> /\ NothingRead
    /\ \A d \in Calls : chanMap'[call[d].op] = d =>
           chanMap[call[d].op] = d \/ verdict[d] = "none"

SameUp == \A k \in Conns : net'[k].up = net[k].up

\* A request that stays under way.
LEMMA RequestsKept ==
    ASSUME RequestInv, RequestsAwaited, NEW c \in Calls, Others(c), InFlight(c),
           call'[c].op = call[c].op, SameUp, UNCHANGED verdict,
           call'[c].pc \in BeforePCs => call[c].pc \in BeforePCs,
           call[c].pc \in WaitPCs => call'[c].pc \in WaitPCs
    PROVE  RequestInv' /\ RequestsAwaited'
  <1>1. \A d \in Calls : /\ d # c => call'[d] = call[d]
                         /\ call'[d].op = call[d].op
                         /\ Tracked(d)' => Tracked(d)
    BY RefusalStays DEF Others
  <1>2. RequestInv'
    BY <1>1 DEF RequestInv, SameUp
  <1>3. RequestsAwaited'
    BY <1>1 DEF RequestsAwaited, SameUp
  <1> QED BY <1>2, <1>3

\* A message to d says that its request was decided.
LEMMA Answered ==
    ASSUME TruthInv, NEW k \in Calls, NEW i \in DOMAIN net[k].down
    PROVE  verdict[net[k].down[i].to] # "none"
  <1>1. <<"down", k>> \in Places /\ flow[<<"down", k>>] = net[k].down
    BY FlowIs DEF Places
  <1>2. Truthful(net[k].down[i])
    BY <1>1 DEF TruthInv
  <1> QED BY <1>2 DEF Truthful

LEMMA QuietCallKeeps ==
    ASSUME IInv, RInv, NEW c \in Calls, QuietCall(c),
           RequestInv', RequestsAwaited',
           Awaits(c) /\ Tracked(c)' => Awaits(c)',
           ~AfterRefusal(c) => ReplyOk(c)'
    PROVE  RInv'
  <1>0. /\ SingleInv /\ FreshInv /\ TruthInv /\ UniqueInv /\ PushInv /\ HeldInv
        /\ OrderInv /\ AnswersAwaited /\ ChannelInv /\ ReplyInv
    BY DEF RInv, PendingInv
  <1>1. \A d \in Calls : /\ d # c => call'[d] = call[d]
                         /\ call'[d].op = call[d].op /\ call'[d].got = call[d].got
                         /\ Tracked(d)' => Tracked(d)
                         /\ AfterRefusal(d) => AfterRefusal(d)'
    BY RefusalStays DEF QuietCall, NothingRead, Others
  <1>2. flow' = flow /\ flow \in Flows
    <2>1. \A k \in Calls :
              \/ hdl'[k].pc \in HoldingPCs /\ hdl[k].pc \in HoldingPCs
                 /\ hdl'[k].msg = hdl[k].msg
              \/ hdl'[k].pc \notin HoldingPCs /\ hdl[k].pc \notin HoldingPCs
      BY DEF QuietCall, NothingRead, HoldingPCs, Conns
    <2> QED BY <1>1, <2>1, FlowSame, FlowTyped DEF QuietCall, NothingRead, Conns
  <1>3. SingleInv'
    <2>1. \A d \in Calls : InFlight(d)' => InFlight(d)
      BY <1>1 DEF QuietCall, NothingRead, InFlight
    <2> QED BY <1>0, <1>1, <2>1 DEF SingleInv
  <1>4. FreshInv'
    BY <1>0, <1>1 DEF FreshInv, QuietCall
  <1>5. TruthInv' /\ UniqueInv'
    <2>1. TruthInv'
      BY <1>0, <1>1, <1>2, TruthKept, SameCarries DEF QuietCall, NothingRead, SameOps
    <2>2. UniqueInv'
      BY <1>0, <1>2 DEF UniqueInv
    <2> QED BY <2>1, <2>2
  <1>6. PushInv'
    BY <1>0 DEF PushInv, QuietCall, NothingRead, HoldingPCs
  <1>7. HeldInv'
    BY <1>0, <1>1 DEF HeldInv, QuietCall
  <1>8. OrderInv'
    <2> SUFFICES ASSUME NEW d \in Calls
                 PROVE  /\ BufOrder(d)'
                        /\ \A k \in Conns : HdlOrder(d, k)' /\ DownOrder(d, k)'
      BY DEF OrderInv
    <2>1. BufOrder(d) /\ \A k \in Conns : HdlOrder(d, k) /\ DownOrder(d, k)
      BY <1>0 DEF OrderInv
    <2>2. BufOrder(d)' /\ (DataIn(d) <=> DataIn(d)')
      BY <1>1, <2>1 DEF BufOrder, DataIn, Second, DataAt, QuietCall, NothingRead
    <2>3. ASSUME NEW k \in Conns
          PROVE  HdlOrder(d, k)'
      <3>1. hdl'[k].pc \in {"send", "got"} => hdl'[k] = hdl[k]
        BY DEF QuietCall, NothingRead
      <3>2. ASSUME hdl'[k].pc = "got", hdl[k].msg.to = d
            PROVE  verdict[d] # "none"
        <4>1. hdl[k].pc = "got" /\ <<"hdl", k>> \in Places
          BY <3>1, <3>2 DEF Places, Conns
        <4>2. flow[<<"hdl", k>>] = <<hdl[k].msg>>
          BY <4>1, FlowIs DEF HoldingPCs, Conns
        <4>3. Truthful(hdl[k].msg)
          BY <1>0, <4>1, <4>2 DEF TruthInv
        <4> QED BY <3>2, <4>3 DEF Truthful
      <3>3. chanMap'[call'[d].op] = d => chanMap[call[d].op] = d \/ verdict[d] = "none"
        BY <1>1 DEF QuietCall
      <3> QED BY <1>1, <2>1, <2>2, <3>1, <3>2, <3>3 DEF HdlOrder, Second
    <2>4. ASSUME NEW k \in Conns
          PROVE  DownOrder(d, k)'
      <3>1. net'[k].down = net[k].down
        BY DEF QuietCall, NothingRead
      <3>2. DataHeld(d, k) => DataHeld(d, k)'
        BY DEF DataHeld, QuietCall, NothingRead, HoldingPCs
      <3>3. \A j \in DOMAIN net[k].down : verdict[net[k].down[j].to] # "none"
        BY <1>0, Answered DEF Conns
      <3>4. chanMap'[call'[d].op] = d => chanMap[call[d].op] = d \/ verdict[d] = "none"
        BY <1>1 DEF QuietCall
      <3> QED BY <1>1, <2>1, <2>2, <3>1, <3>2, <3>3, <3>4
              DEF DownOrder, Second, DataAt
    <2> QED BY <2>2, <2>3, <2>4
  <1>9. AnswersAwaited'
    <2>1. ASSUME NEW d \in Calls, Tracked(d)', Awaits(d)
          PROVE  Awaits(d)'
      BY <1>1, <2>1 DEF Awaits
    <2> QED BY <1>0, <1>1, <1>2, <2>1 DEF AnswersAwaited
  <1>10. ChannelInv'
    BY <1>0, <1>1 DEF ChannelInv, QuietCall, NothingRead, HoldingPCs
  <1>11. ReplyInv'
    <2>1. ASSUME NEW d \in Calls, d # c, ReplyOk(d)
          PROVE  ReplyOk(d)'
      BY <1>1, <2>1 DEF ReplyOk, Whole, Final, GaveUp
    <2> QED BY <1>0, <1>1, <2>1 DEF ReplyInv
  <1> QED BY <1>3, <1>4, <1>5, <1>6, <1>7, <1>8, <1>9, <1>10, <1>11
          DEF RInv, PendingInv

LEMMA LinkOnly ==
    ASSUME TypeOK, NEW k \in Conns, NEW x, net' = [net EXCEPT ![k].link = x]
    PROVE  \A j \in Conns : net'[j].up = net[j].up /\ net'[j].down = net[j].down
  <1>1. \A j \in Conns : net'[j] = IF j = k THEN [net[j] EXCEPT !.link = x] ELSE net[j]
    BY DEF TypeOK
  <1>2. \A j \in Conns : net[j] \in NetType
    BY DEF TypeOK
  <1> QED BY <1>1, <1>2 DEF NetType

LEMMA GoToKeeps ==
    ASSUME TypeOK, NEW c \in Calls, NEW pc \in CallPCs,
           call' = [call EXCEPT ![c].pc = pc]
    PROVE  /\ Others(c) /\ call'[c].pc = pc
           /\ call'[c].op = call[c].op /\ call'[c].got = call[c].got
           /\ call'[c].result = call[c].result /\ call'[c].held = call[c].held
  BY DEF TypeOK, CallType, Others

LEMMA FinishKeeps ==
    ASSUME TypeOK, NEW c \in Calls, NEW r \in Results, Finish(c, r)
    PROVE  /\ Others(c) /\ call'[c].pc = "done" /\ call'[c].result = r
           /\ call'[c].op = call[c].op /\ call'[c].got = call[c].got
  <1>1. call' = [call EXCEPT ![c].pc = "done", ![c].result = r, ![c].held = Nil]
    BY DEF Finish
  <1> QED BY <1>1 DEF TypeOK, CallType, Others

\* A call that has taken nothing and waits for nothing more than its answer.
LEMMA ReplyEmpty ==
    ASSUME NEW c \in Calls, call'[c].got = <<>>, call'[c].op \in Operations,
           \/ call'[c].pc \in BeforePCs \cup {"look", "recv", "done"}
           \/ call'[c].pc = "defer" /\ call'[c].result = "ioerr"
    PROVE  ReplyOk(c)'
  <1>1. Reads(call'[c].op) \in 1..2 /\ Len(<<>>) = 0
    BY DEF Reads
  <1> QED BY <1>1 DEF ReplyOk, WaitPCs, BeforePCs

LEMMA RInvParts ==
    ASSUME RInv
    PROVE  /\ SingleInv /\ FreshInv /\ RequestInv /\ TruthInv /\ UniqueInv
           /\ PushInv /\ HeldInv /\ OrderInv /\ AnswersAwaited /\ RequestsAwaited
           /\ ChannelInv /\ ReplyInv
  BY DEF RInv, PendingInv

\* The steps of a call that has sent nothing yet.
LEMMA EarlyStep ==
    ASSUME IInv, RInv, NEW c \in Calls, Others(c),
           call[c].pc \in BeforePCs \ {"idle"},
           call'[c].op = call[c].op, call'[c].got = call[c].got,
           \/ call'[c].pc \in BeforePCs \cup {"done"}
           \/ call'[c].pc = "defer" /\ call'[c].result = "ioerr",
           UNCHANGED <<buf, verdict>>, SameUp, NothingRead,
           \/ UNCHANGED chanMap
           \/ Register(call[c].op, c)
    PROVE  RInv'
  <1>1. verdict[c] = "none" /\ call[c].got = <<>> /\ InFlight(c)
    BY RInvParts DEF FreshInv, InFlight, BeforePCs
  <1>2. call[c].op \in Operations
    BY DEF IInv, TypeOK, CallType
  <1>3. \A d \in Calls : chanMap'[call[d].op] = d =>
            chanMap[call[d].op] = d \/ verdict[d] = "none"
    <2>1. chanMap \in [Commands -> Chans \cup {Nil}] /\ \A d \in Calls : call[d].op \in Commands
      BY DEF IInv, TypeOK, CallType, Commands
    <2> QED BY <1>1, <2>1 DEF Register
  <1>4. QuietCall(c)
    BY <1>1, <1>3 DEF QuietCall, BeforePCs
  <1>5. RequestInv' /\ RequestsAwaited'
    BY <1>1, RInvParts, RequestsKept DEF BeforePCs, WaitPCs
  <1>6. ~Awaits(c)
    BY DEF Awaits, BeforePCs, WaitPCs
  <1>7. ReplyOk(c)'
    BY <1>1, <1>2, ReplyEmpty
  <1> QED BY <1>4, <1>5, <1>6, <1>7, QuietCallKeeps

LEMMA EnterReply ==
    ASSUME IInv, RInv, NEW c \in Calls, ConnectEnter(c) \/ DisconnectEnter(c)
    PROVE  RInv'
  <1>1. /\ call[c].pc = "enter" /\ TypeOK /\ SameUp /\ NothingRead
        /\ UNCHANGED <<hdl, net, chanMap, buf, verdict>>
    BY DEF ConnectEnter, DisconnectEnter, IInv, SameUp, NothingRead
  <1>2. \/ Finish(c, "existing") \/ Finish(c, "ok")
        \/ call' = [call EXCEPT ![c].pc = "dial"]
        \/ call' = [call EXCEPT ![c].pc = "make"]
    BY DEF ConnectEnter, DisconnectEnter
  <1>3. /\ Others(c) /\ call'[c].pc \in BeforePCs \cup {"done"}
        /\ call'[c].op = call[c].op /\ call'[c].got = call[c].got
    BY <1>1, <1>2, GoToKeeps, FinishKeeps DEF CallPCs, Results, BeforePCs
  <1>4. call[c].pc \in BeforePCs \ {"idle"}
    BY <1>1 DEF BeforePCs
  <1> QED BY <1>1, <1>3, <1>4, EarlyStep

LEMMA DialReply ==
    ASSUME IInv, RInv, NEW c \in Calls, Dial(c)
    PROVE  RInv'
  <1>1. /\ call[c].pc = "dial" /\ TypeOK /\ conn = Nil
        /\ UNCHANGED <<chanMap, buf, verdict>>
    BY DEF Dial, IInv, StatusInv
  <1>2. \/ /\ call' = [call EXCEPT ![c].pc = "make"]
           /\ hdl' = [hdl EXCEPT ![c].pc = "top"]
           /\ net' = [net EXCEPT ![c].link = "open"]
        \/ Finish(c, "ioerr") /\ UNCHANGED <<hdl, net>>
    BY DEF Dial
  <1>3. /\ Others(c) /\ call'[c].pc \in BeforePCs \cup {"done"}
        /\ call'[c].op = call[c].op /\ call'[c].got = call[c].got
    BY <1>1, <1>2, GoToKeeps, FinishKeeps DEF CallPCs, Results, BeforePCs
  <1>4. hdl[c].pc \notin HoldingPCs
    BY <1>1, ClientAssumption DEF IInv, ReaderInv, HoldingPCs, Conns
  <1>5. SameUp /\ \A k \in Conns : net'[k].down = net[k].down
    <2>1. net' = net \/ net' = [net EXCEPT ![c].link = "open"]
      BY <1>2
    <2> QED BY <1>1, <2>1, LinkOnly DEF SameUp, Conns
  <1>6. \A k \in Conns :
            \/ hdl'[k] = hdl[k]
            \/ hdl'[k].pc = "top" /\ hdl[k].pc \notin HoldingPCs
    BY <1>1, <1>2, <1>4 DEF TypeOK, HdlType, Conns
  <1>7. call[c].pc \in BeforePCs \ {"idle"} /\ NothingRead
    BY <1>1, <1>5, <1>6 DEF BeforePCs, NothingRead
  <1> QED BY <1>1, <1>3, <1>5, <1>7, EarlyStep

LEMMA MakeChanReply ==
    ASSUME IInv, RInv, NEW c \in Calls, MakeChan(c)
    PROVE  RInv'
  <1>1. /\ call[c].pc = "make" /\ TypeOK /\ Register(call[c].op, c) /\ SameUp
        /\ NothingRead /\ UNCHANGED <<hdl, net, buf, verdict>>
    BY DEF MakeChan, IInv, SameUp, NothingRead
  <1>2. /\ Others(c) /\ call'[c].pc = "write"
        /\ call'[c].op = call[c].op /\ call'[c].got = call[c].got
    <2> DEFINE n == Writes(call[c].op)
    <2>1. call' = [call EXCEPT ![c].pc = "write", ![c].left = n]
      BY DEF MakeChan
    <2> HIDE DEF n
    <2> QED BY <1>1, <2>1 DEF TypeOK, CallType, Others
  <1>3. /\ call[c].pc \in BeforePCs \ {"idle"}
        /\ call'[c].pc \in BeforePCs \cup {"done"}
    BY <1>1, <1>2 DEF BeforePCs
  <1> QED BY <1>1, <1>2, <1>3, EarlyStep

LEMMA LookReply ==
    ASSUME IInv, RInv, NEW c \in Calls, Look(c)
    PROVE  RInv'
  <1>1. /\ call[c].pc = "look" /\ TypeOK /\ SameUp /\ NothingRead
        /\ UNCHANGED <<hdl, net, chanMap, buf, verdict>>
    BY DEF Look, IInv, SameUp, NothingRead
  <1>2. /\ Others(c) /\ call'[c].pc = "recv" /\ call'[c].op = call[c].op
        /\ call'[c].got = call[c].got /\ call'[c].held = chanMap[call[c].op]
    <2> DEFINE h == chanMap[call[c].op]
    <2>1. call' = [call EXCEPT ![c].pc = "recv", ![c].held = h]
      BY DEF Look
    <2> HIDE DEF h
    <2>2. /\ Others(c) /\ call'[c].pc = "recv" /\ call'[c].op = call[c].op
          /\ call'[c].got = call[c].got /\ call'[c].held = h
      BY <1>1, <2>1 DEF TypeOK, CallType, Others
    <2> QED BY <2>2 DEF h
  <1>3. call[c].op \in Commands /\ InFlight(c)
    BY <1>1 DEF TypeOK, CallType, Commands, InFlight
  \* The entry of its operation is that of the only call of the operation, or
  \* that of a GetPubKey request.
  <1>4. chanMap[call[c].op] \in {c, Nil} \cup PubReqs
    <2> DEFINE h == chanMap[call[c].op]
    <2>1. h \in Calls \cup PubReqs \cup {Nil}
      BY <1>1, <1>3 DEF TypeOK, Chans
    <2>2. CASE h \in Calls
      <3>1. \/ call[h].pc \in OwnPCs /\ call[h].op = call[c].op
            \/ \E k \in Conns : /\ hdl[k].pc \in {"pubwrite", "pubdelete"}
                                /\ hdl[k].msg.to = h
        BY <1>3, <2>2, ClientAssumption DEF IInv, OwnerInv, OwnPCs
      <3>2. CASE call[h].pc \in OwnPCs /\ call[h].op = call[c].op
        <4>1. InFlight(h)
          BY <3>2 DEF OwnPCs, InFlight
        <4> QED BY <1>3, <2>2, <3>2, <4>1, RInvParts DEF SingleInv
      <3>3. ASSUME NEW k \in Conns, hdl[k].pc \in {"pubwrite", "pubdelete"},
                   hdl[k].msg.to = h
            PROVE  FALSE
        <4>1. <<"hdl", k>> \in Places /\ flow[<<"hdl", k>>] = <<hdl[k].msg>>
          BY <3>3, FlowIs DEF HoldingPCs, Conns, Places
        <4>2. Truthful(hdl[k].msg) /\ hdl[k].msg.cmd = "GPUB"
          BY <3>3, <4>1, RInvParts DEF TruthInv, PushInv
        <4> QED BY <2>2, <3>3, <4>2, ClientAssumption DEF Truthful
      <3> QED BY <3>1, <3>2, <3>3
    <2> QED BY <2>1, <2>2
  <1>5. QuietCall(c)
    BY <1>1, <1>2, <1>3, <1>4 DEF QuietCall, BeforePCs
  <1>6. RequestInv' /\ RequestsAwaited'
    BY <1>1, <1>2, <1>3, RInvParts, RequestsKept DEF BeforePCs, WaitPCs
  <1>7. Awaits(c)'
    BY <1>2 DEF Awaits, WaitPCs
  <1>8. ~AfterRefusal(c) => ReplyOk(c)'
    <2>1. ~AfterRefusal(c) => ReplyOk(c)
      BY RInvParts DEF ReplyInv
    <2> QED BY <1>1, <1>2, <2>1 DEF ReplyOk, WaitPCs
  <1> QED BY <1>5, <1>6, <1>7, <1>8, QuietCallKeeps

\* The steps of a call that has its answer.
LEMMA LateStep ==
    ASSUME IInv, RInv, NEW c \in Calls, Others(c),
           call[c].pc \in {"delete", "defer", "sleep", "clear"},
           call'[c].pc \in {"defer", "sleep", "clear", "done"},
           call'[c].op = call[c].op, call'[c].got = call[c].got,
           Awaits(c) /\ Tracked(c)' => Awaits(c)',
           ~AfterRefusal(c) => ReplyOk(c)',
           UNCHANGED <<hdl, buf, verdict>>, SameUp, NothingRead,
           UNCHANGED chanMap \/ Unregister(call[c].op)
    PROVE  RInv'
  <1>1. InFlight(c)
    BY DEF InFlight
  <1>2. \A d \in Calls : chanMap'[call[d].op] = d => chanMap[call[d].op] = d
    <2>1. /\ chanMap \in [Commands -> Chans \cup {Nil}]
          /\ \A d \in Calls : call[d].op \in Commands /\ d # Nil
      BY ClientAssumption DEF IInv, TypeOK, CallType, Commands
    <2> QED BY <2>1 DEF Unregister
  <1>3. QuietCall(c)
    BY <1>1, <1>2 DEF QuietCall, BeforePCs
  <1>4. RequestInv' /\ RequestsAwaited'
    BY <1>1, RInvParts, RequestsKept DEF BeforePCs, WaitPCs
  <1> QED BY <1>3, <1>4, QuietCallKeeps

LEMMA DeleteReply ==
    ASSUME IInv, RInv, NEW c \in Calls, Delete(c)
    PROVE  RInv'
  <1>1. /\ call[c].pc = "delete" /\ TypeOK /\ SameUp /\ NothingRead
        /\ Unregister(call[c].op) /\ call' = [call EXCEPT ![c].pc = "defer"]
        /\ UNCHANGED <<hdl, net, buf, verdict>>
    BY DEF Delete, IInv, SameUp, NothingRead
  <1>2. /\ Others(c) /\ call'[c].pc = "defer" /\ call'[c].op = call[c].op
        /\ call'[c].got = call[c].got /\ call'[c].result = call[c].result
    BY <1>1, GoToKeeps DEF CallPCs
  <1>3. ~Awaits(c)
    BY <1>1 DEF Awaits, WaitPCs
  <1>4. ~AfterRefusal(c) => ReplyOk(c)'
    <2>1. ~AfterRefusal(c) => ReplyOk(c)
      BY RInvParts DEF ReplyInv
    <2> QED BY <1>1, <1>2, <2>1 DEF ReplyOk, WaitPCs, Whole, Final
  <1> QED BY <1>1, <1>2, <1>3, <1>4, LateStep

\* A DoRequestPubKey that returns refused is remembered as such: what it left
\* unread is no longer waited for.
LEMMA DeferReply ==
    ASSUME IInv, RInv, NEW c \in Calls, Defer(c)
    PROVE  RInv'
  <1>1. /\ call[c].pc = "defer" /\ TypeOK /\ SameUp /\ NothingRead
        /\ Unregister(call[c].op) /\ UNCHANGED <<hdl, net, buf, verdict>>
        /\ call[c] \in CallType
    BY DEF Defer, IInv, SameUp, NothingRead, TypeOK
  <1>2. /\ Others(c) /\ call'[c].op = call[c].op /\ call'[c].got = call[c].got
        /\ \/ /\ call'[c].pc = "done" /\ call'[c].result = call[c].result
              /\ call[c].op # "QUIT"
           \/ /\ call'[c].pc = "sleep" /\ call[c].result = "ok"
              /\ call[c].op = "QUIT"
           \/ /\ call'[c].pc = "done" /\ call'[c].result = "incomplete"
              /\ call[c].op = "QUIT" /\ call[c].result # "ok"
    <2>1. CASE call[c].op # "QUIT"
      <3>1. Finish(c, call[c].result) /\ call[c].result \in Results
        BY <1>1, <2>1 DEF Defer, CallType
      <3> QED BY <1>1, <2>1, <3>1, FinishKeeps
    <2>2. CASE call[c].op = "QUIT" /\ call[c].result = "ok"
      <3>1. call' = [call EXCEPT ![c].pc = "sleep"]
        BY <2>2 DEF Defer
      <3> QED BY <1>1, <2>2, <3>1, GoToKeeps DEF CallPCs
    <2>3. CASE call[c].op = "QUIT" /\ call[c].result # "ok"
      <3>1. Finish(c, "incomplete")
        BY <2>3 DEF Defer
      <3> QED BY <1>1, <2>3, <3>1, FinishKeeps DEF Results
    <2> QED BY <2>1, <2>2, <2>3
  <1>3. ~AfterRefusal(c) => ReplyOk(c)
    BY RInvParts DEF ReplyInv
  <1>4. ASSUME Awaits(c), Tracked(c)'
        PROVE  FALSE
    <2>1. call[c].op = "RPUB" /\ call[c].result = "nokey" /\ call'[c].pc = "done"
      BY <1>1, <1>2, <1>4 DEF Awaits, WaitPCs
    <2>2. Tracked(c)
      BY <1>1, <1>2, <1>4, RefusalStays DEF InFlight
    <2>3. ~AfterRefusal(c)
      BY <2>1, <2>2 DEF Tracked, AfterRefusal, Refused
    <2>4. GaveUp(c)
      BY <1>1, <1>3, <2>1, <2>3 DEF ReplyOk, Outcome
    <2>5. call[c].got # <<>> /\ Head(call[c].got).body = "junk"
      BY <1>1, <2>4 DEF GaveUp, CallType
    <2>6. Refused'
      BY <1>2, <2>1, <2>5 DEF Refused
    <2> QED BY <1>2, <1>4, <2>1, <2>6 DEF Tracked
  <1>5. ~AfterRefusal(c) => ReplyOk(c)'
    <2> SUFFICES ASSUME ~AfterRefusal(c) PROVE ReplyOk(c)'
      OBVIOUS
    <2>1. ReplyOk(c) /\ Reads(call[c].op) \in 1..2
      BY <1>3 DEF Reads
    <2>2. Whole(c) => IsResult(Final(c))
      BY <1>1, <2>1 DEF ReplyOk, Whole, Final, CallType
    <2> QED BY <1>1, <1>2, <2>1, <2>2
            DEF ReplyOk, WaitPCs, Whole, Final, GaveUp, Outcome, IsResult
  <1> QED BY <1>1, <1>2, <1>4, <1>5, LateStep

LEMMA CloseReply ==
    ASSUME IInv, RInv, NEW c \in Calls, Close(c) \/ Clear(c)
    PROVE  RInv'
  <1>1. /\ call[c].pc \in {"sleep", "clear"} /\ TypeOK
        /\ UNCHANGED <<hdl, chanMap, buf, verdict>>
    BY DEF Close, Clear, IInv
  <1>2. SameUp /\ NothingRead
    <2>1. \/ net' = net
          \/ conn \in Conns /\ net' = [net EXCEPT ![conn].link = "closed"]
      BY <1>1 DEF Close, Clear, NilConn, TypeOK
    <2> QED BY <1>1, <2>1, LinkOnly DEF SameUp, NothingRead
  <1>3. CASE UNCHANGED call
    <2>1. Others(c) /\ call'[c] = call[c]
      BY <1>3 DEF Others
    <2>2. ~Awaits(c)
      BY <1>1 DEF Awaits, WaitPCs
    <2>3. ~AfterRefusal(c) => ReplyOk(c)'
      BY <1>3, RInvParts DEF ReplyInv, ReplyOk, Whole, Final, GaveUp
    <2> QED BY <1>1, <1>2, <2>1, <2>2, <2>3, LateStep
  <1>4. CASE ~UNCHANGED call
    <2>1. \/ call' = [call EXCEPT ![c].pc = "clear"] \/ Finish(c, "ioerr")
          \/ Finish(c, "ok")
      BY <1>4 DEF Close, Clear
    <2>2. /\ Others(c) /\ call'[c].op = call[c].op /\ call'[c].got = call[c].got
          /\ \/ call'[c].pc = "clear"
             \/ call'[c].pc = "done" /\ call'[c].result \in {"ok", "ioerr"}
      BY <1>1, <2>1, GoToKeeps, FinishKeeps DEF CallPCs, Results
    <2>3. ~Awaits(c)
      BY <1>1 DEF Awaits, WaitPCs
    <2>4. ~AfterRefusal(c) => ReplyOk(c)'
      <3>1. ~AfterRefusal(c) => ReplyOk(c)
        BY RInvParts DEF ReplyInv
      <3> QED BY <1>1, <2>2, <3>1
              DEF ReplyOk, WaitPCs, Whole, Final, GaveUp, Outcome
    <2> QED BY <1>1, <1>2, <2>2, <2>3, <2>4, LateStep
  <1> QED BY <1>3, <1>4

-----------------------------------------------------------------------------
(* A request that is written.                                               *)

LEMMA StutterReply ==
    ASSUME RInv, UNCHANGED <<call, hdl, net, chanMap, buf, verdict>>
    PROVE  RInv'
  <1>1. flow' = flow
    BY FlowSame
  <1>2. \A c \in Calls : /\ Tracked(c)' <=> Tracked(c)
                         /\ AfterRefusal(c)' <=> AfterRefusal(c)
                         /\ Awaits(c)' <=> Awaits(c)
    BY DEF Tracked, Refused, AfterRefusal, Awaits
  <1>3. SingleInv' /\ FreshInv' /\ RequestInv' /\ PushInv' /\ HeldInv'
    BY DEF RInv, SingleInv, FreshInv, RequestInv, PushInv, HeldInv, InFlight
  <1>4. TruthInv' /\ UniqueInv'
    BY <1>1 DEF RInv, TruthInv, UniqueInv, Truthful
  <1>5. OrderInv'
    BY DEF RInv, OrderInv, BufOrder, HdlOrder, DownOrder, DataIn, DataHeld, DataAt,
           Second
  <1>6. PendingInv' /\ ChannelInv'
    BY <1>1, <1>2 DEF RInv, PendingInv, AnswersAwaited, RequestsAwaited, ChannelInv
  <1>7. ReplyInv'
    <2>1. ASSUME NEW c \in Calls, ReplyOk(c)
          PROVE  ReplyOk(c)'
      BY <2>1 DEF ReplyOk, Whole, Final, GaveUp
    <2> QED BY <1>2, <2>1 DEF RInv, ReplyInv
  <1> QED BY <1>3, <1>4, <1>5, <1>6, <1>7 DEF RInv

\* The network takes message m on connection k.
Sent(k, m) ==
    /\ net'[k].up = Append(net[k].up, m)
    /\ \A j \in Conns \ {k} : net'[j].up = net[j].up

LEMMA SentAt ==
    ASSUME TypeOK, NEW k \in Conns, NEW m \in UpMsg, Sent(k, m)
    PROVE  \A j \in Conns : \A i \in DOMAIN net'[j].up :
               \/ i \in DOMAIN net[j].up /\ net'[j].up[i] = net[j].up[i]
               \/ j = k /\ i = Len(net[k].up) + 1 /\ net'[j].up[i] = m
  <1>1. net[k].up \in Seq(UpMsg)
    BY DEF TypeOK, NetType
  <1> SUFFICES ASSUME NEW j \in Conns, NEW i \in DOMAIN net'[j].up
               PROVE  \/ i \in DOMAIN net[j].up /\ net'[j].up[i] = net[j].up[i]
                      \/ j = k /\ i = Len(net[k].up) + 1 /\ net'[j].up[i] = m
    OBVIOUS
  <1>2. CASE j = k
    <2> DEFINE t == Append(net[k].up, m)
    <2>1. \A n \in DOMAIN t :
              \/ n \in DOMAIN net[k].up /\ n <= Len(net[k].up) /\ t[n] = net[k].up[n]
              \/ n = Len(net[k].up) + 1 /\ t[n] = m
      BY <1>1, AppendAt
    <2> QED BY <1>2, <2>1 DEF Sent
  <1>3. CASE j # k
    BY <1>3 DEF Sent
  <1> QED BY <1>2, <1>3

\* Only the last message of a request is answered; it is written once.
LEMMA RequestSent ==
    ASSUME IInv, RInv, NEW c \in Calls, NEW k \in Conns, NEW m \in UpMsg,
           Sent(k, m), m.from = c, Others(c), call[c].pc = "write",
           call'[c].op = call[c].op, call'[c].pc \in {"write", "look"},
           m.last => call'[c].pc = "look" /\ m.cmd = call[c].op,
           UNCHANGED verdict
    PROVE  RequestInv' /\ RequestsAwaited'
  <1>1. \A j \in Conns : \A i \in DOMAIN net'[j].up :
            \/ i \in DOMAIN net[j].up /\ net'[j].up[i] = net[j].up[i]
            \/ j = k /\ i = Len(net[k].up) + 1 /\ net'[j].up[i] = m
    BY SentAt DEF IInv
  <1>2. \A d \in Calls : /\ d # c => call'[d] = call[d]
                         /\ call'[d].op = call[d].op
                         /\ Tracked(d)' => Tracked(d)
    BY RefusalStays DEF Others, InFlight
  <1>3. verdict[c] = "none"
    BY RInvParts DEF FreshInv, BeforePCs
  <1>4. \A j \in Conns : \A i \in DOMAIN net[j].up :
            net[j].up[i].from = c => ~net[j].up[i].last
    BY RInvParts DEF RequestInv, BeforePCs
  <1>5. RequestInv'
    <2> SUFFICES ASSUME NEW j \in Conns, NEW i \in DOMAIN net'[j].up,
                        net'[j].up[i].from \in Calls, net'[j].up[i].last
                 PROVE  /\ verdict'[net'[j].up[i].from] = "none"
                        /\ net'[j].up[i].cmd = call'[net'[j].up[i].from].op
                        /\ call'[net'[j].up[i].from].pc \notin BeforePCs
                        /\ \A l \in Conns : \A n \in DOMAIN net'[l].up :
                              /\ net'[l].up[n].from = net'[j].up[i].from
                              /\ net'[l].up[n].last
                              => l = j /\ n = i
      BY DEF RequestInv
    <2>1. CASE j = k /\ i = Len(net[k].up) + 1 /\ net'[j].up[i] = m
      <3>1. \A l \in Conns : \A n \in DOMAIN net'[l].up :
                net'[l].up[n].from = c /\ net'[l].up[n].last
                    => l = k /\ n = Len(net[k].up) + 1
        BY <1>1, <1>4
      <3> QED BY <1>3, <2>1, <3>1 DEF BeforePCs
    <2>2. CASE i \in DOMAIN net[j].up /\ net'[j].up[i] = net[j].up[i]
      <3> DEFINE d == net[j].up[i].from
      <3>1. /\ d \in Calls /\ net[j].up[i].last /\ verdict[d] = "none"
            /\ net[j].up[i].cmd = call[d].op /\ call[d].pc \notin BeforePCs
            /\ \A l \in Conns : \A n \in DOMAIN net[l].up :
                   net[l].up[n].from = d /\ net[l].up[n].last => l = j /\ n = i
        BY <2>2, RInvParts DEF RequestInv
      <3>2. d # c
        BY <1>4, <2>2, <3>1
      <3>3. \A l \in Conns : \A n \in DOMAIN net'[l].up :
                net'[l].up[n].from = d /\ net'[l].up[n].last => l = j /\ n = i
        BY <1>1, <3>1, <3>2
      <3> QED BY <1>2, <2>2, <3>1, <3>2, <3>3
    <2> QED BY <1>1, <2>1, <2>2
  <1>6. RequestsAwaited'
    <2> SUFFICES ASSUME NEW j \in Conns, NEW i \in DOMAIN net'[j].up,
                        net'[j].up[i].last, net'[j].up[i].from \in Calls,
                        Tracked(net[j].up[i].from)'
                 PROVE  call'[net'[j].up[i].from].pc \in WaitPCs
      BY DEF RequestsAwaited
    <2>1. CASE net'[j].up[i] = m
      BY <2>1 DEF WaitPCs
    <2>2. CASE i \in DOMAIN net[j].up /\ net'[j].up[i] = net[j].up[i]
      <3>1. net[j].up[i].from # c
        BY <1>4, <2>2
      <3>2. Tracked(net[j].up[i].from)
        BY <1>2, <2>2 DEF Tracked
      <3> QED BY <1>2, <2>2, <3>1, <3>2, RInvParts DEF RequestsAwaited
    <2> QED BY <1>1, <2>1, <2>2
  <1> QED BY <1>5, <1>6

LEMMA WriteReply ==
    ASSUME IInv, RInv, NEW c \in Calls, Write(c)
    PROVE  RInv'
  <1> DEFINE op == call[c].op
             last == call[c].left = 1
             m == [cmd |-> op, from |-> c, last |-> last,
                   arg |-> IF op = "RADC" /\ last THEN addCode ELSE Nil]
             n  == call[c].left - 1
             pc == IF last THEN "look" ELSE "write"
  <1>0. /\ TypeOK /\ call[c].pc = "write" /\ call[c] \in CallType /\ InFlight(c)
        /\ UNCHANGED <<hdl, conn, chanMap, buf, addCode, verdict>>
        /\ verdict[c] = "none" /\ call[c].got = <<>>
    BY RInvParts DEF IInv, Write, TypeOK, InFlight, FreshInv, BeforePCs
  <1>1. last \in BOOLEAN /\ op \in Operations /\ m \in UpMsg
    BY <1>0 DEF CallType, UpMsg, TypeOK, Chans
  <1>2. CASE NilConn(conn)
    BY <1>0, <1>2, StutterReply DEF Write
  <1>3. CASE ~NilConn(conn)
    <2>1. conn \in Conns
      BY <1>0, <1>3 DEF NilConn, TypeOK
    <2>2. \/ /\ call' = [call EXCEPT ![c].left = n, ![c].pc = pc]
             /\ net' = net \/ net' = [net EXCEPT ![conn].up = Append(@, m)]
          \/ /\ call' = [call EXCEPT ![c].pc = "defer", ![c].result = "ioerr"]
             /\ net' = net
      BY <1>0, <1>3 DEF Write, TypeOK
    <2> HIDE DEF m, n, last
    <2>3. CASE /\ call' = [call EXCEPT ![c].pc = "defer", ![c].result = "ioerr"]
               /\ net' = net
      <3>1. /\ Others(c) /\ call'[c].pc = "defer" /\ call'[c].result = "ioerr"
            /\ call'[c].op = op /\ call'[c].got = call[c].got
        BY <1>0, <2>3 DEF TypeOK, CallType, Others
      <3>2. SameUp /\ NothingRead /\ call[c].pc \in BeforePCs \ {"idle"}
        BY <1>0, <2>3 DEF SameUp, NothingRead, BeforePCs
      <3> QED BY <1>0, <3>1, <3>2, EarlyStep
    <2>4. CASE call' = [call EXCEPT ![c].left = n, ![c].pc = pc]
      <3>1. /\ Others(c) /\ call'[c].pc = pc
            /\ call'[c].op = op /\ call'[c].got = <<>>
        <4> HIDE DEF pc
        <4> QED BY <1>0, <2>4 DEF TypeOK, CallType, Others
      <3>2. pc \in {"write", "look"} /\ (last <=> pc = "look")
        OBVIOUS
      <3>3. NothingRead /\ (SameUp \/ Sent(conn, m))
        <4>1. CASE net' = net
          BY <1>0, <4>1 DEF NothingRead, SameUp
        <4>2. CASE net' = [net EXCEPT ![conn].up = Append(net[conn].up, m)]
          <5> DEFINE up == Append(net[conn].up, m)
          <5>1. net' = [net EXCEPT ![conn].up = up]
            BY <4>2
          <5> HIDE DEF up
          <5>2. /\ net'[conn].up = up /\ net'[conn].down = net[conn].down
                /\ \A j \in Conns \ {conn} : net'[j] = net[j]
            BY <1>0, <2>1, <5>1 DEF TypeOK, NetType
          <5> QED BY <1>0, <2>1, <5>2 DEF NothingRead, Sent, up
        <4> QED BY <2>2, <2>4, <4>1, <4>2
      <3>4. QuietCall(c)
        BY <1>0, <3>1, <3>2, <3>3 DEF QuietCall, BeforePCs
      <3>5. RequestInv' /\ RequestsAwaited'
        <4>1. CASE SameUp
          BY <1>0, <3>1, <3>2, <4>1, RInvParts, RequestsKept DEF BeforePCs, WaitPCs
        <4>2. CASE Sent(conn, m)
          <5>1. m.from = c /\ m.cmd = op /\ m.last = last
            BY DEF m
          <5> QED BY <1>0, <1>1, <2>1, <3>1, <3>2, <4>2, <5>1, RequestSent
        <4> QED BY <3>3, <4>1, <4>2
      <3>6. ~Awaits(c)
        BY <1>0 DEF Awaits, WaitPCs
      <3>7. ReplyOk(c)'
        BY <1>1, <3>1, <3>2, ReplyEmpty DEF BeforePCs
      <3> QED BY <3>4, <3>5, <3>6, <3>7, QuietCallKeeps
    <2> QED BY <2>2, <2>3, <2>4
  <1> QED BY <1>2, <1>3

-----------------------------------------------------------------------------
(* A message that is taken.                                                 *)

\* The data and the result are all there is of an answer.
LEMMA SameMessage ==
    ASSUME NEW m \in DownMsg, NEW n \in DownMsg, Truthful(m), Truthful(n),
           m.to = n.to, m.to \in Calls, IsData(m) <=> IsData(n)
    PROVE  m = n
  <1>1. m.cmd = n.cmd
    BY DEF Truthful
  <1>2. m.body = n.body
    BY DEF Truthful, IsData, DownMsg, Bodies
  <1> QED BY <1>1, <1>2 DEF DownMsg

\* What Recv does to the call and to the messages.
LEMMA RecvEffect ==
    ASSUME IInv, RInv, NEW c \in Calls, Recv(c)
    PROVE  LET m == Head(buf[c])
               last == Len(call[c].got) + 1 = Reads(call[c].op)
               bad  == ~last /\ GivesUp(call[c].op, m)
           IN  /\ buf[c] \in Seq(DownMsg) /\ buf[c] # <<>> /\ m \in DownMsg
               /\ buf' = [buf EXCEPT ![c] = Tail(buf[c])]
               /\ Others(c) /\ call'[c].op = call[c].op
               /\ call[c].pc = "recv" /\ call[c].got \in Seq(DownMsg)
               /\ call'[c].got = Append(call[c].got, m)
               /\ call'[c].pc = IF bad THEN "defer" ELSE IF last THEN "delete"
                                ELSE "look"
               /\ call'[c].result = IF bad THEN "nokey" ELSE IF ~last THEN "none"
                                    ELSE Outcome(m)
               /\ Moved(flow, flow', <<"buf", c>>, <<"got", c>>)
  <1> DEFINE m    == Head(buf[c])
             last == Len(call[c].got) + 1 = Reads(call[c].op)
             bad  == ~last /\ GivesUp(call[c].op, m)
             pc   == IF bad THEN "defer" ELSE IF last THEN "delete" ELSE "look"
             res  == IF bad THEN "nokey" ELSE IF ~last THEN "none" ELSE Outcome(m)
             got  == Append(call[c].got, m)
  <1>1. call[c].held = c
    <2>1. call[c].held \in {c} \cup PubReqs /\ buf[call[c].held] # <<>>
      BY RInvParts DEF Recv, HeldInv
    <2> QED BY <2>1, RInvParts DEF PushInv
  <1>2. /\ buf[c] \in Seq(DownMsg) /\ buf[c] # <<>> /\ call[c] \in CallType
        /\ call[c].pc = "recv" /\ call \in [Calls -> CallType] /\ c \in Chans
        /\ buf \in [Chans -> Seq(DownMsg)] /\ UNCHANGED <<hdl, net>>
    BY <1>1 DEF IInv, TypeOK, Recv, Chans
  <1>3. m \in DownMsg /\ call[c].got \in Seq(DownMsg)
    BY <1>2, HeadTailProperties DEF CallType
  <1>4. call' = [call EXCEPT ![c].got = got, ![c].pc = pc, ![c].result = res]
    BY <1>1, <1>2 DEF Recv
  <1>5. buf' = [buf EXCEPT ![c] = Tail(buf[c])]
    BY <1>1, <1>2 DEF Recv
  <1> HIDE DEF m, got, pc, res
  <1>6. /\ Others(c) /\ call'[c].op = call[c].op /\ call'[c].got = got
        /\ call'[c].pc = pc /\ call'[c].result = res
    BY <1>2, <1>4 DEF CallType, Others
  <1>7. Moved(flow, flow', <<"buf", c>>, <<"got", c>>)
    <2>1. /\ flow[<<"buf", c>>] = buf[c] /\ flow'[<<"buf", c>>] = Tail(buf[c])
          /\ flow[<<"got", c>>] = call[c].got /\ flow'[<<"got", c>>] = got
      BY <1>2, <1>5, <1>6, FlowIs
    <2>2. ASSUME NEW p \in Places \ {<<"buf", c>>, <<"got", c>>}
          PROVE  flow'[p] = flow[p]
      <3>1. ASSUME NEW k \in Calls, p \in {<<"down", k>>, <<"hdl", k>>}
            PROVE  flow'[p] = flow[p]
        <4>1. hdl'[k] = hdl[k] /\ net'[k] = net[k]
          BY <1>2
        <4>2. flow'[<<"down", k>>] = flow[<<"down", k>>]
          BY <4>1, FlowIs
        <4>3. flow'[<<"hdl", k>>] = flow[<<"hdl", k>>]
          BY <4>1, FlowIs
        <4> QED BY <3>1, <4>2, <4>3
      <3>2. ASSUME NEW k \in Calls, p = <<"got", k>>
            PROVE  flow'[p] = flow[p]
        BY <1>6, <2>2, <3>2, FlowIs DEF Others
      <3>3. ASSUME NEW h \in Chans, p = <<"buf", h>>
            PROVE  flow'[p] = flow[p]
        BY <1>2, <1>5, <2>2, <3>3, FlowIs
      <3> QED BY <3>1, <3>2, <3>3, PlacesAre
    <2> QED BY <1>2, <2>1, <2>2 DEF Moved, m, got
  <1> QED BY <1>2, <1>3, <1>5, <1>6, <1>7 DEF m, got, pc, res

\* A call that is not behind a refused one takes its data, then its result.
LEMMA TakesOwn ==
    ASSUME IInv, RInv, NEW c \in Calls, Recv(c), ~AfterRefusal(c)
    PROVE  /\ Head(buf[c]).to = c /\ Truthful(Head(buf[c]))
           /\ Len(call[c].got) < Reads(call[c].op)
           /\ IsResult(Head(buf[c])) <=> Len(call[c].got) + 1 = Reads(call[c].op)
           /\ IsData(Head(buf[c])) <=> ~IsResult(Head(buf[c]))
           /\ Tracked(c)
  <1> DEFINE m == Head(buf[c])
  <1>1. /\ buf[c] \in Seq(DownMsg) /\ buf[c] # <<>> /\ m \in DownMsg
        /\ call[c].pc = "recv" /\ call[c].got \in Seq(DownMsg)
    BY RecvEffect
  <1>2. m = buf[c][1] /\ 1 \in DOMAIN buf[c]
    BY <1>1, TailAt
  <1>3. m.to = c
    BY <1>2, RInvParts DEF ChannelInv
  <1>4. <<"buf", c>> \in Places /\ flow[<<"buf", c>>] = buf[c]
    BY FlowIs DEF Places, Chans
  <1>5. Truthful(m)
    BY <1>2, <1>4, RInvParts DEF TruthInv
  <1>6. ReplyOk(c) /\ Len(call[c].got) < Reads(call[c].op)
    BY <1>1, RInvParts DEF ReplyInv, ReplyOk, WaitPCs
  <1>7. IsData(m) <=> ~IsResult(m)
    BY <1>1 DEF DownMsg, Bodies, IsData, IsResult
  <1>8. Tracked(c)
    BY <1>1 DEF Tracked, Refused, AfterRefusal
  <1>9. Reads(call[c].op) \in 1..2 /\ m.cmd = call[c].op
    BY <1>3, <1>5 DEF Reads, Truthful
  <1>10. CASE Reads(call[c].op) = 1
    <2>1. ~IsData(m) /\ Len(call[c].got) = 0
      BY <1>1, <1>5, <1>6, <1>9, <1>10 DEF Truthful
    <2> QED BY <1>3, <1>5, <1>6, <1>7, <1>8, <1>10, <2>1
  <1>11. CASE Reads(call[c].op) = 2 /\ call[c].got = <<>>
    <2>1. ~IsResult(m)
      <3>1. BufOrder(c)
        BY RInvParts DEF OrderInv
      <3> QED BY <1>2, <1>3, <1>11, <3>1 DEF BufOrder, Second
    <2> QED BY <1>3, <1>5, <1>6, <1>7, <1>8, <1>11, <2>1
  <1>12. CASE Reads(call[c].op) = 2 /\ call[c].got # <<>>
    <2> DEFINE d == call[c].got[1]
    <2>1. Len(call[c].got) = 1 /\ 1 \in DOMAIN call[c].got
      <3>1. Len(call[c].got) \in Nat /\ Len(call[c].got) # 0
        BY <1>1, <1>12, EmptySeq
      <3>2. Len(call[c].got) < 2
        BY <1>6, <1>12
      <3>3. \A n \in Nat : n # 0 /\ n < 2 => n = 1
        OBVIOUS
      <3>4. Len(call[c].got) = 1
        BY <3>1, <3>2, <3>3, Zenon
      <3> QED BY <1>1, <3>4, LenProperties
    <2>2. d \in DownMsg /\ d.to = c /\ ~IsResult(d)
      <3>1. d \in DownMsg
        BY <1>1, <2>1
      <3>2. \A i \in DOMAIN call[c].got :
                /\ call[c].got[i].to = c
                /\ IsResult(call[c].got[i]) <=> i = Reads(call[c].op)
        BY <1>6 DEF ReplyOk
      <3> QED BY <1>12, <2>1, <3>1, <3>2
    <2>3. IsData(d)
      BY <2>2 DEF DownMsg, Bodies, IsData, IsResult
    <2>4. <<"got", c>> \in Places /\ flow[<<"got", c>>] = call[c].got
      BY FlowIs DEF Places
    <2>5. Truthful(d)
      BY <2>1, <2>4, RInvParts DEF TruthInv
    <2>6. IsResult(m)
      <3> SUFFICES ASSUME ~IsResult(m) PROVE FALSE
        OBVIOUS
      <3>1. m = d
        BY <1>1, <1>3, <1>5, <1>7, <2>2, <2>3, <2>5, SameMessage
      <3> QED BY <1>2, <1>4, <2>1, <2>4, <3>1, RInvParts DEF UniqueInv, Distinct
    <2> QED BY <1>3, <1>5, <1>6, <1>7, <1>8, <1>12, <2>1, <2>6
  <1> QED BY <1>9, <1>10, <1>11, <1>12

\* When a call has its result, nothing more is under way to it.
LEMMA NothingLeft ==
    ASSUME IInv, RInv, IInv', NEW c \in Calls, Recv(c), ~AfterRefusal(c),
           Len(call[c].got) + 1 = Reads(call[c].op), Distinct(flow'),
           NEW p \in Places, p[1] # "got", NEW i \in DOMAIN flow'[p],
           flow'[p][i].to = c
    PROVE  FALSE
  <1> DEFINE m == Head(buf[c])
             n == flow'[p][i]
             a == <<"buf", c>>
             b == <<"got", c>>
  <1>0. /\ flow \in Flows /\ flow' \in Flows /\ Moved(flow, flow', a, b)
        /\ a \in Places /\ b \in Places /\ m \in DownMsg
        /\ flow[b] = call[c].got /\ flow'[b] = Append(call[c].got, m)
        /\ call[c].got \in Seq(DownMsg) /\ call'[c].op = call[c].op
    BY RecvEffect, FlowTyped, FlowIs DEF Places, Chans
  <1>1. /\ m.to = c /\ Truthful(m) /\ IsResult(m)
        /\ IsData(m) <=> ~IsResult(m)
    BY TakesOwn
  <1>2. PICK s \in Places : \E j \in DOMAIN flow[s] : flow[s][j] = n /\ s[1] # "got"
    <2>1. a[1] # "got"
      OBVIOUS
    <2>2. Carries(flow, flow')
      BY <1>0, <2>1, MovedCarries
    <2> QED BY <2>2 DEF Carries
  <1>3. PICK j \in DOMAIN flow[s] : flow[s][j] = n /\ s[1] # "got"
    BY <1>2
  <1>4. n \in DownMsg /\ Truthful(n)
    BY <1>0, <1>3, RInvParts DEF TruthInv, Flows
  <1>5. IsData(n) <=> ~IsResult(n)
    BY <1>4 DEF DownMsg, Bodies, IsData, IsResult
  <1>6. /\ Len(call[c].got) + 1 \in DOMAIN flow'[b]
        /\ flow'[b][Len(call[c].got) + 1] = m
    <2> HIDE DEF m
    <2> QED BY <1>0, AppendProperties
  <1>7. CASE IsResult(n)
    <2>1. n = m
      BY <1>0, <1>1, <1>4, <1>5, <1>7, SameMessage
    <2> QED BY <1>0, <1>6, <2>1 DEF Distinct
  <1>8. CASE IsData(n)
    <2> DEFINE d == call[c].got[1]
    <2>1. Reads(call[c].op) = 2
      BY <1>4, <1>8 DEF Truthful
    <2>2. Len(call[c].got) = 1 /\ 1 \in DOMAIN call[c].got
      <3>1. Len(call[c].got) \in Nat
        BY <1>0, LenProperties
      <3>2. Len(call[c].got) + 1 = 2
        BY <2>1
      <3>3. \A l \in Nat : l + 1 = 2 => l = 1
        OBVIOUS
      <3>4. Len(call[c].got) = 1
        BY <3>1, <3>2, <3>3, Zenon
      <3> QED BY <1>0, <3>4, LenProperties
    <2>3. d \in DownMsg /\ d.to = c /\ ~IsResult(d)
      <3>1. d \in DownMsg
        BY <1>0, <2>2
      <3>2. ReplyOk(c)
        BY RInvParts DEF ReplyInv
      <3>3. \A k \in DOMAIN call[c].got :
                /\ call[c].got[k].to = c
                /\ IsResult(call[c].got[k]) <=> k = Reads(call[c].op)
        BY <3>2 DEF ReplyOk
      <3> QED BY <2>1, <2>2, <3>1, <3>3
    <2>4. IsData(d)
      BY <2>3 DEF DownMsg, Bodies, IsData, IsResult
    <2>5. Truthful(d)
      BY <1>0, <2>2, RInvParts DEF TruthInv
    <2>6. n = d
      BY <1>4, <1>8, <2>3, <2>4, <2>5, SameMessage
    <2>7. s = b
      BY <1>0, <1>3, <2>2, <2>6, RInvParts DEF UniqueInv, Distinct
    <2> QED BY <1>3, <2>7
  <1> QED BY <1>5, <1>7, <1>8

LEMMA RecvReplyOk ==
    ASSUME IInv, RInv, NEW c \in Calls, Recv(c), ~AfterRefusal(c)
    PROVE  ReplyOk(c)'
  <1> DEFINE m    == Head(buf[c])
             op   == call[c].op
             old  == call[c].got
             last == Len(old) + 1 = Reads(op)
             bad  == ~last /\ GivesUp(op, m)
             got  == Append(old, m)
  <1>1. /\ m \in DownMsg /\ old \in Seq(DownMsg)
        /\ call'[c].op = op /\ call'[c].got = got
        /\ call'[c].pc = IF bad THEN "defer" ELSE IF last THEN "delete" ELSE "look"
        /\ call'[c].result = IF bad THEN "nokey" ELSE IF ~last THEN "none"
                             ELSE Outcome(m)
    BY RecvEffect
  <1>2. /\ m.to = c /\ Len(old) < Reads(op) /\ (IsResult(m) <=> last)
        /\ IsData(m) <=> ~IsResult(m)
    BY TakesOwn
  <1>3. /\ Len(old) \in Nat /\ Reads(op) \in 1..2 /\ Len(got) = Len(old) + 1
        /\ got[Len(old) + 1] = m
        /\ \A i \in DOMAIN got :
               \/ i \in DOMAIN old /\ i <= Len(old) /\ got[i] = old[i]
               \/ i = Len(old) + 1 /\ got[i] = m
    <2> HIDE DEF m
    <2> QED BY <1>1, AppendAt, AppendProperties DEF Reads
  <1>4. \A i \in DOMAIN old : /\ old[i].to = c
                              /\ IsResult(old[i]) <=> i = Reads(op)
    BY RInvParts DEF ReplyInv, ReplyOk
  <1> HIDE DEF m, got
  <1>5. \A i \in DOMAIN got : /\ got[i].to = c
                              /\ IsResult(got[i]) <=> i = Reads(op)
    BY <1>2, <1>3, <1>4
  <1>6. bad => /\ op = "RPUB" /\ Len(got) = 1 /\ got[1].body = "junk"
    <2> SUFFICES ASSUME bad PROVE op = "RPUB" /\ Len(got) = 1 /\ got[1].body = "junk"
      OBVIOUS
    <2>1. op = "RPUB" /\ m.body # "value"
      BY DEF GivesUp
    <2>2. Reads(op) = 2
      BY <2>1 DEF Reads
    <2>3. Len(old) = 0
      BY <1>2, <1>3, <2>2
    <2>4. m.body = "junk"
      BY <1>2, <2>1 DEF IsData
    <2> QED BY <1>3, <2>1, <2>3, <2>4
  <1>7. CASE bad
    BY <1>1, <1>2, <1>3, <1>5, <1>6, <1>7 DEF ReplyOk, WaitPCs, GaveUp
  <1>8. CASE ~bad /\ last
    BY <1>1, <1>3, <1>5, <1>8 DEF ReplyOk, WaitPCs, Whole, Final
  <1>9. CASE ~bad /\ ~last
    BY <1>1, <1>2, <1>3, <1>5, <1>9 DEF ReplyOk, WaitPCs
  <1> QED BY <1>7, <1>8, <1>9

LEMMA RecvReply ==
    ASSUME IInv, RInv, IInv', NEW c \in Calls, Recv(c)
    PROVE  RInv'
  <1> DEFINE m == Head(buf[c])
             a == <<"buf", c>>
             b == <<"got", c>>
  <1>0. /\ SingleInv /\ FreshInv /\ RequestInv /\ TruthInv /\ UniqueInv
        /\ PushInv /\ HeldInv /\ OrderInv /\ AnswersAwaited /\ RequestsAwaited
        /\ ChannelInv /\ ReplyInv
    BY RInvParts
  <1>1. /\ buf[c] \in Seq(DownMsg) /\ buf[c] # <<>> /\ call[c].pc = "recv"
        /\ \A h \in Chans : buf'[h] = IF h = c THEN Tail(buf[c]) ELSE buf[h]
        /\ Others(c) /\ call'[c].op = call[c].op
        /\ call'[c].pc \in {"defer", "delete", "look"} /\ call'[c].got # <<>>
        /\ Moved(flow, flow', a, b)
    <2>1. call'[c].got # <<>>
      <3>1. call'[c].got = Append(call[c].got, m) /\ call[c].got \in Seq(DownMsg)
            /\ m \in DownMsg
        BY RecvEffect
      <3> HIDE DEF m
      <3> QED BY <3>1, AppendProperties
    <2>2. buf \in [Chans -> Seq(DownMsg)]
      BY DEF IInv, TypeOK
    <2> QED BY <2>1, <2>2, RecvEffect
  <1>2. UNCHANGED <<hdl, net, chanMap, verdict>>
    BY DEF Recv
  <1>3. InFlight(c) /\ a \in Places /\ b \in Places /\ a[1] # "got" /\ c \in Chans
    BY <1>1 DEF InFlight, Places, Chans
  <1>4. \A d \in Calls : /\ d # c => call'[d] = call[d]
                         /\ call'[d].op = call[d].op
                         /\ Tracked(d)' => Tracked(d)
                         /\ AfterRefusal(d) => AfterRefusal(d)'
    BY <1>1, <1>3, RefusalStays DEF Others
  <1>5. /\ flow \in Flows /\ flow' \in Flows /\ Distinct(flow')
        /\ Carries(flow, flow')
    BY <1>0, <1>1, <1>3, FlowTyped, MovedDistinct, MovedCarries DEF UniqueInv
  <1>6. AfterRefusal(c) => ~Tracked(c)
    BY DEF AfterRefusal, Tracked, Refused
  <1>7. SingleInv' /\ FreshInv' /\ RequestInv'
    <2>1. \A d \in Calls : InFlight(d)' => InFlight(d)
      BY <1>1, <1>3, <1>4 DEF InFlight
    <2>2. SingleInv'
      BY <1>0, <1>4, <2>1 DEF SingleInv
    <2>3. FreshInv'
      BY <1>0, <1>1, <1>2, <1>4 DEF FreshInv, BeforePCs
    <2>4. RequestInv'
      BY <1>0, <1>1, <1>2, <1>4 DEF RequestInv, BeforePCs
    <2> QED BY <2>2, <2>3, <2>4
  <1>8. TruthInv' /\ UniqueInv'
    BY <1>0, <1>2, <1>4, <1>5, TruthKept DEF SameOps, UniqueInv
  <1>9. PushInv' /\ HeldInv'
    BY <1>0, <1>1, <1>2, <1>4, ClientAssumption DEF PushInv, HeldInv, Chans
  <1>10. OrderInv'
    <2>1. ASSUME NEW d \in Calls, d # c
          PROVE  BufOrder(d)' /\ \A k \in Conns : HdlOrder(d, k)' /\ DownOrder(d, k)'
      <3>1. call'[d] = call[d] /\ buf'[d] = buf[d]
        BY <1>1, <1>4, <2>1 DEF Chans
      <3>2. BufOrder(d) /\ \A k \in Conns : HdlOrder(d, k) /\ DownOrder(d, k)
        BY <1>0 DEF OrderInv
      <3> QED BY <1>2, <3>1, <3>2 DEF BufOrder, HdlOrder, DownOrder, DataIn, DataHeld,
                                      DataAt, Second
    <2>2. BufOrder(c)' /\ \A k \in Conns : HdlOrder(c, k)' /\ DownOrder(c, k)'
      BY <1>1 DEF BufOrder, HdlOrder, DownOrder, DataIn
    <2> QED BY <2>1, <2>2 DEF OrderInv
  <1>11. RequestsAwaited'
    <2> SUFFICES ASSUME NEW k \in Conns, NEW i \in DOMAIN net[k].up,
                        net[k].up[i].last, net[k].up[i].from \in Calls,
                        Tracked(net[k].up[i].from)'
                 PROVE  call'[net[k].up[i].from].pc \in WaitPCs
      BY <1>2 DEF RequestsAwaited
    <2>1. Tracked(net[k].up[i].from)
      BY <1>2, <1>4 DEF Tracked
    <2>2. CASE net[k].up[i].from # c
      BY <1>0, <1>4, <2>1, <2>2 DEF RequestsAwaited
    <2>3. CASE net[k].up[i].from = c
      <3>1. verdict[c] = "none"
        BY <1>0, <2>3 DEF RequestInv
      <3>2. m.to = c /\ Truthful(m)
        BY <1>6, <2>1, <2>3, TakesOwn
      <3> QED BY <3>1, <3>2 DEF Truthful
    <2> QED BY <2>2, <2>3
  <1>12. AnswersAwaited'
    <2> SUFFICES ASSUME NEW p \in Places, p[1] # "got", NEW i \in DOMAIN flow'[p],
                        flow'[p][i].to \in Calls, Tracked(flow[p][i].to)'
                 PROVE  Awaits(flow[p][i].to)'
      BY DEF AnswersAwaited
    <2>1. PICK s \in Places : \E j \in DOMAIN flow[s] :
                  flow[s][j] = flow'[p][i] /\ s[1] # "got"
      BY <1>5 DEF Carries
    <2>2. PICK j \in DOMAIN flow[s] : flow[s][j] = flow'[p][i] /\ s[1] # "got"
      BY <2>1
    <2> DEFINE d == flow'[p][i].to
    <2>3. d \in Calls /\ Tracked(d)
      BY <1>4 DEF Tracked
    <2>4. Awaits(d)
      BY <1>0, <2>2, <2>3 DEF AnswersAwaited
    <2>5. CASE d # c
      BY <1>4, <2>3, <2>4, <2>5 DEF Awaits
    <2>6. CASE d = c
      <3>1. ~AfterRefusal(c)
        BY <1>6, <2>3, <2>6
      <3>2. Len(call[c].got) + 1 # Reads(call[c].op)
        BY <1>5, <2>6, <3>1, NothingLeft
      <3>3. \/ call'[c].pc = "look"
            \/ /\ call'[c].pc = "defer" /\ call'[c].result = "nokey"
               /\ call[c].op = "RPUB"
        BY <3>2, RecvEffect DEF GivesUp
      <3> QED BY <1>1, <2>6, <3>3 DEF Awaits, WaitPCs
    <2> QED BY <2>5, <2>6
  <1>13. ChannelInv'
    <2>1. \A i \in DOMAIN Tail(buf[c]) :
              i + 1 \in DOMAIN buf[c] /\ Tail(buf[c])[i] = buf[c][i + 1]
      BY <1>1, TailAt
    <2> SUFFICES ASSUME NEW h \in Calls, ~AfterRefusal(h)'
                 PROVE  /\ \A i \in DOMAIN buf'[h] : buf'[h][i].to = h
                        /\ \A k \in Conns :
                               hdl'[k].pc = "send" /\ hdl'[k].chan = h
                                   => hdl'[k].msg.to = h
      BY DEF ChannelInv
    <2>2. /\ \A i \in DOMAIN buf[h] : buf[h][i].to = h
          /\ \A k \in Conns :
                 hdl[k].pc = "send" /\ hdl[k].chan = h => hdl[k].msg.to = h
      BY <1>0, <1>4 DEF ChannelInv
    <2>3. buf'[h] = IF h = c THEN Tail(buf[c]) ELSE buf[h]
      BY <1>1 DEF Chans
    <2>4. \A i \in DOMAIN buf'[h] : buf'[h][i].to = h
      BY <2>1, <2>2, <2>3
    <2> QED BY <1>2, <2>2, <2>4
  <1>14. ReplyInv'
    <2>1. ASSUME NEW d \in Calls, d # c, ReplyOk(d)
          PROVE  ReplyOk(d)'
      BY <1>4, <2>1 DEF ReplyOk, Whole, Final, GaveUp
    <2>2. ~AfterRefusal(c) => ReplyOk(c)'
      BY RecvReplyOk
    <2> QED BY <1>0, <1>4, <2>1, <2>2 DEF ReplyInv
  <1> QED BY <1>7, <1>8, <1>9, <1>10, <1>11, <1>12, <1>13, <1>14 DEF RInv, PendingInv

-----------------------------------------------------------------------------
(* A call that starts.                                                      *)

\* A call that has not started is as Init made it.
IdleInv == \A c \in Calls : call[c].pc = "idle" => call[c].op = "INIT"

LEMMA NoMessageTo ==
    ASSUME TruthInv, NEW c \in Chans, verdict[c] = "none"
    PROVE  /\ \A p \in Places : \A i \in DOMAIN flow[p] : flow[p][i].to # c
           /\ \A h \in Chans : \A i \in DOMAIN buf[h] : buf[h][i].to # c
           /\ \A k \in Conns : \A i \in DOMAIN net[k].down : net[k].down[i].to # c
           /\ \A k \in Conns : hdl[k].pc \in HoldingPCs => hdl[k].msg.to # c
  <1>1. \A p \in Places : \A i \in DOMAIN flow[p] : flow[p][i].to # c
    BY DEF TruthInv, Truthful
  <1>2. ASSUME NEW h \in Chans, NEW i \in DOMAIN buf[h]
        PROVE  buf[h][i].to # c
    <2>1. <<"buf", h>> \in Places /\ flow[<<"buf", h>>] = buf[h]
      BY FlowIs DEF Places
    <2> QED BY <1>1, <1>2, <2>1
  <1>3. ASSUME NEW k \in Conns, NEW i \in DOMAIN net[k].down
        PROVE  net[k].down[i].to # c
    <2>1. <<"down", k>> \in Places /\ flow[<<"down", k>>] = net[k].down
      BY FlowIs DEF Places, Conns
    <2> QED BY <1>1, <1>3, <2>1
  <1>4. ASSUME NEW k \in Conns, hdl[k].pc \in HoldingPCs
        PROVE  hdl[k].msg.to # c
    <2>1. <<"hdl", k>> \in Places
      BY DEF Places, Conns
    <2>2. flow[<<"hdl", k>>] = <<hdl[k].msg>>
      BY <1>4, FlowIs DEF Conns
    <2>3. 1 \in DOMAIN flow[<<"hdl", k>>] /\ flow[<<"hdl", k>>][1] = hdl[k].msg
      BY <2>2
    <2> QED BY <1>1, <2>1, <2>3
  <1> QED BY <1>1, <1>2, <1>3, <1>4

LEMMA InvokeReply ==
    ASSUME IInv, RInv, IdleInv, NEW c \in Calls, NEW op \in Operations,
           Invoke(c, op), \A d \in Calls : InFlight(d) => call[d].op # op
    PROVE  RInv'
  <1>0. /\ SingleInv /\ FreshInv /\ RequestInv /\ TruthInv /\ UniqueInv
        /\ PushInv /\ HeldInv /\ OrderInv /\ AnswersAwaited /\ RequestsAwaited
        /\ ChannelInv /\ ReplyInv
    BY RInvParts
  <1>1. /\ call[c].pc = "idle" /\ call[c].op = "INIT"
        /\ verdict[c] = "none" /\ call[c].got = <<>>
        /\ UNCHANGED <<hdl, net, chanMap, buf, verdict>>
    BY <1>0 DEF Invoke, IdleInv, FreshInv, BeforePCs
  <1>2. /\ Others(c) /\ call'[c].op = op /\ call'[c].got = <<>>
        /\ call'[c].pc \in {"enter", "make"}
    <2> DEFINE pc == IF op \in StatusOps THEN "enter" ELSE "make"
    <2>1. call' = [call EXCEPT ![c].op = op, ![c].pc = pc]
      BY DEF Invoke
    <2>2. pc \in {"enter", "make"}
      OBVIOUS
    <2> HIDE DEF pc
    <2>3. call \in [Calls -> CallType]
      BY DEF IInv, TypeOK
    <2>4. /\ Others(c) /\ call'[c].op = op /\ call'[c].pc = pc
          /\ call'[c].got = call[c].got
      BY <2>1, <2>3 DEF CallType, Others
    <2> QED BY <1>1, <2>2, <2>4
  <1>3. \A d \in Calls : d # c => call'[d] = call[d]
    BY <1>2 DEF Others
  <1>4. flow' = flow
    BY <1>1, <1>2, <1>3, FlowSame
  <1>5. /\ \A p \in Places : \A i \in DOMAIN flow[p] : flow[p][i].to # c
        /\ \A h \in Chans : \A i \in DOMAIN buf[h] : buf[h][i].to # c
        /\ \A k \in Conns : \A i \in DOMAIN net[k].down : net[k].down[i].to # c
        /\ \A k \in Conns : hdl[k].pc \in HoldingPCs => hdl[k].msg.to # c
    BY <1>0, <1>1, NoMessageTo DEF Chans
  <1>6. /\ Refused' <=> Refused
        /\ \A d \in Calls \ {c} : AfterRefusal(d)' <=> AfterRefusal(d)
        /\ ~AfterRefusal(c)
    BY <1>1, <1>2, <1>3 DEF Refused, AfterRefusal
  <1>7. SingleInv'
    BY <1>0, <1>2, <1>3 DEF SingleInv, InFlight
  <1>8. FreshInv' /\ HeldInv' /\ PushInv'
    BY <1>0, <1>1, <1>2, <1>3 DEF FreshInv, HeldInv, PushInv
  <1>9. RequestInv' /\ RequestsAwaited'
    <2>1. \A k \in Conns : \A i \in DOMAIN net[k].up :
              net[k].up[i].last /\ net[k].up[i].from \in Calls => net[k].up[i].from # c
      BY <1>0, <1>1 DEF RequestInv, BeforePCs
    <2>2. RequestInv'
      BY <1>0, <1>1, <1>3, <2>1 DEF RequestInv
    <2>3. RequestsAwaited'
      BY <1>0, <1>1, <1>3, <1>6, <2>1 DEF RequestsAwaited, Tracked
    <2> QED BY <2>2, <2>3
  <1>10. TruthInv' /\ UniqueInv'
    <2>1. ASSUME NEW p \in Places, NEW i \in DOMAIN flow[p]
          PROVE  /\ verdict'[flow[p][i].to] = verdict[flow[p][i].to]
                 /\ flow[p][i].to \in Calls =>
                        call'[flow[p][i].to].op = call[flow[p][i].to].op
                 /\ Truthful(flow[p][i])
      BY <1>0, <1>1, <1>3, <1>5 DEF TruthInv
    <2>2. TruthInv'
      BY <1>4, <2>1 DEF TruthInv, Truthful
    <2> QED BY <1>0, <1>4, <2>2 DEF UniqueInv
  <1>11. OrderInv'
    <2>1. ASSUME NEW d \in Calls, d # c
          PROVE  BufOrder(d)' /\ \A k \in Conns : HdlOrder(d, k)' /\ DownOrder(d, k)'
      <3>1. BufOrder(d) /\ \A k \in Conns : HdlOrder(d, k) /\ DownOrder(d, k)
        BY <1>0 DEF OrderInv
      <3>2. call'[d] = call[d]
        BY <1>3, <2>1
      <3> QED BY <1>1, <3>1, <3>2 DEF BufOrder, HdlOrder, DownOrder, DataIn, DataHeld,
                                      DataAt, Second
    <2>2. BufOrder(c)' /\ \A k \in Conns : HdlOrder(c, k)' /\ DownOrder(c, k)'
      BY <1>1, <1>5 DEF BufOrder, HdlOrder, DownOrder, Second, HoldingPCs, Chans
    <2> QED BY <2>1, <2>2 DEF OrderInv
  <1>12. AnswersAwaited'
    BY <1>0, <1>3, <1>4, <1>5, <1>6 DEF AnswersAwaited, Tracked, Awaits
  <1>13. ChannelInv'
    <2>1. \A i \in DOMAIN buf[c] : FALSE
      BY <1>0, <1>5, <1>6 DEF ChannelInv, Chans
    <2>2. \A k \in Conns : ~(hdl[k].pc = "send" /\ hdl[k].chan = c)
      BY <1>0, <1>5, <1>6 DEF ChannelInv, HoldingPCs
    <2> QED BY <1>0, <1>1, <1>6, <2>1, <2>2 DEF ChannelInv
  <1>14. ReplyInv'
    <2>1. ASSUME NEW d \in Calls, d # c, ReplyOk(d)
          PROVE  ReplyOk(d)'
      BY <1>3, <2>1 DEF ReplyOk, Whole, Final, GaveUp
    <2>2. ReplyOk(c)'
      BY <1>2, ReplyEmpty DEF BeforePCs
    <2> QED BY <1>0, <1>6, <2>1, <2>2 DEF ReplyInv
  <1> QED BY <1>7, <1>8, <1>9, <1>10, <1>11, <1>12, <1>13, <1>14 DEF RInv, PendingInv

-----------------------------------------------------------------------------
(* The steps of a handler.                                                  *)

\* The message handler k holds, if any.
LEMMA HeldMessage ==
    ASSUME RInv, NEW k \in Conns, hdl[k].pc \in HoldingPCs
    PROVE  /\ Truthful(hdl[k].msg)
           /\ hdl[k].msg.to \in Calls /\ Tracked(hdl[k].msg.to) => Awaits(hdl[k].msg.to)
  <1>1. <<"hdl", k>> \in Places /\ <<"hdl", k>>[1] # "got"
    BY DEF Places, Conns
  <1>2. flow[<<"hdl", k>>] = <<hdl[k].msg>>
    BY FlowIs DEF Conns
  <1>3. 1 \in DOMAIN flow[<<"hdl", k>>] /\ flow[<<"hdl", k>>][1] = hdl[k].msg
    BY <1>2
  <1> QED BY <1>1, <1>3, RInvParts DEF TruthInv, AnswersAwaited

LEMMA RequestsStay ==
    ASSUME RInv, UNCHANGED <<call, verdict>>, SameUp
    PROVE  RequestInv' /\ RequestsAwaited'
  <1>1. RequestInv /\ RequestsAwaited
    BY RInvParts
  <1>2. RequestInv'
    BY <1>1 DEF RequestInv, SameUp
  <1>3. RequestsAwaited'
    BY <1>1 DEF RequestsAwaited, SameUp, Tracked, Refused
  <1> QED BY <1>2, <1>3

LEMMA HandlerKeeps ==
    ASSUME RInv, UNCHANGED <<call, verdict>>, RequestInv', RequestsAwaited',
           Carries(flow, flow'), Distinct(flow'), PushInv', OrderInv', ChannelInv'
    PROVE  RInv'
  <1>0. SingleInv /\ FreshInv /\ TruthInv /\ HeldInv /\ AnswersAwaited /\ ReplyInv
    BY RInvParts
  <1>1. SingleInv' /\ FreshInv' /\ HeldInv'
    BY <1>0 DEF SingleInv, FreshInv, HeldInv, InFlight
  <1>2. TruthInv'
    BY <1>0, TruthKept DEF SameOps
  <1>3. AnswersAwaited'
    <2> SUFFICES ASSUME NEW p \in Places, p[1] # "got", NEW i \in DOMAIN flow'[p],
                        flow'[p][i].to \in Calls, Tracked(flow[p][i].to)'
                 PROVE  Awaits(flow[p][i].to)'
      BY DEF AnswersAwaited
    <2>1. PICK s \in Places : \E j \in DOMAIN flow[s] :
                  flow[s][j] = flow'[p][i] /\ s[1] # "got"
      BY DEF Carries
    <2>2. PICK j \in DOMAIN flow[s] : flow[s][j] = flow'[p][i] /\ s[1] # "got"
      BY <2>1
    <2>3. Tracked(flow[s][j].to)
      BY <2>2 DEF Tracked, Refused
    <2>4. Awaits(flow[s][j].to)
      BY <1>0, <2>2, <2>3 DEF AnswersAwaited
    <2> QED BY <2>2, <2>4 DEF Awaits
  <1>4. ReplyInv'
    <2>1. ASSUME NEW d \in Calls, ReplyOk(d)
          PROVE  ReplyOk(d)'
      BY <2>1 DEF ReplyOk, Whole, Final, GaveUp
    <2> QED BY <1>0, <2>1 DEF ReplyInv, AfterRefusal
  <1> QED BY <1>1, <1>2, <1>3, <1>4 DEF RInv, PendingInv, UniqueInv

\* The order of an answer, when the channels and the connections stay.
LEMMA OrderStays ==
    ASSUME OrderInv, NEW k \in Conns, OtherHdl(k), UNCHANGED <<call, buf>>,
           \A j \in Conns : net'[j].down = net[j].down,
           \A d \in Calls : chanMap'[call[d].op] = d => chanMap[call[d].op] = d,
           \A d \in Calls : HdlOrder(d, k)',
           \A d \in Calls : chanMap[call[d].op] = d /\ DataHeld(d, k)
                                => DataHeld(d, k)'
    PROVE  OrderInv'
  <1> SUFFICES ASSUME NEW d \in Calls
               PROVE  BufOrder(d)' /\ \A j \in Conns : HdlOrder(d, j)' /\ DownOrder(d, j)'
    BY DEF OrderInv
  <1>1. BufOrder(d) /\ \A j \in Conns : HdlOrder(d, j) /\ DownOrder(d, j)
    BY DEF OrderInv
  <1>2. BufOrder(d)' /\ (DataIn(d) <=> DataIn(d)')
    BY <1>1 DEF BufOrder, DataIn, DataAt, Second
  <1>3. ASSUME NEW j \in Conns
        PROVE  HdlOrder(d, j)'
    <2>1. CASE j = k
      BY <2>1
    <2>2. CASE j # k
      BY <1>1, <1>2, <2>2 DEF HdlOrder, Second, OtherHdl
    <2> QED BY <2>1, <2>2
  <1>4. ASSUME NEW j \in Conns
        PROVE  DownOrder(d, j)'
    <2>1. chanMap'[call[d].op] = d /\ DataHeld(d, j) => DataHeld(d, j)'
      <3>1. CASE j = k
        BY <3>1
      <3>2. CASE j # k
        BY <3>2 DEF DataHeld, OtherHdl
      <3> QED BY <3>1, <3>2
    <2> QED BY <1>1, <1>2, <2>1 DEF DownOrder, DataAt, Second
  <1> QED BY <1>2, <1>3, <1>4

LEMMA HTopReply ==
    ASSUME IInv, RInv, NEW k \in Conns, HTop(k) \/ HExit(k)
    PROVE  RInv'
  <1>1. /\ hdl[k].pc \notin HoldingPCs
        /\ UNCHANGED <<call, net, chanMap, buf, verdict>>
    BY DEF HTop, HExit, HandlerUnchanged, HoldingPCs
  <1>2. CASE UNCHANGED hdl
    BY <1>1, <1>2, StutterReply
  <1>3. CASE ~UNCHANGED hdl
    <2>1. hdl'[k].pc \in {"read", "exited"} /\ OtherHdl(k)
      <3>1. hdl \in [Conns -> HdlType]
        BY DEF IInv, TypeOK
      <3>2. CASE HTop(k)
        <4>1. hdl' = [hdl EXCEPT ![k].pc = "read", ![k].conn = conn]
          BY <1>3, <3>2 DEF HTop
        <4> QED BY <3>1, <4>1 DEF HdlType, OtherHdl
      <3>3. CASE HExit(k)
        BY <3>1, <3>3 DEF HExit, HdlType, OtherHdl
      <3> QED BY <3>2, <3>3
    <2>2. \A j \in Conns : j # k => hdl'[j] = hdl[j]
      BY <2>1 DEF OtherHdl
    <2>3. flow' = flow /\ flow \in Flows
      <3>1. \A j \in Calls :
                \/ hdl'[j].pc \in HoldingPCs /\ hdl[j].pc \in HoldingPCs
                   /\ hdl'[j].msg = hdl[j].msg
                \/ hdl'[j].pc \notin HoldingPCs /\ hdl[j].pc \notin HoldingPCs
        BY <1>1, <2>1, <2>2 DEF HoldingPCs, Conns
      <3> QED BY <1>1, <3>1, FlowSame, FlowTyped
    <2>4. PushInv' /\ ChannelInv'
      BY <1>1, <2>1, <2>2, RInvParts DEF PushInv, ChannelInv, AfterRefusal
    <2>5. OrderInv'
      <3>1. \A d \in Calls : HdlOrder(d, k)' /\ ~DataHeld(d, k)
        BY <1>1, <2>1 DEF HdlOrder, DataHeld, HoldingPCs
      <3> QED BY <1>1, <2>1, <3>1, RInvParts, OrderStays
    <2>6. RequestInv' /\ RequestsAwaited'
      BY <1>1, RequestsStay DEF SameUp
    <2> QED BY <1>1, <2>3, <2>4, <2>5, <2>6, RInvParts, SameCarries, HandlerKeeps
            DEF UniqueInv
  <1> QED BY <1>2, <1>3

LEMMA HReadReply ==
    ASSUME IInv, IInv', RInv, NEW k \in Conns, HRead(k)
    PROVE  RInv'
  <1> DEFINE m == Head(net[k].down)
             a == <<"down", k>>
             b == <<"hdl", k>>
  <1>1. /\ hdl[k].pc = "read" /\ hdl[k].conn = k /\ net[k].down # <<>>
        /\ net \in [Conns -> NetType] /\ hdl \in [Conns -> HdlType]
        /\ net[k].down \in Seq(DownMsg)
        /\ UNCHANGED <<call, chanMap, buf, verdict>>
    BY DEF HRead, IInv, TypeOK, ReaderInv, HandlerUnchanged, NetType
  <1>2. /\ m = net[k].down[1] /\ m \in DownMsg /\ 1 \in DOMAIN net[k].down
        /\ Len(Tail(net[k].down)) = Len(net[k].down) - 1
        /\ \A i \in DOMAIN Tail(net[k].down) :
               /\ i + 1 \in DOMAIN net[k].down
               /\ Tail(net[k].down)[i] = net[k].down[i + 1]
    BY <1>1, TailAt
  <1>3. /\ hdl' = [hdl EXCEPT ![k].pc = "got", ![k].msg = m]
        /\ net' = [net EXCEPT ![k].down = Tail(net[k].down)]
    BY <1>1 DEF HRead
  <1> HIDE DEF m
  <1>4. /\ OtherHdl(k) /\ hdl'[k].pc = "got" /\ hdl'[k].msg = m
        /\ net'[k].down = Tail(net[k].down) /\ net'[k].up = net[k].up
        /\ \A j \in Conns \ {k} : net'[j] = net[j]
    BY <1>1, <1>3 DEF HdlType, NetType, OtherHdl
  <1>5. \A j \in Conns : j # k => hdl'[j] = hdl[j]
    BY <1>4 DEF OtherHdl
  <1>6. a \in Places /\ b \in Places /\ a[1] # "got"
    BY DEF Places, Conns
  <1>7. Moved(flow, flow', a, b)
    <2>1. /\ flow[a] = net[k].down /\ flow'[a] = Tail(net[k].down)
          /\ flow[b] = <<>> /\ flow'[b] = <<m>>
      BY <1>1, <1>4, FlowIs DEF HoldingPCs, Conns
    <2>2. ASSUME NEW p \in Places \ {a, b}
          PROVE  flow'[p] = flow[p]
      <3>1. ASSUME NEW j \in Calls, p = <<"down", j>>
            PROVE  flow'[p] = flow[p]
        BY <1>4, <2>2, <3>1, FlowIs, ZenonT(40) DEF Conns
      <3>2. ASSUME NEW j \in Calls, p = <<"hdl", j>>
            PROVE  flow'[p] = flow[p]
        BY <1>5, <2>2, <3>2, FlowIs, ZenonT(40) DEF Conns
      <3>3. ASSUME NEW j \in Calls, p = <<"got", j>>
            PROVE  flow'[p] = flow[p]
        BY <1>1, <3>3, FlowIs
      <3>4. ASSUME NEW h \in Chans, p = <<"buf", h>>
            PROVE  flow'[p] = flow[p]
        BY <1>1, <3>4, FlowIs
      <3> QED BY <3>1, <3>2, <3>3, <3>4, PlacesAre
    <2>3. <<m>> = Append(<<>>, m)
      OBVIOUS
    <2> QED BY <1>1, <2>1, <2>2, <2>3 DEF Moved, m
  <1>8. Carries(flow, flow') /\ Distinct(flow')
    BY <1>6, <1>7, FlowTyped, MovedCarries, MovedDistinct, RInvParts DEF UniqueInv
  <1>9. PushInv' /\ ChannelInv'
    BY <1>1, <1>4, <1>5, RInvParts DEF PushInv, ChannelInv, AfterRefusal
  <1>10. RequestInv' /\ RequestsAwaited'
    BY <1>1, <1>4, RequestsStay DEF SameUp
  <1>11. OrderInv'
    <2> SUFFICES ASSUME NEW d \in Calls
                 PROVE  BufOrder(d)' /\ \A j \in Conns : HdlOrder(d, j)' /\ DownOrder(d, j)'
      BY DEF OrderInv
    <2>1. BufOrder(d) /\ \A j \in Conns : HdlOrder(d, j) /\ DownOrder(d, j)
      BY RInvParts DEF OrderInv
    <2>2. BufOrder(d)' /\ (DataIn(d) <=> DataIn(d)')
      BY <1>1, <2>1 DEF BufOrder, DataIn, DataAt, Second
    <2>3. ASSUME NEW j \in Conns, j # k
          PROVE  HdlOrder(d, j)' /\ DownOrder(d, j)'
      BY <1>1, <1>4, <1>5, <2>1, <2>2, <2>3
         DEF HdlOrder, DownOrder, DataHeld, DataAt, Second
    <2>4. ~DataHeld(d, k)
      BY <1>1 DEF DataHeld
    <2>5. HdlOrder(d, k)'
      BY <1>1, <1>2, <1>4, <2>1, <2>2, <2>4 DEF HdlOrder, DownOrder, Second
    <2>6. DownOrder(d, k)'
      <3> DEFINE old == net[k].down
      <3> SUFFICES ASSUME chanMap[call[d].op] = d,
                          NEW j \in DOMAIN Tail(old), Second(d, Tail(old)[j])
                   PROVE  \/ DataIn(d)' \/ DataHeld(d, k)'
                          \/ \E i \in 1..(j - 1) : DataAt(d, Tail(old), i)
        BY <1>1, <1>4 DEF DownOrder, Second, DataAt
      <3>1. j + 1 \in DOMAIN old /\ Second(d, old[j + 1]) /\ j \in Nat
        BY <1>1, <1>2
      <3>2. DataIn(d) \/ \E i \in 1..(j + 1 - 1) : DataAt(d, old, i)
        BY <2>1, <2>4, <3>1 DEF DownOrder
      <3>3. ASSUME NEW i \in 1..(j + 1 - 1), DataAt(d, old, i)
            PROVE  \/ DataHeld(d, k)'
                   \/ \E n \in 1..(j - 1) : DataAt(d, Tail(old), n)
        <4>1. CASE i = 1
          BY <1>2, <1>4, <3>3, <4>1 DEF DataAt, DataHeld
        <4>2. CASE i # 1
          <5>1. i - 1 \in 1..(j - 1) /\ i - 1 \in DOMAIN Tail(old) /\ (i - 1) + 1 = i
            BY <1>1, <3>1, <4>2, TailAt
          <5>2. Tail(old)[i - 1] = old[i]
            BY <1>2, <5>1
          <5> QED BY <3>3, <5>1, <5>2 DEF DataAt
        <4> QED BY <4>1, <4>2
      <3> QED BY <2>2, <3>2, <3>3
    <2> QED BY <2>2, <2>3, <2>5, <2>6
  <1> QED BY <1>1, <1>8, <1>9, <1>10, <1>11, HandlerKeeps

\* A handler that lets go of its message.
LEMMA HdlDropped ==
    ASSUME NEW k \in Conns, OtherHdl(k), hdl'[k].pc = "top",
           UNCHANGED <<call, buf>>, \A j \in Conns : net'[j].down = net[j].down
    PROVE  Dropped(flow, flow', <<"hdl", k>>) /\ <<"hdl", k>> \in Places
  <1>1. flow'[<<"hdl", k>>] = <<>> /\ <<"hdl", k>> \in Places
    BY FlowIs DEF HoldingPCs, Places, Conns
  <1>2. ASSUME NEW p \in Places \ {<<"hdl", k>>}
        PROVE  flow'[p] = flow[p]
    <2>1. ASSUME NEW j \in Calls, p = <<"down", j>> \/ p = <<"got", j>>
          PROVE  flow'[p] = flow[p]
      <3>1. net'[j].down = net[j].down
        BY DEF Conns
      <3>2. flow'[<<"down", j>>] = flow[<<"down", j>>]
        BY <3>1, FlowIs, Zenon
      <3>3. flow'[<<"got", j>>] = flow[<<"got", j>>]
        BY FlowIs, Zenon
      <3> QED BY <2>1, <3>2, <3>3
    <2>2. ASSUME NEW j \in Calls, p = <<"hdl", j>>
          PROVE  flow'[p] = flow[p]
      <3>1. j # k
        BY <1>2, <2>2
      <3>2. hdl'[j] = hdl[j]
        BY <3>1 DEF OtherHdl, Conns
      <3>3. flow'[<<"hdl", j>>] = flow[<<"hdl", j>>]
        BY <3>2, FlowIs, Zenon
      <3> QED BY <2>2, <3>3
    <2>3. ASSUME NEW h \in Chans, p = <<"buf", h>>
          PROVE  flow'[p] = flow[p]
      BY <2>3, FlowIs
    <2> QED BY <2>1, <2>2, <2>3, PlacesAre
  <1> QED BY <1>1, <1>2 DEF Dropped

\* The channel under which a message is found is that of the call it answers,
\* or of one that reads what a refused call left.
LEMMA RoutedTo ==
    ASSUME IInv, RInv, NEW k \in Conns, hdl[k].pc = "got",
           chanMap[hdl[k].msg.cmd] # Nil
    PROVE  LET h == chanMap[hdl[k].msg.cmd]
           IN  h \in Calls /\ (AfterRefusal(h) \/ hdl[k].msg.to = h)
  <1> DEFINE m == hdl[k].msg
             h == chanMap[m.cmd]
  <1>1. m \in DownMsg /\ m.cmd \in Commands /\ h \in Chans
    BY DEF IInv, TypeOK, LocalsInv, DownMsg
  <1>2. Truthful(m) /\ (m.to \in Calls /\ Tracked(m.to) => Awaits(m.to))
    BY HeldMessage DEF HoldingPCs
  <1>3. ASSUME NEW j \in Conns, hdl[j].pc \in {"pubwrite", "pubdelete"}
        PROVE  FALSE
    <2>1. conn = j /\ conn = k
      BY <1>3 DEF IInv, ReaderInv
    <2> QED BY <1>3, <2>1
  <1>4. h \in Calls /\ InFlight(h) /\ call[h].op = m.cmd
    BY <1>1, <1>3 DEF IInv, OwnerInv, InFlight
  <1>5. call[h].op \in Operations
    BY <1>4 DEF IInv, TypeOK, CallType
  <1>6. m.to \in Calls /\ call[m.to].op = m.cmd
    BY <1>1, <1>2, <1>4, <1>5 DEF Truthful, Operations, DownMsg, Chans
  <1>7. CASE Tracked(m.to)
    <2>1. InFlight(m.to)
      BY <1>2, <1>6, <1>7 DEF Awaits, WaitPCs, InFlight
    <2> QED BY <1>4, <1>6, <2>1, RInvParts DEF SingleInv
  <1>8. CASE ~Tracked(m.to)
    <2>1. call[h].op = "RPUB" /\ Refused
      BY <1>4, <1>6, <1>8 DEF Tracked
    <2> QED BY <1>4, <2>1 DEF Refused, AfterRefusal, InFlight
  <1> QED BY <1>7, <1>8, <1>4

LEMMA HDispatchReply ==
    ASSUME IInv, IInv', RInv, NEW k \in Conns, HDispatch(k)
    PROVE  RInv'
  <1> DEFINE m == hdl[k].msg
             h == chanMap[m.cmd]
  <1>1. /\ hdl[k].pc = "got" /\ hdl[k].pc \in HoldingPCs
        /\ hdl \in [Conns -> HdlType] /\ m \in DownMsg
        /\ UNCHANGED <<call, net, chanMap, buf, verdict>>
    BY DEF HDispatch, IInv, TypeOK, LocalsInv, HandlerUnchanged, HoldingPCs
  <1>2. Truthful(m)
    BY <1>1, HeldMessage
  <1>3. RequestInv' /\ RequestsAwaited'
    BY <1>1, RequestsStay DEF SameUp
  <1>4. ASSUME OtherHdl(k), hdl'[k].pc \in HoldingPCs, hdl'[k].msg = m
        PROVE  flow' = flow /\ Carries(flow, flow') /\ Distinct(flow')
    <2>1. \A j \in Calls :
              \/ hdl'[j].pc \in HoldingPCs /\ hdl[j].pc \in HoldingPCs
                 /\ hdl'[j].msg = hdl[j].msg
              \/ hdl'[j].pc \notin HoldingPCs /\ hdl[j].pc \notin HoldingPCs
      BY <1>1, <1>4 DEF OtherHdl, Conns
    <2>2. flow' = flow
      BY <1>1, <2>1, FlowSame
    <2> QED BY <2>2, FlowTyped, SameCarries, RInvParts DEF UniqueInv
  <1>5. \A d \in Calls : m.to = d => m.cmd = call[d].op
    BY <1>2 DEF Truthful
  <1>6. CASE h # Nil
    <2>0. h \in Calls /\ (AfterRefusal(h) \/ m.to = h)
      BY <1>1, <1>6, RoutedTo
    <2>1. hdl' = [hdl EXCEPT ![k].pc = "send", ![k].chan = h]
      BY <1>6 DEF HDispatch
    <2> HIDE DEF h
    <2>2. /\ OtherHdl(k) /\ hdl'[k].pc = "send" /\ hdl'[k].chan = h
          /\ hdl'[k].msg = m /\ hdl'[k].pc \in HoldingPCs
      BY <1>1, <2>1 DEF HdlType, OtherHdl, HoldingPCs
    <2>3. \A j \in Conns : j # k => hdl'[j] = hdl[j]
      BY <2>2 DEF OtherHdl
    <2>4. PushInv'
      BY <1>1, <2>0, <2>2, <2>3, RInvParts DEF PushInv
    <2>5. ChannelInv'
      <3>1. \A d \in Calls : AfterRefusal(d)' <=> AfterRefusal(d)
        BY <1>1 DEF AfterRefusal
      <3> QED BY <1>1, <2>0, <2>2, <2>3, <3>1, RInvParts DEF ChannelInv
    <2>6. ASSUME NEW d \in Calls
          PROVE  /\ HdlOrder(d, k)'
                 /\ chanMap[call[d].op] = d /\ DataHeld(d, k) => DataHeld(d, k)'
      <3>1. HdlOrder(d, k)
        BY RInvParts DEF OrderInv
      <3>2. DataIn(d) <=> DataIn(d)'
        BY <1>1 DEF DataIn, DataAt
      <3>3. m.to = d => h = chanMap[call[d].op]
        BY <1>5 DEF h
      <3>4. HdlOrder(d, k)'
        BY <1>1, <2>2, <3>1, <3>2, <3>3 DEF HdlOrder, Second
      <3>5. chanMap[call[d].op] = d /\ DataHeld(d, k) => DataHeld(d, k)'
        BY <1>1, <2>2, <3>3 DEF DataHeld
      <3> QED BY <3>4, <3>5
    <2>7. OrderInv'
      BY <1>1, <2>2, <2>6, RInvParts, OrderStays
    <2>8. Carries(flow, flow') /\ Distinct(flow')
      BY <1>4, <2>2
    <2> QED BY <1>1, <1>3, <2>4, <2>5, <2>7, <2>8, HandlerKeeps
  <1>7. CASE h = Nil /\ m.cmd = "GPUB"
    <2>1. hdl' = [hdl EXCEPT ![k].pc = "pubmake"]
      BY <1>7 DEF HDispatch
    <2>2. /\ OtherHdl(k) /\ hdl'[k].pc = "pubmake"
          /\ hdl'[k].msg = m /\ hdl'[k].pc \in HoldingPCs
      BY <1>1, <2>1 DEF HdlType, OtherHdl, HoldingPCs
    <2>3. \A j \in Conns : j # k => hdl'[j] = hdl[j]
      BY <2>2 DEF OtherHdl
    <2>4. PushInv' /\ ChannelInv'
      BY <1>1, <1>7, <2>2, <2>3, RInvParts DEF PushInv, ChannelInv, AfterRefusal
    <2>5. ~IsData(m)
      BY <1>2, <1>7, ClientAssumption DEF Truthful
    <2>6. \A d \in Calls : HdlOrder(d, k)' /\ ~DataHeld(d, k)
      BY <2>2, <2>5 DEF HdlOrder, DataHeld
    <2>7. OrderInv'
      BY <1>1, <2>2, <2>6, RInvParts, OrderStays
    <2>8. Carries(flow, flow') /\ Distinct(flow')
      BY <1>4, <2>2
    <2> QED BY <1>1, <1>3, <2>4, <2>7, <2>8, HandlerKeeps
  <1>8. CASE h = Nil /\ m.cmd # "GPUB"
    <2>1. hdl' = [hdl EXCEPT ![k].pc = "top", ![k].msg = Nil]
      BY <1>8 DEF HDispatch
    <2>2. OtherHdl(k) /\ hdl'[k].pc = "top"
      BY <1>1, <2>1 DEF HdlType, OtherHdl
    <2>3. \A j \in Conns : j # k => hdl'[j] = hdl[j]
      BY <2>2 DEF OtherHdl
    <2>4. PushInv' /\ ChannelInv'
      BY <1>1, <2>2, <2>3, RInvParts DEF PushInv, ChannelInv, AfterRefusal
    <2>5. ASSUME NEW d \in Calls
          PROVE  HdlOrder(d, k)' /\ ~(chanMap[call[d].op] = d /\ DataHeld(d, k))
      <3>1. m.to = d /\ chanMap[call[d].op] = d => h = d
        BY <1>5
      <3> QED BY <1>1, <1>8, <2>2, <3>1, ClientAssumption DEF HdlOrder, DataHeld
    <2>6. OrderInv'
      BY <1>1, <2>2, <2>5, RInvParts, OrderStays
    <2>7. Dropped(flow, flow', <<"hdl", k>>) /\ <<"hdl", k>> \in Places
      BY <1>1, <2>2, HdlDropped
    <2>8. Carries(flow, flow') /\ Distinct(flow')
      BY <2>7, FlowTyped, DroppedKeeps, RInvParts DEF UniqueInv
    <2> QED BY <1>1, <1>3, <2>4, <2>6, <2>8, HandlerKeeps
  <1> QED BY <1>6, <1>7, <1>8

LEMMA HSendReply ==
    ASSUME IInv, IInv', RInv, NEW k \in Conns, HSend(k)
    PROVE  RInv'
  <1> DEFINE m == hdl[k].msg
             h == hdl[k].chan
             a == <<"hdl", k>>
             b == <<"buf", h>>
  <1>1. /\ hdl[k].pc = "send" /\ hdl[k].pc \in HoldingPCs
        /\ hdl \in [Conns -> HdlType] /\ m \in DownMsg
        /\ buf \in [Chans -> Seq(DownMsg)]
        /\ UNCHANGED <<call, net, chanMap, verdict>>
    BY DEF HSend, IInv, TypeOK, LocalsInv, HandlerUnchanged, HoldingPCs
  <1>2. h \in Calls /\ h \in Chans /\ buf[h] \in Seq(DownMsg)
    BY <1>1, RInvParts DEF PushInv, Chans
  <1>3. /\ hdl' = [hdl EXCEPT ![k].pc = "top", ![k].msg = Nil, ![k].chan = Nil]
        /\ buf' = [buf EXCEPT ![h] = Append(buf[h], m)]
    BY <1>1, <1>2 DEF HSend
  <1>4. /\ OtherHdl(k) /\ hdl'[k].pc = "top"
        /\ \A g \in Chans : buf'[g] = IF g = h THEN Append(buf[h], m) ELSE buf[g]
    BY <1>1, <1>2, <1>3 DEF HdlType, OtherHdl
  <1>5. \A j \in Conns : j # k => hdl'[j] = hdl[j]
    BY <1>4 DEF OtherHdl
  <1>6. /\ Len(Append(buf[h], m)) = Len(buf[h]) + 1 /\ Len(buf[h]) \in Nat
        /\ \A i \in DOMAIN buf[h] :
               i \in DOMAIN Append(buf[h], m) /\ Append(buf[h], m)[i] = buf[h][i]
        /\ Len(buf[h]) + 1 \in DOMAIN Append(buf[h], m)
        /\ Append(buf[h], m)[Len(buf[h]) + 1] = m
        /\ \A i \in DOMAIN Append(buf[h], m) :
               \/ i \in DOMAIN buf[h] /\ i <= Len(buf[h])
                  /\ Append(buf[h], m)[i] = buf[h][i]
               \/ i = Len(buf[h]) + 1 /\ Append(buf[h], m)[i] = m
    <2> HIDE DEF m, h
    <2> QED BY <1>1, <1>2, AppendAt, AppendProperties
  <1> HIDE DEF m, h
  <1>7. a \in Places /\ b \in Places /\ a[1] # "got"
    BY <1>2 DEF Places, Conns
  <1>8. Moved(flow, flow', a, b)
    <2>1. /\ flow[a] = <<m>> /\ flow'[a] = <<>>
          /\ flow[b] = buf[h] /\ flow'[b] = Append(buf[h], m)
      BY <1>1, <1>2, <1>4, FlowIs DEF HoldingPCs, Conns, m
    <2>2. ASSUME NEW p \in Places \ {a, b}
          PROVE  flow'[p] = flow[p]
      <3>1. ASSUME NEW j \in Calls, p = <<"down", j>> \/ p = <<"got", j>>
            PROVE  flow'[p] = flow[p]
        <4>1. net'[j] = net[j] /\ call'[j] = call[j]
          BY <1>1
        <4>2. /\ flow'[<<"down", j>>] = flow[<<"down", j>>]
              /\ flow'[<<"got", j>>] = flow[<<"got", j>>]
          BY <4>1, FlowIs
        <4> QED BY <3>1, <4>2
      <3>2. ASSUME NEW j \in Calls, p = <<"hdl", j>>
            PROVE  flow'[p] = flow[p]
        BY <1>5, <2>2, <3>2, FlowIs, ZenonT(40) DEF Conns
      <3>3. ASSUME NEW g \in Chans, p = <<"buf", g>>
            PROVE  flow'[p] = flow[p]
        BY <1>4, <2>2, <3>3, FlowIs
      <3> QED BY <3>1, <3>2, <3>3, PlacesAre
    <2>3. Head(<<m>>) = m /\ Tail(<<m>>) = <<>> /\ <<m>> # <<>>
      OBVIOUS
    <2> QED BY <2>1, <2>2, <2>3 DEF Moved
  <1>9. Carries(flow, flow') /\ Distinct(flow')
    BY <1>7, <1>8, FlowTyped, MovedCarries, MovedDistinct, RInvParts DEF UniqueInv
  <1>10. RequestInv' /\ RequestsAwaited'
    BY <1>1, RequestsStay DEF SameUp
  <1>11. PushInv'
    BY <1>2, <1>4, <1>5, RInvParts, ClientAssumption DEF PushInv, Chans
  <1>12. ChannelInv'
    <2> SUFFICES ASSUME NEW g \in Calls, ~AfterRefusal(g)
                 PROVE  /\ \A i \in DOMAIN buf'[g] : buf'[g][i].to = g
                        /\ \A j \in Conns :
                               hdl'[j].pc = "send" /\ hdl'[j].chan = g
                                   => hdl'[j].msg.to = g
      BY <1>1 DEF ChannelInv, AfterRefusal
    <2>1. /\ \A i \in DOMAIN buf[g] : buf[g][i].to = g
          /\ \A j \in Conns :
                 hdl[j].pc = "send" /\ hdl[j].chan = g => hdl[j].msg.to = g
      BY RInvParts DEF ChannelInv
    <2>2. g = h => m.to = g
      BY <1>1, <2>1 DEF m, h
    <2>3. \A i \in DOMAIN buf'[g] : buf'[g][i].to = g
      BY <1>4, <1>6, <2>1, <2>2 DEF Chans
    <2> QED BY <1>4, <1>5, <2>1, <2>3
  <1>13. OrderInv'
    <2> SUFFICES ASSUME NEW d \in Calls
                 PROVE  BufOrder(d)' /\ \A j \in Conns : HdlOrder(d, j)' /\ DownOrder(d, j)'
      BY DEF OrderInv
    <2>1. BufOrder(d) /\ \A j \in Conns : HdlOrder(d, j) /\ DownOrder(d, j)
      BY RInvParts DEF OrderInv
    <2>2. buf'[d] = IF d = h THEN Append(buf[h], m) ELSE buf[d]
      BY <1>4 DEF Chans
    <2>3. DataIn(d) \/ DataHeld(d, k) => DataIn(d)'
      <3>1. DataIn(d) => DataIn(d)'
        BY <1>1, <1>6, <2>2 DEF DataIn, DataAt
      <3>2. DataHeld(d, k) => DataIn(d)'
        BY <1>1, <1>6, <2>2 DEF DataIn, DataAt, DataHeld, m, h
      <3> QED BY <3>1, <3>2
    <2>4. BufOrder(d)'
      <3>1. CASE d # h
        BY <1>1, <2>1, <2>2, <3>1 DEF BufOrder, Second, DataAt
      <3>2. CASE d = h
        <4> DEFINE new == Append(buf[h], m)
        <4> SUFFICES ASSUME NEW j \in DOMAIN new, Second(d, new[j]),
                            call[d].got = <<>>
                     PROVE  \E i \in 1..(j - 1) : DataAt(d, new, i)
          BY <1>1, <2>2, <3>2 DEF BufOrder, Second, DataAt
        <4>1. CASE j \in DOMAIN buf[h] /\ new[j] = buf[h][j]
          <5>1. PICK i \in 1..(j - 1) : DataAt(d, buf[h], i)
            BY <2>1, <3>2, <4>1 DEF BufOrder
          <5>2. i \in DOMAIN buf[h]
            BY <1>2, <4>1, <5>1, LenProperties
          <5> QED BY <1>6, <5>1, <5>2 DEF DataAt
        <4>2. CASE j = Len(buf[h]) + 1 /\ new[j] = m
          <5>1. DataIn(d)
            BY <1>1, <2>1, <3>2, <4>2 DEF HdlOrder, m, h
          <5>2. PICK i \in DOMAIN buf[h] : DataAt(d, buf[h], i)
            BY <3>2, <5>1 DEF DataIn
          <5>3. i \in 1..(j - 1)
            BY <1>2, <4>2, <5>2, LenProperties
          <5> QED BY <1>6, <5>2, <5>3 DEF DataAt
        <4> QED BY <1>6, <4>1, <4>2
      <3> QED BY <3>1, <3>2
    <2>5. ASSUME NEW j \in Conns
          PROVE  HdlOrder(d, j)' /\ DownOrder(d, j)'
      <3>1. HdlOrder(d, j)'
        BY <1>1, <1>4, <1>5, <2>1, <2>3 DEF HdlOrder, Second
      <3>2. DataHeld(d, j) => DataHeld(d, j)' \/ DataIn(d)'
        BY <1>5, <2>3 DEF DataHeld
      <3>3. DownOrder(d, j)'
        BY <1>1, <2>1, <2>3, <3>2 DEF DownOrder, Second, DataAt
      <3> QED BY <3>1, <3>3
    <2> QED BY <2>4, <2>5
  <1> QED BY <1>1, <1>9, <1>10, <1>11, <1>12, <1>13, HandlerKeeps

\* A public key under way is no request: the server answers none.
LEMMA PubSent ==
    ASSUME IInv, RInv, NEW k \in Conns, NEW u \in UpMsg, Sent(k, u),
           u.from \in PubReqs, UNCHANGED <<call, verdict>>
    PROVE  RequestInv' /\ RequestsAwaited'
  <1>1. \A j \in Conns : \A i \in DOMAIN net'[j].up :
            \/ i \in DOMAIN net[j].up /\ net'[j].up[i] = net[j].up[i]
            \/ net'[j].up[i].from \notin Calls
    BY SentAt, ClientAssumption DEF IInv
  <1>2. RequestInv /\ RequestsAwaited
    BY RInvParts
  <1>3. RequestInv'
    BY <1>1, <1>2 DEF RequestInv
  <1>4. RequestsAwaited'
    BY <1>1, <1>2 DEF RequestsAwaited, Tracked, Refused
  <1> QED BY <1>3, <1>4

\* handleGetPubKey registers and deletes the channel of its request under the
\* command of DoGetAddCode: no call's entry comes of it.
LEMMA HPubReply ==
    ASSUME IInv, IInv', RInv, NEW k \in Conns,
           HPubMake(k) \/ HPubWrite(k) \/ HPubDelete(k)
    PROVE  RInv'
  <1> DEFINE m == hdl[k].msg
  <1>1. /\ hdl[k].pc \in {"pubmake", "pubwrite", "pubdelete"}
        /\ hdl[k].pc \in HoldingPCs /\ m.cmd = "GPUB"
        /\ hdl \in [Conns -> HdlType] /\ m \in DownMsg
        /\ chanMap \in [Commands -> Chans \cup {Nil}]
        /\ UNCHANGED <<call, buf, verdict>>
    BY RInvParts DEF HPubMake, HPubWrite, HPubDelete, IInv, TypeOK, LocalsInv,
                     HandlerUnchanged, HoldingPCs, PushInv
  <1>2. m.to \in PubReqs /\ m.to # Nil
    BY <1>1, HeldMessage, ClientAssumption DEF Truthful
  <1>3. CASE UNCHANGED <<hdl, net, chanMap>>
    BY <1>1, <1>3, StutterReply
  <1>4. CASE ~UNCHANGED <<hdl, net, chanMap>>
    <2>1. /\ OtherHdl(k)
          /\ \/ hdl'[k].pc \in {"pubwrite", "pubdelete"} /\ hdl'[k].msg = m
             \/ hdl'[k].pc = "top"
      <3>1. CASE HPubMake(k)
        BY <1>1, <3>1 DEF HPubMake, HdlType, OtherHdl
      <3>2. CASE HPubWrite(k)
        <4>1. hdl' = [hdl EXCEPT ![k].pc = "pubdelete"]
          BY <1>4, <3>2 DEF HPubWrite
        <4> QED BY <1>1, <4>1 DEF HdlType, OtherHdl
      <3>3. CASE HPubDelete(k)
        BY <1>1, <3>3 DEF HPubDelete, HdlType, OtherHdl
      <3> QED BY <3>1, <3>2, <3>3
    <2>2. \A j \in Conns : j # k => hdl'[j] = hdl[j]
      BY <2>1 DEF OtherHdl
    <2>3. /\ RequestInv' /\ RequestsAwaited'
          /\ \A j \in Conns : net'[j].down = net[j].down
      <3>1. CASE UNCHANGED net
        BY <1>1, <3>1, RequestsStay DEF SameUp
      <3>2. CASE ~UNCHANGED net
        <4> DEFINE u  == [cmd |-> PubKeyCommand, from |-> m.to, last |-> TRUE,
                          arg |-> Nil]
                   up == Append(net[conn].up, u)
        <4>1. conn = k /\ net \in [Conns -> NetType]
          BY <1>1 DEF IInv, ReaderInv, TypeOK
        <4>2. net' = [net EXCEPT ![k].up = up]
          BY <3>2, <4>1 DEF HPubMake, HPubWrite, HPubDelete
        <4>3. u \in UpMsg /\ u.from \in PubReqs
          BY <1>2 DEF UpMsg, PubKeyCommand, Operations, Chans
        <4> HIDE DEF up
        <4>4. /\ net'[k].up = up /\ net'[k].down = net[k].down
              /\ \A j \in Conns \ {k} : net'[j] = net[j]
          BY <4>1, <4>2 DEF NetType
        <4> HIDE DEF u
        <4>5. Sent(k, u)
          BY <4>1, <4>4 DEF Sent, up
        <4> QED BY <1>1, <4>3, <4>4, <4>5, PubSent
      <3> QED BY <3>1, <3>2
    <2>4. Carries(flow, flow') /\ Distinct(flow')
      <3>1. CASE hdl'[k].pc \in {"pubwrite", "pubdelete"} /\ hdl'[k].msg = m
        <4>1. \A j \in Calls :
                  \/ hdl'[j].pc \in HoldingPCs /\ hdl[j].pc \in HoldingPCs
                     /\ hdl'[j].msg = hdl[j].msg
                  \/ hdl'[j].pc \notin HoldingPCs /\ hdl[j].pc \notin HoldingPCs
          BY <1>1, <2>2, <3>1 DEF HoldingPCs, Conns
        <4>2. flow' = flow
          BY <1>1, <2>3, <4>1, FlowSame DEF Conns
        <4> QED BY <4>2, FlowTyped, SameCarries, RInvParts DEF UniqueInv
      <3>2. CASE hdl'[k].pc = "top"
        <4>1. Dropped(flow, flow', <<"hdl", k>>) /\ <<"hdl", k>> \in Places
          BY <1>1, <2>1, <2>3, <3>2, HdlDropped
        <4> QED BY <4>1, FlowTyped, DroppedKeeps, RInvParts DEF UniqueInv
      <3> QED BY <2>1, <3>1, <3>2
    <2>5. PushInv' /\ ChannelInv'
      BY <1>1, <2>1, <2>2, RInvParts DEF PushInv, ChannelInv, AfterRefusal
    <2>6. OrderInv'
      <3>1. \A d \in Calls : HdlOrder(d, k)' /\ ~DataHeld(d, k)
        BY <1>1, <2>1 DEF HdlOrder, DataHeld
      <3>2. \A d \in Calls : call[d].op \in Commands /\ d # m.to /\ d # Nil
        BY <1>2, ClientAssumption DEF IInv, TypeOK, CallType, Commands
      <3>3. \A d \in Calls : chanMap'[call[d].op] = d => chanMap[call[d].op] = d
        <4>1. \/ UNCHANGED chanMap
              \/ Register(PubKeyCommand, m.to) \/ Unregister(PubKeyCommand)
          BY DEF HPubMake, HPubWrite, HPubDelete
        <4> QED BY <1>1, <3>2, <4>1 DEF Register, Unregister
      <3> QED BY <1>1, <2>1, <2>3, <3>1, <3>3, RInvParts, OrderStays
    <2> QED BY <1>1, <2>3, <2>4, <2>5, <2>6, HandlerKeeps
  <1> QED BY <1>3, <1>4

-----------------------------------------------------------------------------
(* The server and the network.                                              *)

\* Requests may leave the head of a connection, or all of it.
LEMMA RequestsLeft ==
    ASSUME RInv, UNCHANGED call, NEW s \in [Conns -> {0, 1}],
           \A j \in Conns : \A i \in DOMAIN net'[j].up :
               i \in Nat /\ i + s[j] \in DOMAIN net[j].up
               /\ net'[j].up[i] = net[j].up[i + s[j]],
           \A j \in Conns : \A i \in DOMAIN net'[j].up :
               net'[j].up[i].last /\ net'[j].up[i].from \in Calls =>
                   verdict'[net'[j].up[i].from] = verdict[net'[j].up[i].from]
    PROVE  RequestInv' /\ RequestsAwaited'
  <1>1. RequestInv /\ RequestsAwaited
    BY RInvParts
  <1>2. RequestInv'
    <2> SUFFICES ASSUME NEW j \in Conns, NEW i \in DOMAIN net'[j].up,
                        net'[j].up[i].from \in Calls, net'[j].up[i].last
                 PROVE  /\ verdict'[net'[j].up[i].from] = "none"
                        /\ net'[j].up[i].cmd = call[net'[j].up[i].from].op
                        /\ call[net'[j].up[i].from].pc \notin BeforePCs
                        /\ \A l \in Conns : \A n \in DOMAIN net'[l].up :
                              /\ net'[l].up[n].from = net'[j].up[i].from
                              /\ net'[l].up[n].last
                              => l = j /\ n = i
      BY DEF RequestInv
    <2> DEFINE d == net'[j].up[i].from
    <2>1. i + s[j] \in DOMAIN net[j].up /\ net'[j].up[i] = net[j].up[i + s[j]] /\ i \in Nat
      OBVIOUS
    <2>2. /\ verdict[d] = "none" /\ net'[j].up[i].cmd = call[d].op
          /\ call[d].pc \notin BeforePCs
          /\ \A l \in Conns : \A n \in DOMAIN net[l].up :
                 net[l].up[n].from = d /\ net[l].up[n].last => l = j /\ n = i + s[j]
      BY <1>1, <2>1 DEF RequestInv
    <2>3. ASSUME NEW l \in Conns, NEW n \in DOMAIN net'[l].up,
                 net'[l].up[n].from = d, net'[l].up[n].last
          PROVE  l = j /\ n = i
      <3>1. n \in Nat /\ n + s[l] \in DOMAIN net[l].up
            /\ net'[l].up[n] = net[l].up[n + s[l]]
        BY <2>3
      <3>2. l = j /\ n + s[l] = i + s[j]
        BY <2>2, <2>3, <3>1
      <3>3. s[j] \in Nat
        OBVIOUS
      <3> QED BY <2>1, <3>1, <3>2, <3>3
    <2> QED BY <2>2, <2>3
  <1>3. RequestsAwaited'
    <2> SUFFICES ASSUME NEW j \in Conns, NEW i \in DOMAIN net'[j].up,
                        net'[j].up[i].last, net'[j].up[i].from \in Calls,
                        Tracked(net[j].up[i].from)'
                 PROVE  call[net'[j].up[i].from].pc \in WaitPCs
      BY DEF RequestsAwaited
    <2>1. i + s[j] \in DOMAIN net[j].up /\ net'[j].up[i] = net[j].up[i + s[j]]
      OBVIOUS
    <2>2. Tracked(net[j].up[i + s[j]].from)
      BY <2>1 DEF Tracked, Refused
    <2> QED BY <1>1, <2>1, <2>2 DEF RequestsAwaited
  <1> QED BY <1>2, <1>3

LEMMA LoseReply ==
    ASSUME IInv, IInv', RInv, NEW k \in Conns, Lose(k)
    PROVE  RInv'
  <1> DEFINE e == <<>>
             s == [j \in Conns |-> 0]
  <1>1. /\ UNCHANGED <<call, hdl, chanMap, buf, verdict>>
        /\ net \in [Conns -> NetType]
        /\ net' = [net EXCEPT ![k].link = "lost", ![k].up = e, ![k].down = e]
    BY DEF Lose, IInv, TypeOK
  <1>2. /\ net'[k].up = <<>> /\ net'[k].down = <<>>
        /\ \A j \in Conns : j # k => net'[j] = net[j]
    BY <1>1 DEF NetType
  <1>3. RequestInv' /\ RequestsAwaited'
    <2>1. s \in [Conns -> {0, 1}] /\ \A j \in Conns : s[j] = 0
      OBVIOUS
    <2>2. \A j \in Conns : net[j].up \in Seq(UpMsg)
      BY <1>1 DEF NetType
    <2>3. \A j \in Conns : \A i \in DOMAIN net'[j].up :
              j # k /\ i \in Nat /\ i \in DOMAIN net[j].up /\ net'[j].up[i] = net[j].up[i]
      BY <1>2, <2>2, LenProperties
    <2> HIDE DEF s
    <2>4. \A j \in Conns : \A i \in DOMAIN net'[j].up :
              i \in Nat /\ i + s[j] \in DOMAIN net[j].up
              /\ net'[j].up[i] = net[j].up[i + s[j]]
      BY <2>1, <2>3
    <2> QED BY <1>1, <2>1, <2>4, RequestsLeft
  <1>4. Carries(flow, flow') /\ Distinct(flow')
    <2>1. <<"down", k>> \in Places
      BY DEF Places, Conns
    <2>2. flow'[<<"down", k>>] = <<>>
      BY <1>2, FlowIs DEF Conns
    <2>3. ASSUME NEW p \in Places \ {<<"down", k>>}
          PROVE  flow'[p] = flow[p]
      <3>1. ASSUME NEW j \in Calls, p = <<"down", j>>
            PROVE  flow'[p] = flow[p]
        BY <1>2, <2>3, <3>1, FlowIs, ZenonT(40) DEF Conns
      <3>2. ASSUME NEW j \in Calls, p = <<"hdl", j>>
            PROVE  flow'[p] = flow[p]
        BY <1>1, <3>2, FlowIs
      <3>3. ASSUME NEW j \in Calls, p = <<"got", j>>
            PROVE  flow'[p] = flow[p]
        BY <1>1, <3>3, FlowIs
      <3>4. ASSUME NEW h \in Chans, p = <<"buf", h>>
            PROVE  flow'[p] = flow[p]
        BY <1>1, <3>4, FlowIs
      <3> QED BY <3>1, <3>2, <3>3, <3>4, PlacesAre
    <2>4. Dropped(flow, flow', <<"down", k>>)
      BY <2>2, <2>3 DEF Dropped
    <2> QED BY <2>1, <2>4, FlowTyped, DroppedKeeps, RInvParts DEF UniqueInv
  <1>5. PushInv' /\ ChannelInv'
    BY <1>1, RInvParts DEF PushInv, ChannelInv, AfterRefusal
  <1>6. OrderInv'
    <2> SUFFICES ASSUME NEW d \in Calls
                 PROVE  BufOrder(d)' /\ \A j \in Conns : HdlOrder(d, j)' /\ DownOrder(d, j)'
      BY DEF OrderInv
    <2>1. BufOrder(d) /\ \A j \in Conns : HdlOrder(d, j) /\ DownOrder(d, j)
      BY RInvParts DEF OrderInv
    <2>2. BufOrder(d)' /\ \A j \in Conns : HdlOrder(d, j)'
      BY <1>1, <2>1 DEF BufOrder, HdlOrder, DataIn, DataAt, Second
    <2>3. DownOrder(d, k)'
      BY <1>2 DEF DownOrder
    <2>4. ASSUME NEW j \in Conns, j # k
          PROVE  DownOrder(d, j)'
      BY <1>1, <1>2, <2>1, <2>4 DEF DownOrder, DataIn, DataHeld, DataAt, Second
    <2> QED BY <2>2, <2>3, <2>4
  <1> QED BY <1>1, <1>3, <1>4, <1>5, <1>6, HandlerKeeps

\* The server sends messages to x, to which it had sent none.
LEMMA ServerKeeps ==
    ASSUME IInv, RInv, NEW k \in Conns, NEW x \in Chans, verdict[x] = "none",
           UNCHANGED <<call, hdl, chanMap, buf>>,
           \A h \in Chans \ {x} : verdict'[h] = verdict[h],
           \A j \in Conns \ {k} : net'[j].down = net[j].down,
           \A n \in DOMAIN net'[k].down :
               \/ /\ net'[k].down[n].to = x
                  /\ Truthful(net[k].down[n])'
               \/ \E i \in DOMAIN net[k].down : net'[k].down[n] = net[k].down[i],
           \A n, l \in DOMAIN net'[k].down :
               net'[k].down[n] = net'[k].down[l] => n = l,
           x \in Calls => /\ call[x].pc \notin BeforePCs
                          /\ Tracked(x) => Awaits(x),
           RequestInv', RequestsAwaited', \A d \in Calls : DownOrder(d, k)'
    PROVE  RInv'
  <1> DEFINE a == <<"down", k>>
  <1>0. /\ SingleInv /\ FreshInv /\ TruthInv /\ UniqueInv /\ PushInv /\ HeldInv
        /\ OrderInv /\ AnswersAwaited /\ ChannelInv /\ ReplyInv
    BY RInvParts
  <1>1. /\ a \in Places /\ flow[a] = net[k].down /\ flow'[a] = net'[k].down
        /\ a[1] # "got"
    BY FlowIs DEF Places, Conns
  <1>2. ASSUME NEW p \in Places, p # a
        PROVE  flow'[p] = flow[p]
    <2>1. ASSUME NEW j \in Calls, p = <<"down", j>>
          PROVE  flow'[p] = flow[p]
      <3>1. j # k
        BY <1>2, <2>1
      <3>2. net'[j].down = net[j].down
        BY <3>1 DEF Conns
      <3> QED BY <2>1, <3>2, FlowIs
    <2>2. ASSUME NEW j \in Calls, p = <<"hdl", j>>
          PROVE  flow'[p] = flow[p]
      BY <2>2, FlowIs, ZenonT(40)
    <2>3. ASSUME NEW j \in Calls, p = <<"got", j>>
          PROVE  flow'[p] = flow[p]
      BY <2>3, FlowIs
    <2>4. ASSUME NEW h \in Chans, p = <<"buf", h>>
          PROVE  flow'[p] = flow[p]
      BY <2>4, FlowIs
    <2> QED BY <2>1, <2>2, <2>3, <2>4, PlacesAre
  <1>3. \A p \in Places : \A i \in DOMAIN flow[p] :
            flow[p][i].to # x /\ flow[p][i] \in DownMsg
    BY <1>0, NoMessageTo, FlowTyped DEF Flows
  <1>4. \A p \in Places : \A n \in DOMAIN flow'[p] :
            \/ p = a /\ flow'[p][n].to = x /\ Truthful(net[k].down[n])'
               /\ flow'[p][n] = net'[k].down[n]
            \/ \E i \in DOMAIN flow[p] : /\ flow'[p][n] = flow[p][i]
                                         /\ p # a => i = n
    BY <1>1, <1>2
  <1>5. SingleInv' /\ PushInv' /\ HeldInv' /\ ChannelInv'
    BY <1>0 DEF SingleInv, PushInv, HeldInv, ChannelInv, InFlight, AfterRefusal
  <1>6. FreshInv'
    BY <1>0 DEF FreshInv, Chans
  <1>7. TruthInv'
    <2> SUFFICES ASSUME NEW p \in Places, NEW n \in DOMAIN flow'[p]
                 PROVE  Truthful(flow[p][n])'
      BY DEF TruthInv
    <2>1. CASE flow'[p][n] = net'[k].down[n] /\ Truthful(net[k].down[n])'
      BY <2>1 DEF Truthful
    <2>2. ASSUME NEW i \in DOMAIN flow[p], flow'[p][n] = flow[p][i]
          PROVE  Truthful(flow[p][n])'
      <3>1. Truthful(flow[p][i]) /\ flow[p][i].to # x /\ flow[p][i].to \in Chans
        BY <1>0, <1>3 DEF TruthInv, DownMsg
      <3> QED BY <2>2, <3>1 DEF Truthful
    <2> QED BY <1>4, <2>1, <2>2
  <1>8. UniqueInv'
    <2> SUFFICES ASSUME NEW p \in Places, NEW r \in Places,
                        NEW n \in DOMAIN flow'[p], NEW l \in DOMAIN flow'[r],
                        flow'[p][n] = flow'[r][l]
                 PROVE  p = r /\ n = l
      BY DEF UniqueInv, Distinct
    <2>1. CASE p = a /\ r = a
      BY <1>1, <2>1
    <2>2. CASE p # a \/ r # a
      <3>1. flow'[p][n].to # x
        BY <1>3, <1>4, <2>2
      <3>2. PICK i \in DOMAIN flow[p] : flow'[p][n] = flow[p][i] /\ (p # a => i = n)
        BY <1>4, <3>1
      <3>3. PICK j \in DOMAIN flow[r] : flow'[r][l] = flow[r][j] /\ (r # a => j = l)
        BY <1>4, <3>1
      <3>4. flow[p][i] = flow[r][j]
        BY <3>2, <3>3
      <3>5. p = r /\ i = j
        BY <1>0, <3>4 DEF UniqueInv, Distinct
      <3> QED BY <2>2, <3>2, <3>3, <3>5
    <2> QED BY <2>1, <2>2
  <1>9. OrderInv'
    <2> SUFFICES ASSUME NEW d \in Calls
                 PROVE  BufOrder(d)' /\ \A j \in Conns : HdlOrder(d, j)' /\ DownOrder(d, j)'
      BY DEF OrderInv
    <2>1. BufOrder(d) /\ \A j \in Conns : HdlOrder(d, j) /\ DownOrder(d, j)
      BY <1>0 DEF OrderInv
    <2>2. BufOrder(d)' /\ \A j \in Conns : HdlOrder(d, j)'
      BY <2>1 DEF BufOrder, HdlOrder, DataIn, DataAt, Second
    <2>3. ASSUME NEW j \in Conns, j # k
          PROVE  DownOrder(d, j)'
      BY <2>1, <2>3 DEF DownOrder, DataIn, DataHeld, DataAt, Second
    <2> QED BY <2>2, <2>3
  <1>10. AnswersAwaited'
    <2> SUFFICES ASSUME NEW p \in Places, p[1] # "got", NEW n \in DOMAIN flow'[p],
                        flow'[p][n].to \in Calls, Tracked(flow[p][n].to)'
                 PROVE  Awaits(flow[p][n].to)'
      BY DEF AnswersAwaited
    <2> DEFINE d == flow'[p][n].to
    <2>1. d \in Calls /\ Tracked(d)
      BY DEF Tracked, Refused
    <2>2. Awaits(d)
      <3>1. CASE d = x
        BY <2>1, <3>1
      <3>2. CASE d # x
        BY <1>0, <1>4, <2>1, <3>2 DEF AnswersAwaited
      <3> QED BY <3>1, <3>2
    <2> QED BY <2>2 DEF Awaits
  <1>11. ReplyInv'
    <2>1. ASSUME NEW d \in Calls, ReplyOk(d)
          PROVE  ReplyOk(d)'
      BY <2>1 DEF ReplyOk, Whole, Final, GaveUp
    <2> QED BY <1>0, <2>1 DEF ReplyInv, AfterRefusal
  <1> QED BY <1>5, <1>6, <1>7, <1>8, <1>9, <1>10, <1>11 DEF RInv, PendingInv

DataOf(c, op, ok)   == Reply(c, op, IF ok THEN "value" ELSE "junk")
ResultOf(c, op, ok) == Reply(c, op, IF ok THEN "ok" ELSE "fail")

\* In r the answer comes after s, its data before its result.
Appended(s, r, c, op, ok) ==
    /\ r \in Seq(DownMsg) /\ Len(s) \in Nat
    /\ DOMAIN r = 1..(Len(s) + Reads(op)) /\ DOMAIN s = 1..Len(s)
    /\ \A n \in 1..Len(s) : r[n] = s[n]
    /\ r[Len(s) + Reads(op)] = ResultOf(c, op, ok)
    /\ Reads(op) = 2 => r[Len(s) + 1] = DataOf(c, op, ok)

LEMMA AnswerAt ==
    ASSUME NEW s \in Seq(DownMsg), NEW c \in Calls, NEW op \in Operations,
           NEW ok
    PROVE  Appended(s, s \o Answer(c, op, ok), c, op, ok)
  <1> DEFINE v == DataOf(c, op, ok)
             w == ResultOf(c, op, ok)
             t == Answer(c, op, ok)
  <1>1. v \in DownMsg /\ w \in DownMsg
    BY DEF DataOf, ResultOf, Reply, DownMsg, Commands, Chans, Bodies
  <1>2. t = (IF Reads(op) = 1 THEN <<>> ELSE <<v>>) \o <<w>>
    BY DEF Answer, DataOf, ResultOf
  <1>3. Reads(op) \in 1..2
    BY DEF Reads
  <1> HIDE DEF v, w, t
  <1>4. /\ t \in Seq(DownMsg) /\ Len(t) = Reads(op) /\ t[Reads(op)] = w
        /\ Reads(op) = 2 => t[1] = v
    <2>1. CASE Reads(op) = 1
      <3>1. t = <<w>>
        BY <1>1, <1>2, <2>1
      <3> QED BY <1>1, <2>1, <3>1
    <2>2. CASE Reads(op) = 2
      <3>1. t = <<v>> \o <<w>>
        BY <1>2, <2>2
      <3>2. /\ <<v>> \in Seq(DownMsg) /\ <<w>> \in Seq(DownMsg)
            /\ Len(<<v>>) = 1 /\ Len(<<w>>) = 1 /\ <<v>>[1] = v /\ <<w>>[1] = w
        BY <1>1
      <3> HIDE DEF t
      <3> DEFINE a == <<v>>
                 b == <<w>>
      <3> HIDE DEF a, b
      <3>3. /\ a \o b \in Seq(DownMsg) /\ Len(a \o b) = 2
            /\ (a \o b)[1] = a[1] /\ (a \o b)[2] = b[1]
        <4>1. /\ a \in Seq(DownMsg) /\ b \in Seq(DownMsg) /\ Len(a) = 1 /\ Len(b) = 1
          BY <3>2 DEF a, b
        <4> QED BY <4>1, ConcatProperties, SMTT(30)
      <3> QED BY <2>2, <3>1, <3>2, <3>3 DEF a, b
    <2> QED BY <1>3, <2>1, <2>2
  <1>5. /\ s \o t \in Seq(DownMsg) /\ Len(s \o t) = Len(s) + Reads(op)
        /\ \A i \in 1..(Len(s) + Reads(op)) :
               (s \o t)[i] = IF i <= Len(s) THEN s[i] ELSE t[i - Len(s)]
    BY <1>4, ConcatProperties, ZenonT(40)
  <1>6. /\ Len(s) \in Nat /\ DOMAIN (s \o t) = 1..(Len(s) + Reads(op))
        /\ DOMAIN s = 1..Len(s)
    BY <1>5, LenProperties
  <1>7. \A n \in 1..Len(s) : (s \o t)[n] = s[n]
    BY <1>3, <1>5, <1>6
  <1>8. (s \o t)[Len(s) + Reads(op)] = w
    <2>1. /\ Len(s) + Reads(op) \in 1..(Len(s) + Reads(op))
          /\ ~(Len(s) + Reads(op) <= Len(s))
          /\ Len(s) + Reads(op) - Len(s) = Reads(op)
      BY <1>3, <1>6
    <2> QED BY <1>4, <1>5, <2>1
  <1>9. Reads(op) = 2 => (s \o t)[Len(s) + 1] = v
    <2>1. /\ ~(Len(s) + 1 <= Len(s)) /\ Len(s) + 1 - Len(s) = 1
          /\ Len(s) + 1 \in 1..(Len(s) + Reads(op))
      BY <1>3, <1>6
    <2> QED BY <1>4, <1>5, <2>1
  <1> QED BY <1>5, <1>6, <1>7, <1>8, <1>9 DEF v, w, t, Appended

LEMMA SrvServeReply ==
    ASSUME IInv, IInv', RInv, NEW k \in Conns, SrvServe(k)
    PROVE  RInv'
  <1>0. PICK m : m = Head(net[k].up)
    OBVIOUS
  <1> DEFINE c == m.from
             up == Tail(net[k].up)
             s == [j \in Conns |-> IF j = k THEN 1 ELSE 0]
  <1>1. /\ net \in [Conns -> NetType] /\ net[k].up # <<>>
        /\ net[k].up \in Seq(UpMsg) /\ net[k].down \in Seq(DownMsg)
        /\ verdict \in [Chans -> {"none", "ok", "fail"}]
        /\ UNCHANGED <<call, hdl, chanMap, buf>>
    BY DEF SrvServe, IInv, TypeOK, NetType
  <1>2. /\ m = net[k].up[1] /\ 1 \in DOMAIN net[k].up /\ m \in UpMsg
        /\ up \in Seq(UpMsg)
        /\ \A i \in DOMAIN up : i + 1 \in DOMAIN net[k].up /\ up[i] = net[k].up[i + 1]
        /\ \A i \in DOMAIN up : i \in Nat /\ i # 0
    <2>1. /\ m = net[k].up[1] /\ 1 \in DOMAIN net[k].up
          /\ up \in Seq(UpMsg)
          /\ \A i \in DOMAIN up : i + 1 \in DOMAIN net[k].up /\ up[i] = net[k].up[i + 1]
      BY <1>0, <1>1, TailAt
    <2> HIDE DEF up
    <2>2. DOMAIN up = 1..Len(up) /\ Len(up) \in Nat /\ m \in UpMsg
      BY <1>1, <2>1, LenProperties
    <2> QED BY <2>1, <2>2
  \* Whatever else the server does, it takes the first message.
  <1>3. ASSUME net'[k].up = up, \A j \in Conns : j # k => net'[j] = net[j],
               \A h \in Chans : verdict'[h] = verdict[h] \/ (h = c /\ m.last /\ h \in Calls)
        PROVE  RequestInv' /\ RequestsAwaited'
    <2>1. s \in [Conns -> {0, 1}] /\ s[k] = 1 /\ \A j \in Conns : j # k => s[j] = 0
      OBVIOUS
    <2> HIDE DEF s
    <2>2. \A j \in Conns : \A i \in DOMAIN net'[j].up :
              i \in Nat /\ i + s[j] \in DOMAIN net[j].up
              /\ net'[j].up[i] = net[j].up[i + s[j]]
      <3> SUFFICES ASSUME NEW j \in Conns, NEW i \in DOMAIN net'[j].up
                   PROVE  /\ i \in Nat /\ i + s[j] \in DOMAIN net[j].up
                          /\ net'[j].up[i] = net[j].up[i + s[j]]
        OBVIOUS
      <3>1. CASE j = k
        <4>1. i \in DOMAIN up /\ i \in Nat
          BY <1>2, <1>3, <3>1
        <4> QED BY <1>2, <1>3, <2>1, <3>1, <4>1, ZenonT(40)
      <3>2. CASE j # k
        <4>1. net[j].up \in Seq(UpMsg)
          BY <1>1 DEF NetType
        <4>2. i \in DOMAIN net[j].up /\ i \in Nat /\ net'[j].up = net[j].up
          BY <1>3, <3>2, <4>1, LenProperties
        <4> QED BY <2>1, <3>2, <4>2
      <3> QED BY <3>1, <3>2
    <2>3. ASSUME NEW j \in Conns, NEW i \in DOMAIN net'[j].up,
                 net'[j].up[i].last, net'[j].up[i].from \in Calls
          PROVE  verdict'[net'[j].up[i].from] = verdict[net'[j].up[i].from]
      <3> DEFINE d == net'[j].up[i].from
      <3>1. CASE d # c
        BY <1>3, <2>3, <3>1 DEF Chans
      <3>2. CASE d = c /\ m.last
        <4>1. /\ i \in Nat /\ i + s[j] \in DOMAIN net[j].up
              /\ net[j].up[i + s[j]] = net'[j].up[i]
          BY <2>2
        <4>2. j = k /\ i + s[j] = 1
          BY <1>2, <2>3, <3>2, <4>1, RInvParts DEF RequestInv
        <4>3. i \in DOMAIN up
          BY <1>3, <4>2
        <4>4. i # 0
          BY <1>2, <4>3
        <4> QED BY <2>1, <4>1, <4>2, <4>4
      <3>3. CASE ~m.last
        BY <1>3, <2>3, <3>3 DEF Chans
      <3> QED BY <3>1, <3>2, <3>3
    <2> QED BY <1>1, <2>1, <2>2, <2>3, RequestsLeft
  <1>4. CASE ~m.last \/ c \in PubReqs
    <2>1. net' = [net EXCEPT ![k].up = up] /\ UNCHANGED verdict
      BY <1>0, <1>1, <1>4 DEF SrvServe
    <2> HIDE DEF up
    <2>2. /\ net'[k].up = up /\ net'[k].down = net[k].down
          /\ \A j \in Conns : j # k => net'[j] = net[j]
      BY <1>1, <2>1 DEF NetType
    <2>3. RequestInv' /\ RequestsAwaited'
      BY <1>3, <2>1, <2>2
    <2>4. \A j \in Conns : net'[j].down = net[j].down
      BY <2>2
    <2>5. flow' = flow
      BY <1>1, <2>4, FlowSame DEF Conns
    <2>6. Carries(flow, flow') /\ Distinct(flow')
      BY <2>5, FlowTyped, SameCarries, RInvParts DEF UniqueInv
    <2>7. PushInv' /\ ChannelInv'
      BY <1>1, RInvParts DEF PushInv, ChannelInv, AfterRefusal
    <2>8. OrderInv'
      <3> SUFFICES ASSUME NEW d \in Calls, NEW j \in Conns
                   PROVE  BufOrder(d)' /\ HdlOrder(d, j)' /\ DownOrder(d, j)'
        BY DEF OrderInv
      <3>1. BufOrder(d) /\ HdlOrder(d, j) /\ DownOrder(d, j)
        BY RInvParts DEF OrderInv
      <3> QED BY <1>1, <2>4, <3>1 DEF BufOrder, HdlOrder, DownOrder, DataIn, DataHeld,
                                      DataAt, Second
    <2> QED BY <1>1, <2>1, <2>3, <2>6, <2>7, <2>8, HandlerKeeps
  <1>5. CASE m.last /\ c \notin PubReqs
    <2>1. /\ c \in Calls /\ m.cmd \in Operations /\ c \in Chans
          /\ verdict[c] = "none" /\ m.cmd = call[c].op
          /\ call[c].pc \notin BeforePCs
          /\ Tracked(c) => Awaits(c)
      <3>1. c \in Calls /\ m.cmd \in Operations /\ c \in Chans
        BY <1>2, <1>5 DEF UpMsg, Chans
      <3>2. /\ verdict[c] = "none" /\ m.cmd = call[c].op
            /\ call[c].pc \notin BeforePCs
        BY <1>2, <1>5, <3>1, RInvParts DEF RequestInv
      <3>3. Tracked(c) => Awaits(c)
        BY <1>2, <1>5, <3>1, RInvParts, SMTT(30) DEF RequestsAwaited, Awaits
      <3> QED BY <3>1, <3>2, <3>3
    <2>2. PICK ok \in BOOLEAN :
              /\ verdict' = [verdict EXCEPT ![c] = IF ok THEN "ok" ELSE "fail"]
              /\ net' = [net EXCEPT
                     ![k].up = Tail(@),
                     ![k].down = @ \o Answer(c, m.cmd, ok),
                     ![k].link = IF ok /\ m.cmd = "QUIT" THEN "lost" ELSE @,
                     ![k].code = IF ok /\ m.cmd = "GADC" THEN c
                                 ELSE IF ok /\ m.cmd = "RADC" THEN Nil ELSE @]
      BY <1>0, <1>5, ZenonT(40) DEF SrvServe
    <2> DEFINE old  == net[k].down
               new  == old \o Answer(c, m.cmd, ok)
               link == IF ok /\ m.cmd = "QUIT" THEN "lost" ELSE net[k].link
               code == IF ok /\ m.cmd = "GADC" THEN c
                       ELSE IF ok /\ m.cmd = "RADC" THEN Nil ELSE net[k].code
               v == DataOf(c, m.cmd, ok)
               w == ResultOf(c, m.cmd, ok)
    <2>3. net' = [net EXCEPT ![k].up = up, ![k].down = new, ![k].link = link,
                             ![k].code = code]
      BY <1>1, <2>2 DEF NetType
    <2>4. /\ new \in Seq(DownMsg) /\ Len(old) \in Nat
          /\ DOMAIN new = 1..(Len(old) + Reads(m.cmd)) /\ DOMAIN old = 1..Len(old)
          /\ \A n \in 1..Len(old) : new[n] = old[n]
          /\ new[Len(old) + Reads(m.cmd)] = w
          /\ Reads(m.cmd) = 2 => new[Len(old) + 1] = v
      <3>1. old \in Seq(DownMsg) /\ c \in Calls /\ m.cmd \in Operations
        BY <1>1, <2>1
      <3> HIDE DEF old, c
      <3>2. Appended(old, old \o Answer(c, m.cmd, ok), c, m.cmd, ok)
        BY <3>1, AnswerAt
      <3>3. Appended(old, new, c, m.cmd, ok)
        BY <3>2
      <3> HIDE DEF new
      <3> QED BY <3>3 DEF Appended
    <2>5. /\ v.to = c /\ w.to = c /\ v.cmd = m.cmd /\ w.cmd = m.cmd
          /\ v.body = (IF ok THEN "value" ELSE "junk")
          /\ w.body = (IF ok THEN "ok" ELSE "fail")
      BY DEF DataOf, ResultOf, Reply
    <2> HIDE DEF up, new, link, code
    <2>6. /\ net'[k].up = up /\ net'[k].down = new
          /\ \A j \in Conns : j # k => net'[j] = net[j]
      BY <1>1, <2>3 DEF NetType
    <2>7. /\ verdict'[c] = (IF ok THEN "ok" ELSE "fail")
          /\ \A h \in Chans \ {c} : verdict'[h] = verdict[h]
      BY <1>1, <2>1, <2>2
    <2>8. RequestInv' /\ RequestsAwaited'
      BY <1>3, <1>5, <2>1, <2>6, <2>7
    <2>9. \A n \in DOMAIN new :
              \/ n \in 1..Len(old) /\ new[n] = old[n]
              \/ n = Len(old) + Reads(m.cmd) /\ new[n] = w
              \/ n = Len(old) + 1 /\ new[n] = v /\ Reads(m.cmd) = 2
      <3>1. Reads(m.cmd) \in 1..2
        BY DEF Reads
      <3>2. \A l \in Nat, r \in 1..2 : \A n \in 1..(l + r) :
                n \in 1..l \/ n = l + r \/ (n = l + 1 /\ r = 2)
        OBVIOUS
      <3>3. \A n \in DOMAIN new :
                \/ n \in 1..Len(old) \/ n = Len(old) + Reads(m.cmd)
                \/ n = Len(old) + 1 /\ Reads(m.cmd) = 2
        BY <2>4, <3>1, <3>2
      <3> QED BY <2>4, <3>3
    <2>10. Truthful(w)' /\ (Reads(m.cmd) = 2 => Truthful(v)')
      <3>1. call'[c].op = m.cmd /\ m.cmd # "GPUB" /\ c \notin PubReqs
        BY <1>1, <1>5, <2>1 DEF Operations
      <3> QED BY <2>1, <2>5, <2>7, <3>1 DEF Truthful, IsData
    <2>11. \A n \in DOMAIN net'[k].down :
               \/ /\ net'[k].down[n].to = c
                  /\ Truthful(net[k].down[n])'
               \/ \E i \in DOMAIN net[k].down : net'[k].down[n] = net[k].down[i]
      <3> SUFFICES ASSUME NEW n \in DOMAIN new
                   PROVE  \/ /\ new[n].to = c
                             /\ Truthful(net[k].down[n])'
                          \/ \E i \in DOMAIN old : new[n] = old[i]
        BY <2>6
      <3>1. CASE n \in 1..Len(old) /\ new[n] = old[n]
        BY <2>4, <3>1
      <3>2. CASE new[n] = w
        BY <2>5, <2>6, <2>10, <3>2 DEF Truthful
      <3>3. CASE new[n] = v /\ Reads(m.cmd) = 2
        BY <2>5, <2>6, <2>10, <3>3 DEF Truthful
      <3> QED BY <2>9, <3>1, <3>2, <3>3
    <2>12. \A n \in 1..Len(old) : old[n].to # c
      BY <1>1, <2>1, <2>4, NoMessageTo, RInvParts
    <2>13. \A n, l \in 1..Len(old) : old[n] = old[l] => n = l
      <3>1. <<"down", k>> \in Places /\ flow[<<"down", k>>] = old
        BY FlowIs DEF Places, Conns
      <3> QED BY <2>4, <3>1, RInvParts DEF UniqueInv, Distinct
    <2>14. \A n, l \in DOMAIN net'[k].down :
               net'[k].down[n] = net'[k].down[l] => n = l
      <3>1. v # w
        BY <2>5
      <3> QED BY <2>5, <2>6, <2>9, <2>12, <2>13, <3>1
    <2>15. ASSUME NEW d \in Calls
           PROVE  DownOrder(d, k)'
      <3> SUFFICES ASSUME chanMap[call[d].op] = d,
                          NEW j \in DOMAIN new, Second(d, new[j])
                   PROVE  \/ DataIn(d)' \/ DataHeld(d, k)'
                          \/ \E i \in 1..(j - 1) : DataAt(d, new, i)
        BY <1>1, <2>6 DEF DownOrder, Second, DataAt
      <3>1. CASE j \in 1..Len(old) /\ new[j] = old[j]
        <4>1. DownOrder(d, k)
          BY RInvParts DEF OrderInv
        <4>2. \/ DataIn(d) \/ DataHeld(d, k)
              \/ \E i \in 1..(j - 1) : DataAt(d, old, i)
          BY <2>4, <3>1, <4>1 DEF DownOrder
        <4>3. \A i \in 1..(j - 1) : DataAt(d, old, i) => DataAt(d, new, i)
          <5>1. \A i \in 1..(j - 1) : i \in 1..Len(old)
            BY <2>4, <3>1
          <5> QED BY <2>4, <5>1 DEF DataAt
        <4>4. (DataIn(d) => DataIn(d)') /\ (DataHeld(d, k) => DataHeld(d, k)')
          BY <1>1 DEF DataIn, DataHeld, DataAt
        <4> QED BY <4>2, <4>3, <4>4
      <3>2. CASE j = Len(old) + Reads(m.cmd) /\ new[j] = w
        <4>1. d = c /\ Reads(m.cmd) = 2
          BY <1>1, <2>1, <2>5, <3>2 DEF Second
        <4>2. Len(old) + 1 \in 1..(j - 1) /\ new[Len(old) + 1] = v
          BY <2>4, <3>2, <4>1
        <4> QED BY <2>5, <4>1, <4>2 DEF DataAt, IsData
      <3>3. CASE new[j] = v
        BY <2>5, <3>3 DEF Second, IsResult
      <3> QED BY <2>9, <3>1, <3>2, <3>3
    <2>16. \A j \in Conns \ {k} : net'[j].down = net[j].down
      BY <2>6
    <2> QED BY <1>1, <2>1, <2>7, <2>8, <2>11, <2>14, <2>15, <2>16, ServerKeeps
  <1> QED BY <1>4, <1>5

LEMMA InsertedAt ==
    ASSUME NEW S, NEW s \in Seq(S), NEW m \in S, NEW i \in 1..(Len(s) + 1)
    PROVE  /\ InsertAt(s, i, m) \in Seq(S) /\ Len(s) \in Nat
           /\ DOMAIN InsertAt(s, i, m) = 1..(Len(s) + 1) /\ DOMAIN s = 1..Len(s)
           /\ \A n \in 1..(i - 1) : InsertAt(s, i, m)[n] = s[n]
           /\ InsertAt(s, i, m)[i] = m
           /\ \A n \in (i + 1)..(Len(s) + 1) : InsertAt(s, i, m)[n] = s[n - 1]
  <1> DEFINE a == SubSeq(s, 1, i - 1)
             b == SubSeq(s, i, Len(s))
             e == <<m>>
  <1>1. /\ Len(s) \in Nat /\ DOMAIN s = 1..Len(s) /\ i \in Nat /\ 1 <= i
        /\ i <= Len(s) + 1 /\ \A n \in 1..Len(s) : s[n] \in S
    BY LenProperties
  <1>2. /\ a \in Seq(S) /\ Len(a) = i - 1
        /\ \A n \in 1..(i - 1) : a[n] = s[n]
    <2>1. \A n \in 1..(i - 1) : s[n] \in S
      BY <1>1
    <2>2. /\ a \in Seq(S)
          /\ Len(a) = IF 1 <= i - 1 THEN (i - 1) - 1 + 1 ELSE 0
          /\ \A n \in 1..((i - 1) - 1 + 1) : a[n] = s[1 + n - 1]
      BY <1>1, <2>1, SubSeqProperties
    <2> QED BY <1>1, <2>2
  <1>3. /\ b \in Seq(S) /\ Len(b) = Len(s) + 1 - i
        /\ \A n \in 1..(Len(s) + 1 - i) : b[n] = s[i + n - 1]
    <2>1. \A n \in i..Len(s) : s[n] \in S
      BY <1>1
    <2>2. /\ b \in Seq(S)
          /\ Len(b) = IF i <= Len(s) THEN Len(s) - i + 1 ELSE 0
          /\ \A n \in 1..(Len(s) - i + 1) : b[n] = s[i + n - 1]
      BY <1>1, <2>1, SubSeqProperties
    <2> QED BY <1>1, <2>2
  <1>4. e \in Seq(S) /\ Len(e) = 1 /\ e[1] = m
    OBVIOUS
  <1>5. InsertAt(s, i, m) = (a \o e) \o b
    BY DEF InsertAt
  <1> HIDE DEF a, b, e
  <1>6. /\ a \o e \in Seq(S) /\ Len(a \o e) = i
        /\ \A n \in 1..i : (a \o e)[n] = IF n <= i - 1 THEN a[n] ELSE e[n - (i - 1)]
    <2>1. /\ a \o e \in Seq(S) /\ Len(a \o e) = Len(a) + Len(e)
          /\ \A n \in 1..(Len(a) + Len(e)) :
                 (a \o e)[n] = IF n <= Len(a) THEN a[n] ELSE e[n - Len(a)]
      BY <1>2, <1>4, ConcatProperties, Zenon
    <2>2. Len(a) + Len(e) = i
      BY <1>1, <1>2, <1>4
    <2> QED BY <1>2, <2>1, <2>2, Zenon
  <1> DEFINE f == a \o e
             r == f \o b
  <1>7. /\ r \in Seq(S) /\ Len(r) = Len(s) + 1
        /\ \A n \in 1..(Len(s) + 1) : r[n] = IF n <= i THEN f[n] ELSE b[n - i]
    <2>1. f \in Seq(S) /\ Len(f) = i
      BY <1>6
    <2> HIDE DEF f
    <2>2. /\ r \in Seq(S) /\ Len(r) = Len(f) + Len(b)
          /\ \A n \in 1..(Len(f) + Len(b)) :
                 r[n] = IF n <= Len(f) THEN f[n] ELSE b[n - Len(f)]
      BY <1>3, <2>1, ConcatProperties, Zenon
    <2>3. Len(f) + Len(b) = Len(s) + 1
      BY <1>1, <1>3, <2>1
    <2> QED BY <2>1, <2>2, <2>3, Zenon
  <1> HIDE DEF f, r
  <1>8. \A n \in 1..i : r[n] = f[n]
    <2>1. \A n \in 1..i : n \in 1..(Len(s) + 1) /\ n <= i
      BY <1>1
    <2> QED BY <1>7, <2>1
  <1>9. \A n \in 1..(i - 1) : r[n] = s[n]
    <2>1. \A n \in 1..(i - 1) : n \in 1..i /\ n <= i - 1
      BY <1>1
    <2> QED BY <1>2, <1>6, <1>8, <2>1 DEF f
  <1>10. r[i] = m
    <2>1. i \in 1..i /\ ~(i <= i - 1) /\ i - (i - 1) = 1
      BY <1>1
    <2> QED BY <1>4, <1>6, <1>8, <2>1 DEF f
  <1>11. ASSUME NEW n \in (i + 1)..(Len(s) + 1)
         PROVE  r[n] = s[n - 1]
    <2>1. /\ n \in 1..(Len(s) + 1) /\ ~(n <= i) /\ n - i \in 1..(Len(s) + 1 - i)
          /\ i + (n - i) - 1 = n - 1
      BY <1>1
    <2> QED BY <1>3, <1>7, <2>1
  <1>12. DOMAIN r = 1..(Len(s) + 1)
    BY <1>7, LenProperties
  <1>13. InsertAt(s, i, m) = r
    BY <1>5 DEF f, r
  <1> QED BY <1>1, <1>7, <1>9, <1>10, <1>11, <1>12, <1>13

LEMMA SrvPushReply ==
    ASSUME IInv, IInv', RInv, NEW k \in Conns, NEW p \in PubReqs, SrvPush(k, p)
    PROVE  RInv'
  <1> DEFINE m   == [cmd |-> "GPUB", to |-> p, body |-> "ok"]
             old == net[k].down
             s   == [j \in Conns |-> 0]
  <1>1. /\ net \in [Conns -> NetType] /\ old \in Seq(DownMsg)
        /\ verdict \in [Chans -> {"none", "ok", "fail"}]
        /\ UNCHANGED <<call, hdl, chanMap, buf>> /\ verdict[p] = "none"
        /\ verdict' = [verdict EXCEPT ![p] = "ok"]
        /\ p \in Chans /\ p \notin Calls
    BY ClientAssumption DEF SrvPush, IInv, TypeOK, NetType, Chans
  <1>2. PICK i \in 1..(Len(old) + 1) :
            net' = [net EXCEPT ![k].down = InsertAt(@, i, m)]
    BY DEF SrvPush
  <1> DEFINE new == InsertAt(old, i, m)
  <1>3. m \in DownMsg /\ m.to = p /\ m.cmd = "GPUB" /\ m.body = "ok"
    BY DEF DownMsg, Commands, Chans, Bodies
  <1>4. net' = [net EXCEPT ![k].down = new]
    BY <1>1, <1>2
  <1> HIDE DEF m
  <1>5. /\ new \in Seq(DownMsg) /\ Len(old) \in Nat
        /\ DOMAIN new = 1..(Len(old) + 1) /\ DOMAIN old = 1..Len(old)
        /\ \A n \in 1..(i - 1) : new[n] = old[n]
        /\ new[i] = m
        /\ \A n \in (i + 1)..(Len(old) + 1) : new[n] = old[n - 1]
    BY <1>1, <1>3, InsertedAt, SMTT(30)
  <1> HIDE DEF new
  <1>6. /\ net'[k].down = new /\ net'[k].up = net[k].up
        /\ \A j \in Conns : j # k => net'[j] = net[j]
    BY <1>1, <1>4 DEF NetType
  <1>7. verdict'[p] = "ok" /\ \A h \in Chans \ {p} : verdict'[h] = verdict[h]
    BY <1>1
  <1>8. RequestInv' /\ RequestsAwaited'
    <2>1. s \in [Conns -> {0, 1}] /\ \A j \in Conns : s[j] = 0
      OBVIOUS
    <2> HIDE DEF s
    <2>2. ASSUME NEW j \in Conns, NEW n \in DOMAIN net'[j].up
          PROVE  n \in Nat /\ n + s[j] \in DOMAIN net[j].up
                 /\ net'[j].up[n] = net[j].up[n + s[j]]
      <3>1. net'[j].up = net[j].up /\ net[j].up \in Seq(UpMsg)
        BY <1>1, <1>6 DEF NetType
      <3>2. n \in Nat
        BY <3>1, LenProperties
      <3> QED BY <2>1, <3>1, <3>2
    <2>3. \A d \in Calls : verdict'[d] = verdict[d]
      BY <1>1, <1>7 DEF Chans
    <2> QED BY <1>1, <2>1, <2>2, <2>3, RequestsLeft
  \* A message that is not the request was there, and kept its place.
  <1>9. \A n \in DOMAIN new :
            \/ n = i /\ new[n] = m
            \/ n < i /\ n \in 1..Len(old) /\ new[n] = old[n]
            \/ n > i /\ n - 1 \in 1..Len(old) /\ new[n] = old[n - 1]
    <2> TAKE n \in DOMAIN new
    <2>1. n \in 1..(Len(old) + 1) /\ i \in 1..(Len(old) + 1) /\ Len(old) \in Nat
      BY <1>5
    <2>2. CASE n = i
      BY <1>5, <2>2
    <2>3. CASE n < i
      <3>1. n \in 1..(i - 1) /\ n \in 1..Len(old)
        BY <2>1, <2>3
      <3> QED BY <1>5, <2>3, <3>1
    <2>4. CASE n > i
      <3>1. n \in (i + 1)..(Len(old) + 1) /\ n - 1 \in 1..Len(old)
        BY <2>1, <2>4
      <3> QED BY <1>5, <2>4, <3>1
    <2> QED BY <2>1, <2>2, <2>3, <2>4
  <1>10. \A n \in DOMAIN net'[k].down :
             \/ /\ net'[k].down[n].to = p
                /\ Truthful(net[k].down[n])'
             \/ \E l \in DOMAIN net[k].down : net'[k].down[n] = net[k].down[l]
    <2> SUFFICES ASSUME NEW n \in DOMAIN net'[k].down
                 PROVE  \/ /\ net'[k].down[n].to = p
                           /\ Truthful(net[k].down[n])'
                        \/ \E l \in DOMAIN net[k].down : net'[k].down[n] = net[k].down[l]
      OBVIOUS
    <2>1. CASE net'[k].down[n] = m
      BY <1>1, <1>3, <1>7, <2>1 DEF Truthful, IsData
    <2>2. CASE net'[k].down[n] # m
      BY <1>5, <1>6, <1>9, <2>2
    <2> QED BY <2>1, <2>2
  <1>11. \A n \in 1..Len(old) : old[n].to # p
    BY <1>1, <1>5, NoMessageTo, RInvParts
  <1>12. \A n, l \in DOMAIN net'[k].down :
             net'[k].down[n] = net'[k].down[l] => n = l
    <2>1. <<"down", k>> \in Places /\ flow[<<"down", k>>] = old
      BY FlowIs DEF Places, Conns
    <2>2. \A n, l \in 1..Len(old) : old[n] = old[l] => n = l
      <3>1. \A n, l \in DOMAIN flow[<<"down", k>>] :
                flow[<<"down", k>>][n] = flow[<<"down", k>>][l] => n = l
        BY <2>1, RInvParts DEF UniqueInv, Distinct
      <3> QED BY <1>5, <2>1, <3>1
    <2> SUFFICES ASSUME NEW n \in DOMAIN new, NEW l \in DOMAIN new, new[n] = new[l]
                 PROVE  n = l
      BY <1>6
    <2>3. n \in Nat /\ l \in Nat /\ i \in Nat
      BY <1>5
    <2>4. CASE new[n] = m
      <3>1. \A j \in DOMAIN new : new[j] = m => j = i
        BY <1>3, <1>9, <1>11
      <3> QED BY <2>4, <3>1
    <2>5. CASE new[n] # m
      <3>1. /\ \/ n < i /\ n \in 1..Len(old) /\ new[n] = old[n]
               \/ n > i /\ n - 1 \in 1..Len(old) /\ new[n] = old[n - 1]
            /\ \/ l < i /\ l \in 1..Len(old) /\ new[l] = old[l]
               \/ l > i /\ l - 1 \in 1..Len(old) /\ new[l] = old[l - 1]
        BY <1>9, <2>5
      <3>2. CASE n < i /\ l < i
        BY <2>2, <2>3, <3>1, <3>2
      <3>3. CASE n > i /\ l > i
        <4>1. /\ n - 1 \in 1..Len(old) /\ new[n] = old[n - 1]
              /\ l - 1 \in 1..Len(old) /\ new[l] = old[l - 1]
          BY <2>3, <3>1, <3>3
        <4> DEFINE u == n - 1
                   w == l - 1
        <4>2. u \in 1..Len(old) /\ w \in 1..Len(old) /\ old[u] = old[w]
          BY <2>5, <4>1
        <4> HIDE DEF u, w
        <4>3. u = w
          BY <2>2, <4>2
        <4>4. n - 1 = l - 1
          BY <4>3 DEF u, w
        <4> QED BY <2>3, <4>4
      <3>4. CASE n < i /\ l > i
        <4>1. n = l - 1
          BY <2>2, <2>3, <3>1, <3>4
        <4> QED BY <2>3, <3>4, <4>1
      <3>5. CASE n > i /\ l < i
        <4>1. n - 1 = l
          BY <2>2, <2>3, <3>1, <3>5
        <4> QED BY <2>3, <3>5, <4>1
      <3> QED BY <2>3, <3>1, <3>2, <3>3, <3>4, <3>5
    <2> QED BY <2>4, <2>5
  <1>13. ASSUME NEW d \in Calls
         PROVE  DownOrder(d, k)'
    <2> SUFFICES ASSUME chanMap[call[d].op] = d,
                        NEW j \in DOMAIN new, Second(d, new[j])
                 PROVE  \/ DataIn(d)' \/ DataHeld(d, k)'
                        \/ \E n \in 1..(j - 1) : DataAt(d, new, n)
      BY <1>1, <1>6 DEF DownOrder, Second, DataAt
    <2>1. DownOrder(d, k)
      BY RInvParts DEF OrderInv
    <2>2. (DataIn(d) => DataIn(d)') /\ (DataHeld(d, k) => DataHeld(d, k)')
      BY <1>1 DEF DataIn, DataHeld, DataAt
    <2>3. j \in Nat /\ i \in Nat /\ j <= Len(old) + 1 /\ Len(old) \in Nat
      BY <1>5
    <2>4. CASE j < i /\ j \in 1..Len(old) /\ new[j] = old[j]
      <3>1. \A n \in 1..(j - 1) : new[n] = old[n]
        <4>1. \A n \in 1..(j - 1) : n \in 1..(i - 1)
          BY <2>3, <2>4
        <4> QED BY <1>5, <4>1
      <3> QED BY <1>5, <2>1, <2>2, <2>4, <3>1 DEF DownOrder, DataAt
    <2>5. CASE j > i /\ j - 1 \in 1..Len(old) /\ new[j] = old[j - 1]
      <3>1. ASSUME NEW n \in 1..((j - 1) - 1), DataAt(d, old, n)
            PROVE  \E l \in 1..(j - 1) : DataAt(d, new, l)
        <4> n \in Nat
          BY <2>3
        <4>1. CASE n < i
          <5>1. n \in 1..(i - 1) /\ n \in 1..(j - 1)
            BY <2>3, <4>1
          <5> QED BY <1>5, <3>1, <5>1 DEF DataAt
        <4>2. CASE n >= i
          <5>1. /\ n + 1 \in (i + 1)..(Len(old) + 1) /\ n + 1 \in 1..(j - 1)
                /\ (n + 1) - 1 = n
            <6>1. 1 <= n /\ n <= (j - 1) - 1 /\ j - 1 <= Len(old)
              BY <2>3, <2>5, <3>1
            <6>2. \A q, x, y, z \in Nat :
                      q >= x /\ 1 <= q /\ q <= (y - 1) - 1 /\ y - 1 <= z =>
                          /\ q + 1 \in (x + 1)..(z + 1) /\ q + 1 \in 1..(y - 1)
                          /\ (q + 1) - 1 = q
              OBVIOUS
            <6> QED BY <2>3, <4>2, <6>1, <6>2, Zenon
          <5>2. new[n + 1] = old[n]
            BY <1>5, <5>1
          <5> QED BY <3>1, <5>1, <5>2 DEF DataAt
        <4> QED BY <2>3, <4>1, <4>2
      <3> QED BY <1>5, <2>1, <2>2, <2>5, <3>1 DEF DownOrder
    <2>6. new[j] # m
      BY <1>1, <1>3 DEF Second
    <2> QED BY <1>9, <2>4, <2>5, <2>6
  <1>14. \A j \in Conns \ {k} : net'[j].down = net[j].down
    BY <1>6
  <1> QED BY <1>1, <1>7, <1>8, <1>10, <1>12, <1>13, <1>14, ServerKeeps

-----------------------------------------------------------------------------
(* The invariant.                                                           *)

\* A call leaves "idle" when it is invoked and does not come back to it.
LEMMA IdleKept ==
    ASSUME IInv, RInv, IdleInv, NEW c \in Calls, CallStep(c)
    PROVE  IdleInv'
  <1>1. call \in [Calls -> CallType] /\ TypeOK
    BY DEF IInv, TypeOK
  <1>2. ASSUME NEW r \in Results, Finish(c, r)
        PROVE  Others(c) /\ call'[c].pc # "idle"
    BY <1>1, <1>2, FinishKeeps
  <1>3. ASSUME NEW pc \in CallPCs, pc # "idle", call' = [call EXCEPT ![c].pc = pc]
        PROVE  Others(c) /\ call'[c].pc # "idle"
    BY <1>1, <1>3, GoToKeeps
  <1>4. call' = call \/ (Others(c) /\ call'[c].pc # "idle")
    <2>1. CASE ConnectEnter(c) \/ DisconnectEnter(c)
      BY <1>2, <1>3, <2>1 DEF ConnectEnter, DisconnectEnter, CallPCs, Results
    <2>2. CASE Dial(c)
      BY <1>2, <1>3, <2>2 DEF Dial, CallPCs, Results
    <2>3. CASE MakeChan(c) \/ Look(c)
      BY <1>1, <2>3 DEF MakeChan, Look, CallType, Others
    <2>4. CASE Write(c)
      BY <1>1, <2>4 DEF Write, CallType, Others
    <2>5. CASE Recv(c)
      BY <2>5, RecvEffect
    <2>6. CASE Delete(c)
      BY <1>3, <2>6 DEF Delete, CallPCs
    <2>7. CASE Defer(c)
      <3>1. call[c].result \in Results
        BY <1>1 DEF CallType
      <3> QED BY <1>2, <1>3, <2>7, <3>1 DEF Defer, CallPCs, Results
    <2>8. CASE Close(c) \/ Clear(c)
      BY <1>2, <1>3, <2>8 DEF Close, Clear, CallPCs, Results
    <2> QED BY <2>1, <2>2, <2>3, <2>4, <2>5, <2>6, <2>7, <2>8 DEF CallStep
  <1> QED BY <1>4 DEF IdleInv, Others

LEMMA CallReply ==
    ASSUME IInv, IInv', RInv, NEW c \in Calls, CallStep(c)
    PROVE  RInv'
  BY EnterReply, DialReply, MakeChanReply, WriteReply, LookReply, RecvReply,
     DeleteReply, DeferReply, CloseReply DEF CallStep

LEMMA HandlerReply ==
    ASSUME IInv, IInv', RInv, NEW k \in Conns, HandlerStep(k)
    PROVE  RInv' /\ UNCHANGED call
  <1>1. RInv'
    BY HTopReply, HReadReply, HDispatchReply, HSendReply, HPubReply DEF HandlerStep
  <1>2. UNCHANGED call
    BY DEF HandlerStep, HTop, HRead, HExit, HDispatch, HSend, HPubMake, HPubWrite,
           HPubDelete, HandlerUnchanged
  <1> QED BY <1>1, <1>2

LEMMA EnvReply ==
    ASSUME IInv, IInv', RInv, NEW k \in Conns, EnvStep(k)
    PROVE  RInv' /\ UNCHANGED call
  <1>1. RInv'
    BY SrvServeReply, LoseReply, SrvPushReply DEF EnvStep
  <1>2. UNCHANGED call
    <2>1. CASE SrvServe(k)
      BY <2>1, Zenon DEF SrvServe
    <2>2. CASE Lose(k)
      BY <2>2 DEF Lose
    <2>3. ASSUME NEW p \in PubReqs, SrvPush(k, p)
          PROVE  UNCHANGED call
      BY <2>3 DEF SrvPush
    <2> QED BY <2>1, <2>2, <2>3 DEF EnvStep
  <1> QED BY <1>1, <1>2

LEMMA NextReply ==
    ASSUME IInv, RInv, IdleInv, [Next]_vars
    PROVE  RInv' /\ IdleInv'
  <1>0. IInv'
    BY NextInv
  <1>1. UNCHANGED call => IdleInv'
    BY DEF IdleInv
  <1>2. ASSUME NEW c \in Calls, CallStep(c)
        PROVE  RInv' /\ IdleInv'
    BY <1>0, <1>2, CallReply, IdleKept
  <1>3. ASSUME NEW c \in Calls, HandlerStep(c)
        PROVE  RInv' /\ IdleInv'
    BY <1>0, <1>1, <1>3, HandlerReply DEF Conns
  <1>4. ASSUME NEW c \in Calls, EnvStep(c)
        PROVE  RInv' /\ IdleInv'
    BY <1>0, <1>1, <1>4, EnvReply DEF Conns
  <1>5. CASE MapFault \/ UNCHANGED vars
    BY <1>1, <1>5, StutterReply DEF MapFault, vars
  <1>6. CASE Start
    <2>1. PICK c \in Calls, op \in Ops : MayStart(op) /\ Invoke(c, op)
      BY <1>6 DEF Start
    <2>2. op \in Operations
      BY ClientAssumption DEF Operations
    <2>3. \A d \in Calls : InFlight(d) => call[d].op # op
      BY <2>1 DEF MayStart, OpInFlight
    <2>4. RInv'
      BY <2>1, <2>2, <2>3, InvokeReply
    <2>5. call'[c].pc # "idle" /\ \A d \in Calls \ {c} : call'[d] = call[d]
      BY <2>1 DEF Invoke, IInv, TypeOK, CallType
    <2> QED BY <2>4, <2>5 DEF IdleInv
  <1> QED BY <1>2, <1>3, <1>4, <1>5, <1>6 DEF Next, Step, Rest

LEMMA InitReply ==
    ASSUME Init
    PROVE  RInv /\ IdleInv
  <1>1. /\ \A c \in Calls : call[c] = [op |-> "INIT", pc |-> "idle", left |-> 0,
                                       held |-> Nil, got |-> <<>>, result |-> "none"]
        /\ \A k \in Conns : hdl[k].pc = "none" /\ net[k].up = <<>> /\ net[k].down = <<>>
        /\ \A h \in Chans : buf[h] = <<>> /\ verdict[h] = "none"
        /\ \A d \in Calls : chanMap[call[d].op] # d
    BY ClientAssumption DEF Init, Commands, Operations
  <1>2. \A p \in Places : flow[p] = <<>>
    <2>1. ASSUME NEW k \in Calls
          PROVE  /\ flow[<<"down", k>>] = <<>> /\ flow[<<"hdl", k>>] = <<>>
                 /\ flow[<<"got", k>>] = <<>>
      <3>1. hdl[k].pc \notin HoldingPCs /\ net[k].down = <<>> /\ call[k].got = <<>>
        BY <1>1 DEF HoldingPCs, Conns
      <3> QED BY <3>1, FlowIs, Zenon
    <2>2. ASSUME NEW h \in Chans
          PROVE  flow[<<"buf", h>>] = <<>>
      BY <1>1, FlowIs
    <2> QED BY <2>1, <2>2, PlacesAre
  <1>3. SingleInv /\ FreshInv /\ RequestInv /\ HeldInv
    BY <1>1 DEF SingleInv, InFlight, FreshInv, RequestInv, HeldInv, Chans
  <1>4. TruthInv /\ UniqueInv
    BY <1>2 DEF TruthInv, UniqueInv, Distinct
  <1>5. PushInv /\ ChannelInv
    BY <1>1 DEF PushInv, ChannelInv, Chans
  <1>6. OrderInv
    BY <1>1 DEF OrderInv, BufOrder, HdlOrder, DownOrder, Chans
  <1>7. PendingInv
    BY <1>1, <1>2 DEF PendingInv, AnswersAwaited, RequestsAwaited
  <1>8. ReplyInv /\ IdleInv
    <2>1. \A c \in Calls : Reads(call[c].op) = 1
      BY <1>1 DEF Reads
    <2> QED BY <1>1, <2>1 DEF ReplyInv, ReplyOk, IdleInv, WaitPCs
  <1> QED BY <1>3, <1>4, <1>5, <1>6, <1>7, <1>8 DEF RInv

LEMMA ReplyInvariant == Spec => [](IInv /\ RInv /\ IdleInv)
  <1>1. Init => RInv /\ IdleInv
    BY InitReply
  <1>2. IInv /\ RInv /\ IdleInv /\ [Next]_vars => RInv' /\ IdleInv'
    BY NextReply
  <1> QED BY <1>1, <1>2, ClientInvariant, PTL DEF Spec

-----------------------------------------------------------------------------
LEMMA TakenIsOwn == RInv => OwnReply
  <1> SUFFICES ASSUME RInv, NEW c \in Calls, ~AfterRefusal(c),
                      NEW i \in DOMAIN call[c].got
               PROVE  /\ call[c].got[i].to = c
                      /\ IsResult(call[c].got[i]) <=> i = Reads(call[c].op)
    BY DEF OwnReply, IsResult
  <1>1. ReplyOk(c)
    BY RInvParts DEF ReplyInv
  <1> QED BY <1>1 DEF ReplyOk

LEMMA ReturnedIsDecided == IInv /\ RInv => VerdictFaithful
  <1> SUFFICES ASSUME IInv, RInv, NEW c \in Calls, call[c].pc = "done", call[c].got # <<>>,
                      ~AfterRefusal(c)
               PROVE  /\ call[c].result = "ok" => verdict[c] = "ok"
                      /\ call[c].result \in {"fail", "incomplete", "nokey"}
                             => verdict[c] = "fail"
    BY DEF VerdictFaithful
  <1>1. ReplyOk(c)
    BY RInvParts DEF ReplyInv
  <1>2. call[c].got \in Seq(DownMsg) /\ call[c].op \in Operations
    BY DEF IInv, TypeOK, CallType
  <1>3. ASSUME NEW i \in DOMAIN call[c].got
        PROVE  /\ call[c].got[i].to = c
               /\ verdict[c] = IF call[c].got[i].body \in {"value", "ok"}
                               THEN "ok" ELSE "fail"
    <2>1. <<"got", c>> \in Places /\ flow[<<"got", c>>] = call[c].got
      BY FlowIs DEF Places
    <2>2. Truthful(call[c].got[i])
      BY <2>1, RInvParts DEF TruthInv
    <2> QED BY <1>1, <2>2 DEF ReplyOk, Truthful
  <1>4. CASE GaveUp(c)
    <2>1. 1 \in DOMAIN call[c].got
      BY <1>2, <1>4, LenProperties DEF GaveUp
    <2> QED BY <1>3, <1>4, <2>1 DEF GaveUp
  <1>5. CASE Whole(c)
    <2>1. Reads(call[c].op) \in DOMAIN call[c].got
      BY <1>2, <1>5, LenProperties DEF Whole, Reads
    <2>2. IsResult(Final(c))
      BY <1>1, <2>1 DEF ReplyOk, Final
    <2>3. verdict[c] = IF Final(c).body = "ok" THEN "ok" ELSE "fail"
      BY <1>3, <2>1, <2>2 DEF Final, IsResult
    <2>4. \/ GaveUp(c)
          \/ call[c].result = Outcome(Final(c))
          \/ call[c].result = "incomplete" /\ Final(c).body = "fail"
          \/ call[c].result = "ioerr"
      BY <1>1 DEF ReplyOk
    <2> QED BY <1>4, <2>2, <2>3, <2>4 DEF Outcome, IsResult
  <1> QED BY <1>1, <1>4, <1>5 DEF ReplyOk

\* Every message that an operation takes from its channel answers that very
\* call, data before result, however the calls, the handler, the server's
\* pushes and lost connections interleave; only a DoRequestPubKey that comes
\* after a refused one is excepted.
THEOREM RepliesAreOwn == Spec => []OwnReply
  BY TakenIsOwn, ReplyInvariant, PTL

\* What an operation that got an answer returns is what the server decided on
\* its own request: success only if it accepted, refusal only if it refused.
THEOREM VerdictsAreFaithful == Spec => []VerdictFaithful
  BY ReturnedIsDecided, ReplyInvariant, PTL

\* A channel of the capacity the code gives it (bufferSize is 10; two is
\* enough) has room for everything the server sends for one call: the handler
\* never waits for an operation to read, beside what refused DoRequestPubKey
\* calls left unread.
THEOREM ChannelsNeverFull ==
    ASSUME BufferSize >= 2
    PROVE  Spec => []NeverFull
  <1>1. ASSUME IInv, RInv
        PROVE  NeverFull
    <2> SUFFICES ASSUME NEW k \in Conns, hdl[k].pc = "send",
                        ~(hdl[k].chan \in Calls /\ AfterRefusal(hdl[k].chan))
                 PROVE  Len(buf[hdl[k].chan]) < Capacity
      BY DEF NeverFull
    <2> DEFINE h == hdl[k].chan
               m == hdl[k].msg
    <2>1. h \in Calls /\ ~AfterRefusal(h)
      BY <1>1, RInvParts DEF PushInv
    <2>2. buf[h] \in Seq(DownMsg) /\ Len(buf[h]) \in Nat
          /\ DOMAIN buf[h] = 1..Len(buf[h])
      BY <1>1, <2>1, LenProperties DEF IInv, TypeOK, Chans
    <2>3. m \in DownMsg /\ m.to = h /\ Truthful(m)
          /\ <<"hdl", k>> \in Places /\ flow[<<"hdl", k>>] = <<m>>
      <3>1. <<"hdl", k>> \in Places /\ flow[<<"hdl", k>>] = <<m>>
        BY FlowIs DEF Places, HoldingPCs, Conns
      <3>2. flow \in Flows
        BY <1>1, FlowTyped
      <3>3. m \in DownMsg
        <4>1. <<m>> \in Seq(DownMsg)
          BY <3>1, <3>2 DEF Flows
        <4>2. 1 \in DOMAIN <<m>> /\ <<m>>[1] = m
          OBVIOUS
        <4> QED BY <4>1, <4>2
      <3>4. Truthful(m)
        BY <1>1, <3>1, RInvParts DEF TruthInv
      <3> QED BY <1>1, <2>1, <3>1, <3>3, <3>4, RInvParts DEF ChannelInv
    <2>4. ASSUME NEW i \in DOMAIN buf[h]
          PROVE  buf[h][i] \in DownMsg /\ buf[h][i].to = h /\ Truthful(buf[h][i])
      <3>1. <<"buf", h>> \in Places /\ flow[<<"buf", h>>] = buf[h]
        BY <2>1, FlowIs DEF Places, Chans
      <3>2. Truthful(buf[h][i])
        BY <1>1, <3>1, RInvParts DEF TruthInv
      <3>3. buf[h][i].to = h
        BY <1>1, <2>1, RInvParts DEF ChannelInv
      <3>4. buf[h][i] \in DownMsg
        BY <2>2
      <3> QED BY <3>2, <3>3, <3>4
    <2>5. ASSUME NEW i \in DOMAIN buf[h]
          PROVE  IsData(buf[h][i]) <=> ~IsData(m)
      <3>1. buf[h][i] # m
        <4>1. <<"buf", h>> \in Places /\ flow[<<"buf", h>>] = buf[h]
          BY <2>1, FlowIs DEF Places, Chans
        <4>2. <<"buf", h>> # <<"hdl", k>>
          OBVIOUS
        <4>3. 1 \in DOMAIN <<m>> /\ <<m>>[1] = m
          OBVIOUS
        <4>4. Distinct(flow)
          BY <1>1, RInvParts DEF UniqueInv
        <4> QED BY <2>3, <4>1, <4>2, <4>3, <4>4 DEF Distinct
      <3> QED BY <2>1, <2>3, <2>4, <3>1, SameMessage
    <2>6. \A i, j \in DOMAIN buf[h] : i = j
      <3>1. <<"buf", h>> \in Places /\ flow[<<"buf", h>>] = buf[h]
        BY <2>1, FlowIs DEF Places, Chans
      <3>2. \A i, j \in DOMAIN flow[<<"buf", h>>] :
                flow[<<"buf", h>>][i] = flow[<<"buf", h>>][j] => i = j
        BY <1>1, <3>1, RInvParts DEF UniqueInv, Distinct
      <3>3. \A i, j \in DOMAIN buf[h] : buf[h][i] = buf[h][j]
        BY <2>1, <2>4, <2>5, SameMessage
      <3> QED BY <3>1, <3>2, <3>3
    <2>7. Len(buf[h]) < 2
      <3>1. Len(buf[h]) >= 2 => 1 \in DOMAIN buf[h] /\ 2 \in DOMAIN buf[h]
        BY <2>2
      <3> QED BY <2>2, <2>6, <3>1
    <2> QED BY <2>2, <2>7, ClientAssumption DEF Capacity
  <1> QED BY <1>1, ReplyInvariant, PTL
=============================================================================
