----------------------------- MODULE ApplyProofs -----------------------------
(***************************************************************************)
(* Proofs about one click on Apply: what the anchors are told and answer,  *)
(* and the buttons while the thread works.                                 *)
(***************************************************************************)
EXTENDS AnchorHelperProofs

(***************************************************************************)
(* One click on Apply, and no anchor that hangs up: the conversation with  *)
(* an anchor, by where the thread is.                                      *)
(***************************************************************************)

\* Every connection runs on a descriptor of its own and belongs to the anchor that
\* points to it.
SocketsInv ==
  /\ \A c \in Conn : \/ conn[c].st = "unused" /\ conn[c].wire = "gone"
                     \/ /\ conn[c].st = "running" /\ conn[c].wire = "up"
                        /\ conn[c].id \in Known /\ anchor[conn[c].id].sock = c
  /\ \A c, d \in Conn : HoldsFd(c) /\ HoldsFd(d) /\ conn[c].fd = conn[d].fd => c = d
  /\ \A a \in Anchor : anchor[a].sock # NoConn =>
        conn[anchor[a].sock].st = "running" /\ conn[anchor[a].sock].id = a
  /\ \A t \in Job : /\ job[t].pc \in {"connecting", "opening"} => anchor[Current(t)].sock = NoConn
                    /\ job[t].pc = "opening" => Holders(opening[t].fd) = {}
                    /\ job[t].pc = "wait" => anchor[Current(t)].sock # NoConn

\* The thread has not reached, or is working for, the k-th anchor.
Ahead(k) == \A t \in Job : \/ job[t].pc \in {"unused", "connect", "connecting", "opening", "mark"}
                           \/ job[t].pc = "send" /\ job[t].i <= k
                           \/ job[t].pc = "wait" /\ job[t].i < k
WorkingFor(k) == \E t \in Job : job[t].pc = "wait" /\ job[t].i = k

SetCommand(m) == m.cmd \in {"setStatic", "useDhcp"}
GetCommand(m) == m.cmd \in {"getStatic", "getUse"}
Matches(r, a) == r.addr = dev[a].addr /\ r.net = dev[a].net

\* Nothing was sent; the set is under way; the get is behind it; the answer is on
\* its way back; the answer was handled.
Fresh(c) == /\ conn[c].out = <<>> /\ conn[c].in = <<>>
            /\ anchor[conn[c].id].status \notin Final
Told(c) == /\ Len(conn[c].out) = 1 /\ SetCommand(conn[c].out[1]) /\ conn[c].in = <<>>
           /\ anchor[conn[c].id].status \notin Final
Asked(c) == /\ \/ Len(conn[c].out) = 1 /\ GetCommand(conn[c].out[1])
               \/ /\ Len(conn[c].out) = 2
                  /\ SetCommand(conn[c].out[1]) /\ GetCommand(conn[c].out[2])
            /\ conn[c].in = <<>> /\ anchor[conn[c].id].status \notin Final
Answered(c) == /\ conn[c].out = <<>> /\ Len(conn[c].in) = 1
               /\ conn[c].in[1].cmd = "static" => Matches(conn[c].in[1], conn[c].id)
               /\ anchor[conn[c].id].status \notin Final
Settled(c) ==
  /\ conn[c].out = <<>> /\ conn[c].in = <<>>
  /\ LET a == conn[c].id IN
     anchor[a].status = "SET_STATIC_IP_OK" => dev[a].addr = anchor[a].ipSet /\ dev[a].net = net

Talk(c, k) == /\ Ahead(k) => Fresh(c)
              /\ WorkingFor(k) => Fresh(c) \/ Told(c)
              /\ ~Ahead(k) /\ ~WorkingFor(k) => Asked(c) \/ Answered(c) \/ Settled(c)

TalkInv == \A c \in Conn : conn[c].st = "running" =>
             \A k \in DOMAIN ancs : ancs[k] = conn[c].id => Talk(c, k)

\* An anchor without a connection has no answer to show.
SilentInv == \A a \in Anchor : anchor[a].sock = NoConn => anchor[a].status \notin Final

OneApplyInv == StartInv /\ NoDuplicates /\ SocketsInv /\ TalkInv /\ SilentInv

\* A connection that still has its wire is not closed.
LEMMA NoneCloses ==
  ASSUME SocketsInv, NEW c \in Conn
  PROVE  ~ConnectionClose(c) /\ ~ConnectionDelete(c) /\ ~Ended(c)
<1>1. \A b \in Conn : ~ConnectionClose(b) /\ ~ConnectionDelete(b)
  BY DEF SocketsInv, ConnectionClose, ConnectionDelete, Holders, HoldsFd
<1>2. \A t \in Job : ConnectToAnchor(t) => Holders(opening[t].fd) = {}
  BY DEF SocketsInv, ConnectToAnchor
<1> QED BY <1>1, <1>2 DEF Ended

\* A thread connects to an anchor that has no connection.
LEMMA ConnectingStep ==
  ASSUME TypeInv, Next, NEW t \in Job, job'[t].pc \in {"connecting", "opening"},
         job[t].pc \in {"connecting", "opening"} => anchor[Current(t)].sock = NoConn,
         \A a \in Anchor : anchor'[a].sock = anchor[a].sock
  PROVE  anchor'[Current(t)'].sock = NoConn
<1>1. CASE job[t].pc = job'[t].pc
  BY <1>1, CurrentStep
<1>3. CASE OpenSocket(t) /\ job[t].pc = "connecting" /\ job'[t].pc = "opening"
  <2>1. job'[t].i = job[t].i
    BY <1>3, IterStep DEF ConnectTurn, MarkConnect, SendTurn, SendGet
  <2>2. ancs' = ancs /\ Current(t) \in Anchor
    BY <1>3, CurrentKnown DEF OpenSocket, dbVars
  <2> QED BY <1>3, <2>1, <2>2 DEF Current
<1>2. CASE ConnectTurn(t) /\ job[t].pc = "connect" /\ job'[t].pc = "connecting"
  <2>1. ConnectTurn(t) /\ job[t].pc = "connect"
    BY <1>2
  <2>2. job'[t].i = job[t].i
    BY <1>2, IterStep DEF MarkConnect, SendTurn, SendGet
  <2>3. ~AtEnd(t) /\ CanDeref(t) /\ anchor[Current(t)].sock = NoConn /\ ancs' = ancs
    <3>1. ASSUME NextAnchor(t, "connect") \/ Goto(t, "send") PROVE FALSE
      BY <1>2, <3>1 DEF NextAnchor, Goto, TypeInv, TypeOK, ThreadType, JobRecord
    <3>2. ASSUME job' = [job EXCEPT ![t].pc = "send", ![t].i = 1, ![t].lim = -1] PROVE FALSE
      BY <1>2, <3>2 DEF TypeInv, TypeOK, ThreadType, JobRecord
    <3> QED BY <2>1, <3>1, <3>2 DEF ConnectTurn, SkipConnect, dbVars
  <2>4. Current(t) \in Anchor
    BY <2>3, CurrentKnown
  <2> QED BY <2>2, <2>3, <2>4 DEF Current
<1> QED BY <1>1, <1>2, <1>3, PcStep

LEMMA SocketsStep ==
  ASSUME OneApply, "drop" \notin Env, TypeInv, SocketsInv, Next PROVE SocketsInv'
<1>1. ASSUME NEW c \in Conn
      PROVE  \/ /\ conn'[c].st = conn[c].st /\ conn'[c].wire = conn[c].wire
                /\ conn'[c].id = conn[c].id /\ conn'[c].fd = conn[c].fd
             \/ Made(c)
  <2>1. ~Drop(c) /\ ~Ended(c)
    BY NoneCloses DEF Drop
  <2> QED BY <2>1, IdentityStep
<1>9. ASSUME NEW t \in Job, job'[t].pc = "opening", \A c \in Conn : ~Made(c)
      PROVE  Holders(opening[t].fd)' = {}
  <2>1. \A c \in Conn : /\ conn'[c].st = conn[c].st /\ conn'[c].wire = conn[c].wire
                        /\ conn'[c].id = conn[c].id /\ conn'[c].fd = conn[c].fd
    BY <1>1, <1>9
  <2>2. Holders(opening[t].fd)' = {c \in Conn : HoldsFd(c) /\ conn[c].fd = opening'[t].fd}
    BY <2>1 DEF Holders, HoldsFd
  <2>3. CASE opening'[t] = opening[t] /\ job[t].pc = "opening"
    BY <2>2, <2>3 DEF SocketsInv, Holders
  <2>4. CASE OpenSocket(t)
    <3>1. ASSUME UNCHANGED job PROVE FALSE
      BY <1>9, <2>4, <3>1 DEF OpenSocket
    <3>2. PICK n \in 1..(Cardinality(Conn) + Cardinality(Job) + 1) :
            FreeFd(n) /\ opening' = [opening EXCEPT ![t] = [fd |-> n, held |-> TRUE]]
      BY <2>4, <3>1 DEF OpenSocket
    <3>3. opening'[t].fd = n
      BY <3>2 DEF TypeInv, TypeOK, WireType
    <3> QED BY <2>2, <3>2, <3>3 DEF FreeFd, Free, Holders
  <2>5. \A u \in Job : ~ConnectToAnchor(u)
    <3> SUFFICES ASSUME NEW u \in Job, ConnectToAnchor(u) PROVE FALSE
      OBVIOUS
    <3>1. u = t
      BY DEF OneApply
    <3>2. PICK b \in BOOLEAN : job' = [job EXCEPT ![t].pc = "mark", ![t].ok = b]
      BY <3>1 DEF ConnectToAnchor
    <3> QED BY <1>9, <3>2 DEF TypeInv, TypeOK, ThreadType, JobRecord
  <2>6. job[t].pc = "opening" \/ OpenSocket(t)
    BY <1>9, PcStep
  <2> QED BY <2>3, <2>4, <2>5, <2>6, OpeningStep, NoneCloses
<1>2. Known \subseteq Known'
  BY KnownStep
<1>3. \A c \in Conn : conn[c].id \in Anchor /\ c # NoConn
  BY ConnAssumption DEF TypeInv, TypeOK, WireType, ConnRecord
<1>4. \A a \in Anchor : anchor[a].sock \in Conn \cup {NoConn}
  BY DEF TypeInv, TypeOK, DbType, AnchorObject
<1>5. ASSUME NEW t \in Job, job'[t].pc \in {"connecting", "opening"}, \A a \in Anchor : anchor'[a].sock = anchor[a].sock
      PROVE  anchor'[Current(t)'].sock = NoConn
  BY <1>5, ConnectingStep DEF SocketsInv
<1>6. ASSUME NEW t \in Job, job'[t].pc = "wait", \A a \in Anchor : anchor'[a].sock = anchor[a].sock
      PROVE  anchor'[Current(t)'].sock # NoConn
  <2>1. CASE job[t].pc = "wait"
    BY <1>6, <2>1, CurrentStep DEF SocketsInv
  <2>2. CASE job[t].pc # "wait"
    <3>1. SendTurn(t) /\ job[t].pc = "send"
      BY <1>6, <2>2, PcStep, SMTT(40)
    <3>2. job'[t].i = job[t].i
      BY <1>6, <3>1, IterStep DEF ConnectTurn, MarkConnect, SendGet
    <3>3. ~AtEnd(t) /\ CanDeref(t) /\ anchor[Current(t)].sock # NoConn /\ ancs' = ancs
      <4>1. ASSUME NextAnchor(t, "send") \/ Goto(t, "done") PROVE FALSE
        BY <1>6, <4>1 DEF NextAnchor, Goto, TypeInv, TypeOK, ThreadType, JobRecord
      <4> QED BY <3>1, <4>1 DEF SendTurn, dbVars
    <3>4. Current(t) \in Anchor
      BY <3>3, CurrentKnown
    <3> QED BY <1>6, <3>2, <3>3, <3>4 DEF Current
  <2> QED BY <2>1, <2>2
<1>7. CASE \A c \in Conn : ~Made(c)
  <2>1. \A a \in Anchor : anchor'[a].sock = anchor[a].sock
    BY <1>7, SockStep
  <2>2. \A c \in Conn : /\ conn'[c].st = conn[c].st /\ conn'[c].wire = conn[c].wire
                        /\ conn'[c].id = conn[c].id /\ conn'[c].fd = conn[c].fd
    BY <1>1, <1>7
  <2>3. \A c \in Conn : \/ conn'[c].st = "unused" /\ conn'[c].wire = "gone"
                        \/ /\ conn'[c].st = "running" /\ conn'[c].wire = "up"
                           /\ conn'[c].id \in Known' /\ anchor'[conn'[c].id].sock = c
    BY <1>2, <1>3, <2>1, <2>2 DEF SocketsInv
  <2>4. \A c, d \in Conn : HoldsFd(c)' /\ HoldsFd(d)' /\ conn'[c].fd = conn'[d].fd => c = d
    BY <2>2 DEF SocketsInv, HoldsFd
  <2>5. \A a \in Anchor : anchor'[a].sock # NoConn =>
          conn'[anchor'[a].sock].st = "running" /\ conn'[anchor'[a].sock].id = a
    BY <1>4, <2>1, <2>2 DEF SocketsInv
  <2> QED BY <1>5, <1>6, <1>7, <1>9, <2>1, <2>3, <2>4, <2>5 DEF SocketsInv
<1>8. ASSUME NEW c \in Conn, Made(c) PROVE SocketsInv'
  <2>1. PICK t \in Job :
           /\ job[t].pc = "opening" /\ job'[t].pc = "mark"
           /\ Current(t) \in Anchor /\ Current(t) \in Known
           /\ conn[c].st = "unused"
           /\ conn'[c].st = "running" /\ conn'[c].wire = "up" /\ conn'[c].id = Current(t)
           /\ conn'[c].fd = opening[t].fd
           /\ \A d \in Conn \ {c} : conn'[d] = conn[d]
           /\ anchor'[Current(t)].sock = c
           /\ \A a \in Anchor \ {Current(t)} : anchor'[a] = anchor[a]
    BY <1>8, MadeFields
  <2>2. anchor[Current(t)].sock = NoConn /\ Holders(opening[t].fd) = {}
    BY <2>1 DEF SocketsInv
  <2>3. \A d \in Conn : \/ conn'[d].st = "unused" /\ conn'[d].wire = "gone"
                        \/ /\ conn'[d].st = "running" /\ conn'[d].wire = "up"
                           /\ conn'[d].id \in Known' /\ anchor'[conn'[d].id].sock = d
    BY <1>2, <1>3, <2>1, <2>2 DEF SocketsInv
  <2>4. \A d, e \in Conn : HoldsFd(d)' /\ HoldsFd(e)' /\ conn'[d].fd = conn'[e].fd => d = e
    BY <2>1, <2>2 DEF SocketsInv, HoldsFd, Holders
  <2>5. \A a \in Anchor : anchor'[a].sock # NoConn =>
          conn'[anchor'[a].sock].st = "running" /\ conn'[anchor'[a].sock].id = a
    BY <1>4, <2>1 DEF SocketsInv
  <2>6. \A u \in Job : job'[u].pc = "mark"
    BY <2>1 DEF OneApply
  <2> QED BY <2>3, <2>4, <2>5, <2>6 DEF SocketsInv
<1> QED BY <1>7, <1>8

\* What is sent over the socket of an anchor reaches that anchor.
LEMMA SendReaches ==
  ASSUME SocketsInv, NEW d \in Conn, conn[d].st = "running", NEW m, SendFrame(d, m)
  PROVE  conn' = [conn EXCEPT ![d].out = Append(@, m)]
<1>1. d \in Holders(conn[d].fd) /\ conn[d].wire = "up"
  BY DEF SocketsInv, Holders, HoldsFd
<1>2. \A e \in Holders(conn[d].fd) : e = d
  BY <1>1 DEF SocketsInv, Holders
<1> QED BY <1>1, <1>2 DEF SendFrame

\* A thread of a running connection reads what came in over that connection.
LEMMA ReadsItsOwn ==
  ASSUME SocketsInv, NEW b \in Conn, NEW d \in Conn, NEW cmd, Receive(b, d, cmd) PROVE b = d
  BY DEF SocketsInv, Receive, Holders, HoldsFd

\* The steps of the thread that precede the first command, for a connection that was
\* there before.
LEMMA TalkBefore ==
  ASSUME OneApply, TypeInv, NEW t \in Job,
         ConnectTurn(t) \/ OpenSocket(t) \/ ConnectToAnchor(t) \/ MarkConnect(t), SocketsInv,
         NEW c \in Conn, conn[c].st = "running", NEW k, Talk(c, k)
  PROVE  Talk(c, k)'
<1>1. job[t].pc \in {"connect", "connecting", "opening", "mark"}
  BY DEF ConnectTurn, OpenSocket, ConnectToAnchor, MarkConnect
<1>2. Fresh(c)
  BY <1>1 DEF Talk, Ahead, OneApply
<1>3. conn \in [Conn -> ConnRecord] /\ conn[c].id \in Anchor /\ anchor \in [Anchor -> AnchorObject]
  BY DEF TypeInv, TypeOK, WireType, ConnRecord, DbType
<1>4. Fresh(c)'
  <2>1. CASE ConnectTurn(t)
    BY <1>2, <2>1 DEF Fresh, ConnectTurn, dbVars
  <2>2. CASE ConnectToAnchor(t)
    <3>1. conn'[c] = conn[c]
      <4>1. Holders(opening[t].fd) = {}
        BY <2>2 DEF SocketsInv, ConnectToAnchor
      <4>2. CASE conn' = Closed(opening[t].fd)
        BY <4>1, <4>2 DEF Closed
      <4>3. ASSUME NEW d \in Conn, NEW v, conn' = [conn EXCEPT ![d] = v], conn[d].st = "unused"
            PROVE  conn'[c] = conn[c]
        BY <1>3, <4>3
      <4> QED BY <2>2, <4>2, <4>3 DEF ConnectToAnchor
    <3>2. anchor'[conn[c].id].status = anchor[conn[c].id].status
      <4>1. Current(t) \in Anchor
        BY <2>2, CurrentKnown DEF ConnectToAnchor
      <4>2. UNCHANGED anchor \/ \E v : anchor' = [anchor EXCEPT ![Current(t)].sock = v]
        BY <2>2 DEF ConnectToAnchor
      <4> QED BY <1>3, <4>1, <4>2 DEF AnchorObject
    <3> QED BY <1>2, <3>1, <3>2 DEF Fresh
  <2>3. CASE MarkConnect(t)
    <3>1. conn' = conn
      BY <2>3 DEF MarkConnect
    <3>2. Current(t) \in Anchor
      BY <2>3, CurrentKnown DEF MarkConnect
    <3>3. PICK v \in {"CONNECTED", "CONNECT_FAILED"} :
            anchor' = [anchor EXCEPT ![Current(t)].status = v]
      BY <2>3 DEF MarkConnect, Marked
    <3>4. anchor'[conn[c].id].status \in {v, anchor[conn[c].id].status}
      BY <1>3, <3>2, <3>3 DEF AnchorObject
    <3> QED BY <1>2, <3>1, <3>3, <3>4 DEF Fresh, Final
  <2>4. CASE OpenSocket(t)
    BY <1>2, <2>4 DEF Fresh, OpenSocket, dbVars
  <2> QED BY <2>1, <2>2, <2>3, <2>4
<1> QED BY <1>4 DEF Talk, Fresh, Settled, Final

\* The steps that send.
LEMMA TalkSend ==
  ASSUME OneApply, TypeInv, NoDuplicates, SocketsInv, NEW t \in Job, SendTurn(t) \/ SendGet(t),
         NEW c \in Conn, conn[c].st = "running",
         NEW k \in DOMAIN ancs, ancs[k] = conn[c].id, Talk(c, k)
  PROVE  Talk(c, k)'
<1> DEFINE a == Current(t)
<1>1. /\ conn \in [Conn -> ConnRecord] /\ conn[c] \in ConnRecord
      /\ ancs \in Seq(Anchor) /\ k \in 1..Len(ancs)
      /\ job \in [Job -> JobRecord] /\ job[t] \in JobRecord /\ job[t].i \in Nat \ {0}
  BY DEF TypeInv, TypeOK, WireType, DbType, ThreadType, JobRecord
<1>2. UNCHANGED <<anchor, net, ancs, dev>>
  BY DEF SendTurn, SendGet, dbVars, jobRest
<1>3. conn'[c] = conn[c] => /\ Fresh(c)' = Fresh(c) /\ Told(c)' = Told(c) /\ Asked(c)' = Asked(c)
                            /\ Answered(c)' = Answered(c) /\ Settled(c)' = Settled(c)
  BY <1>2 DEF Fresh, Told, Asked, Answered, Settled, Matches
<1>4. Fresh(c) => Settled(c)
  BY DEF Fresh, Settled, Final
<1>5. \A u \in Job : u = t
  BY DEF OneApply
<1>6. CASE Goto(t, "done") /\ AtEnd(t) /\ job[t].pc = "send" /\ conn' = conn
  <2>1. job[t].i > k
    BY <1>1, <1>6 DEF AtEnd
  <2>2. ~Ahead(k) /\ ~WorkingFor(k)
    BY <1>1, <1>5, <1>6, <2>1 DEF Ahead, WorkingFor
  <2>3. job'[t].pc = "done"
    BY <1>1, <1>6 DEF Goto, JobRecord
  <2>4. ~Ahead(k)' /\ ~WorkingFor(k)'
    BY <1>5, <2>3 DEF Ahead, WorkingFor
  <2> QED BY <1>3, <1>6, <2>2, <2>4 DEF Talk
<1>7. CASE NextAnchor(t, "send") /\ job[t].pc = "send" /\ conn' = conn
  <2>1. job'[t].pc = "send" /\ job'[t].i = job[t].i + 1
    BY <1>1, <1>7 DEF NextAnchor, JobRecord
  <2>2. Ahead(k) <=> job[t].i <= k
    BY <1>5, <1>7 DEF Ahead
  <2>3. Ahead(k)' <=> job[t].i + 1 <= k
    BY <1>5, <2>1 DEF Ahead
  <2>4. ~WorkingFor(k) /\ ~WorkingFor(k)'
    BY <1>5, <1>7, <2>1 DEF WorkingFor
  <2>5. Ahead(k)' => Ahead(k)
    BY <1>1, <2>2, <2>3
  <2> QED BY <1>3, <1>4, <1>7, <2>4, <2>5 DEF Talk
<1>8. CASE /\ job[t].pc = "send" /\ ~AtEnd(t) /\ CanDeref(t) /\ anchor[a].sock # NoConn
           /\ SendFrame(anchor[a].sock, SetCmd(a))
           /\ job' = [job EXCEPT ![t].pc = "wait", ![t].dhcp = useDHCP]
  <2> DEFINE d == anchor[a].sock
             m == SetCmd(a)
  <2>1. a \in Anchor /\ job[t].i \in DOMAIN ancs
    BY <1>1, <1>8, CurrentKnown
  <2>2. d \in Conn /\ conn[d].st = "running" /\ conn[d].id = a
    BY <1>8, <2>1 DEF SocketsInv, TypeInv, TypeOK, DbType, AnchorObject
  <2>3. conn' = [conn EXCEPT ![d].out = Append(@, m)]
    BY <1>8, <2>2, SendReaches
  <2>4. job'[t].pc = "wait" /\ job'[t].i = job[t].i
    BY <1>1, <1>8 DEF JobRecord
  <2>5. /\ Ahead(k) <=> job[t].i <= k
        /\ ~WorkingFor(k)
        /\ Ahead(k)' <=> job[t].i < k
        /\ WorkingFor(k)' <=> job[t].i = k
    BY <1>5, <1>8, <2>4 DEF Ahead, WorkingFor
  <2>6. CASE c = d
    <3>1. k = job[t].i
      BY <2>1, <2>2, <2>6 DEF NoDuplicates, Current
    <3>2. Fresh(c)
      BY <1>1, <2>5, <3>1 DEF Talk
    <3>3. conn'[c].out = Append(conn[c].out, m) /\ conn'[c].in = conn[c].in /\ conn'[c].id = conn[c].id
      BY <1>1, <2>3, <2>6 DEF ConnRecord
    <3>4. Len(conn'[c].out) = 1 /\ conn'[c].out[1] = m
      BY <3>2, <3>3 DEF Fresh
    <3>5. SetCommand(m)
      BY DEF SetCommand, SetCmd
    <3>6. Told(c)'
      BY <1>2, <3>2, <3>3, <3>4, <3>5 DEF Told, Fresh, SetCommand
    <3> QED BY <1>1, <2>5, <3>1, <3>6 DEF Talk
  <2>7. CASE c # d
    <3>1. conn'[c] = conn[c]
      BY <1>1, <2>3, <2>7, SMTT(40)
    <3>2. k # job[t].i
      BY <2>2, <2>7 DEF SocketsInv, Current
    <3> QED BY <1>1, <1>3, <2>5, <3>1, <3>2 DEF Talk
  <2> QED BY <2>6, <2>7
<1>9. CASE SendGet(t)
  <2> DEFINE d == anchor[a].sock
             m == GetCmd(job[t].dhcp)
  <2>1. job[t].pc = "wait" /\ a \in Anchor /\ job[t].i \in DOMAIN ancs
    BY <1>1, <1>9, CurrentKnown DEF SendGet
  <2>2. d \in Conn /\ conn[d].st = "running" /\ conn[d].id = a
    BY <2>1 DEF SocketsInv, TypeInv, TypeOK, DbType, AnchorObject
  <2>3. conn' = [conn EXCEPT ![d].out = Append(@, m)]
    BY <1>9, <2>2, SendReaches DEF SendGet
  <2>4. job'[t].pc = "send" /\ job'[t].i = job[t].i + 1
    BY <1>1, <1>9 DEF SendGet, NextAnchor, JobRecord
  <2>5. /\ Ahead(k) <=> job[t].i < k
        /\ WorkingFor(k) <=> job[t].i = k
        /\ Ahead(k)' <=> job[t].i + 1 <= k
        /\ ~WorkingFor(k)'
    BY <1>5, <2>1, <2>4 DEF Ahead, WorkingFor
  <2>6. CASE c = d
    <3>1. k = job[t].i
      BY <2>1, <2>2, <2>6 DEF NoDuplicates, Current
    <3>2. Fresh(c) \/ Told(c)
      BY <2>5, <3>1, SMTT(40) DEF Talk
    <3>3. conn'[c].out = Append(conn[c].out, m) /\ conn'[c].in = conn[c].in /\ conn'[c].id = conn[c].id
      BY <1>1, <2>3, <2>6 DEF ConnRecord
    <3>4. GetCommand(m)
      BY DEF GetCommand, GetCmd
    <3>5. conn[c].out \in Seq(Command)
      BY <1>1 DEF ConnRecord
    <3>6. ASSUME Fresh(c) PROVE Asked(c)'
      <4>1. Len(conn'[c].out) = 1 /\ conn'[c].out[1] = m
        BY <3>3, <3>6 DEF Fresh
      <4> QED BY <1>2, <3>3, <3>4, <3>6, <4>1 DEF Asked, Fresh, GetCommand
    <3>7. ASSUME Told(c) PROVE Asked(c)'
      <4>1. Len(conn'[c].out) = 2 /\ conn'[c].out[1] = conn[c].out[1] /\ conn'[c].out[2] = m
        BY <3>3, <3>5, <3>7 DEF Told
      <4> QED BY <1>2, <3>3, <3>4, <3>7, <4>1 DEF Asked, Told, GetCommand, SetCommand
    <3>8. Asked(c)'
      BY <3>2, <3>6, <3>7
    <3> QED BY <1>1, <2>5, <3>1, <3>8 DEF Talk
  <2>7. CASE c # d
    <3>1. conn'[c] = conn[c]
      BY <1>1, <2>3, <2>7
    <3>2. k # job[t].i
      BY <2>2, <2>7 DEF SocketsInv, Current
    <3> QED BY <1>1, <1>3, <2>5, <3>1, <3>2 DEF Talk
  <2> QED BY <2>6, <2>7
<1>10. CASE SendTurn(t)
  BY <1>6, <1>7, <1>8, <1>10 DEF SendTurn
<1> QED BY <1>9, <1>10

\* The anchor serves the command at the head of its connection.
LEMMA TalkServe ==
  ASSUME TypeInv, SocketsInv, NEW d \in Conn, DeviceStep(d),
         NEW c \in Conn, conn[c].st = "running", NEW k, Talk(c, k)
  PROVE  Talk(c, k)'
<1>1. /\ conn \in [Conn -> ConnRecord] /\ conn[c] \in ConnRecord /\ conn[c].id \in Anchor
      /\ conn[c].out \in Seq(Command) /\ dev \in [Anchor -> DevRecord]
  BY SMTT(40) DEF TypeInv, TypeOK, WireType, ConnRecord
<1>2. UNCHANGED <<anchor, net, ancs, job>>
  BY DEF DeviceStep, dbVars
<1>3. Ahead(k)' = Ahead(k) /\ WorkingFor(k)' = WorkingFor(k)
  BY <1>2 DEF Ahead, WorkingFor
<1>4. CASE c # d
  <2>1. conn'[c] = conn[c]
    BY <1>1, <1>4 DEF DeviceStep
  <2>2. conn[d].id # conn[c].id
    <3>1. conn[d].wire = "up"
      BY DEF DeviceStep
    <3> QED BY <1>4, <3>1 DEF SocketsInv
  <2>3. dev'[conn[c].id] = dev[conn[c].id]
    BY <1>1, <2>2 DEF DeviceStep
  <2> QED BY <1>2, <1>3, <2>1, <2>3 DEF Talk, Fresh, Told, Asked, Answered, Settled, Matches
<1>5. CASE c = d
  <2> DEFINE m == Head(conn[c].out)
             a == conn[c].id
  <2>1. conn[c].out # <<>> /\ m = conn[c].out[1]
    BY <1>1, <1>5 DEF DeviceStep
  <2>2. ~Fresh(c) /\ ~Answered(c) /\ ~Settled(c) /\ ~Ahead(k)
    BY <2>1, SMTT(40) DEF Fresh, Answered, Settled, Talk
  <2>3. ASSUME SetCommand(m)
        PROVE  conn' = [conn EXCEPT ![c].out = Tail(@)]
    BY <1>5, <2>3 DEF DeviceStep, SetCommand
  <2>4. CASE WorkingFor(k)
    <3>1. Told(c)
      BY <2>2, <2>4 DEF Talk
    <3>2. conn' = [conn EXCEPT ![c].out = Tail(@)]
      BY <2>1, <2>3, <3>1 DEF Told
    <3>3. conn'[c].out = <<>> /\ conn'[c].in = conn[c].in /\ conn'[c].id = conn[c].id
      <4>1. conn'[c].out = Tail(conn[c].out) /\ conn'[c].in = conn[c].in /\ conn'[c].id = conn[c].id
        BY <1>1, <3>2 DEF ConnRecord
      <4> QED BY <1>1, <3>1, <4>1, TailOfOne DEF Told
    <3>4. Fresh(c)'
      BY <1>2, <3>1, <3>3 DEF Fresh, Told
    <3> QED BY <1>3, <2>2, <2>4, <3>4 DEF Talk
  <2>5. CASE ~WorkingFor(k)
    <3>1. Asked(c)
      BY <2>2, <2>5 DEF Talk
    <3>2. CASE Len(conn[c].out) = 1 /\ GetCommand(conn[c].out[1])
      <4>1. PICK r \in {[cmd |-> "static", addr |-> dev[a].addr, net |-> dev[a].net],
                        [cmd |-> "use", value |-> dev[a].static]} :
              /\ conn' = [conn EXCEPT ![c].out = Tail(@), ![c].in = Append(@, r)]
              /\ UNCHANGED dev
        BY <1>5, <2>1, <3>2 DEF DeviceStep, GetCommand
      <4>2. /\ conn'[c].out = Tail(conn[c].out) /\ conn'[c].in = Append(conn[c].in, r)
            /\ conn'[c].id = conn[c].id
        BY <1>1, <4>1 DEF ConnRecord
      <4>3. conn'[c].out = <<>>
        BY <1>1, <3>2, <4>2, TailOfOne
      <4>4. Len(conn'[c].in) = 1 /\ conn'[c].in[1] = r
        BY <3>1, <4>2 DEF Asked
      <4>5. r.cmd = "static" => r.addr = dev[a].addr /\ r.net = dev[a].net
        BY <4>1
      <4>6. Answered(c)'
        BY <1>2, <3>1, <4>1, <4>2, <4>3, <4>4, <4>5 DEF Answered, Asked, Matches
      <4> QED BY <1>3, <2>2, <2>5, <4>6, SMTT(40) DEF Talk
    <3>3. CASE Len(conn[c].out) = 2 /\ SetCommand(conn[c].out[1]) /\ GetCommand(conn[c].out[2])
      <4>1. conn' = [conn EXCEPT ![c].out = Tail(@)]
        BY <2>1, <2>3, <3>3
      <4>2. conn'[c].out = Tail(conn[c].out) /\ conn'[c].in = conn[c].in /\ conn'[c].id = conn[c].id
        BY <1>1, <4>1 DEF ConnRecord
      <4>3. Len(conn'[c].out) = 1 /\ conn'[c].out[1] = conn[c].out[2]
        BY <1>1, <3>3, <4>2
      <4>4. Asked(c)'
        BY <1>2, <3>1, <3>3, <4>2, <4>3 DEF Asked, GetCommand
      <4> QED BY <1>3, <2>2, <2>5, <4>4 DEF Talk
    <3> QED BY <3>1, <3>2, <3>3 DEF Asked
  <2> QED BY <2>4, <2>5
<1> QED BY <1>4, <1>5

\* The AnchorConnection thread handles the reply at the head of its connection.
LEMMA TalkRead ==
  ASSUME TypeInv, SocketsInv, NEW b \in Conn, NEW d \in Conn,
         HandleUseStaticAddr(b, d) \/ HandleSetStaticAddr(b, d),
         NEW c \in Conn, conn[c].st = "running", NEW k, Talk(c, k)
  PROVE  Talk(c, k)'
<1>1. /\ conn \in [Conn -> ConnRecord] /\ conn[c] \in ConnRecord /\ conn[c].id \in Anchor
      /\ conn[d] \in ConnRecord /\ conn[d].in \in Seq(Reply) /\ conn[d].id \in Anchor
      /\ anchor \in [Anchor -> AnchorObject]
  BY DEF TypeInv, TypeOK, WireType, ConnRecord, DbType
<1>2. UNCHANGED <<net, ancs, job, dev>>
  BY DEF HandleUseStaticAddr, HandleSetStaticAddr, connRest
<1>3. Ahead(k)' = Ahead(k) /\ WorkingFor(k)' = WorkingFor(k)
  BY <1>2 DEF Ahead, WorkingFor
<1>4. b = d
  BY ReadsItsOwn DEF HandleUseStaticAddr, HandleSetStaticAddr
<1>5. conn' = [conn EXCEPT ![d].in = Tail(@)] /\ conn[d].in # <<>> /\ conn[d].st = "running"
  BY <1>4 DEF HandleUseStaticAddr, HandleSetStaticAddr, Receive
<1> DEFINE a == conn[d].id
           r == Head(conn[d].in)
<1>6. \/ anchor' = [anchor EXCEPT ![a].status = UseStaticStatus(r.value)]
      \/ r.cmd = "static" /\ IsApplied(a, r) /\ anchor' = [anchor EXCEPT ![a].status = "SET_STATIC_IP_OK"]
      \/ anchor' = anchor
  BY <1>4 DEF HandleUseStaticAddr, HandleSetStaticAddr, Receive
<1>7. CASE c # d
  <2>1. conn'[c] = conn[c]
    BY <1>1, <1>5, <1>7
  <2>2. conn[d].id # conn[c].id
    BY <1>5, <1>7 DEF SocketsInv
  <2>3. anchor'[conn[c].id] = anchor[conn[c].id]
    BY <1>1, <1>6, <2>2
  <2> QED BY <1>2, <1>3, <2>1, <2>3 DEF Talk, Fresh, Told, Asked, Answered, Settled, Matches
<1>8. CASE c = d
  <2>1. Answered(c) /\ ~Ahead(k) /\ ~WorkingFor(k)
    BY <1>5, <1>8 DEF Talk, Fresh, Told, Asked, Settled
  <2>2. conn'[c].in = Tail(conn[c].in) /\ conn'[c].out = conn[c].out /\ conn'[c].id = a
    BY <1>1, <1>5, <1>8 DEF ConnRecord
  <2>3. conn'[c].in = <<>> /\ conn'[c].out = <<>> /\ r = conn[c].in[1]
    BY <1>1, <1>8, <2>1, <2>2, TailOfOne DEF Answered
  <2>4. anchor'[a].ipSet = anchor[a].ipSet
    BY <1>1, <1>6 DEF AnchorObject
  <2>5. anchor'[a].status = "SET_STATIC_IP_OK" => dev[a].addr = anchor[a].ipSet /\ dev[a].net = net
    <3>1. CASE anchor' = [anchor EXCEPT ![a].status = UseStaticStatus(r.value)]
      BY <1>1, <3>1 DEF UseStaticStatus, AnchorObject
    <3>2. CASE /\ r.cmd = "static" /\ IsApplied(a, r)
               /\ anchor' = [anchor EXCEPT ![a].status = "SET_STATIC_IP_OK"]
      BY <1>8, <2>1, <2>3, <3>2 DEF Answered, Matches, IsApplied
    <3>3. CASE anchor' = anchor
      BY <1>8, <2>1, <3>3 DEF Answered, Final
    <3> QED BY <1>6, <3>1, <3>2, <3>3
  <2>6. Settled(c)'
    BY <1>2, <2>2, <2>3, <2>4, <2>5 DEF Settled
  <2> QED BY <1>3, <2>1, <2>6 DEF Talk
<1> QED BY <1>7, <1>8

\* A connection that is new, or was there before.
LEMMA TalkStep ==
  ASSUME OneApply, "drop" \notin Env, TypeInv, NoDuplicates, StartInv, SocketsInv, TalkInv, Next
  PROVE  TalkInv'
<1> SUFFICES ASSUME NEW c \in Conn, conn'[c].st = "running",
                    NEW k \in DOMAIN ancs', ancs'[k] = conn'[c].id
             PROVE  Talk(c, k)'
  BY DEF TalkInv
<1>1. CASE Made(c)
  <2>1. PICK t \in Job :
          /\ job[t].pc = "opening" /\ job'[t].pc = "mark" /\ ConnectToAnchor(t)
          /\ Current(t) \in Anchor /\ conn[c].st = "unused" /\ conn'[c].id = Current(t)
          /\ conn'[c].out = conn[c].out /\ conn'[c].in = conn[c].in
    BY <1>1, MadeFields
  <2>2. BeforeSending
    BY <2>1 DEF OneApply, BeforeSending
  <2>3. \A u \in Job : job'[u].pc = "mark"
    BY <2>1 DEF OneApply
  <2>4. anchor'[Current(t)].status = anchor[Current(t)].status
    <3>1. \E v : anchor' = [anchor EXCEPT ![Current(t)].sock = v]
      BY <1>1 DEF Made, OneApply
    <3> QED BY <2>1, <3>1 DEF TypeInv, TypeOK, DbType, AnchorObject
  <2>5. Fresh(c)'
    BY <2>1, <2>2, <2>4 DEF Fresh, StartInv, SilenceInv
  <2>6. Ahead(k)' /\ ~WorkingFor(k)'
    BY <2>3 DEF Ahead, WorkingFor
  <2> QED BY <2>5, <2>6 DEF Talk
<1>2. CASE ~Made(c)
  <2>1. conn'[c].id = conn[c].id /\ conn[c].st = "running"
    <3>1. ~Drop(c) /\ ~Ended(c)
      BY NoneCloses DEF Drop
    <3> QED BY <1>2, <3>1, IdentityStep
  <2>2. k \in DOMAIN ancs /\ ancs[k] = conn[c].id
    <3>1. PICK l \in DOMAIN ancs : ancs[l] = conn[c].id
      BY <2>1 DEF SocketsInv, Known
    <3>2. l \in DOMAIN ancs' /\ ancs'[l] = ancs[l]
      <4>1. ancs \in Seq(Anchor) /\ ancs' \in Seq(Anchor)
        BY TypeStep DEF TypeInv, TypeOK, DbType
      <4> QED BY <4>1, AncsKept
    <3>3. NoDuplicates'
      BY DuplicatesStep
    <3>4. k = l
      BY <2>1, <3>1, <3>2, <3>3 DEF NoDuplicates
    <3> QED BY <3>1, <3>4
  <2>3. Talk(c, k)
    BY <2>1, <2>2 DEF TalkInv
  <2>4. ASSUME NEW t \in Job, TryConnect(t) PROVE Talk(c, k)'
    <3>1. CASE StaleIterator(t)
      BY <2>3, <3>1 DEF StaleIterator, dbVars, wireVars, Talk, Ahead, WorkingFor, Fresh, Told,
         Asked, Answered, Settled, Matches
    <3> QED BY <2>1, <2>2, <2>3, <2>4, <3>1, TalkBefore, TalkSend DEF TryConnect
  <2>5. ASSUME NEW d \in Conn, DeviceStep(d) PROVE Talk(c, k)'
    BY <2>1, <2>3, <2>5, TalkServe
  <2>6. ASSUME NEW b \in Conn, NEW d \in Conn, HandleUseStaticAddr(b, d) \/ HandleSetStaticAddr(b, d)
        PROVE  Talk(c, k)'
    BY <2>1, <2>3, <2>6, TalkRead
  <2>7. \A t \in Job : ~OnBtnApply(t)
    <3> SUFFICES ASSUME NEW t \in Job, OnBtnApply(t) PROVE FALSE
      OBVIOUS
    <3>1. BeforeApply
      BY DEF OnBtnApply, OneApply, BeforeApply
    <3> QED BY <2>1, <3>1 DEF StartInv, IdleInv
  <2>8. CASE /\ \A t \in Job : ~TryConnect(t)
             /\ \A d \in Conn : ~DeviceStep(d)
             /\ \A b, d \in Conn : ~HandleUseStaticAddr(b, d) /\ ~HandleSetStaticAddr(b, d)
    <3>1. \A t \in Job : job'[t].pc = job[t].pc /\ job'[t].i = job[t].i
      BY <2>7, <2>8, StillStep
    <3>2. conn'[c] = conn[c]
      <4>1. ~Drop(c) /\ ~Ended(c)
        BY NoneCloses DEF Drop
      <4> QED BY <1>2, <2>8, <4>1, ConnStep
             DEF SentTo, SendsSet, SendsGet, Served, ReadFrom, TryConnect
    <3>3. conn[c].id \in Anchor
      BY DEF TypeInv, TypeOK, WireType, ConnRecord
    <3>4. anchor'[conn[c].id].status = anchor[conn[c].id].status
      BY <2>8, <3>3, StatusStep DEF TryConnect
    <3>5. dev'[conn[c].id] = dev[conn[c].id]
      BY <2>8, <3>3, DevStep
    <3>6. net' = net /\ anchor'[conn[c].id].ipSet = anchor[conn[c].id].ipSet
      BY <2>7, <3>3, SetStep
    <3>7. Ahead(k)' = Ahead(k) /\ WorkingFor(k)' = WorkingFor(k)
      BY <3>1 DEF Ahead, WorkingFor
    <3> QED BY <2>3, <3>2, <3>4, <3>5, <3>6, <3>7
            DEF Talk, Fresh, Told, Asked, Answered, Settled, Matches
  <2> QED BY <2>4, <2>5, <2>6, <2>8
<1> QED BY <1>1, <1>2

LEMMA SilentStep ==
  ASSUME "drop" \notin Env, OneApply, TypeInv, SocketsInv, SilentInv, Next PROVE SilentInv'
<1> SUFFICES ASSUME NEW a \in Anchor, anchor'[a].sock = NoConn
             PROVE  anchor'[a].status \notin Final
  BY DEF SilentInv
<1>1. anchor[a].sock = NoConn
  <2>1. ASSUME NEW c \in Conn, Made(c) PROVE anchor'[a] = anchor[a]
    <3>1. c # NoConn
      BY ConnAssumption
    <3> QED BY <2>1, <3>1, MadeFields
  <2> QED BY <2>1, SockStep
<1>2. anchor[a].status \notin Final
  BY <1>1 DEF SilentInv
<1>3. \A c \in Conn : conn[c].st = "running" => conn[c].id # a
  BY <1>1, ConnAssumption DEF SocketsInv
<1>4. \A c, d \in Conn : HandleUseStaticAddr(c, d) \/ HandleSetStaticAddr(c, d) => conn[c].st = "running"
  BY DEF HandleUseStaticAddr, HandleSetStaticAddr, Receive
<1>5. \A b, ok : Marked(b, ok) \notin Final
  BY DEF Marked, Final
<1> QED BY <1>2, <1>3, <1>4, <1>5, StatusStep

LEMMA InitOneApply == Init => TypeInv /\ OneApplyInv
<1> SUFFICES ASSUME Init PROVE TypeInv /\ OneApplyInv
  OBVIOUS
<1>1. TypeInv
  BY InitType DEF Init, TypeInv, IteratorsInRange
<1>2. NoDuplicates
  BY DEF Init, NoDuplicates
<1>3. \A c \in Conn : conn[c].st = "unused" /\ conn[c].wire = "gone"
  BY DEF Init
<1>4. \A a \in Anchor : anchor[a].sock = NoConn /\ anchor[a].status = "NOT_CONNECTED"
  BY DEF Init, NewAnchor
<1>5. \A t \in Job : job[t].pc = "unused"
  BY DEF Init
<1>6. SocketsInv /\ TalkInv /\ SilentInv
  BY <1>3, <1>4, <1>5 DEF SocketsInv, HoldsFd, TalkInv, SilentInv, Final
<1> QED BY <1>1, <1>2, <1>6, InitStart DEF OneApplyInv

LEMMA OneApplyStep ==
  ASSUME OneApply, "drop" \notin Env, TypeInv, OneApplyInv, [Next]_vars PROVE OneApplyInv'
<1>1. CASE Next
  BY <1>1, DuplicatesStep, StartStep, SocketsStep, TalkStep, SilentStep DEF OneApplyInv
<1>2. CASE UNCHANGED vars
  <2>1. StartInv' /\ NoDuplicates'
    BY DuplicatesStep, StartStep DEF OneApplyInv
  <2>2. UNCHANGED <<conn, opening, anchor, ancs, job, dev, net>>
    BY <1>2 DEF vars, dbVars, wireVars
  <2>3. SocketsInv' /\ SilentInv'
    BY <2>2 DEF OneApplyInv, SocketsInv, SilentInv, HoldsFd, Holders, Known, Current
  <2>4. TalkInv'
    BY <2>2 DEF OneApplyInv, TalkInv, Talk, Ahead, WorkingFor, Fresh, Told, Asked, Answered,
       Settled, Matches
  <2> QED BY <2>1, <2>3, <2>4 DEF OneApplyInv
<1> QED BY <1>1, <1>2

\* With one click on Apply and no anchor that hangs up, a reported "Static IP Set OK" is
\* true: the anchor has the address, netmask and gateway that were applied.
THEOREM ReportedIsConfigured ==
  OneApply /\ "drop" \notin Env => (Spec => []OkMeansConfigured)
<1> SUFFICES ASSUME OneApply, "drop" \notin Env PROVE Spec => []OkMeansConfigured
  OBVIOUS
<1>1. TypeInv /\ OneApplyInv /\ [Next]_vars => (TypeInv /\ OneApplyInv)'
  BY TypeStep, OneApplyStep
<1>2. TypeInv /\ OneApplyInv => OkMeansConfigured
  <2> SUFFICES ASSUME TypeInv, OneApplyInv, Quiet, NEW a \in Anchor,
                      anchor[a].status = "SET_STATIC_IP_OK"
               PROVE  dev[a].addr = anchor[a].ipSet /\ dev[a].net = net
    BY DEF OkMeansConfigured
  <2> DEFINE c == anchor[a].sock
  <2>1. c # NoConn /\ c \in Conn
    BY DEF OneApplyInv, SilentInv, Final, TypeInv, TypeOK, DbType, AnchorObject
  <2>2. conn[c].st = "running" /\ conn[c].id = a /\ a \in Known
    BY <2>1 DEF OneApplyInv, SocketsInv
  <2>3. PICK k \in DOMAIN ancs : ancs[k] = a
    BY <2>2 DEF Known
  <2>4. Talk(c, k)
    BY <2>1, <2>2, <2>3 DEF OneApplyInv, TalkInv
  <2>5. ~Fresh(c) /\ ~Told(c) /\ ~Asked(c) /\ ~Answered(c)
    BY <2>2 DEF Fresh, Told, Asked, Answered, Final
  <2>6. Settled(c)
    BY <2>4, <2>5 DEF Talk
  <2> QED BY <2>2, <2>6 DEF Settled
<1> QED BY <1>1, <1>2, InitOneApply, PTL DEF Spec

(***************************************************************************)
(* The buttons while a thread works: needs that the user leaves the list   *)
(* alone and that no anchor is found late.                                 *)
(***************************************************************************)
Quietly == {"drop", "late", "busyUser"} \cap Env = {}

ScanQueued == \E k \in DOMAIN queue : queue[k].type = "scan"
ScanPending == (\E s \in Scanner : scan[s] > 0) \/ ScanQueued

\* At most one scan is under way.
OneScan == /\ \A s, u \in Scanner : scan[s] > 0 /\ scan[u] > 0 => s = u
           /\ \A k, l \in DOMAIN queue : queue[k].type = "scan" /\ queue[l].type = "scan" => k = l
           /\ \A s \in Scanner : scan[s] > 0 => ~ScanQueued

\* Every anchor known has its row, or will get it.
RowsComing ==
  /\ \A a \in Known : \/ RowOf(a) # {} \/ a \in adding
                      \/ \E k \in DOMAIN queue : queue[k] = Found(a)
  /\ \A a, b \in adding : a = b

\* Until Apply is clicked a scan under way disables both buttons.
ScanLocks == BeforeApply /\ ScanPending => OneScan /\ ~applyOn /\ ~populateOn

\* While the thread works both buttons are disabled, no scan can enable them, and
\* the selection is the one that was applied.
WorkLocks ==
  (\E t \in Job : Working(t)) =>
    /\ ~applyOn /\ ~populateOn /\ ~ScanPending
    /\ \A i \in DOMAIN rows : rows[i].sel = anchor[rows[i].id].selected

\* An anchor that makes progress is one that was applied.
ProgressSelected ==
  \A k \in DOMAIN queue : queue[k].type = "progress" =>
     queue[k].id \in Known /\ anchor[queue[k].id].selected
ConnSelected ==
  /\ \A c \in Conn : conn[c].st = "running" => anchor[conn[c].id].selected
  /\ \A t \in Job :
       job[t].pc \in {"connecting", "opening", "mark", "wait"} => anchor[Current(t)].selected

LockInv == /\ AllFound /\ RowsComing /\ ScanLocks /\ WorkLocks /\ ProgressSelected /\ ConnSelected
           /\ \A t \in Job : job[t].lim = -1

\* What can happen to the two buttons.
LEMMA ButtonStep ==
  ASSUME TypeInv, Next
  PROVE  \/ \E t \in Job : OnBtnApply(t)
         \/ \E s \in Scanner : OnBtnPopulate(s)
         \/ OnScanIPFinished
         \/ OnProgressUpdate /\ \A i \in Selected : anchor[rows[i].id].status \in Final
         \/ applyOn' = applyOn /\ (populateOn' = populateOn \/ OnChkBoxClicked)
<1>1. CASE OnProgressUpdate
  <2>1. \/ UNCHANGED <<applyOn, populateOn>>
        \/ {i \in Selected : anchor[rows[i].id].status \notin Final} = {}
    BY <1>1 DEF OnProgressUpdate
  <2> QED BY <1>1, <2>1
<1>2. CASE OnChkBoxClicked
  BY <1>2, SMTT(40) DEF OnChkBoxClicked
<1>3. \/ \E t \in Job : OnBtnApply(t)
      \/ \E s \in Scanner : OnBtnPopulate(s)
      \/ OnScanIPFinished \/ OnProgressUpdate \/ OnChkBoxClicked
      \/ UNCHANGED <<applyOn, populateOn>>
  BY ZenonT(60) DEF Next, FindAnchorRaces, AddAnchor, QueueFound, GuiEvent, OnAnchorFound, User,
     ToggleRow, EditRow,
     EditNet, ScanFinish, ScanNoHost, TryConnect, ConnectTurn, OpenSocket, ConnectToAnchor,
     MarkConnect,
     SendTurn, SendGet, StaleIterator, DeviceStep, Drop, Connection, HandleUseStaticAddr,
     HandleSetStaticAddr, ConnectionClose, ConnectionDelete, guiVars, jobRest, connRest
<1> QED BY <1>1, <1>2, <1>3

\* What can happen to the scans.
LEMMA ScanStep ==
  ASSUME TypeInv, Next
  PROVE  \/ UNCHANGED scan
         \/ \E s \in Scanner : OnBtnPopulate(s)
         \/ \E s \in Scanner : (ScanFinish(s) \/ ScanNoHost(s)) /\ scan' = [scan EXCEPT ![s] = -1]
  BY DEF Next, FindAnchorRaces, AddAnchor, QueueFound, GuiEvent, OnAnchorFound, OnProgressUpdate,
     OnScanIPFinished, User, ToggleRow, EditRow, EditNet, OnChkBoxClicked, OnBtnApply,
     ScanFinish, ScanNoHost, TryConnect, ConnectTurn, OpenSocket, ConnectToAnchor, MarkConnect,
     SendTurn, SendGet, StaleIterator, DeviceStep, Drop, Connection, HandleUseStaticAddr,
     HandleSetStaticAddr, ConnectionClose, ConnectionDelete, guiRest, jobRest, connRest

\* What can happen to the queue: an event handled, or one queued at the end.
LEMMA QueueChange ==
  ASSUME TypeInv, Next
  PROVE  \/ UNCHANGED queue
         \/ GuiEvent /\ queue # <<>> /\ queue' = Tail(queue)
         \/ \E e \in Event : /\ queue' = Append(queue, e)
                             /\ e.type = "scan" => \E s \in Scanner : ScanFinish(s)
<1>1. queue \in Seq(Event)
  BY DEF TypeInv, TypeOK, QueueType
<1>2. CASE GuiEvent
  BY <1>2 DEF GuiEvent, OnAnchorFound, OnProgressUpdate, OnScanIPFinished, Dequeue
<1>3. ASSUME NEW s \in Scanner, ScanFinish(s) PROVE \E e \in Event : queue' = Append(queue, e)
  <2>1. PICK ips \in Addresses(scan[s]) : queue' = Append(queue, ScanDone(ips))
    BY <1>3 DEF ScanFinish
  <2>2. ScanDone(ips) \in Event
    BY EventTypes, AddressesType
  <2> QED BY <2>1, <2>2
<1>4. ASSUME NEW a \in Anchor, queue' = Append(queue, Found(a)) \/ queue' = Append(queue, Progress(a))
      PROVE  \E e \in Event : queue' = Append(queue, e) /\ e.type # "scan"
  <2>1. Found(a).type # "scan" /\ Progress(a).type # "scan"
    BY DEF Found, Progress
  <2> QED BY <1>4, <2>1, EventTypes
<1>5. ASSUME NEW t \in Job, MarkConnect(t)
      PROVE  \E e \in Event : queue' = Append(queue, e) /\ e.type # "scan"
  <2>1. Current(t) \in Anchor /\ queue' = Append(queue, Progress(Current(t)))
    BY <1>5, CurrentKnown DEF MarkConnect
  <2> QED BY <1>4, <2>1
<1>6. ASSUME NEW c \in Conn, NEW d \in Conn, HandleUseStaticAddr(c, d) \/ HandleSetStaticAddr(c, d)
      PROVE  \E e \in Event : queue' = Append(queue, e) /\ e.type # "scan"
  <2>1. conn[c].id \in Anchor
    BY DEF TypeInv, TypeOK, WireType, ConnRecord
  <2>2. queue' = Append(queue, Progress(conn[c].id))
    BY <1>6 DEF HandleUseStaticAddr, HandleSetStaticAddr
  <2> QED BY <1>4, <2>1, <2>2
<1>7. ASSUME NEW a \in Anchor, QueueFound(a)
      PROVE  \E e \in Event : queue' = Append(queue, e) /\ e.type # "scan"
  BY <1>4, <1>7, SMTT(40) DEF QueueFound
<1>8. \/ UNCHANGED queue \/ GuiEvent
      \/ \E a \in Anchor : QueueFound(a)
      \/ \E s \in Scanner : ScanFinish(s)
      \/ \E t \in Job : MarkConnect(t)
      \/ \E c, d \in Conn : HandleUseStaticAddr(c, d) \/ HandleSetStaticAddr(c, d)
  BY ZenonT(60) DEF Next, FindAnchorRaces, AddAnchor, User, ToggleRow, EditRow, EditNet,
     OnChkBoxClicked, OnBtnApply,
     OnBtnPopulate, ScanNoHost, TryConnect, ConnectTurn, OpenSocket, ConnectToAnchor,
     SendTurn, SendGet, StaleIterator, DeviceStep, Drop, Connection,
     ConnectionClose, ConnectionDelete, guiRest, connRest
<1> QED BY <1>2, <1>3, <1>5, <1>6, <1>7, <1>8

\* Every anchor known gets its row.
LEMMA ComingStep == ASSUME TypeInv, RowsComing, Next PROVE RowsComing'
<1>0. \/ UNCHANGED adding
      \/ \E b \in Anchor : AddAnchor(b) \/ QueueFound(b)
  BY DEF Next, FindAnchorRaces, GuiEvent, OnAnchorFound, OnProgressUpdate, OnScanIPFinished, User,
     ToggleRow, EditRow, EditNet, OnChkBoxClicked, OnBtnApply, OnBtnPopulate, ScanFinish,
     ScanNoHost, TryConnect, ConnectTurn, OpenSocket, ConnectToAnchor, MarkConnect, SendTurn,
     SendGet,
     StaleIterator, DeviceStep, Drop, Connection, HandleUseStaticAddr, HandleSetStaticAddr,
     ConnectionClose, ConnectionDelete, discVars, jobRest, connRest, guiRest
<1> SUFFICES ASSUME NEW a \in Known'
             PROVE  RowOf(a)' # {} \/ a \in adding' \/ \E k \in DOMAIN queue' : queue'[k] = Found(a)
  BY <1>0 DEF RowsComing, AddAnchor, QueueFound
<1>1. CASE a \in Known /\ RowOf(a) # {}
  <2>1. PICK i \in DOMAIN rows : rows[i].id = a
    BY <1>1 DEF RowOf
  <2> QED BY <2>1, RowStep DEF RowOf
<1>2. CASE a \in Known /\ a \in adding
  <2>1. a \in Anchor
    BY <1>2 DEF TypeInv, TypeOK, DiscType
  <2>2. CASE \E b \in Anchor : AddAnchor(b)
    BY <1>2, <2>2 DEF AddAnchor
  <2>3. CASE \E b \in Anchor : QueueFound(b)
    <3>1. PICK b \in Anchor : QueueFound(b)
      BY <2>3
    <3>2. queue \in Seq(Event) /\ queue' = Append(queue, Found(b)) /\ a = b
      BY <1>2, <3>1 DEF QueueFound, TypeInv, TypeOK, QueueType, RowsComing
    <3>3. Len(queue) + 1 \in DOMAIN queue' /\ queue'[Len(queue) + 1] = Found(a)
      BY <3>2
    <3> QED BY <3>3
  <2>4. CASE adding' = adding
    BY <1>2, <2>4
  <2> QED BY <1>0, <2>2, <2>3, <2>4
<1>3. ASSUME a \in Known, NEW k \in DOMAIN queue, queue[k] = Found(a)
      PROVE  RowOf(a)' # {} \/ \E j \in DOMAIN queue' : queue'[j] = Found(a)
  <2>1. CASE GuiEvent /\ queue[k] = Head(queue)
    <3>1. Head(queue).type = "found" /\ Head(queue).id = a
      BY <1>3, <2>1 DEF Found
    <3>2. OnAnchorFound
      BY <2>1, <3>1 DEF GuiEvent, OnProgressUpdate, OnScanIPFinished, Dequeue
    <3>3. CASE Listed(a)
      <4>1. rows' = rows
        BY <3>1, <3>2, <3>3 DEF OnAnchorFound
      <4> QED BY <3>3, <4>1 DEF Listed, RowOf
    <3>4. CASE ~Listed(a)
      <4>1. rows \in Seq(Row)
        BY DEF TypeInv, TypeOK, GuiType
      <4>2. PICK r : rows' = Append(rows, r) /\ r.id = a
        BY <3>1, <3>2, <3>4 DEF OnAnchorFound
      <4>3. Len(rows) + 1 \in DOMAIN rows' /\ rows'[Len(rows) + 1] = r
        BY <4>1, <4>2
      <4> QED BY <4>2, <4>3 DEF RowOf
    <3> QED BY <3>3, <3>4
  <2> QED BY <1>3, <2>1, QueueStays
<1>4. CASE a \notin Known
  <2>1. ~UNCHANGED ancs
    BY <1>4 DEF Known
  <2>2. PICK b \in Anchor \ Known : ancs' = Append(ancs, b) /\ adding' = {b}
    BY <2>1, AncsStep
  <2>3. ancs \in Seq(Anchor)
    BY DEF TypeInv, TypeOK, DbType
  <2>4. a = b
    BY <1>4, <2>2, <2>3 DEF Known
  <2> QED BY <2>2, <2>4
<1> QED BY <1>1, <1>2, <1>3, <1>4 DEF RowsComing

\* A scan under way keeps both buttons disabled until its addresses are shown.
LEMMA ScanLocksStep ==
  ASSUME "busyUser" \notin Env, TypeInv, StartInv, ScanLocks, Next PROVE ScanLocks'
<1> SUFFICES ASSUME BeforeApply', ScanPending' PROVE (OneScan /\ ~applyOn /\ ~populateOn)'
  BY DEF ScanLocks
<1>1. BeforeApply
  BY StagesStep
<1>2. ASSUME NEW t \in Job, OnBtnApply(t) PROVE FALSE
  <2>1. job \in [Job -> JobRecord] /\ job' = [job EXCEPT ![t].pc = "connect"]
    BY <1>2 DEF OnBtnApply, TypeInv, TypeOK, ThreadType
  <2>2. job'[t].pc = "connect"
    BY <2>1 DEF JobRecord
  <2> QED BY <2>2 DEF BeforeApply
<1>3. queue \in Seq(Event) /\ queue' \in Seq(Event)
  BY TypeStep DEF TypeInv, TypeOK, QueueType
<1>4. \A k \in DOMAIN queue : queue[k].type # "progress"
  BY <1>1 DEF StartInv, IdleInv
<1>5. ~OnProgressUpdate
  <2>1. queue # <<>> => 1 \in DOMAIN queue /\ queue[1] = Head(queue)
    BY <1>3
  <2> QED BY <1>4, <2>1 DEF OnProgressUpdate, Dequeue
<1>6. scan \in [Scanner -> Int]
  BY DEF TypeInv, TypeOK, ThreadType
<1>7. CASE \E s \in Scanner : OnBtnPopulate(s)
  <2>1. PICK s \in Scanner : OnBtnPopulate(s)
    BY <1>7
  <2>2. ~ScanPending
    BY <1>1, <2>1 DEF ScanLocks, OnBtnPopulate
  <2>3. \A u \in Scanner : u # s => scan'[u] = scan[u]
    BY <1>6, <2>1 DEF OnBtnPopulate
  <2>4. queue' = queue /\ ~applyOn' /\ ~populateOn'
    BY <2>1 DEF OnBtnPopulate
  <2>5. ~ScanQueued /\ ~ScanQueued' /\ \A u \in Scanner : ~(scan[u] > 0)
    BY <2>2, <2>4 DEF ScanPending, ScanQueued
  <2> QED BY <2>3, <2>4, <2>5 DEF OneScan, ScanQueued
<1>8. CASE OnScanIPFinished
  <2>1. queue # <<>> /\ Head(queue).type = "scan" /\ queue' = Tail(queue) /\ scan' = scan
    BY <1>8 DEF OnScanIPFinished, Dequeue
  <2>2. 1 \in DOMAIN queue /\ queue[1].type = "scan"
    BY <1>3, <2>1
  <2>3. OneScan
    BY <1>1, <2>2 DEF ScanLocks, ScanPending, ScanQueued
  <2>4. \A s \in Scanner : ~(scan'[s] > 0)
    BY <2>1, <2>2, <2>3 DEF OneScan, ScanQueued
  <2>5. ASSUME NEW k \in DOMAIN queue' PROVE queue'[k].type # "scan"
    <3>1. k + 1 \in DOMAIN queue /\ queue'[k] = queue[k + 1] /\ k + 1 # 1
      BY <1>3, <2>1
    <3> QED BY <2>2, <2>3, <3>1 DEF OneScan
  <2> QED BY <2>4, <2>5 DEF ScanPending, ScanQueued
<1>9. CASE \E s \in Scanner : ScanFinish(s)
  <2>1. PICK s \in Scanner : ScanFinish(s)
    BY <1>9
  <2>2. scan[s] > 0 /\ scan' = [scan EXCEPT ![s] = -1] /\ UNCHANGED guiVars
    BY <2>1 DEF ScanFinish
  <2>3. PICK ips \in Addresses(scan[s]) : queue' = Append(queue, ScanDone(ips))
    BY <2>1 DEF ScanFinish
  <2>4. OneScan /\ ~applyOn /\ ~populateOn /\ ~ScanQueued
    BY <1>1, <2>2 DEF ScanLocks, ScanPending, OneScan
  <2>5. \A u \in Scanner : ~(scan'[u] > 0)
    BY <1>6, <2>2, <2>4 DEF OneScan
  <2>6. ASSUME NEW k \in DOMAIN queue', queue'[k].type = "scan" PROVE k = Len(queue) + 1
    BY <1>3, <2>3, <2>4, <2>6 DEF ScanQueued
  <2> QED BY <2>2, <2>4, <2>5, <2>6 DEF OneScan, guiVars
<1>10. CASE /\ \A s \in Scanner : ~OnBtnPopulate(s) /\ ~ScanFinish(s)
            /\ ~OnScanIPFinished
  <2>1. \A s \in Scanner : scan'[s] > 0 => scan[s] > 0
    BY <1>6, <1>10, ScanStep
  <2>2. PICK n \in {0, 1} : \A k \in DOMAIN queue' : queue'[k].type = "scan" =>
                              k + n \in DOMAIN queue /\ queue'[k] = queue[k + n]
    <3>1. CASE UNCHANGED queue
      <4>1. \A k \in DOMAIN queue' : k + 0 \in DOMAIN queue /\ queue'[k] = queue[k + 0]
        BY <1>3, <3>1
      <4> QED BY <4>1
    <3>2. CASE queue # <<>> /\ queue' = Tail(queue)
      <4>1. \A k \in DOMAIN queue' : k + 1 \in DOMAIN queue /\ queue'[k] = queue[k + 1]
        BY <1>3, <3>2
      <4> QED BY <4>1
    <3>3. CASE \E e \in Event : queue' = Append(queue, e) /\ e.type # "scan"
      <4>1. \A k \in DOMAIN queue' : queue'[k].type = "scan" =>
              k + 0 \in DOMAIN queue /\ queue'[k] = queue[k + 0]
        BY <1>3, <3>3
      <4> QED BY <4>1
    <3> QED BY <1>10, <3>1, <3>2, <3>3, QueueChange
  <2>3. ScanPending
    BY <2>1, <2>2 DEF ScanPending, ScanQueued
  <2>4. OneScan /\ ~applyOn /\ ~populateOn
    BY <1>1, <2>3 DEF ScanLocks
  <2>5. OneScan'
    <3>1. ScanQueued' => ScanQueued
      BY <2>2 DEF ScanQueued
    <3>2. ASSUME NEW k \in DOMAIN queue', NEW l \in DOMAIN queue',
                 queue'[k].type = "scan", queue'[l].type = "scan"
          PROVE  k = l
      <4>1. k + n = l + n
        BY <2>2, <2>4, <3>2 DEF OneScan
      <4>2. k \in Int /\ l \in Int /\ n \in Int
        BY <1>3
      <4>3. \A a, b, m \in Int : a + m = b + m => a = b
        OBVIOUS
      <4> QED BY <4>1, <4>2, <4>3
    <3> QED BY <2>1, <2>4, <3>1, <3>2 DEF OneScan
  <2>6. ~OnChkBoxClicked
    BY <2>4 DEF OnChkBoxClicked, UserMayEdit
  <2> QED BY <1>2, <1>5, <1>10, <2>4, <2>5, <2>6, ButtonStep
<1> QED BY <1>7, <1>8, <1>9, <1>10

\* Every anchor that was applied shows what its anchor object says.
LEMMA RowOfKnown ==
  ASSUME AllFound, RowsComing, ~BeforeApply, NEW a \in Known
  PROVE  \E i \in DOMAIN rows : rows[i].id = a
<1>1. AllListed
  BY DEF AllFound
<1>2. RowOf(a) # {}
  BY <1>1 DEF AllListed, RowsComing, Found
<1> QED BY <1>2 DEF RowOf

\* While the thread works some anchor that was applied has not reached its end, so
\* that progress made by another one does not enable the buttons.
LEMMA WorkNotFinal ==
  ASSUME OneApply, TypeInv, OneApplyInv, LockInv, NEW t \in Job, Working(t),
         NEW k \in DOMAIN queue, queue[k].type = "progress"
  PROVE  \E i \in Selected : anchor[rows[i].id].status \notin Final
<1>1. ~BeforeApply /\ \A u \in Job : u = t
  BY DEF Working, BeforeApply, OneApply
<1>2. \A i \in DOMAIN rows : rows[i].sel = anchor[rows[i].id].selected
  BY DEF LockInv, WorkLocks
<1>3. SUFFICES \E a \in Known : anchor[a].selected /\ anchor[a].status \notin Final
  BY <1>1, <1>2, RowOfKnown DEF LockInv, Selected
<1>4. ancs \in Seq(Anchor) /\ job[t].i \in Nat \ {0} /\ Len(ancs) \in Nat
  BY DEF TypeInv, TypeOK, DbType, ThreadType, JobRecord
<1>5. \A a \in Anchor : anchor[a].sock \in Conn \cup {NoConn}
  BY DEF TypeInv, TypeOK, DbType, AnchorObject
<1>6. CASE job[t].pc \in {"connect", "connecting", "opening", "mark"}
  <2>1. BeforeSending
    BY <1>1, <1>6 DEF BeforeSending
  <2>2. queue[k].id \in Anchor
    BY <1>4 DEF LockInv, ProgressSelected, Known
  <2> QED BY <2>1, <2>2 DEF OneApplyInv, StartInv, SilenceInv, LockInv, ProgressSelected
<1>7. ASSUME NEW j \in 1..Len(ancs), anchor[ancs[j]].selected, anchor[ancs[j]].sock # NoConn,
             Ahead(j) \/ WorkingFor(j)
      PROVE  \E a \in Known : anchor[a].selected /\ anchor[a].status \notin Final
  <2> DEFINE c == anchor[ancs[j]].sock
  <2>1. c \in Conn /\ conn[c].st = "running" /\ conn[c].id = ancs[j]
    BY <1>4, <1>5, <1>7 DEF OneApplyInv, SocketsInv
  <2>2. j \in DOMAIN ancs /\ ancs[j] \in Known
    BY <1>4 DEF Known
  <2>3. Talk(c, j)
    BY <2>1, <2>2 DEF OneApplyInv, TalkInv
  <2>4. Fresh(c) \/ Told(c)
    BY <1>7, <2>3 DEF Talk
  <2> QED BY <1>7, <2>1, <2>2, <2>4 DEF Fresh, Told
<1>8. CASE job[t].pc = "wait"
  <2>1. job[t].i \in 1..Len(ancs) /\ Current(t) = ancs[job[t].i]
    BY <1>4, <1>8 DEF TypeInv, IteratorsInRange, Current
  <2>2. WorkingFor(job[t].i)
    BY <1>8 DEF WorkingFor
  <2> QED BY <1>7, <1>8, <2>1, <2>2 DEF LockInv, ConnSelected, OneApplyInv, SocketsInv
<1>9. CASE job[t].pc = "send" /\ \E i \in job[t].i..Len(ancs) :
                              anchor[ancs[i]].selected /\ anchor[ancs[i]].sock # NoConn
  <2>1. PICK i \in job[t].i..Len(ancs) : anchor[ancs[i]].selected /\ anchor[ancs[i]].sock # NoConn
    BY <1>9
  <2>2. i \in 1..Len(ancs) /\ job[t].i <= i
    BY <1>4
  <2>3. Ahead(i)
    BY <1>1, <1>9, <2>2 DEF Ahead
  <2> QED BY <1>7, <2>1, <2>2, <2>3
<1> QED BY <1>6, <1>8, <1>9 DEF Working

\* Once Apply was clicked the vector stays as it is, and so does every iterator.
LEMMA VectorStays ==
  ASSUME Quietly, TypeInv, AllFound, ~BeforeApply, Next
  PROVE  UNCHANGED ancs /\ \A a \in Anchor : ~AddAnchor(a)
<1>1. \A a \in Anchor : ~AddAnchor(a)
  BY SMTT(40) DEF AddAnchor, BeforeApply, Quietly
<1>2. UNCHANGED ancs
  BY <1>1 DEF Next, FindAnchorRaces, QueueFound, GuiEvent, OnAnchorFound, OnProgressUpdate,
     OnScanIPFinished, User, ToggleRow, EditRow, EditNet, OnChkBoxClicked, OnBtnApply,
     OnBtnPopulate, ScanFinish, ScanNoHost, TryConnect, ConnectTurn, OpenSocket, ConnectToAnchor,
     MarkConnect, SendTurn, SendGet, StaleIterator, DeviceStep, Drop, Connection,
     HandleUseStaticAddr, HandleSetStaticAddr, ConnectionClose, ConnectionDelete,
     dbVars, connRest
<1> QED BY <1>1, <1>2

\* A thread with work left had work left before, unless it was just started.
LEMMA WorkingStep ==
  ASSUME Quietly, OneApply, TypeInv, SocketsInv, AllFound, Next,
         NEW t \in Job, Working(t)', ~OnBtnApply(t)
  PROVE  Working(t)
<1>1. job \in [Job -> JobRecord] /\ job[t] \in JobRecord /\ job[t].i \in Nat \ {0}
  BY DEF TypeInv, TypeOK, ThreadType, JobRecord
<1>2. CASE job[t].pc \in {"connect", "connecting", "opening", "mark", "wait"}
  BY <1>2 DEF Working
<1>3. CASE job[t].pc = "unused"
  BY <1>3, PcStep DEF Working
<1>4. CASE job[t].pc = "done"
  BY <1>4, PcStep DEF Working
<1>5. CASE job[t].pc = "send"
  <2>1. ancs' = ancs /\ ancs \in Seq(Anchor)
    BY <1>5, VectorStays, SMTT(40) DEF BeforeApply, TypeInv, TypeOK, DbType
  <2>2. \A c \in Conn : ~Made(c)
    BY <1>5, ZenonT(60) DEF Made, ConnectToAnchor, OneApply
  <2>3. \A a \in Anchor : anchor'[a].sock = anchor[a].sock /\ anchor'[a].selected = anchor[a].selected
    <3>1. \A u \in Job : ~OnBtnApply(u)
      BY DEF OneApply
    <3> QED BY <2>2, <3>1, SockStep, SetStep
  <2>4. CASE job'[t].pc = "send"
    <3>1. job'[t].i \in {job[t].i, job[t].i + 1}
      BY <1>5, <2>4, IterStep DEF ConnectTurn, MarkConnect, SendGet
    <3>2. PICK i \in job'[t].i..Len(ancs) :
            anchor'[ancs[i]].selected /\ anchor'[ancs[i]].sock # NoConn
      BY <2>1, <2>4 DEF Working
    <3>3. i \in job[t].i..Len(ancs) /\ ancs[i] \in Anchor
      BY <1>1, <2>1, <3>1, <3>2
    <3> QED BY <1>5, <2>3, <3>2, <3>3 DEF Working
  <2>5. CASE job'[t].pc = "wait"
    <3>1. SendTurn(t)
      BY <1>5, <2>5, PcStep
    <3>2. ASSUME NextAnchor(t, "send") \/ Goto(t, "done") PROVE FALSE
      BY <1>1, <2>5, <3>2 DEF NextAnchor, Goto, JobRecord
    <3>3. /\ ~AtEnd(t) /\ CanDeref(t)
          /\ anchor[Current(t)].selected /\ anchor[Current(t)].sock # NoConn
      BY <3>1, <3>2 DEF SendTurn
    <3>4. job[t].i <= Len(ancs) /\ Len(ancs) \in Nat
      BY <2>1, <3>3, CurrentKnown
    <3>5. job[t].i \in job[t].i..Len(ancs)
      BY <1>1, <3>4
    <3> QED BY <1>5, <3>3, <3>5 DEF Working, Current
  <2> QED BY <1>5, <2>4, <2>5, PcStep DEF Working
<1> QED BY <1>1, <1>2, <1>3, <1>4, <1>5 DEF JobRecord

\* The click starts the thread with the buttons disabled and the selection of the list.
LEMMA WorkStarts ==
  ASSUME OneApply, TypeInv, ListInv, NoDuplicates, LockInv, NEW t \in Job, OnBtnApply(t)
  PROVE  /\ ~applyOn' /\ ~populateOn' /\ ~ScanPending'
         /\ \A i \in DOMAIN rows' : rows'[i].sel = anchor'[rows'[i].id].selected
<1>1. UNCHANGED <<rows, ancs, queue, scan>> /\ ~applyOn' /\ ~populateOn'
  BY DEF OnBtnApply, guiRest
<1>2. BeforeApply /\ applyOn
  BY DEF OnBtnApply, BeforeApply, OneApply
<1>3. ~ScanPending'
  BY <1>1, <1>2 DEF LockInv, ScanLocks, ScanPending, ScanQueued
<1>4. ASSUME NEW i \in DOMAIN rows PROVE rows[i].sel = anchor'[rows[i].id].selected
  <2>1. rows[i].id \in Anchor /\ rows[i].id \in Known /\ RowOf(rows[i].id) # {}
    <3>1. rows \in Seq(Row) /\ rows[i] \in Row
      BY DEF TypeInv, TypeOK, GuiType
    <3> QED BY <3>1 DEF Row, ListInv, RowsKnown, RowOf
  <2>2. PICK j \in RowOf(rows[i].id) : anchor'[rows[i].id].selected = rows[j].sel
    BY <2>1, ApplyStep
  <2> QED BY <2>2 DEF RowOf, NoDuplicates
<1> QED BY <1>1, <1>3, <1>4

LEMMA WorkStep ==
  ASSUME Quietly, OneApply, TypeInv, ListInv, OneApplyInv, LockInv, Next PROVE WorkLocks'
<1> SUFFICES ASSUME NEW t \in Job, Working(t)'
             PROVE  /\ ~applyOn' /\ ~populateOn' /\ ~ScanPending'
                    /\ \A i \in DOMAIN rows' : rows'[i].sel = anchor'[rows'[i].id].selected
  BY DEF WorkLocks
<1>1. CASE OnBtnApply(t)
  BY <1>1, WorkStarts DEF OneApplyInv
<1>2. CASE ~OnBtnApply(t)
  <2>1. Working(t)
    BY <1>2, WorkingStep DEF OneApplyInv, LockInv
  <2>2. /\ ~applyOn /\ ~populateOn /\ ~ScanPending /\ ~BeforeApply
        /\ \A i \in DOMAIN rows : rows[i].sel = anchor[rows[i].id].selected
    BY <2>1 DEF LockInv, WorkLocks, Working, BeforeApply
  <2>3. queue \in Seq(Event) /\ rows \in Seq(Row)
    BY DEF TypeInv, TypeOK, QueueType, GuiType
  <2>4. \A u \in Job : ~OnBtnApply(u)
    BY <1>2 DEF OneApply
  <2>5. \A s \in Scanner : ~OnBtnPopulate(s) /\ ~ScanFinish(s)
    BY <2>2 DEF OnBtnPopulate, ScanFinish, ScanPending
  <2>6. queue # <<>> => 1 \in DOMAIN queue /\ queue[1] = Head(queue)
    BY <2>3
  <2>7. ~OnScanIPFinished
    BY <2>2, <2>6 DEF OnScanIPFinished, Dequeue, ScanPending, ScanQueued
  <2>8. ~OnAnchorFound
    BY <2>2, <2>6 DEF OnAnchorFound, Dequeue, LockInv, AllFound, AllListed
  <2>9. ~OnChkBoxClicked /\ \A i \in DOMAIN rows : ~ToggleRow(i)
    BY <2>2 DEF OnChkBoxClicked, ToggleRow, UserMayEdit, Quietly
  <2>10. ~(OnProgressUpdate /\ \A i \in Selected : anchor[rows[i].id].status \in Final)
    <3>1. OnProgressUpdate => 1 \in DOMAIN queue /\ queue[1].type = "progress"
      BY <2>6 DEF OnProgressUpdate, Dequeue
    <3> QED BY <2>1, <3>1, WorkNotFinal
  <2>11. ~applyOn' /\ ~populateOn'
    BY <2>2, <2>4, <2>5, <2>7, <2>9, <2>10, ButtonStep
  <2>12. ~ScanPending'
    <3>1. \A s \in Scanner : ~(scan'[s] > 0)
      BY <2>2, <2>5, ScanStep DEF ScanPending, TypeInv, TypeOK, ThreadType
    <3>2. ~ScanQueued'
      BY <2>2, <2>5, QueueKept DEF ScanPending, ScanQueued, Found, Progress
    <3> QED BY <3>1, <3>2 DEF ScanPending
  <2>13. ASSUME NEW i \in DOMAIN rows' PROVE rows'[i].sel = anchor'[rows'[i].id].selected
    <3>1. i \in DOMAIN rows
      BY <2>8, RowsStep
    <3>2. rows[i].id \in Anchor
      <4>1. rows[i] \in Row
        BY <2>3, <3>1
      <4> QED BY <4>1 DEF Row
    <3>3. rows'[i].id = rows[i].id /\ rows'[i].sel = rows[i].sel
      BY <2>9, <3>1, RowStep
    <3> QED BY <2>2, <2>4, <3>1, <3>2, <3>3, SetStep
  <2> QED BY <2>11, <2>12, <2>13
<1> QED BY <1>1, <1>2

\* An iterator stays valid: the vector is complete before the first thread runs.
LEMMA LimitStep ==
  ASSUME Quietly, TypeInv, AllFound, \A u \in Job : job[u].lim = -1, Next, NEW t \in Job
  PROVE  job'[t].lim = -1
<1>1. CASE BeforeApply
  BY <1>1, IterStep DEF BeforeApply, Iterating
<1>2. CASE ~BeforeApply
  BY <1>2, IterStep, VectorStays
<1> QED BY <1>1, <1>2

\* The anchors a thread works for, and those with a connection, are selected ones.
LEMMA ConnSelectedStep ==
  ASSUME Quietly, OneApply, TypeInv, OneApplyInv, LockInv, Next PROVE ConnSelected'
<1>1. job \in [Job -> JobRecord] /\ \A t \in Job : job[t] \in JobRecord
  BY DEF TypeInv, TypeOK, ThreadType
<1>2. \A c \in Conn : conn[c].id \in Anchor
  BY DEF TypeInv, TypeOK, WireType, ConnRecord
<1>3. CASE \E t \in Job : OnBtnApply(t)
  <2>1. PICK t \in Job : OnBtnApply(t)
    BY <1>3
  <2>2. job[t].pc = "unused" /\ UNCHANGED conn /\ job' = [job EXCEPT ![t].pc = "connect"]
    BY <2>1 DEF OnBtnApply, guiRest, wireVars
  <2>3. \A c \in Conn : conn'[c].st = "unused"
    BY <2>2 DEF OneApply, BeforeApply, OneApplyInv, StartInv, IdleInv
  <2>4. \A u \in Job : job'[u].pc = "connect"
    BY <1>1, <2>2 DEF OneApply, JobRecord
  <2> QED BY <2>3, <2>4 DEF ConnSelected
<1>4. CASE \A t \in Job : ~OnBtnApply(t)
  <2>1. \A a \in Anchor : anchor'[a].selected = anchor[a].selected
    BY <1>4, SetStep
  <2>2. ASSUME NEW c \in Conn, conn'[c].st = "running" PROVE anchor'[conn'[c].id].selected
    <3>1. ~Drop(c) /\ ~Ended(c)
      BY NoneCloses DEF Drop, Quietly, OneApplyInv
    <3>2. CASE Made(c)
      BY <2>1, <3>2, MadeFields DEF LockInv, ConnSelected
    <3>3. CASE conn'[c].st = conn[c].st /\ conn'[c].id = conn[c].id
      BY <1>2, <2>1, <2>2, <3>3 DEF LockInv, ConnSelected
    <3> QED BY <3>1, <3>2, <3>3, IdentityStep
  <2>3. ASSUME NEW t \in Job, job'[t].pc \in {"connecting", "opening", "mark", "wait"}
        PROVE  anchor'[Current(t)'].selected
    <3>1. CASE job'[t].pc = job[t].pc
      BY <2>1, <2>3, <3>1, CurrentStep DEF LockInv, ConnSelected
    <3>2. CASE ConnectTurn(t) /\ job[t].pc = "connect" /\ job'[t].pc = "connecting"
      <4>1. ASSUME \/ NextAnchor(t, "connect")
                   \/ job' = [job EXCEPT ![t].pc = "send", ![t].i = 1, ![t].lim = -1]
            PROVE  FALSE
        BY <1>1, <3>2, <4>1 DEF NextAnchor, JobRecord
      <4>2. ~AtEnd(t) /\ CanDeref(t) /\ anchor[Current(t)].selected /\ ancs' = ancs
        BY <3>2, <4>1 DEF ConnectTurn, SkipConnect, dbVars
      <4>3. job'[t].i = job[t].i /\ Current(t) \in Anchor
        BY <3>2, <4>2, CurrentKnown, IterStep DEF MarkConnect, SendTurn, SendGet
      <4> QED BY <2>1, <4>2, <4>3 DEF Current
    <3>3. CASE \/ OpenSocket(t) /\ job[t].pc = "connecting" /\ job'[t].pc = "opening"
               \/ ConnectToAnchor(t) /\ job[t].pc = "opening" /\ job'[t].pc = "mark"
      <4>1. job'[t].i = job[t].i
        BY <3>3, IterStep DEF ConnectTurn, MarkConnect, SendTurn, SendGet
      <4>2. ancs' = ancs /\ Current(t) \in Anchor
        BY <3>3, CurrentKnown DEF OpenSocket, ConnectToAnchor, dbVars
      <4> QED BY <2>1, <3>3, <4>1, <4>2 DEF Current, LockInv, ConnSelected
    <3>4. CASE SendTurn(t) /\ job[t].pc = "send" /\ job'[t].pc = "wait"
      <4>1. ASSUME NextAnchor(t, "send") \/ Goto(t, "done") PROVE FALSE
        BY <1>1, <3>4, <4>1 DEF NextAnchor, Goto, JobRecord
      <4>2. ~AtEnd(t) /\ CanDeref(t) /\ anchor[Current(t)].selected /\ ancs' = ancs
        BY <3>4, <4>1, SMTT(40) DEF SendTurn, dbVars
      <4>3. job'[t].i = job[t].i /\ Current(t) \in Anchor
        BY <3>4, <4>2, CurrentKnown, IterStep DEF ConnectTurn, MarkConnect, SendGet
      <4> QED BY <2>1, <4>2, <4>3 DEF Current
    <3> QED BY <1>4, <2>3, <3>1, <3>2, <3>3, <3>4, PcStep
  <2> QED BY <2>2, <2>3 DEF ConnSelected
<1> QED BY <1>3, <1>4

LEMMA ProgressSelectedStep ==
  ASSUME OneApply, TypeInv, OneApplyInv, LockInv, Next PROVE ProgressSelected'
<1> SUFFICES ASSUME NEW k \in DOMAIN queue', queue'[k].type = "progress"
             PROVE  queue'[k].id \in Known' /\ anchor'[queue'[k].id].selected
  BY DEF ProgressSelected
<1>1. Known \subseteq Known' /\ Known \subseteq Anchor
  <2>1. ancs \in Seq(Anchor)
    BY DEF TypeInv, TypeOK, DbType
  <2>2. Known \subseteq Anchor
    BY <2>1 DEF Known
  <2>3. Known \subseteq Known'
    BY KnownStep
  <2> QED BY <2>2, <2>3
<1>2. CASE \E t \in Job : OnBtnApply(t)
  <2>1. BeforeApply /\ queue' = queue
    BY <1>2 DEF OnBtnApply, OneApply, BeforeApply, guiRest
  <2> QED BY <2>1 DEF OneApplyInv, StartInv, IdleInv
<1>3. CASE \A t \in Job : ~OnBtnApply(t)
  <2>1. \A a \in Anchor : anchor'[a].selected = anchor[a].selected
    BY <1>3, SetStep
  <2>2. SUFFICES queue'[k].id \in Known /\ anchor[queue'[k].id].selected
    BY <1>1, <2>1
  <2>3. CASE \E j \in DOMAIN queue : queue'[k] = queue[j]
    BY <2>3 DEF LockInv, ProgressSelected
  <2>4. ASSUME NEW t \in Job, MarkConnect(t), queue'[k] = Progress(Current(t))
        PROVE  queue'[k].id \in Known /\ anchor[queue'[k].id].selected
    <3>1. job[t].pc = "mark" /\ job[t].i \in DOMAIN ancs
      BY <2>4 DEF MarkConnect, TypeInv, IteratorsInRange, TypeOK, DbType, ThreadType, JobRecord
    <3>2. Current(t) \in Known
      BY <3>1 DEF Current, Known
    <3> QED BY <2>4, <3>1, <3>2 DEF LockInv, ConnSelected, Progress
  <2>5. ASSUME NEW c \in Conn, conn[c].st = "running", queue'[k] = Progress(conn[c].id)
        PROVE  queue'[k].id \in Known /\ anchor[queue'[k].id].selected
    BY <2>5 DEF LockInv, ConnSelected, Progress, OneApplyInv, SocketsInv
  <2>6. \A a : Found(a).type # "progress"
    BY DEF Found
  <2>7. \A ips : ScanDone(ips).type # "progress"
    BY DEF ScanDone
  <2>8. \A c, d \in Conn :
          HandleUseStaticAddr(c, d) \/ HandleSetStaticAddr(c, d) => conn[c].st = "running"
    BY DEF HandleUseStaticAddr, HandleSetStaticAddr, Receive
  <2> QED BY <2>3, <2>4, <2>5, <2>6, <2>7, <2>8, QueueKept
<1> QED BY <1>2, <1>3

LEMMA LockStep ==
  ASSUME Quietly, OneApply, TypeInv, ListInv, OneApplyInv, LockInv, [Next]_vars PROVE LockInv'
<1>1. CASE Next
  <2>1. AllFound' /\ RowsComing'
    BY <1>1, AllFoundStep, ComingStep DEF LockInv, Quietly
  <2>2. ScanLocks' /\ WorkLocks'
    BY <1>1, ScanLocksStep, WorkStep DEF LockInv, OneApplyInv, Quietly
  <2>3. ConnSelected' /\ ProgressSelected'
    BY <1>1, ConnSelectedStep, ProgressSelectedStep
  <2>4. \A t \in Job : job'[t].lim = -1
    BY <1>1, LimitStep DEF LockInv
  <2> QED BY <2>1, <2>2, <2>3, <2>4 DEF LockInv
<1>2. CASE UNCHANGED vars
  BY <1>2 DEF vars, dbVars, guiVars, discVars, wireVars, LockInv, AllFound, AllListed,
     BeforeApply, RowsComing, RowOf, Known, ScanLocks, ScanPending, ScanQueued, OneScan,
     WorkLocks, Working, ProgressSelected, ConnSelected, Current
<1> QED BY <1>1, <1>2

LEMMA InitLock == Init => LockInv
<1> SUFFICES ASSUME Init PROVE LockInv
  OBVIOUS
<1>1. BeforeApply /\ queue = <<>> /\ ancs = <<>> /\ adding = {} /\ \A t \in Job : job[t].lim = -1
  BY DEF Init, BeforeApply
<1>2. AllFound /\ RowsComing /\ ProgressSelected
  BY <1>1 DEF AllFound, RowsComing, Known, ProgressSelected
<1>3. ~ScanPending
  BY <1>1 DEF Init, ScanPending, ScanQueued
<1>4. \A t \in Job : ~Working(t)
  BY <1>1 DEF BeforeApply, Working
<1>5. ConnSelected
  BY <1>1 DEF Init, ConnSelected
<1> QED BY <1>1, <1>2, <1>3, <1>4, <1>5 DEF LockInv, ScanLocks, WorkLocks

\* With one click on Apply, no anchor that hangs up or is found late, and a user who
\* leaves the list alone while Apply is disabled: Apply stays disabled until the thread
\* has no anchor left to connect to and no command left to send.
THEOREM ApplyStaysLocked ==
  OneApply /\ Quietly => (Spec => []ApplyLocked)
<1> SUFFICES ASSUME OneApply, Quietly PROVE Spec => []ApplyLocked
  OBVIOUS
<1> DEFINE I == TypeInv /\ ListInv /\ OneApplyInv /\ LockInv
<1>1. Init => I
  <2>1. Init => ListInv
    BY DEF Init, ListInv, RowsKnown, Known
  <2> QED BY <2>1, InitOneApply, InitLock
<1>2. I /\ [Next]_vars => I'
  <2>1. "drop" \notin Env
    BY DEF Quietly
  <2> QED BY <2>1, TypeStep, ListStep, OneApplyStep, LockStep
<1>3. I => ApplyLocked
  BY DEF LockInv, WorkLocks, ApplyLocked
<1> HIDE DEF I
<1> QED BY <1>1, <1>2, <1>3, PTL DEF Spec

(***************************************************************************)
(* What the anchors are told, when every text typed is an address or one   *)
(* that IsIPValid rejects.                                                 *)
(***************************************************************************)
NoneOutOfRange == "outOfRange" \notin RowText \cup NetText
Typed == Addr \cup {"malformed"}

RowTexts == \A i \in DOMAIN rows : rows[i].addr \in Typed

\* What the thread has yet to send is what was checked.
AppliedChecked ==
  (\E t \in Job : Working(t)) /\ ~useDHCP =>
     net \in Addr /\ \A a \in Known : anchor[a].selected => anchor[a].ipSet \in Addr

CheckedInv == SentIsChecked /\ RowTexts /\ netText \in Typed /\ AppliedChecked

LEMMA RowTextsStep ==
  ASSUME NoneOutOfRange, TypeInv, RowTexts, Next PROVE RowTexts'
<1>1. RowText \subseteq Typed
  BY TextAssumption DEF NoneOutOfRange, Typed
<1>2. rows \in Seq(Row)
  BY DEF TypeInv, TypeOK, GuiType
<1>3. ASSUME NEW i \in DOMAIN rows PROVE rows'[i].addr \in Typed
  BY <1>1, RowStep DEF RowTexts, Typed
<1>4. CASE OnAnchorFound
  <2> DEFINE a == Head(queue).id
             r == [id |-> a, sel |-> TRUE, addr |-> OwnAddr[a], stat |-> "ANCHOR_FOUND"]
  <2>1. a \in Anchor
    BY <1>4, DequeueType DEF OnAnchorFound, TypeInv, TypeOK
  <2>2. rows' = rows \/ rows' = Append(rows, r)
    BY <1>4 DEF OnAnchorFound
  <2>3. r.addr \in Typed
    BY <2>1, AddrAssumption DEF Typed
  <2> HIDE DEF r
  <2>4. \A i \in DOMAIN rows' : i \in DOMAIN rows \/ rows'[i] = r
    BY <1>2, <2>2
  <2> QED BY <1>3, <2>3, <2>4 DEF RowTexts
<1> QED BY <1>3, <1>4, RowsStep DEF RowTexts

LEMMA NetTextStep ==
  ASSUME NoneOutOfRange, netText \in Typed, Next PROVE netText' \in Typed
<1>1. UNCHANGED netText \/ netText' \in NetText
  BY DEF Next, FindAnchorRaces, AddAnchor, QueueFound, GuiEvent, OnAnchorFound, OnProgressUpdate,
     OnScanIPFinished, User, ToggleRow, EditRow, EditNet, OnChkBoxClicked, OnBtnApply,
     OnBtnPopulate, ScanFinish, ScanNoHost, TryConnect, ConnectTurn, OpenSocket, ConnectToAnchor,
     MarkConnect, SendTurn, SendGet, StaleIterator, DeviceStep, Drop, Connection,
     HandleUseStaticAddr, HandleSetStaticAddr, ConnectionClose, ConnectionDelete,
     guiVars, jobRest, connRest
<1> QED BY <1>1, TextAssumption, SMTT(40) DEF NoneOutOfRange, Typed

\* The click applies what VerifyInput has checked.
LEMMA AppliesChecked ==
  ASSUME Quietly, OneApply, TypeInv, ListInv, NoDuplicates, LockInv, RowTexts, netText \in Typed,
         NEW t \in Job, OnBtnApply(t), ~useDHCP
  PROVE  net' \in Addr /\ \A a \in Known : anchor'[a].selected => anchor'[a].ipSet \in Addr
<1>1. VerifyInput /\ net' = InetAddr(netText) /\ AllListed
  BY DEF OnBtnApply, Quietly
<1>2. \A s \in Typed : IsIPValid(s) => s \in Addr /\ InetAddr(s) = s
  BY DEF Typed, IsIPValid, InetAddr
<1>3. net' \in Addr
  BY <1>1, <1>2 DEF VerifyInput
<1>4. ASSUME NEW a \in Known, anchor'[a].selected PROVE anchor'[a].ipSet \in Addr
  <2>1. a \in Anchor
    <3>1. ancs \in Seq(Anchor)
      BY DEF TypeInv, TypeOK, DbType
    <3> QED BY <3>1 DEF Known
  <2>2. RowOf(a) # {}
    BY <1>1 DEF LockInv, RowsComing, AllListed, Found
  <2>3. PICK i \in RowOf(a) : /\ anchor'[a].ipSet = InetAddr(rows[i].addr)
                              /\ anchor'[a].selected = rows[i].sel
    BY <2>1, <2>2, ApplyStep
  <2>4. i \in Selected
    BY <1>4, <2>3 DEF RowOf, Selected
  <2> QED BY <1>1, <1>2, <2>3, <2>4 DEF VerifyInput, RowTexts, Selected
<1> QED BY <1>3, <1>4

LEMMA AppliedCheckedStep ==
  ASSUME Quietly, OneApply, TypeInv, ListInv, OneApplyInv, LockInv, CheckedInv, Next
  PROVE  AppliedChecked'
<1> SUFFICES ASSUME NEW t \in Job, Working(t)', ~useDHCP'
             PROVE  /\ net' \in Addr
                    /\ \A a \in Known' : anchor'[a].selected => anchor'[a].ipSet \in Addr
  BY DEF AppliedChecked
<1>1. CASE OnBtnApply(t)
  <2>1. ~useDHCP /\ Known' = Known
    BY <1>1 DEF OnBtnApply, Known
  <2> QED BY <1>1, <2>1, AppliesChecked DEF CheckedInv, OneApplyInv
<1>2. CASE ~OnBtnApply(t)
  <2>1. Working(t)
    BY <1>2, WorkingStep DEF OneApplyInv, LockInv
  <2>2. ~applyOn /\ ~BeforeApply
    BY <2>1 DEF LockInv, WorkLocks, Working, BeforeApply
  <2>3. ~OnChkBoxClicked
    BY <2>2, SMTT(40) DEF OnChkBoxClicked, UserMayEdit, Quietly
  <2>4. useDHCP' = useDHCP
    BY <2>3 DEF Next, FindAnchorRaces, AddAnchor, QueueFound, GuiEvent, OnAnchorFound,
       OnProgressUpdate,
       OnScanIPFinished, User, ToggleRow, EditRow, EditNet, OnBtnApply,
       OnBtnPopulate, ScanFinish, ScanNoHost, TryConnect, ConnectTurn, OpenSocket, ConnectToAnchor,
       MarkConnect, SendTurn, SendGet, StaleIterator, DeviceStep, Drop, Connection,
       HandleUseStaticAddr, HandleSetStaticAddr, ConnectionClose, ConnectionDelete,
       dbVars, connRest
  <2>5. Known' = Known /\ Known \subseteq Anchor
    <3>1. ancs' = ancs /\ ancs \in Seq(Anchor)
      BY <2>2, VectorStays DEF LockInv, TypeInv, TypeOK, DbType
    <3> QED BY <3>1 DEF Known
  <2>6. \A u \in Job : ~OnBtnApply(u)
    BY <1>2 DEF OneApply
  <2>7. /\ net \in Addr
        /\ \A a \in Known : anchor[a].selected => anchor[a].ipSet \in Addr
    BY <2>1, <2>4 DEF CheckedInv, AppliedChecked
  <2>8. net' = net
    BY <2>6, AnchorAssumption, SetStep
  <2>9. \A a \in Anchor : anchor'[a].ipSet = anchor[a].ipSet /\ anchor'[a].selected = anchor[a].selected
    BY <2>6, SetStep
  <2> QED BY <2>5, <2>7, <2>8, <2>9
<1> QED BY <1>1, <1>2

\* A command is sent while the thread works, with what was applied.
LEMMA SentStep ==
  ASSUME OneApply, TypeInv, CheckedInv, Next PROVE SentIsChecked'
<1> DEFINE Checked(m) == m.cmd = "setStatic" => m.addr \in Addr /\ m.net \in Addr
<1>1. conn \in [Conn -> ConnRecord] /\ \A c \in Conn : conn[c] \in ConnRecord
  BY DEF TypeInv, TypeOK, WireType
<1> SUFFICES ASSUME NEW c \in Conn PROVE \A k \in DOMAIN conn'[c].out : Checked(conn'[c].out[k])
  BY DEF SentIsChecked
<1>2. conn[c].out \in Seq(Command) /\ \A k \in DOMAIN conn[c].out : Checked(conn[c].out[k])
  BY <1>1 DEF CheckedInv, SentIsChecked, ConnRecord
<1>3. CASE conn'[c].out = conn[c].out \/ conn'[c].out = <<>>
  BY <1>2, <1>3
<1>4. CASE conn[c].out # <<>> /\ conn'[c].out = Tail(conn[c].out)
  <2>1. \A k \in DOMAIN conn'[c].out : k + 1 \in DOMAIN conn[c].out
                                       /\ conn'[c].out[k] = conn[c].out[k + 1]
    BY <1>2, <1>4
  <2> QED BY <1>2, <2>1
<1>5. CASE SentTo(c)
  <2>1. PICK t \in Job, m \in Command :
          /\ SendsSet(t, m) \/ SendsGet(t, m)
          /\ conn' = [conn EXCEPT ![c].out = Append(@, m)]
    BY <1>5 DEF SentTo
  <2>2. conn'[c].out = Append(conn[c].out, m)
    BY <1>1, <2>1 DEF ConnRecord
  <2>3. CASE SendsGet(t, m)
    BY <1>2, <2>2, <2>3 DEF SendsGet, GetCmd
  <2>4. CASE SendsSet(t, m)
    <3>1. Current(t) \in Known /\ Working(t)
      <4>1. job[t].pc = "send" /\ job[t].i \in Nat \ {0} /\ Len(ancs) \in Nat
        BY <2>4 DEF SendsSet, SendTurn, TypeInv, TypeOK, DbType, ThreadType, JobRecord
      <4>2. job[t].i <= Len(ancs)
        BY <2>4, CurrentKnown DEF SendsSet
      <4>3. job[t].i \in job[t].i..Len(ancs) /\ job[t].i \in DOMAIN ancs
        BY <4>1, <4>2 DEF TypeInv, TypeOK, DbType
      <4> QED BY <2>4, <4>1, <4>3 DEF SendsSet, Current, Known, Working
    <3>2. Checked(m)
      <4>1. CASE useDHCP
        BY <2>4, <4>1 DEF SendsSet, SetCmd
      <4>2. CASE ~useDHCP
        <5>1. net \in Addr /\ anchor[Current(t)].ipSet \in Addr
          BY <2>4, <3>1, <4>2 DEF SendsSet, CheckedInv, AppliedChecked
        <5> QED BY <2>4, <4>2, <5>1 DEF SendsSet, SetCmd
      <4> QED BY <4>1, <4>2
    <3> HIDE DEF Checked
    <3> QED BY <1>2, <2>2, <3>2
  <2> QED BY <2>1, <2>3, <2>4
<1>6. CASE Served(c)
  <2>1. conn[c].out # <<>> /\ conn'[c].out = Tail(conn[c].out)
    <3>1. conn[c].out # <<>>
      BY <1>6 DEF Served, DeviceStep
    <3>2. CASE conn' = [conn EXCEPT ![c].out = Tail(@)]
      BY <1>1, <3>1, <3>2 DEF ConnRecord
    <3>3. CASE \E r \in Reply : conn' = [conn EXCEPT ![c].out = Tail(@), ![c].in = Append(@, r)]
      BY <1>1, <3>1, <3>3 DEF ConnRecord
    <3> QED BY <1>6, <3>2, <3>3, SMTT(40) DEF Served
  <2> QED BY <1>4, <2>1
<1>7. CASE ReadFrom(c)
  BY <1>1, <1>3, <1>7 DEF ReadFrom, ConnRecord
<1>8. CASE Made(c)
  BY <1>3, <1>8, MadeFields
<1>9. CASE Drop(c)
  BY <1>3, <1>9, DropFields
<1>10. CASE Ended(c)
  BY <1>3, <1>10, ClosedFields
<1> HIDE DEF Checked
<1> QED BY <1>3, <1>5, <1>6, <1>7, <1>8, <1>9, <1>10, ConnStep

LEMMA CheckedStep ==
  ASSUME NoneOutOfRange, Quietly, OneApply, TypeInv, ListInv, OneApplyInv, LockInv, CheckedInv,
         [Next]_vars
  PROVE  CheckedInv'
<1>1. CASE Next
  BY <1>1, RowTextsStep, NetTextStep, AppliedCheckedStep, SentStep DEF CheckedInv
<1>2. CASE UNCHANGED vars
  BY <1>2 DEF vars, dbVars, guiVars, wireVars, CheckedInv, SentIsChecked, RowTexts,
     AppliedChecked, Working, Known
<1> QED BY <1>1, <1>2

\* When no text is typed that looks like an address and is none, every address, netmask
\* and gateway an anchor is told to use has passed the checks of OnBtnApply.
THEOREM SentWasChecked ==
  OneApply /\ Quietly /\ NoneOutOfRange => (Spec => []SentIsChecked)
<1> SUFFICES ASSUME OneApply, Quietly, NoneOutOfRange PROVE Spec => []SentIsChecked
  OBVIOUS
<1> DEFINE I == TypeInv /\ ListInv /\ OneApplyInv /\ LockInv /\ CheckedInv
<1>1. Init => I
  <2>1. Init => ListInv
    BY DEF Init, ListInv, RowsKnown, Known
  <2>2. Init => CheckedInv
    BY DEF Init, CheckedInv, SentIsChecked, RowTexts, Typed, AppliedChecked, Working
  <2> QED BY <2>1, <2>2, InitOneApply, InitLock
<1>2. I /\ [Next]_vars => I'
  <2>1. "drop" \notin Env
    BY DEF Quietly
  <2> QED BY <2>1, TypeStep, ListStep, OneApplyStep, LockStep, CheckedStep
<1>3. I => SentIsChecked
  BY DEF CheckedInv
<1> HIDE DEF I
<1> QED BY <1>1, <1>2, <1>3, PTL DEF Spec

(***************************************************************************)
(* Two clicks on Apply: the buttons keep the second thread from connecting *)
(* while the first still does.                                             *)
(***************************************************************************)
TwoApplies == \A s, t, u \in Job : s = t \/ t = u \/ u = s

Connecting(t) == job[t].pc \in {"connect", "connecting", "opening", "mark"}
OneConnecting == \A s, t \in Job : Connecting(s) /\ Connecting(t) => s = t

\* Until the first command is sent Apply stays disabled and nothing can enable it.
ConnectLocks == BeforeSending /\ ~BeforeApply =>
                  ~applyOn /\ ~populateOn /\ ~ScanPending /\ Selected # {}

\* A connection is the one its anchor points to, and none is made while there is one.
SockOwns == /\ \A c \in Conn : conn[c].st # "unused" => anchor[conn[c].id].sock = c
            /\ \A t \in Job :
                 job[t].pc \in {"connecting", "opening"} => anchor[Current(t)].sock = NoConn

TwoInv == StartInv /\ ScanLocks /\ OneConnecting /\ ConnectLocks /\ SockOwns

LEMMA OneConnectingStep ==
  ASSUME TwoApplies, TypeInv, TwoInv, Next PROVE OneConnecting'
<1> SUFFICES ASSUME NEW s \in Job, NEW t \in Job, Connecting(s)', Connecting(t)', s # t
             PROVE  FALSE
  BY DEF OneConnecting
<1>1. ASSUME NEW u \in Job, NEW v \in Job, u # v, OnBtnApply(u), Connecting(v) PROVE FALSE
  <2>1. \A w \in Job : w = u \/ w = v
    BY <1>1 DEF TwoApplies
  <2>2. BeforeSending /\ ~BeforeApply
    BY <1>1, <2>1 DEF OnBtnApply, Connecting, BeforeSending, BeforeApply
  <2> QED BY <1>1, <2>2 DEF TwoInv, ConnectLocks, OnBtnApply
<1>2. ASSUME NEW u \in Job, Connecting(u)' PROVE Connecting(u) \/ OnBtnApply(u)
  BY <1>2, PcStep DEF Connecting
<1>3. ASSUME OnBtnApply(s), OnBtnApply(t) PROVE FALSE
  <2>1. job \in [Job -> JobRecord] /\ job' = [job EXCEPT ![s].pc = "connect"]
    BY <1>3 DEF OnBtnApply, TypeInv, TypeOK, ThreadType
  <2>2. job'[t].pc = "unused"
    BY <1>3, <2>1 DEF OnBtnApply
  <2> QED BY <2>2 DEF Connecting
<1> QED BY <1>1, <1>2, <1>3 DEF TwoInv, OneConnecting

LEMMA ConnectLocksStep ==
  ASSUME {"busyUser", "empty"} \cap Env = {}, TypeInv, TwoInv, Next PROVE ConnectLocks'
<1> SUFFICES ASSUME BeforeSending', ~BeforeApply'
             PROVE  ~applyOn' /\ ~populateOn' /\ ~ScanPending' /\ Selected' # {}
  BY DEF ConnectLocks
<1>1. BeforeSending
  BY StagesStep
<1>2. CASE BeforeApply
  <2>1. PICK t \in Job : job[t].pc = "unused" /\ job'[t].pc # "unused"
    BY <1>2 DEF BeforeApply
  <2>2. OnBtnApply(t)
    BY <2>1, PcStep
  <2>3. UNCHANGED <<rows, queue, scan>> /\ ~applyOn' /\ ~populateOn' /\ applyOn /\ Selected # {}
    BY <2>2 DEF OnBtnApply, guiRest
  <2>4. ~ScanPending
    BY <1>2, <2>3 DEF TwoInv, ScanLocks
  <2> QED BY <2>3, <2>4 DEF ScanPending, ScanQueued, Selected
<1>3. CASE ~BeforeApply
  <2>1. ~applyOn /\ ~populateOn /\ ~ScanPending /\ Selected # {}
    BY <1>1, <1>3 DEF TwoInv, ConnectLocks
  <2>2. queue \in Seq(Event) /\ rows \in Seq(Row)
    BY DEF TypeInv, TypeOK, QueueType, GuiType
  <2>3. \A t \in Job : ~OnBtnApply(t)
    BY <2>1 DEF OnBtnApply
  <2>4. \A s \in Scanner : ~OnBtnPopulate(s) /\ ~ScanFinish(s)
    BY <2>1 DEF OnBtnPopulate, ScanFinish, ScanPending
  <2>5. ~OnScanIPFinished
    <3>1. queue # <<>> => 1 \in DOMAIN queue /\ queue[1] = Head(queue)
      BY <2>2
    <3> QED BY <2>1, <3>1 DEF OnScanIPFinished, Dequeue, ScanPending, ScanQueued
  <2>6. ~OnChkBoxClicked /\ \A i \in DOMAIN rows : ~ToggleRow(i)
    BY <2>1 DEF OnChkBoxClicked, ToggleRow, UserMayEdit
  <2>7. PICK i \in DOMAIN rows : rows[i].sel
    BY <2>1 DEF Selected
  <2>8. \E k \in Selected : anchor[rows[k].id].status \notin Final
    <3>1. rows[i] \in Row
      BY <2>2, <2>7
    <3>2. i \in Selected /\ rows[i].id \in Anchor
      BY <2>7, <3>1 DEF Selected, Row
    <3> QED BY <1>1, <3>2 DEF TwoInv, StartInv, SilenceInv
  <2>9. ~applyOn' /\ ~populateOn'
    BY <2>1, <2>3, <2>4, <2>5, <2>6, <2>8, ButtonStep
  <2>10. ~ScanPending'
    <3>1. \A s \in Scanner : ~(scan'[s] > 0)
      BY <2>1, <2>4, ScanStep DEF ScanPending, TypeInv, TypeOK, ThreadType
    <3>2. ~ScanQueued'
      BY <2>1, <2>4, QueueKept DEF ScanPending, ScanQueued, Found, Progress
    <3> QED BY <3>1, <3>2 DEF ScanPending
  <2>11. i \in DOMAIN rows' /\ rows'[i].sel
    BY <2>6, <2>7, RowStep
  <2> QED BY <2>9, <2>10, <2>11 DEF Selected
<1> QED BY <1>2, <1>3

LEMMA SockOwnsStep ==
  ASSUME TypeInv, TwoInv, OneConnecting', Next PROVE SockOwns'
<1>1. \A c \in Conn : conn[c].id \in Anchor /\ c # NoConn
  BY ConnAssumption DEF TypeInv, TypeOK, WireType, ConnRecord
<1>2. ASSUME NEW c \in Conn, ~Made(c)
      PROVE  conn'[c].id = conn[c].id /\ (conn[c].st = "unused" => conn'[c].st = "unused")
  <2>1. conn[c].st = "unused" => conn[c].wire = "gone"
    BY DEF TwoInv, StartInv, WireInv
  <2>2. CASE Drop(c)
    BY <2>2, DropFields
  <2>3. CASE Ended(c)
    BY <2>1, <2>3, ClosedFields
  <2> QED BY <1>2, <2>2, <2>3, IdentityStep
<1>3. CASE \A c \in Conn : ~Made(c)
  <2>1. \A a \in Anchor : anchor'[a].sock = anchor[a].sock
    BY <1>3, SockStep
  <2>2. \A c \in Conn : conn'[c].st # "unused" => anchor'[conn'[c].id].sock = c
    BY <1>1, <1>2, <1>3, <2>1 DEF TwoInv, SockOwns
  <2>3. \A t \in Job :
          job'[t].pc \in {"connecting", "opening"} => anchor'[Current(t)'].sock = NoConn
    BY <2>1, ConnectingStep DEF TwoInv, SockOwns
  <2> QED BY <2>2, <2>3 DEF SockOwns
<1>4. ASSUME NEW c \in Conn, Made(c) PROVE SockOwns'
  <2>1. PICK t \in Job :
           /\ job[t].pc = "opening" /\ job'[t].pc = "mark" /\ Current(t) \in Anchor
           /\ conn'[c].id = Current(t)
           /\ \A d \in Conn \ {c} : conn'[d] = conn[d]
           /\ anchor'[Current(t)].sock = c
           /\ \A a \in Anchor \ {Current(t)} : anchor'[a] = anchor[a]
    BY <1>4, MadeFields
  <2>2. anchor[Current(t)].sock = NoConn
    BY <2>1 DEF TwoInv, SockOwns
  <2>3. ASSUME NEW d \in Conn \ {c}, conn[d].st # "unused"
        PROVE  conn[d].id # Current(t) /\ anchor'[conn[d].id].sock = d
    BY <1>1, <2>1, <2>2, <2>3 DEF TwoInv, SockOwns
  <2>4. \A d \in Conn : conn'[d].st # "unused" => anchor'[conn'[d].id].sock = d
    BY <2>1, <2>3
  <2>5. \A u \in Job : job'[u].pc \notin {"connecting", "opening"}
    BY <2>1 DEF OneConnecting, Connecting
  <2> QED BY <2>4, <2>5 DEF SockOwns
<1> QED BY <1>3, <1>4

LEMMA TwoStep ==
  ASSUME TwoApplies, {"busyUser", "empty"} \cap Env = {}, TypeInv, TwoInv, [Next]_vars
  PROVE  TwoInv'
<1>1. CASE Next
  <2>1. StartInv' /\ ScanLocks'
    BY <1>1, StartStep, ScanLocksStep DEF TwoInv
  <2>2. OneConnecting' /\ ConnectLocks'
    BY <1>1, OneConnectingStep, ConnectLocksStep
  <2>3. SockOwns'
    BY <1>1, <2>2, SockOwnsStep
  <2> QED BY <2>1, <2>2, <2>3 DEF TwoInv
<1>2. CASE UNCHANGED vars
  <2>1. StartInv'
    BY StartStep DEF TwoInv
  <2> QED BY <1>2, <2>1 DEF vars, dbVars, guiVars, discVars, wireVars, TwoInv, ScanLocks,
          ScanPending, ScanQueued, OneScan, OneConnecting, Connecting, ConnectLocks,
          BeforeApply, BeforeSending, Selected, SockOwns, Current
<1> QED BY <1>1, <1>2

\* With at most two clicks on Apply, some row selected at each and a user who leaves the
\* list alone while Apply is disabled, no anchor ever has two connections, although the
\* second thread connects while the first still sends, anchors hang up, refuse or are
\* found late, and scans run.
THEOREM NeverTwoConnections ==
  TwoApplies /\ {"busyUser", "empty"} \cap Env = {} => (Spec => []OneConnection)
<1> SUFFICES ASSUME TwoApplies, {"busyUser", "empty"} \cap Env = {} PROVE Spec => []OneConnection
  OBVIOUS
<1> DEFINE I == TypeInv /\ TwoInv
<1>1. Init => I
  <2> SUFFICES ASSUME Init PROVE I
    OBVIOUS
  <2>1. TypeInv /\ StartInv
    BY InitOneApply DEF OneApplyInv
  <2>2. ScanLocks
    BY InitLock DEF LockInv
  <2>3. \A t \in Job : job[t].pc = "unused"
    BY DEF Init
  <2>4. \A c \in Conn : conn[c].st = "unused"
    BY DEF Init
  <2> QED BY <2>1, <2>2, <2>3, <2>4
          DEF TwoInv, OneConnecting, Connecting, ConnectLocks, BeforeApply, SockOwns
<1>2. I /\ [Next]_vars => I'
  BY TypeStep, TwoStep
<1>3. I => OneConnection
  BY DEF TwoInv, SockOwns, StartInv, WireInv, OneConnection, HoldsFd
<1> HIDE DEF I
<1> QED BY <1>1, <1>2, <1>3, PTL DEF Spec

=============================================================================
