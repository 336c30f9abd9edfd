------------------------- MODULE AnchorHelperProofs -------------------------
(***************************************************************************)
(* Proofs about AnchorHelper, for any number of anchors, clicks,           *)
(* connections and any environment.                                        *)
(***************************************************************************)
EXTENDS AnchorHelper, FiniteSetTheorems, TLAPS

(***************************************************************************)
(* Facts about the helpers.                                                *)
(***************************************************************************)

\* Nothing is left of a sequence of one element after its head.
LEMMA TailOfOne == ASSUME NEW S, NEW s \in Seq(S), Len(s) = 1 PROVE Tail(s) = <<>>
<1>1. s # <<>>
  OBVIOUS
<1>2. Tail(s) \in Seq(S) /\ Len(Tail(s)) = 0
  BY <1>1
<1>3. ASSUME NEW q \in Seq(S), Len(q) = 0 PROVE q = <<>>
  BY <1>3
<1> QED BY <1>2, <1>3

\* What inet_addr makes of a text is a value a command can carry.
LEMMA InetAddrType == ASSUME NEW t \in Text PROVE InetAddr(t) \in Value
  BY DEF InetAddr, Text, Value

\* A status is rendered as one of the texts of the status column.
LEMMA StatusTextType == ASSUME NEW s \in Status PROVE GetStatusText(s) \in RowStatus
  BY DEF GetStatusText, Status, RowStatus, MarkStatus

\* A record keeps its type when a field is given a value of the field's type.
LEMMA RowUpdate ==
  \A r \in Row : /\ \A b \in BOOLEAN : [r EXCEPT !.sel = b] \in Row
                /\ \A t \in Text : [r EXCEPT !.addr = t] \in Row
                /\ \A s \in RowStatus : [r EXCEPT !.stat = s] \in Row
  BY DEF Row

LEMMA ObjectUpdate ==
  \A o \in AnchorObject :
    /\ \A v \in Value, b \in BOOLEAN : [o EXCEPT !.ipSet = v, !.selected = b] \in AnchorObject
    /\ \A s \in Status : [o EXCEPT !.status = s] \in AnchorObject
    /\ \A c \in Conn : [o EXCEPT !.sock = c] \in AnchorObject
  BY DEF AnchorObject

\* The selected rows can be counted, and info_idx starts at the first address.
LEMMA SelectedFinite ==
  ASSUME rows \in Seq(Row)
  PROVE  /\ Cardinality(Selected) \in Nat
         /\ \A i \in Selected : Rank(i) \in Nat \ {0}
<1>1. Selected \subseteq 1..Len(rows) /\ Len(rows) \in Nat
  BY DEF Selected
<1>2. IsFiniteSet(Selected)
  <2>1. IsFiniteSet(1..Len(rows))
    BY <1>1, FS_Interval
  <2> QED BY <1>1, <2>1, FS_Subset
<1>3. ASSUME NEW i \in Selected PROVE Rank(i) \in Nat \ {0}
  <2> DEFINE S == {j \in Selected : j <= i}
  <2>1. IsFiniteSet(S)
    BY <1>2, FS_Subset
  <2>2. i \in S
    BY <1>1
  <2>3. Cardinality(S) # 0
    BY <2>1, <2>2, FS_EmptySet
  <2> QED BY <2>1, <2>3, FS_CardinalityType DEF Rank
<1> QED BY <1>2, <1>3, FS_CardinalityType

\* The addresses a scan returns are a sequence of addresses.
LEMMA AddressesType == ASSUME NEW n, NEW s \in Addresses(n) PROVE s \in Seq(Addr)
<1>1. PICK k \in 0..n : s \in [1..k -> Addr]
  BY DEF Addresses
<1>2. k \in Nat
  OBVIOUS
<1> QED BY <1>1, <1>2

\* Appending an event keeps the queue a sequence of events.
LEMMA QueueAppend == ASSUME QueueType, NEW e \in Event PROVE Append(queue, e) \in Seq(Event)
  BY DEF QueueType

\* The three kinds of events.
LEMMA EventTypes == /\ \A a \in Anchor : Found(a) \in Event /\ Progress(a) \in Event
                    /\ \A s \in Seq(Addr) : ScanDone(s) \in Event
  BY DEF Found, Progress, ScanDone, Event

\* The head of a queue is an event, and its type tells which fields it has.
LEMMA DequeueType ==
  ASSUME QueueType, NEW type, Dequeue(type)
  PROVE  /\ Head(queue) \in Event /\ queue' \in Seq(Event)
         /\ type \in {"found", "progress"} => Head(queue).id \in Anchor
         /\ type = "scan" => Head(queue).ips \in Seq(Addr)
<1>1. Head(queue) \in Event /\ Tail(queue) \in Seq(Event)
  BY DEF Dequeue, QueueType
<1>2. Head(queue).type = type
  BY DEF Dequeue
<1> QED BY <1>1, <1>2 DEF Dequeue, Event

\* Whatever SendFrame does with a command, the connections keep their types.
LEMMA SendFrameType ==
  ASSUME WireType, crashed \in BOOLEAN, NEW c, NEW m \in Command, SendFrame(c, m)
  PROVE  conn' \in [Conn -> ConnRecord] /\ crashed' \in BOOLEAN
<1>1. ASSUME NEW d \in Conn, conn' = [conn EXCEPT ![d].out = Append(@, m)]
      PROVE  conn' \in [Conn -> ConnRecord]
  <2>1. Append(conn[d].out, m) \in Seq(Command)
    BY DEF WireType, ConnRecord
  <2> QED BY <1>1, <2>1, ZenonT(60) DEF WireType, ConnRecord
<1> QED BY <1>1 DEF SendFrame, Holders, WireType

(***************************************************************************)
(* Type correctness.                                                       *)
(***************************************************************************)

LEMMA InitType == Init => TypeOK
<1> SUFFICES ASSUME Init PROVE TypeOK
  OBVIOUS
<1>1. \A a \in Anchor : OwnAddr[a] \in Addr
  BY AddrAssumption
<1>2. DbType
  <2>1. NewAnchor \in AnchorObject
    BY DEF AnchorObject, NewAnchor, Value, Status
  <2>2. net \in Value
    BY DEF Init, Value
  <2>3. ancs \in Seq(Anchor)
    <3>1. ancs = <<>>
      BY DEF Init
    <3> QED BY <3>1
  <2>5. useDHCP \in BOOLEAN
    BY Zenon DEF Init
  <2>4. anchor \in [Anchor -> AnchorObject]
    BY <2>1 DEF Init
  <2> QED BY <2>2, <2>3, <2>4, <2>5 DEF DbType
<1>3. GuiType /\ QueueType /\ DiscType
  <2>1. netText \in Text
    BY DEF Init, Text
  <2> QED BY <2>1 DEF Init, GuiType, QueueType, DiscType
<1>4. ThreadType
  BY DEF Init, ThreadType, JobRecord
<1>5. WireType
  <2>1. (CHOOSE a \in Anchor : TRUE) \in Anchor
    BY AnchorAssumption
  <2> QED BY <1>1, <2>1 DEF Init, WireType, ConnRecord, DevRecord, Value
<1> QED BY <1>2, <1>3, <1>4, <1>5 DEF Init, TypeOK

\* The steps of the Discovery thread.
LEMMA DiscoveryType ==
  ASSUME TypeOK, NEW a \in Anchor, AddAnchor(a) \/ QueueFound(a) PROVE TypeOK'
<1>1. CASE AddAnchor(a)
  <2>1. ancs' \in Seq(Anchor)
    BY <1>1 DEF AddAnchor, TypeOK, DbType
  <2>2. job' \in [Job -> JobRecord]
    <3>1. Len(ancs) \in Int
      BY DEF TypeOK, DbType
    <3>2. \A r \in JobRecord : [r EXCEPT !.lim = Len(ancs)] \in JobRecord
      BY <3>1 DEF JobRecord
    <3>3. CASE job' = job
      BY <3>3 DEF TypeOK, ThreadType
    <3>4. CASE job' = [t \in Job |-> IF Iterating(t) /\ job[t].lim = -1
                                    THEN [job[t] EXCEPT !.lim = Len(ancs)]
                                    ELSE job[t]]
      BY <3>2, <3>4 DEF TypeOK, ThreadType
    <3> QED BY <1>1, <3>3, <3>4 DEF AddAnchor
  <2>3. DiscType'
    BY <1>1 DEF AddAnchor, TypeOK, DiscType
  <2> QED BY <1>1, <2>1, <2>2, <2>3 DEF AddAnchor, TypeOK, DbType, GuiType, QueueType,
             ThreadType, WireType, guiVars, wireVars
<1>2. CASE QueueFound(a)
  BY <1>2, QueueAppend, EventTypes DEF QueueFound, TypeOK, DbType, GuiType, QueueType,
     DiscType, ThreadType, WireType, dbVars, guiVars, wireVars
<1> QED BY <1>1, <1>2

\* The handlers of the GUI thread's events.
LEMMA GuiEventType == ASSUME TypeOK, GuiEvent PROVE TypeOK'
<1>1. CASE OnAnchorFound
  <2>1. Dequeue("found")
    BY <1>1 DEF OnAnchorFound
  <2>2. Head(queue).id \in Anchor /\ queue' \in Seq(Event)
    BY <2>1, DequeueType DEF TypeOK
  <2>3. rows' \in Seq(Row)
    <3> DEFINE a == Head(queue).id
               r == [id |-> a, sel |-> TRUE, addr |-> OwnAddr[a], stat |-> "ANCHOR_FOUND"]
    <3>1. r \in Row
      BY <2>2, AddrAssumption DEF Row, Text, RowStatus
    <3>2. rows' = rows \/ rows' = Append(rows, r)
      BY <1>1 DEF OnAnchorFound
    <3> QED BY <3>1, <3>2 DEF TypeOK, GuiType
  <2> QED BY <1>1, <2>2, <2>3 DEF OnAnchorFound, TypeOK, DbType, GuiType, QueueType,
             DiscType, ThreadType, WireType, dbVars, discVars, wireVars
<1>2. CASE OnProgressUpdate
  <2>1. Dequeue("progress")
    BY <1>2 DEF OnProgressUpdate
  <2>2. Head(queue).id \in Anchor /\ queue' \in Seq(Event)
    BY <2>1, DequeueType DEF TypeOK
  <2>3. rows' \in Seq(Row)
    <3>1. PICK t \in RowStatus : t = GetStatusText(anchor[Head(queue).id].status)
      BY <2>2, StatusTextType DEF TypeOK, DbType, AnchorObject
    <3>2. ASSUME NEW r \in Row PROVE [r EXCEPT !.stat = t] \in Row
      BY DEF Row
    <3>3. /\ DOMAIN rows' = DOMAIN rows
          /\ \A i \in DOMAIN rows :
                rows'[i] = rows[i] \/ rows'[i] = [rows[i] EXCEPT !.stat = t]
          /\ rows' = [i \in DOMAIN rows |-> rows'[i]]
      BY <1>2, <3>1 DEF OnProgressUpdate
    <3>4. DOMAIN rows = 1..Len(rows) /\ Len(rows) \in Nat /\ \A i \in DOMAIN rows : rows[i] \in Row
      BY DEF TypeOK, GuiType
    <3>5. \A i \in 1..Len(rows) : rows'[i] \in Row
      BY <3>2, <3>3, <3>4
    <3>6. rows' \in [1..Len(rows) -> Row]
      BY <3>3, <3>4, <3>5
    <3> QED BY <3>4, <3>6
  <2>4. applyOn' \in BOOLEAN /\ populateOn' \in BOOLEAN /\ crashed' \in BOOLEAN
    BY <1>2 DEF OnProgressUpdate, EnableButtons, TypeOK, GuiType
  <2> QED BY <1>2, <2>2, <2>3, <2>4 DEF OnProgressUpdate, TypeOK, DbType, GuiType,
             QueueType, DiscType, ThreadType, WireType, dbVars, discVars, wireVars
<1>3. CASE OnScanIPFinished
  <2>1. Dequeue("scan")
    BY <1>3 DEF OnScanIPFinished
  <2>2. Head(queue).ips \in Seq(Addr) /\ queue' \in Seq(Event)
    BY <2>1, DequeueType DEF TypeOK
  <2>3. rows' \in Seq(Row)
    <3> DEFINE ips == Head(queue).ips
    <3>1. DOMAIN rows = 1..Len(rows) /\ Len(rows) \in Nat /\ \A i \in DOMAIN rows : rows[i] \in Row
      BY DEF TypeOK, GuiType
    <3>2. \A t \in Addr : \A i \in DOMAIN rows : [rows[i] EXCEPT !.addr = t] \in Row
      BY <3>1, RowUpdate DEF Text
    <3>3. \A i \in Selected : Rank(i) <= Len(ips) => ips[Rank(i)] \in Addr
      BY <2>2, SelectedFinite DEF TypeOK, GuiType
    <3>4. /\ DOMAIN rows' = DOMAIN rows
          /\ \A i \in DOMAIN rows :
                \/ rows'[i] = rows[i]
                \/ /\ i \in Selected /\ Rank(i) <= Len(ips)
                   /\ rows'[i] = [rows[i] EXCEPT !.addr = ips[Rank(i)]]
          /\ rows' = [i \in DOMAIN rows |-> rows'[i]]
      BY <1>3 DEF OnScanIPFinished
    <3>5. \A i \in 1..Len(rows) : rows'[i] \in Row
      BY <3>1, <3>2, <3>3, <3>4
    <3>6. rows' \in [1..Len(rows) -> Row]
      BY <3>1, <3>4, <3>5
    <3> QED BY <3>1, <3>6
  <2> QED BY <1>3, <2>2, <2>3 DEF OnScanIPFinished, EnableButtons, TypeOK, DbType, GuiType,
             QueueType, DiscType, ThreadType, WireType, dbVars, discVars, wireVars
<1> QED BY <1>1, <1>2, <1>3 DEF GuiEvent

\* What the user does to the list, the fields and the buttons.
LEMMA UserType == ASSUME TypeOK, User PROVE TypeOK'
<1> USE DEF TypeOK, DbType, GuiType, QueueType, DiscType, ThreadType, WireType
<1>1. ASSUME NEW i \in DOMAIN rows, ToggleRow(i) PROVE TypeOK'
  <2>1. rows[i] \in Row
    OBVIOUS
  <2>5. (~rows[i].sel) \in BOOLEAN
    BY Zenon
  <2>2. [rows[i] EXCEPT !.sel = ~rows[i].sel] \in Row
    BY <2>1, <2>5, RowUpdate
  <2>3. rows' = [rows EXCEPT ![i] = [rows[i] EXCEPT !.sel = ~rows[i].sel]]
    BY <1>1 DEF ToggleRow
  <2>4. rows' \in Seq(Row)
    BY <2>2, <2>3
  <2> QED BY <1>1, <2>4 DEF ToggleRow, dbVars, discVars, wireVars, guiRest
<1>2. ASSUME NEW i \in DOMAIN rows, NEW t \in RowText, EditRow(i, t) PROVE TypeOK'
  <2>1. t \in Text
    BY TextAssumption DEF Text
  <2>2. [rows[i] EXCEPT !.addr = t] \in Row
    BY <2>1, RowUpdate
  <2>3. rows' = [rows EXCEPT ![i] = [rows[i] EXCEPT !.addr = t]]
    BY <1>2 DEF EditRow
  <2>4. rows' \in Seq(Row)
    BY <2>2, <2>3
  <2> QED BY <1>2, <2>4 DEF EditRow, dbVars, discVars, wireVars, guiRest
<1>3. ASSUME NEW t \in NetText, EditNet(t) PROVE TypeOK'
  <2>1. t \in Text
    BY TextAssumption DEF Text
  <2> QED BY <1>3, <2>1 DEF EditNet, dbVars, discVars, wireVars, guiRest
<1>4. CASE OnChkBoxClicked
  BY <1>4, SMTT(40) DEF OnChkBoxClicked, dbVars, discVars, wireVars, guiRest
<1>5. ASSUME NEW t \in Job, OnBtnApply(t) PROVE TypeOK'
  <2>1. anchor' \in [Anchor -> AnchorObject]
    <3> DEFINE k(a) == CHOOSE j \in RowOf(a) : TRUE
               new(a) == [anchor[a] EXCEPT !.ipSet = InetAddr(rows[k(a)].addr),
                                           !.selected = rows[k(a)].sel]
    <3>1. ASSUME NEW a \in Anchor, RowOf(a) # {} PROVE new(a) \in AnchorObject
      <4>1. k(a) \in RowOf(a)
        BY <3>1
      <4>2. rows[k(a)] \in Row
        BY <4>1 DEF RowOf
      <4>3. InetAddr(rows[k(a)].addr) \in Value /\ rows[k(a)].sel \in BOOLEAN
        BY <4>2, InetAddrType DEF Row
      <4> QED BY <4>3, ObjectUpdate
    <3>2. anchor' = [a \in Anchor |-> IF a \in Known /\ RowOf(a) # {} THEN new(a)
                                     ELSE anchor[a]]
      BY <1>5 DEF OnBtnApply
    <3> HIDE DEF new
    <3> QED BY <3>1, <3>2
  <2>2. net' \in Value
    BY <1>5, InetAddrType DEF OnBtnApply
  <2>3. job' \in [Job -> JobRecord]
    BY <1>5, ZenonT(60) DEF OnBtnApply, JobRecord
  <2> QED BY <1>5, <2>1, <2>2, <2>3 DEF OnBtnApply, dbVars, discVars, wireVars, guiRest
<1>6. ASSUME NEW s \in Scanner, OnBtnPopulate(s) PROVE TypeOK'
  <2>1. Cardinality(Selected) \in Int
    BY SelectedFinite
  <2> QED BY <1>6, <2>1 DEF OnBtnPopulate, dbVars, discVars, wireVars
<1> QED BY <1>1, <1>2, <1>3, <1>4, <1>5, <1>6 DEF User

\* The steps of an ip_scan thread.
LEMMA ScanType ==
  ASSUME TypeOK, NEW s \in Scanner, ScanFinish(s) \/ ScanNoHost(s) PROVE TypeOK'
<1>1. CASE ScanFinish(s)
  <2>1. queue' \in Seq(Event)
    <3>1. PICK ips \in Addresses(scan[s]) : queue' = Append(queue, ScanDone(ips))
      BY <1>1 DEF ScanFinish
    <3>2. ScanDone(ips) \in Event
      BY AddressesType, EventTypes
    <3> QED BY <3>1, <3>2, QueueAppend DEF TypeOK
  <2> QED BY <1>1, <2>1 DEF ScanFinish, TypeOK, DbType, GuiType, QueueType, DiscType,
             ThreadType, WireType, dbVars, guiVars, discVars, wireVars
<1>2. CASE ScanNoHost(s)
  BY <1>2 DEF ScanNoHost, TypeOK, DbType, GuiType, QueueType, DiscType, ThreadType,
     WireType, dbVars, guiVars, discVars, wireVars
<1> QED BY <1>1, <1>2

(***************************************************************************)
(* A TryConnect thread that is at work on an anchor is at one that exists, *)
(* and the limit of an iterator that was invalidated lies in the vector:   *)
(* what its steps need to be well typed.                                   *)
(***************************************************************************)
IteratorsInRange ==
  \A t \in Job : /\ job[t].lim <= Len(ancs)
                 /\ job[t].pc \in {"connecting", "opening", "mark", "wait"} => job[t].i <= Len(ancs)

TypeInv == TypeOK /\ IteratorsInRange

\* A TryConnect thread that may dereference its iterator is at a known anchor.
LEMMA CurrentKnown ==
  ASSUME TypeInv, NEW t \in Job,
         (CanDeref(t) /\ ~AtEnd(t)) \/ job[t].pc \in {"connecting", "opening", "mark", "wait"}
  PROVE  Current(t) \in Anchor /\ job[t].i <= Len(ancs)
<1>1. job[t].i \in Nat \ {0} /\ job[t].lim \in Int
  BY DEF TypeInv, TypeOK, ThreadType, JobRecord
<1>2. ancs \in Seq(Anchor) /\ Len(ancs) \in Nat
  BY DEF TypeInv, TypeOK, DbType
<1>3. job[t].i \in 1..Len(ancs)
  BY <1>1, <1>2 DEF CanDeref, AtEnd, TypeInv, IteratorsInRange
<1> QED BY <1>2, <1>3 DEF Current

\* Moving a thread to another point, or on to the next anchor, keeps it well typed.
LEMMA JobUpdate ==
  ASSUME job \in [Job -> JobRecord], NEW t \in Job,
         NEW pc \in {"unused", "connect", "connecting", "opening", "mark", "send", "wait", "done"},
         Goto(t, pc) \/ NextAnchor(t, pc)
  PROVE  job' \in [Job -> JobRecord]
  BY DEF Goto, NextAnchor, JobRecord

\* The command TryConnect sends is a command.
LEMMA CommandType ==
  ASSUME TypeOK, NEW a \in Anchor, NEW b \in BOOLEAN
  PROVE  SetCmd(a) \in Command /\ GetCmd(b) \in Command
<1>1. anchor[a].ipSet \in Value /\ net \in Value
  BY DEF TypeOK, DbType, AnchorObject
<1> QED BY <1>1 DEF SetCmd, GetCmd, Command

\* Closing a descriptor keeps the types of the connections and sockets.
LEMMA ClosedType ==
  ASSUME WireType, NEW n
  PROVE  /\ Closed(n) \in [Conn -> ConnRecord]
         /\ Released(n) \in [Job -> [fd : Nat, held : BOOLEAN]]
<1>1. ASSUME NEW d \in Conn
      PROVE  [conn[d] EXCEPT !.wire = "gone", !.out = <<>>, !.in = <<>>] \in ConnRecord
  <2>1. conn[d] \in ConnRecord
    BY DEF WireType
  <2>2. <<>> \in Seq(Command) /\ <<>> \in Seq(Reply)
    OBVIOUS
  <2> QED BY <2>1, <2>2 DEF ConnRecord
<1>2. Released(n) \in [Job -> [fd : Nat, held : BOOLEAN]]
  <2>1. ASSUME NEW t \in Job
        PROVE  [opening[t] EXCEPT !.held = FALSE] \in [fd : Nat, held : BOOLEAN]
    BY DEF WireType
  <2> QED BY <2>1 DEF WireType, Released
<1> QED BY <1>1, <1>2 DEF Closed, WireType

\* The steps of a TryConnect thread.
LEMMA TryConnectType == ASSUME TypeInv, NEW t \in Job, TryConnect(t) PROVE TypeOK'
<1> USE DEF TypeInv, TypeOK, DbType, GuiType, QueueType, DiscType, ThreadType, WireType
<1>1. CASE ConnectTurn(t)
  <2>1. job' \in [Job -> JobRecord]
    <3>1. CASE job' = [job EXCEPT ![t].pc = "send", ![t].i = 1, ![t].lim = -1]
      <4>1. ASSUME NEW r \in JobRecord, NEW i \in Nat \ {0}, NEW l \in Int
            PROVE  [r EXCEPT !.pc = "send", !.i = i, !.lim = l] \in JobRecord
        BY DEF JobRecord
      <4>2. 1 \in Nat \ {0} /\ -1 \in Int
        OBVIOUS
      <4>3. [job[t] EXCEPT !.pc = "send", !.i = 1, !.lim = -1] \in JobRecord
        BY <4>1, <4>2
      <4> QED BY <3>1, <4>3
    <3>2. CASE NextAnchor(t, "connect") \/ Goto(t, "connecting")
      BY <3>2, JobUpdate
    <3> QED BY <1>1, <3>1, <3>2 DEF ConnectTurn
  <2> QED BY <1>1, <2>1 DEF ConnectTurn, dbVars, guiVars, discVars, jobRest
<1>7. CASE OpenSocket(t)
  <2>1. job' \in [Job -> JobRecord]
    BY <1>7, JobUpdate, SMTT(40) DEF OpenSocket
  <2>2. opening' \in [Job -> [fd : Nat, held : BOOLEAN]]
    <3>1. CASE UNCHANGED opening
      BY <3>1
    <3>2. ASSUME NEW n \in 1..(Cardinality(Conn) + Cardinality(Job) + 1),
                 opening' = [opening EXCEPT ![t] = [fd |-> n, held |-> TRUE]]
          PROVE  opening' \in [Job -> [fd : Nat, held : BOOLEAN]]
      <4>1. [fd |-> n, held |-> TRUE] \in [fd : Nat, held : BOOLEAN]
        OBVIOUS
      <4> QED BY <3>2, <4>1
    <3> QED BY <1>7, <3>1, <3>2 DEF OpenSocket
  <2>3. crashed' \in BOOLEAN
    BY <1>7 DEF OpenSocket
  <2> QED BY <1>7, <2>1, <2>2, <2>3 DEF OpenSocket, dbVars, guiVars, discVars, jobRest
<1>2. CASE ConnectToAnchor(t)
  <2> DEFINE a == Current(t)
  <2>1. a \in Anchor
    BY <1>2, CurrentKnown DEF ConnectToAnchor
  <2>2. job' \in [Job -> JobRecord]
    <3>1. \A b \in BOOLEAN : [job[t] EXCEPT !.pc = "mark", !.ok = b] \in JobRecord
      BY DEF JobRecord
    <3> QED BY <1>2, <3>1 DEF ConnectToAnchor
  <2>3. conn' \in [Conn -> ConnRecord] /\ anchor' \in [Anchor -> AnchorObject]
    <3>1. CASE conn' = Closed(opening[t].fd) /\ UNCHANGED anchor
      BY <3>1, ClosedType
    <3>2. ASSUME NEW c \in Conn, NEW n \in Nat,
                 conn' = [conn EXCEPT ![c] = [@ EXCEPT !.st = "running", !.wire = "up",
                                                       !.id = a, !.fd = n]],
                 anchor' = [anchor EXCEPT ![a].sock = c]
          PROVE  conn' \in [Conn -> ConnRecord] /\ anchor' \in [Anchor -> AnchorObject]
      <4>2. conn' \in [Conn -> ConnRecord]
        BY <2>1, <3>2, ZenonT(60) DEF ConnRecord
      <4>3. anchor' \in [Anchor -> AnchorObject]
        BY <2>1, <3>2 DEF AnchorObject
      <4> QED BY <4>2, <4>3
    <3>3. opening[t].fd \in Nat
      OBVIOUS
    <3> QED BY <1>2, <3>1, <3>2, <3>3 DEF ConnectToAnchor
  <2>4. opening' \in [Job -> [fd : Nat, held : BOOLEAN]]
    BY <1>2, ClosedType DEF ConnectToAnchor
  <2> QED BY <1>2, <2>2, <2>3, <2>4 DEF ConnectToAnchor, guiVars, discVars, jobRest
<1>3. CASE MarkConnect(t)
  <2> DEFINE a == Current(t)
  <2>1. a \in Anchor
    BY <1>3, CurrentKnown DEF MarkConnect
  <2>2. anchor' \in [Anchor -> AnchorObject]
    <3>1. Marked(a, job[t].ok) \in Status
      BY DEF Marked, Status
    <3> QED BY <1>3, <2>1, <3>1 DEF MarkConnect, AnchorObject
  <2>3. queue' \in Seq(Event)
    BY <1>3, <2>1, QueueAppend, EventTypes DEF MarkConnect
  <2>4. job' \in [Job -> JobRecord]
    BY <1>3, JobUpdate DEF MarkConnect
  <2> QED BY <1>3, <2>2, <2>3, <2>4 DEF MarkConnect, guiVars, discVars, jobRest
<1>4. CASE SendTurn(t)
  <2> DEFINE a == Current(t)
  <2>1. CASE NextAnchor(t, "send") \/ Goto(t, "done")
    <3>1. job' \in [Job -> JobRecord]
      BY <2>1, JobUpdate
    <3>2. UNCHANGED <<conn, crashed>> \/ \E c, m : SendFrame(c, m) /\ m = SetCmd(a) /\ a \in Anchor
      BY <1>4, CurrentKnown DEF SendTurn
    <3>3. conn' \in [Conn -> ConnRecord] /\ crashed' \in BOOLEAN
      BY <3>2, SendFrameType, CommandType
    <3> QED BY <1>4, <3>1, <3>3 DEF SendTurn, dbVars, guiVars, discVars, jobRest
  <2>2. CASE /\ SendFrame(anchor[a].sock, SetCmd(a)) /\ ~AtEnd(t) /\ CanDeref(t)
             /\ job' = [job EXCEPT ![t].pc = "wait", ![t].dhcp = useDHCP]
    <3>1. a \in Anchor
      BY <2>2, CurrentKnown
    <3>2. conn' \in [Conn -> ConnRecord] /\ crashed' \in BOOLEAN
      BY <2>2, <3>1, SendFrameType, CommandType
    <3>3. job' \in [Job -> JobRecord]
      BY <2>2, ZenonT(60) DEF JobRecord
    <3> QED BY <1>4, <3>2, <3>3 DEF SendTurn, dbVars, guiVars, discVars, jobRest
  <2> QED BY <1>4, <2>1, <2>2 DEF SendTurn
<1>5. CASE SendGet(t)
  <2> DEFINE a == Current(t)
  <2>1. a \in Anchor
    BY <1>5, CurrentKnown DEF SendGet
  <2>2. conn' \in [Conn -> ConnRecord] /\ crashed' \in BOOLEAN
    <3>1. GetCmd(job[t].dhcp) \in Command
      BY <2>1, CommandType DEF JobRecord
    <3> QED BY <1>5, <3>1, SendFrameType DEF SendGet
  <2>3. job' \in [Job -> JobRecord]
    BY <1>5, JobUpdate DEF SendGet
  <2> QED BY <1>5, <2>2, <2>3 DEF SendGet, dbVars, guiVars, discVars, jobRest
<1>6. CASE StaleIterator(t)
  BY <1>6 DEF StaleIterator, dbVars, guiVars, discVars, wireVars
<1> QED BY <1>1, <1>2, <1>3, <1>4, <1>5, <1>6, <1>7 DEF TryConnect

\* What an anchor does with its end of a connection.
LEMMA DeviceType ==
  ASSUME TypeOK, NEW c \in Conn, DeviceStep(c) \/ Drop(c) PROVE TypeOK'
<1> USE DEF TypeOK, DbType, GuiType, QueueType, DiscType, ThreadType, WireType
<1>1. conn[c] \in ConnRecord /\ conn[c].id \in Anchor
  BY DEF ConnRecord
<1>2. CASE DeviceStep(c)
  <2> DEFINE m == Head(conn[c].out)
             a == conn[c].id
  <2>1. m \in Command /\ Tail(conn[c].out) \in Seq(Command)
    BY <1>1, <1>2 DEF DeviceStep, ConnRecord
  <2>2. dev[a] \in DevRecord
    BY <1>1
  <2>3. ASSUME conn' = [conn EXCEPT ![c].out = Tail(@)] PROVE conn' \in [Conn -> ConnRecord]
    BY <1>1, <2>1, <2>3 DEF ConnRecord
  <2>4. ASSUME NEW r \in Reply,
               conn' = [conn EXCEPT ![c].out = Tail(@), ![c].in = Append(@, r)]
        PROVE  conn' \in [Conn -> ConnRecord]
    <3>1. Append(conn[c].in, r) \in Seq(Reply)
      BY <1>1 DEF ConnRecord
    <3> QED BY <1>1, <2>1, <2>4, <3>1 DEF ConnRecord
  <2>5. ASSUME NEW d \in DevRecord, dev' = [dev EXCEPT ![a] = d]
        PROVE  dev' \in [Anchor -> DevRecord]
    BY <1>1, <2>5, SMTT(40)
  <2>6. CASE m.cmd = "setStatic"
    <3>1. [addr |-> m.addr, net |-> m.net, static |-> TRUE] \in DevRecord
      BY <2>1, <2>6 DEF Command, DevRecord
    <3> QED BY <1>2, <2>3, <2>5, <2>6, <3>1 DEF DeviceStep, dbVars, guiVars, discVars
  <2>7. CASE m.cmd = "useDhcp"
    <3>1. [dev[a] EXCEPT !.static = FALSE] \in DevRecord
      BY <2>2 DEF DevRecord
    <3> QED BY <1>2, <2>3, <2>5, <2>7, <3>1 DEF DeviceStep, dbVars, guiVars, discVars
  <2>8. CASE m.cmd = "getStatic"
    <3>1. [cmd |-> "static", addr |-> dev[a].addr, net |-> dev[a].net] \in Reply
      BY <2>2, SMTT(40) DEF DevRecord, Reply
    <3> QED BY <1>2, <2>4, <2>8, <3>1 DEF DeviceStep, dbVars, guiVars, discVars
  <2>9. CASE m.cmd = "getUse"
    <3>1. [cmd |-> "use", value |-> dev[a].static] \in Reply
      BY <2>2 DEF DevRecord, Reply
    <3> QED BY <1>2, <2>4, <2>9, <3>1 DEF DeviceStep, dbVars, guiVars, discVars
  <2> QED BY <1>2, <2>6, <2>7, <2>8, <2>9, SMTT(40) DEF DeviceStep
<1>3. CASE Drop(c)
  <2>1. ASSUME NEW in \in {conn[c].in, <<>>},
               conn' = [conn EXCEPT ![c].wire = "down", ![c].out = <<>>, ![c].in = in]
        PROVE  conn' \in [Conn -> ConnRecord]
    <3>1. <<>> \in Seq(Command) /\ <<>> \in Seq(Reply)
      OBVIOUS
    <3>2. conn[c].in \in Seq(Reply)
      BY <1>1 DEF ConnRecord
    <3>3. in \in Seq(Reply)
      BY <3>1, <3>2
    <3> QED BY <1>1, <2>1, <3>1, <3>3 DEF ConnRecord
  <2> QED BY <1>3, <2>1 DEF Drop, dbVars, guiVars, discVars
<1> QED BY <1>2, <1>3

\* The steps by which an AnchorConnection thread closes keep the types.
LEMMA CloseFdType ==
  ASSUME WireType, NEW c \in Conn, NEW n, NEW st \in {"closed", "freed"}, CloseFd(c, n, st)
  PROVE  /\ conn' \in [Conn -> ConnRecord]
         /\ opening' \in [Job -> [fd : Nat, held : BOOLEAN]]
<1>1. Closed(n) \in [Conn -> ConnRecord]
  BY ClosedType
<1>2. ASSUME NEW r \in ConnRecord PROVE [r EXCEPT !.st = st] \in ConnRecord
  BY DEF ConnRecord
<1>3. conn' = [Closed(n) EXCEPT ![c].st = st] /\ opening' = Released(n)
  BY DEF CloseFd
<1> QED BY <1>1, <1>2, <1>3, ClosedType

\* The steps of an AnchorConnection thread.
LEMMA ConnectionType == ASSUME TypeOK, NEW c \in Conn, Connection(c) PROVE TypeOK'
<1> USE DEF TypeOK, DbType, GuiType, QueueType, DiscType, ThreadType, WireType
<1>1. conn[c].id \in Anchor
  BY DEF ConnRecord
<1>2. ASSUME NEW d \in Conn, NEW cmd \in {"use", "static"}, Receive(c, d, cmd)
      PROVE  /\ conn' \in [Conn -> ConnRecord]
             /\ Head(conn[d].in) \in Reply /\ Head(conn[d].in).cmd = cmd
  <2>1. conn[d] \in ConnRecord /\ Tail(conn[d].in) \in Seq(Reply)
    BY <1>2 DEF Receive, ConnRecord
  <2>2. Head(conn[d].in) \in Reply
    BY <1>2 DEF Receive, ConnRecord
  <2>3. conn' \in [Conn -> ConnRecord]
    BY <1>2, <2>1 DEF Receive, ConnRecord
  <2> QED BY <1>2, <2>2, <2>3 DEF Receive
<1>3. ASSUME NEW s \in Status, anchor' = [anchor EXCEPT ![conn[c].id].status = s]
      PROVE  anchor' \in [Anchor -> AnchorObject]
  BY <1>1, <1>3, ZenonT(60) DEF AnchorObject
<1>4. ASSUME NEW d \in Conn, HandleUseStaticAddr(c, d) PROVE TypeOK'
  <2>1. Receive(c, d, "use")
    BY <1>4 DEF HandleUseStaticAddr
  <2>2. UseStaticStatus(Head(conn[d].in).value) \in Status
    BY DEF UseStaticStatus, Status, MarkStatus
  <2> QED BY <1>1, <1>2, <1>3, <1>4, <2>1, <2>2, QueueAppend, EventTypes
          DEF HandleUseStaticAddr, connRest, guiVars, discVars
<1>5. ASSUME NEW d \in Conn, HandleSetStaticAddr(c, d) PROVE TypeOK'
  <2>1. Receive(c, d, "static")
    BY <1>5 DEF HandleSetStaticAddr
  <2>2. anchor' = anchor \/ anchor' = [anchor EXCEPT ![conn[c].id].status = "SET_STATIC_IP_OK"]
    BY <1>5 DEF HandleSetStaticAddr
  <2>3. anchor' \in [Anchor -> AnchorObject]
    BY <1>3, <2>2 DEF Status
  <2> QED BY <1>1, <1>2, <1>5, <2>1, <2>3, QueueAppend, EventTypes
          DEF HandleSetStaticAddr, connRest, guiVars, discVars
<1>6. CASE ConnectionClose(c)
  BY <1>6, CloseFdType, SMTT(40) DEF ConnectionClose, connRest, guiVars, discVars
<1>7. CASE ConnectionDelete(c)
  BY <1>7, CloseFdType, SMTT(40) DEF ConnectionDelete, connRest, guiVars, discVars
<1> QED BY <1>4, <1>5, <1>6, <1>7 DEF Connection

\* The iterators stay in range: the vector only grows, and only the steps of the
\* threads themselves and a reallocation change an iterator.
LEMMA RangeStep == ASSUME TypeInv, Next PROVE IteratorsInRange'
<1>1. Len(ancs) \in Nat /\ job \in [Job -> JobRecord]
  BY DEF TypeInv, TypeOK, DbType, ThreadType
<1>2. \A t \in Job : job[t].lim \in Int /\ job[t].i \in Nat \ {0}
  BY <1>1 DEF JobRecord
<1>3. ASSUME UNCHANGED <<ancs, job>> PROVE IteratorsInRange'
  BY <1>3 DEF TypeInv, IteratorsInRange
<1>4. ASSUME NEW a \in Anchor, AddAnchor(a) PROVE IteratorsInRange'
  <2>1. CASE UNCHANGED <<ancs, job>>
    BY <1>3, <2>1
  <2>2. CASE ancs' = Append(ancs, a)
    <3>1. Len(ancs') = Len(ancs) + 1
      BY <2>2 DEF TypeInv, TypeOK, DbType
    <3>2. CASE UNCHANGED job
      BY <1>1, <1>2, <3>1, <3>2 DEF TypeInv, IteratorsInRange
    <3>3. CASE job' = [t \in Job |-> IF Iterating(t) /\ job[t].lim = -1
                                    THEN [job[t] EXCEPT !.lim = Len(ancs)]
                                    ELSE job[t]]
      <4>1. ASSUME NEW t \in Job
            PROVE  /\ job'[t].lim \in {job[t].lim, Len(ancs)}
                   /\ job'[t].pc = job[t].pc /\ job'[t].i = job[t].i
        BY <1>1, <3>3 DEF JobRecord
      <4> QED BY <1>1, <1>2, <3>1, <4>1 DEF TypeInv, IteratorsInRange
    <3> QED BY <1>4, <2>2, <3>2, <3>3 DEF AddAnchor
  <2> QED BY <1>4, <2>1, <2>2 DEF AddAnchor
<1>5. ASSUME NEW a \in Anchor, QueueFound(a) PROVE IteratorsInRange'
  BY <1>3, <1>5 DEF QueueFound, dbVars
<1>6. CASE GuiEvent
  BY <1>3, <1>6 DEF GuiEvent, OnAnchorFound, OnProgressUpdate, OnScanIPFinished, dbVars
<1>7. CASE User
  <2>1. CASE UNCHANGED <<ancs, job>>
    BY <1>3, <2>1
  <2>2. ASSUME NEW t \in Job, OnBtnApply(t) PROVE IteratorsInRange'
    BY <1>1, <1>2, <2>2 DEF OnBtnApply, TypeInv, IteratorsInRange, JobRecord
  <2> QED BY <1>7, <2>1, <2>2 DEF User, ToggleRow, EditRow, EditNet, OnChkBoxClicked,
             OnBtnPopulate, dbVars
<1>8. ASSUME NEW s \in Scanner, ScanFinish(s) \/ ScanNoHost(s) PROVE IteratorsInRange'
  BY <1>3, <1>8 DEF ScanFinish, ScanNoHost, dbVars
<1>9. ASSUME NEW t \in Job, TryConnect(t) PROVE IteratorsInRange'
  <2>1. UNCHANGED ancs
    BY <1>9 DEF TryConnect, ConnectTurn, OpenSocket, ConnectToAnchor, MarkConnect, SendTurn,
       SendGet,
       StaleIterator, dbVars
  <2>2. ASSUME NEW pc \in {"connect", "connecting", "opening", "send", "done"},
               Goto(t, pc) \/ NextAnchor(t, pc),
               pc \in {"connecting", "opening"} => job[t].i <= Len(ancs) /\ Goto(t, pc)
        PROVE  IteratorsInRange'
    <3>1. ASSUME NEW u \in Job
          PROVE  /\ job'[u].lim = job[u].lim
                 /\ u # t => job'[u] = job[u]
                 /\ u = t => job'[u].pc = pc /\ (Goto(t, pc) => job'[u].i = job[u].i)
      BY <1>1, <2>2 DEF Goto, NextAnchor, JobRecord
    <3> QED BY <2>1, <2>2, <3>1 DEF TypeInv, IteratorsInRange
  <2>3. CASE ConnectTurn(t)
    <3>1. CASE job' = [job EXCEPT ![t].pc = "send", ![t].i = 1, ![t].lim = -1]
      BY <1>1, <1>2, <2>1, <3>1 DEF TypeInv, IteratorsInRange, JobRecord
    <3>2. CASE ~AtEnd(t) /\ CanDeref(t) /\ (NextAnchor(t, "connect") \/ Goto(t, "connecting"))
      BY <2>2, <3>2, CurrentKnown
    <3> QED BY <2>3, <3>1, <3>2 DEF ConnectTurn
  <2>4. CASE ConnectToAnchor(t)
    <3>1. PICK b \in BOOLEAN : job' = [job EXCEPT ![t].pc = "mark", ![t].ok = b]
      BY <2>4 DEF ConnectToAnchor
    <3>2. job[t].pc = "opening"
      BY <2>4 DEF ConnectToAnchor
    <3>3. ASSUME NEW u \in Job
          PROVE  job'[u].lim = job[u].lim /\ job'[u].i = job[u].i
      BY <1>1, <3>1 DEF JobRecord
    <3>4. ASSUME NEW u \in Job, u # t PROVE job'[u] = job[u]
      BY <1>1, <3>1, <3>4
    <3> QED BY <2>1, <3>2, <3>3, <3>4 DEF TypeInv, IteratorsInRange
  <2>9. CASE OpenSocket(t)
    <3>1. CASE UNCHANGED job
      BY <1>3, <2>1, <3>1
    <3>2. job[t].pc = "connecting" /\ (UNCHANGED job \/ Goto(t, "opening"))
      BY <2>9 DEF OpenSocket
    <3>3. job[t].i <= Len(ancs)
      BY <3>2 DEF TypeInv, IteratorsInRange
    <3> QED BY <2>2, <3>1, <3>2, <3>3
  <2>5. CASE MarkConnect(t)
    BY <2>2, <2>5 DEF MarkConnect
  <2>6. CASE SendTurn(t)
    <3>1. CASE Goto(t, "done") \/ NextAnchor(t, "send")
      BY <2>2, <3>1
    <3>2. CASE /\ ~AtEnd(t) /\ CanDeref(t)
               /\ job' = [job EXCEPT ![t].pc = "wait", ![t].dhcp = useDHCP]
      BY <1>1, <1>2, <2>1, <3>2, CurrentKnown DEF TypeInv, IteratorsInRange, JobRecord
    <3> QED BY <2>6, <3>1, <3>2 DEF SendTurn
  <2>7. CASE SendGet(t)
    BY <2>2, <2>7 DEF SendGet
  <2>8. CASE StaleIterator(t)
    BY <1>3, <2>8, SMTT(40) DEF StaleIterator, dbVars
  <2> QED BY <1>9, <2>3, <2>4, <2>5, <2>6, <2>7, <2>8, <2>9 DEF TryConnect
<1>10. ASSUME NEW c \in Conn, DeviceStep(c) \/ Drop(c) PROVE IteratorsInRange'
  BY <1>3, <1>10 DEF DeviceStep, Drop, dbVars
<1>11. ASSUME NEW c \in Conn, Connection(c) PROVE IteratorsInRange'
  BY <1>3, <1>11 DEF Connection, HandleUseStaticAddr, HandleSetStaticAddr,
     ConnectionClose, ConnectionDelete, connRest
<1>12. CASE FindAnchorRaces
  BY <1>3, <1>12 DEF FindAnchorRaces, dbVars
<1> QED BY <1>4, <1>5, <1>6, <1>7, <1>8, <1>9, <1>10, <1>11, <1>12 DEF Next

LEMMA TypeStep == TypeInv /\ [Next]_vars => TypeInv'
<1> SUFFICES ASSUME TypeInv, [Next]_vars PROVE TypeInv'
  OBVIOUS
<1>1. CASE Next
  <2>1. TypeOK'
    <3>1. CASE FindAnchorRaces
      BY <3>1 DEF FindAnchorRaces, dbVars, guiVars, discVars, wireVars, TypeInv, TypeOK,
         DbType, GuiType, QueueType, DiscType, ThreadType, WireType
    <3> QED BY <1>1, <3>1, DiscoveryType, GuiEventType, UserType, ScanType, TryConnectType,
               DeviceType, ConnectionType DEF Next, TypeInv
  <2> QED BY <1>1, <2>1, RangeStep DEF TypeInv
<1>2. CASE UNCHANGED vars
  BY <1>2 DEF vars, dbVars, guiVars, discVars, wireVars, TypeInv, IteratorsInRange, TypeOK,
     DbType, GuiType, QueueType, DiscType, ThreadType, WireType
<1> QED BY <1>1, <1>2

\* Whatever the threads and the user do, every variable keeps its type, and a
\* TryConnect thread at work is at an anchor that exists.
THEOREM TypeCorrect == Spec => []TypeOK
<1>1. Init => TypeInv
  <2>1. Init => IteratorsInRange
    BY DEF Init, IteratorsInRange
  <2> QED BY <2>1, InitType DEF TypeInv
<1>2. TypeInv => TypeOK
  BY SMTT(40) DEF TypeInv
<1> QED BY <1>1, <1>2, TypeStep, PTL DEF Spec

(***************************************************************************)
(* The list and the database.                                              *)
(***************************************************************************)

\* AddrInfoReply queues an event only for an anchor it has added, and events are
\* handled after they are queued: the reason why the list never shows an anchor
\* that FindAnchor does not find.
ListInv ==
  /\ RowsKnown
  /\ adding \subseteq Known
  /\ \A k \in DOMAIN queue : queue[k].type = "found" => queue[k].id \in Known

\* The vector grows by one anchor it does not hold, or stays as it is.
LEMMA AncsStep ==
  ASSUME TypeInv, Next
  PROVE  \/ UNCHANGED ancs /\ (adding' \subseteq adding \/ adding' \subseteq Known)
         \/ \E a \in Anchor \ Known : ancs' = Append(ancs, a) /\ adding' = {a}
  BY ZenonT(60) DEF Next, FindAnchorRaces, AddAnchor, Exists, QueueFound, GuiEvent, OnAnchorFound,
     OnProgressUpdate,
     OnScanIPFinished, User, ToggleRow, EditRow, EditNet, OnChkBoxClicked, OnBtnApply,
     OnBtnPopulate, ScanFinish, ScanNoHost, TryConnect, ConnectTurn, OpenSocket, ConnectToAnchor,
     MarkConnect, SendTurn, SendGet, StaleIterator, DeviceStep, Drop, Connection,
     HandleUseStaticAddr, HandleSetStaticAddr, ConnectionClose, ConnectionDelete,
     dbVars, discVars, jobRest, connRest, guiRest

\* Known anchors stay known, and an appended one becomes known.
LEMMA KnownStep ==
  ASSUME TypeInv, Next
  PROVE  Known \subseteq Known' /\ (adding \subseteq Known => adding' \subseteq Known')
<1>1. CASE UNCHANGED ancs /\ (adding' \subseteq adding \/ adding' \subseteq Known)
  BY <1>1 DEF Known
<1>2. ASSUME NEW a \in Anchor, ancs' = Append(ancs, a), adding' = {a}
      PROVE  Known \subseteq Known' /\ adding' \subseteq Known'
  <2>1. ancs \in Seq(Anchor)
    BY DEF TypeInv, TypeOK, DbType
  <2>2. /\ Len(ancs) \in Nat /\ Len(ancs') = Len(ancs) + 1 /\ ancs'[Len(ancs) + 1] = a
        /\ \A i \in 1..Len(ancs) : ancs'[i] = ancs[i]
    BY <1>2, <2>1
  <2>3. DOMAIN ancs = 1..Len(ancs) /\ DOMAIN ancs' = 1..Len(ancs')
    BY <1>2, <2>1
  <2> QED BY <1>2, <2>2, <2>3 DEF Known
<1> QED BY <1>1, <1>2, AncsStep

\* Only OnAnchorFound adds a row; no other step changes the id of one.
LEMMA RowsStep ==
  ASSUME TypeInv, Next
  PROVE  \/ OnAnchorFound
         \/ DOMAIN rows' = DOMAIN rows /\ \A i \in DOMAIN rows : rows'[i].id = rows[i].id
<1>1. rows \in Seq(Row)
  BY DEF TypeInv, TypeOK, GuiType
<1>2. CASE UNCHANGED rows
  BY <1>2
<1>3. CASE OnProgressUpdate
  BY <1>1, <1>3 DEF OnProgressUpdate, Row
<1>4. CASE OnScanIPFinished
  BY <1>1, <1>4 DEF OnScanIPFinished, Row
<1>5. ASSUME NEW i \in DOMAIN rows, ToggleRow(i)
      PROVE  DOMAIN rows' = DOMAIN rows /\ \A j \in DOMAIN rows : rows'[j].id = rows[j].id
  BY <1>1, <1>5 DEF ToggleRow, Row
<1>6. ASSUME NEW i \in DOMAIN rows, NEW t \in RowText, EditRow(i, t)
      PROVE  DOMAIN rows' = DOMAIN rows /\ \A j \in DOMAIN rows : rows'[j].id = rows[j].id
  BY <1>1, <1>6 DEF EditRow, Row
<1>7. \/ UNCHANGED rows \/ GuiEvent
      \/ \E i \in DOMAIN rows : ToggleRow(i) \/ \E t \in RowText : EditRow(i, t)
  BY ZenonT(60) DEF Next, FindAnchorRaces, AddAnchor, QueueFound, User, EditNet, OnChkBoxClicked,
     OnBtnApply,
     OnBtnPopulate, ScanFinish, ScanNoHost, TryConnect, ConnectTurn, OpenSocket, ConnectToAnchor,
     MarkConnect, SendTurn, SendGet, StaleIterator, DeviceStep, Drop, Connection,
     HandleUseStaticAddr, HandleSetStaticAddr, ConnectionClose, ConnectionDelete,
     guiVars, jobRest, connRest
<1> QED BY <1>2, <1>3, <1>4, <1>5, <1>6, <1>7 DEF GuiEvent

\* A "found" event in the queue was there before or is for the anchor just added.
LEMMA QueueStep ==
  ASSUME TypeInv, Next, NEW k \in DOMAIN queue', queue'[k].type = "found"
  PROVE  queue'[k].id \in adding \/ \E j \in DOMAIN queue : queue'[k] = queue[j]
<1>1. queue \in Seq(Event)
  BY DEF TypeInv, TypeOK, QueueType
<1>2. ASSUME UNCHANGED queue PROVE \E j \in DOMAIN queue : queue'[k] = queue[j]
  BY <1>2
<1>3. ASSUME NEW e, queue' = Append(queue, e), e.type = "found" => e.id \in adding
      PROVE  queue'[k].id \in adding \/ \E j \in DOMAIN queue : queue'[k] = queue[j]
  BY <1>1, <1>3
<1>4. ASSUME queue # <<>>, queue' = Tail(queue)
      PROVE  \E j \in DOMAIN queue : queue'[k] = queue[j]
  <2>1. k + 1 \in DOMAIN queue /\ queue'[k] = queue[k + 1]
    BY <1>1, <1>4
  <2> QED BY <2>1
<1>5. ASSUME NEW a \in Anchor, QueueFound(a)
      PROVE  queue'[k].id \in adding \/ \E j \in DOMAIN queue : queue'[k] = queue[j]
  BY <1>3, <1>5 DEF QueueFound, Found
<1>6. CASE GuiEvent
  BY <1>4, <1>6 DEF GuiEvent, OnAnchorFound, OnProgressUpdate, OnScanIPFinished, Dequeue
<1>7. ASSUME NEW s \in Scanner, ScanFinish(s)
      PROVE  queue'[k].id \in adding \/ \E j \in DOMAIN queue : queue'[k] = queue[j]
  BY <1>3, <1>7 DEF ScanFinish, ScanDone
<1>8. ASSUME NEW a, queue' = Append(queue, Progress(a))
      PROVE  queue'[k].id \in adding \/ \E j \in DOMAIN queue : queue'[k] = queue[j]
  BY <1>3, <1>8 DEF Progress
<1>9. \/ UNCHANGED queue \/ GuiEvent
      \/ \E a \in Anchor : QueueFound(a)
      \/ \E s \in Scanner : ScanFinish(s)
      \/ \E a : queue' = Append(queue, Progress(a))
  BY DEF Next, FindAnchorRaces, AddAnchor, User, ToggleRow, EditRow, EditNet, OnChkBoxClicked,
     OnBtnApply,
     OnBtnPopulate, ScanNoHost, TryConnect, ConnectTurn, OpenSocket, ConnectToAnchor,
     MarkConnect, SendTurn, SendGet, StaleIterator, DeviceStep, Drop, Connection,
     HandleUseStaticAddr, HandleSetStaticAddr, ConnectionClose, ConnectionDelete,
     guiRest, connRest
<1> QED BY <1>2, <1>5, <1>6, <1>7, <1>8, <1>9

\* What OnAnchorFound does to the list.
LEMMA FoundStep ==
  ASSUME TypeInv, OnAnchorFound
  PROVE  LET a == Head(queue).id IN
         /\ \E k \in DOMAIN queue : queue[k].type = "found" /\ queue[k].id = a
         /\ \/ UNCHANGED rows
            \/ /\ \A i \in DOMAIN rows : rows[i].id # a
               /\ DOMAIN rows' = 1..(Len(rows) + 1) /\ DOMAIN rows = 1..Len(rows)
               /\ Len(rows) \in Nat /\ rows'[Len(rows) + 1].id = a
               /\ \A i \in DOMAIN rows : rows'[i] = rows[i]
<1> DEFINE a == Head(queue).id
           r == [id |-> a, sel |-> TRUE, addr |-> OwnAddr[a], stat |-> "ANCHOR_FOUND"]
<1>1. queue \in Seq(Event) /\ rows \in Seq(Row)
  BY DEF TypeInv, TypeOK, QueueType, GuiType
<1>2. 1 \in DOMAIN queue /\ queue[1] = Head(queue) /\ Head(queue).type = "found"
  BY <1>1 DEF OnAnchorFound, Dequeue
<1>3. rows' = rows \/ (rows' = Append(rows, r) /\ RowOf(a) = {})
  BY DEF OnAnchorFound, Listed
<1>4. CASE rows' = Append(rows, r) /\ RowOf(a) = {}
  <2>1. \A i \in DOMAIN rows : rows[i].id # a
    BY <1>4 DEF RowOf
  <2>2. r.id = a
    OBVIOUS
  <2> HIDE DEF r
  <2> QED BY <1>1, <1>2, <1>4, <2>1, <2>2
<1> QED BY <1>2, <1>3, <1>4

LEMMA ListStep == TypeInv /\ ListInv /\ [Next]_vars => ListInv'
<1> SUFFICES ASSUME TypeInv, ListInv, [Next]_vars PROVE ListInv'
  OBVIOUS
<1>1. CASE Next
  <2>1. Known \subseteq Known' /\ adding' \subseteq Known'
    BY <1>1, KnownStep DEF ListInv
  <2>2. ASSUME NEW k \in DOMAIN queue', queue'[k].type = "found"
        PROVE  queue'[k].id \in Known'
    BY <1>1, <2>1, <2>2, QueueStep DEF ListInv
  <2>3. RowsKnown'
    <3>1. CASE OnAnchorFound
      BY <2>1, <3>1, FoundStep DEF ListInv, RowsKnown
    <3>2. CASE DOMAIN rows' = DOMAIN rows /\ \A i \in DOMAIN rows : rows'[i].id = rows[i].id
      BY <2>1, <3>2 DEF ListInv, RowsKnown
    <3> QED BY <1>1, <3>1, <3>2, RowsStep
  <2> QED BY <2>1, <2>2, <2>3 DEF ListInv
<1>2. CASE UNCHANGED vars
  BY <1>2 DEF vars, dbVars, guiVars, discVars, ListInv, RowsKnown, Known
<1> QED BY <1>1, <1>2

\* FindAnchor finds every anchor the list shows, so that the handlers that
\* dereference its result without a test never dereference null.
THEOREM ListedIsKnown == Spec => []RowsKnown
<1>1. Init => TypeInv /\ ListInv
  <2>1. Init => TypeInv
    BY InitType DEF Init, TypeInv, IteratorsInRange
  <2>2. Init => ListInv
    BY DEF Init, ListInv, RowsKnown, Known
  <2> QED BY <2>1, <2>2
<1>2. ListInv => RowsKnown
  BY DEF ListInv
<1> QED BY <1>1, <1>2, TypeStep, ListStep, PTL DEF Spec

LEMMA DuplicatesStep == TypeInv /\ NoDuplicates /\ [Next]_vars => NoDuplicates'
<1> SUFFICES ASSUME TypeInv, NoDuplicates, [Next]_vars PROVE NoDuplicates'
  OBVIOUS
<1>1. ASSUME Next
      PROVE  \A i, j \in DOMAIN ancs' : ancs'[i] = ancs'[j] => i = j
  <2>1. ASSUME NEW a \in Anchor \ Known, ancs' = Append(ancs, a)
        PROVE  \A i, j \in DOMAIN ancs' : ancs'[i] = ancs'[j] => i = j
    <3>1. ancs \in Seq(Anchor) /\ Len(ancs) \in Nat
      BY DEF TypeInv, TypeOK, DbType
    <3>2. DOMAIN ancs = 1..Len(ancs) /\ DOMAIN ancs' = 1..(Len(ancs) + 1)
      BY <2>1, <3>1
    <3>3. ancs'[Len(ancs) + 1] = a /\ \A i \in 1..Len(ancs) : ancs'[i] = ancs[i]
      BY <2>1, <3>1
    <3>4. \A i \in 1..Len(ancs) : ancs[i] # a
      BY <2>1, <3>2 DEF Known
    <3> QED BY <3>1, <3>2, <3>3, <3>4 DEF NoDuplicates
  <2> QED BY <1>1, <2>1, AncsStep DEF NoDuplicates
<1>2. ASSUME Next
      PROVE  \A i, j \in DOMAIN rows' : rows'[i].id = rows'[j].id => i = j
  <2>1. CASE OnAnchorFound
    BY <2>1, FoundStep DEF NoDuplicates
  <2>2. CASE DOMAIN rows' = DOMAIN rows /\ \A i \in DOMAIN rows : rows'[i].id = rows[i].id
    BY <2>2 DEF NoDuplicates
  <2> QED BY <1>2, <2>1, <2>2, RowsStep
<1>3. CASE UNCHANGED vars
  BY <1>3 DEF vars, dbVars, guiVars, NoDuplicates
<1> QED BY <1>1, <1>2, <1>3 DEF NoDuplicates

\* However often anchors are announced, and however the announcements interleave
\* with everything else, the database and the list hold each anchor once.
THEOREM HeldOnce == Spec => []NoDuplicates
<1>1. Init => TypeInv /\ NoDuplicates
  BY InitType DEF Init, TypeInv, IteratorsInRange, NoDuplicates
<1> QED BY <1>1, TypeStep, DuplicatesStep, PTL DEF Spec

(***************************************************************************)
(* Populate.                                                               *)
(***************************************************************************)

\* The addresses an ip_scan thread reports differ from one another.
ScansDistinct ==
  \A k \in DOMAIN queue : queue[k].type = "scan" =>
    \A i, j \in DOMAIN queue[k].ips : queue[k].ips[i] = queue[k].ips[j] => i = j

\* info_idx counts: two selected rows take two different addresses.
LEMMA RankInjective ==
  ASSUME rows \in Seq(Row), NEW i \in Selected, NEW j \in Selected, Rank(i) = Rank(j)
  PROVE  i = j
<1> DEFINE Upto(k) == {l \in Selected : l <= k}
<1>1. Selected \subseteq 1..Len(rows) /\ Len(rows) \in Nat
  BY DEF Selected
<1>2. IsFiniteSet(Selected)
  <2>1. IsFiniteSet(1..Len(rows))
    BY <1>1, FS_Interval
  <2> QED BY <1>1, <2>1, FS_Subset
<1>3. ASSUME NEW k \in Selected, NEW l \in Selected, k < l PROVE Rank(k) # Rank(l)
  <2>1. k \in Nat /\ l \in Nat /\ \A m \in Selected : m \in Nat
    BY <1>1
  <2>2. ASSUME NEW m \in Selected, m <= k PROVE m <= l
    BY <1>3, <2>1, <2>2
  <2>3. Upto(k) \subseteq Upto(l) /\ l \in Upto(l) /\ l \notin Upto(k)
    <3>1. Upto(k) \subseteq Upto(l)
      BY <2>2
    <3>2. l <= l /\ ~(l <= k)
      BY <1>3, <2>1
    <3> QED BY <3>1, <3>2
  <2>4. IsFiniteSet(Upto(l))
    BY <1>2, FS_Subset
  <2>5. Cardinality(Upto(l)) # Cardinality(Upto(k))
    <3>1. Upto(k) \in SUBSET Upto(l) /\ Upto(l) # Upto(k)
      BY <2>3
    <3> HIDE DEF Upto
    <3> QED BY <2>4, <3>1, FS_Subset
  <2> QED BY <2>5 DEF Rank
<1>4. i \in Nat /\ j \in Nat
  BY <1>1
<1> QED BY <1>3, <1>4

\* What is in the queue was there before, or is the event just appended.
LEMMA QueueKept ==
  ASSUME TypeInv, Next, NEW k \in DOMAIN queue'
  PROVE  \/ \E j \in DOMAIN queue : queue'[k] = queue[j]
         \/ \E a \in Anchor : QueueFound(a) /\ queue'[k] = Found(a)
         \/ \E s \in Scanner : \E ips \in Addresses(scan[s]) :
              ScanFinish(s) /\ queue'[k] = ScanDone(ips)
         \/ \E t \in Job : MarkConnect(t) /\ queue'[k] = Progress(Current(t))
         \/ \E c, d \in Conn : /\ HandleUseStaticAddr(c, d) \/ HandleSetStaticAddr(c, d)
                               /\ queue'[k] = Progress(conn[c].id)
<1>1. queue \in Seq(Event)
  BY DEF TypeInv, TypeOK, QueueType
<1>2. ASSUME UNCHANGED queue PROVE \E j \in DOMAIN queue : queue'[k] = queue[j]
  BY <1>2
<1>3. ASSUME NEW e, queue' = Append(queue, e)
      PROVE  queue'[k] = e \/ \E j \in DOMAIN queue : queue'[k] = queue[j]
  BY <1>1, <1>3
<1>4. ASSUME queue # <<>>, queue' = Tail(queue)
      PROVE  \E j \in DOMAIN queue : queue'[k] = queue[j]
  <2>1. k + 1 \in DOMAIN queue /\ queue'[k] = queue[k + 1]
    BY <1>1, <1>4
  <2> QED BY <2>1
<1>5. CASE \E a \in Anchor : QueueFound(a)
  BY <1>3, <1>5 DEF QueueFound
<1>6. CASE GuiEvent
  BY <1>4, <1>6 DEF GuiEvent, OnAnchorFound, OnProgressUpdate, OnScanIPFinished, Dequeue
<1>7. CASE \E s \in Scanner : ScanFinish(s)
  <2>1. PICK s \in Scanner : ScanFinish(s)
    BY <1>7
  <2>2. PICK ips \in Addresses(scan[s]) : queue' = Append(queue, ScanDone(ips))
    BY <2>1 DEF ScanFinish
  <2> QED BY <1>3, <2>1, <2>2
<1>8. CASE \E t \in Job : MarkConnect(t)
  BY <1>3, <1>8 DEF MarkConnect
<1>9. CASE \E c, d \in Conn : HandleUseStaticAddr(c, d)
  BY <1>3, <1>9 DEF HandleUseStaticAddr
<1>10. CASE \E c, d \in Conn : HandleSetStaticAddr(c, d)
  BY <1>3, <1>10, SMTT(40) DEF HandleSetStaticAddr
<1>11. \/ UNCHANGED queue \/ GuiEvent
       \/ \E a \in Anchor : QueueFound(a)
       \/ \E s \in Scanner : ScanFinish(s)
       \/ \E t \in Job : MarkConnect(t)
       \/ \E c, d \in Conn : HandleUseStaticAddr(c, d)
       \/ \E c, d \in Conn : HandleSetStaticAddr(c, d)
  BY DEF Next, FindAnchorRaces, AddAnchor, User, ToggleRow, EditRow, EditNet, OnChkBoxClicked,
     OnBtnApply,
     OnBtnPopulate, ScanNoHost, TryConnect, ConnectTurn, OpenSocket, ConnectToAnchor,
     SendTurn, SendGet, StaleIterator, DeviceStep, Drop, Connection,
     ConnectionClose, ConnectionDelete, guiRest, connRest
<1> QED BY <1>2, <1>5, <1>6, <1>7, <1>8, <1>9, <1>10, <1>11

LEMMA ScansStep == TypeInv /\ ScansDistinct /\ [Next]_vars => ScansDistinct'
<1> SUFFICES ASSUME TypeInv, ScansDistinct, [Next]_vars PROVE ScansDistinct'
  OBVIOUS
<1>1. CASE Next
  <2> SUFFICES ASSUME NEW k \in DOMAIN queue', queue'[k].type = "scan"
               PROVE  \A i, j \in DOMAIN queue'[k].ips :
                        queue'[k].ips[i] = queue'[k].ips[j] => i = j
    BY DEF ScansDistinct
  <2>1. CASE \E j \in DOMAIN queue : queue'[k] = queue[j]
    BY <2>1 DEF ScansDistinct
  <2>2. ASSUME NEW n, NEW ips \in Addresses(n), queue'[k] = ScanDone(ips)
        PROVE  \A i, j \in DOMAIN queue'[k].ips : queue'[k].ips[i] = queue'[k].ips[j] => i = j
    BY <2>2 DEF ScanDone, Addresses
  <2> QED BY <1>1, <2>1, <2>2, QueueKept DEF Found, Progress
<1>2. CASE UNCHANGED vars
  BY <1>2 DEF vars, ScansDistinct
<1> QED BY <1>1, <1>2

\* The addresses in the list change by the user, one at a time, or by a finished scan,
\* which hands out different ones.
LEMMA PopulateStep ==
  ASSUME TypeInv, ScansDistinct, Next,
         NEW i \in DOMAIN rows, NEW j \in DOMAIN rows, i # j,
         rows'[i].addr # rows[i].addr, rows'[j].addr # rows[j].addr
  PROVE  rows'[i].addr # rows'[j].addr
<1>1. rows \in Seq(Row) /\ queue \in Seq(Event)
  BY DEF TypeInv, TypeOK, GuiType, QueueType
<1>2. ~UNCHANGED rows
  OBVIOUS
<1>3. ~OnAnchorFound
  <2> SUFFICES ASSUME OnAnchorFound PROVE FALSE
    OBVIOUS
  <2>1. rows'[i] = rows[i]
    BY FoundStep
  <2> QED BY <2>1
<1>4. ~OnProgressUpdate
  <2> SUFFICES ASSUME OnProgressUpdate PROVE FALSE
    OBVIOUS
  <2> DEFINE t == GetStatusText(anchor[Head(queue).id].status)
  <2>1. rows'[i] = rows[i] \/ rows'[i] = [rows[i] EXCEPT !.stat = t]
    BY DEF OnProgressUpdate
  <2>2. rows[i] \in Row
    BY <1>1
  <2> HIDE DEF t
  <2> QED BY <2>1, <2>2 DEF Row
<1>5. ASSUME NEW k \in DOMAIN rows PROVE ~ToggleRow(k)
  BY <1>1 DEF ToggleRow, Row
<1>6. ASSUME NEW k \in DOMAIN rows, NEW t \in RowText PROVE ~EditRow(k, t)
  BY <1>1, SMTT(40) DEF EditRow, Row
<1>7. OnScanIPFinished
  BY <1>2, <1>3, <1>4, <1>5, <1>6 DEF Next, FindAnchorRaces, AddAnchor, QueueFound, GuiEvent, User,
     EditNet,
     OnChkBoxClicked, OnBtnApply, OnBtnPopulate, ScanFinish, ScanNoHost, TryConnect,
     ConnectTurn, OpenSocket, ConnectToAnchor, MarkConnect, SendTurn, SendGet, StaleIterator,
     DeviceStep,
     Drop, Connection, HandleUseStaticAddr, HandleSetStaticAddr, ConnectionClose,
     ConnectionDelete, guiVars, jobRest, connRest
<1> DEFINE ips == Head(queue).ips
<1>8. /\ i \in Selected /\ j \in Selected /\ Rank(i) <= Len(ips) /\ Rank(j) <= Len(ips)
      /\ rows'[i].addr = ips[Rank(i)] /\ rows'[j].addr = ips[Rank(j)]
  BY <1>1, <1>7 DEF OnScanIPFinished, Row
<1>9. ips \in Seq(Addr) /\ \A k, l \in DOMAIN ips : ips[k] = ips[l] => k = l
  <2>1. 1 \in DOMAIN queue /\ queue[1] = Head(queue) /\ Head(queue).type = "scan"
    BY <1>1, <1>7 DEF OnScanIPFinished, Dequeue
  <2>2. Head(queue).ips \in Seq(Addr)
    BY <1>1, <2>1 DEF Event
  <2> QED BY <2>1, <2>2 DEF ScansDistinct
<1>10. Rank(i) \in DOMAIN ips /\ Rank(j) \in DOMAIN ips
  BY <1>1, <1>8, <1>9, SelectedFinite
<1> QED BY <1>1, <1>8, <1>9, <1>10, RankInjective

\* Populate never gives two anchors the same address, whatever the user selects or
\* unselects while the scan runs, and however many scans run at once.
THEOREM PopulateGivesDistinct == Spec => PopulateDistinct
<1> DEFINE Distinct == \A i, j \in DOMAIN rows :
             /\ i # j
             /\ rows'[i].addr # rows[i].addr /\ rows'[j].addr # rows[j].addr
             => rows'[i].addr # rows'[j].addr
<1>1. Init => TypeInv /\ ScansDistinct
  BY InitType DEF Init, TypeInv, IteratorsInRange, ScansDistinct
<1>2. TypeInv /\ ScansDistinct /\ [Next]_vars => [Distinct]_rows
  <2>1. ASSUME TypeInv, ScansDistinct, Next PROVE Distinct
    BY <2>1, PopulateStep
  <2>2. UNCHANGED vars => UNCHANGED rows
    BY DEF vars, guiVars
  <2> QED BY <2>1, <2>2
<1>3. PopulateDistinct <=> [][Distinct]_rows
  BY DEF PopulateDistinct
<1> HIDE DEF Distinct
<1> QED BY <1>1, <1>2, <1>3, TypeStep, ScansStep, PTL DEF Spec

(***************************************************************************)
(* What a step does, seen from one thread, anchor, connection, event or    *)
(* row.  The invariance proofs below look at a step through these lemmas.  *)
(***************************************************************************)

\* A thread moves only by its own steps and by the click that starts it.
LEMMA PcStep ==
  ASSUME TypeInv, Next, NEW t \in Job
  PROVE  \/ job'[t].pc = job[t].pc
         \/ OnBtnApply(t) /\ job[t].pc = "unused" /\ job'[t].pc = "connect"
         \/ ConnectTurn(t) /\ job[t].pc = "connect" /\ job'[t].pc \in {"connecting", "send"}
         \/ OpenSocket(t) /\ job[t].pc = "connecting" /\ job'[t].pc = "opening"
         \/ ConnectToAnchor(t) /\ job[t].pc = "opening" /\ job'[t].pc = "mark"
         \/ MarkConnect(t) /\ job[t].pc = "mark" /\ job'[t].pc = "connect"
         \/ SendTurn(t) /\ job[t].pc = "send" /\ job'[t].pc \in {"wait", "done"}
         \/ SendGet(t) /\ job[t].pc = "wait" /\ job'[t].pc = "send"
<1>1. job \in [Job -> JobRecord]
  BY DEF TypeInv, TypeOK, ThreadType
<1>2. CASE UNCHANGED job
  BY <1>2
<1>3. CASE \E a \in Anchor : AddAnchor(a)
  BY <1>1, <1>3 DEF AddAnchor, JobRecord
<1>4. CASE \E u \in Job : OnBtnApply(u)
  BY <1>1, <1>4, ZenonT(60) DEF OnBtnApply, JobRecord
<1>5. ASSUME NEW u \in Job, TryConnect(u), u # t PROVE job'[t] = job[t]
  BY <1>1, <1>5 DEF TryConnect, ConnectTurn, OpenSocket, ConnectToAnchor, MarkConnect, SendTurn,
     SendGet,
     StaleIterator, Goto, NextAnchor
<1>6. CASE TryConnect(t)
  <2>1. job[t] \in JobRecord
    BY <1>1
  <2>2. CASE ConnectTurn(t)
    BY <1>1, <2>2 DEF ConnectTurn, Goto, NextAnchor, JobRecord
  <2>3. CASE ConnectToAnchor(t)
    BY <1>1, <2>3, ZenonT(60) DEF ConnectToAnchor, JobRecord
  <2>8. CASE OpenSocket(t)
    BY <1>1, <2>8, ZenonT(60) DEF OpenSocket, Goto, JobRecord
  <2>4. CASE MarkConnect(t)
    BY <1>1, <2>4 DEF MarkConnect, NextAnchor, JobRecord
  <2>5. CASE SendTurn(t)
    BY <1>1, <2>5 DEF SendTurn, Goto, NextAnchor, JobRecord
  <2>6. CASE SendGet(t)
    BY <1>1, <2>6 DEF SendGet, NextAnchor, JobRecord
  <2>7. CASE StaleIterator(t)
    BY <2>7 DEF StaleIterator
  <2> QED BY <1>6, <2>2, <2>3, <2>4, <2>5, <2>6, <2>7, <2>8 DEF TryConnect
<1>7. \/ UNCHANGED job
      \/ \E a \in Anchor : AddAnchor(a)
      \/ \E u \in Job : OnBtnApply(u)
      \/ \E u \in Job : TryConnect(u)
  BY DEF Next, FindAnchorRaces, QueueFound, GuiEvent, OnAnchorFound, OnProgressUpdate,
     OnScanIPFinished, User,
     ToggleRow, EditRow, EditNet, OnChkBoxClicked, OnBtnPopulate, ScanFinish, ScanNoHost,
     DeviceStep, Drop, Connection, HandleUseStaticAddr, HandleSetStaticAddr, ConnectionClose,
     ConnectionDelete, connRest
<1> QED BY <1>2, <1>3, <1>4, <1>5, <1>6, <1>7

\* A thread's iterator advances by the thread's own steps.
LEMMA IterStep ==
  ASSUME TypeInv, Next, NEW t \in Job
  PROVE  /\ \/ job'[t].i = job[t].i
            \/ ConnectTurn(t) /\ job'[t].pc = "connect" /\ job'[t].i = job[t].i + 1
            \/ ConnectTurn(t) /\ job'[t].pc = "send" /\ job'[t].i = 1
            \/ MarkConnect(t) /\ job'[t].i = job[t].i + 1
            \/ SendTurn(t) /\ job'[t].pc = "send" /\ job'[t].i = job[t].i + 1
            \/ SendGet(t) /\ job'[t].i = job[t].i + 1
         /\ \/ job'[t].lim = job[t].lim
            \/ job'[t].lim = -1
            \/ Iterating(t) /\ \E a \in Anchor : AddAnchor(a)
<1>1. job \in [Job -> JobRecord] /\ job[t] \in JobRecord
  BY DEF TypeInv, TypeOK, ThreadType
<1>2. CASE UNCHANGED job
  BY <1>2
<1>3. CASE \E a \in Anchor : AddAnchor(a)
  <2>1. job'[t].i = job[t].i /\ (job'[t].lim = job[t].lim \/ Iterating(t))
    BY <1>1, <1>3 DEF AddAnchor, JobRecord
  <2> QED BY <1>3, <2>1
<1>4. CASE \E u \in Job : OnBtnApply(u)
  <2>1. PICK u \in Job : job' = [job EXCEPT ![u].pc = "connect"]
    BY <1>4 DEF OnBtnApply
  <2> QED BY <1>1, <2>1 DEF JobRecord
<1>5. ASSUME NEW u \in Job, TryConnect(u), u # t PROVE job'[t] = job[t]
  BY <1>1, <1>5 DEF TryConnect, ConnectTurn, OpenSocket, ConnectToAnchor, MarkConnect, SendTurn,
     SendGet,
     StaleIterator, Goto, NextAnchor
<1>6. CASE TryConnect(t)
  <2>2. CASE ConnectTurn(t)
    BY <1>1, <2>2 DEF ConnectTurn, Goto, NextAnchor, JobRecord
  <2>3. CASE ConnectToAnchor(t)
    <3>1. PICK b \in BOOLEAN : job' = [job EXCEPT ![t].pc = "mark", ![t].ok = b]
      BY <2>3 DEF ConnectToAnchor
    <3> QED BY <1>1, <3>1 DEF JobRecord
  <2>4. CASE MarkConnect(t)
    BY <1>1, <2>4 DEF MarkConnect, NextAnchor, JobRecord
  <2>5. CASE SendTurn(t)
    <3>1. \/ Goto(t, "done") \/ NextAnchor(t, "send")
          \/ job' = [job EXCEPT ![t].pc = "wait", ![t].dhcp = useDHCP]
      BY <2>5 DEF SendTurn
    <3>2. CASE Goto(t, "done")
      BY <1>1, <3>2 DEF Goto, JobRecord
    <3>3. CASE NextAnchor(t, "send")
      BY <1>1, <2>5, <3>3 DEF NextAnchor, JobRecord
    <3>4. CASE job' = [job EXCEPT ![t].pc = "wait", ![t].dhcp = useDHCP]
      BY <1>1, <3>4 DEF JobRecord
    <3> QED BY <3>1, <3>2, <3>3, <3>4
  <2>6. CASE SendGet(t)
    BY <1>1, <2>6 DEF SendGet, NextAnchor, JobRecord
  <2>7. CASE StaleIterator(t)
    BY <2>7 DEF StaleIterator
  <2>8. CASE OpenSocket(t)
    <3>1. UNCHANGED job \/ Goto(t, "opening")
      BY <2>8 DEF OpenSocket
    <3> QED BY <1>1, <3>1 DEF Goto, JobRecord
  <2> QED BY <1>6, <2>2, <2>3, <2>4, <2>5, <2>6, <2>7, <2>8 DEF TryConnect
<1>7. \/ UNCHANGED job
      \/ \E a \in Anchor : AddAnchor(a)
      \/ \E u \in Job : OnBtnApply(u)
      \/ \E u \in Job : TryConnect(u)
  BY DEF Next, FindAnchorRaces, QueueFound, GuiEvent, OnAnchorFound, OnProgressUpdate,
     OnScanIPFinished, User,
     ToggleRow, EditRow, EditNet, OnChkBoxClicked, OnBtnPopulate, ScanFinish, ScanNoHost,
     DeviceStep, Drop, Connection, HandleUseStaticAddr, HandleSetStaticAddr, ConnectionClose,
     ConnectionDelete, connRest
<1> QED BY <1>2, <1>3, <1>4, <1>5, <1>6, <1>7

\* The vector keeps its elements where they are.
LEMMA AncsKept ==
  ASSUME TypeInv, Next
  PROVE  Len(ancs) <= Len(ancs') /\ \A i \in 1..Len(ancs) : ancs'[i] = ancs[i]
<1>1. ancs \in Seq(Anchor)
  BY DEF TypeInv, TypeOK, DbType
<1> QED BY <1>1, AncsStep

\* A click on Apply sets what was typed and selected, nothing else.
LEMMA ApplyStep ==
  ASSUME TypeInv, NEW t \in Job, OnBtnApply(t), NEW a \in Anchor
  PROVE  /\ anchor'[a].status = anchor[a].status /\ anchor'[a].sock = anchor[a].sock
         /\ IF a \in Known /\ RowOf(a) # {}
            THEN \E i \in RowOf(a) : /\ anchor'[a].ipSet = InetAddr(rows[i].addr)
                                     /\ anchor'[a].selected = rows[i].sel
            ELSE anchor'[a] = anchor[a]
<1> DEFINE k == CHOOSE j \in RowOf(a) : TRUE
<1>1. anchor[a] \in AnchorObject
  BY DEF TypeInv, TypeOK, DbType
<1>2. anchor'[a] = IF a \in Known /\ RowOf(a) # {}
                   THEN [anchor[a] EXCEPT !.ipSet = InetAddr(rows[k].addr), !.selected = rows[k].sel]
                   ELSE anchor[a]
  BY DEF OnBtnApply
<1>3. RowOf(a) # {} => k \in RowOf(a)
  OBVIOUS
<1> HIDE DEF k
<1> QED BY <1>1, <1>2, <1>3 DEF AnchorObject

\* A status is set by a thread that has tried to connect, or by a reply.
LEMMA StatusStep ==
  ASSUME TypeInv, Next, NEW a \in Anchor
  PROVE  \/ anchor'[a].status = anchor[a].status
         \/ \E t \in Job : /\ MarkConnect(t) /\ a = Current(t)
                           /\ anchor'[a].status = Marked(a, job[t].ok)
         \/ \E c, d \in Conn :
              /\ HandleUseStaticAddr(c, d) /\ a = conn[c].id
              /\ anchor'[a].status = UseStaticStatus(Head(conn[d].in).value)
         \/ \E c, d \in Conn :
              /\ HandleSetStaticAddr(c, d) /\ a = conn[c].id
              /\ IsApplied(a, Head(conn[d].in)) /\ anchor'[a].status = "SET_STATIC_IP_OK"
<1>1. anchor \in [Anchor -> AnchorObject]
  BY DEF TypeInv, TypeOK, DbType
<1>2. CASE UNCHANGED anchor
  BY <1>2
<1>3. CASE \E t \in Job : OnBtnApply(t)
  BY <1>3, ApplyStep
<1>4. CASE \E t \in Job : ConnectToAnchor(t)
  <2>1. ASSUME NEW t \in Job, ConnectToAnchor(t)
        PROVE  Current(t) \in Anchor /\ \/ UNCHANGED anchor
                                        \/ \E c : anchor' = [anchor EXCEPT ![Current(t)].sock = c]
    BY <2>1, CurrentKnown DEF ConnectToAnchor
  <2>2. ASSUME NEW b \in Anchor, NEW c, anchor' = [anchor EXCEPT ![b].sock = c]
        PROVE  anchor'[a].status = anchor[a].status
    BY <1>1, <2>2 DEF AnchorObject
  <2> QED BY <1>2, <1>4, <2>1, <2>2
<1>5. ASSUME NEW b \in Anchor, NEW v, anchor' = [anchor EXCEPT ![b].status = v]
      PROVE  anchor'[a].status = anchor[a].status \/ (a = b /\ anchor'[a].status = v)
  BY <1>1, <1>5 DEF AnchorObject
<1>6. ASSUME NEW t \in Job, MarkConnect(t) PROVE Current(t) \in Anchor
  BY <1>6, CurrentKnown DEF MarkConnect
<1>7. \A c \in Conn : conn[c].id \in Anchor
  BY DEF TypeInv, TypeOK, WireType, ConnRecord
<1>10. ASSUME NEW t \in Job, MarkConnect(t)
       PROVE  \/ anchor'[a].status = anchor[a].status
              \/ a = Current(t) /\ anchor'[a].status = Marked(a, job[t].ok)
  <2>1. anchor' = [anchor EXCEPT ![Current(t)].status = Marked(Current(t), job[t].ok)]
    BY <1>10 DEF MarkConnect
  <2> QED BY <1>5, <1>6, <1>10, <2>1
<1>11. ASSUME NEW c \in Conn, NEW d \in Conn, HandleUseStaticAddr(c, d)
       PROVE  \/ anchor'[a].status = anchor[a].status
              \/ /\ a = conn[c].id
                 /\ anchor'[a].status = UseStaticStatus(Head(conn[d].in).value)
  <2>1. anchor' = [anchor EXCEPT ![conn[c].id].status = UseStaticStatus(Head(conn[d].in).value)]
    BY <1>11 DEF HandleUseStaticAddr
  <2> QED BY <1>5, <1>7, <2>1
<1>12. ASSUME NEW c \in Conn, NEW d \in Conn, HandleSetStaticAddr(c, d)
       PROVE  \/ anchor'[a].status = anchor[a].status
              \/ /\ a = conn[c].id /\ IsApplied(a, Head(conn[d].in))
                 /\ anchor'[a].status = "SET_STATIC_IP_OK"
  <2>1. \/ anchor' = anchor
        \/ /\ IsApplied(conn[c].id, Head(conn[d].in))
           /\ anchor' = [anchor EXCEPT ![conn[c].id].status = "SET_STATIC_IP_OK"]
    BY <1>12, SMTT(40) DEF HandleSetStaticAddr
  <2> QED BY <1>5, <1>7, <2>1
<1>8. \/ UNCHANGED anchor
      \/ \E t \in Job : OnBtnApply(t)
      \/ \E t \in Job : ConnectToAnchor(t)
      \/ \E t \in Job : MarkConnect(t)
      \/ \E c, d \in Conn : HandleUseStaticAddr(c, d)
      \/ \E c, d \in Conn : HandleSetStaticAddr(c, d)
  BY DEF Next, FindAnchorRaces, AddAnchor, QueueFound, GuiEvent, OnAnchorFound, OnProgressUpdate,
     OnScanIPFinished, User, ToggleRow, EditRow, EditNet, OnChkBoxClicked, OnBtnPopulate,
     ScanFinish, ScanNoHost, TryConnect, ConnectTurn, OpenSocket, SendTurn, SendGet, StaleIterator,
     DeviceStep, Drop, Connection, ConnectionClose, ConnectionDelete, dbVars, connRest
<1> QED BY <1>2, <1>3, <1>4, <1>8, <1>10, <1>11, <1>12

\* Everything that can happen to a connection.
Made(c) == \E t \in Job :
  /\ ConnectToAnchor(t) /\ conn[c].st = "unused"
  /\ anchor' = [anchor EXCEPT ![Current(t)].sock = c]
  /\ conn' = [conn EXCEPT ![c] = [@ EXCEPT !.st = "running", !.wire = "up",
                                           !.id = Current(t), !.fd = opening[t].fd]]
SendsSet(t, m) == /\ SendTurn(t) /\ ~AtEnd(t) /\ CanDeref(t)
                  /\ anchor[Current(t)].selected /\ anchor[Current(t)].sock # NoConn
                  /\ m = SetCmd(Current(t))
SendsGet(t, m) == SendGet(t) /\ m = GetCmd(job[t].dhcp)
SentTo(c) == \E t \in Job, m \in Command :
  /\ SendsSet(t, m) \/ SendsGet(t, m)
  /\ conn[c].wire = "up" /\ conn' = [conn EXCEPT ![c].out = Append(@, m)]
Served(c) ==
  /\ DeviceStep(c)
  /\ \/ conn' = [conn EXCEPT ![c].out = Tail(@)]
     \/ \E r \in Reply : conn' = [conn EXCEPT ![c].out = Tail(@), ![c].in = Append(@, r)]
ReadFrom(d) == \E c \in Conn :
  /\ HandleUseStaticAddr(c, d) \/ HandleSetStaticAddr(c, d)
  /\ conn' = [conn EXCEPT ![d].in = Tail(@)]
Ended(d) ==
  \/ \E c \in Conn, st \in {"closed", "freed"} :
       /\ ConnectionClose(c) \/ ConnectionDelete(c)
       /\ CloseFd(c, conn[c].fd, st)
       /\ c = d \/ d \in Holders(conn[c].fd)
  \/ \E t \in Job : /\ ConnectToAnchor(t)
                    /\ conn' = Closed(opening[t].fd) /\ d \in Holders(opening[t].fd)

LEMMA ConnStep ==
  ASSUME TypeInv, Next, NEW c \in Conn
  PROVE  conn'[c] = conn[c] \/ Made(c) \/ SentTo(c) \/ Served(c) \/ Drop(c) \/ ReadFrom(c)
         \/ Ended(c)
<1>1. conn \in [Conn -> ConnRecord]
  BY DEF TypeInv, TypeOK, WireType
<1>2. CASE UNCHANGED conn
  BY <1>2
<1>3. CASE \E t \in Job : ConnectToAnchor(t)
  <2>1. PICK t \in Job : ConnectToAnchor(t)
    BY <1>3
  <2>2. CASE conn' = Closed(opening[t].fd)
    <3>1. CASE c \in Holders(opening[t].fd)
      BY <2>1, <2>2, <3>1 DEF Ended
    <3>2. CASE c \notin Holders(opening[t].fd)
      BY <2>2, <3>2 DEF Closed
    <3> QED BY <3>1, <3>2
  <2>3. ASSUME NEW d \in Conn, conn[d].st = "unused",
               anchor' = [anchor EXCEPT ![Current(t)].sock = d],
               conn' = [conn EXCEPT ![d] = [@ EXCEPT !.st = "running", !.wire = "up",
                                                     !.id = Current(t), !.fd = opening[t].fd]]
        PROVE  conn'[c] = conn[c] \/ Made(c)
    <3>1. CASE c = d
      BY <2>1, <2>3, <3>1 DEF Made
    <3>2. CASE c # d
      BY <1>1, <2>3, <3>2
    <3> QED BY <3>1, <3>2
  <2> QED BY <2>1, <2>2, <2>3 DEF ConnectToAnchor
<1>4. ASSUME NEW t \in Job, SendTurn(t) \/ SendGet(t) PROVE conn'[c] = conn[c] \/ SentTo(c)
  <2>1. ASSUME NEW b, NEW m \in Command, SendFrame(b, m), SendsSet(t, m) \/ SendsGet(t, m)
        PROVE  conn'[c] = conn[c] \/ SentTo(c)
    <3>1. CASE UNCHANGED conn
      BY <3>1
    <3>2. PICK d \in Conn : \/ conn[d].wire = "up" /\ conn' = [conn EXCEPT ![d].out = Append(@, m)]
                           \/ UNCHANGED conn
      BY <2>1 DEF SendFrame, Holders
    <3>3. CASE c = d
      BY <2>1, <3>1, <3>2, <3>3 DEF SentTo
    <3>4. CASE c # d
      BY <1>1, <3>2, <3>4
    <3> QED BY <3>3, <3>4
  <2>2. GetCmd(job[t].dhcp) \in Command
    BY DEF GetCmd, Command
  <2>3. CASE SendTurn(t)
    <3>1. ASSUME ~AtEnd(t), CanDeref(t) PROVE SetCmd(Current(t)) \in Command
      <4>1. Current(t) \in Anchor
        BY <3>1, CurrentKnown
      <4> QED BY <4>1 DEF SetCmd, Command, TypeInv, TypeOK, DbType, AnchorObject
    <3>2. \/ UNCHANGED conn
          \/ /\ SendFrame(anchor[Current(t)].sock, SetCmd(Current(t)))
             /\ SendsSet(t, SetCmd(Current(t)))
      BY <2>3 DEF SendTurn, SendsSet
    <3> QED BY <1>2, <2>1, <3>1, <3>2 DEF SendsSet
  <2>4. CASE SendGet(t)
    BY <2>1, <2>2, <2>4 DEF SendGet, SendsGet
  <2> QED BY <1>4, <2>3, <2>4
<1>5. ASSUME NEW d \in Conn, DeviceStep(d) PROVE conn'[c] = conn[c] \/ Served(c)
  <2>1. CASE c # d
    BY <1>1, <1>5, <2>1, SMTT(40) DEF DeviceStep
  <2>2. CASE c = d
    <3>1. dev[conn[c].id] \in DevRecord
      BY <1>1 DEF TypeInv, TypeOK, WireType, ConnRecord
    <3>2. /\ [cmd |-> "static", addr |-> dev[conn[c].id].addr, net |-> dev[conn[c].id].net] \in Reply
          /\ [cmd |-> "use", value |-> dev[conn[c].id].static] \in Reply
      BY <3>1 DEF DevRecord, Reply
    <3> QED BY <1>5, <2>2, <3>2 DEF DeviceStep, Served
  <2> QED BY <2>1, <2>2
<1>6. ASSUME NEW d \in Conn, Drop(d) PROVE conn'[c] = conn[c] \/ Drop(c)
  <2>1. CASE c # d
    BY <1>1, <1>6, <2>1 DEF Drop
  <2> QED BY <1>6, <2>1
<1>7. ASSUME NEW b \in Conn, NEW d \in Conn, HandleUseStaticAddr(b, d) \/ HandleSetStaticAddr(b, d)
      PROVE  conn'[c] = conn[c] \/ ReadFrom(c)
  <2>1. conn' = [conn EXCEPT ![d].in = Tail(@)]
    BY <1>7 DEF HandleUseStaticAddr, HandleSetStaticAddr, Receive
  <2>2. CASE c = d
    BY <1>7, <2>1, <2>2 DEF ReadFrom
  <2>3. CASE c # d
    BY <1>1, <2>1, <2>3
  <2> QED BY <2>2, <2>3
<1>8. ASSUME NEW b \in Conn, ConnectionClose(b) \/ ConnectionDelete(b)
      PROVE  conn'[c] = conn[c] \/ Ended(c)
  <2>1. PICK st \in {"closed", "freed"} : CloseFd(b, conn[b].fd, st)
    BY <1>8 DEF ConnectionClose, ConnectionDelete
  <2>2. CASE b = c \/ c \in Holders(conn[b].fd)
    BY <1>8, <2>1, <2>2 DEF Ended
  <2>3. CASE b # c /\ c \notin Holders(conn[b].fd)
    BY <1>1, <2>1, <2>3 DEF CloseFd, Closed
  <2> QED BY <2>2, <2>3
<1>9. \/ UNCHANGED conn
      \/ \E t \in Job : ConnectToAnchor(t)
      \/ \E t \in Job : SendTurn(t) \/ SendGet(t)
      \/ \E d \in Conn : DeviceStep(d)
      \/ \E d \in Conn : Drop(d)
      \/ \E b, d \in Conn : HandleUseStaticAddr(b, d) \/ HandleSetStaticAddr(b, d)
      \/ \E b \in Conn : ConnectionClose(b) \/ ConnectionDelete(b)
  BY DEF Next, FindAnchorRaces, AddAnchor, QueueFound, GuiEvent, OnAnchorFound, OnProgressUpdate,
     OnScanIPFinished, User, ToggleRow, EditRow, EditNet, OnChkBoxClicked, OnBtnApply,
     OnBtnPopulate, ScanFinish, ScanNoHost, TryConnect, ConnectTurn, OpenSocket, MarkConnect,
     StaleIterator, Connection, guiRest, wireVars
<1> QED BY <1>2, <1>3, <1>4, <1>5, <1>6, <1>7, <1>8, <1>9

\* The fields of a connection after the steps that end it.
LEMMA DropFields ==
  ASSUME TypeInv, NEW c \in Conn, Drop(c)
  PROVE  /\ conn'[c].st = conn[c].st /\ conn'[c].id = conn[c].id /\ conn'[c].fd = conn[c].fd
         /\ conn[c].wire = "up" /\ conn'[c].wire = "down"
         /\ conn'[c].out = <<>> /\ conn'[c].in \in {conn[c].in, <<>>}
<1>1. conn \in [Conn -> ConnRecord] /\ conn[c] \in ConnRecord
  BY DEF TypeInv, TypeOK, WireType
<1>2. PICK in \in {conn[c].in, <<>>} :
        conn' = [conn EXCEPT ![c].wire = "down", ![c].out = <<>>, ![c].in = in]
  BY DEF Drop
<1>3. conn'[c] = [conn[c] EXCEPT !.wire = "down", !.out = <<>>, !.in = in]
  BY <1>1, <1>2
<1> QED BY <1>1, <1>2, <1>3 DEF Drop, ConnRecord

LEMMA ClosedFields ==
  ASSUME TypeInv, NEW c \in Conn, Ended(c)
  PROVE  /\ conn'[c].st \in {conn[c].st, "closed", "freed"}
         /\ conn'[c].id = conn[c].id /\ conn'[c].fd = conn[c].fd
         /\ conn[c].st = "unused" => conn'[c].st = "unused" \/ conn[c].wire # "gone"
         /\ \/ /\ conn'[c].wire = conn[c].wire /\ conn'[c].out = conn[c].out
               /\ conn'[c].in = conn[c].in
            \/ conn'[c].wire = "gone" /\ conn'[c].out = <<>> /\ conn'[c].in = <<>>
<1>1. conn[c] \in ConnRecord
  BY DEF TypeInv, TypeOK, WireType
<1>2. ASSUME NEW n
      PROVE  /\ Closed(n)[c].st = conn[c].st /\ Closed(n)[c].id = conn[c].id
             /\ Closed(n)[c].fd = conn[c].fd /\ Closed(n)[c] \in ConnRecord
             /\ \/ /\ Closed(n)[c].wire = conn[c].wire /\ Closed(n)[c].out = conn[c].out
                   /\ Closed(n)[c].in = conn[c].in
                \/ /\ Closed(n)[c].wire = "gone" /\ Closed(n)[c].out = <<>>
                   /\ Closed(n)[c].in = <<>>
  <2>1. <<>> \in Seq(Command) /\ <<>> \in Seq(Reply)
    OBVIOUS
  <2>2. \/ Closed(n)[c] = conn[c]
        \/ Closed(n)[c] = [conn[c] EXCEPT !.wire = "gone", !.out = <<>>, !.in = <<>>]
    BY DEF Closed
  <2> QED BY <1>1, <2>1, <2>2 DEF ConnRecord
<1>3. CASE \E t \in Job : conn' = Closed(opening[t].fd)
  BY <1>2, <1>3
<1>4. ASSUME NEW b \in Conn, NEW st \in {"closed", "freed"},
             ConnectionClose(b) \/ ConnectionDelete(b), CloseFd(b, conn[b].fd, st)
      PROVE  /\ conn'[c].st \in {conn[c].st, "closed", "freed"}
             /\ conn'[c].id = conn[c].id /\ conn'[c].fd = conn[c].fd
             /\ conn[c].st = "unused" => conn'[c].st = "unused"
             /\ \/ /\ conn'[c].wire = conn[c].wire /\ conn'[c].out = conn[c].out
                   /\ conn'[c].in = conn[c].in
                \/ conn'[c].wire = "gone" /\ conn'[c].out = <<>> /\ conn'[c].in = <<>>
  <2> DEFINE r == Closed(conn[b].fd)
  <2>1. conn' = [r EXCEPT ![b].st = st] /\ r \in [Conn -> ConnRecord]
    BY <1>4, ClosedType DEF CloseFd, TypeInv, TypeOK
  <2>2. /\ r[c].st = conn[c].st /\ r[c].id = conn[c].id /\ r[c].fd = conn[c].fd
        /\ r[c] \in ConnRecord
        /\ \/ r[c].wire = conn[c].wire /\ r[c].out = conn[c].out /\ r[c].in = conn[c].in
           \/ r[c].wire = "gone" /\ r[c].out = <<>> /\ r[c].in = <<>>
    BY <1>2
  <2> HIDE DEF r
  <2>3. conn'[c] = IF b = c THEN [r[c] EXCEPT !.st = st] ELSE r[c]
    BY <2>1
  <2>4. /\ conn'[c].id = r[c].id /\ conn'[c].fd = r[c].fd /\ conn'[c].wire = r[c].wire
        /\ conn'[c].out = r[c].out /\ conn'[c].in = r[c].in
        /\ conn'[c].st = IF b = c THEN st ELSE r[c].st
    BY <2>2, <2>3 DEF ConnRecord
  <2>5. b = c => conn[c].st # "unused"
    BY <1>4 DEF ConnectionClose, ConnectionDelete
  <2> QED BY <2>2, <2>4, <2>5
<1> QED BY <1>3, <1>4 DEF Ended

\* What ConnectToAnchor does when it connects.
LEMMA MadeFields ==
  ASSUME TypeInv, NEW c \in Conn, Made(c)
  PROVE  \E t \in Job :
           /\ ConnectToAnchor(t) /\ job[t].pc = "opening" /\ job'[t].pc = "mark"
           /\ Current(t) \in Anchor /\ Current(t) \in Known /\ job[t].i <= Len(ancs)
           /\ conn[c].st = "unused"
           /\ conn'[c].st = "running" /\ conn'[c].wire = "up" /\ conn'[c].id = Current(t)
           /\ conn'[c].fd = opening[t].fd /\ conn'[c].out = conn[c].out /\ conn'[c].in = conn[c].in
           /\ \A d \in Conn \ {c} : conn'[d] = conn[d]
           /\ anchor'[Current(t)].sock = c
           /\ \A a \in Anchor \ {Current(t)} : anchor'[a] = anchor[a]
           /\ UNCHANGED <<ancs, dev, net, queue>>
<1>1. PICK t \in Job :
        /\ ConnectToAnchor(t) /\ conn[c].st = "unused"
        /\ anchor' = [anchor EXCEPT ![Current(t)].sock = c]
        /\ conn' = [conn EXCEPT ![c] = [@ EXCEPT !.st = "running", !.wire = "up",
                                                 !.id = Current(t), !.fd = opening[t].fd]]
  BY DEF Made
<1>2. conn \in [Conn -> ConnRecord] /\ anchor \in [Anchor -> AnchorObject]
  BY DEF TypeInv, TypeOK, WireType, DbType
<1>3. job[t].pc = "opening" /\ Current(t) \in Anchor /\ job[t].i <= Len(ancs)
  BY <1>1, CurrentKnown DEF ConnectToAnchor
<1>4. Current(t) \in Known
  <2>1. job[t].i \in DOMAIN ancs
    BY <1>3 DEF TypeInv, TypeOK, DbType, ThreadType, JobRecord
  <2> QED BY <2>1 DEF Known, Current
<1>5. job'[t].pc = "mark"
  <2>1. PICK b \in BOOLEAN : job' = [job EXCEPT ![t].pc = "mark", ![t].ok = b]
    BY <1>1 DEF ConnectToAnchor
  <2> QED BY <2>1 DEF TypeInv, TypeOK, ThreadType, JobRecord
<1>6. /\ conn'[c].st = "running" /\ conn'[c].wire = "up" /\ conn'[c].id = Current(t)
      /\ conn'[c].fd = opening[t].fd /\ conn'[c].out = conn[c].out /\ conn'[c].in = conn[c].in
      /\ \A d \in Conn \ {c} : conn'[d] = conn[d]
  BY <1>1, <1>2 DEF ConnRecord
<1>7. anchor'[Current(t)].sock = c /\ \A a \in Anchor \ {Current(t)} : anchor'[a] = anchor[a]
  BY <1>1, <1>2, <1>3 DEF AnchorObject
<1>9. UNCHANGED <<ancs, dev, net, queue>>
  BY <1>1 DEF ConnectToAnchor, jobRest
<1> QED BY <1>1, <1>3, <1>4, <1>5, <1>6, <1>7, <1>9

\* Only a new connection, or the end of one, changes what a connection is.
LEMMA IdentityStep ==
  ASSUME TypeInv, Next, NEW c \in Conn
  PROVE  \/ /\ conn'[c].st = conn[c].st /\ conn'[c].wire = conn[c].wire
            /\ conn'[c].id = conn[c].id /\ conn'[c].fd = conn[c].fd
         \/ Made(c) \/ Drop(c) \/ Ended(c)
<1>1. conn \in [Conn -> ConnRecord] /\ conn[c] \in ConnRecord
  BY DEF TypeInv, TypeOK, WireType
<1>2. CASE SentTo(c)
  BY <1>1, <1>2 DEF SentTo, ConnRecord
<1>3. CASE Served(c)
  BY <1>1, <1>3 DEF Served, ConnRecord
<1>4. CASE ReadFrom(c)
  BY <1>1, <1>4 DEF ReadFrom, ConnRecord
<1> QED BY <1>2, <1>3, <1>4, ConnStep

\* An anchor gets a sock with a new connection, and keeps it.
LEMMA SockStep ==
  ASSUME TypeInv, Next, NEW a \in Anchor
  PROVE  anchor'[a].sock = anchor[a].sock \/ \E c \in Conn : Made(c)
<1>1. anchor \in [Anchor -> AnchorObject]
  BY DEF TypeInv, TypeOK, DbType
<1>2. CASE UNCHANGED anchor
  BY <1>2
<1>3. CASE \E t \in Job : OnBtnApply(t)
  BY <1>3, ApplyStep
<1>4. CASE \E t \in Job : ConnectToAnchor(t)
  <2>1. PICK t \in Job : ConnectToAnchor(t)
    BY <1>4
  <2>2. ASSUME NEW c \in Conn, conn[c].st = "unused",
               anchor' = [anchor EXCEPT ![Current(t)].sock = c],
               conn' = [conn EXCEPT ![c] = [@ EXCEPT !.st = "running", !.wire = "up",
                                                     !.id = Current(t), !.fd = opening[t].fd]]
        PROVE  Made(c)
    BY <2>1, <2>2 DEF Made
  <2> QED BY <1>2, <2>1, <2>2 DEF ConnectToAnchor
<1>5. ASSUME NEW b \in Anchor, NEW v, anchor' = [anchor EXCEPT ![b].status = v]
      PROVE  anchor'[a].sock = anchor[a].sock
  BY <1>1, <1>5 DEF AnchorObject
<1>6. ASSUME NEW t \in Job, MarkConnect(t) PROVE anchor'[a].sock = anchor[a].sock
  BY <1>5, <1>6, CurrentKnown DEF MarkConnect
<1>7. \A c \in Conn : conn[c].id \in Anchor
  BY DEF TypeInv, TypeOK, WireType, ConnRecord
<1>8. ASSUME NEW c \in Conn, NEW d \in Conn, HandleUseStaticAddr(c, d) \/ HandleSetStaticAddr(c, d)
      PROVE  anchor'[a].sock = anchor[a].sock
  <2>1. anchor' = anchor \/ \E v : anchor' = [anchor EXCEPT ![conn[c].id].status = v]
    BY <1>8 DEF HandleUseStaticAddr, HandleSetStaticAddr
  <2> QED BY <1>2, <1>5, <1>7, <2>1
<1>9. \/ UNCHANGED anchor
      \/ \E t \in Job : OnBtnApply(t)
      \/ \E t \in Job : ConnectToAnchor(t)
      \/ \E t \in Job : MarkConnect(t)
      \/ \E c, d \in Conn : HandleUseStaticAddr(c, d) \/ HandleSetStaticAddr(c, d)
  BY ZenonT(60) DEF Next, FindAnchorRaces, AddAnchor, QueueFound, GuiEvent, OnAnchorFound,
     OnProgressUpdate,
     OnScanIPFinished, User, ToggleRow, EditRow, EditNet, OnChkBoxClicked, OnBtnPopulate,
     ScanFinish, ScanNoHost, TryConnect, ConnectTurn, OpenSocket, SendTurn, SendGet, StaleIterator,
     DeviceStep, Drop, Connection, ConnectionClose, ConnectionDelete, dbVars, connRest
<1> QED BY <1>2, <1>3, <1>4, <1>6, <1>8, <1>9

\* What was typed and selected reaches the database with a click on Apply only.
LEMMA SetStep ==
  ASSUME TypeInv, Next, \A t \in Job : ~OnBtnApply(t), NEW a \in Anchor
  PROVE  /\ net' = net
         /\ anchor'[a].ipSet = anchor[a].ipSet /\ anchor'[a].selected = anchor[a].selected
<1>1. anchor \in [Anchor -> AnchorObject]
  BY DEF TypeInv, TypeOK, DbType
<1>2. net' = net
  BY DEF Next, FindAnchorRaces, AddAnchor, QueueFound, GuiEvent, OnAnchorFound, OnProgressUpdate,
     OnScanIPFinished, User, ToggleRow, EditRow, EditNet, OnChkBoxClicked, OnBtnPopulate,
     ScanFinish, ScanNoHost, TryConnect, ConnectTurn, OpenSocket, ConnectToAnchor, MarkConnect,
     SendTurn,
     SendGet, StaleIterator, DeviceStep, Drop, Connection, HandleUseStaticAddr,
     HandleSetStaticAddr, ConnectionClose, ConnectionDelete, dbVars, connRest
<1>3. CASE UNCHANGED anchor
  BY <1>2, <1>3
<1>4. ASSUME NEW b \in Anchor, NEW v, \/ anchor' = [anchor EXCEPT ![b].status = v]
                                     \/ anchor' = [anchor EXCEPT ![b].sock = v]
      PROVE  anchor'[a].ipSet = anchor[a].ipSet /\ anchor'[a].selected = anchor[a].selected
  BY <1>1, <1>4 DEF AnchorObject
<1>5. ASSUME NEW t \in Job, ConnectToAnchor(t)
      PROVE  anchor'[a].ipSet = anchor[a].ipSet /\ anchor'[a].selected = anchor[a].selected
  <2>1. Current(t) \in Anchor
    BY <1>5, CurrentKnown DEF ConnectToAnchor
  <2>2. UNCHANGED anchor \/ \E v : anchor' = [anchor EXCEPT ![Current(t)].sock = v]
    BY <1>5 DEF ConnectToAnchor
  <2> QED BY <1>4, <2>1, <2>2
<1>6. ASSUME NEW t \in Job, MarkConnect(t)
      PROVE  anchor'[a].ipSet = anchor[a].ipSet /\ anchor'[a].selected = anchor[a].selected
  <2>1. Current(t) \in Anchor
    BY <1>6, CurrentKnown DEF MarkConnect
  <2>2. \E v : anchor' = [anchor EXCEPT ![Current(t)].status = v]
    BY <1>6 DEF MarkConnect
  <2> QED BY <1>4, <2>1, <2>2
<1>7. ASSUME NEW c \in Conn, NEW d \in Conn, HandleUseStaticAddr(c, d) \/ HandleSetStaticAddr(c, d)
      PROVE  anchor'[a].ipSet = anchor[a].ipSet /\ anchor'[a].selected = anchor[a].selected
  <2>1. conn[c].id \in Anchor
    BY DEF TypeInv, TypeOK, WireType, ConnRecord
  <2>2. UNCHANGED anchor \/ \E v : anchor' = [anchor EXCEPT ![conn[c].id].status = v]
    BY <1>7 DEF HandleUseStaticAddr, HandleSetStaticAddr
  <2> QED BY <1>4, <2>1, <2>2
<1>8. \/ UNCHANGED anchor
      \/ \E t \in Job : ConnectToAnchor(t)
      \/ \E t \in Job : MarkConnect(t)
      \/ \E c, d \in Conn : HandleUseStaticAddr(c, d) \/ HandleSetStaticAddr(c, d)
  BY DEF Next, FindAnchorRaces, AddAnchor, QueueFound, GuiEvent, OnAnchorFound, OnProgressUpdate,
     OnScanIPFinished, User, ToggleRow, EditRow, EditNet, OnChkBoxClicked, OnBtnPopulate,
     ScanFinish, ScanNoHost, TryConnect, ConnectTurn, OpenSocket, SendTurn, SendGet, StaleIterator,
     DeviceStep, Drop, Connection, ConnectionClose, ConnectionDelete, dbVars, connRest
<1> QED BY <1>2, <1>3, <1>5, <1>6, <1>7, <1>8

\* An anchor changes its configuration when it serves a command.
LEMMA DevStep ==
  ASSUME TypeInv, Next, NEW a \in Anchor
  PROVE  dev'[a] = dev[a] \/ \E c \in Conn : DeviceStep(c) /\ conn[c].id = a
<1>1. CASE UNCHANGED dev
  BY <1>1
<1>2. ASSUME NEW c \in Conn, DeviceStep(c), conn[c].id # a PROVE dev'[a] = dev[a]
  BY <1>2, SMTT(40) DEF DeviceStep, TypeInv, TypeOK, WireType
<1>3. UNCHANGED dev \/ \E c \in Conn : DeviceStep(c)
  BY DEF Next, FindAnchorRaces, AddAnchor, QueueFound, GuiEvent, OnAnchorFound, OnProgressUpdate,
     OnScanIPFinished, User, ToggleRow, EditRow, EditNet, OnChkBoxClicked, OnBtnApply,
     OnBtnPopulate, ScanFinish, ScanNoHost, TryConnect, ConnectTurn, OpenSocket, ConnectToAnchor,
     MarkConnect, SendTurn, SendGet, StaleIterator, Drop, Connection, HandleUseStaticAddr,
     HandleSetStaticAddr, ConnectionClose, ConnectionDelete, guiRest, jobRest, connRest, wireVars
<1> QED BY <1>1, <1>2, <1>3

\* A step of somebody else leaves a thread where it is.
LEMMA StillStep ==
  ASSUME TypeInv, Next, NEW t \in Job, ~TryConnect(t), ~OnBtnApply(t)
  PROVE  job'[t].pc = job[t].pc /\ job'[t].i = job[t].i
  BY PcStep, IterStep DEF TryConnect

\* A thread that stays where it is stays at its anchor.
LEMMA CurrentStep ==
  ASSUME TypeInv, Next, NEW t \in Job, job'[t].pc = job[t].pc,
         job[t].pc \in {"connecting", "opening", "mark", "wait"}
  PROVE  job'[t].i = job[t].i /\ Current(t)' = Current(t) /\ Current(t) \in Anchor
<1>1. job[t].i \in Nat \ {0} /\ Len(ancs) \in Nat /\ ancs \in Seq(Anchor)
  BY DEF TypeInv, TypeOK, ThreadType, JobRecord, DbType
<1>2. job[t].i <= Len(ancs)
  BY DEF TypeInv, IteratorsInRange
<1>3. job'[t].i = job[t].i
  <2>1. ~ConnectTurn(t) /\ ~SendTurn(t)
    BY DEF ConnectTurn, SendTurn
  <2>2. ASSUME MarkConnect(t) PROVE job'[t].pc # job[t].pc
    BY <2>2 DEF MarkConnect, NextAnchor, TypeInv, TypeOK, ThreadType, JobRecord
  <2>3. ASSUME SendGet(t) PROVE job'[t].pc # job[t].pc
    BY <2>3 DEF SendGet, NextAnchor, TypeInv, TypeOK, ThreadType, JobRecord
  <2> QED BY <2>1, <2>2, <2>3, IterStep
<1>4. ancs'[job[t].i] = ancs[job[t].i]
  BY <1>1, <1>2, AncsKept
<1> QED BY <1>1, <1>2, <1>3, <1>4 DEF Current

\* A thread keeps the descriptor it connects until it is closed.
LEMMA OpeningStep ==
  ASSUME TypeInv, Next, NEW t \in Job
  PROVE  \/ opening'[t] = opening[t]
         \/ OpenSocket(t) /\ job'[t].pc = "opening"
         \/ \E u \in Job : ConnectToAnchor(u)
         \/ \E c \in Conn : ConnectionClose(c) \/ ConnectionDelete(c)
<1>1. opening \in [Job -> [fd : Nat, held : BOOLEAN]]
  BY DEF TypeInv, TypeOK, WireType
<1>2. ASSUME NEW u \in Job, OpenSocket(u), u # t PROVE opening'[t] = opening[t]
  BY <1>1, <1>2, SMTT(40) DEF OpenSocket
<1>3. ASSUME OpenSocket(t) PROVE opening'[t] = opening[t] \/ job'[t].pc = "opening"
  BY <1>3, SMTT(40) DEF OpenSocket, Goto, TypeInv, TypeOK, ThreadType, JobRecord
<1>4. \/ UNCHANGED opening
      \/ \E u \in Job : OpenSocket(u) \/ ConnectToAnchor(u)
      \/ \E c \in Conn : ConnectionClose(c) \/ ConnectionDelete(c)
  BY DEF Next, FindAnchorRaces, AddAnchor, QueueFound, GuiEvent, OnAnchorFound, OnProgressUpdate,
     OnScanIPFinished, User, ToggleRow, EditRow, EditNet, OnChkBoxClicked, OnBtnApply,
     OnBtnPopulate, ScanFinish, ScanNoHost, TryConnect, ConnectTurn, MarkConnect, SendTurn,
     SendGet, StaleIterator, DeviceStep, Drop, Connection, HandleUseStaticAddr,
     HandleSetStaticAddr, guiRest, wireVars
<1> QED BY <1>2, <1>3, <1>4

\* An event that is queued stays queued until the GUI thread handles it.
LEMMA QueueStays ==
  ASSUME TypeInv, Next, NEW k \in DOMAIN queue
  PROVE  \/ \E j \in DOMAIN queue' : queue'[j] = queue[k]
         \/ GuiEvent /\ queue[k] = Head(queue)
<1>1. queue \in Seq(Event)
  BY DEF TypeInv, TypeOK, QueueType
<1>2. CASE UNCHANGED queue
  BY <1>2
<1>3. ASSUME NEW e, queue' = Append(queue, e) PROVE \E j \in DOMAIN queue' : queue'[j] = queue[k]
  BY <1>1, <1>3
<1>4. ASSUME queue # <<>>, queue' = Tail(queue)
      PROVE  queue[k] = Head(queue) \/ \E j \in DOMAIN queue' : queue'[j] = queue[k]
  <2>1. CASE k = 1
    BY <1>1, <2>1
  <2>2. CASE k # 1
    <3>1. k - 1 \in DOMAIN queue' /\ queue'[k - 1] = queue[k]
      BY <1>1, <1>4, <2>2
    <3> QED BY <3>1
  <2> QED BY <2>1, <2>2
<1>5. CASE GuiEvent
  BY <1>4, <1>5 DEF GuiEvent, OnAnchorFound, OnProgressUpdate, OnScanIPFinished, Dequeue
<1>6. \/ UNCHANGED queue \/ GuiEvent \/ \E e : queue' = Append(queue, e)
  BY DEF Next, FindAnchorRaces, AddAnchor, QueueFound, User, ToggleRow, EditRow, EditNet,
     OnChkBoxClicked,
     OnBtnApply, OnBtnPopulate, ScanFinish, ScanNoHost, TryConnect, ConnectTurn, OpenSocket,
     ConnectToAnchor, MarkConnect, SendTurn, SendGet, StaleIterator, DeviceStep, Drop,
     Connection, HandleUseStaticAddr, HandleSetStaticAddr, ConnectionClose, ConnectionDelete,
     guiRest, connRest
<1> QED BY <1>2, <1>3, <1>5, <1>6

\* What can happen to a row: the fields it keeps.
LEMMA RowStep ==
  ASSUME TypeInv, Next, NEW i \in DOMAIN rows
  PROVE  /\ i \in DOMAIN rows' /\ rows'[i].id = rows[i].id
         /\ \/ rows'[i].sel = rows[i].sel
            \/ ToggleRow(i)
         /\ \/ rows'[i].stat = rows[i].stat
            \/ /\ OnProgressUpdate /\ Shows(i, Head(queue).id)
               /\ rows'[i].stat = GetStatusText(anchor[Head(queue).id].status)
         /\ \/ rows'[i].addr = rows[i].addr
            \/ \E t \in RowText : EditRow(i, t) /\ rows'[i].addr = t
            \/ OnScanIPFinished /\ rows'[i].addr \in Addr
<1>1. rows \in Seq(Row) /\ rows[i] \in Row
  BY DEF TypeInv, TypeOK, GuiType
<1>2. CASE UNCHANGED rows
  BY <1>2
<1>3. CASE OnAnchorFound
  BY <1>3, FoundStep
<1>4. CASE OnProgressUpdate
  <2> DEFINE t == GetStatusText(anchor[Head(queue).id].status)
  <2>1. /\ i \in DOMAIN rows'
        /\ \/ rows'[i] = rows[i]
           \/ Shows(i, Head(queue).id) /\ rows'[i] = [rows[i] EXCEPT !.stat = t]
    BY <1>4 DEF OnProgressUpdate
  <2> HIDE DEF t
  <2>2. /\ rows'[i].id = rows[i].id /\ rows'[i].sel = rows[i].sel
        /\ rows'[i].addr = rows[i].addr
        /\ rows'[i].stat = rows[i].stat \/ (Shows(i, Head(queue).id) /\ rows'[i].stat = t)
    BY <1>1, <2>1 DEF Row
  <2> QED BY <1>4, <2>1, <2>2 DEF t
<1>5. CASE OnScanIPFinished
  <2> DEFINE ips == Head(queue).ips
  <2>1. ips \in Seq(Addr)
    BY <1>5, DequeueType DEF OnScanIPFinished, TypeInv, TypeOK
  <2>2. /\ i \in DOMAIN rows'
        /\ \/ rows'[i] = rows[i]
           \/ /\ i \in Selected /\ Rank(i) <= Len(ips)
              /\ rows'[i] = [rows[i] EXCEPT !.addr = ips[Rank(i)]]
    BY <1>5 DEF OnScanIPFinished
  <2>3. i \in Selected /\ Rank(i) <= Len(ips) => ips[Rank(i)] \in Addr
    BY <1>1, <2>1, SelectedFinite
  <2> HIDE DEF ips
  <2> QED BY <1>1, <1>5, <2>2, <2>3 DEF Row
<1>6. ASSUME NEW k \in DOMAIN rows, ToggleRow(k)
      PROVE  /\ i \in DOMAIN rows' /\ rows'[i].id = rows[i].id /\ rows'[i].stat = rows[i].stat
             /\ rows'[i].addr = rows[i].addr /\ (rows'[i].sel = rows[i].sel \/ k = i)
  BY <1>1, <1>6 DEF ToggleRow, Row
<1>7. ASSUME NEW k \in DOMAIN rows, NEW t \in RowText, EditRow(k, t)
      PROVE  /\ i \in DOMAIN rows' /\ rows'[i].id = rows[i].id /\ rows'[i].stat = rows[i].stat
             /\ rows'[i].sel = rows[i].sel
             /\ rows'[i].addr = rows[i].addr \/ (k = i /\ rows'[i].addr = t)
  BY <1>1, <1>7, SMTT(40) DEF EditRow, Row
<1>8. \/ UNCHANGED rows \/ GuiEvent
      \/ \E k \in DOMAIN rows : ToggleRow(k) \/ \E t \in RowText : EditRow(k, t)
  BY DEF Next, FindAnchorRaces, AddAnchor, QueueFound, User, EditNet, OnChkBoxClicked, OnBtnApply,
     OnBtnPopulate, ScanFinish, ScanNoHost, TryConnect, ConnectTurn, OpenSocket, ConnectToAnchor,
     MarkConnect, SendTurn, SendGet, StaleIterator, DeviceStep, Drop, Connection,
     HandleUseStaticAddr, HandleSetStaticAddr, ConnectionClose, ConnectionDelete,
     guiVars, jobRest, connRest
<1> QED BY <1>2, <1>3, <1>4, <1>5, <1>6, <1>7, <1>8 DEF GuiEvent

(***************************************************************************)
(* Before Apply is clicked, and before the first command is sent.          *)
(***************************************************************************)
BeforeApply == \A t \in Job : job[t].pc = "unused"
BeforeSending ==
  \A t \in Job : job[t].pc \in {"unused", "connect", "connecting", "opening", "mark"}

\* What a connection carries by the state its descriptor is in.
WireInv ==
  \A c \in Conn : /\ conn[c].st = "unused" => conn[c].wire = "gone"
                  /\ conn[c].wire = "gone" => conn[c].in = <<>>
                  /\ conn[c].wire # "up" => conn[c].out = <<>>

\* Until a thread runs no anchor has a connection or a status.
IdleInv ==
  BeforeApply =>
    /\ \A a \in Anchor : anchor[a].status = "NOT_CONNECTED"
    /\ \A c \in Conn : conn[c].st = "unused"
    /\ \A k \in DOMAIN queue : queue[k].type # "progress"

\* Until a thread sends nothing is under way and no work on an anchor has ended.
SilenceInv ==
  BeforeSending =>
    /\ \A a \in Anchor : anchor[a].status \notin Final
    /\ \A c \in Conn : conn[c].out = <<>> /\ conn[c].in = <<>>

StartInv == WireInv /\ IdleInv /\ SilenceInv

\* A running connection whose anchor has no status yet was made by a thread that
\* is about to set one.
MarkPending ==
  \A c \in Conn :
    conn[c].st = "running" /\ anchor[conn[c].id].status = "NOT_CONNECTED" =>
      \E t \in Job : job[t].pc = "mark" /\ job[t].i <= Len(ancs) /\ Current(t) = conn[c].id

\* Apply is clicked at most once.
OneApply == \A s, t \in Job : s = t

\* Once Apply was clicked no anchor is found any more.
AllFound == ~BeforeApply => AllListed

LEMMA InitStart == Init => StartInv
  BY DEF Init, StartInv, WireInv, IdleInv, SilenceInv, NewAnchor, Final

\* Threads never go back to before the click, or to before the first command.
LEMMA StagesStep ==
  ASSUME TypeInv, Next
  PROVE  (BeforeApply' => BeforeApply) /\ (BeforeSending' => BeforeSending)
<1>1. ASSUME BeforeApply' PROVE BeforeApply
  BY <1>1, PcStep DEF BeforeApply
<1>2. ASSUME BeforeSending' PROVE BeforeSending
  BY <1>2, PcStep DEF BeforeSending
<1> QED BY <1>1, <1>2

LEMMA WireStep == ASSUME TypeInv, WireInv, Next PROVE WireInv'
<1> SUFFICES ASSUME NEW c \in Conn
             PROVE  /\ conn'[c].st = "unused" => conn'[c].wire = "gone"
                    /\ conn'[c].wire = "gone" => conn'[c].in = <<>>
                    /\ conn'[c].wire # "up" => conn'[c].out = <<>>
  BY DEF WireInv
<1>1. conn \in [Conn -> ConnRecord] /\ conn[c] \in ConnRecord
  BY DEF TypeInv, TypeOK, WireType
<1>2. CASE conn'[c] = conn[c]
  BY <1>2 DEF WireInv
<1>3. CASE Made(c)
  BY <1>1, <1>3 DEF Made, ConnRecord
<1>4. CASE SentTo(c)
  BY <1>1, <1>4, SMTT(40) DEF SentTo, ConnRecord, WireInv
<1>5. CASE Served(c)
  BY <1>1, <1>5 DEF Served, DeviceStep, ConnRecord, WireInv
<1>6. CASE Drop(c)
  BY <1>6, DropFields DEF WireInv
<1>7. CASE ReadFrom(c)
  BY <1>1, <1>7 DEF ReadFrom, HandleUseStaticAddr, HandleSetStaticAddr, Receive, Holders,
     HoldsFd, ConnRecord, WireInv
<1>8. CASE Ended(c)
  BY <1>8, ClosedFields DEF WireInv
<1> QED BY <1>2, <1>3, <1>4, <1>5, <1>6, <1>7, <1>8, ConnStep

LEMMA IdleStep == ASSUME TypeInv, WireInv, IdleInv, Next PROVE IdleInv'
<1> SUFFICES ASSUME BeforeApply'
             PROVE  /\ \A a \in Anchor : anchor'[a].status = "NOT_CONNECTED"
                    /\ \A c \in Conn : conn'[c].st = "unused"
                    /\ \A k \in DOMAIN queue' : queue'[k].type # "progress"
  BY DEF IdleInv
<1>1. BeforeApply
  BY StagesStep
<1>2. \A t \in Job : job[t].pc = "unused" /\ job'[t].pc = "unused"
  BY <1>1 DEF BeforeApply
<1>3. \A c \in Conn : conn[c].st = "unused" /\ conn[c].wire = "gone"
  BY <1>1 DEF IdleInv, WireInv
<1>4. \A t \in Job : ~ConnectToAnchor(t) /\ ~MarkConnect(t) /\ ~SendTurn(t) /\ ~SendGet(t)
  BY <1>2 DEF ConnectToAnchor, MarkConnect, SendTurn, SendGet
<1>5. \A c, d \in Conn : ~HandleUseStaticAddr(c, d) /\ ~HandleSetStaticAddr(c, d)
  BY <1>3 DEF HandleUseStaticAddr, HandleSetStaticAddr, Receive
<1>6. ASSUME NEW a \in Anchor PROVE anchor'[a].status = "NOT_CONNECTED"
  BY <1>1, <1>4, <1>5, StatusStep, SMTT(40) DEF IdleInv
<1>7. ASSUME NEW c \in Conn PROVE conn'[c].st = "unused"
  BY <1>3, <1>4, <1>5, ConnStep DEF Made, SentTo, SendsSet, SendsGet, Served, DeviceStep, Drop,
     ReadFrom, Ended, ConnectionClose, ConnectionDelete
<1>8. ASSUME NEW k \in DOMAIN queue' PROVE queue'[k].type # "progress"
  BY <1>1, <1>4, <1>5, QueueKept DEF IdleInv, Found, ScanDone
<1> QED BY <1>6, <1>7, <1>8

LEMMA SilenceStep == ASSUME TypeInv, WireInv, SilenceInv, Next PROVE SilenceInv'
<1> SUFFICES ASSUME BeforeSending'
             PROVE  /\ \A a \in Anchor : anchor'[a].status \notin Final
                    /\ \A c \in Conn : conn'[c].out = <<>> /\ conn'[c].in = <<>>
  BY DEF SilenceInv
<1>1. BeforeSending
  BY StagesStep
<1>2. \A c \in Conn : conn[c].out = <<>> /\ conn[c].in = <<>>
  BY <1>1 DEF SilenceInv
<1>3. \A t \in Job : ~SendTurn(t) /\ ~SendGet(t)
  BY <1>1 DEF BeforeSending, SendTurn, SendGet
<1>4. \A c, d \in Conn : ~HandleUseStaticAddr(c, d) /\ ~HandleSetStaticAddr(c, d)
  BY <1>2 DEF HandleUseStaticAddr, HandleSetStaticAddr, Receive
<1>5. ASSUME NEW a \in Anchor PROVE anchor'[a].status \notin Final
  <2>1. \A b : Marked(b, TRUE) \notin Final /\ Marked(b, FALSE) \notin Final
    BY DEF Marked, Final
  <2>2. \A b, ok : Marked(b, ok) \notin Final
    BY DEF Marked, Final
  <2> QED BY <1>1, <1>4, <2>2, StatusStep DEF SilenceInv
<1>6. ASSUME NEW c \in Conn PROVE conn'[c].out = <<>> /\ conn'[c].in = <<>>
  <2>1. conn \in [Conn -> ConnRecord] /\ conn[c] \in ConnRecord
    BY DEF TypeInv, TypeOK, WireType
  <2>2. CASE conn'[c] = conn[c]
    BY <1>2, <2>2
  <2>3. CASE Made(c)
    BY <1>2, <2>1, <2>3, SMTT(40) DEF Made, ConnRecord
  <2>4. CASE Served(c)
    BY <1>2, <2>4 DEF Served, DeviceStep
  <2>5. CASE Drop(c)
    BY <1>2, <2>5, DropFields
  <2>6. CASE Ended(c)
    BY <1>2, <2>6, ClosedFields
  <2> QED BY <1>3, <1>4, <2>2, <2>3, <2>4, <2>5, <2>6, ConnStep DEF SentTo, SendsSet, SendsGet, ReadFrom
<1> QED BY <1>5, <1>6

LEMMA StartStep == TypeInv /\ StartInv /\ [Next]_vars => StartInv'
<1> SUFFICES ASSUME TypeInv, StartInv, [Next]_vars PROVE StartInv'
  OBVIOUS
<1>1. CASE Next
  BY <1>1, WireStep, IdleStep, SilenceStep DEF StartInv
<1>2. CASE UNCHANGED vars
  BY <1>2 DEF vars, dbVars, wireVars, StartInv, WireInv, IdleInv, SilenceInv, BeforeApply,
     BeforeSending
<1> QED BY <1>1, <1>2

LEMMA MarkPendingStep == ASSUME TypeInv, MarkPending, Next PROVE MarkPending'
<1> SUFFICES ASSUME NEW c \in Conn, conn'[c].st = "running",
                    anchor'[conn'[c].id].status = "NOT_CONNECTED"
             PROVE  \E t \in Job : /\ job'[t].pc = "mark" /\ job'[t].i <= Len(ancs')
                                   /\ ancs'[job'[t].i] = conn'[c].id
  BY DEF MarkPending, Current
<1>1. conn \in [Conn -> ConnRecord] /\ conn[c] \in ConnRecord /\ conn[c].id \in Anchor
  BY DEF TypeInv, TypeOK, WireType, ConnRecord
<1>2. \A t \in Job : job[t].i \in Nat \ {0}
  BY DEF TypeInv, TypeOK, ThreadType, JobRecord
<1>3. Len(ancs) \in Nat /\ Len(ancs') \in Nat
  <2>1. TypeInv'
    BY TypeStep
  <2> QED BY <2>1 DEF TypeInv, TypeOK, DbType
<1>4. ASSUME conn'[c].id = conn[c].id, conn[c].st = "running"
      PROVE  \E t \in Job : /\ job'[t].pc = "mark" /\ job'[t].i <= Len(ancs')
                            /\ ancs'[job'[t].i] = conn'[c].id
  <2>1. anchor[conn[c].id].status = "NOT_CONNECTED" /\ anchor'[conn[c].id].status = "NOT_CONNECTED"
    BY <1>1, <1>4, StatusStep DEF Marked, UseStaticStatus
  <2>2. PICK t \in Job : job[t].pc = "mark" /\ job[t].i <= Len(ancs) /\ Current(t) = conn[c].id
    BY <1>4, <2>1 DEF MarkPending
  <2>3. ~MarkConnect(t)
    <3> SUFFICES ASSUME MarkConnect(t) PROVE FALSE
      OBVIOUS
    <3>1. anchor' = [anchor EXCEPT ![Current(t)].status = Marked(Current(t), job[t].ok)]
      BY DEF MarkConnect
    <3>2. anchor'[Current(t)].status = Marked(Current(t), job[t].ok)
      BY <1>1, <2>2, <3>1, SMTT(40) DEF TypeInv, TypeOK, DbType, AnchorObject
    <3> QED BY <2>1, <2>2, <3>2 DEF Marked
  <2>4. job'[t].pc = "mark" /\ job'[t].i = job[t].i
    BY <2>2, <2>3, PcStep, IterStep DEF ConnectTurn, SendTurn, SendGet
  <2>5. ancs'[job[t].i] = ancs[job[t].i] /\ job[t].i <= Len(ancs')
    BY <1>2, <1>3, <2>2, AncsKept
  <2> QED BY <1>4, <2>2, <2>4, <2>5 DEF Current
<1>5. CASE Made(c)
  <2>1. PICK t \in Job :
          /\ ConnectToAnchor(t)
          /\ conn' = [conn EXCEPT ![c] = [@ EXCEPT !.st = "running", !.wire = "up",
                                                   !.id = Current(t), !.fd = opening[t].fd]]
    BY <1>5 DEF Made
  <2>2. conn'[c].id = Current(t)
    BY <1>1, <2>1 DEF ConnRecord
  <2>3. job[t].i <= Len(ancs)
    BY <2>1, CurrentKnown DEF ConnectToAnchor
  <2>4. ancs' = ancs /\ job'[t].pc = "mark" /\ job'[t].i = job[t].i
    <3>1. ancs' = ancs
      BY <2>1 DEF ConnectToAnchor
    <3>2. job[t].pc = "opening"
      BY <2>1 DEF ConnectToAnchor
    <3>3. PICK b \in BOOLEAN : job' = [job EXCEPT ![t].pc = "mark", ![t].ok = b]
      BY <2>1 DEF ConnectToAnchor
    <3>4. job'[t].pc = "mark" /\ job'[t].i = job[t].i
      BY <3>3 DEF TypeInv, TypeOK, ThreadType, JobRecord
    <3> QED BY <3>1, <3>4
  <2> QED BY <2>2, <2>3, <2>4 DEF Current
<1>6. CASE conn'[c] = conn[c]
  BY <1>4, <1>6
<1>7. CASE SentTo(c) \/ Served(c) \/ Drop(c) \/ ReadFrom(c)
  <2>1. conn'[c].st = conn[c].st /\ conn'[c].id = conn[c].id
    BY <1>1, <1>7 DEF SentTo, Served, Drop, ReadFrom, ConnRecord
  <2> QED BY <1>4, <2>1
<1>8. CASE Ended(c)
  BY <1>4, <1>8, ClosedFields
<1> QED BY <1>5, <1>6, <1>7, <1>8, ConnStep

LEMMA ProgressStep ==
  ASSUME OneApply, TypeInv, StartInv, MarkPending, ProgressHasStatus, Next
  PROVE  ProgressHasStatus'
<1> SUFFICES ASSUME NEW k \in DOMAIN queue', queue'[k].type = "progress"
             PROVE  anchor'[queue'[k].id].status # "NOT_CONNECTED"
  BY DEF ProgressHasStatus
<1>1. anchor \in [Anchor -> AnchorObject] /\ \A c \in Conn : conn[c].id \in Anchor
  BY DEF TypeInv, TypeOK, DbType, WireType, ConnRecord
<1>2. ASSUME NEW a \in Anchor, anchor[a].status # "NOT_CONNECTED"
      PROVE  anchor'[a].status # "NOT_CONNECTED"
  BY <1>2, StatusStep DEF Marked, UseStaticStatus
<1>3. ASSUME NEW j \in DOMAIN queue, queue'[k] = queue[j]
      PROVE  anchor'[queue'[k].id].status # "NOT_CONNECTED"
  <2>1. queue[j].id \in Anchor
    BY <1>3 DEF TypeInv, TypeOK, QueueType, Event
  <2> QED BY <1>2, <1>3, <2>1 DEF ProgressHasStatus
<1>4. ASSUME NEW t \in Job, MarkConnect(t), queue'[k] = Progress(Current(t))
      PROVE  anchor'[queue'[k].id].status # "NOT_CONNECTED"
  <2>1. Current(t) \in Anchor
    BY <1>4, CurrentKnown DEF MarkConnect
  <2>2. anchor'[Current(t)].status = Marked(Current(t), job[t].ok)
    BY <1>1, <1>4, <2>1 DEF MarkConnect, AnchorObject
  <2> QED BY <1>4, <2>2 DEF Marked, Progress
<1>5. ASSUME NEW c \in Conn, NEW d \in Conn, HandleUseStaticAddr(c, d) \/ HandleSetStaticAddr(c, d),
             queue'[k] = Progress(conn[c].id)
      PROVE  anchor'[queue'[k].id].status # "NOT_CONNECTED"
  <2>1. conn[c].st = "running" /\ conn[d].in # <<>>
    BY <1>5 DEF HandleUseStaticAddr, HandleSetStaticAddr, Receive
  <2>2. anchor[conn[c].id].status # "NOT_CONNECTED"
    <3> SUFFICES ASSUME anchor[conn[c].id].status = "NOT_CONNECTED" PROVE FALSE
      OBVIOUS
    <3>1. PICK t \in Job : job[t].pc = "mark"
      BY <2>1 DEF MarkPending
    <3>2. BeforeSending
      BY <3>1 DEF OneApply, BeforeSending
    <3> QED BY <2>1, <3>2 DEF StartInv, SilenceInv
  <2> QED BY <1>1, <1>2, <1>5, <2>2 DEF Progress
<1> QED BY <1>3, <1>4, <1>5, QueueKept DEF Found, ScanDone

\* With one click on Apply, no progress event is ever handled while its anchor is still
\* NOT_CONNECTED, which GetStatusText would render as "Connected".
THEOREM ProgressAfterStatus == OneApply => (Spec => []ProgressHasStatus)
<1> SUFFICES ASSUME OneApply PROVE Spec => []ProgressHasStatus
  OBVIOUS
<1> DEFINE I == TypeInv /\ StartInv /\ MarkPending /\ ProgressHasStatus
<1>1. Init => I
  <2>1. Init => TypeInv
    BY InitType DEF Init, TypeInv, IteratorsInRange
  <2>2. Init => MarkPending /\ ProgressHasStatus
    BY DEF Init, MarkPending, ProgressHasStatus
  <2> QED BY <2>1, <2>2, InitStart
<1>2. I /\ [Next]_vars => I'
  <2> SUFFICES ASSUME I, [Next]_vars PROVE I'
    OBVIOUS
  <2>1. CASE Next
    BY <2>1, TypeStep, StartStep, MarkPendingStep, ProgressStep
  <2>2. CASE UNCHANGED vars
    BY <2>2, TypeStep, StartStep DEF vars, dbVars, wireVars, MarkPending, ProgressHasStatus, Current
  <2> QED BY <2>1, <2>2
<1>3. I => ProgressHasStatus
  OBVIOUS
<1> HIDE DEF I
<1> QED BY <1>1, <1>2, <1>3, PTL DEF Spec

LEMMA AllFoundStep ==
  ASSUME "late" \notin Env, TypeInv, AllFound, Next PROVE AllFound'
<1> SUFFICES ASSUME ~BeforeApply' PROVE AllListed'
  BY DEF AllFound
<1>1. CASE BeforeApply
  <2>1. PICK t \in Job : job[t].pc = "unused" /\ job'[t].pc # "unused"
    BY <1>1 DEF BeforeApply
  <2>2. OnBtnApply(t)
    BY <2>1, PcStep
  <2> QED BY <2>2 DEF OnBtnApply, AllListed, guiRest, discVars
<1>2. CASE ~BeforeApply
  <2>1. AllListed
    BY <1>2 DEF AllFound
  <2>2. \A a \in Anchor : ~AddAnchor(a) /\ ~QueueFound(a)
    BY <1>2, <2>1, SMTT(40) DEF AddAnchor, BeforeApply, QueueFound, AllListed
  <2>3. UNCHANGED adding
    BY <2>2 DEF Next, FindAnchorRaces, GuiEvent, OnAnchorFound, OnProgressUpdate, OnScanIPFinished,
       User,
       ToggleRow, EditRow, EditNet, OnChkBoxClicked, OnBtnApply, OnBtnPopulate, ScanFinish,
       ScanNoHost, TryConnect, ConnectTurn, OpenSocket, ConnectToAnchor, MarkConnect, SendTurn,
       SendGet,
       StaleIterator, DeviceStep, Drop, Connection, HandleUseStaticAddr, HandleSetStaticAddr,
       ConnectionClose, ConnectionDelete, discVars, jobRest, connRest, guiRest
  <2>4. ASSUME NEW k \in DOMAIN queue' PROVE queue'[k].type # "found"
    BY <2>1, <2>2, QueueKept DEF AllListed, ScanDone, Progress
  <2> QED BY <2>1, <2>3, <2>4 DEF AllListed
<1> QED BY <1>1, <1>2

\* Whoever changes a status queues the event for it.
LEMMA StatusQueued ==
  ASSUME TypeInv, Next, NEW a \in Anchor, anchor'[a].status # anchor[a].status
  PROVE  \E k \in DOMAIN queue' : queue'[k] = Progress(a)
<1>1. queue \in Seq(Event)
  BY DEF TypeInv, TypeOK, QueueType
<1>2. queue' = Append(queue, Progress(a))
  <2>1. CASE \E t \in Job : MarkConnect(t) /\ a = Current(t)
    BY <2>1 DEF MarkConnect
  <2>2. CASE \E c, d \in Conn : HandleUseStaticAddr(c, d) /\ a = conn[c].id
    BY <2>2 DEF HandleUseStaticAddr
  <2>3. CASE \E c, d \in Conn : HandleSetStaticAddr(c, d) /\ a = conn[c].id
    BY <2>3 DEF HandleSetStaticAddr
  <2> QED BY <2>1, <2>2, <2>3, StatusStep
<1>3. Len(queue) + 1 \in DOMAIN queue' /\ queue'[Len(queue) + 1] = Progress(a)
  BY <1>1, <1>2
<1> QED BY <1>3

LEMMA ShowsStep ==
  ASSUME "late" \notin Env, TypeInv, NoDuplicates, StartInv, AllFound, ListShowsStatus, Next
  PROVE  ListShowsStatus'
<1> SUFFICES ASSUME NEW i \in DOMAIN rows'
             PROVE  LET a == rows'[i].id IN
                    \/ rows'[i].stat = GetStatusText(anchor'[a].status)
                    \/ rows'[i].stat = "ANCHOR_FOUND" /\ anchor'[a].status = "NOT_CONNECTED"
                    \/ \E k \in DOMAIN queue' : queue'[k] = Progress(a)
  BY DEF ListShowsStatus, GetStatusText, Progress
<1>1. rows \in Seq(Row) /\ queue \in Seq(Event)
  BY DEF TypeInv, TypeOK, GuiType, QueueType
<1>2. CASE i \in DOMAIN rows
  <2> DEFINE a == rows[i].id
  <2>1. a \in Anchor /\ rows'[i].id = a
    <3>1. rows[i] \in Row
      BY <1>1, <1>2
    <3>2. rows'[i].id = rows[i].id
      BY <1>2, RowStep
    <3> QED BY <3>1, <3>2 DEF Row
  <2>2. CASE anchor'[a].status # anchor[a].status
    BY <2>1, <2>2, StatusQueued
  <2>3. CASE anchor'[a].status = anchor[a].status
    <3>1. CASE OnProgressUpdate /\ Shows(i, Head(queue).id)
      <4>1. rows'[i].stat = GetStatusText(anchor[a].status)
        <5> DEFINE b == Head(queue).id
        <5>1. rows'[i] = [rows[i] EXCEPT !.stat = GetStatusText(anchor[b].status)]
          BY <1>2, <3>1 DEF OnProgressUpdate
        <5>2. a = b
          BY <3>1 DEF Shows
        <5> QED BY <1>1, <1>2, <5>1, <5>2 DEF Row
      <4> QED BY <2>1, <2>3, <4>1
    <3>2. CASE ~(OnProgressUpdate /\ Shows(i, Head(queue).id))
      <4>1. rows'[i].stat = rows[i].stat
        BY <1>2, <3>2, RowStep
      <4>2. ASSUME NEW k \in DOMAIN queue, queue[k] = Progress(a)
            PROVE  \E j \in DOMAIN queue' : queue'[j] = Progress(a)
        <5>1. CASE \E j \in DOMAIN queue' : queue'[j] = queue[k]
          BY <4>2, <5>1
        <5>2. CASE GuiEvent /\ queue[k] = Head(queue)
          <6>1. Head(queue).type = "progress" /\ Head(queue).id = a
            BY <4>2, <5>2 DEF Progress
          <6>2. OnProgressUpdate
            BY <5>2, <6>1 DEF GuiEvent, OnAnchorFound, OnScanIPFinished, Dequeue
          <6>3. Shows(i, a)
            BY <1>1, <1>2 DEF Shows, RowOf, NoDuplicates
          <6> QED BY <3>2, <6>1, <6>2, <6>3
        <5> QED BY <5>1, <5>2, QueueStays
      <4> QED BY <1>2, <2>1, <2>3, <4>1, <4>2 DEF ListShowsStatus
    <3> QED BY <3>1, <3>2
  <2> QED BY <2>2, <2>3
<1>3. CASE i \notin DOMAIN rows
  <2>1. OnAnchorFound
    BY <1>3, RowsStep
  <2> DEFINE a == Head(queue).id
             r == [id |-> a, sel |-> TRUE, addr |-> OwnAddr[a], stat |-> "ANCHOR_FOUND"]
  <2>2. rows'[i] = r
    <3>1. rows' = Append(rows, r)
      BY <1>3, <2>1 DEF OnAnchorFound
    <3> HIDE DEF r
    <3>2. i = Len(rows) + 1
      BY <1>1, <1>3, <3>1
    <3> QED BY <1>1, <3>1, <3>2
  <2>3. BeforeApply
    <3>1. 1 \in DOMAIN queue /\ queue[1].type = "found"
      BY <1>1, <2>1 DEF OnAnchorFound, Dequeue
    <3> QED BY <3>1 DEF AllFound, AllListed
  <2>4. a \in Anchor
    BY <2>1, DequeueType DEF OnAnchorFound, TypeInv, TypeOK
  <2>5. anchor'[a].status = "NOT_CONNECTED"
    BY <2>1, <2>3, <2>4 DEF OnAnchorFound, dbVars, StartInv, IdleInv
  <2> QED BY <2>2, <2>5
<1> QED BY <1>2, <1>3

\* Once anchors have stopped being found, no status is lost on the way to the list,
\* however many clicks on Apply work at once: a row shows its anchor's status, or the
\* event that will make it do so is still queued.
THEOREM ListedStatus == "late" \notin Env => (Spec => []ListShowsStatus)
<1> SUFFICES ASSUME "late" \notin Env PROVE Spec => []ListShowsStatus
  OBVIOUS
<1> DEFINE I == TypeInv /\ NoDuplicates /\ StartInv /\ AllFound /\ ListShowsStatus
<1>1. Init => I
  <2>1. Init => TypeInv
    BY InitType DEF Init, TypeInv, IteratorsInRange
  <2>2. Init => NoDuplicates /\ AllFound /\ ListShowsStatus
    BY DEF Init, NoDuplicates, AllFound, BeforeApply, ListShowsStatus
  <2> QED BY <2>1, <2>2, InitStart
<1>2. I /\ [Next]_vars => I'
  <2> SUFFICES ASSUME I, [Next]_vars PROVE I'
    OBVIOUS
  <2>1. CASE Next
    BY <2>1, TypeStep, DuplicatesStep, StartStep, AllFoundStep, ShowsStep
  <2>2. CASE UNCHANGED vars
    BY <2>2, TypeStep, DuplicatesStep, StartStep DEF vars, dbVars, guiVars, discVars, AllFound,
       AllListed, BeforeApply, ListShowsStatus
  <2> QED BY <2>1, <2>2
<1>3. I => ListShowsStatus
  OBVIOUS
<1> HIDE DEF I
<1> QED BY <1>1, <1>2, <1>3, PTL DEF Spec

=============================================================================
