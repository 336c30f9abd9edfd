---------------------------- MODULE AnchorHelper ----------------------------
(***************************************************************************)
(* The application: one GUI thread that runs the handlers of HelperFrame,  *)
(* the Discovery thread, one TryConnect thread per click on Apply (a job), *)
(* one AnchorConnection thread per connected anchor and one ip_scan thread *)
(* per click on Populate.  They share DB, the Anchor objects in it and the *)
(* wxWidgets event queue; nothing in the code locks any of them.           *)
(*                                                                         *)
(* An address or a netmask/gateway pair is a member of Addr; the text      *)
(* fields may also hold a text IsIPValid rejects ("malformed") or one its  *)
(* pattern accepts and inet_addr does not ("outOfRange").                  *)
(*                                                                         *)
(* A handler's status assignment and its wxQueueEvent are one step, since  *)
(* the event carries the object and the GUI reads the status when it       *)
(* handles the event.  Undefined behaviour (an iterator used during or     *)
(* after a reallocation, a Socket used after its deletion) is a choice     *)
(* over the outcomes a build can produce, "crashed" being one of them.     *)
(***************************************************************************)
EXTENDS Integers, Sequences, FiniteSets

CONSTANTS
  Anchor,       \* ids of the anchors on the network
  Addr,         \* addresses a user may type and an anchor may have
  OwnAddr,      \* the address each anchor has when it is discovered
  NetText,      \* what the user may type as netmask and gateway
  RowText,      \* what the user may type as the address of a row
  Job,          \* bounds the clicks on Apply
  Scanner,      \* bounds the clicks on Populate
  Conn, NoConn, \* bounds the connections made; the null socket
  MaxAnnounce,  \* bounds how often one anchor is announced
  Env           \* what the environment may do, a subset of EnvFlags

EnvFlags == {"late",      \* anchors found after, or not yet listed at, a click on Apply
             "busyUser",  \* the user works the list while Apply is disabled
             "refuse",    \* a connection attempt may fail
             "noSocket",  \* the system may have no socket left
             "ignore",    \* an anchor may ignore a command that sets
             "drop",      \* an anchor may close its connection
             "noHost",    \* no interface of the host reaches the anchor
             "empty"}     \* Apply clicked with no row selected

ASSUME AnchorAssumption == Anchor # {}
ASSUME AddrAssumption == Addr # {} /\ OwnAddr \in [Anchor -> Addr]
ASSUME ConnAssumption == NoConn \notin Conn
ASSUME TextAssumption == /\ RowText \subseteq Addr \cup {"malformed", "outOfRange"}
                         /\ NetText \subseteq Addr \cup {"malformed", "outOfRange"}
ASSUME EnvAssumption == Env \subseteq EnvFlags

VARIABLES
  ancs,        \* DB::m_ancs, the vector of known anchors
  anchor,      \* the Anchor objects: selected, ipSet, status, sock
  net,         \* DB's gateway and netmask
  useDHCP,     \* DB::m_use_dhcp, and the checkbox that mirrors it
  rows,        \* listCtrl: id, selected, address text, status text
  netText,     \* the texts of the netmask and gateway fields
  applyOn,     \* m_pBtnApply enabled
  populateOn,  \* m_pBtnPopulate enabled
  queue,       \* the event queue of the GUI thread
  adding,      \* anchor AddrInfoReply has added but not queued, as a set
  announced,   \* how often each anchor was announced
  job,         \* the TryConnect threads
  scan,        \* rows each ip_scan thread works for, 0 before it runs, -1 after
  conn,        \* the connections: thread, descriptor, both directions of the wire
  opening,     \* the descriptor a TryConnect thread connects, and whether it has it
  dev,         \* the anchors' own configuration
  crashed      \* the process died

dbVars  == <<ancs, anchor, net, useDHCP>>
guiVars == <<rows, netText, applyOn, populateOn>>
discVars == <<adding, announced>>
wireVars == <<conn, opening, dev>>
vars == <<dbVars, guiVars, queue, discVars, job, scan, wireVars, crashed>>

-----------------------------------------------------------------------------
Text == Addr \cup {"malformed", "outOfRange"}
\* "zero" is 0.0.0.0, "none" is INADDR_NONE, which inet_addr returns on failure
Value == Addr \cup {"zero", "none"}

MarkStatus == {"STATIC_MARK_OK", "STATIC_MARK_FAILED",
               "DYNAMIC_MARK_OK", "DYNAMIC_MARK_FAILED"}
Status == {"NOT_CONNECTED", "CONNECTED", "CONNECT_FAILED", "SET_STATIC_IP_OK",
           "SET_STATIC_IP_FAILED", "DONE"} \cup MarkStatus
RowStatus == Status \cup {"ANCHOR_FOUND"}

\* Mutant: a connection counts as the end of the work on an anchor.
FinalMutant == {"DYNAMIC_MARK_FAILED", "DYNAMIC_MARK_OK",
                "SET_STATIC_IP_FAILED", "SET_STATIC_IP_OK", "CONNECTED"}

\* A status that OnProgressUpdate counts as the end of the work on an anchor.
Final == {"DYNAMIC_MARK_FAILED", "DYNAMIC_MARK_OK",
          "SET_STATIC_IP_FAILED", "SET_STATIC_IP_OK"}

\* GetStatusText: a row's status text is named after the status it renders, and
\* the missing break renders NOT_CONNECTED as CONNECTED.
GetStatusText(s) == IF s = "NOT_CONNECTED" THEN "CONNECTED" ELSE s

IsIPValid(t) == t # "malformed"

\* Mutant: the text is stored as it is.
InetAddrMutant(t) == t

InetAddr(t) == IF t \in Addr THEN t ELSE "none"

Known == {ancs[i] : i \in DOMAIN ancs}
Selected == {i \in DOMAIN rows : rows[i].sel}
RowOf(a) == {i \in DOMAIN rows : rows[i].id = a}

\* Mutant: an anchor is never found to exist.
ExistsMutant(a) == FALSE

\* DB::AddAnchor's search for the id.
Exists(a) == a \in Known

\* Mutant: any row will do.
ListedMutant(a) == rows # <<>>

\* OnAnchorFound's search for the id in the list.
Listed(a) == RowOf(a) # {}

\* Every anchor announced so far has its row.
AllListed == adding = {} /\ \A k \in DOMAIN queue : queue[k].type # "found"

\* Mutant: the rows go unchecked.
VerifyInputMutant == IsIPValid(netText)

VerifyInput == /\ \A i \in Selected : IsIPValid(rows[i].addr)
               /\ IsIPValid(netText)

NewAnchor == [selected |-> TRUE, ipSet |-> "zero", status |-> "NOT_CONNECTED",
              sock |-> NoConn]

Found(a)     == [type |-> "found", id |-> a]
Progress(a)  == [type |-> "progress", id |-> a]
ScanDone(ps) == [type |-> "scan", ips |-> ps]

\* Sequences of distinct addresses, at most n of them.
Addresses(n) == UNION {{s \in [1..k -> Addr] :
                          \A i, j \in 1..k : i # j => s[i] # s[j]} : k \in 0..n}

\* A TryConnect thread that holds an iterator into m_ancs.  Its lim is -1 while
\* the iterator is valid, the old size of the vector once it has moved.
Iterating(t) == job[t].pc \in {"connect", "connecting", "opening", "mark", "send", "wait"}
CanDeref(t) == job[t].lim = -1 \/ job[t].i <= job[t].lim
AtEnd(t) == job[t].lim = -1 /\ job[t].i > Len(ancs)
Current(t) == ancs[job[t].i]

Init ==
  /\ ancs = <<>> /\ anchor = [a \in Anchor |-> NewAnchor]
  /\ net = "zero" /\ useDHCP = FALSE
  /\ rows = <<>> /\ netText = "malformed" /\ applyOn = TRUE /\ populateOn = TRUE
  /\ queue = <<>> /\ adding = {} /\ announced = [a \in Anchor |-> 0]
  /\ job = [t \in Job |-> [pc |-> "unused", i |-> 1, lim |-> -1,
                           ok |-> FALSE, dhcp |-> FALSE]]
  /\ scan = [s \in Scanner |-> 0]
  /\ conn = [c \in Conn |-> [st |-> "unused", wire |-> "gone",
                             id |-> CHOOSE a \in Anchor : TRUE,
                             fd |-> 0, out |-> <<>>, in |-> <<>>]]
  /\ opening = [t \in Job |-> [fd |-> 0, held |-> FALSE]]
  /\ dev = [a \in Anchor |-> [addr |-> OwnAddr[a], net |-> "zero", static |-> FALSE]]
  /\ crashed = FALSE

-----------------------------------------------------------------------------
(* The Discovery thread. *)

\* AddrInfoReply up to AddAnchor: a known id leaves the vector alone, a new one
\* is pushed at its end, which may move the elements and so invalidate every
\* iterator a TryConnect thread holds.
AddAnchor(a) ==
  /\ adding = {} /\ announced[a] < MaxAnnounce
  /\ "late" \in Env \/ \A t \in Job : job[t].pc = "unused"
  /\ announced' = [announced EXCEPT ![a] = @ + 1]
  /\ adding' = {a}
  /\ IF Exists(a)
     THEN UNCHANGED <<ancs, job>>
     ELSE /\ ancs' = Append(ancs, a)
          /\ \/ UNCHANGED job
             \/ job' = [t \in Job |-> IF Iterating(t) /\ job[t].lim = -1
                                      THEN [job[t] EXCEPT !.lim = Len(ancs)]
                                      ELSE job[t]]
  /\ UNCHANGED <<anchor, net, useDHCP, guiVars, queue, scan, wireVars, crashed>>

\* Mutant: the event is queued before the anchor is added.
QueueFoundMutant(a) ==
  /\ announced[a] < MaxAnnounce
  /\ adding' = {}
  /\ queue' = Append(queue, Found(a))
  /\ UNCHANGED <<dbVars, guiVars, announced, job, scan, wireVars, crashed>>

\* The rest of AddrInfoReply: the GUI thread is told.
QueueFound(a) ==
  /\ a \in adding
  /\ adding' = {}
  /\ queue' = Append(queue, Found(a))
  /\ UNCHANGED <<dbVars, guiVars, announced, job, scan, wireVars, crashed>>

-----------------------------------------------------------------------------
(* The GUI thread: events. *)

Dequeue(type) == queue # <<>> /\ Head(queue).type = type /\ queue' = Tail(queue)

OnAnchorFound ==
  /\ Dequeue("found")
  /\ LET a == Head(queue).id IN
     rows' = IF Listed(a) THEN rows
             ELSE Append(rows, [id |-> a, sel |-> TRUE, addr |-> OwnAddr[a],
                                stat |-> "ANCHOR_FOUND"])
  /\ UNCHANGED <<dbVars, netText, applyOn, populateOn, discVars, job, scan,
                 wireVars, crashed>>

\* Mutant: only the first row is ever compared.
ShowsMutant(i, a) == i = 1 /\ rows[i].id = a

\* The row OnProgressUpdate rewrites: the first that has the anchor's id.
Shows(i, a) == rows[i].id = a /\ \A j \in RowOf(a) : i <= j

\* Mutant: only Populate is enabled again.
EnableButtonsMutant == populateOn' = TRUE /\ UNCHANGED applyOn

EnableButtons == applyOn' = TRUE /\ populateOn' = TRUE

\* The loop over the rows dereferences FindAnchor's result for every selected
\* row it reaches, and stops at the first whose status is not final.
OnProgressUpdate ==
  /\ Dequeue("progress")
  /\ LET a == Head(queue).id
         notFinal == {i \in Selected : anchor[rows[i].id].status \notin Final}
         null == {i \in Selected : rows[i].id \notin Known}
     IN /\ rows' = [i \in DOMAIN rows |->
                      IF Shows(i, a)
                      THEN [rows[i] EXCEPT !.stat = GetStatusText(anchor[a].status)]
                      ELSE rows[i]]
        /\ crashed' = \E i \in null : \A j \in notFinal : i <= j
        /\ IF notFinal = {} THEN EnableButtons ELSE UNCHANGED <<applyOn, populateOn>>
  /\ UNCHANGED <<dbVars, netText, discVars, job, scan, wireVars>>

\* Mutant: info_idx is never advanced.
RankMutant(i) == 1

\* The value of info_idx (from 1) when the loop is at the selected row i.
Rank(i) == Cardinality({j \in Selected : j <= i})

\* The addresses found go to the selected rows in order, as far as they reach.
OnScanIPFinished ==
  /\ Dequeue("scan")
  /\ LET ips == Head(queue).ips IN
     rows' = [i \in DOMAIN rows |->
                IF i \in Selected /\ Rank(i) <= Len(ips)
                THEN [rows[i] EXCEPT !.addr = ips[Rank(i)]]
                ELSE rows[i]]
  /\ EnableButtons
  /\ UNCHANGED <<dbVars, netText, discVars, job, scan, wireVars, crashed>>

-----------------------------------------------------------------------------
(* The GUI thread: the user.  A list or text field takes input only while it *)
(* is enabled, that is while DHCP is off.                                    *)

UserMayEdit == applyOn \/ "busyUser" \in Env
guiRest == <<queue, discVars, scan, wireVars, crashed>>

ToggleRow(i) ==
  /\ UserMayEdit /\ ~useDHCP /\ i \in DOMAIN rows
  /\ rows' = [rows EXCEPT ![i].sel = ~@]
  /\ UNCHANGED <<dbVars, netText, applyOn, populateOn, job, guiRest>>

EditRow(i, t) ==
  /\ UserMayEdit /\ ~useDHCP /\ i \in DOMAIN rows
  /\ rows' = [rows EXCEPT ![i].addr = t]
  /\ UNCHANGED <<dbVars, netText, applyOn, populateOn, job, guiRest>>

EditNet(t) ==
  /\ UserMayEdit /\ ~useDHCP
  /\ netText' = t
  /\ UNCHANGED <<dbVars, rows, applyOn, populateOn, job, guiRest>>

\* Ticking the box disables Populate and unticking enables it, whatever disabled
\* it before.
OnChkBoxClicked ==
  /\ UserMayEdit
  /\ useDHCP' = ~useDHCP
  /\ populateOn' = useDHCP
  /\ UNCHANGED <<ancs, anchor, net, rows, netText, applyOn, job, guiRest>>

\* Invalid input only opens a message box, so the action requires valid input.
OnBtnApply(t) ==
  /\ applyOn /\ job[t].pc = "unused"
  /\ useDHCP \/ VerifyInput
  /\ "empty" \in Env \/ Selected # {}
  /\ "late" \in Env \/ AllListed
  /\ anchor' = [a \in Anchor |->
       IF a \in Known /\ RowOf(a) # {}
       THEN LET i == CHOOSE k \in RowOf(a) : TRUE
            IN [anchor[a] EXCEPT !.ipSet = InetAddr(rows[i].addr),
                                 !.selected = rows[i].sel]
       ELSE anchor[a]]
  /\ net' = InetAddr(netText)
  /\ job' = [job EXCEPT ![t].pc = "connect"]
  /\ applyOn' = FALSE /\ populateOn' = FALSE
  /\ UNCHANGED <<ancs, useDHCP, rows, netText, guiRest>>

\* With no row, or none selected, nothing happens; the first row's anchor is
\* looked up and dereferenced.
OnBtnPopulate(s) ==
  /\ populateOn /\ scan[s] = 0 /\ Selected # {}
  /\ scan' = [scan EXCEPT ![s] = Cardinality(Selected)]
  /\ crashed' = (rows[1].id \notin Known)
  /\ applyOn' = FALSE /\ populateOn' = FALSE
  /\ UNCHANGED <<dbVars, rows, netText, queue, discVars, job, wireVars>>

\* FindAnchor iterates over the vector for every row while AddAnchor pushes a new
\* element: if that moves the vector the iterator is lost, and never equals the
\* new end.  The two may also pass each other by: they are then the steps above.
FindAnchorRaces ==
  /\ rows # <<>> /\ crashed' = TRUE
  /\ \E a \in Anchor : adding = {} /\ announced[a] < MaxAnnounce /\ ~Exists(a)
  /\ \/ /\ "late" \in Env
        /\ \/ queue # <<>> /\ Head(queue).type = "progress"
           \/ applyOn /\ (useDHCP \/ VerifyInput) /\ \E t \in Job : job[t].pc = "unused"
     \/ /\ "late" \in Env \/ \A t \in Job : job[t].pc = "unused"
        /\ populateOn /\ Selected # {} /\ \E s \in Scanner : scan[s] = 0
  /\ UNCHANGED <<dbVars, guiVars, queue, discVars, job, scan, wireVars>>

-----------------------------------------------------------------------------
(* The ip_scan thread. *)

\* Addresses that do not answer a ping, at most as many as were asked for.
ScanFinish(s) ==
  /\ scan[s] > 0
  /\ \E ips \in Addresses(scan[s]) : queue' = Append(queue, ScanDone(ips))
  /\ scan' = [scan EXCEPT ![s] = -1]
  /\ UNCHANGED <<dbVars, guiVars, discVars, job, wireVars, crashed>>

\* No interface reaches the anchor: the thread returns and no event is queued.
ScanNoHost(s) ==
  /\ "noHost" \in Env /\ scan[s] > 0
  /\ scan' = [scan EXCEPT ![s] = -1]
  /\ UNCHANGED <<dbVars, guiVars, queue, discVars, job, wireVars, crashed>>

-----------------------------------------------------------------------------
(* The TryConnect thread: connect to the selected anchors without a socket,  *)
(* then send to the selected anchors with one.                               *)

jobRest == <<guiVars, discVars, scan, dev>>
Goto(t, pc) == job' = [job EXCEPT ![t].pc = pc]
NextAnchor(t, pc) == job' = [job EXCEPT ![t].pc = pc, ![t].i = @ + 1]

\* Mutant: anchors that have a socket are connected to again.
SkipConnectMutant(o) == ~o.selected

SkipConnect(o) == ~o.selected \/ o.sock # NoConn

ConnectTurn(t) ==
  /\ job[t].pc = "connect"
  /\ \/ /\ AtEnd(t)
        /\ job' = [job EXCEPT ![t].pc = "send", ![t].i = 1, ![t].lim = -1]
     \/ /\ ~AtEnd(t) /\ CanDeref(t)
        /\ LET o == anchor[Current(t)] IN
           IF SkipConnect(o) THEN NextAnchor(t, "connect") ELSE Goto(t, "connecting")
  /\ UNCHANGED <<dbVars, queue, conn, opening, crashed, jobRest>>

\* The descriptor table: a connection whose wire is not gone holds its fd, and so
\* does a socket that is being connected, until another thread closes it.
HoldsFd(c) == conn[c].wire # "gone"
Holders(n) == {c \in Conn : HoldsFd(c) /\ conn[c].fd = n}
Openers(n) == {t \in Job : opening[t].held /\ opening[t].fd = n}

\* closesocket(n): what becomes of the connections and of the sockets being connected.
Closed(n) == [d \in Conn |-> IF d \in Holders(n)
                            THEN [conn[d] EXCEPT !.wire = "gone", !.out = <<>>, !.in = <<>>]
                            ELSE conn[d]]
Released(n) == [t \in Job |-> IF t \in Openers(n) THEN [opening[t] EXCEPT !.held = FALSE]
                                                  ELSE opening[t]]

\* socket() returns the least descriptor that is free.
Free(n) == Holders(n) = {} /\ Openers(n) = {}
FreeFd(n) == Free(n) /\ \A m \in 1..(n - 1) : ~Free(m)

\* ConnectToAnchor, Socket(): the descriptor is taken before the connect.  What it
\* throws when there is none is not what ConnectToAnchor catches.
OpenSocket(t) ==
  /\ job[t].pc = "connecting" /\ CanDeref(t)
  /\ \/ /\ \E n \in 1..(Cardinality(Conn) + Cardinality(Job) + 1) :
             FreeFd(n) /\ opening' = [opening EXCEPT ![t] = [fd |-> n, held |-> TRUE]]
        /\ Goto(t, "opening")
        /\ UNCHANGED crashed
     \/ "noSocket" \in Env /\ crashed' = TRUE /\ UNCHANGED <<opening, job>>
  /\ UNCHANGED <<dbVars, queue, conn, jobRest>>

\* The connect, on whatever socket has the descriptor by then: on success the
\* anchor's sock is set and its AnchorConnection thread runs; a SocketClient that
\* throws leaves sock as it was, and ~Socket closes the descriptor.
ConnectToAnchor(t) ==
  /\ job[t].pc = "opening"
  /\ LET a == Current(t)
         n == opening[t].fd
     IN \/ /\ Openers(n) # {}
           /\ \E c \in Conn :
                /\ conn[c].st = "unused"
                /\ conn' = [conn EXCEPT ![c] = [@ EXCEPT !.st = "running", !.wire = "up",
                                                         !.id = a, !.fd = n]]
                /\ anchor' = [anchor EXCEPT ![a].sock = c]
           /\ job' = [job EXCEPT ![t].pc = "mark", ![t].ok = TRUE]
        \/ /\ "refuse" \in Env \/ Openers(n) = {}
           /\ conn' = Closed(n)
           /\ job' = [job EXCEPT ![t].pc = "mark", ![t].ok = FALSE]
           /\ UNCHANGED anchor
  /\ opening' = Released(opening[t].fd)
  /\ UNCHANGED <<ancs, net, useDHCP, queue, crashed, jobRest>>

\* Mutant: a failure leaves the status as it was.
MarkedMutant(a, ok) == IF ok THEN "CONNECTED" ELSE anchor[a].status

Marked(a, ok) == IF ok THEN "CONNECTED" ELSE "CONNECT_FAILED"

MarkConnect(t) ==
  /\ job[t].pc = "mark" /\ CanDeref(t)
  /\ LET a == Current(t) IN
     /\ anchor' = [anchor EXCEPT ![a].status = Marked(a, job[t].ok)]
     /\ queue' = Append(queue, Progress(a))
  /\ NextAnchor(t, "connect")
  /\ UNCHANGED <<ancs, net, useDHCP, conn, opening, crashed, jobRest>>

\* SendFrame on the socket of a connection, the result ignored: the bytes reach
\* whichever connection has the descriptor now, or none.  Of a Socket that the
\* AnchorConnection thread has deleted nothing is certain.
SendFrame(c, m) ==
  LET up == {d \in Holders(conn[c].fd) : conn[d].wire = "up"} IN
  \/ /\ \E d \in up : conn' = [conn EXCEPT ![d].out = Append(@, m)]
     /\ UNCHANGED crashed
  \/ (up = {} \/ conn[c].st = "freed") /\ UNCHANGED <<conn, crashed>>
  \/ conn[c].st = "freed" /\ crashed' = TRUE /\ UNCHANGED conn

SetCmd(a) == IF useDHCP THEN [cmd |-> "useDhcp"]
             ELSE [cmd |-> "setStatic", addr |-> anchor[a].ipSet, net |-> net]

\* The head of the second loop, to the sleep: the mode is read once per anchor.
SendTurn(t) ==
  /\ job[t].pc = "send"
  /\ \/ AtEnd(t) /\ Goto(t, "done") /\ UNCHANGED <<conn, crashed>>
     \/ /\ ~AtEnd(t) /\ CanDeref(t)
        /\ LET a == Current(t)
               o == anchor[a]
           IN IF ~o.selected \/ o.sock = NoConn
              THEN NextAnchor(t, "send") /\ UNCHANGED <<conn, crashed>>
              ELSE /\ SendFrame(o.sock, SetCmd(a))
                   /\ job' = [job EXCEPT ![t].pc = "wait", ![t].dhcp = useDHCP]
  /\ UNCHANGED <<dbVars, queue, opening, jobRest>>

GetCmd(dhcp) == [cmd |-> IF dhcp THEN "getUse" ELSE "getStatic"]

\* After the sleep of a second: ask for what the anchor now has.
SendGet(t) ==
  /\ job[t].pc = "wait" /\ CanDeref(t)
  /\ SendFrame(anchor[Current(t)].sock, GetCmd(job[t].dhcp))
  /\ NextAnchor(t, "send")
  /\ UNCHANGED <<dbVars, queue, opening, jobRest>>

\* An invalidated iterator never equals End() and need not find the old elements.
StaleIterator(t) ==
  /\ Iterating(t) /\ job[t].lim # -1
  /\ crashed' = TRUE
  /\ UNCHANGED <<dbVars, guiVars, queue, discVars, job, scan, wireVars>>

TryConnect(t) == \/ ConnectTurn(t) \/ OpenSocket(t) \/ ConnectToAnchor(t) \/ MarkConnect(t)
                 \/ SendTurn(t) \/ SendGet(t) \/ StaleIterator(t)

-----------------------------------------------------------------------------
(* The anchors, from how the code uses them: commands are carried out in     *)
(* order, a get is answered, and an anchor may ignore a set or hang up.      *)

DeviceStep(c) ==
  /\ conn[c].wire = "up" /\ conn[c].out # <<>>
  /\ LET m == Head(conn[c].out)
         a == conn[c].id
         reply(r) == /\ conn' = [conn EXCEPT ![c].out = Tail(@), ![c].in = Append(@, r)]
                     /\ UNCHANGED dev
         set(d) == /\ conn' = [conn EXCEPT ![c].out = Tail(@)]
                   /\ \/ dev' = [dev EXCEPT ![a] = d]
                      \/ "ignore" \in Env /\ UNCHANGED dev
     IN \/ /\ m.cmd = "setStatic"
           /\ set([addr |-> m.addr, net |-> m.net, static |-> TRUE])
        \/ m.cmd = "useDhcp" /\ set([dev[a] EXCEPT !.static = FALSE])
        \/ /\ m.cmd = "getStatic"
           /\ reply([cmd |-> "static", addr |-> dev[a].addr, net |-> dev[a].net])
        \/ m.cmd = "getUse" /\ reply([cmd |-> "use", value |-> dev[a].static])
  /\ UNCHANGED <<dbVars, guiVars, queue, discVars, job, scan, opening, crashed>>

\* The anchor closes the connection; answers under way may be lost.
Drop(c) ==
  /\ "drop" \in Env /\ conn[c].wire = "up"
  /\ \E in \in {conn[c].in, <<>>} :
       conn' = [conn EXCEPT ![c].wire = "down", ![c].out = <<>>, ![c].in = in]
  /\ UNCHANGED <<dbVars, guiVars, queue, discVars, job, scan, opening, dev, crashed>>

-----------------------------------------------------------------------------
(* The AnchorConnection thread: it reads whatever its descriptor leads to.   *)

connRest == <<ancs, net, useDHCP, guiVars, discVars, job, scan, dev, crashed>>
Receive(c, d, cmd) == /\ conn[c].st = "running"
                      /\ d \in Holders(conn[c].fd)
                      /\ conn[d].in # <<>> /\ Head(conn[d].in).cmd = cmd
                      /\ conn' = [conn EXCEPT ![d].in = Tail(@)]

\* The reply is judged by the mode in force when it arrives.
UseStaticStatus(value) ==
  IF useDHCP THEN IF value THEN "DYNAMIC_MARK_FAILED" ELSE "DYNAMIC_MARK_OK"
             ELSE IF value THEN "STATIC_MARK_OK" ELSE "STATIC_MARK_FAILED"

HandleUseStaticAddr(c, d) ==
  /\ Receive(c, d, "use")
  /\ LET a == conn[c].id IN
     /\ anchor' = [anchor EXCEPT ![a].status = UseStaticStatus(Head(conn[d].in).value)]
     /\ queue' = Append(queue, Progress(a))
  /\ UNCHANGED <<opening, connRest>>

\* Mutant: netmask and gateway are not compared.
IsAppliedMutant(a, r) == r.addr = anchor[a].ipSet

IsApplied(a, r) == r.addr = anchor[a].ipSet /\ r.net = net

\* A reply that differs from what was applied leaves the status as it was.
HandleSetStaticAddr(c, d) ==
  /\ Receive(c, d, "static")
  /\ LET a == conn[c].id
         r == Head(conn[d].in)
     IN /\ anchor' = IF IsApplied(a, r)
                     THEN [anchor EXCEPT ![a].status = "SET_STATIC_IP_OK"]
                     ELSE anchor
        /\ queue' = Append(queue, Progress(a))
  /\ UNCHANGED <<opening, connRest>>

\* closesocket(n), by the thread of c, which goes on to be in state st.
CloseFd(c, n, st) == /\ conn' = [Closed(n) EXCEPT ![c].st = st]
                     /\ opening' = Released(n)

\* The loop ends when nothing more can be received, and the socket is closed.
ConnectionClose(c) ==
  /\ conn[c].st = "running"
  /\ \A d \in Holders(conn[c].fd) : conn[d].wire = "down" /\ conn[d].in = <<>>
  /\ CloseFd(c, conn[c].fd, "closed")
  /\ UNCHANGED <<anchor, queue, connRest>>

\* Then the object deletes itself and, with it, its Socket, whose destructor
\* closes the descriptor again, whoever holds it by now.  The anchor's sock still
\* points to the deleted Socket.
ConnectionDelete(c) ==
  /\ conn[c].st = "closed"
  /\ CloseFd(c, conn[c].fd, "freed")
  /\ UNCHANGED <<anchor, queue, connRest>>

-----------------------------------------------------------------------------
GuiEvent == OnAnchorFound \/ OnProgressUpdate \/ OnScanIPFinished

User == \/ \E i \in DOMAIN rows : ToggleRow(i) \/ \E t \in RowText : EditRow(i, t)
        \/ \E t \in NetText : EditNet(t)
        \/ OnChkBoxClicked
        \/ \E t \in Job : OnBtnApply(t)
        \/ \E s \in Scanner : OnBtnPopulate(s)

Connection(c) ==
  \/ \E d \in Conn : HandleUseStaticAddr(c, d) \/ HandleSetStaticAddr(c, d)
  \/ ConnectionClose(c) \/ ConnectionDelete(c)

Next == /\ ~crashed
        /\ \/ \E a \in Anchor : AddAnchor(a) \/ QueueFound(a)
           \/ GuiEvent \/ FindAnchorRaces
           \/ User
           \/ \E s \in Scanner : ScanFinish(s) \/ ScanNoHost(s)
           \/ \E t \in Job : TryConnect(t)
           \/ \E c \in Conn : DeviceStep(c) \/ Drop(c) \/ Connection(c)

Spec == Init /\ [][Next]_vars

(* Fairness: a thread that can run does, the GUI loop handles its events, and *)
(* an anchor answers what it is sent.  Nothing obliges the user.              *)
FairSpec ==
  /\ Spec
  /\ WF_vars(\E a \in Anchor : ~crashed /\ QueueFound(a))
  /\ WF_vars(~crashed /\ GuiEvent)
  /\ \A t \in Job : WF_vars(~crashed /\ TryConnect(t))
  /\ \A s \in Scanner : WF_vars(~crashed /\ ScanFinish(s))
  /\ \A c \in Conn : WF_vars(~crashed /\ DeviceStep(c))
                     /\ WF_vars(~crashed /\ Connection(c))

-----------------------------------------------------------------------------
(* Properties. *)

Command == [cmd : {"setStatic"}, addr : Value, net : Value]
             \cup [cmd : {"useDhcp", "getStatic", "getUse"}]
Reply == [cmd : {"static"}, addr : Value, net : Value]
             \cup [cmd : {"use"}, value : BOOLEAN]
Event == [type : {"found", "progress"}, id : Anchor]
             \cup [type : {"scan"}, ips : Seq(Addr)]

AnchorObject == [selected : BOOLEAN, ipSet : Value, status : Status,
                 sock : Conn \cup {NoConn}]
Row == [id : Anchor, sel : BOOLEAN, addr : Text, stat : RowStatus]
JobRecord == [pc : {"unused", "connect", "connecting", "opening", "mark", "send", "wait", "done"},
              i : Nat \ {0}, lim : Int,
              ok : BOOLEAN, dhcp : BOOLEAN]
ConnRecord == [st : {"unused", "running", "closed", "freed"},
               wire : {"up", "down", "gone"}, id : Anchor, fd : Nat,
               out : Seq(Command), in : Seq(Reply)]
DevRecord == [addr : Value, net : Value, static : BOOLEAN]

DbType == /\ ancs \in Seq(Anchor) /\ anchor \in [Anchor -> AnchorObject]
          /\ net \in Value /\ useDHCP \in BOOLEAN
GuiType == /\ rows \in Seq(Row) /\ netText \in Text
           /\ applyOn \in BOOLEAN /\ populateOn \in BOOLEAN
QueueType == queue \in Seq(Event)
DiscType == adding \subseteq Anchor /\ announced \in [Anchor -> Nat]
ThreadType == job \in [Job -> JobRecord] /\ scan \in [Scanner -> Int]
WireType == /\ conn \in [Conn -> ConnRecord] /\ dev \in [Anchor -> DevRecord]
            /\ opening \in [Job -> [fd : Nat, held : BOOLEAN]]

\* Every variable has its type: the invariant the other proofs start from.
TypeOK == /\ DbType /\ GuiType /\ QueueType /\ DiscType /\ ThreadType /\ WireType
          /\ crashed \in BOOLEAN

\* The GUI thread dereferences FindAnchor's result without a test for every row
\* it lists (OnProgressUpdate, OnBtnPopulate), although another thread fills the
\* database: every listed anchor is in it.
RowsKnown == \A i \in DOMAIN rows : rows[i].id \in Known

\* However often an anchor is announced, and however the announcements interleave
\* with the GUI thread, it has one Anchor object and one row.
NoDuplicates ==
  /\ \A i, j \in DOMAIN ancs : ancs[i] = ancs[j] => i = j
  /\ \A i, j \in DOMAIN rows : rows[i].id = rows[j].id => i = j

\* GetStatusText renders NOT_CONNECTED as "Connected" (a break is missing): no
\* progress event is ever handled while its anchor is still NOT_CONNECTED, so
\* the list never shows a connection that was not made.
ProgressHasStatus ==
  \A k \in DOMAIN queue :
     queue[k].type = "progress" => anchor[queue[k].id].status # "NOT_CONNECTED"

\* No status update is lost on the way to the list: unless an event for it is
\* still queued, a row shows the status its anchor has.
ListShowsStatus ==
  \A i \in DOMAIN rows :
    LET a == rows[i].id IN
    \/ rows[i].stat = GetStatusText(anchor[a].status)
    \/ rows[i].stat = "ANCHOR_FOUND" /\ anchor[a].status = "NOT_CONNECTED"
    \/ \E k \in DOMAIN queue : queue[k] = Progress(a)

\* TryConnect skips anchors that have a socket: threads started by several
\* clicks on Apply never hold two connections to the same anchor.
OneConnection ==
  \A c, d \in Conn : HoldsFd(c) /\ HoldsFd(d) /\ conn[c].id = conn[d].id => c = d

\* TryConnect still has an anchor to connect to or a command to send.
Working(t) ==
  \/ job[t].pc \in {"connect", "connecting", "opening", "mark", "wait"}
  \/ job[t].pc = "send" /\ \E i \in job[t].i..Len(ancs) :
                              anchor[ancs[i]].selected /\ anchor[ancs[i]].sock # NoConn

\* Apply stays disabled while the thread it started has work left, although the
\* answers of one anchor arrive while the thread still works for another.
ApplyLocked == (\E t \in Job : Working(t)) => ~applyOn

\* Nothing is under way: no thread at work, no message, no event.
Quiet == /\ \A t \in Job : job[t].pc \in {"unused", "done"}
         /\ \A c \in Conn : conn[c].out = <<>> /\ conn[c].in = <<>>
         /\ queue = <<>>

\* A reported "Static IP Set OK" is true: when everything asked for has been done
\* the anchor has the address, netmask and gateway that were applied last.
OkMeansConfigured ==
  Quiet => \A a \in Anchor : anchor[a].status = "SET_STATIC_IP_OK" =>
                      dev[a].addr = anchor[a].ipSet /\ dev[a].net = net

\* What an anchor is told to use has passed the checks of OnBtnApply: of the texts of
\* the rows, selected or not, and of the fields, only addresses reach the wire.
SentIsChecked ==
  \A c \in Conn : \A k \in DOMAIN conn[c].out :
     conn[c].out[k].cmd = "setStatic" =>
        conn[c].out[k].addr \in Addr /\ conn[c].out[k].net \in Addr

\* TryConnect sends only over a socket that still exists: it tests the anchor's
\* sock, which other threads' connections come and go behind.
SendsOnLiveSocket ==
  [][\A t \in Job : job[t].pc = "send" /\ job'[t].pc = "wait" =>
        conn[anchor[Current(t)].sock].st # "freed"]_vars

\* An anchor that is found gets its row.
FoundIsListed == \A a \in Anchor : (a \in Known) ~> (RowOf(a) # {} \/ crashed)

\* A connection that ends leaves the other connections alone.
ClosesOnlyItsOwn ==
  [][\A c \in Conn : conn[c].st # conn'[c].st /\ conn'[c].st \in {"closed", "freed"} =>
        \A d \in Conn \ {c} : conn'[d] = conn[d]]_vars

\* Populate never gives two anchors the same address, whatever the user selects
\* or unselects while the scan runs.
PopulateDistinct ==
  [][\A i, j \in DOMAIN rows :
        /\ i # j
        /\ rows'[i].addr # rows[i].addr /\ rows'[j].addr # rows[j].addr
        => rows'[i].addr # rows'[j].addr]_rows

\* When the anchors can be reached and do as they are told, every click on Apply
\* or Populate ends with the button enabled again.
ApplyCompletes == ~applyOn ~> applyOn
=============================================================================
