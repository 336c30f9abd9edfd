------------------------------ MODULE Discovery ------------------------------
(***************************************************************************)
(* Discovery.cpp: the thread that browses for anchors.  For each anchor    *)
(* that appears its callbacks resolve the name and then ask for the        *)
(* address, each time waiting for the answer inside the callback of the    *)
(* query before.  The mDNS daemon and the network are external.            *)
(***************************************************************************)
EXTENDS DnssdClient

CONSTANTS
  MaxAppear,  \* bounds how often an anchor appears
  Faults      \* sets of what may go wrong in a behaviour: "vanish" (an anchor leaves),
              \* "silent" (replies the callback is not told of: an alias for an address, or
              \* one that is too short to be read), "noTxt" (services without a TXT
              \* record), "die" (the daemon ends), "hang" (it stops answering), "late" (it
              \* is started while the application runs)

VARIABLES
  client,     \* the reference of the browse operation
  where,      \* Run: browse, select, stop, done
  ancs,       \* DB::m_ancs: id, address, and the service (history) of each anchor
  present,    \* how often each service has appeared, and whether it is there now
  told,       \* what the browse connection was told last of each service
  faults      \* what may go wrong in this behaviour

discVars == <<stubVars, client, where, ancs, present, told, faults>>
netVars == <<present, told>>

Can(fault) == fault \in faults

DiscInit ==
  /\ StubInit
  /\ client = NullRef /\ where = "browse" /\ ancs = {}
  /\ present = [s \in Service |-> [here |-> FALSE, times |-> 0]]
  /\ told = [s \in Service |-> FALSE]
  /\ faults \in Faults
  /\ daemon = "down" => Can("late")

-----------------------------------------------------------------------------
(* Run and HandleEvents *)

RunBrowse ==
  /\ where = "browse" /\ query.pc = "none"
  /\ Start("browse", NullRef)
  /\ UNCHANGED <<ref, wire, stack, daemon, client, where, ancs, netVars, faults>>

\* The error is ignored: without a client the thread waits for nothing, for three years.
RunBrowsed ==
  /\ where = "browse" /\ query.pc = "returned"
  /\ client' = query.ref /\ query' = NoQuery /\ where' = "select"
  /\ UNCHANGED <<ref, wire, stack, daemon, ancs, netVars, faults>>

\* select finds the connection readable.
HandleEvents ==
  /\ where = "select" /\ stack = <<>> /\ client # NullRef
  /\ wire[client].msgs # <<>> \/ wire[client].closed
  /\ stack' = <<Call(client)>>
  /\ UNCHANGED <<ref, wire, query, daemon, client, where, ancs, netVars, faults>>

\* Mutant: the error is only logged.
HandleFailureMutant == ReadFails /\ UNCHANGED <<client, where, ancs, netVars, faults>>

\* DNSServiceProcessResult fails: an error of the browse operation ends the loop, one of
\* a nested operation is ignored.
HandleFailure ==
  /\ ReadFails
  /\ where' = IF Depth = 1 THEN "stop" ELSE where
  /\ UNCHANGED <<client, ancs, netVars, faults>>

RunStop ==
  /\ where = "stop"
  /\ ref' = Freed(ref, client) /\ wire' = Closed(wire, client)
  /\ stack' = ToldToStop(stack, ref, client)
  /\ where' = "done"
  /\ UNCHANGED <<query, daemon, client, ancs, netVars, faults>>

-----------------------------------------------------------------------------
(* The callbacks *)

Reply(op) == At("callback") /\ ref[Top.ref].op = op /\ Top.msg.answer # "unread"
SetTop(p) == [stack EXCEPT ![Depth].pc = p]

\* A service that has been removed is ignored.
BrowseReplyRemove ==
  /\ Reply("browse") /\ ~Top.msg.add
  /\ stack' = SetTop("after")
  /\ UNCHANGED <<ref, wire, query, daemon, client, where, ancs, netVars, faults>>

BrowseReply ==
  /\ Reply("browse") /\ Top.msg.add
  /\ stack' = SetTop("waiting") /\ Start("resolve", Top.msg.service)
  /\ UNCHANGED <<ref, wire, daemon, client, where, ancs, netVars, faults>>

ResolveReply ==
  /\ Reply("resolve")
  /\ stack' = SetTop("waiting") /\ Start("addrinfo", Top.msg.service)
  /\ UNCHANGED <<ref, wire, daemon, client, where, ancs, netVars, faults>>

\* BrowseReply and ResolveReply process the operation they have started, if they could.
ProcessNested ==
  /\ At("waiting") /\ query.pc = "returned"
  /\ query' = NoQuery
  /\ stack' = IF query.ref = NullRef THEN stack ELSE Append(stack, Call(query.ref))
  /\ UNCHANGED <<ref, wire, daemon, client, where, ancs, netVars, faults>>

BrowseReplyReturns ==
  /\ At("waiting") /\ query.pc = "none" /\ ref[Top.ref].op = "browse"
  /\ stack' = SetTop("after")
  /\ UNCHANGED <<ref, wire, query, daemon, client, where, ancs, netVars, faults>>

\* ResolveReply and AddrInfoReply deallocate the reference they are called for.
ReturnDeallocating ==
  /\ ref' = Freed(ref, Top.ref) /\ wire' = Closed(wire, Top.ref)
  /\ stack' = [ToldToStop(stack, ref, Top.ref) EXCEPT ![Depth].pc = "after"]
  /\ UNCHANGED <<query, daemon, client, where, netVars, faults>>

ResolveReplyReturns ==
  /\ At("waiting") /\ query.pc = "none" /\ ref[Top.ref].op = "resolve"
  /\ ReturnDeallocating /\ UNCHANGED ancs

\* Mutant: the TXT record is not read.
IdMutant(s) == NullRef

\* ResolveReply reads the id from the TXT record, without one it is zero.
Id(s) == IF Can("noTxt") THEN NullRef ELSE s

\* DB::AddAnchor: a known id keeps its entry, whatever its address is now.  After a
\* negative answer the address is zero.
AddAnchor(msg) ==
  ancs' = IF \E a \in ancs : a.id = Id(msg.service) THEN ancs
          ELSE ancs \cup {[id |-> Id(msg.service), service |-> msg.service,
                           own |-> msg.answer # "negative"]}

AddrInfoReply ==
  /\ Reply("addrinfo")
  /\ AddAnchor(Top.msg)
  /\ ReturnDeallocating

\* No callback is called for a reply that cannot be read, nor for an address that is an
\* alias: the reference is kept, and the call returns without an error.
NoCallback ==
  /\ At("callback") /\ Top.msg.answer = "unread"
  /\ stack' = SetTop("after")
  /\ UNCHANGED <<ref, wire, query, daemon, client, where, ancs, netVars, faults>>

DiscoveryStep ==
  \/ RunBrowse \/ RunBrowsed \/ HandleEvents \/ HandleFailure \/ RunStop
  \/ BrowseReply \/ BrowseReplyRemove \/ ResolveReply \/ ProcessNested
  \/ BrowseReplyReturns \/ ResolveReplyReturns \/ AddrInfoReply \/ NoCallback
  \/ /\ ProcessResult \/ StartOperation
     /\ UNCHANGED <<client, where, ancs, netVars, faults>>

-----------------------------------------------------------------------------
(* The daemon and the network *)

Send(r, msg) == wire' = [wire EXCEPT ![r].msgs = Append(@, msg)]
Answers == {"own"} \cup {a \in {"unread"} : Can("silent")}
Served(r, op) == /\ daemon = "up" /\ ref[r].live /\ ref[r].op = op /\ ~wire[r].closed
                 /\ ~(query.pc = "deliver" /\ query.ref = r)

Appear(s) ==
  /\ ~present[s].here /\ present[s].times < MaxAppear
  /\ present' = [present EXCEPT ![s] = [here |-> TRUE, times |-> @.times + 1]]
  /\ UNCHANGED <<stubVars, client, where, ancs, told, faults>>

Vanish(s) ==
  /\ Can("vanish") /\ present[s].here
  /\ present' = [present EXCEPT ![s].here = FALSE]
  /\ UNCHANGED <<stubVars, client, where, ancs, told, faults>>

\* The error code that answers a request.
DaemonAccepts ==
  /\ query.pc = "deliver" /\ daemon = "up"
  /\ ~wire[query.ref].closed /\ wire[query.ref].msgs = <<>>
  /\ Send(query.ref, NullRef)
  /\ UNCHANGED <<ref, stack, query, daemon, client, where, ancs, netVars, faults>>

DaemonBrowses(r, s) ==
  /\ Served(r, "browse") /\ told[s] # present[s].here
  /\ told' = [told EXCEPT ![s] = present[s].here]
  /\ \E answer \in Answers :
       Send(r, [service |-> s, add |-> present[s].here, answer |-> answer])
  /\ UNCHANGED <<ref, stack, query, daemon, client, where, ancs, present, faults>>

\* One answer, or two in a row from a host with two interfaces.
DaemonAnswers(r, s) ==
  /\ Served(r, "resolve") \/ Served(r, "addrinfo")
  /\ ref[r].arg = s /\ present[s].here /\ Len(wire[r].msgs) < 2
  /\ \E answer \in Answers : Send(r, [service |-> s, add |-> TRUE, answer |-> answer])
  /\ UNCHANGED <<ref, stack, query, daemon, client, where, ancs, netVars, faults>>

\* The address record is known not to exist.
DaemonDenies(r, s) ==
  /\ Served(r, "addrinfo") /\ ref[r].arg = s /\ ~present[s].here
  /\ wire[r].msgs = <<>>
  /\ Send(r, [service |-> s, add |-> TRUE, answer |-> "negative"])
  /\ UNCHANGED <<ref, stack, query, daemon, client, where, ancs, netVars, faults>>

DaemonDies ==
  /\ Can("die") /\ daemon # "down"
  /\ daemon' = "down"
  /\ wire' = [r \in Ref |-> IF ref[r].live THEN [wire[r] EXCEPT !.closed = TRUE] ELSE wire[r]]
  /\ UNCHANGED <<ref, stack, query, client, where, ancs, netVars, faults>>

DaemonStarts ==
  /\ daemon = "down" /\ Can("late")
  /\ daemon' = "up"
  /\ UNCHANGED <<ref, wire, stack, query, client, where, ancs, netVars, faults>>

DaemonHangs ==
  /\ Can("hang") /\ daemon = "up"
  /\ daemon' = "hung"
  /\ UNCHANGED <<ref, wire, stack, query, client, where, ancs, netVars, faults>>

DaemonStep ==
  \/ DaemonAccepts
  \/ \E r \in Ref, s \in Service : DaemonBrowses(r, s) \/ DaemonAnswers(r, s)

DiscNext ==
  \/ DiscoveryStep \/ DaemonStep \/ DaemonDies \/ DaemonStarts \/ DaemonHangs
  \/ \E s \in Service : Appear(s) \/ Vanish(s)
  \/ \E r \in Ref, s \in Service : DaemonDenies(r, s)

DiscSpec == DiscInit /\ [][DiscNext]_discVars

\* The thread runs; a daemon that is up answers what it can.
DiscFairSpec == DiscSpec /\ WF_discVars(DiscoveryStep) /\ WF_discVars(DaemonStep)

-----------------------------------------------------------------------------
DiscTypeOK ==
  /\ StubTypeOK
  /\ client \in Ref \cup {NullRef} /\ where \in {"browse", "select", "stop", "done"}
  /\ ancs \subseteq [id : Service \cup {NullRef}, service : Service, own : BOOLEAN]
  /\ faults \in Faults

\* Between two events the only reference alive is that of the browse operation, unless
\* an answer could be kept from the callback or the daemon could end: then the reference
\* of a nested operation, whose DNSServiceProcessResult returns without a callback, is
\* never freed.
NothingLeaks ==
  where = "select" /\ stack = <<>> /\ faults \cap {"silent", "die"} = {} =>
    {r \in Ref : ref[r].live} \subseteq {client}

\* The stub uses no memory that has been freed, and the application leaks none.
StubMemory == NoUseAfterFree /\ MoreptrOnStack /\ NothingLeaks

\* An anchor that stays gets into the database with its own address, if the daemon
\* stays up and answers and no other anchor leaves while it is being asked for.
StayingIsStored ==
  \A s \in Service :
    (faults = {} /\ present[s].here) ~> \E a \in ancs : a.service = s /\ a.own

\* When the connection of the browse operation ends the thread ends too and gives its
\* reference back, however deep in callbacks it was waiting for an answer: unless a new
\* daemon keeps it waiting for the answer of an anchor that has left.
DeathEndsThread ==
  (client # NullRef /\ where = "select" /\ wire[client].closed /\ ~({"vanish", "late"} \subseteq faults))
    ~> (where = "done" /\ ~ref[client].live)
=============================================================================
