-------------------------- MODULE SharedConnection --------------------------
(***************************************************************************)
(* dnssd_clientstub.c: many operations and records on one connection to    *)
(* the mDNS daemon.  DNSServiceCreateConnection makes the primary          *)
(* reference; operations started with kDNSServiceFlagsShareConnection are  *)
(* its subordinates.  Requests and replies carry a uid counted up in the   *)
(* primary, and ConnectionResponse gives a reply to the one it belongs to. *)
(* One thread makes the calls, from its main loop or from a callback, and  *)
(* every callback may make any of them.  The daemon is external.           *)
(***************************************************************************)
EXTENDS Naturals, Sequences, FiniteSets, SequencesExt

CONSTANTS
  Sub,          \* memory for subordinate references
  Rec,          \* memory for DNSRecords
  Primary,      \* the reference of the connection
  Nobody,       \* the null pointer
  SharedCalls,  \* how many calls the application makes
  MaxReplies,   \* how many replies are on their way at most
  Limited       \* whether the socket is below FD_SETSIZE, so that set_waitlimit limits waits

ASSUME SharedAssumption == /\ Primary \notin Sub
                           /\ Nobody \notin Sub \cup Rec \cup {Primary}
                           /\ SharedCalls \in Nat
                           /\ Limited \in BOOLEAN

VARIABLES
  conn,        \* the connection: "none", "open", "freed"
  op,          \* each DNSServiceOp: uid, rec (the list of its records), maxIndex, whether it
               \* has a ProcessReply, register (reg_service_request), born (history: the call)
  next,        \* the subordinates, in the order of the primary's list
  record,      \* each DNSRecord: uid (0: not set), index, born (history)
  moreptr,     \* whether the moreptr of the primary points to a local variable
  result,      \* DNSServiceProcessResult: pc, morebytes
  pending,     \* the call that waits for the daemon in deliver_request
  requests,    \* what has been written to the connection
  replies,     \* what can be read from it
  served,      \* what the daemon does for this connection
  mdns,        \* the daemon: "up", "down"
  made         \* how many calls have been made

sharedVars == <<conn, op, next, record, moreptr, result, pending, requests, replies, served,
                mdns, made>>

NoOp == [uid |-> 0, rec |-> <<>>, maxIndex |-> 0, replies |-> FALSE, register |-> FALSE,
         born |-> 0]
NoRecord == [uid |-> 0, index |-> 0, born |-> 0]
NoCall == [api |-> "none", of |-> Nobody, record |-> Nobody, answer |-> "none"]

\* A list without one of its members.
Unlinked(list, x) ==
  IF Contains(list, x) THEN RemoveAt(list, CHOOSE i \in DOMAIN list : list[i] = x) ELSE list

Refs == ToSet(next) \cup {Primary}
Records == UNION {ToSet(op[r].rec) : r \in Refs}

SharedInit ==
  /\ conn = "none" /\ next = <<>> /\ op = [r \in Sub \cup {Primary} |-> NoOp]
  /\ record = [r \in Rec |-> NoRecord]
  /\ moreptr = FALSE /\ result = [pc |-> "none", more |-> FALSE]
  /\ pending = NoCall
  /\ requests = <<>> /\ replies = <<>> /\ served = {}
  /\ mdns = "up" /\ made = 0

\* The application calls from its main loop or from a callback.
Calling ==
  /\ pending = NoCall /\ result.pc \in {"none", "callback"}
  /\ made < SharedCalls /\ made' = made + 1

-----------------------------------------------------------------------------
(* Starting: ConnectToServer, create_hdr, deliver_request up to the answer *)

\* What create_hdr and the callers put into a request.
create_hdr(what, uid, index, born) == [op |-> what, uid |-> uid, index |-> index, born |-> born]

\* write_all fails if the daemon is gone, and the answer will never come.
Write(list) == requests' = IF mdns = "down" THEN requests ELSE requests \o list

\* The request is written, and the answer awaited.
Deliver(api, r, rec, hdr) ==
  /\ pending' = [api |-> api, of |-> r, record |-> rec, answer |-> "none"]
  /\ Write(<<hdr>>)

\* The daemon accepts a connection of its own for the application, or does not.
DNSServiceCreateConnection ==
  /\ Calling /\ conn = "none"
  /\ conn' = IF mdns = "up" THEN "open" ELSE "none"
  /\ op' = [op EXCEPT ![Primary] = [NoOp EXCEPT !.replies = TRUE]]
  /\ UNCHANGED <<next, record, moreptr, result, pending, requests, replies,
                 served, mdns>>

\* Mutant: the uid of the primary is not counted up.
ConnectToServerMutant(s, withReply, register) ==
  /\ next' = Append(next, s)
  /\ op' = [op EXCEPT ![s] = [NoOp EXCEPT !.uid = op[Primary].uid + 1, !.replies = withReply,
                                          !.register = register, !.born = made']]

\* A subordinate is appended to the list of the primary, whose uid it counts up and takes.
ConnectToServer(s, withReply, register) ==
  /\ next' = Append(next, s)
  /\ op' = [op EXCEPT ![Primary].uid = @ + 1,
                      ![s] = [NoOp EXCEPT !.uid = op[Primary].uid + 1, !.replies = withReply,
                                          !.register = register, !.born = made']]

Request(withReply, register) ==
  /\ Calling /\ conn = "open" /\ Sub \ ToSet(next) # {}
  /\ LET s == CHOOSE s \in Sub : s \notin ToSet(next) IN
     /\ ConnectToServer(s, withReply, register)
     /\ Deliver("request", s, Nobody, create_hdr("request", op'[s].uid, 0, made'))
  /\ UNCHANGED <<conn, record, moreptr, result, replies, served, mdns>>

\* The calls with the handlers of their replies, which call the callback of the application
\* unless the reply is short.
DNSServiceResolve == Request(TRUE, FALSE)
DNSServiceQueryRecord == Request(TRUE, FALSE)
DNSServiceGetAddrInfo == Request(TRUE, FALSE)
DNSServiceBrowse == Request(TRUE, FALSE)
DNSServiceEnumerateDomains == Request(TRUE, FALSE)
DNSServiceNATPortMappingCreate == Request(TRUE, FALSE)

\* Without a callback there is no ProcessReply, and the daemon is told not to reply.
DNSServiceRegister == \E callBack \in BOOLEAN : Request(callBack, TRUE)

\* A record of the connection: the uid of the primary is counted up, and the record takes
\* it.  The record is in the list before the daemon is asked, and stays there whatever
\* the answer.  Without memory for it, the uid has been counted up all the same.
DNSServiceRegisterRecord ==
  /\ Calling /\ conn = "open"
  /\ IF Records = Rec
     THEN op' = [op EXCEPT ![Primary].uid = @ + 1] /\ UNCHANGED <<record, pending, requests>>
     ELSE LET r == CHOOSE r \in Rec : r \notin Records
              uid == op[Primary].uid + 1
              index == op[Primary].maxIndex IN
          /\ op' = [op EXCEPT ![Primary].uid = uid, ![Primary].maxIndex = index + 1,
                              ![Primary].rec = Append(@, r)]
          /\ record' = [record EXCEPT ![r] = [uid |-> uid, index |-> index, born |-> made']]
          /\ Deliver("register", Primary, r, create_hdr("register", uid, index, made'))
  /\ UNCHANGED <<conn, next, moreptr, result, replies, served, mdns>>

\* A further record of a registered service; it has no callback, and no uid.
DNSServiceAddRecord ==
  /\ Calling /\ conn = "open" /\ Records # Rec
  /\ \E s \in ToSet(next) :
       LET r == CHOOSE r \in Rec : r \notin Records
           index == op[s].maxIndex IN
       /\ op[s].register
       /\ op' = [op EXCEPT ![s].maxIndex = index + 1, ![s].rec = Append(@, r)]
       /\ record' = [record EXCEPT ![r] = [uid |-> 0, index |-> index, born |-> made']]
       /\ Deliver("add", s, r, create_hdr("add", op[s].uid, index, made'))
  /\ UNCHANGED <<conn, next, moreptr, result, replies, served, mdns>>

DNSServiceUpdateRecord ==
  /\ Calling /\ conn = "open"
  /\ \E r \in Refs : \E d \in ToSet(op[r].rec) :
       Deliver("update", r, d, create_hdr("update", op[r].uid, record[d].index, made'))
  /\ UNCHANGED <<conn, op, next, record, moreptr, result, replies, served, mdns>>

DNSServiceRemoveRecord ==
  /\ Calling /\ conn = "open"
  /\ \E r \in Refs : \E d \in ToSet(op[r].rec) :
       Deliver("remove", r, d, create_hdr("remove", op[r].uid, record[d].index, made'))
  /\ UNCHANGED <<conn, op, next, record, moreptr, result, replies, served, mdns>>

\* Calls that make a connection of their own, ask, and close it.
Ask ==
  /\ Calling /\ mdns # "down"
  /\ pending' = [NoCall EXCEPT !.api = "ask"]
  /\ UNCHANGED <<conn, op, next, record, moreptr, result, requests, replies, served, mdns>>

DNSServiceGetProperty == Ask
DNSServiceGetPID == Ask
DNSServiceSetDefaultDomainForUser == Ask
DNSServiceReconfirmRecord == Ask

-----------------------------------------------------------------------------
(* DNSServiceRefDeallocate *)

\* What is left of a subordinate: it is out of the list, and it and its records are freed.
FreeDNSServiceOp(s) == next' = Unlinked(next, s) /\ op' = [op EXCEPT ![s] = NoOp]

\* A subordinate: the daemon is told to stop.
Stop(s) == /\ FreeDNSServiceOp(s)
           /\ Write(<<create_hdr("cancel", op[s].uid, 0, op[s].born)>>)

DeallocateSubordinate ==
  /\ Calling /\ conn = "open"
  /\ \E s \in ToSet(next) : Stop(s)
  /\ UNCHANGED <<conn, record, moreptr, result, pending, replies, served, mdns>>

\* The primary: a running DNSServiceProcessResult is told to leave its loop, the connection
\* is closed, and the subordinates and all records are freed.  The daemon stops everything.
DeallocatePrimary ==
  /\ Calling /\ conn = "open"
  /\ result' = IF moreptr THEN [result EXCEPT !.more = FALSE] ELSE result
  /\ conn' = "freed" /\ next' = <<>> /\ op' = [r \in Sub \cup {Primary} |-> NoOp]
  /\ moreptr' = FALSE
  /\ requests' = <<>> /\ replies' = <<>> /\ served' = {}
  /\ UNCHANGED <<record, pending, mdns>>

-----------------------------------------------------------------------------
(* deliver_request: the answer *)

\* The call returns.  A failed request is deallocated; a record that is removed is freed.
Return(error) ==
  /\ pending' = NoCall
  /\ CASE pending.api = "request" /\ error -> Stop(pending.of)
       [] pending.api = "remove" /\ ~error ->
            /\ op' = [op EXCEPT ![pending.of].rec = Unlinked(@, pending.record)]
            /\ UNCHANGED <<next, requests>>
       [] OTHER -> UNCHANGED <<op, next, requests>>
  /\ UNCHANGED <<conn, record, moreptr, result, replies, served, mdns, made>>

Answered == pending.answer # "none" /\ Return(pending.answer = "error")

\* The daemon is gone, or set_waitlimit ends the wait for a slow one, which it does not do
\* for a socket above FD_SETSIZE.
GivesUp ==
  /\ pending # NoCall /\ pending.answer = "none" /\ (mdns = "down" \/ Limited)
  /\ Return(TRUE)

\* The daemon goes when it has connected back: accept fails, and err is the success of
\* set_waitlimit.
AcceptFails ==
  /\ pending.api \notin {"none", "ask"} /\ pending.answer = "none" /\ mdns = "down"
  /\ Return(FALSE)

-----------------------------------------------------------------------------
(* DNSServiceProcessResult and ConnectionResponse *)

\* The subordinate, or the record of the connection, with the uid of a reply.
Addressee(reply) ==
  IF reply.op = "record" THEN SelectSeq(op[Primary].rec, LAMBDA d : record[d].uid = reply.uid)
  ELSE SelectSeq(next, LAMBDA s : op[s].uid = reply.uid)

\* A subordinate that has been cancelled gets no reply, nor does one without ProcessReply.
ConnectionResponse(reply) ==
  /\ Addressee(reply) # <<>>
  /\ reply.op = "record" \/ op[Head(Addressee(reply))].replies

\* A reply is read, and given to its addressee, whose callback may be called (a reply that
\* is too short is dropped).
DNSServiceProcessResult ==
  /\ pending = NoCall /\ conn = "open" /\ replies # <<>>
  /\ result.pc \in {"none", "read"}
  /\ LET more == Len(replies) > 1 \/ mdns = "down" IN
     /\ moreptr' = (moreptr \/ more)
     /\ \E short \in BOOLEAN :
          result' = [pc |-> IF ConnectionResponse(Head(replies)) /\ ~short THEN "callback"
                            ELSE "after",
                     more |-> more]
  /\ replies' = Tail(replies)
  /\ UNCHANGED <<conn, op, next, record, pending, requests, served, mdns,
                 made>>

CallbackReturns ==
  /\ pending = NoCall /\ result.pc = "callback"
  /\ result' = [result EXCEPT !.pc = "after"]
  /\ UNCHANGED <<conn, op, next, record, moreptr, pending, requests, replies,
                 served, mdns, made>>

\* If there is more to read, the primary is touched and the next reply read.
AfterReply ==
  /\ result.pc = "after"
  /\ IF result.more THEN moreptr' = FALSE /\ result' = [result EXCEPT !.pc = "read"]
     ELSE result' = [result EXCEPT !.pc = "none"] /\ UNCHANGED moreptr
  /\ UNCHANGED <<conn, op, next, record, pending, requests, replies, served, mdns, made>>

\* The end of file: the primary gets no further reply.
SharedReadFails ==
  /\ result.pc = "read" /\ replies = <<>>
  /\ result' = [pc |-> "none", more |-> FALSE]
  /\ UNCHANGED <<conn, op, next, record, moreptr, pending, requests, replies,
                 served, mdns, made>>

-----------------------------------------------------------------------------
(* The daemon *)

\* What it does for the connection after a request.
Afterwards(m, good) ==
  CASE m.op \in {"request", "register"} /\ good ->
         served \cup {[op |-> IF m.op = "request" THEN "reply" ELSE "record", uid |-> m.uid,
                       index |-> m.index, born |-> m.born]}
    [] m.op = "cancel" -> {e \in served : e.op # "reply" \/ e.uid # m.uid}
    [] m.op = "remove" /\ good /\ pending.of = Primary ->
         {e \in served : e.op # "record" \/ e.index # m.index}
    [] OTHER -> served

\* A request is done or refused, and answered if the client still waits for that: it makes
\* no second call before.
Serve(good) ==
  /\ mdns = "up" /\ requests # <<>>
  /\ LET m == Head(requests) IN
     /\ served' = Afterwards(m, good)
     /\ pending' = IF pending.api \notin {"none", "ask"} /\ Len(requests) = 1 /\ m.op # "cancel"
                   THEN [pending EXCEPT !.answer = IF good THEN "ok" ELSE "error"]
                   ELSE pending
  /\ requests' = Tail(requests)
  /\ UNCHANGED <<conn, op, next, record, moreptr, result, replies, mdns,
                 made>>

AnswerAsked(good) ==
  /\ mdns = "up" /\ pending.api = "ask" /\ pending.answer = "none"
  /\ pending' = [pending EXCEPT !.answer = IF good THEN "ok" ELSE "error"]
  /\ UNCHANGED <<conn, op, next, record, moreptr, result, requests, replies,
                 served, mdns, made>>

DaemonReplies ==
  /\ mdns = "up" /\ Len(replies) < MaxReplies
  /\ \E e \in served :
       replies' = Append(replies, [op |-> e.op, uid |-> e.uid, born |-> e.born])
  /\ UNCHANGED <<conn, op, next, record, moreptr, result, pending, requests,
                 served, mdns, made>>

DaemonEnds ==
  /\ mdns = "up" /\ mdns' = "down" /\ served' = {} /\ requests' = <<>>
  /\ UNCHANGED <<conn, op, next, record, moreptr, result, pending, replies, made>>

-----------------------------------------------------------------------------
ApplicationCall ==
  \/ DNSServiceCreateConnection
  \/ DNSServiceResolve \/ DNSServiceQueryRecord \/ DNSServiceGetAddrInfo \/ DNSServiceBrowse
  \/ DNSServiceEnumerateDomains \/ DNSServiceNATPortMappingCreate \/ DNSServiceRegister
  \/ DNSServiceRegisterRecord \/ DNSServiceAddRecord
  \/ DNSServiceUpdateRecord \/ DNSServiceRemoveRecord
  \/ DNSServiceGetProperty \/ DNSServiceGetPID
  \/ DNSServiceSetDefaultDomainForUser \/ DNSServiceReconfirmRecord
  \/ DeallocateSubordinate \/ DeallocatePrimary

StubStep == Answered \/ GivesUp \/ AcceptFails \/ DNSServiceProcessResult
            \/ CallbackReturns \/ AfterReply \/ SharedReadFails

DaemonWorks == \E good \in BOOLEAN : Serve(good) \/ AnswerAsked(good)

SharedNext == ApplicationCall \/ StubStep \/ DaemonWorks \/ DaemonReplies \/ DaemonEnds

SharedSpec == SharedInit /\ [][SharedNext]_sharedVars

-----------------------------------------------------------------------------
SharedTypeOK ==
  /\ conn \in {"none", "open", "freed"} /\ next \in Seq(Sub) /\ IsInjective(next)
  /\ op \in [Sub \cup {Primary} ->
               [uid : Nat, rec : Seq(Rec), maxIndex : Nat, replies : BOOLEAN,
                register : BOOLEAN, born : Nat]]
  /\ record \in [Rec -> [uid : Nat, index : Nat, born : Nat]]
  /\ moreptr \in BOOLEAN
  /\ result \in [pc : {"none", "read", "callback", "after"}, more : BOOLEAN]
  /\ pending.of \in Sub \cup {Primary, Nobody} /\ pending.record \in Rec \cup {Nobody}
  /\ mdns \in {"up", "down"} /\ made \in 0..SharedCalls

\* The records of the connection, or the subordinates, that have the uid of a reply.
Named(m) == IF m.op = "record" THEN {d \in ToSet(op[Primary].rec) : record[d].uid = m.uid}
            ELSE {s \in ToSet(next) : op[s].uid = m.uid}

\* A reply that is on its way, or that the daemon may still send, never reaches a callback
\* it is not for: what has its uid is what asked for it, although operations are cancelled,
\* records removed and the memory of both used again.
RepliesReachTheirs ==
  \A m \in ToSet(replies) \cup served : \A to \in Named(m) :
    m.born = IF m.op = "record" THEN record[to].born ELSE op[to].born

\* The daemon does nothing for long that nobody holds a reference to: when it has done all
\* requests, what it serves is an operation or a record of the client.
NothingOrphaned ==
  requests = <<>> => \A e \in served : Named(e) # {}

\* An operation the client holds after its call has returned is one the daemon serves,
\* unless the daemon is gone.
HeldIsServed ==
  \A s \in ToSet(next) :
    pending.of # s /\ mdns # "down" =>
      \E e \in served : e.op = "reply" /\ e.born = op[s].born

\* DNSServiceProcessResult does not touch a connection its callback has freed, and leaves
\* no pointer to its local variable when it has returned.
NothingDangles ==
  /\ (result.pc = "after" /\ result.more) \/ result.pc = "read" => conn = "open"
  /\ moreptr => result.pc # "none"

\* Replies on a shared connection reach the one they are for, the daemon serves what the
\* client holds, and nothing else, and a connection that is freed is not touched.
SharedRefsServed == RepliesReachTheirs /\ NothingOrphaned /\ HeldIsServed /\ NothingDangles

\* Every call returns, if the socket is one that set_waitlimit can limit.
SharedCallsReturn == Limited => (pending # NoCall ~> pending = NoCall)
=============================================================================
