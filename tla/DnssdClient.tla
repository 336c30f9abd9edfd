----------------------------- MODULE DnssdClient -----------------------------
(***************************************************************************)
(* dnssd_clientstub.c, as the discovery thread uses it: references to      *)
(* operations of the mDNS daemon, each on a connection of its own, and     *)
(* DNSServiceProcessResult, which reads replies and calls the callback of  *)
(* the application.  A callback may start and process further operations   *)
(* (calls nest: stack) and may deallocate the reference whose              *)
(* DNSServiceProcessResult is still running.  What the callbacks do is in  *)
(* Discovery; the daemon is external.                                      *)
(***************************************************************************)
EXTENDS Naturals, Sequences, FiniteSets, SequencesExt

CONSTANTS
  Ref,       \* the memory for references
  NullRef,   \* the null reference
  Service,   \* the services in the network
  MaxTries   \* DNSSD_CLIENT_MAXTRIES

ASSUME RefAssumption == NullRef \notin Ref /\ MaxTries \in Nat \ {0}

Op == {"browse", "resolve", "addrinfo"}

VARIABLES
  ref,     \* each DNSServiceOp: live (allocated), op, arg (the service asked about),
           \* moreptr (0, or the call whose morebytes it points to)
  wire,    \* the replies on the connection of each reference, and whether the daemon
           \* has closed it
  stack,   \* the running calls of DNSServiceProcessResult, innermost last: their
           \* reference, morebytes, the reply being handled, and where they are
  query,   \* the operation being started: ConnectToServer and deliver_request
  daemon   \* whether the daemon runs, and whether it does not answer in time

stubVars == <<ref, wire, stack, query, daemon>>

Unused == [live |-> FALSE, op |-> "browse", arg |-> NullRef, moreptr |-> 0]
NoQuery == [pc |-> "none", op |-> "browse", arg |-> NullRef, ref |-> NullRef, tries |-> 0]
NoWire == [msgs |-> <<>>, closed |-> FALSE]

StubInit ==
  /\ ref = [r \in Ref |-> Unused]
  /\ wire = [r \in Ref |-> NoWire]
  /\ stack = <<>> /\ query = NoQuery
  /\ daemon \in {"up", "down"}

Depth == Len(stack)
Top == stack[Depth]
At(pc) == stack # <<>> /\ Top.pc = pc

-----------------------------------------------------------------------------
(* DNSServiceRefDeallocate *)

\* The connection is closed, the memory freed; a DNSServiceProcessResult that works on
\* the reference is told to leave its loop.
Freed(refs, r) == [refs EXCEPT ![r] = Unused]
ToldToStop(calls, refs, r) ==
  IF refs[r].moreptr = 0 THEN calls
  ELSE [calls EXCEPT ![refs[r].moreptr].more = FALSE]
Closed(wires, r) == [wires EXCEPT ![r] = NoWire]

-----------------------------------------------------------------------------
(* DNSServiceBrowse, DNSServiceResolve, DNSServiceGetAddrInfo *)

\* ConnectToServer, up to the first connect: a reference is allocated, if there is memory.
Start(op, arg) ==
  query' = [pc |-> "connect", op |-> op, arg |-> arg, ref |-> NullRef, tries |-> 0]

\* There is no memory: *ref = NULL.
ConnectNoMemory ==
  /\ query.pc = "connect" /\ query.tries = 0 /\ \A r \in Ref : ref[r].live
  /\ query' = [query EXCEPT !.pc = "returned"]
  /\ UNCHANGED <<ref, wire, stack, daemon>>

\* The daemon accepts the connection, and the request is written.  Which of the free
\* references is taken makes no difference.
Connect ==
  /\ query.pc = "connect" /\ daemon # "down" /\ \E r \in Ref : ~ref[r].live
  /\ LET r == CHOOSE r \in Ref : ~ref[r].live IN
     /\ query' = [query EXCEPT !.pc = "deliver", !.ref = r]
     /\ ref' = [ref EXCEPT ![r] = [live |-> TRUE, op |-> query.op, arg |-> query.arg,
                                   moreptr |-> 0]]
  /\ UNCHANGED <<wire, stack, daemon>>

\* Mutant: one try too many.
ConnectRefusedMutant ==
  /\ query.pc = "connect" /\ daemon = "down" /\ \E r \in Ref : ~ref[r].live
  /\ query' = IF query.tries + 1 <= MaxTries THEN [query EXCEPT !.tries = @ + 1]
              ELSE [query EXCEPT !.pc = "returned"]
  /\ UNCHANGED <<ref, wire, stack, daemon>>

\* It does not: wait for a second and try again, or give up with *ref = NULL.
ConnectRefused ==
  /\ query.pc = "connect" /\ daemon = "down" /\ \E r \in Ref : ~ref[r].live
  /\ query' = IF query.tries + 1 < MaxTries THEN [query EXCEPT !.tries = @ + 1]
              ELSE [query EXCEPT !.pc = "returned"]
  /\ UNCHANGED <<ref, wire, stack, daemon>>

\* deliver_request reads the error code the daemon puts before its replies.
Delivered ==
  /\ query.pc = "deliver" /\ wire[query.ref].msgs # <<>>
  /\ wire' = [wire EXCEPT ![query.ref].msgs = Tail(@)]
  /\ query' = [query EXCEPT !.pc = "returned"]
  /\ UNCHANGED <<ref, stack, daemon>>

\* The daemon has closed the connection, or does not answer within 60 seconds: the
\* reference is deallocated and *sdRef = NULL.
DeliverFails ==
  /\ query.pc = "deliver" /\ wire[query.ref].msgs = <<>>
  /\ wire[query.ref].closed \/ daemon = "hung"
  /\ ref' = Freed(ref, query.ref)
  /\ wire' = Closed(wire, query.ref)
  /\ query' = [query EXCEPT !.pc = "returned", !.ref = NullRef]
  /\ UNCHANGED <<stack, daemon>>

-----------------------------------------------------------------------------
(* DNSServiceProcessResult *)

\* A call on a reference that is not NULL; on NULL it returns kDNSServiceErr_BadParam.
Call(r) == [ref |-> r, more |-> FALSE, msg |-> NullRef, pc |-> "read"]

\* read_all returns a reply (it blocks as long as there is none), more_bytes says whether
\* there is more to read, an end of file included, and ProcessReply is called.
ReadReply ==
  /\ At("read") /\ wire[Top.ref].msgs # <<>>
  /\ LET r == Top.ref
         rest == Tail(wire[r].msgs)
         more == rest # <<>> \/ wire[r].closed IN
     /\ wire' = [wire EXCEPT ![r].msgs = rest]
     /\ ref' = IF more THEN [ref EXCEPT ![r].moreptr = Depth] ELSE ref
     /\ stack' = [stack EXCEPT ![Depth] =
                    [@ EXCEPT !.more = more, !.msg = Head(wire[r].msgs), !.pc = "callback"]]
  /\ UNCHANGED <<query, daemon>>

\* read_all fails at the end of file: kDNSServiceErr_ServiceNotRunning.  (ProcessReply
\* is cleared, but no reference is processed again after that.)
ReadFails ==
  /\ At("read") /\ wire[Top.ref].msgs = <<>> /\ wire[Top.ref].closed
  /\ stack' = Front(stack)
  /\ UNCHANGED <<ref, wire, query, daemon>>

\* Mutant: moreptr is left set.
AfterCallbackMutant ==
  /\ At("after")
  /\ stack' = IF Top.more THEN [stack EXCEPT ![Depth].pc = "read"] ELSE Front(stack)
  /\ UNCHANGED <<ref, wire, query, daemon>>

\* The callback has returned.  If it has not deallocated the reference and there was
\* more to read, the next reply is read; else the call returns.
AfterCallback ==
  /\ At("after")
  /\ IF Top.more
     THEN /\ ref' = [ref EXCEPT ![Top.ref].moreptr = 0]
          /\ stack' = [stack EXCEPT ![Depth].pc = "read"]
     ELSE stack' = Front(stack) /\ UNCHANGED ref
  /\ UNCHANGED <<wire, query, daemon>>

ProcessResult == ReadReply \/ AfterCallback
StartOperation == ConnectNoMemory \/ Connect \/ ConnectRefused
                  \/ Delivered \/ DeliverFails

-----------------------------------------------------------------------------
StubTypeOK ==
  /\ ref \in [Ref -> [live : BOOLEAN, op : Op, arg : Service \cup {NullRef},
                      moreptr : Nat]]
  /\ \A c \in ToSet(stack) : /\ c.ref \in Ref /\ c.more \in BOOLEAN
                             /\ c.pc \in {"read", "callback", "waiting", "after"}
  /\ query.pc \in {"none", "connect", "deliver", "returned"}
  /\ query.op \in Op /\ query.ref \in Ref \cup {NullRef} /\ query.tries \in 0..(MaxTries - 1)
  /\ daemon \in {"up", "hung", "down"}

\* Although a callback may deallocate the reference that is being processed, and calls
\* nest, DNSServiceProcessResult never reads from a reference that has been freed, and
\* never writes to one after the callback.
NoUseAfterFree ==
  \A c \in ToSet(stack) : c.pc = "read" \/ c.more => ref[c.ref].live

\* A reference never keeps a pointer to the local variable of a call that has returned
\* or that works on another reference: deallocating it would write to dead memory.
MoreptrOnStack ==
  \A r \in Ref : ref[r].moreptr # 0 =>
    /\ ref[r].live /\ ref[r].moreptr \in DOMAIN stack
    /\ stack[ref[r].moreptr].ref = r /\ stack[ref[r].moreptr].more
=============================================================================
