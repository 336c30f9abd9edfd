----------------------------- MODULE StubProofs -----------------------------
(***************************************************************************)
(* Proofs about dnssd_clientstub.c: that the nested calls of the discovery *)
(* thread use no freed memory and leak none, and that on a shared          *)
(* connection every reply reaches the operation or record it is for.       *)
(***************************************************************************)
EXTENDS SharedConnection, Discovery, FiniteSetTheorems, SequenceTheorems, TLAPS

-----------------------------------------------------------------------------
(* Nested calls: DnssdClient and Discovery *)

\* The records of the stub and of the daemon.
Msg == [service : Service, add : BOOLEAN, answer : {"own", "unread", "negative"}]
CallT == [ref : Ref, more : BOOLEAN, msg : Msg \cup {NullRef},
          pc : {"read", "callback", "waiting", "after"}]
RefT == [live : BOOLEAN, op : Op, arg : Service \cup {NullRef}, moreptr : Nat]
WireT == [msgs : Seq(Msg \cup {NullRef}), closed : BOOLEAN]
QueryT == [pc : {"none", "connect", "deliver", "returned"}, op : Op, arg : Service \cup {NullRef},
           ref : Ref \cup {NullRef}, tries : Nat]

StubTypes ==
  /\ ref \in [Ref -> RefT] /\ wire \in [Ref -> WireT] /\ stack \in Seq(CallT) /\ query \in QueryT
  /\ client \in Ref \cup {NullRef} /\ where \in {"browse", "select", "stop", "done"}
  /\ present \in [Service -> [here : BOOLEAN, times : Nat]]

\* A reply, as the application is told of it.
Told(m) == m \in Msg /\ (m.answer = "unread" => Can("silent"))

\* The running calls: each but the last waits in its callback for what the next one reads.
Nested(i) == ref[stack[i].ref].live /\ i # 1 => ref[stack[i].ref].op \in {"resolve", "addrinfo"}
Calls ==
  /\ \A i \in 1..Len(stack) : i # Len(stack) => stack[i].pc = "waiting"
  /\ \A i, j \in 1..Len(stack) : stack[i].ref = stack[j].ref => i = j
  /\ \A i \in 1..Len(stack) : stack[i].pc # "after" \/ stack[i].more => ref[stack[i].ref].live
  /\ \A i \in 1..Len(stack) : stack[i].more /\ stack[i].pc # "read" => ref[stack[i].ref].moreptr = i
  /\ \A i \in 1..Len(stack) : stack[i].pc \in {"callback", "waiting"} => Told(stack[i].msg)
  /\ \A i \in 1..Len(stack) : Nested(i)
  /\ Len(stack) # 0 => where = "select" /\ stack[1].ref = client

\* Where the moreptr of a reference points to.
Points(r, i) == i \in 1..Len(stack) /\ stack[i].ref = r /\ stack[i].more /\ stack[i].pc # "read"
Pointers == \A r \in Ref : ref[r].moreptr # 0 => ref[r].live /\ Points(r, ref[r].moreptr)

\* The operation that is being started, for the callback that waits or for Run.
Starting ==
  /\ query.pc # "none" =>
       \/ where = "browse" /\ query.op = "browse"
       \/ /\ Len(stack) # 0 /\ stack[Len(stack)].pc = "waiting"
          /\ query.op \in {"resolve", "addrinfo"}
  /\ query.ref # NullRef =>
       /\ query.pc \in {"deliver", "returned"} /\ ref[query.ref].live
       /\ ref[query.ref].op = query.op /\ query.ref # client
       /\ \A i \in 1..Len(stack) : stack[i].ref # query.ref
  /\ query.pc = "deliver" => query.ref # NullRef

Client ==
  /\ where = "browse" => client = NullRef
  /\ client # NullRef /\ where # "done" => ref[client].live /\ ref[client].op = "browse"
  /\ where = "stop" => client # NullRef

\* The error code comes first, and then the replies.
Wires ==
  /\ \A r \in Ref : ~ref[r].live => Len(wire[r].msgs) = 0
  /\ \A r \in Ref : \A i \in 1..Len(wire[r].msgs) :
       Told(wire[r].msgs[i]) \/ (query.pc = "deliver" /\ query.ref = r)
  /\ query.pc = "deliver" => Len(wire[query.ref].msgs) <= 1
  /\ ~Can("die") => \A r \in Ref : ~wire[r].closed

\* Who will free a reference.
Owned(r) == r = client \/ r = query.ref \/ \E i \in 1..Len(stack) : stack[i].ref = r
Freeing ==
  ~Can("silent") /\ ~Can("die") =>
    /\ \A r \in Ref : ref[r].live => Owned(r)
    /\ \A i \in 1..Len(stack) : i # 1 /\ stack[i].pc = "after" => ~ref[stack[i].ref].live

StubInv == StubTypes /\ Calls /\ Pointers /\ Starting /\ Client /\ Wires /\ Freeing

-----------------------------------------------------------------------------
LEMMA StubParts ==
  ASSUME StubInv
  PROVE  StubTypes /\ Calls /\ Pointers /\ Starting /\ Client /\ Wires /\ Freeing
BY DEF StubInv

LEMMA StubTyped ==
  ASSUME StubTypes
  PROVE  /\ ref \in [Ref -> RefT] /\ wire \in [Ref -> WireT] /\ stack \in Seq(CallT)
         /\ query \in QueryT /\ client \in Ref \cup {NullRef}
         /\ where \in {"browse", "select", "stop", "done"} /\ Len(stack) \in Nat
         /\ present \in [Service -> [here : BOOLEAN, times : Nat]]
BY DEF StubTypes

LEMMA RefFields ==
  ASSUME StubTypes, NEW r \in Ref
  PROVE  /\ ref[r] \in RefT /\ ref[r].live \in BOOLEAN /\ ref[r].moreptr \in Nat /\ ref[r].op \in Op
         /\ wire[r] \in WireT /\ wire[r].msgs \in Seq(Msg \cup {NullRef})
         /\ Len(wire[r].msgs) \in Nat /\ wire[r].closed \in BOOLEAN
<1>1. ref[r] \in RefT /\ wire[r] \in WireT
  BY DEF StubTypes
<1> QED BY <1>1 DEF RefT, WireT

LEMMA CallFields ==
  ASSUME StubTypes, NEW i \in 1..Len(stack)
  PROVE  /\ stack[i] \in CallT /\ stack[i].ref \in Ref /\ stack[i].more \in BOOLEAN
         /\ stack[i].pc \in {"read", "callback", "waiting", "after"}
         /\ stack[i].msg \in Msg \cup {NullRef}
<1>1. stack[i] \in CallT
  BY DEF StubTypes
<1> QED BY <1>1 DEF CallT

LEMMA TopIs ==
  ASSUME StubTypes, stack # <<>>
  PROVE  /\ Depth = Len(stack) /\ Len(stack) \in Nat /\ Len(stack) # 0
         /\ Len(stack) \in 1..Len(stack) /\ Top = stack[Len(stack)] /\ 1 \in 1..Len(stack)
<1>1. stack \in Seq(CallT)
  BY StubTyped
<1>2. Len(stack) \in Nat /\ Len(stack) # 0
  BY <1>1, EmptySeq
<1> QED BY <1>2 DEF Depth, Top

\* Another call in place of one.
LEMMA CallSet ==
  ASSUME NEW s \in Seq(CallT), NEW n \in 1..Len(s), NEW c \in CallT
  PROVE  /\ [s EXCEPT ![n] = c] \in Seq(CallT) /\ Len([s EXCEPT ![n] = c]) = Len(s)
         /\ [s EXCEPT ![n] = c][n] = c
         /\ \A i \in 1..Len(s) : i # n => [s EXCEPT ![n] = c][i] = s[i]
OBVIOUS

\* No operation is being started while the innermost call does not wait for one.
LEMMA NoneStarting ==
  ASSUME StubInv, stack # <<>>, Top.pc # "waiting" \/ query.pc = "none"
  PROVE  /\ query.pc = "none" /\ query.ref = NullRef /\ where = "select"
         /\ client \in Ref /\ stack[1].ref = client
<1>1. StubTypes /\ Calls /\ Starting
  BY StubParts
<1>2. Len(stack) # 0 /\ Top = stack[Len(stack)] /\ 1 \in 1..Len(stack)
  BY <1>1, TopIs
<1>3. where = "select" /\ stack[1].ref = client
  BY <1>1, <1>2 DEF Calls
<1>4. client \in Ref
  BY <1>1, <1>2, <1>3, CallFields
<1>5. query.pc = "none"
  BY <1>1, <1>2, <1>3 DEF Starting
<1>6. query.ref = NullRef
  BY <1>1, <1>5 DEF Starting
<1> QED BY <1>3, <1>4, <1>5, <1>6

\* Neither the references nor the calls change.
LEMMA QuietKeeps ==
  ASSUME StubInv, UNCHANGED <<ref, stack, client, where, faults>>, wire' \in [Ref -> WireT],
         query' \in QueryT, present' \in [Service -> [here : BOOLEAN, times : Nat]],
         query'.ref = query.ref, Starting', Wires'
  PROVE  StubInv'
<1>1. StubTypes /\ Calls /\ Pointers /\ Starting /\ Client /\ Wires /\ Freeing
  BY StubParts
<1>2. ref' = ref /\ stack' = stack /\ client' = client /\ where' = where /\ faults' = faults
  OBVIOUS
<1>3. StubTypes'
  BY <1>1, <1>2 DEF StubTypes
<1>4. Calls'
  BY <1>1, <1>2 DEF Calls, Told, Nested, Can
<1>5. Pointers' /\ Client'
  BY <1>1, <1>2 DEF Pointers, Points, Client
<1>6. Freeing'
  BY <1>1, <1>2 DEF Freeing, Owned, Can
<1> QED BY <1>3, <1>4, <1>5, <1>6 DEF StubInv

\* The innermost call goes on: it starts an operation, or its callback returns.
LEMMA TopKeeps ==
  ASSUME StubInv, UNCHANGED <<ref, wire, client, where, faults, present>>, stack # <<>>,
         NEW p \in {"after", "waiting"}, stack' = [stack EXCEPT ![Depth].pc = p],
         Top.pc \in {"callback", "waiting"}, query.pc = "none", query.ref = NullRef,
         query' \in QueryT, query'.ref = NullRef, query'.pc \in {"none", "connect"},
         query'.pc # "none" => p = "waiting" /\ query'.op \in {"resolve", "addrinfo"},
         p = "after" /\ ~Can("silent") => Len(stack) = 1
  PROVE  StubInv'
<1>1. StubTypes /\ Calls /\ Pointers /\ Starting /\ Client /\ Wires /\ Freeing
  BY StubParts
<1>2. PICK n \in Nat : n = Len(stack) /\ n # 0 /\ n \in 1..n /\ 1 \in 1..n /\ Depth = n /\ Top = stack[n]
  BY <1>1, TopIs
<1>3. PICK t \in CallT : t = stack[n] /\ t.pc \in {"callback", "waiting"}
  BY <1>1, <1>2, CallFields
<1> DEFINE c == [t EXCEPT !.pc = p]
<1>4. c \in CallT /\ c.pc = p /\ c.ref = t.ref /\ c.more = t.more /\ c.msg = t.msg
  BY DEF CallT
<1>5. stack' = [stack EXCEPT ![n] = c] /\ stack \in Seq(CallT)
  BY <1>1, <1>2, <1>3, StubTyped
<1> HIDE DEF c
<1>6. stack' \in Seq(CallT) /\ Len(stack') = n /\ stack'[n] = c
      /\ \A i \in 1..n : i # n => stack'[i] = stack[i]
  BY <1>2, <1>4, <1>5, CallSet
<1>7. \A i \in 1..n : stack'[i].ref = stack[i].ref /\ stack'[i].more = stack[i].more
                      /\ stack'[i].msg = stack[i].msg
  BY <1>3, <1>4, <1>6
<1>8. ref' = ref /\ wire' = wire /\ client' = client /\ where' = where /\ faults' = faults
      /\ present' = present
  OBVIOUS
<1>9. StubTypes'
  BY <1>1, <1>6, <1>8 DEF StubTypes
<1>10. Calls'
  <2>1. \A i \in 1..n : i # n => stack'[i].pc = "waiting"
    BY <1>1, <1>2, <1>6 DEF Calls
  <2>2. \A i, j \in 1..n : stack'[i].ref = stack'[j].ref => i = j
    BY <1>1, <1>2, <1>7 DEF Calls
  <2>3. \A i \in 1..n : ref[stack[i].ref].live \/ (i # n /\ stack[i].pc = "after" /\ ~stack[i].more)
    BY <1>1, <1>2, <1>3, CallFields DEF Calls
  <2>4. \A i \in 1..n : stack'[i].pc # "after" \/ stack'[i].more => ref'[stack'[i].ref].live
    <3> SUFFICES ASSUME NEW i \in 1..n, stack'[i].pc # "after" \/ stack'[i].more
                 PROVE  ref[stack[i].ref].live
      BY <1>7, <1>8
    <3>1. CASE i = n
      BY <2>3, <3>1
    <3>2. CASE i # n
      <4>1. stack'[i] = stack[i]
        BY <1>6, <3>2
      <4> QED BY <2>3, <4>1
    <3> QED BY <3>1, <3>2
  <2>5. \A i \in 1..n : stack'[i].more /\ stack'[i].pc # "read" => ref'[stack'[i].ref].moreptr = i
    BY <1>1, <1>2, <1>3, <1>6, <1>7, <1>8 DEF Calls
  <2>6. \A i \in 1..n : stack'[i].pc \in {"callback", "waiting"} => (Told(stack[i].msg))'
    BY <1>1, <1>2, <1>3, <1>6, <1>7, <1>8 DEF Calls, Told, Can
  <2>7. \A i \in 1..n : (Nested(i))'
    BY <1>1, <1>2, <1>7, <1>8 DEF Calls, Nested
  <2>8. where' = "select" /\ stack'[1].ref = client'
    BY <1>1, <1>2, <1>7, <1>8 DEF Calls
  <2> QED BY <1>6, <2>1, <2>2, <2>4, <2>5, <2>6, <2>7, <2>8 DEF Calls
<1>11. Pointers'
  <2>1. ASSUME NEW r \in Ref, NEW k, Points(r, k) PROVE (Points(r, k))'
    BY <1>2, <1>3, <1>4, <1>6, <1>7, <2>1 DEF Points
  <2> QED BY <1>1, <1>8, <2>1 DEF Pointers
<1>12. Starting'
  BY <1>2, <1>4, <1>6 DEF Starting
<1>13. Client'
  BY <1>1, <1>8 DEF Client
<1>14. Wires'
  BY <1>1, <1>8 DEF Wires, Told, Can
<1>15. Freeing'
  <2>1. \A r \in Ref : Owned(r) => (Owned(r))'
    BY <1>2, <1>6, <1>7, <1>8 DEF Owned
  <2>2. ASSUME ~Can("silent"), ~Can("die"), NEW i \in 1..n, i # 1, stack'[i].pc = "after"
        PROVE  ~ref'[stack'[i].ref].live
    <3>1. i # n
      BY <1>2, <1>4, <1>6, <2>2
    <3> QED BY <1>1, <1>2, <1>6, <1>8, <2>2, <3>1 DEF Freeing
  <2> QED BY <1>1, <1>6, <1>8, <2>1, <2>2 DEF Freeing, Can
<1> QED BY <1>9, <1>10, <1>11, <1>12, <1>13, <1>14, <1>15 DEF StubInv

\* The innermost call returns.
LEMMA PopKeeps ==
  ASSUME StubInv, UNCHANGED <<ref, wire, query, client, faults, present>>, stack # <<>>,
         stack' = Front(stack), Top.pc = "read" \/ (Top.pc = "after" /\ ~Top.more),
         where' = where \/ (Len(stack) = 1 /\ where' = "stop"),
         ~Can("silent") /\ ~Can("die") => Len(stack) = 1 \/ ~ref[Top.ref].live
  PROVE  StubInv'
<1>1. StubTypes /\ Calls /\ Pointers /\ Starting /\ Client /\ Wires /\ Freeing
  BY StubParts
<1>2. PICK n \in Nat : n = Len(stack) /\ n # 0 /\ n \in 1..n /\ 1 \in 1..n /\ Depth = n /\ Top = stack[n]
  BY <1>1, TopIs
<1>3. /\ stack' \in Seq(CallT) /\ Len(stack') = n - 1 /\ \A i \in 1..n - 1 : stack'[i] = stack[i]
  <2>1. stack \in Seq(CallT) /\ \A i \in 1..n - 1 : stack[i] \in CallT
    BY <1>1, <1>2, StubTyped
  <2>2. stack' = SubSeq(stack, 1, n - 1)
    BY <1>2 DEF Front
  <2>3. /\ SubSeq(stack, 1, n - 1) \in Seq(CallT)
        /\ Len(SubSeq(stack, 1, n - 1)) = IF 1 <= n - 1 THEN (n - 1) - 1 + 1 ELSE 0
        /\ \A j \in 1..(n - 1) - 1 + 1 : SubSeq(stack, 1, n - 1)[j] = stack[1 + j - 1]
    BY <1>2, <2>1, SubSeqProperties
  <2>4. (IF 1 <= n - 1 THEN (n - 1) - 1 + 1 ELSE 0) = n - 1
    BY <1>2
  <2>5. \A j \in 1..n - 1 : j \in 1..(n - 1) - 1 + 1 /\ 1 + j - 1 = j
    BY <1>2
  <2> QED BY <2>2, <2>3, <2>4, <2>5
<1>4. ref' = ref /\ wire' = wire /\ client' = client /\ faults' = faults /\ query' = query
      /\ present' = present
  OBVIOUS
<1>5. query.pc = "none" /\ query.ref = NullRef /\ where = "select" /\ client \in Ref /\ stack[1].ref = client
  BY NoneStarting
<1>6. \A i \in 1..n - 1 : i \in 1..n /\ i # n
  BY <1>2
<1>7. StubTypes'
  BY <1>1, <1>3, <1>4 DEF StubTypes
<1>8. Calls'
  <2>1. \A i \in 1..n - 1 : stack'[i].pc = "waiting"
    BY <1>1, <1>2, <1>3, <1>6, ZenonT(60) DEF Calls
  <2>2. ASSUME NEW i \in 1..n - 1, NEW j \in 1..n - 1, stack'[i].ref = stack'[j].ref PROVE i = j
    <3>1. i \in 1..n /\ j \in 1..n /\ stack'[i] = stack[i] /\ stack'[j] = stack[j]
      BY <1>3, <1>6
    <3> QED BY <1>1, <1>2, <2>2, <3>1 DEF Calls
  <2>3. \A i \in 1..n - 1 : ref'[stack'[i].ref].live
    BY <1>1, <1>2, <1>3, <1>4, <1>6, <2>1 DEF Calls
  <2>4. \A i \in 1..n - 1 : stack'[i].more /\ stack'[i].pc # "read" => ref'[stack'[i].ref].moreptr = i
    BY <1>1, <1>2, <1>3, <1>4, <1>6, ZenonT(60) DEF Calls
  <2>5. ASSUME NEW i \in 1..n - 1 PROVE (Told(stack[i].msg))'
    <3>1. i \in 1..n /\ stack'[i] = stack[i] /\ stack[i].pc = "waiting"
      BY <1>3, <1>6, <2>1
    <3>2. Told(stack[i].msg)
      BY <1>1, <1>2, <3>1 DEF Calls
    <3> QED BY <1>4, <3>1, <3>2 DEF Told, Can
  <2>6. \A i \in 1..n - 1 : (Nested(i))'
    BY <1>1, <1>2, <1>3, <1>4, <1>6 DEF Calls, Nested
  <2>7. n - 1 # 0 => 1 \in 1..n - 1 /\ where' = "select" /\ stack'[1].ref = client'
    BY <1>2, <1>3, <1>4, <1>5
  <2> QED BY <1>3, <2>1, <2>2, <2>3, <2>4, <2>5, <2>6, <2>7 DEF Calls
<1>9. Pointers'
  <2>1. ASSUME NEW r \in Ref, NEW k, Points(r, k) PROVE (Points(r, k))'
    <3>1. k \in 1..n /\ k # n
      BY <1>2, <2>1 DEF Points
    <3>2. k \in 1..n - 1
      BY <1>2, <3>1
    <3> QED BY <1>3, <2>1, <3>2 DEF Points
  <2> QED BY <1>1, <1>4, <2>1 DEF Pointers
<1>10. Starting'
  BY <1>4, <1>5 DEF Starting
<1>11. Client'
  BY <1>1, <1>4, <1>5, RefAssumption DEF Client
<1>12. Wires'
  BY <1>1, <1>4 DEF Wires, Told, Can
<1>13. Freeing'
  <2>1. ASSUME ~Can("silent"), ~Can("die"), NEW r \in Ref, ref[r].live PROVE (Owned(r))'
    <3>1. r = client \/ \E i \in 1..n : stack[i].ref = r
      BY <1>1, <1>2, <1>5, <2>1, RefAssumption DEF Freeing, Owned
    <3>2. ASSUME NEW i \in 1..n, stack[i].ref = r PROVE r = client \/ i \in 1..n - 1
      BY <1>2, <1>5, <2>1, <3>2
    <3> QED BY <1>3, <1>4, <3>1, <3>2 DEF Owned
  <2>2. \A i \in 1..n - 1 : stack'[i].pc = "waiting"
    BY <1>1, <1>2, <1>3, <1>6 DEF Calls
  <2> QED BY <1>3, <1>4, <2>1, <2>2 DEF Freeing, Can
<1> QED BY <1>7, <1>8, <1>9, <1>10, <1>11, <1>12, <1>13 DEF StubInv

\* DNSServiceProcessResult is called.
LEMMA PushKeeps ==
  ASSUME StubInv, UNCHANGED <<ref, wire, client, where, faults, present>>, NEW q \in Ref,
         stack' = Append(stack, Call(q)), ref[q].live, \A i \in 1..Len(stack) : stack[i].ref # q,
         Len(stack) # 0 => stack[Len(stack)].pc = "waiting" /\ ref[q].op \in {"resolve", "addrinfo"},
         Len(stack) = 0 => q = client /\ where = "select",
         query' \in QueryT, query'.pc = "none", query'.ref = NullRef,
         query.ref \in {NullRef, q}, query.pc # "deliver"
  PROVE  StubInv'
<1>1. StubTypes /\ Calls /\ Pointers /\ Starting /\ Client /\ Wires /\ Freeing
  BY StubParts
<1>2. PICK n \in Nat : n = Len(stack)
  BY <1>1, StubTyped
<1>3. PICK c : c = Call(q)
  OBVIOUS
<1>4. c \in CallT /\ c.ref = q /\ c.more = FALSE /\ c.pc = "read"
  BY <1>3 DEF Call, CallT
<1>5. /\ stack' \in Seq(CallT) /\ Len(stack') = n + 1 /\ stack'[n + 1] = c
      /\ \A i \in 1..n : stack'[i] = stack[i]
  BY <1>1, <1>2, <1>3, <1>4, StubTyped
<1>6. /\ \A i \in 1..n : i \in 1..n + 1 /\ i # n + 1
      /\ \A i \in 1..n + 1 : i \in 1..n \/ i = n + 1
      /\ n + 1 \in 1..n + 1 /\ n + 1 # 0
  BY <1>2
<1>7. ref' = ref /\ wire' = wire /\ client' = client /\ faults' = faults /\ where' = where
      /\ present' = present
  OBVIOUS
<1>8. query' \in QueryT /\ query'.pc = "none" /\ query'.ref = NullRef
  OBVIOUS
<1>9. \A i \in 1..n : stack'[i].pc = "waiting"
  BY <1>1, <1>2, <1>5, <1>6 DEF Calls
<1>10. StubTypes'
  BY <1>1, <1>5, <1>7, <1>8 DEF StubTypes
<1>11. Calls'
  <2>1. \A i \in 1..n + 1 : i # n + 1 => stack'[i].pc = "waiting"
    BY <1>6, <1>9
  <2>2. ASSUME NEW i \in 1..n + 1, NEW j \in 1..n + 1, stack'[i].ref = stack'[j].ref PROVE i = j
    BY <1>1, <1>2, <1>4, <1>5, <1>6, <2>2 DEF Calls
  <2>3. \A i \in 1..n + 1 : ref'[stack'[i].ref].live
    BY <1>1, <1>2, <1>4, <1>5, <1>6, <1>7, <1>9 DEF Calls
  <2>4. \A i \in 1..n + 1 : stack'[i].more /\ stack'[i].pc # "read" => ref'[stack'[i].ref].moreptr = i
    BY <1>1, <1>2, <1>4, <1>5, <1>6, <1>7 DEF Calls
  <2>5. \A i \in 1..n + 1 : stack'[i].pc \in {"callback", "waiting"} => (Told(stack[i].msg))'
    BY <1>1, <1>2, <1>4, <1>5, <1>6, <1>7, <1>9 DEF Calls, Told, Can
  <2>6. \A i \in 1..n + 1 : (Nested(i))'
    BY <1>1, <1>2, <1>4, <1>5, <1>6, <1>7 DEF Calls, Nested
  <2>7. where' = "select" /\ stack'[1].ref = client'
    <3>1. CASE n = 0
      BY <1>2, <1>4, <1>5, <1>7, <3>1
    <3>2. CASE n # 0
      <4>1. 1 \in 1..n
        BY <3>2
      <4> QED BY <1>1, <1>2, <1>5, <1>7, <3>2, <4>1 DEF Calls
    <3> QED BY <3>1, <3>2
  <2> QED BY <1>5, <2>1, <2>2, <2>3, <2>4, <2>5, <2>6, <2>7 DEF Calls
<1>12. Pointers'
  <2>1. ASSUME NEW r \in Ref, NEW k, Points(r, k) PROVE (Points(r, k))'
    BY <1>2, <1>5, <1>6, <2>1 DEF Points
  <2> QED BY <1>1, <1>7, <2>1 DEF Pointers
<1>13. Starting'
  BY <1>8 DEF Starting
<1>14. Client'
  BY <1>1, <1>7 DEF Client
<1>15. Wires'
  BY <1>1, <1>7, <1>8 DEF Wires, Told, Can
<1>16. Freeing'
  <2>1. ASSUME NEW r \in Ref, Owned(r) PROVE (Owned(r))'
    BY <1>2, <1>4, <1>5, <1>6, <1>7, <2>1, RefAssumption DEF Owned
  <2>2. \A i \in 1..n + 1 : stack'[i].pc # "after"
    BY <1>4, <1>5, <1>6, <1>9
  <2> QED BY <1>1, <1>5, <1>7, <2>1, <2>2 DEF Freeing, Can
<1> QED BY <1>10, <1>11, <1>12, <1>13, <1>14, <1>15, <1>16 DEF StubInv

\* A callback deallocates the reference it has been called for, and returns.
LEMMA DeallocatingKeeps ==
  ASSUME StubInv, ReturnDeallocating, stack # <<>>, present' = present,
         Top.pc \in {"callback", "waiting"}, query.pc = "none",
         ref[Top.ref].op \in {"resolve", "addrinfo"}
  PROVE  StubInv'
<1>1. StubTypes /\ Calls /\ Pointers /\ Starting /\ Client /\ Wires /\ Freeing
  BY StubParts
<1>2. PICK n \in Nat : n = Len(stack) /\ n # 0 /\ n \in 1..n /\ 1 \in 1..n /\ Depth = n /\ Top = stack[n]
  BY <1>1, TopIs
<1>3. PICK t \in CallT : t = stack[n] /\ t.pc \in {"callback", "waiting"}
  BY <1>1, <1>2, CallFields
<1>4. PICK r \in Ref : r = t.ref /\ r = Top.ref /\ r = stack[n].ref
  BY <1>1, <1>2, <1>3, CallFields
<1>5. /\ ref' = [ref EXCEPT ![r] = Unused] /\ wire' = [wire EXCEPT ![r] = NoWire]
      /\ stack' = [ToldToStop(stack, ref, r) EXCEPT ![n].pc = "after"]
      /\ query' = query /\ client' = client /\ where' = where /\ faults' = faults
  BY <1>2, <1>4 DEF ReturnDeallocating, Freed, Closed
<1>6. query.ref = NullRef /\ where = "select" /\ client \in Ref /\ stack[1].ref = client
  BY NoneStarting
<1>7. Unused \in RefT /\ ~Unused.live /\ Unused.moreptr = 0 /\ NoWire \in WireT /\ Len(NoWire.msgs) = 0
      /\ ~NoWire.closed
  BY DEF Unused, RefT, NoWire, WireT, Op
<1>8. /\ ref' \in [Ref -> RefT] /\ wire' \in [Ref -> WireT] /\ ref'[r] = Unused /\ wire'[r] = NoWire
      /\ \A q \in Ref : q # r => ref'[q] = ref[q] /\ wire'[q] = wire[q]
  BY <1>1, <1>5, <1>7, StubTyped
<1> DEFINE c == [t EXCEPT !.more = FALSE, !.pc = "after"]
<1>9. c \in CallT /\ c.pc = "after" /\ c.ref = r /\ c.more = FALSE /\ c.msg = t.msg
  BY <1>4 DEF CallT
<1>10. stack' = [stack EXCEPT ![n] = c] /\ stack \in Seq(CallT)
  <2>1. stack \in Seq(CallT)
    BY <1>1, StubTyped
  <2>2. CASE ref[r].moreptr = 0
    <3>1. ~t.more
      BY <1>1, <1>2, <1>3, <1>4, <2>2 DEF Calls
    <3>2. t.more = FALSE
      BY <3>1 DEF CallT
    <3>3. [t EXCEPT !.pc = "after"] = c
      BY <3>2 DEF CallT
    <3>4. stack' = [stack EXCEPT ![n].pc = "after"]
      BY <1>5, <2>2 DEF ToldToStop
    <3>5. stack' = [stack EXCEPT ![n] = [t EXCEPT !.pc = "after"]]
      BY <1>2, <1>3, <2>1, <3>4
    <3> QED BY <2>1, <3>3, <3>5
  <2>3. CASE ref[r].moreptr # 0
    <3>1. PICK k : k = ref[r].moreptr
      OBVIOUS
    <3>2. k \in 1..n /\ stack[k].ref = r
      BY <1>1, <1>2, <2>3, <3>1 DEF Pointers, Points
    <3>3. k = n
      BY <1>1, <1>2, <1>4, <3>2 DEF Calls
    <3>4. stack' = [[stack EXCEPT ![n].more = FALSE] EXCEPT ![n].pc = "after"]
      BY <1>5, <2>3, <3>1, <3>3 DEF ToldToStop
    <3> DEFINE d == [t EXCEPT !.more = FALSE]
    <3>5. d \in CallT /\ [d EXCEPT !.pc = "after"] = c
      BY DEF CallT
    <3>6. stack' = [[stack EXCEPT ![n] = d] EXCEPT ![n].pc = "after"]
      BY <1>2, <1>3, <2>1, <3>4
    <3> HIDE DEF d, c
    <3>7. stack' = [stack EXCEPT ![n] = [d EXCEPT !.pc = "after"]]
      BY <1>2, <2>1, <3>5, <3>6
    <3> QED BY <2>1, <3>5, <3>7
  <2> QED BY <2>2, <2>3
<1> HIDE DEF c
<1>11. stack' \in Seq(CallT) /\ Len(stack') = n /\ stack'[n] = c
       /\ \A i \in 1..n : i # n => stack'[i] = stack[i]
  BY <1>2, <1>9, <1>10, CallSet
<1>12. \A i \in 1..n : stack'[i].ref = stack[i].ref /\ stack[i].ref \in Ref
  BY <1>1, <1>2, <1>4, <1>9, <1>11, CallFields
<1>13. \A i \in 1..n : i # n => stack[i].ref # r
  BY <1>1, <1>2, <1>4 DEF Calls
<1>14. client # r
  <2>1. ref[client].op = "browse"
    BY <1>1, <1>6, RefAssumption DEF Client
  <2> QED BY <1>4, <2>1
<1>15. StubTypes'
  BY <1>1, <1>5, <1>8, <1>11 DEF StubTypes
<1>16. Calls'
  <2>1. \A i \in 1..n : i # n => stack'[i].pc = "waiting"
    BY <1>1, <1>2, <1>11 DEF Calls
  <2>2. \A i, j \in 1..n : stack'[i].ref = stack'[j].ref => i = j
    BY <1>1, <1>2, <1>12 DEF Calls
  <2>3. \A i \in 1..n : stack'[i].pc # "after" \/ stack'[i].more => ref'[stack'[i].ref].live
    <3> SUFFICES ASSUME NEW i \in 1..n, stack'[i].pc # "after" \/ stack'[i].more
                 PROVE  ref'[stack'[i].ref].live
      OBVIOUS
    <3>1. i # n
      BY <1>9, <1>11
    <3>2. ref'[stack'[i].ref] = ref[stack[i].ref] /\ stack'[i] = stack[i]
      BY <1>8, <1>11, <1>12, <1>13, <3>1
    <3> QED BY <1>1, <1>2, <3>2 DEF Calls
  <2>4. \A i \in 1..n : stack'[i].more /\ stack'[i].pc # "read" => ref'[stack'[i].ref].moreptr = i
    <3> SUFFICES ASSUME NEW i \in 1..n, stack'[i].more, stack'[i].pc # "read"
                 PROVE  ref'[stack'[i].ref].moreptr = i
      OBVIOUS
    <3>1. i # n
      BY <1>9, <1>11
    <3>2. ref'[stack'[i].ref] = ref[stack[i].ref] /\ stack'[i] = stack[i]
      BY <1>8, <1>11, <1>12, <1>13, <3>1
    <3> QED BY <1>1, <1>2, <3>2 DEF Calls
  <2>5. \A i \in 1..n : stack'[i].pc \in {"callback", "waiting"} => (Told(stack[i].msg))'
    BY <1>1, <1>2, <1>5, <1>9, <1>11 DEF Calls, Told, Can
  <2>6. ASSUME NEW i \in 1..n PROVE (Nested(i))'
    <3>1. CASE i = n
      BY <1>4, <1>7, <1>8, <1>12, <3>1 DEF Nested
    <3>2. CASE i # n
      <4>1. ref'[stack'[i].ref] = ref[stack[i].ref]
        BY <1>8, <1>12, <1>13, <3>2
      <4> QED BY <1>1, <1>2, <4>1 DEF Calls, Nested
    <3> QED BY <3>1, <3>2
  <2>7. where' = "select" /\ stack'[1].ref = client'
    BY <1>2, <1>5, <1>6, <1>12
  <2> QED BY <1>11, <2>1, <2>2, <2>3, <2>4, <2>5, <2>6, <2>7 DEF Calls
<1>17. Pointers'
  <2> SUFFICES ASSUME NEW q \in Ref, ref'[q].moreptr # 0
               PROVE  ref'[q].live /\ (Points(q, ref[q].moreptr))'
    BY DEF Pointers
  <2>1. q # r /\ ref'[q] = ref[q]
    BY <1>7, <1>8
  <2>2. PICK k : k = ref[q].moreptr
    OBVIOUS
  <2>3. ref[q].live /\ Points(q, k)
    BY <1>1, <2>1, <2>2 DEF Pointers
  <2>4. k \in 1..n /\ k # n
    BY <1>2, <1>4, <2>1, <2>3 DEF Points
  <2>5. (Points(q, k))'
    BY <1>2, <1>11, <2>3, <2>4 DEF Points
  <2> QED BY <2>1, <2>2, <2>3, <2>5
<1>18. Starting'
  BY <1>5, <1>6 DEF Starting
<1>19. Client'
  BY <1>1, <1>5, <1>6, <1>8, <1>14 DEF Client
<1>20. Wires'
  <2>1. ASSUME NEW q \in Ref PROVE (~ref[q].live => Len(wire[q].msgs) = 0)' /\ (~Can("die") => ~wire'[q].closed)
                                   /\ \A i \in 1..Len(wire'[q].msgs) : (Told(wire[q].msgs[i]))'
    <3>1. CASE q = r
      BY <1>7, <1>8, <3>1
    <3>2. CASE q # r
      BY <1>1, <1>5, <1>8, <3>2 DEF Wires, Told, Can
    <3> QED BY <3>1, <3>2
  <2> QED BY <1>5, <2>1 DEF Wires, Can
<1>21. Freeing'
  <2>1. ASSUME NEW q \in Ref, Owned(q) PROVE (Owned(q))'
    BY <1>2, <1>5, <1>11, <1>12, <2>1 DEF Owned
  <2>2. ASSUME NEW q \in Ref, ref'[q].live PROVE ref[q].live
    BY <1>7, <1>8, <2>2
  <2>3. ASSUME NEW i \in 1..n, stack'[i].pc = "after" PROVE ~ref'[stack'[i].ref].live
    <3>1. i = n
      BY <1>1, <1>2, <1>11, <2>3 DEF Calls
    <3> QED BY <1>4, <1>7, <1>8, <1>12, <3>1
  <2> QED BY <1>1, <1>5, <1>11, <2>1, <2>2, <2>3 DEF Freeing, Can
<1> QED BY <1>15, <1>16, <1>17, <1>18, <1>19, <1>20, <1>21 DEF StubInv

-----------------------------------------------------------------------------
\* A reply is read.
LEMMA ReadReplyKeeps ==
  ASSUME StubInv, ReadReply, UNCHANGED <<client, where, faults, present>> PROVE StubInv'
<1>1. StubTypes /\ Calls /\ Pointers /\ Starting /\ Client /\ Wires /\ Freeing
  BY StubParts
<1>2. stack # <<>> /\ Top.pc = "read" /\ wire[Top.ref].msgs # <<>>
  BY DEF ReadReply, At
<1>3. PICK n \in Nat : n = Len(stack) /\ n # 0 /\ n \in 1..n /\ 1 \in 1..n /\ Depth = n /\ Top = stack[n]
  BY <1>1, <1>2, TopIs
<1>4. PICK t \in CallT : t = stack[n] /\ t.pc = "read"
  BY <1>1, <1>2, <1>3, CallFields
<1>5. PICK r \in Ref : r = t.ref /\ r = Top.ref /\ r = stack[n].ref
  BY <1>1, <1>3, <1>4, CallFields
<1>6. PICK o \in RefT : o = ref[r]
  BY <1>1, RefFields
<1>7. PICK w \in WireT : w = wire[r] /\ w.msgs \in Seq(Msg \cup {NullRef}) /\ w.msgs # <<>>
  BY <1>1, <1>2, <1>5, RefFields
<1>8. PICK rest : rest = Tail(w.msgs)
  OBVIOUS
<1>9. PICK m : m = Head(w.msgs)
  OBVIOUS
<1>10. PICK more \in BOOLEAN : more = (rest # <<>> \/ w.closed)
  OBVIOUS
<1> DEFINE c == [t EXCEPT !.more = more, !.msg = m, !.pc = "callback"]
           v == [w EXCEPT !.msgs = rest]
           q == [o EXCEPT !.moreptr = n]
<1>11. /\ wire' = [wire EXCEPT ![r].msgs = rest]
       /\ ref' = IF more THEN [ref EXCEPT ![r].moreptr = n] ELSE ref
       /\ stack' = [stack EXCEPT ![n] = [@ EXCEPT !.more = more, !.msg = m, !.pc = "callback"]]
       /\ query' = query /\ client' = client /\ where' = where /\ faults' = faults
       /\ present' = present
  BY <1>3, <1>5, <1>7, <1>8, <1>9, <1>10 DEF ReadReply
<1>12. query.pc = "none" /\ query.ref = NullRef /\ where = "select" /\ client \in Ref /\ stack[1].ref = client
  BY <1>2, NoneStarting
<1>13. /\ rest \in Seq(Msg \cup {NullRef}) /\ m \in Msg \cup {NullRef} /\ Told(m)
       /\ Len(rest) = Len(w.msgs) - 1 /\ Len(w.msgs) \in Nat
       /\ \A i \in 1..Len(rest) : rest[i] = w.msgs[i + 1] /\ i + 1 \in 1..Len(w.msgs)
  <2>1. Len(w.msgs) \in Nat /\ Len(w.msgs) # 0
    BY <1>7, EmptySeq
  <2>2. /\ rest \in Seq(Msg \cup {NullRef}) /\ Len(rest) = Len(w.msgs) - 1 /\ m = w.msgs[1]
        /\ \A i \in 1..Len(w.msgs) - 1 : rest[i] = w.msgs[i + 1]
    BY <1>7, <1>8, <1>9, <2>1
  <2>3. 1 \in 1..Len(w.msgs) /\ \A i \in 1..Len(w.msgs) - 1 : i + 1 \in 1..Len(w.msgs)
    BY <2>1
  <2>4. m \in Msg \cup {NullRef}
    BY <1>7, <2>2, <2>3
  <2>5. Told(m)
    BY <1>1, <1>7, <1>12, <2>2, <2>3 DEF Wires
  <2> QED BY <2>1, <2>2, <2>3, <2>4, <2>5
<1>14. c \in CallT /\ c.pc = "callback" /\ c.ref = r /\ c.more = more /\ c.msg = m
  BY <1>5, <1>13 DEF CallT
<1>15. v \in WireT /\ v.msgs = rest /\ v.closed = w.closed
  BY <1>13 DEF WireT
<1>16. q \in RefT /\ q.moreptr = n /\ q.live = o.live /\ q.op = o.op
  BY DEF RefT
<1>17. /\ stack' = [stack EXCEPT ![n] = c] /\ stack \in Seq(CallT)
       /\ wire' = [wire EXCEPT ![r] = v] /\ wire \in [Ref -> WireT]
       /\ ref' = (IF more THEN [ref EXCEPT ![r] = q] ELSE ref) /\ ref \in [Ref -> RefT]
  <2>1. stack \in Seq(CallT) /\ wire \in [Ref -> WireT] /\ ref \in [Ref -> RefT]
    BY <1>1, StubTyped
  <2> QED BY <1>3, <1>4, <1>6, <1>7, <1>11, <2>1
<1> HIDE DEF c, v, q
<1>18. stack' \in Seq(CallT) /\ Len(stack') = n /\ stack'[n] = c
       /\ \A i \in 1..n : i # n => stack'[i] = stack[i]
  BY <1>3, <1>14, <1>17, CallSet
<1>19. /\ wire' \in [Ref -> WireT] /\ wire'[r] = v /\ \A p \in Ref : p # r => wire'[p] = wire[p]
       /\ ref' \in [Ref -> RefT] /\ ref'[r] = IF more THEN q ELSE o
       /\ \A p \in Ref : p # r => ref'[p] = ref[p]
  BY <1>6, <1>15, <1>16, <1>17
<1>20. \A p \in Ref : ref'[p].live = ref[p].live /\ ref'[p].op = ref[p].op
  BY <1>6, <1>16, <1>19
<1>21. \A i \in 1..n : stack'[i].ref = stack[i].ref /\ stack[i].ref \in Ref
  BY <1>1, <1>3, <1>5, <1>14, <1>18, CallFields
<1>22. \A i \in 1..n : i # n => stack[i].ref # r
  BY <1>1, <1>3, <1>5 DEF Calls
<1>23. ref[r].moreptr = 0
  <2>1. PICK k : k = ref[r].moreptr
    OBVIOUS
  <2>2. SUFFICES ASSUME k # 0 PROVE FALSE
    BY <2>1
  <2>3. Points(r, k)
    BY <1>1, <2>1, <2>2 DEF Pointers
  <2>4. k = n
    BY <1>3, <1>22, <2>3 DEF Points
  <2> QED BY <1>4, <2>3, <2>4 DEF Points
<1>24. StubTypes'
  BY <1>1, <1>11, <1>18, <1>19 DEF StubTypes
<1>25. Calls'
  <2>1. \A i \in 1..n : i # n => stack'[i].pc = "waiting"
    BY <1>1, <1>3, <1>18 DEF Calls
  <2>2. \A i, j \in 1..n : stack'[i].ref = stack'[j].ref => i = j
    BY <1>1, <1>3, <1>21 DEF Calls
  <2>3. ASSUME NEW i \in 1..n PROVE ref'[stack'[i].ref].live
    <3>1. stack[i].pc # "after"
      BY <1>1, <1>3, <1>4 DEF Calls
    <3> QED BY <1>1, <1>3, <1>20, <1>21, <3>1 DEF Calls
  <2>4. ASSUME NEW i \in 1..n, stack'[i].more, stack'[i].pc # "read" PROVE ref'[stack'[i].ref].moreptr = i
    <3>1. CASE i = n
      BY <1>5, <1>14, <1>16, <1>18, <1>19, <1>21, <2>4, <3>1
    <3>2. CASE i # n
      <4>1. ref'[stack'[i].ref] = ref[stack[i].ref] /\ stack'[i] = stack[i]
        BY <1>18, <1>19, <1>21, <1>22, <3>2
      <4> QED BY <1>1, <1>3, <2>4, <4>1 DEF Calls
    <3> QED BY <3>1, <3>2
  <2>5. \A i \in 1..n : stack'[i].pc \in {"callback", "waiting"} => (Told(stack[i].msg))'
    BY <1>1, <1>3, <1>11, <1>13, <1>14, <1>18 DEF Calls, Told, Can
  <2>6. \A i \in 1..n : (Nested(i))'
    BY <1>1, <1>3, <1>20, <1>21 DEF Calls, Nested
  <2>7. where' = "select" /\ stack'[1].ref = client'
    BY <1>3, <1>11, <1>12, <1>21
  <2> QED BY <1>18, <2>1, <2>2, <2>3, <2>4, <2>5, <2>6, <2>7 DEF Calls
<1>26. Pointers'
  <2> SUFFICES ASSUME NEW p \in Ref, ref'[p].moreptr # 0
               PROVE  ref'[p].live /\ (Points(p, ref[p].moreptr))'
    BY DEF Pointers
  <2>1. CASE p = r
    <3>1. more /\ ref'[p].moreptr = n
      BY <1>6, <1>16, <1>19, <1>23, <2>1
    <3>2. ref'[p].live
      BY <1>1, <1>3, <1>4, <1>5, <1>20, <2>1 DEF Calls
    <3>3. (Points(p, n))'
      BY <1>3, <1>14, <1>18, <2>1, <3>1 DEF Points
    <3> QED BY <3>1, <3>2, <3>3
  <2>2. CASE p # r
    <3>1. ref'[p] = ref[p]
      BY <1>19, <2>2
    <3>2. PICK k : k = ref[p].moreptr
      OBVIOUS
    <3>3. ref[p].live /\ Points(p, k)
      BY <1>1, <3>1, <3>2 DEF Pointers
    <3>4. k \in 1..n /\ k # n
      BY <1>3, <1>5, <2>2, <3>3 DEF Points
    <3>5. (Points(p, k))'
      BY <1>3, <1>18, <3>3, <3>4 DEF Points
    <3> QED BY <3>1, <3>2, <3>3, <3>5
  <2> QED BY <2>1, <2>2
<1>27. Starting'
  BY <1>11, <1>12 DEF Starting
<1>28. Client'
  BY <1>1, <1>11, <1>12, <1>20 DEF Client
<1>29. Wires'
  <2>1. ASSUME NEW p \in Ref PROVE (~ref[p].live => Len(wire[p].msgs) = 0)' /\ (~Can("die") => ~wire'[p].closed)
                                   /\ \A i \in 1..Len(wire'[p].msgs) : (Told(wire[p].msgs[i]))'
    <3>1. CASE p = r
      <4>1. ref'[p].live
        BY <1>1, <1>3, <1>4, <1>5, <1>20, <3>1 DEF Calls
      <4>2. ~Can("die") => ~wire'[p].closed
        BY <1>1, <1>7, <1>15, <1>19, <3>1 DEF Wires
      <4>3. ASSUME NEW i \in 1..Len(wire'[p].msgs) PROVE (Told(wire[p].msgs[i]))'
        <5>1. i \in 1..Len(rest) /\ wire'[p].msgs[i] = rest[i]
          BY <1>15, <1>19, <3>1, <4>3
        <5>2. Told(rest[i])
          BY <1>1, <1>7, <1>12, <1>13, <5>1 DEF Wires
        <5> QED BY <1>11, <5>1, <5>2 DEF Told, Can
      <4> QED BY <4>1, <4>2, <4>3
    <3>2. CASE p # r
      BY <1>1, <1>11, <1>12, <1>19, <3>2 DEF Wires, Told, Can
    <3> QED BY <3>1, <3>2
  <2> QED BY <1>11, <1>12, <2>1 DEF Wires, Can
<1>30. Freeing'
  <2>1. ASSUME NEW p \in Ref, Owned(p) PROVE (Owned(p))'
    BY <1>3, <1>11, <1>18, <1>21, <2>1 DEF Owned
  <2>2. \A i \in 1..n : stack'[i].pc # "after"
    BY <1>1, <1>3, <1>14, <1>18 DEF Calls
  <2> QED BY <1>1, <1>11, <1>18, <1>20, <2>1, <2>2 DEF Freeing, Can
<1> QED BY <1>24, <1>25, <1>26, <1>27, <1>28, <1>29, <1>30 DEF StubInv

\* The callback has returned, and there is more to read.
LEMMA AgainKeeps ==
  ASSUME StubInv, At("after"), Top.more, UNCHANGED <<wire, query, client, where, faults, present>>,
         ref' = [ref EXCEPT ![Top.ref].moreptr = 0], stack' = [stack EXCEPT ![Depth].pc = "read"]
  PROVE  StubInv'
<1>1. StubTypes /\ Calls /\ Pointers /\ Starting /\ Client /\ Wires /\ Freeing
  BY StubParts
<1>2. stack # <<>> /\ Top.pc = "after"
  BY DEF At
<1>3. PICK n \in Nat : n = Len(stack) /\ n # 0 /\ n \in 1..n /\ 1 \in 1..n /\ Depth = n /\ Top = stack[n]
  BY <1>1, <1>2, TopIs
<1>4. PICK t \in CallT : t = stack[n] /\ t.pc = "after" /\ t.more
  BY <1>1, <1>2, <1>3, CallFields
<1>5. PICK r \in Ref : r = t.ref /\ r = Top.ref /\ r = stack[n].ref
  BY <1>1, <1>3, <1>4, CallFields
<1>6. PICK o \in RefT : o = ref[r]
  BY <1>1, RefFields
<1> DEFINE c == [t EXCEPT !.pc = "read"]
           q == [o EXCEPT !.moreptr = 0]
<1>7. c \in CallT /\ c.pc = "read" /\ c.ref = r /\ c.more = t.more /\ c.msg = t.msg
  BY <1>5 DEF CallT
<1>8. q \in RefT /\ q.moreptr = 0 /\ q.live = o.live /\ q.op = o.op
  BY DEF RefT
<1>9. /\ stack' = [stack EXCEPT ![n] = c] /\ stack \in Seq(CallT)
      /\ ref' = [ref EXCEPT ![r] = q] /\ ref \in [Ref -> RefT]
  <2>1. stack \in Seq(CallT) /\ ref \in [Ref -> RefT]
    BY <1>1, StubTyped
  <2> QED BY <1>3, <1>4, <1>5, <1>6, <2>1
<1> HIDE DEF c, q
<1>10. stack' \in Seq(CallT) /\ Len(stack') = n /\ stack'[n] = c
       /\ \A i \in 1..n : i # n => stack'[i] = stack[i]
  BY <1>3, <1>7, <1>9, CallSet
<1>11. /\ ref' \in [Ref -> RefT] /\ ref'[r] = q /\ \A p \in Ref : p # r => ref'[p] = ref[p]
       /\ \A p \in Ref : ref'[p].live = ref[p].live /\ ref'[p].op = ref[p].op
  BY <1>6, <1>8, <1>9
<1>12. \A i \in 1..n : stack'[i].ref = stack[i].ref /\ stack[i].ref \in Ref
  BY <1>1, <1>3, <1>5, <1>7, <1>10, CallFields
<1>13. \A i \in 1..n : i # n => stack[i].ref # r
  BY <1>1, <1>3, <1>5 DEF Calls
<1>14. wire' = wire /\ query' = query /\ client' = client /\ where' = where /\ faults' = faults
       /\ present' = present
  OBVIOUS
<1>15. query.pc = "none" /\ query.ref = NullRef /\ where = "select" /\ client \in Ref /\ stack[1].ref = client
  BY <1>2, NoneStarting
<1>16. StubTypes'
  BY <1>1, <1>10, <1>11, <1>14 DEF StubTypes
<1>17. Calls'
  <2>1. \A i \in 1..n : i # n => stack'[i].pc = "waiting"
    BY <1>1, <1>3, <1>10 DEF Calls
  <2>2. \A i, j \in 1..n : stack'[i].ref = stack'[j].ref => i = j
    BY <1>1, <1>3, <1>12 DEF Calls
  <2>3. ASSUME NEW i \in 1..n PROVE ref'[stack'[i].ref].live
    <3>1. stack[i].pc # "after" \/ stack[i].more
      BY <1>1, <1>3, <1>4 DEF Calls
    <3> QED BY <1>1, <1>3, <1>11, <1>12, <3>1 DEF Calls
  <2>4. ASSUME NEW i \in 1..n, stack'[i].more, stack'[i].pc # "read" PROVE ref'[stack'[i].ref].moreptr = i
    <3>1. i # n
      BY <1>7, <1>10, <2>4
    <3>2. ref'[stack'[i].ref] = ref[stack[i].ref] /\ stack'[i] = stack[i]
      BY <1>10, <1>11, <1>12, <1>13, <3>1
    <3> QED BY <1>1, <1>3, <2>4, <3>2 DEF Calls
  <2>5. \A i \in 1..n : stack'[i].pc \in {"callback", "waiting"} => (Told(stack[i].msg))'
    BY <1>1, <1>3, <1>7, <1>10, <1>14 DEF Calls, Told, Can
  <2>6. \A i \in 1..n : (Nested(i))'
    BY <1>1, <1>3, <1>11, <1>12 DEF Calls, Nested
  <2>7. where' = "select" /\ stack'[1].ref = client'
    BY <1>3, <1>12, <1>14, <1>15
  <2> QED BY <1>10, <2>1, <2>2, <2>3, <2>4, <2>5, <2>6, <2>7 DEF Calls
<1>18. Pointers'
  <2> SUFFICES ASSUME NEW p \in Ref, ref'[p].moreptr # 0
               PROVE  ref'[p].live /\ (Points(p, ref[p].moreptr))'
    BY DEF Pointers
  <2>1. p # r /\ ref'[p] = ref[p]
    BY <1>8, <1>11
  <2>2. PICK k : k = ref[p].moreptr
    OBVIOUS
  <2>3. ref[p].live /\ Points(p, k)
    BY <1>1, <2>1, <2>2 DEF Pointers
  <2>4. k \in 1..n /\ k # n
    BY <1>3, <1>5, <2>1, <2>3 DEF Points
  <2>5. (Points(p, k))'
    BY <1>3, <1>10, <2>3, <2>4 DEF Points
  <2> QED BY <2>1, <2>2, <2>3, <2>5
<1>19. Starting'
  BY <1>14, <1>15 DEF Starting
<1>20. Client'
  BY <1>1, <1>11, <1>14, <1>15 DEF Client
<1>21. Wires'
  BY <1>1, <1>11, <1>14 DEF Wires, Told, Can
<1>22. Freeing'
  <2>1. ASSUME NEW p \in Ref, Owned(p) PROVE (Owned(p))'
    BY <1>3, <1>10, <1>12, <1>14, <2>1 DEF Owned
  <2>2. \A i \in 1..n : stack'[i].pc # "after"
    BY <1>1, <1>3, <1>7, <1>10 DEF Calls
  <2> QED BY <1>1, <1>10, <1>11, <1>14, <2>1, <2>2 DEF Freeing, Can
<1> QED BY <1>16, <1>17, <1>18, <1>19, <1>20, <1>21, <1>22 DEF StubInv

-----------------------------------------------------------------------------
\* While an operation is being started every reference that is processed is allocated.
LEMMA LiveCalls ==
  ASSUME StubInv, query.pc # "none"
  PROVE  \A i \in 1..Len(stack) : ref[stack[i].ref].live /\ stack[i].pc = "waiting"
<1>1. StubTypes /\ Calls /\ Starting
  BY StubParts
<1>2. ASSUME NEW i \in 1..Len(stack) PROVE stack[i].pc = "waiting"
  <2>1. Len(stack) # 0
    BY <1>1, StubTyped
  <2>2. where = "select"
    BY <1>1, <2>1 DEF Calls
  <2>3. stack[Len(stack)].pc = "waiting"
    BY <1>1, <2>2 DEF Starting
  <2> QED BY <1>1, <2>3 DEF Calls
<1> QED BY <1>1, <1>2 DEF Calls

\* A reference is allocated.
LEMMA ConnectKeeps ==
  ASSUME StubInv, Connect, UNCHANGED <<client, where, faults, present>> PROVE StubInv'
<1>1. StubTypes /\ Calls /\ Pointers /\ Starting /\ Client /\ Wires /\ Freeing
  BY StubParts
<1>2. PICK r \in Ref : ~ref[r].live /\ r = CHOOSE x \in Ref : ~ref[x].live
  BY DEF Connect
<1>3. PICK k \in QueryT : k = query /\ k.pc = "connect"
  BY <1>1, StubTyped DEF Connect
<1> DEFINE q == [k EXCEPT !.pc = "deliver", !.ref = r]
           o == [live |-> TRUE, op |-> k.op, arg |-> k.arg, moreptr |-> 0]
<1>4. /\ query' = q /\ ref' = [ref EXCEPT ![r] = o] /\ wire' = wire /\ stack' = stack
      /\ client' = client /\ where' = where /\ faults' = faults /\ present' = present
  BY <1>2, <1>3 DEF Connect
<1>5. q \in QueryT /\ q.pc = "deliver" /\ q.ref = r /\ q.op = k.op
  BY DEF QueryT
<1>6. o \in RefT /\ o.live /\ o.op = k.op /\ o.moreptr = 0
  BY DEF RefT, QueryT
<1> HIDE DEF q, o
<1>7. /\ ref' \in [Ref -> RefT] /\ ref'[r] = o /\ \A p \in Ref : p # r => ref'[p] = ref[p]
  BY <1>1, <1>4, <1>6, StubTyped
<1>8. query.ref = NullRef /\ r # NullRef
  BY <1>1, <1>3, RefAssumption DEF Starting
<1>9. \A i \in 1..Len(stack) : stack[i].ref # r /\ stack[i].ref \in Ref /\ ref'[stack[i].ref] = ref[stack[i].ref]
  BY <1>1, <1>2, <1>3, <1>7, LiveCalls, CallFields
<1>10. client # r /\ where # "done"
  <2>1. where = "browse" \/ Len(stack) # 0
    BY <1>1, <1>3 DEF Starting
  <2>2. where \in {"browse", "select"}
    BY <1>1, <2>1 DEF Calls
  <2> QED BY <1>1, <1>2, <1>8, <2>2 DEF Client
<1>11. StubTypes'
  BY <1>1, <1>4, <1>5, <1>7 DEF StubTypes
<1>12. Calls'
  BY <1>1, <1>4, <1>9 DEF Calls, Nested, Told, Can
<1>13. Pointers'
  BY <1>1, <1>4, <1>6, <1>7 DEF Pointers, Points
<1>14. Starting'
  BY <1>1, <1>3, <1>4, <1>5, <1>6, <1>7, <1>8, <1>9, <1>10 DEF Starting
<1>15. Client'
  <2>1. client # NullRef => client \in Ref
    BY <1>1, StubTyped
  <2> QED BY <1>1, <1>4, <1>7, <1>10, <2>1 DEF Client
<1>16. Wires'
  <2>1. Len(wire[r].msgs) = 0
    BY <1>1, <1>2 DEF Wires
  <2>2. ASSUME NEW p \in Ref PROVE (~ref[p].live => Len(wire[p].msgs) = 0)' /\ (~Can("die") => ~wire'[p].closed)
                                   /\ \A i \in 1..Len(wire'[p].msgs) : (Told(wire[p].msgs[i]))'
    BY <1>1, <1>3, <1>4, <1>6, <1>7, <2>2 DEF Wires, Told, Can
  <2> QED BY <1>4, <1>5, <2>1, <2>2 DEF Wires, Can
<1>17. Freeing'
  <2>1. ASSUME NEW p \in Ref, Owned(p) PROVE (Owned(p))'
    BY <1>4, <1>8, <2>1, RefAssumption DEF Owned
  <2>2. (Owned(r))'
    BY <1>4, <1>5 DEF Owned
  <2>3. \A i \in 1..Len(stack) : stack[i].pc # "after"
    BY <1>3, LiveCalls
  <2> QED BY <1>1, <1>4, <1>7, <2>1, <2>2, <2>3 DEF Freeing, Can
<1> QED BY <1>11, <1>12, <1>13, <1>14, <1>15, <1>16, <1>17 DEF StubInv

\* A reference nobody processes is deallocated.
LEMMA FreedKeeps ==
  ASSUME StubInv, NEW r \in Ref, UNCHANGED <<stack, client, faults, present>>,
         ref' = [ref EXCEPT ![r] = Unused], wire' = [wire EXCEPT ![r] = NoWire],
         \A i \in 1..Len(stack) : stack[i].ref # r,
         where' = where \/ (where = "stop" /\ where' = "done"), client = r => where' = "done",
         query' \in QueryT, query'.pc \in {"none", "returned"}, query'.ref = NullRef,
         query.ref \in {NullRef, r}, query.pc \in {"none", "deliver"},
         query'.pc # "none" => query.pc # "none" /\ query'.op = query.op
  PROVE  StubInv'
<1>1. StubTypes /\ Calls /\ Pointers /\ Starting /\ Client /\ Wires /\ Freeing
  BY StubParts
<1>2. stack' = stack /\ client' = client /\ faults' = faults /\ present' = present
  OBVIOUS
<1>3. Unused \in RefT /\ ~Unused.live /\ Unused.moreptr = 0 /\ NoWire \in WireT /\ Len(NoWire.msgs) = 0
      /\ ~NoWire.closed
  BY DEF Unused, RefT, NoWire, WireT, Op
<1>4. /\ ref' \in [Ref -> RefT] /\ wire' \in [Ref -> WireT] /\ ref'[r] = Unused /\ wire'[r] = NoWire
      /\ \A q \in Ref : q # r => ref'[q] = ref[q] /\ wire'[q] = wire[q]
  BY <1>1, <1>3, StubTyped
<1>5. \A i \in 1..Len(stack) : stack[i].ref \in Ref /\ ref'[stack[i].ref] = ref[stack[i].ref]
  BY <1>1, <1>4, CallFields
<1>6. Len(stack) # 0 => where' = "select"
  BY <1>1 DEF Calls
<1>7. StubTypes'
  BY <1>1, <1>2, <1>4 DEF StubTypes
<1>8. Calls'
  BY <1>1, <1>2, <1>5, <1>6 DEF Calls, Nested, Told, Can
<1>9. Pointers'
  BY <1>1, <1>2, <1>3, <1>4 DEF Pointers, Points
<1>10. Starting'
  BY <1>1, <1>2 DEF Starting
<1>11. Client'
  <2>1. client # NullRef => client \in Ref
    BY <1>1, StubTyped
  <2> QED BY <1>1, <1>2, <1>4, <2>1 DEF Client
<1>12. Wires'
  <2>1. ASSUME NEW q \in Ref PROVE (~ref[q].live => Len(wire[q].msgs) = 0)' /\ (~Can("die") => ~wire'[q].closed)
                                   /\ \A i \in 1..Len(wire'[q].msgs) : (Told(wire[q].msgs[i]))'
    <3>1. CASE q = r
      BY <1>3, <1>4, <3>1
    <3>2. CASE q # r
      <4>1. ref'[q] = ref[q] /\ wire'[q] = wire[q]
        BY <1>4, <3>2
      <4>2. \A i \in 1..Len(wire[q].msgs) : Told(wire[q].msgs[i])
        BY <1>1, <3>2, RefAssumption DEF Wires, Starting
      <4> QED BY <1>1, <1>2, <4>1, <4>2 DEF Wires, Told, Can
    <3> QED BY <3>1, <3>2
  <2> QED BY <1>2, <2>1 DEF Wires, Can
<1>13. Freeing'
  <2>1. ASSUME NEW q \in Ref, ref'[q].live PROVE ref[q].live /\ (Owned(q) => (Owned(q))')
    BY <1>2, <1>3, <1>4, <2>1, RefAssumption DEF Owned
  <2> QED BY <1>1, <1>2, <1>5, <2>1 DEF Freeing, Can
<1> QED BY <1>7, <1>8, <1>9, <1>10, <1>11, <1>12, <1>13 DEF StubInv

LEMMA DeliverFailsKeeps ==
  ASSUME StubInv, DeliverFails, UNCHANGED <<client, where, faults, present>> PROVE StubInv'
<1>1. StubTypes /\ Starting /\ Client
  BY StubParts
<1>2. PICK k \in QueryT : k = query /\ k.pc = "deliver"
  BY <1>1, StubTyped DEF DeliverFails
<1>3. PICK r \in Ref : r = query.ref
  BY <1>1, <1>2 DEF Starting, QueryT
<1> DEFINE q == [k EXCEPT !.pc = "returned", !.ref = NullRef]
<1>4. q \in QueryT /\ q.pc = "returned" /\ q.ref = NullRef /\ q.op = k.op
  BY DEF QueryT
<1>5. /\ query' = q /\ ref' = [ref EXCEPT ![r] = Unused] /\ wire' = [wire EXCEPT ![r] = NoWire]
      /\ stack' = stack
  BY <1>2, <1>3 DEF DeliverFails, Freed, Closed
<1>6. r # client /\ \A i \in 1..Len(stack) : stack[i].ref # r
  BY <1>1, <1>3, RefAssumption DEF Starting
<1> HIDE DEF q
<1> QED BY <1>2, <1>3, <1>4, <1>5, <1>6, FreedKeeps

LEMMA RunStopKeeps ==
  ASSUME StubInv, RunStop PROVE StubInv'
<1>1. StubTypes /\ Calls /\ Pointers /\ Starting /\ Client
  BY StubParts
<1>2. client \in Ref /\ client # NullRef /\ where = "stop"
  BY <1>1, StubTyped DEF RunStop, Client
<1>3. Len(stack) = 0
  BY <1>1, <1>2 DEF Calls
<1>4. query.pc = "none" /\ query.ref = NullRef
  BY <1>1, <1>2, <1>3 DEF Starting
<1>5. ref[client].moreptr = 0
  BY <1>1, <1>2, <1>3 DEF Pointers, Points
<1>6. /\ ref' = [ref EXCEPT ![client] = Unused] /\ wire' = [wire EXCEPT ![client] = NoWire]
      /\ stack' = stack /\ query' = query /\ where' = "done"
      /\ UNCHANGED <<client, faults, present>>
  BY <1>5 DEF RunStop, Freed, Closed, ToldToStop, netVars
<1>7. query' \in QueryT /\ query'.pc = "none" /\ query'.ref = NullRef
  BY <1>1, <1>4, <1>6, StubTyped
<1>8. \A i \in 1..Len(stack) : stack[i].ref # client
  BY <1>3
<1>9. PICK r \in Ref : r = client
  BY <1>2
<1>10. /\ ref' = [ref EXCEPT ![r] = Unused] /\ wire' = [wire EXCEPT ![r] = NoWire]
       /\ \A i \in 1..Len(stack) : stack[i].ref # r
  BY <1>6, <1>8, <1>9
<1> QED BY <1>2, <1>4, <1>6, <1>7, <1>9, <1>10, FreedKeeps

\* The browse operation has been started, or not.
LEMMA RunBrowsedKeeps ==
  ASSUME StubInv, RunBrowsed PROVE StubInv'
<1>1. StubTypes /\ Calls /\ Pointers /\ Starting /\ Client /\ Wires /\ Freeing
  BY StubParts
<1>2. /\ where = "browse" /\ query.pc = "returned" /\ client' = query.ref /\ query' = NoQuery
      /\ where' = "select" /\ ref' = ref /\ wire' = wire /\ stack' = stack /\ present' = present
      /\ faults' = faults
  BY DEF RunBrowsed, netVars
<1>3. Len(stack) = 0 /\ client = NullRef
  BY <1>1, <1>2 DEF Calls, Client
<1>4. query.op = "browse"
  BY <1>1, <1>2, <1>3 DEF Starting
<1>5. NoQuery \in QueryT /\ NoQuery.pc = "none" /\ NoQuery.ref = NullRef
  BY DEF NoQuery, QueryT, Op
<1>6. query.ref \in Ref \cup {NullRef}
  BY <1>1, StubTyped DEF QueryT
<1>7. StubTypes'
  BY <1>1, <1>2, <1>5, <1>6 DEF StubTypes
<1>8. Calls' /\ Pointers'
  BY <1>1, <1>2, <1>3 DEF Calls, Pointers, Points, Nested
<1>9. Starting'
  BY <1>2, <1>5 DEF Starting
<1>10. Client'
  BY <1>1, <1>2, <1>4 DEF Client, Starting
<1>11. Wires'
  BY <1>1, <1>2, <1>5 DEF Wires, Told, Can
<1>12. Freeing'
  <2>1. ASSUME NEW p \in Ref, Owned(p) PROVE (Owned(p))'
    BY <1>2, <1>3, <2>1, RefAssumption DEF Owned
  <2> QED BY <1>1, <1>2, <2>1 DEF Freeing, Can
<1> QED BY <1>7, <1>8, <1>9, <1>10, <1>11, <1>12 DEF StubInv

-----------------------------------------------------------------------------
\* What the stub does until the request is answered changes no reference.
LEMMA WaitingKeeps ==
  ASSUME StubInv, ConnectNoMemory \/ ConnectRefused, UNCHANGED <<client, where, faults, present>>
  PROVE  StubInv'
<1>1. StubTypes /\ Starting /\ Wires
  BY StubParts
<1>2. PICK k \in QueryT : k = query /\ k.pc = "connect"
  BY <1>1, StubTyped DEF ConnectNoMemory, ConnectRefused
<1>3. PICK n \in Nat : n = k.tries + 1
  BY DEF QueryT
<1>4. /\ UNCHANGED <<ref, wire, stack>>
      /\ query' = [k EXCEPT !.pc = "returned"] \/ query' = [k EXCEPT !.tries = n]
  BY <1>2, <1>3 DEF ConnectNoMemory, ConnectRefused
<1>5. query' \in QueryT /\ query'.ref = k.ref /\ query'.op = k.op /\ query'.pc \in {"connect", "returned"}
  BY <1>2, <1>4 DEF QueryT
<1>6. Starting' /\ Wires'
  BY <1>1, <1>2, <1>4, <1>5 DEF Starting, Wires, Told, Can
<1>7. wire' \in [Ref -> WireT] /\ present' \in [Service -> [here : BOOLEAN, times : Nat]]
  BY <1>1, <1>4, StubTyped
<1> QED BY <1>2, <1>4, <1>5, <1>6, <1>7, QuietKeeps

LEMMA DeliveredKeeps ==
  ASSUME StubInv, Delivered, UNCHANGED <<client, where, faults, present>> PROVE StubInv'
<1>1. StubTypes /\ Starting /\ Wires
  BY StubParts
<1>2. PICK k \in QueryT : k = query /\ k.pc = "deliver"
  BY <1>1, StubTyped DEF Delivered
<1>3. PICK r \in Ref : r = query.ref
  BY <1>1, <1>2 DEF Starting, QueryT
<1>4. PICK w \in WireT : w = wire[r] /\ w.msgs \in Seq(Msg \cup {NullRef})
  BY <1>1, RefFields
<1>5. PICK rest : rest = Tail(w.msgs)
  OBVIOUS
<1> DEFINE q == [k EXCEPT !.pc = "returned"]
<1>6. /\ wire' = [wire EXCEPT ![r].msgs = rest] /\ query' = q /\ UNCHANGED <<ref, stack>>
      /\ w.msgs # <<>>
  BY <1>2, <1>3, <1>4, <1>5 DEF Delivered
<1>7. rest \in Seq(Msg \cup {NullRef}) /\ Len(rest) = 0
  <2>1. Len(w.msgs) \in Nat /\ Len(w.msgs) # 0 /\ Len(w.msgs) <= 1
    BY <1>1, <1>2, <1>3, <1>4, <1>6, EmptySeq DEF Wires
  <2>2. PICK x \in Nat : x = Len(w.msgs) /\ x # 0 /\ x <= 1
    BY <2>1
  <2>3. rest \in Seq(Msg \cup {NullRef}) /\ Len(rest) = x - 1
    BY <1>4, <1>5, <1>6, <2>2
  <2>4. \A y \in Nat : y # 0 /\ y <= 1 => y - 1 = 0
    OBVIOUS
  <2> QED BY <2>2, <2>3, <2>4
<1> DEFINE v == [w EXCEPT !.msgs = rest]
<1>8. v \in WireT /\ v.msgs = rest /\ v.closed = w.closed
  BY <1>7 DEF WireT
<1>9. q \in QueryT /\ q.pc = "returned" /\ q.ref = k.ref /\ q.op = k.op
  BY DEF QueryT
<1>10. wire' = [wire EXCEPT ![r] = v] /\ wire \in [Ref -> WireT]
  BY <1>1, <1>4, <1>6, StubTyped
<1> HIDE DEF q, v
<1>11. wire' \in [Ref -> WireT] /\ wire'[r] = v /\ \A p \in Ref : p # r => wire'[p] = wire[p]
  BY <1>8, <1>10
<1>12. Starting'
  BY <1>1, <1>2, <1>6, <1>9 DEF Starting
<1>13. Wires'
  <2>1. ASSUME NEW p \in Ref PROVE (~ref[p].live => Len(wire[p].msgs) = 0)' /\ (~Can("die") => ~wire'[p].closed)
                                   /\ \A i \in 1..Len(wire'[p].msgs) : (Told(wire[p].msgs[i]))'
    <3>1. CASE p = r
      BY <1>1, <1>4, <1>7, <1>8, <1>11, <3>1 DEF Wires
    <3>2. CASE p # r
      BY <1>1, <1>3, <1>6, <1>11, <3>2 DEF Wires, Told, Can
    <3> QED BY <3>1, <3>2
  <2> QED BY <1>6, <1>9, <2>1 DEF Wires, Can
<1>14. present' \in [Service -> [here : BOOLEAN, times : Nat]]
  BY <1>1, StubTyped
<1> QED BY <1>2, <1>6, <1>9, <1>11, <1>12, <1>13, <1>14, QuietKeeps

LEMMA RunBrowseKeeps ==
  ASSUME StubInv, RunBrowse PROVE StubInv'
<1>1. StubTypes /\ Starting /\ Wires
  BY StubParts
<1> DEFINE q == [pc |-> "connect", op |-> "browse", arg |-> NullRef, ref |-> NullRef, tries |-> 0]
<1>2. /\ query' = q /\ UNCHANGED <<ref, wire, stack, client, where, faults, present>>
      /\ where = "browse" /\ query.pc = "none"
  BY DEF RunBrowse, Start, netVars
<1>3. q \in QueryT /\ q.pc = "connect" /\ q.op = "browse" /\ q.ref = NullRef
  BY DEF QueryT, Op
<1> HIDE DEF q
<1>4. query.ref = NullRef
  BY <1>1, <1>2 DEF Starting
<1>5. Starting' /\ Wires'
  BY <1>1, <1>2, <1>3 DEF Starting, Wires, Told, Can
<1>6. wire' \in [Ref -> WireT] /\ present' \in [Service -> [here : BOOLEAN, times : Nat]]
  BY <1>1, <1>2, StubTyped
<1> QED BY <1>2, <1>3, <1>4, <1>5, <1>6, QuietKeeps

-----------------------------------------------------------------------------
(* The callbacks *)

\* Whose callback runs, and what it has been told.
LEMMA ReplyIs ==
  ASSUME StubInv, stack # <<>>, Top.pc \in {"callback", "waiting"}
  PROVE  /\ Top.ref \in Ref /\ Told(Top.msg) /\ Top.msg.service \in Service
         /\ (ref[Top.ref].op = "browse" => Len(stack) = 1)
<1>1. StubTypes /\ Calls
  BY StubParts
<1>2. PICK n \in Nat : n = Len(stack) /\ n \in 1..n /\ Top = stack[n]
  BY <1>1, TopIs
<1>3. stack[n].ref \in Ref /\ Told(stack[n].msg) /\ ref[stack[n].ref].live /\ Nested(n)
  BY <1>1, <1>2, CallFields DEF Calls
<1>4. Top.msg.service \in Service
  BY <1>2, <1>3 DEF Told, Msg
<1> QED BY <1>2, <1>3, <1>4 DEF Nested

\* A callback starts an operation and waits for its answer.
LEMMA CallbackStarts ==
  ASSUME StubInv, At("callback"), NEW op0 \in {"resolve", "addrinfo"}, Start(op0, Top.msg.service),
         stack' = SetTop("waiting"), UNCHANGED <<ref, wire, client, where, faults, present>>
  PROVE  StubInv'
<1>1. stack # <<>> /\ Top.pc = "callback"
  BY DEF At
<1>2. query.pc = "none" /\ query.ref = NullRef
  BY <1>1, NoneStarting
<1>3. PICK s \in Service : s = Top.msg.service
  BY <1>1, ReplyIs
<1> DEFINE q == [pc |-> "connect", op |-> op0, arg |-> s, ref |-> NullRef, tries |-> 0]
<1>4. query' = q
  BY <1>3 DEF Start
<1>5. q \in QueryT /\ q.pc = "connect" /\ q.op = op0 /\ q.ref = NullRef
  BY DEF QueryT, Op
<1> HIDE DEF q
<1>6. stack' = [stack EXCEPT ![Depth].pc = "waiting"]
  BY DEF SetTop
<1> QED BY <1>1, <1>2, <1>4, <1>5, <1>6, TopKeeps

LEMMA BrowseReplyKeeps ==
  ASSUME StubInv, BrowseReply \/ ResolveReply PROVE StubInv'
<1>1. At("callback") /\ stack' = SetTop("waiting") /\ UNCHANGED <<ref, wire, client, where, faults, present>>
  BY DEF BrowseReply, ResolveReply, Reply, netVars
<1>2. Start("resolve", Top.msg.service) \/ Start("addrinfo", Top.msg.service)
  BY DEF BrowseReply, ResolveReply
<1>3. CASE Start("resolve", Top.msg.service)
  BY <1>1, <1>3, CallbackStarts
<1>4. CASE Start("addrinfo", Top.msg.service)
  BY <1>1, <1>4, CallbackStarts
<1> QED BY <1>2, <1>3, <1>4

\* A callback returns and keeps its reference.
LEMMA CallbackReturnsKeeps ==
  ASSUME StubInv, BrowseReplyRemove \/ BrowseReplyReturns \/ NoCallback PROVE StubInv'
<1>1. /\ stack # <<>> /\ Top.pc \in {"callback", "waiting"} /\ (Top.pc # "waiting" \/ query.pc = "none")
      /\ stack' = [stack EXCEPT ![Depth].pc = "after"] /\ query' = query
      /\ UNCHANGED <<ref, wire, client, where, faults, present>>
      /\ ref[Top.ref].op = "browse" \/ Top.msg.answer = "unread"
  BY DEF BrowseReplyRemove, BrowseReplyReturns, NoCallback, Reply, At, SetTop, netVars
<1>2. query.pc = "none" /\ query.ref = NullRef
  BY <1>1, NoneStarting
<1>3. query' \in QueryT /\ query'.pc = "none" /\ query'.ref = NullRef
  <2>1. query \in QueryT
    BY StubParts, StubTyped
  <2> QED BY <1>1, <1>2, <2>1
<1>4. ~Can("silent") => Len(stack) = 1
  BY <1>1, ReplyIs DEF Told
<1> QED BY <1>1, <1>2, <1>3, <1>4, TopKeeps

\* ResolveReply and AddrInfoReply deallocate their reference.
LEMMA CallbackFreesKeeps ==
  ASSUME StubInv, ResolveReplyReturns \/ AddrInfoReply PROVE StubInv'
<1>1. /\ stack # <<>> /\ Top.pc \in {"callback", "waiting"} /\ (Top.pc # "waiting" \/ query.pc = "none")
      /\ ReturnDeallocating /\ ref[Top.ref].op \in {"resolve", "addrinfo"}
  BY DEF ResolveReplyReturns, AddrInfoReply, Reply, At
<1>2. present' = present
  BY <1>1 DEF ReturnDeallocating, netVars
<1>3. query.pc = "none"
  BY <1>1, NoneStarting
<1> QED BY <1>1, <1>2, <1>3, DeallocatingKeeps

\* A callback processes the operation it has started.
LEMMA ProcessNestedKeeps ==
  ASSUME StubInv, ProcessNested PROVE StubInv'
<1>1. StubTypes /\ Calls /\ Starting /\ Client /\ Wires
  BY StubParts
<1>2. /\ stack # <<>> /\ Top.pc = "waiting" /\ query.pc = "returned" /\ query' = NoQuery
      /\ stack' = IF query.ref = NullRef THEN stack ELSE Append(stack, Call(query.ref))
      /\ UNCHANGED <<ref, wire, client, where, faults, present>>
  BY DEF ProcessNested, At, netVars
<1>3. PICK n \in Nat : n = Len(stack) /\ n # 0 /\ n \in 1..n /\ Top = stack[n]
  BY <1>1, <1>2, TopIs
<1>4. CASE query.ref = NullRef
  <2>1. NoQuery \in QueryT /\ NoQuery.pc = "none" /\ NoQuery.ref = NullRef
    BY DEF NoQuery, QueryT, Op
  <2>2. Starting' /\ Wires'
    BY <1>1, <1>2, <2>1 DEF Starting, Wires, Told, Can
  <2>3. wire' \in [Ref -> WireT] /\ present' \in [Service -> [here : BOOLEAN, times : Nat]] /\ stack' = stack
    BY <1>1, <1>2, <1>4, StubTyped
  <2> QED BY <1>2, <1>4, <2>1, <2>2, <2>3, QuietKeeps
<1>5. CASE query.ref # NullRef
  <2>1. PICK q \in Ref : q = query.ref
    BY <1>1, <1>5, StubTyped DEF QueryT
  <2>2. stack' = Append(stack, Call(q))
    BY <1>2, <1>5, <2>1
  <2>3. where = "select"
    BY <1>1, <1>3 DEF Calls
  <2>4. ref[q].live /\ ref[q].op \in {"resolve", "addrinfo"} /\ \A i \in 1..Len(stack) : stack[i].ref # q
    BY <1>1, <1>2, <1>5, <2>1, <2>3 DEF Starting
  <2>5. query' \in QueryT /\ query'.pc = "none" /\ query'.ref = NullRef
    BY <1>2 DEF NoQuery, QueryT, Op
  <2> QED BY <1>2, <1>3, <2>1, <2>2, <2>4, <2>5, PushKeeps
<1> QED BY <1>4, <1>5

\* The connection of the browse operation is readable.
LEMMA HandleEventsKeeps ==
  ASSUME StubInv, HandleEvents PROVE StubInv'
<1>1. StubTypes /\ Starting /\ Client
  BY StubParts
<1>2. /\ where = "select" /\ stack = <<>> /\ client # NullRef /\ stack' = <<Call(client)>> /\ query' = query
      /\ UNCHANGED <<ref, wire, client, where, faults, present>>
  BY DEF HandleEvents, netVars
<1>3. PICK q \in Ref : q = client
  BY <1>1, <1>2, StubTyped
<1>4. Len(stack) = 0
  BY <1>2
<1>5. query.pc = "none" /\ query.ref = NullRef
  BY <1>1, <1>2, <1>4 DEF Starting
<1>6. stack' = Append(stack, Call(q))
  <2>1. PICK c : c = Call(q)
    OBVIOUS
  <2>2. <<c>> = Append(<<>>, c)
    OBVIOUS
  <2> QED BY <1>2, <1>3, <2>1, <2>2
<1>7. ref[q].live
  BY <1>1, <1>2, <1>3 DEF Client
<1>8. query' \in QueryT /\ query'.pc = "none" /\ query'.ref = NullRef
  BY <1>1, <1>2, <1>5, StubTyped
<1>9. \A i \in 1..Len(stack) : stack[i].ref # q
  BY <1>4
<1> QED BY <1>2, <1>3, <1>4, <1>5, <1>6, <1>7, <1>8, <1>9, PushKeeps

\* There is nothing to read any more.
LEMMA HandleFailureKeeps ==
  ASSUME StubInv, HandleFailure PROVE StubInv'
<1>1. StubTypes /\ Wires
  BY StubParts
<1>2. /\ stack # <<>> /\ Top.pc = "read" /\ wire[Top.ref].closed /\ stack' = Front(stack)
      /\ where' = IF Depth = 1 THEN "stop" ELSE where
      /\ UNCHANGED <<ref, wire, query, client, faults, present>>
  BY DEF HandleFailure, ReadFails, At, netVars
<1>3. Depth = Len(stack) /\ Top.ref \in Ref
  BY <1>1, <1>2, TopIs, CallFields
<1>4. Can("die")
  BY <1>1, <1>2, <1>3 DEF Wires
<1> QED BY <1>2, <1>3, <1>4, PopKeeps

\* The callback has returned: the loop goes on or DNSServiceProcessResult returns.
LEMMA AfterCallbackKeeps ==
  ASSUME StubInv, AfterCallback, UNCHANGED <<client, where, faults, present>> PROVE StubInv'
<1>1. StubTypes /\ Freeing
  BY StubParts
<1>2. stack # <<>> /\ Top.pc = "after" /\ UNCHANGED <<wire, query>>
  BY DEF AfterCallback, At
<1>3. CASE Top.more
  BY <1>2, <1>3, AgainKeeps DEF AfterCallback
<1>4. CASE ~Top.more
  <2>1. stack' = Front(stack) /\ ref' = ref
    BY <1>4 DEF AfterCallback
  <2>2. PICK n \in Nat : n = Len(stack) /\ n \in 1..n /\ Top = stack[n]
    BY <1>1, <1>2, TopIs
  <2>3. ~Can("silent") /\ ~Can("die") => Len(stack) = 1 \/ ~ref[Top.ref].live
    BY <1>1, <1>2, <2>2 DEF Freeing
  <2> QED BY <1>2, <1>4, <2>1, <2>3, PopKeeps
<1> QED BY <1>3, <1>4

-----------------------------------------------------------------------------
(* The daemon and the network *)

\* The daemon writes to a connection.
LEMMA SendKeeps ==
  ASSUME StubInv, NEW r \in Ref, NEW m \in Msg \cup {NullRef}, Send(r, m), ref[r].live,
         IF query.pc = "deliver" /\ query.ref = r THEN wire[r].msgs = <<>> ELSE Told(m),
         UNCHANGED <<ref, stack, query, client, where, faults, present>>
  PROVE  StubInv'
<1>1. StubTypes /\ Starting /\ Wires
  BY StubParts
<1>2. PICK w \in WireT : w = wire[r] /\ w.msgs \in Seq(Msg \cup {NullRef})
  BY <1>1, RefFields
<1>3. PICK n \in Nat : n = Len(w.msgs)
  BY <1>2
<1>4. PICK all : all = Append(w.msgs, m)
  OBVIOUS
<1>5. /\ all \in Seq(Msg \cup {NullRef}) /\ Len(all) = n + 1 /\ all[n + 1] = m
      /\ \A i \in 1..n : all[i] = w.msgs[i]
  BY <1>2, <1>3, <1>4
<1> DEFINE v == [w EXCEPT !.msgs = all]
<1>6. v \in WireT /\ v.msgs = all /\ v.closed = w.closed
  BY <1>5 DEF WireT
<1>7. wire' = [wire EXCEPT ![r] = v] /\ wire \in [Ref -> WireT]
  BY <1>1, <1>2, <1>4, StubTyped DEF Send
<1> HIDE DEF v
<1>8. wire' \in [Ref -> WireT] /\ wire'[r] = v /\ \A p \in Ref : p # r => wire'[p] = wire[p]
  BY <1>6, <1>7
<1>9. ref' = ref /\ query' = query /\ faults' = faults
  OBVIOUS
<1>10. Starting'
  BY <1>1 DEF Starting
<1>11. Wires'
  <2>1. \A i \in 1..n + 1 : i \in 1..n \/ i = n + 1
    BY <1>3
  <2>2. ASSUME NEW i \in 1..n + 1 PROVE (Told(all[i]) \/ (query.pc = "deliver" /\ query.ref = r))
    BY <1>1, <1>2, <1>3, <1>5, <2>1 DEF Wires
  <2>3. ASSUME NEW p \in Ref PROVE \A i \in 1..Len(wire'[p].msgs) :
                 (Told(wire[p].msgs[i]) \/ (query.pc = "deliver" /\ query.ref = p))'
    <3>1. CASE p = r
      <4>1. wire'[p].msgs = all /\ Len(all) = n + 1
        BY <1>5, <1>6, <1>8, <3>1
      <4> QED BY <1>9, <2>2, <3>1, <4>1 DEF Told, Can
    <3>2. CASE p # r
      BY <1>1, <1>8, <1>9, <3>2 DEF Wires, Told, Can
    <3> QED BY <3>1, <3>2
  <2>4. \A p \in Ref : (~ref[p].live => Len(wire[p].msgs) = 0)' /\ (~Can("die") => ~wire'[p].closed)
    BY <1>1, <1>2, <1>6, <1>8, <1>9 DEF Wires
  <2>5. query'.pc = "deliver" => Len(wire'[query'.ref].msgs) <= 1
    <3> SUFFICES ASSUME query.pc = "deliver" PROVE Len(wire'[query.ref].msgs) <= 1
      BY <1>9
    <3>1. query.ref \in Ref
      BY <1>1, StubTyped DEF Starting, QueryT
    <3>2. CASE query.ref # r
      BY <1>1, <1>8, <3>1, <3>2 DEF Wires
    <3>3. CASE query.ref = r
      <4>1. n = 0
        BY <1>2, <1>3, <3>3
      <4>2. wire'[query.ref].msgs = all
        BY <1>6, <1>8, <3>3
      <4>3. Len(all) = 1
        BY <1>5, <4>1
      <4> QED BY <4>2, <4>3
    <3> QED BY <3>2, <3>3
  <2> QED BY <1>9, <2>3, <2>4, <2>5 DEF Wires, Can
<1>12. query' \in QueryT /\ present' \in [Service -> [here : BOOLEAN, times : Nat]]
  BY <1>1, StubTyped
<1> QED BY <1>8, <1>10, <1>11, <1>12, QuietKeeps

LEMMA AcceptsKeeps ==
  ASSUME StubInv, DaemonAccepts PROVE StubInv'
<1>1. StubTypes /\ Starting
  BY StubParts
<1>2. /\ query.pc = "deliver" /\ wire[query.ref].msgs = <<>> /\ Send(query.ref, NullRef)
      /\ UNCHANGED <<ref, stack, query, client, where, faults, present>>
  BY DEF DaemonAccepts, netVars
<1>3. PICK r \in Ref : r = query.ref /\ ref[r].live
  BY <1>1, <1>2, StubTyped DEF Starting, QueryT
<1>4. Send(r, NullRef)
  BY <1>2, <1>3
<1>5. PICK m \in Msg \cup {NullRef} : m = NullRef
  OBVIOUS
<1>6. Send(r, m)
  BY <1>4, <1>5
<1> QED BY <1>2, <1>3, <1>6, SendKeeps

LEMMA AnswersKeep ==
  ASSUME StubInv, NEW r \in Ref, NEW s \in Service,
         DaemonBrowses(r, s) \/ DaemonAnswers(r, s) \/ DaemonDenies(r, s)
  PROVE  StubInv'
<1>1. StubTypes
  BY StubParts
<1>2. /\ ref[r].live /\ ~(query.pc = "deliver" /\ query.ref = r)
      /\ UNCHANGED <<ref, stack, query, client, where, faults, present>>
  BY DEF DaemonBrowses, DaemonAnswers, DaemonDenies, Served, netVars
<1>3. \E m : Told(m) /\ Send(r, m)
  <2>1. CASE DaemonBrowses(r, s)
    <3>1. PICK b \in BOOLEAN : b = present[s].here
      <4>1. present[s] \in [here : BOOLEAN, times : Nat]
        BY <1>1, StubTyped
      <4> QED BY <4>1
    <3> DEFINE M(a) == [service |-> s, add |-> b, answer |-> a]
    <3>2. Send(r, M("own")) \/ (Send(r, M("unread")) /\ Can("silent"))
      BY <2>1, <3>1 DEF DaemonBrowses, Answers
    <3>3. Told(M("own")) /\ (Can("silent") => Told(M("unread")))
      BY DEF Told, Msg
    <3> HIDE DEF M
    <3> QED BY <3>2, <3>3
  <2>2. CASE DaemonAnswers(r, s)
    <3> DEFINE M(a) == [service |-> s, add |-> TRUE, answer |-> a]
    <3>1. Send(r, M("own")) \/ (Send(r, M("unread")) /\ Can("silent"))
      BY <2>2 DEF DaemonAnswers, Answers
    <3>2. Told(M("own")) /\ (Can("silent") => Told(M("unread")))
      BY DEF Told, Msg
    <3> HIDE DEF M
    <3> QED BY <3>1, <3>2
  <2>3. CASE DaemonDenies(r, s)
    <3>1. PICK m : m = [service |-> s, add |-> TRUE, answer |-> "negative"]
      OBVIOUS
    <3>2. Send(r, m)
      BY <2>3, <3>1 DEF DaemonDenies
    <3>3. Told(m)
      BY <3>1 DEF Told, Msg
    <3> QED BY <3>2, <3>3
  <2> QED BY <2>1, <2>2, <2>3
<1>4. PICK m : Told(m) /\ Send(r, m)
  BY <1>3
<1>5. m \in Msg \cup {NullRef}
  BY <1>4 DEF Told
<1> QED BY <1>2, <1>4, <1>5, SendKeeps

LEMMA DiesKeeps ==
  ASSUME StubInv, DaemonDies PROVE StubInv'
<1>1. StubTypes /\ Starting /\ Wires
  BY StubParts
<1>2. /\ Can("die") /\ UNCHANGED <<ref, stack, query, client, where, faults, present>>
      /\ wire' = [r \in Ref |-> IF ref[r].live THEN [wire[r] EXCEPT !.closed = TRUE] ELSE wire[r]]
  BY DEF DaemonDies, netVars
<1>3. ASSUME NEW r \in Ref PROVE wire'[r] \in WireT /\ wire'[r].msgs = wire[r].msgs
  <2>1. PICK w \in WireT : w = wire[r]
    BY <1>1, RefFields
  <2>2. [w EXCEPT !.closed = TRUE] \in WireT /\ [w EXCEPT !.closed = TRUE].msgs = w.msgs
    BY DEF WireT
  <2> QED BY <1>2, <2>1, <2>2
<1>4. wire' \in [Ref -> WireT]
  <2>1. wire' = [r \in Ref |-> wire'[r]]
    BY <1>2
  <2> QED BY <1>3, <2>1
<1>5. Starting'
  BY <1>1, <1>2 DEF Starting
<1>6. Wires'
  <2>1. query.pc = "deliver" => query.ref \in Ref
    BY <1>1, StubTyped DEF Starting, QueryT
  <2> QED BY <1>1, <1>2, <1>3, <2>1 DEF Wires, Told, Can
<1>7. query' \in QueryT /\ present' \in [Service -> [here : BOOLEAN, times : Nat]]
  BY <1>1, <1>2, StubTyped
<1> QED BY <1>2, <1>4, <1>5, <1>6, <1>7, QuietKeeps

\* The rest of what the environment does, and nothing.
LEMMA OthersKeep ==
  ASSUME StubInv, \/ DaemonStarts \/ DaemonHangs \/ UNCHANGED discVars
                  \/ \E s \in Service : Appear(s) \/ Vanish(s)
  PROVE  StubInv'
<1>1. StubTypes /\ Starting /\ Wires
  BY StubParts
<1>2. UNCHANGED <<ref, wire, stack, query, client, where, faults>>
  BY DEF DaemonStarts, DaemonHangs, discVars, stubVars, Appear, Vanish
<1>3. present' \in [Service -> [here : BOOLEAN, times : Nat]]
  <2>1. present \in [Service -> [here : BOOLEAN, times : Nat]]
    BY <1>1, StubTyped
  <2>2. CASE present' = present
    BY <2>1, <2>2
  <2>3. ASSUME NEW s \in Service, Appear(s) \/ Vanish(s)
        PROVE  present' \in [Service -> [here : BOOLEAN, times : Nat]]
    <3>1. PICK p \in [here : BOOLEAN, times : Nat] : p = present[s]
      BY <2>1
    <3>2. PICK n \in Nat : n = p.times + 1
      OBVIOUS
    <3>3. \/ present' = [present EXCEPT ![s] = [here |-> TRUE, times |-> n]]
          \/ present' = [present EXCEPT ![s] = [p EXCEPT !.here = FALSE]]
      BY <2>1, <2>3, <3>1, <3>2 DEF Appear, Vanish
    <3>4. [here |-> TRUE, times |-> n] \in [here : BOOLEAN, times : Nat]
          /\ [p EXCEPT !.here = FALSE] \in [here : BOOLEAN, times : Nat]
      OBVIOUS
    <3> QED BY <2>1, <3>3, <3>4
  <2>4. present' = present \/ \E s \in Service : Appear(s) \/ Vanish(s)
    BY DEF DaemonStarts, DaemonHangs, discVars, netVars
  <2> QED BY <2>2, <2>3, <2>4
<1>4. Starting' /\ Wires'
  BY <1>1, <1>2 DEF Starting, Wires, Told, Can
<1>5. wire' \in [Ref -> WireT] /\ query' \in QueryT
  BY <1>1, <1>2, StubTyped
<1> QED BY <1>2, <1>3, <1>4, <1>5, QuietKeeps

-----------------------------------------------------------------------------
LEMMA StubStarts ==
  ASSUME DiscInit PROVE StubInv
<1>1. /\ ref = [r \in Ref |-> Unused] /\ wire = [r \in Ref |-> NoWire] /\ stack = <<>> /\ query = NoQuery
      /\ client = NullRef /\ where = "browse" /\ present = [s \in Service |-> [here |-> FALSE, times |-> 0]]
  BY DEF DiscInit, StubInit
<1>2. /\ Unused \in RefT /\ ~Unused.live /\ Unused.moreptr = 0
      /\ NoWire \in WireT /\ Len(NoWire.msgs) = 0 /\ ~NoWire.closed
      /\ NoQuery \in QueryT /\ NoQuery.pc = "none" /\ NoQuery.ref = NullRef
  BY DEF Unused, RefT, NoWire, WireT, NoQuery, QueryT, Op
<1>3. /\ ref \in [Ref -> RefT] /\ wire \in [Ref -> WireT]
      /\ \A r \in Ref : ref[r] = Unused /\ wire[r] = NoWire
  BY <1>1, <1>2
<1>4. present \in [Service -> [here : BOOLEAN, times : Nat]]
  BY <1>1
<1>5. Len(stack) = 0 /\ stack \in Seq(CallT)
  BY <1>1
<1>6. StubTypes
  BY <1>1, <1>2, <1>3, <1>4, <1>5 DEF StubTypes
<1>7. Calls /\ Pointers
  BY <1>2, <1>3, <1>5 DEF Calls, Pointers
<1>8. Starting /\ Client
  BY <1>1, <1>2 DEF Starting, Client
<1>9. Wires
  BY <1>1, <1>2, <1>3 DEF Wires
<1>10. Freeing
  BY <1>2, <1>3, <1>5 DEF Freeing
<1> QED BY <1>6, <1>7, <1>8, <1>9, <1>10 DEF StubInv

LEMMA DiscoveryKeeps ==
  ASSUME StubInv, [DiscNext]_discVars PROVE StubInv'
<1>1. ASSUME ProcessResult \/ StartOperation, UNCHANGED <<client, where, ancs, netVars, faults>> PROVE StubInv'
  <2>1. UNCHANGED <<client, where, faults, present>>
    BY <1>1 DEF netVars
  <2> QED BY <1>1, <2>1, ReadReplyKeeps, AfterCallbackKeeps, WaitingKeeps, ConnectKeeps, DeliveredKeeps,
             DeliverFailsKeeps DEF ProcessResult, StartOperation
<1>2. ASSUME DiscoveryStep PROVE StubInv'
  BY <1>1, <1>2, RunBrowseKeeps, RunBrowsedKeeps, HandleEventsKeeps, HandleFailureKeeps, RunStopKeeps,
     BrowseReplyKeeps, CallbackReturnsKeeps, ProcessNestedKeeps, CallbackFreesKeeps DEF DiscoveryStep
<1>3. ASSUME DaemonStep \/ (\E r \in Ref, s \in Service : DaemonDenies(r, s)) PROVE StubInv'
  BY <1>3, AcceptsKeeps, AnswersKeep DEF DaemonStep
<1>4. CASE DaemonDies
  BY <1>4, DiesKeeps
<1>5. CASE \/ DaemonStarts \/ DaemonHangs \/ UNCHANGED discVars
           \/ \E s \in Service : Appear(s) \/ Vanish(s)
  BY <1>5, OthersKeep
<1> QED BY <1>2, <1>3, <1>4, <1>5 DEF DiscNext

LEMMA StubIsSafe ==
  ASSUME StubInv PROVE StubMemory
<1>1. StubTypes /\ Calls /\ Pointers /\ Starting /\ Client /\ Wires /\ Freeing
  BY StubParts
<1>2. stack \in Seq(CallT) /\ Len(stack) \in Nat /\ DOMAIN stack = 1..Len(stack)
  BY <1>1, StubTyped, SMTT(40)
<1>3. NoUseAfterFree
  BY <1>1, <1>2 DEF NoUseAfterFree, ToSet, Calls
<1>4. MoreptrOnStack
  BY <1>1, <1>2 DEF MoreptrOnStack, Pointers, Points
<1>5. NothingLeaks
  <2> SUFFICES ASSUME where = "select", stack = <<>>, faults \cap {"silent", "die"} = {},
                      NEW r \in Ref, ref[r].live
               PROVE  r = client
    BY DEF NothingLeaks
  <2>1. Len(stack) = 0
    OBVIOUS
  <2>2. query.ref = NullRef
    BY <1>1, <2>1 DEF Starting
  <2>3. ~Can("silent") /\ ~Can("die")
    BY DEF Can
  <2> QED BY <1>1, <2>1, <2>2, <2>3, RefAssumption DEF Freeing, Owned
<1> QED BY <1>3, <1>4, <1>5 DEF StubMemory

\* Although the callbacks nest and free what is being processed, the stub never reads from a
\* reference that has been freed nor writes to the local variable of a call that has returned,
\* and, unless a reply is kept from its callback or the daemon ends, every reference is given
\* back: for any number of references, services and replies.
THEOREM StubMemoryIsSafe == DiscSpec => []StubMemory
<1>1. DiscInit => StubInv
  BY StubStarts
<1>2. StubInv /\ [DiscNext]_discVars => StubInv'
  BY DiscoveryKeeps
<1>3. StubInv => StubMemory
  BY StubIsSafe
<1> QED BY <1>1, <1>2, <1>3, PTL DEF DiscSpec

-----------------------------------------------------------------------------
(* The shared connection *)

\* What goes over the connection.
Hdr == [op : {"request", "register", "add", "update", "remove", "cancel"}, uid : Nat,
        index : Nat, born : Nat]
Rep == [op : {"reply", "record"}, uid : Nat, born : Nat]
Work == [op : {"reply", "record"}, uid : Nat, index : Nat, born : Nat]
OpRec == [uid : Nat, rec : Seq(Rec), maxIndex : Nat, replies : BOOLEAN, register : BOOLEAN,
          born : Nat]
RecRec == [uid : Nat, index : Nat, born : Nat]
CallRec == [api : {"none", "request", "register", "add", "update", "remove", "ask"},
            of : Sub \cup {Primary, Nobody}, record : Rec \cup {Nobody},
            answer : {"none", "ok", "error"}]

SharedTypes ==
  /\ next \in Seq(Sub) /\ \A i, j \in 1..Len(next) : next[i] = next[j] => i = j
  /\ \A r \in Sub \cup {Primary} : \A i, j \in 1..Len(op[r].rec) :
       op[r].rec[i] = op[r].rec[j] => i = j
  /\ op \in [Sub \cup {Primary} -> OpRec] /\ record \in [Rec -> RecRec]
  /\ pending \in CallRec /\ (pending.api = "none" => pending = NoCall)
  /\ requests \in Seq(Hdr) /\ replies \in Seq(Rep) /\ served \subseteq Work
  /\ mdns \in {"up", "down"} /\ made \in Nat

\* The subordinates and the records of the connection.
Held(s) == Contains(next, s)
Linked(d) == Contains(op[Primary].rec, d)

\* The uid of the primary has been counted up beyond all that were given out.
Old(uid) == uid <= op[Primary].uid
Uids ==
  /\ \A s \in Sub : Held(s) => Old(op[s].uid)
  /\ \A r, s \in Sub : Held(r) /\ Held(s) /\ op[r].uid = op[s].uid => r = s
  /\ \A d \in Rec : Linked(d) => Old(record[d].uid)
  /\ \A c, d \in Rec : Linked(c) /\ Linked(d) /\ record[c].uid = record[d].uid => c = d
  /\ \A e \in served : Old(e.uid)
  /\ \A i \in 1..Len(replies) : Old(replies[i].uid)
  /\ \A i \in 1..Len(requests) : Old(requests[i].uid)

\* What has the uid of an operation or of a record is for it.
IsFor(m) ==
  /\ m.op \in {"reply", "request"} => \A s \in Sub : Held(s) /\ op[s].uid = m.uid => m.born = op[s].born
  /\ m.op \in {"record", "register"} => \A d \in Rec : Linked(d) /\ record[d].uid = m.uid => m.born = record[d].born
IndexFits(m) ==
  m.op \in {"record", "register"} => \A d \in Rec : Linked(d) /\ record[d].uid = m.uid => m.index = record[d].index
Births ==
  /\ \A e \in served : IsFor(e) /\ IndexFits(e)
  /\ \A i \in 1..Len(replies) : IsFor(replies[i])
  /\ \A i \in 1..Len(requests) : IsFor(requests[i]) /\ IndexFits(requests[i])

\* What the daemon does or will do is held, or a request to cancel it follows.
Cancel(j, uid) == requests[j].op = "cancel" /\ requests[j].uid = uid
Lives(uid) == \E s \in Sub : Held(s) /\ op[s].uid = uid
Listed(uid) == \E d \in Rec : Linked(d) /\ record[d].uid = uid
Stopping ==
  /\ \A i \in 1..Len(requests) : \A s \in Sub : Held(s) => ~Cancel(i, op[s].uid)
  /\ \A e \in served : e.op = "reply" => Lives(e.uid) \/ \E j \in 1..Len(requests) : Cancel(j, e.uid)
  /\ \A i \in 1..Len(requests) : requests[i].op = "request" =>
       Lives(requests[i].uid) \/ \E j \in 1..Len(requests) : i < j /\ Cancel(j, requests[i].uid)
  /\ \A e \in served : e.op = "record" => Listed(e.uid)
  /\ \A i \in 1..Len(requests) : requests[i].op = "register" => Listed(requests[i].uid)

\* The request of a call that waits is the last, and an answer comes when all is done.
Waiting == pending.api \notin {"none", "ask"}
Asks(m) ==
  /\ m.op = pending.api
  /\ pending.api = "request" => m.uid = op[pending.of].uid /\ m.born = op[pending.of].born
  /\ pending.api = "remove" => m.index = record[pending.record].index
Asking ==
  /\ Waiting /\ pending.answer = "none" /\ mdns = "up" =>
       Len(requests) # 0 /\ Asks(requests[Len(requests)])
  /\ Waiting /\ pending.answer # "none" => Len(requests) = 0
  /\ pending.api = "request" => pending.of \in Sub /\ Held(pending.of)
  /\ pending.api = "remove" => pending.record \in Rec
  /\ pending.api = "remove" /\ pending.of = Primary =>
       /\ Linked(pending.record)
       /\ pending.answer = "ok" => \A e \in served : e.op = "record" => e.uid # record[pending.record].uid
  /\ mdns = "down" => Len(requests) = 0 /\ served = {}

\* The daemon serves an operation once it has said so.
Serving ==
  mdns = "up" => \A s \in Sub : Held(s) =>
    \/ pending.api = "request" /\ pending.of = s /\ pending.answer # "ok"
    \/ \E e \in served : e.op = "reply" /\ e.uid = op[s].uid /\ e.born = op[s].born

Opening == conn = "none" => Len(next) = 0 /\ Len(requests) = 0 /\ Len(replies) = 0 /\ served = {}

Loop ==
  /\ result.pc = "none" => ~result.more
  /\ result.pc \in {"none", "read"} => ~moreptr
  /\ result.pc \in {"callback", "after"} => moreptr = result.more
  /\ result.pc = "read" \/ (result.pc \in {"callback", "after"} /\ result.more) => conn = "open"
  /\ conn \in {"none", "open", "freed"}  /\ moreptr \in BOOLEAN
  /\ result \in [pc : {"none", "read", "callback", "after"}, more : BOOLEAN]

Books == SharedTypes /\ Uids /\ Births /\ Stopping /\ Asking /\ Serving /\ Opening
SharedInv == Books /\ Loop

-----------------------------------------------------------------------------
\* A list without one of its members.
LEMMA UnlinkedOne ==
  ASSUME NEW S, NEW s \in Seq(S), NEW i \in 1..Len(s),
         \A a, b \in 1..Len(s) : s[a] = s[b] => a = b
  PROVE  /\ Unlinked(s, s[i]) \in Seq(S) /\ Len(Unlinked(s, s[i])) = Len(s) - 1
         /\ \A j \in 1..Len(s) - 1 : Unlinked(s, s[i])[j] = IF j < i THEN s[j] ELSE s[j + 1]
         /\ (CHOOSE q \in DOMAIN s : s[q] = s[i]) = i
<1>1. DOMAIN s = 1..Len(s) /\ Len(s) \in Nat
  OBVIOUS
<1>2. (CHOOSE q \in DOMAIN s : s[q] = s[i]) = i
  <2> DEFINE c == CHOOSE q \in DOMAIN s : s[q] = s[i]
  <2>1. c \in DOMAIN s /\ s[c] = s[i]
    BY <1>1
  <2> QED BY <1>1, <2>1
<1>3. Contains(s, s[i])
  BY <1>1 DEF Contains
<1>4. Unlinked(s, s[i]) = SubSeq(s, 1, i - 1) \o SubSeq(s, i + 1, Len(s))
  BY <1>2, <1>3 DEF Unlinked, RemoveAt
<1>5. PICK n \in Nat : n = Len(s) /\ i \in 1..n
  BY <1>1
<1> DEFINE u == SubSeq(s, 1, i - 1)
           v == SubSeq(s, i + 1, n)
<1>6. u \in Seq(S) /\ Len(u) = i - 1 /\ \A j \in 1..i - 1 : u[j] = s[j]
  <2>1. \A j \in 1..i - 1 : s[j] \in S
    BY <1>5
  <2>2. /\ u \in Seq(S) /\ Len(u) = IF 1 <= i - 1 THEN (i - 1) - 1 + 1 ELSE 0
        /\ \A j \in 1..(i - 1) - 1 + 1 : u[j] = s[1 + j - 1]
    BY <1>5, <2>1, SubSeqProperties
  <2>3. (IF 1 <= i - 1 THEN (i - 1) - 1 + 1 ELSE 0) = i - 1
    BY <1>5
  <2>4. \A j \in 1..i - 1 : j \in 1..(i - 1) - 1 + 1 /\ 1 + j - 1 = j
    BY <1>5
  <2> QED BY <2>2, <2>3, <2>4
<1>7. v \in Seq(S) /\ Len(v) = n - i /\ \A j \in 1..n - i : v[j] = s[i + j]
  <2>1. \A j \in i + 1..n : s[j] \in S
    BY <1>5
  <2>2. /\ v \in Seq(S) /\ Len(v) = IF i + 1 <= n THEN n - (i + 1) + 1 ELSE 0
        /\ \A j \in 1..n - (i + 1) + 1 : v[j] = s[(i + 1) + j - 1]
    BY <1>5, <2>1, SubSeqProperties
  <2>3. (IF i + 1 <= n THEN n - (i + 1) + 1 ELSE 0) = n - i
    BY <1>5
  <2>4. \A j \in 1..n - i : j \in 1..n - (i + 1) + 1 /\ (i + 1) + j - 1 = i + j
    BY <1>5
  <2> QED BY <2>2, <2>3, <2>4
<1> HIDE DEF u, v
<1> DEFINE w == u \o v
<1>8. /\ w \in Seq(S) /\ Len(w) = Len(u) + Len(v)
      /\ \A j \in 1..Len(u) + Len(v) : w[j] = IF j <= Len(u) THEN u[j] ELSE v[j - Len(u)]
  <2>1. u \in Seq(S) /\ v \in Seq(S)
    BY <1>6, <1>7
  <2> QED BY <2>1, ConcatProperties
<1> HIDE DEF w
<1>9. Len(u) + Len(v) = n - 1
  BY <1>5, <1>6, <1>7
<1>10. ASSUME NEW j \in 1..n - 1 PROVE w[j] = IF j < i THEN s[j] ELSE s[j + 1]
  <2>1. w[j] = IF j <= i - 1 THEN u[j] ELSE v[j - (i - 1)]
    BY <1>6, <1>8, <1>9
  <2>2. CASE j < i
    <3>1. j \in 1..i - 1 /\ j <= i - 1
      BY <1>5, <2>2
    <3> QED BY <1>6, <2>1, <2>2, <3>1
  <2>3. CASE ~(j < i)
    <3>1. ~(j <= i - 1) /\ j - (i - 1) \in 1..n - i /\ i + (j - (i - 1)) = j + 1
      BY <1>5, <2>3
    <3> QED BY <1>7, <2>1, <2>3, <3>1
  <2> QED BY <2>2, <2>3
<1> QED BY <1>2, <1>4, <1>5, <1>8, <1>9, <1>10 DEF w, u, v

\* What such a list has.
LEMMA UnlinkedHas ==
  ASSUME NEW S, NEW s \in Seq(S), NEW x, Contains(s, x),
         \A a, b \in 1..Len(s) : s[a] = s[b] => a = b
  PROVE  /\ Unlinked(s, x) \in Seq(S) /\ Len(Unlinked(s, x)) = Len(s) - 1
         /\ \A y : Contains(Unlinked(s, x), y) <=> Contains(s, y) /\ y # x
         /\ \A a, b \in 1..Len(Unlinked(s, x)) : Unlinked(s, x)[a] = Unlinked(s, x)[b] => a = b
<1>1. PICK i \in 1..Len(s) : s[i] = x
  BY DEF Contains
<1> DEFINE w == Unlinked(s, x)
<1>2. /\ w \in Seq(S) /\ Len(w) = Len(s) - 1
      /\ \A j \in 1..Len(s) - 1 : w[j] = IF j < i THEN s[j] ELSE s[j + 1]
  BY <1>1, UnlinkedOne, ZenonT(60)
<1> HIDE DEF w
<1>3. PICK n \in Nat : n = Len(s) /\ i \in 1..n
  OBVIOUS
<1>4. \A a, b \in 1..n : s[a] = s[b] => a = b
  BY <1>3
<1>5. \A j \in 1..n - 1 : (j < i => w[j] = s[j] /\ j \in 1..n)
                          /\ (~(j < i) => w[j] = s[j + 1] /\ j + 1 \in 1..n)
  BY <1>2, <1>3
<1>6. ASSUME NEW y PROVE Contains(w, y) <=> Contains(s, y) /\ y # x
  <2>1. ASSUME Contains(w, y) PROVE Contains(s, y) /\ y # x
    <3>1. PICK j \in 1..n - 1 : w[j] = y
      BY <1>2, <1>3, <2>1 DEF Contains
    <3>2. CASE j < i
      <4>1. s[j] = y /\ j \in 1..n /\ j # i
        BY <1>3, <1>5, <3>1, <3>2
      <4> QED BY <1>1, <1>3, <1>4, <4>1 DEF Contains
    <3>3. CASE ~(j < i)
      <4>1. s[j + 1] = y /\ j + 1 \in 1..n /\ j + 1 # i
        BY <1>3, <1>5, <3>1, <3>3
      <4> QED BY <1>1, <1>3, <1>4, <4>1 DEF Contains
    <3> QED BY <3>2, <3>3
  <2>2. ASSUME Contains(s, y), y # x PROVE Contains(w, y)
    <3>1. PICK j \in 1..n : s[j] = y
      BY <1>3, <2>2 DEF Contains
    <3>2. j # i
      BY <1>1, <2>2, <3>1
    <3>3. CASE j < i
      <4>1. j \in 1..n - 1 /\ w[j] = y
        BY <1>3, <1>5, <3>1, <3>3
      <4> QED BY <1>2, <1>3, <4>1 DEF Contains
    <3>4. CASE ~(j < i)
      <4>1. j - 1 \in 1..n - 1 /\ ~(j - 1 < i) /\ (j - 1) + 1 = j
        BY <1>3, <3>2, <3>4
      <4>2. w[j - 1] = y
        BY <1>5, <3>1, <4>1
      <4> QED BY <1>2, <1>3, <4>1, <4>2 DEF Contains
    <3> QED BY <3>3, <3>4
  <2> QED BY <2>1, <2>2
<1>7. ASSUME NEW a \in 1..n - 1, NEW b \in 1..n - 1, w[a] = w[b] PROVE a = b
  BY <1>3, <1>4, <1>5, <1>7
<1> QED BY <1>2, <1>3, <1>6, <1>7 DEF w

LEMMA AppendAll ==
  ASSUME NEW S, NEW p \in Seq(S), NEW x \in S
  PROVE  /\ Append(p, x) \in Seq(S) /\ Len(Append(p, x)) = Len(p) + 1
         /\ Append(p, x)[Len(p) + 1] = x /\ Len(p) \in Nat
         /\ \A i \in 1..Len(p) : Append(p, x)[i] = p[i] /\ i \in 1..Len(p) + 1 /\ i < Len(p) + 1
         /\ Len(p) + 1 \in 1..Len(p) + 1 /\ Len(p) + 1 # 0
         /\ \A i \in 1..Len(p) + 1 : i \in 1..Len(p) \/ i = Len(p) + 1
         /\ \A y : Contains(Append(p, x), y) <=> Contains(p, y) \/ y = x
<1> DEFINE a == Append(p, x)
<1>1. /\ a \in Seq(S) /\ Len(a) = Len(p) + 1 /\ a[Len(p) + 1] = x /\ Len(p) \in Nat
      /\ \A i \in 1..Len(p) : a[i] = p[i]
  OBVIOUS
<1> HIDE DEF a
<1>2. PICK n \in Nat : n = Len(p)
  BY <1>1
<1>3. /\ \A i \in 1..n : i \in 1..n + 1 /\ i < n + 1
      /\ n + 1 \in 1..n + 1 /\ n + 1 # 0
      /\ \A i \in 1..n + 1 : i \in 1..n \/ i = n + 1
  OBVIOUS
<1>4. \A y : Contains(a, y) <=> Contains(p, y) \/ y = x
  BY <1>1, <1>2, <1>3 DEF Contains
<1> QED BY <1>1, <1>2, <1>3, <1>4 DEF a

LEMMA TailAll ==
  ASSUME NEW S, NEW p \in Seq(S), p # <<>>
  PROVE  /\ Tail(p) \in Seq(S) /\ Len(Tail(p)) = Len(p) - 1 /\ Head(p) = p[1] /\ Head(p) \in S
         /\ Len(p) \in Nat /\ Len(p) # 0 /\ 1 \in 1..Len(p)
         /\ \A i \in 1..Len(p) - 1 : Tail(p)[i] = p[i + 1] /\ i + 1 \in 1..Len(p) /\ 1 < i + 1
         /\ \A i \in 1..Len(p) : i = 1 \/ (i - 1 \in 1..Len(p) - 1 /\ (i - 1) + 1 = i)
<1>1. Len(p) \in Nat /\ Len(p) # 0
  BY EmptySeq
<1>2. /\ Tail(p) \in Seq(S) /\ Len(Tail(p)) = Len(p) - 1 /\ Head(p) = p[1]
      /\ \A i \in 1..Len(p) - 1 : Tail(p)[i] = p[i + 1]
  BY <1>1
<1>3. PICK n \in Nat : n = Len(p) /\ n # 0
  BY <1>1
<1>4. /\ 1 \in 1..n /\ \A i \in 1..n - 1 : i + 1 \in 1..n /\ 1 < i + 1
      /\ \A i \in 1..n : i = 1 \/ (i - 1 \in 1..n - 1 /\ (i - 1) + 1 = i)
  BY <1>3
<1>5. Head(p) \in S
  BY <1>2, <1>3, <1>4
<1> QED BY <1>1, <1>2, <1>3, <1>4, <1>5

LEMMA BooksParts ==
  ASSUME Books
  PROVE  /\ SharedTypes /\ Uids /\ Births /\ Stopping /\ Asking /\ Serving /\ Opening
BY DEF Books

LEMMA SharedTyped ==
  ASSUME SharedTypes
  PROVE  /\ next \in Seq(Sub) /\ op \in [Sub \cup {Primary} -> OpRec] /\ record \in [Rec -> RecRec]
         /\ pending \in CallRec /\ requests \in Seq(Hdr) /\ replies \in Seq(Rep)
         /\ served \subseteq Work /\ mdns \in {"up", "down"} /\ made \in Nat
         /\ (pending.api = "none" => pending = NoCall)
         /\ Len(requests) \in Nat /\ Len(replies) \in Nat /\ Len(next) \in Nat
BY DEF SharedTypes

LEMMA HdrFields ==
  ASSUME SharedTypes, NEW i \in 1..Len(requests)
  PROVE  /\ requests[i] \in Hdr /\ requests[i].uid \in Nat /\ requests[i].index \in Nat
         /\ requests[i].born \in Nat
         /\ requests[i].op \in {"request", "register", "add", "update", "remove", "cancel"}
<1>1. requests[i] \in Hdr
  BY DEF SharedTypes
<1> QED BY <1>1 DEF Hdr

LEMMA OpFields ==
  ASSUME SharedTypes, NEW r \in Sub \cup {Primary}
  PROVE  /\ op[r] \in OpRec /\ op[r].uid \in Nat /\ op[r].rec \in Seq(Rec)
         /\ op[r].maxIndex \in Nat /\ op[r].born \in Nat
<1>1. op[r] \in OpRec
  BY DEF SharedTypes
<1> QED BY <1>1 DEF OpRec

-----------------------------------------------------------------------------
\* Only what is on its way to the client changes.
LEMMA RepliesKeep ==
  ASSUME Books, UNCHANGED <<conn, next, op, record, pending, requests, served, mdns>>, made' \in Nat,
         replies' \in Seq(Rep), conn = "none" => Len(replies') = 0,
         \A i \in 1..Len(replies') : \/ \E j \in 1..Len(replies) : replies'[i] = replies[j]
                                     \/ \E e \in served : replies'[i].op = e.op /\ replies'[i].uid = e.uid
                                                          /\ replies'[i].born = e.born
  PROVE  Books'
<1>1. SharedTypes /\ Uids /\ Births /\ Stopping /\ Asking /\ Serving /\ Opening
  BY BooksParts
<1>2. /\ next' = next /\ op' = op /\ record' = record /\ pending' = pending /\ requests' = requests
      /\ served' = served /\ mdns' = mdns /\ conn' = conn
  OBVIOUS
<1>3. SharedTypes'
  BY <1>1, <1>2 DEF SharedTypes
<1>4. Uids'
  <2>1. ASSUME NEW i \in 1..Len(replies') PROVE Old(replies'[i].uid)
    BY <1>1 DEF Uids
  <2> QED BY <1>1, <1>2, <2>1 DEF Uids, Old, Held, Linked
<1>5. Births'
  <2>1. ASSUME NEW i \in 1..Len(replies') PROVE IsFor(replies'[i])
    <3>1. CASE \E j \in 1..Len(replies) : replies'[i] = replies[j]
      BY <1>1, <3>1 DEF Births
    <3>2. CASE \E e \in served : replies'[i].op = e.op /\ replies'[i].uid = e.uid
                                 /\ replies'[i].born = e.born
      BY <1>1, <3>2 DEF Births, IsFor
    <3> QED BY <3>1, <3>2
  <2> QED BY <1>1, <1>2, <2>1 DEF Births, IsFor, IndexFits, Held, Linked
<1>6. Stopping' /\ Asking' /\ Serving'
  BY <1>1, <1>2 DEF Stopping, Asking, Serving, Cancel, Lives, Listed, Asks, Waiting, Held, Linked
<1>7. Opening'
  BY <1>1, <1>2 DEF Opening
<1> QED BY <1>3, <1>4, <1>5, <1>6, <1>7 DEF Books

\* Only the call that waits changes, and it waits for nothing of the connection.
LEMMA PendingKeeps ==
  ASSUME Books, UNCHANGED <<conn, next, op, record, requests, replies, served, mdns>>, made' \in Nat,
         pending' \in CallRec, pending'.api = "none" => pending' = NoCall,
         pending'.api \in {"none", "ask"},
         pending.api = "request" => pending.answer = "ok" \/ mdns = "down"
  PROVE  Books'
<1>1. SharedTypes /\ Uids /\ Births /\ Stopping /\ Asking /\ Serving /\ Opening
  BY BooksParts
<1>2. /\ next' = next /\ op' = op /\ record' = record /\ replies' = replies /\ requests' = requests
      /\ served' = served /\ mdns' = mdns /\ conn' = conn
  OBVIOUS
<1>3. SharedTypes'
  BY <1>1, <1>2 DEF SharedTypes
<1>4. Uids' /\ Births'
  BY <1>1, <1>2 DEF Uids, Births, IsFor, IndexFits, Old, Held, Linked
<1>5. Stopping'
  BY <1>1, <1>2 DEF Stopping, Cancel, Lives, Listed, Held, Linked
<1>6. Asking'
  BY <1>1, <1>2 DEF Asking, Waiting
<1>7. Serving'
  BY <1>1, <1>2 DEF Serving, Held
<1>8. Opening'
  BY <1>1, <1>2 DEF Opening
<1> QED BY <1>3, <1>4, <1>5, <1>6, <1>7, <1>8 DEF Books

LEMMA BooksKept ==
  ASSUME Books, UNCHANGED <<conn, next, op, record, pending, requests, replies, served, mdns, made>>
  PROVE  Books'
<1>1. SharedTypes /\ Uids /\ Births /\ Stopping /\ Asking /\ Serving /\ Opening
  BY BooksParts
<1>2. \A i \in 1..Len(replies') : \E j \in 1..Len(replies) : replies'[i] = replies[j]
  OBVIOUS
<1> QED BY <1>1, <1>2, SharedTyped, RepliesKeep DEF Opening

LEMMA DaemonEndsKeeps ==
  ASSUME Books, DaemonEnds PROVE Books'
<1>1. SharedTypes /\ Uids /\ Births /\ Stopping /\ Asking /\ Serving /\ Opening
  BY BooksParts
<1>2. /\ mdns' = "down" /\ served' = {} /\ requests' = <<>>
      /\ next' = next /\ op' = op /\ record' = record /\ pending' = pending
      /\ replies' = replies /\ conn' = conn /\ made' = made
  BY DEF DaemonEnds
<1>3. Len(requests') = 0 /\ requests' \in Seq(Hdr)
  BY <1>2
<1>4. \A i \in 1..Len(requests') : FALSE
  BY <1>3
<1>5. SharedTypes'
  BY <1>1, <1>2, <1>3, SMTT(40) DEF SharedTypes
<1>6. Uids' /\ Births'
  BY <1>1, <1>2, <1>4 DEF Uids, Births, IsFor, IndexFits, Old, Held, Linked
<1>7. Stopping' /\ Serving' /\ Opening'
  BY <1>1, <1>2, <1>3, <1>4 DEF Stopping, Serving, Opening
<1>8. Asking'
  BY <1>1, <1>2, <1>3 DEF Asking, Waiting, Held, Linked
<1> QED BY <1>5, <1>6, <1>7, <1>8 DEF Books

\* A reply arrives, or is read.
LEMMA DaemonRepliesKeeps ==
  ASSUME Books, DaemonReplies PROVE Books'
<1>1. SharedTypes /\ Births /\ Opening
  BY BooksParts
<1>2. PICK e \in served : replies' = Append(replies, [op |-> e.op, uid |-> e.uid, born |-> e.born])
  BY DEF DaemonReplies
<1> DEFINE m == [op |-> e.op, uid |-> e.uid, born |-> e.born]
<1>3. UNCHANGED <<conn, next, op, record, pending, requests, served, mdns, made>>
  BY DEF DaemonReplies
<1>4. m \in Rep /\ m.op = e.op /\ m.uid = e.uid /\ m.born = e.born
  <2>1. e \in Work
    BY <1>1, <1>2 DEF SharedTypes
  <2> QED BY <2>1 DEF Work, Rep
<1> HIDE DEF m
<1>5. replies \in Seq(Rep) /\ replies' = Append(replies, m)
  BY <1>1, <1>2, SharedTyped DEF m
<1>6. /\ replies' \in Seq(Rep) /\ Len(replies') = Len(replies) + 1
      /\ replies'[Len(replies) + 1] = m
      /\ \A i \in 1..Len(replies) : replies'[i] = replies[i]
      /\ \A i \in 1..Len(replies) + 1 : i \in 1..Len(replies) \/ i = Len(replies) + 1
  BY <1>4, <1>5, AppendAll
<1>7. ASSUME NEW i \in 1..Len(replies')
      PROVE  \/ \E j \in 1..Len(replies) : replies'[i] = replies[j]
             \/ \E f \in served : /\ replies'[i].op = f.op /\ replies'[i].uid = f.uid
                                  /\ replies'[i].born = f.born
  <2>1. CASE i \in 1..Len(replies)
    BY <1>6, <2>1
  <2>2. CASE i = Len(replies) + 1
    BY <1>2, <1>4, <1>6, <2>2
  <2> QED BY <1>6, <2>1, <2>2
<1>8. conn # "none"
  BY <1>1, <1>2 DEF Opening
<1>9. made' \in Nat
  BY <1>1, <1>3, SharedTyped
<1> QED BY <1>3, <1>6, <1>7, <1>8, <1>9, RepliesKeep

LEMMA ProcessResultKeeps ==
  ASSUME Books, DNSServiceProcessResult PROVE Books'
<1>1. SharedTypes /\ Opening
  BY BooksParts
<1>2. /\ UNCHANGED <<conn, next, op, record, pending, requests, served, mdns, made>>
      /\ replies # <<>> /\ replies' = Tail(replies) /\ conn = "open"
  BY DEF DNSServiceProcessResult
<1>3. replies \in Seq(Rep) /\ made' \in Nat
  BY <1>1, <1>2, SharedTyped
<1>4. /\ replies' \in Seq(Rep) /\ Len(replies') = Len(replies) - 1
      /\ \A i \in 1..Len(replies) - 1 : replies'[i] = replies[i + 1] /\ i + 1 \in 1..Len(replies)
  BY <1>2, <1>3, TailAll
<1>5. \A i \in 1..Len(replies') : \E j \in 1..Len(replies) : replies'[i] = replies[j]
  BY <1>4
<1> QED BY <1>2, <1>3, <1>4, <1>5, RepliesKeep

LEMMA LoopStepsKeep ==
  ASSUME Books, CallbackReturns \/ AfterReply \/ SharedReadFails PROVE Books'
<1>1. UNCHANGED <<conn, next, op, record, pending, requests, replies, served, mdns, made>>
  BY DEF CallbackReturns, AfterReply, SharedReadFails
<1> QED BY <1>1, BooksKept

\* What waits for nothing of the connection.
LEMMA AskKeeps ==
  ASSUME Books, Ask PROVE Books'
<1>1. SharedTypes
  BY BooksParts
<1>2. /\ UNCHANGED <<conn, next, op, record, requests, replies, served, mdns>>
      /\ pending' = [NoCall EXCEPT !.api = "ask"] /\ pending = NoCall /\ made' = made + 1
  BY DEF Ask, Calling
<1>3. pending' \in CallRec /\ pending'.api = "ask" /\ pending.api = "none"
  BY <1>2 DEF CallRec, NoCall
<1>4. made' \in Nat
  BY <1>1, <1>2, SharedTyped
<1> QED BY <1>2, <1>3, <1>4, PendingKeeps

LEMMA AnswerAskedKeeps ==
  ASSUME Books, NEW good \in BOOLEAN, AnswerAsked(good) PROVE Books'
<1>1. SharedTypes
  BY BooksParts
<1>2. /\ UNCHANGED <<conn, next, op, record, requests, replies, served, mdns, made>>
      /\ pending' = [pending EXCEPT !.answer = IF good THEN "ok" ELSE "error"]
      /\ pending.api = "ask"
  BY DEF AnswerAsked
<1>3. PICK p \in CallRec : p = pending
  BY <1>1, SharedTyped
<1>4. pending' = [p EXCEPT !.answer = IF good THEN "ok" ELSE "error"] /\ p.api = "ask"
  BY <1>2, <1>3
<1>5. pending' \in CallRec /\ pending'.api = "ask"
  BY <1>4 DEF CallRec
<1>6. made' \in Nat
  BY <1>1, <1>2, SharedTyped
<1> QED BY <1>2, <1>5, <1>6, PendingKeeps

-----------------------------------------------------------------------------
\* A request is written, unless the daemon is gone.
LEMMA WriteOne ==
  ASSUME SharedTypes, NEW h \in Hdr, Write(<<h>>), mdns = "down" => Len(requests) = 0
  PROVE  /\ requests' \in Seq(Hdr)
         /\ \A i \in 1..Len(requests') : \/ i \in 1..Len(requests) /\ requests'[i] = requests[i]
                                         \/ i = Len(requests) + 1 /\ requests'[i] = h /\ mdns = "up"
         /\ \A i \in 1..Len(requests) : /\ i \in 1..Len(requests') /\ requests'[i] = requests[i]
                                        /\ i < Len(requests) + 1 /\ mdns = "up"
         /\ mdns = "up" => /\ Len(requests') = Len(requests) + 1 /\ Len(requests') # 0
                           /\ Len(requests) + 1 \in 1..Len(requests')
                           /\ requests'[Len(requests) + 1] = h
         /\ mdns = "down" => Len(requests') = 0
<1>1. requests \in Seq(Hdr) /\ mdns \in {"up", "down"}
  BY SharedTyped
<1>2. CASE mdns = "down"
  <2>1. requests' = requests /\ Len(requests) = 0
    BY <1>2 DEF Write
  <2>2. \A i \in 1..Len(requests) : FALSE
    BY <2>1
  <2> QED BY <1>1, <1>2, <2>1, <2>2
<1>3. CASE mdns = "up"
  <2>1. requests' = requests \o <<h>>
    BY <1>3 DEF Write
  <2>2. requests \o <<h>> = Append(requests, h)
    BY <1>1
  <2>3. requests' = Append(requests, h)
    BY <2>1, <2>2
  <2> QED BY <1>1, <1>3, <2>3, AppendAll
<1> QED BY <1>1, <1>2, <1>3

\* A subordinate is deallocated, by the application or because its request has failed.
LEMMA StopKeeps ==
  ASSUME Books, SharedAssumption, NEW s \in Sub, Held(s), Stop(s), UNCHANGED <<conn, record, replies, served, mdns>>,
         pending' = NoCall, made' \in Nat, pending.api = "request" => pending.of = s
  PROVE  Books'
<1>1. SharedTypes /\ Uids /\ Births /\ Stopping /\ Asking /\ Serving /\ Opening
  BY BooksParts
<1> DEFINE c == create_hdr("cancel", op[s].uid, 0, op[s].born)
<1>2. /\ record' = record /\ replies' = replies /\ served' = served /\ mdns' = mdns /\ conn' = conn
      /\ next' = Unlinked(next, s) /\ op' = [op EXCEPT ![s] = NoOp] /\ Write(<<c>>)
  BY DEF Stop, FreeDNSServiceOp
<1>3. Primary # s /\ Primary \notin Sub
  BY DEF SharedAssumption
<1>4. /\ op' \in [Sub \cup {Primary} -> OpRec] /\ op'[Primary] = op[Primary] /\ op'[s] = NoOp
      /\ \A t \in Sub : t # s => op'[t] = op[t]
  <2>1. NoOp \in OpRec
    BY DEF NoOp, OpRec
  <2>2. op \in [Sub \cup {Primary} -> OpRec]
    BY <1>1, SharedTyped
  <2> QED BY <1>2, <1>3, <2>1, <2>2
<1>5. /\ next' \in Seq(Sub) /\ \A i, j \in 1..Len(next') : next'[i] = next'[j] => i = j
      /\ \A t : Contains(next', t) <=> Contains(next, t) /\ t # s
  <2>1. next \in Seq(Sub) /\ Contains(next, s) /\ \A i, j \in 1..Len(next) : next[i] = next[j] => i = j
    BY <1>1 DEF SharedTypes, Held
  <2> QED BY <1>2, <2>1, UnlinkedHas
<1>6. /\ \A t \in Sub : (Held(t))' <=> Held(t) /\ t # s
      /\ \A d \in Rec : (Linked(d))' <=> Linked(d)
  BY <1>4, <1>5 DEF Held, Linked
<1>7. c \in Hdr /\ c.op = "cancel" /\ c.uid = op[s].uid
  BY <1>1, OpFields DEF Hdr, create_hdr
<1>8. mdns = "down" => Len(requests) = 0 /\ served = {}
  BY <1>1 DEF Asking
<1> HIDE DEF c
<1>9. /\ requests' \in Seq(Hdr)
      /\ \A i \in 1..Len(requests') : \/ i \in 1..Len(requests) /\ requests'[i] = requests[i]
                                      \/ i = Len(requests) + 1 /\ requests'[i] = c /\ mdns = "up"
      /\ \A i \in 1..Len(requests) : /\ i \in 1..Len(requests') /\ requests'[i] = requests[i]
                                     /\ i < Len(requests) + 1 /\ mdns = "up"
      /\ mdns = "up" => /\ Len(requests') = Len(requests) + 1 /\ Len(requests') # 0
                        /\ Len(requests) + 1 \in 1..Len(requests')
                        /\ requests'[Len(requests) + 1] = c
      /\ mdns = "down" => Len(requests') = 0
  BY <1>1, <1>2, <1>7, <1>8, WriteOne
<1>10. SharedTypes'
  <2>1. NoCall \in CallRec
    BY DEF NoCall, CallRec
  <2>2. \A r \in Sub \cup {Primary} : \A i, j \in 1..Len(op'[r].rec) : op'[r].rec[i] = op'[r].rec[j] => i = j
    <3> SUFFICES ASSUME NEW r \in Sub \cup {Primary}
                 PROVE  \A i, j \in 1..Len(op'[r].rec) : op'[r].rec[i] = op'[r].rec[j] => i = j
      OBVIOUS
    <3>1. CASE r = s
      <4>1. Len(op'[r].rec) = 0
        BY <1>4, <3>1 DEF NoOp
      <4> QED BY <4>1
    <3>2. CASE r # s
      BY <1>1, <1>4, <3>2 DEF SharedTypes
    <3> QED BY <3>1, <3>2
  <2> QED BY <1>1, <1>2, <1>4, <1>5, <1>9, <2>1, <2>2 DEF SharedTypes
<1>11. Uids'
  <2>1. op[s].uid <= op[Primary].uid
    BY <1>1 DEF Uids, Old
  <2>2. \A i \in 1..Len(requests') : (Old(requests[i].uid))'
    BY <1>1, <1>4, <1>7, <1>9, <2>1 DEF Uids, Old
  <2> QED BY <1>1, <1>2, <1>4, <1>6, <2>2 DEF Uids, Old
<1>12. Births'
  <2>1. ASSUME NEW m, IsFor(m) PROVE (IsFor(m))'
    BY <1>2, <1>4, <1>6, <2>1 DEF IsFor
  <2>2. ASSUME NEW m, IndexFits(m) PROVE (IndexFits(m))'
    BY <1>2, <1>4, <1>6, <2>2 DEF IndexFits
  <2>3. ASSUME NEW i \in 1..Len(requests') PROVE (IsFor(requests[i]) /\ IndexFits(requests[i]))'
    <3>1. CASE i \in 1..Len(requests) /\ requests'[i] = requests[i]
      <4>1. PICK m : m = requests[i]
        OBVIOUS
      <4>2. IsFor(m) /\ IndexFits(m)
        BY <1>1, <3>1, <4>1 DEF Births
      <4> QED BY <2>1, <2>2, <3>1, <4>1, <4>2
    <3>2. CASE requests'[i] = c
      BY <1>7, <3>2 DEF IsFor, IndexFits
    <3> QED BY <1>9, <3>1, <3>2
  <2>4. \A e \in served : (IsFor(e))' /\ (IndexFits(e))'
    BY <1>1, <2>1, <2>2 DEF Births
  <2>5. \A i \in 1..Len(replies) : IsFor(replies[i])
    BY <1>1 DEF Births
  <2>6. ASSUME NEW i \in 1..Len(replies') PROVE (IsFor(replies[i]))'
    <3>1. PICK m : m = replies[i]
      OBVIOUS
    <3> QED BY <1>2, <2>1, <2>5, <3>1
  <2> QED BY <1>2, <2>3, <2>4, <2>6 DEF Births
<1>13. Stopping'
  <2>1. ASSUME NEW i \in 1..Len(requests'), NEW t \in Sub, Held(t)' PROVE ~(Cancel(i, op[t].uid))'
    <3>1. Held(t) /\ t # s /\ op'[t] = op[t]
      BY <1>4, <1>6, <2>1
    <3>2. CASE i \in 1..Len(requests) /\ requests'[i] = requests[i]
      BY <1>1, <3>1, <3>2 DEF Stopping, Cancel
    <3>3. CASE requests'[i] = c
      <4>1. op[t].uid # op[s].uid
        BY <1>1, <3>1 DEF Uids
      <4> QED BY <1>7, <3>1, <3>3, <4>1 DEF Cancel
    <3> QED BY <1>9, <3>2, <3>3
  <2>2. ASSUME NEW u, Lives(u), mdns = "up"
        PROVE  (Lives(u))' \/ (Cancel(Len(requests) + 1, u) /\ Len(requests) + 1 \in 1..Len(requests))'
               \/ (requests'[Len(requests) + 1].op = "cancel" /\ requests'[Len(requests) + 1].uid = u)
    <3>1. PICK t \in Sub : Held(t) /\ op[t].uid = u
      BY <2>2 DEF Lives
    <3>2. CASE t = s
      BY <1>7, <1>9, <2>2, <3>1, <3>2
    <3>3. CASE t # s
      BY <1>4, <1>6, <3>1, <3>3 DEF Lives
    <3> QED BY <3>2, <3>3
  <2>3. ASSUME NEW u, Listed(u) PROVE (Listed(u))'
    BY <1>2, <1>6, <2>3 DEF Listed
  <2>4. ASSUME NEW e \in served', e.op = "reply"
        PROVE  (Lives(e.uid))' \/ \E j \in 1..Len(requests') : (Cancel(j, e.uid))'
    <3>1. mdns = "up"
      BY <1>1, <1>2, <1>8, <2>4, SharedTyped
    <3>2. CASE Lives(e.uid)
      BY <1>9, <2>2, <3>1, <3>2 DEF Cancel
    <3>3. CASE \E j \in 1..Len(requests) : Cancel(j, e.uid)
      BY <1>9, <3>3 DEF Cancel
    <3> QED BY <1>1, <1>2, <2>4, <3>2, <3>3 DEF Stopping
  <2>5. ASSUME NEW i \in 1..Len(requests'), requests'[i].op = "request"
        PROVE  (Lives(requests[i].uid))' \/ \E j \in 1..Len(requests') : i < j /\ (Cancel(j, requests[i].uid))'
    <3>1. i \in 1..Len(requests) /\ requests'[i] = requests[i] /\ i < Len(requests) + 1 /\ mdns = "up"
      BY <1>7, <1>9, <2>5
    <3>2. PICK u : u = requests[i].uid
      OBVIOUS
    <3>3. CASE Lives(u)
      BY <1>9, <2>2, <3>1, <3>2, <3>3 DEF Cancel
    <3>4. CASE \E j \in 1..Len(requests) : i < j /\ Cancel(j, u)
      BY <1>9, <3>1, <3>2, <3>4 DEF Cancel
    <3> QED BY <1>1, <2>5, <3>1, <3>2, <3>3, <3>4 DEF Stopping
  <2>6. \A e \in served' : e.op = "record" => (Listed(e.uid))'
    BY <1>1, <1>2, <2>3 DEF Stopping
  <2>7. ASSUME NEW i \in 1..Len(requests'), requests'[i].op = "register"
        PROVE  (Listed(requests[i].uid))'
    <3>1. i \in 1..Len(requests) /\ requests'[i] = requests[i]
      BY <1>7, <1>9, <2>7
    <3>2. PICK u : u = requests[i].uid
      OBVIOUS
    <3> QED BY <1>1, <2>3, <2>7, <3>1, <3>2 DEF Stopping
  <2> QED BY <2>1, <2>4, <2>5, <2>6, <2>7 DEF Stopping
<1>14. Asking'
  <2>1. pending'.api = "none"
    BY DEF NoCall
  <2> QED BY <1>2, <1>8, <1>9, <2>1 DEF Asking, Waiting
<1>15. Serving'
  <2> SUFFICES ASSUME mdns' = "up", NEW t \in Sub, Held(t)'
               PROVE  \E e \in served' : e.op = "reply" /\ e.uid = op'[t].uid /\ e.born = op'[t].born
    BY DEF Serving
  <2>1. Held(t) /\ t # s /\ op'[t] = op[t]
    BY <1>4, <1>6
  <2> QED BY <1>1, <1>2, <2>1 DEF Serving
<1>16. Opening'
  <2>1. Len(next) # 0
    BY <1>1, SharedTyped DEF Held, Contains
  <2> QED BY <1>1, <1>2, <2>1 DEF Opening
<1> QED BY <1>10, <1>11, <1>12, <1>13, <1>14, <1>15, <1>16 DEF Books

\* A list without what may be one of its members.
LEMMA UnlinkedAny ==
  ASSUME NEW S, NEW s \in Seq(S), NEW x, \A a, b \in 1..Len(s) : s[a] = s[b] => a = b
  PROVE  /\ Unlinked(s, x) \in Seq(S)
         /\ \A y : Contains(Unlinked(s, x), y) <=> Contains(s, y) /\ y # x
         /\ \A a, b \in 1..Len(Unlinked(s, x)) : Unlinked(s, x)[a] = Unlinked(s, x)[b] => a = b
<1>1. CASE Contains(s, x)
  BY <1>1, UnlinkedHas
<1>2. CASE ~Contains(s, x)
  <2>1. Unlinked(s, x) = s
    BY <1>2 DEF Unlinked
  <2> QED BY <1>2, <2>1
<1> QED BY <1>1, <1>2

\* A record is removed, and freed.
LEMMA RemoveKeeps ==
  ASSUME Books, SharedAssumption, pending.api = "remove", pending.answer = "ok" \/ mdns = "down",
         op' = [op EXCEPT ![pending.of].rec = Unlinked(@, pending.record)],
         UNCHANGED <<conn, next, record, requests, replies, served, mdns>>,
         pending' = NoCall, made' \in Nat
  PROVE  Books'
<1>1. SharedTypes /\ Uids /\ Births /\ Stopping /\ Asking /\ Serving /\ Opening
  BY BooksParts
<1>2. /\ record' = record /\ replies' = replies /\ served' = served /\ mdns' = mdns /\ conn' = conn
      /\ next' = next /\ requests' = requests
  OBVIOUS
<1>3. PICK r : r = pending.of
  OBVIOUS
<1>4. PICK x : x = pending.record
  OBVIOUS
<1>5. op' = [op EXCEPT ![r].rec = Unlinked(op[r].rec, x)] /\ op \in [Sub \cup {Primary} -> OpRec]
  BY <1>1, <1>3, <1>4, SharedTyped
<1>6. /\ op' \in [Sub \cup {Primary} -> OpRec]
      /\ \A t \in Sub \cup {Primary} :
           /\ op'[t].uid = op[t].uid /\ op'[t].born = op[t].born
           /\ t # r => op'[t] = op[t]
           /\ t = r => op'[t].rec = Unlinked(op[t].rec, x)
  <2>1. CASE r \in Sub \cup {Primary}
    <3>1. PICK o \in OpRec : o = op[r]
      BY <1>5, <2>1
    <3>2. PICK l : l = Unlinked(op[r].rec, x)
      OBVIOUS
    <3>3. l \in Seq(Rec)
      <4>1. op[r].rec \in Seq(Rec) /\ \A i, j \in 1..Len(op[r].rec) : op[r].rec[i] = op[r].rec[j] => i = j
        BY <1>1, <2>1, OpFields DEF SharedTypes
      <4> QED BY <3>2, <4>1, UnlinkedAny
    <3> DEFINE q == [o EXCEPT !.rec = l]
    <3>4. q \in OpRec /\ q.uid = o.uid /\ q.born = o.born /\ q.rec = l
      BY <3>3 DEF OpRec
    <3>5. op' = [op EXCEPT ![r] = q]
      BY <1>5, <3>1, <3>2
    <3> HIDE DEF q
    <3> QED BY <1>5, <2>1, <3>1, <3>2, <3>4, <3>5, ZenonT(60)
  <2>2. CASE r \notin Sub \cup {Primary}
    <3>1. op' = op
      BY <1>5, <2>2
    <3> QED BY <1>5, <2>2, <3>1
  <2> QED BY <2>1, <2>2
<1>7. ASSUME NEW t \in Sub \cup {Primary}
      PROVE  /\ \A i, j \in 1..Len(op'[t].rec) : op'[t].rec[i] = op'[t].rec[j] => i = j
             /\ \A d : Contains(op'[t].rec, d) <=> Contains(op[t].rec, d) /\ ~(t = r /\ d = x)
  <2>1. op[t].rec \in Seq(Rec) /\ \A i, j \in 1..Len(op[t].rec) : op[t].rec[i] = op[t].rec[j] => i = j
    BY <1>1, OpFields DEF SharedTypes
  <2>2. CASE t = r
    <3>1. PICK l \in Seq(Rec) : l = op[t].rec
      BY <2>1
    <3>2. PICK k : k = Unlinked(l, x)
      OBVIOUS
    <3>3. op'[t].rec = k
      BY <1>6, <2>2, <3>1, <3>2
    <3>4. /\ \A d : Contains(k, d) <=> Contains(l, d) /\ d # x
          /\ \A i, j \in 1..Len(k) : k[i] = k[j] => i = j
      BY <2>1, <3>1, <3>2, UnlinkedAny
    <3>5. \A d : Contains(op'[t].rec, d) <=> Contains(k, d)
      BY <3>3 DEF Contains
    <3>6. \A d : Contains(op[t].rec, d) <=> Contains(l, d)
      BY <3>1 DEF Contains
    <3> QED BY <2>2, <3>3, <3>4, <3>5, <3>6
  <2>3. CASE t # r
    <3>1. op'[t] = op[t]
      BY <1>6, <2>3
    <3>2. \A d : Contains(op'[t].rec, d) <=> Contains(op[t].rec, d)
      BY <3>1 DEF Contains
    <3> QED BY <2>1, <2>3, <3>1, <3>2
  <2> QED BY <2>2, <2>3
<1>8. /\ \A t \in Sub : (Held(t))' <=> Held(t)
      /\ \A d \in Rec : (Linked(d))' <=> Linked(d) /\ ~(r = Primary /\ d = x)
  BY <1>2, <1>7 DEF Held, Linked
<1>9. Len(requests) = 0 /\ (mdns = "down" => served = {})
  BY <1>1 DEF Asking, Waiting
<1>10. \A i \in 1..Len(requests) : FALSE
  BY <1>1, <1>9 DEF Asking, Waiting
<1>11. Len(requests) = 0
  BY <1>1 DEF Asking, Waiting
<1>12. SharedTypes'
  <2>1. NoCall \in CallRec
    BY DEF NoCall, CallRec
  <2> QED BY <1>1, <1>2, <1>6, <1>7, <2>1 DEF SharedTypes
<1>13. Uids'
  BY <1>1, <1>2, <1>6, <1>8, <1>10 DEF Uids, Old
<1>14. Births'
  BY <1>1, <1>2, <1>6, <1>8, <1>10 DEF Births, IsFor, IndexFits
<1>15. Stopping'
  <2>1. ASSUME NEW e \in served, e.op = "record" PROVE (Listed(e.uid))'
    <3>1. PICK d \in Rec : Linked(d) /\ record[d].uid = e.uid
      BY <1>1, <2>1 DEF Stopping, Listed
    <3>2. ~(r = Primary /\ d = x)
      <4>1. SUFFICES ASSUME r = Primary, d = x PROVE FALSE
        OBVIOUS
      <4>2. mdns # "down"
        BY <1>9, <2>1
      <4>3. e.uid # record[x].uid
        BY <1>1, <1>3, <1>4, <2>1, <4>1, <4>2 DEF Asking
      <4> QED BY <3>1, <4>1, <4>3
    <3>3. (Linked(d))'
      BY <1>8, <3>1, <3>2
    <3> QED BY <1>2, <3>1, <3>3 DEF Listed
  <2>2. \A u : Lives(u) => (Lives(u))'
    BY <1>6, <1>8 DEF Lives
  <2>3. \A e \in served : e.op = "reply" => Lives(e.uid)
    BY <1>1, <1>10 DEF Stopping
  <2>4. \A i \in 1..Len(requests') : FALSE
    BY <1>2, <1>10
  <2> QED BY <1>2, <2>1, <2>2, <2>3, <2>4 DEF Stopping
<1>16. Asking'
  <2>1. pending'.api = "none"
    BY DEF NoCall
  <2> QED BY <1>2, <1>9, <1>11, <2>1 DEF Asking, Waiting
<1>17. Serving'
  BY <1>1, <1>2, <1>6, <1>8 DEF Serving
<1>18. Opening'
  BY <1>1, <1>2 DEF Opening
<1> QED BY <1>12, <1>13, <1>14, <1>15, <1>16, <1>17, <1>18 DEF Books

\* A call returns.
LEMMA ReturnKeeps ==
  ASSUME Books, SharedAssumption, NEW error \in BOOLEAN, Return(error),
         ~error => pending.answer = "ok" \/ mdns = "down"
  PROVE  Books'
<1>1. SharedTypes /\ Asking
  BY BooksParts
<1>2. /\ UNCHANGED <<conn, record, replies, served, mdns>> /\ pending' = NoCall /\ made' = made
  BY DEF Return
<1>3. made' \in Nat /\ NoCall \in CallRec /\ NoCall.api = "none"
  BY <1>1, <1>2, SharedTyped DEF NoCall, CallRec
<1>4. CASE pending.api = "request" /\ error
  <2>1. Stop(pending.of)
    BY <1>4 DEF Return
  <2>2. PICK s \in Sub : s = pending.of /\ Held(s)
    BY <1>1, <1>4 DEF Asking
  <2>3. Stop(s)
    BY <2>1, <2>2
  <2> QED BY <1>2, <1>3, <2>2, <2>3, StopKeeps
<1>5. CASE pending.api = "remove" /\ ~error
  <2>1. op' = [op EXCEPT ![pending.of].rec = Unlinked(@, pending.record)] /\ UNCHANGED <<next, requests>>
    BY <1>5 DEF Return
  <2> QED BY <1>2, <1>3, <1>5, <2>1, RemoveKeeps
<1>6. CASE ~(pending.api = "request" /\ error) /\ ~(pending.api = "remove" /\ ~error)
  <2>1. UNCHANGED <<op, next, requests>>
    BY <1>6 DEF Return
  <2> QED BY <1>2, <1>3, <1>6, <2>1, PendingKeeps
<1> QED BY <1>4, <1>5, <1>6

LEMMA ReturnsKeep ==
  ASSUME Books, SharedAssumption, Answered \/ GivesUp \/ AcceptFails PROVE Books'
<1>1. SharedTypes
  BY BooksParts
<1>2. CASE Answered
  <2>1. pending.answer \in {"ok", "error"}
    BY <1>1, <1>2, SharedTyped DEF Answered, CallRec
  <2>2. PICK error \in BOOLEAN : error = (pending.answer = "error")
    OBVIOUS
  <2>3. Return(error)
    BY <1>2, <2>2 DEF Answered
  <2> QED BY <2>1, <2>2, <2>3, ReturnKeeps
<1>3. CASE GivesUp
  BY <1>3, ReturnKeeps DEF GivesUp
<1>4. CASE AcceptFails
  BY <1>4, ReturnKeeps DEF AcceptFails
<1> QED BY <1>2, <1>3, <1>4

LEMMA OldOnes ==
  ASSUME Books
  PROVE  /\ \A e \in served : e.uid \in Nat /\ e.uid <= op[Primary].uid
         /\ \A i \in 1..Len(replies) : replies[i].uid \in Nat /\ replies[i].uid <= op[Primary].uid
         /\ \A i \in 1..Len(requests) : requests[i].uid \in Nat /\ requests[i].uid <= op[Primary].uid
         /\ \A t \in Sub : op[t].uid \in Nat /\ (Held(t) => op[t].uid <= op[Primary].uid)
         /\ \A d \in Rec : record[d].uid \in Nat /\ (Linked(d) => record[d].uid <= op[Primary].uid)
         /\ op[Primary].uid \in Nat
<1>1. SharedTypes /\ Uids
  BY BooksParts
<1>2. \A e \in served : e.uid \in Nat
  BY <1>1, SharedTyped DEF Work
<1>3. \A i \in 1..Len(replies) : replies[i].uid \in Nat
  <2>1. \A i \in 1..Len(replies) : replies[i] \in Rep
    BY <1>1, SharedTyped
  <2> QED BY <2>1 DEF Rep
<1>4. \A d \in Rec : record[d].uid \in Nat
  BY <1>1, SharedTyped DEF RecRec
<1> QED BY <1>1, <1>2, <1>3, <1>4, HdrFields, OpFields DEF Uids, Old

\* An operation is asked for.
LEMMA RequestKeeps ==
  ASSUME Books, SharedAssumption, NEW withReply \in BOOLEAN, NEW register \in BOOLEAN,
         Request(withReply, register)
  PROVE  Books'
<1>1. SharedTypes /\ Uids /\ Births /\ Stopping /\ Asking /\ Serving /\ Opening
  BY BooksParts
<1>2. PICK s : s = CHOOSE x \in Sub : x \notin ToSet(next)
  OBVIOUS
<1>3. s \in Sub /\ ~Held(s)
  <2>1. s \in Sub /\ s \notin ToSet(next)
    BY <1>2 DEF Request
  <2>2. next \in Seq(Sub) /\ DOMAIN next = 1..Len(next)
    BY <1>1, SharedTyped
  <2> QED BY <2>1, <2>2 DEF Held, Contains, ToSet
<1>4. PICK n : n = op[Primary].uid + 1
  OBVIOUS
<1>5. PICK b \in Nat : b = made'
  BY <1>1, SharedTyped DEF Request, Calling
<1> DEFINE o == [NoOp EXCEPT !.uid = n, !.replies = withReply, !.register = register, !.born = b]
           h == create_hdr("request", op'[s].uid, 0, made')
           p == [api |-> "request", of |-> s, record |-> Nobody, answer |-> "none"]
<1>6. /\ record' = record /\ replies' = replies /\ served' = served /\ mdns' = mdns /\ conn' = conn
      /\ conn = "open" /\ pending = NoCall /\ pending.api = "none"
      /\ next' = Append(next, s)
      /\ op' = [op EXCEPT ![Primary].uid = @ + 1, ![s] = o]
      /\ Write(<<h>>) /\ pending' = p
  BY <1>2, <1>4, <1>5 DEF Request, ConnectToServer, Deliver, Calling, NoCall
<1>7. Primary # s /\ Primary \notin Sub
  BY <1>3 DEF SharedAssumption
<1>8. n \in Nat /\ n > op[Primary].uid /\ op[Primary].uid \in Nat
  BY <1>1, <1>4, OpFields
<1>9. o \in OpRec /\ o.uid = n /\ o.born = b /\ o.rec = <<>>
  <2>1. PICK x : x = NoOp
    OBVIOUS
  <2>2. x \in OpRec /\ x.rec = <<>>
    BY <2>1 DEF NoOp, OpRec
  <2>3. o = [x EXCEPT !.uid = n, !.replies = withReply, !.register = register, !.born = b]
    BY <2>1
  <2> QED BY <1>8, <2>2, <2>3 DEF OpRec
<1>10. PICK q \in OpRec : q = op[Primary]
  BY <1>1, OpFields
<1> DEFINE z == [q EXCEPT !.uid = n]
<1>11. z \in OpRec /\ z.uid = n /\ z.rec = q.rec
  BY <1>8 DEF OpRec
<1>12. op' = [op EXCEPT ![Primary] = z, ![s] = o] /\ op \in [Sub \cup {Primary} -> OpRec]
  BY <1>1, <1>4, <1>6, <1>7, <1>10, SharedTyped
<1> HIDE DEF o, z
<1>13. /\ op' \in [Sub \cup {Primary} -> OpRec] /\ op'[Primary].uid = n
       /\ op'[Primary].rec = op[Primary].rec
       /\ op'[s] = o /\ \A t \in Sub : t # s => op'[t] = op[t]
  BY <1>3, <1>7, <1>9, <1>10, <1>11, <1>12
<1>14. h \in Hdr /\ h.op = "request" /\ h.uid = n /\ h.born = b
  BY <1>5, <1>8, <1>9, <1>13 DEF Hdr, create_hdr
<1>15. /\ p \in CallRec /\ p.api = "request" /\ p.of = s /\ p.answer = "none"
  BY <1>3 DEF CallRec
<1> HIDE DEF h, p
<1>16. /\ next' \in Seq(Sub) /\ Len(next') = Len(next) + 1 /\ next'[Len(next) + 1] = s
       /\ \A i \in 1..Len(next) : next'[i] = next[i]
       /\ \A i \in 1..Len(next) + 1 : i \in 1..Len(next) \/ i = Len(next) + 1
       /\ \A t : Contains(next', t) <=> Contains(next, t) \/ t = s
  BY <1>1, <1>3, <1>6, AppendAll, SharedTyped
<1>17. \A i, j \in 1..Len(next') : next'[i] = next'[j] => i = j
  <2>1. \A i \in 1..Len(next) : next[i] # s
    BY <1>3 DEF Held, Contains
  <2>2. \A i, j \in 1..Len(next) : next[i] = next[j] => i = j
    BY <1>1 DEF SharedTypes
  <2>3. \A i \in 1..Len(next') : (i \in 1..Len(next) /\ next'[i] = next[i]) \/ (i = Len(next) + 1 /\ next'[i] = s)
    BY <1>16
  <2> QED BY <2>1, <2>2, <2>3
<1>18. /\ \A t \in Sub : (Held(t))' <=> Held(t) \/ t = s
       /\ \A d \in Rec : (Linked(d))' <=> Linked(d)
  BY <1>13, <1>16 DEF Held, Linked
<1>19. mdns = "down" => Len(requests) = 0 /\ served = {}
  BY <1>1 DEF Asking
<1>20. /\ requests' \in Seq(Hdr)
       /\ \A i \in 1..Len(requests') : \/ i \in 1..Len(requests) /\ requests'[i] = requests[i]
                                       \/ i = Len(requests) + 1 /\ requests'[i] = h /\ mdns = "up"
       /\ \A i \in 1..Len(requests) : /\ i \in 1..Len(requests') /\ requests'[i] = requests[i]
                                      /\ i < Len(requests) + 1 /\ mdns = "up"
       /\ mdns = "up" => /\ Len(requests') = Len(requests) + 1 /\ Len(requests') # 0
                         /\ Len(requests) + 1 \in 1..Len(requests')
                         /\ requests'[Len(requests) + 1] = h
       /\ mdns = "down" => Len(requests') = 0
  BY <1>1, <1>6, <1>14, <1>19, WriteOne
<1>21. SharedTypes'
  <2>1. \A r \in Sub \cup {Primary} : \A i, j \in 1..Len(op'[r].rec) : op'[r].rec[i] = op'[r].rec[j] => i = j
    <3> SUFFICES ASSUME NEW r \in Sub \cup {Primary}
                 PROVE  \A i, j \in 1..Len(op'[r].rec) : op'[r].rec[i] = op'[r].rec[j] => i = j
      OBVIOUS
    <3>1. CASE r = s
      <4>1. Len(op'[r].rec) = 0
        BY <1>9, <1>13, <3>1
      <4> QED BY <4>1
    <3>2. CASE r # s
      <4>1. op'[r].rec = op[r].rec
        BY <1>13, <3>2
      <4> QED BY <1>1, <4>1 DEF SharedTypes
    <3> QED BY <3>1, <3>2
  <2> QED BY <1>1, <1>5, <1>6, <1>13, <1>15, <1>16, <1>17, <1>20, <2>1 DEF SharedTypes
<1>22. /\ \A u \in Nat : u <= op[Primary].uid => u # n /\ u <= n
       /\ n <= n
  BY <1>8
<1>23. Uids'
  <2>1. \A t \in Sub : (Held(t))' => op'[t].uid <= n
    BY <1>9, <1>13, <1>18, <1>22, OldOnes
  <2>2. ASSUME NEW r \in Sub, NEW t \in Sub, Held(r)', Held(t)', op'[r].uid = op'[t].uid PROVE r = t
    <3>1. CASE r = s
      BY <1>9, <1>13, <1>18, <1>22, <2>2, <3>1, OldOnes
    <3>2. CASE t = s
      BY <1>9, <1>13, <1>18, <1>22, <2>2, <3>2, OldOnes
    <3>3. CASE r # s /\ t # s
      BY <1>1, <1>13, <1>18, <2>2, <3>3 DEF Uids
    <3> QED BY <3>1, <3>2, <3>3
  <2>3. \A d \in Rec : (Linked(d))' => record'[d].uid <= n
    BY <1>6, <1>18, <1>22, OldOnes
  <2>4. \A c, d \in Rec : (Linked(c))' /\ (Linked(d))' /\ record'[c].uid = record'[d].uid => c = d
    BY <1>1, <1>6, <1>18 DEF Uids
  <2>5. \A e \in served' : e.uid <= n
    BY <1>6, <1>22, OldOnes
  <2>6. \A i \in 1..Len(replies') : replies'[i].uid <= n
    BY <1>6, <1>22, OldOnes
  <2>7. \A i \in 1..Len(requests') : requests'[i].uid <= n
    BY <1>14, <1>20, <1>22, OldOnes
  <2> QED BY <1>13, <2>1, <2>2, <2>3, <2>4, <2>5, <2>6, <2>7 DEF Uids, Old
<1>24. ASSUME NEW m, m.uid \in Nat, m.uid <= op[Primary].uid PROVE (IsFor(m) => (IsFor(m))') /\ (IndexFits(m) => (IndexFits(m))')
  BY <1>6, <1>9, <1>13, <1>18, <1>22, <1>24 DEF IsFor, IndexFits
<1>25. Births'
  <2>1. ASSUME NEW i \in 1..Len(requests') PROVE (IsFor(requests[i]) /\ IndexFits(requests[i]))'
    <3>1. CASE i \in 1..Len(requests) /\ requests'[i] = requests[i]
      <4>1. PICK m : m = requests[i]
        OBVIOUS
      <4>2. IsFor(m) /\ IndexFits(m) /\ m.uid \in Nat /\ m.uid <= op[Primary].uid
        BY <1>1, <3>1, <4>1, OldOnes DEF Births
      <4> QED BY <1>24, <3>1, <4>1, <4>2
    <3>2. CASE requests'[i] = h
      <4>1. \A t \in Sub : (Held(t))' /\ op'[t].uid = n => op'[t].born = b
        BY <1>9, <1>13, <1>18, <1>22, OldOnes
      <4> QED BY <1>14, <3>2, <4>1 DEF IsFor, IndexFits
    <3> QED BY <1>20, <3>1, <3>2
  <2>2. \A e \in served : (IsFor(e))' /\ (IndexFits(e))'
    BY <1>1, <1>24, OldOnes DEF Births
  <2>3. ASSUME NEW i \in 1..Len(replies') PROVE (IsFor(replies[i]))'
    <3>1. PICK m : m = replies[i]
      OBVIOUS
    <3>2. IsFor(m) /\ m.uid \in Nat /\ m.uid <= op[Primary].uid
      BY <1>1, <1>6, <3>1, OldOnes DEF Births
    <3> QED BY <1>6, <1>24, <3>1, <3>2
  <2> QED BY <1>6, <2>1, <2>2, <2>3 DEF Births
<1>26. /\ \A u : Lives(u) => (Lives(u))'
       /\ (Lives(n))'
       /\ \A u : Listed(u) => (Listed(u))'
  BY <1>3, <1>6, <1>9, <1>13, <1>18 DEF Lives, Listed
<1>27. Stopping'
  <2>1. ASSUME NEW i \in 1..Len(requests'), NEW t \in Sub, Held(t)' PROVE ~(Cancel(i, op[t].uid))'
    <3>1. CASE requests'[i] = h
      BY <1>14, <3>1 DEF Cancel
    <3>2. CASE i \in 1..Len(requests) /\ requests'[i] = requests[i] /\ t # s
      BY <1>1, <1>13, <1>18, <2>1, <3>2 DEF Stopping, Cancel
    <3>3. CASE i \in 1..Len(requests) /\ requests'[i] = requests[i] /\ t = s
      BY <1>9, <1>13, <1>22, <3>3, OldOnes DEF Cancel
    <3> QED BY <1>20, <3>1, <3>2, <3>3
  <2>2. ASSUME NEW e \in served', e.op = "reply"
        PROVE  (Lives(e.uid))' \/ \E j \in 1..Len(requests') : (Cancel(j, e.uid))'
    <3>1. CASE \E j \in 1..Len(requests) : Cancel(j, e.uid)
      BY <1>20, <3>1 DEF Cancel
    <3> QED BY <1>1, <1>6, <1>26, <2>2, <3>1 DEF Stopping
  <2>3. ASSUME NEW i \in 1..Len(requests'), requests'[i].op = "request"
        PROVE  (Lives(requests[i].uid))' \/ \E j \in 1..Len(requests') : i < j /\ (Cancel(j, requests[i].uid))'
    <3>1. CASE requests'[i] = h
      BY <1>14, <1>26, <3>1
    <3>2. CASE i \in 1..Len(requests) /\ requests'[i] = requests[i]
      <4>1. PICK u : u = requests[i].uid
        OBVIOUS
      <4>2. CASE \E j \in 1..Len(requests) : i < j /\ Cancel(j, u)
        BY <1>20, <3>2, <4>1, <4>2 DEF Cancel
      <4> QED BY <1>1, <1>26, <2>3, <3>2, <4>1, <4>2 DEF Stopping
    <3> QED BY <1>20, <3>1, <3>2
  <2>4. \A e \in served' : e.op = "record" => (Listed(e.uid))'
    BY <1>1, <1>6, <1>26 DEF Stopping
  <2>5. ASSUME NEW i \in 1..Len(requests'), requests'[i].op = "register"
        PROVE  (Listed(requests[i].uid))'
    <3>1. i \in 1..Len(requests) /\ requests'[i] = requests[i]
      BY <1>14, <1>20, <2>5
    <3>2. PICK u : u = requests[i].uid
      OBVIOUS
    <3> QED BY <1>1, <1>26, <2>5, <3>1, <3>2 DEF Stopping
  <2> QED BY <2>1, <2>2, <2>3, <2>4, <2>5 DEF Stopping
<1>28. Asking'
  <2>1. mdns' = "up" => Len(requests') # 0 /\ requests'[Len(requests')] = h
    BY <1>6, <1>20
  <2>2. h.op = pending'.api /\ h.uid = op'[s].uid /\ h.born = op'[s].born /\ pending'.of = s
        /\ pending'.api = "request" /\ pending'.answer = "none"
    BY <1>6, <1>9, <1>13, <1>14, <1>15
  <2>3. mdns' = "up" => (Asks(requests[Len(requests)]))'
    BY <2>1, <2>2 DEF Asks
  <2>4. (Held(s))'
    BY <1>3, <1>18
  <2> QED BY <1>3, <1>6, <1>19, <1>20, <2>1, <2>2, <2>3, <2>4 DEF Asking, Waiting
<1>29. Serving'
  <2> SUFFICES ASSUME mdns' = "up", NEW t \in Sub, Held(t)', t # s
               PROVE  \E e \in served' : e.op = "reply" /\ e.uid = op'[t].uid /\ e.born = op'[t].born
    BY <1>6, <1>15 DEF Serving
  <2>1. Held(t) /\ op'[t] = op[t]
    BY <1>13, <1>18
  <2> QED BY <1>1, <1>6, <2>1 DEF Serving
<1>30. Opening'
  BY <1>6 DEF Opening
<1> QED BY <1>21, <1>23, <1>25, <1>27, <1>28, <1>29, <1>30 DEF Books

\* A request that starts nothing is delivered: to add a record to a service, or to update
\* or remove one.
LEMMA DeliverKeeps ==
  ASSUME Books, pending = NoCall, conn = "open", made' \in Nat,
         UNCHANGED <<conn, next, replies, served, mdns>>,
         NEW h \in Hdr, NEW p \in CallRec, Write(<<h>>), pending' = p, p.api = h.op,
         h.uid <= op[Primary].uid, h.op \in {"add", "update", "remove"}, p.answer = "none",
         op' \in [Sub \cup {Primary} -> OpRec], record' \in [Rec -> RecRec],
         \A r \in Sub \cup {Primary} : \A i, j \in 1..Len(op'[r].rec) :
           op'[r].rec[i] = op'[r].rec[j] => i = j,
         \A t \in Sub : op'[t].uid = op[t].uid /\ op'[t].born = op[t].born,
         op'[Primary].uid = op[Primary].uid, op'[Primary].rec = op[Primary].rec,
         \A d \in Rec : Linked(d) => record'[d] = record[d],
         p.api = "remove" => /\ p.record \in Rec /\ h.index = record'[p.record].index
                             /\ (p.of = Primary => Linked(p.record))
  PROVE  Books'
<1>1. SharedTypes /\ Uids /\ Births /\ Stopping /\ Asking /\ Serving /\ Opening
  BY BooksParts
<1>2. /\ replies' = replies /\ served' = served /\ mdns' = mdns /\ conn' = conn /\ next' = next
      /\ pending.api = "none"
  BY DEF NoCall
<1>3. mdns = "down" => Len(requests) = 0 /\ served = {}
  BY <1>1 DEF Asking
<1>4. /\ requests' \in Seq(Hdr)
      /\ \A i \in 1..Len(requests') : \/ i \in 1..Len(requests) /\ requests'[i] = requests[i]
                                      \/ i = Len(requests) + 1 /\ requests'[i] = h /\ mdns = "up"
      /\ \A i \in 1..Len(requests) : /\ i \in 1..Len(requests') /\ requests'[i] = requests[i]
                                     /\ i < Len(requests) + 1 /\ mdns = "up"
      /\ mdns = "up" => /\ Len(requests') = Len(requests) + 1 /\ Len(requests') # 0
                        /\ Len(requests) + 1 \in 1..Len(requests')
                        /\ requests'[Len(requests) + 1] = h
      /\ mdns = "down" => Len(requests') = 0
  BY <1>1, <1>3, WriteOne
<1>5. /\ \A t \in Sub : (Held(t))' <=> Held(t)
      /\ \A d \in Rec : (Linked(d))' <=> Linked(d)
  BY <1>2 DEF Held, Linked
<1>6. SharedTypes'
  BY <1>1, <1>2, <1>4 DEF SharedTypes
<1>7. h.op \notin {"request", "register", "cancel", "reply", "record"}
  OBVIOUS
<1> HIDE DEF Hdr, CallRec
<1>8. Uids'
  BY <1>1, <1>2, <1>4, <1>5 DEF Uids, Old
<1>9. ASSUME NEW m PROVE (IsFor(m) => (IsFor(m))') /\ (IndexFits(m) => (IndexFits(m))')
  BY <1>5 DEF IsFor, IndexFits
<1>10. Births'
  <2>1. ASSUME NEW i \in 1..Len(requests') PROVE (IsFor(requests[i]) /\ IndexFits(requests[i]))'
    <3>1. CASE i \in 1..Len(requests) /\ requests'[i] = requests[i]
      <4>1. PICK m : m = requests[i]
        OBVIOUS
      <4>2. IsFor(m) /\ IndexFits(m)
        BY <1>1, <3>1, <4>1 DEF Births
      <4> QED BY <1>9, <3>1, <4>1, <4>2
    <3>2. CASE requests'[i] = h
      BY <1>7, <3>2 DEF IsFor, IndexFits
    <3> QED BY <1>4, <3>1, <3>2
  <2>2. \A e \in served : (IsFor(e))' /\ (IndexFits(e))'
    BY <1>1, <1>9 DEF Births
  <2>3. ASSUME NEW i \in 1..Len(replies') PROVE (IsFor(replies[i]))'
    <3>1. PICK m : m = replies[i]
      OBVIOUS
    <3>2. IsFor(m)
      BY <1>1, <1>2, <3>1 DEF Births
    <3> QED BY <1>2, <1>9, <3>1, <3>2
  <2> QED BY <1>2, <2>1, <2>2, <2>3 DEF Births
<1>11. \A u : (Lives(u) => (Lives(u))') /\ (Listed(u) => (Listed(u))')
  BY <1>5 DEF Lives, Listed
<1>12. Stopping'
  <2>1. ASSUME NEW i \in 1..Len(requests'), NEW t \in Sub, Held(t)' PROVE ~(Cancel(i, op[t].uid))'
    <3>1. CASE requests'[i] = h
      BY <1>7, <3>1 DEF Cancel
    <3>2. CASE i \in 1..Len(requests) /\ requests'[i] = requests[i]
      BY <1>1, <1>5, <2>1, <3>2 DEF Stopping, Cancel
    <3> QED BY <1>4, <3>1, <3>2
  <2>2. ASSUME NEW e \in served', e.op = "reply"
        PROVE  (Lives(e.uid))' \/ \E j \in 1..Len(requests') : (Cancel(j, e.uid))'
    <3>1. CASE \E j \in 1..Len(requests) : Cancel(j, e.uid)
      BY <1>4, <3>1 DEF Cancel
    <3> QED BY <1>1, <1>2, <1>11, <2>2, <3>1 DEF Stopping
  <2>3. ASSUME NEW i \in 1..Len(requests'), requests'[i].op = "request"
        PROVE  (Lives(requests[i].uid))' \/ \E j \in 1..Len(requests') : i < j /\ (Cancel(j, requests[i].uid))'
    <3>1. i \in 1..Len(requests) /\ requests'[i] = requests[i]
      BY <1>4, <1>7, <2>3
    <3>2. PICK u : u = requests[i].uid
      OBVIOUS
    <3>3. CASE \E j \in 1..Len(requests) : i < j /\ Cancel(j, u)
      BY <1>4, <3>1, <3>2, <3>3 DEF Cancel
    <3> QED BY <1>1, <1>11, <2>3, <3>1, <3>2, <3>3 DEF Stopping
  <2>4. \A e \in served' : e.op = "record" => (Listed(e.uid))'
    BY <1>1, <1>2, <1>11 DEF Stopping
  <2>5. ASSUME NEW i \in 1..Len(requests'), requests'[i].op = "register"
        PROVE  (Listed(requests[i].uid))'
    <3>1. i \in 1..Len(requests) /\ requests'[i] = requests[i]
      BY <1>4, <1>7, <2>5
    <3>2. PICK u : u = requests[i].uid
      OBVIOUS
    <3> QED BY <1>1, <1>11, <2>5, <3>1, <3>2 DEF Stopping
  <2> QED BY <2>1, <2>2, <2>3, <2>4, <2>5 DEF Stopping
<1>13. Asking'
  <2>1. mdns' = "up" => Len(requests') # 0 /\ requests'[Len(requests')] = h
    BY <1>2, <1>4
  <2>2. mdns' = "up" => (Asks(requests[Len(requests)]))'
    BY <1>7, <2>1 DEF Asks
  <2>3. p.api # "request" /\ p.answer # "ok"
    BY <1>7
  <2>4. p.api = "remove" /\ p.of = Primary => (Linked(p.record))'
    BY <1>5
  <2> QED BY <1>2, <1>3, <1>4, <2>1, <2>2, <2>3, <2>4 DEF Asking, Waiting
<1>14. Serving'
  <2> SUFFICES ASSUME mdns' = "up", NEW t \in Sub, Held(t)'
               PROVE  \E e \in served' : e.op = "reply" /\ e.uid = op'[t].uid /\ e.born = op'[t].born
    BY DEF Serving
  <2> QED BY <1>1, <1>2, <1>5 DEF Serving
<1>15. Opening'
  BY <1>2 DEF Opening
<1> QED BY <1>6, <1>8, <1>10, <1>12, <1>13, <1>14, <1>15 DEF Books

\* The references of the connection.
LEMMA RefsOf ==
  ASSUME Books, NEW r \in Refs
  PROVE  /\ r \in Sub \cup {Primary} /\ (r # Primary => Held(r))
         /\ op[r] \in OpRec /\ op[r].uid \in Nat /\ op[r].uid <= op[Primary].uid
         /\ op[r].rec \in Seq(Rec)
         /\ \A d \in ToSet(op[r].rec) : d \in Rec /\ Contains(op[r].rec, d) /\ d \in Records
<1>1. SharedTypes /\ Uids
  BY BooksParts
<1>2. next \in Seq(Sub) /\ DOMAIN next = 1..Len(next)
  BY <1>1, SharedTyped
<1>3. r \in Sub \cup {Primary} /\ (r # Primary => Held(r))
  BY <1>2 DEF Refs, ToSet, Held, Contains
<1>4. op[r] \in OpRec /\ op[r].uid \in Nat /\ op[r].rec \in Seq(Rec) /\ op[Primary].uid \in Nat
  BY <1>1, <1>3, OpFields
<1>5. op[r].uid <= op[Primary].uid
  BY <1>1, <1>3, <1>4 DEF Uids, Old
<1>6. PICK l \in Seq(Rec) : l = op[r].rec
  BY <1>4
<1>7. \A d \in ToSet(l) : d \in Rec /\ Contains(l, d)
  BY DEF ToSet, Contains
<1>8. \A d \in ToSet(op[r].rec) : d \in Records
  BY DEF Records
<1> QED BY <1>3, <1>4, <1>5, <1>6, <1>7, <1>8

LEMMA UpdateKeeps ==
  ASSUME Books, DNSServiceUpdateRecord \/ DNSServiceRemoveRecord PROVE Books'
<1>1. SharedTypes
  BY BooksParts
<1>2. PICK w \in {"update", "remove"}, r \in Refs : \E d \in ToSet(op[r].rec) :
        Deliver(w, r, d, create_hdr(w, op[r].uid, record[d].index, made'))
  BY DEF DNSServiceUpdateRecord, DNSServiceRemoveRecord
<1>3. PICK d \in ToSet(op[r].rec) :
        Deliver(w, r, d, create_hdr(w, op[r].uid, record[d].index, made'))
  BY <1>2
<1>4. /\ UNCHANGED <<conn, op, next, record, replies, served, mdns>> /\ pending = NoCall
      /\ conn = "open" /\ made' \in Nat
  BY <1>1, SharedTyped DEF DNSServiceUpdateRecord, DNSServiceRemoveRecord, Calling
<1>5. /\ r \in Sub \cup {Primary} /\ op[r].uid \in Nat /\ op[r].uid <= op[Primary].uid
      /\ d \in Rec /\ (r = Primary => Linked(d))
  BY <1>3, RefsOf DEF Linked
<1>6. record[d].index \in Nat
  <2>1. record[d] \in RecRec
    BY <1>1, <1>5, SharedTyped
  <2> QED BY <2>1 DEF RecRec
<1>7. PICK b \in Nat : b = made'
  BY <1>4
<1> DEFINE h == create_hdr(w, op[r].uid, record[d].index, b)
           p == [api |-> w, of |-> r, record |-> d, answer |-> "none"]
<1>8. h \in Hdr /\ h.op = w /\ h.uid = op[r].uid /\ h.index = record[d].index
  BY <1>5, <1>6 DEF Hdr, create_hdr
<1>9. p \in CallRec /\ p.api = w /\ p.of = r /\ p.record = d /\ p.answer = "none"
  BY <1>5 DEF CallRec
<1>10. Write(<<h>>) /\ pending' = p
  BY <1>3, <1>7 DEF Deliver
<1> HIDE DEF h, p
<1>11. /\ op' \in [Sub \cup {Primary} -> OpRec] /\ record' \in [Rec -> RecRec]
       /\ \A t \in Sub \cup {Primary} : \A i, j \in 1..Len(op'[t].rec) :
            op'[t].rec[i] = op'[t].rec[j] => i = j
  BY <1>1, <1>4 DEF SharedTypes
<1>12. h.op \in {"add", "update", "remove"} /\ h.uid <= op[Primary].uid /\ p.api = h.op
  BY <1>5, <1>8, <1>9
<1>13. p.record \in Rec /\ h.index = record'[p.record].index /\ (p.of = Primary => Linked(p.record))
  BY <1>4, <1>5, <1>8, <1>9
<1>14. /\ \A t \in Sub : op'[t].uid = op[t].uid /\ op'[t].born = op[t].born
       /\ op'[Primary].uid = op[Primary].uid /\ op'[Primary].rec = op[Primary].rec
       /\ \A c \in Rec : Linked(c) => record'[c] = record[c]
  BY <1>4
<1> QED BY <1>4, <1>8, <1>9, <1>10, <1>11, <1>12, <1>13, <1>14, DeliverKeeps

\* The memory for a new record is one no list has.
LEMMA FreshRecord ==
  ASSUME Books, Records # Rec
  PROVE  /\ (CHOOSE d \in Rec : d \notin Records) \in Rec
         /\ \A r \in Refs : ~Contains(op[r].rec, CHOOSE d \in Rec : d \notin Records)
<1>1. Records \subseteq Rec
  BY RefsOf DEF Records
<1>2. PICK d : d = CHOOSE x \in Rec : x \notin Records
  OBVIOUS
<1>3. d \in Rec /\ d \notin Records
  BY <1>1, <1>2
<1>4. ASSUME NEW r \in Refs PROVE ~Contains(op[r].rec, d)
  <2>1. PICK l \in Seq(Rec) : l = op[r].rec
    BY RefsOf
  <2>2. d \notin ToSet(l)
    BY <1>3, <2>1 DEF Records
  <2> QED BY <2>1, <2>2 DEF ToSet, Contains
<1> QED BY <1>2, <1>3, <1>4

\* A list with a further member.
LEMMA AppendedOne ==
  ASSUME NEW l \in Seq(Rec), NEW d \in Rec, ~Contains(l, d),
         \A i, j \in 1..Len(l) : l[i] = l[j] => i = j
  PROVE  /\ Append(l, d) \in Seq(Rec)
         /\ \A i, j \in 1..Len(Append(l, d)) : Append(l, d)[i] = Append(l, d)[j] => i = j
         /\ \A c : Contains(Append(l, d), c) <=> Contains(l, c) \/ c = d
<1>1. PICK k : k = Append(l, d)
  OBVIOUS
<1>2. /\ k \in Seq(Rec) /\ Len(k) = Len(l) + 1 /\ k[Len(l) + 1] = d
      /\ \A i \in 1..Len(l) : k[i] = l[i]
      /\ \A i \in 1..Len(l) + 1 : i \in 1..Len(l) \/ i = Len(l) + 1
      /\ \A c : Contains(k, c) <=> Contains(l, c) \/ c = d
  BY <1>1, AppendAll
<1>3. \A i \in 1..Len(l) : l[i] # d
  BY DEF Contains
<1>4. \A i \in 1..Len(k) : (i \in 1..Len(l) /\ k[i] = l[i]) \/ (i = Len(l) + 1 /\ k[i] = d)
  BY <1>2
<1> QED BY <1>1, <1>2, <1>3, <1>4

LEMMA AddKeeps ==
  ASSUME Books, SharedAssumption, DNSServiceAddRecord PROVE Books'
<1>1. SharedTypes
  BY BooksParts
<1>2. PICK d : d = CHOOSE x \in Rec : x \notin Records
  OBVIOUS
<1>3. PICK s \in ToSet(next) :
        LET r == CHOOSE r \in Rec : r \notin Records
            index == op[s].maxIndex IN
        /\ op[s].register
        /\ op' = [op EXCEPT ![s].maxIndex = index + 1, ![s].rec = Append(@, r)]
        /\ record' = [record EXCEPT ![r] = [uid |-> 0, index |-> index, born |-> made']]
        /\ Deliver("add", s, r, create_hdr("add", op[s].uid, index, made'))
  BY DEF DNSServiceAddRecord
<1>4. /\ UNCHANGED <<conn, next, replies, served, mdns>> /\ pending = NoCall
      /\ conn = "open" /\ made' \in Nat /\ Records # Rec
  BY <1>1, SharedTyped DEF DNSServiceAddRecord, Calling
<1>5. s \in Refs /\ Primary \in Refs
  BY DEF Refs
<1>6. s \in Sub /\ s # Primary
  <2>1. next \in Seq(Sub) /\ DOMAIN next = 1..Len(next)
    BY <1>1, SharedTyped
  <2> QED BY <2>1 DEF ToSet, SharedAssumption
<1>7. d \in Rec /\ ~Contains(op[s].rec, d) /\ ~Linked(d)
  BY <1>2, <1>4, <1>5, FreshRecord DEF Linked
<1>8. PICK o \in OpRec : o = op[s]
  BY <1>1, <1>6, OpFields
<1>9. o.rec \in Seq(Rec) /\ o.maxIndex \in Nat /\ o.uid \in Nat /\ o.uid <= op[Primary].uid
      /\ \A i, j \in 1..Len(o.rec) : o.rec[i] = o.rec[j] => i = j
  BY <1>1, <1>5, <1>6, <1>8, RefsOf DEF OpRec, SharedTypes
<1>10. PICK l : l = Append(o.rec, d)
  OBVIOUS
<1>11. l \in Seq(Rec) /\ \A i, j \in 1..Len(l) : l[i] = l[j] => i = j
  <2>1. PICK k \in Seq(Rec) : k = o.rec
    BY <1>9
  <2>2. ~Contains(k, d) /\ \A i, j \in 1..Len(k) : k[i] = k[j] => i = j
    BY <1>7, <1>8, <1>9, <2>1 DEF Contains
  <2>3. l = Append(k, d)
    BY <1>10, <2>1
  <2> QED BY <1>7, <2>2, <2>3, AppendedOne
<1>12. PICK b \in Nat : b = made'
  BY <1>4
<1>13. PICK x \in Nat : x = o.maxIndex
  BY <1>9
<1>14. PICK y \in Nat : y = x + 1
  OBVIOUS
<1> DEFINE q == [o EXCEPT !.maxIndex = y, !.rec = l]
           e == [uid |-> 0, index |-> x, born |-> b]
           h == create_hdr("add", o.uid, x, b)
           p == [api |-> "add", of |-> s, record |-> d, answer |-> "none"]
<1>15. /\ op' = [op EXCEPT ![s].maxIndex = o.maxIndex + 1, ![s].rec = Append(@, d)]
       /\ record' = [record EXCEPT ![d] = e] /\ Write(<<h>>) /\ pending' = p
  BY <1>2, <1>3, <1>8, <1>12, <1>13 DEF Deliver
<1>16. op' = [op EXCEPT ![s] = q] /\ op \in [Sub \cup {Primary} -> OpRec] /\ record \in [Rec -> RecRec]
  BY <1>1, <1>6, <1>8, <1>10, <1>13, <1>14, <1>15, SharedTyped
<1>17. q \in OpRec /\ q.uid = o.uid /\ q.born = o.born /\ q.rec = l
  BY <1>11 DEF OpRec
<1>18. e \in RecRec
  BY DEF RecRec
<1>19. h \in Hdr /\ h.op = "add" /\ h.uid = o.uid
  BY <1>9 DEF Hdr, create_hdr
<1>20. p \in CallRec /\ p.api = "add" /\ p.answer = "none"
  BY <1>6, <1>7 DEF CallRec
<1> HIDE DEF q, e, h, p
<1>21. /\ op' \in [Sub \cup {Primary} -> OpRec] /\ op'[s] = q
       /\ \A t \in Sub \cup {Primary} : t # s => op'[t] = op[t]
       /\ record' \in [Rec -> RecRec] /\ \A c \in Rec : Linked(c) => record'[c] = record[c]
  <2>1. /\ op' \in [Sub \cup {Primary} -> OpRec] /\ op'[s] = q
        /\ \A t \in Sub \cup {Primary} : t # s => op'[t] = op[t]
    BY <1>6, <1>16, <1>17
  <2>2. record' \in [Rec -> RecRec] /\ \A c \in Rec : c # d => record'[c] = record[c]
    BY <1>7, <1>15, <1>16, <1>18
  <2> QED BY <1>7, <2>1, <2>2
<1>22. /\ \A t \in Sub : op'[t].uid = op[t].uid /\ op'[t].born = op[t].born
       /\ op'[Primary].uid = op[Primary].uid /\ op'[Primary].rec = op[Primary].rec
  BY <1>6, <1>8, <1>17, <1>21
<1>23. ASSUME NEW t \in Sub \cup {Primary}
       PROVE  \A i, j \in 1..Len(op'[t].rec) : op'[t].rec[i] = op'[t].rec[j] => i = j
  <2>1. CASE t = s
    BY <1>11, <1>17, <1>21, <2>1
  <2>2. CASE t # s
    BY <1>1, <1>21, <2>2 DEF SharedTypes
  <2> QED BY <2>1, <2>2
<1>24. h.op \in {"add", "update", "remove"} /\ h.uid <= op[Primary].uid /\ p.api = h.op /\ p.api # "remove"
  BY <1>9, <1>19, <1>20
<1> QED BY <1>4, <1>15, <1>19, <1>20, <1>21, <1>22, <1>23, <1>24, DeliverKeeps

\* Without memory for a record, only the uid is counted up.
LEMMA CountKeeps ==
  ASSUME Books, SharedAssumption, op' = [op EXCEPT ![Primary].uid = @ + 1], made' \in Nat,
         UNCHANGED <<conn, next, record, pending, requests, replies, served, mdns>>
  PROVE  Books'
<1>1. SharedTypes /\ Uids /\ Births /\ Stopping /\ Asking /\ Serving /\ Opening
  BY BooksParts
<1>2. /\ record' = record /\ replies' = replies /\ served' = served /\ mdns' = mdns /\ conn' = conn
      /\ next' = next /\ requests' = requests /\ pending' = pending
  OBVIOUS
<1>3. PICK o \in OpRec : o = op[Primary]
  BY <1>1, OpFields
<1>4. PICK n \in Nat : n = o.uid + 1 /\ o.uid \in Nat /\ n > o.uid
  BY DEF OpRec
<1> DEFINE q == [o EXCEPT !.uid = n]
<1>5. q \in OpRec /\ q.uid = n /\ q.rec = o.rec
  BY DEF OpRec
<1>6. op' = [op EXCEPT ![Primary] = q] /\ op \in [Sub \cup {Primary} -> OpRec]
  BY <1>1, <1>3, <1>4, SharedTyped
<1> HIDE DEF q
<1>7. /\ op' \in [Sub \cup {Primary} -> OpRec] /\ op'[Primary].uid = n /\ op'[Primary].rec = op[Primary].rec
      /\ \A t \in Sub : op'[t] = op[t]
  BY <1>3, <1>5, <1>6 DEF SharedAssumption
<1>8. \A u \in Nat : u <= op[Primary].uid => u <= n
  BY <1>3, <1>4
<1>9. \A t \in Sub \cup {Primary} : op'[t].rec = op[t].rec
  BY <1>7
<1>10. SharedTypes'
  BY <1>1, <1>2, <1>7, <1>9 DEF SharedTypes
<1>11. /\ \A t \in Sub : (Held(t))' <=> Held(t)
       /\ \A d \in Rec : (Linked(d))' <=> Linked(d)
  BY <1>2, <1>7 DEF Held, Linked
<1>12. Uids'
  <2>1. /\ \A t \in Sub : (Held(t))' => op'[t].uid <= n
        /\ \A d \in Rec : (Linked(d))' => record'[d].uid <= n
        /\ \A e \in served' : e.uid <= n
        /\ \A i \in 1..Len(replies') : replies'[i].uid <= n
        /\ \A i \in 1..Len(requests') : requests'[i].uid <= n
    BY <1>2, <1>7, <1>8, <1>11, OldOnes
  <2> QED BY <1>1, <1>2, <1>7, <1>11, <2>1 DEF Uids, Old
<1>13. Births'
  <2>1. \A m : (IsFor(m) => (IsFor(m))') /\ (IndexFits(m) => (IndexFits(m))')
    BY <1>2, <1>7, <1>11 DEF IsFor, IndexFits
  <2>2. \A i \in 1..Len(requests') : (IsFor(requests[i]) /\ IndexFits(requests[i]))'
    BY <1>1, <1>2, <1>7, <1>11 DEF Births, IsFor, IndexFits
  <2>3. \A i \in 1..Len(replies') : (IsFor(replies[i]))'
    BY <1>1, <1>2, <1>7, <1>11 DEF Births, IsFor
  <2> QED BY <1>1, <1>2, <2>1, <2>2, <2>3 DEF Births
<1>14. Stopping'
  BY <1>1, <1>2, <1>7, <1>11 DEF Stopping, Cancel, Lives, Listed
<1>15. Asking'
  <2>1. pending.api = "request" => pending.of \in Sub
    BY <1>1 DEF Asking
  <2>2. Len(requests) # 0 /\ Asks(requests[Len(requests)]) => (Asks(requests[Len(requests)]))'
    BY <1>2, <1>7, <2>1 DEF Asks
  <2>3. (Linked(pending.record))' <=> Linked(pending.record)
    BY <1>2, <1>7 DEF Linked
  <2>4. (Held(pending.of))' <=> Held(pending.of)
    BY <1>2 DEF Held
  <2> QED BY <1>1, <1>2, <2>1, <2>2, <2>3, <2>4 DEF Asking, Waiting
<1>16. Serving'
  BY <1>1, <1>2, <1>7, <1>11 DEF Serving
<1>17. Opening'
  BY <1>1, <1>2 DEF Opening
<1> QED BY <1>10, <1>12, <1>13, <1>14, <1>15, <1>16, <1>17 DEF Books

\* A record is registered with the connection.
LEMMA RegisterKeeps ==
  ASSUME Books, SharedAssumption, Records # Rec, DNSServiceRegisterRecord PROVE Books'
<1>1. SharedTypes /\ Uids /\ Births /\ Stopping /\ Asking /\ Serving /\ Opening
  BY BooksParts
<1>2. PICK d : d = CHOOSE x \in Rec : x \notin Records
  OBVIOUS
<1>3. d \in Rec /\ ~Contains(op[Primary].rec, d) /\ ~Linked(d)
  BY <1>2, FreshRecord DEF Linked, Refs
<1>4. PICK o \in OpRec : o = op[Primary]
  BY <1>1, OpFields
<1>5. /\ o.rec \in Seq(Rec) /\ o.maxIndex \in Nat /\ o.uid \in Nat
      /\ \A i, j \in 1..Len(o.rec) : o.rec[i] = o.rec[j] => i = j
  BY <1>1, <1>4 DEF OpRec, SharedTypes
<1>6. PICK n \in Nat : n = o.uid + 1 /\ n > o.uid
  <2>1. o.uid \in Nat
    BY <1>5
  <2>2. o.uid + 1 \in Nat /\ o.uid + 1 > o.uid
    BY <2>1
  <2> QED BY <2>2
<1>7. PICK x \in Nat : x = o.maxIndex
  BY <1>5
<1>8. PICK y \in Nat : y = x + 1
  OBVIOUS
<1>9. PICK b \in Nat : b = made'
  BY <1>1, SharedTyped DEF DNSServiceRegisterRecord, Calling
<1>10. PICK l : l = Append(o.rec, d)
  OBVIOUS
<1>11. /\ l \in Seq(Rec) /\ \A i, j \in 1..Len(l) : l[i] = l[j] => i = j
       /\ \A c : Contains(l, c) <=> Contains(op[Primary].rec, c) \/ c = d
  <2>1. PICK k \in Seq(Rec) : k = o.rec
    BY <1>5
  <2>2. ~Contains(k, d) /\ \A i, j \in 1..Len(k) : k[i] = k[j] => i = j
    BY <1>3, <1>4, <1>5, <2>1 DEF Contains
  <2>3. l = Append(k, d) /\ \A c : Contains(k, c) <=> Contains(op[Primary].rec, c)
    BY <1>4, <1>10, <2>1 DEF Contains
  <2> QED BY <1>3, <2>2, <2>3, AppendedOne
<1> DEFINE q == [o EXCEPT !.uid = n, !.maxIndex = y, !.rec = l]
           e == [uid |-> n, index |-> x, born |-> b]
           h == create_hdr("register", n, x, b)
           p == [api |-> "register", of |-> Primary, record |-> d, answer |-> "none"]
<1>12. /\ op' = [op EXCEPT ![Primary].uid = n, ![Primary].maxIndex = y, ![Primary].rec = Append(@, d)]
       /\ record' = [record EXCEPT ![d] = e] /\ Write(<<h>>) /\ pending' = p
       /\ UNCHANGED <<conn, next, replies, served, mdns>> /\ pending = NoCall /\ conn = "open"
  <2>1. op[Primary].uid + 1 = n /\ op[Primary].maxIndex = x /\ x + 1 = y
    BY <1>4, <1>6, <1>7, <1>8
  <2> QED BY <1>2, <1>9, <2>1 DEF Deliver, DNSServiceRegisterRecord, Calling
<1>13. op' = [op EXCEPT ![Primary] = q] /\ op \in [Sub \cup {Primary} -> OpRec] /\ record \in [Rec -> RecRec]
  BY <1>1, <1>4, <1>10, <1>12, SharedTyped
<1>14. q \in OpRec /\ q.uid = n /\ q.rec = l
  BY <1>11 DEF OpRec
<1>15. e \in RecRec /\ e.uid = n /\ e.index = x /\ e.born = b
  BY DEF RecRec
<1>16. h \in Hdr /\ h.op = "register" /\ h.uid = n /\ h.index = x /\ h.born = b
  BY DEF Hdr, create_hdr
<1>17. p \in CallRec /\ p.api = "register" /\ p.answer = "none"
  BY <1>3 DEF CallRec
<1> HIDE DEF q, e, h, p
<1>18. /\ op' \in [Sub \cup {Primary} -> OpRec] /\ op'[Primary] = q
       /\ \A t \in Sub : op'[t] = op[t]
       /\ record' \in [Rec -> RecRec] /\ record'[d] = e
       /\ \A c \in Rec : c # d => record'[c] = record[c]
  BY <1>3, <1>12, <1>13, <1>14, <1>15, ZenonT(60) DEF SharedAssumption
<1>19. mdns = "down" => Len(requests) = 0 /\ served = {}
  BY <1>1 DEF Asking
<1>20. /\ requests' \in Seq(Hdr)
       /\ \A i \in 1..Len(requests') : \/ i \in 1..Len(requests) /\ requests'[i] = requests[i]
                                       \/ i = Len(requests) + 1 /\ requests'[i] = h /\ mdns = "up"
       /\ \A i \in 1..Len(requests) : /\ i \in 1..Len(requests') /\ requests'[i] = requests[i]
                                      /\ i < Len(requests) + 1 /\ mdns = "up"
       /\ mdns = "up" => /\ Len(requests') = Len(requests) + 1 /\ Len(requests') # 0
                         /\ Len(requests) + 1 \in 1..Len(requests')
                         /\ requests'[Len(requests) + 1] = h
       /\ mdns = "down" => Len(requests') = 0
  BY <1>1, <1>12, <1>16, <1>19, WriteOne
<1>21. /\ \A t \in Sub : (Held(t))' <=> Held(t)
       /\ \A c \in Rec : (Linked(c))' <=> Linked(c) \/ c = d
  <2>1. op'[Primary].rec = l
    BY <1>14, <1>18
  <2>2. \A c : Contains(op'[Primary].rec, c) <=> Contains(l, c)
    BY <2>1 DEF Contains
  <2> QED BY <1>11, <1>12, <2>2 DEF Held, Linked
<1>22. SharedTypes'
  <2>1. ASSUME NEW t \in Sub \cup {Primary}
        PROVE  \A i, j \in 1..Len(op'[t].rec) : op'[t].rec[i] = op'[t].rec[j] => i = j
    <3>1. CASE t = Primary
      BY <1>11, <1>14, <1>18, <3>1
    <3>2. CASE t # Primary
      BY <1>1, <1>18, <3>2 DEF SharedTypes
    <3> QED BY <3>1, <3>2
  <2>2. /\ replies' = replies /\ served' = served /\ mdns' = mdns /\ next' = next
        /\ pending' \in CallRec /\ pending'.api # "none" /\ made' \in Nat
    BY <1>9, <1>12, <1>17
  <2>3. /\ next' \in Seq(Sub) /\ \A i, j \in 1..Len(next') : next'[i] = next'[j] => i = j
        /\ replies' \in Seq(Rep) /\ served' \subseteq Work /\ mdns' \in {"up", "down"}
    BY <1>1, <2>2 DEF SharedTypes
  <2> QED BY <1>18, <1>20, <2>1, <2>2, <2>3 DEF SharedTypes
<1>23. /\ \A u \in Nat : u <= op[Primary].uid => u # n /\ u <= n
       /\ n <= n /\ op'[Primary].uid = n
  BY <1>4, <1>5, <1>6, <1>14, <1>18
<1>24. Uids'
  <2>1. /\ \A t \in Sub : (Held(t))' => op'[t].uid <= n
        /\ \A c \in Rec : (Linked(c))' => record'[c].uid <= n
        /\ \A m \in served' : m.uid <= n
        /\ \A i \in 1..Len(replies') : replies'[i].uid <= n
        /\ \A i \in 1..Len(requests') : requests'[i].uid <= n
    <3>1. \A t \in Sub : (Held(t))' => op'[t].uid <= n
      BY <1>18, <1>21, <1>23, OldOnes
    <3>2. \A c \in Rec : (Linked(c))' => record'[c].uid <= n
      BY <1>15, <1>18, <1>21, <1>23, OldOnes
    <3>3. replies' = replies /\ served' = served
      BY <1>12
    <3>4. /\ \A m \in served' : m.uid <= n
          /\ \A i \in 1..Len(replies') : replies'[i].uid <= n
      BY <1>23, <3>3, OldOnes
    <3>5. \A i \in 1..Len(requests') : requests'[i].uid <= n
      BY <1>16, <1>20, <1>23, OldOnes
    <3> QED BY <3>1, <3>2, <3>4, <3>5
  <2>2. \A r, t \in Sub : (Held(r))' /\ (Held(t))' /\ op'[r].uid = op'[t].uid => r = t
    BY <1>1, <1>18, <1>21 DEF Uids
  <2>3. ASSUME NEW c \in Rec, NEW f \in Rec, Linked(c)', Linked(f)', record'[c].uid = record'[f].uid
        PROVE  c = f
    <3>1. CASE c = d
      BY <1>15, <1>18, <1>21, <1>23, <2>3, <3>1, OldOnes
    <3>2. CASE f = d
      BY <1>15, <1>18, <1>21, <1>23, <2>3, <3>2, OldOnes
    <3>3. CASE c # d /\ f # d
      BY <1>1, <1>18, <1>21, <2>3, <3>3 DEF Uids
    <3> QED BY <3>1, <3>2, <3>3
  <2> QED BY <1>23, <2>1, <2>2, <2>3 DEF Uids, Old
<1>25. ASSUME NEW m, m.uid \in Nat, m.uid <= op[Primary].uid PROVE (IsFor(m) => (IsFor(m))') /\ (IndexFits(m) => (IndexFits(m))')
  BY <1>15, <1>18, <1>21, <1>23, <1>25 DEF IsFor, IndexFits
<1>26. Births'
  <2>1. ASSUME NEW i \in 1..Len(requests') PROVE (IsFor(requests[i]) /\ IndexFits(requests[i]))'
    <3>1. CASE i \in 1..Len(requests) /\ requests'[i] = requests[i]
      <4>1. PICK m : m = requests[i]
        OBVIOUS
      <4>2. IsFor(m) /\ IndexFits(m) /\ m.uid \in Nat /\ m.uid <= op[Primary].uid
        BY <1>1, <3>1, <4>1, OldOnes DEF Births
      <4> QED BY <1>25, <3>1, <4>1, <4>2
    <3>2. CASE requests'[i] = h
      <4>1. \A c \in Rec : (Linked(c))' /\ record'[c].uid = n => record'[c].born = b /\ record'[c].index = x
        BY <1>15, <1>18, <1>21, <1>23, OldOnes
      <4> QED BY <1>16, <3>2, <4>1 DEF IsFor, IndexFits
    <3> QED BY <1>20, <3>1, <3>2
  <2>2. \A m \in served : (IsFor(m))' /\ (IndexFits(m))'
    BY <1>1, <1>25, OldOnes DEF Births
  <2>3. ASSUME NEW i \in 1..Len(replies') PROVE (IsFor(replies[i]))'
    <3>1. PICK m : m = replies[i]
      OBVIOUS
    <3>2. IsFor(m) /\ m.uid \in Nat /\ m.uid <= op[Primary].uid
      BY <1>1, <1>12, <3>1, OldOnes DEF Births
    <3> QED BY <1>12, <1>25, <3>1, <3>2
  <2> QED BY <1>12, <2>1, <2>2, <2>3 DEF Births
<1>27. /\ \A u : Lives(u) => (Lives(u))'
       /\ (Listed(n))'
       /\ \A u : Listed(u) => (Listed(u))'
  <2>1. ASSUME NEW u, Listed(u) PROVE (Listed(u))'
    <3>1. PICK c \in Rec : Linked(c) /\ record[c].uid = u
      BY <2>1 DEF Listed
    <3> QED BY <1>3, <1>18, <1>21, <3>1 DEF Listed
  <2> QED BY <1>3, <1>15, <1>18, <1>21, <2>1 DEF Lives, Listed
<1>28. Stopping'
  <2>1. ASSUME NEW i \in 1..Len(requests'), NEW t \in Sub, Held(t)' PROVE ~(Cancel(i, op[t].uid))'
    <3>1. CASE requests'[i] = h
      BY <1>16, <3>1 DEF Cancel
    <3>2. CASE i \in 1..Len(requests) /\ requests'[i] = requests[i]
      BY <1>1, <1>18, <1>21, <2>1, <3>2 DEF Stopping, Cancel
    <3> QED BY <1>20, <3>1, <3>2
  <2>2. ASSUME NEW m \in served', m.op = "reply"
        PROVE  (Lives(m.uid))' \/ \E j \in 1..Len(requests') : (Cancel(j, m.uid))'
    <3>1. CASE \E j \in 1..Len(requests) : Cancel(j, m.uid)
      BY <1>20, <3>1 DEF Cancel
    <3> QED BY <1>1, <1>12, <1>27, <2>2, <3>1 DEF Stopping
  <2>3. ASSUME NEW i \in 1..Len(requests'), requests'[i].op = "request"
        PROVE  (Lives(requests[i].uid))' \/ \E j \in 1..Len(requests') : i < j /\ (Cancel(j, requests[i].uid))'
    <3>1. i \in 1..Len(requests) /\ requests'[i] = requests[i]
      BY <1>16, <1>20, <2>3
    <3>2. PICK u : u = requests[i].uid
      OBVIOUS
    <3>3. CASE \E j \in 1..Len(requests) : i < j /\ Cancel(j, u)
      BY <1>20, <3>1, <3>2, <3>3 DEF Cancel
    <3> QED BY <1>1, <1>27, <2>3, <3>1, <3>2, <3>3 DEF Stopping
  <2>4. \A m \in served' : m.op = "record" => (Listed(m.uid))'
    BY <1>1, <1>12, <1>27 DEF Stopping
  <2>5. ASSUME NEW i \in 1..Len(requests'), requests'[i].op = "register"
        PROVE  (Listed(requests[i].uid))'
    <3>1. CASE requests'[i] = h
      BY <1>16, <1>27, <3>1
    <3>2. CASE i \in 1..Len(requests) /\ requests'[i] = requests[i]
      <4>1. PICK u : u = requests[i].uid
        OBVIOUS
      <4> QED BY <1>1, <1>27, <2>5, <3>2, <4>1 DEF Stopping
    <3> QED BY <1>20, <3>1, <3>2
  <2> QED BY <2>1, <2>2, <2>3, <2>4, <2>5 DEF Stopping
<1>29. Asking'
  <2>1. mdns' = "up" => Len(requests') # 0 /\ requests'[Len(requests')] = h
    BY <1>12, <1>20
  <2>2. mdns' = "up" => (Asks(requests[Len(requests)]))'
    BY <1>12, <1>16, <1>17, <2>1 DEF Asks
  <2> QED BY <1>12, <1>17, <1>19, <1>20, <2>1, <2>2 DEF Asking, Waiting
<1>30. Serving'
  <2> SUFFICES ASSUME mdns' = "up", NEW t \in Sub, Held(t)'
               PROVE  \E m \in served' : m.op = "reply" /\ m.uid = op'[t].uid /\ m.born = op'[t].born
    BY DEF Serving
  <2>1. pending.api = "none"
    BY <1>12 DEF NoCall
  <2> QED BY <1>1, <1>12, <1>18, <1>21, <2>1 DEF Serving
<1>31. Opening'
  BY <1>12 DEF Opening
<1> QED BY <1>22, <1>24, <1>26, <1>28, <1>29, <1>30, <1>31 DEF Books

\* The daemon does a request, or refuses it.
LEMMA ServeKeeps ==
  ASSUME Books, NEW good \in BOOLEAN, Serve(good) PROVE Books'
<1>1. SharedTypes /\ Uids /\ Births /\ Stopping /\ Asking /\ Serving /\ Opening
  BY BooksParts
<1>2. PICK m : m = Head(requests)
  OBVIOUS
<1>3. PICK n \in Nat : n = Len(requests)
  BY <1>1, SharedTyped
<1>4. /\ conn' = conn /\ op' = op /\ next' = next /\ record' = record /\ replies' = replies
      /\ mdns' = mdns /\ made' = made /\ mdns = "up" /\ requests # <<>> /\ requests' = Tail(requests)
      /\ served' = Afterwards(m, good)
      /\ pending' = IF pending.api \notin {"none", "ask"} /\ Len(requests) = 1 /\ m.op # "cancel"
                    THEN [pending EXCEPT !.answer = IF good THEN "ok" ELSE "error"]
                    ELSE pending
  BY <1>2 DEF Serve
<1>5. /\ requests' \in Seq(Hdr) /\ Len(requests') = n - 1 /\ m = requests[1] /\ m \in Hdr
      /\ n # 0 /\ 1 \in 1..n
      /\ \A i \in 1..n - 1 : requests'[i] = requests[i + 1] /\ i + 1 \in 1..n /\ 1 < i + 1
      /\ \A i \in 1..n : i = 1 \/ (i - 1 \in 1..n - 1 /\ (i - 1) + 1 = i)
  <2>1. requests \in Seq(Hdr)
    BY <1>1, SharedTyped
  <2> QED BY <1>2, <1>3, <1>4, <2>1, TailAll
<1>6. /\ m.uid \in Nat /\ m.index \in Nat /\ m.born \in Nat
      /\ m.op \in {"request", "register", "add", "update", "remove", "cancel"}
  BY <1>5 DEF Hdr
<1> DEFINE w == [op |-> IF m.op = "request" THEN "reply" ELSE "record", uid |-> m.uid,
                 index |-> m.index, born |-> m.born]
<1>7. /\ w \in Work /\ w.uid = m.uid /\ w.index = m.index /\ w.born = m.born
      /\ (m.op = "request" => w.op = "reply") /\ (m.op # "request" => w.op = "record")
  BY <1>6 DEF Work
<1>8. /\ m.op \in {"request", "register"} /\ good => served' = served \cup {w}
      /\ m.op = "cancel" => served' = {e \in served : e.op # "reply" \/ e.uid # m.uid}
      /\ m.op = "remove" /\ good /\ pending.of = Primary =>
           served' = {e \in served : e.op # "record" \/ e.index # m.index}
      /\ ~(m.op \in {"request", "register"} /\ good) /\ m.op # "cancel"
           /\ ~(m.op = "remove" /\ good /\ pending.of = Primary) => served' = served
  BY <1>4 DEF Afterwards
<1> HIDE DEF w
\* What the daemon does afterwards.
<1>9. ASSUME NEW e \in served'
      PROVE  \/ e \in served /\ ~(m.op = "cancel" /\ e.op = "reply" /\ e.uid = m.uid)
             \/ e = w /\ m.op \in {"request", "register"}
  BY <1>8
<1>10. ASSUME NEW e \in served, e.op = "reply", ~(m.op = "cancel" /\ e.uid = m.uid) PROVE e \in served'
  BY <1>8, <1>10
\* The call that waits is answered if its request was the last.
<1>11. Waiting => pending.answer = "none" /\ Asks(requests[n])
  BY <1>1, <1>3, <1>4, <1>5 DEF Asking
<1>12. /\ pending' \in CallRec /\ pending'.api = pending.api /\ pending'.of = pending.of
       /\ pending'.record = pending.record /\ (pending.api = "none" => pending' = NoCall)
       /\ Waiting /\ n = 1 => pending'.answer = IF good THEN "ok" ELSE "error"
       /\ Waiting /\ n # 1 => pending' = pending
       /\ ~Waiting => pending' = pending
  <2>1. PICK p \in CallRec : p = pending
    BY <1>1, SharedTyped
  <2>2. PICK a \in {"ok", "error"} : a = IF good THEN "ok" ELSE "error"
    OBVIOUS
  <2>3. Waiting /\ n = 1 => m.op # "cancel"
    BY <1>5, <1>11, <2>1 DEF Asks, CallRec
  <2>4. CASE Waiting /\ n = 1
    <3>1. pending' = [p EXCEPT !.answer = a]
      BY <1>3, <1>4, <2>1, <2>2, <2>3, <2>4 DEF Waiting
    <3>2. [p EXCEPT !.answer = a] \in CallRec
      BY DEF CallRec
    <3>3. /\ [p EXCEPT !.answer = a].api = p.api /\ [p EXCEPT !.answer = a].of = p.of
          /\ [p EXCEPT !.answer = a].record = p.record /\ [p EXCEPT !.answer = a].answer = a
      BY DEF CallRec
    <3> QED BY <2>1, <2>2, <2>4, <3>1, <3>2, <3>3 DEF Waiting
  <2>5. CASE ~(Waiting /\ n = 1)
    <3>1. pending' = pending
      BY <1>3, <1>4, <2>5 DEF Waiting
    <3> QED BY <1>1, <2>1, <2>5, <3>1, SharedTyped
  <2> QED BY <2>4, <2>5
<1>13. SharedTypes'
  <2>1. served' \subseteq Work
    BY <1>1, <1>7, <1>9, SharedTyped
  <2>2. pending'.api = "none" => pending' = NoCall
    BY <1>12
  <2> QED BY <1>1, <1>4, <1>5, <1>12, <2>1, <2>2 DEF SharedTypes
<1>14. Uids'
  <2>1. \A e \in served' : (Old(e.uid))'
    BY <1>1, <1>3, <1>4, <1>5, <1>7, <1>9 DEF Uids, Old
  <2>2. \A i \in 1..Len(requests') : (Old(requests[i].uid))'
    BY <1>1, <1>3, <1>4, <1>5 DEF Uids, Old
  <2>3. \A i \in 1..Len(replies') : (Old(replies[i].uid))'
    BY <1>1, <1>4 DEF Uids, Old
  <2> QED BY <1>1, <1>4, <2>1, <2>2, <2>3 DEF Uids, Old, Held, Linked
<1>15. \A x : ((IsFor(x))' <=> IsFor(x)) /\ ((IndexFits(x))' <=> IndexFits(x))
  BY <1>4 DEF IsFor, IndexFits, Held, Linked
<1>16. Births'
  <2>1. ASSUME NEW i \in 1..Len(requests') PROVE (IsFor(requests[i]) /\ IndexFits(requests[i]))'
    <3>1. PICK x : x = requests[i + 1]
      OBVIOUS
    <3>2. IsFor(x) /\ IndexFits(x) /\ requests'[i] = x
      BY <1>1, <1>3, <1>5, <3>1 DEF Births
    <3> QED BY <1>15, <3>2
  <2>2. ASSUME NEW e \in served' PROVE (IsFor(e) /\ IndexFits(e))'
    <3>1. CASE e \in served
      BY <1>1, <1>15, <3>1 DEF Births
    <3>2. CASE e = w /\ m.op \in {"request", "register"}
      <4>1. IsFor(m) /\ IndexFits(m)
        BY <1>1, <1>3, <1>5 DEF Births
      <4>2. IsFor(w) /\ IndexFits(w)
        BY <1>7, <3>2, <4>1 DEF IsFor, IndexFits
      <4> QED BY <1>15, <3>2, <4>2
    <3> QED BY <1>9, <3>1, <3>2
  <2>3. \A i \in 1..Len(replies') : (IsFor(replies[i]))'
    <3> SUFFICES ASSUME NEW i \in 1..Len(replies') PROVE (IsFor(replies[i]))'
      OBVIOUS
    <3>1. PICK x : x = replies[i]
      OBVIOUS
    <3>2. IsFor(x) /\ replies'[i] = x
      BY <1>1, <1>4, <3>1 DEF Births
    <3> QED BY <1>15, <3>2
  <2> QED BY <2>1, <2>2, <2>3 DEF Births
<1>17. /\ \A u : (Lives(u))' <=> Lives(u)
       /\ \A u : (Listed(u))' <=> Listed(u)
       /\ \A t \in Sub : (Held(t))' <=> Held(t)
  BY <1>4 DEF Lives, Listed, Held, Linked
<1>18. ASSUME NEW j \in 1..n, NEW u, Cancel(j, u), j # 1
       PROVE  j - 1 \in 1..Len(requests') /\ (Cancel(j - 1, u))'
  BY <1>5, <1>18 DEF Cancel
<1>19. Stopping'
  <2>1. ASSUME NEW i \in 1..Len(requests'), NEW t \in Sub, Held(t)' PROVE ~(Cancel(i, op[t].uid))'
    <3>1. i + 1 \in 1..Len(requests) /\ requests'[i] = requests[i + 1] /\ Held(t)
      BY <1>3, <1>5, <1>17, <2>1
    <3> QED BY <1>1, <1>4, <3>1 DEF Stopping, Cancel
  <2>2. ASSUME NEW e \in served', e.op = "reply"
        PROVE  (Lives(e.uid))' \/ \E j \in 1..Len(requests') : (Cancel(j, e.uid))'
    <3>1. CASE e \in served /\ ~(m.op = "cancel" /\ e.uid = m.uid)
      <4>1. Lives(e.uid) \/ \E j \in 1..n : Cancel(j, e.uid)
        BY <1>1, <1>3, <2>2, <3>1 DEF Stopping
      <4>2. ASSUME NEW j \in 1..n, Cancel(j, e.uid) PROVE j # 1
        BY <1>5, <3>1, <4>2 DEF Cancel
      <4> QED BY <1>17, <1>18, <4>1, <4>2
    <3>2. CASE e = w /\ m.op \in {"request", "register"}
      <4>1. m.op = "request" /\ e.uid = m.uid
        BY <1>6, <1>7, <2>2, <3>2
      <4>2. Lives(e.uid) \/ \E j \in 1..n : 1 < j /\ Cancel(j, e.uid)
        BY <1>1, <1>3, <1>5, <4>1 DEF Stopping
      <4> QED BY <1>17, <1>18, <4>2
    <3> QED BY <1>9, <2>2, <3>1, <3>2
  <2>3. ASSUME NEW i \in 1..Len(requests'), requests'[i].op = "request"
        PROVE  (Lives(requests[i].uid))' \/ \E j \in 1..Len(requests') : i < j /\ (Cancel(j, requests[i].uid))'
    <3>1. PICK k \in 1..n : k = i + 1 /\ requests'[i] = requests[k]
      BY <1>5
    <3>2. PICK u : u = requests[k].uid
      OBVIOUS
    <3>3. CASE \E j \in 1..n : k < j /\ Cancel(j, u)
      <4>1. PICK j \in 1..n : k < j /\ Cancel(j, u)
        BY <3>3
      <4>2. j # 1 /\ i < j - 1
        BY <1>5, <3>1, <4>1
      <4> QED BY <1>18, <3>1, <3>2, <4>1, <4>2
    <3>4. CASE Lives(u)
      BY <1>17, <3>1, <3>2, <3>4
    <3> QED BY <1>1, <1>3, <2>3, <3>1, <3>2, <3>3, <3>4 DEF Stopping
  <2>4. ASSUME NEW e \in served', e.op = "record" PROVE (Listed(e.uid))'
    <3>1. CASE e \in served
      BY <1>1, <1>17, <2>4, <3>1 DEF Stopping
    <3>2. CASE e = w /\ m.op \in {"request", "register"}
      <4>1. m.op = "register" /\ e.uid = m.uid
        BY <1>6, <1>7, <2>4, <3>2
      <4> QED BY <1>1, <1>3, <1>5, <1>17, <4>1 DEF Stopping
    <3> QED BY <1>9, <3>1, <3>2
  <2>5. ASSUME NEW i \in 1..Len(requests'), requests'[i].op = "register"
        PROVE  (Listed(requests[i].uid))'
    <3>1. PICK k \in 1..n : k = i + 1 /\ requests'[i] = requests[k]
      BY <1>5
    <3>2. PICK u : u = requests[k].uid
      OBVIOUS
    <3> QED BY <1>1, <1>3, <1>17, <2>5, <3>1, <3>2 DEF Stopping
  <2> QED BY <2>1, <2>2, <2>3, <2>4, <2>5 DEF Stopping
<1>20. (Waiting)' <=> Waiting
  BY <1>12 DEF Waiting
<1>21. Asking'
  <2>1. ASSUME Waiting, pending'.answer = "none"
        PROVE  Len(requests') # 0 /\ (Asks(requests[Len(requests)]))'
    <3>1. n # 1
      BY <1>12, <2>1
    <3>2. n - 1 \in 1..n - 1 /\ (n - 1) + 1 = n
      BY <1>5, <3>1
    <3>3. requests'[n - 1] = requests[n]
      BY <1>5, <3>2
    <3>4. pending' = pending
      BY <1>12, <2>1, <3>1
    <3>5. PICK x : x = requests[n]
      OBVIOUS
    <3>6. Len(requests') # 0 /\ requests'[Len(requests')] = x
      BY <1>5, <3>1, <3>3, <3>5
    <3>7. Asks(x)
      BY <1>11, <2>1, <3>5
    <3>8. (Asks(x))'
      BY <1>4, <3>4, <3>7 DEF Asks
    <3> QED BY <3>6, <3>8
  <2>2. ASSUME Waiting, pending'.answer # "none" PROVE Len(requests') = 0
    <3>1. n = 1
      BY <1>11, <1>12, <2>2
    <3> QED BY <1>5, <3>1
  <2>3. ASSUME pending.api = "remove", pending.of = Primary, pending'.answer = "ok",
               NEW e \in served', e.op = "record"
        PROVE  e.uid # record[pending.record].uid
    <3>1. Waiting
      BY <2>3 DEF Waiting
    <3>2. n = 1 /\ good
      BY <1>11, <1>12, <2>3, <3>1
    <3>3. m.op = "remove" /\ m.index = record[pending.record].index
      BY <1>5, <1>11, <2>3, <3>1, <3>2 DEF Asks
    <3>4. e \in served /\ e.index # m.index
      BY <1>8, <2>3, <3>2, <3>3
    <3>5. IndexFits(e)
      BY <1>1, <3>4 DEF Births
    <3>6. Linked(pending.record) /\ pending.record \in Rec
      BY <1>1, <2>3 DEF Asking
    <3> QED BY <2>3, <3>3, <3>4, <3>5, <3>6 DEF IndexFits
  <2>4. pending.api = "request" => pending.of \in Sub /\ Held(pending.of)
    BY <1>1 DEF Asking
  <2>5. pending.api = "remove" => pending.record \in Rec /\ (pending.of = Primary => Linked(pending.record))
    BY <1>1 DEF Asking
  <2>6. pending'.api = "request" => pending'.of \in Sub /\ (Held(pending.of))'
    BY <1>12, <1>17, <2>4
  <2>7. pending'.api = "remove" => pending'.record \in Rec /\ (pending'.of = Primary => (Linked(pending.record))')
    BY <1>4, <1>12, <2>5 DEF Linked
  <2>8. pending'.api = "remove" /\ pending'.of = Primary /\ pending'.answer = "ok" =>
          \A e \in served' : e.op = "record" => e.uid # record'[pending'.record].uid
    BY <1>4, <1>12, <2>3
  <2> QED BY <1>4, <1>20, <2>1, <2>2, <2>6, <2>7, <2>8 DEF Asking
<1>22. Serving'
  <2> SUFFICES ASSUME NEW t \in Sub, Held(t), ~(pending'.api = "request" /\ pending'.of = t /\ pending'.answer # "ok")
               PROVE  \E e \in served' : e.op = "reply" /\ e.uid = op[t].uid /\ e.born = op[t].born
    BY <1>4, <1>17 DEF Serving
  <2>1. CASE pending.api = "request" /\ pending.of = t /\ pending.answer # "ok"
    <3>1. Waiting /\ pending'.answer = "ok" /\ n = 1 /\ good
      BY <1>12, <2>1 DEF Waiting
    <3>2. m.op = "request" /\ m.uid = op[t].uid /\ m.born = op[t].born
      BY <1>5, <1>11, <2>1, <3>1 DEF Asks
    <3>3. w \in served'
      BY <1>8, <3>1, <3>2
    <3> QED BY <1>7, <3>2, <3>3
  <2>2. CASE ~(pending.api = "request" /\ pending.of = t /\ pending.answer # "ok")
    <3>1. PICK e \in served : e.op = "reply" /\ e.uid = op[t].uid /\ e.born = op[t].born
      BY <1>1, <1>4, <2>2 DEF Serving
    <3>2. ~(m.op = "cancel" /\ e.uid = m.uid)
      BY <1>1, <1>3, <1>5, <3>1 DEF Stopping, Cancel
    <3> QED BY <1>10, <3>1, <3>2
  <2> QED BY <2>1, <2>2
<1>23. Opening'
  BY <1>1, <1>3, <1>4, <1>5 DEF Opening
<1> QED BY <1>13, <1>14, <1>16, <1>19, <1>21, <1>22, <1>23 DEF Books

-----------------------------------------------------------------------------
LEMMA CreateKeeps ==
  ASSUME Books, SharedAssumption, DNSServiceCreateConnection PROVE Books'
<1>1. SharedTypes /\ Uids /\ Births /\ Stopping /\ Asking /\ Serving /\ Opening
  BY BooksParts
<1>2. /\ record' = record /\ replies' = replies /\ served' = served /\ mdns' = mdns
      /\ next' = next /\ requests' = requests /\ pending' = pending /\ pending = NoCall /\ conn = "none"
      /\ op' = [op EXCEPT ![Primary] = [NoOp EXCEPT !.replies = TRUE]] /\ made' \in Nat
  BY <1>1, SharedTyped DEF DNSServiceCreateConnection, Calling
<1> DEFINE q == [NoOp EXCEPT !.replies = TRUE]
<1>3. q \in OpRec /\ q.rec = <<>>
  <2>1. PICK x : x = NoOp
    OBVIOUS
  <2>2. x \in OpRec /\ x.rec = <<>>
    BY <2>1 DEF NoOp, OpRec
  <2>3. q = [x EXCEPT !.replies = TRUE]
    BY <2>1
  <2> QED BY <2>2, <2>3 DEF OpRec
<1>4. op' = [op EXCEPT ![Primary] = q] /\ op \in [Sub \cup {Primary} -> OpRec]
  BY <1>1, <1>2, SharedTyped
<1> HIDE DEF q
<1>5. op' \in [Sub \cup {Primary} -> OpRec] /\ op'[Primary] = q /\ \A t \in Sub : op'[t] = op[t]
  BY <1>3, <1>4 DEF SharedAssumption
<1>6. Len(next) = 0 /\ Len(requests) = 0 /\ Len(replies) = 0 /\ served = {} /\ pending.api = "none"
  BY <1>1, <1>2 DEF Opening, NoCall
<1>7. Len(op'[Primary].rec) = 0
  BY <1>3, <1>5
<1>8. (\A t \in Sub : ~(Held(t))') /\ (\A d \in Rec : ~(Linked(d))')
  BY <1>2, <1>6, <1>7 DEF Held, Linked, Contains
<1>9. SharedTypes'
  <2>1. ASSUME NEW t \in Sub \cup {Primary}
        PROVE  \A i, j \in 1..Len(op'[t].rec) : op'[t].rec[i] = op'[t].rec[j] => i = j
    <3>1. CASE t = Primary
      BY <1>7, <3>1
    <3>2. CASE t # Primary
      BY <1>1, <1>5, <3>2 DEF SharedTypes
    <3> QED BY <3>1, <3>2
  <2> QED BY <1>1, <1>2, <1>5, <2>1 DEF SharedTypes
<1>10. Uids' /\ Births' /\ Stopping' /\ Serving' /\ Opening'
  BY <1>2, <1>6, <1>8 DEF Uids, Births, Stopping, Serving, Opening
<1>11. Asking'
  BY <1>1, <1>2, <1>6 DEF Asking, Waiting
<1> QED BY <1>9, <1>10, <1>11 DEF Books

LEMMA EndKeeps ==
  ASSUME Books, SharedAssumption, DeallocatePrimary PROVE Books'
<1>1. SharedTypes /\ Asking
  BY BooksParts
<1>2. /\ record' = record /\ replies' = <<>> /\ served' = {} /\ mdns' = mdns
      /\ next' = <<>> /\ requests' = <<>> /\ pending' = pending /\ pending = NoCall
      /\ op' = [r \in Sub \cup {Primary} |-> NoOp] /\ made' \in Nat
  BY <1>1, SharedTyped DEF DeallocatePrimary, Calling
<1>3. NoOp \in OpRec /\ Len(NoOp.rec) = 0
  BY DEF NoOp, OpRec
<1>4. op' \in [Sub \cup {Primary} -> OpRec] /\ \A t \in Sub \cup {Primary} : op'[t] = NoOp
  BY <1>2, <1>3
<1>5. Len(next') = 0 /\ Len(requests') = 0 /\ Len(replies') = 0 /\ pending.api = "none"
  BY <1>2 DEF NoCall
<1>6. Len(op'[Primary].rec) = 0 /\ \A t \in Sub \cup {Primary} : Len(op'[t].rec) = 0
  BY <1>3, <1>4
<1>7. (\A t \in Sub : ~(Held(t))') /\ (\A d \in Rec : ~(Linked(d))')
  BY <1>5, <1>6 DEF Held, Linked, Contains
<1>8. SharedTypes'
  BY <1>1, <1>2, <1>4, <1>6 DEF SharedTypes
<1>9. Uids' /\ Births' /\ Stopping' /\ Serving' /\ Opening'
  BY <1>2, <1>5, <1>7 DEF Uids, Births, Stopping, Serving, Opening
<1>10. Asking'
  BY <1>2, <1>5 DEF Asking, Waiting
<1> QED BY <1>8, <1>9, <1>10 DEF Books

LEMMA SubordinateKeeps ==
  ASSUME Books, SharedAssumption, DeallocateSubordinate PROVE Books'
<1>1. SharedTypes
  BY BooksParts
<1>2. PICK s \in ToSet(next) : Stop(s)
  BY DEF DeallocateSubordinate
<1>3. s \in Sub /\ Held(s)
  <2>1. next \in Seq(Sub) /\ DOMAIN next = 1..Len(next)
    BY <1>1, SharedTyped
  <2> QED BY <2>1 DEF ToSet, Held, Contains
<1>4. /\ UNCHANGED <<conn, record, replies, served, mdns>> /\ pending' = NoCall /\ made' \in Nat
      /\ pending.api # "request"
  BY <1>1, SharedTyped DEF DeallocateSubordinate, Calling, NoCall
<1> QED BY <1>2, <1>3, <1>4, StopKeeps

LEMMA BooksStep ==
  ASSUME Books, SharedAssumption, SharedNext PROVE Books'
<1>1. CASE ApplicationCall
  <2>1. CASE \/ DNSServiceResolve \/ DNSServiceQueryRecord \/ DNSServiceGetAddrInfo
             \/ DNSServiceBrowse \/ DNSServiceEnumerateDomains \/ DNSServiceNATPortMappingCreate
             \/ DNSServiceRegister
    BY <2>1, RequestKeeps
       DEF DNSServiceResolve, DNSServiceQueryRecord, DNSServiceGetAddrInfo, DNSServiceBrowse,
           DNSServiceEnumerateDomains, DNSServiceNATPortMappingCreate, DNSServiceRegister
  <2>2. CASE \/ DNSServiceGetProperty \/ DNSServiceGetPID \/ DNSServiceSetDefaultDomainForUser
             \/ DNSServiceReconfirmRecord
    BY <2>2, AskKeeps
       DEF DNSServiceGetProperty, DNSServiceGetPID, DNSServiceSetDefaultDomainForUser,
           DNSServiceReconfirmRecord
  <2>3. CASE DNSServiceRegisterRecord
    <3>1. CASE Records # Rec
      BY <2>3, <3>1, RegisterKeeps
    <3>2. CASE Records = Rec
      <4>1. /\ op' = [op EXCEPT ![Primary].uid = @ + 1]
            /\ UNCHANGED <<conn, next, record, pending, requests, replies, served, mdns>>
        BY <2>3, <3>2 DEF DNSServiceRegisterRecord
      <4>2. made' \in Nat
        BY <2>3, BooksParts, SharedTyped DEF DNSServiceRegisterRecord, Calling
      <4> QED BY <4>1, <4>2, CountKeeps
    <3> QED BY <3>1, <3>2
  <2> QED BY <1>1, <2>1, <2>2, <2>3, CreateKeeps, AddKeeps, UpdateKeeps, SubordinateKeeps, EndKeeps
          DEF ApplicationCall
<1>2. CASE StubStep
  BY <1>2, ReturnsKeep, ProcessResultKeeps, LoopStepsKeep DEF StubStep
<1>3. CASE DaemonWorks
  BY <1>3, ServeKeeps, AnswerAskedKeeps DEF DaemonWorks
<1>4. CASE DaemonReplies \/ DaemonEnds
  BY <1>4, DaemonRepliesKeeps, DaemonEndsKeeps
<1> QED BY <1>1, <1>2, <1>3, <1>4 DEF SharedNext

\* The loop of DNSServiceProcessResult.
LEMMA LoopStep ==
  ASSUME Loop, SharedNext PROVE Loop'
<1>1. CASE UNCHANGED <<conn, moreptr, result>>
  BY <1>1 DEF Loop
<1>2. CASE DNSServiceCreateConnection
  BY <1>2 DEF Loop, DNSServiceCreateConnection, Calling
<1>3. CASE DeallocatePrimary
  <2>1. PICK x \in [pc : {"none", "read", "callback", "after"}, more : BOOLEAN] : x = result
    BY DEF Loop
  <2>2. /\ result' = IF moreptr THEN [x EXCEPT !.more = FALSE] ELSE x
        /\ conn' = "freed" /\ moreptr' = FALSE /\ result.pc \in {"none", "callback"}
    BY <1>3, <2>1 DEF DeallocatePrimary, Calling
  <2>3. /\ result' \in [pc : {"none", "read", "callback", "after"}, more : BOOLEAN]
        /\ result'.pc = x.pc /\ result'.more = IF moreptr THEN FALSE ELSE x.more
    BY <2>1, <2>2
  <2> QED BY <2>1, <2>2, <2>3 DEF Loop
<1>4. CASE DNSServiceProcessResult
  BY <1>4 DEF Loop, DNSServiceProcessResult
<1>5. CASE CallbackReturns
  <2>1. PICK x \in [pc : {"none", "read", "callback", "after"}, more : BOOLEAN] : x = result
    BY DEF Loop
  <2>2. result' = [x EXCEPT !.pc = "after"] /\ x.pc = "callback" /\ conn' = conn /\ moreptr' = moreptr
    BY <1>5, <2>1 DEF CallbackReturns
  <2> QED BY <2>1, <2>2 DEF Loop
<1>6. CASE AfterReply
  <2>1. PICK x \in [pc : {"none", "read", "callback", "after"}, more : BOOLEAN] : x = result
    BY DEF Loop
  <2>2. CASE x.more
    <3>1. moreptr' = FALSE /\ result' = [x EXCEPT !.pc = "read"] /\ conn' = conn /\ x.pc = "after"
      BY <1>6, <2>1, <2>2 DEF AfterReply
    <3> QED BY <2>1, <2>2, <3>1 DEF Loop
  <2>3. CASE ~x.more
    <3>1. moreptr' = moreptr /\ result' = [x EXCEPT !.pc = "none"] /\ conn' = conn /\ x.pc = "after"
      BY <1>6, <2>1, <2>3 DEF AfterReply
    <3> QED BY <2>1, <2>3, <3>1 DEF Loop
  <2> QED BY <2>2, <2>3
<1>7. CASE SharedReadFails
  BY <1>7 DEF Loop, SharedReadFails
<1>8. CASE Answered \/ GivesUp \/ AcceptFails
  BY <1>1, <1>8 DEF Answered, GivesUp, AcceptFails, Return
<1>9. CASE DaemonWorks \/ DaemonReplies \/ DaemonEnds
  BY <1>1, <1>9 DEF DaemonWorks, DaemonReplies, DaemonEnds, Serve, AnswerAsked
<1>10. CASE ApplicationCall
  <2>1. CASE \/ DNSServiceResolve \/ DNSServiceQueryRecord \/ DNSServiceGetAddrInfo
             \/ DNSServiceBrowse \/ DNSServiceEnumerateDomains \/ DNSServiceNATPortMappingCreate
             \/ DNSServiceRegister
    BY <1>1, <2>1
       DEF DNSServiceResolve, DNSServiceQueryRecord, DNSServiceGetAddrInfo, DNSServiceBrowse,
           DNSServiceEnumerateDomains, DNSServiceNATPortMappingCreate, DNSServiceRegister, Request
  <2>2. CASE \/ DNSServiceGetProperty \/ DNSServiceGetPID \/ DNSServiceSetDefaultDomainForUser
             \/ DNSServiceReconfirmRecord
    BY <1>1, <2>2
       DEF DNSServiceGetProperty, DNSServiceGetPID, DNSServiceSetDefaultDomainForUser,
           DNSServiceReconfirmRecord, Ask
  <2>3. CASE \/ DNSServiceRegisterRecord \/ DNSServiceAddRecord \/ DNSServiceUpdateRecord
             \/ DNSServiceRemoveRecord \/ DeallocateSubordinate
    BY <1>1, <2>3
       DEF DNSServiceRegisterRecord, DNSServiceAddRecord, DNSServiceUpdateRecord,
           DNSServiceRemoveRecord, DeallocateSubordinate
  <2> QED BY <1>2, <1>3, <1>10, <2>1, <2>2, <2>3 DEF ApplicationCall
<1> QED BY <1>4, <1>5, <1>6, <1>7, <1>8, <1>9, <1>10 DEF SharedNext, StubStep

LEMMA SharedInvInit ==
  ASSUME SharedAssumption, SharedInit PROVE SharedInv
<1>1. /\ conn = "none" /\ next = <<>> /\ op = [r \in Sub \cup {Primary} |-> NoOp]
      /\ record = [r \in Rec |-> NoRecord]
      /\ moreptr = FALSE /\ result = [pc |-> "none", more |-> FALSE]
      /\ pending = NoCall
      /\ requests = <<>> /\ replies = <<>> /\ served = {}
      /\ mdns = "up" /\ made = 0
  BY DEF SharedInit
<1>2. NoOp \in OpRec /\ Len(NoOp.rec) = 0 /\ NoRecord \in RecRec /\ NoCall \in CallRec /\ NoCall.api = "none"
  BY DEF NoOp, OpRec, NoRecord, RecRec, NoCall, CallRec
<1>3. /\ op \in [Sub \cup {Primary} -> OpRec] /\ record \in [Rec -> RecRec]
      /\ \A t \in Sub \cup {Primary} : Len(op[t].rec) = 0
  BY <1>1, <1>2
<1>4. Len(next) = 0 /\ Len(requests) = 0 /\ Len(replies) = 0 /\ Len(op[Primary].rec) = 0
  BY <1>1, <1>3
<1>5. (\A t \in Sub : ~Held(t)) /\ (\A d \in Rec : ~Linked(d))
  BY <1>4 DEF Held, Linked, Contains
<1>6. SharedTypes
  BY <1>1, <1>2, <1>3, <1>4 DEF SharedTypes
<1>7. Uids /\ Births /\ Stopping /\ Serving /\ Opening
  BY <1>1, <1>4, <1>5 DEF Uids, Births, Stopping, Serving, Opening
<1>8. Asking
  BY <1>1, <1>2, <1>4 DEF Asking, Waiting
<1>9. Loop
  BY <1>1 DEF Loop
<1> QED BY <1>6, <1>7, <1>8, <1>9 DEF SharedInv, Books

LEMMA SharedInvNext ==
  ASSUME SharedInv, [SharedNext]_sharedVars PROVE SharedInv'
<1>1. ASSUME SharedNext PROVE SharedInv'
  BY <1>1, BooksStep, LoopStep, SharedAssumption DEF SharedInv
<1>2. ASSUME UNCHANGED sharedVars PROVE SharedInv'
  <2>1. Books'
    BY <1>2, BooksKept DEF SharedInv, sharedVars
  <2>2. Loop'
    BY <1>2 DEF SharedInv, sharedVars, Loop
  <2> QED BY <2>1, <2>2 DEF SharedInv
<1> QED BY <1>1, <1>2

LEMMA SharedInvServed ==
  ASSUME SharedAssumption, SharedInv PROVE SharedRefsServed
<1>1. SharedTypes /\ Uids /\ Births /\ Stopping /\ Asking /\ Serving /\ Opening /\ Loop
  BY BooksParts DEF SharedInv
<1>2. next \in Seq(Sub) /\ DOMAIN next = 1..Len(next)
  BY <1>1, SharedTyped
<1>3. \A s : s \in ToSet(next) <=> s \in Sub /\ Held(s)
  BY <1>2 DEF ToSet, Held, Contains
<1>4. \A d : d \in ToSet(op[Primary].rec) <=> d \in Rec /\ Linked(d)
  <2>1. PICK l \in Seq(Rec) : l = op[Primary].rec
    BY <1>1, OpFields
  <2>2. \A d : d \in ToSet(l) <=> d \in Rec /\ Contains(l, d)
    BY DEF ToSet, Contains
  <2>3. \A d : Contains(l, d) <=> Linked(d)
    BY <2>1 DEF Contains, Linked
  <2> QED BY <2>1, <2>2, <2>3
<1>5. RepliesReachTheirs
  <2> SUFFICES ASSUME NEW m \in ToSet(replies) \cup served, NEW to \in Named(m)
               PROVE  m.born = IF m.op = "record" THEN record[to].born ELSE op[to].born
    BY DEF RepliesReachTheirs
  <2>1. IsFor(m) /\ m.op \in {"reply", "record"}
    <3>1. CASE m \in served
      BY <1>1, <3>1, SharedTyped DEF Births, Work
    <3>2. CASE m \in ToSet(replies)
      <4>1. replies \in Seq(Rep)
        BY <1>1, SharedTyped
      <4>2. PICK i \in 1..Len(replies) : m = replies[i] /\ m \in Rep
        BY <3>2, <4>1 DEF ToSet
      <4> QED BY <1>1, <4>2 DEF Births, Rep
    <3> QED BY <3>1, <3>2
  <2>2. CASE m.op = "record"
    <3>1. to \in Rec /\ Linked(to) /\ record[to].uid = m.uid
      BY <1>4, <2>2 DEF Named
    <3> QED BY <2>1, <2>2, <3>1 DEF IsFor
  <2>3. CASE m.op = "reply"
    <3>1. to \in Sub /\ Held(to) /\ op[to].uid = m.uid
      BY <1>3, <2>3 DEF Named
    <3> QED BY <2>1, <2>3, <3>1 DEF IsFor
  <2> QED BY <2>1, <2>2, <2>3
<1>6. NothingOrphaned
  <2> SUFFICES ASSUME requests = <<>>, NEW e \in served PROVE Named(e) # {}
    BY DEF NothingOrphaned
  <2>1. Len(requests) = 0
    OBVIOUS
  <2>2. e.op \in {"reply", "record"}
    BY <1>1, SharedTyped DEF Work
  <2>3. CASE e.op = "record"
    <3>1. PICK d \in Rec : Linked(d) /\ record[d].uid = e.uid
      BY <1>1, <2>3 DEF Stopping, Listed
    <3> QED BY <1>4, <2>3, <3>1 DEF Named
  <2>4. CASE e.op = "reply"
    <3>1. PICK s \in Sub : Held(s) /\ op[s].uid = e.uid
      BY <1>1, <2>1, <2>4 DEF Stopping, Lives
    <3> QED BY <1>3, <2>4, <3>1 DEF Named
  <2> QED BY <2>2, <2>3, <2>4
<1>7. HeldIsServed
  <2> SUFFICES ASSUME NEW s \in ToSet(next), pending.of # s, mdns # "down"
               PROVE  \E e \in served : e.op = "reply" /\ e.born = op[s].born
    BY DEF HeldIsServed
  <2>1. s \in Sub /\ Held(s) /\ mdns = "up"
    BY <1>1, <1>3, SharedTyped
  <2> QED BY <1>1, <2>1 DEF Serving
<1>8. NothingDangles
  BY <1>1 DEF Loop, NothingDangles
<1> QED BY <1>5, <1>6, <1>7, <1>8 DEF SharedRefsServed

\* DNSServiceProcessResult and ConnectionResponse: replies on a shared connection reach the
\* operation or record they are for, what the daemon serves is held and what is held is
\* served, and a connection that a callback has freed is not touched.
THEOREM RepliesAlwaysReachTheirs == SharedSpec => []SharedRefsServed
<1>1. SharedInit => SharedInv
  BY SharedInvInit, SharedAssumption
<1>2. SharedInv /\ [SharedNext]_sharedVars => SharedInv'
  BY SharedInvNext
<1>3. SharedInv => SharedRefsServed
  BY SharedInvServed, SharedAssumption
<1> QED BY <1>1, <1>2, <1>3, PTL DEF SharedSpec
=============================================================================
