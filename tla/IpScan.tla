------------------------------- MODULE IpScan -------------------------------
(***************************************************************************)
(* ip_scan and the iterator IPIter: the thread a click on Populate starts  *)
(* finds the interface that reaches an anchor and collects addresses of    *)
(* its network that do not answer a ping.                                  *)
(*                                                                         *)
(* An address is four fields of W bits; in the code W is 8.  A netmask is  *)
(* the number of its leading ones.                                         *)
(***************************************************************************)
EXTENDS Integers, Sequences, FiniteSets

CONSTANTS
  W,           \* bits of a field
  Interfaces,  \* lists of interfaces the host may have, [ip, cidr, loopback] each
  Wanted       \* how many addresses may be asked for

B == 2^W
Field == 0..B - 1
Address == [1..4 -> Field]

ASSUME WidthAssumption == W \in Nat \ {0}
ASSUME InterfaceAssumption ==
  Interfaces \subseteq Seq([ip : Address, cidr : 1..4 * W, loopback : BOOLEAN])
ASSUME WantedAssumption == Wanted \subseteq Nat \ {0}

VARIABLES
  phase,        \* "pick" an interface, "scan", "done"
  ifs,       \* the interfaces of the host that are still to be tried
  wanted,    \* n: how many addresses are wanted
  host,      \* the interface chosen, a list of one or none
  mCurrent,  \* m_current
  ps,        \* the addresses collected
  event      \* the payload of the event queued, a list of one or none

scanVars == <<phase, ifs, wanted, host, mCurrent, ps, event>>

\* How many of field i's leading bits a netmask of cidr ones keeps.
Kept(cidr, i) == LET k == cidr - W * (i - 1)
                 IN IF k < 0 THEN 0 ELSE IF k > W THEN W ELSE k
Masked(x, cidr, i) == x - (x % 2^(W - Kept(cidr, i)))

MCount(cidr) == 2^(4 * W - cidr)

\* Mutant: the carry into the field before is lost.
GetNextMutant(h, m) ==
  [i \in 1..4 |-> IF i = 4 THEN m % B ELSE Masked(h.ip[i], h.cidr, i)]

\* GetNext: the last field is the iterator's own, and the carry is added to the
\* other fields of the network's address.
GetNext(h, m) ==
  [i \in 1..4 |-> IF i = 4 THEN m % B
                  ELSE (m \div 2^(W * (4 - i)) + Masked(h.ip[i], h.cidr, i)) % B]

\* operator bool.  m_count is unsigned, but never 0.
More(h, m) == m < MCount(h.cidr) - 1

ScanInit ==
  /\ phase = "pick" /\ ifs \in Interfaces /\ wanted \in Wanted
  /\ host = <<>> /\ mCurrent = 1 /\ ps = <<>> /\ event = <<>>

\* An interface that is not the loopback and from which the anchor answers a ping.
PickInterface ==
  /\ phase = "pick" /\ ifs # <<>> /\ ~Head(ifs).loopback
  /\ host' = <<Head(ifs)>> /\ phase' = "scan"
  /\ UNCHANGED <<ifs, wanted, mCurrent, ps, event>>

SkipInterface ==
  /\ phase = "pick" /\ ifs # <<>> /\ ifs' = Tail(ifs)
  /\ UNCHANGED <<phase, wanted, host, mCurrent, ps, event>>

\* No interface reaches the anchor: no event.
NoInterface ==
  /\ phase = "pick" /\ ifs = <<>> /\ phase' = "done"
  /\ UNCHANGED <<ifs, wanted, host, mCurrent, ps, event>>

Enough == Len(ps) = wanted

\* One turn of the loop: any address, the host's own among them, may answer the
\* ping or not.  One that does not is collected.
Ping ==
  /\ phase = "scan" /\ ~Enough /\ More(host[1], mCurrent)
  /\ ps' \in {ps, Append(ps, GetNext(host[1], mCurrent))}
  /\ mCurrent' = mCurrent + 1
  /\ UNCHANGED <<phase, ifs, wanted, host, event>>

\* Enough addresses, or none left: the GUI thread gets those there are.
Finish ==
  /\ phase = "scan" /\ (Enough \/ ~More(host[1], mCurrent))
  /\ event' = <<ps>> /\ phase' = "done"
  /\ UNCHANGED <<ifs, wanted, host, mCurrent, ps>>

ScanNext == PickInterface \/ SkipInterface \/ NoInterface \/ Ping \/ Finish

ScanSpec == ScanInit /\ [][ScanNext]_scanVars
ScanFairSpec == ScanSpec /\ WF_scanVars(ScanNext)

-----------------------------------------------------------------------------
(* Properties. *)

ScanTypeOK ==
  /\ phase \in {"pick", "scan", "done"} /\ wanted \in Wanted /\ mCurrent \in Nat
  /\ \A k \in DOMAIN ps : ps[k] \in Address
  /\ Len(ps) <= wanted  \* the array has n elements
  /\ Len(event) <= 1 /\ Len(host) <= 1
  /\ phase = "scan" => Len(host) = 1

\* The network an address may be taken from, by the netmask alone: the same bits
\* under the mask, and not all zeros nor all ones beside it.
SameNetwork(h, a) ==
  \A i \in 1..4 : Masked(a[i], h.cidr, i) = Masked(h.ip[i], h.cidr, i)
HostBits(h, a) == [i \in 1..4 |-> a[i] - Masked(a[i], h.cidr, i)]
AllOnes(h) == [i \in 1..4 |-> 2^(W - Kept(h.cidr, i)) - 1]
Usable(h, a) == /\ SameNetwork(h, a)
                /\ HostBits(h, a) # [i \in 1..4 |-> 0] /\ HostBits(h, a) # AllOnes(h)

\* Every address the user is offered can be given to an anchor of the network:
\* it belongs to it and is not reserved.  That it is not the host's own rests on
\* the host answering its own ping.
OffersUsable == \A k \in DOMAIN ps : Usable(host[1], ps[k])

\* No address is offered twice.
OffersDistinct == \A i, j \in DOMAIN ps : i # j => ps[i] # ps[j]

\* Less than was asked for is offered only when every usable address of the
\* network has been tried.
OffersAll ==
  event # <<>> =>
    \/ Len(event[1]) = wanted
    \/ LET tried == {GetNext(host[1], m) : m \in 1..mCurrent - 1}
       IN Cardinality(tried) = MCount(host[1].cidr) - 2

\* A scan offers addresses that can be used, each once, and all of them before too few.
OffersRight == OffersUsable /\ OffersDistinct /\ OffersAll

\* A scan ends with an event if an interface reaches the anchor: the buttons
\* Populate has disabled are enabled again.
ScanReports == <>[](host # <<>> => event # <<>>)
=============================================================================
