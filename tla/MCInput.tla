------------------------------ MODULE MCInput ------------------------------
(***************************************************************************)
(* What comes into the application from outside, for TLC: the frames of an *)
(* anchor, the answers to the pings of a scan, the anchors that the DNS-SD *)
(* daemon finds, and the answers of that daemon on a shared connection.  A *)
(* behaviour is about one of them, chosen at its beginning, and the others *)
(* stay as they are.                                                       *)
(***************************************************************************)
EXTENDS FrameParser, IpScan, Discovery, SharedConnection, TLC

VARIABLE about   \* what this behaviour is about

\* RTLS_SET_GET_STATICADDR (0x92) with its structure cut down to 5 bytes, and
\* RTLS_USE_STATICADDR (0x93).
MCMinLength == 146 :> 5 @@ 147 :> 3

\* Data and checksum full of bytes that could start or end a frame.
MCTricky == {<<147, 2, 3>>, <<146, 2, 1, 0, 3, 3>>}

\* Known messages, one nobody handles, and one that is too short.
MCMixed == {<<147, 1, 3>>, <<146, 0, 1, 0, 1, 4>>, <<50, 0, 3>>, <<146, 0, 0>>}
MCMixedCrc == <<3, 0>>
MCMessages == MCTricky \cup MCMixed

\* Junk: one piece without a start byte, and one that looks like a frame but does
\* not end like one.
MCJunk == {<<3, 0>>, <<2, 3, 0, 147, 0, 0, 0, 0, 0>>}

Tricky == INSTANCE FrameParser
          WITH Message <- MCTricky, Crc <- <<3, 2>>, BufLen <- 12, MayClose <- FALSE
Mixed == INSTANCE FrameParser WITH Message <- MCMixed

\* An anchor that sends tricky messages, and only ones that are handled.
Channel == INSTANCE OrderedDelivery
           WITH Message <- MCTricky, sent <- IF about = "tricky" THEN Sent ELSE <<>>,
                handled <- IF about = "tricky" THEN handled ELSE <<>>

\* The connection is a channel: every message the anchor sends reaches its
\* handler, once and in order, however the bytes are cut into pieces.
ImplementsChannel == Channel!Spec

\* Fields of two bits: hosts at several places of networks of every size that
\* leaves the last field to the hosts.
Loopback == [ip |-> <<B - 1, 0, 0, 1>>, cidr |-> W, loopback |-> TRUE]
Interface(ip, cidr) == [ip |-> ip, cidr |-> cidr, loopback |-> FALSE]
MCSmall == {<<Loopback, Interface(ip, cidr)>> :
              ip \in {<<2, 1, 3, 1>>, <<2, 3, 2, 2>>}, cidr \in 2..6}
           \cup {<<Interface(<<1, 1, 0, 2>>, 6), Loopback, Interface(<<2, 0, 1, 3>>, 5)>>}
MCSmallWanted == 1..2

MCFaults == {{}, {"vanish", "noTxt"}, {"silent"}, {"die", "vanish"}, {"die", "late"},
             {"hang", "late"}}

-----------------------------------------------------------------------------
vars == <<about, frameVars, scanVars, discVars, sharedVars>>

MCInit ==
  /\ about \in {"tricky", "mixed", "scan", "discovery", "shared"}
  /\ FrameInit /\ ScanInit /\ DiscInit /\ SharedInit
  /\ about = "scan" \/ (wanted = 1 /\ ifs = CHOOSE list \in MCSmall : TRUE)
  /\ about = "discovery" \/ (faults = {} /\ daemon = "up")

Wire(what) == about = what /\ UNCHANGED <<about, scanVars, discVars, sharedVars>>
AScan == about = "scan" /\ UNCHANGED <<about, frameVars, discVars, sharedVars>>
ADiscovery == about = "discovery" /\ UNCHANGED <<about, frameVars, scanVars, sharedVars>>
AShared == about = "shared" /\ UNCHANGED <<about, frameVars, scanVars, discVars>>

MCNext ==
  \/ Wire("tricky") /\ Tricky!FrameNext
  \/ Wire("mixed") /\ Mixed!FrameNext
  \/ AScan /\ ScanNext
  \/ ADiscovery /\ DiscNext
  \/ AShared /\ SharedNext

\* The fairness of the one it is about: no step of the others can be taken.
MCFairness ==
  /\ WF_vars(\/ Wire("tricky") /\ Tricky!Receive
             \/ Wire("mixed") /\ Mixed!Receive
             \/ AScan /\ ScanNext
             \/ ADiscovery /\ DiscoveryStep
             \/ AShared /\ StubStep)
  /\ WF_vars(\/ Wire("tricky") /\ Tricky!Parse
             \/ Wire("mixed") /\ Mixed!Parse
             \/ ADiscovery /\ DaemonStep)

MCSpec == MCInit /\ [][MCNext]_vars /\ MCFairness

-----------------------------------------------------------------------------
\* Whatever comes in, every variable keeps its type.
InputTypeOK == FrameTypeOK /\ ScanTypeOK /\ DiscTypeOK /\ SharedTypeOK

\* No input keeps a thread for good: the parser gets through every buffer, a scan reports,
\* the end of the daemon ends the discovery thread, and calls on a shared connection return.
InputEnds == ParseEnds /\ ScanReports /\ DeathEndsThread /\ SharedCallsReturn
=============================================================================
