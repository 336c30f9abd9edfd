SPECIFICATION MCSpec
CHECK_DEADLOCK FALSE
CONSTANTS
  Message <- MCMessages
  Junk <- MCJunk
  MinLength <- MCMinLength
  Crc <- MCMixedCrc
  BufLen = 40
  MaxItems = 3
  MayClose = TRUE
  W = 2
  Interfaces <- MCSmall
  Wanted <- MCSmallWanted
  Ref = {r1, r2, r3, r4}
  NullRef = NullRef
  Service = {s1, s2}
  MaxTries = 2
  MaxAppear = 1
  Faults <- MCFaults
  Sub = {sub1, sub2}
  Rec = {rec1}
  Primary = Primary
  Nobody = Nobody
  SharedCalls = 4
  MaxReplies = 2
  Limited = TRUE
INVARIANTS
  InputTypeOK
  FramesHandled
  HandledFits
  OffersRight
  StubMemory
  SharedRefsServed
PROPERTIES
  ImplementsChannel
  StayingIsStored
  InputEnds
