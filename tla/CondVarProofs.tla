---------------------------- MODULE CondVarProofs ----------------------------
(***************************************************************************)
(* Proofs about the condition variables, for any number of threads and     *)
(* calls.  The inductive invariant adds to WaitersCounted what a thread    *)
(* knows where it is (who holds mtxUnblockLock, and that it has found      *)
(* nobody left to be released), that the gate is closed for one reason at  *)
(* a time, and that nobody comes to a condition variable that is being     *)
(* destroyed.  Of the gate's semaphore it says that its value counts the   *)
(* threads at it, but for one that may have been forgotten when it was     *)
(* cancelled, and that its kernel semaphore lets one of them through when  *)
(* nothing keeps it closed (GateCount).  Most steps are ordinary: they     *)
(* leave the gate alone and keep the books, which is shown once            *)
(* (OrdinaryKept).                                                         *)
(***************************************************************************)
EXTENDS CondVar, FiniteSetTheorems, TLAPS

CvPc == {"idle", "enter", "unlock", "wait", "cleanup", "compact", "open", "relock",
         "gate", "post", "close", "ended"}
CvResult == {"0", "timeout", "cancel", "cancelAwake", "signal", "broadcast", "EBUSY"}
WaiterRec == [pc : CvPc, result : CvResult, issue : Nat]
CvRec == [blocked : Nat, toUnblock : Nat, gone : Nat]

GateRec == [value : Int, units : Nat]
GateTurns == {"none", "queued", "withdraws", "has"}

CvTypes ==
  /\ cv \in CvRec /\ blockLock \in GateRec /\ blockQueue \in Nat
  /\ turn \in [Thread -> GateTurns]
  /\ unblockLock \in Thread \cup {Null} /\ waiter \in [Thread -> WaiterRec]
  /\ cvDestroyed \in BOOLEAN

\* What a thread knows where it is.
WaiterKnows ==
  \A t \in Thread :
    /\ unblockLock = t <=> waiter[t].pc \in {"gate", "compact"}
    /\ waiter[t].pc \in {"gate", "compact"} => cv.toUnblock = 0
    /\ waiter[t].pc = "gate" => cv.blocked > cv.gone /\ waiter[t].result \in {"signal", "broadcast"}
    /\ waiter[t].pc \in {"enter", "unlock", "wait"} => waiter[t].result = "0"
    /\ waiter[t].issue # 0 => waiter[t].pc = "post"

\* Where a thread can have to do with the gate.
AtGate == {"enter", "compact", "gate", "close", "ended"}
TurnKnows ==
  \A t \in Thread : /\ turn[t] # "none" => waiter[t].pc \in AtGate
                    /\ turn[t] = "withdraws" => waiter[t].pc = "enter"

\* Who keeps the gate: the thread that has it, or is about to open it.
Keepers == {t \in Thread : waiter[t].pc = "open" \/ turn[t] = "has"}

\* The gate is closed for one reason at a time.
OneKeeper ==
  /\ \A t, u \in Keepers : t = u
  /\ cv.toUnblock > 0 \/ cvDestroyed => Keepers = {}
  /\ ~(cv.toUnblock > 0 /\ cvDestroyed)

Held == cv.toUnblock > 0 \/ Keepers # {} \/ cvDestroyed
Holders == IF Held THEN 1 ELSE 0
Queue == {t \in Thread : turn[t] \in {"queued", "withdraws"}}

GateCount ==
  /\ blockLock.value + Cardinality(Queue) + Holders \in {0, 1}
  /\ blockLock.units = IF ~Held /\ blockLock.value <= 0 THEN 1 ELSE 0

\* One thread destroys, and nobody comes any more.
Destroying ==
  /\ \A t, u \in At({"close"}) : t = u
  /\ At({"close"}) # {} => At({"enter", "gate", "post"}) = {}
  /\ cvDestroyed => At({"close"}) = {}

CvInv ==
  /\ CvTypes /\ WaiterKnows /\ TurnKnows /\ OneKeeper /\ GateCount /\ Destroying
  /\ CountersMatch /\ SignalsKept /\ DestroyedIsUnused

-----------------------------------------------------------------------------
Pending == UNION {Units(t) : t \in Thread}
CvWaiting == At({"unlock", "wait", "cleanup"})
Taken == {t \in At({"cleanup"}) : waiter[t].result \in {"0", "cancelAwake"}}

LEMMA SetsAreFinite ==
  ASSUME CvTypes
  PROVE  /\ IsFiniteSet(CvWaiting) /\ Cardinality(CvWaiting) \in Nat
         /\ IsFiniteSet(Taken) /\ Cardinality(Taken) \in Nat
         /\ IsFiniteSet(Pending) /\ Issuing \in Nat /\ Issuing = Cardinality(Pending)
<1>1. CvWaiting \in SUBSET Thread /\ Taken \in SUBSET Thread
  BY DEF CvWaiting, Taken, At
<1>2. IsFiniteSet(CvWaiting) /\ IsFiniteSet(Taken)
  BY <1>1, FS_Subset, ThreadAssumption
<1>3. \A t \in Thread : IsFiniteSet(Units(t))
  <2> SUFFICES ASSUME NEW t \in Thread PROVE IsFiniteSet(Units(t))
    OBVIOUS
  <2>1. PICK n \in Nat : n = waiter[t].issue
    BY DEF CvTypes, WaiterRec
  <2>2. IsFiniteSet(1..n)
    BY FS_Interval
  <2> QED BY <2>1, <2>2, FS_Singleton, FS_Product DEF Units
<1>4. IsFiniteSet({Units(t) : t \in Thread})
  <2> DEFINE f == [t \in Thread |-> Units(t)]
  <2>1. f \in Surjection(Thread, {Units(t) : t \in Thread})
    BY DEF Surjection
  <2> HIDE DEF f
  <2> QED BY <2>1, FS_Surjection, ThreadAssumption
<1>5. IsFiniteSet(Pending)
  BY <1>3, <1>4, FS_UNION DEF Pending
<1> QED BY <1>2, <1>5, FS_CardinalityType DEF Issuing, Pending

LEMMA CvInvInit == CvInit => CvInv
<1> SUFFICES ASSUME CvInit PROVE CvInv
  OBVIOUS
<1>1. /\ cv = [blocked |-> 0, toUnblock |-> 0, gone |-> 0]
      /\ blockLock = [value |-> 1, units |-> 0] /\ turn = [t \in Thread |-> "none"]
      /\ blockQueue = 0 /\ unblockLock = Null /\ cvDestroyed = FALSE
      /\ waiter = [t \in Thread |-> [pc |-> "idle", result |-> "0", issue |-> 0]]
  BY DEF CvInit
<1>2. CvTypes
  <2>1. [pc |-> "idle", result |-> "0", issue |-> 0] \in WaiterRec
    BY DEF WaiterRec, CvPc, CvResult
  <2>2. cv \in CvRec
    BY <1>1 DEF CvRec
  <2>3. blockLock \in GateRec /\ turn \in [Thread -> GateTurns]
    BY <1>1 DEF GateRec, GateTurns
  <2> QED BY <1>1, <2>1, <2>2, <2>3 DEF CvTypes
<1>3. \A t \in Thread : waiter[t].pc = "idle" /\ waiter[t].issue = 0
  BY <1>1
<1>4. \A S : "idle" \notin S => At(S) = {}
  BY <1>3 DEF At
<1>5. WaiterKnows /\ TurnKnows /\ Destroying /\ DestroyedIsUnused
  BY <1>1, <1>3, <1>4, ThreadAssumption
     DEF WaiterKnows, TurnKnows, Destroying, DestroyedIsUnused
<1>8. OneKeeper /\ GateCount
  <2>1. Keepers = {} /\ Queue = {}
    BY <1>1, <1>3 DEF Keepers, Queue
  <2>2. Holders = 0 /\ ~Held
    BY <1>1, <2>1 DEF Holders, Held
  <2>3. Cardinality(Queue) = 0 /\ blockLock.value = 1 /\ blockLock.units = 0
    BY <1>1, <2>1, FS_EmptySet
  <2> QED BY <1>1, <2>1, <2>2, <2>3 DEF OneKeeper, GateCount
<1>6. CountersMatch
  <2>1. Cardinality(At({"unlock", "wait", "cleanup"})) = 0
    BY <1>4, FS_EmptySet
  <2> QED BY <1>1, <2>1 DEF CountersMatch
<1>7. SignalsKept
  <2>1. cv.toUnblock = 0
    BY <1>1
  <2>2. Cardinality(Taken) \in Nat /\ Issuing \in Nat
    BY <1>2, SetsAreFinite
  <2> QED BY <1>1, <2>1, <2>2 DEF SignalsKept, Taken
<1> QED BY <1>2, <1>5, <1>6, <1>7, <1>8 DEF CvInv

-----------------------------------------------------------------------------
\* t goes to pc, with result r and n units to post.
CvMoved(t, pc, r, n) ==
  /\ waiter' \in [Thread -> WaiterRec]
  /\ waiter'[t].pc = pc /\ waiter'[t].result = r /\ waiter'[t].issue = n
  /\ \A u \in Thread : u # t => waiter'[u] = waiter[u]

LEMMA WaiterMoves ==
  ASSUME CvTypes, NEW t \in Thread
  PROVE  /\ \A pc \in CvPc : CvGoto(t, pc) => CvMoved(t, pc, waiter[t].result, waiter[t].issue)
         /\ \A pc \in CvPc, r \in CvResult : waiter' = [waiter EXCEPT ![t].pc = pc, ![t].result = r]
              => CvMoved(t, pc, r, waiter[t].issue)
         /\ \A n \in Nat : waiter' = [waiter EXCEPT ![t].pc = "post", ![t].issue = n]
              => CvMoved(t, "post", waiter[t].result, n)
         /\ PostAll(t) => CvMoved(t, "idle", "0", 0)
<1>1. PICK w \in WaiterRec : w = waiter[t]
  BY DEF CvTypes
<1>2. waiter \in [Thread -> WaiterRec]
  BY DEF CvTypes
<1>3. ASSUME NEW q \in WaiterRec, waiter' = [waiter EXCEPT ![t] = q]
      PROVE  CvMoved(t, q.pc, q.result, q.issue)
  BY <1>2, <1>3 DEF CvMoved
<1>4. ASSUME NEW pc \in CvPc, CvGoto(t, pc)
      PROVE  CvMoved(t, pc, waiter[t].result, waiter[t].issue)
  <2> DEFINE q == [w EXCEPT !.pc = pc]
  <2>1. waiter' = [waiter EXCEPT ![t] = q]
    BY <1>1, <1>4 DEF CvGoto
  <2>2. q \in WaiterRec /\ q.pc = pc /\ q.result = w.result /\ q.issue = w.issue
    BY <1>1 DEF WaiterRec
  <2> HIDE DEF q
  <2> QED BY <1>1, <1>3, <2>1, <2>2
<1>5. ASSUME NEW pc \in CvPc, NEW r \in CvResult,
             waiter' = [waiter EXCEPT ![t].pc = pc, ![t].result = r]
      PROVE  CvMoved(t, pc, r, waiter[t].issue)
  <2> DEFINE q == [w EXCEPT !.pc = pc, !.result = r]
  <2>1. waiter' = [waiter EXCEPT ![t] = q]
    BY <1>1, <1>5
  <2>2. q \in WaiterRec /\ q.pc = pc /\ q.result = r /\ q.issue = w.issue
    BY <1>1 DEF WaiterRec
  <2> HIDE DEF q
  <2> QED BY <1>1, <1>3, <2>1, <2>2
<1>6. "post" \in CvPc /\ "idle" \in CvPc /\ "0" \in CvResult
  BY DEF CvPc, CvResult
<1>7. ASSUME NEW n \in Nat, waiter' = [waiter EXCEPT ![t].pc = "post", ![t].issue = n]
      PROVE  CvMoved(t, "post", waiter[t].result, n)
  <2> DEFINE q == [w EXCEPT !.pc = "post", !.issue = n]
  <2>1. waiter' = [waiter EXCEPT ![t] = q]
    BY <1>1, <1>7
  <2>2. q \in WaiterRec /\ q.pc = "post" /\ q.result = w.result /\ q.issue = n
    BY <1>1, <1>6 DEF WaiterRec
  <2> HIDE DEF q
  <2> QED BY <1>1, <1>3, <2>1, <2>2
<1>8. ASSUME PostAll(t) PROVE CvMoved(t, "idle", "0", 0)
  <2> DEFINE q == [w EXCEPT !.pc = "idle", !.issue = 0, !.result = "0"]
  <2>1. waiter' = [waiter EXCEPT ![t] = q]
    BY <1>1, <1>8 DEF PostAll
  <2>2. q \in WaiterRec /\ q.pc = "idle" /\ q.result = "0" /\ q.issue = 0
    BY <1>1, <1>6 DEF WaiterRec
  <2> HIDE DEF q
  <2> QED BY <1>1, <1>3, <2>1, <2>2
<1> QED BY <1>4, <1>5, <1>7, <1>8

LEMMA AtMoves ==
  ASSUME CvTypes, NEW t \in Thread, NEW pc, NEW r, NEW n, CvMoved(t, pc, r, n), NEW S
  PROVE  At(S)' = IF pc \in S THEN At(S) \cup {t} ELSE At(S) \ {t}
BY DEF CvTypes, CvMoved, At

\* What a thread counts for among those that wait, and among those that took a unit.
Waits(pc) == IF pc \in {"unlock", "wait", "cleanup"} THEN 1 ELSE 0
Takes(pc, r) == IF pc = "cleanup" /\ r \in {"0", "cancelAwake"} THEN 1 ELSE 0

LEMMA WaitingMoves ==
  ASSUME CvTypes, NEW t \in Thread, NEW pc, NEW r, NEW n, CvMoved(t, pc, r, n)
  PROVE  /\ Cardinality(CvWaiting) \in Nat /\ Cardinality(CvWaiting') \in Nat
         /\ Cardinality(CvWaiting') = Cardinality(CvWaiting) + Waits(pc) - Waits(waiter[t].pc)
<1>1. CvWaiting' = IF pc \in {"unlock", "wait", "cleanup"} THEN CvWaiting \cup {t} ELSE CvWaiting \ {t}
  BY AtMoves DEF CvWaiting
<1>2. t \in CvWaiting <=> waiter[t].pc \in {"unlock", "wait", "cleanup"}
  BY DEF CvWaiting, At
<1>3. IsFiniteSet(CvWaiting) /\ Cardinality(CvWaiting) \in Nat
  BY SetsAreFinite
<1>4. /\ IsFiniteSet(CvWaiting')
      /\ Cardinality(CvWaiting') = Cardinality(CvWaiting) + Waits(pc) - Waits(waiter[t].pc)
  <2>1. CASE pc \in {"unlock", "wait", "cleanup"}
    BY <1>1, <1>2, <1>3, <2>1, FS_AddElement DEF Waits
  <2>2. CASE pc \notin {"unlock", "wait", "cleanup"}
    BY <1>1, <1>2, <1>3, <2>2, FS_RemoveElement DEF Waits
  <2> QED BY <2>1, <2>2
<1> QED BY <1>3, <1>4, FS_CardinalityType

LEMMA TakenMoves ==
  ASSUME CvTypes, NEW t \in Thread, NEW pc, NEW r, NEW n, CvMoved(t, pc, r, n)
  PROVE  /\ Cardinality(Taken) \in Nat /\ Cardinality(Taken') \in Nat
         /\ Cardinality(Taken') = Cardinality(Taken) + Takes(pc, r)
                                    - Takes(waiter[t].pc, waiter[t].result)
<1>1. Taken' = IF pc = "cleanup" /\ r \in {"0", "cancelAwake"} THEN Taken \cup {t} ELSE Taken \ {t}
  BY DEF Taken, At, CvMoved, CvTypes
<1>2. t \in Taken <=> waiter[t].pc = "cleanup" /\ waiter[t].result \in {"0", "cancelAwake"}
  BY DEF Taken, At
<1>3. IsFiniteSet(Taken) /\ Cardinality(Taken) \in Nat
  BY SetsAreFinite
<1>4. /\ IsFiniteSet(Taken')
      /\ Cardinality(Taken') = Cardinality(Taken) + Takes(pc, r)
                                 - Takes(waiter[t].pc, waiter[t].result)
  <2>1. CASE pc = "cleanup" /\ r \in {"0", "cancelAwake"}
    BY <1>1, <1>2, <1>3, <2>1, FS_AddElement DEF Takes
  <2>2. CASE ~(pc = "cleanup" /\ r \in {"0", "cancelAwake"})
    BY <1>1, <1>2, <1>3, <2>2, FS_RemoveElement DEF Takes
  <2> QED BY <2>1, <2>2
<1> QED BY <1>3, <1>4, FS_CardinalityType

LEMMA IssuingMoves ==
  ASSUME CvTypes, NEW t \in Thread, NEW pc, NEW r, NEW n \in Nat, CvMoved(t, pc, r, n)
  PROVE  /\ Issuing \in Nat /\ Issuing' \in Nat
         /\ Issuing' = Issuing + n - waiter[t].issue
<1> DEFINE Others == UNION {Units(u) : u \in Thread \ {t}}
<1>1. PICK m \in Nat : m = waiter[t].issue
  BY DEF CvTypes, WaiterRec
<1>2. Pending = Others \cup Units(t) /\ Others \cap Units(t) = {}
  BY DEF Pending, Units
<1>3. /\ Pending' = Others \cup Units(t)' /\ Others \cap Units(t)' = {}
  <2>1. \A u \in Thread \ {t} : Units(u)' = Units(u)
    BY DEF Units, CvMoved
  <2>2. Pending' = Others \cup Units(t)'
    BY <2>1 DEF Pending
  <2>3. Others \cap Units(t)' = {}
    BY DEF Units
  <2> QED BY <2>2, <2>3
<1>4. \A k \in Nat : IsFiniteSet({t} \X (1..k)) /\ Cardinality({t} \X (1..k)) = k
  <2> SUFFICES ASSUME NEW k \in Nat
               PROVE  IsFiniteSet({t} \X (1..k)) /\ Cardinality({t} \X (1..k)) = k
    OBVIOUS
  <2>1. IsFiniteSet(1..k) /\ Cardinality(1..k) = k
    BY FS_Interval
  <2>2. IsFiniteSet({t}) /\ Cardinality({t}) = 1
    BY FS_Singleton
  <2>3. IsFiniteSet({t} \X (1..k)) /\ Cardinality({t} \X (1..k)) = 1 * k
    BY <2>1, <2>2, FS_Product, ZenonT(60)
  <2> QED BY <2>3
<1>5. /\ Units(t) = {t} \X (1..m) /\ Units(t)' = {t} \X (1..n)
  BY <1>1 DEF Units, CvMoved
<1>6. IsFiniteSet(Pending) /\ Issuing = Cardinality(Pending)
  BY SetsAreFinite
<1>7. IsFiniteSet(Others)
  <2>1. Others \in SUBSET Pending
    BY <1>2
  <2> QED BY <1>6, <2>1, FS_Subset
<1> HIDE DEF Others
<1>8. Cardinality(Others) \in Nat /\ Cardinality({}) = 0
  BY <1>7, FS_CardinalityType, FS_EmptySet
<1>9. Cardinality(Pending) = Cardinality(Others) + m
  <2>1. IsFiniteSet(Units(t)) /\ Cardinality(Units(t)) = m
    BY <1>4, <1>5
  <2>2. Cardinality(Pending) = Cardinality(Others) + Cardinality(Units(t)) - Cardinality({})
    BY <1>2, <1>7, <2>1, FS_Union
  <2> QED BY <1>8, <2>1, <2>2
<1>10. Cardinality(Pending') = Cardinality(Others) + n
  <2>1. IsFiniteSet(Units(t)') /\ Cardinality(Units(t)') = n
    BY <1>4, <1>5
  <2>2. Cardinality(Pending') = Cardinality(Others) + Cardinality(Units(t)') - Cardinality({})
    BY <1>3, <1>7, <2>1, FS_Union
  <2> QED BY <1>8, <2>1, <2>2
<1>11. Issuing' = Cardinality(Pending')
  BY DEF Issuing, Pending
<1> QED BY <1>1, <1>6, <1>8, <1>9, <1>10, <1>11

-----------------------------------------------------------------------------
LEMMA CvIntegers ==
  ASSUME CvTypes
  PROVE  cv.blocked \in Nat /\ cv.toUnblock \in Nat /\ cv.gone \in Nat
BY DEF CvTypes, CvRec

\* What a step of t must see to: mtxUnblockLock and what it knows with it,
CvTies(t, pc, r, n) ==
  /\ \A u \in Thread : u # t => (unblockLock' = u <=> unblockLock = u)
  /\ unblockLock' = t <=> pc \in {"gate", "compact"}
  /\ unblockLock' \in Thread \cup {Null}
  /\ pc \in {"gate", "compact"} => cv'.toUnblock = 0
  /\ pc = "gate" => cv'.blocked > cv'.gone /\ r \in {"signal", "broadcast"}
  /\ pc \in {"enter", "unlock", "wait"} => r = "0"
  /\ n # 0 => pc = "post"
  /\ \/ unblockLock \in {t, Null}
     \/ cv'.toUnblock = cv.toUnblock /\ cv'.blocked >= cv.blocked /\ cv'.gone = cv.gone

\* the counters and the units,
Books(t, pc, r, n) ==
  /\ cv' \in CvRec /\ n \in Nat /\ blockQueue' \in Nat
  /\ cv'.blocked + cv'.toUnblock - cv'.gone
       = cv.blocked + cv.toUnblock - cv.gone + Waits(pc) - Waits(waiter[t].pc)
  /\ \/ cv'.toUnblock = 0
     \/ cv'.toUnblock <= cv.toUnblock + (blockQueue' - blockQueue) + (n - waiter[t].issue)
                           + (Takes(pc, r) - Takes(waiter[t].pc, waiter[t].result))

\* the gate,
Gate(t, pc) ==
  /\ blockLock' = blockLock /\ turn' = turn /\ (cv'.toUnblock > 0 <=> cv.toUnblock > 0)
  /\ cvDestroyed' = cvDestroyed /\ pc # "open" /\ waiter[t].pc # "open"
  /\ waiter[t].pc \notin AtGate

\* and whether it comes to what is being destroyed.
Using == {"enter", "unlock", "wait", "cleanup", "compact", "open", "gate", "post"}
Comes(t, pc) ==
  /\ cvDestroyed' = cvDestroyed
  /\ pc = "close" => waiter[t].pc = "close"
  /\ pc \in {"enter", "gate", "post"} =>
       waiter[t].pc \in {"enter", "gate", "post"} \/ At({"close"}) = {}
  /\ pc \in Using => waiter[t].pc \in Using \/ ~cvDestroyed

LEMMA TiesKept ==
  ASSUME CvInv, NEW t \in Thread, NEW pc, NEW r, NEW n, CvMoved(t, pc, r, n), CvTies(t, pc, r, n),
         cv' \in CvRec
  PROVE  WaiterKnows'
<1>1. CvTypes /\ WaiterKnows
  BY DEF CvInv
<1>2. cv.blocked \in Nat /\ cv.gone \in Nat /\ cv'.blocked \in Nat /\ cv'.gone \in Nat
  BY <1>1 DEF CvTypes, CvRec
<1>3. \A u \in Thread : u = t \/ waiter'[u] = waiter[u]
  BY DEF CvMoved
<1>4. \A u \in Thread : u # t /\ waiter[u].pc \in {"gate", "compact"} =>
        cv'.toUnblock = cv.toUnblock /\ cv'.blocked >= cv.blocked /\ cv'.gone = cv.gone
  BY <1>1, ThreadAssumption DEF CvTies, WaiterKnows
<1>5. \A u \in Thread : u # t =>
    /\ unblockLock' = u <=> waiter'[u].pc \in {"gate", "compact"}
    /\ waiter'[u].pc \in {"gate", "compact"} => cv'.toUnblock = 0
    /\ waiter'[u].pc = "gate" =>
         cv'.blocked > cv'.gone /\ waiter'[u].result \in {"signal", "broadcast"}
    /\ waiter'[u].pc \in {"enter", "unlock", "wait"} => waiter'[u].result = "0"
    /\ waiter'[u].issue # 0 => waiter'[u].pc = "post"
  BY <1>1, <1>2, <1>3, <1>4 DEF WaiterKnows, CvTies
<1>6. /\ unblockLock' = t <=> waiter'[t].pc \in {"gate", "compact"}
      /\ waiter'[t].pc \in {"gate", "compact"} => cv'.toUnblock = 0
      /\ waiter'[t].pc = "gate" =>
           cv'.blocked > cv'.gone /\ waiter'[t].result \in {"signal", "broadcast"}
      /\ waiter'[t].pc \in {"enter", "unlock", "wait"} => waiter'[t].result = "0"
      /\ waiter'[t].issue # 0 => waiter'[t].pc = "post"
  BY DEF CvMoved, CvTies
<1> QED BY <1>5, <1>6 DEF WaiterKnows

LEMMA BooksKept ==
  ASSUME CvInv, NEW t \in Thread, NEW pc, NEW r, NEW n, CvMoved(t, pc, r, n), Books(t, pc, r, n)
  PROVE  CountersMatch' /\ SignalsKept'
<1>1. CvTypes /\ CountersMatch /\ SignalsKept
  BY DEF CvInv
<1>2. /\ cv.blocked \in Nat /\ cv.toUnblock \in Nat /\ cv.gone \in Nat /\ blockQueue \in Nat
      /\ cv'.blocked \in Nat /\ cv'.toUnblock \in Nat /\ cv'.gone \in Nat /\ blockQueue' \in Nat
      /\ waiter[t].issue \in Nat /\ n \in Nat
  BY <1>1 DEF CvTypes, CvRec, Books, WaiterRec
<1>3. Waits(pc) \in Nat /\ Waits(waiter[t].pc) \in Nat
      /\ Takes(pc, r) \in Nat /\ Takes(waiter[t].pc, waiter[t].result) \in Nat
  BY DEF Waits, Takes
<1>4. CountersMatch'
  <2>1. /\ Cardinality(CvWaiting) \in Nat /\ Cardinality(CvWaiting') \in Nat
        /\ Cardinality(CvWaiting') = Cardinality(CvWaiting) + Waits(pc) - Waits(waiter[t].pc)
    BY <1>1, WaitingMoves
  <2>2. cv.blocked + cv.toUnblock - cv.gone = Cardinality(CvWaiting)
    BY <1>1 DEF CountersMatch, CvWaiting
  <2>3. cv'.blocked + cv'.toUnblock - cv'.gone
          = cv.blocked + cv.toUnblock - cv.gone + Waits(pc) - Waits(waiter[t].pc)
    BY DEF Books
  <2>4. cv'.blocked + cv'.toUnblock - cv'.gone = Cardinality(CvWaiting')
    BY <1>2, <1>3, <2>1, <2>2, <2>3
  <2> QED BY <2>4 DEF CountersMatch, CvWaiting
<1>5. SignalsKept'
  <2>1. /\ Cardinality(Taken) \in Nat /\ Cardinality(Taken') \in Nat
        /\ Cardinality(Taken') = Cardinality(Taken) + Takes(pc, r)
                                   - Takes(waiter[t].pc, waiter[t].result)
    BY <1>1, TakenMoves
  <2>2. Issuing \in Nat /\ Issuing' \in Nat /\ Issuing' = Issuing + n - waiter[t].issue
    BY <1>1, <1>2, IssuingMoves
  <2>3. cv.toUnblock <= blockQueue + Issuing + Cardinality(Taken)
    BY <1>1 DEF SignalsKept, Taken
  <2>4. \/ cv'.toUnblock = 0
        \/ cv'.toUnblock <= cv.toUnblock + (blockQueue' - blockQueue) + (n - waiter[t].issue)
                              + (Takes(pc, r) - Takes(waiter[t].pc, waiter[t].result))
    BY DEF Books
  <2>5. cv'.toUnblock <= blockQueue' + Issuing' + Cardinality(Taken')
    BY <1>2, <1>3, <2>1, <2>2, <2>3, <2>4
  <2> QED BY <2>5 DEF SignalsKept, Taken
<1> QED BY <1>4, <1>5

LEMMA GateKept ==
  ASSUME CvInv, NEW t \in Thread, NEW pc, NEW r, NEW n, CvMoved(t, pc, r, n), Gate(t, pc)
  PROVE  TurnKnows' /\ OneKeeper' /\ GateCount'
<1>1. CvTypes /\ TurnKnows /\ OneKeeper /\ GateCount
  BY DEF CvInv
<1>2. TurnKnows'
  BY <1>1 DEF TurnKnows, Gate, CvMoved
<1>3. Keepers' = Keepers /\ Queue' = Queue
  BY DEF Keepers, Queue, Gate, CvMoved
<1>4. OneKeeper' /\ Held' = Held
  BY <1>1, <1>3 DEF OneKeeper, Held, Gate
<1> QED BY <1>1, <1>2, <1>3, <1>4 DEF GateCount, Holders, Gate

LEMMA DestroyingKept ==
  ASSUME CvInv, NEW t \in Thread, NEW pc, NEW r, NEW n, CvMoved(t, pc, r, n), Comes(t, pc)
  PROVE  Destroying' /\ DestroyedIsUnused'
<1>1. CvTypes /\ Destroying /\ DestroyedIsUnused
  BY DEF CvInv
<1>2. At({"close"})' \subseteq At({"close"})
  <2>1. pc = "close" => t \in At({"close"})
    BY DEF Comes, At
  <2>2. CASE pc = "close"
    <3>1. At({"close"})' = At({"close"}) \cup {t}
      BY <1>1, <2>2, AtMoves
    <3> QED BY <2>1, <2>2, <3>1
  <2>3. CASE pc # "close"
    <3>1. At({"close"})' = At({"close"}) \ {t}
      BY <1>1, <2>3, AtMoves
    <3> QED BY <3>1
  <2> QED BY <2>2, <2>3
<1>3. At({"close"})' # {} => At({"enter", "gate", "post"})' = {}
  <2> SUFFICES ASSUME At({"close"})' # {} PROVE At({"enter", "gate", "post"})' = {}
    OBVIOUS
  <2>1. At({"close"}) # {} /\ At({"enter", "gate", "post"}) = {}
    BY <1>1, <1>2 DEF Destroying
  <2>2. pc \notin {"enter", "gate", "post"}
    BY <2>1 DEF Comes, At
  <2> QED BY <1>1, <2>1, <2>2, AtMoves
<1>4. Destroying'
  BY <1>1, <1>2, <1>3 DEF Destroying, Comes
<1>5. cvDestroyed => At(Using)' \subseteq At(Using)
  BY <1>1, AtMoves DEF Comes, At
<1>6. DestroyedIsUnused'
  BY <1>1, <1>5 DEF DestroyedIsUnused, Using, Comes
<1> QED BY <1>4, <1>6

\* A step that sees to all of this keeps the invariant.
LEMMA OrdinaryKept ==
  ASSUME CvInv, NEW t \in Thread, NEW pc, NEW r, NEW n, CvMoved(t, pc, r, n),
         CvTies(t, pc, r, n), Books(t, pc, r, n), Gate(t, pc), Comes(t, pc)
  PROVE  CvInv'
<1>1. WaiterKnows' /\ CountersMatch' /\ SignalsKept'
  BY TiesKept, BooksKept DEF Books
<1>2. TurnKnows' /\ OneKeeper' /\ GateCount'
  BY GateKept
<1>3. Destroying' /\ DestroyedIsUnused'
  BY DestroyingKept
<1>4. CvTypes'
  BY DEF CvInv, CvTypes, CvMoved, CvTies, Books, Gate
<1> QED BY <1>1, <1>2, <1>3, <1>4 DEF CvInv

-----------------------------------------------------------------------------
LEMMA CondWaitKept ==
  ASSUME CvInv, NEW t \in Thread, CondWait(t)
  PROVE  CvInv'
<1>1. CvTypes /\ WaiterKnows
  BY DEF CvInv
<1>2. /\ waiter[t].pc = "idle" /\ ~cvDestroyed
      /\ \A u \in Thread : waiter[u].pc # "close"
      /\ waiter' = [waiter EXCEPT ![t].pc = "enter", ![t].result = "0"]
      /\ UNCHANGED <<cv, blockLock, turn, blockQueue, unblockLock, cvDestroyed>>
  BY SMTT(40) DEF CondWait, CvCall
<1> DEFINE n == waiter[t].issue
<1>3. CvMoved(t, "enter", "0", n)
  BY <1>1, <1>2, WaiterMoves DEF CvPc, CvResult
<1>4. n = 0 /\ unblockLock # t
  BY <1>1, <1>2 DEF WaiterKnows
<1>5. CvTies(t, "enter", "0", n)
  BY <1>1, <1>2, <1>4, CvIntegers DEF CvTies, CvTypes
<1>6. Books(t, "enter", "0", n)
  <2>1. Waits("enter") = 0 /\ Waits(waiter[t].pc) = 0 /\ Takes("enter", "0") = 0
        /\ Takes(waiter[t].pc, waiter[t].result) = 0
    BY <1>2 DEF Waits, Takes
  <2> QED BY <1>1, <1>2, <1>4, <2>1, CvIntegers DEF Books, CvTypes
<1>7. Gate(t, "enter") /\ Comes(t, "enter")
  BY <1>2 DEF Gate, AtGate, Comes, At
<1> QED BY <1>3, <1>5, <1>6, <1>7, OrdinaryKept

LEMMA GoToSleepKept ==
  ASSUME CvInv, NEW t \in Thread, GoToSleep(t)
  PROVE  CvInv'
<1>1. CvTypes /\ WaiterKnows
  BY DEF CvInv
<1>2. /\ waiter[t].pc = "unlock" /\ CvGoto(t, "wait")
      /\ UNCHANGED <<cv, blockLock, turn, blockQueue, unblockLock, cvDestroyed>>
  BY DEF GoToSleep
<1> DEFINE n == waiter[t].issue
<1>3. waiter[t].result = "0" /\ n = 0 /\ unblockLock # t
  BY <1>1, <1>2 DEF WaiterKnows
<1>4. CvMoved(t, "wait", "0", n)
  BY <1>1, <1>2, <1>3, WaiterMoves DEF CvPc
<1>5. CvTies(t, "wait", "0", n)
  BY <1>1, <1>2, <1>3, CvIntegers DEF CvTies, CvTypes
<1>6. Books(t, "wait", "0", n)
  <2>1. Waits("wait") = 1 /\ Waits(waiter[t].pc) = 1 /\ Takes("wait", "0") = 0
        /\ Takes(waiter[t].pc, waiter[t].result) = 0
    BY <1>2 DEF Waits, Takes
  <2> QED BY <1>1, <1>2, <1>3, <2>1, CvIntegers DEF Books, CvTypes
<1>7. Gate(t, "wait") /\ Comes(t, "wait")
  BY <1>2 DEF Gate, AtGate, Comes, At, Using
<1> QED BY <1>4, <1>5, <1>6, <1>7, OrdinaryKept

\* A waiter wakes up, having taken a unit or given up.
LEMMA WakeKept ==
  ASSUME CvInv, NEW t \in Thread, NEW r \in CvResult, waiter[t].pc = "wait",
         waiter' = [waiter EXCEPT ![t].pc = "cleanup", ![t].result = r],
         UNCHANGED <<cv, blockLock, turn, unblockLock, cvDestroyed>>,
         \/ blockQueue > 0 /\ blockQueue' = blockQueue - 1 /\ r \in {"0", "cancelAwake"}
         \/ blockQueue' = blockQueue
  PROVE  CvInv'
<1>1. CvTypes /\ WaiterKnows
  BY DEF CvInv
<1> DEFINE n == waiter[t].issue
<1>2. n = 0 /\ unblockLock # t
  BY <1>1 DEF WaiterKnows
<1>3. CvMoved(t, "cleanup", r, n)
  BY <1>1, WaiterMoves DEF CvPc
<1>4. CvTies(t, "cleanup", r, n)
  BY <1>1, <1>2, CvIntegers DEF CvTies, CvTypes
<1>5. Books(t, "cleanup", r, n)
  <2>1. Waits("cleanup") = 1 /\ Waits(waiter[t].pc) = 1
        /\ Takes("cleanup", r) = (IF r \in {"0", "cancelAwake"} THEN 1 ELSE 0)
        /\ Takes(waiter[t].pc, waiter[t].result) = 0
    BY DEF Waits, Takes
  <2>2. blockQueue \in Nat /\ cv \in CvRec
    BY <1>1 DEF CvTypes
  <2>3. blockQueue' \in Nat /\ cv'.toUnblock <= cv.toUnblock + (blockQueue' - blockQueue) + (n - n)
                                 + (Takes("cleanup", r) - 0)
    BY <1>1, <1>2, <2>1, <2>2, CvIntegers
  <2> QED BY <1>1, <1>2, <2>1, <2>2, <2>3, CvIntegers DEF Books
<1>6. Gate(t, "cleanup") /\ Comes(t, "cleanup")
  BY DEF Gate, AtGate, Comes, At, Using
<1> QED BY <1>3, <1>4, <1>5, <1>6, OrdinaryKept

LEMMA AwakeKept ==
  ASSUME CvInv, NEW t \in Thread, Awake(t) \/ \E op \in {"timeout", "cancel"} : GiveUp(t, op)
  PROVE  CvInv'
<1>1. CvTypes /\ WaiterKnows
  BY DEF CvInv
<1>2. CASE Awake(t)
  <2>1. /\ waiter[t].pc = "wait" /\ blockQueue > 0 /\ blockQueue' = blockQueue - 1
        /\ CvGoto(t, "cleanup") /\ UNCHANGED <<cv, blockLock, turn, unblockLock, cvDestroyed>>
    BY <1>2 DEF Awake
  <2>2. waiter[t].result = "0"
    BY <1>1, <2>1 DEF WaiterKnows
  <2>3. waiter' = [waiter EXCEPT ![t].pc = "cleanup", ![t].result = "0"]
    <3>1. PICK w \in WaiterRec : w = waiter[t]
      BY <1>1 DEF CvTypes
    <3>2. [w EXCEPT !.pc = "cleanup"] = [w EXCEPT !.pc = "cleanup", !.result = "0"]
      BY <2>2, <3>1 DEF WaiterRec
    <3> QED BY <2>1, <3>1, <3>2 DEF CvGoto
  <2> QED BY <2>1, <2>3, WakeKept DEF CvResult
<1>3. CASE \E op \in {"timeout", "cancel"} : GiveUp(t, op)
  <2>1. PICK op \in {"timeout", "cancel"} : GiveUp(t, op)
    BY <1>3
  <2> DEFINE r == IF blockQueue > 0 THEN "cancelAwake" ELSE op
  <2>2. /\ waiter[t].pc = "wait" /\ UNCHANGED <<cv, blockLock, turn, unblockLock, cvDestroyed>>
        /\ blockQueue' = IF blockQueue > 0 THEN blockQueue - 1 ELSE 0
        /\ waiter' = [waiter EXCEPT ![t].pc = "cleanup", ![t].result = r]
    BY <2>1 DEF GiveUp
  <2>3. \/ blockQueue > 0 /\ blockQueue' = blockQueue - 1 /\ r = "cancelAwake"
        \/ blockQueue' = blockQueue
    BY <1>1, <2>2 DEF CvTypes
  <2>4. r \in CvResult
    BY DEF CvResult
  <2> HIDE DEF r
  <2> QED BY <2>2, <2>3, <2>4, WakeKept
<1> QED BY <1>2, <1>3

LEMMA RelockKept ==
  ASSUME CvInv, NEW t \in Thread, Relock(t)
  PROVE  CvInv'
<1>1. CvTypes /\ WaiterKnows
  BY DEF CvInv
<1>2. /\ waiter[t].pc = "relock"
      /\ \E pc \in {"idle", "ended"} : CvGoto(t, pc)
      /\ UNCHANGED <<cv, blockLock, turn, blockQueue, unblockLock, cvDestroyed>>
  BY DEF Relock
<1> DEFINE n == waiter[t].issue
           r == waiter[t].result
<1>3. n = 0 /\ unblockLock # t
  BY <1>1, <1>2 DEF WaiterKnows
<1>4. PICK pc \in {"idle", "ended"} : CvMoved(t, pc, r, n)
  <2>1. PICK pc \in {"idle", "ended"} : CvGoto(t, pc)
    BY <1>2
  <2>2. pc \in CvPc
    BY DEF CvPc
  <2>3. CvMoved(t, pc, r, n)
    BY <1>1, <2>1, <2>2, WaiterMoves
  <2> QED BY <2>3
<1>5. CvTies(t, pc, r, n)
  BY <1>1, <1>2, <1>3, CvIntegers DEF CvTies, CvTypes
<1>6. Books(t, pc, r, n)
  <2>1. Waits(pc) = 0 /\ Waits(waiter[t].pc) = 0 /\ Takes(pc, r) = 0
        /\ Takes(waiter[t].pc, waiter[t].result) = 0
    BY <1>2 DEF Waits, Takes
  <2>2. cv \in CvRec /\ blockQueue \in Nat
    BY <1>1 DEF CvTypes
  <2> HIDE DEF r
  <2> QED BY <1>1, <1>2, <1>3, <2>1, <2>2, CvIntegers DEF Books
<1>7. Gate(t, pc) /\ Comes(t, pc)
  BY <1>2 DEF Gate, AtGate, Comes, At, Using
<1> HIDE DEF n, r
<1> QED BY <1>4, <1>5, <1>6, <1>7, OrdinaryKept

LEMMA PostAllKept ==
  ASSUME CvInv, NEW t \in Thread, PostAll(t)
  PROVE  CvInv'
<1>1. CvTypes /\ WaiterKnows
  BY DEF CvInv
<1>2. /\ waiter[t].pc = "post" /\ blockQueue' = blockQueue + waiter[t].issue
      /\ UNCHANGED <<cv, blockLock, turn, unblockLock, cvDestroyed>>
  BY DEF PostAll
<1>3. CvMoved(t, "idle", "0", 0)
  BY <1>1, WaiterMoves
<1>4. unblockLock # t
  BY <1>1, <1>2 DEF WaiterKnows
<1>5. CvTies(t, "idle", "0", 0)
  BY <1>1, <1>2, <1>4, CvIntegers DEF CvTies, CvTypes
<1>6. Books(t, "idle", "0", 0)
  <2>1. Waits("idle") = 0 /\ Waits(waiter[t].pc) = 0 /\ Takes("idle", "0") = 0
        /\ Takes(waiter[t].pc, waiter[t].result) = 0
    BY <1>2 DEF Waits, Takes
  <2>2. waiter[t].issue \in Nat /\ blockQueue \in Nat /\ cv \in CvRec
    BY <1>1 DEF CvTypes, WaiterRec
  <2> QED BY <1>1, <1>2, <2>1, <2>2, CvIntegers DEF Books
<1>7. Gate(t, "idle") /\ Comes(t, "idle")
  BY <1>2 DEF Gate, AtGate, Comes, At, Using
<1> QED BY <1>3, <1>5, <1>6, <1>7, OrdinaryKept

-----------------------------------------------------------------------------
(* The steps that go through the gate, open it or keep it closed *)

LEMMA KeeperKept ==
  ASSUME CvInv, NEW t \in Thread, NEW pc, NEW r, NEW n, CvMoved(t, pc, r, n),
         CvTies(t, pc, r, n), Books(t, pc, r, n),
         blockLock' \in GateRec, turn' \in [Thread -> GateTurns], cvDestroyed' \in BOOLEAN,
         TurnKnows', OneKeeper', GateCount', Destroying', DestroyedIsUnused'
  PROVE  CvInv'
<1>1. WaiterKnows' /\ CountersMatch' /\ SignalsKept'
  BY TiesKept, BooksKept DEF Books
<1>2. CvTypes'
  BY DEF CvInv, CvTypes, CvMoved, CvTies, Books
<1> QED BY <1>1, <1>2 DEF CvInv

Queues(x) == IF x \in {"queued", "withdraws"} THEN 1 ELSE 0

LEMMA TurnMoves ==
  ASSUME CvTypes, NEW t \in Thread, NEW x \in GateTurns, turn' = [turn EXCEPT ![t] = x]
  PROVE  /\ turn' \in [Thread -> GateTurns] /\ turn'[t] = x
         /\ \A u \in Thread : u # t => turn'[u] = turn[u]
         /\ Cardinality(Queue) \in Nat /\ Cardinality(Queue') \in Nat
         /\ Cardinality(Queue') = Cardinality(Queue) + Queues(x) - Queues(turn[t])
<1>1. /\ turn' \in [Thread -> GateTurns] /\ turn'[t] = x
      /\ \A u \in Thread : u # t => turn'[u] = turn[u]
  BY DEF CvTypes
<1>2. Queue' = IF x \in {"queued", "withdraws"} THEN Queue \cup {t} ELSE Queue \ {t}
  BY <1>1 DEF Queue
<1>3. t \in Queue <=> turn[t] \in {"queued", "withdraws"}
  BY DEF Queue
<1>4. IsFiniteSet(Queue)
  <2>1. Queue \in SUBSET Thread
    BY DEF Queue
  <2> QED BY <2>1, FS_Subset, ThreadAssumption
<1>5. Cardinality(Queue) \in Nat
  BY <1>4, FS_CardinalityType
<1>6. /\ IsFiniteSet(Queue')
      /\ Cardinality(Queue') = Cardinality(Queue) + Queues(x) - Queues(turn[t])
  <2>1. CASE x \in {"queued", "withdraws"}
    BY <1>2, <1>3, <1>4, <1>5, <2>1, FS_AddElement DEF Queues
  <2>2. CASE x \notin {"queued", "withdraws"}
    BY <1>2, <1>3, <1>4, <1>5, <2>2, FS_RemoveElement DEF Queues
  <2> QED BY <2>1, <2>2
<1>7. Cardinality(Queue') \in Nat
  BY <1>6, FS_CardinalityType
<1> QED BY <1>1, <1>5, <1>6, <1>7

LEMMA CountSum ==
  ASSUME NEW a \in Int, NEW b \in Int, NEW c \in Nat, NEW d \in Nat, NEW h \in {0, 1},
         NEW k \in {0, 1}, NEW x \in {0, 1}, NEW y \in {0, 1},
         a + c + h \in {0, 1}, d = c + x - y,
         b + x + k = a + y + h \/ (a + c + h = 1 /\ b + x + k = a + y + h - 1)
  PROVE  b + d + k \in {0, 1}
OBVIOUS

\* t goes to pc and its turn becomes x: what this does to those who keep the gate, and that
\* the count stays right if it sees to its own place in it.
LEMMA GateMoves ==
  ASSUME CvInv, NEW t \in Thread, NEW pc, NEW r, NEW n, CvMoved(t, pc, r, n),
         NEW x \in GateTurns, turn' = [turn EXCEPT ![t] = x], x # "none" => pc \in AtGate,
         x = "withdraws" => pc = "enter"
  PROVE  /\ turn' \in [Thread -> GateTurns] /\ TurnKnows'
         /\ Keepers' = IF pc = "open" \/ x = "has" THEN Keepers \cup {t} ELSE Keepers \ {t}
         /\ /\ blockLock' \in GateRec
            /\ \/ blockLock'.value + Queues(x) + Holders'
                    = blockLock.value + Queues(turn[t]) + Holders
               \/ /\ blockLock.value + Cardinality(Queue) + Holders = 1
                  /\ blockLock'.value + Queues(x) + Holders'
                       = blockLock.value + Queues(turn[t]) + Holders - 1
            /\ blockLock'.units = IF ~Held' /\ blockLock'.value <= 0 THEN 1 ELSE 0
            => GateCount'
<1>1. CvTypes /\ TurnKnows /\ GateCount
  BY DEF CvInv
<1>2. /\ turn' \in [Thread -> GateTurns] /\ turn'[t] = x
      /\ \A u \in Thread : u # t => turn'[u] = turn[u]
      /\ Cardinality(Queue) \in Nat /\ Cardinality(Queue') \in Nat
      /\ Cardinality(Queue') = Cardinality(Queue) + Queues(x) - Queues(turn[t])
  BY <1>1, TurnMoves
<1>3. TurnKnows'
  BY <1>1, <1>2 DEF TurnKnows, CvMoved
<1>4. Keepers' = IF pc = "open" \/ x = "has" THEN Keepers \cup {t} ELSE Keepers \ {t}
  BY <1>2 DEF Keepers, CvMoved
<1>5. ASSUME /\ blockLock' \in GateRec
             /\ \/ blockLock'.value + Queues(x) + Holders'
                     = blockLock.value + Queues(turn[t]) + Holders
                \/ /\ blockLock.value + Cardinality(Queue) + Holders = 1
                   /\ blockLock'.value + Queues(x) + Holders'
                        = blockLock.value + Queues(turn[t]) + Holders - 1
             /\ blockLock'.units = IF ~Held' /\ blockLock'.value <= 0 THEN 1 ELSE 0
      PROVE  GateCount'
  <2>1. blockLock.value \in Int /\ blockLock'.value \in Int
    BY <1>1, <1>5 DEF CvTypes, GateRec
  <2>2. Holders \in {0, 1} /\ Holders' \in {0, 1} /\ Queues(x) \in {0, 1} /\ Queues(turn[t]) \in {0, 1}
    BY DEF Holders, Queues
  <2>3. blockLock.value + Cardinality(Queue) + Holders \in {0, 1}
    BY <1>1 DEF GateCount
  <2>4. blockLock'.value + Cardinality(Queue') + Holders' \in {0, 1}
    <3> DEFINE a == blockLock.value
               b == blockLock'.value
               c == Cardinality(Queue)
               d == Cardinality(Queue')
               h == Holders
               k == Holders'
               i == Queues(x)
               j == Queues(turn[t])
    <3>1. /\ a \in Int /\ b \in Int /\ c \in Nat /\ d \in Nat
          /\ h \in {0, 1} /\ k \in {0, 1} /\ i \in {0, 1} /\ j \in {0, 1}
          /\ a + c + h \in {0, 1} /\ d = c + i - j
      BY <1>2, <2>1, <2>2, <2>3
    <3>2. b + i + k = a + j + h \/ (a + c + h = 1 /\ b + i + k = a + j + h - 1)
      BY <1>5
    <3>3. b + d + k \in {0, 1}
      <4> HIDE DEF a, b, c, d, h, k, i, j
      <4> QED BY <3>1, <3>2, CountSum
    <3> QED BY <3>3
  <2> QED BY <1>5, <2>4 DEF GateCount
<1> QED BY <1>2, <1>3, <1>4, <1>5

\* Who keeps the gate knows that nothing else does.
LEMMA KeeperIsAlone ==
  ASSUME CvInv, NEW t \in Keepers
  PROVE  /\ cv.toUnblock = 0 /\ Keepers = {t} /\ ~cvDestroyed
         /\ Held /\ Holders = 1 /\ blockLock.units = 0
<1>1. CvTypes /\ OneKeeper /\ GateCount
  BY DEF CvInv
<1>2. cv.toUnblock \in Nat
  BY <1>1, CvIntegers
<1>3. Keepers = {t} /\ cv.toUnblock = 0 /\ ~cvDestroyed
  BY <1>1, <1>2 DEF OneKeeper
<1>4. Held /\ Holders = 1
  BY <1>3 DEF Held, Holders
<1> QED BY <1>1, <1>3, <1>4 DEF GateCount

LEMMA GateFields ==
  ASSUME CvTypes
  PROVE  /\ blockLock.value \in Int /\ blockLock.units \in Nat
         /\ \A v \in Int : blockLock' = [blockLock EXCEPT !.value = v] =>
              blockLock' \in GateRec /\ blockLock'.value = v /\ blockLock'.units = blockLock.units
         /\ \A k \in Nat : blockLock' = [blockLock EXCEPT !.units = k] =>
              blockLock' \in GateRec /\ blockLock'.value = blockLock.value /\ blockLock'.units = k
         /\ PostGate =>
              /\ blockLock' \in GateRec /\ blockLock'.value = blockLock.value + 1
              /\ blockLock'.units = blockLock.units + (IF blockLock.value + 1 <= 0 THEN 1 ELSE 0)
<1>1. PICK g \in GateRec : g = blockLock
  BY DEF CvTypes
<1> QED BY <1>1 DEF GateRec, PostGate

\* Who keeps the gate opens it.
LEMMA GateOpened ==
  ASSUME CvInv, NEW t \in Keepers, NEW pc, NEW r, NEW n, CvMoved(t, pc, r, n), pc # "open",
         turn' = [turn EXCEPT ![t] = "none"], turn[t] \in {"none", "has"},
         PostGate, cv'.toUnblock = cv.toUnblock, cvDestroyed' = cvDestroyed
  PROVE  /\ blockLock' \in GateRec /\ turn' \in [Thread -> GateTurns] /\ cvDestroyed' \in BOOLEAN
         /\ TurnKnows' /\ OneKeeper' /\ GateCount'
<1>1. CvTypes /\ t \in Thread /\ "none" \in GateTurns
  BY DEF CvInv, Keepers, GateTurns
<1>2. /\ cv.toUnblock = 0 /\ Keepers = {t} /\ ~cvDestroyed
      /\ Held /\ Holders = 1 /\ blockLock.units = 0
  BY KeeperIsAlone
<1>3. turn' \in [Thread -> GateTurns] /\ TurnKnows' /\ Keepers' = {}
  BY <1>1, <1>2, GateMoves
<1>4. ~Held' /\ Holders' = 0
  BY <1>2, <1>3 DEF Held, Holders
<1>5. OneKeeper'
  BY <1>2, <1>3 DEF OneKeeper
<1>6. /\ blockLock' \in GateRec /\ blockLock'.value = blockLock.value + 1
      /\ blockLock'.units = 0 + (IF blockLock.value + 1 <= 0 THEN 1 ELSE 0)
      /\ blockLock.value \in Int
  BY <1>1, <1>2, GateFields
<1>7. blockLock'.value + Queues("none") + Holders' = blockLock.value + Queues(turn[t]) + Holders
  BY <1>2, <1>4, <1>6 DEF Queues
<1>8. blockLock'.units = IF ~Held' /\ blockLock'.value <= 0 THEN 1 ELSE 0
  BY <1>4, <1>6
<1>9. GateCount'
  BY <1>1, <1>6, <1>7, <1>8, GateMoves
<1>10. cvDestroyed' \in BOOLEAN
  BY <1>1 DEF CvTypes
<1> QED BY <1>3, <1>5, <1>6, <1>9, <1>10

\* Who has the gate leaves it closed, for the waiters it releases or for good.
LEMMA GateLeftClosed ==
  ASSUME CvInv, NEW t \in Keepers, NEW pc, NEW r, NEW n, CvMoved(t, pc, r, n), pc # "open",
         turn' = [turn EXCEPT ![t] = "none"], turn[t] = "has", blockLock' = blockLock,
         \/ cv'.toUnblock > 0 /\ ~cvDestroyed'
         \/ ~(cv'.toUnblock > 0) /\ cvDestroyed'
  PROVE  /\ blockLock' \in GateRec /\ turn' \in [Thread -> GateTurns]
         /\ TurnKnows' /\ OneKeeper' /\ GateCount'
<1>1. CvTypes /\ t \in Thread /\ "none" \in GateTurns
  BY DEF CvInv, Keepers, GateTurns
<1>2. /\ cv.toUnblock = 0 /\ Keepers = {t} /\ ~cvDestroyed
      /\ Held /\ Holders = 1 /\ blockLock.units = 0
  BY KeeperIsAlone
<1>9. "none" = "has" <=> FALSE
  OBVIOUS
<1>10. turn' \in [Thread -> GateTurns] /\ TurnKnows' /\ Keepers' = Keepers \ {t}
  BY ONLY CvInv, <1>1, <1>9, CvMoved(t, pc, r, n), pc # "open",
          turn' = [turn EXCEPT ![t] = "none"], GateMoves, Zenon
<1>3. turn' \in [Thread -> GateTurns] /\ TurnKnows' /\ Keepers' = {}
  BY <1>2, <1>10
<1>4. Held' /\ Holders' = 1
  BY DEF Held, Holders
<1>5. OneKeeper'
  BY <1>3 DEF OneKeeper
<1>6. blockLock' \in GateRec /\ blockLock.value \in Int
  BY <1>1, GateFields DEF CvTypes
<1>7. blockLock'.value + Queues("none") + Holders' = blockLock.value + Queues(turn[t]) + Holders
  BY <1>2, <1>4, <1>6 DEF Queues
<1>8. GateCount'
  BY <1>1, <1>2, <1>4, <1>6, <1>7, GateMoves
<1> QED BY <1>3, <1>5, <1>6, <1>8

LEMMA EnterKept ==
  ASSUME CvInv, NEW t \in Thread, Enter(t)
  PROVE  CvInv'
<1>1. CvTypes /\ WaiterKnows
  BY DEF CvInv
<1>2. /\ waiter[t].pc = "enter" /\ CvGoto(t, "unlock")
      /\ cv' = [cv EXCEPT !.blocked = @ + 1]
      /\ turn[t] = "has" /\ PostGate /\ turn' = [turn EXCEPT ![t] = "none"]
      /\ UNCHANGED <<blockQueue, unblockLock, cvDestroyed>>
  BY DEF Enter, HasGate, LeaveGate, SetTurn
<1> DEFINE n == waiter[t].issue
<1>3. waiter[t].result = "0" /\ n = 0 /\ unblockLock # t
  BY <1>1, <1>2 DEF WaiterKnows
<1>4. CvMoved(t, "unlock", "0", n)
  BY <1>1, <1>2, <1>3, WaiterMoves DEF CvPc
<1>5. /\ cv' \in CvRec /\ cv'.blocked = cv.blocked + 1 /\ cv'.toUnblock = cv.toUnblock
      /\ cv'.gone = cv.gone
  BY <1>1, <1>2 DEF CvTypes, CvRec
<1>6. CvTies(t, "unlock", "0", n)
  BY <1>1, <1>2, <1>3, <1>5, CvIntegers DEF CvTies, CvTypes
<1>7. Books(t, "unlock", "0", n)
  <2>1. Waits("unlock") = 1 /\ Waits(waiter[t].pc) = 0 /\ Takes("unlock", "0") = 0
        /\ Takes(waiter[t].pc, waiter[t].result) = 0
    BY <1>2 DEF Waits, Takes
  <2> QED BY <1>1, <1>2, <1>3, <1>5, <2>1, CvIntegers DEF Books, CvTypes
<1>8. t \in Keepers
  BY <1>2 DEF Keepers
<1>9. /\ blockLock' \in GateRec /\ turn' \in [Thread -> GateTurns] /\ cvDestroyed' \in BOOLEAN
      /\ TurnKnows' /\ OneKeeper' /\ GateCount'
  BY <1>2, <1>4, <1>5, <1>8, GateOpened
<1>10. Comes(t, "unlock")
  BY <1>2 DEF Comes, At, Using
<1>11. Destroying' /\ DestroyedIsUnused'
  BY <1>4, <1>10, DestroyingKept
<1> QED BY <1>4, <1>6, <1>7, <1>9, <1>11, KeeperKept

LEMMA CompactKept ==
  ASSUME CvInv, NEW t \in Thread, Compact(t)
  PROVE  CvInv'
<1>1. CvTypes /\ WaiterKnows
  BY DEF CvInv
<1>2. /\ waiter[t].pc = "compact" /\ CvGoto(t, "relock") /\ unblockLock' = Null
      /\ cv' = [cv EXCEPT !.blocked = @ - cv.gone, !.gone = 0]
      /\ turn[t] = "has" /\ PostGate /\ turn' = [turn EXCEPT ![t] = "none"]
      /\ UNCHANGED <<blockQueue, cvDestroyed>>
  BY DEF Compact, HasGate, LeaveGate, SetTurn
<1> DEFINE n == waiter[t].issue
           r == waiter[t].result
<1>3. n = 0 /\ unblockLock = t /\ cv.toUnblock = 0
  BY <1>1, <1>2 DEF WaiterKnows
<1>4. CvMoved(t, "relock", r, n)
  BY <1>1, <1>2, WaiterMoves DEF CvPc
<1>5. cv.blocked - cv.gone \in Nat
  <2>1. cv.blocked + cv.toUnblock - cv.gone = Cardinality(CvWaiting)
    BY DEF CvInv, CountersMatch, CvWaiting
  <2> QED BY <1>1, <1>3, <2>1, CvIntegers, SetsAreFinite
<1>6. /\ cv' \in CvRec /\ cv'.blocked = cv.blocked - cv.gone /\ cv'.toUnblock = 0 /\ cv'.gone = 0
  <2>1. PICK c \in CvRec : c = cv
    BY <1>1 DEF CvTypes
  <2>2. PICK b \in Nat : b = cv.blocked - cv.gone
    BY <1>5
  <2>3. cv' = [c EXCEPT !.blocked = b, !.gone = 0]
    BY <1>2, <2>1, <2>2
  <2> QED BY <1>3, <2>1, <2>2, <2>3 DEF CvRec
<1>7. CvTies(t, "relock", r, n)
  BY <1>1, <1>2, <1>3, <1>6, ThreadAssumption DEF CvTies, CvTypes
<1>8. Books(t, "relock", r, n)
  <2>1. Waits("relock") = 0 /\ Waits(waiter[t].pc) = 0
    BY <1>2 DEF Waits
  <2> QED BY <1>1, <1>2, <1>3, <1>6, <2>1, CvIntegers DEF Books, CvTypes
<1>9. t \in Keepers
  BY <1>2 DEF Keepers
<1>10. /\ blockLock' \in GateRec /\ turn' \in [Thread -> GateTurns] /\ cvDestroyed' \in BOOLEAN
       /\ TurnKnows' /\ OneKeeper' /\ GateCount'
  BY <1>2, <1>3, <1>4, <1>6, <1>9, GateOpened
<1>11. Comes(t, "relock")
  BY <1>2 DEF Comes, At, Using
<1>12. Destroying' /\ DestroyedIsUnused'
  BY <1>4, <1>11, DestroyingKept
<1> HIDE DEF n, r
<1> QED BY <1>4, <1>7, <1>8, <1>10, <1>12, KeeperKept

LEMMA TurnKnowsNone ==
  ASSUME CvInv, NEW t \in Thread, waiter[t].pc \notin AtGate
  PROVE  turn[t] = "none"
BY DEF CvInv, TurnKnows

LEMMA CleanupKept ==
  ASSUME CvInv, NEW t \in Thread, Cleanup(t)
  PROVE  CvInv'
<1>1. CvTypes /\ WaiterKnows
  BY DEF CvInv
<1>2. /\ waiter[t].pc = "cleanup" /\ unblockLock = Null
      /\ UNCHANGED <<blockLock, turn, blockQueue, cvDestroyed>>
  BY DEF Cleanup
<1> DEFINE n == waiter[t].issue
           r == waiter[t].result
<1>3. n = 0 /\ Null # t
  BY <1>1, <1>2, ThreadAssumption DEF WaiterKnows
<1>4. \A pc \in CvPc : CvGoto(t, pc) => CvMoved(t, pc, r, n)
  BY <1>1, WaiterMoves
<1>5. /\ Waits("cleanup") = 1 /\ Takes("cleanup", r) \in {0, 1}
      /\ \A pc \in {"open", "relock", "compact"} : Waits(pc) = 0 /\ Takes(pc, r) = 0
  BY DEF Waits, Takes
<1>6. cv \in CvRec /\ blockQueue \in Nat
  BY <1>1 DEF CvTypes
<1>7. CASE cv.toUnblock # 0
  <2>1. cv.toUnblock - 1 \in Nat
    BY <1>1, <1>7, CvIntegers
  <2>2. /\ cv' \in CvRec /\ cv'.toUnblock = cv.toUnblock - 1
        /\ cv'.blocked = cv.blocked /\ cv'.gone = cv.gone
    <3>1. cv' = [cv EXCEPT !.toUnblock = @ - 1]
      BY <1>7 DEF Cleanup
    <3>2. PICK k \in Nat : k = cv.toUnblock - 1
      BY <2>1
    <3>3. cv' = [cv EXCEPT !.toUnblock = k]
      BY <3>1, <3>2
    <3> QED BY <1>6, <3>2, <3>3 DEF CvRec
  <2>3. unblockLock' = unblockLock /\ CvGoto(t, IF cv.toUnblock = 1 THEN "open" ELSE "relock")
    BY <1>7 DEF Cleanup
  <2>4. \A pc \in {"open", "relock"} : CvTies(t, pc, r, n)
    BY <1>2, <1>3, <2>2, <2>3, ThreadAssumption DEF CvTies
  <2>5. CASE cv.toUnblock = 1
    <3>1. CvMoved(t, "open", r, n)
      BY <1>4, <2>3, <2>5 DEF CvPc
    <3>2. CvTies(t, "open", r, n)
      BY <2>4
    <3>3. Books(t, "open", r, n)
      BY <1>1, <1>2, <1>3, <1>5, <1>6, <2>2, <2>5, CvIntegers DEF Books
    <3>4. /\ turn' = turn /\ turn[t] = "none" /\ blockLock' = blockLock
      BY <1>2, <2>5, TurnKnowsNone DEF AtGate
    <3>5. turn' = [turn EXCEPT ![t] = "none"] /\ "none" \in GateTurns
      BY <1>1, <3>4 DEF CvTypes, GateTurns
    <3>10. Keepers = {} /\ ~cvDestroyed /\ Held /\ Holders = 1
      BY <2>5 DEF CvInv, OneKeeper, Held, Holders
    <3>11. turn' \in [Thread -> GateTurns] /\ TurnKnows' /\ Keepers' = {t}
      BY <3>1, <3>5, <3>10, GateMoves
    <3>12. Held' /\ Holders' = 1 /\ OneKeeper'
      BY <1>2, <2>2, <2>5, <3>10, <3>11 DEF Held, Holders, OneKeeper
    <3>13. GateCount'
      <4>1. blockLock' \in GateRec /\ blockLock.value \in Int /\ blockLock.units = 0
        BY <1>1, <3>4, <3>10, GateFields DEF CvTypes, CvInv, GateCount
      <4>2. blockLock'.value + Queues("none") + Holders' = blockLock.value + Queues(turn[t]) + Holders
        BY <3>4, <3>10, <3>12, <4>1 DEF Queues
      <4> QED BY <3>1, <3>4, <3>5, <3>12, <4>1, <4>2, GateMoves
    <3>7. Comes(t, "open")
      BY <1>2 DEF Comes, Using
    <3>8. Destroying' /\ DestroyedIsUnused'
      BY <3>1, <3>7, DestroyingKept
    <3>9. blockLock' \in GateRec /\ cvDestroyed' \in BOOLEAN
      BY <1>1, <1>2 DEF CvTypes
    <3> HIDE DEF n, r
    <3> QED BY <3>1, <3>2, <3>3, <3>8, <3>9, <3>11, <3>12, <3>13, KeeperKept
  <2>6. CASE cv.toUnblock # 1
    <3>1. CvMoved(t, "relock", r, n)
      BY <1>4, <2>3, <2>6 DEF CvPc
    <3>2. CvTies(t, "relock", r, n)
      BY <2>4
    <3>3. Books(t, "relock", r, n)
      BY <1>1, <1>2, <1>3, <1>5, <1>6, <2>2, CvIntegers DEF Books
    <3>4. Gate(t, "relock")
      BY <1>1, <1>2, <1>7, <2>2, <2>6, CvIntegers DEF Gate, AtGate
    <3>5. Comes(t, "relock")
      BY <1>2 DEF Comes, Using
    <3> HIDE DEF n, r
    <3> QED BY <3>1, <3>2, <3>3, <3>4, <3>5, OrdinaryKept
  <2> QED BY <2>5, <2>6
<1>8. CASE cv.toUnblock = 0
  <2>1. /\ cv' \in CvRec /\ cv'.toUnblock = 0
        /\ cv'.blocked = cv.blocked /\ cv'.gone = cv.gone + 1
    <3>1. cv' = [cv EXCEPT !.gone = @ + 1]
      BY <1>8 DEF Cleanup
    <3> QED BY <1>6, <1>8, <3>1 DEF CvRec
  <2>2. PICK pc \in {"compact", "relock"} :
          CvGoto(t, pc) /\ unblockLock' = IF pc = "compact" THEN t ELSE Null
    BY <1>8 DEF Cleanup
  <2>3. pc \in CvPc
    BY DEF CvPc
  <2>4. CvMoved(t, pc, r, n)
    BY <1>4, <2>2, <2>3
  <2>5. CvTies(t, pc, r, n)
    BY <1>2, <1>3, <2>1, <2>2, ThreadAssumption DEF CvTies
  <2>6. Books(t, pc, r, n)
    <3>1. Waits(pc) = 0 /\ Waits(waiter[t].pc) = 1
      BY <1>2, <1>5
    <3>2. cv'.blocked + cv'.toUnblock - cv'.gone = cv.blocked + cv.toUnblock - cv.gone + 0 - 1
      BY <1>1, <1>8, <2>1, CvIntegers
    <3> HIDE DEF n, r
    <3> QED BY <1>2, <1>3, <1>6, <2>1, <3>1, <3>2 DEF Books
  <2>7. Gate(t, pc)
    BY <1>2, <1>8, <2>1, <2>2 DEF Gate, AtGate
  <2>8. Comes(t, pc)
    BY <1>2, <2>2 DEF Comes, Using
  <2> HIDE DEF n, r
  <2> QED BY <2>4, <2>5, <2>6, <2>7, <2>8, OrdinaryKept
<1> QED BY <1>7, <1>8

LEMMA OpenGateKept ==
  ASSUME CvInv, NEW t \in Thread, OpenGate(t)
  PROVE  CvInv'
<1>1. CvTypes /\ WaiterKnows
  BY DEF CvInv
<1>2. /\ waiter[t].pc = "open" /\ PostGate /\ CvGoto(t, "relock")
      /\ UNCHANGED <<cv, turn, blockQueue, unblockLock, cvDestroyed>>
  BY DEF OpenGate
<1> DEFINE n == waiter[t].issue
           r == waiter[t].result
<1>3. n = 0 /\ unblockLock # t
  BY <1>1, <1>2 DEF WaiterKnows
<1>4. CvMoved(t, "relock", r, n)
  BY <1>1, <1>2, WaiterMoves DEF CvPc
<1>5. CvTies(t, "relock", r, n)
  BY <1>1, <1>2, <1>3, CvIntegers DEF CvTies, CvTypes
<1>6. Books(t, "relock", r, n)
  <2>1. Waits("relock") = 0 /\ Waits(waiter[t].pc) = 0 /\ Takes("relock", r) = 0
        /\ Takes(waiter[t].pc, waiter[t].result) = 0
    BY <1>2 DEF Waits, Takes
  <2> QED BY <1>1, <1>2, <1>3, <2>1, CvIntegers DEF Books, CvTypes
<1>7. t \in Keepers /\ turn[t] = "none"
  BY <1>2, TurnKnowsNone DEF Keepers, AtGate
<1>8. turn' = [turn EXCEPT ![t] = "none"]
  BY <1>1, <1>2, <1>7 DEF CvTypes
<1>9. /\ blockLock' \in GateRec /\ turn' \in [Thread -> GateTurns] /\ cvDestroyed' \in BOOLEAN
      /\ TurnKnows' /\ OneKeeper' /\ GateCount'
  BY <1>2, <1>4, <1>7, <1>8, GateOpened
<1>10. Destroying' /\ DestroyedIsUnused'
  <2>1. Comes(t, "relock")
    BY <1>2 DEF Comes, Using
  <2> QED BY <1>4, <2>1, DestroyingKept
<1> HIDE DEF n, r
<1> QED BY <1>4, <1>5, <1>6, <1>9, <1>10, KeeperKept

\* A thread that stays where it is, or ends, at the gate: only its turn and the gate change.
LEMMA TurnKept ==
  ASSUME CvInv, NEW t \in Thread, NEW x \in GateTurns, turn' = [turn EXCEPT ![t] = x],
         waiter[t].pc \in AtGate, x # "none" => waiter[t].pc # "open",
         \/ waiter' = waiter
         \/ CvGoto(t, "ended") /\ waiter[t].pc = "enter",
         x = "withdraws" => waiter' = waiter /\ waiter[t].pc = "enter",
         UNCHANGED <<cv, blockQueue, unblockLock, cvDestroyed>>,
         blockLock' \in GateRec, OneKeeper', GateCount'
  PROVE  CvInv'
<1>1. CvTypes /\ WaiterKnows
  BY DEF CvInv
<1> DEFINE n == waiter[t].issue
           r == waiter[t].result
<1>2. PICK pc \in {waiter[t].pc, "ended"} :
        /\ CvMoved(t, pc, r, n) /\ (pc = waiter[t].pc \/ waiter[t].pc = "enter")
        /\ x = "withdraws" => pc = "enter"
  <2>1. CASE waiter' = waiter
    BY <1>1, <2>1 DEF CvMoved, CvTypes
  <2>2. CASE CvGoto(t, "ended") /\ waiter[t].pc = "enter" /\ x # "withdraws"
    BY <1>1, <2>2, WaiterMoves DEF CvPc
  <2>3. (CvGoto(t, "ended") /\ x = "withdraws") => waiter' = waiter
    OBVIOUS
  <2> QED BY <2>1, <2>2, <2>3
<1>3. n = 0 /\ (unblockLock = t <=> waiter[t].pc \in {"gate", "compact"})
  BY <1>1 DEF WaiterKnows, AtGate
<1>4. CvTies(t, pc, r, n)
  BY <1>1, <1>2, <1>3, CvIntegers DEF CvTies, CvTypes, WaiterKnows
<1>5. Books(t, pc, r, n)
  <2>1. Waits(pc) = 0 /\ Waits(waiter[t].pc) = 0 /\ Takes(pc, r) = 0
        /\ Takes(waiter[t].pc, waiter[t].result) = 0
    BY <1>2 DEF Waits, Takes, AtGate
  <2>2. cv \in CvRec /\ blockQueue \in Nat
    BY <1>1 DEF CvTypes
  <2> HIDE DEF r
  <2> QED BY <1>1, <1>2, <1>3, <2>1, <2>2, CvIntegers DEF Books
<1>6. Comes(t, pc)
  BY <1>2 DEF Comes, Using
<1>7. Destroying' /\ DestroyedIsUnused'
  BY <1>2, <1>6, DestroyingKept
<1>8. turn' \in [Thread -> GateTurns] /\ TurnKnows'
  <2>1. x # "none" => pc \in AtGate
    BY <1>2 DEF AtGate
  <2>2. x = "withdraws" => pc = "enter"
    BY <1>2
  <2> QED BY <1>2, <2>1, <2>2, GateMoves
<1>9. cvDestroyed' \in BOOLEAN
  BY <1>1 DEF CvTypes
<1> HIDE DEF n, r
<1> QED BY <1>2, <1>4, <1>5, <1>7, <1>8, <1>9, KeeperKept

\* Somebody comes through the gate only while nothing keeps it closed.
LEMMA GateTaken ==
  ASSUME CvInv, NEW t \in Thread, turn' = [turn EXCEPT ![t] = "has"], turn[t] # "has",
         waiter[t].pc \in AtGate,
         waiter' = waiter \/ (CvGoto(t, "ended") /\ waiter[t].pc = "enter"),
         UNCHANGED <<cv, cvDestroyed>>, ~Held
  PROVE  OneKeeper' /\ Held' /\ Holders' = 1 /\ Holders = 0
<1>1. CvTypes
  BY DEF CvInv
<1>2. \A u \in Thread : u # t => turn'[u] = turn[u] /\ waiter'[u] = waiter[u]
  BY <1>1 DEF CvTypes, CvGoto
<1>3. Keepers' \subseteq {t} /\ t \in Keepers'
  BY <1>1, <1>2 DEF Held, Keepers, CvTypes
<1> QED BY <1>1, <1>3 DEF OneKeeper, Held, Holders

LEMMA KeepersSame ==
  ASSUME CvInv, NEW t \in Thread, NEW x \in GateTurns \ {"has"}, turn' = [turn EXCEPT ![t] = x],
         turn[t] # "has", waiter[t].pc \in AtGate,
         waiter' = waiter \/ (CvGoto(t, "ended") /\ waiter[t].pc = "enter"),
         UNCHANGED <<cv, cvDestroyed>>
  PROVE  OneKeeper' /\ Held' = Held /\ Holders' = Holders
<1>1. CvTypes /\ OneKeeper
  BY DEF CvInv
<1>2. \A u \in Thread : u # t => turn'[u] = turn[u] /\ waiter'[u] = waiter[u]
  BY <1>1 DEF CvTypes, CvGoto
<1>3. turn'[t] = x /\ waiter[t].pc # "open" /\ waiter'[t].pc # "open"
  <2>1. turn'[t] = x
    BY <1>1 DEF CvTypes
  <2>2. CASE waiter' = waiter
    BY <2>1, <2>2 DEF AtGate
  <2>3. CASE CvGoto(t, "ended")
    BY <1>1, <2>1, <2>3, WaiterMoves DEF AtGate, CvPc, CvMoved
  <2> QED BY <2>2, <2>3
<1>4. Keepers' = Keepers
  BY <1>2, <1>3 DEF Keepers
<1> QED BY <1>1, <1>4 DEF OneKeeper, Held, Holders

LEMMA JoinGateKept ==
  ASSUME CvInv, NEW t \in Thread, JoinGate(t)
  PROVE  CvInv'
<1>1. CvTypes /\ GateCount
  BY DEF CvInv
<1> DEFINE x == IF blockLock.value > 0 THEN "has" ELSE "queued"
<1>2. /\ waiter[t].pc \in {"enter", "compact", "gate", "close"} /\ turn[t] = "none"
      /\ blockLock' = [blockLock EXCEPT !.value = blockLock.value - 1]
      /\ turn' = [turn EXCEPT ![t] = x]
      /\ UNCHANGED <<cv, blockQueue, unblockLock, waiter, cvDestroyed>>
  BY DEF JoinGate, SetTurn
<1>3. /\ blockLock' \in GateRec /\ blockLock'.value = blockLock.value - 1
      /\ blockLock'.units = blockLock.units /\ blockLock.value \in Int
  <2>1. PICK v \in Int : v = blockLock.value - 1
    BY <1>1, GateFields
  <2> QED BY <1>1, <1>2, <2>1, GateFields
<1>4. CvMoved(t, waiter[t].pc, waiter[t].result, waiter[t].issue)
  BY <1>1, <1>2 DEF CvMoved, CvTypes
<1>5. waiter[t].pc \in AtGate /\ x \in GateTurns
  BY <1>2 DEF AtGate, GateTurns
<1>6. CASE blockLock.value > 0
  <2>1. x = "has"
    BY <1>6
  <2>2. Cardinality(Queue) \in Nat
    BY <1>1, <1>2, <1>5, TurnMoves
  <2>3. ~Held
    BY <1>1, <1>3, <1>6, <2>2 DEF GateCount, Holders
  <2>4. OneKeeper' /\ Held' /\ Holders' = 1 /\ Holders = 0
    BY <1>2, <1>5, <2>1, <2>3, GateTaken
  <2>5. blockLock'.value + Queues(x) + Holders' = blockLock.value + Queues(turn[t]) + Holders
    BY <1>2, <1>3, <2>1, <2>4 DEF Queues
  <2>6. blockLock'.units = 0
    BY <1>1, <1>3, <1>6, <2>3 DEF GateCount
  <2> HIDE DEF x
  <2>7. GateCount'
    <3>1. x # "none" => waiter[t].pc \in AtGate
      BY <1>5
    <3>2. x = "withdraws" => waiter[t].pc = "enter"
      BY <2>1
    <3>3. blockLock'.units = IF ~Held' /\ blockLock'.value <= 0 THEN 1 ELSE 0
      BY <2>4, <2>6
    <3> QED BY <1>2, <1>3, <1>4, <1>5, <2>5, <3>1, <3>2, <3>3, GateMoves
  <2> QED BY <1>2, <1>3, <1>5, <2>1, <2>4, <2>7, TurnKept DEF AtGate
<1>7. CASE ~(blockLock.value > 0)
  <2>1. x = "queued" /\ x \in GateTurns \ {"has"}
    BY <1>5, <1>7
  <2>2. OneKeeper' /\ Held' = Held /\ Holders' = Holders
    BY <1>2, <1>5, <2>1, KeepersSame
  <2>3. Holders \in {0, 1}
    BY DEF Holders
  <2>4. blockLock'.value + Queues(x) + Holders' = blockLock.value + Queues(turn[t]) + Holders
    BY <1>2, <1>3, <2>1, <2>2, <2>3 DEF Queues
  <2>5. blockLock'.units = IF ~Held' /\ blockLock'.value <= 0 THEN 1 ELSE 0
    BY <1>1, <1>3, <1>7, <2>2 DEF GateCount
  <2> HIDE DEF x
  <2>6. GateCount'
    <3>1. x # "none" => waiter[t].pc \in AtGate
      BY <1>5
    <3>2. x = "withdraws" => waiter[t].pc = "enter"
      BY <2>1
    <3> QED BY <1>2, <1>3, <1>4, <1>5, <2>4, <2>5, <3>1, <3>2, GateMoves
  <2> QED BY <1>2, <1>3, <1>5, <2>1, <2>2, <2>6, TurnKept DEF AtGate
<1> QED BY <1>6, <1>7

LEMMA LetThroughKept ==
  ASSUME CvInv, NEW t \in Thread, LetThrough(t)
  PROVE  CvInv'
<1>1. CvTypes /\ GateCount /\ TurnKnows
  BY DEF CvInv
<1>2. /\ turn[t] = "queued" /\ blockLock.units > 0
      /\ blockLock' = [blockLock EXCEPT !.units = blockLock.units - 1]
      /\ turn' = [turn EXCEPT ![t] = "has"]
      /\ UNCHANGED <<cv, blockQueue, unblockLock, waiter, cvDestroyed>>
  BY DEF LetThrough, SetTurn
<1>3. blockLock.units = 1 /\ ~Held /\ blockLock.value <= 0 /\ blockLock.value \in Int
  BY <1>1, <1>2, GateFields DEF GateCount
<1>4. /\ blockLock' \in GateRec /\ blockLock'.value = blockLock.value
      /\ blockLock'.units = 0
  <2>1. blockLock' = [blockLock EXCEPT !.units = 0]
    BY <1>2, <1>3
  <2> QED BY <1>1, <2>1, GateFields
<1>5. waiter[t].pc \in AtGate /\ "has" \in GateTurns
  BY <1>1, <1>2 DEF TurnKnows, GateTurns
<1>6. CvMoved(t, waiter[t].pc, waiter[t].result, waiter[t].issue)
  BY <1>1, <1>2 DEF CvMoved, CvTypes
<1>7. OneKeeper' /\ Held' /\ Holders' = 1 /\ Holders = 0
  BY <1>2, <1>3, <1>5, GateTaken
<1>8. blockLock'.value + Queues("has") + Holders' = blockLock.value + Queues(turn[t]) + Holders
  BY <1>2, <1>3, <1>4, <1>7 DEF Queues
<1>9. GateCount'
  BY <1>2, <1>4, <1>5, <1>6, <1>7, <1>8, GateMoves
<1> QED BY <1>2, <1>4, <1>5, <1>7, <1>9, TurnKept DEF AtGate

\* With the value 0 the thread is the only one at the gate and is forgotten in the count;
\* with another value it takes a unit, or nothing could have been posted for it.
LEMMA WithdrawKept ==
  ASSUME CvInv, NEW t \in Thread, Withdraw(t)
  PROVE  CvInv'
<1>1. CvTypes /\ GateCount /\ TurnKnows
  BY DEF CvInv
<1>2. /\ turn[t] = "withdraws" /\ CvGoto(t, "ended") /\ waiter[t].pc = "enter"
      /\ UNCHANGED <<cv, blockQueue, unblockLock, cvDestroyed>>
  BY <1>1 DEF Withdraw, TurnKnows
<1>3. waiter[t].pc \in AtGate /\ "has" \in GateTurns /\ "none" \in GateTurns \ {"has"} /\ "ended" \in AtGate
  BY <1>2 DEF AtGate, GateTurns
<1>4. CvMoved(t, "ended", waiter[t].result, waiter[t].issue)
  BY <1>1, <1>2, WaiterMoves DEF CvPc
<1>5. blockLock.value \in Int /\ blockLock.units \in Nat /\ Holders \in {0, 1}
  BY <1>1, GateFields DEF Holders
<1>6. Cardinality(Queue) \in Nat /\ Cardinality(Queue) >= 1
  <2>1. t \in Queue /\ Queue \in SUBSET Thread
    BY <1>2 DEF Queue
  <2>2. IsFiniteSet(Queue)
    BY <2>1, FS_Subset, ThreadAssumption
  <2>3. Cardinality(Queue) \in Nat /\ Cardinality(Queue) # 0
    BY <2>1, <2>2, FS_CardinalityType, FS_EmptySet
  <2> QED BY <2>3
<1>7. CASE blockLock.value = 0
  <2>1. blockLock' = blockLock /\ turn' = [turn EXCEPT ![t] = "none"]
    BY <1>7 DEF Withdraw, SetTurn
  <2>2. OneKeeper' /\ Held' = Held /\ Holders' = Holders
    BY <1>2, <1>3, <2>1, KeepersSame
  <2>3. /\ blockLock.value + Cardinality(Queue) + Holders = 1
        /\ blockLock'.value + Queues("none") + Holders'
             = blockLock.value + Queues(turn[t]) + Holders - 1
    BY <1>1, <1>2, <1>5, <1>6, <1>7, <2>1, <2>2 DEF GateCount, Queues
  <2>4. blockLock' \in GateRec
    BY <1>1, <2>1 DEF CvTypes
  <2>5. GateCount'
    BY <1>1, <1>3, <1>4, <2>1, <2>2, <2>3, <2>4, GateMoves DEF GateCount
  <2> QED BY <1>2, <1>3, <2>1, <2>2, <2>4, <2>5, TurnKept
<1>8. CASE blockLock.value # 0 /\ blockLock.units > 0
  <2>1. /\ blockLock' = [blockLock EXCEPT !.units = blockLock.units - 1]
        /\ turn' = [turn EXCEPT ![t] = "has"]
    BY <1>5, <1>8 DEF Withdraw, SetTurn
  <2>2. blockLock.units = 1 /\ ~Held
    BY <1>1, <1>8 DEF GateCount
  <2>3. /\ blockLock' \in GateRec /\ blockLock'.value = blockLock.value
        /\ blockLock'.units = 0
    <3>1. blockLock' = [blockLock EXCEPT !.units = 0]
      BY <2>1, <2>2
    <3> QED BY <1>1, <3>1, GateFields
  <2>4. OneKeeper' /\ Held' /\ Holders' = 1 /\ Holders = 0
    BY <1>2, <1>3, <2>1, <2>2, GateTaken
  <2>5. blockLock'.value + Queues("has") + Holders' = blockLock.value + Queues(turn[t]) + Holders
    BY <1>2, <1>5, <2>3, <2>4 DEF Queues
  <2>6. GateCount'
    BY <1>3, <1>4, <2>1, <2>3, <2>4, <2>5, GateMoves
  <2> QED BY <1>2, <1>3, <2>1, <2>3, <2>4, <2>6, TurnKept DEF AtGate
<1>9. CASE blockLock.value # 0 /\ blockLock.units = 0
  <2>1. /\ blockLock' = [blockLock EXCEPT !.value = blockLock.value + 1]
        /\ turn' = [turn EXCEPT ![t] = "none"]
    BY <1>5, <1>9 DEF Withdraw, SetTurn
  <2>2. /\ blockLock' \in GateRec /\ blockLock'.value = blockLock.value + 1
        /\ blockLock'.units = 0
    <3>1. PICK v \in Int : v = blockLock.value + 1
      BY <1>5
    <3> QED BY <1>1, <1>9, <2>1, <3>1, GateFields
  <2>3. OneKeeper' /\ Held' = Held /\ Holders' = Holders
    BY <1>2, <1>3, <2>1, KeepersSame
  <2>4. blockLock'.value + Queues("none") + Holders' = blockLock.value + Queues(turn[t]) + Holders
    BY <1>2, <1>5, <2>2, <2>3 DEF Queues
  <2>5. Held
    BY <1>1, <1>5, <1>6, <1>9 DEF GateCount
  <2>6. GateCount'
    BY <1>3, <1>4, <2>1, <2>2, <2>3, <2>4, <2>5, GateMoves
  <2> QED BY <1>2, <1>3, <2>1, <2>2, <2>3, <2>6, TurnKept
<1> QED BY <1>5, <1>7, <1>8, <1>9

LEMMA CancelAtGateKept ==
  ASSUME CvInv, NEW t \in Thread, CancelAtGate(t)
  PROVE  CvInv'
<1>1. CvTypes /\ GateCount
  BY DEF CvInv
<1>2. waiter[t].pc = "enter" /\ UNCHANGED <<cv, blockLock, blockQueue, unblockLock, cvDestroyed>>
  BY DEF CancelAtGate
<1>3. waiter[t].pc \in AtGate /\ "ended" \in AtGate /\ {"none", "withdraws"} \subseteq GateTurns \ {"has"}
  BY <1>2 DEF AtGate, GateTurns
<1>4. PICK x \in {"none", "withdraws"} :
        /\ turn' = [turn EXCEPT ![t] = x] /\ Queues(x) = Queues(turn[t]) /\ turn[t] # "has"
        /\ \/ waiter' = waiter
           \/ CvGoto(t, "ended") /\ waiter[t].pc = "enter"
        /\ x = "withdraws" => waiter' = waiter
  <2>1. CASE turn[t] = "none"
    <3>1. CvGoto(t, "ended") /\ turn' = turn
      BY <2>1 DEF CancelAtGate
    <3>2. turn' = [turn EXCEPT ![t] = "none"]
      BY <1>1, <2>1, <3>1 DEF CvTypes
    <3> QED BY <1>2, <2>1, <3>1, <3>2
  <2>2. CASE turn[t] = "queued"
    <3>1. turn' = [turn EXCEPT ![t] = "withdraws"] /\ waiter' = waiter
      BY <2>2 DEF CancelAtGate, SetTurn
    <3> QED BY <2>2, <3>1 DEF Queues
  <2> QED BY <2>1, <2>2 DEF CancelAtGate
<1>5. OneKeeper' /\ Held' = Held /\ Holders' = Holders
  BY <1>2, <1>3, <1>4, KeepersSame
<1>6. PICK pc \in AtGate : /\ CvMoved(t, pc, waiter[t].result, waiter[t].issue)
                           /\ x = "withdraws" => pc = "enter"
  <2>1. CASE waiter' = waiter
    BY <1>1, <1>2, <1>3, <2>1 DEF CvMoved, CvTypes
  <2>2. CASE CvGoto(t, "ended") /\ x # "withdraws"
    BY <1>1, <1>3, <2>2, WaiterMoves DEF CvPc
  <2> QED BY <1>4, <2>1, <2>2
<1>7. blockLock \in GateRec /\ blockLock.value \in Int /\ Holders \in {0, 1} /\ Queues(x) \in {0, 1}
  BY <1>1, GateFields DEF Holders, Queues, CvTypes
<1>8. blockLock'.value + Queues(x) + Holders' = blockLock.value + Queues(turn[t]) + Holders
  BY <1>2, <1>4, <1>5, <1>7
<1>9. GateCount'
  BY <1>1, <1>2, <1>3, <1>4, <1>5, <1>6, <1>7, <1>8, GateMoves DEF GateCount
<1> QED BY <1>2, <1>3, <1>4, <1>5, <1>7, <1>9, TurnKept

\* Nobody uses a condition variable that pthread_cond_destroy finds unused.
LEMMA NobodyLeft ==
  ASSUME CvInv, NEW t \in Thread, HasGate(t, "close"), unblockLock = Null, cv.blocked <= cv.gone
  PROVE  At(Using) = {}
<1>1. CvTypes /\ WaiterKnows /\ Destroying /\ CountersMatch
  BY DEF CvInv
<1>2. cv.toUnblock = 0 /\ Keepers = {t} /\ waiter[t].pc = "close"
  BY KeeperIsAlone DEF HasGate, Keepers
<1>3. CvWaiting = {}
  <2>1. cv.blocked + cv.toUnblock - cv.gone = Cardinality(CvWaiting)
    BY <1>1 DEF CountersMatch, CvWaiting
  <2>2. Cardinality(CvWaiting) = 0
    BY <1>1, <1>2, <2>1, CvIntegers, SetsAreFinite
  <2> QED BY <1>1, <2>2, SetsAreFinite, FS_EmptySet
<1>4. At({"enter", "gate", "post"}) = {}
  <2>1. t \in At({"close"})
    BY <1>2 DEF At
  <2> QED BY <1>1, <2>1 DEF Destroying
<1>5. At({"gate", "compact"}) = {}
  BY <1>1, ThreadAssumption DEF WaiterKnows, At
<1>6. At({"open"}) = {}
  <2>1. \A u \in At({"open"}) : u = t
    BY <1>2 DEF At, Keepers
  <2> QED BY <1>2, <2>1 DEF At
<1>7. At(Using) \subseteq CvWaiting \cup At({"enter", "gate", "post"}) \cup At({"gate", "compact"})
                             \cup At({"open"})
  BY DEF At, Using, CvWaiting
<1> QED BY <1>3, <1>4, <1>5, <1>6, <1>7

LEMMA DestroyChecksKept ==
  ASSUME CvInv, NEW t \in Thread, DestroyChecks(t)
  PROVE  CvInv'
<1>1. CvTypes /\ WaiterKnows
  BY DEF CvInv
<1>2. /\ waiter[t].pc = "close" /\ turn[t] = "has" /\ HasGate(t, "close")
      /\ turn' = [turn EXCEPT ![t] = "none"] /\ UNCHANGED <<cv, blockQueue, unblockLock>>
  BY DEF DestroyChecks, HasGate, SetTurn
<1>3. PICK r \in {"0", "EBUSY"} :
        /\ waiter' = [waiter EXCEPT ![t].pc = "idle", ![t].result = r]
        /\ \/ PostGate /\ cvDestroyed' = cvDestroyed
           \/ /\ unblockLock = Null /\ ~(cv.blocked > cv.gone)
              /\ cvDestroyed' = TRUE /\ blockLock' = blockLock
  <2>1. CASE unblockLock # Null \/ cv.blocked > cv.gone
    BY <2>1 DEF DestroyChecks
  <2>2. CASE ~(unblockLock # Null \/ cv.blocked > cv.gone)
    BY <2>2 DEF DestroyChecks
  <2> QED BY <2>1, <2>2
<1> DEFINE n == waiter[t].issue
<1>4. n = 0 /\ unblockLock # t
  BY <1>1, <1>2, SMTT(40) DEF WaiterKnows
<1>5. CvMoved(t, "idle", r, n)
  BY <1>1, <1>3, WaiterMoves DEF CvPc, CvResult
<1>6. CvTies(t, "idle", r, n)
  BY <1>1, <1>2, <1>4, CvIntegers DEF CvTies, CvTypes
<1>7. Books(t, "idle", r, n)
  <2>1. Waits("idle") = 0 /\ Waits(waiter[t].pc) = 0 /\ Takes("idle", r) = 0
        /\ Takes(waiter[t].pc, waiter[t].result) = 0
    BY <1>2 DEF Waits, Takes
  <2> QED BY <1>1, <1>2, <1>4, <2>1, CvIntegers DEF Books, CvTypes
<1>8. t \in Keepers /\ cv.toUnblock = 0 /\ ~cvDestroyed
  <2>1. t \in Keepers
    BY <1>2 DEF Keepers
  <2> QED BY <2>1, KeeperIsAlone
<1>9. cvDestroyed' \in BOOLEAN
  BY <1>1, <1>3 DEF CvTypes
<1>10. /\ blockLock' \in GateRec /\ turn' \in [Thread -> GateTurns]
       /\ TurnKnows' /\ OneKeeper' /\ GateCount'
  <2>1. CASE PostGate /\ cvDestroyed' = cvDestroyed
    BY <1>2, <1>5, <1>8, <2>1, GateOpened
  <2>2. CASE cvDestroyed' = TRUE /\ blockLock' = blockLock
    <3>1. ~(cv'.toUnblock > 0)
      BY <1>2, <1>8
    <3> QED BY <1>2, <1>5, <1>8, <2>2, <3>1, GateLeftClosed
  <2> QED BY <1>3, <2>1, <2>2
<1>11. At({"close"})' = {}
  <2>1. At({"close"})' = At({"close"}) \ {t}
    BY <1>1, <1>5, AtMoves
  <2>2. t \in At({"close"})
    BY <1>2 DEF At
  <2> QED BY <2>1, <2>2 DEF CvInv, Destroying
<1>12. cvDestroyed' => At(Using)' = {}
  <2>1. At(Using)' = At(Using) \ {t}
    BY <1>1, <1>5, AtMoves DEF Using
  <2>2. cvDestroyed' => unblockLock = Null /\ ~(cv.blocked > cv.gone)
    BY <1>3, <1>8
  <2>3. cvDestroyed' => At(Using) = {}
    BY <1>1, <1>2, <2>2, NobodyLeft, CvIntegers
  <2> QED BY <2>1, <2>3
<1>13. Destroying' /\ DestroyedIsUnused'
  BY <1>11, <1>12 DEF Destroying, DestroyedIsUnused, Using
<1> HIDE DEF n
<1> QED BY <1>5, <1>6, <1>7, <1>9, <1>10, <1>13, KeeperKept

LEMMA CondDestroyKept ==
  ASSUME CvInv, NEW t \in Thread, CondDestroy(t)
  PROVE  CvInv'
<1>1. CvTypes /\ WaiterKnows
  BY DEF CvInv
<1>2. /\ waiter[t].pc = "idle" /\ ~cvDestroyed
      /\ \A u \in Thread : waiter[u].pc # "close"
      /\ \A u \in Thread : waiter[u].pc \notin {"enter", "gate", "post"}
      /\ CvGoto(t, "close") /\ UNCHANGED <<cv, blockLock, turn, blockQueue, unblockLock, cvDestroyed>>
  BY DEF CondDestroy, CvCall
<1> DEFINE n == waiter[t].issue
           r == waiter[t].result
<1>3. n = 0 /\ unblockLock # t
  BY <1>1, <1>2 DEF WaiterKnows
<1>4. CvMoved(t, "close", r, n)
  BY <1>1, <1>2, WaiterMoves DEF CvPc
<1>5. CvTies(t, "close", r, n)
  BY <1>1, <1>2, <1>3, CvIntegers DEF CvTies, CvTypes
<1>6. Books(t, "close", r, n)
  <2>1. Waits("close") = 0 /\ Waits(waiter[t].pc) = 0 /\ Takes("close", r) = 0
        /\ Takes(waiter[t].pc, waiter[t].result) = 0
    BY <1>2 DEF Waits, Takes
  <2> QED BY <1>1, <1>2, <1>3, <2>1, CvIntegers DEF Books, CvTypes
<1>7. Gate(t, "close")
  BY <1>2 DEF Gate, AtGate
<1>8. /\ blockLock' \in GateRec /\ turn' \in [Thread -> GateTurns] /\ cvDestroyed' \in BOOLEAN
      /\ TurnKnows' /\ OneKeeper' /\ GateCount'
  BY <1>1, <1>2, <1>4, <1>7, GateKept DEF CvTypes
<1>9. Destroying' /\ DestroyedIsUnused'
  <2>1. At({"close"}) = {} /\ At({"enter", "gate", "post"}) = {}
    BY <1>2 DEF At
  <2>2. At({"close"})' = At({"close"}) \cup {t}
    BY <1>1, <1>4, AtMoves
  <2>3. At({"enter", "gate", "post"})' = At({"enter", "gate", "post"}) \ {t}
    BY <1>1, <1>4, AtMoves
  <2> QED BY <1>2, <2>1, <2>2, <2>3 DEF Destroying, DestroyedIsUnused
<1> HIDE DEF n, r
<1> QED BY <1>4, <1>5, <1>6, <1>8, <1>9, KeeperKept

\* A signal or a broadcast releases some of the waiters that are left.
LEMMA IssuesSome ==
  ASSUME NEW op, NEW m \in Nat, m > 0
  PROVE  ToIssue(op, m) \in Nat /\ ToIssue(op, m) > 0 /\ m - ToIssue(op, m) \in Nat
BY DEF ToIssue

LEMMA CloseGateKept ==
  ASSUME CvInv, NEW t \in Thread, CloseGate(t)
  PROVE  CvInv'
<1>1. CvTypes /\ WaiterKnows
  BY DEF CvInv
<1>2. /\ waiter[t].pc = "gate" /\ turn[t] = "has" /\ turn' = [turn EXCEPT ![t] = "none"]
      /\ unblockLock' = Null /\ UNCHANGED <<blockLock, blockQueue, cvDestroyed>>
  BY DEF CloseGate, HasGate, SetTurn
<1>3. /\ waiter[t].issue = 0 /\ unblockLock = t /\ cv.toUnblock = 0 /\ cv.blocked > cv.gone
  BY <1>1, <1>2 DEF WaiterKnows
<1>4. cv.blocked \in Nat /\ cv.gone \in Nat /\ blockQueue \in Nat
  BY <1>1, CvIntegers DEF CvTypes
<1>5. PICK there \in Nat : there = cv.blocked - cv.gone /\ there > 0
  BY <1>3, <1>4
<1>6. PICK n : n = ToIssue(waiter[t].result, there)
  OBVIOUS
<1>7. n \in Nat /\ n > 0 /\ there - n \in Nat
  BY <1>5, <1>6, IssuesSome
<1>8. /\ cv' = [blocked |-> there - n, toUnblock |-> n, gone |-> 0]
      /\ waiter' = [waiter EXCEPT ![t].pc = "post", ![t].issue = n]
  BY <1>5, <1>6 DEF CloseGate, Issued
<1>9. cv' \in CvRec /\ cv'.blocked = there - n /\ cv'.toUnblock = n /\ cv'.gone = 0
  BY <1>7, <1>8 DEF CvRec
<1> DEFINE r == waiter[t].result
<1>10. CvMoved(t, "post", r, n)
  BY <1>1, <1>7, <1>8, WaiterMoves
<1>11. CvTies(t, "post", r, n)
  BY <1>2, <1>3, ThreadAssumption DEF CvTies
<1>12. Books(t, "post", r, n)
  <2>1. Waits("post") = 0 /\ Waits(waiter[t].pc) = 0 /\ Takes("post", r) = 0
        /\ Takes(waiter[t].pc, waiter[t].result) = 0
    BY <1>2 DEF Waits, Takes
  <2>2. cv'.blocked + cv'.toUnblock - cv'.gone = cv.blocked + cv.toUnblock - cv.gone + 0 - 0
    BY <1>3, <1>4, <1>5, <1>7, <1>9
  <2>3. cv'.toUnblock <= cv.toUnblock + (blockQueue' - blockQueue) + (n - waiter[t].issue) + (0 - 0)
    BY <1>2, <1>3, <1>4, <1>7, <1>9
  <2> HIDE DEF r
  <2> QED BY <1>2, <1>4, <1>7, <1>9, <2>1, <2>2, <2>3 DEF Books
<1>13. t \in Keepers /\ ~cvDestroyed
  <2>1. t \in Keepers
    BY <1>2 DEF Keepers
  <2> QED BY <2>1, KeeperIsAlone
<1>14. cvDestroyed' \in BOOLEAN /\ cv'.toUnblock > 0 /\ ~cvDestroyed'
  BY <1>1, <1>2, <1>7, <1>9, <1>13 DEF CvTypes
<1>15. /\ blockLock' \in GateRec /\ turn' \in [Thread -> GateTurns]
       /\ TurnKnows' /\ OneKeeper' /\ GateCount'
  BY <1>2, <1>10, <1>13, <1>14, GateLeftClosed
<1>16. Destroying' /\ DestroyedIsUnused'
  <2>1. Comes(t, "post")
    BY <1>2 DEF Comes, Using
  <2> QED BY <1>10, <2>1, DestroyingKept
<1> HIDE DEF r
<1> QED BY <1>10, <1>11, <1>12, <1>14, <1>15, <1>16, KeeperKept

\* What the invariant is about does not change.
LEMMA CvInvStable ==
  ASSUME CvInv, UNCHANGED <<cv, blockLock, turn, blockQueue, unblockLock, waiter, cvDestroyed>>
  PROVE  CvInv'
<1>1. \A S : At(S)' = At(S)
  BY DEF At
<1>2. Issuing' = Issuing /\ Taken' = Taken
  BY DEF Issuing, Units, Taken, At
<1>3. Keepers' = Keepers /\ Queue' = Queue
  BY DEF Keepers, Queue
<1>4. CvTypes' /\ WaiterKnows' /\ TurnKnows' /\ OneKeeper' /\ Destroying'
  BY <1>1, <1>3 DEF CvInv, CvTypes, WaiterKnows, TurnKnows, OneKeeper, Destroying
<1>5. GateCount'
  BY <1>3 DEF CvInv, GateCount, Holders, Held
<1>6. CountersMatch' /\ DestroyedIsUnused'
  BY <1>1 DEF CvInv, CountersMatch, DestroyedIsUnused
<1>7. SignalsKept'
  BY <1>2 DEF CvInv, SignalsKept, Taken
<1> QED BY <1>4, <1>5, <1>6, <1>7 DEF CvInv

LEMMA SignalKept ==
  ASSUME CvInv, NEW t \in Thread, NEW op \in {"signal", "broadcast"}, Signal(t, op)
  PROVE  CvInv'
<1>1. CvTypes /\ WaiterKnows
  BY DEF CvInv
<1>2. /\ waiter[t].pc = "idle" /\ ~cvDestroyed /\ unblockLock = Null
      /\ \A u \in Thread : waiter[u].pc # "close"
      /\ UNCHANGED <<blockLock, turn, blockQueue, cvDestroyed>>
  BY DEF Signal, CvCall
<1>3. waiter[t].issue = 0 /\ unblockLock # t /\ t # Null
  BY <1>1, <1>2, ThreadAssumption DEF WaiterKnows
<1>4. cv \in CvRec /\ cv.blocked \in Nat /\ cv.toUnblock \in Nat /\ cv.gone \in Nat
      /\ blockQueue \in Nat
  BY <1>1, CvIntegers DEF CvTypes
<1>5. At({"close"}) = {}
  BY <1>2 DEF At
<1>6. \A pc \in {"idle", "post", "gate"}, r \in CvResult : Waits(pc) = 0 /\ Takes(pc, r) = 0
  BY DEF Waits, Takes
<1>7. waiter[t].result \in CvResult
  BY <1>1 DEF CvTypes, WaiterRec
<1>8. CASE cv.toUnblock # 0 /\ cv.blocked # 0
  <2>1. PICK n : n = ToIssue(op, cv.blocked)
    OBVIOUS
  <2>2. n \in Nat /\ n > 0 /\ cv.blocked - n \in Nat
    BY <1>4, <1>8, <2>1, IssuesSome
  <2>3. /\ cv' = [cv EXCEPT !.toUnblock = @ + n, !.blocked = @ - n]
        /\ waiter' = [waiter EXCEPT ![t].pc = "post", ![t].issue = n]
        /\ unblockLock' = unblockLock
    BY <1>8, <2>1 DEF Signal, Issued
  <2>4. /\ cv' \in CvRec /\ cv'.toUnblock = cv.toUnblock + n
        /\ cv'.blocked = cv.blocked - n /\ cv'.gone = cv.gone
    <3>1. PICK k \in Nat, b \in Nat : k = cv.toUnblock + n /\ b = cv.blocked - n
      BY <1>4, <2>2
    <3>2. cv' = [cv EXCEPT !.toUnblock = k, !.blocked = b]
      BY <2>3, <3>1
    <3> QED BY <1>4, <3>1, <3>2 DEF CvRec
  <2> DEFINE r == waiter[t].result
  <2>5. CvMoved(t, "post", r, n)
    BY <1>1, <2>2, <2>3, WaiterMoves
  <2>6. CvTies(t, "post", r, n)
    BY <1>2, <1>3, <2>3, ThreadAssumption DEF CvTies
  <2>7. Books(t, "post", r, n)
    <3>1. Waits("post") = 0 /\ Waits(waiter[t].pc) = 0 /\ Takes("post", r) = 0
          /\ Takes(waiter[t].pc, waiter[t].result) = 0
      BY <1>2, <1>6, <1>7
    <3>2. cv'.blocked + cv'.toUnblock - cv'.gone = cv.blocked + cv.toUnblock - cv.gone + 0 - 0
      BY <1>4, <2>2, <2>4
    <3>3. cv'.toUnblock <= cv.toUnblock + (blockQueue' - blockQueue) + (n - waiter[t].issue)
                             + (0 - 0)
      BY <1>2, <1>3, <1>4, <2>2, <2>4
    <3> HIDE DEF r
    <3> QED BY <1>2, <1>4, <2>2, <2>4, <3>1, <3>2, <3>3 DEF Books
  <2>8. Gate(t, "post")
    BY <1>2, <1>4, <1>8, <2>2, <2>4 DEF Gate, AtGate
  <2>9. Comes(t, "post")
    BY <1>2, <1>5 DEF Comes
  <2> HIDE DEF r
  <2> QED BY <2>5, <2>6, <2>7, <2>8, <2>9, OrdinaryKept
<1>9. CASE cv.toUnblock = 0 /\ cv.blocked > cv.gone
  <2>1. /\ waiter' = [waiter EXCEPT ![t].pc = "gate", ![t].result = op]
        /\ unblockLock' = t /\ cv' = cv
    BY <1>9 DEF Signal
  <2>2. op \in CvResult
    BY DEF CvResult
  <2>3. CvMoved(t, "gate", op, waiter[t].issue)
    BY <1>1, <2>1, <2>2, WaiterMoves DEF CvPc
  <2>4. CvTies(t, "gate", op, waiter[t].issue)
    BY <1>2, <1>3, <1>9, <2>1, ThreadAssumption DEF CvTies
  <2>5. Books(t, "gate", op, waiter[t].issue)
    BY <1>2, <1>3, <1>4, <1>6, <1>7, <2>1, <2>2 DEF Books
  <2>6. Gate(t, "gate") /\ Comes(t, "gate")
    BY <1>2, <1>5, <2>1 DEF Gate, AtGate, Comes
  <2> QED BY <2>3, <2>4, <2>5, <2>6, OrdinaryKept
<1>10. CASE ~(cv.toUnblock # 0 /\ cv.blocked # 0) /\ ~(cv.toUnblock = 0 /\ cv.blocked > cv.gone)
  BY <1>2, <1>10, CvInvStable DEF Signal
<1> QED BY <1>8, <1>9, <1>10

LEMMA CvInvNext == CvInv /\ [CvNext]_cvVars => CvInv'
<1> SUFFICES ASSUME CvInv, [CvNext]_cvVars PROVE CvInv'
  OBVIOUS
<1>1. ASSUME NEW t \in Thread, CvStep(t) PROVE CvInv'
  <2>1. CASE Enter(t)
    BY <2>1, EnterKept
  <2>2. CASE GoToSleep(t)
    BY <2>2, GoToSleepKept
  <2>3. CASE Awake(t)
    BY <2>3, AwakeKept
  <2>4. CASE Cleanup(t)
    BY <2>4, CleanupKept
  <2>5. CASE Compact(t)
    BY <2>5, CompactKept
  <2>6. CASE OpenGate(t)
    BY <2>6, OpenGateKept
  <2>7. CASE Relock(t)
    BY <2>7, RelockKept
  <2>8. CASE UnlockMutex(t)
    BY <2>8, CvInvStable DEF UnlockMutex
  <2>9. CASE CloseGate(t)
    BY <2>9, CloseGateKept
  <2>10. CASE PostAll(t)
    BY <2>10, PostAllKept
  <2>11. CASE DestroyChecks(t)
    BY <2>11, DestroyChecksKept
  <2>12. CASE JoinGate(t) \/ LetThrough(t) \/ Withdraw(t)
    BY <2>12, JoinGateKept, LetThroughKept, WithdrawKept
  <2> QED
    BY <1>1, <2>1, <2>2, <2>3, <2>4, <2>5, <2>6, <2>7, <2>8, <2>9, <2>10, <2>11, <2>12 DEF CvStep
<1>2. CASE CvNext
  <2> SUFFICES ASSUME NEW t \in Thread,
                      \/ CvStep(t) \/ CancelAtGate(t) \/ CondWait(t) \/ CondDestroy(t)
                      \/ \E op \in {"timeout", "cancel"} : GiveUp(t, op)
                      \/ \E op \in {"signal", "broadcast"} : Signal(t, op)
               PROVE  CvInv'
    BY <1>2 DEF CvNext
  <2> QED BY <1>1, CancelAtGateKept, CondWaitKept, CondDestroyKept, AwakeKept, SignalKept
<1>3. CASE UNCHANGED cvVars
  BY <1>3, CvInvStable DEF cvVars
<1> QED BY <1>2, <1>3

LEMMA GateIsClosed == CvInv => GateClosed
<1> SUFFICES ASSUME CvInv PROVE GateClosed
  OBVIOUS
<1>1. CvTypes /\ GateCount
  BY DEF CvInv
<1>2. Held <=> \/ cv.toUnblock > 0 \/ At({"open"}) # {} \/ cvDestroyed
               \/ \E t \in Thread : turn[t] = "has"
  BY DEF Held, Keepers, At
<1>3. IsFiniteSet(Queue)
  <2>1. Queue \in SUBSET Thread
    BY DEF Queue
  <2> QED BY <2>1, FS_Subset, ThreadAssumption
<1>4. Cardinality(Queue) \in Nat /\ blockLock.value \in Int
  BY <1>1, <1>3, FS_CardinalityType, GateFields
<1>5. blockLock.value <= 0 /\ blockLock.units = 0 <=> Held
  BY <1>1, <1>4 DEF GateCount, Holders
<1> QED BY <1>2, <1>5 DEF GateClosed

\* No wait, time out, cancellation (also of a thread that waits for the gate), signal,
\* broadcast or destruction, in whatever order their steps come, makes the three counters
\* disagree with the waiters, lets a newcomer through a closed gate, keeps it closed when no
\* thread has it, loses a unit that was promised to a waiter, or frees a condition variable
\* that is still used.
THEOREM WaitersAlwaysCounted == CvSpec => []WaitersCounted
<1>1. CvInv => WaitersCounted
  BY GateIsClosed DEF CvInv, WaitersCounted
<1> QED BY <1>1, CvInvInit, CvInvNext, PTL DEF CvSpec

-----------------------------------------------------------------------------
\* The rest of the types.  nWaitersGone reaches its limit only in the thread that is about
\* to reset it: it has mtxUnblockLock until it has.
CvLimits ==
  /\ mutex \in Thread \cup {Null} /\ cvCalls \in Nat
  /\ cv.gone <= GoneMax /\ (cv.gone = GoneMax => unblockLock # Null)

LEMMA CvLimitsInit == CvInit => CvLimits
BY CondVarAssumption DEF CvInit, CvLimits

LEMMA CvLimitsNext == CvInv /\ CvLimits /\ [CvNext]_cvVars => CvLimits'
<1> SUFFICES ASSUME CvInv, CvLimits, [CvNext]_cvVars PROVE CvLimits'
  OBVIOUS
<1>1. PICK c \in CvRec : c = cv
  BY DEF CvInv, CvTypes
<1>2. /\ cv.gone \in Nat /\ GoneMax \in Nat \ {0} /\ Null \notin Thread /\ c.gone = cv.gone
      /\ cvCalls + 1 \in Nat
  BY <1>1, CondVarAssumption, ThreadAssumption DEF CvRec, CvLimits
<1>3. ASSUME UNCHANGED <<mutex, cvCalls, cv, unblockLock>>
      PROVE  CvLimits'
  BY <1>3 DEF CvLimits
<1>4. ASSUME NEW t \in Thread, CvStep(t)
      PROVE  CvLimits'
  <2>1. CASE Enter(t)
    <3>1. cv' = [c EXCEPT !.blocked = @ + 1] /\ UNCHANGED <<unblockLock, mutex, cvCalls>>
      BY <1>1, <2>1 DEF Enter
    <3>2. cv'.gone = cv.gone
      BY <1>1, <3>1 DEF CvRec
    <3> QED BY <3>1, <3>2 DEF CvLimits
  <2>2. CASE GoToSleep(t) \/ UnlockMutex(t) \/ Relock(t)
    BY <2>2 DEF GoToSleep, UnlockMutex, Relock, CvLimits
  <2>3. CASE Awake(t) \/ OpenGate(t) \/ PostAll(t) \/ DestroyChecks(t) \/ JoinGate(t)
             \/ LetThrough(t)
    BY <1>3, <2>3 DEF Awake, OpenGate, PostAll, DestroyChecks, JoinGate, LetThrough
  <2>7. CASE Withdraw(t)
    BY <2>7 DEF Withdraw, CvLimits
  <2>4. CASE Cleanup(t)
    <3>1. CASE cv.toUnblock # 0
      <4>1. cv' = [c EXCEPT !.toUnblock = @ - 1] /\ UNCHANGED <<unblockLock, mutex, cvCalls>>
        BY <1>1, <2>4, <3>1 DEF Cleanup
      <4>2. cv'.gone = cv.gone
        BY <1>1, <4>1 DEF CvRec
      <4> QED BY <4>1, <4>2 DEF CvLimits
    <3>2. CASE cv.toUnblock = 0
      <4>1. /\ cv' = [c EXCEPT !.gone = c.gone + 1] /\ UNCHANGED <<mutex, cvCalls>>
            /\ unblockLock = Null /\ unblockLock' = IF cv.gone + 1 = GoneMax THEN t ELSE Null
        BY <1>1, <2>4, <3>2 DEF Cleanup
      <4>2. cv'.gone = cv.gone + 1
        BY <1>1, <1>2, <4>1 DEF CvRec
      <4>3. cv.gone < GoneMax
        BY <1>2, <4>1 DEF CvLimits
      <4> QED BY <1>2, <4>1, <4>2, <4>3 DEF CvLimits
    <3> QED BY <3>1, <3>2
  <2>5. CASE Compact(t)
    <3>1. cv' = [c EXCEPT !.blocked = c.blocked - c.gone, !.gone = 0] /\ UNCHANGED <<mutex, cvCalls>>
      BY <1>1, <2>5 DEF Compact
    <3>2. cv'.gone = 0
      BY <3>1 DEF CvRec
    <3> QED BY <1>2, <3>1, <3>2 DEF CvLimits
  <2>6. CASE CloseGate(t)
    <3>1. cv'.gone = 0 /\ UNCHANGED <<mutex, cvCalls>>
      BY <2>6 DEF CloseGate, Issued
    <3> QED BY <1>2, <3>1 DEF CvLimits
  <2> QED BY <1>4, <2>1, <2>2, <2>3, <2>4, <2>5, <2>6, <2>7 DEF CvStep
<1>5. ASSUME NEW t \in Thread, CondWait(t) PROVE CvLimits'
  BY <1>2, <1>5 DEF CondWait, CvCall, CvLimits
<1>6. ASSUME NEW t \in Thread, CondDestroy(t) PROVE CvLimits'
  BY <1>2, <1>6 DEF CondDestroy, CvCall, CvLimits
<1>9. ASSUME NEW t \in Thread, CancelAtGate(t) PROVE CvLimits'
  BY <1>9 DEF CancelAtGate, CvLimits
<1>7. ASSUME NEW t \in Thread, NEW op, GiveUp(t, op) PROVE CvLimits'
  BY <1>3, <1>7 DEF GiveUp
<1>8. ASSUME NEW t \in Thread, NEW op, Signal(t, op) PROVE CvLimits'
  <2>1. cvCalls' = cvCalls + 1 /\ UNCHANGED mutex /\ (unblockLock' = t \/ UNCHANGED unblockLock)
    BY <1>8 DEF Signal, CvCall
  <2>2. cv'.gone = cv.gone
    <3> DEFINE n == ToIssue(op, cv.blocked)
    <3>1. UNCHANGED cv \/ cv' = [c EXCEPT !.toUnblock = @ + n, !.blocked = @ - n]
      BY <1>1, <1>8 DEF Signal, Issued
    <3> HIDE DEF n
    <3> QED BY <1>1, <3>1 DEF CvRec
  <2> QED BY <1>2, <2>1, <2>2 DEF CvLimits
<1> QED BY <1>3, <1>4, <1>5, <1>6, <1>7, <1>8, <1>9 DEF CvNext, cvVars

LEMMA CvTyped == CvInv /\ CvLimits => CvTypeOK
<1> SUFFICES ASSUME CvInv, CvLimits PROVE CvTypeOK
  OBVIOUS
<1>1. PICK c \in CvRec : c = cv
  BY DEF CvInv, CvTypes
<1>2. c.gone \in 0..GoneMax
  BY <1>1, CondVarAssumption DEF CvLimits, CvRec
<1>3. cv \in [blocked : Nat, toUnblock : Nat, gone : 0..GoneMax]
  BY <1>1, <1>2 DEF CvRec
<1> QED BY <1>3 DEF CvInv, CvTypes, CvLimits, CvTypeOK, WaiterRec, CvPc, CvResult, GateRec, GateTurns

=============================================================================
