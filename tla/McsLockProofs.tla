---------------------------- MODULE McsLockProofs ----------------------------
(***************************************************************************)
(* Proofs about McsLock, for any number of threads, locks and              *)
(* acquisitions: one thread at a time holds a lock, no null pointer is     *)
(* dereferenced, and the locks are FIFO locks, if each acquisition has a   *)
(* node of its own, which is left alone afterwards.                        *)
(***************************************************************************)
EXTENDS McsLock, SequenceTheorems, TLAPS

Pc == {"out", "swap", "try", "link", "tell", "signal", "await", "store", "sleep", "held",
       "move", "cas", "reread", "pass"}
Local == [pc : Pc, lock : Lock, round : 0..Rounds, other : Node \cup {Null}, w : Which,
          wake : Thread \cup {Null}, then : {"out", "await"}, node : {"own", "new"}]

Types ==
  /\ lock \in [Lock -> Node \cup {Null}] /\ next \in [Node -> Node \cup {Null}]
  /\ flag \in [Node -> [Which -> {"clear", "set"} \cup Thread]]
  /\ event \subseteq Thread /\ order \in [Lock -> Seq(Thread)]
  /\ th \in [Thread -> Local]

-----------------------------------------------------------------------------
(* The queue *)

\* The thread is in a queue.
Queued(t) ==
  \/ th[t].pc \in {"link", "tell", "await", "store", "sleep", "held", "move", "cas", "reread",
                   "pass"}
  \/ th[t].pc = "signal" /\ th[t].then = "await"

\* It is the first in its queue.
First(t) == Len(order[th[t].lock]) >= 1 /\ order[th[t].lock][1] = t

\* Every thread is in one queue at most, once, and a holder in front.
Queues ==
  /\ \A l \in Lock : \A i, j \in 1..Len(order[l]) : order[l][i] = order[l][j] => i = j
  /\ \A l \in Lock : \A i \in 1..Len(order[l]) :
       Queued(order[l][i]) /\ th[order[l][i]].lock = l
  /\ \A t \in Thread : Queued(t) =>
       \E i \in 1..Len(order[th[t].lock]) : order[th[t].lock][i] = t
  /\ \A t \in Thread : McsHolds(t) => First(t)

\* The lock holds the node of the last in the queue.
LockIsLast ==
  \A l \in Lock : lock[l] = IF Len(order[l]) = 0 THEN Null ELSE MyNode(order[l][Len(order[l])])

\* The nodes form a chain in the order of the queue, with a gap before each thread that has
\* not linked itself.
Chain ==
  /\ \A t \in Thread : th[t].pc = "link" => ~First(t)
  /\ \A l \in Lock : \A i \in 1..Len(order[l]) :
       /\ i = Len(order[l]) => next[MyNode(order[l][i])] = Null
       /\ i < Len(order[l]) =>
            LET p == order[l][i]  s == order[l][i + 1] IN
            /\ th[s].pc = "link" => next[MyNode(p)] = Null /\ th[s].other = MyNode(p)
            /\ th[s].pc # "link" => next[MyNode(p)] = MyNode(s)

-----------------------------------------------------------------------------
(* Nodes that are new, and the nodes threads queue up behind *)

\* The node has been in a queue, or may have been.
Born(n) ==
  \/ n[2] < th[n[1]].round
  \/ n[2] = th[n[1]].round /\ n[3] = "own" /\ th[n[1]].pc \notin {"swap", "try"}
  \/ n[2] = th[n[1]].round /\ n[3] = "new" /\ th[n[1]].node = "new"

NewNodes ==
  /\ \A t \in Thread : th[t].pc \in {"swap", "try"} =>
       /\ th[t].node = "own" /\ next[MyNode(t)] = Null
       /\ flag[MyNode(t)]["next"] = "clear" /\ flag[MyNode(t)]["ready"] = "clear"
  /\ \A t \in Thread : th[t].pc = "move" =>
       th[t].node = "own" /\ flag[NewNode(t)]["next"] = "clear"

\* The thread is between its exchange and the flag it sets to tell its predecessor.
Linking(t) == th[t].pc \in {"link", "tell"}

\* No node gets two successors.
OneSuccessor ==
  /\ \A t \in Thread : Linking(t) => th[t].other \in Node /\ Born(th[t].other)
  /\ \A t, u \in Thread : Linking(t) /\ Linking(u) /\ th[t].other = th[u].other => t = u
  /\ \A t \in Thread, l \in Lock : Linking(t) => th[t].other # lock[l]

-----------------------------------------------------------------------------
(* The flags and the events *)

Wakes(t, u) == th[t].pc = "signal" /\ th[t].wake = u
Asleep(u, w) == th[u].pc = "sleep" /\ th[u].w = w
Told(u) == u \in event \/ \E t \in Thread : Wakes(t, u)

\* A predecessor has not been told yet of a successor that is linking itself.
Untold(n) ==
  \/ flag[n]["next"] = "clear"
  \/ flag[n]["next"] = n[1] /\ Asleep(n[1], "next") /\ n = MyNode(n[1]) /\ ~Told(n[1])

\* The successor is there when its predecessor has been told so.
Successors ==
  /\ \A t \in Thread : Linking(t) => Untold(th[t].other)
  /\ \A t \in Thread : th[t].pc = "tell" => next[th[t].other] # Null
  /\ \A n \in Node : flag[n]["next"] = "set" => next[n] # Null
  /\ \A t \in Thread : McsHolds(t) /\ th[t].pc \in {"await", "store", "sleep", "move"} =>
       lock[th[t].lock] # MyNode(t)
  /\ \A t \in Thread : th[t].pc \in {"reread", "pass"} => next[MyNode(t)] # Null
  /\ \A t \in Thread : th[t].pc = "pass" => th[t].other = next[MyNode(t)]

\* What the flags of the nodes in a queue say.
Flags ==
  /\ \A n \in Node, w \in Which : flag[n][w] \in {"clear", "set", n[1]}
  /\ \A t \in Thread : Queued(t) /\ flag[MyNode(t)]["next"] = t =>
       Asleep(t, "next") \/ th[t].pc \in {"reread", "pass"}
  /\ \A t \in Thread : Queued(t) /\ ~McsHolds(t) /\ flag[MyNode(t)]["ready"] = "set" => First(t)
  /\ \A t \in Thread : Queued(t) /\ ~McsHolds(t) /\ flag[MyNode(t)]["ready"] = t =>
       Asleep(t, "ready")

\* A thread is woken once, when it may go on.
Events ==
  /\ \A t \in Thread : th[t].pc = "store" => t \notin event
  /\ \A t \in Thread : th[t].pc = "signal" => th[t].wake \in Thread /\ th[t].w = "ready"
  /\ \A t, u \in Thread : Wakes(t, u) => th[u].pc = "sleep" /\ u \notin event
  /\ \A t, s, u \in Thread : Wakes(t, u) /\ Wakes(s, u) => t = s
  /\ \A u \in Thread : Asleep(u, "ready") /\ Told(u) => First(u)
  /\ \A u \in Thread : Asleep(u, "next") /\ Told(u) => next[MyNode(u)] # Null

McsInv ==
  /\ Types /\ Queues /\ LockIsLast /\ Chain /\ NewNodes /\ OneSuccessor /\ Successors /\ Flags
  /\ Events /\ crashed = FALSE

-----------------------------------------------------------------------------
(* What a step of one thread leaves of the others *)

LEMMA Others ==
  ASSUME NEW u, th'[u] = th[u]
  PROVE  /\ MyNode(u)' = MyNode(u) /\ NewNode(u)' = NewNode(u)
         /\ Queued(u)' <=> Queued(u)
         /\ McsHolds(u)' <=> McsHolds(u)
         /\ Linking(u)' <=> Linking(u)
         /\ \A w : Asleep(u, w)' <=> Asleep(u, w)
         /\ \A v : Wakes(u, v)' <=> Wakes(u, v)
BY DEF MyNode, NewNode, Round, Queued, McsHolds, Linking, Asleep, Wakes

\* The node of a thread is its own, and nobody else's.
LEMMA Nodes ==
  ASSUME Reuse = FALSE, Types, NEW t \in Thread
  PROVE  /\ MyNode(t) = <<t, th[t].round, th[t].node>> /\ MyNode(t) \in Node
         /\ NewNode(t) = <<t, th[t].round, "new">> /\ NewNode(t) \in Node
         /\ MyNode(t)[1] = t /\ NewNode(t)[1] = t
         /\ MyNode(t) # Null /\ NewNode(t) # Null
<1>1. MyNode(t) = <<t, th[t].round, th[t].node>> /\ NewNode(t) = <<t, th[t].round, "new">>
  BY DEF MyNode, NewNode, Round
<1>2. t \in Thread /\ th[t].round \in 0..Rounds /\ th[t].node \in {"own", "new"}
  BY DEF Types, Local
<1>3. MyNode(t) \in Node /\ NewNode(t) \in Node
  BY <1>1, <1>2 DEF Node
<1> QED BY <1>1, <1>3, NodeAssumption

\* A step that only moves a thread within its call.
LEMMA Moved ==
  ASSUME Types, NEW t \in Thread, NEW pc \in Pc, McsGoto(t, pc)
  PROVE  /\ th' \in [Thread -> Local]
         /\ \A u \in Thread : u # t => th'[u] = th[u]
         /\ th'[t].pc = pc /\ th'[t].lock = th[t].lock /\ th'[t].round = th[t].round
         /\ th'[t].other = th[t].other /\ th'[t].w = th[t].w /\ th'[t].wake = th[t].wake
         /\ th'[t].then = th[t].then /\ th'[t].node = th[t].node
BY DEF Types, Local, McsGoto

\* Setting a flag.
LEMMA SetFlag ==
  ASSUME Types, NEW t \in Thread, NEW n \in Node, NEW w \in Which,
         NEW pc \in {"out", "await"}, FlagSet(t, n, w, pc)
  PROVE  /\ th' \in [Thread -> Local]
         /\ \A u \in Thread : u # t => th'[u] = th[u]
         /\ th'[t].lock = th[t].lock /\ th'[t].round = th[t].round /\ th'[t].node = th[t].node
         /\ th'[t].then = pc /\ th'[t].w = "ready" /\ th'[t].other = Null
         /\ flag[n][w] \in Thread => th'[t].pc = "signal" /\ th'[t].wake = flag[n][w]
         /\ flag[n][w] \notin Thread => th'[t].pc = pc /\ th'[t].wake = Null
         /\ flag' \in [Node -> [Which -> {"clear", "set"} \cup Thread]]
         /\ flag'[n][w] = IF flag[n][w] = "clear" THEN "set" ELSE flag[n][w]
         /\ \A m \in Node, v \in Which : m # n \/ v # w => flag'[m][v] = flag[m][v]
<1>1. /\ th' \in [Thread -> Local]
      /\ \A u \in Thread : u # t => th'[u] = th[u]
      /\ th'[t].lock = th[t].lock /\ th'[t].round = th[t].round /\ th'[t].node = th[t].node
      /\ th'[t].then = pc /\ th'[t].w = "ready" /\ th'[t].other = Null
      /\ flag[n][w] \in Thread => th'[t].pc = "signal" /\ th'[t].wake = flag[n][w]
      /\ flag[n][w] \notin Thread => th'[t].pc = pc /\ th'[t].wake = Null
  <2> DEFINE told == flag[n][w] \in Thread
             pc2 == IF told THEN "signal" ELSE pc
             wake2 == IF told THEN flag[n][w] ELSE Null
  <2>1. pc2 \in Pc /\ wake2 \in Thread \cup {Null}
    BY DEF Pc
  <2>2. th' = [th EXCEPT ![t] = [th[t] EXCEPT !.pc = pc2, !.wake = wake2, !.then = pc,
                                              !.w = "ready", !.other = Null]]
    BY DEF FlagSet
  <2>3. /\ told => pc2 = "signal" /\ wake2 = flag[n][w]
        /\ ~told => pc2 = pc /\ wake2 = Null
    OBVIOUS
  <2> HIDE DEF pc2, wake2
  <2>4. /\ th' \in [Thread -> Local]
        /\ \A u \in Thread : u # t => th'[u] = th[u]
        /\ th'[t].lock = th[t].lock /\ th'[t].round = th[t].round
        /\ th'[t].node = th[t].node
        /\ th'[t].then = pc /\ th'[t].w = "ready" /\ th'[t].other = Null
        /\ th'[t].pc = pc2 /\ th'[t].wake = wake2
    BY <2>1, <2>2 DEF Types, Local, Which
  <2> QED BY <2>3, <2>4
<1>2. /\ flag' \in [Node -> [Which -> {"clear", "set"} \cup Thread]]
      /\ flag'[n][w] = IF flag[n][w] = "clear" THEN "set" ELSE flag[n][w]
      /\ \A m \in Node, v \in Which : m # n \/ v # w => flag'[m][v] = flag[m][v]
  BY DEF Types, FlagSet, Which
<1> QED BY <1>1, <1>2

LEMMA McsInvInit == McsInit => McsInv
<1> SUFFICES ASSUME McsInit PROVE McsInv
  OBVIOUS
<1>1. Types
  <2>1. th \in [Thread -> Local]
    <3>1. (CHOOSE l \in Lock : TRUE) \in Lock
      BY NodeAssumption
    <3>2. 0 \in 0..Rounds
      BY RoundsAssumption
    <3> QED BY <3>1, <3>2 DEF McsInit, Local, Pc, Which
  <2> QED BY <2>1 DEF McsInit, Types
<1>2. \A t \in Thread : th[t].pc = "out" /\ ~Queued(t) /\ ~McsHolds(t) /\ ~Linking(t)
  BY DEF McsInit, Queued, McsHolds, Linking
<1>3. \A l \in Lock : order[l] = <<>> /\ lock[l] = Null
  BY DEF McsInit
<1>4. Queues /\ LockIsLast /\ Chain
  BY <1>2, <1>3 DEF Queues, LockIsLast, Chain
<1>5. NewNodes /\ OneSuccessor
  BY <1>2 DEF NewNodes, OneSuccessor
<1>6. \A n \in Node, w \in Which : flag[n][w] = "clear"
  BY DEF McsInit
<1>7. Successors
  BY <1>2, <1>6 DEF Successors, Which
<1>8. Flags
  BY <1>2, <1>6 DEF Flags, Which
<1>9. Events
  BY <1>2 DEF Events, Wakes, Asleep
<1>10. crashed = FALSE
  BY DEF McsInit
<1> QED BY <1>1, <1>4, <1>5, <1>7, <1>8, <1>9, <1>10 DEF McsInv

-----------------------------------------------------------------------------
(* What follows from little for the parts of the invariant *)

\* The elements of the queues.
LEMMA InQueue ==
  ASSUME McsInv
  PROVE  /\ \A l \in Lock : order[l] \in Seq(Thread) /\ Len(order[l]) \in Nat
         /\ \A l \in Lock : \A i \in 1..Len(order[l]) :
              /\ order[l][i] \in Thread /\ Queued(order[l][i]) /\ th[order[l][i]].lock = l
         /\ \A u \in Thread : McsHolds(u) => Queued(u)
<1>1. \A l \in Lock : order[l] \in Seq(Thread) /\ Len(order[l]) \in Nat
  BY DEF McsInv, Types
<1>2. \A l \in Lock : \A i \in 1..Len(order[l]) : order[l][i] \in Thread
  BY <1>1, ElementOfSeq
<1>3. \A l \in Lock : \A i \in 1..Len(order[l]) :
        Queued(order[l][i]) /\ th[order[l][i]].lock = l
  BY DEF McsInv, Queues
<1>4. \A u \in Thread : McsHolds(u) => Queued(u)
  BY DEF McsHolds, Queued
<1> QED BY <1>1, <1>2, <1>3, <1>4

\* Two threads that follow each other in a queue.
Follows(p, s) ==
  /\ th[s].pc = "link" => next[MyNode(p)] = Null /\ th[s].other = MyNode(p)
  /\ th[s].pc # "link" => next[MyNode(p)] = MyNode(s)

LEMMA InChain ==
  ASSUME McsInv, NEW l \in Lock, NEW i \in 1..Len(order[l]), NEW p, order[l][i] = p
  PROVE  /\ p \in Thread /\ Queued(p) /\ th[p].lock = l
         /\ \A j \in 1..Len(order[l]) : order[l][j] = p => i = j
         /\ i = Len(order[l]) => next[MyNode(p)] = Null /\ lock[l] = MyNode(p)
         /\ i < Len(order[l]) =>
              /\ i + 1 \in 1..Len(order[l]) /\ order[l][i + 1] \in Thread
              /\ Queued(order[l][i + 1]) /\ th[order[l][i + 1]].lock = l
              /\ \A s : s = order[l][i + 1] => Follows(p, s)
<1>1. p \in Thread /\ Queued(p) /\ th[p].lock = l
  BY InQueue
<1>2. \A j \in 1..Len(order[l]) : order[l][j] = p => i = j
  BY DEF McsInv, Queues
<1>3. i = Len(order[l]) => next[MyNode(p)] = Null /\ lock[l] = MyNode(p)
  BY DEF McsInv, Chain, LockIsLast
<1>4. i < Len(order[l]) =>
        /\ i + 1 \in 1..Len(order[l]) /\ order[l][i + 1] \in Thread
        /\ Queued(order[l][i + 1]) /\ th[order[l][i + 1]].lock = l
  BY InQueue
<1>5. i < Len(order[l]) => \A s : s = order[l][i + 1] => Follows(p, s)
  BY DEF McsInv, Chain, Follows
<1> QED BY <1>1, <1>2, <1>3, <1>4, <1>5

LEMMA ChainAfter ==
  ASSUME Types',
         \A u \in Thread : th'[u].pc = "link" => ~First(u)',
         \A l \in Lock : \A i \in 1..Len(order'[l]) : \A p, s \in Thread : order'[l][i] = p =>
           /\ i = Len(order'[l]) => next'[MyNode(p)'] = Null
           /\ i < Len(order'[l]) /\ order'[l][i + 1] = s => Follows(p, s)'
  PROVE  Chain'
<1>1. \A l \in Lock : order'[l] \in Seq(Thread) /\ Len(order'[l]) \in Nat
  BY DEF Types
<1>2. \A l \in Lock : \A i \in 1..Len(order'[l]) : order'[l][i] \in Thread
  BY <1>1, ElementOfSeq
<1>3. \A l \in Lock : \A i \in 1..Len(order'[l]) :
        i < Len(order'[l]) => i + 1 \in 1..Len(order'[l])
  BY <1>1
<1> QED BY <1>2, <1>3 DEF Chain, Follows

LEMMA LastAfter ==
  ASSUME Types',
         \A l \in Lock : Len(order'[l]) = 0 => lock'[l] = Null,
         \A l \in Lock : \A i \in 1..Len(order'[l]) : \A p \in Thread :
           i = Len(order'[l]) /\ order'[l][i] = p => lock'[l] = MyNode(p)'
  PROVE  LockIsLast'
<1>1. \A l \in Lock : order'[l] \in Seq(Thread) /\ Len(order'[l]) \in Nat
  BY DEF Types
<1>2. \A l \in Lock : Len(order'[l]) # 0 =>
        /\ Len(order'[l]) \in 1..Len(order'[l])
        /\ order'[l][Len(order'[l])] \in Thread
  BY <1>1, ElementOfSeq
<1> QED BY <1>2 DEF LockIsLast

\* The queues stay as they are.
LEMMA SameQueues ==
  ASSUME McsInv, order' = order,
         \A u \in Thread : Queued(u)' <=> Queued(u),
         \A u \in Thread : Queued(u) => th'[u].lock = th[u].lock,
         \A u \in Thread : McsHolds(u)' => McsHolds(u) \/ First(u)
  PROVE  Queues'
<1>1. \A u \in Thread : McsHolds(u)' => First(u)'
  <2>1. \A u \in Thread : McsHolds(u)' => Queued(u)'
    BY DEF McsHolds, Queued
  <2> QED BY <2>1 DEF McsInv, Queues, First
<1>2. \A l \in Lock : \A i \in 1..Len(order[l]) :
        Queued(order[l][i])' /\ th'[order[l][i]].lock = l
  BY InQueue
<1>3. \A t \in Thread : Queued(t)' =>
        \E i \in 1..Len(order[th'[t].lock]) : order[th'[t].lock][i] = t
  BY DEF McsInv, Queues
<1>4. \A l \in Lock : \A i, j \in 1..Len(order[l]) : order[l][i] = order[l][j] => i = j
  BY DEF McsInv, Queues
<1> QED BY <1>1, <1>2, <1>3, <1>4 DEF Queues

\* So do the locks and the chains.
LEMMA QueuesKept ==
  ASSUME McsInv, order' = order, lock' = lock,
         \A u \in Thread : Queued(u)' <=> Queued(u),
         \A u \in Thread : Queued(u) =>
           /\ MyNode(u)' = MyNode(u) /\ th'[u].lock = th[u].lock
           /\ next'[MyNode(u)] = next[MyNode(u)]
           /\ th'[u].pc = "link" <=> th[u].pc = "link"
           /\ th[u].pc = "link" => th'[u].other = th[u].other,
         \A u \in Thread : McsHolds(u)' => McsHolds(u) \/ First(u)
  PROVE  Queues' /\ LockIsLast' /\ Chain'
<1>1. Queues'
  BY SameQueues
<1>2. LockIsLast'
  <2>1. \A l \in Lock : Len(order[l]) # 0 => Len(order[l]) \in 1..Len(order[l])
    BY InQueue
  <2>2. \A l \in Lock : Len(order[l]) # 0 =>
          MyNode(order[l][Len(order[l])])' = MyNode(order[l][Len(order[l])])
    BY InQueue, <2>1
  <2> QED BY <2>2 DEF McsInv, LockIsLast
<1>3. \A u \in Thread : th'[u].pc = "link" => ~First(u)'
  <2> SUFFICES ASSUME NEW u \in Thread, th'[u].pc = "link" PROVE ~First(u)'
    OBVIOUS
  <2>1. Queued(u)
    <3>1. Queued(u)'
      BY DEF Queued
    <3> QED BY <3>1
  <2>2. th[u].pc = "link" /\ th'[u].lock = th[u].lock
    BY <2>1
  <2>3. ~First(u)
    BY <2>2 DEF McsInv, Chain
  <2> QED BY <2>2, <2>3 DEF First
<1>4. Chain'
  <2> SUFFICES ASSUME NEW l \in Lock, NEW i \in 1..Len(order[l])
               PROVE /\ i = Len(order[l]) => next'[MyNode(order[l][i])'] = Null
                     /\ i < Len(order[l]) =>
                          LET p == order[l][i]  s == order[l][i + 1] IN
                          /\ th'[s].pc = "link" =>
                               next'[MyNode(p)'] = Null /\ th'[s].other = MyNode(p)'
                          /\ th'[s].pc # "link" => next'[MyNode(p)'] = MyNode(s)'
    BY <1>3 DEF Chain
  <2> DEFINE p == order[l][i]
             s == order[l][i + 1]
  <2>1. p \in Thread /\ Queued(p)
    BY InQueue
  <2>2. i < Len(order[l]) => i + 1 \in 1..Len(order[l])
    BY InQueue
  <2>3. i < Len(order[l]) => s \in Thread /\ Queued(s)
    BY InQueue, <2>2
  <2>4. /\ i = Len(order[l]) => next[MyNode(p)] = Null
        /\ i < Len(order[l]) =>
             /\ th[s].pc = "link" => next[MyNode(p)] = Null /\ th[s].other = MyNode(p)
             /\ th[s].pc # "link" => next[MyNode(p)] = MyNode(s)
    BY DEF McsInv, Chain
  <2>5. MyNode(p)' = MyNode(p) /\ next'[MyNode(p)] = next[MyNode(p)]
    BY <2>1
  <2>6. i < Len(order[l]) =>
          /\ MyNode(s)' = MyNode(s)
          /\ th'[s].pc = "link" <=> th[s].pc = "link"
          /\ th[s].pc = "link" => th'[s].other = th[s].other
    BY <2>3
  <2> QED BY <2>4, <2>5, <2>6
<1> QED BY <1>1, <1>2, <1>4

\* A node that was in a queue is not new again.
LEMMA BornKept ==
  ASSUME NEW n \in Node, Born(n),
         th'[n[1]].round = th[n[1]].round,
         th[n[1]].node = "new" => th'[n[1]].node = "new",
         th[n[1]].pc \notin {"swap", "try"} => th'[n[1]].pc \notin {"swap", "try"}
  PROVE  Born(n)'
BY DEF Born

\* Which nodes are new.
LEMMA Fresh ==
  ASSUME Reuse = FALSE, McsInv, NEW t \in Thread
  PROVE  /\ th[t].pc \in {"swap", "try"} => ~Born(MyNode(t))
         /\ th[t].node = "own" => ~Born(NewNode(t))
         /\ Queued(t) => Born(MyNode(t))
<1>1. /\ MyNode(t) = <<t, th[t].round, th[t].node>> /\ NewNode(t) = <<t, th[t].round, "new">>
      /\ th[t].round \in Nat /\ th[t].node \in {"own", "new"}
  <2>1. Types
    BY DEF McsInv
  <2>2. th[t].round \in 0..Rounds /\ th[t].node \in {"own", "new"}
    BY <2>1 DEF Types, Local
  <2>3. MyNode(t) = <<t, th[t].round, th[t].node>> /\ NewNode(t) = <<t, th[t].round, "new">>
    BY <2>1, Nodes
  <2>4. \A k \in 0..Rounds : k \in Nat
    BY RoundsAssumption
  <2> QED BY <2>2, <2>3, <2>4
<1>2. ~ (th[t].round < th[t].round)
  BY <1>1
<1>3. th[t].pc \in {"swap", "try"} => th[t].node = "own"
  BY DEF McsInv, NewNodes
<1>4. Queued(t) => th[t].pc \notin {"swap", "try"}
  BY DEF Queued
<1> QED BY <1>1, <1>2, <1>3, <1>4 DEF Born

\* No thread starts to queue up behind another one.
LEMMA SuccessorsKept ==
  ASSUME McsInv, lock' = lock,
         \A u \in Thread : Linking(u)' => Linking(u) /\ th'[u].other = th[u].other,
         \A n \in Node : Born(n) => Born(n)'
  PROVE  OneSuccessor'
BY DEF McsInv, OneSuccessor

\* No node is initialised, and those that were are left alone.
LEMMA NewNodesKept ==
  ASSUME McsInv,
         \A u \in Thread : th'[u].pc \in {"swap", "try"} =>
           /\ th[u].pc \in {"swap", "try"} /\ th'[u] = th[u]
           /\ MyNode(u)' = MyNode(u) /\ next'[MyNode(u)] = next[MyNode(u)]
           /\ flag'[MyNode(u)]["next"] = flag[MyNode(u)]["next"]
           /\ flag'[MyNode(u)]["ready"] = flag[MyNode(u)]["ready"],
         \A u \in Thread : th'[u].pc = "move" =>
           /\ th[u].pc = "move" /\ th'[u] = th[u] /\ NewNode(u)' = NewNode(u)
           /\ flag'[NewNode(u)]["next"] = flag[NewNode(u)]["next"]
  PROVE  NewNodes'
<1>1. \A u \in Thread : th'[u].pc \in {"swap", "try"} =>
        /\ th'[u].node = "own" /\ next'[MyNode(u)'] = Null
        /\ flag'[MyNode(u)']["next"] = "clear" /\ flag'[MyNode(u)']["ready"] = "clear"
  BY DEF McsInv, NewNodes
<1>2. \A u \in Thread : th'[u].pc = "move" =>
        th'[u].node = "own" /\ flag'[NewNode(u)']["next"] = "clear"
  BY DEF McsInv, NewNodes
<1> QED BY <1>1, <1>2 DEF NewNodes

\* Nobody is woken, or falls asleep told.
LEMMA EventsKept ==
  ASSUME McsInv,
         \A u \in Thread : th'[u].pc = "store" => u \notin event',
         \A u \in Thread : th'[u].pc = "signal" => th[u].pc = "signal" /\ th'[u] = th[u],
         \A u, v \in Thread : Wakes(u, v)' => Wakes(u, v),
         \A u \in Thread : th[u].pc = "sleep" /\ u \notin event =>
           th'[u].pc = "sleep" /\ u \notin event',
         \A u \in Thread, w \in Which : Asleep(u, w)' /\ Told(u)' =>
           /\ Asleep(u, w) /\ Told(u) /\ (First(u) => First(u)')
           /\ next[MyNode(u)] # Null => next'[MyNode(u)'] # Null
  PROVE  Events'
<1>1. \A u \in Thread : th'[u].pc = "signal" => th'[u].wake \in Thread /\ th'[u].w = "ready"
  BY DEF McsInv, Events
<1>2. \A u, v \in Thread : Wakes(u, v)' => th'[v].pc = "sleep" /\ v \notin event'
  BY DEF McsInv, Events
<1>3. \A u, s, v \in Thread : Wakes(u, v)' /\ Wakes(s, v)' => u = s
  BY DEF McsInv, Events
<1>4. /\ \A u \in Thread : Asleep(u, "ready")' /\ Told(u)' => First(u)'
      /\ \A u \in Thread : Asleep(u, "next")' /\ Told(u)' => next'[MyNode(u)'] # Null
  BY DEF McsInv, Events, Which
<1> QED BY <1>1, <1>2, <1>3, <1>4 DEF Events

-----------------------------------------------------------------------------
(* The steps that leave the locks, the nodes and the queues as they are *)

\* A thread moves on within its call, or leaves it.
LEMMA InCallKept ==
  ASSUME Reuse = FALSE, McsInv, NEW t \in Thread, Types', Events',
         UNCHANGED <<lock, next, flag, order, crashed>>,
         \A u \in Thread : u # t => th'[u] = th[u],
         th'[t].lock = th[t].lock, th'[t].round = th[t].round, th'[t].node = th[t].node,
         th[t].pc # "link", th'[t].pc \notin {"swap", "try", "link", "tell", "move"},
         Queued(t)' <=> Queued(t),
         McsHolds(t)' => McsHolds(t) \/ First(t),
         McsHolds(t) => McsHolds(t)',
         McsHolds(t)' /\ th'[t].pc \in {"await", "store", "sleep"} =>
           lock[th[t].lock] # MyNode(t),
         th'[t].pc \in {"reread", "pass"} => next[MyNode(t)] # Null,
         th'[t].pc = "pass" => th'[t].other = next[MyNode(t)],
         th[t].pc \in {"reread", "pass"} => th'[t].pc \in {"reread", "pass"},
         Asleep(t, "next") =>
           Asleep(t, "next")' \/ (Told(t) /\ th'[t].pc \in {"reread", "pass"}),
         Asleep(t, "ready") => Asleep(t, "ready")' \/ McsHolds(t)',
         \A u \in Thread : Told(u)' => Told(u)
  PROVE  McsInv'
<1>1. \A u \in Thread : u # t =>
         /\ MyNode(u)' = MyNode(u) /\ NewNode(u)' = NewNode(u)
         /\ Queued(u)' <=> Queued(u)
         /\ McsHolds(u)' <=> McsHolds(u)
         /\ Linking(u)' <=> Linking(u)
         /\ \A w : Asleep(u, w)' <=> Asleep(u, w)
  BY Others
<1>2. MyNode(t)' = MyNode(t) /\ ~Linking(t)'
  BY DEF MyNode, Round, Linking
<1>3. Queues' /\ LockIsLast' /\ Chain'
  <2>1. \A u \in Thread : McsHolds(u)' => McsHolds(u) \/ First(u)
    BY <1>1
  <2>2. \A u \in Thread : Queued(u)' <=> Queued(u)
    BY <1>1
  <2>3. \A u \in Thread :
           /\ MyNode(u)' = MyNode(u) /\ th'[u].lock = th[u].lock
           /\ next'[MyNode(u)] = next[MyNode(u)]
           /\ th'[u].pc = "link" <=> th[u].pc = "link"
           /\ th[u].pc = "link" => th'[u].other = th[u].other
    BY <1>1, <1>2
  <2> QED BY <2>1, <2>2, <2>3, QueuesKept
<1>4. NewNodes'
  BY <1>1 DEF McsInv, NewNodes
<1>5. OneSuccessor'
  <2>1. \A n \in Node : Born(n) => Born(n)'
    BY DEF Born, Node
  <2> QED BY <1>1, <1>2, <2>1, SuccessorsKept
<1>6. Successors'
  <2>1. \A n \in Node : Untold(n) => Untold(n)'
    BY <1>1, <1>2 DEF Untold, Node
  <2>2. \A u \in Thread : Linking(u) => th[u].other \in Node /\ Untold(th[u].other)
    BY DEF McsInv, Successors, OneSuccessor
  <2>3. \A u \in Thread : Linking(u)' => Untold(th[u].other)'
    <3> SUFFICES ASSUME NEW u \in Thread, Linking(u)' PROVE Untold(th[u].other)'
      OBVIOUS
    <3>1. th'[u] = th[u] /\ Linking(u)
      BY <1>1, <1>2
    <3>2. Untold(th[u].other)
      BY <2>2, <3>1
    <3> QED BY <2>1, <2>2, <3>1, <3>2
  <2>4. \A u \in Thread : th'[u].pc = "tell" => next'[th'[u].other] # Null
    BY DEF McsInv, Successors
  <2>5. \A n \in Node : flag'[n]["next"] = "set" => next'[n] # Null
    BY DEF McsInv, Successors
  <2>6. \A u \in Thread : McsHolds(u)' /\ th'[u].pc \in {"await", "store", "sleep", "move"} =>
           lock'[th'[u].lock] # MyNode(u)'
    BY <1>1, <1>2 DEF McsInv, Successors
  <2>7. \A u \in Thread : th'[u].pc \in {"reread", "pass"} => next'[MyNode(u)'] # Null
    BY <1>1, <1>2 DEF McsInv, Successors
  <2>8. \A u \in Thread : th'[u].pc = "pass" => th'[u].other = next'[MyNode(u)']
    BY <1>1, <1>2 DEF McsInv, Successors
  <2> QED BY <2>3, <2>4, <2>5, <2>6, <2>7, <2>8 DEF Successors
<1>7. Flags'
  <2>1. \A n \in Node, w \in Which : flag'[n][w] \in {"clear", "set", n[1]}
    BY DEF McsInv, Flags
  <2>2. \A u \in Thread : Queued(u)' /\ flag'[MyNode(u)']["next"] = u =>
           Asleep(u, "next")' \/ th'[u].pc \in {"reread", "pass"}
    BY <1>1, <1>2 DEF McsInv, Flags
  <2>3. \A u \in Thread : Queued(u)' /\ ~McsHolds(u)' =>
           Queued(u) /\ ~McsHolds(u) /\ (First(u)' <=> First(u)) /\ MyNode(u)' = MyNode(u)
    <3>1. \A u \in Thread : First(u)' <=> First(u)
      BY DEF First
    <3> QED BY <1>1, <1>2, <3>1
  <2>4. \A u \in Thread :
           Queued(u)' /\ ~McsHolds(u)' /\ flag'[MyNode(u)']["ready"] = "set" => First(u)'
    BY <2>3 DEF McsInv, Flags
  <2>5. \A u \in Thread :
           Queued(u)' /\ ~McsHolds(u)' /\ flag'[MyNode(u)']["ready"] = u => Asleep(u, "ready")'
    BY <1>1, <2>3 DEF McsInv, Flags
  <2> QED BY <2>1, <2>2, <2>4, <2>5 DEF Flags
<1> QED BY <1>3, <1>4, <1>5, <1>6, <1>7 DEF McsInv

\* A look at a flag of the thread's own node: it goes on if the flag has been set, and makes
\* an event if not.
LEMMA LookKept ==
  ASSUME Reuse = FALSE, McsInv, NEW t \in Thread, NEW pc, McsGoto(t, pc),
         UNCHANGED <<lock, next, flag, order, crashed>>,
         event' \subseteq event, \A u \in Thread : u # t => (u \in event' <=> u \in event),
         \/ pc = "store" /\ th[t].pc = "await" /\ t \notin event'
         \/ /\ pc = McsAfterWait(th[t].w) /\ th[t].pc \in {"await", "store"}
            /\ flag[MyNode(t)][th[t].w] # "clear"
  PROVE  McsInv'
<1>1. th[t].pc \in {"await", "store"} /\ Types
  BY DEF McsInv
<1>2. th[t].w \in Which /\ MyNode(t) \in Node
  BY <1>1, Nodes DEF Types, Local
<1>3. /\ pc \in Pc
      /\ \/ pc = "store"
         \/ pc = "held" /\ th[t].w = "ready" /\ flag[MyNode(t)]["ready"] # "clear"
         \/ pc = "reread" /\ th[t].w = "next" /\ flag[MyNode(t)]["next"] # "clear"
  BY <1>2 DEF McsAfterWait, Which, Pc
<1>4. /\ th' \in [Thread -> Local]
      /\ \A u \in Thread : u # t => th'[u] = th[u]
      /\ th'[t].pc = pc /\ th'[t].lock = th[t].lock /\ th'[t].round = th[t].round
      /\ th'[t].other = th[t].other /\ th'[t].w = th[t].w /\ th'[t].wake = th[t].wake
      /\ th'[t].then = th[t].then /\ th'[t].node = th[t].node
  BY <1>1, <1>3, Moved
<1>5. Types'
  BY <1>1, <1>4 DEF Types
<1>6. /\ Queued(t) /\ Queued(t)' /\ ~Asleep(t, "next") /\ ~Asleep(t, "ready")
      /\ McsHolds(t) <=> th[t].w = "next"
      /\ McsHolds(t)' => pc = "held" \/ th[t].w = "next"
      /\ McsHolds(t) => McsHolds(t)'
  BY <1>1, <1>2, <1>3, <1>4 DEF Queued, McsHolds, Asleep, Which
<1>7. /\ pc = "held" => First(t)
      /\ pc = "reread" => next[MyNode(t)] # Null
  <2>1. /\ flag[MyNode(t)]["next"] \in {"clear", "set", t}
        /\ flag[MyNode(t)]["ready"] \in {"clear", "set", t}
    BY <1>1, <1>2, Nodes DEF McsInv, Flags, Which
  <2> QED BY <1>1, <1>2, <1>3, <1>6, <2>1 DEF McsInv, Flags, Successors
<1>8. \A u, v \in Thread : Wakes(u, v)' <=> Wakes(u, v)
  BY <1>1, <1>3, <1>4 DEF Wakes
<1>9. \A u \in Thread : Told(u)' => Told(u)
  BY <1>1, <1>8 DEF Told
<1>10. Events'
  <2>1. \A u \in Thread, w \in Which : Asleep(u, w)' <=> Asleep(u, w)
    <3>1. \A w \in Which : ~Asleep(t, w) /\ ~Asleep(t, w)'
      BY <1>1, <1>3, <1>4 DEF Asleep
    <3> QED BY <1>4, <3>1 DEF Asleep
  <2>2. \A u \in Thread : MyNode(u)' = MyNode(u) /\ (First(u)' <=> First(u))
    BY <1>1, <1>4 DEF MyNode, Round, First
  <2>3. \A u \in Thread : th'[u].pc = "store" => u \notin event'
    <3>1. pc = "store" => t \notin event'
      BY <1>2 DEF McsAfterWait
    <3>2. \A u \in Thread : u # t /\ th'[u].pc = "store" => u \notin event
      BY <1>4 DEF McsInv, Events
    <3> QED BY <1>4, <3>1, <3>2
  <2>4. \A u \in Thread : th[u].pc = "sleep" \/ th'[u].pc = "signal" => u # t
    BY <1>1, <1>3, <1>4
  <2> QED BY <1>4, <1>8, <1>9, <2>1, <2>2, <2>3, <2>4, EventsKept
<1>11. McsHolds(t)' /\ pc = "store" => lock[th[t].lock] # MyNode(t)
  BY <1>1, <1>6 DEF McsInv, Successors
<1> QED BY <1>1, <1>3, <1>4, <1>5, <1>6, <1>7, <1>9, <1>10, <1>11, InCallKept

\* ptw32_mcs_flag_wait reads the flag.
LEMMA AwaitKept ==
  ASSUME Reuse = FALSE, McsInv, NEW t \in Thread, Await(t)
  PROVE  McsInv'
<1>1. CASE flag[MyNode(t)][th[t].w] = "clear"
  BY <1>1, LookKept DEF Await
<1>2. CASE flag[MyNode(t)][th[t].w] # "clear"
  BY <1>2, LookKept DEF Await
<1> QED BY <1>1, <1>2

\* Its wait for an event ends.
LEMMA SleepKept ==
  ASSUME Reuse = FALSE, McsInv, NEW t \in Thread, Sleep(t)
  PROVE  McsInv'
<1> DEFINE pc == McsAfterWait(th[t].w)
<1>1. /\ th[t].pc = "sleep" /\ t \in event /\ Types /\ pc \in Pc /\ McsGoto(t, pc)
      /\ UNCHANGED <<lock, next, flag, order, crashed>> /\ event' = event \ {t}
  BY DEF McsInv, Sleep, McsAfterWait, Pc
<1>2. /\ th[t].w \in Which
      /\ \/ pc = "held" /\ th[t].w = "ready"
         \/ pc = "reread" /\ th[t].w = "next"
  <2>1. th[t].w \in Which
    BY <1>1 DEF Types, Local
  <2> QED BY <2>1 DEF McsAfterWait, Which
<1> HIDE DEF pc
<1>3. /\ th' \in [Thread -> Local]
      /\ \A u \in Thread : u # t => th'[u] = th[u]
      /\ th'[t].pc = pc /\ th'[t].lock = th[t].lock /\ th'[t].round = th[t].round
      /\ th'[t].other = th[t].other /\ th'[t].w = th[t].w /\ th'[t].wake = th[t].wake
      /\ th'[t].then = th[t].then /\ th'[t].node = th[t].node
  BY <1>1, Moved
<1>4. Types'
  BY <1>1, <1>3 DEF Types
<1>5. /\ Queued(t) /\ Queued(t)' /\ Told(t) /\ Asleep(t, th[t].w)
      /\ (McsHolds(t) <=> th[t].w = "next")
      /\ (McsHolds(t)' <=> pc \in {"held", "reread"})
  BY <1>1, <1>2, <1>3 DEF Queued, McsHolds, Asleep, Told, Which
<1>6. /\ pc = "held" => First(t)
      /\ pc = "reread" => next[MyNode(t)] # Null
  BY <1>2, <1>5 DEF McsInv, Events
<1>7. \A u, v \in Thread : Wakes(u, v)' <=> Wakes(u, v)
  BY <1>1, <1>2, <1>3 DEF Wakes
<1>8. \A u \in Thread : Told(u)' => Told(u)
  BY <1>1, <1>7 DEF Told
<1>9. Events'
  <2>1. \A u \in Thread : u # t => \A w : Asleep(u, w)' <=> Asleep(u, w)
    BY <1>3 DEF Asleep
  <2>2. \A u \in Thread : MyNode(u)' = MyNode(u) /\ (First(u)' <=> First(u))
    BY <1>1, <1>3 DEF MyNode, Round, First
  <2>3. \A w : ~Asleep(t, w)'
    BY <1>2, <1>3 DEF Asleep
  <2>4. \A u \in Thread : ~Wakes(u, t)
    BY <1>1 DEF McsInv, Events
  <2> QED BY <1>1, <1>2, <1>3, <1>7, <1>8, <2>1, <2>2, <2>3, <2>4 DEF McsInv, Events
<1>10. \A w : Asleep(t, w) => w = th[t].w
  BY DEF Asleep
<1> QED BY <1>1, <1>2, <1>3, <1>4, <1>5, <1>6, <1>8, <1>9, <1>10, InCallKept

\* SetEvent.
LEMMA SignalKept ==
  ASSUME Reuse = FALSE, McsInv, NEW t \in Thread, Signal(t)
  PROVE  McsInv'
<1> DEFINE v == th[t].wake
<1>1. /\ th[t].pc = "signal" /\ Types
      /\ th' = [th EXCEPT ![t].pc = th[t].then, ![t].wake = Null]
      /\ UNCHANGED <<lock, next, flag, order, crashed>> /\ event' = event \cup {v}
  BY DEF McsInv, Signal
<1>2. v \in Thread /\ th[t].w = "ready" /\ th[t].then \in {"out", "await"}
  BY <1>1 DEF McsInv, Events, Types, Local
<1>3. /\ th' \in [Thread -> Local]
      /\ \A u \in Thread : u # t => th'[u] = th[u]
      /\ th'[t].pc = th[t].then /\ th'[t].lock = th[t].lock /\ th'[t].round = th[t].round
      /\ th'[t].other = th[t].other /\ th'[t].w = th[t].w /\ th'[t].wake = Null
      /\ th'[t].node = th[t].node
  BY <1>1, <1>2, ZenonT(60) DEF Types, Local, Pc
<1>4. Types'
  BY <1>1, <1>2, <1>3 DEF Types
<1>5. /\ Queued(t)' <=> Queued(t)
      /\ ~McsHolds(t) /\ ~McsHolds(t)' /\ \A w : ~Asleep(t, w) /\ ~Asleep(t, w)'
  BY <1>1, <1>2, <1>3 DEF Queued, McsHolds, Asleep
<1>6. /\ Wakes(t, v) /\ \A u \in Thread : ~Wakes(t, u)'
      /\ \A u, s \in Thread : u # t => (Wakes(u, s)' <=> Wakes(u, s))
  BY <1>1, <1>2, <1>3 DEF Wakes
<1>7. \A u \in Thread : Told(u)' => Told(u)
  BY <1>1, <1>6 DEF Told
<1>8. Events'
  <2>1. \A u \in Thread : \A w : Asleep(u, w)' <=> Asleep(u, w)
    BY <1>3, <1>5 DEF Asleep
  <2>2. \A u \in Thread : MyNode(u)' = MyNode(u) /\ (First(u)' <=> First(u))
    BY <1>1, <1>3 DEF MyNode, Round, First
  <2>3. th[v].pc = "sleep" /\ v \notin event /\ \A u \in Thread : u # t => ~Wakes(u, v)
    BY <1>2, <1>6 DEF McsInv, Events
  <2>4. \A u \in Thread : th'[u].pc = "store" => u \notin event'
    BY <1>1, <1>2, <1>3, <2>3 DEF McsInv, Events
  <2>5. \A u \in Thread : th'[u].pc = "signal" => th'[u].wake \in Thread /\ th'[u].w = "ready"
    BY <1>2, <1>3 DEF McsInv, Events
  <2>6. \A u, s \in Thread : Wakes(u, s)' => th'[s].pc = "sleep" /\ s \notin event'
    <3> SUFFICES ASSUME NEW u \in Thread, NEW s \in Thread, Wakes(u, s)'
                 PROVE  th'[s].pc = "sleep" /\ s \notin event'
      OBVIOUS
    <3>1. Wakes(u, s) /\ s # v
      BY <1>6, <2>3
    <3>2. th[s].pc = "sleep" /\ s \notin event
      BY <3>1 DEF McsInv, Events
    <3> QED BY <1>1, <1>3, <3>1, <3>2
  <2>7. \A u, s, r \in Thread : Wakes(u, r)' /\ Wakes(s, r)' => u = s
    BY <1>6 DEF McsInv, Events
  <2>8. /\ \A u \in Thread : Asleep(u, "ready")' /\ Told(u)' => First(u)'
        /\ \A u \in Thread : Asleep(u, "next")' /\ Told(u)' => next'[MyNode(u)'] # Null
    BY <1>1, <1>7, <2>1, <2>2 DEF McsInv, Events
  <2> QED BY <2>4, <2>5, <2>6, <2>7, <2>8 DEF Events
<1> QED BY <1>1, <1>2, <1>3, <1>4, <1>5, <1>7, <1>8, InCallKept

\* The steps of a holder, or of one that does not get the lock: none of them sets an event or
\* waits for one.
LEMMA AwakeKept ==
  ASSUME Reuse = FALSE, McsInv, NEW t \in Thread, th' \in [Thread -> Local],
         UNCHANGED <<lock, next, flag, order, event, crashed>>,
         \A u \in Thread : u # t => th'[u] = th[u],
         th'[t].lock = th[t].lock, th'[t].round = th[t].round, th'[t].node = th[t].node,
         \/ th[t].pc = "try" /\ th'[t].pc = "out"
         \/ th[t].pc = "held" /\ th'[t].pc = "cas"
         \/ /\ th[t].pc = "cas" /\ th'[t].pc = "await" /\ th'[t].w = "next"
            /\ lock[th[t].lock] # MyNode(t)
         \/ /\ th[t].pc \in {"held", "reread"} /\ th'[t].pc = "pass"
            /\ next[MyNode(t)] # Null /\ th'[t].other = next[MyNode(t)]
  PROVE  McsInv'
<1>1. Types'
  BY DEF McsInv, Types
<1>2. /\ Queued(t)' <=> Queued(t)
      /\ McsHolds(t)' <=> McsHolds(t)
      /\ \A w : ~Asleep(t, w) /\ ~Asleep(t, w)'
      /\ \A u : ~Wakes(t, u) /\ ~Wakes(t, u)'
  BY DEF Queued, McsHolds, Asleep, Wakes
<1>3. \A u, v \in Thread : Wakes(u, v)' <=> Wakes(u, v)
  BY <1>2 DEF Wakes
<1>4. \A u \in Thread : Told(u)' <=> Told(u)
  BY <1>3 DEF Told
<1>5. Events'
  <2>1. \A u \in Thread : \A w : Asleep(u, w)' <=> Asleep(u, w)
    BY <1>2 DEF Asleep
  <2>2. \A u \in Thread : MyNode(u)' = MyNode(u) /\ (First(u)' <=> First(u))
    BY DEF MyNode, Round, First
  <2> QED BY <1>3, <1>4, <2>1, <2>2 DEF McsInv, Events
<1> QED BY <1>1, <1>2, <1>4, <1>5, InCallKept

LEMMA ReleaseKept ==
  ASSUME Reuse = FALSE, McsInv, NEW t \in Thread, McsRelease(t) \/ Reread(t)
  PROVE  McsInv'
<1> DEFINE n == next[MyNode(t)]
<1>1. Types /\ MyNode(t) \in Node /\ n \in Node \cup {Null}
  <2>1. Types
    BY DEF McsInv
  <2>2. MyNode(t) \in Node
    BY <2>1, Nodes
  <2> QED BY <2>1, <2>2 DEF Types
<1>2. PICK pc \in {"cas", "pass"} :
        /\ th' = [th EXCEPT ![t].pc = pc, ![t].other = n]
        /\ pc = "cas" => th[t].pc = "held"
        /\ pc = "pass" => th[t].pc \in {"held", "reread"} /\ n # Null
  <2>1. th[t].pc = "reread" => n # Null
    BY DEF McsInv, Successors
  <2> QED BY <2>1 DEF McsRelease, Reread
<1>3. UNCHANGED <<lock, next, flag, order, event, crashed>>
  BY DEF McsRelease, Reread
<1> HIDE DEF n
<1>4. /\ th' \in [Thread -> Local]
      /\ \A u \in Thread : u # t => th'[u] = th[u]
      /\ th'[t].pc = pc /\ th'[t].lock = th[t].lock /\ th'[t].round = th[t].round
      /\ th'[t].node = th[t].node /\ th'[t].other = n
  <2>1. pc \in Pc /\ th \in [Thread -> Local]
    BY <1>1 DEF Types, Pc
  <2>2. th' = [th EXCEPT ![t].pc = pc, ![t].other = n]
    BY <1>2
  <2> HIDE <1>2
  <2> QED BY <1>1, <2>1, <2>2, ZenonT(60) DEF Local
<1> QED BY <1>2, <1>3, <1>4, AwakeKept DEF n

-----------------------------------------------------------------------------
(* The steps that change flags and the chain *)

\* The event is stored in the flag.
LEMMA StoreKept ==
  ASSUME Reuse = FALSE, McsInv, NEW t \in Thread, Store(t)
  PROVE  McsInv'
<1> DEFINE n == MyNode(t)
           w == th[t].w
<1>1. th[t].pc = "store" /\ Types /\ UNCHANGED <<lock, next, event, order, crashed>>
  BY DEF McsInv, Store
<1>2. w \in Which /\ n \in Node /\ n[1] = t /\ t # "set" /\ t # "clear"
  BY <1>1, Nodes, FlagAssumption DEF Types, Local
<1>3. CASE flag[n][w] # "clear"
  BY <1>1, <1>3, LookKept DEF Store
<1>4. CASE flag[n][w] = "clear"
  <2>1. McsGoto(t, "sleep") /\ flag' = [flag EXCEPT ![n][w] = t]
    BY <1>4 DEF Store
  <2>2. /\ th' \in [Thread -> Local]
        /\ \A u \in Thread : u # t => th'[u] = th[u]
        /\ th'[t].pc = "sleep" /\ th'[t].lock = th[t].lock /\ th'[t].round = th[t].round
        /\ th'[t].other = th[t].other /\ th'[t].w = w /\ th'[t].wake = th[t].wake
        /\ th'[t].then = th[t].then /\ th'[t].node = th[t].node
    BY <1>1, <2>1, Moved DEF Pc
  <2>3. /\ flag' \in [Node -> [Which -> {"clear", "set"} \cup Thread]]
        /\ flag'[n][w] = t
        /\ \A m \in Node, v \in Which : m # n \/ v # w => flag'[m][v] = flag[m][v]
    BY <1>1, <1>2, <2>1 DEF Types, Which
  <2>4. Types'
    BY <1>1, <2>2, <2>3 DEF Types
  <2>5. \A u \in Thread : u # t =>
           /\ MyNode(u)' = MyNode(u) /\ NewNode(u)' = NewNode(u)
           /\ Queued(u)' <=> Queued(u)
           /\ McsHolds(u)' <=> McsHolds(u)
           /\ Linking(u)' <=> Linking(u)
           /\ \A v : Asleep(u, v)' <=> Asleep(u, v)
           /\ \A v : Wakes(u, v)' <=> Wakes(u, v)
    BY <2>2, Others
  <2>6. /\ MyNode(t)' = MyNode(t) /\ Queued(t) /\ Queued(t)' /\ ~Linking(t) /\ ~Linking(t)'
        /\ McsHolds(t)' <=> McsHolds(t)
        /\ McsHolds(t) <=> w = "next"
        /\ \A v : ~Wakes(t, v) /\ ~Wakes(t, v)'
        /\ \A v : ~Asleep(t, v) /\ (Asleep(t, v)' <=> v = w)
    BY <1>1, <1>2, <2>2
       DEF MyNode, Round, Queued, Linking, McsHolds, Wakes, Asleep, Which
  <2>7. \A u \in Thread : (Told(u)' <=> Told(u)) /\ (First(u)' <=> First(u)) /\ MyNode(u)' = MyNode(u)
    BY <1>1, <2>2, <2>5, <2>6 DEF Told, First
  <2>8. ~Told(t)
    BY <1>1 DEF McsInv, Events, Told
  <2>9. \A u \in Thread : MyNode(u) \in Node /\ NewNode(u) \in Node
                          /\ MyNode(u)[1] = u /\ NewNode(u)[1] = u
    BY <1>1, Nodes
  <2>10. Queues' /\ LockIsLast' /\ Chain'
    <3>1. \A u \in Thread : McsHolds(u)' => McsHolds(u)
      BY <2>5, <2>6
    <3>2. \A u \in Thread : Queued(u)' <=> Queued(u)
      BY <2>5, <2>6
    <3>3. \A u \in Thread :
             /\ MyNode(u)' = MyNode(u) /\ th'[u].lock = th[u].lock
             /\ next'[MyNode(u)] = next[MyNode(u)]
             /\ th'[u].pc = "link" <=> th[u].pc = "link"
             /\ th'[u].other = th[u].other
      BY <1>1, <2>2, <2>5, <2>6
    <3> QED BY <1>1, <3>1, <3>2, <3>3, QueuesKept
  <2>11. NewNodes'
    <3>1. \A u \in Thread : th'[u].pc \in {"swap", "try", "move"} => u # t /\ th'[u] = th[u]
      BY <2>2
    <3>2. \A u \in Thread : u # t => MyNode(u) # n /\ NewNode(u) # n
      BY <1>2, <2>9
    <3> QED BY <1>1, <2>3, <2>5, <2>9, <3>1, <3>2, NewNodesKept DEF Which
  <2>12. OneSuccessor'
    <3>1. \A m \in Node : Born(m) => Born(m)'
      BY <1>1, <2>2 DEF Born, Node
    <3> QED BY <1>1, <2>2, <2>5, <2>6, <3>1, SuccessorsKept
  <2>13. Successors'
    <3>1. \A m \in Node : Untold(m) => Untold(m)'
      <4> SUFFICES ASSUME NEW m \in Node, Untold(m) PROVE Untold(m)'
        OBVIOUS
      <4>1. m[1] \in Thread
        BY DEF Node
      <4>2. CASE m = n /\ w = "next"
        BY <1>2, <2>3, <2>6, <2>7, <2>8, <4>2 DEF Untold
      <4>3. CASE ~(m = n /\ w = "next")
        <5>1. flag'[m]["next"] = flag[m]["next"]
          BY <1>2, <2>3, <4>3 DEF Which
        <5> QED BY <2>5, <2>6, <2>7, <4>1, <5>1 DEF Untold
      <4> QED BY <4>2, <4>3
    <3>2. \A u \in Thread : Linking(u) => th[u].other \in Node /\ Untold(th[u].other)
      BY DEF McsInv, Successors, OneSuccessor
    <3>3. \A u \in Thread : Linking(u)' => Untold(th[u].other)'
      <4> SUFFICES ASSUME NEW u \in Thread, Linking(u)' PROVE Untold(th[u].other)'
        OBVIOUS
      <4>1. th'[u] = th[u] /\ Linking(u)
        BY <2>2, <2>5, <2>6
      <4> QED BY <3>1, <3>2, <4>1
    <3>4. \A m \in Node : flag'[m]["next"] = "set" => flag[m]["next"] = "set"
      BY <1>2, <2>3 DEF Which
    <3>5. \A u \in Thread : th'[u].pc = "tell" => next'[th'[u].other] # Null
      BY <1>1, <2>2 DEF McsInv, Successors
    <3>6. \A m \in Node : flag'[m]["next"] = "set" => next'[m] # Null
      BY <1>1, <3>4 DEF McsInv, Successors
    <3>7. \A u \in Thread : McsHolds(u)' /\ th'[u].pc \in {"await", "store", "sleep", "move"} =>
             lock'[th'[u].lock] # MyNode(u)'
      BY <1>1, <2>2, <2>5, <2>6 DEF McsInv, Successors
    <3>8. /\ \A u \in Thread : th'[u].pc \in {"reread", "pass"} => next'[MyNode(u)'] # Null
          /\ \A u \in Thread : th'[u].pc = "pass" => th'[u].other = next'[MyNode(u)']
      BY <1>1, <2>2, <2>7 DEF McsInv, Successors
    <3> QED BY <3>3, <3>5, <3>6, <3>7, <3>8 DEF Successors
  <2>14. Flags'
    <3>1. \A m \in Node, v \in Which : flag'[m][v] \in {"clear", "set", m[1]}
      BY <1>2, <2>3 DEF McsInv, Flags
    <3>2. \A u \in Thread : u # t => flag'[MyNode(u)]["next"] = flag[MyNode(u)]["next"]
                                     /\ flag'[MyNode(u)]["ready"] = flag[MyNode(u)]["ready"]
      BY <1>2, <2>3, <2>9 DEF Which
    <3>3. \A u \in Thread : Queued(u)' /\ flag'[MyNode(u)']["next"] = u =>
             Asleep(u, "next")' \/ th'[u].pc \in {"reread", "pass"}
      <4>1. flag'[n]["next"] = t => w = "next"
        BY <1>1, <1>2, <2>3, <2>6 DEF McsInv, Flags, Which
      <4> QED BY <2>2, <2>5, <2>6, <3>2, <4>1 DEF McsInv, Flags
    <3>4. \A u \in Thread :
             Queued(u)' /\ ~McsHolds(u)' /\ flag'[MyNode(u)']["ready"] = "set" => First(u)'
      <4>1. ~McsHolds(t) => flag'[n]["ready"] = t
        BY <1>2, <2>3, <2>6 DEF Which
      <4> QED BY <1>2, <2>5, <2>6, <2>7, <3>2, <4>1 DEF McsInv, Flags
    <3>5. \A u \in Thread :
             Queued(u)' /\ ~McsHolds(u)' /\ flag'[MyNode(u)']["ready"] = u => Asleep(u, "ready")'
      <4>1. ~McsHolds(t) => Asleep(t, "ready")'
        BY <1>2, <2>6 DEF Which
      <4> QED BY <2>5, <2>6, <2>7, <3>2, <4>1 DEF McsInv, Flags
    <3> QED BY <3>1, <3>3, <3>4, <3>5 DEF Flags
  <2>15. Events'
    <3>1. \A u, v \in Thread : Wakes(u, v)' <=> Wakes(u, v)
      BY <2>5, <2>6
    <3>2. \A u \in Thread : th[u].pc = "sleep" => th'[u].pc = "sleep"
      BY <1>1, <2>2
    <3>3. \A u \in Thread, v \in Which : Asleep(u, v)' /\ Told(u)' => Asleep(u, v) /\ Told(u)
      BY <2>5, <2>7, <2>8
    <3>4. /\ \A u \in Thread : th'[u].pc = "store" => u \notin event'
          /\ \A u \in Thread : th'[u].pc = "signal" => th'[u].wake \in Thread /\ th'[u].w = "ready"
      BY <1>1, <2>2 DEF McsInv, Events
    <3>5. /\ \A u, v \in Thread : Wakes(u, v)' => th'[v].pc = "sleep" /\ v \notin event'
          /\ \A u, s, v \in Thread : Wakes(u, v)' /\ Wakes(s, v)' => u = s
      BY <1>1, <3>1, <3>2 DEF McsInv, Events
    <3>6. /\ \A u \in Thread : Asleep(u, "ready")' /\ Told(u)' => First(u)'
          /\ \A u \in Thread : Asleep(u, "next")' /\ Told(u)' => next'[MyNode(u)'] # Null
      BY <1>1, <2>7, <3>3 DEF McsInv, Events, Which
    <3> QED BY <3>4, <3>5, <3>6 DEF Events
  <2>16. crashed' = FALSE
    BY <1>1 DEF McsInv
  <2> QED BY <2>4, <2>10, <2>11, <2>12, <2>13, <2>14, <2>15, <2>16 DEF McsInv
<1> QED BY <1>3, <1>4

\* A step of a thread that does not sleep, wake or make an event before or after it wakes
\* nobody, and lets nobody's event or flag mean something else.
LEMMA AwakeParts ==
  ASSUME McsInv, NEW t \in Thread, event' = event,
         \A u \in Thread : u # t => th'[u] = th[u],
         th[t].pc \notin {"sleep", "signal"},
         th'[t].pc \notin {"sleep", "signal", "store"},
         \A n \in Node : Born(n) => flag'[n]["next"] = flag[n]["next"],
         \A u \in Thread : u # t /\ Queued(u) /\ First(u) => First(u)',
         \A n \in Node : Born(n) /\ next[n] # Null => next'[n] # Null
  PROVE  /\ \A u \in Thread : Told(u)' <=> Told(u)
         /\ \A u \in Thread : \A w : Asleep(u, w)' <=> Asleep(u, w)
         /\ \A u \in Thread : u # t /\ Linking(u) =>
              /\ Linking(u)' /\ th[u].other \in Node /\ Born(th[u].other)
              /\ Untold(th[u].other)'
<1>1. \A u, v \in Thread : Wakes(u, v)' <=> Wakes(u, v)
  BY DEF Wakes
<1>2. \A u \in Thread : Told(u)' <=> Told(u)
  BY <1>1 DEF Told
<1>3. \A u \in Thread : \A w : Asleep(u, w)' <=> Asleep(u, w)
  BY DEF Asleep
<1>4. ASSUME NEW n \in Node, Born(n), Untold(n) PROVE Untold(n)'
  <2>1. n[1] \in Thread
    BY DEF Node
  <2>2. CASE flag[n]["next"] = "clear"
    BY <1>4, <2>2 DEF Untold
  <2>3. CASE flag[n]["next"] = n[1] /\ Asleep(n[1], "next") /\ n = MyNode(n[1]) /\ ~Told(n[1])
    <3>1. n[1] # t
      BY <2>3 DEF Asleep
    <3>2. MyNode(n[1])' = MyNode(n[1])
      BY <2>1, <3>1, Others
    <3> QED BY <1>2, <1>3, <1>4, <2>1, <2>3, <3>2 DEF Untold
  <2> QED BY <1>4, <2>2, <2>3 DEF Untold
<1>5. \A u \in Thread : Linking(u) => th[u].other \in Node /\ Born(th[u].other) /\ Untold(th[u].other)
  BY DEF McsInv, OneSuccessor, Successors
<1>6. \A u \in Thread : u # t /\ Linking(u) =>
        /\ Linking(u)' /\ th[u].other \in Node /\ Born(th[u].other) /\ Untold(th[u].other)'
  BY <1>4, <1>5 DEF Linking
<1> QED BY <1>2, <1>3, <1>6

LEMMA AwakeEvents ==
  ASSUME Reuse = FALSE, McsInv, NEW t \in Thread, event' = event,
         \A u \in Thread : u # t => th'[u] = th[u],
         th[t].pc \notin {"sleep", "signal"},
         th'[t].pc \notin {"sleep", "signal", "store"},
         \A u \in Thread : u # t /\ Queued(u) /\ First(u) => First(u)',
         \A n \in Node : Born(n) /\ next[n] # Null => next'[n] # Null
  PROVE  Events'
<1>1. \A u, v \in Thread : Wakes(u, v)' <=> Wakes(u, v)
  BY DEF Wakes
<1>2. \A u \in Thread : Told(u)' <=> Told(u)
  BY <1>1 DEF Told
<1>3. \A u \in Thread : \A w : Asleep(u, w)' <=> Asleep(u, w)
  BY DEF Asleep
<1>4. \A u \in Thread : th[u].pc = "sleep" => u # t /\ th'[u].pc = "sleep"
  OBVIOUS
<1>5. /\ \A u \in Thread : th'[u].pc = "store" => u \notin event'
      /\ \A u \in Thread : th'[u].pc = "signal" => th'[u].wake \in Thread /\ th'[u].w = "ready"
  BY DEF McsInv, Events
<1>6. /\ \A u, v \in Thread : Wakes(u, v)' => th'[v].pc = "sleep" /\ v \notin event'
      /\ \A u, s, v \in Thread : Wakes(u, v)' /\ Wakes(s, v)' => u = s
  BY <1>1, <1>4 DEF McsInv, Events
<1>7. \A u \in Thread : th[u].pc = "sleep" =>
        Queued(u) /\ MyNode(u)' = MyNode(u) /\ MyNode(u) \in Node /\ Born(MyNode(u))
  <2> SUFFICES ASSUME NEW u \in Thread, th[u].pc = "sleep"
               PROVE  Queued(u) /\ MyNode(u)' = MyNode(u) /\ MyNode(u) \in Node /\ Born(MyNode(u))
    OBVIOUS
  <2>1. Queued(u)
    BY DEF Queued
  <2>2. MyNode(u)' = MyNode(u)
    BY <1>4, Others
  <2>3. Types
    BY DEF McsInv
  <2> QED BY <2>1, <2>2, <2>3, Nodes, Fresh
<1>8. /\ \A u \in Thread : Asleep(u, "ready")' /\ Told(u)' => First(u)'
      /\ \A u \in Thread : Asleep(u, "next")' /\ Told(u)' => next'[MyNode(u)'] # Null
  <2>1. \A u \in Thread, w \in Which : Asleep(u, w) => th[u].pc = "sleep"
    BY DEF Asleep
  <2> QED BY <1>2, <1>3, <1>4, <1>7, <2>1 DEF McsInv, Events, Which
<1> QED BY <1>5, <1>6, <1>8 DEF Events

LEMMA AwakeFlags ==
  ASSUME Reuse = FALSE, McsInv, NEW t \in Thread,
         \A u \in Thread : u # t => th'[u] = th[u],
         th[t].pc \notin {"sleep", "signal"},
         \A n \in Node, w \in Which : flag'[n][w] \in {flag[n][w], "clear"},
         \A n \in Node, w \in Which : Born(n) => flag'[n][w] = flag[n][w],
         \A u \in Thread : u # t /\ Queued(u) /\ First(u) => First(u)',
         Queued(t)' => /\ flag'[MyNode(t)']["next"] # t
                       /\ McsHolds(t)' \/ flag'[MyNode(t)']["ready"] \notin {"set", t}
  PROVE  Flags'
<1>1. \A n \in Node, w \in Which : flag'[n][w] \in {"clear", "set", n[1]}
  BY DEF McsInv, Flags
<1>2. \A u \in Thread : u # t =>
        /\ Queued(u)' <=> Queued(u)
        /\ McsHolds(u)' <=> McsHolds(u)
        /\ \A w : Asleep(u, w)' <=> Asleep(u, w)
  BY Others
<1>3. \A u \in Thread : u # t /\ Queued(u) =>
        /\ MyNode(u)' = MyNode(u)
        /\ flag'[MyNode(u)]["next"] = flag[MyNode(u)]["next"]
        /\ flag'[MyNode(u)]["ready"] = flag[MyNode(u)]["ready"]
  <2> SUFFICES ASSUME NEW u \in Thread, u # t, Queued(u)
               PROVE /\ MyNode(u)' = MyNode(u)
                     /\ flag'[MyNode(u)]["next"] = flag[MyNode(u)]["next"]
                     /\ flag'[MyNode(u)]["ready"] = flag[MyNode(u)]["ready"]
    OBVIOUS
  <2>1. MyNode(u)' = MyNode(u)
    BY Others
  <2>2. Types
    BY DEF McsInv
  <2>3. MyNode(u) \in Node /\ Born(MyNode(u))
    BY <2>2, Nodes, Fresh
  <2> QED BY <2>1, <2>3 DEF Which
<1>4. \A u \in Thread : Queued(u)' /\ flag'[MyNode(u)']["next"] = u =>
         Asleep(u, "next")' \/ th'[u].pc \in {"reread", "pass"}
  BY <1>2, <1>3 DEF McsInv, Flags
<1>5. \A u \in Thread :
         Queued(u)' /\ ~McsHolds(u)' /\ flag'[MyNode(u)']["ready"] = "set" => First(u)'
  BY <1>2, <1>3 DEF McsInv, Flags
<1>6. \A u \in Thread :
         Queued(u)' /\ ~McsHolds(u)' /\ flag'[MyNode(u)']["ready"] = u => Asleep(u, "ready")'
  BY <1>2, <1>3 DEF McsInv, Flags
<1> QED BY <1>1, <1>4, <1>5, <1>6 DEF Flags

\* The successor links itself to its predecessor.
LEMMA LinkKept ==
  ASSUME Reuse = FALSE, McsInv, NEW t \in Thread, Link(t)
  PROVE  McsInv'
<1>1. PICK q, k : q = th[t].other /\ k = th[t].lock
  OBVIOUS
<1>2. /\ th[t].pc = "link" /\ Types
      /\ UNCHANGED <<lock, flag, event, order, crashed>>
      /\ next' = [next EXCEPT ![q] = MyNode(t)]
      /\ th' \in [Thread -> Local]
      /\ \A u \in Thread : u # t => th'[u] = th[u]
      /\ th'[t].pc = "tell" /\ th'[t].lock = k /\ th'[t].round = th[t].round
      /\ th'[t].other = q /\ th'[t].w = th[t].w /\ th'[t].wake = th[t].wake
      /\ th'[t].then = th[t].then /\ th'[t].node = th[t].node
  BY <1>1, Moved DEF McsInv, Link, Pc
<1>3. k \in Lock /\ Queued(t) /\ Linking(t) /\ ~McsHolds(t) /\ ~First(t)
  BY <1>1, <1>2 DEF Types, Local, Queued, Linking, McsHolds, McsInv, Chain
<1>4. PICK j \in 1..Len(order[k]) : order[k][j] = t
  BY <1>1, <1>3 DEF McsInv, Queues
<1>5. j - 1 \in 1..Len(order[k]) /\ j - 1 < Len(order[k]) /\ (j - 1) + 1 = j
  <2>1. j # 1
    BY <1>1, <1>3, <1>4 DEF First
  <2> QED BY <1>3, <1>4, <2>1, InQueue
<1>6. PICK p \in Thread : order[k][j - 1] = p /\ q = MyNode(p) /\ next[q] = Null /\ p # t
  <2>1. PICK p : order[k][j - 1] = p
    OBVIOUS
  <2>2. p \in Thread /\ Follows(p, t) /\ p # t
    BY <1>3, <1>4, <1>5, <2>1, InChain
  <2> QED BY <1>1, <1>2, <2>1, <2>2 DEF Follows
<1>7. \A u \in Thread : MyNode(u) \in Node /\ MyNode(u)[1] = u /\ MyNode(u) # Null
                        /\ NewNode(u) \in Node
  BY <1>2, Nodes
<1>8. /\ q \in Node /\ Born(q)
      /\ \A u \in Thread : th[u].pc \in {"swap", "try"} => MyNode(u) # q
      /\ \A u \in Thread : th[u].node = "own" => NewNode(u) # q
  <2>1. Queued(p)
    BY <1>3, <1>5, <1>6, InChain
  <2> QED BY <1>6, <1>7, <2>1, Fresh
<1>9. /\ next' \in [Node -> Node \cup {Null}] /\ next'[q] = MyNode(t)
      /\ \A n \in Node : n # q => next'[n] = next[n]
  BY <1>2, <1>7, <1>8 DEF Types
<1>10. Types'
  BY <1>2, <1>9 DEF Types
<1>11. \A u \in Thread :
         /\ MyNode(u)' = MyNode(u) /\ NewNode(u)' = NewNode(u) /\ th'[u].lock = th[u].lock
         /\ th'[u].other = th[u].other /\ th'[u].round = th[u].round /\ th'[u].node = th[u].node
         /\ Queued(u)' <=> Queued(u)
         /\ Linking(u)' <=> Linking(u)
         /\ McsHolds(u)' <=> McsHolds(u)
         /\ First(u)' <=> First(u)
  <2>1. \A u \in Thread : First(u)' <=> First(u)
    BY <1>1, <1>2 DEF First
  <2>2. /\ MyNode(t)' = MyNode(t) /\ NewNode(t)' = NewNode(t)
        /\ Queued(t)' /\ Linking(t)' /\ ~McsHolds(t)'
    BY <1>2 DEF MyNode, NewNode, Round, Queued, Linking, McsHolds
  <2> QED BY <1>1, <1>2, <1>3, <2>1, <2>2, Others
<1>12. \A n \in Node : next[n] # Null => next'[n] # Null
  BY <1>7, <1>9
<1>13. Queues'
  BY <1>2, <1>11, SameQueues
<1>14. LockIsLast'
  BY <1>2, <1>10, <1>11, InChain, LastAfter DEF McsInv, LockIsLast
<1>15. Chain'
  <2>1. \A u \in Thread : th'[u].pc = "link" => ~First(u)'
    BY <1>2, <1>11 DEF McsInv, Chain
  <2>2. ASSUME NEW l \in Lock, NEW i \in 1..Len(order[l]), NEW r \in Thread, NEW s \in Thread,
               order[l][i] = r
        PROVE /\ i = Len(order[l]) => next'[MyNode(r)'] = Null
              /\ i < Len(order[l]) /\ order[l][i + 1] = s => Follows(r, s)'
    <3>1. /\ th[r].lock = l
          /\ i = Len(order[l]) => next[MyNode(r)] = Null
          /\ i < Len(order[l]) /\ order[l][i + 1] = s => Follows(r, s)
      BY <2>2, InChain
    <3>2. CASE r = p
      <4>1. l = k /\ i = j - 1
        BY <1>3, <1>5, <1>6, <2>2, <3>1, <3>2, InChain
      <4>2. i < Len(order[l]) /\ order[l][i + 1] = t
        BY <1>4, <1>5, <4>1
      <4>3. i # Len(order[l])
        BY <4>2
      <4>4. Follows(p, t)'
        BY <1>2, <1>6, <1>9, <1>11 DEF Follows
      <4> QED BY <3>2, <4>2, <4>3, <4>4
    <3>3. CASE r # p
      <4>1. MyNode(r) # q /\ next'[MyNode(r)'] = next[MyNode(r)]
        BY <1>6, <1>7, <1>9, <1>11, <3>3
      <4>2. i < Len(order[l]) /\ order[l][i + 1] = s => s # t
        <5> SUFFICES ASSUME i < Len(order[l]), order[l][i + 1] = t PROVE FALSE
          OBVIOUS
        <5>1. i + 1 \in 1..Len(order[l])
          BY <2>2, InChain
        <5>2. l = k /\ i + 1 = j
          BY <1>3, <1>4, <5>1, InChain
        <5> QED BY <1>4, <1>5, <1>6, <2>2, <3>3, <5>2
      <4>3. s # t /\ Follows(r, s) => Follows(r, s)'
        BY <1>2, <1>11, <4>1 DEF Follows
      <4> QED BY <3>1, <4>1, <4>2, <4>3
    <3> QED BY <3>2, <3>3
  <2> QED BY <1>2, <1>10, <2>1, <2>2, ChainAfter
<1>16. NewNodes'
  <2>1. \A u \in Thread : th[u].pc = "move" => th[u].node = "own"
    BY DEF McsInv, NewNodes
  <2>2. \A u \in Thread : th'[u].pc \in {"swap", "try", "move"} => th'[u] = th[u]
    BY <1>2
  <2>3. \A u \in Thread : th[u].pc \in {"swap", "try"} => next'[MyNode(u)] = next[MyNode(u)]
    BY <1>7, <1>8, <1>9
  <2> QED BY <1>2, <1>11, <2>1, <2>2, <2>3, NewNodesKept
<1>17. OneSuccessor'
  <2>1. \A n \in Node : Born(n) => Born(n)'
    BY <1>2, <1>2 DEF Born, Node
  <2> QED BY <1>2, <1>11, <2>1, SuccessorsKept
<1>18. /\ \A u \in Thread : Told(u)' <=> Told(u)
       /\ \A u \in Thread : \A w : Asleep(u, w)' <=> Asleep(u, w)
       /\ \A u \in Thread : u # t /\ Linking(u) =>
            /\ Linking(u)' /\ th[u].other \in Node /\ Born(th[u].other)
            /\ Untold(th[u].other)'
  BY <1>2, <1>11, <1>12, AwakeParts
<1>19. Successors'
  <2>1. Untold(q)'
    <3>1. Untold(q)
      BY <1>1, <1>3 DEF McsInv, Successors
    <3>2. q[1] \in Thread
      BY <1>6, <1>7
    <3> QED BY <1>2, <1>11, <1>18, <3>1, <3>2 DEF Untold
  <2>2. \A u \in Thread : Linking(u)' => Untold(th[u].other)'
    <3> SUFFICES ASSUME NEW u \in Thread, Linking(u)' PROVE Untold(th[u].other)'
      OBVIOUS
    <3>1. CASE u = t
      BY <1>2, <2>1, <3>1
    <3>2. CASE u # t
      BY <1>11, <1>18, <3>2
    <3> QED BY <3>1, <3>2
  <2>3. \A u \in Thread : th'[u].pc = "tell" => next'[th'[u].other] # Null
    BY <1>2, <1>7, <1>9, <1>12, <1>18 DEF McsInv, Successors, Linking
  <2>4. \A n \in Node : flag'[n]["next"] = "set" => next'[n] # Null
    BY <1>2, <1>12 DEF McsInv, Successors
  <2>5. \A u \in Thread : McsHolds(u)' /\ th'[u].pc \in {"await", "store", "sleep", "move"} =>
           lock'[th'[u].lock] # MyNode(u)'
    BY <1>2, <1>11 DEF McsInv, Successors
  <2>6. \A u \in Thread : th'[u].pc \in {"reread", "pass"} =>
           th'[u] = th[u] /\ next'[MyNode(u)'] # Null /\ next'[MyNode(u)'] = next[MyNode(u)]
    <3> SUFFICES ASSUME NEW u \in Thread, th'[u].pc \in {"reread", "pass"}
                 PROVE /\ th'[u] = th[u] /\ next'[MyNode(u)'] # Null
                       /\ next'[MyNode(u)'] = next[MyNode(u)]
      OBVIOUS
    <3>1. th'[u] = th[u]
      BY <1>2
    <3>2. next[MyNode(u)] # Null
      BY <3>1 DEF McsInv, Successors
    <3>3. MyNode(u) # q
      BY <1>6, <3>2
    <3> QED BY <1>7, <1>9, <1>11, <3>1, <3>2, <3>3
  <2>7. \A u \in Thread : th'[u].pc = "pass" => th'[u].other = next'[MyNode(u)']
    BY <2>6 DEF McsInv, Successors
  <2> QED BY <1>11, <2>2, <2>3, <2>4, <2>5, <2>6, <2>7 DEF Successors
<1>20. Flags'
  <2>1. MyNode(t)' = MyNode(t)
    BY <1>11
  <2>2. flag[MyNode(t)]["next"] # t /\ flag[MyNode(t)]["ready"] \notin {"set", t}
    BY <1>2, <1>3 DEF McsInv, Flags, Asleep
  <2>3. \A n \in Node, w \in Which : flag'[n][w] = flag[n][w]
    BY <1>2
  <2> QED BY <1>2, <1>11, <2>1, <2>2, <2>3, AwakeFlags
<1>21. Events'
  BY <1>2, <1>11, <1>12, AwakeEvents
<1>22. crashed' = FALSE
  BY <1>2 DEF McsInv
<1> QED BY <1>10, <1>13, <1>14, <1>15, <1>16, <1>17, <1>19, <1>20, <1>21, <1>22 DEF McsInv

\* It tells its predecessor, and wakes it if it sleeps.
LEMMA TellKept ==
  ASSUME Reuse = FALSE, McsInv, NEW t \in Thread, Tell(t)
  PROVE  McsInv'
<1>1. PICK q, f : q = th[t].other /\ f = flag[q]["next"]
  OBVIOUS
<1>2. /\ th[t].pc = "tell" /\ Types /\ FlagSet(t, q, "next", "await")
      /\ UNCHANGED <<lock, next, event, order, crashed>>
  BY <1>1 DEF McsInv, Tell
<1>3. Linking(t) /\ Queued(t) /\ ~McsHolds(t) /\ \A w : ~Asleep(t, w)
  BY <1>2 DEF Linking, Queued, McsHolds, Asleep
<1>4. q \in Node /\ Born(q) /\ Untold(q) /\ next[q] # Null /\ q[1] \in Thread
  BY <1>1, <1>2, <1>3 DEF McsInv, OneSuccessor, Successors, Node
<1>5. PICK p \in Thread : p = q[1]
  BY <1>4
<1>6. /\ f = "clear" \/ f = p
      /\ f = p => Asleep(p, "next") /\ q = MyNode(p) /\ ~Told(p) /\ p # t
      /\ p \notin {"clear", "set"} /\ "clear" \notin Thread /\ "set" \notin Thread
  BY <1>1, <1>3, <1>4, <1>5, FlagAssumption DEF Untold
<1>7. /\ th' \in [Thread -> Local]
      /\ \A u \in Thread : u # t => th'[u] = th[u]
      /\ th'[t].lock = th[t].lock /\ th'[t].round = th[t].round /\ th'[t].node = th[t].node
      /\ th'[t].then = "await" /\ th'[t].w = "ready"
      /\ f = p => th'[t].pc = "signal" /\ th'[t].wake = p
      /\ f # p => th'[t].pc = "await"
      /\ flag' \in [Node -> [Which -> {"clear", "set"} \cup Thread]]
      /\ flag'[q]["next"] = IF f = "clear" THEN "set" ELSE f
      /\ \A m \in Node, v \in Which : m # q \/ v # "next" => flag'[m][v] = flag[m][v]
  <2>1. "next" \in Which /\ f \in {"clear", "set"} \cup Thread
    BY <1>1, <1>2, <1>4 DEF Types, Which
  <2> QED BY <1>1, <1>2, <1>4, <1>6, <2>1, SetFlag
<1>8. Types'
  BY <1>2, <1>7 DEF Types
<1>9. /\ \A u \in Thread : u # t =>
           /\ MyNode(u)' = MyNode(u) /\ NewNode(u)' = NewNode(u)
           /\ Queued(u)' <=> Queued(u)
           /\ McsHolds(u)' <=> McsHolds(u)
           /\ Linking(u)' <=> Linking(u)
           /\ \A w : Asleep(u, w)' <=> Asleep(u, w)
           /\ \A v : Wakes(u, v)' <=> Wakes(u, v)
      /\ MyNode(t)' = MyNode(t) /\ Queued(t)' /\ ~McsHolds(t)' /\ ~Linking(t)'
      /\ \A w : ~Asleep(t, w)'
      /\ \A v : ~Wakes(t, v) /\ (Wakes(t, v)' <=> f = p /\ v = p)
  <2>1. /\ MyNode(t)' = MyNode(t) /\ Queued(t)' /\ ~McsHolds(t)' /\ ~Linking(t)'
        /\ \A w : ~Asleep(t, w)'
        /\ \A v : ~Wakes(t, v) /\ (Wakes(t, v)' <=> f = p /\ v = p)
    BY <1>2, <1>7 DEF MyNode, Round, Queued, McsHolds, Linking, Asleep, Wakes
  <2> QED BY <1>7, <2>1, Others
<1>10. /\ \A u \in Thread : First(u)' <=> First(u)
       /\ \A u \in Thread : Told(u)' <=> Told(u) \/ (f = p /\ u = p)
  BY <1>2, <1>7, <1>9 DEF First, Told
<1>11. Queues' /\ LockIsLast' /\ Chain'
  <2>1. \A u \in Thread :
           /\ MyNode(u)' = MyNode(u) /\ th'[u].lock = th[u].lock
           /\ next'[MyNode(u)] = next[MyNode(u)]
           /\ th'[u].pc = "link" <=> th[u].pc = "link"
           /\ th[u].pc = "link" => th'[u].other = th[u].other
    BY <1>2, <1>7, <1>9
  <2>2. \A u \in Thread : (Queued(u)' <=> Queued(u)) /\ (McsHolds(u)' => McsHolds(u))
    BY <1>3, <1>9
  <2> QED BY <1>2, <2>1, <2>2, QueuesKept
<1>12. \A u \in Thread : MyNode(u) \in Node /\ MyNode(u)[1] = u /\ NewNode(u) \in Node
  BY <1>2, Nodes
<1>13. NewNodes'
  <2>1. \A u \in Thread : th'[u].pc \in {"swap", "try"} =>
           /\ u # t /\ th'[u] = th[u] /\ MyNode(u) # q
    BY <1>4, <1>7, Fresh
  <2>2. \A u \in Thread : th'[u].pc = "move" => u # t /\ th'[u] = th[u] /\ NewNode(u) # q
    <3>1. \A u \in Thread : th[u].pc = "move" => th[u].node = "own"
      BY DEF McsInv, NewNodes
    <3> QED BY <1>4, <1>7, <3>1, Fresh
  <2>3. \A u \in Thread :
           /\ MyNode(u) # q => /\ flag'[MyNode(u)]["next"] = flag[MyNode(u)]["next"]
                               /\ flag'[MyNode(u)]["ready"] = flag[MyNode(u)]["ready"]
           /\ NewNode(u) # q => flag'[NewNode(u)]["next"] = flag[NewNode(u)]["next"]
    BY <1>7, <1>12 DEF Which
  <2> QED BY <1>2, <1>9, <2>1, <2>2, <2>3, NewNodesKept
<1>14. OneSuccessor'
  <2>1. \A n \in Node : Born(n) => Born(n)'
    BY <1>2, <1>7 DEF Born, Node
  <2> QED BY <1>2, <1>7, <1>9, <2>1, SuccessorsKept
<1>15. Successors'
  <2>1. \A u \in Thread : Linking(u)' => Untold(th[u].other)'
    <3> SUFFICES ASSUME NEW u \in Thread, Linking(u)' PROVE Untold(th[u].other)'
      OBVIOUS
    <3>1. u # t /\ Linking(u) /\ th'[u] = th[u]
      BY <1>7, <1>9
    <3>2. PICK m : m = th[u].other
      OBVIOUS
    <3>3. m \in Node /\ m # q /\ Untold(m) /\ m[1] \in Thread
      BY <1>1, <1>3, <3>1, <3>2 DEF McsInv, OneSuccessor, Successors, Node
    <3>4. Untold(m)'
      <4>1. flag'[m]["next"] = flag[m]["next"]
        BY <1>7, <3>3 DEF Which
      <4>2. m = MyNode(m[1]) /\ f = p => m[1] # p
        BY <1>6, <3>3
      <4>3. CASE flag[m]["next"] = "clear"
        BY <4>1, <4>3 DEF Untold
      <4>4. CASE flag[m]["next"] = m[1] /\ Asleep(m[1], "next") /\ m = MyNode(m[1]) /\ ~Told(m[1])
        <5>1. m[1] # t
          BY <1>3, <4>4
        <5>2. MyNode(m[1])' = m /\ Asleep(m[1], "next")'
          BY <1>9, <3>3, <4>4, <5>1
        <5>3. ~Told(m[1])'
          BY <1>10, <3>3, <4>2, <4>4
        <5> QED BY <4>1, <4>4, <5>2, <5>3 DEF Untold
      <4> QED BY <3>3, <4>3, <4>4 DEF Untold
    <3> QED BY <3>1, <3>2, <3>4
  <2>2. \A u \in Thread : th'[u].pc = "tell" => next'[th'[u].other] # Null
    BY <1>2, <1>7 DEF McsInv, Successors
  <2>3. \A n \in Node : flag'[n]["next"] = "set" => next'[n] # Null
    BY <1>2, <1>4, <1>7 DEF McsInv, Successors, Which
  <2>4. \A u \in Thread : McsHolds(u)' /\ th'[u].pc \in {"await", "store", "sleep", "move"} =>
           lock'[th'[u].lock] # MyNode(u)'
    BY <1>2, <1>7, <1>9 DEF McsInv, Successors
  <2>5. /\ \A u \in Thread : th'[u].pc \in {"reread", "pass"} => next'[MyNode(u)'] # Null
        /\ \A u \in Thread : th'[u].pc = "pass" => th'[u].other = next'[MyNode(u)']
    BY <1>2, <1>7, <1>9 DEF McsInv, Successors
  <2> QED BY <1>7, <2>1, <2>2, <2>3, <2>4, <2>5 DEF Successors
<1>16. Flags'
  <2>1. \A m \in Node, w \in Which : flag'[m][w] \in {"clear", "set", m[1]}
    BY <1>5, <1>6, <1>7 DEF McsInv, Flags
  <2>2. \A u \in Thread :
          /\ flag'[MyNode(u)]["ready"] = flag[MyNode(u)]["ready"]
          /\ flag'[MyNode(u)]["next"] = u => flag[MyNode(u)]["next"] = u
    BY <1>1, <1>6, <1>7, <1>12 DEF Which
  <2>3. \A u \in Thread : (Queued(u)' <=> Queued(u)) /\ (McsHolds(u)' <=> McsHolds(u))
                          /\ MyNode(u)' = MyNode(u)
                          /\ \A w : Asleep(u, w)' <=> Asleep(u, w)
    BY <1>3, <1>9
  <2>4. \A u \in Thread : Queued(u)' /\ flag'[MyNode(u)']["next"] = u =>
           Asleep(u, "next")' \/ th'[u].pc \in {"reread", "pass"}
    BY <1>2, <1>7, <2>2, <2>3 DEF McsInv, Flags
  <2>5. /\ \A u \in Thread :
             Queued(u)' /\ ~McsHolds(u)' /\ flag'[MyNode(u)']["ready"] = "set" => First(u)'
        /\ \A u \in Thread :
             Queued(u)' /\ ~McsHolds(u)' /\ flag'[MyNode(u)']["ready"] = u => Asleep(u, "ready")'
    BY <1>10, <2>2, <2>3 DEF McsInv, Flags
  <2> QED BY <2>1, <2>4, <2>5 DEF Flags
<1>17. Events'
  <2>1. \A u \in Thread : th'[u].pc = "store" => u \notin event'
    BY <1>2, <1>7 DEF McsInv, Events
  <2>2. \A u \in Thread : th'[u].pc = "signal" => th'[u].wake \in Thread /\ th'[u].w = "ready"
    BY <1>7 DEF McsInv, Events
  <2>3. f = p => th[p].pc = "sleep" /\ p \notin event /\ \A u \in Thread : ~Wakes(u, p)
    BY <1>6 DEF Asleep, Told
  <2>4. \A u, v \in Thread : Wakes(u, v)' => th'[v].pc = "sleep" /\ v \notin event'
    <3> SUFFICES ASSUME NEW u \in Thread, NEW v \in Thread, Wakes(u, v)'
                 PROVE  th'[v].pc = "sleep" /\ v \notin event'
      OBVIOUS
    <3>1. th[v].pc = "sleep" /\ v \notin event
      BY <1>9, <2>3 DEF McsInv, Events
    <3> QED BY <1>2, <1>7, <3>1
  <2>5. \A u, s, v \in Thread : Wakes(u, v)' /\ Wakes(s, v)' => u = s
    BY <1>9, <2>3 DEF McsInv, Events
  <2>6. \A u \in Thread : Asleep(u, "ready")' /\ Told(u)' => First(u)'
    <3>1. f = p => ~Asleep(p, "ready")
      BY <1>6 DEF Asleep
    <3> QED BY <1>3, <1>9, <1>10, <3>1 DEF McsInv, Events
  <2>7. \A u \in Thread : Asleep(u, "next")' /\ Told(u)' => next'[MyNode(u)'] # Null
    BY <1>2, <1>3, <1>4, <1>6, <1>9, <1>10 DEF McsInv, Events
  <2> QED BY <2>1, <2>2, <2>4, <2>5, <2>6, <2>7 DEF Events
<1>18. crashed' = FALSE
  BY <1>2 DEF McsInv
<1> QED BY <1>8, <1>11, <1>13, <1>14, <1>15, <1>16, <1>17, <1>18 DEF McsInv

-----------------------------------------------------------------------------
(* The steps that begin with a node *)

\* A call to acquire, or to try, initialises a new node.
LEMMA InitialiseKept ==
  ASSUME Reuse = FALSE, McsInv, NEW t \in Thread, NEW k \in Lock, NEW pc \in {"swap", "try"},
         Initialise(t, k, pc)
  PROVE  McsInv'
<1>1. PICK r, n : r = th[t].round + 1 /\ n = <<t, r, "own">>
  OBVIOUS
<1>2. /\ th[t].pc = "out" /\ th[t].round < Rounds /\ Types
      /\ UNCHANGED <<lock, event, order, crashed>>
      /\ th' = [th EXCEPT ![t].pc = pc, ![t].lock = k, ![t].round = r, ![t].node = "own"]
      /\ flag' = [flag EXCEPT ![n] = [w \in Which |-> "clear"]]
      /\ next' = [next EXCEPT ![n] = Null]
  BY <1>1 DEF McsInv, Initialise
<1>3. th[t].round \in 0..Rounds /\ r \in 0..Rounds /\ th[t].round \in Nat /\ r = th[t].round + 1
  <2>1. th[t].round \in 0..Rounds
    BY <1>2 DEF Types, Local
  <2> QED BY <1>1, <1>2, <2>1, RoundsAssumption
<1>4. /\ th' \in [Thread -> Local]
      /\ \A u \in Thread : u # t => th'[u] = th[u]
      /\ th'[t].pc = pc /\ th'[t].lock = k /\ th'[t].round = r /\ th'[t].node = "own"
  <2>1. pc \in Pc /\ th \in [Thread -> Local] /\ r \in 0..Rounds
    BY <1>2, <1>3 DEF Types, Pc
  <2>2. th[t] \in Local /\ t \in Thread
    BY <2>1
  <2>3. [th[t] EXCEPT !.pc = pc, !.lock = k, !.round = r, !.node = "own"] \in Local
    BY <2>1, <2>2 DEF Local
  <2>4. th' = [th EXCEPT ![t] = [th[t] EXCEPT !.pc = pc, !.lock = k, !.round = r, !.node = "own"]]
    BY <1>2
  <2>5. /\ th' \in [Thread -> Local]
        /\ \A u \in Thread : u # t => th'[u] = th[u]
        /\ th'[t] = [th[t] EXCEPT !.pc = pc, !.lock = k, !.round = r, !.node = "own"]
    BY <2>1, <2>3, <2>4
  <2> QED BY <2>2, <2>5 DEF Local
<1>5. n \in Node /\ ~Born(n) /\ n[1] = t
  <2>1. n \in Node
    BY <1>1, <1>3 DEF Node
  <2>2. n[1] = t /\ n[2] = r
    BY <1>1
  <2> QED BY <1>3, <2>1, <2>2 DEF Born
<1>6. /\ next' \in [Node -> Node \cup {Null}] /\ next'[n] = Null
      /\ \A m \in Node : m # n => next'[m] = next[m]
      /\ flag' \in [Node -> [Which -> {"clear", "set"} \cup Thread]]
      /\ \A w \in Which : flag'[n][w] = "clear"
      /\ \A m \in Node : m # n => flag'[m] = flag[m]
  BY <1>2, <1>5 DEF Types
<1>7. Types'
  BY <1>2, <1>4, <1>6 DEF Types
<1>8. \A u \in Thread : MyNode(u) \in Node /\ MyNode(u)[1] = u
                        /\ NewNode(u) \in Node /\ NewNode(u)[1] = u
  BY <1>2, Nodes
<1>9. /\ \A u \in Thread : u # t =>
           /\ MyNode(u)' = MyNode(u) /\ NewNode(u)' = NewNode(u)
           /\ Queued(u)' <=> Queued(u)
           /\ McsHolds(u)' <=> McsHolds(u)
           /\ Linking(u)' <=> Linking(u)
           /\ MyNode(u) # n /\ NewNode(u) # n
      /\ MyNode(t)' = n
      /\ ~Queued(t) /\ ~Queued(t)' /\ ~McsHolds(t)' /\ ~Linking(t) /\ ~Linking(t)'
  <2>1. /\ MyNode(t)' = n
        /\ ~Queued(t) /\ ~Queued(t)' /\ ~McsHolds(t)' /\ ~Linking(t) /\ ~Linking(t)'
    BY <1>1, <1>2, <1>4 DEF MyNode, Round, Queued, McsHolds, Linking
  <2> QED BY <1>4, <1>5, <1>8, <2>1, Others
<1>10. \A u \in Thread : u # t => (First(u)' <=> First(u))
  BY <1>2, <1>4 DEF First
<1>11. Queues' /\ LockIsLast' /\ Chain'
  <2>1. \A u \in Thread : Queued(u) =>
          /\ MyNode(u)' = MyNode(u) /\ th'[u].lock = th[u].lock
          /\ next'[MyNode(u)] = next[MyNode(u)]
          /\ th'[u].pc = "link" <=> th[u].pc = "link"
          /\ th[u].pc = "link" => th'[u].other = th[u].other
    BY <1>4, <1>6, <1>8, <1>9
  <2>2. \A u \in Thread : (Queued(u)' <=> Queued(u)) /\ (McsHolds(u)' => McsHolds(u))
    BY <1>9
  <2> QED BY <1>2, <2>1, <2>2, QueuesKept
<1>12. NewNodes'
  <2>1. /\ \A u \in Thread : u # t /\ th'[u].pc \in {"swap", "try"} =>
             /\ th'[u].node = "own" /\ next'[MyNode(u)'] = Null
             /\ flag'[MyNode(u)']["next"] = "clear" /\ flag'[MyNode(u)']["ready"] = "clear"
        /\ \A u \in Thread : u # t /\ th'[u].pc = "move" =>
             th'[u].node = "own" /\ flag'[NewNode(u)']["next"] = "clear"
    <3>1. \A u \in Thread : u # t =>
            /\ th'[u] = th[u] /\ MyNode(u)' = MyNode(u) /\ NewNode(u)' = NewNode(u)
            /\ next'[MyNode(u)] = next[MyNode(u)] /\ flag'[MyNode(u)] = flag[MyNode(u)]
            /\ flag'[NewNode(u)] = flag[NewNode(u)]
      BY <1>4, <1>6, <1>8, <1>9
    <3> QED BY <3>1 DEF McsInv, NewNodes
  <2>2. /\ th'[t].node = "own" /\ next'[MyNode(t)'] = Null /\ th'[t].pc # "move"
        /\ flag'[MyNode(t)']["next"] = "clear" /\ flag'[MyNode(t)']["ready"] = "clear"
    BY <1>4, <1>6, <1>9 DEF Which
  <2> QED BY <2>1, <2>2 DEF NewNodes
<1>13. \A m \in Node : Born(m) => Born(m)' /\ m # n
  <2> SUFFICES ASSUME NEW m \in Node, Born(m) PROVE Born(m)'
    BY <1>5
  <2>1. m[1] \in Thread /\ m[2] \in Nat
    BY RoundsAssumption DEF Node
  <2>2. CASE m[1] = t
    BY <1>3, <1>4, <2>1, <2>2 DEF Born
  <2>3. CASE m[1] # t
    BY <1>4, <2>1, <2>3 DEF Born
  <2> QED BY <2>2, <2>3
<1>14. OneSuccessor'
  BY <1>2, <1>4, <1>9, <1>13, SuccessorsKept
<1>15. \A m \in Node : Born(m) => next'[m] = next[m] /\ flag'[m] = flag[m]
  BY <1>6, <1>13
<1>16. \A u \in Thread : u # t /\ Linking(u) => Untold(th[u].other)'
  BY <1>2, <1>4, <1>10, <1>15, AwakeParts
<1>17. Successors'
  <2>1. \A u \in Thread : Linking(u)' => Untold(th[u].other)'
    BY <1>9, <1>16
  <2>2. \A u \in Thread : th'[u].pc = "tell" => next'[th'[u].other] # Null
    <3> SUFFICES ASSUME NEW u \in Thread, th'[u].pc = "tell" PROVE next'[th'[u].other] # Null
      OBVIOUS
    <3>1. th'[u] = th[u] /\ Linking(u)
      BY <1>4 DEF Linking
    <3>2. th[u].other \in Node /\ Born(th[u].other)
      BY <3>1 DEF McsInv, OneSuccessor
    <3> QED BY <1>15, <3>1, <3>2 DEF McsInv, Successors
  <2>3. \A m \in Node : flag'[m]["next"] = "set" => next'[m] # Null
    BY <1>6 DEF McsInv, Successors, Which
  <2>4. \A u \in Thread : McsHolds(u)' /\ th'[u].pc \in {"await", "store", "sleep", "move"} =>
           lock'[th'[u].lock] # MyNode(u)'
    BY <1>2, <1>4, <1>9 DEF McsInv, Successors
  <2>5. /\ \A u \in Thread : th'[u].pc \in {"reread", "pass"} => next'[MyNode(u)'] # Null
        /\ \A u \in Thread : th'[u].pc = "pass" => th'[u].other = next'[MyNode(u)']
    BY <1>4, <1>6, <1>8, <1>9 DEF McsInv, Successors
  <2> QED BY <1>9, <2>1, <2>2, <2>3, <2>4, <2>5 DEF Successors
<1>18. Flags'
  <2>1. \A m \in Node, w \in Which : flag'[m][w] \in {flag[m][w], "clear"}
    BY <1>6
  <2>2. \A m \in Node, w \in Which : Born(m) => flag'[m][w] = flag[m][w]
    BY <1>15
  <2> QED BY <1>2, <1>4, <1>9, <1>10, <2>1, <2>2, AwakeFlags
<1>19. Events'
  BY <1>2, <1>4, <1>10, <1>15, AwakeEvents
<1>20. crashed' = FALSE
  BY <1>2 DEF McsInv
<1> QED BY <1>7, <1>11, <1>12, <1>14, <1>17, <1>18, <1>19, <1>20 DEF McsInv

\* The node is put at the end of the queue.
LEMMA ArriveKept ==
  ASSUME Reuse = FALSE, McsInv, NEW t \in Thread, NEW k, k = th[t].lock,
         th[t].pc \in {"swap", "try"},
         UNCHANGED <<next, flag, event, crashed>>,
         lock' = [lock EXCEPT ![k] = MyNode(t)],
         order' = [order EXCEPT ![k] = Append(order[k], t)],
         th' \in [Thread -> Local],
         \A u \in Thread : u # t => th'[u] = th[u],
         th'[t].lock = th[t].lock, th'[t].round = th[t].round, th'[t].node = th[t].node,
         \/ lock[k] = Null /\ th'[t].pc = "held"
         \/ lock[k] # Null /\ th'[t].pc = "link" /\ th'[t].other = lock[k]
  PROVE  McsInv'
<1>1. Types /\ k \in Lock
  BY DEF McsInv, Types, Local
<1>2. PICK n, z : n = MyNode(t) /\ z = Len(order[k])
  OBVIOUS
<1>3. \A u \in Thread : MyNode(u) \in Node /\ MyNode(u)[1] = u /\ MyNode(u) # Null
                        /\ NewNode(u) \in Node
  BY <1>1, Nodes
<1>4. /\ lock' \in [Lock -> Node \cup {Null}] /\ lock'[k] = n
      /\ \A l \in Lock : l # k => lock'[l] = lock[l]
  BY <1>1, <1>2, <1>3 DEF Types
<1>5. /\ order[k] \in Seq(Thread) /\ z \in Nat /\ order' \in [Lock -> Seq(Thread)]
      /\ Len(order'[k]) = z + 1 /\ order'[k][z + 1] = t
      /\ \A i \in 1..z : order'[k][i] = order[k][i]
      /\ \A l \in Lock : l # k => order'[l] = order[l]
  <2>1. order[k] \in Seq(Thread) /\ order'[k] = Append(order[k], t) /\ z \in Nat
    BY <1>1, <1>2 DEF Types
  <2>2. Append(order[k], t) \in Seq(Thread)
    BY <2>1
  <2>3. order' \in [Lock -> Seq(Thread)] /\ \A l \in Lock : l # k => order'[l] = order[l]
    BY <1>1, <2>2 DEF Types
  <2> QED BY <1>2, <2>1, <2>3
<1>6. Types'
  BY <1>1, <1>4, <1>5 DEF Types
<1>7. /\ ~Queued(t) /\ ~McsHolds(t) /\ ~Linking(t) /\ ~Born(n)
      /\ Queued(t)' /\ MyNode(t)' = n
      /\ McsHolds(t)' <=> th'[t].pc = "held"
      /\ Linking(t)' <=> th'[t].pc = "link"
  BY <1>2, Fresh DEF Queued, McsHolds, Linking, MyNode, Round
<1>8. \A u \in Thread : u # t =>
         /\ MyNode(u)' = MyNode(u) /\ NewNode(u)' = NewNode(u)
         /\ Queued(u)' <=> Queued(u)
         /\ McsHolds(u)' <=> McsHolds(u)
         /\ Linking(u)' <=> Linking(u)
  BY Others
<1>9. /\ (z = 0) <=> (lock[k] = Null)
      /\ z = 0 <=> th'[t].pc = "held"
  <2>1. z # 0 => lock[k] # Null
    <3> SUFFICES ASSUME z # 0 PROVE lock[k] # Null
      OBVIOUS
    <3>1. z \in 1..z
      BY <1>5
    <3> QED BY <1>1, <1>2, <1>3, <3>1, InChain, SMTT(40)
  <2>2. z = 0 => lock[k] = Null
    BY <1>1, <1>2 DEF McsInv, LockIsLast
  <2> QED BY <2>1, <2>2
<1>10. \A u \in Thread : u # t /\ First(u) => First(u)'
  <2> SUFFICES ASSUME NEW u \in Thread, u # t, First(u) PROVE First(u)'
    OBVIOUS
  <2>1. CASE th[u].lock = k
    <3>1. 1 \in 1..z
      BY <1>2, <1>5, <2>1 DEF First
    <3> QED BY <1>2, <1>5, <2>1, <3>1 DEF First
  <2>2. CASE th[u].lock # k
    <3>1. th[u].lock \in Lock
      BY <1>1 DEF Types, Local
    <3> QED BY <1>5, <2>2, <3>1 DEF First
  <2> QED BY <2>1, <2>2
<1>11. \A i \in 1..z : order[k][i] \in Thread /\ order[k][i] # t
  BY <1>1, <1>2, <1>7, InQueue, SMTT(40)
<1>12. Queues'
  <2>1. ASSUME NEW l \in Lock, NEW i \in 1..Len(order'[l]), NEW j \in 1..Len(order'[l]),
               order'[l][i] = order'[l][j]
        PROVE  i = j
    <3>1. CASE l # k
      BY <1>5, <2>1, <3>1 DEF McsInv, Queues
    <3>2. CASE l = k
      <4>1. /\ i \in 1..z \/ i = z + 1
            /\ j \in 1..z \/ j = z + 1
        BY <1>5, <3>2
      <4>2. CASE i \in 1..z /\ j \in 1..z
        BY <1>1, <1>2, <1>5, <2>1, <3>2, <4>2 DEF McsInv, Queues
      <4>3. CASE i = z + 1 /\ j \in 1..z
        BY <1>5, <1>11, <2>1, <3>2, <4>3
      <4>4. CASE i \in 1..z /\ j = z + 1
        BY <1>5, <1>11, <2>1, <3>2, <4>4
      <4> QED BY <4>1, <4>2, <4>3, <4>4
    <3> QED BY <3>1, <3>2
  <2>2. ASSUME NEW l \in Lock, NEW i \in 1..Len(order'[l]), NEW u, u = order'[l][i]
        PROVE  Queued(u)' /\ th'[u].lock = l
    <3>1. CASE l # k
      <4>1. u \in Thread /\ Queued(u) /\ th[u].lock = l
        BY <1>5, <2>2, <3>1, InQueue
      <4>2. u # t
        BY <1>7, <4>1
      <4> QED BY <1>8, <4>1, <4>2
    <3>2. CASE l = k
      <4>1. i \in 1..z \/ i = z + 1
        BY <1>5, <3>2
      <4>2. CASE i \in 1..z
        <5>1. u \in Thread /\ Queued(u) /\ th[u].lock = k /\ u # t
          BY <1>1, <1>2, <1>5, <1>11, <2>2, <3>2, <4>2, InQueue
        <5> QED BY <1>8, <3>2, <5>1
      <4>3. CASE i = z + 1
        BY <1>5, <1>7, <2>2, <3>2, <4>3
      <4> QED BY <4>1, <4>2, <4>3
    <3> QED BY <3>1, <3>2
  <2>3. ASSUME NEW u \in Thread, Queued(u)'
        PROVE  \E i \in 1..Len(order'[th'[u].lock]) : order'[th'[u].lock][i] = u
    <3>1. CASE u = t
      <4>1. z + 1 \in 1..Len(order'[k])
        BY <1>5
      <4> QED BY <1>5, <3>1, <4>1
    <3>2. CASE u # t
      <4>1. Queued(u) /\ th'[u] = th[u] /\ th[u].lock \in Lock
        BY <1>1, <1>8, <2>3, <3>2 DEF Types, Local
      <4>2. PICK i \in 1..Len(order[th[u].lock]) : order[th[u].lock][i] = u
        BY <4>1 DEF McsInv, Queues
      <4>3. CASE th[u].lock = k
        <5>1. i \in 1..z /\ i \in 1..(z + 1)
          BY <1>2, <1>5, <4>2, <4>3
        <5> QED BY <1>5, <4>1, <4>2, <4>3, <5>1
      <4>4. CASE th[u].lock # k
        BY <1>5, <4>1, <4>2, <4>4
      <4> QED BY <4>3, <4>4
    <3> QED BY <3>1, <3>2
  <2>4. \A u \in Thread : McsHolds(u)' => First(u)'
    <3>1. McsHolds(t)' => First(t)'
      <4> SUFFICES ASSUME McsHolds(t)' PROVE First(t)'
        OBVIOUS
      <4>1. z = 0
        BY <1>7, <1>9
      <4> QED BY <1>5, <4>1 DEF First
    <3>2. \A u \in Thread : u # t /\ McsHolds(u)' => First(u)'
      BY <1>8, <1>10 DEF McsInv, Queues
    <3> QED BY <3>1, <3>2
  <2> QED BY <2>1, <2>2, <2>3, <2>4 DEF Queues
<1>13. LockIsLast'
  <2>1. ASSUME NEW l \in Lock, Len(order'[l]) = 0 PROVE lock'[l] = Null
    <3>1. l # k
      BY <1>5, <2>1
    <3> QED BY <1>4, <1>5, <2>1, <3>1 DEF McsInv, LockIsLast
  <2>2. ASSUME NEW l \in Lock, NEW i \in 1..Len(order'[l]), NEW p \in Thread,
               i = Len(order'[l]), order'[l][i] = p
        PROVE  lock'[l] = MyNode(p)'
    <3>1. CASE l = k
      BY <1>4, <1>5, <1>7, <2>2, <3>1
    <3>2. CASE l # k
      <4>1. lock'[l] = MyNode(p) /\ Queued(p)
        BY <1>4, <1>5, <2>2, <3>2, InChain
      <4> QED BY <1>7, <1>8, <4>1
    <3> QED BY <3>1, <3>2
  <2> QED BY <1>6, <2>1, <2>2, LastAfter
<1>14. PICK q : q = lock[k]
  OBVIOUS
<1>15. th'[t].pc = "link" => /\ th'[t].other = q /\ z \in 1..z /\ order[k][z] \in Thread
                             /\ q = MyNode(order[k][z]) /\ Queued(order[k][z])
                             /\ next[q] = Null /\ order[k][z] # t
  <2> SUFFICES ASSUME th'[t].pc = "link"
               PROVE  /\ th'[t].other = q /\ z \in 1..z /\ order[k][z] \in Thread
                      /\ q = MyNode(order[k][z]) /\ Queued(order[k][z])
                      /\ next[q] = Null /\ order[k][z] # t
    OBVIOUS
  <2>1. z \in 1..z
    BY <1>5, <1>9
  <2>2. PICK p : p = order[k][z]
    OBVIOUS
  <2>3. /\ p \in Thread /\ Queued(p)
        /\ next[MyNode(p)] = Null /\ q = MyNode(p)
    BY <1>1, <1>2, <1>14, <2>1, <2>2, InChain
  <2> QED BY <1>11, <1>14, <2>1, <2>2, <2>3
<1>16. Chain'
  <2>1. \A u \in Thread : th'[u].pc = "link" => ~First(u)'
    <3>1. th'[t].pc = "link" => ~First(t)'
      <4> SUFFICES ASSUME th'[t].pc = "link", First(t)' PROVE FALSE
        OBVIOUS
      <4>1. z \in 1..z /\ 1 \in 1..z
        BY <1>5, <1>9
      <4> QED BY <1>5, <1>11, <4>1 DEF First
    <3>2. ASSUME NEW u \in Thread, u # t, th'[u].pc = "link" PROVE ~First(u)'
      <4>1. th[u].pc = "link" /\ Queued(u) /\ ~First(u) /\ th[u].lock \in Lock /\ th'[u] = th[u]
        BY <1>1, <3>2 DEF McsInv, Chain, Queued, Types, Local
      <4>2. PICK i \in 1..Len(order[th[u].lock]) : order[th[u].lock][i] = u
        BY <4>1 DEF McsInv, Queues
      <4>3. Len(order[th[u].lock]) \in Nat
        BY <4>1, InQueue
      <4>4. 1 \in 1..Len(order[th[u].lock]) /\ order[th[u].lock][1] # u
        BY <4>1, <4>2, <4>3 DEF First
      <4>5. CASE th[u].lock = k
        BY <1>2, <1>5, <4>1, <4>4, <4>5 DEF First
      <4>6. CASE th[u].lock # k
        BY <1>5, <4>1, <4>4, <4>6 DEF First
      <4> QED BY <4>5, <4>6
    <3> QED BY <3>1, <3>2
  <2>2. ASSUME NEW l \in Lock, NEW i \in 1..Len(order'[l]), NEW p \in Thread, NEW s \in Thread,
               order'[l][i] = p
        PROVE /\ i = Len(order'[l]) => next'[MyNode(p)'] = Null
              /\ i < Len(order'[l]) /\ order'[l][i + 1] = s => Follows(p, s)'
    <3>1. p # t /\ s # t /\ Follows(p, s) => Follows(p, s)'
      BY <1>8 DEF Follows
    <3>2. CASE l # k
      <4>1. /\ Queued(p)
            /\ i = Len(order[l]) => next[MyNode(p)] = Null
            /\ i < Len(order[l]) /\ order[l][i + 1] = s => Queued(s) /\ Follows(p, s)
        BY <1>5, <2>2, <3>2, InChain
      <4> QED BY <1>5, <1>7, <1>8, <3>1, <3>2, <4>1
    <3>3. CASE l = k /\ i = z + 1
      <4>1. p = t /\ next[n] = Null
        BY <1>2, <1>5, <2>2, <3>3 DEF McsInv, NewNodes
      <4>2. ~(i < Len(order'[l]))
        BY <1>5, <3>3
      <4> QED BY <1>7, <4>1, <4>2
    <3>4. CASE l = k /\ i = z /\ z # 0
      <4>1. /\ i # Len(order'[l]) /\ order'[l][i + 1] = t /\ order[k][z] = p
            /\ th'[t].pc = "link"
        BY <1>5, <1>9, <2>2, <3>4
      <4>2. Follows(p, t)'
        BY <1>8, <1>15, <4>1 DEF Follows
      <4> QED BY <4>1, <4>2
    <3>5. CASE l = k /\ i \in 1..z /\ i # z
      <4>1. i < z /\ i + 1 \in 1..z /\ i # Len(order'[l]) /\ order[k][i] = p
        BY <1>5, <2>2, <3>5
      <4>2. order'[l][i + 1] = s => Follows(p, s) /\ s # t /\ p # t
        BY <1>1, <1>2, <1>5, <1>11, <3>5, <4>1, InChain
      <4> QED BY <3>1, <4>1, <4>2
    <3>6. l = k => i = z + 1 \/ (i = z /\ z # 0) \/ (i \in 1..z /\ i # z)
      BY <1>5
    <3> QED BY <3>2, <3>3, <3>4, <3>5, <3>6
  <2> QED BY <1>6, <2>1, <2>2, ChainAfter
<1>17. NewNodes'
  <2>1. \A u \in Thread : th'[u].pc \in {"swap", "try", "move"} => u # t
    OBVIOUS
  <2> QED BY <1>8, <2>1, NewNodesKept
<1>18. \A m \in Node : Born(m) => Born(m)'
  <2>1. th'[t].pc \notin {"swap", "try"}
    OBVIOUS
  <2>2. \A m \in Node : m[1] \in Thread
    BY DEF Node
  <2> QED BY <2>1, <2>2, BornKept
<1>19. th'[t].pc = "link" => Born(q) /\ q \in Node
  BY <1>3, <1>15, Fresh
<1>20. OneSuccessor'
  <2>1. \A u \in Thread : u # t /\ Linking(u)' =>
          /\ Linking(u) /\ th'[u].other = th[u].other
          /\ th[u].other \in Node /\ Born(th[u].other)
          /\ \A l \in Lock : th[u].other # lock[l]
    BY <1>8 DEF McsInv, OneSuccessor
  <2>2. \A u \in Thread : Linking(u)' => th'[u].other \in Node /\ Born(th[u].other)'
    <3> SUFFICES ASSUME NEW u \in Thread, Linking(u)'
                 PROVE  th'[u].other \in Node /\ Born(th[u].other)'
      OBVIOUS
    <3>1. PICK m : m = th'[u].other
      OBVIOUS
    <3>2. m \in Node /\ Born(m)
      BY <1>7, <1>15, <1>19, <2>1, <3>1
    <3>3. Born(m)'
      BY <1>18, <3>2
    <3> QED BY <3>1, <3>2, <3>3 DEF Born
  <2>3. \A u, v \in Thread : Linking(u)' /\ Linking(v)' /\ th'[u].other = th'[v].other => u = v
    <3>1. \A u \in Thread : u # t /\ Linking(u)' /\ Linking(t)' => th'[u].other # th'[t].other
      BY <1>1, <1>7, <1>14, <1>15, <2>1
    <3>2. \A u, v \in Thread : u # t /\ v # t /\ Linking(u)' /\ Linking(v)'
                               /\ th'[u].other = th'[v].other => u = v
      BY <2>1 DEF McsInv, OneSuccessor
    <3> QED BY <3>1, <3>2
  <2>4. \A u \in Thread, l \in Lock : Linking(u)' => th'[u].other # lock'[l]
    <3>1. ASSUME NEW u \in Thread, NEW l \in Lock, u # t, Linking(u)'
          PROVE  th'[u].other # lock'[l]
      BY <1>4, <1>7, <2>1, <3>1
    <3>2. ASSUME NEW l \in Lock, Linking(t)'
          PROVE  th'[t].other # lock'[l]
      <4>1. PICK p : p = order[k][z]
        OBVIOUS
      <4>2. /\ th'[t].other = q /\ q = MyNode(p) /\ z \in 1..z /\ p \in Thread
            /\ Born(q) /\ th[p].lock = k
        BY <1>1, <1>2, <1>7, <1>15, <1>19, <3>2, <4>1, InQueue
      <4>3. CASE l = k
        BY <1>4, <1>7, <4>2, <4>3
      <4>4. CASE l # k
        <5>1. Len(order[l]) = 0 => lock[l] = Null
          BY DEF McsInv, LockIsLast
        <5>2. Len(order[l]) # 0 => lock[l] # q
          <6> SUFFICES ASSUME Len(order[l]) # 0, lock[l] = q PROVE FALSE
            OBVIOUS
          <6>1. PICK i, s : i = Len(order[l]) /\ s = order[l][i]
            OBVIOUS
          <6>2. i \in 1..Len(order[l])
            BY <6>1, InQueue
          <6>3. s \in Thread /\ th[s].lock = l /\ lock[l] = MyNode(s)
            BY <6>1, <6>2, InChain
          <6> QED BY <1>3, <4>2, <4>4, <6>3
        <5> QED BY <1>3, <1>4, <4>2, <4>4, <5>1, <5>2
      <4> QED BY <4>3, <4>4
    <3> QED BY <3>1, <3>2
  <2> QED BY <2>2, <2>3, <2>4 DEF OneSuccessor
<1>21. \A u \in Thread : u # t /\ Linking(u) => Untold(th[u].other)'
  BY <1>10, AwakeParts
<1>22. th'[t].pc = "link" => flag[q]["next"] = "clear"
  <2> SUFFICES ASSUME th'[t].pc = "link" PROVE flag[q]["next"] = "clear"
    OBVIOUS
  <2>1. PICK p : p = order[k][z]
    OBVIOUS
  <2>2. /\ q = MyNode(p) /\ p \in Thread /\ Queued(p) /\ next[q] = Null /\ q \in Node /\ q[1] = p
        /\ th[p].lock = k /\ lock[k] = q
    BY <1>1, <1>2, <1>3, <1>14, <1>15, <2>1, InQueue
  <2>3. flag[q]["next"] \in {"clear", "set", p}
    BY <2>2 DEF McsInv, Flags, Which
  <2>4. flag[q]["next"] # "set"
    BY <2>2 DEF McsInv, Successors
  <2>5. flag[q]["next"] # p
    <3> SUFFICES ASSUME flag[q]["next"] = p PROVE FALSE
      OBVIOUS
    <3>1. Asleep(p, "next") \/ th[p].pc \in {"reread", "pass"}
      BY <2>2 DEF McsInv, Flags
    <3>2. Asleep(p, "next") => McsHolds(p)
      BY DEF Asleep, McsHolds
    <3> QED BY <2>2, <3>1, <3>2 DEF McsInv, Successors, Asleep
  <2> QED BY <2>3, <2>4, <2>5
<1>23. Successors'
  <2>1. \A u \in Thread : Linking(u)' => Untold(th[u].other)'
    <3>1. Linking(t)' => Untold(th[t].other)'
      BY <1>7, <1>15, <1>22 DEF Untold
    <3>2. \A u \in Thread : u # t /\ Linking(u)' => Untold(th[u].other)'
      BY <1>8, <1>21
    <3> QED BY <3>1, <3>2
  <2>2. \A u \in Thread : th'[u].pc = "tell" => next'[th'[u].other] # Null
    BY DEF McsInv, Successors
  <2>3. \A m \in Node : flag'[m]["next"] = "set" => next'[m] # Null
    BY DEF McsInv, Successors
  <2>4. \A u \in Thread : McsHolds(u)' /\ th'[u].pc \in {"await", "store", "sleep", "move"} =>
           lock'[th'[u].lock] # MyNode(u)'
    <3> SUFFICES ASSUME NEW u \in Thread, McsHolds(u)',
                        th'[u].pc \in {"await", "store", "sleep", "move"}
                 PROVE  lock'[th'[u].lock] # MyNode(u)'
      OBVIOUS
    <3>1. u # t
      OBVIOUS
    <3>2. /\ th'[u] = th[u] /\ MyNode(u)' = MyNode(u) /\ th[u].lock \in Lock
          /\ lock[th[u].lock] # MyNode(u)
      BY <1>1, <1>8, <3>1 DEF McsInv, Successors, Types, Local
    <3> QED BY <1>2, <1>3, <1>4, <3>1, <3>2
  <2>5. /\ \A u \in Thread : th'[u].pc \in {"reread", "pass"} => next'[MyNode(u)'] # Null
        /\ \A u \in Thread : th'[u].pc = "pass" => th'[u].other = next'[MyNode(u)']
    BY <1>8 DEF McsInv, Successors
  <2> QED BY <2>1, <2>2, <2>3, <2>4, <2>5 DEF Successors
<1>24. Flags'
  <2>1. flag[n]["next"] = "clear" /\ flag[n]["ready"] = "clear" /\ t # "clear"
    BY <1>2, FlagAssumption DEF McsInv, NewNodes
  <2> QED BY <1>7, <1>10, <2>1, AwakeFlags
<1>25. Events'
  BY <1>10, AwakeEvents
<1>26. crashed' = FALSE
  BY DEF McsInv
<1> QED BY <1>6, <1>12, <1>13, <1>16, <1>17, <1>20, <1>23, <1>24, <1>25, <1>26 DEF McsInv

\* One that finds no other thread in the queue has the lock.
LEMMA SwapKept ==
  ASSUME Reuse = FALSE, McsInv, NEW t \in Thread, McsSwap(t)
  PROVE  McsInv'
<1>1. PICK k, q : k = th[t].lock /\ q = lock[k]
  OBVIOUS
<1>2. /\ th[t].pc = "swap" /\ Types /\ k \in Lock /\ q \in Node \cup {Null}
      /\ UNCHANGED <<next, flag, event, crashed>>
      /\ lock' = [lock EXCEPT ![k] = MyNode(t)]
      /\ order' = [order EXCEPT ![k] = Append(order[k], t)]
      /\ th' = [th EXCEPT ![t].pc = IF q = Null THEN "held" ELSE "link", ![t].other = q]
  BY <1>1 DEF McsInv, McsSwap, Types, Local
<1>3. PICK pc \in Pc : pc = IF q = Null THEN "held" ELSE "link"
  BY DEF Pc
<1>4. /\ th' \in [Thread -> Local]
      /\ \A u \in Thread : u # t => th'[u] = th[u]
      /\ th'[t].lock = th[t].lock /\ th'[t].round = th[t].round /\ th'[t].node = th[t].node
      /\ th'[t].pc = pc /\ th'[t].other = q
  <2>1. th' = [th EXCEPT ![t] = [th[t] EXCEPT !.pc = pc, !.other = q]]
    BY <1>2, <1>3
  <2>2. th \in [Thread -> Local] /\ th[t] \in Local /\ q \in Node \cup {Null}
    BY <1>2 DEF Types
  <2>3. [th[t] EXCEPT !.pc = pc, !.other = q] \in Local
    BY <2>2 DEF Local
  <2>4. /\ th' \in [Thread -> Local]
        /\ \A u \in Thread : u # t => th'[u] = th[u]
        /\ th'[t] = [th[t] EXCEPT !.pc = pc, !.other = q]
    BY <2>1, <2>2, <2>3
  <2> QED BY <2>2, <2>4 DEF Local
<1> QED BY <1>1, <1>2, <1>3, <1>4, ArriveKept, ZenonT(60)

LEMMA TryKept ==
  ASSUME Reuse = FALSE, McsInv, NEW t \in Thread, Try(t)
  PROVE  McsInv'
<1>1. PICK k, pc : k = th[t].lock /\ pc = IF lock[k] = Null THEN "held" ELSE "out"
  OBVIOUS
<1>2. /\ th[t].pc = "try" /\ Types /\ UNCHANGED <<next, flag, event, crashed>>
      /\ McsGoto(t, pc) /\ pc \in Pc
  BY <1>1 DEF McsInv, Try, Pc
<1>3. /\ th' \in [Thread -> Local]
      /\ \A u \in Thread : u # t => th'[u] = th[u]
      /\ th'[t].lock = th[t].lock /\ th'[t].round = th[t].round /\ th'[t].node = th[t].node
      /\ th'[t].pc = pc
  BY <1>2, Moved
<1>4. CASE lock[k] = Null
  <2>1. lock' = [lock EXCEPT ![k] = MyNode(t)] /\ order' = [order EXCEPT ![k] = Append(order[k], t)]
    BY <1>1, <1>4 DEF Try
  <2> QED BY <1>1, <1>2, <1>3, <1>4, <2>1, ArriveKept
<1>5. CASE lock[k] # Null
  <2>1. lock' = lock /\ order' = order
    BY <1>1, <1>5 DEF Try
  <2> QED BY <1>1, <1>2, <1>3, <1>5, <2>1, AwakeKept
<1> QED BY <1>4, <1>5

-----------------------------------------------------------------------------
(* The transfer to a new node *)

\* The lock holds the node of its holder if nobody waits, and then only.
LEMMA Alone ==
  ASSUME Reuse = FALSE, McsInv, NEW t \in Thread, McsHolds(t), NEW k, k = th[t].lock
  PROVE  /\ k \in Lock /\ Len(order[k]) \in Nat /\ 1 \in 1..Len(order[k]) /\ order[k][1] = t
         /\ Len(order[k]) = 1 => lock[k] = MyNode(t) /\ next[MyNode(t)] = Null
         /\ Len(order[k]) # 1 => lock[k] # MyNode(t)
<1>1. Types /\ k \in Lock
  BY DEF McsInv, Types, Local
<1>2. \A u \in Thread : MyNode(u)[1] = u
  BY <1>1, Nodes
<1>3. First(t) /\ Len(order[k]) \in Nat
  BY <1>1, InQueue DEF McsInv, Queues
<1>4. 1 \in 1..Len(order[k]) /\ order[k][1] = t
  BY <1>3 DEF First
<1>5. Len(order[k]) = 1 => lock[k] = MyNode(t) /\ next[MyNode(t)] = Null
  BY <1>1, <1>4, InChain
<1>6. ASSUME Len(order[k]) # 1 PROVE lock[k] # MyNode(t)
  <2>1. PICK z, p : z = Len(order[k]) /\ p = order[k][z]
    OBVIOUS
  <2>2. z \in 1..Len(order[k]) /\ z # 1
    BY <1>3, <1>4, <1>6, <2>1
  <2>3. /\ p \in Thread /\ lock[k] = MyNode(p)
        /\ \A j \in 1..Len(order[k]) : order[k][j] = p => z = j
    BY <1>1, <2>1, <2>2, InChain
  <2>4. p # t
    BY <1>4, <2>2, <2>3
  <2> QED BY <1>2, <2>3, <2>4
<1> QED BY <1>1, <1>3, <1>4, <1>5, <1>6

\* The new node takes the place of the old one in the lock, or is prepared for that, or gets
\* the old one's successor.
Moves(t, k, o, n) ==
  /\ k = th[t].lock /\ o = MyNode(t) /\ n = NewNode(t)
  /\ th[t].pc \in {"held", "move"} /\ th[t].node = "own"
  /\ UNCHANGED <<event, order, crashed>>
  /\ \A u \in Thread : u # t => th'[u] = th[u]
  /\ th'[t].lock = k /\ th'[t].round = th[t].round
  /\ \A m \in Node : m # n => next'[m] = next[m] /\ flag'[m] = flag[m]
  /\ flag'[n]["next"] = "clear" /\ flag'[n]["ready"] \in {flag[n]["ready"], "clear"}
  /\ \A l \in Lock : l # k => lock'[l] = lock[l]
  /\ \/ /\ lock[k] = o /\ lock'[k] = n /\ next'[n] = Null
        /\ th'[t].pc = "held" /\ th'[t].node = "new"
     \/ /\ lock[k] # o /\ lock'[k] = lock[k] /\ next'[n] = Null
        /\ th'[t].pc = "move" /\ th'[t].node = "own"
     \/ /\ next[o] # Null /\ lock'[k] = lock[k] /\ next'[n] = next[o]
        /\ th'[t].pc = "held" /\ th'[t].node = "new"

LEMMA MoveKept ==
  ASSUME Reuse = FALSE, McsInv, NEW t \in Thread, NEW k, NEW o, NEW n, Moves(t, k, o, n), Types'
  PROVE  McsInv'
<1> USE DEF Moves
<1>1. Types /\ k \in Lock
  BY DEF McsInv, Types, Local
<1>2. \A u \in Thread : /\ MyNode(u) \in Node /\ MyNode(u)[1] = u /\ MyNode(u) # Null
                        /\ NewNode(u) \in Node /\ NewNode(u)[1] = u
  BY <1>1, Nodes
<1>3. /\ Queued(t) /\ McsHolds(t) /\ ~Linking(t)
      /\ Queued(t)' /\ McsHolds(t)' /\ ~Linking(t)'
      /\ NewNode(t)' = n
      /\ th'[t].node = "own" => MyNode(t)' = o
      /\ th'[t].node = "new" => MyNode(t)' = n
  BY DEF Queued, McsHolds, Linking, MyNode, NewNode, Round
<1>4. o \in Node /\ n \in Node /\ ~Born(n) /\ Born(o) /\ o # n
  BY <1>2, <1>3, Fresh
<1>5. \A m \in Node : Born(m) => m # n /\ next'[m] = next[m] /\ flag'[m] = flag[m] /\ Born(m)'
  <2>1. \A m \in Node : m[1] \in Thread
    BY DEF Node
  <2> QED BY <1>4, <2>1, BornKept
<1>6. \A u \in Thread : u # t =>
         /\ MyNode(u)' = MyNode(u) /\ NewNode(u)' = NewNode(u)
         /\ Queued(u)' <=> Queued(u)
         /\ McsHolds(u)' <=> McsHolds(u)
         /\ Linking(u)' <=> Linking(u)
         /\ MyNode(u) # n /\ NewNode(u) # n /\ MyNode(u) # o
         /\ next'[MyNode(u)] = next[MyNode(u)] /\ flag'[MyNode(u)] = flag[MyNode(u)]
         /\ flag'[NewNode(u)] = flag[NewNode(u)]
  BY <1>2, Others
<1>7. \A u \in Thread : First(u)' <=> First(u)
  BY DEF First
<1>8. Queues'
  BY <1>3, <1>6, SameQueues
<1>9. /\ Len(order[k]) \in Nat /\ 1 \in 1..Len(order[k]) /\ order[k][1] = t
      /\ Len(order[k]) = 1 => lock[k] = o /\ next[o] = Null
      /\ Len(order[k]) # 1 => lock[k] # o
  BY <1>3, Alone
<1>10. LockIsLast'
  <2>1. \A l \in Lock : Len(order[l]) = 0 => lock'[l] = Null
    BY <1>9 DEF McsInv, LockIsLast
  <2>2. ASSUME NEW l \in Lock, NEW i \in 1..Len(order[l]), NEW p \in Thread,
               i = Len(order[l]), order[l][i] = p
        PROVE  lock'[l] = MyNode(p)'
    <3>1. th[p].lock = l /\ lock[l] = MyNode(p) /\ next[MyNode(p)] = Null
      BY <2>2, InChain
    <3>2. CASE p = t
      BY <1>3, <3>1, <3>2
    <3>3. CASE p # t
      BY <1>6, <3>1, <3>3
    <3> QED BY <3>2, <3>3
  <2> QED BY <2>1, <2>2, LastAfter
<1>11. Chain'
  <2>1. \A u \in Thread : th'[u].pc = "link" => ~First(u)'
    BY <1>7 DEF McsInv, Chain
  <2>2. ASSUME NEW l \in Lock, NEW i \in 1..Len(order[l]), NEW p \in Thread, NEW s \in Thread,
               order[l][i] = p
        PROVE /\ i = Len(order[l]) => next'[MyNode(p)'] = Null
              /\ i < Len(order[l]) /\ order[l][i + 1] = s => Follows(p, s)'
    <3>1. /\ th[p].lock = l
          /\ \A j \in 1..Len(order[l]) : order[l][j] = p => i = j
          /\ i = Len(order[l]) => next[MyNode(p)] = Null
          /\ i < Len(order[l]) /\ order[l][i + 1] = s => i + 1 \in 1..Len(order[l]) /\ Follows(p, s)
      BY <2>2, InChain
    <3>2. i < Len(order[l]) /\ order[l][i + 1] = s => s # t
      <4> SUFFICES ASSUME i < Len(order[l]), order[l][i + 1] = t PROVE FALSE
        OBVIOUS
      <4>1. i + 1 \in 1..Len(order[l])
        BY <1>1, <2>2, InChain
      <4>2. l = k /\ i + 1 = 1
        BY <1>9, <4>1, InChain
      <4> QED BY <4>2
    <3>3. CASE p = t
      <4>1. l = k /\ i = 1
        BY <1>9, <3>1, <3>3
      <4>2. CASE i = Len(order[l])
        BY <1>3, <1>4, <3>1, <3>3, <4>1, <4>2
      <4>3. CASE i < Len(order[l]) /\ order[l][i + 1] = s
        <5>1. Follows(p, s) /\ s # t /\ lock[k] # o /\ ~(i = Len(order[l]))
          BY <1>9, <3>1, <3>2, <4>1, <4>3
        <5>2. MyNode(s)' = MyNode(s) /\ th'[s] = th[s]
          BY <1>6, <5>1
        <5>3. CASE th'[t].node = "own"
          BY <1>3, <1>4, <3>3, <5>1, <5>2, <5>3 DEF Follows
        <5>4. CASE th'[t].node = "new"
          <6>1. next[o] # Null /\ next'[n] = next[o] /\ MyNode(t)' = n
            BY <1>3, <5>1, <5>4
          <6> QED BY <3>3, <5>1, <5>2, <6>1 DEF Follows
        <5>5. th'[t].node = "own" \/ th'[t].node = "new"
          OBVIOUS
        <5> QED BY <5>3, <5>4, <5>5
      <4>4. i < Len(order[l]) => i # Len(order[l])
        <5>1. ~(1 < 1)
          OBVIOUS
        <5> QED BY <4>1, <5>1
      <4> QED BY <4>2, <4>3, <4>4
    <3>4. CASE p # t
      <4>1. next'[MyNode(p)'] = next[MyNode(p)] /\ MyNode(p)' = MyNode(p)
        BY <1>6, <3>4
      <4>2. s # t /\ Follows(p, s) => Follows(p, s)'
        BY <1>6, <4>1 DEF Follows
      <4> QED BY <3>1, <3>2, <4>1, <4>2
    <3> QED BY <3>3, <3>4
  <2> QED BY <2>1, <2>2, ChainAfter
<1>12. NewNodes'
  <2>1. /\ \A u \in Thread : u # t /\ th'[u].pc \in {"swap", "try"} =>
             /\ th'[u].node = "own" /\ next'[MyNode(u)'] = Null
             /\ flag'[MyNode(u)']["next"] = "clear" /\ flag'[MyNode(u)']["ready"] = "clear"
        /\ \A u \in Thread : u # t /\ th'[u].pc = "move" =>
             th'[u].node = "own" /\ flag'[NewNode(u)']["next"] = "clear"
    BY <1>6 DEF McsInv, NewNodes
  <2>2. th'[t].pc \notin {"swap", "try"}
        /\ (th'[t].pc = "move" => th'[t].node = "own" /\ flag'[NewNode(t)']["next"] = "clear")
    BY <1>3
  <2> QED BY <2>1, <2>2 DEF NewNodes
<1>13. OneSuccessor'
  <2>1. \A u \in Thread : Linking(u)' =>
          /\ u # t /\ Linking(u) /\ th'[u].other = th[u].other
          /\ th[u].other \in Node /\ Born(th[u].other) /\ Born(th[u].other)'
          /\ \A l \in Lock : th[u].other # lock[l]
    <3> SUFFICES ASSUME NEW u \in Thread, Linking(u)'
                 PROVE  /\ u # t /\ Linking(u) /\ th'[u].other = th[u].other
                        /\ th[u].other \in Node /\ Born(th[u].other) /\ Born(th[u].other)'
                        /\ \A l \in Lock : th[u].other # lock[l]
      OBVIOUS
    <3>1. u # t /\ Linking(u) /\ th'[u].other = th[u].other
      BY <1>3, <1>6
    <3>2. /\ th[u].other \in Node /\ Born(th[u].other)
          /\ \A l \in Lock : th[u].other # lock[l]
      BY <3>1 DEF McsInv, OneSuccessor
    <3>3. PICK m : m = th[u].other
      OBVIOUS
    <3>4. Born(m)'
      BY <1>5, <3>2, <3>3
    <3>5. Born(th[u].other)'
      BY <3>1, <3>3, <3>4 DEF Born
    <3> QED BY <3>1, <3>2, <3>5
  <2>2. \A u, v \in Thread : Linking(u)' /\ Linking(v)' /\ th'[u].other = th'[v].other => u = v
    BY <2>1 DEF McsInv, OneSuccessor
  <2>3. \A u \in Thread, l \in Lock : Linking(u)' => th'[u].other # lock'[l]
    BY <1>4, <2>1
  <2> QED BY <2>1, <2>2, <2>3 DEF OneSuccessor
<1>14. \A u \in Thread : u # t /\ Linking(u) => Untold(th[u].other)'
  BY <1>5, <1>7, AwakeParts
<1>15. Successors'
  <2>1. \A u \in Thread : Linking(u)' => Untold(th[u].other)'
    BY <1>3, <1>6, <1>14
  <2>2. \A u \in Thread : th'[u].pc = "tell" => next'[th'[u].other] # Null
    <3> SUFFICES ASSUME NEW u \in Thread, th'[u].pc = "tell" PROVE next'[th'[u].other] # Null
      OBVIOUS
    <3>1. th'[u] = th[u] /\ Linking(u)
      BY DEF Linking
    <3>2. th[u].other \in Node /\ Born(th[u].other)
      BY <3>1 DEF McsInv, OneSuccessor
    <3> QED BY <1>5, <3>1, <3>2 DEF McsInv, Successors
  <2>3. \A m \in Node : flag'[m]["next"] = "set" => next'[m] # Null
    BY DEF McsInv, Successors
  <2>4. \A u \in Thread : McsHolds(u)' /\ th'[u].pc \in {"await", "store", "sleep", "move"} =>
           lock'[th'[u].lock] # MyNode(u)'
    <3> SUFFICES ASSUME NEW u \in Thread, McsHolds(u)',
                        th'[u].pc \in {"await", "store", "sleep", "move"}
                 PROVE  lock'[th'[u].lock] # MyNode(u)'
      OBVIOUS
    <3>1. CASE u = t
      BY <1>3, <3>1
    <3>2. CASE u # t
      <4>1. th'[u] = th[u] /\ th[u].lock \in Lock /\ lock[th[u].lock] # MyNode(u)
        BY <1>1, <1>6, <3>2 DEF McsInv, Successors, Types, Local
      <4> QED BY <1>6, <3>2, <4>1
    <3> QED BY <3>1, <3>2
  <2>5. /\ \A u \in Thread : th'[u].pc \in {"reread", "pass"} => next'[MyNode(u)'] # Null
        /\ \A u \in Thread : th'[u].pc = "pass" => th'[u].other = next'[MyNode(u)']
    BY <1>6 DEF McsInv, Successors
  <2> QED BY <2>1, <2>2, <2>3, <2>4, <2>5 DEF Successors
<1>16. Flags'
  <2>1. /\ \A m \in Node, w \in Which : flag'[m][w] \in {flag[m][w], "clear"}
        /\ \A m \in Node, w \in Which : Born(m) => flag'[m][w] = flag[m][w]
    BY <1>5 DEF Which
  <2>2. flag[o]["next"] # t
    BY <1>3 DEF McsInv, Flags, Asleep
  <2>3. t # "clear"
    BY FlagAssumption
  <2>4. flag'[MyNode(t)']["next"] # t
    BY <1>3, <1>4, <2>2, <2>3
  <2> QED BY <1>3, <1>7, <2>1, <2>4, AwakeFlags
<1>17. Events'
  BY <1>5, <1>7, AwakeEvents
<1>18. crashed' = FALSE
  BY DEF McsInv
<1> QED BY <1>8, <1>10, <1>11, <1>12, <1>13, <1>15, <1>16, <1>17, <1>18 DEF McsInv

LEMMA TransferKept ==
  ASSUME Reuse = FALSE, McsInv, NEW t \in Thread, Transfer(t)
  PROVE  McsInv'
<1>1. PICK k, o, n : k = th[t].lock /\ o = MyNode(t) /\ n = NewNode(t)
  OBVIOUS
<1>2. Types /\ k \in Lock /\ n \in Node /\ o \in Node
  BY <1>1, Nodes DEF McsInv, Types, Local
<1>3. /\ th[t].pc = "held" /\ th[t].node = "own" /\ UNCHANGED <<event, order, crashed>>
      /\ flag' = [flag EXCEPT ![n] = [w \in Which |-> "clear"]]
      /\ next' = [next EXCEPT ![n] = Null]
  BY <1>1 DEF Transfer
<1>4. /\ flag' \in [Node -> [Which -> {"clear", "set"} \cup Thread]]
      /\ next' \in [Node -> Node \cup {Null}] /\ next'[n] = Null
      /\ \A m \in Node : m # n => next'[m] = next[m] /\ flag'[m] = flag[m]
      /\ flag'[n]["next"] = "clear" /\ flag'[n]["ready"] = "clear"
  BY <1>2, <1>3 DEF Types, Which
<1>5. CASE lock[k] = o
  <2>1. lock' = [lock EXCEPT ![k] = n] /\ th' = [th EXCEPT ![t].node = "new"]
    BY <1>1, <1>5 DEF Transfer
  <2>2. /\ th' \in [Thread -> Local]
        /\ \A u \in Thread : u # t => th'[u] = th[u]
        /\ th'[t].lock = k /\ th'[t].round = th[t].round
        /\ th'[t].pc = "held" /\ th'[t].node = "new"
    BY <1>1, <1>2, <1>3, <2>1, ZenonT(60) DEF Types, Local
  <2>3. /\ lock' \in [Lock -> Node \cup {Null}] /\ lock'[k] = n
        /\ \A l \in Lock : l # k => lock'[l] = lock[l]
    BY <1>2, <2>1 DEF Types
  <2>4. Types'
    BY <1>2, <1>3, <1>4, <2>2, <2>3 DEF Types
  <2>5. /\ lock[k] = o /\ lock'[k] = n /\ next'[n] = Null
        /\ th'[t].pc = "held" /\ th'[t].node = "new"
    BY <1>4, <1>5, <2>2, <2>3
  <2>6. th[t].pc \in {"held", "move"} /\ flag'[n]["ready"] \in {flag[n]["ready"], "clear"}
    BY <1>3, <1>4
  <2>7. Moves(t, k, o, n)
    BY <1>1, <1>3, <1>4, <2>2, <2>3, <2>5, <2>6 DEF Moves
  <2> QED BY <2>4, <2>7, MoveKept
<1>6. CASE lock[k] # o
  <2>1. lock' = lock /\ McsGoto(t, "move")
    BY <1>1, <1>6 DEF Transfer
  <2>2. /\ th' \in [Thread -> Local]
        /\ \A u \in Thread : u # t => th'[u] = th[u]
        /\ th'[t].lock = k /\ th'[t].round = th[t].round
        /\ th'[t].pc = "move" /\ th'[t].node = "own"
    BY <1>1, <1>2, <1>3, <2>1, Moved DEF Pc
  <2>3. Types'
    BY <1>2, <1>3, <1>4, <2>1, <2>2 DEF Types
  <2>4. /\ lock[k] # o /\ lock'[k] = lock[k] /\ next'[n] = Null
        /\ th'[t].pc = "move" /\ th'[t].node = "own"
    BY <1>4, <1>6, <2>1, <2>2
  <2>5. th[t].pc \in {"held", "move"} /\ flag'[n]["ready"] \in {flag[n]["ready"], "clear"}
    BY <1>3, <1>4
  <2>6. \A l \in Lock : l # k => lock'[l] = lock[l]
    BY <2>1
  <2>7. Moves(t, k, o, n)
    BY <1>1, <1>3, <1>4, <2>2, <2>4, <2>5, <2>6 DEF Moves
  <2> QED BY <2>3, <2>7, MoveKept
<1> QED BY <1>5, <1>6

LEMMA TransferNextKept ==
  ASSUME Reuse = FALSE, McsInv, NEW t \in Thread, TransferNext(t)
  PROVE  McsInv'
<1>1. PICK k, o, n : k = th[t].lock /\ o = MyNode(t) /\ n = NewNode(t)
  OBVIOUS
<1>2. Types /\ k \in Lock /\ n \in Node /\ o \in Node
  BY <1>1, Nodes DEF McsInv, Types, Local
<1>3. /\ th[t].pc = "move" /\ next[o] # Null /\ UNCHANGED <<lock, flag, event, order, crashed>>
      /\ next' = [next EXCEPT ![n] = next[o]]
      /\ th' = [th EXCEPT ![t].pc = "held", ![t].node = "new"]
  BY <1>1 DEF TransferNext
<1>4. /\ next' \in [Node -> Node \cup {Null}] /\ next'[n] = next[o]
      /\ \A m \in Node : m # n => next'[m] = next[m]
  BY <1>2, <1>3 DEF Types
<1>5. th[t].node = "own" /\ flag[n]["next"] = "clear"
  BY <1>1, <1>3 DEF McsInv, NewNodes
<1>6. /\ th' \in [Thread -> Local]
      /\ \A u \in Thread : u # t => th'[u] = th[u]
      /\ th'[t].lock = k /\ th'[t].round = th[t].round
      /\ th'[t].pc = "held" /\ th'[t].node = "new"
  <2>1. th' = [th EXCEPT ![t] = [th[t] EXCEPT !.pc = "held", !.node = "new"]]
    BY <1>3
  <2>2. th \in [Thread -> Local] /\ th[t] \in Local
    BY <1>2 DEF Types
  <2>3. [th[t] EXCEPT !.pc = "held", !.node = "new"] \in Local
    BY <2>2 DEF Local, Pc
  <2>4. /\ th' \in [Thread -> Local]
        /\ \A u \in Thread : u # t => th'[u] = th[u]
        /\ th'[t] = [th[t] EXCEPT !.pc = "held", !.node = "new"]
    BY <2>1, <2>2, <2>3
  <2> QED BY <1>1, <2>2, <2>4 DEF Local
<1>7. Types'
  BY <1>2, <1>3, <1>4, <1>6 DEF Types
<1>8. /\ th[t].pc \in {"held", "move"} /\ flag'[n]["ready"] \in {flag[n]["ready"], "clear"}
      /\ flag'[n]["next"] = "clear" /\ \A l \in Lock : l # k => lock'[l] = lock[l]
      /\ \A m \in Node : m # n => next'[m] = next[m] /\ flag'[m] = flag[m]
  BY <1>3, <1>4, <1>5
<1>9. /\ next[o] # Null /\ lock'[k] = lock[k] /\ next'[n] = next[o]
      /\ th'[t].pc = "held" /\ th'[t].node = "new"
  BY <1>3, <1>4, <1>6
<1>10. Moves(t, k, o, n)
  BY <1>1, <1>3, <1>5, <1>6, <1>8, <1>9 DEF Moves
<1> QED BY <1>7, <1>10, MoveKept

-----------------------------------------------------------------------------
(* The release *)

\* The first leaves the queue.
HeadLeaves(k) == order' = [order EXCEPT ![k] = Tail(order[k])]

\* What becomes of the queue when the next one, if any, has linked itself.
LEMMA LeaveQueues ==
  ASSUME Reuse = FALSE, McsInv, NEW t \in Thread, McsHolds(t), NEW k, k = th[t].lock, Types',
         HeadLeaves(k), next' = next,
         \A u \in Thread : u # t => th'[u] = th[u],
         ~Queued(t)', ~McsHolds(t)',
         \A l \in Lock : l # k => lock'[l] = lock[l],
         \/ Len(order[k]) = 1 /\ lock'[k] = Null
         \/ Len(order[k]) # 1 /\ lock'[k] = lock[k] /\ th[order[k][2]].pc # "link"
  PROVE  /\ Queues' /\ LockIsLast' /\ Chain'
         /\ \A u \in Thread : u # t /\ Queued(u) /\ First(u) => First(u)'
         /\ \A u \in Thread : Len(order[k]) # 1 /\ u = order[k][2] => First(u)'
<1>1. Types /\ k \in Lock
  BY DEF McsInv, Types, Local
<1>2. PICK z : z = Len(order[k])
  OBVIOUS
<1>3. z \in Nat /\ 1 \in 1..z /\ order[k][1] = t /\ order[k] \in Seq(Thread)
  BY <1>1, <1>2, Alone DEF Types
<1>4. /\ Len(order'[k]) = z - 1
      /\ \A i \in 1..(z - 1) : order'[k][i] = order[k][i + 1] /\ i + 1 \in 1..z
      /\ \A l \in Lock : l # k => order'[l] = order[l]
  <2>1. order'[k] = Tail(order[k]) /\ \A l \in Lock : l # k => order'[l] = order[l]
    BY <1>1 DEF Types, HeadLeaves
  <2>2. order[k] # <<>>
    BY <1>2, <1>3
  <2>3. /\ Len(Tail(order[k])) = z - 1
        /\ \A i \in 1..(z - 1) : Tail(order[k])[i] = order[k][i + 1]
    BY <1>2, <1>3, <2>2, HeadTailProperties
  <2>4. \A i \in 1..(z - 1) : i + 1 \in 1..z
    BY <1>3
  <2> QED BY <2>1, <2>3, <2>4
<1>5. \A u \in Thread : u # t =>
         /\ MyNode(u)' = MyNode(u)
         /\ Queued(u)' <=> Queued(u)
         /\ McsHolds(u)' <=> McsHolds(u)
  BY Others
<1>6. \A i \in 1..z, j \in 1..z : order[k][i] = order[k][j] => i = j
  BY <1>1, <1>2 DEF McsInv, Queues
<1>7. \A i \in 1..(z - 1) : order'[k][i] \in Thread /\ order'[k][i] # t /\ Queued(order'[k][i])
                            /\ th[order'[k][i]].lock = k
  <2> SUFFICES ASSUME NEW i \in 1..(z - 1), NEW p, p = order'[k][i]
               PROVE  p \in Thread /\ p # t /\ Queued(p) /\ th[p].lock = k
    OBVIOUS
  <2>1. PICK j \in 1..z : j = i + 1 /\ j # 1 /\ order[k][j] = p
    BY <1>3, <1>4
  <2>2. p \in Thread /\ Queued(p) /\ th[p].lock = k
    <3>1. j \in 1..Len(order[k]) /\ order[k][j] = p
      BY <1>2, <2>1
    <3> QED BY <1>1, <3>1, InQueue
  <2>3. p # t
    BY <1>3, <1>6, <2>1
  <2> QED BY <2>2, <2>3
<1>8. \A u \in Thread : u # t /\ First(u) => First(u)'
  <2> SUFFICES ASSUME NEW u \in Thread, u # t, First(u) PROVE First(u)'
    OBVIOUS
  <2>1. th[u].lock # k /\ th[u].lock \in Lock
    BY <1>1, <1>3 DEF First, Types, Local
  <2> QED BY <1>4, <2>1 DEF First
<1>9. \A u \in Thread : z # 1 /\ u = order[k][2] => First(u)'
  <2> SUFFICES ASSUME NEW u \in Thread, z # 1, u = order[k][2] PROVE First(u)'
    OBVIOUS
  <2>1. 1 \in 1..(z - 1) /\ 1 + 1 = 2 /\ z - 1 >= 1
    BY <1>3
  <2>2. order'[k][1] = u
    BY <1>4, <2>1, SMTT(40)
  <2>3. u # t /\ th[u].lock = k
    BY <1>7, <2>1, <2>2
  <2> QED BY <1>4, <2>1, <2>2, <2>3 DEF First
<1>10. Queues'
  <2>1. \A l \in Lock : \A i, j \in 1..Len(order'[l]) : order'[l][i] = order'[l][j] => i = j
    <3> SUFFICES ASSUME NEW l \in Lock, NEW i \in 1..Len(order'[l]), NEW j \in 1..Len(order'[l]),
                        order'[l][i] = order'[l][j]
                 PROVE  i = j
      OBVIOUS
    <3>1. CASE l # k
      BY <1>4, <3>1 DEF McsInv, Queues
    <3>2. CASE l = k
      <4>1. i \in 1..(z - 1) /\ j \in 1..(z - 1)
        BY <1>4, <3>2
      <4>2. i + 1 = j + 1
        BY <1>4, <1>6, <3>2, <4>1
      <4> QED BY <1>3, <4>1, <4>2
    <3> QED BY <3>1, <3>2
  <2>2. ASSUME NEW l \in Lock, NEW i \in 1..Len(order'[l]), NEW u, u = order'[l][i]
        PROVE  Queued(u)' /\ th'[u].lock = l
    <3>1. u \in Thread /\ u # t /\ Queued(u) /\ th[u].lock = l
      <4>1. CASE l # k
        BY <1>4, <2>2, <4>1, InQueue, SMTT(40)
      <4>2. CASE l = k
        BY <1>4, <1>7, <2>2, <4>2
      <4> QED BY <4>1, <4>2
    <3> QED BY <1>5, <3>1
  <2>3. ASSUME NEW u \in Thread, Queued(u)'
        PROVE  \E i \in 1..Len(order'[th'[u].lock]) : order'[th'[u].lock][i] = u
    <3>1. u # t /\ Queued(u) /\ th'[u] = th[u] /\ th[u].lock \in Lock
      BY <1>1, <1>5, <2>3 DEF Types, Local
    <3>2. PICK i \in 1..Len(order[th[u].lock]) : order[th[u].lock][i] = u
      BY <3>1 DEF McsInv, Queues
    <3>3. CASE th[u].lock # k
      BY <1>4, <3>1, <3>2, <3>3
    <3>4. CASE th[u].lock = k
      <4>1. i \in 1..z /\ i # 1
        BY <1>2, <1>3, <3>1, <3>2, <3>4
      <4>2. i - 1 \in 1..(z - 1) /\ (i - 1) + 1 = i
        BY <1>3, <4>1
      <4>3. order'[k][i - 1] = u
        BY <1>4, <3>2, <3>4, <4>2
      <4> QED BY <1>4, <3>1, <3>4, <4>2, <4>3
    <3> QED BY <3>3, <3>4
  <2>4. \A u \in Thread : McsHolds(u)' => First(u)'
    <3>1. \A u \in Thread : McsHolds(u) => First(u)
      BY DEF McsInv, Queues
    <3> QED BY <1>5, <1>8, <3>1
  <2>5. \A l \in Lock : \A i \in 1..Len(order'[l]) :
          Queued(order[l][i])' /\ th'[order'[l][i]].lock = l
    BY <2>2
  <2> QED BY <2>1, <2>3, <2>4, <2>5 DEF Queues
<1>11. LockIsLast'
  <2>1. \A l \in Lock : Len(order'[l]) = 0 => lock'[l] = Null
    <3> SUFFICES ASSUME NEW l \in Lock, Len(order'[l]) = 0 PROVE lock'[l] = Null
      OBVIOUS
    <3>1. CASE l # k
      BY <1>4, <3>1 DEF McsInv, LockIsLast
    <3>2. CASE l = k
      <4>1. z = 1
        BY <1>3, <1>4, <3>2
      <4> QED BY <1>2, <3>2, <4>1
    <3> QED BY <3>1, <3>2
  <2>2. ASSUME NEW l \in Lock, NEW i \in 1..Len(order'[l]), NEW p \in Thread,
               i = Len(order'[l]), order'[l][i] = p
        PROVE  lock'[l] = MyNode(p)'
    <3>1. CASE l # k
      <4>1. lock'[l] = MyNode(p) /\ th[p].lock = l
        BY <1>4, <2>2, <3>1, InChain
      <4> QED BY <1>5, <3>1, <4>1
    <3>2. CASE l = k
      <4>1. i \in 1..(z - 1) /\ i + 1 = z /\ z # 1
        BY <1>3, <1>4, <2>2, <3>2, SMTT(40)
      <4>2. order[k][z] = p /\ z \in 1..z /\ p # t
        BY <1>3, <1>4, <1>7, <2>2, <3>2, <4>1
      <4>3. lock[k] = MyNode(p)
        BY <1>1, <1>2, <4>2, InChain
      <4> QED BY <1>2, <1>5, <3>2, <4>1, <4>2, <4>3
    <3> QED BY <3>1, <3>2
  <2> QED BY <2>1, <2>2, LastAfter
<1>12. Chain'
  <2>1. \A u \in Thread : th'[u].pc = "link" => ~First(u)'
    <3> SUFFICES ASSUME NEW u \in Thread, th'[u].pc = "link" PROVE ~First(u)'
      OBVIOUS
    <3>1. u # t
      BY DEF Queued
    <3>2. th'[u] = th[u] /\ ~First(u) /\ th[u].lock \in Lock
      BY <1>1, <3>1 DEF McsInv, Chain, Types, Local
    <3>3. CASE th[u].lock # k
      BY <1>4, <3>2, <3>3 DEF First
    <3>4. CASE th[u].lock = k
      <4> SUFFICES ASSUME First(u)' PROVE FALSE
        OBVIOUS
      <4>1. z - 1 >= 1 /\ order'[k][1] = u
        BY <1>4, <3>2, <3>4 DEF First
      <4>2. z # 1 /\ 1 \in 1..(z - 1) /\ 1 + 1 = 2
        BY <1>3, <4>1
      <4>3. order[k][2] = u
        BY <1>4, <4>1, <4>2
      <4> QED BY <1>2, <3>2, <4>2, <4>3
    <3> QED BY <3>3, <3>4
  <2>2. ASSUME NEW l \in Lock, NEW i \in 1..Len(order'[l]), NEW p \in Thread, NEW s \in Thread,
               order'[l][i] = p
        PROVE /\ i = Len(order'[l]) => next'[MyNode(p)'] = Null
              /\ i < Len(order'[l]) /\ order'[l][i + 1] = s => Follows(p, s)'
    <3>1. /\ p # t
          /\ i = Len(order'[l]) => next[MyNode(p)] = Null
          /\ i < Len(order'[l]) /\ order'[l][i + 1] = s => Follows(p, s) /\ s # t
      <4>1. CASE l # k
        <5>1. /\ th[p].lock = l
              /\ i = Len(order[l]) => next[MyNode(p)] = Null
              /\ i < Len(order[l]) /\ order[l][i + 1] = s => Follows(p, s) /\ th[s].lock = l
          <6>1. i \in 1..Len(order[l]) /\ order[l][i] = p
            BY <1>4, <2>2, <4>1
          <6> QED BY <6>1, InChain
        <5> QED BY <1>4, <4>1, <5>1
      <4>2. CASE l = k
        <5>1. PICK j \in 1..z : j = i + 1 /\ order[k][j] = p /\ i \in 1..(z - 1)
          BY <1>4, <2>2, <4>2, SMTT(40)
        <5>2. p # t
          BY <1>7, <2>2, <4>2, <5>1
        <5>3. i = Len(order'[l]) => next[MyNode(p)] = Null
          <6>1. i = Len(order'[l]) => j = z
            BY <1>3, <1>4, <4>2, <5>1
          <6> QED BY <1>1, <1>2, <5>1, <6>1, InChain, SMTT(40)
        <5>4. i < Len(order'[l]) /\ order'[l][i + 1] = s => Follows(p, s) /\ s # t
          <6> SUFFICES ASSUME i < Len(order'[l]), order'[l][i + 1] = s
                       PROVE  Follows(p, s) /\ s # t
            OBVIOUS
          <6>1. i + 1 \in 1..(z - 1) /\ j < z /\ (i + 1) + 1 = j + 1
            BY <1>3, <1>4, <4>2, <5>1, SMTT(40)
          <6>2. order[k][j + 1] = s /\ s # t
            BY <1>4, <1>7, <4>2, <6>1
          <6>3. \A v : v = order[k][j + 1] => Follows(p, v)
            <7>1. j \in 1..Len(order[k]) /\ order[k][j] = p /\ j < Len(order[k])
              BY <1>2, <5>1, <6>1
            <7> QED BY <1>1, <7>1, InChain, SMTT(40)
          <6> QED BY <6>2, <6>3
        <5> QED BY <5>2, <5>3, <5>4
      <4> QED BY <4>1, <4>2
    <3>2. s # t /\ Follows(p, s) => Follows(p, s)'
      BY <1>5, <3>1 DEF Follows
    <3> QED BY <1>5, <3>1, <3>2
  <2> QED BY <2>1, <2>2, ChainAfter
<1> QED BY <1>2, <1>8, <1>9, <1>10, <1>11, <1>12

\* The lock becomes free if nobody waits.
LEMMA CasKept ==
  ASSUME Reuse = FALSE, McsInv, NEW t \in Thread, Cas(t)
  PROVE  McsInv'
<1>1. PICK k : k = th[t].lock
  OBVIOUS
<1>2. /\ th[t].pc = "cas" /\ Types /\ k \in Lock /\ McsHolds(t)
      /\ UNCHANGED <<next, flag, event, crashed>>
  BY <1>1 DEF McsInv, Types, Local, McsHolds, Cas
<1>3. CASE lock[k] # MyNode(t)
  <2>1. /\ lock' = lock /\ order' = order
        /\ th' = [th EXCEPT ![t] = [th[t] EXCEPT !.pc = "await", !.w = "next"]]
    BY <1>1, <1>3 DEF Cas
  <2>2. th \in [Thread -> Local] /\ th[t] \in Local
    BY <1>2 DEF Types
  <2>3. [th[t] EXCEPT !.pc = "await", !.w = "next"] \in Local
    BY <2>2 DEF Local, Pc, Which
  <2>4. /\ th' \in [Thread -> Local]
        /\ \A u \in Thread : u # t => th'[u] = th[u]
        /\ th'[t] = [th[t] EXCEPT !.pc = "await", !.w = "next"]
    BY <2>1, <2>2, <2>3
  <2>5. /\ th'[t].lock = th[t].lock /\ th'[t].round = th[t].round /\ th'[t].node = th[t].node
        /\ th'[t].pc = "await" /\ th'[t].w = "next"
    BY <2>2, <2>4 DEF Local
  <2> QED BY <1>1, <1>2, <1>3, <2>1, <2>4, <2>5, AwakeKept
<1>4. CASE lock[k] = MyNode(t)
  <2>1. /\ lock' = [lock EXCEPT ![k] = Null] /\ HeadLeaves(k) /\ McsGoto(t, "out")
    BY <1>1, <1>4 DEF Cas, HeadLeaves
  <2>2. /\ th' \in [Thread -> Local]
        /\ \A u \in Thread : u # t => th'[u] = th[u]
        /\ th'[t].pc = "out" /\ th'[t].round = th[t].round /\ th'[t].node = th[t].node
    BY <1>2, <2>1, Moved DEF Pc
  <2>3. /\ lock' \in [Lock -> Node \cup {Null}] /\ lock'[k] = Null
        /\ \A l \in Lock : l # k => lock'[l] = lock[l]
    BY <1>2, <2>1 DEF Types
  <2>4. Len(order[k]) = 1
    BY <1>1, <1>2, <1>4, Alone
  <2>5. Types'
    <3>1. order[k] # <<>> /\ order[k] \in Seq(Thread)
      <4>1. order[k] \in Seq(Thread)
        BY <1>2 DEF Types
      <4>2. order[k] = <<>> => Len(order[k]) = 0
        OBVIOUS
      <4> QED BY <2>4, <4>1, <4>2
    <3>2. Tail(order[k]) \in Seq(Thread)
      BY <3>1, HeadTailProperties
    <3>3. order' \in [Lock -> Seq(Thread)]
      BY <1>2, <2>1, <3>2 DEF Types, HeadLeaves
    <3> QED BY <1>2, <2>2, <2>3, <3>3 DEF Types
  <2>6. ~Queued(t)' /\ ~McsHolds(t)' /\ ~Linking(t)'
    BY <2>2 DEF Queued, McsHolds, Linking
  <2>7. /\ Queues' /\ LockIsLast' /\ Chain'
        /\ \A u \in Thread : u # t /\ Queued(u) /\ First(u) => First(u)'
    BY <1>1, <1>2, <2>2, <2>3, <2>4, <2>5, <2>6, <2>1, LeaveQueues
  <2>8. \A u \in Thread : u # t =>
           /\ MyNode(u)' = MyNode(u) /\ NewNode(u)' = NewNode(u)
           /\ McsHolds(u)' <=> McsHolds(u)
           /\ Linking(u)' <=> Linking(u)
    BY <2>2, Others
  <2>9. NewNodes'
    <3>1. \A u \in Thread : th'[u].pc \in {"swap", "try", "move"} => u # t
      BY <2>2
    <3> QED BY <1>2, <2>2, <2>8, <3>1, NewNodesKept
  <2>10. \A m \in Node : Born(m) => Born(m)'
    <3>1. \A m \in Node : m[1] \in Thread
      BY DEF Node
    <3> QED BY <1>2, <2>2, <3>1, BornKept
  <2>11. OneSuccessor'
    <3>1. \A u \in Thread : Linking(u)' =>
            /\ u # t /\ Linking(u) /\ th'[u] = th[u]
            /\ th[u].other \in Node /\ Born(th[u].other)
            /\ \A l \in Lock : th[u].other # lock[l]
      BY <2>2, <2>6, <2>8 DEF McsInv, OneSuccessor
    <3>2. \A u \in Thread : Linking(u)' => th'[u].other \in Node /\ Born(th[u].other)'
      <4> SUFFICES ASSUME NEW u \in Thread, Linking(u)'
                   PROVE  th'[u].other \in Node /\ Born(th[u].other)'
        OBVIOUS
      <4>1. PICK m : m = th[u].other
        OBVIOUS
      <4>2. m \in Node /\ Born(m)' /\ th'[u].other = m
        BY <2>10, <3>1, <4>1
      <4> QED BY <4>2 DEF Born
    <3>3. \A u, v \in Thread : Linking(u)' /\ Linking(v)' /\ th'[u].other = th'[v].other => u = v
      BY <3>1 DEF McsInv, OneSuccessor
    <3>4. \A u \in Thread, l \in Lock : Linking(u)' => th'[u].other # lock'[l]
      BY <2>3, <3>1, NodeAssumption
    <3> QED BY <3>2, <3>3, <3>4 DEF OneSuccessor
  <2>12. \A u \in Thread : u # t /\ Linking(u) => Untold(th[u].other)'
    BY <1>2, <2>2, <2>7, AwakeParts
  <2>13. Successors'
    <3>1. \A u \in Thread : Linking(u)' => Untold(th[u].other)'
      BY <2>6, <2>8, <2>12
    <3>2. \A u \in Thread : th'[u].pc = "tell" => next'[th'[u].other] # Null
      BY <1>2, <2>2 DEF McsInv, Successors
    <3>3. \A m \in Node : flag'[m]["next"] = "set" => next'[m] # Null
      BY <1>2 DEF McsInv, Successors
    <3>4. \A u \in Thread : McsHolds(u)' /\ th'[u].pc \in {"await", "store", "sleep", "move"} =>
             lock'[th'[u].lock] # MyNode(u)'
      <4> SUFFICES ASSUME NEW u \in Thread, McsHolds(u)',
                          th'[u].pc \in {"await", "store", "sleep", "move"}
                   PROVE  lock'[th'[u].lock] # MyNode(u)'
        OBVIOUS
      <4>1. u # t /\ th'[u] = th[u] /\ MyNode(u)' = MyNode(u)
        BY <2>2, <2>6, <2>8
      <4>2. th[u].lock \in Lock /\ lock[th[u].lock] # MyNode(u) /\ MyNode(u) # Null
        BY <1>2, <2>8, <4>1, Nodes DEF McsInv, Successors, Types, Local
      <4> QED BY <2>3, <4>1, <4>2
    <3>5. /\ \A u \in Thread : th'[u].pc \in {"reread", "pass"} => next'[MyNode(u)'] # Null
          /\ \A u \in Thread : th'[u].pc = "pass" => th'[u].other = next'[MyNode(u)']
      BY <1>2, <2>2, <2>8 DEF McsInv, Successors
    <3> QED BY <3>1, <3>2, <3>3, <3>4, <3>5 DEF Successors
  <2>14. Flags'
    BY <1>2, <2>2, <2>6, <2>7, AwakeFlags
  <2>15. Events'
    BY <1>2, <2>2, <2>7, AwakeEvents
  <2>16. crashed' = FALSE
    BY <1>2 DEF McsInv
  <2> QED BY <2>5, <2>7, <2>9, <2>11, <2>13, <2>14, <2>15, <2>16 DEF McsInv
<1> QED BY <1>3, <1>4

\* The lock is passed to the next in the queue, which is woken if it sleeps.
LEMMA PassKept ==
  ASSUME Reuse = FALSE, McsInv, NEW t \in Thread, Pass(t)
  PROVE  McsInv'
<1>1. PICK k, q, z : k = th[t].lock /\ q = th[t].other /\ z = Len(order[k])
  OBVIOUS
<1>2. /\ th[t].pc = "pass" /\ Types /\ k \in Lock /\ McsHolds(t)
      /\ q = next[MyNode(t)] /\ q # Null
  BY <1>1 DEF McsInv, Successors, Types, Local, McsHolds, Pass
<1>3. /\ FlagSet(t, q, "ready", "out") /\ HeadLeaves(k)
      /\ UNCHANGED <<lock, next, event, crashed>>
  BY <1>1, <1>2 DEF Pass, HeadLeaves
<1>4. /\ z \in Nat /\ 1 \in 1..z /\ order[k][1] = t /\ order[k] \in Seq(Thread)
      /\ z # 1 /\ 1 < z
  <2>1. /\ z \in Nat /\ 1 \in 1..z /\ order[k][1] = t /\ order[k] \in Seq(Thread)
        /\ z # 1
    BY <1>1, <1>2, Alone DEF Types
  <2> QED BY <2>1
<1>5. PICK s \in Thread : /\ s = order[k][2] /\ Queued(s) /\ s # t /\ th[s].pc # "link"
                          /\ q = MyNode(s)
  <2>1. PICK s : s = order[k][2]
    OBVIOUS
  <2>2. 2 \in 1..Len(order[k]) /\ 1 + 1 = 2 /\ 1 \in 1..Len(order[k]) /\ 1 < Len(order[k])
    BY <1>1, <1>4
  <2>3. s \in Thread /\ Queued(s) /\ \A v : v = s => Follows(t, v)
    BY <1>2, <1>4, <2>1, <2>2, InChain
  <2>4. s # t
    BY <1>2, <1>4, <2>1, <2>2 DEF McsInv, Queues
  <2>5. th[s].pc # "link" /\ q = MyNode(s)
    BY <1>2, <2>3 DEF Follows
  <2> QED BY <2>1, <2>3, <2>4, <2>5
<1>6. PICK f : f = flag[q]["ready"]
  OBVIOUS
<1>7. \A u \in Thread : MyNode(u) \in Node /\ MyNode(u)[1] = u /\ NewNode(u) \in Node
  BY <1>2, Nodes
<1>8. ~First(s) /\ ~McsHolds(s) /\ th[s].lock = k
  <2>1. th[s].lock = k
    <3>1. 2 \in 1..Len(order[k])
      BY <1>1, <1>4
    <3> QED BY <1>2, <1>5, <3>1, InQueue
  <2>2. ~First(s)
    BY <1>4, <1>5, <2>1 DEF First
  <2> QED BY <2>1, <2>2 DEF McsInv, Queues
<1>9. /\ f = "clear" \/ f = s
      /\ f = s => Asleep(s, "ready") /\ ~Told(s)
      /\ s \notin {"clear", "set"} /\ "clear" \notin Thread /\ "set" \notin Thread
      /\ q \in Node /\ q[1] = s /\ Born(q)
  <2>1. q \in Node /\ q[1] = s /\ Born(q)
    BY <1>5, <1>7, Fresh
  <2>2. f \in {"clear", "set", s}
    BY <1>6, <2>1 DEF McsInv, Flags, Which
  <2>3. f # "set"
    BY <1>5, <1>6, <1>8 DEF McsInv, Flags
  <2>4. f = s => Asleep(s, "ready") /\ ~Told(s)
    BY <1>5, <1>6, <1>8 DEF McsInv, Flags, Events
  <2> QED BY <2>1, <2>2, <2>3, <2>4, FlagAssumption
<1>10. /\ th' \in [Thread -> Local]
       /\ \A u \in Thread : u # t => th'[u] = th[u]
       /\ th'[t].lock = th[t].lock /\ th'[t].round = th[t].round /\ th'[t].node = th[t].node
       /\ th'[t].then = "out" /\ th'[t].w = "ready"
       /\ f = s => th'[t].pc = "signal" /\ th'[t].wake = s
       /\ f # s => th'[t].pc = "out"
       /\ flag' \in [Node -> [Which -> {"clear", "set"} \cup Thread]]
       /\ flag'[q]["ready"] = IF f = "clear" THEN "set" ELSE f
       /\ \A m \in Node, v \in Which : m # q \/ v # "ready" => flag'[m][v] = flag[m][v]
  <2>1. "ready" \in Which /\ f \in {"clear", "set"} \cup Thread
    BY <1>9 DEF Which
  <2> QED BY <1>2, <1>3, <1>6, <1>9, <2>1, SetFlag
<1>11. Types'
  <2>1. order[k] # <<>>
    <3>1. order[k] = <<>> => Len(order[k]) = 0
      OBVIOUS
    <3> QED BY <1>1, <1>4, <3>1
  <2>2. Tail(order[k]) \in Seq(Thread)
    BY <1>4, <2>1, HeadTailProperties
  <2>3. order' \in [Lock -> Seq(Thread)]
    BY <1>2, <1>3, <2>2 DEF Types, HeadLeaves
  <2> QED BY <1>2, <1>3, <1>10, <2>3 DEF Types
<1>12. /\ \A u \in Thread : u # t =>
            /\ MyNode(u)' = MyNode(u) /\ NewNode(u)' = NewNode(u)
            /\ Queued(u)' <=> Queued(u)
            /\ McsHolds(u)' <=> McsHolds(u)
            /\ Linking(u)' <=> Linking(u)
            /\ \A w : Asleep(u, w)' <=> Asleep(u, w)
            /\ \A v : Wakes(u, v)' <=> Wakes(u, v)
       /\ ~Queued(t)' /\ ~McsHolds(t)' /\ ~Linking(t)'
       /\ \A w : ~Asleep(t, w) /\ ~Asleep(t, w)'
       /\ \A v : ~Wakes(t, v) /\ (Wakes(t, v)' <=> f = s /\ v = s)
  <2>1. /\ ~Queued(t)' /\ ~McsHolds(t)' /\ ~Linking(t)'
        /\ \A w : ~Asleep(t, w) /\ ~Asleep(t, w)'
        /\ \A v : ~Wakes(t, v) /\ (Wakes(t, v)' <=> f = s /\ v = s)
    BY <1>2, <1>10 DEF Queued, McsHolds, Linking, Asleep, Wakes
  <2> QED BY <1>10, <2>1, Others
<1>13. /\ Queues' /\ LockIsLast' /\ Chain'
       /\ \A u \in Thread : u # t /\ Queued(u) /\ First(u) => First(u)'
       /\ First(s)'
  <2>1. /\ \A l \in Lock : l # k => lock'[l] = lock[l]
        /\ Len(order[k]) # 1 /\ lock'[k] = lock[k] /\ th[order[k][2]].pc # "link"
        /\ next' = next
    BY <1>1, <1>3, <1>4, <1>5
  <2>2. /\ Queues' /\ LockIsLast' /\ Chain'
        /\ \A u \in Thread : u # t /\ Queued(u) /\ First(u) => First(u)'
        /\ \A u \in Thread : Len(order[k]) # 1 /\ u = order[k][2] => First(u)'
    BY <1>1, <1>2, <1>3, <1>10, <1>11, <1>12, <2>1, LeaveQueues
  <2> QED BY <1>5, <2>1, <2>2
<1>14. \A u \in Thread : Told(u)' <=> Told(u) \/ (f = s /\ u = s)
  BY <1>3, <1>12 DEF Told
<1>15. NewNodes'
  <2>1. \A u \in Thread : th'[u].pc \in {"swap", "try"} =>
           /\ u # t /\ th'[u] = th[u] /\ MyNode(u) # q
    BY <1>9, <1>10, Fresh
  <2>2. \A u \in Thread : th'[u].pc = "move" => u # t /\ th'[u] = th[u]
    BY <1>10
  <2>3. \A u \in Thread :
           /\ flag'[MyNode(u)]["next"] = flag[MyNode(u)]["next"]
           /\ flag'[NewNode(u)]["next"] = flag[NewNode(u)]["next"]
           /\ MyNode(u) # q => flag'[MyNode(u)]["ready"] = flag[MyNode(u)]["ready"]
    BY <1>7, <1>10 DEF Which
  <2> QED BY <1>3, <1>12, <2>1, <2>2, <2>3, NewNodesKept
<1>16. OneSuccessor'
  <2>1. \A n \in Node : Born(n) => Born(n)'
    BY <1>2, <1>10 DEF Born, Node
  <2> QED BY <1>3, <1>10, <1>12, <2>1, SuccessorsKept
<1>17. Successors'
  <2>1. \A u \in Thread : Linking(u)' => Untold(th[u].other)'
    <3> SUFFICES ASSUME NEW u \in Thread, Linking(u)' PROVE Untold(th[u].other)'
      OBVIOUS
    <3>1. u # t /\ Linking(u) /\ th'[u] = th[u]
      BY <1>10, <1>12
    <3>2. PICK m : m = th[u].other
      OBVIOUS
    <3>3. m \in Node /\ Untold(m) /\ m[1] \in Thread
      BY <3>1, <3>2 DEF McsInv, OneSuccessor, Successors, Node
    <3>4. Untold(m)'
      <4>1. flag'[m]["next"] = flag[m]["next"]
        BY <1>10, <3>3 DEF Which
      <4>2. CASE flag[m]["next"] = "clear"
        BY <4>1, <4>2 DEF Untold
      <4>3. CASE flag[m]["next"] = m[1] /\ Asleep(m[1], "next") /\ m = MyNode(m[1]) /\ ~Told(m[1])
        <5>1. m[1] # t /\ (f = s => m[1] # s)
          BY <1>9, <1>12, <4>3 DEF Asleep
        <5>2. MyNode(m[1])' = m /\ Asleep(m[1], "next")'
          BY <1>12, <3>3, <4>3, <5>1
        <5>3. ~Told(m[1])'
          BY <1>14, <3>3, <4>3, <5>1
        <5> QED BY <4>1, <4>3, <5>2, <5>3 DEF Untold
      <4> QED BY <3>3, <4>2, <4>3 DEF Untold
    <3> QED BY <3>1, <3>2, <3>4
  <2>2. \A u \in Thread : th'[u].pc = "tell" => next'[th'[u].other] # Null
    BY <1>3, <1>10 DEF McsInv, Successors
  <2>3. \A n \in Node : flag'[n]["next"] = "set" => next'[n] # Null
    BY <1>3, <1>10 DEF McsInv, Successors, Which
  <2>4. \A u \in Thread : McsHolds(u)' /\ th'[u].pc \in {"await", "store", "sleep", "move"} =>
           lock'[th'[u].lock] # MyNode(u)'
    BY <1>3, <1>10, <1>12 DEF McsInv, Successors
  <2>5. /\ \A u \in Thread : th'[u].pc \in {"reread", "pass"} => next'[MyNode(u)'] # Null
        /\ \A u \in Thread : th'[u].pc = "pass" => th'[u].other = next'[MyNode(u)']
    BY <1>3, <1>10, <1>12 DEF McsInv, Successors
  <2> QED BY <1>10, <2>1, <2>2, <2>3, <2>4, <2>5 DEF Successors
<1>18. Flags'
  <2>1. \A m \in Node, w \in Which : flag'[m][w] \in {"clear", "set", m[1]}
    BY <1>9, <1>10 DEF McsInv, Flags
  <2>2. \A u \in Thread :
          /\ flag'[MyNode(u)]["next"] = flag[MyNode(u)]["next"]
          /\ u # s => flag'[MyNode(u)]["ready"] = flag[MyNode(u)]["ready"]
    BY <1>7, <1>9, <1>10 DEF Which
  <2>3. flag'[MyNode(s)]["ready"] = s => Asleep(s, "ready")
    BY <1>5, <1>9, <1>10
  <2>4. \A u \in Thread : Queued(u)' => 
          /\ u # t /\ Queued(u) /\ MyNode(u)' = MyNode(u) /\ th'[u] = th[u]
          /\ McsHolds(u)' <=> McsHolds(u)
          /\ \A w : Asleep(u, w)' <=> Asleep(u, w)
    BY <1>10, <1>12
  <2>5. \A u \in Thread : Queued(u)' /\ flag'[MyNode(u)']["next"] = u =>
           Asleep(u, "next")' \/ th'[u].pc \in {"reread", "pass"}
    BY <2>2, <2>4 DEF McsInv, Flags
  <2>6. \A u \in Thread :
           Queued(u)' /\ ~McsHolds(u)' /\ flag'[MyNode(u)']["ready"] = "set" => First(u)'
    BY <1>13, <2>2, <2>4 DEF McsInv, Flags
  <2>7. \A u \in Thread :
           Queued(u)' /\ ~McsHolds(u)' /\ flag'[MyNode(u)']["ready"] = u => Asleep(u, "ready")'
    BY <2>2, <2>3, <2>4 DEF McsInv, Flags
  <2> QED BY <2>1, <2>5, <2>6, <2>7 DEF Flags
<1>19. Events'
  <2>1. \A u \in Thread : th'[u].pc = "store" => u \notin event'
    BY <1>3, <1>10 DEF McsInv, Events
  <2>2. \A u \in Thread : th'[u].pc = "signal" => th'[u].wake \in Thread /\ th'[u].w = "ready"
    BY <1>10 DEF McsInv, Events
  <2>3. f = s => th[s].pc = "sleep" /\ s \notin event /\ \A u \in Thread : ~Wakes(u, s)
    BY <1>9 DEF Asleep, Told
  <2>4. \A u, v \in Thread : Wakes(u, v)' => th'[v].pc = "sleep" /\ v \notin event'
    <3> SUFFICES ASSUME NEW u \in Thread, NEW v \in Thread, Wakes(u, v)'
                 PROVE  th'[v].pc = "sleep" /\ v \notin event'
      OBVIOUS
    <3>1. th[v].pc = "sleep" /\ v \notin event
      BY <1>12, <2>3 DEF McsInv, Events
    <3> QED BY <1>2, <1>3, <1>10, <3>1
  <2>5. \A u, r, v \in Thread : Wakes(u, v)' /\ Wakes(r, v)' => u = r
    BY <1>12, <2>3 DEF McsInv, Events
  <2>6. \A u \in Thread : Asleep(u, "ready")' /\ Told(u)' => First(u)'
    <3>1. \A u \in Thread : Asleep(u, "ready") => Queued(u)
      BY DEF Asleep, Queued
    <3>2. \A u \in Thread : Asleep(u, "ready") /\ Told(u) => First(u)
      BY DEF McsInv, Events
    <3> QED BY <1>12, <1>13, <1>14, <3>1, <3>2
  <2>7. \A u \in Thread : Asleep(u, "next")' /\ Told(u)' => next'[MyNode(u)'] # Null
    <3>1. f = s => ~Asleep(s, "next")
      BY <1>9 DEF Asleep
    <3>2. \A u \in Thread : Asleep(u, "next") /\ Told(u) => next[MyNode(u)] # Null
      BY DEF McsInv, Events
    <3> QED BY <1>3, <1>12, <1>14, <3>1, <3>2
  <2> QED BY <2>1, <2>2, <2>4, <2>5, <2>6, <2>7 DEF Events
<1>20. crashed' = FALSE
  BY <1>3 DEF McsInv
<1> QED BY <1>11, <1>13, <1>15, <1>16, <1>17, <1>18, <1>19, <1>20 DEF McsInv

-----------------------------------------------------------------------------
LEMMA McsInvKept == Reuse = FALSE /\ McsInv /\ [McsNext]_mcsVars => McsInv'
<1> SUFFICES ASSUME Reuse = FALSE, McsInv, [McsNext]_mcsVars PROVE McsInv'
  OBVIOUS
<1>1. CASE McsNext
  <2>1. PICK t \in Thread :
          \/ \E l \in Lock : LockAcquire(t, l) \/ LockTryAcquire(t, l)
          \/ Transfer(t) \/ McsStep(t)
    BY <1>1 DEF McsNext
  <2>2. ASSUME NEW l \in Lock, LockAcquire(t, l) \/ LockTryAcquire(t, l) PROVE McsInv'
    BY <2>2, InitialiseKept DEF LockAcquire, LockTryAcquire
  <2>3. CASE McsSwap(t)
    BY <2>3, SwapKept
  <2>4. CASE Try(t)
    BY <2>4, TryKept
  <2>5. CASE Link(t)
    BY <2>5, LinkKept
  <2>6. CASE Tell(t)
    BY <2>6, TellKept
  <2>7. CASE Signal(t)
    BY <2>7, SignalKept
  <2>8. CASE Await(t)
    BY <2>8, AwaitKept
  <2>9. CASE Store(t)
    BY <2>9, StoreKept
  <2>10. CASE Sleep(t)
    BY <2>10, SleepKept
  <2>11. CASE Transfer(t)
    BY <2>11, TransferKept
  <2>12. CASE TransferNext(t)
    BY <2>12, TransferNextKept
  <2>13. CASE McsRelease(t) \/ Reread(t)
    BY <2>13, ReleaseKept
  <2>14. CASE Cas(t)
    BY <2>14, CasKept
  <2>15. CASE Pass(t)
    BY <2>15, PassKept
  <2> QED BY <2>1, <2>2, <2>3, <2>4, <2>5, <2>6, <2>7, <2>8, <2>9, <2>10, <2>11, <2>12, <2>13,
             <2>14, <2>15 DEF McsStep
<1>2. CASE UNCHANGED mcsVars
  <2>1. UNCHANGED <<lock, next, flag, event, th, order, crashed>>
    BY <1>2 DEF mcsVars
  <2>2. Types' /\ Queues' /\ crashed' = FALSE
    BY <2>1, SMTT(40) DEF McsInv, Types, Queues, Queued, First, McsHolds
  <2>3. LockIsLast' /\ Chain'
    BY <2>1, ZenonT(60) DEF McsInv, LockIsLast, Chain, First, MyNode, Round
  <2>4. NewNodes' /\ OneSuccessor'
    BY <2>1 DEF McsInv, NewNodes, OneSuccessor, MyNode, NewNode, Round, Linking, Born
  <2>5. Successors'
    BY <2>1 DEF McsInv, Successors, Linking, Untold, Asleep, Told, Wakes, MyNode, Round, McsHolds
  <2>6. Flags'
    BY <2>1 DEF McsInv, Flags, Queued, MyNode, Round, Asleep, McsHolds, First
  <2>7. Events'
    BY <2>1 DEF McsInv, Events, Wakes, Asleep, Told, First, MyNode, Round
  <2> QED BY <2>2, <2>3, <2>4, <2>5, <2>6, <2>7 DEF McsInv
<1> QED BY <1>1, <1>2

LEMMA McsInvAlways ==
  ASSUME Reuse = FALSE
  PROVE  McsSpec => []McsInv
<1>1. McsInv /\ [McsNext]_mcsVars => McsInv'
  BY McsInvKept
<1> QED BY <1>1, McsInvInit, PTL DEF McsSpec

\* Every variable of the queue lock keeps its type, whatever the order in which the
\* threads queue up, tell each other and sleep.
THEOREM McsTypes ==
  ASSUME Reuse = FALSE
  PROVE  McsSpec => []McsTypeOK
<1>1. McsInv => McsTypeOK
  BY DEF McsInv, Types, Local, Pc, McsTypeOK
<1> QED BY <1>1, McsInvAlways, PTL

\* One thread at a time holds a lock (pthread_once's, the one under which mutexes are
\* initialised): ptw32_mcs_lock_acquire and ptw32_mcs_lock_release exclude each other, whatever
\* the order of the exchanges, of the flags and of the events, and across transfers.
THEOREM McsMutualExclusion ==
  ASSUME Reuse = FALSE
  PROVE  McsSpec => []MutualExclusion
<1>1. McsInv => MutualExclusion
  <2> SUFFICES ASSUME McsInv, NEW t \in Thread, NEW u \in Thread, t # u, McsHolds(t), McsHolds(u),
                      th[t].lock = th[u].lock
               PROVE  FALSE
    BY DEF MutualExclusion
  <2> QED BY DEF McsInv, Queues, First
<1> QED BY <1>1, McsInvAlways, PTL

\* A releaser that has been told of its successor finds it: ptw32_mcs_lock_release never
\* dereferences a node->next that is null. (It may if nodes are used again.)
THEOREM McsNoNullDeref ==
  ASSUME Reuse = FALSE
  PROVE  McsSpec => []NoNullDeref
<1>1. McsInv => NoNullDeref
  BY DEF McsInv, NoNullDeref
<1> QED BY <1>1, McsInvAlways, PTL

-----------------------------------------------------------------------------
(* The lock is a FIFO lock *)

\* The holder of a lock is the first in its queue.
HolderFirst ==
  \A l \in Lock :
    /\ \A t \in Thread : McsHolds(t) /\ th[t].lock = l =>
         McsHolder[l] = t /\ Len(order[l]) >= 1 /\ order[l][1] = t
    /\ (\A t \in Thread : ~(McsHolds(t) /\ th[t].lock = l)) => McsHolder[l] = Null

LEMMA HolderIs == McsInv => HolderFirst
<1> SUFFICES ASSUME McsInv, NEW l \in Lock
             PROVE  /\ \A t \in Thread : McsHolds(t) /\ th[t].lock = l =>
                         McsHolder[l] = t /\ Len(order[l]) >= 1 /\ order[l][1] = t
                    /\ (\A t \in Thread : ~(McsHolds(t) /\ th[t].lock = l)) => McsHolder[l] = Null
  BY DEF HolderFirst
<1>1. \A t \in Thread : McsHolds(t) /\ th[t].lock = l => Len(order[l]) >= 1 /\ order[l][1] = t
  BY DEF McsInv, Queues, First
<1>2. ASSUME NEW t \in Thread, McsHolds(t), th[t].lock = l PROVE McsHolder[l] = t
  <2>1. \A u \in Thread : McsHolds(u) /\ th[u].lock = l => u = t
    BY <1>1, <1>2
  <2>2. (CHOOSE u \in Thread : McsHolds(u) /\ th[u].lock = l) = t
    BY <1>2, <2>1
  <2> QED BY <1>2, <2>2 DEF McsHolder
<1>3. (\A t \in Thread : ~(McsHolds(t) /\ th[t].lock = l)) => McsHolder[l] = Null
  BY DEF McsHolder
<1> QED BY <1>1, <1>2, <1>3

LEMMA HolderIsAfter == McsInv' => HolderFirst'
BY HolderIs, PTL

\* Only the thread that makes a step can become the holder, or cease to be.
LEMMA HolderMoves ==
  ASSUME McsInv, McsInv', NEW t \in Thread, NEW k \in Lock,
         \A u \in Thread : u # t => th'[u] = th[u],
         McsHolds(t) => th[t].lock = k,
         McsHolds(t)' => th'[t].lock = k
  PROVE  /\ McsHolds(t) /\ McsHolds(t)' => McsHolder' = McsHolder
         /\ ~McsHolds(t) /\ ~McsHolds(t)' => McsHolder' = McsHolder
         /\ ~McsHolds(t) /\ McsHolds(t)' =>
              McsHolder[k] = Null /\ McsHolder' = [McsHolder EXCEPT ![k] = t]
         /\ McsHolds(t) /\ ~McsHolds(t)' =>
              McsHolder[k] = t /\ McsHolder' = [McsHolder EXCEPT ![k] = Null]
<1>1. /\ McsHolder = [l \in Lock |-> McsHolder[l]]
      /\ McsHolder' = [l \in Lock |-> McsHolder'[l]]
  BY DEF McsHolder
<1>2. \A u \in Thread : u # t => (McsHolds(u)' <=> McsHolds(u)) /\ th'[u].lock = th[u].lock
  BY Others
<1>3. \A l \in Lock : l # k => McsHolder'[l] = McsHolder[l]
  <2> SUFFICES ASSUME NEW l \in Lock, l # k PROVE McsHolder'[l] = McsHolder[l]
    OBVIOUS
  <2>1. CASE \E u \in Thread : McsHolds(u) /\ th[u].lock = l
    <3>1. PICK u \in Thread : McsHolds(u) /\ th[u].lock = l
      BY <2>1
    <3>2. McsHolder[l] = u
      BY <3>1, HolderIs DEF HolderFirst
    <3>3. McsHolds(u)' /\ th'[u].lock = l
      BY <1>2, <3>1
    <3>4. McsHolder'[l] = u
      BY <3>3, HolderIsAfter DEF HolderFirst
    <3> QED BY <3>2, <3>4
  <2>2. CASE \A u \in Thread : ~(McsHolds(u) /\ th[u].lock = l)
    <3>1. McsHolder[l] = Null
      BY <2>2, HolderIs DEF HolderFirst
    <3>2. \A u \in Thread : ~(McsHolds(u)' /\ th'[u].lock = l)
      BY <1>2, <2>2
    <3>3. McsHolder'[l] = Null
      BY <3>2, HolderIsAfter DEF HolderFirst
    <3> QED BY <3>1, <3>3
  <2> QED BY <2>1, <2>2
<1>4. McsHolds(t) => /\ McsHolder[k] = t
                     /\ \A u \in Thread : u # t => ~(McsHolds(u) /\ th[u].lock = k)
  BY HolderIs DEF HolderFirst
<1>5. McsHolds(t)' => /\ McsHolder'[k] = t
                      /\ \A u \in Thread : u # t => ~(McsHolds(u)' /\ th'[u].lock = k)
  BY HolderIsAfter DEF HolderFirst
<1>6. McsHolds(t) /\ ~McsHolds(t)' => McsHolder'[k] = Null
  BY <1>2, <1>4, HolderIsAfter DEF HolderFirst
<1>7. ~McsHolds(t) /\ McsHolds(t)' => McsHolder[k] = Null
  BY <1>2, <1>5, HolderIs DEF HolderFirst
<1>8. ~McsHolds(t) /\ ~McsHolds(t)' => McsHolder'[k] = McsHolder[k]
  <2> SUFFICES ASSUME ~McsHolds(t), ~McsHolds(t)' PROVE McsHolder'[k] = McsHolder[k]
    OBVIOUS
  <2>1. CASE \E u \in Thread : McsHolds(u) /\ th[u].lock = k
    <3>1. PICK u \in Thread : McsHolds(u) /\ th[u].lock = k
      BY <2>1
    <3>2. McsHolder[k] = u
      BY <3>1, HolderIs DEF HolderFirst
    <3>3. McsHolds(u)' /\ th'[u].lock = k
      BY <1>2, <3>1
    <3>4. McsHolder'[k] = u
      BY <3>3, HolderIsAfter DEF HolderFirst
    <3> QED BY <3>2, <3>4
  <2>2. CASE \A u \in Thread : ~(McsHolds(u) /\ th[u].lock = k)
    <3>1. McsHolder[k] = Null
      BY <2>2, HolderIs DEF HolderFirst
    <3>2. \A u \in Thread : ~(McsHolds(u)' /\ th'[u].lock = k)
      BY <1>2, <2>2
    <3>3. McsHolder'[k] = Null
      BY <3>2, HolderIsAfter DEF HolderFirst
    <3> QED BY <3>1, <3>3
  <2> QED BY <2>1, <2>2
<1>9. /\ \A v : McsHolder'[k] = v => McsHolder' = [McsHolder EXCEPT ![k] = v]
      /\ McsHolder'[k] = McsHolder[k] => McsHolder' = McsHolder
  BY <1>1, <1>3
<1> QED BY <1>4, <1>5, <1>6, <1>7, <1>8, <1>9

\* Each step is one of the FIFO lock, or changes neither its queues nor its holders.
LEMMA FifoInit == McsInit => Fifo!Init
<1> SUFFICES ASSUME McsInit PROVE Fifo!Init
  OBVIOUS
<1>1. McsHolder = [l \in Lock |-> Null]
  BY DEF McsHolder, McsHolds, McsInit
<1> QED BY <1>1 DEF McsInit, Fifo!Init

LEMMA FifoKept ==
  ASSUME McsInv, McsInv', NEW t \in Thread, NEW k \in Lock,
         \A u \in Thread : u # t => th'[u] = th[u],
         McsHolds(t) => th[t].lock = k,
         McsHolds(t)' => th'[t].lock = k,
         \/ order' = order /\ (McsHolds(t) => McsHolds(t)')
         \/ order' = [order EXCEPT ![k] = Append(order[k], t)] /\ ~McsHolds(t)
            /\ (McsHolds(t)' => Len(order[k]) = 0)
         \/ order' = [order EXCEPT ![k] = Tail(order[k])] /\ McsHolds(t) /\ ~McsHolds(t)'
  PROVE  [Fifo!Next]_(Fifo!vars)
<1>1. /\ McsHolds(t) /\ McsHolds(t)' => McsHolder' = McsHolder
      /\ ~McsHolds(t) /\ ~McsHolds(t)' => McsHolder' = McsHolder
      /\ ~McsHolds(t) /\ McsHolds(t)' =>
           McsHolder[k] = Null /\ McsHolder' = [McsHolder EXCEPT ![k] = t]
      /\ McsHolds(t) /\ ~McsHolds(t)' =>
           McsHolder[k] = t /\ McsHolder' = [McsHolder EXCEPT ![k] = Null]
  BY HolderMoves
<1>2. order[k] \in Seq(Thread) /\ order \in [Lock -> Seq(Thread)] /\ Null # t
  BY ThreadAssumption DEF McsInv, Types
<1>3. CASE order' = order /\ (McsHolds(t) <=> McsHolds(t)')
  BY <1>1, <1>3 DEF Fifo!vars
<1>4. CASE order' = order /\ ~McsHolds(t) /\ McsHolds(t)'
  <2>1. Len(order'[k]) >= 1 /\ order'[k][1] = t
    BY <1>4, HolderIsAfter DEF HolderFirst
  <2>2. order[k] # <<>> /\ Head(order[k]) = t
    <3>1. order[k] = <<>> => Len(order[k]) = 0
      OBVIOUS
    <3> QED BY <1>2, <1>4, <2>1, <3>1
  <2>3. Fifo!Acquire(k)
    BY <1>1, <1>4, <2>2 DEF Fifo!Acquire
  <2> QED BY <2>3 DEF Fifo!Next
<1>5. CASE order' = [order EXCEPT ![k] = Append(order[k], t)] /\ ~McsHolds(t) /\ ~McsHolds(t)'
  <2>1. Fifo!Request(t, k)
    BY <1>1, <1>5 DEF Fifo!Request
  <2> QED BY <2>1 DEF Fifo!Next
<1>6. CASE order' = [order EXCEPT ![k] = Append(order[k], t)] /\ ~McsHolds(t) /\ McsHolds(t)'
           /\ Len(order[k]) = 0
  <2>1. order[k] = <<>>
    BY <1>2, <1>6
  <2>2. Append(order[k], t) = <<t>>
    BY <2>1
  <2>3. Fifo!AcquireFree(t, k)
    BY <1>1, <1>6, <2>1, <2>2 DEF Fifo!AcquireFree
  <2> QED BY <2>3 DEF Fifo!Next
<1>7. CASE order' = [order EXCEPT ![k] = Tail(order[k])] /\ McsHolds(t) /\ ~McsHolds(t)'
  <2>1. Fifo!Release(k)
    BY <1>1, <1>2, <1>7 DEF Fifo!Release
  <2> QED BY <2>1 DEF Fifo!Next
<1> QED BY <1>3, <1>4, <1>5, <1>6, <1>7

LEMMA FifoStep ==
  ASSUME Reuse = FALSE, McsInv, McsInv', [McsNext]_mcsVars
  PROVE  [Fifo!Next]_(Fifo!vars)
<1>1. CASE McsNext
  <2>1. PICK t \in Thread :
          \/ \E l \in Lock : LockAcquire(t, l) \/ LockTryAcquire(t, l)
          \/ Transfer(t) \/ McsStep(t)
    BY <1>1 DEF McsNext
  <2>2. Types /\ th \in [Thread -> Local] /\ th[t] \in Local /\ th[t].lock \in Lock
    BY DEF McsInv, Types, Local
  <2>3. ASSUME NEW l \in Lock, LockAcquire(t, l) \/ LockTryAcquire(t, l)
        PROVE  [Fifo!Next]_(Fifo!vars)
    <3>1. PICK pc \in {"swap", "try"} : Initialise(t, l, pc)
      BY <2>3 DEF LockAcquire, LockTryAcquire
    <3>2. /\ order' = order /\ ~McsHolds(t)
          /\ th' = [th EXCEPT ![t] = [th[t] EXCEPT !.pc = pc, !.lock = l, !.round = th[t].round + 1,
                                                   !.node = "own"]]
      BY <3>1 DEF Initialise, McsHolds
    <3>3. (\A u \in Thread : u # t => th'[u] = th[u]) /\ th'[t].pc = pc
      BY <2>2, <3>2 DEF Local
    <3>4. ~McsHolds(t)'
      BY <3>3 DEF McsHolds
    <3> QED BY <3>2, <3>3, <3>4, FifoKept
  <2>4. ASSUME order' = order, \A u \in Thread : u # t => th'[u] = th[u],
               th'[t].lock = th[t].lock, McsHolds(t) => McsHolds(t)'
        PROVE  [Fifo!Next]_(Fifo!vars)
    BY <2>2, <2>4, FifoKept
  <2>5. ASSUME NEW pc \in Pc, McsGoto(t, pc), order' = order,
               McsHolds(t) => \/ pc \in {"held", "move", "cas", "reread", "pass"}
                              \/ pc \in {"await", "store", "sleep"} /\ th[t].w = "next"
        PROVE  [Fifo!Next]_(Fifo!vars)
    <3>1. /\ \A u \in Thread : u # t => th'[u] = th[u]
          /\ th'[t].pc = pc /\ th'[t].lock = th[t].lock /\ th'[t].w = th[t].w
      BY <2>2, <2>5, Moved
    <3>2. McsHolds(t) => McsHolds(t)'
      BY <2>5, <3>1 DEF McsHolds
    <3> QED BY <2>4, <2>5, <3>1, <3>2
  <2>6. ASSUME NEW k, k = th[t].lock, lock[k] = Null,
               order' = [order EXCEPT ![k] = Append(order[k], t)]
        PROVE  Len(order[k]) = 0
    <3>1. Len(order[k]) # 0 => Len(order[k]) \in 1..Len(order[k])
      BY <2>2, <2>6, InQueue
    <3>2. PICK p : p = order[k][Len(order[k])]
      OBVIOUS
    <3>3. Len(order[k]) # 0 => p \in Thread /\ lock[k] = MyNode(p)
      BY <2>2, <2>6, <3>1, <3>2, InChain
    <3> QED BY <2>2, <2>6, <3>3, Nodes
  <2>7. CASE McsSwap(t)
    <3>1. PICK k, q : k = th[t].lock /\ q = lock[k]
      OBVIOUS
    <3>2. /\ order' = [order EXCEPT ![k] = Append(order[k], t)] /\ ~McsHolds(t)
          /\ th' = [th EXCEPT ![t] = [th[t] EXCEPT !.pc = IF q = Null THEN "held" ELSE "link",
                                                   !.other = q]]
      BY <2>7, <3>1 DEF McsSwap, McsHolds
    <3>3. /\ \A u \in Thread : u # t => th'[u] = th[u]
          /\ th'[t].pc = IF q = Null THEN "held" ELSE "link"
          /\ th'[t].lock = k
      BY <2>2, <3>1, <3>2 DEF Local
    <3>4. McsHolds(t)' => q = Null
      BY <3>3 DEF McsHolds
    <3>5. McsHolds(t)' => Len(order[k]) = 0
      BY <2>6, <3>1, <3>2, <3>4
    <3> QED BY <2>2, <3>1, <3>2, <3>3, <3>5, FifoKept
  <2>8. CASE Try(t)
    <3>1. PICK k : k = th[t].lock
      OBVIOUS
    <3>2. ~McsHolds(t)
      BY <2>8 DEF Try, McsHolds
    <3>3. CASE lock[k] = Null
      <4>1. order' = [order EXCEPT ![k] = Append(order[k], t)] /\ McsGoto(t, "held")
        BY <2>8, <3>1, <3>3 DEF Try
      <4>2. (\A u \in Thread : u # t => th'[u] = th[u]) /\ th'[t].lock = k
        BY <2>2, <3>1, <4>1, Moved DEF Pc
      <4>3. Len(order[k]) = 0
        BY <2>6, <3>1, <3>3, <4>1
      <4> QED BY <2>2, <3>1, <3>2, <4>1, <4>2, <4>3, FifoKept
    <3>4. CASE lock[k] # Null
      <4>1. order' = order /\ McsGoto(t, "out")
        BY <2>8, <3>1, <3>4 DEF Try
      <4> QED BY <2>5, <3>2, <4>1 DEF Pc
    <3> QED BY <3>3, <3>4
  <2>9. CASE Link(t)
    <3>1. McsGoto(t, "tell") /\ order' = order /\ ~McsHolds(t)
      BY <2>9 DEF Link, McsHolds
    <3> QED BY <2>5, <3>1 DEF Pc
  <2>10. CASE Tell(t)
    <3>1. FlagSet(t, th[t].other, "next", "await") /\ order' = order /\ ~McsHolds(t)
      BY <2>10 DEF Tell, McsHolds
    <3>2. (\A u \in Thread : u # t => th'[u] = th[u]) /\ th'[t].lock = th[t].lock
      BY <2>2, <3>1 DEF FlagSet, Local
    <3> QED BY <2>4, <3>1, <3>2
  <2>11. CASE Signal(t)
    <3>1. /\ order' = order /\ ~McsHolds(t)
          /\ th' = [th EXCEPT ![t] = [th[t] EXCEPT !.pc = th[t].then, !.wake = Null]]
      BY <2>11 DEF Signal, McsHolds
    <3>2. (\A u \in Thread : u # t => th'[u] = th[u]) /\ th'[t].lock = th[t].lock
      BY <2>2, <3>1 DEF Local
    <3> QED BY <2>4, <3>1, <3>2
  <2>12. CASE Await(t) \/ Store(t) \/ Sleep(t)
    <3>1. th[t].w \in Which /\ th[t].pc \in {"await", "store", "sleep"}
      BY <2>2, <2>12 DEF Local, Await, Store, Sleep
    <3>2. PICK pc \in {"store", "sleep", McsAfterWait(th[t].w)} : McsGoto(t, pc) /\ order' = order
      BY <2>12 DEF Await, Store, Sleep
    <3>3. McsHolds(t) => th[t].w = "next"
      BY <3>1 DEF McsHolds
    <3>4. pc \in Pc /\ (th[t].w = "next" => pc \in {"store", "sleep", "reread"})
      BY <3>2 DEF McsAfterWait, Pc
    <3> QED BY <2>5, <3>2, <3>3, <3>4
  <2>13. CASE Transfer(t) \/ TransferNext(t)
    <3>1. /\ order' = order
          /\ \/ th' = [th EXCEPT ![t] = [th[t] EXCEPT !.node = "new"]] /\ th[t].pc = "held"
             \/ th' = [th EXCEPT ![t] = [th[t] EXCEPT !.pc = "held", !.node = "new"]]
             \/ McsGoto(t, "move")
      BY <2>13 DEF Transfer, TransferNext
    <3>2. /\ \A u \in Thread : u # t => th'[u] = th[u]
          /\ th'[t].lock = th[t].lock /\ th'[t].pc \in {"held", "move"}
      BY <2>2, <3>1, ZenonT(60) DEF Local, McsGoto
    <3>3. McsHolds(t)'
      BY <3>2 DEF McsHolds
    <3> QED BY <2>4, <3>1, <3>2, <3>3
  <2>14. CASE McsRelease(t) \/ Reread(t)
    <3>1. PICK pc \in {"cas", "pass"} :
            th' = [th EXCEPT ![t] = [th[t] EXCEPT !.pc = pc, !.other = next[MyNode(t)]]]
      BY <2>14 DEF McsRelease, Reread
    <3>2. /\ \A u \in Thread : u # t => th'[u] = th[u]
          /\ th'[t].lock = th[t].lock /\ th'[t].pc = pc /\ order' = order
      BY <2>2, <2>14, <3>1 DEF Local, McsRelease, Reread
    <3>3. McsHolds(t)'
      BY <3>2 DEF McsHolds
    <3> QED BY <2>4, <3>2, <3>3
  <2>15. CASE Cas(t)
    <3>1. PICK k : k = th[t].lock
      OBVIOUS
    <3>2. McsHolds(t)
      BY <2>15 DEF Cas, McsHolds
    <3>3. CASE lock[k] = MyNode(t)
      <4>1. order' = [order EXCEPT ![k] = Tail(order[k])] /\ McsGoto(t, "out")
        BY <2>15, <3>1, <3>3 DEF Cas
      <4>2. (\A u \in Thread : u # t => th'[u] = th[u]) /\ th'[t].pc = "out"
        BY <2>2, <4>1, Moved DEF Pc
      <4>3. ~McsHolds(t)'
        BY <4>2 DEF McsHolds
      <4> QED BY <2>2, <3>1, <3>2, <4>1, <4>2, <4>3, FifoKept
    <3>4. CASE lock[k] # MyNode(t)
      <4>1. order' = order /\ th' = [th EXCEPT ![t] = [th[t] EXCEPT !.pc = "await", !.w = "next"]]
        BY <2>15, <3>1, <3>4 DEF Cas
      <4>2. /\ \A u \in Thread : u # t => th'[u] = th[u]
            /\ th'[t].lock = th[t].lock /\ th'[t].pc = "await" /\ th'[t].w = "next"
        BY <2>2, <4>1 DEF Local
      <4>3. McsHolds(t)'
        BY <4>2 DEF McsHolds
      <4> QED BY <2>4, <4>1, <4>2, <4>3
    <3> QED BY <3>3, <3>4
  <2>16. CASE Pass(t)
    <3>1. PICK k, q : k = th[t].lock /\ q = th[t].other
      OBVIOUS
    <3>2. McsHolds(t) /\ th[t].other # Null
      BY <2>16 DEF Pass, McsHolds, McsInv
    <3>3. FlagSet(t, q, "ready", "out") /\ order' = [order EXCEPT ![k] = Tail(order[k])]
      BY <2>16, <3>1, <3>2 DEF Pass
    <3>4. (\A u \in Thread : u # t => th'[u] = th[u]) /\ th'[t].pc \in {"signal", "out"}
      BY <2>2, <3>3 DEF FlagSet, Local
    <3>5. ~McsHolds(t)'
      BY <3>4 DEF McsHolds
    <3> QED BY <2>2, <3>1, <3>2, <3>3, <3>4, <3>5, FifoKept
  <2> QED BY <2>1, <2>3, <2>7, <2>8, <2>9, <2>10, <2>11, <2>12, <2>13, <2>14, <2>15, <2>16
          DEF McsStep
<1>2. CASE UNCHANGED mcsVars
  <2>1. order' = order /\ McsHolder' = McsHolder
    BY <1>2 DEF mcsVars, McsHolder, McsHolds
  <2> QED BY <2>1 DEF Fifo!vars
<1> QED BY <1>1, <1>2

\* The queue lock is a FIFO lock, safety part: it is granted in the order of the exchanges in
\* ptw32_mcs_lock_acquire, to the next in line and to nobody else.
THEOREM McsIsFifo ==
  ASSUME Reuse = FALSE
  PROVE  McsSpec => Fifo!Init /\ [][Fifo!Next]_(Fifo!vars)
<1>1. McsInv /\ McsInv' /\ [McsNext]_mcsVars => [Fifo!Next]_(Fifo!vars)
  BY FifoStep
<1> QED BY <1>1, FifoInit, McsInvAlways, PTL DEF McsSpec

=============================================================================
