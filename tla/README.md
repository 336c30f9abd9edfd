# A verification project for AnchorHelper

AnchorHelper is a small wxWidgets program that finds the RTLS anchors on a
network by DNS-SD, lists them, and gives the selected ones a static address or
switches them to DHCP.  It carries the two libraries it stands on when it is
built under MSVC: Apple's DNS-SD client stub and pthreads-win32.  This
directory holds TLA+ specifications of all three, their TLC runs, and theorems
about them checked by TLAPS.  The models are written from the code; line
numbers refer to this commit.

## The system

| part | state it keeps | operations |
| --- | --- | --- |
| GUI thread (`HelperFrame.cpp`) | the list (id, selected, address, status per row), the text fields, which buttons are enabled, the wx event queue | handlers of four events; Apply, Populate, the DHCP box; the user editing the list |
| database (`DB.cpp`, `Typess.h`) | a vector of shared `Anchor` objects (`selected`, `ip_set`, `status`, `sock`), netmask, gateway, mode | `AddAnchor`, `FindAnchor`, iteration |
| Discovery thread (`Discovery.cpp`) | DNS-SD references, ids of the TXT records | `BrowseReply`, `ResolveReply`, `AddrInfoReply`, the select loop |
| `TryConnect` threads (`Connection.cpp`) | an iterator into the vector | connect to the selected anchors, then send to them; one thread per click on Apply |
| `AnchorConnection` threads (`Connection.h`, `Connection.cpp`) | the socket, the bytes received | cut the bytes into frames, handle two kinds of reply, delete themselves |
| `Socket` (`Socket.cpp`) | a descriptor | connect, receive, send a frame, close |
| scan thread (`tools.cpp`) | the interface chosen, `IPIter`, the addresses collected | ping the addresses of the network, report those that do not answer |
| `crc16`, `Shutdown`, `Thread` | tables; a pipe or event; a thread id | checksum; wait for data or shutdown; start a thread |
| `dnssd/dnssd_clientstub.c` | references to operations of the mDNS daemon, their connections, the uids on a shared one | connect, deliver a request, process results, register and update records, deallocate |
| `pthread/`: objects | mutexes of four kinds (normal and robust), condition variables, semaphores, read-write locks, barriers, spin locks, `pthread_once`, and the queue lock under all of them | init, take, try, take with a time limit, release, destroy |
| `pthread/`: threads | structures in a reuse pool, keys and associations, cleanup handlers, attributes and priorities | create, join, detach, exit, cancel, `pthread_setspecific`, `pthread_key_delete`, ... |

The threads share the database and the `Anchor` objects *without any lock*
(the mutex calls in `ConnectToAnchor` are commented out), and they talk to the
GUI thread by wx events.  An event carries the object, not a copy: the status
shown is the one at the time the event is handled.  Discovery calls the stub,
which calls Discovery's callbacks, which call the stub again.  In `pthread/`
everything but the semaphores rests on the queue lock: condition variables
are made of two semaphores and a mutex, read-write locks of two mutexes and a
condition variable, barriers of a queue lock and a semaphore.

What is hard about it: threads that read state another one changes (the socket
of an anchor whose connection ended, an iterator into a vector that grows);
handlers that decide by state left over from an earlier command; connections
that end at any moment and descriptors that are reused; bytes that arrive in
pieces; buttons that have to be enabled again on every path; callbacks that
free the reference they are called for; replies told apart by a number;
waits whose time outs and cancellations race with what ends them; counters at
their limit; structures that are used again while somebody holds their handle;
locks taken in opposite orders.  The list `hazards` of `PROJECT.json` names
each at its line.

What makes each part correct: the list shows known anchors, once each, with
their latest status; Apply configures exactly what was checked and reports
success only where there is success; an anchor has one connection, and one
connection's end does not touch another; Apply and Populate give the buttons
back; the parser hands over the messages that were sent; the scan offers
addresses that can be used; an anchor that stays is found, and nothing in the
stub is used after it was freed; locks exclude, are granted and wake their
waiters; no signal or unit is lost; handles mean the thread they were given
out for; what is to run once runs once.

## The modules

| module | models | source |
| --- | --- | --- |
| `AnchorHelper` | the application's threads, composed | `helper/` |
| `FrameParser` | `HandlerConnection::Run` over single bytes | `Connection.h` |
| `OrderedDelivery` | what a connection promises to its handlers | abstract |
| `IpScan` | `ip_scan` and `IPIter` | `tools.cpp` |
| `DnssdClient` | references with a connection each, `DNSServiceProcessResult` | `dnssd_clientstub.c` |
| `Discovery` | the discovery thread, on top of `DnssdClient` | `Discovery.cpp` |
| `SharedConnection` | many operations and records on one connection | `dnssd_clientstub.c` |
| `Pthreads` | what the modules below share: threads, waits of Windows | |
| `McsLock` | the queue lock, one action per access to shared memory | `ptw32_MCS_lock.c` |
| `FifoLock` | what that lock promises | abstract |
| `Mutex` | mutexes of every kind, with the end of an owner | `pthread_mutex_*.c` |
| `RwLock` | read-write locks | `pthread_rwlock_*.c` |
| `SpinLock` | spin locks and their making at first use | `pthread_spin_*.c` |
| `Barrier` | barriers | `pthread_barrier_*.c` |
| `StaticInit` | objects made by whoever uses them first | `*_check_need_init.c` |
| `Statics` | `SpinLock` and `StaticInit` side by side: what may be initialised statically | |
| `Deadline` | absolute times and intervals made milliseconds | `ptw32_relmillisecs.c`, `pthread_delay_np.c` |
| `Semaphore` | semaphores with time outs and cancellation | `sem_*.c` |
| `CondVar` | condition variables | `pthread_cond_*.c` |
| `Once` | `pthread_once` with cancellation | `pthread_once.c` |
| `Keys` | keys, associations, destructors at exit | `pthread_key_*.c`, `ptw32_tkAssoc*.c` |
| `ThreadLife` | threads, their structures and handles | `create.c`, `pthread_join.c`, ... |
| `Attributes` | attribute objects and what is made with them, priorities | `pthread_*attr_*.c` |
| `Cleanup` | cleanup handlers and the unwinding of a thread | `cleanup.c`, `ptw32_throw.c` |
| `MC...` | instances for TLC: `MCAnchorHelper`, `MCInput`, `MCLocks`, `MCThreads` | |
| `AnchorHelperProofs`, `ApplyProofs` | theorems about `AnchorHelper`: what always holds; what holds of one or two Applies | |
| `McsLockProofs`, `CondVarProofs` | theorems about the module they are named for | |
| `InputProofs` | theorems about `FrameParser` and `IpScan`, and the types of `MCInput` | |
| `LocksProofs` | theorems about `Statics` (`StaticInit`, `SpinLock`), `Barrier`, `RwLock`, `Mutex`, `Deadline` | |
| `ThreadsProofs` | theorems about `Once`, `Semaphore`, `Attributes`, `Cleanup`, `Keys`, `ThreadLife` | |
| `StubProofs` | theorems about `DnssdClient` with `Discovery`, and `SharedConnection` | |

How they fit together.

* `AnchorHelper` keeps whole replies in a connection and hands them over in
  order; `FrameParser` shows that the receive loop does that with bytes (it
  implements `OrderedDelivery`).
* `AnchorHelper`'s scan thread queues *any* sequence of at most as many
  distinct addresses as were asked for; `IpScan` shows that the real one queues
  such a sequence (`ScanTypeOK`, `OffersDistinct`, `ScanReports`).
* `AnchorHelper` lets anchors be announced at any time; `Discovery` is how they
  come to be, and `Discovery` EXTENDS `DnssdClient`: a callback is a frame on the
  stack of calls of the stub.
* `McsLock` implements `FifoLock`, and the modules that use the queue lock
  (`Barrier`, `StaticInit`, `SpinLock`, `Once`, `Keys`, `ThreadLife`) take it as
  the exclusion and the order that shows; `RwLock` uses mutexes and a
  condition variable as what `Mutex` and `CondVar` show them to be; `CondVar`
  and `Barrier` use semaphores as what `Semaphore` shows.

Each of these substitutions is one of an abstract object for a detailed one, and
the header of the module names it.

### Instances in packs

The objects of `pthread/` do not interact with one another beyond that, nor do
the parser, the scan and discovery.  `MCInput`, `MCLocks` and `MCThreads`
therefore EXTEND several modules and add one variable (`about`, `object`) that
says which of them a behaviour is about; it is chosen in the initial state, the
others stay as they are, and the state space is the *sum* of those of the
components.  Fairness is stated for the steps of the component chosen, and a
property of the pack is the conjunction of the components' properties that
ask the same question.

### AnchorHelper

State and code: `ancs` is the vector `m_ancs`, `anchor` the objects in it;
`rows`, `netText`, `applyOn`, `populateOn` are the widgets; `queue` is the
event queue; `adding` holds an anchor that `AddrInfoReply` has added and not
yet announced; `job[t]` is a `TryConnect` thread with its place in the vector,
`opening[t]` the descriptor it is connecting; `scan[s]` a scan thread; `conn[c]` a connection with its thread, its descriptor
and what is on the wire in both directions; `dev` the configuration of the
anchors themselves.

Actions: `AddAnchor` and `QueueFound` (`AddrInfoReply`, two steps because
the GUI thread can run in between), `OnAnchorFound`, `OnProgressUpdate`,
`OnScanIPFinished`, `OnBtnApply`, `OnBtnPopulate`, `OnChkBoxClicked`,
`ToggleRow`, `EditRow`, `EditNet` (the list and text widgets), `ScanFinish`,
`ScanNoHost` (`ip_scan`), `ConnectTurn`, `OpenSocket`, `ConnectToAnchor`, `MarkConnect`,
`SendTurn`, `SendGet` (`TryConnect::Run`, cut where another thread may act:
the test of `sock`, the descriptor and the connect are separate, as are the command and the
query a second later), `HandleUseStaticAddr`, `HandleSetStaticAddr`,
`ConnectionClose`, `ConnectionDelete` (`AnchorConnection::Run`).  `DeviceStep`
and `Drop` are the anchors, external to the program.

Undefined behaviour is a choice.  A push to the vector may or may not move it;
a `TryConnect` thread whose iterator was invalidated may go on over the old
elements or crash (`StaleIterator`).  `FindAnchor`, which the handlers call for every row,
iterates, too, while `AddAnchor` pushes: it finds what it would have found before or after, or
the GUI thread crashes (`FindAnchorRaces`).  Sending over a deleted `Socket` may reach
whoever has the descriptor now, nobody, or crash.  A thread reads from
whatever connection its descriptor leads to.

`Env` says what the environment does in an instance: `late` (anchors found
after Apply), `busyUser` (the user works the list while Apply is disabled),
`refuse`, `ignore`, `drop` (the anchors), `noHost` (no interface reaches the
anchor), `empty` (Apply with nothing selected), `noSocket` (the system has no
descriptor left: the `const char*` that `Socket()` throws is not what
`ConnectToAnchor` catches, and the program ends).  A `crashed` program takes no step.

Abstracted: an address is a member of `Addr`, netmask and gateway are one
value, texts are classes (a valid address, one the pattern rejects, one it
accepts although `inet_addr` does not), log lines and layout are left out.

### FrameParser and IpScan

`stream` is what the anchor has sent, `got` how much of it `ReceiveData`
returned so far, `rx` is `rxBytes`.  Each way through the loop is an action:
`Receive`, `SkipByte`, `Incomplete`, `Found`, `Handle`, `TooShort`, `Unknown`,
`Close`.  Bytes are real bytes; the checksum is any two bytes because the code
ignores the comparison.

In `IpScan` fields have `W` bits (8 in the code), so that whole networks fit into
TLC.  `Ping` is one turn of the loop, with either outcome of the ping, for the host's own
address as for any other: that this one is not offered is due to the host answering itself.

### DnssdClient, Discovery, SharedConnection

In `DnssdClient`, `ref[r]` is a `DNSServiceOp`, `wire[r]` its connection, `stack` the calls of
`DNSServiceProcessResult` that are running, the innermost last: Discovery's
callbacks process a reference of their own inside one, and deallocate it there.
`moreptr` is the pointer to a local variable of such a call by which
`DNSServiceRefDeallocate` tells it to stop.  `query` is an operation being
started: memory, the connection with its retries, the request.

`Discovery` adds the loop (`HandleEvents`, `HandleFailure`) and the callbacks, one
action for the whole of each up to its next call of the stub, and the network:
anchors appear and vanish, have a TXT record or not, answer with an address, a
negative answer, or a reply of which the stub tells no callback (`silent`): one that is too short
to be read (dnssd_clientstub.c:1169, and the same test in each handler) or an alias.
`Faults` says what goes wrong in
a behaviour: `vanish`, `noTxt`, `silent`, `die` (the daemon ends), `late` (it
starts again), `hang`.  Freed memory is kept in the model to be recognised; the
same reference may be allocated again.

`SharedConnection` is the interface the application does not use: a primary
reference, subordinates and records on one connection, replies told apart by
uid, cancellation.  `born` is a history variable that says which call something
is from; memory that is freed is used again.

### The locks

*McsLock*: `McsSwap` (the exchange), `Link`, `FlagSet` then `Signal`
(`ptw32_mcs_flag_set`), `Await`, `Store`, `Sleep` (`ptw32_mcs_flag_wait`),
`McsRelease`, `Cas`, `Reread`, `Pass`, and `Transfer` (`ptw32_mcs_node_transfer`).
A node is a thread, the number of the acquisition, and whether it is the one the lock is
acquired with or the one it is transferred to.
`Reuse` says whether a thread uses the same node each time, as its callers may
with a local variable; the handle of the event it sleeps on is then taken to be
given out again, too.  `order` is a history variable.

*Mutex*: `lockIdx`, `mxEvent`, `owner`, `count` are the fields; the atomic steps
are the interlocked operations, the waits and `SetEvent`.  `kind` chooses type,
robustness, calls and whether a robust mutex may be lost.  *RwLock*: `rw` the three
counters, cut where a mutex is taken or given back; a writer waits for a signal, which
reaches it only if it waits already (`WokenUp`), may wake without one, time out or be cancelled
(`WakesUnsignalled`), and then needs the mutex again; `CountMax` stands for
`INT_MAX`.  *Barrier*: `barLock` may belong to the node kept in the
barrier (`"proxy"`).  *StaticInit* and *SpinLock*: `static`/`ptr` is the
pointer with its initial value, the objects made, and the test under the queue lock.
*Deadline*: `Values` stands for the 2^32 values of a `DWORD`, `MsPerSec` and `NsPerMs`
for 1000 and 1000000; the clock goes in nanoseconds, of which the calls see the whole
milliseconds, and what a wait should have lasted is said in nanoseconds, too.

### Threads

*Semaphore*: `value` and the kernel semaphore `gate`; one action per critical section,
one for the wait, its time out or cancellation, and what undoes it.  *CondVar*:
the three counters, the gate `blockLock`, the queue `blockQueue`; a waiter goes
through `enter`, `unlock`, `wait`, `cleanup` and on, and each arrow is an action.  The
gate is a whole semaphore, with its value, its kernel semaphore and the `turn` of each thread
at it (`JoinGate`, `LetThrough`, `PostGate`), because a waiter goes through it with `sem_wait` and may be
cancelled there (`CancelAtGate`) and clean up as that does (`Withdraw`).
*Once*: the flag, the queue of the lock, and the callers.  *Keys*: the chain of each
thread and of each key, the two kinds of locks, and each step of the exit of a
thread, of `pthread_key_delete` and of `pthread_setspecific`.  *ThreadLife*: the
structures with their state and reuse count, the pool, and Windows threads from
`suspended` to `ended`.  *Attributes*: one object, whichever kind a behaviour
chooses, and `pthread_setschedparam` in the steps another thread can see.
*Cleanup*: the list of handlers and the stack of code that runs.

## What is checked

Every passing run is exhaustive for its constants.  `CHECK_DEADLOCK FALSE` is
set throughout because all of these systems may come to rest: the user may stop
clicking, the anchor sending, the threads locking.

| run | instance | shows | states |
| --- | --- | --- | --- |
| `AppOneApply` | three anchors that may refuse or ignore; rows with texts that are no addresses; one Apply | `ApplyLocked`, `OkMeansConfigured`, `SentIsChecked` | 1 520 000 |
| `AppTwoApplies` | two anchors, two Applies with any selection and mode | `OneConnection`, `ListShowsStatus` | 900 000 |
| `AppLate` | two anchors that may be found only after Apply, refuse and hang up, and no socket left; one Apply | `TypeOK`, `ProgressHasStatus` | 582 000 |
| `AppPopulate` | two anchors, each announced twice at any time, two scans, a user who goes on working | `RowsKnown`, `NoDuplicates`, `PopulateDistinct` | 1 950 000 |
| `AppLive` | two anchors that obey, one Apply, one Populate, fairness | `ApplyCompletes`, `FoundIsListed` | 76 000 |
| `Input` | parser (two channels), scan, discovery, shared connection | `InputTypeOK`; frames: `ImplementsChannel` (refinement), `FramesHandled`, `HandledFits`; scan: `OffersRight`; DNS-SD: `StubMemory`, `SharedRefsServed`, `StayingIsStored`; `InputEnds` | 245 000 |
| `Locks` | the seven of `MCLocks` | `LocksTypeOK`; queue lock: `MutualExclusion`, `ImplementsFifoLock` (refinement); `MutexSafe`, `OwnerDeathReported`, `RwSafe`, `BarrierSafe`, `StaticObjects`, `TimesKept`; `LockCallsReturn` | 274 000 |
| `Threads` | the seven of `MCThreads` | `ThreadsTypeOK`, `UnitsKept`, `WaitersCounted`, `InitialisedOnce`, `KeysSafe`, `HandlesNameThreads`, `SettingsHold`, `HandlersRunOnce`; `CallsReturn` | 373 000 |
| `AppDeadSocket`, `AppDoubleClose`, `McsReuse`, `KeyDelete` | | violations, see below | |

### Bounds, and why they are enough

*The application.*  Two anchors are needed for every property that
relates one anchor's progress to another's.  What one anchor does can reach a third, too: when a
connection ends, its descriptor may be given to the next, and the
command meant for it goes to another anchor; hence the three anchors of `AppOneApply`, and what
is said of them below.  The theorems are about any number.  Two jobs give two `TryConnect` threads and a status left over from an
earlier Apply; one more connection than anchors would only allow reconnection,
which the code never does.

*Input.*  Three items on the wire give a frame before and
after every other one.  The channel called *tricky* has frames whose data and checksum are
full of bytes that start or end a frame, in pieces of up to 12 bytes, the longest
frame; the one called *mixed* adds unknown codes, short frames, junk and closing
connections, with pieces of up to 40.  A network of 64 addresses spans three
two-bit fields, with carries into two of them: `cidr` 2 to 6 of 8 stands for
netmasks of 8 to 24 ones of 32.  Two anchors, each appearing twice, and four
references are what the deepest nesting of callbacks holds (browse, resolve, address) and one more.  Two subordinates, one
record and four calls allow an operation to be cancelled and its memory used again by
the next while a reply to the first is on its way.

*Locks.*  Waits involve a predecessor, an owner and a successor; three threads give
each role to someone else.  As long as each acquisition of a queue lock has a node of its
own, it shares nothing with an earlier one of the same thread, which is therefore
as good as another thread.  A mutex of each kind
has three or four calls, enough for a waiter that overwrites `lock_idx` after a
newcomer did; robust ones are in three kinds.  `CountMax = 4` lets
the counters of a read-write lock reach their limit with one reader inside.  A
barrier of height 2 with six arrivals has three rounds.  A `DWORD` of eight values meets times that
wrap, that are the largest value, and that are past; a millisecond of four nanoseconds
has fractions that are rounded down, up, and exactly half.

*Threads.*  Three threads give a signaller, a waiter that times out or is cancelled and
one more; `GoneMax = 2` lets `nWaitersGone` be reset.  Two keys and two iterations
let destructors set the other key again, up to the last iteration.  Two structures for three
threads force their reuse.  Four handlers nest twice in each other.

### Fairness

`AnchorHelper` assumes weak fairness of the threads (each is scheduled), of the
GUI loop (it handles its events) and, for the liveness run only, of anchors
that answer.  The user and the failures of the environment are never obliged
to act.  Parser, scan and discovery threads run while there is something to do; of the
daemon it is assumed that it answers if it is not in a fault (`DaemonStep`), never that
an anchor appears or stays.  In `pthread/` each thread that can take a
step of a call takes it, which is what Windows promises of a runnable thread; a
holder of a lock releases it in the end (`UnlockStep`), because nothing could be said
of the waiters otherwise; a timed wait times out (`Timeout`).  `Keys` needs strong fairness:
the exit of a thread tries the second lock, gives the first back and
tries again, so that its step is not enabled for good, only again and again.
No fairness is assumed of calling, cancelling or posting.

### What does not hold

Four runs end in a violation, each of a statement the code makes itself.

* `AppDeadSocket`: `TryConnect` sends over a `Socket` that was deleted with its
  connection; nothing resets `sock` (Connection.cpp:136).
* `AppDoubleClose`: the end of a connection closes its descriptor twice
  (Connection.h:166 and Socket.cpp:68); the second close may hit the
  connection of another anchor.
* `McsReuse`: with a node that is used again at once, which the file's own
  example does, a releaser may dereference a null pointer
  (ptw32_MCS_lock.c:175, 213-219).  `Locks` is about nodes that are left alone
  until the successor has written to them for the last time, and says nothing of
  others: with `Reuse`, three threads, two locks and three acquisitions each,
  the same late write finds the handle of an event and sets it when another
  event has that handle, and `MutualExclusion` fails, too.
* `KeyDelete`: `pthread_key_delete` releases the lock of the key in the body of its
  loop and looks up the second association without it (pthread_key_delete.c:106).
  `Threads` has `DeleteLimit = 1`, at most one association for a key that is
  deleted, and says nothing of more.

The library's comments say more that the code does not keep.  Each of these statements is
defined in its module, and refuted when TLC is given it.

* `GateNotLost` (`CondVar`, with four threads, five calls and `CvOps = {"wait", "signal",
  "cancelAtGate"}`): a thread cancelled in the `sem_wait` for the gate, which the comment at
  pthread_cond_wait.c:384 calls OK, may take the unit posted for another thread and end
  (sem_wait.c:63).  The gate stays closed for those that queue for it, a signaller with
  `mtxUnblockLock` among them.  `Threads` has such cancellations: `WaitersCounted` holds with
  them, and `CvCallsReturn` excepts a gate that was taken along.
* `LastResetsHeight` (an invariant of `Locks`): the comment at pthread_barrier_wait.c:81-86 says
  that the last thread to enter resets the height while others are still at the semaphore, and
  that the barrier may be destroyed under them then.  The code has no such reset: each
  thread that leaves counts the height up, the last of them gives the lock back, and
  until then `pthread_barrier_destroy` returns `EBUSY`.  `DestroyedIsEmpty`, the contrary of
  the comment, holds in `Locks` and is proved.
* `AbstimeElapsed` (an invariant of `Locks`): `ETIMEDOUT` is to mean that the time has elapsed
  (sem_timedwait.c:132), but that is rounded to the nearest millisecond
  (ptw32_relmillisecs.c:81), and a wait may end up to half a millisecond early.
  `TimesKept` allows for that half and no more.
* `LostStaysLost` (a property of `Locks`): nobody is to get a robust mutex once it is not
  recoverable (pthread_mutexattr_setrobust.c:92-94), but a call reads the state first and takes
  the mutex later (pthread_mutex_lock.c:152, 166), and it may become unrecoverable in between.

Some of the properties of the passing runs hold only in the instance given;
the same model refutes them when more is allowed.

* The application.  `OneConnection` fails with
  `Env = {"busyUser"}`, two jobs and three connections (an unselected row lets
  another anchor's result enable Apply), and with three jobs and no fault at all: two events of the first
  Apply are queued, the first lets the user click again, and the second enables Apply a third
  time while the second thread connects.  `OkMeansConfigured` fails with two jobs,
  `Env = {"ignore"}` and `RowText = {x, g}` (the status of the first Apply is
  reported for the second), and with three anchors and `Env = {"drop"}` (the end of one
  connection closes the descriptor another has got, and the thread of that one then reads the
  replies of the third anchor).  `SentIsChecked`
  fails with `"outOfRange"` in `RowText` (999.1.1.1 passes `IsIPValid`, and `inet_addr` makes
  `INADDR_NONE` of it), and with `late` (0.0.0.0 is sent).
  `ListShowsStatus` fails with `late` (the row comes after its status).
  `ApplyLocked` fails with two jobs, with `late` and with `busyUser`, `SentIsChecked` with the last two
  as well (the user unticks the DHCP box while a DHCP Apply sends) and with two jobs.
  `ApplyCompletes` fails with `refuse`, `drop`, `noHost` or `empty`.  `OffersUsable` fails for netmasks longer than 24 ones
  (`GetNext` forgets `field4`).
* DNS-SD.  `StayingIsStored` is about behaviours without faults: with `vanish` one
  anchor that leaves while it is asked for blocks the thread.  `NothingLeaks`
  excepts `silent` and `die`.  If `accept` fails, the call reports `NoError`
  (dnssd_clientstub.c:819); a socket above `FD_SETSIZE` has no time limit (346).
* Locks.  When a robust normal mutex becomes unrecoverable only one of its waiters
  is woken (`AllWaitersWoken`, pthread_mutex_consistent.c:61); one that `timedlock`
  gets without waiting is not on the list of its owner
  (pthread_mutex_timedlock.c:222-255).  A `timedrdlock` that times out while it resets
  the counts at `INT_MAX` leaves them wrong (`late` in `RwLock`,
  pthread_rwlock_timedrdlock.c:83-95).  A wait of 2^32 milliseconds or more wraps
  and ends early.
* Threads.  `KeysSafe` and `CallsReturn` speak of one association for a key that is deleted; with
  one, too, `pthread_key_delete` may wait for itself (pthread_key_delete.c:74-114), which
  `KeyCallsReturn` excepts (`hung`).  A thread cancelled in `sem_wait` does not give its unit
  back, because the cleanup tests the value of the semaphore for a null pointer (`"cancel"` in
  `SemOps`, sem_wait.c:57-63).  A waiter that is cancelled after it was
  signalled consumes the signal (pthread_cond_wait.c:431).  With `CancelGone = TRUE`
  `pthread_cancel` may reach a thread that has got the structure of the one it was
  called for, and then `CancelHitsNamed`, `LifeCallsReturn` and `CancelSeen` fail;
  `TidOfLiveObject` fails because a thread may delete its `Thread` object before
  `pthread_create` has stored the id in it (helper/Thread.h:42).  With
  `HandlersEnd = TRUE` a handler that ends its thread runs twice (cleanup.c:82).

The hazards carry these as notes.

## What is proved

The assumptions are those the modules name about their constants, and where a
theorem needs more it says so.  All sets are arbitrary; the number of anchors, threads,
connections, handlers, references and calls is not bounded.

| module | theorem | says |
| --- | --- | --- |
| `AnchorHelperProofs` | `TypeCorrect` | `Spec => []TypeOK` |
| | `ListedIsKnown` | `Spec => []RowsKnown` |
| | `HeldOnce` | `Spec => []NoDuplicates` |
| | `PopulateGivesDistinct` | `Spec => PopulateDistinct`, an action property |
| | `ProgressAfterStatus` | `Spec => []ProgressHasStatus`, for one Apply |
| | `ListedStatus` | `Spec => []ListShowsStatus`, if no anchor is found after Apply (`late`) |
| `ApplyProofs` | `ReportedIsConfigured` | `Spec => []OkMeansConfigured`, for one Apply and anchors that do not hang up (`drop`) |
| | `ApplyStaysLocked` | `Spec => []ApplyLocked`, for one Apply without `drop`, `late`, `busyUser` |
| | `SentWasChecked` | `Spec => []SentIsChecked`, the same, and no text out of range |
| | `NeverTwoConnections` | `Spec => []OneConnection`, for two Applies without `busyUser`, `empty` |
| `InputProofs` | `ParserTypes` | `FrameSpec => []FrameTypeOK` |
| | `HandlersStayInside` | `FrameSpec => []HandledFits` |
| | `EveryFrameIsHandled` | `FrameSpec => []FramesHandled`, this and the next if `WellBehaved` |
| | `IsAChannel` | `FrameSpec => Delivery!Init /\ [][Delivery!Next]_(Delivery!vars)`, the safety part of `ImplementsChannel` |
| | `OffersAlwaysRight` | `ScanSpec => []OffersRight`, if every netmask leaves the last field to the hosts (`WideInterface`) |
| | `InputsKeepTheirTypes` | `MCSpec => []InputTypeOK`, all inputs composed, if `MCMessages \subseteq Message` |
| `StubProofs` | `StubMemoryIsSafe` | `DiscSpec => []StubMemory` |
| | `RepliesAlwaysReachTheirs` | `SharedSpec => []SharedRefsServed` |
| `McsLockProofs` | `McsTypes` | `McsSpec => []McsTypeOK`, this and the next three if `Reuse = FALSE` |
| | `McsMutualExclusion` | `McsSpec => []MutualExclusion` |
| | `McsNoNullDeref` | `McsSpec => []NoNullDeref` |
| | `McsIsFifo` | `McsSpec => Fifo!Init /\ [][Fifo!Next]_(Fifo!vars)`, the safety part of `ImplementsFifoLock` |
| `LocksProofs` | `StaticsMadeOnce` | `StaticsSpec => StaticObjects`, invariants and an action property |
| | `BarrierAlwaysSafe` | `BarrierSpec => []BarrierSafe` |
| | `ReadersAndWriters` | `RwSpec => []RwSafe` |
| | `MutexAlwaysSafe` | `MutexSpec => []MutexSafe`, this and the next if `TimedAdds` |
| | `DeathAlwaysReported` | `MutexSpec => OwnerDeathReported`, an action property: each end is told to exactly one |
| | `WaitsKeepTheirTime` | `DeadlineSpec => []TimesKept`: half a millisecond early at most |
| | `LocksKeepTheirTypes` | `MCSpec => []LocksTypeOK`, all locks composed, if `Reuse = FALSE` and `TimedAdds` |
| `CondVarProofs` | `WaitersAlwaysCounted` | `CvSpec => []WaitersCounted`, with cancellation asleep and at the gate |
| `ThreadsProofs` | `InitOnlyOnce` | `OnceSpec => []InitialisedOnce` |
| | `OnceTypes` | `OnceSpec => []OnceTypeOK`, this part alone |
| | `UnitsNeverLost` | `SemSpec => []UnitsKept`, if `"cancel" \notin SemOps` |
| | `SettingsAlwaysHold` | `AttrSpec => []SettingsHold` |
| | `HandlersAlwaysRunOnce` | `CleanupSpec => []HandlersRunOnce`, if `HandlersEnd = FALSE` |
| | `ChainsAlwaysAgree` | `KeysSpec => []KeysSafe`, if `DeleteLimit \in {0, 1}` |
| | `HandlesAlwaysName` | `LifeSpec => []HandlesNameThreads`, if `CancelGone = FALSE` |
| | `ThreadsKeepTheirTypes` | `MCSpec => []ThreadsTypeOK`, all objects composed, if `DeleteLimit \in {0, 1}` and `CancelGone = FALSE` |

Most hypotheses are needed: without them TLC finds the theorem's property violated, see *What
does not hold*.  Not refuted so far, and only not proved, are `ProgressHasStatus` for two
Applies, `ApplyLocked` and `SentIsChecked` of two anchors that hang up, and `OneConnection`
with an Apply that has nothing selected.  `WellBehaved` says that the messages are those
the handlers take and that no frame begins in what lies between them; a byte that
starts a frame there makes the parser wait for as many as the next two say.
`TimedAdds` says that no robust normal mutex is locked with a time limit:
`pthread_mutex_timedlock` records itself as owner only if it has waited, and the
`unlock` that follows one that has not returns `EPERM` (pthread_mutex_timedlock.c:222).

The arguments, by the inductive invariant each needs.

*The application*

* Types.  `TypeInv` adds to the types
  that a thread at work whose iterator is valid or still within the old vector
  is at an element: without it `Current(t)` could be anything and the step that
  sets a status would leave the type of `anchor` open.
* Lists.  `ListInv` says that what is being
  announced, and what a queued event announces, is known already; that is what
  the order of `AddAnchor` and `wxQueueEvent` in `AddrInfoReply` buys.
* Populate.  The addresses of a scan are distinct, each row takes another of
  them, and the rows that are selected when the event is handled are not more than those
  the scan was asked for.
* Status.  `StartInv`: until a thread has marked an anchor nothing is on its wire, its status
  is the first, and no event of it is queued.  `ListedStatus` needs only
  that whoever sets a status queues an event in the same step.
* Success.  `OneApplyInv`: sockets belong to the anchors they were made for
  (`SocketsInv`); what is on the wire of a connection is what `Apply` asked for, the
  answers follow the commands, and an answer that reports an address was sent when the anchor
  had it (`TalkInv`); an anchor without a connection is not at its end (`SilentInv`).
* Apply stays locked.  `LockInv` counts: as long as the thread has an anchor to
  come, that one has not reached its end, it is selected, its row will be there, and so no
  handler finds all selected rows finished.  Scans are excluded, because the end of one
  enables the buttons, too, by the button that starts them.
* What is sent.  `CheckedInv`: between the check and the last command nothing the
  check was about changes.
* Two threads.  `TwoInv`: until the first command is sent nothing can enable Apply, so
  that at most one thread is connecting (`OneConnecting`); a second one finds
  the sockets of the first (`SockOwns`), however anchors hang up meanwhile.

*The parser.*  For the handlers it is enough that whenever the parser
is about to dispatch, the frame it has found lies in the buffer as a whole.  The
channel needs the stream: its bytes are a sequence of frames with junk between them, each
at its place (`Layout`); the buffer is a piece of it (`BufferIsStream`); and what is done
ends where the next frame may begin, with only junk before that (`InPlace`).  That
the program recognises each frame is then a property of the layout, not of data: no
recursion over the bytes is needed.

*The scan.*  A netmask splits each field of an address into the network's part and the
host's, and at most one field has both.  The host's parts of the four fields make a
number (`Number`), and what the iterator gives for a count is the address of the
network with that number (`NextAddress`): so no two counts give the same address, and only the
first and the last one the reserved ones, which the iterator leaves out.  The
arithmetic comes from two lemmas: powers of two multiply (`PowersOfTwo`, which
counts the subsets of a set, because the prover knows nothing of exponents), and a
number has one quotient and rest (`OneDivision`).  `ScanInv` adds that what was collected was given for
counts already passed.  With a netmask of more than 24 ones `GetNext`
overwrites the network's part of the last field, and `OffersUsable` fails.

*The stub*

* Nested calls (`StubInv`).  Each running call but the last waits in its callback for what
  the next one reads, no reference is processed twice, and one that is still to be read is
  allocated (`Calls`).  A `moreptr` points to the one call that works on its reference
  (`Pointers`), so that deallocating it tells that call and no other.  The operation that
  is being started belongs to the innermost callback and nobody has it yet
  (`Starting`); the first reply on a connection is the error code (`Wires`).  Each
  reference is that of the browse operation, of a call or of the operation that is being
  started (`Owned`), unless the daemon ended or answered with an alias.
* One connection (`SharedInv`).  The uid of the primary is above all
  that were given out, so that those of what is held differ (`Uids`); whatever has the uid of
  something held was made for it (`Births`); what the daemon does or will do is held
  or a request to cancel it is on its way (`Stopping`), and the reverse (`Serving`); the request
  of a call that waits is the last (`Asking`); the loop of `DNSServiceProcessResult` works on
  the connection as long as it has not been told to stop (`Loop`).

*The locks*

* Queue lock.  `McsInv` is the queue as it lies in memory: the threads in
  `order` are those in a call or with the lock, each once (`Queues`); `lock` is the node
  of the last of them (`LockIsLast`); `next` links the nodes in that order, with
  a gap before each thread that has not linked itself yet (`Chain`).  A
  node that is to be queued is still clear (`NewNodes`), and no two threads
  queue up behind the same node (`OneSuccessor`).  Then the flags: a
  predecessor's `nextFlag` is clear or holds the event it sleeps on until its
  successor sets it (`Untold`), it is set only when `next` is (`Successors`), and
  `readyFlag` is set only for the first in the queue (`Flags`).  Last the
  events: a thread is woken by one thread, once, and only when it may go on (`Events`);
  without that one of two sets of the same event could end a later wait.  Each
  action has its lemma, and actions of one shape share theirs (`ArriveKept`,
  `MoveKept`, `LeaveQueues`).  That a step of the lock is one of `FifoLock`
  follows from who holds it before and after (`HolderMoves`).  `McsReuse` violates
  `NoNullDeref` without the assumption.
* Static objects.  The pointer is still the initialiser exactly as long as no
  object was made, and whoever has read another value works on the one that was.
* Spin locks.  Likewise for the pointer (`SpinPointer`), and who has the lock is the holder recorded in
  it, which is not freed (`Spinner`); only a thread in a call changes the pointer, and none
  is in one that found it null.
* Times.  A wait that was begun is long enough for what was asked, and stays so as time
  passes (`Enough`), because the conversion cuts nothing off a number that fits, rounds an absolute
  time to the nearest millisecond, from a clock that is rounded down, and an interval up
  (`TimedWaitIsEnough`, `DelayIsEnough`).  *Enough* is measured against the nanoseconds asked for,
  less half a millisecond for a timed wait.
* Mutex.  The invariant follows the one thread that has the mutex, from the step that takes
  `lock_idx` to the one that gives it back, before and after it is recorded as the owner.  That
  the end of an owner is told to one thread is then a matter of single steps: who takes the mutex
  either finds the state of an owner's end and changes it, or does not find it.
* Barrier.  Rounds are numbered: `k` of them have been crossed, the barrier gathers the
  next, is complete, is left, or has been left by all but the last, and what has
  returned is `Height` of each earlier round, one of them serial (`BarrierInv`).
* Read-write lock.  The two mutexes say where each thread is, and the counts agree with the readers
  inside and those that reset the counts (`RwMain`), until a `timedrdlock` times out in
  that reset (`late`): the invariant is `late \/ RwMain`.

*Condition variables.*  `WaitersCounted` is nearly inductive.  It needs what a thread knows where it
is (`WaiterKnows`: who holds `mtxUnblockLock`, and that it found nobody left to be released), where a
thread can have to do with the gate (`TurnKnows`),
that the gate is closed for one reason at a time (`OneKeeper`), and that nobody comes
to a condition variable that is being destroyed (`Destroying`).  Of the gate's semaphore it
says that its value counts the threads at it and the one that has it, but for one
that was forgotten when it was cancelled, and that its kernel semaphore has a unit exactly when
nothing keeps the gate closed and somebody may be waiting for it (`GateCount`).

*Threads*

* Once.  Only the first in the queue of the lock is in the routine or past it,
  and the flag is set exactly when it has run to its end.
* Semaphore.  The two equations of `UnitsKept` are nearly inductive: they
  need that a destroyed semaphore has no debts and that only `sem_timedwait` is left
  early.  The assumption excludes the cleanup of `sem_wait` that does nothing.
* Attributes.  A thread in `pthread_setschedparam` has the lock of its
  target, so that the two writes of one call are not mixed with those of another;
  and the kinds of object whose settings could say *shared* refuse it.
* Cleanup.  A handler that runs is linked until it returns: of the linked
  handlers exactly those have been executed whose code is on the stack, at the
  place in the list the stack says; and each handler pushed is linked, popped or executed.
* Keys.  Two locks guard the two chains and nobody holds both all the time, so
  the invariant says what the one that is held settles (`Locked`, `Chains`), what is left of a
  key that is being deleted (`Deleted`), and where in its chain an exiting thread is
  (`Exiting`).
* Life.  Structures in use and threads with a handle correspond (`Own`); a handle that is known
  has not been overtaken by the count of its structure (`Known`); and who joins,
  destroys or cancels a thread keeps others from giving its structure away (`Claims`,
  `Cancels`).  Most steps leave the structures to their threads (`QuietLife`), five take
  one or give one back (`Exchange`).

*The compositions.*  The packs that the runs check compose several components, a behaviour
being about one of them: a step is one of a part, or leaves it alone, so the invariants of
the parts carry over, and with them the types.  Most parts had types in
their invariant.  What had to be added is what they keep where the safety property of
the part fails: the counts of a read-write lock after `late` (`RwAlways`), the semaphore
when its waiters are cancelled (`SemTypedNext`), handlers that end their thread
(`CleanupTyped`), the scan with a netmask of any length (`ScanTyped`).  For the discovery thread
and the shared connection the count of tries and of calls was missing
(`DiscTyped`, `SharedCounted`), for the condition variable the limit of `nWaitersGone`
(`CvLimits`).  The two anchors of `MCInput` have messages and checksums of their own; their
steps are shown to be those of the parser (`TrickyStep`, `MixedStep`).

Every invariant a passing run checks is stated by a theorem.  Only model-checked: all
liveness (fairness and `ENABLED` are beyond the prover), and with it
the fairness of the two refinements.

## What is not modelled

* `crc16`: a pure function whose result the program ignores on receipt; the
  checksum is any two bytes.
* `Shutdown`: `shutdown_signal` is never called, so that the select of the
  discovery thread ends by a time out or by data, as in `Discovery`.
* `OnAnchorRemoved` and `DB::RemoveAnchor`, which nothing reaches; the server half
  of `Socket`; the Windows branch of `ip_scan`, which makes the same choices;
  texts, layout and the log.
* Data races on single words (`status`, `ip_set`) are taken to be atomic.
* Of the stub: the layout of messages, libdispatch and delegates (not built under
  Windows), the names and TXT records of `dnssd_clientlib.c`, which are pure
  functions, and the debugging helpers; a null address, which the stub hands on only with
  `kDNSServiceFlagsValidate` (dnssd_clientstub.c:1629): that comes only to those who ask for it
  (dns_sd.h:409-422), and Discovery.cpp:193-197 does not.
* Of `pthread/`: asynchronous cancellation, which redirects a suspended thread in the
  middle of anything; the builds with C++ exceptions or structured exceptions, which
  the build files do not choose; the destruction of a mutex that is in use
  (the code says FIXME); stubs that return `ENOSYS`; `ptw32_OLL_lock.c`, which is not
  compiled; calls that hand a question on to Windows.
* RTLS messages the program neither sends nor handles.

## Plan

Done, in this order: the application, the parser, the scan, the queue lock with
its abstract lock; then discovery on the client stub, the shared connection, and
`pthread/` from the locks up to the life of threads; then the theorems: the application for
any number of anchors, the parser as a channel, the stub, the locks, condition variables, keys and
the life of threads, the addresses of a scan, the types of the compositions.  What remains worth doing: a composition of `Keys` and `Cleanup` with the end of a
thread in `ThreadLife`, which calls both.
