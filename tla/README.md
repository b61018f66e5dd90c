# A TLA+ model of Emilua

Emilua runs Lua programs as actors. Each actor is a Lua state (a `vm_context`)
on an Asio strand; inside it, *fibers* (Lua threads) are scheduled cooperatively;
actors share nothing and exchange messages. This directory models the concurrency
core of the runtime (fibers, their synchronisation objects and the actors of one
process) and what fibers suspend on outside it: sockets, files, pipes, serial ports,
TLS, timers, signals and child processes, with the file descriptors they own and
pass on. TLC checks the models on small instances. TLAPS proves, for any number of
fibers, VMs and objects, the central facts about fibers, mutexes, condition variables,
recursive mutexes, futures, actors and I/O: nobody suspended is lost or woken twice, what
a wait delivers is true, senders, operations and descriptors are counted, and `Sync`
implements the abstract `Monitor`.

Paths below are relative to the repository. Line numbers of everything modelled
are in `PROJECT.json` (`map`).

## 1. Inventory

| Part | State | Operations | What is hard |
|---|---|---|---|
| execution engine: `src/core.cpp`, `include/emilua/core.hpp` | strand, `valid_`, `current_fiber_`, per-fiber data (`FiberDataIndex`) | `fiber_resume`, `fiber_epilogue`, `set_interrupter`, `unsafe_can_suspend`, `close` | a fiber must be resumed exactly once by whoever it waits for; interrupters must not outlive their operation |
| fibers: `src/fiber.cpp` | `JOINER`, `STATUS`, `fiber_list`, handles | `spawn`, `join`, `detach`, `interrupt`, collection, `this_fiber.*` | join against end against interruption against the collector; raw pointers in handles |
| mutex, condition variable: `src/mutex.cpp`, `src/condition_variable.cpp`, `bytecode/cond_wait.lua` | `locked`, two queues | `lock`, `try_lock`, `unlock`, `wait`, `notify_*` | lost wake-ups, notify racing interrupt, hand-over of a locked mutex |
| recursive mutex: `src/recursive_mutex.cpp` | owner, counter, queue | `lock`, `try_lock`, `unlock` | level count at hand-over, limit of the counter |
| future, promise: `src/future.cpp` | shared state, waiters | `set_value`, `set_error`, `get`, collection | several waiters, interruption, collection of the promise |
| actors: `src/actor.ypp`, `inbox_t` and `actor_address` in `core.hpp` | inbox, `nsenders`, addresses | `spawn_vm`, `send`, `receive`, `close`, collection, destruction | steps on two strands (threads), reference counts, senders and receivers that must not be forgotten |
| IPC actors: `src/ipc_actor.cpp`, `src/*/ipc_actor` | sockets, the forking service | `send`, `close`, `detach`, `kill` | framing, descriptor passing, process death |
| scopes: `src/scope_cleanup.cpp`, `bytecode/*.lua` | stack of handlers | `scope`, `pcall`, cleanup | order, failure of a handler, interruption while cleaning up |
| module loader: `src/state.ypp` | loaded and loading modules, waiting fibers | `require` | cycles, failure of a module that others wait for |
| asynchronous operations: `set_default_interrupter`, `fiber_resume` with `auto_detect_interrupt`, `pending_operations`, `socket_base.hpp` | an operation in Asio per suspended fiber, its cancellation slot, `nbusy` | start, cancel, complete, collection, end of the VM | cancellation racing a completion that is already queued; handlers that outlive their VM or their object |
| IP: `src/ip.cpp` | sockets, acceptors, one resolver per protocol and VM | `connect`, `accept`, transfers, `assign`, `release`, `close`, `cancel`, name queries | a connection accepted for a VM that has ended; resolver queries that cannot be cancelled any more |
| Unix sockets: `src/unix.cpp` | sockets, acceptors, handles locked by a message | as IP, and `receive_with_fds`, `send_with_fds`, `pair` | descriptors in flight: a second wait after an interruption, more descriptors than asked for, a VM closed meanwhile |
| files, pipes, serial ports, descriptors: `src/file.cpp`, `pipe.cpp`, `serial_port.cpp`, `file_descriptor.cpp` | an Asio object each; a handle's descriptor, or none, or busy | `open`, `close`, `cancel`, `assign`, `release`, transfers, `dup`, pseudoterminals | each descriptor closed once; one fiber's interruption ending another's transfer |
| TLS: `src/tls.cpp` | a stream over a TCP socket taken from its object | take-over, handshakes, transfers | a socket moved while operations are in progress; operations of many reads and writes, of which an interruption cancels at most one |
| timers: `src/time.cpp` | `asio` timers, the operation of each `sleep()` | `sleep`, `wait`, new expiry, `cancel` | a cancellation after the time has come |
| system: `src/system.cpp` | signal sets, the standard streams of the main VM | `wait`, `cancel`, `read_some`, `write_some`, `exit` | all fibers share each standard stream |
| subprocesses: `src/linux/system/spawn.cpp` | a child, its pidfd, `wait_in_progress`, the reaper that inherits it | `spawn`, `wait`, `kill`, collection; the child's `dup2`s | numbers of the child's descriptors clobbering each other; zombies when nobody waits |
| libraries and wrappers: `filesystem.cpp`, `json.cpp`, `regex.cpp`, `byte_span.cpp`, `stream.cpp`, errors, shims | none, or buffers | synchronous calls | boundaries of slices and searches |
| entry: `src/main.ypp` | thread count | start, wait for the threads | exit while threads end |

How they interact: every suspending function stores the fiber somewhere (a queue,
`JOINER`, `recv_fiber`, a completion handler), optionally sets an *interrupter* (a
closure that `interrupt()` calls), and yields to the strand. Whoever ends the wait
posts a handler to the strand that calls `fiber_resume()`. Between the post and
the handler other fibers run, and this gap is where most of the hazards in
`PROJECT.json` live. Actors interact only through handlers posted to one another's
strands and the atomic `nsenders`. I/O objects never leave their VM; what they share
is the process's table of descriptors, which a `file_descriptor` handle carries from
one object to another, into a message or into a child.

What makes each part correct: nobody suspended is forgotten or resumed twice; an
outcome (of a fiber, a promise, a message) reaches exactly those who wait for it;
an interruption ends an interruptible wait and nothing else; counters (nesting,
recursion, senders, operations in progress) tell the truth; the lock protocols exclude
and are fair; each descriptor has one owner at every moment, and a child gets the
ones it was meant to get.

## 2. Modules

- **`VmContext`** – the engine: variables every component shares (`strand`,
  `running`, `valid`, `at`, the fiber data, `ret`) and the pieces of actions:
  `FiberResume`, `Suspend`, `Post`, `SetInterrupter`, `CanSuspend`, `CloseVm`, the
  `this_fiber` functions. A handler on a strand is a record: which fiber it
  resumes, whether `fiber_resume()` clears the interrupter, and with what value.
- **`Fibers`** (extends it) – handles and joins; one action per branch of
  `fiber_join()`, `fiber_detach()`, `fiber_interrupt()`, `fiber_mt_gc()`,
  `fiber_epilogue()`.
- **`Sync`** – mutex and condition variable, with the Lua wrapper that locks the
  mutex again after a wait; **`Monitor`** – the abstract specification it implements.
- **`RecursiveMutex`**, **`Future`** – these components on the same engine.
- **`VmContext_proofs`** – lemmas about strands, waiting lists and counters that the
  proofs share. **`Fibers_proofs`**, **`Sync_proofs`**, **`RecursiveMutex_proofs`**,
  **`Future_proofs`** – the theorems about the module of that name.
  **`Io_proofs`** – those about `IoSystem`: what the calls amount to, the invariant of
  fibers and operations, objects and descriptors. **`Actor_proofs`** – those about `Actor`:
  who is owed a resumption by whom, and what `send()` is told;
  **`ActorSenders_proofs`** builds on it and counts the addresses.
- **`Actor`** – several VMs with inboxes, addresses and messages. An address in a
  message is counted; destructors run in the code's order, through records of what
  strands and counters hold (`Now`, `Drop`, `DestroySender`, `ClearIncoming`).
- **`Io`** (extends `VmContext`) – what all I/O modules share: objects with a type
  (`kind`), a descriptor (`native`) and an operation count (`nbusy`); handles; and for
  each fiber the operation it is suspended on, `op[f]` = which object, which protocol
  of completion, whether the interrupter reaches it (`slot`), how it ended (`ec`, `Nil`
  while it is pending), the connection `accept()` got, and the handles a message has
  locked. It defines the forms the calls take (`Open`, `Close`, `Assign`, `Release`,
  `Async`, `Connect`…), the kernel's steps, the completion handlers, the interrupters,
  collection and the end of the VM.
- **`Ip`**, **`Unix`**, **`FileDescriptor`**, **`File`**, **`Pipe`**, **`SerialPort`**,
  **`Tls`**, **`Time`**, **`System`** – one definition per function of the source file of
  that name, in its order and with its name: most use a form of `Io`, and what a function
  does beyond the form is spelled out (the two waits of `receive_with_fds`, the handles
  `send_with_fds` locks, the take-over of a socket by TLS). `Tls` also has the composed
  operations of `asio::ssl` that a handshake or a transfer is made of: a fiber's operation
  is in a read or a write of the TCP socket, or waits on a timer of the stream until
  another fiber's is over; the handler of each step (`io_op`) ends the operation or starts
  the next one.
- **`ChildFds`** – a pure function: the descriptor table a child of `spawn()` ends up
  with, call by call. **`Spawn`** – `spawn()`, the subprocess and its reaper.
- **`IoSystem`** – composes them: `Next`, the fairness and the properties.
- **`MC*`** – instances for TLC.

Conventions: `at[f]` names the call a fiber is suspended in; `ret[f]` is what its
last call gave it, so properties can speak of results. Each component repeats the
small part of `interrupt()`, `spawn()` and the end of a fiber it needs. Operators
under a comment *Fault* are mutated forms of the operator that follows them: they
are used by nothing, and each makes one property fail when it takes that operator's
place.

### Abstractions

- Data are reduced to what properties distinguish: outcomes are `ok`, `error`,
  `interrupted`; a message is plain data or one address.
- Running user code is a sequence of API calls chosen nondeterministically;
  the collector may run wherever a fiber runs and may collect any handle, promise
  or inbox the code keeps no reference to.
- Out-of-memory paths are left out, as is the reporting of errors.
- `this_fiber.yield()` defers instead of posting; on a strand with one thread both
  queue at the end.
- `Sync` assumes programs that unlock, and wait with, only mutexes they locked. (The
  code checks `locked`, not ownership.) Ending a fiber that holds a mutex is
  excluded for the same reason.
- `Actor`: `close()` destroys an address although another fiber is in `send()` on it. The
  interrupter of that `send()` then uses a destroyed `weak_ptr`: in the build this works
  as before as long as its control block exists, and once it is freed too (`Dangling`)
  the process may die (`crashed`). `deque::erase` moves the shorter side, as libstdc++
  does.
- I/O: what is read or written, options, addresses, paths and capability sets are
  abstracted to success or failure: an argument is taken or refused, a call of the
  kernel works or does not. A program is the types of the names it uses (a constant,
  `Program`), each of its names used for one object after another.
- An operation ends in Asio (`ec` is set) in a step before its handler runs. Between the
  two an interruption or a `cancel()` comes too late, and the code must cope.
- TLS: what the engine asks for next (a read, a write, nothing more) is chosen
  nondeterministically. A step that another fiber has in progress in the same direction
  makes an operation wait on the stream's timer, or does not: a waiter that was let go
  resets the timer, and Asio does not look whether it found somebody else's step. The
  handlers between the steps do not look at `valid()`; after the end of the VM they read a
  stream that was freed, and the operation may end or go on.
- The arguments of a suspended call keep its object from being collected (`Holding`). The
  calls of a TCP socket that was moved into a TLS socket refer to the empty TCP object, so
  the TLS socket may be collected, which ends them.
- The kernel gives the lowest free descriptors. A closed number may come back at once:
  that is what makes a descriptor closed twice visible.
- `ChildFds` follows the numbers `system_spawn_child_main()` uses itself (10 and 11), the
  pipe's write end and the three standard streams. The pipe's read end, which the child
  never uses, is left out.
- The I/O modules describe the Unix build, and `Spawn` the Linux one.

### Ghost variables

`Sync.inside`, `RecursiveMutex.depth`, `Future.asked`, `outcome`, `Actor.taken` and
`forgotten` record what happened; no guard that models the code reads them, except
that `inside` expresses the discipline above. `Actor.crashed` stops a process that
has died. `Sync.wmutex` and `werr` are the locals of the Lua wrapper, and `want` is
the argument of the `lock()` a fiber is suspended in. `Io.lost` holds the descriptors
that `assign()` to an open object drops: nothing in the process refers to them any more.

## 3. Runs

| Run | Instance | Distinct states | Shows |
|---|---|---|---|
| `fibers` | main fiber and two others | about 89,000 | one party owes each suspended fiber its resumption; interrupters belong to the join in progress; handles do not dangle; the outcome reaches the joiner, and survives an interrupted join; an interrupted join returns |
| `fibers_main` | the main fiber uses the counters | violation | finding 1 |
| `sync` | three fibers, a mutex, a condition variable | about 24,000 | refinement of `Monitor`; `locked` is set exactly while somebody is inside or was handed the mutex; waits end with the mutex locked; every `lock()` is granted; an interrupted wait ends |
| `future` | three fibers, one pair | about 94,000 | waiters are resumed once, with what the promise said |
| `future_broken` | the same | violation | finding 2 |
| `recursive_mutex` | three fibers, limit 2 | about 10,000 | the counter is its owner's depth; FIFO hand-over |
| `actor` | two VMs; three fibers, one address of each VM beside those held | about 145,000 | senders and receivers are not forgotten across strands, closing and destruction; `nsenders` counts; `send()` and `no_senders` tell the truth; abandoned receivers wake; interrupted sends end |
| `actor_null` | as `actor` | violation | finding 3 |
| `actor_erase` | four fibers in the sending VM, two addresses | violation | finding 4 |
| `io` | two fibers; 23 programs of one or two objects and up to two handles; three descriptors | about 411,000 | `nbusy` counts; each descriptor has one owner; an interruption reaches an operation of one wait; wake-ups tell the truth; a child's standard streams are what `spawn()` was given |
| `io_live` | two fibers; six programs | about 21,600 | an interrupted operation of one wait ends; a closed VM drains and closes what it owned; children nobody waits for are reaped |
| `spawn_program` | a file, a handle and a subprocess | violation | finding 5 |

**Bounds.** `MaxDisable`, `MaxForbid`: nesting of the two counters, at most 1 and
only for the fibers that need it (they are counters; what matters is zero or not).
`MaxLocked`: the limit of the recursion counter, 2 so that one level below, at and
beyond it all occur. `MaxAddress`: addresses a `send` may add. Three fibers are
enough for a fiber that waits, one that ends its wait and one that interferes,
in every role; two waiters tell FIFO from LIFO. Two VMs give a message, its reply
address and a third party (the second fiber). A message on its way when `no_senders`
is reported takes a fiber in `send()`, one that closes its address, one that makes the
address again and one that receives, in two VMs: more than `actor` has. The theorem
`NoSendersIsTheEnd` is what covers that case. Strands, queues and interruptions
are not bounded: with finitely many fibers, each in one place, they stay finite.

For I/O, two fibers are the one that waits and the one that interrupts, cancels, closes
or uses the same object. Two objects give a pair, an acceptor and its connection, a TCP
socket and the TLS socket that takes it over; the programs put together every two types
that act on one another. `Fd` = {8, 10, 12} runs out, which is a case of its own, and
lies on both sides of the numbers 10 and 11 the child uses; `PipeFd` = {4, 11} is an end
of the pipe below and on them. `Maxfds` = 1 and `MaxSent` = 2 make messages arrive with
no, one and more descriptors than were asked for. The main fiber always disables its
interruption, the other may (`MaxDisable`). The run `io` identifies states that differ
only in `ret`, which no action reads (`VIEW`); it checks only invariants and a property
of single steps, and `ret'` is read on every step.

**Deadlock** is not checked: programs may end, and fibers may wait for one another.
`WakeOnce` says instead that the runtime never loses a fiber.

**Fairness.** Weak fairness of each strand: an `io_context` runs what is posted.
Weak fairness of the end of a running fiber: the scheduler is cooperative, so no
promise can be made about a VM with a fiber that never suspends nor ends.
`Sync` assumes strong fairness of giving up control and of `MutexUnlock`: a fiber
that holds a mutex and is run again and again unlocks it some day, without which
no lock is granted. `Actor` adds weak fairness of `Destroy`: a `shared_ptr` whose
last owner is gone runs the destructor. `IoSystem` assumes that a running fiber ends or
is suspended, that the strand runs what is posted and the handler of an operation that
has ended (strong fairness, for each fiber: other handlers and fibers take the strand in
between, but the `io_context` queues it), that the resolver's thread finishes the query
it has begun, and that the kernel reports the end of a child to those who watch its
pidfd. Nothing says that data arrive, that a peer connects or that a child ends. Every fairness condition holds of the
running process; no liveness property is claimed of user code.

## 4. Findings

1. **The main fiber becomes interruptible** (`src/fiber.cpp:480`). A comment in
   `src/state.ypp:1765` says requests to change its setting are ignored; the
   increment reads the boolean as 0 and stores an integer, and the restore stores 0.
2. **A satisfied promise breaks** (`src/future.cpp:206`) when it is collected.
   `doc/modules/ref/pages/future.adoc:30` says an available result is returned.
3. **A null fiber is resumed** (`src/actor.ypp:1010`): `inbox:close()` leaves the
   receiver's interrupter set while its resumption is queued.
4. **The last sender goes unnoticed** (`include/emilua/core.hpp:1131`): move
   assignment of an address does not uncount the one it overwrites, and
   interrupting a sender in the middle of the queue does just that.
5. **A child does not find its program** (`src/linux/system/spawn.cpp:747`). The
   program may be given as a descriptor (`doc/modules/ref/pages/system.spawn.adoc:33`).
   The child moves its pipe to 10 and the program to 11 and closes the rest, but gives
   `fexecve()` the number the program had before that, which is then the pipe's or
   closed.

`NsendersIsExact` in the run `actor` counts the addresses lost as in 4
(`forgotten`), so that it checks all the rest of the accounting.

The models show more that is worth knowing. The first three are ways to lose an
interruption, of which `doc/modules/tutorial/pages/interruption.adoc:567` says that
operations "should never block indefinitely"; the properties name each as an exception.

- `receive_with_fds()` and `send_with_fds()` (`src/unix.cpp:221`, `:470`): the signal
  cancels the wait for readiness; when that wait had already ended and the socket turns
  out not to be ready, the operation waits again, and its interrupter is used up.
- `handshake()`, `read_some()` and `write_some()` of a TLS socket (`src/tls.cpp:1238`,
  `:1296`, `:1362`): the interrupter cancels what is on the TCP socket. An interruption
  between two steps, or while the operation waits for another fiber's, cancels nothing,
  and the operation starts its next step with its interrupter used up. Closing the socket
  or data from the peer ends it.
- A transfer of a TCP socket that becomes a TLS socket (`src/tls.cpp:1204`):
  `tls.socket.new()` takes the socket over with operations in progress on it, whose
  cancellation slots still name the socket they started on.
- `assign()` to an object that is open, and `serial_port:open()` likewise, drop the
  descriptor: only an `assert()` looks at the result.
- Interrupting a fiber in a read or write of a standard stream raises
  `operation_aborted`, not `interrupted` (`src/system.cpp:802`): the error is of a type
  that the detection does not see.
- The interrupters of pipes, TLS sockets and resolvers cancel everything on the object:
  another fiber's operation there ends with `operation_aborted`.
- An operation cancelled by `cancel()` is reported as an interruption when its fiber has
  been interrupted while its interruption was disabled: `auto_detect_interrupt` looks
  only at the flag.
- The handlers of a TLS operation go on after the end of the VM with a stream that
  `lua_close()` has freed.
- A receiver may be told `no_senders` while a message is on its strand: a notice from
  before is on the strand, the address is made again and used for a `send()`, and another
  fiber closes it (or its VM) before the old notice runs. A receiver that goes on
  receiving gets the message and a second notice.
- After `close()` the interrupter of a `send()` in progress on the address reads a
  destroyed object.
- Adding to a time point (`src/time.cpp:148`) checks the duration against the limit of
  2^63 ns, not the sum.

## 5. Proofs

Every theorem holds for all values of the constants that satisfy the named assumptions
of its modules (`VmContextAssumption` and the component's own).

| Module | Theorem | States |
|---|---|---|
| `Fibers_proofs` | `TypeCorrect` | `Spec => []TypeOK` |
| | `Invariance` | `Spec => []Inv` |
| | `ResumedExactlyOnce` | `Spec => []WakeOnce` |
| | `InterrupterNeverStale` | `Spec => []InterrupterIsCurrent` |
| | `NoDanglingHandle` | `Spec => []HandleNeverDangles` |
| | `JoinTellsTheTruth` | `Spec => JoinDelivers` |
| | `OutcomeStaysJoinable` | `Spec => OutcomeIsKept` |
| `Sync_proofs` | `TypeCorrect`, `Invariance` | as above |
| | `NoWakeUpLostOrDoubled` | `Spec => []WakeOnce` |
| | `OneOwnerAtATime` | `Spec => []LockedIsOwned` |
| | `InterrupterEndsWithItsWait` | `Spec => []InterrupterIsCurrent` |
| | `WaitEndsWithTheMutex` | `Spec => WaitEndsLocked` |
| | `ImplementsTheMonitor` | `Spec => ImplementsMonitor` |
| `RecursiveMutex_proofs` | `TypeCorrect`, `Invariance` | as above |
| | `NoWakeUpLostOrDoubled` | `Spec => []WakeOnce` |
| | `CounterIsOwnersDepth` | `Spec => []CountsItsOwner` |
| | `HandsOverInOrder` | `Spec => FairHandOff` |
| `Future_proofs` | `TypeCorrect`, `Invariance` | as above |
| | `NoWakeUpLostOrDoubled` | `Spec => []WakeOnce` |
| | `GetDeliversTheTruth` | `Spec => WaitDelivers` |
| `Actor_proofs` | `ResumedExactlyOnce` | `Spec => []WakeOnce` |
| | `MessagesAndReceiversMeet` | `Spec => []NoneWaitsForTheOther` |
| | `SendIsTruthful` | `Spec => SendTellsTheTruth` |
| `ActorSenders_proofs` | `SendersAreCounted` | `Spec => []NsendersIsExact` |
| | `ActorTypes` | `Spec => []TypeOK` |
| | `NoSendersIsTheEnd` | `Spec => NoSendersIsFinal` |
| `Io_proofs` | `TypeCorrect`, `Invariance` | as above |
| | `OperationsAreCounted` | `Spec => []NbusyIsExact` |
| | `EachFdHasOneOwner` | `Spec => []DescriptorsOwnedOnce` |
| | `InterruptionIsNotLost` | `Spec => []InterruptionReachesIo` |
| | `WakeUpsAreTrue` | `Spec => WakeUpsTellTheTruth` |
| | `ChildGetsWhatItIsGiven` | `Spec => []ChildGetsItsDescriptors` |

**Assumptions on constants.** `Nil` is none of the things it must be told from. In
`Sync`, `RecursiveMutex` and `Future` all fibers belong to one VM: their objects are
userdata of one Lua state and cannot be sent in a message, so the fibers of other VMs
cannot name them. `Fibers` and `Actor` allow any number of VMs; in `Actor` VMs and fibers
are finitely many, as they are in a process, because addresses are counted over all of
them. In `Io` there is one VM for the
same reason, its fibers are finitely many (a count of operations is a number), and `Nil`
is told from every descriptor, result, operation and child. Nothing is assumed of
`Program`, the types of the names a program uses. Descriptors are numbers from 3 to 20
(`SpawnAssumption`), any set of them: `ChildFds` has a table of 32 numbers, and the
child needs room above the ones it inherits.

**Fibers.** `WakeOnce` counts the parties that owe a fiber its resumption and is not
inductive. `Inv` says where they may be: the current fiber of a VM is the one at
`"running"` (`CurrentRuns`); every handler of a valid VM resumes a suspended fiber of
that VM that no live fiber has as its joiner (`QueuedIsSuspended`), and no two resume
the same one (`QueuedOnce`); a joiner is suspended in `join()`, which owns the handle
(`JoinerWaits`), and joins one live fiber only (`JoinsOne`); a handle that refers to its
fiber refers to a listed one that is not detached and, if it has ended, has an outcome
(`HandleIsSound`); an interrupter names the fiber whose joiner its owner is
(`InterrupterJoins`); and every suspended fiber is on its strand or a joiner
(`SomeoneOwes`). The first seven give *at most one*, the last *at least one*.

The argument has one lemma per kind of step. Steps that post a resume share
`PostedOnce` and `PostKeeps`; `PostFacts` and `PopFacts` say what posting to and
running a strand do to it as a sequence; `QuietStep` covers the calls that move
nobody. The type invariant is split into strands, counters and the rest, because
each needs different facts.

The two action properties about joins need more than `Inv`: the fiber of a handle marked
`join_in_progress` is alive and has a joiner (`JoinsAreMarked`), and what a strand holds
for a fiber in `join()` is the post of `join()`'s interrupter, so its fiber has been
interrupted (`QueuedJoinIsInterrupted`). `JoinInv` adds these to `Inv`.

**What the other three share.** A component's waiting lists are abstracted to the set of
fibers `W` that are in one. `Ledger` says that the suspended fibers are exactly those on
a strand or in `W`, never both, that no strand resumes one twice, and that the current
fiber is the one at `"running"`; `Engine` adds the types. Each way the engine moves a
fiber is one lemma: it is spawned, suspends into a list, yields, is posted from a list
(one, or all of a list in order), is resumed by its strand, ends. Queues are reasoned
about through the set of their `Members` and `NoRepeat`. What is left for each component
is how its own lists correspond to `W`, and its own facts:

- `Sync`: whoever is in a mutex's list wants that mutex, which is locked
  (`MutexListsAreSound`); a condition variable's list holds fibers in the native part of
  `wait()`, each in one list (`CondListsAreSound`); a fiber inside `cond:wait()` does not
  hold its mutex and is in a known place (`WaitsOutside`); a queued resume of a fiber in
  `wait()` clears the interrupter and says `notified` or `interrupted`
  (`PostedIsSound`); the owners of a mutex (inside, or handed it by `unlock()`) are one
  fiber if it is locked and none otherwise (`OneOwner`).
- `RecursiveMutex`: a fiber wants what it queues for or was handed; an owned mutex is
  counted; `CountsItsOwner` itself is part of the inductive invariant.
- `Future`: what a queued resume tells a fiber in `get()` is true when it is posted and
  stays true (`PostedIsTrue`), because a settled state never changes back (`Settled`).

**Refinement.** `Monitor` sees of each fiber only a phase. `Phases` says that in every
state of `Inv` the phase each fiber is mapped to is the one its place gives it, with the
reason its wait ended read off the handler that will resume it (`Reason`, which exists
and is unique). There is one lemma per action (`…Maps`): it is a step of `Monitor`, or
changes no phase (`MonitorStutters`).

**Actors.** A suspended fiber may be owed its resumption by another VM: `WakeOnce` counts
over strands, inboxes and deliveries of all of them. `Inv` says that there is an account:
functions `kind`, `home` and `word` that tell for each fiber which structure owes it its
resumption (a `resume` or `deliver` handler, a queue of messages, `recv_fiber`, a delivery
that is running, or nobody), of which VM, and with which word. `Accounts` ties the
structures to it exactly: a fiber is found in a place if and only if the account says so,
and in each place once, so `WakeOnce` follows by counting a set of one element. The
functions are existentially quantified, not variables of the model; each lemma about a
step (`Step…`) gives the functions of the next state. The account carries the rest:

- what a fiber in `send()` will be told agrees with `taken` (`WordOK`), and a message that
  still waits has not been taken (`SenderOK`): this gives `SendTellsTheTruth`. Nothing is
  said of the address it was sent on, which may be closed meanwhile;
- a receiver is registered on an open inbox that holds nothing (`ReceiverOK`);
- a request to revoke is about a fiber that was interrupted and whose VM has not
  been destroyed; nothing is left on the strand of a destroyed VM (`VmOK`).

Destructors that empty a queue (`ClearIncoming`, a recursive function) need an induction
over the queue. The library's induction theorems have operator parameters, so `Climb`
is used instead: a set that contains 0 and with n also n + 1 contains N, from the existence
of a least element (`WFMin`). `Clears` names the function, and what has been destroyed up
to place n is a set to which `Climb` applies.

`NsendersIsExact` is not inductive: that `nsenders` is never negative and that a VM that
has not been spawned has no address belong to it (`Counted`). Each step is shown to be
balanced for each VM w (`Balance`): e addresses are made, d uncounted, o overwritten by a
move assignment, `nsenders` changes by e - d while w can be locked; and no step makes a VM
lockable that was not (`LocksNoMore`), since everything a step refers to was referred to
before (`Settled`). The addresses are a union over the VMs that hold them, so their number
changes by what changes at one VM (`TotalChange`); a queue that loses a place loses the
address there (`GapCount`). `TypeOK` needs the count, because only it says that
`nsenders`, which destructors lower, stays a natural number.

`NoSendersIsFinal` cannot say that no message at all is on the strand when `no_senders` is
reported: a fiber's address, or its VM, may be closed while it is in `send()`. What it says
of such a message needs an invariant of its own (`Announced`): while a VM can be locked and
its `nsenders` is zero, every message on its strand has a notice behind it (`Followed`). A
message is posted only by a fiber that has an address, so the count is not zero then; the
destructor that takes the count to zero posts a notice behind all that is on the strand;
and a strand runs from the front.

**I/O.** None of the four invariants is inductive alone. `Inv` has three parts.

- `FiberInv`, fibers and operations: `Engine` again, with the fibers
  that are in an operation as `W`, while the VM is open; nobody is left in a closed one
  (`ClosedIsQuiet`). An operation fits the type of its object, only `accept()` has a
  connection and only `send_with_fds()` locks handles (`OpsAreSound`); nobody else uses
  the timer of a `sleep()` or the wait for a child (`Alone`), so these are aborted by an
  interruption only (`AbortedByInterruption`) – that is why
  `fast_auto_detect_interrupt`, which does not look at the flag, tells the truth. An
  operation that can be interrupted and was not has its interrupter, and an interrupter
  that refers to an operation does not outlive it (`Armed`): with it
  `InterruptionReachesIo` is preserved. Both except the operations of several waits
  (`Rewaiting`), those of TLS sockets among them.
- `ObjectInv`: types, `NbusyIsExact`, no counted operation on an object that is not live,
  an object that is not live has no descriptor, and a subprocess with a descriptor has a
  child that is not its reaper's (`ChildrenAreSound`); nothing is left of the objects and
  handles of a closed VM (`ClosedIsEmpty`).
- `FdInv`: `OpenIsOwnedOnce` says that `openFd` is the disjoint union of what the objects,
  the handles, the operations (connections and locks), the reapers and `lost` have, and
  that within each no descriptor is had twice; `LocksAreSound` that a handle is busy just
  when one operation has locked it. Cardinalities appear only in the last step: the owners
  of a descriptor are a singleton or empty.

The 270-odd functions of the I/O modules are first reduced to a few forms (`IpForms`,
`UnixForms`, …): a method of an ordinary object, a constructor, a call on what the VM
shares, and the ones with a form of their own (a pseudoterminal pair, TLS, children).
Then there is one lemma per form and per handler, each in three parts. Descriptors that
change hands are reasoned about with `Gain` and `Lose`, a function that gets new
descriptors or loses some. For the action property, `OpEffect` says what a call may do to
operations: start its own fiber's, abort some, move some to another object; so only
handlers end one for its fiber (`NextTruthful`). A step of a TLS operation may also let
go those that wait for its direction (`ReleasedOps`); the operation ends (`FiberOver`) or
goes on (`FiberAgain`), and in both cases nothing is counted and no descriptor moves.

A few helpers of the model were put in a form the provers can use: the interrupter of a
wait erases the first place at which `std::find` finds the fiber (`FoundAt`), and
`notify_all()` posts its list as a whole (`ResumeAll`); the queue of an inbox is destroyed
by a recursive function over its places (`ClearIncoming`), and so are the loops of
`ChildFds` over `extra_fds` and over the numbers 3 to 9. A new descriptor is a member of
`Lowest(taken)`, which is empty when none is free, rather than a `CHOOSE`.

**Children.** `ChildGetsItsDescriptors` is about a function of what the parent has open, so
the proof follows `system_spawn_child_main()`. `Sound` says that every source (the pipe,
the program, `extra_fds`) is at a number that still has its file, and so are the standard
streams. `nextfd()` gives a number that is no source: of five numbers in a row one is none
of four (`FreeNumber`), which also bounds how far up it goes. So a `dup2()` to it loses
nothing (`MovesFacts`), and after the three renumberings every source is above 9
(`MadeWay`). Then no destination overwrites a source, although they are placed one after
the other (`PlaceFacts`). The invariant gives the start: a handle's descriptor is open
(`FdInv`).

**Only model-checked**: liveness, which needs fairness and is out of the provers' reach, and
the five violations. Every invariant and every action property of a passing run is also
proved.

## 6. Plan

Done: the engine, fibers, synchronisation, in-process actors; asynchronous
operations and all I/O objects, timers, subprocesses; the proofs about fibers,
the synchronisation objects, actors and I/O. In this order, next:

1. **Module loader**: `require` from several fibers, cycles, failing modules.
   **Scopes**: order of cleanup handlers, failure, the difference between main and
   spawned fibers.
2. **IPC actors**: framing, the forking service, descriptor passing, kill.
3. **Pure algorithms**: byte spans, the loops of `stream.cpp`'s Lua part and the
   scanner against reference definitions.

### Not modelled

- `filesystem.cpp`, `json.cpp`, `regex.cpp`: wrappers over libraries, no state of their own.
- Values without state: `ip.address`, the arithmetic of time points, TLS contexts, the
  tables of errors.
- Of `system.cpp`: raising and ignoring signals, environment, identity, the forced form
  of `exit()`; of `spawn()`: options that are one more system call of the child each.
- The Windows builds (`send_file`, the native resolver, their `spawn`) and FreeBSD's
  `spawn` and jails.
- Option parsing, out-of-memory paths, error reports.
