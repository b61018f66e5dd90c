------------------------------- MODULE Actor -------------------------------
(***************************************************************************)
(* Actors that share an address space: VMs that exchange messages through  *)
(* their inboxes (actor.ypp; inbox_t, actor_address and sender_state of    *)
(* core.hpp; close() and fiber_epilogue() of core.cpp).                    *)
(*                                                                         *)
(* send() posts the message to the strand of the receiving VM and suspends *)
(* the sender until a receiver took it, the inbox was closed or the sender *)
(* was interrupted.  An actor_address counts as a sender of its VM; it can *)
(* be sent in a message.                                                   *)
(***************************************************************************)
EXTENDS VmContext

CONSTANTS
    Root,       \* the VM the process starts with
    Receiving,  \* the interrupter set by chan_receive()
    MaxAddress  \* bound on the addresses of one VM that exist at a time

ASSUME ActorAssumption ==
    /\ Root \in Vm
    /\ Receiving \notin Vm /\ Nil \notin Vm \cup {Receiving}
    /\ MaxAddress \in Nat \ {0}
    /\ IsFiniteSet(Vm) /\ IsFiniteSet(Fiber)

VARIABLES
    recvFiber,  \* inbox.recv_fiber
    incoming,   \* inbox.incoming: Seq of [fiber, msg], the blocked senders
    open,       \* inbox.open
    imported,   \* inbox.imported
    inboxLive,  \* the inbox userdata exists
    nsenders,   \* inbox.nsenders
    forgotten,  \* [Vm -> Nat]: addresses overwritten without being uncounted
    tx,         \* [Vm -> [Vm -> Nat]]: the addresses, by target, each Lua state holds
    after,      \* [Vm -> Fiber or Nil]: the sender a delivery has yet to wake
    destroyed,  \* ~vm_context() has run
    crashed,    \* the process died
    taken       \* [Fiber -> BOOLEAN]: a receiver took the message of the latest send()

inboxVars == <<recvFiber, incoming, open, imported, inboxLive>>
addressVars == <<nsenders, forgotten, tx>>
vars == <<coreVars, fiberData, ret, inboxVars, addressVars, after, destroyed, crashed, taken>>

Suspended == {"start", "send", "receive"}

Msg == {"data"} \cup Vm   \* plain data, or the address of a VM

Result == {"none", "sent", "message", "interrupted", "channel_closed", "no_senders",
           "device_or_resource_busy", "forbid_suspend_block"}

-----------------------------------------------------------------------------
(* Handlers that are not a plain resume.                                     *)

Deliver(f, msg) == [op |-> "deliver", fiber |-> f, clear |-> FALSE, val |-> msg]
Revoke(f) == [op |-> "revoke", fiber |-> f, clear |-> FALSE, val |-> "none"]
NoSenders == [op |-> "no_senders", fiber |-> Nil, clear |-> FALSE, val |-> "none"]

Handler ==
    ResumeHandler(Fiber \cup {Nil}, Result)
      \cup {Deliver(f, msg) : f \in Fiber, msg \in Msg}
      \cup {Revoke(f) : f \in Fiber}
      \cup {NoSenders}

TypeOK ==
    /\ strand \in [Vm -> Seq(Handler)]
    /\ CoreTypeOK(Suspended, Result, Vm \cup {Receiving})
    /\ recvFiber \in [Vm -> Fiber \cup {Nil}]
    /\ incoming \in [Vm -> Seq([fiber : Fiber, msg : Msg])]
    /\ nsenders \in [Vm -> Nat] /\ forgotten \in [Vm -> Nat]
    /\ tx \in [Vm -> [Vm -> Nat]]
    /\ after \in [Vm -> Fiber \cup {Nil}]
    /\ \A x \in {open, imported, inboxLive, destroyed} : x \in [Vm -> BOOLEAN]
    /\ taken \in [Fiber -> BOOLEAN]
    /\ crashed \in BOOLEAN

Init ==
    /\ strand = [v \in Vm |-> IF v = Root THEN <<ResumeSkipClear(Main[v])>> ELSE <<>>]
    /\ running = [v \in Vm |-> Nil]
    /\ valid = [v \in Vm |-> TRUE]
    /\ at = [f \in Fiber |-> IF f = Main[Root] THEN "start" ELSE "unborn"]
    /\ interruptionDisabled =
          [f \in Fiber |-> IF IsMain(f) THEN AlwaysDisabled ELSE 0]
    /\ suspensionDisallowed = [f \in Fiber |-> 0]
    /\ interrupted = [f \in Fiber |-> FALSE]
    /\ interrupter = [f \in Fiber |-> Nil]
    /\ ret = [f \in Fiber |-> "none"]
    /\ recvFiber = [v \in Vm |-> Nil]
    /\ incoming = [v \in Vm |-> <<>>]
    /\ open = [v \in Vm |-> TRUE]
    /\ imported = [v \in Vm |-> FALSE]
    /\ inboxLive = [v \in Vm |-> TRUE]
    /\ nsenders = [v \in Vm |-> 0]
    /\ forgotten = [v \in Vm |-> 0]
    /\ tx = [v \in Vm |-> [w \in Vm |-> 0]]
    /\ after = [v \in Vm |-> Nil]
    /\ destroyed = [v \in Vm |-> FALSE]
    /\ crashed = FALSE
    /\ taken = [f \in Fiber |-> FALSE]

Calls(f) == Running(f) /\ ~crashed

-----------------------------------------------------------------------------
(* Lifetime.  A vm_context lives as long as something has a shared_ptr to it:*)
(* its handlers and its running code, a receiver blocked on its inbox        *)
(* (inbox.work_guard), and the sender_state of its blocked senders.          *)

Spawned(v) == at[Main[v]] # "unborn"

SendersIn(v) ==
    {incoming[v][i].fiber : i \in DOMAIN incoming[v]}
      \cup {strand[v][i].fiber : i \in {j \in DOMAIN strand[v] :
                                           strand[v][j].op \in {"deliver", "revoke"}}}
      \cup ({after[v]} \ {Nil})

Referenced(v) ==
    \/ strand[v] # <<>>
    \/ running[v] # Nil
    \/ after[v] # Nil
    \/ recvFiber[v] # Nil
    \/ \E w \in Vm, f \in Fiber : VmOf[f] = v /\ f \in SendersIn(w)

\* weak_ptr::lock() on an address's dest succeeds.
CanLock(v) == ~destroyed[v] /\ Referenced(v)

-----------------------------------------------------------------------------
(* Addresses: ~actor_address() of bag[w] addresses of each VM w.  The one    *)
(* that takes nsenders to zero tells w.                                      *)

CarriedBy(msg) == [w \in Vm |-> IF msg = w THEN 1 ELSE 0]
NoAddress == [w \in Vm |-> 0]
Plus(b1, b2) == [w \in Vm |-> b1[w] + b2[w]]

\* Destructors run one after the other: each takes what the strands and the
\* counters hold, and gives what they hold afterwards.
Now == [strand |-> strand, nsenders |-> nsenders]

Becomes(st) == strand' = st.strand /\ nsenders' = st.nsenders

\* Fault: the receiver is not told.
DropNotTold(st, bag) ==
    [st EXCEPT !.nsenders = [w \in Vm |-> IF CanLock(w) THEN @[w] - bag[w] ELSE @[w]]]

Drop(st, bag) ==
    [strand |-> [w \in Vm |-> IF CanLock(w) /\ bag[w] > 0 /\ st.nsenders[w] = bag[w]
                              THEN Append(st.strand[w], NoSenders) ELSE st.strand[w]],
     nsenders |-> [w \in Vm |-> IF CanLock(w) THEN st.nsenders[w] - bag[w]
                                ELSE st.nsenders[w]]]

PostIn(st, v, h) == [st EXCEPT !.strand[v] = Append(@, h)]

\* Fault: wake_on_destruct is not set.
DestroyUnwoken(st, s) == Drop(st, CarriedBy(s.msg))

\* ~sender_state() with wake_on_destruct set, then that of its message.
DestroySender(st, s) ==
    Drop(PostIn(st, VmOf[s.fiber], Resume(s.fiber, "channel_closed")), CarriedBy(s.msg))

Pop(v) == [strand EXCEPT ![v] = Tail(@)]

\* The addresses of w that exist: held by a Lua state, or in a message.
HeldAddresses(w) == UNION {{v} \X (1..tx[v][w]) : v \in Vm}

SentAddresses(w) ==
    UNION {{<<v, "queued", i>> : i \in {j \in DOMAIN strand[v] :
                                           strand[v][j].op = "deliver" /\ strand[v][j].val = w}}
             \cup {<<v, "incoming", i>> : i \in {j \in DOMAIN incoming[v] :
                                                 incoming[v][j].msg = w}} : v \in Vm}

Addresses(w) == Cardinality(HeldAddresses(w)) + Cardinality(SentAddresses(w))

-----------------------------------------------------------------------------
\* Fault: the address given to the spawner is not counted.
SpawnVmUncounted(f, w) ==
    /\ Calls(f)
    /\ ~Spawned(w)
    /\ at' = [at EXCEPT ![Main[w]] = "start"]
    /\ strand' = Post(w, ResumeSkipClear(Main[w]))
    /\ tx' = [tx EXCEPT ![VmOf[f]][w] = @ + 1]
    /\ ret' = [ret EXCEPT ![f] = "none"]
    /\ UNCHANGED <<running, valid, fiberData, inboxVars, nsenders, forgotten, after, destroyed,
                   crashed, taken>>

\* spawn_vm(): the new VM w has one address, held by the spawner.
SpawnVm(f, w) ==
    /\ Calls(f)
    /\ ~Spawned(w)
    /\ at' = [at EXCEPT ![Main[w]] = "start"]
    /\ strand' = Post(w, ResumeSkipClear(Main[w]))
    /\ tx' = [tx EXCEPT ![VmOf[f]][w] = @ + 1]
    /\ nsenders' = [nsenders EXCEPT ![w] = @ + 1]
    /\ ret' = [ret EXCEPT ![f] = "none"]
    /\ UNCHANGED <<running, valid, fiberData, inboxVars, forgotten, after, destroyed, crashed,
                   taken>>

\* require 'inbox', which only the main fiber may do.
ImportInbox(f) ==
    /\ Calls(f)
    /\ IsMain(f) /\ ~imported[VmOf[f]]
    /\ imported' = [imported EXCEPT ![VmOf[f]] = TRUE]
    /\ Return(f, "none")
    /\ UNCHANGED <<strand, valid, fiberData, recvFiber, incoming, open, inboxLive,
                   addressVars, after, destroyed, crashed, taken>>

-----------------------------------------------------------------------------
(* chan_send().                                                              *)

\* f may put the address of w in a message: its own inbox, or a held address.
MaySend(f, msg) ==
    msg \in Vm => /\ VmOf[f] = msg \/ tx[VmOf[f]][msg] > 0
                  /\ nsenders[msg] < MaxAddress /\ Addresses(msg) < MaxAddress

SendRaises(f, w) ==
    /\ Calls(f)
    /\ tx[VmOf[f]][w] > 0
    /\ \/ ~CanSuspend(f) /\ Return(f, SuspendError(f))
       \/ CanSuspend(f) /\ ~CanLock(w) /\ Return(f, "channel_closed")
    /\ UNCHANGED <<strand, valid, fiberData, inboxVars, addressVars, after, destroyed,
                   crashed, taken>>

\* Fault: the address in the message is not counted.
SendUncounted(f, w, msg) ==
    /\ Calls(f)
    /\ tx[VmOf[f]][w] > 0
    /\ CanSuspend(f) /\ CanLock(w)
    /\ MaySend(f, msg)
    /\ interrupter' = SetInterrupter(f, w)
    /\ strand' = Post(w, Deliver(f, msg))
    /\ taken' = [taken EXCEPT ![f] = FALSE]
    /\ Suspend(f, "send")
    /\ UNCHANGED <<valid, counters, interrupted, inboxVars, addressVars, after, destroyed,
                   crashed>>

Send(f, w, msg) ==
    /\ Calls(f)
    /\ tx[VmOf[f]][w] > 0
    /\ CanSuspend(f) /\ CanLock(w)
    /\ MaySend(f, msg)
    /\ nsenders' = IF msg \in Vm /\ CanLock(msg)
                   THEN [nsenders EXCEPT ![msg] = @ + 1] ELSE nsenders
    /\ interrupter' = SetInterrupter(f, w)
    /\ strand' = Post(w, Deliver(f, msg))
    /\ taken' = [taken EXCEPT ![f] = FALSE]
    /\ Suspend(f, "send")
    /\ UNCHANGED <<valid, counters, interrupted, inboxVars, forgotten, tx, after,
                   destroyed, crashed>>

-----------------------------------------------------------------------------
(* The handler posted by chan_send(), on the receiving VM's strand.          *)

NextHandler(v, op) ==
    /\ ~crashed
    /\ StrandReady(v) /\ after[v] = Nil
    /\ Head(strand[v]).op = op

\* The inbox is closed: the message and its sender_state are destroyed.
DeliverToClosed(v) ==
    /\ NextHandler(v, "deliver")
    /\ ~open[v]
    /\ LET h == Head(strand[v]) IN
       Becomes(DestroySender([Now EXCEPT !.strand = Pop(v)],
                             [fiber |-> h.fiber, msg |-> h.val]))
    /\ UNCHANGED <<running, valid, at, fiberData, ret, inboxVars, forgotten, tx, after, destroyed,
                   crashed, taken>>

\* Fault: the sender queues although somebody is receiving.
DeliverAlwaysQueues(v) ==
    /\ NextHandler(v, "deliver")
    /\ open[v]
    /\ incoming' = [incoming EXCEPT ![v] =
                      Append(@, [fiber |-> Head(strand[v]).fiber, msg |-> Head(strand[v]).val])]
    /\ strand' = Pop(v)
    /\ UNCHANGED <<running, valid, at, fiberData, ret, recvFiber, open, imported, inboxLive,
                   addressVars, after, destroyed, crashed, taken>>

\* Nobody is receiving: the sender queues.
DeliverToQueue(v) ==
    /\ NextHandler(v, "deliver")
    /\ open[v] /\ recvFiber[v] = Nil
    /\ incoming' = [incoming EXCEPT ![v] =
                      Append(@, [fiber |-> Head(strand[v]).fiber, msg |-> Head(strand[v]).val])]
    /\ strand' = Pop(v)
    /\ UNCHANGED <<running, valid, at, fiberData, ret, recvFiber, open, imported, inboxLive,
                   addressVars, after, destroyed, crashed, taken>>

\* The receiver runs inside this handler, which wakes the sender afterwards.
DeliverToReceiver(v) ==
    /\ NextHandler(v, "deliver")
    /\ open[v] /\ recvFiber[v] # Nil
    /\ LET h == Head(strand[v]) IN
       /\ taken' = [taken EXCEPT ![h.fiber] = TRUE]
       /\ tx' = [tx EXCEPT ![v] = Plus(@, CarriedBy(h.val))]
       /\ after' = [after EXCEPT ![v] = h.fiber]
    /\ recvFiber' = [recvFiber EXCEPT ![v] = Nil]
    /\ FiberResume(recvFiber[v], TRUE, "message")
    /\ strand' = Pop(v)
    /\ UNCHANGED <<valid, counters, interrupted, incoming, open, imported, inboxLive,
                   nsenders, forgotten, destroyed, crashed>>

\* ... which it does once the receiver has suspended or ended.
WakeSender(v) ==
    /\ ~crashed
    /\ running[v] = Nil /\ after[v] # Nil
    /\ strand' = Post(VmOf[after[v]], Resume(after[v], "sent"))
    /\ after' = [after EXCEPT ![v] = Nil]
    /\ UNCHANGED <<running, valid, at, fiberData, ret, inboxVars, addressVars, destroyed,
                   crashed, taken>>

-----------------------------------------------------------------------------
(* chan_receive().                                                           *)

ReceiveError(f) ==
    LET v == VmOf[f] IN
    IF ~CanSuspend(f) THEN SuspendError(f)
    ELSE IF ~open[v] THEN "channel_closed"
    ELSE IF recvFiber[v] # Nil THEN "device_or_resource_busy"
    ELSE IF incoming[v] = <<>> /\ nsenders[v] = 0 THEN "no_senders"
    ELSE "none"

HasInbox(f) == Calls(f) /\ imported[VmOf[f]] /\ inboxLive[VmOf[f]]

ReceiveRaises(f) ==
    /\ HasInbox(f)
    /\ ReceiveError(f) # "none"
    /\ Return(f, ReceiveError(f))
    /\ UNCHANGED <<strand, valid, fiberData, inboxVars, addressVars, after, destroyed,
                   crashed, taken>>

\* A queued message is taken at once and its sender woken.
ReceiveQueued(f) ==
    /\ HasInbox(f)
    /\ ReceiveError(f) = "none"
    /\ incoming[VmOf[f]] # <<>>
    /\ LET v == VmOf[f]
           s == Head(incoming[v])
       IN /\ incoming' = [incoming EXCEPT ![v] = Tail(@)]
          /\ strand' = Post(VmOf[s.fiber], Resume(s.fiber, "sent"))
          /\ taken' = [taken EXCEPT ![s.fiber] = TRUE]
          /\ tx' = [tx EXCEPT ![v] = Plus(@, CarriedBy(s.msg))]
    /\ Return(f, "message")
    /\ UNCHANGED <<valid, fiberData, recvFiber, open, imported, inboxLive, nsenders,
                   forgotten, after, destroyed, crashed>>

ReceiveWaits(f) ==
    /\ HasInbox(f)
    /\ ReceiveError(f) = "none"
    /\ incoming[VmOf[f]] = <<>>
    /\ interrupter' = SetInterrupter(f, Receiving)
    /\ recvFiber' = [recvFiber EXCEPT ![VmOf[f]] = f]
    /\ Suspend(f, "receive")
    /\ UNCHANGED <<strand, valid, counters, interrupted, incoming, open, imported,
                   inboxLive, addressVars, after, destroyed, crashed, taken>>

\* Fault: nsenders is not read again.
RunNoSendersUnchecked(v) ==
    /\ NextHandler(v, "no_senders")
    /\ IF recvFiber[v] # Nil
       THEN /\ recvFiber' = [recvFiber EXCEPT ![v] = Nil]
            /\ FiberResume(recvFiber[v], TRUE, "no_senders")
       ELSE UNCHANGED <<recvFiber, running, at, interrupter, ret>>
    /\ strand' = Pop(v)
    /\ UNCHANGED <<valid, counters, interrupted, incoming, open, imported, inboxLive,
                   addressVars, after, destroyed, crashed, taken>>

\* The handler posted by the last ~actor_address().
RunNoSenders(v) ==
    /\ NextHandler(v, "no_senders")
    /\ IF nsenders[v] = 0 /\ recvFiber[v] # Nil
       THEN /\ recvFiber' = [recvFiber EXCEPT ![v] = Nil]
            /\ FiberResume(recvFiber[v], TRUE, "no_senders")
       ELSE UNCHANGED <<recvFiber, running, at, interrupter, ret>>
    /\ strand' = Pop(v)
    /\ UNCHANGED <<valid, counters, interrupted, incoming, open, imported, inboxLive,
                   addressVars, after, destroyed, crashed, taken>>

-----------------------------------------------------------------------------
(* Closing.                                                                  *)

\* incoming.clear(): the queued senders are destroyed, front to back.
ClearIncoming(v, st) ==
    LET q == incoming[v]
        cleared[n \in 0..Len(q)] == IF n = 0 THEN st ELSE DestroySender(cleared[n - 1], q[n])
    IN cleared[Len(q)]

\* open is cleared and incoming emptied, which leads to st.
ShutInbox(v, st) ==
    /\ open' = [open EXCEPT ![v] = FALSE]
    /\ incoming' = [incoming EXCEPT ![v] = <<>>]
    /\ Becomes(st)

\* inbox_close() resumes a blocked receiver later, with channel_closed.
InboxClose(f) ==
    /\ HasInbox(f)
    /\ open[VmOf[f]]
    /\ LET v == VmOf[f] IN
       /\ recvFiber' = [recvFiber EXCEPT ![v] = Nil]
       /\ ShutInbox(v, ClearIncoming(v, IF recvFiber[v] = Nil THEN Now ELSE
                          PostIn(Now, v, Resume(recvFiber[v], "channel_closed"))))
    /\ Return(f, "none")
    /\ UNCHANGED <<valid, fiberData, imported, inboxLive, forgotten, tx, after, destroyed, crashed,
                   taken>>

\* inbox_gc(): no fiber refers to the inbox any more, nor does the registry once
\* the main fiber has ended.
InboxGc(f) ==
    /\ Calls(f)
    /\ LET v == VmOf[f] IN
       /\ at[Main[v]] = "dead" /\ imported[v] /\ inboxLive[v] /\ recvFiber[v] = Nil
       /\ inboxLive' = [inboxLive EXCEPT ![v] = FALSE]
       /\ IF open[v] THEN ShutInbox(v, ClearIncoming(v, Now))
                     ELSE UNCHANGED <<open, incoming, nsenders, strand>>
    /\ UNCHANGED <<running, valid, at, fiberData, ret, recvFiber, imported, forgotten, tx, after,
                   destroyed, crashed, taken>>

\* tx_chan_close() of an address, whether or not another fiber is in send() on it.
\* The collector does the same to an address that nobody refers to.
DropAddress(f, w) ==
    /\ Calls(f)
    /\ LET v == VmOf[f] IN
       /\ tx[v][w] > 0
       /\ tx' = [tx EXCEPT ![v][w] = @ - 1]
    /\ Becomes(Drop(Now, CarriedBy(w)))
    /\ Return(f, "none")
    /\ UNCHANGED <<valid, fiberData, inboxVars, forgotten, after, destroyed, crashed, taken>>

\* close(): the Lua state's addresses and the inbox go, which leads to st.
Close(v, st) ==
    /\ CloseVm(v)
    /\ recvFiber' = [recvFiber EXCEPT ![v] = Nil]
    /\ inboxLive' = [inboxLive EXCEPT ![v] = FALSE]
    /\ tx' = [tx EXCEPT ![v] = NoAddress]
    /\ ShutInbox(v, st)
    /\ UNCHANGED <<forgotten, imported, after, crashed, taken>>

\* lua_close() comes before inbox.incoming.clear().
Closed(v) == ClearIncoming(v, Drop(Now, tx[v]))

\* An exit request or a failed cleanup handler.
Terminate(f) == Calls(f) /\ Close(VmOf[f], Closed(VmOf[f])) /\ UNCHANGED destroyed

\* An error of the main fiber; an inbox it never imported is shut first.
MainFails(f) ==
    /\ Calls(f) /\ IsMain(f)
    /\ LET v == VmOf[f] IN
       Close(v, IF imported[v] THEN Closed(v) ELSE Drop(ClearIncoming(v, Now), tx[v]))
    /\ UNCHANGED destroyed

\* The last shared_ptr is gone.
Destroy(v) ==
    /\ ~crashed
    /\ Spawned(v) /\ ~Referenced(v) /\ ~destroyed[v]
    /\ destroyed' = [destroyed EXCEPT ![v] = TRUE]
    /\ IF valid[v] THEN Close(v, Closed(v))
       ELSE UNCHANGED <<strand, running, valid, at, fiberData, ret, inboxVars, addressVars,
                        after, crashed, taken>>

\* fiber_epilogue() of a detached fiber; an inbox the main fiber never imported
\* is shut when it ends.
End(f) ==
    /\ Calls(f)
    /\ Suspend(f, "dead")
    /\ IF IsMain(f) /\ ~imported[VmOf[f]]
       THEN ShutInbox(VmOf[f], ClearIncoming(VmOf[f], Now))
       ELSE UNCHANGED <<open, incoming, nsenders, strand>>
    /\ UNCHANGED <<valid, fiberData, recvFiber, imported, inboxLive, forgotten, tx, after, destroyed,
                   crashed, taken>>

-----------------------------------------------------------------------------
(* fiber_interrupt() of a fiber g whose handle is alive.                     *)

\* Fault: the request overtakes the message it is about.
RevokeOvertakes(g, w) ==
    /\ strand' = IF CanLock(w) THEN [strand EXCEPT ![w] = <<Revoke(g)>> \o @] ELSE strand
    /\ UNCHANGED <<recvFiber, crashed>>

\* No address of w is left, so that the one g sent on has been destroyed, nor is
\* w: the control block that its weak_ptr still points to is freed memory.
Dangling(w) == destroyed[w] /\ Addresses(w) = 0

\* The closure set by chan_send() asks the receiving VM to give up the sender.
\* tx_chan_close() may have destroyed the address it refers to: lock() does what
\* it did before as long as the control block exists; then it is undefined.
SendInterrupter(g, w) ==
    /\ strand' = IF CanLock(w) THEN Post(w, Revoke(g)) ELSE strand
    /\ UNCHANGED recvFiber
    /\ \/ UNCHANGED crashed
       \/ Dangling(w) /\ crashed' = TRUE

\* The closure set by chan_receive() resumes whatever recv_fiber is.
ReceiveInterrupter(g) ==
    LET v == VmOf[g] IN
    /\ strand' = Post(v, Resume(recvFiber[v], "interrupted"))
    /\ recvFiber' = [recvFiber EXCEPT ![v] = Nil]
    /\ UNCHANGED crashed

Interrupt(f, g) ==
    /\ Calls(f)
    /\ VmOf[g] = VmOf[f] /\ ~IsMain(g) /\ at[g] \notin Gone
    /\ interrupted' = [interrupted EXCEPT ![g] = TRUE]
    /\ IF g # f /\ interrupter[g] # Nil
       THEN /\ IF interrupter[g] = Receiving THEN ReceiveInterrupter(g)
                                             ELSE SendInterrupter(g, interrupter[g])
            /\ interrupter' = [interrupter EXCEPT ![g] = Nil]
       ELSE UNCHANGED <<strand, recvFiber, interrupter, crashed>>
    /\ Return(f, "none")
    /\ UNCHANGED <<valid, counters, incoming, open, imported, inboxLive, addressVars, after,
                   destroyed, taken>>

\* Where the sender f is in the queue of v.
PlacesOf(f, v) == {i \in DOMAIN incoming[v] : incoming[v][i].fiber = f}

\* deque::erase() closes the gap at i by moving the shorter side, one neighbour
\* onto i.  Move assignment of an actor_address forgets the address it
\* overwrites without uncounting it.
MovedOnto(q, i) == IF i - 1 < Len(q) \div 2 THEN i - 1 ELSE i + 1

ForgottenByErase(q, i) ==
    IF MovedOnto(q, i) \in DOMAIN q /\ q[MovedOnto(q, i)].msg \in Vm
    THEN CarriedBy(q[i].msg) ELSE NoAddress

DroppedByErase(q, i) ==
    IF ForgottenByErase(q, i) = NoAddress THEN CarriedBy(q[i].msg) ELSE NoAddress

\* Fault: the sender is resumed and its message stays in the queue.
RunRevokeKeepsMessage(v) ==
    /\ NextHandler(v, "revoke")
    /\ LET f == Head(strand[v]).fiber
           popped == [Now EXCEPT !.strand = Pop(v)]
       IN Becomes(IF PlacesOf(f, v) = {} THEN popped
                  ELSE PostIn(popped, VmOf[f], Resume(f, "interrupted")))
    /\ UNCHANGED <<running, valid, at, fiberData, ret, inboxVars, forgotten, tx, after,
                   destroyed, crashed, taken>>

\* The handler posted by chan_send()'s interrupter.
RunRevoke(v) ==
    /\ NextHandler(v, "revoke")
    /\ LET f == Head(strand[v]).fiber
           popped == [Now EXCEPT !.strand = Pop(v)]
       IN \/ /\ PlacesOf(f, v) = {}
             /\ Becomes(popped)
             /\ UNCHANGED <<incoming, forgotten>>
          \/ \E i \in PlacesOf(f, v) :
                /\ incoming' = [incoming EXCEPT ![v] = SeqExt!RemoveAt(@, i)]
                /\ forgotten' = Plus(forgotten, ForgottenByErase(incoming[v], i))
                /\ Becomes(PostIn(Drop(popped, DroppedByErase(incoming[v], i)),
                                  VmOf[f], Resume(f, "interrupted")))
    /\ UNCHANGED <<running, valid, at, fiberData, ret, recvFiber, open, imported, inboxLive,
                   tx, after, destroyed, crashed, taken>>

-----------------------------------------------------------------------------
Spawn(f, g) ==
    /\ Calls(f) /\ ~IsMain(g)
    /\ SpawnFiber(f, g)
    /\ UNCHANGED <<inboxVars, addressVars, after, destroyed, crashed, taken>>

\* A resume of a fiber, which the process does not survive when it is null.
RunFiber(v) ==
    /\ NextHandler(v, "resume")
    /\ IF valid[v] /\ Head(strand[v]).fiber = Nil
       THEN crashed' = TRUE /\ UNCHANGED <<coreVars, fiberData, ret>>
       ELSE RunResume(v) /\ UNCHANGED crashed
    /\ UNCHANGED <<inboxVars, addressVars, after, destroyed, taken>>

RunStrand(v) ==
    \/ RunFiber(v)
    \/ DeliverToClosed(v)
    \/ DeliverToQueue(v)
    \/ DeliverToReceiver(v)
    \/ WakeSender(v)
    \/ RunNoSenders(v)
    \/ RunRevoke(v)

ActorCall(f) ==
    \/ ImportInbox(f)
    \/ ReceiveRaises(f)
    \/ ReceiveQueued(f)
    \/ ReceiveWaits(f)
    \/ InboxClose(f)
    \/ InboxGc(f)
    \/ \E w \in Vm :
          \/ SpawnVm(f, w)
          \/ SendRaises(f, w)
          \/ DropAddress(f, w)
          \/ \E msg \in Msg : Send(f, w, msg)

Next ==
    \/ \E v \in Vm : RunStrand(v) \/ Destroy(v)
    \/ \E f \in Fiber : ActorCall(f) \/ End(f) \/ Terminate(f) \/ MainFails(f)
    \/ \E f, g \in Fiber : Spawn(f, g) \/ Interrupt(f, g)

Spec == Init /\ [][Next]_vars

\* The io_contexts run the strands' handlers, shared_ptrs do their work, and no
\* fiber keeps its VM for ever.
Fairness ==
    /\ \A v \in Vm : WF_vars(RunStrand(v)) /\ WF_vars(Destroy(v))
    /\ \A f \in Fiber : WF_vars(End(f))

FairSpec == Spec /\ Fairness

-----------------------------------------------------------------------------
(* Properties.                                                               *)

Queued(v, f, op) == {i \in DOMAIN strand[v] : strand[v][i].op = op /\ strand[v][i].fiber = f}

\* The parties that owe f its resumption.
Wakers(f) ==
    UNION {{<<w, "queued", i>> : i \in Queued(w, f, "resume") \cup Queued(w, f, "deliver")}
             \cup {<<w, "incoming", i>> : i \in {j \in DOMAIN incoming[w] :
                                                   incoming[w][j].fiber = f}}
             \cup {<<w, "receiver", 0>> : x \in {recvFiber[w]} \cap {f}}
             \cup {<<w, "after", 0>> : x \in {after[w]} \cap {f}} : w \in Vm}

\* Across VMs, exactly one party owes a suspended fiber its resumption: its own
\* strand, the strand or the queue its message is in, the delivery that is
\* running, or the inbox it receives from.
WakeOnce ==
    \A f \in Fiber : valid[VmOf[f]] =>
        Cardinality(Wakers(f)) = IF at[f] \in Suspended THEN 1 ELSE 0

\* No message waits while a receiver does.
NoneWaitsForTheOther ==
    \A v \in Vm : recvFiber[v] # Nil =>
        open[v] /\ incoming[v] = <<>> /\ at[recvFiber[v]] = "receive"

\* nsenders, the atomic that every copy and destructor of an address updates,
\* is the number of addresses as long as the VM exists, those that a move
\* assignment overwrote included.
NsendersIsExact ==
    \A w \in Vm : CanLock(w) => nsenders[w] = Addresses(w) + forgotten[w]

\* The last sender to go is noticed, so that a receiver can be told: nsenders is
\* the number of addresses that are left.
LastSenderIsNoticed == \A w \in Vm : CanLock(w) => nsenders[w] = Addresses(w)

\* send() tells the truth: it succeeds if and only if a receiver took the
\* message; an interrupted or refused message was not received, nor is it later.
SendTellsTheTruth ==
    [][\A f \in Fiber :
          /\ at[f] = "send" /\ at'[f] = "running" =>
                /\ (ret'[f] = "sent") <=> taken[f]
                /\ ret'[f] = "interrupted" => interrupted[f]
          /\ valid[VmOf[f]] /\ taken'[f] # taken[f] => at[f] = "send" \/ at'[f] = "send"]_vars

\* no_senders means it: nobody is left who could send a message, and none waits.  A
\* message may still be on its way, if its sender's address, or VM, was closed while
\* it was in send(): then another notice follows it, so that a receiver who goes on
\* receiving gets the message and is told again, and does not wait for ever.
NoSendersIsFinal ==
    [][\A v \in Vm, f \in Fiber :
          VmOf[f] = v /\ at[f] = "receive" /\ at'[f] = "running" /\ ret'[f] = "no_senders" =>
             /\ Addresses(v) = 0
             /\ incoming[v] = <<>>
             /\ \A i \in DOMAIN strand[v] :
                   strand[v][i].op = "deliver" =>
                      \E j \in DOMAIN strand[v] : j > i /\ strand[v][j] = NoSenders]_vars

\* A receiver whose last sender is gone is not left waiting.
AbandonedReceiverWakes ==
    \A v \in Vm :
        (recvFiber[v] # Nil /\ nsenders[v] = 0)
          ~> (recvFiber[v] = Nil \/ nsenders[v] # 0 \/ crashed)

\* An interrupted send() ends, whatever the receiving VM does.
InterruptedSendEnds ==
    \A f \in Fiber :
        (at[f] = "send" /\ interrupted[f] /\ ~Disabled(f)) ~> (at[f] # "send" \/ crashed)

\* fiber_resume() asserts the lua_status() of the fiber it is given: there is one.
ResumesAFiber ==
    \A v \in Vm : \A i \in DOMAIN strand[v] :
        strand[v][i].op = "resume" => strand[v][i].fiber \in Fiber

=============================================================================
