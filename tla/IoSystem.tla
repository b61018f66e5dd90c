------------------------------ MODULE IoSystem ------------------------------
(***************************************************************************)
(* A VM whose fibers share I/O objects: every I/O module composed with the *)
(* strand, the kernel, fiber interruption, the collector and the end of    *)
(* the VM.                                                                 *)
(***************************************************************************)
EXTENDS Ip, Unix, FileDescriptor, File, Pipe, SerialPort, Tls, Time, System, Spawn

Init ==
    /\ CoreInit
    /\ kind \in Program
    /\ live = [o \in Obj |-> FALSE]
    /\ native = [o \in Obj |-> Nil]
    /\ nbusy = [o \in Obj |-> 0]
    /\ op = [f \in Fiber |-> Nil]
    /\ handle = [h \in Handle |-> Nil]
    /\ child = [o \in Obj |-> Nil]
    /\ openFd = {}
    /\ lost = {}

ObjectCall(f, o) ==
    \/ IpCall(f, o)
    \/ UnixCall(f, o)
    \/ FileCall(f, o)
    \/ PipeCall(f, o)
    \/ SerialPortCall(f, o)
    \/ TlsCall(f, o)
    \/ TimeCall(f, o)
    \/ system_spawn(f, o)
    \/ subprocess_mt_index(f, o)
    \/ CollectObject(f, o)

HandleCalls(f, h) ==
    \/ file_descriptor_mt_index(f, h)
    \/ file_descriptor_mt_tostring(f, h)
    \/ file_descriptor_mt_gc(f, h)

\* What the current fiber may do.
FiberStep(f) ==
    /\ Running(f)
    /\ \/ \E o \in Obj : ObjectCall(f, o)
       \/ \E h \in Handle : HandleCalls(f, h)
       \/ ResolverCall(f)
       \/ sleep_for(f)
       \/ SystemCall(f)
       \/ \E g \in Fiber : Interrupt(f, g) \/ Spawn(f, g)
       \/ ThisFiber(f)
       \/ Exit(f)
       \/ End(f)

\* The handlers of f's operation.
Handler(f) ==
    \/ Completion(f)
    \/ Accepted(f)
    \/ receive_with_fds_op(f)
    \/ send_with_fds_op(f)
    \/ io_op(f)
    \/ Waited(f)

\* What the kernel does for f's operation.
Kernel(f) == KernelCompletes(f) \/ KernelAccepts(f) \/ ChildReadable(f)

Next ==
    \/ \E f \in Fiber : FiberStep(f) \/ Handler(f) \/ Kernel(f)
    \/ \E o \in Obj : ChildEnds(o) \/ Reap(o)
    \/ \E v \in Vm : RunStrand(v) \/ Destroy(v)

Spec == Init /\ [][Next]_vars

\* Fibers do not compute for ever; the strand runs its handlers, a completed
\* operation's among them, in the order they were queued, and so does the
\* io_context; a name query comes to an end; a pidfd becomes readable when the
\* child has ended.  Nothing else is owed: neither data nor the end of a child.
Fairness ==
    /\ \A v \in Vm : WF_vars(RunStrand(v))
    /\ \A f \in Fiber :
          /\ WF_vars(End(f))
          /\ SF_vars(Handler(f))
          /\ WF_vars(op[f] # Nil /\ op[f].io = "resolve" /\ KernelCompletes(f))
          /\ WF_vars(ChildReadable(f))
    /\ \A o \in Obj : WF_vars(Reap(o))

FairSpec == Spec /\ Fairness

-----------------------------------------------------------------------------
(* Types.                                                                    *)

Results == {"none", "error", "interrupted", "operation_aborted",
            "forbid_suspend_block", "interruption_already_allowed"}

Ios == Plain \cup TlsIo \cup {"accept", "receive_with_fds", "send_with_fds", "child"}

Operation ==
    [obj : Obj, io : Ios, slot : BOOLEAN,
     ec : {Nil, "none", "error", "operation_aborted"},
     peer : Fd \cup {Nil}, lock : SUBSET (Handle \X Fd)]

\* A child: it has ended; the descriptor its reaper has, if it has been left to one.
Process == [ended : BOOLEAN, reaper : Fd \cup {Nil}]

ASSUME IoSystemAssumption == Nil \notin Operation \cup Process

\* Every variable has its type; no socket counts fewer than no operations.
TypeOK ==
    /\ CoreTypeOK({"start", "yield", "io"}, Results, {"emit", "object", "resolver"})
    /\ \A v \in Vm : \A i \in DOMAIN strand[v] :
          strand[v][i] \in ResumeHandler(Fiber, Results)
    /\ kind \in Program
    /\ live \in [Obj -> BOOLEAN]
    /\ native \in [Obj -> Fd \cup {Nil}]
    /\ nbusy \in [Obj -> 0..Cardinality(Fiber)]
    /\ op \in [Fiber -> Operation \cup {Nil}]
    /\ handle \in [Handle -> Fd \cup {Nil, Busy}]
    /\ child \in [Obj -> Process \cup {Nil}]
    /\ openFd \in SUBSET Fd
    /\ lost \in SUBSET Fd

-----------------------------------------------------------------------------
(* Safety.                                                                   *)

\* A socket's nbusy is the number of operations in progress on it: no handler
\* misses its decrement, and none touches an object the end of the VM has freed
\* (the handlers of the objects that count look at vm_context::valid() first).
NbusyIsExact ==
    \A o \in Obj :
        nbusy[o] = IF live[o] /\ kind[o] \in Counted THEN Cardinality(OpsOn(o)) ELSE 0

\* Who would close descriptor d.
Owners(d) ==
    {o \in Obj : native[o] = d} \cup {h \in Handle : handle[h] = d}
    \cup {f \in Fiber : op[f] # Nil /\ (op[f].peer = d \/ d \in Locked(f))}
    \cup {<<"reaper", o>> : o \in {o \in Obj : child[o] # Nil /\ child[o].reaper = d}}
    \cup {l \in {"lost"} : d \in lost}

\* Every descriptor that is open has one owner, and nobody owns one that is not
\* (it could be somebody else's by now): through assign(), release(), dup(),
\* accept(), messages that carry descriptors, the collector, and the end of the
\* VM with operations in flight.  What assign() drops is set apart.  A handle is
\* busy only while one send_with_fds() has its descriptor.
DescriptorsOwnedOnce ==
    /\ \A d \in Fd : Cardinality(Owners(d)) = IF d \in openFd THEN 1 ELSE 0
    /\ \A h \in Handle :
          handle[h] = Busy => \E f \in Fiber, d \in Fd : op[f] # Nil /\ <<h, d>> \in op[f].lock

\* No fiber is suspended with nothing but its own interruption to wait for: once
\* it is interrupted, the operation it was free to give up has ended, whatever
\* its object went through meanwhile.  (A query that the resolver's thread has
\* taken up is not cancelled.  send_with_fds(), receive_with_fds() and the
\* operations of a TLS socket may wait again with their interrupter spent, and one
\* that waits for another operation of its TLS socket is out of its reach.)
InterruptionReachesIo ==
    \A f \in Fiber :
        op[f] # Nil /\ op[f].slot /\ interrupted[f]
        /\ op[f].io \notin {"resolve", "receive_with_fds", "send_with_fds"} \cup TlsIo
            => op[f].ec # Nil

-----------------------------------------------------------------------------
(* What a step may never do.                                                 *)

\* A fiber is told "interrupted" only when somebody interrupted it, and an
\* interrupted one is never told operation_aborted, whatever ended the operation
\* and in which order: an interruption, a cancel(), a close().
WakeUpsTellTheTruth ==
    [][\A f \in Fiber :
          op[f] # Nil /\ op'[f] = Nil =>
             /\ ret'[f] = "interrupted" => interrupted[f]
             /\ ret'[f] = "operation_aborted" /\ op[f].io # "stdstream" => ~interrupted[f]]_vars

-----------------------------------------------------------------------------
(* Liveness, under FairSpec.                                                 *)

\* An interrupted fiber that was free to give its operation up does not stay
\* suspended in it (core.hpp, fiber_resume() with auto_detect_interrupt), not even in
\* a query that the resolver's thread has taken up.  The operations that may wait
\* again after the interrupter was used up are set apart: they may stay.
InterruptedIoEnds ==
    \A f \in Fiber :
        (/\ op[f] # Nil /\ op[f].slot /\ interrupted[f]
         /\ op[f].io \notin {"receive_with_fds", "send_with_fds"} \cup TlsIo)
            ~> op[f] = Nil

\* When the VM is closed every operation of its fibers ends, but the wait for a
\* child that goes on, and the descriptors that were theirs are closed:
\* vm_context::close() forgets none.  Nothing is said of the operations of TLS
\* sockets, whose handlers go on with a stream that was freed.
ClosedVmDrains ==
    \A v \in Vm :
        ~valid[v] ~>
            /\ \A f \in Fiber : \/ op[f] = Nil
                                \/ op[f].io \in TlsIo
                                \/ op[f].io = "child" /\ ~child[op[f].obj].ended
            /\ openFd = lost \cup {child[o].reaper : o \in {o \in Obj : child[o] # Nil}}

\* A child that has ended does not stay a zombie once nobody can wait() for it: its
\* subprocess was collected, or the VM ended with a wait() in progress.
ChildrenAreReaped ==
    \A o \in Obj : (child[o] # Nil /\ child[o].ended /\ ~live[o]) ~> child[o] = Nil

=============================================================================
