--------------------------------- MODULE Io ---------------------------------
(***************************************************************************)
(* What every I/O module of a VM shares: objects that own a kernel         *)
(* descriptor, file_descriptor handles, and the asynchronous operations    *)
(* fibers suspend on (core.hpp, core.cpp, socket_base.hpp and the calls    *)
(* that ip.cpp, unix.cpp, file.cpp, pipe.cpp, serial_port.cpp, tls.cpp and *)
(* time.cpp have in common).                                               *)
(*                                                                         *)
(* A suspending call installs an interrupter, starts an Asio operation     *)
(* whose handler is bound to the VM's strand, and yields.  The operation   *)
(* ends in Asio (ec is set) before its handler runs: what happens in       *)
(* between, an interruption, a cancel(), a close(), the end of the VM, is  *)
(* what the modules are about.  I/O objects never leave their VM, so there *)
(* is one.                                                                 *)
(***************************************************************************)
EXTENDS VmContext

CONSTANTS
    Obj,      \* I/O objects (Lua userdata that hold an Asio object)
    Handle,   \* file_descriptor userdata
    Fd,       \* the descriptor numbers the process may use (RLIMIT_NOFILE)
    Busy,     \* INVALID_FILE_DESCRIPTOR: the handle's descriptor is being sent
    Program,  \* the types of the names a program uses: a set of functions on Obj
              \* and Handle (a name of type "none" is not used)
    Maxfds,   \* the argument of receive_with_fds()
    MaxSent   \* bound on the descriptors one message carries

ASSUME IoAssumption ==
    /\ \A v, w \in Vm : v = w
    /\ IsFiniteSet(Fiber)
    /\ Fd \subseteq Nat
    /\ Busy \notin Fd /\ Nil \notin Fd \cup {Busy}
    /\ Nil \notin {"none", "error", "operation_aborted", "emit", "object", "resolver"}
    /\ Maxfds \in Nat \ {0} /\ MaxSent \in Nat

VARIABLES
    kind,     \* [Obj and Handle -> type]: the metatable of each object
    live,     \* [Obj -> BOOLEAN]: created and not collected
    native,   \* [Obj -> Fd or Nil]: native_handle() of the Asio object
    nbusy,    \* [Obj -> Int]: nbusy of the sockets that count their operations, and
              \* wait_in_progress of subprocesses
    op,       \* [Fiber -> operation or Nil]: what the fiber suspended on
    handle,   \* [Handle -> Fd, Busy or Nil (none, or its metatable was removed)]
    child,    \* [Obj -> process or Nil]: the child of a subprocess, until it is reaped
    openFd,   \* SUBSET Fd: the descriptors the kernel has open for the process
    lost      \* SUBSET Fd: descriptors assign() took out of a handle and dropped

names == <<kind, child>>
objVars == <<names, live, native, nbusy>>
fdVars == <<handle, openFd, lost>>
ioVars == <<objVars, fdVars, op>>
vars == <<coreVars, fiberData, ret, ioVars>>

-----------------------------------------------------------------------------
(* An operation in Asio.  obj: its I/O object; io: what it does;             *)
(* slot: it can be cancelled by the fiber's interrupter; ec: how it ended,   *)
(* Nil while it is pending; peer: the descriptor accept() got; lock:         *)
(* send_with_fds_op::fds.                                                    *)

Pending(f) == op[f] # Nil /\ op[f].ec = Nil

\* The operations of the fibers in fs are cancelled; those that ended already
\* keep their result.
Aborted(fs) ==
    [f \in Fiber |-> IF f \in fs /\ Pending(f)
                     THEN [op[f] EXCEPT !.ec = "operation_aborted"] ELSE op[f]]

OpsOn(o) == {f \in Fiber : op[f] # Nil /\ op[f].obj = o}

\* An operation of a TLS socket is a sequence of reads and writes of the TCP
\* socket below it.  It is in one of them; or waits on a timer of the stream
\* (pending_read_, pending_write_) until another operation's is over; or it was
\* done when it started and its handler is on its way.
TlsStep == {"tls_read", "tls_write"}
TlsWait == {"pending_read", "pending_write"}
TlsIo == TlsStep \cup TlsWait \cup {"tls_done"}

\* The kernel gives the lowest descriptor that is free: the one it gives when
\* those of taken are in use, if there is any.
Lowest(taken) == {d \in Fd \ taken : \A e \in Fd \ taken : d <= e}

\* The handles a new file_descriptor may be.
NewHandles == {h \in Handle : handle[h] = Nil /\ kind[h] = "file_descriptor"}

-----------------------------------------------------------------------------
(* Calls that return at once.  Every function checks its receiver and its    *)
(* arguments before it does anything else.                                   *)

\* The current fiber f calls a function on o, a userdata of type k.
Method(f, o, k) == Running(f) /\ live[o] /\ kind[o] = k

\* The call returns r (or raises it) and nothing else happens.
Answer(f, r) == Return(f, r) /\ UNCHANGED <<strand, valid, fiberData, ioVars>>

\* An argument is refused, or the kernel refuses the call.
Raise(f) == Answer(f, "error")

\* A call that asks the kernel something about o, or changes one of its options.
Syscall(f, o) == Raise(f) \/ (native[o] # Nil /\ Answer(f, "none"))

-----------------------------------------------------------------------------
(* Descriptors change hands.                                                 *)

\* A constructor: lua_newuserdata() and a closed Asio object.
New(f, o, k) ==
    /\ Running(f)
    /\ kind[o] = k /\ ~live[o]
    /\ live' = [live EXCEPT ![o] = TRUE]
    /\ nbusy' = [nbusy EXCEPT ![o] = 0]
    /\ Return(f, "none")
    /\ UNCHANGED <<strand, valid, fiberData, names, native, fdVars, op>>

\* open() of an Asio object; one that is open refuses.
Open(f, o) ==
    \/ Raise(f)
    \/ /\ native[o] = Nil
       /\ \E d \in Lowest(openFd) :
             /\ native' = [native EXCEPT ![o] = d]
             /\ openFd' = openFd \cup {d}
       /\ Return(f, "none")
       /\ UNCHANGED <<strand, valid, fiberData, names, live, nbusy, handle, lost, op>>

\* close() of an Asio object: its operations end with operation_aborted.  The
\* descriptor is gone even when the kernel reports an error.
Close(f, o) ==
    \/ Raise(f)
    \/ /\ native' = [native EXCEPT ![o] = Nil]
       /\ openFd' = openFd \ {native[o]}
       /\ op' = Aborted(OpsOn(o))
       /\ \E r \in {"none", "error"} : (native[o] = Nil => r = "none") /\ Return(f, r)
       /\ UNCHANGED <<strand, valid, fiberData, names, live, nbusy, handle, lost>>

\* cancel() of an object that holds no descriptor, or a new expiry time: the
\* waits end.
Reset(f, o) ==
    \/ Raise(f)
    \/ /\ op' = Aborted(OpsOn(o))
       /\ Return(f, "none")
       /\ UNCHANGED <<strand, valid, fiberData, objVars, fdVars>>

\* cancel() of an Asio object.
Cancel(f, o) ==
    \/ Raise(f)
    \/ /\ native[o] # Nil
       /\ op' = Aborted(OpsOn(o))
       /\ Return(f, "none")
       /\ UNCHANGED <<strand, valid, fiberData, objVars, fdVars>>

\* Asio's assign() of descriptor d to o: refused when o is open, and then only
\* an assert() looks at the result.
Adopt(o, d) ==
    /\ native' = IF native[o] = Nil THEN [native EXCEPT ![o] = d] ELSE native
    /\ lost' = IF native[o] = Nil THEN lost ELSE lost \cup {d}

\* assign(): a busy handle is refused; another gives its descriptor up before
\* Asio is asked to take it.
Assign(f, o, h) ==
    \/ Raise(f)
    \/ /\ handle[h] \in Fd
       /\ handle' = [handle EXCEPT ![h] = Nil]
       /\ Adopt(o, handle[h])
       /\ Return(f, "none")
       /\ UNCHANGED <<strand, valid, fiberData, names, live, nbusy, openFd, op>>

\* A constructor that takes a handle: the new object is assigned at once.
NewFrom(f, o, k, h) ==
    \/ Running(f) /\ Raise(f)
    \/ /\ Running(f)
       /\ kind[o] = k /\ ~live[o] /\ handle[h] \in Fd
       /\ live' = [live EXCEPT ![o] = TRUE]
       /\ nbusy' = [nbusy EXCEPT ![o] = 0]
       /\ handle' = [handle EXCEPT ![h] = Nil]
       /\ Adopt(o, handle[h])
       /\ Return(f, "none")
       /\ UNCHANGED <<strand, valid, fiberData, names, openFd, op>>

\* release(): the object's operations are cancelled and its descriptor goes to
\* a new handle; if the release fails the object keeps it.
Release(f, o, h) ==
    \/ Raise(f)
    \/ /\ native[o] # Nil /\ h \in NewHandles
       /\ native' = [native EXCEPT ![o] = Nil]
       /\ handle' = [handle EXCEPT ![h] = native[o]]
       /\ op' = Aborted(OpsOn(o))
       /\ Return(f, "none")
       /\ UNCHANGED <<strand, valid, fiberData, names, live, nbusy, openFd, lost>>

\* Two connected objects are created at once; on failure they are garbage.
Pair(f, o, p, ko, kp) ==
    \/ Running(f) /\ Raise(f)
    \/ /\ Running(f) /\ o # p
       /\ kind[o] = ko /\ kind[p] = kp /\ ~live[o] /\ ~live[p]
       /\ \E d \in Lowest(openFd) : \E e \in Lowest(openFd \cup {d}) :
             /\ native' = [native EXCEPT ![o] = d, ![p] = e]
             /\ openFd' = openFd \cup {d, e}
       /\ live' = [live EXCEPT ![o] = TRUE, ![p] = TRUE]
       /\ nbusy' = [nbusy EXCEPT ![o] = 0, ![p] = 0]
       /\ Return(f, "none")
       /\ UNCHANGED <<strand, valid, fiberData, names, handle, lost, op>>

-----------------------------------------------------------------------------
(* Calls that suspend.                                                       *)

\* The types whose operations are counted in nbusy.
Counted == {"tcp_socket", "udp_socket", "unix_datagram_socket",
            "unix_stream_socket", "unix_seqpacket_socket", "subprocess"}

Count(o, n) ==
    IF kind[o] \in Counted THEN [nbusy EXCEPT ![o] = @ + n] ELSE nbusy

\* Objects that hold no descriptor to close: timers, signal sets, and what all
\* fibers of a VM share as one of its pending_operations.
Portless == {"sleep_for_operation", "steady_timer", "system_timer", "signal_set",
             "tcp_resolver", "udp_resolver", "stdstream_service"}

\* The operation is started with the given interrupter, and the fiber yields.
\* ec is not Nil when it ends at once.
Initiate(f, o, io, closure, lock, ec) ==
    /\ interrupter' = SetInterrupter(f, closure)
    /\ nbusy' = Count(o, 1)
    /\ op' = [op EXCEPT ![f] = [obj |-> o, io |-> io, slot |-> ~Disabled(f),
                                ec |-> ec, peer |-> Nil, lock |-> lock]]
    /\ Suspend(f, "io")
    /\ UNCHANGED <<strand, valid, counters, interrupted, names, live>>

\* An operation on an object that is not open fails.
Outlook(o) ==
    IF kind[o] \in Portless \/ native[o] # Nil THEN Nil ELSE "error"

\* EMILUA_CHECK_SUSPEND_ALLOWED() comes first, then the arguments.
Refused(f) ==
    \/ ~CanSuspend(f) /\ Answer(f, SuspendError(f))
    \/ CanSuspend(f) /\ Raise(f)

\* A suspending function with the given interrupter.
Async(f, o, io, closure) ==
    \/ Refused(f)
    \/ /\ CanSuspend(f)
       /\ Initiate(f, o, io, closure, {}, Outlook(o))
       /\ UNCHANGED <<native, fdVars>>

\* Most of them: set_default_interrupter() gives the operation the slot of the
\* fiber's cancellation signal.
AsyncCall(f, o) == Async(f, o, "transfer", "emit")

\* connect() opens a socket that is not open.
Connect(f, o) ==
    \/ AsyncCall(f, o)
    \/ /\ CanSuspend(f) /\ native[o] = Nil
       /\ Initiate(f, o, "transfer", "emit", {}, Nil)
       /\ \E d \in Lowest(openFd) :
             /\ native' = [native EXCEPT ![o] = d]
             /\ openFd' = openFd \cup {d}
       /\ UNCHANGED <<handle, lost>>

-----------------------------------------------------------------------------
(* How operations end.                                                       *)

\* Fault: whatever was aborted counts as interrupted.
AlwaysInterrupted(f, ec) ==
    IF ec = "operation_aborted" THEN "interrupted" ELSE ec

\* fiber_resume(): sleep() and the wait for a child use fast_auto_detect_interrupt,
\* which does not look at the flag, the other operations auto_detect_interrupt.
\* The standard streams ask for the former with an error_code of a type that it
\* does not see.
Detect(f, ec) ==
    IF /\ ec = "operation_aborted"
       /\ op[f].io \in {"sleep", "child"} \/ (interrupted[f] /\ op[f].io # "stdstream")
    THEN "interrupted" ELSE ec

\* The strand is free and f's operation has ended.
Completed(f) == running[VmOf[f]] = Nil /\ op[f] # Nil /\ op[f].ec # Nil

\* Fault: the operation is still counted.
ResumeUncounted(f, ec) ==
    /\ op' = [op EXCEPT ![f] = Nil]
    /\ FiberResume(f, TRUE, Detect(f, ec))
    /\ UNCHANGED <<strand, valid, counters, interrupted, nbusy>>

\* The handler of f's operation gives ec to f.
ResumeWith(f, ec) ==
    /\ nbusy' = Count(op[f].obj, -1)
    /\ op' = [op EXCEPT ![f] = Nil]
    /\ FiberResume(f, TRUE, Detect(f, ec))
    /\ UNCHANGED <<strand, valid, counters, interrupted>>

\* The handler finds its VM closed: the objects it refers to are freed.
Dropped(f) ==
    /\ op' = [op EXCEPT ![f] = Nil]
    /\ UNCHANGED <<coreVars, fiberData, ret, nbusy>>

\* Asio ends an operation that is pending.
KernelCompletes(f) ==
    /\ Pending(f) /\ op[f].io \notin {"accept", "child"} \cup TlsWait
    /\ \E r \in {"none", "error"} : op' = [op EXCEPT ![f].ec = r]
    /\ UNCHANGED <<coreVars, fiberData, ret, objVars, fdVars>>

Plain == {"transfer", "sleep", "resolve", "stdstream"}

\* Fault: the handler counts its operation whether or not its VM is alive.
CompletionUnchecked(f) ==
    /\ Completed(f) /\ op[f].io \in Plain
    /\ IF valid[VmOf[f]]
       THEN ResumeWith(f, op[f].ec)
       ELSE /\ op' = [op EXCEPT ![f] = Nil]
            /\ nbusy' = Count(op[f].obj, -1)
            /\ UNCHANGED <<coreVars, fiberData, ret>>
    /\ UNCHANGED <<names, live, native, fdVars>>

\* The handler of most operations.
Completion(f) ==
    /\ Completed(f) /\ op[f].io \in Plain
    /\ IF valid[VmOf[f]] THEN ResumeWith(f, op[f].ec) ELSE Dropped(f)
    /\ UNCHANGED <<names, live, native, fdVars>>

-----------------------------------------------------------------------------
(* accept().                                                                 *)

\* The type of the sockets an acceptor makes.
PeerType == [tcp_acceptor |-> "tcp_socket",
             unix_stream_acceptor |-> "unix_stream_socket",
             unix_seqpacket_acceptor |-> "unix_seqpacket_socket"]

\* The kernel has a connection, or an error.
KernelAccepts(f) ==
    /\ Pending(f) /\ op[f].io = "accept"
    /\ \/ /\ op' = [op EXCEPT ![f].ec = "error"]
          /\ UNCHANGED openFd
       \/ \E d \in Lowest(openFd) :
             /\ op' = [op EXCEPT ![f].ec = "none", ![f].peer = d]
             /\ openFd' = openFd \cup {d}
    /\ UNCHANGED <<coreVars, fiberData, ret, objVars, handle, lost>>

\* The handler of accept(): the connection is moved into a new socket (closed
\* when the VM is, and when the program has no name left for the socket).
Accepted(f) ==
    LET unused == {p \in Obj : ~live[p] /\ kind[p] = PeerType[kind[op[f].obj]]} IN
    /\ Completed(f) /\ op[f].io = "accept"
    /\ IF valid[VmOf[f]] THEN ResumeWith(f, op[f].ec) ELSE Dropped(f)
    /\ IF valid[VmOf[f]] /\ op[f].peer # Nil /\ unused # {}
       THEN /\ \E p \in unused :
                  /\ live' = [live EXCEPT ![p] = TRUE]
                  /\ native' = [native EXCEPT ![p] = op[f].peer]
            /\ UNCHANGED openFd
       ELSE /\ openFd' = openFd \ {op[f].peer}
            /\ UNCHANGED <<live, native>>
    /\ UNCHANGED <<names, handle, lost>>

-----------------------------------------------------------------------------
(* Interruption.                                                             *)

\* What an interrupter may cancel.  "emit": the signal reaches the operation
\* bound to the fiber's slot.  "object": everything that waits on the same pipe,
\* child, timer of a sleep(), or TCP socket below a TLS socket.  A resolver cancels
\* all of its queries but the ones that its thread has taken up already.
Cancels(g) ==
    CASE interrupter[g] = "emit" -> {{f \in {g} : op[f] # Nil /\ op[f].slot}}
      [] interrupter[g] = "object" -> {{f \in OpsOn(op[g].obj) : op[f].io \notin TlsWait}}
      [] interrupter[g] = "resolver" -> SUBSET OpsOn(op[g].obj)

\* Fault: the flag is set and the interrupter is not called.
InterruptFlagOnly(f, g) ==
    /\ Running(f)
    /\ VmOf[g] = VmOf[f] /\ ~IsMain(g) /\ at[g] \notin Gone
    /\ interrupted' = [interrupted EXCEPT ![g] = TRUE]
    /\ Return(f, "none")
    /\ UNCHANGED <<strand, valid, counters, interrupter, op, objVars, fdVars>>

\* fiber_interrupt() of a fiber g whose handle is alive.
Interrupt(f, g) ==
    /\ Running(f)
    /\ VmOf[g] = VmOf[f] /\ ~IsMain(g) /\ at[g] \notin Gone
    /\ interrupted' = [interrupted EXCEPT ![g] = TRUE]
    /\ IF g # f /\ interrupter[g] # Nil
       THEN /\ \E fs \in Cancels(g) : op' = Aborted(fs)
            /\ interrupter' = [interrupter EXCEPT ![g] = Nil]
       ELSE UNCHANGED <<op, interrupter>>
    /\ Return(f, "none")
    /\ UNCHANGED <<strand, valid, counters, objVars, fdVars>>

-----------------------------------------------------------------------------
(* The collector and the end of the VM.                                      *)

\* Fault: ~subprocess() only gives up its descriptor.
OrphanedForgotten(os) == child

\* ~subprocess(): the child, if it is not reaped yet, is left to a wait of its own
\* that keeps the descriptor.
Orphaned(os) ==
    [o \in Obj |-> IF o \in os /\ child[o] # Nil /\ native[o] # Nil
                   THEN [child[o] EXCEPT !.reaper = native[o]] ELSE child[o]]

\* The descriptors that the other destructors close.
Dropping(os) == {native[o] : o \in {o \in os : kind[o] # "subprocess"}}

\* The suspended calls that have o among their arguments: not those that a TLS
\* socket got with the TCP socket.
Holding(o) == {f \in OpsOn(o) : kind[o] = "tls_socket" => op[f].io \in TlsIo}

\* finalizer<T>(): the destructor closes the descriptor.  The arguments of a
\* suspended call keep its object reachable.
CollectObject(f, o) ==
    /\ Running(f)
    /\ live[o] /\ Holding(o) = {}
    /\ live' = [live EXCEPT ![o] = FALSE]
    /\ native' = [native EXCEPT ![o] = Nil]
    /\ openFd' = openFd \ Dropping({o})
    /\ child' = Orphaned({o})
    /\ op' = Aborted(OpsOn(o))
    /\ UNCHANGED <<coreVars, fiberData, ret, kind, nbusy, handle, lost>>

\* Fault: pending_operations are left alone.
ObjectsOnly == {f \in Fiber : op[f] # Nil /\ op[f].io \notin {"child", "sleep", "resolve", "stdstream"}}

\* The operations that end with the VM: those of the objects lua_close() collects,
\* and those of pending_operations.  The wait for a child goes on.
EndWithVm == {f \in Fiber : op[f] # Nil /\ op[f].io # "child"}

\* close(): lua_close() collects every object and handle (a busy handle closes
\* nothing), then pending_operations are cancelled.
CloseIo(v) ==
    /\ CloseVm(v)
    /\ live' = [o \in Obj |-> FALSE]
    /\ native' = [o \in Obj |-> Nil]
    /\ nbusy' = [o \in Obj |-> 0]
    /\ handle' = [h \in Handle |-> Nil]
    /\ openFd' = openFd \ (Dropping(Obj) \cup {handle[h] : h \in Handle})
    /\ child' = Orphaned(Obj)
    /\ op' = Aborted(EndWithVm)
    /\ UNCHANGED <<strand, kind, lost>>

\* exit(): fiber_epilogue() closes the VM under the current fiber.
Exit(f) == Running(f) /\ CloseIo(VmOf[f])

\* ~vm_context(): no handler holds the VM any more.
Destroy(v) ==
    /\ valid[v] /\ running[v] = Nil /\ strand[v] = <<>>
    /\ \A f \in Fiber : op[f] = Nil
    /\ CloseIo(v)

End(f) ==
    /\ Running(f)
    /\ Suspend(f, "dead")
    /\ UNCHANGED <<strand, valid, fiberData, ioVars>>

Spawn(f, g) == SpawnFiber(f, g) /\ UNCHANGED ioVars

ThisFiber(f) ==
    /\ \/ DisableInterruption(f)
       \/ RestoreInterruption(f)
       \/ Yield(f)
    /\ UNCHANGED ioVars

RunStrand(v) == RunResume(v) /\ UNCHANGED ioVars

=============================================================================
