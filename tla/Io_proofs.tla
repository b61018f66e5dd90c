------------------------------ MODULE Io_proofs ------------------------------
(***************************************************************************)
(* Proofs about IoSystem, for any number of fibers, objects, handles and   *)
(* descriptors and any program: its type invariant, that the operations of *)
(* a socket are counted, that each open descriptor has one owner, that an  *)
(* interruption reaches an operation of one wait, and that wake-ups tell   *)
(* the truth.                                                              *)
(***************************************************************************)
EXTENDS IoSystem, VmContext_proofs

-----------------------------------------------------------------------------
(* The inductive invariant: fibers and their operations.                     *)

IoSites == {"start", "yield", "io"}

\* The fibers suspended on an operation.
InIo == {f \in Fiber : op[f] # Nil}

AllValid == \A v \in Vm : valid[v]

CoreOK ==
    /\ CoreTypeOK(IoSites, Results, {"emit", "object", "resolver"})
    /\ strand \in [Vm -> Seq(ResumeHandler(Fiber, Results))]
    /\ op \in [Fiber -> Operation \cup {Nil}]

\* A suspended fiber is on its strand or in an operation, and never in both.
OwedOnce == AllValid => Engine(running, at, strand, InIo, IoSites, Results)

\* No fiber is left in a closed VM.
ClosedIsQuiet ==
    ~AllValid =>
        /\ \A v \in Vm : running[v] = Nil
        /\ \A f \in Fiber : at[f] = "dead" /\ ~interrupted[f] /\ ret[f] = "none"

\* What operations are on which objects, and which have got a connection or
\* locked a handle.
OpIsSound(r) ==
    /\ r.io = "sleep" <=> kind[r.obj] = "sleep_for_operation"
    /\ r.io = "child" <=> kind[r.obj] = "subprocess"
    /\ r.io = "resolve" <=> kind[r.obj] \in {"tcp_resolver", "udp_resolver"}
    /\ r.io = "accept" => kind[r.obj] \in DOMAIN PeerType
    /\ r.io \in TlsIo => kind[r.obj] = "tls_socket"
    /\ r.peer # Nil => r.io = "accept" /\ r.ec # Nil
    /\ r.lock # {} => r.io = "send_with_fds"

OpsAreSound == \A f \in Fiber : op[f] # Nil => OpIsSound(op[f])

\* The timer of a sleep() and the wait for a child are nobody else's, ...
Alone ==
    \A f, g \in Fiber :
        op[f] # Nil /\ op[g] # Nil /\ op[f].obj = op[g].obj /\ op[f].io \in {"sleep", "child"}
          => f = g

\* ... so that only the interruption of their fiber aborts them.
AbortedByInterruption ==
    AllValid => \A f \in Fiber :
        op[f] # Nil /\ op[f].io \in {"sleep", "child"} /\ op[f].ec = "operation_aborted"
          => interrupted[f]

\* The operations that are not over when their wait is, and those that may not
\* notice their interruption.
Rewaiting == {"receive_with_fds", "send_with_fds"} \cup TlsIo

\* The interrupters that use the operation of their fiber end with it; an
\* operation that can be interrupted and was not has its interrupter.
Armed ==
    AllValid => \A f \in Fiber :
        /\ interrupter[f] \in {"object", "resolver"} => op[f] # Nil /\ ~Disabled(f)
        /\ interrupter[f] = "resolver" => op[f].io = "resolve"
        /\ op[f] # Nil /\ op[f].slot /\ ~interrupted[f] /\ op[f].io \notin Rewaiting \cup {"resolve"}
             => interrupter[f] \in {"emit", "object"}

FiberInv ==
    /\ CoreOK
    /\ OwedOnce
    /\ ClosedIsQuiet
    /\ OpsAreSound
    /\ Alone
    /\ AbortedByInterruption
    /\ Armed
    /\ InterruptionReachesIo

-----------------------------------------------------------------------------
(* What the calls amount to.  The functions of the modules are combinations  *)
(* of a few forms; what only one of them does is a form of its own.          *)

\* The types whose objects are created, used and collected one like the other.
Ordinary ==
    {"tcp_socket", "tcp_acceptor", "udp_socket", "unix_datagram_socket", "unix_stream_socket",
     "unix_seqpacket_socket", "unix_stream_acceptor", "unix_seqpacket_acceptor", "file_stream",
     "file_random_access", "readable_pipe", "writable_pipe", "serial_port", "tls_socket",
     "steady_timer", "system_timer", "signal_set"}

\* A method of an ordinary object.
CallOn(f, o) ==
    /\ Running(f) /\ live[o] /\ kind[o] \in Ordinary
    /\ \/ \E r \in {"none", "error"} : Answer(f, r)
       \/ Open(f, o) \/ OpenPort(f, o)
       \/ Close(f, o) \/ Cancel(f, o) \/ Reset(f, o)
       \/ \E h \in Handle : Assign(f, o, h) \/ Release(f, o, h) \/ ReleasePort(f, o, h)
       \/ Connect(f, o)
       \/ SendWithFds(f, o)
       \/ kind[o] = "tls_socket" /\ Composed(f, o)
       \/ \E io \in {"transfer", "accept", "receive_with_fds"}, closure \in {"emit", "object"} :
             (io = "accept" => kind[o] \in DOMAIN PeerType) /\ Async(f, o, io, closure)

\* A constructor of ordinary objects.
Constructs(f, o) ==
    \E k \in Ordinary :
        \/ New(f, o, k)
        \/ \E h \in Handle : NewFrom(f, o, k, h)
        \/ \E p \in Obj, l \in Ordinary : Pair(f, o, p, k, l)

\* A call on what the fibers of a VM share.
SharedCall(f, o) ==
    /\ Running(f)
    /\ \/ kind[o] \in {"tcp_resolver", "udp_resolver"} /\ Async(f, o, "resolve", "resolver")
       \/ kind[o] = "sleep_for_operation" /\ OpsOn(o) = {} /\ Async(f, o, "sleep", "object")
       \/ kind[o] = "stdstream_service" /\ Async(f, o, "stdstream", "emit")

\* The functions of TCP and UDP sockets and acceptors are such calls; ...
LEMMA IpForms ==
    ASSUME NEW f \in Fiber, NEW o \in Obj, IpCall(f, o)
    PROVE  CallOn(f, o) \/ Constructs(f, o)
  <1>1. ASSUME tcp_socket_mt_index(f, o) PROVE CallOn(f, o)
    BY <1>1 DEF CallOn, Method, Syscall, Raise, AsyncCall, Ordinary, PeerType, tcp_socket_mt_index,
        tcp_socket_open, tcp_socket_close, tcp_socket_cancel, tcp_socket_assign,
        tcp_socket_release, tcp_socket_is_open, tcp_socket_bind, tcp_socket_io_control,
        tcp_socket_shutdown, tcp_socket_disconnect, tcp_socket_set_option,
        tcp_socket_get_option, tcp_socket_local_address, tcp_socket_local_port,
        tcp_socket_remote_address, tcp_socket_remote_port, tcp_socket_at_mark,
        tcp_socket_connect, tcp_socket_read_some, tcp_socket_write_some,
        tcp_socket_receive, tcp_socket_send, tcp_socket_wait
  <1>2. ASSUME tcp_acceptor_mt_index(f, o) PROVE CallOn(f, o)
    BY <1>2 DEF CallOn, Method, Syscall, Raise, AsyncCall, Ordinary, PeerType, tcp_acceptor_mt_index,
        tcp_acceptor_open, tcp_acceptor_close, tcp_acceptor_cancel, tcp_acceptor_assign,
        tcp_acceptor_release, tcp_acceptor_is_open, tcp_acceptor_bind, tcp_acceptor_listen,
        tcp_acceptor_set_option, tcp_acceptor_get_option, tcp_acceptor_local_address,
        tcp_acceptor_local_port, tcp_acceptor_accept
  <1>3. ASSUME udp_socket_mt_index(f, o) PROVE CallOn(f, o)
    BY <1>3 DEF CallOn, Method, Syscall, Raise, AsyncCall, Ordinary, PeerType, udp_socket_mt_index,
        udp_socket_open, udp_socket_close, udp_socket_cancel, udp_socket_assign,
        udp_socket_release, udp_socket_is_open, udp_socket_bind, udp_socket_shutdown,
        udp_socket_disconnect, udp_socket_io_control, udp_socket_set_option,
        udp_socket_get_option, udp_socket_local_address, udp_socket_local_port,
        udp_socket_remote_address, udp_socket_remote_port, udp_socket_connect,
        udp_socket_receive, udp_socket_receive_from, udp_socket_send, udp_socket_send_to
  <1> QED
    BY <1>1, <1>2, <1>3 DEF IpCall, Constructs, Ordinary,
        tcp_socket_new, tcp_acceptor_new, udp_socket_new

\* ... those of UNIX domain sockets and acceptors, ...
LEMMA UnixForms ==
    ASSUME NEW f \in Fiber, NEW o \in Obj, UnixCall(f, o)
    PROVE  CallOn(f, o) \/ Constructs(f, o)
  <1>1. ASSUME unix_datagram_socket_mt_index(f, o) PROVE CallOn(f, o)
    BY <1>1 DEF CallOn, Method, Syscall, Raise, AsyncCall, Ordinary, PeerType, unix_datagram_socket_mt_index,
        unix_datagram_socket_open, unix_datagram_socket_close, unix_datagram_socket_cancel,
        unix_datagram_socket_assign, unix_datagram_socket_release,
        unix_datagram_socket_is_open, unix_datagram_socket_bind,
        unix_datagram_socket_shutdown, unix_datagram_socket_disconnect,
        unix_datagram_socket_set_option, unix_datagram_socket_get_option,
        unix_datagram_socket_io_control, unix_datagram_socket_local_path,
        unix_datagram_socket_remote_path, unix_datagram_socket_connect,
        unix_datagram_socket_receive, unix_datagram_socket_receive_from,
        unix_datagram_socket_send, unix_datagram_socket_send_to,
        unix_datagram_socket_receive_with_fds, unix_datagram_socket_receive_from_with_fds,
        unix_datagram_socket_send_with_fds, unix_datagram_socket_send_to_with_fds
  <1>2. ASSUME unix_stream_socket_mt_index(f, o) PROVE CallOn(f, o)
    BY <1>2 DEF CallOn, Method, Syscall, Raise, AsyncCall, Ordinary, PeerType, unix_stream_socket_mt_index,
        unix_stream_socket_open, unix_stream_socket_close, unix_stream_socket_cancel,
        unix_stream_socket_assign, unix_stream_socket_release, unix_stream_socket_is_open,
        unix_stream_socket_bind, unix_stream_socket_shutdown,
        unix_stream_socket_disconnect, unix_stream_socket_set_option,
        unix_stream_socket_get_option, unix_stream_socket_io_control,
        unix_stream_socket_local_path, unix_stream_socket_remote_path,
        unix_stream_socket_connect, unix_stream_socket_read_some,
        unix_stream_socket_write_some, unix_stream_socket_receive_with_fds,
        unix_stream_socket_send_with_fds
  <1>3. ASSUME unix_stream_acceptor_mt_index(f, o) PROVE CallOn(f, o)
    BY <1>3 DEF CallOn, Method, Syscall, Raise, AsyncCall, Ordinary, PeerType, unix_stream_acceptor_mt_index,
        unix_stream_acceptor_open, unix_stream_acceptor_close, unix_stream_acceptor_cancel,
        unix_stream_acceptor_assign, unix_stream_acceptor_release,
        unix_stream_acceptor_is_open, unix_stream_acceptor_bind,
        unix_stream_acceptor_listen, unix_stream_acceptor_set_option,
        unix_stream_acceptor_get_option, unix_stream_acceptor_local_path,
        unix_stream_acceptor_accept
  <1>4. ASSUME unix_seqpacket_socket_mt_index(f, o) PROVE CallOn(f, o)
    BY <1>4 DEF CallOn, Method, Syscall, Raise, AsyncCall, Ordinary, PeerType, unix_seqpacket_socket_mt_index,
        unix_seqpacket_socket_open, unix_seqpacket_socket_close,
        unix_seqpacket_socket_cancel, unix_seqpacket_socket_assign,
        unix_seqpacket_socket_release, unix_seqpacket_socket_is_open,
        unix_seqpacket_socket_bind, unix_seqpacket_socket_shutdown,
        unix_seqpacket_socket_disconnect, unix_seqpacket_socket_set_option,
        unix_seqpacket_socket_get_option, unix_seqpacket_socket_io_control,
        unix_seqpacket_socket_local_path, unix_seqpacket_socket_remote_path,
        unix_seqpacket_socket_connect, unix_seqpacket_socket_receive,
        unix_seqpacket_socket_send, unix_seqpacket_socket_receive_with_fds,
        unix_seqpacket_socket_send_with_fds
  <1>5. ASSUME unix_seqpacket_acceptor_mt_index(f, o) PROVE CallOn(f, o)
    BY <1>5 DEF CallOn, Method, Syscall, Raise, AsyncCall, Ordinary, PeerType, unix_seqpacket_acceptor_mt_index,
        unix_seqpacket_acceptor_open, unix_seqpacket_acceptor_close,
        unix_seqpacket_acceptor_cancel, unix_seqpacket_acceptor_assign,
        unix_seqpacket_acceptor_release, unix_seqpacket_acceptor_is_open,
        unix_seqpacket_acceptor_bind, unix_seqpacket_acceptor_listen,
        unix_seqpacket_acceptor_set_option, unix_seqpacket_acceptor_get_option,
        unix_seqpacket_acceptor_local_path, unix_seqpacket_acceptor_accept
  <1> QED
    BY <1>1, <1>2, <1>3, <1>4, <1>5 DEF UnixCall, Constructs, Ordinary,
        unix_datagram_socket_new, unix_stream_socket_new, unix_stream_acceptor_new,
        unix_seqpacket_socket_new, unix_seqpacket_acceptor_new, unix_datagram_socket_pair,
        unix_stream_socket_pair, unix_seqpacket_socket_pair

\* ... those of files, ...
LEMMA FileForms ==
    ASSUME NEW f \in Fiber, NEW o \in Obj, FileCall(f, o)
    PROVE  CallOn(f, o) \/ Constructs(f, o)
  <1>1. ASSUME stream_mt_index(f, o) PROVE CallOn(f, o)
    BY <1>1 DEF CallOn, Method, Syscall, Raise, AsyncCall, Ordinary, PeerType, stream_mt_index,
        stream_open, stream_close, stream_cancel, stream_assign, stream_release,
        stream_is_open, stream_resize, stream_seek, stream_size, stream_read_some,
        stream_write_some
  <1>2. ASSUME random_access_mt_index(f, o) PROVE CallOn(f, o)
    BY <1>2 DEF CallOn, Method, Syscall, Raise, AsyncCall, Ordinary, PeerType, random_access_mt_index,
        random_access_open, random_access_close, random_access_cancel,
        random_access_assign, random_access_release, random_access_is_open,
        random_access_resize, random_access_size, random_access_read_some_at,
        random_access_write_some_at
  <1> QED
    BY <1>1, <1>2 DEF FileCall, Constructs, Ordinary,
        stream_new, random_access_new

\* ... those of pipes, ...
LEMMA PipeForms ==
    ASSUME NEW f \in Fiber, NEW o \in Obj, PipeCall(f, o)
    PROVE  CallOn(f, o) \/ Constructs(f, o)
  <1>1. ASSUME readable_pipe_mt_index(f, o) PROVE CallOn(f, o)
    BY <1>1 DEF CallOn, Method, Syscall, Raise, AsyncCall, Ordinary, PeerType, readable_pipe_mt_index,
        readable_pipe_close, readable_pipe_cancel, readable_pipe_assign,
        readable_pipe_release, readable_pipe_is_open, readable_pipe_read_some
  <1>2. ASSUME writable_pipe_mt_index(f, o) PROVE CallOn(f, o)
    BY <1>2 DEF CallOn, Method, Syscall, Raise, AsyncCall, Ordinary, PeerType, writable_pipe_mt_index,
        writable_pipe_close, writable_pipe_cancel, writable_pipe_assign,
        writable_pipe_release, writable_pipe_is_open, writable_pipe_write_some
  <1> QED
    BY <1>1, <1>2 DEF PipeCall, Constructs, Ordinary,
        readable_pipe_new, writable_pipe_new, pair

\* ... those of serial ports, but for the pseudoterminal pair, ...
LEMMA SerialPortForms ==
    ASSUME NEW f \in Fiber, NEW o \in Obj, SerialPortCall(f, o)
    PROVE  CallOn(f, o) \/ Constructs(f, o) \/ serial_ptypair(f, o)
  <1>1. ASSUME serial_port_mt_index(f, o) PROVE CallOn(f, o)
    BY <1>1 DEF CallOn, Method, Syscall, Raise, AsyncCall, Ordinary, PeerType, serial_port_mt_index,
        serial_port_open, serial_port_close, serial_port_cancel, serial_port_assign,
        serial_port_release, serial_port_is_open, serial_port_isatty,
        serial_port_tcgetpgrp, serial_port_tcsetpgrp, serial_port_send_break,
        serial_port_read_some, serial_port_write_some, serial_port_mt_newindex
  <1>2. ASSUME serial_port_mt_newindex(f, o) PROVE CallOn(f, o)
    BY <1>2 DEF CallOn, Method, Syscall, Raise, Ordinary, serial_port_mt_newindex
  <1> QED
    BY <1>1, <1>2 DEF SerialPortCall, Constructs, Ordinary,
        serial_port_new

\* ... and those of timers.
LEMMA TimeForms ==
    ASSUME NEW f \in Fiber, NEW o \in Obj, TimeCall(f, o)
    PROVE  CallOn(f, o) \/ Constructs(f, o)
  <1>1. ASSUME steady_timer_mt_index(f, o) PROVE CallOn(f, o)
    BY <1>1 DEF CallOn, Method, Syscall, Raise, AsyncCall, Ordinary, PeerType, steady_timer_mt_index,
        steady_timer_wait, steady_timer_expires_at, steady_timer_expires_after,
        steady_timer_cancel, steady_timer_expiry
  <1>2. ASSUME system_timer_mt_index(f, o) PROVE CallOn(f, o)
    BY <1>2 DEF CallOn, Method, Syscall, Raise, AsyncCall, Ordinary, PeerType, system_timer_mt_index,
        system_timer_wait, system_timer_expires_at, system_timer_cancel,
        system_timer_expiry
  <1> QED
    BY <1>1, <1>2 DEF TimeCall, Constructs, Ordinary,
        steady_timer_new, system_timer_new
-----------------------------------------------------------------------------
(* Fibers and their operations: the steps.                                   *)

\* Nothing happens to any fiber but that a call of the current one returns.
StillCore ==
    /\ UNCHANGED <<coreVars, fiberData, kind>>
    /\ \/ UNCHANGED ret
       \/ \E f \in Fiber, r \in Results : Running(f) /\ ret' = [ret EXCEPT ![f] = r]

\* The operation r goes on, or ends, as s.
Advances(r, s) ==
    /\ s \in Operation /\ s.lock = r.lock
    /\ s.io = r.io \/ (r.io \in TlsIo /\ s.io \in TlsIo)
    /\ \/ s.obj = r.obj /\ s.slot = r.slot
       \/ kind[r.obj] = "tcp_socket" /\ kind[s.obj] = "tls_socket" /\ ~s.slot
    /\ r.ec = Nil \/ s.ec = r.ec \/ r.io \in Rewaiting
    /\ s.peer = r.peer \/ (r.io = "accept" /\ s.ec # Nil)

OpsAdvance ==
    /\ op' \in [Fiber -> Operation \cup {Nil}]
    /\ \A f \in Fiber : \/ op'[f] = op[f]
                        \/ op[f] # Nil /\ op'[f] # Nil /\ Advances(op[f], op'[f])

\* Neither a sleep() nor the wait for a child is aborted.
NoneAborted ==
    \A f \in Fiber :
        op'[f] # Nil /\ op'[f].io \in {"sleep", "child"} /\ op'[f].ec = "operation_aborted"
          => op[f].ec = "operation_aborted"

\* A fiber can call only while its VM is open, and is in no operation meanwhile.
LEMMA Caller ==
    ASSUME FiberInv, NEW f \in Fiber, Running(f)
    PROVE  AllValid /\ op[f] = Nil /\ at[f] = "running" /\ VmOf[f] \in Vm
  <1>1. VmOf[f] \in Vm /\ Nil \notin Fiber
    BY VmContextAssumption
  <1>2. AllValid
    BY <1>1 DEF FiberInv, ClosedIsQuiet, Running
  <1>3. "running" \notin IoSites
    BY DEF IoSites
  <1>4. Ledger(running, at, strand, InIo, IoSites)
    BY <1>2 DEF FiberInv, OwedOnce, Engine
  <1>5. at[f] = "running" /\ f \notin InIo
    BY <1>3, <1>4, LedgerRunning DEF Running
  <1> QED
    BY <1>1, <1>2, <1>5 DEF InIo

\* One VM: it is valid or no VM is.
LEMMA OneVm ==
    ASSUME NEW f \in Fiber
    PROVE  VmOf[f] \in Vm /\ (valid[VmOf[f]] <=> AllValid)
  BY VmContextAssumption, IoAssumption DEF AllValid

\* Operations that advance stay sound and on objects of their own.
LEMMA AdvanceOps ==
    ASSUME FiberInv, OpsAdvance, UNCHANGED kind
    PROVE  InIo' = InIo /\ OpsAreSound' /\ Alone'
  <1>1. \A f \in Fiber : op'[f] = Nil <=> op[f] = Nil
    BY DEF OpsAdvance
  <1>2. InIo' = InIo
    BY <1>1 DEF InIo
  <1>3. ASSUME NEW f \in Fiber, op'[f] # Nil
        PROVE  OpIsSound(op[f]) /\ (op'[f] = op[f] \/ Advances(op[f], op'[f]))
    BY <1>1, <1>3 DEF OpsAdvance, FiberInv, OpsAreSound
  <1>4. ASSUME NEW f \in Fiber, op'[f] # Nil, Advances(op[f], op'[f])
        PROVE  OpIsSound(op[f])'
    BY <1>3, <1>4 DEF OpIsSound, Advances, Rewaiting, PeerType, TlsIo, TlsStep, TlsWait
  <1>5. OpsAreSound'
    <2>1. ASSUME NEW f \in Fiber, op'[f] # Nil, op'[f] = op[f] PROVE OpIsSound(op[f])'
      BY <1>3, <2>1 DEF OpIsSound
    <2> QED
      BY <1>3, <1>4, <2>1 DEF OpsAreSound
  <1>6. ASSUME NEW f \in Fiber, NEW g \in Fiber, op'[f] # Nil, op'[g] # Nil,
               op'[f].obj = op'[g].obj, op'[f].io \in {"sleep", "child"}
        PROVE  f = g
    <2>1. op[f].io = op'[f].io /\ op[f].obj = op'[f].obj
      BY <1>3, <1>6 DEF Advances, OpIsSound, TlsIo, TlsStep, TlsWait
    <2>2. op[g].obj = op'[g].obj
      BY <1>3, <1>6, <2>1 DEF Advances, OpIsSound
    <2> QED
      BY <1>1, <1>6, <2>1, <2>2 DEF FiberInv, Alone
  <1> QED
    BY <1>2, <1>5, <1>6 DEF Alone

\* A step that only returns, while operations advance.
LEMMA FiberStill ==
    ASSUME FiberInv, StillCore, OpsAdvance, NoneAborted
    PROVE  FiberInv'
  <1>1. InIo' = InIo /\ OpsAreSound' /\ Alone'
    BY AdvanceOps DEF StillCore
  <1>2. UNCHANGED <<strand, running, valid, at, interruptionDisabled, suspensionDisallowed,
                    interrupted, interrupter>>
    BY DEF StillCore, coreVars, fiberData
  <1>3. /\ ret' \in [Fiber -> Results]
        /\ ~AllValid => UNCHANGED ret
    <2>1. ret \in [Fiber -> Results]
      BY DEF FiberInv, CoreOK, CoreTypeOK
    <2> QED
      BY <2>1, Caller DEF StillCore
  <1>4. CoreOK'
    BY <1>2, <1>3 DEF FiberInv, CoreOK, CoreTypeOK, OpsAdvance, IsMain
  <1>5. AllValid' = AllValid
    BY <1>2 DEF AllValid
  <1>6. OwedOnce' /\ ClosedIsQuiet'
    BY <1>1, <1>2, <1>3, <1>5 DEF FiberInv, OwedOnce, ClosedIsQuiet
  <1>7. ASSUME NEW f \in Fiber
        PROVE  \/ op'[f] = op[f]
               \/ /\ op[f] # Nil /\ op'[f] # Nil
                  /\ op'[f].io = op[f].io \/ op'[f].io \in TlsIo
                  /\ op'[f].slot => op[f].slot
                  /\ op[f].ec # Nil /\ op[f].io \notin Rewaiting => op'[f].ec # Nil
    BY DEF OpsAdvance, Advances, Operation
  <1>8. AbortedByInterruption'
    BY <1>2, <1>5, <1>7 DEF FiberInv, AbortedByInterruption, NoneAborted, TlsIo, TlsStep, TlsWait
  <1>9. Armed'
    <2> SUFFICES ASSUME AllValid', NEW f \in Fiber
                 PROVE  /\ interrupter'[f] \in {"object", "resolver"} => op'[f] # Nil /\ ~Disabled(f)'
                        /\ interrupter'[f] = "resolver" => op'[f].io = "resolve"
                        /\ op'[f] # Nil /\ op'[f].slot /\ ~interrupted'[f]
                           /\ op'[f].io \notin Rewaiting \cup {"resolve"}
                             => interrupter'[f] \in {"emit", "object"}
      BY DEF Armed
    <2>2. CASE op'[f].io \in TlsIo /\ op'[f] # op[f]
      <3>1. op[f] # Nil /\ op'[f] # Nil /\ op'[f].io \in Rewaiting
        BY <1>7, <2>2 DEF Rewaiting
      <3>2. interrupter[f] # "resolver"
        <4> SUFFICES ASSUME interrupter[f] = "resolver" PROVE FALSE
          OBVIOUS
        <4>1. op[f].io = "resolve"
          BY <1>5 DEF FiberInv, Armed
        <4>2. op'[f].io = "resolve"
          BY <2>2, <3>1, <4>1 DEF OpsAdvance, Advances, TlsIo, TlsStep, TlsWait
        <4> QED
          BY <2>2, <4>2 DEF TlsIo, TlsStep, TlsWait
      <3> QED
        BY <1>2, <1>5, <3>1, <3>2 DEF FiberInv, Armed, Disabled
    <2>3. CASE op'[f].io \notin TlsIo \/ op'[f] = op[f]
      BY <1>2, <1>5, <1>7, <2>3 DEF FiberInv, Armed, Disabled
    <2> QED
      BY <2>2, <2>3
  <1>10. InterruptionReachesIo'
    BY <1>2, <1>7 DEF FiberInv, InterruptionReachesIo, Rewaiting
  <1> QED
    BY <1>1, <1>4, <1>6, <1>8, <1>9, <1>10 DEF FiberInv

\* A fiber that waits is resumed by the handler of its operation.
LEMMA EngineWake ==
    ASSUME NEW run, NEW place, NEW str, NEW W, NEW S, NEW R, Engine(run, place, str, W, S, R),
           Sites(S), NEW f \in Fiber, f \in W, run[VmOf[f]] = Nil
    PROVE  Engine([run EXCEPT ![VmOf[f]] = f], [place EXCEPT ![f] = "running"], str, W \ {f}, S, R)
  <1>1. VmOf[f] \in Vm /\ (\A g \in Fiber : VmOf[g] \in Vm) /\ Nil \notin Fiber
    BY VmContextAssumption
  <1>2. /\ run \in [Vm -> Fiber \cup {Nil}] /\ place \in [Fiber -> S \cup Gone \cup {"running"}]
        /\ "running" \notin S /\ Ledger(run, place, str, W, S)
    BY DEF Engine, Sites
  <1>3. f \notin Resumed(str[VmOf[f]])
    BY <1>2 DEF Ledger
  <1>4. Ledger([run EXCEPT ![VmOf[f]] = f], [place EXCEPT ![f] = "running"], str, W \ {f}, S)
    BY <1>1, <1>2, <1>3 DEF Ledger
  <1> QED
    BY <1>1, <1>2, <1>4 DEF Engine

\* The sites and the results of I/O are as the lemmas of VmContext_proofs ask.
LEMMA IoEngine == Sites(IoSites) /\ Answers(Results)
  BY DEF Sites, Answers, IoSites, Results, Gone

\* cancel() and the like: those that are pending end.
LEMMA AbortAdvances ==
    ASSUME FiberInv, NEW fs, op' = Aborted(fs)
    PROVE  /\ OpsAdvance
           /\ \A f \in Fiber : op'[f] # op[f] => f \in fs /\ op[f] # Nil
           /\ \A f \in fs : f \in Fiber /\ op[f] # Nil => op'[f].ec # Nil
           /\ \A f \in Fiber : op[f] # Nil => /\ op'[f].obj = op[f].obj /\ op'[f].io = op[f].io
                                             /\ op'[f].lock = op[f].lock /\ op'[f].peer = op[f].peer
  <1>1. op \in [Fiber -> Operation \cup {Nil}] /\ Nil \notin Operation
    BY IoSystemAssumption DEF FiberInv, CoreOK
  <1>2. ASSUME NEW r \in Operation
        PROVE  LET s == [r EXCEPT !.ec = "operation_aborted"] IN
               /\ s \in Operation /\ s.io = r.io /\ s.lock = r.lock /\ s.obj = r.obj
               /\ s.slot = r.slot /\ s.peer = r.peer /\ s.ec = "operation_aborted"
    BY DEF Operation
  <1>3. ASSUME NEW f \in Fiber
        PROVE  /\ op'[f] \in Operation \cup {Nil}
               /\ \/ op'[f] = op[f]
                  \/ op[f] # Nil /\ op'[f] # Nil /\ Advances(op[f], op'[f])
               /\ op'[f] # op[f] => f \in fs /\ op[f] # Nil
               /\ f \in fs /\ op[f] # Nil => op'[f].ec # Nil
               /\ op[f] # Nil => /\ op'[f].obj = op[f].obj /\ op'[f].io = op[f].io
                                 /\ op'[f].lock = op[f].lock /\ op'[f].peer = op[f].peer
    <2>1. CASE f \in fs /\ Pending(f)
      <3>1. op'[f] = [op[f] EXCEPT !.ec = "operation_aborted"] /\ op[f] \in Operation /\ op[f].ec = Nil
        BY <1>1, <2>1 DEF Aborted, Pending
      <3>2. "operation_aborted" # Nil
        BY IoAssumption
      <3> QED
        BY <1>1, <1>2, <2>1, <3>1, <3>2 DEF Advances
    <2>2. CASE ~(f \in fs /\ Pending(f))
      BY <1>1, <2>2 DEF Aborted, Pending
    <2> QED
      BY <2>1, <2>2
  <1>4. op' \in [Fiber -> Operation \cup {Nil}]
    <2>1. op' = [f \in Fiber |-> op'[f]]
      BY DEF Aborted
    <2> QED
      BY <1>3, <2>1
  <1> QED
    BY <1>3, <1>4 DEF OpsAdvance

\* A call that ends what waits on an ordinary object.
LEMMA FiberAborts ==
    ASSUME FiberInv, StillCore, NEW o \in Obj, op' = Aborted(OpsOn(o)),
           kind[o] \notin {"sleep_for_operation", "subprocess"}
    PROVE  FiberInv'
  <1>1. OpsAdvance /\ \A f \in Fiber : op'[f] # op[f] => op[f] # Nil /\ op[f].obj = o
    BY AbortAdvances DEF OpsOn
  <1>2. NoneAborted
    <2> SUFFICES ASSUME NEW f \in Fiber, op'[f] # Nil, op'[f].io \in {"sleep", "child"},
                        op'[f].ec = "operation_aborted", op'[f] # op[f]
                 PROVE  FALSE
      BY DEF NoneAborted
    <2>1. op[f] # Nil /\ op[f].obj = o /\ op'[f].io = op[f].io
      BY <1>1 DEF OpsAdvance, Advances, TlsIo, TlsStep, TlsWait
    <2> QED
      BY <2>1 DEF FiberInv, OpsAreSound, OpIsSound
  <1> QED
    BY <1>1, <1>2, FiberStill

\* One operation advances.
LEMMA OneAdvances ==
    ASSUME FiberInv, NEW f \in Fiber, op[f] # Nil, NEW s \in Operation, Advances(op[f], s),
           op' = [op EXCEPT ![f] = s],
           s.ec = "operation_aborted" /\ op[f].io \in {"sleep", "child"}
              => op[f].ec = "operation_aborted"
    PROVE  OpsAdvance /\ NoneAborted
  <1>1. op \in [Fiber -> Operation \cup {Nil}] /\ s # Nil
    BY IoSystemAssumption DEF FiberInv, CoreOK
  <1>2. OpsAdvance
    BY <1>1 DEF OpsAdvance
  <1> QED
    BY <1>1, <1>2 DEF NoneAborted, Advances, TlsIo, TlsStep, TlsWait

\* What the kernel does.
LEMMA FiberKernel ==
    ASSUME FiberInv, NEW f \in Fiber, Kernel(f)
    PROVE  FiberInv' /\ OpsAdvance
  <1>1. StillCore
    BY DEF Kernel, KernelCompletes, KernelAccepts, ChildReadable, StillCore, objVars, names
  <1>2. op \in [Fiber -> Operation \cup {Nil}] /\ op[f] # Nil /\ op[f].ec = Nil
    BY DEF FiberInv, CoreOK, Kernel, KernelCompletes, KernelAccepts, ChildReadable, Pending
  <1>3. op[f] \in Operation /\ Nil \notin {"none", "error"}
    BY <1>2, IoAssumption
  <1>4. ASSUME NEW e \in {"none", "error"}, op' = [op EXCEPT ![f].ec = e]
        PROVE  OpsAdvance /\ NoneAborted
    <2>1. op' = [op EXCEPT ![f] = [op[f] EXCEPT !.ec = e]]
      BY <1>4
    <2> DEFINE s == [op[f] EXCEPT !.ec = e]
    <2>2. s \in Operation /\ Advances(op[f], s) /\ s.ec # "operation_aborted"
      BY <1>2, <1>3 DEF Advances, Operation
    <2> HIDE DEF s
    <2> QED
      BY <1>2, <2>1, <2>2, OneAdvances DEF s
  <1>5. ASSUME KernelCompletes(f) PROVE OpsAdvance /\ NoneAborted
    BY <1>4, <1>5 DEF KernelCompletes
  <1>6. ASSUME ChildReadable(f) PROVE OpsAdvance /\ NoneAborted
    BY <1>4, <1>6 DEF ChildReadable
  <1>7. ASSUME KernelAccepts(f) PROVE OpsAdvance /\ NoneAborted
    <2>1. ASSUME NEW d \in Fd, op' = [op EXCEPT ![f].ec = "none", ![f].peer = d], op[f].io = "accept"
          PROVE  OpsAdvance /\ NoneAborted
      <3> DEFINE s == [op[f] EXCEPT !.ec = "none", !.peer = d]
      <3>1. op' = [op EXCEPT ![f] = s]
        BY <1>2, <2>1
      <3>2. s \in Operation /\ Advances(op[f], s) /\ s.ec # "operation_aborted"
        BY <1>2, <1>3, <2>1 DEF Advances, Operation
      <3> HIDE DEF s
      <3> QED
        BY <1>2, <3>1, <3>2, OneAdvances
    <2> QED
      BY <1>4, <1>7, <2>1 DEF KernelAccepts, Lowest
  <1>8. OpsAdvance /\ NoneAborted
    BY <1>5, <1>6, <1>7 DEF Kernel
  <1> QED
    BY <1>1, <1>8, FiberStill

\* A wait for a socket starts again.
LEMMA FiberDoWait ==
    ASSUME FiberInv, NEW f \in Fiber, op[f] # Nil, op[f].io \in Rewaiting, DoWait(f)
    PROVE  FiberInv' /\ OpsAdvance
  <1>1. StillCore
    BY DEF DoWait, StillCore, objVars, names
  <1>2. op \in [Fiber -> Operation \cup {Nil}] /\ op[f] \in Operation
    BY DEF FiberInv, CoreOK
  <1> DEFINE s == [op[f] EXCEPT !.ec = IF native[op[f].obj] = Nil THEN "error" ELSE Nil]
  <1>3. op' = [op EXCEPT ![f] = s]
    BY DEF DoWait
  <1>4. s \in Operation /\ Advances(op[f], s) /\ op[f].io \notin {"sleep", "child"}
    <2>1. op[f].peer = Nil
      BY DEF FiberInv, OpsAreSound, OpIsSound, Rewaiting, TlsIo, TlsStep, TlsWait
    <2> QED
      BY <1>2, <2>1 DEF Advances, Operation, Rewaiting, TlsIo, TlsStep, TlsWait
  <1> HIDE DEF s
  <1>5. OpsAdvance /\ NoneAborted
    BY <1>3, <1>4, OneAdvances
  <1> QED
    BY <1>1, <1>5, FiberStill

\* What an operation may be started as.
Legal(o, io, closure) ==
    /\ io \in Ios /\ closure \in {"emit", "object", "resolver"}
    /\ io = "sleep" <=> kind[o] = "sleep_for_operation"
    /\ io = "child" <=> kind[o] = "subprocess"
    /\ io = "resolve" <=> kind[o] \in {"tcp_resolver", "udp_resolver"}
    /\ io = "accept" => kind[o] \in DOMAIN PeerType
    /\ io \in TlsIo => kind[o] = "tls_socket"
    /\ closure = "resolver" <=> io = "resolve"
    /\ io \in {"sleep", "child"} => OpsOn(o) = {}
    /\ kind[o] \in Counted => live[o]

\* The current fiber suspends on an operation.
LEMMA FiberInitiates ==
    ASSUME FiberInv, NEW f \in Fiber, NEW o \in Obj, NEW io, NEW closure, NEW lock, NEW ec,
           Running(f), CanSuspend(f), Legal(o, io, closure),
           lock \in SUBSET (Handle \X Fd), lock # {} => io = "send_with_fds",
           ec \in {Nil, "error", "none"}, Initiate(f, o, io, closure, lock, ec)
    PROVE  FiberInv'
  <1> DEFINE r == [obj |-> o, io |-> io, slot |-> ~Disabled(f), ec |-> ec, peer |-> Nil, lock |-> lock]
  <1>1. AllValid /\ op[f] = Nil /\ at[f] = "running" /\ VmOf[f] \in Vm /\ Nil \notin Fiber
    BY Caller, VmContextAssumption
  <1>2. /\ r \in Operation /\ r # Nil /\ r.obj = o /\ r.io = io /\ r.slot = ~Disabled(f)
        /\ r.ec = ec /\ r.peer = Nil /\ r.lock = lock
    <2>1. r \in Operation
      BY DEF Operation, Legal, Disabled
    <2> QED
      BY <2>1, IoSystemAssumption
  <1>3. /\ op' = [op EXCEPT ![f] = r] /\ interrupter' = SetInterrupter(f, closure)
        /\ running' = [running EXCEPT ![VmOf[f]] = Nil] /\ at' = [at EXCEPT ![f] = "io"]
        /\ ret' = [ret EXCEPT ![f] = "none"]
        /\ UNCHANGED <<strand, valid, interruptionDisabled, suspensionDisallowed, interrupted, kind>>
    BY DEF Initiate, Suspend, counters, names
  <1> HIDE DEF r
  <1>4. /\ op \in [Fiber -> Operation \cup {Nil}]
        /\ interrupter \in [Fiber -> {"emit", "object", "resolver"} \cup {Nil}]
        /\ running \in [Vm -> Fiber \cup {Nil}] /\ at \in [Fiber -> IoSites \cup Gone \cup {"running"}]
        /\ ret \in [Fiber -> Results]
    BY DEF FiberInv, CoreOK, CoreTypeOK
  <1>5. \A g \in Fiber : op'[g] = IF g = f THEN r ELSE op[g]
    BY <1>3, <1>4
  <1>6. /\ interrupter' \in [Fiber -> {"emit", "object", "resolver"} \cup {Nil}]
        /\ \A g \in Fiber : g # f => interrupter'[g] = interrupter[g]
        /\ interrupter'[f] = IF Disabled(f) THEN interrupter[f] ELSE closure
    BY <1>3, <1>4 DEF SetInterrupter, Legal
  <1>7. CoreOK'
    <2>1. op' \in [Fiber -> Operation \cup {Nil}]
      BY <1>2, <1>3, <1>4
    <2>2. /\ running' \in [Vm -> Fiber \cup {Nil}] /\ ret' \in [Fiber -> Results]
          /\ at' \in [Fiber -> IoSites \cup Gone \cup {"running"}]
      BY <1>3, <1>4 DEF IoSites, Results
    <2> QED
      BY <1>3, <1>6, <2>1, <2>2 DEF FiberInv, CoreOK, CoreTypeOK, IsMain
  <1>8. AllValid' /\ OwedOnce'
    <2>1. Engine(running, at, strand, InIo, IoSites, Results)
      BY <1>1 DEF FiberInv, OwedOnce
    <2>2. InIo' = InIo \cup {f}
      BY <1>2, <1>5 DEF InIo
    <2>3. running[VmOf[f]] = f /\ "io" \in IoSites
      BY DEF Running, IoSites
    <2>4. Engine([running EXCEPT ![VmOf[f]] = Nil], [at EXCEPT ![f] = "io"], strand,
                 InIo \cup {f}, IoSites, Results)
      BY <2>1, <2>3, EngineSuspend, IoEngine
    <2> QED
      BY <1>1, <1>3, <2>2, <2>4 DEF OwedOnce, AllValid
  <1>9. OpsAreSound'
    <2>1. OpIsSound(op[f])'
      BY <1>2, <1>3, <1>5 DEF OpIsSound, Legal
    <2>2. ASSUME NEW g \in Fiber, g # f, op[g] # Nil PROVE OpIsSound(op[g])'
      BY <1>3, <1>5, <2>2 DEF FiberInv, OpsAreSound, OpIsSound
    <2> QED
      BY <1>5, <2>1, <2>2 DEF OpsAreSound
  <1>10. Alone'
    <2>1. ASSUME NEW g \in Fiber, g # f, op[g] # Nil, op[g].obj = o
          PROVE  op[g].io \notin {"sleep", "child"} /\ io \notin {"sleep", "child"}
      <3>1. g \in OpsOn(o)
        BY <2>1 DEF OpsOn
      <3>2. io \notin {"sleep", "child"}
        BY <3>1 DEF Legal
      <3> QED
        BY <2>1, <3>2 DEF FiberInv, OpsAreSound, OpIsSound, Legal
    <2> QED
      BY <1>2, <1>5, <2>1 DEF FiberInv, Alone
  <1>11. AbortedByInterruption'
    <2>1. ec # "operation_aborted"
      BY IoAssumption
    <2> QED
      BY <1>1, <1>2, <1>3, <1>5, <2>1 DEF FiberInv, AbortedByInterruption
  <1>12. Armed'
    <2> SUFFICES ASSUME NEW g \in Fiber
                 PROVE  /\ interrupter'[g] \in {"object", "resolver"} => op'[g] # Nil /\ ~Disabled(g)'
                        /\ interrupter'[g] = "resolver" => op'[g].io = "resolve"
                        /\ op'[g] # Nil /\ op'[g].slot /\ ~interrupted'[g]
                           /\ op'[g].io \notin Rewaiting \cup {"resolve"}
                             => interrupter'[g] \in {"emit", "object"}
      BY DEF Armed
    <2>1. CASE g = f
      <3>1. interrupter[f] \notin {"object", "resolver"}
        BY <1>1 DEF FiberInv, Armed
      <3>2. op'[f] = r /\ r # Nil /\ r.io = io /\ (r.slot <=> ~Disabled(f))
        BY <1>2, <1>5
      <3>3. Disabled(f)' = Disabled(f)
        BY <1>3 DEF Disabled
      <3>4. CASE Disabled(f)
        BY <1>6, <2>1, <3>1, <3>2, <3>4
      <3>5. CASE ~Disabled(f)
        BY <1>6, <2>1, <3>2, <3>3, <3>5 DEF Legal
      <3> QED
        BY <3>4, <3>5
    <2>2. CASE g # f
      BY <1>1, <1>3, <1>5, <1>6, <2>2 DEF FiberInv, Armed, Disabled
    <2> QED
      BY <2>1, <2>2
  <1>13. InterruptionReachesIo'
    BY ZenonT(60), <1>2, <1>3, <1>5 DEF FiberInv, InterruptionReachesIo, CanSuspend
  <1> QED
    BY <1>7, <1>8, <1>9, <1>10, <1>11, <1>12, <1>13 DEF FiberInv, ClosedIsQuiet

\* An operation is over; nothing else changes.
LEMMA EndedOps ==
    ASSUME FiberInv, NEW f \in Fiber, op[f] # Nil, op' = [op EXCEPT ![f] = Nil], UNCHANGED kind
    PROVE  /\ op' \in [Fiber -> Operation \cup {Nil}]
           /\ \A g \in Fiber : op'[g] = IF g = f THEN Nil ELSE op[g]
           /\ InIo' = InIo \ {f} /\ OpsAreSound' /\ Alone'
  <1>1. op \in [Fiber -> Operation \cup {Nil}]
    BY DEF FiberInv, CoreOK
  <1>2. \A g \in Fiber : op'[g] = IF g = f THEN Nil ELSE op[g]
    BY <1>1
  <1>3. OpsAreSound'
    BY <1>2 DEF FiberInv, OpsAreSound, OpIsSound
  <1>4. Alone'
    BY <1>2 DEF FiberInv, Alone
  <1> QED
    BY <1>1, <1>2, <1>3, <1>4 DEF InIo

\* The handler of an operation resumes its fiber.
LEMMA FiberWakes ==
    ASSUME FiberInv, NEW f \in Fiber, Completed(f), valid[VmOf[f]],
           NEW ec \in {"none", "error", "operation_aborted"}, ResumeWith(f, ec), UNCHANGED kind
    PROVE  FiberInv'
  <1>1. AllValid /\ VmOf[f] \in Vm /\ op[f] # Nil /\ running[VmOf[f]] = Nil
    BY OneVm DEF Completed
  <1>2. /\ op' = [op EXCEPT ![f] = Nil] /\ interrupter' = ClearedInterrupter(f, TRUE)
        /\ running' = [running EXCEPT ![VmOf[f]] = f] /\ at' = [at EXCEPT ![f] = "running"]
        /\ ret' = [ret EXCEPT ![f] = Detect(f, ec)]
        /\ UNCHANGED <<strand, valid, interruptionDisabled, suspensionDisallowed, interrupted>>
    BY DEF ResumeWith, FiberResume, counters
  <1>3. /\ op' \in [Fiber -> Operation \cup {Nil}]
        /\ \A g \in Fiber : op'[g] = IF g = f THEN Nil ELSE op[g]
        /\ InIo' = InIo \ {f} /\ OpsAreSound' /\ Alone'
    BY <1>1, <1>2, EndedOps
  <1>4. Detect(f, ec) \in Results
    BY DEF Detect, Results
  <1>5. /\ interrupter \in [Fiber -> {"emit", "object", "resolver"} \cup {Nil}]
        /\ running \in [Vm -> Fiber \cup {Nil}] /\ at \in [Fiber -> IoSites \cup Gone \cup {"running"}]
        /\ ret \in [Fiber -> Results]
    BY DEF FiberInv, CoreOK, CoreTypeOK
  <1>6. /\ interrupter' \in [Fiber -> {"emit", "object", "resolver"} \cup {Nil}]
        /\ \A g \in Fiber : g # f => interrupter'[g] = interrupter[g]
        /\ interrupter'[f] = IF Disabled(f) THEN interrupter[f] ELSE Nil
    BY <1>2, <1>5 DEF ClearedInterrupter, SetInterrupter
  <1>7. CoreOK'
    <2>1. /\ running' \in [Vm -> Fiber \cup {Nil}] /\ ret' \in [Fiber -> Results]
          /\ at' \in [Fiber -> IoSites \cup Gone \cup {"running"}]
      BY <1>1, <1>2, <1>4, <1>5
    <2> QED
      BY <1>2, <1>3, <1>6, <2>1 DEF FiberInv, CoreOK, CoreTypeOK, IsMain
  <1>8. AllValid' /\ OwedOnce'
    <2>1. Engine(running, at, strand, InIo, IoSites, Results) /\ f \in InIo
      BY <1>1 DEF FiberInv, OwedOnce, InIo
    <2>2. Engine([running EXCEPT ![VmOf[f]] = f], [at EXCEPT ![f] = "running"], strand,
                 InIo \ {f}, IoSites, Results)
      BY <1>1, <2>1, EngineWake, IoEngine
    <2> QED
      BY <1>1, <1>2, <1>3, <2>2 DEF OwedOnce, AllValid
  <1>9. AbortedByInterruption'
    BY <1>1, <1>2, <1>3 DEF FiberInv, AbortedByInterruption
  <1>10. Armed'
    <2> SUFFICES ASSUME NEW g \in Fiber
                 PROVE  /\ interrupter'[g] \in {"object", "resolver"} => op'[g] # Nil /\ ~Disabled(g)'
                        /\ interrupter'[g] = "resolver" => op'[g].io = "resolve"
                        /\ op'[g] # Nil /\ op'[g].slot /\ ~interrupted'[g]
                           /\ op'[g].io \notin Rewaiting \cup {"resolve"}
                             => interrupter'[g] \in {"emit", "object"}
      BY DEF Armed
    <2>1. CASE g = f
      <3>1. interrupter'[f] \notin {"object", "resolver"}
        BY <1>1, <1>6, IoAssumption DEF FiberInv, Armed
      <3> QED
        BY <1>3, <2>1, <3>1
    <2>2. CASE g # f
      BY ZenonT(60), <1>1, <1>2, <1>3, <1>6, <2>2 DEF FiberInv, Armed, Disabled
    <2> QED
      BY <2>1, <2>2
  <1>11. InterruptionReachesIo'
    BY <1>2, <1>3 DEF FiberInv, InterruptionReachesIo
  <1> QED
    BY <1>3, <1>7, <1>8, <1>9, <1>10, <1>11 DEF FiberInv, ClosedIsQuiet

\* The handler of an operation finds its VM closed.
LEMMA FiberDropped ==
    ASSUME FiberInv, NEW f \in Fiber, Completed(f), ~valid[VmOf[f]], Dropped(f), UNCHANGED kind
    PROVE  FiberInv'
  <1>1. ~AllValid /\ op[f] # Nil
    BY OneVm DEF Completed
  <1>2. /\ op' = [op EXCEPT ![f] = Nil]
        /\ UNCHANGED <<strand, running, valid, at, interruptionDisabled, suspensionDisallowed,
                       interrupted, interrupter, ret>>
    BY DEF Dropped, coreVars, fiberData
  <1>3. /\ op' \in [Fiber -> Operation \cup {Nil}]
        /\ \A g \in Fiber : op'[g] = IF g = f THEN Nil ELSE op[g]
        /\ InIo' = InIo \ {f} /\ OpsAreSound' /\ Alone'
    BY <1>1, <1>2, EndedOps
  <1>4. AllValid' = AllValid
    BY <1>2 DEF AllValid
  <1>5. CoreOK'
    BY <1>2, <1>3 DEF FiberInv, CoreOK, CoreTypeOK, IsMain
  <1>6. ClosedIsQuiet'
    BY <1>2, <1>4 DEF FiberInv, ClosedIsQuiet
  <1>7. InterruptionReachesIo'
    BY <1>2, <1>3 DEF FiberInv, InterruptionReachesIo
  <1> QED
    BY <1>1, <1>3, <1>4, <1>5, <1>6, <1>7 DEF FiberInv, OwedOnce, AbortedByInterruption, Armed

\* What a handler of a TLS socket's operation does to the operations that wait for
\* its direction: their waits end, and nothing else.
LEMMA ReleasedOps ==
    ASSUME FiberInv, NEW f \in Fiber, op[f] # Nil
    PROVE  /\ Released(f) \in [Fiber -> Operation \cup {Nil}]
           /\ \A g \in Fiber :
                 \/ Released(f)[g] = op[g]
                 \/ /\ op[g] # Nil /\ Released(f)[g] # Nil /\ op[g].io \in TlsWait
                    /\ Advances(op[g], Released(f)[g])
                    /\ Released(f)[g].obj = op[g].obj /\ Released(f)[g].io = op[g].io
                    /\ Released(f)[g].slot = op[g].slot /\ Released(f)[g].ec = "none"
                    /\ Released(f)[g].peer = op[g].peer /\ Released(f)[g].lock = op[g].lock
  <1>1. op \in [Fiber -> Operation \cup {Nil}] /\ Nil \notin Operation
    BY IoSystemAssumption DEF FiberInv, CoreOK
  <1>2. ASSUME NEW r \in Operation
        PROVE  LET s == [r EXCEPT !.ec = "none"] IN
               /\ s \in Operation /\ s.io = r.io /\ s.lock = r.lock /\ s.obj = r.obj
               /\ s.slot = r.slot /\ s.peer = r.peer /\ s.ec = "none"
    BY DEF Operation
  <1>3. Timer(op[f].io) \in TlsWait \cup {"none"}
    BY DEF Timer, TlsWait
  <1>4. ASSUME NEW g \in Fiber
        PROVE  /\ Released(f)[g] \in Operation \cup {Nil}
               /\ \/ Released(f)[g] = op[g]
                  \/ /\ op[g] # Nil /\ Released(f)[g] # Nil /\ op[g].io \in TlsWait
                     /\ Advances(op[g], Released(f)[g])
                     /\ Released(f)[g].obj = op[g].obj /\ Released(f)[g].io = op[g].io
                     /\ Released(f)[g].slot = op[g].slot /\ Released(f)[g].ec = "none"
                     /\ Released(f)[g].peer = op[g].peer /\ Released(f)[g].lock = op[g].lock
    <2>1. CASE g \in OpsOn(op[f].obj) /\ Pending(g) /\ op[g].io = Timer(op[f].io)
      <3>1. Released(f)[g] = [op[g] EXCEPT !.ec = "none"] /\ op[g] \in Operation /\ op[g].ec = Nil
        BY <1>1, <2>1 DEF Released, Pending
      <3>2. op[g].io \in TlsWait
        BY <1>3, <2>1, <3>1 DEF Operation, Ios, Plain, TlsIo, TlsStep, TlsWait
      <3> QED
        BY <1>1, <1>2, <3>1, <3>2 DEF Advances
    <2>2. CASE ~(g \in OpsOn(op[f].obj) /\ Pending(g) /\ op[g].io = Timer(op[f].io))
      BY <1>1, <2>2 DEF Released
    <2> QED
      BY <2>1, <2>2
  <1>5. Released(f) = [g \in Fiber |-> Released(f)[g]]
    BY DEF Released
  <1> QED
    BY <1>4, <1>5

\* A TLS socket's operation goes on.
LEMMA FiberAgain ==
    ASSUME FiberInv, NEW f \in Fiber, op[f] # Nil, op[f].io \in TlsIo, UNCHANGED kind,
           NEW io \in TlsIo, NEW ec \in {Nil, "none", "error"}, Again(f, <<io, ec>>)
    PROVE  FiberInv' /\ OpsAdvance
  <1>1. StillCore
    BY DEF Again, StillCore
  <1>2. op \in [Fiber -> Operation \cup {Nil}] /\ op[f] \in Operation /\ Nil \notin Operation
    BY IoSystemAssumption DEF FiberInv, CoreOK
  <1> DEFINE s == [op[f] EXCEPT !.io = io, !.ec = ec]
  <1>3. op' = [Released(f) EXCEPT ![f] = s]
    BY DEF Again
  <1>4. s \in Operation /\ Advances(op[f], s) /\ s.io \in TlsIo
    BY <1>2 DEF Advances, Operation, Rewaiting, Ios
  <1> HIDE DEF s
  <1>5. OpsAdvance
    BY <1>2, <1>3, <1>4, ReleasedOps DEF OpsAdvance
  <1>6. NoneAborted
    <2> SUFFICES ASSUME NEW g \in Fiber, op'[g] # Nil, op'[g].io \in {"sleep", "child"}
                 PROVE  op'[g] = op[g]
      BY DEF NoneAborted
    <2>1. g # f
      BY <1>3, <1>4, ReleasedOps DEF TlsIo, TlsStep, TlsWait
    <2> QED
      BY <1>3, <2>1, ReleasedOps DEF TlsWait
  <1> QED
    BY <1>1, <1>5, <1>6, FiberStill

\* A TLS socket's operation is over and its fiber resumes.
LEMMA FiberOver ==
    ASSUME FiberInv, NEW f \in Fiber, Completed(f), valid[VmOf[f]],
           NEW ec \in {"none", "error", "operation_aborted"}, Over(f, ec), UNCHANGED kind
    PROVE  /\ FiberInv' /\ op'[f] = Nil
           /\ \A g \in Fiber : g # f =>
                 /\ op'[g] = Nil <=> op[g] = Nil
                 /\ op[g] # Nil => /\ op'[g].obj = op[g].obj
                                   /\ op'[g].peer = op[g].peer /\ op'[g].lock = op[g].lock
  <1>1. AllValid /\ VmOf[f] \in Vm /\ op[f] # Nil /\ running[VmOf[f]] = Nil
    BY OneVm DEF Completed
  <1>2. /\ op' = [Released(f) EXCEPT ![f] = Nil] /\ interrupter' = ClearedInterrupter(f, TRUE)
        /\ running' = [running EXCEPT ![VmOf[f]] = f] /\ at' = [at EXCEPT ![f] = "running"]
        /\ ret' = [ret EXCEPT ![f] = Detect(f, ec)]
        /\ UNCHANGED <<strand, valid, interruptionDisabled, suspensionDisallowed, interrupted>>
    BY DEF Over, FiberResume, counters
  <1>3. /\ op' \in [Fiber -> Operation \cup {Nil}] /\ op'[f] = Nil
        /\ \A g \in Fiber \ {f} :
              \/ op'[g] = op[g]
              \/ /\ op[g] # Nil /\ op'[g] # Nil /\ op'[g].io \in TlsIo
                 /\ op'[g].obj = op[g].obj /\ op'[g].io = op[g].io
                 /\ op'[g].slot = op[g].slot /\ op'[g].ec = "none"
                 /\ op'[g].peer = op[g].peer /\ op'[g].lock = op[g].lock
    <2>1. op' = [g \in Fiber |-> IF g = f THEN Nil ELSE Released(f)[g]]
      BY <1>1, <1>2, ReleasedOps
    <2> QED
      BY <1>1, <2>1, ReleasedOps DEF TlsIo
  <1>4. InIo' = InIo \ {f}
    BY <1>3 DEF InIo
  <1>5. OpsAreSound'
    <2> SUFFICES ASSUME NEW g \in Fiber, op'[g] # Nil PROVE OpIsSound(op[g])'
      BY DEF OpsAreSound
    <2>1. g # f /\ op[g] # Nil /\ OpIsSound(op[g])
      BY <1>3 DEF FiberInv, OpsAreSound
    <2>2. CASE op'[g] = op[g]
      BY <2>1, <2>2 DEF OpIsSound
    <2>3. CASE op'[g] # op[g]
      <3>1. op[g].peer = Nil
        BY <1>3, <2>1, <2>3 DEF OpIsSound, TlsIo, TlsStep, TlsWait
      <3> QED
        BY <1>3, <2>1, <2>3, <3>1 DEF OpIsSound
    <2> QED
      BY <2>2, <2>3
  <1>6. Alone'
    BY <1>3 DEF FiberInv, Alone
  <1>7. Detect(f, ec) \in Results
    BY DEF Detect, Results
  <1>8. /\ interrupter \in [Fiber -> {"emit", "object", "resolver"} \cup {Nil}]
        /\ running \in [Vm -> Fiber \cup {Nil}] /\ at \in [Fiber -> IoSites \cup Gone \cup {"running"}]
        /\ ret \in [Fiber -> Results]
    BY DEF FiberInv, CoreOK, CoreTypeOK
  <1>9. /\ interrupter' \in [Fiber -> {"emit", "object", "resolver"} \cup {Nil}]
        /\ \A g \in Fiber : g # f => interrupter'[g] = interrupter[g]
        /\ interrupter'[f] = IF Disabled(f) THEN interrupter[f] ELSE Nil
    BY <1>2, <1>8 DEF ClearedInterrupter, SetInterrupter
  <1>10. CoreOK'
    <2>1. /\ running' \in [Vm -> Fiber \cup {Nil}] /\ ret' \in [Fiber -> Results]
          /\ at' \in [Fiber -> IoSites \cup Gone \cup {"running"}]
      BY <1>1, <1>2, <1>7, <1>8
    <2> QED
      BY <1>2, <1>3, <1>9, <2>1 DEF FiberInv, CoreOK, CoreTypeOK, IsMain
  <1>11. AllValid' /\ OwedOnce'
    <2>1. Engine(running, at, strand, InIo, IoSites, Results) /\ f \in InIo
      BY <1>1 DEF FiberInv, OwedOnce, InIo
    <2>2. Engine([running EXCEPT ![VmOf[f]] = f], [at EXCEPT ![f] = "running"], strand,
                 InIo \ {f}, IoSites, Results)
      BY <1>1, <2>1, EngineWake, IoEngine
    <2> QED
      BY <1>1, <1>2, <1>4, <2>2 DEF OwedOnce, AllValid
  <1>12. AbortedByInterruption'
    BY <1>1, <1>2, <1>3 DEF FiberInv, AbortedByInterruption
  <1>13. Armed'
    <2> SUFFICES ASSUME NEW g \in Fiber
                 PROVE  /\ interrupter'[g] \in {"object", "resolver"} => op'[g] # Nil /\ ~Disabled(g)'
                        /\ interrupter'[g] = "resolver" => op'[g].io = "resolve"
                        /\ op'[g] # Nil /\ op'[g].slot /\ ~interrupted'[g]
                           /\ op'[g].io \notin Rewaiting \cup {"resolve"}
                             => interrupter'[g] \in {"emit", "object"}
      BY DEF Armed
    <2>1. CASE g = f
      <3>1. interrupter'[f] \notin {"object", "resolver"}
        BY <1>1, <1>9, IoAssumption DEF FiberInv, Armed
      <3> QED
        BY <1>3, <2>1, <3>1
    <2>2. CASE g # f
      <3>1. (op'[g] = Nil <=> op[g] = Nil) /\ (op[g] # Nil => op'[g].io = op[g].io /\ op'[g].slot = op[g].slot)
        BY <1>3, <2>2
      <3>2. interrupter'[g] = interrupter[g] /\ interrupted'[g] = interrupted[g] /\ Disabled(g)' = Disabled(g)
        BY <1>2, <1>9, <2>2 DEF Disabled
      <3> QED
        BY <1>1, <3>1, <3>2 DEF FiberInv, Armed
    <2> QED
      BY <2>1, <2>2
  <1>14. InterruptionReachesIo'
    BY <1>2, <1>3 DEF FiberInv, InterruptionReachesIo
  <1>15. FiberInv'
    BY <1>5, <1>6, <1>10, <1>11, <1>12, <1>13, <1>14 DEF FiberInv, ClosedIsQuiet
  <1> QED
    BY <1>3, <1>15

\* fiber_interrupt(): whoever was free to give its operation up does.
LEMMA FiberInterrupts ==
    ASSUME FiberInv, NEW f \in Fiber, NEW g \in Fiber, Interrupt(f, g)
    PROVE  FiberInv'
  <1>1. AllValid /\ op[f] = Nil /\ Running(f)
    BY Caller DEF Interrupt
  <1>2. /\ interrupted' = [interrupted EXCEPT ![g] = TRUE]
        /\ ret' = [ret EXCEPT ![f] = "none"]
        /\ UNCHANGED <<strand, running, valid, at, interruptionDisabled, suspensionDisallowed, kind>>
    BY DEF Interrupt, Return, counters, objVars, names
  <1>3. /\ interrupted \in [Fiber -> BOOLEAN] /\ ret \in [Fiber -> Results]
        /\ interrupter \in [Fiber -> {"emit", "object", "resolver"} \cup {Nil}]
        /\ op \in [Fiber -> Operation \cup {Nil}]
    BY DEF FiberInv, CoreOK, CoreTypeOK
  <1>4. interrupted'[g] /\ \A h \in Fiber : h # g => interrupted'[h] = interrupted[h]
    BY <1>2, <1>3
  \* Who is aborted, and what is left of the interrupters.
  <1>5. /\ OpsAdvance
        /\ interrupter' \in [Fiber -> {"emit", "object", "resolver"} \cup {Nil}]
        /\ \A h \in Fiber : h # g => interrupter'[h] = interrupter[h]
        /\ \A h \in Fiber : op'[h] # op[h] /\ op[h].io \in {"sleep", "child"} => h = g
        /\ interrupter'[g] = interrupter[g] \/ interrupter'[g] = Nil
        /\ op[g] # Nil /\ interrupter[g] \in {"emit", "object"} /\ op[g].slot
              => op'[g].ec # Nil \/ op[g].io \in TlsIo
        /\ \A h \in Fiber : op[h] # Nil => op'[h].slot = op[h].slot /\ op'[h].io = op[h].io
    <2>1. CASE g # f /\ interrupter[g] # Nil
      <3>1. PICK fs \in Cancels(g) : op' = Aborted(fs)
        BY <2>1 DEF Interrupt
      <3>2. interrupter' = [interrupter EXCEPT ![g] = Nil]
        BY <2>1 DEF Interrupt
      <3>3. /\ OpsAdvance
            /\ \A h \in Fiber : op'[h] # op[h] => h \in fs /\ op[h] # Nil
            /\ \A h \in fs : h \in Fiber /\ op[h] # Nil => op'[h].ec # Nil
        BY <3>1, AbortAdvances
      <3>4. \A h \in Fiber : op[h] # Nil => op'[h].slot = op[h].slot /\ op'[h].io = op[h].io
        <4>1. ASSUME NEW r \in Operation
              PROVE  LET s == [r EXCEPT !.ec = "operation_aborted"] IN s.slot = r.slot /\ s.io = r.io
          BY DEF Operation
        <4> QED
          BY <1>3, <3>1, <4>1 DEF Aborted
      <3>5. CASE interrupter[g] = "emit"
        <4>1. fs = {h \in {g} : op[h] # Nil /\ op[h].slot}
          BY <3>1, <3>5 DEF Cancels
        <4> QED
          BY <1>3, <3>2, <3>3, <3>4, <3>5, <4>1
      <3>6. CASE interrupter[g] = "object"
        <4>1. fs = {h \in OpsOn(op[g].obj) : op[h].io \notin TlsWait} /\ op[g] # Nil
          BY <1>1, <3>1, <3>6 DEF Cancels, FiberInv, Armed
        <4>2. op[g].io \notin TlsWait => g \in fs
          BY <4>1 DEF OpsOn
        <4>3. ASSUME NEW h \in Fiber, op'[h] # op[h], op[h].io \in {"sleep", "child"} PROVE h = g
          BY <3>3, <4>1, <4>3 DEF OpsOn, FiberInv, Alone
        <4> QED
          BY <1>3, <3>2, <3>3, <3>4, <4>2, <4>3 DEF TlsIo
      <3>7. CASE interrupter[g] = "resolver"
        <4>1. fs \subseteq OpsOn(op[g].obj) /\ op[g] # Nil /\ op[g].io = "resolve"
          BY <1>1, <3>1, <3>7 DEF Cancels, FiberInv, Armed
        <4>2. ASSUME NEW h \in Fiber, op'[h] # op[h], op[h].io \in {"sleep", "child"} PROVE h = g
          BY <3>3, <4>1, <4>2 DEF OpsOn, FiberInv, OpsAreSound, OpIsSound
        <4> QED
          BY <1>3, <3>2, <3>3, <3>4, <3>7, <4>2
      <3> QED
        BY <1>3, <2>1, <3>5, <3>6, <3>7
    <2>2. CASE ~(g # f /\ interrupter[g] # Nil)
      <3>1. UNCHANGED <<op, interrupter>>
        BY <2>2 DEF Interrupt
      <3>2. op[g] = Nil \/ interrupter[g] = Nil
        BY <1>1, <2>2
      <3>3. Nil \notin {"emit", "object"}
        BY IoAssumption
      <3> QED
        BY <1>3, <3>1, <3>2, <3>3 DEF OpsAdvance
    <2> QED
      BY <2>1, <2>2
  <1>6. InIo' = InIo /\ OpsAreSound' /\ Alone'
    BY <1>2, <1>5, AdvanceOps
  <1>7. CoreOK'
    <2>1. interrupted' \in [Fiber -> BOOLEAN] /\ ret' \in [Fiber -> Results]
      BY <1>2, <1>3 DEF Results
    <2> QED
      BY <1>2, <1>5, <2>1 DEF FiberInv, CoreOK, CoreTypeOK, OpsAdvance, IsMain
  <1>8. AllValid' /\ OwedOnce' /\ ClosedIsQuiet'
    BY <1>1, <1>2, <1>6 DEF FiberInv, AllValid, OwedOnce, ClosedIsQuiet
  <1>9. ASSUME NEW h \in Fiber
        PROVE  \/ op'[h] = op[h]
               \/ /\ op[h] # Nil /\ op'[h] # Nil /\ op'[h].io = op[h].io
                  /\ op[h].ec # Nil /\ op[h].io \notin Rewaiting => op'[h].ec # Nil
    BY <1>5, IoSystemAssumption DEF OpsAdvance, Advances
  <1>10. AbortedByInterruption'
    <2> SUFFICES ASSUME NEW h \in Fiber, op'[h] # Nil, op'[h].io \in {"sleep", "child"},
                        op'[h].ec = "operation_aborted"
                 PROVE  interrupted'[h]
      BY DEF AbortedByInterruption
    <2>1. CASE op'[h] = op[h]
      BY <1>1, <1>4, <2>1 DEF FiberInv, AbortedByInterruption
    <2>2. CASE op'[h] # op[h]
      BY <1>4, <1>5, <1>9, <2>2
    <2> QED
      BY <2>1, <2>2
  <1>11. Armed'
    <2> SUFFICES ASSUME NEW h \in Fiber
                 PROVE  /\ interrupter'[h] \in {"object", "resolver"} => op'[h] # Nil /\ ~Disabled(h)'
                        /\ interrupter'[h] = "resolver" => op'[h].io = "resolve"
                        /\ op'[h] # Nil /\ op'[h].slot /\ ~interrupted'[h]
                           /\ op'[h].io \notin Rewaiting \cup {"resolve"}
                             => interrupter'[h] \in {"emit", "object"}
      BY DEF Armed
    <2>0. Disabled(h)' = Disabled(h)
      BY <1>2 DEF Disabled
    <2>1. CASE h # g
      BY <1>1, <1>4, <1>5, <1>9, <2>0, <2>1 DEF FiberInv, Armed
    <2>2. CASE h = g
      BY <1>1, <1>4, <1>5, <1>9, <2>0, <2>2, IoAssumption DEF FiberInv, Armed
    <2> QED
      BY <2>1, <2>2
  <1>12. InterruptionReachesIo'
    <2> SUFFICES ASSUME NEW h \in Fiber, op'[h] # Nil, op'[h].slot, interrupted'[h],
                        op'[h].io \notin {"resolve", "receive_with_fds", "send_with_fds"} \cup TlsIo
                 PROVE  op'[h].ec # Nil
      BY DEF InterruptionReachesIo
    <2>1. op[h] # Nil /\ op[h].io = op'[h].io /\ op[h].slot
      BY <1>5, <1>9
    <2>2. CASE interrupted[h]
      BY <1>9, <2>1, <2>2 DEF FiberInv, InterruptionReachesIo, Rewaiting
    <2>3. CASE ~interrupted[h]
      <3>1. h = g
        BY <1>4, <2>3
      <3>2. interrupter[g] \in {"emit", "object"}
        BY <1>1, <2>1, <2>3, <3>1 DEF FiberInv, Armed, Rewaiting
      <3> QED
        BY <1>5, <2>1, <3>1, <3>2
    <2> QED
      BY <2>2, <2>3
  <1> QED
    BY <1>6, <1>7, <1>8, <1>10, <1>11, <1>12 DEF FiberInv

\* A step of the engine that leaves the operations alone: what it may do to the
\* interrupters is to set or clear those of fibers that are in no operation.
LEMMA FiberEngine ==
    ASSUME FiberInv, UNCHANGED <<op, kind, valid, interrupted>>,
           CoreTypeOK(IoSites, Results, {"emit", "object", "resolver"})',
           strand' \in [Vm -> Seq(ResumeHandler(Fiber, Results))],
           AllValid => Engine(running', at', strand', InIo, IoSites, Results),
           ~AllValid => UNCHANGED <<running, at, ret>>,
           \A f \in Fiber : \/ interrupter'[f] = interrupter[f]
                            \/ op[f] = Nil /\ interrupter'[f] \in {"emit", Nil},
           \A f \in Fiber : op[f] = Nil \/ interruptionDisabled'[f] = interruptionDisabled[f]
    PROVE  FiberInv'
  <1>1. InIo' = InIo /\ AllValid' = AllValid
    BY DEF InIo, AllValid
  <1>2. CoreOK' /\ OwedOnce' /\ ClosedIsQuiet'
    BY <1>1 DEF FiberInv, CoreOK, OwedOnce, ClosedIsQuiet
  <1>3. OpsAreSound' /\ Alone' /\ AbortedByInterruption' /\ InterruptionReachesIo'
    BY <1>1 DEF FiberInv, OpsAreSound, OpIsSound, Alone, AbortedByInterruption, InterruptionReachesIo
  <1>4. Armed'
    <2> SUFFICES ASSUME AllValid, NEW h \in Fiber
                 PROVE  /\ interrupter'[h] \in {"object", "resolver"} => op[h] # Nil /\ ~Disabled(h)'
                        /\ interrupter'[h] = "resolver" => op[h].io = "resolve"
                        /\ op[h] # Nil /\ op[h].slot /\ ~interrupted[h]
                           /\ op[h].io \notin Rewaiting \cup {"resolve"}
                             => interrupter'[h] \in {"emit", "object"}
      BY <1>1 DEF Armed
    <2>1. CASE op[h] = Nil
      BY <2>1, IoAssumption DEF FiberInv, Armed
    <2>2. CASE op[h] # Nil
      BY <2>2 DEF FiberInv, Armed, Disabled
    <2> QED
      BY <2>1, <2>2
  <1> QED
    BY <1>2, <1>3, <1>4 DEF FiberInv

\* The steps of the engine.
LEMMA FiberRuns ==
    ASSUME FiberInv, NEW v \in Vm, RunStrand(v)
    PROVE  FiberInv'
  <1> DEFINE h == Head(strand[v])
             H == ResumeHandler(Fiber, Results)
  <1>1. /\ StrandReady(v) /\ strand' = Popped(strand, v)
        /\ UNCHANGED <<valid, interruptionDisabled, suspensionDisallowed, interrupted, op, kind>>
    BY DEF RunStrand, RunResume, Popped, counters, ioVars, objVars, names
  <1>2. strand \in [Vm -> Seq(H)] /\ strand[v] # <<>>
    BY <1>1 DEF FiberInv, CoreOK, StrandReady
  <1> HIDE DEF H
  <1>3. strand' \in [Vm -> Seq(H)]
    <2>1. Tail(strand[v]) \in Seq(H)
      BY <1>2, TailFacts
    <2> QED
      BY <1>1, <1>2, <2>1 DEF Popped
  <1>4. valid[v] <=> AllValid
    BY IoAssumption DEF AllValid
  <1>5. CASE ~AllValid
    <2>1. UNCHANGED <<running, at, interrupter, ret>>
      BY <1>4, <1>5 DEF RunStrand, RunResume
    <2>2. CoreTypeOK(IoSites, Results, {"emit", "object", "resolver"})'
      BY <1>1, <2>1 DEF FiberInv, CoreOK, CoreTypeOK, IsMain
    <2> QED
      BY <1>1, <1>3, <1>5, <2>1, <2>2, FiberEngine DEF H
  <1>6. CASE AllValid
    <2>1. Engine(running, at, strand, InIo, IoSites, Results)
      BY <1>6 DEF FiberInv, OwedOnce
    <2>2. /\ h.fiber \in Fiber /\ h.val \in Results /\ h.fiber \notin InIo /\ VmOf[h.fiber] = v
      BY <1>1, <2>1, EngineHead
    <2>3. FiberResume(h.fiber, h.clear, h.val)
      BY <1>4, <1>6 DEF RunStrand, RunResume
    <2> HIDE DEF h
    <2>4. Engine(running', at', strand', InIo, IoSites, Results)
      BY <1>1, <2>1, <2>2, <2>3, EngineResume, IoEngine DEF h
    <2>5. /\ interrupter \in [Fiber -> {"emit", "object", "resolver"} \cup {Nil}]
          /\ ret \in [Fiber -> Results]
      BY DEF FiberInv, CoreOK, CoreTypeOK
    <2>6. /\ interrupter' \in [Fiber -> {"emit", "object", "resolver"} \cup {Nil}]
          /\ \A f \in Fiber : interrupter'[f] = interrupter[f] \/ (f = h.fiber /\ interrupter'[f] = Nil)
      BY <2>2, <2>3, <2>5 DEF FiberResume, ClearedInterrupter, SetInterrupter
    <2>7. ret' \in [Fiber -> Results]
      BY <2>2, <2>3, <2>5 DEF FiberResume
    <2>8. CoreTypeOK(IoSites, Results, {"emit", "object", "resolver"})'
      BY <1>1, <2>4, <2>6, <2>7 DEF FiberInv, CoreOK, CoreTypeOK, IsMain, Engine
    <2>9. op[h.fiber] = Nil
      BY <2>2 DEF InIo
    <2> QED
      BY <1>1, <1>3, <1>6, <2>4, <2>6, <2>8, <2>9, FiberEngine DEF H
  <1> QED
    BY <1>5, <1>6

\* A fiber spawns another, changes its own attributes, yields or ends.
LEMMA FiberCalls ==
    ASSUME FiberInv, NEW f \in Fiber, NEW g \in Fiber, Spawn(f, g) \/ ThisFiber(f) \/ End(f)
    PROVE  FiberInv'
  <1>1. Running(f)
    BY DEF Spawn, SpawnFiber, ThisFiber, DisableInterruption, RestoreInterruption, Yield, End
  <1>2. AllValid /\ op[f] = Nil /\ VmOf[f] \in Vm
    BY <1>1, Caller
  <1>3. Engine(running, at, strand, InIo, IoSites, Results)
    BY <1>2 DEF FiberInv, OwedOnce
  <1>4. /\ ret \in [Fiber -> Results] /\ CountersOK
        /\ {"none", "interrupted", "forbid_suspend_block", "interruption_already_allowed"}
             \subseteq Results
    BY DEF FiberInv, CoreOK, CoreTypeOK, CountersOK, Results
  <1>5. UNCHANGED <<op, kind, valid, interrupted, interrupter>>
    BY DEF Spawn, SpawnFiber, ThisFiber, DisableInterruption, RestoreInterruption, Yield, End,
           ioVars, objVars, names, fiberData
  <1>6. Engine(running', at', strand', InIo, IoSites, Results)
    <2>1. CASE Spawn(f, g)
      BY <1>3, <2>1, EngineSpawn, IoEngine DEF Spawn
    <2>2. CASE Yield(f)
      BY <1>3, <2>2, EngineYield, IoEngine
    <2>3. CASE DisableInterruption(f) \/ RestoreInterruption(f)
      BY <1>3, <2>3 DEF DisableInterruption, RestoreInterruption, Return
    <2>4. CASE End(f)
      BY <1>1, <1>3, <2>4, EngineEnd, IoEngine DEF End
    <2> QED
      BY <2>1, <2>2, <2>3, <2>4 DEF ThisFiber
  <1>7. /\ ret' \in [Fiber -> Results] /\ CountersOK'
        /\ \A h \in Fiber : h = f \/ interruptionDisabled'[h] = interruptionDisabled[h]
    <2>1. CASE Spawn(f, g) \/ End(f) \/ Yield(f)
      <3>1. UNCHANGED <<interruptionDisabled, suspensionDisallowed>>
        BY <2>1 DEF Spawn, SpawnFiber, End, Yield, fiberData
      <3>2. ret' \in [Fiber -> Results]
        BY <1>4, <2>1 DEF Spawn, SpawnFiber, End, Suspend, Yield, Return, SuspendError
      <3> QED
        BY <1>4, <3>1, <3>2 DEF CountersOK, IsMain
    <2>2. CASE DisableInterruption(f) \/ RestoreInterruption(f)
      <3>1. Nesting(f)
        BY <2>2 DEF Nesting
      <3>2. CountersOK'
        BY <1>4, <3>1, CountersStep
      <3>3. ret' \in [Fiber -> Results]
        BY <1>4, <2>2 DEF DisableInterruption, RestoreInterruption, Return
      <3>4. interruptionDisabled \in [Fiber -> Int]
        BY <1>4 DEF CountersOK
      <3>5. \A h \in Fiber : h = f \/ interruptionDisabled'[h] = interruptionDisabled[h]
        BY <2>2, <3>4 DEF DisableInterruption, RestoreInterruption
      <3> QED
        BY <3>2, <3>3, <3>5
    <2> QED
      BY <2>1, <2>2 DEF ThisFiber
  <1>8. CoreTypeOK(IoSites, Results, {"emit", "object", "resolver"})'
    BY <1>5, <1>6, <1>7 DEF FiberInv, CoreOK, CoreTypeOK, CountersOK, Engine, IsMain
  <1>9. strand' \in [Vm -> Seq(ResumeHandler(Fiber, Results))]
    BY <1>6 DEF Engine
  <1> QED
    BY <1>2, <1>5, <1>6, <1>7, <1>8, <1>9, FiberEngine

\* send_with_fds() refuses its table, and leaves its interrupter behind.
SendLeaves(f) ==
    /\ Running(f) /\ CanSuspend(f)
    /\ interrupter' = SetInterrupter(f, "emit")
    /\ Return(f, "error")
    /\ UNCHANGED <<strand, valid, counters, interrupted, ioVars>>

\* Such a send_with_fds() preserves the invariant: the interrupter it leaves refers to
\* no operation.
LEMMA FiberLeaves ==
    ASSUME FiberInv, NEW f \in Fiber, SendLeaves(f)
    PROVE  FiberInv'
  <1>1. AllValid /\ op[f] = Nil
    BY Caller DEF SendLeaves
  <1>2. /\ UNCHANGED <<op, kind, valid, interrupted, strand, running, at, interruptionDisabled,
                       suspensionDisallowed>>
        /\ interrupter' = SetInterrupter(f, "emit") /\ ret' = [ret EXCEPT ![f] = "error"]
    BY DEF SendLeaves, Return, counters, ioVars, objVars, names
  <1>3. /\ interrupter \in [Fiber -> {"emit", "object", "resolver"} \cup {Nil}]
        /\ ret \in [Fiber -> Results] /\ "error" \in Results
    BY DEF FiberInv, CoreOK, CoreTypeOK, Results
  <1>4. /\ interrupter' \in [Fiber -> {"emit", "object", "resolver"} \cup {Nil}]
        /\ \A g \in Fiber : interrupter'[g] = interrupter[g] \/ (g = f /\ interrupter'[g] = "emit")
    BY <1>2, <1>3 DEF SetInterrupter
  <1>5. CoreTypeOK(IoSites, Results, {"emit", "object", "resolver"})'
    BY <1>2, <1>3, <1>4 DEF FiberInv, CoreOK, CoreTypeOK, IsMain
  <1>6. strand' \in [Vm -> Seq(ResumeHandler(Fiber, Results))]
    BY <1>2 DEF FiberInv, CoreOK
  <1> QED
    BY <1>1, <1>2, <1>4, <1>5, <1>6, FiberEngine DEF FiberInv, OwedOnce

\* The VM is closed.
LEMMA FiberCloses ==
    ASSUME FiberInv, NEW v \in Vm, CloseIo(v)
    PROVE  FiberInv'
  <1>1. /\ UNCHANGED <<strand, kind>> /\ op' = Aborted(EndWithVm)
        /\ valid' = [valid EXCEPT ![v] = FALSE] /\ running' = [running EXCEPT ![v] = Nil]
        /\ at' = Freed(at, v, "dead") /\ ret' = Freed(ret, v, "none")
        /\ interruptionDisabled' = Freed(interruptionDisabled, v, 0)
        /\ suspensionDisallowed' = Freed(suspensionDisallowed, v, 0)
        /\ interrupted' = Freed(interrupted, v, FALSE) /\ interrupter' = Freed(interrupter, v, Nil)
    BY DEF CloseIo, CloseVm
  <1>2. (\A w \in Vm : w = v) /\ \A f \in Fiber : VmOf[f] = v
    BY VmContextAssumption, IoAssumption
  <1>3. OpsAdvance /\ OpsAreSound' /\ Alone'
    BY <1>1, AbortAdvances, AdvanceOps
  <1>4. CoreOK'
    <2>1. /\ running \in [Vm -> Fiber \cup {Nil}] /\ valid \in [Vm -> BOOLEAN]
          /\ strand \in [Vm -> Seq(ResumeHandler(Fiber, Results))]
      BY DEF FiberInv, CoreOK, CoreTypeOK
    <2>2. running' \in [Vm -> Fiber \cup {Nil}] /\ valid' \in [Vm -> BOOLEAN]
      BY <1>1, <2>1
    <2>3. strand' \in [Vm -> Seq(ResumeHandler(Fiber, Results))]
      BY <1>1, <2>1
    <2>4. /\ at' = [f \in Fiber |-> "dead"] /\ ret' = [f \in Fiber |-> "none"]
          /\ interruptionDisabled' = [f \in Fiber |-> 0]
          /\ suspensionDisallowed' = [f \in Fiber |-> 0]
          /\ interrupted' = [f \in Fiber |-> FALSE] /\ interrupter' = [f \in Fiber |-> Nil]
      BY <1>1, <1>2 DEF Freed
    <2>5. /\ at' \in [Fiber -> IoSites \cup Gone \cup {"running"}] /\ ret' \in [Fiber -> Results]
          /\ interrupted' \in [Fiber -> BOOLEAN]
          /\ interrupter' \in [Fiber -> {"emit", "object", "resolver"} \cup {Nil}]
      BY <2>4 DEF Gone, Results
    <2>6. /\ interruptionDisabled' \in [Fiber -> Int] /\ suspensionDisallowed' \in [Fiber -> Int]
          /\ \A f \in Fiber : /\ interruptionDisabled'[f] \in 0..MaxDisable[f]
                             /\ suspensionDisallowed'[f] \in 0..MaxForbid[f]
      BY <2>4, VmContextAssumption
    <2> QED
      BY <1>3, <2>2, <2>3, <2>5, <2>6 DEF CoreOK, CoreTypeOK, OpsAdvance
  <1>5. ~AllValid'
    BY <1>1 DEF AllValid, FiberInv, CoreOK, CoreTypeOK
  <1>6. ClosedIsQuiet'
    BY <1>1, <1>2 DEF ClosedIsQuiet, Freed, FiberInv, CoreOK, CoreTypeOK
  <1>7. InterruptionReachesIo'
    BY <1>1, <1>2 DEF InterruptionReachesIo, Freed
  <1> QED
    BY <1>3, <1>4, <1>5, <1>6, <1>7 DEF FiberInv, OwedOnce, AbortedByInterruption, Armed

\* The invariant of the fibers holds at the start.
LEMMA FiberStarts == Init => FiberInv
  <1> SUFFICES ASSUME Init PROVE FiberInv
    OBVIOUS
  <1>1. CoreInit /\ op = [f \in Fiber |-> Nil]
    BY DEF Init
  <1>2. InIo = {}
    BY <1>1 DEF InIo
  <1>3. Engine(running, at, strand, InIo, IoSites, Results)
    BY <1>1, <1>2, EngineInit, IoEngine
  <1>4. CountersOK
    BY <1>1, CountersInit
  <1>5. /\ valid \in [Vm -> BOOLEAN] /\ interrupted \in [Fiber -> BOOLEAN]
        /\ interrupter \in [Fiber -> {Nil}] /\ ret \in [Fiber -> Results]
        /\ \A v \in Vm : valid[v]
    BY <1>1 DEF CoreInit, Results
  <1>6. CoreOK
    BY <1>1, <1>3, <1>4, <1>5 DEF CoreOK, CoreTypeOK, CountersOK, Engine, IsMain
  <1>7. OpsAreSound /\ Alone /\ AbortedByInterruption /\ InterruptionReachesIo
    BY <1>1 DEF OpsAreSound, Alone, AbortedByInterruption, InterruptionReachesIo
  <1>8. Armed
    BY <1>1, <1>5, IoAssumption DEF Armed
  <1> QED
    BY <1>3, <1>5, <1>6, <1>7, <1>8 DEF FiberInv, OwedOnce, ClosedIsQuiet, AllValid

\* A call that returns a result, or raises an error, and does nothing else.
Replies(f) == Running(f) /\ \E r \in Results : Answer(f, r)

\* The errors of a call, suspending or not.
LEMMA ErrorForms ==
    ASSUME NEW f \in Fiber, Running(f), Raise(f) \/ Refused(f)
    PROVE  Replies(f)
  BY DEF Replies, Raise, Refused, SuspendError, Results

\* The calls of the module tls.
LEMMA TlsForms ==
    ASSUME NEW f \in Fiber, NEW o \in Obj, TlsCall(f, o)
    PROVE  CallOn(f, o) \/ \E q \in Obj : tls_socket_new(f, o, q)
  BY DEF CallOn, Method, Raise, Ordinary, PeerType, TlsCall, tls_socket_mt_index, socket_handshake,
         tls_socket_read_some, tls_socket_write_some, tls_socket_set_server_name,
         tls_socket_set_verify_callback, tls_socket_set_verify_depth, tls_socket_set_verify_mode

\* The calls on signal sets and the standard streams.
LEMMA SystemForms ==
    ASSUME NEW f \in Fiber, SystemCall(f)
    PROVE  Replies(f) \/ \E o \in Obj : CallOn(f, o) \/ Constructs(f, o) \/ SharedCall(f, o)
  <1>1. ASSUME NEW o \in Obj, system_signal_set_mt_index(f, o) PROVE CallOn(f, o)
    BY <1>1 DEF CallOn, Method, Raise, AsyncCall, Ordinary, PeerType, SetSignals,
        system_signal_set_mt_index, system_signal_set_wait, system_signal_set_cancel,
        system_signal_set_add, system_signal_set_remove, system_signal_set_clear
  <1>2. ASSUME NEW o \in Obj, system_signal_set_new(f, o) PROVE Replies(f) \/ Constructs(f, o)
    BY <1>2, ErrorForms DEF system_signal_set_new, Constructs, Ordinary
  <1>3. ASSUME Stream(f) PROVE \E o \in Obj : SharedCall(f, o)
    BY <1>3 DEF Stream, SharedCall
  <1> QED
    BY <1>1, <1>2, <1>3 DEF SystemCall, system_in_read_some, system_out_write_some, system_err_write_some

\* Name resolution and sleep().
LEMMA SharedForms ==
    ASSUME NEW f \in Fiber, ResolverCall(f) \/ sleep_for(f)
    PROVE  Replies(f) \/ \E o \in Obj : SharedCall(f, o)
  <1>1. ASSUME ResolverCall(f) PROVE \E o \in Obj : SharedCall(f, o)
    BY <1>1 DEF ResolverCall, Resolve, SharedCall, tcp_get_address_info, tcp_get_address_v4_info,
        tcp_get_address_v6_info, tcp_get_name_info, udp_get_address_info, udp_get_address_v4_info,
        udp_get_address_v6_info, udp_get_name_info
  <1>2. ASSUME sleep_for(f) PROVE Replies(f) \/ \E o \in Obj : SharedCall(f, o)
    BY <1>2, ErrorForms DEF sleep_for, SharedCall
  <1> QED
    BY <1>1, <1>2

\* The calls on a subprocess.
LEMMA SubprocessForms ==
    ASSUME NEW f \in Fiber, NEW o \in Obj, subprocess_mt_index(f, o)
    PROVE  \/ Replies(f)
           \/ /\ Method(f, o, "subprocess") /\ CanSuspend(f) /\ native[o] # Nil /\ nbusy[o] = 0
              /\ Initiate(f, o, "child", "object", {}, Nil)
              /\ UNCHANGED <<native, fdVars>>
  <1>1. Running(f)
    BY DEF subprocess_mt_index, Method
  <1>2. ASSUME Syscall(f, o) PROVE Replies(f)
    BY <1>1, <1>2, ErrorForms DEF Syscall, Replies, Results
  <1>3. ASSUME NEW r \in {"none", "error"}, Answer(f, r) PROVE Replies(f)
    BY <1>1, <1>3 DEF Replies, Results
  <1> QED
    BY <1>1, <1>2, <1>3, ErrorForms DEF subprocess_mt_index, subprocess_wait, subprocess_kill,
        subprocess_cap_get, subprocess_pid, subprocess_exit_code, subprocess_exit_signal

\* The calls on a handle.
Closes(f, h) ==
    /\ Running(f) /\ handle[h] \in Fd
    /\ handle' = [handle EXCEPT ![h] = Nil]
    /\ openFd' = openFd \ {handle[h]}
    /\ UNCHANGED <<ret, running, at>> \/ Return(f, "none")
    /\ UNCHANGED <<strand, valid, fiberData, objVars, lost, op>>

Duplicates(f) ==
    /\ Running(f)
    /\ \E g \in NewHandles, d \in Lowest(openFd) :
          /\ handle' = [handle EXCEPT ![g] = d]
          /\ openFd' = openFd \cup {d}
    /\ Return(f, "none")
    /\ UNCHANGED <<strand, valid, fiberData, objVars, lost, op>>

\* A call on a handle answers, closes its descriptor or duplicates it.
LEMMA HandleForms ==
    ASSUME NEW f \in Fiber, NEW h \in Handle, handle \in [Handle -> Fd \cup {Nil, Busy}],
           HandleCalls(f, h)
    PROVE  Replies(f) \/ Closes(f, h) \/ Duplicates(f)
  <1>1. ASSUME HandleCall(f, h) PROVE Replies(f)
    BY <1>1, ErrorForms DEF HandleCall, HandleMethod, Replies, Results
  <1>2. ASSUME file_descriptor_close(f, h) PROVE Replies(f) \/ Closes(f, h)
    BY <1>2, ErrorForms DEF file_descriptor_close, HandleMethod, Closes
  <1>3. ASSUME file_descriptor_dup(f, h) PROVE Replies(f) \/ Duplicates(f)
    BY <1>3, ErrorForms DEF file_descriptor_dup, HandleMethod, Duplicates
  <1>4. ASSUME file_descriptor_mt_gc(f, h) PROVE Closes(f, h)
    BY <1>4 DEF file_descriptor_mt_gc, Closes, coreVars
  <1> QED
    BY <1>1, <1>2, <1>3, <1>4 DEF HandleCalls, file_descriptor_mt_index, file_descriptor_mt_tostring,
        file_descriptor_cap_get, file_descriptor_cap_set, file_descriptor_cap_rights_limit,
        file_descriptor_cap_ioctls_limit, file_descriptor_cap_fcntls_limit

\* The operations on a TCP socket go on, on the TLS socket it is moved into.
LEMMA FiberMoves ==
    ASSUME FiberInv, StillCore, NEW o \in Obj, NEW p \in Obj,
           kind[o] = "tcp_socket", kind[p] = "tls_socket", op' = Moved(o, p)
    PROVE  /\ FiberInv'
           /\ \A f \in Fiber : /\ op'[f] = Nil <=> op[f] = Nil
                               /\ op[f] # Nil => /\ op'[f].lock = op[f].lock
                                                 /\ op'[f].peer = op[f].peer
                                                 /\ op'[f].obj = IF op[f].obj = o THEN p ELSE op[f].obj
  <1>1. op \in [Fiber -> Operation \cup {Nil}] /\ Nil \notin Operation
    BY IoSystemAssumption DEF FiberInv, CoreOK
  <1>2. ASSUME NEW r \in Operation
        PROVE  LET s == [r EXCEPT !.obj = p, !.slot = FALSE] IN
               /\ s \in Operation /\ s.io = r.io /\ s.lock = r.lock /\ s.obj = p
               /\ s.slot = FALSE /\ s.peer = r.peer /\ s.ec = r.ec
    BY DEF Operation
  <1>3. ASSUME NEW f \in Fiber
        PROVE  /\ op'[f] \in Operation \cup {Nil}
               /\ op'[f] = Nil <=> op[f] = Nil
               /\ op[f] # Nil => /\ op'[f].lock = op[f].lock /\ op'[f].peer = op[f].peer
                                 /\ op'[f].ec = op[f].ec
                                 /\ op'[f].obj = IF op[f].obj = o THEN p ELSE op[f].obj
               /\ op'[f] = op[f] \/ (op[f] # Nil /\ op'[f] # Nil /\ Advances(op[f], op'[f]))
    <2>1. CASE op[f] # Nil /\ op[f].obj = o
      <3>1. op'[f] = [op[f] EXCEPT !.obj = p, !.slot = FALSE] /\ op[f] \in Operation
        BY <1>1, <2>1 DEF Moved, OpsOn
      <3>2. /\ op'[f] \in Operation /\ op'[f].io = op[f].io /\ op'[f].lock = op[f].lock
            /\ op'[f].obj = p /\ op'[f].slot = FALSE /\ op'[f].peer = op[f].peer
            /\ op'[f].ec = op[f].ec
        BY ZenonT(30), <1>2, <3>1
      <3>3. Advances(op[f], op'[f])
        BY <2>1, <3>2 DEF Advances
      <3> QED
        BY <1>1, <2>1, <3>2, <3>3
    <2>2. CASE ~(op[f] # Nil /\ op[f].obj = o)
      BY <1>1, <2>2 DEF Moved, OpsOn
    <2> QED
      BY <2>1, <2>2
  <1>4. op' \in [Fiber -> Operation \cup {Nil}]
    <2>1. op' = [f \in Fiber |-> op'[f]]
      BY DEF Moved
    <2> QED
      BY <1>3, <2>1
  <1>5. OpsAdvance /\ NoneAborted
    BY <1>3, <1>4 DEF OpsAdvance, NoneAborted
  <1> QED
    BY <1>3, <1>5, FiberStill

-----------------------------------------------------------------------------
(* The inductive invariant: objects and the operations on them.              *)

ObjectsOK ==
    /\ kind \in Program
    /\ live \in [Obj -> BOOLEAN]
    /\ native \in [Obj -> Fd \cup {Nil}]
    /\ nbusy \in [Obj -> Int]
    /\ child \in [Obj -> Process \cup {Nil}]

\* The objects that count their operations outlive them.
CountedAreLive ==
    AllValid => \A f \in Fiber :
        op[f] # Nil /\ kind[op[f].obj] \in Counted => live[op[f].obj]

\* A subprocess that has its descriptor has a child, and no reaper has it.
ChildrenAreSound ==
    \A o \in Obj :
        /\ ~live[o] => native[o] = Nil
        /\ child[o] # Nil => kind[o] = "subprocess"
        /\ kind[o] = "subprocess" /\ native[o] # Nil => child[o] # Nil
        /\ child[o] # Nil /\ live[o] => child[o].reaper = Nil

\* A closed VM has neither objects nor handles.
ClosedIsEmpty ==
    ~AllValid => (\A o \in Obj : ~live[o]) /\ (\A h \in Handle : handle[h] = Nil)

ObjectInv ==
    /\ ObjectsOK
    /\ CountedAreLive
    /\ NbusyIsExact
    /\ ChildrenAreSound
    /\ ClosedIsEmpty

-----------------------------------------------------------------------------
(* The inductive invariant: descriptors and who would close them.            *)

DescriptorsOK ==
    /\ handle \in [Handle -> Fd \cup {Nil, Busy}]
    /\ openFd \in SUBSET Fd
    /\ lost \in SUBSET Fd

\* A handle is locked by one operation, and busy meanwhile.
LocksAreSound ==
    /\ \A f, g \in Fiber : op[f] # Nil /\ op[g] # Nil =>
          \A l \in op[f].lock, m \in op[g].lock : l[1] = m[1] => f = g /\ l = m
    /\ AllValid => \A f \in Fiber : op[f] # Nil =>
          \A l \in op[f].lock : handle[l[1]] = Busy
    /\ \A h \in Handle : handle[h] = Busy =>
          \E f \in Fiber : op[f] # Nil /\ \E l \in op[f].lock : l[1] = h

\* Who may have a descriptor besides objects and handles: an accept() that has got
\* one, the reaper of a child, a message that is being sent.
PeerOf(ops) == [f \in Fiber |-> IF ops[f] = Nil THEN Nil ELSE ops[f].peer]
ReaperOf(c) == [o \in Obj |-> IF c[o] = Nil THEN Nil ELSE c[o].reaper]
LocksOf(ops) == UNION {ops[f].lock : f \in {g \in Fiber : ops[g] # Nil}}
LockedFd == [l \in Handle \X Fd |-> l[2]]

\* The descriptors that the members of S have, and that no two have the same.
FdsOf(fun, S) == {fun[x] : x \in S} \cap Fd
NoFdTwice(fun, S) == \A x, y \in S : fun[x] = fun[y] /\ fun[x] \in Fd => x = y

Apart(A, B) == A \cap B = {}

\* The descriptors fds, shared out between six kinds of owners.
SharedOut(fds, N, H, P, R, L, X) ==
    /\ fds = N \cup H \cup P \cup R \cup L \cup X
    /\ Apart(N, H) /\ Apart(N, P) /\ Apart(N, R) /\ Apart(N, L) /\ Apart(N, X)
    /\ Apart(H, P) /\ Apart(H, R) /\ Apart(H, L) /\ Apart(H, X)
    /\ Apart(P, R) /\ Apart(P, L) /\ Apart(P, X)
    /\ Apart(R, L) /\ Apart(R, X) /\ Apart(L, X)

OpenIsOwnedOnce ==
    /\ NoFdTwice(native, Obj)
    /\ NoFdTwice(handle, Handle)
    /\ NoFdTwice(PeerOf(op), Fiber)
    /\ NoFdTwice(ReaperOf(child), Obj)
    /\ NoFdTwice(LockedFd, LocksOf(op))
    /\ SharedOut(openFd, FdsOf(native, Obj), FdsOf(handle, Handle), FdsOf(PeerOf(op), Fiber),
                 FdsOf(ReaperOf(child), Obj), FdsOf(LockedFd, LocksOf(op)), lost)

FdInv ==
    /\ DescriptorsOK
    /\ LocksAreSound
    /\ OpenIsOwnedOnce

Inv == FiberInv /\ ObjectInv /\ FdInv

-----------------------------------------------------------------------------
(* Objects and the operations on them: the steps.                            *)

\* Each object has the operations it had.
OpsStay ==
    \A f \in Fiber : /\ op'[f] = Nil <=> op[f] = Nil
                     /\ op[f] # Nil => op'[f].obj = op[f].obj

\* Objects may be created; what is no subprocess may get a descriptor, and what
\* has one may lose it.
ObjectsGrow ==
    /\ live' \in [Obj -> BOOLEAN] /\ native' \in [Obj -> Fd \cup {Nil}]
    /\ \A o \in Obj : live[o] => live'[o]
    /\ \A o \in Obj : live'[o] /\ ~live[o] => kind[o] # "subprocess"
    /\ \A o \in Obj : \/ native'[o] \in {native[o], Nil}
                      \/ live'[o] /\ kind[o] # "subprocess"

\* What an operation is made of.
LEMMA OpTypes ==
    ASSUME FiberInv, NEW f \in Fiber, op[f] # Nil
    PROVE  /\ op[f] \in Operation /\ op[f].obj \in Obj /\ op[f].peer \in Fd \cup {Nil}
           /\ op[f].lock \in SUBSET (Handle \X Fd)
  <1>1. op[f] \in Operation
    BY DEF FiberInv, CoreOK
  <1> QED
    BY <1>1 DEF Operation

\* The operations on an object can be counted.
LEMMA OpsFinite == ASSUME NEW o PROVE IsFiniteSet(OpsOn(o))
  BY FS_Subset, IoAssumption DEF OpsOn

\* Most steps leave the children alone.
LEMMA ChildrenStay ==
    ASSUME ObjectInv, ObjectsGrow, UNCHANGED <<kind, child>>
    PROVE  ChildrenAreSound'
  BY DEF ObjectInv, ChildrenAreSound, ObjectsGrow

\* What has not been created has no operation, if it would count it.
LEMMA NoneBefore ==
    ASSUME ObjectInv, AllValid, NEW o \in Obj, ~live[o], kind[o] \in Counted
    PROVE  OpsOn(o) = {} /\ nbusy[o] = 0
  BY DEF ObjectInv, CountedAreLive, NbusyIsExact, OpsOn

\* The constructor of an object sets a counter that is 0.
LEMMA ZeroStays ==
    ASSUME ObjectInv, NEW o \in Obj, ~live[o]
    PROVE  [nbusy EXCEPT ![o] = 0] = nbusy
  BY DEF ObjectInv, ObjectsOK, NbusyIsExact

\* One object's count, when its operations stay.
LEMMA CountStays ==
    ASSUME ObjectInv, NEW o \in Obj, UNCHANGED kind, OpsOn(o)' = OpsOn(o), nbusy'[o] = nbusy[o],
           live[o] => live'[o], live'[o] => live[o] \/ AllValid
    PROVE  nbusy'[o] = IF live'[o] /\ kind'[o] \in Counted THEN Cardinality(OpsOn(o)') ELSE 0
  <1>1. nbusy[o] = IF live[o] /\ kind[o] \in Counted THEN Cardinality(OpsOn(o)) ELSE 0
    BY DEF ObjectInv, NbusyIsExact
  <1>2. CASE live'[o] /\ ~live[o] /\ kind[o] \in Counted
    BY <1>2, NoneBefore, FS_EmptySet
  <1> QED
    BY <1>1, <1>2

\* A step that neither starts nor ends an operation.
LEMMA ObjectsStay ==
    ASSUME FiberInv, ObjectInv, OpsStay, ObjectsOK', ChildrenAreSound', UNCHANGED <<kind, valid, nbusy>>,
           \A o \in Obj : live[o] => live'[o],
           AllValid \/ UNCHANGED <<live, handle>>
    PROVE  ObjectInv'
  <1>1. AllValid' = AllValid
    BY DEF AllValid
  <1>2. \A o \in Obj : OpsOn(o)' = OpsOn(o)
    BY DEF OpsOn, OpsStay
  <1>3. NbusyIsExact'
    <2> SUFFICES ASSUME NEW o \in Obj
                 PROVE  nbusy'[o] = IF live'[o] /\ kind'[o] \in Counted
                                    THEN Cardinality(OpsOn(o)') ELSE 0
      BY DEF NbusyIsExact
    <2> QED
      BY <1>2, CountStays
  <1>4. CountedAreLive'
    <2>1. ASSUME NEW f \in Fiber, op'[f] # Nil, AllValid, kind[op'[f].obj] \in Counted
          PROVE  live'[op'[f].obj]
      <3>1. op[f] # Nil /\ op'[f].obj = op[f].obj
        BY <2>1 DEF OpsStay
      <3>2. live[op[f].obj] /\ op[f].obj \in Obj
        BY <2>1, <3>1, OpTypes DEF ObjectInv, CountedAreLive
      <3> QED
        BY <3>1, <3>2
    <2> QED
      BY <1>1, <2>1 DEF CountedAreLive
  <1>5. ClosedIsEmpty'
    BY <1>1 DEF ObjectInv, ClosedIsEmpty
  <1> QED
    BY <1>3, <1>4, <1>5 DEF ObjectInv

\* An operation starts: its object counts one more.
LEMMA ObjectsInitiate ==
    ASSUME FiberInv, ObjectInv, NEW f \in Fiber, NEW o \in Obj, NEW io, NEW closure, NEW lock, NEW ec,
           Running(f), Legal(o, io, closure), lock \in SUBSET (Handle \X Fd), ec \in {Nil, "error", "none"},
           Initiate(f, o, io, closure, lock, ec), ObjectsGrow
    PROVE  ObjectInv'
  <1>1. AllValid /\ op[f] = Nil
    BY Caller
  <1>2. /\ UNCHANGED <<kind, child, live, valid>> /\ nbusy' = Count(o, 1)
        /\ op' = [op EXCEPT ![f] = [obj |-> o, io |-> io, slot |-> ~Disabled(f),
                                    ec |-> ec, peer |-> Nil, lock |-> lock]]
    BY DEF Initiate, names
  <1>3. op \in [Fiber -> Operation \cup {Nil}]
    BY DEF FiberInv, CoreOK
  <1>4. AllValid' = AllValid
    BY <1>2 DEF AllValid
  <1>5. /\ nbusy \in [Obj -> Int] /\ nbusy' \in [Obj -> Int]
        /\ \A p \in Obj : nbusy'[p] = IF p = o /\ kind[o] \in Counted THEN nbusy[o] + 1 ELSE nbusy[p]
    BY <1>2 DEF ObjectInv, ObjectsOK, Count
  <1>6. ObjectsOK' /\ ChildrenAreSound'
    <2>1. ObjectsOK'
      BY <1>2, <1>5 DEF ObjectInv, ObjectsOK, ObjectsGrow
    <2> QED
      BY <1>2, <2>1, ChildrenStay
  <1>7. op'[f].obj = o /\ \A g \in Fiber : g # f => op'[g] = op[g]
    BY <1>2, <1>3
  <1>8. op'[f] # Nil
    <2> DEFINE r == [obj |-> o, io |-> io, slot |-> ~Disabled(f), ec |-> ec, peer |-> Nil, lock |-> lock]
    <2>1. r \in Operation
      BY DEF Operation, Legal, Disabled
    <2>2. op'[f] = r
      BY <1>2, <1>3
    <2> HIDE DEF r
    <2> QED
      BY <2>1, <2>2, IoSystemAssumption
  <1>9. OpsOn(o)' = OpsOn(o) \cup {f} /\ f \notin OpsOn(o) /\ \A p \in Obj : p # o => OpsOn(p)' = OpsOn(p)
    BY <1>1, <1>7, <1>8 DEF OpsOn
  <1>10. NbusyIsExact'
    <2> SUFFICES ASSUME NEW p \in Obj
                 PROVE  nbusy'[p] = IF live'[p] /\ kind'[p] \in Counted
                                    THEN Cardinality(OpsOn(p)') ELSE 0
      BY DEF NbusyIsExact
    <2>1. CASE p = o /\ kind[o] \in Counted
      <3>1. live[o] /\ nbusy[o] = Cardinality(OpsOn(o))
        BY <2>1 DEF Legal, ObjectInv, NbusyIsExact
      <3>2. Cardinality(OpsOn(o) \cup {f}) = Cardinality(OpsOn(o)) + 1
        BY <1>9, FS_AddElement, OpsFinite
      <3> QED
        BY <1>2, <1>5, <1>9, <2>1, <3>1, <3>2
    <2>2. CASE p # o
      BY <1>2, <1>5, <1>9, <2>2, CountStays
    <2>3. CASE p = o /\ kind[o] \notin Counted
      BY <1>2, <1>5, <2>3 DEF ObjectInv, NbusyIsExact
    <2> QED
      BY <2>1, <2>2, <2>3
  <1>11. CountedAreLive'
    BY <1>1, <1>2, <1>7 DEF ObjectInv, CountedAreLive, Legal
  <1> QED
    BY <1>1, <1>4, <1>6, <1>10, <1>11 DEF ObjectInv, ClosedIsEmpty

\* The handler of an operation resumes its fiber: its object counts one less.
LEMMA ObjectsWake ==
    ASSUME FiberInv, ObjectInv, NEW f \in Fiber, op[f] # Nil, AllValid,
           op' = [op EXCEPT ![f] = Nil], nbusy' = Count(op[f].obj, -1), UNCHANGED <<kind, valid>>,
           live' \in [Obj -> BOOLEAN], native' \in [Obj -> Fd \cup {Nil}],
           child' \in [Obj -> Process \cup {Nil}], ChildrenAreSound',
           \A o \in Obj : live[o] => live'[o]
    PROVE  ObjectInv'
  <1>1. op \in [Fiber -> Operation \cup {Nil}] /\ op[f].obj \in Obj
    BY OpTypes DEF FiberInv, CoreOK
  <1>2. AllValid' = AllValid
    BY DEF AllValid
  <1>0. PICK o \in Obj : o = op[f].obj
    BY <1>1
  <1>3. /\ nbusy \in [Obj -> Int] /\ nbusy' \in [Obj -> Int]
        /\ \A p \in Obj : nbusy'[p] = IF p = o /\ kind[o] \in Counted THEN nbusy[o] - 1 ELSE nbusy[p]
    BY <1>0 DEF ObjectInv, ObjectsOK, Count
  <1>4. op'[f] = Nil /\ \A g \in Fiber : g # f => op'[g] = op[g]
    BY <1>1
  <1>5. OpsOn(o)' = OpsOn(o) \ {f} /\ f \in OpsOn(o) /\ \A p \in Obj : p # o => OpsOn(p)' = OpsOn(p)
    BY <1>0, <1>4 DEF OpsOn
  <1>6. NbusyIsExact'
    <2> SUFFICES ASSUME NEW p \in Obj
                 PROVE  nbusy'[p] = IF live'[p] /\ kind'[p] \in Counted
                                    THEN Cardinality(OpsOn(p)') ELSE 0
      BY DEF NbusyIsExact
    <2>1. CASE p = o /\ kind[o] \in Counted
      <3>1. live[o] /\ nbusy[o] = Cardinality(OpsOn(o))
        BY <1>0, <2>1 DEF ObjectInv, CountedAreLive, NbusyIsExact
      <3>2. Cardinality(OpsOn(o) \ {f}) = Cardinality(OpsOn(o)) - 1
        BY <1>5, FS_RemoveElement, OpsFinite
      <3> QED
        BY <1>3, <1>5, <2>1, <3>1, <3>2
    <2>2. CASE p # o
      BY <1>3, <1>5, <2>2, CountStays
    <2>3. CASE p = o /\ kind[o] \notin Counted
      BY <1>3, <2>3 DEF ObjectInv, NbusyIsExact
    <2> QED
      BY <2>1, <2>2, <2>3
  <1>7. CountedAreLive'
    BY <1>1, <1>4, OpTypes DEF ObjectInv, CountedAreLive
  <1> QED
    BY <1>2, <1>3, <1>6, <1>7 DEF ObjectInv, ObjectsOK, ClosedIsEmpty

\* The handler of an operation finds its VM closed.
LEMMA ObjectsDropped ==
    ASSUME FiberInv, ObjectInv, NEW f \in Fiber, op[f] # Nil, ~AllValid,
           op' = [op EXCEPT ![f] = Nil], UNCHANGED <<objVars, valid, handle>>
    PROVE  ObjectInv'
  <1>1. /\ UNCHANGED <<kind, live, native, nbusy, child, handle>> /\ ~AllValid'
        /\ \A o \in Obj : ~live[o]
    BY DEF objVars, names, AllValid, ObjectInv, ClosedIsEmpty
  <1>2. NbusyIsExact'
    BY <1>1 DEF ObjectInv, NbusyIsExact
  <1>3. ObjectsOK' /\ ChildrenAreSound' /\ ClosedIsEmpty' /\ CountedAreLive'
    BY <1>1 DEF ObjectInv, ObjectsOK, ChildrenAreSound, ClosedIsEmpty, CountedAreLive
  <1> QED
    BY <1>2, <1>3 DEF ObjectInv

\* ~subprocess() leaves the child that it had to a reaper.
LEMMA Orphans ==
    ASSUME ObjectInv, NEW os \in SUBSET Obj
    PROVE  /\ Orphaned(os) \in [Obj -> Process \cup {Nil}]
           /\ \A o \in Obj : /\ Orphaned(os)[o] = Nil <=> child[o] = Nil
                             /\ o \notin os => Orphaned(os)[o] = child[o]
                             /\ native[o] = Nil => Orphaned(os)[o] = child[o]
                             /\ child[o] # Nil /\ native[o] # Nil /\ o \in os
                                  => Orphaned(os)[o].reaper = native[o]
  <1>1. /\ child \in [Obj -> Process \cup {Nil}] /\ native \in [Obj -> Fd \cup {Nil}]
        /\ Nil \notin Process
    BY IoSystemAssumption DEF ObjectInv, ObjectsOK
  <1>2. ASSUME NEW r \in Process, NEW d \in Fd
        PROVE  [r EXCEPT !.reaper = d] \in Process /\ [r EXCEPT !.reaper = d].reaper = d
    BY DEF Process
  <1>3. ASSUME NEW o \in Obj
        PROVE  /\ Orphaned(os)[o] \in Process \cup {Nil}
               /\ Orphaned(os)[o] = Nil <=> child[o] = Nil
               /\ o \notin os => Orphaned(os)[o] = child[o]
               /\ native[o] = Nil => Orphaned(os)[o] = child[o]
               /\ child[o] # Nil /\ native[o] # Nil /\ o \in os
                     => Orphaned(os)[o].reaper = native[o]
    <2>1. CASE o \in os /\ child[o] # Nil /\ native[o] # Nil
      <3>1. Orphaned(os)[o] = [child[o] EXCEPT !.reaper = native[o]]
        BY <2>1 DEF Orphaned
      <3>2. child[o] \in Process /\ native[o] \in Fd
        BY <1>1, <2>1
      <3> QED
        BY <1>1, <1>2, <2>1, <3>1, <3>2
    <2>2. CASE ~(o \in os /\ child[o] # Nil /\ native[o] # Nil)
      BY <1>1, <2>2 DEF Orphaned
    <2> QED
      BY <2>1, <2>2
  <1>4. Orphaned(os) = [o \in Obj |-> Orphaned(os)[o]]
    BY DEF Orphaned
  <1> QED
    BY <1>3, <1>4

\* An object that is collected has no operations, but for those that a TLS socket got
\* with a TCP socket: they end.
LEMMA Collected ==
    ASSUME FiberInv, NEW f \in Fiber, NEW o \in Obj, CollectObject(f, o)
    PROVE  /\ OpsStay /\ OpsAdvance /\ NoneAborted
           /\ \A g \in Fiber : op[g] # Nil => op'[g].lock = op[g].lock /\ op'[g].peer = op[g].peer
           /\ kind[o] \in Counted => OpsOn(o) = {}
  <1>1. op' = Aborted(OpsOn(o)) /\ Holding(o) = {}
    BY DEF CollectObject
  <1>2. kind[o] # "tls_socket" => OpsOn(o) = {}
    BY <1>1 DEF Holding
  <1>3. /\ OpsAdvance
        /\ \A g \in Fiber : op'[g] # op[g] => g \in OpsOn(o) /\ op[g] # Nil
        /\ \A g \in Fiber : op[g] # Nil => /\ op'[g].obj = op[g].obj /\ op'[g].io = op[g].io
                                          /\ op'[g].lock = op[g].lock /\ op'[g].peer = op[g].peer
    BY <1>1, AbortAdvances
  <1>4. OpsStay
    BY <1>3 DEF OpsStay, OpsAdvance
  <1>5. NoneAborted
    <2> SUFFICES ASSUME NEW g \in Fiber, op'[g] # Nil, op'[g].io \in {"sleep", "child"}
                 PROVE  op'[g] = op[g]
      BY DEF NoneAborted
    <2>1. op[g] # Nil /\ op[g].io \in {"sleep", "child"}
      BY <1>3, <1>4 DEF OpsStay
    <2>2. kind[op[g].obj] # "tls_socket"
      BY <2>1 DEF FiberInv, OpsAreSound, OpIsSound
    <2> QED
      BY <1>2, <1>3, <2>2 DEF OpsOn
  <1> QED
    BY <1>2, <1>3, <1>4, <1>5 DEF Counted

\* An object is collected.
LEMMA ObjectsCollect ==
    ASSUME FiberInv, ObjectInv, NEW f \in Fiber, NEW o \in Obj, CollectObject(f, o)
    PROVE  ObjectInv'
  <1>1. /\ AllValid /\ UNCHANGED <<kind, nbusy, valid, handle>>
        /\ live' = [live EXCEPT ![o] = FALSE] /\ native' = [native EXCEPT ![o] = Nil]
        /\ child' = Orphaned({o})
    BY Caller DEF CollectObject, coreVars
  <1>2. AllValid' /\ OpsStay /\ (kind[o] \in Counted => OpsOn(o) = {})
    BY <1>1, Collected DEF AllValid
  <1>3. /\ live \in [Obj -> BOOLEAN] /\ native \in [Obj -> Fd \cup {Nil}]
    BY DEF ObjectInv, ObjectsOK
  <1>4. /\ child' \in [Obj -> Process \cup {Nil}]
        /\ \A p \in Obj : (child'[p] = Nil <=> child[p] = Nil) /\ (p # o => child'[p] = child[p])
    BY <1>1, Orphans
  <1>5. ObjectsOK' /\ ChildrenAreSound'
    BY SMTT(30), <1>1, <1>3, <1>4 DEF ObjectInv, ObjectsOK, ChildrenAreSound
  <1>6. \A p \in Obj : OpsOn(p)' = OpsOn(p)
    BY <1>2 DEF OpsOn, OpsStay
  <1>7. NbusyIsExact'
    BY <1>1, <1>2, <1>3, <1>6, FS_EmptySet DEF ObjectInv, NbusyIsExact
  <1>8. CountedAreLive'
    BY <1>1, <1>2, <1>3, OpTypes DEF ObjectInv, CountedAreLive, OpsOn, OpsStay
  <1> QED
    BY <1>2, <1>5, <1>7, <1>8 DEF ObjectInv, ClosedIsEmpty

\* A TCP socket is moved into a TLS socket.
LEMMA ObjectsMove ==
    ASSUME FiberInv, ObjectInv, AllValid, NEW o \in Obj, NEW p \in Obj,
           kind[o] = "tcp_socket", kind[p] = "tls_socket",
           live' = [live EXCEPT ![o] = FALSE, ![p] = TRUE],
           native' = [native EXCEPT ![o] = Nil, ![p] = native[o]],
           nbusy' = [nbusy EXCEPT ![o] = 0],
           \A f \in Fiber : /\ op'[f] = Nil <=> op[f] = Nil
                            /\ op[f] # Nil => op'[f].obj = IF op[f].obj = o THEN p ELSE op[f].obj,
           UNCHANGED <<kind, child, valid>>
    PROVE  ObjectInv'
  <1>1. AllValid' /\ o # p
    BY DEF AllValid
  <1>2. /\ live \in [Obj -> BOOLEAN] /\ native \in [Obj -> Fd \cup {Nil}] /\ nbusy \in [Obj -> Int]
    BY DEF ObjectInv, ObjectsOK
  <1>3. ObjectsOK' /\ ChildrenAreSound'
    <2>1. ObjectsOK'
      <3>1. live' \in [Obj -> BOOLEAN]
        BY <1>2
      <3>2. native' \in [Obj -> Fd \cup {Nil}] /\ nbusy' \in [Obj -> Int]
        BY <1>2
      <3> QED
        BY <3>1, <3>2 DEF ObjectInv, ObjectsOK
    <2>2. /\ native'[o] = Nil /\ live'[p] /\ ~live'[o]
          /\ \A q \in Obj : q \notin {o, p} => native'[q] = native[q] /\ live'[q] = live[q]
      BY <1>1, <1>2
    <2>3. \A q \in {o, p} : child[q] = Nil /\ kind[q] # "subprocess"
      BY DEF ObjectInv, ChildrenAreSound
    <2> QED
      BY ZenonT(60), <2>1, <2>2, <2>3 DEF ObjectInv, ChildrenAreSound
  <1>4. \A q \in Obj : q \notin {o, p} => OpsOn(q)' = OpsOn(q)
    BY DEF OpsOn
  <1>5. NbusyIsExact'
    BY <1>1, <1>2, <1>4 DEF ObjectInv, NbusyIsExact, Counted
  <1>6. CountedAreLive'
    BY <1>1, <1>2, OpTypes DEF ObjectInv, CountedAreLive, Counted
  <1> QED
    BY <1>1, <1>3, <1>5, <1>6 DEF ObjectInv, ClosedIsEmpty

\* The VM is closed.
LEMMA ObjectsClose ==
    ASSUME FiberInv, ObjectInv, NEW v \in Vm, CloseIo(v)
    PROVE  ObjectInv'
  <1>1. /\ live' = [o \in Obj |-> FALSE] /\ native' = [o \in Obj |-> Nil]
        /\ nbusy' = [o \in Obj |-> 0] /\ handle' = [h \in Handle |-> Nil]
        /\ child' = Orphaned(Obj) /\ valid' = [valid EXCEPT ![v] = FALSE] /\ UNCHANGED kind
    BY DEF CloseIo, CloseVm
  <1>2. ~AllValid'
    BY <1>1 DEF AllValid, FiberInv, CoreOK, CoreTypeOK
  <1>3. /\ child' \in [Obj -> Process \cup {Nil}]
        /\ \A p \in Obj : child'[p] = Nil <=> child[p] = Nil
    BY <1>1, Orphans
  <1>4. ObjectsOK' /\ ChildrenAreSound'
    BY <1>1, <1>3 DEF ObjectInv, ObjectsOK, ChildrenAreSound
  <1>5. NbusyIsExact'
    BY <1>1 DEF NbusyIsExact
  <1> QED
    BY <1>1, <1>2, <1>4, <1>5 DEF ObjectInv, ClosedIsEmpty, CountedAreLive

-----------------------------------------------------------------------------
(* Descriptors and who would close them: what changes hands.                 *)

\* Of the members of S those in xs, who had none, get descriptors that are nobody's.
Gain(fun, fun1, S, xs) ==
    /\ xs \subseteq S
    /\ \A x \in S \ xs : fun1[x] = fun[x]
    /\ \A x \in xs : fun[x] \notin Fd /\ fun1[x] \in Fd /\ fun1[x] \notin FdsOf(fun, S)
    /\ \A x, y \in xs : fun1[x] = fun1[y] => x = y

\* Those in xs give up the descriptors they had.
Lose(fun, fun1, S, xs) ==
    /\ xs \subseteq S
    /\ \A x \in S \ xs : fun1[x] = fun[x]
    /\ \A x \in xs : fun1[x] \notin Fd

\* Members that get new descriptors have them once, in addition to the old ones.
LEMMA Gains ==
    ASSUME NEW fun, NEW fun1, NEW S, NEW xs, Gain(fun, fun1, S, xs), NoFdTwice(fun, S)
    PROVE  /\ NoFdTwice(fun1, S)
           /\ FdsOf(fun1, S) = FdsOf(fun, S) \cup FdsOf(fun1, xs)
  <1>1. NoFdTwice(fun1, S)
    BY DEF Gain, NoFdTwice, FdsOf
  <1>2. ASSUME NEW d, d \in FdsOf(fun1, S) PROVE d \in FdsOf(fun, S) \/ d \in FdsOf(fun1, xs)
    BY <1>2 DEF Gain, FdsOf
  <1>3. ASSUME NEW d, d \in FdsOf(fun, S) PROVE d \in FdsOf(fun1, S)
    BY <1>3 DEF Gain, FdsOf
  <1>4. ASSUME NEW d, d \in FdsOf(fun1, xs) PROVE d \in FdsOf(fun1, S)
    BY <1>4 DEF Gain, FdsOf
  <1> QED
    BY <1>1, <1>2, <1>3, <1>4

\* Members that lose their descriptors leave the others what they had.
LEMMA Losses ==
    ASSUME NEW fun, NEW fun1, NEW S, NEW xs, Lose(fun, fun1, S, xs), NoFdTwice(fun, S)
    PROVE  /\ NoFdTwice(fun1, S)
           /\ FdsOf(fun1, S) = FdsOf(fun, S) \ FdsOf(fun, xs)
  <1>1. NoFdTwice(fun1, S)
    BY DEF Lose, NoFdTwice
  <1>2. ASSUME NEW d, d \in FdsOf(fun1, S) PROVE d \in FdsOf(fun, S) /\ d \notin FdsOf(fun, xs)
    <2>1. PICK x \in S \ xs : d = fun[x]
      BY <1>2 DEF Lose, FdsOf
    <2>2. d \in Fd
      BY <1>2 DEF FdsOf
    <2>3. ASSUME NEW y \in xs, d = fun[y] PROVE FALSE
      BY <2>1, <2>2, <2>3 DEF Lose, NoFdTwice
    <2> QED
      BY <2>1, <2>2, <2>3 DEF FdsOf
  <1>3. ASSUME NEW d, d \in FdsOf(fun, S), d \notin FdsOf(fun, xs) PROVE d \in FdsOf(fun1, S)
    BY <1>3 DEF Lose, FdsOf
  <1> QED
    BY <1>1, <1>2, <1>3

\* The locks, the accepted connections and the reapers stay the same.
LockIn(r) == IF r = Nil THEN {} ELSE r.lock
PeerIn(r) == IF r = Nil THEN Nil ELSE r.peer
ReaperIn(c) == IF c = Nil THEN Nil ELSE c.reaper

OthersStay ==
    /\ \A f \in Fiber : LockIn(op'[f]) = LockIn(op[f]) /\ PeerIn(op'[f]) = PeerIn(op[f])
    /\ \A o \in Obj : ReaperIn(child'[o]) = ReaperIn(child[o])

LocksSame == \A f \in Fiber : LockIn(op'[f]) = LockIn(op[f])

BusyStay == \A h \in Handle : handle'[h] = Busy <=> handle[h] = Busy

\* Handles are locked as before.
LEMMA LocksStay ==
    ASSUME FiberInv, FdInv, LocksSame, BusyStay, AllValid' => AllValid
    PROVE  LocksAreSound' /\ LocksOf(op') = LocksOf(op)
  <1>1. ASSUME NEW f \in Fiber, NEW l
        PROVE  (op'[f] # Nil /\ l \in op'[f].lock) <=> (op[f] # Nil /\ l \in op[f].lock)
    BY DEF LocksSame, LockIn
  <1>2. LocksOf(op') = LocksOf(op)
    BY <1>1 DEF LocksOf
  <1>3. ASSUME NEW f \in Fiber, NEW g \in Fiber, op'[f] # Nil, op'[g] # Nil,
               NEW l \in op'[f].lock, NEW m \in op'[g].lock, l[1] = m[1]
        PROVE  f = g /\ l = m
    BY <1>1, <1>3 DEF FdInv, LocksAreSound
  <1>4. ASSUME AllValid', NEW f \in Fiber, op'[f] # Nil, NEW l \in op'[f].lock
        PROVE  handle'[l[1]] = Busy
    <2>1. op[f] # Nil /\ l \in op[f].lock /\ AllValid
      BY <1>1, <1>4
    <2>2. handle[l[1]] = Busy
      BY <2>1 DEF FdInv, LocksAreSound
    <2>3. l[1] \in Handle
      BY <2>1, OpTypes
    <2> QED
      BY <2>2, <2>3 DEF BusyStay
  <1>5. ASSUME NEW h \in Handle, handle'[h] = Busy
        PROVE  \E f \in Fiber : op'[f] # Nil /\ \E l \in op'[f].lock : l[1] = h
    <2>1. PICK f \in Fiber : op[f] # Nil /\ \E l \in op[f].lock : l[1] = h
      BY <1>5 DEF FdInv, LocksAreSound, BusyStay
    <2> QED
      BY <1>1, <2>1
  <1> QED
    BY <1>2, <1>3, <1>4, <1>5 DEF LocksAreSound

\* Descriptors change hands, some are opened and some are closed.
LEMMA FdsReshared ==
    ASSUME FiberInv, FdInv, LocksSame, BusyStay, AllValid' => AllValid, DescriptorsOK',
           NoFdTwice(native', Obj), NoFdTwice(handle', Handle), NoFdTwice(PeerOf(op'), Fiber),
           NoFdTwice(ReaperOf(child'), Obj),
           SharedOut(openFd', FdsOf(native', Obj), FdsOf(handle', Handle), FdsOf(PeerOf(op'), Fiber),
                     FdsOf(ReaperOf(child'), Obj), FdsOf(LockedFd, LocksOf(op)), lost')
    PROVE  FdInv'
  <1>1. LocksAreSound' /\ LocksOf(op') = LocksOf(op)
    BY LocksStay
  <1>2. OpenIsOwnedOnce'
    BY <1>1 DEF FdInv, OpenIsOwnedOnce, LockedFd
  <1> QED
    BY <1>1, <1>2 DEF FdInv

\* Objects and handles exchange descriptors, open some and close some.
LEMMA FdsShared ==
    ASSUME FiberInv, FdInv, OthersStay, BusyStay, AllValid' => AllValid, DescriptorsOK',
           NoFdTwice(native', Obj), NoFdTwice(handle', Handle),
           SharedOut(openFd', FdsOf(native', Obj), FdsOf(handle', Handle), FdsOf(PeerOf(op), Fiber),
                     FdsOf(ReaperOf(child), Obj), FdsOf(LockedFd, LocksOf(op)), lost')
    PROVE  FdInv'
  <1>1. LocksSame
    BY DEF OthersStay, LocksSame
  <1>2. PeerOf(op') = PeerOf(op)
    BY DEF PeerOf, PeerIn, OthersStay
  <1>3. ReaperOf(child') = ReaperOf(child)
    BY DEF ReaperOf, ReaperIn, OthersStay
  <1>4. NoFdTwice(PeerOf(op'), Fiber) /\ NoFdTwice(ReaperOf(child'), Obj)
    BY <1>2, <1>3 DEF FdInv, OpenIsOwnedOnce
  <1> QED
    BY <1>1, <1>2, <1>3, <1>4, FdsReshared

\* No descriptor changes hands.
LEMMA FdsStay ==
    ASSUME FiberInv, FdInv, OthersStay, AllValid' => AllValid,
           UNCHANGED <<native, handle, openFd, lost>>
    PROVE  FdInv'
  <1>1. BusyStay
    BY DEF BusyStay
  <1>2. DescriptorsOK'
    BY DEF FdInv, DescriptorsOK
  <1> QED
    BY <1>1, <1>2, FdsShared DEF FdInv, OpenIsOwnedOnce

\* A call that returns at once: at most operations on one object are aborted, and
\* objects are created, opened and closed.
QuietCall(f) ==
    /\ Running(f) /\ StillCore /\ ObjectsGrow
    /\ UNCHANGED <<nbusy, child>>
    /\ \/ op' = op
       \/ \E o \in Obj : /\ kind[o] \notin {"sleep_for_operation", "subprocess"}
                         /\ op' = Aborted(OpsOn(o))

\* Such a call preserves what is said of fibers, operations and objects.
LEMMA Quiet ==
    ASSUME Inv, NEW f \in Fiber, QuietCall(f)
    PROVE  FiberInv' /\ ObjectInv' /\ OthersStay /\ AllValid /\ AllValid'
  <1>1. AllValid /\ FiberInv /\ ObjectInv
    BY Caller DEF Inv, QuietCall
  <1>2. UNCHANGED <<kind, valid, nbusy, child>> /\ AllValid'
    BY <1>1 DEF QuietCall, StillCore, coreVars, AllValid
  <1>3. ObjectsOK' /\ ChildrenAreSound'
    <2>1. ObjectsOK'
      BY <1>1, <1>2 DEF QuietCall, ObjectInv, ObjectsOK, ObjectsGrow
    <2> QED
      BY <1>1, <1>2, <2>1, ChildrenStay DEF QuietCall
  <1>4. FiberInv' /\ OpsStay /\ OthersStay
    <2>1. CASE op' = op
      <3>1. OpsAdvance /\ NoneAborted
        BY <1>1, <2>1 DEF OpsAdvance, NoneAborted, FiberInv, CoreOK
      <3> QED
        BY <1>1, <1>2, <2>1, <3>1, FiberStill DEF QuietCall, OpsStay, OthersStay
    <2>2. CASE op' # op
      <3>1. PICK o \in Obj : /\ kind[o] \notin {"sleep_for_operation", "subprocess"}
                             /\ op' = Aborted(OpsOn(o))
        BY <2>2 DEF QuietCall
      <3>2. FiberInv'
        BY <1>1, <3>1, FiberAborts DEF QuietCall
      <3>3. OpsAdvance /\ \A g \in Fiber : op[g] # Nil =>
                /\ op'[g].obj = op[g].obj /\ op'[g].lock = op[g].lock /\ op'[g].peer = op[g].peer
        BY <1>1, <3>1, AbortAdvances
      <3>4. \A g \in Fiber : op'[g] = Nil <=> op[g] = Nil
        BY <3>3 DEF OpsAdvance
      <3>5. OthersStay
        BY <1>2, <3>3, <3>4 DEF OthersStay, LockIn, PeerIn
      <3> QED
        BY <3>2, <3>3, <3>4, <3>5 DEF OpsStay
    <2> QED
      BY <2>1, <2>2
  <1>5. ObjectInv'
    BY <1>1, <1>2, <1>3, <1>4, ObjectsStay DEF QuietCall, ObjectsGrow
  <1> QED
    BY <1>1, <1>2, <1>4, <1>5

\* A call that only answers.
LEMMA RepliesInv ==
    ASSUME Inv, NEW f \in Fiber, Replies(f)
    PROVE  Inv'
  <1>1. UNCHANGED <<native, handle, openFd, lost, live, op, nbusy, child>> /\ StillCore /\ Running(f)
    BY DEF Replies, Answer, Return, StillCore, coreVars, fiberData, ioVars, objVars, fdVars, names
  <1>2. QuietCall(f)
    BY <1>1 DEF QuietCall, ObjectsGrow, Inv, ObjectInv, ObjectsOK
  <1> QED
    BY <1>1, <1>2, Quiet, FdsStay DEF Inv

\* The kernel's descriptors are new.
LEMMA LowestIsNew ==
    ASSUME NEW fds, NEW d \in Lowest(fds)
    PROVE  d \in Fd /\ d \notin fds
  BY DEF Lowest

\* What the invariant says of the descriptors of objects and handles.
LEMMA Holders ==
    ASSUME Inv
    PROVE  /\ native \in [Obj -> Fd \cup {Nil}] /\ handle \in [Handle -> Fd \cup {Nil, Busy}]
           /\ openFd \subseteq Fd /\ lost \subseteq Fd
           /\ NoFdTwice(native, Obj) /\ NoFdTwice(handle, Handle)
           /\ FdsOf(native, Obj) \subseteq openFd /\ FdsOf(handle, Handle) \subseteq openFd
           /\ Nil \notin Fd /\ Busy \notin Fd /\ Busy # Nil
           /\ \A o \in Obj : native[o] # Nil => native[o] \in FdsOf(native, Obj)
           /\ \A h \in Handle : handle[h] \in Fd => handle[h] \in FdsOf(handle, Handle)
  <1>1. /\ native \in [Obj -> Fd \cup {Nil}] /\ handle \in [Handle -> Fd \cup {Nil, Busy}]
        /\ openFd \subseteq Fd /\ lost \subseteq Fd
        /\ NoFdTwice(native, Obj) /\ NoFdTwice(handle, Handle)
    BY DEF Inv, ObjectInv, ObjectsOK, FdInv, DescriptorsOK, OpenIsOwnedOnce
  <1>2. FdsOf(native, Obj) \subseteq openFd /\ FdsOf(handle, Handle) \subseteq openFd
    BY DEF Inv, FdInv, OpenIsOwnedOnce, SharedOut
  <1>3. \A o \in Obj : native[o] # Nil => native[o] \in FdsOf(native, Obj)
    BY <1>1 DEF FdsOf
  <1>4. \A h \in Handle : handle[h] \in Fd => handle[h] \in FdsOf(handle, Handle)
    BY DEF FdsOf
  <1> QED
    BY <1>1, <1>2, <1>3, <1>4, IoAssumption

\* What one holder has.
LEMMA FdOfOne ==
    ASSUME NEW fun, NEW x
    PROVE  FdsOf(fun, {x}) = {fun[x]} \cap Fd
  BY DEF FdsOf

\* Objects and handles get new descriptors.
LEMMA FdsGain ==
    ASSUME Inv, OthersStay, AllValid, NEW os, NEW hs,
           Gain(native, native', Obj, os), Gain(handle, handle', Handle, hs),
           Apart(FdsOf(native', os), openFd), Apart(FdsOf(handle', hs), openFd),
           Apart(FdsOf(native', os), FdsOf(handle', hs)), BusyStay,
           handle' \in [Handle -> Fd \cup {Nil, Busy}], UNCHANGED lost,
           openFd' = openFd \cup FdsOf(native', os) \cup FdsOf(handle', hs)
    PROVE  FdInv'
  <1>1. NoFdTwice(native', Obj) /\ FdsOf(native', Obj) = FdsOf(native, Obj) \cup FdsOf(native', os)
    BY Holders, Gains
  <1>2. NoFdTwice(handle', Handle) /\ FdsOf(handle', Handle) = FdsOf(handle, Handle) \cup FdsOf(handle', hs)
    BY Holders, Gains
  <1>3. FdsOf(native', os) \subseteq Fd /\ FdsOf(handle', hs) \subseteq Fd
    BY DEF FdsOf
  <1>4. DescriptorsOK'
    BY <1>3 DEF Inv, FdInv, DescriptorsOK
  <1>5. SharedOut(openFd', FdsOf(native', Obj), FdsOf(handle', Handle), FdsOf(PeerOf(op), Fiber),
                  FdsOf(ReaperOf(child), Obj), FdsOf(LockedFd, LocksOf(op)), lost')
    BY <1>1, <1>2 DEF Inv, FdInv, OpenIsOwnedOnce, SharedOut, Apart
  <1> QED
    BY <1>1, <1>2, <1>4, <1>5, FdsShared DEF Inv

\* The descriptors of objects and handles are closed.
LEMMA FdsLose ==
    ASSUME Inv, OthersStay, AllValid, NEW os, NEW hs,
           Lose(native, native', Obj, os), Lose(handle, handle', Handle, hs), BusyStay,
           handle' \in [Handle -> Fd \cup {Nil, Busy}], UNCHANGED lost,
           openFd' = openFd \ (FdsOf(native, os) \cup FdsOf(handle, hs))
    PROVE  FdInv'
  <1>1. NoFdTwice(native', Obj) /\ FdsOf(native', Obj) = FdsOf(native, Obj) \ FdsOf(native, os)
    BY Holders, Losses
  <1>2. NoFdTwice(handle', Handle) /\ FdsOf(handle', Handle) = FdsOf(handle, Handle) \ FdsOf(handle, hs)
    BY Holders, Losses
  <1>3. FdsOf(native, os) \subseteq FdsOf(native, Obj) /\ FdsOf(handle, hs) \subseteq FdsOf(handle, Handle)
    BY DEF FdsOf, Lose
  <1>4. DescriptorsOK'
    BY DEF Inv, FdInv, DescriptorsOK
  <1>5. SharedOut(openFd', FdsOf(native', Obj), FdsOf(handle', Handle), FdsOf(PeerOf(op), Fiber),
                  FdsOf(ReaperOf(child), Obj), FdsOf(LockedFd, LocksOf(op)), lost')
    BY <1>1, <1>2, <1>3 DEF Inv, FdInv, OpenIsOwnedOnce, SharedOut, Apart
  <1> QED
    BY <1>1, <1>2, <1>4, <1>5, FdsShared DEF Inv

\* An object's descriptor goes to a handle, or is closed once the handle has a new one.
LEMMA FdsRelease ==
    ASSUME Inv, OthersStay, AllValid, NEW o, NEW h, NEW d, NEW e,
           Lose(native, native', Obj, {o}), Gain(handle, handle', Handle, {h}),
           native[o] = d, handle'[h] = e, BusyStay, o \in Obj, d \in Fd,
           handle' \in [Handle -> Fd \cup {Nil, Busy}], UNCHANGED lost,
           \/ e = d /\ UNCHANGED openFd
           \/ e \notin openFd /\ openFd' = (openFd \cup {e}) \ {d}
    PROVE  FdInv'
  <1>0. d \in FdsOf(native, Obj) /\ e \in Fd
    BY Holders DEF Gain
  <1>1. NoFdTwice(native', Obj) /\ FdsOf(native', Obj) = FdsOf(native, Obj) \ {d}
    <2>1. FdsOf(native, {o}) = {d}
      BY FdOfOne
    <2> QED
      BY <2>1, Holders, Losses
  <1>2. NoFdTwice(handle', Handle) /\ FdsOf(handle', Handle) = FdsOf(handle, Handle) \cup {e}
    <2>1. FdsOf(handle', {h}) = {e}
      BY <1>0 DEF FdsOf
    <2> QED
      BY SMTT(30), <2>1, Holders, Gains
  <1>3. DescriptorsOK'
    BY <1>0 DEF Inv, FdInv, DescriptorsOK
  <1>4. SharedOut(openFd', FdsOf(native', Obj), FdsOf(handle', Handle), FdsOf(PeerOf(op), Fiber),
                  FdsOf(ReaperOf(child), Obj), FdsOf(LockedFd, LocksOf(op)), lost')
    BY <1>0, <1>1, <1>2 DEF Inv, FdInv, OpenIsOwnedOnce, SharedOut, Apart
  <1> QED
    BY <1>1, <1>2, <1>3, <1>4, FdsShared DEF Inv

\* A new descriptor is lost.
LEMMA FdsLost ==
    ASSUME Inv, OthersStay, AllValid, NEW d \in Lowest(openFd), lost' = lost \cup {d},
           openFd' = openFd \cup {d}, UNCHANGED <<native, handle>>
    PROVE  FdInv'
  <1>1. d \in Fd /\ d \notin openFd
    BY LowestIsNew
  <1>2. DescriptorsOK' /\ BusyStay
    BY <1>1 DEF Inv, FdInv, DescriptorsOK, BusyStay
  <1>3. SharedOut(openFd', FdsOf(native, Obj), FdsOf(handle, Handle), FdsOf(PeerOf(op), Fiber),
                  FdsOf(ReaperOf(child), Obj), FdsOf(LockedFd, LocksOf(op)), lost')
    BY <1>1 DEF Inv, FdInv, OpenIsOwnedOnce, SharedOut, Apart
  <1> QED
    BY <1>2, <1>3, Holders, FdsShared DEF Inv

\* Asio's assign(): a handle's descriptor goes to an object, or is lost.
LEMMA FdsAdopt ==
    ASSUME Inv, OthersStay, AllValid, NEW o, NEW h \in Handle, NEW d \in Fd, handle[h] = d,
           Lose(handle, handle', Handle, {h}), BusyStay,
           \/ Gain(native, native', Obj, {o}) /\ native'[o] = d /\ lost' = lost
           \/ UNCHANGED native /\ lost' = lost \cup {d},
           handle' \in [Handle -> Fd \cup {Nil, Busy}], UNCHANGED openFd
    PROVE  FdInv'
  <1>1. NoFdTwice(handle', Handle) /\ FdsOf(handle', Handle) = FdsOf(handle, Handle) \ {d}
    <2>1. NoFdTwice(handle, Handle) /\ FdsOf(handle, {h}) = {d}
      BY Holders, FdOfOne
    <2> QED
      BY <2>1, Losses
  <1>2. d \in FdsOf(handle, Handle) /\ d \in openFd
    BY Holders
  <1>3. DescriptorsOK'
    BY <1>2 DEF Inv, FdInv, DescriptorsOK
  <1>4. CASE Gain(native, native', Obj, {o}) /\ native'[o] = d /\ lost' = lost
    <2>1. NoFdTwice(native', Obj) /\ FdsOf(native', Obj) = FdsOf(native, Obj) \cup {d}
      <3>1. NoFdTwice(native, Obj) /\ FdsOf(native', {o}) = {d}
        BY <1>4, Holders, FdOfOne
      <3> QED
        BY <1>4, <3>1, Gains
    <2>2. SharedOut(openFd', FdsOf(native', Obj), FdsOf(handle', Handle), FdsOf(PeerOf(op), Fiber),
                    FdsOf(ReaperOf(child), Obj), FdsOf(LockedFd, LocksOf(op)), lost')
      BY <1>1, <1>2, <1>4, <2>1 DEF Inv, FdInv, OpenIsOwnedOnce, SharedOut, Apart
    <2> QED
      BY <1>1, <1>3, <2>1, <2>2, FdsShared DEF Inv
  <1>5. CASE UNCHANGED native /\ lost' = lost \cup {d}
    <2>1. SharedOut(openFd', FdsOf(native, Obj), FdsOf(handle', Handle), FdsOf(PeerOf(op), Fiber),
                    FdsOf(ReaperOf(child), Obj), FdsOf(LockedFd, LocksOf(op)), lost')
      BY <1>1, <1>2, <1>5 DEF Inv, FdInv, OpenIsOwnedOnce, SharedOut, Apart
    <2> QED
      BY <1>1, <1>3, <1>5, <2>1, Holders, FdsShared DEF Inv
  <1> QED
    BY <1>4, <1>5

-----------------------------------------------------------------------------
(* The calls preserve the invariant.                                         *)

\* A method of an object that no sleep() and no child is involved in.
OnObject(f, o) == Running(f) /\ live[o] /\ kind[o] \in Ordinary

\* An ordinary object is none of those whose operations have a rule of their own.
LEMMA NotSpecial ==
    ASSUME NEW o, kind[o] \in Ordinary
    PROVE  kind[o] \notin {"sleep_for_operation", "subprocess", "tcp_resolver", "udp_resolver"}
  BY DEF Ordinary

\* New descriptors are given to one object.
LEMMA OneOpens ==
    ASSUME Inv, OthersStay, AllValid, NEW o \in Obj, NEW d \in Lowest(openFd), native[o] = Nil,
           native'[o] = d, \A p \in Obj : p # o => native'[p] = native[p],
           openFd' = openFd \cup {d}, UNCHANGED <<handle, lost>>
    PROVE  FdInv'
  <1>1. d \in Fd /\ d \notin openFd
    BY LowestIsNew
  <1>2. Gain(native, native', Obj, {o})
    BY <1>1, Holders DEF Gain
  <1>3. FdsOf(native', {o}) = {d}
    BY <1>1 DEF FdsOf
  <1>4. /\ Gain(handle, handle', Handle, {}) /\ FdsOf(handle', {}) = {} /\ BusyStay
        /\ handle' \in [Handle -> Fd \cup {Nil, Busy}]
    BY Holders DEF Gain, FdsOf, BusyStay
  <1>5. /\ Apart(FdsOf(native', {o}), openFd) /\ Apart(FdsOf(handle', {}), openFd)
        /\ Apart(FdsOf(native', {o}), FdsOf(handle', {}))
        /\ openFd' = openFd \cup FdsOf(native', {o}) \cup FdsOf(handle', {})
    BY <1>1, <1>3, <1>4 DEF Apart
  <1> QED
    BY <1>2, <1>4, <1>5, FdsGain

\* One object's descriptor is closed.
LEMMA OneCloses ==
    ASSUME Inv, OthersStay, AllValid, NEW o \in Obj,
           native'[o] = Nil, \A p \in Obj : p # o => native'[p] = native[p],
           openFd' = openFd \ {native[o]}, UNCHANGED <<handle, lost>>
    PROVE  FdInv'
  <1>1. Lose(native, native', Obj, {o})
    BY Holders DEF Lose
  <1>2. FdsOf(native, {o}) = {native[o]} \cap Fd
    BY FdOfOne
  <1>3. /\ Lose(handle, handle', Handle, {}) /\ FdsOf(handle, {}) = {} /\ BusyStay
        /\ handle' \in [Handle -> Fd \cup {Nil, Busy}]
    BY Holders DEF Lose, FdsOf, BusyStay
  <1>4. openFd' = openFd \ (FdsOf(native, {o}) \cup FdsOf(handle, {}))
    BY <1>2, <1>3, Holders
  <1> QED
    BY <1>1, <1>3, <1>4, FdsLose

\* open().
LEMMA OpenInv ==
    ASSUME Inv, NEW f \in Fiber, NEW o \in Obj, OnObject(f, o), Open(f, o)
    PROVE  Inv'
  <1>1. CASE Raise(f)
    BY <1>1, ErrorForms, RepliesInv DEF OnObject
  <1>2. CASE ~Raise(f)
    <2>1. PICK d \in Lowest(openFd) : native' = [native EXCEPT ![o] = d] /\ openFd' = openFd \cup {d}
      BY <1>2 DEF Open
    <2>2. /\ native[o] = Nil /\ StillCore
          /\ UNCHANGED <<kind, child, live, nbusy, handle, lost, op>>
      BY <1>2 DEF Open, OnObject, Return, StillCore, coreVars, fiberData, names, Results
    <2>3. d \in Fd /\ d \notin openFd
      BY LowestIsNew
    <2>4. /\ native' \in [Obj -> Fd \cup {Nil}] /\ native'[o] = d
          /\ \A p \in Obj : p # o => native'[p] = native[p]
      BY <2>1, <2>3, Holders
    <2>5. QuietCall(f)
      BY <2>2, <2>4, NotSpecial DEF QuietCall, ObjectsGrow, OnObject, Inv, ObjectInv, ObjectsOK
    <2>6. FiberInv' /\ ObjectInv' /\ OthersStay /\ AllValid
      BY <2>5, Quiet
    <2>7. FdInv'
      BY <2>1, <2>2, <2>4, <2>6, OneOpens
    <2> QED
      BY <2>6, <2>7 DEF Inv
  <1> QED
    BY <1>1, <1>2

\* open() of a serial port.
LEMMA OpenPortInv ==
    ASSUME Inv, NEW f \in Fiber, NEW o \in Obj, OnObject(f, o), OpenPort(f, o)
    PROVE  Inv'
  <1>1. CASE Raise(f)
    BY <1>1, ErrorForms, RepliesInv DEF OnObject
  <1>2. CASE ~Raise(f)
    <2>1. PICK d \in Lowest(openFd) : openFd' = openFd \cup {d} /\ Adopt(o, d)
      BY <1>2 DEF OpenPort
    <2>2. StillCore /\ UNCHANGED <<kind, child, live, nbusy, handle, op>>
      BY <1>2 DEF OpenPort, OnObject, Return, StillCore, coreVars, fiberData, names, Results
    <2>3. d \in Fd /\ d \notin openFd
      BY LowestIsNew
    <2>4. /\ native' \in [Obj -> Fd \cup {Nil}]
          /\ \A p \in Obj : p # o => native'[p] = native[p]
          /\ \/ native[o] = Nil /\ native'[o] = d /\ lost' = lost
             \/ native' = native /\ lost' = lost \cup {d}
      BY <2>1, <2>3, Holders DEF Adopt
    <2>5. QuietCall(f)
      BY <2>2, <2>4, NotSpecial DEF QuietCall, ObjectsGrow, OnObject, Inv, ObjectInv, ObjectsOK
    <2>6. FiberInv' /\ ObjectInv' /\ OthersStay /\ AllValid
      BY <2>5, Quiet
    <2>7. FdInv'
      BY <2>1, <2>2, <2>4, <2>6, OneOpens, FdsLost
    <2> QED
      BY <2>6, <2>7 DEF Inv
  <1> QED
    BY <1>1, <1>2

\* close().
LEMMA CloseInv ==
    ASSUME Inv, NEW f \in Fiber, NEW o \in Obj, OnObject(f, o), Close(f, o)
    PROVE  Inv'
  <1>1. CASE Raise(f)
    BY <1>1, ErrorForms, RepliesInv DEF OnObject
  <1>2. CASE ~Raise(f)
    <2>1. /\ native' = [native EXCEPT ![o] = Nil] /\ openFd' = openFd \ {native[o]}
          /\ op' = Aborted(OpsOn(o)) /\ StillCore
          /\ UNCHANGED <<kind, child, live, nbusy, handle, lost>>
      BY <1>2 DEF Close, OnObject, Return, StillCore, coreVars, fiberData, names, Results
    <2>2. /\ native' \in [Obj -> Fd \cup {Nil}] /\ native'[o] = Nil
          /\ \A p \in Obj : p # o => native'[p] = native[p]
      BY <2>1, Holders
    <2>3. QuietCall(f)
      BY <2>1, <2>2, NotSpecial DEF QuietCall, ObjectsGrow, OnObject, Inv, ObjectInv, ObjectsOK
    <2>4. FiberInv' /\ ObjectInv' /\ OthersStay /\ AllValid
      BY <2>3, Quiet
    <2>5. FdInv'
      BY <2>1, <2>2, <2>4, OneCloses
    <2> QED
      BY <2>4, <2>5 DEF Inv
  <1> QED
    BY <1>1, <1>2

\* cancel(), of an object with a descriptor or without one.
LEMMA CancelInv ==
    ASSUME Inv, NEW f \in Fiber, NEW o \in Obj, OnObject(f, o), Cancel(f, o) \/ Reset(f, o)
    PROVE  Inv'
  <1>1. CASE Raise(f)
    BY <1>1, ErrorForms, RepliesInv DEF OnObject
  <1>2. CASE ~Raise(f)
    <2>1. /\ op' = Aborted(OpsOn(o)) /\ StillCore
          /\ UNCHANGED <<kind, child, live, native, nbusy, handle, lost, openFd>>
      BY <1>2 DEF Cancel, Reset, OnObject, Return, StillCore, coreVars, fiberData, objVars, fdVars,
                  names, Results
    <2>2. QuietCall(f)
      BY <2>1, NotSpecial DEF QuietCall, ObjectsGrow, OnObject, Inv, ObjectInv, ObjectsOK
    <2> QED
      BY <2>1, <2>2, Quiet, FdsStay DEF Inv
  <1> QED
    BY <1>1, <1>2

\* Asio's assign() of a handle's descriptor.
LEMMA Adopts ==
    ASSUME Inv, NEW o \in Obj, NEW h \in Handle, handle[h] \in Fd,
           handle' = [handle EXCEPT ![h] = Nil], Adopt(o, handle[h]), UNCHANGED openFd
    PROVE  /\ native' \in [Obj -> Fd \cup {Nil}] /\ \A p \in Obj : p # o => native'[p] = native[p]
           /\ OthersStay /\ AllValid => FdInv'
  <1>1. PICK d \in Fd : d = handle[h]
    OBVIOUS
  <1>2. /\ native' \in [Obj -> Fd \cup {Nil}]
        /\ \A p \in Obj : p # o => native'[p] = native[p]
        /\ \/ native[o] = Nil /\ native'[o] = d /\ lost' = lost
           \/ native' = native /\ lost' = lost \cup {d}
    BY <1>1, Holders DEF Adopt
  <1>3. /\ handle' \in [Handle -> Fd \cup {Nil, Busy}] /\ handle'[h] = Nil
        /\ \A g \in Handle : g # h => handle'[g] = handle[g]
    BY Holders
  <1>4. Lose(handle, handle', Handle, {h}) /\ BusyStay
    BY <1>1, <1>3, Holders DEF Lose, BusyStay
  <1>5. d \notin FdsOf(native, Obj)
    <2>1. d \in FdsOf(handle, Handle)
      BY <1>1, Holders
    <2> QED
      BY <2>1 DEF Inv, FdInv, OpenIsOwnedOnce, SharedOut, Apart
  <1>6. \/ Gain(native, native', Obj, {o}) /\ native'[o] = d /\ lost' = lost
        \/ UNCHANGED native /\ lost' = lost \cup {d}
    BY <1>2, <1>5, Holders DEF Gain
  <1>7. handle[h] = d
    BY <1>1
  <1> QED
    BY <1>2, <1>3, <1>4, <1>6, <1>7, FdsAdopt

\* assign().
LEMMA AssignInv ==
    ASSUME Inv, NEW f \in Fiber, NEW o \in Obj, NEW h \in Handle, OnObject(f, o), Assign(f, o, h)
    PROVE  Inv'
  <1>1. CASE Raise(f)
    BY <1>1, ErrorForms, RepliesInv DEF OnObject
  <1>2. CASE ~Raise(f)
    <2>1. /\ handle[h] \in Fd /\ handle' = [handle EXCEPT ![h] = Nil] /\ Adopt(o, handle[h])
          /\ UNCHANGED <<kind, child, live, nbusy, openFd, op>> /\ StillCore
      BY <1>2 DEF Assign, OnObject, Return, StillCore, coreVars, fiberData, names, Results
    <2>2. /\ native' \in [Obj -> Fd \cup {Nil}] /\ \A p \in Obj : p # o => native'[p] = native[p]
          /\ OthersStay /\ AllValid => FdInv'
      BY <2>1, Adopts
    <2>3. QuietCall(f)
      BY <2>1, <2>2, NotSpecial DEF QuietCall, ObjectsGrow, OnObject, Inv, ObjectInv, ObjectsOK
    <2> QED
      BY <2>2, <2>3, Quiet DEF Inv
  <1> QED
    BY <1>1, <1>2

\* A handle is new, or was closed: it may be given a descriptor.
LEMMA HandleGains ==
    ASSUME Inv, NEW h \in NewHandles, NEW d \in Fd, handle' = [handle EXCEPT ![h] = d],
           d \notin FdsOf(handle, Handle)
    PROVE  /\ Gain(handle, handle', Handle, {h}) /\ handle'[h] = d /\ BusyStay
           /\ handle' \in [Handle -> Fd \cup {Nil, Busy}] /\ FdsOf(handle', {h}) = {d}
  <1>1. /\ h \in Handle /\ handle[h] = Nil /\ handle'[h] = d
        /\ handle' \in [Handle -> Fd \cup {Nil, Busy}]
        /\ \A g \in Handle : g # h => handle'[g] = handle[g]
    BY Holders DEF NewHandles
  <1>2. Gain(handle, handle', Handle, {h}) /\ BusyStay
    BY <1>1, Holders DEF Gain, BusyStay
  <1>3. FdsOf(handle', {h}) = {d}
    BY <1>1 DEF FdsOf
  <1> QED
    BY <1>1, <1>2, <1>3

\* release(), of a serial port too.
LEMMA ReleaseInv ==
    ASSUME Inv, NEW f \in Fiber, NEW o \in Obj, NEW h \in Handle, OnObject(f, o),
           Release(f, o, h) \/ ReleasePort(f, o, h)
    PROVE  Inv'
  <1>1. CASE Raise(f)
    BY <1>1, ErrorForms, RepliesInv DEF OnObject
  <1>2. CASE ~Raise(f)
    <2>1. /\ native[o] # Nil /\ h \in NewHandles /\ native' = [native EXCEPT ![o] = Nil]
          /\ op' = Aborted(OpsOn(o)) /\ StillCore
          /\ UNCHANGED <<kind, child, live, nbusy, lost>>
      BY <1>2 DEF Release, ReleasePort, OnObject, Return, StillCore, coreVars, fiberData, names, Results
    <2>2. /\ native' \in [Obj -> Fd \cup {Nil}] /\ native'[o] = Nil
          /\ \A p \in Obj : p # o => native'[p] = native[p]
      BY <2>1, Holders
    <2>3. QuietCall(f)
      BY <2>1, <2>2, NotSpecial DEF QuietCall, ObjectsGrow, OnObject, Inv, ObjectInv, ObjectsOK
    <2>4. FiberInv' /\ ObjectInv' /\ OthersStay /\ AllValid
      BY <2>3, Quiet
    <2>5. Lose(native, native', Obj, {o})
      BY <2>2, Holders DEF Lose
    <2>6. PICK d \in Fd : d = native[o]
      BY <2>1, Holders
    <2>7. PICK e \in Fd : /\ handle' = [handle EXCEPT ![h] = e] /\ e \notin FdsOf(handle, Handle)
                          /\ \/ e = d /\ UNCHANGED openFd
                             \/ e \notin openFd /\ openFd' = (openFd \cup {e}) \ {d}
      <3>1. CASE Release(f, o, h)
        <4>1. d \in FdsOf(native, Obj)
          BY <2>6, Holders
        <4>2. d \notin FdsOf(handle, Handle)
          BY <4>1 DEF Inv, FdInv, OpenIsOwnedOnce, SharedOut, Apart
        <4> QED
          BY <1>2, <2>6, <3>1, <4>2 DEF Release
      <3>2. CASE ReleasePort(f, o, h)
        <4>1. PICK e \in Lowest(openFd) : /\ handle' = [handle EXCEPT ![h] = e]
                                          /\ openFd' = (openFd \cup {e}) \ {native[o]}
          BY <1>2, <3>2 DEF ReleasePort
        <4>2. e \in Fd /\ e \notin openFd
          BY LowestIsNew
        <4> QED
          BY <2>6, <4>1, <4>2, Holders
      <3> QED
        BY <3>1, <3>2
    <2>8. /\ Gain(handle, handle', Handle, {h}) /\ handle'[h] = e /\ BusyStay
          /\ handle' \in [Handle -> Fd \cup {Nil, Busy}]
      BY <2>1, <2>7, HandleGains
    <2>9. FdInv'
      BY <2>1, <2>4, <2>5, <2>6, <2>7, <2>8, FdsRelease
    <2> QED
      BY <2>4, <2>9 DEF Inv
  <1> QED
    BY <1>1, <1>2

\* A constructor: the new object is closed, or assigned a handle's descriptor.
LEMMA NewInv ==
    ASSUME Inv, NEW f \in Fiber, NEW o \in Obj, NEW k \in Ordinary, New(f, o, k)
    PROVE  Inv'
  <1>1. /\ Running(f) /\ kind[o] \in Ordinary /\ ~live[o] /\ StillCore
        /\ live' = [live EXCEPT ![o] = TRUE] /\ nbusy' = [nbusy EXCEPT ![o] = 0]
        /\ UNCHANGED <<kind, child, native, handle, openFd, lost, op>>
    BY DEF New, Return, StillCore, coreVars, fiberData, fdVars, names, Results
  <1>2. UNCHANGED nbusy
    BY <1>1, ZeroStays DEF Inv
  <1>3. /\ live' \in [Obj -> BOOLEAN] /\ live'[o] /\ \A p \in Obj : p # o => live'[p] = live[p]
    BY <1>1 DEF Inv, ObjectInv, ObjectsOK
  <1>4. QuietCall(f)
    BY <1>1, <1>2, <1>3, NotSpecial, Holders DEF QuietCall, ObjectsGrow
  <1> QED
    BY <1>1, <1>4, Quiet, FdsStay DEF Inv

\* A constructor that takes a handle.
LEMMA NewFromInv ==
    ASSUME Inv, NEW f \in Fiber, NEW o \in Obj, NEW k \in Ordinary, NEW h \in Handle, NewFrom(f, o, k, h)
    PROVE  Inv'
  <1>1. CASE Running(f) /\ Raise(f)
    BY <1>1, ErrorForms, RepliesInv
  <1>2. CASE ~(Running(f) /\ Raise(f))
    <2>1. /\ Running(f) /\ kind[o] \in Ordinary /\ ~live[o] /\ handle[h] \in Fd /\ StillCore
          /\ live' = [live EXCEPT ![o] = TRUE] /\ nbusy' = [nbusy EXCEPT ![o] = 0]
          /\ handle' = [handle EXCEPT ![h] = Nil] /\ Adopt(o, handle[h])
          /\ UNCHANGED <<kind, child, openFd, op>>
      BY <1>2 DEF NewFrom, Return, StillCore, coreVars, fiberData, names, Results
    <2>2. UNCHANGED nbusy
      BY <2>1, ZeroStays DEF Inv
    <2>3. /\ live' \in [Obj -> BOOLEAN] /\ live'[o] /\ \A p \in Obj : p # o => live'[p] = live[p]
      BY <2>1 DEF Inv, ObjectInv, ObjectsOK
    <2>4. /\ native' \in [Obj -> Fd \cup {Nil}] /\ \A p \in Obj : p # o => native'[p] = native[p]
          /\ OthersStay /\ AllValid => FdInv'
      BY <2>1, Adopts
    <2>5. QuietCall(f)
      BY <2>1, <2>2, <2>3, <2>4, NotSpecial DEF QuietCall, ObjectsGrow
    <2> QED
      BY <2>4, <2>5, Quiet DEF Inv
  <1> QED
    BY <1>1, <1>2

\* The constructor of two connected objects.
LEMMA PairInv ==
    ASSUME Inv, NEW f \in Fiber, NEW o \in Obj, NEW p \in Obj, NEW k \in Ordinary, NEW l \in Ordinary,
           Pair(f, o, p, k, l)
    PROVE  Inv'
  <1>1. CASE Running(f) /\ Raise(f)
    BY <1>1, ErrorForms, RepliesInv
  <1>2. CASE ~(Running(f) /\ Raise(f))
    <2>1. /\ Running(f) /\ o # p /\ kind[o] \in Ordinary /\ kind[p] \in Ordinary /\ ~live[o] /\ ~live[p]
          /\ StillCore /\ live' = [live EXCEPT ![o] = TRUE, ![p] = TRUE]
          /\ nbusy' = [nbusy EXCEPT ![o] = 0, ![p] = 0]
          /\ UNCHANGED <<kind, child, handle, lost, op>>
      BY <1>2 DEF Pair, Return, StillCore, coreVars, fiberData, names, Results
    <2>2. UNCHANGED nbusy
      BY <2>1 DEF Inv, ObjectInv, ObjectsOK, NbusyIsExact
    <2>3. /\ live' \in [Obj -> BOOLEAN] /\ live'[o] /\ live'[p]
          /\ \A q \in Obj : q \notin {o, p} => live'[q] = live[q]
      BY <2>1 DEF Inv, ObjectInv, ObjectsOK
    <2>4. PICK d \in Lowest(openFd) : \E e \in Lowest(openFd \cup {d}) :
             native' = [native EXCEPT ![o] = d, ![p] = e] /\ openFd' = openFd \cup {d, e}
      BY <1>2 DEF Pair
    <2>5. PICK e \in Lowest(openFd \cup {d}) :
             native' = [native EXCEPT ![o] = d, ![p] = e] /\ openFd' = openFd \cup {d, e}
      BY <2>4
    <2>6. d \in Fd /\ d \notin openFd /\ e \in Fd /\ e \notin openFd /\ d # e
      BY LowestIsNew
    <2>7. /\ native' \in [Obj -> Fd \cup {Nil}] /\ native'[o] = d /\ native'[p] = e
          /\ \A q \in Obj : q \notin {o, p} => native'[q] = native[q]
      BY <2>1, <2>5, <2>6, Holders
    <2>8. QuietCall(f)
      BY <2>1, <2>2, <2>3, <2>7, NotSpecial DEF QuietCall, ObjectsGrow
    <2>9. FiberInv' /\ ObjectInv' /\ OthersStay /\ AllValid
      BY <2>8, Quiet
    <2>10. native[o] = Nil /\ native[p] = Nil
      BY <2>1 DEF Inv, ObjectInv, ChildrenAreSound
    <2>11. Gain(native, native', Obj, {o, p})
      BY <2>6, <2>7, <2>10, Holders DEF Gain
    <2>12. FdsOf(native', {o, p}) = {d, e}
      BY <2>6, <2>7 DEF FdsOf
    <2>13. /\ Gain(handle, handle', Handle, {}) /\ FdsOf(handle', {}) = {} /\ BusyStay
           /\ handle' \in [Handle -> Fd \cup {Nil, Busy}]
      BY <2>1, Holders DEF Gain, FdsOf, BusyStay
    <2>14. /\ Apart(FdsOf(native', {o, p}), openFd) /\ Apart(FdsOf(handle', {}), openFd)
           /\ Apart(FdsOf(native', {o, p}), FdsOf(handle', {}))
           /\ openFd' = openFd \cup FdsOf(native', {o, p}) \cup FdsOf(handle', {})
      BY <2>5, <2>6, <2>12, <2>13 DEF Apart
    <2>15. UNCHANGED lost
      BY <2>1
    <2>16. FdInv'
      BY <2>9, <2>11, <2>13, <2>14, <2>15, FdsGain
    <2> QED
      BY <2>9, <2>16 DEF Inv
  <1> QED
    BY <1>1, <1>2

\* A pseudoterminal: an object and a handle.
LEMMA PtyInv ==
    ASSUME Inv, NEW f \in Fiber, NEW o \in Obj, serial_ptypair(f, o)
    PROVE  Inv'
  <1>1. CASE Running(f) /\ Raise(f)
    BY <1>1, ErrorForms, RepliesInv
  <1>2. CASE ~(Running(f) /\ Raise(f))
    <2>1. /\ Running(f) /\ kind[o] \in Ordinary /\ ~live[o]
          /\ StillCore /\ live' = [live EXCEPT ![o] = TRUE]
          /\ UNCHANGED <<kind, child, nbusy, lost, op>>
      BY <1>2 DEF serial_ptypair, Return, StillCore, coreVars, fiberData, names, Results, Ordinary
    <2>3. /\ live' \in [Obj -> BOOLEAN] /\ live'[o] /\ \A q \in Obj : q # o => live'[q] = live[q]
      BY <2>1 DEF Inv, ObjectInv, ObjectsOK
    <2>4. PICK h \in NewHandles, d \in Lowest(openFd) : \E e \in Lowest(openFd \cup {d}) :
             /\ native' = [native EXCEPT ![o] = d] /\ handle' = [handle EXCEPT ![h] = e]
             /\ openFd' = openFd \cup {d, e}
      BY <1>2 DEF serial_ptypair
    <2>5. PICK e \in Lowest(openFd \cup {d}) :
             /\ native' = [native EXCEPT ![o] = d] /\ handle' = [handle EXCEPT ![h] = e]
             /\ openFd' = openFd \cup {d, e}
      BY <2>4
    <2>6. d \in Fd /\ d \notin openFd /\ e \in Fd /\ e \notin openFd /\ d # e
      BY LowestIsNew
    <2>7. /\ native' \in [Obj -> Fd \cup {Nil}] /\ native'[o] = d
          /\ \A q \in Obj : q # o => native'[q] = native[q]
      BY <2>5, <2>6, Holders
    <2>8. QuietCall(f)
      BY <2>1, <2>3, <2>7, NotSpecial DEF QuietCall, ObjectsGrow
    <2>9. FiberInv' /\ ObjectInv' /\ OthersStay /\ AllValid
      BY <2>8, Quiet
    <2>10. native[o] = Nil
      BY <2>1 DEF Inv, ObjectInv, ChildrenAreSound
    <2>11. Gain(native, native', Obj, {o})
      BY <2>6, <2>7, <2>10, Holders DEF Gain
    <2>12. FdsOf(native', {o}) = {d}
      BY <2>6, <2>7 DEF FdsOf
    <2>13. /\ Gain(handle, handle', Handle, {h}) /\ FdsOf(handle', {h}) = {e} /\ BusyStay
           /\ handle' \in [Handle -> Fd \cup {Nil, Busy}]
      <3>1. e \notin FdsOf(handle, Handle)
        BY <2>6, Holders
      <3> QED
        BY <2>5, <2>6, <3>1, HandleGains
    <2>14. /\ Apart(FdsOf(native', {o}), openFd) /\ Apart(FdsOf(handle', {h}), openFd)
           /\ Apart(FdsOf(native', {o}), FdsOf(handle', {h}))
           /\ openFd' = openFd \cup FdsOf(native', {o}) \cup FdsOf(handle', {h})
      <3>1. openFd' = openFd \cup {d, e}
        BY <2>5
      <3> QED
        BY <2>6, <2>12, <2>13, <3>1 DEF Apart
    <2>15. UNCHANGED lost
      BY <2>1
    <2>16. FdInv'
      BY <2>9, <2>11, <2>13, <2>14, <2>15, FdsGain
    <2> QED
      BY <2>9, <2>16 DEF Inv
  <1> QED
    BY <1>1, <1>2

\* A handle is closed, or collected.
LEMMA ClosesInv ==
    ASSUME Inv, NEW f \in Fiber, NEW h \in Handle, Closes(f, h)
    PROVE  Inv'
  <1>1. /\ Running(f) /\ handle[h] \in Fd /\ StillCore
        /\ handle' = [handle EXCEPT ![h] = Nil] /\ openFd' = openFd \ {handle[h]}
        /\ UNCHANGED <<kind, child, live, native, nbusy, lost, op>>
    BY DEF Closes, Return, StillCore, coreVars, fiberData, objVars, names, Results
  <1>2. QuietCall(f)
    BY <1>1 DEF QuietCall, ObjectsGrow, Inv, ObjectInv, ObjectsOK
  <1>3. FiberInv' /\ ObjectInv' /\ OthersStay /\ AllValid
    BY <1>2, Quiet
  <1>4. /\ handle' \in [Handle -> Fd \cup {Nil, Busy}] /\ handle'[h] = Nil
        /\ \A g \in Handle : g # h => handle'[g] = handle[g]
    BY <1>1, Holders
  <1>5. Lose(handle, handle', Handle, {h}) /\ BusyStay
    BY <1>1, <1>4, Holders DEF Lose, BusyStay
  <1>6. Lose(native, native', Obj, {}) /\ FdsOf(native, {}) = {}
    BY <1>1 DEF Lose, FdsOf
  <1>7. FdsOf(handle, {h}) = {handle[h]}
    BY ZenonT(60), <1>1, FdOfOne
  <1>8. openFd' = openFd \ (FdsOf(native, {}) \cup FdsOf(handle, {h}))
    BY <1>1, <1>6, <1>7
  <1>9. UNCHANGED lost
    BY <1>1
  <1>10. FdInv'
    BY <1>3, <1>4, <1>5, <1>6, <1>8, <1>9, FdsLose
  <1> QED
    BY <1>3, <1>10 DEF Inv

\* dup().
LEMMA DuplicatesInv ==
    ASSUME Inv, NEW f \in Fiber, Duplicates(f)
    PROVE  Inv'
  <1>1. /\ Running(f) /\ StillCore /\ UNCHANGED <<kind, child, live, native, nbusy, lost, op>>
    BY DEF Duplicates, Return, StillCore, coreVars, fiberData, objVars, names, Results
  <1>2. QuietCall(f)
    BY <1>1 DEF QuietCall, ObjectsGrow, Inv, ObjectInv, ObjectsOK
  <1>3. FiberInv' /\ ObjectInv' /\ OthersStay /\ AllValid
    BY <1>2, Quiet
  <1>4. PICK h \in NewHandles, d \in Lowest(openFd) :
           handle' = [handle EXCEPT ![h] = d] /\ openFd' = openFd \cup {d}
    BY DEF Duplicates
  <1>5. d \in Fd /\ d \notin openFd /\ d \notin FdsOf(handle, Handle)
    BY LowestIsNew, Holders
  <1>6. /\ Gain(handle, handle', Handle, {h}) /\ FdsOf(handle', {h}) = {d} /\ BusyStay
        /\ handle' \in [Handle -> Fd \cup {Nil, Busy}]
    BY <1>4, <1>5, HandleGains
  <1>7. Gain(native, native', Obj, {}) /\ FdsOf(native', {}) = {}
    BY <1>1 DEF Gain, FdsOf
  <1>8. /\ Apart(FdsOf(native', {}), openFd) /\ Apart(FdsOf(handle', {h}), openFd)
        /\ Apart(FdsOf(native', {}), FdsOf(handle', {h}))
        /\ openFd' = openFd \cup FdsOf(native', {}) \cup FdsOf(handle', {h})
    BY <1>4, <1>5, <1>6, <1>7 DEF Apart
  <1>9. UNCHANGED lost
    BY <1>1
  <1>10. FdInv'
    BY <1>3, <1>6, <1>7, <1>8, <1>9, FdsGain
  <1> QED
    BY <1>3, <1>10 DEF Inv

-----------------------------------------------------------------------------
(* The calls that suspend preserve the invariant.                            *)

\* An operation that locks no handle starts: nobody gets or loses a descriptor by it.
LEMMA StartsAlone ==
    ASSUME Inv, NEW f \in Fiber, NEW o \in Obj, NEW io, NEW closure, NEW ec, Running(f),
           Initiate(f, o, io, closure, {}, ec)
    PROVE  OthersStay /\ AllValid /\ AllValid' /\ UNCHANGED <<kind, child, live, valid>>
  <1>1. AllValid /\ op[f] = Nil
    BY Caller DEF Inv
  <1>2. /\ UNCHANGED <<kind, child, live, valid>>
        /\ op' = [op EXCEPT ![f] = [obj |-> o, io |-> io, slot |-> ~Disabled(f),
                                    ec |-> ec, peer |-> Nil, lock |-> {}]]
    BY DEF Initiate, names
  <1>3. op \in [Fiber -> Operation \cup {Nil}]
    BY DEF Inv, FiberInv, CoreOK
  <1>4. op'[f].lock = {} /\ op'[f].peer = Nil /\ \A g \in Fiber : g # f => op'[g] = op[g]
    BY <1>2, <1>3
  <1>5. OthersStay
    BY <1>1, <1>2, <1>4 DEF OthersStay, LockIn, PeerIn
  <1>6. AllValid'
    BY <1>1, <1>2 DEF AllValid
  <1> QED
    BY <1>1, <1>2, <1>5, <1>6

\* An operation starts on an object that stays as it is.
LEMMA StartsInv ==
    ASSUME Inv, NEW f \in Fiber, NEW o \in Obj, NEW io, NEW closure, NEW ec \in {Nil, "error", "none"},
           Running(f), CanSuspend(f), Legal(o, io, closure),
           Initiate(f, o, io, closure, {}, ec), UNCHANGED <<native, fdVars>>
    PROVE  Inv'
  <1>1. OthersStay /\ AllValid /\ AllValid' /\ UNCHANGED <<kind, child, live, valid>>
    BY StartsAlone
  <1>2. FiberInv /\ ObjectInv /\ UNCHANGED <<native, handle, openFd, lost>>
    BY DEF Inv, fdVars
  <1>3. ObjectsGrow
    BY <1>1, <1>2 DEF ObjectsGrow, ObjectInv, ObjectsOK
  <1>4. {} \in SUBSET (Handle \X Fd) /\ ({} # {} => io = "send_with_fds") /\ ec \in {Nil, "error", "none"}
    OBVIOUS
  <1>5. FiberInv'
    BY <1>2, <1>4, FiberInitiates
  <1>6. ObjectInv'
    BY <1>2, <1>3, <1>4, ObjectsInitiate
  <1>7. FdInv'
    BY <1>1, <1>2, FdsStay DEF Inv
  <1> QED
    BY <1>5, <1>6, <1>7 DEF Inv

\* A suspending function, refused or not.
LEMMA AsyncInv ==
    ASSUME Inv, NEW f \in Fiber, NEW o \in Obj, NEW io, NEW closure,
           Running(f), Legal(o, io, closure), Async(f, o, io, closure)
    PROVE  Inv'
  <1>1. CASE Refused(f)
    BY <1>1, ErrorForms, RepliesInv
  <1>2. CASE ~Refused(f)
    <2>1. PICK ec \in {Nil, "error", "none"} : ec = Outlook(o)
      BY DEF Outlook
    <2>2. CanSuspend(f) /\ Initiate(f, o, io, closure, {}, ec) /\ UNCHANGED <<native, fdVars>>
      BY <1>2, <2>1 DEF Async
    <2> QED
      BY <2>2, StartsInv
  <1> QED
    BY <1>1, <1>2

\* What ordinary objects are used for.
LEMMA OrdinaryLegal ==
    ASSUME NEW f, NEW o, OnObject(f, o), NEW io \in {"transfer", "accept", "receive_with_fds", "send_with_fds"},
           NEW closure \in {"emit", "object"}, io = "accept" => kind[o] \in DOMAIN PeerType
    PROVE  Legal(o, io, closure)
  BY NotSpecial DEF OnObject, Legal, Ios, Plain, TlsIo, TlsStep, TlsWait

\* connect(), which may open its socket.
LEMMA ConnectInv ==
    ASSUME Inv, NEW f \in Fiber, NEW o \in Obj, OnObject(f, o), Connect(f, o)
    PROVE  Inv'
  <1> DEFINE io == "transfer"
             closure == "emit"
  <1>1. Legal(o, io, closure) /\ Running(f)
    BY OrdinaryLegal DEF OnObject
  <1>2. CASE AsyncCall(f, o)
    <2>1. Async(f, o, io, closure)
      BY <1>2 DEF AsyncCall
    <2> HIDE DEF io, closure
    <2> QED
      BY <1>1, <2>1, AsyncInv
  <1>3. CASE ~AsyncCall(f, o)
    <2>1. PICK ec \in {Nil, "error", "none"} : ec = Nil
      OBVIOUS
    <2>2. /\ CanSuspend(f) /\ native[o] = Nil /\ Initiate(f, o, io, closure, {}, ec)
          /\ UNCHANGED <<handle, lost>>
      BY <1>3, <2>1 DEF Connect
    <2>3. PICK d \in Lowest(openFd) : native' = [native EXCEPT ![o] = d] /\ openFd' = openFd \cup {d}
      BY <1>3 DEF Connect
    <2>4. d \in Fd
      BY LowestIsNew
    <2> HIDE DEF io, closure
    <2>5. OthersStay /\ AllValid /\ AllValid' /\ UNCHANGED <<kind, child, live, valid>>
      BY <1>1, <2>2, StartsAlone
    <2>6. /\ native' \in [Obj -> Fd \cup {Nil}] /\ native'[o] = d
          /\ \A p \in Obj : p # o => native'[p] = native[p]
      BY <2>3, <2>4, Holders
    <2>7. ObjectsGrow
      BY <2>5, <2>6, NotSpecial DEF ObjectsGrow, OnObject, Inv, ObjectInv, ObjectsOK
    <2>8. {} \in SUBSET (Handle \X Fd) /\ ({} # {} => io = "send_with_fds") /\ ec \in {Nil, "error", "none"}
          /\ FiberInv /\ ObjectInv
      BY DEF Inv
    <2>9. FiberInv'
      BY <1>1, <2>2, <2>8, FiberInitiates
    <2>10. ObjectInv'
      BY <1>1, <2>2, <2>7, <2>8, ObjectsInitiate
    <2>11. openFd' = openFd \cup {d} /\ native[o] = Nil /\ UNCHANGED <<handle, lost>>
      BY <2>2, <2>3
    <2>12. FdInv'
      BY <2>5, <2>6, <2>11, OneOpens
    <2> QED
      BY <2>9, <2>10, <2>12 DEF Inv
  <1> QED
    BY <1>2, <1>3

\* What two sets of holders have, and what the others of them have.
LEMMA FdsTogether ==
    ASSUME NEW fun, NEW S, NEW T
    PROVE  FdsOf(fun, S \cup T) = FdsOf(fun, S) \cup FdsOf(fun, T)
  BY DEF FdsOf

\* The descriptors of all but some of those who have descriptors.
LEMMA FdsWithout ==
    ASSUME NEW fun, NEW S, NEW T, T \subseteq S, NoFdTwice(fun, S)
    PROVE  NoFdTwice(fun, S \ T) /\ FdsOf(fun, S \ T) = FdsOf(fun, S) \ FdsOf(fun, T)
  <1>1. NoFdTwice(fun, S \ T)
    BY DEF NoFdTwice
  <1>2. ASSUME NEW d, d \in FdsOf(fun, S \ T) PROVE d \in FdsOf(fun, S) /\ d \notin FdsOf(fun, T)
    BY <1>2 DEF FdsOf, NoFdTwice
  <1>3. ASSUME NEW d, d \in FdsOf(fun, S), d \notin FdsOf(fun, T) PROVE d \in FdsOf(fun, S \ T)
    BY <1>3 DEF FdsOf
  <1> QED
    BY <1>1, <1>2, <1>3

\* The descriptors of the locks.
LEMMA LockFacts ==
    ASSUME Inv
    PROVE  /\ LocksOf(op) \subseteq Handle \X Fd
           /\ NoFdTwice(LockedFd, LocksOf(op))
           /\ FdsOf(LockedFd, LocksOf(op)) \subseteq openFd
           /\ Apart(FdsOf(handle, Handle), FdsOf(LockedFd, LocksOf(op)))
           /\ \A l \in LocksOf(op) : l[2] \in FdsOf(LockedFd, LocksOf(op)) /\ LockedFd[l] = l[2]
  <1>1. LocksOf(op) \subseteq Handle \X Fd
    BY OpTypes DEF LocksOf, Inv
  <1>2. /\ NoFdTwice(LockedFd, LocksOf(op)) /\ FdsOf(LockedFd, LocksOf(op)) \subseteq openFd
        /\ Apart(FdsOf(handle, Handle), FdsOf(LockedFd, LocksOf(op)))
    BY DEF Inv, FdInv, OpenIsOwnedOnce, SharedOut
  <1>3. ASSUME NEW l \in LocksOf(op)
        PROVE  l[2] \in FdsOf(LockedFd, LocksOf(op)) /\ LockedFd[l] = l[2]
    <2>1. l \in Handle \X Fd
      BY <1>1
    <2>2. LockedFd[l] = l[2] /\ l[2] \in Fd
      BY <2>1 DEF LockedFd
    <2> QED
      BY <2>2 DEF FdsOf
  <1> QED
    BY <1>1, <1>2, <1>3

\* Operations may go on, and nothing changes hands.
LEMMA KeepsInv ==
    ASSUME Inv, FiberInv', OpsStay, UNCHANGED <<objVars, fdVars, valid>>,
           \A f \in Fiber : LockIn(op'[f]) = LockIn(op[f]) /\ PeerIn(op'[f]) = PeerIn(op[f])
    PROVE  Inv'
  <1>1. UNCHANGED <<kind, child, live, native, nbusy, handle, openFd, lost, valid>>
    BY DEF objVars, fdVars, names
  <1>2. ObjectsOK' /\ ChildrenAreSound' /\ OthersStay /\ AllValid' = AllValid
    BY <1>1 DEF Inv, ObjectInv, ObjectsOK, ChildrenAreSound, OthersStay, AllValid
  <1>3. ObjectInv'
    BY <1>1, <1>2, ObjectsStay DEF Inv
  <1>4. FdInv'
    BY <1>1, <1>2, FdsStay DEF Inv
  <1> QED
    BY <1>3, <1>4 DEF Inv

\* send_with_fds() locks the handles hs.
Locks(hs) == {<<h, handle[h]>> : h \in hs}

\* The new locks have the descriptors of their handles, which nobody is sending.
LEMMA LocksNew ==
    ASSUME Inv, NEW hs, hs \subseteq {h \in Handle : handle[h] \in Fd}
    PROVE  /\ Locks(hs) \in SUBSET (Handle \X Fd)
           /\ FdsOf(LockedFd, Locks(hs)) = FdsOf(handle, hs)
           /\ NoFdTwice(LockedFd, LocksOf(op) \cup Locks(hs))
  <1>1. Locks(hs) \subseteq Handle \X Fd
    BY DEF Locks
  <1>2. \A l \in Locks(hs) : l[1] \in hs /\ LockedFd[l] = handle[l[1]] /\ l = <<l[1], handle[l[1]]>>
    BY <1>1 DEF Locks, LockedFd
  <1>3. \A h \in hs : <<h, handle[h]>> \in Locks(hs)
    BY DEF Locks
  <1>4. FdsOf(LockedFd, Locks(hs)) = FdsOf(handle, hs)
    <2>1. ASSUME NEW d, d \in FdsOf(LockedFd, Locks(hs)) PROVE d \in FdsOf(handle, hs)
      BY <1>2, <2>1 DEF FdsOf
    <2>2. ASSUME NEW d, d \in FdsOf(handle, hs) PROVE d \in FdsOf(LockedFd, Locks(hs))
      <3>1. PICK h \in hs : d = handle[h]
        BY <2>2 DEF FdsOf
      <3>2. PICK l \in Locks(hs) : l = <<h, handle[h]>>
        BY <1>3
      <3>3. LockedFd[l] = d /\ d \in Fd
        BY <1>2, <2>2, <3>1, <3>2 DEF FdsOf
      <3> QED
        BY <3>3 DEF FdsOf
    <2> QED
      BY <2>1, <2>2
  <1>5. FdsOf(handle, hs) \subseteq FdsOf(handle, Handle)
    BY DEF FdsOf
  <1>6. ASSUME NEW l \in LocksOf(op), NEW m \in Locks(hs), LockedFd[l] = LockedFd[m] PROVE FALSE
    <2>1. LockedFd[l] \in FdsOf(LockedFd, LocksOf(op))
      BY LockFacts
    <2>2. LockedFd[m] \in FdsOf(handle, Handle)
      BY <1>2, Holders
    <2> QED
      BY <1>6, <2>1, <2>2, LockFacts DEF Apart
  <1>7. ASSUME NEW l \in Locks(hs), NEW m \in Locks(hs), LockedFd[l] = LockedFd[m] PROVE l = m
    <2>1. l[1] \in Handle /\ m[1] \in Handle /\ handle[l[1]] = handle[m[1]] /\ handle[l[1]] \in Fd
      BY <1>2, <1>7
    <2>2. l[1] = m[1]
      BY <2>1, Holders DEF NoFdTwice
    <2> QED
      BY <1>2, <2>2
  <1>8. NoFdTwice(LockedFd, LocksOf(op) \cup Locks(hs))
    BY <1>6, <1>7, LockFacts DEF NoFdTwice
  <1> QED
    BY <1>1, <1>4, <1>8

\* send_with_fds() starts: the descriptors go from the handles to the operation.
LEMMA SendsInv ==
    ASSUME Inv, NEW f \in Fiber, NEW o \in Obj, OnObject(f, o), CanSuspend(f),
           NEW hs \in SUBSET {h \in Handle : handle[h] \in Fd},
           Initiate(f, o, "send_with_fds", "emit", Locks(hs), Outlook(o)),
           handle' = [h \in Handle |-> IF h \in hs THEN Busy ELSE handle[h]],
           UNCHANGED <<native, openFd, lost>>
    PROVE  Inv'
  <1> DEFINE io == "send_with_fds"
             closure == "emit"
  <1>0. PICK ec \in {Nil, "error", "none"} : ec = Outlook(o)
    BY DEF Outlook
  <1>1. PICK lock \in SUBSET (Handle \X Fd) : lock = Locks(hs)
    BY LocksNew
  <1>2. Legal(o, io, closure) /\ Running(f)
    BY OrdinaryLegal DEF OnObject
  <1>3. Initiate(f, o, io, closure, lock, ec)
    BY <1>0, <1>1
  <1>4. AllValid /\ op[f] = Nil /\ FiberInv /\ ObjectInv
    BY <1>2, Caller DEF Inv
  <1>5. /\ UNCHANGED <<kind, child, live, valid>>
        /\ op' = [op EXCEPT ![f] = [obj |-> o, io |-> io, slot |-> ~Disabled(f),
                                    ec |-> ec, peer |-> Nil, lock |-> lock]]
    BY <1>3 DEF Initiate, names
  <1>6. op \in [Fiber -> Operation \cup {Nil}]
    BY DEF Inv, FiberInv, CoreOK
  <1>7. /\ op'[f].lock = lock /\ op'[f].peer = Nil /\ \A g \in Fiber : g # f => op'[g] = op[g]
    BY <1>5, <1>6
  <1>8. AllValid' /\ ObjectsGrow
    <2>1. ObjectsGrow
      BY <1>4, <1>5 DEF ObjectsGrow, ObjectInv, ObjectsOK
    <2> QED
      BY <1>4, <1>5, <2>1 DEF AllValid
  <1>9. lock # {} => io = "send_with_fds"
    OBVIOUS
  <1>10. FiberInv' /\ ObjectInv'
    <2> HIDE DEF io, closure
    <2>1. ec \in {Nil, "error", "none"} /\ lock \in SUBSET (Handle \X Fd)
      OBVIOUS
    <2>2. FiberInv'
      BY <1>2, <1>3, <1>4, <1>9, <2>1, FiberInitiates
    <2>3. ObjectInv'
      BY <1>2, <1>3, <1>4, <1>8, <2>1, ObjectsInitiate
    <2> QED
      BY <2>2, <2>3
  <1>11. op'[f] # Nil
    <2> DEFINE r == [obj |-> o, io |-> io, slot |-> ~Disabled(f), ec |-> ec, peer |-> Nil, lock |-> lock]
    <2>1. r \in Operation
      BY <1>2 DEF Operation, Legal, Disabled
    <2>2. op'[f] = r
      BY <1>5, <1>6
    <2> HIDE DEF r
    <2> QED
      BY <2>1, <2>2, IoSystemAssumption
  <1>12. /\ handle' \in [Handle -> Fd \cup {Nil, Busy}] /\ \A h \in hs : handle'[h] = Busy
         /\ \A h \in Handle \ hs : handle'[h] = handle[h]
    BY Holders
  <1>13. Lose(handle, handle', Handle, hs)
    BY <1>12, Holders DEF Lose
  <1>14. NoFdTwice(handle', Handle) /\ FdsOf(handle', Handle) = FdsOf(handle, Handle) \ FdsOf(handle, hs)
    BY <1>13, Holders, Losses
  <1>15. LocksOf(op') = LocksOf(op) \cup lock
    BY <1>4, <1>7, <1>11 DEF LocksOf
  <1>16. /\ NoFdTwice(LockedFd, LocksOf(op'))
         /\ FdsOf(LockedFd, LocksOf(op')) = FdsOf(LockedFd, LocksOf(op)) \cup FdsOf(handle, hs)
    BY <1>1, <1>15, LocksNew, FdsTogether
  <1>17. PeerOf(op') = PeerOf(op) /\ ReaperOf(child') = ReaperOf(child)
    BY <1>4, <1>5, <1>7, <1>11 DEF PeerOf, ReaperOf
  <1>18. FdsOf(handle, hs) \subseteq FdsOf(handle, Handle)
    BY DEF FdsOf
  <1>19. OpenIsOwnedOnce'
    <2>1. SharedOut(openFd, FdsOf(native, Obj), FdsOf(handle', Handle), FdsOf(PeerOf(op), Fiber),
                    FdsOf(ReaperOf(child), Obj), FdsOf(LockedFd, LocksOf(op')), lost)
      BY <1>14, <1>16, <1>18 DEF Inv, FdInv, OpenIsOwnedOnce, SharedOut, Apart
    <2> QED
      BY <1>14, <1>16, <1>17, <2>1 DEF Inv, FdInv, OpenIsOwnedOnce, LockedFd
  <1>20. LocksAreSound'
    <2>1. \A l \in lock : l[1] \in hs /\ l = <<l[1], handle[l[1]]>>
      BY <1>1 DEF Locks
    <2>2. ASSUME NEW g \in Fiber, g # f, op'[g] # Nil, NEW l \in op'[g].lock
          PROVE  op[g] # Nil /\ l \in op[g].lock /\ handle[l[1]] = Busy /\ l[1] \in Handle
                 /\ l[1] \notin hs
      <3>1. op[g] # Nil /\ l \in op[g].lock
        BY <1>7, <2>2
      <3>2. handle[l[1]] = Busy /\ l[1] \in Handle
        BY <1>4, <3>1, OpTypes DEF Inv, FdInv, LocksAreSound
      <3> QED
        BY <3>1, <3>2, Holders
    <2>3. ASSUME NEW g \in Fiber, NEW g1 \in Fiber, op'[g] # Nil, op'[g1] # Nil,
                 NEW l \in op'[g].lock, NEW m \in op'[g1].lock, l[1] = m[1]
          PROVE  g = g1 /\ l = m
      <3>1. CASE g = f /\ g1 = f
        BY <1>7, <2>1, <2>3, <3>1
      <3>2. CASE g # f /\ g1 # f
        <4>1. op[g] # Nil /\ l \in op[g].lock /\ op[g1] # Nil /\ m \in op[g1].lock
          BY <2>2, <2>3, <3>2
        <4> QED
          BY <2>3, <4>1 DEF Inv, FdInv, LocksAreSound
      <3>3. CASE g = f /\ g1 # f
        BY <1>7, <2>1, <2>2, <2>3, <3>3
      <3>4. CASE g # f /\ g1 = f
        BY <1>7, <2>1, <2>2, <2>3, <3>4
      <3> QED
        BY <3>1, <3>2, <3>3, <3>4
    <2>4. ASSUME NEW g \in Fiber, op'[g] # Nil, NEW l \in op'[g].lock
          PROVE  handle'[l[1]] = Busy
      <3>1. CASE g = f
        BY <1>7, <1>12, <2>1, <2>4, <3>1
      <3>2. CASE g # f
        BY <1>12, <2>2, <2>4, <3>2
      <3> QED
        BY <3>1, <3>2
    <2>5. ASSUME NEW h \in Handle, handle'[h] = Busy
          PROVE  \E g \in Fiber : op'[g] # Nil /\ \E l \in op'[g].lock : l[1] = h
      <3>1. CASE h \in hs
        <4>1. PICK l \in lock : l = <<h, handle[h]>>
          BY <1>1, <3>1 DEF Locks
        <4> QED
          BY <1>7, <1>11, <4>1
      <3>2. CASE h \notin hs
        <4>1. PICK g \in Fiber : op[g] # Nil /\ \E l \in op[g].lock : l[1] = h
          BY <1>12, <2>5, <3>2 DEF Inv, FdInv, LocksAreSound
        <4> QED
          BY <1>4, <1>7, <4>1
      <3> QED
        BY <3>1, <3>2
    <2> QED
      BY <2>3, <2>4, <2>5 DEF LocksAreSound
  <1>21. DescriptorsOK'
    BY <1>12 DEF Inv, FdInv, DescriptorsOK
  <1> QED
    BY <1>10, <1>19, <1>20, <1>21 DEF Inv, FdInv

\* An argument is refused once the interrupter is set: it stays.
LEMMA LeavesInv ==
    ASSUME Inv, NEW f \in Fiber, SendLeaves(f)
    PROVE  Inv'
  <1>1. UNCHANGED <<op, objVars, fdVars, valid>>
    BY DEF SendLeaves, ioVars
  <1>2. FiberInv' /\ OpsStay
    BY <1>1, FiberLeaves DEF Inv, OpsStay
  <1> QED
    BY <1>1, <1>2, KeepsInv

\* send_with_fds(), refused, left half-way or started.
LEMMA SendInv ==
    ASSUME Inv, NEW f \in Fiber, NEW o \in Obj, OnObject(f, o), SendWithFds(f, o)
    PROVE  Inv'
  <1>1. CASE Refused(f)
    BY <1>1, ErrorForms, RepliesInv DEF OnObject
  <1>2. CASE SendLeaves(f)
    BY <1>2, LeavesInv
  <1>3. CASE ~Refused(f) /\ ~SendLeaves(f)
    <2>1. PICK hs \in SUBSET {h \in Handle : handle[h] \in Fd} :
             /\ Initiate(f, o, "send_with_fds", "emit", Locks(hs), Outlook(o))
             /\ handle' = [h \in Handle |-> IF h \in hs THEN Busy ELSE handle[h]]
      BY <1>3 DEF SendWithFds, SendLeaves, OnObject, Locks
    <2>2. CanSuspend(f) /\ UNCHANGED <<native, openFd, lost>>
      BY <1>3 DEF SendWithFds, SendLeaves, OnObject
    <2> QED
      BY <2>1, <2>2, SendsInv
  <1> QED
    BY <1>1, <1>2, <1>3

\* What the engine of a TLS socket asks for.
LEMMA NextLayers ==
    ASSUME NEW o, NEW reset, NEW s \in NextLayer(o, reset)
    PROVE  s[1] \in TlsIo /\ s[2] \in {Nil, "error"} /\ s = <<s[1], s[2]>>
  <1>1. Outlook(o) \in {Nil, "error"}
    BY DEF Outlook
  <1>2. CASE s \in {<<t, Outlook(o)>> : t \in TlsStep}
    BY <1>1, <1>2 DEF TlsIo
  <1>3. CASE s \notin {<<t, Outlook(o)>> : t \in TlsStep}
    <2>1. PICK g \in OpsOn(o) : op[g].io \in TlsStep /\ s = <<Timer(op[g].io), Nil>>
      BY <1>3 DEF NextLayer
    <2>2. Timer(op[g].io) \in TlsWait
      BY <2>1 DEF Timer, TlsStep, TlsWait
    <2> QED
      BY <2>1, <2>2 DEF TlsIo
  <1> QED
    BY <1>2, <1>3

\* An operation of a TLS socket.
LEMMA ComposedInv ==
    ASSUME Inv, NEW f \in Fiber, NEW o \in Obj, OnObject(f, o), kind[o] = "tls_socket", Composed(f, o)
    PROVE  Inv'
  <1>1. CASE Refused(f)
    BY <1>1, ErrorForms, RepliesInv DEF OnObject
  <1>2. CASE ~Refused(f)
    <2>1. PICK s \in NextLayer(o, "none") \cup {<<"tls_done", "none">>} :
             Initiate(f, o, s[1], "object", {}, s[2])
      BY <1>2 DEF Composed
    <2>2. CanSuspend(f) /\ UNCHANGED <<native, fdVars>> /\ Running(f) /\ live[o]
      BY <1>2 DEF Composed, OnObject
    <2>3. s[1] \in TlsIo /\ s[2] \in {Nil, "error", "none"}
      BY <2>1, NextLayers DEF TlsIo
    <2>4. PICK io \in TlsIo, ec \in {Nil, "error", "none"}, closure \in {"object"} :
             io = s[1] /\ ec = s[2]
      BY <2>3
    <2>5. Legal(o, io, closure)
      BY <2>2, <2>4 DEF Legal, Ios, Plain, Counted, TlsIo, TlsStep, TlsWait, PeerType
    <2>6. Initiate(f, o, io, closure, {}, ec)
      BY <2>1, <2>4
    <2> QED
      BY <2>2, <2>5, <2>6, StartsInv
  <1> QED
    BY <1>1, <1>2

\* The methods of ordinary objects.
LEMMA CallInv ==
    ASSUME Inv, NEW f \in Fiber, NEW o \in Obj, CallOn(f, o)
    PROVE  Inv'
  <1>1. OnObject(f, o)
    BY DEF CallOn, OnObject
  <1>2. CASE \E r \in {"none", "error"} : Answer(f, r)
    <2>1. Replies(f)
      BY <1>1, <1>2 DEF Replies, OnObject, Results
    <2> QED
      BY <2>1, RepliesInv
  <1>3. CASE Open(f, o) \/ OpenPort(f, o)
    BY <1>1, <1>3, OpenInv, OpenPortInv
  <1>4. CASE Close(f, o) \/ Cancel(f, o) \/ Reset(f, o)
    BY <1>1, <1>4, CloseInv, CancelInv
  <1>5. CASE \E h \in Handle : Assign(f, o, h) \/ Release(f, o, h) \/ ReleasePort(f, o, h)
    BY <1>1, <1>5, AssignInv, ReleaseInv
  <1>6. CASE Connect(f, o) \/ SendWithFds(f, o)
    BY <1>1, <1>6, ConnectInv, SendInv
  <1>7. CASE \E io \in {"transfer", "accept", "receive_with_fds"}, closure \in {"emit", "object"} :
                (io = "accept" => kind[o] \in DOMAIN PeerType) /\ Async(f, o, io, closure)
    <2>1. PICK io \in {"transfer", "accept", "receive_with_fds"}, closure \in {"emit", "object"} :
                (io = "accept" => kind[o] \in DOMAIN PeerType) /\ Async(f, o, io, closure)
      BY <1>7
    <2>2. Legal(o, io, closure) /\ Running(f)
      BY <1>1, <2>1, OrdinaryLegal DEF OnObject
    <2> QED
      BY <2>1, <2>2, AsyncInv
  <1>8. CASE kind[o] = "tls_socket" /\ Composed(f, o)
    BY <1>1, <1>8, ComposedInv
  <1> QED
    BY <1>2, <1>3, <1>4, <1>5, <1>6, <1>7, <1>8 DEF CallOn

\* The constructors of ordinary objects.
LEMMA ConstructsInv ==
    ASSUME Inv, NEW f \in Fiber, NEW o \in Obj, Constructs(f, o)
    PROVE  Inv'
  BY NewInv, NewFromInv, PairInv DEF Constructs

\* Name resolution, sleep() and the standard streams.
LEMMA SharedInv ==
    ASSUME Inv, NEW f \in Fiber, NEW o \in Obj, SharedCall(f, o)
    PROVE  Inv'
  <1>1. PICK io \in Ios, closure \in {"emit", "object", "resolver"} :
           Legal(o, io, closure) /\ Async(f, o, io, closure)
    <2>1. CASE kind[o] \in {"tcp_resolver", "udp_resolver"} /\ Async(f, o, "resolve", "resolver")
      <3>1. Legal(o, "resolve", "resolver")
        BY <2>1 DEF Legal, Ios, Plain, Counted, TlsIo, TlsStep, TlsWait
      <3> QED
        BY <2>1, <3>1 DEF Ios, Plain
    <2>2. CASE kind[o] = "sleep_for_operation" /\ OpsOn(o) = {} /\ Async(f, o, "sleep", "object")
      <3>1. Legal(o, "sleep", "object")
        BY <2>2 DEF Legal, Ios, Plain, Counted, TlsIo, TlsStep, TlsWait
      <3> QED
        BY <2>2, <3>1 DEF Ios, Plain
    <2>3. CASE kind[o] = "stdstream_service" /\ Async(f, o, "stdstream", "emit")
      <3>1. Legal(o, "stdstream", "emit")
        BY <2>3 DEF Legal, Ios, Plain, Counted, TlsIo, TlsStep, TlsWait
      <3> QED
        BY <2>3, <3>1 DEF Ios, Plain
    <2> QED
      BY <2>1, <2>2, <2>3 DEF SharedCall
  <1>2. Running(f)
    BY DEF SharedCall
  <1> QED
    BY <1>1, <1>2, AsyncInv

\* The calls on a subprocess: one wait() at a time.
LEMMA SubprocessInv ==
    ASSUME Inv, NEW f \in Fiber, NEW o \in Obj, subprocess_mt_index(f, o)
    PROVE  Inv'
  <1> DEFINE io == "child"
             closure == "object"
  <1>1. CASE Replies(f)
    BY <1>1, RepliesInv
  <1>2. CASE ~Replies(f)
    <2>1. /\ Method(f, o, "subprocess") /\ CanSuspend(f) /\ nbusy[o] = 0
          /\ Initiate(f, o, io, closure, {}, Nil) /\ UNCHANGED <<native, fdVars>>
      BY <1>2, SubprocessForms
    <2>2. OpsOn(o) = {}
      <3>1. Cardinality(OpsOn(o)) = 0
        BY <2>1 DEF Method, Inv, ObjectInv, NbusyIsExact, Counted
      <3> QED
        BY <3>1, OpsFinite, FS_EmptySet
    <2>3. Legal(o, io, closure) /\ Running(f)
      BY <2>1, <2>2 DEF Legal, Ios, Plain, Method, TlsIo, TlsStep, TlsWait
    <2>4. PICK ec \in {Nil, "error", "none"} : ec = Nil
      OBVIOUS
    <2> HIDE DEF io, closure
    <2>5. Initiate(f, o, io, closure, {}, ec)
      BY <2>1, <2>4
    <2> QED
      BY <2>1, <2>3, <2>5, StartsInv
  <1> QED
    BY <1>1, <1>2

\* The descriptor of a TCP socket goes to the TLS socket it is moved into.
LEMMA TlsInv ==
    ASSUME Inv, NEW f \in Fiber, NEW o \in Obj, NEW p \in Obj, tls_socket_new(f, p, o)
    PROVE  Inv'
  <1>1. CASE Running(f) /\ Raise(f)
    BY <1>1, ErrorForms, RepliesInv
  <1>2. CASE ~(Running(f) /\ Raise(f))
    <2>1. /\ Running(f) /\ kind[o] = "tcp_socket" /\ kind[p] = "tls_socket" /\ ~live[p] /\ StillCore
          /\ live' = [live EXCEPT ![o] = FALSE, ![p] = TRUE]
          /\ native' = [native EXCEPT ![o] = Nil, ![p] = native[o]]
          /\ nbusy' = [nbusy EXCEPT ![o] = 0] /\ op' = Moved(o, p)
          /\ UNCHANGED <<kind, child, valid, handle, openFd, lost>>
      BY <1>2 DEF tls_socket_new, Method, Return, StillCore, coreVars, fiberData, fdVars, names, Results
    <2>2. AllValid /\ FiberInv /\ ObjectInv
      BY <2>1, Caller DEF Inv
    <2>3. /\ FiberInv'
          /\ \A g \in Fiber : /\ op'[g] = Nil <=> op[g] = Nil
                              /\ op[g] # Nil => /\ op'[g].lock = op[g].lock
                                                /\ op'[g].peer = op[g].peer
                                                /\ op'[g].obj = IF op[g].obj = o THEN p ELSE op[g].obj
      BY <2>1, <2>2, FiberMoves
    <2>4. ObjectInv'
      BY <2>1, <2>2, <2>3, ObjectsMove
    <2>6. /\ o # p /\ native[p] = Nil /\ native'[o] = Nil /\ native'[p] = native[o]
          /\ \A q \in Obj : q \notin {o, p} => native'[q] = native[q]
      BY <2>1, Holders DEF Inv, ObjectInv, ChildrenAreSound
    <2>7. NoFdTwice(native', Obj) /\ FdsOf(native', Obj) = FdsOf(native, Obj)
      <3>1. NoFdTwice(native, Obj) /\ Nil \notin Fd
        BY Holders
      <3>2. NoFdTwice(native', Obj)
        BY <2>6, <3>1 DEF NoFdTwice
      <3>3. ASSUME NEW d, d \in FdsOf(native', Obj) PROVE d \in FdsOf(native, Obj)
        BY <2>6, <3>1, <3>3 DEF FdsOf
      <3>4. ASSUME NEW d, d \in FdsOf(native, Obj) PROVE d \in FdsOf(native', Obj)
        BY <2>6, <3>1, <3>4 DEF FdsOf
      <3> QED
        BY <3>2, <3>3, <3>4
    <2>8. DescriptorsOK' /\ OthersStay /\ BusyStay
      BY <2>1, <2>2, <2>3 DEF Inv, FdInv, DescriptorsOK, OthersStay, LockIn, PeerIn, BusyStay
    <2>9. SharedOut(openFd', FdsOf(native', Obj), FdsOf(handle', Handle), FdsOf(PeerOf(op), Fiber),
                    FdsOf(ReaperOf(child), Obj), FdsOf(LockedFd, LocksOf(op)), lost')
      BY <2>1, <2>7 DEF Inv, FdInv, OpenIsOwnedOnce
    <2>10. NoFdTwice(handle', Handle)
      BY <2>1, Holders
    <2>11. FdInv'
      BY <2>2, <2>7, <2>8, <2>9, <2>10, FdsShared DEF Inv
    <2> QED
      BY <2>3, <2>4, <2>11 DEF Inv
  <1> QED
    BY <1>1, <1>2

\* A child is started.
LEMMA SpawnInv ==
    ASSUME Inv, NEW f \in Fiber, NEW o \in Obj, system_spawn(f, o)
    PROVE  Inv'
  <1>1. CASE Running(f) /\ Raise(f)
    BY <1>1, ErrorForms, RepliesInv
  <1>2. CASE ~(Running(f) /\ Raise(f))
    <2> DEFINE new == [ended |-> FALSE, reaper |-> Nil]
    <2>1. /\ Running(f) /\ kind[o] = "subprocess" /\ ~live[o] /\ child[o] = Nil /\ StillCore
          /\ live' = [live EXCEPT ![o] = TRUE] /\ nbusy' = [nbusy EXCEPT ![o] = 0]
          /\ child' = [child EXCEPT ![o] = new] /\ UNCHANGED <<kind, valid, handle, lost, op>>
      BY <1>2 DEF system_spawn, Return, StillCore, coreVars, fiberData, Results
    <2>2. PICK d \in Lowest(openFd) : native' = [native EXCEPT ![o] = d] /\ openFd' = openFd \cup {d}
      BY <1>2 DEF system_spawn
    <2>3. d \in Fd
      BY LowestIsNew
    <2>4. AllValid /\ FiberInv /\ ObjectInv
      BY <2>1, Caller DEF Inv
    <2>5. UNCHANGED nbusy
      BY <2>1, <2>4, ZeroStays
    <2>6. new \in Process /\ new.reaper = Nil
      BY DEF Process
    <2> HIDE DEF new
    <2>7. new # Nil
      BY <2>6, IoSystemAssumption
    <2>8. /\ child' \in [Obj -> Process \cup {Nil}] /\ child'[o] = new
          /\ \A p \in Obj : p # o => child'[p] = child[p]
      BY <2>1, <2>4, <2>6 DEF ObjectInv, ObjectsOK
    <2>9. /\ live' \in [Obj -> BOOLEAN] /\ live'[o] /\ \A p \in Obj : p # o => live'[p] = live[p]
      BY <2>1, <2>4 DEF ObjectInv, ObjectsOK
    <2>10. /\ native' \in [Obj -> Fd \cup {Nil}] /\ native'[o] = d
           /\ \A p \in Obj : p # o => native'[p] = native[p]
      BY <2>2, <2>3, Holders
    <2>11. native[o] = Nil
      BY <2>1, <2>4 DEF ObjectInv, ChildrenAreSound
    <2>12. ObjectsOK'
      BY <2>1, <2>4, <2>5, <2>8, <2>9, <2>10 DEF ObjectInv, ObjectsOK
    <2>13. ChildrenAreSound'
      <3>1. \A p \in Obj : p # o => /\ child'[p] = child[p] /\ live'[p] = live[p]
                                    /\ native'[p] = native[p] /\ kind'[p] = kind[p]
        BY <2>1, <2>8, <2>9, <2>10
      <3>2. child'[o] # Nil /\ child'[o].reaper = Nil /\ kind'[o] = "subprocess" /\ live'[o]
        BY <2>1, <2>6, <2>7, <2>8, <2>9
      <3>3. ChildrenAreSound
        BY <2>4 DEF ObjectInv
      <3> QED
        BY <3>1, <3>2, <3>3 DEF ChildrenAreSound
    <2>14. OpsStay /\ OpsAdvance /\ NoneAborted
      BY <2>1, <2>4 DEF OpsStay, OpsAdvance, NoneAborted, FiberInv, CoreOK
    <2>15. FiberInv'
      BY <2>1, <2>4, <2>14, FiberStill
    <2>16. ObjectInv'
      <3>1. UNCHANGED <<kind, valid, nbusy>> /\ \A p \in Obj : live[p] => live'[p]
        BY <2>1, <2>5, <2>9
      <3> QED
        BY <2>4, <2>12, <2>13, <2>14, <3>1, ObjectsStay
    <2>17. OthersStay
      <3>1. ReaperIn(child'[o]) = Nil /\ ReaperIn(child[o]) = Nil
        BY <2>1, <2>6, <2>7, <2>8 DEF ReaperIn
      <3> QED
        BY <2>1, <2>8, <3>1 DEF OthersStay
    <2>18. openFd' = openFd \cup {d} /\ UNCHANGED <<handle, lost>>
      BY <2>1, <2>2
    <2>19. FdInv'
      BY <2>4, <2>10, <2>11, <2>17, <2>18, OneOpens
    <2> QED
      BY <2>15, <2>16, <2>19 DEF Inv
  <1> QED
    BY <1>1, <1>2

\* The steps of the engine.
LEMMA EngineInv ==
    ASSUME Inv, NEW f \in Fiber, NEW g \in Fiber, NEW v \in Vm,
           Spawn(f, g) \/ ThisFiber(f) \/ End(f) \/ RunStrand(v)
    PROVE  Inv'
  <1>1. FiberInv'
    BY FiberCalls, FiberRuns DEF Inv
  <1>2. UNCHANGED <<op, objVars, fdVars, valid>>
    BY DEF Spawn, SpawnFiber, ThisFiber, DisableInterruption, RestoreInterruption, Yield, End, RunStrand,
           RunResume, ioVars
  <1>3. OpsStay
    BY <1>2 DEF OpsStay
  <1> QED
    BY <1>1, <1>2, <1>3, KeepsInv

\* fiber_interrupt().
LEMMA InterruptInv ==
    ASSUME Inv, NEW f \in Fiber, NEW g \in Fiber, Interrupt(f, g)
    PROVE  Inv'
  <1>1. FiberInv' /\ FiberInv
    BY FiberInterrupts DEF Inv
  <1>2. UNCHANGED <<objVars, fdVars, valid>>
    BY DEF Interrupt
  <1>3. OpsStay /\ \A h \in Fiber : LockIn(op'[h]) = LockIn(op[h]) /\ PeerIn(op'[h]) = PeerIn(op[h])
    <2>1. CASE UNCHANGED op
      BY <2>1 DEF OpsStay
    <2>2. CASE ~UNCHANGED op
      <3>1. PICK fs \in Cancels(g) : op' = Aborted(fs)
        BY <2>2 DEF Interrupt
      <3>2. OpsAdvance /\ \A h \in Fiber : op[h] # Nil =>
                /\ op'[h].obj = op[h].obj /\ op'[h].lock = op[h].lock /\ op'[h].peer = op[h].peer
        BY <1>1, <3>1, AbortAdvances
      <3>3. \A h \in Fiber : op'[h] = Nil <=> op[h] = Nil
        BY <3>2 DEF OpsAdvance
      <3> QED
        BY <3>2, <3>3 DEF OpsStay, LockIn, PeerIn
    <2> QED
      BY <2>1, <2>2
  <1> QED
    BY <1>1, <1>2, <1>3, KeepsInv

-----------------------------------------------------------------------------
(* The collector and the end of the VM preserve the invariant.               *)

\* The subprocesses of os that leave their child to a reaper.
Leaving(os) == {o \in os : child[o] # Nil /\ native[o] # Nil}

\* What has a descriptor and leaves no child behind closes it.
LEMMA Drops ==
    ASSUME Inv, NEW os \in SUBSET Obj
    PROVE  Dropping(os) \cap Fd = FdsOf(native, os \ Leaving(os))
  <1>1. \A o \in os : native[o] \in Fd => (kind[o] # "subprocess" <=> child[o] = Nil)
    BY Holders DEF Inv, ObjectInv, ChildrenAreSound
  <1>2. ASSUME NEW d \in Fd, d \in Dropping(os) PROVE d \in FdsOf(native, os \ Leaving(os))
    BY <1>1, <1>2 DEF Dropping, FdsOf, Leaving
  <1>3. ASSUME NEW d \in Fd, d \in FdsOf(native, os \ Leaving(os)) PROVE d \in Dropping(os)
    <2>1. PICK o \in os \ Leaving(os) : d = native[o]
      BY <1>3 DEF FdsOf
    <2>2. native[o] # Nil
      BY <2>1, Holders
    <2>3. kind[o] # "subprocess"
      BY <1>1, <2>1, <2>2 DEF Leaving
    <2> QED
      BY <2>1, <2>3 DEF Dropping
  <1>4. FdsOf(native, os \ Leaving(os)) \subseteq Fd
    BY DEF FdsOf
  <1> QED
    BY <1>2, <1>3, <1>4

\* The reapers get what the others leave.
LEMMA ReapersGain ==
    ASSUME Inv, NEW os \in SUBSET Obj, NEW c, c = Orphaned(os)
    PROVE  /\ Gain(ReaperOf(child), ReaperOf(c), Obj, Leaving(os))
           /\ FdsOf(ReaperOf(c), Leaving(os)) = FdsOf(native, Leaving(os))
  <1>1. /\ \A o \in Obj : /\ c[o] = Nil <=> child[o] = Nil
                          /\ o \notin Leaving(os) => c[o] = child[o]
                          /\ o \in Leaving(os) => c[o].reaper = native[o]
    BY Orphans DEF Inv, Leaving
  <1>2. ASSUME NEW o \in Obj
        PROVE  ReaperOf(c)[o] = IF c[o] = Nil THEN Nil ELSE c[o].reaper
    BY DEF ReaperOf
  <1>3. ASSUME NEW o \in Obj
        PROVE  ReaperOf(child)[o] = IF child[o] = Nil THEN Nil ELSE child[o].reaper
    BY DEF ReaperOf
  <1>4. ASSUME NEW o \in Leaving(os)
        PROVE  o \in Obj /\ ReaperOf(c)[o] = native[o] /\ native[o] \in Fd /\ ReaperOf(child)[o] = Nil
    <2>1. o \in Obj /\ native[o] \in Fd /\ child[o] # Nil
      BY Holders DEF Leaving
    <2>2. child[o].reaper = Nil
      BY <2>1, Holders DEF Inv, ObjectInv, ChildrenAreSound
    <2> QED
      BY <1>1, <1>2, <1>3, <2>1, <2>2
  <1>5. Apart(FdsOf(native, Obj), FdsOf(ReaperOf(child), Obj))
    BY DEF Inv, FdInv, OpenIsOwnedOnce, SharedOut
  <1>6. \A o \in Obj \ Leaving(os) : ReaperOf(c)[o] = ReaperOf(child)[o]
    BY <1>1, <1>2, <1>3
  <1>7. \A o \in Leaving(os) : native[o] \in FdsOf(native, Obj)
    BY <1>4, Holders
  <1>8. Gain(ReaperOf(child), ReaperOf(c), Obj, Leaving(os))
    BY <1>4, <1>5, <1>6, <1>7, Holders DEF Gain, Apart, NoFdTwice
  <1>9. FdsOf(ReaperOf(c), Leaving(os)) = FdsOf(native, Leaving(os))
    BY <1>4 DEF FdsOf
  <1> QED
    BY <1>8, <1>9

\* Objects and handles are collected.
LEMMA FdsDepart ==
    ASSUME Inv, NEW os \in SUBSET Obj, NEW hs \in SUBSET Handle, child' = Orphaned(os),
           Lose(native, native', Obj, os), Lose(handle, handle', Handle, hs),
           openFd' = openFd \ (Dropping(os) \cup FdsOf(handle, hs)), UNCHANGED lost,
           LocksOf(op') = LocksOf(op), PeerOf(op') = PeerOf(op), LocksAreSound',
           handle' \in [Handle -> Fd \cup {Nil, Busy}]
    PROVE  FdInv'
  <1>1. NoFdTwice(native', Obj) /\ FdsOf(native', Obj) = FdsOf(native, Obj) \ FdsOf(native, os)
    BY Holders, Losses
  <1>2. NoFdTwice(handle', Handle) /\ FdsOf(handle', Handle) = FdsOf(handle, Handle) \ FdsOf(handle, hs)
    BY Holders, Losses
  <1>3. /\ NoFdTwice(ReaperOf(child'), Obj)
        /\ FdsOf(ReaperOf(child'), Obj) = FdsOf(ReaperOf(child), Obj) \cup FdsOf(native, Leaving(os))
    <2>1. NoFdTwice(ReaperOf(child), Obj)
      BY DEF Inv, FdInv, OpenIsOwnedOnce
    <2>2. PICK c : c = child'
      OBVIOUS
    <2>3. /\ Gain(ReaperOf(child), ReaperOf(c), Obj, Leaving(os))
          /\ FdsOf(ReaperOf(c), Leaving(os)) = FdsOf(native, Leaving(os))
      BY <2>2, ReapersGain
    <2>4. NoFdTwice(ReaperOf(c), Obj)
          /\ FdsOf(ReaperOf(c), Obj) = FdsOf(ReaperOf(child), Obj) \cup FdsOf(native, Leaving(os))
      BY <2>1, <2>3, Gains
    <2> QED
      BY <2>2, <2>4
  <1>4. FdsOf(handle, hs) \subseteq FdsOf(handle, Handle) /\ FdsOf(native, os) \subseteq FdsOf(native, Obj)
    BY DEF FdsOf
  <1>5. /\ FdsOf(native, os \ Leaving(os)) = FdsOf(native, os) \ FdsOf(native, Leaving(os))
        /\ FdsOf(native, Leaving(os)) \subseteq FdsOf(native, os)
    <2>1. Leaving(os) \subseteq os /\ NoFdTwice(native, os)
      BY Holders DEF Leaving, NoFdTwice
    <2>2. FdsOf(native, Leaving(os)) \subseteq FdsOf(native, os)
      BY <2>1 DEF FdsOf
    <2>3. PICK T : T = Leaving(os)
      OBVIOUS
    <2>4. FdsOf(native, os \ T) = FdsOf(native, os) \ FdsOf(native, T)
      BY <2>1, <2>3, FdsWithout
    <2> QED
      BY <2>2, <2>3, <2>4
  <1>6. openFd' = openFd \ ((FdsOf(native, os) \ FdsOf(native, Leaving(os))) \cup FdsOf(handle, hs))
    BY <1>5, Drops, Holders
  <1>7. SharedOut(openFd', FdsOf(native', Obj), FdsOf(handle', Handle), FdsOf(PeerOf(op), Fiber),
                  FdsOf(ReaperOf(child'), Obj), FdsOf(LockedFd, LocksOf(op)), lost)
    BY <1>1, <1>2, <1>3, <1>4, <1>5, <1>6 DEF Inv, FdInv, OpenIsOwnedOnce, SharedOut, Apart
  <1>8. OpenIsOwnedOnce'
    BY <1>1, <1>2, <1>3, <1>7 DEF Inv, FdInv, OpenIsOwnedOnce, LockedFd
  <1>9. DescriptorsOK'
    BY DEF Inv, FdInv, DescriptorsOK
  <1> QED
    BY <1>8, <1>9 DEF FdInv

\* The collector frees an object.
LEMMA CollectInv ==
    ASSUME Inv, NEW f \in Fiber, NEW o \in Obj, CollectObject(f, o)
    PROVE  Inv'
  <1>1. /\ Running(f) /\ StillCore /\ UNCHANGED <<kind, nbusy, handle, lost, valid>>
        /\ native' = [native EXCEPT ![o] = Nil]
        /\ openFd' = openFd \ Dropping({o}) /\ child' = Orphaned({o})
    BY DEF CollectObject, StillCore, coreVars
  <1>2. /\ OpsStay /\ OpsAdvance /\ NoneAborted /\ FiberInv /\ ObjectInv /\ FdInv
        /\ \A g \in Fiber : op[g] # Nil => op'[g].lock = op[g].lock /\ op'[g].peer = op[g].peer
    BY Collected DEF Inv
  <1>3. FiberInv' /\ ObjectInv'
    BY <1>1, <1>2, FiberStill, ObjectsCollect
  <1>4. Lose(native, native', Obj, {o})
    BY <1>1, Holders DEF Lose
  <1>5. Lose(handle, handle', Handle, {}) /\ FdsOf(handle, {}) = {}
    BY <1>1 DEF Lose, FdsOf
  <1>6. LocksAreSound' /\ LocksOf(op') = LocksOf(op) /\ PeerOf(op') = PeerOf(op)
    <2>1. LocksSame /\ BusyStay /\ AllValid' = AllValid
      BY <1>1, <1>2 DEF LocksSame, LockIn, BusyStay, OpsStay, AllValid
    <2>2. PeerOf(op') = PeerOf(op)
      BY <1>2 DEF PeerOf, OpsStay
    <2> QED
      BY <1>2, <2>1, <2>2, LocksStay
  <1>7. PICK os \in SUBSET Obj : os = {o}
    OBVIOUS
  <1>8. /\ openFd' = openFd \ (Dropping(os) \cup FdsOf(handle, {})) /\ child' = Orphaned(os)
        /\ UNCHANGED lost /\ handle' \in [Handle -> Fd \cup {Nil, Busy}]
        /\ Lose(native, native', Obj, os) /\ {} \in SUBSET Handle
    BY <1>1, <1>4, <1>5, <1>7, Holders
  <1>9. FdInv'
    BY <1>5, <1>6, <1>8, FdsDepart
  <1> QED
    BY <1>3, <1>9 DEF Inv

\* The VM is closed: its objects and handles close what they have, but for the
\* descriptors of children, which go to their reapers, and those in operations.
LEMMA CloseVmInv ==
    ASSUME Inv, NEW v \in Vm, CloseIo(v)
    PROVE  Inv'
  <1>1. FiberInv' /\ ObjectInv'
    BY FiberCloses, ObjectsClose DEF Inv
  <1>2. /\ native' = [o \in Obj |-> Nil] /\ handle' = [h \in Handle |-> Nil]
        /\ openFd' = openFd \ (Dropping(Obj) \cup {handle[h] : h \in Handle})
        /\ child' = Orphaned(Obj) /\ op' = Aborted(EndWithVm) /\ UNCHANGED lost
        /\ valid' = [valid EXCEPT ![v] = FALSE]
    BY DEF CloseIo, CloseVm
  <1>3. ~AllValid'
    BY <1>2 DEF AllValid, Inv, FiberInv, CoreOK, CoreTypeOK
  <1>4. /\ \A g \in Fiber : op'[g] = Nil <=> op[g] = Nil
        /\ \A g \in Fiber : op[g] # Nil => op'[g].lock = op[g].lock /\ op'[g].peer = op[g].peer
    <2>1. OpsAdvance /\ \A g \in Fiber : op[g] # Nil => op'[g].lock = op[g].lock /\ op'[g].peer = op[g].peer
      BY <1>2, AbortAdvances DEF Inv
    <2> QED
      BY <2>1 DEF OpsAdvance
  <1>5. LocksOf(op') = LocksOf(op) /\ PeerOf(op') = PeerOf(op)
    BY <1>4 DEF LocksOf, PeerOf
  <1>6. \A h \in Handle : handle'[h] = Nil
    BY <1>2
  <1>7. LocksAreSound'
    <2>1. ASSUME NEW f \in Fiber, NEW g \in Fiber, op'[f] # Nil, op'[g] # Nil,
                 NEW l \in op'[f].lock, NEW m \in op'[g].lock, l[1] = m[1]
          PROVE  f = g /\ l = m
      <3>1. op[f] # Nil /\ op[g] # Nil /\ l \in op[f].lock /\ m \in op[g].lock
        BY <1>4, <2>1
      <3> QED
        BY <2>1, <3>1 DEF Inv, FdInv, LocksAreSound
    <2> QED
      BY <1>3, <1>6, <2>1, Holders DEF LocksAreSound
  <1>8. /\ Lose(native, native', Obj, Obj) /\ Lose(handle, handle', Handle, Handle)
        /\ handle' \in [Handle -> Fd \cup {Nil, Busy}]
    BY <1>2, Holders DEF Lose
  <1>9. openFd' = openFd \ (Dropping(Obj) \cup FdsOf(handle, Handle))
    BY <1>2, Holders DEF FdsOf
  <1>10. Obj \in SUBSET Obj /\ Handle \in SUBSET Handle /\ child' = Orphaned(Obj) /\ UNCHANGED lost
    BY <1>2
  <1>11. FdInv'
    BY <1>5, <1>7, <1>8, <1>9, <1>10, FdsDepart
  <1> QED
    BY <1>1, <1>11 DEF Inv

\* exit().
LEMMA ExitInv ==
    ASSUME Inv, NEW f \in Fiber, Exit(f)
    PROVE  Inv'
  <1>1. PICK v \in Vm : v = VmOf[f]
    BY VmContextAssumption
  <1> QED
    BY <1>1, CloseVmInv DEF Exit

-----------------------------------------------------------------------------
(* The handlers of operations preserve the invariant.                        *)

\* An operation that has neither a connection nor locks ends without a trace.
LEMMA EndsAlone ==
    ASSUME Inv, NEW f \in Fiber, op[f] # Nil, op[f].peer = Nil, op[f].lock = {},
           op' = [op EXCEPT ![f] = Nil]
    PROVE  \A g \in Fiber : LockIn(op'[g]) = LockIn(op[g]) /\ PeerIn(op'[g]) = PeerIn(op[g])
  <1>1. op \in [Fiber -> Operation \cup {Nil}]
    BY DEF Inv, FiberInv, CoreOK
  <1>2. op'[f] = Nil /\ \A g \in Fiber : g # f => op'[g] = op[g]
    BY <1>1
  <1> QED
    BY <1>2 DEF LockIn, PeerIn

\* The result of an operation that is completed.
LEMMA CompletedFacts ==
    ASSUME Inv, NEW f \in Fiber, Completed(f)
    PROVE  /\ op[f] # Nil /\ op[f].ec \in {"none", "error", "operation_aborted"}
           /\ OpIsSound(op[f]) /\ (valid[VmOf[f]] <=> AllValid)
  <1>1. op[f] \in Operation /\ op[f] # Nil /\ op[f].ec # Nil
    BY OpTypes DEF Inv, Completed
  <1>2. op[f].ec \in {Nil, "none", "error", "operation_aborted"}
    BY <1>1 DEF Operation
  <1> QED
    BY <1>1, <1>2, OneVm DEF Inv, FiberInv, OpsAreSound

\* The handler wakes its fiber, or finds the VM closed.
LEMMA WakesInv ==
    ASSUME Inv, NEW f \in Fiber, Completed(f), UNCHANGED kind,
           \/ /\ valid[VmOf[f]]
              /\ \E ec \in {"none", "error", "operation_aborted"} : ResumeWith(f, ec)
              /\ live' \in [Obj -> BOOLEAN] /\ native' \in [Obj -> Fd \cup {Nil}]
              /\ child' \in [Obj -> Process \cup {Nil}] /\ ChildrenAreSound'
              /\ \A o \in Obj : live[o] => live'[o]
           \/ /\ ~valid[VmOf[f]]
              /\ Dropped(f) /\ UNCHANGED <<child, live, native, handle>>
    PROVE  /\ FiberInv' /\ ObjectInv' /\ op' = [op EXCEPT ![f] = Nil] /\ AllValid' = AllValid
  <1>1. op[f] # Nil /\ (valid[VmOf[f]] <=> AllValid) /\ FiberInv /\ ObjectInv
    BY CompletedFacts DEF Inv
  <1>2. CASE valid[VmOf[f]]
    <2>1. PICK ec \in {"none", "error", "operation_aborted"} : ResumeWith(f, ec)
      BY <1>2
    <2>2. /\ op' = [op EXCEPT ![f] = Nil] /\ nbusy' = Count(op[f].obj, -1) /\ UNCHANGED valid
          /\ AllValid' = AllValid
      BY <2>1 DEF ResumeWith, AllValid
    <2>3. FiberInv'
      BY <1>1, <1>2, <2>1, FiberWakes
    <2>4. /\ live' \in [Obj -> BOOLEAN] /\ native' \in [Obj -> Fd \cup {Nil}]
          /\ child' \in [Obj -> Process \cup {Nil}] /\ ChildrenAreSound'
          /\ \A o \in Obj : live[o] => live'[o]
      BY <1>2
    <2>5. ObjectInv'
      BY <1>1, <1>2, <2>2, <2>4, ObjectsWake
    <2> QED
      BY <2>2, <2>3, <2>5
  <1>3. CASE ~valid[VmOf[f]]
    <2>1. /\ Dropped(f) /\ UNCHANGED <<child, live, native, handle>>
      BY <1>3
    <2>2. /\ op' = [op EXCEPT ![f] = Nil] /\ UNCHANGED <<objVars, valid, handle>> /\ AllValid' = AllValid
      BY <2>1 DEF Dropped, objVars, names, coreVars, AllValid
    <2>3. FiberInv'
      BY <1>1, <1>3, <2>1, FiberDropped
    <2>4. ObjectInv'
      BY <1>1, <1>3, <2>2, ObjectsDropped
    <2> QED
      BY <2>2, <2>3, <2>4
  <1> QED
    BY <1>2, <1>3

\* No object changes.
LEMMA ObjectsSame ==
    ASSUME Inv, UNCHANGED <<kind, child, live, native>>
    PROVE  /\ live' \in [Obj -> BOOLEAN] /\ native' \in [Obj -> Fd \cup {Nil}]
           /\ child' \in [Obj -> Process \cup {Nil}] /\ ChildrenAreSound'
           /\ \A o \in Obj : live[o] => live'[o]
  BY DEF Inv, ObjectInv, ObjectsOK, ChildrenAreSound

\* The handler of an operation that has nothing to give or to give back.
LEMMA PlainInv ==
    ASSUME Inv, NEW f \in Fiber, Completed(f), op[f].io \notin {"accept", "send_with_fds"},
           \/ valid[VmOf[f]] /\ \E ec \in {"none", "error", "operation_aborted"} : ResumeWith(f, ec)
           \/ ~valid[VmOf[f]] /\ Dropped(f),
           UNCHANGED <<names, live, native, fdVars>>
    PROVE  Inv'
  <1>1. UNCHANGED <<kind, child, live, native, handle, openFd, lost>>
    BY DEF names, fdVars
  <1>2. FiberInv' /\ ObjectInv' /\ op' = [op EXCEPT ![f] = Nil] /\ AllValid' = AllValid
    BY <1>1, ObjectsSame, WakesInv
  <1>3. op[f] # Nil /\ op[f].peer = Nil /\ op[f].lock = {}
    BY CompletedFacts DEF OpIsSound
  <1>4. OthersStay
    BY <1>1, <1>2, <1>3, EndsAlone DEF OthersStay
  <1>5. FdInv'
    BY <1>1, <1>2, <1>4, FdsStay DEF Inv
  <1> QED
    BY <1>2, <1>5 DEF Inv

\* The handler of most operations.
LEMMA CompletionInv ==
    ASSUME Inv, NEW f \in Fiber, Completion(f)
    PROVE  Inv'
  <1>1. Completed(f) /\ op[f].io \notin {"accept", "send_with_fds"} /\ UNCHANGED <<names, live, native, fdVars>>
    BY DEF Completion, Plain
  <1>2. \/ valid[VmOf[f]] /\ \E ec \in {"none", "error", "operation_aborted"} : ResumeWith(f, ec)
        \/ ~valid[VmOf[f]] /\ Dropped(f)
    BY <1>1, CompletedFacts DEF Completion
  <1> QED
    BY <1>1, <1>2, PlainInv

\* The handler of a TLS socket's operation: the operation is over, or goes on, or the
\* VM is closed.
LEMMA TlsHandlerForms ==
    ASSUME Inv, NEW f \in Fiber, io_op(f)
    PROVE  /\ Completed(f) /\ op[f].io \in TlsIo /\ UNCHANGED <<objVars, fdVars>>
           /\ \/ valid[VmOf[f]] /\ \E ec \in {"none", "error", "operation_aborted"} : Over(f, ec)
              \/ ~valid[VmOf[f]] /\ Dropped(f)
              \/ \E io \in TlsIo, ec \in {Nil, "none", "error"} : Again(f, <<io, ec>>)
  <1>1. Completed(f) /\ op[f].io \in TlsIo /\ UNCHANGED <<objVars, fdVars>>
    BY DEF io_op
  <1>2. op[f].ec \in {"none", "error", "operation_aborted"}
    BY <1>1, CompletedFacts
  <1>3. CASE \E ec \in {op[f].ec} \cup (IF op[f].ec = "none" THEN {"error"} ELSE {}) : Over(f, ec)
    <2>1. PICK ec \in {"none", "error", "operation_aborted"} : Over(f, ec)
      BY <1>2, <1>3
    <2>2. CASE valid[VmOf[f]]
      BY <1>1, <2>1, <2>2
    <2>3. CASE ~valid[VmOf[f]]
      BY <1>1, <2>3 DEF io_op, TlsIo
    <2> QED
      BY <2>2, <2>3
  <1>4. CASE \E s \in NextLayer(op[f].obj, Timer(op[f].io)) : Again(f, s)
    <2>1. PICK s \in NextLayer(op[f].obj, Timer(op[f].io)) : Again(f, s)
      BY <1>4
    <2>2. s[1] \in TlsIo /\ s[2] \in {Nil, "error"} /\ s = <<s[1], s[2]>>
      BY <2>1, NextLayers
    <2> QED
      BY <1>1, <2>1, <2>2
  <1>5. CASE ~valid[VmOf[f]]
    BY <1>1, <1>5 DEF io_op, TlsIo
  <1> QED
    BY <1>1, <1>3, <1>4, <1>5 DEF io_op

\* Such a handler preserves the invariant.
LEMMA TlsHandlerInv ==
    ASSUME Inv, NEW f \in Fiber, io_op(f)
    PROVE  Inv'
  <1>1. /\ Completed(f) /\ op[f].io \in TlsIo /\ UNCHANGED <<objVars, fdVars>>
        /\ op[f] # Nil /\ OpIsSound(op[f]) /\ FiberInv /\ ObjectInv /\ FdInv
    BY TlsHandlerForms, CompletedFacts DEF Inv
  <1>2. UNCHANGED <<kind, child, live, native, nbusy, handle, openFd, lost, names>>
    BY <1>1 DEF objVars, fdVars, names
  <1>3. /\ op[f].obj \in Obj /\ kind[op[f].obj] \notin Counted
        /\ op[f].peer = Nil /\ op[f].lock = {} /\ op[f].io \notin {"accept", "send_with_fds"}
    BY <1>1, OpTypes DEF OpIsSound, Counted, TlsIo, TlsStep, TlsWait
  <1>4. ASSUME valid[VmOf[f]], NEW ec \in {"none", "error", "operation_aborted"}, Over(f, ec)
        PROVE  Inv'
    <2>1. /\ FiberInv' /\ op'[f] = Nil
          /\ \A g \in Fiber : g # f =>
                /\ op'[g] = Nil <=> op[g] = Nil
                /\ op[g] # Nil => /\ op'[g].obj = op[g].obj
                                  /\ op'[g].peer = op[g].peer /\ op'[g].lock = op[g].lock
      BY <1>1, <1>2, <1>4, FiberOver
    <2>2. UNCHANGED valid /\ AllValid' = AllValid
      BY <1>4 DEF Over, AllValid
    <2>3. \A o \in Obj : kind[o] \in Counted => OpsOn(o)' = OpsOn(o)
      BY <1>3, <2>1 DEF OpsOn
    <2>4. NbusyIsExact'
      BY <1>1, <1>2, <2>3 DEF ObjectInv, NbusyIsExact
    <2>5. CountedAreLive'
      BY <1>1, <1>2, <2>1, <2>2 DEF ObjectInv, CountedAreLive
    <2>6. ObjectInv'
      BY <1>1, <1>2, <2>2, <2>4, <2>5 DEF ObjectInv, ObjectsOK, ChildrenAreSound, ClosedIsEmpty
    <2>7. OthersStay
      BY <1>1, <1>2, <1>3, <2>1 DEF OthersStay, LockIn, PeerIn
    <2>8. FdInv'
      BY <1>1, <1>2, <2>2, <2>7, FdsStay
    <2> QED
      BY <2>1, <2>6, <2>8 DEF Inv
  <1>5. ASSUME NEW io \in TlsIo, NEW ec \in {Nil, "none", "error"}, Again(f, <<io, ec>>)
        PROVE  Inv'
    <2>1. FiberInv' /\ OpsAdvance
      BY <1>1, <1>2, <1>5, FiberAgain
    <2>2. UNCHANGED valid
      BY <1>5 DEF Again, coreVars
    <2>3. ASSUME NEW g \in Fiber
          PROVE  /\ op'[g] = Nil <=> op[g] = Nil
                 /\ op[g] # Nil => /\ op'[g].obj = op[g].obj
                                   /\ op'[g].peer = op[g].peer /\ op'[g].lock = op[g].lock
      <3>1. CASE g = f
        <4>1. op[f] \in Operation /\ op'[f] = [op[f] EXCEPT !.io = io, !.ec = ec]
          BY <1>1, <1>5, OpTypes, ReleasedOps DEF Again
        <4> QED
          BY <1>1, <2>1, <3>1, <4>1 DEF Operation, OpsAdvance
      <3>2. CASE g # f
        <4>1. op'[g] = Released(f)[g]
          BY <1>5, <3>2 DEF Again, Released
        <4> QED
          BY <1>1, <4>1, ReleasedOps
      <3> QED
        BY <3>1, <3>2
    <2>4. OpsStay /\ \A g \in Fiber : LockIn(op'[g]) = LockIn(op[g]) /\ PeerIn(op'[g]) = PeerIn(op[g])
      BY <2>3 DEF OpsStay, LockIn, PeerIn
    <2> QED
      BY <1>1, <2>1, <2>2, <2>4, KeepsInv
  <1>6. CASE ~valid[VmOf[f]] /\ Dropped(f)
    BY <1>1, <1>2, <1>3, <1>6, PlainInv
  <1> QED
    BY <1>4, <1>5, <1>6, TlsHandlerForms

\* A wait for a socket starts again.
LEMMA DoWaitInv ==
    ASSUME Inv, NEW f \in Fiber, op[f] # Nil, op[f].io \in Rewaiting, DoWait(f)
    PROVE  Inv'
  <1>1. FiberInv'
    BY FiberDoWait DEF Inv
  <1>2. PICK ec \in {Nil, "error"} : op' = [op EXCEPT ![f].ec = ec]
    BY DEF DoWait
  <1>3. UNCHANGED <<objVars, fdVars, valid>>
    BY DEF DoWait, coreVars
  <1>4. op[f] \in Operation /\ op \in [Fiber -> Operation \cup {Nil}]
    BY OpTypes DEF Inv, FiberInv, CoreOK
  <1>5. ASSUME NEW r \in Operation
        PROVE  /\ [r EXCEPT !.ec = ec] \in Operation /\ [r EXCEPT !.ec = ec].obj = r.obj
               /\ [r EXCEPT !.ec = ec].lock = r.lock /\ [r EXCEPT !.ec = ec].peer = r.peer
    BY DEF Operation
  <1>6. op'[f] = [op[f] EXCEPT !.ec = ec] /\ \A g \in Fiber : g # f => op'[g] = op[g]
    BY <1>2, <1>4
  <1>7. op'[f] # Nil /\ op'[f].obj = op[f].obj /\ op'[f].lock = op[f].lock /\ op'[f].peer = op[f].peer
    BY <1>4, <1>5, <1>6, IoSystemAssumption
  <1>8. OpsStay /\ \A g \in Fiber : LockIn(op'[g]) = LockIn(op[g]) /\ PeerIn(op'[g]) = PeerIn(op[g])
    BY <1>6, <1>7 DEF OpsStay, LockIn, PeerIn
  <1> QED
    BY <1>1, <1>3, <1>8, KeepsInv

\* The locks of an operation end with it.
LEMMA LocksEnd ==
    ASSUME Inv, NEW f \in Fiber, op[f] # Nil, op[f].peer = Nil, op' = [op EXCEPT ![f] = Nil]
    PROVE  /\ PeerOf(op') = PeerOf(op)
           /\ NoFdTwice(LockedFd, LocksOf(op'))
           /\ FdsOf(LockedFd, LocksOf(op')) = FdsOf(LockedFd, LocksOf(op)) \ Locked(f)
           /\ Locked(f) \subseteq FdsOf(LockedFd, LocksOf(op))
  <1>1. op \in [Fiber -> Operation \cup {Nil}]
    BY DEF Inv, FiberInv, CoreOK
  <1>2. op'[f] = Nil /\ \A g \in Fiber : g # f => op'[g] = op[g]
    BY <1>1
  <1>3. PICK L : L = op[f].lock
    OBVIOUS
  <1>4. L \subseteq LocksOf(op) /\ LocksOf(op) \subseteq Handle \X Fd
    BY <1>3, LockFacts DEF LocksOf
  <1>5. LocksOf(op') = LocksOf(op) \ L
    <2>1. ASSUME NEW l, l \in LocksOf(op') PROVE l \in LocksOf(op) /\ l \notin L
      <3>1. PICK g \in Fiber : op'[g] # Nil /\ l \in op'[g].lock
        BY <2>1 DEF LocksOf
      <3>2. g # f /\ op[g] # Nil /\ l \in op[g].lock
        BY <1>2, <3>1
      <3>3. l \notin L
        BY <1>3, <3>2 DEF Inv, FdInv, LocksAreSound
      <3> QED
        BY <3>2, <3>3 DEF LocksOf
    <2>2. ASSUME NEW l, l \in LocksOf(op), l \notin L PROVE l \in LocksOf(op')
      <3>1. PICK g \in Fiber : op[g] # Nil /\ l \in op[g].lock
        BY <2>2 DEF LocksOf
      <3> QED
        BY <1>2, <1>3, <2>2, <3>1 DEF LocksOf
    <2> QED
      BY <2>1, <2>2
  <1>6. FdsOf(LockedFd, L) = Locked(f)
    <2>1. \A l \in L : LockedFd[l] = l[2] /\ l[2] \in Fd
      BY <1>4 DEF LockedFd
    <2> QED
      BY <1>3, <2>1 DEF FdsOf, Locked
  <1>7. NoFdTwice(LockedFd, LocksOf(op) \ L)
        /\ FdsOf(LockedFd, LocksOf(op) \ L) = FdsOf(LockedFd, LocksOf(op)) \ FdsOf(LockedFd, L)
    BY ZenonT(30), <1>4, LockFacts, FdsWithout
  <1>8. FdsOf(LockedFd, L) \subseteq FdsOf(LockedFd, LocksOf(op))
    BY <1>4 DEF FdsOf
  <1>9. PeerOf(op') = PeerOf(op)
    BY <1>2 DEF PeerOf
  <1> QED
    BY <1>5, <1>6, <1>7, <1>8, <1>9

\* The handles of a message get their descriptors back.
LEMMA UnlocksInv ==
    ASSUME Inv, NEW f \in Fiber, Completed(f), op[f].io = "send_with_fds", valid[VmOf[f]],
           \E ec \in {"none", "error", "operation_aborted"} : ResumeWith(f, ec),
           handle' = Unlocked(f), UNCHANGED <<names, live, native, openFd, lost>>
    PROVE  Inv'
  <1>1. UNCHANGED <<kind, child, live, native, openFd, lost>>
    BY DEF names
  <1>2. FiberInv' /\ ObjectInv' /\ op' = [op EXCEPT ![f] = Nil] /\ AllValid' = AllValid
    BY <1>1, ObjectsSame, WakesInv
  <1>3. op[f] # Nil /\ op[f].peer = Nil /\ AllValid
    BY CompletedFacts DEF OpIsSound
  <1>4. /\ PeerOf(op') = PeerOf(op) /\ NoFdTwice(LockedFd, LocksOf(op'))
        /\ FdsOf(LockedFd, LocksOf(op')) = FdsOf(LockedFd, LocksOf(op)) \ Locked(f)
        /\ Locked(f) \subseteq FdsOf(LockedFd, LocksOf(op))
    BY <1>2, <1>3, LocksEnd
  <1>5. PICK L : L = op[f].lock
    OBVIOUS
  <1>6. /\ L \subseteq LocksOf(op) /\ LocksOf(op) \subseteq Handle \X Fd
        /\ \A l \in L : l[1] \in Handle /\ l[2] \in Fd /\ l = <<l[1], l[2]>>
    <2>1. L \subseteq LocksOf(op) /\ LocksOf(op) \subseteq Handle \X Fd
      BY <1>3, <1>5, LockFacts DEF LocksOf
    <2> QED
      BY <2>1
  <1>7. \A l, m \in L : l[1] = m[1] => l = m
    BY <1>3, <1>5 DEF Inv, FdInv, LocksAreSound
  <1>8. PICK hs : hs = {l[1] : l \in L}
    OBVIOUS
  <1>9. ASSUME NEW l \in L PROVE handle'[l[1]] = l[2] /\ handle[l[1]] = Busy
    <2>1. l[1] \in Handle /\ l[2] \in Fd /\ <<l[1], l[2]>> \in op[f].lock
      BY <1>5, <1>6
    <2>2. \A d \in Fd : <<l[1], d>> \in op[f].lock => d = l[2]
      <3> SUFFICES ASSUME NEW d \in Fd, <<l[1], d>> \in L PROVE d = l[2]
        BY <1>5
      <3>1. PICK m \in L : m = <<l[1], d>>
        OBVIOUS
      <3> QED
        BY <1>7, <3>1
    <2>3. (CHOOSE d \in Fd : <<l[1], d>> \in op[f].lock) = l[2]
      BY <2>1, <2>2
    <2>4. handle'[l[1]] = l[2]
      BY <2>1, <2>3 DEF Unlocked
    <2>5. handle[l[1]] = Busy
      BY <1>3, <1>5 DEF Inv, FdInv, LocksAreSound
    <2> QED
      BY <2>4, <2>5
  <1>10. ASSUME NEW h \in Handle, h \notin hs PROVE handle'[h] = handle[h]
    <2>1. ASSUME NEW d \in Fd, <<h, d>> \in op[f].lock PROVE FALSE
      <3>1. PICK m \in L : m = <<h, d>>
        BY <1>5, <2>1
      <3> QED
        BY <1>8, <1>10, <3>1
    <2> QED
      BY <2>1 DEF Unlocked
  <1>11. \A h \in hs : h \in Handle /\ \E l \in L : h = l[1]
    BY <1>6, <1>8
  <1>12. handle' \in [Handle -> Fd \cup {Nil, Busy}]
    <2>1. handle' = [h \in Handle |-> handle'[h]]
      BY DEF Unlocked
    <2>2. \A h \in Handle : handle'[h] \in Fd \cup {Nil, Busy}
      BY <1>6, <1>9, <1>10, <1>11, Holders
    <2> QED
      BY <2>1, <2>2
  <1>13. \A l \in L : l[2] \in FdsOf(LockedFd, LocksOf(op)) /\ LockedFd[l] = l[2]
    BY <1>6, LockFacts
  <1>14. Gain(handle, handle', Handle, hs)
    <2>1. \A h \in hs : handle[h] \notin Fd /\ handle'[h] \in Fd /\ handle'[h] \notin FdsOf(handle, Handle)
      <3> SUFFICES ASSUME NEW h \in hs
                   PROVE  handle[h] \notin Fd /\ handle'[h] \in Fd /\ handle'[h] \notin FdsOf(handle, Handle)
        OBVIOUS
      <3>1. PICK l \in L : h = l[1]
        BY <1>11
      <3> QED
        BY <1>6, <1>9, <1>13, <3>1, LockFacts, Holders DEF Apart
    <2>2. ASSUME NEW h \in hs, NEW g \in hs, handle'[h] = handle'[g] PROVE h = g
      <3>1. PICK l \in L : h = l[1]
        BY <1>11
      <3>2. PICK m \in L : g = m[1]
        BY <1>11
      <3>3. LockedFd[l] = LockedFd[m] /\ LockedFd[l] \in Fd
        BY <1>6, <1>9, <1>13, <2>2, <3>1, <3>2
      <3>4. l = m
        BY <1>6, <3>3, LockFacts DEF NoFdTwice
      <3> QED
        BY <3>1, <3>2, <3>4
    <2> QED
      BY <1>10, <1>11, <2>1, <2>2 DEF Gain
  <1>15. FdsOf(handle', hs) = Locked(f)
    <2>1. ASSUME NEW d, d \in FdsOf(handle', hs) PROVE d \in Locked(f)
      <3>1. PICK h \in hs : d = handle'[h]
        BY <2>1 DEF FdsOf
      <3>2. PICK l \in L : h = l[1]
        BY <1>11
      <3> QED
        BY <1>5, <1>9, <3>1, <3>2 DEF Locked
    <2>2. ASSUME NEW d, d \in Locked(f) PROVE d \in FdsOf(handle', hs)
      <3>1. PICK l \in L : d = l[2]
        BY <1>5, <2>2 DEF Locked
      <3>2. l[1] \in hs /\ handle'[l[1]] = d /\ d \in Fd
        BY <1>6, <1>8, <1>9, <3>1
      <3> QED
        BY <3>2 DEF FdsOf
    <2> QED
      BY <2>1, <2>2
  <1>16. NoFdTwice(handle', Handle) /\ FdsOf(handle', Handle) = FdsOf(handle, Handle) \cup Locked(f)
    BY <1>14, <1>15, Holders, Gains
  <1>17. OpenIsOwnedOnce'
    <2>1. SharedOut(openFd, FdsOf(native, Obj), FdsOf(handle', Handle), FdsOf(PeerOf(op), Fiber),
                    FdsOf(ReaperOf(child), Obj), FdsOf(LockedFd, LocksOf(op')), lost)
      BY <1>4, <1>16 DEF Inv, FdInv, OpenIsOwnedOnce, SharedOut, Apart
    <2> QED
      BY <1>1, <1>4, <1>16, <2>1 DEF Inv, FdInv, OpenIsOwnedOnce, LockedFd
  <1>18. LocksAreSound'
    <2>1. op'[f] = Nil /\ \A g \in Fiber : g # f => op'[g] = op[g]
      BY <1>2, EndedOps, <1>3, <1>1 DEF Inv
    <2>2. ASSUME NEW g \in Fiber, op'[g] # Nil, NEW l \in op'[g].lock
          PROVE  g # f /\ op[g] # Nil /\ l \in op[g].lock
      BY <2>1, <2>2
    <2>3. ASSUME NEW g \in Fiber, NEW g1 \in Fiber, op'[g] # Nil, op'[g1] # Nil,
                 NEW l \in op'[g].lock, NEW m \in op'[g1].lock, l[1] = m[1]
          PROVE  g = g1 /\ l = m
      <3>1. op[g] # Nil /\ l \in op[g].lock /\ op[g1] # Nil /\ m \in op[g1].lock
        BY <2>2, <2>3
      <3> QED
        BY <2>3, <3>1 DEF Inv, FdInv, LocksAreSound
    <2>4. ASSUME NEW g \in Fiber, op'[g] # Nil, NEW l \in op'[g].lock PROVE handle'[l[1]] = Busy
      <3>1. g # f /\ op[g] # Nil /\ l \in op[g].lock
        BY <2>2, <2>4
      <3>2. handle[l[1]] = Busy /\ l[1] \in Handle
        BY <1>3, <3>1, OpTypes DEF Inv, FdInv, LocksAreSound
      <3>3. l[1] \notin hs
        <4> SUFFICES ASSUME NEW m \in L, l[1] = m[1] PROVE FALSE
          BY <1>11
        <4> QED
          BY <1>3, <1>5, <3>1 DEF Inv, FdInv, LocksAreSound
      <3> QED
        BY <1>10, <3>2, <3>3
    <2>5. ASSUME NEW h \in Handle, handle'[h] = Busy
          PROVE  \E g \in Fiber : op'[g] # Nil /\ \E l \in op'[g].lock : l[1] = h
      <3>1. h \notin hs
        BY <1>14, <2>5, Holders DEF Gain
      <3>2. PICK g \in Fiber : op[g] # Nil /\ \E l \in op[g].lock : l[1] = h
        BY <1>10, <2>5, <3>1 DEF Inv, FdInv, LocksAreSound
      <3>3. g # f
        BY <1>5, <1>8, <3>1, <3>2
      <3> QED
        BY <2>1, <3>2, <3>3
    <2> QED
      BY <2>3, <2>4, <2>5 DEF LocksAreSound
  <1>19. DescriptorsOK'
    BY <1>1, <1>12 DEF Inv, FdInv, DescriptorsOK
  <1> QED
    BY <1>2, <1>17, <1>18, <1>19 DEF Inv, FdInv

\* The descriptors of a message are closed when the VM is.
LEMMA LocksDropInv ==
    ASSUME Inv, NEW f \in Fiber, Completed(f), op[f].io = "send_with_fds", ~valid[VmOf[f]],
           Dropped(f), openFd' = openFd \ Locked(f), UNCHANGED <<names, live, native, handle, lost>>
    PROVE  Inv'
  <1>1. UNCHANGED <<kind, child, live, native, handle, lost>>
    BY DEF names
  <1>2. FiberInv' /\ ObjectInv' /\ op' = [op EXCEPT ![f] = Nil] /\ AllValid' = AllValid
    BY <1>1, WakesInv
  <1>3. op[f] # Nil /\ op[f].peer = Nil /\ ~AllValid
    BY CompletedFacts DEF OpIsSound
  <1>4. /\ PeerOf(op') = PeerOf(op) /\ NoFdTwice(LockedFd, LocksOf(op'))
        /\ FdsOf(LockedFd, LocksOf(op')) = FdsOf(LockedFd, LocksOf(op)) \ Locked(f)
        /\ Locked(f) \subseteq FdsOf(LockedFd, LocksOf(op))
    BY <1>2, <1>3, LocksEnd
  <1>5. OpenIsOwnedOnce'
    <2>1. SharedOut(openFd', FdsOf(native, Obj), FdsOf(handle, Handle), FdsOf(PeerOf(op), Fiber),
                    FdsOf(ReaperOf(child), Obj), FdsOf(LockedFd, LocksOf(op')), lost)
      BY <1>4 DEF Inv, FdInv, OpenIsOwnedOnce, SharedOut, Apart
    <2> QED
      BY <1>1, <1>4, <2>1 DEF Inv, FdInv, OpenIsOwnedOnce, LockedFd
  <1>6. LocksAreSound'
    <2>1. op'[f] = Nil /\ \A g \in Fiber : g # f => op'[g] = op[g]
      BY <1>2, EndedOps, <1>3, <1>1 DEF Inv
    <2>2. \A h \in Handle : handle'[h] # Busy
      BY <1>1, <1>3, Holders DEF Inv, ObjectInv, ClosedIsEmpty
    <2>3. ASSUME NEW g \in Fiber, NEW g1 \in Fiber, op'[g] # Nil, op'[g1] # Nil,
                 NEW l \in op'[g].lock, NEW m \in op'[g1].lock, l[1] = m[1]
          PROVE  g = g1 /\ l = m
      <3>1. op[g] # Nil /\ l \in op[g].lock /\ op[g1] # Nil /\ m \in op[g1].lock
        BY <2>1, <2>3
      <3> QED
        BY <2>3, <3>1 DEF Inv, FdInv, LocksAreSound
    <2> QED
      BY <1>2, <1>3, <2>2, <2>3 DEF LocksAreSound
  <1>7. DescriptorsOK'
    BY <1>1 DEF Inv, FdInv, DescriptorsOK
  <1> QED
    BY <1>2, <1>5, <1>6, <1>7 DEF Inv, FdInv

\* The handler of send_with_fds(): the handles get their descriptors back, or nobody does.
LEMMA SendHandlerInv ==
    ASSUME Inv, NEW f \in Fiber, send_with_fds_op(f)
    PROVE  Inv'
  <1>1. Completed(f) /\ op[f].io = "send_with_fds"
    BY DEF send_with_fds_op
  <1>2. op[f] # Nil /\ op[f].ec \in {"none", "error", "operation_aborted"}
    BY <1>1, CompletedFacts
  <1>3. CASE ~valid[VmOf[f]]
    BY <1>1, <1>3, LocksDropInv DEF send_with_fds_op
  <1>4. CASE valid[VmOf[f]] /\ DoWait(f)
    BY <1>1, <1>2, <1>4, DoWaitInv DEF Rewaiting
  <1>5. CASE valid[VmOf[f]] /\ ~DoWait(f)
    <2>1. /\ \E ec \in {"none", "error", "operation_aborted"} : ResumeWith(f, ec)
          /\ handle' = Unlocked(f) /\ UNCHANGED <<names, live, native, openFd, lost>>
      BY <1>2, <1>5 DEF send_with_fds_op
    <2> QED
      BY <1>1, <1>5, <2>1, UnlocksInv
  <1> QED
    BY <1>3, <1>4, <1>5

\* A message brings descriptors, which become handles.
LEMMA ReceivedInv ==
    ASSUME Inv, NEW f \in Fiber, Completed(f), op[f].io = "receive_with_fds", valid[VmOf[f]],
           NEW n, Received(f, n)
    PROVE  Inv'
  <1>1. UNCHANGED <<kind, child, live, native, lost>> /\ ResumeWith(f, "none")
    BY DEF Received, names
  <1>2. FiberInv' /\ ObjectInv' /\ op' = [op EXCEPT ![f] = Nil] /\ AllValid' = AllValid
    BY <1>1, ObjectsSame, WakesInv
  <1>3. op[f] # Nil /\ op[f].peer = Nil /\ op[f].lock = {} /\ AllValid
    BY CompletedFacts DEF OpIsSound
  <1>4. OthersStay
    BY <1>1, <1>2, <1>3, EndsAlone DEF OthersStay
  <1>5. PICK hs \in SUBSET NewHandles : \E m \in [hs -> Fd \ openFd] :
           /\ \A g, h \in hs : g # h => m[g] # m[h]
           /\ handle' = [h \in Handle |-> IF h \in hs THEN m[h] ELSE handle[h]]
           /\ openFd' = openFd \cup {m[h] : h \in hs}
    BY DEF Received, kSubset
  <1>6. PICK m \in [hs -> Fd \ openFd] :
           /\ \A g, h \in hs : g # h => m[g] # m[h]
           /\ handle' = [h \in Handle |-> IF h \in hs THEN m[h] ELSE handle[h]]
           /\ openFd' = openFd \cup {m[h] : h \in hs}
    BY <1>5
  <1>7. /\ \A h \in hs : h \in Handle /\ handle[h] = Nil /\ handle'[h] = m[h] /\ m[h] \in Fd /\ m[h] \notin openFd
        /\ \A h \in Handle \ hs : handle'[h] = handle[h]
        /\ handle' \in [Handle -> Fd \cup {Nil, Busy}]
    BY <1>6, Holders DEF NewHandles
  <1>8. Gain(handle, handle', Handle, hs) /\ BusyStay
    BY SMTT(30), <1>6, <1>7, Holders DEF Gain, BusyStay
  <1>9. FdsOf(handle', hs) = {m[h] : h \in hs}
    BY <1>7 DEF FdsOf
  <1>10. Apart(FdsOf(handle', hs), openFd)
    BY <1>7 DEF Apart, FdsOf
  <1>11. openFd' = openFd \cup FdsOf(handle', hs)
    BY <1>6, <1>9
  <1>12. Gain(native, native', Obj, {}) /\ FdsOf(native', {}) = {}
    BY <1>1 DEF Gain, FdsOf
  <1>13. /\ Apart(FdsOf(native', {}), openFd) /\ Apart(FdsOf(native', {}), FdsOf(handle', hs))
         /\ openFd' = openFd \cup FdsOf(native', {}) \cup FdsOf(handle', hs)
         /\ handle' \in [Handle -> Fd \cup {Nil, Busy}] /\ UNCHANGED lost
    BY <1>1, <1>7, <1>11, <1>12 DEF Apart
  <1>14. FdInv'
    BY <1>3, <1>4, <1>8, <1>10, <1>12, <1>13, FdsGain
  <1> QED
    BY <1>2, <1>14 DEF Inv

\* The handler of receive_with_fds().
LEMMA ReceiveHandlerInv ==
    ASSUME Inv, NEW f \in Fiber, receive_with_fds_op(f)
    PROVE  Inv'
  <1>1. Completed(f) /\ op[f].io = "receive_with_fds"
    BY DEF receive_with_fds_op
  <1>2. op[f] # Nil /\ op[f].ec \in {"none", "error", "operation_aborted"}
    BY <1>1, CompletedFacts
  <1>3. CASE valid[VmOf[f]] /\ DoWait(f)
    BY <1>1, <1>2, <1>3, DoWaitInv DEF Rewaiting
  <1>4. CASE valid[VmOf[f]] /\ \E n \in 0..MaxSent : Received(f, n)
    BY <1>1, <1>4, ReceivedInv
  <1>5. CASE ~(valid[VmOf[f]] /\ DoWait(f)) /\ ~(valid[VmOf[f]] /\ \E n \in 0..MaxSent : Received(f, n))
    <2>1. /\ \/ valid[VmOf[f]] /\ \E ec \in {"none", "error", "operation_aborted"} : ResumeWith(f, ec)
             \/ ~valid[VmOf[f]] /\ Dropped(f)
          /\ UNCHANGED <<names, live, native, fdVars>>
      BY <1>2, <1>5 DEF receive_with_fds_op
    <2> QED
      BY <1>1, <2>1, PlainInv
  <1> QED
    BY <1>3, <1>4, <1>5

\* What the accept() of one fiber has.
LEMMA PeerLost ==
    ASSUME Inv, NEW f \in Fiber, op[f] # Nil, op' = [op EXCEPT ![f] = Nil]
    PROVE  /\ NoFdTwice(PeerOf(op'), Fiber)
           /\ FdsOf(PeerOf(op'), Fiber) = FdsOf(PeerOf(op), Fiber) \ ({op[f].peer} \cap Fd)
           /\ op[f].peer \in Fd => op[f].peer \in FdsOf(PeerOf(op), Fiber)
  <1>1. op \in [Fiber -> Operation \cup {Nil}]
    BY DEF Inv, FiberInv, CoreOK
  <1>2. op'[f] = Nil /\ \A g \in Fiber : g # f => op'[g] = op[g]
    BY <1>1
  <1>3. PICK P : P = PeerOf(op)
    OBVIOUS
  <1>4. PICK Q : Q = PeerOf(op')
    OBVIOUS
  <1>5. P[f] = op[f].peer /\ Q[f] = Nil /\ \A g \in Fiber \ {f} : Q[g] = P[g]
    BY <1>2, <1>3, <1>4 DEF PeerOf
  <1>6. Lose(P, Q, Fiber, {f}) /\ NoFdTwice(P, Fiber)
    BY <1>3, <1>5, IoAssumption DEF Lose, Inv, FdInv, OpenIsOwnedOnce
  <1>7. FdsOf(P, {f}) = {op[f].peer} \cap Fd /\ (op[f].peer \in Fd => op[f].peer \in FdsOf(P, Fiber))
    BY <1>5 DEF FdsOf
  <1>8. NoFdTwice(Q, Fiber) /\ FdsOf(Q, Fiber) = FdsOf(P, Fiber) \ FdsOf(P, {f})
    BY <1>6, Losses
  <1> QED
    BY <1>3, <1>4, <1>7, <1>8

\* The connection goes to a new socket.
LEMMA GivesPeerInv ==
    ASSUME Inv, NEW f \in Fiber, Completed(f), op[f].io = "accept", valid[VmOf[f]],
           ResumeWith(f, op[f].ec), op[f].peer # Nil, NEW p \in Obj, ~live[p],
           kind[p] = PeerType[kind[op[f].obj]], live' \in [Obj -> BOOLEAN], live'[p],
           \A q \in Obj : q # p => live'[q] = live[q] /\ native'[q] = native[q],
           native' \in [Obj -> Fd \cup {Nil}], native'[p] = op[f].peer,
           UNCHANGED <<openFd, names, handle, lost>>
    PROVE  Inv'
  <1>1. UNCHANGED <<kind, child, handle, openFd, lost>>
    BY DEF names
  <1>2. /\ op[f] # Nil /\ AllValid /\ op[f].ec \in {"none", "error", "operation_aborted"}
        /\ kind[op[f].obj] \in DOMAIN PeerType
    BY CompletedFacts DEF OpIsSound
  <1>3. kind[p] # "subprocess"
    BY <1>2 DEF PeerType
  <1>4. PICK d \in Fd : d = op[f].peer
    BY <1>2, OpTypes DEF Inv
  <1>6. native'[p] = d
    BY <1>4
  <1>7. ChildrenAreSound' /\ \A o \in Obj : live[o] => live'[o]
    <2>1. ObjectsGrow
      BY <1>3 DEF ObjectsGrow
    <2> QED
      BY <1>1, <2>1, ChildrenStay DEF Inv
  <1>8. FiberInv' /\ ObjectInv' /\ op' = [op EXCEPT ![f] = Nil] /\ AllValid' = AllValid
    <2>1. child' \in [Obj -> Process \cup {Nil}]
      BY <1>1 DEF Inv, ObjectInv, ObjectsOK
    <2> QED
      BY <1>1, <1>2, <1>7, <2>1, WakesInv
  <1>9. /\ NoFdTwice(PeerOf(op'), Fiber) /\ d \in FdsOf(PeerOf(op), Fiber)
        /\ FdsOf(PeerOf(op'), Fiber) = FdsOf(PeerOf(op), Fiber) \ {d}
    <2>1. {op[f].peer} \cap Fd = {d}
      BY <1>4
    <2> QED
      BY <1>2, <1>4, <1>8, <2>1, PeerLost
  <1>10. d \notin FdsOf(native, Obj)
    BY <1>9 DEF Inv, FdInv, OpenIsOwnedOnce, SharedOut, Apart
  <1>11. native[p] = Nil
    BY DEF Inv, ObjectInv, ChildrenAreSound
  <1>12. Gain(native, native', Obj, {p})
    BY <1>6, <1>10, <1>11, Holders DEF Gain
  <1>13. FdsOf(native', {p}) = {d}
    BY <1>6 DEF FdsOf
  <1>14. NoFdTwice(native', Obj) /\ FdsOf(native', Obj) = FdsOf(native, Obj) \cup {d}
    <2>1. NoFdTwice(native, Obj)
      BY Holders
    <2>2. NoFdTwice(native', Obj) /\ FdsOf(native', Obj) = FdsOf(native, Obj) \cup FdsOf(native', {p})
      BY SMTT(30), <1>12, <2>1, Gains
    <2> QED
      BY <1>13, <2>2
  <1>15. LocksSame
    <2>1. op[f].lock = {}
      BY CompletedFacts DEF OpIsSound
    <2>2. op'[f] = Nil /\ \A g \in Fiber : g # f => op'[g] = op[g]
      BY <1>1, <1>2, <1>8, EndedOps DEF Inv
    <2> QED
      BY <2>1, <2>2 DEF LocksSame, LockIn
  <1>16. /\ BusyStay /\ DescriptorsOK' /\ NoFdTwice(handle', Handle) /\ NoFdTwice(ReaperOf(child'), Obj)
    BY <1>1 DEF BusyStay, Inv, FdInv, DescriptorsOK, OpenIsOwnedOnce
  <1>17. SharedOut(openFd', FdsOf(native', Obj), FdsOf(handle', Handle), FdsOf(PeerOf(op'), Fiber),
                   FdsOf(ReaperOf(child'), Obj), FdsOf(LockedFd, LocksOf(op)), lost')
    BY <1>1, <1>9, <1>14 DEF Inv, FdInv, OpenIsOwnedOnce, SharedOut, Apart
  <1>18. FdInv'
    BY <1>2, <1>9, <1>14, <1>15, <1>16, <1>17, FdsReshared DEF Inv
  <1> QED
    BY <1>8, <1>18 DEF Inv

\* The connection, if there is one, is closed.
LEMMA ClosesPeerInv ==
    ASSUME Inv, NEW f \in Fiber, Completed(f), op[f].io = "accept",
           \/ valid[VmOf[f]] /\ ResumeWith(f, op[f].ec)
           \/ ~valid[VmOf[f]] /\ Dropped(f),
           openFd' = openFd \ {op[f].peer}, UNCHANGED <<names, live, native, handle, lost>>
    PROVE  Inv'
  <1>1. UNCHANGED <<kind, child, live, native, handle, lost>>
    BY DEF names
  <1>2. op[f] # Nil /\ op[f].ec \in {"none", "error", "operation_aborted"} /\ op[f].lock = {}
    BY CompletedFacts DEF OpIsSound
  <1>3. FiberInv' /\ ObjectInv' /\ op' = [op EXCEPT ![f] = Nil] /\ AllValid' = AllValid
    BY <1>1, <1>2, ObjectsSame, WakesInv
  <1>4. PICK D : D = {op[f].peer} \cap Fd
    OBVIOUS
  <1>5. /\ NoFdTwice(PeerOf(op'), Fiber) /\ D \subseteq FdsOf(PeerOf(op), Fiber)
        /\ FdsOf(PeerOf(op'), Fiber) = FdsOf(PeerOf(op), Fiber) \ D
    BY <1>2, <1>3, <1>4, PeerLost
  <1>6. openFd' = openFd \ D
    BY <1>4, Holders
  <1>7. LocksSame
    <2>1. op'[f] = Nil /\ \A g \in Fiber : g # f => op'[g] = op[g]
      BY <1>1, <1>2, <1>3, EndedOps DEF Inv
    <2> QED
      BY <1>2, <2>1 DEF LocksSame, LockIn
  <1>8. /\ BusyStay /\ DescriptorsOK' /\ NoFdTwice(native', Obj) /\ NoFdTwice(handle', Handle)
        /\ NoFdTwice(ReaperOf(child'), Obj)
    BY <1>1, <1>6 DEF BusyStay, Inv, FdInv, DescriptorsOK, OpenIsOwnedOnce
  <1>9. SharedOut(openFd', FdsOf(native', Obj), FdsOf(handle', Handle), FdsOf(PeerOf(op'), Fiber),
                  FdsOf(ReaperOf(child'), Obj), FdsOf(LockedFd, LocksOf(op)), lost')
    BY <1>1, <1>5, <1>6 DEF Inv, FdInv, OpenIsOwnedOnce, SharedOut, Apart
  <1>10. FdInv'
    BY <1>3, <1>5, <1>7, <1>8, <1>9, FdsReshared DEF Inv
  <1> QED
    BY <1>3, <1>10 DEF Inv

\* The handler of accept(): the connection goes to a socket, or is closed.
LEMMA AcceptedInv ==
    ASSUME Inv, NEW f \in Fiber, Accepted(f)
    PROVE  Inv'
  <1>1. /\ Completed(f) /\ op[f].io = "accept"
        /\ IF valid[VmOf[f]] THEN ResumeWith(f, op[f].ec) ELSE Dropped(f)
        /\ UNCHANGED <<names, handle, lost>>
    BY DEF Accepted
  <1>2. CASE /\ valid[VmOf[f]] /\ op[f].peer # Nil /\ UNCHANGED openFd
             /\ \E p \in Obj : /\ ~live[p] /\ kind[p] = PeerType[kind[op[f].obj]]
                               /\ live' = [live EXCEPT ![p] = TRUE]
                               /\ native' = [native EXCEPT ![p] = op[f].peer]
    <2>1. PICK p \in Obj : /\ ~live[p] /\ kind[p] = PeerType[kind[op[f].obj]]
                           /\ live' = [live EXCEPT ![p] = TRUE]
                           /\ native' = [native EXCEPT ![p] = op[f].peer]
      BY <1>2
    <2>2. op[f].peer \in Fd \cup {Nil}
      BY <1>1, CompletedFacts, OpTypes DEF Inv
    <2>3. live' \in [Obj -> BOOLEAN] /\ live'[p] /\ \A q \in Obj : q # p => live'[q] = live[q]
      BY <2>1 DEF Inv, ObjectInv, ObjectsOK
    <2>4. /\ native' \in [Obj -> Fd \cup {Nil}] /\ native'[p] = op[f].peer
          /\ \A q \in Obj : q # p => native'[q] = native[q]
      BY <2>1, <2>2, Holders
    <2>5. ~live[p] /\ kind[p] = PeerType[kind[op[f].obj]]
      BY <2>1
    <2> QED
      BY ZenonT(60), <1>1, <1>2, <2>3, <2>4, <2>5, GivesPeerInv
  <1>3. CASE openFd' = openFd \ {op[f].peer} /\ UNCHANGED <<live, native>>
    BY <1>1, <1>3, ClosesPeerInv
  <1> QED
    BY <1>2, <1>3 DEF Accepted

\* The child is reaped and its descriptor closed.
LEMMA ReapsInv ==
    ASSUME Inv, NEW f \in Fiber, Completed(f), op[f].io = "child", valid[VmOf[f]], ResumeWith(f, op[f].ec),
           NEW o \in Obj, o = op[f].obj, native' = [native EXCEPT ![o] = Nil],
           openFd' = openFd \ {native[o]}, child' = [child EXCEPT ![o] = Nil],
           UNCHANGED <<kind, live, handle, lost>>
    PROVE  Inv'
  <1>1. /\ op[f] # Nil /\ AllValid /\ op[f].ec \in {"none", "error", "operation_aborted"}
        /\ op[f].peer = Nil /\ op[f].lock = {} /\ kind[o] = "subprocess"
    BY CompletedFacts DEF OpIsSound
  <1>2. live[o]
    BY <1>1 DEF Inv, ObjectInv, CountedAreLive, Counted
  <1>3. /\ native' \in [Obj -> Fd \cup {Nil}] /\ native'[o] = Nil
        /\ \A p \in Obj : p # o => native'[p] = native[p]
    BY Holders
  <1>4. /\ child' \in [Obj -> Process \cup {Nil}] /\ child'[o] = Nil
        /\ \A p \in Obj : p # o => child'[p] = child[p]
    BY DEF Inv, ObjectInv, ObjectsOK
  <1>5. ReaperIn(child[o]) = Nil
    BY <1>2 DEF ReaperIn, Inv, ObjectInv, ChildrenAreSound
  <1>6. ChildrenAreSound' /\ live' \in [Obj -> BOOLEAN] /\ \A p \in Obj : live[p] => live'[p]
    BY <1>3, <1>4 DEF Inv, ObjectInv, ObjectsOK, ChildrenAreSound
  <1>7. FiberInv' /\ ObjectInv' /\ op' = [op EXCEPT ![f] = Nil] /\ AllValid' = AllValid
    BY ZenonT(60), <1>1, <1>3, <1>4, <1>6, WakesInv
  <1>8. OthersStay
    <2>1. \A g \in Fiber : LockIn(op'[g]) = LockIn(op[g]) /\ PeerIn(op'[g]) = PeerIn(op[g])
      BY <1>1, <1>7, EndsAlone
    <2>2. \A p \in Obj : ReaperIn(child'[p]) = ReaperIn(child[p])
      BY <1>4, <1>5 DEF ReaperIn
    <2> QED
      BY <2>1, <2>2 DEF OthersStay
  <1>9. FdInv'
    BY <1>1, <1>3, <1>8, OneCloses
  <1> QED
    BY <1>7, <1>9 DEF Inv

\* The handler of wait(): the child is reaped, or left as it is.
LEMMA WaitedInv ==
    ASSUME Inv, NEW f \in Fiber, Waited(f)
    PROVE  Inv'
  <1>1. Completed(f) /\ op[f].io = "child"
    BY DEF Waited
  <1>2. op[f] # Nil /\ op[f].ec \in {"none", "error", "operation_aborted"}
    BY <1>1, CompletedFacts
  <1>3. CASE valid[VmOf[f]] /\ op[f].ec = "none"
    <2>1. PICK o \in Obj : o = op[f].obj
      BY <1>2, OpTypes DEF Inv
    <2>2. /\ native' = [native EXCEPT ![o] = Nil] /\ openFd' = openFd \ {native[o]}
          /\ child' = [child EXCEPT ![o] = Nil] /\ UNCHANGED <<kind, live, handle, lost>>
          /\ ResumeWith(f, op[f].ec)
      BY <1>3, <2>1 DEF Waited
    <2> QED
      BY <1>1, <1>3, <2>1, <2>2, ReapsInv
  <1>4. CASE ~(valid[VmOf[f]] /\ op[f].ec = "none")
    <2>1. \/ valid[VmOf[f]] /\ \E ec \in {"none", "error", "operation_aborted"} : ResumeWith(f, ec)
          \/ ~valid[VmOf[f]] /\ Dropped(f)
      BY <1>2 DEF Waited
    <2>2. UNCHANGED <<names, live, native, fdVars>>
      BY <1>4 DEF Waited
    <2> QED
      BY <1>1, <2>1, <2>2, PlainInv
  <1> QED
    BY <1>3, <1>4

-----------------------------------------------------------------------------
(* The kernel preserves the invariant.                                       *)

\* An operation ends.
LEMMA EcInv ==
    ASSUME Inv, FiberInv', NEW f \in Fiber, op[f] # Nil, NEW ec \in {"none", "error"},
           op' = [op EXCEPT ![f].ec = ec], UNCHANGED <<objVars, fdVars, valid>>
    PROVE  Inv'
  <1>1. op[f] \in Operation /\ op \in [Fiber -> Operation \cup {Nil}]
    BY OpTypes DEF Inv, FiberInv, CoreOK
  <1>2. ASSUME NEW r \in Operation
        PROVE  /\ [r EXCEPT !.ec = ec] \in Operation /\ [r EXCEPT !.ec = ec].obj = r.obj
               /\ [r EXCEPT !.ec = ec].lock = r.lock /\ [r EXCEPT !.ec = ec].peer = r.peer
    BY DEF Operation
  <1>3. op'[f] = [op[f] EXCEPT !.ec = ec] /\ \A g \in Fiber : g # f => op'[g] = op[g]
    BY <1>1
  <1>4. op'[f] # Nil /\ op'[f].obj = op[f].obj /\ op'[f].lock = op[f].lock /\ op'[f].peer = op[f].peer
    BY <1>1, <1>2, <1>3, IoSystemAssumption
  <1>5. OpsStay /\ \A g \in Fiber : LockIn(op'[g]) = LockIn(op[g]) /\ PeerIn(op'[g]) = PeerIn(op[g])
    BY <1>3, <1>4 DEF OpsStay, LockIn, PeerIn
  <1> QED
    BY <1>5, KeepsInv

\* A connection arrives.
LEMMA PeerInv ==
    ASSUME Inv, FiberInv', NEW f \in Fiber, op[f] # Nil, op[f].peer = Nil, NEW d \in Lowest(openFd),
           op'[f] # Nil, op'[f].obj = op[f].obj, op'[f].lock = op[f].lock, op'[f].peer = d,
           \A g \in Fiber : g # f => op'[g] = op[g],
           openFd' = openFd \cup {d}, UNCHANGED <<objVars, handle, lost, valid>>
    PROVE  Inv'
  <1>1. UNCHANGED <<kind, child, live, native, nbusy, handle, lost, valid>>
    BY DEF objVars, names
  <1>2. d \in Fd /\ d \notin openFd
    BY LowestIsNew
  <1>6. OpsStay /\ LocksSame
    BY DEF OpsStay, LocksSame, LockIn
  <1>7. AllValid' = AllValid
    BY <1>1 DEF AllValid
  <1>8. ObjectInv'
    <2>1. ObjectsOK' /\ ChildrenAreSound' /\ FiberInv /\ ObjectInv
      BY <1>1 DEF Inv, ObjectInv, ObjectsOK, ChildrenAreSound
    <2> QED
      BY <1>1, <1>6, <2>1, ObjectsStay
  <1>9. NoFdTwice(PeerOf(op'), Fiber) /\ FdsOf(PeerOf(op'), Fiber) = FdsOf(PeerOf(op), Fiber) \cup {d}
    <2>1. PICK P : P = PeerOf(op)
      OBVIOUS
    <2>2. PICK Q : Q = PeerOf(op')
      OBVIOUS
    <2>3. P[f] = Nil /\ Q[f] = d /\ \A g \in Fiber \ {f} : Q[g] = P[g]
      BY <2>1, <2>2 DEF PeerOf
    <2>4. NoFdTwice(P, Fiber) /\ FdsOf(P, Fiber) \subseteq openFd
      BY <2>1 DEF Inv, FdInv, OpenIsOwnedOnce, SharedOut
    <2>5. Gain(P, Q, Fiber, {f})
      BY <1>2, <2>3, <2>4, Holders DEF Gain
    <2>6. FdsOf(Q, {f}) = {d}
      BY <1>2, <2>3 DEF FdsOf
    <2>7. NoFdTwice(Q, Fiber) /\ FdsOf(Q, Fiber) = FdsOf(P, Fiber) \cup {d}
      BY <2>4, <2>5, <2>6, Gains
    <2> QED
      BY <2>1, <2>2, <2>7
  <1>10. /\ BusyStay /\ DescriptorsOK' /\ NoFdTwice(native', Obj) /\ NoFdTwice(handle', Handle)
         /\ NoFdTwice(ReaperOf(child'), Obj)
    BY <1>1, <1>2 DEF BusyStay, Inv, FdInv, DescriptorsOK, OpenIsOwnedOnce
  <1>11. SharedOut(openFd', FdsOf(native', Obj), FdsOf(handle', Handle), FdsOf(PeerOf(op'), Fiber),
                   FdsOf(ReaperOf(child'), Obj), FdsOf(LockedFd, LocksOf(op)), lost')
    BY <1>1, <1>2, <1>9 DEF Inv, FdInv, OpenIsOwnedOnce, SharedOut, Apart
  <1>12. FdInv'
    BY <1>6, <1>7, <1>9, <1>10, <1>11, FdsReshared DEF Inv
  <1> QED
    BY <1>8, <1>12 DEF Inv

\* The kernel ends an operation, perhaps with a connection.
LEMMA KernelInv ==
    ASSUME Inv, NEW f \in Fiber, Kernel(f)
    PROVE  Inv'
  <1>1. FiberInv' /\ UNCHANGED valid /\ Pending(f) /\ op[f] # Nil
    BY FiberKernel DEF Inv, Kernel, KernelCompletes, KernelAccepts, ChildReadable, Pending, coreVars
  <1>2. CASE KernelCompletes(f)
    <2>1. PICK ec \in {"none", "error"} : op' = [op EXCEPT ![f].ec = ec]
      BY <1>2 DEF KernelCompletes
    <2>2. UNCHANGED <<objVars, fdVars>>
      BY <1>2 DEF KernelCompletes
    <2> QED
      BY <1>1, <2>1, <2>2, EcInv
  <1>3. CASE ChildReadable(f)
    <2>1. PICK ec \in {"none", "error"} : op' = [op EXCEPT ![f].ec = ec]
      BY <1>3 DEF ChildReadable
    <2>2. UNCHANGED <<objVars, fdVars>>
      BY <1>3 DEF ChildReadable
    <2> QED
      BY <1>1, <2>1, <2>2, EcInv
  <1>4. CASE KernelAccepts(f) /\ UNCHANGED openFd
    <2>1. CASE op' = [op EXCEPT ![f].ec = "error"]
      <3>1. PICK ec \in {"none", "error"} : op' = [op EXCEPT ![f].ec = ec]
        BY <2>1
      <3>2. UNCHANGED <<objVars, fdVars>>
        BY <1>4 DEF KernelAccepts, fdVars
      <3> QED
        BY <1>1, <3>1, <3>2, EcInv
    <2>2. CASE \E d \in Lowest(openFd) : openFd' = openFd \cup {d}
      BY <1>4, <2>2, LowestIsNew
    <2> QED
      BY <1>4, <2>1, <2>2 DEF KernelAccepts
  <1>5. CASE KernelAccepts(f) /\ ~UNCHANGED openFd
    <2>1. PICK d \in Lowest(openFd) : /\ op' = [op EXCEPT ![f].ec = "none", ![f].peer = d]
                                      /\ openFd' = openFd \cup {d}
      BY <1>5 DEF KernelAccepts
    <2>2. UNCHANGED <<objVars, handle, lost>> /\ openFd' = openFd \cup {d} /\ d \in Fd
      BY <1>5, <2>1, LowestIsNew DEF KernelAccepts
    <2>3. op[f] \in Operation /\ op \in [Fiber -> Operation \cup {Nil}] /\ op[f].peer = Nil
      BY <1>1, OpTypes DEF Inv, FiberInv, CoreOK, OpsAreSound, OpIsSound, Pending
    <2>4. PICK r \in Operation : r = op[f]
      BY <2>3
    <2>5. PICK s \in Operation : /\ s = [r EXCEPT !.ec = "none", !.peer = d]
                                 /\ s.obj = r.obj /\ s.lock = r.lock /\ s.peer = d
      <3>1. /\ [r EXCEPT !.ec = "none", !.peer = d] \in Operation
            /\ [r EXCEPT !.ec = "none", !.peer = d].obj = r.obj
            /\ [r EXCEPT !.ec = "none", !.peer = d].lock = r.lock
            /\ [r EXCEPT !.ec = "none", !.peer = d].peer = d
        BY <2>2 DEF Operation
      <3> QED
        BY <3>1
    <2>6. op' = [op EXCEPT ![f] = s]
      BY <2>1, <2>4, <2>5
    <2>7. op'[f] = s /\ \A g \in Fiber : g # f => op'[g] = op[g]
      BY <2>3, <2>6
    <2>8. op'[f] # Nil /\ op'[f].obj = op[f].obj /\ op'[f].lock = op[f].lock /\ op'[f].peer = d
      BY <2>4, <2>5, <2>7, IoSystemAssumption
    <2> QED
      BY <1>1, <2>2, <2>3, <2>7, <2>8, PeerInv
  <1> QED
    BY <1>2, <1>3, <1>4, <1>5 DEF Kernel

\* A child ends, or is reaped.
LEMMA ChildInv ==
    ASSUME Inv, NEW o \in Obj, ChildEnds(o) \/ Reap(o)
    PROVE  Inv'
  <1>1. /\ StillCore /\ UNCHANGED <<kind, live, native, nbusy, handle, lost, op, valid>> /\ child[o] # Nil
    BY DEF ChildEnds, Reap, StillCore, coreVars, fdVars
  <1>2. /\ FiberInv /\ ObjectInv /\ OpsAdvance /\ NoneAborted /\ OpsStay /\ LocksSame
        /\ AllValid' = AllValid
    BY <1>1 DEF Inv, OpsAdvance, NoneAborted, OpsStay, LocksSame, FiberInv, CoreOK, AllValid
  <1>3. FiberInv'
    BY <1>1, <1>2, FiberStill
  <1>4. /\ child \in [Obj -> Process \cup {Nil}] /\ child[o] \in Process
    BY <1>1 DEF Inv, ObjectInv, ObjectsOK
  <1>5. /\ child' \in [Obj -> Process \cup {Nil}] /\ \A p \in Obj : p # o => child'[p] = child[p]
        /\ \/ ChildEnds(o) /\ child'[o] # Nil /\ child'[o].reaper = child[o].reaper
           \/ Reap(o) /\ child'[o] = Nil
    <2>1. CASE ChildEnds(o)
      <3>1. ASSUME NEW r \in Process
            PROVE  [r EXCEPT !.ended = TRUE] \in Process /\ [r EXCEPT !.ended = TRUE].reaper = r.reaper
        BY DEF Process
      <3>2. child' = [child EXCEPT ![o] = [child[o] EXCEPT !.ended = TRUE]]
        BY <2>1 DEF ChildEnds
      <3>3. PICK c \in Process : c = [child[o] EXCEPT !.ended = TRUE] /\ c.reaper = child[o].reaper
        BY <1>4, <3>1
      <3>4. child' = [child EXCEPT ![o] = c] /\ c # Nil
        BY <3>2, <3>3, IoSystemAssumption
      <3> QED
        BY <1>4, <2>1, <3>3, <3>4
    <2>2. CASE Reap(o)
      BY <1>4, <2>2 DEF Reap
    <2> QED
      BY <2>1, <2>2
  <1>6. ObjectInv'
    <2>1. Reap(o) => native[o] = Nil
      <3>1. Reap(o) => ~live[o]
        BY <1>1 DEF Reap, Inv, ObjectInv, ChildrenAreSound
      <3> QED
        BY <3>1 DEF Inv, ObjectInv, ChildrenAreSound
    <2>2. ChildrenAreSound'
      BY <1>1, <1>5, <2>1 DEF Inv, ObjectInv, ChildrenAreSound
    <2>3. ObjectsOK'
      BY <1>1, <1>5 DEF Inv, ObjectInv, ObjectsOK
    <2> QED
      BY <1>1, <1>2, <2>2, <2>3, ObjectsStay
  <1>7. FdInv'
    <2>1. CASE ChildEnds(o)
      <3>1. child'[o] # Nil /\ child'[o].reaper = child[o].reaper
        BY <1>5, <2>1, <1>1 DEF ChildEnds, Reap
      <3>2. OthersStay
        BY <1>1, <1>5, <3>1 DEF OthersStay, ReaperIn
      <3>3. UNCHANGED <<native, handle, openFd, lost>>
        BY <2>1 DEF ChildEnds, fdVars
      <3> QED
        BY <1>2, <3>2, <3>3, FdsStay DEF Inv
    <2>2. CASE Reap(o)
      <3>1. PICK R : R = ReaperOf(child)
        OBVIOUS
      <3>2. PICK S : S = ReaperOf(child')
        OBVIOUS
      <3>3. child'[o] = Nil /\ openFd' = openFd \ {child[o].reaper} /\ child[o].reaper # Nil
        BY <1>4, <2>2 DEF Reap
      <3>4. child[o].reaper \in Fd
        BY <1>4, <3>3 DEF Process
      <3>5. R[o] = child[o].reaper /\ S[o] = Nil /\ \A p \in Obj \ {o} : S[p] = R[p]
        BY <1>1, <1>5, <3>1, <3>2, <3>3 DEF ReaperOf
      <3>6. Lose(R, S, Obj, {o}) /\ NoFdTwice(R, Obj)
        BY <3>1, <3>5, IoAssumption DEF Lose, Inv, FdInv, OpenIsOwnedOnce
      <3>7. FdsOf(R, {o}) = {child[o].reaper} /\ child[o].reaper \in FdsOf(R, Obj)
        BY <3>4, <3>5 DEF FdsOf
      <3>8. NoFdTwice(S, Obj) /\ FdsOf(S, Obj) = FdsOf(R, Obj) \ {child[o].reaper}
        BY SMTT(30), <3>6, <3>7, Losses
      <3>9. PeerOf(op') = PeerOf(op)
        BY <1>1
      <3>10. /\ BusyStay /\ DescriptorsOK' /\ NoFdTwice(native', Obj) /\ NoFdTwice(handle', Handle)
             /\ NoFdTwice(PeerOf(op'), Fiber) /\ NoFdTwice(ReaperOf(child'), Obj)
        BY <1>1, <3>2, <3>3, <3>8 DEF BusyStay, Inv, FdInv, DescriptorsOK, OpenIsOwnedOnce
      <3>11. SharedOut(openFd', FdsOf(native', Obj), FdsOf(handle', Handle), FdsOf(PeerOf(op'), Fiber),
                       FdsOf(S, Obj), FdsOf(LockedFd, LocksOf(op)), lost')
        BY <1>1, <3>1, <3>3, <3>7, <3>8 DEF Inv, FdInv, OpenIsOwnedOnce, SharedOut, Apart
      <3> QED
        BY <1>2, <3>2, <3>10, <3>11, FdsReshared DEF Inv
    <2> QED
      BY <2>1, <2>2
  <1> QED
    BY <1>3, <1>6, <1>7 DEF Inv

-----------------------------------------------------------------------------
(* The invariant holds.                                                      *)

\* The invariant holds at the start.
LEMMA Starts == Init => Inv
  <1> SUFFICES ASSUME Init PROVE Inv
    OBVIOUS
  <1>1. FiberInv
    BY FiberStarts
  <1>2. /\ kind \in Program /\ live = [o \in Obj |-> FALSE] /\ native = [o \in Obj |-> Nil]
        /\ nbusy = [o \in Obj |-> 0] /\ op = [f \in Fiber |-> Nil] /\ handle = [h \in Handle |-> Nil]
        /\ child = [o \in Obj |-> Nil] /\ openFd = {} /\ lost = {}
    BY DEF Init
  <1>3. AllValid
    BY DEF Init, CoreInit, AllValid
  <1>4. ObjectInv
    <2>1. NbusyIsExact
      BY <1>2 DEF NbusyIsExact
    <2> QED
      BY <1>2, <1>3, <2>1 DEF ObjectInv, ObjectsOK, CountedAreLive, ChildrenAreSound, ClosedIsEmpty
  <1>5. DescriptorsOK /\ LocksAreSound
    BY <1>2, IoAssumption DEF DescriptorsOK, LocksAreSound
  <1>6. OpenIsOwnedOnce
    <2>1. \A f \in Fiber : PeerOf(op)[f] = Nil
      BY <1>2 DEF PeerOf
    <2>2. \A o \in Obj : ReaperOf(child)[o] = Nil
      BY <1>2 DEF ReaperOf
    <2>3. LocksOf(op) = {}
      BY <1>2 DEF LocksOf
    <2>4. NoFdTwice(native, Obj) /\ FdsOf(native, Obj) = {}
      BY <1>2, IoAssumption DEF NoFdTwice, FdsOf
    <2>5. NoFdTwice(handle, Handle) /\ FdsOf(handle, Handle) = {}
      BY <1>2, IoAssumption DEF NoFdTwice, FdsOf
    <2>6. NoFdTwice(PeerOf(op), Fiber) /\ FdsOf(PeerOf(op), Fiber) = {}
      BY <2>1, IoAssumption DEF NoFdTwice, FdsOf
    <2>7. NoFdTwice(ReaperOf(child), Obj) /\ FdsOf(ReaperOf(child), Obj) = {}
      BY <2>2, IoAssumption DEF NoFdTwice, FdsOf
    <2>8. NoFdTwice(LockedFd, LocksOf(op)) /\ FdsOf(LockedFd, LocksOf(op)) = {}
      BY <2>3 DEF NoFdTwice, FdsOf
    <2> QED
      BY <1>2, <2>4, <2>5, <2>6, <2>7, <2>8 DEF OpenIsOwnedOnce, SharedOut, Apart
  <1> QED
    BY <1>1, <1>4, <1>5, <1>6 DEF Inv, FdInv

\* The calls on objects.
LEMMA ObjectCallInv ==
    ASSUME Inv, NEW f \in Fiber, NEW o \in Obj, ObjectCall(f, o)
    PROVE  Inv'
  <1>1. CASE IpCall(f, o) \/ UnixCall(f, o) \/ FileCall(f, o) \/ PipeCall(f, o) \/ TimeCall(f, o)
    <2>1. CallOn(f, o) \/ Constructs(f, o)
      BY <1>1, IpForms, UnixForms, FileForms, PipeForms, TimeForms
    <2> QED
      BY <2>1, CallInv, ConstructsInv
  <1>2. CASE SerialPortCall(f, o)
    BY <1>2, SerialPortForms, CallInv, ConstructsInv, PtyInv
  <1>3. CASE TlsCall(f, o)
    BY <1>3, TlsForms, CallInv, TlsInv
  <1>4. CASE system_spawn(f, o) \/ subprocess_mt_index(f, o) \/ CollectObject(f, o)
    BY <1>4, SpawnInv, SubprocessInv, CollectInv
  <1> QED
    BY <1>1, <1>2, <1>3, <1>4 DEF ObjectCall

\* What the current fiber does preserves the invariant, ...
LEMMA FiberStepInv ==
    ASSUME Inv, NEW f \in Fiber, FiberStep(f)
    PROVE  Inv'
  <1>1. CASE \E o \in Obj : ObjectCall(f, o)
    BY <1>1, ObjectCallInv
  <1>2. CASE \E h \in Handle : HandleCalls(f, h)
    <2>1. PICK h \in Handle : Replies(f) \/ Closes(f, h) \/ Duplicates(f)
      BY <1>2, HandleForms, Holders
    <2> QED
      BY <2>1, RepliesInv, ClosesInv, DuplicatesInv
  <1>3. CASE ResolverCall(f) \/ sleep_for(f)
    BY <1>3, SharedForms, RepliesInv, SharedInv
  <1>4. CASE SystemCall(f)
    BY <1>4, SystemForms, RepliesInv, CallInv, ConstructsInv, SharedInv
  <1>5. CASE \E g \in Fiber : Interrupt(f, g)
    BY <1>5, InterruptInv
  <1>6. CASE (\E g \in Fiber : Spawn(f, g)) \/ ThisFiber(f) \/ End(f)
    <2>1. VmOf[f] \in Vm
      BY VmContextAssumption
    <2> QED
      BY <1>6, <2>1, EngineInv
  <1>7. CASE Exit(f)
    BY <1>7, ExitInv
  <1> QED
    BY <1>1, <1>2, <1>3, <1>4, <1>5, <1>6, <1>7 DEF FiberStep

\* ... and so do the handlers, ...
LEMMA HandlerInv ==
    ASSUME Inv, NEW f \in Fiber, Handler(f)
    PROVE  Inv'
  BY CompletionInv, AcceptedInv, ReceiveHandlerInv, SendHandlerInv, TlsHandlerInv, WaitedInv DEF Handler

\* ... and every step.
LEMMA NextInv == Inv /\ [Next]_vars => Inv'
  <1> SUFFICES ASSUME Inv, [Next]_vars PROVE Inv'
    OBVIOUS
  <1>1. CASE UNCHANGED vars
    <2>1. UNCHANGED <<op, objVars, fdVars, valid>> /\ StillCore
      BY <1>1 DEF vars, coreVars, ioVars, objVars, names, StillCore
    <2>2. OpsAdvance /\ NoneAborted /\ OpsStay
      BY <2>1 DEF OpsAdvance, NoneAborted, OpsStay, Inv, FiberInv, CoreOK
    <2>3. FiberInv'
      BY <2>1, <2>2, FiberStill DEF Inv
    <2> QED
      BY <2>1, <2>2, <2>3, KeepsInv
  <1>2. ASSUME NEW f \in Fiber, FiberStep(f) \/ Handler(f) \/ Kernel(f)
        PROVE  Inv'
    BY <1>2, FiberStepInv, HandlerInv, KernelInv
  <1>3. ASSUME NEW o \in Obj, ChildEnds(o) \/ Reap(o)
        PROVE  Inv'
    BY <1>3, ChildInv
  <1>4. ASSUME NEW v \in Vm, RunStrand(v)
        PROVE  Inv'
    <2>1. Main[v] \in Fiber
      BY VmContextAssumption
    <2> QED
      BY <1>4, <2>1, EngineInv
  <1>5. ASSUME NEW v \in Vm, Destroy(v)
        PROVE  Inv'
    BY <1>5, CloseVmInv DEF Destroy
  <1> QED
    BY <1>1, <1>2, <1>3, <1>4, <1>5 DEF Next

\* The inductive invariant holds in every state.
THEOREM Invariance == Spec => []Inv
  BY Starts, NextInv, PTL DEF Spec

\* Every variable has its type in every state; no socket's nbusy is below 0.
THEOREM TypeCorrect == Spec => []TypeOK
  <1>1. ASSUME Inv PROVE TypeOK
    <2>1. /\ CoreTypeOK({"start", "yield", "io"}, Results, {"emit", "object", "resolver"})
          /\ strand \in [Vm -> Seq(ResumeHandler(Fiber, Results))]
          /\ op \in [Fiber -> Operation \cup {Nil}]
      BY <1>1 DEF Inv, FiberInv, CoreOK, IoSites
    <2>2. \A v \in Vm : \A i \in DOMAIN strand[v] : strand[v][i] \in ResumeHandler(Fiber, Results)
      BY <2>1
    <2>3. nbusy \in [Obj -> 0..Cardinality(Fiber)]
      <3>1. ASSUME NEW o \in Obj PROVE Cardinality(OpsOn(o)) \in 0..Cardinality(Fiber)
        <4>1. OpsOn(o) \subseteq Fiber /\ IsFiniteSet(Fiber)
          BY IoAssumption DEF OpsOn
        <4>2. Cardinality(OpsOn(o)) <= Cardinality(Fiber)
          BY <4>1, FS_Subset
        <4>3. Cardinality(OpsOn(o)) \in Nat /\ Cardinality(Fiber) \in Nat
          BY <4>1, OpsFinite, FS_CardinalityType
        <4> QED
          BY <4>2, <4>3
      <3>2. Cardinality(Fiber) \in Nat
        BY IoAssumption, FS_CardinalityType
      <3>3. ASSUME NEW o \in Obj PROVE nbusy[o] \in 0..Cardinality(Fiber)
        BY <1>1, <3>1, <3>2 DEF Inv, ObjectInv, NbusyIsExact
      <3>4. nbusy \in [Obj -> Int]
        BY <1>1 DEF Inv, ObjectInv, ObjectsOK
      <3> QED
        BY <3>3, <3>4
    <2>4. /\ kind \in Program /\ live \in [Obj -> BOOLEAN] /\ native \in [Obj -> Fd \cup {Nil}]
          /\ child \in [Obj -> Process \cup {Nil}] /\ handle \in [Handle -> Fd \cup {Nil, Busy}]
          /\ openFd \in SUBSET Fd /\ lost \in SUBSET Fd
      BY <1>1 DEF Inv, ObjectInv, ObjectsOK, FdInv, DescriptorsOK
    <2> QED
      BY <2>1, <2>2, <2>3, <2>4 DEF TypeOK
  <1> QED
    BY <1>1, Invariance, PTL

\* A socket counts the operations in progress on it, and only those: no handler
\* misses its decrement and none touches an object that the end of the VM freed.
THEOREM OperationsAreCounted == Spec => []NbusyIsExact
  <1>1. Inv => NbusyIsExact
    BY DEF Inv, ObjectInv
  <1> QED
    BY <1>1, Invariance, PTL

\* Once a fiber is interrupted, the operation it was free to give up has ended,
\* whatever its object went through in between.  Excepted are the operations whose
\* interruption may be lost: name queries, send_with_fds(), receive_with_fds() and
\* those of TLS sockets.
THEOREM InterruptionIsNotLost == Spec => []InterruptionReachesIo
  <1>1. Inv => InterruptionReachesIo
    BY DEF Inv, FiberInv
  <1> QED
    BY <1>1, Invariance, PTL

-----------------------------------------------------------------------------
(* Each open descriptor has one owner.                                       *)

\* The members of S that have d.
Having(fun, S, d) == {x \in S : fun[x] = d}

\* Nobody has the descriptor d, or exactly one of S has it.
LEMMA OneHas ==
    ASSUME NEW fun, NEW S, NEW d \in Fd, NoFdTwice(fun, S)
    PROVE  /\ d \in FdsOf(fun, S) => \E x \in S : Having(fun, S, d) = {x}
           /\ d \notin FdsOf(fun, S) => Having(fun, S, d) = {}
  <1>1. ASSUME d \in FdsOf(fun, S) PROVE \E x \in S : Having(fun, S, d) = {x}
    <2>1. PICK x \in S : d = fun[x]
      BY <1>1 DEF FdsOf
    <2> QED
      BY <2>1 DEF NoFdTwice, Having
  <1>2. ASSUME d \notin FdsOf(fun, S) PROVE Having(fun, S, d) = {}
    BY <1>2 DEF FdsOf, Having
  <1> QED
    BY <1>1, <1>2

\* The fibers that are sending d.
Senders(d) == {f \in Fiber : op[f] # Nil /\ d \in Locked(f)}

\* A descriptor that is being sent has one sender.
LEMMA OneSends ==
    ASSUME Inv, NEW d \in Fd
    PROVE  /\ d \in FdsOf(LockedFd, LocksOf(op)) => \E f \in Fiber : Senders(d) = {f}
           /\ d \notin FdsOf(LockedFd, LocksOf(op)) => Senders(d) = {}
  <1>1. ASSUME NEW f \in Senders(d)
        PROVE  f \in Fiber /\ op[f] # Nil /\ \E l \in op[f].lock : l \in LocksOf(op) /\ l[2] = d
    BY DEF Senders, Locked, LocksOf
  <1>2. ASSUME d \in FdsOf(LockedFd, LocksOf(op)) PROVE \E f \in Fiber : Senders(d) = {f}
    <2>1. PICK l \in LocksOf(op) : LockedFd[l] = d
      BY <1>2 DEF FdsOf
    <2>2. PICK f \in Fiber : op[f] # Nil /\ l \in op[f].lock
      BY <2>1 DEF LocksOf
    <2>3. l[2] = d
      BY <2>1, LockFacts
    <2>4. f \in Senders(d)
      BY <2>2, <2>3 DEF Senders, Locked
    <2>5. ASSUME NEW g \in Senders(d) PROVE g = f
      <3>1. PICK m \in op[g].lock : m \in LocksOf(op) /\ m[2] = d
        BY <1>1
      <3>2. l = m
        BY <2>1, <2>3, <3>1, LockFacts DEF NoFdTwice
      <3> QED
        BY <1>1, <2>2, <3>1, <3>2 DEF Inv, FdInv, LocksAreSound
    <2> QED
      BY <2>2, <2>4, <2>5
  <1>3. ASSUME d \notin FdsOf(LockedFd, LocksOf(op)) PROVE Senders(d) = {}
    BY <1>1, <1>3, LockFacts
  <1> QED
    BY <1>2, <1>3

\* Every descriptor that is open has exactly one owner, and nobody owns one that is
\* not, whatever passed through assign(), release(), dup(), accept(), messages that
\* carry descriptors, the collector and the end of the VM; a handle is busy only
\* while one send_with_fds() has its descriptor.
THEOREM EachFdHasOneOwner == Spec => []DescriptorsOwnedOnce
  <1>1. ASSUME Inv PROVE DescriptorsOwnedOnce
    <2>1. ASSUME NEW d \in Fd
          PROVE  Cardinality(Owners(d)) = IF d \in openFd THEN 1 ELSE 0
      <3> DEFINE A == Having(native, Obj, d)
                 B == Having(handle, Handle, d)
                 C == Having(PeerOf(op), Fiber, d)
                 D == Having(ReaperOf(child), Obj, d)
                 DD == {<<"reaper", o>> : o \in D}
                 E == Senders(d)
                 X == {l \in {"lost"} : d \in lost}
      <3>1. Owners(d) = A \cup B \cup (C \cup E) \cup DD \cup X
        <4>1. {o \in Obj : native[o] = d} = A /\ {h \in Handle : handle[h] = d} = B
          BY DEF Having
        <4>2. {f \in Fiber : op[f] # Nil /\ (op[f].peer = d \/ d \in Locked(f))} = C \cup E
          BY IoAssumption DEF Having, PeerOf, Senders
        <4>3. {o \in Obj : child[o] # Nil /\ child[o].reaper = d} = D
          BY IoAssumption DEF Having, ReaperOf
        <4>4. {<<"reaper", o>> : o \in {o \in Obj : child[o] # Nil /\ child[o].reaper = d}} = DD
          BY <4>3
        <4> HIDE DEF A, B, C, D, DD, E, X
        <4> QED
          BY <4>1, <4>2, <4>4 DEF Owners, X
      <3>2. /\ d \in FdsOf(native, Obj) => \E x : A = {x}
            /\ d \notin FdsOf(native, Obj) => A = {}
        BY <1>1, OneHas DEF Inv, FdInv, OpenIsOwnedOnce
      <3>3. /\ d \in FdsOf(handle, Handle) => \E x : B = {x}
            /\ d \notin FdsOf(handle, Handle) => B = {}
        BY <1>1, OneHas DEF Inv, FdInv, OpenIsOwnedOnce
      <3>4. /\ d \in FdsOf(PeerOf(op), Fiber) => \E x : C = {x}
            /\ d \notin FdsOf(PeerOf(op), Fiber) => C = {}
        BY <1>1, OneHas DEF Inv, FdInv, OpenIsOwnedOnce
      <3>5. /\ d \in FdsOf(ReaperOf(child), Obj) => \E x : D = {x}
            /\ d \notin FdsOf(ReaperOf(child), Obj) => D = {}
        BY <1>1, OneHas DEF Inv, FdInv, OpenIsOwnedOnce
      <3>6. /\ d \in FdsOf(LockedFd, LocksOf(op)) => \E x : E = {x}
            /\ d \notin FdsOf(LockedFd, LocksOf(op)) => E = {}
        BY <1>1, OneSends
      <3>7. (D = {} => DD = {}) /\ \A x : D = {x} => DD = {<<"reaper", x>>}
        <4> HIDE DEF D
        <4> QED
          OBVIOUS
      <3>8. (d \in lost => X = {"lost"}) /\ (d \notin lost => X = {})
        OBVIOUS
      <3> HIDE DEF A, B, C, D, DD, E, X
      <3>9. SharedOut(openFd, FdsOf(native, Obj), FdsOf(handle, Handle), FdsOf(PeerOf(op), Fiber),
                      FdsOf(ReaperOf(child), Obj), FdsOf(LockedFd, LocksOf(op)), lost)
        BY <1>1 DEF Inv, FdInv, OpenIsOwnedOnce
      <3>10. /\ d \in openFd => \E x : Owners(d) = {x}
             /\ d \notin openFd => Owners(d) = {}
        <4>1. CASE d \notin openFd
          BY <3>1, <3>2, <3>3, <3>4, <3>5, <3>6, <3>7, <3>8, <3>9, <4>1 DEF SharedOut
        <4>2. CASE d \in FdsOf(native, Obj)
          <5>1. B = {} /\ C = {} /\ DD = {} /\ E = {} /\ X = {}
            BY <3>3, <3>4, <3>5, <3>6, <3>7, <3>8, <3>9, <4>2 DEF SharedOut, Apart
          <5> QED
            BY <3>1, <3>2, <3>9, <4>2, <5>1 DEF SharedOut
        <4>3. CASE d \in FdsOf(handle, Handle)
          <5>1. A = {} /\ C = {} /\ DD = {} /\ E = {} /\ X = {}
            BY <3>2, <3>4, <3>5, <3>6, <3>7, <3>8, <3>9, <4>3 DEF SharedOut, Apart
          <5> QED
            BY <3>1, <3>3, <3>9, <4>3, <5>1 DEF SharedOut
        <4>4. CASE d \in FdsOf(PeerOf(op), Fiber)
          <5>1. A = {} /\ B = {} /\ DD = {} /\ E = {} /\ X = {}
            BY <3>2, <3>3, <3>5, <3>6, <3>7, <3>8, <3>9, <4>4 DEF SharedOut, Apart
          <5> QED
            BY <3>1, <3>4, <3>9, <4>4, <5>1 DEF SharedOut
        <4>5. CASE d \in FdsOf(ReaperOf(child), Obj)
          <5>1. A = {} /\ B = {} /\ C = {} /\ E = {} /\ X = {}
            BY <3>2, <3>3, <3>4, <3>6, <3>8, <3>9, <4>5 DEF SharedOut, Apart
          <5> QED
            BY ZenonT(60), <3>1, <3>5, <3>7, <3>9, <4>5, <5>1 DEF SharedOut
        <4>6. CASE d \in FdsOf(LockedFd, LocksOf(op))
          <5>1. A = {} /\ B = {} /\ C = {} /\ DD = {} /\ X = {}
            BY <3>2, <3>3, <3>4, <3>5, <3>7, <3>8, <3>9, <4>6 DEF SharedOut, Apart
          <5> QED
            BY <3>1, <3>6, <3>9, <4>6, <5>1 DEF SharedOut
        <4>7. CASE d \in lost
          <5>1. A = {} /\ B = {} /\ C = {} /\ DD = {} /\ E = {}
            BY <3>2, <3>3, <3>4, <3>5, <3>6, <3>7, <3>9, <4>7 DEF SharedOut, Apart
          <5> QED
            BY <3>1, <3>8, <3>9, <4>7, <5>1 DEF SharedOut
        <4> QED
          BY <3>9, <4>1, <4>2, <4>3, <4>4, <4>5, <4>6, <4>7 DEF SharedOut
      <3> QED
        BY <3>10, FS_Singleton, FS_EmptySet
    <2>2. ASSUME NEW h \in Handle, handle[h] = Busy
          PROVE  \E f \in Fiber, d \in Fd : op[f] # Nil /\ <<h, d>> \in op[f].lock
      <3>1. PICK f \in Fiber : op[f] # Nil /\ \E l \in op[f].lock : l[1] = h
        BY <1>1, <2>2 DEF Inv, FdInv, LocksAreSound
      <3>2. PICK l \in op[f].lock : l[1] = h
        BY <3>1
      <3>3. l \in Handle \X Fd
        BY <1>1, <3>1, OpTypes DEF Inv
      <3>4. l[2] \in Fd /\ l = <<h, l[2]>>
        BY <3>2, <3>3
      <3> QED
        BY <3>1, <3>4
    <2> QED
      BY <2>1, <2>2 DEF DescriptorsOwnedOnce
  <1> QED
    BY <1>1, Invariance, PTL

-----------------------------------------------------------------------------
(* What a fiber is told when its operation is over.                          *)

\* No operation is over.
NoneEnds == \A g \in Fiber : op[g] # Nil => op'[g] # Nil

\* What a call may do to the operations: start one of its own fiber, abort some,
\* move some to another object.
OpEffect(f) ==
    \/ \A g \in Fiber : g # f => op'[g] = op[g]
    \/ \E fs \in SUBSET Fiber : op' = Aborted(fs)
    \/ \E o, p \in Obj : op' = Moved(o, p)

\* An operation that starts is that of its own fiber.
LEMMA InitiateEffect ==
    ASSUME Inv, NEW f \in Fiber, NEW o, NEW io, NEW closure, NEW lock, NEW ec,
           Initiate(f, o, io, closure, lock, ec)
    PROVE  OpEffect(f)
  <1>1. op \in [Fiber -> Operation \cup {Nil}]
    BY DEF Inv, FiberInv, CoreOK
  <1>2. op' = [op EXCEPT ![f] = [obj |-> o, io |-> io, slot |-> ~Disabled(f),
                                 ec |-> ec, peer |-> Nil, lock |-> lock]]
    BY DEF Initiate
  <1> QED
    BY <1>1, <1>2 DEF OpEffect

\* A call that only returns leaves the operations alone, ...
LEMMA AnswerEffect ==
    ASSUME NEW f, NEW r, Answer(f, r)
    PROVE  OpEffect(f)
  BY DEF Answer, ioVars, OpEffect

\* ... and so does one that is refused.
LEMMA ErrorEffect ==
    ASSUME NEW f, Raise(f) \/ Refused(f)
    PROVE  OpEffect(f)
  BY AnswerEffect DEF Raise, Refused

\* The same, of whatever the call returns.
LEMMA RepliesEffect ==
    ASSUME NEW f, Replies(f)
    PROVE  OpEffect(f)
  BY AnswerEffect DEF Replies

\* A suspending function changes the operation of its own fiber only.
LEMMA AsyncEffect ==
    ASSUME Inv, NEW f \in Fiber, NEW o, NEW io, NEW closure, Async(f, o, io, closure)
    PROVE  OpEffect(f)
  BY ErrorEffect, InitiateEffect DEF Async

\* The methods of ordinary objects.
LEMMA CallEffect ==
    ASSUME Inv, NEW f \in Fiber, NEW o \in Obj, CallOn(f, o)
    PROVE  OpEffect(f)
  <1>1. OpsOn(o) \in SUBSET Fiber
    BY DEF OpsOn
  <1>2. CASE (\E r \in {"none", "error"} : Answer(f, r)) \/ Raise(f) \/ Refused(f)
    BY <1>2, AnswerEffect, ErrorEffect
  <1>3. CASE (Open(f, o) \/ OpenPort(f, o) \/ \E h \in Handle : Assign(f, o, h)) /\ ~Raise(f)
    BY <1>3 DEF Open, OpenPort, Assign, OpEffect
  <1>4. CASE (Close(f, o) \/ Cancel(f, o) \/ Reset(f, o)) /\ ~Raise(f)
    BY <1>1, <1>4 DEF Close, Cancel, Reset, OpEffect
  <1>5. CASE (\E h \in Handle : Release(f, o, h) \/ ReleasePort(f, o, h)) /\ ~Raise(f)
    BY <1>1, <1>5 DEF Release, ReleasePort, OpEffect
  <1>6. CASE Connect(f, o)
    BY <1>6, AsyncEffect, InitiateEffect DEF Connect, AsyncCall
  <1>7. CASE SendWithFds(f, o) /\ ~Refused(f)
    <2>1. CASE UNCHANGED ioVars
      BY <2>1 DEF ioVars, OpEffect
    <2>2. CASE ~UNCHANGED ioVars
      <3>1. PICK hs \in SUBSET {h \in Handle : handle[h] \in Fd} :
               Initiate(f, o, "send_with_fds", "emit", {<<h, handle[h]>> : h \in hs}, Outlook(o))
        BY <1>7, <2>2 DEF SendWithFds
      <3> QED
        BY <3>1, InitiateEffect
    <2> QED
      BY <2>1, <2>2
  <1>8. CASE \E io \in {"transfer", "accept", "receive_with_fds"}, closure \in {"emit", "object"} :
                Async(f, o, io, closure)
    BY <1>8, AsyncEffect
  <1>9. CASE Composed(f, o) /\ ~Refused(f)
    BY <1>9, InitiateEffect DEF Composed
  <1> QED
    BY <1>2, <1>3, <1>4, <1>5, <1>6, <1>7, <1>8, <1>9 DEF CallOn

\* Their constructors.
LEMMA ConstructsEffect ==
    ASSUME NEW f \in Fiber, NEW o \in Obj, Constructs(f, o)
    PROVE  OpEffect(f)
  <1>1. CASE Raise(f)
    BY <1>1, ErrorEffect
  <1>2. CASE ~Raise(f)
    BY <1>2 DEF Constructs, New, NewFrom, Pair, OpEffect
  <1> QED
    BY <1>1, <1>2

\* The calls on what the fibers of a VM share.
LEMMA SharedEffect ==
    ASSUME Inv, NEW f \in Fiber, NEW o \in Obj, SharedCall(f, o)
    PROVE  OpEffect(f)
  BY AsyncEffect DEF SharedCall

\* Every call on an object.
LEMMA ObjectCallEffect ==
    ASSUME Inv, NEW f \in Fiber, NEW o \in Obj, ObjectCall(f, o)
    PROVE  OpEffect(f)
  <1>1. CASE IpCall(f, o) \/ UnixCall(f, o) \/ FileCall(f, o) \/ PipeCall(f, o) \/ TimeCall(f, o)
    <2>1. CallOn(f, o) \/ Constructs(f, o)
      BY <1>1, IpForms, UnixForms, FileForms, PipeForms, TimeForms
    <2> QED
      BY <2>1, CallEffect, ConstructsEffect
  <1>2. CASE SerialPortCall(f, o)
    <2>1. CASE serial_ptypair(f, o)
      <3>1. CASE Raise(f)
        BY <3>1, ErrorEffect
      <3>2. CASE ~Raise(f)
        BY <2>1, <3>2 DEF serial_ptypair, OpEffect
      <3> QED
        BY <3>1, <3>2
    <2> QED
      BY <1>2, <2>1, SerialPortForms, CallEffect, ConstructsEffect
  <1>3. CASE TlsCall(f, o)
    <2>1. ASSUME NEW q \in Obj, tls_socket_new(f, o, q) PROVE OpEffect(f)
      <3>1. CASE Raise(f)
        BY <3>1, ErrorEffect
      <3>2. CASE ~Raise(f)
        <4>1. op' = Moved(q, o)
          BY <2>1, <3>2 DEF tls_socket_new
        <4> QED
          BY <4>1 DEF OpEffect
      <3> QED
        BY <3>1, <3>2
    <2> QED
      BY <1>3, <2>1, TlsForms, CallEffect
  <1>4. CASE system_spawn(f, o)
    <2>1. CASE Raise(f)
      BY <2>1, ErrorEffect
    <2>2. CASE ~Raise(f)
      BY <1>4, <2>2 DEF system_spawn, OpEffect
    <2> QED
      BY <2>1, <2>2
  <1>5. CASE subprocess_mt_index(f, o)
    BY <1>5, SubprocessForms, RepliesEffect, InitiateEffect
  <1>6. CASE CollectObject(f, o)
    <2>1. OpsOn(o) \in SUBSET Fiber
      BY DEF OpsOn
    <2> QED
      BY <1>6, <2>1 DEF CollectObject, OpEffect
  <1> QED
    BY <1>1, <1>2, <1>3, <1>4, <1>5, <1>6 DEF ObjectCall

\* Everything the current fiber does.
LEMMA FiberStepEffect ==
    ASSUME Inv, NEW f \in Fiber, FiberStep(f)
    PROVE  OpEffect(f)
  <1>1. CASE \E o \in Obj : ObjectCall(f, o)
    BY <1>1, ObjectCallEffect
  <1>2. CASE \E h \in Handle : HandleCalls(f, h)
    <2>1. PICK h \in Handle : Replies(f) \/ Closes(f, h) \/ Duplicates(f)
      BY <1>2, HandleForms, Holders
    <2>2. CASE Closes(f, h) \/ Duplicates(f)
      BY <2>2 DEF Closes, Duplicates, OpEffect
    <2> QED
      BY <2>1, <2>2, RepliesEffect
  <1>3. CASE ResolverCall(f) \/ sleep_for(f)
    BY <1>3, SharedForms, RepliesEffect, SharedEffect
  <1>4. CASE SystemCall(f)
    BY <1>4, SystemForms, RepliesEffect, CallEffect, ConstructsEffect, SharedEffect
  <1>5. CASE \E g \in Fiber : Interrupt(f, g)
    <2>1. PICK g \in Fiber : Interrupt(f, g)
      BY <1>5
    <2>2. CASE UNCHANGED op
      BY <2>2 DEF OpEffect
    <2>3. CASE ~UNCHANGED op
      <3>1. interrupter[g] \in {"emit", "object", "resolver"} /\ \E fs \in Cancels(g) : op' = Aborted(fs)
        <4>1. interrupter \in [Fiber -> {"emit", "object", "resolver"} \cup {Nil}]
          BY DEF Inv, FiberInv, CoreOK, CoreTypeOK
        <4> QED
          BY <2>1, <2>3, <4>1 DEF Interrupt
      <3>2. PICK fs \in Cancels(g) : op' = Aborted(fs)
        BY <3>1
      <3>3. fs \in SUBSET Fiber
        BY <3>1 DEF Cancels, OpsOn
      <3> QED
        BY <3>2, <3>3 DEF OpEffect
    <2> QED
      BY <2>2, <2>3
  <1>6. CASE (\E g \in Fiber : Spawn(f, g)) \/ ThisFiber(f) \/ End(f)
    BY <1>6 DEF Spawn, ThisFiber, End, ioVars, OpEffect
  <1>7. CASE Exit(f)
    <2>1. EndWithVm \in SUBSET Fiber
      BY DEF EndWithVm
    <2> QED
      BY <1>7, <2>1 DEF Exit, CloseIo, OpEffect
  <1> QED
    BY <1>1, <1>2, <1>3, <1>4, <1>5, <1>6, <1>7 DEF FiberStep

\* A fiber that calls is in no operation: no call ends one.
LEMMA CallsEndNone ==
    ASSUME Inv, NEW f \in Fiber, op[f] = Nil, OpEffect(f)
    PROVE  NoneEnds
  <1>1. op \in [Fiber -> Operation \cup {Nil}]
    BY DEF Inv, FiberInv, CoreOK
  <1>2. CASE \A g \in Fiber : g # f => op'[g] = op[g]
    BY <1>2 DEF NoneEnds
  <1>3. CASE \E fs \in SUBSET Fiber : op' = Aborted(fs)
    <2>1. OpsAdvance
      BY <1>3, AbortAdvances DEF Inv
    <2> QED
      BY <2>1 DEF OpsAdvance, NoneEnds
  <1>4. CASE \E o, p \in Obj : op' = Moved(o, p)
    <2>1. PICK o \in Obj, p \in Obj : op' = Moved(o, p)
      BY <1>4
    <2>2. ASSUME NEW r \in Operation PROVE [r EXCEPT !.obj = p, !.slot = FALSE] \in Operation
      BY DEF Operation
    <2>3. ASSUME NEW g \in Fiber, op[g] # Nil PROVE op'[g] # Nil
      <3>1. op[g] \in Operation
        BY <1>1, <2>3
      <3>2. op'[g] = op[g] \/ op'[g] = [op[g] EXCEPT !.obj = p, !.slot = FALSE]
        BY <2>1 DEF Moved
      <3> QED
        BY <2>2, <2>3, <3>1, <3>2, IoSystemAssumption
    <2> QED
      BY <2>3 DEF NoneEnds
  <1> QED
    BY <1>2, <1>3, <1>4 DEF OpEffect

\* Neither the kernel nor a new wait ends an operation for its fiber.
LEMMA AdvancingEndsNone ==
    ASSUME OpsAdvance
    PROVE  NoneEnds
  BY DEF OpsAdvance, NoneEnds

\* What WakeUpsTellTheTruth says of one step.
Truthful ==
    \A f \in Fiber :
        op[f] # Nil /\ op'[f] = Nil =>
           /\ ret'[f] = "interrupted" => interrupted[f]
           /\ ret'[f] = "operation_aborted" /\ op[f].io # "stdstream" => ~interrupted[f]

\* A handler that wakes its fiber, or finds the VM closed, tells it the truth.
LEMMA WakesTruly ==
    ASSUME Inv, NEW f \in Fiber, Completed(f),
           \/ /\ valid[VmOf[f]]
              /\ \E ec \in {"none", "error", "operation_aborted"} :
                    /\ op[f].io \in {"sleep", "child"} => ec = op[f].ec
                    /\ ResumeWith(f, ec)
           \/ ~valid[VmOf[f]] /\ Dropped(f)
    PROVE  Truthful
  <1>1. /\ op \in [Fiber -> Operation \cup {Nil}] /\ ret \in [Fiber -> Results] /\ op[f] # Nil
        /\ valid[VmOf[f]] <=> AllValid
    BY CompletedFacts DEF Inv, FiberInv, CoreOK, CoreTypeOK
  <1>2. \A g \in Fiber : g # f => op'[g] = op[g]
    BY <1>1 DEF ResumeWith, Dropped
  <1>3. /\ ret'[f] = "interrupted" => interrupted[f]
        /\ ret'[f] = "operation_aborted" /\ op[f].io # "stdstream" => ~interrupted[f]
    <2>1. CASE ~valid[VmOf[f]] /\ Dropped(f)
      <3>1. ret'[f] = "none"
        BY <1>1, <2>1 DEF Dropped, Inv, FiberInv, ClosedIsQuiet
      <3> QED
        BY <3>1
    <2>2. CASE valid[VmOf[f]] /\ \E ec \in {"none", "error", "operation_aborted"} :
                  /\ op[f].io \in {"sleep", "child"} => ec = op[f].ec
                  /\ ResumeWith(f, ec)
      <3>1. PICK ec \in {"none", "error", "operation_aborted"} :
               /\ op[f].io \in {"sleep", "child"} => ec = op[f].ec
               /\ ResumeWith(f, ec)
        BY <2>2
      <3>2. ret'[f] = Detect(f, ec)
        BY <1>1, <3>1 DEF ResumeWith, FiberResume
      <3>3. op[f].io \in {"sleep", "child"} /\ ec = "operation_aborted" => interrupted[f]
        BY <1>1, <2>2, <3>1 DEF Inv, FiberInv, AbortedByInterruption
      <3> QED
        BY <3>1, <3>2, <3>3 DEF Detect
    <2> QED
      BY <2>1, <2>2
  <1> QED
    BY <1>2, <1>3 DEF Truthful

\* The handler of a TLS socket's operation does so, too.
LEMMA TlsWakesTruly ==
    ASSUME Inv, NEW f \in Fiber, io_op(f)
    PROVE  Truthful
  <1>1. /\ Completed(f) /\ op[f].io \in TlsIo /\ UNCHANGED kind /\ op[f] # Nil /\ FiberInv
        /\ ret \in [Fiber -> Results]
    BY TlsHandlerForms, CompletedFacts DEF objVars, names, Inv, FiberInv, CoreOK, CoreTypeOK
  <1>2. op[f].io \notin {"sleep", "child", "stdstream"}
    BY <1>1 DEF TlsIo, TlsStep, TlsWait
  <1>3. ASSUME valid[VmOf[f]], NEW ec \in {"none", "error", "operation_aborted"}, Over(f, ec)
        PROVE  Truthful
    <2>1. \A g \in Fiber : g # f => (op'[g] = Nil <=> op[g] = Nil)
      BY <1>1, <1>3, FiberOver
    <2>2. ret'[f] = Detect(f, ec)
      BY <1>1, <1>3 DEF Over, FiberResume
    <2>3. /\ ret'[f] = "interrupted" => interrupted[f]
          /\ ret'[f] = "operation_aborted" => ~interrupted[f]
      BY <1>2, <2>2 DEF Detect
    <2> QED
      BY <2>1, <2>3 DEF Truthful
  <1>4. ASSUME NEW io \in TlsIo, NEW ec \in {Nil, "none", "error"}, Again(f, <<io, ec>>)
        PROVE  Truthful
    <2>1. NoneEnds
      BY <1>1, <1>4, FiberAgain, AdvancingEndsNone
    <2> QED
      BY <2>1 DEF NoneEnds, Truthful
  <1>5. CASE ~valid[VmOf[f]] /\ Dropped(f)
    BY <1>1, <1>5, WakesTruly
  <1> QED
    BY <1>3, <1>4, <1>5, TlsHandlerForms

\* Every other handler either wakes its fiber, or finds the VM closed, or waits again.
LEMMA HandlerForms ==
    ASSUME Inv, NEW f \in Fiber, Handler(f), ~io_op(f)
    PROVE  /\ Completed(f)
           /\ \/ /\ valid[VmOf[f]]
                 /\ \E ec \in {"none", "error", "operation_aborted"} :
                       /\ op[f].io \in {"sleep", "child"} => ec = op[f].ec
                       /\ ResumeWith(f, ec)
              \/ ~valid[VmOf[f]] /\ Dropped(f)
              \/ op[f].io \in Rewaiting /\ DoWait(f)
  <1>1. Completed(f)
    BY DEF Handler, Completion, Accepted, receive_with_fds_op, send_with_fds_op, Waited
  <1>2. op[f].ec \in {"none", "error", "operation_aborted"}
    BY <1>1, CompletedFacts
  <1>3. CASE Completion(f) \/ Accepted(f) \/ Waited(f)
    <2>1. IF valid[VmOf[f]] THEN ResumeWith(f, op[f].ec) ELSE Dropped(f)
      BY <1>3 DEF Completion, Accepted, Waited
    <2> QED
      BY <1>1, <1>2, <2>1
  <1>4. CASE receive_with_fds_op(f)
    <2>1. op[f].io = "receive_with_fds"
      BY <1>4 DEF receive_with_fds_op
    <2>2. \/ valid[VmOf[f]] /\ \E ec \in {op[f].ec, "error", "none"} : ResumeWith(f, ec)
          \/ ~valid[VmOf[f]] /\ Dropped(f)
          \/ DoWait(f)
      BY <1>4 DEF receive_with_fds_op, Received
    <2> QED
      BY <1>1, <1>2, <2>1, <2>2 DEF Rewaiting
  <1>5. CASE send_with_fds_op(f)
    <2>1. op[f].io = "send_with_fds"
      BY <1>5 DEF send_with_fds_op
    <2>2. \/ valid[VmOf[f]] /\ \E ec \in {op[f].ec, "error"} : ResumeWith(f, ec)
          \/ ~valid[VmOf[f]] /\ Dropped(f)
          \/ DoWait(f)
      BY <1>5 DEF send_with_fds_op
    <2> QED
      BY <1>1, <1>2, <2>1, <2>2 DEF Rewaiting
  <1> QED
    BY SMTT(30), <1>3, <1>4, <1>5 DEF Handler

\* What every step does to the operations that end in it.
LEMMA NextTruthful == Inv /\ [Next]_vars => Truthful
  <1> SUFFICES ASSUME Inv, [Next]_vars PROVE Truthful
    OBVIOUS
  <1>1. ASSUME NoneEnds PROVE Truthful
    BY <1>1 DEF NoneEnds, Truthful
  <1>2. ASSUME UNCHANGED op PROVE Truthful
    BY <1>2 DEF Truthful
  <1>3. CASE UNCHANGED vars
    BY <1>2, <1>3 DEF vars, ioVars
  <1>4. ASSUME NEW f \in Fiber, FiberStep(f) PROVE Truthful
    <2>1. Running(f)
      BY <1>4 DEF FiberStep
    <2>2. op[f] = Nil
      BY <2>1, Caller DEF Inv
    <2> QED
      BY <1>1, <1>4, <2>2, FiberStepEffect, CallsEndNone
  <1>5. ASSUME NEW f \in Fiber, Handler(f) PROVE Truthful
    <2>1. CASE op[f].io \in Rewaiting /\ DoWait(f) /\ ~io_op(f)
      <3>1. op[f] # Nil
        BY <1>5, <2>1, HandlerForms, CompletedFacts
      <3> QED
        BY <1>1, <2>1, <3>1, FiberDoWait, AdvancingEndsNone DEF Inv
    <2>2. CASE io_op(f)
      BY <2>2, TlsWakesTruly
    <2> QED
      BY <1>5, <2>1, <2>2, HandlerForms, WakesTruly
  <1>6. ASSUME NEW f \in Fiber, Kernel(f) PROVE Truthful
    BY <1>1, <1>6, FiberKernel, AdvancingEndsNone DEF Inv
  <1>7. ASSUME NEW o \in Obj, ChildEnds(o) \/ Reap(o) PROVE Truthful
    BY <1>2, <1>7 DEF ChildEnds, Reap
  <1>8. ASSUME NEW v \in Vm, RunStrand(v) PROVE Truthful
    BY <1>2, <1>8 DEF RunStrand, ioVars
  <1>9. ASSUME NEW v \in Vm, Destroy(v) PROVE Truthful
    BY <1>9 DEF Destroy, Truthful
  <1> QED
    BY <1>3, <1>4, <1>5, <1>6, <1>7, <1>8, <1>9 DEF Next

\* A fiber is told "interrupted" only when somebody interrupted it, and an interrupted
\* one is never told operation_aborted, in whatever order an interruption, a cancel(),
\* a close() and the end of the operation come.
THEOREM WakeUpsAreTrue == Spec => WakeUpsTellTheTruth
  <1>1. Inv /\ [Next]_vars => [Truthful]_vars
    BY NextTruthful
  <1>2. Spec => [][Truthful]_vars
    BY <1>1, Invariance, PTL DEF Spec
  <1> QED
    BY <1>2 DEF WakeUpsTellTheTruth, Truthful

-----------------------------------------------------------------------------
(* What a child has: system_spawn_child_main() step by step.                 *)

\* The child, in the terms of ChildFds.
ChildState ==
    [table : [Numbers -> Int], pipe : Int, program : Int, extra : Seq(Int \X Int), idx : Int]

\* The number n is that of file.
Holds(s, n, file) == n \in Numbers /\ s.table[n] = file

\* Up to its k-th renumbering: each source has the file it had, and so have the
\* standard streams.
Sound(s, k, w, extra, streams) ==
    /\ s \in ChildState
    /\ s.idx \in 10..(10 + 5 * k)
    /\ Holds(s, s.pipe, w)
    /\ s.program \in Numbers \cup {Closed}
    /\ Len(s.extra) = Len(extra) /\ Len(extra) \in 0..2
    /\ \A i \in 1..Len(extra) : /\ s.extra[i][1] = extra[i][1]
                                /\ Holds(s, s.extra[i][2], extra[i][2])
    /\ \A d \in 0..2 : s.table[d] = streams[d]

\* i is the first number from n on that is not in S.
FirstFree(S, n, i) == i \notin S /\ \A j \in n..(i - 1) : j \in S

\* Of five numbers in a row one is none of four.
LEMMA FreeNumber ==
    ASSUME NEW S, NEW n \in Int, NEW a \in Int, NEW b \in Int, NEW c \in Int, NEW d \in Int,
           S = {a, b, c, d}
    PROVE  \E i \in n..(n + 4) : FirstFree(S, n, i)
  <1> USE DEF FirstFree
  <1>1. CASE n \notin S
    BY <1>1
  <1>2. CASE n \in S /\ n + 1 \notin S
    BY <1>2
  <1>3. CASE n \in S /\ n + 1 \in S /\ n + 2 \notin S
    <2>1. \A j \in n..(n + 2 - 1) : j = n \/ j = n + 1
      OBVIOUS
    <2> QED
      BY <1>3, <2>1
  <1>4. CASE n \in S /\ n + 1 \in S /\ n + 2 \in S /\ n + 3 \notin S
    <2>1. \A j \in n..(n + 3 - 1) : j = n \/ j = n + 1 \/ j = n + 2
      OBVIOUS
    <2>2. FirstFree(S, n, n + 3) /\ n + 3 \in n..(n + 4)
      BY <1>4, <2>1
    <2> QED
      BY <2>2
  <1>5. CASE n \in S /\ n + 1 \in S /\ n + 2 \in S /\ n + 3 \in S
    <2>1. n + 4 \notin S
      BY <1>5
    <2>2. \A j \in n..(n + 4 - 1) : j = n \/ j = n + 1 \/ j = n + 2 \/ j = n + 3
      OBVIOUS
    <2> QED
      BY <1>5, <2>1, <2>2
  <1> QED
    BY <1>1, <1>2, <1>3, <1>4, <1>5

\* The sources that nextfd() avoids.
SourcesOf(s) == {s.pipe, s.program} \cup {e[2] : e \in Range(s.extra)}

\* There are four of them at most.
LEMMA FourSources ==
    ASSUME NEW s \in ChildState, Len(s.extra) \in 0..2
    PROVE  /\ \E a, b, c, d \in Int : SourcesOf(s) = {a, b, c, d}
           /\ s.pipe \in SourcesOf(s)
           /\ \A i \in 1..Len(s.extra) : s.extra[i][2] \in SourcesOf(s)
  <1> PICK q \in Seq(Int \X Int) : q = s.extra
    BY DEF ChildState
  <1>1. s.pipe \in Int /\ s.program \in Int
    BY DEF ChildState
  <1>2. DOMAIN q = 1..Len(q) /\ Len(q) \in 0..2 /\ \A i \in 1..Len(q) : q[i] \in Int \X Int
    OBVIOUS
  <1>3. \A x : x \in SourcesOf(s) <=> \/ x = s.pipe \/ x = s.program
                                      \/ \E i \in 1..Len(q) : x = q[i][2]
    BY <1>2 DEF SourcesOf, Range
  <1>4. \A i \in 1..Len(q) : q[i][2] \in Int
    BY <1>2
  <1>5. s.pipe \in SourcesOf(s) /\ \A i \in 1..Len(s.extra) : s.extra[i][2] \in SourcesOf(s)
    BY <1>3
  <1>6. CASE Len(q) = 0
    <2>1. SourcesOf(s) = {s.pipe, s.program, s.pipe, s.program}
      BY <1>3, <1>6
    <2> QED
      BY <1>1, <1>5, <2>1, Zenon
  <1>7. CASE Len(q) = 1
    <2>1. \A i \in 1..Len(q) : i = 1
      BY <1>7
    <2>2. 1 \in 1..Len(q)
      BY <1>7
    <2>3. SourcesOf(s) = {s.pipe, s.program, q[1][2], q[1][2]}
      BY <1>3, <2>1, <2>2
    <2> QED
      BY <1>1, <1>4, <1>5, <2>2, <2>3, Zenon
  <1>8. CASE Len(q) = 2
    <2>1. \A i \in 1..Len(q) : i = 1 \/ i = 2
      BY <1>8
    <2>2. 1 \in 1..Len(q) /\ 2 \in 1..Len(q)
      BY <1>8
    <2>3. SourcesOf(s) = {s.pipe, s.program, q[1][2], q[2][2]}
      BY <1>3, <2>1, <2>2
    <2> QED
      BY <1>1, <1>4, <1>5, <2>2, <2>3, Zenon
  <1>9. Len(q) = 0 \/ Len(q) = 1 \/ Len(q) = 2
    BY <1>2
  <1> QED
    BY <1>6, <1>7, <1>8, <1>9

\* nextfd() finds a number that is no source.
LEMMA NextfdFacts ==
    ASSUME NEW s \in ChildState, Len(s.extra) \in 0..2, s.idx \in 10..27
    PROVE  /\ Nextfd(s) \in Numbers /\ Nextfd(s) >= 10
           /\ Nextfd(s) \in s.idx..(s.idx + 4)
           /\ Nextfd(s) \notin SourcesOf(s)
  <1> DEFINE P(i) == /\ i >= s.idx /\ i \notin SourcesOf(s)
                     /\ \A j \in s.idx..(i - 1) : j \in SourcesOf(s)
  <1>1. PICK n \in Int : n = s.idx
    OBVIOUS
  <1>2. PICK a, b, c, d \in Int : SourcesOf(s) = {a, b, c, d}
    BY FourSources
  <1>3. PICK k \in n..(n + 4) : FirstFree(SourcesOf(s), n, k)
    BY <1>2, FreeNumber
  <1>4. k \notin SourcesOf(s) /\ \A j \in n..(k - 1) : j \in SourcesOf(s)
    BY <1>3 DEF FirstFree
  <1>5. k \in Numbers /\ P(k)
    <2>1. n \in 10..27 /\ k \in 10..31 /\ k >= n
      BY <1>1
    <2> QED
      BY <1>1, <1>4, <2>1 DEF Numbers
  <1>6. Nextfd(s) = CHOOSE i \in Numbers : P(i)
    BY DEF Nextfd, SourcesOf
  <1> HIDE DEF P
  <1>7. Nextfd(s) \in Numbers /\ P(Nextfd(s))
    BY <1>5, <1>6
  <1>8. PICK m \in Numbers : m = Nextfd(s)
    BY <1>7
  <1>9. m >= s.idx /\ m \notin SourcesOf(s) /\ \A j \in s.idx..(m - 1) : j \in SourcesOf(s)
    BY <1>7, <1>8 DEF P
  <1>10. m <= k
    <2>1. SUFFICES ASSUME m > k PROVE FALSE
      BY <1>4 DEF Numbers
    <2>2. k \in s.idx..(m - 1)
      BY <1>1, <1>4, <2>1 DEF Numbers
    <2> QED
      BY <1>4, <1>9, <2>2
  <1> QED
    <2>1. n \in 10..27 /\ m \in Int /\ m >= n /\ m <= n + 4
      BY <1>1, <1>8, <1>9, <1>10 DEF Numbers
    <2>2. m \in n..(n + 4) /\ m >= 10
      BY <2>1
    <2> QED
      BY <1>1, <1>8, <1>9, <2>2, Zenon

\* The fields of the child have their types.
LEMMA Fields ==
    ASSUME NEW s \in ChildState
    PROVE  /\ s.table \in [Numbers -> Int] /\ s.pipe \in Int /\ s.program \in Int
           /\ s.extra \in Seq(Int \X Int) /\ s.idx \in Int
  BY DEF ChildState

\* The table alone changes.
LEMMA SetTable ==
    ASSUME NEW s \in ChildState, NEW t \in [Numbers -> Int]
    PROVE  LET r == [s EXCEPT !.table = t] IN
           /\ r \in ChildState /\ r.table = t /\ r.pipe = s.pipe /\ r.program = s.program
           /\ r.extra = s.extra /\ r.idx = s.idx
  BY DEF ChildState

\* The number of the pipe alone changes.
LEMMA SetPipe ==
    ASSUME NEW s \in ChildState, NEW n \in Int
    PROVE  LET r == [s EXCEPT !.pipe = n] IN
           /\ r \in ChildState /\ r.table = s.table /\ r.pipe = n /\ r.program = s.program
           /\ r.extra = s.extra /\ r.idx = s.idx
  BY DEF ChildState

\* The number of the program alone changes.
LEMMA SetProgram ==
    ASSUME NEW s \in ChildState, NEW n \in Int
    PROVE  LET r == [s EXCEPT !.program = n] IN
           /\ r \in ChildState /\ r.table = s.table /\ r.pipe = s.pipe /\ r.program = n
           /\ r.extra = s.extra /\ r.idx = s.idx
  BY DEF ChildState

\* extra_fds alone changes.
LEMMA SetExtra ==
    ASSUME NEW s \in ChildState, NEW q \in Seq(Int \X Int)
    PROVE  LET r == [s EXCEPT !.extra = q] IN
           /\ r \in ChildState /\ r.table = s.table /\ r.pipe = s.pipe /\ r.program = s.program
           /\ r.extra = q /\ r.idx = s.idx
  BY DEF ChildState

\* nextfd()'s index alone changes.
LEMMA SetIdx ==
    ASSUME NEW s \in ChildState, NEW n \in Int
    PROVE  LET r == [s EXCEPT !.idx = n] IN
           /\ r \in ChildState /\ r.table = s.table /\ r.pipe = s.pipe /\ r.program = s.program
           /\ r.extra = s.extra /\ r.idx = n
  BY DEF ChildState

\* The file of src is now at n as well, which nextfd() gave.
Moves(s, src, n, r) ==
    /\ n = Nextfd(s) /\ n \in Numbers
    /\ r.table = [s.table EXCEPT ![n] = s.table[src]]
    /\ r.idx = n + 1

\* After it no source has lost its file.
NoneLost(s, k, w, extra, streams, src, n, r) ==
    /\ r.idx \in 10..(10 + 5 * (k + 1)) /\ n > 9
    /\ Holds(r, n, s.table[src])
    /\ Holds(r, s.pipe, w)
    /\ \A i \in 1..Len(extra) : Holds(r, s.extra[i][2], extra[i][2])
    /\ \A d \in 0..2 : r.table[d] = streams[d]

\* A number that nextfd() gave is no source, so dup2() to it loses no file.
LEMMA MovesFacts ==
    ASSUME NEW s, NEW k \in 0..3, NEW w, NEW extra, NEW streams, Sound(s, k, w, extra, streams),
           NEW src \in Numbers, NEW n, NEW r, Moves(s, src, n, r)
    PROVE  NoneLost(s, k, w, extra, streams, src, n, r)
  <1>1. /\ s \in ChildState /\ s.idx \in 10..(10 + 5 * k)
        /\ Len(s.extra) \in 0..2 /\ Len(s.extra) = Len(extra)
    BY DEF Sound
  <1>2. s.idx \in 10..27
    <2>1. PICK j \in Int : j = s.idx
      BY <1>1, Fields
    <2>2. j \in 10..(10 + 5 * k)
      BY <1>1, <2>1
    <2>3. j \in 10..27
      BY <2>2
    <2> QED
      BY <2>1, <2>3
  <1>3. /\ Nextfd(s) >= 10 /\ Nextfd(s) \in s.idx..(s.idx + 4) /\ Nextfd(s) \notin SourcesOf(s)
    BY <1>1, <1>2, NextfdFacts
  <1>4. /\ n \in Numbers /\ n >= 10 /\ n \in s.idx..(s.idx + 4)
        /\ n \notin SourcesOf(s) /\ r.idx = n + 1
    BY <1>3 DEF Moves
  <1>5. \A x \in Numbers : r.table[x] = IF x = n THEN s.table[src] ELSE s.table[x]
    BY <1>1, Fields DEF Moves
  <1>6. r.idx \in 10..(10 + 5 * (k + 1)) /\ n > 9
    <2>1. PICK j \in Int : j = s.idx
      BY <1>1, Fields
    <2>2. j \in 10..(10 + 5 * k) /\ n \in j..(j + 4) /\ n \in Int
      BY <1>1, <1>4, <2>1
    <2> QED
      BY <1>4, <2>2
  <1>7. s.pipe # n /\ \A i \in 1..Len(extra) : s.extra[i][2] # n
    BY <1>1, <1>4, FourSources
  <1>8. \A d \in 0..2 : d \in Numbers /\ d # n
    BY <1>4 DEF Numbers
  <1>9. \A d \in 0..2 : r.table[d] = streams[d]
    BY <1>5, <1>8 DEF Sound
  <1> QED
    BY <1>4, <1>5, <1>6, <1>7, <1>9 DEF NoneLost, Sound, Holds

\* The pipe and the first i of extra_fds are out of the way, above 9.
MadeWay(s, k, i, w, extra, streams) ==
    /\ Sound(s, k, w, extra, streams)
    /\ s.pipe > 9
    /\ \A j \in 1..i : s.extra[j][2] > 9

\* The pipe makes way.
LEMMA PipeMoves ==
    ASSUME NEW s, NEW w, NEW extra, NEW streams, Sound(s, 0, w, extra, streams)
    PROVE  MadeWay(RelocatePipe(s), 1, 0, w, extra, streams)
  <1>1. s \in ChildState /\ s.pipe \in Numbers /\ s.table[s.pipe] = w
    BY DEF Sound, Holds
  <1>2. CASE s.pipe > 9
    <2>1. s.idx \in 10..(10 + 5 * 1)
      BY DEF Sound
    <2> QED
      BY <1>2, <2>1 DEF Sound, MadeWay, RelocatePipe
  <1>3. CASE ~(s.pipe > 9)
    <2>1. Nextfd(s) \in Numbers
      BY NextfdFacts DEF Sound
    <2>2. PICK n \in Numbers : n = Nextfd(s)
      BY <2>1
    <2>3. PICK t : t = [s.table EXCEPT ![n] = s.table[s.pipe]]
      OBVIOUS
    <2>4. PICK r0 : r0 = Dup2(s, s.pipe, n)
      OBVIOUS
    <2>5. r0 = [s EXCEPT !.table = t]
      BY <2>3, <2>4 DEF Dup2
    <2>6. PICK r1 : r1 = [r0 EXCEPT !.pipe = n]
      OBVIOUS
    <2>7. PICK r : r = [r1 EXCEPT !.idx = n + 1]
      OBVIOUS
    <2>8. RelocatePipe(s) = r
      BY <1>3, <2>2, <2>4, <2>6, <2>7, Zenon DEF RelocatePipe
    <2>9. t \in [Numbers -> Int] /\ n \in Int /\ n + 1 \in Int
      <3>1. t \in [Numbers -> Int]
        BY <1>1, <2>3, Fields
      <3> QED
        BY <3>1 DEF Numbers
    <2>10. r0 \in ChildState /\ r0.table = t /\ r0.program = s.program /\ r0.extra = s.extra
      BY <1>1, <2>5, <2>9, SetTable
    <2>11. /\ r1 \in ChildState /\ r1.table = t /\ r1.program = s.program
           /\ r1.extra = s.extra /\ r1.pipe = n
      BY <2>6, <2>9, <2>10, SetPipe
    <2>12. /\ r \in ChildState /\ r.table = t /\ r.program = s.program
           /\ r.extra = s.extra /\ r.pipe = n /\ r.idx = n + 1
      BY <2>7, <2>9, <2>11, SetIdx
    <2>13. Moves(s, s.pipe, n, r)
      BY <2>2, <2>3, <2>12 DEF Moves
    <2>14. /\ r.idx \in 10..(10 + 5 * (0 + 1)) /\ n > 9 /\ Holds(r, n, w)
           /\ \A i \in 1..Len(extra) : Holds(r, s.extra[i][2], extra[i][2])
           /\ \A d \in 0..2 : r.table[d] = streams[d]
      <3>1. NoneLost(s, 0, w, extra, streams, s.pipe, n, r)
        BY <1>1, <2>13, MovesFacts
      <3> QED
        BY <1>1, <3>1 DEF NoneLost
    <2>15. Sound(r, 1, w, extra, streams)
      BY <2>12, <2>14 DEF Sound
    <2> QED
      BY <2>8, <2>12, <2>14, <2>15 DEF MadeWay
  <1> QED
    BY <1>2, <1>3

\* The program makes way.
LEMMA ProgramMoves ==
    ASSUME NEW s, NEW w, NEW extra, NEW streams, MadeWay(s, 1, 0, w, extra, streams)
    PROVE  MadeWay(RelocateProgram(s), 2, 0, w, extra, streams)
  <1>0. Sound(s, 1, w, extra, streams) /\ s.pipe > 9
    BY DEF MadeWay
  <1>1. s \in ChildState /\ s.program \in Numbers \cup {Closed}
    BY <1>0 DEF Sound
  <1>2. CASE s.program = Closed \/ s.program > 9
    <2>1. s.idx \in 10..(10 + 5 * 2)
      BY <1>0 DEF Sound
    <2>2. Sound(s, 2, w, extra, streams)
      BY <1>0, <2>1 DEF Sound
    <2> QED
      BY <1>0, <1>2, <2>2 DEF MadeWay, RelocateProgram
  <1>3. CASE ~(s.program = Closed \/ s.program > 9)
    <2>0. s.program \in Numbers
      BY <1>1, <1>3
    <2>1. Nextfd(s) \in Numbers
      BY <1>0, NextfdFacts DEF Sound
    <2>2. PICK n \in Numbers : n = Nextfd(s)
      BY <2>1
    <2>3. PICK t : t = [s.table EXCEPT ![n] = s.table[s.program]]
      OBVIOUS
    <2>4. PICK r0 : r0 = Dup2(s, s.program, n)
      OBVIOUS
    <2>5. r0 = [s EXCEPT !.table = t]
      BY <2>3, <2>4 DEF Dup2
    <2>6. PICK r1 : r1 = [r0 EXCEPT !.program = n]
      OBVIOUS
    <2>7. PICK r : r = [r1 EXCEPT !.idx = n + 1]
      OBVIOUS
    <2>8. RelocateProgram(s) = r
      BY <1>3, <2>2, <2>4, <2>6, <2>7, Zenon DEF RelocateProgram
    <2>9. t \in [Numbers -> Int] /\ n \in Int /\ n + 1 \in Int
      <3>1. t \in [Numbers -> Int]
        BY <1>1, <2>0, <2>3, Fields
      <3> QED
        BY <3>1 DEF Numbers
    <2>10. r0 \in ChildState /\ r0.table = t /\ r0.pipe = s.pipe /\ r0.extra = s.extra
      BY <1>1, <2>5, <2>9, SetTable
    <2>11. /\ r1 \in ChildState /\ r1.table = t /\ r1.pipe = s.pipe
           /\ r1.extra = s.extra /\ r1.program = n
      BY <2>6, <2>9, <2>10, SetProgram
    <2>12. /\ r \in ChildState /\ r.table = t /\ r.pipe = s.pipe
           /\ r.extra = s.extra /\ r.program = n /\ r.idx = n + 1
      BY <2>7, <2>9, <2>11, SetIdx
    <2>13. Moves(s, s.program, n, r)
      BY <2>2, <2>3, <2>12 DEF Moves
    <2>14. /\ r.idx \in 10..(10 + 5 * (1 + 1)) /\ n > 9 /\ Holds(r, s.pipe, w)
           /\ \A i \in 1..Len(extra) : Holds(r, s.extra[i][2], extra[i][2])
           /\ \A d \in 0..2 : r.table[d] = streams[d]
      <3>1. NoneLost(s, 1, w, extra, streams, s.program, n, r)
        BY <1>0, <2>0, <2>13, MovesFacts
      <3> QED
        BY <1>1, <3>1 DEF NoneLost
    <2>15. Sound(r, 2, w, extra, streams)
      BY <1>0, <2>12, <2>14 DEF Sound
    <2> QED
      BY <1>0, <2>8, <2>12, <2>15 DEF MadeWay
  <1> QED
    BY <1>2, <1>3

\* The i-th of extra_fds makes way, when those before it have.
LEMMA ExtraMoves ==
    ASSUME NEW s, NEW w, NEW extra, NEW streams, NEW i \in 1..Len(extra), NEW k \in 2..3,
           MadeWay(s, k, i - 1, w, extra, streams)
    PROVE  MadeWay(RelocateExtra(s, i), k + 1, i, w, extra, streams)
  <1>0. Sound(s, k, w, extra, streams) /\ s.pipe > 9 /\ \A j \in 1..(i - 1) : s.extra[j][2] > 9
    BY DEF MadeWay
  <1>1. /\ s \in ChildState /\ s.extra[i][2] \in Numbers /\ s.table[s.extra[i][2]] = extra[i][2]
        /\ Len(s.extra) = Len(extra) /\ Len(extra) \in 0..2 /\ s.extra[i][1] = extra[i][1]
    BY <1>0 DEF Sound, Holds
  <1>2. s.extra \in Seq(Int \X Int) /\ i \in 1..Len(s.extra) /\ Len(extra) \in Int
    BY <1>1, Fields
  <1>3. \A j \in 1..i : j \in 1..(i - 1) \/ j = i
    BY <1>1
  <1>4. CASE s.extra[i][2] > 9
    <2>1. s.idx \in 10..(10 + 5 * (k + 1))
      <3>1. PICK j \in Int : j = s.idx
        BY <1>1, Fields
      <3>2. j \in 10..(10 + 5 * k)
        BY <1>0, <3>1 DEF Sound
      <3> QED
        BY <3>1, <3>2
    <2>2. Sound(s, k + 1, w, extra, streams)
      BY <1>0, <2>1 DEF Sound
    <2>3. \A j \in 1..i : s.extra[j][2] > 9
      BY <1>0, <1>3, <1>4
    <2> QED
      BY <1>0, <1>4, <2>2, <2>3 DEF MadeWay, RelocateExtra
  <1>5. CASE ~(s.extra[i][2] > 9)
    <2>1. Nextfd(s) \in Numbers
      <3>1. PICK j \in Int : j = s.idx
        BY <1>1, Fields
      <3>2. j \in 10..(10 + 5 * k)
        BY <1>0, <3>1 DEF Sound
      <3>3. j \in 10..27
        BY <3>2
      <3>4. s.idx \in 10..27
        BY <3>1, <3>3
      <3> QED
        BY <1>1, <3>4, NextfdFacts
    <2>2. PICK n \in Numbers : n = Nextfd(s)
      BY <2>1
    <2>3. PICK t, src : src = s.extra[i][2] /\ t = [s.table EXCEPT ![n] = s.table[src]]
      OBVIOUS
    <2>4. PICK q : q = [s.extra EXCEPT ![i] = <<@[1], n>>]
      OBVIOUS
    <2>5. PICK r0 : r0 = Dup2(s, s.extra[i][2], n)
      OBVIOUS
    <2>6. r0 = [s EXCEPT !.table = t]
      BY <2>3, <2>5 DEF Dup2
    <2>9. t \in [Numbers -> Int] /\ n \in Int /\ n + 1 \in Int
      <3>1. t \in [Numbers -> Int]
        BY <1>1, <2>3, Fields
      <3> QED
        BY <3>1 DEF Numbers
    <2>10. /\ r0 \in ChildState /\ r0.table = t /\ r0.pipe = s.pipe
           /\ r0.program = s.program /\ r0.extra = s.extra
      BY <1>1, <2>6, <2>9, SetTable
    <2>7. PICK r1 : r1 = [r0 EXCEPT !.extra = q]
      OBVIOUS
    <2>8. PICK r : r = [r1 EXCEPT !.idx = n + 1]
      OBVIOUS
    <2>17. RelocateExtra(s, i) = r
      <3>1. RelocateExtra(s, i) = [[r0 EXCEPT !.extra[i] = <<@[1], n>>] EXCEPT !.idx = n + 1]
        BY <1>5, <2>2, <2>5, Zenon DEF RelocateExtra
      <3>2. [r0 EXCEPT !.extra[i] = <<@[1], n>>] =
               [r0 EXCEPT !.extra = [r0.extra EXCEPT ![i] = <<@[1], n>>]]
        OBVIOUS
      <3>3. [r0.extra EXCEPT ![i] = <<@[1], n>>] = q
        BY <2>4, <2>10
      <3> QED
        BY <2>7, <2>8, <3>1, <3>2, <3>3, Zenon
    <2>18. /\ q \in Seq(Int \X Int) /\ Len(q) = Len(extra)
           /\ \A j \in 1..Len(extra) : q[j] = IF j = i THEN <<extra[i][1], n>> ELSE s.extra[j]
      <3>1. s.extra[i][1] \in Int /\ <<s.extra[i][1], n>> \in Int \X Int
        BY <1>2, <2>9
      <3>2. q = [s.extra EXCEPT ![i] = <<s.extra[i][1], n>>]
        BY <2>4
      <3> QED
        BY <1>1, <1>2, <3>1, <3>2
    <2>11. /\ r1 \in ChildState /\ r1.table = t /\ r1.pipe = s.pipe /\ r1.program = s.program
           /\ r1.extra = q
      BY <2>7, <2>10, <2>18, SetExtra
    <2>12. /\ r \in ChildState /\ r.table = t /\ r.pipe = s.pipe /\ r.program = s.program
           /\ r.extra = q /\ r.idx = n + 1
      BY <2>8, <2>9, <2>11, SetIdx
    <2>13. Moves(s, src, n, r)
      BY <2>2, <2>3, <2>12 DEF Moves
    <2>14. /\ r.idx \in 10..(10 + 5 * (k + 1)) /\ n > 9
           /\ Holds(r, n, extra[i][2]) /\ Holds(r, s.pipe, w)
           /\ \A j \in 1..Len(extra) : Holds(r, s.extra[j][2], extra[j][2])
           /\ \A d \in 0..2 : r.table[d] = streams[d]
      <3>1. k \in 0..3 /\ src \in Numbers
        BY <1>1, <2>3
      <3>2. NoneLost(s, k, w, extra, streams, src, n, r)
        BY <1>0, <2>13, <3>1, MovesFacts
      <3> QED
        BY <1>1, <2>3, <3>2 DEF NoneLost
    <2>15. Sound(r, k + 1, w, extra, streams)
      <3>1. ASSUME NEW j \in 1..Len(extra)
            PROVE  r.extra[j][1] = extra[j][1] /\ Holds(r, r.extra[j][2], extra[j][2])
        <4>1. CASE j = i
          <5>1. r.extra[j] = <<extra[i][1], n>>
            BY <2>12, <2>18, <4>1
          <5>2. r.extra[j][1] = extra[i][1] /\ r.extra[j][2] = n
            BY <5>1
          <5> QED
            BY <2>14, <4>1, <5>2
        <4>2. CASE j # i
          <5>1. r.extra[j] = s.extra[j]
            BY <2>12, <2>18, <4>2
          <5>2. s.extra[j][1] = extra[j][1]
            BY <1>0 DEF Sound
          <5> QED
            BY <2>14, <5>1, <5>2
        <4> QED
          BY <4>1, <4>2
      <3> QED
        BY <1>0, <1>1, <2>12, <2>14, <2>18, <3>1 DEF Sound
    <2>16. \A j \in 1..i : r.extra[j][2] > 9
      <3>1. ASSUME NEW j \in 1..i PROVE r.extra[j][2] > 9
        <4>1. j \in 1..Len(extra)
          BY <1>2
        <4>2. CASE j = i
          <5>1. r.extra[j] = <<extra[i][1], n>>
            BY <2>12, <2>18, <4>1, <4>2
          <5>2. r.extra[j][2] = n
            BY <5>1
          <5> QED
            BY <2>14, <5>2
        <4>3. CASE j # i
          <5>1. r.extra[j] = s.extra[j]
            BY <2>12, <2>18, <4>1, <4>3
          <5> QED
            BY <1>0, <1>3, <4>3, <5>1
        <4> QED
          BY <4>2, <4>3
      <3> QED
        BY <3>1
    <2> QED
      BY <1>0, <2>12, <2>15, <2>16, <2>17 DEF MadeWay
  <1> QED
    BY <1>4, <1>5

\* g goes through extra_fds from the child a.
Walks(g, N, a) == g = [n \in 0..N |-> IF n = 0 THEN a ELSE RelocateExtra(g[n - 1], n)]

\* The loop over extra_fds, which has two members at most, has a result.
LEMMA WalkExists ==
    ASSUME NEW a, NEW N \in 0..2
    PROVE  \E g : Walks(g, N, a)
  <1> DEFINE b == RelocateExtra(a, 1)
             c == RelocateExtra(b, 2)
             g == [n \in 0..N |-> IF n = 0 THEN a ELSE IF n = 1 THEN b ELSE c]
  <1>1. ASSUME NEW n \in 0..N
        PROVE  g[n] = IF n = 0 THEN a ELSE RelocateExtra(g[n - 1], n)
    <2>1. CASE n = 0
      BY <2>1
    <2>2. CASE n = 1
      <3>1. g[n] = b /\ g[n - 1] = a
        BY <2>2
      <3> QED
        BY <2>2, <3>1
    <2>3. CASE n = 2
      <3>1. g[n] = c /\ g[n - 1] = b
        BY <2>3
      <3> QED
        BY <2>3, <3>1
    <2> QED
      BY <2>1, <2>2, <2>3
  <1>2. g = [n \in 0..N |-> IF n = 0 THEN a ELSE RelocateExtra(g[n - 1], n)]
    BY <1>1
  <1> HIDE DEF g
  <1> QED
    BY <1>2 DEF Walks

\* All sources make way, and none loses its file.
LEMMA RelocateFacts ==
    ASSUME NEW s, NEW w, NEW extra, NEW streams, Sound(s, 0, w, extra, streams)
    PROVE  \E k \in 0..4 : MadeWay(Relocate(s), k, Len(extra), w, extra, streams)
  <1> DEFINE N == Len(s.extra)
             a == RelocateProgram(RelocatePipe(s))
             g == CHOOSE g : g = [n \in 0..N |-> IF n = 0 THEN a ELSE RelocateExtra(g[n - 1], n)]
  <1>1. N = Len(extra) /\ N \in 0..2
    BY DEF Sound
  <1>2. \E f : Walks(f, N, a)
    BY <1>1, WalkExists
  <1>3. g = [n \in 0..N |-> IF n = 0 THEN a ELSE RelocateExtra(g[n - 1], n)]
    BY <1>2 DEF Walks
  <1>4. Relocate(s) = g[N]
    BY DEF Relocate
  <1>5. MadeWay(a, 2, 0, w, extra, streams)
    <2>1. MadeWay(RelocatePipe(s), 1, 0, w, extra, streams)
      BY PipeMoves
    <2> QED
      BY <2>1, ProgramMoves
  <1> HIDE DEF g, a
  <1>6. g[0] = a /\ \A n \in 1..N : g[n] = RelocateExtra(g[n - 1], n)
    BY <1>1, <1>3
  <1>7. CASE N = 0
    BY <1>1, <1>4, <1>5, <1>6, <1>7
  <1>8. ASSUME N # 0 PROVE MadeWay(g[1], 3, 1, w, extra, streams)
    <2>1. PICK i \in 1..Len(extra), k \in 2..3 : i = 1 /\ k = 2
      BY <1>1, <1>8
    <2>2. MadeWay(a, k, i - 1, w, extra, streams)
      BY <1>5, <2>1
    <2>3. MadeWay(RelocateExtra(a, i), k + 1, i, w, extra, streams)
      BY <2>2, ExtraMoves
    <2>4. g[1] = RelocateExtra(a, 1)
      BY <1>1, <1>6, <2>1
    <2> QED
      BY <2>1, <2>3, <2>4
  <1>9. CASE N = 1
    BY <1>1, <1>4, <1>8, <1>9
  <1>10. CASE N = 2
    <2>1. PICK i \in 1..Len(extra), k \in 2..3 : i = 2 /\ k = 3
      BY <1>1, <1>10
    <2>2. MadeWay(g[1], k, i - 1, w, extra, streams)
      BY <1>8, <1>10, <2>1
    <2>3. MadeWay(RelocateExtra(g[1], i), k + 1, i, w, extra, streams)
      BY <2>2, ExtraMoves
    <2>4. g[2] = RelocateExtra(g[1], 2)
      BY <1>1, <1>6, <2>1
    <2> QED
      BY <1>1, <1>4, <1>10, <2>1, <2>3, <2>4
  <1> QED
    BY <1>1, <1>7, <1>9, <1>10

\* What extra_fds asks for at d.
Asked(extra, d) ==
    IF \E e \in Range(extra) : e[1] = d THEN (CHOOSE e \in Range(extra) : e[1] = d)[2] ELSE Closed

\* A destination is given once.
GivenOnce(extra) ==
    \A i, j \in 1..Len(extra) : extra[i][1] = extra[j][1] => i = j

\* The source of a destination is the number its file has been moved to.
LEMMA SourceFacts ==
    ASSUME NEW s, NEW k, NEW w, NEW extra \in Seq(Int \X Int), NEW streams,
           MadeWay(s, k, Len(extra), w, extra, streams), GivenOnce(extra), NEW d \in 3..9
    PROVE  /\ (\A e \in Range(s.extra) : e[1] # d) => Asked(extra, d) = Closed
           /\ (\E e \in Range(s.extra) : e[1] = d) =>
                 SourceOf(s, d) > 9 /\ Holds(s, SourceOf(s, d), Asked(extra, d))
  <1> DEFINE N == Len(extra)
  <1>1. s \in ChildState /\ Len(s.extra) = N /\ N \in 0..2
    BY DEF MadeWay, Sound
  <1>2. s.extra \in Seq(Int \X Int)
    BY <1>1, Fields
  <1>3. \A i \in 1..N : /\ s.extra[i][1] = extra[i][1] /\ s.extra[i][2] > 9
                        /\ Holds(s, s.extra[i][2], extra[i][2])
    BY DEF MadeWay, Sound
  <1>4. \A e : e \in Range(extra) <=> \E i \in 1..N : e = extra[i]
    BY DEF Range
  <1>5. \A e : e \in Range(s.extra) <=> \E i \in 1..N : e = s.extra[i]
    BY <1>1, <1>2 DEF Range
  <1>6. ASSUME \A e \in Range(s.extra) : e[1] # d PROVE Asked(extra, d) = Closed
    <2>1. ASSUME NEW i \in 1..N PROVE extra[i][1] # d
      <3>1. s.extra[i] \in Range(s.extra)
        BY <1>5
      <3> QED
        BY <1>3, <1>6, <3>1
    <2>2. ~\E e \in Range(extra) : e[1] = d
      BY <1>4, <2>1
    <2> QED
      BY <2>2 DEF Asked
  <1>7. ASSUME NEW e1 \in Range(s.extra), e1[1] = d
        PROVE  SourceOf(s, d) > 9 /\ Holds(s, SourceOf(s, d), Asked(extra, d))
    <2>1. PICK c : c = CHOOSE e \in Range(s.extra) : e[1] = d
      OBVIOUS
    <2>2. c \in Range(s.extra) /\ c[1] = d
      BY <1>7, <2>1
    <2>3. PICK i \in 1..N : c = s.extra[i]
      BY <1>5, <2>2
    <2>4. PICK c2 : c2 = CHOOSE e \in Range(extra) : e[1] = d
      OBVIOUS
    <2>5. extra[i] \in Range(extra) /\ extra[i][1] = d
      BY <1>3, <1>4, <2>2, <2>3
    <2>6. c2 \in Range(extra) /\ c2[1] = d
      BY <2>4, <2>5
    <2>7. PICK j \in 1..N : c2 = extra[j]
      BY <1>4, <2>6
    <2>8. i = j
      BY <2>5, <2>6, <2>7 DEF GivenOnce
    <2>9. Asked(extra, d) = c2[2]
      BY <2>4, <2>5 DEF Asked
    <2>10. SourceOf(s, d) = c[2]
      BY <2>1 DEF SourceOf
    <2> QED
      BY <1>3, <2>3, <2>7, <2>8, <2>9, <2>10
  <1> QED
    BY <1>6, <1>7

\* The loop over [3, 10), as an equation for the table f it leaves.
PlacesAll(s, f) ==
    f = [d \in Numbers |->
            IF d \notin 3..9 THEN s.table[d]
            ELSE IF \A e \in Range(s.extra) : e[1] # d THEN Closed
            ELSE IF SourceOf(s, d) \in 3..(d - 1) THEN f[SourceOf(s, d)]
            ELSE s.table[SourceOf(s, d)]]

\* Every destination gets the file that was asked for, since no source is overwritten
\* by a destination before it.
LEMMA PlaceFacts ==
    ASSUME NEW s, NEW k, NEW w, NEW extra \in Seq(Int \X Int), NEW streams,
           MadeWay(s, k, Len(extra), w, extra, streams), GivenOnce(extra)
    PROVE  /\ Place(s) \in ChildState /\ Place(s).pipe = s.pipe /\ Place(s).program = s.program
           /\ \A d \in Numbers :
                 Place(s).table[d] = IF d \in 3..9 THEN Asked(extra, d) ELSE s.table[d]
  <1> DEFINE h == [d \in Numbers |-> IF d \in 3..9 THEN Asked(extra, d) ELSE s.table[d]]
             f == CHOOSE f : f = [d \in Numbers |->
                    IF d \notin 3..9 THEN s.table[d]
                    ELSE IF \A e \in Range(s.extra) : e[1] # d THEN Closed
                    ELSE IF SourceOf(s, d) \in 3..(d - 1) THEN f[SourceOf(s, d)]
                    ELSE s.table[SourceOf(s, d)]]
  <1>1. s \in ChildState
    BY DEF MadeWay, Sound
  <1>2. ASSUME NEW d \in 3..9
        PROVE  /\ (\A e \in Range(s.extra) : e[1] # d) => Asked(extra, d) = Closed
               /\ (\E e \in Range(s.extra) : e[1] = d) =>
                     /\ SourceOf(s, d) \notin 3..(d - 1) /\ SourceOf(s, d) \in Numbers
                     /\ s.table[SourceOf(s, d)] = Asked(extra, d)
    <2>1. /\ (\A e \in Range(s.extra) : e[1] # d) => Asked(extra, d) = Closed
          /\ (\E e \in Range(s.extra) : e[1] = d) =>
                SourceOf(s, d) > 9 /\ Holds(s, SourceOf(s, d), Asked(extra, d))
      BY SourceFacts
    <2>2. ASSUME NEW n \in Numbers, n > 9 PROVE n \notin 3..(d - 1)
      BY <2>2 DEF Numbers
    <2> QED
      BY <2>1, <2>2 DEF Holds
  <1>3. ASSUME NEW g, NEW d \in Numbers
        PROVE  h[d] = IF d \notin 3..9 THEN s.table[d]
                      ELSE IF \A e \in Range(s.extra) : e[1] # d THEN Closed
                      ELSE IF SourceOf(s, d) \in 3..(d - 1) THEN g[SourceOf(s, d)]
                      ELSE s.table[SourceOf(s, d)]
    <2>1. CASE d \notin 3..9
      BY <2>1
    <2>2. CASE d \in 3..9
      <3>1. h[d] = Asked(extra, d)
        BY <2>2
      <3> QED
        BY <1>2, <2>2, <3>1
    <2> QED
      BY <2>1, <2>2
  <1>4. ASSUME NEW g, PlacesAll(s, g) PROVE g = h
    <2>1. \A d \in Numbers : g[d] = h[d]
      BY <1>3, <1>4 DEF PlacesAll
    <2>2. g = [d \in Numbers |-> g[d]]
      BY <1>4 DEF PlacesAll
    <2> QED
      BY <2>1, <2>2
  <1>5. PlacesAll(s, h)
    <2>1. \A d \in Numbers : h[d] = IF d \notin 3..9 THEN s.table[d]
                      ELSE IF \A e \in Range(s.extra) : e[1] # d THEN Closed
                      ELSE IF SourceOf(s, d) \in 3..(d - 1) THEN h[SourceOf(s, d)]
                      ELSE s.table[SourceOf(s, d)]
      BY <1>3
    <2> QED
      BY <2>1 DEF PlacesAll
  <1>6. PlacesAll(s, f)
    <2> HIDE DEF h
    <2>1. \E g : PlacesAll(s, g)
      BY <1>5
    <2> QED
      BY <2>1 DEF PlacesAll
  <1>7. Place(s) = [s EXCEPT !.table = f]
    BY DEF Place
  <1> HIDE DEF f
  <1>8. f = h
    BY <1>4, <1>6
  <1>9. ASSUME NEW d \in Numbers PROVE h[d] \in Int
    <2>1. s.table \in [Numbers -> Int]
      BY <1>1, Fields
    <2>2. CASE d \in 3..9
      <3>1. h[d] = Asked(extra, d)
        BY <2>2
      <3>2. Closed \in Int
        BY DEF Closed
      <3> QED
        BY <1>2, <2>1, <2>2, <3>1, <3>2
    <2> QED
      BY <2>1, <2>2
  <1>10. h \in [Numbers -> Int]
    BY <1>9
  <1>11. \A d \in Numbers : h[d] = IF d \in 3..9 THEN Asked(extra, d) ELSE s.table[d]
    OBVIOUS
  <1> HIDE DEF h
  <1> QED
    BY <1>1, <1>7, <1>8, <1>10, <1>11, SetTable

\* dup2() changes one number of the table.
LEMMA DupFacts ==
    ASSUME NEW r \in ChildState, NEW src \in Numbers, NEW n \in Numbers
    PROVE  /\ Dup2(r, src, n) \in ChildState
           /\ \A d \in Numbers : Dup2(r, src, n).table[d] = IF d = n THEN r.table[src] ELSE r.table[d]
  <1>1. PICK t : t = [r.table EXCEPT ![n] = r.table[src]]
    OBVIOUS
  <1>2. Dup2(r, src, n) = [r EXCEPT !.table = t]
    BY <1>1 DEF Dup2
  <1>3. r.table \in [Numbers -> Int]
    BY Fields
  <1>4. t \in [Numbers -> Int] /\ \A d \in Numbers : t[d] = IF d = n THEN r.table[src] ELSE r.table[d]
    BY <1>1, <1>3
  <1>5. [r EXCEPT !.table = t] \in ChildState /\ [r EXCEPT !.table = t].table = t
    BY <1>4, SetTable
  <1> QED
    BY <1>2, <1>4, <1>5

\* The pipe goes to 10, where nothing but the program can come after it.
LEMMA CloseFacts ==
    ASSUME NEW s \in ChildState, s.pipe \in Numbers, s.program \in Numbers \cup {Closed}
    PROVE  LET t == CloseOnExec(s).table IN
           /\ \A d \in 0..9 : t[d] = s.table[d]
           /\ t[10] = s.table[s.pipe]
           /\ \A d \in Numbers : d > 11 => t[d] = Closed
  <1> DEFINE s10 == IF s.pipe = 10 THEN s ELSE Dup2(s, s.pipe, 10)
             s11 == IF s.program \in {Closed, 11} THEN s10 ELSE Dup2(s10, s.program, 11)
             first == IF s.program = Closed THEN 11 ELSE 12
             t2 == [d \in Numbers |-> IF d < first THEN s11.table[d] ELSE Closed]
  <1>1. /\ 10 \in Numbers /\ 11 \in Numbers /\ \A d \in 0..9 : d \in Numbers /\ d # 10 /\ d # 11
        /\ s.table \in [Numbers -> Int] /\ Closed \in Int
    <2>1. s.table \in [Numbers -> Int]
      BY Fields
    <2> QED
      BY <2>1 DEF Numbers, Closed
  <1>3. /\ s10 \in ChildState /\ s10.table[10] = s.table[s.pipe]
        /\ \A d \in Numbers : d # 10 => s10.table[d] = s.table[d]
    <2>1. CASE s.pipe = 10
      BY <2>1
    <2>2. CASE s.pipe # 10
      <3>1. PICK n \in Numbers : n = 10
        BY <1>1
      <3>2. /\ Dup2(s, s.pipe, n) \in ChildState
            /\ \A d \in Numbers : Dup2(s, s.pipe, n).table[d] = IF d = n THEN s.table[s.pipe] ELSE s.table[d]
        BY DupFacts
      <3>3. s10 = Dup2(s, s.pipe, n)
        BY <2>2, <3>1
      <3> HIDE DEF s10
      <3> QED
        BY <3>1, <3>2, <3>3
    <2> QED
      BY <2>1, <2>2
  <1> HIDE DEF s10
  <1>4. s11 \in ChildState /\ \A d \in Numbers : d # 11 => s11.table[d] = s10.table[d]
    <2>1. CASE s.program \in {Closed, 11}
      BY <1>3, <2>1
    <2>2. CASE s.program \notin {Closed, 11}
      <3>1. PICK n \in Numbers, p \in Numbers : n = 11 /\ p = s.program
        BY <1>1, <2>2
      <3>2. /\ Dup2(s10, p, n) \in ChildState
            /\ \A d \in Numbers : Dup2(s10, p, n).table[d] = IF d = n THEN s10.table[p] ELSE s10.table[d]
        BY <1>3, DupFacts
      <3>3. s11 = Dup2(s10, p, n)
        BY <2>2, <3>1
      <3> HIDE DEF s11
      <3> QED
        BY <3>1, <3>2, <3>3
    <2> QED
      BY <2>1, <2>2
  <1>5. CloseOnExec(s) = [s11 EXCEPT !.table = t2]
    BY DEF CloseOnExec, s10
  <1> HIDE DEF s11
  <1>6. s11.table \in [Numbers -> Int]
    BY <1>4, Fields
  <1>7. t2 \in [Numbers -> Int]
    BY <1>1, <1>6
  <1>8. /\ \A d \in 0..9 : t2[d] = s11.table[d]
        /\ t2[10] = s11.table[10]
        /\ \A d \in Numbers : d > 11 => t2[d] = Closed
    BY <1>1 DEF Numbers
  <1> HIDE DEF t2
  <1>9. [s11 EXCEPT !.table = t2].table = t2
    BY <1>4, <1>7, SetTable
  <1>10. t2[10] = s.table[s.pipe] /\ \A d \in 0..9 : t2[d] = s.table[d]
    BY <1>1, <1>3, <1>4, <1>8
  <1> QED
    BY <1>5, <1>8, <1>9, <1>10

\* The standard streams that were asked for.
StreamsAsked(std) == [d \in 0..2 |-> IF std[d] = Closed THEN OwnPipe ELSE std[d]]

\* What spawn() takes for extra_fds.
LEMMA ExtraFacts ==
    ASSUME NEW given, given \subseteq 3..20, NEW extra \in ExtrasOf(given)
    PROVE  /\ extra \in Seq(Int \X Int) /\ Len(extra) \in 0..2 /\ GivenOnce(extra)
           /\ \A i \in 1..Len(extra) : extra[i][2] \in given
  <1>1. \A d \in {3, 4}, src \in given : <<d, src>> \in Int \X Int
    OBVIOUS
  <1>2. CASE extra = <<>>
    BY <1>2 DEF GivenOnce
  <1>3. CASE \E d \in {3, 4}, src \in given : extra = << <<d, src>> >>
    <2>1. PICK d \in {3, 4}, src \in given : extra = << <<d, src>> >>
      BY <1>3
    <2>2. PICK p \in Int \X Int : p = <<d, src>>
      BY <1>1
    <2>3. extra = <<p>> /\ p[1] = d /\ p[2] = src
      BY <2>1, <2>2
    <2>4. extra \in Seq(Int \X Int) /\ Len(extra) = 1 /\ extra[1] = p
      BY <2>3
    <2>5. \A i \in 1..Len(extra) : i = 1
      BY <2>4
    <2> QED
      BY <2>3, <2>4, <2>5 DEF GivenOnce
  <1>4. CASE \E src \in given, src2 \in given : extra = << <<3, src>>, <<4, src2>> >>
    <2>1. PICK src \in given, src2 \in given : extra = << <<3, src>>, <<4, src2>> >>
      BY <1>4
    <2>2. PICK p \in Int \X Int, p2 \in Int \X Int : p = <<3, src>> /\ p2 = <<4, src2>>
      BY <1>1
    <2>3. extra = <<p, p2>> /\ p[1] = 3 /\ p[2] = src /\ p2[1] = 4 /\ p2[2] = src2
      BY <2>1, <2>2
    <2>4. extra \in Seq(Int \X Int) /\ Len(extra) = 2 /\ extra[1] = p /\ extra[2] = p2
      BY <2>3
    <2>5. \A i \in 1..Len(extra) : i = 1 \/ i = 2
      BY <2>4
    <2> QED
      BY <2>3, <2>4, <2>5 DEF GivenOnce
  <1> QED
    BY <1>2, <1>3, <1>4 DEF ExtrasOf

\* The child begins with what it inherits and its standard streams.
LEMMA Begins ==
    ASSUME NEW open, NEW given, given \subseteq open, given \subseteq 3..20, NEW w \in 3..20,
           NEW program \in {Closed} \cup given, NEW extra \in ExtrasOf(given),
           NEW std \in StreamsOf(given)
    PROVE  Sound(Stdio(Inherit(open, w, program, extra), std), 0, w, extra, StreamsAsked(std))
  <1> DEFINE s == Inherit(open, w, program, extra)
             t == [d \in Numbers |-> IF d \in open \cup {0, 1, 2, w} THEN d ELSE Closed]
             t2 == [d \in Numbers |->
                       IF d > 2 THEN t[d] ELSE IF std[d] = Closed THEN OwnPipe ELSE t[std[d]]]
  <1>1. /\ extra \in Seq(Int \X Int) /\ Len(extra) \in 0..2
        /\ \A i \in 1..Len(extra) : extra[i][2] \in given
    BY ExtraFacts
  <1>2. \A x \in given \cup {w} : x \in Numbers /\ x > 2 /\ x # Closed
    BY DEF Numbers, Closed
  <1>3. \A x \in given \cup {w} : t[x] = x
    BY <1>2
  <1>4. 0 \in Numbers /\ 1 \in Numbers /\ 2 \in Numbers /\ t[0] = 0 /\ t[1] = 1 /\ t[2] = 2
    BY DEF Numbers
  <1>5. t \in [Numbers -> Int]
    BY DEF Numbers, Closed
  <1>6. Closed \in Int /\ OwnPipe \in Int /\ Closed \notin 0..2
    BY DEF Closed, OwnPipe
  <1>7. ASSUME NEW d \in 0..2
        PROVE  \/ std[d] = Closed
               \/ std[d] = d /\ d \in Numbers /\ t[d] = d
               \/ std[d] \in given
    <2>1. CASE std = [x \in 0..2 |-> Closed]
      BY <2>1
    <2>2. CASE std = [x \in 0..2 |-> x]
      <3>1. std[d] = d
        BY <2>2
      <3>2. d = 0 \/ d = 1 \/ d = 2
        OBVIOUS
      <3> QED
        BY <1>4, <3>1, <3>2
    <2>3. CASE \E src \in given : std = [x \in 0..2 |-> src]
      BY <2>3
    <2> QED
      BY <2>1, <2>2, <2>3 DEF StreamsOf
  <1>8. s = [table |-> t, pipe |-> w, program |-> program, extra |-> extra, idx |-> 10]
    BY DEF Inherit
  <1> HIDE DEF t
  <1>9. \A d \in 0..2 : d \in Numbers /\ ~(d > 2)
    BY DEF Numbers
  <1>10. \A d \in 0..2 : t2[d] = StreamsAsked(std)[d]
    <2>1. ASSUME NEW d \in 0..2 PROVE t2[d] = IF std[d] = Closed THEN OwnPipe ELSE std[d]
      <3>1. t2[d] = IF std[d] = Closed THEN OwnPipe ELSE t[std[d]]
        BY <1>9
      <3> QED
        BY <1>3, <1>7, <3>1
    <2>2. \A d \in 0..2 : StreamsAsked(std)[d] = IF std[d] = Closed THEN OwnPipe ELSE std[d]
      BY DEF StreamsAsked
    <2> HIDE DEF t2
    <2> QED
      BY <2>1, <2>2
  <1>11. \A x \in given \cup {w} : t2[x] = x
    BY <1>2, <1>3
  <1>12. t2 \in [Numbers -> Int]
    <2>1. ASSUME NEW d \in Numbers PROVE t2[d] \in Int
      <3>1. CASE d > 2
        BY <1>5, <3>1
      <3>2. CASE ~(d > 2)
        <4>1. d \in 0..2
          BY <3>2 DEF Numbers
        <4>2. std[d] = Closed \/ std[d] \in Numbers
          BY <1>2, <1>7, <4>1
        <4> QED
          BY <1>5, <1>6, <3>2, <4>2
      <3> QED
        BY <3>1, <3>2
    <2> QED
      BY <2>1
  <1>13. Stdio(s, std) = [s EXCEPT !.table = t2]
    <2>1. s.table = t
      BY <1>8
    <2> HIDE DEF s
    <2> QED
      BY <2>1 DEF Stdio
  <1>14. s \in ChildState /\ s.pipe = w /\ s.program = program /\ s.extra = extra /\ s.idx = 10
    <2>1. program \in Int /\ w \in Int
      BY <1>2, <1>6 DEF Numbers
    <2> QED
      BY <1>1, <1>5, <1>8, <2>1 DEF ChildState
  <1> HIDE DEF s, t2
  <1>15. PICK r : r = Stdio(s, std)
    OBVIOUS
  <1>16. /\ r \in ChildState /\ r.table = t2 /\ r.pipe = w /\ r.program = program
         /\ r.extra = extra /\ r.idx = 10
    BY <1>12, <1>13, <1>14, <1>15, SetTable
  <1>17. r.idx \in 10..(10 + 5 * 0)
    BY <1>16
  <1>18. program \in Numbers \cup {Closed}
    BY <1>2
  <1>19. /\ Holds(r, w, w) /\ \A i \in 1..Len(extra) : Holds(r, extra[i][2], extra[i][2])
    BY <1>1, <1>2, <1>11, <1>16 DEF Holds
  <1>20. \A d \in 0..2 : r.table[d] = StreamsAsked(std)[d]
    BY <1>10, <1>16
  <1>21. Sound(r, 0, w, extra, StreamsAsked(std))
    BY <1>1, <1>16, <1>17, <1>18, <1>19, <1>20 DEF Sound
  <1> QED
    BY <1>15, <1>21 DEF s

\* The table that was asked for.
TableAsked(t, w, extra, streams) ==
    /\ \A d \in 0..2 : t[d] = streams[d]
    /\ \A d \in 3..9 : t[d] = Asked(extra, d)
    /\ t[10] = w
    /\ \A d \in Numbers : d > 11 => t[d] = Closed

\* system_spawn_child_main() as a whole leaves it.
LEMMA ChildTable ==
    ASSUME NEW s, NEW w, NEW extra \in Seq(Int \X Int), NEW streams,
           Sound(s, 0, w, extra, streams), GivenOnce(extra)
    PROVE  TableAsked(CloseOnExec(Place(Relocate(s))).table, w, extra, streams)
  <1>1. PICK r : r = Relocate(s)
    OBVIOUS
  <1>2. PICK k \in 0..4 : MadeWay(r, k, Len(extra), w, extra, streams)
    BY <1>1, RelocateFacts
  <1>3. PICK p : p = Place(r)
    OBVIOUS
  <1>4. /\ p \in ChildState /\ p.pipe = r.pipe /\ p.program = r.program
        /\ \A d \in Numbers : p.table[d] = IF d \in 3..9 THEN Asked(extra, d) ELSE r.table[d]
    BY <1>2, <1>3, PlaceFacts
  <1>5. /\ r.pipe \in Numbers /\ r.pipe > 9 /\ r.table[r.pipe] = w
        /\ r.program \in Numbers \cup {Closed} /\ \A d \in 0..2 : r.table[d] = streams[d]
    BY <1>2 DEF MadeWay, Sound, Holds
  <1>6. r.pipe \notin 3..9
    BY <1>5 DEF Numbers
  <1>7. \A d \in 0..2 : d \in Numbers /\ d \notin 3..9 /\ d \in 0..9
    BY DEF Numbers
  <1>8. \A d \in 3..9 : d \in Numbers /\ d \in 0..9
    BY DEF Numbers
  <1>9. p.table[p.pipe] = w /\ p.pipe \in Numbers /\ p.program \in Numbers \cup {Closed}
    BY <1>4, <1>5, <1>6
  <1>10. PICK t : t = CloseOnExec(p).table
    OBVIOUS
  <1>11. /\ \A d \in 0..9 : t[d] = p.table[d]
         /\ t[10] = p.table[p.pipe]
         /\ \A d \in Numbers : d > 11 => t[d] = Closed
    BY <1>4, <1>9, <1>10, CloseFacts
  <1>12. \A d \in 0..2 : t[d] = streams[d]
    BY <1>4, <1>5, <1>7, <1>11
  <1>13. \A d \in 3..9 : t[d] = Asked(extra, d)
    BY <1>4, <1>8, <1>11
  <1> QED
    BY <1>1, <1>3, <1>9, <1>10, <1>11, <1>12, <1>13 DEF TableAsked

\* At every moment at which a program may be spawned.
LEMMA ChildrenGetTheirs == Inv => ChildGetsItsDescriptors
  <1> SUFFICES ASSUME Inv, NEW w \in PipeFd \ openFd, NEW program \in {Closed} \cup Given,
                      NEW extra \in ExtrasOf(Given), NEW std \in StreamsOf(Given)
               PROVE  LET t == Child(w, program, extra, std).table IN
                      /\ \A d \in 0..2 : t[d] = IF std[d] = Closed THEN OwnPipe ELSE std[d]
                      /\ \A d \in 3..9 : t[d] = IF \E e \in Range(extra) : e[1] = d
                                              THEN (CHOOSE e \in Range(extra) : e[1] = d)[2]
                                              ELSE Closed
                      /\ t[10] = w
                      /\ \A d \in Numbers : d > 11 => t[d] = Closed
    BY Zenon DEF ChildGetsItsDescriptors
  <1>1. Given \subseteq openFd /\ Given \subseteq 3..20 /\ w \in 3..20
    <2>1. ASSUME NEW h \in Handle, handle[h] \in Fd PROVE handle[h] \in openFd
      <3>1. handle[h] \in FdsOf(handle, Handle)
        BY <2>1 DEF FdsOf
      <3> QED
        BY <3>1 DEF Inv, FdInv, OpenIsOwnedOnce, SharedOut
    <2> QED
      BY <2>1, SpawnAssumption DEF Given
  <1>2. PICK given, open : given = Given /\ open = openFd
    OBVIOUS
  <1>3. extra \in Seq(Int \X Int) /\ GivenOnce(extra)
    BY <1>1, <1>2, ExtraFacts
  <1>4. PICK s : s = Stdio(Inherit(open, w, program, extra), std)
    OBVIOUS
  <1>5. Sound(s, 0, w, extra, StreamsAsked(std))
    BY <1>1, <1>2, <1>4, Begins
  <1>6. PICK t : t = CloseOnExec(Place(Relocate(s))).table
    OBVIOUS
  <1>7. Child(w, program, extra, std).table = t
    BY <1>2, <1>4, <1>6 DEF Child, system_spawn_child_main
  <1>8. /\ \A d \in 0..2 : t[d] = StreamsAsked(std)[d]
        /\ \A d \in 3..9 : t[d] = Asked(extra, d)
        /\ t[10] = w
        /\ \A d \in Numbers : d > 11 => t[d] = Closed
    <2>1. PICK streams : streams = StreamsAsked(std)
      OBVIOUS
    <2>2. Sound(s, 0, w, extra, streams)
      BY <1>5, <2>1
    <2>3. TableAsked(t, w, extra, streams)
      BY <1>3, <1>6, <2>2, ChildTable
    <2> QED
      BY <2>1, <2>3 DEF TableAsked
  <1>9. \A d \in 0..2 : StreamsAsked(std)[d] = IF std[d] = Closed THEN OwnPipe ELSE std[d]
    BY DEF StreamsAsked
  <1> QED
    BY <1>7, <1>8, <1>9 DEF Asked

\* A child that spawn() starts has at 3..9 exactly what extra_fds asks for, its standard
\* streams, the pipe at 10 and nothing above 11, whatever descriptors the parent has open
\* and whichever of them it gives: no dup2() overwrites what is still to be copied.
THEOREM ChildGetsWhatItIsGiven == Spec => []ChildGetsItsDescriptors
  <1>1. Inv => ChildGetsItsDescriptors
    BY ChildrenGetTheirs
  <1> QED
    BY <1>1, Invariance, PTL

=============================================================================
