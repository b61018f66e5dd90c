-------------------------------- MODULE Tls ---------------------------------
(***************************************************************************)
(* TLS sockets (tls.cpp).  A TLS socket takes the descriptor of a TCP      *)
(* socket, which is no socket any more.                                    *)
(*                                                                         *)
(* Its operations are composed: Asio's TLS engine asks for reads and       *)
(* writes of the TCP socket until it has what the caller wants, one of     *)
(* each at a time, and every one of them ends in a handler on the strand   *)
(* that may start the next.  An interrupter cancels what is on the TCP     *)
(* socket at that moment; the operation itself has no cancellation slot.   *)
(***************************************************************************)
EXTENDS Io

\* The operations that other fibers have on the TCP socket go on, now on the TLS
\* socket's descriptor; their cancellation slot still names the old socket.
Moved(o, p) ==
    [f \in Fiber |-> IF f \in OpsOn(o)
                     THEN [op[f] EXCEPT !.obj = p, !.slot = FALSE] ELSE op[f]]

tls_socket_new(f, p, o) ==
    \/ Running(f) /\ Raise(f)
    \/ /\ Method(f, o, "tcp_socket")
       /\ kind[p] = "tls_socket" /\ ~live[p]
       /\ live' = [live EXCEPT ![o] = FALSE, ![p] = TRUE]
       /\ native' = [native EXCEPT ![o] = Nil, ![p] = native[o]]
       /\ nbusy' = [nbusy EXCEPT ![o] = 0]
       /\ op' = Moved(o, p)
       /\ Return(f, "none")
       /\ UNCHANGED <<strand, valid, fiberData, names, fdVars>>

-----------------------------------------------------------------------------
(* asio::ssl: the operations of a stream.                                    *)

\* The timer of the direction an operation is in.
Timer(io) ==
    CASE io \in {"tls_read", "pending_read"} -> "pending_read"
      [] io \in {"tls_write", "pending_write"} -> "pending_write"
      [] OTHER -> "none"

\* What the engine may ask for, and how it ends when it ends at once: a read or a
\* write, or to wait for the one another fiber's operation has in progress.  (That
\* one is no obstacle when a waiter that was let go has reset the timer since.)
\* The timer in reset was reset just now.
NextLayer(o, reset) ==
    {<<s, Outlook(o)>> : s \in TlsStep}
    \cup {<<t, Nil>> : t \in {Timer(op[g].io) : g \in {g \in OpsOn(o) : op[g].io \in TlsStep}} \ {reset}}

\* The operation starts: it goes to the TCP socket, or needs nothing from it.
Composed(f, o) ==
    \/ Refused(f)
    \/ /\ CanSuspend(f)
       /\ \E s \in NextLayer(o, "none") \cup {<<"tls_done", "none">>} :
             Initiate(f, o, s[1], "object", {}, s[2])
       /\ UNCHANGED <<native, fdVars>>

\* Those that wait on the timer of f's direction are let go.
Released(f) ==
    [g \in Fiber |-> IF g \in OpsOn(op[f].obj) /\ Pending(g) /\ op[g].io = Timer(op[f].io)
                     THEN [op[g] EXCEPT !.ec = "none"] ELSE op[g]]

\* f's operation goes on with <<io, ec>>.
Again(f, s) ==
    /\ op' = [Released(f) EXCEPT ![f] = [op[f] EXCEPT !.io = s[1], !.ec = s[2]]]
    /\ UNCHANGED <<coreVars, fiberData, ret>>

\* f's operation is over, with ec.
Over(f, ec) ==
    /\ op' = [Released(f) EXCEPT ![f] = Nil]
    /\ FiberResume(f, TRUE, Detect(f, ec))
    /\ UNCHANGED <<strand, valid, counters, interrupted>>

\* The handler of a read, a write or a wait: an error ends the operation, otherwise
\* the engine is asked what is next.  It does not look at vm_context::valid(): when
\* the VM is closed its stream has been freed, and what it reads there may be the
\* end of the operation or more to do.
io_op(f) ==
    /\ Completed(f) /\ op[f].io \in TlsIo
    /\ IF valid[VmOf[f]]
       THEN \/ \E ec \in {op[f].ec} \cup (IF op[f].ec = "none" THEN {"error"} ELSE {}) : Over(f, ec)
            \/ /\ op[f].ec = "none" /\ op[f].io # "tls_done"
               /\ \E s \in NextLayer(op[f].obj, Timer(op[f].io)) : Again(f, s)
       ELSE Dropped(f) \/ \E io \in TlsStep : Again(f, <<io, Nil>>)
    /\ UNCHANGED <<objVars, fdVars>>

-----------------------------------------------------------------------------
(* tls.socket                                                                *)

socket_handshake(f, o) == Method(f, o, "tls_socket") /\ Composed(f, o)
tls_socket_read_some(f, o) == Method(f, o, "tls_socket") /\ Composed(f, o)
tls_socket_write_some(f, o) == Method(f, o, "tls_socket") /\ Composed(f, o)

\* Settings of the TLS layer.
tls_socket_set_server_name(f, o) == Method(f, o, "tls_socket") /\ (Raise(f) \/ Answer(f, "none"))
tls_socket_set_verify_callback(f, o) == Method(f, o, "tls_socket") /\ (Raise(f) \/ Answer(f, "none"))
tls_socket_set_verify_depth(f, o) == Method(f, o, "tls_socket") /\ (Raise(f) \/ Answer(f, "none"))
tls_socket_set_verify_mode(f, o) == Method(f, o, "tls_socket") /\ (Raise(f) \/ Answer(f, "none"))

tls_socket_mt_index(f, o) ==
    /\ Method(f, o, "tls_socket")
    /\ \/ socket_handshake(f, o)
       \/ tls_socket_read_some(f, o)
       \/ tls_socket_write_some(f, o)
       \/ tls_socket_set_server_name(f, o)
       \/ tls_socket_set_verify_callback(f, o)
       \/ tls_socket_set_verify_depth(f, o)
       \/ tls_socket_set_verify_mode(f, o)

\* The calls on an object of the table tls.
TlsCall(f, o) ==
    \/ \E q \in Obj : tls_socket_new(f, o, q)
    \/ tls_socket_mt_index(f, o)

=============================================================================
