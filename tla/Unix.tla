-------------------------------- MODULE Unix --------------------------------
(***************************************************************************)
(* UNIX domain sockets (unix.cpp): datagram, stream and seqpacket sockets, *)
(* their acceptors, and the messages that carry descriptors.               *)
(*                                                                         *)
(* The *_with_fds() operations wait until the socket is ready and then do  *)
(* the system call in the handler, which may find it not ready after all   *)
(* and wait again.  While a message is being sent its handles are busy:    *)
(* their descriptors are in the operation's lock, a set of <<handle, fd>>. *)
(***************************************************************************)
EXTENDS Io, FiniteSetsExt

-----------------------------------------------------------------------------
(* Descriptors in messages.                                                  *)

\* do_wait(): the operation waits for its socket (again).
DoWait(f) ==
    /\ op' = [op EXCEPT ![f].ec = IF native[op[f].obj] = Nil THEN "error" ELSE Nil]
    /\ UNCHANGED <<coreVars, fiberData, ret, objVars, fdVars>>

\* A message arrives with n descriptors: at most maxfds of them become handles,
\* the rest are closed at once.
Received(f, n) ==
    LET kept == IF n < Maxfds THEN n ELSE Maxfds IN
    /\ ResumeWith(f, "none")
    /\ \E hs \in kSubset(kept, NewHandles) :
          \E m \in [hs -> Fd \ openFd] :
             LET fds == {m[h] : h \in hs} IN
             /\ \A g, h \in hs : g # h => m[g] # m[h]
             /\ \A d \in fds : \A e \in (Fd \ openFd) \ fds : d < e
             /\ handle' = [h \in Handle |-> IF h \in hs THEN m[h] ELSE handle[h]]
             /\ openFd' = openFd \cup fds
    /\ UNCHANGED <<names, live, native, lost>>

\* receive_with_fds_op::on_wait(): the wait failed, recvmsg() failed or found
\* the end of the stream, it would block, or it got a message.
receive_with_fds_op(f) ==
    /\ Completed(f) /\ op[f].io = "receive_with_fds"
    /\ IF ~valid[VmOf[f]]
       THEN Dropped(f) /\ UNCHANGED <<names, live, native, fdVars>>
       ELSE \/ /\ op[f].ec # "none"
               /\ ResumeWith(f, op[f].ec)
               /\ UNCHANGED <<names, live, native, fdVars>>
            \/ /\ op[f].ec = "none"
               /\ ResumeWith(f, "error")
               /\ UNCHANGED <<names, live, native, fdVars>>
            \/ op[f].ec = "none" /\ native[op[f].obj] # Nil /\ DoWait(f)
            \/ /\ op[f].ec = "none" /\ native[op[f].obj] # Nil
               /\ \E n \in 0..MaxSent : n <= Cardinality(Fd \ openFd) /\ Received(f, n)

Locked(f) == {l[2] : l \in op[f].lock}

\* The handles get their descriptors back.
Unlocked(f) ==
    [h \in Handle |-> IF \E d \in Fd : <<h, d>> \in op[f].lock
                      THEN CHOOSE d \in Fd : <<h, d>> \in op[f].lock
                      ELSE handle[h]]

\* Fault: the end of the VM is not looked at, or nothing is closed.
SendForgets(f) ==
    /\ Completed(f) /\ op[f].io = "send_with_fds"
    /\ IF ~valid[VmOf[f]]
       THEN Dropped(f) /\ UNCHANGED <<names, live, native, fdVars>>
       ELSE /\ ResumeWith(f, op[f].ec)
            /\ handle' = Unlocked(f)
            /\ UNCHANGED <<names, live, native, openFd, lost>>

\* send_with_fds_op::on_wait(): nobody else owns the descriptors when the VM is
\* closed; otherwise every way out but the new wait gives them back.
send_with_fds_op(f) ==
    /\ Completed(f) /\ op[f].io = "send_with_fds"
    /\ IF ~valid[VmOf[f]]
       THEN /\ Dropped(f)
            /\ openFd' = openFd \ Locked(f)
            /\ UNCHANGED <<names, live, native, handle, lost>>
       ELSE \/ op[f].ec = "none" /\ native[op[f].obj] # Nil /\ DoWait(f)
            \/ /\ \E ec \in {op[f].ec} \cup (IF op[f].ec = "none" THEN {"error"} ELSE {}) :
                     /\ ec = "none" => native[op[f].obj] # Nil
                     /\ ResumeWith(f, ec)
               /\ handle' = Unlocked(f)
               /\ UNCHANGED <<names, live, native, openFd, lost>>

\* A table of handles, none of them busy, is locked until the message is sent.  An
\* element of the table that is refused leaves the interrupter behind.
SendWithFds(f, o) ==
    \/ Refused(f)
    \/ /\ CanSuspend(f)
       /\ interrupter' = SetInterrupter(f, "emit")
       /\ Return(f, "error")
       /\ UNCHANGED <<strand, valid, counters, interrupted, ioVars>>
    \/ /\ CanSuspend(f)
       /\ \E hs \in SUBSET {h \in Handle : handle[h] \in Fd} :
             /\ Initiate(f, o, "send_with_fds", "emit", {<<h, handle[h]>> : h \in hs}, Outlook(o))
             /\ handle' = [h \in Handle |-> IF h \in hs THEN Busy ELSE handle[h]]
       /\ UNCHANGED <<native, openFd, lost>>

-----------------------------------------------------------------------------
(* unix.datagram_socket                                                      *)

unix_datagram_socket_new(f, o) == New(f, o, "unix_datagram_socket") \/ \E h \in Handle : NewFrom(f, o, "unix_datagram_socket", h)
unix_datagram_socket_pair(f, o, p) == Pair(f, o, p, "unix_datagram_socket", "unix_datagram_socket")
unix_datagram_socket_open(f, o) == Method(f, o, "unix_datagram_socket") /\ Open(f, o)
unix_datagram_socket_close(f, o) == Method(f, o, "unix_datagram_socket") /\ Close(f, o)
unix_datagram_socket_cancel(f, o) == Method(f, o, "unix_datagram_socket") /\ Cancel(f, o)
unix_datagram_socket_assign(f, o, h) == Method(f, o, "unix_datagram_socket") /\ Assign(f, o, h)
unix_datagram_socket_release(f, o, h) == Method(f, o, "unix_datagram_socket") /\ Release(f, o, h)
unix_datagram_socket_is_open(f, o) == Method(f, o, "unix_datagram_socket") /\ Answer(f, "none")
unix_datagram_socket_bind(f, o) == Method(f, o, "unix_datagram_socket") /\ Syscall(f, o)
unix_datagram_socket_shutdown(f, o) == Method(f, o, "unix_datagram_socket") /\ Syscall(f, o)
unix_datagram_socket_disconnect(f, o) == Method(f, o, "unix_datagram_socket") /\ Syscall(f, o)
unix_datagram_socket_set_option(f, o) == Method(f, o, "unix_datagram_socket") /\ Syscall(f, o)
unix_datagram_socket_get_option(f, o) == Method(f, o, "unix_datagram_socket") /\ Syscall(f, o)
unix_datagram_socket_io_control(f, o) == Method(f, o, "unix_datagram_socket") /\ Syscall(f, o)
unix_datagram_socket_local_path(f, o) == Method(f, o, "unix_datagram_socket") /\ Syscall(f, o)
unix_datagram_socket_remote_path(f, o) == Method(f, o, "unix_datagram_socket") /\ Syscall(f, o)
unix_datagram_socket_connect(f, o) == Method(f, o, "unix_datagram_socket") /\ Connect(f, o)
unix_datagram_socket_receive(f, o) == Method(f, o, "unix_datagram_socket") /\ AsyncCall(f, o)
unix_datagram_socket_receive_from(f, o) == Method(f, o, "unix_datagram_socket") /\ AsyncCall(f, o)
unix_datagram_socket_send(f, o) == Method(f, o, "unix_datagram_socket") /\ AsyncCall(f, o)
unix_datagram_socket_send_to(f, o) == Method(f, o, "unix_datagram_socket") /\ AsyncCall(f, o)
unix_datagram_socket_receive_with_fds(f, o) == Method(f, o, "unix_datagram_socket") /\ Async(f, o, "receive_with_fds", "emit")
unix_datagram_socket_receive_from_with_fds(f, o) == Method(f, o, "unix_datagram_socket") /\ Async(f, o, "receive_with_fds", "emit")
unix_datagram_socket_send_with_fds(f, o) == Method(f, o, "unix_datagram_socket") /\ SendWithFds(f, o)
unix_datagram_socket_send_to_with_fds(f, o) == Method(f, o, "unix_datagram_socket") /\ SendWithFds(f, o)

unix_datagram_socket_mt_index(f, o) ==
    /\ Method(f, o, "unix_datagram_socket")
    /\ \/ unix_datagram_socket_open(f, o)
       \/ unix_datagram_socket_close(f, o)
       \/ unix_datagram_socket_cancel(f, o)
       \/ unix_datagram_socket_is_open(f, o)
       \/ unix_datagram_socket_bind(f, o)
       \/ unix_datagram_socket_shutdown(f, o)
       \/ unix_datagram_socket_disconnect(f, o)
       \/ unix_datagram_socket_set_option(f, o)
       \/ unix_datagram_socket_get_option(f, o)
       \/ unix_datagram_socket_io_control(f, o)
       \/ unix_datagram_socket_local_path(f, o)
       \/ unix_datagram_socket_remote_path(f, o)
       \/ unix_datagram_socket_connect(f, o)
       \/ unix_datagram_socket_receive(f, o)
       \/ unix_datagram_socket_receive_from(f, o)
       \/ unix_datagram_socket_send(f, o)
       \/ unix_datagram_socket_send_to(f, o)
       \/ unix_datagram_socket_receive_with_fds(f, o)
       \/ unix_datagram_socket_receive_from_with_fds(f, o)
       \/ unix_datagram_socket_send_with_fds(f, o)
       \/ unix_datagram_socket_send_to_with_fds(f, o)
       \/ \E h \in Handle : unix_datagram_socket_assign(f, o, h) \/ unix_datagram_socket_release(f, o, h)

-----------------------------------------------------------------------------
(* unix.stream_socket                                                        *)

unix_stream_socket_new(f, o) == New(f, o, "unix_stream_socket") \/ \E h \in Handle : NewFrom(f, o, "unix_stream_socket", h)
unix_stream_socket_pair(f, o, p) == Pair(f, o, p, "unix_stream_socket", "unix_stream_socket")
unix_stream_socket_open(f, o) == Method(f, o, "unix_stream_socket") /\ Open(f, o)
unix_stream_socket_close(f, o) == Method(f, o, "unix_stream_socket") /\ Close(f, o)
unix_stream_socket_cancel(f, o) == Method(f, o, "unix_stream_socket") /\ Cancel(f, o)
unix_stream_socket_assign(f, o, h) == Method(f, o, "unix_stream_socket") /\ Assign(f, o, h)
unix_stream_socket_release(f, o, h) == Method(f, o, "unix_stream_socket") /\ Release(f, o, h)
unix_stream_socket_is_open(f, o) == Method(f, o, "unix_stream_socket") /\ Answer(f, "none")
unix_stream_socket_bind(f, o) == Method(f, o, "unix_stream_socket") /\ Syscall(f, o)
unix_stream_socket_shutdown(f, o) == Method(f, o, "unix_stream_socket") /\ Syscall(f, o)
unix_stream_socket_disconnect(f, o) == Method(f, o, "unix_stream_socket") /\ Syscall(f, o)
unix_stream_socket_set_option(f, o) == Method(f, o, "unix_stream_socket") /\ Syscall(f, o)
unix_stream_socket_get_option(f, o) == Method(f, o, "unix_stream_socket") /\ Syscall(f, o)
unix_stream_socket_io_control(f, o) == Method(f, o, "unix_stream_socket") /\ Syscall(f, o)
unix_stream_socket_local_path(f, o) == Method(f, o, "unix_stream_socket") /\ Syscall(f, o)
unix_stream_socket_remote_path(f, o) == Method(f, o, "unix_stream_socket") /\ Syscall(f, o)
unix_stream_socket_connect(f, o) == Method(f, o, "unix_stream_socket") /\ Connect(f, o)
unix_stream_socket_read_some(f, o) == Method(f, o, "unix_stream_socket") /\ AsyncCall(f, o)
unix_stream_socket_write_some(f, o) == Method(f, o, "unix_stream_socket") /\ AsyncCall(f, o)
unix_stream_socket_receive_with_fds(f, o) == Method(f, o, "unix_stream_socket") /\ Async(f, o, "receive_with_fds", "emit")
unix_stream_socket_send_with_fds(f, o) == Method(f, o, "unix_stream_socket") /\ SendWithFds(f, o)

unix_stream_socket_mt_index(f, o) ==
    /\ Method(f, o, "unix_stream_socket")
    /\ \/ unix_stream_socket_open(f, o)
       \/ unix_stream_socket_close(f, o)
       \/ unix_stream_socket_cancel(f, o)
       \/ unix_stream_socket_is_open(f, o)
       \/ unix_stream_socket_bind(f, o)
       \/ unix_stream_socket_shutdown(f, o)
       \/ unix_stream_socket_disconnect(f, o)
       \/ unix_stream_socket_set_option(f, o)
       \/ unix_stream_socket_get_option(f, o)
       \/ unix_stream_socket_io_control(f, o)
       \/ unix_stream_socket_local_path(f, o)
       \/ unix_stream_socket_remote_path(f, o)
       \/ unix_stream_socket_connect(f, o)
       \/ unix_stream_socket_read_some(f, o)
       \/ unix_stream_socket_write_some(f, o)
       \/ unix_stream_socket_receive_with_fds(f, o)
       \/ unix_stream_socket_send_with_fds(f, o)
       \/ \E h \in Handle : unix_stream_socket_assign(f, o, h) \/ unix_stream_socket_release(f, o, h)

-----------------------------------------------------------------------------
(* unix.stream_acceptor                                                      *)

unix_stream_acceptor_new(f, o) == New(f, o, "unix_stream_acceptor") \/ \E h \in Handle : NewFrom(f, o, "unix_stream_acceptor", h)
unix_stream_acceptor_open(f, o) == Method(f, o, "unix_stream_acceptor") /\ Open(f, o)
unix_stream_acceptor_close(f, o) == Method(f, o, "unix_stream_acceptor") /\ Close(f, o)
unix_stream_acceptor_cancel(f, o) == Method(f, o, "unix_stream_acceptor") /\ Cancel(f, o)
unix_stream_acceptor_assign(f, o, h) == Method(f, o, "unix_stream_acceptor") /\ Assign(f, o, h)
unix_stream_acceptor_release(f, o, h) == Method(f, o, "unix_stream_acceptor") /\ Release(f, o, h)
unix_stream_acceptor_is_open(f, o) == Method(f, o, "unix_stream_acceptor") /\ Answer(f, "none")
unix_stream_acceptor_bind(f, o) == Method(f, o, "unix_stream_acceptor") /\ Syscall(f, o)
unix_stream_acceptor_listen(f, o) == Method(f, o, "unix_stream_acceptor") /\ Syscall(f, o)
unix_stream_acceptor_set_option(f, o) == Method(f, o, "unix_stream_acceptor") /\ Syscall(f, o)
unix_stream_acceptor_get_option(f, o) == Method(f, o, "unix_stream_acceptor") /\ Syscall(f, o)
unix_stream_acceptor_local_path(f, o) == Method(f, o, "unix_stream_acceptor") /\ Syscall(f, o)
unix_stream_acceptor_accept(f, o) == Method(f, o, "unix_stream_acceptor") /\ Async(f, o, "accept", "emit")

unix_stream_acceptor_mt_index(f, o) ==
    /\ Method(f, o, "unix_stream_acceptor")
    /\ \/ unix_stream_acceptor_open(f, o)
       \/ unix_stream_acceptor_close(f, o)
       \/ unix_stream_acceptor_cancel(f, o)
       \/ unix_stream_acceptor_is_open(f, o)
       \/ unix_stream_acceptor_bind(f, o)
       \/ unix_stream_acceptor_listen(f, o)
       \/ unix_stream_acceptor_set_option(f, o)
       \/ unix_stream_acceptor_get_option(f, o)
       \/ unix_stream_acceptor_local_path(f, o)
       \/ unix_stream_acceptor_accept(f, o)
       \/ \E h \in Handle : unix_stream_acceptor_assign(f, o, h) \/ unix_stream_acceptor_release(f, o, h)

-----------------------------------------------------------------------------
(* unix.seqpacket_socket                                                     *)

unix_seqpacket_socket_new(f, o) == New(f, o, "unix_seqpacket_socket") \/ \E h \in Handle : NewFrom(f, o, "unix_seqpacket_socket", h)
unix_seqpacket_socket_pair(f, o, p) == Pair(f, o, p, "unix_seqpacket_socket", "unix_seqpacket_socket")
unix_seqpacket_socket_open(f, o) == Method(f, o, "unix_seqpacket_socket") /\ Open(f, o)
unix_seqpacket_socket_close(f, o) == Method(f, o, "unix_seqpacket_socket") /\ Close(f, o)
unix_seqpacket_socket_cancel(f, o) == Method(f, o, "unix_seqpacket_socket") /\ Cancel(f, o)
unix_seqpacket_socket_assign(f, o, h) == Method(f, o, "unix_seqpacket_socket") /\ Assign(f, o, h)
unix_seqpacket_socket_release(f, o, h) == Method(f, o, "unix_seqpacket_socket") /\ Release(f, o, h)
unix_seqpacket_socket_is_open(f, o) == Method(f, o, "unix_seqpacket_socket") /\ Answer(f, "none")
unix_seqpacket_socket_bind(f, o) == Method(f, o, "unix_seqpacket_socket") /\ Syscall(f, o)
unix_seqpacket_socket_shutdown(f, o) == Method(f, o, "unix_seqpacket_socket") /\ Syscall(f, o)
unix_seqpacket_socket_disconnect(f, o) == Method(f, o, "unix_seqpacket_socket") /\ Syscall(f, o)
unix_seqpacket_socket_set_option(f, o) == Method(f, o, "unix_seqpacket_socket") /\ Syscall(f, o)
unix_seqpacket_socket_get_option(f, o) == Method(f, o, "unix_seqpacket_socket") /\ Syscall(f, o)
unix_seqpacket_socket_io_control(f, o) == Method(f, o, "unix_seqpacket_socket") /\ Syscall(f, o)
unix_seqpacket_socket_local_path(f, o) == Method(f, o, "unix_seqpacket_socket") /\ Syscall(f, o)
unix_seqpacket_socket_remote_path(f, o) == Method(f, o, "unix_seqpacket_socket") /\ Syscall(f, o)
unix_seqpacket_socket_connect(f, o) == Method(f, o, "unix_seqpacket_socket") /\ Connect(f, o)
unix_seqpacket_socket_receive(f, o) == Method(f, o, "unix_seqpacket_socket") /\ AsyncCall(f, o)
unix_seqpacket_socket_send(f, o) == Method(f, o, "unix_seqpacket_socket") /\ AsyncCall(f, o)
unix_seqpacket_socket_receive_with_fds(f, o) == Method(f, o, "unix_seqpacket_socket") /\ Async(f, o, "receive_with_fds", "emit")
unix_seqpacket_socket_send_with_fds(f, o) == Method(f, o, "unix_seqpacket_socket") /\ SendWithFds(f, o)

unix_seqpacket_socket_mt_index(f, o) ==
    /\ Method(f, o, "unix_seqpacket_socket")
    /\ \/ unix_seqpacket_socket_open(f, o)
       \/ unix_seqpacket_socket_close(f, o)
       \/ unix_seqpacket_socket_cancel(f, o)
       \/ unix_seqpacket_socket_is_open(f, o)
       \/ unix_seqpacket_socket_bind(f, o)
       \/ unix_seqpacket_socket_shutdown(f, o)
       \/ unix_seqpacket_socket_disconnect(f, o)
       \/ unix_seqpacket_socket_set_option(f, o)
       \/ unix_seqpacket_socket_get_option(f, o)
       \/ unix_seqpacket_socket_io_control(f, o)
       \/ unix_seqpacket_socket_local_path(f, o)
       \/ unix_seqpacket_socket_remote_path(f, o)
       \/ unix_seqpacket_socket_connect(f, o)
       \/ unix_seqpacket_socket_receive(f, o)
       \/ unix_seqpacket_socket_send(f, o)
       \/ unix_seqpacket_socket_receive_with_fds(f, o)
       \/ unix_seqpacket_socket_send_with_fds(f, o)
       \/ \E h \in Handle : unix_seqpacket_socket_assign(f, o, h) \/ unix_seqpacket_socket_release(f, o, h)

-----------------------------------------------------------------------------
(* unix.seqpacket_acceptor                                                   *)

unix_seqpacket_acceptor_new(f, o) == New(f, o, "unix_seqpacket_acceptor") \/ \E h \in Handle : NewFrom(f, o, "unix_seqpacket_acceptor", h)
unix_seqpacket_acceptor_open(f, o) == Method(f, o, "unix_seqpacket_acceptor") /\ Open(f, o)
unix_seqpacket_acceptor_close(f, o) == Method(f, o, "unix_seqpacket_acceptor") /\ Close(f, o)
unix_seqpacket_acceptor_cancel(f, o) == Method(f, o, "unix_seqpacket_acceptor") /\ Cancel(f, o)
unix_seqpacket_acceptor_assign(f, o, h) == Method(f, o, "unix_seqpacket_acceptor") /\ Assign(f, o, h)
unix_seqpacket_acceptor_release(f, o, h) == Method(f, o, "unix_seqpacket_acceptor") /\ Release(f, o, h)
unix_seqpacket_acceptor_is_open(f, o) == Method(f, o, "unix_seqpacket_acceptor") /\ Answer(f, "none")
unix_seqpacket_acceptor_bind(f, o) == Method(f, o, "unix_seqpacket_acceptor") /\ Syscall(f, o)
unix_seqpacket_acceptor_listen(f, o) == Method(f, o, "unix_seqpacket_acceptor") /\ Syscall(f, o)
unix_seqpacket_acceptor_set_option(f, o) == Method(f, o, "unix_seqpacket_acceptor") /\ Syscall(f, o)
unix_seqpacket_acceptor_get_option(f, o) == Method(f, o, "unix_seqpacket_acceptor") /\ Syscall(f, o)
unix_seqpacket_acceptor_local_path(f, o) == Method(f, o, "unix_seqpacket_acceptor") /\ Syscall(f, o)
unix_seqpacket_acceptor_accept(f, o) == Method(f, o, "unix_seqpacket_acceptor") /\ Async(f, o, "accept", "emit")

unix_seqpacket_acceptor_mt_index(f, o) ==
    /\ Method(f, o, "unix_seqpacket_acceptor")
    /\ \/ unix_seqpacket_acceptor_open(f, o)
       \/ unix_seqpacket_acceptor_close(f, o)
       \/ unix_seqpacket_acceptor_cancel(f, o)
       \/ unix_seqpacket_acceptor_is_open(f, o)
       \/ unix_seqpacket_acceptor_bind(f, o)
       \/ unix_seqpacket_acceptor_listen(f, o)
       \/ unix_seqpacket_acceptor_set_option(f, o)
       \/ unix_seqpacket_acceptor_get_option(f, o)
       \/ unix_seqpacket_acceptor_local_path(f, o)
       \/ unix_seqpacket_acceptor_accept(f, o)
       \/ \E h \in Handle : unix_seqpacket_acceptor_assign(f, o, h) \/ unix_seqpacket_acceptor_release(f, o, h)

-----------------------------------------------------------------------------
\* The calls on an object of the table unix.
UnixCall(f, o) ==
    \/ unix_datagram_socket_new(f, o)
    \/ unix_datagram_socket_mt_index(f, o)
    \/ \E p \in Obj : unix_datagram_socket_pair(f, o, p)
    \/ unix_stream_socket_new(f, o)
    \/ unix_stream_socket_mt_index(f, o)
    \/ \E p \in Obj : unix_stream_socket_pair(f, o, p)
    \/ unix_seqpacket_socket_new(f, o)
    \/ unix_seqpacket_socket_mt_index(f, o)
    \/ \E p \in Obj : unix_seqpacket_socket_pair(f, o, p)
    \/ unix_stream_acceptor_new(f, o)
    \/ unix_stream_acceptor_mt_index(f, o)
    \/ unix_seqpacket_acceptor_new(f, o)
    \/ unix_seqpacket_acceptor_mt_index(f, o)

=============================================================================
