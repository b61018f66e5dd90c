--------------------------------- MODULE Ip ---------------------------------
(***************************************************************************)
(* TCP and UDP (ip.cpp): sockets, the acceptor and name resolution, each   *)
(* function an action in terms of what Io says of descriptors and          *)
(* operations.  The build is the one for Unix.                             *)
(***************************************************************************)
EXTENDS Io

-----------------------------------------------------------------------------
(* ip.tcp.socket                                                             *)

tcp_socket_new(f, o) == New(f, o, "tcp_socket")
tcp_socket_open(f, o) == Method(f, o, "tcp_socket") /\ Open(f, o)
tcp_socket_close(f, o) == Method(f, o, "tcp_socket") /\ Close(f, o)
tcp_socket_cancel(f, o) == Method(f, o, "tcp_socket") /\ Cancel(f, o)
tcp_socket_assign(f, o, h) == Method(f, o, "tcp_socket") /\ Assign(f, o, h)
tcp_socket_release(f, o, h) == Method(f, o, "tcp_socket") /\ Release(f, o, h)
tcp_socket_is_open(f, o) == Method(f, o, "tcp_socket") /\ Answer(f, "none")
tcp_socket_bind(f, o) == Method(f, o, "tcp_socket") /\ Syscall(f, o)
tcp_socket_io_control(f, o) == Method(f, o, "tcp_socket") /\ Syscall(f, o)
tcp_socket_shutdown(f, o) == Method(f, o, "tcp_socket") /\ Syscall(f, o)
tcp_socket_disconnect(f, o) == Method(f, o, "tcp_socket") /\ Syscall(f, o)
tcp_socket_set_option(f, o) == Method(f, o, "tcp_socket") /\ Syscall(f, o)
tcp_socket_get_option(f, o) == Method(f, o, "tcp_socket") /\ Syscall(f, o)
tcp_socket_local_address(f, o) == Method(f, o, "tcp_socket") /\ Syscall(f, o)
tcp_socket_local_port(f, o) == Method(f, o, "tcp_socket") /\ Syscall(f, o)
tcp_socket_remote_address(f, o) == Method(f, o, "tcp_socket") /\ Syscall(f, o)
tcp_socket_remote_port(f, o) == Method(f, o, "tcp_socket") /\ Syscall(f, o)
tcp_socket_at_mark(f, o) == Method(f, o, "tcp_socket") /\ Syscall(f, o)
tcp_socket_connect(f, o) == Method(f, o, "tcp_socket") /\ Connect(f, o)
tcp_socket_read_some(f, o) == Method(f, o, "tcp_socket") /\ AsyncCall(f, o)
tcp_socket_write_some(f, o) == Method(f, o, "tcp_socket") /\ AsyncCall(f, o)
tcp_socket_receive(f, o) == Method(f, o, "tcp_socket") /\ AsyncCall(f, o)
tcp_socket_send(f, o) == Method(f, o, "tcp_socket") /\ AsyncCall(f, o)
tcp_socket_wait(f, o) == Method(f, o, "tcp_socket") /\ AsyncCall(f, o)

tcp_socket_mt_index(f, o) ==
    /\ Method(f, o, "tcp_socket")
    /\ \/ tcp_socket_open(f, o)
       \/ tcp_socket_close(f, o)
       \/ tcp_socket_cancel(f, o)
       \/ tcp_socket_is_open(f, o)
       \/ tcp_socket_bind(f, o)
       \/ tcp_socket_io_control(f, o)
       \/ tcp_socket_shutdown(f, o)
       \/ tcp_socket_disconnect(f, o)
       \/ tcp_socket_set_option(f, o)
       \/ tcp_socket_get_option(f, o)
       \/ tcp_socket_local_address(f, o)
       \/ tcp_socket_local_port(f, o)
       \/ tcp_socket_remote_address(f, o)
       \/ tcp_socket_remote_port(f, o)
       \/ tcp_socket_at_mark(f, o)
       \/ tcp_socket_connect(f, o)
       \/ tcp_socket_read_some(f, o)
       \/ tcp_socket_write_some(f, o)
       \/ tcp_socket_receive(f, o)
       \/ tcp_socket_send(f, o)
       \/ tcp_socket_wait(f, o)
       \/ \E h \in Handle : tcp_socket_assign(f, o, h) \/ tcp_socket_release(f, o, h)

-----------------------------------------------------------------------------
(* ip.tcp.acceptor                                                           *)

tcp_acceptor_new(f, o) == New(f, o, "tcp_acceptor")
tcp_acceptor_open(f, o) == Method(f, o, "tcp_acceptor") /\ Open(f, o)
tcp_acceptor_close(f, o) == Method(f, o, "tcp_acceptor") /\ Close(f, o)
tcp_acceptor_cancel(f, o) == Method(f, o, "tcp_acceptor") /\ Cancel(f, o)
tcp_acceptor_assign(f, o, h) == Method(f, o, "tcp_acceptor") /\ Assign(f, o, h)
tcp_acceptor_release(f, o, h) == Method(f, o, "tcp_acceptor") /\ Release(f, o, h)
tcp_acceptor_is_open(f, o) == Method(f, o, "tcp_acceptor") /\ Answer(f, "none")
tcp_acceptor_bind(f, o) == Method(f, o, "tcp_acceptor") /\ Syscall(f, o)
tcp_acceptor_listen(f, o) == Method(f, o, "tcp_acceptor") /\ Syscall(f, o)
tcp_acceptor_set_option(f, o) == Method(f, o, "tcp_acceptor") /\ Syscall(f, o)
tcp_acceptor_get_option(f, o) == Method(f, o, "tcp_acceptor") /\ Syscall(f, o)
tcp_acceptor_local_address(f, o) == Method(f, o, "tcp_acceptor") /\ Syscall(f, o)
tcp_acceptor_local_port(f, o) == Method(f, o, "tcp_acceptor") /\ Syscall(f, o)
tcp_acceptor_accept(f, o) == Method(f, o, "tcp_acceptor") /\ Async(f, o, "accept", "emit")

tcp_acceptor_mt_index(f, o) ==
    /\ Method(f, o, "tcp_acceptor")
    /\ \/ tcp_acceptor_open(f, o)
       \/ tcp_acceptor_close(f, o)
       \/ tcp_acceptor_cancel(f, o)
       \/ tcp_acceptor_is_open(f, o)
       \/ tcp_acceptor_bind(f, o)
       \/ tcp_acceptor_listen(f, o)
       \/ tcp_acceptor_set_option(f, o)
       \/ tcp_acceptor_get_option(f, o)
       \/ tcp_acceptor_local_address(f, o)
       \/ tcp_acceptor_local_port(f, o)
       \/ tcp_acceptor_accept(f, o)
       \/ \E h \in Handle : tcp_acceptor_assign(f, o, h) \/ tcp_acceptor_release(f, o, h)

-----------------------------------------------------------------------------
(* ip.udp.socket                                                             *)

udp_socket_new(f, o) == New(f, o, "udp_socket")
udp_socket_open(f, o) == Method(f, o, "udp_socket") /\ Open(f, o)
udp_socket_close(f, o) == Method(f, o, "udp_socket") /\ Close(f, o)
udp_socket_cancel(f, o) == Method(f, o, "udp_socket") /\ Cancel(f, o)
udp_socket_assign(f, o, h) == Method(f, o, "udp_socket") /\ Assign(f, o, h)
udp_socket_release(f, o, h) == Method(f, o, "udp_socket") /\ Release(f, o, h)
udp_socket_is_open(f, o) == Method(f, o, "udp_socket") /\ Answer(f, "none")
udp_socket_bind(f, o) == Method(f, o, "udp_socket") /\ Syscall(f, o)
udp_socket_shutdown(f, o) == Method(f, o, "udp_socket") /\ Syscall(f, o)
udp_socket_disconnect(f, o) == Method(f, o, "udp_socket") /\ Syscall(f, o)
udp_socket_io_control(f, o) == Method(f, o, "udp_socket") /\ Syscall(f, o)
udp_socket_set_option(f, o) == Method(f, o, "udp_socket") /\ Syscall(f, o)
udp_socket_get_option(f, o) == Method(f, o, "udp_socket") /\ Syscall(f, o)
udp_socket_local_address(f, o) == Method(f, o, "udp_socket") /\ Syscall(f, o)
udp_socket_local_port(f, o) == Method(f, o, "udp_socket") /\ Syscall(f, o)
udp_socket_remote_address(f, o) == Method(f, o, "udp_socket") /\ Syscall(f, o)
udp_socket_remote_port(f, o) == Method(f, o, "udp_socket") /\ Syscall(f, o)
udp_socket_connect(f, o) == Method(f, o, "udp_socket") /\ Connect(f, o)
udp_socket_receive(f, o) == Method(f, o, "udp_socket") /\ AsyncCall(f, o)
udp_socket_receive_from(f, o) == Method(f, o, "udp_socket") /\ AsyncCall(f, o)
udp_socket_send(f, o) == Method(f, o, "udp_socket") /\ AsyncCall(f, o)
udp_socket_send_to(f, o) == Method(f, o, "udp_socket") /\ AsyncCall(f, o)

udp_socket_mt_index(f, o) ==
    /\ Method(f, o, "udp_socket")
    /\ \/ udp_socket_open(f, o)
       \/ udp_socket_close(f, o)
       \/ udp_socket_cancel(f, o)
       \/ udp_socket_is_open(f, o)
       \/ udp_socket_bind(f, o)
       \/ udp_socket_shutdown(f, o)
       \/ udp_socket_disconnect(f, o)
       \/ udp_socket_io_control(f, o)
       \/ udp_socket_set_option(f, o)
       \/ udp_socket_get_option(f, o)
       \/ udp_socket_local_address(f, o)
       \/ udp_socket_local_port(f, o)
       \/ udp_socket_remote_address(f, o)
       \/ udp_socket_remote_port(f, o)
       \/ udp_socket_connect(f, o)
       \/ udp_socket_receive(f, o)
       \/ udp_socket_receive_from(f, o)
       \/ udp_socket_send(f, o)
       \/ udp_socket_send_to(f, o)
       \/ \E h \in Handle : udp_socket_assign(f, o, h) \/ udp_socket_release(f, o, h)

-----------------------------------------------------------------------------
(* Name resolution.  resolver_service lives in pending_operations; its       *)
(* destructor, at the end of the VM, cancels the queries.                    *)

Resolve(f, r) ==
    /\ Running(f)
    /\ \E o \in Obj : kind[o] = r /\ Async(f, o, "resolve", "resolver")

tcp_get_address_info(f) == Resolve(f, "tcp_resolver")
tcp_get_address_v4_info(f) == Resolve(f, "tcp_resolver")
tcp_get_address_v6_info(f) == Resolve(f, "tcp_resolver")
tcp_get_name_info(f) == Resolve(f, "tcp_resolver")
udp_get_address_info(f) == Resolve(f, "udp_resolver")
udp_get_address_v4_info(f) == Resolve(f, "udp_resolver")
udp_get_address_v6_info(f) == Resolve(f, "udp_resolver")
udp_get_name_info(f) == Resolve(f, "udp_resolver")

-----------------------------------------------------------------------------
\* The calls on an object of the tables ip.tcp and ip.udp.
IpCall(f, o) ==
    \/ tcp_socket_new(f, o)
    \/ tcp_socket_mt_index(f, o)
    \/ tcp_acceptor_new(f, o)
    \/ tcp_acceptor_mt_index(f, o)
    \/ udp_socket_new(f, o)
    \/ udp_socket_mt_index(f, o)

ResolverCall(f) ==
    \/ tcp_get_address_info(f)
    \/ tcp_get_address_v4_info(f)
    \/ tcp_get_address_v6_info(f)
    \/ tcp_get_name_info(f)
    \/ udp_get_address_info(f)
    \/ udp_get_address_v4_info(f)
    \/ udp_get_address_v6_info(f)
    \/ udp_get_name_info(f)

=============================================================================
