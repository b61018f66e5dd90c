-------------------------------- MODULE MCIo --------------------------------
(* One VM with its main fiber and another, and programs that use one or two    *)
(* I/O objects and one or two file_descriptor handles; three descriptors.      *)
EXTENDS IoSystem, TLC

CONSTANTS v1, main, f1, o1, o2, h1, h2

MCFiber == {main, f1}
MCVmOf == [f \in MCFiber |-> v1]
MCMain == [v \in {v1} |-> main]

\* f1 may disable its interruption; nobody forbids suspension.
MCMaxDisable == [f \in MCFiber |-> IF f = f1 THEN 1 ELSE 0]
MCMaxForbid == [f \in MCFiber |-> 0]

\* Below and above the numbers 10 and 11 of system_spawn_child_main().
MCFd == {8, 10, 12}
MCPipeFd == {4, 11}

\* A program with objects of types a and b and n handles.
Names(a, b, n) ==
    o1 :> a @@ o2 :> b @@
    h1 :> (IF n >= 1 THEN "file_descriptor" ELSE "none") @@
    h2 :> (IF n = 2 THEN "file_descriptor" ELSE "none")

MCProgram == {
    Names("tcp_acceptor", "tcp_socket", 0),
    Names("tcp_acceptor", "none", 1),
    Names("tcp_socket", "tls_socket", 0),
    Names("tcp_socket", "none", 1),
    Names("udp_socket", "none", 1),
    Names("tcp_resolver", "udp_resolver", 0),
    Names("unix_datagram_socket", "unix_datagram_socket", 0),
    Names("unix_datagram_socket", "none", 1),
    Names("unix_stream_socket", "unix_stream_socket", 0),
    Names("unix_stream_socket", "none", 1),
    Names("unix_seqpacket_socket", "unix_seqpacket_socket", 0),
    Names("unix_seqpacket_socket", "none", 1),
    Names("unix_stream_acceptor", "none", 1),
    Names("unix_seqpacket_acceptor", "unix_seqpacket_socket", 0),
    Names("unix_seqpacket_acceptor", "none", 1),
    Names("file_stream", "none", 1),
    Names("file_random_access", "none", 2),
    Names("readable_pipe", "writable_pipe", 1),
    Names("serial_port", "none", 1),
    Names("subprocess", "file_stream", 1),
    Names("sleep_for_operation", "steady_timer", 0),
    Names("sleep_for_operation", "system_timer", 0),
    Names("signal_set", "stdstream_service", 0) }

\* Programs for the liveness runs.
MCLive == {
    Names("tcp_acceptor", "none", 0),
    Names("tcp_socket", "tls_socket", 0),
    Names("readable_pipe", "writable_pipe", 0),
    Names("tcp_resolver", "sleep_for_operation", 0),
    Names("unix_datagram_socket", "none", 0),
    Names("subprocess", "none", 0) }
\* A program that opens files and may spawn one of them.
MCSpawn == {Names("subprocess", "file_stream", 1)}

\* No action reads ret.
View == <<coreVars, fiberData, ioVars>>
=============================================================================
