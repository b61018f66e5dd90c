-------------------------------- MODULE File --------------------------------
(***************************************************************************)
(* Files (file.cpp): streams, which have a position, and random access     *)
(* files.  Both are Asio objects that own a descriptor.                    *)
(***************************************************************************)
EXTENDS Io

(* file.stream                                                               *)

stream_new(f, o) == New(f, o, "file_stream") \/ \E h \in Handle : NewFrom(f, o, "file_stream", h)
stream_open(f, o) == Method(f, o, "file_stream") /\ Open(f, o)
stream_close(f, o) == Method(f, o, "file_stream") /\ Close(f, o)
stream_cancel(f, o) == Method(f, o, "file_stream") /\ Cancel(f, o)
stream_assign(f, o, h) == Method(f, o, "file_stream") /\ Assign(f, o, h)
stream_release(f, o, h) == Method(f, o, "file_stream") /\ Release(f, o, h)
stream_is_open(f, o) == Method(f, o, "file_stream") /\ Answer(f, "none")
stream_resize(f, o) == Method(f, o, "file_stream") /\ Syscall(f, o)
stream_seek(f, o) == Method(f, o, "file_stream") /\ Syscall(f, o)
stream_size(f, o) == Method(f, o, "file_stream") /\ Syscall(f, o)
stream_read_some(f, o) == Method(f, o, "file_stream") /\ AsyncCall(f, o)
stream_write_some(f, o) == Method(f, o, "file_stream") /\ AsyncCall(f, o)

stream_mt_index(f, o) ==
    /\ Method(f, o, "file_stream")
    /\ \/ stream_open(f, o)
       \/ stream_close(f, o)
       \/ stream_cancel(f, o)
       \/ stream_is_open(f, o)
       \/ stream_resize(f, o)
       \/ stream_seek(f, o)
       \/ stream_size(f, o)
       \/ stream_read_some(f, o)
       \/ stream_write_some(f, o)
       \/ \E h \in Handle : stream_assign(f, o, h) \/ stream_release(f, o, h)

-----------------------------------------------------------------------------
(* file.random_access                                                        *)

random_access_new(f, o) == New(f, o, "file_random_access") \/ \E h \in Handle : NewFrom(f, o, "file_random_access", h)
random_access_open(f, o) == Method(f, o, "file_random_access") /\ Open(f, o)
random_access_close(f, o) == Method(f, o, "file_random_access") /\ Close(f, o)
random_access_cancel(f, o) == Method(f, o, "file_random_access") /\ Cancel(f, o)
random_access_assign(f, o, h) == Method(f, o, "file_random_access") /\ Assign(f, o, h)
random_access_release(f, o, h) == Method(f, o, "file_random_access") /\ Release(f, o, h)
random_access_is_open(f, o) == Method(f, o, "file_random_access") /\ Answer(f, "none")
random_access_resize(f, o) == Method(f, o, "file_random_access") /\ Syscall(f, o)
random_access_size(f, o) == Method(f, o, "file_random_access") /\ Syscall(f, o)
random_access_read_some_at(f, o) == Method(f, o, "file_random_access") /\ AsyncCall(f, o)
random_access_write_some_at(f, o) == Method(f, o, "file_random_access") /\ AsyncCall(f, o)

random_access_mt_index(f, o) ==
    /\ Method(f, o, "file_random_access")
    /\ \/ random_access_open(f, o)
       \/ random_access_close(f, o)
       \/ random_access_cancel(f, o)
       \/ random_access_is_open(f, o)
       \/ random_access_resize(f, o)
       \/ random_access_size(f, o)
       \/ random_access_read_some_at(f, o)
       \/ random_access_write_some_at(f, o)
       \/ \E h \in Handle : random_access_assign(f, o, h) \/ random_access_release(f, o, h)

-----------------------------------------------------------------------------
\* The calls on an object of the table file.
FileCall(f, o) ==
    \/ stream_new(f, o)
    \/ stream_mt_index(f, o)
    \/ random_access_new(f, o)
    \/ random_access_mt_index(f, o)

=============================================================================
