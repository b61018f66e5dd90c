-------------------------------- MODULE Pipe --------------------------------
(***************************************************************************)
(* Pipes (pipe.cpp).  The interrupter of a read or a write is cancel() of  *)
(* the pipe: it ends every operation on the pipe, whoever started it.      *)
(***************************************************************************)
EXTENDS Io

(* pipe.read_stream                                                          *)

readable_pipe_new(f, o) == New(f, o, "readable_pipe") \/ \E h \in Handle : NewFrom(f, o, "readable_pipe", h)
readable_pipe_close(f, o) == Method(f, o, "readable_pipe") /\ Close(f, o)
readable_pipe_cancel(f, o) == Method(f, o, "readable_pipe") /\ Cancel(f, o)
readable_pipe_assign(f, o, h) == Method(f, o, "readable_pipe") /\ Assign(f, o, h)
readable_pipe_release(f, o, h) == Method(f, o, "readable_pipe") /\ Release(f, o, h)
readable_pipe_is_open(f, o) == Method(f, o, "readable_pipe") /\ Answer(f, "none")
readable_pipe_read_some(f, o) == Method(f, o, "readable_pipe") /\ Async(f, o, "transfer", "object")

readable_pipe_mt_index(f, o) ==
    /\ Method(f, o, "readable_pipe")
    /\ \/ readable_pipe_close(f, o)
       \/ readable_pipe_cancel(f, o)
       \/ readable_pipe_is_open(f, o)
       \/ readable_pipe_read_some(f, o)
       \/ \E h \in Handle : readable_pipe_assign(f, o, h) \/ readable_pipe_release(f, o, h)

-----------------------------------------------------------------------------
(* pipe.write_stream                                                         *)

writable_pipe_new(f, o) == New(f, o, "writable_pipe") \/ \E h \in Handle : NewFrom(f, o, "writable_pipe", h)
writable_pipe_close(f, o) == Method(f, o, "writable_pipe") /\ Close(f, o)
writable_pipe_cancel(f, o) == Method(f, o, "writable_pipe") /\ Cancel(f, o)
writable_pipe_assign(f, o, h) == Method(f, o, "writable_pipe") /\ Assign(f, o, h)
writable_pipe_release(f, o, h) == Method(f, o, "writable_pipe") /\ Release(f, o, h)
writable_pipe_is_open(f, o) == Method(f, o, "writable_pipe") /\ Answer(f, "none")
writable_pipe_write_some(f, o) == Method(f, o, "writable_pipe") /\ Async(f, o, "transfer", "object")

writable_pipe_mt_index(f, o) ==
    /\ Method(f, o, "writable_pipe")
    /\ \/ writable_pipe_close(f, o)
       \/ writable_pipe_cancel(f, o)
       \/ writable_pipe_is_open(f, o)
       \/ writable_pipe_write_some(f, o)
       \/ \E h \in Handle : writable_pipe_assign(f, o, h) \/ writable_pipe_release(f, o, h)

-----------------------------------------------------------------------------
pair(f, o, p) == Pair(f, o, p, "readable_pipe", "writable_pipe")

\* The calls on an object of the table pipe.
PipeCall(f, o) ==
    \/ readable_pipe_new(f, o)
    \/ readable_pipe_mt_index(f, o)
    \/ writable_pipe_new(f, o)
    \/ writable_pipe_mt_index(f, o)
    \/ \E p \in Obj : pair(f, o, p)

=============================================================================
