------------------------------- MODULE System -------------------------------
(***************************************************************************)
(* Signal sets and the standard streams (system.cpp).                      *)
(***************************************************************************)
EXTENDS Io

\* A change of the signals in a set; the waits on the set go on.
SetSignals(f) == Raise(f) \/ Answer(f, "none")

\* Only the master VM may have signal sets.
system_signal_set_new(f, o) ==
    \/ Running(f) /\ kind[o] = "signal_set" /\ Raise(f)
    \/ New(f, o, "signal_set")
system_signal_set_wait(f, o) == Method(f, o, "signal_set") /\ AsyncCall(f, o)
system_signal_set_add(f, o) == Method(f, o, "signal_set") /\ SetSignals(f)
system_signal_set_remove(f, o) == Method(f, o, "signal_set") /\ SetSignals(f)
system_signal_set_clear(f, o) == Method(f, o, "signal_set") /\ SetSignals(f)
system_signal_set_cancel(f, o) == Method(f, o, "signal_set") /\ Reset(f, o)

system_signal_set_mt_index(f, o) ==
    /\ Method(f, o, "signal_set")
    /\ \/ system_signal_set_wait(f, o)
       \/ system_signal_set_cancel(f, o)
       \/ system_signal_set_add(f, o)
       \/ system_signal_set_remove(f, o)
       \/ system_signal_set_clear(f, o)

-----------------------------------------------------------------------------
\* stdstream_service, one of the VM's pending_operations, has the descriptors 0, 1
\* and 2; its destructor releases them, which cancels what fibers wait for.
Stream(f) ==
    \E o \in Obj :
        /\ Running(f)
        /\ kind[o] = "stdstream_service"
        /\ Async(f, o, "stdstream", "emit")

system_in_read_some(f) == Stream(f)
system_out_write_some(f) == Stream(f)
system_err_write_some(f) == Stream(f)

-----------------------------------------------------------------------------
SystemCall(f) ==
    \/ system_in_read_some(f)
    \/ system_out_write_some(f)
    \/ system_err_write_some(f)
    \/ \E o \in Obj : system_signal_set_new(f, o) \/ system_signal_set_mt_index(f, o)

=============================================================================
