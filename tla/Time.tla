-------------------------------- MODULE Time --------------------------------
(***************************************************************************)
(* Timers (time.cpp): sleep() and the waitable timers of the steady and the *)
(* system clock.                                                           *)
(***************************************************************************)
EXTENDS Io

\* sleep(): the timer of a sleep_for_operation is cancelled by the interrupter and,
\* at the end of the VM, as one of pending_operations, and by nothing else.  The
\* arguments are looked at before anything else.
sleep_for(f) ==
    \E o \in Obj :
        /\ Running(f)
        /\ kind[o] = "sleep_for_operation" /\ OpsOn(o) = {}
        /\ Raise(f) \/ Async(f, o, "sleep", "object")

-----------------------------------------------------------------------------

steady_timer_new(f, o) == New(f, o, "steady_timer")
steady_timer_wait(f, o) == Method(f, o, "steady_timer") /\ AsyncCall(f, o)
steady_timer_expires_at(f, o) == Method(f, o, "steady_timer") /\ Reset(f, o)
steady_timer_expires_after(f, o) == Method(f, o, "steady_timer") /\ Reset(f, o)
steady_timer_cancel(f, o) == Method(f, o, "steady_timer") /\ Reset(f, o)
steady_timer_expiry(f, o) == Method(f, o, "steady_timer") /\ Answer(f, "none")

steady_timer_mt_index(f, o) ==
    /\ Method(f, o, "steady_timer")
    /\ \/ steady_timer_wait(f, o)
       \/ steady_timer_expires_at(f, o)
       \/ steady_timer_expires_after(f, o)
       \/ steady_timer_cancel(f, o)
       \/ steady_timer_expiry(f, o)

-----------------------------------------------------------------------------

system_timer_new(f, o) == New(f, o, "system_timer")
system_timer_wait(f, o) == Method(f, o, "system_timer") /\ AsyncCall(f, o)
system_timer_expires_at(f, o) == Method(f, o, "system_timer") /\ Reset(f, o)
system_timer_cancel(f, o) == Method(f, o, "system_timer") /\ Reset(f, o)
system_timer_expiry(f, o) == Method(f, o, "system_timer") /\ Answer(f, "none")

system_timer_mt_index(f, o) ==
    /\ Method(f, o, "system_timer")
    /\ \/ system_timer_wait(f, o)
       \/ system_timer_expires_at(f, o)
       \/ system_timer_cancel(f, o)
       \/ system_timer_expiry(f, o)

-----------------------------------------------------------------------------
\* The calls on a timer.
TimeCall(f, o) ==
    \/ steady_timer_new(f, o)
    \/ steady_timer_mt_index(f, o)
    \/ system_timer_new(f, o)
    \/ system_timer_mt_index(f, o)

=============================================================================
