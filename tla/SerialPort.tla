----------------------------- MODULE SerialPort -----------------------------
(***************************************************************************)
(* Serial ports and pseudoterminals (serial_port.cpp).                     *)
(***************************************************************************)
EXTENDS Io

\* The device is opened first and Asio asked to take the descriptor next, so an
\* open port is noticed by an assert() only.
OpenPort(f, o) ==
    \/ Raise(f)
    \/ /\ \E d \in Lowest(openFd) : openFd' = openFd \cup {d} /\ Adopt(o, d)
       /\ Return(f, "none")
       /\ UNCHANGED <<strand, valid, fiberData, names, live, nbusy, handle, op>>

\* There is no release() of a serial port: its descriptor is duplicated, then
\* the port is closed.
ReleasePort(f, o, h) ==
    \/ Raise(f)
    \/ /\ native[o] # Nil /\ h \in NewHandles
       /\ native' = [native EXCEPT ![o] = Nil]
       /\ \E d \in Lowest(openFd) :
             /\ handle' = [handle EXCEPT ![h] = d]
             /\ openFd' = (openFd \cup {d}) \ {native[o]}
       /\ op' = Aborted(OpsOn(o))
       /\ Return(f, "none")
       /\ UNCHANGED <<strand, valid, fiberData, names, live, nbusy, lost>>

serial_port_new(f, o) == New(f, o, "serial_port") \/ \E h \in Handle : NewFrom(f, o, "serial_port", h)
serial_port_open(f, o) == Method(f, o, "serial_port") /\ OpenPort(f, o)
serial_port_close(f, o) == Method(f, o, "serial_port") /\ Close(f, o)
serial_port_cancel(f, o) == Method(f, o, "serial_port") /\ Cancel(f, o)
serial_port_assign(f, o, h) == Method(f, o, "serial_port") /\ Assign(f, o, h)
serial_port_release(f, o, h) == Method(f, o, "serial_port") /\ ReleasePort(f, o, h)
serial_port_is_open(f, o) == Method(f, o, "serial_port") /\ Answer(f, "none")
serial_port_isatty(f, o) == Method(f, o, "serial_port") /\ Syscall(f, o)
serial_port_tcgetpgrp(f, o) == Method(f, o, "serial_port") /\ Syscall(f, o)
serial_port_tcsetpgrp(f, o) == Method(f, o, "serial_port") /\ Syscall(f, o)
serial_port_send_break(f, o) == Method(f, o, "serial_port") /\ Syscall(f, o)
serial_port_read_some(f, o) == Method(f, o, "serial_port") /\ AsyncCall(f, o)
serial_port_write_some(f, o) == Method(f, o, "serial_port") /\ AsyncCall(f, o)

serial_port_mt_index(f, o) ==
    /\ Method(f, o, "serial_port")
    /\ \/ serial_port_open(f, o)
       \/ serial_port_close(f, o)
       \/ serial_port_cancel(f, o)
       \/ serial_port_is_open(f, o)
       \/ serial_port_isatty(f, o)
       \/ serial_port_tcgetpgrp(f, o)
       \/ serial_port_tcsetpgrp(f, o)
       \/ serial_port_send_break(f, o)
       \/ serial_port_read_some(f, o)
       \/ serial_port_write_some(f, o)
       \/ \E h \in Handle : serial_port_assign(f, o, h) \/ serial_port_release(f, o, h)
       \/ Method(f, o, "serial_port") /\ Syscall(f, o)

\* The options of the port are its fields.
serial_port_mt_newindex(f, o) == Method(f, o, "serial_port") /\ Syscall(f, o)

\* A pseudoterminal: the master is a port, the slave a handle.
serial_ptypair(f, o) ==
    \/ Running(f) /\ Raise(f)
    \/ /\ Running(f)
       /\ kind[o] = "serial_port" /\ ~live[o]
       /\ \E h \in NewHandles, d \in Lowest(openFd) : \E e \in Lowest(openFd \cup {d}) :
             /\ native' = [native EXCEPT ![o] = d]
             /\ handle' = [handle EXCEPT ![h] = e]
             /\ openFd' = openFd \cup {d, e}
       /\ live' = [live EXCEPT ![o] = TRUE]
       /\ Return(f, "none")
       /\ UNCHANGED <<strand, valid, fiberData, names, nbusy, lost, op>>

\* The calls on an object of the table serial_port.
SerialPortCall(f, o) ==
    \/ serial_port_new(f, o)
    \/ serial_port_mt_index(f, o)
    \/ serial_port_mt_newindex(f, o)
    \/ serial_ptypair(f, o)

=============================================================================
