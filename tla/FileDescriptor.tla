--------------------------- MODULE FileDescriptor ---------------------------
(***************************************************************************)
(* The file_descriptor userdata (file_descriptor.cpp): a descriptor that   *)
(* belongs to no I/O object.  A handle that a pending send_with_fds() uses *)
(* is busy and refuses every call.                                         *)
(***************************************************************************)
EXTENDS Io

\* A call on h, which has its metatable; a busy one is refused.
HandleMethod(f, h) == Running(f) /\ handle[h] # Nil

HandleCall(f, h) ==
    /\ HandleMethod(f, h)
    /\ Raise(f) \/ (handle[h] # Busy /\ Answer(f, "none"))

file_descriptor_close(f, h) ==
    /\ HandleMethod(f, h)
    /\ \/ handle[h] = Busy /\ Raise(f)
       \/ /\ handle[h] # Busy
          /\ handle' = [handle EXCEPT ![h] = Nil]
          /\ openFd' = openFd \ {handle[h]}
          /\ Return(f, "none")
          /\ UNCHANGED <<strand, valid, fiberData, objVars, lost, op>>

file_descriptor_dup(f, h) ==
    /\ HandleMethod(f, h)
    /\ \/ Raise(f)
       \/ /\ handle[h] # Busy
          /\ \E g \in NewHandles, d \in Lowest(openFd) :
                /\ handle' = [handle EXCEPT ![g] = d]
                /\ openFd' = openFd \cup {d}
          /\ Return(f, "none")
          /\ UNCHANGED <<strand, valid, fiberData, objVars, lost, op>>

file_descriptor_cap_get(f, h) == HandleCall(f, h)
file_descriptor_cap_set(f, h) == HandleCall(f, h)
file_descriptor_cap_rights_limit(f, h) == HandleCall(f, h)
file_descriptor_cap_ioctls_limit(f, h) == HandleCall(f, h)
file_descriptor_cap_fcntls_limit(f, h) == HandleCall(f, h)
file_descriptor_mt_tostring(f, h) == HandleCall(f, h)

\* The collector finds a handle nobody uses.
file_descriptor_mt_gc(f, h) ==
    /\ Running(f)
    /\ handle[h] \in Fd
    /\ handle' = [handle EXCEPT ![h] = Nil]
    /\ openFd' = openFd \ {handle[h]}
    /\ UNCHANGED <<coreVars, fiberData, ret, objVars, lost, op>>

file_descriptor_mt_index(f, h) ==
    \/ file_descriptor_close(f, h)
    \/ file_descriptor_dup(f, h)
    \/ file_descriptor_cap_get(f, h)
    \/ file_descriptor_cap_set(f, h)
    \/ file_descriptor_cap_rights_limit(f, h)
    \/ file_descriptor_cap_ioctls_limit(f, h)
    \/ file_descriptor_cap_fcntls_limit(f, h)

=============================================================================
