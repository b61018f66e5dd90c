------------------------------- MODULE Spawn --------------------------------
(***************************************************************************)
(* system.spawn() and subprocess on Linux (linux/system/spawn.cpp).        *)
(*                                                                         *)
(* The parent blocks until the child has executed its program or written   *)
(* an error to the pipe, so a spawn is one step.  native is the pidfd of a *)
(* subprocess that has its reaper; child[o] is Nil once waitid() has       *)
(* reaped it; ended: it is a zombie; reaper: the pidfd, once the           *)
(* destructor's wait has it.                                               *)
(***************************************************************************)
EXTENDS Io, ChildFds

CONSTANT PipeFd   \* the numbers pipe2() may give to closeonexecpipe

ASSUME SpawnAssumption == PipeFd \subseteq 3..20 /\ Fd \subseteq 3..20

\* A descriptor argument: a handle that is not busy.
Given == {handle[h] : h \in {h \in Handle : handle[h] \in Fd}}

\* extra_fds: any of the numbers 3 and 4 to any descriptor.
ExtrasOf(given) ==
    {<<>>} \cup {<< <<d, src>> >> : d \in {3, 4}, src \in given}
    \cup {<< <<3, src>>, <<4, src2>> >> : src \in given, src2 \in given}

\* The standard streams of a child.
StreamsOf(given) ==
    {[d \in 0..2 |-> Closed], [d \in 0..2 |-> d]} \cup {[d \in 0..2 |-> src] : src \in given}

\* The child, about to execute its program.
Child(w, program, extra, std) ==
    system_spawn_child_main(Inherit(openFd, w, program, extra), std)

\* Whatever fails, in the parent or in the child, leaves no child and no descriptor
\* behind.  The child starts if its program is where fexecve() looks for it.
system_spawn(f, o) ==
    \/ Running(f) /\ kind[o] = "subprocess" /\ Raise(f)
    \/ /\ Running(f)
       /\ kind[o] = "subprocess" /\ ~live[o] /\ child[o] = Nil
       /\ \E w \in PipeFd \ openFd, program \in {Closed} \cup Given, extra \in ExtrasOf(Given) :
             program # Closed =>
                Executed(Child(w, program, extra, [d \in 0..2 |-> d])) = program
       /\ live' = [live EXCEPT ![o] = TRUE]
       /\ nbusy' = [nbusy EXCEPT ![o] = 0]
       /\ \E d \in Lowest(openFd) :
             /\ native' = [native EXCEPT ![o] = d]
             /\ openFd' = openFd \cup {d}
       /\ child' = [child EXCEPT ![o] = [ended |-> FALSE, reaper |-> Nil]]
       /\ Return(f, "none")
       /\ UNCHANGED <<strand, valid, fiberData, kind, handle, lost, op>>

\* A child ends, of its own accord or by a signal.
ChildEnds(o) ==
    /\ child[o] # Nil /\ ~child[o].ended
    /\ child' = [child EXCEPT ![o].ended = TRUE]
    /\ UNCHANGED <<coreVars, fiberData, ret, kind, live, native, nbusy, fdVars, op>>

\* The pidfd of a child that has ended is readable.
ChildReadable(f) ==
    /\ Pending(f) /\ op[f].io = "child" /\ child[op[f].obj].ended
    /\ op' = [op EXCEPT ![f].ec = "none"]
    /\ UNCHANGED <<coreVars, fiberData, ret, objVars, fdVars>>

subprocess_wait(f, o) ==
    /\ Method(f, o, "subprocess")
    /\ \/ Refused(f)
       \/ /\ CanSuspend(f) /\ native[o] # Nil /\ nbusy[o] = 0
          /\ Initiate(f, o, "child", "object", {}, Nil)
          /\ UNCHANGED <<native, fdVars>>

\* The handler of wait(): the child is reaped and its pidfd closed, unless the wait
\* was interrupted or the VM has ended (then ~subprocess() sees to it).
Waited(f) ==
    LET o == op[f].obj IN
    /\ Completed(f) /\ op[f].io = "child"
    /\ IF valid[VmOf[f]] THEN ResumeWith(f, op[f].ec) ELSE Dropped(f)
    /\ IF valid[VmOf[f]] /\ op[f].ec = "none"
       THEN /\ native' = [native EXCEPT ![o] = Nil]
            /\ openFd' = openFd \ {native[o]}
            /\ child' = [child EXCEPT ![o] = Nil]
            /\ UNCHANGED <<kind, live, handle, lost>>
       ELSE UNCHANGED <<names, live, native, fdVars>>

\* The handler of the wait that ~subprocess() started.  A wait() that the end of
\* the VM left behind shares its descriptor, and is over by then.
Reap(o) ==
    /\ child[o] # Nil /\ child[o].reaper # Nil /\ child[o].ended
    /\ OpsOn(o) = {}
    /\ child' = [child EXCEPT ![o] = Nil]
    /\ openFd' = openFd \ {child[o].reaper}
    /\ UNCHANGED <<coreVars, fiberData, ret, kind, live, native, nbusy, handle, lost, op>>

\* What asks for a child that was not reaped yet, and what for one that was.
subprocess_kill(f, o) == Method(f, o, "subprocess") /\ Syscall(f, o)
subprocess_cap_get(f, o) == Method(f, o, "subprocess") /\ Syscall(f, o)
subprocess_pid(f, o) ==
    Method(f, o, "subprocess") /\ Answer(f, IF native[o] = Nil THEN "error" ELSE "none")
subprocess_exit_code(f, o) ==
    Method(f, o, "subprocess") /\ Answer(f, IF native[o] = Nil THEN "none" ELSE "error")
subprocess_exit_signal(f, o) ==
    Method(f, o, "subprocess") /\ Answer(f, IF native[o] = Nil THEN "none" ELSE "error")

subprocess_mt_index(f, o) ==
    /\ Method(f, o, "subprocess")
    /\ \/ subprocess_wait(f, o)
       \/ subprocess_kill(f, o)
       \/ subprocess_cap_get(f, o)
       \/ subprocess_exit_code(f, o)
       \/ subprocess_exit_signal(f, o)
       \/ subprocess_pid(f, o)

-----------------------------------------------------------------------------
(* What the child has when it executes its program.                          *)

\* Whenever a program may be spawned, whatever the numbers of what it is given, of
\* the pipe and of the parent's other descriptors, the child has at 3..9 what
\* extra_fds asks for and nothing else, its standard streams, the pipe at 10, by
\* which it reports errors, and nothing above 11: no renumbering overwrites a
\* descriptor that is still to be copied.
ChildGetsItsDescriptors ==
    (\E f \in Fiber, o \in Obj : Running(f) /\ kind[o] = "subprocess" /\ ~live[o]) =>
    \A w \in PipeFd \ openFd, program \in {Closed} \cup Given,
       extra \in ExtrasOf(Given), std \in StreamsOf(Given) :
        LET t == Child(w, program, extra, std).table IN
        /\ \A d \in 0..2 : t[d] = IF std[d] = Closed THEN OwnPipe ELSE std[d]
        /\ \A d \in 3..9 : t[d] = IF \E e \in Range(extra) : e[1] = d
                                THEN (CHOOSE e \in Range(extra) : e[1] = d)[2] ELSE Closed
        /\ t[10] = w
        /\ \A d \in Numbers : d > 11 => t[d] = Closed

\* A program that is given as a descriptor is what fexecve() gets.
SpawnFindsItsProgram ==
    \A w \in PipeFd \ openFd, program \in Given :
        Executed(Child(w, program, <<>>, [d \in 0..2 |-> d])) = program

=============================================================================
