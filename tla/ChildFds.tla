------------------------------ MODULE ChildFds ------------------------------
(***************************************************************************)
(* What the child of system.spawn() does with the descriptors it inherits  *)
(* before it executes its program (system_spawn_child_main() of            *)
(* linux/system/spawn.cpp).                                                *)
(*                                                                         *)
(* A descriptor table maps numbers to files; a file is named by the number *)
(* it has in the parent.  The state of the child is a record: table; pipe, *)
(* program and extra: spawn_arguments_t's closeonexecpipe, programfd and   *)
(* extra_fds, a sequence of <<destination, source>>; idx: of nextfd().     *)
(***************************************************************************)
EXTENDS Integers, Sequences, Functions

Closed == -1     \* a number that is not in use; a program that is no descriptor
OwnPipe == -2    \* the end of a pipe that the child makes for a standard stream

Numbers == 0..31

\* The child begins with a copy of the parent's table.
Inherit(open, w, program, extra) ==
    [table |-> [d \in Numbers |-> IF d \in open \cup {0, 1, 2, w} THEN d ELSE Closed],
     pipe |-> w, program |-> program, extra |-> extra, idx |-> 10]

Dup2(s, src, dst) == [s EXCEPT !.table[dst] = s.table[src]]

\* stdin, stdout and stderr: a pipe of the child's own, the parent's stream, or a
\* descriptor.
Stdio(s, std) ==
    [s EXCEPT !.table = [d \in Numbers |->
        IF d > 2 THEN s.table[d]
        ELSE IF std[d] = Closed THEN OwnPipe ELSE s.table[std[d]]]]

\* Fault: a number that is the source of something counts as free.
NextfdIgnoresSources(s) == s.idx

\* nextfd(): a number > 9 that is not used by any source.
Nextfd(s) ==
    CHOOSE i \in Numbers :
        /\ i >= s.idx /\ i \notin {s.pipe, s.program} \cup {e[2] : e \in Range(s.extra)}
        /\ \A j \in s.idx..(i - 1) :
              j \in {s.pipe, s.program} \cup {e[2] : e \in Range(s.extra)}

RelocatePipe(s) ==
    IF s.pipe > 9 THEN s
    ELSE [Dup2(s, s.pipe, Nextfd(s)) EXCEPT !.pipe = Nextfd(s), !.idx = Nextfd(s) + 1]

RelocateProgram(s) ==
    IF s.program = Closed \/ s.program > 9 THEN s
    ELSE [Dup2(s, s.program, Nextfd(s)) EXCEPT !.program = Nextfd(s), !.idx = Nextfd(s) + 1]

RelocateExtra(s, i) ==
    IF s.extra[i][2] > 9 THEN s
    ELSE [Dup2(s, s.extra[i][2], Nextfd(s)) EXCEPT
              !.extra[i] = <<@[1], Nextfd(s)>>, !.idx = Nextfd(s) + 1]

\* Destinations are < 10: the sources in that range make way.
Relocate(s) ==
    LET moved[n \in 0..Len(s.extra)] ==
            IF n = 0 THEN RelocateProgram(RelocatePipe(s)) ELSE RelocateExtra(moved[n - 1], n)
    IN moved[Len(s.extra)]

\* The source of the destination d.
SourceOf(s, d) == (CHOOSE e \in Range(s.extra) : e[1] = d)[2]

\* The destinations get their files, in order: one that was placed before is what a
\* later one finds there.  The rest of [3, 10) is closed.
Place(s) ==
    LET placed[d \in Numbers] ==
            IF d \notin 3..9 THEN s.table[d]
            ELSE IF \A e \in Range(s.extra) : e[1] # d THEN Closed
            ELSE IF SourceOf(s, d) \in 3..(d - 1) THEN placed[SourceOf(s, d)]
            ELSE s.table[SourceOf(s, d)]
    IN [s EXCEPT !.table = placed]

\* The pipe goes to 10 and the program to 11, both closed by exec(), and the
\* numbers above are closed at once.
CloseOnExec(s) ==
    LET s10 == IF s.pipe = 10 THEN s ELSE Dup2(s, s.pipe, 10)
        s11 == IF s.program \in {Closed, 11} THEN s10 ELSE Dup2(s10, s.program, 11)
        first == IF s.program = Closed THEN 11 ELSE 12
    IN  [s11 EXCEPT !.table = [d \in Numbers |-> IF d < first THEN s11.table[d] ELSE Closed]]

system_spawn_child_main(s, std) == CloseOnExec(Place(Relocate(Stdio(s, std))))

\* The file that fexecve() is given.
Executed(s) == s.table[s.program]

=============================================================================
