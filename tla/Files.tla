-------------------------------- MODULE Files --------------------------------
(***************************************************************************)
(* Open files and descriptors: the file table (src/file.c), the descriptor  *)
(* tables of the processes, the system calls that fill and empty them       *)
(* (src/sysfile.c) and the copy fork() makes of them (src/proc.c); exit()   *)
(* closes one descriptor after the other.  A pipe is its two ends and what  *)
(* is in it; how readers and writers wait for each other is in module Pipe, *)
(* the inodes are in module FileSystem.  A process that is not there has no *)
(* descriptor.                                                              *)
(***************************************************************************)
EXTENDS Integers, Sequences, FiniteSets, FiniteSetsExt

CONSTANTS
    Procs,
    NOFILE,     \* descriptors of a process
    NFILE,      \* open files of the system
    Pipes,      \* bound: pages for pipes
    PIPESIZE,
    Names,      \* files that can be opened
    none        \* no file

ASSUME FilesAssumption ==
    /\ NOFILE \in Nat \ {0} /\ NFILE \in Nat \ {0} /\ PIPESIZE \in Nat \ {0}
    /\ none \notin (1 .. NFILE) \cup Pipes
    /\ IsFiniteSet(Procs) /\ IsFiniteSet(Pipes)

VARIABLES
    file,       \* ftable
    ofile,      \* proc.ofile of every process
    pipe,
    closing     \* the end of a pipe that a process is about to close in fileclose()

fileVars == <<file, ofile, pipe, closing>>

Entries == 1 .. NFILE
Fds == 0 .. NOFILE - 1

noFile == [ref |-> 0, type |-> "FD_NONE", of |-> none, readable |-> FALSE, writable |-> FALSE]
noPipe == [readopen |-> FALSE, writeopen |-> FALSE, data |-> <<>>]

\* Not in fileclose().
noEnd == [of |-> none, writable |-> FALSE]

\* An empty descriptor table.
closedAll == [fd \in Fds |-> none]

----------------------------------------------------------------------------

\* fdalloc(): the lowest free descriptors.
freeFds(p) == {fd \in Fds : ofile[p][fd] = none}
fdalloc(p) == Min(freeFds(p))

\* filealloc(): the first free file.
freeEntries == {f \in Entries : file[f].ref = 0}
filealloc == Min(freeEntries)

\* pipeclose(): one end is closed; behind the last the page is free.
pipeclose(q, writable) ==
    LET r == IF writable THEN [q EXCEPT !.writeopen = FALSE]
             ELSE [q EXCEPT !.readopen = FALSE]
    IN IF r.readopen \/ r.writeopen THEN r ELSE noPipe

\* fileclose(): the file with one reference less.
fileclose(f) ==
    [file EXCEPT ![f] = IF file[f].ref > 1 THEN [file[f] EXCEPT !.ref = file[f].ref - 1]
                        ELSE noFile]

\* The last reference to an end of a pipe goes.
endToClose(f) ==
    IF file[f].ref = 1 /\ file[f].type = "FD_PIPE"
    THEN [of |-> file[f].of, writable |-> file[f].writable] ELSE noEnd

----------------------------------------------------------------------------
(* System calls.  Each says whether it succeeds; those that fail change     *)
(* nothing.                                                                 *)

\* Up to the release of ftable.lock in fileclose().
sys_close(p, fd) ==
    LET f == ofile[p][fd] IN
    IF f = none THEN UNCHANGED fileVars
    ELSE /\ ofile' = [ofile EXCEPT ![p][fd] = none]
         /\ file' = fileclose(f)
         /\ closing' = [closing EXCEPT ![p] = endToClose(f)]
         /\ UNCHANGED pipe

\* fileclose() after that: others have run in between.
closeEnd(p) ==
    /\ closing[p] # noEnd
    /\ pipe' = [pipe EXCEPT ![closing[p].of] = pipeclose(pipe[closing[p].of], closing[p].writable)]
    /\ closing' = [closing EXCEPT ![p] = noEnd]
    /\ UNCHANGED <<file, ofile>>

canDup(p, fd) == ofile[p][fd] # none /\ freeFds(p) # {}

\* A slip: the reference is not counted.
dupUncounted(p, fd) ==
    /\ canDup(p, fd)
    /\ ofile' = [ofile EXCEPT ![p][fdalloc(p)] = ofile[p][fd]]
    /\ UNCHANGED <<file, pipe, closing>>

sys_dup(p, fd) ==
    /\ canDup(p, fd)
    /\ ofile' = [ofile EXCEPT ![p][fdalloc(p)] = ofile[p][fd]]
    /\ file' = [file EXCEPT ![ofile[p][fd]].ref = @ + 1]
    /\ UNCHANGED <<pipe, closing>>

canOpen(p) == freeEntries # {} /\ freeFds(p) # {}

\* sys_open() of a file that can be opened or created, from filealloc() on.
sys_open(p, name, mode) ==
    /\ canOpen(p)
    /\ ofile' = [ofile EXCEPT ![p][fdalloc(p)] = filealloc]
    /\ file' = [file EXCEPT ![filealloc] =
                    [ref |-> 1, type |-> "FD_INODE", of |-> name,
                     readable |-> mode # "O_WRONLY", writable |-> mode # "O_RDONLY"]]
    /\ UNCHANGED <<pipe, closing>>

freePages == {i \in Pipes : pipe[i] = noPipe}
canPipe(p) ==
    Cardinality(freeEntries) >= 2 /\ freePages # {} /\ Cardinality(freeFds(p)) >= 2

\* sys_pipe() and pipealloc(): two files, a page, two descriptors.
sys_pipe(p, i) ==
    LET f == filealloc
        g == Min(freeEntries \ {f})
        fd0 == fdalloc(p)
        fd1 == Min(freeFds(p) \ {fd0})
        end(w) == [ref |-> 1, type |-> "FD_PIPE", of |-> i, readable |-> ~w, writable |-> w]
    IN /\ canPipe(p)
       /\ i \in freePages
       /\ file' = [file EXCEPT ![f] = end(FALSE), ![g] = end(TRUE)]
       /\ ofile' = [ofile EXCEPT ![p][fd0] = f, ![p][fd1] = g]
       /\ pipe' = [pipe EXCEPT ![i] =
                        [readopen |-> TRUE, writeopen |-> TRUE, data |-> <<>>]]
       /\ UNCHANGED closing

\* The descriptors of a process that name a file.
naming(p, f) == {fd \in Fds : ofile[p][fd] = f}

\* fork(): the child q has the files of its parent.
forkFiles(p, q) ==
    /\ ofile' = [ofile EXCEPT ![q] = ofile[p]]
    /\ file' = [f \in Entries |->
                   [file[f] EXCEPT !.ref = @ + Cardinality(naming(p, f))]]
    /\ UNCHANGED <<pipe, closing>>

----------------------------------------------------------------------------
(* fileread() and filewrite() on the pipe behind a descriptor.              *)

isOpen(p, fd) == ofile[p][fd] # none
isPipe(p, fd) == isOpen(p, fd) /\ file[ofile[p][fd]].type = "FD_PIPE"
pipeOf(p, fd) == file[ofile[p][fd]].of

\* read() from a pipe waits, or takes all there is; otherwise it returns 0 or -1.
readable(p, fd) == isPipe(p, fd) /\ file[ofile[p][fd]].readable
hasData(p, fd) == readable(p, fd) /\ pipe[pipeOf(p, fd)].data # <<>>
readWaits(p, fd) == readable(p, fd) /\ ~hasData(p, fd) /\ pipe[pipeOf(p, fd)].writeopen

fileread(p, fd) ==
    /\ pipe' = [pipe EXCEPT ![pipeOf(p, fd)].data = <<>>]
    /\ UNCHANGED <<file, ofile, closing>>

\* write() of one item waits for room, and fails if there is none and no reader.
full(p, fd) == isPipe(p, fd) /\ Len(pipe[pipeOf(p, fd)].data) >= PIPESIZE
writeFails(p, fd) ==
    \/ ~isOpen(p, fd) \/ ~file[ofile[p][fd]].writable
    \/ full(p, fd) /\ ~pipe[pipeOf(p, fd)].readopen
writeWaits(p, fd) == full(p, fd) /\ pipe[pipeOf(p, fd)].readopen

filewrite(p, fd, item) ==
    /\ pipe' = IF isPipe(p, fd)
               THEN [pipe EXCEPT ![pipeOf(p, fd)].data = Append(@, item)]
               ELSE pipe
    /\ UNCHANGED <<file, ofile, closing>>

----------------------------------------------------------------------------
(* All of it: whatever processes call, in whatever order.                  *)

\* The first process opens the console itself.
FilesInit ==
    /\ file = [f \in Entries |-> noFile]
    /\ ofile = [p \in Procs |-> closedAll]
    /\ pipe = [i \in Pipes |-> noPipe]
    /\ closing = [p \in Procs |-> noEnd]

\* A call of p that succeeds.  The child of a fork() has no descriptor before.
Call(p) ==
    \/ \E fd \in Fds : sys_close(p, fd) \/ sys_dup(p, fd)
    \/ \E name \in Names, mode \in {"O_RDONLY", "O_WRONLY", "O_RDWR"} : sys_open(p, name, mode)
    \/ \E i \in Pipes : sys_pipe(p, i)
    \/ \E q \in Procs \ {p} : ofile[q] = closedAll /\ forkFiles(p, q)
    \/ \E fd \in Fds : hasData(p, fd) /\ fileread(p, fd)
    \/ \E fd \in Fds, item \in {"text", "nul"} :
          ~writeFails(p, fd) /\ ~writeWaits(p, fd) /\ filewrite(p, fd, item)

FilesNext == \E p \in Procs : IF closing[p] = noEnd THEN Call(p) ELSE closeEnd(p)

FilesSpec == FilesInit /\ [][FilesNext]_fileVars

----------------------------------------------------------------------------
(* Properties.                                                             *)

FilesTypeOK ==
    /\ file \in [Entries -> [ref : Nat, type : {"FD_NONE", "FD_PIPE", "FD_INODE"},
                           of : Pipes \cup Names \cup {none},
                           readable : BOOLEAN, writable : BOOLEAN]]
    /\ ofile \in [Procs -> [Fds -> Entries \cup {none}]]
    /\ pipe \in [Pipes -> [readopen : BOOLEAN, writeopen : BOOLEAN,
                           data : Seq({"text", "nul"})]]
    /\ closing \in [Procs -> [of : Pipes \cup {none}, writable : BOOLEAN]]

\* The descriptors that name a file, in all processes.
holders(f) == {x \in Procs \X Fds : ofile[x[1]][x[2]] = f}

\* file.c:26-80, sysfile.c:41-67, 434-440, proc.c fork and exit: the count of an
\* open file is the number of descriptors that name it, in all processes, so that
\* no file is given out that somebody has open and none is lost.
RefsAreDescriptors ==
    \A f \in Entries :
        /\ file[f].ref = Cardinality(holders(f))
        /\ file[f].ref = 0 => file[f] = noFile

\* The open files for an end of a pipe, and the processes that are closing it.
ends(i, w) ==
    {f \in Entries : file[f].type = "FD_PIPE" /\ file[f].of = i /\ file[f].writable = w}
closers(i, w) == {p \in Procs : closing[p] = [of |-> i, writable |-> w]}

\* file.c:61-74, pipe.c:60-74: an end of a pipe is open exactly as long as there is
\* an open file for it or a process about to close it, and there is one of them at
\* most: readers see the end of the input when the last descriptor for writing is
\* gone, not before, and the page is freed once.
EndsOpen ==
    \A i \in Pipes :
        /\ pipe[i].readopen <=> ends(i, FALSE) \cup closers(i, FALSE) # {}
        /\ pipe[i].writeopen <=> ends(i, TRUE) \cup closers(i, TRUE) # {}
        /\ \A w \in BOOLEAN : Cardinality(ends(i, w)) + Cardinality(closers(i, w)) <= 1

\* file.c, sysfile.c: every reference to an open file is counted, also those that
\* fork() copies and exit() drops, and the ends of a pipe are open as long as
\* somebody has them.
FilesExact == FilesTypeOK /\ RefsAreDescriptors /\ EndsOpen
=============================================================================
