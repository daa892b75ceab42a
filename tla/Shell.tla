-------------------------------- MODULE Shell --------------------------------
(***************************************************************************)
(* The GUI shell (src/shell.c) and the commands it runs.  For every line    *)
(* the shell makes a pipe, forks a child that parses and runs the line with *)
(* its output to the pipe, and reads the pipe up to its end; a GUI program  *)
(* alone on its line is only started.  A process is the system calls it     *)
(* still has to make; runcmd() says which they are for a command.  Parser   *)
(* and descriptors are modules CommandLine and Files.                       *)
(***************************************************************************)
EXTENDS CommandLine, Files

CONSTANTS
    shell,         \* the process of the shell
    init,          \* the parent of orphans, not one of Procs
    Lines,         \* lines that are entered
    MaxCommands,   \* bound: how many
    MaxForkFails   \* bound: forks that fail for lack of memory

VARIABLES
    state, parent,  \* of every process
    todo,           \* the system calls a process still makes
    pfd,            \* the descriptors its last pipe() gave it
    prog,           \* the word of the program it runs, 0: none
    job,            \* number and text of the line it works for
    made,           \* what a pipe was made for
    commands, leaks,
    forkFails

procVars == <<state, parent, todo, pfd, prog, job>>
shellVars == <<procVars, made, commands, leaks, forkFails>>

----------------------------------------------------------------------------
(* What a process does, as the system calls it makes.  The descriptors of    *)
(* its pipe are written R and W.                                             *)

R == -1
W == -2
fdOf(p, x) == CASE x = R -> pfd[p].r [] x = W -> pfd[p].w [] OTHER -> x

close(x) == [op |-> "close", fd |-> x]
dup(x) == [op |-> "dup", fd |-> x]
open(word, mode) == [op |-> "open", word |-> word, mode |-> mode]
pipe2(for) == [op |-> "pipe", for |-> for]
fork(code) == [op |-> "fork", code |-> code]
call(name) == [op |-> name]
write(item, strict) == [op |-> "write", item |-> item, strict |-> strict]
run(cmd) == [op |-> "runcmd", cmd |-> cmd]

\* Slips: the right program keeps its descriptor for writing to the pipe; dup()
\* comes before close().
runPipeKeepsEnd(cmd) ==
    <<pipe2(cmd),
      fork(<<close(1), dup(W), close(R), close(W), run(cmd.left)>>),
      fork(<<close(0), dup(R), close(R), run(cmd.right)>>),
      close(R), close(W), call("wait"), call("wait"), call("exit")>>
runPipeDupsFirst(cmd) ==
    <<pipe2(cmd),
      fork(<<dup(W), close(1), close(R), close(W), run(cmd.left)>>),
      fork(<<close(0), dup(R), close(R), close(W), run(cmd.right)>>),
      close(R), close(W), call("wait"), call("wait"), call("exit")>>

runPipe(cmd) ==
    <<pipe2(cmd),
      fork(<<close(1), dup(W), close(R), close(W), run(cmd.left)>>),
      fork(<<close(0), dup(R), close(R), close(W), run(cmd.right)>>),
      close(R), close(W), call("wait"), call("wait"), call("exit")>>

runcmd(cmd) ==
    CASE cmd.type = "panic" -> <<call("exit")>>
      [] cmd.type = "EXEC" ->
            IF cmd.argv = <<>> THEN <<call("exit")>>
            ELSE <<[op |-> "exec", word |-> cmd.argv[1]]>>
      [] cmd.type = "REDIR" ->
            <<close(cmd.fd), open(cmd.file, IF cmd.fd = 0 THEN "O_RDONLY" ELSE "O_WRONLY"),
              run(cmd.cmd)>>
      [] cmd.type = "LIST" -> <<fork(<<run(cmd.left)>>), call("wait"), run(cmd.right)>>
      [] cmd.type = "PIPE" -> runPipe(cmd)
      [] cmd.type = "BACK" -> <<fork(<<run(cmd.cmd)>>), call("exit")>>

\* runcmd() is no system call: it happens along with the one before it.
cont(code) ==
    IF code # <<>> /\ Head(code).op = "runcmd" THEN runcmd(Head(code).cmd) ELSE code

GUI_programs == {"shell", "editor", "explorer", "demo"}

\* A slip: the shell keeps its own descriptor for writing.
inputKeepsEnd(text) ==
    <<pipe2([type |-> "line"]),
      fork(<<close(R), close(1), dup(W), run(parsecmd(text))>>),
      close(0), dup(R), call("readall")>>

\* inputHandler() for a line, from pipe() to the end of its output.
inputHandler(text) ==
    LET child == run(parsecmd(text)) IN
    IF Len(text) = 1 /\ text[1] \in GUI_programs
    THEN <<pipe2([type |-> "line"]), fork(<<child>>)>>
    ELSE <<pipe2([type |-> "line"]),
           fork(<<close(R), close(1), dup(W), child>>),
           close(W), close(0), dup(R), call("readall")>>

\* The programs that are there (src/echo.c, src/cat.c without arguments; a
\* program whose output starts with a NUL; one with a window).
program(name) ==
    CASE name = "echo" -> <<write("text", FALSE), call("exit")>>
      [] name = "cat" -> <<call("copy"), call("exit")>>
      [] name = "raw" -> <<write("nul", FALSE), write("text", FALSE), write("text", FALSE),
                           call("exit")>>
      [] name \in GUI_programs -> <<call("window"), call("exit")>>
      [] OTHER -> <<call("exit")>>     \* exec() fails, and a message is printed

----------------------------------------------------------------------------

\* p is about to make a call, and has returned from close().
Running(p, name) ==
    /\ state[p] = "RUNNING" /\ closing[p] = noEnd
    /\ todo[p] # <<>> /\ Head(todo[p]).op = name
arg(p) == Head(todo[p])

done(p) == todo' = [todo EXCEPT ![p] = cont(Tail(@))]
giveUp(p) == todo' = [todo EXCEPT ![p] = <<call("exit")>>]

\* Only the calls that are left change, of what is not about files.
onlyTodo == UNCHANGED <<state, parent, pfd, prog, job, made, commands, leaks, forkFails>>

Close(p) == Running(p, "close") /\ sys_close(p, fdOf(p, arg(p).fd)) /\ done(p) /\ onlyTodo

CloseEnd(p) == closeEnd(p) /\ UNCHANGED todo /\ onlyTodo

\* dup(): the shell and runcmd() do not look at the result.
Dup(p) ==
    /\ Running(p, "dup")
    /\ IF canDup(p, fdOf(p, arg(p).fd)) THEN sys_dup(p, fdOf(p, arg(p).fd))
       ELSE UNCHANGED fileVars
    /\ done(p) /\ onlyTodo

Open(p) ==
    /\ Running(p, "open")
    /\ IF canOpen(p)
       THEN sys_open(p, job[p].text[arg(p).word], arg(p).mode) /\ done(p)
       ELSE UNCHANGED fileVars /\ giveUp(p)
    /\ onlyTodo

MakePipe(p) ==
    /\ Running(p, "pipe")
    /\ IF canPipe(p)
       THEN LET i == (CHOOSE i \in Pipes : pipe[i] = noPipe) IN
            /\ sys_pipe(p, i)
            /\ pfd' = [pfd EXCEPT ![p] = [r |-> fdalloc(p), w |-> Min(freeFds(p) \ {fdalloc(p)})]]
            /\ made' = [made EXCEPT ![i] = <<"pipe", job[p].n, arg(p).for>>]
            /\ done(p)
       ELSE UNCHANGED <<fileVars, pfd, made>> /\ giveUp(p)
    /\ UNCHANGED <<state, parent, prog, job, commands, leaks, forkFails>>

Fork(p) ==
    /\ Running(p, "fork")
    /\ \/ /\ \E q \in Procs : state[q] = "UNUSED"
          /\ LET q == CHOOSE q \in Procs : state[q] = "UNUSED" IN
             /\ forkFiles(p, q)
             /\ state' = [state EXCEPT ![q] = "RUNNING"]
             /\ parent' = [parent EXCEPT ![q] = p]
             /\ todo' = [todo EXCEPT ![p] = cont(Tail(@)), ![q] = cont(arg(p).code)]
             /\ pfd' = [pfd EXCEPT ![q] = pfd[p]]
             /\ job' = [job EXCEPT ![q] = job[p]]
          /\ UNCHANGED forkFails
       \/ /\ \/ (\A q \in Procs : state[q] # "UNUSED") /\ UNCHANGED forkFails
             \/ forkFails < MaxForkFails /\ forkFails' = forkFails + 1
          /\ giveUp(p)
          /\ UNCHANGED <<fileVars, state, parent, pfd, job>>
    /\ UNCHANGED <<prog, made, commands, leaks>>

Exec(p) ==
    /\ Running(p, "exec")
    /\ prog' = [prog EXCEPT ![p] = arg(p).word]
    /\ todo' = [todo EXCEPT ![p] = program(job[p].text[arg(p).word])]
    /\ UNCHANGED <<fileVars, state, parent, pfd, job, made, commands, leaks, forkFails>>

children(p) == {q \in Procs : parent[q] = p /\ state[q] # "UNUSED"}
zombies(p) == {q \in children(p) : state[q] = "ZOMBIE"}

Wait(p) ==
    /\ Running(p, "wait")
    /\ \/ children(p) = {} /\ UNCHANGED state
       \/ \E q \in zombies(p) : state' = [state EXCEPT ![q] = "UNUSED"]
    /\ done(p)
    /\ UNCHANGED <<fileVars, parent, pfd, prog, job, made, commands, leaks, forkFails>>

\* exit() closes the descriptors one by one.
ExitCloses(p) ==
    /\ Running(p, "exit") /\ ofile[p] # closedAll
    /\ sys_close(p, Min(Fds \ freeFds(p)))
    /\ UNCHANGED todo /\ onlyTodo

Exit(p) ==
    /\ Running(p, "exit") /\ ofile[p] = closedAll
    /\ state' = [state EXCEPT ![p] = "ZOMBIE"]
    /\ parent' = [q \in Procs |-> IF parent[q] = p THEN init ELSE parent[q]]
    /\ todo' = [todo EXCEPT ![p] = <<>>]
    /\ prog' = [prog EXCEPT ![p] = 0]
    /\ UNCHANGED <<fileVars, pfd, job, made, commands, leaks, forkFails>>

----------------------------------------------------------------------------

\* echo goes on whether it could write or not, cat does not.
Write(p) ==
    /\ Running(p, "write")
    /\ \/ writeFails(p, 1) /\ UNCHANGED fileVars
          /\ IF arg(p).strict THEN giveUp(p) ELSE done(p)
       \/ /\ ~writeFails(p, 1) /\ ~writeWaits(p, 1)
          /\ filewrite(p, 1, arg(p).item) /\ done(p)
    /\ onlyTodo

\* consoleread() sleeps until a line comes, which never does: the keyboard's bytes go
\* to the window manager, and nobody types on the serial line.
readsConsole(p, fd) == isOpen(p, fd) /\ file[ofile[p][fd]].of = "console"

\* cat: what is read is written, until there is no more.  Files are at their end.
Copy(p) ==
    /\ Running(p, "copy") /\ ~readsConsole(p, 0)
    /\ IF hasData(p, 0)
       THEN LET data == pipe[pipeOf(p, 0)].data IN
            /\ fileread(p, 0)
            /\ todo' = [todo EXCEPT ![p] =
                           [k \in DOMAIN data |-> write(data[k], TRUE)] \o @]
       ELSE ~readWaits(p, 0) /\ UNCHANGED fileVars /\ done(p)
    /\ onlyTodo

\* The shell reads until there is no more, or what it gets is no text.
ReadAll(p) ==
    /\ Running(p, "readall")
    /\ IF hasData(p, 0)
       THEN /\ fileread(p, 0)
            /\ IF Head(pipe[pipeOf(p, 0)].data) = "nul" THEN done(p) ELSE UNCHANGED todo
       ELSE ~readWaits(p, 0) /\ UNCHANGED fileVars /\ done(p)
    /\ onlyTodo

\* The user closes the window of a program.
WindowCloses(p) == Running(p, "window") /\ done(p) /\ onlyTodo /\ UNCHANGED fileVars

\* updateWindow() and inputHandler(): somebody enters a line.
EnterLine(text) ==
    /\ state[shell] = "RUNNING" /\ todo[shell] = <<>>
    /\ commands < MaxCommands
    /\ commands' = commands + 1
    /\ leaks' = leaks + IF Len(text) = 1 /\ text[1] \in GUI_programs THEN 2 ELSE 1
    /\ todo' = [todo EXCEPT ![shell] = inputHandler(text)]
    /\ job' = [job EXCEPT ![shell] = [n |-> commands + 1, text |-> text]]
    /\ UNCHANGED <<fileVars, state, parent, pfd, prog, made, forkFails>>

\* init waits for orphans.  Nobody waits for the shell, and the shell for nobody.
InitReaps ==
    /\ \E q \in zombies(init) : q # shell /\ state' = [state EXCEPT ![q] = "UNUSED"]
    /\ UNCHANGED <<fileVars, parent, todo, pfd, prog, job, made, commands, leaks, forkFails>>

----------------------------------------------------------------------------

\* The shell was started with the console as its three files.
InitFiles ==
    /\ file = [f \in Entries |->
                  IF f = 1 THEN [ref |-> 3, type |-> "FD_INODE", of |-> "console",
                                 readable |-> TRUE, writable |-> TRUE]
                  ELSE noFile]
    /\ ofile = [p \in Procs |-> [fd \in Fds |-> IF p = shell /\ fd <= 2 THEN 1 ELSE none]]
    /\ pipe = [i \in Pipes |-> noPipe]
    /\ closing = [p \in Procs |-> noEnd]

InitShell ==
    /\ state = [p \in Procs |-> IF p = shell THEN "RUNNING" ELSE "UNUSED"]
    /\ parent = [p \in Procs |-> init]
    /\ todo = [p \in Procs |-> <<>>]
    /\ pfd = [p \in Procs |-> [r |-> 0, w |-> 0]]
    /\ prog = [p \in Procs |-> 0]
    /\ job = [p \in Procs |-> [n |-> 0, text |-> <<>>]]
    /\ made = [i \in Pipes |-> <<"none">>]
    /\ commands = 0 /\ leaks = 0 /\ forkFails = 0

Step(p) ==
    \/ Close(p) \/ CloseEnd(p) \/ Dup(p) \/ Open(p) \/ MakePipe(p)
    \/ Fork(p) \/ Exec(p) \/ Wait(p) \/ ExitCloses(p) \/ Exit(p)
    \/ Write(p) \/ Copy(p) \/ ReadAll(p)

NextShell ==
    \/ \E p \in Procs : Step(p) \/ WindowCloses(p)
    \/ \E text \in Lines : EnterLine(text)
    \/ InitReaps

----------------------------------------------------------------------------
(* Properties.                                                             *)

\* What a descriptor is connected to.
connected(p, fd) ==
    IF ~isOpen(p, fd) THEN <<"closed">>
    ELSE IF isPipe(p, fd) THEN made[pipeOf(p, fd)]
    ELSE <<"file", file[ofile[p][fd]].of>>

RECURSIVE wires(_, _, _, _)

\* The reference: what the programs of a command are connected to, if the
\* command is to in and out.  A pair of programs is connected by the pipe that
\* was made for it; of two redirections of a descriptor the first counts.
wires(cmd, j, in, out) ==
    CASE cmd.type = "panic" -> {}
      [] cmd.type = "EXEC" -> IF cmd.argv = <<>> THEN {} ELSE {<<cmd.argv[1], in, out>>}
      [] cmd.type = "REDIR" ->
            LET f == <<"file", j.text[cmd.file]>>
            IN IF cmd.fd = 0 THEN wires(cmd.cmd, j, f, out) ELSE wires(cmd.cmd, j, in, f)
      [] cmd.type = "PIPE" -> wires(cmd.left, j, in, <<"pipe", j.n, cmd>>)
                              \cup wires(cmd.right, j, <<"pipe", j.n, cmd>>, out)
      [] cmd.type = "LIST" -> wires(cmd.left, j, in, out) \cup wires(cmd.right, j, in, out)
      [] cmd.type = "BACK" -> wires(cmd.cmd, j, in, out)

commandOf == [text \in Lines |-> parsecmd(text)]
console == <<"file", "console">>
outputOf(n) == <<"pipe", n, [type |-> "line"]>>

\* shell.c:85-163, 178-252: every program runs with the input and output its line
\* says.  All the calls of close(), dup(), pipe() and open() that lead there
\* rely on getting the lowest free descriptor, in a table that is fuller with
\* every command.  (The input of a line is the console for the first one, then
\* the output of an earlier one, which the shell has as its own input.)
StartsRight ==
    \A p \in Procs : (state[p] = "RUNNING" /\ prog[p] # 0 /\ Head(todo[p]).op # "exit") =>
        LET j == job[p]
            gui == Len(j.text) = 1 /\ j.text[1] \in GUI_programs
        IN \E in \in {console} \cup {outputOf(m) : m \in 1 .. j.n - 1} :
              <<prog[p], connected(p, 0), connected(p, 1)>>
                \in wires(commandOf[j.text], j, in, IF gui THEN console ELSE outputOf(j.n))

\* shell.c:207-252: what the lines so far leave open in a shell that waits for the
\* next one: one descriptor each, two for a GUI program, and nothing else.  The
\* shell never closes them, so that it lasts for NOFILE - 4 lines at most.
LeftOpen ==
    (state[shell] = "RUNNING" /\ todo[shell] = <<>>) =>
        Cardinality(Fds \ freeFds(shell)) = 3 + leaks

\* A program of line n has its window open, or waits for a line at the console.
windowOpen(n) == \E p \in Procs : Running(p, "window") /\ job[p].n = n
waitsForLine(n) == \E p \in Procs : Running(p, "copy") /\ readsConsole(p, 0) /\ job[p].n = n

\* A process of a command that neither waits for the user nor, as a program that
\* writes a NUL may, for the shell, which has stopped reading.
atWork(p) ==
    /\ state[p] = "RUNNING" /\ p # shell
    /\ ~windowOpen(job[p].n) /\ ~waitsForLine(job[p].n)
    /\ "raw" \notin ToSet(job[p].text)

\* shell.c:85-163, 243: the shell comes back from every line, and when no more lines
\* are entered, every process of a command ends: nobody keeps an end of a pipe that
\* others wait for to be closed, also if a fork() in between failed.  A window may
\* stay open for ever; a program that reads from the console waits for a line that
\* does not come, and the shell with it; a program that writes a NUL may wait for
\* ever for the shell.
CommandsEnd ==
    /\ (todo[shell] # <<>>) ~> \/ todo[shell] = <<>>
                               \/ windowOpen(job[shell].n) \/ waitsForLine(job[shell].n)
    /\ <>[](\A p \in Procs : ~atWork(p))
=============================================================================
