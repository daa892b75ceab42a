------------------------------- MODULE MCShell -------------------------------
(***************************************************************************)
(* The shell with a few lines, the parser with all short ones, any calls    *)
(* that are about files, the matcher of grep with all short patterns, or    *)
(* the loop of grep with two inputs.                                        *)
(***************************************************************************)
EXTENDS Shell

CONSTANTS MaxOpen, Chars, Letters, MaxPattern, MaxText, BUFSIZE, Inputs

VARIABLES part, re, unread, held, out, taken, lost

G == INSTANCE Grep

grepVars == <<re, unread, held, out, taken, lost>>

MCInputs == {<<"a", "b", "/", "b", "/", "/", "a", "/", "b">>, <<"a", "a", "/", "a", "b", "/">>}

MCLines == {<<"echo", "|", "cat">>, <<"cat", "<", "f", ">", "g", ">", "h">>,
            <<"echo", ";", "cat">>, <<"echo", "&">>, <<"raw">>, <<"editor">>,
            <<"editor", "&">>, <<"cat">>, <<"nope">>,
            <<"(", "echo", "|", "cat", ")", ">", "f">>, <<"echo", "&", "cat">>}

\* Bound: the lines that are entered behind another one; none if a fork failed.
MCSecondLines == {<<"echo", "|", "cat">>, <<"cat">>, <<"editor", "&">>}

\* Bound: descriptors of two processes that are open, on two pipes and on one file, when
\* they make any call; what is in a pipe does not matter.
FewOpen ==
    /\ Cardinality({x \in Procs \X Fds : ofile[x[1]][x[2]] # none}) <= MaxOpen
    /\ \A p \in Procs \ {1, 2} : ofile[p] = closedAll
    /\ pipe[CHOOSE i \in Pipes : TRUE] = noPipe
    /\ \A i \in Pipes : pipe[i].data \in {<<>>, <<"text">>}
    /\ \A f \in Entries : file[f].type = "FD_INODE" =>
                           file[f].of = "f" /\ file[f].readable /\ file[f].writable

FewSeconds == commands > 1 => job[shell].text \in MCSecondLines /\ forkFails = 0

MCInit ==
    /\ part \in {"parser", "shell", "files", "patterns", "grep"}
    /\ InitLine
    /\ IF part = "files" THEN FilesInit ELSE InitFiles
    /\ InitShell
    /\ IF part = "grep" THEN G!InitGrep ELSE G!InitPattern

MCNext ==
    \/ part = "parser" /\ TypeToken /\ UNCHANGED <<part, fileVars, shellVars, grepVars>>
    \/ part = "shell" /\ NextShell /\ FewSeconds' /\ UNCHANGED <<part, line, grepVars>>
    \/ part = "files" /\ (\E p \in {1, 2} : IF closing[p] = noEnd THEN Call(p) ELSE closeEnd(p))
                      /\ FewOpen'
       /\ UNCHANGED <<part, line, shellVars, grepVars>>
    \/ part = "patterns" /\ G!TypePattern /\ UNCHANGED <<part, line, fileVars, shellVars>>
    \/ part = "grep" /\ G!grep /\ UNCHANGED <<part, line, fileVars, shellVars>>

MCVars == <<part, line, fileVars, shellVars, grepVars>>

\* As long as some process can make its next call, some process does.
MCSpec ==
    /\ MCInit /\ [][MCNext]_MCVars
    /\ WF_MCVars(part = "shell" /\ (\E p \in Procs : Step(p)) /\ UNCHANGED <<part, line, grepVars>>)

\* shell.c:85-163, 178-252: every program runs with the input and output its line
\* says, although all of close(), dup(), pipe() and open() rely on the lowest free
\* descriptor in a table that is fuller with every line; and what lines leave open in
\* the shell is one descriptor each, two for a GUI program, and nothing else.
DescriptorsRight == part = "shell" => StartsRight /\ LeftOpen

\* grep.c:11-106: the matcher finds a match if and only if there is one; and however
\* read() cuts the input, the lines written are the matching lines, in order, unless
\* a read ends with no complete line in the buffer, which is dropped then.
GrepRight ==
    /\ part = "patterns" => G!MatchesAnywhere
    /\ part = "grep" => G!LinesFound
=============================================================================
