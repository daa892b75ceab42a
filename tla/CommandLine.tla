----------------------------- MODULE CommandLine -----------------------------
(***************************************************************************)
(* The parser of command lines, the same in src/sh.c and src/shell.c.  A    *)
(* line is the sequence of the tokens that gettoken() finds in it; a token  *)
(* that is no symbol is a word.  A command is a tree whose words are their  *)
(* positions in the line, as the parser leaves them in place.  A parsing    *)
(* function returns the command and the position behind it, or panics.      *)
(***************************************************************************)
EXTENDS Integers, Sequences, SequencesExt

CONSTANTS
    Tokens,     \* the tokens that are typed
    MAXARGS,
    MaxTokens   \* bound: the length of a line

VARIABLE line

Symbols == {"|", "(", ")", ";", "&", "<", ">", ">>"}

isWord(s, i) == i \in DOMAIN s /\ s[i] \notin Symbols

----------------------------------------------------------------------------
(* Constructors *)

execcmd(argv) == [type |-> "EXEC", argv |-> argv]
redircmd(subcmd, file, fd) == [type |-> "REDIR", cmd |-> subcmd, file |-> file, fd |-> fd]
pipecmd(left, right) == [type |-> "PIPE", left |-> left, right |-> right]
listcmd(left, right) == [type |-> "LIST", left |-> left, right |-> right]
backcmd(subcmd) == [type |-> "BACK", cmd |-> subcmd]

----------------------------------------------------------------------------
(* Parsing *)

panic == [cmd |-> [type |-> "panic"], at |-> 0]
panics(r) == r.at = 0

\* What follows a part of the line that was parsed.
after(r, F(_)) == IF panics(r) THEN panic ELSE F(r)

peek(s, i, toks) == i \in DOMAIN s /\ s[i] \in toks

RECURSIVE redirections(_, _, _), arguments(_, _, _, _), parseline(_, _), parsepipe(_, _)

\* The loop of parseredirs(): the redirections are added to rs.
redirections(s, i, rs) ==
    IF ~peek(s, i, {"<", ">", ">>"}) THEN [cmd |-> rs, at |-> i]
    ELSE IF ~isWord(s, i + 1) THEN panic
    ELSE redirections(s, i + 2,
            Append(rs, [file |-> i + 1, fd |-> IF s[i] = "<" THEN 0 ELSE 1]))

\* The redirections are around the command, the last outermost.
parseredirs(cmd, rs) == FoldLeft(LAMBDA c, r : redircmd(c, r.file, r.fd), cmd, rs)

\* The loop of parseexec(): arguments and redirections, as they come.
arguments(s, i, argv, rs) ==
    after(redirections(s, i, rs), LAMBDA r :
        IF r.at > Len(s) \/ peek(s, r.at, {"|", ")", "&", ";"})
        THEN [cmd |-> parseredirs(execcmd(argv), r.cmd), at |-> r.at]
        ELSE IF ~isWord(s, r.at) \/ Len(argv) + 1 >= MAXARGS THEN panic
        ELSE arguments(s, r.at + 1, Append(argv, r.at), r.cmd))

parseblock(s, i) ==
    after(parseline(s, i + 1), LAMBDA inner :
        IF ~peek(s, inner.at, {")"}) THEN panic
        ELSE after(redirections(s, inner.at + 1, <<>>), LAMBDA r :
                [cmd |-> parseredirs(inner.cmd, r.cmd), at |-> r.at]))

parseexec(s, i) ==
    IF peek(s, i, {"("}) THEN parseblock(s, i) ELSE arguments(s, i, <<>>, <<>>)

parsepipe(s, i) ==
    after(parseexec(s, i), LAMBDA left :
        IF ~peek(s, left.at, {"|"}) THEN left
        ELSE after(parsepipe(s, left.at + 1), LAMBDA right :
                [cmd |-> pipecmd(left.cmd, right.cmd), at |-> right.at]))

\* The "&"s behind a command.
background(s, r) ==
    LET j == CHOOSE j \in r.at .. Len(s) + 1 :
                /\ ~peek(s, j, {"&"})
                /\ \A k \in r.at .. j - 1 : s[k] = "&"
    IN [cmd |-> FoldLeft(LAMBDA c, k : backcmd(c), r.cmd, SubSeq(s, r.at, j - 1)), at |-> j]

parseline(s, i) ==
    after(parsepipe(s, i), LAMBDA first :
        after(background(s, first), LAMBDA r :
            IF ~peek(s, r.at, {";"}) THEN r
            ELSE after(parseline(s, r.at + 1), LAMBDA rest :
                    [cmd |-> listcmd(r.cmd, rest.cmd), at |-> rest.at])))

RECURSIVE nulterminate(_)

\* The words that get a NUL behind them, in the order in which they do.
nulterminate(cmd) ==
    CASE cmd.type = "EXEC" -> cmd.argv
      [] cmd.type = "REDIR" -> Append(nulterminate(cmd.cmd), cmd.file)
      [] cmd.type \in {"PIPE", "LIST"} -> nulterminate(cmd.left) \o nulterminate(cmd.right)
      [] cmd.type = "BACK" -> nulterminate(cmd.cmd)

\* A slip: what is left of the line is ignored.
parseSome(s) == parseline(s, 1).cmd

\* The command of a line; what is left of the line is an error.
parsecmd(s) ==
    after(parseline(s, 1), LAMBDA r : IF r.at # Len(s) + 1 THEN panic ELSE r).cmd

----------------------------------------------------------------------------

\* Somebody types a line; all lines are parsed on the way.
InitLine == line = <<>>
TypeToken == Len(line) < MaxTokens /\ \E t \in Tokens : line' = Append(line, t)

----------------------------------------------------------------------------
(* The reference: the grammar, on whole lines instead of from left to right. *)

RECURSIVE isLine(_), isPipeline(_)

isRedirected(s) ==
    \A i \in DOMAIN s : IF i % 2 = 1 THEN s[i] \in {"<", ">", ">>"} /\ isWord(s, i + 1)
                        ELSE isWord(s, i)

\* Words and redirections in any order, and less than MAXARGS arguments.
isSimple(s) ==
    LET target(i) == i > 1 /\ s[i - 1] \notin {"|", "(", ")", ";", "&"} /\ ~isWord(s, i - 1)
    IN /\ \A i \in DOMAIN s :
            \/ isWord(s, i)
            \/ s[i] \in {"<", ">", ">>"} /\ isWord(s, i + 1)
       /\ Len(SelectSeq([i \in DOMAIN s |-> isWord(s, i) /\ ~target(i)],
                        LAMBDA arg : arg)) < MAXARGS

isBlock(s) ==
    /\ s # <<>> /\ s[1] = "("
    /\ \E k \in DOMAIN s : /\ s[k] = ")"
                           /\ isLine(SubSeq(s, 2, k - 1))
                           /\ isRedirected(SubSeq(s, k + 1, Len(s)))

isPipeline(s) ==
    \/ isSimple(s)
    \/ isBlock(s)
    \/ \E k \in DOMAIN s : /\ s[k] = "|"
                           /\ LET left == SubSeq(s, 1, k - 1)
                              IN isSimple(left) \/ isBlock(left)
                           /\ isPipeline(SubSeq(s, k + 1, Len(s)))

isLine(s) ==
    \E j \in 0 .. Len(s), k \in 0 .. Len(s) :
        /\ j <= k /\ isPipeline(SubSeq(s, 1, j))
        /\ \A i \in j + 1 .. k : s[i] = "&"
        /\ \/ k = Len(s)
           \/ s[k + 1] = ";" /\ isLine(SubSeq(s, k + 2, Len(s)))

\* sh.c:375-510, shell.c:488-596: the parser, which decides on the next token
\* alone, accepts exactly the lines of its grammar, and sh.c:513-531: in a command
\* that is run every word of the line was terminated once, so that no argument
\* runs into the rest of the line.
ParsesGrammar ==
    LET cmd == parsecmd(line)
        words == {i \in DOMAIN line : isWord(line, i)}
    IN /\ (cmd.type # "panic") <=> isLine(line)
       /\ cmd.type # "panic" =>
            LET ends == nulterminate(cmd)
            IN IsInjective(ends) /\ ToSet(ends) = words
=============================================================================
