------------------------------ MODULE ByteFile ------------------------------
(***************************************************************************)
(* What the file layer promises: an inode is a sequence of bytes, an open   *)
(* file is a position in one, and a step that reads or writes moves the     *)
(* position by what it has read or written.                                 *)
(***************************************************************************)
EXTENDS Integers, Sequences

CONSTANTS
    Inodes,
    Writers,      \* processes that write
    Opens,        \* the open files
    inode,        \* the inode of an open file
    texts,        \* what a process may write to an open file
    Chunk         \* the most bytes that are written in one step

VARIABLES
    content,
    position,
    pending,      \* of each process, what it still has to write, and where
    got           \* what the last step has read

byteVars == <<content, position, pending, got>>

None == [file |-> 0, text |-> <<>>]

ByteInit ==
    /\ content = [i \in Inodes |-> <<>>]
    /\ position = [f \in Opens |-> 0]
    /\ pending = [p \in Writers |-> None]
    /\ got = <<>>

Call(p, f) ==
    /\ pending[p] = None
    /\ \E t \in texts[p][f] : pending' = [pending EXCEPT ![p] = [file |-> f, text |-> t]]
    /\ got' = <<>>
    /\ UNCHANGED <<content, position>>

\* s with t from offset k on; k is at most the length of s.
overwrite(s, k, t) == SubSeq(s, 1, k) \o t \o SubSeq(s, k + Len(t) + 1, Len(s))

Write(p) ==
    LET f == pending[p].file
        text == pending[p].text
    IN  \E n \in 1 .. Chunk :
            /\ n <= Len(text)
            /\ content' = [content EXCEPT ![inode[f]] = overwrite(@, position[f], SubSeq(text, 1, n))]
            /\ position' = [position EXCEPT ![f] = @ + n]
            /\ pending' = [pending EXCEPT ![p] =
                             IF n = Len(text) THEN None
                             ELSE [@ EXCEPT !.text = SubSeq(text, n + 1, Len(text))]]
            /\ got' = <<>>

\* The rest is not written: the file would be too long.
GiveUp(p) ==
    /\ pending[p] # None
    /\ pending' = [pending EXCEPT ![p] = None]
    /\ got' = <<>>
    /\ UNCHANGED <<content, position>>

Read(f) ==
    \E n \in 0 .. Len(content[inode[f]]) - position[f] :
        /\ got' = SubSeq(content[inode[f]], position[f] + 1, position[f] + n)
        /\ position' = [position EXCEPT ![f] = @ + n]
        /\ UNCHANGED <<content, pending>>

\* Removed, and made anew without bytes.
Empty(i) ==
    /\ content' = [content EXCEPT ![i] = <<>>]
    /\ position' = [f \in Opens |-> IF inode[f] = i THEN 0 ELSE position[f]]
    /\ got' = <<>>
    /\ UNCHANGED pending

ByteNext ==
    \/ \E p \in Writers : (\E f \in Opens : Call(p, f)) \/ Write(p) \/ GiveUp(p)
    \/ \E f \in Opens : Read(f)
    \/ \E i \in Inodes : Empty(i)

ByteSpec == ByteInit /\ [][ByteNext]_byteVars
=============================================================================
