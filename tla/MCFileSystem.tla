---------------------------- MODULE MCFileSystem ----------------------------
(***************************************************************************)
(* FileSystem with seven calls on a file and a directory, chosen so that    *)
(* two processes create, link, find and remove the same names; and with six *)
(* calls by which one process comes to the parent of a removed directory.   *)
(***************************************************************************)
EXTENDS FileSystem, TLC

absolute(op, path, new) == [op |-> op, relative |-> FALSE, path |-> path, new |-> new]

\* Files are made and removed relative to the current directory, which may be b, removed
\* or not.
MCCalls == {[absolute("create", <<"a">>, <<>>) EXCEPT !.relative = TRUE],
            absolute("mkdir", <<"b">>, <<>>),
            absolute("link", <<"a">>, <<"b", "a">>),
            absolute("open", <<"b", "a">>, <<>>),
            absolute("chdir", <<"b">>, <<>>),
            [absolute("unlink", <<"a">>, <<>>) EXCEPT !.relative = TRUE],
            absolute("unlink", <<"b">>, <<>>)}

\* Processes differ in their names only.
Symmetry == Permutations(Procs)

\* A directory is made in another, entered, removed together with it, and left by its "..".
RemovedParentCalls == {absolute("mkdir", <<"a">>, <<>>),
                       absolute("mkdir", <<"a", "b">>, <<>>),
                       absolute("chdir", <<"a", "b">>, <<>>),
                       absolute("unlink", <<"a", "b">>, <<>>),
                       absolute("unlink", <<"a">>, <<>>),
                       [absolute("chdir", <<"..">>, <<>>) EXCEPT !.relative = TRUE]}
=============================================================================
