------------------------------- MODULE MCInput -------------------------------
(***************************************************************************)
(* Both ways into the machine: the PS/2 devices, whose events go to the     *)
(* window manager, and the serial line, whose characters go to the console. *)
(* They share nothing, so that each behaviour uses one of the two.  Longer   *)
(* ones have the left button only.                                          *)
(***************************************************************************)
EXTENDS InputDevices, Console, TLC

CONSTANT MaxMixed    \* bound: events of all kinds, as MaxEvents is of the left button's

VARIABLE terminal

\* Left and middle button with and without movement, and a movement too large.
MCReports == {<<0, 0, 0, 0>>, <<1, 0, 0, 0>>, <<4, 0, 0, 0>>,
              <<0, 0, 12, 0>>, <<1, 0, 12, 0>>, <<0, 64, 200, 0>>}
MCKeys == {<<42>>, <<224, 29>>}   \* left shift, right control
MCLines == {<<"x", "nl">>}

\* Readers differ in their names only.
Symmetry == Permutations(Readers)

\* No key, no movement and no button but the left one.
leftOnly ==
    /\ keys' = {}
    /\ mouseQ = <<>> => mouseQ' \in {<<>>, <<8, 0, 0>>, <<9, 0, 0>>}

MCInit ==
    /\ terminal \in {"ps2", "clicks", "serial"}
    /\ Init
    /\ terminal = "clicks" => mouseQ = <<>>
    /\ ConsoleInit

MCNext ==
    \/ terminal = "ps2" /\ Next /\ events' <= MaxMixed /\ UNCHANGED <<terminal, consoleVars>>
    \/ terminal = "clicks" /\ Next /\ leftOnly /\ UNCHANGED <<terminal, consoleVars>>
    \/ terminal = "serial" /\ ConsoleNext /\ UNCHANGED <<terminal, vars>>

MCSpec == MCInit /\ [][MCNext]_<<terminal, vars, consoleVars>>
=============================================================================
