--------------------------- MODULE MCWindowManager ---------------------------
(***************************************************************************)
(* The window manager with a bound on the events of behaviours in which a   *)
(* process ends without closing its window, has none, or its handler sleeps. *)
(***************************************************************************)
EXTENDS WindowManager

CONSTANT MaxEventsThen

\* One process ends like that.  Such a step, or an event after it, is taken only up to
\* this number of events.
Few == /\ Cardinality({p \in Procs : pc[p] = "gone"}) <= 1
       /\ "no window" \in faults \/ (\E p \in Procs : pc[p] \in {"gone", "busy"})
            => events <= MaxEventsThen

MCSpec == Init /\ [][Next /\ Few']_vars /\ Fairness
=============================================================================
