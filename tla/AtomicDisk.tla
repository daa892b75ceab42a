----------------------------- MODULE AtomicDisk -----------------------------
(***************************************************************************)
(* What the logging layer promises to the file system: the disk changes     *)
(* from one state to the next atomically, and only when no file system call *)
(* is in progress, so that a crash never leaves half a call on the disk.    *)
(***************************************************************************)
CONSTANTS Ops, Blocks, Values, Blank

VARIABLES durable,   \* what the disk will hold after a crash and a reboot
          current,   \* what the file system sees
          active     \* the calls between begin_op() and end_op()

diskVars == <<durable, current, active>>

DiskInit == /\ durable = [b \in Blocks |-> Blank]
            /\ current = durable
            /\ active = {}

Begin(o) == /\ o \notin active
            /\ active' = active \cup {o}
            /\ UNCHANGED <<durable, current>>

Write(o, b, v) == /\ o \in active
                  /\ current' = [current EXCEPT ![b] = v]
                  /\ UNCHANGED <<durable, active>>

End(o) == /\ o \in active
          /\ active' = active \ {o}
          /\ UNCHANGED <<durable, current>>

Commit == /\ active = {}
          /\ durable' = current
          /\ UNCHANGED <<current, active>>

Crash == /\ current' = durable
         /\ active' = {}
         /\ UNCHANGED durable

DiskNext == \/ \E o \in Ops : \/ Begin(o)
                              \/ End(o)
                              \/ \E b \in Blocks, v \in Values : Write(o, b, v)
            \/ Commit
            \/ Crash

DiskSpec == DiskInit /\ [][DiskNext]_diskVars
=============================================================================
