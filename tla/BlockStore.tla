----------------------------- MODULE BlockStore -----------------------------
(***************************************************************************)
(* What the buffer cache promises to the log and the file system: a block   *)
(* is in the hands of one process at a time, bread() shows it what was last *)
(* put there, and only the process that has the block changes it.           *)
(***************************************************************************)
CONSTANTS Procs, Blocks, Values, Blank, NoProc

VARIABLES content,   \* what each block holds
          user,      \* who has it, between bread() and brelse()
          view       \* what bread() showed to the process

storeVars == <<content, user, view>>

StoreInit == /\ content = [k \in Blocks |-> Blank]
             /\ user = [k \in Blocks |-> NoProc]
             /\ view = [p \in Procs |-> Blank]

Read(p, k) == /\ user[k] = NoProc
              /\ user' = [user EXCEPT ![k] = p]
              /\ view' = [view EXCEPT ![p] = content[k]]
              /\ UNCHANGED content

Change(p, k, v) == /\ user[k] = p
                   /\ content' = [content EXCEPT ![k] = v]
                   /\ UNCHANGED <<user, view>>

Release(p, k) == /\ user[k] = p
                 /\ user' = [user EXCEPT ![k] = NoProc]
                 /\ view' = [view EXCEPT ![p] = Blank]
                 /\ UNCHANGED content

StoreNext == \E p \in Procs, k \in Blocks : \/ Read(p, k)
                                            \/ Release(p, k)
                                            \/ \E v \in Values : Change(p, k, v)

StoreSpec == StoreInit /\ [][StoreNext]_storeVars
=============================================================================
