---------------------------- MODULE AtomicOutput ----------------------------
(***************************************************************************)
(* What the file operations of agecrypt promise about the destination      *)
(* path, without temporary files or system calls (fileio.h, the comments   *)
(* above commit_output and run_file_transform in binding.c):               *)
(*                                                                         *)
(*   - the destination changes in ONE step from what it held to the whole  *)
(*     result of a call; nobody ever sees part of a result;                *)
(*   - a call that may not overwrite installs only where nothing is;       *)
(*   - a call that fails, or dies, before that step leaves no trace there; *)
(*   - a power failure leaves what the path held at some earlier moment.   *)
(***************************************************************************)
CONSTANTS
    Procs,         \* the callers: R sessions working on one destination path
    MayOverwrite,  \* the callers that pass overwrite = TRUE
    NoFile,        \* the destination does not exist
    Foreign,       \* a file put there by another program
    Whole(_)       \* Whole(p) is the complete result of p's call

VARIABLES
    dst,   \* what the destination path holds
    kept,  \* what it would hold after a power failure
    st     \* the state of each caller

vars == <<dst, kept, st>>

States == {"running", "installed", "failed", "dead"}

Init == /\ dst \in {NoFile, Foreign}
        /\ kept = dst
        /\ st = [p \in Procs |-> "running"]

\* The one step by which a call changes the destination.
Install(p) ==
    /\ st[p] = "running"
    /\ p \in MayOverwrite \/ dst = NoFile
    /\ dst' = Whole(p)
    /\ st' = [st EXCEPT ![p] = "installed"]
    /\ UNCHANGED kept

Fail(p) ==
    /\ st[p] = "running"
    /\ st' = [st EXCEPT ![p] = "failed"]
    /\ UNCHANGED <<dst, kept>>

Die(p) ==
    /\ st[p] \in {"running", "installed"}
    /\ st' = [st EXCEPT ![p] = "dead"]
    /\ UNCHANGED <<dst, kept>>

CallAgain(p) ==
    /\ st[p] # "running"
    /\ st' = [st EXCEPT ![p] = "running"]
    /\ UNCHANGED <<dst, kept>>

\* Another program creates, replaces or removes the destination.
Outside == /\ dst' \in {NoFile, Foreign}
           /\ UNCHANGED <<kept, st>>

\* The file system makes the present directory entry durable.
Persist == /\ kept' = dst
           /\ UNCHANGED <<dst, st>>

PowerFailure ==
    /\ dst' = kept
    /\ st' \in [Procs -> States]
    /\ \A p \in Procs : st'[p] \in {st[p], "dead"}
    /\ UNCHANGED kept

Next == \/ \E p \in Procs : Install(p) \/ Fail(p) \/ Die(p) \/ CallAgain(p)
        \/ Outside
        \/ Persist
        \/ PowerFailure

Spec == Init /\ [][Next]_vars
=============================================================================
