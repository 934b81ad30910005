----------------------------- MODULE FileOutput -----------------------------
(***************************************************************************)
(* The path every file-producing call of the package takes: the R guard    *)
(* (guard_output in R/file.R, the check in age_keygen), then               *)
(* run_file_transform or age_c_identity_write of binding.c, with           *)
(* age_open_temp, age_fsync and age_move of fileio.c.  Several R sessions  *)
(* work on the same destination; other programs create and remove it; any  *)
(* system call may fail; a session may be killed and the machine may lose  *)
(* power between any two steps.                                            *)
(*                                                                         *)
(* One step is one system call and the C code up to the next one.  A file  *)
(* is its data (one unit per write, marked with the call that wrote it)    *)
(* and the number of units known to be on stable storage.                  *)
(***************************************************************************)
EXTENDS Naturals, Sequences

CONSTANTS
    Procs,         \* R sessions that write to the destination
    MayOverwrite,  \* the sessions that pass overwrite = TRUE
    KeyWriters,    \* the sessions in age_keygen(path): they open no input
    Temps,         \* temporary names next to the destination
    Dst,           \* the destination path
    NoFile,        \* no directory entry
    Other,         \* marks data written by another program
    Units,         \* number of writes that make up a complete result
    MaxTries,      \* names age_open_temp tries (16 in the code)
    LinkMayFail    \* link() may fail for a reason other than EEXIST

ASSUME SetsAssumption ==
    /\ MayOverwrite \subseteq Procs
    /\ KeyWriters \subseteq Procs
    /\ Other \notin Procs
    /\ Dst \notin Temps
ASSUME NumbersAssumption == Units \in Nat /\ MaxTries \in Nat \ {0}
ASSUME LinkAssumption == LinkMayFail \in BOOLEAN

File == {f \in [data : Seq(Procs \cup {Other}), safe : Nat] :
            f.safe <= Len(f.data)}
ASSUME NoFileAssumption == NoFile \notin File

Paths == Temps \cup {Dst}
Entry == File \cup {NoFile}

\* The first n units of p's result, s of them on stable storage.
Part(p, n, s) == [data |-> [i \in 1..n |-> p], safe |-> s]
Whole(p) == Part(p, Units, Units)
Foreign == Part(Other, 1, 1)

VARIABLES
    fs,       \* the directory: path -> file or NoFile
    jdst,     \* the destination entry that would survive a power failure
    pc,       \* where each session is
    ret,      \* what its call will return, once decided
    tmp,      \* its temporary name (tmppath), or Dst before it has one
    tries,    \* names age_open_temp has tried
    out,      \* units the transform has produced
    fds,      \* its open descriptors: "in" (infd), "tmp" (tmpfd)
    orphans   \* temporaries whose writer died or could not unlink them

vars == <<fs, jdst, pc, ret, tmp, tries, out, fds, orphans>>

PCs == {"guard", "open_in", "open_temp", "write", "fsync", "close", "move",
        "access", "rename", "unlink", "done", "dead"}
\* The places where the session owns the temporary file it named.
Owning == {"write", "fsync", "close", "move", "access", "rename", "unlink"}
Stopped == {"done", "dead"}
Results == {"none", "ok", "exists", "error"}

Init ==
    /\ fs \in [Paths -> {NoFile, Foreign}]
    /\ \A t \in Temps : fs[t] = NoFile
    /\ jdst = fs[Dst]
    /\ pc = [p \in Procs |-> "guard"]
    /\ ret = [p \in Procs |-> "none"]
    /\ tmp = [p \in Procs |-> Dst]
    /\ tries = [p \in Procs |-> 0]
    /\ out = [p \in Procs |-> 0]
    /\ fds = [p \in Procs |-> {}]
    /\ orphans = {}

Goto(p, l) == pc' = [pc EXCEPT ![p] = l]
\* The C locals of a call go when it returns or dies.
Forget(p) == /\ tmp' = [tmp EXCEPT ![p] = Dst]
             /\ tries' = [tries EXCEPT ![p] = 0]
             /\ out' = [out EXCEPT ![p] = 0]
Return(p, r) ==
    Goto(p, "done") /\ ret' = [ret EXCEPT ![p] = r] /\ Forget(p)
\* Leave with result r, once the temporary name has been unlinked.
UnlinkAndReturn(p, r) == Goto(p, "unlink") /\ ret' = [ret EXCEPT ![p] = r]

-----------------------------------------------------------------------------
(* The steps of one call. *)

\* R: refuse an existing destination unless overwrite = TRUE.
Guard(p) ==
    /\ pc[p] = "guard"
    /\ \/ /\ p \notin MayOverwrite /\ fs[Dst] # NoFile
          /\ Return(p, "exists")
       \/ /\ p \in MayOverwrite \/ fs[Dst] = NoFile
          /\ Goto(p, IF p \in KeyWriters THEN "open_temp" ELSE "open_in")
          /\ UNCHANGED <<ret, tmp, tries, out>>
    /\ UNCHANGED <<fs, jdst, fds, orphans>>

OpenInput(p) ==
    /\ pc[p] = "open_in"
    /\ \/ /\ fds' = [fds EXCEPT ![p] = @ \cup {"in"}]
          /\ Goto(p, "open_temp")
          /\ UNCHANGED <<ret, tmp, tries, out>>
       \/ /\ Return(p, "error")
          /\ UNCHANGED fds
    /\ UNCHANGED <<fs, jdst, orphans>>

\* Mutant of CreateTemp: without O_EXCL an existing file is reused.
CreateTempShared(p, t) ==
    /\ fs' = [fs EXCEPT ![t] = Part(p, 0, 0)]
    /\ tmp' = [tmp EXCEPT ![p] = t]
    /\ fds' = [fds EXCEPT ![p] = @ \cup {"tmp"}]
    /\ tries' = [tries EXCEPT ![p] = 0]
    /\ Goto(p, "write")
    /\ UNCHANGED <<ret, out>>

\* open(t, O_CREAT|O_EXCL, 0600) succeeds on a name nobody uses.
CreateTemp(p, t) ==
    /\ fs[t] = NoFile
    /\ fs' = [fs EXCEPT ![t] = Part(p, 0, 0)]
    /\ tmp' = [tmp EXCEPT ![p] = t]
    /\ fds' = [fds EXCEPT ![p] = @ \cup {"tmp"}]
    /\ tries' = [tries EXCEPT ![p] = 0]
    /\ Goto(p, "write")
    /\ UNCHANGED <<ret, out>>

\* Mutant of TryAgain: the loop never ends while names collide.
TryForever(p) ==
    /\ tries' = [tries EXCEPT ![p] = (@ + 1) % MaxTries]
    /\ UNCHANGED <<fs, pc, ret, tmp, out, fds>>

\* EEXIST before the last try: the loop draws another name.
TryAgain(p) ==
    /\ tries[p] + 1 < MaxTries
    /\ tries' = [tries EXCEPT ![p] = @ + 1]
    /\ UNCHANGED <<fs, pc, ret, tmp, out, fds>>

\* EEXIST on the last try, or at any try no randomness or another error of
\* open: age_open_temp fails, the input is closed and the call returns.
NoTemp(p) ==
    /\ fds' = [fds EXCEPT ![p] = {}]
    /\ Return(p, "error")
    /\ UNCHANGED fs

\* One iteration of age_open_temp: open a random name.
OpenTemp(p) ==
    /\ pc[p] = "open_temp"
    /\ \/ \E t \in Temps : CreateTemp(p, t)
       \/ /\ \E t \in Temps : fs[t] # NoFile
          /\ TryAgain(p)
       \/ NoTemp(p)
    /\ UNCHANGED <<jdst, orphans>>

\* Mutant of Write: one write more than the result has.
WritePastEnd(p) ==
    /\ pc[p] = "write" /\ out[p] <= Units
    /\ out' = [out EXCEPT ![p] = @ + 1]
    /\ fs' = [fs EXCEPT ![tmp[p]].data = Append(@, p)]
    /\ UNCHANGED <<jdst, pc, ret, tmp, tries, fds, orphans>>

\* The transform (or the key-line loop) writes one more unit to tmpfd.
Write(p) ==
    /\ pc[p] = "write" /\ out[p] < Units
    /\ out' = [out EXCEPT ![p] = @ + 1]
    /\ fs' = [fs EXCEPT ![tmp[p]].data = Append(@, p)]
    /\ UNCHANGED <<jdst, pc, ret, tmp, tries, fds, orphans>>

\* The transform succeeded: infd is closed and commit_output begins.
Transformed(p) ==
    /\ pc[p] = "write" /\ out[p] = Units
    /\ fds' = [fds EXCEPT ![p] = @ \ {"in"}]
    /\ Goto(p, "fsync")
    /\ UNCHANGED <<fs, jdst, ret, tmp, tries, out, orphans>>

\* The transform or a write failed, anywhere: discard_output.
Discard(p) ==
    /\ pc[p] = "write"
    /\ fds' = [fds EXCEPT ![p] = {}]
    /\ UnlinkAndReturn(p, "error")
    /\ UNCHANGED <<fs, jdst, tmp, tries, out, orphans>>

\* Mutant of Fsync: commit without flushing.
FsyncSkipped(p) ==
    /\ pc[p] = "fsync"
    /\ Goto(p, "close")
    /\ UNCHANGED <<fs, jdst, ret, tmp, tries, out, fds, orphans>>

\* Flush the temporary; on failure close it and give up.
Fsync(p) ==
    /\ pc[p] = "fsync"
    /\ \/ /\ fs' = [fs EXCEPT ![tmp[p]].safe = Len(fs[tmp[p]].data)]
          /\ Goto(p, "close")
          /\ UNCHANGED <<ret, fds>>
       \/ /\ fds' = [fds EXCEPT ![p] = @ \ {"tmp"}]
          /\ UnlinkAndReturn(p, "error")
          /\ UNCHANGED fs
    /\ UNCHANGED <<jdst, tmp, tries, out, orphans>>

\* Mutant of Close: an error of close() returns without unlink.
CloseKeepsTemp(p) ==
    /\ pc[p] = "close"
    /\ fds' = [fds EXCEPT ![p] = @ \ {"tmp"}]
    /\ \/ Goto(p, "move") /\ UNCHANGED <<ret, tmp, tries, out>>
       \/ Return(p, "error")
    /\ UNCHANGED <<fs, jdst, orphans>>

\* close() releases the descriptor whether or not it reports an error.
Close(p) ==
    /\ pc[p] = "close"
    /\ fds' = [fds EXCEPT ![p] = @ \ {"tmp"}]
    /\ \/ Goto(p, "move") /\ UNCHANGED ret
       \/ UnlinkAndReturn(p, "error")
    /\ UNCHANGED <<fs, jdst, tmp, tries, out, orphans>>

\* rename(tmp, dst): replaces whatever dst is, or fails and changes nothing.
RenameTemp(p) ==
    \/ /\ fs' = [fs EXCEPT ![Dst] = fs[tmp[p]], ![tmp[p]] = NoFile]
       /\ Return(p, "ok")
    \/ /\ UnlinkAndReturn(p, "error")
       /\ UNCHANGED <<fs, tmp, tries, out>>

\* Mutant of LinkTemp: the commit renames, as with overwrite = TRUE.
LinkTempRenames(p) == RenameTemp(p)

\* Mutant of LinkTemp: EEXIST is taken for success.
LinkTempIgnoresExists(p) ==
    /\ UNCHANGED <<tmp, tries, out>>
    /\ UnlinkAndReturn(p, "ok")
    /\ fs' = IF fs[Dst] = NoFile THEN [fs EXCEPT ![Dst] = fs[tmp[p]]] ELSE fs

\* link(tmp, dst): creates dst only where there is none.
LinkTemp(p) ==
    /\ UNCHANGED <<tmp, tries, out>>
    /\ \/ /\ fs[Dst] = NoFile
          /\ fs' = [fs EXCEPT ![Dst] = fs[tmp[p]]]
          /\ UnlinkAndReturn(p, "ok")
       \/ /\ fs[Dst] # NoFile
          /\ UnlinkAndReturn(p, "exists")
          /\ UNCHANGED fs
       \/ /\ LinkMayFail
          /\ Goto(p, "access")
          /\ UNCHANGED <<fs, ret>>

Move(p) ==
    /\ pc[p] = "move"
    /\ IF p \in MayOverwrite THEN RenameTemp(p) ELSE LinkTemp(p)
    /\ UNCHANGED <<jdst, fds, orphans>>

\* The fallback of age_move: access(dst), and later rename(tmp, dst).
Access(p) ==
    /\ pc[p] = "access"
    /\ \/ fs[Dst] # NoFile /\ UnlinkAndReturn(p, "exists")
       \/ fs[Dst] = NoFile /\ Goto(p, "rename") /\ UNCHANGED ret
    /\ UNCHANGED <<fs, jdst, tmp, tries, out, fds, orphans>>

Rename(p) ==
    /\ pc[p] = "rename"
    /\ RenameTemp(p)
    /\ UNCHANGED <<jdst, fds, orphans>>

\* unlink(tmp), whose result the code ignores, and the return to R.
Unlink(p) ==
    /\ pc[p] = "unlink"
    /\ Return(p, ret[p])
    /\ \/ /\ fs' = [fs EXCEPT ![tmp[p]] = NoFile]
          /\ UNCHANGED orphans
       \/ /\ orphans' = orphans \cup {tmp[p]}
          /\ UNCHANGED fs
    /\ UNCHANGED <<jdst, fds>>

-----------------------------------------------------------------------------
(* The environment. *)

\* The user calls again after a return or in a new session after a death.
CallAgain(p) ==
    /\ pc[p] \in Stopped
    /\ Goto(p, "guard")
    /\ ret' = [ret EXCEPT ![p] = "none"]
    /\ UNCHANGED <<fs, jdst, tmp, tries, out, fds, orphans>>

Leftovers(S) == {tmp[p] : p \in {q \in S : pc[q] \in Owning}}

\* The session is killed: the kernel closes its descriptors, nobody unlinks.
Die(p) ==
    /\ pc[p] \notin Stopped
    /\ Goto(p, "dead")
    /\ fds' = [fds EXCEPT ![p] = {}]
    /\ orphans' = orphans \cup Leftovers({p})
    /\ ret' = [ret EXCEPT ![p] = "none"]
    /\ Forget(p)
    /\ UNCHANGED <<fs, jdst>>

\* Another program creates, replaces or removes the destination.
Outside ==
    /\ \E f \in {NoFile, Foreign} : fs' = [fs EXCEPT ![Dst] = f]
    /\ UNCHANGED <<jdst, pc, ret, tmp, tries, out, fds, orphans>>

\* The file system commits the destination's directory entry.
Journal ==
    /\ jdst' = fs[Dst]
    /\ UNCHANGED <<fs, pc, ret, tmp, tries, out, fds, orphans>>

\* What is left of an entry: data never synced is there, or is gone.
AfterLoss(f, lost) ==
    IF f = NoFile THEN NoFile
    ELSE IF lost THEN [f EXCEPT !.data = SubSeq(@, 1, f.safe)]
    ELSE [f EXCEPT !.safe = Len(f.data)]

\* Power failure: every session dies, the destination goes back to its last
\* committed entry, each temporary entry is there or not.
PowerLoss ==
    \E lost \in BOOLEAN, S \in SUBSET Temps :
        /\ fs' = [x \in Paths |->
                    CASE x = Dst -> AfterLoss(jdst, lost)
                      [] x \in S -> AfterLoss(fs[x], lost)
                      [] OTHER -> NoFile]
        /\ jdst' = AfterLoss(jdst, lost)
        /\ orphans' = {t \in orphans \cup Leftovers(Procs) : fs'[t] # NoFile}
        /\ pc' = [p \in Procs |-> "dead"]
        /\ ret' = [p \in Procs |-> "none"]
        /\ tmp' = [p \in Procs |-> Dst]
        /\ tries' = [p \in Procs |-> 0]
        /\ out' = [p \in Procs |-> 0]
        /\ fds' = [p \in Procs |-> {}]

Step(p) == \/ Guard(p) \/ OpenInput(p) \/ OpenTemp(p) \/ Write(p)
           \/ Transformed(p) \/ Discard(p) \/ Fsync(p) \/ Close(p)
           \/ Move(p) \/ Access(p) \/ Rename(p) \/ Unlink(p)

Next == \/ \E p \in Procs : Step(p) \/ CallAgain(p) \/ Die(p)
        \/ Outside
        \/ Journal
        \/ PowerLoss

Spec == Init /\ [][Next]_vars

\* A session that is not killed keeps running and its system calls return.
FairSpec == Spec /\ \A p \in Procs : WF_vars(Step(p))

-----------------------------------------------------------------------------
(* Properties. *)

\* Every variable keeps its type: files are data with a durable part, a call
\* never writes more than its result has (run_file_transform).
TypeOK ==
    /\ fs \in [Paths -> Entry]
    /\ jdst \in Entry
    /\ pc \in [Procs -> PCs]
    /\ ret \in [Procs -> Results]
    /\ tmp \in [Procs -> Paths]
    /\ tries \in [Procs -> 0..MaxTries]
    /\ out \in [Procs -> 0..Units]
    /\ fds \in [Procs -> SUBSET {"in", "tmp"}]
    /\ orphans \subseteq Temps

\* The destination "never shows a partial result" (binding.c, run_file_transform;
\* fileio.h): at every moment, and after any death or power failure, it is
\* absent, another program's file, or the complete result of ONE call, with
\* every unit of it on stable storage.
NeverPartial ==
    {fs[Dst], jdst} \subseteq {NoFile, Foreign} \cup {Whole(p) : p \in Procs}

\* A call without overwrite = TRUE never replaces a destination that exists
\* when it takes a step ("without a check-then-write race", age_move).
NoClobber ==
    [][\A p \in Procs \ MayOverwrite :
          Step(p) /\ fs[Dst] # NoFile => fs'[Dst] = fs[Dst]]_vars

\* Two live calls never write into one temporary file, and what a live call's
\* temporary holds is exactly what that call has written (age_open_temp's
\* O_EXCL; discard and commit touch only tmppath).
PrivateTemps ==
    \A p \in Procs : pc[p] \in Owning =>
        /\ tmp[p] \in Temps
        /\ \A q \in Procs \ {p} : pc[q] \in Owning => tmp[q] # tmp[p]
        /\ fs[tmp[p]] # NoFile
        /\ fs[tmp[p]].data = [i \in 1..out[p] |-> p]

\* A call that returns leaves no temporary file behind and holds no
\* descriptor, whichever step failed: every temporary belongs to a live call,
\* or its writer was killed, or unlink itself failed.
NoLeftovers ==
    /\ \A t \in Temps : fs[t] # NoFile =>
          t \in orphans \/ \E p \in Procs : pc[p] \in Owning /\ tmp[p] = t
    /\ \A p \in Procs : pc[p] \in Stopped => fds[p] = {}

\* Every call returns, or its session is killed: the retry loop of
\* age_open_temp and the error paths never wait on each other.
Returns == \A p \in Procs : pc[p] = "guard" ~> pc[p] \in Stopped

-----------------------------------------------------------------------------
(* Refinement of AtomicOutput. *)

Status(p) ==
    CASE pc[p] = "dead" -> "dead"
      [] pc[p] # "dead" /\ ret[p] = "ok" -> "installed"
      [] pc[p] = "done" /\ ret[p] # "ok" -> "failed"
      [] OTHER -> "running"

AO == INSTANCE AtomicOutput WITH
          dst <- fs[Dst], kept <- jdst, st <- [p \in Procs |-> Status(p)]

\* Seen at the destination path, the temp-file protocol is the one-step
\* installation that AtomicOutput describes: success installs exactly once,
\* failure not at all, a power failure restores an earlier whole file.
InstallsAtomically == AO!Spec
=============================================================================
