------------------------- MODULE FileOutput_proofs --------------------------
(***************************************************************************)
(* TLAPS proofs about FileOutput, for every set of sessions, temporary     *)
(* names and sizes.                                                        *)
(***************************************************************************)
EXTENDS FileOutput, TLAPS

\* The places from the end of the transform to the installation.
Committing == {"fsync", "close", "move", "access", "rename"}

\* What is true of one session, whatever the others do:
\*   - the temporary it owns holds exactly what it has written;
\*   - a session that owns no temporary has produced nothing yet;
\*   - from fsync on its result is complete, after fsync also durable;
\*   - a result is decided only on the way out;
\*   - only the fallback of age_move, in a call without overwrite, reaches
\*     access and rename.
Session(p) ==
    /\ pc[p] \in Owning => /\ tmp[p] \in Temps
                           /\ fs[tmp[p]] # NoFile
                           /\ fs[tmp[p]].data = [i \in 1..out[p] |-> p]
    /\ pc[p] \notin Owning => out[p] = 0 /\ tmp[p] = Dst
    /\ pc[p] \in Committing => out[p] = Units
    /\ pc[p] \in Committing \ {"fsync"} => fs[tmp[p]].safe = Units
    /\ pc[p] \notin {"unlink", "done"} => ret[p] = "none"
    /\ pc[p] \in {"access", "rename"} => LinkMayFail /\ p \notin MayOverwrite

\* Two sessions own different temporaries.
Distinct ==
    \A p, q \in Procs :
        p # q /\ pc[p] \in Owning /\ pc[q] \in Owning => tmp[p] # tmp[q]

\* The inductive invariant.
IInv == /\ TypeOK
        /\ \A p \in Procs : Session(p)
        /\ Distinct
        /\ NeverPartial

-----------------------------------------------------------------------------
(* Facts about files. *)

Writers == Procs \cup {Other}

\* The data of a part is a sequence of its length.
LEMMA PartData ==
    ASSUME NEW p \in Writers, NEW n \in Nat
    PROVE  [i \in 1..n |-> p] \in Seq(Writers) /\ Len([i \in 1..n |-> p]) = n
  OBVIOUS

\* A part of a result is a file.
LEMMA PartType ==
    ASSUME NEW p \in Writers, NEW n \in Nat, NEW s \in 0..n
    PROVE  /\ Part(p, n, s) \in File
           /\ Part(p, n, s).data = [i \in 1..n |-> p]
           /\ Part(p, n, s).safe = s
           /\ Part(p, n, s) # NoFile
  BY PartData, NoFileAssumption DEF Part, File, Writers

\* Writing one more unit gives the next part.
LEMMA AppendPart ==
    ASSUME NEW p \in Procs, NEW n \in Nat
    PROVE  Append([i \in 1..n |-> p], p) = [i \in 1..(n + 1) |-> p]
<1> DEFINE s == [i \in 1..n |-> p]
<1>1. s \in Seq(Procs) /\ Len(s) = n
  OBVIOUS
<1>2. Append(s, p) \in Seq(Procs) /\ Len(Append(s, p)) = n + 1
  BY <1>1
<1>3. \A i \in 1..(n + 1) : Append(s, p)[i] = p
  BY <1>1
<1> QED
  BY <1>2, <1>3

\* A write leaves a file a file (Write).
LEMMA GrownFile ==
    ASSUME NEW f \in File, NEW d \in Seq(Writers), Len(f.data) <= Len(d)
    PROVE  [f EXCEPT !.data = d] \in File
<1> DEFINE g == [f EXCEPT !.data = d]
<1>1. f \in [data : Seq(Writers), safe : Nat] /\ f.safe <= Len(f.data)
  BY DEF File, Writers
<1>2. g \in [data : Seq(Writers), safe : Nat] /\ g.data = d /\ g.safe = f.safe
  BY <1>1
<1>3. f.safe \in Nat /\ Len(f.data) \in Nat /\ Len(d) \in Nat
  BY <1>1
<1>4. g.safe <= Len(g.data)
  BY <1>1, <1>2, <1>3
<1> QED
  BY <1>2, <1>4 DEF File, Writers

\* fsync leaves a file a file, all of it durable (Fsync).
LEMMA SyncedFile ==
    ASSUME NEW f \in File
    PROVE  LET g == [f EXCEPT !.safe = Len(f.data)]
           IN  g \in File /\ g.data = f.data /\ g.safe = Len(f.data)
<1> DEFINE g == [f EXCEPT !.safe = Len(f.data)]
<1>1. f \in [data : Seq(Writers), safe : Nat]
  BY DEF File, Writers
<1>2. Len(f.data) \in Nat
  BY <1>1
<1>3. /\ g \in [data : Seq(Writers), safe : Nat]
      /\ g.data = f.data /\ g.safe = Len(f.data)
  BY <1>1, <1>2
<1> QED
  BY <1>2, <1>3 DEF File, Writers

\* A file that is its writer's complete, durable data is the whole result.
LEMMA WholeFile ==
    ASSUME NEW p \in Procs, NEW f \in File,
           f.data = [i \in 1..Units |-> p], f.safe = Units
    PROVE  f = Whole(p)
  BY DEF File, Whole, Part

\* What a power failure does to complete, durable data: nothing.
LEMMA DurablePart ==
    ASSUME NEW p \in Writers, NEW n \in Nat, NEW lost \in BOOLEAN
    PROVE  AfterLoss(Part(p, n, n), lost) = Part(p, n, n)
<1> DEFINE s == [i \in 1..n |-> p]
<1>1. s \in Seq(Writers) /\ Len(s) = n
  BY PartData
<1>2. SubSeq(s, 1, n) = s
  BY <1>1
<1>3. Part(p, n, n) # NoFile
  <2>1. n \in 0..n
    OBVIOUS
  <2> QED
    BY <2>1, PartType
<1> QED
  BY <1>1, <1>2, <1>3 DEF AfterLoss, Part

\* What NeverPartial allows at the destination survives a power failure.
LEMMA DurableSurvives ==
    ASSUME NEW f, NEW lost \in BOOLEAN,
           f \in {NoFile, Foreign} \cup {Whole(p) : p \in Procs}
    PROVE  AfterLoss(f, lost) = f
<1>1. AfterLoss(NoFile, lost) = NoFile
  BY DEF AfterLoss
<1> QED
  BY <1>1, DurablePart, NumbersAssumption DEF Foreign, Whole, Writers

\* A power failure leaves a file a file.
LEMMA LossType ==
    ASSUME NEW f \in Entry, NEW lost \in BOOLEAN
    PROVE  AfterLoss(f, lost) \in Entry
<1>1. CASE f = NoFile
  BY <1>1 DEF AfterLoss, Entry
<1>2. CASE f # NoFile
  <2>1. f \in File /\ f.data \in Seq(Writers) /\ f.safe \in 0..Len(f.data)
    BY <1>2 DEF Entry, File, Writers
  <2> DEFINE s == SubSeq(f.data, 1, f.safe)
  <2>2. s \in Seq(Writers) /\ Len(s) = f.safe
    BY <2>1
  <2>3. [f EXCEPT !.data = s] \in File
    <3> HIDE DEF s
    <3> QED
      BY <2>1, <2>2 DEF File, Writers
  <2>4. [f EXCEPT !.safe = Len(f.data)] \in File
    BY <2>1 DEF File
  <2> QED
    BY <1>2, <2>3, <2>4 DEF AfterLoss, Entry
<1> QED
  BY <1>1, <1>2

-----------------------------------------------------------------------------
(* The inductive invariant is preserved by every step. *)

\* The invariant holds before the first call.
LEMMA InitIInv == Init => IInv
<1> SUFFICES ASSUME Init PROVE IInv
  OBVIOUS
<1>1. Foreign \in File
  <2>1. 1 \in 0..1 /\ Other \in Writers
    BY DEF Writers
  <2> QED
    BY <2>1, PartType DEF Foreign
<1>2. TypeOK
  BY <1>1, NumbersAssumption, SetsAssumption
     DEF Init, TypeOK, Entry, Paths, PCs, Results
<1>3. Distinct /\ \A p \in Procs : Session(p)
  BY DEF Init, Session, Distinct, Owning, Committing
<1>4. NeverPartial
  BY DEF Init, NeverPartial, Paths
<1> QED
  BY <1>2, <1>3, <1>4 DEF IInv

\* A step of p changes no other session and none of their temporaries.
Frame(p) ==
    \A q \in Procs \ {p} :
        /\ pc'[q] = pc[q] /\ ret'[q] = ret[q]
        /\ tmp'[q] = tmp[q] /\ out'[q] = out[q]
        /\ pc[q] \in Owning => fs'[tmp[q]] = fs[tmp[q]] /\ tmp[q] # tmp'[p]

\* So only p and the destination are left to look at.
LEMMA StepFrame ==
    ASSUME IInv, TypeOK', NEW p \in Procs, Frame(p), Session(p)', NeverPartial'
    PROVE  IInv'
<1>1. ASSUME NEW q \in Procs PROVE Session(q)'
  <2>1. CASE q = p
    BY <2>1
  <2>2. CASE q # p
    <3>1. Committing \subseteq Owning
      BY DEF Committing, Owning
    <3> QED
      BY <2>2, <3>1 DEF Frame, Session, IInv
  <2> QED
    BY <2>1, <2>2
<1>2. Distinct'
  BY DEF Frame, Distinct, IInv
<1> QED
  BY <1>1, <1>2 DEF IInv

\* guard_output and the check of age_keygen, in R.
LEMMA GuardIInv == ASSUME IInv, NEW p \in Procs, Guard(p) PROVE IInv'
<1>1. TypeOK'
  BY NumbersAssumption
     DEF IInv, TypeOK, Guard, Return, Forget, Goto, PCs, Results, Paths
<1>2. Frame(p)
  <2>1. tmp[p] = Dst /\ tmp'[p] = Dst
    BY DEF IInv, TypeOK, Session, Guard, Return, Forget, Goto, Owning
  <2>2. ASSUME NEW q \in Procs, pc[q] \in Owning PROVE tmp[q] # Dst
    BY <2>2, SetsAssumption DEF IInv, Session
  <2>3. ASSUME NEW q \in Procs \ {p}
        PROVE  pc'[q] = pc[q] /\ ret'[q] = ret[q] /\ tmp'[q] = tmp[q]
               /\ out'[q] = out[q] /\ fs' = fs
    BY DEF IInv, TypeOK, Guard, Return, Forget, Goto
  <2> QED
    BY <2>1, <2>2, <2>3 DEF Frame
<1>3. Session(p)'
  BY DEF IInv, TypeOK, Session, Guard, Return, Forget, Goto, Owning, Committing
<1>4. NeverPartial'
  BY DEF IInv, Guard, NeverPartial
<1> QED
  BY <1>1, <1>2, <1>3, <1>4, StepFrame

\* Opening the input file, in run_file_transform.
LEMMA OpenInputIInv == ASSUME IInv, NEW p \in Procs, OpenInput(p) PROVE IInv'
<1>1. TypeOK'
  BY NumbersAssumption
     DEF IInv, TypeOK, OpenInput, Return, Forget, Goto, PCs, Results, Paths
<1>2. Frame(p)
  <2>1. tmp[p] = Dst /\ tmp'[p] = Dst
    BY DEF IInv, TypeOK, Session, OpenInput, Return, Forget, Goto, Owning
  <2>2. ASSUME NEW q \in Procs, pc[q] \in Owning PROVE tmp[q] # Dst
    BY <2>2, SetsAssumption DEF IInv, Session
  <2>3. ASSUME NEW q \in Procs \ {p}
        PROVE  pc'[q] = pc[q] /\ ret'[q] = ret[q] /\ tmp'[q] = tmp[q]
               /\ out'[q] = out[q] /\ fs' = fs
    BY DEF IInv, TypeOK, OpenInput, Return, Forget, Goto
  <2> QED
    BY <2>1, <2>2, <2>3 DEF Frame
<1>3. Session(p)'
  BY DEF IInv, TypeOK, Session, OpenInput, Return, Forget, Goto, Owning, Committing
<1>4. NeverPartial'
  BY DEF IInv, OpenInput, NeverPartial
<1> QED
  BY <1>1, <1>2, <1>3, <1>4, StepFrame

\* The end of a transform that succeeded.
LEMMA TransformedIInv == ASSUME IInv, NEW p \in Procs, Transformed(p) PROVE IInv'
<1>1. TypeOK'
  BY NumbersAssumption
     DEF IInv, TypeOK, Transformed, Goto, PCs, Results, Paths
<1>2. Frame(p)
  BY SetsAssumption
     DEF IInv, TypeOK, Session, Distinct, Transformed, Goto, Frame, Owning
<1>3. Session(p)'
  BY DEF IInv, TypeOK, Session, Transformed, Goto, Owning, Committing
<1>4. NeverPartial'
  BY DEF IInv, Transformed, NeverPartial
<1> QED
  BY <1>1, <1>2, <1>3, <1>4, StepFrame

\* discard_output() after a transform that failed.
LEMMA DiscardIInv == ASSUME IInv, NEW p \in Procs, Discard(p) PROVE IInv'
<1>1. TypeOK'
  BY NumbersAssumption
     DEF IInv, TypeOK, Discard, UnlinkAndReturn, Goto, PCs, Results, Paths
<1>2. Frame(p)
  BY SetsAssumption
     DEF IInv, TypeOK, Session, Distinct, Discard, UnlinkAndReturn, Goto, Frame, Owning
<1>3. Session(p)'
  BY DEF IInv, TypeOK, Session, Discard, UnlinkAndReturn, Goto, Owning, Committing
<1>4. NeverPartial'
  BY DEF IInv, Discard, NeverPartial
<1> QED
  BY <1>1, <1>2, <1>3, <1>4, StepFrame

\* close() in commit_output().
LEMMA CloseIInv == ASSUME IInv, NEW p \in Procs, Close(p) PROVE IInv'
<1>1. TypeOK'
  BY NumbersAssumption
     DEF IInv, TypeOK, Close, UnlinkAndReturn, Goto, PCs, Results, Paths
<1>2. Frame(p)
  BY SetsAssumption
     DEF IInv, TypeOK, Session, Distinct, Close, UnlinkAndReturn, Goto, Frame, Owning
<1>3. Session(p)'
  BY DEF IInv, TypeOK, Session, Close, UnlinkAndReturn, Goto, Owning, Committing
<1>4. NeverPartial'
  BY DEF IInv, Close, NeverPartial
<1> QED
  BY <1>1, <1>2, <1>3, <1>4, StepFrame

\* The access() of the fallback of age_move().
LEMMA AccessIInv == ASSUME IInv, NEW p \in Procs, Access(p) PROVE IInv'
<1>1. TypeOK'
  BY NumbersAssumption
     DEF IInv, TypeOK, Access, UnlinkAndReturn, Goto, PCs, Results, Paths
<1>2. Frame(p)
  BY SetsAssumption
     DEF IInv, TypeOK, Session, Distinct, Access, UnlinkAndReturn, Goto, Frame, Owning
<1>3. Session(p)'
  BY DEF IInv, TypeOK, Session, Access, UnlinkAndReturn, Goto, Owning, Committing
<1>4. NeverPartial'
  BY DEF IInv, Access, NeverPartial
<1> QED
  BY <1>1, <1>2, <1>3, <1>4, StepFrame

\* One iteration of age_open_temp(): only an unused name becomes ours.
LEMMA OpenTempIInv == ASSUME IInv, NEW p \in Procs, OpenTemp(p) PROVE IInv'
<1> USE DEF IInv
<1>0. /\ pc[p] \notin Owning /\ tmp[p] = Dst /\ out[p] = 0
      /\ \A q \in Procs : pc[q] \in Owning => tmp[q] \in Temps /\ tmp[q] # Dst
  BY SetsAssumption DEF OpenTemp, Session, Owning
<1>1. ASSUME NEW t \in Temps, CreateTemp(p, t), jdst' = jdst, orphans' = orphans
      PROVE  IInv'
  <2>1. /\ Part(p, 0, 0) \in File /\ Part(p, 0, 0) # NoFile
        /\ Part(p, 0, 0).data = [i \in 1..0 |-> p]
    <3>1. 0 \in 0..0 /\ p \in Writers
      BY DEF Writers
    <3> QED
      BY <3>1, PartType
  <2>2. /\ t # Dst /\ t \in Paths
        /\ fs' \in [Paths -> Entry] /\ fs'[t] = Part(p, 0, 0)
        /\ \A x \in Paths \ {t} : fs'[x] = fs[x]
    BY <1>1, <2>1, SetsAssumption DEF CreateTemp, TypeOK, Paths, Entry
  <2>3. /\ tmp'[p] = t /\ pc'[p] = "write" /\ out'[p] = 0 /\ ret'[p] = ret[p]
        /\ \A q \in Procs \ {p} : /\ pc'[q] = pc[q] /\ ret'[q] = ret[q]
                                  /\ tmp'[q] = tmp[q] /\ out'[q] = out[q]
    BY <1>0, <1>1 DEF CreateTemp, Goto, TypeOK
  <2>4. TypeOK'
    BY <1>1, <2>2, NumbersAssumption
       DEF CreateTemp, Goto, TypeOK, PCs
  <2>5. Frame(p)
    <3>1. ASSUME NEW q \in Procs \ {p}, pc[q] \in Owning
          PROVE  tmp[q] # t /\ tmp[q] \in Paths
      BY <1>1, <3>1 DEF CreateTemp, Session, TypeOK
    <3> QED
      BY <2>2, <2>3, <3>1 DEF Frame
  <2>6. Session(p)'
    BY <1>0, <2>1, <2>2, <2>3 DEF Session, OpenTemp, Owning, Committing
  <2>7. NeverPartial'
    BY <1>1, <2>2 DEF NeverPartial, Paths
  <2> QED
    BY <2>4, <2>5, <2>6, <2>7, StepFrame
<1>2. ASSUME TryAgain(p), jdst' = jdst, orphans' = orphans
      PROVE  IInv'
  <2>1. TypeOK'
    BY <1>2, NumbersAssumption DEF TryAgain, TypeOK
  <2>2. Frame(p)
    BY <1>0, <1>2 DEF TryAgain, TypeOK, Frame
  <2>3. Session(p)' /\ NeverPartial'
    BY <1>2 DEF TryAgain, Session, NeverPartial
  <2> QED
    BY <2>1, <2>2, <2>3, StepFrame
<1>3. ASSUME NoTemp(p), jdst' = jdst, orphans' = orphans
      PROVE  IInv'
  <2>1. TypeOK'
    BY <1>3, NumbersAssumption
       DEF NoTemp, Return, Forget, Goto, TypeOK, PCs, Results, Paths
  <2>2. Frame(p)
    BY <1>0, <1>3 DEF NoTemp, Return, Forget, Goto, TypeOK, Frame
  <2>3. Session(p)'
    BY <1>0, <1>3
       DEF NoTemp, Return, Forget, Goto, TypeOK, Session, Owning, Committing
  <2>4. NeverPartial'
    BY <1>3 DEF NoTemp, NeverPartial
  <2> QED
    BY <2>1, <2>2, <2>3, <2>4, StepFrame
<1> QED
  BY <1>1, <1>2, <1>3 DEF OpenTemp

\* The temporary of an owner, and a change of it alone.
LEMMA OwnTemp ==
    ASSUME IInv, NEW p \in Procs, pc[p] \in Owning
    PROVE  /\ tmp[p] \in Temps /\ tmp[p] \in Paths /\ tmp[p] # Dst
           /\ fs[tmp[p]] \in File
           /\ fs[tmp[p]].data = [i \in 1..out[p] |-> p]
           /\ \A q \in Procs \ {p} :
                 pc[q] \in Owning => tmp[q] # tmp[p] /\ tmp[q] \in Paths
                                    /\ tmp[q] # Dst
  BY SetsAssumption, ZenonT(40) DEF IInv, Session, Distinct, TypeOK, Paths, Entry

\* A write goes to the caller's own temporary.
LEMMA WriteIInv == ASSUME IInv, NEW p \in Procs, Write(p) PROVE IInv'
<1> USE DEF IInv
<1> DEFINE t == tmp[p]
           g == [fs[t] EXCEPT !.data = Append(fs[t].data, p)]
<1>0. pc[p] \in Owning /\ pc[p] = "write" /\ out[p] \in Nat /\ out[p] < Units
  BY NumbersAssumption DEF Write, Owning, TypeOK
<1>1. /\ t \in Temps /\ t \in Paths /\ t # Dst /\ fs[t] \in File
      /\ fs[t].data = [i \in 1..out[p] |-> p]
      /\ \A q \in Procs \ {p} :
            pc[q] \in Owning => tmp[q] # t /\ tmp[q] \in Paths
  BY <1>0, OwnTemp
<1>2. g.data = [i \in 1..(out[p] + 1) |-> p]
  BY <1>0, <1>1, AppendPart DEF File
<1>3. g \in File /\ g # NoFile
  <2> DEFINE d == [i \in 1..(out[p] + 1) |-> p]
  <2>1. d \in Seq(Writers) /\ Len(d) = out[p] + 1 /\ Len(fs[t].data) = out[p]
    BY <1>0, <1>1, PartData DEF Writers
  <2>2. Append(fs[t].data, p) = d /\ Len(fs[t].data) <= Len(d)
    BY <1>0, <1>1, <2>1, AppendPart
  <2>3. [fs[t] EXCEPT !.data = d] \in File
    <3> HIDE DEF d
    <3> QED
      BY <1>1, <2>1, <2>2, GrownFile
  <2> QED
    BY <2>2, <2>3, NoFileAssumption
<1>4. fs' = [fs EXCEPT ![t] = g]
  BY DEF Write
<1> HIDE DEF g
<1>5. /\ fs' \in [Paths -> Entry] /\ fs'[t] = g
      /\ \A x \in Paths \ {t} : fs'[x] = fs[x]
  BY <1>1, <1>3, <1>4 DEF TypeOK, Entry
<1>6. TypeOK'
  BY <1>0, <1>5, NumbersAssumption DEF Write, TypeOK
<1>7. Frame(p)
  BY <1>1, <1>5 DEF Write, Frame, TypeOK
<1>8. Session(p)'
  <2>1. /\ out'[p] = out[p] + 1 /\ pc' = pc /\ tmp' = tmp /\ ret' = ret
    BY DEF Write, TypeOK
  <2> QED
    BY <1>0, <1>1, <1>2, <1>3, <1>5, <2>1 DEF Session, Committing
<1>9. NeverPartial'
  BY <1>1, <1>5 DEF Write, NeverPartial, Paths
<1> QED
  BY <1>6, <1>7, <1>8, <1>9, StepFrame

\* age_fsync() in commit_output().
LEMMA FsyncIInv == ASSUME IInv, NEW p \in Procs, Fsync(p) PROVE IInv'
<1> USE DEF IInv
<1> DEFINE t == tmp[p]
           g == [fs[t] EXCEPT !.safe = Len(fs[t].data)]
<1>0. pc[p] \in Owning /\ pc[p] = "fsync" /\ out[p] = Units
  BY DEF Fsync, Owning, Session, Committing
<1>1. /\ t \in Temps /\ t \in Paths /\ t # Dst /\ fs[t] \in File
      /\ fs[t].data = [i \in 1..out[p] |-> p]
      /\ \A q \in Procs \ {p} :
            pc[q] \in Owning => tmp[q] # t /\ tmp[q] \in Paths
  BY <1>0, OwnTemp
<1>2. ASSUME fs' = [fs EXCEPT ![t] = g], Goto(p, "close"), ret' = ret, fds' = fds,
             UNCHANGED <<jdst, tmp, tries, out, orphans>>
      PROVE  IInv'
  <2>1. Len(fs[t].data) = Units /\ Units \in Nat
    BY <1>0, <1>1, PartData, NumbersAssumption DEF Writers
  <2>2. g \in File /\ g # NoFile /\ g.data = fs[t].data /\ g.safe = Units
    BY <1>1, <2>1, SyncedFile, NoFileAssumption
  <2> HIDE DEF g
  <2>3. /\ fs' \in [Paths -> Entry] /\ fs'[t] = g
        /\ \A x \in Paths \ {t} : fs'[x] = fs[x]
    BY <1>1, <1>2, <2>2 DEF TypeOK, Entry
  <2>4. TypeOK'
    BY <1>2, <2>3 DEF Goto, TypeOK, PCs
  <2>5. Frame(p)
    BY <1>1, <1>2, <2>3 DEF Goto, TypeOK, Frame
  <2>6. Session(p)'
    <3>1. pc'[p] = "close"
      BY <1>2 DEF Goto, TypeOK
    <3> QED
      BY <1>0, <1>1, <1>2, <2>2, <2>3, <3>1 DEF Session, Committing, Owning
  <2>7. NeverPartial'
    BY <1>1, <1>2, <2>3 DEF NeverPartial, Paths
  <2> QED
    BY <2>4, <2>5, <2>6, <2>7, StepFrame
<1>3. ASSUME fds' = [fds EXCEPT ![p] = @ \ {"tmp"}], UnlinkAndReturn(p, "error"),
             fs' = fs, UNCHANGED <<jdst, tmp, tries, out, orphans>>
      PROVE  IInv'
  <2>1. TypeOK'
    BY <1>3 DEF UnlinkAndReturn, Goto, TypeOK, PCs, Results
  <2>2. Frame(p)
    BY <1>1, <1>3 DEF UnlinkAndReturn, Goto, TypeOK, Frame
  <2>3. Session(p)'
    BY <1>0, <1>3
       DEF UnlinkAndReturn, Goto, TypeOK, Session, Committing, Owning
  <2>4. NeverPartial'
    BY <1>3 DEF NeverPartial
  <2> QED
    BY <2>1, <2>2, <2>3, <2>4, StepFrame
<1> QED
  BY <1>2, <1>3 DEF Fsync

\* The heart of NeverPartial: what is renamed or linked is the whole result.
LEMMA ReadyToInstall ==
    ASSUME IInv, NEW p \in Procs, pc[p] \in {"move", "access", "rename"}
    PROVE  fs[tmp[p]] = Whole(p)
<1>1. pc[p] \in Owning /\ pc[p] \in Committing \ {"fsync"}
  BY DEF Owning, Committing
<1>2. out[p] = Units /\ fs[tmp[p]].safe = Units
  BY <1>1 DEF IInv, Session
<1> QED
  BY <1>1, <1>2, OwnTemp, WholeFile

\* rename() installs the whole result, or changes nothing.
LEMMA RenameTempIInv ==
    ASSUME IInv, NEW p \in Procs, pc[p] \in {"move", "rename"}, RenameTemp(p),
           UNCHANGED <<jdst, fds, orphans>>
    PROVE  IInv'
<1> USE DEF IInv
<1> DEFINE t == tmp[p]
<1>0. pc[p] \in Owning /\ pc[p] \in PCs
  BY DEF Owning, PCs
<1>1. /\ t \in Temps /\ t \in Paths /\ t # Dst /\ Dst \in Paths
      /\ fs[t] \in File /\ fs[t] = Whole(p)
      /\ \A q \in Procs \ {p} :
            pc[q] \in Owning => tmp[q] # t /\ tmp[q] \in Paths /\ tmp[q] # Dst
  BY <1>0, OwnTemp, ReadyToInstall DEF Paths
<1>2. ASSUME fs' = [fs EXCEPT ![Dst] = fs[t], ![t] = NoFile], Return(p, "ok")
      PROVE  IInv'
  <2>1. /\ fs' \in [Paths -> Entry] /\ fs'[Dst] = Whole(p) /\ fs'[t] = NoFile
        /\ \A x \in Paths \ {t, Dst} : fs'[x] = fs[x]
    BY <1>1, <1>2 DEF TypeOK, Entry
  <2>2. TypeOK'
    BY <1>2, <2>1, NumbersAssumption
       DEF Return, Forget, Goto, TypeOK, PCs, Results, Paths
  <2>3. Frame(p)
    <3>1. tmp'[p] = Dst /\ pc'[p] = "done"
      BY <1>2 DEF Return, Forget, Goto, TypeOK
    <3>2. ASSUME NEW q \in Procs \ {p}
          PROVE  /\ pc'[q] = pc[q] /\ ret'[q] = ret[q]
                 /\ tmp'[q] = tmp[q] /\ out'[q] = out[q]
      BY <1>2 DEF Return, Forget, Goto, TypeOK
    <3> QED
      BY <1>1, <2>1, <3>1, <3>2 DEF Frame
  <2>4. Session(p)'
    BY <1>2 DEF Return, Forget, Goto, TypeOK, Session, Owning, Committing
  <2>5. NeverPartial'
    BY <2>1 DEF NeverPartial
  <2> QED
    BY <2>2, <2>3, <2>4, <2>5, StepFrame
<1>3. ASSUME UnlinkAndReturn(p, "error"), UNCHANGED <<fs, tmp, tries, out>>
      PROVE  IInv'
  <2>1. TypeOK'
    BY <1>3 DEF UnlinkAndReturn, Goto, TypeOK, PCs, Results
  <2>2. Frame(p)
    BY <1>1, <1>3 DEF UnlinkAndReturn, Goto, TypeOK, Frame
  <2>3. Session(p)'
    BY <1>0, <1>3
       DEF UnlinkAndReturn, Goto, TypeOK, Session, Committing, Owning
  <2>4. NeverPartial'
    BY <1>3 DEF NeverPartial
  <2> QED
    BY <2>1, <2>2, <2>3, <2>4, StepFrame
<1> QED
  BY <1>2, <1>3 DEF RenameTemp

\* link() installs the whole result, or changes nothing.
LEMMA LinkTempIInv ==
    ASSUME IInv, NEW p \in Procs \ MayOverwrite, pc[p] = "move", LinkTemp(p),
           UNCHANGED <<jdst, fds, orphans>>
    PROVE  IInv'
<1> USE DEF IInv
<1> DEFINE t == tmp[p]
<1>0. pc[p] \in Owning /\ pc[p] \in Committing \ {"fsync"}
  BY DEF Owning, Committing
<1>1. /\ t \in Temps /\ t \in Paths /\ t # Dst /\ Dst \in Paths
      /\ fs[t] \in File /\ fs[t] = Whole(p)
      /\ \A q \in Procs \ {p} :
            pc[q] \in Owning => tmp[q] # t /\ tmp[q] \in Paths /\ tmp[q] # Dst
  BY <1>0, OwnTemp, ReadyToInstall DEF Paths
<1>2. ASSUME fs' = [fs EXCEPT ![Dst] = fs[t]]
      PROVE  /\ fs' \in [Paths -> Entry] /\ fs'[Dst] = Whole(p)
             /\ \A x \in Paths \ {Dst} : fs'[x] = fs[x]
  BY <1>1, <1>2 DEF TypeOK, Entry
<1>3. /\ fs' \in [Paths -> Entry] /\ fs'[Dst] \in {fs[Dst], Whole(p)}
      /\ \A x \in Paths \ {Dst} : fs'[x] = fs[x]
  BY <1>2 DEF LinkTemp, TypeOK
<1>4. /\ pc' \in [Procs -> PCs] /\ pc'[p] \in {"unlink", "access"}
      /\ pc'[p] = "access" => LinkMayFail /\ ret'[p] = "none"
      /\ ret' \in [Procs -> Results]
      /\ UNCHANGED <<tmp, tries, out>>
      /\ \A q \in Procs \ {p} : pc'[q] = pc[q] /\ ret'[q] = ret[q]
  BY ZenonT(40) DEF LinkTemp, UnlinkAndReturn, Goto, TypeOK, PCs, Results, Session
<1>5. TypeOK'
  BY <1>3, <1>4 DEF TypeOK
<1>6. Frame(p)
  BY <1>1, <1>3, <1>4 DEF Frame
<1>7. Session(p)'
  BY <1>0, <1>1, <1>3, <1>4 DEF Session, Owning, Committing
<1>8. NeverPartial'
  BY <1>3 DEF NeverPartial
<1> QED
  BY <1>5, <1>6, <1>7, <1>8, StepFrame

\* age_move(), either way.
LEMMA MoveIInv == ASSUME IInv, NEW p \in Procs, Move(p) PROVE IInv'
  BY RenameTempIInv, LinkTempIInv DEF Move

\* The rename() of the fallback of age_move().
LEMMA RenameIInv == ASSUME IInv, NEW p \in Procs, Rename(p) PROVE IInv'
  BY RenameTempIInv DEF Rename

\* unlink() of the caller's own temporary.
LEMMA UnlinkIInv == ASSUME IInv, NEW p \in Procs, Unlink(p) PROVE IInv'
<1> USE DEF IInv
<1> DEFINE t == tmp[p]
<1>0. pc[p] \in Owning
  BY DEF Unlink, Owning
<1>1. /\ t \in Temps /\ t \in Paths /\ t # Dst /\ Dst \in Paths
      /\ \A q \in Procs \ {p} :
            pc[q] \in Owning => tmp[q] # t /\ tmp[q] \in Paths /\ tmp[q] # Dst
  BY <1>0, OwnTemp DEF Paths
<1>2. /\ fs' \in [Paths -> Entry] /\ \A x \in Paths \ {t} : fs'[x] = fs[x]
      /\ orphans' \subseteq Temps /\ jdst' = jdst /\ fds' = fds
  BY <1>1 DEF Unlink, TypeOK, Entry
<1>3. Return(p, ret[p])
  BY DEF Unlink
<1>4. TypeOK'
  BY <1>2, <1>3, NumbersAssumption
     DEF Return, Forget, Goto, TypeOK, PCs, Paths
<1>5. Frame(p)
  <2>1. tmp'[p] = Dst /\ pc'[p] = "done"
    BY <1>3 DEF Return, Forget, Goto, TypeOK
  <2>2. ASSUME NEW q \in Procs \ {p}
        PROVE  /\ pc'[q] = pc[q] /\ ret'[q] = ret[q]
               /\ tmp'[q] = tmp[q] /\ out'[q] = out[q]
    BY <1>3 DEF Return, Forget, Goto, TypeOK
  <2> QED
    BY <1>1, <1>2, <2>1, <2>2 DEF Frame
<1>6. Session(p)'
  BY <1>3 DEF Return, Forget, Goto, TypeOK, Session, Owning, Committing
<1>7. NeverPartial'
  BY <1>1, <1>2 DEF NeverPartial
<1> QED
  BY <1>4, <1>5, <1>6, <1>7, StepFrame

\* The next call of a session.
LEMMA CallAgainIInv == ASSUME IInv, NEW p \in Procs, CallAgain(p) PROVE IInv'
<1> USE DEF IInv
<1>0. pc[p] \notin Owning /\ tmp[p] = Dst
  BY DEF CallAgain, Stopped, Owning, Session
<1>1. TypeOK'
  BY DEF CallAgain, Goto, TypeOK, PCs, Results
<1>2. Frame(p)
  <2>1. \A q \in Procs : pc[q] \in Owning => tmp[q] # Dst
    BY SetsAssumption DEF Session
  <2> QED
    BY <1>0, <2>1 DEF CallAgain, Goto, TypeOK, Frame
<1>3. Session(p)'
  BY <1>0 DEF CallAgain, Goto, TypeOK, Session, Owning, Committing
<1>4. NeverPartial'
  BY DEF CallAgain, NeverPartial
<1> QED
  BY <1>1, <1>2, <1>3, <1>4, StepFrame

\* A session is killed.
LEMMA DieIInv == ASSUME IInv, NEW p \in Procs, Die(p) PROVE IInv'
<1> USE DEF IInv
<1>1. Leftovers({p}) \subseteq Temps
  BY DEF Leftovers, Session
<1>2. TypeOK'
  <2>1. orphans' \subseteq Temps
    BY <1>1 DEF Die, TypeOK
  <2>2. fds' \in [Procs -> SUBSET {"in", "tmp"}] /\ ret' \in [Procs -> Results]
        /\ pc' \in [Procs -> PCs]
    BY DEF Die, Goto, TypeOK, PCs, Results
  <2>3. /\ tmp' \in [Procs -> Paths] /\ tries' \in [Procs -> 0..MaxTries]
        /\ out' \in [Procs -> 0..Units] /\ fs' = fs /\ jdst' = jdst
    BY NumbersAssumption DEF Die, Forget, TypeOK, Paths
  <2> QED
    BY <2>1, <2>2, <2>3 DEF TypeOK
<1>3. Frame(p)
  <2>1. \A q \in Procs : pc[q] \in Owning => tmp[q] # Dst
    BY SetsAssumption DEF Session
  <2>2. tmp'[p] = Dst
    BY DEF Die, Forget, TypeOK
  <2>3. ASSUME NEW q \in Procs \ {p}
        PROVE  /\ pc'[q] = pc[q] /\ ret'[q] = ret[q]
               /\ tmp'[q] = tmp[q] /\ out'[q] = out[q] /\ fs' = fs
    BY DEF Die, Forget, Goto, TypeOK
  <2> QED
    BY <2>1, <2>2, <2>3 DEF Frame
<1>4. Session(p)'
  BY DEF Die, Forget, Goto, TypeOK, Session, Owning, Committing
<1>5. NeverPartial'
  BY DEF Die, NeverPartial
<1> QED
  BY <1>2, <1>3, <1>4, <1>5, StepFrame

\* Another program changes the destination.
LEMMA OutsideIInv == ASSUME IInv, Outside PROVE IInv'
<1> USE DEF IInv
<1>1. Foreign \in File /\ Dst \in Paths
  <2>1. 1 \in 0..1 /\ Other \in Writers
    BY DEF Writers
  <2> QED
    BY <2>1, PartType DEF Foreign, Paths
<1>2. /\ fs' \in [Paths -> Entry] /\ fs'[Dst] \in {NoFile, Foreign}
      /\ \A x \in Paths \ {Dst} : fs'[x] = fs[x]
  BY <1>1 DEF Outside, TypeOK, Entry
<1>3. TypeOK'
  BY <1>2 DEF Outside, TypeOK
<1>4. ASSUME NEW p \in Procs PROVE Session(p)'
  <2>1. pc[p] \in Owning => tmp[p] \in Paths /\ tmp[p] # Dst
    BY OwnTemp
  <2>2. Committing \subseteq Owning
    BY DEF Committing, Owning
  <2> QED
    BY <1>2, <2>1, <2>2 DEF Outside, Session
<1>5. Distinct' /\ NeverPartial'
  BY <1>2 DEF Outside, Distinct, NeverPartial
<1> QED
  BY <1>3, <1>4, <1>5

\* The directory entry of the destination becomes durable.
LEMMA JournalIInv == ASSUME IInv, Journal PROVE IInv'
<1> USE DEF IInv
<1>1. TypeOK'
  BY DEF Journal, TypeOK, Paths
<1>2. (\A p \in Procs : Session(p)') /\ Distinct' /\ NeverPartial'
  BY DEF Journal, Session, Distinct, NeverPartial
<1> QED
  BY <1>1, <1>2

\* A power failure.
LEMMA PowerLossIInv == ASSUME IInv, PowerLoss PROVE IInv'
<1> USE DEF IInv
<1>1. PICK lost \in BOOLEAN, S \in SUBSET Temps :
        /\ fs' = [x \in Paths |->
                    CASE x = Dst -> AfterLoss(jdst, lost)
                      [] x \in S -> AfterLoss(fs[x], lost)
                      [] OTHER -> NoFile]
        /\ jdst' = AfterLoss(jdst, lost)
  BY DEF PowerLoss
<1>2. jdst' = jdst /\ fs'[Dst] = jdst
  <2>1. jdst \in {NoFile, Foreign} \cup {Whole(p) : p \in Procs}
    BY DEF NeverPartial
  <2>2. AfterLoss(jdst, lost) = jdst
    BY <2>1, DurableSurvives
  <2> QED
    BY <1>1, <2>2, SetsAssumption DEF Paths
<1>3. fs' \in [Paths -> Entry]
  <2>1. ASSUME NEW x \in Paths PROVE fs'[x] \in Entry
    <3>1. AfterLoss(jdst, lost) \in Entry /\ AfterLoss(fs[x], lost) \in Entry
      BY LossType DEF TypeOK
    <3>2. NoFile \in Entry
      BY DEF Entry
    <3> QED
      BY <1>1, <3>1, <3>2
  <2> QED
    BY <1>1, <2>1
<1>4. Leftovers(Procs) \subseteq Temps
  BY DEF Leftovers, Session
<1>5. TypeOK'
  BY <1>2, <1>3, <1>4, NumbersAssumption
     DEF PowerLoss, TypeOK, PCs, Results, Paths
<1>6. Distinct' /\ \A p \in Procs : Session(p)'
  BY DEF PowerLoss, Session, Distinct, Owning, Committing
<1>7. NeverPartial'
  BY <1>2 DEF NeverPartial
<1> QED
  BY <1>5, <1>6, <1>7

\* So every step preserves the invariant.
LEMMA NextIInv == ASSUME IInv, [Next]_vars PROVE IInv'
<1>1. ASSUME NEW p \in Procs, Step(p) PROVE IInv'
  BY <1>1, GuardIInv, OpenInputIInv, OpenTempIInv, WriteIInv, TransformedIInv,
     DiscardIInv, FsyncIInv, CloseIInv, MoveIInv, AccessIInv, RenameIInv,
     UnlinkIInv DEF Step
<1>2. CASE UNCHANGED vars
  BY <1>2 DEF vars, IInv, TypeOK, Session, Distinct, NeverPartial
<1> QED
  BY <1>1, <1>2, CallAgainIInv, DieIInv, OutsideIInv, JournalIInv, PowerLossIInv
     DEF Next

\* The inductive invariant holds throughout.
THEOREM Invariant == Spec => []IInv
  BY InitIInv, NextIInv, PTL DEF Spec

\* Types: every variable keeps its type, every file's durable part is part of
\* its data (run_file_transform and its helpers, all paths).
THEOREM TypeCorrect == Spec => []TypeOK
<1>1. IInv => TypeOK
  BY DEF IInv
<1> QED
  BY <1>1, Invariant, PTL

\* The destination never shows a partial result, for any number of sessions
\* and any interleaving of steps, deaths and power failures (binding.c,
\* run_file_transform and commit_output).
THEOREM DestinationNeverPartial == Spec => []NeverPartial
<1>1. IInv => NeverPartial
  BY DEF IInv
<1> QED
  BY <1>1, Invariant, PTL

\* Live calls never share a temporary file, and it holds exactly what its
\* owner wrote (age_open_temp, fileio.c).
THEOREM TempsArePrivate == Spec => []PrivateTemps
<1>1. IInv => PrivateTemps
  BY OwnTemp DEF IInv, PrivateTemps, Session, Distinct
<1> QED
  BY <1>1, Invariant, PTL

-----------------------------------------------------------------------------
(* Nothing is left behind. *)

\* Which descriptors p can hold where it is.
Descriptors(p) ==
    /\ pc[p] \in {"fsync", "close"} => fds[p] \subseteq {"tmp"}
    /\ pc[p] \in PCs \ {"open_temp", "write", "fsync", "close"} => fds[p] = {}

\* A temporary in the directory is owned, or an orphan.
Claimed(t) == t \in orphans \/ \E p \in Procs : pc[p] \in Owning /\ tmp[p] = t

\* The inductive form of NoLeftovers.
NoLeftoversInv ==
    /\ \A p \in Procs : Descriptors(p)
    /\ \A t \in Temps : fs[t] # NoFile => Claimed(t)

\* A step of p keeps the descriptors in order.
LEMMA StepDescriptors ==
    ASSUME TypeOK, NoLeftoversInv, NEW p \in Procs, Step(p) \/ CallAgain(p) \/ Die(p)
    PROVE  \A q \in Procs : Descriptors(q)'
<1>1. ASSUME NEW q \in Procs, q # p
      PROVE  pc'[q] = pc[q] /\ fds'[q] = fds[q]
  BY <1>1 DEF TypeOK, Step, Guard, OpenInput, OpenTemp, CreateTemp, TryAgain, NoTemp, Write,
     Transformed, Discard, Fsync, Close, Move, LinkTemp, RenameTemp, Access, Rename, Unlink,
     CallAgain, Die, Return, Goto, UnlinkAndReturn
<1>2. Descriptors(p)'
  <2> USE DEF TypeOK, NoLeftoversInv, Descriptors, PCs, Return, Goto, UnlinkAndReturn
  <2>1. CASE Guard(p) \/ OpenInput(p)
    BY <2>1 DEF Guard, OpenInput
  <2>2. CASE OpenTemp(p)
    BY <2>2 DEF OpenTemp, CreateTemp, TryAgain, NoTemp
  <2>3. CASE Write(p) \/ Transformed(p) \/ Discard(p)
    BY <2>3 DEF Write, Transformed, Discard
  <2>4. CASE Fsync(p) \/ Close(p)
    BY <2>4 DEF Fsync, Close
  <2>5. CASE Move(p) \/ Access(p) \/ Rename(p)
    BY <2>5 DEF Move, LinkTemp, RenameTemp, Access, Rename
  <2>6. CASE Unlink(p) \/ CallAgain(p) \/ Die(p)
    BY <2>6 DEF Unlink, CallAgain, Die, Stopped
  <2> QED
    BY <2>1, <2>2, <2>3, <2>4, <2>5, <2>6 DEF Step
<1> QED
  BY <1>1, <1>2 DEF NoLeftoversInv, Descriptors

\* A step that changes nothing in the directory but at most one temporary, and
\* after which whoever owned another temporary owns it still.
LEMMA StillClaimed ==
    ASSUME NoLeftoversInv, NEW t \in Temps, fs[t] # NoFile, orphans \subseteq orphans',
           \A p \in Procs : pc[p] \in Owning /\ tmp[p] = t
                => t \in orphans' \/ (pc'[p] \in Owning /\ tmp'[p] = t)
    PROVE  Claimed(t)'
  BY DEF NoLeftoversInv, Claimed

\* A step of a session leaves no temporary without an owner.
LEMMA StepClaims ==
    ASSUME IInv, NoLeftoversInv, NEW p \in Procs, Step(p) \/ CallAgain(p) \/ Die(p),
           NEW t \in Temps, fs'[t] # NoFile
    PROVE  Claimed(t)'
<1> USE SetsAssumption DEF TypeOK
<1>1. TypeOK /\ Dst \notin Temps /\ Paths = Temps \cup {Dst}
  BY DEF IInv, Paths
<1>2. CASE OpenTemp(p)
  <2>1. CASE \E u \in Temps : CreateTemp(p, u)
    <3>1. PICK u \in Temps : CreateTemp(p, u)
      BY <2>1
    <3>2. pc[p] = "open_temp" /\ pc'[p] = "write" /\ tmp'[p] = u /\ orphans' = orphans
      BY <1>1, <1>2, <3>1 DEF CreateTemp, Goto, OpenTemp
    <3>3. \A q \in Procs \ {p} : pc'[q] = pc[q] /\ tmp'[q] = tmp[q]
      BY <1>1, <3>1 DEF CreateTemp, Goto
    <3>4. CASE t = u
      BY <3>2, <3>4 DEF Claimed, Owning
    <3>5. CASE t # u
      <4>1. fs[t] # NoFile
        BY <1>1, <3>1, <3>5 DEF CreateTemp
      <4> QED
        BY <4>1, <3>2, <3>3, StillClaimed DEF Owning
    <3> QED
      BY <3>4, <3>5
  <2>2. CASE TryAgain(p) \/ NoTemp(p)
    <3>1. fs' = fs /\ orphans' = orphans /\ pc[p] = "open_temp"
      BY <1>2, <2>2 DEF OpenTemp, TryAgain, NoTemp
    <3>2. \A q \in Procs \ {p} : pc'[q] = pc[q] /\ tmp'[q] = tmp[q]
      BY <1>1, <2>2 DEF TryAgain, NoTemp, Return, Goto, Forget
    <3> QED
      BY <3>1, <3>2, StillClaimed DEF Owning
  <2> QED
    BY <1>2, <2>1, <2>2 DEF OpenTemp
<1>3. CASE Guard(p) \/ OpenInput(p) \/ Transformed(p) \/ Discard(p) \/ Close(p) \/ Access(p)
           \/ CallAgain(p)
  <2>1. fs' = fs /\ orphans' = orphans
    BY <1>3 DEF Guard, OpenInput, Transformed, Discard, Close, Access, CallAgain
  <2>2. \A q \in Procs : pc[q] \in Owning => pc'[q] \in Owning /\ tmp'[q] = tmp[q]
    BY <1>1, <1>3 DEF Guard, OpenInput, Transformed, Discard, Close, Access, CallAgain,
       Return, Goto, Forget, UnlinkAndReturn, Owning, Stopped
  <2> QED
    BY <2>1, <2>2, StillClaimed
<1>4. CASE Write(p) \/ Fsync(p)
  <2>1. pc[p] \in Owning /\ pc'[p] \in Owning /\ orphans' = orphans /\ tmp' = tmp
    BY <1>1, <1>4 DEF Write, Fsync, Goto, UnlinkAndReturn, Owning
  <2>2. \A q \in Procs \ {p} : pc'[q] = pc[q]
    BY <1>1, <1>4 DEF Write, Fsync, Goto, UnlinkAndReturn
  <2>3. t # tmp[p] => fs'[t] = fs[t]
    BY <1>1, <1>4 DEF Write, Fsync
  <2>4. CASE t = tmp[p]
    BY <2>1, <2>4 DEF Claimed
  <2> QED
    BY <2>1, <2>2, <2>3, <2>4, StillClaimed
<1>5. CASE Move(p) \/ Rename(p)
  <2>1. pc[p] \in Owning /\ tmp[p] \in Temps /\ orphans' = orphans
    BY <1>5 DEF Move, Rename, Owning, IInv, Session
  <2>2. \A q \in Procs \ {p} : pc'[q] = pc[q] /\ tmp'[q] = tmp[q]
    BY <1>1, <1>5 DEF Move, Rename, RenameTemp, LinkTemp, Goto, UnlinkAndReturn, Return, Forget
  <2>3. fs[t] # NoFile
    BY <1>1, <1>5, <2>1 DEF Move, Rename, RenameTemp, LinkTemp
  <2>4. t = tmp[p] => pc'[p] \in Owning /\ tmp'[p] = t
    BY <1>1, <1>5, <2>1 DEF Move, Rename, RenameTemp, LinkTemp, Goto, UnlinkAndReturn, Owning
  <2> QED
    BY <2>1, <2>2, <2>3, <2>4, StillClaimed
<1>6. CASE Unlink(p)
  <2>1. pc[p] \in Owning /\ tmp[p] \in Temps /\ orphans \subseteq orphans'
    BY <1>6 DEF Unlink, Owning, IInv, Session
  <2>2. \A q \in Procs \ {p} : pc'[q] = pc[q] /\ tmp'[q] = tmp[q]
    BY <1>1, <1>6 DEF Unlink, Return, Goto, Forget
  <2>3. fs[t] # NoFile /\ (t = tmp[p] => t \in orphans')
    BY <1>1, <1>6, <2>1 DEF Unlink
  <2>4. \A q \in Procs : pc[q] \in Owning /\ tmp[q] = t
            => t \in orphans' \/ (pc'[q] \in Owning /\ tmp'[q] = t)
    BY <2>2, <2>3
  <2> QED
    BY <2>1, <2>3, <2>4, StillClaimed
<1>7. CASE Die(p)
  <2>1. fs' = fs /\ orphans' = orphans \cup Leftovers({p})
    BY <1>7 DEF Die
  <2>2. pc[p] \in Owning => tmp[p] \in orphans'
    BY <2>1 DEF Leftovers
  <2>3. \A q \in Procs \ {p} : pc'[q] = pc[q] /\ tmp'[q] = tmp[q]
    BY <1>1, <1>7 DEF Die, Goto, Forget
  <2>4. \A q \in Procs : pc[q] \in Owning /\ tmp[q] = t
            => t \in orphans' \/ (pc'[q] \in Owning /\ tmp'[q] = t)
    BY <2>2, <2>3
  <2>5. fs[t] # NoFile /\ orphans \subseteq orphans'
    BY <2>1
  <2> QED
    BY <2>4, <2>5, StillClaimed
<1> QED
  BY <1>2, <1>3, <1>4, <1>5, <1>6, <1>7 DEF Step

\* What a power failure leaves in the directory is an orphan.
LEMMA PowerLossClaims ==
    ASSUME IInv, NoLeftoversInv, PowerLoss, NEW t \in Temps, fs'[t] # NoFile
    PROVE  Claimed(t)'
<1>1. t # Dst /\ t \in Paths
  BY SetsAssumption DEF Paths
<1>2. fs[t] # NoFile
  BY <1>1 DEF PowerLoss, AfterLoss
<1>3. t \in orphans \cup Leftovers(Procs)
  BY <1>2 DEF NoLeftoversInv, Claimed, Leftovers
<1> QED
  BY <1>3 DEF PowerLoss, Claimed

\* So every step preserves it.
LEMMA NextNoLeftovers ==
    ASSUME IInv, NoLeftoversInv, [Next]_vars PROVE NoLeftoversInv'
<1>0. TypeOK
  BY DEF IInv
<1>1. ASSUME NEW p \in Procs, Step(p) \/ CallAgain(p) \/ Die(p) PROVE NoLeftoversInv'
  BY <1>0, <1>1, StepDescriptors, StepClaims DEF NoLeftoversInv
<1>2. CASE Outside \/ Journal
  <2>1. UNCHANGED <<pc, tmp, fds, orphans>> /\ \A t \in Temps : fs'[t] = fs[t]
    BY <1>0, <1>2, SetsAssumption DEF Outside, Journal, TypeOK, Paths
  <2> QED
    BY <2>1 DEF NoLeftoversInv, Descriptors, Claimed
<1>3. CASE PowerLoss
  <2>1. \A p \in Procs : Descriptors(p)'
    BY <1>3 DEF PowerLoss, Descriptors
  <2> QED
    BY <1>3, <2>1, PowerLossClaims DEF NoLeftoversInv
<1>4. CASE UNCHANGED vars
  BY <1>4 DEF vars, NoLeftoversInv, Descriptors, Claimed
<1> QED
  BY <1>1, <1>2, <1>3, <1>4 DEF Next

\* A call that has returned or died holds no descriptor, and every temporary
\* file belongs to a live call or is an orphan that an unlink or a death left,
\* for any number of sessions (run_file_transform, commit_output, discard_output).
THEOREM LeavesNothing == Spec => []NoLeftovers
<1>1. Init => NoLeftoversInv
  BY DEF Init, NoLeftoversInv, Descriptors, PCs
<1>2. IInv /\ NoLeftoversInv => NoLeftovers
  BY DEF IInv, TypeOK, NoLeftoversInv, NoLeftovers, Descriptors, Claimed, Stopped, PCs
<1> QED
  BY <1>1, <1>2, Invariant, NextNoLeftovers, PTL DEF Spec

-----------------------------------------------------------------------------
(* No clobbering, and the refinement of AtomicOutput, where link() fails only *)
(* because the destination exists.                                            *)

\* What a step of p may do at the destination.
LEMMA StepAtDestination ==
    ASSUME IInv, ~LinkMayFail, NEW p \in Procs, Step(p)
    PROVE  /\ jdst' = jdst
           /\ \/ fs'[Dst] = fs[Dst] /\ (ret'[p] = "ok" => ret[p] = "ok")
              \/ /\ p \in MayOverwrite \/ fs[Dst] = NoFile
                 /\ fs'[Dst] = Whole(p)
                 /\ pc[p] = "move" /\ pc'[p] # "dead" /\ ret'[p] = "ok"
<1> USE DEF IInv
<1>1. CASE Guard(p) \/ OpenInput(p) \/ Transformed(p) \/ Discard(p)
           \/ Close(p) \/ Access(p)
  BY <1>1 DEF Guard, OpenInput, Transformed, Discard, Close, Access, Return,
              UnlinkAndReturn, Forget, Goto, TypeOK
<1>2. CASE OpenTemp(p)
  BY <1>2, SetsAssumption DEF OpenTemp, CreateTemp, TryAgain, NoTemp, Return,
                              Forget, Goto, TypeOK, Paths
<1>3. ASSUME pc[p] \in Owning PROVE tmp[p] # Dst /\ Dst \in Paths
  BY <1>3, OwnTemp DEF Paths
<1>4. CASE Write(p)
  BY <1>3, <1>4 DEF Write, Owning, TypeOK
<1>5. CASE Fsync(p)
  BY <1>3, <1>5 DEF Fsync, UnlinkAndReturn, Goto, Owning, TypeOK
<1>6. CASE Unlink(p)
  BY <1>3, <1>6 DEF Unlink, Return, Forget, Goto, Owning, TypeOK
<1>7. CASE Rename(p)
  BY <1>7 DEF Rename, Session
<1>8. CASE Move(p)
  <2>1. fs[tmp[p]] = Whole(p) /\ tmp[p] # Dst /\ tmp[p] \in Paths /\ Dst \in Paths
    BY <1>3, <1>8, ReadyToInstall DEF Move, Owning, TypeOK
  <2>2. CASE p \in MayOverwrite
    BY <1>8, <2>1, <2>2
       DEF Move, RenameTemp, Return, UnlinkAndReturn, Forget, Goto, TypeOK
  <2>3. CASE p \notin MayOverwrite
    BY <1>8, <2>1, <2>3 DEF Move, LinkTemp, UnlinkAndReturn, Goto, TypeOK
  <2> QED
    BY <2>2, <2>3
<1> QED
  BY <1>1, <1>2, <1>4, <1>5, <1>6, <1>7, <1>8 DEF Step

\* Where link() fails only with EEXIST, a call without overwrite never replaces
\* an existing destination, whoever created it and whenever (age_move).
THEOREM NeverClobbers == ASSUME ~LinkMayFail PROVE Spec => NoClobber
<1> DEFINE Kept == \A p \in Procs \ MayOverwrite :
                     Step(p) /\ fs[Dst] # NoFile => fs'[Dst] = fs[Dst]
<1>1. IInv => Kept
  BY StepAtDestination
<1>2. Spec => [][Kept]_vars
  <2>1. IInv /\ [Next]_vars => [Kept]_vars
    BY <1>1
  <2> QED
    BY <2>1, Invariant, PTL DEF Spec
<1> QED
  BY <1>2 DEF NoClobber

-----------------------------------------------------------------------------
(* The refinement. *)

\* Initial states map to initial states of AtomicOutput.
LEMMA InitRefines == Init => AO!Init
  BY SetsAssumption
     DEF Init, AO!Init, Status, Paths

\* Status is a state of AtomicOutput.
LEMMA StatusOf ==
    ASSUME IInv, NEW p \in Procs
    PROVE  /\ Status(p) \in AO!States
           /\ pc[p] \notin {"done", "unlink", "dead"} => Status(p) = "running"
           /\ ret[p] = "ok" => Status(p) = "installed"
  BY DEF Status, AO!States, IInv, Session

\* Every step of a session is an installation, a failure, or invisible.
LEMMA StepRefines ==
    ASSUME IInv, IInv', ~LinkMayFail, NEW p \in Procs, Step(p)
    PROVE  \/ AO!Install(p) \/ AO!Fail(p)
           \/ UNCHANGED AO!vars
<1> DEFINE st == [q \in Procs |-> Status(q)]
<1>1. \A q \in Procs \ {p} : Status(q)' = Status(q)
  <2>1. ASSUME NEW q \in Procs \ {p} PROVE pc'[q] = pc[q] /\ ret'[q] = ret[q]
    BY DEF IInv, TypeOK, Step, Guard, OpenInput, OpenTemp, CreateTemp, TryAgain,
           NoTemp, Write, Transformed, Discard, Fsync, Close, Move, Access, Rename,
           Unlink, RenameTemp, LinkTemp, Return, UnlinkAndReturn, Forget, Goto
  <2> QED
    BY <2>1 DEF Status
<1>2. /\ pc[p] \notin Stopped /\ pc'[p] # "dead"
      /\ ret[p] = "ok" => ret'[p] = "ok"
  <2>1. pc[p] \notin Stopped /\ pc'[p] # "dead"
    BY DEF IInv, TypeOK, Step, Guard, OpenInput, OpenTemp, CreateTemp, TryAgain,
           NoTemp, Write, Transformed, Discard, Fsync, Close, Move, Access, Rename,
           Unlink, RenameTemp, LinkTemp, Return, UnlinkAndReturn, Forget, Goto,
           Stopped
  <2>2. ASSUME ret[p] = "ok" PROVE Unlink(p)
    <3>1. pc[p] = "unlink"
      BY <2>1, <2>2 DEF IInv, Session, Stopped
    <3> QED
      BY <3>1 DEF Step, Guard, OpenInput, OpenTemp, Write, Transformed, Discard,
                  Fsync, Close, Move, Access, Rename
  <2> QED
    BY <2>1, <2>2 DEF IInv, TypeOK, Unlink, Return
<1>3. CASE ret[p] = "ok"
  <2>1. Status(p) = "installed" /\ Status(p)' = "installed"
    BY <1>2, <1>3 DEF Status, Stopped
  <2>2. st' = st
    BY <1>1, <2>1
  <2>3. fs'[Dst] = fs[Dst] /\ jdst' = jdst
    BY <1>2, <1>3, StepAtDestination DEF IInv, Session
  <2> QED
    BY <2>2, <2>3 DEF AO!vars
<1>4. CASE ret[p] # "ok" /\ ret'[p] = "ok"
  <2>1. Status(p) = "running" /\ Status(p)' = "installed"
    BY <1>2, <1>4 DEF Status, Stopped
  <2>2. st[p] = "running" /\ st' = [st EXCEPT ![p] = "installed"]
    BY <1>1, <2>1
  <2>3. /\ p \in MayOverwrite \/ fs[Dst] = NoFile
        /\ fs'[Dst] = Whole(p) /\ jdst' = jdst
    BY <1>4, StepAtDestination
  <2>4. AO!Install(p)
    BY <2>2, <2>3 DEF AO!Install
  <2> QED
    BY <2>4
<1>5. CASE ret[p] # "ok" /\ ret'[p] # "ok"
  <2>1. Status(p) = "running" /\ Status(p)' \in {"running", "failed"}
    BY <1>2, <1>5 DEF Status, Stopped
  <2>2. fs'[Dst] = fs[Dst] /\ jdst' = jdst
    BY <1>5, StepAtDestination
  <2>3. CASE Status(p)' = "running"
    <3>1. st' = st
      BY <1>1, <2>1, <2>3
    <3> QED
      BY <2>2, <3>1 DEF AO!vars
  <2>4. CASE Status(p)' = "failed"
    <3>1. st[p] = "running" /\ st' = [st EXCEPT ![p] = "failed"]
      BY <1>1, <2>1, <2>4
    <3>2. AO!Fail(p)
      BY <2>2, <3>1 DEF AO!Fail
    <3> QED
      BY <3>2
  <2> QED
    BY <2>1, <2>3, <2>4
<1> QED
  BY <1>3, <1>4, <1>5

\* The environment's steps are the abstract environment's.
LEMMA EnvRefines ==
    ASSUME IInv, IInv',
           (\E p \in Procs : CallAgain(p) \/ Die(p)) \/ Outside \/ Journal \/ PowerLoss
    PROVE  [AO!Next]_AO!vars
<1> DEFINE st == [q \in Procs |-> Status(q)]
<1>1. ASSUME NEW p \in Procs, CallAgain(p) PROVE AO!CallAgain(p)
  <2>1. Status(p) # "running" /\ Status(p)' = "running"
    BY <1>1 DEF CallAgain, Goto, IInv, TypeOK, Status, Stopped
  <2>2. \A q \in Procs \ {p} : Status(q)' = Status(q)
    BY <1>1 DEF CallAgain, Goto, IInv, TypeOK, Status
  <2>3. st[p] # "running" /\ st' = [st EXCEPT ![p] = "running"]
    BY <2>1, <2>2
  <2> QED
    BY <1>1, <2>3 DEF CallAgain, AO!CallAgain
<1>2. ASSUME NEW p \in Procs, Die(p) PROVE AO!Die(p)
  <2>1. Status(p) \in {"running", "installed"} /\ Status(p)' = "dead"
    BY <1>2 DEF Die, Goto, IInv, TypeOK, Status, Stopped
  <2>2. \A q \in Procs \ {p} : Status(q)' = Status(q)
    BY <1>2 DEF Die, Goto, IInv, TypeOK, Status
  <2>3. st[p] \in {"running", "installed"} /\ st' = [st EXCEPT ![p] = "dead"]
    BY <2>1, <2>2
  <2> QED
    BY <1>2, <2>3 DEF Die, AO!Die
<1>3. CASE Outside
  <2>1. fs'[Dst] \in {NoFile, Foreign} /\ st' = st /\ jdst' = jdst
    BY <1>3 DEF Outside, IInv, TypeOK, Paths, Status
  <2>2. AO!Outside
    BY <2>1 DEF AO!Outside
  <2> QED
    BY <2>2 DEF AO!Next
<1>4. CASE Journal
  <2>1. AO!Persist
    BY <1>4 DEF Journal, AO!Persist, Status
  <2> QED
    BY <2>1 DEF AO!Next
<1>5. CASE PowerLoss
  <2>1. PICK lost \in BOOLEAN, S \in SUBSET Temps :
          /\ fs' = [x \in Paths |->
                      CASE x = Dst -> AfterLoss(jdst, lost)
                        [] x \in S -> AfterLoss(fs[x], lost)
                        [] OTHER -> NoFile]
          /\ jdst' = AfterLoss(jdst, lost)
    BY <1>5 DEF PowerLoss
  <2>2. AfterLoss(jdst, lost) = jdst
    BY DurableSurvives DEF IInv, NeverPartial
  <2>3. fs'[Dst] = jdst /\ jdst' = jdst
    BY <2>1, <2>2, SetsAssumption DEF Paths
  <2>4. \A p \in Procs : Status(p)' = "dead"
    BY <1>5 DEF PowerLoss, Status
  <2>5. st' \in [Procs -> AO!States] /\ \A p \in Procs : st'[p] \in {st[p], "dead"}
    BY <2>4 DEF AO!States
  <2>6. AO!PowerFailure
    BY <2>3, <2>5 DEF AO!PowerFailure
  <2> QED
    BY <2>6 DEF AO!Next
<1> QED
  BY <1>1, <1>2, <1>3, <1>4, <1>5 DEF AO!Next

\* The temp-file protocol implements the one-step installation of
\* AtomicOutput, where link() fails only with EEXIST: a successful call
\* installs its whole result exactly once, a failed one changes nothing, a
\* power failure restores an earlier whole file (commit_output, age_move).
THEOREM Refinement == ASSUME ~LinkMayFail PROVE Spec => InstallsAtomically
<1>1. IInv /\ IInv' /\ [Next]_vars => [AO!Next]_AO!vars
  <2> SUFFICES ASSUME IInv, IInv', [Next]_vars PROVE [AO!Next]_AO!vars
    OBVIOUS
  <2>1. ASSUME NEW p \in Procs, Step(p) PROVE [AO!Next]_AO!vars
    BY <2>1, StepRefines DEF AO!Next
  <2>2. CASE UNCHANGED vars
    BY <2>2 DEF vars, AO!vars, Status
  <2> QED
    BY <2>1, <2>2, EnvRefines DEF Next
<1>2. Spec => AO!Spec
  BY <1>1, InitRefines, Invariant, PTL DEF Spec, AO!Spec
<1> QED
  BY <1>2 DEF InstallsAtomically
=============================================================================
