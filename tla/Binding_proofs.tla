--------------------------- MODULE Binding_proofs ----------------------------
(***************************************************************************)
(* TLAPS proofs about Binding, for every number of streams, identities and *)
(* calls, and every length of a key file.  IInv does not look at what the  *)
(* readers of key files compute; ParseInv, on top of it, does.             *)
(***************************************************************************)
EXTENDS Binding, NatFacts, FiniteSetTheorems, SequenceTheorems

\* Where a call holds its two streams, and the other places of a call.
RawPhases == {"core", "finish", "fail", "body"}
Phases == RawPhases \cup {"idle", "entered", "pubkeys", "wrap", "wrapped"}

Stream == [used : BOOLEAN, write : BOOLEAN, data : Seq(Nat)]
Table == [Slots -> Stream]

\* Types.  Keys and results are whatever the cores make of their input.
BindingTypeOK ==
    /\ memtab \in Table
    /\ ebuf \in Nat /\ n \in Nat /\ unwound \in Nat
    /\ heap \in [Ids -> {"unused", "live", "freed"}]
    /\ keys = [i \in Ids |-> keys[i]]
    /\ ext \in [Ids -> {"none", "set", "cleared"}]
    /\ final \in [Ids -> BOOLEAN] /\ rooted \in [Ids -> BOOLEAN]
    /\ ph \in Phases
    /\ c \in [op : Ops \cup {"none"}, id : Ids \cup {None}, vin : Slots \cup {None},
              vout : Slots \cup {None}, held : SUBSET {"recs", "id"}, kb : {c.kb},
              given : {c.given}, done : Nat, wrote : Nat, failed : BOOLEAN]
    /\ res = [st |-> res.st, msg |-> res.msg, data |-> res.data]

\* The slots in use.
Used(t) == Slots \ FreeSlots(t)

\* The running call's two streams are in use, the source holds its input and
\* the sink what was made of it; the others in use are what failures of
\* R_MakeUnwindCont have left.
StreamsInv ==
    /\ Cardinality(Used(memtab)) = 2 * unwound + (IF ph \in RawPhases THEN 2 ELSE 0)
    /\ ph \in RawPhases =>
         /\ c.op \in RawOps
         /\ c.vin \in Used(memtab) /\ c.vout \in Used(memtab) /\ c.vin # c.vout
         /\ memtab[c.vin].data = <<n>>
         /\ memtab[c.vout].data = [j \in 1..c.wrote |-> n]

\* An object, its keys and its pointer.
IdInv(i) ==
    /\ heap[i] = "unused" => ext[i] = "none" /\ ~final[i]
    /\ ext[i] = "set" => heap[i] = "live" /\ keys[i] # <<>>
    /\ ext[i] = "cleared" => heap[i] = "freed"

\* Where the call is and what it holds.
CallInv ==
    /\ ph = "entered" =>
         /\ c.op \in Ops /\ c.wrote = 0
         /\ c.id \in Ids <=> c.op \in IdOps
         /\ c.op \in MakeOps => \E i \in Ids : heap[i] = "unused"
    /\ ph \in {"finish", "fail", "body"} => c.held = {}
    /\ ph \in {"core", "pubkeys"} /\ c.id \in Ids => ext[c.id] = "set"
    /\ ph = "pubkeys" => c.op = "identity_pubkeys"
    /\ ph \in {"wrap", "wrapped"} => c.id \in Ids /\ c.op \in MakeOps
    /\ ph = "wrap" => /\ c.held = {"id"} /\ heap[c.id] = "live" /\ ext[c.id] = "none"
                      /\ ~final[c.id] /\ keys[c.id] # <<>>
    /\ ph = "wrapped" => ext[c.id] = "set" /\ final[c.id]

\* What R has been told, and the message there may be to tell.
ResultInv ==
    /\ ph # "idle" => res = Nothing /\ ebuf \in {None, n}

\* The inductive invariant.
IInv == /\ BindingTypeOK
        /\ StreamsInv
        /\ \A i \in Ids : IdInv(i)
        /\ CallInv
        /\ ResultInv
        /\ StreamsComeBack /\ ResultIsOwn /\ MessageIsOwn /\ LosesNothing

-----------------------------------------------------------------------------
(* The table of streams. *)

LEMMA SlotsFinite ==
    /\ Slots \subseteq Nat \ {0} /\ IsFiniteSet(Slots) /\ Cardinality(Slots) = NSlots
    /\ NSlots \in Nat \ {0, 1}
<1>1. NSlots \in Nat \ {0, 1}
  BY BindingAssumption
<1> QED
  BY <1>1, FS_Interval DEF Slots

\* The slots in use can be counted, and at most all of them are.
LEMMA UsedFinite ==
    ASSUME NEW t \in Table
    PROVE  /\ IsFiniteSet(Used(t)) /\ Cardinality(Used(t)) \in Nat
           /\ FreeSlots(t) = {} => Cardinality(Used(t)) = NSlots
<1>1. Used(t) \in SUBSET Slots
  BY DEF Used
<1>2. IsFiniteSet(Used(t))
  BY <1>1, SlotsFinite, FS_Subset
<1>3. FreeSlots(t) = {} => Used(t) = Slots
  BY DEF Used
<1> QED
  BY <1>2, <1>3, SlotsFinite, FS_CardinalityType

\* memalloc() finds a free slot, or there is none.
LEMMA AllocFree ==
    ASSUME NEW t
    PROVE  /\ FreeSlots(t) = {} => MemAlloc(t) = None
           /\ FreeSlots(t) # {} => MemAlloc(t) \in FreeSlots(t) /\ MemAlloc(t) # None
<1>1. FreeSlots(t) \subseteq Nat \ {0}
  BY SlotsFinite DEF FreeSlots
<1> QED
  BY <1>1, MinIsLeast DEF MemAlloc, None

\* memopen_read(), memopen_write(): one more slot is in use.
LEMMA OpenOne ==
    ASSUME NEW t \in Table, NEW s \in FreeSlots(t), NEW w \in BOOLEAN, NEW d \in Seq(Nat)
    PROVE  LET u == MemOpen(t, s, w, d) IN
           /\ u \in Table
           /\ Used(u) = Used(t) \cup {s} /\ s \notin Used(t)
           /\ Cardinality(Used(u)) = Cardinality(Used(t)) + 1
           /\ u[s].data = d
           /\ \A x \in Slots \ {s} : u[x] = t[x]
<1> DEFINE u == MemOpen(t, s, w, d)
           e == [used |-> TRUE, write |-> w, data |-> d]
<1>1. s \in Slots /\ s # None /\ ~t[s].used
  BY SlotsFinite DEF FreeSlots, None
<1>2. e \in Stream /\ e.used /\ e.data = d
  BY DEF Stream
<1>3. u = [t EXCEPT ![s] = e]
  BY <1>1 DEF MemOpen
<1> HIDE DEF u, e
<1>4. u \in Table /\ u[s] = e /\ \A x \in Slots \ {s} : u[x] = t[x]
  BY <1>1, <1>2, <1>3 DEF Table
<1>5. Used(u) = Used(t) \cup {s} /\ s \notin Used(t)
  BY <1>1, <1>2, <1>4 DEF Used, FreeSlots
<1>6. Cardinality(Used(u)) = Cardinality(Used(t)) + 1
  BY <1>5, UsedFinite, FS_AddElement
<1> QED
  BY <1>2, <1>4, <1>5, <1>6 DEF u

\* memclose(): one less.
LEMMA CloseOne ==
    ASSUME NEW t \in Table, NEW s \in Used(t)
    PROVE  LET u == MemClose(t, s) IN
           /\ u \in Table
           /\ Used(u) = Used(t) \ {s}
           /\ Cardinality(Used(u)) = Cardinality(Used(t)) - 1
<1> DEFINE u == MemClose(t, s)
<1>1. s \in Slots /\ s # None
  BY SlotsFinite DEF Used, None
<1>2. Unused \in Stream /\ ~Unused.used
  BY EmptySeq DEF Stream, Unused
<1>3. u = [t EXCEPT ![s] = Unused]
  BY <1>1 DEF MemClose
<1> HIDE DEF u
<1>4. u \in Table /\ u[s] = Unused /\ \A x \in Slots \ {s} : u[x] = t[x]
  BY <1>1, <1>2, <1>3 DEF Table
<1>5. Used(u) = Used(t) \ {s}
  BY <1>1, <1>2, <1>4 DEF Used, FreeSlots
<1>6. Cardinality(Used(u)) = Cardinality(Used(t)) - 1
  BY <1>5, UsedFinite, FS_RemoveElement
<1> QED
  BY <1>4, <1>5, <1>6 DEF u

\* mem_clean() gives back both streams of a call.
LEMMA CleanBoth ==
    ASSUME memtab \in Table, c.vin \in Used(memtab), c.vout \in Used(memtab), c.vin # c.vout
    PROVE  MemClean \in Table /\ Cardinality(Used(MemClean)) = Cardinality(Used(memtab)) - 2
<1> DEFINE t == MemClose(memtab, c.vin)
<1>1. t \in Table /\ Used(t) = Used(memtab) \ {c.vin}
      /\ Cardinality(Used(t)) = Cardinality(Used(memtab)) - 1
  BY CloseOne
<1> HIDE DEF t
<1>2. c.vout \in Used(t)
  BY <1>1
<1>3. MemClose(t, c.vout) \in Table
      /\ Cardinality(Used(MemClose(t, c.vout))) = Cardinality(Used(t)) - 1
  BY <1>1, <1>2, CloseOne
<1>4. Cardinality(Used(memtab)) \in Nat
  BY UsedFinite
<1> QED
  BY <1>1, <1>3, <1>4 DEF MemClean, t

-----------------------------------------------------------------------------
(* Every step preserves the inductive invariant. *)

LEMMA InitIInv == Init => IInv
<1> SUFFICES ASSUME Init PROVE IInv
  OBVIOUS
<1>1. Unused \in Stream /\ ~Unused.used
  BY EmptySeq DEF Stream, Unused
<1>2. memtab \in Table
  BY <1>1 DEF Init, Table
<1>3. Used(memtab) = {}
  BY <1>1 DEF Init, Used, FreeSlots
<1>4. Cardinality(Used(memtab)) = 0
  BY <1>3, FS_EmptySet
<1>5. BindingTypeOK
  BY <1>2 DEF Init, BindingTypeOK, NoCall, Nothing, None, Phases, Ops
<1>6. StreamsInv /\ StreamsComeBack
  BY <1>4 DEF Init, StreamsInv, StreamsComeBack, RawPhases, Used, Nothing
<1>7. CallInv /\ ResultInv /\ \A i \in Ids : IdInv(i)
  BY DEF Init, CallInv, ResultInv, IdInv
<1>8. ResultIsOwn /\ MessageIsOwn /\ LosesNothing
  BY DEF Init, ResultIsOwn, MessageIsOwn, LosesNothing, Nothing
<1> QED
  BY <1>5, <1>6, <1>7, <1>8 DEF IInv

\* What an R error may cost.
Leaks == {<<"id", "keygen">>, <<"id", "identity_parse">>, <<"recs", "encrypt_path">>}

\* result_ok(), result_err(): the call is over, with this result or an R error.
LEMMA ReturnsWhat ==
    ASSUME NEW st, NEW msg, NEW data, NEW held, Returns(st, msg, data, held),
           lost \subseteq Leaks, \A h \in held : <<h, c.op>> \in Leaks
    PROVE  /\ ph' = "idle" /\ lost \subseteq lost' /\ lost' \subseteq Leaks
           /\ res' = [st |-> res'.st, msg |-> res'.msg, data |-> res'.data]
           /\ \/ res'.st = st /\ res'.msg = msg /\ res'.data = data
              \/ res'.st = "R error" /\ res'.msg = None /\ res'.data = <<>>
<1>1. ph' = "idle" /\ lost \subseteq lost' /\ lost' \subseteq Leaks
  BY DEF Returns
<1>2. CASE res' = [st |-> st, msg |-> msg, data |-> data]
  BY <1>1, <1>2
<1>3. CASE res' = Rerr
  BY <1>1, <1>3 DEF Rerr
<1> QED
  BY <1>2, <1>3 DEF Returns

\* The same for a call that holds nothing.
LEMMA ReturnsBare ==
    ASSUME NEW st, NEW msg, NEW data, Returns(st, msg, data, {}), lost \subseteq Leaks
    PROVE  /\ ph' = "idle" /\ lost \subseteq lost' /\ lost' \subseteq Leaks
           /\ res' = [st |-> res'.st, msg |-> res'.msg, data |-> res'.data]
           /\ \/ res'.st = st /\ res'.msg = msg /\ res'.data = data
              \/ res'.st = "R error" /\ res'.msg = None /\ res'.data = <<>>
<1> DEFINE held == {}
<1>1. Returns(st, msg, data, held) /\ \A h \in held : <<h, c.op>> \in Leaks
  OBVIOUS
<1> HIDE DEF held
<1> QED
  BY <1>1, ReturnsWhat

\* A call that ends without touching identities.
LEMMA EndOfCall ==
    ASSUME IInv, UNCHANGED <<idvars, n>>, ph \notin {"wrap", "wrapped"}, ph' = "idle",
           BindingTypeOK', Cardinality(Used(memtab)') = 2 * unwound',
           lost \subseteq lost', lost' \subseteq Leaks, MessageIsOwn', ResultIsOwn',
           res'.st = "internal" /\ c'.op \in RawOps => 2 * unwound' >= NSlots - 1
    PROVE  IInv'
<1>0. unwound' \in Nat
  BY DEF BindingTypeOK
<1>1. StreamsInv' /\ StreamsComeBack'
  BY <1>0 DEF StreamsInv, StreamsComeBack, RawPhases, Used
<1>2. CallInv' /\ ResultInv' /\ \A i \in Ids : IdInv(i)'
  BY DEF IInv, CallInv, ResultInv, IdInv, idvars
<1>3. LosesNothing'
  BY DEF IInv, LosesNothing, Leaks, idvars
<1> QED
  BY <1>1, <1>2, <1>3 DEF IInv

\* The calls that do no more than return.
LEMMA PlainReturn ==
    ASSUME IInv, UNCHANGED <<memtab, idvars, n, c, unwound>>, ebuf' \in Nat,
           ph \in {"entered", "pubkeys"}, ph' = "idle",
           lost \subseteq lost', lost' \subseteq Leaks,
           res' = [st |-> res'.st, msg |-> res'.msg, data |-> res'.data],
           res'.msg \in {None, n},
           c.op \in RawOps => res'.st \notin {"ok", "internal"}
    PROVE  IInv'
<1>1. BindingTypeOK'
  BY DEF IInv, BindingTypeOK, idvars, Phases
<1>2. MessageIsOwn' /\ ResultIsOwn'
  BY DEF MessageIsOwn, ResultIsOwn
<1>3. Cardinality(Used(memtab)') = 2 * unwound'
  BY DEF IInv, BindingTypeOK, StreamsInv, RawPhases, Used
<1> QED
  BY <1>1, <1>2, <1>3, EndOfCall

\* Arguments that are refused, and calls that only read.
LEMMA RefusalIInv ==
    ASSUME IInv, BadRecipients \/ BadCost \/ BadIdentity \/ PubkeysMade \/ IdentityWrite
    PROVE  IInv'
<1> DEFINE Plain(st, data) == Returns(st, None, data, {})
<1>1. ebuf \in Nat /\ lost \subseteq Leaks
  BY DEF IInv, BindingTypeOK, LosesNothing, Leaks
<1>2. /\ ph \in {"entered", "pubkeys"}
      /\ UNCHANGED <<memtab, idvars, n, c, unwound>> /\ ebuf' = ebuf
  BY DEF BadRecipients, BadCost, BadIdentity, PubkeysMade, IdentityWrite, Prepared
<1>3. /\ \E st \in {"recipient", "encrypt", "identity", "io", "ok"}, data \in {<<>>, keys[c.id]} :
            Plain(st, data) /\ (st = "ok" => c.op \notin RawOps)
  <2>1. CASE BadRecipients
    BY <2>1 DEF BadRecipients
  <2>2. CASE BadCost
    BY <2>2 DEF BadCost
  <2>3. CASE BadIdentity
    BY <2>3 DEF BadIdentity
  <2>4. CASE PubkeysMade
    BY <2>4 DEF PubkeysMade, IInv, CallInv, RawOps
  <2>5. CASE IdentityWrite
    BY <2>5 DEF IdentityWrite, RawOps
  <2> QED
    BY <2>1, <2>2, <2>3, <2>4, <2>5
<1>4. PICK st \in {"recipient", "encrypt", "identity", "io", "ok"}, data \in {<<>>, keys[c.id]} :
            Plain(st, data) /\ (st = "ok" => c.op \notin RawOps)
  BY <1>3
<1>5. /\ ph' = "idle" /\ lost \subseteq lost' /\ lost' \subseteq Leaks
      /\ res' = [st |-> res'.st, msg |-> res'.msg, data |-> res'.data]
      /\ res'.st \in {st, "R error"} /\ res'.msg = None
  BY <1>1, <1>4, ReturnsBare
<1>6. c.op \in RawOps => res'.st \notin {"ok", "internal"}
  BY <1>4, <1>5
<1> QED
  BY <1>1, <1>2, <1>5, <1>6, PlainReturn

\* run_file_transform().
LEMMA RunFileTransformIInv == ASSUME IInv, RunFileTransform PROVE IInv'
<1>1. /\ ph = "entered" /\ c.op \in PathOps /\ ebuf \in {None, n} /\ n \in Nat
      /\ lost \subseteq Leaks /\ UNCHANGED <<memtab, idvars, n, c, unwound>>
  BY DEF RunFileTransform, Prepared, IInv, ResultInv, BindingTypeOK, LosesNothing, Leaks
<1>2. ebuf' \in {None, n}
  BY <1>1 DEF RunFileTransform
<1>3. \E st \in {"ok", "io", "encrypt", "decrypt"}, msg \in {None, ebuf'} :
         Returns(st, msg, <<>>, Recs)
  BY DEF RunFileTransform
<1>4. PICK st \in {"ok", "io", "encrypt", "decrypt"}, msg \in {None, ebuf'} :
         Returns(st, msg, <<>>, Recs)
  BY <1>3
<1>5. \A h \in Recs : <<h, c.op>> \in Leaks
  BY <1>1 DEF Recs, RecOps, PathOps, Leaks
<1>6. /\ ph' = "idle" /\ lost \subseteq lost' /\ lost' \subseteq Leaks
      /\ res' = [st |-> res'.st, msg |-> res'.msg, data |-> res'.data]
      /\ res'.msg \in {None, msg}
  BY <1>1, <1>4, <1>5, ReturnsWhat
<1>7. c.op \notin RawOps /\ ebuf' \in Nat
  BY <1>1, <1>2 DEF PathOps, RawOps, None
<1> QED
  BY <1>1, <1>2, <1>6, <1>7, PlainReturn

\* RAW(), STRING_ELT() and CHAR() on an argument of another type.
LEMMA BadArgumentIInv == ASSUME IInv, BadArgument PROVE IInv'
<1>1. BindingTypeOK'
  <2>1. res' = [st |-> res'.st, msg |-> res'.msg, data |-> res'.data]
    BY DEF BadArgument, Rerr
  <2>2. ph' \in Phases /\ UNCHANGED <<memtab, ebuf, n, unwound, heap, keys, ext, final, rooted, c>>
    BY DEF BadArgument, idvars, Phases
  <2> QED
    BY <2>1, <2>2 DEF IInv, BindingTypeOK
<1>2. MessageIsOwn' /\ ResultIsOwn' /\ res'.st # "internal"
  BY DEF BadArgument, Rerr, Nothing, MessageIsOwn, ResultIsOwn
<1>3. Cardinality(Used(memtab)') = 2 * unwound'
  BY DEF BadArgument, IInv, BindingTypeOK, StreamsInv, RawPhases, Used
<1>4. ph \notin {"wrap", "wrapped"} /\ ph' = "idle" /\ lost' = lost /\ lost \subseteq Leaks
      /\ UNCHANGED <<idvars, n>>
  BY DEF BadArgument, IInv, LosesNothing, Leaks
<1> QED
  BY <1>1, <1>2, <1>3, <1>4, EndOfCall

\* A step in a call that leaves identities alone and does not end it.
LEMMA MiddleOfCall ==
    ASSUME IInv, UNCHANGED <<idvars, lost>>, res' = Nothing, ph' # "idle",
           ph \notin {"wrap", "wrapped"},
           BindingTypeOK', StreamsInv', CallInv', ebuf' \in {None, n'}
    PROVE  IInv'
<1>1. StreamsComeBack' /\ ResultIsOwn' /\ MessageIsOwn'
  BY DEF StreamsComeBack, ResultIsOwn, MessageIsOwn, Nothing
<1>2. LosesNothing'
  BY DEF IInv, LosesNothing, idvars
<1>3. \A i \in Ids : IdInv(i)'
  BY DEF IInv, IdInv, idvars
<1> QED
  BY <1>1, <1>2, <1>3 DEF IInv, ResultInv

\* An entry point is called.
LEMMA EnterIInv == ASSUME IInv, Enter PROVE IInv'
<1>1. /\ ph = "idle" /\ ph' = "entered" /\ res' = Nothing /\ ebuf' = None /\ n' = n + 1
      /\ UNCHANGED <<memtab, idvars, lost, unwound>>
  BY DEF Enter, Eclear
<1>2. \E op \in Ops, i \in Ids \cup {None} :
         /\ c' = [NoCall EXCEPT !.op = op, !.id = i]
         /\ i \in Ids <=> op \in IdOps
  <2>1. MaxIds \in Nat
    BY BindingAssumption
  <2>2. None \notin Ids
    BY <2>1 DEF None, Ids
  <2> QED
    BY <2>2 DEF Enter, Ops
<1>3. PICK op \in Ops, i \in Ids \cup {None} :
         /\ c' = [NoCall EXCEPT !.op = op, !.id = i]
         /\ i \in Ids <=> op \in IdOps
  BY <1>2
<1>4. /\ c'.op = op /\ c'.id = i /\ c'.wrote = 0
      /\ c' \in [op : Ops, id : Ids \cup {None}, vin : {None}, vout : {None}, held : {{}},
                 kb : {c'.kb}, given : {c'.given}, done : {0}, wrote : {0}, failed : BOOLEAN]
  BY <1>3 DEF NoCall
<1>5. BindingTypeOK'
  BY <1>1, <1>4 DEF IInv, BindingTypeOK, idvars, Nothing, None, Phases
<1>6. StreamsInv'
  BY <1>1 DEF IInv, StreamsInv, RawPhases, Used
<1>7. c'.op \in MakeOps => \E j \in Ids : heap[j] = "unused"
  BY DEF Enter
<1>8. CallInv'
  BY <1>1, <1>3, <1>4, <1>7 DEF CallInv, idvars
<1> QED
  BY <1>1, <1>5, <1>6, <1>8, MiddleOfCall

\* age_c_identity_pubkeys() before it reads the keys.
LEMMA PubkeysIInv == ASSUME IInv, Pubkeys PROVE IInv'
<1>1. /\ ph = "entered" /\ c.op = "identity_pubkeys" /\ ext[c.id] = "set" /\ c.id \in Ids
      /\ UNCHANGED <<memtab, ebuf, idvars, n, c, lost, unwound>>
      /\ res = Nothing /\ ebuf \in {None, n} /\ ebuf \in Nat /\ lost \subseteq Leaks
  BY DEF Pubkeys, Prepared, IdOps, IInv, CallInv, ResultInv, BindingTypeOK, LosesNothing, Leaks
<1>2. CASE ph' = "pubkeys" /\ UNCHANGED res
  <2>1. BindingTypeOK'
    BY <1>1, <1>2 DEF IInv, BindingTypeOK, idvars, Phases
  <2>2. StreamsInv'
    BY <1>1, <1>2 DEF IInv, StreamsInv, RawPhases, Used
  <2>3. CallInv'
    BY <1>1, <1>2 DEF CallInv, idvars
  <2> QED
    BY <1>1, <1>2, <2>1, <2>2, <2>3, MiddleOfCall
<1>3. CASE ph' = "idle" /\ res' = Rerr
  <2>1. /\ res' = [st |-> res'.st, msg |-> res'.msg, data |-> res'.data]
        /\ res'.msg = None /\ c.op \notin RawOps
    BY <1>1, <1>3 DEF Rerr, RawOps
  <2> QED
    BY <1>1, <1>3, <2>1, PlainReturn
<1> QED
  BY <1>2, <1>3 DEF Pubkeys

\* Both streams are found, or the call ends with none; that happens only when
\* failures of R_MakeUnwindCont have left fewer than two.
LEMMA OpenStreamsIInv == ASSUME IInv, OpenStreams PROVE IInv'
<1> DEFINE vin == MemAlloc(memtab)
           source == FALSE
           input == <<n>>
           t == MemOpen(memtab, vin, source, input)
           vout == MemAlloc(t)
           sink == TRUE
           output == <<>>
           opened == MemOpen(t, vout, sink, output)
<1>1. /\ ph = "entered" /\ c.op \in RawOps /\ c.wrote = 0
      /\ c.id \in Ids => ext[c.id] = "set"
      /\ UNCHANGED <<ebuf, idvars, n, unwound>>
      /\ res = Nothing /\ ebuf \in {None, n} /\ lost \subseteq Leaks
      /\ memtab \in Table /\ n \in Nat /\ unwound \in Nat
      /\ Cardinality(Used(memtab)) = 2 * unwound
  BY DEF OpenStreams, Prepared, IInv, CallInv, ResultInv, BindingTypeOK, LosesNothing, Leaks,
         StreamsInv, RawPhases
<1>2. \/ /\ vin # None /\ vout # None
         /\ memtab' = opened /\ ph' = "core"
         /\ c' = [c EXCEPT !.vin = vin, !.vout = vout, !.held = Recs]
         /\ UNCHANGED <<res, lost>>
      \/ /\ vin = None \/ vout = None
         /\ memtab' = MemClose(MemClose(opened, vin), vout)
         /\ Returns("internal", None, <<>>, {})
         /\ UNCHANGED c
  BY DEF OpenStreams
<1>3. /\ input \in Seq(Nat) /\ output \in Seq(Nat) /\ output = [j \in 1..0 |-> n]
      /\ source \in BOOLEAN /\ sink \in BOOLEAN
  BY <1>1
<1> HIDE DEF source, sink, output
<1>4. vin # None => /\ vin \in FreeSlots(memtab) /\ t \in Table
                    /\ Used(t) = Used(memtab) \cup {vin} /\ vin \notin Used(memtab)
                    /\ Cardinality(Used(t)) = 2 * unwound + 1
                    /\ t[vin].data = input
  <2>1. vin # None => vin \in FreeSlots(memtab)
    BY AllocFree
  <2> HIDE DEF vin, input
  <2> QED
    BY <1>1, <1>3, <2>1, OpenOne
<1> HIDE DEF t
<1>5. vin # None /\ vout # None =>
         /\ vout \in FreeSlots(t) /\ opened \in Table
         /\ Used(opened) = Used(t) \cup {vout} /\ vout \notin Used(t)
         /\ Cardinality(Used(opened)) = 2 * unwound + 2
         /\ opened[vout].data = output
         /\ opened[vin].data = input
  <2>1. vout # None => vout \in FreeSlots(t)
    BY AllocFree
  <2>2. vin # None => vin \in Slots
    BY <1>4 DEF FreeSlots
  <2> HIDE DEF vin, vout, input
  <2>3. ASSUME vin # None, vout # None
        PROVE  /\ opened \in Table
               /\ Used(opened) = Used(t) \cup {vout} /\ vout \notin Used(t)
               /\ Cardinality(Used(opened)) = Cardinality(Used(t)) + 1
               /\ opened[vout].data = output
               /\ \A x \in Slots \ {vout} : opened[x] = t[x]
    <3>1. t \in Table /\ vout \in FreeSlots(t) /\ output \in Seq(Nat) /\ sink \in BOOLEAN
      BY <1>3, <1>4, <2>1, <2>3
    <3> QED
      BY <3>1, OpenOne
  <2> HIDE DEF opened
  <2> QED
    BY <1>1, <1>4, <2>1, <2>2, <2>3
<1>6. CASE /\ vin # None /\ vout # None
           /\ memtab' = opened /\ ph' = "core"
           /\ c' = [c EXCEPT !.vin = vin, !.vout = vout, !.held = Recs]
           /\ UNCHANGED <<res, lost>>
  <2>0. vin \in Slots /\ vout \in Slots
    BY <1>4, <1>5, <1>6 DEF FreeSlots
  <2> HIDE DEF vin, vout, opened
  <2>1. /\ c'.vin = vin /\ c'.vout = vout /\ c'.op = c.op /\ c'.wrote = c.wrote /\ c'.id = c.id
    BY <1>6 DEF IInv, BindingTypeOK
  <2>2. BindingTypeOK'
    <3>1. c' \in [op : Ops \cup {"none"}, id : Ids \cup {None}, vin : Slots \cup {None},
              vout : Slots \cup {None}, held : SUBSET {"recs", "id"}, kb : {c'.kb},
              given : {c'.given}, done : Nat, wrote : Nat, failed : BOOLEAN]
      BY <1>6, <2>0 DEF IInv, BindingTypeOK, Recs
    <3> QED
      BY <1>1, <1>4, <1>5, <1>6, <3>1 DEF IInv, BindingTypeOK, idvars, Phases, RawPhases
  <2>3. StreamsInv'
    <3>1. /\ Used(memtab)' = Used(memtab) \cup {vin, vout} /\ vin # vout
          /\ Cardinality(Used(memtab)') = 2 * unwound + 2
          /\ memtab'[vin].data = input /\ memtab'[vout].data = output
      BY <1>4, <1>5, <1>6 DEF Used, FreeSlots
    <3> QED
      BY <1>1, <1>3, <1>6, <2>1, <3>1 DEF StreamsInv, RawPhases
  <2>4. CallInv'
    BY <1>1, <1>6, <2>1 DEF CallInv, idvars
  <2> QED
    BY <1>1, <1>6, <2>2, <2>3, <2>4, MiddleOfCall
<1>7. CASE /\ vin = None \/ vout = None
           /\ memtab' = MemClose(MemClose(opened, vin), vout)
           /\ Returns("internal", None, <<>>, {})
           /\ UNCHANGED c
  <2>1. /\ memtab' \in Table /\ Cardinality(Used(memtab')) = 2 * unwound
        /\ 2 * unwound >= NSlots - 1
    <3>1. CASE vin = None
      <4>1. t = memtab
        BY <3>1 DEF t, MemOpen
      <4>2. FreeSlots(memtab) = {}
        BY <3>1, AllocFree
      <4>3. vout = None
        BY <3>1, <4>1
      <4>4. memtab' = memtab
        BY <1>7, <3>1, <4>1, <4>3 DEF MemOpen, MemClose
      <4>5. 2 * unwound = NSlots
        BY <1>1, <4>2, UsedFinite
      <4> QED
        BY <1>1, <4>4, <4>5, SlotsFinite
    <3>2. CASE vin # None /\ vout = None
      <4>1. FreeSlots(t) = {}
        BY <3>2, AllocFree
      <4>2. memtab' = MemClose(t, vin)
        BY <1>7, <3>2 DEF MemOpen, MemClose
      <4>3. 2 * unwound + 1 = NSlots
        BY <1>4, <3>2, <4>1, UsedFinite
      <4>4. MemClose(t, vin) \in Table /\ Cardinality(Used(MemClose(t, vin))) = Cardinality(Used(t)) - 1
        <5>1. t \in Table /\ vin \in Used(t)
          BY <1>4, <3>2
        <5> HIDE DEF vin
        <5> QED
          BY <5>1, CloseOne
      <4> QED
        BY <1>1, <1>4, <3>2, <4>2, <4>3, <4>4, SlotsFinite
    <3> QED
      BY <1>7, <3>1, <3>2
  <2>2. /\ ph' = "idle" /\ lost \subseteq lost' /\ lost' \subseteq Leaks
        /\ res' = [st |-> res'.st, msg |-> res'.msg, data |-> res'.data]
        /\ res'.st \in {"internal", "R error"} /\ res'.msg = None
    BY <1>1, <1>7, ReturnsBare
  <2>3. BindingTypeOK'
    BY <1>1, <1>7, <2>1, <2>2 DEF IInv, BindingTypeOK, idvars, Phases
  <2>4. MessageIsOwn' /\ ResultIsOwn'
    BY <2>2 DEF MessageIsOwn, ResultIsOwn
  <2> QED
    BY <1>1, <2>1, <2>2, <2>3, <2>4, EndOfCall
<1> QED
  BY <1>2, <1>6, <1>7

\* A raw call that ends with both streams closed.
LEMMA RawReturn ==
    ASSUME IInv, UNCHANGED <<ebuf, idvars, n, c, unwound>>, ph \in RawPhases, ph' = "idle",
           memtab' = MemClean,
           lost \subseteq lost', lost' \subseteq Leaks,
           res' = [st |-> res'.st, msg |-> res'.msg, data |-> res'.data],
           res'.msg \in {None, n}, res'.st # "internal",
           res'.st = "ok" => res'.data = memtab[c.vout].data
    PROVE  IInv'
<1>1. /\ memtab \in Table /\ c.vin \in Used(memtab) /\ c.vout \in Used(memtab)
      /\ c.vin # c.vout /\ memtab[c.vout].data = [j \in 1..c.wrote |-> n]
      /\ unwound \in Nat /\ Cardinality(Used(memtab)) = 2 * unwound + 2
  BY DEF IInv, BindingTypeOK, StreamsInv
<1>2. memtab' \in Table /\ Cardinality(Used(memtab')) = 2 * unwound
  BY <1>1, CleanBoth
<1>3. BindingTypeOK'
  BY <1>2 DEF IInv, BindingTypeOK, idvars, Phases
<1>4. MessageIsOwn' /\ ResultIsOwn'
  BY <1>1 DEF MessageIsOwn, ResultIsOwn
<1> QED
  BY <1>2, <1>3, <1>4, EndOfCall DEF RawPhases

\* mem_fail()
LEMMA MemFailIInv == ASSUME IInv, MemFail PROVE IInv'
<1>1. /\ ph = "fail" /\ memtab' = MemClean /\ UNCHANGED <<ebuf, idvars, n, c, unwound>>
      /\ ebuf \in {None, n} /\ c.held = {} /\ lost \subseteq Leaks
  BY DEF MemFail, IInv, CallInv, ResultInv, LosesNothing, Leaks
<1>2. \E st \in {"encrypt", "decrypt"} : Returns(st, ebuf, <<>>, {})
  BY <1>1 DEF MemFail, Eget
<1>3. PICK st \in {"encrypt", "decrypt"} : Returns(st, ebuf, <<>>, {})
  BY <1>2
<1>4. /\ ph' = "idle" /\ lost \subseteq lost' /\ lost' \subseteq Leaks
      /\ res' = [st |-> res'.st, msg |-> res'.msg, data |-> res'.data]
      /\ res'.st \in {st, "R error"} /\ res'.msg \in {None, ebuf}
  BY <1>1, <1>3, ReturnsBare
<1>5. res'.st # "internal" /\ res'.st # "ok" /\ res'.msg \in {None, n}
  BY <1>1, <1>4
<1> QED
  BY <1>1, <1>4, <1>5, RawReturn DEF RawPhases

\* R_UnwindProtect(mem_body, mem_clean)
LEMMA MemBodyIInv == ASSUME IInv, MemBody PROVE IInv'
<1>1. /\ ph = "body" /\ memtab' = MemClean /\ UNCHANGED <<ebuf, idvars, n, c, unwound>>
      /\ c.held = {} /\ lost \subseteq Leaks
      /\ Returns("ok", None, memtab[c.vout].data, {})
  BY DEF MemBody, IInv, CallInv, LosesNothing, Leaks
<1>2. /\ ph' = "idle" /\ lost \subseteq lost' /\ lost' \subseteq Leaks
      /\ res' = [st |-> res'.st, msg |-> res'.msg, data |-> res'.data]
      /\ \/ res'.st = "ok" /\ res'.msg = None /\ res'.data = memtab[c.vout].data
         \/ res'.st = "R error" /\ res'.msg = None /\ res'.data = <<>>
  BY <1>1, ReturnsBare
<1> QED
  BY <1>1, <1>2, RawReturn DEF RawPhases

\* mem_finish() before anything guards the streams: if R_MakeUnwindCont fails
\* both stay open, and unwound counts it.
LEMMA MemFinishIInv == ASSUME IInv, MemFinish PROVE IInv'
<1>1. /\ ph = "finish" /\ UNCHANGED <<memtab, ebuf, idvars, n, c>>
      /\ c.held = {} /\ lost \subseteq Leaks /\ res = Nothing /\ ebuf \in {None, n}
      /\ unwound \in Nat /\ Cardinality(Used(memtab)) = 2 * unwound + 2
  BY DEF MemFinish, IInv, CallInv, ResultInv, LosesNothing, Leaks, StreamsInv, RawPhases,
         BindingTypeOK
<1>2. CASE ph' = "body" /\ UNCHANGED <<res, lost, unwound>>
  <2>1. BindingTypeOK'
    BY <1>1, <1>2 DEF IInv, BindingTypeOK, idvars, Phases, RawPhases
  <2>2. StreamsInv'
    BY <1>1, <1>2 DEF IInv, StreamsInv, RawPhases, Used
  <2>3. CallInv'
    BY <1>1, <1>2 DEF CallInv, idvars
  <2> QED
    BY <1>1, <1>2, <2>1, <2>2, <2>3, MiddleOfCall
<1>3. CASE /\ ph' = "idle" /\ res' = Rerr /\ unwound' = unwound + 1
           /\ lost' = lost \cup {<<h, c.op>> : h \in c.held}
  <2>1. lost' = lost
    BY <1>1, <1>3
  <2>2. BindingTypeOK'
    <3>1. res' = [st |-> res'.st, msg |-> res'.msg, data |-> res'.data]
      BY <1>3 DEF Rerr
    <3> QED
      BY <1>1, <1>3, <3>1 DEF IInv, BindingTypeOK, idvars, Phases
  <2>3. MessageIsOwn' /\ ResultIsOwn' /\ res'.st # "internal"
    BY <1>3 DEF MessageIsOwn, ResultIsOwn, Rerr
  <2>4. Cardinality(Used(memtab)') = 2 * unwound'
    BY <1>1, <1>3 DEF Used
  <2> QED
    BY <1>1, <1>3, <2>1, <2>2, <2>3, <2>4, EndOfCall
<1> QED
  BY <1>2, <1>3 DEF MemFinish

\* ageread() and agewrite(): the sink gets what the source holds.
LEMMA CoreWritesIInv == ASSUME IInv, CoreWrites PROVE IInv'
<1> DEFINE d == memtab[c.vout].data \o memtab[c.vin].data
<1>1. /\ ph = "core" /\ UNCHANGED <<ebuf, idvars, n, ph, res, lost, unwound>>
      /\ memtab' = [memtab EXCEPT ![c.vout].data = d]
      /\ c' = [c EXCEPT !.wrote = @ + 1]
  BY DEF CoreWrites
<1>2. /\ memtab \in Table /\ c.vin \in Used(memtab) /\ c.vout \in Used(memtab)
      /\ c.vin # c.vout /\ n \in Nat /\ c.wrote \in Nat
      /\ memtab[c.vin].data = <<n>> /\ memtab[c.vout].data = [j \in 1..c.wrote |-> n]
      /\ c.vin \in Slots /\ c.vout \in Slots /\ res = Nothing /\ ebuf \in {None, n}
  BY <1>1 DEF IInv, BindingTypeOK, StreamsInv, RawPhases, ResultInv, Used
<1>3. d = [j \in 1..(c.wrote + 1) |-> n] /\ d \in Seq(Nat)
  <2>1. [j \in 1..c.wrote |-> n] \o <<n>> = [j \in 1..(c.wrote + 1) |-> n]
    BY <1>2
  <2>2. [j \in 1..(c.wrote + 1) |-> n] \in Seq(Nat)
    BY <1>2
  <2> QED
    BY <1>2, <2>1, <2>2
<1> HIDE DEF d
<1>4. memtab' \in Table /\ memtab'[c.vout].data = d /\ memtab'[c.vin] = memtab[c.vin]
  <2> DEFINE o == memtab[c.vout]
             e == [o EXCEPT !.data = d]
  <2>1. o \in Stream /\ d \in Seq(Nat)
    BY <1>2, <1>3 DEF Table
  <2> HIDE DEF o
  <2>2. e \in Stream /\ e.data = d
    BY <2>1 DEF Stream
  <2>3. memtab' = [memtab EXCEPT ![c.vout] = e]
    BY <1>1 DEF o
  <2> HIDE DEF e
  <2> QED
    BY <1>2, <2>2, <2>3 DEF Table
<1>5. Used(memtab') = Used(memtab)
  BY <1>1, <1>2, <1>4 DEF Used, FreeSlots, Table, Stream
<1>6. /\ c'.vin = c.vin /\ c'.vout = c.vout /\ c'.op = c.op /\ c'.id = c.id
      /\ c'.wrote = c.wrote + 1 /\ c'.held = c.held
  BY <1>1 DEF IInv, BindingTypeOK
<1>7. BindingTypeOK'
  <2>1. c' \in [op : Ops \cup {"none"}, id : Ids \cup {None}, vin : Slots \cup {None},
              vout : Slots \cup {None}, held : SUBSET {"recs", "id"}, kb : {c'.kb},
              given : {c'.given}, done : Nat, wrote : Nat, failed : BOOLEAN]
    BY <1>1 DEF IInv, BindingTypeOK
  <2> QED
    BY <1>1, <1>4, <2>1 DEF IInv, BindingTypeOK, idvars
<1>8. StreamsInv'
  BY <1>1, <1>2, <1>3, <1>4, <1>5, <1>6 DEF IInv, StreamsInv, RawPhases
<1>9. CallInv'
  BY <1>1, <1>6 DEF IInv, CallInv, idvars
<1> QED
  BY <1>1, <1>2, <1>7, <1>8, <1>9, MiddleOfCall

\* The core is over.
LEMMA CoreEndsIInv == ASSUME IInv, CoreEnds PROVE IInv'
<1>1. /\ ph = "core" /\ ph' \in {"finish", "fail"} /\ ebuf' \in {ebuf, n}
      /\ c' = [c EXCEPT !.held = {}]
      /\ UNCHANGED <<memtab, idvars, n, res, lost, unwound>>
      /\ res = Nothing /\ ebuf \in {None, n} /\ n \in Nat /\ ebuf \in Nat
  BY DEF CoreEnds, IInv, ResultInv, BindingTypeOK
<1>2. /\ c'.vin = c.vin /\ c'.vout = c.vout /\ c'.op = c.op /\ c'.id = c.id
      /\ c'.wrote = c.wrote /\ c'.held = {}
  BY <1>1 DEF IInv, BindingTypeOK
<1>3. BindingTypeOK'
  <2>1. c' \in [op : Ops \cup {"none"}, id : Ids \cup {None}, vin : Slots \cup {None},
              vout : Slots \cup {None}, held : SUBSET {"recs", "id"}, kb : {c'.kb},
              given : {c'.given}, done : Nat, wrote : Nat, failed : BOOLEAN]
    BY <1>1 DEF IInv, BindingTypeOK
  <2> QED
    BY <1>1, <2>1 DEF IInv, BindingTypeOK, idvars, Phases, RawPhases
<1>4. StreamsInv'
  BY <1>1, <1>2 DEF IInv, StreamsInv, RawPhases, Used
<1>5. CallInv'
  BY <1>1, <1>2 DEF CallInv, idvars
<1> QED
  BY <1>1, <1>3, <1>4, <1>5, MiddleOfCall

\* One more element of an identity_parse.
LEMMA ParseItemIInv == ASSUME IInv, ParseItem PROVE IInv'
<1>1. /\ ph = "entered" /\ c.op = "identity_parse" /\ c.wrote = 0 /\ c.id \notin Ids
      /\ UNCHANGED <<memtab, ebuf, idvars, n, unwound>>
      /\ res = Nothing /\ ebuf \in {None, n} /\ lost \subseteq Leaks
      /\ \E i \in Ids : heap[i] = "unused"
  BY DEF ParseItem, MakeOps, IdOps, IInv, CallInv, ResultInv, LosesNothing, Leaks
<1>2. PICK it \in Items :
          LET s == ParseNext(it, c.kb)
              d == [c EXCEPT !.done = @ + 1, !.given = Append(@, Content(it))]
          IN  IF s.err
              THEN c' = [d EXCEPT !.kb = NoKeys] /\ Returns("identity", None, <<>>, {})
              ELSE c' = [d EXCEPT !.kb = s.kb] /\ UNCHANGED <<ph, res, lost>>
  BY DEF ParseItem
<1>3. \E kb, given : c' = [[c EXCEPT !.done = @ + 1, !.given = given] EXCEPT !.kb = kb]
  BY <1>2
<1>4. /\ c'.op = c.op /\ c'.id = c.id /\ c'.wrote = c.wrote
      /\ c' \in [op : Ops \cup {"none"}, id : Ids \cup {None}, vin : Slots \cup {None},
              vout : Slots \cup {None}, held : SUBSET {"recs", "id"}, kb : {c'.kb},
              given : {c'.given}, done : Nat, wrote : Nat, failed : BOOLEAN]
  <2>1. PICK kb, given : c' = [[c EXCEPT !.done = @ + 1, !.given = given] EXCEPT !.kb = kb]
    BY <1>3
  <2> DEFINE done == c.done + 1
  <2>2. done \in Nat /\ c' = [[c EXCEPT !.done = done, !.given = given] EXCEPT !.kb = kb]
    BY <2>1 DEF IInv, BindingTypeOK
  <2> HIDE DEF done
  <2> QED
    BY <2>2 DEF IInv, BindingTypeOK
<1>5. CASE Returns("identity", None, <<>>, {})
  <2>1. /\ ph' = "idle" /\ lost \subseteq lost' /\ lost' \subseteq Leaks
        /\ res' = [st |-> res'.st, msg |-> res'.msg, data |-> res'.data]
        /\ res'.st \in {"identity", "R error"} /\ res'.msg = None
    BY <1>1, <1>5, ReturnsBare
  <2>2. BindingTypeOK'
    BY <1>1, <1>4, <2>1 DEF IInv, BindingTypeOK, idvars, Phases
  <2>3. MessageIsOwn' /\ ResultIsOwn'
    BY <2>1 DEF MessageIsOwn, ResultIsOwn
  <2>4. Cardinality(Used(memtab)') = 2 * unwound'
    BY <1>1 DEF IInv, BindingTypeOK, StreamsInv, RawPhases, Used
  <2> QED
    BY <1>1, <2>1, <2>2, <2>3, <2>4, EndOfCall
<1>6. CASE UNCHANGED <<ph, res, lost>>
  <2>1. BindingTypeOK'
    BY <1>1, <1>4, <1>6 DEF IInv, BindingTypeOK, idvars
  <2>2. StreamsInv'
    BY <1>1, <1>4, <1>6 DEF IInv, StreamsInv, RawPhases, Used
  <2>3. CallInv'
    BY <1>1, <1>4, <1>6 DEF IInv, CallInv, idvars
  <2> QED
    BY <1>1, <1>6, <2>1, <2>2, <2>3, MiddleOfCall
<1> QED
  BY <1>2, <1>5, <1>6

\* An identity that cannot be made.
LEMMA MakeFailsIInv == ASSUME IInv, MakeFails PROVE IInv'
<1>1. /\ ph = "entered" /\ c.op \in MakeOps /\ c.op \notin RawOps
      /\ UNCHANGED <<memtab, ebuf, idvars, n, unwound>>
      /\ c' = [c EXCEPT !.kb = NoKeys, !.failed = TRUE] /\ lost \subseteq Leaks
  BY DEF MakeFails, MakeOps, RawOps, IInv, LosesNothing, Leaks
<1>2. \E st \in {"internal", "identity"} : Returns(st, None, <<>>, {})
  BY DEF MakeFails
<1>3. PICK st \in {"internal", "identity"} : Returns(st, None, <<>>, {})
  BY <1>2
<1>4. /\ ph' = "idle" /\ lost \subseteq lost' /\ lost' \subseteq Leaks
      /\ res' = [st |-> res'.st, msg |-> res'.msg, data |-> res'.data]
      /\ res'.msg = None
  BY <1>1, <1>3, ReturnsBare
<1>5. /\ c'.op = c.op
      /\ c' \in [op : Ops \cup {"none"}, id : Ids \cup {None}, vin : Slots \cup {None},
              vout : Slots \cup {None}, held : SUBSET {"recs", "id"}, kb : {c'.kb},
              given : {c'.given}, done : Nat, wrote : Nat, failed : BOOLEAN]
  BY <1>1 DEF IInv, BindingTypeOK
<1>6. BindingTypeOK'
  BY <1>1, <1>4, <1>5 DEF IInv, BindingTypeOK, idvars, Phases
<1>7. MessageIsOwn' /\ ResultIsOwn'
  BY <1>1, <1>4, <1>5 DEF MessageIsOwn, ResultIsOwn
<1>8. Cardinality(Used(memtab)') = 2 * unwound'
  BY <1>1 DEF IInv, BindingTypeOK, StreamsInv, RawPhases, Used
<1> QED
  BY <1>1, <1>4, <1>5, <1>6, <1>7, <1>8, EndOfCall

\* A new object, with at least one key, at an address that was not in use.
LEMMA MakeIdentityIInv == ASSUME IInv, MakeIdentity PROVE IInv'
<1> DEFINE i == Min({j \in Ids : heap[j] = "unused"})
<1>1. /\ ph = "entered" /\ c.op \in MakeOps /\ ph' = "wrap"
      /\ UNCHANGED <<memtab, ebuf, ext, final, rooted, n, res, lost, unwound>>
      /\ heap' = [heap EXCEPT ![i] = "live"]
      /\ c' = [c EXCEPT !.id = i, !.held = {"id"}, !.kb = NoKeys]
      /\ \/ \E k \in Keys : keys' = [keys EXCEPT ![i] = <<k>>]
         \/ c.kb.keys # <<>> /\ keys' = [keys EXCEPT ![i] = c.kb.keys]
  BY DEF MakeIdentity
<1>2. i \in Ids /\ heap[i] = "unused"
  <2>1. {j \in Ids : heap[j] = "unused"} \subseteq Nat
    BY BindingAssumption DEF Ids
  <2>2. {j \in Ids : heap[j] = "unused"} # {}
    BY <1>1 DEF IInv, CallInv
  <2> QED
    BY <2>1, <2>2, MinIsLeast
<1> HIDE DEF i
<1>3. \E ks : ks # <<>> /\ keys' = [keys EXCEPT ![i] = ks]
  <2>1. \A k \in Keys : <<k>> # <<>>
    OBVIOUS
  <2> QED
    BY <1>1, <2>1
<1>4. /\ heap \in [Ids -> {"unused", "live", "freed"}] /\ keys = [j \in Ids |-> keys[j]]
      /\ c.op \notin RawOps
  BY <1>1 DEF IInv, BindingTypeOK, MakeOps, RawOps
<1>5. /\ keys' = [j \in Ids |-> keys'[j]] /\ keys'[i] # <<>>
      /\ \A j \in Ids \ {i} : keys'[j] = keys[j] /\ heap'[j] = heap[j]
      /\ heap'[i] = "live" /\ heap' \in [Ids -> {"unused", "live", "freed"}]
  <2>1. PICK ks : ks # <<>> /\ keys' = [keys EXCEPT ![i] = ks]
    BY <1>3
  <2>2. /\ keys' = [j \in Ids |-> keys'[j]] /\ keys'[i] # <<>>
        /\ \A j \in Ids \ {i} : keys'[j] = keys[j]
    BY <1>2, <1>4, <2>1
  <2> QED
    BY <1>1, <1>2, <1>4, <2>2
<1>6. /\ c'.op = c.op /\ c'.id = i /\ c'.wrote = c.wrote /\ c'.held = {"id"}
      /\ c' \in [op : Ops \cup {"none"}, id : Ids \cup {None}, vin : Slots \cup {None},
              vout : Slots \cup {None}, held : SUBSET {"recs", "id"}, kb : {c'.kb},
              given : {c'.given}, done : Nat, wrote : Nat, failed : BOOLEAN]
  BY <1>1, <1>2 DEF IInv, BindingTypeOK
<1>7. ext[i] = "none" /\ ~final[i]
  BY <1>2 DEF IInv, IdInv
<1>8. BindingTypeOK'
  BY <1>1, <1>5, <1>6 DEF IInv, BindingTypeOK, Phases
<1>9. StreamsInv'
  BY <1>1 DEF IInv, StreamsInv, RawPhases, Used
<1>10. \A j \in Ids : IdInv(j)'
  BY <1>1, <1>5, <1>7 DEF IInv, IdInv
<1>11. CallInv'
  BY <1>1, <1>2, <1>5, <1>6, <1>7 DEF CallInv
<1>12. /\ StreamsComeBack' /\ ResultIsOwn' /\ MessageIsOwn' /\ ResultInv'
  BY <1>1, <1>4, <1>6 DEF IInv, StreamsComeBack, ResultIsOwn, MessageIsOwn, ResultInv, Nothing
<1>13. LosesNothing'
  BY <1>1, <1>5, <1>6, ZenonT(40) DEF IInv, LosesNothing
<1> QED
  BY <1>8, <1>9, <1>10, <1>11, <1>12, <1>13 DEF IInv

\* id_wrap(): either the pointer has its finalizer, or the object is lost and
\* the loss is counted.
LEMMA IdWrapIInv == ASSUME IInv, IdWrap PROVE IInv'
<1>1. /\ ph = "wrap" /\ UNCHANGED <<memtab, ebuf, heap, keys, rooted, n, unwound>>
      /\ c.id \in Ids /\ c.op \in MakeOps /\ c.held = {"id"} /\ c.op \notin RawOps
      /\ heap[c.id] = "live" /\ ext[c.id] = "none" /\ ~final[c.id] /\ keys[c.id] # <<>>
      /\ lost \subseteq Leaks /\ res = Nothing
      /\ ext \in [Ids -> {"none", "set", "cleared"}] /\ final \in [Ids -> BOOLEAN]
  BY DEF IdWrap, IInv, CallInv, LosesNothing, Leaks, ResultInv, MakeOps, RawOps, BindingTypeOK
<1>2. ext' \in {ext, [ext EXCEPT ![c.id] = "set"]}
  BY DEF IdWrap
<1>3. /\ ext' \in [Ids -> {"none", "set", "cleared"}]
      /\ \A j \in Ids \ {c.id} : ext'[j] = ext[j]
      /\ ext'[c.id] \in {"none", "set"}
  BY <1>1, <1>2
<1>4. \A j \in Ids \ {c.id} : IdInv(j)'
  <2>1. \A j \in Ids \ {c.id} : final'[j] = final[j]
    BY <1>1 DEF IdWrap
  <2> QED
    BY <1>1, <1>3, <2>1 DEF IInv, IdInv
<1>5. \A j \in Ids : IdInv(j)'
  <2>1. PICK i \in Ids : i = c.id
    BY <1>1
  <2>2. IdInv(i)'
    BY <1>1, <1>3, <2>1 DEF IdInv
  <2> QED
    BY <1>4, <2>1, <2>2
<1>6. CASE /\ ext' = [ext EXCEPT ![c.id] = "set"]
           /\ final' = [final EXCEPT ![c.id] = TRUE]
           /\ c' = [c EXCEPT !.held = {}]
           /\ ph' = "wrapped" /\ UNCHANGED <<res, lost>>
  <2>1. /\ c'.op = c.op /\ c'.id = c.id /\ c'.wrote = c.wrote
        /\ c' \in [op : Ops \cup {"none"}, id : Ids \cup {None}, vin : Slots \cup {None},
              vout : Slots \cup {None}, held : SUBSET {"recs", "id"}, kb : {c'.kb},
              given : {c'.given}, done : Nat, wrote : Nat, failed : BOOLEAN]
    BY <1>6 DEF IInv, BindingTypeOK
  <2>2. /\ final' \in [Ids -> BOOLEAN] /\ final'[c.id] /\ ext'[c.id] = "set"
        /\ \A j \in Ids \ {c.id} : final'[j] = final[j]
    BY <1>1, <1>6
  <2>3. BindingTypeOK'
    BY <1>1, <1>3, <1>6, <2>1, <2>2 DEF IInv, BindingTypeOK, Phases
  <2>4. StreamsInv'
    BY <1>1, <1>6 DEF IInv, StreamsInv, RawPhases, Used
  <2>5. CallInv'
    BY <1>1, <1>6, <2>1, <2>2 DEF CallInv
  <2>6. /\ StreamsComeBack' /\ ResultIsOwn' /\ MessageIsOwn' /\ ResultInv'
    BY <1>1, <1>6, <2>1 DEF IInv, StreamsComeBack, ResultIsOwn, MessageIsOwn, ResultInv, Nothing
  <2>7. LosesNothing'
    <3>1. \A j \in Ids \ {c.id} : heap[j] = "live" =>
             (ext[j] = "set" /\ final[j]) \/ \E op \in MakeOps : <<"id", op>> \in lost
      BY <1>1 DEF IInv, LosesNothing
    <3>2. \A j \in Ids : heap'[j] = "live" =>
             (ext'[j] = "set" /\ final'[j]) \/ \E op \in MakeOps : <<"id", op>> \in lost'
      BY <1>1, <1>3, <1>6, <2>2, <3>1
    <3>3. lost' \subseteq Leaks
      BY <1>1, <1>6
    <3> QED
      BY <3>2, <3>3 DEF LosesNothing, Leaks
  <2> QED
    BY <1>5, <2>1, <2>3, <2>4, <2>5, <2>6, <2>7 DEF IInv
<1>7. CASE /\ ph' = "idle" /\ res' = Rerr
           /\ lost' = lost \cup {<<h, c.op>> : h \in c.held}
           /\ UNCHANGED <<final, c>>
  <2>1. lost' = lost \cup {<<"id", c.op>>}
    BY <1>1, <1>7
  <2>2. res' = [st |-> res'.st, msg |-> res'.msg, data |-> res'.data]
        /\ res'.msg = None /\ res'.st = "R error"
    BY <1>7 DEF Rerr
  <2>3. BindingTypeOK'
    BY <1>1, <1>3, <1>7, <2>2 DEF IInv, BindingTypeOK, Phases
  <2>4. StreamsInv' /\ StreamsComeBack'
    <3>1. unwound \in Nat /\ Cardinality(Slots \ FreeSlots(memtab)) = 2 * unwound
      BY <1>1 DEF IInv, BindingTypeOK, StreamsInv, RawPhases, Used
    <3>2. memtab' = memtab /\ unwound' = unwound /\ ph' = "idle" /\ res'.st # "internal"
      BY <1>1, <1>7, <2>2
    <3> QED
      BY <3>1, <3>2 DEF StreamsInv, StreamsComeBack, RawPhases, Used
  <2>5. CallInv' /\ ResultInv' /\ MessageIsOwn' /\ ResultIsOwn'
    BY <1>7, <2>2 DEF CallInv, ResultInv, MessageIsOwn, ResultIsOwn
  <2>6. LosesNothing'
    BY <1>1, <1>3, <1>7, <2>1 DEF IInv, LosesNothing, Leaks, MakeOps
  <2> QED
    BY <1>5, <1>7, <2>3, <2>4, <2>5, <2>6 DEF IInv
<1> QED
  BY <1>6, <1>7 DEF IdWrap

\* result_ok() of an identity: R has the pointer, or the collector will find it.
LEMMA ReturnIdentityIInv == ASSUME IInv, ReturnIdentity PROVE IInv'
<1>1. /\ ph = "wrapped" /\ UNCHANGED <<memtab, ebuf, heap, keys, ext, final, n, c, unwound>>
      /\ c.id \in Ids /\ c.op \notin RawOps /\ ext[c.id] = "set" /\ final[c.id]
      /\ lost \subseteq Leaks /\ Returns("ok", None, keys[c.id], {})
      /\ rooted' = [rooted EXCEPT ![c.id] = res'.st = "ok"]
  BY DEF ReturnIdentity, IInv, CallInv, LosesNothing, Leaks, MakeOps, RawOps
<1>2. /\ ph' = "idle" /\ lost \subseteq lost' /\ lost' \subseteq Leaks
      /\ res' = [st |-> res'.st, msg |-> res'.msg, data |-> res'.data]
      /\ res'.msg = None
  BY <1>1, ReturnsBare
<1>3. rooted' \in [Ids -> BOOLEAN]
  BY <1>1 DEF IInv, BindingTypeOK
<1>4. BindingTypeOK'
  BY <1>1, <1>2, <1>3 DEF IInv, BindingTypeOK, Phases
<1>5. StreamsInv' /\ StreamsComeBack'
  <2>1. unwound \in Nat /\ Cardinality(Slots \ FreeSlots(memtab)) = 2 * unwound
    BY <1>1 DEF IInv, BindingTypeOK, StreamsInv, RawPhases, Used
  <2> QED
    BY <1>1, <1>2, <2>1 DEF StreamsInv, StreamsComeBack, RawPhases, Used
<1>6. CallInv' /\ ResultInv' /\ MessageIsOwn' /\ ResultIsOwn'
  BY <1>1, <1>2 DEF CallInv, ResultInv, MessageIsOwn, ResultIsOwn
<1>7. \A j \in Ids : IdInv(j)'
  BY <1>1 DEF IInv, IdInv
<1>8. LosesNothing'
  <2>1. \A j \in Ids : heap[j] = "live" =>
           (ext[j] = "set" /\ final[j]) \/ \E op \in MakeOps : <<"id", op>> \in lost
    BY <1>1 DEF IInv, LosesNothing
  <2>2. \A j \in Ids : heap'[j] = "live" =>
           (ext'[j] = "set" /\ final'[j]) \/ \E op \in MakeOps : <<"id", op>> \in lost'
    BY <1>1, <1>2, <2>1
  <2> QED
    BY <1>2, <2>2 DEF LosesNothing, Leaks
<1> QED
  BY <1>4, <1>5, <1>6, <1>7, <1>8 DEF IInv

\* id_finalizer(), from age_c_identity_free() or from the collector: an object
\* is freed once, since its pointer is cleared with it.
LEMMA FinalizeFrees ==
    ASSUME IInv, NEW i \in Ids, Finalize(i)
    PROVE  /\ heap' \in [Ids -> {"unused", "live", "freed"}]
           /\ ext' \in [Ids -> {"none", "set", "cleared"}]
           /\ \A j \in Ids \ {i} : heap'[j] = heap[j] /\ ext'[j] = ext[j]
           /\ IF ext[i] = "set" THEN heap'[i] = "freed" /\ ext'[i] = "cleared"
                                ELSE heap'[i] = heap[i] /\ ext'[i] = ext[i]
<1>1. /\ heap \in [Ids -> {"unused", "live", "freed"}]
      /\ ext \in [Ids -> {"none", "set", "cleared"}]
      /\ ext[i] = "set" => heap[i] = "live"
  BY DEF IInv, BindingTypeOK, IdInv
<1>2. CASE ext[i] = "set"
  BY <1>1, <1>2 DEF Finalize
<1>3. CASE ext[i] # "set"
  BY <1>1, <1>3 DEF Finalize
<1> QED
  BY <1>2, <1>3

\* What the end of an identity that no call uses preserves.
LEMMA EndOfIdentity ==
    ASSUME IInv, NEW i \in Ids, Finalize(i),
           UNCHANGED <<memtab, ebuf, keys, lost, unwound, ph>>,
           final' \in [Ids -> BOOLEAN], \A j \in Ids \ {i} : final'[j] = final[j],
           ~final'[i] \/ final'[i] = final[i],
           c'.op \in RawOps => res'.st \notin {"ok", "internal"} \/ (res' = res /\ c' = c /\ n' = n),
           \/ ph = "idle"
           \/ c.id # i /\ UNCHANGED <<c, res, n, rooted>>,
           BindingTypeOK', MessageIsOwn'
    PROVE  IInv'
<1>1. /\ \A j \in Ids \ {i} : heap'[j] = heap[j] /\ ext'[j] = ext[j]
      /\ IF ext[i] = "set" THEN heap'[i] = "freed" /\ ext'[i] = "cleared"
                           ELSE heap'[i] = heap[i] /\ ext'[i] = ext[i]
  BY FinalizeFrees
<1>2. /\ IdInv(i) /\ \A j \in Ids : IdInv(j) => (heap[j] = "unused" => ~final[j])
  BY DEF IInv, IdInv
<1>3. \A j \in Ids : IdInv(j)'
  <2>1. ASSUME NEW j \in Ids \ {i} PROVE IdInv(j)'
    BY <1>1 DEF IInv, IdInv
  <2>2. IdInv(i)'
    BY <1>1, <1>2 DEF IdInv
  <2> QED
    BY <2>1, <2>2
<1>4. CallInv'
  <2>1. CASE ph = "idle"
    BY <2>1 DEF CallInv
  <2>2. CASE c.id # i /\ UNCHANGED <<c, res, n, rooted>>
    <3>1. c'.op \in MakeOps /\ ph = "entered" => \E j \in Ids : heap'[j] = "unused"
      BY <1>1, <1>2, <2>2 DEF IInv, CallInv, IdInv
    <3> QED
      BY <1>1, <2>2, <3>1 DEF IInv, CallInv
  <2> QED
    BY <2>1, <2>2
<1>5. LosesNothing'
  <2>1. \A j \in Ids \ {i} : heap'[j] = "live" =>
          \/ ext'[j] = "set" /\ final'[j]
          \/ ph' \in {"wrap", "wrapped"} /\ c'.id = j
          \/ \E op \in MakeOps : <<"id", op>> \in lost'
    BY <1>1 DEF IInv, LosesNothing
  <2>2. heap'[i] = "live" => \E op \in MakeOps : <<"id", op>> \in lost'
    BY <1>1 DEF IInv, LosesNothing
  <2>3. lost' \subseteq Leaks
    BY DEF IInv, LosesNothing, Leaks
  <2> QED
    BY <2>1, <2>2, <2>3 DEF LosesNothing, Leaks
<1>6. StreamsInv' /\ StreamsComeBack' /\ ResultIsOwn' /\ ResultInv'
  <2>1. CASE ph = "idle"
    BY <2>1 DEF IInv, StreamsInv, StreamsComeBack, ResultIsOwn, ResultInv, RawPhases, Used
  <2>2. CASE UNCHANGED <<c, res, n, rooted>>
    BY <2>2 DEF IInv, StreamsInv, StreamsComeBack, ResultIsOwn, ResultInv, RawPhases, Used
  <2> QED
    BY <2>1, <2>2
<1> QED
  BY <1>3, <1>4, <1>5, <1>6 DEF IInv

\* age_c_identity_free()
LEMMA IdentityFreeIInv == ASSUME IInv, IdentityFree PROVE IInv'
<1>1. /\ ph = "idle" /\ n' = n + 1 /\ res' = [Nothing EXCEPT !.st = "freed"] /\ c' = NoCall
      /\ UNCHANGED <<memtab, ebuf, keys, final, rooted, ph, lost, unwound>>
      /\ \E i \in Ids : Finalize(i)
  BY DEF IdentityFree
<1>2. PICK i \in Ids : Finalize(i)
  BY <1>1
<1>3. res' = [st |-> "freed", msg |-> None, data |-> <<>>]
  BY <1>1 DEF Nothing
<1>4. res' = [st |-> res'.st, msg |-> res'.msg, data |-> res'.data] /\ res'.msg = None
  BY <1>3
<1>5. c' \in [op : Ops \cup {"none"}, id : Ids \cup {None}, vin : Slots \cup {None},
              vout : Slots \cup {None}, held : SUBSET {"recs", "id"}, kb : {c'.kb},
              given : {c'.given}, done : Nat, wrote : Nat, failed : BOOLEAN] /\ c'.op = "none"
  BY <1>1 DEF NoCall
<1>6. BindingTypeOK'
  BY <1>1, <1>2, <1>4, <1>5, FinalizeFrees DEF IInv, BindingTypeOK
<1>7. MessageIsOwn' /\ c'.op \notin RawOps
  BY <1>4, <1>5 DEF MessageIsOwn, RawOps
<1>8. final' \in [Ids -> BOOLEAN] /\ \A j \in Ids : final'[j] = final[j]
  BY <1>1 DEF IInv, BindingTypeOK
<1> QED
  BY <1>1, <1>2, <1>6, <1>7, <1>8, EndOfIdentity

\* The collector finds an identity that nobody refers to.
LEMMA CollectIInv == ASSUME IInv, Collect PROVE IInv'
<1>1. /\ UNCHANGED <<memtab, ebuf, keys, rooted, n, ph, c, res, lost, unwound>>
      /\ \E i \in Ids : ~Protected(i) /\ Finalize(i) /\ final' = [final EXCEPT ![i] = FALSE]
  BY DEF Collect
<1>2. PICK i \in Ids : ~Protected(i) /\ Finalize(i) /\ final' = [final EXCEPT ![i] = FALSE]
  BY <1>1
<1>3. ph = "idle" \/ c.id # i
  BY <1>2 DEF Protected
<1>4. /\ final' \in [Ids -> BOOLEAN] /\ ~final'[i] /\ \A j \in Ids \ {i} : final'[j] = final[j]
  BY <1>2 DEF IInv, BindingTypeOK
<1>5. BindingTypeOK'
  BY <1>1, <1>2, <1>4, FinalizeFrees DEF IInv, BindingTypeOK
<1>6. MessageIsOwn'
  BY <1>1 DEF IInv, MessageIsOwn
<1> QED
  BY <1>1, <1>2, <1>3, <1>4, <1>5, <1>6, EndOfIdentity

\* R drops a reference, or nothing happens.
LEMMA DropIInv == ASSUME IInv, Drop \/ UNCHANGED vars PROVE IInv'
<1>1. UNCHANGED <<memtab, ebuf, heap, keys, ext, final, n, ph, c, res, lost, unwound>>
  BY DEF Drop, vars, idvars
<1>2. rooted' \in [Ids -> BOOLEAN]
  BY ZenonT(40) DEF IInv, BindingTypeOK, Drop, vars, idvars
<1>3. BindingTypeOK'
  BY <1>1, <1>2 DEF IInv, BindingTypeOK
<1>4. StreamsInv' /\ StreamsComeBack' /\ ResultIsOwn' /\ ResultInv' /\ MessageIsOwn' /\ CallInv'
  BY <1>1 DEF IInv, StreamsInv, StreamsComeBack, ResultIsOwn, ResultInv, MessageIsOwn, CallInv, Used
<1>5. LosesNothing' /\ \A j \in Ids : IdInv(j)'
  BY <1>1 DEF IInv, LosesNothing, IdInv
<1> QED
  BY <1>3, <1>4, <1>5 DEF IInv

LEMMA NextIInv == ASSUME IInv, [Next]_vars PROVE IInv'
  BY EnterIInv, BadArgumentIInv, RefusalIInv, OpenStreamsIInv, CoreWritesIInv, CoreEndsIInv,
     MemFailIInv, MemFinishIInv, MemBodyIInv, RunFileTransformIInv, PubkeysIInv,
     ParseItemIInv, MakeFailsIInv, MakeIdentityIInv, IdWrapIInv, ReturnIdentityIInv,
     IdentityFreeIInv, CollectIInv, DropIInv
  DEF Next, Exhausted

-----------------------------------------------------------------------------
(* What an identity_parse has read, and what it has been given. *)

KeyBuf == [keys : Seq(Keys), cap : Nat]
Met == [keys : Seq(Keys), good : BOOLEAN]
AllGood(g) == \A j \in DOMAIN g : g[j].good
KeysMet(g) == [j \in DOMAIN g |-> g[j].keys]

\* There is room for the keys collected, and they are those of the elements met,
\* all of them usable; so are those of the object made of them.
ParseInv ==
    /\ c.kb \in KeyBuf /\ c.given \in Seq(Met)
    /\ c.op = "identity_parse" /\ ph = "entered" =>
         AllGood(c.given) /\ c.kb.keys = FlattenSeq(KeysMet(c.given))
    /\ c.op = "identity_parse" /\ ph \in {"wrap", "wrapped"} =>
         AllGood(c.given) /\ keys[c.id] = FlattenSeq(KeysMet(c.given))
    /\ ParseIsAllOrNothing

\* A loop of k steps from z, whose state is in D: the states it goes through.
Goes(f, k, D, z, G) ==
    f \in [0..k -> D] /\ f[0] = z /\ \A i \in 1..k : f[i] = G[i][f[i - 1]]

LEMMA Steps ==
    ASSUME NEW D, NEW z \in D, NEW m \in Nat, NEW G, \A i \in 1..m, d \in D : G[i][d] \in D
    PROVE  \E f : Goes(f, m, D, z, G)
<1> DEFINE P == {k \in Nat : k <= m => \E f : Goes(f, k, D, z, G)}
<1>1. 0 \in P
  <2> DEFINE f == [i \in 0..0 |-> z]
  <2>1. f \in [0..0 -> D] /\ f[0] = z
    OBVIOUS
  <2> HIDE DEF f
  <2>2. Goes(f, 0, D, z, G)
    BY <2>1 DEF Goes
  <2> QED
    BY <2>2
<1>2. ASSUME NEW k \in Nat, k \in P PROVE k + 1 \in P
  <2> SUFFICES ASSUME k + 1 <= m PROVE \E f : Goes(f, k + 1, D, z, G)
    OBVIOUS
  <2>1. PICK f : Goes(f, k, D, z, G)
    BY <1>2
  <2>a. f \in [0..k -> D] /\ f[0] = z /\ \A i \in 1..k : f[i] = G[i][f[i - 1]]
    BY <2>1 DEF Goes
  <2> DEFINE e == G[k + 1][f[k]]
             h == [i \in 0..(k + 1) |-> IF i <= k THEN f[i] ELSE e]
  <2>2. e \in D
    <3>1. f[k] \in D /\ k + 1 \in 1..m
      BY <2>a
    <3> QED
      BY <3>1
  <2>b. e = G[k + 1][f[k]]
    OBVIOUS
  <2> HIDE DEF e
  <2>3. h \in [0..(k + 1) -> D] /\ h[k + 1] = e /\ \A i \in 0..k : h[i] = f[i]
    BY <2>a, <2>2
  <2> HIDE DEF h
  <2>5. ASSUME NEW i \in 1..(k + 1) PROVE h[i] = G[i][h[i - 1]]
    <3>1. i - 1 \in 0..k /\ h[i - 1] = f[i - 1]
      BY <2>3
    <3>2. CASE i = k + 1
      <4>1. i - 1 = k
        BY <3>2
      <4> QED
        BY <2>3, <2>b, <3>1, <3>2, <4>1
    <3>3. CASE i # k + 1
      <4>1. i \in 1..k /\ i \in 0..k
        BY <3>3
      <4> QED
        BY <2>a, <2>3, <3>1, <4>1
    <3> QED
      BY <3>2, <3>3
  <2>6. Goes(h, k + 1, D, z, G)
    BY <2>a, <2>3, <2>5 DEF Goes
  <2> QED
    BY <2>6
<1> HIDE DEF P
<1>3. m \in P
  BY <1>1, <1>2, NatInduct
<1> QED
  BY <1>3 DEF P

\* What is computed the same way from the same beginning is the same.
Follows(g, k, D, z, G) == g[0] = z /\ \A i \in 1..k : g[i - 1] \in D => g[i] = G[i][g[i - 1]]

LEMMA SameSteps ==
    ASSUME NEW D, NEW z, NEW m \in Nat, NEW G, NEW f, Goes(f, m, D, z, G),
           NEW g, Follows(g, m, D, z, G)
    PROVE  \A i \in 0..m : g[i] = f[i]
<1>1. /\ f \in [0..m -> D] /\ f[0] = z /\ \A i \in 1..m : f[i] = G[i][f[i - 1]]
      /\ g[0] = z /\ \A i \in 1..m : g[i - 1] \in D => g[i] = G[i][g[i - 1]]
  BY DEF Goes, Follows
<1> DEFINE P == {k \in Nat : k <= m => g[k] = f[k]}
<1>2. 0 \in P
  BY <1>1
<1>3. ASSUME NEW k \in Nat, k \in P PROVE k + 1 \in P
  <2> SUFFICES ASSUME k + 1 <= m PROVE g[k + 1] = f[k + 1]
    OBVIOUS
  <2>1. k + 1 \in 1..m /\ k \in 0..m /\ (k + 1) - 1 = k
    OBVIOUS
  <2>2. g[k] = f[k] /\ f[k] \in D
    BY <1>1, <1>3, <2>1
  <2> QED
    BY <1>1, <2>1, <2>2
<1> HIDE DEF P
<1>4. Nat \subseteq P
  BY <1>2, <1>3, NatInduct
<1> QED
  BY <1>4 DEF P

LEMMA Appended ==
    \A h \in Seq(Keys), k \in Keys :
        Append(h, k) \in Seq(Keys) /\ Len(Append(h, k)) = Len(h) + 1 /\ Append(h, k) = h \o <<k>>
  BY AppendProperties, AppendIsConcat

-----------------------------------------------------------------------------
(* The lines of a key file. *)

Line == {KeyLine(k) : k \in Keys} \cup {PlainLine(x) : x \in LineKinds}

LEMMA LineIs ==
    ASSUME NEW l \in Line
    PROVE  /\ l.kind \in {"key", "text", "bad", "age", "nul"}
           /\ l.kind = "key" => l.key \in Keys
  BY DEF Line, KeyLine, PlainLine, LineKinds

\* One step of KeysOf().
Found(d, l) == IF l.kind = "key" THEN Append(d, l.key) ELSE d

LEMMA KeysOfIs ==
    ASSUME NEW f \in Seq(Line)
    PROVE  \E h : /\ h \in [0..Len(f) -> Seq(Keys)] /\ h[0] = <<>>
                  /\ \A i \in 1..Len(f) : h[i] = Found(h[i - 1], f[i])
                  /\ KeysOf(f) = h[Len(f)]
<1> DEFINE m == Len(f)
           D == Seq(Keys)
           z == <<>>
           G == [i \in 1..m |-> [d \in D |-> Found(d, f[i])]]
           E(g) == g = [i \in 0..m |-> IF i = 0 THEN <<>>
                                       ELSE IF f[i].kind = "key" THEN Append(g[i - 1], f[i].key) ELSE g[i - 1]]
           g == CHOOSE g : E(g)
<1>1. m \in Nat /\ \A i \in 1..m : f[i] \in Line
  OBVIOUS
<1>2. \A i \in 1..m, d \in D : Found(d, f[i]) \in D
  <2>1. \A i \in 1..m : f[i].kind = "key" => f[i].key \in Keys
    BY <1>1, LineIs
  <2> QED
    BY <2>1, Appended DEF Found
<1>3. \A i \in 1..m, d \in D : G[i][d] \in D /\ G[i][d] = Found(d, f[i])
  BY <1>2
<1>4. <<>> \in D
  OBVIOUS
<1>5. KeysOf(f) = g[m]
  BY DEF KeysOf
<1> HIDE DEF G, m
<1>6. PICK h : Goes(h, m, D, z, G)
  BY <1>1, <1>3, <1>4, Steps
<1>7. h \in [0..m -> D] /\ h[0] = <<>> /\ \A i \in 1..m : h[i] = Found(h[i - 1], f[i])
  <2>1. h \in [0..m -> D] /\ h[0] = <<>> /\ \A i \in 1..m : h[i] = G[i][h[i - 1]]
    BY <1>6 DEF Goes
  <2>2. \A i \in 1..m : i - 1 \in 0..m
    BY <1>1
  <2> QED
    BY <1>3, <2>1, <2>2
<1>8. E(h)
  <2>1. h = [i \in 0..m |-> h[i]]
    BY <1>7
  <2>2. \A i \in 0..m : h[i] = IF i = 0 THEN <<>> ELSE Found(h[i - 1], f[i])
    BY <1>1, <1>7
  <2> QED
    BY <2>1, <2>2 DEF Found
<1>9. E(g)
  BY <1>8
<1> HIDE DEF g
<1>10. g[0] = <<>> /\ \A i \in 1..m : g[i] = Found(g[i - 1], f[i])
  <2>1. \A i \in 0..m : g[i] = IF i = 0 THEN <<>> ELSE Found(g[i - 1], f[i])
    BY <1>9 DEF Found
  <2> QED
    BY <1>1, <2>1
<1>11. \A i \in 0..m : g[i] = h[i]
  <2>1. Follows(g, m, D, z, G)
    BY <1>3, <1>10 DEF Follows
  <2>2. m \in Nat
    BY <1>1
  <2> HIDE DEF D, z
  <2> QED
    BY ONLY <1>6, <2>1, <2>2, SameSteps
<1>12. KeysOf(f) = h[m]
  BY <1>1, <1>5, <1>11
<1> QED
  BY <1>7, <1>12 DEF m

\* What Upto() keeps: the lines before the first NUL, if there is one.
LEMMA UptoIs ==
    ASSUME NEW f \in Seq(Line)
    PROVE  /\ Upto(f) \in Seq(Line) /\ Len(Upto(f)) <= Len(f)
           /\ \A i \in 1..Len(Upto(f)) : Upto(f)[i] = f[i] /\ f[i].kind # "nul"
           /\ Len(Upto(f)) < Len(f) => f[Len(Upto(f)) + 1].kind = "nul"
<1> DEFINE I == {i \in 1..Len(f) : f[i].kind = "nul"}
           k == Min(I)
<1>1. Upto(f) = IF I = {} THEN f ELSE IF k = 0 THEN f ELSE SubSeq(f, 1, k - 1)
  BY DEF Upto, SelectInSeq
<1>2. Len(f) \in Nat
  OBVIOUS
<1>3. CASE I = {}
  BY <1>1, <1>2, <1>3
<1>4. CASE I # {}
  <2>1. k \in I /\ \A i \in I : k <= i
    <3>1. I \subseteq Nat
      BY <1>2
    <3> QED
      BY <1>4, <3>1, MinIsLeast
  <2>2. k \in 1..Len(f) /\ f[k].kind = "nul"
    BY <2>1
  <2>3. \A i \in 1..(k - 1) : f[i].kind # "nul"
    BY <1>2, <2>1, <2>2
  <2> HIDE DEF k, I
  <2>4. Upto(f) = SubSeq(f, 1, k - 1)
    BY <1>1, <1>4, <2>2
  <2>5. /\ SubSeq(f, 1, k - 1) \in Seq(Line) /\ Len(SubSeq(f, 1, k - 1)) = k - 1
        /\ \A i \in 1..(k - 1) : SubSeq(f, 1, k - 1)[i] = f[i]
    <3>1. 1 \in 1..(Len(f) + 1) /\ k - 1 \in 0..Len(f)
      BY <1>2, <2>2
    <3> QED
      BY <1>2, <2>2, <3>1, SubSeqProperties
  <2> QED
    BY <1>2, <2>2, <2>3, <2>4, <2>5
<1> QED
  BY <1>3, <1>4

\* The states of the loop of scan_keyfile().
Scan == [kb : KeyBuf, end : BOOLEAN, err : BOOLEAN]
HasRoom(kb) == Len(kb.keys) <= kb.cap

\* keybuf_push() adds the key, and there is room for it.
LEMMA PushKey ==
    ASSUME NEW kb \in KeyBuf, HasRoom(kb), NEW k \in Keys
    PROVE  /\ Push(kb, k) \in KeyBuf /\ HasRoom(Push(kb, k))
           /\ Push(kb, k).keys = kb.keys \o <<k>>
<1> DEFINE ks == Append(kb.keys, k)
           cap == IF Len(kb.keys) < kb.cap THEN kb.cap
                  ELSE IF kb.cap = 0 THEN InitialCap ELSE 2 * kb.cap
<1>1. kb.keys \in Seq(Keys) /\ kb.cap \in Nat /\ kb = [keys |-> kb.keys, cap |-> kb.cap]
  BY DEF KeyBuf
<1>2. InitialCap \in Nat \ {0}
  BY BindingAssumption
<1>3. ks \in Seq(Keys) /\ Len(ks) = Len(kb.keys) + 1 /\ ks = kb.keys \o <<k>>
  BY <1>1, Appended
<1>4. cap \in Nat /\ Len(ks) <= cap
  <2>1. Len(kb.keys) \in Nat /\ Len(kb.keys) <= kb.cap
    BY <1>1 DEF HasRoom
  <2> QED
    BY <1>1, <1>2, <1>3, <2>1
<1>5. Push(kb, k) = [keys |-> ks, cap |-> cap]
  <2>1. CASE Len(kb.keys) < kb.cap
    BY <1>1, <2>1 DEF Push, Grow
  <2>2. CASE ~(Len(kb.keys) < kb.cap)
    <3>1. Grow(kb) = [keys |-> kb.keys, cap |-> cap]
      BY <1>1, <2>2 DEF Grow
    <3> HIDE DEF cap
    <3> QED
      BY <3>1 DEF Push
  <2> QED
    BY <2>1, <2>2
<1> HIDE DEF ks, cap
<1> QED
  BY <1>3, <1>4, <1>5 DEF KeyBuf, HasRoom

\* One line.
LEMMA ScanLineIs ==
    ASSUME NEW s \in Scan, HasRoom(s.kb), NEW l \in Line
    PROVE  LET t == ScanLine(s, l) IN
           /\ t \in Scan /\ HasRoom(t.kb)
           /\ s.end \/ s.err => t = s
           /\ ~s.end /\ ~s.err =>
                /\ t.end <=> l.kind = "nul"
                /\ t.err <=> l.kind \in {"age", "bad"}
                /\ t.kb.keys = Found(s.kb.keys, l)
<1> DEFINE t == ScanLine(s, l)
<1>1. /\ l.kind \in {"key", "text", "bad", "age", "nul"}
      /\ l.kind = "key" => l.key \in Keys
  BY LineIs
<1>2. s = [kb |-> s.kb, end |-> s.end, err |-> s.err] /\ s.kb \in KeyBuf /\ s.kb.keys \in Seq(Keys)
      /\ s.end \in BOOLEAN /\ s.err \in BOOLEAN
  BY DEF Scan, KeyBuf
<1>3. CASE s.end \/ s.err
  BY <1>3 DEF ScanLine
<1>4. CASE ~s.end /\ ~s.err /\ l.kind = "key"
  <2>1. t = [kb |-> Push(s.kb, l.key), end |-> s.end, err |-> s.err]
    BY <1>2, <1>4 DEF ScanLine
  <2>2. /\ Push(s.kb, l.key) \in KeyBuf /\ HasRoom(Push(s.kb, l.key))
        /\ Push(s.kb, l.key).keys = Append(s.kb.keys, l.key)
    BY <1>1, <1>2, <1>4, PushKey, Appended
  <2> HIDE DEF t
  <2>3. t \in Scan /\ t.kb = Push(s.kb, l.key) /\ ~t.end /\ ~t.err
    BY <1>2, <1>4, <2>1, <2>2 DEF Scan
  <2> QED
    BY <1>4, <2>2, <2>3 DEF Found, t
<1>5. CASE ~s.end /\ ~s.err /\ l.kind = "nul"
  <2>1. t = [kb |-> s.kb, end |-> TRUE, err |-> s.err]
    BY <1>2, <1>5 DEF ScanLine
  <2> HIDE DEF t
  <2> QED
    BY <1>2, <1>5, <2>1 DEF Found, Scan, t
<1>6. CASE ~s.end /\ ~s.err /\ l.kind \in {"age", "bad"}
  <2>1. t = [kb |-> s.kb, end |-> s.end, err |-> TRUE]
    BY <1>2, <1>6 DEF ScanLine
  <2> HIDE DEF t
  <2> QED
    BY <1>2, <1>6, <2>1 DEF Found, Scan, t
<1>7. CASE ~s.end /\ ~s.err /\ l.kind = "text"
  <2>1. t = s
    BY <1>7 DEF ScanLine
  <2> QED
    BY <1>7, <2>1 DEF Found
<1> QED
  BY <1>1, <1>3, <1>4, <1>5, <1>6, <1>7

Fresh(kb) == [kb |-> kb, end |-> FALSE, err |-> FALSE]

LEMMA ScannedIs ==
    ASSUME NEW kb \in KeyBuf, HasRoom(kb), NEW f \in Seq(Line)
    PROVE  \E h : /\ \A i \in 0..Len(f) : h[i] \in Scan /\ HasRoom(h[i].kb)
                  /\ h[0] = Fresh(kb)
                  /\ \A i \in 1..Len(f) : h[i] = ScanLine(h[i - 1], f[i])
                  /\ Scanned(kb, f) = h[Len(f)]
<1> DEFINE m == Len(f)
           D == {s \in Scan : HasRoom(s.kb)}
           z == Fresh(kb)
           G == [i \in 1..m |-> [d \in D |-> ScanLine(d, f[i])]]
           E(g) == g = [i \in 0..m |-> IF i = 0 THEN z ELSE ScanLine(g[i - 1], f[i])]
           g == CHOOSE g : E(g)
<1>1. m \in Nat /\ \A i \in 1..m : f[i] \in Line
  OBVIOUS
<1>2. \A i \in 1..m, d \in D : ScanLine(d, f[i]) \in D
  BY <1>1, ScanLineIs
<1>3. \A i \in 1..m, d \in D : G[i][d] \in D /\ G[i][d] = ScanLine(d, f[i])
  BY <1>2
<1>4. z \in D
  BY DEF Fresh, Scan
<1>5. Scanned(kb, f) = g[m]
  BY DEF Scanned, Fresh
<1>d. \A d \in D : d \in Scan /\ HasRoom(d.kb)
  OBVIOUS
<1> HIDE DEF G, m, z, D
<1>6. PICK h : Goes(h, m, D, z, G)
  BY <1>1, <1>3, <1>4, Steps
<1>7. h \in [0..m -> D] /\ h[0] = z /\ \A i \in 1..m : h[i] = ScanLine(h[i - 1], f[i])
  <2>1. h \in [0..m -> D] /\ h[0] = z /\ \A i \in 1..m : h[i] = G[i][h[i - 1]]
    BY <1>6 DEF Goes
  <2>2. \A i \in 1..m : i - 1 \in 0..m
    BY <1>1
  <2> QED
    BY <1>3, <2>1, <2>2
<1>8. E(h)
  <2>1. h = [i \in 0..m |-> h[i]]
    BY <1>7
  <2>2. \A i \in 0..m : h[i] = IF i = 0 THEN z ELSE ScanLine(h[i - 1], f[i])
    BY <1>1, <1>7
  <2> QED
    BY <2>1, <2>2
<1>9. E(g)
  BY <1>8
<1> HIDE DEF g
<1>10. g[0] = z /\ \A i \in 1..m : g[i] = ScanLine(g[i - 1], f[i])
  <2>1. \A i \in 0..m : g[i] = IF i = 0 THEN z ELSE ScanLine(g[i - 1], f[i])
    BY <1>9
  <2> QED
    BY <1>1, <2>1
<1>11. \A i \in 0..m : g[i] = h[i]
  <2>1. Follows(g, m, D, z, G)
    BY <1>3, <1>10 DEF Follows
  <2>2. m \in Nat
    BY <1>1
  <2> QED
    BY ONLY <1>6, <2>1, <2>2, SameSteps
<1>12. \A i \in 0..m : h[i] \in Scan /\ HasRoom(h[i].kb)
  BY <1>7, <1>d
<1>13. Scanned(kb, f) = h[m]
  BY <1>1, <1>5, <1>11
<1> QED
  BY <1>7, <1>12, <1>13 DEF m, z

\* The loop before the first NUL, ks being the keys of the lines, and from line l
\* on, where the NUL is.
SoFar(h, f, kb, ks, i) ==
    /\ ~h[i].end
    /\ h[i].err <=> \E j \in 1..i : f[j].kind \in {"age", "bad"}
    /\ ~h[i].err => h[i].kb.keys = kb.keys \o ks[i]
Over(h, l, i) ==
    /\ h[l + i].err <=> h[l].err
    /\ h[l + i].kb = h[l].kb
    /\ i > 0 => h[l + i].end \/ h[l + i].err

LEMMA Joined ==
    \A x, y, z \in Seq(Keys) : x \o y \in Seq(Keys) /\ (x \o y) \o z = x \o (y \o z)
<1> SUFFICES ASSUME NEW x \in Seq(Keys), NEW y \in Seq(Keys), NEW z \in Seq(Keys)
             PROVE  x \o y \in Seq(Keys) /\ (x \o y) \o z = x \o (y \o z)
  OBVIOUS
<1> QED
  BY ConcatProperties, ConcatAssociative

\* What scan_keyfile()'s loop has found at its end: an error if one of the lines
\* before the NUL is one, else their keys after the ones it had.
LEMMA ScannedUpto ==
    ASSUME NEW kb \in KeyBuf, HasRoom(kb), NEW f \in Seq(Line)
    PROVE  LET s == Scanned(kb, f)
               u == Upto(f)
           IN  /\ s \in Scan /\ HasRoom(s.kb)
               /\ s.err <=> \E j \in 1..Len(u) : u[j].kind \in {"age", "bad"}
               /\ ~s.err => KeysOf(u) \in Seq(Keys) /\ s.kb.keys = kb.keys \o KeysOf(u)
<1> DEFINE u == Upto(f)
           m == Len(f)
           l == Len(u)
           Err(i) == \E j \in 1..i : f[j].kind \in {"age", "bad"}
<1>1. /\ u \in Seq(Line) /\ l \in Nat /\ m \in Nat /\ l <= m
      /\ \A i \in 1..l : u[i] = f[i] /\ f[i].kind # "nul"
      /\ l < m => f[l + 1].kind = "nul"
      /\ \A i \in 1..m : f[i] \in Line
  BY UptoIs
<1>2. PICK h : /\ \A i \in 0..m : h[i] \in Scan /\ HasRoom(h[i].kb)
               /\ h[0] = Fresh(kb)
               /\ \A i \in 1..m : h[i] = ScanLine(h[i - 1], f[i])
               /\ Scanned(kb, f) = h[m]
  BY ScannedIs
<1>3. PICK ks : /\ ks \in [0..l -> Seq(Keys)] /\ ks[0] = <<>>
                /\ \A i \in 1..l : ks[i] = Found(ks[i - 1], u[i])
                /\ KeysOf(u) = ks[l]
  BY <1>1, KeysOfIs
<1> HIDE DEF u, m, l
<1> DEFINE P == {i \in Nat : i <= l => SoFar(h, f, kb, ks, i)}
<1>4. 0 \in P
  <2>1. h[0].kb = kb /\ ~h[0].end /\ ~h[0].err
    BY <1>2 DEF Fresh
  <2>2. kb.keys \o <<>> = kb.keys
    BY ConcatEmptySeq DEF KeyBuf
  <2>3. SoFar(h, f, kb, ks, 0)
    BY <1>3, <2>1, <2>2 DEF SoFar
  <2> QED
    BY <2>3
<1>5. ASSUME NEW i \in Nat, i \in P PROVE i + 1 \in P
  <2> SUFFICES ASSUME i + 1 <= l PROVE SoFar(h, f, kb, ks, i + 1)
    OBVIOUS
  <2> DEFINE e == i + 1
  <2>1. e \in 1..m /\ e \in 1..l /\ e - 1 = i /\ i \in 0..m /\ i \in 0..l /\ i <= l
    BY <1>1
  <2>2. /\ ~h[i].end
        /\ h[i].err <=> Err(i)
        /\ ~h[i].err => h[i].kb.keys = kb.keys \o ks[i]
    BY <1>5, <2>1 DEF SoFar
  <2>3. h[e] = ScanLine(h[i], f[e]) /\ h[i] \in Scan /\ HasRoom(h[i].kb) /\ f[e] \in Line
    BY <1>1, <1>2, <2>1
  <2>4. f[e].kind # "nul" /\ ks[e] = Found(ks[i], f[e]) /\ ks[i] \in Seq(Keys)
    BY <1>1, <1>3, <2>1
  <2>5. Err(e) <=> Err(i) \/ f[e].kind \in {"age", "bad"}
    BY <1>1, <2>1
  <2>6. /\ h[i].end \/ h[i].err => h[e] = h[i]
        /\ ~h[i].end /\ ~h[i].err =>
             /\ h[e].end <=> f[e].kind = "nul"
             /\ h[e].err <=> f[e].kind \in {"age", "bad"}
             /\ h[e].kb.keys = Found(h[i].kb.keys, f[e])
    <3> DEFINE t == h[i]
               x == f[e]
    <3>1. t \in Scan /\ HasRoom(t.kb) /\ x \in Line
      BY <2>3
    <3>2. h[e] = ScanLine(t, x)
      BY <2>3
    <3> HIDE DEF e, t, x
    <3>3. LET y == ScanLine(t, x) IN
          /\ t.end \/ t.err => y = t
          /\ ~t.end /\ ~t.err =>
               /\ y.end <=> x.kind = "nul"
               /\ y.err <=> x.kind \in {"age", "bad"}
               /\ y.kb.keys = Found(t.kb.keys, x)
      BY ONLY <3>1, ScanLineIs
    <3> QED
      BY <3>2, <3>3 DEF t, x
  <2>7. ASSUME h[i].kb.keys = kb.keys \o ks[i]
        PROVE  Found(h[i].kb.keys, f[e]) = kb.keys \o ks[e]
    <3>1. CASE f[e].kind = "key"
      <4>1. f[e].key \in Keys /\ kb.keys \in Seq(Keys)
        BY <2>3, <3>1, LineIs DEF KeyBuf
      <4>2. h[i].kb.keys \in Seq(Keys)
        BY <2>3 DEF Scan, KeyBuf
      <4>3. Found(h[i].kb.keys, f[e]) = (kb.keys \o ks[i]) \o <<f[e].key>>
        BY <2>7, <3>1, <4>1, <4>2, Appended DEF Found
      <4>4. ks[e] = ks[i] \o <<f[e].key>>
        BY <2>4, <3>1, <4>1, Appended DEF Found
      <4>5. <<f[e].key>> \in Seq(Keys)
        BY <4>1
      <4>6. (kb.keys \o ks[i]) \o <<f[e].key>> = kb.keys \o (ks[i] \o <<f[e].key>>)
        <5> DEFINE x == kb.keys
                   y == ks[i]
                   w == <<f[e].key>>
        <5>1. x \in Seq(Keys) /\ y \in Seq(Keys) /\ w \in Seq(Keys)
          BY <2>4, <4>1, <4>5
        <5> HIDE DEF x, y, w
        <5>2. (x \o y) \o w = x \o (y \o w)
          BY ONLY <5>1, Joined
        <5> QED
          BY <5>2 DEF x, y, w
      <4> QED
        BY <4>3, <4>4, <4>6
    <3>2. CASE f[e].kind # "key"
      BY <2>4, <2>7, <3>2 DEF Found
    <3> QED
      BY <3>1, <3>2
  <2> HIDE DEF e
  <2>8. ~h[e].end /\ (h[e].err <=> Err(e)) /\ (~h[e].err => h[e].kb.keys = kb.keys \o ks[e])
    <3>1. CASE h[i].err
      <4>1. h[e] = h[i]
        BY <2>6, <3>1
      <4> QED
        BY <2>2, <2>5, <3>1, <4>1
    <3>2. CASE ~h[i].err
      <4>1. /\ ~h[e].end /\ (h[e].err <=> f[e].kind \in {"age", "bad"})
            /\ h[e].kb.keys = Found(h[i].kb.keys, f[e])
        BY <2>2, <2>4, <2>6, <3>2
      <4> QED
        BY <2>2, <2>5, <2>7, <3>2, <4>1
    <3> QED
      BY <3>1, <3>2
  <2> QED
    BY <2>8 DEF e, SoFar
<1> HIDE DEF P
<1>6. l \in P
  BY <1>1, <1>4, <1>5, NatInduct
<1>7. SoFar(h, f, kb, ks, l)
  BY <1>1, <1>6 DEF P
<1> DEFINE R == {i \in Nat : l + i <= m => Over(h, l, i)}
<1>8. 0 \in R
  <2>1. l + 0 = l
    BY <1>1
  <2>2. Over(h, l, 0)
    BY <2>1 DEF Over
  <2> QED
    BY <2>2
<1>9. ASSUME NEW i \in Nat, i \in R PROVE i + 1 \in R
  <2> DEFINE a == l + i
             e == l + (i + 1)
  <2> SUFFICES ASSUME e <= m
               PROVE  (h[e].err <=> h[l].err) /\ h[e].kb = h[l].kb /\ (h[e].end \/ h[e].err)
    BY DEF Over
  <2>1. e \in 1..m /\ e - 1 = a /\ a \in 0..m /\ a <= m
    BY <1>1
  <2>2. (h[a].err <=> h[l].err) /\ h[a].kb = h[l].kb /\ (i > 0 => h[a].end \/ h[a].err)
    BY <1>9, <2>1 DEF Over
  <2>3. h[e] = ScanLine(h[a], f[e])
    BY <1>2, <2>1
  <2>4. i = 0 => f[e].kind = "nul"
    BY <1>1, <2>1
  <2>5. i # 0 => h[a].end \/ h[a].err
    BY <2>2
  <2> HIDE DEF a, e
  <2>6. CASE h[a].end \/ h[a].err
    BY <2>2, <2>3, <2>6 DEF ScanLine
  <2>7. CASE ~h[a].end /\ ~h[a].err
    <3>1. h[e] = [h[a] EXCEPT !.end = TRUE]
      BY <2>3, <2>4, <2>5, <2>7 DEF ScanLine
    <3>2. h[a] = [kb |-> h[a].kb, end |-> h[a].end, err |-> h[a].err]
      BY <1>2, <2>1 DEF Scan
    <3>3. h[e] = [kb |-> h[a].kb, end |-> TRUE, err |-> h[a].err]
      BY <3>1, <3>2
    <3> QED
      BY <2>2, <3>3
  <2> QED
    BY <2>6, <2>7
<1> HIDE DEF R
<1>10. m - l \in R
  <2>1. Nat \subseteq R
    BY <1>8, <1>9, NatInduct
  <2> QED
    BY <1>1, <2>1
<1>11. (h[m].err <=> h[l].err) /\ h[m].kb = h[l].kb
  <2>1. l + (m - l) = m
    BY <1>1
  <2> QED
    BY <1>1, <1>10, <2>1 DEF R, Over
<1>12. Err(l) <=> \E j \in 1..l : u[j].kind \in {"age", "bad"}
  BY <1>1
<1>13. ks[l] \in Seq(Keys)
  BY <1>1, <1>3
<1>14. h[m] \in Scan /\ HasRoom(h[m].kb)
  BY <1>1, <1>2
<1> HIDE DEF Err
<1>15. /\ h[l].err <=> Err(l)
       /\ ~h[l].err => h[l].kb.keys = kb.keys \o ks[l]
  BY <1>7 DEF SoFar, Err
<1> QED
  BY <1>2, <1>3, <1>11, <1>12, <1>13, <1>14, <1>15 DEF u, l

LEMMA KeyFileIs == ASSUME NEW f \in KeyFiles PROVE f \in Seq(Line)
<1>1. PICK m \in 0..MaxLines : f \in [1..m -> Line]
  BY DEF KeyFiles, BoundedSeq, SeqOf, Line
<1>2. m \in Nat
  BY BindingAssumption, <1>1
<1> QED
  BY <1>1, <1>2

LEMMA ItemIs ==
    ASSUME NEW it \in Items
    PROVE  /\ it.lines \in Seq(Line) /\ it.file \in BOOLEAN
           /\ ~it.file => \E l \in Line : it.lines = <<l>> /\ l.kind \in {"key", "bad"}
<1>1. CASE \E f \in KeyFiles : it = [file |-> TRUE, lines |-> f]
  BY <1>1, KeyFileIs
<1>2. ASSUME NEW l \in Line, it = [file |-> FALSE, lines |-> <<l>>], l.kind \in {"key", "bad"}
      PROVE  /\ it.lines \in Seq(Line) /\ it.file \in BOOLEAN
             /\ ~it.file => \E x \in Line : it.lines = <<x>> /\ x.kind \in {"key", "bad"}
  BY <1>2
<1>3. CASE \E k \in Keys : it = [file |-> FALSE, lines |-> <<KeyLine(k)>>]
  <2>1. PICK k \in Keys : it = [file |-> FALSE, lines |-> <<KeyLine(k)>>]
    BY <1>3
  <2>2. KeyLine(k) \in Line /\ KeyLine(k).kind = "key"
    BY DEF Line, KeyLine
  <2> QED
    BY <1>2, <2>1, <2>2
<1>4. CASE it = [file |-> FALSE, lines |-> <<PlainLine("bad")>>]
  <2>1. PlainLine("bad") \in Line /\ PlainLine("bad").kind = "bad"
    BY DEF Line, PlainLine, LineKinds
  <2> QED
    BY <1>2, <1>4, <2>1
<1> QED
  BY <1>1, <1>3, <1>4 DEF Items

\* An element of an identity_parse is refused exactly if it is unusable; if not,
\* its keys are added.
LEMMA ParseNextIs ==
    ASSUME NEW it \in Items, NEW kb \in KeyBuf, HasRoom(kb)
    PROVE  LET s == ParseNext(it, kb) IN
           /\ s.err <=> ~Content(it).good
           /\ Content(it) \in Met
           /\ ~s.err => /\ s.kb \in KeyBuf /\ HasRoom(s.kb)
                        /\ s.kb.keys = kb.keys \o Content(it).keys
<1> DEFINE s == ParseNext(it, kb)
           f == it.lines
           u == Upto(f)
           ks == KeysOf(u)
           Bad == \E j \in 1..Len(u) : u[j].kind \in {"age", "bad"}
<1>1. f \in Seq(Line) /\ it.file \in BOOLEAN
  BY ItemIs
<1>2. u \in Seq(Line) /\ Len(u) \in Nat
  BY <1>1, UptoIs
<1>3. ks \in Seq(Keys)
  BY <1>2, KeysOfIs
<1>4. /\ Content(it).keys = ks
      /\ Content(it).good <=> ks # <<>> /\ ~Bad /\ (it.file => Len(f) < KeyfileMax)
      /\ Content(it) \in Met
  BY <1>2, <1>3 DEF Content, Met
<1>5. CASE it.file
  <2> DEFINE r == Scanned(kb, f)
             over == Len(f) >= KeyfileMax
             bare == Len(r.kb.keys) = Len(kb.keys)
  <2>1. /\ r \in Scan /\ HasRoom(r.kb)
        /\ r.err <=> Bad
        /\ ~r.err => r.kb.keys = kb.keys \o ks
    BY <1>1, ScannedUpto
  <2>2. r = [kb |-> r.kb, end |-> r.end, err |-> r.err] /\ r.kb \in KeyBuf /\ r.err \in BOOLEAN
    BY <2>1 DEF Scan
  <2>3. s = [r EXCEPT !.err = @ \/ over \/ bare]
    BY <1>5 DEF ParseNext, ScanKeyfile
  <2>4. ~r.err => (bare <=> ks = <<>>)
    <3>1. kb.keys \in Seq(Keys)
      BY DEF KeyBuf
    <3>2. ~r.err => Len(r.kb.keys) = Len(kb.keys) + Len(ks)
      BY <1>3, <2>1, <3>1, ConcatProperties
    <3>3. Len(ks) \in Nat /\ Len(kb.keys) \in Nat /\ (Len(ks) = 0 <=> ks = <<>>)
      BY <1>3, <3>1, EmptySeq
    <3> DEFINE x == Len(kb.keys)
               y == Len(ks)
    <3>4. x + y = x <=> y = 0
      <4> HIDE DEF x, y
      <4>1. x \in Nat /\ y \in Nat
        BY <3>3 DEF x, y
      <4> QED
        BY <4>1
    <3> QED
      BY <3>2, <3>3, <3>4
  <2>5. over <=> ~(Len(f) < KeyfileMax)
    BY <1>1, BindingAssumption
  <2> HIDE DEF s, over, bare, r, Bad
  <2>6. s.kb = r.kb /\ (s.err <=> r.err \/ over \/ bare)
    BY <2>2, <2>3
  <2>7. s.err <=> ~Content(it).good
    BY <1>4, <1>5, <2>1, <2>4, <2>5, <2>6
  <2> QED
    BY <1>4, <2>1, <2>2, <2>6, <2>7 DEF s
<1>6. CASE ~it.file
  <2>1. PICK l \in Line : f = <<l>> /\ l.kind \in {"key", "bad"}
    BY <1>6, ItemIs
  <2>2. Len(f) = 1 /\ f[1] = l
    BY <2>1
  <2>3. Len(u) = 1 /\ u[1] = l
    <3>1. Len(u) = 1
      <4>1. Len(u) = 0 => f[Len(u) + 1] = l
        BY <2>2
      <4>2. Len(u) <= 1 /\ (Len(u) < 1 => f[Len(u) + 1].kind = "nul")
        BY <1>1, <2>2, UptoIs
      <4> QED
        BY <1>2, <2>1, <4>1, <4>2
    <3> QED
      BY <1>1, <2>2, <3>1, UptoIs
  <2>4. ks = Found(<<>>, l)
    <3>1. PICK h : /\ h[0] = <<>> /\ \A i \in 1..Len(u) : h[i] = Found(h[i - 1], u[i])
                   /\ ks = h[Len(u)]
      BY <1>2, KeysOfIs
    <3> QED
      BY <2>3, <3>1
  <2>5. Bad <=> l.kind = "bad"
    BY <2>1, <2>3
  <2>6. s = ScanLine(Fresh(kb), l)
    BY <1>6, <2>2 DEF ParseNext, Fresh
  <2>7. Fresh(kb) \in Scan /\ Fresh(kb).kb = kb /\ ~Fresh(kb).end /\ ~Fresh(kb).err
    BY DEF Fresh, Scan
  <2>8. /\ s \in Scan /\ HasRoom(s.kb)
        /\ s.err <=> l.kind \in {"age", "bad"}
        /\ s.kb.keys = Found(kb.keys, l)
    BY <2>6, <2>7, ScanLineIs
  <2>9. l.kind = "key" => ks = <<l.key>> /\ Found(kb.keys, l) = kb.keys \o ks /\ ks # <<>>
    <3> SUFFICES ASSUME l.kind = "key" PROVE ks = <<l.key>> /\ Found(kb.keys, l) = kb.keys \o ks /\ ks # <<>>
      OBVIOUS
    <3>1. l.key \in Keys /\ kb.keys \in Seq(Keys)
      BY LineIs DEF KeyBuf
    <3>2. ks = Append(<<>>, l.key)
      BY <2>4 DEF Found
    <3>3. ks = <<l.key>>
      BY <3>1, <3>2
    <3> QED
      BY <3>1, <3>3, Appended DEF Found
  <2> HIDE DEF s, Bad, ks
  <2>10. s.err <=> ~Content(it).good
    BY <1>4, <1>6, <2>1, <2>5, <2>8, <2>9
  <2>11. ~s.err => l.kind = "key"
    BY <2>1, <2>8
  <2> QED
    BY <1>4, <2>8, <2>9, <2>10, <2>11 DEF s, Scan
<1> QED
  BY <1>1, <1>5, <1>6

\* The keys of one more element come after those of the others.
LEMMA FlattenAppend ==
    ASSUME NEW s \in Seq(Seq(Keys)), NEW x \in Seq(Keys)
    PROVE  /\ FlattenSeq(Append(s, x)) = FlattenSeq(s) \o x
           /\ FlattenSeq(s) \in Seq(Keys) /\ FlattenSeq(<<>>) = <<>>
<1> DEFINE D == Seq(Keys)
           z == <<>>
           t == Append(s, x)
           m == Len(s)
           G == [i \in 1..(m + 1) |-> [d \in D |-> d \o t[i]]]
<1>1. /\ m \in Nat /\ t \in Seq(D) /\ Len(t) = m + 1 /\ t[m + 1] = x
      /\ \A i \in 1..m : t[i] = s[i]
  BY AppendProperties
<1>2. \A i \in 1..(m + 1) : t[i] \in D
  BY <1>1
<1> HIDE DEF t, m
<1>3. \A i \in 1..(m + 1), d \in D : G[i][d] = d \o t[i] /\ G[i][d] \in D
  BY <1>2, Joined
<1>4. z \in D /\ m + 1 \in Nat
  BY <1>1
<1> HIDE DEF G
<1>5. PICK h : Goes(h, m + 1, D, z, G)
  <2> HIDE DEF D, z
  <2> QED
    BY <1>3, <1>4, Steps
<1>6. /\ \A i \in 0..(m + 1) : h[i] \in D
      /\ h[0] = <<>> /\ \A i \in 1..(m + 1) : h[i] = h[i - 1] \o t[i]
  <2>1. h \in [0..(m + 1) -> D] /\ h[0] = z /\ \A i \in 1..(m + 1) : h[i] = G[i][h[i - 1]]
    BY <1>5 DEF Goes
  <2>2. \A i \in 1..(m + 1) : i - 1 \in 0..(m + 1)
    BY <1>1
  <2> QED
    BY <1>3, <2>1, <2>2
<1>7. ASSUME NEW r \in Seq(D), Len(r) <= m + 1, \A i \in 1..Len(r) : r[i] = t[i]
      PROVE  FlattenSeq(r) = h[Len(r)]
  <2> DEFINE k == Len(r)
             E(g) == g = [i \in 1..k |-> IF i = 1 THEN r[i] ELSE g[i - 1] \o r[i]]
             g == CHOOSE g : E(g)
             P == {i \in Nat : i + 1 <= k => g[i + 1] = h[i + 1]}
  <2>1. k \in Nat /\ k <= m + 1
    BY <1>7
  <2>2. CASE k = 0
    <3>1. r = <<>>
      BY <2>2
    <3>2. FlattenSeq(r) = <<>>
      BY <3>1 DEF FlattenSeq
    <3> QED
      BY <1>6, <2>2, <3>2
  <2>3. CASE k # 0
    <3>1. FlattenSeq(r) = g[k]
      BY <2>3 DEF FlattenSeq
    <3> HIDE DEF k
    <3>2. h[1] = t[1] /\ 1 \in 1..k
      <4>1. 1 \in 1..(m + 1) /\ 1 - 1 = 0
        BY <1>1
      <4>2. h[1] = <<>> \o t[1]
        BY <1>6, <4>1
      <4> QED
        BY <1>2, <2>1, <2>3, <4>1, <4>2, ConcatEmptySeq
    <3>3. \E e : E(e)
      <4> DEFINE e == [i \in 1..k |-> h[i]]
      <4>1. \A i \in 1..k : e[i] = IF i = 1 THEN r[i] ELSE e[i - 1] \o r[i]
        <5>1. ASSUME NEW i \in 1..k, i # 1 PROVE e[i] = e[i - 1] \o r[i]
          <6>1. i \in 1..(m + 1) /\ i - 1 \in 1..k
            BY <1>1, <2>1, <5>1
          <6>2. h[i] = h[i - 1] \o t[i] /\ r[i] = t[i]
            BY <1>6, <1>7, <6>1 DEF k
          <6> QED
            BY <6>1, <6>2
        <5>2. e[1] = r[1]
          BY <1>7, <3>2 DEF k
        <5> QED
          BY <5>1, <5>2
      <4>2. e = [i \in 1..k |-> e[i]]
        OBVIOUS
      <4> HIDE DEF e
      <4>3. E(e)
        BY <4>1, <4>2
      <4> QED
        BY <4>3
    <3>4. E(g)
      BY <3>3
    <3> HIDE DEF g
    <3>5. \A i \in 1..k : g[i] = IF i = 1 THEN r[i] ELSE g[i - 1] \o r[i]
      BY <3>4
    <3>6. 0 \in P
      <4>1. g[1] = h[1]
        BY <1>7, <3>2, <3>5 DEF k
      <4> QED
        BY <4>1
    <3>7. ASSUME NEW i \in Nat, i \in P PROVE i + 1 \in P
      <4> SUFFICES ASSUME (i + 1) + 1 <= k PROVE g[(i + 1) + 1] = h[(i + 1) + 1]
        OBVIOUS
      <4> DEFINE a == i + 1
                 b == (i + 1) + 1
      <4>1. a + 1 = b /\ b - 1 = a /\ b # 1 /\ b \in 1..k /\ b \in 1..(m + 1)
        BY <1>1, <2>1
      <4>2. g[a] = h[a]
        BY <2>1, <3>7
      <4> HIDE DEF a, b
      <4>3. g[b] = g[a] \o r[b] /\ h[b] = h[a] \o t[b]
        BY <1>6, <3>5, <4>1
      <4>4. r[b] = t[b]
        BY <1>7, <4>1 DEF k
      <4>5. g[b] = h[b]
        BY <4>2, <4>3, <4>4
      <4> QED
        BY <4>5 DEF b
    <3> HIDE DEF P
    <3>8. Nat \subseteq P
      BY <3>6, <3>7, NatInduct
    <3>9. k - 1 \in Nat /\ (k - 1) + 1 = k
      BY <2>1, <2>3
    <3>10. g[k] = h[k]
      <4> DEFINE q == k - 1
      <4>1. q \in P /\ q + 1 = k
        BY <3>8, <3>9
      <4> HIDE DEF q
      <4>2. q + 1 <= k
        BY <2>1, <4>1
      <4> QED
        BY <4>1, <4>2 DEF P
    <3> QED
      BY <3>1, <3>10 DEF k
  <2> QED
    BY <2>2, <2>3
<1>8. FlattenSeq(s) = h[m]
  <2>1. Len(s) <= m + 1 /\ \A i \in 1..Len(s) : s[i] = t[i]
    BY <1>1 DEF m
  <2> QED
    BY <1>7, <2>1 DEF m
<1>9. FlattenSeq(t) = h[m + 1]
  BY <1>1, <1>7
<1>10. h[m + 1] = h[m] \o x
  <2>1. m + 1 \in 1..(m + 1) /\ (m + 1) - 1 = m
    BY <1>1
  <2> QED
    BY <1>1, <1>6, <2>1
<1>11. h[m] \in Seq(Keys)
  BY <1>1, <1>6
<1>12. FlattenSeq(<<>>) = <<>>
  BY DEF FlattenSeq
<1> QED
  BY <1>8, <1>9, <1>10, <1>11, <1>12 DEF t

LEMMA MetAppend ==
    ASSUME NEW g \in Seq(Met), NEW x \in Met
    PROVE  /\ Append(g, x) \in Seq(Met)
           /\ FlattenSeq(KeysMet(Append(g, x))) = FlattenSeq(KeysMet(g)) \o x.keys
           /\ AllGood(Append(g, x)) <=> AllGood(g) /\ x.good
           /\ FlattenSeq(KeysMet(g)) \in Seq(Keys)
<1> DEFINE m == Len(g)
           t == Append(g, x)
<1>1. /\ m \in Nat /\ t \in Seq(Met) /\ Len(t) = m + 1 /\ t[m + 1] = x
      /\ \A i \in 1..m : t[i] = g[i]
      /\ DOMAIN g = 1..m /\ DOMAIN t = 1..(m + 1)
  BY AppendProperties
<1> HIDE DEF t
<1>2. x.keys \in Seq(Keys) /\ \A i \in 1..m : g[i].keys \in Seq(Keys)
  <2>1. x.keys \in Seq(Keys) /\ \A y \in Met : y.keys \in Seq(Keys)
    BY DEF Met
  <2>2. \A i \in 1..m : g[i] \in Met
    OBVIOUS
  <2> QED
    BY <2>1, <2>2
<1>3. AllGood(t) <=> AllGood(g) /\ x.good
  <2>1. ASSUME AllGood(t) PROVE AllGood(g) /\ x.good
    <3>1. \A i \in 1..m : i \in 1..(m + 1)
      BY <1>1
    <3>2. m + 1 \in 1..(m + 1)
      BY <1>1
    <3> QED
      BY <1>1, <2>1, <3>1, <3>2 DEF AllGood
  <2>2. ASSUME AllGood(g), x.good PROVE AllGood(t)
    <3>1. \A i \in 1..(m + 1) : i = m + 1 \/ i \in 1..m
      BY <1>1
    <3> QED
      BY <1>1, <2>2, <3>1 DEF AllGood
  <2> QED
    BY <2>1, <2>2
<1> DEFINE kg == KeysMet(g)
           kt == KeysMet(t)
<1>4. kg \in Seq(Seq(Keys)) /\ Len(kg) = m /\ \A i \in 1..m : kg[i] = g[i].keys
  <2>1. kg = [i \in 1..m |-> g[i].keys]
    BY <1>1 DEF KeysMet
  <2> QED
    BY <1>1, <1>2, <2>1
<1>5. kt = Append(kg, x.keys)
  <2> DEFINE a == Append(kg, x.keys)
  <2>1. /\ a \in Seq(Seq(Keys)) /\ Len(a) = m + 1 /\ a[m + 1] = x.keys
        /\ \A i \in 1..m : a[i] = kg[i]
    BY <1>1, <1>2, <1>4, AppendProperties
  <2>2. kt = [i \in 1..(m + 1) |-> t[i].keys]
    BY <1>1 DEF KeysMet
  <2> HIDE DEF a, kg, kt
  <2>3. ASSUME NEW i \in 1..(m + 1) PROVE a[i] = t[i].keys
    <3>1. CASE i = m + 1
      BY <1>1, <2>1, <3>1
    <3>2. CASE i \in 1..m
      BY <1>1, <1>4, <2>1, <3>2
    <3> QED
      BY <1>1, <3>1, <3>2
  <2>4. a = [i \in 1..(m + 1) |-> a[i]]
    BY <2>1
  <2> QED
    BY <2>2, <2>3, <2>4 DEF a
<1> HIDE DEF kg, kt
<1>6. FlattenSeq(kt) = FlattenSeq(kg) \o x.keys /\ FlattenSeq(kg) \in Seq(Keys)
  BY <1>2, <1>4, <1>5, FlattenAppend
<1> QED
  BY <1>1, <1>3, <1>6 DEF t, kg, kt

-----------------------------------------------------------------------------
(* Every step preserves what is said of identity_parse. *)

LEMMA InitParse == Init => ParseInv
<1> SUFFICES ASSUME Init PROVE ParseInv
  OBVIOUS
<1>1. c = NoCall /\ ph = "idle" /\ c.op = "none" /\ c.kb = NoKeys /\ c.given = <<>>
  BY DEF Init, NoCall
<1>2. NoKeys \in KeyBuf /\ Len(NoKeys.keys) <= NoKeys.cap
  BY EmptySeq DEF NoKeys, KeyBuf
<1> QED
  BY <1>1, <1>2, EmptySeq DEF ParseInv, ParseIsAllOrNothing

\* A call begins, or c is reset, with nothing read.
LEMMA FreshParse ==
    ASSUME c'.kb = NoKeys, c'.given = <<>>, c'.op = "identity_parse" => ph' = "entered"
    PROVE  ParseInv'
<1>1. NoKeys \in KeyBuf /\ Len(NoKeys.keys) <= NoKeys.cap /\ NoKeys.keys = <<>>
  BY EmptySeq DEF NoKeys, KeyBuf
<1>2. KeysMet(<<>>) = <<>> /\ AllGood(<<>>) /\ FlattenSeq(<<>>) = <<>>
  BY DEF KeysMet, AllGood, FlattenSeq
<1>3. c'.given \in Seq(Met) /\ c'.kb \in KeyBuf
  BY <1>1, EmptySeq
<1>4. AllGood(c'.given) /\ c'.kb.keys = FlattenSeq(KeysMet(c'.given))
  BY <1>1, <1>2
<1>5. Len(c'.kb.keys) <= c'.kb.cap
  BY <1>1
<1> QED
  BY <1>3, <1>4, <1>5 DEF ParseInv, ParseIsAllOrNothing

\* A step that adds nothing to what has been read, of another kind of call or
\* of one that stays where it is or ends in an R error.
LEMMA KeptParse ==
    ASSUME ParseInv, c'.kb = c.kb, c'.given = c.given, c'.op = c.op,
           c.op = "identity_parse" =>
             \/ ph' = ph /\ keys' = keys /\ c'.id = c.id /\ res' = res /\ (c'.failed <=> c.failed)
             \/ ph' = "idle" /\ res'.st = "R error"
    PROVE  ParseInv'
<1>1. c'.kb \in KeyBuf /\ c'.given \in Seq(Met) /\ Len(c'.kb.keys) <= c'.kb.cap
  BY DEF ParseInv, ParseIsAllOrNothing
<1>2. CASE c.op # "identity_parse"
  BY <1>1, <1>2 DEF ParseInv, ParseIsAllOrNothing
<1>3. CASE ph' = "idle" /\ res'.st = "R error"
  BY <1>1, <1>3 DEF ParseInv, ParseIsAllOrNothing
<1>4. CASE ph' = ph /\ keys' = keys /\ c'.id = c.id /\ res' = res /\ (c'.failed <=> c.failed)
  BY <1>1, <1>4 DEF ParseInv, ParseIsAllOrNothing
<1> QED
  BY <1>2, <1>3, <1>4

\* The calls that are no identity_parse.
LEMMA OtherCalls ==
    ASSUME IInv, ParseInv,
           \/ BadArgument \/ BadRecipients \/ BadCost \/ BadIdentity \/ OpenStreams \/ CoreWrites
           \/ CoreEnds \/ MemFail \/ MemFinish \/ MemBody \/ RunFileTransform \/ Pubkeys
           \/ PubkeysMade \/ IdentityWrite
    PROVE  ParseInv'
<1>1. c.op # "identity_parse"
  <2>1. CASE ph \in RawPhases \/ ph = "pubkeys"
    BY <2>1 DEF IInv, StreamsInv, CallInv, RawOps
  <2>2. CASE ~(ph \in RawPhases \/ ph = "pubkeys")
    BY <2>2 DEF BadArgument, BadRecipients, BadCost, BadIdentity, OpenStreams, CoreWrites, CoreEnds,
         MemFail, MemFinish, MemBody, RunFileTransform, Pubkeys, PubkeysMade, IdentityWrite, Prepared,
         RawPhases, MakeOps, RecOps, CostOps, IdOps, RawOps, PathOps
  <2> QED
    BY <2>1, <2>2
<1>2. c' = c \/ \E x, y, d : \/ c' = [c EXCEPT !.held = x] \/ c' = [c EXCEPT !.wrote = x]
                             \/ c' = [c EXCEPT !.vin = x, !.vout = y, !.held = d]
  <2>1. CASE OpenStreams
    BY <2>1 DEF OpenStreams
  <2>2. CASE CoreWrites
    BY <2>2 DEF CoreWrites
  <2>3. CASE CoreEnds
    BY <2>3 DEF CoreEnds
  <2>4. CASE ~OpenStreams /\ ~CoreWrites /\ ~CoreEnds
    BY <2>4 DEF BadArgument, BadRecipients, BadCost, BadIdentity, MemFail, MemFinish, MemBody,
         RunFileTransform, Pubkeys, PubkeysMade, IdentityWrite
  <2> QED
    BY <2>1, <2>2, <2>3, <2>4
<1>3. c'.kb = c.kb /\ c'.given = c.given /\ c'.op = c.op
  <2>1. CASE c' = c
    BY <2>1
  <2>2. ASSUME NEW x, NEW y, NEW d,
               \/ c' = [c EXCEPT !.held = x] \/ c' = [c EXCEPT !.wrote = x]
               \/ c' = [c EXCEPT !.vin = x, !.vout = y, !.held = d]
        PROVE  c'.kb = c.kb /\ c'.given = c.given /\ c'.op = c.op
    <3>1. CASE c' = [c EXCEPT !.held = x]
      BY <3>1 DEF IInv, BindingTypeOK
    <3>2. CASE c' = [c EXCEPT !.wrote = x]
      BY <3>2 DEF IInv, BindingTypeOK
    <3>3. CASE c' = [c EXCEPT !.vin = x, !.vout = y, !.held = d]
      BY <3>3 DEF IInv, BindingTypeOK
    <3> QED
      BY <2>2, <3>1, <3>2, <3>3
  <2> QED
    BY <1>2, <2>1, <2>2
<1> QED
  BY <1>1, <1>3, KeptParse

LEMMA BeginParse == ASSUME Enter \/ IdentityFree PROVE ParseInv'
<1>1. CASE Enter
  <2>1. ph' = "entered" /\ \E op, id : c' = [NoCall EXCEPT !.op = op, !.id = id]
    BY <1>1 DEF Enter
  <2>2. c'.kb = NoKeys /\ c'.given = <<>>
    BY <2>1 DEF NoCall
  <2> QED
    BY <2>1, <2>2, FreshParse
<1>2. CASE IdentityFree
  <2>1. c' = NoCall
    BY <1>2 DEF IdentityFree
  <2>2. c'.kb = NoKeys /\ c'.given = <<>> /\ c'.op = "none"
    BY <2>1 DEF NoCall
  <2> QED
    BY <2>2, FreshParse
<1> QED
  BY <1>1, <1>2

LEMMA StillParse == ASSUME IInv, ParseInv, IdWrap \/ Drop \/ Collect \/ UNCHANGED vars PROVE ParseInv'
<1>1. CASE Drop \/ Collect \/ UNCHANGED vars
  <2>1. UNCHANGED <<ph, keys, c, res>>
    BY <1>1 DEF Drop, Collect, vars, idvars
  <2> QED
    BY <2>1, KeptParse
<1>2. CASE IdWrap
  <2>1. keys' = keys /\ ph = "wrap"
    BY <1>2 DEF IdWrap
  <2>2. CASE c' = [c EXCEPT !.held = {}] /\ ph' = "wrapped" /\ res' = res
    <3>1. c'.kb = c.kb /\ c'.given = c.given /\ c'.op = c.op /\ c'.id = c.id
      BY <2>2 DEF IInv, BindingTypeOK
    <3>2. keys'[c'.id] = keys[c.id]
      BY <2>1, <3>1
    <3> QED
      BY <2>1, <2>2, <3>1, <3>2 DEF ParseInv, ParseIsAllOrNothing
  <2>3. CASE ph' = "idle" /\ res' = Rerr /\ c' = c
    BY <2>3, KeptParse DEF Rerr
  <2> QED
    BY <1>2, <2>2, <2>3 DEF IdWrap
<1> QED
  BY <1>1, <1>2

LEMMA ParseItemParse == ASSUME IInv, ParseInv, ParseItem PROVE ParseInv'
<1>1. ph = "entered" /\ c.op = "identity_parse" /\ lost \subseteq Leaks
  BY DEF ParseItem, IInv, LosesNothing, Leaks
<1>2. PICK it \in Items :
          LET s == ParseNext(it, c.kb)
              d == [c EXCEPT !.done = @ + 1, !.given = Append(@, Content(it))]
          IN  IF s.err
              THEN c' = [d EXCEPT !.kb = NoKeys] /\ Returns("identity", None, <<>>, {})
              ELSE c' = [d EXCEPT !.kb = s.kb] /\ UNCHANGED <<ph, res, lost>>
  BY DEF ParseItem
<1> DEFINE s == ParseNext(it, c.kb)
           x == Content(it)
           g == Append(c.given, x)
           done == c.done + 1
<1>3. /\ c.kb \in KeyBuf /\ HasRoom(c.kb) /\ c.given \in Seq(Met) /\ AllGood(c.given)
      /\ c.kb.keys = FlattenSeq(KeysMet(c.given))
  BY <1>1 DEF ParseInv, ParseIsAllOrNothing, HasRoom
<1>4. /\ s.err <=> ~x.good
      /\ x \in Met
      /\ ~s.err => s.kb \in KeyBuf /\ HasRoom(s.kb) /\ s.kb.keys = c.kb.keys \o x.keys
  BY <1>3, ParseNextIs
<1>5. \E kb : c' = [[c EXCEPT !.done = done, !.given = g] EXCEPT !.kb = kb]
              /\ IF s.err THEN kb = NoKeys /\ Returns("identity", None, <<>>, {})
                 ELSE kb = s.kb /\ UNCHANGED <<ph, res>>
  BY <1>2
<1> HIDE DEF s, x, g, done
<1>6. PICK kb : c' = [[c EXCEPT !.done = done, !.given = g] EXCEPT !.kb = kb]
              /\ IF s.err THEN kb = NoKeys /\ Returns("identity", None, <<>>, {})
                 ELSE kb = s.kb /\ UNCHANGED <<ph, res>>
  BY <1>5
<1>7. c'.kb = kb /\ c'.given = g /\ c'.op = c.op
  <2>1. c \in [op : Ops \cup {"none"}, id : Ids \cup {None}, vin : Slots \cup {None},
              vout : Slots \cup {None}, held : SUBSET {"recs", "id"}, kb : {c.kb},
              given : {c.given}, done : Nat, wrote : Nat, failed : BOOLEAN]
    BY DEF IInv, BindingTypeOK
  <2> QED
    BY <1>6, <2>1
<1>8. /\ g \in Seq(Met)
      /\ FlattenSeq(KeysMet(g)) = c.kb.keys \o x.keys
      /\ AllGood(g) <=> x.good
  BY <1>3, <1>4, MetAppend DEF g
<1>9. CASE s.err
  <2>1. ph' = "idle" /\ (res'.st = "identity" \/ res'.st = "R error") /\ kb = NoKeys
    <3>1. kb = NoKeys /\ Returns("identity", None, <<>>, {})
      BY <1>6, <1>9
    <3> QED
      BY <1>1, <3>1, ReturnsBare
  <2>2. NoKeys \in KeyBuf /\ Len(NoKeys.keys) <= NoKeys.cap
    BY EmptySeq DEF NoKeys, KeyBuf
  <2>3. \E j \in DOMAIN g : ~g[j].good
    BY <1>4, <1>8, <1>9 DEF AllGood
  <2>4. ParseIsAllOrNothing'
    BY <1>1, <1>7, <2>1, <2>2, <2>3 DEF ParseIsAllOrNothing
  <2> QED
    BY <1>7, <1>8, <2>1, <2>2, <2>4 DEF ParseInv
<1>10. CASE ~s.err
  <2>1. kb \in KeyBuf /\ Len(kb.keys) <= kb.cap /\ kb.keys = FlattenSeq(KeysMet(g)) /\ AllGood(g)
        /\ ph' = "entered"
    BY <1>1, <1>4, <1>6, <1>8, <1>10 DEF HasRoom
  <2>2. ParseIsAllOrNothing'
    BY <1>7, <2>1 DEF ParseIsAllOrNothing
  <2> QED
    BY <1>7, <1>8, <2>1, <2>2 DEF ParseInv
<1> QED
  BY <1>9, <1>10

LEMMA MakeFailsParse == ASSUME IInv, ParseInv, MakeFails PROVE ParseInv'
<1>1. ph' = "idle" /\ c' = [c EXCEPT !.kb = NoKeys, !.failed = TRUE] /\ res'.st # "ok"
  <2>1. \E st \in {"internal", "identity"} : Returns(st, None, <<>>, {})
    BY DEF MakeFails
  <2>2. PICK st \in {"internal", "identity"} : Returns(st, None, <<>>, {})
    BY <2>1
  <2>3. lost \subseteq Leaks
    BY DEF IInv, LosesNothing, Leaks
  <2>4. ph' = "idle" /\ (res'.st = st \/ res'.st = "R error")
    BY <2>2, <2>3, ReturnsBare
  <2> QED
    BY <2>4 DEF MakeFails
<1>2. c'.kb = NoKeys /\ c'.given = c.given /\ c'.failed
  BY <1>1 DEF IInv, BindingTypeOK
<1>3. NoKeys \in KeyBuf /\ Len(NoKeys.keys) <= NoKeys.cap
  BY EmptySeq DEF NoKeys, KeyBuf
<1> QED
  BY <1>1, <1>2, <1>3 DEF ParseInv, ParseIsAllOrNothing

LEMMA MakeIdentityParse == ASSUME IInv, ParseInv, MakeIdentity PROVE ParseInv'
<1> DEFINE i == Min({j \in Ids : heap[j] = "unused"})
<1>1. /\ ph = "entered" /\ c.op \in MakeOps /\ ph' = "wrap"
      /\ c' = [c EXCEPT !.id = i, !.held = {"id"}, !.kb = NoKeys]
      /\ c.op = "identity_parse" => keys' = [keys EXCEPT ![i] = c.kb.keys]
  BY DEF MakeIdentity, MakeOps
<1>2. i \in Ids
  <2>1. {j \in Ids : heap[j] = "unused"} \subseteq Nat
    BY BindingAssumption DEF Ids
  <2>2. {j \in Ids : heap[j] = "unused"} # {}
    BY <1>1 DEF IInv, CallInv
  <2> QED
    BY <2>1, <2>2, MinIsLeast
<1> HIDE DEF i
<1>3. c'.kb = NoKeys /\ c'.given = c.given /\ c'.op = c.op /\ c'.id = i
  BY <1>1 DEF IInv, BindingTypeOK
<1>4. NoKeys \in KeyBuf /\ Len(NoKeys.keys) <= NoKeys.cap
  BY EmptySeq DEF NoKeys, KeyBuf
<1>5. c.op = "identity_parse" => AllGood(c.given) /\ keys'[i] = FlattenSeq(KeysMet(c.given))
  <2> SUFFICES ASSUME c.op = "identity_parse"
               PROVE  AllGood(c.given) /\ keys'[i] = FlattenSeq(KeysMet(c.given))
    OBVIOUS
  <2>1. keys'[i] = c.kb.keys
    BY <1>1, <1>2 DEF IInv, BindingTypeOK
  <2> QED
    BY <1>1, <2>1 DEF ParseInv
<1> QED
  BY <1>1, <1>3, <1>4, <1>5 DEF ParseInv, ParseIsAllOrNothing

LEMMA ReturnIdentityParse == ASSUME IInv, ParseInv, ReturnIdentity PROVE ParseInv'
<1>1. /\ ph = "wrapped" /\ ph' = "idle" /\ c' = c
      /\ \/ res'.st = "ok" /\ res'.data = keys[c.id]
         \/ res'.st = "R error"
  <2> DEFINE ks == keys[c.id]
  <2>1. Returns("ok", None, ks, {}) /\ lost \subseteq Leaks /\ ph = "wrapped" /\ c' = c
    BY DEF ReturnIdentity, IInv, LosesNothing, Leaks
  <2> HIDE DEF ks
  <2>2. ph' = "idle" /\ ((res'.st = "ok" /\ res'.data = ks) \/ res'.st = "R error")
    BY <2>1, ReturnsBare
  <2> QED
    BY <2>1, <2>2 DEF ks
<1>2. c.op = "identity_parse" => AllGood(c.given) /\ keys[c.id] = FlattenSeq(KeysMet(c.given))
  BY <1>1 DEF ParseInv
<1> QED
  BY <1>1, <1>2 DEF ParseInv, ParseIsAllOrNothing, AllGood, KeysMet

LEMMA NextParse == ASSUME IInv, ParseInv, [Next]_vars PROVE ParseInv'
  BY OtherCalls, BeginParse, StillParse, ParseItemParse, MakeFailsParse, MakeIdentityParse,
     ReturnIdentityParse
  DEF Next, Exhausted

-----------------------------------------------------------------------------
(* The theorems. *)

\* The inductive invariant holds in every reachable state: types; which streams
\* are open and what they hold; that objects, pointers and finalizers agree.
THEOREM Invariance == Spec => []IInv
<1>1. Init => IInv
  BY InitIInv
<1>2. IInv /\ [Next]_vars => IInv'
  BY NextIInv
<1> QED
  BY <1>1, <1>2, PTL DEF Spec

\* memalloc(), memclose() and mem_clean() never lose a stream: between calls the
\* open ones are two for each failure of R_MakeUnwindCont, and a call is refused
\* for want of a stream only when those have used up the table.
THEOREM StreamsAlwaysComeBack == Spec => []StreamsComeBack
<1>1. IInv => StreamsComeBack
  BY DEF IInv
<1> QED
  BY <1>1, Invariance, PTL

\* Streams that earlier calls left open never mix with those of the running
\* call: what it returns is made of its own input, all of it, in order.
THEOREM ResultsAreOwn == Spec => []ResultIsOwn
<1>1. IInv => ResultIsOwn
  BY DEF IInv
<1> QED
  BY <1>1, Invariance, PTL

\* eclear() at every entry is enough for no message to survive into the next
\* operation.
THEOREM MessagesAreOwn == Spec => []MessageIsOwn
<1>1. IInv => MessageIsOwn
  BY DEF IInv
<1> QED
  BY <1>1, Invariance, PTL

\* id_finalizer() and id_addr() keep every identity that R or a running call can
\* reach live, and free none twice, in every order of collections and calls.
THEOREM NothingDangles == Spec => []NoDangling
<1>1. ASSUME IInv PROVE NoDangling
  <2>1. \A i \in Ids : heap[i] \in {"unused", "live", "freed"}
    BY <1>1 DEF IInv, BindingTypeOK
  <2>2. \A i \in Ids : ext[i] = "set" => heap[i] = "live" /\ keys[i] # <<>>
    BY <1>1 DEF IInv, IdInv
  <2>3. \A i \in Ids : ph \in {"core", "pubkeys", "wrapped"} /\ c.id = i => ext[i] = "set"
    BY <1>1 DEF IInv, CallInv
  <2> QED
    BY <2>1, <2>2, <2>3 DEF NoDangling
<1> QED
  BY <1>1, Invariance, PTL

\* The only memory an R error costs is that of an identity in id_wrap() and of
\* the recipients of age_c_encrypt_path(), and every other identity is found
\* again by its finalizer.
THEOREM LittleIsLost == Spec => []LosesNothing
<1>1. IInv => LosesNothing
  BY DEF IInv
<1> QED
  BY <1>1, Invariance, PTL

\* keybuf_push() always has room, and identity_parse makes an object exactly of
\* the keys of all its elements, in their order, or of none (scan_keyfile,
\* age_c_identity_parse), whatever fails and whatever the collector does.
THEOREM ParsesAllOrNothing == Spec => []ParseIsAllOrNothing
<1>1. Init => ParseInv
  BY InitParse
<1>2. IInv /\ ParseInv /\ [Next]_vars => ParseInv'
  BY NextParse
<1>3. ParseInv => ParseIsAllOrNothing
  BY DEF ParseInv
<1> QED
  BY <1>1, <1>2, <1>3, Invariance, PTL DEF Spec
=============================================================================
