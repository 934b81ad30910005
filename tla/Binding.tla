------------------------------ MODULE Binding ------------------------------
(***************************************************************************)
(* The .Call() entry points of binding.c over what outlives a call: the    *)
(* table of memory streams (memio.c), the message buffer ebuf, and the     *)
(* identities, C objects behind R external pointers.  Calls do not overlap *)
(* and are not reentered (the contract at the top of binding.c), but every *)
(* R allocation in a call may fail, and then leaves the C code by longjmp, *)
(* or run the garbage collector, and so the finalizers of identities.      *)
(*                                                                         *)
(* What the cores compute is in Header, Payload, Ibuf and Obuf, how files  *)
(* are written in FileOutput; here a core writes to its sink and fails or  *)
(* succeeds.                                                               *)
(***************************************************************************)
EXTENDS Naturals, Sequences, SequencesExt, FiniteSets, FiniteSetsExt

CONSTANTS
    NSlots,      \* MEMFD_MAX: streams in memtab (8)
    Keys,        \* X25519 private keys
    InitialCap,  \* keys a keybuf is first made for (4)
    KeyfileMax,  \* KEYFILE_MAX, in lines here
    MaxIds,      \* bound: identities made
    MaxLines,    \* bound: lines of a key file
    MaxItems,    \* bound: elements of an identity_parse
    MaxWrites,   \* bound: writes of a core
    MaxCalls     \* bound: calls

ASSUME BindingAssumption ==
    /\ NSlots \in Nat \ {0, 1} /\ InitialCap \in Nat \ {0}
    /\ {KeyfileMax, MaxIds, MaxLines, MaxItems, MaxWrites, MaxCalls} \subseteq Nat

Slots == 1..NSlots
Ids == 1..MaxIds
None == 0            \* no slot (the -1 of memopen_*), no identity, no message

RawOps == {"encrypt", "decrypt", "encrypt_passphrase", "decrypt_passphrase"}
PathOps == {"encrypt_path", "decrypt_path", "encrypt_path_passphrase", "decrypt_path_passphrase"}
RecOps == {"encrypt", "encrypt_path"}
CostOps == {"encrypt_passphrase", "encrypt_path_passphrase"}
IdOps == {"decrypt", "decrypt_path", "identity_pubkeys", "identity_write"}
MakeOps == {"keygen", "identity_parse"}
Ops == RawOps \cup PathOps \cup IdOps \cup MakeOps

\* A line of a key file: an identity, an AGE-SECRET-KEY-1 that does not decode,
\* anything else, a sign of an encrypted file, or a line that begins with NUL.
LineKinds == {"text", "bad", "age", "nul"}
KeyLine(k) == [kind |-> "key", key |-> k]
PlainLine(kind) == [kind |-> kind, key |-> None]
KeyFiles == BoundedSeq({KeyLine(k) : k \in Keys} \cup {PlainLine(x) : x \in LineKinds}, MaxLines)
\* An element of items: a string, which is one line, or a file.
Items == {[file |-> FALSE, lines |-> <<KeyLine(k)>>] : k \in Keys}
         \cup {[file |-> FALSE, lines |-> <<PlainLine("bad")>>]}
         \cup {[file |-> TRUE, lines |-> f] : f \in KeyFiles}

\* What a reader of an element expects of it: the keys in order up to a NUL, or
\* that it is unusable.
Upto(f) == LET k == SelectInSeq(f, LAMBDA l : l.kind = "nul") IN IF k = 0 THEN f ELSE SubSeq(f, 1, k - 1)
KeysOf(f) ==
    LET found[i \in 0..Len(f)] ==
            IF i = 0 THEN <<>>
            ELSE IF f[i].kind = "key" THEN Append(found[i - 1], f[i].key) ELSE found[i - 1]
    IN  found[Len(f)]
Content(it) ==
    LET f == Upto(it.lines) IN
    [keys |-> KeysOf(f),
     good |-> /\ KeysOf(f) # <<>> /\ \A j \in DOMAIN f : f[j].kind \notin {"age", "bad"}
              /\ it.file => Len(it.lines) < KeyfileMax]

VARIABLES
    memtab,   \* the streams
    ebuf,     \* the call whose message the buffer holds
    heap,     \* each AgeIdentities: unused, live, freed, or corrupt (freed twice)
    keys,     \* its keys
    ext,      \* its external pointer: none, set, cleared
    final,    \* whether the pointer has its finalizer
    rooted,   \* whether R still refers to the pointer
    n,        \* the number of the call
    ph,       \* where the call is
    c,        \* its locals
    res,      \* what it returned
    lost,     \* allocations that a longjmp has left behind, with the operation
    unwound   \* failures of R_MakeUnwindCont

idvars == <<heap, keys, ext, final, rooted>>
vars == <<memtab, ebuf, idvars, n, ph, c, res, lost, unwound>>

Unused == [used |-> FALSE, write |-> FALSE, data |-> <<>>]
NoKeys == [keys |-> <<>>, cap |-> 0]
NoCall == [op |-> "none", id |-> None, vin |-> None, vout |-> None, held |-> {},
           kb |-> NoKeys, given |-> <<>>, done |-> 0, wrote |-> 0, failed |-> FALSE]
Nothing == [st |-> "none", msg |-> None, data |-> <<>>]

Init ==
    /\ memtab = [s \in Slots |-> Unused]
    /\ ebuf = None
    /\ heap = [i \in Ids |-> "unused"] /\ keys = [i \in Ids |-> <<>>]
    /\ ext = [i \in Ids |-> "none"] /\ final = [i \in Ids |-> FALSE]
    /\ rooted = [i \in Ids |-> FALSE]
    /\ n = 0 /\ ph = "idle" /\ c = NoCall /\ res = Nothing /\ lost = {} /\ unwound = 0

-----------------------------------------------------------------------------
(* memio.c *)

FreeSlots(t) == {s \in Slots : ~t[s].used}
\* Mutant of MemAlloc: the last slot when there is none.
MemAllocLast(t) == IF FreeSlots(t) = {} THEN NSlots ELSE Min(FreeSlots(t))
\* memalloc()
MemAlloc(t) == IF FreeSlots(t) = {} THEN None ELSE Min(FreeSlots(t))
\* memopen_read(), memopen_write(): a source borrows the caller's bytes.
MemOpen(t, s, write, data) ==
    IF s = None THEN t ELSE [t EXCEPT ![s] = [used |-> TRUE, write |-> write, data |-> data]]
\* memclose()
MemClose(t, s) == IF s = None THEN t ELSE [t EXCEPT ![s] = Unused]

\* mem_clean()
MemClean == MemClose(MemClose(memtab, c.vin), c.vout)

-----------------------------------------------------------------------------
(* Beginning and end of a call. *)

\* Mutant of Eclear: the message of an earlier call stays.
EclearSkipped == ebuf
Eclear == None

Rerr == [st |-> "R error", msg |-> None, data |-> <<>>]

\* result_ok(), result_err(): the list is an R allocation; if it fails, what the
\* C code still holds is not freed.
Returns(st, msg, data, held) ==
    /\ \/ res' = [st |-> st, msg |-> msg, data |-> data] /\ UNCHANGED lost
       \/ res' = Rerr /\ lost' = lost \cup {<<h, c.op>> : h \in held}
    /\ ph' = "idle"

\* An entry point is called, with an identity if it takes one.
Enter ==
    /\ ph = "idle" /\ n < MaxCalls
    /\ n' = n + 1 /\ ebuf' = Eclear /\ res' = Nothing /\ ph' = "entered"
    /\ \/ \E op \in Ops \ IdOps : c' = [NoCall EXCEPT !.op = op, !.id = None]
       \/ \E op \in IdOps, i \in {j \in Ids : rooted[j]} : c' = [NoCall EXCEPT !.op = op, !.id = i]
    /\ c'.op \in MakeOps => \E i \in Ids : heap[i] = "unused"
    /\ UNCHANGED <<memtab, idvars, lost, unwound>>

\* RAW(), STRING_ELT() and CHAR() raise on an argument of another type: before
\* anything is allocated, in every entry point that calls them.
BadArgument ==
    /\ ph = "entered" /\ c.op \notin MakeOps \cup {"identity_pubkeys"}
    /\ res' = Rerr /\ ph' = "idle"
    /\ UNCHANGED <<memtab, ebuf, idvars, n, c, lost, unwound>>

\* parse_recipients(): a malformed string among them, or no memory.
BadRecipients ==
    /\ ph = "entered" /\ c.op \in RecOps
    /\ Returns("recipient", None, <<>>, {})
    /\ UNCHANGED <<memtab, ebuf, idvars, n, c, unwound>>

\* check_cost()
BadCost ==
    /\ ph = "entered" /\ c.op \in CostOps
    /\ Returns("encrypt", None, <<>>, {})
    /\ UNCHANGED <<memtab, ebuf, idvars, n, c, unwound>>

\* id_addr(): NULL once the pointer is cleared.
BadIdentity ==
    /\ ph = "entered" /\ c.op \in IdOps /\ ext[c.id] # "set"
    /\ Returns("identity", None, <<>>, {})
    /\ UNCHANGED <<memtab, ebuf, idvars, n, c, unwound>>

Prepared ==
    /\ ph = "entered"
    /\ c.op \in RawOps \cup PathOps \cup IdOps
    /\ c.op \in IdOps => ext[c.id] = "set"

\* What a call has allocated once its arguments are in order.
Recs == IF c.op \in RecOps THEN {"recs"} ELSE {}

-----------------------------------------------------------------------------
(* The raw entry points. *)

\* Both streams, or neither.
OpenStreams ==
    /\ Prepared /\ c.op \in RawOps
    /\ LET vin == MemAlloc(memtab)
           t == MemOpen(memtab, vin, FALSE, <<n>>)
           vout == MemAlloc(t)
           opened == MemOpen(t, vout, TRUE, <<>>)
       IN  \/ /\ vin # None /\ vout # None
              /\ memtab' = opened /\ ph' = "core"
              /\ c' = [c EXCEPT !.vin = vin, !.vout = vout, !.held = Recs]
              /\ UNCHANGED <<res, lost>>
           \/ /\ vin = None \/ vout = None
              /\ memtab' = MemClose(MemClose(opened, vin), vout)
              /\ Returns("internal", None, <<>>, {})
              /\ UNCHANGED c
    /\ UNCHANGED <<ebuf, idvars, n, unwound>>

\* ageread() and agewrite() of a core: output made from the input (memread,
\* memwrite).
CoreWrites ==
    /\ ph = "core" /\ c.wrote < MaxWrites
    /\ memtab' = [memtab EXCEPT ![c.vout].data = @ \o memtab[c.vin].data]
    /\ c' = [c EXCEPT !.wrote = @ + 1]
    /\ UNCHANGED <<ebuf, idvars, n, ph, res, lost, unwound>>

\* Mutant of CoreEnds: the recipients are kept until the end.
CoreEndsKeepsRecs ==
    /\ ph = "core"
    /\ \/ ph' = "finish" /\ UNCHANGED ebuf
       \/ ph' = "fail" /\ ebuf' \in {ebuf, n}
    /\ UNCHANGED <<memtab, idvars, n, c, res, lost, unwound>>

\* The core is done, or has failed and left a message or, where the system's
\* errno says it, none (eget); free(recs).
CoreEnds ==
    /\ ph = "core"
    /\ \/ ph' = "finish" /\ UNCHANGED ebuf
       \/ ph' = "fail" /\ ebuf' \in {ebuf, n}
    /\ c' = [c EXCEPT !.held = {}]
    /\ UNCHANGED <<memtab, idvars, n, res, lost, unwound>>

\* eget(): the buffer, or strerror(errno) if it is empty.
Eget == ebuf

\* mem_fail(): the message is copied, all is closed, then the result is made.
MemFail ==
    /\ ph = "fail"
    /\ memtab' = MemClean
    /\ Returns(IF c.op \in CostOps \cup RecOps THEN "encrypt" ELSE "decrypt", Eget, <<>>, c.held)
    /\ UNCHANGED <<ebuf, idvars, n, c, unwound>>

\* mem_finish(), R_MakeUnwindCont(): an allocation that nothing guards yet.
MemFinish ==
    /\ ph = "finish"
    /\ \/ ph' = "body" /\ UNCHANGED <<res, lost, unwound>>
       \/ /\ ph' = "idle" /\ res' = Rerr /\ unwound' = unwound + 1
          /\ lost' = lost \cup {<<h, c.op>> : h \in c.held}
    /\ UNCHANGED <<memtab, ebuf, idvars, n, c>>

\* Mutant of MemBody: without R_UnwindProtect a failure skips mem_clean.
MemBodyUnguarded ==
    /\ ph = "body"
    /\ Returns("ok", None, memtab[c.vout].data, c.held)
    /\ memtab' = IF res' = Rerr THEN memtab ELSE MemClean
    /\ UNCHANGED <<ebuf, idvars, n, c, unwound>>

\* R_UnwindProtect(mem_body, mem_clean): the sink is copied out, and whether
\* that works or not all is closed.
MemBody ==
    /\ ph = "body"
    /\ Returns("ok", None, memtab[c.vout].data, c.held)
    /\ memtab' = MemClean
    /\ UNCHANGED <<ebuf, idvars, n, c, unwound>>

-----------------------------------------------------------------------------
(* The file entry points, and the ones that only read an identity. *)

\* run_file_transform() (FileOutput has its steps): both kinds of result are
\* made while age_c_encrypt_path() still holds the recipients.
RunFileTransform ==
    /\ Prepared /\ c.op \in PathOps
    /\ \/ Returns("ok", None, <<>>, Recs) /\ UNCHANGED ebuf
       \/ Returns("io", None, <<>>, Recs) /\ UNCHANGED ebuf
       \/ /\ ebuf' \in {ebuf, n}
          /\ Returns(IF c.op \in RecOps \cup CostOps THEN "encrypt" ELSE "decrypt", ebuf', <<>>, Recs)
    /\ UNCHANGED <<memtab, idvars, n, c, unwound>>

\* age_c_identity_pubkeys() allocates before it reads the keys.
Pubkeys ==
    /\ Prepared /\ c.op = "identity_pubkeys"
    /\ \/ ph' = "pubkeys" /\ UNCHANGED res
       \/ ph' = "idle" /\ res' = Rerr
    /\ UNCHANGED <<memtab, ebuf, idvars, n, c, lost, unwound>>

\* x25519pub() of each key in turn.
PubkeysMade ==
    /\ ph = "pubkeys"
    /\ \/ Returns("ok", None, keys[c.id], {})
       \/ Returns("identity", None, <<>>, {})
    /\ UNCHANGED <<memtab, ebuf, idvars, n, c, unwound>>

\* age_c_identity_write(), up to the protocol of FileOutput.
IdentityWrite ==
    /\ Prepared /\ c.op = "identity_write"
    /\ \/ Returns("ok", None, keys[c.id], {})
       \/ \E st \in {"io", "identity"} : Returns(st, None, <<>>, {})
    /\ UNCHANGED <<memtab, ebuf, idvars, n, c, unwound>>

-----------------------------------------------------------------------------
(* Making identities. *)

\* keybuf_push(): the array doubles when it is full.
Grow(kb) ==
    IF Len(kb.keys) < kb.cap THEN kb
    ELSE [kb EXCEPT !.cap = IF @ = 0 THEN InitialCap ELSE 2 * @]
Push(kb, k) == [Grow(kb) EXCEPT !.keys = Append(@, k)]

\* One line of scan_keyfile()'s loop, whose state is s: a NUL ends the buffer.
ScanLine(s, l) ==
    IF s.end \/ s.err THEN s
    ELSE CASE l.kind = "nul" -> [s EXCEPT !.end = TRUE]
           [] l.kind = "key" -> [s EXCEPT !.kb = Push(@, l.key)]
           [] l.kind \in {"age", "bad"} -> [s EXCEPT !.err = TRUE]
           [] OTHER -> s

\* The loop.
Scanned(kb, f) ==
    LET scan[i \in 0..Len(f)] ==
            IF i = 0 THEN [kb |-> kb, end |-> FALSE, err |-> FALSE] ELSE ScanLine(scan[i - 1], f[i])
    IN  scan[Len(f)]

\* Mutant of ScanKeyfile: every file of the call together needs one identity.
ScanKeyfileAnyKeys(kb, f) ==
    [Scanned(kb, f) EXCEPT !.err = @ \/ Len(f) >= KeyfileMax \/ Scanned(kb, f).kb.keys = <<>>]
\* scan_keyfile(): slurp_keyfile() refuses a file of KEYFILE_MAX; the file must
\* add a key.
ScanKeyfile(kb, f) ==
    LET s == Scanned(kb, f)
    IN  [s EXCEPT !.err = @ \/ Len(f) >= KeyfileMax \/ Len(s.kb.keys) = Len(kb.keys)]

ParseNext(it, kb) ==
    IF it.file THEN ScanKeyfile(kb, it.lines)
    ELSE ScanLine([kb |-> kb, end |-> FALSE, err |-> FALSE], it.lines[1])

\* The loop of age_c_identity_parse(); given records the elements met.  The keys
\* are wiped and freed before an error result is made.
ParseItem ==
    /\ ph = "entered" /\ c.op = "identity_parse" /\ c.done < MaxItems
    /\ \E it \in Items :
          LET s == ParseNext(it, c.kb)
              d == [c EXCEPT !.done = @ + 1, !.given = Append(@, Content(it))]
          IN  IF s.err
              THEN c' = [d EXCEPT !.kb = NoKeys] /\ Returns("identity", None, <<>>, {})
              ELSE c' = [d EXCEPT !.kb = s.kb] /\ UNCHANGED <<ph, res, lost>>
    /\ UNCHANGED <<memtab, ebuf, idvars, n, unwound>>

\* A file that is gone since R saw it, a read error, no memory or no randomness;
\* arguments of another type, NA, or no items at all.
MakeFails ==
    /\ ph = "entered" /\ c.op \in MakeOps
    /\ Returns(IF c.op = "keygen" THEN "internal" ELSE "identity", None, <<>>, {})
    /\ c' = [c EXCEPT !.kb = NoKeys, !.failed = TRUE]
    /\ UNCHANGED <<memtab, ebuf, idvars, n, unwound>>

\* keygen: one new key; parse: the keys collected, at least one.  The object
\* is made and takes over the keys.
MakeIdentity ==
    /\ ph = "entered" /\ c.op \in MakeOps
    /\ LET i == Min({j \in Ids : heap[j] = "unused"}) IN
          /\ \/ c.op = "keygen" /\ \E k \in Keys : keys' = [keys EXCEPT ![i] = <<k>>]
             \/ /\ c.op = "identity_parse" /\ c.kb.keys # <<>>
                /\ keys' = [keys EXCEPT ![i] = c.kb.keys]
          /\ heap' = [heap EXCEPT ![i] = "live"]
          /\ c' = [c EXCEPT !.id = i, !.held = {"id"}, !.kb = NoKeys]
    /\ ph' = "wrap"
    /\ UNCHANGED <<memtab, ebuf, ext, final, rooted, n, res, lost, unwound>>

\* id_wrap(): the pointer, then its finalizer; either allocation may fail.
IdWrap ==
    /\ ph = "wrap"
    /\ \/ /\ ext' = [ext EXCEPT ![c.id] = "set"]
          /\ final' = [final EXCEPT ![c.id] = TRUE]
          /\ c' = [c EXCEPT !.held = {}]
          /\ ph' = "wrapped" /\ UNCHANGED <<res, lost>>
       \/ /\ ph' = "idle" /\ res' = Rerr
          /\ lost' = lost \cup {<<h, c.op>> : h \in c.held}
          /\ ext' \in {ext, [ext EXCEPT ![c.id] = "set"]} /\ UNCHANGED <<final, c>>
    /\ UNCHANGED <<memtab, ebuf, heap, keys, rooted, n, unwound>>

\* result_ok(): the pointer reaches R, or is garbage.
ReturnIdentity ==
    /\ ph = "wrapped"
    /\ Returns("ok", None, keys[c.id], {})
    /\ rooted' = [rooted EXCEPT ![c.id] = res'.st = "ok"]
    /\ UNCHANGED <<memtab, ebuf, heap, keys, ext, final, n, c, unwound>>

-----------------------------------------------------------------------------
(* The end of identities. *)

\* Mutant of Finalize: the pointer keeps its address.
FinalizeKeepsAddress(i) ==
    /\ heap' = [heap EXCEPT ![i] = IF @ = "live" THEN "freed" ELSE "corrupt"]
    /\ UNCHANGED ext
\* id_finalizer(): nothing if the pointer is cleared; else wipe, free, clear.
Finalize(i) ==
    /\ IF ext[i] = "set"
       THEN /\ heap' = [heap EXCEPT ![i] = IF @ = "live" THEN "freed" ELSE "corrupt"]
            /\ ext' = [ext EXCEPT ![i] = "cleared"]
       ELSE UNCHANGED <<heap, ext>>

\* age_c_identity_free(), called again or not.
IdentityFree ==
    /\ ph = "idle" /\ n < MaxCalls
    /\ n' = n + 1 /\ res' = [Nothing EXCEPT !.st = "freed"] /\ c' = NoCall
    /\ \E i \in Ids : rooted[i] /\ Finalize(i)
    /\ UNCHANGED <<memtab, ebuf, keys, final, rooted, ph, lost, unwound>>

\* R drops its last reference.
Drop ==
    /\ ph = "idle"
    /\ \E i \in Ids : rooted[i] /\ rooted' = [rooted EXCEPT ![i] = FALSE]
    /\ UNCHANGED <<memtab, ebuf, heap, keys, ext, final, n, ph, c, res, lost, unwound>>

\* What the collector keeps: what R refers to, the argument of the running call
\* and a pointer it has protected.
Protected(i) == rooted[i] \/ (ph # "idle" /\ c.id = i)

\* The collector, between calls and where a call allocates R objects.
Collect ==
    /\ ph \in {"idle", "wrap", "wrapped", "finish", "body", "pubkeys"}
    /\ \E i \in Ids :
          /\ final[i] /\ ~Protected(i)
          /\ Finalize(i)
          /\ final' = [final EXCEPT ![i] = FALSE]
    /\ UNCHANGED <<memtab, ebuf, keys, rooted, n, ph, c, res, lost, unwound>>

Exhausted == ph = "idle" /\ n = MaxCalls /\ UNCHANGED vars

Next == \/ Enter \/ BadArgument \/ BadRecipients \/ BadCost \/ BadIdentity
        \/ OpenStreams \/ CoreWrites \/ CoreEnds \/ MemFail \/ MemFinish \/ MemBody
        \/ RunFileTransform \/ Pubkeys \/ PubkeysMade \/ IdentityWrite
        \/ ParseItem \/ MakeFails \/ MakeIdentity \/ IdWrap \/ ReturnIdentity
        \/ IdentityFree \/ Drop \/ Collect \/ Exhausted

Spec == Init /\ [][Next]_vars

-----------------------------------------------------------------------------
(* Properties. *)

\* The table never fills up: between calls the only open streams are two for
\* each failure of R_MakeUnwindCont, and no call fails for want of a stream
\* unless those have used up the table (mem_clean, the memopen error path).
StreamsComeBack ==
    /\ ph = "idle" => Cardinality(Slots \ FreeSlots(memtab)) = 2 * unwound
    /\ res.st = "internal" /\ c.op \in RawOps => 2 * unwound >= NSlots - 1

\* What a raw call returns is what it made from its own input, all of it and
\* nothing else, whatever streams earlier calls left behind.
ResultIsOwn ==
    res.st = "ok" /\ c.op \in RawOps => res.data = [j \in 1..c.wrote |-> n]

\* The message of an error is of the call that reports it, or of errno: "no
\* message survives into the next operation" (eclear, eget).
MessageIsOwn == res.msg \in {None, n}

\* An identity that R or a running call can reach is live and has its keys;
\* nothing is freed twice, whichever of age_identity_free() and the collector
\* comes first (id_finalizer, id_addr).
NoDangling ==
    \A i \in Ids :
        /\ heap[i] # "corrupt"
        /\ ext[i] = "set" => heap[i] = "live" /\ keys[i] # <<>>
        /\ ph \in {"core", "pubkeys", "wrapped"} /\ c.id = i => heap[i] = "live"

\* An R error costs no memory, except that of an identity in id_wrap() and of
\* the recipients of age_c_encrypt_path(): never the recipients of a raw call.
\* And an identity no longer in use is freed or waits for the collector.
LosesNothing ==
    /\ lost \subseteq {<<"id", "keygen">>, <<"id", "identity_parse">>, <<"recs", "encrypt_path">>}
    /\ \A i \in Ids : heap[i] = "live" =>
          \/ ext[i] = "set" /\ final[i]
          \/ ph \in {"wrap", "wrapped"} /\ c.id = i
          \/ \E op \in MakeOps : <<"id", op>> \in lost

\* An identity made from strings and files has exactly their keys, in their
\* order, which is the order of trying them.  One unusable element is enough
\* for no identity at all; without one, only memory or reading can fail.  The
\* array they are collected in always has room for them (keybuf_push).
ParseIsAllOrNothing ==
    /\ Len(c.kb.keys) <= c.kb.cap
    /\ c.op = "identity_parse" /\ ph = "idle" =>
         /\ res.st = "ok" => /\ \A j \in DOMAIN c.given : c.given[j].good
                             /\ res.data = FlattenSeq([j \in DOMAIN c.given |-> c.given[j].keys])
         /\ res.st = "identity" => c.failed \/ \E j \in DOMAIN c.given : ~c.given[j].good
=============================================================================
