# A TLA+ model of agecrypt

agecrypt is an R package that encrypts and decrypts the age v1 format
(age-encryption.org/v1). Its C core (`src/src/agec/`) streams data from an input
buffer through the header and payload code to an output buffer; a binding
(`src/src/binding.c`, `memio.c`, `fileio.c`) gives it memory streams, files and R
objects; the R layer (`src/R/`) checks arguments and turns status strings into
conditions. Paths below are relative to the directory that holds `src/`.

## Inventory

| Component | State | Operations | Used by | What is hard | What makes it correct |
|---|---|---|---|---|---|
| File output (`fileio.c`, `binding.c:522-570, 808-869`, `R/file.R`) | temporary file, destination, descriptors | guard, open temp, write, fsync, close, move, unlink | the file verbs, `age_keygen(path)` | other sessions and programs, any call failing, kill, power loss | the destination is old or whole; nothing is replaced without leave; nothing is left behind |
| Input buffer (`agec/io.c`) | `Ibuf`: buffer, cursor, armor block, record | `bread`, `bpeek`, `recstop` | parser, MAC check, payload loops | short reads, block edges, recording across refills | bytes in order, end only at the end, the record is what was read |
| Output buffer (`agec/io.c`) | `Obuf`: buffer, cursor | `bwrite`, `bflush` | `makehdr`, `writebody`, `pldecrypt` | pieces at the buffer's edge, short writes | nothing lost, canonical armor, success means written |
| Payload (`agec/payload.c`) | chunk counter, stream position | `plencrypt`, `pldecrypt` | `agecore.c` | counter limit, empty and last chunks, cut or reordered streams | nonces unique, only prefixes released, one stream accepted |
| Header (`agec/header.c, parse.c, agecore.c, x25519.c, scrypt.c`) | stanza, match state, MAC | `makehdr`, `getstanza`, `match`, `validatemac` | encipher, decipher | unknown stanzas, several matches, scrypt among others | exactly the format, first match, scrypt alone and within its bound, recipients can decrypt |
| Memory streams (`memio.c`) | table of eight slots | open, read, write, close | raw verbs | slots lost on R errors | slots come back, no cross-talk |
| Identities (`binding.c:93-519, 638-645`, `R/identity.R`) | C object, external pointer | keygen, parse, pubkeys, write, free, finalizer | all decryption | collection inside calls, free and finalizer, one of several files failing | never dangling, freed once, all keys in order or none |
| Entry points (`binding.c`) | `ebuf`, allocations of a call | 13 `.Call` routines | R | longjmp out of C | nothing lost, messages of the right call |
| Messages (`agec/util.c`, `platform.c`) | `ebuf` | `eset`, `ewrap`, `eget` | every failure | the buffer is its own source, truncation | the message is of this call, every part in order |
| Base64 (`agec/base64.c`) | none | encode, decode | buffers, parser | lines, padding, stray bits | each text reads as its data, changed texts are refused |
| Bech32 keys (`agec/bech32.c, x25519.c`) | none | `x25519pubkey`, `x25519privkey`, `bech32encode` | recipients, identities | the checksum, letter case, the label | only a text of a key is a key |
| Primitives (`agec/crypto/`, `keyenc.c`) | contexts of a hash or cipher | SHA-256, HMAC, HKDF, PBKDF2, scrypt, ChaCha20-Poly1305, X25519 | header, payload, keys | partial blocks, carries, shared buffers, low-order points | the functions of the documents they implement |
| Random bytes (`platform.c`) | none | `agerandom` | headers, temporary names | may fail | |
| R argument checks, conditions, registration, fuzz harness | none | | users | | |

R runs one `.Call` at a time, so the concurrency is between sessions (through the
file system), between a call and R's collector, and between the program and the
operating system's short, failing or late answers.

## Modules

* **AtomicOutput**: what the file verbs promise about the destination: one step
  from the old content to a whole result.
* **FileOutput**: the protocol that keeps that promise. A step is one system call.
  `fs` is the directory, `jdst` the destination entry that a power failure would
  bring back, `pc`, `tmp`, `tries`, `out`, `fds`, `ret` the C locals of each
  session. `Guard` is the check in R, `OpenTemp` an iteration of `age_open_temp`,
  `Fsync`, `Close`, `Move`, `Access`, `Rename`, `Unlink` are `commit_output` with
  `age_move`, `Discard` is `discard_output`. `Die`, `PowerLoss`, `Journal` and
  `Outside` are the environment.
* **FileOutput_proofs**, **Binding_proofs**, **Payload_proofs**, **Header_proofs**,
  **Armor_proofs**, **Codecs_proofs**, **Primitives_proofs**: the theorems about those
  modules, with **NatFacts**, what they need of numbers, strings and folds.
* **ArmorText**: the text both buffers speak: lines of armor between a BEGIN and an
  END line, each character carrying its place.
* **Ibuf**: `struct Ibuf` field by field (`b`, `buf`, `abuf`, the record), a step
  for each loop iteration, driven by the calls of the header parser, `validmac`,
  `getplnonce` and the chunk loops.
* **Obuf**: `struct Obuf`; a step is one `agewrite` and the code up to the next.
* **Armor**: the two composed: the reader opens what the writer left at the
  descriptor (`OpenText`), after success or failure and possibly with something
  appended. Plaintexts and cut texts come from `IbufInit`.
* **Payload**: `plencrypt` and `pldecrypt` over an ideal AEAD. Streams come from
  `plencrypt`, with changes on the way, or from a program that holds the key and
  ignores the layout.
* **Header**: writing and reading by lines, each classified the way `parse.c`
  classifies it; `GetStanza`, `SkipArgBody`, `GetBody` are `getstanza` and what it
  calls, `Decipher` and `DecipherPassphrase` what follows `match`. Lines of another
  program are chosen as they are read, so every header up to the bound occurs.
  `RecStop` and `ValidateMac` take from Ibuf what may have become of the bytes the MAC
  is computed over: a copy, the input buffer itself, that buffer after the MAC line has
  refilled it, or a copy that lacks its end (`data`).
* **Binding**: the entry points over `memtab`, `ebuf` and the identities. Every R
  allocation may fail (longjmp: what C still holds goes to `lost`) or run the
  collector (`Collect`).

* **Digits**, **Base64**, **Bech32**, **Codecs**: the two codecs as operators
  beside reference definitions (strings of w-bit digits; polynomials over GF(32)
  for the checksum), and a state machine that encodes, changes the text on its way
  and reads it. Characters and bytes have their real values.
* **Buffers**: `eset` and `ewrap` on the bytes of `ebuf`, `memwrite` on a sink,
  its data, the capacity it notes and the room `realloc()` has given it, which may fail
  at any write.
* **Rounds**: the SHA-256 compression function, `salsa` and the ChaCha20 rounds at
  their real size, a `uint32` being the set of its bits.
* **Sha256**, **Kdf**, **Aead**: everything around those three, which are free
  functions there: a hash state is the sequence of blocks it was given, a keystream
  byte names its key, counter and place. So any difference in what is hashed or
  sealed is a difference in the result.
* **Poly1305**, **Layout**, **Curve25519**: the arithmetic over split numbers.
  Poly1305 has two limbs for four, modulo 4 * 2^14 - 5 for 2^130 - 5. The field of
  the curve is that of p = 509 in two limbs of 5 and 4 bits for ten of 26 and 25;
  `Layout` holds what depends on the real layout and is also checked at ten limbs.
* **Primitives**: one job of each kind per behaviour, compared with a reference; a sink
  takes a step for each write.

Each `MC*` module gives one of them to TLC. Payload takes for granted of the
buffers what the run Armor shows (reads in order, true ends, complete writes);
Header and Payload take the primitives as ideal, which Primitives supports as far as
it goes; Header and Payload meet in the file key; Binding treats a core as
something that writes to its sink and fails or succeeds, and leaves the file steps
to FileOutput.

Definitions whose comment begins "Mutant of" are the broken variants listed
under `mutants` in `PROJECT.json`; no specification uses them.

## Runs

| Run | Result | What it shows |
|---|---|---|
| FileOutput | pass | Two sessions, one overwriting and writing keys: `NeverPartial`, `PrivateTemps`, `NoLeftovers`, and `Returns`, with `link()` unsupported allowed |
| FileNoClobber | pass | Three sessions, `link()` failing only with EEXIST: `NoClobber` and the refinement `InstallsAtomically` |
| FileFallbackRace | violation | `access()` then `rename()` replaces a file made in between, which fileio.h:27 excludes |
| Armor | pass | what was written is read back or refused for a named cause (`ReadsBack`), accounting, canonical text, order, end of input, record, MAC coverage, peeks; both calls end |
| IbufEndStraddle | violation | an END line across two blocks is refused |
| IbufStaleRecord | violation | the MAC is computed over a buffer that has been refilled |
| IbufDearmor | violation | plaintext that looks armored is decoded before it is encrypted |
| Payload | pass | unique nonces with the limit met exactly, prefixes only, exactly the one stream |
| Header | pass | format, first match, scrypt alone and within its bound (`ScryptWork`), recipients refused for nothing but a spoilt record (`RecipientsDecrypt`) |
| Binding | pass | streams come back, own results and messages, no dangling identity, nothing lost, all-or-nothing key files |
| Codecs | pass | Base64 and key texts, changed once or twice anywhere: accepted exactly when the reference says so, with the data it says |
| Primitives | pass | messages; sinks, with `realloc()` failing at any write; hashing in pieces; key derivation; sealing, opening and rekeying; field and MAC arithmetic; X25519 for every input |

The properties of the passing runs say exactly where the four findings begin:
`ArmorRefusedForCause` excepts a straddling END line, `MacCoversHeader` an armored
header that fits the first fill, `RecipientsDecrypt` the header of which recstop() has no
whole copy, `InOrder` plaintext that looks armored and what follows a refusal that
bpeek() drops; `NoClobber` holds when
`LinkMayFail` is false. `Binding` has three more exceptions, visible in its
properties: the failure of `R_MakeUnwindCont()` keeps two slots of the stream table
(`StreamsComeBack` counts them; the comment at binding.c:649 speaks only of the
allocation of the result, which is guarded), a failure in `id_wrap()` leaks the
identity, and a failure while `run_file_transform()` builds its result leaks the
recipients of `age_c_encrypt_path()` (`LosesNothing`). A key file is read up to
its first NUL byte, which `ParseIsAllOrNothing` states as the code does.

Three more observations have no run of their own. `bpeek` stores the -2 of `aread` as
the unsigned size of the buffer (io.c:341-347) and returns 1. Ibuf does the same: the
size becomes `MinusTwo`, a value beyond the buffer, the parser goes on with the old
bytes from its start, and a read that they do not satisfy copies past `b->buf`
(outcome "overread"). `TypeOK` says that this is the only place where the size leaves
the buffer and the only way to read past its end, `ArmorRefusedForCause` that it is
met only with armor that is damaged or whose END line straddles two blocks, and
`EndIsEnd` and `MacCoversHeader` that nothing that follows ends well. `base64decode` promises to refuse what is "non-canonical" (base64.c:167) but
lets a lone extra symbol pass when the two bits before it are 0; with lines it does
not look at the last character after an '=' and takes a second '=' in the place of the
newline of a full line. `Base64!Accepts` is the exact set. And the Bech32 decoder
ignores the four bits left in the last digit, so sixteen texts with valid checksums
name one key (`IsKeyText`).

### Bounds

Sizes are parameters; the values keep the order and divisibility of the real ones
(a chunk is longer than the probe, a block is whole lines, the buffer is no
multiple of a piece), so each edge is met from both sides.

* FileOutput: two sessions suffice for every pair of conflicting calls (the
  protocol has no step that looks at two others); a third is there in
  FileNoClobber, where a pair may be racing while one installs. Two temporary
  names, so both a collision and a free name occur; `MaxTries` 2 and 1 for 16.
* Armor: contents up to 14 bytes, or three pieces of 0, 1, 3 or 6, over buffers of 5,
  write blocks of 4 and read blocks of 6 characters: three fills and three blocks,
  pieces that end before, at and after each edge, the END line at each offset of a
  block, headers that end before, at and after a fill.
* Payload: 3 counter values and plaintexts of up to 5 chunks, thus beyond the
  limit; `IntMax` is not reached in the run (128 TiB in reality).
* Header: two keys, callers of up to two identities, costs below, at and one above the
  limit of decryption, six lines from another program (two stanzas, or one with a long body, and the
  end), one changed line.
* Binding: three slots (one lost pair fills the table), three calls, two
  identities, two items, files of up to three lines where three is `KeyfileMax`.
* Codecs: up to 13 bytes in lines of 8 characters (two full lines and a part of a third), each
  length modulo 3, each character replaced, removed or put in; keys of 7 bytes, four
  spare bits as with 32; two changes for one recipient, one for the rest.
* Primitives: three writes to a sink of pieces up to the limit of a size_t of a few bits,
  `realloc()` giving nothing, a little or everything at each, so one fails before, between and
  after others; blocks of 8 bytes with a length field of 2, so each remainder occurs;
  messages of three pieces; scrypt's blocks of 8 bits; a block counter of 4 values that carries into its second
  word; scrypt with N up to 8, r up to 3 and two lanes; every cleared r of Poly1305
  with extreme limbs; 509 being small, every u of 10 bits (reduced or not) with ten
  scalars, the points of low order and those of the twist among them; the addition
  chain modulo 17 primes whose product exceeds 2^260, hence exactly.

### Fairness

`FileOutput!FairSpec` is weak fairness of each session's next step: a call runs to
its end unless the session is killed, since no step waits for another. `Armor!FairSpec`
has weak fairness of `Next`: each call is one sequential program whose system calls
return, and the reader follows the writer. The others state no liveness and need none. Deadlock is checked in every
run; a finished call stutters explicitly.

## Proofs

Every theorem has the form `Spec => []Inv` unless stated, and holds for all values of
the constants that satisfy the assumptions named in the module it is about
(sizes are natural numbers, not 0 where the code divides by them or reserves them;
names of different kinds differ). Each rests on an inductive invariant `IInv`, which TLC has confirmed on the
instance of the run, and on one lemma for each action or group of actions.

**FileOutput_proofs**, for any sets of sessions and temporary names, any number of
writes and tries: `TypeCorrect`, `DestinationNeverPartial`, `TempsArePrivate`,
`LeavesNothing`; `NeverClobbers` (if `link()` fails only with EEXIST, `Spec => NoClobber`);
`Refinement` (under the same condition FileOutput implements AtomicOutput).
`NeverPartial` is not inductive: that what `Move` installs is whole and durable
depends on the history of the temporary. `IInv` adds, for each session, that its
temporary holds exactly what it wrote, that from fsync on this is everything and
after fsync all of it is durable, that a result is decided only on the way out,
and that only the fallback reaches `access` and `rename`; and that owners'
temporaries are distinct, so that no step of another session disturbs any of this
(`StepFrame`). `NoLeftoversInv` adds which descriptors can be open at each place and that
every temporary has an owner or is an orphan. The refinement maps a session to
"installed" once `ret` is "ok"; `StepRefines` shows each step to be an
installation, a failure or a stutter, `EnvRefines` does the environment.

**Binding_proofs**, for any size of the stream table, any identities, items and number
of calls: `StreamsAlwaysComeBack`, `ResultsAreOwn`, `MessagesAreOwn`, `NothingDangles`,
`LittleIsLost`, `ParsesAllOrNothing`. `StreamsInv` counts the streams in use, two for the running call and two for
each failure of `R_MakeUnwindCont`, and says what the two hold; `IdInv` ties the object, its pointer and its
finalizer; `CallInv` says what a call holds at each place. The counting uses
`FiniteSetTheorems`. Which keys a key file yields (`ParseItem`) does not matter to `IInv`;
`ParseInv`, preserved given `IInv`, says that the elements met so far are all usable and the
keys collected are theirs, in order, with room for them, and follows them into the object.
It needs `ParseNextIs`: an element is refused exactly if it is unusable, by
induction over the lines (`SoFar` up to the first NUL, `Over` after it).

**Payload_proofs**, for any chunk length, tag length, counter and length of the stream,
with any number of changes on the way: `NoncesAreUnique`, `OnlyAPrefix`, `OnlyTheStream`.
`Written` says that each byte of `plencrypt`'s stream is where its nonce says (so equal
nonces are equal places), `Read` that the chunks read so far are, byte for byte, the
stream of what has been released. For one direction of `OnlyTheStream` the last chunk completes this to
`Stream(rel)` (`AllRead`: the number of chunks is determined, `ChunksUnique`, because only the first chunk may be
empty); for the other, a stream of any data is shown to open at every chunk
(`StreamOpens`). `Genuine` gives the prefix: a chunk that opens under the nonce of chunk
`ctr` is chunk `ctr` of the plaintext. `OnlyTheStream` is about streams of at most `IntMax`
chunks (128 TiB), `Short`: beyond, the C `int i` overflows and the rule against
an empty last chunk no longer holds.

**Armor_proofs**, for any sizes of the buffers, the blocks, the lines and the pieces, any number of
calls and any short or failing reads and writes: `WritesEverything`, `WritesTheText`,
`SuccessIsWhole` of the writer; `RecordsWhatIsRead`, `MacIsOfTheHeader`, `PeekedByteIsRead`
(`Spec => PeekedByteIsThere`), `HandsOutInOrder`, `EndIsTheEnd` and `RefusedForCause` of
the reader; `TypesHold` and `ReadsBackWhatWasWritten` of both. The writer's invariant is `ObufInv`: there are numbers
`m <= p` such that what the descriptor has or is about to get (`Way`) is the text of
the first `m` bytes, the buffer holds bytes `m + 1` to `p`, fewer than fill it, and bwrite still
has to take the rest; while armored bytes are being given, `m` is a whole number of lines.
That last conjunct is what makes it inductive: lemmas about ArmorText show that the
encodings of two pieces join to that of the whole when the first ends at the end of
a line (`EncodeConcat`), and, by counting the bytes place by place, that the bytes in
an encoding are the bytes encoded (`BytesBetween`).

`ReaderInv` is the reader's invariant. `Bounds` has the cursors and what holds while `aread`
runs (the buffer is empty, and the room left in it is what it has not filled);
`Called` and `AtRest` say, for each phase of the caller, how much it has been given and
what a peek or a short read has left behind (after a peek that found a byte, `cur <
size` until it is read); `Recorded` says that record, consumed buffer and bytes
given agree, and in which cases `recstop` hands out a pointer to the buffer. The case that
needs care is a plain file: there the first read is the probe, shorter than
any header, so the header never lies whole in the first fill, a refill sets `alloc`,
and the pointer is to the record (`MacCoversHeader` has no exception for it).

`ContentInv` says what the reader does with the bytes, in terms of one sequence: `Flow`, what
has been handed out, then what the current operation has collected, then what the buffer and the
decoded block still hold. Only a `read()` changes it, and only at its end. For a plain file it is
what has been read of the file (`PlainInv`). For armor it is `Bytes(d)` for some `d`
(`ArmorInv`, `ReadTo`): the text is read in whole blocks (`OnBlock`), and a lemma says
of each block what it decodes to, whichever way the text goes on: whole lines, the END line at
any offset, or the place where a text was cut or continued (`BlockShows` for what
`base64decode` and `endcheck` are shown, `WholeBlock` and `CutArmor` for what they
make of it). What a phase of the caller has been given is a beginning of `Flow`; when a call
ends, `Ended` has the three properties. `Passed` ties the reader's input to the writer's text:
a writer that failed has left less than the armored text (`FailsShort`), because what
it gives up on is never empty, and what `OpenText` makes of the text is one
of the reader's inputs (`OpenedAs`).

**Header_proofs**, for any keys and costs, any number of identities, any length of
another program's header and any number of changes on the way: `ParserAcceptsTheFormat`,
`MatchTakesTheFirst`, `ScryptStandsAlone`, `ScryptWorkIsBounded`, `EveryRecipientDecrypts`.
`HInv` has one part for each question. `Format`: the lines read are the beginning of a
well-formed header at each place of `getstanza()`, and the last of them is of the kind
that leads to this place. `Counted`: `n` is 0 only before the first stanza, and with a count of 1 a scrypt
stanza is lines 1 and 2; from this and `NotAlone` follows `Alone`, and with
the check of the cost (`CostIs`: the cost in `s` is that of line 1) the bound on the work. `Chosen`: `found` and
the file key are those of the first stanza so far that an identity opens
(`MineIn`), as long as there is no scrypt stanza; it is `found`, which a scrypt stanza
sets as well, that makes the condition necessary. `Unchanged` and `Opens` follow a header that
nobody changes, up to a MAC that is refused because `data` is spoilt (`Refused`, `MacLine`): `ForKeys` and `ForPassphrase` describe what `makehdr()` can write,
`KeysNext` and `PassNext` which line of it the parser meets next; that the share made
for a recipient is never of low order (`KeyAssumption`; `x25519stanza()` checks) excludes
"zeroshare", and that encryption's costs are within decryption's bound (`CostAssumption`) "costtoolarge".

**Codecs_proofs**, for any line length that is a multiple of four. `EncodeIsExact`, `DecodeIsExact` and
`TextIsTaken` are about the operators alone: every sequence of bytes, every text. `Base64IsExact`
(`Spec => []Base64Exact`) is about the steps, for any set `Data` of sequences of bytes, any
characters put in and any number of changes. The invariant of the steps,
`CodecOK`, says no more than that the text is one of characters and the answer is the
decoder's; the rest is about the two functions. First the digits: `GroupOfBytes` and
`GroupOfSymbols` say what four symbols and three bytes have to do with each other, `WholeOfFilled` that bytes
survive the way to symbols and back, `FilledOfWhole` that symbols survive the other way exactly when they
are `Canonical` (the spare bits of the last are 0). Then the places: `Index(j, p)` counts the
characters up to the j-th that end no line, `Place(c, p)` is where the c-th of them stands, and
each undoes the other. `EncodesTo` is the invariant of the encoder's loop (after `i` bytes it has laid
`i + i \div 3` symbols, and holds the last byte), `DecodesTo` that of the decoder's: which bytes are out and
what is left in `next`, which the fourth symbol of a group does not clear; so a symbol alone in its
group is judged by what the third of the group before left (`LoneSymbolPasses`). Every text has a `Shape`:
the prefix the loop goes past and the symbols in it. `DecodeIs` gives the decoder's answer in terms of it,
and `TakesAccepts` and `AcceptsTaken` that this answer and `Accepts` agree, the
one by what the text may look like after the prefix, the other by finding the prefix in a text that is
accepted.

**Primitives_proofs**, for any size of a buffer, a block, a digest, a limb and an input:
`BuffersAreExact`, `HashIsExact`, `AeadIsExact`, `KdfIsExact`, and of Poly1305 alone `BlocksAreExact`, `TagsAreExact`.
Here the difficulty is in the data, not in the steps: a behaviour is one job,
`JobOK` says what its inputs are, and everything else is about operators.
A string is a sequence of some set (`IsStr`), because what the messages and
bytes are does not matter, and the library's facts about `\o`, `SubSeq` and `Append` are
restated for strings, place by place. `ewrap` is then `Wrapped` cut at the end of
the buffer, also when the inner message lies in it (what makes the order of its two
copies right), and the parts are added one by one under the fold. A sink's capacity is 0 or
`FirstCap * 2^k`, it is the room `realloc()` has given, and the bytes fit it (`SinkOK`). A write
(`Written`) succeeds exactly if the piece fits the capacity there is, or a number of that form below
`SizeVals` holds it and `realloc()` gives as much (`Holds`; the loop finds the least, `GoodCap`);
else bytes, capacity and room stay. `Sinks` says so of each write so far, so a sink in which one
has failed goes on as if that one had not been tried.

For the hash, `FilledTo(h, b, m, S, q, r)` is the invariant of every such buffer:
`h` is the first `q` blocks of the message `m`, and the first `r` bytes of `b` are the rest of it.
`sha256update` keeps it (`UpdateStreams`), in each of its three branches and whatever
follows byte `r` in the buffer; `pad` completes it with one block or with two, and the number of zeros
is the one number that FIPS 180's condition leaves (`PadLength`). So the digest of the
pieces is that of the whole, and HMAC and HKDF follow. `poly_block` is compared with the
product modulo 4 * Limb^2 - 5 (`SplitProduct`, `ReducedIs`): its wide sums stay below Limb^2 because
`r` is cleared (`BlockSums`), and the number the carries drop is a multiple of the modulus.
`poly_sum` subtracts the modulus when `h` is at or above it.

`poly1305_update` keeps the same `FilledTo` (`Macs`), so a tag is a function of its key and of the
blocks of what RFC 8439 says it covers (`LockIs`). The reader refuses because the model's tag tells both (`TagTells`):
the theorem is about which bytes and which key go into the tag, that it is compared whole and before
anything is written, and not about Poly1305's strength. From the blocks follow
the bytes (`BlocksTell`), from the size field one byte more of data (`DataRefused`), and a text that was cut
ends in bytes of the cipher, which are no tag (`EndRefused`). The cipher is that of the RFC as long
as the counter does not wrap in its high word; `PrimitivesAssumption` says so of the
sizes of the texts (a chunk of 64 KiB takes 2^10 of 2^64 blocks).

For PBKDF2, a copied HMAC context has filled its blocks as the one it was copied from, so each U is
the HMAC of the one before and `ti` after `n` iterations is the sum of the U, byte by byte; the
pieces, all of a digest but the last, lie end to end in what is derived. In `chunkmix`, after `i` blocks
`x` is Y[i] of RFC 7914, `half` is `r` or 0 by the parity of `i`, and the places of the even and of the odd
blocks so far are filled; after all of them nothing of the old `bout` is left, which is why the next
lane may be mixed in the `v` and `y` of the one before: of those, only the number of
chunks and their lengths matter (`ShapedAll`). `romix` then goes along V, and two turns of X at a time, whence the
even cost; the model takes the remainder by `n` where the code masks with `n - 1`, which is
the same for the powers of two that `scrypt()` is called with.

**NatFacts**: the least element of a set of numbers, induction for a given set, quotients,
remainders and multiples; and how `FoldLeft` and recursive functions are computed, step by step
(`FoldRuns`, `IterateExists`), with functions in the place of operators.

Only model-checked: every liveness property (`Returns`, `Ends`); `KeyTextExact`, which says of the
checksum of a fixed polynomial what distance it has, a matter of enumeration; `RoundsExact`, which compares with
constants; `CurveExact`, where 509 is prime by computation and the group law of the
curve would have to be proved first.
(Induction for a property that is given as an operator is not available to the provers; over
numbers, for a set, it is, as in NatFacts.)

## Not modelled

* That the accumulators of the curve arithmetic fit an `int64` and the carried limbs
  an `int32` at the real size (curve25519.c:155-264 argues it): Curve25519 has
  unbounded integers, and TLC cannot enumerate 26-bit limbs.
* Constant time and wiping, which leave no trace in a result.
* The allocations inside `scrypt()`; that it may fail for want of memory is an outcome of
  Header ("nomemory"), but not that its first allocation is leaked when the second fails
  (scrypt.c:263).
* Whether a random byte is random; `agerandom` may only fail.
* Characters within a header line, which Header classifies as `parse.c` does.
* Windows branches, each one system call with an outcome that is modelled.
* `plinit` to `plpeek` (payload.c:149-252), `efmt` and `xprogname` (util.c:43-94),
  which nothing calls.
* The R argument checks and conditions, which keep no state; the table of
  `init.c`; the fuzzing programs.
* Calls from several threads or from a callback, which the comment at binding.c:4
  forbids.

## Plan

Done, in this order: AtomicOutput and FileOutput with proofs, Ibuf, Obuf, Payload,
Header, Binding, Armor, Base64 and Bech32, Buffers, the primitives; the proofs about
FileOutput, Binding, Payload, Obuf, Armor and Header, all of their safety properties;
those about the buffers, hashing, Poly1305 and what is sealed with it, the key
derivation, and Base64.

Next theorems: Layout and Curve25519: one carry keeps the value
and bounds the limb, at any width.

Next models: Header and Payload composed behind one abstract specification, "the
sender's plaintext, a prefix of it and an error, or an error".
