# Specifications of Swift Sodium in TLA+

This directory models Swift Sodium and the libsodium it carries in
`Sources/Clibsodium`. The parts that keep state are a specification each: the
secret stream, the initialisation of the library, its two random generators, its
guarded memory and the buffers of its hash functions. The functions that keep
none (boxes and AEADs, byte arithmetic, codecs, key streams, the curve from its
limbs to its signatures, AES-GCM) are translated and compared with what defines
their answers. TLC checks all of them on small instances. The properties of the
parts that keep state, and of boxes, key exchange, padding and byte arithmetic,
are also proved, with TLAPS, for every value of the constants. Paths below are
relative to the root of the repository, and C files to `Sources/Clibsodium`.

- [The system](#the-system): inventory of the components
- [The modules](#the-modules): how each corresponds to the code
- [The runs](#the-runs): what is checked, with which bounds, and what it shows
- [Fairness](#fairness)
- [What the code does otherwise than it
  says](#what-the-code-does-otherwise-than-it-says)
- [The proofs](#the-proofs)
- [What is not modelled](#what-is-not-modelled)
- [Plan](#plan)
- [Running it](#running-it)

## The system

A Swift program sees generic value types, `SecretBox<Cipher>` and
`SecretStream<Cipher>`, whose ciphers call the C functions of libsodium. The C
functions are also a product of the package (`Clibsodium`), so a peer, or
another part of the same program, may call any of them directly.

| component | state | operations | hard behaviours | correct when |
|---|---|---|---|---|
| **Secret stream**: `SecretStream.swift`, `SecretStreamXChaCha20Poly1305.swift`, `crypto_secretstream/` | key, 4-byte counter, 8-byte inonce, per end | open for pushing or pulling, push, pull, rekey | frames lost, repeated, reordered, altered or from another session; counter wrap; a pull that fails half way; tags only C knows | the receiver accepts a beginning of what was pushed; no key meets a counter twice; both ends stay in step |
| **Initialisation and misuse**: `Sodium.swift`, `sodium/core.c` | mutex, flag, `initialized`, handler, implementation pointers | `sodium_init`, `sodium_set_misuse_handler`, `sodium_misuse`, the critical section | threads in any order; a misuse that breaks into the section; handlers that call back | who is told 0 or 1 finds everything set up; the section excludes; calls end |
| **Implementation dispatch**: `crypto_onetimeauth_poly1305.c` and seven like it | a pointer each, shared, without a lock | pick at initialisation, read at every call | a pick in the middle of a multi-part computation | a computation is finished by the implementation that began it |
| **System generator**: `randombytes.c`, `randombytes_sysrandom.c` (the default) | pointer to the generator; descriptor, two flags, shared, without a lock | stir, buf, random, close | first uses that meet; a close beside a draw; descriptor numbers that come back | random bytes or a stop; no file of the program is read or closed |
| **Internal generator**: `randombytes_internal_random.c` | per thread: key, nonce, pool; per process: flags and process id | stir, buf, random, close | first uses that meet; fork; threads of the child | streams in use are seeded; no block or word comes out twice |
| **Guarded memory**: `sodium/utils.c` | page size, canary, the pages themselves | malloc, allocarray, mprotect, free | sizes around a page and around `SIZE_MAX`; refused mprotects; calls before initialisation | a region ends at a guard page; free finds it, checks it, wipes it |
| **Secret box, boxes, AEAD**: `SodiumSecretBox/`, `crypto_secretbox/`, `crypto_box/`, `crypto_aead/` | none between calls | seal, open, detached or not | overlapping buffers; the block the Poly1305 key and the message share; lengths below a tag | open undoes seal wherever the buffers lie, and writes nothing of a forgery |
| **Key exchange**: `crypto_kx/` | none | keys of client and server | a caller that wants one key of two | what one sends with the other receives with |
| **Codecs**: `sodium/codecs.c`, `Sodium+DataProtocol_Base64.swift` | none | hex and Base64, both ways | ignored characters, padding, output limits, the capacity Swift computes | decoding undoes encoding, and takes nothing else, but letters of either case in hex |
| **Byte arithmetic and padding**: `sodium/utils.c`, `verify.c` | none | increment, add, sub, compare, is_zero, pad, unpad | carries, zero, block limits | agrees with integers, and with the definition of padding |
| **Hash and MAC buffering**: sha256, sha512, blake2b, poly1305 | block buffer, fill level, counters | init, update, final | a message in any division into chunks | absorbs the blocks of the whole message |
| **Stream ciphers**: `crypto_stream/` | none between calls | stream, xor from a block on, subkeys | block counters at 2^32 and 2^64; stages of eight, four, one and part of a block in vectors and assembly | consecutive blocks, each once, whichever implementation |
| **AES-256-GCM**: `crypto_aead/aes256gcm/` | none between calls | seal, open, verify | stages of many, four, two and one block; powers of H; reflected bits; a counter of 32 bits | what the standard defines, on both processors |
| **Password hashing** (argon2, scrypt) | memory of one call | hash, string, verify, needs rehash | order of filling, windows of earlier blocks; allocations that fail half way; strings taken apart | fills as RFC 9106 says, whichever implementation; one string for a password; gives memory back once |
| **Field and scalars**: `fe_51/`, `fe_25_5/`, `sc25519_*` | none | ring operations, reduction, bytes | limbs beyond their width; carries; values at 0, p, 2p and L | the ring modulo p and L, one form for a value |
| **Points and encodings**: `ed25519_ref10.c`, `core_ed25519.c`, `core_ristretto255.c` | none | sums, multiples, encoding, maps from strings | equal, opposite and small-order points; signed digits; more than one string for a point | the group, and one string for a point |
| **Signatures and exchange**: `crypto_sign/ed25519/`, `crypto_scalarmult/`, `crypto_kx/` | that of the hash for ed25519ph | one-shot, or init/update/final | malleable strings; order of hashing; keys of small order | made with the key, of that message |
| **Short hashes, KDF, HMAC, verification** | that of the hash | one-shot or init/update/final | as hash buffering | as hash buffering |
| **Processor features**: `sodium/runtime.c` | flags, written in `sodium_init` | read | none of their own | as dispatch |
| **Swift values**: `DataSize`, `SymmetricKey`, `Sodium.Data`, `Sodium.Error` | the value | conversions | sizes kept as bits in 16 bits | round trip or trap |
| **Compatibility products**, **assembly and vector code** | none | | | compute what the reference code computes |

How they meet. `Sodium.initialize` (Swift) is `sodium_init`; under the critical
section it stirs the random generator, initialises guarded memory (page size and
canary) and picks implementations. Everything else reads what it has written,
without the lock. `SecretStream.init(key:)` draws a key, as its default argument
and so before it initialises the library, and a header from `randombytes_buf`;
`SecretStream.init(key:header:)` never initialises it. Wherever a precondition
fails, `sodium_misuse` leaves the critical section, whether or not its caller is
in it, enters it again, calls the application's handler and aborts. `SecretBox`,
`crypto_box` and the AEADs are made of a key stream and Poly1305; signatures and
exchange of points, these of scalars and field elements, these of limbs.

The hazards of each part, with the lines they are at and the properties that
would catch them, are the `hazards` of `PROJECT.json`.

## The modules

| module | models | extends or instantiates |
|---|---|---|
| `OrderedChannel` | abstract: what the two ends of a secret stream are promised | |
| `SecretStream` | the secret stream, both ends and the wire | instantiates `OrderedChannel` |
| `MCSecretStream` | symmetry for TLC | `SecretStream` |
| `SecretStreamProofs` | proofs about `SecretStream` | `SecretStream` |
| `SodiumCore` | initialisation, section, misuse, dispatch of Poly1305 | |
| `SodiumCoreProofs` | proofs about `SodiumCore` | `SodiumCore` |
| `SysRandom` | the default generator and the descriptors of the process | |
| `SysRandomProofs` | proofs about `SysRandom` | `SysRandom` |
| `InternalRandom` | the internal generator in a parent and its child | |
| `MCInternalRandom` | symmetry for TLC | `InternalRandom` |
| `InternalRandomProofs` | proofs about `InternalRandom` | `InternalRandom` |
| `GuardedHeap` | guarded memory, byte by byte | |
| `GuardedHeapProofs` | proofs about `GuardedHeap` | `GuardedHeap` |
| `Digest` | abstract: a digest is one of the message, however divided | |
| `BlockBuffer` | init, update and final of SHA-256, SHA-512, BLAKE2b and Poly1305 | instantiates `Digest` |
| `MCBlockBuffer` | BLAKE2b's key for TLC | `BlockBuffer` |
| `BlockBufferProofs` | proofs about `BlockBuffer` | `BlockBuffer` |
| `Calls` | a call of a function that keeps no state: ask, answer, return | |
| `Boxes` | secret boxes, boxes, sealed boxes, AEADs, the Swift `SecretBox`, key exchange | `Calls` |
| `Bytes` | arithmetic and comparison of byte strings, padding, `DataSize` | `Calls` |
| `Codecs` | hexadecimal and Base64 | `Calls` |
| `Streams` | the key streams of ChaCha20 and Salsa20 in every implementation | `Calls` |
| `Limbs` | numbers of many limbs | |
| `FieldElement` | fe25519 in both representations | `Calls`, `Limbs` |
| `Scalar25519` | scalars modulo the order of the group | `Calls`, `Limbs` |
| `Chains` | inversion, square roots and [L]P at their real size | `Calls` |
| `Points` | representations, sums and multiples of points | `Calls` |
| `Encodings` | ed25519 and ristretto255 strings, maps to points | `Points` |
| `Signatures` | Ed25519 signatures, X25519 and conversions | `Encodings` |
| `Gcm` | AES-256-GCM on both processors | `Calls` |
| `Argon2` | argon2i and argon2id: one hash, from its checks to the mixing of a block | `Calls` |
| `Passwords` | `crypto_pwhash` and its strings | `Argon2`, `Codecs` |
| `MCFunctions` | the inputs TLC tries | all modules with `Calls` |
| `BoxesProofs` | proofs about `Boxes` | `Boxes` |
| `FunctionProofs` | proofs about byte arithmetic, padding and other functions | `BoxesProofs`, `Bytes`, `Limbs`, `Argon2` |

`PROJECT.json` (`map`) gives the lines of code behind every definition.
Definitions marked *Mutant* are not part of a model: each is a definition of the
model changed as a plausible mistake in the code would change it, and breaks the
property named beside it in `PROJECT.json` (`mutants`).

### SecretStream

`tx` and `rx` are the two `crypto_secretstream_xchacha20poly1305_state`s.
`OpenPush` and `OpenPull` are the initialisers of `SecretStream`; `Push` and
`PullAccepted` / `PullRejected` are `push` and `pull`, with the Swift code
around the C functions; `RekeyTx` and `RekeyRx` are the explicit rekeying, which
only the C product exports. `PullShort` and `TooLong` are the two ways in which
a call ends the process. `log` and `acc` are history: what was pushed in each
session and what the receiver has accepted.

*Ideal cryptography.* A key is named by its root (the key and header the stream
was opened with) and the rekeyings since, the MAC of a frame by the frame's
place in its session, and an inonce by the set of MACs XORed into it. A frame
opens under the state it was sealed under, with its own additional data and
unaltered. That different histories give different keys, and different MACs
different inonces, is the assumption on the primitives under which everything
below is said.

*The wire* is the environment at its worst: a receiver may be handed any frame
of any session, at any time, any number of times, altered or not, with any
additional data. A root may not be used by two senders (the header is drawn at
random). One stream object exists per session: copies of the Swift value, which
would share a keystream, are outside the model.

### SodiumCore

One action per step between which another thread may run: lock, mark
(`assert(locked == 0); locked = 1`), the test, clear and unlock of
`sodium_crit_leave`, and the parts of `sodium_init`. `call` and `pc` say where a
thread is. `sodium_misuse` is entered from inside the section (`MisuseInside`,
in the stir or the memory initialisation) or from outside it (`CallMisuse`).
POSIX does not define unlocking a mutex that another thread holds, so
`LeaveUnlock` does either of what platforms do: release it or refuse. `MacInit`,
`MacUpdate` and `MacFinal` are Poly1305's, through the shared pointer. `misused`
and `refused` record that a misuse came from outside and that an unlock was
refused.

### SysRandom

Each load, store and system call is a step, taken to be atomic and in program
order (the code's shared variables are plain, so this is an assumption on the
build). `kernel` chooses between Linux with `getrandom` and a platform that
reads `/dev/urandom`, which is what the package builds on Apple platforms.
`table` is the descriptor table, from which the kernel gives the lowest free
number, and `OpenFile` and `CloseFile` are the rest of the program.
`randombytes_sysrandom` (the function) is a `buf` of four bytes. `stormed`,
`raced` and `crowded` record that a close ran beside another call, that two
threads were opening at once, and that the table was full.

### InternalRandom

The build for Linux. `stream[c]` is the thread-local generator of context `c`, a
thread of the parent or of the child; `global[p]` the flags its process shares.
`Fork` copies both. ChaCha20 is ideal: a key is its seed and what has been drawn
since, so a block that appears twice comes from one key and nonce. The clock in
the nonce is left out: a property may then not rest on it. `overlapped` records
that two threads were in the first initialisation at once, `masked` that another
thread of a child stirred while the thread the fork had made still had its
parent's stream.

### GuardedHeap

Pages, protections and bytes, the number stored in the first page of an
allocation, and `size_t` modulo `SIZE_MAX + 1`. `Malloc`, `AllocArray`,
`Mprotect` and `Free` are the functions, found from the pointer alone as in the
code; `Fill`, `Underflow` and `Overflow` are the application. A handler is one
step, since it touches the pages of one allocation; allocation before
`sodium_init` is only possible in the run for it (`BeforeInit`).

### BlockBuffer

The buffers of the reference implementations, each with its own way of knowing
how full it is. The compression functions are abstract: `fed` is the bytes they
were given and `marks` what else they are given with each block (BLAKE2b's
counter and last-block flag, Poly1305's flag for a short block). An update is
one action, but for BLAKE2b's, whose loop `BlakeLoop` makes an iteration at a
time; a call with a key begins with the block `init_key` absorbs. `Digest` says
what is to be compressed from the whole message alone. The refinement mapping
reads the message off the state: the bytes compressed, those in the buffer, and
those still to come. Applications are taken to begin anew after a final; only
BLAKE2b's final refuses to be called again (`BlakeRefuse`). Each word of SHA-2's
length is one byte here.

### Calls, and the modules of functions

Two calls of a function that keeps no state and shares none cannot disturb each
other, so there is one call at a time: `AskX` chooses a function of module X and
its arguments, an action per function answers, `Return` goes on. `MCFunctions`
puts all of them into one specification, so that TLC's coverage tells whether
every function was called. A property compares the answer with a definition of
what it should be that is not the code's: integers for limbs, the group for
coordinates, the standard for GCM.

What is exact is the control: loops, stages, carries, masks, lengths, the order
of reads and writes, early returns. What is scaled is the data: a word, a limb
or a field has fewer bits than in the library, and the operators take the width
as a constant wherever the code has a literal that depends on it.

### Boxes

Memory is a function from addresses to bytes, and a byte the set of what was
XORed into it, so that two encryptions of one byte, or one key stream byte under
two bytes, show. Lengths are in units of half a tag: a tag is two units, a block
of key stream eight, of which the first four are the Poly1305 key. Ciphers and
tags are ideal. `m`, `c` and the tag lie anywhere in memory, overlapping or not,
except where the code requires otherwise (the AEADs ask for the same place or
none in common).

### Bytes, Codecs

A byte has `Radix` values in `Bytes`, where the carry is what matters, and 256
in `Codecs`, where characters are. The masks that replace branches are written
as the code writes them, with their unsigned wraps, not as the comparison they
stand for. `increment` and `add` have both of their forms, bytes and the words
that the assembly works on at lengths 8, 12, 24 and 64. The Swift part is
`DataSize`, which keeps bits in 16 bits and traps from 8192 bytes on, and the
capacity `init(base64Encoded:)` allots.

### Streams

Addition, XOR and rotation of words are constants without meaning (`Plus`,
`Mix`, `Rotl`): implementations that agree for three operations unlike each
other do the same to the same words in the same order. The lanes, shuffles,
unpacks, transpositions and counters of the vector code are translated. A
counter word has 256 values and a length is in words, of which a block has 16,
so a stream of 217 words passes through the stage of eight blocks, the one of
four, the one of one and part of a block, and crosses the carry of the counter.
Numbers of rounds are constants; the loops are per double round.

### FieldElement, Scalar25519, Limbs

The sums of products, carries and final subtractions, limb by limb, for limbs of
11 bits (fe_51), 6 and 5 in turn (fe_25_5) and 6 (scalars), so that products
stay within TLC's integers, with the constant 3 in the place of 19 and another
modulus in the form of L. Equality modulo p or L is equality modulo their prime
factors. What bytes become limbs, and limbs bytes, is a placement of bits and
is modelled at its full size of 51, 26, 25 and 21 bits.

### Chains, Points, Encodings, Signatures

What the chains of squarings compute is an exponent, and `Chains` has them at
their real length: an exponent of 255 bits is kept as its residues modulo nine
primes whose product exceeds it. The other modules work on the curve
-x^2 + y^2 = 1 + 40 x^2 y^2 modulo 61, which has what matters of edwards25519:
61 is 5 modulo 8, -1 is a square and d is none, there are 8 * 7 points and the
group is cyclic, so there are points of every small order and strings of every
kind: canonical, not canonical, with a wrong sign, of no point. Representations
(P2, P3, P1P1, precomputed, cached), the tables, the choice without a branch,
the recoding of scalars into signed digits and the loops are the code's; a
scalar has 4 digits of base 16 and not 64. `Hash` is any function; TLC takes one
that gives small order points, zero and wraps their chance.

### Gcm

A register is the set of its bits. Halves have 12 bits and not 64, a byte has 6
and a block 4 bytes, the last of which is the counter; the field is that of
x^24 + x^4 + x^3 + x + 1, and `P64` the constant of its reduction, as
0xc200000000000000 is of GHASH's. `PARALLEL_BLOCKS` has its real values, 7 and
6. The block cipher is open (`Aes`), and so is what the key schedule does to
bytes; the order of words and round keys is exact. The two files differ in the
instructions and in `PARALLEL_BLOCKS`, which is the argument `impl`.

### Argon2, Passwords

Three levels, each with what is below it open. A block is mixed from 128 words
with `BlaMka`, `XorWord` and `RotrWord` without meaning, as in `Streams`: the
registers, blends, permutations and swaps of the three vector files are
translated, and `MixRef` is the reference. Memory is filled with blocks that are
values: `Compress` of two blocks, the fill order of `argon2_fill_memory_blocks`
and `FillSegment`, and `index_alpha` with its window of blocks to choose from;
`WordOf` gives the two halves of a word, the first of `RandBits` bits.
`blake2b_long` chains hashes of `BLAKE_MAX` bytes.

`Passwords` has the functions of `crypto_pwhash` above them. A password is a
length and a value; salt and tag are their bytes, which is what the strings are
made of. A string is a sequence of tokens: texts such as `$argon2` and `,t=`,
digits, and single characters of data. `decode_decimal`, the order of the pieces
and the room each needs are exact, and data goes through `sodium_bin2base64` and
`sodium_base642bin` of `Codecs`: `BIN` hands the decoder all that follows and
goes on where it stopped. `SS` fails where a text has no room; `SB` calls
`sodium_bin2base64`, for which that is a misuse. A numeral above `ULONG_MAX` is
refused. `heap` counts the allocations asked for and knows which one fails; what
is allocated and given back, and by whom, is the code's.

## The runs

| run | configuration | expects |
|---|---|---|
| `secret_stream` | `SecretStream.cfg` | pass |
| `sodium_core` | `SodiumCore.cfg` | pass |
| `mac_before_init` | `MacBeforeInit.cfg` | violation |
| `sys_random` | `SysRandom.cfg` | pass |
| `internal_random` | `InternalRandom.cfg` | pass |
| `stir_without_getentropy` | `InternalRandomDevice.cfg` | violation |
| `guarded_heap` | `GuardedHeap.cfg` | pass |
| `heap_before_init` | `GuardedHeapEarly.cfg` | violation |
| `block_buffer` | `BlockBuffer.cfg` | pass |
| `functions` | `MCFunctions.cfg` | pass |
| `base64_signed_char` | `Base64SignedChar.cfg` | violation |
| `gcm_message_max` | `GcmMessageMax.cfg` | violation |

**`secret_stream`** (319 thousand states). `AcceptedInOrder`: what a receiver
accepted is a beginning of what its session pushed. `CounterUniquePerKey`: no
two frames share key and counter. `RekeyRetiresKey`: a frame tagged rekey or
final is its key's last. `InStep`: a receiver that makes the explicit rekeyings
at the same places can always open the next frame; a rejected frame or an
unknown tag does not lose it. `ChannelSpec`: the stream implements
`OrderedChannel`. Bounds: two sessions and two additional data, to mix up;
counters modulo 3, so that one wraps within the three frames pushed (a counter
starts at one); a tag that rekeys, one that does not, and one that Swift does
not know; one explicit rekeying per end. A fourth frame adds no new kind of
neighbourhood between frames: each compares with a state that differs in root,
rekeyings, inonce or counter, and all four kinds of difference occur.

**`sodium_core`** (29 thousand states). `ReadyWhenTold`: whatever a misuse does
to the section, a thread told 0 or 1 finds the library set up, and -1 (Swift's
`cannotInitialize`) comes only after a misuse outside the section.
`SectionExcludes`: the variables have their types, and while misuse comes only
from inside, the section excludes, its flag and owner agree, and the assertion
holds.
`NoMixedMac`: threads that compute MACs only after they initialised never mix
implementations, unless a misuse from outside let a second initialisation in.
`EveryCallEnds`: liveness. Bounds: two threads; each may call everything any
number of times, and there is one mutex and one flag to compete for.

**`sys_random`** (371 thousand states). `GetrandomSuffices`: with `getrandom`
nothing threads do makes a draw fail or return other bytes. `DeviceServes`: with
the device the same is true, until a close runs beside another call or the table
is full. `InitializedIsOpen`: a stream standing initialised has an open source.
`NothingLeaks`: only first uses that meet leave a device open. Bounds: two
threads and three descriptors: both may leak one, or one be taken by a file in
between.

**`internal_random`** (4.2 million states). `SeededWhenOn`: with `getentropy`, a
stream in use is seeded, unless first uses overlapped. `BlockOnce` and
`WordOnce`: no block is generated and no word handed out twice by parent and
child together, unless first uses overlapped or the fork was masked; the words a
child pops off the pool it was born with, which the code does not guard
(`randombytes_internal_random.c:606`), are excepted by name. Bounds: two threads
in each process but three in all, so that a child has a sibling or a parent has
one; two seeds; pools of two words; three draws, enough to fill a pool, empty it
and refill it.

**`guarded_heap`**. `GuardsStand`: an allocation lies within its pages and ends
at one of no access. `FreeFindsAll`: mapped pages are exactly those of live
allocations. `CanaryTells`: an allocation with an overwritten canary is never
freed, and no other stops the process so. `NothingLeft`: nothing the application
stored is in memory it gave back. Bounds: pages of 4 bytes and a canary of 3, so
that sizes 0, 1 and 2 fall before, on and behind the page limit with the canary;
`size_t` of six bits, with sizes 46 and 62 at the limits of the test at
`utils.c:604` and counts whose products wrap; two allocations; one refused
mprotect.

**`block_buffer`** (48 thousand states). `DigestSpec`: the four functions
implement `Digest`; what is compressed does not depend on how the message was
divided. `CountTells`: the words for the length say the length, through carry
and wrap, and BLAKE2b's counter the bytes compressed. `LastBlockHeld`: BLAKE2b
never compresses what may be the last block. Bounds: blocks of three bytes and
messages of up to ten, in every division: every fill level meets every length of
chunk, one chunk fills BLAKE2b's two blocks twice over, SHA-2's padding takes
one block and two, and the lower word of the length, modulo six, wraps.

**`functions`** (196 thousand states). Every function of the modules with
`Calls` on the inputs of `MCFunctions`:

- `SealedWhole`, `OpenedWhole`: lengths on both sides of a block and of the
  half of it the Poly1305 key takes, buffers at four places, hence disjoint,
  identical and overlapping either way; boxes altered in each part or cut short.
  `PairedKeys`: both buffers, either one, and peers of small order.
- `NumbersHold`: all strings of smallest, small and largest bytes up to three
  bytes, and patterns of six and sixteen for the words; `PaddingComesOff`: all
  messages of up to three bytes over zero, the barrier and another byte, block
  sizes 0 to 4 (powers of two and not), room for the padding or less, and
  lengths at the limit of `size_t`; Swift's sizes at the limit of its 16 bits.
- `CodecsInverse`: every byte alone, extremes for each place in a group, texts
  of up to seven characters with ignored characters, digits, padding and
  characters next to the alphabet, in and beyond the capacity. What is decoded
  is what encoding it gives, ignored characters and the case of hex digits
  apart. A failure returns no bytes, with one exception: where the end is not
  asked for and characters are left over, and nothing else is wrong, the bytes
  before them are reported along with -1. `char` is signed in this run, as on x86
  and on Apple's ARM; there a byte of 128 or more is taken for the last character
  of the alphabet (`Seen`), which is the exception that `base64_signed_char` is
  about.
- `KeystreamInOrder`: lengths that reach every stage, first blocks at the carry
  of one counter word into the next.
- `FieldHolds`, `ScalarRing`: limbs empty, full and over their width in every
  pattern; values at 0, p, L and either side of them, and at 2p for five limbs
  (ten are not to be reduced beyond p or -p). `ChainsRight`: five chains, no
  input.
- `MultiplesRight`: every pair of points for the sums; scalars with all digits
  8, 15 or 7 in a row, and at 2^15 and the order. `EncodingsUnique`: all strings
  of field width and sign. `KeysBind`: keys, signatures and halves of them from
  sets that hold the genuine, the small-order and the malleable one.
- `GcmStandard`: lengths at the limits of every stage for both processors,
  additional data likewise, in place and not, a changed byte in each part, and
  lengths from the last that is sealed (61 blocks, of 2^6 counters) to those
  whose counter would wrap (63). Of 62 blocks, whose counters are just enough,
  it is only said that nothing but the standard's answer or a refusal comes
  back; `gcm_message_max` is about these.
- `Argon2Standard`: pairs of blocks whose words differ, mixed by the four
  implementations; memory costs of 8 to 35 blocks, so that segments of two and
  more blocks meet memory that is no multiple of four lanes' worth; one and two
  lanes, one to three passes (the second overwrites, the third overwrites what
  was overwritten), both types, the addresses of more than one block of them;
  hashes of 1 to 13 bytes where BLAKE2b ends at 4. The answer is compared with
  the formulas of RFC 9106.
- `PasswordsVerify`: each limit, length and algorithm on either side of its
  range; each allocation failing in turn; strings as made, with another
  password, without a version, and with a token missing, doubled, changed or
  added in every place before the data, at the ends of salt and tag, and where
  the salt has a '/'; every room for a string from 0 to `STRBYTES`; numerals of
  digits 0, 1 and 9 up to three places, and all of four digits below 6, where
  `ULONG_MAX` is 1234: some overflow at each of the two tests, some begin with
  zero. As `char` is signed, the decoder takes every byte from 128 on for a
  '/' (`Slashed`), and the strings so changed are the only further ones of a value
  that the property allows; with `SignedChar = FALSE` it allows none.

Conditions such as `~stormed` are part of these properties on purpose: the code
does not promise more, and the runs that drop the condition find the exception
within a few steps. They are set by the calls that applications make, never by a
failure itself, so that a property holds or fails on all the behaviours without
that call.

## Fairness

Only `EveryCallEnds` is a liveness property. It assumes weak fairness of the
steps inside a call, since the operating system runs every thread, and strong
fairness of taking the mutex, since a thread that waits for one that is released
again and again gets it in the end. Nothing obliges a thread to call anything.
The property is stated of behaviours in which no handler calls back into the
library and no unlock is refused; in both cases the thread, or the next one,
waits for ever, as the code of the section says. `ChannelSpec` has no fairness:
a wire may lose every frame.

## What the code does otherwise than it says

Each is a run in which TLC finds the stated property violated, with a trace.

- `mac_before_init`: "Other functions are always thread-safe"
  (`include/sodium/crypto_box.h:5-8`). A MAC in progress while another thread is
  in `sodium_init` is finished by another implementation than the one that began
  it. `SecretStream.init(key:header:)`, which does not initialise the library,
  is such a use.
- `stir_without_getentropy`: "(Re)seed the generator using the entropy source"
  (`randombytes_internal_random.c:400`). Where `getentropy` does not work, the
  Linux build opens a device, never reads it and leaves the key as it was.
- `base64_signed_char`: the macros of `codecs.c` "work over values in the 0..255
  range" (`codecs.c:107-108`), and `sodium_base642bin` hands them a
  `char`. Where `char` is signed, every byte of 128 or more is taken for the
  last character of the alphabet: text that is not Base64 is decoded. So it is in
  the string of a password, whose data is to be "Base64-encoded data (no '='
  padding characters, no newline or whitespace)" (`argon2-encoding.c:79-80`): with
  a byte of 128 or more for a '/' it still verifies (`StringsRead`).
- `gcm_message_max`: `crypto_aead_aes256gcm_MESSAGEBYTES_MAX` allows 2^32 - 2
  blocks (`include/sodium/crypto_aead_aes256gcm.h:53-55`), for which the counters
  are enough, and `required_blocks` (`aead_aes256gcm_aesni.c:391`,
  `aead_aes256gcm_armcrypto.c:417`) refuses them.
- `heap_before_init`: the assertion at the end of `_sodium_malloc`
  (`sodium/utils.c:630`). Before `sodium_init` the page size is taken to be 64
  KiB, and rounding the pointer by that does not lead back to pages that `mmap`
  aligned to less.

Seen and without a run of their own, since a passing property states what the
code does, no line of the repository says otherwise, or the difference is a
constant:

- `sodium_crit_enter` asserts `locked == 0` (`sodium/core.c:122`). A misuse
  outside the section clears the flag and unlocks the mutex of whoever is inside;
  where that releases the mutex, the assertion can fail in a thread that did
  nothing wrong, and the process, which was to end in the misuse handler, ends
  there (`SectionExcludes` promises the assertion only before such a misuse).
- The format of a password's string has the version as optional,
  `$argon2<T>[$v=<num>]$m=<num>` (`argon2-encoding.c:76`), and
  `argon2_decode_string` refuses a string without one (line 171): `StringsRead`
  holds of the strings without a version (`Unversioned`) since none is read.
- `include/sodium/utils.h` says that memory is filled with 0xd0, and
  `GARBAGE_VALUE` (`sodium/utils.c:67`) is 0xdb.
- `ge25519_is_on_main_subgroup` (`ed25519_ref10.c:1031-1039`) tests only the X of
  [L]P, which is 0 for the point of order 2 as well: it lets points of order 2L
  pass. `Ed25519Encodings` and `ExchangeAgrees` state what it does.
- `encrypt_afternm` of AES-GCM stores a length also when it refuses
  (`aead_aes256gcm_aesni.c:828-830`), the function without `afternm` stores 0.
- `argon2_encode_string` "returns 0" where the buffer is too small, by its
  comment (`argon2-encoding.c:231-233`). It returns `ARGON2_ENCODING_FAIL`, or
  ends the program where it is data that does not fit (`RoomForStrings`);
  `crypto_pwhash` always gives it room.
- `SecretStream.init(key:header:)` and `init(base64Encoded:)` of unpadded text
  whose last group is incomplete: the first does not initialise the library, the
  second allots `count / 4 * 3` bytes, too few, and throws (`SwiftTakesBack`).

## The proofs

Every state machine of the project has a module of proofs, the boxes have one,
and the other functions share one. A theorem about a state machine is about its `Spec`, and all hold for
every value of the constants: any set of threads, roots or tag bytes, any size
of a page, block, pool or counter, any bound on lengths and numbers of calls.

| module | theorem | property |
|---|---|---|
| `SecretStreamProofs` | `TypeCorrect` | `TypeOK` |
| | `InOrder` | `AcceptedInOrder` |
| | `CounterUnique` | `CounterUniquePerKey` |
| | `KeyRetired` | `RekeyRetiresKey` |
| | `Refinement` | `ChannelSpec` |
| | `StaysInStep` | `InStep` |
| `SodiumCoreProofs` | `Ready` | `ReadyWhenTold` |
| | `Exclusion` | `SectionExcludes` |
| | `NoMixing` | `NoMixedMac`, if `~MacBeforeInit` |
| `SysRandomProofs` | `GetrandomSafe` | `GetrandomSuffices` |
| | `DeviceSafe` | `DeviceServes` |
| | `FlagTells` | `InitializedIsOpen` |
| | `NoLeak` | `NothingLeaks` |
| `InternalRandomProofs` | `Seeded` | `SeededWhenOn` |
| | `BlocksOnce` | `BlockOnce` |
| | `WordsOnce` | `WordOnce` |
| `GuardedHeapProofs` | `Guards` | `GuardsStand`, if `BeforeInit = FALSE` |
| | `Found` | `FreeFindsAll`, likewise |
| | `Canaries` | `CanaryTells`, likewise |
| | `Wipes` | `NothingLeft`, likewise |
| | `Asserts` | `AssertionHolds`, likewise |
| `BlockBufferProofs` | `Counts` | `CountTells` |
| | `HoldsBack` | `LastBlockHeld` |
| | `Implements` | `DigestSpec` |
| `BoxesProofs` | `Sealing` | `SealedWhole`, of the calls of `Boxes` |
| | `Opening` | `OpenedWhole`, likewise |
| | `Pairing` | `PairedKeys`, likewise |
| `FunctionProofs` | `PadsAndUnpads` | `PaddingComesOff`, of the calls of `Bytes` |
| | `NumbersRight` | `NumbersHold`, likewise, from what powers are |
| | `VerifyCompares` | `crypto_verify` tells equal strings from others |
| | `RefersBack` | argon2 refers to blocks that are filled and final |
| | `CarryKeeps` | a carry keeps the number and brings its limb in range |

*From what.* From the named assumptions on the constants in each module, which
TLC evaluates in the module's run, what `FunctionProofs` assumes of arithmetic
(below), and two hypotheses. `NoMixing` is of
applications that use the MAC after `sodium_init` only, and the theorems of
`GuardedHeapProofs` are of those that allocate after it only; `mac_before_init`
and `heap_before_init` are the runs in which the same properties fail without.
Assumptions that say more than a type: a counter has at least two values; a page
is larger than a canary, and divides `SIZE_MAX + 1` and the default page size
(powers of two in the code; an allocation cannot lie in front of its guard page
otherwise); a block has more than two bytes (the code's have 16, 64 or 128) and
the low word of a length is a multiple of it; a byte has an even number of values,
and the barrier of a padding is one of them and not zero.

### SecretStreamProofs

Acceptance compares two states for equality, and no state says how
many frames it has seen; nor does `AcceptedInOrder` survive a step by itself,
because nothing in it excludes that the state after the third frame is that
after the first. What excludes it is that a state remembers: `Folded(st)`, the
MACs in its inonce or in the inonces its keys were made from. A push or pull
adds one MAC to it (`PushedFolded`), a rekeying leaves it as it is
(`RekeyedFolded`). `FoldInv` says that the sender has folded 1 .. the length of
its log, the receiver 1 .. the number it accepted, and frame i of a log was
sealed with 1 .. i-1 folded. So a frame that opens is the one at the next place
(`OpensNext`), and `FoldInv` is inductive (`StepFold`), action by action.

For the counters, `KeyInv` orders the frames of a session, and each of them
before the sender's own state (`Precedes`): the number of rekeyings never falls,
it rises where a tag asks for it, and while the history of the key is the same
the counter grows. `CounterStep` (a counter below its modulus steps to zero
exactly at its last value) is what makes a wrap a rekeying and not a repetition.
`CounterUnique` and `KeyRetired` follow from the order. `Refinement` maps `log`,
the receiver's root and `acc` to the channel and shows every action a `Send`, an
`Attach`, a `Deliver` or a stutter.

`InStep` is about receivers that made the sender's rekeyings at the sender's
places, but is not inductive: between the two ends' rekeyings one of them is
ahead. A frame moves both ends alike and leaves behind the state it was sealed
under; an explicit rekeying leaves nothing behind but a mark. So the states
between two frames are named by the number of rekeyings that lead from one to
the next, `Ahead(st, d)`. `StartInv` and `LinkInv` say so of the sender:
the state after frame n is the one frame n leads to, as many rekeyings ahead as
there are marks at n. `BehindInv` says of a receiver that lacks some of the
sender's rekeyings that they are what lies between it and the state that opens
the next frame, `BeyondInv` of one that has made some before the sender that it
is that many ahead. `SameMarks` compares marks place by place, which says the
same as a selection from the sequence and, unlike it, can be reasoned about.

### SodiumCoreProofs

`ReadyWhenTold` holds whatever misuse does to the section, since nothing takes
from `ready`: `SetUpInv` says which parts a thread at each step of the body has
seen set up, by itself or by another. The rest is about executions in which
nobody outside has come to `sodium_misuse`, and hangs on one equivalence in
`HeldInv`: a thread stands in the section if and only if it owns the mutex,
where standing includes the thread whose misuse handler runs in the section and
calls `sodium_init` again. With one thread in the body at a time, the pointer
`sodium_init` leaves behind is the last it picks (`PickedInv`), so the functions
of a MAC begun later are of one implementation (`MacInv`).

### SysRandomProofs

With `getrandom` nobody ever holds a descriptor, and that is inductive
(`GetrandomInv`). On the device everything is said of histories without a close
beside another call (`Alone`). There `OpenInv` follows the descriptor through a
draw, from `fd` into a register and to the read, and to the close, and `FlagInv`
relates the flag to it but for a thread between two stores. While no two first
uses race either, one thread opens at a time, so that no descriptor is stored
over another (`OneOpens`).

### InternalRandomProofs

`BlockOnce` speaks of what has been generated, and becomes inductive with what
may generate: `OneActive` says that of one seed at most one stream may do so. A
second may hold the key, namely a forked child's before it stirs, which the
process id stops, and one that is being stirred, which has another key before it
is used. All blocks of the seed are behind that stream in the number of draws
(`BlocksBehind`), all words of its pool behind the place it stands at
(`WordsBehind`). A draw makes the key longer, so the next block is new
(`NextBlock`). `FlagsInv` and `SeededInv` give `Seeded` along the way: where
first uses do not overlap, whoever is about to seed has seen that `getentropy`
works.

### GuardedHeapProofs

`LaidOut(m)` says where an allocation lies: the page with its size, the first
guard page, the region, in whose first page the canary begins, and the page the
data ends in front of. `AllocateEffect` derives it from the code's
arithmetic: the size rounded up to pages with a mask that may wrap
(`Rounded`), the offset of the data from the end of the region (`PlaceEffect`),
`size_t` overflow in `sodium_allocarray` (`ArrayFits`), all for any page size,
from a handful of lemmas on quotients. `FoundFrom` is the way back, from the
pointer alone to the pages. `StepEffect` then restates every action by what it
does to pages and bytes of a layout, and `HeapInv` is shown of these: the
allocations are disjoint, the pages mapped are theirs, guards stand, a canary
differs if and only if it was overwritten, and data is nowhere but in regions.

### BlockBufferProofs

Between two calls the bytes compressed are a whole number of blocks with the
marks of that many (`BlocksInv`), the words for the length say it, however often
the low word has wrapped (`CountInv`), and BLAKE2b's counter is the number of
bytes compressed, of which it never compresses a block that may be the last
(`BlakeInv`). One lemma per function says what an update makes of buffer and
block (`ShaUpdateEffect`, `PolyUpdateEffect`, `BlakeLoopEffect`) and another
what a final makes of the rest (`ShaFinalEffect` with its case of one more
block, `PolyFinalEffect`, `BlakeFinalEffect`), for buffers and inputs of any
length. Every such step is then `Restart`, `Absorb`, `Finish` or a stutter of
`Digest` (`StepDigest`): what is compressed is what the standard makes of the
whole message.

### BoxesProofs

`BoxSpec` is a caller of the functions of `Boxes` and of nothing else. The
invariant `BoxInv` says that the call is one a caller makes (`BoxCall`: lengths,
places and sharing as the interface allows) and that an answered call is
answered rightly; what has to be shown is one lemma for every function. Memory
is arbitrary in them: the buffers lie anywhere and overlap as `BoxCall` allows,
the message has any length.

The code works through a message in blocks, so the lemmas need induction over
data. The provers cannot instantiate an induction theorem, but they can reason
with the order of the numbers: of the numbers for which a claim about one
definite formula fails there is a least (`Least`), and this gives induction up
to a number (`UpTo`) and, for a function defined by recursion on a sequence
(`FoldLeft`), the sequence of its intermediate values (`FoldExists`,
`LeftExists`). `XorSteps` unfolds `xor_ic` block by block in that way, and
`XorEffect` says what comes of it where the output begins no later than the input
or they lie apart: bytes not reached yet are as before the call, bytes passed are
the stream under the message. Buffers that overlap the other way are first moved
by the functions above it. From there it is case by case what a scheme makes of
it. Tags are ideal: one names its key, the nonce and all of its input, so the
tag of a changed box is never the tag computed, and a refused box leaves what
`memset` or an early return leaves. With `OneSecret` (both sides compute one
secret, and none with a key of small order) `Pairing` is a matter of which
buffers are there.

### FunctionProofs

These are about single calls. `BytesSpec` is a caller of the functions of
`Bytes`; a text to pad is any string of bytes and the block size any number. The
loops of `sodium_pad` and `sodium_unpad` run over a whole block whatever the
length and decide by masks, and are unfolded byte by byte (`PadSteps`,
`UnpadSteps`). `PadState` is what the first has made of the buffer after k
bytes: zeros as far as the barrier, the barrier, and then nothing more, since the
mask is up. `UnpadState` says when the second has seen a byte that is not zero,
and that it keeps the place of the first if and only if that is the barrier. So
a padded buffer comes back to its length (`PaddedRight`), and where there is an
answer the text does end in a barrier and zeros (`UnpadAnswers`).

`NumbersRight` is about strings of any length, whichever words the loops take
them in. `Sums` are the values of the beginnings of a string (`ValueSums`), so
what a word stands for is the difference of two of them (`Segment`), and a
string extended by a word is worth the word times a power more (`Joining`).
`ChainState` is the invariant of increment and add: the bytes written and the
carry together are the sum of what was read. `SubState` is that of sub with its
borrow. Each word keeps it (`ChainMore`, `SubMore`), and the words of the
assembly make up the string (`SizesDivide`, `SubSizesDivide`). Strings of one
length with one value are the same (`ValueOnce`), which turns the difference
into the inverse of an addition. Compare goes from the most significant byte
down and keeps the order of what it has seen (`CompareMore`); memcmp, verify and
is_zero collect bits that are all clear if and only if none was ever set
(`EitherAll`).

In `VerifyCompares` the strings are of any length, though the code's have 16, 32
or 64 bytes and the sixteen lanes are those of its vector form.

`RefersBack` takes `index_alpha` from its formula to what argon2 depends on. The
blocks it may refer to are a window that starts with the lane in the first pass
and after the segment being filled, with the oldest blocks, in the later ones.
The random word squared and scaled down is a fraction of the size less than one
(`Scaled`), so the position lies in the window and wraps around the lane at most
once; the rest is to compare the window with the blocks before this one in the
segment, those of other lanes at the same slice, and the previous block. The
condition on pass and slice is the code's: in the first segment it forces the
same lane, and the first two blocks are not filled by reference.

`CarryKeeps` is about `Floored` and `Nearest`, the two carries that field
elements and scalars are made of: limb and next limb together keep their value,
or the last and the first do modulo 2^w of the last less c of the first.
`Floored` leaves 0 .. 2^w - 1, `Nearest` half of that to either side.

The provers know nothing of powers and sizes of sets of limbs. Hypotheses are,
for `CarryKeeps`, that 2^w is positive and twice 2^(w-1), and that 0 .. n-1 has n
members; for `NumbersRight`, `Powers` (the powers of `Radix` begin with 1 and
each is `Radix` times the one before) and that 2^16 is 65536.

### Only model-checked

- The liveness property `EveryCallEnds`; liveness is out of the prover's reach.
- `CodecsInverse`: the codecs are bits of characters, and a module with
  bitwise operators cannot be proved about. `KeystreamInOrder`: words of several
  implementations side by side, each with an induction of its own as long as
  that for boxes.
- `FieldHolds`, `ScalarRing`, `ChainsRight`, `MultiplesRight`,
  `EncodingsUnique`, `KeysBind`: nonlinear arithmetic modulo a prime and the
  group of a curve, of which the provers know nothing. `CarryKeeps` is the step
  of `FieldHolds` and `ScalarRing` that they can do.
- `GcmStandard`: polynomials over bits. `Argon2Standard` and `PasswordsVerify`:
  the standard is a second recursive definition to compare with the first;
  `RefersBack` is what the first needs to be well founded.

## What is not modelled

- aegis128l and aegis256, scrypt, the compression functions of the
  hashes (`BlockBuffer` has their buffering), siphash, HMAC, HKDF and kdf.
- The arithmetic of Poly1305 and its SSE2 form, BLAKE2b in vectors, and sandy2x:
  another arithmetic for what is modelled elsewhere.
- Full widths: `FieldElement`, `Scalar25519`, `Points` and `Gcm` check the
  algorithms at small ones. That a limb does not overflow 64 or 128 bits at full
  width is the bound of the source's comments, scaled, not checked at 51 bits.
- That timing does not depend on secrets; that memory was wiped on the stack.
- The Windows, WASI, arc4random and RDRAND variants of the generators, and the
  spin-lock and Windows variants of the critical section.
- Weak memory: loads and stores of shared variables are sequentially consistent
  in the models.
- `mlock`, `madvise` and a refusing `mmap` in `GuardedHeap`; signals; what
  happens after a process has ended.
- Random points and scalars, and key pairs that are random bytes; the builds
  ED25519_COMPAT and ED25519_NONDETERMINISTIC.

## Plan

In order, the most important first; what exists is marked.

1. `SecretStream`, `OrderedChannel` and all their safety properties proved: done.
2. `SodiumCore` and its proofs: done.
3. `SysRandom`, `InternalRandom` and their proofs: done; left: the other builds
   of the generators.
4. `GuardedHeap` and its proofs: done.
5. `Digest`, `BlockBuffer` and their proofs: done; left: the SSE2
   implementation of Poly1305, as the polynomial that its two lanes add up to.
6. `Bytes`, `Codecs`, `Boxes`, `Streams`: done, with proofs of boxes,
   `crypto_kx`, padding, byte arithmetic and comparisons; left: that the key
   streams of every implementation agree at every length.
7. `FieldElement`, `Scalar25519`, `Chains`, `Points`, `Encodings`, `Signatures`:
   done, with the proof that a carry keeps the number; left: that a multiplication
   of scalars stays in range at every width.
8. `Gcm`, `Argon2`, `Passwords`: done, with the proof that `index_alpha` stays within the
   blocks already filled. Left: aegis, siphash and the
   constructions over hashes.

`BlockBuffer` details what a MAC in progress is in `SodiumCore`; `Signatures`
stands on `Encodings` and `Points`; the others stand alone.

## Running it

    tlc -workers 2 -config SecretStream.cfg MCSecretStream
    tlapm BlockBufferProofs.tla

The module of each run is in `PROJECT.json`. The longest run, `functions`,
takes about a minute and a half with its coverage, `internal_random` one to two. The
modules of proofs are `SecretStreamProofs`, `SodiumCoreProofs`,
`SysRandomProofs`, `InternalRandomProofs`, `GuardedHeapProofs`,
`BlockBufferProofs`, `BoxesProofs` and `FunctionProofs`; `FunctionProofs` takes
about four minutes, `BlockBufferProofs` and `BoxesProofs` two to three, the
others about two or less.
