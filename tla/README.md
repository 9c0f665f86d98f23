# TLA+ models of pq-vanity

`pq-vanity` searches for Algorand vanity addresses: Falcon-1024 ("f1") addresses
that stock `algokey` can import, and classic Ed25519 addresses, on the CPU or on a
GPU. This directory holds TLA+ modules that model its search engine, TLC
configurations that model-check them, and proofs checked by TLAPS.

## The system

| component | source | state | operations |
|---|---|---|---|
| target list | `crates/pq-vanity/src/targets.rs` | the patterns and one `active` flag each | `parse`, `first_match`, `first_match_display`, `claim`, `any_active`, `default_count`, `device_table` |
| f1 addresses | `crates/pq-core/src/address.rs` | none | `pq_address`, `is_pq_compliant`, `canonical_pq_salt` |
| f1 CPU search | `crates/pq-vanity/src/search.rs` | `stop`, `hits`, `io_lock`, the worker threads | `run`, `worker`, `record_hit` |
| ed25519 CPU search | `crates/pq-vanity/src/classic.rs` | `stop`, `hits`, `keys`, `io_lock`, the worker threads | `cmd_search`, `cpu_worker`, `record_cpu_hit` |
| f1 GPU search, host | `crates/pq-vanity/src/main.rs` | the batch loop's locals | `cmd_gpu`, `verify_hits`, `verify_one` |
| ed25519 GPU search, host | `crates/pq-vanity/src/classic.rs` | the batch loop's locals | `cmd_gpu` |
| entropy mixer | `crates/pq-vanity/src/entropy.rs` | cached TPM and jitter bytes, a counter | `new`, `refresh`, `next`, `tpm2_get_random` |
| CUDA kernels and wrapper | `cuda/*.cu`, `crates/pq-cuda/src/lib.rs` | the hit slots and their counter | `pq_search_kernel`, `ed_search_kernel`, `search_batch` |
| mnemonic codec | `crates/pq-core/src/mnemonic.rs` | none | encode, decode |
| Falcon key generation | `crates/pq-core/src/falcon.rs`, `fast.rs`, `vendor-shim/` | none | `keygen_from_seed`, `sample_fg`, `complete_from_fg` |
| GPU self-test | `crates/pq-vanity/src/main.rs`, `classic.rs` | the results of its threads | `cmd_gpu_selftest`, `selftest_matcher` |
| front end | `crates/pq-vanity/src/main.rs` | none | `derive`, `search`, `gpu`, `bench` |

A search draws an entropy (or a base of many) from the mixer, derives keys and
addresses from it, matches them against the targets that are still active, claims
the target that was hit, counts the hit, writes and prints it, and refreshes the
mixer's cached contributions. In a multi-target search a target is retired by the
claim of its first hit, unless `--keep-found` is given. On the CPU the workers share
the flags, the counter, the mixer and `io_lock`; nothing orders them but atomics and
that mutex. On the GPU one host thread runs a batch at a time, and the device
answers for the targets that were active when the batch was launched.

What is hard about it:

- a match, the claim of its target, the count of the hit and its print are separate
  steps, with other workers in between;
- the counter is incremented before it is compared with the budget, and the
  increment is undone;
- the cached contributions of the mixer are renewed by one worker while others hold
  entropies drawn before;
- `stop` is set on several paths and polled at different places, and `run` joins
  every worker;
- the device may be wrong, and its hits go stale while the host works through them;
- a salt is a byte, the options that sweep it are wider;
- a pattern is matched in four ways (the base32 of the leading bytes, the display
  string, and the device's masks on two words), which must agree to the bit;
- the device looks only at the first attempt of key generation and at its public
  half, while `algokey` imports the first attempt that is accepted in full.

## Modules

| module | models |
|---|---|
| `TargetSet` | the target list as every search sees it; no variables |
| `PqAddress` | the addresses of an f1 key by salt, and its canonical salt; no variables |
| `HitLedger` | the abstract specification: what any of the four searches promises |
| `CpuSearch` | the f1 CPU search |
| `ClassicSearch` | the ed25519 CPU search |
| `GpuSearch` | the host of the f1 GPU search |
| `ClassicGpuSearch` | the host of the ed25519 GPU search |
| `EntropyMix` | the entropy mixer that the searches share, with its locks and the TPM |
| `AtomicMix` | the abstract specification of the mixer: refresh and next act at one instant |
| `DeviceKernel` | one batch of either kernel, and the host function that launches it |
| `Arithmetic` | `div_ceil`, for the modules that use it; no variables |
| `PatternMatch` | the parsing of patterns, display strings, the host matchers and the device's masks; no variables |
| `Mnemonic` | the mnemonic codec, bit by bit; no variables |
| `FrontEnd` | the commands `derive`, `search` and `gpu` up to the search; composes `PatternMatch`, `Mnemonic` and `TargetSet` |
| `KeyGen` | attempts of Falcon key generation: the reference, the first-sample path, the retry loops; no variables |
| `DeviceChecks` | `verify_hits` with its threads, and the two GPU self-tests |
| `TargetSetProofs` | lemmas on least elements, the target list and its ledger |
| `CpuSearchProofs`, `ClassicSearchProofs`, `GpuSearchProofs`, `ClassicGpuSearchProofs` | theorems about the four searches |
| `EntropyMixProofs`, `DeviceKernelProofs` | theorems about the mixer and the kernels |
| `HostProofs` | theorems about `DeviceChecks` and about `FrontEnd` with `PatternMatch` and `Mnemonic` |
| `MC*` | the instances that TLC checks |

### How state and actions correspond to the code

An address is the set of targets that its display string matches, and a key is one
of a few kinds, each with a fixed address and compliance per salt: the hash, the
curve and Falcon itself are constants of the models (`Matches`, `Compliant`).
`first_match` and `any_active` read one flag after another; they are one step here
because flags only ever change from active to retired, so the answer is right at
the moment of the last flag read.

`CpuSearch` has one action per access to shared state. `worker` is `CheckStop`,
`DrawFails` / `DrawUseless` / `DrawKey` (`mix.next` with `keygen_from_seed` and, in
canonical mode, `canonical_pq_salt`), `MatchHit` and `MatchMiss`; `record_hit` is
`Claim` / `ClaimLost`, `CountHit`, `UndoCount`, `StopOverCount`, `LockIo`, `Emit`, and
`FinishStop` / `FinishRefresh`; `run` is `WatchEnds` and `Join`. The lock is released
with the last step of `record_hit`, where the guard goes out of scope. An entropy is
represented by the two cached contributions in it, each named by the refresh that
made it; a failed TPM read keeps the old name. `emitted` is a history of the hits
shown; the program has no such variable.

`ClassicSearch` follows the same `record_cpu_hit`, and scans a run of `CpuRun` seeds
of one base: `ScanHit`, `ScanMiss`, `ScanPoll` (every `Poll` keys), `CheckPoll`,
`RunEnds`. `derived` and `late` are histories that count derived keys.

`GpuSearch` has one action per step of the batch loop: `Draw`, `Search` (the batch
and `verify_hits`, which keeps the device's order), then `Skip`, `DiscardSibling` or
`Emit` for each verified hit, and `NextBatch` (with the refresh) or `Finish`. The
options are chosen in `Init`. The device is nondeterministic: it may answer any
list of keys and salts, and `verify_one` decides what is usable. With `DeviceExact` it
answers what `pq_search_kernel` computes. `ClassicGpuSearch` is alike, but a seed
is matched when it is looked at. Whether the device is right is chosen in `Init`.

`EntropyMix` models `new` (`Open`, `NoDevice`, `ProbeReply`, `ProbeFails`), `refresh`
(`DrawJitter`, `LockTpm`, `Reply` or `ReplyBad`, `LockWrite`, `WriteJitter`, `WriteTpm`)
and `next` (`CallNext`, `LockRead`, `ReadTpm`, `ReadJitter`, `Count`). A guard that goes
out of scope is released by the last step under it. A byte is named by the call of
`tpm2_get_random` that read it, so a mixture of two reads can be told from a whole one.
`earlier` and `own` are histories. `AtomicMix` is the mixer as `CpuSearch` and the other
searches use it: contributions are renewed and taken in one step. A refresh takes effect
at its first store, which nobody can see before the second.

`DeviceKernel` is one call of `pq_cuda_search` or `ed_cuda_search`: `Launch`,
`Synchronise`, `CopyHits` or `RuntimeFails` on the host, and per device thread `StartIdle`
or `Start`, then `NoMatch` or `TakeSlot` and `WriteHit` for each of its items. The two
kernels differ in the keys per thread and in what a match is; a thread of the f1 kernel
has one item, so that its `break` ends the thread. The keys of the batch that match are
any set. The number of items is any 64-bit integer (`SizeSpace`). The sum that rounds it up
to blocks wraps (`RoundUp`), the number of blocks is cut to an unsigned int (`IntSpace`) and
`Launch` is possible only for a grid that the runtime accepts. The count of hits wraps, and a
slot is compared as a signed integer (`SignedInt`), as is the count by the f1 host (`Cut`); a
count that reads as negative makes the copy fail, which leaves `RuntimeFails`. `GpuSearch` and `ClassicGpuSearch` take any list of up to `MaxHits` hits as the
device's answer, and `DeviceKernel` shows what that list is on a device that works.

`PatternMatch` computes with the widths of characters, bytes, addresses, checksums and
device words as constants, and every shift, mask and `div_ceil` of the code on them. A word
is the sequence of its bits, the highest first, so that a shift moves positions and a mask
clears them; `device_words` gives each mask by the number of bits that it keeps. A character
is the bits of its base32 value and an entry of an option is what `trim` and
`to_ascii_uppercase` leave of it. `Mnemonic` likewise, with the lowest bit first: `Loaded` and
`Unloaded` are the steps of the bit buffer, which drops what is shifted beyond its width, and a
word is the bits of its index in the list.

`FrontEnd` takes the command line and the machine as a constant set of calls. `Derive` and
`StartSearch` are the whole command up to the search, with the refusals of `main.rs` and
`classic.rs`; a refusal is one outcome, whatever its message. `Hit` is what any search does
to the target list when it shows an address, so that the matchers are compared on every
set of active targets that a search can reach.

`KeyGen` reduces an attempt at (f, g) to the set of checks that it fails and the public key
that it gives. `DeviceChecks` has one action per step of a scoped thread (`Work`), for
`verify_hits`, the retry stage and the search stage of the self-test alike; `SelfTest` and
`EdSelfTest` compare a stage and go on to the next one, `CallFails` is an error of a debug
call. The device is right but for the faults in `args.faults`, each in the answer of one
stage for one entropy; that is the fault model of the self-test, not of the search, where
`GpuSearch` lets the device answer anything.

`HitLedger` is a ledger of numbered hits: `Show` adds a number that is new and within
the budget, for a target that a retiring search has not shown yet; `End` is possible
only when the numbers shown have no gap, and reports how many they are. All four
searches are shown to implement it, with the ledger read off their `emitted`
(`TargetSet.LedgerOf`).

## Runs

| run | instance | what it shows |
|---|---|---|
| `cpu_hits` | 3 workers, 3 retiring targets, budget 2, TPM | `HitAccounting`, `NoTargetLost`, `StopHasCause`, `WorkerHitsShareNothing`, `TypeOK` |
| `cpu_sweep` | 2 workers, 2 targets, 2 salts swept up to 3, fair | `HitsAreUsable`, `ImplementsLedger`, `SearchEnds` |
| `classic_search` | 2 workers, 3 targets, budget 2, runs of 4 polled every 2, 3 bases | `OneKeyPerBase`, `KeysExact`, `StopIsPrompt`, `WorkerHitsShareNothing`, `ImplementsLedger`, `TypeOK` |
| `gpu_device` | 3 targets, budget 2, 3 batches of up to 2 hits, every option, any device, fair | `HitsAreUsable`, `HitsShareNothing`, `BatchNotWasted`, `ImplementsLedger`, `BatchesEnd`, `TypeOK` |
| `classic_gpu_device` | 3 targets, budget 2, 3 batches of up to 3 seeds, every option, exact or wrong device | `HitsShareNothing`, `NoFalseAlarm`, `NothingMissed`, `ImplementsLedger`, `TypeOK` |
| `entropy_mix` | 3 threads, contributions of 2 bytes, replies of 1 to 3, 2 refreshes, 3 outputs, a counter of 2 values, fair threads | `OutputsDiffer`, `OwnRefreshRenews`, `ImplementsAtomicMix`, `NextNeverWaitsForDevice`, `TypeOK` |
| `front_end` | 18 addresses that differ in single bits, prefixes of up to 6 and suffixes of up to 5 of 8 characters, pairs with each separator, lists of two, every other option; every mnemonic of 4 words with two checksum words | `MatchersAgree`, `ListMeansOptions`, `MnemonicExact`, `CommandTypeOK` |
| `host_checks` | 4 entropies (also repeated), 3 keys, 2 salts, 1 to 3 threads; every batch of up to 2 hits, some of 3; every pair of faults | `ImportGivesShownAddress`, `SelfTestVerdict`, `TypeOK` |
| `device_batch` | 1, 4 or 5 keys per thread, blocks of 1 or 2, batches of 0 to 7 keys from every start, 2 slots, every set of matches, unsigned ints of 6 values and 64-bit sums of 11 | `SlotsAccounted`, `AnswerIsExact`, `TypeOK` |
| `cpu_consecutive` | 2 workers | violated: `ConsecutiveHitsShareNothing` |
| `cpu_default` | 2 targets kept, default budget | violated: `DefaultIsOnePerTarget` |
| `gpu_sweep` | 1 target, 2 salts, an exact device | violated: `SweepLosesNothing` |

Bounds. Three workers suffice for a worker that is over the budget while the two
numbers of the budget are still held, and three retiring targets for three claims
against a budget of two; the mutants listed in `PROJECT.json` show for each property
a plausible slip of the code that the instance catches. Two salts are enough to have a
salt that matches without being compliant before the canonical one, and a sweep up to
3 wraps the salt byte. The model's own bounds are `BaseBound` in `ClassicSearch` (bases
drawn; two workers need at least three for a worker to come back after a hit) and
`BatchBound` in the GPU modules (batches; three let a refused sibling, a retired target
and the budget meet), `MaxRefreshes` and `MaxCalls` in `EntropyMix` (two refreshes
overlap each other and a call of `next`; three outputs go once around the counter) and
`MaxItems` in `DeviceKernel` (up to seven keys leave the last thread or block partly empty for
every choice of keys per thread, and exceed two slots). With unsigned ints of 6 values they
also reach what takes billions of keys on a device: more blocks than an unsigned int counts (a cut launch, or
one that the runtime refuses), more matches than it counts (a slot counter that wraps), a
slot and a count that read as negative, and a sum that exceeds 64 bits. `CpuSearch` needs no
bound: the locals of a finished key are forgotten, so its states are finite.

`front_end` scales the widths down and keeps their proportions: a character of 2 bits does
not divide a byte of 3, as 5 does not divide 8; an address of 9 bits ends in the middle of
the fifth of 8 characters, as 256 bits end in the middle of the 52nd of 58, so that
`ADDR_ONLY_CHARS` (4 here) is a real boundary with prefixes on both sides of it; 15 bits
leave one padding bit in the last character, as 288 leave two; the device's words hold
less than an address, as 8 and 4 bytes do. Keys of 5 bytes of 2 bits are 4 words of 3 bits
and one byte more, as 33 bytes are 24 words of 11. In `host_checks` the four entropies are
the four ways in which a first attempt can end (accepted; rejected by `solve_NTRU` alone;
without a public key; borderline for single precision, at the cap of attempts), three
threads share out two and three items unevenly, and two faults are enough for one to hide
the other (`DbgAddr32` says that an item is singular and gives a wrong address). One
disagreement of the retry stage is tolerated there, so that a fault in the answer for a
repeated entropy must fail the self-test, and a single one must not.
`gpu-selftest --items 0` has nothing to share out and is excluded by
`DeviceChecksAssumption`.

Fairness. `CpuSearch` assumes that each thread runs again and again (weak fairness of
each worker and of the main thread), which is what the operating system's scheduler
gives; the mutex is free again after a bounded number of steps of its holder, so weak
fairness of the waiting worker is enough because the search ends with its holder's
last step or grants it the lock. Nothing is assumed about what a draw yields: a search
that never finds a key need not end, and `SearchEnds` only speaks of searches with a
cause to stop. `GpuSearch` assumes that the one host thread runs and that a launched
batch returns. `EntropyMix` assumes that a thread inside a call goes on when it can;
nothing is assumed of the TPM, which may never answer. A thread waiting for a lock gets
it because the bounded number of refreshes leaves it free in the end: the library does not
promise that a lock is fair, and the model shows that a wait has no cause but other
threads' short critical sections.

### Disagreements with the documents

- `entropy.rs` lines 17 to 19 say that consecutive hits never share the cached
  contributions. `cpu_consecutive` shows two workers that draw, then hit one after
  the other: the second hit was drawn before the refresh. What does hold is that two hits of
  one worker are never of the same refresh, `WorkerHitsShareNothing`: their jitter
  differs. Nor do two hits of a GPU search without siblings (`HitsShareNothing`). Even
  so, the TPM bytes of the two are the same when the read of the refresh between them
  failed, which the code accepts (`entropy.rs` line 89: "stale entropy is still entropy").
- `README.md` line 148 (and the help of `--count`) give the default budget of a
  multi-target search as one per target; with `--keep-found` `default_count` is 1
  (`cpu_default`). A unit test of `targets.rs` expects 1.
- The kernel leaves a key's sweep at the first matching salt with the comment "one
  usable salt per key is enough", but the salt is not known to be usable there. A
  lower salt that matches without being compliant hides a canonical salt that
  matches too (`gpu_sweep`); the CPU search goes straight to the canonical salt.

Two more comments are loose, without the code being in doubt:
`entropy.rs` line 31 says of the cached TPM bytes "zeros until the first successful TPM
read"; a probe that fails after a short reply leaves the bytes of that reply there
(`ProbeFails`), which is only more entropy. `mnemonic.rs` line 100 says that the last of the 33
bytes "is 3 bits of padding"; it is a whole byte of padding, of which the last word holds
the bits, and `MnemonicToKey` requires all of it to be zero, as the code does.

## Proofs

Each `*Proofs` module proves, with TLAPS, what its component's runs check on a small
instance, for every value of the constants that the named assumptions allow. The
assumptions say no more than what the code's types and option parsers guarantee (a budget
is at least 1, there is a worker, a poll interval is positive, integers have their width), but for two cases that the code
does not exclude and the models do: `--max-hits` beyond a C int, and `gpu-selftest --items 0`;
none bounds a number of workers, targets, keys, items or refreshes, or the length of a pattern
or a key. `BaseBound`, `BatchBound`,
`MaxRefreshes`, `MaxCalls` and `MaxItems` are constants too, so that the theorems hold for
every value of them (`MaxItems` is below `SizeSpace`, the width of the code's `u64`).

| theorem | property | over |
|---|---|---|
| `TypeCorrect`, `HitNumbersCorrect`, `WorkerHitsFresh`, `ShownHitsUsable`, `StopsForCause`, `TargetsAccountedFor`, `CpuSearchImplementsLedger` | `TypeOK`, `HitAccounting`, `WorkerHitsShareNothing`, `HitsAreUsable`, `StopHasCause`, `NoTargetLost`, `ImplementsLedger` | `CpuSearch` |
| `ClassicTypeCorrect`, `ClassicOneKeyPerBase`, `ClassicStopIsPrompt`, `ClassicKeysExact`, `ClassicHitsFresh`, `ClassicSearchImplementsLedger` | `TypeOK`, `OneKeyPerBase`, `StopIsPrompt`, `KeysExact`, `WorkerHitsShareNothing`, `ImplementsLedger` | `ClassicSearch` |
| `GpuTypeCorrect`, `GpuHitsUsable`, `GpuHitsShareNothing`, `NoBatchWasted`, `GpuSearchImplementsLedger` | `TypeOK`, `HitsAreUsable`, `HitsShareNothing`, `BatchNotWasted`, `ImplementsLedger` | `GpuSearch` |
| `ClassicGpuTypeCorrect`, `ClassicGpuHitsShareNothing`, `ClassicGpuNoFalseAlarm`, `ClassicGpuNothingMissed`, `ClassicGpuImplementsLedger` | `TypeOK`, `HitsShareNothing`, `NoFalseAlarm`, `NothingMissed`, `ImplementsLedger` | `ClassicGpuSearch` |
| `MixTypeCorrect`, `MixOutputsDiffer`, `MixOwnRefreshRenews`, `EntropyMixImplementsAtomicMix` | `TypeOK`, `OutputsDiffer`, `OwnRefreshRenews`, `ImplementsAtomicMix` | `EntropyMix` |
| `KernelTypeCorrect`, `KernelSlotsAccounted`, `KernelAnswerIsExact` | `TypeOK`, `SlotsAccounted`, `AnswerIsExact` | `DeviceKernel` |
| `ChecksTypeCorrect`, `VerificationIsExact`, `VerdictIsExact` | `TypeOK`, `ImportGivesShownAddress`, `SelfTestVerdict` | `DeviceChecks` |
| `CommandTypeCorrect`, `MatchersAlwaysAgree`, `ListIsOptions`, `MnemonicsExact` | `CommandTypeOK`, `MatchersAgree`, `ListMeansOptions`, `MnemonicExact` | `FrontEnd` |

`TargetSetProofs` holds the lemmas on the target list that the others cite: what
`first_match` returns and when it returns nothing, what a claim changes, and that a ledger
grows by one entry with each new hit.

The arguments, with the inductive invariants and why the properties need them:

- **CPU search.** `IInv` is the types, the fact that a worker past the match holds a target,
  and `HitAccounting`. `HitAccounting` is inductive on top of the types because it speaks of
  the numbers held and of the increments still to be undone, not only of those shown: an
  undo gives back exactly the surplus of its own increment, and is only reached when the
  numbers up to the budget are all granted. `FreshInv` adds that the hits shown by a
  worker are of earlier refreshes than the entropy it holds or is about to draw.
  `ClaimInv` adds that in a retiring search the target of every hit in progress or shown is
  retired and belongs to one hit, which gives `Show` its guard. `CauseInv` carries the cause
  of a stop through the steps between the cause and the flag (a worker that halts saw the
  budget granted; the number held by one that finishes is granted). `RetiredInv` says of
  each retired target who answers for it: a worker that holds it, a hit shown, or a budget
  that is spent. `UsableInv` fixes the salt when the key is drawn and keeps what the match
  established until the hit is shown.
- **ed25519 CPU search.** The same accounting and claims, and three more: `BaseInv` (no two
  workers scan the same base, and none scans one of which a key was shown), `PromptInv` (the keys
  derived after `stop` are among those not yet polled) and, for `KeysExact`, the sum over the
  workers of the keys not reported yet, taken as the cardinality of a set of pairs because
  the sum over a set is a recursive definition.
- **GPU searches.** One host thread, so that the invariants follow the loop: `UsableInv` says
  that the list of a batch passed `verify_one` (what the device answered is not assumed to be
  right), `ShareInv` that a base is new until its first hit, `WasteInv` that as long as a batch
  has shown nothing no target of it has retired, `MissInv` that each seed behind the loop is
  settled for good, `NumberInv` that the numbers shown are `1 .. found`.
- **Mixer.** `LockInv` is mutual exclusion, from the guards of the two locks; `PhaseInv`
  separates `new` from the calls. `CallInv` and `StampInv` say that a draw of jitter and a read of
  the TPM belong to one call until stored and to one renewal afterwards, which makes a
  renewal new; `CtrInv` ties the counter to the number of outputs; `OwnInv` relates the outputs of
  one thread to its refreshes. In the refinement `WriteJitter` is `Renew` (with the TPM bytes that
  the thread is about to store), `ReadJitter` is `Take`, the step that opens the device is `Make`,
  and everything else stutters.
- **Kernel.** `ItemsInv`: a thread works on its own items; `CountInv`: the count is the number
  of keys reported, and each slot in hand is below it and in one hand; `SlotsInv` and `KeptInv`
  relate the buffer to the settled items; `HostInv` says what the host has read. `CountInv`
  and `KeptInv` are conditional on `MatchesFit` (the matches do not exceed an unsigned int), and
  the completeness of the answer on `LaunchFits` too (nor do the blocks, nor a sum 64 bits).
  `SlotsInv` holds without either: a slot of the buffer that was counted holds a matching key or
  has a writer, even if the counter has wrapped and several threads write it, and no key has
  two. With `CutSpec`, that what is copied is never more than was counted nor than the buffer
  holds, it makes the answer sound for a batch of any size. `RoundUpBound` and `BlocksSpec` show that a
  launch that fits covers each item once.
- **Host checks.** `ChunksInv` and `ResultsInv`: what a thread has passed in its chunk is done;
  with the lemma that the chunks of `div_ceil` cover the items and are no more than the
  threads, each item has its result when the threads have ended. `PassedInv` remembers what each
  stage of the self-test has shown of the faults, until the verdict; for the retry stage that is
  `RetryTolerated`, since the items on which the device is wrong are among those that disagree,
  and those among the items in doubt (`RetryStage`).
- **Front end.** `CommandInv` says that a running search has the list that `parse` gave for its
  options and that nothing turned the command down, and that `derive` has printed what it was
  called for, or has one of its reasons not to. The rest is what the operators compute, for every
  width that `PatternAssumption` and `MnemonicAssumption` allow. `DedupSpec`: the list
  without repetitions has the same targets, each once; `ListedSpec` and `AskedSpec`: the product
  of the lists, and the first separator of an entry, ask for what the options say. For the
  matchers, `HeadAgrees` shows that the base32 of the leading bytes begins with a prefix exactly
  when the display string does, since each of those characters lies in the bytes that
  `head_bytes` keeps; `DevicePrefix` and `DeviceSuffix` show the same of the masks, bit by bit:
  bit `k` of character `i` is bit `(i - 1) * CharBits + k` of the string, and the padding of the
  last character, which `parse` wants to be zero, is outside the second word. `MatchersSpec`
  adds that four matchers that agree on each target agree on the first of the active ones. For
  the codec, `Regrouping` is the invariant of the bit buffer, in either direction: what is out
  and what is in the buffer are the bits taken in so far, in order, and the rest of the buffer is
  zero. Hence `KeyRoundTrip` and `WordsRoundTrip`: decoding the words of a key gives the key and a
  byte of zeros, and words whose last byte is zero are those of the key that they decode to.

The loops of the front end are recursive functions in the model. `RecursionExists` shows, by
induction over the length, that such a function exists, and the `...Equations` lemmas that it
obeys its equations; the induction is `SetInduction`, whose hypothesis is a set of numbers (those
that have the property) where the theorems of the library have an operator. It rests on the
least element of a non-empty set of naturals, as do "the first target" and "the lowest salt"
elsewhere.

An action property proved along the way is what each refinement states: a step of the detailed
specification is a step of the abstract one or leaves it unchanged.

Some definitions have their form for the proofs' sake. `SelfTestVerdict` counts the doubtful
*items* of the retry stage, as the code does, and not the entropies: with a repeated entropy the
two differ (`host_checks` repeats one). The stage of the addresses proves nothing if it has no
salt to try, hence `TestSalts # {}` in `DeviceChecksAssumption`; the code has three.
`Unreported` in `ClassicSearch` is a set of pairs, and the four searches share `LedgerOf`, so
that neither is recursive. `PatternMatch` and `Mnemonic` are on bits, where a number would
need sums of powers of two, and their loops are recursive functions, not folds.
`FrontEnd` names its `CommandInit`, `CommandNext` and `CommandSpec` apart from those of
`DeviceChecks`, because one module proves about both.

What stays with TLC, and why:

- `SearchEnds`, `BatchesEnd` and `NextNeverWaitsForDevice` are liveness properties under fairness,
  which is out of the prover's reach.
- The three violated properties are counterexamples; there is nothing to prove.

## Not modelled

- Falcon, Ed25519 and SHA-512/256 arithmetic, floating point and the curve test: data,
  out of TLC's reach. They are constants of the models (`Attempts`, `Matches`, `Compliant`,
  `Checksum`, `HashHead`), so the models say what follows from any such functions. Signing
  and verifying with a Falcon key: the round trip of `verify_one` only sets a flag that is
  printed.
- The vendored code, the build scripts and the scripts.
- `bench`, for either scheme: it draws keys until a time is up and prints rates; nothing
  depends on its counters.
- clap, the formatting of reports and hit files; a failed write of a hit file (the code
  warns and goes on, the hit counts); statistics, except `keys` in `ClassicSearch`.
- A panic of a thread (the release profile aborts); a poisoned lock.
- A `--max-hits` of 2^31 or more, which the code cuts to another C int (`KernelAssumption`), and
  a sweep with `--max-salt 4294967295`, whose `u32` loop does not end.
- Two device threads that write the bytes of one slot at the same time, which takes more
  than 2^32 matches in one batch: a slot is written in one step. A write far outside of the
  buffer (a slot that reads as negative) either ends the kernel with an error or is not noticed.

## Status

Modelled and checked: every component above but those listed under "Not modelled". Proved:
every safety invariant and every refinement that a passing run checks. Only model-checked: the
three liveness properties.
