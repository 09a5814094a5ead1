# TLA+ verification of the ndn-lib Merkle hash-tree engine and its neighbours

This directory models, and checks with TLC and TLAPS:
- the Merkle tree engine of `src/src/components/ndn-lib/src/mtree.rs`, which
  spec.md names as the core of the repository: the locator, the streaming
  calculator, the writer (generator) and the reader;
- the scheduler loop of `src/src/kernel/scheduler` (`main.rs`, `app.rs`);
- two string conversions: the DID codec of `name-lib/src/did.rs`, and
  `get_relative_path` of `buckyos-kit/src/path.rs`.

Spec section 1 calls the scheduler, DIDs and paths glue, and out of its scope.
The code is still in the repository, and its failure modes are checked here
against its own comments and tests.

## The system

`mtree.rs` has five parts. Their interactions:

| Part (code) | Spec name | State | Operations |
|---|---|---|---|
| `HashNodeLocator` (313-414) | NodeLocator | none; derived from `leaf_count` | `calc_depth`, `calc_count_per_depth`, `calc_prev_count_per_depth`, `calc_index_in_stream`, `get_verify_path_by_leaf_index` |
| `SerializeHashCalculator` (416-603) | StreamingHashBuilder | `stack`, `append_count`, `locator`, optional `writer` | `new`, `append_leaf_hashes`, `check_and_merge`, `finalize`, `write_node`/`write_hash`, `calc_parent_hash` |
| `MerkleTreeObjectGenerator` (217-304) | TreeWriter | `meta`, a calculator that owns the writer | `new` (writes the length-prefixed bincode header), `append_leaf_hashes`, `finalize` |
| `MerkleTreeObject` (51-215) | TreeReader | `meta`, `root_hash`, reader, locator | `load_from_reader` (header, then `leaf_count` leaf hashes into a writer-less calculator, then finalize), `get_verify_path_by_leaf_index` |
| `MerkleTreeMetaData`, `HashMethod` | TreeMetadata, HashMethod | pure data | `leaf_count` = ceil(data_size / leaf_size), parent hash |

Everything runs on one task. The calls are `async`, but a calculator or reader is
`&mut self` throughout, so the only interleaving inside it is between the caller's
calls. What makes the code hard is sequencing, not concurrency:
- Leaves arrive in batches of any size.
- Eager merges run after every push.
- `finalize` pairs a lone rightmost node with a clone of itself.
- The slot a node is written to must agree with the locator's padded geometry and
  with what the reader later seeks to.

## Modules

- **MTreeLocator**: `HashNodeLocator`.
  - Every operator is a function of the leaf count `n`, written as a recursive
    *function* (`c[d \in 0..total] == ...`), not a `RECURSIVE` operator.
  - `CalcDepth` is the integer ceiling of log2. The f64 rounding is not modelled.
  - `CountPerDepth` pads odd counts below the root.
  - `RootCountIsOne` is the assertion at line 359.
  - `PrevCountPerDepth` holds the exclusive prefix sums.
  - `IndexInStream` gives slot numbers.
  - `VerifyPath` returns `<<depth, slot>>` pairs: the sibling per depth, then the
    root.
- **MTreeCalc**: `SerializeHashCalculator`, with a writer or without one
  (`HasWriter`).
  - *Data abstraction.*
    - A digest is a word over `LeafSymbols \cup {"(", ")"}`.
    - A leaf hash is a one-symbol word.
    - `CalcParentHash(l, r) == "(" \o l \o r \o ")"` is the concatenation hash,
      made injective (collision free), so that equal roots mean equal trees.
    - The writer is `sink`, a function from slot number to the digest last
      written there.
  - *Control.* Each loop iteration of the code is one action, and `pc` records
    which loop the calculator is in:
    - `AppendLeafHashes` is the call with its `InvalidParam` check.
    - `PushLeaf` is one iteration of the `for` over the batch.
    - `MergeStep` / `MergeDone` are one iteration / the exit of
      `check_and_merge`'s `while`.
    - `AppendDone` is the `Ok(())`.
    - `Finalize` is the call with its `InvalidState` check.
    - `FinalizeMergeSibling` and `FinalizeDuplicate` are the two branches of
      finalize's loop body.
    - `FinalizeRoot` covers the asserts, writing the root and returning it.
    - A failed assertion sets `pc = "panicked"`, from which no action is enabled.
  - *History.* `appended` records the leaves in order. It is used only by the
    properties, to compare with reference trees.
  - *Callers.* The calculator's `finalize` does not compare `append_count` with
    `leaf_count`. The loader appends exactly `leaf_count` leaves before it calls
    finalize. The generator's check (line 289) compares the declared count
    (ceil) with `data_size / leaf_size` (floor), never with the leaves
    appended, so it does not stand in. The constant `EarlyFinalize` says
    whether finalize may be called earlier.
  - *Fault model.* With `WriteMayFail`, a `seek` or `write_all` of `write_node`
    may fail. `MergeStepIoError`, `FinalizeStepIoError` and
    `FinalizeRootIoError` do what the code does: the stack has already changed
    when the `?` returns `IoError`, and the slots written before stay
    (`PartialWrites`). The caller may go on calling. `LocatorAbort` is
    `calc_index_in_stream`'s assertion (line 380), which such a stack can reach.
  - *Abstract specification.* **MTreeBuilderSpec** is what the builder
    promises (spec 4.3, 8): batches are taken whole, in order, up to the
    declared count, and finalize returns the tree root of exactly those leaves.
    `Abs` in MTreeCalc maps the calculator onto it: the abstract leaves are
    `appended \o pending` (`appended` plus the rest of a running batch;
    `pending` is empty between calls), and the result is `root`.
    `Refines == Abs!Spec` is checked as a PROPERTY.
- **MTreeMeta**: `MerkleTreeMetaData::leaf_count`, shared by reader and writer.
- **MTreeObject**: the reader. It composes MTreeCalc by `INSTANCE ... WITH`
  (no writer, batches of one) with the reader's own state.
  - The stream is byte-level: `FileByte(p)` is a header byte for
    `p < HeaderBytes = 4 + meta_len`, else byte `j` of the digest in slot
    `(p - HeaderBytes) / hash_bytes`. The slots hold the reference tree of
    `file_leaves`: this is the layout spec 4.5 gives.
  - Init enumerates every leaf sequence and every stream length `file_len`, so
    every truncation is a possible input.
  - A read of `hash_bytes` bytes decodes to a digest only when it is exactly
    that digest's bytes in order; any other read is a torn value, distinct
    from every digest.
  - `LoadMeta`, `LoadLeaf`, `LoadFinalize` and `LoadDone` are the steps of
    `load_from_reader`. `LoadCalcStep` runs the calculator's loops. The
    assertions of line 128 and line 359 abort (`rpc = "panicked"`).
  - `GetVerifyPath` is `get_verify_path_by_leaf_index`, seeking to
    `hash_bytes * slot` (line 173).
- **MTreeGenerator**: the writer, which composes MTreeCalc with a writer.
  - `GenNew` covers the leaf_size assertion, the two `write_all`s of the
    header (either may fail), and the calculator's root assertion.
  - `GenAppend` is `append_leaf_hashes`. The call builds the calculator's
    future and drops it, so the calculator's variables stay UNCHANGED.
  - `GenFinalize` is the count check of line 289, then the calculator's
    `finalize`.
- **SchedulerLoop**: one iteration of `schedule_loop` is three actions.
  - `Dump` is `dump_configs_for_scheduler`. On an error, the iteration is
    skipped.
  - `Compute` covers `create_scheduler_by_input_config`, `schedule()`, and
    `schedule_action_to_tx_actions` for each action.
    - `schedule()` is outside the repository. The model lets it return any
      list of InstancePod actions over the dumped apps and the nodes
      (`SetToAllKPermutations(Candidates)`).
    - Each InstancePod action becomes the writes of `instance_app_service`:
      the app's host ports in `nodes/<n>/config`, and its gateway route in
      `nodes/<n>/gateway`.
    - A failing `build_app_service_config` makes the service exit.
  - `Exec` is `exec_tx`. It applies the writes in order, a later write of the
    same path winning (`ApplyWrite`), or it fails and the error is only
    logged. With `--boot` the loop then ends with Ok.
  - `InstallApp` and `RemoveApp` are users changing
    `users/<u>/apps/<a>/config` at any time.
  - Apps are records: id, user, app_index, number of TCP ports, whether an
    image exists for the arch, and whether the app serves http. Ids are
    strings of one-character strings, so host prefixes are built as the code
    formats them.
- **DIDCodec** and **RelativePath**: pure functions over every short string
  of a small alphabet that holds the separators. `Split` is `str::split`,
  empty pieces included. The variables are the inputs, and Next stutters.
- **MC_*** modules: the TLC instances, with model-value leaf symbols, node
  names and the pod sets of the scheduler runs.
- **MTreeCalcProofs**, **MTreeObjectProofs**, **SchedulerLoopProofs**,
  **RelativePathProofs**, **DIDCodecProofs**: the TLAPS proofs, one module per
  component, each EXTENDing the component's module (see "What is proved").
  **MTreeCalcRefinement** EXTENDs MTreeCalcProofs and proves the builder's
  refinement of MTreeBuilderSpec.

## Runs

| Run | cfg | Checks | Result |
|---|---|---|---|
| calc_main | MTreeCalc.cfg | TypeOK, StackBounded, StackDecreasing, SinkMatchesTree, ProofsVerify; Refines, RootFinal, CallsReturn | pass, 1381 states: 5 leaves, 2 symbols, batches of 1..3, writer, FairSpec |
| calc_io | MTreeCalcIo.cfg | StackBounded, RootCorrect | pass, 368,885 states: 6 leaves, writes may fail, calls go on after IoError |
| calc_io_abort | MTreeCalcIoAbort.cfg | NoAbort | violation |
| calc_hash_order | MTreeCalcHashOrder.cfg | SpecHashOrder | violation |
| reader_main | MTreeObject.cfg | TypeOK, LoadRootCorrect, LoadOutcome; LoadReturns | pass, 4304 states: 3 leaves, every stream length, FairSpec |
| reader_verify_path | MTreeObjectVerifyPath.cfg | VerifyPathSound | violation |
| generator_append | MTreeGeneratorAppend.cfg | GenAppendReaches | violation |
| did_text | DIDCodec.cfg | TextRoundTrip | pass, 7225 states |
| relpath | RelativePath.cfg | RelativeIsSubpath | violation |
| sched_main | SchedulerLoop.cfg | RoutesMatchInstances | pass, 49,076 states: 2 nodes, 2 apps, 3 iterations, failing RPCs |
| sched_collide | SchedulerLoopCollide.cfg | RoutesMatchInstances | violation |
| sched_remove | SchedulerLoopRemove.cfg | InstancesFollowSnapshot | violation |

### Bounds

- **calc_main.** Five leaves exercise these cases:
  - an odd count at depth 0 (5 → 6) and at depth 1 (3 → 4), so both padding
    slots and both branches of finalize's loop are used;
  - three merge levels;
  - every batching into calls of one to three leaves;
  - the `InvalidParam` refusal and a second finalize's `InvalidState`.

  With 8 leaves (a complete tree) the run also passes.
- **calc_io.** Six leaves, so that two failed merges can leave equal-depth
  pairs under a third.
- **reader_main.** Three leaves (7 slots). The header is 21 bytes (4 + 17, as
  for SHA-256 without hash_type) and a digest is 4 bytes. Since 4 does not
  divide 21, a read from the wrong origin crosses slot boundaries, as with
  32-byte digests.
- **sched_main.** Two apps with the same id "a", one of root and one of user
  "u", on two nodes. Three iterations give install, remove and re-install
  between dumps, and every placement.

The passing-run properties:
- **StackBounded**: the stack never holds more than `total_depth + 1` nodes. This
  is the O(log n) memory guarantee of spec 4.3.
- **StackDecreasing**: stack depths strictly decrease from bottom to top, except
  that the top two may be equal while a merge loop runs.
- **RootCorrect**: a finalized root equals the root of a reference tree,
  `RefPadded`/`RefRoot`. That tree is built level by level from the appended
  leaves, with the code's padding and hash order, independently of the batching.
  This is spec 8's batch-invariance property, for every batching at once.
- **SinkMatchesTree**: every slot written holds the reference node of the
  (depth, index) the locator maps to that slot. No two nodes share a slot, and no
  slot lies outside the depth's padded count.
- **ProofsVerify**: after a complete finalize with a writer, the slots cover
  `0..TotalSlots-1` exactly, and for every leaf, hashing it with the slots on its
  `VerifyPath` reproduces the root slot and the returned root. This joins the
  locator's path math to the builder's writes.

- **RootCorrect** (calc_io): a finalized root is still the reference root of
  the appended leaves after any IoErrors before it.
- **Refines**: the calculator implements MTreeBuilderSpec under the mapping
  above.
- **RootFinal** (action property): once finalize has returned a root, no later
  call (a further batch, a further finalize) changes the root, the stack or the
  count of appended leaves. The tree is finished only by the count check of
  `append_leaf_hashes` and the empty-stack check of `finalize`.
- **CallsReturn** (liveness): every started call returns.
- **LoadRootCorrect**: a load that returns Ok has the root the writer
  computed. The leaf reads start after the header and step one digest.
- **LoadOutcome**: the load's outcome depends only on the stream's length:
  Ok when the header and all leaves are there, IoError otherwise.
- **LoadReturns** (liveness): every load returns, aborts or fails.
- **TextRoundTrip**: `from_str` accepts exactly the texts without extra ':'
  and inverts `to_string`.
- **RoutesMatchInstances**: every http app instance on a node has its gateway
  route to its port.

### Findings (violation runs, details in PROJECT.json)

1. **NoAbort** (calc_io_abort). After an IoError in `check_and_merge`
   (mtree.rs:527), the stack has already advanced. A caller that goes on
   appending merges past the root depth, and `calc_index_in_stream`'s
   assertion aborts. Spec 9 requires an error.
2. **SpecHashOrder** (calc_hash_order). `calc_parent_hash(node1, node2)` takes
   the later-pushed node first (lines 519 and 564), against spec 4.3.
3. **VerifyPathSound** (reader_verify_path). `get_verify_path_by_leaf_index`
   seeks to `hash_bytes * slot` without the header (line 173). Every returned
   hash is read from the wrong place.
4. **GenAppendReaches** (generator_append). The generator's
   `append_leaf_hashes` drops the calculator's future (line 280), so no leaf is
   ever appended.
5. **RoutesMatchInstances** (sched_collide). Root's app `a_u` and user u's app
   `a` share the host `a_u.*` (app.rs:74).
6. **InstancesFollowSnapshot** (sched_remove). `create_scheduler_by_input_config`
   loads no instances (main.rs:327), so an uninstalled app keeps its instance
   and its route.
7. **RelativeIsSubpath** (relpath). `get_relative_path` compares strings, not
   path components (path.rs:81). With base `/x` it strips `/xx`, a sibling, to
   `x`, where the test of path.rs expects a path below the base starting with
   '/'.

The models reach more defects. No run checks these; PROJECT.json lists them as
hazards:
- `finalize` called before all leaves are in aborts (line 578).
- A header with data_size 0 or leaf_size 0 aborts the loader (lines 359 and
  128).
- The generator's `finalize` compares ceil with floor (line 289).
- `did:web:example.com` has a host name that `from_host_name` rejects.
- More than 100 TCP ports overlap the next app's window, and two apps with one
  `app_index` share their ports (proved in general by PortWindowsCollide).
- `--boot` logs success after a failed `exec_tx`.
- One app without an image for the arch stops the scheduler.

### Mutants

Every property of a passing run has a mutant in PROJECT.json: a plausible bug
in the code that TLC then reports. For example:
- a capacity check off by one;
- a merge that hashes in push order;
- a merge loop that never breaks (CallsReturn, LoadReturns);
- leaves read from offset 0;
- a read that fails exactly at end of stream;
- `from_str` accepting more than three parts;
- a route that is not written.

### Fairness

- `FairSpec` of MTreeCalc is `WF_vars(CallStep)`. Once a call has started,
  its loop steps (pushes, merges, writes, asserts) are the steps of one
  awaited future on one task, and nothing else can take its turn. The next
  call of the caller is not forced.
- MTreeObject's `FairSpec` is weak fairness of the steps of
  `load_from_reader`, for the same reason. Path queries are not forced.
- The scheduler runs have no liveness property. The 5-second sleep and the
  RPCs depend on the environment.

### Deadlock

A run says `CHECK_DEADLOCK FALSE` only where the program really stops:
- after an abort;
- after a failed load or a failed `new` (no object exists);
- in the reader and the generator, which are single-use.

The calculator's `EarlyFinalize` constant (callers may call finalize before
all leaves are in) is TRUE only for the generator's instance: its own check
does not count the leaves appended.

## What is proved

Every theorem below holds for every value of the constants that satisfies the
named ASSUME of its module. TLC evaluates those assumptions on every run. The
provers are Z3 and Zenon (the PTL backend for the temporal steps), under
`tlapm` 1.4.5.

### MTreeCalcProofs (SerializeHashCalculator)

- **TypeCorrect: `Spec => []TypeOK`**, for every leaf count, symbol set and batch
  bound. It rests on the named assumptions `LeafCountAssumption` (a positive leaf
  count), `MaxBatchAssumption` and `HasWriterAssumption`. TypeOK alone is not
  inductive, so the inductive invariant `TypeInv` adds
  `append_count + Len(pending) <= LeafCount`: the batch accepted by
  `AppendLeafHashes` fits, so each `PushLeaf` keeps `append_count` in range. The
  lemmas show that:
  - a parent hash is a digest, and a parent is a node;
  - a write keeps the sink's values digests;
  - popping one or two nodes and pushing one keeps a sequence of nodes, with
    known length and prefix.
- **StackShape: `Spec => []StackDecreasing`**, from the inductive invariant
  `TypeInv /\ StackDecreasing`. The key lemma, `MergeKeepsDecreasing`, says:
  replacing two equal-depth top nodes of a decreasing run by their parent, one
  depth higher, leaves a non-increasing run. `MergeDone` then turns ≥ into > when
  the loop exits, because it exits only when the top two depths differ.
- **RootFinality: `Spec => RootFinal`** (an action property) under the
  hypothesis `~EarlyFinalize`. That is the caller discipline of the loader
  (`finalize` only after `leaf_count` leaves), which is not a check of the
  calculator. The inductive invariant `FinalInv` says:
  - finalize runs only with `append_count = LeafCount`;
  - once a root is out, the calculator is idle with an empty stack and a full
    count.
  So every later `append_leaf_hashes` fails its count check (`mtree.rs:483`),
  and every later `finalize` fails its empty-stack check (`mtree.rs:539`).
  Both leave the root, the stack and the count alone.

### MTreeCalcRefinement (the builder against MTreeBuilderSpec)

- **RefinementFromRootCorrect: `Spec /\ []RootCorrect => Refines`**, under
  `~EarlyFinalize` (the loader's discipline, as above) and
  `~WriteMayFail` (every write succeeds, as in the run calc_main).
- It is the standard refinement proof, one step at a time:
  - `Init` maps to `Abs!Init`: nothing is appended and there is no root.
  - `RefinementStep`: every step is an abstract step or a stutter of
    `<<appended \o pending, root>>`. A started `AppendLeafHashes` is
    `Abs!Take` of its whole batch. A refused one, a `PushLeaf` (lemma
    `PushKeepsLeaves`: pushing the head moves it from `pending` to
    `appended`), every merge, write, loop exit and abort are stutters.
    `FinalizeRoot` is `Abs!Finalize`.
- The inductive invariant `RefInv` adds three facts to `TypeInv` and `FinalInv`:
  - `append_count = Len(appended)`, so that the capacity check of
    `append_leaf_hashes` (`mtree.rs:483`) is the abstract `Take` guard;
  - no batch is pending while the calculator is idle or in finalize;
  - from `FinalInv`, finalize runs only on a full count and before any root,
    so that `FinalizeRoot` meets the `Finalize` guard.
  TLC also checks `RefInv` as an invariant on the calc_main instance.
- The value of the root is the one thing taken from outside: that the root
  returned is `RefRoot(appended)` is RootCorrect. RootCorrect compares with a
  recursively defined tree, so it stays with TLC (runs calc_io, and Refines
  itself in calc_main). The theorem separates the two parts of Refines: the
  control (batches whole, count kept, one root only when full) is proved for
  every constant, and the hash arithmetic is model-checked.
- `~WriteMayFail` is needed, and it is not a convenience. With failing writes,
  `MergeStepIoError` returns `IoError` from inside the loop of
  `append_leaf_hashes` (`mtree.rs:527`, through `check_and_merge`) and drops
  the rest of the batch. A call that has pushed part of its batch then fails,
  so "a batch is taken whole or refused" does not hold. TLC finds this in 8
  steps: batch `<<a>>`, then batch `<<a, a>>` whose first merge write fails
  with one leaf appended and one dropped. No run slot is left for it, so it is
  recorded here and as the partial-failure hazard at `mtree.rs:527`.

### MTreeObjectProofs (load_from_reader)

- **ReaderLoadOutcome: `Spec => []LoadOutcome`** and **ReaderTypeCorrect:
  `Spec => []TypeOK`**, for every header leaf count and every stream length.
- LoadOutcome is not inductive: it speaks only of the end of a load.
- The inductive invariant `LoadInv` follows the load phase by phase (`rpc`):
  - while leaves are read, `append_count + Len(pending) = leaf_read`, and the
    stream is long enough for every leaf read so far;
  - in finalize, the stream holds all `LeavesEnd` bytes;
  - a failed load stopped short of `LeavesEnd`.
- With no leaves (`MetaLeafCount = 0`), the calculator's leaf count is 1. So
  finalize's guard `append_count = LeafCount` is never met and the load cannot
  return a root. No lemma about the padding arithmetic is needed.

### SchedulerLoopProofs (app.rs port windows)

- **PortWindowsCollide**: for two apps that pass the `app_index <= 400` check
  (app.rs:23), the lower index first, whose port loops do not overflow u16
  (`FirstPort + ports < 2^16`), the host ports meet exactly when both declare
  a port and the first declares more than `100 * (q.index - p.index)` ports.
  - Nothing in app.rs bounds the number of TCP ports or makes app indices
    distinct. So equal indices always collide, and an app with more than 100
    ports always runs into the next index's window. This is hazard
    `app.rs:31`, stated for every pair of apps.
  - The lemma `U16Small` removes the `% 2^16` below the overflow bound.
  - The overflow itself (a debug panic, a release wrap) needs thousands of
    ports and is not covered.

### RelativePathProofs (get_relative_path)

- **SubpathExactlyHolds: `Spec => []SubpathExactly`**, for every alphabet and
  every length, under `MaxLen \in Nat`.
  - When the base is stripped off a longer path, the result starts with '/'
    if and only if the base ends with '/' or the path has '/' right after the
    base.
  - The lemma `RelativeHead` gives the result's first character in each
    branch of path.rs:82-86.
  - It explains the relpath finding in general: every other stripped path is
    a sibling-name extension like `/xx` for `/x`.
- **RelativeBelowSlashBaseHolds: `Spec => []RelativeBelowSlashBase`**: with a
  base ending in '/', the result starts with '/' and the base without its '/'
  completes it to the full path.
  - The lemma `SlashBaseSplit` carries the argument.

### DIDCodecProofs (DID::to_string / DID::from_str)

- **TextRoundTripHolds: `Spec => []TextRoundTrip`**, for every method and id of
  every length over every alphabet.
- The argument:
  - `TextLayout` gives the text `to_string` writes, position by position;
  - `SplitTwo` says what `str::split` returns for a text with exactly two
    separators;
  - `SplitMany` says that a third separator gives four pieces or more;
  - `ParseLayout` joins them: with no `:` in the method or the id, the
    separators are exactly the two written, so the pieces are `did`, the
    method and the id; otherwise `from_str` refuses.

### Only model-checked, out of the prover's reach

- Liveness (CallsReturn, LoadReturns), which TLAPS does not check.
- Refines as a whole: its control part is RefinementFromRootCorrect, and its
  root value is RootCorrect, below.
- RootCorrect, SinkMatchesTree, ProofsVerify and
  LoadRootCorrect compare with recursively defined reference trees, or with
  slot numbers from recursive functions of the leaf count. Proving them needs
  induction over data.
- StackBounded needs a counting argument over the binary digits of
  `append_count`, which is again induction.
- The scheduler's RoutesMatchInstances holds for the instances built by
  folding the transaction over the apps (induction over the fold).
- The locator's padding arithmetic in general.

## Not modelled

- **Left out, and why.**
  - The f64 rounding of `calc_depth` above 2^53 leaves: out of TLC's reach.
  - Sha256/Sha512, replaced by an injective concatenation hash.
  - bincode: the header is read intact, or the stream is too short.
- **Scheduler.** These parts are not modelled:
  - `do_boot_scheduler`'s template and key creation (a crash between two
    creates is a listed hazard);
  - service pods and their conversions (`service.rs` is not in the
    repository);
  - `ChangeNodeStatus` and `ChangePodStatus`;
  - the u16 overflow, which needs thousands of ports.

  `schedule()`, `extend_kv_action_map` and `exec_tx` are not in the
  repository, and the model uses only what the loop relies on.
- **Other code.**
  - Config merge (`merge.rs`): recursive JSON merging, with no state.
  - The repo client: a thin RPC wrapper.
  - The node daemon: process bootstrapping.
  - `get_auth_key`: base64 decoding.
