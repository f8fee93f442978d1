# Verification of wasm_solana: test-validator runner and RPC client types

TLA+ models of `crates/test_utils_solana/src/test_validator_runner.rs`, of the
commitment logic, the payload decoders and the status-meta conversion in the
client type forks (`forks/solana-transaction-status-client-types-wasm`,
`forks/solana-account-decoder-client-types-wasm`), and of the message account
parsers (`forks/solana-transaction-status-wasm/src/parse_accounts.rs`). TLC runs
check them on small instances, and TLAPS proofs establish their invariants, and
one refinement, for every value of the constants.

## 1. Inventory

### Components

| Component | Source | State it keeps | Operations |
|---|---|---|---|
| Port registry | `test_validator_runner.rs` 322-339 | `USED_PORTS`: a process-wide `HashSet<u16>` behind a `Mutex` | `is_port_available`, `mark_port_used`, `free_port`. Each one takes the lock on its own. |
| Port search | `find_ports`, 341-365. `TestValidatorPorts::try_random_ports`/`random_ports`, 145-160 | an attempt counter (100), a random base | picks a random base in `1000..u16::MAX-25` and checks its 24 ports. It retries, and returns `None` after 100 attempts; `random_ports` unwraps that `None`. |
| Props builder | `TestValidatorRunnerProps`, 33-96. `TestProgramInfo`, 98-125 | ports, programs, pubkeys, lamports, commitment, accounts, warp slot, epoch schedule | `builder().build()`. The default `ports` field calls `random_ports()` at build time. |
| Runner (orchestrator) | `run_internal`, 179-265. `run`, 277-279 | genesis, ports, `Arc<TestValidator>`, mint keypair, rpc client | Marks every port. Starts the faucet thread and blocks on its ack channel. Configures the genesis, starts the validator with `start_async().await`, builds the client, and warms up with an airdrop. Any error is a panic (`expect`/`unwrap`). |
| Handle and tear-down | `#[derive(Clone)]`, 163. `Drop`, 310-320 | the handle values (clones) | every handle value's `Drop` frees all the ports; the last `Arc<TestValidator>` shuts the validator down |
| Genesis configurator | `run_internal`, 214-240 | `TestValidatorGenesis` | rpc/gossip ports, rpc config with the faucet address, warp slot, epoch schedule, programs, the faucet account, funded accounts, and custom accounts merged last (last write wins) |
| Collaborators (outside the repository) | `solana_faucet`, `solana_test_validator`, `SolanaRpcClient` (re-exported by `wasm_client_solana/src/lib.rs`) | sockets | The faucet thread binds its port, then sends `Ok`/`Err` or dies. The validator binds rpc, rpc + 1 and the gossip start port, or panics. The airdrop answers `Ok` or `Err`. |
| Transaction status types | `forks/solana-transaction-status-client-types-wasm/src/lib.rs` | none (pure) | `satisfies_commitment`, `confirmation_status`, `into_binary_encoding`, `EncodedTransaction::decode`, `UiTransactionStatusMeta::from` and its helpers |
| Account decoder types | `forks/solana-account-decoder-client-types-wasm/src/lib.rs` | none (pure) | `UiAccountData::decode`, `UiAccount::decode` |
| Message account parsing | `forks/solana-transaction-status-wasm/src/parse_accounts.rs` | none (pure) | `parse_legacy_message_accounts`, `parse_v0_message_accounts` |

### Interactions

Tests run concurrently in one process, and they share only `USED_PORTS` and
the operating system's sockets. One test's runner goes through these steps in order:

1. `find_ports` runs while the props are built, not when the runner runs.
2. Later, `run` marks the ports, one lock per port.
3. It spawns the faucet thread, which binds the faucet port and answers on an
   unbounded channel.
4. On `Ok` it builds the genesis and awaits the validator start. The
   validator binds `rpc`, `rpc + 1`, because `rpc_port(p)` sets the rpc
   ports to `(p, p + 1)`, and `gossip_range.0`.
5. It awaits the airdrop and returns the handle.

The handle is `Clone`, and each of its values runs `Drop`. The faucet thread
is never stopped.

### What is hard here

* **Interleaving.** Another test's search or `Drop` can run between one
  test's `find_ports` and its `mark_port_used`, or among one test's marks and
  frees.
* **Partial failure.** A panic after the ports were marked leaves no handle to
  drop.
* **Aliasing.** Clones, and runners with overlapping port sets, free ports
  that another live runner holds.
* **No timeouts.** The ack channel, `start_async` and the airdrop can hang
  forever.
* **Numeric edges.** The u16 port arithmetic, the inclusive gossip ranges and
  the attempt counter.

### Properties that make each component correct

* **Registry.** Every registered port is held by a runner that has not freed
  it (`RegistryAccounted`). Every port of a live runner is registered
  (`RegistryCoversLive`). No two runners hold the same port
  (`NoDoubleReservation`). A failed start-up leaves nothing behind
  (`NoLeakOnFailure`).
* **Runner.** The sockets of a runner's services stay bound while it is live
  (`ServicesBoundWhileLive`). Every socket a live validator binds is reserved
  (`ValidatorSocketsReserved`). The search ends, and so does every start-up,
  provided the collaborators answer (`StartupSettles`).
* **Commitment.** `satisfies_commitment` is monotone in the commitment level
  (`CommitmentLevelsNested`), never revokes a level as the node advances
  (`SatisfactionStable`) and agrees with `confirmation_status()`
  (`ReportedAgreesWithCommitment`).
* **Decoders.** A decoded payload is the node's payload or `None`
  (`DecodeNeverMisreads`). Every binary request the build can decode comes
  back (`BinaryRequestsRoundTrip`). Together with the sanitize filter, these
  make up the abstract `DecodeContract` (`ContractSpec`).
* **Account parsers.** Lookup accounts are labelled as such and never sign
  (`SourceMatchesOrigin`). The legacy parser never reports an activated
  reserved key writable (`ReservedNeverWritable`). The v0 parser follows the
  reserved set its `LoadedMessage` was built with, which the code does not
  fix. So the two parsers can disagree (`ParsersAgree` fails,
  `parsers_disagree`), but only in the writability of keys on which that set
  and the activated set differ (`ReservedDivergenceOnly`).
* **Status meta.** Reading the UI meta back gives the node's meta
  (`ConversionRoundTrips`).

## 2. Modules

### `TestValidatorRunner` (the core)

`Runner` is a set of tests, and each test runs one runner through its life. The
variables are:

| Variable | Code |
|---|---|
| `used_ports` | `USED_PORTS` |
| `os_bound` | sockets bound by this process's faucets and validators. `ExternalPorts` are held by other processes, and `is_local_ipv4_port_free` tests both. |
| `pc` | where the test is: `idle`, `finding`, `resolved`, `marking`, `faucet`, `starting`, `warming`, `ready`, `dropping`, `done` or `failed` |
| `ports` | the `TestValidatorPorts` of the test |
| `attempts` | `find_ports`' counter |
| `cursor` | the next `mark_port_used` / `free_port` in the code's order (`PortList`) |
| `ack` | the faucet's message on the channel |
| `copies` | the live handle values |

| Action | Code |
|---|---|
| `BuildProps` | the builder: explicit ports, or the `random_ports()` default |
| `FindPorts` | one turn of the `find_ports` loop: `attempts -= 1`, a random base, its ports checked, then `Some` or retry or `None` (a panic) |
| `Run` | entering `run_internal` |
| `MarkPortUsed` | one `mark_port_used` |
| `RunLocalFaucet` | the channel and the faucet thread |
| `FaucetReply` | the faucet thread: bind then `Ok`, bind error then `Err`, or a closed channel |
| `RecvFaucetAck` | `recv().expect().expect()`, then the genesis set-up |
| `StartAsync` | `start_async().await` and the client |
| `RequestAirdrop` | the warm-up: `Ok` gives the handle. `Err` drops the validator and panics in `run`. |
| `CloneRunner` | `Clone` |
| `DropRunner`, `FreePort`, `DropDone` | `Drop::drop`, one `free_port` per step. The last value also shuts the validator down (`ReleasedSockets`). |

Every panic (`expect`, `unwrap`) ends the test in `failed`, with its marks left in
place.

**Abstractions.**

* One `find_ports` attempt is one step, although each `is_port_available`
  locks separately.
* Two clones of one runner do not drop at the same time. Both free the same
  ports in the same order, so the registry states they reach are the same
  prefixes.
* The validator's other sockets in the gossip range are its own business and
  are not modelled.

### `TestValidatorRunnerProofs`

The TLAPS proofs of `TestValidatorRunner`.

### `MC_TestValidatorRunner`

The TLC instances:

* Ports `0..7` stand for the u16 range.
* Random bases are `1..2`, with `GossipSpan = 1`. This gives port sets
  `{1..5}` and `{2..6}`, which overlap in four ports.
* The explicit sets are those two layouts.
* `MaxAttempts = 2` and `MaxCopies = 2`.

These bounds are enough for every case the properties are about:

* two tests that choose the same or overlapping ports, by either path;
* a search that runs out of attempts;
* a faucet whose port is taken by the other test's validator;
* a validator whose port is taken by the other test's faucet;
* a clone dropped while the other lives.

Every action and every disjunct fires in the `runner` run, which checks the
invariants and the liveness property in one pass (76292 distinct states).
Symmetry over `Runner` is used only in violation runs, which check invariants;
it would not be sound for the liveness property.

### `TransactionStatus` and `TransactionStatusProofs`

These model the commitment logic of `TransactionStatus`, in
`forks/solana-transaction-status-client-types-wasm/src/lib.rs`.

* `Status` is the record (590-600), reduced to the two fields either function
  reads: `confirmations` (a count, or `None` once rooted) and
  `confirmation_status` (`None` from nodes on older software).
* `satisfies_commitment` (603-620) and `confirmation_status` (622-636) are
  operators. Their definitions keep every branch, including both
  older-software fallbacks.
* The state is the node's latest answer for one transaction, plus what the
  client computes from it: `satisfied` (`satisfies_commitment` per commitment
  level) and `reported` (`confirmation_status()`).
* The actions are the node's progress, which is environment and not code of
  this repository:
  * `AddConfirmation`: one more confirmation. A current node may also move to
    `Confirmed`.
  * `OptimisticallyConfirm`: `Processed` becomes `Confirmed`.
  * `Root`: the answer becomes `confirmations = None`, and `Finalized` for a
    current node.
* `Init` picks a current or an older node.
* `MaxConfirmations = 32` is the count at which a slot roots
  (`MAX_LOCKOUT_HISTORY + 1`). This gives 101 distinct states: every count,
  with and without `confirmation_status`.
* A rooted answer never changes, so deadlock is not checked.

### `WireText`

Byte strings as RPC JSON carries them. A base58 or base64 string is the
record `[alphabet, bytes]`. `DecodeText(a, t)` gives `{t.bytes}` when `a` is
the string's alphabet; otherwise it gives `{None, Garbled}`, because a wrong
alphabet either fails or yields other bytes. Decoders therefore return the
*set* of results the code can produce, and `AndThen` is `Option::and_then`
over such a set. `WireTextAssumption` says that `None` is no byte string.

### `RpcDecoding`, `DecodeContract` and `RpcDecodingProofs`

One client asks a node for an account or a transaction in one encoding; the
node answers; the client decodes. The variables are `zstd_feature` (the
client's cargo feature, fixed for a run), `phase`, `req`, `answer` and
`result`. The actions are `Request`, `Respond` and `DecodeAnswer`.

| Definition | Code |
|---|---|
| `UiAccountData_decode` | `UiAccountData::decode`, account-decoder lib.rs 46-73, both `cfg(feature = "zstd")` arms |
| `UiAccount_decode` | `UiAccount::decode`, 86-97 (the `?` early return) |
| `into_binary_encoding` | status lib.rs 50-58 |
| `EncodedTransaction_decode` | status lib.rs 189-214: the early `None`s, the alphabet per encoding, deserialize, then the `sanitize()` filter |
| `UiAccountData`, `UiAccountEncodings`, `EncodedTransaction`, ... | the enums they decode |

`Respond` is the environment, an Agave node. `Binary` asks for the legacy
base58 string. `Base64Zstd` falls back to plain base64 when compression does
not pay, and `JsonParsed` falls back to base64 when no parser applies. A
transaction goes through `into_binary_encoding`. `Accounts` details carry no
transaction. `Deserialize` and `SanitizeFilter` are abstract:
`Sanitary \subseteq Data` are the transactions that pass `sanitize()`.

`DecodeContract` is the abstract specification, with no node and no wire. A
request ends in `Allowed(req, zstd)`:

* `{None}` for a transaction that does not sanitize;
* the payload alone for a request that is `Lossless` for the build;
* the payload or `None` otherwise.

`RpcDecoding` instances it (`Contract`), mapping the `answered` phase to
`requested`, so that `Respond` is a stutter.

### `ParseAccounts` and `ParseAccountsProofs`

`parse_legacy_message_accounts` and `parse_v0_message_accounts` are operators
over a loaded message: header, static keys, the lookups' writable and
readonly addresses, and the indices invoked as programs. `LoadedMessages` is
every sanitized message of up to `MaxKeys` distinct keys. The flags come from
`solana_message`, which is outside this repository and modelled from its
definitions:

* `is_signer`: `i < num_required_signatures`;
* `is_writable_index`: the three writable zones of the header;
* the exclusion of reserved keys;
* `demote_program_id`: a key invoked as a program, with no upgradeable loader
  present.

The legacy parser passes the activated reserved keys (`Reserved`). The v0
parser reads the writability the `LoadedMessage` cached with the set its
builder passed (`reserved`, one of `ReservedSets`). Actions `ParseLegacy`
(only for a message without lookups, which is also a legacy message) and
`ParseV0` record both outputs. A message is parsed once, so deadlock is not
checked.

### `StatusMeta` and `StatusMetaProofs`

`UiTransactionStatusMeta::from` (status lib.rs 264-311) and its helpers:

| Definition | Code |
|---|---|
| `UiCompiledInstruction_from` | 401-421: instruction data as base58 |
| `UiInnerInstructions_from` | 465-492: each inner instruction as `UiInstruction::Compiled` with its stack height |
| `UiLoadedAddresses_from` | 342-360 |
| `UiTransactionReturnData_from` | 313-340: base64 text tagged `Base64` |
| `TransactionStatusMeta`, `DefaultMeta` | 510-545 |

`TransactionStatusMeta` enumerates 1920 metas: each optional field absent or
present, an `Ok` or an error status, data and keys from small sets. Fields
that are only copied have one value each. `ReadMeta` is the reference
reader: it decodes every text with the alphabet its field declares. The one
action, `Convert`, is the node building the UI form. `OptionAssumption` says
that `None` (`Option::None`) is not one of the values a `Some` carries: an
error, a converted inner-instruction list or converted return data. The
Rust types guarantee this, and TLC evaluates the assumption on every run.

## 3. Runs

| Run | cfg | Expect | Checks | Shows |
|---|---|---|---|---|
| runner | `MC_runner.cfg` | pass | `TypeOK`, `RegistryAccounted`, `ServicesBoundWhileLive`, `StartupSettles` | Two tests with any mix of explicit and random ports, clones and failures never leave a registered port that no runner holds. They never lose a live runner's bound sockets. Under fairness (below), a search ends, and every started runner ends ready or panicked. |
| explicit_double | `MC_explicit_double.cfg` | violation | `NoDoubleReservation` | Two tests with the same explicit ports both reserve them (`run_internal` line 196 checks nothing). |
| random_double | `MC_random_double.cfg` | violation | `NoDoubleReservation` | Two tests with random ports can both be handed the same set: `find_ports` runs at build time and marking happens later. |
| clone_drop | `MC_clone_drop.cfg` | violation | `RegistryCoversLive` | Dropping one clone frees the ports of the live runner. |
| failure_leak | `MC_failure_leak.cfg` | violation | `NoLeakOnFailure` | A start-up panic after marking leaves the ports reserved for the rest of the process. |
| ts_commitment | `TS_commitment.cfg` | pass | `TypeOK`, `CommitmentLevelsNested`, `SatisfactionStable` | On every answer of a current or older node, finalized implies confirmed. A commitment once satisfied stays satisfied as the node confirms and roots the transaction. |
| pubsub_skew | `MC_pubsub_skew.cfg` | violation | `ValidatorSocketsReserved` | With explicit ports whose `pubsub` is not `rpc + 1`, the validator binds `rpc + 1` (`rpc_port`, line 222), which no runner reserved. The test's `ports.pubsub` is reserved but never bound. |
| rpc_decoding | `RpcDecoding.cfg` | pass | `TypeOK`, `DecodeNeverMisreads`, `BinaryRequestsRoundTrip`, `ContractSpec` | Every account and transaction request, in every encoding and under both builds, is decoded to the node's payload or `None`. It is decoded to the payload whenever the build can decode it, and never to an unsanitary transaction. The decoder implements `DecodeContract`. |
| parse_accounts | `PA_rpc.cfg` | pass | `SourceMatchesOrigin`, `ReservedNeverWritable`, `ReservedDivergenceOnly` | The messages are every sanitized message of up to three keys, with a reserved key and the loader present or absent. The `LoadedMessage` is built with the activated set `{k3}`, the empty set the test at line 118 uses, or an enlarged set `{k1, k3}`. Lookup accounts are labelled `LookupTable` and never sign. The legacy parser never marks `k3` writable. The two parsers differ only in the writability of keys on which the builder's set and the activated set disagree. |
| parsers_disagree | `PA_reserved_sets.cfg` | violation | `ParsersAgree` | A `LoadedMessage` built with an empty reserved set (as the test at parse_accounts.rs 118 does) makes the v0 parser report a reserved key writable where the legacy parser does not. |
| status_meta | `StatusMeta.cfg` | pass | `ConversionRoundTrips` | Reading the UI meta back, each text in the alphabet its field declares, gives exactly the node's meta. |
| ts_agreement | `TS_agreement.cfg` | violation | `ReportedAgreesWithCommitment` | An older node's answer with `confirmations = Some(1)` is `Confirmed` to `confirmation_status()` (`> 0`, line 630). It does not satisfy `confirmed` in `satisfies_commitment` (`> 1`, line 612), as the test at 708-715 asserts. |

**Fairness.** The `runner` run (`FairSpec`) assumes weak fairness of:

* the code's own steps: the search, the marks, the spawn, `recv`, the frees
  and the end of `Drop`;
* the answers of the faucet, the validator and the airdrop.

Nothing in the code guarantees those answers, because there are no timeouts.
So `StartupSettles` says only that the code itself never gets stuck.
Building props, running them, cloning and dropping are left to the tests and
are not fair.

**Deadlock.** It is not checked, because a test binary ends once every test
has finished: all runners `done` or `failed`.

Every property of a passing run has a mutant in `PROJECT.json`:

* giving up one attempt late (`OutOfAttemptsLate`);
* a `..` gossip loop in `Drop` (`FreedAllShort`);
* shutting the validator down on every clone's drop (`ReleasedSocketsEveryDrop`);
* no `attempts -= 1` (`AttemptsLeftNoDecrement`);
* `confirmation_status` returning the field without its fallback
  (`ConfirmationStatusNoFallback`);
* the fallback of `satisfies_commitment` without `|| confirmations.is_none()`
  (`SatisfiesCommitmentNoRootFallback`);
* `confirmed` accepting only `Confirmed` rather than "not `Processed`"
  (`SatisfiesCommitmentOnlyConfirmed`);
* `UiAccount::decode` without its `?` (`UiAccount_decodeNoEarlyReturn`);
* the Base64 account arm decoding base58 (`UiAccountData_decodeBase64AsBase58`);
* a `LegacyBinary` transaction read as base64
  (`EncodedTransaction_decodeLegacyAsBase64`);
* no `sanitize()` filter (`EncodedTransaction_decodeUnfiltered`);
* `<=` at the static/lookup boundary (`parse_v0_boundary`);
* the legacy parser passing no reserved set (`parse_legacy_unreserved`);
* return data written as base58 under the `Base64` tag
  (`UiTransactionReturnData_fromBase58`).

## 4. Proofs

`TestValidatorRunnerProofs` proves three theorems from `ConstantsAssumption`, for
every number of runners, every port range and every gossip span with
`PortMax - 1 + 3 + GossipSpan <= U16Max`. That inequality is the code's
`u16::MAX - 25` guard.

* **`TypeCorrect`** proves `Spec => []TypeOK`. `TypeOK` is not inductive on
  its own, so the proof uses `TypeInv`, which adds three facts:
  * a running search has at least one attempt left;
  * a runner past its props has a `PortSet` whose `rpc + 1` is still a port;
  * a ready or dropping runner has a live handle value.

  The proof has one step per action. It rests on the lemma `PortListType` (the
  ports marked and freed form a `Seq(Port)`) and on `LayoutType` (a random
  layout fits in u16).
* **`RegistryAccountedInvariant`** proves `Spec => []RegistryAccounted`.
  `TypeInv /\ RegistryAccounted` is inductive. Lemma `AccountedStep` reduces
  each step of runner `r` to three checks:
  * the other runners' holdings are unchanged (lemma `HeldFrame`);
  * what `r` adds to `USED_PORTS`, `r` holds afterwards;
  * what `r` held and is still registered, `r` still holds.

  Lemma `HeldAll` equates the prefix of `PortList` with its range.
* **`ServicesBound`** proves `Spec => []ServicesBoundWhileLive`. The
  invariant is not inductive: nothing in it stops one runner's failed airdrop
  or last `Drop` from releasing a socket another live runner relies on. The
  strengthening `BoundInv` says what each runner *owns* (`Owned(r)`):
  * its faucet socket, from the faucet's `Ok` until it leaves the live states;
  * its validator's sockets, while warming, ready or dropping.

  `BoundInv` adds two facts to `TypeInv`:
  * `OwnedBound`: owned sockets are bound;
  * `OwnedDisjoint`: no two runners own one socket, because the faucet and
    `start_async` bind only free ports.

  So what a runner releases, which it owns, is no other runner's. Lemma
  `OwnedStep` reduces every step of runner `r` to the free sockets `N` it
  binds and the owned sockets `R` it releases. Lemma `OwnedFrame` shows the
  other runners' ownership is unchanged. TLC checked `BoundInv` on the
  `runner` instance (76292 states) before it was proved.

`TransactionStatusProofs` proves three theorems for every
`MaxConfirmations` in `Nat \ {0}`:

* `TypeCorrect` (`Spec => []TypeOK`);
* `LevelsNestedInvariant` (`Spec => []CommitmentLevelsNested`);
* `SatisfactionStableTheorem` (`Spec => SatisfactionStable`, an action
  property).

All three rest on the inductive invariant `Inv`. It says that `satisfied` and
`reported` are the two functions of `status`, and that `status` is well formed:
a `Finalized` answer is rooted, and a rooted answer is `Finalized` or has no
`confirmation_status`. Nesting needs that well-formedness (lemma
`NestedOnWellFormed`). Stability follows from lemma `StepKeepsSatisfied`: no
node step takes a commitment away.

`RpcDecodingProofs` proves four theorems for all sets `Data`, `Sanitary` and
`Info` satisfying `WireTextAssumption` and `ConstantsAssumption`:

* `TypeCorrect` (`Spec => []TypeOK`);
* `NeverMisreads` (`Spec => []DecodeNeverMisreads`);
* `RoundTrip` (`Spec => []BinaryRequestsRoundTrip`);
* `Refinement` (`Spec => ContractSpec`): `RpcDecoding` implements
  `DecodeContract`.

The inductive invariant `IInv` records the following:

* a request in flight is a member of `Requests`;
* an answer on the wire is one of the node's encodings of the request
  (`Answers`);
* a decoded result is in `Allowed`.

The invariant is needed because a decoded result is only correct relative to
the answer it came from. The per-encoding work is done by two lemmas:

* `AccountDecodeAllowed`, with one case per `UiAccountEncoding`, and both
  answers for the encodings with a fallback;
* `TransactionDecodeAllowed`, with one case per encoding and details, and
  `FilteredTransaction` for the deserialize-then-sanitize chain.

`AccountDataArms` states the arms of the decoder's `match` one by one.
Zenon proves them; Z3 cannot translate the CASE.

`ParseAccountsProofs` proves three theorems for every key set, reserved set,
loader and `MaxKeys` satisfying `ConstantsAssumption`. That covers messages of
any length, not just the three keys of the `parse_accounts` run:

* **`SourceMatches`** proves `Spec => []SourceMatchesOrigin`.
* **`ReservedHidden`** proves `Spec => []ReservedNeverWritable`: the legacy
  parser never reports an activated reserved key writable.
* **`DivergenceBounded`** proves `Spec => []ReservedDivergenceOnly`. On a
  message without lookups, the two parsers report the same keys, signers and
  sources. They differ in writability only on keys in the symmetric
  difference of the builder's set and `Reserved`.

Neither theorem makes any assumption about `ReservedSets`: the code lets a
builder pass any set. The `parsers_disagree` run shows that the difference
happens.

The inductive invariant `PInv` is checked by TLC on both `PA` configurations
before it was proved. It says:

* the message is loaded;
* the reserved set is one of `ReservedSets`;
* each recorded output is empty or is its parser applied to the message. The
  legacy output also needs the message to have no lookups.

The work is in lemmas about the account-key list
`static \o writable \o readonly`:

* `Concat3` gives its length and the entry at each position;
* `Layout3` uses injectivity to show a static entry is none of the loaded
  keys, and a later entry is one of them;
* `AccountKeysLayout` applies both to a loaded message;
* `ParsedEntry` turns `is_writable` into "not reserved".

The generic lemmas are stated over plain sequences and instantiated with
fresh constants equal to the record fields, because Z3 handles record-field
arithmetic poorly.

`StatusMetaProofs` proves **`RoundTrips`** (`Spec => []ConversionRoundTrips`)
for all sets `Data`, `Errors` and `Keys`, from `WireTextAssumption`,
`ConstantsAssumption` and `OptionAssumption`. The invariant `SInv` says:

* the meta has the program's shape;
* `ui` is `None` or that meta's conversion.

The argument goes field by field, from the inside out:

* `DecodeOwn`: a text read in its own alphabet gives its bytes;
* `InstructionRoundTrip` and `InnerRoundTrip`: base58 instruction data and
  stack heights come back;
* `InnerOptionRoundTrip` and `ReturnRoundTrip`: `Option::map` and the
  `Base64` tag come back;
* `MetaRoundTrip` assembles the record.

`OptionAssumption` is what rules out a `Some` that would read as `None`.

Only TLC checks these:

* liveness (`StartupSettles`), because TLAPS does not handle fairness or
  ENABLED here;
* the violation runs, which are counterexamples rather than theorems;
* the mutants.

## 5. Plan

The modules are listed in the order in which they will be written.

1. Done: `TestValidatorRunner`, with the registry and the runner, and its proofs.
2. Done: `TransactionStatus`: `satisfies_commitment` and `confirmation_status` as
   operators over bounded statuses (`confirmations` in `0..N` or `None`, and
   `confirmation_status`), plus a status that a node advances. Properties:
   * monotonicity in the commitment level on well-formed statuses;
   * agreement of the two functions (`Some(1)` with no status is a candidate
     disagreement: "Confirmed" by one, not confirmed by the other);
   * stability of `satisfies_commitment` as the status advances.

   No RECURSIVE, so that these can be proved.
3. `Genesis`: the account map built by `run_internal` (faucet account, funded
   pubkeys, then custom accounts, last write wins) and the program list.
   Property: the spec's account scenario, and which balance wins on a key
   collision.
4. Done: `RpcDecoding` (with the `DecodeContract` refinement and its proof),
   `ParseAccounts` and `StatusMeta`.
5. `RunnerLifecycle`: an abstract lifecycle (the spec's
   `Unstarted -> PortsReserved -> AuxServiceRunning -> GenesisBuilt -> ... -> Ready | Failed`).
   `TestValidatorRunner` would be shown to implement it through
   `INSTANCE ... WITH pc` mapped to stages, with a TLAPS refinement proof.
6. More violation runs:
   * sequential tests reusing explicit ports, which fail because the faucet
     socket is never released;
   * done: an explicit pubsub that is not `rpc + 1` (`pubsub_skew`).
7. More theorems:
   * done: `ServicesBoundWhileLive` (`ServicesBound`);
   * done: every invariant of the `parse_accounts`, `rpc_decoding` and
     `status_meta` runs;
   * lemmas on `PortList`.

## 6. Not modelled

* The serde derives, `Display` for `UiTransactionEncoding`, and the record
  types that are only declared (`UiConfirmedBlock`, `Reward`,
  `UiParsedInstruction`, ...). They are pure serialisation with no state and
  no branch a property tells apart. The strings are abstracted to their
  alphabet and bytes (`WireText`).
* `EncodedConfirmedBlock::from` and `UiAddressTableLookup::from`. They copy
  fields, and two options default to empty vectors.
* `wasm_client_solana/src/lib.rs`, which only declares modules and re-exports
  other crates.
* `solana_message`'s writability rules and the node's encoders, outside this
  repository. They appear only as the environment of `ParseAccounts` and
  `RpcDecoding`.
* The internals of the validator, faucet and RPC client. Only their answers
  are modelled.
* The content of keypairs and program binaries, which is data the properties
  do not distinguish.
