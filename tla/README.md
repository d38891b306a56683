# QoS-Fabric: a TLA+ verification of the control plane

QoS-Fabric is a small control plane for service quality. Publishers register
under an incarnation and declare definitions (service classes, policies, paths)
and evidence (capabilities, reservations); a registry journals everything in a
crash-safe store; an engine evaluates contracts against what the registry
holds. These modules state what each part promises and check it, by TLC on
small instances and by TLAPS for every value of the constants.

Paths below are relative to the repository root (`src/...` is the library).

## The system

| Part | State | Operations | Correct when |
|---|---|---|---|
| Durable store (`store.cpp`, `store.hpp`) | directory: manifest, snapshot files, write-ahead log; object: next sequence, log bytes, intents in flight | `Open` (load or rebuild the manifest, replay, retire orphans, mint an identity), `Append`, `Stage`/`Commit`/`Abort`, `WriteSnapshot`, `Close`, `Verify` | acknowledged records survive every crash; recovery equals memory; refused ones never come back; damage is never mistaken for a torn tail |
| Registry, authority (`registry.cpp`) | epoch, publisher watermarks, leases (memory only), tick clock | authoritative `Open`, `AdvanceEpoch`, `RegisterPublisher`, `RevokePublisher`, `ExpireLeases`, `Close` | an incarnation is granted once, fencing state is durable, a lease is the newest grant of the current epoch |
| Registry, tables (`registry.cpp`) | generation lists of classes, policies, paths, capabilities, reservations; conflict markers | `Publish*`, `Compact`, pruning, getters | acknowledged generations stay what they were; memory is never ahead of the durable tables; retention is bounded; evidence is attributable |
| Registry, decisions (`registry.cpp`) | `decisions_`, `decision_order_` | `Evaluate`, `record_decision`, `prune_decisions` | memory and a restart serve the last committed verdict; the newest survives; a snapshot can be loaded |
| Evaluation engine (`engine.cpp`, `checked.hpp`) | none (pure) | `evaluate` | a positive verdict is backed by evidence; worse evidence never helps; relaxation is bounded and reported |
| Definition model (`model.cpp`), decisions codec (`decision.cpp`) | none | validation, canonical encoding, digests | encodings round-trip |
| Wire and transport (`wire.cpp`, `net.cpp`) | per connection, bytes under way | frame and hello codecs, blocking sockets | frames are bounded and checked |
| Registry server (`tools/qosfabric_cli.cpp`) | one registry, one connection at a time | hello, publish, ping, bye | every acknowledged publication is durable, every waiting publisher is answered |
| Publisher (`tools/qosfabric_publisher.cpp`) | boot counter file | bump the counter, hello, publish loop | an incarnation is spoken for by one process, a declaration is made once |
| Primitives (`ids`, `serialize`, `crypto`, `version`) | none | value types, byte codecs, SHA-256, CRC-32C | |

How they interact: the registry owns one `Store` and holds its own mutex over
every public operation, from `Stage` to `Commit`; the store's mutex is nested
inside. All mutations go through `stage_with_retry` (stage; if the log is full,
compact and stage again), a change of the tables in memory, `Commit`, and a
rollback when the commit fails; the epoch record alone is a single-phase
`Append`. `Evaluate` copies inputs out of the tables, calls the pure engine and
journals the decision. The server calls the registry for one connection at a
time, publishers reach it by a blocking request/reply protocol.

What is hard in it: crashes between file operations and inside an append;
compactions that run in the middle of a mutation; commits that fail after
memory changed; several budgets reached together; leases and watermarks whose
lifetimes differ (memory, epoch, forever); evidence judged by three clocks
(epoch, age, expiry); integer rounding in composition and relaxation.
Concurrency inside the library is serialised by the registry mutex, so an
operation of the registry is one action here; between processes it is not:
publishers and the server interleave message by message (`Fabric`), an
inspecting process and the owner of a directory file by file (`Inspection`). `PROJECT.json` lists the hazards line by line.

## Modules

| Module | Models | Used by |
|---|---|---|
| `DurableLog` | the abstract promise of the store | refined by `Store`; `DurableLogProofs` |
| `Store` | `store.cpp` file by file | runs `store_*`; `StoreProofs`; extended by `Inspection` |
| `Inspection` | `qosfabric_cli status` and `verify` beside a live owner, over `Store` | run `inspection` |
| `Registry` | epochs, publishers, leases, publication and compaction of `registry.cpp` over the store's promise | runs `registry_*`; `RegistryProofs`, `RegistryTableProofs`; extended by `Fabric` |
| `Fabric`, `MCFabric` | the server, the runs of the publisher tool and the connections between them, over `Registry`; three runs of one publisher | run `fabric`; `FabricProofs` |
| `Decisions` | the audit table of decisions | runs `decisions*`; `DecisionsProofs` |
| `Engine`, `MCEngine` | `evaluate()` and the validation it begins with; its small inputs | run `engine`; `EngineProofs`, `EngineStepProofs` |
| `StoreProofs`, `DurableLogProofs`, `RegistryProofs`, `RegistryTableProofs`, `FabricProofs`, `DecisionsProofs`, `EngineProofs`, `EngineStepProofs` | theorems about the module of that name (`RegistryTableProofs` continues `RegistryProofs`, `EngineStepProofs` continues `EngineProofs`) | TLAPS |

**Store.** `manifest`, `snapshots`, `wal` are the files; `pc` is the step that
`WriteSnapshot` or `Open` has reached, so that a crash (an action) may fall
between any two file operations. A successful append is one action; one that
fails leaves what `AppendFaults` allows, and `CrashInAppend` leaves nothing, a
torn frame or the whole frame. Frames carry type, sequence, attempt and
payload; lengths are one unit. `Recoverable` is what `replay_log` would rebuild
from the directory at this very moment, an operator and not a variable, which
is what makes the refinement mapping to `DurableLog` possible. `acked`,
`refused` and `faults` are history.

**DurableLog.** `durable`, `image`, `pending`, `up`. A crash may make the one
operation in progress durable or not; nothing else is lost or invented.
`Store` implements it (`ImplementsDurableLog`, run `store_crash`) with
`durable <- Recoverable`; compaction, opening steps and torn frames stutter.

**Registry.** `mem` holds the tables, `durable` the image a recovery would
rebuild, kept as one value because `Store` is shown to keep that promise, and
`walUsed` the frames in the log. Each operation is one action whose outcome is
nondeterministic where the store's is: acknowledged, refused by a fault, or
crashed with or without the record durable. `RegisteredLease`,
`LeasesAfterRegister` and `Rollback` follow the order in which the code changes
memory and takes it back. `granted` and `acked` are history.

**Decisions.** `table` pairs `decisions_` with `decision_order_`; `durable` is the
table that loading the snapshot and replaying the log over it makes, brought
along record by record as `apply_record` would, and `logged` counts the records
of the log. `latest` and `committed` are history.

**Fabric.** Composes `Registry` (one action per operation, inside the server's
step that calls it) with `conn`, the connection the server has open, `backlog`,
those the kernel accepted, `request` and `reply`, one message each way per
connection, because the protocol is a strict alternation. `run[r].at` is where
`main` of the publisher tool has come to: counter read, counter written, hello
sent, lease granted, declaration sent, ended. `boot` is the counter file. A run
may die at every point and give up whenever its receive timeout may expire; what
it has sent stays readable, so the server can register or publish for a run that
is gone. The server may die at every point, also inside a commit (`Registry`'s
outcomes), and every connection with it; replies it had sent arrive. `holders`
(who was told it has a lease), `confirmed` (declarations a run was told are
published) and `raced` (publishers two of whose runs had read the counter file
before either wrote it) are history.

**Inspection.** Extends `Store` with a second Store object, that of `status` or
`verify`, which nothing keeps out of the directory: it reads the manifest, lists
the directory, replays the log (cutting what it takes for a torn tail), removes
the snapshots its manifest does not name, and on closing appends a shutdown
record to the log it has open. Between these steps the owner goes on.

**Engine.** Operators over the inputs follow `evaluate()` section by section:
`ValidClass` and its like with `Formed` (intake), `Plan` (build_plan), `Status`
(resolution), `Value` and `Composed` (component_value, compose_values),
`Obligation`, `ResourceState`, `DisjointPaths`, `Outcome`, and then the
explanation: `Headroom`, `Candidates` with `BindingObligations`, and
`BindingResource`. Since `evaluate()` is pure, the actions are not handlers:
they are the changes of input (worse, withdrawn or other evidence, a stricter
class or policy, a later epoch or time, a request that names other generations)
under which two verdicts of one contract are compared.

## Runs

| Run | Shows | Expect |
|---|---|---|
| `store_crash` | crashes everywhere, one lost manifest: `AckedSurvive`, `RecoveryExact`, `RefusedNeverRecovered`, `SequenceAhead`, `Reopenable`, refinement of `DurableLog` | pass |
| `store_damage` | up to two rotted frames or a lost manifest: intact frames are kept, acknowledged records given up only by a requested repair | pass |
| `store_fsync` | a failed fsync of an intent and the reuse of its number | violation |
| `registry_fencing` | two publishers, failing and crashing registrations, expiry, epochs | pass |
| `registry_tables` | definitions over retention and log limits, equivocation, compaction in the middle | pass |
| `registry_wedged` | a full log at the next authoritative open | violation |
| `decisions` | re-evaluation, refused commits, compaction, restart, pruning | pass |
| `decisions_rollback` | a failed re-evaluation erases the committed decision from memory | violation |
| `decisions_retention` | generations of one contract exceed what loading accepts | violation |
| `engine` | every class, policy and path around each branch, malformed ones included: `PositiveIsBacked`, `RelaxationIsReported`, `VerdictIsExplained` (the binding obligation accounts for the outcome and its margin for the whole contract), `WorseningNeverHelps`, `BlameIsRight` (repairing another component than the one blamed never helps) | pass |
| `fabric` | runs that overlap, die and time out against a server that dies and has commits refused: `ConfirmedIsDurable`, `DeclaredOnce`, `OneVoice`, `CounterCoversWatermark`, and `Answered` (liveness) | pass |
| `inspection` | an inspection that began before a compaction was published removes the published snapshot | violation |

The violation runs are disagreements between the code and a document or a test
of the repository, quoted under `findings` in `PROJECT.json`. More was noticed
while modelling and has no run of its own:

- A snapshot stores decisions in key order, so even with no failure a restart
  may later prune other decisions than the process that wrote it would have
  (`DecisionsAreDurable` with `CommitFaults = FALSE`, two contracts).
- Composed loss is rounded at every component, so on three components or more
  it depends on their order by a few parts per million. It is never rounded in
  favour of the contract (`PositiveIsBacked`).
- `WriteSnapshot` replaces the log by a rename and does not sync the directory
  after it. Whether the old log can come back after a power loss depends on the
  file system; the runs take a rename as permanent.
- README.md:103 says the binding obligation and resource are named for every
  verdict. CONFLICT and REJECTED have none, nor have verdicts decided by the
  currency of the request alone; disjoint paths name no resource.
- The server looks up the previous generation of a reservation with
  `GetReservation(resource, reservation.generation)` (`qosfabric_cli.cpp:1007`)
  where for a capability it uses the latest. No client in the repository sends
  reservations.

### Bounds

- Store: sequence numbers to 5, three log frames, two intents in flight. That
  is enough for a mutation, a compaction, a crash in it, a reopening and another
  mutation under the numbers the first left behind. One payload suffices
  where records are told apart by attempt; two are used where an attempt may be
  paired with the wrong one. One lost manifest in `store_crash` and two faults
  in `store_damage` put damage before, between and after intact frames.
- Registry: two publishers with two incarnations each and three epochs let an
  old incarnation return after a crash and an epoch; a log of four frames makes
  registration and publication compact in the middle; one retained generation
  with three published ones forces pruning at each step.
- Decisions: a budget of two entries, two contracts with two generations.
- Fabric: a run that finds its counter file at `MaxIncarnation` does not start
  (the counter has 64 bits). One publisher whose tool is run three times, each run declaring once:
  two runs may overlap while a third starts from what they left in the counter
  file. Two resources, with room in the table for one, so that a declaration
  is also refused; four log frames, so that the server compacts in the middle; two
  epochs and a lease that lasts one tick, so that the server restarts and a
  lease expires under a run. More publishers would add connections in the queue
  but share no state except the tables, which `registry_fencing` covers.
- Inspection: one inspection, one payload, three log frames.
- Engine: one "whole" of 10 parts instead of a million. Rounding happens at the
  same places and shows sooner. Two components per path decide every
  combination of statuses and domains. The clock has three values, before, at
  and after the expiry of the evidence; one change lies between two verdicts.
  Required values and declared values lie on both sides of each limit and of
  its relaxation.

The 64-bit counters (sequence, epoch, generation, incarnation, clock) are
capped by guards: at the cap the action is disabled, where the code reports
exhaustion. The sums and products of the engine cannot overflow under the
bounds of `limits.hpp`, so that branch of REJECTED does not appear; those of
intake do.

Deadlock is checked in the runs of `Store` and `Inspection`: the environment may
always act there. It is off where the model stops by its caps: when the epochs are
used up, when all runs of `Fabric` have ended, when the directory can no longer be opened (which is what
`registry_wedged` and `decisions_retention` are about), and when the one change
between two evaluations is spent.

### Fairness

The library itself needs none: its operations are bounded sequential calls that
return. `FabricSpec` assumes weak fairness of the server's steps (accept, serve,
hang up) and of each run's own steps (write the counter, connect, send,
receive). Both are single-threaded processes that never wait for anything else
than the socket, so a step that stays enabled is one the operating system
eventually schedules; weak fairness suffices because nothing but the step itself,
a death or a timeout disables it. There is no fairness for starting a run or a
server, for dying, for the passing of time, or for the receive timeout, so
`Answered` does not rest on a run's giving up: a run that waits is answered, or
sees the end of its connection when the server refuses it or dies. It rests on
the clients being publisher tools, which close their connection
when they end; the server has no timeout against one that stays silent.

### Assumptions the runs rest on

- A commit that fails leaves no complete frame behind (`AppendFaults =
  {"absent"}` in `store_crash` and `store_damage`, and the same in `Registry`).
  When an fsync fails after a complete write, the outcome is unknown to the
  code as well; `store_fsync` shows the consequence for intents.
- A rename is durable once it returned.
- One process has the directory open, except in `inspection`. The code has no
  lock that says so. The inspector finds a usable manifest with an identity and
  sees the owner's appends whole; its removal of temporary files is left out.
- The kernel's queue of connections is long enough, a connection delivers bytes
  in order or ends, and a damaged frame ends it. One request fits in a socket's
  buffer, so sending does not block.
- Checksums detect damage and digests identify content.
- Both limits on generations (the option and the one on loading) are the same
  value, as they are by default.

## Proofs

Every safety invariant and every action property that a passing run checks is a
theorem, for all values of the constants that satisfy the assumptions of its module. The assumptions
say what the parameters are (sets, numbers, pairwise different markers) and the
bounds the code declares; `RegistryAssumption`, `FabricAssumption`,
`StoreAssumption`, `DecisionsAssumption`, `EngineAssumption` and
`EvidenceAssumption` are evaluated by TLC in the runs.

**`StoreProofs`.** `AckedAlwaysSurvive`, `RecoveryIsExact`, `RefusedStayOut`,
`SequenceStaysAhead`, `AlwaysReopenable`, `StoreTypesHold`, and
`StoreImplementsDurableLog`, the refinement, step by step: each step of the file
store is a step of `DurableLog` or a stutter with `durable <- Recoverable`. They
have one hypothesis, `SoundAppends`: an append that fails leaves nothing behind,
and nothing but the manifest is lost. Run `store_crash` satisfies it; without it
they are false, which is what `store_fsync` shows for intents and why
`store_damage` excuses a requested repair. `ValidFramesAreKept` needs no
hypothesis. The inductive invariant is `StoreInv == DiskOk /\ HistOk /\ ObjectOk`:
of the directory alone, of the history against the directory, and of the object
against both. Its heart is in `ContentsOk`: the newest snapshot with the log
rebuilds what the snapshot named by the manifest does, in every state between
two file operations, so a lost manifest loses nothing; and in `Covered`: no
number ever durable is above what the log and the named snapshot account for,
so the next one is fresh. The proofs replace the recursion of a replay by
`Holdings`, a set: in a well-formed log (`WellFormed`: numbers grow, an attempt
is journalled before it is decided and decided once) what a replay rebuilds
above a snapshot is the records and the committed intents above it, and then an
append adds at most one element, a cut suffix of torn frames none.

**`DurableLogProofs`.** The owner's image is what a restart would rebuild
(`ImageAlwaysDurable`), an attempt is decided at most once with one payload
(`OneOutcomePerAttempt`), nothing durable is ever lost (`NothingLost`). By the
refinement this is true of the file store.

**`RegistryProofs`.** `TypeCorrect`, `FencingStateIsDurable`, `FencingHolds`, and
`NeverGrantedTwice`, an action property. The inductive invariant is
`Inv == TypeOK /\ FencingIsDurable /\ Fenced`. None of the last two is inductive
alone: that a new grant is above all earlier ones follows from the comparison
with the watermark *in memory*, while after a crash only the *durable* one is
left; `FencingIsDurable` links the two while the registry is open, and `Fenced`
says that the durable one covers the history. It is the order of
`RegisterPublisher` that carries it: the watermark is journalled with the lease
and rolled back with it, never apart.

**`RegistryTableProofs`.** `TablesStayDurable`, `RetentionHolds`,
`EvidenceIsAttributable`, `OrderHolds`, `AcknowledgedStays`, over `TableInv`.
Memory and the recoverable image do differ: a compaction that fails has pruned
memory only, and the next publication appends to the pruned list. What stays
true is `Kept`: a list in memory is a suffix of the durable one, and all of it
while shorter than the retention limit. Order, attribution and acknowledgement
are kept of the durable lists and carry over to a suffix; `Retained` needs that
the durable list exceeds the limit by one at most, because each publication
prunes memory before it journals.

**`FabricProofs`.** First `FabricImplementsRegistry`: the server and the runs
take only registry steps, so every theorem above holds of the composed system.
On that rest `OneVoiceHolds` (no two runs are told they hold one incarnation),
`DeclarationsAreUnique`, `ConfirmationsAreDurable`, `CounterCovers` and
`FabricTypesHold`. `FabricInv` follows each message: a request in flight is what
its run holds in memory if the run is alive (`Asks`), an answer in flight is true
of the registry (`Knows`), nothing in flight is in a table yet (`Fresh`), who was
told holds what the watermark covers (`Holders1`), and the counter file is above
every number drawn from it unless two runs drew at once (`Counters`).

**`DecisionsProofs`.** `OrderAlwaysCovers`, `CommittedIsServed`,
`LatestAlwaysSurvives`, `DecisionTypesHold`, over `DecisionsInv`, which says the
same of the table in memory and of the one a restart makes. `OneGenerationLoads`
complements the finding of `decisions_retention`: when contracts are evaluated
in one generation only, every snapshot loads, so generations that share a place
in the order are the only cause.

**`EngineProofs`.** Of verdicts on paths of every length, with any values and any
whole: `PositiveVerdictsAreBacked`, `RelaxationStaysInWindow` and
`VerdictsAreExplained`. `Inputs` is the invariant: definitions are of their
types and evidence is valid, what the registry admits; the rest follows in each
state, since `evaluate()` is pure. `UpTo` and `Recursion` derive, from the
least-element principle, induction up to a number and the existence of the
recursive functions by which the model composes a path. With them
`DeliveryIsSafe`: what is left after rounding down at each component, times the
whole to the power of the other components, is at most the exact product, so a
composed loss within a limit holds exactly; the products are never computed,
only bounded step by step (`Chain`). The windows are a matter of one division
each way: the window is rounded down (`WindowIs`), the share reported up
(`RelativeIs`), and a share of an integral window, rounded up, stays inside it
(`RelativeBound`). For the explanation, the binding obligation has the largest
share or the smallest headroom, and a share that suffices for the tightest
obligation suffices for all (`SatisfiedScales`, `RelaxedScales`).

**`EngineStepProofs`.** Of two verdicts, before and after a step:
`WorseningIsNeverRewarded` and `BlameStands`. `Harder` relates the states: every
component declares no better and stays no more than usable, the requirements are
no weaker, the window and the permissions no wider. From it `OutcomeWorsens`
follows kind by kind: a composed value (`DeliveryShrinks`, `SumGrows`,
`ExtremesGrow`) and a relaxed limit (`RelaxedTightens`: the window's share of a
requirement never grows faster than the requirement) are monotone although both
are rounded, and what a component fails it goes on failing, so path diversity
falls. An obligation can still change from "violated" to "unknown", a lesser
finding, were a component to lose a value; `Harder` keeps what is declared, and
withdrawal is only promised never to make a verdict positive. Every worsening or
tightening is `Harder` (`WorsenIsHarder`, `TightenIsHarder`), and so is a
withdrawal, an advance of the epoch or the passing of time after which the
verdict is positive: what still counts then counted before. For `BlameStands`,
`BlamedFails`: the blamed resource fails by itself (`Supports`), which no other
component's evidence enters. A fact proved of every state is needed of the state
after the step; the lemmas named `...Next` are those facts, primed.

What the proofs changed in the model: the first part of `WorseningNeverHelps`
speaks of a contract that could be formed, because a malformed class may become
valid by asking for more.

Only model-checked: `DurableLog`'s
promise when appends fail half-way or frames rot (run `store_damage`); the five
violations; `Answered`, because liveness and `ENABLED` are outside the prover's
reach. What a recursive definition computes cannot be proved by the library's
induction theorems, which take an operator as a parameter; where it was needed
(`Replayed`, `Delivery`) the proofs use the least-element principle on a set.

## Not modelled

- `Verify`, `AdoptStoreIdentity` (which has no caller) and the read-only
  getters other than `LatestCapability`: they change nothing.
- Of the server: `--once`, Ping, the status request, reservations over the wire
  (no client sends them); of the administration tool, the subcommands that call
  one library operation and exit.
- Of the wire: byte layout, Revoke (no handler), partial reads and writes.
- Codecs, digests, the checks of identifiers and lengths, text: pure functions
  whose results the models take as given; a digest stands for its content.
- In the engine: the authority vector, the counts and the text of a decision.
- Benchmark, scenario example and tests.

## Plan

1. `DurableLog`, `Store`: the store and what it promises (done).
2. `Registry`: authority, publication, compaction over that promise (done);
   proof of fencing (done).
3. `Decisions`, `Engine` (done).
4. `Fabric`: the server loop and publishers that crash, overlap, time out and
   lose replies, over `Registry` (done).
5. `Inspection`: an observational open beside a live owner (done).
6. Proofs: every safety invariant the passing runs check, the refinement of
   `DurableLog` by `Store`, of `Registry` by `Fabric`, and the action properties
   of `Engine` (done). Left: of `Inspection`, that it adds steps to `Store` only
   in the files it opens, so that an owner that does not compact meanwhile keeps
   everything.
