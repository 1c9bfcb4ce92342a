# Drain Fabric: specification and proofs

Drain Fabric takes resources of a network fabric out of service without
breaking what depends on them. An operator requests a drain of a target; the
engine closes *admission* to the target, has the *obligations* bound to it
evacuated by adjacent runtimes, removes the resource, and declares the drain
complete once evidence proves it. A controller process serves the engine over
framed TCP to clients and node agents, and keeps its state in a snapshot file.
This directory holds TLA+ modules for all of these, TLC runs, and TLAPS proofs.
Source paths below are relative to the repository.

## The system and its parts

| Part | Source | Module | State |
|---|---|---|---|
| drain engine | `src/engine.cpp` | `DrainState`, `DrainEngine` | partly: no policy change at run time, no topology declarations |
| lifecycle of one drain | `src/lifecycle.cpp` | `Lifecycle` | modelled |
| drain sets, target order | `src/drain_set.cpp`, `src/identity.cpp` | `DrainTarget`, `DrainEngine` | modelled |
| admission fence | `src/admission.cpp` | `AdmissionFence` | partly: unbounded generations |
| obligations | `src/obligation.cpp` | `Obligation` | modelled |
| evidence ledger | `src/evidence.cpp` | `EvidenceLedger` | modelled |
| authority registry | `src/authority.cpp` | `AuthorityRegistry`; actions in `DrainEngine`, `EvidenceAuthority` | modelled |
| topology | `src/topology.cpp` | `Topology` | partly: the removal check |
| policy | `src/policy.cpp` | constant `Policy` | partly |
| runtime, persistence | `src/runtime.cpp`, `src/persistence.cpp` | `Recovery`, `Restart` in `DrainEngine` | modelled |
| controller server | `src/server.cpp` | `Controller` | partly: well-formed frames only |
| wire client, agent | `src/server.cpp`, `src/wire.cpp`, `src/agent.cpp` | `Peers` | agent modelled, framing abstracted |
| daemon, agent program, `drainctl` | `tools/` | `Controller`, `Peers`, `Recovery` | partly: loops, signal, process ends |
| JSON, digests, decisions | `src/` | none | text and bookkeeping |

One mutex guards the engine and everything it owns, so every public operation
is one atomic step. `advance()` is one critical section that steps all drains in
id order; the model takes one drain per step and keeps the lock (`turn`) until
the last one, so no other operation sees the middle of a pass. Requests are
collected under the lock and dispatched to the *sink*, the controller server,
after it. A server thread runs `poll_once` again and again: accept one
connection, serve one frame of each session, advance the engine, reap sessions.

## Modules

* `DrainTarget`: targets and the order in which a set is normalized.
* `Lifecycle`, `AdmissionFence`, `Obligation`, `EvidenceLedger`,
  `AuthorityRegistry`: one component each, operators and actions named after
  the functions of the code. The record fields are those some decision reads;
  wording, digests and counters are left out.
* `Topology`: `validate_removal_many` as a predicate over a declared network
  and the status of its resources. The depth-first search is modelled by the
  nodes that a route of bounded length can reach. The search of the code also gives up
  after `kMaxRouteExpansions` steps and then reports the route severed; the model has
  no such budget, and no network declared here comes near it.
* `DrainState`: the engine's variables and its reading functions, above all the
  `evaluate_*` functions, which give the blockers of a drain in a state.
* `DrainEngine`: the actions. One per public operation, and one per branch of
  `step_drain`'s switch. `Switch` takes the record and the ledger as they are
  when the switch is entered, because a blocked drain whose blockers cleared is
  resumed and takes its step in the same pass (`Unblock`).
* `DrainContract`: what an operator may rely on, without evacuation, evidence,
  blocking or restarts: a drain waits, holds the gate of its target, is drained
  or ended, and gives the target back only by restoration.
* `EvidenceAuthority`: ledger and registry composed without the engine, with
  callers that present any epoch, producer and time. An authority line quarantines
  the ledger and revokes the tokens; an incarnation installed alone
  (`InstallIncarnation`, here and in `DrainEngine`) does neither, as in the code.
* `Recovery`: the runtime and its four files. A file operation that a kill can
  leave half done is a step; a file is missing, rejected by its reader, or a
  snapshot of which the header's and the payload's incarnation, the epoch and an
  abstract content matter. A process is one run of the daemon or one `drainctl`
  command; there is one at a time.
* `Controller`: the server around `DrainEngine`. A thread's position in
  `poll_once` is explicit, the connection mutex is held only while a frame is
  received (as in `service_connection`), and handlers, the push to each agent and
  answers are separate steps that threads interleave. A frame that calls the engine is one
  engine action.
* `Peers`: `WireClient` with its one outstanding call, the agent in its three
  modes, clients, and the composition of all of it with the controller.
* `DrainCalls`: the engine under any caller. `Spec` in `DrainEngine` takes the
  arguments of a call from `Inputs` and `Bounds` so that TLC can enumerate them;
  `CallSpec` takes any value of their types, as a caller over the wire may.
* `DrainSafety`: the properties of the engine. `DrainRefinement`: the engine as
  an implementation of `DrainContract`. `DrainClaims`: the statement of a comment
  that the engine does not keep. The properties of the other modules stand at
  their end.
* `MCDrain`, `MCEvidence`, `MCRecovery`, `MCController`: instances for TLC.
* Lemmas, theorems and their proofs: `ComponentLemmas` (ledger, registry),
  `ComponentProofs` (ledger with registry, topology, recovery), `DrainProofs`
  (the engine's invariants), `DrainActionProofs` (timers, and what the steps of
  a drain rest on), `DrainContractProofs` (the contract alone), `ContractProofs`
  (refinement), `FabricLemmas` (how threads and peers move frames),
  `ControllerProofs` (the controller with its peers).

An operation the engine rejects changes nothing a later decision reads, so it
has no action of its own; the controller answers it with a failure (`Serve`). A
definition whose comment begins with *Slip* is a plausible mistake in the
definition after it; a slip is used by no specification and serves to show that
a property notices it.

## Runs

All use `-workers 2` and finish within five minutes. The bounds (`Bounds`,
`Inputs` in the MC modules) name where counting stops.

| Run | Instance | Properties |
|---|---|---|
| `lifecycle` | one target, obligation and drain; clock 1..3, settle time 1, freshness 1, one evidence number of either producer, one attempt, one exception, one new line or restart, four obligation revisions | `FenceSettledFirst`, `RetriesAreBounded`, `CompletionIsProven`, `RetirementIsProven` |
| `redrain` | one target, two drains one after the other, two obligations, four generations, failures reported at any time, one incarnation installed alone or restart; fair | `TypeOK`, `OneOwner`, `FenceHeld`, `ClosedFenceHasOwner`, `NoAdmissionBehindFence`, `GenerationsAdvance`, `RestorationSettles`, `ImplementsContract` |
| `correlated` | a set of two, or its members alone, and a third drain in one domain that tolerates two; four parallel resources between two nodes, with a pool, a diversity group and a route that need two of them; a ledger of one record, clock 1..2, one restart; fair | `DomainLimit`, `SerializedWithinSet`, `RemovalKeepsCommitments`, `BlockedIsStable`, `AdmissionIsDeadlockFree`, `ImplementsContract` |
| `evidence` | two streams, a ledger of two records, lines and incarnations 1 and 2 in any order, one token | `AttestedIsLive`, `NewestIsKept`, `SequencesAreFresh`, `RejectionIsFinal` |
| `recovery` | three lines, two contents, boot ids 0 and 1, one damaged file, one line moved under the runtime | `LinesAdvance`, `SaveIsAllOrNothing`, `RefusalHasCause` |
| `controller` | one worker, an agent with an obligation that may vanish, a client that may skip the handshake, drains, and then restores or shuts down; two attempts; a signal | `EvacuationSettles`, `CallsReturn`, `SignalStops` |
| `workers` | two workers, an agent that releases or ignores, a client that drains and then repeats or cancels, two attempts, a limit of one connection | `ReleasesAreOnRecord` |

Why the bounds are enough: two drains of one target are what a change of owner
needs, and four generations cover close, reopen, close, reopen. Three drains of
a domain of two are the least in which a drain waits for the domain and another
for its predecessor; of four parallel resources of which two must stay, the
third removal is the one that is refused. A ledger of one record is full as soon
as one removal is recorded, so the next cannot be. A freshness of one instant
with a clock of three lets evidence that was observed behind the closed fence
age out. Four revisions let an obligation be admitted, released, retired by the
engine and reappear. A second incarnation is one restart, or one line, at any
point. Three lines are three starts, so that a start follows a killed start that
followed a save, and two contents tell an old snapshot from a new one. Two
attempts make a request reach an agent twice, and two workers let one handle a
frame, or push, while the other has still to answer the same session; the agent
is registered next to the client although the limit is one
(`claim_connections`). `workers` declares its workers symmetric; it checks no
liveness.

Deadlock is checked in every run. In the controller runs a step that changes
nothing (`Over`) stands for the end of all processes.

**Fairness.** `FairSpec` adds weak fairness of `advance` to the engine and
nothing else: `poll_once` calls `advance()` on every round of every worker, and
the runtime's `tick` does so for an embedding that drives the engine itself.
`FabricSpec` says that every server thread goes on until it is done, that a
running peer takes the steps that are its own, and that the daemon's main thread
goes on; these are operating-system threads that wait with timeouts. Nobody has
to connect, to ask, to give up or to signal. The clock stands still in
`FabricSpec` and the retry interval is zero, so a retry is due at once and no
property there rests on the passing of time.

## Where code and text part

Each of these runs checks one statement of a comment or document and TLC finds
it violated; `PROJECT.json` quotes the lines.

* `claim_restored_in_service`: restoration of a *drained* target leaves the
  resource out of service. The fence is reopened before the drain is restoring,
  and the code that sets the status back requires the closed fence.
* `claim_hard_kill`: the boot marker is rewritten in place, so a kill in the
  middle of a start leaves a marker that every later start rejects.
* `claim_owner`: an evacuation frame goes to every reachable agent, not to the
  one that owns the obligation.
* `claim_shutdown`: a shutdown frame is answered and sets a flag that the
  daemon's main loop does not read.
* `claim_connections`: the limit on connections is read in one critical section and
  the session registered in another, so two workers that see room for one session
  register two. `SessionsAreBounded` proves how far this can go.

Further observations, met while modelling and not checked as runs:

* a drain cancelled while it is restoring is cancelled, not restored, and holds
  no fence (`engine.cpp:733`, against `docs/semantics.md:159`);
* a report without a drain id may take a protected obligation to Retired with no
  evidence (`engine.cpp:354`; `redrain` makes such reports);
* restoring a drain that never closed admission may hand out the current
  generation (`engine.cpp:796`, against the comment at 784);
* a report issued before a cancellation is applied after it (`engine.cpp:368`,
  against `engine.hpp:58`);
* `install_incarnation` moves the incarnation without quarantining the ledger, and
  `is_fresh` does not look at the producer, so evidence of the previous incarnation
  stays usable (`engine.cpp:107`, `evidence.cpp:200`, against `policy.hpp:135`); only
  tests and demos call it, and `AttestedIsLive` says how far back such evidence can
  come from;
* a re-observation with an older evidence number replaces a newer one, as only
  inequality is tested (`obligation.cpp:199`, against the comment at 196); the proof is
  judged again before anything is retired;
* with a full ledger a drain at the removal step oscillates between Blocked and
  Quiescing (`engine.cpp:1712`, against `docs/concurrency.md:104`); `correlated` reaches
  it, and `BlockedIsStable` shows that it is the only way to oscillate;
* an agent's acknowledgement of an evacuation is answered with a failure, on
  which the agent ends, although `--exit-after 0` means never
  (`server.cpp:640`, `agent.cpp:158`, `drainagent.cpp:82`);
* a restoration without a reachable agent is applied and answered with a failure
  (`engine.cpp:825`);
* where rename cannot replace a file, a kill in its fallback loses the snapshot:
  the backup is not tried when the live file is missing (`persistence.cpp:204`,
  `runtime.cpp:150`).

Some hazards rest on what the model leaves out, and are recorded only:

* exhausted ids leave the drains of a half-made set behind (`engine.cpp:674`),
  and an exhausted generation space erases the fence entry (`admission.cpp:63`);
* `apply_headroom` adds after its checked product, so the sum can wrap near the
  end of the range (`topology.cpp:66`);
* `advance()` reads the sink pointer after the lock is released while `set_sink`
  writes it under the lock (`engine.cpp:927`), and `begin_new_epoch` reads and
  installs the line in two critical sections (`engine.cpp:121`).

## Proofs

The theorems about the engine are about `CallSpec`. `SpecMakesCalls` shows that
the engine the runs check makes only such calls, and `FabricMakesCalls` that the
engine inside the controller does (see *Controller*), so each of them holds of
both.

**Ownership.** `DrainProofs` proves, for every set of targets, policy, topology
and bounds that meet the assumptions below: `TypesAreKept`,
`OneOwnerPerTarget`, `FencesAreHeld`, `ClosedFencesHaveOwners`,
`NothingIsAdmittedBehindAFence` and `GenerationsOnlyAdvance`. The inductive
invariant is `DrainInv == TypeOK /\ OwnershipInv /\ NoAdmissionBehindFence`.
None of the ownership properties is inductive alone. That a drain holds its
fence survives another drain's step only because that drain has another target
or was restored (`OneOwner`). That `CloseAdmission` does not seize a foreign
fence needs the owner of every closed fence to be known (`ClosedFenceHasOwner`).
First every action is shown to keep these facts, then the types; at the end the
steps are put together.

**Timers.** `FencesSettleFirst` and `RetriesComeToAnEnd` follow from `PacedInv`
(a drain past AdmissionClosed, or blocked from such a state, closed its fence
at least the settle time ago and has used no more than its attempts) and from
`GrantsInv` (exceptions are counted). Both speak of the state a blocked drain
returns to, which is what resumes and restarts need.

**What a step rests on.** `DrainActionProofs` proves the action properties.
`LedgerStaysLive` carries the ledger's own invariant into the engine: the
streams are in order, the newest record of each is there, and what is attested
is of the live epoch. The last part is the point: a restart quarantines, an
attestation revives, a caller records for any epoch and producer, the removal step
records in the middle of a pass, an incarnation is installed alone, and none of them
lets a record of an older epoch count. Nothing of the kind is claimed of the producer:
the code does not ensure it (see above).
With it, `RetirementsAreProven` and `CompletionsAreProven` show that the record
behind a retirement or a completion is of the live epoch, fresh and of the closed
period at that very step; both need `DrainInv` as well, because the generation the step
compares is the drain's own and the property speaks of the fence's.
`RemovalsKeepCommitments` needs that the removal is validated again in the
pass that carries it out. `BlockedDrainsAreStable` shows that the blockers
which keep a drain blocked are those its step would meet: for each state a
drain can be blocked in, no blocker in `evaluate_state` means that the
resumed step does not block. The one exception is stated, not assumed away: a drain
blocked in Quiescing whose removal the ledger cannot take (`RemovalUnrecordable`), for
which `evaluate_state` has no blocker and the removal step has one.

**Refinement.** `EngineImplementsContract` maps a drain to its phase (`phase`,
`Book` in `DrainRefinement`) and shows that initial states correspond and that
every step of the engine is a step of `DrainContract` or leaves its state alone.
`PhaseInv` adds to `DrainInv` that a blocked drain has a state to return to,
that only a cancelled drain was restored, and that the owner of a closed fence
is no longer waiting; with it, blocking, resuming and restarting keep every
phase. `ContractHolds` proves the contract's own invariant from the contract
alone (`DrainContractProofs`, instantiated a second time as `Promise` so that
its theorem is about the engine's phases), and `DomainsAreLimited` and
`SetsTakeTurns` carry the limit and the order of a failure domain over to the
engine.

**Evidence.** `ComponentProofs` shows `AttestedEvidenceIsLive`,
`NewestEvidenceIsKept`, `SequenceNumbersAreFresh` and
`RejectedTokensStayRejected` for any streams, capacity, skew, lines and incarnations, from
`LedgerInv`: types, attestation, no record newer than its stream's last number
(`OrderedLedger`), and the record of that number still there, within capacity
(`KeptLedger`). The attestation part speaks of the incarnations since the last
authority line (`fenced`, a history variable): a line quarantines everything, an
incarnation alone nothing, and `attest` revives only what the live incarnation
produced. Eviction takes the least of the retirable records in the order of
streams and numbers; that there is a least one follows from the numbers being
naturals, component by component (`VictimIsRetirable`).

**Recovery.** In `ComponentProofs`, `LinesAlwaysAdvance` rests on one fact: a
marker that is not rejected is at or above every line recorded since the last
reset (`MarkerCovers`). `SavesAreAllOrNothing` and `RefusalsHaveCauses` follow
the files through the steps of a save: without failed renames, damage and moved
lines the live file is missing or complete, and its content is the last saved.

**Controller: sessions.** `SessionsAreBounded` holds for any number of threads
and any limit. A thread that has seen room and not yet registered its session
counts as a session to come; `RegistryInv` says that sessions and such threads
together never exceed the bound: a thread that sees room is itself the one that
is not yet between the two steps. It needs no fact about the engine: every engine
action leaves the registry and the threads alone, or moves one thread past its
frame.

**Controller: calls.** `FabricMakesCalls == FabricSpec => CallSpec` says that
whatever frames arrive, and however threads interleave handlers, pushes and
answers, the engine is only called with arguments of their types: the obligations
and drains a frame names exist, the evidence it names has a stream, the session
acts under a token the registry knows. A frame is checked where it is sent and
used many steps later, so the proof follows frames. `Inbound(s)` is what a peer
has sent and the server has still to answer, the stream and the frame in a
thread's hands together; `Outbound(s)` is what is under way to the peer, pushes
included. `FabricTypes` gives the shape of both (`Asked`, `Sent`, `Pushed`) and of
what a thread and a peer remember; `FabricInv` joins it with `RegistryInv` and the
engine's `DrainInv`. It is inductive because the engine only adds ids
(`FormsGrow`): a frame that was well formed when it was sent still is when it is
served. `FabricLemmas` shows, step by step, that a thread (`ServerFlow`) or a peer
(`PeerFlow`) moves frames from one end to the other and adds none of another shape.

**Controller: release.** `ReleasesStayOnRecord` proves `ReleasesAreOnRecord` for any
number of threads, agents and clients. An agent sends evidence, waits for the
answer, and reports the release under the number it was answered; between the two,
the same evacuation may be pushed again, another agent may report the same
obligation, and a late answer may arrive. `ReleaseInv` follows the number: a peer
has sent, and is answered, only numbers of calls it has made (`NumbersOK`); under the
number of its evidence call it sent evidence of that release and is answered a number
of that stream (`ProofOK`); a report under way names a number on record (`ReportOK`);
and so does an obligation (`Backed`). The ledger's part is that the newest number
of a stream never goes back, evictions and restarts included (`LedgerGrows`); the
engine's is `ObligationsMove`: a pass retires only what names a release, and a report
does what it asks for. The theorem rests on clients sending what operators send
(`ClientRequest`): `handle_frame` takes a report from any session.

**Assumptions on constants.** `EngineAssumption` and `InputsAssumption` type the
policy, the bounds and the inputs. `TargetsAssumption` gives every target a
resource and a domain, and every request a number of targets. `StreamsAssumption`
says that streams are triples of numbers, as `EvidenceKey` is, and that every drain
and obligation within the bounds has its own. `RemovalAssumption` says of the
topology that a removal it accepts stays acceptable once the resource is out of
service; `RemovalStaysValid` proves that of `validate_removal_many` as modelled
in `Topology`, for everything that may be declared. `LedgerAssumption`,
`ControllerAssumption` and `PeersAssumption` type the remaining constants; there
is at least one thread and there are finitely many, and clients send operators'
requests. TLC evaluates all of them in the runs.

Only model-checked: the liveness properties `AdmissionIsDeadlockFree`,
`RestorationSettles`, `EvacuationSettles`, `CallsReturn` and `SignalStops`, because
liveness under fairness is out of the prover's reach. Every safety property that a
passing run checks is a theorem.

## Not modelled

* Bytes: framing, checksums, JSON, sockets, digests. Readers are modelled by
  what they accept; frames are well-formed.
* Texts and records nobody decides on: decisions, explanations, statistics,
  `audit()`, most of which is stated as invariants instead.
* Policy changes and topology declarations at run time: constants of a run.
* The ends of the integer ranges: generations, ids and sequence numbers are
  naturals. The overflow branches that return an error are never taken.
* Two processes on one state path, which nothing in the code prevents or
  supports.
* `--once`, `--exit-after-requests`, a token presented in a request in place of
  the session's own, malformed frames and version mismatches in the handshake.
* Liveness of the controller is checked with one worker and safety with two.
  That a push is skipped because a second worker holds the session's mutex occurs
  only in the safety run; pushes lost in other ways occur in both.
