# A TLA+ model of l3-firewall

l3-firewall takes packets from a Linux NFQUEUE, asks an embedded OPA policy for
a decision and gives the kernel a verdict.  Around that path it keeps a table of
connections, loads policies from a file and from etcd while it runs, counts what
it blocks and saves the counters across restarts, and feeds block lists, rate
limits, an audit log, packet captures and alerts.  This directory models those
parts in TLA+, checks them with TLC on small instances and proves most of their
safety properties, for every value of the constants, with TLAPS.

`PROJECT.json` lists the components, runs, mutants, hazards, findings and
theorems, and maps every definition to the lines of `src/` it models.

## The system

| Part | Source | Concurrency | Here |
|---|---|---|---|
| connection table | `internal/conntrack/table.go` | packet and maintenance goroutine; one mutex | `Conntrack`, `TcpFsm` |
| shipped policy and its input | `opa-policies/l3.rego`, `internal/opa/input.go` | expiry between the reads of one packet | `Policy` |
| policy evaluator | `internal/opa/embed.go` | two loaders, packet goroutine; `loadMu` and `mu` | `Evaluator`, `PolicyRegister` |
| etcd syncer | `internal/syncer/syncer.go` | one goroutine, etcd, Close | `Syncer` |
| policy file poller | `cmd/server/main.go` | one goroutine, whoever edits the file | `PolicyPlane` |
| packet pipeline | `internal/engine/engine.go` | receive goroutine; admin goroutines read | `Engine`, `BlockLog` |
| lifecycle, state file | `engine.go`, `cmd/server/main.go`, `internal/persist/persist.go` | main, signal, maintenance, receive goroutines; crash and restart | `Lifecycle`, `BlockLog` |
| packet parser | `internal/packet/parser.go` | none | `PacketParser` |
| rate limiter | `internal/ratelimit/ratelimit.go` | packet and maintenance goroutine; one mutex | `RateLimit` |
| threat intelligence list | `internal/threatintel/threatintel.go` | refresher, packet goroutine, operator | `ThreatIntel` |
| L2 bindings | `internal/l2filter/l2filter.go` | one mutex | `L2Filter` |
| audit log | `internal/audit/audit.go` | one mutex, files, restart | `AuditLog` |
| packet capture | `internal/capture/capture.go` | one mutex, files, restart | `Capture` |
| alert router | `internal/alert/alert.go` | one goroutine per post | `Alert` |
| GeoIP, metrics, path checks, admin servers | `internal/...` | | see the end |

A packet meets the parts in this order: the receive goroutine calls
`handleQueuePacket`, which calls `packetHandler` (parse, count, capture) and in it
`evaluatePacket` (connection table, MAC list, rate limits, block list, policy).  The
policy is replaced at any moment by the syncer or the poller.  The maintenance
goroutine expires flows and rate buckets and saves the state file; a signal
cancels the context that all of them wait on.

## The modules

**`TcpFsm`** is the switch of `UpdateTCPState` as operators: the next state and the
next `Established` flag for every combination of SYN, ACK, RST and FIN, and the
override for a flow first seen mid-stream.

**`Conntrack`** has one action per method of `Table` that changes it
(`LookupOrCreate`, `UpdateTCPState`, `RecordDestPort`, `Delete`, `Expire`) and one for
the passing of time.  Each method holds the mutex throughout, so each is one
step.  `flows` maps keys to flows; `srcFlowCount`, the rate trackers and the port lists
are the companion maps.  `normalizeIP` is a constant function, so an address can
have two spellings.  Eviction takes the oldest of some sample of the table: the
iteration order of a Go map is any order, so the sample is any set of its size.
The destination address and source port of a key are folded into its destination
port, as they only tell flows apart.

**`Policy`** composes the table with the rules of `l3.rego` that read it, along the
calls of `evaluatePacket`: track the flow, record the port, read the new-connection
rate, read the recent ports, build the input, evaluate.  Each is a step, and
`Expire` comes between any two.  It also has the ring of one-second slots behind the
rate.  The rules that read only the packet, packet rates, countries or the hour
are one choice: some of them matches or none does.

**`Evaluator`** splits `Load` and `rebuild` at their critical sections: taking `loadMu`,
compiling, swapping the compiler under `mu`, reading it back, preparing and installing
the query, notifying, unlocking.  **`PolicyRegister`** is what they promise, a register
with atomic writes: `Evaluator` implements it with the prepared query as the register
and the steps of `Load` mapped to a status per loader.

**`Syncer`** models etcd as the log of revisions of one key, a watch as the
position from which it delivers, and the goroutine of the syncer between its
blocking points: the Get and its answer are two steps, so the key changes in
between, and the watch starts at the revision current when it is created.
A batch of events is one step with every early `continue` of the loop.  Time is
one flag, whether `minReloadInterval` has passed since the last reload.

**`PolicyPlane`** extends `Syncer` with the file poller.  Both load into one
evaluator, taken here as the atomic register it implements.  Stat, read and load
are three steps; a file is edited in between, disappears, or cannot be read.  An
edit sets a later, the same or an earlier mtime.

**`BlockLog`** holds the operators of `recordBlock` on the counters per reason and the
recent blocks, shared by **`Engine`** and **`Lifecycle`**.

**`Engine`** follows one packet at a time through the handler, with a panic possible
wherever the handler calls out, both deferred recovers, the three counters as
separate steps, and a reader of `Stats` whose three loads interleave with them.
The configuration (fail-closed, audit-only, with or without an evaluator) is
chosen at the start, so one run covers all eight.  What a check answers is a
choice: the checks themselves are the other components.

**`Lifecycle`** is the process: boot, `restoreState`, `setLifecycle`, opening and
registering the queue, blocks being recorded, the ticker's and the last
`saveState` (create, encode and rename as three steps), the signal goroutine, the
return of `Run`, the exit of `main`, a crash at any step, and the next boot.

**`PacketParser`** keeps the offsets and lengths of a packet: which bytes are read,
the walk over IPv6 extension headers, fragments, and whether the transport header
is reported, marked incomplete or absent.

**`RateLimit`** has `Allow`, `AllowPort` and `Cleanup`, the average in thousandths of a
packet per second, and eviction from a sample as in `Conntrack`.  Beside the buckets it
keeps, per key, the gaps between packets that followed each other, which no eviction
or clean-up forgets.

**`ThreatIntel`** has `Add` line by line, `Remove`, the fetches at boot and by the
refresher, with feeds that fail or break off.  A URL of the refresher that does not
parse fails before a request is sent.  **`L2Filter`** has the table of bindings with
eviction at its cap.

**`AuditLog`** has the log file and its backups, named by the second of their
rotation.  A write fails with or without part of its line on disk, and the encoder
keeps the error.  A rotation fails when closing, renaming or reopening.  The
clean-up reads any part of the names, all or none, and any of its removals may
fail.  A restart goes on in the file it finds.  **`Capture`** has its files in the same
way: a rotation that cannot create its file, a clean-up that cannot read the
directory, a restart over the files of earlier processes.  In both, a call that
reports an error and changes nothing is no step.

**`Alert`** has the cool-down and the goroutines that post.  **`Clock`** is the time that
these parts read, each with its own tick.

**`Periphery`** puts these seven and `Evaluator` beside each other for one run.  They
share no state, so a behaviour of it is, by its definition, a behaviour of one of
them, chosen at the start.

## Runs

| Run | Shows | Instance |
|---|---|---|
| `conntrack` | counters per source equal the flows held, limits hold, trackers and ports come and go with flows, no flow is lost from the accounts, only an idle flow, a deleted one or an old one of a full table disappears, `Established` agrees with the state and no flow goes back | two sources, one with two spellings; capacity 3, limit 2, sample 2, four creations, ten flag combinations |
| `policy` | no scan that the live flows show passes, and the new-connection rate is that of its window | two sources, two ports, threshold 2, window of two seconds |
| `syncer` | never back to an older policy, what was recorded or read governs in the end, `Close` ends the goroutine | three revisions, one terminated stream, batches of up to two events |
| `policy_plane` | an untouched file never replaces the policy from etcd, the last edit, if it loads and its mtime is news, governs in the end | two revisions, two edits |
| `engine` | no packet is accepted undecided, counters stay within the recovered panics of the verdicts, `Stats` accounts for every packet, the block log is exact below, at and beyond the cap on reasons, every packet gets a verdict | three packets, three reasons with room for two, a log of two blocks, one panic, eight configurations |
| `lifecycle` | the disk never holds more than memory did, saved counters never fall, a failed `Run` leaves nothing open, a signal after set-up ends the process | two boots, three blocks, failing system calls |
| `periphery` | the parser reads within the packet and reports a transport header exactly when it is there; no source is rated faster than its packets came, and the limiter forgets only idle sources or old ones of a full map; new threats get on the list, stay, and feeds are asked again; a binding has one claimant; acknowledged audit events are kept; the open capture file is kept and captures are bounded; posts are bounded; a returned `Load` governs, loads return and the policy register is implemented | per part, below |
| `syncer_gap`, `early_signal`, `exit_save`, `rst_established`, `unmarked_fragment` | the five disagreements below | the constants of the passing run, or fewer |

The bounds.  In `conntrack` capacity exceeds the limit of one source, so both
refuse; the fourth creation needs an eviction and two sources share the table;
a sample of two misses one of three flows; RST, which the switch takes first, comes
alone and with everything else.  In `policy` two flows fill the table, so each source
evicts the other's, and a third second reuses a slot of the ring.  In `syncer` three
revisions are the applied one, the queued one and the one that overtakes the queue.
In `engine` the second packet shows what a panic on the first left behind, and the
third meets a map of reasons at its cap and a log that is full; two panics on one
packet are left to the proofs, which hold for any number.  In `lifecycle` the
second boot is the one that restores, and the third block finds the map of
reasons at its cap.
In `periphery`: the parser's lengths are one below, at and above each header end;
three rated packets, each with a bucket per address and per port, overfill three
buckets; three lines meet both caps of the block list; a second address evicts from
a table of one binding; seven events rotate the audit log of two past its two
backups, in three process lives; seven stamps do the same to the captures; a post
outlives its cool-down; the evaluator has two loaders, as in the binary, and good,
broken and empty policies.

`CHECK_DEADLOCK FALSE` is set where the system really stops: after `Close`, after
the last packet of the bound, after the last boot, and in `periphery`, where a part
has nothing left to do.  Symmetry is used in `policy` and `rst_established` only, whose
properties are invariants and whose two sources are interchangeable.

## What disagrees with its documentation

* `syncer_gap`: a policy written between the Get of `Start` and the creation of the
  watch is not read until the key changes again; the same holds of the Get after a
  terminated stream.  The syncer calls itself eventually consistent.
* `early_signal`: a signal handled before `Run` has stored its cancel function is lost,
  and the goroutine that waited for it has ended.
* `exit_save`: `Run` does not wait for the maintenance goroutine, so the process can end
  before the last save.
* `rst_established`: `UpdateTCPState` clears `Established` before the input is built, so
  the rule on state violations denies the RST of every flow, established ones too,
  which `l3_test.rego` allows.
* `unmarked_fragment`: an IPv6 first fragment that ends where its transport header
  should begin is not marked `L4Incomplete`; over IPv4 it is.  The comment on
  `L4Incomplete` says that first fragments short of the header are marked "at either
  address family".

Observed while modelling, and not the subject of a run:

* The dedupe of the syncer says that "the same policy is already applied"; a file
  edit may have replaced it, and a policy whose load failed is not tried again
  until the key changes.  After an empty value the slot may load the governing
  policy once more, which changes nothing.
* At 256 reasons the counters of known reasons stop as well, not only new ones.
  `BlockLogExact` says which blocks are counted.
* The poller compares mtimes: an edit in the same tick of the file system's clock, or
  a file with an earlier mtime, is not loaded.  `FileEditLoads` leaves both out.
* `main` trims the feed URLs that it fetches itself and hands the untrimmed ones to the
  refresher, where a URL after ", " no longer parses: it is fetched at start and
  never again, although `src/README.md:259` says "comma-separated, auto-refreshed".
  `FeedsAskedForever` is about the other URLs.  The number of entries that a fetch
  logs counts every line.
* Two rotations of the audit log in one second leave one backup, so fewer than the
  "newest MaxBackups" of `audit.go:282`; `AcknowledgedKept` leaves out the events of a
  backup replaced so.  One failed write, or a rotation that fails after closing the
  file, silences the log until a restart.  The first event after a restart may follow
  part of a line, and cannot be parsed.
* The captures of a new process are numbered from 1 again and the clean-up goes by
  name, so the files it keeps are not always the newest ones.
* A rate is recomputed by packets only: it does not decay while a source is silent,
  although `ratelimit.go:24` says that it "smoothly decays after activity stops".
  `NeverOverrated` bounds it by the packets that came, not by those that did not.
* `SYN_RECEIVED` has no arc for an ACK, so a flow seen from the client's side is not
  `ESTABLISHED`; no rule of the shipped policy reads `tcp_state`.

## Fairness

The runs with a liveness property assume weak fairness of the goroutines of this
program, each of which the Go scheduler keeps running: a loader inside `Load`, the
syncer between its blocking points, the poller's ticks, the handler of a received
packet, main, the signal and the maintenance goroutine, the feed refresher and its
ticker; and of time, so that the reload interval passes and timers fire.  A Get and
a fetch return, as they have a timeout, with an answer or an error.  An open stream
delivers what it holds or is terminated.

Two steps are strongly fair.  `LockLoadMu`: a Go mutex hands itself to a waiter that
starves.  `Stop` of the syncer: `select` chooses among its ready cases at random, so a
closed `stopCh` is taken in the end although events keep arriving.

Nothing else is assumed of the outside: etcd need not be written, the file need
not be edited, packets and signals need not arrive, and any call may fail.

## Proofs

All theorems hold for every value of the constants that satisfies the named
assumptions of the module: any number of packets, addresses, revisions, restarts.
The assumptions say that bounds and limits are natural numbers (capacities, the
sample and the port history at least one, as the constructors make them), that
normalising an address twice is normalising it once, that an empty policy does not
load, and that the port-scan threshold is within the port history.  TLC evaluates each
of them in a passing run.

Every invariant and every action property that a passing run checks is the subject of
a theorem.

`ConntrackProofs`:

* the inductive invariant `IInv`: types, a finite table, `CountsAgree`, `WithinLimits`,
  `TrackersFollowFlows` and `FlowsConserved`.  None of the four is inductive alone.
  The limits need the counters to be exact, as the code compares the counter and
  not the flows; the trackers need it too, as a tracker goes when the counter
  reaches zero; the accounts need the table to be finite and full when it evicts.
  `DecrCounts` and `PrunedSources` say what removing a set of flows does to the
  counters; `RemoveStep`, `TouchStep` and `CreateStep` are the three ways the table
  changes, and every action is one of them;
* `EstablishedAgrees` and `TcpNeverRegresses`, from `FlowStep` (what a step can do to a
  flow that stays) and two lemmas on the state machine;
* `PortsFollowFlows` and `LiveFlowsKept`; the latter counts, through the sample, how
  many older flows a victim can have.

`PolicyProofs` extends it to the composition: `Policy` implements the table, so the
table's invariant carries over, and `ScansDenied` follows from `PortsCover`: the port of
every live flow is in the history of its source, unless the history is full or the
packet under way has yet to record it.  `RingCountsWindow` follows from `RingHolds`: a
slot that was written is the one its second falls on and has that second's count,
and every second of the window with an opening still has its slot.  Both rates are
then sums over two sets that `MatchedSums` pairs off one by one, which needs that two
seconds of one window never share a slot (`RemaindersApart`).

`EvaluatorProofs`: a loader is between Lock and Unlock exactly when it holds `loadMu`,
there is at most one, and compiler, local copy and prepared query are its own
policy from the step that wrote them on.  Without the mutual exclusion the last
part is not preserved, which is the race that `loadMu` removed.  From it follow
`LoadedGoverns`, `SwapsAreSerial`, and that `Evaluator` implements `PolicyRegister`.

`SyncerProofs`: `SInv` orders the revisions at each step of the loop: what is applied or
queued has been seen, a Get reads at or after what was seen, a stream delivers
what comes after it.  `NeverRegresses` and `RecordedGoverns` both need `SlotIsNewest`, that
the slot is never behind the governing policy, which rests on that order.
`UntouchedFileYields` carries it to the composition: until the first edit the poller has
the mtime it was seeded with and never leaves its sleep (`PlaneInv`).

`EngineProofs`: `AcceptIsDecided` from what each stage says of the checks passed;
`CountersBracketVerdicts` and `StatsAccountForPackets` from invariants that add, for every
stage, what the packet in hand has already been counted as.  The bounds on the
differences are kept by five lemmas of plain arithmetic on `Bracket`.  `BlockLogExact` is
inductive with the types and a finite map.  For the log, appending and dropping the
oldest slides the stretch of the latest blocks by one.  For the counters, a block is
counted exactly when the map has room for one more reason, and the map's reasons are
those of the counted blocks (`CountersExact`); `CountingStaysExact` and
`SkippingStaysExact` are the two cases of a further block, below the cap and at it.

`LifecycleProofs`: `RunLeavesNothingOpen` from where main is; `DiskBehindMemory` and
`CountersNeverFall` from `FileInv`, which adds that the complete temporary file is the
copy taken from memory, that no save is under way before a start has read the file,
and that every set of counters is within the cap on reasons, without which a start
would not read back all of them.

`PeripheryProofs`:

* `ReadsInBounds` and `TransportReported`, from where the walk stands on the wire;
* `OneClaimantPerBinding`, inductive as it stands;
* `OpenFileKept` (the open file carries the last stamp, and a clean-up spares it) and
  `CapturesBounded`: the files that a clean-up spares are those with fewer than `MaxFiles`
  newer ones, and `LowestSuffices` counts them;
* `NeverOverrated`, from `RateInv`: the last packet of a bucket is the last of its key,
  so the gap that feeds the average is one between packets that followed each other,
  and an average of two rates that some gap allows is allowed by one of the gaps; and `BudgetsKept` (a victim of a
  sample of a full map has few older buckets);
* `PostsBounded`, from `AlertInv`: posts of one type start a cool-down apart and none is
  older than the client's timeout, so dividing their ages by the cool-down gives
  each a number of its own.

`IntelAuditProofs`: the threat list (`IntelInv`) has no network twice and its keys are the
networks listed, so the length that `Add` compares with the cap counts distinct
networks; removing the first match then removes the network.  `NewThreatsListed` and
`BlocksPersist` follow.  In the audit log (`AuditInv`) every backup holds at
least one event, as an open log knows its size, and only events earlier than those of
later names and of the log.  `NewestStay` is the heart of it: behind any name that a
clean-up takes, however few of the names it saw and removed, `MaxBackups` later ones
stay, and by the order of the files they hold later events.  A rename only adds to
those, and what it replaces is of the same second.  `Garbling` counts the lines that
begin with part of another: such a part is found only by a new process, whose first
event ends it.  `AcknowledgedKept` follows.

Where a sum or a count ranges over data of any size, the induction is by least
counterexample: a non-empty set of naturals has a least member (`LeastOf`), a non-empty
family of finite sets a smallest one (`SmallestOf`).

Only model-checked: the liveness properties, which need fairness (`LoadsReturn`,
`ReadPolicyGoverns`, `CloseStops`, `FileEditLoads`, `PacketsGetVerdicts`, `ArmedSignalEnds`,
`FeedsAskedForever`), and the five statements that the violation runs refute.

## Not modelled

* What a Rego policy computes beyond the rules in `Policy`; in the other modules a
  policy loads or does not.
* The values of parsed fields, GeoIP look-ups, metrics, path checks and the HTTP
  servers: stateless, or input and output only.  In `Engine` they are answers and
  panics.  Policy versions and authentication of the admin API.
* The list of allowed MACs reads constants.  `main` passes no L2 filter to the engine,
  and nothing calls `CheckARP` or `RecordDHCP`.  `FailMode`: nothing reads it.
* The byte rate, an average like the packet rate, and the ceilings on both.
* The receive loop may end on a netlink error while `Running` still answers true;
  `Lifecycle` has the state and no document promises otherwise.
* The port history can hold a port for a source without flows when `Expire` runs
  between a packet's look-up and its `RecordDestPort`; it goes with the source's next
  flow.
