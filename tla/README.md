# A verification project for zigbee-ninja

zigbee-ninja measures and attributes the traffic of Zigbee2MQTT meshes. Its
collector (`src/collector/zigbee_ninja`) subscribes to the MQTT broker, chains
commands to the echoes they provoke, prices them into a daily ledger, keeps raw
events, raises alerts, computes recommendations, and can, with the user's
confirmation, load a mesh with reads to measure its capacity.

The modules here model the parts of the collector in which several actors meet
on the same state, and those whose answers a user acts on; they are checked with
TLC on small instances, and the most important results are proved with TLAPS for
every value of the constants. Line numbers are those of the repository; paths
without a directory are in `src/collector/zigbee_ninja`.

## 1. Inventory

### Actors

| actor | runs |
|---|---|
| the event loop | MQTT messages (`Engine._handle_message`), `async def` endpoints, calibration tasks, discovery, the broker's task, loop-lag sampler |
| the flush worker | every 10 s, one pass: `flush_rollups`, `_flush_heartbeats`, `alerts.tick`, `events.flush` (`Engine._flush_and_tick`) |
| API threads | plain `def` endpoints of `api/app.py`, such as the manual abort, the alert rules, the state of a recommendation |
| the detector thread | `recommendations.run`, when due and no calibration is active |
| the world | the broker (QoS 0), Zigbee2MQTT and its extension, the tap agent, Home Assistant, the devices, the clock, a restart |

The loop and the threads share memory. Some of it has a lock (chains, events,
rates, fusion, the activity log), some has none (the calibration manager, the
ledger counters, the latency windows, the alert evaluator's states, the journal's
list), some is the SQLite database, where each `write()` is a transaction.

### Components

| component | state | hard | correct if |
|---|---|---|---|
| calibration lifecycle (`calibration/benchmark.py`) | tokens, `_active`, `_bulk`, task, cool-down | an abort on a thread against a batch's next launch; release after a failed record | one run at a time, only what was confirmed, full rests, every run released |
| ramp and replay driver (same file) | outstanding reads, counts, schedule, results | absolute pacing with catch-up, answers without identity, late answers | every read on the books, bounds hold, a recorded knee was sustained, the run ends |
| extension tile (`tiles.py`) | row, pending futures by transaction and by action | late and lost answers, overlapping calls, heartbeats applied by another thread | calls end, revoked stays revoked, a live probe heals its row |
| raw event store (`store/events.py`) | buffer, hot table, segments | each statement may fail or be the last before a crash; late timestamps | nothing deleted before it is copied, nothing stored twice, exports repeated |
| chain tracker, storage pass (`attribution/chains.py`, `ingest/engine.py`) | open chains, claim queues, tables, ledger counters | echoes and names arrive while the worker drains; two transactions | a chain is in one place, is stored after its window, and the ledger agrees |
| rollups (`ingest/rates.py`, `ingest/tap.py`) | buckets per window, watermark | a clock read before the lock, a clock set back, failed transactions | a stored window is whole |
| activity log (`ingest/engine.py`) | stack of notes, totals, window, slow ring | a garbage collection inside a note, on the thread that holds the lock | no deadlock, nothing told twice, each label keeps its newest |
| alert evaluator (`alerts.py`) | rules, states, baselines, open events | edits on a thread during the worker's pass, counters across restarts | events are closed |
| discovery publisher (`ha_discovery.py`) | grant, record of retained topics, loop, revoke | a revoke between the awaits of a cycle, outages, restarts | what is retained is on record; a revoke is finished |
| recommendations (`recommend/store.py`, `runner.py`, `verify.py`) | a row per finding, receipts | three threads read in one transaction and write in the next; days, model changes | dismissals hold, withdrawn rows go, receipts compare like with like |
| detectors (`recommend/*.py`) | none; read stored rows | several findings acted on together | advice is backed by what was recorded |
| envelope, headroom, scenarios (`capacity/`) | none; read stored rows | boundaries of windows and bins, groups whose members move apart | peaks and prices are those of a reference definition |
| wire tap and decoding (`ingest/tap.py`, `decode/`) | streams, frame buffers, pending tags | captures lose, repeat and cut; tags come round | decoded frames were sent; a latency is of one send |
| fusion (`ingest/fusion.py`) | pending observations, outcomes | either order, expiry at a bound before the watermark | each observation in one place, paired once |
| topology pulls and graph (`ingest/topology.py`, `capacity/hops.py`) | gate, pending future, snapshot | late answers, failed publishes; rows in any order | the gate opens; depths do not depend on order |
| no-op detection (`attribution/noop.py`) | reported values, values in flight, members | reports lag, colour modes move each other | a no-op is one |
| attribution (`ingest/hacontrol.py`, `attribution/chains.py`) | contexts, recent publishes, causes | two connections in either order, equal payloads | a name is of one who sent |
| registry and journal (`ingest/registry.py`) | lists per instance, journal rows | the worker swaps the list during an append; a device on two instances | the journal replays to the newest list |
| broker link (`ingest/mqtt.py`) | the task, its client, its settings | the task is replaced between awaits; overlapping requests | it is connected with the last settings |

How they interact: `_handle_message` calls the registry, the chain tracker, the
no-op detector, attribution, fusion, the tile and the calibration manager, as the
topic says, in one step of the loop; `_flush_and_tick` drains chains, rollups, counters and journal
into the database on the worker; detectors, verification and the capacity
summaries read the database; recommendations, alerts and tiles are written by
threads of the API. `components` in `PROJECT.json` lists the parts, those left out
too, and `hazards` what is hard to test, each at its line.

## 2. Modules

| module | models | checked in |
|---|---|---|
| `CalibrationLifecycle`, `...Props` | the manager of `calibration/benchmark.py`: previews to release | `lifecycle`, `abort_race` |
| `MeshLease` | abstract: what a run owes the mesh's owner | `lifecycle` (refinement) |
| `CalibrationRamp`, `...Props` | one run from its first step to its record | `ramp` |
| `RawEventLog` | the raw event store | `events`, `events_overwrite` |
| `CommandChains` | the chain tracker, the tables it drains into | `chains` |
| `LedgerCounters` | the two counters the loop and the worker share | `counters_twice` |
| `AlertEvaluator` | one rule, its events, the pass and the edits | `services` |
| `RecommendationStore` | one recommendation under three threads | `services` |
| `DiscoveryPublisher` | one instance's discovery topics | `services` |
| `ExtensionTile` | one instance's probe tile, its calls, its heartbeats | `services` |
| `TopologyPull` | scans of two instances | `services` |
| `LoopActivity` | the activity log of two threads | `services` |
| `BrokerLink` | the broker's task and the requests that replace it | `services` |
| `FrameFusion` | one instance's fusion tracker | `evidence` |
| `RollupWindows` | counters with a lock and latencies without | `evidence` |
| `WireStream` | bytes to frames | `judging` |
| `WireTap` | frames to latencies and totals | `evidence` |
| `MeshGraph` | the graph of a snapshot, route depths | `evidence` |
| `ChangeJournal` | registry lists to journal rows | `evidence` |
| `NoopVerdicts` | lamps, their group, and the verdict on a command | `evidence`, `noop_reversal` |
| `CommandAttribution` | two event streams and the chains they name | `evidence`, `attribution_guess` |
| `Verification` | an applied recommendation, day by day | `evidence` |
| `BurstEnvelope` | recorded commands and runs; peaks, bursts, limits | `judging` |
| `Scenario` (extends it) | moves of devices and groups, priced and recomposed | `judging` |
| `Groupcast`, `Pacing` (extend it), `Rebalance` | three detectors | `judging` |
| `Advice` | records for the three, of calibrated meshes | `judging` |
| `MC...` | instances for TLC; `MCServices`, `MCEvidence`, `MCJudging` hold several parts | |
| `OrderLemmas` | lemmas about least and greatest elements, ranges, cardinalities, induction over a finite set, sums over one | |
| `..._proofs` | theorems: `CalibrationLifecycle`, `CalibrationRamp`, `RawEventLog`, `CommandChains` each have a module, `Services_proofs` proves parts of `MCServices`, `Evidence_proofs` and `Attribution_proofs` parts of `MCEvidence` | |

A component's properties stand at the end of its module; the two of the
calibration have a module for them (`...Props`).

Composition is by what is at stake. `CommandChains` composes tracker and storage
pass, since the hazards lie between the two; `CommandAttribution` composes Home
Assistant's events, the extension's causes and the chains they name;
`NoopVerdicts` the detector, the registry's groups and the lamps;
`ChangeJournal` the registry, the engine's list and the worker. `Rebalance` holds
an instance of `Scenario` for each list of moves it tries, as `_proposal` calls
`price_scenario`. `CalibrationLifecycle` and `CalibrationRamp` split one file at
`_run`; their interface is `abort_reason` and the end of the run.

`MCServices`, `MCEvidence` and `MCJudging` put parts side by side that share no
variable; the theorems are about parts of the first two. `part` is chosen at the
start and says which part moves; the others stay in their initial state. Every
behaviour of a part alone is there, with stuttering of the rest, so a property of a
part means the same as in a run of its own; it is asked of the behaviours in which
that part moves.

### How state and actions correspond to the code

**CalibrationLifecycle.** A token stands for its authorization and for the task
started with it: `authz`, `age` are `_authorizations`; `active`, `bulk` are the
pointers; `pc`, `rest`, `reason` the task. One action per handler and one per
stretch of a task between two awaits. Everything on the loop is one step;
`abort()` is four (`AbortEnter`, `AbortReadsBulk`, `AbortFlags`, `AbortRequests`),
as it runs on another thread. So that an abort can fall between them,
`_run_bulk`'s last check and its launch are two steps as well (`BulkProceeds`,
`BulkLaunches`); `LoopFree` keeps the rest of the loop out. Ghosts: `left` (runs
still paid for), `quiet` (rest so far), `acked` and `overrun` (aborts answered,
launches since).

**CalibrationRamp.** `pc` is the await the driver is at. `StateReport` completes
the oldest read of a target, as `on_state` does, whatever it answers. Percentiles
and the wire's delivery failures are choices of the mesh; the counts, the stop
rules on them and their order are the code's. One tick is 5 s.

**RawEventLog.** A row is its number and its hour. `flush()` is `Swap`,
`Insert`, `CheckHour`, one `CopyHour` per closed hour, `DeleteClosed`,
`EnforceRetention`; the inserts, the copies and the DELETE may fail.

**CommandChains.** A chain is a record in `chains`; queues hold numbers. Every
tracker method is one step, as its mutex makes it, with its call of `_expire`
(`ExpireQueues`, `PoppedNow`) in it. The storage pass is `Drain`, `StoreRows`,
`Price`. `priced` keeps what the ledger knew of a chain instead of its price.

**LedgerCounters.** `d[key] = d.get(key, 0) + 1` is `Reads` and `Stores`: the
interpreter may switch threads after the call of `get`.

**AlertEvaluator.** One rule over its instances. A pass of the worker reads the
rule, evaluates each instance, opens or closes an event (a transaction each) and
sweeps; an edit stores the rule, closes rows and resets states in steps of its
own. `held` is the state object the worker goes on with after an edit has put a
new one in the dictionary. Counters become deltas against `baseline`.

**RecommendationStore.** One row. A pass emits, journals, verifies and withdraws;
`set_state` reads the row and updates it in two steps, which a pass may fall
between, and `sync` reads before the first statement of its transaction, so that the
user may fall between the two. The fingerprint is a number, and material is a change by half
(`Material`). A row that sync deletes may be made anew; the ghost `dismissal` outlives
it: the magnitude the user dismissed, and whether a pass that had read the row
as open was still to write (`ReadItOpen`).

**DiscoveryPublisher.** `loop` and `request` say at which await each task is:
`record`, `configs`, `states` for a publish cycle, `empty`, `forget` for a
clean-up. `recorded` is the setting in the database, `retained` what the broker
holds. A QoS 0 publish while disconnected raises and ends the task's pass.

**ExtensionTile.** Two calls, each a deploy or a revoke, share `_pending`
(`byTx`, `byAction`); Zigbee2MQTT answers, fails or stays silent. `WorkerReads`
and `WorkerWrites` are the two halves of `on_heartbeat`; a revoke may be confirmed
between them.

**TopologyPull.** A call goes from `publish` over `wait` (or `early`, when the
answer came before the future was awaited) to `store`; `scanning` is the gate.

**LoopActivity.** Each thread has a stack of notes: a collection that fires
inside `note` pushes another. `owner` is the reentrant lock, and `_trim_slow`'s
read and its store are two steps, between which a nested note appends.

**BrokerLink.** `link[t].at` is the await of task `t`. A request stores the
settings and cancels (`Apply`), then awaits the task's end and starts another
(`Replace`). `CloseFails` is a client whose exit raises during a cancellation;
`TakenOver` is the broker's side of one client identifier for all tasks.

**FrameFusion, RollupWindows, WireStream, WireTap.** One action per method, with
its sweep. `RollupWindows` cuts `record` and `add` where they read the clock. In
`WireStream` a record may be cut anywhere, and segments are lost, repeated and
overlap; a body is accepted by the CRC or it is not. `WireTap` has the sends by
message tag, confirmations, resends, and connections that come and go. A repeated
send, a late or a repeated confirmation may be seen when its tag has been given out
again; the ghost `crossed` remembers which messages' frames crossed in this way.

**MeshGraph, ChangeJournal.** Rows of a scan are taken one at a time in any
order; the breadth-first search takes peers in any order. `ChangeJournal` cuts the
append of a row in two, for its arguments are made after the list is looked up.
`Identities` are the pairs of a name and a short address a device may have; the rows
of one message are in the order of their kinds, and within a kind in some order
(`InSomeOrder`: Python's sets have none to rely on). A `device_added` row has no
address, so what is replayed knows one only from a `device_rejoined` row on. Ghosts:
`baseline` and `book` are each instance's first list since the start and the rows
written since.

**NoopVerdicts.** `actual` is what a lamp holds, `inbox` what it has yet to carry
out, `channel` what has been reported and the collector has not heard. `tracked`,
`values` and `pending` are `EchoState`, `named` and `members` the registry's lists.
A verdict is given in `Command`, against `Known` values and those `InFlight`. Ghosts: `asked` is the
latest verdict with what was true of it (`WillHold`, `Blind`, `crossing`), and `lost`
the devices of which the detector does not hold just what is in flight: a lapsed
value, a command it did not track, or one held for a device that had left the group.

**CommandAttribution.** `wire` and `events` are the two connections. A command
that comes second is named when its chain opens (`NameFor`, `EntityNameFor`), one
that comes first is named by the event (`ChainOf`). Chains and causes go from the head
of their queues (`Remaining`, `Fresh`), the chains also when nothing but time has
come (`Expire`). `acts` is who really sent; `late` records that a command came more
than the tolerance after its event.

**Verification.** A behaviour is a few days of one commander's spend and peak,
with a pricing model that may change within a day; `Check` is what `verify`
computes on a day.

**BurstEnvelope, Scenario, Groupcast, Pacing, Rebalance.** Commands and runs
become records as time passes; everything else is an operator on the records,
translated function by function, and compared in each state with a reference
definition. Prices are constants of a mesh or a device. A peak is looked for around
the busiest bins only (`PeakAround`): those of the mesh for its envelope, those of the
recomposed commands for a scenario's verdict (`BusiestAfter`, where equals are in the
order of Python's `Counter`) and for a proposal's. `PEAK_REFINE_BINS` stands for the
constant of that name of both files, 12 in `envelope.py` and 8 in `scenario.py`.

Definitions named `V_...` are variants of the definition after them, as a slip in
the code would change it. No action uses them; each property is broken by one of
them (`mutants` in `PROJECT.json`).

## 3. Runs

| run | shows |
|---|---|
| `lifecycle` | holds: single-use tokens, one run on the mesh, pointers agree with tasks, one launch at most after an answered abort, cool-downs, `MeshLease`; runs are released and batches end |
| `ramp` | holds: every read accounted, bound and cap, a recorded knee was sustained, a dead mesh gets one step, a replay is whole, runs end |
| `events` | holds: delete only what is copied, nothing twice, exports can be and are repeated, rows counted once, oldest go first |
| `chains` | holds: every chain in one place, stored after its window, rows final, ledger backed by the table, commands settle |
| `services` | holds: only edits and restarts strand an alert event, and the sweep closes the rest; a dismissal holds over the row's lives, but for one made between the read and the write of a pass, and withdrawn rows leave; what is retained is on record, revokes finish and grants publish; the tile's pending table is sound, a revoked tile comes back by a deploy or the one heartbeat already under way, calls finish and heartbeats heal; the scan gate matches its calls; held work is told once with its newest evidence and notes end; the broker link recovers |
| `evidence` | holds: observations in one place and paired once; stored windows whole; latencies of one send but where the capture missed or misread a frame or frames crossed, totals never fall; graph and depths as defined on the rows; a name is of a sender, and events and commands in time leave no publish to the lamp nameless; a no-op asked for what the device had or was about to have; receipts of one pricing model, verified by every burst; the journal replays to the newest list |
| `judging` | holds: frames genuine; peaks within a factor of two, the sweep's worst moment, limits of one run; scenarios priced as what they move and judged by a peak within a factor of two; detectors (below) |
| `abort_race` | violated: "manual abort always live" (docs/DESIGN.md:1008) |
| `events_overwrite` | violated: segments go by horizon and quota only (events.py:9-10) |
| `counters_twice` | violated: "self spend stays on the books" (engine.py:637-641) |
| `noop_reversal` | violated: a reversal of a command in flight "is `changing`, not a no-op" (noop.py:38-42) |
| `attribution_guess` | violated: a lost payload degrades "to ambiguous rather than guessing" (hacontrol.py:70-73) |

The violated properties are quotations; the traces TLC prints are described under
`findings` in `PROJECT.json`. Where a quoted promise fails, a passing run checks
what does hold instead: `AbortStopsTheRemainder` beside `AbortIsLive`,
`RetryCoversSegment` beside `KeptUntilRetention`, `NoopIsTrue` beside
`ReversalsAreSeen`, `CreditedToASender` beside `NeverGuessed`.

**The detectors.** `SavingsBacked`: doing as a finding says would have saved at
least the airtime it claims. `NoSeesaw`: a collapsed fan-out is not sent back to
its members by the next pass. `SilencedStillServed`: groups silenced for one
another, all at once, leave the devices of every command that was counted reached:
by an identical command of a group that is kept, or by one that is silenced
though no finding counts it (`COFIRE_FRACTION` lets up to a tenth of a group's
commands go without a partner; their devices are left alone). `PressureTold`: a second near a
limit is in a finding whoever filled it. `SpreadBurstsFit`: spread as proposed, a
burst keeps half the limit. `ProposalsRelieve`: after
a proposal no second around the busiest bins of its mesh is over the limit and
none anywhere over twice the limit, nor on the mesh it goes to if it splits no
group, and it passes the score it would get by hand.

**Statements stated and not run.** Eight more statements of comments are written
beside the properties of their modules. To see how one fails, give it to the
module's run: `AbortStopsSending` and `SaturationIsBackpressure`
(`CalibrationRampProps`: the inner loop sends what is due without looking at the
abort, and a publish that outlasts the step leaves slots neither sent nor
deferred), `AnswersAreOwn` (`ExtensionTile`: a late answer is given to the
next call), `NothingStranded` (`AlertEvaluator`: an edit during a pass leaves
an event open for good), `RevokeClears` (`DiscoveryPublisher`: a publish that
races the clean-up leaves a topic no record names), `DismissalDurable`
(`RecommendationStore`: a pass that had read the row as open deletes a row dismissed
since, and the next pass makes it anew), `FinalOfThisApplication` (same module, with
`MaxApplications = 2`: the verifier writes the receipts of the application
before), `CheckStops` (`Verification`: pending receipts pass the horizon).

### What the properties leave out, and the code does

Each exception is in the property or in its comment; these are the ones a reader
should know of.

- *Alerts.* `breach_since` survives readings that are missing; an edit of a rule's
  `instance` leaves the old instance's event to the sweep of a later pass, and an
  edit that falls into the pass strands it (`StrandedOnlyByEdits`).
- *Recommendations.* "Dismiss ... stays dismissed" (store.py:13-16) fails where the
  dismissal comes between the SELECT of `sync` (155-160) and its statements, which
  name the row by its id alone: a row that the pass had found open and no longer
  finds is deleted, dismissal and all (233-243), and made anew as open when the
  detector finds it again, at the same magnitude; one that it still finds gets the new
  magnitude with nobody asked, and is opened again by that one's measure.
  `DismissalHolds` excuses those dismissals and no others.
- *Tiles.* A heartbeat that `on_heartbeat` has checked (tiles.py:285) and not yet
  written when a revoke is confirmed makes the revoked row deployed again.
  `StaysRevoked` excuses that write and says that there is at most one: while the row
  is revoked the check lets no heartbeat through.
- *Scans.* The answer to a scan that timed out resolves the next scan of the same
  base; the gate is as it should be, the snapshot is the older one.
- *Latencies.* A late or repeated confirmation takes the send that waits under its tag,
  be it a newer message's (tap.py:635), and the latency is neither's. `LatencyOwn`
  lets a latency be of two messages where the ghost `crossed` has the pair.
- *Broker link.* Two overlapping requests each start a task; the second drops the
  first one's, which runs on, cannot be cancelled, and fights for the client
  identifier. A client whose exit raises swallows the cancellation: the request
  waits for ever while the old task lives on with the old settings. Both are the
  premises of `LinkSound` (`overlapped`, `kept`). The second is as `aiomqtt`
  raises from its exit, which is not under `src/`.
- *Journal.* A row appended to a list the worker has swapped, the rows of an
  insert that raises, and rows in hand at a restart are lost. `JournalReplays` is about
  the rows as they are written (`book`), from the last start on; of the table it is
  said only that it holds none twice (`StoredOnce`).
- *No-ops.* A report of an older value that equals the newest command confirms it
  early (noop.py:298-303); it is within `NoopIsTrue`, as the lamp will have it.
- *Scenarios.* `AfterIsRepriced` needs each of its three premises: a group that is
  staged twice counts twice, the movers of a split group that part are priced on
  the first one's mesh, and echoes of a group's commands are scaled with the
  census. The peak judged is around the busiest seconds after the moves
  (scenario.py:381-415): a burst that straddles two bins elsewhere may be missed, by
  half of it at most (`PeakAfterWithinHalf`), so that a scenario may be called clear
  with a second over the limit. Unicasts are priced at one hop, where the ledger
  knows the hops.
- *Groupcast.* A fan-out counts as covered by any group command of its digest in
  the window, whatever group it goes to (groupcast.py:204-210; the docstring,
  14-16, speaks of a group that covers the targets); so `SilencedStillServed` is
  about groups only. Two groups with the same members are each told to yield to
  the other. A group within several others claims its saving in each finding.
- *Pacing.* The spread is sized on the burst with the highest peak: a flagged
  burst with more commands does not fit. Where the mesh has a limit, overruns of
  one device are paced to half of that. Bursts of few commands are not told.
- *Rebalance.* The copies a split group adds to its destination are priced but not
  in its peak. Two proposals of one pass may choose the same destination. The
  score asks for every pressured mesh to be clear, the advisor for the one.

### Bounds, and why they are enough

- `lifecycle`: two tokens give two owners of every pointer; batches of three let
  an abort fall before, between and after runs; TTL 3 and cool-down 2 make each
  clock expire and saturate apart from the other; the restart is unbounded.
- `ramp`: two steps, bounds 1 and 2, intervals 2 and 1, four ticks a step, two
  targets (the round robin wraps), read cap 5 (reached in the second step), awaits
  up to two ticks late (a read timeout is one, so a publish can outlast it).
- `events`: buffer 2 and three rows fill and refill it; hours 0 to 3 let a row be
  one hour late, an hour be exported, exported again and retired (horizon 2,
  quota 2 rows); one failure and one restart, which may meet.
- `chains`: a device and two groups of it, two commands: a set with a short window
  behind a get with a long one in the device's claims, the case in which the head
  of a queue holds up what is behind it. Age saturates where nothing depends on it.
- `services`, alerts: one instance, breach and clear sustained for one and two
  passes, two edits (disable and enable again) and two events, so that one pass
  may have an edit on either side; a counter of up to 2 with a restart. Store:
  fingerprints 4, 5, 6, of which only 4 and 6 differ materially; an
  application, three changes of what is found (a withdrawal between the pass's read
  and its write, and the finding again) and a crash. Discovery: one configuration, one state,
  two prefixes, two grants, an outage, a rename and a restart. Tile: two calls,
  the least that can be given each other's answer; one loss and one restart.
  Pulls: two calls, two instances, two answers: one late, one in time. Activity:
  two threads, three notes and one sample: a nested note and one after it, with a
  ring of two. Link: two requests and three tasks, two drops, one error.
- `evidence`: two senders, two sequence numbers that come round, one pending place,
  two observations a side; windows of two ticks, two events and a clock set back by one; one tag
  for two messages, so that the second may be sent while the first's confirmation
  is still to come; four rows of a graph with a ring, a chord, a loop and a foreign
  node; two automations, two acts, payloads equal or not, chains and causes that go
  within the time there is, one reconnect; two lamps and their group, two commands
  and one disturbance, a table with room for two of the three names; days 0 to 3
  with two models; for the journal one device that two instances hand on, two names and
  two addresses, three changes, one failed insert or restart.
- `judging`: a TCP numbering modulo 12 that wraps within two frames, one loss, one repeat and two
  sessions; four half-second ticks with at
  most four records (a run counts as two) and two moves over three meshes, staged once
  the window is recorded; one bin is looked around, so that two bins and a straddle
  suffice to miss one; for the advice three ticks of a second, four commands, six
  streams that make fan-outs, riding groups and bursts of two commanders, three
  groups each in the next, so that one is silenced for a group that is silenced
  itself, a co-fire fraction of one half (with four commands nine tenths would
  mean all, and no command would be left without a partner), and two
  calibrations: mesh and device limits, one destination with room and one without.

Counters of tasks, edits, failures, restarts, drops and records are the bounds
named `Max...`; each is a guard of the action that counts.

Deadlock is checked in `lifecycle`, `ramp`, `events` and `chains`. It is off where
a part comes to rest when its bounds are used up: `services`, `evidence`,
`judging`, and the runs that expect a violation. Symmetry is used in `abort_race`
only, which checks an invariant.

### Fairness

- `CalibrationLifecycle`: weak fairness of each task's steps and of the clock: a
  ready task is resumed by the loop. None for users, aborts, watchdogs or restarts.
- `CalibrationRamp`: weak fairness of the driver (a publish answers or fails, by
  the MQTT client's own timeout) and of time. None for the mesh: it may be silent.
- `RawEventLog`, `CommandChains`: weak fairness of the worker's steps (the flush
  loop makes a pass every 10 s whatever the last one did), and of time; none for
  commands and reports, so chains settle without traffic.
- `AlertEvaluator`: the worker's pass, and the steps of an edit once begun; none
  for edits, breaches or restarts.
- `RecommendationStore`: the detector's pass, which the runner repeats; none for
  the user.
- `DiscoveryPublisher`: the publish loop, a revoke once begun, the reconnect of
  the broker's task and the registration of an instance that is announced again
  (retained messages). None for grants, outages or renames.
- `ExtensionTile`: the calls (`wait_for` ends), heartbeats and the worker, which
  repeat every 15 s and 10 s. None for Zigbee2MQTT or the broker.
- `LoopActivity`: each thread's steps within a note; none for new notes or
  collections.
- `BrokerLink`: the steps of a task that connects, wakes or closes, and a request
  whose awaited task has ended. None for losses, errors or requests; losses are
  bounded, as no task recovers from losses without end.
- What `evidence` and `judging` check is safety and needs none.

## 4. Proofs

`tlapm` checks the seven modules and `OrderLemmas` from nothing in about an hour of one processor core. Each
theorem holds for every value of the constants that the named ASSUMEs of its
modules allow. The layout is the same in each module: an inductive invariant, a
lemma for the initial states, one for each action (or group of actions) and
each conjunct it can disturb, and the theorems at the end.

**CalibrationLifecycle_proofs**, for every set of tokens, batch size, TTL and
cool-down. The properties are not inductive by themselves. `IInv` adds: `Pointers`
(if both pointers are set they name the same task, a batch task is the one `bulk`
names), `Clocks` (rest so far plus cool-down left make a whole cool-down; a batch
past its wait owes none), `Credit` (a token has paid for what is left of its
queue unless an abort took it), `Aborts` (an answered abort left its flag; a batch
that launched after one has passed its last check). Each action has a step in each
lemma. From `IInv`: types, single-use tokens, pointers, mutual exclusion and with
them `SoundRuns`; the one launch after an abort; the cool-down as an action
property; and `Refinement`: each step is a step of `MeshLease` under the mapping
of `CalibrationLifecycleProps` (holders: tokens with a run on the mesh; credit:
`left`) or leaves it unchanged.

**CalibrationRamp_proofs**, for every ramp, schedule, number of targets and cap
(`BooksStayRight`, `RecordsAreSound`). What is in the queues is counted as the set
`Reads` of pairs of a target and a position; that a completed read is one fewer
and a send one more are lemmas. `IInv` adds `Clearances` (what the driver has
checked since its last await still holds, since an answer only makes room),
`Numbered` (a record for each step before the current one) and `Replaying` (a
replay has sent exactly the commands before its slot, none before its time).
`RecordsSound` then needs `Judged`: a step that broke no rule was sustained.

**RawEventLog_proofs**, for every bound. `IInv` adds `Numbered` and `Filed` (no row
without a number given out, segments hold rows of their own hour), `Exporting`
(while an export runs, what it has copied is what the table still holds of those
hours: nothing inserts in between, because the worker is the only one to insert)
and `Disjoint`. From it: types and the buffer's bound, nothing stored twice and
rows counted once (`StoredOnce`, the run's `RowsOnce`), exports repeatable, that
the DELETE takes only what is in a segment, and that the retention keeps the
latest hours and the quota (`RetentionInOrder`).

**CommandChains_proofs**, for any targets, windows and bounds (`ChainsAreSound`,
`SettledChainsAreFinal`). `EveryChainPlaced` counts places, which says little to a
prover; `IInv` says the same of sets: the queues, what is settled, what the worker
has in hand, the table and what was lost are disjoint and make up the chains
(`Apart`), a chain has one position in one queue, what has left the tracker is
finalized and past its window (`LeftClosed`), table and ledger hold the chain's
own values (`Books`). The hard lemma is `ExpirySplit`: `_expire` takes the longest
expired prefix of each queue and loses nothing, whatever stands behind a head
that is not due.

**Services_proofs**, over the parts of `MCServices`. Each part has an invariant
over its own variables; `Apart` shows that a step of the whole is a step of each
part or leaves it alone, and `InductiveInvariant` is their conjunction.
- `TopologyPull` (`GateStaysRight`): calls in progress have a base, and no two are
  in progress.
- `DiscoveryPublisher` (`RecordOutlivesTopics`): while no two tasks have raced, each
  retained topic is under the prefix on record or that of the clean-up at work.
- `ExtensionTile` (`CallsStayApart`, `RevokedStaysRevoked`): a request is in
  flight once, as a request or as its response; the second is an action property
  with a case per action: what makes a row deployed is a deploy's end or the
  worker's write, and an idle worker takes up nothing while the row is revoked.
- `AlertEvaluator` (`OnlyEditsStrandEvents`): the worker's state object and the
  events it or the dictionary names are those of its rule and instance
  (`OwnEvents`); a step other than an edit or a restart strands none.
- `RecommendationStore` (`DismissalIsDurable`): what the pass has read of the row
  is the row unless the user's thread wrote in between (`SyncSawTheRow`); while a
  dismissal stands that no pass had read past, the row is there, dismissed and of the
  magnitude that was dismissed (`DismissalStands`), so that only a magnitude
  materially different, or its user, opens it.
- `BrokerLink` (`NoTaskAstray`): tasks are used in order, and unless requests
  overlapped one is live at a time.
- `LoopActivity` (`WorkIsToldOnce`): a thread's frames below the top wait inside
  the append or the trim that a collection interrupted (`OnlyCollectionsInterrupt`),
  the lock's count is the number of frames that hold it, and a trim under way has a
  copy that still has its span's newest slow entry (`NewestKept`).

**Evidence_proofs**, over five of the eight parts of `MCEvidence`, composed in the same way.
- `WireTap` (`TapTruth`), for any number of tags, messages and connections.
  Messages are sent in turn; what waits in a flow was captured and stands under
  its tag; in the flow in use, a later captured message of the tag of one that
  waits is there only after a layout mismatch, or the two have crossed (`Newest`);
  one that waits again after a latency was repeated since (`Repeated`). Results number at most the messages
  over plus the repeats, so a flow's counts are bounded; totals are sums over
  flows, none of which goes or shrinks (`TotalsGrow`).
- `RollupWindows` (`RollupsAreWhole`), for any window length. Counters: the buckets
  of a window have all that happened in it, or the window is gone: behind the
  watermark, not being added to, and older than the clock may yet be set back to
  (`Gone`, `Slack`). Latencies: list, drained row and stored row of a window
  exclude each other and together have what happened, and a list is empty only
  between the two steps of `add` (`ListOf`). `RollupAssumption` asks that the
  clock is set back by at most what is kept, a window less
  (`(MaxBack + 1) * Rollup <= Keep`): with the code's 300 s and 10 s, 29 windows.
  It is about the host's clock, not the code, and it is needed: set back further,
  the watermark returns to a window whose buckets `record` has deleted, and what is
  counted there anew replaces the stored row.
- `Verification` (`ReceiptsAreSound`), for any horizon, commanders and builds: a row's
  `version` names the one model that wrote it, or says that several did (`RowOf`),
  so that the days a verdict compares have one model (`OneVersion`); and the days a
  pacing has been checked for were within its band (`Paced`).
- `FrameFusion` (`ObservationsArePaired`), for any senders, windows, rings and bounds.
  `FusionInv` balances the books of a side: what was observed is what was matched, what
  expired alone, what the bound dropped and what waits; and a pair of expiries has used
  up one of each side, so that pairs and ring together are at most what expired alone
  (`Sound`). A sweep moves entries from waiting to expired, one at a time, and is
  a recursive function of a recursive function. `Iterates` constructs such a run from its
  step, so that a fact each step keeps is one of its end (`LapsedSound`,
  `SweptSideFacts`); `ObserveKeeps` is then one case with a partner and one
  without, `EnqueuedFacts` the bound.
- `ChangeJournal` (`JournalIsSound`), for any instances, devices, names, addresses and
  window. `JournalInv` says that the rows of an instance, replayed from its first list,
  tell its newest (`Replays`); that a device remembered as gone has a row that says so,
  and one marked as moved too (`Departures`, `Moved`); and that a row is at most once in
  the hand, the list, the worker's batch and the table together (`Counted`): the
  worker's swap and the append each take it from one of them to the next, or lose it.
  The replay is a run of a recursive function, so that the rows of a message
  are replayed after those before them (`ReplayConcat`); the rows of one kind do, in any
  order, what they say one by one (`AddsReplayed` to `AddressesReplayed`, by the prefixes
  replayed so far), and the four kinds in turn make the new list out
  of what the old one had been told to be (`DeviceRowsReplayed`). A renamed device's row
  is after the additions and removals, and none of these has it as its subject.

**Attribution_proofs**, over the other three parts of `MCEvidence`. First who a command is
credited to, for any automations, payloads, windows and numbers of acts
(`CommandsAreCredited`, the run's `CreditedToASender`). `AttributionInv` has three parts beside the types. `Told`:
what is remembered under a name was done under it, which survives because acts are
only added to. `Credit`: a chain with a name was sent by its bearer, and one with a
cause has the bytes of its cause. `Paired`, while no event was lost and all acts are
publishes to the lamp (`Undisturbed`): commands on the wire and in chains are in the
order of their acts, and so are the events (`CommandsInOrder`, `EventsInOrder`), and
a chain whose event has come has a name (`HeardAreNamed`). The step that needs all
of it is a publish that is told: the oldest nameless chain of these bytes is the
act's own, because an older one would belong to an act whose event came before.
`NobodyNameless` had asked only that no open chain came late; TLC (three acts, three
ticks, chains of two) refutes that once
chains go: a late command's chain takes the name of the next, goes, and what it
displaced stays nameless. The premise is now `~late`, about the whole past.

Then the verdicts (`NoopsAreTrue`, the run's `NoopIsTrue`), for any lamps, commands,
caps of the tables and numbers of commands and disturbances. What can come apart is
what the detector has, what is said and not yet heard, and what the lamps hold.
`NoopInv` ties the three together. `Lists`: the lists in the channel, taken in after
those that are in, make of the group its roster, and the devices are named before a
switch's action is looked at. `Current`: what is known of a lamp is what it holds, or
a message on its way renews it (an answer to a command, or an action of a group that
has the lamp in it by then); and so is each report on its way. `InTheAir`: a command that is
awaited from a lamp that is not in `lost` is held in flight with the value of the
newest of its key (`Newest`, over the inbox and then the answers on their way),
unless the tables were full when it came and stay so (`Never`). Each is kept by a message at
the end of the channel and by one taken from its head; those are lemmas on sequences
(`AppendKeepsLists` to `HearNewest`), which the steps instantiate. `NoopMeans` reads
the promise off the three: with no list and no action on their way the verdict was on all the
targets; the last command in the inbox is the newest of its key; and with an empty
inbox the last answer says what the lamp holds. With three commands TLC showed that
the ghost `lost` had been drawn too narrowly: a command to a group whose list is stale is
held in flight for the member that left, where an older command of that lamp
is still to be heard; `lost` has such a lamp now.

Last the graph (`GraphIsSound`), for any nodes, links and qualities. Two things are to
be shown: that what is kept of the rows is what the set of them defines, with the worst
quality of an edge, and that the search ends with the distances. `Searched` is the
classical invariant: the queue is ordered by depth and spans at most one level, a node
that has been visited has all its peers reached, and each node reached has a
predecessor one edge nearer. At the end, `Within[k]` (the nodes at most `k` edges
from the root) is compared with the depths by an induction over numbers. `Within`
is a recursive function, so that a function with its equation is constructed
first (`SpreadExists`, `WithinIs`).

**OrderLemmas** holds what several modules need: that a finite set of numbers has
a least and a greatest element, cardinalities of small sets and of differences,
an induction over finite sets written for sets in place of operators
(`SetInduction`, `FiniteInduction`), and from it what the library's
`SumFunctionOnSet` is (`SumIs`): it splits, grows, and changes by what one term
changes.

A few definitions were written so that they could be reasoned about, with the
same meaning: the queues of `CalibrationRamp` and the ring of `LoopActivity`
without recursion, the counts of `WireTap` and `RollupWindows` as the library's
sums, the sweep of `FrameFusion` as a run over each dictionary, the replay of
`ChangeJournal` as one over the rows, `TopologyPull`'s
response with the call as its parameter. Constants that stand
for absence are assumed to be no value of the type they are absent from, and
bounds to be natural numbers.

**Only model-checked.**
- Liveness, everything under fairness and ENABLED are out of the prover's reach:
  `EventsClose`, `QueueHonest`, `TileSettles`, `RequestsFinish`, `NotesEnd`, the
  second half of `LinkSound`, and the liveness of the calibration, the event store
  and the chains.
- `FramesGenuine` rests on folds over the bytes of segments: what the decoder computes
  for every input is induction over data.
- `BurstEnvelope`, `Scenario` and the detectors are sums, peaks and searches over
  records, compared with reference definitions in each state. `MCJudging` reaches
  `Rebalance`, whose INSTANCE with a parameter the prover does not read.

## 5. Not modelled

- The remaining detectors (reporting, redundancy, retry hotspots), cost and
  significance: shares and rates of stored counts against thresholds.
- Airtime and ledger prices, latency curves, percentiles, texts: arithmetic over
  reals. Modules keep what is priced, not the price.
- The airtime and spend sums of the storage pass; they drain as the rates do.
- `revoke_all` and the plain grants of tiles: an UPDATE each, and a loop of
  `revoke_extension`.
- `bridge/info` and device availability: last write wins per topic.
- `Engine.stop`, a first broker configuration from none, and the link to Home
  Assistant, whose replacement has the shape of `restart_ingest`.
- EZSP parameters and counters at fixed offsets, the capture's command line.
- Queries, database access, sign-in and sessions, the HTTP handlers, which call
  components; the browser interface, the extension's JavaScript and the tap agent,
  whose messages are inputs here.
- The loop-lag sampler: its figure is an input of the redundancy verdict, which is
  as sound as the lag it is given.

## 6. Plan

Done: calibration, event store, chains and services (safety proved), the tap,
the rollups, the fusion, the graph, the receipts, the attribution, the verdicts and the
journal (proved), the parts of `judging` (checked). What is left, in order:

1. `BurstEnvelope` and `Scenario` proved, in a composition without `Rebalance`.
2. `RecommendationStore` as a refinement of a table of allowed transitions, with
   the race named where it does not hold.
3. The loop-lag sampler together with the redundancy verdict; the comment at
   chains.py:256-261 as a statement to check.
4. `revoke_all` beside the calls of `ExtensionTile`; `Engine.stop`.
