# DIYnamo in TLA+

TLA+ modules, TLC configurations and TLAPS proofs for DIYnamo, a Dynamo-style
replicated key-value store: sloppy-quorum writes, quorum reads with read repair,
hinted handoff, and reconciliation of restarted nodes. Paths below are relative
to the repository root (Rust code in `src/`), as in the module comments.

## 1. The system

A cluster is a roster of nodes, read by each node at its start. Every node runs one `server` process with

    client --HTTP--> ReplicatedStore (put, get) --HTTP--> replicas / hint holders
                        |      |                            |            |
                    RocksDbStore   HintStore            RocksDbStore  HintStore
                                      ^
    gossip events --> HandoffTask ----+--> deliver_hints   (one task per event)
                          +--------------> reconcile_keys  (one task per startup UUID)

| component | state | operations | interacts with |
|---|---|---|---|
| `RocksDbStore` (`store/rocksdb_store.rs`) | one `StoredEntry` (timestamp, bytes) per key, on disk | `put_if_newer`, `put`, `clear_all`, `get`, `iter_all` | called by the HTTP handlers and the coordinator on any worker thread, scanned by reconciliation |
| `ReplicatedStore` (`coordinator/mod.rs`) | nothing across requests; per request: timestamp, replies, acknowledgements, hint cursor | `put`, `get` | replicas and hint holders through `KvClient` |
| HTTP handlers (`server/mod.rs`) | none of their own | `/kv`, `/internal/kv`, `/internal/kv-versioned`, `/internal/hint` | the two stores |
| `KvClient` (`client/http.rs`) | a request timeout | one call per internal route | HTTP |
| `HintStore` (`store/hints.rs`) | one hint per (target, key), on disk | `store_hint`, `hints_for_node`, `delete_hint` | hint handler, local coordinator, delivery tasks |
| `HandoffTask` (`coordinator/handoff.rs`) | last UUID per node, running reconciliations, in memory | the event loop, `deliver_hints`, `reconcile_keys` | gossip events, both stores, `KvClient` |
| `CoordinatorRing` (`cluster/ring.rs`) | immutable | preference list, ring order | the `hashring_coordinator` crate |
| `GossipNode`, `NodeMeta` (`cluster/`) | member table | Join/Update/Leave events, `online_members` | the `memberlist` crate |
| clock (`store/timestamp.rs`) | wall clock | `now` | coordinator, unversioned put |
| configuration, start-up, CLI, printer, gossip binary, test harness | | | |

What is hard about it:

- *Interleaving.* `put_if_newer` is a read followed by a write, without lock or
  transaction, on a multi-threaded runtime. Delivery tasks overlap with each
  other and with new hints. Every request runs beside every other.
- *Unreliable calls.* A call that timed out may still be executed, at any later
  time; a coordinator that crashed or whose client left has replicas half written.
- *Ordering.* Timestamps come from unrelated clocks; puts, hints and repairs reach
  each node in their own order.
- *Restarts.* Stores are on disk, everything else is lost. A node may come back
  empty, and again while it is being refilled. It announces its startup before it
  listens.
- *Mixed configurations.* Each node builds its ring from its own config file, once. A
  cluster grows by editing the files and restarting the nodes one by one.
- *Liveness.* Hints and refills move only when gossip delivers an event; requests
  wait for every call they made.

What makes each component correct: the local store never falls behind a version
it has acknowledged; an acknowledgement the coordinator counts stands for a write
or a hint of its own; quorums that intersect return fresh values; every request
ends; a hint is kept until its target has the write, and delivered once the target
is known to be back; a restarted node gets back what it lost; what a client was told
is stored survives all of that together; a cluster that takes in a node keeps its
quorums and fills the node.

`PROJECT.json` lists the components and, under `hazards`, what in this code is
hard to test, at its line, with the properties that watch it.

## 2. The modules

| module | models | |
|---|---|---|
| `LWWRegister` | what one replica promises: a last-writer-wins register per key, of one thread or shared | abstract |
| `VersionedStore` | `RocksDbStore`: one step per RocksDB access, any number of threads | implements the register of `LWWRegister` when one thread serves it, its shared register always |
| `Diynamo` | the whole cluster for one key: puts, hints, repairs, deliveries, reconciliations, restarts with wiped data; every call one step | abstract |
| `ReplicatedStore` | `put` and `get` of one key with the replica and hint handlers they call | one coordinator protocol, all replicas |
| `ReplicatedCluster` | `ReplicatedStore` with the refinement mapping | implements `Diynamo` |
| `ReplicaStores` | each node of `ReplicatedStore` as a store, with the mapping | each replica is a `VersionedStore` |
| `HintHandoff` | `HintStore` and `deliver_hints`, one holder and one target, several keys and tasks | |
| `Reconciliation` | the UUID part of `HandoffTask::run` and `reconcile_keys`, all peers of one returning node | |
| `Growth` | nodes with different rings while a new one is taken in: puts, gets, reconciliations, restarts | |
| `MC*` | small instances for TLC: clocks, rings, symmetry | |
| `*Proofs` | theorems about the module they extend; `SloppyQuorumProofs` goes on from `ReplicatedStoreProofs`, `ReplicatedClusterProofs` from both, from `DiynamoProofs` and with `ReplicaStores` | TLAPS |

The protocol modules look at one component each, with its steps as fine as the code's
awaits. `Diynamo` puts them together with each write one step, whose outcome is open at
a node where write-if-newer calls overlapped: `ReplicatedStore` is shown to implement its
put, hint and repair actions, and each of its replicas to be a `VersionedStore`, while the
granularity of its `Deliver`/`DeleteHint` and of the pushes behind `Refresh` is what
`HintHandoff` and `Reconciliation` study. The chain from the local store to the cluster,

    register  <--  VersionedStore  <--(at each node)--  ReplicatedStore  -->  Diynamo

is proved link by link for any number of threads.

**VersionedStore.** `db[k]` is the stored entry. `call[t]` is the call thread `t` is
in the middle of. `PutIfNewerStale` is the early return of `put_if_newer`,
`BeginPutIfNewer` its read, `EndPutIfNewer` its write; `BeginPut`/`EndPut` the
unversioned `put` between its clock reading and its write; `BeginClear`, `ClearKey`,
`EndClear` the snapshot and the single deletes of `clear_all`. `FailCall` is a
RocksDB error anywhere, `Restart` a restart with or without `--wipe-data`. `floor`
and `raced` are history: the timestamp last promised, and whether calls overlapped
in a way that makes their order matter. In the shared register (`SharedSpec` of
`LWWRegister`) a `put_if_newer` takes effect when it answers; a raced key is `contended`,
and only there may an offer leave something older than what was promised.

**ReplicatedStore.** One key, requests `Put` and `Get`. Each put is its own version,
with the timestamp its coordinator's clock returned (any value: skewed, stepping
back, equal). `rpc[o][n]` is what became of request `o`'s write-if-newer at `n`
(sent, checked, done, lost), `reply[o][n]` what its coordinator knows of it: the two
differ after a timeout, which is how late executions arise. `SkipWrite`,
`CheckNewer` and `WriteEntry` split the handler as `VersionedStore` does
(`ReplicasAreStores` says so); at most
`Workers` handlers of a node are between the two at once. `EndWrites`, `SendHint`,
`HintFails`, `StoreHint` and `FinishPut` are the hint loop of `put` with its one
cursor shared by all failed slots. `FinishGet` picks the winner and sends the
repairs. `Abandon` is a client that leaves (the server drops the handler and aborts
its tasks), `Crash` a process that stops; both leave the requests already sent.
`raced`, `spoiled` and `before` are history: where overlapping calls or an older hint
can lose a version, and what a get could expect to see.

**Diynamo.** `done[p]` are the replicas that executed put `p`, `hinted[p][h]` the
replica for which node `h` took its hint, both at any time after the start of `p` and
whether or not its client still waits. `Answer` is what the client is told. `Refresh` is
a read repair, a reconciliation push, or a delivery that nobody follows up. A write leaves
one of `Kept(n, v)`: what was there or what it brought, whichever is not older, and at a
`raced` node either. `Overlap` is the moment two calls with different timestamps are both
between their read and their write. `Deliver` and
`DeleteHint` the two steps of `deliver_hints`, whose acknowledged deliveries wait in
`answered`. `Restart(n, wipe)` ends the node's tasks and, with `--wipe-data`, empties its
store and the hints it keeps for others, which lie in the same directory. `spoiled` is
history: hints that an older one replaced or that were deleted by key without having
been delivered.

**ReplicatedCluster.** `phase` maps to what the client knows, `done[p]` to the replicas
whose handler is done, `hinted[p]` to the stored hint requests, `raced` to itself. Nothing
is wiped and no hint delivered in `ReplicatedStore`, so those variables map to the empty set.

**ReplicaStores.** The store of node `n` has one key, named after the node, so that the
instances of different nodes share nothing. The requests are its threads: a request whose
handler at `n` has read and not written is a thread in `putIfNewer`. The floor is the
greatest timestamp the node has answered Ok for. Every step of the coordinator protocol is
at each node a step of that store or changes nothing there; starts, answers, reads and
hints change nothing, a stop of one node loses the calls of one store. `StoreStep` lists
the calls that occur: `put_if_newer` with the request's own version, its failure, a restart.

**HintHandoff.** `hint[k]` is what the holder keeps for the target, `events` the
gossip events the loop has not taken, `task[d]` a `deliver_hints` task with the
snapshot it works through. `DeleteHint` deletes by key, as the code does, whatever
is stored by then. The event of a start can be handled before the target listens, since
`main` joins the gossip before it binds its port. `TaskFails` ends a task before its
first delivery: the hints could not be read, or no HTTP client be built for the target.
Writes at the target are those of any source, hence also the late execution of a
delivery that timed out. A delivery the target refuses although it runs is an outage
that ends unnoticed. `Restart(wipe)` is a restart of the holder; the hints lie inside
the directory `--wipe-data` removes, so a wipe withdraws what was promised for them.

**Reconciliation.** `uuid` counts the startups of `Returner`. `queue[n]` holds the
events peer `n` has not handled, `known[n]` is its `known_uuids` entry and `task[n]`
the reconciliation it runs. `HandleEvent` compares, aborts and spawns in one step,
as the loop does between two awaits; the aborted task, if another thread is polling
it, may still send one push (`Stragglers`). `SnapshotView` and `OpenScan` are apart because
`reconcile_keys` awaits `online_members` between spawn and scan; between the two it builds
its HTTP client, and if it cannot (`ScanFails`) the task ends although the UUID is
recorded. `Assigned(n)` is what `n` is the designated sender of. `flight` are pushes
sent and not executed; they survive their sender. `view[n]` is the peers `n` believes
online, which lags behind `down`. `Restart` announces the startup and `Listen` comes
later, as in `main`. `plan` and `missed` are history.

**Growth.** One key, seen from rings that differ. `file[n]` is the roster in the config
file of node `n`, `ring[n]` the roster and the number of virtual nodes of the ring it built
when it last started (`NoRing` while it is down), `route[p]` the ring of put `p`'s
coordinator. The operator adds the new member to a file before any start (`Start`), and
each start may have another number of virtual nodes than the rest of the cluster, from the file or
from `--vnodes`. `PreferenceList(r)` is that of a ring, `Preferred(n)` that of
coordinator `n`; `rank` gives each node's distance from the key, for each number of virtual
nodes. `HandleEvent`, `Scan` and `ScanFails` are `HandoffTask` and `reconcile_keys` at the
old nodes for the startup of the new one: they do not ask whether that node is in the
roster, which is what lets old nodes fill it before they are restarted themselves. A put is
its version; nothing here makes a store go back, so a get is a function of the state
(`Newest`).

`HintHandoff` and `Reconciliation` treat a write-if-newer at the target as one step;
what overlapping calls do is the subject of the two other modules.

Each module has a section of *faulty forms*: actions with a bug the code could have
had (a dropped comparison, a cursor that is not advanced, an aborted task that is
kept). They are not part of `Next`. Substituted for the action they are named after,
each makes one property fail, which shows that the property depends on the code
being right. The pairs are listed under `mutants` in `PROJECT.json`.

## 3. What the runs show

`tlc -config <cfg> <module>`; a run that must pass takes at most two to three minutes on two cores.

| run | question | instance | result |
|---|---|---|---|
| `store_threads` | can a key fall behind an acknowledged timestamp without two `put_if_newer` of different timestamps overlapping on it? is the store then still a register? | 2 threads, 2 keys, 3 timestamps | no (`AckedFloor`); yes, the shared one (`SharedRegisterSpec`), 29,937 states |
| `store_register` | is the store with one thread a last-writer-wins register? | 1 thread, 2 keys, 2 payloads, 3 timestamps | yes (`LWWRegisterSpec`), 6,346 states |
| `quorum` | are executed versions kept, do intersecting quorums return fresh values, do repaired replicas agree, is an acknowledged put still in W places but for races? is each replica a `VersionedStore`? | 2 puts, 1 get, N = 2, W = R = 1, 2 workers | yes (`ExecutedIsKept`, `QuorumFreshness`, `ReadRepairAgrees`, `AckedSurvives`, `ReplicasAreStores`), 1.24 million states |
| `sloppy` | does a counted acknowledgement stand for a place of its own? are gets fresh when hints made up the write quorum? does every request end, each step bringing it nearer its end? is it the abstract cluster? | 1 put, 1 get, 4 nodes, N = W = R = 2, 2 hint candidates, coordinator inside or outside the preference list, 2 workers | yes (`AcksAreCovered`, `SloppyFreshness`, `RequestsAnswered`, `NeverSetBack`, `ImplementsCluster`), 172,933 states |
| `handoff` | is a hint kept until its target has the write? can a hint whose delivery is under way be forgotten? does an event of a live target drain the hints? | 1 key, 3 timestamps, 2 tasks, outages, store errors, a restart with or without its disk | yes, if hints come in order and outside deliveries (`HintKept`); no (`NotForgotten`); yes (`EventDrainsHints`), 51,072 states |
| `scan` | does a finished scan for the current startup have its effect in spite of earlier scans, restarts and failures? | 2 peers, 1 key, a restart, failing links, peers and writes | yes (`ScanRestores`), 1.83 million states |
| `scan_restores` | is the last of several startups always followed by a full scan of each designated sender? | 2 peers sending a key each, a restart | yes (`SettledIsRestored`, `SenderRestores`), 168,352 states |
| `diynamo` | what is left of an acknowledged put after hints, deliveries, repairs, reconciliations and nodes that come back empty? | 3 nodes, 2 replicas, W = 2, 2 puts, 2 wiped nodes, overlaps anywhere | W places, less one for each wiped or raced node and each spoiled hint (`Durable`, `Survives`), 1.50 million states |
| `growth` | do quorums of old and new rings meet, and is the new node filled? | 2 + 1 nodes, N = 2, two numbers of virtual nodes, each start with either, 3 stops, 1 put | yes, between coordinators of one number of virtual nodes: with more than N nodes in both quorums together under one roster, more than N + 1 under the old and the new one (`MixedQuorumFreshness`); yes, whatever rings the others run with (`GrowthFills`), 1.60 million states |
| `lost_forever` | is an acknowledged put always somewhere to be repaired from? | 2 puts, 2 nodes, W = 2 | no (finding 1) |
| `handoff_late` | does a target that stays up get its hints? | 1 key | no (finding 2) |
| `scan_early` | does a startup get the full key range pushed? | 2 peers, 1 key, no failures | no (finding 3) |

`QuorumFreshness` is stated on the replicas that really acknowledged and answered,
not on W and R: W + R > N is one way to make them meet, and instances with W = R = 1
reach the states where they do and where they do not. A node where calls raced
counts as one that does not help. `SloppyFreshness` is about W and R themselves. A hint
makes up the write quorum without the preferred node having the version, so a get can miss
the put although W + R > N; it cannot when W + R exceeds N by more than the number of
preferred nodes that were hinted for or raced.

`NeverSetBack`, `NotForgotten` and `SettledIsRestored` are the safety halves of the three
liveness properties: what must eventually happen comes nearer with each step of those who
work on it and nobody undoes it; that they do work is the fairness.

`ReadRepairAgrees` names the one way in which replicas that were read and repaired can
still differ without a newer write: two puts of one timestamp, since the repair
compares with `<` and `put_if_newer` skips with `>=`.

### Findings

1. **A put can be acknowledged by W replicas and then be nowhere.**
   `put_if_newer` reads and writes separately; when two puts overlap on each replica,
   the older one may write last everywhere. `rocksdb_store.rs:45-47` calls the window
   bounded because "the next read will repair again": here no replica has the version
   to repair from.
2. **Hints of a target that was only slow wait without bound.** Delivery is triggered
   by membership events alone.
3. **A node announces itself before it listens.** `main` joins the gossip, with the new
   UUID, at `server.rs:95` and binds its port at `server.rs:119`. A peer that handles
   the event in between is refused every push, drops the errors and has recorded the
   UUID, so that the push of the full range that `ARCHITECTURE.md:127` describes never
   arrives. `SenderRestores` therefore excludes the keys that very scan missed.

What else the models bring out, stated as conditions or exceptions in the properties:

- `store_hint` does not compare timestamps, so a late hint replaces a newer one, and
  `delete_hint` (`handoff.rs:161`) names no version, so a hint that comes while an older
  one of its key is delivered is removed undelivered. `HintKept` excludes exactly these
  (`reordered`, `crossed`), `Survives` charges one place for each (`spoiled`).
- Reconciliation restores what the designated sender holds; when the first online
  preferred node missed a write, nobody pushes it. It also pushes keys that the returning
  node does not replicate, although `rocksdb_store.rs:74-76` says otherwise (the model
  does the same).
- A push of an earlier startup may be executed late, also after newer writes; the
  comparison of `put_if_newer` makes it harmless but where calls overlap, which
  `ReplicatedStore` and `VersionedStore` check. `scan` has one timestamp, so there such a push meets a store that
  is empty or has its version.
- During a growth, old and new preference lists of a key differ in one node, so quorums
  of coordinators with different rosters must have two nodes more than N together, not one.
  With W + R = N + 1, which the default configuration has, a get may miss an acknowledged
  put until every node has been restarted: `MixedQuorumFreshness` with `> N` for both cases
  is violated.
- A node started with a `--vnodes` of its own, as README.md:164-168 shows in the section
  on adding a node, has preference lists that may be disjoint from everybody else's. No
  quorum size helps then, so `MixedQuorumFreshness` is about coordinators of one number of virtual
  nodes. It holds with replicas of any other.
- With N = 1, `GrowthFills` is violated: the nearest old node, when it restarts with the
  new roster before it handles the startup event, no longer prefers itself, and nobody
  sends the key.
- `ARCHITECTURE.md` says the coordinator filters preference lists by `online_members()`,
  but the coordinator calls every preferred node.

### Bounds, and why they are enough

- Timestamps: nothing computes with them. Three give older, equal and newer versions
  twice over (`store_threads`, `store_register`, `handoff`). `scan`, `scan_restores`,
  `scan_early` and `handoff_late` have one, so a key is there or not: they ask whether
  something arrives, and the theorems on `ScanRestores` and `SettledIsRestored`
  hold for any timestamps.
- Keys: operations on different keys meet in `clear_all` (two keys in the store runs), in a
  scan (two in `scan_restores`, where each has its own designated sender) and in the snapshot of a
  delivery task. `handoff` and `scan` have one key; the theorems on
  `HintKept`, `NotForgotten` and `ScanRestores` hold for any number.
- Threads, tasks: two show every pairwise overlap; the theorems cover any number.
- `quorum` has two nodes, the smallest cluster where quorums can miss each other;
  `sloppy` has two preferred nodes and two candidates, so that both slots can fail and
  share the cursor. Together they have every action of `ReplicatedStore`. With one put,
  no hint of `sloppy` can replace a newer one and no calls of different timestamps overlap,
  so `spoiled` and `raced` stay empty there; the proof of `ImplementsCluster` covers any
  number of puts. On the instance of `quorum`, where calls do race, TLC finds no error
  in it either, in more than five minutes, which is too long for a run.
- `diynamo` has two replicas and a hint holder: each can be wiped, `MaxWiped` = 2 allows
  to lose two of the three.
- `growth`: `MaxStops` = 3 restarts every node once, or one of them up to three times. The new
  node is the second of the three with one position per node and the first with two, so that lists
  of different rosters and of different numbers of virtual nodes differ; the third place and
  larger clusters are left to the theorems. One put is enough, since each is compared with the
  get alone. `vnodes` is at least 1: a ring without positions has
  no preference list (`ring.rs:80`), so its coordinator fails every request.
- `MaxEvents`, `MaxCrashes`, `MaxRestarts` bound queues and restarts: one event is
  enough for one to be waiting while a task of an earlier one runs; one restart during a
  delivery or a scan leads to a task of the old startup beside one of the new.
- Symmetry is used for safety only, over keys, threads, tasks and puts, none of which
  any operator orders. Nodes are never symmetric: the ring orders them.
- `CHECK_DEADLOCK FALSE` where client requests, restarts and link failures run out in
  the instance, so that the system may come to rest.

### Fairness

Liveness is checked under weak fairness of what the tokio runtime and the HTTP client
guarantee: runnable tasks are polled, handlers that have begun finish, request timers
fire (`DEFAULT_REQUEST_TIMEOUT`), a live target answers. Nothing is assumed of replicas
answering a coordinator, of clients, or of the order of messages. `scan_restores`
also assumes that a start-up that has announced itself goes on to listen (`Listen`), and
that gossip reports the returner's current UUID to every live peer at
least once, which is what memberlist is for. `EventDrainsHints` needs nothing of
gossip, as it starts from an event that is already waiting.

## 4. What is proved

All proofs are checked by TLAPS for any value of the constants that satisfies the
module's named assumptions (rings without repetition, timestamps that are natural
numbers, `None`/`Absent` outside what they stand beside, N at most the number of nodes).

| theorem | says | argument |
|---|---|---|
| `VersionedStoreProofs!TypeCorrect` | type correctness | inductive as it stands |
| `VersionedStoreProofs!FloorKept` | `[]AckedFloor` for any number of threads | `OrderKept`: of an unraced key, all open calls carry the same timestamp, and nothing later was acknowledged since they read |
| `VersionedStoreProofs!ThreadsImplementRegister` | any number of threads implement the shared register of `LWWRegister` | step simulation with `OrderKept`: what an open call at an unraced key will write is at least as new as what was acknowledged |
| `VersionedStoreProofs!OneThreadImplementsRegister` | one thread implements `LWWRegister` | step simulation under `db`/`floor`, with `ReadStillHolds`: what an open call has read is still there |
| `ReplicatedStoreProofs!TypeCorrect` | type correctness | inductive with `RingFacts` |
| `ReplicatedStoreProofs!ExecutedKept` | `[]ExecutedIsKept` | `Control /\ Known /\ Order`: how phases, calls and replies go together; versions in the system have timestamps; at an unraced node, done calls are at most as new as what is stored, which is at most as new as what open calls will write |
| `ReplicatedStoreProofs!QuorumsAreFresh` | `[]QuorumFreshness` for every N, W, R | adds `Reads`: an answer given by an unraced node that had acknowledged an earlier put shows it or a newer one. Then counting: `QuorumsMeet` finds an unraced node in both quorums |
| `ReplicatedStoreProofs!RepairsAgree` | `[]ReadRepairAgrees` | adds `SeenKept` (an answer is no newer than what the replica stores since), `Spared` (an answer that is not repaired is as new as the winner) and `Stamped` (a put that started has a timestamp) |
| `SloppyQuorumProofs!AcksCovered` | `[]AcksAreCovered` for any nodes, N and W | `SlotsOf`, `CursorOf`, `CountOf`: candidates from the cursor on are untouched, a filled slot has a stored hint of its own, an open one is the target of at most the pending request; so acknowledgements are counted by distinct preferred nodes |
| `SloppyQuorumProofs!SloppyQuorumsAreFresh` | `[]SloppyFreshness` for any nodes, N, W, R | `Enough`: a get has not succeeded with fewer than R answers; W covered nodes less the hinted ones are executed writes, and the quorum of real acknowledgements then meets the R answers outside `raced` |
| `SloppyQuorumProofs!RequestsRunOut` | `NeverSetBack` for any nodes and requests | `Remaining`, the steps a coordinator has left: replies to wait for, candidates to try, a hint to be settled, an answer to give; one lemma per action |
| `ReplicatedClusterProofs!StoreImplementsCluster` | `Spec => ImplementsCluster` for any number of workers | step simulation. At an unraced node `Order` makes each write one of `Kept`, at a raced one any outcome is; the first overlap at a node is `Overlap`; a repair carries a version some replica executed (`Sourced`, `Carries`), and `AcksCovered` is the guard of the answer |
| `ReplicatedClusterProofs!AckedPutsSurvive` | `[]AckedSurvives` | not from the protocol's own steps: `Survives` of `Diynamo`, carried over by the refinement |
| `ReplicatedClusterProofs!ReplicasHaveStores` | `Spec => ReplicasAreStores` for any nodes, requests, workers | step simulation at one node at a time. `Bounded`: the acknowledged timestamps have a greatest one; `Order`: a call that finds something newer at an unraced node meets no older open call, so it races with none |
| `DiynamoProofs!TypeCorrect` | type correctness | inductive as it stands |
| `DiynamoProofs!DurableKept` | `[]Durable` | adds that a delivery was executed where the target has not lost its data since nor been raced, and that ages of started puts do not change |
| `DiynamoProofs!PutsSurvive` | `[]Survives` | from `Durable` by counting: covered replicas that are no longer places inject into `wiped`, `raced` and `spoiled` |
| `ReconciliationProofs!TypeCorrect` | type correctness | inductive as it stands |
| `ReconciliationProofs!ScansRestore` | `[]ScanRestores` for any roster and any restarts | `Past`: no peer knows of a startup to come; `Progress`: of each key a scan for the current startup set out to push, the returner has the version, a push of this peer carries it, or it is still to be pushed |
| `ReconciliationProofs!SettledRestored` | `[]SettledIsRestored` for any roster, queues and restarts | `Heard`: a peer that was told of the current startup has its event queued or has acted on it; `Stable`: with stable peers each peer sees all the others, so its scan leaves out nothing it is the designated sender of; then `Progress` of the scan |
| `GrowthProofs!TypeCorrect` | type correctness | inductive as it stands |
| `GrowthProofs!MixedQuorumsMeet` | `[]MixedQuorumFreshness` for any cluster, N and hash ring | `Kept`: what a replica executed it still has, or something newer. The lists of one number of virtual nodes have at most N nodes (`PrefSize`, by an injection into their ranks), those of the old and the new roster together at most N + 1 (`PrefGrows`), so the quorums have a node in common (`Meet`) |
| `GrowthProofs!GrowthIsComplete` | `[]GrowthFills` for any cluster, hash ring and order of restarts | `Filled`: for each old node that comes first on its own ring (`Heads`), once its scan with the new roster is over, the new node has what it brought into that ring, or a push of it carries that (`Brought`); no view of the others keeps such a node from sending (`NearestSends`) |
| `HintHandoffProofs!TypeCorrect` | type correctness | inductive as it stands |
| `HintHandoffProofs!HintsKept` | `[]HintKept` for any keys, tasks, restarts | adds `TaskKnows`: a clean key's hint is the newest accepted one, a task's snapshot of it is that hint or the hint is gone, and what a task is about to delete is at the target |
| `HintHandoffProofs!HintsNotForgotten` | `NotForgotten` for any keys, tasks and restarts | `Delivering`: a running task's snapshot goes with the stage it is in; each step hands the work for a hint on, from event to task, from task to snapshot |

None of the invariants is inductive alone: each says what holds of the stored data,
and its strengthening what the calls and tasks in the middle of their work know.

Every invariant and every action property that a passing run checks is proved, and so are
the four refinements: `VersionedStore` into the register of one thread and into the shared
one, `ReplicatedStore` into `Diynamo`, and into one `VersionedStore` per node. The last two
hold for any number of workers because `raced` is part of the abstract state: overlapping
`put_if_newer` calls, which finding 1 is about, are there an outcome the abstraction names.
Model-checked only: the liveness properties `RequestsAnswered`, `EventDrainsHints` and
`SenderRestores`, since neither `ENABLED` nor liveness under fairness can be proved with
this prover; their safety halves `NeverSetBack`, `NotForgotten` and `SettledIsRestored` are
proved. No module uses RECURSIVE operators and nothing rests on induction over data.

## 5. What is not modelled

- The `hashring_coordinator` crate: the ring order of a key is a constant, any
  sequence of distinct nodes, and in `Growth` any distances. Rosters are sets: one that
  names an id twice has fewer nodes than `ring.rs:40` counts, which a single call shows.
- The `memberlist` crate: its events and member table are inputs. What it does when the
  event channel of `membership.rs` is full is not in the repository; the models' queues
  are small and an event waits.
- The removal of a node from the roster: the code and its documents have no procedure
  for it.
- Argument parsing, file merging, CLI, printer, gossip binary, test harness, evaluation
  scripts: input and output only. Of the configuration, the roster, N and the number of
  virtual nodes, the one that varies per start, are in `Growth`, the data directory's wipe in `Diynamo`, `HintHandoff` and
  `Reconciliation`.
- URLs, JSON, bincode: encodings of what the model carries as values. Keys go into URLs
  unencoded, so a key with a slash or a question mark is not the key its replicas see: a
  matter of one call, listed under `hazards`.
- A panicking write task, which `put` counts as a failed write without a hint; a row
  `iter_all` cannot decode, which a scan skips.

The components that stay partly modelled are the shells around the behaviour above:
text, encodings and start-up messages, with no state that a protocol depends on.

## 6. Order of work

The modules were written in this order, the most important behaviour first:
`VersionedStore` with `LWWRegister`; `ReplicatedStore`; `HintHandoff`; `Reconciliation`;
`Diynamo` and the refinement in `ReplicatedCluster`; `Growth`; `ReplicaStores`. Each was model-checked
before its invariants were proved. What remains open is convergence of the whole cluster
once requests stop (`Diynamo` has no fairness: its background work is not tied to the
events that cause it), and a bound on how long a hint waits, which the code does not give.
