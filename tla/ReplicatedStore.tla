-------------------------- MODULE ReplicatedStore --------------------------
(***************************************************************************)
(* The quorum coordinator (src/src/coordinator/mod.rs) and the replica     *)
(* handlers it calls (src/src/server/mod.rs), for one key.                 *)
(*                                                                         *)
(* put: one timestamp, parallel write-if-newer to the N preferred nodes,   *)
(* then one hint per failed node, each on the next untried node of the     *)
(* ring; it succeeds with at least W acknowledgements of either kind.      *)
(* get: parallel reads of the N preferred nodes, at least R answers, the   *)
(* newest version wins and is sent to the stale ones in the background.    *)
(*                                                                         *)
(* A request that timed out, or whose coordinator crashed, may still be    *)
(* executed later.  Each put stores a version of its own, so a put stands  *)
(* for its (value, timestamp) pair and None for a missing key.             *)
(***************************************************************************)
EXTENDS Integers, FiniteSets, Sequences

CONSTANTS
  Node,          \* the members of the roster
  Put, Get,      \* the client requests
  None,          \* no version, no node
  Ring,          \* the nodes in ring order from the key's position
  N, W, R,       \* replication factor, write quorum, read quorum
  Coordinator,   \* the nodes clients talk to
  Timestamp,     \* what the clocks of the nodes may return
  Workers        \* worker threads that run the handlers of one node

Op == Put \cup Get

ASSUME RingAssumption ==
  /\ IsFiniteSet(Node)
  /\ Ring \in [1 .. Cardinality(Node) -> Node]
  /\ \A i, j \in 1 .. Cardinality(Node) : Ring[i] = Ring[j] => i = j
  /\ N \in 1 .. Cardinality(Node)

ASSUME OpAssumption ==
  /\ Put \cap Get = {}
  /\ None \notin Op \cup Node
  /\ Coordinator \subseteq Node
  /\ Timestamp \subseteq Nat
  /\ W \in Nat /\ R \in Nat

\* pref_list and hint_candidates of put
Preferred == {Ring[i] : i \in 1 .. N}
Candidates == N + 1 .. Cardinality(Node)

VARIABLES
  phase,     \* phase[o]: where the coordinator of request o stands
  coord,     \* coord[o]: the node that coordinates o
  ts,        \* ts[p]: the timestamp put p took from its coordinator's clock
  rpc,       \* rpc[o][n]: o's versioned write (or repair) at replica n
  reply,     \* reply[o][n]: what o's coordinator knows of its call to n
  acks,      \* acks[p]: real_acks + hint_acks
  slots,     \* slots[p]: failed preferred nodes with no hint yet
  target,    \* target[p]: the failed node a candidate is being found for
  cursor,    \* cursor[p]: ring index of the next hint candidate
  hintRpc,   \* hintRpc[p][c]: p's hint request at candidate c
  hintFor,   \* hintFor[p][c]: the node that hint is for
  seen,      \* seen[g][n]: the version replica n answered to get g
  winner,    \* winner[g]: the version get g returned
  db,        \* db[n]: the version stored at node n
  hints,     \* hints[c][t]: the version node c keeps for node t
  spoiled,   \* history: <<c, t>> where an older hint replaced a newer one
  before,    \* history: before[g] are the puts acknowledged before g began
  raced      \* history: the nodes where two write-if-newer calls with
             \* different timestamps overlapped

coordVars == <<phase, coord, ts, acks, slots, target, cursor>>
hintVars == <<hintRpc, hintFor, hints, spoiled>>
readVars == <<seen, winner, before>>
vars == <<coordVars, hintVars, readVars, rpc, reply, db, raced>>

Age(v) == IF v = None THEN -1 ELSE ts[v]

\* The version request o carries to the replicas: a get carries its winner.
Version(o) == IF o \in Put THEN o ELSE winner[o]

\* The write-if-newer calls at n that have read but not yet written.
Open(n) == {o \in Op : rpc[o][n] = "checked"}

Acked(o) == {n \in Preferred : reply[o][n] = "ok"}

AllReplied(o) == \A n \in Preferred : reply[o][n] \in {"ok", "err"}

Init ==
  /\ phase = [o \in Op |-> "idle"]
  /\ coord = [o \in Op |-> None]
  /\ ts = [p \in Put |-> -1]
  /\ rpc = [o \in Op |-> [n \in Node |-> "none"]]
  /\ reply = [o \in Op |-> [n \in Node |-> "none"]]
  /\ acks = [p \in Put |-> 0]
  /\ slots = [p \in Put |-> {}]
  /\ target = [p \in Put |-> None]
  /\ cursor = [p \in Put |-> N + 1]
  /\ hintRpc = [p \in Put |-> [n \in Node |-> "none"]]
  /\ hintFor = [p \in Put |-> [n \in Node |-> None]]
  /\ seen = [g \in Get |-> [n \in Node |-> None]]
  /\ winner = [g \in Get |-> None]
  /\ db = [n \in Node |-> None]
  /\ hints = [n \in Node |-> [t \in Node |-> None]]
  /\ spoiled = {}
  /\ before = [g \in Get |-> {}]
  /\ raced = {}

-----------------------------------------------------------------------------
(* Faulty forms of some actions, each with a bug the code could have had.  *)
(* They are not part of Next: the runs substitute them one at a time to    *)
(* show which property notices.                                            *)

\* The cursor stays on the candidate that failed.
RepeatedCandidate(p) ==
  /\ phase[p] = "hinting"
  /\ cursor[p] \in Candidates
  /\ \E t \in slots[p] :
       /\ target[p] \in {None, t}
       /\ target' = [target EXCEPT ![p] = t]
       /\ hintFor' = [hintFor EXCEPT ![p][Ring[cursor[p]]] = t]
       /\ hintRpc' = [hintRpc EXCEPT ![p][Ring[cursor[p]]] = "sent"]
  /\ phase' = [phase EXCEPT ![p] = "hintSent"]
  /\ UNCHANGED <<coord, ts, acks, slots, cursor, hints, spoiled, readVars, rpc, reply, db, raced>>

\* A hint counts even when the coordinator has given the candidate up.
LateHintCounts(p, c) ==
  /\ hintRpc[p][c] = "sent"
  /\ hintRpc' = [hintRpc EXCEPT ![p][c] = "stored"]
  /\ hints' = [hints EXCEPT ![c][hintFor[p][c]] = p]
  /\ spoiled' = IF Age(hints[c][hintFor[p][c]]) > ts[p]
                THEN spoiled \cup {<<c, hintFor[p][c]>>} ELSE spoiled
  /\ acks' = [acks EXCEPT ![p] = @ + 1]
  /\ slots' = [slots EXCEPT ![p] = @ \ {target[p]}]
  /\ target' = [target EXCEPT ![p] = None]
  /\ phase' = [phase EXCEPT ![p] = IF @ = "hintSent" THEN "hinting" ELSE @]
  /\ UNCHANGED <<coord, ts, cursor, hintFor, readVars, rpc, reply, db, raced>>

\* put_if_newer without the comparison.
BlindCheck(o, n) ==
  /\ rpc[o][n] = "sent"
  /\ Cardinality(Open(n)) < Workers
  /\ rpc' = [rpc EXCEPT ![o][n] = "checked"]
  /\ raced' = IF \A u \in Open(n) : Age(Version(u)) = Age(Version(o))
              THEN raced ELSE raced \cup {n}
  /\ UNCHANGED <<coordVars, hintVars, readVars, reply, db>>

\* A failed write takes an acknowledgement back.
UncountedWrite(o, n) ==
  /\ rpc[o][n] \in {"sent", "checked"}
  /\ rpc' = [rpc EXCEPT ![o][n] = "lost"]
  /\ reply' = [reply EXCEPT ![o][n] = IF @ = "wait" THEN "err" ELSE @]
  /\ acks' = IF o \in Put THEN [acks EXCEPT ![o] = @ - 1] ELSE acks
  /\ UNCHANGED <<phase, coord, ts, slots, target, cursor, hintVars, readVars, db, raced>>

\* get returns the first answer instead of the newest.
FirstAnswer(g) ==
  /\ phase[g] = "reading"
  /\ AllReplied(g)
  /\ Cardinality(Acked(g)) >= R
  /\ \E n \in Acked(g) :
       /\ phase' = [phase EXCEPT ![g] = "ok"]
       /\ winner' = [winner EXCEPT ![g] = seen[g][n]]
  /\ UNCHANGED <<coord, ts, acks, slots, target, cursor, hintVars, seen, before, rpc, reply, db, raced>>

\* Only the replicas that had an older version are repaired.
MissingNotRepaired(g) ==
  /\ phase[g] = "reading"
  /\ AllReplied(g)
  /\ Cardinality(Acked(g)) >= R
  /\ \E v \in {seen[g][n] : n \in Acked(g)} :
       /\ \A n \in Acked(g) : Age(seen[g][n]) <= Age(v)
       /\ phase' = [phase EXCEPT ![g] = "ok"]
       /\ winner' = [winner EXCEPT ![g] = v]
       /\ rpc' = [rpc EXCEPT ![g] =
            [n \in Node |-> IF n \in Acked(g) /\ Age(seen[g][n]) \in 0 .. Age(v) - 1
                            THEN "sent" ELSE "none"]]
  /\ UNCHANGED <<coord, ts, acks, slots, target, cursor, hintVars, seen, before, reply, db, raced>>

-----------------------------------------------------------------------------
(* put *)

\* The coordinator takes a timestamp and calls every preferred node.
StartPut(p, n, time) ==
  /\ phase[p] = "idle"
  /\ phase' = [phase EXCEPT ![p] = "writing"]
  /\ coord' = [coord EXCEPT ![p] = n]
  /\ ts' = [ts EXCEPT ![p] = time]
  /\ rpc' = [rpc EXCEPT ![p] = [m \in Node |-> IF m \in Preferred THEN "sent" ELSE "none"]]
  /\ reply' = [reply EXCEPT ![p] = [m \in Node |-> IF m \in Preferred THEN "wait" ELSE "none"]]
  /\ UNCHANGED <<acks, slots, target, cursor, hintVars, readVars, db, raced>>

\* Every parallel write has been joined: one slot per failed node.
EndWrites(p) ==
  /\ phase[p] = "writing"
  /\ AllReplied(p)
  /\ slots' = [slots EXCEPT ![p] = {n \in Preferred : reply[p][n] = "err"}]
  /\ phase' = [phase EXCEPT ![p] = "hinting"]
  /\ UNCHANGED <<coord, ts, acks, target, cursor, hintVars, readVars, rpc, reply, db, raced>>

\* Send the current slot's hint (or a next slot's) to the next candidate.
SendHint(p) ==
  /\ phase[p] = "hinting"
  /\ cursor[p] \in Candidates
  /\ \E t \in slots[p] :
       /\ target[p] \in {None, t}
       /\ target' = [target EXCEPT ![p] = t]
       /\ hintFor' = [hintFor EXCEPT ![p][Ring[cursor[p]]] = t]
       /\ hintRpc' = [hintRpc EXCEPT ![p][Ring[cursor[p]]] = "sent"]
  /\ cursor' = [cursor EXCEPT ![p] = @ + 1]
  /\ phase' = [phase EXCEPT ![p] = "hintSent"]
  /\ UNCHANGED <<coord, ts, acks, slots, hints, spoiled, readVars, rpc, reply, db, raced>>

\* The candidate times out (it may still store the hint) or refuses: try the
\* next one for the same slot.
HintFails(p) ==
  /\ phase[p] = "hintSent"
  /\ phase' = [phase EXCEPT ![p] = "hinting"]
  /\ UNCHANGED <<coord, ts, acks, slots, target, cursor, hintVars, readVars, rpc, reply, db, raced>>

\* The loop ends when no slot or no candidate is left.
FinishPut(p) ==
  /\ phase[p] = "hinting"
  /\ slots[p] = {} \/ cursor[p] \notin Candidates
  /\ phase' = [phase EXCEPT ![p] = IF acks[p] >= W THEN "ok" ELSE "failed"]
  /\ UNCHANGED <<coord, ts, acks, slots, target, cursor, hintVars, readVars, rpc, reply, db, raced>>

-----------------------------------------------------------------------------
(* put_hint_internal and HintStore::store_hint *)

\* The hint replaces whatever hint the node kept for that target.  It counts
\* only if the coordinator is still waiting for this candidate.
StoreHint(p, c) ==
  LET awaited == phase[p] = "hintSent" /\ Ring[cursor[p] - 1] = c
  IN  /\ hintRpc[p][c] = "sent"
      /\ hintRpc' = [hintRpc EXCEPT ![p][c] = "stored"]
      /\ hints' = [hints EXCEPT ![c][hintFor[p][c]] = p]
      /\ spoiled' = IF Age(hints[c][hintFor[p][c]]) > ts[p]
                    THEN spoiled \cup {<<c, hintFor[p][c]>>} ELSE spoiled
      /\ IF awaited
         THEN /\ acks' = [acks EXCEPT ![p] = @ + 1]
              /\ slots' = [slots EXCEPT ![p] = @ \ {target[p]}]
              /\ target' = [target EXCEPT ![p] = None]
              /\ phase' = [phase EXCEPT ![p] = "hinting"]
         ELSE UNCHANGED <<acks, slots, target, phase>>
      /\ UNCHANGED <<coord, ts, cursor, hintFor, readVars, rpc, reply, db, raced>>

\* A hint request that is refused, or lost with its connection.
LoseHint(p, c) ==
  /\ hintRpc[p][c] = "sent"
  /\ hintRpc' = [hintRpc EXCEPT ![p][c] = "lost"]
  /\ UNCHANGED <<coordVars, hintFor, hints, spoiled, readVars, rpc, reply, db, raced>>

-----------------------------------------------------------------------------
(* put_kv_internal_versioned and RocksDbStore::put_if_newer, called for the *)
(* writes of a put (locally when the coordinator is a replica) and for the  *)
(* repairs of a get                                                         *)

\* The acknowledgement, if the coordinator still waits for it.
Acknowledge(o, n) ==
  IF reply[o][n] = "wait"
  THEN /\ reply' = [reply EXCEPT ![o][n] = "ok"]
       /\ acks' = [acks EXCEPT ![o] = @ + 1]
  ELSE UNCHANGED <<reply, acks>>

\* The stored version is at least as fresh: Ok without writing.
SkipWrite(o, n) ==
  /\ rpc[o][n] = "sent"
  /\ Cardinality(Open(n)) < Workers
  /\ Age(db[n]) >= Age(Version(o))
  /\ rpc' = [rpc EXCEPT ![o][n] = "done"]
  /\ Acknowledge(o, n)
  /\ UNCHANGED <<phase, coord, ts, slots, target, cursor, hintVars, readVars, db, raced>>

CheckNewer(o, n) ==
  /\ rpc[o][n] = "sent"
  /\ Cardinality(Open(n)) < Workers
  /\ Age(db[n]) < Age(Version(o))
  /\ rpc' = [rpc EXCEPT ![o][n] = "checked"]
  /\ raced' = IF \A u \in Open(n) : Age(Version(u)) = Age(Version(o))
              THEN raced ELSE raced \cup {n}
  /\ UNCHANGED <<coordVars, hintVars, readVars, reply, db>>

WriteEntry(o, n) ==
  /\ rpc[o][n] = "checked"
  /\ rpc' = [rpc EXCEPT ![o][n] = "done"]
  /\ db' = [db EXCEPT ![n] = Version(o)]
  /\ Acknowledge(o, n)
  /\ UNCHANGED <<phase, coord, ts, slots, target, cursor, hintVars, readVars, raced>>

\* Refused, unreachable, or a RocksDB error: nothing is written.
LoseWrite(o, n) ==
  /\ rpc[o][n] \in {"sent", "checked"}
  /\ rpc' = [rpc EXCEPT ![o][n] = "lost"]
  /\ reply' = [reply EXCEPT ![o][n] = IF @ = "wait" THEN "err" ELSE @]
  /\ UNCHANGED <<coordVars, hintVars, readVars, db, raced>>

\* The HTTP client gives up after DEFAULT_REQUEST_TIMEOUT; a local call has no
\* timeout.  The replica may execute the request later.
Timeout(p, n) ==
  /\ phase[p] = "writing"
  /\ reply[p][n] = "wait"
  /\ n # coord[p]
  /\ reply' = [reply EXCEPT ![p][n] = "err"]
  /\ UNCHANGED <<coordVars, hintVars, readVars, rpc, db, raced>>

-----------------------------------------------------------------------------
(* get *)

StartGet(g, n) ==
  /\ phase[g] = "idle"
  /\ phase' = [phase EXCEPT ![g] = "reading"]
  /\ coord' = [coord EXCEPT ![g] = n]
  /\ reply' = [reply EXCEPT ![g] = [m \in Node |-> IF m \in Preferred THEN "wait" ELSE "none"]]
  /\ before' = [before EXCEPT ![g] = {p \in Put : phase[p] = "ok"}]
  /\ UNCHANGED <<ts, acks, slots, target, cursor, hintVars, seen, winner, rpc, db, raced>>

\* get_kv_internal, or the local store when the coordinator is a replica.
ReadReplica(g, n) ==
  /\ phase[g] = "reading"
  /\ reply[g][n] = "wait"
  /\ reply' = [reply EXCEPT ![g][n] = "ok"]
  /\ seen' = [seen EXCEPT ![g][n] = db[n]]
  /\ UNCHANGED <<coordVars, hintVars, winner, before, rpc, db, raced>>

\* Timeout, refusal, or an error of the store.
ReadFails(g, n) ==
  /\ phase[g] = "reading"
  /\ reply[g][n] = "wait"
  /\ reply' = [reply EXCEPT ![g][n] = "err"]
  /\ UNCHANGED <<coordVars, hintVars, readVars, rpc, db, raced>>

\* Too few answers; or the newest version (any of those that share the
\* greatest timestamp) wins and every answer that is older is repaired.
FinishGet(g) ==
  /\ phase[g] = "reading"
  /\ AllReplied(g)
  /\ IF Cardinality(Acked(g)) < R
     THEN /\ phase' = [phase EXCEPT ![g] = "failed"]
          /\ UNCHANGED <<winner, rpc>>
     ELSE \E v \in {seen[g][n] : n \in Acked(g)} \cup {None} :
            /\ \A n \in Acked(g) : Age(seen[g][n]) <= Age(v)
            /\ phase' = [phase EXCEPT ![g] = "ok"]
            /\ winner' = [winner EXCEPT ![g] = v]
            /\ rpc' = [rpc EXCEPT ![g] =
                 [n \in Node |-> IF n \in Acked(g) /\ Age(seen[g][n]) < Age(v)
                                 THEN "sent" ELSE "none"]]
  /\ UNCHANGED <<coord, ts, acks, slots, target, cursor, hintVars, seen, before, reply, db, raced>>

-----------------------------------------------------------------------------
Running(o) == phase[o] \in {"writing", "hinting", "hintSent", "reading"}

\* The client disconnects: the server drops the handler and its JoinSet, and
\* with it every call still awaited.  What was sent may still be executed.
Abandon(o) ==
  /\ Running(o)
  /\ phase' = [phase EXCEPT ![o] = "abandoned"]
  /\ reply' = [reply EXCEPT ![o] = [n \in Node |-> IF @[n] = "wait" THEN "err" ELSE @[n]]]
  /\ UNCHANGED <<coord, ts, acks, slots, target, cursor, hintVars, readVars, rpc, db, raced>>

\* The process of node n stops: the requests it coordinated and the handlers it
\* was running are gone.
Stop(n) ==
  /\ phase' = [o \in Op |-> IF Running(o) /\ coord[o] = n THEN "abandoned" ELSE phase[o]]
  /\ rpc' = [o \in Op |-> [rpc[o] EXCEPT ![n] =
               IF @ = "checked" \/ (@ = "sent" /\ coord[o] = n) THEN "lost" ELSE @]]
  /\ reply' = [o \in Op |-> [m \in Node |->
                 IF reply[o][m] = "wait" /\ (coord[o] = n \/ (m = n /\ rpc[o][m] = "checked"))
                 THEN "err" ELSE reply[o][m]]]
  /\ UNCHANGED <<coord, ts, acks, slots, target, cursor, hintRpc, hintFor, spoiled, readVars, raced>>

\* It starts again, with its stores as they are on disk.
Crash(n) == Stop(n) /\ UNCHANGED <<db, hints>>

\* What clients, coordinators and handlers do while the processes run.
Step ==
  \/ \E p \in Put, n \in Coordinator, time \in Timestamp : StartPut(p, n, time)
  \/ \E p \in Put : EndWrites(p) \/ SendHint(p) \/ HintFails(p) \/ FinishPut(p)
  \/ \E p \in Put, n \in Node : Timeout(p, n) \/ StoreHint(p, n) \/ LoseHint(p, n)
  \/ \E o \in Op, n \in Node :
       SkipWrite(o, n) \/ CheckNewer(o, n) \/ WriteEntry(o, n) \/ LoseWrite(o, n)
  \/ \E g \in Get, n \in Coordinator : StartGet(g, n)
  \/ \E g \in Get, n \in Node : ReadReplica(g, n) \/ ReadFails(g, n)
  \/ \E g \in Get : FinishGet(g)
  \/ \E o \in Op : Abandon(o)

Next == Step \/ \E n \in Node : Crash(n)

Spec == Init /\ [][Next]_vars

-----------------------------------------------------------------------------
(* Every variable has its type. *)
TypeOK ==
  /\ phase \in [Op -> {"idle", "writing", "hinting", "hintSent", "reading",
                       "ok", "failed", "abandoned"}]
  /\ coord \in [Op -> Node \cup {None}]
  /\ ts \in [Put -> Timestamp \cup {-1}]
  /\ rpc \in [Op -> [Node -> {"none", "sent", "checked", "done", "lost"}]]
  /\ reply \in [Op -> [Node -> {"none", "wait", "ok", "err"}]]
  /\ acks \in [Put -> Nat]
  /\ slots \in [Put -> SUBSET Preferred]
  /\ target \in [Put -> Preferred \cup {None}]
  /\ cursor \in [Put -> N + 1 .. Cardinality(Node) + 1]
  /\ hintRpc \in [Put -> [Node -> {"none", "sent", "stored", "lost"}]]
  /\ hintFor \in [Put -> [Node -> Preferred \cup {None}]]
  /\ seen \in [Get -> [Node -> Put \cup {None}]]
  /\ winner \in [Get -> Put \cup {None}]
  /\ db \in [Node -> Put \cup {None}]
  /\ hints \in [Node -> [Node -> Put \cup {None}]]
  /\ spoiled \subseteq Node \X (Preferred \cup {None})
  /\ before \in [Get -> SUBSET Put]
  /\ raced \in SUBSET Node

(* A version a replica has executed, by a put or by a repair, late or not, *)
(* is still there or has been replaced by one that is at least as new,     *)
(* through timeouts, lost replies and crashes, at every node where         *)
(* put_if_newer calls of different timestamps did not overlap.             *)
ExecutedIsKept ==
  \A o \in Op, n \in Node \ raced : rpc[o][n] = "done" => Age(db[n]) >= Age(Version(o))

(* Where the replicas that acknowledged a put and those that answered a    *)
(* later get must intersect, the get returns that put or a newer one,      *)
(* whatever other puts, hints, repairs and crashes happen meanwhile.       *)
(* Hints do not count: they are the sloppy part of the quorum.             *)
QuorumFreshness ==
  \A g \in Get : phase[g] = "ok" =>
    \A p \in before[g] :
      Cardinality(Acked(p)) + Cardinality(Acked(g)) > N + Cardinality(raced \cap Preferred)
        => Age(winner[g]) >= ts[p]

(* A get that every preferred node answered and whose repairs were all     *)
(* executed leaves the preferred nodes in agreement: two that differ are   *)
(* explained by a newer write or by another put with the winner's          *)
(* timestamp, which repair (<) and put_if_newer (>=) never reconcile, not  *)
(* by a replica that was stale or empty, whatever late writes came since.  *)
ReadRepairAgrees ==
  \A g \in Get, m, n \in Preferred \ raced :
    phase[g] = "ok" /\ Acked(g) = Preferred /\ (\A i \in Node : rpc[g][i] \in {"none", "done"})
      => \/ db[m] = db[n]
         \/ \E i \in {m, n} : Age(db[i]) > Age(winner[g])
         \/ \E p \in Put \ {winner[g]} : ts[p] = Age(winner[g])

\* The preferred nodes in whose name a candidate has stored put p's hint.
HintedFor(p) == {n \in Preferred : \E c \in Node : hintRpc[p][c] = "stored" /\ hintFor[p][c] = n}

(* W + R > N also makes gets fresh when hints made up the write quorum,    *)
(* with one node more to spare for each hint and for each overlap: a hint  *)
(* is an acknowledgement that the preferred node itself cannot repeat.     *)
SloppyFreshness ==
  \A g \in Get : phase[g] = "ok" =>
    \A p \in before[g] :
      W + R > N + Cardinality((raced \cap Preferred) \cup HintedFor(p))
        => Age(winner[g]) >= ts[p]

(* The preferred nodes a put has reached: they executed the write or a     *)
(* candidate stored a hint for them.                                       *)
Covered(p) == {n \in Preferred : rpc[p][n] = "done"} \cup HintedFor(p)

(* Every acknowledgement put counts stands for a preferred node of its own *)
(* that holds the write or for which a hint is stored: late executions and *)
(* late hints of requests that timed out never count twice, and a put that *)
(* succeeds has put its write in W places.                                 *)
AcksAreCovered ==
  \A p \in Put : /\ acks[p] <= Cardinality(Covered(p))
                 /\ phase[p] = "ok" => acks[p] >= W

\* The preferred nodes for which put p is safe at some node.
Places(p) ==
  {t \in Preferred : Age(db[t]) >= ts[p] \/ \E c \in Node : Age(hints[c][t]) >= ts[p]}

(* What a client may rely on once its put succeeded: the put or a newer    *)
(* one is in W places, less one for each node where write-if-newer calls   *)
(* overlapped and one for each hint that an older one replaced.            *)
AckedSurvives ==
  \A p \in Put : phase[p] = "ok" =>
    Cardinality(Places(p)) + Cardinality(raced) + Cardinality(spoiled) >= W

(* rocksdb_store.rs:45-47: the window between the read and the write is    *)
(* "bounded in impact - the next read will repair again if needed": some   *)
(* node still has, or keeps a hint with, each acknowledged put or a newer  *)
(* one for a read to repair from.                                          *)
AcknowledgedIsRecoverable ==
  \A p \in Put : phase[p] = "ok" =>
    \E n \in Node : Age(db[n]) >= ts[p] \/ \E t \in Node : Age(hints[n][t]) >= ts[p]

\* The steps a running request has left: one for each call it still awaits, two
\* for each hint candidate not yet tried, one to leave the writes or a candidate.
Remaining(o) ==
  Cardinality({n \in Node : reply[o][n] = "wait"})
    + IF o \in Get THEN 0
      ELSE 2 * (Cardinality(Node) + 1 - cursor[o])
             + IF phase[o] \in {"writing", "hintSent"} THEN 1 ELSE 0

(* Why a request ends: whatever its coordinator does for it leaves it      *)
(* fewer steps to go, and late executions, late hints, crashes elsewhere   *)
(* and other requests never give it a call or a candidate to wait for.     *)
NeverSetBack ==
  [][\A o \in Op : Running(o) /\ Running(o)' =>
       \/ Remaining(o)' < Remaining(o)
       \/ UNCHANGED <<phase[o], reply[o], Remaining(o)>>]_vars

-----------------------------------------------------------------------------
(* The runtime polls every task that can run, handlers that have begun     *)
(* finish, and the timers of the HTTP client fire.                         *)
Fairness ==
  /\ \A p \in Put : WF_vars(EndWrites(p)) /\ WF_vars(SendHint(p)) /\ WF_vars(FinishPut(p))
  /\ \A p \in Put : WF_vars(HintFails(p))
  /\ \A p \in Put, n \in Node : WF_vars(Timeout(p, n))
  /\ \A p \in Put, n \in Node :
       WF_vars(coord[p] = n /\ (SkipWrite(p, n) \/ CheckNewer(p, n)))
  /\ \A o \in Op, n \in Node : WF_vars(WriteEntry(o, n))
  /\ \A g \in Get, n \in Node : WF_vars(ReadReplica(g, n) \/ ReadFails(g, n))
  /\ \A g \in Get : WF_vars(FinishGet(g))

FairSpec == Spec /\ Fairness

(* Every request a client makes is answered, or its coordinator or client  *)
(* is gone: neither silent replicas nor failing candidates block it.       *)
RequestsAnswered == \A o \in Op : Running(o) ~> ~Running(o)
=============================================================================
