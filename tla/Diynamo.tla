------------------------------ MODULE Diynamo ------------------------------
(***************************************************************************)
(* The whole cluster, for one key: what put, get and the background work   *)
(* of HandoffTask (src/src/coordinator/handoff.rs) do together to the      *)
(* stores and the hint stores of the nodes, some of which come back empty. *)
(*                                                                         *)
(* It is the abstract specification of the put of ReplicatedStore: calls   *)
(* have no state of their own.  A call that was made may be executed at    *)
(* any later moment, or never, and a put may succeed once it is in W       *)
(* places.  Background work is not tied to the events that cause it, which *)
(* HintHandoff and Reconciliation say: any node may be told of any other   *)
(* at any moment, and what a task has read may be long out of date.        *)
(*                                                                         *)
(* Every write-if-newer is one step.  At a node where calls with different *)
(* timestamps have overlapped it may come out either way: the newer        *)
(* version is kept or lost.  VersionedStore and ReplicatedStore say how.   *)
(***************************************************************************)
EXTENDS Integers, FiniteSets

CONSTANTS
  Node,       \* the members of the roster
  Replica,    \* the preference list of the key
  Put,        \* the puts, each with a version of its own
  None,       \* no version, no node
  W,          \* write quorum
  Timestamp,  \* what the clocks of the coordinators may return
  MaxWiped    \* bound on the nodes that lose their data

ASSUME ClusterAssumption ==
  /\ IsFiniteSet(Node) /\ Replica \subseteq Node
  /\ None \notin Put \cup Node
  /\ Timestamp \subseteq Nat
  /\ W \in Nat
  /\ MaxWiped \in Nat

VARIABLES
  phase,     \* phase[p]: "idle", "open", or what the client was told
  ts,        \* ts[p]: the timestamp of put p
  done,      \* done[p]: the replicas that executed p's write
  hinted,    \* hinted[p][h]: the replica for which node h took p's hint
  db,        \* db[n]: the version stored at n
  hints,     \* hints[h][t]: the version node h keeps for t
  answered,  \* deliveries that t acknowledged and whose hint is not yet deleted
  wiped,     \* history: the nodes that have come back empty
  spoiled,   \* history: <<h, t>> where an older hint replaced a newer one or a
             \* hint was deleted that t had not got
  raced      \* history: the replicas where write-if-newer calls with different
             \* timestamps have overlapped

putVars == <<phase, ts, done, hinted>>
vars == <<putVars, db, hints, answered, wiped, spoiled, raced>>

Age(v) == IF v = None THEN -1 ELSE ts[v]

\* What a write-if-newer of v may leave at n: a version no older than either, or
\* any of the two when another call read before this one wrote.
Kept(n, v) ==
  {u \in {db[n], v} : n \in raced \/ (Age(u) >= Age(db[n]) /\ Age(u) >= Age(v))}

\* A deliver_hints task of node h that has brought version v to t.
Delivery(h, t, v) == [from |-> h, to |-> t, version |-> v]

\* The replicas put p has reached, itself or by a hint.
Covered(p) == done[p] \cup {t \in Replica : \E h \in Node : hinted[p][h] = t}

Init ==
  /\ phase = [p \in Put |-> "idle"]
  /\ ts = [p \in Put |-> -1]
  /\ done = [p \in Put |-> {}]
  /\ hinted = [p \in Put |-> [h \in Node |-> None]]
  /\ db = [n \in Node |-> None]
  /\ hints = [h \in Node |-> [t \in Node |-> None]]
  /\ answered = {}
  /\ wiped = {}
  /\ spoiled = {}
  /\ raced = {}

-----------------------------------------------------------------------------
(* Faulty forms of some actions, each with a bug the code could have had.  *)
(* They are not part of Next: the runs substitute them one at a time to    *)
(* show which property notices.                                            *)

\* A replica that got a hint and the late write as well counts twice.
CountedTwice(p) ==
  /\ phase[p] = "open"
  /\ phase' = [phase EXCEPT ![p] =
       IF Cardinality(done[p]) + Cardinality({h \in Node : hinted[p][h] # None}) >= W
       THEN "ok" ELSE "failed"]
  /\ UNCHANGED <<ts, done, hinted, db, hints, answered, wiped, spoiled, raced>>

\* The hint is deleted when it is sent.
DeletedFirst(h, t, v) ==
  /\ hinted[v][h] = t
  /\ hints[h][t] = v
  /\ answered' = answered \cup {Delivery(h, t, v)}
  /\ UNCHANGED <<putVars, db, hints, wiped, spoiled, raced>>

\* A candidate that fails gets a hint of its own.
HintForCandidate(p, h, t) ==
  /\ phase[p] # "idle"
  /\ h \notin Replica
  /\ hinted[p][h] = None
  /\ hinted' = [hinted EXCEPT ![p][h] = t]
  /\ hints' = [hints EXCEPT ![h][t] = p]
  /\ UNCHANGED <<phase, ts, done, db, answered, wiped, spoiled, raced>>

-----------------------------------------------------------------------------
(* put and its replica and hint handlers *)

Start(p, time) ==
  /\ phase[p] = "idle"
  /\ phase' = [phase EXCEPT ![p] = "open"]
  /\ ts' = [ts EXCEPT ![p] = time]
  /\ UNCHANGED <<done, hinted, db, hints, answered, wiped, spoiled, raced>>

\* p's write-if-newer at replica n, whether or not anybody still waits for it.
Write(p, n) ==
  /\ phase[p] # "idle"
  /\ n \in Replica \ done[p]
  /\ done' = [done EXCEPT ![p] = @ \cup {n}]
  /\ \E v \in Kept(n, p) : db' = [db EXCEPT ![n] = v]
  /\ UNCHANGED <<phase, ts, hinted, hints, answered, wiped, spoiled, raced>>

\* p's hint for t at node h, which is tried once: it replaces the one h kept.
StoreHint(p, h, t) ==
  /\ phase[p] # "idle"
  /\ h \notin Replica /\ t \in Replica
  /\ hinted[p][h] = None
  /\ hinted' = [hinted EXCEPT ![p][h] = t]
  /\ hints' = [hints EXCEPT ![h][t] = p]
  /\ spoiled' = IF Age(hints[h][t]) > ts[p] THEN spoiled \cup {<<h, t>>} ELSE spoiled
  /\ UNCHANGED <<phase, ts, done, db, answered, wiped, raced>>

\* What the client is told; a put that misses answers may fail all the same.
Answer(p) ==
  /\ phase[p] = "open"
  /\ \/ /\ Cardinality(Covered(p)) >= W
        /\ phase' = [phase EXCEPT ![p] = "ok"]
     \/ phase' = [phase EXCEPT ![p] = "failed"]
  /\ UNCHANGED <<ts, done, hinted, db, hints, answered, wiped, spoiled, raced>>

\* Two handlers of n are in put_if_newer at once, with different timestamps.
Overlap(n) ==
  /\ n \in Replica \ raced
  /\ raced' = raced \cup {n}
  /\ UNCHANGED <<putVars, db, hints, answered, wiped, spoiled>>

-----------------------------------------------------------------------------
(* Background work.  A write of it takes a version that was at some node at *)
(* some time to another node, by put_if_newer.                              *)

\* A read repair, the push of a reconciliation, or a delivery whose task does
\* not hear of it.  A push to a node that is not a replica of the key changes
\* only a store that put, get and reconcile_keys never read for it.
Refresh(n, v) ==
  /\ n \in Replica
  /\ Covered(v) # {}
  /\ \E u \in Kept(n, v) : db' = [db EXCEPT ![n] = u]
  /\ UNCHANGED <<putVars, hints, answered, wiped, spoiled, raced>>

\* deliver_hints: t executes and acknowledges the hint h had read.
Deliver(h, t, v) ==
  /\ hinted[v][h] = t
  /\ \E u \in Kept(t, v) : db' = [db EXCEPT ![t] = u]
  /\ answered' = answered \cup {Delivery(h, t, v)}
  /\ UNCHANGED <<putVars, hints, wiped, spoiled, raced>>

\* delete_hint, whatever hint is there by now.
DeleteHint(d) ==
  /\ d \in answered
  /\ answered' = answered \ {d}
  /\ hints' = [hints EXCEPT ![d.from][d.to] = None]
  /\ spoiled' = IF Age(hints[d.from][d.to]) > Age(d.version)
                THEN spoiled \cup {<<d.from, d.to>>} ELSE spoiled
  /\ UNCHANGED <<putVars, db, wiped, raced>>

\* The process of n stops and starts again; the puts it coordinated are answered
\* by nobody, its tasks are gone.  The hints it keeps for others lie in the
\* directory that --wipe-data removes.
Restart(n, wipe) ==
  /\ \E lost \in SUBSET {p \in Put : phase[p] = "open"} :
       phase' = [p \in Put |-> IF p \in lost THEN "failed" ELSE phase[p]]
  /\ answered' = {d \in answered : d.from # n}
  /\ \/ /\ wipe
        /\ Cardinality(wiped \cup {n}) <= MaxWiped
        /\ wiped' = wiped \cup {n}
        /\ db' = [db EXCEPT ![n] = None]
        /\ hints' = [hints EXCEPT ![n] = [t \in Node |-> None]]
     \/ ~wipe /\ UNCHANGED <<wiped, db, hints>>
  /\ UNCHANGED <<ts, done, hinted, spoiled, raced>>

Next ==
  \/ \E p \in Put, time \in Timestamp : Start(p, time)
  \/ \E p \in Put, n \in Node : Write(p, n) \/ Refresh(n, p)
  \/ \E p \in Put, h, t \in Node : StoreHint(p, h, t) \/ Deliver(h, t, p)
  \/ \E p \in Put : Answer(p)
  \/ \E n \in Node : Overlap(n)
  \/ \E d \in answered : DeleteHint(d)
  \/ \E n \in Node, wipe \in BOOLEAN : Restart(n, wipe)

Spec == Init /\ [][Next]_vars

-----------------------------------------------------------------------------
(* Every variable has its type. *)
TypeOK ==
  /\ phase \in [Put -> {"idle", "open", "ok", "failed"}]
  /\ ts \in [Put -> Timestamp \cup {-1}]
  /\ done \in [Put -> SUBSET Replica]
  /\ hinted \in [Put -> [Node -> Replica \cup {None}]]
  /\ db \in [Node -> Put \cup {None}]
  /\ hints \in [Node -> [Node -> Put \cup {None}]]
  /\ answered \in SUBSET [from : Node, to : Replica, version : Put]
  /\ wiped \in SUBSET Node
  /\ spoiled \in SUBSET (Node \X Replica)
  /\ raced \in SUBSET Replica

(* What a put has left at a node stays in effect: a replica that executed  *)
(* it has it or something newer until it loses its data or calls overlap   *)
(* there, and a replica for which a hint was taken has it, or the hint is  *)
(* still there, until one of the two loses its data, calls overlap at the  *)
(* replica or the hint is spoiled.  Late, repeated and reordered           *)
(* deliveries, reconciliations, repairs and crashes do no harm.            *)
Durable ==
  \A p \in Put, t \in Replica \ (wiped \cup raced) :
    /\ t \in done[p] => Age(db[t]) >= ts[p]
    /\ \A h \in Node \ wiped :
         hinted[p][h] = t /\ <<h, t>> \notin spoiled
           => Age(db[t]) >= ts[p] \/ Age(hints[h][t]) >= ts[p]

\* The replicas for which put p is safe at some node.
Places(p) ==
  {t \in Replica : Age(db[t]) >= ts[p] \/ \E h \in Node : Age(hints[h][t]) >= ts[p]}

(* An acknowledged put stays in W places, less one for each node that lost *)
(* its data or where calls overlapped and one for each spoiled hint: no    *)
(* node that starts with --wipe-data costs two, although it takes a        *)
(* replica's data and the hints it kept for others with it.                *)
Survives ==
  \A p \in Put : phase[p] = "ok" =>
    Cardinality(Places(p)) + Cardinality(wiped \cup raced) + Cardinality(spoiled) >= W
=============================================================================
