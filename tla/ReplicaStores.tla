--------------------------- MODULE ReplicaStores ---------------------------
(***************************************************************************)
(* Each replica of ReplicatedStore is a VersionedStore: the handlers that  *)
(* the writes of a put and the repairs of a get run at a node are the      *)
(* put_if_newer calls of that node's RocksDbStore, with the requests as    *)
(* its threads and one key.  The two modules were written separately, each *)
(* from its part of the code; this one says that they agree on what is     *)
(* read, written and acknowledged, and on where calls overlap.             *)
(***************************************************************************)
EXTENDS ReplicatedStore

\* What the store keeps for a version: a StoredEntry, or nothing.
Nothing == [data |-> None]
Entry(v) == IF v = None THEN Nothing ELSE [timestamp |-> ts[v], data |-> v]

\* The timestamps node n has answered Ok for, and the greatest of them.
AckedTimes(n) == {-1} \cup {Age(Version(o)) : o \in {x \in Op : rpc[x][n] = "done"}}
Floor(n) == CHOOSE t \in AckedTimes(n) : \A u \in AckedTimes(n) : u <= t

\* The handler of request o at node n between its read and its write.
Handler(o, n) ==
  IF rpc[o][n] = "checked"
  THEN [op |-> "putIfNewer", key |-> n, entry |-> Entry(Version(o))]
  ELSE [op |-> "idle"]

\* The store of node n; its key is named after the node.
Store(n) == INSTANCE VersionedStore WITH
  Key <- {n},
  Data <- Put,
  Thread <- Op,
  Absent <- Nothing,
  db <- [k \in {n} |-> Entry(db[k])],
  call <- [o \in Op |-> Handler(o, n)],
  floor <- [k \in {n} |-> Floor(k)],
  raced <- [k \in {n} |-> k \in raced]

\* Nothing changes of what the store of node n depends on.
Untouched(n) ==
  /\ UNCHANGED <<ts, winner, db[n], n \in raced>>
  /\ \A o \in Op : rpc'[o][n] = rpc[o][n]

\* The calls of VersionedStore that reach the store of node n: the write-if-newer
\* of each request, with its own version, an error of one, a restart.
StoreStep(n) ==
  \/ \E o \in Op : \/ Store(n)!EndPutIfNewer(o) \/ Store(n)!FailCall(o)
                   \/ \E e \in {Entry(Version(o))} \cap Store(n)!StoredEntry :
                        /\ Store(n)!PutIfNewerStale(o, n, e) \/ Store(n)!BeginPutIfNewer(o, n, e)
  \/ Store(n)!Restart(FALSE)

(* At every node the coordinator protocol, with its late writes, repairs,  *)
(* lost calls and crashes, does only what put_if_newer calls with the      *)
(* requests' versions do at the node's store.                              *)
ReplicasAreStores ==
  /\ \A n \in Node : Store(n)!Init
  /\ [][\A n \in Node : Untouched(n) \/ StoreStep(n) \/ UNCHANGED Store(n)!vars]_vars
=============================================================================
