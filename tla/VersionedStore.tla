-------------------------- MODULE VersionedStore --------------------------
(***************************************************************************)
(* RocksDbStore: the versioned key-value store of one node                 *)
(* (src/src/store/rocksdb_store.rs).  put_if_newer reads the stored        *)
(* timestamp, decides, and writes, with no lock and no transaction around  *)
(* the two RocksDB calls.  The server runs on the multi-threaded tokio     *)
(* runtime, so calls of different worker threads interleave between the    *)
(* read and the write.                                                     *)
(*                                                                         *)
(* A call is abstracted to its RocksDB accesses: the read that opens it    *)
(* and the write that ends it.  get and iter_all change nothing.           *)
(***************************************************************************)
EXTENDS Integers, FiniteSets

CONSTANTS
  Key,         \* keys of the store
  Data,        \* payloads
  Timestamp,   \* values the clocks of the cluster return
  Thread,      \* worker threads of the tokio runtime that serve this store
  Absent       \* result of reading a key that is not stored

ASSUME TimestampAssumption == Timestamp \subseteq Nat

StoredEntry == [timestamp : Timestamp, data : Data]

ASSUME AbsentAssumption == Absent \notin StoredEntry

VARIABLES
  db,      \* db[k]: the stored entry of k, or Absent
  call,    \* call[t]: the call thread t is in the middle of
  floor,   \* history: floor[k] is the greatest timestamp put_if_newer has
           \* answered Ok for since k was last put unversioned or deleted
  raced    \* history: raced[k] is TRUE once a put_if_newer for k overlapped
           \* another one that had read k, not yet written it, and carries
           \* a timestamp that makes their order matter

vars == <<db, call, floor, raced>>

Idle == [op |-> "idle"]
Writing(op, k, e) == [op |-> op, key |-> k, entry |-> e]
Clearing(ks) == [op |-> "clear", keys |-> ks]

Call == {Idle}
          \cup {Writing(op, k, e) :
                  op \in {"putIfNewer", "put"}, k \in Key, e \in StoredEntry}
          \cup {Clearing(ks) : ks \in SUBSET Key}

Age(e) == IF e = Absent THEN -1 ELSE e.timestamp

Later(a, b) == IF a < b THEN b ELSE a

\* The put_if_newer calls for k that have read but not yet written.
Open(k) == {t \in Thread : call[t].op = "putIfNewer" /\ call[t].key = k}

Init ==
  /\ db = [k \in Key |-> Absent]
  /\ call = [t \in Thread |-> Idle]
  /\ floor = [k \in Key |-> -1]
  /\ raced = [k \in Key |-> FALSE]

-----------------------------------------------------------------------------
(* Faulty forms of some actions, each with a bug the code could have had.  *)
(* They are not part of Next: the runs substitute them one at a time to    *)
(* show which property notices.                                            *)

\* put_if_newer without the comparison.
BlindPutIfNewer(t, k, e) ==
  /\ call[t] = Idle
  /\ call' = [call EXCEPT ![t] = Writing("putIfNewer", k, e)]
  /\ raced' = [raced EXCEPT ![k] =
                 @ \/ \E u \in Open(k) : call[u].entry.timestamp # e.timestamp]
  /\ UNCHANGED <<db, floor>>

\* put_if_newer that lets a write with an equal timestamp win.
EqualPutIfNewer(t, k, e) ==
  /\ call[t] = Idle
  /\ Age(db[k]) <= e.timestamp
  /\ call' = [call EXCEPT ![t] = Writing("putIfNewer", k, e)]
  /\ raced' = [raced EXCEPT ![k] =
                 @ \/ \E u \in Open(k) : call[u].entry.timestamp # e.timestamp]
  /\ UNCHANGED <<db, floor>>

\* put that writes the payload without its StoredEntry.
BareEndPut(t) ==
  /\ call[t].op = "put"
  /\ db' = [db EXCEPT ![call[t].key] = call[t].entry.data]
  /\ floor' = [floor EXCEPT ![call[t].key] = -1]
  /\ call' = [call EXCEPT ![t] = Idle]
  /\ UNCHANGED raced

-----------------------------------------------------------------------------
(* put_if_newer *)

\* The early return: the stored entry is at least as fresh.
PutIfNewerStale(t, k, e) ==
  /\ call[t] = Idle
  /\ Age(db[k]) >= e.timestamp
  /\ floor' = [floor EXCEPT ![k] = Later(@, e.timestamp)]
  /\ raced' = [raced EXCEPT ![k] =
                 @ \/ \E u \in Open(k) : call[u].entry.timestamp < e.timestamp]
  /\ UNCHANGED <<db, call>>

\* The read found nothing, or an older entry: the call goes on to write.
BeginPutIfNewer(t, k, e) ==
  /\ call[t] = Idle
  /\ Age(db[k]) < e.timestamp
  /\ call' = [call EXCEPT ![t] = Writing("putIfNewer", k, e)]
  /\ raced' = [raced EXCEPT ![k] =
                 @ \/ \E u \in Open(k) : call[u].entry.timestamp # e.timestamp]
  /\ UNCHANGED <<db, floor>>

EndPutIfNewer(t) ==
  /\ call[t].op = "putIfNewer"
  /\ db' = [db EXCEPT ![call[t].key] = call[t].entry]
  /\ floor' = [floor EXCEPT ![call[t].key] = Later(@, call[t].entry.timestamp)]
  /\ call' = [call EXCEPT ![t] = Idle]
  /\ UNCHANGED raced

-----------------------------------------------------------------------------
(* StorageEngine::put: sample the clock, then write unconditionally *)

BeginPut(t, k, e) ==
  /\ call[t] = Idle
  /\ call' = [call EXCEPT ![t] = Writing("put", k, e)]
  /\ UNCHANGED <<db, floor, raced>>

EndPut(t) ==
  /\ call[t].op = "put"
  /\ db' = [db EXCEPT ![call[t].key] = call[t].entry]
  /\ floor' = [floor EXCEPT ![call[t].key] = -1]
  /\ call' = [call EXCEPT ![t] = Idle]
  /\ UNCHANGED raced

-----------------------------------------------------------------------------
(* clear_all: snapshot the keys, then delete them one by one in order;     *)
(* the order is RocksDB's, here any *)

BeginClear(t) ==
  /\ call[t] = Idle
  /\ call' = [call EXCEPT ![t] = Clearing({k \in Key : db[k] # Absent})]
  /\ UNCHANGED <<db, floor, raced>>

ClearKey(t) ==
  /\ call[t].op = "clear"
  /\ \E k \in call[t].keys :
       /\ db' = [db EXCEPT ![k] = Absent]
       /\ floor' = [floor EXCEPT ![k] = -1]
       /\ call' = [call EXCEPT ![t] = Clearing(call[t].keys \ {k})]
  /\ UNCHANGED raced

EndClear(t) ==
  /\ call[t] = Clearing({})
  /\ call' = [call EXCEPT ![t] = Idle]
  /\ UNCHANGED <<db, floor, raced>>

-----------------------------------------------------------------------------
\* RocksDB reports an error: the call returns it, and what it has already
\* deleted stays deleted.
FailCall(t) ==
  /\ call[t] # Idle
  /\ call' = [call EXCEPT ![t] = Idle]
  /\ UNCHANGED <<db, floor, raced>>

\* The process stops at any point and is started again, with or without
\* --wipe-data.  Calls in progress are lost; RocksDB keeps what was written.
Restart(wipe) ==
  /\ call' = [t \in Thread |-> Idle]
  /\ \/ wipe /\ db' = [k \in Key |-> Absent] /\ floor' = [k \in Key |-> -1]
     \/ ~wipe /\ UNCHANGED <<db, floor>>
  /\ UNCHANGED raced

Next ==
  \/ \E t \in Thread :
       EndPutIfNewer(t) \/ EndPut(t) \/ BeginClear(t) \/ ClearKey(t) \/ EndClear(t)
         \/ FailCall(t)
  \/ \E t \in Thread, k \in Key, e \in StoredEntry :
       PutIfNewerStale(t, k, e) \/ BeginPutIfNewer(t, k, e) \/ BeginPut(t, k, e)
  \/ \E wipe \in BOOLEAN : Restart(wipe)

Spec == Init /\ [][Next]_vars

-----------------------------------------------------------------------------
(* Every variable has its type: db holds whole entries, a call remembers   *)
(* what it is about to write, floor is a timestamp or -1.                  *)
TypeOK ==
  /\ db \in [Key -> StoredEntry \cup {Absent}]
  /\ call \in [Thread -> Call]
  /\ floor \in [Key -> Timestamp \cup {-1}]
  /\ raced \in [Key -> BOOLEAN]

(* Once put_if_newer has answered Ok for a timestamp, the key never falls  *)
(* behind it, through other versioned writes, crashes and restarts, unless *)
(* put_if_newer calls for that key with different timestamps overlapped:   *)
(* the window the comment at rocksdb_store.rs:45-47 accepts is the only    *)
(* way to lose an acknowledged entry, whatever the number of threads.      *)
AckedFloor == \A k \in Key : ~raced[k] => Age(db[k]) >= floor[k]

(* The store implements a last-writer-wins register per key.  Holds when   *)
(* one thread serves it.                                                   *)
LWW == INSTANCE LWWRegister
         WITH Entry <- StoredEntry, NoEntry <- Absent, reg <- db, promised <- floor,
              contended <- {k \in Key : raced[k]}

LWWRegisterSpec == LWW!RegSpec

(* With any number of threads it implements the shared register: each      *)
(* put_if_newer takes effect in one step, when it answers, and leaves what *)
(* it found or what it brought; it goes behind what was acknowledged only  *)
(* at a key where calls overlapped, and that key stays marked for good.    *)
SharedRegisterSpec == LWW!SharedSpec
=============================================================================
