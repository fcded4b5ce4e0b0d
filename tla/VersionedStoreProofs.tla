----------------------- MODULE VersionedStoreProofs -----------------------
(***************************************************************************)
(* Proofs about VersionedStore: its types, the acknowledged floor for any  *)
(* number of threads, and the implementation of LWWRegister by one thread. *)
(***************************************************************************)
EXTENDS VersionedStore, TLAPS

(* Every entry of Call is idle, a write of an entry, or a deletion.        *)
LEMMA CallShape ==
  ASSUME NEW c \in Call
  PROVE  /\ c.op \in {"putIfNewer", "put"} => c.key \in Key /\ c.entry \in StoredEntry
         /\ c.op = "clear" => c.keys \in SUBSET Key
         /\ c.op = "idle" => c = Idle
BY DEF Call, Idle, Writing, Clearing

(* What the constructors of calls return is a call.                        *)
LEMMA CallConstructors ==
  /\ Idle \in Call
  /\ \A op \in {"putIfNewer", "put"}, k \in Key, e \in StoredEntry : Writing(op, k, e) \in Call
  /\ \A ks \in SUBSET Key : Clearing(ks) \in Call
BY DEF Call

(* The age of an entry is its timestamp, a natural number; that of Absent  *)
(* is -1.                                                                  *)
LEMMA AgeFacts ==
  /\ Age(Absent) = -1
  /\ \A e \in StoredEntry : Age(e) = e.timestamp /\ Age(e) \in Nat
BY TimestampAssumption, AbsentAssumption DEF Age, StoredEntry

(* Type correctness of the store: whatever calls, crashes and restarts     *)
(* interleave, the stored entries, the calls and the histories are         *)
(* well-formed.                                                            *)
THEOREM TypeCorrect == Spec => []TypeOK
<1>1. Init => TypeOK
  BY CallConstructors DEF Init, TypeOK
<1>2. TypeOK /\ [Next]_vars => TypeOK'
  <2> SUFFICES ASSUME TypeOK, [Next]_vars PROVE TypeOK'
    OBVIOUS
  <2> USE DEF TypeOK
  <2>1. ASSUME NEW t \in Thread, NEW k \in Key, NEW e \in StoredEntry, PutIfNewerStale(t, k, e)
        PROVE  TypeOK'
    BY <2>1 DEF PutIfNewerStale, Later, StoredEntry
  <2>2. ASSUME NEW t \in Thread, NEW k \in Key, NEW e \in StoredEntry, BeginPutIfNewer(t, k, e)
        PROVE  TypeOK'
    BY <2>2, CallConstructors DEF BeginPutIfNewer
  <2>3. ASSUME NEW t \in Thread, NEW k \in Key, NEW e \in StoredEntry, BeginPut(t, k, e)
        PROVE  TypeOK'
    BY <2>3, CallConstructors DEF BeginPut
  <2>4. ASSUME NEW t \in Thread, EndPutIfNewer(t) PROVE TypeOK'
    <3>1. call[t].key \in Key /\ call[t].entry \in StoredEntry
      BY <2>4, CallShape DEF EndPutIfNewer
    <3> QED
      BY <2>4, <3>1, CallConstructors DEF EndPutIfNewer, Later, StoredEntry
  <2>5. ASSUME NEW t \in Thread, EndPut(t) PROVE TypeOK'
    <3>1. call[t].key \in Key /\ call[t].entry \in StoredEntry
      BY <2>5, CallShape DEF EndPut
    <3> QED
      BY <2>5, <3>1, CallConstructors DEF EndPut
  <2>6. ASSUME NEW t \in Thread, BeginClear(t) PROVE TypeOK'
    BY <2>6, CallConstructors DEF BeginClear
  <2>7. ASSUME NEW t \in Thread, ClearKey(t) PROVE TypeOK'
    <3>1. call[t].keys \in SUBSET Key
      BY <2>7, CallShape DEF ClearKey
    <3>2. PICK k \in call[t].keys :
            /\ db' = [db EXCEPT ![k] = Absent]
            /\ floor' = [floor EXCEPT ![k] = -1]
            /\ call' = [call EXCEPT ![t] = Clearing(call[t].keys \ {k})]
      BY <2>7 DEF ClearKey
    <3>3. Clearing(call[t].keys \ {k}) \in Call
      BY <3>1, CallConstructors
    <3> QED
      BY <2>7, <3>1, <3>2, <3>3 DEF ClearKey
  <2>8. ASSUME NEW t \in Thread, EndClear(t) PROVE TypeOK'
    BY <2>8, CallConstructors DEF EndClear
  <2>9. ASSUME NEW wipe \in BOOLEAN, Restart(wipe) PROVE TypeOK'
    BY <2>9, CallConstructors DEF Restart
  <2>10. ASSUME NEW t \in Thread, FailCall(t) PROVE TypeOK'
    BY <2>10, CallConstructors DEF FailCall
  <2>11. CASE UNCHANGED vars
    BY <2>11 DEF vars
  <2> QED
    BY <2>1, <2>2, <2>3, <2>4, <2>5, <2>6, <2>7, <2>8, <2>9, <2>10, <2>11 DEF Next
<1> QED
  BY <1>1, <1>2, PTL DEF Spec

-----------------------------------------------------------------------------
(***************************************************************************)
(* AckedFloor is not inductive: it says nothing of the calls that are      *)
(* between their read and their write.  OrderKept adds what an open        *)
(* put_if_newer for an unraced key knows: nothing with a later timestamp   *)
(* was acknowledged since its read, and no other open call differs.        *)
(***************************************************************************)
OrderKept ==
  \A k \in Key : ~raced[k] =>
    /\ \A t \in Open(k) : floor[k] <= call[t].entry.timestamp
    /\ \A t, u \in Open(k) : call[t].entry.timestamp = call[u].entry.timestamp

FloorInv == TypeOK /\ OrderKept /\ AckedFloor

(* A put_if_newer call in progress holds a key and an entry.               *)
LEMMA OpenFacts ==
  ASSUME TypeOK, NEW k \in Key, NEW t \in Open(k)
  PROVE  t \in Thread /\ call[t].entry \in StoredEntry /\ call[t].entry.timestamp \in Nat
<1>1. t \in Thread /\ call[t].op = "putIfNewer" /\ call[t] \in Call
  BY DEF Open, TypeOK
<1>2. call[t].entry \in StoredEntry
  BY <1>1, CallShape
<1> QED
  BY <1>1, <1>2, TimestampAssumption DEF StoredEntry

(* A floor is an integer, and so is the age of what a key holds.           *)
LEMMA FloorFacts ==
  ASSUME TypeOK, NEW k \in Key
  PROVE  floor[k] \in Int /\ Age(db[k]) \in Int /\ Age(db[k]) >= -1 /\ floor[k] >= -1
<1>1. floor[k] \in Timestamp \cup {-1} /\ db[k] \in StoredEntry \cup {Absent}
  BY DEF TypeOK
<1>2. floor[k] \in Int /\ floor[k] >= -1
  BY <1>1, TimestampAssumption
<1>3. Age(db[k]) \in Int /\ Age(db[k]) >= -1
  BY <1>1, AgeFacts
<1> QED
  BY <1>2, <1>3

(* Ending a call leaves the calls of the other threads as they were.       *)
LEMMA OpenAfterIdle ==
  ASSUME TypeOK, NEW t \in Thread, call' = [call EXCEPT ![t] = Idle]
  PROVE  \A k \in Key : \A u \in Open(k)' : u \in Open(k) /\ call'[u] = call[u] /\ u # t
BY DEF Open, Idle, TypeOK

(* Starting a call other than put_if_newer opens nothing.                  *)
LEMMA OpenAfterOther ==
  ASSUME TypeOK, NEW t \in Thread, NEW c, c.op # "putIfNewer", call' = [call EXCEPT ![t] = c]
  PROVE  \A k \in Key : \A u \in Open(k)' : u \in Open(k) /\ call'[u] = call[u]
BY DEF Open, TypeOK

(* The invariant is inductive, for any number of threads.                  *)
LEMMA FloorInvHolds == Spec => []FloorInv
<1>1. Init => OrderKept /\ AckedFloor
  <2> SUFFICES ASSUME Init PROVE OrderKept /\ AckedFloor
    OBVIOUS
  <2>1. \A k \in Key : Open(k) = {}
    BY DEF Init, Open, Idle
  <2> QED
    BY <2>1, AgeFacts DEF Init, OrderKept, AckedFloor
<1>2. FloorInv /\ TypeOK' /\ [Next]_vars => OrderKept' /\ AckedFloor'
  <2> SUFFICES ASSUME FloorInv, TypeOK', [Next]_vars PROVE OrderKept' /\ AckedFloor'
    OBVIOUS
  <2> USE DEF FloorInv
  <2>1. ASSUME NEW t \in Thread, NEW k \in Key, NEW e \in StoredEntry, PutIfNewerStale(t, k, e)
        PROVE  OrderKept' /\ AckedFloor'
    <3>1. e.timestamp \in Nat
      BY TimestampAssumption DEF StoredEntry
    <3>2. \A j \in Key : Open(j)' = Open(j)
      BY <2>1 DEF PutIfNewerStale, Open
    <3>3. \A j \in Key : j # k => floor'[j] = floor[j] /\ raced'[j] = raced[j]
      BY <2>1 DEF PutIfNewerStale, TypeOK
    <3>4. /\ floor'[k] = Later(floor[k], e.timestamp)
          /\ ~raced'[k] => ~raced[k] /\ \A u \in Open(k) : ~(call[u].entry.timestamp < e.timestamp)
      BY <2>1 DEF PutIfNewerStale, TypeOK
    <3>5. db' = db /\ call' = call /\ Age(db[k]) >= e.timestamp
      BY <2>1 DEF PutIfNewerStale
    <3>6. ASSUME NEW j \in Key, ~raced'[j]
          PROVE  /\ \A u \in Open(j) : floor'[j] <= call[u].entry.timestamp
                 /\ \A u, v \in Open(j) : call[u].entry.timestamp = call[v].entry.timestamp
                 /\ Age(db[j]) >= floor'[j]
      <4>1. CASE j # k
        BY <3>3, <3>6, <4>1 DEF OrderKept, AckedFloor
      <4>2. CASE j = k
        BY <3>1, <3>4, <3>5, <3>6, <4>2, OpenFacts, FloorFacts DEF OrderKept, AckedFloor, Later
      <4> QED
        BY <4>1, <4>2
    <3>7. OrderKept'
      BY <3>2, <3>5, <3>6 DEF OrderKept
    <3>8. AckedFloor'
      BY <3>5, <3>6 DEF AckedFloor, Age
    <3> QED
      BY <3>7, <3>8
  <2>2. ASSUME NEW t \in Thread, NEW k \in Key, NEW e \in StoredEntry, BeginPutIfNewer(t, k, e)
        PROVE  OrderKept' /\ AckedFloor'
    <3>1. e.timestamp \in Nat
      BY TimestampAssumption DEF StoredEntry
    <3>2. db' = db /\ floor' = floor /\ Age(db[k]) < e.timestamp
      BY <2>2 DEF BeginPutIfNewer
    <3>3. \A j \in Key : j # k => Open(j)' = Open(j) /\ raced'[j] = raced[j]
      BY <2>2 DEF BeginPutIfNewer, Open, TypeOK, Writing, Idle
    <3>4. /\ Open(k)' \subseteq Open(k) \cup {t}
          /\ ~raced'[k] => ~raced[k] /\ \A u \in Open(k) : call[u].entry.timestamp = e.timestamp
      BY <2>2 DEF BeginPutIfNewer, Open, TypeOK, Writing
    <3>5. call'[t].entry = e /\ \A u \in Thread : u # t => call'[u] = call[u]
      BY <2>2 DEF BeginPutIfNewer, TypeOK, Writing
    <3>6. \A j \in Key : t \notin Open(j)
      BY <2>2 DEF BeginPutIfNewer, Open, Idle
    <3>7. AckedFloor'
      BY <2>2, <3>2, <3>3, <3>4 DEF AckedFloor, Age
    <3>8. ASSUME NEW j \in Key, ~raced'[j]
          PROVE  /\ \A u \in Open(j)' : floor[j] <= call'[u].entry.timestamp
                 /\ \A u, v \in Open(j)' : call'[u].entry.timestamp = call'[v].entry.timestamp
      <4>1. CASE j # k
        <5>1. Open(j)' = Open(j) /\ \A u \in Open(j) : u \in Thread /\ call'[u] = call[u]
          BY <3>3, <3>5, <3>6, <4>1 DEF Open
        <5> QED
          BY <3>3, <3>8, <4>1, <5>1 DEF OrderKept
      <4>2. CASE j = k
        <5>1. ~raced[k] /\ \A u \in Open(k) : call[u].entry.timestamp = e.timestamp
          BY <3>4, <3>8, <4>2
        <5>2. \A u \in Open(k)' : call'[u].entry.timestamp = e.timestamp
          BY <3>4, <3>5, <3>6, <5>1 DEF Open
        <5>3. floor[k] <= e.timestamp
          BY <3>1, <3>2, <5>1, FloorFacts DEF AckedFloor
        <5> QED
          BY <4>2, <5>2, <5>3
      <4> QED
        BY <4>1, <4>2
    <3>9. OrderKept'
      BY <3>2, <3>8 DEF OrderKept
    <3> QED
      BY <3>7, <3>9
  <2>3. ASSUME NEW t \in Thread, NEW k \in Key, NEW e \in StoredEntry, BeginPut(t, k, e)
        PROVE  OrderKept' /\ AckedFloor'
    <3>1. UNCHANGED <<db, floor, raced>>
      BY <2>3 DEF BeginPut
    <3>2. \A j \in Key : \A u \in Open(j)' : u \in Open(j) /\ call'[u] = call[u]
      BY <2>3, OpenAfterOther DEF BeginPut, Writing
    <3> QED
      BY <3>1, <3>2 DEF OrderKept, AckedFloor, Age
  <2>4. ASSUME NEW t \in Thread, EndPutIfNewer(t) PROVE OrderKept' /\ AckedFloor'
    <3>0. PICK k \in Key, e \in StoredEntry : k = call[t].key /\ e = call[t].entry
      BY <2>4, CallShape DEF EndPutIfNewer, TypeOK
    <3>1. t \in Open(k) /\ e = call[t].entry /\ e.timestamp \in Nat
      BY <2>4, <3>0, OpenFacts DEF EndPutIfNewer, Open
    <3>2. \A j \in Key : \A u \in Open(j)' : u \in Open(j) /\ call'[u] = call[u]
      BY <2>4, OpenAfterIdle DEF EndPutIfNewer
    <3>3. raced' = raced /\ db'[k] = e /\ floor'[k] = Later(floor[k], e.timestamp)
      BY <2>4, <3>0 DEF EndPutIfNewer, TypeOK
    <3>4. \A j \in Key : j # k => db'[j] = db[j] /\ floor'[j] = floor[j]
      BY <2>4, <3>0 DEF EndPutIfNewer, TypeOK
    <3>5. ASSUME ~raced[k] PROVE floor'[k] = e.timestamp
      BY <3>1, <3>3, <3>5, FloorFacts DEF OrderKept, Later
    <3>6. ASSUME NEW j \in Key, ~raced[j]
          PROVE  /\ \A u \in Open(j)' : floor'[j] <= call'[u].entry.timestamp
                 /\ \A u, v \in Open(j)' : call'[u].entry.timestamp = call'[v].entry.timestamp
                 /\ Age(db'[j]) >= floor'[j]
      <4>1. CASE j # k
        BY <3>2, <3>4, <3>6, <4>1 DEF OrderKept, AckedFloor
      <4>2. CASE j = k
        <5>1. \A u \in Open(k)' : call'[u].entry.timestamp = e.timestamp
          BY <3>1, <3>2, <3>6, <4>2 DEF OrderKept
        <5> QED
          BY <3>1, <3>3, <3>5, <3>6, <4>2, <5>1, AgeFacts
      <4> QED
        BY <4>1, <4>2
    <3>7. OrderKept'
      BY <3>3, <3>6 DEF OrderKept
    <3>8. AckedFloor'
      BY <3>3, <3>6 DEF AckedFloor, Age
    <3> QED
      BY <3>7, <3>8
  <2>5. ASSUME NEW t \in Thread, EndPut(t) PROVE OrderKept' /\ AckedFloor'
    <3>1. call[t].key \in Key /\ call[t].entry \in StoredEntry
      BY <2>5, CallShape DEF EndPut, TypeOK
    <3>2. \A j \in Key : \A u \in Open(j)' : u \in Open(j) /\ call'[u] = call[u]
      BY <2>5, OpenAfterIdle DEF EndPut
    <3>3. raced' = raced /\ db'[call[t].key] = call[t].entry /\ floor'[call[t].key] = -1
      BY <2>5, <3>1 DEF EndPut, TypeOK
    <3>4. \A j \in Key : j # call[t].key => db'[j] = db[j] /\ floor'[j] = floor[j]
      BY <2>5 DEF EndPut, TypeOK
    <3>5. \A j \in Key : floor'[j] = floor[j] \/ floor'[j] = -1
      BY <3>1, <3>3, <3>4
    <3>6. OrderKept'
      <4> SUFFICES ASSUME NEW j \in Key, ~raced[j]
                   PROVE  /\ \A u \in Open(j)' : floor'[j] <= call'[u].entry.timestamp
                          /\ \A u, v \in Open(j)' : call'[u].entry.timestamp = call'[v].entry.timestamp
        BY <3>3 DEF OrderKept
      <4> QED
        BY <3>2, <3>5, OpenFacts, FloorFacts DEF OrderKept
    <3>7. AckedFloor'
      <4> SUFFICES ASSUME NEW j \in Key, ~raced[j] PROVE Age(db'[j]) >= floor'[j]
        BY <3>3 DEF AckedFloor, Age
      <4> QED
        BY <3>1, <3>3, <3>4, AgeFacts DEF AckedFloor
    <3> QED
      BY <3>6, <3>7
  <2>6. ASSUME NEW t \in Thread, BeginClear(t) PROVE OrderKept' /\ AckedFloor'
    <3>1. UNCHANGED <<db, floor, raced>>
      BY <2>6 DEF BeginClear
    <3>2. \A j \in Key : \A u \in Open(j)' : u \in Open(j) /\ call'[u] = call[u]
      BY <2>6, OpenAfterOther DEF BeginClear, Clearing
    <3> QED
      BY <3>1, <3>2 DEF OrderKept, AckedFloor, Age
  <2>7. ASSUME NEW t \in Thread, ClearKey(t) PROVE OrderKept' /\ AckedFloor'
    <3>1. PICK k \in call[t].keys :
            /\ db' = [db EXCEPT ![k] = Absent]
            /\ floor' = [floor EXCEPT ![k] = -1]
            /\ call' = [call EXCEPT ![t] = Clearing(call[t].keys \ {k})]
      BY <2>7 DEF ClearKey
    <3>2. k \in Key /\ raced' = raced
      BY <2>7, CallShape DEF ClearKey, TypeOK
    <3>3. \A j \in Key : \A u \in Open(j)' : u \in Open(j) /\ call'[u] = call[u]
      BY <3>1, OpenAfterOther DEF Clearing
    <3>4. \A j \in Key : \/ floor'[j] = floor[j] /\ db'[j] = db[j]
                         \/ floor'[j] = -1 /\ db'[j] = Absent
      BY <3>1, <3>2 DEF TypeOK
    <3>5. OrderKept'
      <4> SUFFICES ASSUME NEW j \in Key, ~raced[j]
                   PROVE  /\ \A u \in Open(j)' : floor'[j] <= call'[u].entry.timestamp
                          /\ \A u, v \in Open(j)' : call'[u].entry.timestamp = call'[v].entry.timestamp
        BY <3>2 DEF OrderKept
      <4> QED
        BY <3>3, <3>4, OpenFacts, FloorFacts DEF OrderKept
    <3>6. AckedFloor'
      <4> SUFFICES ASSUME NEW j \in Key, ~raced[j] PROVE Age(db'[j]) >= floor'[j]
        BY <3>2 DEF AckedFloor, Age
      <4> QED
        BY <3>4, AgeFacts DEF AckedFloor
    <3> QED
      BY <3>5, <3>6
  <2>8. ASSUME NEW t \in Thread, EndClear(t) PROVE OrderKept' /\ AckedFloor'
    <3>1. UNCHANGED <<db, floor, raced>>
      BY <2>8 DEF EndClear
    <3>2. \A j \in Key : \A u \in Open(j)' : u \in Open(j) /\ call'[u] = call[u]
      BY <2>8, OpenAfterIdle DEF EndClear
    <3> QED
      BY <3>1, <3>2 DEF OrderKept, AckedFloor, Age
  <2>9. ASSUME NEW wipe \in BOOLEAN, Restart(wipe) PROVE OrderKept' /\ AckedFloor'
    <3>1. \A j \in Key : Open(j)' = {}
      BY <2>9 DEF Restart, Open, Idle
    <3>2. \A j \in Key : \/ floor'[j] = floor[j] /\ db'[j] = db[j]
                         \/ floor'[j] = -1 /\ db'[j] = Absent
      BY <2>9 DEF Restart, TypeOK
    <3>3. raced' = raced
      BY <2>9 DEF Restart
    <3>4. OrderKept'
      BY <3>1 DEF OrderKept
    <3>5. AckedFloor'
      <4> SUFFICES ASSUME NEW j \in Key, ~raced[j] PROVE Age(db'[j]) >= floor'[j]
        BY <3>3 DEF AckedFloor, Age
      <4> QED
        BY <3>2, AgeFacts DEF AckedFloor
    <3> QED
      BY <3>4, <3>5
  <2>10. ASSUME NEW t \in Thread, FailCall(t) PROVE OrderKept' /\ AckedFloor'
    <3>1. UNCHANGED <<db, floor, raced>>
      BY <2>10 DEF FailCall
    <3>2. \A j \in Key : \A u \in Open(j)' : u \in Open(j) /\ call'[u] = call[u]
      BY <2>10, OpenAfterIdle DEF FailCall
    <3> QED
      BY <3>1, <3>2 DEF OrderKept, AckedFloor, Age
  <2>11. CASE UNCHANGED vars
    BY <2>11 DEF vars, OrderKept, AckedFloor, Open, Age
  <2> QED
    BY <2>1, <2>2, <2>3, <2>4, <2>5, <2>6, <2>7, <2>8, <2>9, <2>10, <2>11 DEF Next
<1>3. Spec => []TypeOK
  BY TypeCorrect
<1> QED
  BY <1>1, <1>2, <1>3, PTL DEF Spec, FloorInv

(* The acknowledged floor, for any number of threads, keys and timestamps: *)
(* put_if_newer loses an acknowledged entry only where two calls of        *)
(* different timestamps overlapped on the key.                             *)
THEOREM FloorKept == Spec => []AckedFloor
BY FloorInvHolds, PTL DEF FloorInv

-----------------------------------------------------------------------------
(***************************************************************************)
(* Any number of threads: put_if_newer takes effect when it answers, and   *)
(* at an unraced key FloorInv says that what it leaves is at least as      *)
(* recent as what was acknowledged and as what it was asked to write.      *)
(***************************************************************************)
Contended == {k \in Key : raced[k]}

(* The early return offers an entry that is not taken, and may mark the    *)
(* key.                                                                    *)
LEMMA StaleIsOffer ==
  ASSUME FloorInv, TypeOK', NEW t \in Thread, NEW k \in Key, NEW e \in StoredEntry,
         PutIfNewerStale(t, k, e)
  PROVE  LWW!SharedOffer(k, e)
<1>1. e.timestamp \in Nat
  BY TimestampAssumption DEF StoredEntry
<1>2. Contended' \in {Contended, Contended \cup {k}}
  <2>1. raced' \in [Key -> BOOLEAN] /\ raced \in [Key -> BOOLEAN]
    BY DEF TypeOK, FloorInv
  <2>2. \A j \in Key : j # k => raced'[j] = raced[j]
    BY <2>1 DEF PutIfNewerStale
  <2>3. raced[k] => raced'[k]
    BY <2>1 DEF PutIfNewerStale
  <2> QED
    BY <2>2, <2>3 DEF Contended
<1>3. db' = [db EXCEPT ![k] = db[k]]
  BY DEF PutIfNewerStale, FloorInv, TypeOK
<1>4. k \notin Contended' => Age(db[k]) >= Later(floor[k], e.timestamp)
  <2> SUFFICES ASSUME ~raced'[k] PROVE Age(db[k]) >= Later(floor[k], e.timestamp)
    BY DEF Contended
  <2>1. ~raced[k]
    BY DEF PutIfNewerStale, FloorInv, TypeOK
  <2> QED
    BY <1>1, <2>1, FloorFacts DEF FloorInv, AckedFloor, PutIfNewerStale, Later
<1>5. floor' = [floor EXCEPT ![k] = Later(@, e.timestamp)]
  BY DEF PutIfNewerStale
<1> QED
  BY <1>2, <1>3, <1>4, <1>5
  DEF LWW!SharedOffer, LWW!AgeOf, LWW!Larger, Age, Later, Contended

(* The write of an open call offers the entry that the call has carried    *)
(* since its read.                                                         *)
LEMMA WriteIsOffer ==
  ASSUME FloorInv, NEW t \in Thread, EndPutIfNewer(t)
  PROVE  \E k \in Key, e \in StoredEntry : LWW!SharedOffer(k, e)
<1>1. PICK k \in Key, e \in StoredEntry : k = call[t].key /\ e = call[t].entry
  BY CallShape DEF EndPutIfNewer, FloorInv, TypeOK
<1>2. t \in Open(k) /\ e.timestamp \in Nat /\ Age(e) = e.timestamp
  BY <1>1, AgeFacts DEF EndPutIfNewer, Open
<1>3. Contended' = Contended
  BY DEF Contended, EndPutIfNewer
<1>4. db' = [db EXCEPT ![k] = e] /\ floor' = [floor EXCEPT ![k] = Later(@, e.timestamp)]
  BY <1>1 DEF EndPutIfNewer
<1>5. k \notin Contended' => Age(e) >= Later(floor[k], e.timestamp)
  BY <1>1, <1>2, <1>3, FloorFacts DEF FloorInv, OrderKept, Contended, Later
<1>6. LWW!SharedOffer(k, e)
  BY <1>3, <1>4, <1>5 DEF LWW!SharedOffer, LWW!AgeOf, LWW!Larger, Age, Later, Contended
<1> QED
  BY <1>6

(* With any number of worker threads the store implements the shared       *)
(* register, for every set of keys, payloads and timestamps: a step of the *)
(* store is one step of the register or changes nothing the register has.  *)
THEOREM ThreadsImplementRegister == Spec => SharedRegisterSpec
<1>1. Init => LWW!RegInit /\ Contended = {}
  BY DEF Init, LWW!RegInit, Contended
<1>2. FloorInv /\ TypeOK' /\ [Next]_vars => [LWW!SharedNext]_<<LWW!regVars, Contended>>
  <2> SUFFICES ASSUME FloorInv, TypeOK', [Next]_vars
               PROVE  LWW!SharedNext \/ UNCHANGED <<db, floor, Contended>>
    BY DEF LWW!regVars
  <2>0. TypeOK
    BY DEF FloorInv
  <2>1. ASSUME NEW t \in Thread, NEW k \in Key, NEW e \in StoredEntry, PutIfNewerStale(t, k, e)
        PROVE  LWW!SharedOffer(k, e)
    BY <2>1, StaleIsOffer
  <2>2. ASSUME NEW t \in Thread, NEW k \in Key, NEW e \in StoredEntry, BeginPutIfNewer(t, k, e)
        PROVE  LWW!Contend(k) \/ UNCHANGED <<db, floor, Contended>>
    <3>1. \A j \in Key : j # k => raced'[j] = raced[j]
      BY <2>0, <2>2 DEF BeginPutIfNewer, TypeOK
    <3>2. raced[k] => raced'[k]
      BY <2>0, <2>2 DEF BeginPutIfNewer, TypeOK
    <3>3. Contended' = Contended \/ Contended' = Contended \cup {k}
      BY <3>1, <3>2 DEF Contended
    <3> QED
      BY <2>2, <3>3 DEF BeginPutIfNewer, LWW!Contend, LWW!regVars, Contended
  <2>3. ASSUME NEW t \in Thread, EndPutIfNewer(t)
        PROVE  \E k \in Key, e \in StoredEntry : LWW!SharedOffer(k, e)
    BY <2>3, WriteIsOffer
  <2>4. ASSUME NEW t \in Thread, EndPut(t)
        PROVE  \E k \in Key, e \in StoredEntry : LWW!Assign(k, e) /\ UNCHANGED Contended
    <3>1. call[t].key \in Key /\ call[t].entry \in StoredEntry
      BY <2>0, <2>4, CallShape DEF EndPut, TypeOK
    <3> QED
      BY <2>4, <3>1 DEF EndPut, LWW!Assign, Contended
  <2>5. ASSUME NEW t \in Thread, ClearKey(t)
        PROVE  \E ks \in SUBSET Key : LWW!Erase(ks) /\ UNCHANGED Contended
    <3>1. PICK k \in call[t].keys :
            db' = [db EXCEPT ![k] = Absent] /\ floor' = [floor EXCEPT ![k] = -1]
      BY <2>5 DEF ClearKey
    <3>2. k \in Key
      BY <2>0, <2>5, CallShape DEF ClearKey, TypeOK
    <3>3. LWW!Erase({k}) /\ UNCHANGED Contended
      BY <2>0, <2>5, <3>1, <3>2 DEF ClearKey, LWW!Erase, TypeOK, Contended
    <3> QED
      BY <3>2, <3>3
  <2>6. ASSUME Restart(TRUE) PROVE LWW!Erase(Key) /\ UNCHANGED Contended
    BY <2>6 DEF Restart, LWW!Erase, Contended
  <2>7. ASSUME \/ \E t \in Thread :
                    \/ \E k \in Key, e \in StoredEntry : BeginPut(t, k, e)
                    \/ BeginClear(t) \/ EndClear(t) \/ FailCall(t)
               \/ Restart(FALSE) \/ UNCHANGED vars
        PROVE  UNCHANGED <<db, floor, Contended>>
    BY <2>7 DEF BeginPut, BeginClear, EndClear, FailCall, Restart, vars, Contended
  <2> QED
    BY <2>1, <2>2, <2>3, <2>4, <2>5, <2>6, <2>7 DEF Next, LWW!SharedNext, Contended
<1>3. Spec => []FloorInv /\ []TypeOK
  BY FloorInvHolds, TypeCorrect
<1> QED
  BY <1>1, <1>2, <1>3, PTL DEF Spec, SharedRegisterSpec, LWW!SharedSpec, Contended

-----------------------------------------------------------------------------
(***************************************************************************)
(* One thread: the open call is the only one, so what it read is still     *)
(* stored when it writes, and every step of the store is a step of the     *)
(* register.                                                               *)
(***************************************************************************)
ReadStillHolds ==
  \A t \in Thread : call[t].op = "putIfNewer" => Age(db[call[t].key]) < call[t].entry.timestamp

(* With one worker thread the store implements a last-writer-wins register *)
(* for every set of keys, payloads and timestamps.                         *)
THEOREM OneThreadImplementsRegister ==
  ASSUME NEW w, Thread = {w}
  PROVE  Spec => LWWRegisterSpec
<1> USE DEF LWW!AgeOf, Age, LWW!Larger, Later
<1>1. Init => LWW!RegInit /\ ReadStillHolds
  BY DEF Init, LWW!RegInit, ReadStillHolds, Idle
<1>2. TypeOK /\ TypeOK' /\ ReadStillHolds /\ [Next]_vars => ReadStillHolds'
  <2> SUFFICES ASSUME TypeOK, ReadStillHolds, [Next]_vars PROVE ReadStillHolds'
    OBVIOUS
  <2> USE DEF TypeOK
  <2>1. ASSUME NEW k \in Key, NEW e \in StoredEntry,
               PutIfNewerStale(w, k, e) \/ BeginPut(w, k, e)
        PROVE  ReadStillHolds'
    BY <2>1 DEF PutIfNewerStale, BeginPut, ReadStillHolds, Writing, Idle
  <2>2. ASSUME NEW k \in Key, NEW e \in StoredEntry, BeginPutIfNewer(w, k, e)
        PROVE  ReadStillHolds'
    BY <2>2 DEF BeginPutIfNewer, ReadStillHolds, Writing
  <2>3. ASSUME EndPutIfNewer(w) \/ EndPut(w) \/ EndClear(w) \/ FailCall(w)
        PROVE  ReadStillHolds'
    BY <2>3 DEF EndPutIfNewer, EndPut, EndClear, FailCall, ReadStillHolds, Idle
  <2>4. ASSUME BeginClear(w) \/ ClearKey(w) PROVE ReadStillHolds'
    BY <2>4 DEF BeginClear, ClearKey, ReadStillHolds, Clearing
  <2>5. ASSUME NEW wipe \in BOOLEAN, Restart(wipe) PROVE ReadStillHolds'
    BY <2>5 DEF Restart, ReadStillHolds, Idle
  <2>6. CASE UNCHANGED vars
    BY <2>6 DEF vars, ReadStillHolds
  <2> QED
    BY <2>1, <2>2, <2>3, <2>4, <2>5, <2>6 DEF Next
<1>3. TypeOK /\ ReadStillHolds /\ [Next]_vars => [LWW!RegNext]_(LWW!regVars)
  <2> SUFFICES ASSUME TypeOK, ReadStillHolds, [Next]_vars
               PROVE  LWW!RegNext \/ UNCHANGED <<db, floor>>
    BY DEF LWW!regVars
  <2>1. ASSUME NEW k \in Key, NEW e \in StoredEntry, PutIfNewerStale(w, k, e)
        PROVE  LWW!Offer(k, e)
    <3>1. ~(Age(db[k]) < e.timestamp) /\ db = [db EXCEPT ![k] = db[k]]
      <4>1. e.timestamp \in Nat
        BY TimestampAssumption DEF StoredEntry
      <4> QED
        BY <2>1, <4>1, FloorFacts DEF PutIfNewerStale, TypeOK
    <3> QED
      BY <2>1, <3>1 DEF PutIfNewerStale, LWW!Offer, TypeOK
  <2>2. ASSUME EndPutIfNewer(w)
        PROVE  \E k \in Key, e \in StoredEntry : LWW!Offer(k, e)
    <3>1. PICK k \in Key, e \in StoredEntry : k = call[w].key /\ e = call[w].entry
      BY <2>2, CallShape DEF EndPutIfNewer, TypeOK
    <3>2. Age(db[k]) < e.timestamp
      BY <2>2, <3>1 DEF EndPutIfNewer, ReadStillHolds
    <3>3. LWW!Offer(k, e)
      BY <2>2, <3>1, <3>2 DEF EndPutIfNewer, LWW!Offer
    <3> QED
      BY <3>1, <3>3
  <2>3. ASSUME EndPut(w)
        PROVE  \E k \in Key, e \in StoredEntry : LWW!Assign(k, e)
    <3>1. call[w].key \in Key /\ call[w].entry \in StoredEntry
      BY <2>3, CallShape DEF EndPut, TypeOK
    <3> QED
      BY <2>3, <3>1 DEF EndPut, LWW!Assign
  <2>4. ASSUME ClearKey(w)
        PROVE  \E ks \in SUBSET Key : LWW!Erase(ks)
    <3>1. PICK k \in call[w].keys :
            db' = [db EXCEPT ![k] = Absent] /\ floor' = [floor EXCEPT ![k] = -1]
      BY <2>4 DEF ClearKey
    <3>2. k \in Key
      BY <2>4, CallShape DEF ClearKey, TypeOK
    <3>3. LWW!Erase({k})
      BY <3>1, <3>2 DEF LWW!Erase, TypeOK
    <3> QED
      BY <3>2, <3>3
  <2>5. ASSUME Restart(TRUE) PROVE LWW!Erase(Key)
    BY <2>5 DEF Restart, LWW!Erase
  <2>6. ASSUME \/ \E k \in Key, e \in StoredEntry : BeginPutIfNewer(w, k, e) \/ BeginPut(w, k, e)
               \/ BeginClear(w) \/ EndClear(w) \/ FailCall(w) \/ Restart(FALSE) \/ UNCHANGED vars
        PROVE  UNCHANGED <<db, floor>>
    BY <2>6 DEF BeginPutIfNewer, BeginPut, BeginClear, EndClear, FailCall, Restart, vars
  <2> QED
    BY <2>1, <2>2, <2>3, <2>4, <2>5, <2>6 DEF Next, LWW!RegNext
<1>4. Spec => []TypeOK
  BY TypeCorrect
<1> QED
  BY <1>1, <1>2, <1>3, <1>4, PTL DEF Spec, LWWRegisterSpec, LWW!RegSpec
=============================================================================
