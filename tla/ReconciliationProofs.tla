------------------------ MODULE ReconciliationProofs ------------------------
(***************************************************************************)
(* Proofs about Reconciliation: its types, and that a finished scan for    *)
(* the returner's current startup has restored what it set out to push,    *)
(* for any roster, any number of restarts and any loss of pushes, and that *)
(* a sender that has nothing left to do has done so.                       *)
(***************************************************************************)
EXTENDS Reconciliation, SequenceTheorems, TLAPS

Stage == {"idle", "spawned", "viewed", "scanning", "sending"}
Tasks == [stage : Stage, online : SUBSET Peer, todo : [Key -> Times]]
Pushes == [from : Peer, key : Key, time : Times]

LEMMA TimesFacts ==
  /\ -1 \in Times /\ Times \subseteq Int
  /\ \A x, y \in Times : Later(x, y) \in Times /\ Later(x, y) >= x /\ Later(x, y) >= y
  /\ \A x \in Times : x >= -1
  /\ Nothing \in [Key -> Times]
<1>1. Timestamp \subseteq Nat
  BY BoundAssumption
<1> QED
  BY <1>1 DEF Times, Later, Nothing

(* What a scan sets out to push is a version or nothing.                   *)
LEMMA PlanType ==
  ASSUME TypeOK, NEW n \in Peer, NEW online
  PROVE  [k \in Key |-> IF Designated(k, n, online) THEN stored[n][k] ELSE -1] \in [Key -> Times]
<1>1. \A k \in Key : stored[n][k] \in Times
  BY DEF TypeOK, Member
<1> QED
  BY <1>1, TimesFacts

LEMMA StragglersType ==
  ASSUME TypeOK, NEW n \in Peer
  PROVE  Stragglers(n) \subseteq Pushes
<1> DEFINE online == IF task[n].stage = "spawned" THEN view[n] ELSE task[n].online
           rest == IF task[n].stage \in {"spawned", "viewed"}
                   THEN [k \in Key |-> IF Designated(k, n, online) THEN stored[n][k] ELSE -1]
                   ELSE task[n].todo
<1>1. rest \in [Key -> Times]
  BY PlanType DEF TypeOK
<1>2. Stragglers(n) = {Push(n, k, rest[k]) : k \in {j \in Key : rest[j] # -1}}
  BY DEF Stragglers
<1> HIDE DEF rest
<1> QED
  BY <1>1, <1>2 DEF Push, Pushes

(* A write leaves versions in the stores, at its key one no older.         *)
LEMMA WriteType ==
  ASSUME TypeOK, NEW m \in Member, NEW k \in Key, NEW time \in Times,
         stored' = [stored EXCEPT ![m][k] = Later(@, time)]
  PROVE  /\ stored' \in [Member -> [Key -> Times]]
         /\ stored'[m][k] >= time
         /\ \A i \in Member, j \in Key : stored'[i][j] >= stored[i][j]
<1>1. stored \in [Member -> [Key -> Times]]
  BY DEF TypeOK
<1>2. stored[m][k] \in Times
  BY <1>1
<1> DEFINE written == Later(stored[m][k], time)
<1>3. written \in Times /\ written >= stored[m][k] /\ written >= time
  BY <1>2, TimesFacts
<1>4. stored' = [stored EXCEPT ![m][k] = written]
  OBVIOUS
<1> HIDE DEF written
<1>5. /\ stored' \in [Member -> [Key -> Times]]
      /\ stored'[m][k] = written
      /\ \A i \in Member, j \in Key : i # m \/ j # k => stored'[i][j] = stored[i][j]
  BY <1>1, <1>3, <1>4
<1>6. \A i \in Member, j \in Key : stored[i][j] >= stored[i][j]
  <2>1. \A i \in Member, j \in Key : stored[i][j] \in Int
    BY <1>1, TimesFacts
  <2> QED
    BY <2>1
<1> QED
  BY <1>3, <1>5, <1>6

-----------------------------------------------------------------------------
(* Type correctness of the reconciliation.                                 *)
THEOREM TypeCorrect == Spec => []TypeOK
<1> USE DEF gossipVars, Tasks, Stage, Pushes
<1>1. Init => TypeOK
  <2> SUFFICES ASSUME Init PROVE TypeOK
    OBVIOUS
  <2>1. task \in [Peer -> Tasks]
    BY TimesFacts DEF Init, Task
  <2>2. queue \in [Peer -> Seq(0 .. MaxRestarts)] /\ uuid \in 0 .. MaxRestarts
    BY BoundAssumption DEF Init
  <2>3. told \in [Peer -> -1 .. MaxRestarts] /\ known \in [Peer -> -1 .. MaxRestarts]
    BY BoundAssumption DEF Init
  <2> QED
    BY <2>1, <2>2, <2>3, TimesFacts DEF Init, TypeOK
<1>2. TypeOK /\ [Next]_vars => TypeOK'
  <2> SUFFICES ASSUME TypeOK, [Next]_vars PROVE TypeOK'
    OBVIOUS
  <2>1. CASE Listen \/ Unreachable
    BY <2>1 DEF Listen, Unreachable, TypeOK
  <2>2. ASSUME NEW wipe \in BOOLEAN, Restart(wipe) PROVE TypeOK'
    <3>1. stored' \in [Member -> [Key -> Times]]
      BY <2>2, TimesFacts DEF Restart, TypeOK
    <3>2. uuid' \in 0 .. MaxRestarts
      BY <2>2, BoundAssumption DEF Restart, TypeOK
    <3> QED
      BY <2>2, <3>1, <3>2 DEF Restart, TypeOK
  <2>3. ASSUME NEW m \in Member, NEW k \in Key, NEW time \in Timestamp, Write(m, k, time)
        PROVE  TypeOK'
    <3>1. time \in Times
      BY DEF Times
    <3>2. stored' \in [Member -> [Key -> Times]]
      BY <2>3, <3>1, WriteType DEF Write
    <3> QED
      BY <2>3, <3>2 DEF Write, TypeOK
  <2>4. ASSUME NEW n \in Peer, Gossip(n) PROVE TypeOK'
    <3>1. Append(queue[n], uuid) \in Seq(0 .. MaxRestarts)
      BY DEF TypeOK
    <3>2. queue' \in [Peer -> Seq(0 .. MaxRestarts)]
      BY <2>4, <3>1 DEF Gossip, TypeOK
    <3>3. told' \in [Peer -> -1 .. MaxRestarts]
      BY <2>4, BoundAssumption DEF Gossip, TypeOK
    <3> QED
      BY <2>4, <3>2, <3>3 DEF Gossip, TypeOK
  <2>5. ASSUME NEW n \in Peer, PeerFails(n) PROVE TypeOK'
    <3>1. task' \in [Peer -> Tasks]
      BY <2>5, TimesFacts DEF PeerFails, TypeOK, Task
    <3>2. known' \in [Peer -> -1 .. MaxRestarts] /\ told' \in [Peer -> -1 .. MaxRestarts]
      BY <2>5, BoundAssumption DEF PeerFails, TypeOK
    <3>3. queue' \in [Peer -> Seq(0 .. MaxRestarts)]
      BY <2>5 DEF PeerFails, TypeOK
    <3> QED
      BY <2>5, <3>1, <3>2, <3>3 DEF PeerFails, TypeOK
  <2>6. ASSUME NEW n \in Peer, PeerReturns(n) PROVE TypeOK'
    BY <2>6 DEF PeerReturns, TypeOK
  <2>7. ASSUME NEW n \in Peer, NEW m \in Peer, Notice(n, m) PROVE TypeOK'
    BY <2>7 DEF Notice, TypeOK
  <2>8. ASSUME NEW n \in Peer, HandleEvent(n) PROVE TypeOK'
    <3>1. Head(queue[n]) \in 0 .. MaxRestarts /\ Tail(queue[n]) \in Seq(0 .. MaxRestarts)
      <4>1. queue[n] \in Seq(0 .. MaxRestarts) /\ queue[n] # <<>>
        BY <2>8 DEF HandleEvent, TypeOK
      <4> QED
        BY <4>1, HeadTailProperties
    <3>2. /\ queue' \in [Peer -> Seq(0 .. MaxRestarts)]
          /\ known' \in [Peer -> -1 .. MaxRestarts]
      BY <2>8, <3>1, BoundAssumption DEF HandleEvent, TypeOK
    <3>3. task' \in [Peer -> Tasks]
      <4>1. Task("spawned", {}, Nothing) \in Tasks
        BY TimesFacts DEF Task
      <4>2. task' = task \/ task' = [task EXCEPT ![n] = Task("spawned", {}, Nothing)]
        BY <2>8 DEF HandleEvent
      <4> QED
        BY <4>1, <4>2 DEF TypeOK
    <3>4. flight' \subseteq Pushes
      BY <2>8, StragglersType DEF HandleEvent, TypeOK
    <3> QED
      BY <2>8, <3>2, <3>3, <3>4 DEF HandleEvent, TypeOK
  <2>9. ASSUME NEW n \in Peer, SnapshotView(n) PROVE TypeOK'
    <3>1. task' \in [Peer -> Tasks]
      BY <2>9, TimesFacts DEF SnapshotView, TypeOK, Task
    <3> QED
      BY <2>9, <3>1 DEF SnapshotView, TypeOK
  <2>10. ASSUME NEW n \in Peer, OpenScan(n) PROVE TypeOK'
    <3>1. Assigned(n) \in [Key -> Times]
      BY PlanType DEF Assigned
    <3>2. task' \in [Peer -> Tasks]
      BY <2>10, <3>1 DEF OpenScan, TypeOK, Task
    <3> QED
      BY <2>10, <3>1, <3>2 DEF OpenScan, TypeOK
  <2>17. ASSUME NEW n \in Peer, ScanFails(n) PROVE TypeOK'
    <3>1. Assigned(n) \in [Key -> Times]
      BY PlanType DEF Assigned
    <3>2. task' \in [Peer -> Tasks]
      BY <2>17, TimesFacts DEF ScanFails, TypeOK, Task
    <3> QED
      BY <2>17, <3>1, <3>2 DEF ScanFails, TypeOK
  <2>11. ASSUME NEW n \in Peer, NEW k \in Key, SendKey(n, k) PROVE TypeOK'
    <3>1. task' = [task EXCEPT ![n] = [task[n] EXCEPT !.stage = "sending",
                                         !.todo = [task[n].todo EXCEPT ![k] = -1]]]
      BY <2>11 DEF SendKey, TypeOK
    <3>2. task' \in [Peer -> Tasks]
      <4>1. task[n] \in Tasks /\ task \in [Peer -> Tasks]
        BY DEF TypeOK
      <4>2. [task[n].todo EXCEPT ![k] = -1] \in [Key -> Times]
        BY <4>1, TimesFacts
      <4>3. [task[n] EXCEPT !.stage = "sending",
                            !.todo = [task[n].todo EXCEPT ![k] = -1]] \in Tasks
        BY <4>1, <4>2
      <4> QED
        BY <3>1, <4>1, <4>3
    <3>3. flight' \subseteq Pushes
      BY <2>11 DEF SendKey, TypeOK, Push
    <3> QED
      BY <2>11, <3>2, <3>3 DEF SendKey, TypeOK
  <2>12. ASSUME NEW n \in Peer, EndPush(n) PROVE TypeOK'
    <3>1. task[n] \in Tasks /\ task \in [Peer -> Tasks]
      BY DEF TypeOK
    <3>2. [task[n] EXCEPT !.stage = "scanning"] \in Tasks
      BY <3>1
    <3>3. task' = [task EXCEPT ![n] = [task[n] EXCEPT !.stage = "scanning"]]
      BY <2>12, <3>1 DEF EndPush
    <3>4. task' \in [Peer -> Tasks]
      BY <3>1, <3>2, <3>3
    <3> QED
      BY <2>12, <3>4 DEF EndPush, TypeOK
  <2>13. ASSUME NEW n \in Peer, EndScan(n) PROVE TypeOK'
    <3>1. task' \in [Peer -> Tasks]
      BY <2>13, TimesFacts DEF EndScan, TypeOK, Task
    <3> QED
      BY <2>13, <3>1 DEF EndScan, TypeOK
  <2>14. ASSUME NEW f \in flight, Execute(f) PROVE TypeOK'
    <3>1. f.key \in Key /\ f.time \in Times /\ Returner \in Member
      BY DEF TypeOK, Member
    <3>2. stored' \in [Member -> [Key -> Times]]
      BY <2>14, <3>1, WriteType DEF Execute
    <3> QED
      BY <2>14, <3>2 DEF Execute, TypeOK
  <2>15. ASSUME NEW f \in flight, Lose(f) PROVE TypeOK'
    BY <2>15 DEF Lose, TypeOK
  <2>16. CASE UNCHANGED vars
    BY <2>16 DEF vars, TypeOK
  <2> QED
    BY <2>1, <2>2, <2>3, <2>4, <2>5, <2>6, <2>7, <2>8, <2>9, <2>10, <2>11, <2>12, <2>13,
       <2>14, <2>15, <2>16, <2>17 DEF Next
<1> QED
  BY <1>1, <1>2, PTL DEF Spec

-----------------------------------------------------------------------------
(* No event and no UUID that a peer knows is of a startup still to come.   *)
Past == \A n \in Peer : /\ known[n] <= uuid
                        /\ \A i \in 1 .. Len(queue[n]) : queue[n][i] <= uuid

LEMMA PastSteps ==
  ASSUME TypeOK, Past, [Next]_vars
  PROVE  Past'
<1>1. /\ uuid \in Nat /\ known \in [Peer -> -1 .. MaxRestarts]
      /\ queue \in [Peer -> Seq(0 .. MaxRestarts)]
      /\ MaxRestarts \in Nat
  BY BoundAssumption DEF TypeOK
<1>2. \A n \in Peer : /\ known[n] \in Int /\ queue[n] \in Seq(0 .. MaxRestarts)
                      /\ \A i \in 1 .. Len(queue[n]) : queue[n][i] \in Int
  <2> SUFFICES ASSUME NEW n \in Peer
               PROVE  /\ known[n] \in Int /\ queue[n] \in Seq(0 .. MaxRestarts)
                      /\ \A i \in 1 .. Len(queue[n]) : queue[n][i] \in Int
    OBVIOUS
  <2>1. known[n] \in -1 .. MaxRestarts /\ queue[n] \in Seq(0 .. MaxRestarts)
    BY <1>1
  <2>2. \A i \in 1 .. Len(queue[n]) : queue[n][i] \in 0 .. MaxRestarts
    BY <2>1, ElementOfSeq
  <2> QED
    BY <1>1, <2>1, <2>2
<1>3. ASSUME NEW wipe \in BOOLEAN, Restart(wipe) PROVE Past'
  <2>1. uuid' = uuid + 1 /\ known' = known /\ queue' = queue
    BY <1>3 DEF Restart
  <2> QED
    BY <1>1, <1>2, <2>1 DEF Past
<1>4. ASSUME NEW n \in Peer, Gossip(n) PROVE Past'
  <2>1. uuid' = uuid /\ known' = known /\ queue' = [queue EXCEPT ![n] = Append(@, uuid)]
    BY <1>4 DEF Gossip
  <2>2. ASSUME NEW m \in Peer, NEW i \in 1 .. Len(queue'[m]) PROVE queue'[m][i] <= uuid
    <3>1. CASE m # n
      BY <1>1, <2>1, <2>2, <3>1 DEF Past
    <3>2. CASE m = n
      <4>1. queue'[m] = Append(queue[n], uuid) /\ queue[n] \in Seq(0 .. MaxRestarts)
        BY <1>1, <2>1, <3>2
      <4>2. /\ i \in 1 .. Len(queue[n]) + 1
            /\ queue'[m][i] = IF i <= Len(queue[n]) THEN queue[n][i] ELSE uuid
        BY <2>2, <4>1
      <4>3. Len(queue[n]) \in Nat
        BY <4>1
      <4> QED
        BY <1>1, <4>2, <4>3 DEF Past
    <3> QED
      BY <3>1, <3>2
  <2> QED
    BY <2>1, <2>2 DEF Past
<1>5. ASSUME NEW n \in Peer, PeerFails(n) PROVE Past'
  <2>1. /\ uuid' = uuid /\ known' = [known EXCEPT ![n] = -1]
        /\ queue' = [queue EXCEPT ![n] = <<>>]
    BY <1>5 DEF PeerFails, gossipVars
  <2>2. ASSUME NEW m \in Peer
        PROVE  /\ known'[m] <= uuid
               /\ \A i \in 1 .. Len(queue'[m]) : queue'[m][i] <= uuid
    <3>1. CASE m # n
      BY <1>1, <2>1, <3>1 DEF Past
    <3>2. CASE m = n
      BY <1>1, <2>1, <3>2
    <3> QED
      BY <3>1, <3>2
  <2> QED
    BY <2>1, <2>2 DEF Past
<1>6. ASSUME NEW n \in Peer, HandleEvent(n) PROVE Past'
  <2>1. /\ uuid' = uuid /\ queue[n] # <<>>
        /\ queue' = [queue EXCEPT ![n] = Tail(@)]
        /\ known' = [known EXCEPT ![n] = Head(queue[n])]
    BY <1>6 DEF HandleEvent, gossipVars
  <2>2. /\ Len(Tail(queue[n])) = Len(queue[n]) - 1
        /\ \A i \in 1 .. Len(Tail(queue[n])) : Tail(queue[n])[i] = queue[n][i + 1]
    BY <1>2, <2>1, HeadTailProperties
  <2>3. Len(queue[n]) \in Nat /\ Len(queue[n]) # 0 /\ Head(queue[n]) = queue[n][1]
    BY <1>2, <2>1
  <2>4. ASSUME NEW m \in Peer
        PROVE  /\ known'[m] <= uuid
               /\ \A i \in 1 .. Len(queue'[m]) : queue'[m][i] <= uuid
    <3>1. CASE m # n
      BY <1>1, <2>1, <3>1 DEF Past
    <3>2. CASE m = n
      <4>1. queue'[m] = Tail(queue[n]) /\ known'[m] = queue[n][1]
        BY <1>1, <2>1, <2>3, <3>2
      <4> QED
        BY <2>2, <2>3, <4>1 DEF Past
    <3> QED
      BY <3>1, <3>2
  <2> QED
    BY <2>1, <2>4 DEF Past
<1>7. UNCHANGED <<uuid, known, queue>> => Past'
  BY DEF Past
<1> QED
  BY <1>3, <1>4, <1>5, <1>6, <1>7
  DEF Next, vars, gossipVars, Listen, Unreachable, Write, PeerReturns, Notice, SnapshotView,
      OpenScan, ScanFails, SendKey, EndPush, EndScan, Execute, Lose

-----------------------------------------------------------------------------
(* What a scan for the current startup has done with key k so far: the      *)
(* returner has the version, a push of this peer carries it, or it is still *)
(* to be pushed.                                                            *)
Scanned(n) == known[n] = uuid /\ task[n].stage \in {"idle", "scanning", "sending"}
Carried(n, k, f) == f.from = n /\ f.key = k /\ f.time >= plan[n][k]
Restored(n, k) ==
  \/ stored[Returner][k] >= plan[n][k]
  \/ \E f \in flight : Carried(n, k, f)
  \/ task[n].stage # "idle" /\ task[n].todo[k] = plan[n][k]
Progress == \A n \in Peer, k \in Key : Scanned(n) /\ k \notin missed[n] => Restored(n, k)

(* A step that leaves the scan of n alone leaves what it has done: a push   *)
(* of it goes away only when the returner has taken or missed it.           *)
LEMMA OthersKeep ==
  ASSUME TypeOK, TypeOK', Progress, NEW n \in Peer, NEW k \in Key,
         known'[n] = known[n], uuid' = uuid, task'[n] = task[n], plan' = plan,
         k \in missed[n] => k \in missed'[n],
         stored'[Returner][k] >= stored[Returner][k],
         \A f \in flight : f.from = n /\ f.key = k =>
           f \in flight' \/ k \in missed'[n] \/ stored'[Returner][k] >= f.time,
         Scanned(n)', k \notin missed'[n]
  PROVE  Restored(n, k)'
<1>1. Scanned(n) /\ k \notin missed[n]
  BY DEF Scanned
<1>2. Restored(n, k)
  BY <1>1 DEF Progress
<1>3. /\ plan[n][k] \in Int /\ stored[Returner][k] \in Int /\ stored'[Returner][k] \in Int
      /\ \A f \in flight : f.time \in Int
  <2>1. Returner \in Member
    BY DEF Member
  <2>2. plan \in [Peer -> [Key -> Times]] /\ stored \in [Member -> [Key -> Times]]
    BY DEF TypeOK
  <2>3. stored' \in [Member -> [Key -> Times]]
    BY DEF TypeOK
  <2>4. \A f \in flight : f.time \in Times
    BY DEF TypeOK
  <2>5. plan[n][k] \in Times /\ stored[Returner][k] \in Times /\ stored'[Returner][k] \in Times
    BY <2>1, <2>2, <2>3
  <2> QED
    BY <2>4, <2>5, TimesFacts
<1>4. CASE stored[Returner][k] >= plan[n][k]
  BY <1>3, <1>4 DEF Restored
<1>5. CASE \E f \in flight : Carried(n, k, f)
  <2>1. PICK f \in flight : Carried(n, k, f)
    BY <1>5
  <2>2. f \in flight' \/ stored'[Returner][k] >= plan[n][k]
    BY <1>3, <2>1 DEF Carried
  <2>3. Carried(n, k, f)'
    BY <2>1 DEF Carried
  <2> QED
    BY <2>2, <2>3 DEF Restored
<1>6. CASE task[n].stage # "idle" /\ task[n].todo[k] = plan[n][k]
  BY <1>6 DEF Restored
<1> QED
  BY <1>2, <1>4, <1>5, <1>6 DEF Restored

LEMMA ProgressSteps ==
  ASSUME TypeOK, TypeOK', Past, Progress, [Next]_vars
  PROVE  Progress'
<1> SUFFICES ASSUME NEW n \in Peer, NEW k \in Key, Scanned(n)', k \notin missed'[n]
             PROVE  Restored(n, k)'
  BY DEF Progress
<1>1. /\ stored \in [Member -> [Key -> Times]] /\ plan \in [Peer -> [Key -> Times]]
      /\ task \in [Peer -> Tasks] /\ flight \subseteq Pushes
      /\ missed \in [Peer -> SUBSET Key] /\ known \in [Peer -> -1 .. MaxRestarts]
      /\ Returner \in Member
  BY DEF TypeOK, Tasks, Stage, Pushes, Member
<1>2. /\ stored[Returner][k] \in Int /\ stored[Returner][k] >= stored[Returner][k]
      /\ stored[Returner][k] >= -1
      /\ plan[n][k] \in Int /\ plan[n][k] >= plan[n][k]
  <2>1. stored[Returner][k] \in Times /\ plan[n][k] \in Times
    BY <1>1
  <2>2. stored[Returner][k] \in Int /\ plan[n][k] \in Int /\ stored[Returner][k] >= -1
    BY <2>1, TimesFacts
  <2> QED
    BY <2>2
<1>3. ASSUME Listen \/ Unreachable PROVE Restored(n, k)'
  BY <1>2, <1>3, OthersKeep DEF Listen, Unreachable
<1>4. ASSUME NEW wipe \in BOOLEAN, Restart(wipe) PROVE Restored(n, k)'
  <2>1. known'[n] = known[n] /\ uuid' = uuid + 1 /\ known[n] <= uuid
    BY <1>4 DEF Restart, Past
  <2>2. uuid \in Nat /\ known[n] \in Int
    BY <1>1, BoundAssumption DEF TypeOK
  <2>3. known'[n] = uuid'
    BY DEF Scanned
  <2>4. known[n] = uuid + 1
    BY <2>1, <2>3
  <2> QED
    BY <2>1, <2>2, <2>4
<1>5. ASSUME NEW m \in Member, NEW j \in Key, NEW time \in Timestamp, Write(m, j, time)
      PROVE  Restored(n, k)'
  <2>1. time \in Times
    BY DEF Times
  <2>2. stored'[Returner][k] >= stored[Returner][k]
    BY <1>1, <1>5, <2>1, WriteType DEF Write
  <2> QED
    BY <1>5, <2>2, OthersKeep DEF Write, gossipVars
<1>6. ASSUME NEW m \in Peer, Gossip(m) \/ PeerReturns(m) PROVE Restored(n, k)'
  BY <1>2, <1>6, OthersKeep DEF Gossip, PeerReturns
<1>7. ASSUME NEW m \in Peer, NEW i \in Peer, Notice(m, i) PROVE Restored(n, k)'
  BY <1>2, <1>7, OthersKeep DEF Notice
<1>8. ASSUME NEW m \in Peer, PeerFails(m) PROVE Restored(n, k)'
  <2>1. CASE m = n
    <3>1. known'[n] = -1 /\ uuid' = uuid
      BY <1>1, <1>8, <2>1 DEF PeerFails
    <3> QED
      BY <3>1, BoundAssumption DEF Scanned, TypeOK
  <2>2. CASE m # n
    <3>1. known'[n] = known[n] /\ task'[n] = task[n]
      BY <1>1, <1>8, <2>2 DEF PeerFails
    <3> QED
      BY <1>2, <1>8, <3>1, OthersKeep DEF PeerFails
  <2> QED
    BY <2>1, <2>2
<1>9. ASSUME NEW m \in Peer, HandleEvent(m) PROVE Restored(n, k)'
  <2>1. /\ known' = [known EXCEPT ![m] = Head(queue[m])] /\ uuid' = uuid
        /\ flight \subseteq flight' /\ stored' = stored /\ plan' = plan /\ missed' = missed
    BY <1>9 DEF HandleEvent, gossipVars
  <2>2. \/ known[m] = Head(queue[m]) /\ task' = task
        \/ task' = [task EXCEPT ![m] = Task("spawned", {}, Nothing)]
    BY <1>9 DEF HandleEvent
  <2>3. CASE m = n /\ task'[n].stage = "spawned"
    BY <2>3 DEF Scanned
  <2>4. CASE known'[n] = known[n] /\ task'[n] = task[n]
    BY <1>2, <2>1, <2>4, OthersKeep
  <2>5. (m = n /\ task'[n].stage = "spawned") \/ (known'[n] = known[n] /\ task'[n] = task[n])
    BY <1>1, <2>1, <2>2 DEF Task
  <2> QED
    BY <2>3, <2>4, <2>5
<1>10. ASSUME NEW m \in Peer, SnapshotView(m) PROVE Restored(n, k)'
  <2>1. CASE m = n
    <3>1. task'[n].stage = "viewed"
      BY <1>1, <1>10, <2>1 DEF SnapshotView, Task
    <3> QED
      BY <3>1 DEF Scanned
  <2>2. CASE m # n
    <3>1. task'[n] = task[n]
      BY <1>1, <1>10, <2>2 DEF SnapshotView
    <3> QED
      BY <1>2, <1>10, <3>1, OthersKeep DEF SnapshotView, gossipVars
  <2> QED
    BY <2>1, <2>2
<1>11. ASSUME NEW m \in Peer, OpenScan(m) PROVE Restored(n, k)'
  <2>1. CASE m = n
    <3>1. task'[n] = Task("scanning", task[n].online, Assigned(n)) /\ plan'[n] = Assigned(n)
      BY <1>1, <1>11, <2>1 DEF OpenScan
    <3>2. task'[n].stage = "scanning" /\ task'[n].todo = plan'[n]
      BY <3>1 DEF Task
    <3> QED
      BY <3>2 DEF Restored
  <2>2. CASE m # n
    <3>1. /\ task'[n] = task[n] /\ plan'[n] = plan[n] /\ missed'[n] = missed[n]
          /\ UNCHANGED <<stored, flight, known, uuid>>
      BY <1>1, <1>11, <2>2 DEF OpenScan, gossipVars
    <3>2. Restored(n, k)
      BY <3>1 DEF Scanned, Progress
    <3> QED
      BY <3>1, <3>2 DEF Restored, Carried
  <2> QED
    BY <2>1, <2>2
<1>18. ASSUME NEW m \in Peer, ScanFails(m) PROVE Restored(n, k)'
  <2>1. m # n
    BY <1>1, <1>18 DEF ScanFails
  <2>2. /\ task'[n] = task[n] /\ plan'[n] = plan[n] /\ missed'[n] = missed[n]
        /\ UNCHANGED <<stored, flight, known, uuid>>
    BY <1>1, <1>18, <2>1 DEF ScanFails, gossipVars
  <2>3. Restored(n, k)
    BY <2>2 DEF Scanned, Progress
  <2> QED
    BY <2>2, <2>3 DEF Restored, Carried
<1>12. ASSUME NEW m \in Peer, NEW j \in Key, SendKey(m, j) PROVE Restored(n, k)'
  <2>1. /\ flight' = flight \cup {Push(m, j, task[m].todo[j])}
        /\ UNCHANGED <<stored, known, uuid, plan, missed>>
        /\ task[m].stage = "scanning"
    BY <1>12 DEF SendKey, gossipVars
  <2>2. CASE m # n
    <3>1. task'[n] = task[n]
      BY <1>1, <1>12, <2>2 DEF SendKey
    <3> QED
      BY <1>2, <2>1, <3>1, OthersKeep
  <2>3. CASE m = n
    <3>1. /\ task'[n].stage = "sending"
          /\ task'[n].todo = [task[n].todo EXCEPT ![j] = -1]
      BY <1>1, <1>12, <2>3 DEF SendKey, Tasks
    <3>2. Restored(n, k)
      BY <2>1, <2>3 DEF Scanned, Progress
    <3>3. CASE task[n].todo[k] = plan[n][k] /\ j = k
      <4>1. PICK f \in flight' : f = Push(n, k, plan[n][k])
        BY <2>1, <2>3, <3>3
      <4>2. Carried(n, k, f)'
        BY <1>2, <2>1, <4>1 DEF Carried, Push
      <4> QED
        BY <4>1, <4>2 DEF Restored
    <3>4. CASE task[n].todo[k] = plan[n][k] /\ j # k
      <4>1. task'[n].todo[k] = task[n].todo[k]
        BY <1>1, <3>1, <3>4 DEF Tasks
      <4> QED
        BY <2>1, <3>1, <3>4, <4>1 DEF Restored
    <3>5. CASE task[n].todo[k] # plan[n][k]
      BY <2>1, <3>2, <3>5 DEF Restored, Carried
    <3> QED
      BY <3>3, <3>4, <3>5
  <2> QED
    BY <2>2, <2>3
<1>13. ASSUME NEW m \in Peer, EndPush(m) PROVE Restored(n, k)'
  <2>1. UNCHANGED <<stored, known, uuid, plan, missed, flight>>
    BY <1>13 DEF EndPush, gossipVars
  <2>2. CASE m # n
    <3>1. task'[n] = task[n]
      BY <1>1, <1>13, <2>2 DEF EndPush
    <3> QED
      BY <1>2, <2>1, <3>1, OthersKeep
  <2>3. CASE m = n
    <3>1. task'[n].stage = "scanning" /\ task'[n].todo = task[n].todo /\ task[n].stage = "sending"
      BY <1>1, <1>13, <2>3 DEF EndPush, Tasks
    <3>2. Restored(n, k)
      BY <2>1, <3>1 DEF Scanned, Progress
    <3> QED
      BY <2>1, <3>1, <3>2 DEF Restored, Carried
  <2> QED
    BY <2>2, <2>3
<1>14. ASSUME NEW m \in Peer, EndScan(m) PROVE Restored(n, k)'
  <2>1. UNCHANGED <<stored, known, uuid, plan, missed, flight>>
    BY <1>14 DEF EndScan, gossipVars
  <2>2. CASE m # n
    <3>1. task'[n] = task[n]
      BY <1>1, <1>14, <2>2 DEF EndScan
    <3> QED
      BY <1>2, <2>1, <3>1, OthersKeep
  <2>3. CASE m = n
    <3>1. task[n].stage = "scanning" /\ task[n].todo[k] = -1
      BY <1>14, <2>3 DEF EndScan, Nothing
    <3>2. Restored(n, k)
      BY <2>1, <3>1 DEF Scanned, Progress
    <3> QED
      BY <1>2, <2>1, <3>1, <3>2 DEF Restored, Carried
  <2> QED
    BY <2>2, <2>3
<1>15. ASSUME NEW f \in flight, Execute(f) PROVE Restored(n, k)'
  <2>1. f.key \in Key /\ f.time \in Times
    BY <1>1 DEF Pushes
  <2>2. /\ stored'[Returner][k] >= stored[Returner][k]
        /\ f.key = k => stored'[Returner][k] >= f.time
    BY <1>1, <1>15, <2>1, WriteType DEF Execute
  <2>3. \A g \in flight : g.from = n /\ g.key = k =>
          g \in flight' \/ k \in missed'[n] \/ stored'[Returner][k] >= g.time
    BY <1>15, <2>2 DEF Execute
  <2> QED
    BY <1>15, <2>2, <2>3, OthersKeep DEF Execute, gossipVars
<1>16. ASSUME NEW f \in flight, Lose(f) PROVE Restored(n, k)'
  <2>1. /\ missed' = [missed EXCEPT ![f.from] = @ \cup {f.key}] /\ flight' = flight \ {f}
        /\ UNCHANGED <<stored, known, uuid, plan, task>>
    BY <1>16 DEF Lose, gossipVars
  <2>2. f.from \in Peer
    BY <1>1 DEF Pushes
  <2>3. k \in missed[n] => k \in missed'[n]
    BY <1>1, <2>1, <2>2
  <2>4. \A g \in flight : g.from = n /\ g.key = k => g \in flight' \/ k \in missed'[n]
    BY <1>1, <2>1
  <2> QED
    BY <1>2, <2>1, <2>3, <2>4, OthersKeep
<1>17. ASSUME UNCHANGED vars PROVE Restored(n, k)'
  BY <1>2, <1>17, OthersKeep DEF vars, gossipVars
<1> QED
  BY <1>3, <1>4, <1>5, <1>6, <1>7, <1>8, <1>9, <1>10, <1>11, <1>12, <1>13, <1>14, <1>15,
     <1>16, <1>17, <1>18 DEF Next

(* Once a peer has scanned for the returner's current startup, the          *)
(* returner has or will get what the scan set out to push, except what it   *)
(* missed: for any roster, any restarts and any loss of pushes.             *)
THEOREM ScansRestore == Spec => []ScanRestores
<1>1. Init => Past /\ Progress
  BY DEF Init, Past, Progress, Scanned
<1>2. TypeOK /\ TypeOK' /\ Past /\ Progress /\ [Next]_vars => Past' /\ Progress'
  BY PastSteps, ProgressSteps
<1>3. Progress => ScanRestores
  BY DEF Progress, ScanRestores, Scanned, Restored, Carried
<1> QED
  BY <1>1, <1>2, <1>3, TypeCorrect, PTL DEF Spec

-----------------------------------------------------------------------------
(* Taking the head of a sequence leaves its last element the last, unless  *)
(* it is that element that is taken.                                       *)
LEMMA LastOfTail ==
  ASSUME NEW S, NEW s \in Seq(S), s # <<>>
  PROVE  IF Tail(s) = <<>> THEN Head(s) = s[Len(s)] ELSE Tail(s)[Len(Tail(s))] = s[Len(s)]
<1> DEFINE t == Tail(s)
<1>1. t \in Seq(S) /\ Len(t) = Len(s) - 1 /\ \A i \in 1 .. Len(t) : t[i] = s[i + 1]
  BY HeadTailProperties
<1>2. Head(s) = s[1]
  OBVIOUS
<1> HIDE DEF t
<1>3. Len(t) \in Nat /\ Len(s) = Len(t) + 1
  BY <1>1
<1>4. CASE t = <<>>
  <2>1. Len(t) = 0
    BY <1>4
  <2>2. Len(s) = 1
    BY <1>3, <2>1
  <2>3. Head(s) = s[Len(s)]
    BY <1>2, <2>2
  <2> QED
    BY <1>4, <2>3, Zenon DEF t
<1>5. CASE t # <<>>
  <2>1. Len(t) # 0
    BY <1>1, <1>5, EmptySeq
  <2>2. Len(t) \in 1 .. Len(t)
    BY <1>3, <2>1
  <2>3. t[Len(t)] = s[Len(s)]
    BY <1>1, <1>3, <2>2
  <2> QED
    BY <1>5, <2>3 DEF t
<1> QED
  BY <1>4, <1>5

(* The last startup a peer was told of is the last in its queue, or the    *)
(* one it knows.                                                           *)
LastHeard(n) == IF queue[n] = <<>> THEN known[n] ELSE queue[n][Len(queue[n])]

Heard == \A n \in Peer : told[n] # -1 => LastHeard(n) = told[n]

LEMMA HeardSteps ==
  ASSUME TypeOK, Heard, [Next]_vars
  PROVE  Heard'
<1>1. /\ uuid \in 0 .. MaxRestarts
      /\ known \in [Peer -> -1 .. MaxRestarts] /\ told \in [Peer -> -1 .. MaxRestarts]
      /\ queue \in [Peer -> Seq(0 .. MaxRestarts)]
  BY DEF TypeOK
<1>2. ASSUME NEW n \in Peer, Gossip(n) PROVE Heard'
  <2>1. /\ known' = known /\ told' = [told EXCEPT ![n] = uuid]
        /\ queue' = [queue EXCEPT ![n] = Append(@, uuid)]
    BY <1>2 DEF Gossip
  <2>2. queue[n] \in Seq(0 .. MaxRestarts)
    BY <1>1
  <2>3. /\ Append(queue[n], uuid) # <<>>
        /\ Append(queue[n], uuid)[Len(Append(queue[n], uuid))] = uuid
    <3>1. Append(queue[n], uuid) \in Seq(0 .. MaxRestarts)
      BY <1>1, <2>2
    <3>2. Len(Append(queue[n], uuid)) = Len(queue[n]) + 1 /\ Len(queue[n]) \in Nat
      BY <1>1, <2>2
    <3>3. Append(queue[n], uuid)[Len(queue[n]) + 1] = uuid
      BY <1>1, <2>2
    <3> QED
      BY <3>1, <3>2, <3>3, EmptySeq
  <2>4. queue'[n] = Append(queue[n], uuid) /\ told'[n] = uuid
    BY <1>1, <2>1
  <2>5. LastHeard(n)' = told'[n]
    BY <2>3, <2>4 DEF LastHeard
  <2>6. \A m \in Peer : m # n => LastHeard(m)' = LastHeard(m) /\ told'[m] = told[m]
    BY <1>1, <2>1 DEF LastHeard
  <2> QED
    BY <2>5, <2>6 DEF Heard
<1>3. ASSUME NEW n \in Peer, PeerFails(n) PROVE Heard'
  <2>1. /\ told' = [told EXCEPT ![n] = -1] /\ queue' = [queue EXCEPT ![n] = <<>>]
        /\ known' = [known EXCEPT ![n] = -1]
    BY <1>3 DEF PeerFails
  <2>2. \A m \in Peer : m # n => LastHeard(m)' = LastHeard(m) /\ told'[m] = told[m]
    BY <1>1, <2>1 DEF LastHeard
  <2>3. told'[n] = -1
    BY <1>1, <2>1
  <2> QED
    BY <2>2, <2>3 DEF Heard
<1>4. ASSUME NEW n \in Peer, HandleEvent(n) PROVE Heard'
  <2>1. /\ queue[n] # <<>> /\ told' = told
        /\ queue' = [queue EXCEPT ![n] = Tail(@)]
        /\ known' = [known EXCEPT ![n] = Head(queue[n])]
    BY <1>4 DEF HandleEvent, gossipVars
  <2>2. queue[n] \in Seq(0 .. MaxRestarts)
    BY <1>1
  <2>3. queue'[n] = Tail(queue[n]) /\ known'[n] = Head(queue[n])
    BY <1>1, <2>1
  <2>4. LastHeard(n)' = LastHeard(n)
    <3>1. IF Tail(queue[n]) = <<>> THEN Head(queue[n]) = queue[n][Len(queue[n])]
          ELSE Tail(queue[n])[Len(Tail(queue[n]))] = queue[n][Len(queue[n])]
      BY <2>1, <2>2, LastOfTail
    <3> QED
      BY <2>1, <2>3, <3>1 DEF LastHeard
  <2>5. \A m \in Peer : m # n => LastHeard(m)' = LastHeard(m)
    BY <1>1, <2>1 DEF LastHeard
  <2> QED
    BY <2>1, <2>4, <2>5 DEF Heard
<1>5. UNCHANGED <<told, known, queue>> => Heard'
  BY DEF Heard, LastHeard
<1> QED
  BY <1>2, <1>3, <1>4, <1>5
  DEF Next, vars, gossipVars, Restart, Listen, Unreachable, Write, PeerReturns, Notice,
      SnapshotView, OpenScan, ScanFails, SendKey, EndPush, EndScan, Execute, Lose

(* Where peers are stable and nobody else writes, every scan counts with   *)
(* all peers, and one for the current startup set out to push all that its *)
(* peer is the designated sender of.                                       *)
Stable ==
  /\ down = {} /\ \A n \in Peer : view[n] = Peer
  /\ \A n \in Peer : task[n].stage = "viewed" => task[n].online = Peer
  /\ \A n \in Peer, k \in Key :
       Scanned(n) /\ Designated(k, n, Peer) => plan[n][k] = stored[n][k]

LEMMA StableSteps ==
  ASSUME ~Writes, ~PeersFail, TypeOK, Past, Stable, [Next]_vars
  PROVE  Stable'
<1>1. /\ stored \in [Member -> [Key -> Times]] /\ plan \in [Peer -> [Key -> Times]]
      /\ task \in [Peer -> Tasks] /\ known \in [Peer -> -1 .. MaxRestarts]
      /\ Returner \in Member /\ Returner \notin Peer /\ Peer \subseteq Member
      /\ flight \subseteq Pushes
  BY OrderAssumption DEF TypeOK, Tasks, Stage, Pushes, Member
<1> DEFINE Online == /\ down = {} /\ \A n \in Peer : view[n] = Peer
                     /\ \A n \in Peer : task[n].stage = "viewed" => task[n].online = Peer
           Full(n) == \A k \in Key : Scanned(n) /\ Designated(k, n, Peer) => plan[n][k] = stored[n][k]
<1>2. Online /\ \A n \in Peer : Full(n)
  BY DEF Stable
<1>3. SUFFICES Online' /\ \A n \in Peer : Full(n)'
  BY DEF Stable
<1>4. ASSUME NEW n \in Peer, UNCHANGED <<uuid, known[n], plan[n], stored[n], task[n]>> PROVE Full(n)'
  BY <1>2, <1>4 DEF Scanned, Designated
<1>5. CASE UNCHANGED <<uuid, known, plan, down, view, task>> /\ \A n \in Peer : stored'[n] = stored[n]
  BY <1>2, <1>4, <1>5
<1>6. ASSUME NEW wipe \in BOOLEAN, Restart(wipe) PROVE Online' /\ \A n \in Peer : Full(n)'
  <2>1. uuid' = uuid + 1 /\ UNCHANGED <<down, view, task, known>>
    BY <1>6 DEF Restart
  <2>2. ASSUME NEW n \in Peer PROVE ~Scanned(n)'
    <3>1. known[n] <= uuid /\ known[n] \in Int /\ uuid \in Int
      BY <1>1, BoundAssumption DEF Past, TypeOK
    <3> QED
      BY <2>1, <3>1 DEF Scanned
  <2> QED
    BY <1>2, <2>1, <2>2
<1>7. ASSUME NEW f \in flight, Execute(f) PROVE Online' /\ \A n \in Peer : Full(n)'
  <2>1. \A n \in Peer : stored'[n] = stored[n]
    BY <1>1, <1>7 DEF Execute
  <2> QED
    BY <1>5, <1>7, <2>1 DEF Execute, gossipVars
<1>8. ASSUME NEW n \in Peer, NEW m \in Peer, Notice(n, m) PROVE FALSE
  BY <1>2, <1>8 DEF Notice
<1>9. ASSUME NEW m \in Peer, HandleEvent(m) PROVE Online' /\ \A n \in Peer : Full(n)'
  <2>1. /\ UNCHANGED <<stored, uuid, down, view, plan>>
        /\ known' = [known EXCEPT ![m] = Head(queue[m])]
        /\ \/ known[m] = Head(queue[m]) /\ task' = task
           \/ task' = [task EXCEPT ![m] = Task("spawned", {}, Nothing)]
    BY <1>9 DEF HandleEvent, gossipVars
  <2>2. CASE known[m] = Head(queue[m]) /\ task' = task
    <3>1. known' = known
      BY <1>1, <2>1, <2>2
    <3> QED
      BY <1>5, <2>1, <2>2, <3>1
  <2>3. CASE task' = [task EXCEPT ![m] = Task("spawned", {}, Nothing)]
    <3>1. /\ task'[m].stage = "spawned"
          /\ \A n \in Peer : n # m => task'[n] = task[n] /\ known'[n] = known[n]
      BY <1>1, <2>1, <2>3 DEF Task
    <3>2. ~Scanned(m)'
      BY <3>1 DEF Scanned
    <3>3. Online'
      BY <1>2, <2>1, <3>1
    <3>4. \A n \in Peer : n # m => Full(n)'
      BY <1>4, <2>1, <3>1
    <3> QED
      BY <3>2, <3>3, <3>4
  <2> QED
    BY <2>1, <2>2, <2>3
<1>10. ASSUME NEW m \in Peer, SnapshotView(m) PROVE Online' /\ \A n \in Peer : Full(n)'
  <2>1. /\ UNCHANGED <<stored, uuid, down, view, plan, known>>
        /\ task'[m].stage = "viewed" /\ task'[m].online = view[m]
        /\ \A n \in Peer : n # m => task'[n] = task[n]
    BY <1>1, <1>10 DEF SnapshotView, gossipVars, Task
  <2>2. ~Scanned(m)'
    BY <2>1 DEF Scanned
  <2>3. \A n \in Peer : n # m => Full(n)'
    BY <1>4, <2>1
  <2>4. Online'
    BY <1>2, <2>1
  <2> QED
    BY <2>2, <2>3, <2>4
<1>11. ASSUME NEW m \in Peer, OpenScan(m) \/ ScanFails(m)
       PROVE  Online' /\ \A n \in Peer : Full(n)'
  <2>1. /\ UNCHANGED <<stored, uuid, down, view, known>>
        /\ task[m].stage = "viewed" /\ task'[m].stage # "viewed"
        /\ plan'[m] = Assigned(m)
        /\ \A n \in Peer : n # m => task'[n] = task[n] /\ plan'[n] = plan[n]
    BY <1>1, <1>11 DEF OpenScan, ScanFails, gossipVars, Task
  <2>2. Full(m)'
    BY <1>2, <2>1 DEF Designated, Assigned
  <2>3. \A n \in Peer : n # m => Full(n)'
    BY <1>4, <2>1
  <2>4. Online'
    BY <1>2, <2>1
  <2> QED
    BY <2>2, <2>3, <2>4
<1>12. ASSUME NEW m \in Peer,
              EndPush(m) \/ EndScan(m) \/ \E k \in Key : SendKey(m, k)
       PROVE  Online' /\ \A n \in Peer : Full(n)'
  <2>1. /\ UNCHANGED <<stored, uuid, down, view, plan, known>>
        /\ task[m].stage \in {"scanning", "sending"}
        /\ task'[m].stage \in {"idle", "scanning", "sending"}
        /\ \A n \in Peer : n # m => task'[n] = task[n]
    BY <1>1, <1>12 DEF EndPush, EndScan, SendKey, gossipVars, Task, Tasks
  <2>2. Full(m)'
    BY <1>2, <2>1 DEF Scanned, Designated
  <2>3. \A n \in Peer : n # m => Full(n)'
    BY <1>4, <2>1
  <2>4. Online'
    BY <1>2, <2>1
  <2> QED
    BY <2>2, <2>3, <2>4
<1>13. ASSUME NEW m \in Peer, PeerFails(m) \/ PeerReturns(m) PROVE FALSE
  BY <1>2, <1>13 DEF PeerFails, PeerReturns
<1> HIDE DEF Online, Full
<1> QED
  BY <1>5, <1>6, <1>7, <1>8, <1>9, <1>10, <1>11, <1>12, <1>13
  DEF Next, vars, gossipVars, Listen, Unreachable, Write, Gossip, Lose

(* SettledIsRestored for any roster, ring, keys and any number of          *)
(* restarts: the safety half of SenderRestores.                            *)
THEOREM SettledRestored == Spec => []SettledIsRestored
<1> DEFINE Calm == ~Writes /\ ~PeersFail => Stable
<1>1. Init => Heard /\ Calm
  <2> SUFFICES ASSUME Init PROVE Heard /\ Stable
    OBVIOUS
  <2>1. Heard
    BY DEF Init, Heard
  <2>2. \A n \in Peer : ~Scanned(n) /\ task[n].stage = "idle" /\ view[n] = Peer
    BY DEF Init, Scanned, Task
  <2> QED
    BY <2>1, <2>2 DEF Init, Stable
<1>2. TypeOK /\ Past /\ Heard /\ Calm /\ [Next]_vars => Heard' /\ Calm'
  BY HeardSteps, StableSteps
<1>3. TypeOK /\ Heard /\ Calm /\ ScanRestores => SettledIsRestored
  <2> SUFFICES ASSUME Heard, Stable, ScanRestores, NEW n \in Peer, NEW k \in Key,
                      Designated(k, n, Peer), k \notin missed[n],
                      told[n] = uuid, queue[n] = <<>>, task[n].stage = "idle", TypeOK
               PROVE  \/ stored[Returner][k] >= stored[n][k]
                      \/ \E f \in flight : f.key = k /\ f.time >= stored[n][k]
    BY DEF SettledIsRestored
  <2>1. known[n] = uuid
    <3>1. told[n] # -1
      BY BoundAssumption DEF TypeOK
    <3> QED
      BY <3>1 DEF Heard, LastHeard
  <2>2. plan[n][k] = stored[n][k]
    BY <2>1 DEF Stable, Scanned
  <2> QED
    BY <2>1, <2>2 DEF ScanRestores
<1>4. Init => Past
  BY DEF Init, Past
<1>5. TypeOK /\ Past /\ [Next]_vars => Past'
  BY PastSteps
<1> HIDE DEF Calm
<1> QED
  BY <1>1, <1>2, <1>3, <1>4, <1>5, TypeCorrect, ScansRestore, PTL DEF Spec
=============================================================================
