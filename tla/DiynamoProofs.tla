--------------------------- MODULE DiynamoProofs ---------------------------
(***************************************************************************)
(* Proofs about Diynamo: what a put has left at a node stays in effect,    *)
(* and an acknowledged put survives, for every number of nodes and puts,   *)
(* every W, any clocks and any nodes that lose their data.                 *)
(***************************************************************************)
EXTENDS Diynamo, FiniteSetTheorems, TLAPS

(* Type correctness of the cluster. *)
THEOREM TypeCorrect == Spec => []TypeOK
<1> USE DEF TypeOK, putVars
<1>1. Init => TypeOK
  BY ClusterAssumption DEF Init
<1>2. TypeOK /\ [Next]_vars => TypeOK'
  <2> SUFFICES ASSUME TypeOK, [Next]_vars PROVE TypeOK'
    OBVIOUS
  <2>1. ASSUME NEW p \in Put, NEW time \in Timestamp, Start(p, time) PROVE TypeOK'
    BY <2>1 DEF Start
  <2>2. ASSUME NEW p \in Put, NEW n \in Node, Write(p, n) PROVE TypeOK'
    BY <2>2 DEF Write, Kept
  <2>3. ASSUME NEW p \in Put, NEW n \in Node, Refresh(n, p) PROVE TypeOK'
    BY <2>3 DEF Refresh, Kept
  <2>4. ASSUME NEW p \in Put, NEW h \in Node, NEW t \in Node, StoreHint(p, h, t) PROVE TypeOK'
    <3>1. spoiled' \in SUBSET (Node \X Replica)
      BY <2>4 DEF StoreHint
    <3>2. hints' \in [Node -> [Node -> Put \cup {None}]]
      BY <2>4 DEF StoreHint
    <3>3. hinted' \in [Put -> [Node -> Replica \cup {None}]]
      BY <2>4 DEF StoreHint
    <3> QED
      BY <2>4, <3>1, <3>2, <3>3 DEF StoreHint
  <2>5. ASSUME NEW p \in Put, NEW h \in Node, NEW t \in Node, Deliver(h, t, p) PROVE TypeOK'
    <3>1. t \in Replica
      BY <2>5, ClusterAssumption DEF Deliver
    <3>2. answered' \in SUBSET [from : Node, to : Replica, version : Put]
      BY <2>5, <3>1 DEF Deliver, Delivery
    <3> QED
      BY <2>5, <3>2 DEF Deliver, Kept
  <2>6. ASSUME NEW p \in Put, Answer(p) PROVE TypeOK'
    BY <2>6 DEF Answer
  <2>7. ASSUME NEW d \in answered, DeleteHint(d) PROVE TypeOK'
    <3>1. d.from \in Node /\ d.to \in Replica /\ d.to \in Node
      BY ClusterAssumption
    <3>2. hints' \in [Node -> [Node -> Put \cup {None}]]
      BY <2>7, <3>1 DEF DeleteHint
    <3>3. spoiled' \in SUBSET (Node \X Replica)
      BY <2>7, <3>1 DEF DeleteHint
    <3> QED
      BY <2>7, <3>2, <3>3 DEF DeleteHint
  <2>8. ASSUME NEW n \in Node, NEW wipe \in BOOLEAN, Restart(n, wipe) PROVE TypeOK'
    <3>1. phase' \in [Put -> {"idle", "open", "ok", "failed"}]
      BY <2>8 DEF Restart
    <3>2. answered' \in SUBSET [from : Node, to : Replica, version : Put]
      BY <2>8 DEF Restart
    <3>3. wiped' \in SUBSET Node /\ db' \in [Node -> Put \cup {None}]
      BY <2>8 DEF Restart
    <3>4. hints' \in [Node -> [Node -> Put \cup {None}]]
      BY <2>8 DEF Restart
    <3> QED
      BY <2>8, <3>1, <3>2, <3>3, <3>4 DEF Restart
  <2>9. ASSUME NEW n \in Node, Overlap(n) PROVE TypeOK'
    BY <2>9 DEF Overlap
  <2>10. CASE UNCHANGED vars
    BY <2>10 DEF vars
  <2> QED
    BY <2>1, <2>2, <2>3, <2>4, <2>5, <2>6, <2>7, <2>8, <2>9, <2>10 DEF Next
<1> QED
  BY <1>1, <1>2, PTL DEF Spec

-----------------------------------------------------------------------------
(* A put that has not begun is nowhere, and one that has has a timestamp.  *)
Started ==
  /\ \A p \in Put :
       /\ phase[p] = "idle" => done[p] = {} /\ \A h \in Node : hinted[p][h] = None
       /\ phase[p] # "idle" => ts[p] \in Nat
  /\ \A n \in Node : db[n] # None => phase[db[n]] # "idle"
  /\ \A h, t \in Node : hints[h][t] # None => phase[hints[h][t]] # "idle"
  /\ \A d \in answered : phase[d.version] # "idle"

\* The nodes whose stores may have lost a version.
Lossy == wiped \cup raced

(* A target that acknowledged a delivery has what was delivered.           *)
Delivered ==
  \A d \in answered : d.to \notin Lossy => Age(db[d.to]) >= Age(d.version)

(* A put that succeeded reached W replicas, and hints lie outside the      *)
(* preference list.                                                        *)
Reached ==
  /\ \A p \in Put : phase[p] = "ok" => Cardinality(Covered(p)) >= W
  /\ \A p \in Put, h \in Node : hinted[p][h] # None => h \notin Replica

(* Ages are integers, and where calls do not overlap a write-if-newer      *)
(* leaves a version as new as what was there and as what it brought.       *)
LEMMA AgeFacts ==
  ASSUME TypeOK
  PROVE  /\ \A v \in Put \cup {None} : Age(v) \in Int
         /\ \A p \in Put : Age(p) = ts[p]
         /\ Age(None) = -1
         /\ \A n \in Node, v \in Put : \A u \in Kept(n, v) :
              /\ u \in {db[n], v}
              /\ n \notin raced => Age(u) >= Age(db[n]) /\ Age(u) >= Age(v)
<1>1. \A p \in Put : ts[p] \in Int /\ p # None
  <2>1. Timestamp \cup {-1} \subseteq Int /\ \A p \in Put : p # None
    BY ClusterAssumption
  <2> QED
    BY <2>1 DEF TypeOK
<1>2. \A v \in Put \cup {None} : Age(v) \in Int
  BY <1>1 DEF Age
<1> QED
  BY <1>1, <1>2 DEF Age, Kept

(* Started is inductive.                                                   *)
LEMMA StartedSteps == ASSUME TypeOK, Started, [Next]_vars PROVE Started'
<1> USE DEF TypeOK, Started, putVars
<1>1. ASSUME NEW p \in Put, NEW time \in Timestamp, Start(p, time) PROVE Started'
  BY <1>1, ClusterAssumption DEF Start
<1>2. ASSUME NEW p \in Put, NEW n \in Node, Write(p, n) PROVE Started'
  BY <1>2 DEF Write, Kept
<1>3. ASSUME NEW p \in Put, NEW n \in Node, Refresh(n, p) PROVE Started'
  <2>1. phase[p] # "idle"
    BY <1>3, ClusterAssumption DEF Refresh, Covered
  <2> QED
    BY <1>3, <2>1 DEF Refresh, Kept
<1>4. ASSUME NEW p \in Put, NEW h \in Node, NEW t \in Node, StoreHint(p, h, t) PROVE Started'
  BY <1>4 DEF StoreHint
<1>5. ASSUME NEW p \in Put, NEW h \in Node, NEW t \in Node, Deliver(h, t, p) PROVE Started'
  <2>1. phase[p] # "idle"
    BY <1>5, ClusterAssumption DEF Deliver
  <2>2. \A d \in answered' : phase[d.version] # "idle"
    BY <1>5, <2>1 DEF Deliver, Delivery
  <2> QED
    BY <1>5, <2>1, <2>2 DEF Deliver, Kept
<1>6. ASSUME NEW p \in Put, Answer(p) PROVE Started'
  BY <1>6 DEF Answer
<1>7. ASSUME NEW d \in answered, DeleteHint(d) PROVE Started'
  BY <1>7 DEF DeleteHint
<1>8. ASSUME NEW n \in Node, NEW wipe \in BOOLEAN, Restart(n, wipe) PROVE Started'
  <2>1. \A p \in Put : phase'[p] = "idle" <=> phase[p] = "idle"
    BY <1>8 DEF Restart
  <2>2. UNCHANGED <<ts, done, hinted>>
    BY <1>8 DEF Restart
  <2>3. \A p \in Put :
          /\ phase'[p] = "idle" => done'[p] = {} /\ \A h \in Node : hinted'[p][h] = None
          /\ phase'[p] # "idle" => ts'[p] \in Nat
    BY <2>1, <2>2
  <2>4. \A m \in Node : db'[m] # None => db'[m] \in Put /\ phase'[db'[m]] # "idle"
    <3> SUFFICES ASSUME NEW m \in Node, db'[m] # None PROVE db'[m] \in Put /\ phase'[db'[m]] # "idle"
      OBVIOUS
    <3>1. db'[m] = db[m]
      BY <1>8 DEF Restart
    <3> QED
      BY <2>1, <3>1
  <2>5. \A h, t \in Node : hints'[h][t] # None => phase'[hints'[h][t]] # "idle"
    <3> SUFFICES ASSUME NEW h \in Node, NEW t \in Node, hints'[h][t] # None
                 PROVE  phase'[hints'[h][t]] # "idle"
      OBVIOUS
    <3>1. hints'[h][t] = hints[h][t]
      <4>1. CASE hints' = hints
        BY <4>1
      <4>2. CASE hints' = [hints EXCEPT ![n] = [u \in Node |-> None]]
        <5>1. h # n
          BY <4>2
        <5> QED
          BY <4>2, <5>1
      <4> QED
        BY <1>8, <4>1, <4>2 DEF Restart
    <3>2. hints[h][t] \in Put
      BY <3>1
    <3> QED
      BY <2>1, <3>1, <3>2
  <2>6. \A d \in answered' : phase'[d.version] # "idle"
    <3>1. \A d \in answered' : d \in answered
      BY <1>8 DEF Restart
    <3>2. \A d \in answered : d.version \in Put
      OBVIOUS
    <3> QED
      BY <2>1, <3>1, <3>2
  <2> QED
    BY <2>3, <2>4, <2>5, <2>6
<1>9. ASSUME NEW n \in Node, Overlap(n) PROVE Started'
  BY <1>9 DEF Overlap
<1>10. CASE UNCHANGED vars
  BY <1>10 DEF vars
<1> QED
  BY <1>1, <1>2, <1>3, <1>4, <1>5, <1>6, <1>7, <1>8, <1>9, <1>10 DEF Next

-----------------------------------------------------------------------------
(* What a step may do to each part of the state.                           *)

(* The timestamp of a put that has begun is fixed, and so is the age of    *)
(* every version that is anywhere.                                         *)
LEMMA AgeSteps ==
  ASSUME TypeOK, Started, [Next]_vars
  PROVE  /\ \A p \in Put : phase[p] # "idle" => ts'[p] = ts[p]
         /\ \A v \in Put \cup {None} :
              v # None /\ phase[v] # "idle" => (Age(v))' = Age(v)
         /\ (Age(None))' = Age(None)
<1>1. \A p \in Put : phase[p] # "idle" => ts'[p] = ts[p]
  <2>1. CASE UNCHANGED ts
    BY <2>1
  <2>2. ASSUME NEW q \in Put, NEW time \in Timestamp, Start(q, time)
        PROVE  \A p \in Put : phase[p] # "idle" => ts'[p] = ts[p]
    BY <2>2 DEF Start, TypeOK
  <2> QED
    BY <2>1, <2>2 DEF Next, vars, putVars, Write, Refresh, StoreHint, Deliver, Answer, Overlap, DeleteHint, Restart
<1> QED
  BY <1>1 DEF Age

(* Nothing that was done is undone, and no loss is forgotten.              *)
LEMMA HistorySteps ==
  ASSUME TypeOK, [Next]_vars
  PROVE  /\ wiped \subseteq wiped' /\ spoiled \subseteq spoiled' /\ raced \subseteq raced'
         /\ \A p \in Put : done[p] \subseteq done'[p]
         /\ \A p \in Put, h \in Node : hinted[p][h] # None => hinted'[p][h] = hinted[p][h]
<1> DEFINE Goal == /\ wiped \subseteq wiped' /\ spoiled \subseteq spoiled' /\ raced \subseteq raced'
                   /\ \A p \in Put : done[p] \subseteq done'[p]
                   /\ \A p \in Put, h \in Node :
                        hinted[p][h] # None => hinted'[p][h] = hinted[p][h]
<1>1. CASE UNCHANGED <<wiped, spoiled, raced, done, hinted>>
  BY <1>1
<1>2. ASSUME NEW q \in Put, NEW n \in Node, Write(q, n) PROVE Goal
  BY <1>2 DEF Write, TypeOK
<1>3. ASSUME NEW q \in Put, NEW g \in Node, NEW t \in Node, StoreHint(q, g, t) PROVE Goal
  <2>1. UNCHANGED <<wiped, raced, done>> /\ spoiled \subseteq spoiled'
    BY <1>3 DEF StoreHint
  <2>2. \A p \in Put, h \in Node : hinted[p][h] # None => hinted'[p][h] = hinted[p][h]
    BY <1>3 DEF StoreHint, TypeOK
  <2> QED
    BY <2>1, <2>2
<1>4. ASSUME NEW d \in answered, DeleteHint(d) PROVE Goal
  BY <1>4 DEF DeleteHint, putVars
<1>5. ASSUME NEW n \in Node, NEW wipe \in BOOLEAN, Restart(n, wipe) PROVE Goal
  BY <1>5 DEF Restart
<1>6. ASSUME NEW n \in Node, Overlap(n) PROVE Goal
  BY <1>6 DEF Overlap, putVars
<1> QED
  BY <1>1, <1>2, <1>3, <1>4, <1>5, <1>6 DEF Next, vars, putVars, Start, Refresh, Deliver, Answer

(* What a node stores only gets newer, until it loses its data or calls    *)
(* overlap there.                                                          *)
LEMMA StoreGrows ==
  ASSUME TypeOK, Started, [Next]_vars, NEW n \in Node, n \notin Lossy'
  PROVE  (Age(db[n]))' >= Age(db[n])
<1>1. Age(db[n]) \in Int /\ db[n] \in Put \cup {None}
  BY AgeFacts DEF TypeOK
<1>2. ASSUME db'[n] = db[n] PROVE (Age(db[n]))' >= Age(db[n])
  <2>1. db[n] # None => phase[db[n]] # "idle"
    BY DEF Started
  <2>2. (Age(db[n]))' = Age(db[n])
    BY <1>1, <1>2, <2>1, AgeSteps DEF Age
  <2> QED
    BY <1>1, <2>2
<1>3. ASSUME NEW q \in Put, NEW u \in Kept(n, q), db'[n] = u, UNCHANGED ts
      PROVE  (Age(db[n]))' >= Age(db[n])
  <2>1. (Age(db[n]))' = Age(u)
    BY <1>3 DEF Age
  <2>2. n \notin raced
    BY HistorySteps DEF Lossy
  <2> QED
    BY <2>1, <2>2, AgeFacts
<1>4. ASSUME NEW q \in Put, NEW m \in Node,
             Write(q, m) \/ Refresh(m, q) \/ \E h \in Node : Deliver(h, m, q)
      PROVE  (Age(db[n]))' >= Age(db[n])
  <2>1. UNCHANGED ts /\ \E u \in Kept(m, q) : db' = [db EXCEPT ![m] = u]
    BY <1>4 DEF Write, Refresh, Deliver, putVars
  <2>2. db'[n] = db[n] \/ \E u \in Kept(n, q) : db'[n] = u
    BY <2>1 DEF TypeOK
  <2> QED
    BY <1>2, <1>3, <2>1, <2>2
<1>5. ASSUME NEW m \in Node, NEW wipe \in BOOLEAN, Restart(m, wipe)
      PROVE  (Age(db[n]))' >= Age(db[n])
  <2>1. db'[n] = db[n]
    BY <1>5 DEF Restart, TypeOK, Lossy
  <2> QED
    BY <1>2, <2>1
<1>6. CASE UNCHANGED db
  BY <1>2, <1>6
<1> QED
  BY <1>4, <1>5, <1>6 DEF Next, vars, Start, StoreHint, Answer, Overlap, DeleteHint

(* A hint is kept or replaced by a newer one, or its replica has the       *)
(* version, until it is spoiled, one of the two loses its data or calls    *)
(* overlap at the replica.                                                 *)
LEMMA HintStays ==
  ASSUME TypeOK, Started, Delivered, [Next]_vars,
         NEW h \in Node \ wiped', NEW t \in Replica \ Lossy', <<h, t>> \notin spoiled'
  PROVE  \/ (Age(hints[h][t]))' >= Age(hints[h][t])
         \/ (Age(db[t]))' >= Age(hints[h][t])
<1> DEFINE Goal == \/ (Age(hints[h][t]))' >= Age(hints[h][t])
                   \/ (Age(db[t]))' >= Age(hints[h][t])
<1>1. t \in Node /\ hints[h][t] \in Put \cup {None} /\ Age(hints[h][t]) \in Int
  <2>1. t \in Node
    BY ClusterAssumption
  <2>2. hints[h][t] \in Put \cup {None}
    BY <2>1 DEF TypeOK
  <2> QED
    BY <2>1, <2>2, AgeFacts
<1>2. ASSUME hints'[h][t] = hints[h][t] PROVE Goal
  <2>1. hints[h][t] # None => phase[hints[h][t]] # "idle"
    BY <1>1 DEF Started
  <2>2. (Age(hints[h][t]))' = Age(hints[h][t])
    BY <1>1, <1>2, <2>1, AgeSteps DEF Age
  <2> QED
    BY <1>1, <2>2
<1>3. ASSUME NEW q \in Put, NEW g \in Node, NEW u \in Node, StoreHint(q, g, u) PROVE Goal
  <2>1. CASE g = h /\ u = t
    <3>1. ~(Age(hints[h][t]) > ts[q])
      BY <1>3, <2>1 DEF StoreHint
    <3>2. hints'[h][t] = q /\ UNCHANGED ts /\ q # None /\ ts[q] \in Int
      <4>1. hints' = [hints EXCEPT ![h][t] = q] /\ UNCHANGED ts
        BY <1>3, <2>1 DEF StoreHint
      <4>2. q # None /\ ts[q] \in Int
        BY AgeFacts, ClusterAssumption
      <4>3. hints'[h][t] = q
        BY <1>1, <4>1 DEF TypeOK
      <4> QED
        BY <4>1, <4>2, <4>3
    <3>3. (Age(hints[h][t]))' = ts[q]
      BY <3>2 DEF Age
    <3> QED
      BY <1>1, <3>1, <3>2, <3>3
  <2>2. CASE ~(g = h /\ u = t)
    <3>1. hints'[h][t] = hints[h][t]
      BY <1>1, <1>3, <2>2 DEF StoreHint, TypeOK
    <3> QED
      BY <1>2, <3>1
  <2> QED
    BY <2>1, <2>2
<1>4. ASSUME NEW d \in answered, DeleteHint(d) PROVE Goal
  <2>1. CASE d.from = h /\ d.to = t
    <3>1. ~(Age(hints[h][t]) > Age(d.version))
      BY <1>4, <2>1 DEF DeleteHint
    <3>2. Age(db[t]) >= Age(d.version)
      <4>1. t \notin Lossy
        BY HistorySteps DEF Lossy
      <4> QED
        BY <2>1, <4>1 DEF Delivered
    <3>3. (Age(db[t]))' >= Age(db[t])
      BY <1>1, StoreGrows
    <3>4. Age(d.version) \in Int /\ Age(db[t]) \in Int /\ (Age(db[t]))' \in Int
      <4>1. d.version \in Put /\ db[t] \in Put \cup {None}
        BY <1>1 DEF TypeOK
      <4>2. Age(d.version) \in Int /\ Age(db[t]) \in Int
        BY <4>1, AgeFacts
      <4>3. UNCHANGED <<db, ts>>
        BY <1>4 DEF DeleteHint, putVars
      <4> QED
        BY <4>2, <4>3 DEF Age
    <3> QED
      BY <1>1, <3>1, <3>2, <3>3, <3>4
  <2>2. CASE ~(d.from = h /\ d.to = t)
    <3>1. hints'[h][t] = hints[h][t]
      BY <1>1, <1>4, <2>2 DEF DeleteHint, TypeOK
    <3> QED
      BY <1>2, <3>1
  <2> QED
    BY <2>1, <2>2
<1>5. ASSUME NEW n \in Node, NEW wipe \in BOOLEAN, Restart(n, wipe) PROVE Goal
  <2>1. hints'[h][t] = hints[h][t]
    <3>1. CASE hints' = hints
      BY <3>1
    <3>2. CASE wiped' = wiped \cup {n} /\ hints' = [hints EXCEPT ![n] = [u \in Node |-> None]]
      BY <3>2 DEF TypeOK
    <3> QED
      BY <1>5, <3>1, <3>2 DEF Restart
  <2> QED
    BY <1>2, <2>1
<1>6. CASE UNCHANGED hints
  BY <1>2, <1>6
<1> QED
  BY <1>3, <1>4, <1>5, <1>6 DEF Next, vars, Start, Write, Refresh, Deliver, Answer, Overlap

-----------------------------------------------------------------------------
(* The inductive invariant.                                                *)

(* Every component of the state keeps its age as an integer.               *)
LEMMA AgesAfter ==
  ASSUME TypeOK'
  PROVE  /\ \A n \in Node : (Age(db[n]))' \in Int
         /\ \A h, t \in Node : (Age(hints[h][t]))' \in Int
<1>1. \A p \in Put : ts'[p] \in Int
  <2>1. Timestamp \cup {-1} \subseteq Int
    BY ClusterAssumption
  <2> QED
    BY <2>1 DEF TypeOK
<1> QED
  BY <1>1 DEF Age, TypeOK

(* An acknowledged delivery stays executed at its target.                  *)
LEMMA DeliveredSteps ==
  ASSUME TypeOK, TypeOK', Started, Delivered, [Next]_vars PROVE Delivered'
<1> SUFFICES ASSUME NEW d \in answered', d.to \notin Lossy'
             PROVE  (Age(db[d.to]))' >= (Age(d.version))'
  BY DEF Delivered
<1>1. d.to \in Node /\ d.version \in Put
  BY ClusterAssumption DEF TypeOK
<1>2. CASE d \in answered
  <2>1. d.to \notin Lossy /\ phase[d.version] # "idle"
    BY <1>2, HistorySteps DEF Started, Lossy
  <2>2. Age(db[d.to]) >= Age(d.version)
    BY <1>2, <2>1 DEF Delivered
  <2>3. (Age(db[d.to]))' >= Age(db[d.to])
    BY <1>1, StoreGrows
  <2>4. (Age(d.version))' = Age(d.version)
    <3>1. d.version # None
      BY <1>1, ClusterAssumption
    <3>2. ts'[d.version] = ts[d.version]
      BY <1>1, <2>1, AgeSteps
    <3> QED
      BY <3>1, <3>2 DEF Age
  <2>5. Age(db[d.to]) \in Int /\ Age(d.version) \in Int /\ (Age(db[d.to]))' \in Int
    BY <1>1, AgeFacts, AgesAfter DEF TypeOK
  <2> QED
    BY <2>2, <2>3, <2>4, <2>5
<1>3. ASSUME NEW q \in Put, NEW h \in Node, NEW t \in Node, Deliver(h, t, q), d \notin answered
      PROVE  (Age(db[d.to]))' >= (Age(d.version))'
  <2>1. d.to = t /\ d.version = q
    BY <1>3 DEF Deliver, Delivery
  <2>2. UNCHANGED ts /\ \E u \in Kept(t, q) : db'[t] = u
    BY <1>3 DEF Deliver, putVars, TypeOK
  <2>3. t \notin raced
    BY <2>1, HistorySteps DEF Lossy
  <2>4. \A u \in Kept(t, q) : Age(u) >= Age(q)
    BY <2>3, AgeFacts
  <2> QED
    BY <2>1, <2>2, <2>4 DEF Age
<1>4. (\E q \in Put, h, t \in Node : Deliver(h, t, q)) \/ answered' \subseteq answered
  BY DEF Next, vars, Start, Write, Refresh, StoreHint, Answer, Overlap, DeleteHint, Restart
<1> QED
  BY <1>2, <1>3, <1>4

(* What a put has left stays in effect.                                    *)
LEMMA DurableSteps ==
  ASSUME TypeOK, TypeOK', Started, Delivered, Durable, [Next]_vars PROVE Durable'
<1> SUFFICES ASSUME NEW p \in Put, NEW t \in Replica, t \notin Lossy'
             PROVE  /\ t \in done'[p] => (Age(db[t]))' >= ts'[p]
                    /\ \A h \in Node : h \notin wiped' /\ hinted'[p][h] = t /\ <<h, t>> \notin spoiled'
                         => (Age(db[t]))' >= ts'[p] \/ (Age(hints[h][t]))' >= ts'[p]
  BY DEF Durable, Lossy
<1>1. /\ t \in Node /\ t # None /\ t \notin Lossy /\ t \notin raced
      /\ Age(db[t]) \in Int /\ (Age(db[t]))' \in Int
      /\ ts[p] \in Int /\ ts'[p] \in Int /\ Age(p) = ts[p]
  <2>1. t \in Node /\ t # None /\ t \notin Lossy /\ t \notin raced
    BY ClusterAssumption, HistorySteps DEF Lossy
  <2>2. Age(db[t]) \in Int /\ ts[p] \in Int /\ Age(p) = ts[p]
    BY <2>1, AgeFacts DEF TypeOK
  <2>3. (Age(db[t]))' \in Int
    BY <2>1, AgesAfter
  <2>4. ts'[p] \in Int
    <3>1. Timestamp \cup {-1} \subseteq Int
      BY ClusterAssumption
    <3> QED
      BY <3>1 DEF TypeOK
  <2> QED
    BY <2>1, <2>2, <2>3, <2>4
<1>2. (Age(db[t]))' >= Age(db[t])
  BY <1>1, StoreGrows
<1>3. ASSUME t \in done'[p] PROVE (Age(db[t]))' >= ts'[p]
  <2>1. CASE t \in done[p]
    <3>1. phase[p] # "idle"
      BY <2>1 DEF Started
    <3>2. ts'[p] = ts[p]
      BY <3>1, AgeSteps
    <3>3. Age(db[t]) >= ts[p]
      BY <1>1, <2>1 DEF Durable, Lossy
    <3> QED
      BY <1>1, <1>2, <3>2, <3>3
  <2>2. ASSUME NEW q \in Put, NEW n \in Node, Write(q, n), t \notin done[p]
        PROVE  (Age(db[t]))' >= ts'[p]
    <3>1. q = p /\ n = t
      BY <1>3, <2>2 DEF Write, TypeOK
    <3>2. UNCHANGED ts /\ \E u \in Kept(t, p) : db'[t] = u
      BY <1>1, <2>2, <3>1 DEF Write, TypeOK
    <3>3. \A u \in Kept(t, p) : Age(u) >= Age(p)
      BY <1>1, AgeFacts
    <3>4. \E u \in Kept(t, p) : (Age(db[t]))' = Age(u)
      BY <3>2 DEF Age
    <3> QED
      BY <1>1, <3>2, <3>3, <3>4
  <2>3. (\E q \in Put, n \in Node : Write(q, n)) \/ UNCHANGED done
    BY DEF Next, vars, putVars, Start, Refresh, StoreHint, Deliver, Answer, Overlap, DeleteHint, Restart
  <2> QED
    BY <1>3, <2>1, <2>2, <2>3
<1>4. ASSUME NEW h \in Node, h \notin wiped', hinted'[p][h] = t, <<h, t>> \notin spoiled'
      PROVE  (Age(db[t]))' >= ts'[p] \/ (Age(hints[h][t]))' >= ts'[p]
  <2>1. CASE hinted[p][h] = t
    <3>1. phase[p] # "idle"
      BY <1>1, <2>1 DEF Started
    <3>2. ts'[p] = ts[p]
      BY <3>1, AgeSteps
    <3>3. h \notin wiped /\ <<h, t>> \notin spoiled
      BY <1>4, HistorySteps
    <3>4. Age(db[t]) >= ts[p] \/ Age(hints[h][t]) >= ts[p]
      BY <1>1, <2>1, <3>3 DEF Durable, Lossy
    <3>5. CASE Age(db[t]) >= ts[p]
      BY <1>1, <1>2, <3>2, <3>5
    <3>6. CASE Age(hints[h][t]) >= ts[p]
      <4>1. \/ (Age(hints[h][t]))' >= Age(hints[h][t])
            \/ (Age(db[t]))' >= Age(hints[h][t])
        BY <1>4, HintStays
      <4>2. Age(hints[h][t]) \in Int /\ (Age(hints[h][t]))' \in Int
        <5>1. hints[h][t] \in Put \cup {None}
          BY <1>1 DEF TypeOK
        <5> QED
          BY <1>1, <5>1, AgeFacts, AgesAfter
      <4> QED
        BY <1>1, <3>2, <3>6, <4>1, <4>2
    <3> QED
      BY <3>4, <3>5, <3>6
  <2>2. ASSUME NEW q \in Put, NEW g \in Node, NEW u \in Node, StoreHint(q, g, u), hinted[p][h] # t
        PROVE  (Age(hints[h][t]))' >= ts'[p]
    <3>1. q = p /\ g = h /\ u = t
      BY <1>4, <2>2 DEF StoreHint, TypeOK
    <3>2. hints'[h][t] = p /\ UNCHANGED ts
      BY <1>1, <2>2, <3>1 DEF StoreHint, TypeOK
    <3>3. (Age(hints[h][t]))' = ts[p]
      BY <1>1, <3>2 DEF Age
    <3> QED
      BY <1>1, <3>2, <3>3
  <2>3. (\E q \in Put, g, u \in Node : StoreHint(q, g, u)) \/ UNCHANGED hinted
    BY DEF Next, vars, putVars, Start, Write, Refresh, Deliver, Answer, Overlap, DeleteHint, Restart
  <2> QED
    BY <1>4, <2>1, <2>2, <2>3
<1> QED
  BY <1>3, <1>4

(* The nodes a put has reached are finitely many.                          *)
LEMMA FiniteSets ==
  ASSUME TypeOK
  PROVE  /\ IsFiniteSet(Replica) /\ IsFiniteSet(Lossy) /\ IsFiniteSet(spoiled)
         /\ \A p \in Put : Covered(p) \subseteq Replica
<1>1. IsFiniteSet(Replica) /\ IsFiniteSet(Lossy)
  <2>1. Replica \in SUBSET Node /\ Lossy \in SUBSET Node
    BY ClusterAssumption DEF TypeOK, Lossy
  <2> QED
    BY <2>1, ClusterAssumption, FS_Subset
<1>2. IsFiniteSet(spoiled)
  <2>1. IsFiniteSet(Node \X Replica)
    BY <1>1, ClusterAssumption, FS_Product
  <2> QED
    BY <2>1, FS_Subset DEF TypeOK
<1>3. \A p \in Put : Covered(p) \subseteq Replica
  BY DEF Covered, TypeOK
<1> QED
  BY <1>1, <1>2, <1>3

(* Reached is inductive: what a put has reached does not shrink.           *)
LEMMA ReachedSteps ==
  ASSUME TypeOK, TypeOK', Reached, [Next]_vars PROVE Reached'
<1>1. ASSUME NEW p \in Put, phase'[p] = "ok" PROVE Cardinality(Covered(p)') >= W
  <2>1. Cardinality(Covered(p)) >= W
    <3>1. ASSUME NEW q \in Put, Answer(q) PROVE Cardinality(Covered(p)) >= W
      BY <1>1, <3>1 DEF Answer, Reached, TypeOK
    <3>2. ASSUME NEW q \in Put, NEW time \in Timestamp, Start(q, time)
          PROVE  Cardinality(Covered(p)) >= W
      BY <1>1, <3>2 DEF Start, Reached, TypeOK
    <3>3. ASSUME NEW n \in Node, NEW wipe \in BOOLEAN, Restart(n, wipe)
          PROVE  Cardinality(Covered(p)) >= W
      BY <1>1, <3>3 DEF Restart, Reached, TypeOK
    <3>4. CASE UNCHANGED phase
      BY <1>1, <3>4 DEF Reached
    <3> QED
      BY <3>1, <3>2, <3>3, <3>4
      DEF Next, vars, putVars, Write, Refresh, StoreHint, Deliver, Overlap, DeleteHint
  <2>2. Covered(p) \subseteq Covered(p)'
    <3>1. \A t \in Replica : t # None
      BY ClusterAssumption
    <3> QED
      BY <3>1, HistorySteps DEF Covered
  <2>3. IsFiniteSet(Covered(p)') /\ IsFiniteSet(Covered(p))
    <3>1. Covered(p) \subseteq Replica /\ IsFiniteSet(Replica)
      BY FiniteSets
    <3>2. Covered(p)' \subseteq Replica
      BY DEF Covered, TypeOK
    <3> QED
      BY <3>1, <3>2, FS_Subset
  <2>4. Cardinality(Covered(p)) <= Cardinality(Covered(p)')
    BY <2>2, <2>3, FS_Subset
  <2>5. Cardinality(Covered(p)) \in Nat /\ Cardinality(Covered(p)') \in Nat
    BY <2>3, FS_CardinalityType
  <2> QED
    BY <2>1, <2>4, <2>5, ClusterAssumption
<1>2. ASSUME NEW p \in Put, NEW h \in Node, hinted'[p][h] # None PROVE h \notin Replica
  <2>1. ASSUME NEW q \in Put, NEW g \in Node, NEW t \in Node, StoreHint(q, g, t)
        PROVE  h \notin Replica
    <3>1. (q = p /\ g = h) \/ hinted'[p][h] = hinted[p][h]
      BY <2>1 DEF StoreHint, TypeOK
    <3> QED
      BY <1>2, <2>1, <3>1 DEF StoreHint, Reached
  <2>2. CASE UNCHANGED hinted
    BY <1>2, <2>2 DEF Reached
  <2> QED
    BY <2>1, <2>2
    DEF Next, vars, putVars, Start, Write, Refresh, Deliver, Answer, Overlap, DeleteHint, Restart
<1> QED
  BY <1>1, <1>2 DEF Reached

(* The inductive invariant holds in every state of every behaviour.        *)
LEMMA InvariantHolds == Spec => [](TypeOK /\ Started /\ Delivered /\ Durable /\ Reached)
<1>1. Init => Started /\ Delivered /\ Durable /\ Reached
  <2> SUFFICES ASSUME Init PROVE Started /\ Delivered /\ Durable /\ Reached
    OBVIOUS
  <2>1. Started /\ Delivered /\ Reached
    BY DEF Init, Started, Delivered, Reached
  <2>2. \A t \in Replica : t # None
    BY ClusterAssumption
  <2>3. Durable
    BY <2>2 DEF Init, Durable
  <2> QED
    BY <2>1, <2>3
<1>2. TypeOK /\ TypeOK' /\ Started /\ Delivered /\ Durable /\ Reached /\ [Next]_vars
        => (Started /\ Delivered /\ Durable /\ Reached)'
  <2> SUFFICES ASSUME TypeOK, TypeOK', Started, Delivered, Durable, Reached, [Next]_vars
               PROVE  Started' /\ Delivered' /\ Durable' /\ Reached'
    OBVIOUS
  <2> QED
    BY StartedSteps, DeliveredSteps, DurableSteps, ReachedSteps
<1> QED
  BY <1>1, <1>2, TypeCorrect, PTL DEF Spec

(* Durable for every cluster: what a put has left at a node stays in       *)
(* effect until that node loses its data, calls overlap there or the hint  *)
(* is spoiled.                                                             *)
THEOREM DurableKept == Spec => []Durable
BY InvariantHolds, PTL

-----------------------------------------------------------------------------
(* From durable places to W of them.                                       *)

(* A set with an injection into a finite set is no larger.                 *)
LEMMA NoLarger ==
  ASSUME NEW S, NEW T, IsFiniteSet(T), NEW f \in [S -> T],
         \A a, b \in S : f[a] = f[b] => a = b
  PROVE  IsFiniteSet(S) /\ Cardinality(S) <= Cardinality(T)
<1>1. f \in Injection(S, T)
  BY DEF Injection, IsInjective
<1> QED
  BY <1>1, FS_Injection

(* The replicas put p has reached and for which it is nowhere are no more  *)
(* than the losses: its store is lossy, it was hinted at a wiped node, or   *)
(* the hint for it is spoiled.                                             *)
LEMMA LossesAreCounted ==
  ASSUME TypeOK, Durable, Reached, NEW p \in Put
  PROVE  Cardinality(Covered(p) \ Places(p)) <= Cardinality(Lossy) + Cardinality(spoiled)
<1> DEFINE D == Covered(p) \ Places(p)
           Out(t) == {h \in Node : hinted[p][h] = t}
           D1 == {t \in D : t \in Lossy \/ Out(t) \cap wiped # {}}
           D2 == D \ D1
           f1 == [t \in D1 |-> IF t \in Lossy THEN t ELSE CHOOSE h \in Out(t) : h \in wiped]
           f2 == [t \in D2 |-> <<CHOOSE h \in Out(t) : TRUE, t>>]
<1>1. D \subseteq Replica /\ \A t \in Replica : t # None
  BY FiniteSets, ClusterAssumption
<1>2. \A t \in D2 : Out(t) # {} /\ \A h \in Out(t) : <<h, t>> \in spoiled
  <2> SUFFICES ASSUME NEW t \in D2
               PROVE  Out(t) # {} /\ \A h \in Out(t) : <<h, t>> \in spoiled
    OBVIOUS
  <2>1. t \in Replica \ Lossy /\ t \in Node /\ t \in Covered(p) /\ t \notin Places(p)
    BY <1>1, ClusterAssumption
  <2>2. ~(Age(db[t]) >= ts[p]) /\ \A h \in Node : ~(Age(hints[h][t]) >= ts[p])
    BY <2>1 DEF Places
  <2>3. t \notin done[p]
    BY <2>1, <2>2 DEF Durable, Lossy
  <2>4. Out(t) # {}
    BY <2>1, <2>3 DEF Covered
  <2>5. \A h \in Out(t) : h \notin wiped
    OBVIOUS
  <2>6. \A h \in Out(t) : <<h, t>> \in spoiled
    BY <2>1, <2>2, <2>5 DEF Durable, Lossy
  <2> QED
    BY <2>4, <2>6
<1>3. IsFiniteSet(D1) /\ Cardinality(D1) <= Cardinality(Lossy)
  <2>1. \A t \in D1 : /\ f1[t] \in Lossy
                      /\ t \in Lossy => f1[t] = t
                      /\ t \notin Lossy => f1[t] \in Out(t)
    BY DEF Lossy
  <2>2. f1 \in [D1 -> Lossy]
    BY <2>1
  <2>3. \A t \in D1 : \A h \in Out(t) : h \notin Replica
    BY <1>1 DEF Reached
  <2>4. \A a, b \in D1 : f1[a] = f1[b] => a = b
    <3> SUFFICES ASSUME NEW a \in D1, NEW b \in D1, f1[a] = f1[b] PROVE a = b
      OBVIOUS
    <3>1. a \in Replica /\ b \in Replica
      BY <1>1
    <3> HIDE DEF f1, D1
    <3>2. CASE a \in Lossy
      BY <2>1, <2>3, <3>1, <3>2
    <3>3. CASE b \in Lossy
      BY <2>1, <2>3, <3>1, <3>3
    <3>4. CASE a \notin Lossy /\ b \notin Lossy
      BY <2>1, <3>4
    <3> QED
      BY <3>2, <3>3, <3>4
  <2>5. IsFiniteSet(Lossy)
    BY FiniteSets
  <2> HIDE DEF f1, D1
  <2> QED
    BY <2>2, <2>4, <2>5, NoLarger
<1>4. IsFiniteSet(D2) /\ Cardinality(D2) <= Cardinality(spoiled)
  <2>1. f2 \in [D2 -> spoiled]
    <3>1. \A t \in D2 : (CHOOSE h \in Out(t) : TRUE) \in Out(t)
      BY <1>2
    <3> QED
      BY <1>2, <3>1
  <2>2. \A a, b \in D2 : f2[a] = f2[b] => a = b
    OBVIOUS
  <2>3. IsFiniteSet(spoiled)
    BY FiniteSets
  <2> HIDE DEF f2, D2
  <2> QED
    BY <2>1, <2>2, <2>3, NoLarger
<1>5. D = D1 \cup D2
  OBVIOUS
<1> HIDE DEF D1, D2
<1>6. Cardinality(D) <= Cardinality(D1) + Cardinality(D2)
  <2>1. IsFiniteSet(D1 \cap D2)
    BY <1>3, FS_Subset
  <2>2. Cardinality(D) = Cardinality(D1) + Cardinality(D2) - Cardinality(D1 \cap D2)
    BY <1>3, <1>4, <1>5, FS_Union
  <2> QED
    BY <1>3, <1>4, <2>1, <2>2, FS_CardinalityType
<1>7. /\ Cardinality(D1) \in Nat /\ Cardinality(D2) \in Nat
      /\ Cardinality(Lossy) \in Nat /\ Cardinality(spoiled) \in Nat
  BY <1>3, <1>4, FiniteSets, FS_CardinalityType
<1>8. IsFiniteSet(D) /\ Cardinality(D) \in Nat
  BY <1>3, <1>4, <1>5, FS_Union, FS_CardinalityType
<1> QED
  BY <1>3, <1>4, <1>6, <1>7, <1>8

(* Survives for every cluster: an acknowledged put stays in W places, less *)
(* one for each node that lost its data and one for each spoiled hint.     *)
THEOREM PutsSurvive == Spec => []Survives
<1>1. TypeOK /\ Durable /\ Reached => Survives
  <2> SUFFICES ASSUME TypeOK, Durable, Reached, NEW p \in Put, phase[p] = "ok"
               PROVE  Cardinality(Places(p)) + Cardinality(Lossy) + Cardinality(spoiled) >= W
    BY DEF Survives, Lossy
  <2> DEFINE C == Covered(p)
             D == Covered(p) \ Places(p)
             P == Places(p)
  <2>1. IsFiniteSet(C) /\ IsFiniteSet(D) /\ IsFiniteSet(P) /\ IsFiniteSet(D \cup P)
    <3>1. C \subseteq Replica /\ D \subseteq Replica /\ P \subseteq Replica /\ IsFiniteSet(Replica)
      BY FiniteSets DEF Places
    <3>2. D \cup P \subseteq Replica
      BY <3>1
    <3> HIDE DEF C, D, P
    <3> QED
      BY <3>1, <3>2, FS_Subset
  <2>2. Cardinality(C) >= W
    BY DEF Reached
  <2>3. Cardinality(D) <= Cardinality(Lossy) + Cardinality(spoiled)
    BY LossesAreCounted
  <2>4. C \in SUBSET (D \cup P)
    OBVIOUS
  <2> HIDE DEF C, D
  <2>5. Cardinality(C) <= Cardinality(D \cup P)
    BY <2>1, <2>4, FS_Subset
  <2>6. Cardinality(D \cup P) = Cardinality(D) + Cardinality(P) - Cardinality(D \cap P)
    BY <2>1, FS_Union
  <2>7. /\ Cardinality(C) \in Nat /\ Cardinality(D) \in Nat /\ Cardinality(P) \in Nat
        /\ Cardinality(D \cup P) \in Nat /\ Cardinality(D \cap P) \in Nat
        /\ Cardinality(Lossy) \in Nat /\ Cardinality(spoiled) \in Nat
    <3>1. IsFiniteSet(D \cap P)
      BY <2>1, FS_Intersection
    <3> QED
      BY <2>1, <3>1, FiniteSets, FS_CardinalityType
  <2> QED
    BY <2>2, <2>3, <2>5, <2>6, <2>7, ClusterAssumption
<1> QED
  BY <1>1, InvariantHolds, PTL
=============================================================================
