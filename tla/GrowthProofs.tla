---------------------------- MODULE GrowthProofs ----------------------------
(***************************************************************************)
(* Proofs about Growth: its types, that quorums of coordinators with the   *)
(* old and the new roster meet, and that the new node is filled, for every *)
(* cluster, every N, any hash ring, any vnodes and any order of restarts.  *)
(***************************************************************************)
EXTENDS Growth, FiniteSetTheorems, TLAPS

(* What the leaves need to know of the types without the records.          *)
LEMMA Shapes ==
  /\ NoRing \notin Ring
  /\ \A r \in Ring : /\ r.members \in {Old, Node} /\ r.vnodes \in Vnodes
                    /\ PreferenceList(r) \subseteq r.members
  /\ \A s \in {Old, Node}, v \in Vnodes : [members |-> s, vnodes |-> v] \in Ring
BY GrowthAssumption DEF Ring, PreferenceList

(* Type correctness of the growing cluster.                                *)
THEOREM TypeCorrect == Spec => []TypeOK
<1> USE DEF TypeOK, ringVars, clientVars, handoffVars
<1>1. Init => TypeOK
  <2> SUFFICES ASSUME Init PROVE TypeOK
    OBVIOUS
  <2>1. ring \in [Node -> Ring \cup {NoRing}]
    BY Shapes DEF Init
  <2>2. /\ file \in [Node -> {Old, Node}]
        /\ db \in [Node -> Put \cup {0}]
        /\ route \in [Put -> Ring \cup {NoRing}]
        /\ held \in [Old -> Put \cup {0}]
    BY DEF Init
  <2> QED
    BY <2>1, <2>2 DEF Init
<1>2. TypeOK /\ [Next]_vars => TypeOK'
  <2> SUFFICES ASSUME TypeOK, [Next]_vars PROVE TypeOK'
    OBVIOUS
  <2> DEFINE Asked(p) == IF route[p] = NoRing THEN {} ELSE PreferenceList(route[p])
             DoneOK == \A p \in Put : done[p] \subseteq Asked(p)
  <2>0. UNCHANGED <<rank, route, done>> => DoneOK'
    BY DEF PreferenceList, Nearer
  <2>1. ASSUME NEW n \in Node, Stop(n) PROVE TypeOK'
    <3>1. held' \in [Old -> Put \cup {0}]
      BY <2>1 DEF Stop
    <3>2. ring' \in [Node -> Ring \cup {NoRing}]
      BY <2>1 DEF Stop
    <3> QED
      BY <2>0, <2>1, <3>1, <3>2 DEF Stop
  <2>2. ASSUME NEW n \in Node, Start(n) PROVE TypeOK'
    <3>1. PICK roster \in {Old, Node}, v \in Vnodes :
            /\ file' = [file EXCEPT ![n] = roster]
            /\ ring' = [ring EXCEPT ![n] = [members |-> roster, vnodes |-> v]]
      BY <2>2 DEF Start
    <3>2. [members |-> roster, vnodes |-> v] \in Ring
      BY Shapes
    <3> QED
      BY <2>0, <2>2, <3>1, <3>2 DEF Start
  <2>3. ASSUME NEW n \in Node, HandleEvent(n) PROVE TypeOK'
    BY <2>0, <2>3 DEF HandleEvent
  <2>4. ASSUME NEW n \in Node, Scan(n) PROVE TypeOK'
    <3>1. n \in Old
      BY <2>4 DEF Scan
    <3>2. pushes' \subseteq [from : Old, version : Put]
      <4>1. db[n] # 0 => db[n] \in Put
        OBVIOUS
      <4>2. \/ pushes' = pushes
            \/ db[n] # 0 /\ pushes' = pushes \cup {[from |-> n, version |-> db[n]]}
        BY <2>4 DEF Scan
      <4> QED
        BY <3>1, <4>1, <4>2
    <3> QED
      BY <2>0, <2>4, <3>2 DEF Scan
  <2>5. ASSUME NEW n \in Node, ScanFails(n) PROVE TypeOK'
    BY <2>0, <2>5 DEF ScanFails
  <2>6. ASSUME NEW p \in Put, NEW n \in Node, StartPut(p, n) PROVE TypeOK'
    <3>1. /\ ring[n] \in Ring /\ route' = [route EXCEPT ![p] = ring[n]] /\ done' = done
          /\ route[p] = NoRing /\ UNCHANGED <<ringVars, db, handoffVars, held>>
      BY <2>6 DEF StartPut, Running
    <3>2. \A r : PreferenceList(r)' = PreferenceList(r)
      BY <3>1 DEF PreferenceList, Nearer
    <3>3. done[p] = {}
      BY <3>1
    <3>4. ASSUME NEW q \in Put PROVE done'[q] \subseteq Asked(q)'
      <4>1. CASE q = p
        BY <3>1, <3>3, <4>1
      <4>2. CASE q # p
        BY <3>1, <3>2, <4>2
      <4> QED
        BY <4>1, <4>2
    <3>5. route' \in [Put -> Ring \cup {NoRing}]
      BY <3>1
    <3> QED
      BY <3>1, <3>4, <3>5
  <2>7. ASSUME NEW p \in Put, NEW n \in Node, Write(p, n) PROVE TypeOK'
    <3>1. /\ n \in Asked(p) /\ done' = [done EXCEPT ![p] = @ \cup {n}]
          /\ UNCHANGED <<ringVars, route, handoffVars, held>>
      BY <2>7 DEF Write
    <3>2. \A q \in Put : Asked(q)' = Asked(q)
      BY <3>1 DEF PreferenceList, Nearer
    <3>3. \A q \in Put : done'[q] \subseteq Asked(q)
      BY <3>1
    <3>4. db' \in [Node -> Put \cup {0}]
      BY <2>7 DEF Write, Newer
    <3> QED
      BY <3>1, <3>2, <3>3, <3>4
  <2>8. ASSUME NEW p \in Put, NEW n \in Node, Refresh(n, p) PROVE TypeOK'
    BY <2>0, <2>8 DEF Refresh, Newer
  <2>9. ASSUME NEW push \in pushes, Deliver(push) \/ Lose(push) PROVE TypeOK'
    BY <2>0, <2>9 DEF Deliver, Lose, Newer, Node
  <2>10. CASE UNCHANGED vars
    BY <2>0, <2>10 DEF vars
  <2> QED
    BY <2>1, <2>2, <2>3, <2>4, <2>5, <2>6, <2>7, <2>8, <2>9, <2>10 DEF Next
<1> QED
  BY <1>1, <1>2, PTL DEF Spec

-----------------------------------------------------------------------------
(* The preference lists of the key on the rings of one value of vnodes.    *)
Pref(v, s) == PreferenceList([members |-> s, vnodes |-> v])

(* A preference list has no more than N nodes: each has its own number of  *)
(* nearer ones (CoordinatorRing::preference_list_for_key).                 *)
LEMMA PrefSize ==
  ASSUME rank \in Ranks, NEW v \in Vnodes, NEW s \in {Old, Node}
  PROVE  IsFiniteSet(s) /\ IsFiniteSet(Pref(v, s)) /\ Cardinality(Pref(v, s)) <= N
<1>1. IsFiniteSet(s) /\ N \in Nat \ {0} /\ s \subseteq Node
  BY GrowthAssumption, FS_AddElement, FS_CardinalityType DEF Node
<1>2. /\ rank[v] \in [Node -> Nat]
      /\ \A m, n \in Node : rank[v][m] = rank[v][n] => m = n
  BY GrowthAssumption
<1>3. \A m \in Node : IsFiniteSet(Nearer(v, s, m)) /\ Cardinality(Nearer(v, s, m)) \in Nat
  BY <1>1, FS_Subset, FS_CardinalityType DEF Nearer
<1>4. ASSUME NEW m \in s, NEW n \in s, rank[v][m] < rank[v][n]
      PROVE  Cardinality(Nearer(v, s, m)) < Cardinality(Nearer(v, s, n))
  <2>1. Nearer(v, s, m) \cup {m} \subseteq Nearer(v, s, n) /\ m \notin Nearer(v, s, m)
    BY <1>1, <1>2, <1>4 DEF Nearer
  <2>2. Cardinality(Nearer(v, s, m) \cup {m}) = Cardinality(Nearer(v, s, m)) + 1
    BY <1>1, <1>3, <2>1, FS_AddElement
  <2>3. Cardinality(Nearer(v, s, m) \cup {m}) <= Cardinality(Nearer(v, s, n))
    BY <1>1, <1>3, <2>1, FS_Subset
  <2> QED
    BY <1>1, <1>3, <2>2, <2>3
<1> DEFINE place == [m \in Pref(v, s) |-> Cardinality(Nearer(v, s, m))]
<1>5. Pref(v, s) = {m \in s : Cardinality(Nearer(v, s, m)) < N}
  BY DEF Pref, PreferenceList
<1>6. place \in [Pref(v, s) -> 0 .. N - 1]
  BY <1>1, <1>3, <1>5
<1>7. ASSUME NEW m \in Pref(v, s), NEW n \in Pref(v, s), place[m] = place[n] PROVE m = n
  <2>1. /\ m \in Node /\ n \in Node /\ m \in s /\ n \in s
        /\ Cardinality(Nearer(v, s, m)) = Cardinality(Nearer(v, s, n))
    BY <1>1, <1>5, <1>7
  <2>2. ~ rank[v][m] < rank[v][n] /\ ~ rank[v][n] < rank[v][m]
    BY <1>3, <1>4, <2>1
  <2> QED
    BY <1>2, <2>1, <2>2
<1>8. place \in Injection(Pref(v, s), 0 .. N - 1)
  BY <1>6, <1>7 DEF Injection, IsInjective
<1>9. IsFiniteSet(0 .. N - 1) /\ Cardinality(0 .. N - 1) = N
  BY <1>1, FS_Interval
<1> QED
  BY <1>1, <1>8, <1>9, FS_Injection

(* A growth puts one node into a preference list and takes others out.     *)
LEMMA PrefGrows ==
  ASSUME rank \in Ranks, NEW v \in Vnodes
  PROVE  Pref(v, Node) \subseteq Pref(v, Old) \cup {Joiner}
<1> SUFFICES ASSUME NEW m \in Pref(v, Node), m # Joiner PROVE m \in Pref(v, Old)
  OBVIOUS
<1>1. m \in Old /\ Cardinality(Nearer(v, Node, m)) < N
  BY DEF Pref, PreferenceList, Node
<1>2. Nearer(v, Old, m) \subseteq Nearer(v, Node, m) /\ Nearer(v, Node, m) \subseteq Node
  BY DEF Nearer, Node
<1>3. /\ Cardinality(Nearer(v, Old, m)) <= Cardinality(Nearer(v, Node, m))
      /\ Cardinality(Nearer(v, Old, m)) \in Nat /\ Cardinality(Nearer(v, Node, m)) \in Nat
  BY <1>2, PrefSize, FS_Subset, FS_CardinalityType
<1> QED
  BY <1>1, <1>3, GrowthAssumption, FS_CardinalityType DEF Pref, PreferenceList

(* Two subsets of preference lists of one value of vnodes meet when they   *)
(* have more than N nodes together and the roster is the same, and when    *)
(* they have more than N + 1 anyway.                                       *)
LEMMA Meet ==
  ASSUME rank \in Ranks, NEW v \in Vnodes, NEW s \in {Old, Node}, NEW t \in {Old, Node},
         NEW D, NEW A, D \subseteq Pref(v, s), A \subseteq Pref(v, t),
         Cardinality(D) + Cardinality(A) > (IF t = s THEN N ELSE N + 1)
  PROVE  D \cap A # {}
<1> DEFINE some == Pref(v, Old) \cup {Joiner}
           all == IF t = s THEN Pref(v, s) ELSE some
           size == IF t = s THEN N ELSE N + 1
<1>1. N \in Nat
  BY GrowthAssumption, FS_CardinalityType
<1>2. IsFiniteSet(some) /\ Cardinality(some) <= N + 1
  <2>1. /\ IsFiniteSet(Pref(v, Old)) /\ Cardinality(Pref(v, Old)) <= N
        /\ Cardinality(Pref(v, Old)) \in Nat
    BY PrefSize, FS_CardinalityType
  <2>2. /\ IsFiniteSet(some)
        /\ Cardinality(some) = IF Joiner \in Pref(v, Old) THEN Cardinality(Pref(v, Old))
                               ELSE Cardinality(Pref(v, Old)) + 1
    BY <2>1, FS_AddElement
  <2> HIDE DEF some
  <2> QED
    BY <1>1, <2>1, <2>2
<1>3. IsFiniteSet(all) /\ Cardinality(all) <= size
  <2> HIDE DEF some
  <2> QED
    BY <1>1, <1>2, PrefSize
<1>4. D \subseteq all /\ A \subseteq all
  BY PrefGrows
<1> HIDE DEF all, size
<1>5. /\ IsFiniteSet(D) /\ IsFiniteSet(A) /\ IsFiniteSet(D \cup A)
      /\ Cardinality(D \cup A) <= Cardinality(all)
  BY <1>3, <1>4, FS_Subset
<1>6. Cardinality(D \cup A) = Cardinality(D) + Cardinality(A) - Cardinality(D \cap A)
  BY <1>5, FS_Union
<1>7. /\ Cardinality(D) \in Nat /\ Cardinality(A) \in Nat /\ Cardinality(all) \in Nat
      /\ Cardinality(D \cup A) \in Nat /\ size \in Nat
      /\ Cardinality(D) + Cardinality(A) > size
  BY <1>1, <1>3, <1>5, FS_CardinalityType DEF size
<1>8. D \cap A = {} => Cardinality(D \cap A) = 0
  BY FS_EmptySet
<1> QED
  BY <1>3, <1>5, <1>6, <1>7, <1>8

-----------------------------------------------------------------------------
(* What mixed quorums rest on: a replica keeps what it executed or         *)
(* something newer.                                                        *)
Kept == \A p \in Put : \A n \in done[p] : db[n] >= p
Mixed == TypeOK /\ Kept

(* The replicas of a put are nodes.                                        *)
LEMMA DoneNodes ==
  ASSUME TypeOK, NEW p \in Put
  PROVE  done[p] \subseteq Node
<1>1. route[p] # NoRing => route[p] \in Ring
  BY DEF TypeOK
<1>2. done[p] \subseteq (IF route[p] = NoRing THEN {} ELSE PreferenceList(route[p]))
  BY DEF TypeOK
<1> QED
  BY <1>1, <1>2, Shapes DEF Node

(* Versions stored at a node only get newer.                               *)
LEMMA OnlyNewer ==
  ASSUME TypeOK, [Next]_vars, NEW n \in Node
  PROVE  db[n] \in Nat /\ db'[n] >= db[n]
<1>1. db[n] \in Nat /\ db \in [Node -> Put \cup {0}] /\ Put \cup {0} \subseteq Nat
  <2>1. Put \cup {0} \subseteq Nat /\ db \in [Node -> Put \cup {0}]
    BY GrowthAssumption DEF TypeOK
  <2> QED
    BY <2>1
<1>2. ASSUME NEW m \in Node, NEW v \in Put \cup {0}, db' = [db EXCEPT ![m] = Newer(@, v)]
      PROVE  db'[n] >= db[n]
  BY <1>1, <1>2 DEF Newer
<1>3. ASSUME NEW m \in Node, Stop(m) \/ Start(m) \/ HandleEvent(m) \/ Scan(m) \/ ScanFails(m)
      PROVE  db' = db
  BY <1>3 DEF Stop, Start, HandleEvent, Scan, ScanFails
<1>4. ASSUME NEW p \in Put, NEW m \in Node, StartPut(p, m) \/ Write(p, m) \/ Refresh(m, p)
      PROVE  db'[n] >= db[n]
  BY <1>1, <1>2, <1>4 DEF StartPut, Write, Refresh
<1>5. ASSUME NEW push \in pushes, Deliver(push) \/ Lose(push) PROVE db'[n] >= db[n]
  <2>1. push.version \in Put \cup {0} /\ Joiner \in Node
    BY DEF TypeOK, Node
  <2> QED
    BY <1>1, <1>2, <1>5, <2>1 DEF Deliver, Lose
<1>6. UNCHANGED vars => db' = db
  BY DEF vars
<1> QED
  BY <1>1, <1>3, <1>4, <1>5, <1>6 DEF Next

(* A replica that executed a write has the put's version or a newer one.   *)
LEMMA KeptSteps ==
  ASSUME TypeOK, TypeOK', Kept, [Next]_vars
  PROVE  Kept'
<1>1. \A n \in Node : db[n] \in Nat /\ db'[n] \in Nat /\ db'[n] >= db[n]
  <2>1. Put \cup {0} \subseteq Nat /\ db' \in [Node -> Put \cup {0}]
    BY GrowthAssumption DEF TypeOK
  <2> QED
    BY <2>1, OnlyNewer
<1>2. \A p \in Put : p \in Nat /\ done[p] \subseteq Node
  BY GrowthAssumption, DoneNodes
<1>3. done' = done => Kept'
  BY <1>1, <1>2 DEF Kept
<1>4. ASSUME NEW p \in Put, NEW n \in Node, Write(p, n) PROVE Kept'
  <2>1. db'[n] = Newer(db[n], p)
    BY <1>4 DEF Write, TypeOK
  <2>2. db'[n] >= p
    BY <1>1, <1>2, <2>1 DEF Newer
  <2>3. ASSUME NEW q \in Put, NEW m \in done'[q] PROVE m \in done[q] \/ (q = p /\ m = n)
    BY <1>4 DEF Write
  <2> QED
    BY <1>1, <1>2, <2>2, <2>3 DEF Kept
<1> QED
  BY <1>3, <1>4 DEF Next, vars, Stop, Start, HandleEvent, Scan, ScanFails, StartPut, Refresh, Deliver,
                    Lose, clientVars

LEMMA MixedHolds == Spec => []Mixed
<1>1. Init => Kept
  BY DEF Init, Kept
<1> QED
  BY <1>1, KeptSteps, TypeCorrect, PTL DEF Mixed, Spec

(* Whatever coordinators with the old or the new roster served them, with  *)
(* one value of vnodes between the two, a get that follows a put returns   *)
(* it or a newer one when both reached more nodes than a preference list   *)
(* has, and one more when the rosters differ: for every cluster, every N,  *)
(* whatever vnodes and rosters all others run with, and any order of       *)
(* restarts.                                                               *)
THEOREM MixedQuorumsMeet == Spec => []MixedQuorumFreshness
<1>1. Mixed => MixedQuorumFreshness
  <2> SUFFICES ASSUME Mixed, NEW p \in Put, NEW c \in Node,
                      route[p] # NoRing, Running(c), ring[c].vnodes = route[p].vnodes,
                      NEW A \in SUBSET Preferred(c),
                      Cardinality(done[p]) + Cardinality(A)
                        > (IF ring[c].members = route[p].members THEN N ELSE N + 1),
                      NEW v \in Put \cup {0}, Newest(v, A)
               PROVE  v >= p
    BY DEF MixedQuorumFreshness
  <2>1. ring[c] \in Ring /\ route[p] \in Ring
    BY DEF Mixed, TypeOK, Running
  <2>2. \A r \in Ring : PreferenceList(r) = Pref(r.vnodes, r.members)
    BY DEF Pref, PreferenceList
  <2>3. /\ A \subseteq Pref(route[p].vnodes, ring[c].members)
        /\ done[p] \subseteq Pref(route[p].vnodes, route[p].members)
    BY <2>1, <2>2 DEF Mixed, TypeOK, Preferred
  <2>4. PICK n \in done[p] : n \in A
    BY <2>1, <2>3, Meet, Shapes DEF Mixed, TypeOK
  <2>5. /\ db[n] >= p /\ db[n] <= v
        /\ n \in Node
    BY <2>4, DoneNodes DEF Mixed, Kept, Newest
  <2> QED
    <3>1. Put \cup {0} \subseteq Nat /\ db \in [Node -> Put \cup {0}]
      BY GrowthAssumption DEF Mixed, TypeOK
    <3>2. v \in Nat /\ p \in Nat /\ db[n] \in Nat
      BY <2>5, <3>1
    <3> QED
      BY <2>5, <3>2
<1> QED
  BY <1>1, MixedHolds, PTL

-----------------------------------------------------------------------------
(* With two replicas or more, an old node that is the nearest of the old   *)
(* ones prefers itself in its new ring and sends the key, whatever it      *)
(* thinks of the others.                                                   *)
LEMMA NearestSends ==
  ASSUME TypeOK, N > 1, NEW n \in Old, Running(n), ring[n].members = Node,
         Nearer(ring[n].vnodes, Old, n) = {}
  PROVE  /\ n \in Preferred(n)
         /\ \A online \in SUBSET (Preferred(n) \ {Joiner}) :
              Nearer(ring[n].vnodes, online, n) = {}
<1>1. n \in Node /\ N \in Int
  BY GrowthAssumption DEF Node
<1>2. Nearer(ring[n].vnodes, Node, n) \subseteq {Joiner}
  BY DEF Nearer, Node
<1>3. /\ Cardinality(Nearer(ring[n].vnodes, Node, n)) <= 1
      /\ Cardinality(Nearer(ring[n].vnodes, Node, n)) \in Nat
  <2>1. IsFiniteSet({Joiner}) /\ Cardinality({Joiner}) = 1
    BY FS_Singleton
  <2> QED
    BY <1>2, <2>1, FS_Subset, FS_CardinalityType
<1>4. n \in Preferred(n)
  BY <1>1, <1>3 DEF Preferred, PreferenceList
<1>5. ASSUME NEW online \in SUBSET (Preferred(n) \ {Joiner})
      PROVE  Nearer(ring[n].vnodes, online, n) = {}
  <2>1. online \subseteq Old
    BY DEF Preferred, PreferenceList, Node
  <2> QED
    BY <2>1 DEF Nearer
<1> QED
  BY <1>4, <1>5

(* What a finished scan of such a node has achieved, with the pushes it may *)
(* still have under way; what a node stored when it last stopped it still   *)
(* has; a stopped node has forgotten the event.                             *)
Heads(n) == N > 1 /\ Running(n) /\ ring[n].members = Node /\ Nearer(ring[n].vnodes, Old, n) = {}
Brought(n) == \/ db[Joiner] >= held[n]
              \/ \E push \in pushes : push.from = n /\ push.version >= held[n]
Filled ==
  /\ TypeOK
  /\ \A n \in known \ (scanning \cup failed) : Heads(n) => Brought(n)
  /\ \A n \in Old : held[n] <= db[n]
  /\ \A n \in known : Running(n)

LEMMA FilledSteps ==
  ASSUME Filled, TypeOK', [Next]_vars
  PROVE  Filled'
<1> USE DEF ringVars, clientVars, handoffVars
<1>1. /\ TypeOK /\ Joiner \in Node /\ Joiner \notin Old
      /\ ring \in [Node -> Ring \cup {NoRing}]
      /\ held \in [Old -> Put \cup {0}]
      /\ known \subseteq Old /\ Old \subseteq Node
  BY GrowthAssumption DEF Filled, TypeOK, Node
<1>2. rank' = rank
  BY DEF Next, vars, Stop, Start, HandleEvent, Scan, ScanFails, StartPut, Write, Refresh,
         Deliver, Lose
<1>3. /\ db[Joiner] \in Nat /\ db'[Joiner] \in Nat /\ db'[Joiner] >= db[Joiner]
      /\ \A n \in Old : /\ db[n] \in Nat /\ db'[n] \in Nat /\ db'[n] >= db[n]
                        /\ held[n] \in Nat /\ held[n] <= db[n]
      /\ \A push \in pushes : push.version \in Nat
  <2>1. Put \cup {0} \subseteq Nat /\ db' \in [Node -> Put \cup {0}]
        /\ \A push \in pushes : push.version \in Put
    BY GrowthAssumption DEF Filled, TypeOK
  <2> QED
    BY <1>1, <2>1, OnlyNewer DEF Filled
<1>4. ASSUME NEW n \in Old, ring'[n] = ring[n]
      PROVE  Heads(n)' = Heads(n)
  BY <1>2, <1>4 DEF Heads, Running, Nearer
<1>5. ASSUME NEW n \in Old, Brought(n), held'[n] = held[n],
             \A push \in pushes : push.from = n =>
               push \in pushes' \/ db'[Joiner] >= push.version
      PROVE  Brought(n)'
  <2>1. CASE db[Joiner] >= held[n]
    BY <1>3, <1>5, <2>1 DEF Brought
  <2>2. ASSUME NEW push \in pushes, push.from = n, push.version >= held[n]
        PROVE  Brought(n)'
    BY <1>3, <1>5, <2>2 DEF Brought
  <2> QED
    BY <1>5, <2>1, <2>2 DEF Brought
<1>6. ASSUME held' = held,
             \A n \in known' : Running(n)',
             \A n \in known' \ (scanning' \cup failed') :
               n \in known \ (scanning \cup failed) /\ ring'[n] = ring[n],
             \A push \in pushes : push.from \notin failed' =>
               push \in pushes' \/ db'[Joiner] >= push.version
      PROVE  Filled'
  <2>1. ASSUME NEW n \in known' \ (scanning' \cup failed'), Heads(n)' PROVE Brought(n)'
    <3>1. n \in known \ (scanning \cup failed) /\ n \in Old /\ Heads(n)
      BY <1>1, <1>4, <1>6, <2>1
    <3>2. Brought(n)
      BY <3>1 DEF Filled
    <3> QED
      BY <1>5, <1>6, <2>1, <3>1, <3>2
  <2> QED
    BY <1>3, <1>6, <2>1 DEF Filled
<1>7. ASSUME NEW n \in Node, Stop(n) PROVE Filled'
  <2>1. /\ db' = db /\ pushes' = pushes
        /\ held' = IF n = Joiner THEN held ELSE [held EXCEPT ![n] = db[n]]
        /\ known' = IF n = Joiner THEN {} ELSE known \ {n}
        /\ scanning' = scanning \ {n}
        /\ ring' = [ring EXCEPT ![n] = NoRing]
        /\ failed' = IF n = Joiner THEN {} ELSE failed \ {n}
    BY <1>7 DEF Stop
  <2>2. \A m \in known' : m \in known /\ m # n /\ ring'[m] = ring[m] /\ held'[m] = held[m]
    BY <1>1, <2>1
  <2>3. \A m \in known' : Running(m)'
    BY <2>2 DEF Filled, Running
  <2>4. \A m \in Old : held'[m] <= db'[m]
    BY <1>1, <1>3, <2>1
  <2>5. ASSUME NEW m \in known' \ (scanning' \cup failed'), Heads(m)' PROVE Brought(m)'
    <3>1. m \in known \ (scanning \cup failed) /\ m \in Old
      BY <1>1, <2>1, <2>2
    <3>2. Brought(m)
      BY <1>4, <2>2, <2>5, <3>1 DEF Filled
    <3> QED
      BY <1>5, <2>1, <2>2, <3>1, <3>2
  <2> QED
    BY <2>3, <2>4, <2>5 DEF Filled
<1>8. ASSUME NEW n \in Node, Start(n) PROVE Filled'
  <2>1. /\ UNCHANGED <<db, known, scanning, pushes, failed, held>>
        /\ \E r : ring' = [ring EXCEPT ![n] = r]
        /\ ~Running(n)
    BY <1>8 DEF Start
  <2>2. n \notin known
    BY <2>1 DEF Filled
  <2>3. \A m \in known : ring'[m] = ring[m]
    BY <1>1, <2>1, <2>2
  <2> QED
    BY <1>6, <2>1, <2>3 DEF Filled, Running
<1>9. ASSUME NEW n \in Node, HandleEvent(n) PROVE Filled'
  <2>1. /\ UNCHANGED <<db, ring, pushes, failed, held>> /\ Running(n)
        /\ known' = known \cup {n} /\ scanning' = scanning \cup {n}
    BY <1>9 DEF HandleEvent
  <2> QED
    BY <1>6, <2>1 DEF Filled, Running
<1>10. ASSUME NEW n \in Node, Scan(n) PROVE Filled'
  <2>1. /\ UNCHANGED <<db, ring, known, failed, held>>
        /\ scanning' = scanning \ {n} /\ pushes \subseteq pushes' /\ n \in scanning
    BY <1>10 DEF Scan
  <2>2. \A m \in known' : Running(m)'
    BY <2>1 DEF Filled, Running
  <2>3. ASSUME NEW m \in known' \ (scanning' \cup failed'), Heads(m)' PROVE Brought(m)'
    <3>1. m \in Old /\ Heads(m)
      BY <1>1, <1>4, <2>1, <2>3
    <3>2. CASE m # n
      <4>1. Brought(m)
        BY <2>1, <2>3, <3>1, <3>2 DEF Filled
      <4> QED
        BY <1>5, <2>1, <3>1, <4>1
    <3>3. CASE m = n /\ db[n] = 0
      BY <1>3, <2>1, <3>1, <3>3 DEF Brought
    <3>4. CASE m = n /\ db[n] # 0
      <4>1. /\ n \in Preferred(n)
            /\ \A online \in SUBSET (Preferred(n) \ {Joiner}) :
                 Nearer(ring[n].vnodes, online, n) = {}
        BY <1>1, <3>1, <3>4, NearestSends DEF Heads
      <4>2. [from |-> n, version |-> db[n]] \in pushes'
        BY <1>10, <3>4, <4>1 DEF Scan
      <4> QED
        BY <1>3, <2>1, <3>1, <3>4, <4>2 DEF Brought
    <3> QED
      BY <3>2, <3>3, <3>4
  <2>4. \A m \in Old : held'[m] <= db'[m]
    BY <1>3, <2>1
  <2> QED
    BY <2>2, <2>3, <2>4 DEF Filled
<1>11. ASSUME NEW n \in Node, ScanFails(n) PROVE Filled'
  <2>1. /\ UNCHANGED <<db, ring, known, pushes, held>>
        /\ scanning' = scanning \ {n} /\ failed' = failed \cup {n}
    BY <1>11 DEF ScanFails
  <2> QED
    BY <1>6, <2>1 DEF Filled, Running
<1>12. ASSUME NEW p \in Put, NEW n \in Node, StartPut(p, n) \/ Write(p, n) \/ Refresh(n, p)
       PROVE  Filled'
  BY <1>6, <1>12 DEF StartPut, Write, Refresh, Filled, Running
<1>13. ASSUME NEW push \in pushes, Deliver(push) PROVE Filled'
  <2>1. db'[Joiner] = Newer(db[Joiner], push.version)
    BY <1>1, <1>13 DEF Deliver, TypeOK
  <2>2. db'[Joiner] >= push.version
    BY <1>3, <2>1 DEF Newer
  <2> QED
    BY <1>6, <1>13, <2>2 DEF Deliver, Filled, Running
<1>14. ASSUME NEW push \in pushes, Lose(push) PROVE Filled'
  <2>1. /\ failed' = failed \cup {push.from} /\ pushes' = pushes \ {push}
        /\ UNCHANGED <<ring, known, held, scanning, db>>
    BY <1>14 DEF Lose
  <2> QED
    BY <1>6, <2>1 DEF Filled, Running
<1>15. CASE UNCHANGED vars
  BY <1>6, <1>15 DEF vars, Filled, Running
<1> QED
  BY <1>7, <1>8, <1>9, <1>10, <1>11, <1>12, <1>13, <1>14, <1>15 DEF Next

(* The growth fills the new node with what the nearest of the old nodes    *)
(* brought into its new ring: for every cluster, every N above 1, any hash *)
(* ring, any vnodes of any node, any order of restarts and whatever the    *)
(* nodes think of each other.                                              *)
THEOREM GrowthIsComplete == Spec => []GrowthFills
<1>1. Init /\ TypeOK => Filled
  <2> SUFFICES ASSUME Init, TypeOK PROVE Filled
    OBVIOUS
  <2>1. \A n \in Old : held[n] <= db[n]
    BY DEF Init, Node
  <2> QED
    BY <2>1 DEF Init, Filled
<1>2. Filled => GrowthFills
  BY DEF Filled, GrowthFills, Heads, Brought
<1> QED
  BY <1>1, <1>2, FilledSteps, TypeCorrect, PTL DEF Spec
=============================================================================
