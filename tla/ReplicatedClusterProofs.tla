----------------------- MODULE ReplicatedClusterProofs -----------------------
(***************************************************************************)
(* Proof that ReplicatedStore implements Diynamo, for every number of      *)
(* nodes, requests and worker threads, every N, W and R: the cluster       *)
(* changes as if every write-if-newer, every hint and every answer were    *)
(* one step, and where write-if-newer calls overlap Diynamo says so.  And  *)
(* that every replica in it is a VersionedStore.                           *)
(***************************************************************************)
EXTENDS ReplicatedCluster, ReplicaStores, SloppyQuorumProofs

(* A version that is stored, seen or returned was executed at some replica.*)
Real(v) == v # None => \E m \in Node : rpc[v][m] = "done"

Sourced ==
  /\ \A n \in Node : Real(db[n])
  /\ \A g \in Get : Real(winner[g]) /\ \A n \in Node : Real(seen[g][n])

(* A repair carries a version.                                             *)
Carries == \A g \in Get, n \in Node : rpc[g][n] # "none" => winner[g] # None

(* What a put has executed stays executed.                                 *)
LEMMA DoneStays ==
  ASSUME TypeOK, Control, [Next]_vars, NEW p \in Put, NEW m \in Node, rpc[p][m] = "done"
  PROVE  rpc'[p][m] = "done"
<1>0. p \in Op /\ p \notin Get
  BY OpFacts
<1>1. CASE UNCHANGED rpc
  BY <1>1
<1>2. ASSUME NEW q \in Put, NEW n \in Coordinator, NEW time \in Timestamp, StartPut(q, n, time)
      PROVE  rpc'[p][m] = "done"
  BY <1>0, <1>2 DEF StartPut, Control, WritesStarted, TypeOK
<1>3. ASSUME NEW o \in Op, NEW n \in Node,
             SkipWrite(o, n) \/ CheckNewer(o, n) \/ WriteEntry(o, n) \/ LoseWrite(o, n)
      PROVE  rpc'[p][m] = "done"
  <2>1. rpc[o][n] \in {"sent", "checked"} /\ \E s : rpc' = [rpc EXCEPT ![o][n] = s]
    BY <1>3 DEF SkipWrite, CheckNewer, WriteEntry, LoseWrite
  <2> QED
    BY <1>0, <2>1 DEF TypeOK
<1>4. ASSUME NEW g \in Get, FinishGet(g) PROVE rpc'[p][m] = "done"
  <2>1. rpc' = rpc \/ \E f : rpc' = [rpc EXCEPT ![g] = f]
    BY <1>4 DEF FinishGet
  <2> QED
    BY <1>0, <2>1 DEF TypeOK
<1>5. ASSUME NEW n \in Node, Crash(n) PROVE rpc'[p][m] = "done"
  BY <1>0, <1>5 DEF Crash, Stop, TypeOK
<1> QED
  BY <1>1, <1>2, <1>3, <1>4, <1>5 DEF Next, Step, vars, EndWrites, SendHint, HintFails, FinishPut,
     Timeout, StoreHint, LoseHint, StartGet, ReadReplica, ReadFails, Abandon

(* Versions spread only from where they were executed.                     *)
LEMMA SourcedSteps ==
  ASSUME TypeOK, Control, Sourced, [Next]_vars PROVE Sourced'
<1>1. \A v \in Put \cup {None} : Real(v) => Real(v)'
  BY DoneStays DEF Real
<1>2. /\ \A n \in Node : db[n] \in Put \cup {None}
      /\ \A g \in Get : winner[g] \in Put \cup {None}
                        /\ \A n \in Node : seen[g][n] \in Put \cup {None}
  BY DEF TypeOK
<1>3. ASSUME NEW v \in Put \cup {None}, Real(v)',
             \A n \in Node : db'[n] = db[n] \/ db'[n] = v,
             \A g \in Get : /\ winner'[g] = winner[g] \/ winner'[g] = v
                            /\ \A n \in Node : seen'[g][n] = seen[g][n] \/ seen'[g][n] = v
      PROVE  Sourced'
  <2>1. \A n \in Node : Real(db[n])'
    BY <1>1, <1>2, <1>3 DEF Sourced, Real
  <2>2. \A g \in Get : Real(winner[g])'
    BY <1>1, <1>2, <1>3 DEF Sourced, Real
  <2>3. \A g \in Get, n \in Node : Real(seen[g][n])'
    BY <1>1, <1>2, <1>3 DEF Sourced, Real
  <2> QED
    BY <2>1, <2>2, <2>3 DEF Sourced
<1>4. CASE UNCHANGED <<db, winner, seen>>
  <2>1. None \in Put \cup {None} /\ Real(None)'
    BY DEF Real
  <2> QED
    BY <1>3, <1>4, <2>1
<1>5. ASSUME NEW o \in Op, NEW n \in Node, WriteEntry(o, n) PROVE Sourced'
  <2>1. Version(o) \in Put \cup {None}
    BY <1>2, OpFacts DEF Version
  <2>2. Real(Version(o))'
    <3>1. CASE o \in Put
      <4>1. rpc'[o][n] = "done"
        BY <1>5 DEF WriteEntry, TypeOK
      <4> QED
        BY <3>1, <4>1 DEF Version, Real
    <3>2. CASE o \in Get
      <4>1. Version(o) = winner[o] /\ winner' = winner /\ Real(winner[o])
        BY <1>5, <3>2, OpFacts DEF Version, WriteEntry, readVars, Sourced
      <4>2. Real(winner[o])'
        BY <1>1, <1>2, <3>2, <4>1 DEF Real
      <4> QED
        BY <3>2, <4>1, <4>2, OpFacts DEF Version
    <3> QED
      BY <3>1, <3>2, OpFacts
  <2>3. UNCHANGED <<winner, seen>> /\ \A m \in Node : db'[m] = db[m] \/ db'[m] = Version(o)
    BY <1>5 DEF WriteEntry, readVars, TypeOK
  <2>4. (Version(o))' = Version(o)
    BY <2>3 DEF Version
  <2> QED
    BY <1>3, <2>1, <2>2, <2>3, <2>4
<1>6. ASSUME NEW g \in Get, NEW n \in Node, ReadReplica(g, n) PROVE Sourced'
  <2>1. UNCHANGED <<winner, db>>
    BY <1>6 DEF ReadReplica
  <2>2. \A h \in Get, m \in Node : seen'[h][m] = seen[h][m] \/ seen'[h][m] = db[n]
    BY <1>6 DEF ReadReplica, TypeOK
  <2>3. Real(db[n])'
    BY <1>1, <1>2, <2>1 DEF Sourced, Real
  <2> QED
    BY <1>2, <1>3, <2>1, <2>2, <2>3
<1>7. ASSUME NEW g \in Get, FinishGet(g) PROVE Sourced'
  <2>1. UNCHANGED <<seen, db>>
    BY <1>7 DEF FinishGet
  <2>2. CASE winner' = winner
    BY <1>4, <2>1, <2>2
  <2>3. ASSUME NEW v \in {seen[g][n] : n \in Acked(g)} \cup {None},
               winner' = [winner EXCEPT ![g] = v]
        PROVE  Sourced'
    <3>1. v \in Put \cup {None} /\ Real(v)
      BY <1>2, RingFacts DEF Acked, Sourced, Real
    <3>2. Real(v)'
      BY <1>1, <3>1
    <3>3. \A h \in Get : winner'[h] = winner[h] \/ winner'[h] = v
      BY <2>3 DEF TypeOK
    <3> QED
      BY <1>3, <2>1, <3>1, <3>2, <3>3
  <2> QED
    BY <1>7, <2>2, <2>3 DEF FinishGet
<1> QED
  BY <1>4, <1>5, <1>6, <1>7 DEF Next, Step, vars, readVars, StartPut, EndWrites, SendHint, HintFails,
     FinishPut, Timeout, StoreHint, LoseHint, SkipWrite, CheckNewer, LoseWrite, StartGet,
     ReadFails, Abandon, Crash, Stop

(* Only a get that has found a version sends repairs.                      *)
LEMMA CarriesSteps ==
  ASSUME TypeOK, Control, Carries, [Next]_vars PROVE Carries'
<1> SUFFICES ASSUME NEW g \in Get, NEW n \in Node, rpc'[g][n] # "none" PROVE winner'[g] # None
  BY DEF Carries
<1>0. g \in Op /\ g \notin Put
  BY OpFacts
<1>1. CASE winner'[g] = winner[g] /\ rpc[g][n] # "none"
  BY <1>1 DEF Carries
<1>2. CASE winner' = winner /\ rpc' = rpc
  BY <1>1, <1>2
<1>3. ASSUME NEW p \in Put, NEW m \in Coordinator, NEW time \in Timestamp, StartPut(p, m, time)
      PROVE  winner'[g] # None
  <2>1. rpc'[g] = rpc[g] /\ winner' = winner
    BY <1>0, <1>3 DEF StartPut, readVars, TypeOK
  <2> QED
    BY <1>1, <2>1
<1>4. ASSUME NEW o \in Op, NEW m \in Node,
             SkipWrite(o, m) \/ CheckNewer(o, m) \/ WriteEntry(o, m) \/ LoseWrite(o, m)
      PROVE  winner'[g] # None
  <2>1. /\ rpc[o][m] # "none" /\ winner' = winner
        /\ \E s : rpc' = [rpc EXCEPT ![o][m] = s]
    BY <1>4 DEF SkipWrite, CheckNewer, WriteEntry, LoseWrite, readVars
  <2>2. rpc[g][n] # "none"
    BY <1>0, <2>1 DEF TypeOK
  <2> QED
    BY <1>1, <2>1, <2>2
<1>5. ASSUME NEW f \in Get, FinishGet(f) PROVE winner'[g] # None
  <2>1. CASE winner' = winner /\ rpc' = rpc
    BY <1>2, <2>1
  <2>2. ASSUME NEW v \in {seen[f][m] : m \in Acked(f)} \cup {None},
               winner' = [winner EXCEPT ![f] = v],
               rpc' = [rpc EXCEPT ![f] =
                 [m \in Node |-> IF m \in Acked(f) /\ Age(seen[f][m]) < Age(v)
                                 THEN "sent" ELSE "none"]]
        PROVE  winner'[g] # None
    <3>1. CASE f # g
      BY <1>0, <1>1, <2>2, <3>1 DEF TypeOK
    <3>2. CASE f = g
      <4>1. n \in Acked(g) /\ Age(seen[g][n]) < Age(v) /\ winner'[g] = v
        BY <1>0, <2>2, <3>2 DEF TypeOK
      <4>2. v # None
        <5>1. seen[g][n] \in Put \cup {None}
          BY DEF TypeOK
        <5>2. Age(seen[g][n]) >= -1 /\ Age(seen[g][n]) \in Int
          BY <5>1, AgeType
        <5> QED
          BY <4>1, <5>2 DEF Age
      <4> QED
        BY <4>1, <4>2
    <3> QED
      BY <3>1, <3>2
  <2> QED
    BY <1>5, <2>1, <2>2 DEF FinishGet
<1>6. ASSUME NEW m \in Node, Crash(m) PROVE winner'[g] # None
  <2>1. winner' = winner /\ rpc[g][n] # "none"
    BY <1>0, <1>6 DEF Crash, Stop, readVars, TypeOK
  <2> QED
    BY <1>1, <2>1
<1> QED
  BY <1>2, <1>3, <1>4, <1>5, <1>6 DEF Next, Step, vars, readVars, EndWrites, SendHint, HintFails,
     FinishPut, Timeout, StoreHint, LoseHint, StartGet, ReadReplica, ReadFails, Abandon

-----------------------------------------------------------------------------
(* The refinement: what a step does to the parts of the cluster.           *)

Inv == TypeOK /\ Control /\ Known /\ Order /\ CallsPreferred /\ AllBooks /\ Sourced /\ Carries

(* The timestamps and stored versions that are compared are integers.      *)
LEMMA ComparedAges ==
  ASSUME TypeOK
  PROVE  /\ \A v \in Put \cup {None} : Age(v) \in Int
         /\ \A p \in Put : Age(p) = ts[p] /\ Version(p) = p
         /\ \A g \in Get : Version(g) = winner[g]
         /\ \A n \in Node : db[n] \in Put \cup {None}
         /\ \A c, t \in Node : hints[c][t] \in Put \cup {None}
BY AgeType, OpFacts, OpAssumption DEF Age, Version, TypeOK

(* The module Diynamo brings its own copy of FiniteSets.                   *)
LEMMA SameCardinality == \A S : Cluster!Cardinality(S) = Cardinality(S)
BY DEF Cluster!Cardinality, Cardinality

(* What a put covers is the same in both.                                  *)
LEMMA SameCovered ==
  ASSUME Inv, NEW p \in Put
  PROVE  /\ Cluster!Covered(p) = Covered(p)
         /\ Executed(p) \subseteq Preferred
<1>1. Executed(p) \subseteq Preferred
  BY OpFacts DEF Executed, Inv, CallsPreferred
<1>2. \A t \in Preferred : t \in Node /\ t # None
  BY RingFacts, OpAssumption
<1>3. \A t \in Preferred :
        (\E c \in Node : Hinted(p)[c] = t)
          <=> (\E c \in Node : hintRpc[p][c] = "stored" /\ hintFor[p][c] = t)
  BY <1>2 DEF Hinted
<1>4. Cluster!Covered(p)
        = Executed(p) \cup {t \in Preferred : \E c \in Node : Hinted(p)[c] = t}
  BY DEF Cluster!Covered
<1>5. Covered(p) = Executed(p) \cup {t \in Preferred : \E c \in Node : Hinted(p)[c] = t}
  BY <1>1, <1>2, <1>3 DEF Covered, HintedFor, Executed
<1> QED
  BY <1>1, <1>4, <1>5

(* A step that changes nothing the cluster sees is a stutter.              *)
LEMMA Stutters ==
  ASSUME \A p \in Put : /\ PutPhase(p)' = PutPhase(p)
                        /\ Executed(p)' = Executed(p)
                        /\ Hinted(p)' = Hinted(p),
         UNCHANGED <<ts, db, hints, spoiled, raced>>
  PROVE  UNCHANGED Cluster!vars
BY DEF Cluster!vars, Cluster!putVars

(* What a put's phase, calls and hints become is what the cluster sees.    *)
LEMMA SameParts ==
  ASSUME NEW p \in Put
  PROVE  /\ phase'[p] = phase[p] => PutPhase(p)' = PutPhase(p)
         /\ (\A n \in Node : rpc'[p][n] = "done" <=> rpc[p][n] = "done")
              => Executed(p)' = Executed(p)
         /\ hintFor'[p] = hintFor[p]
              /\ (\A c \in Node : hintRpc'[p][c] = "stored" <=> hintRpc[p][c] = "stored")
              => Hinted(p)' = Hinted(p)
BY DEF PutPhase, Executed, Hinted

(* Steps of which the cluster sees nothing but that calls may overlap.     *)
LEMMA UnseenParts ==
  ASSUME Inv,
         \/ \E p \in Put : EndWrites(p) \/ SendHint(p) \/ HintFails(p)
         \/ \E p \in Put, n \in Node : Timeout(p, n) \/ LoseHint(p, n)
         \/ \E o \in Op, n \in Node : CheckNewer(o, n) \/ LoseWrite(o, n)
         \/ \E g \in Get, n \in Coordinator : StartGet(g, n)
         \/ \E g \in Get, n \in Node : ReadReplica(g, n) \/ ReadFails(g, n) \/ SkipWrite(g, n)
         \/ \E g \in Get : FinishGet(g) \/ Abandon(g)
         \/ UNCHANGED vars
  PROVE  /\ \A p \in Put : /\ PutPhase(p)' = PutPhase(p)
                           /\ Executed(p)' = Executed(p)
                           /\ Hinted(p)' = Hinted(p)
         /\ UNCHANGED <<ts, db, hints, spoiled>>
<1>1. UNCHANGED <<ts, db, hints, spoiled>>
  BY DEF EndWrites, SendHint, HintFails, Timeout, LoseHint, CheckNewer, LoseWrite, StartGet,
     ReadReplica, ReadFails, SkipWrite, FinishGet, Abandon, vars, coordVars, hintVars, readVars
<1>3. ASSUME NEW p \in Put PROVE PutPhase(p)' = PutPhase(p)
  <2>1. CASE phase'[p] = phase[p]
    BY <2>1, SameParts
  <2>2. ASSUME NEW q \in Put, EndWrites(q) \/ SendHint(q) \/ HintFails(q)
        PROVE  PutPhase(p)' = PutPhase(p)
    <3>1. phase'[p] = phase[p] \/ (phase[p] \in {"writing", "hinting", "hintSent"}
                                     /\ phase'[p] \in {"hinting", "hintSent"})
      BY <2>2, OpFacts DEF EndWrites, SendHint, HintFails, Inv, TypeOK
    <3> QED
      BY <3>1 DEF PutPhase
  <2>3. ASSUME NEW g \in Get, \/ FinishGet(g) \/ Abandon(g)
                              \/ \E n \in Coordinator : StartGet(g, n)
        PROVE  PutPhase(p)' = PutPhase(p)
    <3>1. \E s : phase' = [phase EXCEPT ![g] = s]
      BY <2>3 DEF FinishGet, Abandon, StartGet
    <3>2. phase'[p] = phase[p]
      BY <3>1, OpFacts DEF Inv, TypeOK
    <3> QED
      BY <3>2, SameParts
  <2>4. CASE UNCHANGED phase
    BY <2>1, <2>4
  <2> QED
    BY <2>2, <2>3, <2>4 DEF Timeout, LoseHint, CheckNewer, LoseWrite, ReadReplica, ReadFails,
       SkipWrite, vars, coordVars
<1>4. ASSUME NEW p \in Put PROVE Executed(p)' = Executed(p)
  <2>1. p \in Op /\ p \notin Get
    BY OpFacts
  <2>2. \A n \in Node : rpc'[p][n] = "done" <=> rpc[p][n] = "done"
    <3>1. CASE UNCHANGED rpc
      BY <3>1
    <3>2. ASSUME NEW o \in Op, NEW n \in Node, CheckNewer(o, n) \/ LoseWrite(o, n)
          PROVE  \A m \in Node : rpc'[p][m] = "done" <=> rpc[p][m] = "done"
      <4>1. rpc[o][n] # "done" /\ \E s \in {"checked", "lost"} : rpc' = [rpc EXCEPT ![o][n] = s]
        BY <3>2 DEF CheckNewer, LoseWrite
      <4> QED
        BY <2>1, <4>1 DEF Inv, TypeOK
    <3>3. ASSUME NEW g \in Get, FinishGet(g) \/ \E n \in Node : SkipWrite(g, n)
          PROVE  rpc'[p] = rpc[p]
      <4>1. rpc' = rpc \/ (\E f : rpc' = [rpc EXCEPT ![g] = f])
              \/ (\E n \in Node : rpc' = [rpc EXCEPT ![g][n] = "done"])
        BY <3>3 DEF FinishGet, SkipWrite
      <4> QED
        BY <2>1, <4>1 DEF Inv, TypeOK
    <3> QED
      BY <3>1, <3>2, <3>3 DEF EndWrites, SendHint, HintFails, Timeout, LoseHint, StartGet,
         ReadReplica, ReadFails, Abandon, vars
  <2> QED
    BY <2>2, SameParts
<1>5. ASSUME NEW p \in Put PROVE Hinted(p)' = Hinted(p)
  <2>1. CASE UNCHANGED <<hintRpc, hintFor>>
    BY <2>1, SameParts
  <2>2. ASSUME NEW q \in Put, NEW n \in Node, LoseHint(q, n) PROVE Hinted(p)' = Hinted(p)
    <3>1. \A c \in Node : hintRpc'[p][c] = "stored" <=> hintRpc[p][c] = "stored"
      BY <2>2 DEF LoseHint, Inv, TypeOK
    <3>2. hintFor' = hintFor
      BY <2>2 DEF LoseHint
    <3> QED
      BY <3>1, <3>2, SameParts
  <2>3. ASSUME NEW q \in Put, SendHint(q) PROVE Hinted(p)' = Hinted(p)
    <3> DEFINE c == Ring[cursor[q]]
    <3>1. c \in Node /\ hintRpc[q][c] = "none"
      <4>1. cursor[q] \in 1 .. Cardinality(Node) /\ c \in Node
        BY <2>3, RingFacts DEF SendHint, Candidates
      <4> QED
        BY <4>1 DEF Inv, AllBooks, Books, CursorOf
    <3>2. \E t : /\ hintFor' = [hintFor EXCEPT ![q][c] = t]
                 /\ hintRpc' = [hintRpc EXCEPT ![q][c] = "sent"]
      BY <2>3 DEF SendHint
    <3>3. \A d \in Node : \/ hintRpc'[p][d] = hintRpc[p][d] /\ hintFor'[p][d] = hintFor[p][d]
                          \/ hintRpc[p][d] = "none" /\ hintRpc'[p][d] = "sent"
      <4>1. /\ hintRpc \in [Put -> [Node -> {"none", "sent", "stored", "lost"}]]
            /\ hintFor \in [Put -> [Node -> Preferred \cup {None}]]
        BY DEF Inv, TypeOK
      <4> QED
        BY <3>1, <3>2, <4>1
    <3> QED
      BY <3>3 DEF Hinted
  <2> QED
    BY <2>1, <2>2, <2>3 DEF EndWrites, HintFails, Timeout, CheckNewer, LoseWrite, StartGet,
       ReadReplica, ReadFails, SkipWrite, FinishGet, Abandon, vars, hintVars
<1> QED
  BY <1>1, <1>3, <1>4, <1>5

(* Steps that the cluster does not see.                                    *)
LEMMA UnseenSteps ==
  ASSUME Inv,
         \/ \E p \in Put : EndWrites(p) \/ SendHint(p) \/ HintFails(p)
         \/ \E p \in Put, n \in Node : Timeout(p, n) \/ LoseHint(p, n)
         \/ \E o \in Op, n \in Node : LoseWrite(o, n)
         \/ \E g \in Get, n \in Coordinator : StartGet(g, n)
         \/ \E g \in Get, n \in Node : ReadReplica(g, n) \/ ReadFails(g, n) \/ SkipWrite(g, n)
         \/ \E g \in Get : FinishGet(g) \/ Abandon(g)
         \/ UNCHANGED vars
  PROVE  UNCHANGED Cluster!vars
<1>1. UNCHANGED raced
  BY DEF EndWrites, SendHint, HintFails, Timeout, LoseHint, LoseWrite, StartGet, ReadReplica,
     ReadFails, SkipWrite, FinishGet, Abandon, vars
<1>2. /\ \A p \in Put : /\ PutPhase(p)' = PutPhase(p)
                       /\ Executed(p)' = Executed(p)
                       /\ Hinted(p)' = Hinted(p)
      /\ UNCHANGED <<ts, db, hints, spoiled>>
  BY UnseenParts
<1> QED
  BY <1>1, <1>2, Stutters

(* A replica finds a call newer than its version: the cluster sees it only *)
(* where it overlaps another call for the first time.                      *)
LEMMA CheckStep ==
  ASSUME Inv, NEW o \in Op, NEW n \in Node, CheckNewer(o, n)
  PROVE  Cluster!Overlap(n) \/ UNCHANGED Cluster!vars
<1>1. /\ \A p \in Put : /\ PutPhase(p)' = PutPhase(p)
                       /\ Executed(p)' = Executed(p)
                       /\ Hinted(p)' = Hinted(p)
      /\ UNCHANGED <<ts, db, hints, spoiled>>
  BY UnseenParts
<1>2. n \in Preferred
  BY DEF CheckNewer, Inv, CallsPreferred
<1>3. CASE raced' = raced
  BY <1>1, <1>3, Stutters
<1>4. CASE raced' # raced
  <2>1. n \notin raced /\ raced' = raced \cup {n}
    BY <1>4 DEF CheckNewer
  <2> QED
    BY <1>1, <1>2, <2>1 DEF Cluster!Overlap, Cluster!putVars
<1> QED
  BY <1>3, <1>4

(* A put begins.                                                           *)
LEMMA StartStep ==
  ASSUME Inv, NEW p \in Put, NEW n \in Coordinator, NEW time \in Timestamp, StartPut(p, n, time)
  PROVE  Cluster!Start(p, time)
<1>1. UNCHANGED <<db, hints, spoiled, hintRpc, hintFor, raced>> /\ ts' = [ts EXCEPT ![p] = time]
  BY DEF StartPut, hintVars, Inv
<1>2. \A q \in Put : q # p => phase'[q] = phase[q] /\ rpc'[q] = rpc[q]
  BY OpFacts DEF StartPut, Inv, TypeOK
<1>3. /\ phase[p] = "idle" /\ phase'[p] = "writing"
      /\ \A m \in Node : rpc[p][m] # "done" /\ rpc'[p][m] # "done"
  BY OpFacts DEF StartPut, Inv, TypeOK, Control, WritesStarted
<1>4. \A q \in Put : Executed(q)' = Executed(q) /\ Hinted(q)' = Hinted(q)
  BY <1>1, <1>2, <1>3, SameParts
<1>5. \A q \in Put : PutPhase(q)' = IF q = p THEN "open" ELSE PutPhase(q)
  BY <1>2, <1>3, SameParts DEF PutPhase
<1>6. PutPhase(p) = "idle"
  BY <1>3 DEF PutPhase
<1> QED
  BY <1>1, <1>4, <1>5, <1>6 DEF Cluster!Start

(* A put ends, and the client is told or has gone.                         *)
LEMMA AnswerStep ==
  ASSUME Inv, NEW p \in Put, FinishPut(p) \/ Abandon(p)
  PROVE  Cluster!Answer(p)
<1>1. UNCHANGED <<ts, db, hints, spoiled, hintRpc, hintFor, rpc, raced>>
  BY DEF FinishPut, Abandon, hintVars, Inv
<1>2. \A q \in Put : q # p => phase'[q] = phase[q]
  BY OpFacts DEF FinishPut, Abandon, Inv, TypeOK
<1>3. \A q \in Put : Executed(q)' = Executed(q) /\ Hinted(q)' = Hinted(q)
  BY <1>1, SameParts
<1>4. PutPhase(p) = "open"
  <2>1. phase[p] \in {"writing", "hinting", "hintSent", "reading"}
    BY DEF FinishPut, Abandon, Running
  <2> QED
    BY <2>1 DEF PutPhase
<1>5. \/ PutPhase(p)' = "failed"
      \/ PutPhase(p)' = "ok" /\ acks[p] >= W
  <2>1. \/ phase'[p] \in {"failed", "abandoned"}
        \/ phase'[p] = "ok" /\ acks[p] >= W
    BY OpFacts DEF FinishPut, Abandon, Inv, TypeOK
  <2> QED
    BY <2>1 DEF PutPhase
<1>6. acks[p] >= W => Cardinality(Cluster!Covered(p)) >= W
  <2>1. acks[p] <= Cardinality(Covered(p)) /\ Cluster!Covered(p) = Covered(p)
    BY BooksCover, SameCovered DEF Inv, AcksAreCovered
  <2>2. acks[p] \in Nat /\ W \in Nat /\ Cardinality(Covered(p)) \in Nat
    <3>1. Covered(p) \in SUBSET Preferred
      BY DEF Covered, HintedFor
    <3> QED
      BY <3>1, CreditedFacts, OpAssumption DEF Inv, TypeOK
  <2> QED
    BY <2>1, <2>2
<1>7. \A q \in Put : q # p => PutPhase(q)' = PutPhase(q)
  BY <1>2, SameParts
<1>8. \A s : PutPhase(p)' = s
        => [q \in Put |-> PutPhase(q)'] = [[q \in Put |-> PutPhase(q)] EXCEPT ![p] = s]
  BY <1>7
<1>9. /\ [q \in Put |-> PutPhase(q)][p] = "open"
      /\ [q \in Put |-> Executed(q)'] = [q \in Put |-> Executed(q)]
      /\ [q \in Put |-> Hinted(q)'] = [q \in Put |-> Hinted(q)]
  BY <1>3, <1>4
<1>10. CASE PutPhase(p)' = "failed"
  BY <1>1, <1>8, <1>9, <1>10 DEF Cluster!Answer
<1>11. CASE PutPhase(p)' = "ok" /\ acks[p] >= W
  <2>1. Cluster!Cardinality(Cluster!Covered(p)) >= W
    BY <1>6, <1>11, SameCardinality
  <2>2. [q \in Put |-> PutPhase(q)'] = [[q \in Put |-> PutPhase(q)] EXCEPT ![p] = "ok"]
    BY <1>8, <1>11
  <2> QED
    BY <1>1, <1>9, <2>1, <2>2 DEF Cluster!Answer
<1> QED
  BY <1>5, <1>10, <1>11

(* A candidate stores a hint.                                              *)
LEMMA HintStep ==
  ASSUME Inv, NEW p \in Put, NEW c \in Node, StoreHint(p, c)
  PROVE  Cluster!StoreHint(p, c, hintFor[p][c])
<1> DEFINE t == hintFor[p][c]
<1>1. /\ hintRpc[p][c] = "sent" /\ UNCHANGED <<ts, db, rpc, hintFor, raced>>
      /\ hintRpc' = [hintRpc EXCEPT ![p][c] = "stored"]
      /\ hints' = [hints EXCEPT ![c][t] = p]
  BY DEF StoreHint
<1>2. t \in Preferred /\ t \in Node /\ c \notin Preferred /\ phase[p] \notin {"idle", "writing"}
  <2>1. t \in Preferred /\ phase[p] \notin {"idle", "writing"}
    BY <1>1 DEF Inv, AllBooks, Books, CursorOf, SlotsOf
  <2>2. ASSUME NEW i \in 1 .. N, c = Ring[i] PROVE FALSE
    <3>1. i \in 1 .. Cardinality(Node) /\ ~(i > N)
      BY RingFacts
    <3>2. hintRpc[p][Ring[i]] = "none"
      BY <3>1 DEF Inv, AllBooks, Books, CursorOf
    <3> QED
      BY <1>1, <2>2, <3>2
  <2> QED
    BY <2>1, <2>2, RingFacts DEF Preferred
<1>3. /\ PutPhase(p) # "idle"
      /\ \A q \in Put : PutPhase(q)' = PutPhase(q)
  <2>1. \A q \in Put : \/ phase'[q] = phase[q]
                       \/ phase[q] = "hintSent" /\ phase'[q] = "hinting"
    BY OpFacts DEF StoreHint, Inv, TypeOK
  <2>2. PutPhase(p) # "idle"
    BY <1>2 DEF PutPhase
  <2> QED
    BY <2>1, <2>2, SameParts DEF PutPhase
<1>4. \A q \in Put : Executed(q)' = Executed(q)
  BY <1>1, SameParts
<1>5. /\ Hinted(p)[c] = None
      /\ \A q \in Put : Hinted(q)' = IF q = p THEN [Hinted(p) EXCEPT ![c] = t] ELSE Hinted(q)
  <2>1. Hinted(p)[c] = None
    BY <1>1 DEF Hinted
  <2>2. \A q \in Put : q # p => Hinted(q)' = Hinted(q)
    BY <1>1 DEF Hinted, Inv, TypeOK
  <2>3. Hinted(p)' = [Hinted(p) EXCEPT ![c] = t]
    <3>1. \A d \in Node : Hinted(p)'[d] = IF d = c THEN t ELSE Hinted(p)[d]
      BY <1>1 DEF Hinted, Inv, TypeOK
    <3> QED
      BY <3>1 DEF Hinted
  <2> QED
    BY <2>1, <2>2, <2>3
<1>6. spoiled' = IF Cluster!Age(hints[c][t]) > ts[p] THEN spoiled \cup {<<c, t>>} ELSE spoiled
  BY DEF StoreHint, Cluster!Age, Age
<1> QED
  BY <1>1, <1>2, <1>3, <1>4, <1>5, <1>6 DEF Cluster!StoreHint

(* A replica executes a put's write-if-newer.                              *)
LEMMA WriteStep ==
  ASSUME Inv, NEW p \in Put, NEW n \in Node, SkipWrite(p, n) \/ WriteEntry(p, n)
  PROVE  Cluster!Write(p, n)
<1>1. /\ UNCHANGED <<phase, ts, hints, hintRpc, hintFor, spoiled, raced>>
      /\ rpc[p][n] \in {"sent", "checked"}
      /\ rpc' = [rpc EXCEPT ![p][n] = "done"]
  BY DEF SkipWrite, WriteEntry, hintVars, Inv
<1>2. n \in Preferred /\ n \notin Executed(p) /\ p \in Op
  BY <1>1, OpFacts DEF Inv, CallsPreferred, Executed
<1>3. phase[p] # "idle" /\ PutPhase(p) # "idle"
  <2>1. phase[p] # "idle"
    BY <1>1 DEF Inv, Control, WritesStarted
  <2> QED
    BY <2>1 DEF PutPhase
<1>4. \A q \in Put : PutPhase(q)' = PutPhase(q) /\ Hinted(q)' = Hinted(q)
  BY <1>1, SameParts
<1>5. \A q \in Put : Executed(q)' = IF q = p THEN Executed(p) \cup {n} ELSE Executed(q)
  <2>1. \A q \in Put, m \in Node : rpc'[q][m] = IF q = p /\ m = n THEN "done" ELSE rpc[q][m]
    BY <1>1, OpFacts DEF Inv, TypeOK
  <2> QED
    BY <2>1 DEF Executed
<1>6. \E u \in Cluster!Kept(n, p) : db' = [db EXCEPT ![n] = u]
  <2>1. Age(p) \in Int /\ Age(db[n]) \in Int /\ Version(p) = p
    BY ComparedAges DEF Inv
  <2>2. CASE SkipWrite(p, n)
    <3>1. Age(db[n]) >= Age(p) /\ db' = [db EXCEPT ![n] = db[n]]
      BY <2>1, <2>2 DEF SkipWrite, Inv, TypeOK
    <3>2. db[n] \in Cluster!Kept(n, p)
      BY <2>1, <3>1 DEF Cluster!Kept, Cluster!Age, Age
    <3> QED
      BY <3>1, <3>2
  <2>3. CASE WriteEntry(p, n)
    <3>1. db' = [db EXCEPT ![n] = p] /\ (n \notin raced => Age(db[n]) <= Age(p))
      BY <1>2, <2>1, <2>3 DEF WriteEntry, Inv, Order, OrderAt, Open
    <3>2. p \in Cluster!Kept(n, p)
      BY <2>1, <3>1 DEF Cluster!Kept, Cluster!Age, Age
    <3> QED
      BY <3>1, <3>2
  <2> QED
    BY <2>2, <2>3
<1> QED
  BY <1>1, <1>2, <1>3, <1>4, <1>5, <1>6 DEF Cluster!Write

(* A replica executes a get's repair.                                      *)
LEMMA RepairStep ==
  ASSUME Inv, NEW g \in Get, NEW n \in Node, WriteEntry(g, n)
  PROVE  winner[g] \in Put /\ Cluster!Refresh(n, winner[g])
<1>1. /\ UNCHANGED <<phase, ts, hints, hintRpc, hintFor, spoiled, raced>>
      /\ rpc[g][n] = "checked"
      /\ rpc' = [rpc EXCEPT ![g][n] = "done"]
      /\ db' = [db EXCEPT ![n] = winner[g]]
  BY ComparedAges DEF WriteEntry, hintVars, Inv
<1>2. n \in Preferred /\ g \in Op
  BY <1>1, OpFacts DEF Inv, CallsPreferred
<1>3. /\ n \notin raced => Age(db[n]) <= Age(winner[g])
      /\ Age(db[n]) \in Int /\ Age(winner[g]) \in Int
  <2>1. n \notin raced => Age(db[n]) <= Age(winner[g])
    BY <1>1, <1>2, ComparedAges DEF Inv, Order, OrderAt, Open
  <2> QED
    BY <2>1, AgeType DEF Inv, TypeOK
<1>4. winner[g] # None /\ winner[g] \in Put
  BY <1>1 DEF Inv, Carries, TypeOK
<1>5. Cluster!Covered(winner[g]) # {}
  <2>1. PICK m \in Node : rpc[winner[g]][m] = "done"
    BY <1>4 DEF Inv, Sourced, Real
  <2>2. m \in Executed(winner[g])
    BY <2>1 DEF Executed
  <2> QED
    BY <1>4, <2>2 DEF Cluster!Covered
<1>6. winner[g] \in Cluster!Kept(n, winner[g])
  BY <1>3 DEF Cluster!Kept, Cluster!Age, Age
<1>7. \A q \in Put : /\ PutPhase(q)' = PutPhase(q)
                     /\ Hinted(q)' = Hinted(q)
                     /\ Executed(q)' = Executed(q)
  <2>1. \A q \in Put : rpc'[q] = rpc[q]
    BY <1>1, OpFacts DEF Inv, TypeOK
  <2> QED
    BY <1>1, <2>1, SameParts
<1> QED
  BY <1>1, <1>2, <1>4, <1>5, <1>6, <1>7 DEF Cluster!Refresh, Cluster!putVars

(* A process stops: the puts it coordinated are answered by nobody.        *)
LEMMA CrashStep ==
  ASSUME Inv, NEW n \in Node, Crash(n)
  PROVE  Cluster!Restart(n, FALSE)
<1>1. UNCHANGED <<ts, db, hints, hintRpc, hintFor, spoiled, raced>>
  BY DEF Crash, Stop, Inv
<1>2. \A q \in Put : Executed(q)' = Executed(q) /\ Hinted(q)' = Hinted(q)
  <2>1. \A q \in Put, m \in Node : rpc'[q][m] = "done" <=> rpc[q][m] = "done"
    BY OpFacts DEF Crash, Stop, Inv, TypeOK
  <2> QED
    BY <1>1, <2>1, SameParts
<1> DEFINE lost == {p \in Put : Running(p) /\ coord[p] = n}
<1>3. \A q \in Put : PutPhase(q)' = IF q \in lost THEN "failed" ELSE PutPhase(q)
  <2>1. \A q \in Put : phase'[q] = IF q \in lost THEN "abandoned" ELSE phase[q]
    BY OpFacts DEF Crash, Stop
  <2> QED
    BY <2>1 DEF PutPhase
<1>4. lost \in SUBSET {p \in Put : [q \in Put |-> PutPhase(q)][p] = "open"}
  BY DEF PutPhase, Running
<1> HIDE DEF lost
<1>5. [q \in Put |-> PutPhase(q)'] = [p \in Put |-> IF p \in lost THEN "failed" ELSE PutPhase(p)]
  BY <1>3
<1> QED
  BY <1>1, <1>2, <1>4, <1>5 DEF Cluster!Restart

-----------------------------------------------------------------------------
(* The invariants of ReplicatedStore the refinement needs.                 *)
LEMMA InvHolds == Spec => []Inv
<1>1. Init => Sourced /\ Carries
  BY OpFacts DEF Init, Sourced, Real, Carries
<1>2. TypeOK /\ Control /\ Sourced /\ Carries /\ [Next]_vars => Sourced' /\ Carries'
  BY SourcedSteps, CarriesSteps
<1>3. Spec => [](TypeOK /\ Control /\ Known /\ Order)
  BY InvariantHolds, PTL
<1>4. Spec => [](CallsPreferred /\ AllBooks)
  BY BooksHold, PTL
<1> QED
  BY <1>1, <1>2, <1>3, <1>4, PTL DEF Spec, Inv

(* For every number of worker threads, every behaviour of the coordinator  *)
(* and its handlers is one of the abstract cluster.                        *)
THEOREM StoreImplementsCluster == Spec => ImplementsCluster
<1>1. Init => Cluster!Init
  <2> SUFFICES ASSUME Init PROVE Cluster!Init
    OBVIOUS
  <2>1. /\ ts = [p \in Put |-> -1] /\ db = [n \in Node |-> None] /\ spoiled = {} /\ raced = {}
        /\ hints = [h \in Node |-> [t \in Node |-> None]]
    BY DEF Init
  <2>2. \A p \in Put : PutPhase(p) = "idle" /\ Executed(p) = {} /\ Hinted(p) = [h \in Node |-> None]
    BY OpFacts DEF Init, PutPhase, Executed, Hinted
  <2> QED
    BY <2>1, <2>2 DEF Cluster!Init
<1>2. Inv /\ [Next]_vars => [Cluster!Next]_(Cluster!vars)
  <2> SUFFICES ASSUME Inv, [Next]_vars PROVE Cluster!Next \/ UNCHANGED Cluster!vars
    OBVIOUS
  <2>1. CASE UNCHANGED vars
    BY <2>1, UnseenSteps
  <2>2. CASE Next
    <3>1. ASSUME NEW p \in Put, NEW n \in Coordinator, NEW time \in Timestamp, StartPut(p, n, time)
          PROVE  Cluster!Next
      BY <3>1, StartStep DEF Cluster!Next
    <3>2. ASSUME NEW p \in Put, FinishPut(p) \/ Abandon(p) PROVE Cluster!Next
      BY <3>2, AnswerStep DEF Cluster!Next
    <3>3. ASSUME NEW p \in Put, NEW c \in Node, StoreHint(p, c) PROVE Cluster!Next
      <4>1. hintFor[p][c] \in Node
        BY <3>3, RingFacts DEF StoreHint, Inv, AllBooks, Books, CursorOf
      <4> QED
        BY <3>3, <4>1, HintStep DEF Cluster!Next
    <3>4. ASSUME NEW p \in Put, NEW n \in Node, SkipWrite(p, n) \/ WriteEntry(p, n)
          PROVE  Cluster!Next
      BY <3>4, WriteStep DEF Cluster!Next
    <3>5. ASSUME NEW g \in Get, NEW n \in Node, WriteEntry(g, n) PROVE Cluster!Next
      BY <3>5, RepairStep DEF Cluster!Next
    <3>6. ASSUME NEW n \in Node, Crash(n) PROVE Cluster!Next
      BY <3>6, CrashStep DEF Cluster!Next
    <3>7. ASSUME
             \/ \E p \in Put : EndWrites(p) \/ SendHint(p) \/ HintFails(p)
             \/ \E p \in Put, n \in Node : Timeout(p, n) \/ LoseHint(p, n)
             \/ \E o \in Op, n \in Node : LoseWrite(o, n)
             \/ \E g \in Get, n \in Coordinator : StartGet(g, n)
             \/ \E g \in Get, n \in Node : ReadReplica(g, n) \/ ReadFails(g, n) \/ SkipWrite(g, n)
             \/ \E g \in Get : FinishGet(g) \/ Abandon(g)
          PROVE  UNCHANGED Cluster!vars
      BY <3>7, UnseenSteps
    <3>8. ASSUME NEW o \in Op, NEW n \in Node, CheckNewer(o, n)
          PROVE  Cluster!Next \/ UNCHANGED Cluster!vars
      BY <3>8, CheckStep DEF Cluster!Next
    <3> QED
      BY <2>2, <3>1, <3>2, <3>3, <3>4, <3>5, <3>6, <3>7, <3>8, OpFacts DEF Next, Step
  <2> QED
    BY <2>1, <2>2
<1>3. Spec => []Inv
  BY InvHolds
<1> QED
  BY <1>1, <1>2, <1>3, PTL DEF Spec, ImplementsCluster, Cluster!Spec

-----------------------------------------------------------------------------
(* What Diynamo promises, with its proofs, for the same mapping.           *)
Promised == INSTANCE DiynamoProofs WITH
  Replica <- Preferred,
  MaxWiped <- 0,
  phase <- [p \in Put |-> PutPhase(p)],
  done <- [p \in Put |-> Executed(p)],
  hinted <- [p \in Put |-> Hinted(p)],
  answered <- {},
  wiped <- {}

(* Both instances of Diynamo are one: the same initial states and steps.   *)
LEMMA SameCluster ==
  /\ Cluster!Init => Promised!Init
  /\ [Cluster!Next]_(Cluster!vars) => [Promised!Next]_(Promised!vars)
<1> USE DEF Cluster!putVars, Promised!putVars, Cluster!Age, Promised!Age,
            Cluster!Covered, Promised!Covered, Cluster!Kept, Promised!Kept
<1>1. Cluster!Init => Promised!Init
  BY DEF Cluster!Init, Promised!Init
<1>2. UNCHANGED Cluster!vars => UNCHANGED Promised!vars
  BY DEF Cluster!vars, Promised!vars
<1>3. \A p \in Put, time \in Timestamp : Cluster!Start(p, time) => Promised!Start(p, time)
  BY DEF Cluster!Start, Promised!Start
<1>4. /\ \A p \in Put, n \in Node : Cluster!Write(p, n) => Promised!Write(p, n)
      /\ \A p \in Put, n \in Node : Cluster!Refresh(n, p) => Promised!Refresh(n, p)
  BY DEF Cluster!Write, Promised!Write, Cluster!Refresh, Promised!Refresh
<1>5. \A p \in Put, h, t \in Node : Cluster!StoreHint(p, h, t) => Promised!StoreHint(p, h, t)
  BY DEF Cluster!StoreHint, Promised!StoreHint
<1>6. \A p \in Put, h, t \in Node : Cluster!Deliver(h, t, p) => Promised!Deliver(h, t, p)
  BY DEF Cluster!Deliver, Promised!Deliver, Cluster!Delivery, Promised!Delivery
<1>7. \A p \in Put : Cluster!Answer(p) => Promised!Answer(p)
  BY DEF Cluster!Answer, Promised!Answer, Cluster!Cardinality, Promised!Cardinality
<1>8. \A n \in Node : Cluster!Overlap(n) => Promised!Overlap(n)
  BY DEF Cluster!Overlap, Promised!Overlap
<1>9. \A n \in Node, wipe \in BOOLEAN : Cluster!Restart(n, wipe) => Promised!Restart(n, wipe)
  BY DEF Cluster!Restart, Promised!Restart, Cluster!Cardinality, Promised!Cardinality
<1>10. Cluster!Next => Promised!Next
  <2> SUFFICES ASSUME Cluster!Next PROVE Promised!Next
    OBVIOUS
  <2>1. ASSUME NEW p \in Put, NEW time \in Timestamp, Cluster!Start(p, time) PROVE Promised!Next
    BY <1>3, <2>1 DEF Promised!Next
  <2>2. ASSUME NEW p \in Put, NEW n \in Node, Cluster!Write(p, n) \/ Cluster!Refresh(n, p)
        PROVE  Promised!Next
    <3>1. Promised!Write(p, n) \/ Promised!Refresh(n, p)
      BY <1>4, <2>2
    <3>2. \E q \in Put, m \in Node : Promised!Write(q, m) \/ Promised!Refresh(m, q)
      BY <3>1
    <3> QED
      BY <3>2 DEF Promised!Next
  <2>3. ASSUME NEW p \in Put, NEW h \in Node, NEW t \in Node,
               Cluster!StoreHint(p, h, t) \/ Cluster!Deliver(h, t, p)
        PROVE  Promised!Next
    <3>1. Promised!StoreHint(p, h, t) \/ Promised!Deliver(h, t, p)
      BY <1>5, <1>6, <2>3
    <3>2. \E q \in Put, g, u \in Node : Promised!StoreHint(q, g, u) \/ Promised!Deliver(g, u, q)
      BY <3>1
    <3> QED
      BY <3>2 DEF Promised!Next
  <2>4. ASSUME NEW p \in Put, Cluster!Answer(p) PROVE Promised!Next
    BY <1>7, <2>4 DEF Promised!Next
  <2>5. ASSUME NEW n \in Node, Cluster!Overlap(n) PROVE Promised!Next
    BY <1>8, <2>5 DEF Promised!Next
  <2>6. ASSUME NEW n \in Node, NEW wipe \in BOOLEAN, Cluster!Restart(n, wipe)
        PROVE  Promised!Next
    BY <1>9, <2>6 DEF Promised!Next
  <2> QED
    BY <2>1, <2>2, <2>3, <2>4, <2>5, <2>6 DEF Cluster!Next
<1> QED
  BY <1>1, <1>2, <1>10

(* The assumptions of Diynamo hold.                                        *)
LEMMA ClusterAssumed == Promised!ClusterAssumption
<1>1. \A S : IsFiniteSet(S) => Promised!IsFiniteSet(S)
  BY DEF IsFiniteSet, Promised!IsFiniteSet
<1> QED
  BY <1>1, RingFacts, RingAssumption, OpFacts, OpAssumption DEF Promised!ClusterAssumption

(* Where a put is safe is the same in both.                                *)
LEMMA SurvivesHere == ASSUME TypeOK, Promised!Survives PROVE AckedSurvives
<1> SUFFICES ASSUME NEW p \in Put, phase[p] = "ok"
             PROVE  Cardinality(Places(p)) + Cardinality(raced) + Cardinality(spoiled) >= W
  BY DEF AckedSurvives
<1>1. \A S : Promised!Cardinality(S) = Cardinality(S)
  BY DEF Promised!Cardinality, Cardinality
<1>2. [q \in Put |-> PutPhase(q)][p] = "ok"
  BY DEF PutPhase
<1>3. Promised!Places(p) = Places(p)
  BY DEF Promised!Places, Places, Promised!Age, Age
<1>4. {} \cup raced = raced
  OBVIOUS
<1> QED
  BY <1>1, <1>2, <1>3, <1>4 DEF Promised!Survives

(* AckedSurvives for every number of nodes, requests and worker threads,   *)
(* every N, W and R, because it holds of the abstract cluster.             *)
THEOREM AckedPutsSurvive == Spec => []AckedSurvives
<1>1. Spec => Cluster!Spec
  BY StoreImplementsCluster, PTL DEF ImplementsCluster
<1>2. Cluster!Spec => Promised!Spec
  BY SameCluster, PTL DEF Cluster!Spec, Promised!Spec
<1>3. Promised!Spec => []Promised!Survives
  BY Promised!PutsSurvive, ClusterAssumed
<1> QED
  BY <1>1, <1>2, <1>3, TypeCorrect, SurvivesHere, PTL

-----------------------------------------------------------------------------
(***************************************************************************)
(* The replicas as stores.  Floor, the last timestamp a node has answered  *)
(* Ok for, exists because requests start one at a time; that a call which  *)
(* finds a newer version leaves raced alone, although VersionedStore marks *)
(* a key when such a call meets an older one that is still to write, is a  *)
(* consequence of Order: at an unraced node there is no such older one.    *)
(***************************************************************************)

(* The acknowledged timestamps of a node have a greatest one.              *)
Bounded(n) == \E t \in AckedTimes(n) : \A u \in AckedTimes(n) : u <= t

StoreInv ==
  /\ TypeOK /\ Control /\ Known /\ Order /\ Stamped /\ Carries
  /\ \A n \in Node : Bounded(n)

(* Floor is that greatest one.                                             *)
LEMMA FloorIsLast ==
  ASSUME NEW n \in Node, Bounded(n)
  PROVE  Floor(n) \in AckedTimes(n) /\ \A u \in AckedTimes(n) : u <= Floor(n)
BY DEF Bounded, Floor

(* What a node acknowledges raises its floor as put_if_newer's Ok does.    *)
LEMMA FloorRises ==
  ASSUME NEW n \in Node, TypeOK, Bounded(n), NEW t \in Int,
         AckedTimes(n)' = AckedTimes(n) \cup {t}
  PROVE  /\ Bounded(n)'
         /\ Floor(n)' = IF Floor(n) < t THEN t ELSE Floor(n)
<1>1. AckedTimes(n) \subseteq Int
  BY AgeType DEF AckedTimes
<1>2. Floor(n) \in AckedTimes(n) /\ \A u \in AckedTimes(n) : u <= Floor(n)
  BY FloorIsLast
<1> DEFINE last == IF Floor(n) < t THEN t ELSE Floor(n)
<1>3. last \in AckedTimes(n)' /\ \A u \in AckedTimes(n)' : u <= last
  BY <1>1, <1>2
<1>4. AckedTimes(n)' \subseteq Int
  BY <1>1
<1> HIDE DEF last
<1>5. Bounded(n)'
  BY <1>3 DEF Bounded
<1>6. Floor(n)' \in AckedTimes(n)' /\ \A u \in AckedTimes(n)' : u <= Floor(n)'
  BY <1>3 DEF Floor
<1>7. Floor(n)' = last
  BY <1>3, <1>4, <1>6
<1> QED
  BY <1>5, <1>7 DEF last

(* The entry of a version of a started put stays what it is.               *)
LEMMA EntrySteps ==
  ASSUME TypeOK, Control, Known, [Next]_vars
  PROVE  /\ \A v \in Started : Entry(v)' = Entry(v)
         /\ \A o \in Op, n \in Node :
              rpc[o][n] # "none" => Entry(Version(o))' = Entry(Version(o))
<1>1. \A v \in Started : Entry(v)' = Entry(v)
  BY AgeSteps DEF Started, Entry, Age
<1> QED
  BY <1>1, VersionSteps

(* A step that executes nothing at n and ends no handler there.            *)
LEMMA QuietStore ==
  ASSUME StoreInv, [Next]_vars, NEW n \in Node,
         db'[n] = db[n], n \in raced' <=> n \in raced,
         \A o \in Op : rpc[o][n] \in {"checked", "done"} \/ rpc'[o][n] \in {"checked", "done"}
                         => rpc'[o][n] = rpc[o][n]
  PROVE  UNCHANGED Store(n)!vars /\ Bounded(n)'
<1>1. Entry(db[n])' = Entry(db[n])
  BY EntrySteps DEF StoreInv, Known
<1>2. \A o \in Op : Handler(o, n)' = Handler(o, n)
  BY EntrySteps DEF StoreInv, Handler
<1>3. AckedTimes(n)' = AckedTimes(n)
  <2>1. {x \in Op : rpc'[x][n] = "done"} = {x \in Op : rpc[x][n] = "done"}
    OBVIOUS
  <2>2. \A o \in {x \in Op : rpc[x][n] = "done"} : (Age(Version(o)))' = Age(Version(o))
    BY VersionSteps DEF StoreInv
  <2> QED
    BY <2>1, <2>2 DEF AckedTimes
<1>4. Floor(n)' = Floor(n) /\ Bounded(n)'
  BY <1>3 DEF Floor, Bounded, StoreInv
<1> QED
  BY <1>1, <1>2, <1>4 DEF Store!vars

(* What an entry is, and what the handlers and threads of a store are.     *)
LEMMA StoreParts ==
  ASSUME StoreInv, NEW n \in Node
  PROVE  /\ \A v \in Put \cup {None} : Store(n)!Age(Entry(v)) = Age(v)
         /\ \A v \in Started \ {None} : /\ Entry(v) \in Store(n)!StoredEntry
                                        /\ Entry(v).timestamp = Age(v)
         /\ \A o \in Op : rpc[o][n] \notin {"checked"} => Handler(o, n) = Store(n)!Idle
         /\ \A o \in Open(n) :
              Handler(o, n) = Store(n)!Writing("putIfNewer", n, Entry(Version(o)))
         /\ Store(n)!Open(n) = Open(n)
<1>1. \A v \in Put : Entry(v) # Nothing /\ Entry(v).timestamp = ts[v]
  <2> SUFFICES ASSUME NEW v \in Put
               PROVE  Entry(v) # Nothing /\ Entry(v).timestamp = ts[v]
    OBVIOUS
  <2>1. v # None
    BY OpAssumption DEF Op
  <2>2. DOMAIN [timestamp |-> ts[v], data |-> v] # DOMAIN [data |-> None]
    OBVIOUS
  <2> QED
    BY <2>1, <2>2 DEF Entry, Nothing
<1>2. \A v \in Put \cup {None} : Store(n)!Age(Entry(v)) = Age(v)
  BY <1>1, OpAssumption DEF Store!Age, Age, Entry, Op
<1>3. \A v \in Started \ {None} : /\ Entry(v) \in Store(n)!StoredEntry
                                  /\ Entry(v).timestamp = Age(v)
  BY <1>1 DEF Started, StoreInv, Stamped, Entry, Store!StoredEntry, Age
<1>4. /\ \A o \in Op : rpc[o][n] \notin {"checked"} => Handler(o, n) = Store(n)!Idle
      /\ \A o \in Open(n) :
           Handler(o, n) = Store(n)!Writing("putIfNewer", n, Entry(Version(o)))
  BY DEF Handler, Store!Idle, Store!Writing, Open
<1>5. Store(n)!Open(n) = Open(n)
  BY DEF Store!Open, Open, Handler
<1> QED
  BY <1>2, <1>3, <1>4, <1>5

(* A write-if-newer that was sent carries the version of a started put.    *)
LEMMA CallHasVersion ==
  ASSUME StoreInv, NEW o \in Op, NEW n \in Node, rpc[o][n] # "none"
  PROVE  Version(o) \in Started \ {None}
BY OpFacts, OpAssumption
   DEF StoreInv, Control, WritesStarted, Started, Version, Known, Carries, Op

(* A call that is answered with Ok raises the floor to its version.        *)
LEMMA AckSteps ==
  ASSUME StoreInv, [Next]_vars, NEW o \in Op, NEW n \in Node, rpc[o][n] \in {"sent", "checked"},
         rpc' = [rpc EXCEPT ![o][n] = "done"]
  PROVE  /\ Bounded(n)'
         /\ Floor(n)' = IF Floor(n) < Age(Version(o)) THEN Age(Version(o)) ELSE Floor(n)
<1>1. {x \in Op : rpc'[x][n] = "done"} = {x \in Op : rpc[x][n] = "done"} \cup {o}
  BY DEF StoreInv, TypeOK
<1>2. \A x \in Op : rpc[x][n] # "none" => (Age(Version(x)))' = Age(Version(x))
  BY VersionSteps DEF StoreInv
<1>3. AckedTimes(n)' = AckedTimes(n) \cup {Age(Version(o))}
  BY <1>1, <1>2 DEF AckedTimes
<1>4. Age(Version(o)) \in Int
  BY AgeType DEF StoreInv
<1> QED
  BY <1>3, <1>4, FloorRises DEF StoreInv

(* The handlers at n when the call of o moves on.                          *)
LEMMA HandlerSteps ==
  ASSUME StoreInv, [Next]_vars, NEW o \in Op, NEW n \in Node, rpc[o][n] # "none",
         NEW s \in {"checked", "done", "lost"}, rpc' = [rpc EXCEPT ![o][n] = s]
  PROVE  [x \in Op |-> Handler(x, n)]'
           = [[x \in Op |-> Handler(x, n)] EXCEPT ![o] =
                IF s = "checked" THEN Store(n)!Writing("putIfNewer", n, Entry(Version(o)))
                ELSE Store(n)!Idle]
<1>1. rpc'[o][n] = s /\ \A x \in Op : x # o => rpc'[x][n] = rpc[x][n]
  BY DEF StoreInv, TypeOK
<1>2. \A x \in Op : rpc[x][n] # "none" => Entry(Version(x))' = Entry(Version(x))
  BY EntrySteps DEF StoreInv
<1>3. Handler(o, n)' = IF s = "checked" THEN Store(n)!Writing("putIfNewer", n, Entry(Version(o)))
                       ELSE Store(n)!Idle
  BY <1>1, <1>2 DEF Handler, Store!Writing, Store!Idle
<1>4. \A x \in Op : x # o => Handler(x, n)' = Handler(x, n)
  BY <1>1, <1>2 DEF Handler
<1> QED
  BY <1>3, <1>4

(* Ok without writing is the early return of put_if_newer.                 *)
LEMMA SkipStep ==
  ASSUME StoreInv, [Next]_vars, NEW o \in Op, NEW n \in Node, SkipWrite(o, n),
         NEW e, e = Entry(Version(o))
  PROVE  Store(n)!PutIfNewerStale(o, n, e) /\ Bounded(n)'
<1>1. rpc[o][n] = "sent" /\ rpc' = [rpc EXCEPT ![o][n] = "done"] /\ UNCHANGED <<ts, winner, db, raced>>
  BY DEF SkipWrite, readVars
<1>2. Version(o) \in Started \ {None} /\ e.timestamp = Age(Version(o))
  BY <1>1, CallHasVersion, StoreParts
<1>3. [x \in Op |-> Handler(x, n)][o] = Store(n)!Idle
  BY <1>1, StoreParts
<1>4. Store(n)!Age([k \in {n} |-> Entry(db[k])][n]) = Age(db[n])
  BY StoreParts, AgeType DEF StoreInv
<1>5. [x \in Op |-> Handler(x, n)]' = [x \in Op |-> Handler(x, n)]
  <2>1. \A x \in Op : Handler(x, n)' = Handler(x, n)
    <3>1. Handler(o, n) = Store(n)!Idle
      BY <1>3
    <3>2. [x \in Op |-> Handler(x, n)]' = [[x \in Op |-> Handler(x, n)] EXCEPT ![o] = Store(n)!Idle]
      BY <1>1, HandlerSteps
    <3> QED
      BY <3>1, <3>2
  <2> QED
    BY <2>1
<1>6. Bounded(n)' /\ Floor(n)' = Store(n)!Later(Floor(n), e.timestamp)
  BY <1>1, <1>2, AckSteps DEF Store!Later
<1>7. \A u \in Open(n) : n \notin raced => ~(Entry(Version(u)).timestamp < e.timestamp)
  <2> SUFFICES ASSUME NEW u \in Open(n), n \notin raced
               PROVE  ~(Entry(Version(u)).timestamp < e.timestamp)
    OBVIOUS
  <2>1. Age(db[n]) <= Age(Version(u)) /\ u \in Op /\ rpc[u][n] # "none"
    BY DEF StoreInv, Order, OrderAt, Open
  <2>2. Entry(Version(u)).timestamp = Age(Version(u))
    BY <2>1, CallHasVersion, StoreParts
  <2>3. Age(Version(o)) <= Age(db[n])
    BY AgeType DEF SkipWrite, StoreInv
  <2> QED
    BY <1>2, <2>1, <2>2, <2>3, AgeType DEF StoreInv
<1>8. \A u \in Open(n) : [x \in Op |-> Handler(x, n)][u].entry = Entry(Version(u))
  BY StoreParts DEF Open, Store!Writing
<1> DEFINE f == [k \in {n} |-> k \in raced]
           older == \E u \in Store(n)!Open(n) :
                      [x \in Op |-> Handler(x, n)][u].entry.timestamp < e.timestamp
<1>9. f' = [f EXCEPT ![n] = @ \/ older]
  <2>1. older => n \in raced
    BY <1>7, <1>8, StoreParts
  <2>2. (f[n] \/ older) = f[n]
    <3>1. f[n] = (n \in raced)
      OBVIOUS
    <3> HIDE DEF f, older
    <3>2. ((n \in raced) \/ older) = (n \in raced)
      BY <2>1
    <3> QED
      BY <3>1, <3>2
  <2>3. f' = f
    BY <1>1
  <2>4. f = [f EXCEPT ![n] = f[n]]
    OBVIOUS
  <2> HIDE DEF f, older
  <2> QED
    BY <2>2, <2>3, <2>4
<1>10. [k \in {n} |-> Entry(db[k])]' = [k \in {n} |-> Entry(db[k])]
  BY <1>1 DEF Entry
<1>11. Age(db[n]) >= e.timestamp
  BY <1>2 DEF SkipWrite
<1>12. [k \in {n} |-> Floor(k)]' = [[k \in {n} |-> Floor(k)] EXCEPT ![n] = Store(n)!Later(@, e.timestamp)]
  BY <1>6
<1> QED
  BY <1>3, <1>4, <1>5, <1>6, <1>9, <1>10, <1>11, <1>12 DEF Store!PutIfNewerStale

(* The read that finds an older entry opens a call of put_if_newer.        *)
LEMMA OpenStep ==
  ASSUME StoreInv, [Next]_vars, NEW o \in Op, NEW n \in Node, CheckNewer(o, n),
         NEW e, e = Entry(Version(o))
  PROVE  Store(n)!BeginPutIfNewer(o, n, e) /\ Bounded(n)'
<1>1. /\ rpc[o][n] = "sent" /\ rpc' = [rpc EXCEPT ![o][n] = "checked"]
      /\ UNCHANGED <<ts, winner, db>>
  BY DEF CheckNewer, readVars, coordVars
<1>2. Version(o) \in Started \ {None} /\ e.timestamp = Age(Version(o))
  BY <1>1, CallHasVersion, StoreParts
<1>3. [x \in Op |-> Handler(x, n)][o] = Store(n)!Idle
  BY <1>1, StoreParts
<1>4. Store(n)!Age([k \in {n} |-> Entry(db[k])][n]) < e.timestamp
  <2>1. Store(n)!Age([k \in {n} |-> Entry(db[k])][n]) = Age(db[n])
    BY StoreParts, AgeType DEF StoreInv
  <2> QED
    BY <1>2, <2>1 DEF CheckNewer
<1>5. [x \in Op |-> Handler(x, n)]'
        = [[x \in Op |-> Handler(x, n)] EXCEPT ![o] = Store(n)!Writing("putIfNewer", n, e)]
  BY <1>1, HandlerSteps
<1>6. AckedTimes(n)' = AckedTimes(n)
  <2>1. {x \in Op : rpc'[x][n] = "done"} = {x \in Op : rpc[x][n] = "done"}
    BY <1>1 DEF StoreInv, TypeOK
  <2> QED
    BY <1>1, <2>1 DEF AckedTimes, Age, Version
<1>7. Bounded(n)' /\ [k \in {n} |-> Floor(k)]' = [k \in {n} |-> Floor(k)]
  BY <1>6 DEF Floor, Bounded, StoreInv
<1>8. \A u \in Open(n) : [x \in Op |-> Handler(x, n)][u].entry = Entry(Version(u))
                         /\ Entry(Version(u)).timestamp = Age(Version(u))
  <2>1. \A u \in Open(n) : u \in Op /\ rpc[u][n] # "none"
    BY DEF Open
  <2> QED
    BY <2>1, StoreParts, CallHasVersion DEF Store!Writing
<1> DEFINE f == [k \in {n} |-> k \in raced]
           differs == \E u \in Store(n)!Open(n) :
                        [x \in Op |-> Handler(x, n)][u].entry.timestamp # e.timestamp
<1>9. f' = [f EXCEPT ![n] = @ \/ differs]
  <2>1. differs <=> ~(\A u \in Open(n) : Age(Version(u)) = Age(Version(o)))
    BY <1>2, <1>8, StoreParts
  <2>2. n \in raced' <=> (n \in raced \/ differs)
    <3> HIDE DEF differs
    <3> QED
      BY <2>1 DEF CheckNewer
  <2>3. f' = [f EXCEPT ![n] = n \in raced']
    OBVIOUS
  <2>4. f[n] = (n \in raced)
    OBVIOUS
  <2> HIDE DEF f, differs
  <2>5. (f[n] \/ differs) = (n \in raced')
    <3>1. ((n \in raced) \/ differs) = (n \in raced')
      BY <2>2
    <3> QED
      BY <2>4, <3>1
  <2> QED
    BY <2>3, <2>5
<1>10. [k \in {n} |-> Entry(db[k])]' = [k \in {n} |-> Entry(db[k])]
  BY <1>1 DEF Entry
<1> QED
  BY <1>3, <1>4, <1>5, <1>7, <1>9, <1>10 DEF Store!BeginPutIfNewer

(* The write ends the call and raises the floor.                           *)
LEMMA WriteEnds ==
  ASSUME StoreInv, [Next]_vars, NEW o \in Op, NEW n \in Node, WriteEntry(o, n)
  PROVE  Store(n)!EndPutIfNewer(o) /\ Bounded(n)'
<1> DEFINE e == Entry(Version(o))
<1>1. /\ rpc[o][n] = "checked" /\ rpc' = [rpc EXCEPT ![o][n] = "done"]
      /\ UNCHANGED <<ts, winner, raced>> /\ db'[n] = Version(o)
  BY DEF WriteEntry, readVars, StoreInv, TypeOK
<1>2. Version(o) \in Started \ {None} /\ e.timestamp = Age(Version(o))
  BY <1>1, CallHasVersion, StoreParts
<1>3. [x \in Op |-> Handler(x, n)][o] = Store(n)!Writing("putIfNewer", n, e)
  BY <1>1, StoreParts DEF Open
<1>4. [x \in Op |-> Handler(x, n)]' = [[x \in Op |-> Handler(x, n)] EXCEPT ![o] = Store(n)!Idle]
  BY <1>1, HandlerSteps
<1>5. Bounded(n)' /\ Floor(n)' = Store(n)!Later(Floor(n), e.timestamp)
  BY <1>1, <1>2, AckSteps DEF Store!Later
<1>6. [k \in {n} |-> Entry(db[k])]' = [[k \in {n} |-> Entry(db[k])] EXCEPT ![n] = e]
  BY <1>1 DEF Entry
<1>7. [k \in {n} |-> k \in raced]' = [k \in {n} |-> k \in raced]
  BY <1>1
<1> HIDE DEF e
<1>8. [k \in {n} |-> Floor(k)]' = [[k \in {n} |-> Floor(k)] EXCEPT ![n] = Store(n)!Later(@, e.timestamp)]
  BY <1>5
<1>9. /\ Store(n)!Writing("putIfNewer", n, e).op = "putIfNewer"
      /\ Store(n)!Writing("putIfNewer", n, e).key = n
      /\ Store(n)!Writing("putIfNewer", n, e).entry = e
  BY DEF Store!Writing
<1> QED
  BY <1>3, <1>4, <1>5, <1>6, <1>7, <1>8, <1>9 DEF Store!EndPutIfNewer

(* A call that is lost after its read is one RocksDB refused.              *)
LEMMA LoseStep ==
  ASSUME StoreInv, [Next]_vars, NEW o \in Op, NEW n \in Node, LoseWrite(o, n)
  PROVE  (UNCHANGED Store(n)!vars \/ Store(n)!FailCall(o)) /\ Bounded(n)'
<1>1. /\ rpc[o][n] \in {"sent", "checked"} /\ rpc' = [rpc EXCEPT ![o][n] = "lost"]
      /\ UNCHANGED <<ts, winner, db, raced>>
  BY DEF LoseWrite, coordVars, readVars
<1>2. AckedTimes(n)' = AckedTimes(n)
  <2>1. {x \in Op : rpc'[x][n] = "done"} = {x \in Op : rpc[x][n] = "done"}
    BY <1>1 DEF StoreInv, TypeOK
  <2> QED
    BY <1>1, <2>1 DEF AckedTimes, Age, Version
<1>3. Bounded(n)' /\ [k \in {n} |-> Floor(k)]' = [k \in {n} |-> Floor(k)]
  BY <1>2 DEF Floor, Bounded, StoreInv
<1>4. /\ [k \in {n} |-> Entry(db[k])]' = [k \in {n} |-> Entry(db[k])]
      /\ [k \in {n} |-> k \in raced]' = [k \in {n} |-> k \in raced]
  BY <1>1 DEF Entry
<1>5. [x \in Op |-> Handler(x, n)]' = [[x \in Op |-> Handler(x, n)] EXCEPT ![o] = Store(n)!Idle]
  BY <1>1, HandlerSteps
<1>6. CASE rpc[o][n] = "sent"
  <2>1. Handler(o, n) = Store(n)!Idle
    BY <1>6, StoreParts
  <2>2. [x \in Op |-> Handler(x, n)]' = [x \in Op |-> Handler(x, n)]
    BY <1>5, <2>1
  <2> QED
    BY <1>3, <1>4, <2>2 DEF Store!vars
<1>7. CASE rpc[o][n] = "checked"
  <2>1. [x \in Op |-> Handler(x, n)][o] # Store(n)!Idle
    BY <1>7 DEF Handler, Store!Idle
  <2> QED
    BY <1>3, <1>4, <1>5, <2>1 DEF Store!FailCall
<1> QED
  BY <1>1, <1>6, <1>7

(* A process that stops and starts again restarts its store.               *)
LEMMA RestartStep ==
  ASSUME StoreInv, [Next]_vars, NEW n \in Node, Crash(n)
  PROVE  Store(n)!Restart(FALSE) /\ Bounded(n)'
<1>1. UNCHANGED <<ts, winner, db, raced>>
  BY DEF Crash, Stop, readVars
<1>2. \A o \in Op : /\ rpc'[o][n] # "checked"
                    /\ rpc'[o][n] = "done" <=> rpc[o][n] = "done"
  BY DEF Crash, Stop, StoreInv, TypeOK
<1>3. AckedTimes(n)' = AckedTimes(n)
  BY <1>1, <1>2 DEF AckedTimes, Age, Version
<1>4. Bounded(n)' /\ [k \in {n} |-> Floor(k)]' = [k \in {n} |-> Floor(k)]
  BY <1>3 DEF Floor, Bounded, StoreInv
<1>5. /\ [k \in {n} |-> Entry(db[k])]' = [k \in {n} |-> Entry(db[k])]
      /\ [k \in {n} |-> k \in raced]' = [k \in {n} |-> k \in raced]
  BY <1>1 DEF Entry
<1>6. [x \in Op |-> Handler(x, n)]' = [x \in Op |-> Store(n)!Idle]
  BY <1>2 DEF Handler, Store!Idle
<1> QED
  BY <1>4, <1>5, <1>6 DEF Store!Restart

(* Every step of the system is, at every node, a call of its store or none.*)
LEMMA LocalSteps ==
  ASSUME StoreInv, [Next]_vars, NEW n \in Node
  PROVE  (UNCHANGED Store(n)!vars \/ StoreStep(n)) /\ Bounded(n)'
<1> DEFINE Goal == (UNCHANGED Store(n)!vars \/ StoreStep(n)) /\ Bounded(n)'
<1>1. CASE UNCHANGED <<db, rpc, raced>>
  BY <1>1, QuietStore
<1>2. ASSUME NEW o \in Op, NEW m \in Node, m # n,
             SkipWrite(o, m) \/ CheckNewer(o, m) \/ WriteEntry(o, m) \/ LoseWrite(o, m)
      PROVE  Goal
  <2>1. \A x \in Op : rpc'[x][n] = rpc[x][n]
    BY <1>2 DEF SkipWrite, CheckNewer, WriteEntry, LoseWrite, StoreInv, TypeOK
  <2>2. db'[n] = db[n] /\ (n \in raced' <=> n \in raced)
    BY <1>2 DEF SkipWrite, CheckNewer, WriteEntry, LoseWrite, StoreInv, TypeOK
  <2> QED
    BY <2>1, <2>2, QuietStore
<1>3. ASSUME NEW o \in Op, SkipWrite(o, n) \/ CheckNewer(o, n) PROVE Goal
  <2>1. PICK e : e = Entry(Version(o))
    OBVIOUS
  <2>2. e \in Store(n)!StoredEntry
    BY <1>3, <2>1, CallHasVersion, StoreParts DEF SkipWrite, CheckNewer
  <2>3. /\ Store(n)!PutIfNewerStale(o, n, e) \/ Store(n)!BeginPutIfNewer(o, n, e)
        /\ Bounded(n)'
    BY <1>3, <2>1, SkipStep, OpenStep
  <2> QED
    BY <2>1, <2>2, <2>3 DEF StoreStep
<1>4. ASSUME NEW o \in Op, WriteEntry(o, n) \/ LoseWrite(o, n) PROVE Goal
  <2>1. CASE WriteEntry(o, n)
    BY <2>1, WriteEnds DEF StoreStep
  <2>2. CASE LoseWrite(o, n)
    <3>1. (UNCHANGED Store(n)!vars \/ Store(n)!FailCall(o)) /\ Bounded(n)'
      BY <2>2, LoseStep
    <3> QED
      BY <3>1 DEF StoreStep
  <2> QED
    BY <1>4, <2>1, <2>2
<1>5. CASE Crash(n)
  BY <1>5, RestartStep DEF StoreStep
<1>6. ASSUME NEW m \in Node, m # n, Crash(m) PROVE Goal
  <2>1. \A o \in Op : rpc'[o][n] = rpc[o][n]
    BY <1>6 DEF Crash, Stop, StoreInv, TypeOK
  <2>2. UNCHANGED <<db, raced>>
    BY <1>6 DEF Crash, Stop
  <2> QED
    BY <2>1, <2>2, QuietStore
<1>7. ASSUME NEW p \in Put, NEW m \in Coordinator, NEW time \in Timestamp, StartPut(p, m, time)
      PROVE  Goal
  <2>1. \A o \in Op : rpc'[o][n] = rpc[o][n] \/ (rpc[o][n] = "none" /\ rpc'[o][n] \in {"none", "sent"})
    BY <1>7, OpFacts DEF StartPut, StoreInv, TypeOK, Control, WritesStarted
  <2>2. UNCHANGED <<db, raced>>
    BY <1>7 DEF StartPut
  <2> QED
    BY <2>1, <2>2, QuietStore
<1>8. ASSUME NEW g \in Get, FinishGet(g) PROVE Goal
  <2>1. \A o \in Op : rpc'[o][n] = rpc[o][n] \/ (rpc[o][n] = "none" /\ rpc'[o][n] \in {"none", "sent"})
    <3>1. \A m \in Node : rpc[g][m] = "none"
      BY <1>8 DEF FinishGet, StoreInv, Control, RepairsLast
    <3>2. \/ rpc' = rpc
          \/ \E f \in [Node -> {"none", "sent"}] : rpc' = [rpc EXCEPT ![g] = f]
      <4>1. CASE Cardinality(Acked(g)) < R
        BY <1>8, <4>1 DEF FinishGet
      <4>2. CASE ~(Cardinality(Acked(g)) < R)
        <5>1. PICK v : rpc' = [rpc EXCEPT ![g] =
                         [m \in Node |-> IF m \in Acked(g) /\ Age(seen[g][m]) < Age(v)
                                         THEN "sent" ELSE "none"]]
          BY <1>8, <4>2 DEF FinishGet
        <5> QED
          BY <5>1
      <4> QED
        BY <4>1, <4>2
    <3> QED
      BY <3>1, <3>2 DEF StoreInv, TypeOK
  <2>2. UNCHANGED <<db, raced>>
    BY <1>8 DEF FinishGet
  <2> QED
    BY <2>1, <2>2, QuietStore
<1> QED
  BY <1>1, <1>2, <1>3, <1>4, <1>5, <1>6, <1>7, <1>8 DEF Next, Step, vars, EndWrites, SendHint,
     HintFails, FinishPut, Timeout, StoreHint, LoseHint, StartGet, ReadReplica, ReadFails, Abandon

(* For every number of nodes, requests and worker threads, every N, W and  *)
(* R, what the requests do at a node is a behaviour of that node's store:  *)
(* what VersionedStore says of put_if_newer holds of every late write,     *)
(* repair, lost call and crash.                                            *)
THEOREM ReplicasHaveStores == Spec => ReplicasAreStores
<1>1. Init => \A n \in Node : Store(n)!Init /\ Bounded(n)
  <2> SUFFICES ASSUME Init, NEW n \in Node PROVE Store(n)!Init /\ Bounded(n)
    OBVIOUS
  <2>1. AckedTimes(n) = {-1}
    BY DEF Init, AckedTimes
  <2>2. Bounded(n) /\ Floor(n) = -1
    BY <2>1 DEF Bounded, Floor
  <2>3. [k \in {n} |-> Entry(db[k])] = [k \in {n} |-> Nothing]
    BY DEF Init, Entry
  <2>4. [o \in Op |-> Handler(o, n)] = [o \in Op |-> Store(n)!Idle]
    BY DEF Init, Handler, Store!Idle
  <2>5. [k \in {n} |-> k \in raced] = [k \in {n} |-> FALSE]
    <3>1. \A k \in {n} : (k \in raced) = FALSE
      BY DEF Init
    <3> QED
      BY <3>1
  <2> QED
    BY <2>2, <2>3, <2>4, <2>5 DEF Store!Init
<1>2. StoreInv /\ [Next]_vars
        => /\ \A n \in Node : UNCHANGED Store(n)!vars \/ StoreStep(n)
           /\ (\A n \in Node : Bounded(n))'
  BY LocalSteps
<1>3. Spec => [](TypeOK /\ Control /\ Known /\ Order /\ Stamped /\ Carries)
  BY InvHolds, RepairsHold, PTL DEF Inv
<1>4. StoreInv /\ [Next]_vars
        => [\A n \in Node : Untouched(n) \/ StoreStep(n) \/ UNCHANGED Store(n)!vars]_vars
  BY <1>2
<1>5. Spec => []StoreInv
  <2>1. Init => \A n \in Node : Bounded(n)
    BY <1>1
  <2>2. StoreInv /\ [Next]_vars => (\A n \in Node : Bounded(n))'
    BY <1>2
  <2> QED
    BY <1>3, <2>1, <2>2, PTL DEF Spec, StoreInv
<1>6. Init => \A n \in Node : Store(n)!Init
  BY <1>1
<1> QED
  BY <1>4, <1>5, <1>6, PTL DEF Spec, ReplicasAreStores
=============================================================================
