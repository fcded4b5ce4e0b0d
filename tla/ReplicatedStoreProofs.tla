----------------------- MODULE ReplicatedStoreProofs -----------------------
(***************************************************************************)
(* Proofs about ReplicatedStore: its types, that a version a replica has   *)
(* executed is kept, and the freshness of intersecting quorums, for every  *)
(* number of nodes, requests and worker threads, every N, W and R.         *)
(***************************************************************************)
EXTENDS ReplicatedStore, FiniteSetTheorems, TLAPS

(* The preferred nodes and the hint candidates are nodes of the ring.      *)
LEMMA RingFacts ==
  /\ Cardinality(Node) \in Nat /\ N \in Nat /\ N <= Cardinality(Node)
  /\ Preferred \subseteq Node
  /\ \A i \in Candidates : Ring[i] \in Node /\ i \in Nat /\ i + 1 \in N + 1 .. Cardinality(Node) + 1
<1>1. Cardinality(Node) \in Nat
  BY RingAssumption, FS_CardinalityType
<1>2. N \in Nat /\ N >= 1 /\ N <= Cardinality(Node)
  BY <1>1, RingAssumption
<1> QED
  BY <1>1, <1>2, RingAssumption DEF Preferred, Candidates

(* An acknowledgement, counted or too late, keeps the types of what it      *)
(* changes.                                                                 *)
LEMMA AcknowledgeType ==
  ASSUME TypeOK, NEW o \in Op, NEW n \in Node, Acknowledge(o, n)
  PROVE  /\ reply' \in [Op -> [Node -> {"none", "wait", "ok", "err"}]]
         /\ acks' \in [Put -> Nat]
<1>1. CASE reply[o][n] = "wait"
  <2>1. reply' = [reply EXCEPT ![o][n] = "ok"] /\ acks' = [acks EXCEPT ![o] = @ + 1]
    BY <1>1 DEF Acknowledge
  <2>2. \A p \in Put : acks[p] + 1 \in Nat
    BY DEF TypeOK
  <2> QED
    BY <2>1, <2>2 DEF TypeOK
<1>2. CASE reply[o][n] # "wait"
  BY <1>2 DEF Acknowledge, TypeOK
<1> QED
  BY <1>1, <1>2

(* Type correctness of the coordinator and its replicas.                   *)
THEOREM TypeCorrect == Spec => []TypeOK
<1> USE DEF TypeOK, coordVars, hintVars, readVars, Op
<1>1. Init => TypeOK
  BY RingFacts, OpAssumption DEF Init
<1>2. TypeOK /\ [Next]_vars => TypeOK'
  <2> SUFFICES ASSUME TypeOK, [Next]_vars PROVE TypeOK'
    OBVIOUS
  <2>1. ASSUME NEW p \in Put, NEW n \in Coordinator, NEW time \in Timestamp, StartPut(p, n, time)
        PROVE  TypeOK'
    BY <2>1, OpAssumption DEF StartPut
  <2>2. ASSUME NEW p \in Put, EndWrites(p) PROVE TypeOK'
    BY <2>2 DEF EndWrites
  <2>3. ASSUME NEW p \in Put, SendHint(p) PROVE TypeOK'
    BY <2>3, RingFacts DEF SendHint
  <2>4. ASSUME NEW p \in Put, HintFails(p) PROVE TypeOK'
    BY <2>4 DEF HintFails
  <2>5. ASSUME NEW p \in Put, FinishPut(p) PROVE TypeOK'
    BY <2>5 DEF FinishPut
  <2>6. ASSUME NEW p \in Put, NEW n \in Node, Timeout(p, n) PROVE TypeOK'
    BY <2>6 DEF Timeout
  <2>7. ASSUME NEW p \in Put, NEW n \in Node, StoreHint(p, n) PROVE TypeOK'
    <3>1. hintRpc' \in [Put -> [Node -> {"none", "sent", "stored", "lost"}]]
      BY <2>7 DEF StoreHint
    <3>2. hints' \in [Node -> [Node -> Put \cup {None}]]
      BY <2>7 DEF StoreHint
    <3>3. /\ acks' \in [Put -> Nat]
          /\ slots' \in [Put -> SUBSET Preferred]
          /\ target' \in [Put -> Preferred \cup {None}]
          /\ phase' \in [Op -> {"idle", "writing", "hinting", "hintSent", "reading",
                                "ok", "failed", "abandoned"}]
      <4>1. CASE UNCHANGED <<acks, slots, target, phase>>
        BY <4>1
      <4>2. CASE /\ acks' = [acks EXCEPT ![p] = @ + 1]
                 /\ slots' = [slots EXCEPT ![p] = @ \ {target[p]}]
                 /\ target' = [target EXCEPT ![p] = None]
                 /\ phase' = [phase EXCEPT ![p] = "hinting"]
        <5>1. acks[p] + 1 \in Nat /\ slots[p] \ {target[p]} \in SUBSET Preferred
          OBVIOUS
        <5> QED
          BY <4>2, <5>1
      <4> QED
        BY <2>7, <4>1, <4>2 DEF StoreHint
    <3> QED
      BY <2>7, <3>1, <3>2, <3>3 DEF StoreHint
  <2>8. ASSUME NEW p \in Put, NEW n \in Node, LoseHint(p, n) PROVE TypeOK'
    BY <2>8 DEF LoseHint
  <2>9. ASSUME NEW o \in Op, NEW n \in Node, SkipWrite(o, n) PROVE TypeOK'
    <3>1. /\ reply' \in [Op -> [Node -> {"none", "wait", "ok", "err"}]]
          /\ acks' \in [Put -> Nat]
      BY <2>9, AcknowledgeType DEF SkipWrite
    <3> QED
      BY <2>9, <3>1 DEF SkipWrite
  <2>10. ASSUME NEW o \in Op, NEW n \in Node, CheckNewer(o, n) PROVE TypeOK'
    BY <2>10 DEF CheckNewer
  <2>11. ASSUME NEW o \in Op, NEW n \in Node, WriteEntry(o, n) PROVE TypeOK'
    <3>1. Version(o) \in Put \cup {None}
      BY DEF Version
    <3>2. /\ reply' \in [Op -> [Node -> {"none", "wait", "ok", "err"}]]
          /\ acks' \in [Put -> Nat]
      BY <2>11, AcknowledgeType DEF WriteEntry
    <3> QED
      BY <2>11, <3>1, <3>2 DEF WriteEntry
  <2>12. ASSUME NEW o \in Op, NEW n \in Node, LoseWrite(o, n) PROVE TypeOK'
    BY <2>12 DEF LoseWrite
  <2>13. ASSUME NEW g \in Get, NEW n \in Coordinator, StartGet(g, n) PROVE TypeOK'
    BY <2>13, OpAssumption DEF StartGet
  <2>14. ASSUME NEW g \in Get, NEW n \in Node, ReadReplica(g, n) PROVE TypeOK'
    BY <2>14 DEF ReadReplica
  <2>15. ASSUME NEW g \in Get, NEW n \in Node, ReadFails(g, n) PROVE TypeOK'
    BY <2>15 DEF ReadFails
  <2>16. ASSUME NEW g \in Get, FinishGet(g) PROVE TypeOK'
    <3>1. \A n \in Acked(g) : seen[g][n] \in Put \cup {None}
      BY RingFacts DEF Acked
    <3>2. CASE Cardinality(Acked(g)) < R
      BY <2>16, <3>2 DEF FinishGet
    <3>3. CASE ~(Cardinality(Acked(g)) < R)
      <4>1. PICK v \in {seen[g][n] : n \in Acked(g)} \cup {None} :
              /\ phase' = [phase EXCEPT ![g] = "ok"]
              /\ winner' = [winner EXCEPT ![g] = v]
              /\ rpc' = [rpc EXCEPT ![g] =
                   [n \in Node |-> IF n \in Acked(g) /\ Age(seen[g][n]) < Age(v)
                                   THEN "sent" ELSE "none"]]
        BY <2>16, <3>3 DEF FinishGet
      <4>2. v \in Put \cup {None}
        BY <3>1
      <4>3. rpc' \in [Op -> [Node -> {"none", "sent", "checked", "done", "lost"}]]
        BY <4>1
      <4> QED
        BY <2>16, <4>1, <4>2, <4>3 DEF FinishGet
    <3> QED
      BY <3>2, <3>3
  <2>17. ASSUME NEW o \in Op, Abandon(o) PROVE TypeOK'
    BY <2>17 DEF Abandon
  <2>18. ASSUME NEW n \in Node, Crash(n) PROVE TypeOK'
    BY <2>18 DEF Crash, Stop
  <2>19. CASE UNCHANGED vars
    BY <2>19 DEF vars
  <2> QED
    BY <2>1, <2>2, <2>3, <2>4, <2>5, <2>6, <2>7, <2>8, <2>9, <2>10, <2>11, <2>12, <2>13,
       <2>14, <2>15, <2>16, <2>17, <2>18, <2>19 DEF Next, Step
<1> QED
  BY <1>1, <1>2, PTL DEF Spec

-----------------------------------------------------------------------------
(***************************************************************************)
(* The inductive invariant behind ExecutedIsKept and QuorumFreshness.      *)
(***************************************************************************)
Started == {p \in Put : phase[p] # "idle"} \cup {None}

Done(n) == {o \in Op : rpc[o][n] = "done"}

\* How the phase of a request, its calls and their replies go together: a put
\* goes on to its hints, and a request ends, with every reply in; repairs are
\* sent by gets that succeeded, writes by puts that started; an acknowledged
\* write has been executed.
RepliesIn == \A o \in Op : phase[o] \in {"hinting", "hintSent", "ok", "failed"} => AllReplied(o)
RepairsLast == \A g \in Get : phase[g] # "ok" => \A n \in Node : rpc[g][n] = "none"
WritesStarted == \A p \in Put : phase[p] = "idle" => \A n \in Node : rpc[p][n] = "none"
BeforeOk == \A g \in Get : \A p \in before[g] : phase[p] = "ok"
AckedDone == \A p \in Put, n \in Node : reply[p][n] = "ok" => rpc[p][n] = "done"

Control == RepliesIn /\ RepairsLast /\ WritesStarted /\ BeforeOk /\ AckedDone

\* Only versions of puts that have taken their timestamp are anywhere.
Known ==
  /\ \A n \in Node : db[n] \in Started
  /\ \A g \in Get : winner[g] \in Started /\ \A n \in Node : seen[g][n] \in Started

\* A node where calls did not overlap keeps what it executed, and what its
\* open calls will write is at least as new as what they will replace.
OrderAt(n) ==
  /\ \A o \in Done(n) : Age(Version(o)) <= Age(db[n])
  /\ \A o \in Open(n) : Age(db[n]) <= Age(Version(o))
  /\ \A o, u \in Open(n) : Age(Version(o)) = Age(Version(u))

Order == \A n \in Node \ raced : OrderAt(n)

\* What an answer to a get shows of the puts acknowledged before, and what
\* the winner is among the answers.
Fresh(g) ==
  \A p \in before[g], n \in Preferred \ raced :
    reply[p][n] = "ok" /\ reply[g][n] = "ok" => ts[p] <= Age(seen[g][n])

Wins(g) == phase[g] = "ok" => \A n \in Acked(g) : Age(seen[g][n]) <= Age(winner[g])

Reads == \A g \in Get : Fresh(g) /\ Wins(g)

(* A put is a request and so is a get; nothing is both.                    *)
LEMMA OpFacts ==
  /\ \A p \in Put : p \in Op /\ p \notin Get
  /\ \A g \in Get : g \in Op /\ g \notin Put
  /\ \A o \in Op : o \in Put \/ o \in Get
BY OpAssumption DEF Op

(* A phase that is past its start stays so, and one that is "ok" is final. *)
LEMMA PhaseSteps ==
  ASSUME TypeOK, [Next]_vars
  PROVE  \A o \in Op : /\ phase[o] # "idle" => phase'[o] # "idle"
                       /\ phase[o] = "ok" => phase'[o] = "ok"
<1> DEFINE Goal == \A o \in Op : /\ phase[o] # "idle" => phase'[o] # "idle"
                                 /\ phase[o] = "ok" => phase'[o] = "ok"
<1>1. Goal
  <2>1. ASSUME NEW p \in Put, NEW n \in Coordinator, NEW time \in Timestamp, StartPut(p, n, time)
        PROVE  Goal
    BY <2>1, OpFacts DEF StartPut, TypeOK, coordVars, Running
  <2>2. ASSUME NEW p \in Put, EndWrites(p)
        PROVE  Goal
    BY <2>2, OpFacts DEF EndWrites, TypeOK, coordVars, Running
  <2>3. ASSUME NEW p \in Put, SendHint(p)
        PROVE  Goal
    BY <2>3, OpFacts DEF SendHint, TypeOK, coordVars, Running
  <2>4. ASSUME NEW p \in Put, HintFails(p)
        PROVE  Goal
    BY <2>4, OpFacts DEF HintFails, TypeOK, coordVars, Running
  <2>5. ASSUME NEW p \in Put, FinishPut(p)
        PROVE  Goal
    BY <2>5, OpFacts DEF FinishPut, TypeOK, coordVars, Running
  <2>6. ASSUME NEW p \in Put, NEW n \in Node, Timeout(p, n)
        PROVE  Goal
    BY <2>6, OpFacts DEF Timeout, TypeOK, coordVars, Running
  <2>7. ASSUME NEW p \in Put, NEW n \in Node, StoreHint(p, n)
        PROVE  Goal
    BY <2>7, OpFacts DEF StoreHint, TypeOK, coordVars, Running
  <2>8. ASSUME NEW p \in Put, NEW n \in Node, LoseHint(p, n)
        PROVE  Goal
    BY <2>8, OpFacts DEF LoseHint, TypeOK, coordVars, Running
  <2>9. ASSUME NEW o \in Op, NEW n \in Node, SkipWrite(o, n)
        PROVE  Goal
    BY <2>9, OpFacts DEF SkipWrite, TypeOK, coordVars, Running
  <2>10. ASSUME NEW o \in Op, NEW n \in Node, CheckNewer(o, n)
        PROVE  Goal
    BY <2>10, OpFacts DEF CheckNewer, TypeOK, coordVars, Running
  <2>11. ASSUME NEW o \in Op, NEW n \in Node, WriteEntry(o, n)
        PROVE  Goal
    BY <2>11, OpFacts DEF WriteEntry, TypeOK, coordVars, Running
  <2>12. ASSUME NEW o \in Op, NEW n \in Node, LoseWrite(o, n)
        PROVE  Goal
    BY <2>12, OpFacts DEF LoseWrite, TypeOK, coordVars, Running
  <2>13. ASSUME NEW g \in Get, NEW n \in Coordinator, StartGet(g, n)
        PROVE  Goal
    BY <2>13, OpFacts DEF StartGet, TypeOK, coordVars, Running
  <2>14. ASSUME NEW g \in Get, NEW n \in Node, ReadReplica(g, n)
        PROVE  Goal
    BY <2>14, OpFacts DEF ReadReplica, TypeOK, coordVars, Running
  <2>15. ASSUME NEW g \in Get, NEW n \in Node, ReadFails(g, n)
        PROVE  Goal
    BY <2>15, OpFacts DEF ReadFails, TypeOK, coordVars, Running
  <2>16. ASSUME NEW g \in Get, FinishGet(g)
        PROVE  Goal
    BY <2>16, OpFacts DEF FinishGet, TypeOK, coordVars, Running
  <2>17. ASSUME NEW o \in Op, Abandon(o)
        PROVE  Goal
    BY <2>17, OpFacts DEF Abandon, TypeOK, coordVars, Running
  <2>18. ASSUME NEW n \in Node, Crash(n)
        PROVE  Goal
    BY <2>18, OpFacts DEF Crash, Stop, TypeOK, coordVars, Running
  <2>19. CASE UNCHANGED vars
    BY <2>19 DEF vars, TypeOK, coordVars, Running
  <2> QED
    BY <2>1, <2>2, <2>3, <2>4, <2>5, <2>6, <2>7, <2>8, <2>9, <2>10, <2>11, <2>12, <2>13, <2>14, <2>15, <2>16, <2>17, <2>18, <2>19
       DEF Next, Step
<1> QED
  BY <1>1

(* Timestamps of started puts do not change, so neither does the age of a  *)
(* version that is anywhere in the system.                                 *)
LEMMA AgeSteps ==
  ASSUME TypeOK, [Next]_vars
  PROVE  \A v \in Started : v \in Started' /\ (Age(v))' = Age(v)
<1>1. \A v \in Put : phase[v] # "idle" => ts'[v] = ts[v]
  <2>1. ASSUME NEW p \in Put, NEW n \in Coordinator, NEW time \in Timestamp, StartPut(p, n, time)
        PROVE  \A v \in Put : phase[v] # "idle" => ts'[v] = ts[v]
    BY <2>1 DEF StartPut, TypeOK
  <2>2. CASE UNCHANGED ts
    BY <2>2
  <2> QED
    BY <2>1, <2>2 DEF Next, Step, vars, coordVars, EndWrites, SendHint, HintFails, FinishPut, Timeout,
       StoreHint, LoseHint, SkipWrite, CheckNewer, WriteEntry, LoseWrite, StartGet, ReadReplica,
       ReadFails, FinishGet, Abandon, Crash, Stop
<1>2. \A v \in Started : v \in Started'
  BY PhaseSteps, OpFacts DEF Started
<1> QED
  BY <1>1, <1>2 DEF Started, Age

(* The five facts about phases, calls and replies are kept by every step.  *)
LEMMA ControlSteps ==
  ASSUME TypeOK, TypeOK', Control, [Next]_vars
  PROVE  Control'
<1>1. Control'
  <2>1. ASSUME NEW p \in Put, NEW n \in Coordinator, NEW time \in Timestamp, StartPut(p, n, time)
        PROVE  Control'
    BY <2>1, OpFacts DEF StartPut, Control, RepliesIn, RepairsLast, WritesStarted, BeforeOk, AckedDone, AllReplied, Acknowledge, TypeOK, Running, coordVars, hintVars, readVars
  <2>2. ASSUME NEW p \in Put, EndWrites(p)
        PROVE  Control'
    BY <2>2, OpFacts DEF EndWrites, Control, RepliesIn, RepairsLast, WritesStarted, BeforeOk, AckedDone, AllReplied, Acknowledge, TypeOK, Running, coordVars, hintVars, readVars
  <2>3. ASSUME NEW p \in Put, SendHint(p)
        PROVE  Control'
    BY <2>3, OpFacts DEF SendHint, Control, RepliesIn, RepairsLast, WritesStarted, BeforeOk, AckedDone, AllReplied, Acknowledge, TypeOK, Running, coordVars, hintVars, readVars
  <2>4. ASSUME NEW p \in Put, HintFails(p)
        PROVE  Control'
    BY <2>4, OpFacts DEF HintFails, Control, RepliesIn, RepairsLast, WritesStarted, BeforeOk, AckedDone, AllReplied, Acknowledge, TypeOK, Running, coordVars, hintVars, readVars
  <2>5. ASSUME NEW p \in Put, FinishPut(p)
        PROVE  Control'
    BY <2>5, OpFacts DEF FinishPut, Control, RepliesIn, RepairsLast, WritesStarted, BeforeOk, AckedDone, AllReplied, Acknowledge, TypeOK, Running, coordVars, hintVars, readVars
  <2>6. ASSUME NEW p \in Put, NEW n \in Node, Timeout(p, n)
        PROVE  Control'
    BY <2>6, OpFacts DEF Timeout, Control, RepliesIn, RepairsLast, WritesStarted, BeforeOk, AckedDone, AllReplied, Acknowledge, TypeOK, Running, coordVars, hintVars, readVars
  <2>7. ASSUME NEW p \in Put, NEW n \in Node, StoreHint(p, n)
        PROVE  Control'
    <3>1. UNCHANGED <<rpc, reply, before>>
      BY <2>7 DEF StoreHint, readVars
    <3>2. \A o \in Op : \/ phase'[o] = phase[o]
                        \/ phase[o] = "hintSent" /\ phase'[o] = "hinting"
      BY <2>7 DEF StoreHint, TypeOK
    <3>c1. RepliesIn'
      BY <3>1, <3>2, OpFacts DEF Control, RepliesIn, AllReplied
    <3>c2. RepairsLast'
      BY <3>1, <3>2, OpFacts DEF Control, RepairsLast
    <3>c3. WritesStarted'
      BY <3>1, <3>2, OpFacts DEF Control, WritesStarted
    <3>c4. BeforeOk'
      BY <3>1, <3>2, OpFacts DEF Control, BeforeOk, TypeOK
    <3>c5. AckedDone'
      BY <3>1, <3>2, OpFacts DEF Control, AckedDone
    <3> QED
      BY <3>c1, <3>c2, <3>c3, <3>c4, <3>c5 DEF Control
  <2>8. ASSUME NEW p \in Put, NEW n \in Node, LoseHint(p, n)
        PROVE  Control'
    BY <2>8, OpFacts DEF LoseHint, Control, RepliesIn, RepairsLast, WritesStarted, BeforeOk, AckedDone, AllReplied, Acknowledge, TypeOK, Running, coordVars, hintVars, readVars
  <2>9. ASSUME NEW o \in Op, NEW n \in Node, SkipWrite(o, n)
        PROVE  Control'
    <3>1. UNCHANGED <<phase, before>> /\ rpc[o][n] = "sent"
      BY <2>9 DEF SkipWrite, readVars
    <3>2. rpc' = [rpc EXCEPT ![o][n] = "done"]
      BY <2>9 DEF SkipWrite
    <3>3. \/ reply' = reply
          \/ reply' = [reply EXCEPT ![o][n] = "ok"]
      BY <2>9 DEF SkipWrite, Acknowledge
    <3>4. \A u \in Op, m \in Node : reply'[u][m] = reply[u][m] \/ reply'[u][m] = "ok"
      <4>1. CASE reply' = reply
        BY <4>1
      <4>2. CASE reply' = [reply EXCEPT ![o][n] = "ok"]
        <5>1. \A u \in Op : u # o => reply'[u] = reply[u]
          BY <4>2 DEF TypeOK
        <5>2. reply'[o] = [reply[o] EXCEPT ![n] = "ok"] /\ reply[o] \in [Node -> {"none", "wait", "ok", "err"}]
          BY <4>2 DEF TypeOK
        <5> QED
          BY <5>1, <5>2
      <4> QED
        BY <3>3, <4>1, <4>2
    <3>c1. RepliesIn'
      BY <3>1, <3>4, RingFacts DEF Control, RepliesIn, AllReplied
    <3>c2. RepairsLast'
      BY <3>1, <3>2, <3>3, OpFacts, RingFacts DEF Control, RepairsLast, TypeOK
    <3>c3. WritesStarted'
      BY <3>1, <3>2, <3>3, OpFacts, RingFacts DEF Control, WritesStarted, TypeOK
    <3>c4. BeforeOk'
      BY <3>1, <3>2, <3>3, OpFacts, RingFacts DEF Control, BeforeOk, TypeOK
    <3>c5. AckedDone'
      BY <3>1, <3>2, <3>3, OpFacts, RingFacts DEF Control, AckedDone, TypeOK
    <3> QED
      BY <3>c1, <3>c2, <3>c3, <3>c4, <3>c5 DEF Control
  <2>10. ASSUME NEW o \in Op, NEW n \in Node, CheckNewer(o, n)
        PROVE  Control'
    BY <2>10, OpFacts DEF CheckNewer, Control, RepliesIn, RepairsLast, WritesStarted, BeforeOk, AckedDone, AllReplied, Acknowledge, TypeOK, Running, coordVars, hintVars, readVars
  <2>11. ASSUME NEW o \in Op, NEW n \in Node, WriteEntry(o, n)
        PROVE  Control'
    <3>1. UNCHANGED <<phase, before>> /\ rpc[o][n] = "checked"
      BY <2>11 DEF WriteEntry, readVars
    <3>2. rpc' = [rpc EXCEPT ![o][n] = "done"]
      BY <2>11 DEF WriteEntry
    <3>3. \/ reply' = reply
          \/ reply' = [reply EXCEPT ![o][n] = "ok"]
      BY <2>11 DEF WriteEntry, Acknowledge
    <3>4. \A u \in Op, m \in Node : reply'[u][m] = reply[u][m] \/ reply'[u][m] = "ok"
      <4>1. CASE reply' = reply
        BY <4>1
      <4>2. CASE reply' = [reply EXCEPT ![o][n] = "ok"]
        <5>1. \A u \in Op : u # o => reply'[u] = reply[u]
          BY <4>2 DEF TypeOK
        <5>2. reply'[o] = [reply[o] EXCEPT ![n] = "ok"] /\ reply[o] \in [Node -> {"none", "wait", "ok", "err"}]
          BY <4>2 DEF TypeOK
        <5> QED
          BY <5>1, <5>2
      <4> QED
        BY <3>3, <4>1, <4>2
    <3>c1. RepliesIn'
      BY <3>1, <3>4, RingFacts DEF Control, RepliesIn, AllReplied
    <3>c2. RepairsLast'
      BY <3>1, <3>2, <3>3, OpFacts, RingFacts DEF Control, RepairsLast, TypeOK
    <3>c3. WritesStarted'
      BY <3>1, <3>2, <3>3, OpFacts, RingFacts DEF Control, WritesStarted, TypeOK
    <3>c4. BeforeOk'
      BY <3>1, <3>2, <3>3, OpFacts, RingFacts DEF Control, BeforeOk, TypeOK
    <3>c5. AckedDone'
      BY <3>1, <3>2, <3>3, OpFacts, RingFacts DEF Control, AckedDone, TypeOK
    <3> QED
      BY <3>c1, <3>c2, <3>c3, <3>c4, <3>c5 DEF Control
  <2>12. ASSUME NEW o \in Op, NEW n \in Node, LoseWrite(o, n)
        PROVE  Control'
    BY <2>12, OpFacts DEF LoseWrite, Control, RepliesIn, RepairsLast, WritesStarted, BeforeOk, AckedDone, AllReplied, Acknowledge, TypeOK, Running, coordVars, hintVars, readVars
  <2>13. ASSUME NEW g \in Get, NEW n \in Coordinator, StartGet(g, n)
        PROVE  Control'
    BY <2>13, OpFacts DEF StartGet, Control, RepliesIn, RepairsLast, WritesStarted, BeforeOk, AckedDone, AllReplied, Acknowledge, TypeOK, Running, coordVars, hintVars, readVars
  <2>14. ASSUME NEW g \in Get, NEW n \in Node, ReadReplica(g, n)
        PROVE  Control'
    BY <2>14, OpFacts DEF ReadReplica, Control, RepliesIn, RepairsLast, WritesStarted, BeforeOk, AckedDone, AllReplied, Acknowledge, TypeOK, Running, coordVars, hintVars, readVars
  <2>15. ASSUME NEW g \in Get, NEW n \in Node, ReadFails(g, n)
        PROVE  Control'
    BY <2>15, OpFacts DEF ReadFails, Control, RepliesIn, RepairsLast, WritesStarted, BeforeOk, AckedDone, AllReplied, Acknowledge, TypeOK, Running, coordVars, hintVars, readVars
  <2>16. ASSUME NEW g \in Get, FinishGet(g)
        PROVE  Control'
    <3>1. UNCHANGED <<before, reply>> /\ phase[g] = "reading" /\ AllReplied(g)
      BY <2>16 DEF FinishGet
    <3>2. \/ phase' = [phase EXCEPT ![g] = "failed"] /\ rpc' = rpc
          \/ /\ phase' = [phase EXCEPT ![g] = "ok"]
             /\ \E f \in [Node -> {"none", "sent"}] : rpc' = [rpc EXCEPT ![g] = f]
      <4>1. CASE Cardinality(Acked(g)) < R
        BY <2>16, <4>1 DEF FinishGet
      <4>2. CASE ~(Cardinality(Acked(g)) < R)
        <5>1. PICK v : /\ phase' = [phase EXCEPT ![g] = "ok"]
                       /\ rpc' = [rpc EXCEPT ![g] =
                            [n \in Node |-> IF n \in Acked(g) /\ Age(seen[g][n]) < Age(v)
                                            THEN "sent" ELSE "none"]]
          BY <2>16, <4>2 DEF FinishGet
        <5> QED
          BY <5>1
      <4> QED
        BY <4>1, <4>2
    <3>3. \A o \in Op : o # g => phase'[o] = phase[o] /\ rpc'[o] = rpc[o]
      BY <3>2 DEF TypeOK
    <3>4. (phase'[g] = "failed" /\ rpc'[g] = rpc[g]) \/ phase'[g] = "ok"
      BY <3>2, OpFacts DEF TypeOK
    <3>c1. RepliesIn'
      BY <3>1, <3>3, <3>4, OpFacts DEF Control, RepliesIn, AllReplied
    <3>c2. RepairsLast'
      BY <3>1, <3>3, <3>4, OpFacts DEF Control, RepairsLast
    <3>c3. WritesStarted'
      BY <3>1, <3>3, <3>4, OpFacts DEF Control, WritesStarted
    <3>c4. BeforeOk'
      BY <3>1, <3>3, <3>4, OpFacts DEF Control, BeforeOk, TypeOK
    <3>c5. AckedDone'
      BY <3>1, <3>3, <3>4, OpFacts DEF Control, AckedDone
    <3> QED
      BY <3>c1, <3>c2, <3>c3, <3>c4, <3>c5 DEF Control
  <2>17. ASSUME NEW o \in Op, Abandon(o)
        PROVE  Control'
    BY <2>17, OpFacts DEF Abandon, Control, RepliesIn, RepairsLast, WritesStarted, BeforeOk, AckedDone, AllReplied, Acknowledge, TypeOK, Running, coordVars, hintVars, readVars
  <2>18. ASSUME NEW n \in Node, Crash(n)
        PROVE  Control'
    <3>1. before' = before
      BY <2>18 DEF Crash, Stop, readVars
    <3>2. \A o \in Op : \/ phase'[o] = phase[o]
                        \/ phase[o] \notin {"ok", "idle"} /\ phase'[o] = "abandoned"
      BY <2>18 DEF Crash, Stop, Running, TypeOK
    <3>3. \A o \in Op, m \in Node : \/ rpc'[o][m] = rpc[o][m]
                                    \/ rpc[o][m] \in {"checked", "sent"} /\ rpc'[o][m] = "lost"
      BY <2>18 DEF Crash, Stop, TypeOK
    <3>4. \A o \in Op, m \in Node : \/ reply'[o][m] = reply[o][m]
                                    \/ reply'[o][m] = "err"
      BY <2>18 DEF Crash, Stop, TypeOK
    <3>c1. RepliesIn'
      BY <3>1, <3>2, <3>3, <3>4, OpFacts, RingFacts DEF Control, RepliesIn, AllReplied
    <3>c2. RepairsLast'
      BY <3>1, <3>2, <3>3, <3>4, OpFacts, RingFacts DEF Control, RepairsLast
    <3>c3. WritesStarted'
      BY <3>1, <3>2, <3>3, <3>4, OpFacts, RingFacts DEF Control, WritesStarted
    <3>c4. BeforeOk'
      BY <3>1, <3>2, <3>3, <3>4, OpFacts, RingFacts DEF Control, BeforeOk, TypeOK
    <3>c5. AckedDone'
      BY <3>1, <3>2, <3>3, <3>4, OpFacts, RingFacts DEF Control, AckedDone
    <3> QED
      BY <3>c1, <3>c2, <3>c3, <3>c4, <3>c5 DEF Control
  <2>19. CASE UNCHANGED vars
    BY <2>19, OpFacts DEF vars, Control, RepliesIn, RepairsLast, WritesStarted, BeforeOk, AckedDone, AllReplied, Acknowledge, TypeOK, Running, coordVars, hintVars, readVars
  <2> QED
    BY <2>1, <2>2, <2>3, <2>4, <2>5, <2>6, <2>7, <2>8, <2>9, <2>10, <2>11, <2>12, <2>13, <2>14, <2>15, <2>16, <2>17, <2>18, <2>19
       DEF Next, Step

<1> QED
  BY <1>1

(* The version of a call that was made is that of a started put, and no    *)
(* step changes it or its age.                                             *)
LEMMA VersionSteps ==
  ASSUME TypeOK, Control, Known, [Next]_vars, NEW o \in Op, NEW n \in Node, rpc[o][n] # "none"
  PROVE  /\ Version(o) \in Started
         /\ (Version(o))' = Version(o)
         /\ (Age(Version(o)))' = Age(Version(o))
<1>1. CASE o \in Put
  <2>1. Version(o) = o /\ (Version(o))' = o /\ Version(o) \in Started
    BY <1>1 DEF Version, Control, WritesStarted, Started
  <2> QED
    BY <2>1, AgeSteps DEF Age
<1>2. CASE o \in Get
  <2>1. phase[o] = "ok"
    BY <1>2 DEF Control, RepairsLast
  <2>2. winner'[o] = winner[o]
    <3>1. ASSUME NEW g \in Get, FinishGet(g) PROVE winner'[o] = winner[o]
      <4>1. g # o
        BY <2>1, <3>1 DEF FinishGet
      <4>2. winner' = winner \/ \E v : winner' = [winner EXCEPT ![g] = v]
        BY <3>1 DEF FinishGet
      <4> QED
        BY <1>2, <4>1, <4>2 DEF TypeOK
    <3>2. CASE winner' = winner
      BY <3>2
    <3> QED
      BY <3>1, <3>2 DEF Next, Step, vars, readVars, StartPut, EndWrites, SendHint, HintFails, FinishPut,
         Timeout, StoreHint, LoseHint, SkipWrite, CheckNewer, WriteEntry, LoseWrite, StartGet,
         ReadReplica, ReadFails, Abandon, Crash, Stop
  <2>3. Version(o) = winner[o] /\ (Version(o))' = winner[o] /\ Version(o) \in Started
    BY <1>2, <2>2, OpFacts DEF Version, Known
  <2> QED
    BY <2>3, AgeSteps DEF Age
<1> QED
  BY <1>1, <1>2, OpFacts

(* Only versions of started puts are stored, seen or returned.             *)
LEMMA KnownSteps ==
  ASSUME TypeOK, Control, Known, [Next]_vars
  PROVE  Known'
<1>1. \A v \in Started : v \in Started'
  BY AgeSteps
<1>2. CASE UNCHANGED <<db, winner, seen>>
  BY <1>1, <1>2 DEF Known
<1>3. ASSUME NEW o \in Op, NEW n \in Node, WriteEntry(o, n) PROVE Known'
  <2>1. Version(o) \in Started
    BY <1>3, VersionSteps DEF WriteEntry
  <2>2. UNCHANGED <<winner, seen>> /\ \A m \in Node : db'[m] = db[m] \/ db'[m] = Version(o)
    BY <1>3 DEF WriteEntry, readVars, TypeOK
  <2> QED
    BY <1>1, <2>1, <2>2 DEF Known
<1>4. ASSUME NEW g \in Get, NEW n \in Node, ReadReplica(g, n) PROVE Known'
  <2>1. UNCHANGED <<winner, db>>
    BY <1>4 DEF ReadReplica
  <2>2. \A h \in Get, m \in Node : seen'[h][m] = seen[h][m] \/ seen'[h][m] = db[n]
    BY <1>4 DEF ReadReplica, TypeOK
  <2> QED
    BY <1>1, <2>1, <2>2 DEF Known
<1>5. ASSUME NEW g \in Get, FinishGet(g) PROVE Known'
  <2>1. UNCHANGED <<seen, db>>
    BY <1>5 DEF FinishGet
  <2>2. \/ winner' = winner
        \/ \E v \in {seen[g][n] : n \in Acked(g)} \cup {None} : winner' = [winner EXCEPT ![g] = v]
    BY <1>5 DEF FinishGet
  <2>3. {seen[g][n] : n \in Acked(g)} \cup {None} \subseteq Started
    BY RingFacts DEF Known, Acked, Started
  <2>4. \A h \in Get : winner'[h] = winner[h] \/ winner'[h] \in Started
    BY <2>2, <2>3 DEF TypeOK
  <2> QED
    BY <1>1, <2>1, <2>4 DEF Known
<1> QED
  BY <1>2, <1>3, <1>4, <1>5 DEF Next, Step, vars, readVars, StartPut, EndWrites, SendHint, HintFails,
     FinishPut, Timeout, StoreHint, LoseHint, SkipWrite, CheckNewer, LoseWrite, StartGet,
     ReadFails, Abandon, Crash, Stop

(* Ages are integers, and every call made carries a version with an age.   *)
LEMMA AgeType ==
  ASSUME TypeOK
  PROVE  /\ \A v \in Put \cup {None} : Age(v) \in Int /\ Age(v) >= -1
         /\ \A o \in Op : Version(o) \in Put \cup {None}
         /\ \A n \in Node : db[n] \in Put \cup {None}
<1>1. \A v \in Put \cup {None} : Age(v) \in Int /\ Age(v) >= -1
  <2>1. \A p \in Put : ts[p] \in Int /\ ts[p] >= -1
    <3>1. \A p \in Put : ts[p] \in Timestamp \cup {-1}
      BY DEF TypeOK
    <3>2. \A t \in Timestamp \cup {-1} : t \in Int /\ t >= -1
      BY OpAssumption
    <3> QED
      BY <3>1, <3>2
  <2> QED
    BY <2>1 DEF Age
<1>2. \A o \in Op : Version(o) \in Put \cup {None}
  BY OpFacts DEF Version, TypeOK
<1> QED
  BY <1>1, <1>2 DEF TypeOK

(* A node that executes nothing and opens no call keeps its order.         *)
LEMMA QuietNode ==
  ASSUME TypeOK, Control, Known, [Next]_vars, NEW n \in Node, OrderAt(n),
         db'[n] = db[n], Done(n)' \subseteq Done(n), Open(n)' \subseteq Open(n)
  PROVE  OrderAt(n)'
<1>1. \A o \in Op : rpc[o][n] # "none" => (Age(Version(o)))' = Age(Version(o))
  BY VersionSteps
<1>2. \A o \in Done(n) \cup Open(n) : o \in Op /\ rpc[o][n] # "none"
  BY DEF Done, Open
<1>3. Age(db[n])' = Age(db[n])
  <2>1. db[n] \in Started
    BY DEF Known
  <2>2. \A v \in Started : (Age(v))' = Age(v)
    BY AgeSteps
  <2> QED
    BY <2>1, <2>2 DEF Age
<1> QED
  BY <1>1, <1>2, <1>3 DEF OrderAt

(* The order of executed, stored and open versions is kept by every step.  *)
LEMMA OrderSteps ==
  ASSUME TypeOK, TypeOK', Control, Known, Order, [Next]_vars
  PROVE  Order'
<1> SUFFICES ASSUME NEW m \in Node, m \notin raced' PROVE OrderAt(m)'
  BY DEF Order
<1>1. m \notin raced
  BY DEF Next, Step, vars, StartPut, EndWrites, SendHint, HintFails, FinishPut,
     Timeout, StoreHint, LoseHint, SkipWrite, CheckNewer, WriteEntry, LoseWrite, StartGet,
     ReadReplica, ReadFails, FinishGet, Abandon, Crash, Stop
<1>2. OrderAt(m)
  BY <1>1 DEF Order
<1>3. ASSUME db'[m] = db[m],
             \A o \in Op : rpc'[o][m] \in {"checked", "done"} => rpc'[o][m] = rpc[o][m]
      PROVE  OrderAt(m)'
  BY <1>2, <1>3, QuietNode DEF Done, Open
<1>4. CASE UNCHANGED <<db, rpc>>
  BY <1>3, <1>4
<1>5. ASSUME NEW p \in Put, NEW n \in Coordinator, NEW time \in Timestamp, StartPut(p, n, time)
      PROVE  OrderAt(m)'
  BY <1>3, <1>5 DEF StartPut, TypeOK
<1>6. ASSUME NEW o \in Op, NEW n \in Node, LoseWrite(o, n) PROVE OrderAt(m)'
  BY <1>3, <1>6 DEF LoseWrite, TypeOK
<1>7. ASSUME NEW g \in Get, FinishGet(g) PROVE OrderAt(m)'
  <2>1. \/ rpc' = rpc
        \/ \E f \in [Node -> {"none", "sent"}] : rpc' = [rpc EXCEPT ![g] = f]
    <3>1. CASE Cardinality(Acked(g)) < R
      BY <1>7, <3>1 DEF FinishGet
    <3>2. CASE ~(Cardinality(Acked(g)) < R)
      <4>1. PICK v : rpc' = [rpc EXCEPT ![g] =
                       [n \in Node |-> IF n \in Acked(g) /\ Age(seen[g][n]) < Age(v)
                                       THEN "sent" ELSE "none"]]
        BY <1>7, <3>2 DEF FinishGet
      <4> QED
        BY <4>1
    <3> QED
      BY <3>1, <3>2
  <2>2. \A o \in Op : rpc'[o][m] = rpc[o][m] \/ rpc'[o][m] \in {"none", "sent"}
    BY <2>1 DEF TypeOK
  <2>3. db' = db
    BY <1>7 DEF FinishGet
  <2> QED
    BY <1>3, <2>2, <2>3
<1>8. ASSUME NEW n \in Node, Crash(n) PROVE OrderAt(m)'
  <2>1. \A o \in Op : rpc'[o][m] = rpc[o][m] \/ rpc'[o][m] = "lost"
    BY <1>8 DEF Crash, Stop, TypeOK
  <2>2. db' = db
    BY <1>8 DEF Crash, Stop
  <2> QED
    BY <1>3, <2>1, <2>2
<1>9. ASSUME NEW o \in Op, NEW n \in Node, SkipWrite(o, n) \/ CheckNewer(o, n) \/ WriteEntry(o, n)
      PROVE  OrderAt(m)'
  <2>1. CASE m # n
    <3>1. db'[m] = db[m]
      BY <1>9, <2>1 DEF SkipWrite, CheckNewer, WriteEntry, TypeOK
    <3>2. \A u \in Op : rpc'[u][m] = rpc[u][m]
      <4>1. PICK x \in {"done", "checked"} : rpc' = [rpc EXCEPT ![o][n] = x]
        BY <1>9 DEF SkipWrite, CheckNewer, WriteEntry
      <4>2. rpc \in [Op -> [Node -> {"none", "sent", "checked", "done", "lost"}]]
        BY DEF TypeOK
      <4> QED
        BY <2>1, <4>1, <4>2
    <3> QED
      BY <1>3, <3>1, <3>2
  <2>2. CASE m = n
    <3> DEFINE V(u) == Age(Version(u))
    <3>1. \A u \in Op : rpc[u][n] # "none" => V(u)' = V(u)
      BY VersionSteps
    <3>2. V(o)' = V(o) /\ Version(o) \in Started /\ (Version(o))' = Version(o)
      BY <1>9, VersionSteps DEF SkipWrite, CheckNewer, WriteEntry
    <3>3. \A u \in Op : V(u) \in Int
      BY AgeType
    <3>4. Age(db[n]) \in Int
      BY AgeType
    <3>5. \A v \in Started : (Age(v))' = Age(v)
      BY AgeSteps
    <3>6. \A u \in Op : u # o => rpc'[u][n] = rpc[u][n]
      BY <1>9 DEF SkipWrite, CheckNewer, WriteEntry, TypeOK
    <3>7. /\ \A u \in Done(n) \cup Open(n) : u \in Op /\ rpc[u][n] # "none"
          /\ db[n] \in Started
      BY DEF Done, Open, Known
    <3>8. /\ \A u \in Done(n) : V(u) <= Age(db[n])
          /\ \A u \in Open(n) : Age(db[n]) <= V(u)
          /\ \A u, w \in Open(n) : V(u) = V(w)
      BY <1>2, <2>2 DEF OrderAt
    <3>9. CASE SkipWrite(o, n)
      <4>1. rpc'[o][n] = "done" /\ db' = db /\ V(o) <= Age(db[n])
        BY <3>3, <3>4, <3>9 DEF SkipWrite, TypeOK
      <4>2. Done(n)' \subseteq Done(n) \cup {o} /\ Open(n)' \subseteq Open(n)
        BY <3>6, <4>1 DEF Done, Open
      <4>3. Age(db[n])' = Age(db[n])
        BY <3>5, <3>7, <4>1 DEF Age
      <4> QED
        BY <2>2, <3>1, <3>2, <3>7, <3>8, <4>1, <4>2, <4>3 DEF OrderAt
    <3>10. CASE CheckNewer(o, n)
      <4>1. rpc'[o][n] = "checked" /\ db' = db /\ Age(db[n]) < V(o)
        BY <3>10 DEF CheckNewer, TypeOK
      <4>2. Done(n)' \subseteq Done(n) /\ Open(n)' \subseteq Open(n) \cup {o}
        BY <3>6, <4>1 DEF Done, Open
      <4>3. Age(db[n])' = Age(db[n])
        BY <3>5, <3>7, <4>1 DEF Age
      <4>4. \A u \in Open(n) : V(u) = V(o)
        BY <2>2, <3>10 DEF CheckNewer
      <4>5. Age(db[n]) <= V(o)
        BY <3>3, <3>4, <4>1
      <4> QED
        BY <2>2, <3>1, <3>2, <3>7, <3>8, <4>2, <4>3, <4>4, <4>5 DEF OrderAt
    <3>11. CASE WriteEntry(o, n)
      <4>1. rpc'[o][n] = "done" /\ db'[n] = Version(o) /\ o \in Open(n)
        BY <3>11 DEF WriteEntry, Open, TypeOK
      <4>2. Done(n)' \subseteq Done(n) \cup {o} /\ Open(n)' \subseteq Open(n)
        BY <3>6, <4>1 DEF Done, Open
      <4>3. Age(db[n])' = V(o)
        BY <3>2, <3>5, <4>1 DEF Age
      <4>4. \A u \in Open(n) : V(u) = V(o)
        BY <3>8, <4>1
      <4>5. \A u \in Done(n) : V(u) <= V(o)
        BY <3>3, <3>4, <3>7, <3>8, <4>1
      <4>6. V(o) <= V(o)
        BY <3>3
      <4> QED
        BY <2>2, <3>1, <3>2, <3>7, <4>2, <4>3, <4>4, <4>5, <4>6 DEF OrderAt
    <3> QED
      BY <1>9, <3>9, <3>10, <3>11
  <2> QED
    BY <2>1, <2>2
<1> QED
  BY <1>4, <1>5, <1>6, <1>7, <1>8, <1>9 DEF Next, Step, vars, EndWrites, SendHint, HintFails, FinishPut,
     Timeout, StoreHint, LoseHint, StartGet, ReadReplica, ReadFails, Abandon

(* A node that once raced stays marked.                                    *)
LEMMA RacedSteps ==
  ASSUME [Next]_vars
  PROVE  raced \subseteq raced'
BY DEF Next, Step, vars, StartPut, EndWrites, SendHint, HintFails, FinishPut, Timeout, StoreHint,
   LoseHint, SkipWrite, CheckNewer, WriteEntry, LoseWrite, StartGet, ReadReplica, ReadFails,
   FinishGet, Abandon, Crash, Stop

(* A step that shows a get nothing new, and acknowledges neither a get nor *)
(* a put that has already succeeded, keeps what the get has seen fresh.    *)
LEMMA QuietRead ==
  ASSUME TypeOK, Control, Known, [Next]_vars, NEW g \in Get, Fresh(g) /\ Wins(g),
         UNCHANGED <<seen[g], before[g], winner[g]>>,
         phase'[g] = "ok" => phase[g] = "ok",
         \A o \in Op, n \in Preferred :
           (o = g \/ phase[o] = "ok") /\ reply'[o][n] = "ok" => reply[o][n] = "ok"
  PROVE  Fresh(g)' /\ Wins(g)'
<1>1. \A n \in Node : (Age(seen[g][n]))' = Age(seen[g][n])
  <2>1. \A n \in Node : seen[g][n] \in Started /\ seen'[g][n] = seen[g][n]
    BY DEF Known
  <2>2. \A v \in Started : (Age(v))' = Age(v)
    BY AgeSteps
  <2> QED
    BY <2>1, <2>2 DEF Age
<1>2. (Age(winner[g]))' = Age(winner[g])
  <2>1. winner[g] \in Started /\ winner'[g] = winner[g]
    BY DEF Known
  <2>2. \A v \in Started : (Age(v))' = Age(v)
    BY AgeSteps
  <2> QED
    BY <2>1, <2>2 DEF Age
<1>3. \A p \in before[g] : p \in Put /\ p \in Op /\ phase[p] = "ok" /\ ts'[p] = ts[p]
  <2>1. \A p \in before[g] : p \in Put /\ phase[p] = "ok"
    BY DEF TypeOK, Control, BeforeOk
  <2>2. \A p \in Put : p \in Started => (Age(p))' = Age(p)
    BY AgeSteps
  <2> QED
    BY <2>1, <2>2, OpFacts, OpAssumption DEF Started, Age
<1>4. Fresh(g)'
  <2> SUFFICES ASSUME NEW p \in before[g], NEW n \in Preferred, n \notin raced',
                      reply'[p][n] = "ok", reply'[g][n] = "ok"
               PROVE  ts'[p] <= (Age(seen[g][n]))'
    BY DEF Fresh
  <2>1. n \notin raced /\ n \in Node
    BY RacedSteps, RingFacts
  <2>2. reply[p][n] = "ok" /\ reply[g][n] = "ok"
    BY <1>3, OpFacts
  <2>3. ts[p] <= Age(seen[g][n])
    BY <2>1, <2>2 DEF Fresh
  <2> QED
    BY <1>1, <1>3, <2>1, <2>3
<1>5. Wins(g)'
  <2> SUFFICES ASSUME phase'[g] = "ok", NEW n \in Preferred, reply'[g][n] = "ok"
               PROVE  (Age(seen[g][n]))' <= (Age(winner[g]))'
    BY DEF Wins, Acked
  <2>1. n \in Acked(g) /\ n \in Node
    BY OpFacts, RingFacts DEF Acked
  <2> QED
    BY <1>1, <1>2, <2>1 DEF Wins
<1> QED
  BY <1>4, <1>5

(* What gets have seen and returned stays fresh under every step.          *)
LEMMA ReadsSteps ==
  ASSUME TypeOK, TypeOK', Control, Known, Order, Reads, [Next]_vars
  PROVE  Reads'
<1> SUFFICES ASSUME NEW h \in Get PROVE Fresh(h)' /\ Wins(h)'
  BY DEF Reads
<1>1. Fresh(h) /\ Wins(h) /\ h \in Op
  BY OpFacts DEF Reads
<1>2. ASSUME UNCHANGED <<seen, before, winner>>, phase'[h] = "ok" => phase[h] = "ok",
             \A o \in Op, n \in Preferred :
               (o = h \/ phase[o] = "ok") /\ reply'[o][n] = "ok" => reply[o][n] = "ok"
      PROVE  Fresh(h)' /\ Wins(h)'
  BY <1>1, <1>2, QuietRead
<1>3. CASE UNCHANGED <<seen, before, winner, reply>> /\ (phase'[h] = "ok" => phase[h] = "ok")
  BY <1>2, <1>3
<1>4. ASSUME NEW p \in Put, NEW n \in Coordinator, NEW time \in Timestamp, StartPut(p, n, time)
      PROVE  Fresh(h)' /\ Wins(h)'
  BY <1>2, <1>4, OpFacts, RingFacts DEF StartPut, readVars, TypeOK
<1>5. ASSUME NEW p \in Put, NEW n \in Node, Timeout(p, n)
      PROVE  Fresh(h)' /\ Wins(h)'
  <2>1. \A o \in Op, m \in Node : reply'[o][m] = reply[o][m] \/ reply'[o][m] = "err"
    BY <1>5 DEF Timeout, TypeOK
  <2> QED
    BY <1>2, <1>5, <2>1, RingFacts DEF Timeout, readVars, coordVars
<1>6. ASSUME NEW o \in Op, NEW n \in Node, SkipWrite(o, n) \/ WriteEntry(o, n)
      PROVE  Fresh(h)' /\ Wins(h)'
  <2>1. rpc[o][n] # "none" /\ UNCHANGED <<seen, before, winner, phase>>
    BY <1>6 DEF SkipWrite, WriteEntry, readVars
  <2>2. \A u \in Op, m \in Node :
          \/ reply'[u][m] = reply[u][m]
          \/ u = o /\ m = n /\ reply[o][n] = "wait"
    <3>1. CASE reply' = reply
      BY <3>1
    <3>2. CASE reply' = [reply EXCEPT ![o][n] = "ok"] /\ reply[o][n] = "wait"
      <4>1. \A u \in Op : u # o => reply'[u] = reply[u]
        BY <3>2 DEF TypeOK
      <4>2. reply'[o] = [reply[o] EXCEPT ![n] = "ok"]
            /\ reply[o] \in [Node -> {"none", "wait", "ok", "err"}]
        BY <3>2 DEF TypeOK
      <4> QED
        BY <3>2, <4>1, <4>2
    <3> QED
      BY <1>6, <3>1, <3>2 DEF SkipWrite, WriteEntry, Acknowledge
  <2>3. ASSUME NEW u \in Op, NEW m \in Preferred, u = h \/ phase[u] = "ok", reply'[u][m] = "ok"
        PROVE  reply[u][m] = "ok"
    <3>1. CASE phase[u] = "ok"
      <4>1. reply[u][m] \in {"ok", "err"}
        BY <3>1 DEF Control, RepliesIn, AllReplied
      <4> QED
        BY <2>2, <2>3, <4>1, RingFacts
    <3>2. CASE u = h /\ phase[h] # "ok"
      <4>1. u # o
        BY <2>1, <3>2 DEF Control, RepairsLast
      <4> QED
        BY <2>2, <2>3, <4>1, RingFacts
    <3> QED
      BY <2>3, <3>1, <3>2
  <2> QED
    BY <1>2, <2>1, <2>3
<1>7. ASSUME NEW o \in Op, NEW n \in Node, LoseWrite(o, n)
      PROVE  Fresh(h)' /\ Wins(h)'
  <2>1. \A u \in Op, m \in Node : reply'[u][m] = reply[u][m] \/ reply'[u][m] = "err"
    BY <1>7 DEF LoseWrite, TypeOK
  <2> QED
    BY <1>2, <1>7, <2>1, RingFacts DEF LoseWrite, readVars, coordVars
<1>8. ASSUME NEW g \in Get, NEW n \in Coordinator, StartGet(g, n)
      PROVE  Fresh(h)' /\ Wins(h)'
  <2>1. CASE g = h
    <3>1. \A m \in Node : reply'[h][m] # "ok"
      BY <1>8, <1>1, <2>1 DEF StartGet, TypeOK
    <3>2. phase'[h] # "ok"
      BY <1>8, <1>1, <2>1 DEF StartGet, TypeOK
    <3> QED
      BY <3>1, <3>2, RingFacts DEF Fresh, Wins
  <2>2. CASE g # h
    <3>1. UNCHANGED <<seen[h], before[h], winner[h]>> /\ phase'[h] = phase[h]
      BY <1>8, <2>2 DEF StartGet, TypeOK
    <3>2. \A o \in Op, m \in Preferred : reply'[o][m] = "ok" => reply[o][m] = "ok"
      BY <1>8, RingFacts DEF StartGet, TypeOK
    <3> QED
      BY <1>1, <3>1, <3>2, QuietRead
  <2> QED
    BY <2>1, <2>2
<1>9. ASSUME NEW g \in Get, NEW n \in Node, ReadReplica(g, n)
      PROVE  Fresh(h)' /\ Wins(h)'
  <2>1. UNCHANGED <<before, winner, phase, ts, db>> /\ phase[g] = "reading"
    BY <1>9 DEF ReadReplica, coordVars
  <2>2. CASE g # h
    <3>1. seen'[h] = seen[h] /\ reply'[h] = reply[h]
      BY <1>9, <1>1, <2>2 DEF ReadReplica, TypeOK
    <3>2. \A o \in Op : o # g => reply'[o] = reply[o]
      BY <1>9 DEF ReadReplica, TypeOK
    <3>3. \A o \in Op, m \in Preferred :
            (o = h \/ phase[o] = "ok") /\ reply'[o][m] = "ok" => reply[o][m] = "ok"
      BY <2>1, <2>2, <3>2
    <3> QED
      BY <1>1, <2>1, <3>1, <3>3, QuietRead
  <2>3. CASE g = h
    <3>1. Wins(h)'
      BY <2>1, <2>3 DEF Wins
    <3>2. /\ \A m \in Node : m # n => seen'[h][m] = seen[h][m] /\ reply'[h][m] = reply[h][m]
          /\ seen'[h][n] = db[n]
          /\ \A o \in Op : o # h => reply'[o] = reply[o]
      <4>1. seen' = [seen EXCEPT ![h][n] = db[n]] /\ reply' = [reply EXCEPT ![h][n] = "ok"]
        BY <1>9, <2>3 DEF ReadReplica
      <4>2. seen[h] \in [Node -> Put \cup {None}] /\ seen'[h] = [seen[h] EXCEPT ![n] = db[n]]
        BY <4>1 DEF TypeOK
      <4>3. /\ reply[h] \in [Node -> {"none", "wait", "ok", "err"}]
            /\ reply'[h] = [reply[h] EXCEPT ![n] = "ok"]
            /\ \A o \in Op : o # h => reply'[o] = reply[o]
        BY <1>1, <4>1 DEF TypeOK
      <4> QED
        BY <4>2, <4>3
    <3>3. Fresh(h)'
      <4> SUFFICES ASSUME NEW p \in before[h], NEW m \in Preferred, m \notin raced',
                          reply'[p][m] = "ok", reply'[h][m] = "ok"
                   PROVE  ts[p] <= (Age(seen[h][m]))'
        BY <2>1 DEF Fresh
      <4>1. p \in Put /\ p \in Op /\ p # h /\ m \in Node /\ m \notin raced
        BY OpFacts, RacedSteps, RingFacts DEF TypeOK
      <4>2. reply[p][m] = "ok"
        BY <3>2, <4>1
      <4>3. CASE m # n
        <5>1. ts[p] <= Age(seen[h][m]) /\ seen'[h][m] = seen[h][m]
          BY <1>1, <3>2, <4>1, <4>2, <4>3 DEF Fresh
        <5> QED
          BY <2>1, <5>1 DEF Age
      <4>4. CASE m = n
        <5>1. rpc[p][n] = "done"
          BY <4>1, <4>2, <4>4 DEF Control, AckedDone
        <5>2. Age(Version(p)) <= Age(db[n])
          BY <4>1, <4>4, <5>1 DEF Order, OrderAt, Done
        <5>3. Age(Version(p)) = ts[p]
          BY <4>1, OpAssumption DEF Version, Age
        <5>4. (Age(seen[h][m]))' = Age(db[n])
          BY <2>1, <3>2, <4>4 DEF Age
        <5> QED
          BY <5>2, <5>3, <5>4
      <4> QED
        BY <4>3, <4>4
    <3> QED
      BY <3>1, <3>3
  <2> QED
    BY <2>2, <2>3
<1>10. ASSUME NEW g \in Get, NEW n \in Node, ReadFails(g, n)
       PROVE  Fresh(h)' /\ Wins(h)'
  <2>1. \A u \in Op, m \in Node : reply'[u][m] = reply[u][m] \/ reply'[u][m] = "err"
    BY <1>10 DEF ReadFails, TypeOK
  <2> QED
    BY <1>2, <1>10, <2>1, RingFacts DEF ReadFails, readVars, coordVars
<1>11. ASSUME NEW g \in Get, FinishGet(g)
       PROVE  Fresh(h)' /\ Wins(h)'
  <2>1. UNCHANGED <<seen, before, reply, ts, raced>>
    BY <1>11 DEF FinishGet
  <2>2. Fresh(h)'
    BY <1>1, <2>1 DEF Fresh, Age
  <2>3. CASE phase'[h] = phase[h] /\ winner'[h] = winner[h]
    BY <1>1, <2>1, <2>2, <2>3 DEF Wins, Acked, Age
  <2>4. CASE g = h
    <3>1. CASE Cardinality(Acked(g)) < R
      BY <1>1, <1>11, <2>2, <2>4, <3>1 DEF FinishGet, Wins, TypeOK
    <3>2. CASE ~(Cardinality(Acked(g)) < R)
      <4>1. PICK v : /\ \A n \in Acked(g) : Age(seen[g][n]) <= Age(v)
                     /\ winner' = [winner EXCEPT ![g] = v]
        BY <1>11, <3>2 DEF FinishGet
      <4>2. winner'[h] = v
        BY <2>4, <4>1 DEF TypeOK
      <4> QED
        BY <2>1, <2>2, <2>4, <4>1, <4>2 DEF Wins, Acked, Age
    <3> QED
      BY <3>1, <3>2
  <2>5. CASE g # h
    BY <1>1, <1>11, <2>3, <2>5 DEF FinishGet, TypeOK
  <2> QED
    BY <2>4, <2>5
<1>12. ASSUME NEW o \in Op, Abandon(o)
       PROVE  Fresh(h)' /\ Wins(h)'
  <2>1. \A u \in Op, m \in Node : reply'[u][m] = reply[u][m] \/ reply'[u][m] = "err"
    BY <1>12 DEF Abandon, TypeOK
  <2>2. phase'[h] = "ok" => phase[h] = "ok"
    BY <1>1, <1>12 DEF Abandon, TypeOK
  <2> QED
    BY <1>2, <1>12, <2>1, <2>2, RingFacts DEF Abandon, readVars
<1>13. ASSUME NEW n \in Node, Crash(n)
       PROVE  Fresh(h)' /\ Wins(h)'
  <2>1. \A u \in Op, m \in Node : reply'[u][m] = reply[u][m] \/ reply'[u][m] = "err"
    BY <1>13 DEF Crash, Stop, TypeOK
  <2>2. phase'[h] = "ok" => phase[h] = "ok"
    BY <1>1, <1>13 DEF Crash, Stop, TypeOK
  <2> QED
    BY <1>2, <1>13, <2>1, <2>2, RingFacts DEF Crash, Stop, readVars
<1>14. ASSUME NEW p \in Put,
              EndWrites(p) \/ SendHint(p) \/ HintFails(p) \/ FinishPut(p)
                \/ \E n \in Node : StoreHint(p, n) \/ LoseHint(p, n)
       PROVE  Fresh(h)' /\ Wins(h)'
  <2>1. UNCHANGED <<seen, before, winner, reply>>
    BY <1>14 DEF EndWrites, SendHint, HintFails, FinishPut, StoreHint, LoseHint, readVars
  <2>2. phase'[h] = phase[h]
    BY <1>1, <1>14, OpFacts DEF EndWrites, SendHint, HintFails, FinishPut, StoreHint, LoseHint,
       coordVars, TypeOK
  <2> QED
    BY <1>3, <2>1, <2>2
<1>15. ASSUME NEW o \in Op, NEW n \in Node, CheckNewer(o, n)
       PROVE  Fresh(h)' /\ Wins(h)'
  BY <1>3, <1>15 DEF CheckNewer, readVars, coordVars
<1>16. CASE UNCHANGED vars
  BY <1>3, <1>16 DEF vars, readVars, coordVars
<1> QED
  BY <1>4, <1>5, <1>6, <1>7, <1>8, <1>9, <1>10, <1>11, <1>12, <1>13, <1>14, <1>15, <1>16 DEF Next, Step

(* There are at most N preferred nodes, and no more than a finite number.  *)
LEMMA PreferredFacts ==
  IsFiniteSet(Preferred) /\ Cardinality(Preferred) \in Nat /\ Cardinality(Preferred) <= N
<1> DEFINE f == [i \in 1 .. N |-> Ring[i]]
<1>1. f \in Surjection(1 .. N, Preferred)
  BY DEF Surjection, Preferred
<1>2. IsFiniteSet(1 .. N) /\ Cardinality(1 .. N) = N
  BY RingFacts, FS_Interval, RingAssumption
<1> HIDE DEF f
<1>3. IsFiniteSet(Preferred) /\ Cardinality(Preferred) <= N
  BY <1>1, <1>2, FS_Surjection
<1> QED
  BY <1>3, FS_CardinalityType

(* Two sets of preferred nodes that together count more than N and the     *)
(* raced nodes have a node in common that has not raced.                   *)
LEMMA QuorumsMeet ==
  ASSUME NEW A \in SUBSET Preferred, NEW B \in SUBSET Preferred, NEW C,
         Cardinality(A) + Cardinality(B) > N + Cardinality(C \cap Preferred)
  PROVE  \E n \in A \cap B : n \notin C
<1>1. IsFiniteSet(A) /\ IsFiniteSet(B) /\ IsFiniteSet(A \cup B) /\ IsFiniteSet(A \cap B)
  BY PreferredFacts, FS_Subset, FS_Union, FS_Intersection
<1>2. Cardinality(A \cup B) = Cardinality(A) + Cardinality(B) - Cardinality(A \cap B)
  BY <1>1, FS_Union
<1>3. Cardinality(A \cup B) <= N
  <2>1. A \cup B \in SUBSET Preferred
    OBVIOUS
  <2>2. Cardinality(A \cup B) <= Cardinality(Preferred)
    BY <2>1, PreferredFacts, FS_Subset
  <2> QED
    BY <1>1, <2>2, PreferredFacts, RingFacts, FS_CardinalityType
<1>4. IsFiniteSet(C \cap Preferred)
  BY PreferredFacts, FS_Intersection
<1>5. /\ Cardinality(A) \in Nat /\ Cardinality(B) \in Nat /\ Cardinality(A \cap B) \in Nat
      /\ Cardinality(A \cup B) \in Nat /\ Cardinality(C \cap Preferred) \in Nat
  BY <1>1, <1>4, FS_CardinalityType
<1>6. Cardinality(A \cap B) > Cardinality(C \cap Preferred)
  BY <1>2, <1>3, <1>5, RingFacts
<1>7. SUFFICES ASSUME A \cap B \subseteq C PROVE FALSE
  OBVIOUS
<1>8. A \cap B \in SUBSET (C \cap Preferred)
  BY <1>7
<1>9. Cardinality(A \cap B) <= Cardinality(C \cap Preferred)
  BY <1>4, <1>8, FS_Subset
<1> QED
  BY <1>5, <1>6, <1>9

(* Where the answers and acknowledgements meet, what the get returns is at *)
(* least as new as the put.                                                *)
LEMMA FreshWhereQuorumsMeet ==
  ASSUME TypeOK, Reads PROVE QuorumFreshness
<1> SUFFICES ASSUME NEW g \in Get, phase[g] = "ok", NEW p \in before[g],
                    Cardinality(Acked(p)) + Cardinality(Acked(g))
                      > N + Cardinality(raced \cap Preferred)
             PROVE  Age(winner[g]) >= ts[p]
  BY DEF QuorumFreshness
<1>1. PICK n \in Acked(p) \cap Acked(g) : n \notin raced
  <2>1. Acked(p) \in SUBSET Preferred /\ Acked(g) \in SUBSET Preferred
    BY DEF Acked
  <2> QED
    BY <2>1, QuorumsMeet
<1>2. n \in Preferred \ raced /\ reply[p][n] = "ok" /\ reply[g][n] = "ok" /\ n \in Node
  BY <1>1, RingFacts DEF Acked
<1>3. ts[p] <= Age(seen[g][n])
  BY <1>2 DEF Reads, Fresh
<1>4. Age(seen[g][n]) <= Age(winner[g])
  BY <1>1 DEF Reads, Wins
<1>5. seen[g][n] \in Put \cup {None} /\ winner[g] \in Put \cup {None} /\ p \in Put
  BY <1>2 DEF TypeOK
<1>6. Age(seen[g][n]) \in Int /\ Age(winner[g]) \in Int
  BY <1>5, AgeType
<1>7. ts[p] \in Int
  BY <1>5, AgeType, OpAssumption DEF Age, Op
<1> QED
  BY <1>3, <1>4, <1>6, <1>7

(* The inductive invariant holds in every state of every behaviour.        *)
LEMMA InvariantHolds == Spec => [](TypeOK /\ Control /\ Known /\ Order /\ Reads)
<1>1. Init => Control /\ Known /\ Order /\ Reads
  <2> SUFFICES ASSUME Init PROVE Control /\ Known /\ Order /\ Reads
    OBVIOUS
  <2>1. Control
    BY OpFacts DEF Init, Control, RepliesIn, RepairsLast, WritesStarted, BeforeOk, AckedDone
  <2>2. Known
    BY DEF Init, Known, Started
  <2>3. Order
    BY DEF Init, Order, OrderAt, Done, Open
  <2>4. Reads
    BY OpFacts DEF Init, Reads, Fresh, Wins
  <2> QED
    BY <2>1, <2>2, <2>3, <2>4
<1>2. TypeOK /\ TypeOK' /\ Control /\ Known /\ Order /\ Reads /\ [Next]_vars
        => (Control /\ Known /\ Order /\ Reads)'
  <2> SUFFICES ASSUME TypeOK, TypeOK', Control, Known, Order, Reads, [Next]_vars
               PROVE  Control' /\ Known' /\ Order' /\ Reads'
    OBVIOUS
  <2> QED
    BY ControlSteps, KnownSteps, OrderSteps, ReadsSteps
<1> QED
  BY <1>1, <1>2, TypeCorrect, PTL DEF Spec

(* ExecutedIsKept for every number of nodes, requests and worker threads:  *)
(* put_if_newer calls that do not overlap never replace a version that a   *)
(* replica executed by an older one, late executions and repairs included. *)
THEOREM ExecutedKept == Spec => []ExecutedIsKept
<1>1. TypeOK /\ Order => ExecutedIsKept
  <2> SUFFICES ASSUME TypeOK, Order, NEW o \in Op, NEW n \in Node \ raced, rpc[o][n] = "done"
               PROVE  Age(db[n]) >= Age(Version(o))
    BY DEF ExecutedIsKept
  <2>1. Age(Version(o)) <= Age(db[n])
    BY DEF Order, OrderAt, Done
  <2>2. Age(Version(o)) \in Int /\ Age(db[n]) \in Int
    BY AgeType
  <2> QED
    BY <2>1, <2>2
<1> QED
  BY <1>1, InvariantHolds, PTL

(* QuorumFreshness for every N, W and R: a get whose answers intersect the *)
(* acknowledgements of an earlier put at a node that has not raced returns *)
(* that put or a newer one.                                                *)
THEOREM QuorumsAreFresh == Spec => []QuorumFreshness
BY FreshWhereQuorumsMeet, InvariantHolds, PTL

-----------------------------------------------------------------------------
(* What read repair rests on: where calls did not overlap, an answer to a   *)
(* get is no newer than what the replica stores since; an answer of a       *)
(* finished get that is not repaired is as new as the winner; and a put     *)
(* that started has its timestamp from the clock.                           *)
SeenKept == \A g \in Get, n \in Preferred \ raced :
  reply[g][n] = "ok" => Age(seen[g][n]) <= Age(db[n])
Spared == \A g \in Get, n \in Preferred :
  phase[g] = "ok" /\ reply[g][n] = "ok" /\ rpc[g][n] = "none" => Age(winner[g]) <= Age(seen[g][n])
Stamped == \A p \in Put : phase[p] # "idle" => ts[p] \in Timestamp

(* An answer that a get has was there before the step or has just been     *)
(* read.                                                                   *)
LEMMA AnswerSteps ==
  ASSUME TypeOK, Control, [Next]_vars, NEW h \in Get, NEW m \in Preferred, reply'[h][m] = "ok"
  PROVE  \/ reply[h][m] = "ok" /\ seen'[h][m] = seen[h][m]
         \/ seen'[h][m] = db[m] /\ db' = db /\ phase[h] = "reading"
<1>1. h \in Op /\ m \in Node
  BY OpFacts, RingFacts
<1>2. CASE seen' = seen /\ \A o \in Op, n \in Node : reply'[o][n] = "ok" => reply[o][n] = "ok"
  BY <1>1, <1>2
<1>3. CASE UNCHANGED <<seen, reply>>
  BY <1>3
<1>4. ASSUME NEW p \in Put, NEW n \in Coordinator, NEW time \in Timestamp, StartPut(p, n, time)
      PROVE  reply[h][m] = "ok" /\ seen'[h][m] = seen[h][m]
  BY <1>4, OpFacts DEF StartPut, readVars, TypeOK
<1>5. ASSUME NEW p \in Put, NEW n \in Node, Timeout(p, n)
      PROVE  reply[h][m] = "ok" /\ seen'[h][m] = seen[h][m]
  BY <1>5, OpFacts DEF Timeout, readVars, TypeOK
<1>6. ASSUME NEW o \in Op, NEW n \in Node, SkipWrite(o, n) \/ WriteEntry(o, n)
      PROVE  reply[h][m] = "ok" /\ seen'[h][m] = seen[h][m]
  <2>1. rpc[o][n] # "none" /\ seen' = seen
    BY <1>6 DEF SkipWrite, WriteEntry, readVars
  <2>2. reply' = reply \/ (reply' = [reply EXCEPT ![o][n] = "ok"] /\ reply[o][n] = "wait")
    BY <1>6 DEF SkipWrite, WriteEntry, Acknowledge
  <2>3. CASE o = h /\ n = m
    <3>1. phase[h] = "ok"
      BY <2>1, <2>3 DEF Control, RepairsLast
    <3>2. reply[o][n] # "wait"
      BY <1>1, <2>3, <3>1 DEF Control, RepliesIn, AllReplied
    <3> QED
      BY <2>1, <2>2, <3>2
  <2>4. CASE ~(o = h /\ n = m)
    <3>1. reply'[h][m] = reply[h][m]
      <4>1. CASE reply' = reply
        BY <4>1
      <4>2. CASE reply' = [reply EXCEPT ![o][n] = "ok"]
        <5>1. /\ reply[o] \in [Node -> {"none", "wait", "ok", "err"}]
              /\ reply'[o] = [reply[o] EXCEPT ![n] = "ok"]
              /\ o # h => reply'[h] = reply[h]
          BY <1>1, <4>2 DEF TypeOK
        <5> QED
          BY <1>1, <2>4, <5>1
      <4> QED
        BY <2>2, <4>1, <4>2
    <3> QED
      BY <2>1, <3>1
  <2> QED
    BY <2>3, <2>4
<1>7. ASSUME NEW o \in Op, NEW n \in Node, LoseWrite(o, n)
      PROVE  reply[h][m] = "ok" /\ seen'[h][m] = seen[h][m]
  <2>1. reply'[h][m] = reply[h][m] \/ reply'[h][m] = "err"
    BY <1>1, <1>7 DEF LoseWrite, TypeOK
  <2> QED
    BY <1>7, <2>1 DEF LoseWrite, readVars
<1>8. ASSUME NEW g \in Get, NEW n \in Coordinator, StartGet(g, n)
      PROVE  reply[h][m] = "ok" /\ seen'[h][m] = seen[h][m]
  BY <1>1, <1>8, OpFacts DEF StartGet, TypeOK
<1>9. ASSUME NEW g \in Get, NEW n \in Node, ReadReplica(g, n)
      PROVE  \/ reply[h][m] = "ok" /\ seen'[h][m] = seen[h][m]
             \/ seen'[h][m] = db[m] /\ db' = db /\ phase[h] = "reading"
  <2>1. CASE g = h /\ n = m
    BY <1>9, <2>1 DEF ReadReplica, TypeOK
  <2>2. CASE ~(g = h /\ n = m)
    <3>1. reply'[h][m] = reply[h][m] /\ seen'[h][m] = seen[h][m]
      BY <1>1, <1>9, <2>2, OpFacts DEF ReadReplica, TypeOK
    <3> QED
      BY <3>1
  <2> QED
    BY <2>1, <2>2
<1>10. ASSUME NEW g \in Get, NEW n \in Node, ReadFails(g, n)
       PROVE  reply[h][m] = "ok" /\ seen'[h][m] = seen[h][m]
  <2>1. reply'[h][m] = reply[h][m] \/ reply'[h][m] = "err"
    BY <1>1, <1>10 DEF ReadFails, TypeOK
  <2> QED
    BY <1>10, <2>1 DEF ReadFails, readVars
<1>11. ASSUME NEW o \in Op, Abandon(o)
       PROVE  reply[h][m] = "ok" /\ seen'[h][m] = seen[h][m]
  <2>1. reply'[h][m] = reply[h][m] \/ reply'[h][m] = "err"
    BY <1>1, <1>11 DEF Abandon, TypeOK
  <2> QED
    BY <1>11, <2>1 DEF Abandon, readVars
<1>12. ASSUME NEW n \in Node, Crash(n)
       PROVE  reply[h][m] = "ok" /\ seen'[h][m] = seen[h][m]
  <2>1. reply'[h][m] = reply[h][m] \/ reply'[h][m] = "err"
    BY <1>1, <1>12 DEF Crash, Stop, TypeOK
  <2> QED
    BY <1>12, <2>1 DEF Crash, Stop, readVars
<1> QED
  BY <1>3, <1>4, <1>5, <1>6, <1>7, <1>8, <1>9, <1>10, <1>11, <1>12 DEF Next, Step, vars, readVars,
     EndWrites, SendHint, HintFails, FinishPut, StoreHint, LoseHint, CheckNewer, FinishGet

(* A replica changes only by what an open call writes.                     *)
LEMMA StoreSteps ==
  ASSUME TypeOK, [Next]_vars, NEW m \in Node
  PROVE  db'[m] = db[m] \/ \E o \in Open(m) : db'[m] = Version(o)
<1>1. ASSUME NEW o \in Op, NEW n \in Node, WriteEntry(o, n)
      PROVE  db'[m] = db[m] \/ \E u \in Open(m) : db'[m] = Version(u)
  BY <1>1 DEF WriteEntry, Open, TypeOK
<1>2. CASE db' = db
  BY <1>2
<1> QED
  BY <1>1, <1>2 DEF Next, Step, vars, StartPut, EndWrites, SendHint, HintFails, FinishPut, Timeout,
     StoreHint, LoseHint, SkipWrite, CheckNewer, LoseWrite, StartGet, ReadReplica, ReadFails,
     FinishGet, Abandon, Crash, Stop

LEMMA SeenKeptSteps ==
  ASSUME TypeOK, TypeOK', Control, Known, Order, SeenKept, [Next]_vars
  PROVE  SeenKept'
<1> SUFFICES ASSUME NEW h \in Get, NEW m \in Preferred, m \notin raced', reply'[h][m] = "ok"
             PROVE  (Age(seen[h][m]))' <= (Age(db[m]))'
  BY DEF SeenKept
<1>1. m \notin raced /\ m \in Node
  BY RacedSteps, RingFacts
<1>2. /\ \A v \in Started : v \in Put \cup {None} /\ (Age(v))' = Age(v)
      /\ db[m] \in Started /\ seen[h][m] \in Started
      /\ \A v \in Put \cup {None} : Age(v) \in Int
  BY <1>1, AgeSteps, AgeType DEF Known, Started
<1>3. CASE seen'[h][m] = db[m] /\ db' = db
  <2>1. (Age(seen[h][m]))' = Age(db[m]) /\ (Age(db[m]))' = Age(db[m])
    BY <1>2, <1>3 DEF Age
  <2> QED
    BY <1>2, <2>1
<1>4. CASE reply[h][m] = "ok" /\ seen'[h][m] = seen[h][m]
  <2>1. (Age(seen[h][m]))' = Age(seen[h][m]) /\ Age(seen[h][m]) <= Age(db[m])
    BY <1>1, <1>2, <1>4 DEF Age, SeenKept
  <2>2. CASE db'[m] = db[m]
    <3>1. (Age(db[m]))' = Age(db[m])
      BY <1>2, <2>2 DEF Age
    <3> QED
      BY <2>1, <3>1
  <2>3. ASSUME NEW o \in Open(m), db'[m] = Version(o) PROVE (Age(db[m]))' >= Age(seen[h][m])
    <3>1. Age(db[m]) <= Age(Version(o)) /\ o \in Op /\ rpc[o][m] # "none"
      BY <1>1, <2>3 DEF Order, OrderAt, Open
    <3>2. Version(o) \in Started
      BY <1>1, <3>1, VersionSteps
    <3>3. (Age(db[m]))' = Age(Version(o)) /\ Age(Version(o)) \in Int
      BY <1>2, <2>3, <3>2 DEF Age
    <3> QED
      BY <1>2, <2>1, <3>1, <3>3
  <2>4. (Age(db[m]))' \in Int /\ Age(seen[h][m]) \in Int
    <3>1. ASSUME NEW o \in Open(m) PROVE Version(o) \in Started
      <4>1. o \in Op /\ rpc[o][m] # "none"
        BY DEF Open
      <4> QED
        BY <1>1, <4>1, VersionSteps
    <3>2. db'[m] \in Started
      BY <1>1, <1>2, <3>1, StoreSteps
    <3> QED
      BY <1>2, <3>2 DEF Age
  <2>5. db'[m] = db[m] \/ \E o \in Open(m) : db'[m] = Version(o)
    BY <1>1, StoreSteps
  <2> QED
    BY <2>1, <2>2, <2>3, <2>4, <2>5
<1> QED
  BY <1>3, <1>4, AnswerSteps

(* A finished get keeps what it has read and returned, and a repair that   *)
(* was sent has been sent.                                                 *)
LEMMA EndedGet ==
  ASSUME TypeOK, Control, [Next]_vars, NEW h \in Get, phase[h] = "ok", NEW m \in Node
  PROVE  /\ winner'[h] = winner[h]
         /\ rpc'[h][m] = "none" => rpc[h][m] = "none"
<1>1. h \in Op
  BY OpFacts
<1>2. CASE UNCHANGED <<winner, rpc>>
  BY <1>2
<1>3. ASSUME NEW p \in Put, NEW n \in Coordinator, NEW time \in Timestamp, StartPut(p, n, time)
      PROVE  winner'[h] = winner[h] /\ rpc'[h][m] = rpc[h][m]
  BY <1>1, <1>3, OpFacts DEF StartPut, readVars, TypeOK
<1>4. ASSUME NEW o \in Op, NEW n \in Node,
             SkipWrite(o, n) \/ CheckNewer(o, n) \/ WriteEntry(o, n) \/ LoseWrite(o, n)
      PROVE  winner'[h] = winner[h] /\ (rpc'[h][m] = "none" => rpc[h][m] = "none")
  BY <1>1, <1>4 DEF SkipWrite, CheckNewer, WriteEntry, LoseWrite, readVars, TypeOK
<1>5. ASSUME NEW g \in Get, FinishGet(g)
      PROVE  winner'[h] = winner[h] /\ rpc'[h][m] = rpc[h][m]
  <2>1. g # h
    BY <1>5 DEF FinishGet
  <2>2. \/ UNCHANGED <<winner, rpc>>
        \/ \E v, f : winner' = [winner EXCEPT ![g] = v] /\ rpc' = [rpc EXCEPT ![g] = f]
    BY <1>5 DEF FinishGet
  <2> QED
    BY <1>1, <2>1, <2>2 DEF TypeOK
<1>6. ASSUME NEW n \in Node, Crash(n)
      PROVE  winner'[h] = winner[h] /\ (rpc'[h][m] = "none" => rpc[h][m] = "none")
  BY <1>1, <1>6 DEF Crash, Stop, readVars, TypeOK
<1> QED
  BY <1>2, <1>3, <1>4, <1>5, <1>6 DEF Next, Step, vars, readVars, EndWrites, SendHint, HintFails,
     FinishPut, Timeout, StoreHint, LoseHint, StartGet, ReadReplica, ReadFails, Abandon

(* A get succeeds only by choosing its winner.                             *)
LEMMA OkByFinish ==
  ASSUME TypeOK, [Next]_vars, NEW h \in Get, phase'[h] = "ok"
  PROVE  phase[h] = "ok" \/ FinishGet(h)
<1>1. h \in Op /\ h \notin Put
  BY OpFacts
<1>2. ASSUME NEW p \in Put,
             \/ \E n \in Coordinator, time \in Timestamp : StartPut(p, n, time)
             \/ EndWrites(p) \/ SendHint(p) \/ HintFails(p) \/ FinishPut(p)
             \/ \E n \in Node : StoreHint(p, n)
      PROVE  phase[h] = "ok"
  BY <1>1, <1>2 DEF StartPut, EndWrites, SendHint, HintFails, FinishPut, StoreHint, TypeOK
<1>3. ASSUME NEW g \in Get, NEW n \in Coordinator, StartGet(g, n) PROVE phase[h] = "ok"
  BY <1>1, <1>3, OpFacts DEF StartGet, TypeOK
<1>4. ASSUME NEW g \in Get, FinishGet(g) PROVE phase[h] = "ok" \/ FinishGet(h)
  <2>1. \E s : phase' = [phase EXCEPT ![g] = s]
    BY <1>4 DEF FinishGet
  <2> QED
    BY <1>1, <1>4, <2>1, OpFacts DEF TypeOK
<1>5. ASSUME NEW o \in Op, Abandon(o) PROVE phase[h] = "ok"
  BY <1>1, <1>5 DEF Abandon, TypeOK
<1>6. ASSUME NEW n \in Node, Crash(n) PROVE phase[h] = "ok"
  BY <1>1, <1>6 DEF Crash, Stop, TypeOK
<1>7. CASE phase' = phase
  BY <1>7
<1> QED
  BY <1>2, <1>3, <1>4, <1>5, <1>6, <1>7 DEF Next, Step, vars, coordVars, Timeout, LoseHint,
     SkipWrite, CheckNewer, WriteEntry, LoseWrite, ReadReplica, ReadFails

LEMMA SparedSteps ==
  ASSUME TypeOK, TypeOK', Control, Known, Spared, [Next]_vars
  PROVE  Spared'
<1> SUFFICES ASSUME NEW h \in Get, NEW m \in Preferred,
                    phase'[h] = "ok", reply'[h][m] = "ok", rpc'[h][m] = "none"
             PROVE  (Age(winner[h]))' <= (Age(seen[h][m]))'
  BY DEF Spared
<1>1. m \in Node /\ h \in Op
  BY RingFacts, OpFacts
<1>2. /\ \A v \in Started : v \in Put \cup {None} /\ (Age(v))' = Age(v)
      /\ winner[h] \in Started /\ seen[h][m] \in Started
      /\ \A v \in Put \cup {None} : Age(v) \in Int
  BY <1>1, AgeSteps, AgeType DEF Known, Started
<1>3. CASE phase[h] = "ok"
  <2>1. /\ winner'[h] = winner[h] /\ rpc[h][m] = "none"
        /\ reply[h][m] = "ok" /\ seen'[h][m] = seen[h][m]
    <3>1. winner'[h] = winner[h] /\ rpc[h][m] = "none"
      BY <1>1, <1>3, EndedGet
    <3> QED
      BY <1>1, <1>3, <3>1, AnswerSteps
  <2>2. Age(winner[h]) <= Age(seen[h][m])
    BY <1>3, <2>1 DEF Spared
  <2> QED
    BY <1>2, <2>1, <2>2 DEF Age
<1>4. CASE phase[h] # "ok" /\ FinishGet(h)
  <2>1. UNCHANGED <<seen, reply, ts>>
    BY <1>4 DEF FinishGet
  <2>2. ~(Cardinality(Acked(h)) < R)
    BY <1>1, <1>4 DEF FinishGet, TypeOK
  <2>3. PICK v \in {seen[h][n] : n \in Acked(h)} \cup {None} :
          /\ winner' = [winner EXCEPT ![h] = v]
          /\ rpc' = [rpc EXCEPT ![h] =
               [n \in Node |-> IF n \in Acked(h) /\ Age(seen[h][n]) < Age(v)
                               THEN "sent" ELSE "none"]]
    BY <1>4, <2>2 DEF FinishGet
  <2>4. m \in Acked(h) /\ winner'[h] = v
    BY <2>1, <2>3 DEF Acked, TypeOK
  <2>5. ~(Age(seen[h][m]) < Age(v))
    <3>1. rpc'[h][m] = IF m \in Acked(h) /\ Age(seen[h][m]) < Age(v) THEN "sent" ELSE "none"
      BY <1>1, <2>3 DEF TypeOK
    <3> QED
      BY <2>4, <3>1
  <2>6. v \in Put \cup {None}
    BY <1>1, <2>3, RingFacts DEF Acked, TypeOK
  <2>7. (Age(winner[h]))' = Age(v) /\ (Age(seen[h][m]))' = Age(seen[h][m])
    BY <2>1, <2>4 DEF Age
  <2> QED
    BY <1>2, <2>5, <2>6, <2>7
<1> QED
  BY <1>3, <1>4, OkByFinish

LEMMA RepairsHold == Spec => [](TypeOK /\ Known /\ Order /\ SeenKept /\ Spared /\ Stamped)
<1>1. Init => SeenKept /\ Spared /\ Stamped
  BY OpFacts, RingFacts DEF Init, SeenKept, Spared, Stamped
<1>2. TypeOK /\ TypeOK' /\ Control /\ Known /\ Order /\ SeenKept /\ Spared /\ Stamped /\ [Next]_vars
        => SeenKept' /\ Spared' /\ Stamped'
  <2> SUFFICES ASSUME TypeOK, TypeOK', Control, Known, Order, SeenKept, Spared, Stamped, [Next]_vars
               PROVE  SeenKept' /\ Spared' /\ Stamped'
    OBVIOUS
  <2>1. ASSUME NEW p \in Put, phase'[p] # "idle" PROVE ts'[p] \in Timestamp
    <3>1. CASE phase[p] # "idle"
      <4>1. p \in Started /\ (Age(p))' = Age(p)
        BY <3>1, AgeSteps DEF Started
      <4> QED
        BY <3>1, <4>1, OpAssumption DEF Age, Stamped, Op
    <3>2. CASE phase[p] = "idle"
      <4>1. ASSUME NEW q \in Put, NEW n \in Coordinator, NEW time \in Timestamp,
                   StartPut(q, n, time)
            PROVE  ts'[p] \in Timestamp
        BY <2>1, <3>2, <4>1, OpFacts DEF StartPut, TypeOK
      <4>2. ASSUME NEW o \in Op, NEW s, Running(o), phase' = [phase EXCEPT ![o] = s] PROVE FALSE
        BY <2>1, <3>2, <4>2 DEF Running, TypeOK
      <4>3. ASSUME NEW g \in Get, NEW s, phase' = [phase EXCEPT ![g] = s] PROVE FALSE
        BY <2>1, <3>2, <4>3, OpFacts DEF TypeOK
      <4>4. ASSUME NEW n \in Node, Crash(n) PROVE FALSE
        BY <2>1, <3>2, <4>4, OpFacts DEF Crash, Stop, Running
      <4>5. ASSUME NEW q \in Put,
                   EndWrites(q) \/ SendHint(q) \/ HintFails(q) \/ FinishPut(q)
                     \/ \E n \in Node : StoreHint(q, n)
            PROVE  FALSE
        BY <2>1, <3>2, <4>5, OpFacts DEF EndWrites, SendHint, HintFails, FinishPut, StoreHint,
           TypeOK
      <4>6. ASSUME NEW g \in Get, (\E n \in Coordinator : StartGet(g, n)) \/ FinishGet(g) PROVE FALSE
        <5>1. \E s : phase' = [phase EXCEPT ![g] = s]
          BY <4>6 DEF StartGet, FinishGet
        <5> QED
          BY <4>3, <5>1
      <4>7. ASSUME NEW o \in Op, Abandon(o) PROVE FALSE
        BY <4>2, <4>7 DEF Abandon
      <4>8. phase' # phase
        BY <2>1, <3>2
      <4> QED
        BY <4>1, <4>4, <4>5, <4>6, <4>7, <4>8 DEF Next, Step, vars, coordVars, Timeout, LoseHint,
           SkipWrite, CheckNewer, WriteEntry, LoseWrite, ReadReplica, ReadFails
    <3> QED
      BY <3>1, <3>2
  <2> QED
    BY <2>1, SeenKeptSteps, SparedSteps DEF Stamped
<1> QED
  BY <1>1, <1>2, InvariantHolds, PTL DEF Spec

(* ReadRepairAgrees for every number of nodes, requests and worker threads: *)
(* once its repairs are executed, a get that every preferred node answered  *)
(* leaves every replica with the winner, a newer version, or another put    *)
(* of the winner's timestamp.                                               *)
THEOREM RepairsAgree == Spec => []ReadRepairAgrees
<1>1. TypeOK /\ Known /\ Order /\ SeenKept /\ Spared /\ Stamped => ReadRepairAgrees
  <2> SUFFICES ASSUME TypeOK, Known, Order, SeenKept, Spared, Stamped,
                      NEW g \in Get, NEW m \in Preferred \ raced, NEW n \in Preferred \ raced,
                      phase[g] = "ok", Acked(g) = Preferred,
                      \A i \in Node : rpc[g][i] \in {"none", "done"},
                      db[m] # db[n],
                      \A i \in {m, n} : ~(Age(db[i]) > Age(winner[g])),
                      \A p \in Put \ {winner[g]} : ts[p] # Age(winner[g])
               PROVE  FALSE
    BY DEF ReadRepairAgrees
  <2>1. /\ g \in Op /\ winner[g] \in Started /\ winner[g] \in Put \cup {None}
        /\ \A v \in Put \cup {None} : Age(v) \in Int
        /\ Version(g) = winner[g]
        /\ \A i \in Node : db[i] \in Started /\ db[i] \in Put \cup {None}
                           /\ seen[g][i] \in Put \cup {None}
    BY OpFacts, AgeType DEF Known, TypeOK, Version
  <2>2. ASSUME NEW i \in {m, n} PROVE Age(db[i]) = Age(winner[g])
    <3>1. i \in Preferred /\ i \in Node /\ i \notin raced /\ reply[g][i] = "ok"
      BY RingFacts DEF Acked
    <3>2. CASE rpc[g][i] = "done"
      <4>1. Age(winner[g]) <= Age(db[i])
        BY <2>1, <3>1, <3>2 DEF Order, OrderAt, Done
      <4> QED
        BY <2>1, <3>1, <4>1
    <3>3. CASE rpc[g][i] = "none"
      <4>1. Age(winner[g]) <= Age(seen[g][i]) /\ Age(seen[g][i]) <= Age(db[i])
        BY <3>1, <3>3 DEF Spared, SeenKept
      <4> QED
        BY <2>1, <3>1, <4>1
    <3> QED
      BY <3>1, <3>2, <3>3
  <2>3. PICK i \in {m, n} : db[i] # winner[g]
    OBVIOUS
  <2>4. i \in Node /\ Age(db[i]) = Age(winner[g]) /\ db[i] \in Put \cup {None}
    BY <2>1, <2>2, RingFacts
  <2>5. CASE db[i] \in Put
    BY <2>3, <2>4, <2>5, OpAssumption DEF Age, Op
  <2>6. CASE db[i] = None
    <3>1. winner[g] \in Put /\ phase[winner[g]] # "idle" /\ winner[g] # None
      BY <2>1, <2>3, <2>6 DEF Started
    <3>2. ts[winner[g]] \in Nat /\ ts[winner[g]] = -1
      BY <2>4, <2>6, <3>1, OpAssumption DEF Stamped, Age
    <3> QED
      BY <3>2
  <2> QED
    BY <2>4, <2>5, <2>6
<1> QED
  BY <1>1, RepairsHold, PTL
=============================================================================
