------------------------- MODULE SloppyQuorumProofs -------------------------
(***************************************************************************)
(* Proofs about the sloppy quorum of ReplicatedStore: every                *)
(* acknowledgement a put counts stands for a preferred node of its own,    *)
(* what W + R > N still promises where hints made up the write quorum, and *)
(* that a request runs out of steps,                                       *)
(* for every number of nodes, requests and worker threads, every N, W, R.  *)
(***************************************************************************)
EXTENDS ReplicatedStoreProofs

(* The preferred nodes a put may count: those that acknowledged the write  *)
(* in time, and those whose slot is filled by a stored hint.  A node that  *)
(* executes the write after its timeout is covered but not credited: its   *)
(* slot may still be filled by a hint.                                     *)
Credited(p) ==
  {n \in Preferred :
     \/ reply[p][n] = "ok"
     \/ n \notin slots[p] /\ \E c \in Node : hintRpc[p][c] = "stored" /\ hintFor[p][c] = n}

\* How the phase of a put, its replies and its slots go together.
SlotsOf(p) ==
  /\ phase[p] \in {"idle", "writing"}
       => slots[p] = {} /\ \A c \in Node : hintRpc[p][c] = "none"
  /\ phase[p] = "idle" => acks[p] = 0
  /\ phase[p] # "writing" => \A n \in Preferred : reply[p][n] # "wait"
  /\ \A n \in slots[p] : reply[p][n] = "err"
  /\ phase[p] = "ok" => acks[p] >= W

\* Hints go to the candidates before the cursor, once each, and the one that
\* is awaited is for the current slot.
CursorOf(p) ==
  /\ \A i \in 1 .. Cardinality(Node) :
       ~(i > N /\ i < cursor[p]) => hintRpc[p][Ring[i]] = "none"
  /\ \A c \in Node : hintRpc[p][c] # "none" => hintFor[p][c] \in Preferred
  /\ phase[p] = "hintSent" => /\ cursor[p] - 1 \in Candidates
                              /\ target[p] \in slots[p]
                              /\ hintFor[p][Ring[cursor[p] - 1]] = target[p]

CountOf(p) == acks[p] <= Cardinality(Credited(p))

Books(p) == SlotsOf(p) /\ CursorOf(p) /\ CountOf(p)

(* Sets of preferred nodes are finite.                                     *)
LEMMA CreditedFacts ==
  ASSUME NEW S \in SUBSET Preferred
  PROVE  IsFiniteSet(S) /\ Cardinality(S) \in Nat
BY PreferredFacts, FS_Subset, FS_CardinalityType

(* A put that counts one more has one more preferred node to its credit.   *)
LEMMA CountSteps ==
  ASSUME TypeOK, TypeOK', NEW p \in Put, CountOf(p), Credited(p) \subseteq Credited(p)',
         \/ acks'[p] = acks[p]
         \/ acks'[p] = acks[p] + 1 /\ \E t \in Credited(p)' : t \notin Credited(p)
  PROVE  CountOf(p)'
<1>1. Credited(p) \in SUBSET Preferred /\ Credited(p)' \in SUBSET Preferred
  BY DEF Credited
<1>2. /\ IsFiniteSet(Credited(p)) /\ IsFiniteSet(Credited(p)')
      /\ Cardinality(Credited(p)) \in Nat /\ Cardinality(Credited(p)') \in Nat
  BY <1>1, CreditedFacts
<1>3. acks[p] \in Nat /\ acks'[p] \in Nat
  BY DEF TypeOK
<1>4. CASE acks'[p] = acks[p]
  <2>1. Cardinality(Credited(p)) <= Cardinality(Credited(p)')
    BY <1>2, FS_Subset
  <2> QED
    BY <1>2, <1>3, <1>4, <2>1 DEF CountOf
<1>5. ASSUME acks'[p] = acks[p] + 1, NEW t \in Credited(p)', t \notin Credited(p)
      PROVE  CountOf(p)'
  <2>1. Cardinality(Credited(p) \cup {t}) = Cardinality(Credited(p)) + 1
    BY <1>2, <1>5, FS_AddElement
  <2>2. Credited(p) \cup {t} \in SUBSET (Credited(p)')
    BY <1>5
  <2>3. Cardinality(Credited(p) \cup {t}) <= Cardinality(Credited(p)')
    BY <1>2, <2>2, FS_Subset
  <2> QED
    BY <1>2, <1>3, <1>5, <2>1, <2>3 DEF CountOf
<1> QED
  BY <1>4, <1>5

(* A step that leaves a put's bookkeeping alone keeps its invariant.       *)
LEMMA QuietBooks ==
  ASSUME TypeOK, TypeOK', NEW p \in Put, Books(p),
         UNCHANGED <<phase[p], acks[p], slots[p], target[p], cursor[p],
                     hintRpc[p], hintFor[p], reply[p]>>
  PROVE  Books(p)'
<1>1. Credited(p)' = Credited(p)
  BY DEF Credited
<1> QED
  BY <1>1 DEF Books, SlotsOf, CursorOf, CountOf

(* An acknowledgement in time, of o's call to n, is counted once.          *)
LEMMA AcknowledgeBooks ==
  ASSUME TypeOK, TypeOK', NEW p \in Put, Books(p), NEW o \in Op, NEW n \in Node,
         n \in Preferred, Acknowledge(o, n),
         UNCHANGED <<phase, slots, target, cursor, hintRpc, hintFor>>
  PROVE  Books(p)'
<1>1. CASE o = p /\ reply[p][n] = "wait"
  <2>1. phase[p] = "writing"
    BY <1>1 DEF Books, SlotsOf
  <2>2. /\ acks'[p] = acks[p] + 1
        /\ reply'[p] = [reply[p] EXCEPT ![n] = "ok"]
        /\ reply[p] \in [Node -> {"none", "wait", "ok", "err"}]
    BY <1>1, OpFacts DEF Acknowledge, TypeOK
  <2>3. SlotsOf(p)' /\ CursorOf(p)'
    BY <2>1, <2>2 DEF Books, SlotsOf, CursorOf
  <2>4. n \notin Credited(p) /\ n \in Credited(p)' /\ Credited(p) \subseteq Credited(p)'
    BY <1>1, <2>1, <2>2, RingFacts DEF Credited, Books, SlotsOf
  <2>5. CountOf(p)'
    BY <2>2, <2>4, CountSteps DEF Books
  <2> QED
    BY <2>3, <2>5 DEF Books
<1>2. CASE ~(o = p /\ reply[p][n] = "wait")
  <2>1. UNCHANGED <<reply[p], acks[p]>>
    BY <1>2, OpFacts DEF Acknowledge, TypeOK
  <2> QED
    BY <2>1, QuietBooks
<1> QED
  BY <1>1, <1>2

(* Replies that can no longer come are errors: nothing else changes.       *)
LEMMA LostReplyBooks ==
  ASSUME TypeOK, TypeOK', NEW p \in Put, Books(p),
         UNCHANGED <<acks, slots, target, cursor, hintRpc, hintFor>>,
         \/ phase'[p] = phase[p]
         \/ phase'[p] = "abandoned" /\ \A n \in Node : reply'[p][n] # "wait",
         \A n \in Node : \/ reply'[p][n] = reply[p][n]
                         \/ reply[p][n] = "wait" /\ reply'[p][n] = "err"
  PROVE  Books(p)'
<1>1. SlotsOf(p)'
  <2>1. slots[p] \subseteq Node
    BY RingFacts DEF TypeOK
  <2>2. \A n \in slots[p] : reply'[p][n] = "err"
    BY <2>1 DEF Books, SlotsOf
  <2>3. phase'[p] # "writing" => \A n \in Preferred : reply'[p][n] # "wait"
    BY RingFacts DEF Books, SlotsOf
  <2> QED
    BY <2>2, <2>3 DEF Books, SlotsOf
<1>2. CursorOf(p)'
  BY DEF Books, CursorOf
<1>4. Credited(p) \subseteq Credited(p)'
  BY RingFacts DEF Credited
<1>3. CountOf(p)'
  BY <1>4, CountSteps DEF Books
<1> QED
  BY <1>1, <1>2, <1>3 DEF Books

(* Only preferred nodes are called for a write or a repair.                *)
CallsPreferred == \A o \in Op, n \in Node : rpc[o][n] # "none" => n \in Preferred

LEMMA CallsSteps ==
  ASSUME TypeOK, CallsPreferred, [Next]_vars PROVE CallsPreferred'
<1>1. CASE UNCHANGED rpc
  BY <1>1 DEF CallsPreferred
<1>2. ASSUME NEW p \in Put, NEW n \in Coordinator, NEW time \in Timestamp, StartPut(p, n, time)
      PROVE  CallsPreferred'
  BY <1>2, OpFacts DEF StartPut, CallsPreferred, TypeOK
<1>3. ASSUME NEW o \in Op, NEW n \in Node,
             SkipWrite(o, n) \/ CheckNewer(o, n) \/ WriteEntry(o, n) \/ LoseWrite(o, n)
      PROVE  CallsPreferred'
  <2>1. rpc[o][n] # "none" /\ \E s : rpc' = [rpc EXCEPT ![o][n] = s]
    BY <1>3 DEF SkipWrite, CheckNewer, WriteEntry, LoseWrite
  <2> QED
    BY <1>3, <2>1 DEF CallsPreferred, TypeOK
<1>4. ASSUME NEW g \in Get, FinishGet(g) PROVE CallsPreferred'
  <2>1. \/ rpc' = rpc
        \/ \E v : rpc' = [rpc EXCEPT ![g] =
                    [n \in Node |-> IF n \in Acked(g) /\ Age(seen[g][n]) < Age(v)
                                    THEN "sent" ELSE "none"]]
    BY <1>4 DEF FinishGet
  <2>2. rpc \in [Op -> [Node -> {"none", "sent", "checked", "done", "lost"}]] /\ g \in Op
    BY OpFacts DEF TypeOK
  <2>3. ASSUME NEW o \in Op, NEW n \in Node, rpc'[o][n] # "none" PROVE n \in Preferred
    <3>1. rpc[o][n] # "none" \/ n \in Acked(g)
      BY <2>1, <2>2, <2>3
    <3> QED
      BY <3>1 DEF CallsPreferred, Acked
  <2> QED
    BY <2>3 DEF CallsPreferred
<1>5. ASSUME NEW n \in Node, Crash(n) PROVE CallsPreferred'
  <2>1. \A o \in Op, m \in Node : rpc'[o][m] # "none" => rpc[o][m] # "none"
    BY <1>5 DEF Crash, Stop, TypeOK
  <2> QED
    BY <2>1 DEF CallsPreferred
<1> QED
  BY <1>1, <1>2, <1>3, <1>4, <1>5 DEF Next, Step, vars, EndWrites, SendHint, HintFails, FinishPut,
     Timeout, StoreHint, LoseHint, StartGet, ReadReplica, ReadFails, Abandon

-----------------------------------------------------------------------------
(* The bookkeeping of a put is kept by every step.                         *)
LEMMA BooksSteps ==
  ASSUME TypeOK, TypeOK', Control, CallsPreferred, NEW p \in Put, Books(p), [Next]_vars
  PROVE  Books(p)'
<1> DEFINE Mine == <<phase[p], acks[p], slots[p], target[p], cursor[p],
                     hintRpc[p], hintFor[p], reply[p]>>
<1>0. /\ p \in Op
      /\ reply[p] \in [Node -> {"none", "wait", "ok", "err"}]
      /\ slots[p] \subseteq Preferred /\ slots[p] \subseteq Node
      /\ cursor[p] \in Nat /\ cursor[p] \in N + 1 .. Cardinality(Node) + 1
  BY OpFacts, RingFacts DEF TypeOK
<1>1. ASSUME NEW q \in Put, NEW n \in Coordinator, NEW time \in Timestamp, StartPut(q, n, time)
      PROVE  Books(p)'
  <2>1. CASE q = p
    <3>1. /\ phase'[p] = "writing" /\ phase[p] = "idle"
          /\ UNCHANGED <<acks, slots, target, cursor, hintRpc, hintFor>>
      BY <1>0, <1>1, <2>1 DEF StartPut, hintVars, TypeOK
    <3>2. SlotsOf(p)' /\ CursorOf(p)'
      BY <3>1 DEF Books, SlotsOf, CursorOf
    <3>3. acks'[p] = 0
      BY <3>1 DEF Books, SlotsOf
    <3>4. Cardinality(Credited(p)') \in Nat
      BY CreditedFacts DEF Credited
    <3> QED
      BY <3>2, <3>3, <3>4 DEF Books, CountOf
  <2>2. CASE q # p
    <3>1. UNCHANGED Mine
      BY <1>0, <1>1, <2>2 DEF StartPut, hintVars, TypeOK
    <3> QED
      BY <3>1, QuietBooks
  <2> QED
    BY <2>1, <2>2
<1>2. ASSUME NEW q \in Put, EndWrites(q) PROVE Books(p)'
  <2>1. CASE q = p
    <3>1. /\ phase[p] = "writing" /\ phase'[p] = "hinting" /\ AllReplied(p)
          /\ slots'[p] = {n \in Preferred : reply[p][n] = "err"}
          /\ UNCHANGED <<acks, target, cursor, hintRpc, hintFor, reply>>
      BY <1>0, <1>2, <2>1 DEF EndWrites, hintVars, TypeOK
    <3>2. \A n \in Preferred : reply[p][n] # "wait"
      BY <3>1 DEF AllReplied
    <3>3. SlotsOf(p)' /\ CursorOf(p)'
      BY <3>1, <3>2 DEF Books, SlotsOf, CursorOf
    <3>4. Credited(p) \subseteq Credited(p)'
      BY <3>1 DEF Credited, Books, SlotsOf
    <3> QED
      BY <3>1, <3>3, <3>4, CountSteps DEF Books
  <2>2. CASE q # p
    <3>1. UNCHANGED Mine
      BY <1>0, <1>2, <2>2 DEF EndWrites, hintVars, TypeOK
    <3> QED
      BY <3>1, QuietBooks
  <2> QED
    BY <2>1, <2>2
<1>3. ASSUME NEW q \in Put, SendHint(q) PROVE Books(p)'
  <2>1. CASE q = p
    <3>1. PICK t \in slots[p] :
            /\ phase[p] = "hinting" /\ phase'[p] = "hintSent"
            /\ cursor[p] \in Candidates /\ cursor'[p] = cursor[p] + 1
            /\ target'[p] = t
            /\ hintFor' = [hintFor EXCEPT ![p][Ring[cursor[p]]] = t]
            /\ hintRpc' = [hintRpc EXCEPT ![p][Ring[cursor[p]]] = "sent"]
            /\ UNCHANGED <<acks, slots, reply>>
      <4>1. /\ phase[p] = "hinting" /\ phase'[p] = "hintSent"
            /\ cursor[p] \in Candidates /\ cursor'[p] = cursor[p] + 1
            /\ UNCHANGED <<acks, slots, reply>>
        BY <1>0, <1>3, <2>1 DEF SendHint, TypeOK
      <4>2. PICK t \in slots[p] :
              /\ target' = [target EXCEPT ![p] = t]
              /\ hintFor' = [hintFor EXCEPT ![p][Ring[cursor[p]]] = t]
              /\ hintRpc' = [hintRpc EXCEPT ![p][Ring[cursor[p]]] = "sent"]
        BY <1>3, <2>1 DEF SendHint
      <4>3. target'[p] = t
        BY <4>2 DEF TypeOK
      <4> QED
        BY <4>1, <4>2, <4>3
    <3> DEFINE c == Ring[cursor[p]]
    <3>2. c \in Node /\ cursor[p] \in 1 .. Cardinality(Node) /\ cursor[p] > N
      BY <3>1, RingFacts DEF Candidates
    <3>3. /\ \A d \in Node : d # c => hintFor'[p][d] = hintFor[p][d] /\ hintRpc'[p][d] = hintRpc[p][d]
          /\ hintFor'[p][c] = t /\ hintRpc'[p][c] = "sent"
      <4>1. /\ hintFor[p] \in [Node -> Preferred \cup {None}]
            /\ hintRpc[p] \in [Node -> {"none", "sent", "stored", "lost"}]
        BY DEF TypeOK
      <4>2. hintFor'[p] = [hintFor[p] EXCEPT ![c] = t] /\ hintRpc'[p] = [hintRpc[p] EXCEPT ![c] = "sent"]
        BY <3>1 DEF TypeOK
      <4> QED
        BY <3>2, <4>1, <4>2
    <3>4. hintRpc[p][c] = "none"
      BY <3>2 DEF Books, CursorOf
    <3>5. SlotsOf(p)'
      BY <3>1 DEF Books, SlotsOf
    <3>6. ASSUME NEW i \in 1 .. Cardinality(Node), ~(i > N /\ i < cursor[p] + 1)
          PROVE  hintRpc'[p][Ring[i]] = "none"
      <4>1. i # cursor[p] /\ ~(i > N /\ i < cursor[p]) /\ Ring[i] \in Node
        BY <1>0, <3>2, <3>6, RingAssumption
      <4>2. Ring[i] # c
        BY <3>2, <4>1, RingAssumption
      <4>3. hintRpc[p][Ring[i]] = "none"
        BY <4>1 DEF Books, CursorOf
      <4> QED
        BY <3>3, <4>1, <4>2, <4>3
    <3>7. \A d \in Node : hintRpc'[p][d] # "none" => hintFor'[p][d] \in Preferred
      BY <1>0, <3>1, <3>3 DEF Books, CursorOf
    <3>8. cursor'[p] - 1 = cursor[p]
      BY <1>0, <3>1
    <3>9. CursorOf(p)'
      BY <3>1, <3>3, <3>6, <3>7, <3>8 DEF CursorOf
    <3>10. Credited(p) \subseteq Credited(p)'
      <4> SUFFICES ASSUME NEW n \in Credited(p) PROVE n \in Credited(p)'
        OBVIOUS
      <4>1. CASE reply[p][n] = "ok"
        BY <3>1, <4>1 DEF Credited
      <4>2. ASSUME NEW d \in Node, hintRpc[p][d] = "stored", hintFor[p][d] = n, n \notin slots[p]
            PROVE  n \in Credited(p)'
        <5>1. d # c
          BY <3>4, <4>2
        <5>2. hintRpc'[p][d] = "stored" /\ hintFor'[p][d] = n /\ n \notin slots'[p]
          BY <3>1, <3>3, <4>2, <5>1
        <5> QED
          BY <4>2, <5>2 DEF Credited
      <4> QED
        BY <4>1, <4>2 DEF Credited
    <3> QED
      BY <3>1, <3>5, <3>9, <3>10, CountSteps DEF Books
  <2>2. CASE q # p
    <3>1. UNCHANGED Mine
      BY <1>0, <1>3, <2>2 DEF SendHint, TypeOK
    <3> QED
      BY <3>1, QuietBooks
  <2> QED
    BY <2>1, <2>2
<1>4. ASSUME NEW q \in Put, HintFails(q) \/ FinishPut(q) PROVE Books(p)'
  <2>1. CASE q = p
    <3>1. /\ UNCHANGED <<acks, slots, target, cursor, hintRpc, hintFor, reply>>
          /\ phase[p] \in {"hinting", "hintSent"}
          /\ phase'[p] \in {"hinting", "ok", "failed"}
          /\ phase'[p] = "ok" => acks[p] >= W
      BY <1>0, <1>4, <2>1 DEF HintFails, FinishPut, hintVars, TypeOK
    <3>2. SlotsOf(p)' /\ CursorOf(p)'
      BY <3>1 DEF Books, SlotsOf, CursorOf
    <3>3. Credited(p)' = Credited(p)
      BY <3>1 DEF Credited
    <3> QED
      BY <3>1, <3>2, <3>3 DEF Books, CountOf
  <2>2. CASE q # p
    <3>1. UNCHANGED Mine
      BY <1>0, <1>4, <2>2 DEF HintFails, FinishPut, hintVars, TypeOK
    <3> QED
      BY <3>1, QuietBooks
  <2> QED
    BY <2>1, <2>2
<1>5. ASSUME NEW q \in Put, NEW c \in Node, StoreHint(q, c) PROVE Books(p)'
  <2>1. CASE q = p
    <3> DEFINE awaited == phase[p] = "hintSent" /\ Ring[cursor[p] - 1] = c
    <3>1. /\ hintRpc[p][c] = "sent"
          /\ \A d \in Node : d # c => hintRpc'[p][d] = hintRpc[p][d]
          /\ hintRpc'[p][c] = "stored"
          /\ UNCHANGED <<hintFor, cursor, reply>>
      BY <1>5, <2>1 DEF StoreHint, TypeOK
    <3>2. ASSUME NEW i \in 1 .. Cardinality(Node), ~(i > N /\ i < cursor[p])
          PROVE  hintRpc'[p][Ring[i]] = "none"
      <4>1. hintRpc[p][Ring[i]] = "none" /\ Ring[i] \in Node
        BY <3>2, RingAssumption DEF Books, CursorOf
      <4> QED
        BY <3>1, <4>1
    <3>3. \A d \in Node : hintRpc'[p][d] # "none" => hintFor'[p][d] \in Preferred
      BY <3>1 DEF Books, CursorOf
    <3>4. phase[p] \notin {"idle", "writing"}
      BY <1>5, <3>1 DEF Books, SlotsOf
    <3>5. CASE awaited
      <4>1. /\ acks'[p] = acks[p] + 1
            /\ slots'[p] = slots[p] \ {target[p]}
            /\ phase'[p] = "hinting"
        BY <1>0, <1>5, <2>1, <3>5 DEF StoreHint, TypeOK
      <4>2. target[p] \in slots[p] /\ hintFor[p][c] = target[p] /\ reply[p][target[p]] = "err"
        BY <3>5 DEF Books, CursorOf, SlotsOf
      <4>3. SlotsOf(p)'
        BY <3>1, <4>1 DEF Books, SlotsOf
      <4>4. CursorOf(p)'
        BY <3>1, <3>2, <3>3, <4>1 DEF CursorOf
      <4>5. target[p] \notin Credited(p) /\ target[p] \in Preferred
        BY <1>0, <4>2 DEF Credited
      <4>6. target[p] \in Credited(p)'
        BY <3>1, <4>1, <4>2, <4>5 DEF Credited
      <4>7. Credited(p) \subseteq Credited(p)'
        BY <3>1, <4>1 DEF Credited
      <4>8. CountOf(p)'
        BY <4>1, <4>5, <4>6, <4>7, CountSteps DEF Books
      <4> QED
        BY <4>3, <4>4, <4>8 DEF Books
    <3>6. CASE ~awaited
      <4>1. UNCHANGED <<acks, slots, target, phase>>
        BY <1>5, <2>1, <3>6 DEF StoreHint
      <4>2. SlotsOf(p)'
        BY <3>1, <3>4, <4>1 DEF Books, SlotsOf
      <4>3. CursorOf(p)'
        BY <3>1, <3>2, <3>3, <4>1 DEF Books, CursorOf
      <4>4. Credited(p) \subseteq Credited(p)'
        BY <3>1, <4>1 DEF Credited
      <4>5. CountOf(p)'
        BY <4>1, <4>4, CountSteps DEF Books
      <4> QED
        BY <4>2, <4>3, <4>5 DEF Books
    <3> QED
      BY <3>5, <3>6
  <2>2. CASE q # p
    <3>1. UNCHANGED <<hintRpc[p], hintFor[p], cursor[p], reply[p]>>
      BY <1>5, <2>2 DEF StoreHint, TypeOK
    <3>2. UNCHANGED <<phase[p], acks[p], slots[p], target[p]>>
      BY <1>0, <1>5, <2>2 DEF StoreHint, TypeOK
    <3> QED
      BY <3>1, <3>2, QuietBooks
  <2> QED
    BY <2>1, <2>2
<1>6. ASSUME NEW q \in Put, NEW c \in Node, LoseHint(q, c) PROVE Books(p)'
  <2>1. CASE q = p
    <3>1. /\ hintRpc[p][c] = "sent"
          /\ \A d \in Node : d # c => hintRpc'[p][d] = hintRpc[p][d]
          /\ hintRpc'[p][c] = "lost"
          /\ UNCHANGED <<phase, acks, slots, target, hintFor, cursor, reply>>
      BY <1>6, <2>1 DEF LoseHint, coordVars, TypeOK
    <3>2. ASSUME NEW i \in 1 .. Cardinality(Node), ~(i > N /\ i < cursor[p])
          PROVE  hintRpc'[p][Ring[i]] = "none"
      <4>1. hintRpc[p][Ring[i]] = "none" /\ Ring[i] \in Node
        BY <3>2, RingAssumption DEF Books, CursorOf
      <4> QED
        BY <3>1, <4>1
    <3>3. \A d \in Node : hintRpc'[p][d] # "none" => hintFor'[p][d] \in Preferred
      BY <3>1 DEF Books, CursorOf
    <3>4. phase[p] \notin {"idle", "writing"}
      BY <1>6, <3>1 DEF Books, SlotsOf
    <3>5. SlotsOf(p)'
      BY <3>1, <3>4 DEF Books, SlotsOf
    <3>6. CursorOf(p)'
      BY <3>1, <3>2, <3>3 DEF Books, CursorOf
    <3>7. Credited(p) \subseteq Credited(p)'
      BY <3>1 DEF Credited
    <3> QED
      BY <3>1, <3>5, <3>6, <3>7, CountSteps DEF Books
  <2>2. CASE q # p
    <3>1. UNCHANGED Mine
      BY <1>0, <1>6, <2>2 DEF LoseHint, coordVars, TypeOK
    <3> QED
      BY <3>1, QuietBooks
  <2> QED
    BY <2>1, <2>2
<1>7. ASSUME NEW o \in Op, NEW n \in Node, SkipWrite(o, n) \/ WriteEntry(o, n) PROVE Books(p)'
  <2>1. n \in Preferred /\ Acknowledge(o, n)
    BY <1>7 DEF SkipWrite, WriteEntry, CallsPreferred
  <2>2. UNCHANGED <<phase, slots, target, cursor, hintRpc, hintFor>>
    BY <1>7 DEF SkipWrite, WriteEntry, hintVars
  <2> QED
    BY <2>1, <2>2, AcknowledgeBooks
<1>8. ASSUME NEW o \in Op, NEW n \in Node, LoseWrite(o, n) PROVE Books(p)'
  <2>1. UNCHANGED <<phase, acks, slots, target, cursor, hintRpc, hintFor>>
    BY <1>8 DEF LoseWrite, coordVars, hintVars
  <2>2. \A m \in Node : \/ reply'[p][m] = reply[p][m]
                        \/ reply[p][m] = "wait" /\ reply'[p][m] = "err"
    BY <1>0, <1>8 DEF LoseWrite, TypeOK
  <2> QED
    BY <2>1, <2>2, LostReplyBooks
<1>9. ASSUME NEW q \in Put, NEW n \in Node, Timeout(q, n) PROVE Books(p)'
  <2>1. UNCHANGED <<phase, acks, slots, target, cursor, hintRpc, hintFor>>
    BY <1>9 DEF Timeout, coordVars, hintVars
  <2>2. \A m \in Node : \/ reply'[p][m] = reply[p][m]
                        \/ reply[p][m] = "wait" /\ reply'[p][m] = "err"
    BY <1>0, <1>9 DEF Timeout, TypeOK
  <2> QED
    BY <2>1, <2>2, LostReplyBooks
<1>10. ASSUME NEW g \in Get, NEW n \in Node, StartGet(g, n) \/ ReadReplica(g, n) \/ ReadFails(g, n)
       PROVE  Books(p)'
  <2>1. g # p
    BY OpFacts
  <2>2. UNCHANGED Mine
    BY <1>0, <1>10, <2>1, OpFacts DEF StartGet, ReadReplica, ReadFails, coordVars, hintVars, TypeOK
  <2> QED
    BY <2>2, QuietBooks
<1>11. ASSUME NEW g \in Get, FinishGet(g) PROVE Books(p)'
  <2>1. g # p
    BY OpFacts
  <2>2. UNCHANGED <<acks, slots, target, cursor, hintRpc, hintFor, reply>>
    BY <1>11 DEF FinishGet, hintVars
  <2>3. \E s : phase' = [phase EXCEPT ![g] = s]
    BY <1>11 DEF FinishGet
  <2>4. phase'[p] = phase[p]
    BY <1>0, <2>1, <2>3 DEF TypeOK
  <2> QED
    BY <2>2, <2>4, QuietBooks
<1>12. ASSUME NEW o \in Op, Abandon(o) PROVE Books(p)'
  <2>1. UNCHANGED <<acks, slots, target, cursor, hintRpc, hintFor>>
    BY <1>12 DEF Abandon, hintVars
  <2>2. \A m \in Node : \/ reply'[p][m] = reply[p][m]
                        \/ reply[p][m] = "wait" /\ reply'[p][m] = "err"
    BY <1>0, <1>12 DEF Abandon, TypeOK
  <2>3. \/ phase'[p] = phase[p]
        \/ phase'[p] = "abandoned" /\ \A n \in Node : reply'[p][n] # "wait"
    BY <1>0, <1>12 DEF Abandon, TypeOK
  <2> QED
    BY <2>1, <2>2, <2>3, LostReplyBooks
<1>13. ASSUME NEW n \in Node, Crash(n) PROVE Books(p)'
  <2>1. UNCHANGED <<acks, slots, target, cursor, hintRpc, hintFor>>
    BY <1>13 DEF Crash, Stop
  <2>2. \A m \in Node : \/ reply'[p][m] = reply[p][m]
                        \/ reply[p][m] = "wait" /\ reply'[p][m] = "err"
    BY <1>0, <1>13 DEF Crash, Stop, TypeOK
  <2>3. \/ phase'[p] = phase[p]
        \/ phase'[p] = "abandoned" /\ \A m \in Node : reply'[p][m] # "wait"
    BY <1>0, <1>13 DEF Crash, Stop, TypeOK
  <2> QED
    BY <2>1, <2>2, <2>3, LostReplyBooks
<1>14. CASE UNCHANGED <<coordVars, hintVars, reply>>
  BY <1>14, QuietBooks DEF coordVars, hintVars
<1> QED
  BY <1>1, <1>2, <1>3, <1>4, <1>5, <1>6, <1>7, <1>8, <1>9, <1>10, <1>11, <1>12, <1>13, <1>14,
     OpAssumption
  DEF Next, Step, vars, CheckNewer

AllBooks == \A p \in Put : Books(p)

(* The books are kept in every state of every behaviour.                   *)
LEMMA BooksHold == Spec => [](TypeOK /\ Control /\ CallsPreferred /\ AllBooks)
<1>1. Init => CallsPreferred /\ AllBooks
  <2> SUFFICES ASSUME Init, NEW p \in Put PROVE CallsPreferred /\ Books(p)
    BY DEF Init, CallsPreferred, AllBooks
  <2>1. p \in Op
    BY OpFacts
  <2>2. CallsPreferred
    BY DEF Init, CallsPreferred
  <2>3. SlotsOf(p)
    BY <2>1, RingFacts DEF Init, SlotsOf
  <2>4. CursorOf(p)
    BY <2>1, RingAssumption DEF Init, CursorOf
  <2>5. CountOf(p)
    <3>1. Cardinality(Credited(p)) \in Nat /\ acks[p] = 0
      BY CreditedFacts DEF Credited, Init
    <3> QED
      BY <3>1 DEF CountOf
  <2> QED
    BY <2>2, <2>3, <2>4, <2>5 DEF Books
<1>2. TypeOK /\ TypeOK' /\ Control /\ CallsPreferred /\ AllBooks /\ [Next]_vars
        => CallsPreferred' /\ AllBooks'
  <2> SUFFICES ASSUME TypeOK, TypeOK', Control, CallsPreferred, AllBooks, [Next]_vars
               PROVE  CallsPreferred' /\ AllBooks'
    OBVIOUS
  <2>1. CallsPreferred'
    BY CallsSteps
  <2>2. ASSUME NEW p \in Put PROVE Books(p)'
    <3>1. Books(p)
      BY <2>2 DEF AllBooks
    <3> QED
      BY <3>1, BooksSteps
  <2> QED
    BY <2>1, <2>2 DEF AllBooks
<1>3. Spec => [](TypeOK /\ Control)
  BY InvariantHolds, PTL
<1> QED
  BY <1>1, <1>2, <1>3, PTL DEF Spec

(* What a put counts, it has covered.                                      *)
LEMMA BooksCover == ASSUME TypeOK, Control, AllBooks PROVE AcksAreCovered
<1> SUFFICES ASSUME NEW p \in Put
             PROVE  /\ acks[p] <= Cardinality(Covered(p))
                    /\ phase[p] = "ok" => acks[p] >= W
  BY DEF AcksAreCovered
<1>1. Credited(p) \in SUBSET Covered(p) /\ Covered(p) \in SUBSET Preferred
  BY RingFacts DEF Credited, Covered, HintedFor, Control, AckedDone
<1>2. IsFiniteSet(Covered(p)) /\ Cardinality(Covered(p)) \in Nat
  BY <1>1, CreditedFacts
<1>3. Cardinality(Credited(p)) <= Cardinality(Covered(p))
  BY <1>1, <1>2, FS_Subset
<1>4. Cardinality(Credited(p)) \in Nat /\ acks[p] \in Nat
  <2>1. Credited(p) \in SUBSET Preferred
    BY DEF Credited
  <2> QED
    BY <2>1, CreditedFacts DEF TypeOK
<1>5. acks[p] <= Cardinality(Credited(p)) /\ (phase[p] = "ok" => acks[p] >= W)
  BY DEF AllBooks, Books, CountOf, SlotsOf
<1> QED
  BY <1>2, <1>3, <1>4, <1>5

(* AcksAreCovered for every number of nodes, requests and worker threads:  *)
(* a put that succeeds has put its write, or a hint for it, in the name of *)
(* W different preferred nodes, however late its calls are executed.       *)
THEOREM AcksCovered == Spec => []AcksAreCovered
BY BooksCover, BooksHold, PTL

-----------------------------------------------------------------------------
(* What a get that succeeded rests on: R answers, which it keeps.          *)
Enough == \A g \in Get : phase[g] = "ok" => Cardinality(Acked(g)) >= R

(* An acknowledgement that has arrived is not taken back.                  *)
LEMMA RepliesStay ==
  ASSUME TypeOK, [Next]_vars, NEW o \in Op, phase[o] # "idle", NEW n \in Node, reply[o][n] = "ok"
  PROVE  reply'[o][n] = "ok"
<1>1. CASE UNCHANGED reply
  BY <1>1
<1>2. ASSUME NEW p \in Put, NEW m \in Coordinator, NEW time \in Timestamp, StartPut(p, m, time)
      PROVE  reply'[o][n] = "ok"
  BY <1>2, OpFacts DEF StartPut, TypeOK
<1>3. ASSUME NEW p \in Put, NEW m \in Node, Timeout(p, m) PROVE reply'[o][n] = "ok"
  BY <1>3, OpFacts DEF Timeout, TypeOK
<1>4. ASSUME NEW u \in Op, NEW m \in Node, SkipWrite(u, m) \/ WriteEntry(u, m)
      PROVE  reply'[o][n] = "ok"
  BY <1>4 DEF SkipWrite, WriteEntry, Acknowledge, TypeOK
<1>5. ASSUME NEW u \in Op, NEW m \in Node, LoseWrite(u, m) PROVE reply'[o][n] = "ok"
  BY <1>5 DEF LoseWrite, TypeOK
<1>6. ASSUME NEW g \in Get, NEW m \in Coordinator, StartGet(g, m) PROVE reply'[o][n] = "ok"
  BY <1>6, OpFacts DEF StartGet, TypeOK
<1>7. ASSUME NEW g \in Get, NEW m \in Node, ReadReplica(g, m) \/ ReadFails(g, m)
      PROVE  reply'[o][n] = "ok"
  <2>1. g \in Op /\ reply[g][m] = "wait" /\ \E s : reply' = [reply EXCEPT ![g][m] = s]
    BY <1>7, OpFacts DEF ReadReplica, ReadFails
  <2>2. /\ reply[g] \in [Node -> {"none", "wait", "ok", "err"}]
        /\ reply \in [Op -> [Node -> {"none", "wait", "ok", "err"}]]
    BY <2>1 DEF TypeOK
  <2>3. CASE g = o
    <3>1. n # m
      BY <2>1, <2>3
    <3> QED
      BY <2>1, <2>2, <2>3, <3>1
  <2>4. CASE g # o
    BY <2>1, <2>2, <2>4
  <2> QED
    BY <2>3, <2>4
<1>8. ASSUME NEW u \in Op, Abandon(u) PROVE reply'[o][n] = "ok"
  BY <1>8 DEF Abandon, TypeOK
<1>9. ASSUME NEW m \in Node, Crash(m) PROVE reply'[o][n] = "ok"
  BY <1>9 DEF Crash, Stop, TypeOK
<1> QED
  BY <1>1, <1>2, <1>3, <1>4, <1>5, <1>6, <1>7, <1>8, <1>9 DEF Next, Step, vars, EndWrites,
     SendHint, HintFails, FinishPut, StoreHint, LoseHint, CheckNewer, FinishGet

LEMMA EnoughSteps ==
  ASSUME TypeOK, TypeOK', Enough, [Next]_vars PROVE Enough'
<1> SUFFICES ASSUME NEW g \in Get, phase'[g] = "ok" PROVE Cardinality(Acked(g)') >= R
  BY DEF Enough
<1>1. Acked(g) \in SUBSET Preferred /\ Acked(g)' \in SUBSET Preferred /\ g \in Op
  BY OpFacts DEF Acked
<1>2. /\ IsFiniteSet(Acked(g)') /\ Cardinality(Acked(g)') \in Nat
      /\ Cardinality(Acked(g)) \in Nat /\ R \in Nat
  BY <1>1, CreditedFacts, OpAssumption
<1>3. CASE phase[g] = "ok"
  <2>1. Acked(g) \in SUBSET Acked(g)'
    BY <1>1, <1>3, RepliesStay, RingFacts DEF Acked
  <2>2. Cardinality(Acked(g)) <= Cardinality(Acked(g)')
    BY <1>2, <2>1, FS_Subset
  <2> QED
    BY <1>2, <1>3, <2>2 DEF Enough
<1>4. CASE FinishGet(g)
  <2>1. ~(Cardinality(Acked(g)) < R)
    BY <1>1, <1>4 DEF FinishGet, TypeOK
  <2>2. Acked(g)' = Acked(g)
    BY <1>4 DEF FinishGet, Acked
  <2> QED
    BY <1>2, <2>1, <2>2
<1> QED
  BY <1>3, <1>4, OkByFinish

(* A put that succeeded has W preferred nodes that acknowledged it or for  *)
(* which a hint is stored.                                                 *)
LEMMA EnoughPlaces ==
  ASSUME TypeOK, AllBooks, NEW p \in Put, phase[p] = "ok"
  PROVE  Cardinality(Acked(p) \cup HintedFor(p)) >= W
<1>1. /\ Acked(p) \cup HintedFor(p) \in SUBSET Preferred
      /\ Credited(p) \in SUBSET (Acked(p) \cup HintedFor(p))
      /\ Credited(p) \in SUBSET Preferred
  BY DEF Acked, HintedFor, Credited
<1>2. /\ Cardinality(Credited(p)) <= Cardinality(Acked(p) \cup HintedFor(p))
      /\ Cardinality(Credited(p)) \in Nat
      /\ Cardinality(Acked(p) \cup HintedFor(p)) \in Nat
  BY <1>1, CreditedFacts, FS_Subset
<1>3. acks[p] <= Cardinality(Credited(p)) /\ acks[p] >= W /\ acks[p] \in Nat
  BY DEF AllBooks, Books, CountOf, SlotsOf, TypeOK
<1> QED
  BY <1>2, <1>3, OpAssumption

(* The R answers and the W places meet at a replica that acknowledged the  *)
(* put, where neither a hint nor an overlap stands in the way.             *)
LEMMA FreshDespiteHints ==
  ASSUME TypeOK, Control, Reads, AllBooks, Enough PROVE SloppyFreshness
<1> SUFFICES ASSUME NEW g \in Get, phase[g] = "ok", NEW p \in before[g],
                    W + R > N + Cardinality((raced \cap Preferred) \cup HintedFor(p))
             PROVE  Age(winner[g]) >= ts[p]
  BY DEF SloppyFreshness
<1>1. p \in Put /\ phase[p] = "ok"
  BY DEF TypeOK, Control, BeforeOk
<1> DEFINE A == Acked(p) \cup HintedFor(p)
           C == (raced \cap Preferred) \cup HintedFor(p)
<1>2. A \in SUBSET Preferred /\ Acked(g) \in SUBSET Preferred /\ C \in SUBSET Preferred
  BY DEF Acked, HintedFor
<1>3. Cardinality(A) >= W /\ Cardinality(Acked(g)) >= R
  BY <1>1, EnoughPlaces DEF Enough
<1>4. Cardinality(A) + Cardinality(Acked(g)) > N + Cardinality(C \cap Preferred)
  <2>1. C \cap Preferred = C
    BY <1>2
  <2>2. /\ Cardinality(A) \in Nat /\ Cardinality(Acked(g)) \in Nat /\ Cardinality(C) \in Nat
        /\ W + R > N + Cardinality(C)
    BY <1>2, CreditedFacts
  <2>3. Cardinality(C \cap Preferred) = Cardinality(C)
    BY <2>1
  <2>4. N \in Nat /\ W \in Nat /\ R \in Nat
    BY OpAssumption, RingFacts
  <2> HIDE DEF A, C
  <2> QED
    BY <1>3, <2>2, <2>3, <2>4
<1>5. PICK n \in A \cap Acked(g) : n \notin C
  <2> HIDE DEF A, C
  <2> QED
    BY <1>2, <1>4, QuorumsMeet
<1>6. n \in Preferred \ raced /\ reply[p][n] = "ok" /\ reply[g][n] = "ok"
  BY <1>5 DEF Acked
<1>7. ts[p] <= Age(seen[g][n]) /\ Age(seen[g][n]) <= Age(winner[g])
  BY <1>5, <1>6 DEF Reads, Fresh, Wins
<1>8. seen[g][n] \in Put \cup {None} /\ winner[g] \in Put \cup {None}
  BY <1>6, RingFacts DEF TypeOK
<1>9. Age(seen[g][n]) \in Int /\ Age(winner[g]) \in Int /\ ts[p] \in Int
  BY <1>1, <1>8, AgeType, OpAssumption DEF Age, Op
<1> QED
  BY <1>7, <1>9

(* SloppyFreshness for every cluster, every N, W and R: with W + R > N a   *)
(* get that begins after a put was acknowledged misses it only if hints    *)
(* and overlapping write-if-newer calls have used up the nodes to spare.   *)
THEOREM SloppyQuorumsAreFresh == Spec => []SloppyFreshness
<1>1. Init => Enough
  BY OpFacts DEF Init, Enough
<1>2. TypeOK /\ TypeOK' /\ Enough /\ [Next]_vars => Enough'
  BY EnoughSteps
<1>3. Spec => [](TypeOK /\ Control /\ Reads)
  BY InvariantHolds, PTL
<1> QED
  BY <1>1, <1>2, <1>3, BooksHold, FreshDespiteHints, PTL DEF Spec

-----------------------------------------------------------------------------
(* How a request runs out of steps: the calls it awaits, and what is left  *)
(* of its own work.                                                        *)
Awaited(o) == {n \in Node : reply[o][n] = "wait"}

Work(o) ==
  IF o \in Get THEN 0
  ELSE 2 * (Cardinality(Node) + 1 - cursor[o])
         + IF phase[o] \in {"writing", "hintSent"} THEN 1 ELSE 0

LEMMA RemainingFacts ==
  ASSUME TypeOK, NEW o \in Op
  PROVE  /\ Remaining(o) = Cardinality(Awaited(o)) + Work(o)
         /\ IsFiniteSet(Awaited(o)) /\ Cardinality(Awaited(o)) \in Nat /\ Work(o) \in Int
<1>1. IsFiniteSet(Awaited(o)) /\ Cardinality(Awaited(o)) \in Nat
  BY RingAssumption, FS_Subset, FS_CardinalityType DEF Awaited
<1>2. Work(o) \in Int
  <2>1. o \notin Get => cursor[o] \in Int
    BY RingFacts DEF TypeOK, Op
  <2> QED
    BY <2>1, RingFacts DEF Work
<1> QED
  BY <1>1, <1>2 DEF Remaining, Awaited, Work

(* A running request that is not finished by the step gets answers and     *)
(* gives calls up, but is not made to wait again.                          *)
LEMMA WaitsEnd ==
  ASSUME TypeOK, [Next]_vars, NEW o \in Op, Running(o), Running(o)', NEW n \in Node
  PROVE  \/ reply'[o][n] = reply[o][n]
         \/ reply[o][n] = "wait" /\ reply'[o][n] # "wait"
<1> DEFINE Goal == \/ reply'[o][n] = reply[o][n]
                   \/ reply[o][n] = "wait" /\ reply'[o][n] # "wait"
<1>0. /\ reply \in [Op -> [Node -> {"none", "wait", "ok", "err"}]]
      /\ reply[o] \in [Node -> {"none", "wait", "ok", "err"}]
      /\ phase[o] # "idle"
  BY DEF TypeOK, Running
<1>1. CASE UNCHANGED reply
  BY <1>1
<1>2. ASSUME NEW p \in Put, NEW m \in Coordinator, NEW time \in Timestamp, StartPut(p, m, time)
      PROVE  Goal
  BY <1>0, <1>2, OpFacts DEF StartPut
<1>3. ASSUME NEW g \in Get, NEW m \in Coordinator, StartGet(g, m) PROVE Goal
  BY <1>0, <1>3, OpFacts DEF StartGet
<1>4. ASSUME NEW u \in Op, NEW m \in Node, NEW s \in {"ok", "err"},
             reply' = [reply EXCEPT ![u][m] = s], reply[u][m] = "wait"
      PROVE  Goal
  <2>1. CASE u = o /\ m = n
    BY <1>0, <1>4, <2>1
  <2>2. CASE u = o /\ m # n
    BY <1>0, <1>4, <2>2
  <2>3. CASE u # o
    BY <1>0, <1>4, <2>3
  <2> QED
    BY <2>1, <2>2, <2>3
<1>5. ASSUME NEW p \in Put, NEW m \in Node, Timeout(p, m) PROVE Goal
  BY <1>4, <1>5, OpFacts DEF Timeout
<1>6. ASSUME NEW u \in Op, NEW m \in Node, SkipWrite(u, m) \/ WriteEntry(u, m) PROVE Goal
  <2>1. reply' = reply \/ (reply[u][m] = "wait" /\ reply' = [reply EXCEPT ![u][m] = "ok"])
    BY <1>6 DEF SkipWrite, WriteEntry, Acknowledge
  <2> QED
    BY <1>1, <1>4, <2>1
<1>7. ASSUME NEW u \in Op, NEW m \in Node, LoseWrite(u, m) PROVE Goal
  BY <1>0, <1>7 DEF LoseWrite
<1>8. ASSUME NEW g \in Get, NEW m \in Node, ReadReplica(g, m) PROVE Goal
  BY <1>4, <1>8, OpFacts DEF ReadReplica
<1>9. ASSUME NEW g \in Get, NEW m \in Node, ReadFails(g, m) PROVE Goal
  BY <1>4, <1>9, OpFacts DEF ReadFails
<1>10. ASSUME NEW u \in Op, Abandon(u) PROVE Goal
  BY <1>0, <1>10 DEF Abandon
<1>11. ASSUME NEW m \in Node, Crash(m) PROVE Goal
  BY <1>0, <1>11 DEF Crash, Stop
<1> QED
  BY <1>1, <1>2, <1>3, <1>5, <1>6, <1>7, <1>8, <1>9, <1>10, <1>11 DEF Next, Step, vars,
     EndWrites, SendHint, HintFails, FinishPut, StoreHint, LoseHint, CheckNewer, FinishGet

LEMMA FewerAwaited ==
  ASSUME TypeOK, TypeOK', [Next]_vars, NEW o \in Op, Running(o), Running(o)'
  PROVE  \/ Cardinality(Awaited(o)') < Cardinality(Awaited(o))
         \/ reply'[o] = reply[o] /\ Awaited(o)' = Awaited(o)
<1>1. Awaited(o)' \in SUBSET Awaited(o)
  BY WaitsEnd DEF Awaited
<1>2. IsFiniteSet(Awaited(o))
  BY RemainingFacts
<1>3. CASE Awaited(o)' = Awaited(o)
  <2>1. \A n \in Node : reply'[o][n] = reply[o][n]
    BY <1>3, WaitsEnd DEF Awaited
  <2>2. /\ reply[o] \in [Node -> {"none", "wait", "ok", "err"}]
        /\ reply'[o] \in [Node -> {"none", "wait", "ok", "err"}]
    BY DEF TypeOK
  <2> QED
    BY <1>3, <2>1, <2>2
<1>4. CASE Awaited(o)' # Awaited(o)
  <2>1. /\ IsFiniteSet(Awaited(o)') /\ Cardinality(Awaited(o)') <= Cardinality(Awaited(o))
        /\ Cardinality(Awaited(o)') # Cardinality(Awaited(o))
    BY <1>1, <1>2, <1>4, FS_Subset
  <2>2. Cardinality(Awaited(o)') \in Nat /\ Cardinality(Awaited(o)) \in Nat
    BY <1>2, <2>1, FS_CardinalityType
  <2> QED
    BY <2>1, <2>2
<1> QED
  BY <1>3, <1>4

(* The coordinator's own work shrinks whenever it moves on.                *)
LEMMA LessWork ==
  ASSUME TypeOK, TypeOK', [Next]_vars, NEW o \in Op, Running(o), Running(o)'
  PROVE  Work(o)' < Work(o) \/ (phase'[o] = phase[o] /\ Work(o)' = Work(o))
<1> DEFINE Goal == Work(o)' < Work(o) \/ (phase'[o] = phase[o] /\ Work(o)' = Work(o))
<1>0. /\ phase \in [Op -> {"idle", "writing", "hinting", "hintSent", "reading",
                           "ok", "failed", "abandoned"}]
      /\ Cardinality(Node) \in Nat /\ phase[o] # "idle"
      /\ o \in Put => o \notin Get /\ cursor[o] \in Nat
      /\ o \in Put \/ o \in Get
  BY OpFacts, RingFacts DEF TypeOK, Running, Op
<1>1. CASE UNCHANGED <<phase[o], cursor>>
  BY <1>1 DEF Work
<1>2. ASSUME NEW p \in Put,
             \/ \E m \in Coordinator, time \in Timestamp : StartPut(p, m, time)
             \/ EndWrites(p) \/ HintFails(p) \/ FinishPut(p) \/ \E m \in Node : StoreHint(p, m)
      PROVE  Goal
  <2>1. CASE p # o
    <3>1. UNCHANGED <<phase[o], cursor>>
      BY <1>0, <1>2, <2>1, OpFacts DEF StartPut, EndWrites, HintFails, FinishPut, StoreHint
    <3> QED
      BY <1>1, <3>1
  <2>2. CASE p = o
    <3>1. /\ cursor' = cursor
          /\ \/ phase'[o] = phase[o]
             \/ phase[o] \in {"writing", "hintSent"} /\ phase'[o] = "hinting"
      BY <1>0, <1>2, <2>2, OpFacts
         DEF StartPut, EndWrites, HintFails, FinishPut, StoreHint, Running
    <3> QED
      BY <1>0, <2>2, <3>1 DEF Work
  <2> QED
    BY <2>1, <2>2
<1>3. ASSUME NEW p \in Put, SendHint(p) PROVE Goal
  <2>1. CASE p # o
    <3>1. phase'[o] = phase[o] /\ (o \in Put => cursor'[o] = cursor[o])
      BY <1>0, <1>3, <2>1, OpFacts DEF SendHint, TypeOK
    <3> QED
      BY <1>0, <3>1 DEF Work
  <2>2. CASE p = o
    <3>1. phase[o] = "hinting" /\ phase'[o] = "hintSent" /\ cursor'[o] = cursor[o] + 1
      BY <1>0, <1>3, <2>2 DEF SendHint, TypeOK
    <3> QED
      BY <1>0, <2>2, <3>1 DEF Work
  <2> QED
    BY <2>1, <2>2
<1>4. ASSUME NEW g \in Get, NEW m \in Coordinator, StartGet(g, m) PROVE Goal
  <2>1. UNCHANGED <<phase[o], cursor>>
    BY <1>0, <1>4, OpFacts DEF StartGet
  <2> QED
    BY <1>1, <2>1
<1>5. ASSUME NEW g \in Get, FinishGet(g) PROVE Goal
  <2>1. cursor' = cursor /\ \E s \in {"ok", "failed"} : phase' = [phase EXCEPT ![g] = s]
    BY <1>5 DEF FinishGet
  <2>2. phase'[o] = phase[o]
    BY <1>0, <2>1, OpFacts DEF Running
  <2> QED
    BY <1>1, <2>1, <2>2
<1>6. ASSUME NEW u \in Op, Abandon(u) PROVE Goal
  <2>1. UNCHANGED <<phase[o], cursor>>
    BY <1>0, <1>6 DEF Abandon, Running
  <2> QED
    BY <1>1, <2>1
<1>7. ASSUME NEW m \in Node, Crash(m) PROVE Goal
  <2>1. UNCHANGED <<phase[o], cursor>>
    BY <1>0, <1>7 DEF Crash, Stop, Running
  <2> QED
    BY <1>1, <2>1
<1> QED
  BY <1>1, <1>2, <1>3, <1>4, <1>5, <1>6, <1>7 DEF Next, Step, vars, coordVars, Timeout, LoseHint,
     SkipWrite, CheckNewer, WriteEntry, LoseWrite, ReadReplica, ReadFails

(* NeverSetBack for every cluster and any requests: a put ends after at    *)
(* most one step for each replica, two for each candidate and one more,    *)
(* a get after one for each replica, if its coordinator keeps working.     *)
THEOREM RequestsRunOut == Spec => NeverSetBack
<1>1. TypeOK /\ TypeOK' /\ [Next]_vars
        => [\A o \in Op : Running(o) /\ Running(o)' =>
              \/ Remaining(o)' < Remaining(o)
              \/ UNCHANGED <<phase[o], reply[o], Remaining(o)>>]_vars
  <2> SUFFICES ASSUME TypeOK, TypeOK', [Next]_vars, NEW o \in Op, Running(o), Running(o)'
               PROVE  \/ Remaining(o)' < Remaining(o)
                      \/ UNCHANGED <<phase[o], reply[o], Remaining(o)>>
    BY DEF vars
  <2>1. /\ Remaining(o) = Cardinality(Awaited(o)) + Work(o)
        /\ Cardinality(Awaited(o)) \in Nat /\ Work(o) \in Int
    BY RemainingFacts
  <2>2. /\ Remaining(o)' = Cardinality(Awaited(o)') + Work(o)'
        /\ Cardinality(Awaited(o)') \in Nat /\ Work(o)' \in Int
    <3>1. IsFiniteSet(Awaited(o)') /\ Cardinality(Awaited(o)') \in Nat
      BY RingAssumption, FS_Subset, FS_CardinalityType DEF Awaited
    <3>2. o \notin Get => cursor'[o] \in Int
      BY RingFacts DEF TypeOK, Op
    <3>3. Work(o)' \in Int
      BY <3>2, RingFacts DEF Work
    <3> QED
      BY <3>1, <3>3 DEF Remaining, Awaited, Work
  <2>3. /\ \/ Cardinality(Awaited(o)') < Cardinality(Awaited(o))
           \/ reply'[o] = reply[o] /\ Awaited(o)' = Awaited(o)
        /\ Work(o)' < Work(o) \/ (phase'[o] = phase[o] /\ Work(o)' = Work(o))
    BY FewerAwaited, LessWork
  <2> QED
    BY <2>1, <2>2, <2>3
<1> QED
  BY <1>1, TypeCorrect, PTL DEF Spec, NeverSetBack
=============================================================================
