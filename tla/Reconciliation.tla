--------------------------- MODULE Reconciliation ---------------------------
(***************************************************************************)
(* What the peers of a node do when it comes back: the UUID part of        *)
(* HandoffTask::run and reconcile_keys (src/src/coordinator/handoff.rs).   *)
(* A peer that sees a new startup UUID aborts the reconciliation it may be *)
(* running for that node and spawns another, which pushes every local key  *)
(* it is the designated sender of.  A node that starts announces itself    *)
(* before it listens (main in src/src/bin/server.rs), so the pushes its    *)
(* announcement causes may find nobody.                                    *)
(*                                                                         *)
(* Values are abstracted to their timestamps, -1 is a missing key; every   *)
(* write is a put_if_newer whose calls do not overlap (VersionedStore says *)
(* what happens when they do).  Gossip is the memberlist crate: it reports *)
(* each startup of the returner to each peer, in order, and may report it  *)
(* again.                                                                  *)
(***************************************************************************)
EXTENDS Integers, FiniteSets, Sequences

CONSTANTS
  Returner,     \* the node that comes back
  Peer,         \* the other nodes of the roster
  Key,
  Order,        \* Order[k]: the roster in ring order for key k
  N,            \* length of a preference list
  Timestamp,
  MaxRestarts,  \* bound on the startups of the returner after its first
  MaxEvents,    \* bound on the events a peer's loop has not received
  LinkFails,    \* whether calls to the returner may fail while it runs, or no
                \* HTTP client be had for them
  PeersFail,    \* whether peers stop and start again
  Writes        \* whether other writes go on meanwhile

Member == Peer \cup {Returner}

ASSUME OrderAssumption ==
  /\ Returner \notin Peer
  /\ N \in Nat
  /\ \A k \in Key : /\ Order[k] \in Seq(Member)
                    /\ Len(Order[k]) >= N

ASSUME BoundAssumption ==
  /\ Timestamp \subseteq Nat
  /\ MaxRestarts \in Nat /\ MaxEvents \in Nat
  /\ LinkFails \in BOOLEAN /\ PeersFail \in BOOLEAN /\ Writes \in BOOLEAN

VARIABLES
  stored,   \* stored[m][k]: the version of k at member m
  uuid,     \* the returner's startup UUID, the number of its startup
  up,       \* the returner listens and can be reached
  down,     \* the peers that are not running
  view,     \* view[n]: the peers online in n's member table
  told,     \* told[n]: the last UUID gossip reported to n, -1 for none
  queue,    \* queue[n]: the events n's loop has not received, as UUIDs
  known,    \* known[n]: known_uuids of the returner at n, -1 for none
  task,     \* task[n]: the reconciliation n runs (or last ran)
  flight,   \* the pushes sent to the returner and not yet executed; equal ones
            \* are one, as put_if_newer makes no difference between them
  plan,     \* history: plan[n] is what n's last scan set out to push, or would
            \* have with an HTTP client
  missed    \* history: missed[n] are the keys of that scan the returner did
            \* not take

gossipVars == <<uuid, up, down, view, told>>
vars == <<stored, gossipVars, queue, known, task, flight, plan, missed>>

Times == Timestamp \cup {-1}

Nothing == [k \in Key |-> -1]

Later(x, y) == IF x < y THEN y ELSE x

\* preference_list_for_key
Preferred(k) == {Order[k][i] : i \in 1 .. N}

\* The first preferred node that is neither the returner nor offline.
Designated(k, n, online) ==
  \E i \in 1 .. N :
    /\ Order[k][i] = n
    /\ n # Returner /\ n \in online
    /\ \A j \in 1 .. i - 1 : Order[k][j] = Returner \/ Order[k][j] \notin online

\* online: the snapshot of online_members; todo: what the scan has not pushed.
Task(stage, online, todo) == [stage |-> stage, online |-> online, todo |-> todo]

Push(n, k, time) == [from |-> n, key |-> k, time |-> time]

Init ==
  /\ stored \in [Member -> [Key -> Times]]
  /\ stored[Returner] = Nothing
  /\ uuid = 0
  /\ up = FALSE
  /\ down = {}
  /\ view = [n \in Peer |-> Peer]
  /\ told = [n \in Peer |-> -1]
  /\ queue = [n \in Peer |-> <<>>]
  /\ known = [n \in Peer |-> -1]
  /\ task = [n \in Peer |-> Task("idle", {}, Nothing)]
  /\ flight = {}
  /\ plan = [n \in Peer |-> Nothing]
  /\ missed = [n \in Peer |-> {}]

-----------------------------------------------------------------------------
(* The returner, the other writers and gossip *)

\* The returner's process starts again, with or without its data (--wipe-data,
\* or a new disk), and joins the gossip with a new UUID.  It does not listen yet.
Restart(wipe) ==
  /\ uuid < MaxRestarts
  /\ uuid' = uuid + 1
  /\ up' = FALSE
  /\ stored' = IF wipe THEN [stored EXCEPT ![Returner] = Nothing] ELSE stored
  /\ UNCHANGED <<down, view, told, queue, known, task, flight, plan, missed>>

\* The start-up reaches TcpListener::bind, or the network is back.
Listen ==
  /\ ~up
  /\ up' = TRUE
  /\ UNCHANGED <<stored, uuid, down, view, told, queue, known, task, flight, plan, missed>>

\* The network to the returner fails.
Unreachable ==
  /\ LinkFails
  /\ up
  /\ up' = FALSE
  /\ UNCHANGED <<stored, uuid, down, view, told, queue, known, task, flight, plan, missed>>

\* A put, a hint or a read repair reaches a member that is running.
Write(m, k, time) ==
  /\ Writes
  /\ m \notin down /\ (m = Returner => up)
  /\ stored' = [stored EXCEPT ![m][k] = Later(@, time)]
  /\ UNCHANGED <<gossipVars, queue, known, task, flight, plan, missed>>

\* A Join or Update event of the returner, with its current meta.
Gossip(n) ==
  /\ n \notin down
  /\ Len(queue[n]) < MaxEvents
  /\ told' = [told EXCEPT ![n] = uuid]
  /\ queue' = [queue EXCEPT ![n] = Append(@, uuid)]
  /\ UNCHANGED <<stored, uuid, up, down, view, known, task, flight, plan, missed>>

\* A peer stops: its loop, its tasks, its memory of UUIDs and its member table
\* are gone.
PeerFails(n) ==
  /\ PeersFail
  /\ n \notin down
  /\ down' = down \cup {n}
  /\ told' = [told EXCEPT ![n] = -1]
  /\ queue' = [queue EXCEPT ![n] = <<>>]
  /\ known' = [known EXCEPT ![n] = -1]
  /\ task' = [task EXCEPT ![n] = Task("idle", {}, Nothing)]
  /\ view' = [view EXCEPT ![n] = {n}]
  /\ UNCHANGED <<stored, uuid, up, flight, plan, missed>>

PeerReturns(n) ==
  /\ n \in down
  /\ down' = down \ {n}
  /\ UNCHANGED <<stored, uuid, up, view, told, queue, known, task, flight, plan, missed>>

\* n's member table catches up with the state of peer m.
Notice(n, m) ==
  /\ n \notin down
  /\ (m \in view[n]) = (m \in down)
  /\ view' = [view EXCEPT ![n] = IF m \in down THEN @ \ {m} ELSE @ \cup {m}]
  /\ UNCHANGED <<stored, uuid, up, down, told, queue, known, task, flight, plan, missed>>

-----------------------------------------------------------------------------
(* Faulty forms of some actions, each with a bug the code could have had.  *)
(* They are not part of Next: the runs substitute them one at a time to    *)
(* show which property notices.                                            *)

\* A running reconciliation is not aborted, and none is spawned beside it.
KeptRunning(n) ==
  /\ queue[n] # <<>>
  /\ queue' = [queue EXCEPT ![n] = Tail(@)]
  /\ known' = [known EXCEPT ![n] = Head(queue[n])]
  /\ task' = IF known[n] # Head(queue[n]) /\ task[n].stage = "idle"
             THEN [task EXCEPT ![n] = Task("spawned", {}, Nothing)]
             ELSE task
  /\ UNCHANGED <<stored, gossipVars, flight, plan, missed>>

\* Only the first UUID of a node starts a reconciliation.
FirstUuidOnly(n) ==
  /\ queue[n] # <<>>
  /\ queue' = [queue EXCEPT ![n] = Tail(@)]
  /\ known' = [known EXCEPT ![n] = Head(queue[n])]
  /\ task' = IF known[n] = -1
             THEN [task EXCEPT ![n] = Task("spawned", {}, Nothing)]
             ELSE task
  /\ UNCHANGED <<stored, gossipVars, flight, plan, missed>>

\* The returner is one of the online members the scan counts with.
ReturnerCounted(n) ==
  /\ task[n].stage = "spawned"
  /\ task' = [task EXCEPT ![n] = Task("viewed", view[n] \cup {Returner}, Nothing)]
  /\ UNCHANGED <<stored, gossipVars, queue, known, flight, plan, missed>>

-----------------------------------------------------------------------------
(* HandoffTask::run, phase 2 *)

\* What the reconciliation at n may still send when it is aborted while another
\* thread polls it: an abort takes effect where the task waits next.
Stragglers(n) ==
  LET online == IF task[n].stage = "spawned" THEN view[n] ELSE task[n].online
      rest == IF task[n].stage \in {"spawned", "viewed"}
              THEN [k \in Key |-> IF Designated(k, n, online) THEN stored[n][k] ELSE -1]
              ELSE task[n].todo
  IN  {Push(n, k, rest[k]) : k \in {j \in Key : rest[j] # -1}}

\* A UUID other than the last one known: the running reconciliation, if any,
\* is aborted and another is spawned.
HandleEvent(n) ==
  /\ queue[n] # <<>>
  /\ queue' = [queue EXCEPT ![n] = Tail(@)]
  /\ known' = [known EXCEPT ![n] = Head(queue[n])]
  /\ \/ /\ known[n] = Head(queue[n])
        /\ UNCHANGED <<task, flight>>
     \/ /\ known[n] # Head(queue[n])
        /\ task' = [task EXCEPT ![n] = Task("spawned", {}, Nothing)]
        /\ \E sent \in {{}} \cup {{f} : f \in Stragglers(n)} : flight' = flight \cup sent
  /\ UNCHANGED <<stored, gossipVars, plan, missed>>

-----------------------------------------------------------------------------
(* reconcile_keys *)

\* online_members, once for the whole scan.
SnapshotView(n) ==
  /\ task[n].stage = "spawned"
  /\ task' = [task EXCEPT ![n] = Task("viewed", view[n], Nothing)]
  /\ UNCHANGED <<stored, gossipVars, queue, known, flight, plan, missed>>

\* The keys n is the designated sender of, with its versions.
Assigned(n) == [k \in Key |-> IF Designated(k, n, task[n].online) THEN stored[n][k] ELSE -1]

\* iter_all reads from a snapshot of the local store; the keys this node is
\* not the designated sender of are skipped.
OpenScan(n) ==
  /\ task[n].stage = "viewed"
  /\ plan' = [plan EXCEPT ![n] = Assigned(n)]
  /\ task' = [task EXCEPT ![n] = Task("scanning", task[n].online, Assigned(n))]
  /\ missed' = [missed EXCEPT ![n] = {}]
  /\ UNCHANGED <<stored, gossipVars, queue, known, flight>>

\* No HTTP client can be built for the returner: the task ends, and the loop has
\* recorded the UUID all the same.
ScanFails(n) ==
  /\ LinkFails
  /\ task[n].stage = "viewed"
  /\ plan' = [plan EXCEPT ![n] = Assigned(n)]
  /\ task' = [task EXCEPT ![n] = Task("idle", {}, Nothing)]
  /\ missed' = [missed EXCEPT ![n] = Key]
  /\ UNCHANGED <<stored, gossipVars, queue, known, flight>>

\* Keys are pushed one at a time, in the order of the store.
SendKey(n, k) ==
  /\ task[n].stage = "scanning"
  /\ task[n].todo[k] # -1
  /\ flight' = flight \cup {Push(n, k, task[n].todo[k])}
  /\ task' = [task EXCEPT ![n].stage = "sending", ![n].todo[k] = -1]
  /\ UNCHANGED <<stored, gossipVars, queue, known, plan, missed>>

\* The answer, the refusal or the timeout of the push; its result is dropped.
EndPush(n) ==
  /\ task[n].stage = "sending"
  /\ task' = [task EXCEPT ![n].stage = "scanning"]
  /\ UNCHANGED <<stored, gossipVars, queue, known, flight, plan, missed>>

EndScan(n) ==
  /\ task[n].stage = "scanning"
  /\ task[n].todo = Nothing
  /\ task' = [task EXCEPT ![n] = Task("idle", {}, Nothing)]
  /\ UNCHANGED <<stored, gossipVars, queue, known, flight, plan, missed>>

-----------------------------------------------------------------------------
(* put_kv_internal_versioned at the returner *)

\* A push whose sender gave up, was aborted or stopped may still be executed.
Execute(f) ==
  /\ up
  /\ stored' = [stored EXCEPT ![Returner][f.key] = Later(@, f.time)]
  /\ flight' = flight \ {f}
  /\ UNCHANGED <<gossipVars, queue, known, task, plan, missed>>

Lose(f) ==
  /\ ~up \/ LinkFails
  /\ flight' = flight \ {f}
  /\ missed' = [missed EXCEPT ![f.from] = @ \cup {f.key}]
  /\ UNCHANGED <<stored, gossipVars, queue, known, task, plan>>

-----------------------------------------------------------------------------
Next ==
  \/ Listen \/ Unreachable
  \/ \E wipe \in BOOLEAN : Restart(wipe)
  \/ \E m \in Member, k \in Key, time \in Timestamp : Write(m, k, time)
  \/ \E n \in Peer : Gossip(n) \/ PeerFails(n) \/ PeerReturns(n)
  \/ \E n, m \in Peer : Notice(n, m)
  \/ \E n \in Peer :
       \/ HandleEvent(n) \/ SnapshotView(n) \/ OpenScan(n) \/ ScanFails(n)
       \/ EndPush(n) \/ EndScan(n)
  \/ \E n \in Peer, k \in Key : SendKey(n, k)
  \/ \E f \in flight : Execute(f) \/ Lose(f)

Spec == Init /\ [][Next]_vars

Scan(n) ==
  \/ SnapshotView(n) \/ OpenScan(n) \/ ScanFails(n) \/ EndPush(n) \/ EndScan(n)
  \/ \E k \in Key : SendKey(n, k)

\* The runtime polls the loop and its tasks, the returner's start-up ends, it
\* serves what reaches it, and gossip brings every peer its UUID.
FairSpec ==
  /\ Spec
  /\ \A n \in Peer : WF_vars(HandleEvent(n)) /\ WF_vars(Scan(n))
  /\ \A n \in Peer : WF_vars(told[n] # uuid /\ Gossip(n))
  /\ WF_vars(Listen) /\ WF_vars(\E f \in flight : Execute(f))

-----------------------------------------------------------------------------
(* Every variable has its type. *)
TypeOK ==
  /\ stored \in [Member -> [Key -> Times]]
  /\ uuid \in 0 .. MaxRestarts
  /\ up \in BOOLEAN
  /\ down \in SUBSET Peer
  /\ view \in [Peer -> SUBSET Peer]
  /\ told \in [Peer -> -1 .. MaxRestarts]
  /\ queue \in [Peer -> Seq(0 .. MaxRestarts)]
  /\ known \in [Peer -> -1 .. MaxRestarts]
  /\ task \in [Peer -> [stage : {"idle", "spawned", "viewed", "scanning", "sending"},
                        online : SUBSET Peer, todo : [Key -> Times]]]
  /\ flight \in SUBSET [from : Peer, key : Key, time : Times]
  /\ plan \in [Peer -> [Key -> Times]]
  /\ missed \in [Peer -> SUBSET Key]

(* Once a peer has scanned for the returner's current startup, the         *)
(* returner has, or will get from a push still under way, every version    *)
(* the scan set out to push and the returner did not miss, whatever        *)
(* restarts, aborted scans and late pushes came before: a restart that     *)
(* empties the returner never goes unnoticed because a scan was running.   *)
ScanRestores ==
  \A n \in Peer, k \in Key :
    known[n] = uuid /\ task[n].stage = "idle" /\ k \notin missed[n]
      => \/ stored[Returner][k] >= plan[n][k]
         \/ \E f \in flight : f.key = k /\ f.time >= plan[n][k]

\* The sender of k when every peer is online.
Sender(k) == CHOOSE n \in Peer : Designated(k, n, Peer)

(* When peers are stable, the last startup of the returner is followed by  *)
(* a scan of each designated sender, so that the returner ends up with the *)
(* sender's version of every key or a newer one, unless the push of that   *)
(* very scan came before the returner listened.                            *)
SenderRestores ==
  \A k \in Key :
    <>[](k \in missed[Sender(k)] \/ stored[Returner][k] >= stored[Sender(k)][k])

(* The same at every moment, without waiting: with stable peers and no     *)
(* other writes, a designated sender that has heard of the returner's      *)
(* current startup and has nothing queued or running has given it what it  *)
(* holds, or a push that will is under way: no event, abort or earlier     *)
(* scan makes a sender believe that it has done its part when it has not.  *)
SettledIsRestored ==
  ~Writes /\ ~PeersFail =>
    \A n \in Peer, k \in Key :
      /\ Designated(k, n, Peer) /\ k \notin missed[n]
      /\ told[n] = uuid /\ queue[n] = <<>> /\ task[n].stage = "idle"
      => \/ stored[Returner][k] >= stored[n][k]
         \/ \E f \in flight : f.key = k /\ f.time >= stored[n][k]

(* ARCHITECTURE.md:127: a UUID change is "a signal to push the full key    *)
(* range for that node": in the end no other preferred node has anything   *)
(* newer of the returner's keys.                                           *)
FullRangePushed ==
  \A k \in Key : Returner \in Preferred(k) =>
    <>[](\A n \in Preferred(k) : stored[Returner][k] >= stored[n][k])
=============================================================================
