---------------------------- MODULE HintHandoff ----------------------------
(***************************************************************************)
(* Hinted handoff between one holder and one target node: the holder's     *)
(* HintStore (src/src/store/hints.rs) and the delivery tasks its handoff   *)
(* loop spawns (src/src/coordinator/handoff.rs).                           *)
(*                                                                         *)
(* A hint is abstracted to its key and timestamp; -1 is no hint.  Every    *)
(* Join or Update event of the target spawns a delivery task, so tasks may *)
(* overlap with each other and with new hints.  Such an event says that    *)
(* the target gossips, not that it answers: a node joins before it listens *)
(* (main in src/src/bin/server.rs).                                        *)
(***************************************************************************)
EXTENDS Integers, FiniteSets

CONSTANTS
  Key,         \* keys of the hinted writes
  Timestamp,   \* coordinator timestamps
  Task,        \* delivery tasks alive at once
  MaxEvents,   \* bound on gossip events waiting for the handoff loop
  MaxCrashes   \* bound on restarts of the holder

ASSUME HandoffAssumption ==
  Timestamp \subseteq Nat /\ MaxEvents \in Nat /\ MaxCrashes \in Nat

VARIABLES
  hint,       \* hint[k]: the hint the holder keeps for the target
  stored,     \* stored[k]: the version of k at the target
  up,         \* the target answers
  events,     \* Join or Update events of the target not yet received
  task,       \* task[d]: a deliver_hints task
  crashes,    \* restarts of the holder so far
  accepted,   \* history: accepted[k] is the greatest timestamp hinted since
              \* the holder last started with an empty disk
  reordered,  \* history: keys for which an older hint came after a newer one
  crossed,    \* history: keys for which a hint came between the snapshot of
              \* a task and the end of that task's work on the key
  failed      \* history: the holder's RocksDB or HTTP client has failed a task

histVars == <<accepted, reordered, crossed, failed>>
vars == <<hint, stored, up, events, task, crashes, histVars>>

Nothing == [k \in Key |-> -1]

\* snapshot: the hints the task has read and not yet gone past;
\* done: the key it has delivered and is about to delete.
Task0(stage, snapshot, done) == [stage |-> stage, snapshot |-> snapshot, done |-> done]

Free == Task0("free", Nothing, {})

Later(x, y) == IF x < y THEN y ELSE x

Init ==
  /\ hint = Nothing
  /\ stored = Nothing
  /\ up = TRUE
  /\ events = 0
  /\ task = [d \in Task |-> Free]
  /\ crashes = 0
  /\ accepted = Nothing
  /\ reordered = {}
  /\ crossed = {}
  /\ failed = FALSE

-----------------------------------------------------------------------------
(* Faulty forms of some actions, each with a bug the code could have had.  *)
(* They are not part of Next: the runs substitute them one at a time to    *)
(* show which property notices.                                            *)

\* The loop takes an event that is not there.
PhantomEvent(d) ==
  /\ task[d] = Free
  /\ events' = events - 1
  /\ task' = [task EXCEPT ![d] = Task0("spawned", Nothing, {})]
  /\ UNCHANGED <<hint, stored, up, crashes, histVars>>

\* The loop receives the event and spawns nothing.
IgnoredEvent(d) ==
  /\ events > 0
  /\ task[d] = Free
  /\ events' = events - 1
  /\ UNCHANGED <<hint, stored, up, task, crashes, histVars>>

\* The hint is deleted whether or not the target answered.
DeletedAnyway(d, k) ==
  /\ task[d].stage = "sending"
  /\ task[d].done = {}
  /\ task[d].snapshot[k] # -1
  /\ ~up
  /\ hint' = [hint EXCEPT ![k] = -1]
  /\ task' = [task EXCEPT ![d].snapshot[k] = -1]
  /\ UNCHANGED <<stored, up, events, crashes, histVars>>

-----------------------------------------------------------------------------
(* HintStore::store_hint, called for a coordinator whose write to the      *)
(* target failed.  The target may be up: a slow answer is a failure too.   *)
StoreHint(k, time) ==
  /\ hint' = [hint EXCEPT ![k] = time]
  /\ accepted' = [accepted EXCEPT ![k] = Later(@, time)]
  /\ reordered' = IF time < accepted[k] THEN reordered \cup {k} ELSE reordered
  /\ crossed' = IF \E d \in Task : task[d].snapshot[k] # -1 THEN crossed \cup {k} ELSE crossed
  /\ UNCHANGED <<stored, up, events, task, crashes, failed>>

-----------------------------------------------------------------------------
(* The target and the gossip layer *)

\* The target executes some other write or repair of k (put_if_newer).
WriteTarget(k, time) ==
  /\ up
  /\ stored' = [stored EXCEPT ![k] = Later(@, time)]
  /\ UNCHANGED <<hint, up, events, task, crashes, histVars>>

TargetFails ==
  /\ up
  /\ up' = FALSE
  /\ UNCHANGED <<hint, stored, events, task, crashes, histVars>>

\* The target answers again: its process listens, or the network is back.
TargetReturns ==
  /\ ~up
  /\ up' = TRUE
  /\ UNCHANGED <<hint, stored, events, task, crashes, histVars>>

\* memberlist reports a Join or an Update of the target with its meta: before
\* the target answers, after, or never if gossip had noticed no outage.
Gossip ==
  /\ events < MaxEvents
  /\ events' = events + 1
  /\ UNCHANGED <<hint, stored, up, task, crashes, histVars>>

-----------------------------------------------------------------------------
(* HandoffTask::run: each event spawns a delivery task *)
HandleEvent(d) ==
  /\ events > 0
  /\ task[d] = Free
  /\ events' = events - 1
  /\ task' = [task EXCEPT ![d] = Task0("spawned", Nothing, {})]
  /\ UNCHANGED <<hint, stored, up, crashes, histVars>>

(* deliver_hints *)

\* hints_for_node: snapshot every pending hint.
ReadHints(d) ==
  /\ task[d].stage = "spawned"
  /\ task' = [task EXCEPT ![d] = Task0("sending", hint, {})]
  /\ UNCHANGED <<hint, stored, up, events, crashes, histVars>>

\* It fails, or no HTTP client can be built for the target: the task ends and the
\* hints wait for another event.
TaskFails(d) ==
  /\ task[d].stage = "spawned"
  /\ task' = [task EXCEPT ![d] = Free]
  /\ failed' = TRUE
  /\ UNCHANGED <<hint, stored, up, events, crashes, accepted, reordered, crossed>>

\* The target executes the hinted write and acknowledges it.
Deliver(d, k) ==
  /\ task[d].stage = "sending"
  /\ task[d].done = {}
  /\ task[d].snapshot[k] # -1
  /\ up
  /\ stored' = [stored EXCEPT ![k] = Later(@, task[d].snapshot[k])]
  /\ task' = [task EXCEPT ![d].done = {k}]
  /\ UNCHANGED <<hint, up, events, crashes, histVars>>

\* delete_hint names the target and the key, not the version delivered.
DeleteHint(d, k) ==
  /\ k \in task[d].done
  /\ hint' = [hint EXCEPT ![k] = -1]
  /\ task' = [task EXCEPT ![d] = Task0("sending", [task[d].snapshot EXCEPT ![k] = -1], {})]
  /\ UNCHANGED <<stored, up, events, crashes, histVars>>

\* The error of delete_hint is dropped: the hint stays, to be delivered again.
DeleteHintFails(d, k) ==
  /\ k \in task[d].done
  /\ task' = [task EXCEPT ![d] = Task0("sending", [task[d].snapshot EXCEPT ![k] = -1], {})]
  /\ failed' = TRUE
  /\ UNCHANGED <<hint, stored, up, events, crashes, accepted, reordered, crossed>>

\* The target does not answer: the hint stays, the task goes on.  If the target
\* executes the request later, that is a WriteTarget.
DeliveryFails(d, k) ==
  /\ task[d].stage = "sending"
  /\ task[d].done = {}
  /\ task[d].snapshot[k] # -1
  /\ ~up
  /\ task' = [task EXCEPT ![d].snapshot[k] = -1]
  /\ UNCHANGED <<hint, stored, up, events, crashes, histVars>>

EndTask(d) ==
  /\ task[d] = Task0("sending", Nothing, {})
  /\ task' = [task EXCEPT ![d] = Free]
  /\ UNCHANGED <<hint, stored, up, events, crashes, histVars>>

-----------------------------------------------------------------------------
\* The holder stops and starts again: its hints are on disk, inside the data
\* directory --wipe-data removes, its tasks and its queue of events are gone.
Restart(wipe) ==
  /\ crashes < MaxCrashes
  /\ crashes' = crashes + 1
  /\ task' = [d \in Task |-> Free]
  /\ events' = 0
  /\ \/ wipe /\ hint' = Nothing /\ accepted' = Nothing
     \/ ~wipe /\ UNCHANGED <<hint, accepted>>
  /\ UNCHANGED <<stored, up, reordered, crossed, failed>>

Working(d) ==
  \/ HandleEvent(d) \/ ReadHints(d) \/ TaskFails(d) \/ EndTask(d)
  \/ \E k \in Key : Deliver(d, k) \/ DeleteHint(d, k) \/ DeleteHintFails(d, k) \/ DeliveryFails(d, k)

Next ==
  \/ \E k \in Key, time \in Timestamp : StoreHint(k, time) \/ WriteTarget(k, time)
  \/ TargetFails \/ TargetReturns \/ Gossip
  \/ \E wipe \in BOOLEAN : Restart(wipe)
  \/ \E d \in Task : Working(d)

Spec == Init /\ [][Next]_vars

\* Spawned tasks and the event loop run whenever they can.
FairSpec == Spec /\ \A d \in Task : WF_vars(Working(d))

-----------------------------------------------------------------------------
(* Every variable has its type. *)
Times == Timestamp \cup {-1}

TypeOK ==
  /\ hint \in [Key -> Times]
  /\ stored \in [Key -> Times]
  /\ up \in BOOLEAN
  /\ events \in 0 .. MaxEvents
  /\ task \in [Task -> [stage : {"free", "spawned", "sending"},
                        snapshot : [Key -> Times], done : SUBSET Key]]
  /\ crashes \in 0 .. MaxCrashes
  /\ accepted \in [Key -> Times]
  /\ reordered \in SUBSET Key
  /\ crossed \in SUBSET Key
  /\ failed \in BOOLEAN

(* An accepted hint is never lost: it is kept, or the target has its write *)
(* or a newer one, through failed deliveries, overlapping tasks and        *)
(* restarts, as long as hints arrive in timestamp order and none arrives   *)
(* while a task works on its key.                                          *)
HintKept ==
  \A k \in Key \ (reordered \cup crossed) : Later(hint[k], stored[k]) >= accepted[k]

\* Something will still try to deliver the hint of k: an event to be received,
\* a task that has yet to read the hints, or one that has read this hint.
Pending(k) ==
  /\ hint[k] # -1
  /\ \/ events > 0
     \/ \E d \in Task : task[d].stage = "spawned" \/ task[d].snapshot[k] # -1

(* Work that is under way for a hint is given up only when the hint is     *)
(* gone, the target does not answer, the holder has failed a task or the   *)
(* holder restarts: tasks that end, and hints that come or are deleted     *)
(* meanwhile, leave no hint waiting for an event that has already passed.  *)
NotForgotten ==
  [][\A k \in Key : Pending(k) =>
       Pending(k)' \/ hint'[k] = -1 \/ ~up \/ failed' \/ crashes' # crashes]_vars

(* Once an event of the target is waiting for the handoff loop, each hint  *)
(* already stored is delivered and deleted, unless the target does not     *)
(* answer in the meantime, the holder's store or HTTP client has failed or *)
(* the holder has restarted.                                               *)
EventDrainsHints ==
  \A k \in Key : \A i \in 0 .. MaxCrashes :
    (hint[k] # -1 /\ events > 0 /\ crashes = i)
      ~> (hint[k] = -1 \/ ~up \/ failed \/ crashes > i)

(* client/http.rs:217-219: the holder delivers a hint "once that node is   *)
(* back online": when the target is up for good, every hint goes.          *)
HintDelivered == <>[]up => \A k \in Key : hint[k] # -1 ~> hint[k] = -1
=============================================================================
