------------------------- MODULE HintHandoffProofs -------------------------
(***************************************************************************)
(* Proofs about HintHandoff: its types, that no accepted hint is lost      *)
(* where hints arrive in order and outside delivery windows, and that the  *)
(* work for a hint is never dropped silently.                              *)
(***************************************************************************)
EXTENDS HintHandoff, TLAPS

(* Timestamps and -1 are integers; -1 is below every timestamp.            *)
LEMMA TimesFacts == \A t \in Times : t \in Int /\ t >= -1
BY HandoffAssumption DEF Times

(* Type correctness of the handoff, whatever hints, outages, restarts and  *)
(* overlapping tasks come.                                                 *)
THEOREM TypeCorrect == Spec => []TypeOK
<1> USE DEF Times
<1>1. Init => TypeOK
  <2> SUFFICES ASSUME Init PROVE TypeOK
    OBVIOUS
  <2>1. up \in BOOLEAN /\ failed \in BOOLEAN
    BY DEF Init
  <2> QED
    BY <2>1, HandoffAssumption DEF Init, TypeOK, Nothing, Free, Task0
<1>2. TypeOK /\ [Next]_vars => TypeOK'
  <2> SUFFICES ASSUME TypeOK, [Next]_vars PROVE TypeOK'
    OBVIOUS
  <2> USE DEF TypeOK, histVars
  <2>1. ASSUME NEW k \in Key, NEW time \in Timestamp, StoreHint(k, time) PROVE TypeOK'
    BY <2>1 DEF StoreHint, Later
  <2>2. ASSUME NEW k \in Key, NEW time \in Timestamp, WriteTarget(k, time) PROVE TypeOK'
    BY <2>2 DEF WriteTarget, Later
  <2>3. CASE TargetFails
    BY <2>3 DEF TargetFails
  <2>4. CASE TargetReturns
    BY <2>4 DEF TargetReturns
  <2>15. CASE Gossip
    BY <2>15, HandoffAssumption DEF Gossip
  <2>5. ASSUME NEW wipe \in BOOLEAN, Restart(wipe) PROVE TypeOK'
    BY <2>5, HandoffAssumption DEF Restart, Free, Task0, Nothing
  <2>6. ASSUME NEW d \in Task, HandleEvent(d) PROVE TypeOK'
    BY <2>6, HandoffAssumption DEF HandleEvent, Task0, Nothing
  <2>7. ASSUME NEW d \in Task, ReadHints(d) PROVE TypeOK'
    BY <2>7 DEF ReadHints, Task0
  <2>8. ASSUME NEW d \in Task, NEW k \in Key, Deliver(d, k) PROVE TypeOK'
    BY <2>8 DEF Deliver, Later
  <2>9. ASSUME NEW d \in Task, NEW k \in Key, DeleteHint(d, k) PROVE TypeOK'
    BY <2>9 DEF DeleteHint, Task0
  <2>10. ASSUME NEW d \in Task, NEW k \in Key, DeliveryFails(d, k) PROVE TypeOK'
    BY <2>10 DEF DeliveryFails
  <2>11. ASSUME NEW d \in Task, EndTask(d) PROVE TypeOK'
    BY <2>11 DEF EndTask, Free, Task0, Nothing
  <2>12. ASSUME NEW d \in Task, TaskFails(d) PROVE TypeOK'
    BY <2>12 DEF TaskFails, Free, Task0, Nothing
  <2>13. ASSUME NEW d \in Task, NEW k \in Key, DeleteHintFails(d, k) PROVE TypeOK'
    BY <2>13 DEF DeleteHintFails, Task0
  <2>14. CASE UNCHANGED vars
    BY <2>14 DEF vars
  <2> QED
    BY <2>1, <2>2, <2>3, <2>4, <2>5, <2>6, <2>7, <2>8, <2>9, <2>10, <2>11, <2>12, <2>13, <2>14, <2>15
       DEF Next, Working
<1> QED
  BY <1>1, <1>2, PTL DEF Spec

-----------------------------------------------------------------------------
(***************************************************************************)
(* HintKept alone does not say why a task may delete: TaskKnows adds that  *)
(* the hint of a key is the newest accepted one, that a task's snapshot of *)
(* the key is that hint or the hint is gone, and that what a task is about *)
(* to delete is stored at the target.                                      *)
(***************************************************************************)
Clean == Key \ (reordered \cup crossed)

TaskKnows ==
  \A k \in Clean :
    /\ hint[k] # -1 => hint[k] = accepted[k]
    /\ \A d \in Task : task[d].snapshot[k] # -1 => hint[k] \in {-1, task[d].snapshot[k]}
    /\ \A d \in Task : k \in task[d].done => stored[k] >= task[d].snapshot[k] /\ task[d].snapshot[k] # -1

(* No accepted hint is lost: at every moment the holder still keeps it or  *)
(* the target has its write or a newer one, for keys whose hints came in   *)
(* timestamp order and outside the windows of delivery tasks.              *)
THEOREM HintsKept == Spec => []HintKept
<1>1. Init => TaskKnows /\ HintKept
  BY DEF Init, TaskKnows, HintKept, Nothing, Free, Task0, Later
<1>2. TypeOK /\ TypeOK' /\ TaskKnows /\ HintKept /\ [Next]_vars => TaskKnows' /\ HintKept'
  <2> SUFFICES ASSUME TypeOK, TypeOK', TaskKnows, HintKept, [Next]_vars,
                      NEW j \in Clean'
               PROVE  /\ (hint[j] # -1 => hint[j] = accepted[j])'
                      /\ \A d \in Task : task'[d].snapshot[j] # -1
                                           => hint'[j] \in {-1, task'[d].snapshot[j]}
                      /\ \A d \in Task : j \in task'[d].done
                           => stored'[j] >= task'[d].snapshot[j] /\ task'[d].snapshot[j] # -1
                      /\ Later(hint'[j], stored'[j]) >= accepted'[j]
    BY DEF TaskKnows, HintKept, Clean, Later
  <2> DEFINE Goal == /\ hint'[j] # -1 => hint'[j] = accepted'[j]
                     /\ \A d \in Task : task'[d].snapshot[j] # -1
                                           => hint'[j] \in {-1, task'[d].snapshot[j]}
                     /\ \A d \in Task : j \in task'[d].done
                           => stored'[j] >= task'[d].snapshot[j] /\ task'[d].snapshot[j] # -1
                     /\ Later(hint'[j], stored'[j]) >= accepted'[j]
  <2>j. j \in Key
    BY DEF Clean
  <2>c. j \in Clean
    BY <2>j DEF Next, vars, histVars, Clean, StoreHint, WriteTarget, TargetFails, TargetReturns, Gossip,
       Restart, Working, HandleEvent, ReadHints, TaskFails, Deliver, DeleteHint,
       DeleteHintFails, DeliveryFails, EndTask
  <2>k. /\ hint[j] # -1 => hint[j] = accepted[j]
        /\ \A d \in Task : task[d].snapshot[j] # -1 => hint[j] \in {-1, task[d].snapshot[j]}
        /\ \A d \in Task : j \in task[d].done
             => stored[j] >= task[d].snapshot[j] /\ task[d].snapshot[j] # -1
        /\ Later(hint[j], stored[j]) >= accepted[j]
    BY <2>c DEF TaskKnows, HintKept, Clean
  <2>t. /\ hint[j] \in Int /\ stored[j] \in Int /\ accepted[j] \in Int
        /\ hint[j] >= -1 /\ stored[j] >= -1
        /\ \A d \in Task : task[d].snapshot[j] \in Int /\ task[d].snapshot[j] >= -1
    BY <2>j, TimesFacts DEF TypeOK
  <2> USE DEF histVars
  <2>1. ASSUME NEW k \in Key, NEW time \in Timestamp, StoreHint(k, time) PROVE Goal
    <3>1. CASE k # j
      BY <2>1, <2>j, <2>k, <3>1 DEF StoreHint, TypeOK
    <3>2. CASE k = j
      <4>1. time \in Int /\ time >= 0
        BY HandoffAssumption
      <4>2. time >= accepted[j]
        <5>1. ~(time < accepted[j])
          BY <2>1, <3>2 DEF StoreHint, Clean
        <5> QED
          BY <4>1, <5>1, <2>t
      <4>3. \A d \in Task : task[d].snapshot[j] = -1 /\ j \notin task[d].done
        BY <2>1, <2>k, <3>2 DEF StoreHint, Clean
      <4>4. hint'[j] = time /\ accepted'[j] = Later(accepted[j], time)
            /\ task' = task /\ stored' = stored
        BY <2>1, <2>j, <3>2 DEF StoreHint, TypeOK
      <4>5. accepted'[j] = time
        BY <4>1, <4>2, <4>4, <2>t DEF Later
      <4> QED
        BY <4>1, <4>3, <4>4, <4>5, <2>t DEF Later
    <3> QED
      BY <3>1, <3>2
  <2>2. ASSUME NEW k \in Key, NEW time \in Timestamp, WriteTarget(k, time) PROVE Goal
    <3>1. time \in Int
      BY HandoffAssumption
    <3>2. stored'[j] \in Int /\ stored'[j] >= stored[j]
      BY <2>2, <2>j, <2>t, <3>1 DEF WriteTarget, Later, TypeOK
    <3> QED
      BY <2>2, <2>k, <2>t, <3>2 DEF WriteTarget, Later
  <2>3. CASE TargetFails
    BY <2>3, <2>k DEF TargetFails
  <2>4. CASE TargetReturns
    BY <2>4, <2>k DEF TargetReturns
  <2>16. CASE Gossip
    BY <2>16, <2>k DEF Gossip
  <2>5. ASSUME NEW wipe \in BOOLEAN, Restart(wipe) PROVE Goal
    <3>1. CASE wipe /\ hint' = Nothing /\ accepted' = Nothing
      <4>1. Later(hint'[j], stored'[j]) >= accepted'[j]
        BY <2>5, <3>1, <2>j, <2>t DEF Restart, Nothing, Later
      <4> QED
        BY <2>5, <3>1, <4>1, <2>j DEF Restart, Free, Task0, Nothing
    <3>2. CASE UNCHANGED <<hint, accepted>>
      BY <2>5, <3>2, <2>j, <2>k DEF Restart, Free, Task0, Nothing
    <3> QED
      BY <2>5, <3>1, <3>2 DEF Restart
  <2>6. ASSUME NEW e \in Task, HandleEvent(e) PROVE Goal
    BY <2>6, <2>j, <2>k DEF HandleEvent, Task0, Nothing, TypeOK
  <2>7. ASSUME NEW e \in Task, ReadHints(e) PROVE Goal
    BY <2>7, <2>j, <2>k DEF ReadHints, Task0, TypeOK
  <2>8. ASSUME NEW e \in Task, NEW k \in Key, Deliver(e, k) PROVE Goal
    <3>1. stored'[j] \in Int /\ stored'[j] >= stored[j]
          /\ (k = j => stored'[j] >= task[e].snapshot[j])
      BY <2>8, <2>j, <2>t DEF Deliver, Later, TypeOK
    <3>2. /\ task'[e].snapshot = task[e].snapshot /\ task'[e].done = {k}
          /\ \A d \in Task : d # e => task'[d] = task[d]
      BY <2>8 DEF Deliver, TypeOK
    <3>3. hint' = hint /\ accepted' = accepted /\ task[e].snapshot[k] # -1
      BY <2>8 DEF Deliver
    <3> QED
      BY <2>k, <2>t, <3>1, <3>2, <3>3 DEF Later
  <2>9. ASSUME NEW e \in Task, NEW k \in Key, DeleteHint(e, k) PROVE Goal
    <3>1. /\ task'[e].done = {} /\ task'[e].snapshot = [task[e].snapshot EXCEPT ![k] = -1]
          /\ \A d \in Task : d # e => task'[d] = task[d]
      BY <2>9 DEF DeleteHint, Task0, TypeOK
    <3>2. stored' = stored /\ accepted' = accepted
          /\ hint'[j] = IF k = j THEN -1 ELSE hint[j]
      BY <2>9, <2>j DEF DeleteHint, TypeOK
    <3>3. task'[e].snapshot[j] = IF k = j THEN -1 ELSE task[e].snapshot[j]
      BY <2>j, <3>1 DEF TypeOK
    <3>4. CASE k = j
      <4>1. stored[j] >= accepted[j]
        BY <2>9, <2>k, <2>t, <3>4 DEF DeleteHint, Later
      <4> QED
        BY <2>k, <2>t, <3>1, <3>2, <3>3, <3>4, <4>1 DEF Later
    <3>5. CASE k # j
      BY <2>k, <3>1, <3>2, <3>3, <3>5
    <3> QED
      BY <3>4, <3>5
  <2>10. ASSUME NEW e \in Task, NEW k \in Key, DeliveryFails(e, k) PROVE Goal
    BY <2>10, <2>j, <2>k DEF DeliveryFails, TypeOK
  <2>11. ASSUME NEW e \in Task, EndTask(e) PROVE Goal
    BY <2>11, <2>j, <2>k DEF EndTask, Free, Task0, Nothing, TypeOK
  <2>12. ASSUME NEW e \in Task, TaskFails(e) PROVE Goal
    BY <2>12, <2>j, <2>k DEF TaskFails, Free, Task0, Nothing, TypeOK
  <2>13. ASSUME NEW e \in Task, NEW k \in Key, DeleteHintFails(e, k) PROVE Goal
    <3>1. /\ task'[e].done = {} /\ task'[e].snapshot = [task[e].snapshot EXCEPT ![k] = -1]
          /\ \A d \in Task : d # e => task'[d] = task[d]
      BY <2>13 DEF DeleteHintFails, Task0, TypeOK
    <3>2. UNCHANGED <<hint, stored, accepted>>
      BY <2>13 DEF DeleteHintFails
    <3>3. task'[e].snapshot[j] = IF k = j THEN -1 ELSE task[e].snapshot[j]
      BY <2>j, <3>1 DEF TypeOK
    <3> QED
      BY <2>k, <3>1, <3>2, <3>3
  <2>14. CASE UNCHANGED vars
    BY <2>14, <2>k DEF vars
  <2>15. Goal
    BY <2>1, <2>2, <2>3, <2>4, <2>5, <2>6, <2>7, <2>8, <2>9, <2>10, <2>11, <2>12, <2>13, <2>14, <2>16
       DEF Next, Working
  <2> QED
    BY <2>15
<1>3. Spec => []TypeOK
  BY TypeCorrect
<1> QED
  BY <1>1, <1>2, <1>3, PTL DEF Spec

-----------------------------------------------------------------------------
(* Only a task that has its snapshot is about to delete a hint.            *)
Delivering == \A d \in Task : task[d].done # {} => task[d].stage = "sending"

LEMMA DeliveringHolds == Spec => [](TypeOK /\ Delivering)
<1>1. Init => Delivering
  BY DEF Init, Delivering, Free, Task0
<1>2. TypeOK /\ Delivering /\ [Next]_vars => Delivering'
  <2> SUFFICES ASSUME TypeOK, Delivering, [Next]_vars, NEW d \in Task, task'[d].done # {}
               PROVE  task'[d].stage = "sending"
    BY DEF Delivering
  <2>1. CASE UNCHANGED task
    BY <2>1 DEF Delivering
  <2>2. ASSUME NEW wipe \in BOOLEAN, Restart(wipe) PROVE FALSE
    BY <2>2 DEF Restart, Free, Task0
  <2>3. ASSUME NEW e \in Task, NEW k \in Key, Deliver(e, k) PROVE task'[d].stage = "sending"
    BY <2>3 DEF Deliver, Delivering, TypeOK
  <2>4. ASSUME NEW e \in Task, NEW k \in Key, DeliveryFails(e, k) PROVE task'[d].stage = "sending"
    BY <2>4 DEF DeliveryFails, Delivering, TypeOK
  <2>5. ASSUME NEW e \in Task, NEW stage, NEW snapshot,
               task' = [task EXCEPT ![e] = Task0(stage, snapshot, {})]
        PROVE  task'[d].stage = "sending"
    BY <2>5 DEF Task0, Delivering, TypeOK
  <2>6. ASSUME NEW e \in Task, \/ HandleEvent(e) \/ ReadHints(e) \/ TaskFails(e) \/ EndTask(e)
                               \/ \E k \in Key : DeleteHint(e, k) \/ DeleteHintFails(e, k)
        PROVE  task'[d].stage = "sending"
    BY <2>5, <2>6 DEF HandleEvent, ReadHints, TaskFails, EndTask, DeleteHint, DeleteHintFails, Free
  <2> QED
    BY <2>1, <2>2, <2>3, <2>4, <2>6 DEF Next, Working, vars, StoreHint, WriteTarget, TargetFails,
       TargetReturns, Gossip
<1> QED
  BY <1>1, <1>2, TypeCorrect, PTL DEF Spec

(* NotForgotten for any number of keys, tasks, events and restarts: each   *)
(* step hands the work for a hint on, from an event to a task and from the *)
(* task to its snapshot, or ends it for one of the reasons named.          *)
THEOREM HintsNotForgotten == Spec => NotForgotten
<1>1. TypeOK /\ Delivering /\ [Next]_vars
        => [\A k \in Key : Pending(k) =>
              Pending(k)' \/ hint'[k] = -1 \/ ~up \/ failed' \/ crashes' # crashes]_vars
  <2> SUFFICES ASSUME TypeOK, Delivering, Next, NEW j \in Key, Pending(j),
                      hint'[j] # -1, up, ~failed', crashes' = crashes
               PROVE  Pending(j)'
    BY DEF vars
  <2> DEFINE Carried == \E d \in Task : task[d].stage = "spawned" \/ task[d].snapshot[j] # -1
  <2>0. /\ hint[j] # -1
        /\ events > 0 \/ Carried
        /\ events \in Int /\ crashes \in Int
        /\ \A d \in Task : task[d].snapshot \in [Key -> Times]
    BY HandoffAssumption DEF Pending, TypeOK
  <2>1. ASSUME NEW k \in Key, NEW time \in Timestamp, StoreHint(k, time) PROVE Pending(j)'
    BY <2>0, <2>1 DEF StoreHint, Pending
  <2>2. ASSUME NEW k \in Key, NEW time \in Timestamp, WriteTarget(k, time) PROVE Pending(j)'
    BY <2>0, <2>2 DEF WriteTarget, Pending
  <2>3. CASE TargetFails \/ TargetReturns
    BY <2>0, <2>3 DEF TargetFails, TargetReturns, Pending
  <2>4. CASE Gossip
    BY <2>0, <2>4 DEF Gossip, Pending
  <2>5. ASSUME NEW wipe \in BOOLEAN, Restart(wipe) PROVE Pending(j)'
    BY <2>0, <2>5 DEF Restart
  <2>6. ASSUME NEW e \in Task, HandleEvent(e) PROVE Pending(j)'
    BY <2>6 DEF HandleEvent, Pending, Task0, TypeOK
  <2>7. ASSUME NEW e \in Task, ReadHints(e) PROVE Pending(j)'
    <3>1. task'[e].snapshot[j] # -1
      BY <2>0, <2>7 DEF ReadHints, Task0, TypeOK
    <3> QED
      BY <2>7, <3>1 DEF Pending
  <2>8. ASSUME NEW e \in Task, TaskFails(e) PROVE Pending(j)'
    BY <2>8 DEF TaskFails
  <2>9. ASSUME NEW e \in Task, NEW k \in Key, Deliver(e, k) PROVE Pending(j)'
    <3>1. \A d \in Task : task'[d].stage = task[d].stage /\ task'[d].snapshot = task[d].snapshot
      BY <2>9 DEF Deliver, TypeOK
    <3> QED
      BY <2>0, <2>9, <3>1 DEF Deliver, Pending
  <2>10. ASSUME NEW e \in Task, NEW k \in Key, DeleteHint(e, k) PROVE Pending(j)'
    <3>1. k # j
      BY <2>10 DEF DeleteHint, TypeOK
    <3>2. PICK d \in Task : events > 0 \/ task[d].stage = "spawned" \/ task[d].snapshot[j] # -1
      BY <2>0, <2>10
    <3>3. task[e].stage = "sending"
      BY <2>10 DEF DeleteHint, Delivering
    <3> QED
      BY <2>0, <2>10, <3>1, <3>2, <3>3 DEF DeleteHint, Pending, Task0, TypeOK
  <2>11. ASSUME NEW e \in Task, NEW k \in Key, DeleteHintFails(e, k) PROVE Pending(j)'
    BY <2>11 DEF DeleteHintFails
  <2>12. ASSUME NEW e \in Task, NEW k \in Key, DeliveryFails(e, k) PROVE Pending(j)'
    BY <2>12 DEF DeliveryFails
  <2>13. ASSUME NEW e \in Task, EndTask(e) PROVE Pending(j)'
    <3>1. task[e].stage # "spawned" /\ task[e].snapshot[j] = -1
      BY <2>13 DEF EndTask, Task0, Nothing
    <3>2. \A d \in Task : d # e => task'[d] = task[d]
      BY <2>13 DEF EndTask, TypeOK
    <3> QED
      BY <2>0, <2>13, <3>1, <3>2 DEF EndTask, Pending
  <2> QED
    BY <2>1, <2>2, <2>3, <2>4, <2>5, <2>6, <2>7, <2>8, <2>9, <2>10, <2>11, <2>12, <2>13
       DEF Next, Working
<1> QED
  BY <1>1, DeliveringHolds, PTL DEF Spec, NotForgotten
=============================================================================
