-------------------------- MODULE ReplicatedCluster --------------------------
(***************************************************************************)
(* ReplicatedStore implements Diynamo: whatever calls of put and get time  *)
(* out, overlap, come late or are lost with a crash, the cluster changes   *)
(* as if every write-if-newer, every hint and every answer were one step,  *)
(* and the nodes where calls overlapped are the ones Diynamo calls raced.  *)
(* The background work and the wiped data of Diynamo are not part of       *)
(* ReplicatedStore.                                                        *)
(***************************************************************************)
EXTENDS ReplicatedStore

\* What a client knows of its put: one that nobody waits for has failed.
PutPhase(p) ==
  CASE phase[p] \in {"idle", "ok"} -> phase[p]
    [] phase[p] \in {"failed", "abandoned"} -> "failed"
    [] OTHER -> "open"

Executed(p) == {n \in Node : rpc[p][n] = "done"}

Hinted(p) == [c \in Node |-> IF hintRpc[p][c] = "stored" THEN hintFor[p][c] ELSE None]

Cluster == INSTANCE Diynamo WITH
  Replica <- Preferred,
  MaxWiped <- 0,
  phase <- [p \in Put |-> PutPhase(p)],
  done <- [p \in Put |-> Executed(p)],
  hinted <- [p \in Put |-> Hinted(p)],
  answered <- {},
  wiped <- {}

(* Every behaviour of the coordinator and its handlers is one of the       *)
(* abstract cluster, so what Diynamo promises (Durable, Survives) holds of *)
(* it: in particular a put that is told to have succeeded is in W places,  *)
(* a call counts once however late it is executed, and a repair or a late  *)
(* write replaces a newer version only where calls overlapped.             *)
ImplementsCluster == Cluster!Spec
=============================================================================
