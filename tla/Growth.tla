------------------------------- MODULE Growth -------------------------------
(***************************************************************************)
(* A cluster takes in a new node (README.md, "Adding a new node"), seen    *)
(* from one key.  Every node builds its hash ring once, at start-up, from  *)
(* the roster and the vnodes in its own config file or from --vnodes       *)
(* (src/src/config/server.rs, src/src/cluster/ring.rs), so while the files *)
(* are edited and the nodes are restarted in some order, puts, gets and    *)
(* reconciliations of nodes with different rings run side by side.         *)
(*                                                                         *)
(* A put is its own version and timestamp; 0 is a missing key.  Nothing    *)
(* here replaces a version by an older one (VersionedStore and             *)
(* ReplicatedStore say when that is so) and nobody loses data (Diynamo     *)
(* does), so a get is a function of the state: what it reads later is at   *)
(* least as new.  Hints are left to ReplicatedStore.                       *)
(***************************************************************************)
EXTENDS Integers, FiniteSets

CONSTANTS
  Old,        \* the members of the roster before the growth
  Joiner,     \* the new node
  N,          \* replication factor, in every config file
  Vnodes,     \* values of vnodes, in a config file or after --vnodes
  Ranks,      \* hash rings: the clockwise distance of each node's nearest
              \* position from the key, for each value of vnodes
  NoRing,     \* a process that does not run, a put nobody has asked for
  Put,        \* the puts
  MaxStops    \* bound on the stops of processes

Node == Old \cup {Joiner}

\* What a CoordinatorRing is built from.
Ring == [members : {Old, Node}, vnodes : Vnodes]

ASSUME GrowthAssumption ==
  /\ IsFiniteSet(Old) /\ Joiner \notin Old
  /\ N \in 1 .. Cardinality(Old)
  /\ NoRing \notin Ring
  /\ Put \subseteq Nat \ {0}
  /\ MaxStops \in Nat
  /\ \A rank \in Ranks : /\ rank \in [Vnodes -> [Node -> Nat]]
                         /\ \A v \in Vnodes, m, n \in Node : rank[v][m] = rank[v][n] => m = n

VARIABLES
  rank,      \* where the nodes hash to, an element of Ranks
  file,      \* file[n]: the members in n's config file
  ring,      \* ring[n]: the ring n runs with, NoRing while it is down
  db,        \* db[n]: the version stored at n
  route,     \* route[p]: the ring of the coordinator of put p, NoRing before
  done,      \* done[p]: the replicas that executed its write
  known,     \* the nodes that have handled the event of Joiner's startup
  scanning,  \* the nodes with a reconciliation of Joiner that has not looked
             \* at the key yet
  pushes,    \* reconciliation pushes under way to Joiner
  failed,    \* history: the nodes a push of which has failed since they started
  held,      \* history: held[n] is what n stored when it last stopped
  stops      \* the stops so far

clientVars == <<route, done>>
handoffVars == <<known, scanning, pushes, failed>>
ringVars == <<rank, file, ring>>
vars == <<ringVars, db, clientVars, handoffVars, held, stops>>

Newer(u, v) == IF u >= v THEN u ELSE v

\* The nodes of s that come before m in ring order for the key.
Nearer(v, s, m) == {i \in s : rank[v][i] < rank[v][m]}

\* preference_list_for_key, of a ring r.
PreferenceList(r) == {m \in r.members : Cardinality(Nearer(r.vnodes, r.members, m)) < N}

Running(n) == ring[n] # NoRing
Preferred(n) == PreferenceList(ring[n])

\* CoordinatorRing::from_roster refuses a roster with fewer than N members.
Accepted(roster) == roster # {} /\ Cardinality(roster) >= N

\* v is what a get returns that reads the nodes A.
Newest(v, A) == v \in {0} \cup {db[n] : n \in A} /\ \A n \in A : db[n] <= v

\* The old cluster runs; the config file of the new node is written.
Init ==
  /\ rank \in Ranks
  /\ file = [n \in Node |-> IF n = Joiner THEN Node ELSE Old]
  /\ \E v \in Vnodes :
       ring = [n \in Node |-> IF n = Joiner THEN NoRing ELSE [members |-> Old, vnodes |-> v]]
  /\ db = [n \in Node |-> 0]
  /\ route = [p \in Put |-> NoRing]
  /\ done = [p \in Put |-> {}]
  /\ known = {} /\ scanning = {} /\ pushes = {} /\ failed = {}
  /\ held = [n \in Old |-> 0]
  /\ stops = 0

-----------------------------------------------------------------------------
(* Faulty forms of some actions, each with a bug the code could have had,   *)
(* which the runs substitute one at a time to show which property notices.  *)
(* They are not part of Next.                                               *)

\* The new node is not left out when the sender of a key is chosen.
ScanForOwner(n) ==
  /\ Running(n) /\ n \in scanning
  /\ scanning' = scanning \ {n}
  /\ pushes' = IF db[n] # 0 /\ Nearer(ring[n].vnodes, Preferred(n), n) = {}
               THEN pushes \cup {[from |-> n, version |-> db[n]]} ELSE pushes
  /\ UNCHANGED <<ringVars, db, clientVars, known, failed, held, stops>>

\* A replica counts for a put it was not asked to write.
UnaskedWrite(p, n) ==
  /\ Running(n) /\ route[p] # NoRing /\ n \in Node \ done[p]
  /\ done' = [done EXCEPT ![p] = @ \cup {n}]
  /\ db' = [db EXCEPT ![n] = Newer(@, p)]
  /\ UNCHANGED <<ringVars, route, handoffVars, held, stops>>

\* A replica answers Ok but does not store a key that its own ring gives to others.
WriteIfPreferred(p, n) ==
  /\ Running(n) /\ route[p] # NoRing
  /\ n \in PreferenceList(route[p]) \ done[p]
  /\ done' = [done EXCEPT ![p] = @ \cup {n}]
  /\ db' = IF n \in Preferred(n) THEN [db EXCEPT ![n] = Newer(@, p)] ELSE db
  /\ UNCHANGED <<ringVars, route, handoffVars, held, stops>>

-----------------------------------------------------------------------------
(* The operator stops and starts the nodes. *)

\* The process of n stops, with its tasks.  It forgets the startup UUIDs it has
\* seen, and its own next one will be new to everybody.
Stop(n) ==
  /\ Running(n) /\ stops < MaxStops
  /\ stops' = stops + 1
  /\ ring' = [ring EXCEPT ![n] = NoRing]
  /\ held' = IF n = Joiner THEN held ELSE [held EXCEPT ![n] = db[n]]
  /\ scanning' = scanning \ {n}
  /\ known' = IF n = Joiner THEN {} ELSE known \ {n}
  /\ failed' = IF n = Joiner THEN {} ELSE failed \ {n}
  /\ UNCHANGED <<rank, file, db, clientVars, pushes>>

\* It reads its config file, to which the new member may have been added by now.
\* Its vnodes are those of the file or of the command line, whatever the others'.
Start(n) ==
  /\ ~Running(n)
  /\ \E roster \in {file[n], Node}, v \in Vnodes :
       /\ Accepted(roster)
       /\ file' = [file EXCEPT ![n] = roster]
       /\ ring' = [ring EXCEPT ![n] = [members |-> roster, vnodes |-> v]]
  /\ UNCHANGED <<rank, db, clientVars, handoffVars, held, stops>>

-----------------------------------------------------------------------------
(* Clients: a coordinator asks the preferred nodes of its own ring, and a   *)
(* replica executes what it is asked, whatever its own ring says.           *)

StartPut(p, c) ==
  /\ Running(c) /\ route[p] = NoRing
  /\ route' = [route EXCEPT ![p] = ring[c]]
  /\ UNCHANGED <<ringVars, db, done, handoffVars, held, stops>>

\* The write of p at n, in time or not.
Write(p, n) ==
  /\ Running(n) /\ route[p] # NoRing
  /\ n \in PreferenceList(route[p]) \ done[p]
  /\ done' = [done EXCEPT ![p] = @ \cup {n}]
  /\ db' = [db EXCEPT ![n] = Newer(@, p)]
  /\ UNCHANGED <<ringVars, route, handoffVars, held, stops>>

\* A read repair, the delivery of a hint, or the push of a reconciliation for
\* the startup of an old node: any ring may have chosen the receiver.
Refresh(n, p) ==
  /\ Running(n) /\ route[p] # NoRing
  /\ db' = [db EXCEPT ![n] = Newer(@, p)]
  /\ UNCHANGED <<ringVars, clientVars, handoffVars, held, stops>>

-----------------------------------------------------------------------------
(* HandoffTask at the old nodes, for the startup of the new one.  Nothing in *)
(* it asks whether that node is in the roster.                               *)

HandleEvent(n) ==
  /\ Running(n) /\ Running(Joiner)
  /\ n \in Old \ known
  /\ known' = known \cup {n}
  /\ scanning' = scanning \cup {n}
  /\ UNCHANGED <<ringVars, db, clientVars, pushes, failed, held, stops>>

\* reconcile_keys: n sends its version if no preferred node that it thinks is
\* online, other than the new node, is nearer.  It may think anything of others.
Scan(n) ==
  /\ Running(n) /\ n \in scanning
  /\ scanning' = scanning \ {n}
  /\ \E online \in SUBSET (Preferred(n) \ {Joiner}) :
       pushes' = IF /\ db[n] # 0
                    /\ n \in Preferred(n)
                    /\ Nearer(ring[n].vnodes, online, n) = {}
                 THEN pushes \cup {[from |-> n, version |-> db[n]]} ELSE pushes
  /\ UNCHANGED <<ringVars, db, clientVars, known, failed, held, stops>>

\* No HTTP client: the reconciliation ends before it looks at any key.
ScanFails(n) ==
  /\ Running(n) /\ n \in scanning
  /\ scanning' = scanning \ {n}
  /\ failed' = failed \cup {n}
  /\ UNCHANGED <<ringVars, db, clientVars, known, pushes, held, stops>>

Deliver(push) ==
  /\ push \in pushes /\ Running(Joiner)
  /\ pushes' = pushes \ {push}
  /\ db' = [db EXCEPT ![Joiner] = Newer(@, push.version)]
  /\ UNCHANGED <<ringVars, clientVars, known, scanning, failed, held, stops>>

Lose(push) ==
  /\ push \in pushes
  /\ pushes' = pushes \ {push}
  /\ failed' = failed \cup {push.from}
  /\ UNCHANGED <<ringVars, db, clientVars, known, scanning, held, stops>>

Next ==
  \/ \E n \in Node : Stop(n) \/ Start(n) \/ HandleEvent(n) \/ Scan(n) \/ ScanFails(n)
  \/ \E p \in Put, n \in Node : StartPut(p, n) \/ Write(p, n) \/ Refresh(n, p)
  \/ \E push \in pushes : Deliver(push) \/ Lose(push)

Spec == Init /\ [][Next]_vars

-----------------------------------------------------------------------------
(* Every variable has its type. *)
TypeOK ==
  /\ rank \in Ranks
  /\ file \in [Node -> {Old, Node}]
  /\ ring \in [Node -> Ring \cup {NoRing}]
  /\ db \in [Node -> Put \cup {0}]
  /\ route \in [Put -> Ring \cup {NoRing}]
  /\ \A p \in Put : done[p] \subseteq (IF route[p] = NoRing THEN {} ELSE PreferenceList(route[p]))
  /\ known \subseteq Old /\ scanning \subseteq Old /\ failed \subseteq Old
  /\ pushes \subseteq [from : Old, version : Put]
  /\ held \in [Old -> Put \cup {0}]

(* Coordinators with one value of vnodes, whatever rosters they started     *)
(* with and whatever rings the replicas run with: a get returns a put that  *)
(* its replicas have executed, or a newer one, if put and get reached more  *)
(* than N nodes together with the same roster, and more than N + 1 with the *)
(* old and the new one, which differ in one preferred node of a key.        *)
MixedQuorumFreshness ==
  \A p \in Put, c \in Node :
    route[p] # NoRing /\ Running(c) /\ ring[c].vnodes = route[p].vnodes
      => \A A \in SUBSET Preferred(c) :
           Cardinality(done[p]) + Cardinality(A)
             > (IF ring[c].members = route[p].members THEN N ELSE N + 1)
           => \A v \in Put \cup {0} : Newest(v, A) => v >= p

(* An old node that is the nearest of the old ones to the key on its own    *)
(* ring, runs with the new member and has no reconciliation of it left to   *)
(* do has given it what it brought into that ring, or something newer,      *)
(* whatever rings the others have, whatever it thinks of their state and in *)
(* whatever order all were restarted, unless its push failed, which nothing *)
(* repeats.  With N = 1 it is not so: a node that has the new ring before   *)
(* it handles the startup event no longer prefers itself, and nobody sends  *)
(* the key.                                                                 *)
GrowthFills ==
  \A n \in known \ (scanning \cup failed) :
    (/\ N > 1
     /\ Running(n) /\ ring[n].members = Node
     /\ Nearer(ring[n].vnodes, Old, n) = {}
     /\ \A push \in pushes : push.from # n)
    => db[Joiner] >= held[n]
=============================================================================
