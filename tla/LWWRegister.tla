---------------------------- MODULE LWWRegister ----------------------------
(***************************************************************************)
(* What one replica promises for its keys: a last-writer-wins register per *)
(* key.  An offered entry is merged, so the register never falls behind an *)
(* entry whose offer it has acknowledged.  Assigning (the unversioned      *)
(* endpoint) and erasing (clear_all, --wipe-data) withdraw that promise.   *)
(*                                                                         *)
(* VersionedStore implements RegSpec when one thread serves the store, and *)
(* SharedSpec with any number of threads; see VersionedStoreProofs.        *)
(***************************************************************************)
EXTENDS Integers

CONSTANTS
  Key,        \* the keys of the store
  Entry,      \* the versioned entries, records with a timestamp field
  NoEntry     \* an absent key

VARIABLES
  reg,        \* reg[k]: the entry of key k, or NoEntry
  promised,   \* promised[k]: the greatest timestamp acknowledged for k
  contended   \* the keys at which offers were in each other's way

regVars == <<reg, promised>>

Larger(a, b) == IF a < b THEN b ELSE a

AgeOf(e) == IF e = NoEntry THEN -1 ELSE e.timestamp

RegInit ==
  /\ reg = [k \in Key |-> NoEntry]
  /\ promised = [k \in Key |-> -1]

\* A versioned write: kept if strictly newer, acknowledged in either case.
Offer(k, e) ==
  /\ reg' = [reg EXCEPT ![k] = IF AgeOf(@) < e.timestamp THEN e ELSE @]
  /\ promised' = [promised EXCEPT ![k] = Larger(@, e.timestamp)]

\* An unversioned write replaces whatever is there.
Assign(k, e) ==
  /\ reg' = [reg EXCEPT ![k] = e]
  /\ promised' = [promised EXCEPT ![k] = -1]

Erase(ks) ==
  /\ reg' = [k \in Key |-> IF k \in ks THEN NoEntry ELSE reg[k]]
  /\ promised' = [k \in Key |-> IF k \in ks THEN -1 ELSE promised[k]]

RegNext ==
  \/ \E k \in Key, e \in Entry : Offer(k, e) \/ Assign(k, e)
  \/ \E ks \in SUBSET Key : Erase(ks)

RegSpec == RegInit /\ [][RegNext]_regVars

-----------------------------------------------------------------------------
(* The register shared by several threads.  Of two entries with the same   *)
(* timestamp either may stay, and at a contended key any entry may, but an *)
(* offer still stores nothing except what it found or what it brought.     *)

SharedOffer(k, e) ==
  /\ contended' \in {contended, contended \cup {k}}
  /\ \E v \in {reg[k], e} :
       /\ reg' = [reg EXCEPT ![k] = v]
       /\ k \notin contended' => AgeOf(v) >= Larger(promised[k], e.timestamp)
  /\ promised' = [promised EXCEPT ![k] = Larger(@, e.timestamp)]

\* Two offers meet at k before either has taken effect.
Contend(k) ==
  /\ contended' = contended \cup {k}
  /\ UNCHANGED regVars

SharedNext ==
  \/ \E k \in Key, e \in Entry :
       SharedOffer(k, e) \/ (Assign(k, e) /\ UNCHANGED contended)
  \/ \E ks \in SUBSET Key : Erase(ks) /\ UNCHANGED contended
  \/ \E k \in Key : Contend(k)

SharedSpec == RegInit /\ contended = {} /\ [][SharedNext]_<<regVars, contended>>
=============================================================================
