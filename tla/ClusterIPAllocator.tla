------------------------- MODULE ClusterIPAllocator -------------------------
(***************************************************************************)
(* ClusterIPAllocator: it walks through the range from the address it gave *)
(* out last. Addresses are numbered from 0, the address of the network;    *)
(* the code's range has 2^20 of them, and a request looks at 65536. Every  *)
(* call holds the mutex for its whole length.                              *)
(***************************************************************************)
EXTENDS Integers, FiniteSets

CONSTANTS Size,    \* addresses in the CIDR
          Tries    \* addresses one request looks at

ASSUME AllocatorAssumption == Size \in Nat /\ Size > 1 /\ Tries \in Nat \ {0}

VARIABLES allocated,   \* the keys of the map
          lastIP,
          outcome      \* what the last call returned
allocatorVars == <<allocated, lastIP, outcome>>

(* NewClusterIPAllocator *)
AllocatorInit == allocated = {} /\ lastIP = 0 /\ outcome = <<"none">>

(* Mutant: past the end the search goes on with the network's address. *)
FollowingWraps(ip) == (ip + 1) % Size

(* nextIP, and the return to the start of the range. *)
Following(ip) == IF ip + 1 < Size THEN ip + 1 ELSE 1

(* The addresses a request looks at, in order. *)
Candidates ==
  LET ip[i \in 0..Tries] == IF i = 0 THEN lastIP ELSE Following(ip[i - 1])
  IN  [i \in 1..Tries |-> ip[i]]

Allocate ==
  \E i \in 1..Tries :
    /\ Candidates[i] \notin allocated
    /\ \A j \in 1..(i - 1) : Candidates[j] \in allocated
    /\ allocated' = allocated \cup {Candidates[i]}
    /\ lastIP' = Candidates[i]
    /\ outcome' = <<"given", Candidates[i]>>

Exhausted ==
  /\ \A i \in 1..Tries : Candidates[i] \in allocated
  /\ outcome' = <<"none left">>
  /\ UNCHANGED <<allocated, lastIP>>

Release(ip) ==
  /\ IF ip \in allocated
       THEN allocated' = allocated \ {ip} /\ outcome' = <<"released">>
       ELSE outcome' = <<"was not allocated">> /\ UNCHANGED allocated
  /\ UNCHANGED lastIP

AllocatorNext == Allocate \/ Exhausted \/ \E ip \in 0..(Size - 1) : Release(ip)

AllocatorSpec == AllocatorInit /\ [][AllocatorNext]_allocatorVars

-----------------------------------------------------------------------------
AllocatorTypeOK ==
  /\ allocated \subseteq 0..(Size - 1)
  /\ lastIP \in 0..(Size - 1)
  /\ \/ outcome \in {<<"none">>, <<"none left">>, <<"released">>, <<"was not allocated">>}
     \/ outcome \in {<<"given", ip>> : ip \in 0..(Size - 1)}

(* To the handlers the search is a pool that gives any free address but    *)
(* the network's, and that may refuse although addresses are free only if  *)
(* as many are in use as one request looks at.                             *)
Pool == INSTANCE AddressPool WITH
  Addresses <- 1..(Size - 1),
  Enough    <- IF Tries < Size - 1 THEN Tries ELSE Size - 1

ImplementsPool == Pool!Spec
=============================================================================
