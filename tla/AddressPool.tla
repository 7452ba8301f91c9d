---------------------------- MODULE AddressPool -----------------------------
(***************************************************************************)
(* What a pool of cluster addresses promises to the service handlers: an   *)
(* address that nobody has, never that of the network itself, and a        *)
(* refusal only if at least Enough addresses are in use.                   *)
(***************************************************************************)
EXTENDS Integers, FiniteSets

CONSTANTS Addresses,   \* those that may be given to a service
          Enough       \* below this many in use, a request is served

VARIABLES allocated, outcome
vars == <<allocated, outcome>>

Init == allocated = {} /\ outcome = <<"none">>

Allocate ==
  \E ip \in Addresses \ allocated :
    /\ allocated' = allocated \cup {ip}
    /\ outcome' = <<"given", ip>>

Refuse ==
  /\ Cardinality(allocated) >= Enough
  /\ outcome' = <<"none left">>
  /\ UNCHANGED allocated

Release ==
  \/ \E ip \in allocated :
       /\ allocated' = allocated \ {ip}
       /\ outcome' = <<"released">>
  \/ outcome' = <<"was not allocated">> /\ UNCHANGED allocated

Next == Allocate \/ Refuse \/ Release

Spec == Init /\ [][Next]_vars
=============================================================================
