------------------------- MODULE MCServiceRegistry -------------------------
(***************************************************************************)
(* ServiceRegistry on small instances: services that compete for few       *)
(* addresses, and delete requests that may target the same service.        *)
(***************************************************************************)
EXTENDS ServiceRegistry, TLC

CONSTANTS s1, s2, s3, ip1, ip2, p1, d1, d2

OneService    == {s1}
TwoServices   == {s1, s2}
ThreeServices == {s1, s2, s3}
OneIP         == {ip1}
TwoIPs        == {ip1, ip2}
NoPods        == {}
OnePod        == {p1}
OneDeleter    == {d1}
TwoDeleters   == {d1, d2}

(* For safety checks. *)
Symmetry == Permutations(ThreeServices) \cup Permutations(TwoDeleters)
=============================================================================
