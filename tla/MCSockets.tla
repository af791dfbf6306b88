----------------------------- MODULE MCSockets -----------------------------
(* The host, who acts through requests, and a guest with two connections,   *)
(* one of them to the other replica.                                        *)
EXTENDS Sockets, TLC
CONSTANTS host, guest, g1, g2
MCWhose == g1 :> guest @@ g2 :> guest
MCHome == g1 :> "A" @@ g2 :> "B"
\* The two connections may change places: of their replicas only matters that
\* they differ.
Symmetry == Permutations({g1, g2})
Bound(c, r, b, d, w, o, x, e, s) ==
    [connect |-> c, remove |-> r, ban |-> b, decide |-> d, waiting |-> w, handOver |-> o, deleteRoom |-> x,
     end |-> e, switch |-> s]
MCBudgets == {Bound(1, 1, 1, 1, 1, 1, 1, 1, 1), Bound(1, 0, 1, 1, 0, 1, 0, 0, 2), Bound(2, 0, 0, 0, 0, 0, 0, 0, 1),
              Bound(2, 1, 0, 0, 0, 0, 0, 0, 0), Bound(2, 0, 0, 1, 0, 1, 0, 0, 0)}
=============================================================================
