-------------------------- MODULE MCUploadStorage --------------------------
(* Two uploads arrive at a replica whose pool has two connections, one for  *)
(* each: as ten uploads do at one whose pool has ten (db/pool.ts).          *)
EXTENDS UploadStorage, TLC

CONSTANTS u1, u2, r1
MCAt == u1 :> "A" @@ u2 :> "A"
MCPlans == {u1 :> r1 @@ u2 :> r1}
MCSize == u1 :> 1 @@ u2 :> 1
=============================================================================
