----------------------------- MODULE Upscaling ------------------------------
(***************************************************************************)
(* Real-ESRGAN in the workers (workers/strategies/image/realesrgan.py and   *)
(* video/realesrgan.py).  The processes of the pools share one volume for   *)
(* the weights, which whoever needs them first downloads.  A job upscales   *)
(* its frames tile by tile: out of memory, it halves the tile, and when     *)
(* half precision overflows it does the frame again in full precision.      *)
(***************************************************************************)
EXTENDS Naturals, Sequences, FiniteSets, FiniteSetsExt

CONSTANTS Proc, None,
          Frames,              \* of a process's jobs: one for a photo
          MinTile, MaxTile, Asked,
          Widths, Scale,       \* one side of a frame
          MaxJobs, MaxFaults, MaxCrashes

VARIABLES file,                \* the weights on the volume
          proc, model,         \* a process's job, and the model it has resident
          jobs, faults, crashes
vars == <<file, proc, model, jobs, faults, crashes>>

\* What a download may leave: "odd" has the right size and other bytes.
Content == {"good", "short", "odd"}
Model == [weights : {"good", "odd"}, half : BOOLEAN]
Idle == [step |-> "idle", half |-> TRUE, tile |-> MaxTile, trying |-> MaxTile, left |-> 0, width |-> 0, written |-> {}]

TypeOK ==
    /\ file \in Content \cup {None}
    /\ proc \in [Proc -> [step : {"idle", "ensure", "download", "verify", "discard", "load", "read", "run", "done", "failed"},
                          half : BOOLEAN, tile : MinTile..MaxTile, trying : MinTile..MaxTile,
                          left : Nat, width : Widths \cup {0}, written : SUBSET Nat]]
    /\ model \in [Proc -> Model \cup {None}]
    /\ jobs \in 0..MaxJobs /\ faults \in 0..MaxFaults /\ crashes \in 0..MaxCrashes

Init ==
    /\ file \in {None, "good"}
    /\ proc = [p \in Proc |-> Idle] /\ model = [p \in Proc |-> None]
    /\ jobs = 0 /\ faults = 0 /\ crashes = 0

-----------------------------------------------------------------------------
At(p, step) == proc[p].step = step
Goes(p, step) == proc' = [proc EXCEPT ![p].step = step]
Fault == faults < MaxFaults /\ faults' = faults + 1
Clamped(tile) == Min({MaxTile, Max({MinTile, tile})})

(* In half precision only on a graphics card.                                *)
Start(p, tile, width, half) ==
    /\ At(p, "idle") /\ jobs < MaxJobs /\ jobs' = jobs + 1
    /\ proc' = [proc EXCEPT ![p] = [Idle EXCEPT !.step = "ensure", !.half = half, !.tile = Clamped(tile), !.trying = Clamped(tile),
                                                !.left = Frames[p], !.width = width]]
    /\ UNCHANGED <<file, model, faults, crashes>>

-----------------------------------------------------------------------------
\* The weights.  A copy counts if it has the right size; one that was just
\* downloaded is looked at byte by byte.

Cached == file \in {"good", "odd"}
Ensure(p) ==
    /\ At(p, "ensure")
    /\ Goes(p, IF Cached THEN "load" ELSE "download")
    /\ UNCHANGED <<file, model, jobs, faults, crashes>>
(* The download is moved into place whole.                                   *)
Download(p, content) ==
    /\ At(p, "download")
    /\ content = "good" \/ faults < MaxFaults
    /\ faults' = IF content = "good" THEN faults ELSE faults + 1
    /\ file' = content /\ Goes(p, "verify")
    /\ UNCHANGED <<model, jobs, crashes>>
Unreachable(p) ==
    /\ At(p, "download") /\ Fault
    /\ file' = None /\ Goes(p, "failed")
    /\ UNCHANGED <<model, jobs, crashes>>
(* Another process may have taken the copy away, or put its own there.       *)
Sound == file = "good"
Verify(p) ==
    /\ At(p, "verify")
    /\ Goes(p, CASE Sound -> "load" [] file = None -> "failed" [] OTHER -> "discard")
    /\ UNCHANGED <<file, model, jobs, faults, crashes>>
(* Mutant: the bad copy is reported and stays. *)
UnlinkedNever == file
Unlinked == None
Discard(p) ==
    /\ At(p, "discard")
    /\ file' = Unlinked /\ Goes(p, "failed")
    /\ UNCHANGED <<model, jobs, faults, crashes>>

(* One model stays resident per process, of the precision it was loaded in.  *)
(* Mutant: the resident model is used whatever its precision. *)
ResidentAny(p) == model[p] # None
Resident(p) == model[p] # None /\ model[p].half = proc[p].half
Load(p) ==
    /\ At(p, "load")
    /\ Goes(p, IF Resident(p) THEN "run" ELSE IF Cached THEN "read" ELSE "download")
    /\ UNCHANGED <<file, model, jobs, faults, crashes>>
(* By now the file may be gone, or be one that cannot be read.               *)
Read(p) ==
    /\ At(p, "read")
    /\ IF Cached THEN Goes(p, "run") /\ model' = [model EXCEPT ![p] = [weights |-> file, half |-> proc[p].half]]
       ELSE Goes(p, "failed") /\ UNCHANGED model
    /\ UNCHANGED <<file, jobs, faults, crashes>>

-----------------------------------------------------------------------------
\* One pass over a frame, tile by tile; its rows and columns are alike.

CeilDiv(n, d) == (n + d - 1) \div d
(* Mutant: the last tile is left out when it is not whole. *)
TilesWhole(width, tile) == 0..(width \div tile) - 1
Tiles(width, tile) == 0..CeilDiv(width, tile) - 1
TileFrom(k, tile) == k * tile
TileTo(k, width, tile) == Min({k * tile + tile, width})
Output(k, width, tile) == TileFrom(k, tile) * Scale..TileTo(k, width, tile) * Scale - 1
Pass(width, tile) == UNION {Output(k, width, tile) : k \in Tiles(width, tile)}

Halved(tile) == Max({MinTile, tile \div 2})
OutOfMemory(p) ==
    /\ At(p, "run") /\ Fault
    /\ proc' = IF proc[p].trying <= MinTile THEN [proc EXCEPT ![p].step = "failed"]
               ELSE [proc EXCEPT ![p].trying = Halved(@), ![p].step = "load"]
    /\ UNCHANGED <<file, model, jobs, crashes>>
(* In half precision the frame may hold pixels that are not finite: once     *)
(* more, in full precision, with the tile the frame began with.              *)
Overflows(p) ==
    /\ At(p, "run") /\ model[p].half /\ Fault
    /\ proc' = [proc EXCEPT ![p].half = FALSE, ![p].trying = proc[p].tile, ![p].step = "load"]
    /\ UNCHANGED <<file, model, jobs, crashes>>
(* A clip goes on with the tile and the precision this frame ended with.     *)
(* Mutant: every frame begins with the tile the job asked for. *)
KeptTileNever(p) == MaxTile
KeptTile(p) == proc[p].trying
FrameDone(p) ==
    /\ At(p, "run")
    /\ proc' = [proc EXCEPT ![p].written = Pass(proc[p].width, proc[p].trying),
                            ![p].tile = KeptTile(p), ![p].trying = KeptTile(p), ![p].left = @ - 1,
                            ![p].step = IF proc[p].left = 1 THEN "done" ELSE "load"]
    /\ UNCHANGED <<file, model, jobs, faults, crashes>>
(* The result is written, or the failure reported; the model stays.          *)
Rest(p) ==
    /\ proc[p].step \in {"done", "failed"}
    /\ proc' = [proc EXCEPT ![p] = Idle]
    /\ UNCHANGED <<file, model, jobs, faults, crashes>>
(* A worker is killed; what it was downloading stays as it is.               *)
Crash(p) ==
    /\ ~At(p, "idle") /\ crashes < MaxCrashes /\ crashes' = crashes + 1
    /\ proc' = [proc EXCEPT ![p] = Idle] /\ model' = [model EXCEPT ![p] = None]
    /\ UNCHANGED <<file, jobs, faults>>

Working(p) ==
    \/ Ensure(p) \/ Verify(p) \/ Discard(p) \/ Load(p) \/ Read(p) \/ FrameDone(p) \/ Rest(p)
    \/ (\E content \in Content : Download(p, content)) \/ Unreachable(p)
    \/ OutOfMemory(p) \/ Overflows(p)
Next == \E p \in Proc : Working(p) \/ Crash(p) \/ \E tile \in Asked, width \in Widths, half \in BOOLEAN : Start(p, tile, width, half)
Spec == Init /\ [][Next]_vars

-----------------------------------------------------------------------------
(* A frame that counts as done is whole, whatever tile it was done with in   *)
(* the end, and was done by a model of the precision the job is in: one that *)
(* overflowed was done again.                                                *)
WholeFrame ==
    \A p \in Proc : At(p, "done") => proc[p].written = 0..proc[p].width * Scale - 1
RightPrecision ==
    \A p \in Proc : At(p, "run") => model[p].half = proc[p].half
WholeAndFinite == WholeFrame /\ RightPrecision

(* When nobody is fetching the weights and no process was killed while it    *)
(* did, no bad copy is left for a later job to take: whatever two processes  *)
(* did to each other's.                                                      *)
NoBadCopyStays ==
    crashes = 0 /\ (\A p \in Proc : proc[p].step \notin {"verify", "discard"}) => file \in {None, "good"}

(* A clip's tile only ever shrinks, and only when memory ran out; a job      *)
(* fails for it at the smallest tile only.                                   *)
BacksOff ==
    \A p \in Proc : proc[p].left > 0 /\ proc'[p].left > 0 /\ proc'[p].step # "ensure" =>
       /\ proc'[p].tile <= proc[p].tile
       /\ At(p, "run") /\ proc'[p].step = "failed" => proc[p].trying = MinTile
=============================================================================
