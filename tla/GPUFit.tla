------------------------------- MODULE GPUFit -------------------------------
(***************************************************************************)
(* MemAssumeFitIndexes of pkg/flexgpu/gpu_node.go with the pointers it     *)
(* really uses: constructGPUs gives every GPU the same *Quantity as its    *)
(* memory, and "remain := u.memory" copies the pointer, so each fit        *)
(* subtracts from the memory that all later GPUs are compared with and all *)
(* entries are sorted by one and the same value.                           *)
(*                                                                         *)
(* The GPUs are a sequence of records with the monopoly flag and the used  *)
(* memory; each is the memory of one GPU that NewGPUNode computed.         *)
(***************************************************************************)
EXTENDS Integers, Sequences

(* Mutant: a GPU that would be full is not taken.                          *)
PossibleFit_Strict(gpu, memory, limit) == ~gpu.monopoly /\ memory > gpu.used + limit

(* The test of one iteration, against the shared memory.                   *)
PossibleFit(gpu, memory, limit) == ~gpu.monopoly /\ memory >= gpu.used + limit

(* One iteration: what is left of the shared memory, the indexes so far.   *)
Visit(gpus, limit, acc, k) ==
  IF PossibleFit(gpus[k], acc.memory, limit)
    THEN [memory |-> acc.memory - (gpus[k].used + limit), fits |-> Append(acc.fits, k - 1)]
    ELSE acc

(* The loop over the GPUs, with what there is after each of them.          *)
Loop(gpus, each, limit) ==
  LET acc[k \in 0 .. Len(gpus)] ==
        IF k = 0 THEN [memory |-> each, fits |-> << >>] ELSE Visit(gpus, limit, acc[k - 1], k)
  IN  acc

(* The sort by remain moves no entry: the remain of every one of them      *)
(* points to the one memory that is left, and none is less than another.   *)
MemAssumeFitIndexes(gpus, each, limit) == Loop(gpus, each, limit)[Len(gpus)].fits

(* The indexes that really have room, each compared with the whole memory. *)
RealFits(gpus, each, limit) ==
  {f \in 0 .. (Len(gpus) - 1) : ~gpus[f + 1].monopoly /\ gpus[f + 1].used + limit <= each}
=============================================================================
