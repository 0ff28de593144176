--------------------------- MODULE WorkerResidency ---------------------------
(***************************************************************************)
(* engine_workers.py: what of a model is on a GPU, and when.  Every rank   *)
(* has the actor (trained) and the rollout (generating) on one device, and *)
(* the trainer leads all ranks through sync, generate, sleep, log-probs,   *)
(* update.  The trainer, the FSDP engine and the vLLM server are not in    *)
(* this repository: what they do with memory is modelled as the code here  *)
(* relies on it.  A version is the number of optimiser steps.              *)
(***************************************************************************)
EXTENDS Naturals, FiniteSets

CONSTANTS
  Ranks,
  MiniBatches,   \* optimiser steps per update_actor
  MaxVersion     \* bound: optimiser steps altogether

ASSUME WorkerAssumption == MiniBatches \in Nat \ {0} /\ MaxVersion \in Nat

Lost == MaxVersion + 1   \* weights that are no version's: dummy or discarded

VARIABLES
  config,   \* offload (param_offload), freeCache (free_cache_engine), dummy
            \* (load_format), lora: "none", "merge" or "adapter"
  phase,    \* what the trainer has all ranks do
  step,     \* per rank: where it is in that phase; "done" when it is through
  actor,    \* per rank: where the parameters are, and their version
  rollout,  \* per rank: weights and kv mapped?; version of its base and of its
            \* adapter; base_sync_done
  batch     \* per rank: mini-batches of this update_actor it has trained on

vars == <<config, phase, step, actor, rollout, batch>>

Init ==
  /\ config \in [offload : BOOLEAN, freeCache : BOOLEAN, dummy : BOOLEAN,
                 lora : {"none", "merge", "adapter"}]
  /\ phase = "boot"
  /\ step = [r \in Ranks |-> "start"]
  /\ actor = [r \in Ranks |-> [at |-> IF config.offload THEN "cpu" ELSE "device", version |-> 0]]
  /\ rollout = [r \in Ranks |->
       [weights |-> TRUE, kv |-> TRUE, base |-> IF config.dummy THEN Lost ELSE 0,
        adapter |-> Lost, synced |-> ~config.dummy]]
  /\ batch = [r \in Ranks |-> 0]

-----------------------------------------------------------------------------
(* The trainer: the next phase when every rank is through.                 *)

Following == [boot |-> "sync", sync |-> "generate", generate |-> "sleep",
              sleep |-> "logprob", logprob |-> "update", update |-> "sync"]

(* The rollout sleeps before the first sync as well.                       *)
NextPhase ==
  /\ \A r \in Ranks : step[r] = "done"
  /\ phase' = Following[phase]
  /\ step' = [r \in Ranks |-> "start"]
  /\ UNCHANGED <<config, actor, rollout, batch>>

Does(r, p, from, to) ==
  /\ phase = p /\ step[r] = from
  /\ step' = [step EXCEPT ![r] = to]
  /\ UNCHANGED <<config, phase>>

(* The server's sleep unmaps weights and cache; with an adapter it keeps   *)
(* a copy of the weights (level 1), otherwise they are gone (level 2).     *)
Sleep(r) ==
  /\ \E p \in {"boot", "sleep"} : Does(r, p, "start", "done")
  /\ rollout' = IF ~config.freeCache THEN rollout
                ELSE [rollout EXCEPT ![r].weights = FALSE, ![r].kv = FALSE,
                        ![r].base = IF config.lora = "adapter" THEN @ ELSE Lost]
  /\ UNCHANGED <<actor, batch>>

Generate(r) ==
  /\ Does(r, "generate", "start", "done")
  /\ UNCHANGED <<actor, rollout, batch>>

-----------------------------------------------------------------------------
(* update_weights, between its awaits, where trainer and rollout share a   *)
(* process (mode "naive") and the rollout is vLLM: SGLang would keep the    *)
(* weights of an adapter mapped (lines 783-785).                           *)

ResumeWeights(r) ==
  /\ Does(r, "sync", "start", "params")
  /\ rollout' = [rollout EXCEPT ![r].weights = @ \/ config.freeCache]
  /\ UNCHANGED <<actor, batch>>

(* A mutant: the base is never sent on the adapter path.                   *)
MutantNeedsBase(r) == FALSE
NeedsBase(r) == config.lora = "adapter" /\ ~rollout[r].synced

(* get_per_tensor_param brings the parameters to the device.               *)
GatherParams(r) ==
  /\ Does(r, "sync", "params", IF NeedsBase(r) THEN "base" ELSE "weights")
  /\ actor' = [actor EXCEPT ![r].at = "device"]
  /\ UNCHANGED <<rollout, batch>>

(* The frozen base weights of a LoRA model are those of version 0.         *)
SyncBase(r) ==
  /\ Does(r, "sync", "base", "weights")
  /\ rollout' = [rollout EXCEPT ![r].base = 0]
  /\ UNCHANGED <<actor, batch>>

SyncWeights(r) ==
  /\ Does(r, "sync", "weights", "offload")
  /\ rollout' = IF config.lora = "adapter"
                THEN [rollout EXCEPT ![r].adapter = actor[r].version]
                ELSE [rollout EXCEPT ![r].base = actor[r].version]
  /\ UNCHANGED <<actor, batch>>

(* A mutant: the parameters are left where they are.                       *)
MutantOffload(r) ==
  /\ Does(r, "sync", "offload", "kv")
  /\ UNCHANGED <<actor, rollout, batch>>
Offload(r) ==
  /\ Does(r, "sync", "offload", "kv")
  /\ actor' = IF config.offload THEN [actor EXCEPT ![r].at = "cpu"] ELSE actor
  /\ UNCHANGED <<rollout, batch>>

ResumeCache(r) ==
  /\ Does(r, "sync", "kv", "done")
  /\ rollout' = [rollout EXCEPT ![r].kv = @ \/ config.freeCache, ![r].synced = TRUE]
  /\ UNCHANGED <<actor, batch>>

UpdateWeights(r) ==
  \/ ResumeWeights(r) \/ GatherParams(r) \/ SyncBase(r) \/ SyncWeights(r)
  \/ Offload(r) \/ ResumeCache(r)

-----------------------------------------------------------------------------
(* compute_log_prob, compute_ref_log_prob: infer_batch in eval_mode, which *)
(* loads the parameters and takes them back.  The reference model's own    *)
(* engine, where there is one (lines 697-703), is not followed.            *)
EnterEval(r) ==
  /\ Does(r, "logprob", "start", "infer")
  /\ actor' = [actor EXCEPT ![r].at = "device"]
  /\ UNCHANGED <<rollout, batch>>

LeaveEval(r) ==
  /\ Does(r, "logprob", "infer", "done")
  /\ actor' = IF config.offload THEN [actor EXCEPT ![r].at = "cpu"] ELSE actor
  /\ UNCHANGED <<rollout, batch>>

LogProb(r) == EnterEval(r) \/ LeaveEval(r)

(* update_actor: train_mini_batch in train_mode; train_batch enters it     *)
(* again for every mini-batch, without offloading on the way out.  The     *)
(* learning-rate schedule is left out.                                     *)
EnterTrain(r) ==
  /\ Does(r, "update", "start", "train")
  /\ actor[r].version + MiniBatches <= MaxVersion
  /\ actor' = [actor EXCEPT ![r].at = "device"]
  /\ batch' = [batch EXCEPT ![r] = 0]
  /\ UNCHANGED rollout

TrainBatch(r) ==
  /\ Does(r, "update", "train", IF batch[r] + 1 = MiniBatches THEN "leave" ELSE "train")
  /\ actor[r].at = "device"
  /\ actor' = [actor EXCEPT ![r].version = @ + 1]
  /\ batch' = [batch EXCEPT ![r] = @ + 1]
  /\ UNCHANGED rollout

LeaveTrain(r) ==
  /\ Does(r, "update", "leave", "done")
  /\ actor' = IF config.offload THEN [actor EXCEPT ![r].at = "cpu"] ELSE actor
  /\ UNCHANGED <<rollout, batch>>

UpdateActor(r) == EnterTrain(r) \/ TrainBatch(r) \/ LeaveTrain(r)

Next ==
  \/ NextPhase
  \/ \E r \in Ranks :
       Sleep(r) \/ Generate(r) \/ UpdateWeights(r) \/ LogProb(r) \/ UpdateActor(r)

Spec == Init /\ [][Next]_vars

-----------------------------------------------------------------------------
(* Every rank generates with the weights of the last update, of all ranks  *)
(* the same, on a base that is the model's: whatever the sleep discarded   *)
(* and whatever the rollout was loaded with (lines 735-741, 798-813).      *)
GeneratesFresh ==
  phase = "generate" => \A q, r \in Ranks :
    /\ rollout[r].weights /\ rollout[r].kv
    /\ config.lora = "adapter" => rollout[r].base = 0
    /\ (IF config.lora = "adapter" THEN rollout[r].adapter ELSE rollout[r].base) = actor[q].version

(* With offloading and a freed cache, a device never holds the actor's     *)
(* parameters and the rollout's cache at once, though the two change hands *)
(* in every iteration: the cache comes back last (lines 780-823).          *)
OneResident ==
  config.offload /\ config.freeCache =>
    \A r \in Ranks : ~(rollout[r].kv /\ actor[r].at = "device")
=============================================================================
