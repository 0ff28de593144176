------------------------------ MODULE DeviceGate ------------------------------
(***************************************************************************)
(* One invocation under the device contract (device_contract.py,           *)
(* vllm_uuid_compat.py, verl/__init__.py), inside the container.           *)
(*   train:     a probe child reads the CUDA identities and exits, the     *)
(*              gate waits until its contexts are gone, the same process   *)
(*              becomes a fresh trainer, which starts a Ray of its own; a  *)
(*              worker per rank loads, states its device and computes.     *)
(*   preflight: two children, one after the other, with an idle gate       *)
(*              before, between and after them.  Nothing is trained.       *)
(* Which GPU a worker gets is Ray's choice and is not trusted: any mask    *)
(* from Masks, any index into it.  GPU contexts outlive their process for  *)
(* a while; a child that is killed may leave processes that open more.     *)
(***************************************************************************)
EXTENDS Naturals, Sequences, FiniteSets, SequencesExt

CONSTANTS
  Allocation,   \* the devices of the allocation
  Expected,     \* the task's devices in mask order: RLVRAM_GPU_UUIDS
  Nvml,         \* sequence: the driver's own order of the devices
  Masks,        \* bound: what Ray may set CUDA_VISIBLE_DEVICES to
  Nowhere       \* not a device

Task == Range(Expected)
Workers == 0..(Len(Expected) - 1)

(* What an allocation and Ray give; see the module that sets the constants.*)
DeviceAssumption ==
  /\ Expected \in Seq(Allocation) /\ IsInjective(Expected) /\ Len(Expected) >= 1
  /\ IsInjective(Nvml) /\ Range(Nvml) = Allocation
  /\ Nowhere \notin Allocation
  /\ \A m \in Masks : m # << >> /\ m \in Seq(Allocation)

VARIABLES
  at,        \* the gate and, in the same process, the trainer
  mode,      \* "train", "preflight"
  left,      \* children still to be run
  calm,      \* consecutive idle observations
  lost,      \* a child failed or was killed
  contexts,  \* devices with a context of an earlier process
  orphans,   \* devices on which processes of a killed child may yet open one
  worker,    \* per rank: its step, mask, index into it, vLLM's patch, and the
             \* device vLLM takes for its own
  evidence,  \* files: "probe", "idle", "exec", "ray", "error", "terminal",
             \* "passed"
  records,   \* the workers' records: <<rank, device>>
  updates,   \* ranks with an actor_update event in their allocator trace
  exit,      \* what the payload's exit code and log amount to
  oom        \* the log shows an out-of-memory error

process == <<at, mode, left, calm, lost, contexts, orphans>>
training == <<worker, updates, exit, oom>>
files == <<evidence, records>>
vars == <<process, training, files>>

Absent == [at |-> "none", mask |-> << >>, cur |-> 1, vllm |-> "absent", looked |-> Nowhere]
Device(w) == IF w.mask = << >> THEN Nowhere ELSE w.mask[w.cur]
Mine(r) == Device(worker[r])

Init ==
  /\ mode \in {"train", "preflight"}
  /\ at = "begin" /\ calm = 0 /\ lost = FALSE
  /\ left = IF mode = "train" THEN 1 ELSE 2
  /\ contexts \in SUBSET Task /\ orphans = {}
  /\ worker = [r \in Workers |-> Absent]
  /\ evidence = {} /\ records = {} /\ updates = {} /\ exit = "none" /\ oom = FALSE

-----------------------------------------------------------------------------
(* Contexts go when the driver has torn them down; orphans may open some.  *)

Vanish(d) ==
  /\ d \in contexts
  /\ contexts' = contexts \ {d}
  /\ UNCHANGED <<at, mode, left, calm, lost, orphans, training, files>>

Orphan(d) ==
  /\ d \in orphans
  /\ orphans' = orphans \ {d}
  /\ \/ contexts' = contexts \cup {d}
     \/ UNCHANGED contexts
  /\ UNCHANGED <<at, mode, left, calm, lost, training, files>>

-----------------------------------------------------------------------------
(* checked_training, probe_cuda; preflight, preflight_ray. *)

Begin ==
  /\ at = "begin"
  /\ at' = IF mode = "train" THEN "spawn" ELSE "wait"
  /\ UNCHANGED <<mode, left, calm, lost, contexts, orphans, training, files>>

Spawn ==
  /\ at = "spawn" /\ at' = "child"
  /\ left' = left - 1
  /\ UNCHANGED <<mode, calm, lost, contexts, orphans, training, files>>

(* The child writes what it saw only if that is what it should see.  One   *)
(* that ends well is taken to leave no process behind.                     *)
ChildEnds ==
  /\ at = "child" /\ at' = "wait" /\ calm' = 0
  /\ contexts' \in {contexts \cup more : more \in SUBSET Task}
  /\ evidence' = evidence \cup IF mode = "train" THEN {"probe"} ELSE {}
  /\ UNCHANGED <<records, mode, left, lost, orphans, training>>

(* It fails or times out: preflight waits for idle devices all the same.   *)
ChildFails ==
  /\ at = "child" /\ lost' = TRUE /\ calm' = 0
  /\ at' = IF mode = "train" THEN "failed" ELSE "wait"
  /\ contexts' \in {contexts \cup more : more \in SUBSET Task}
  /\ orphans' \in SUBSET Task
  /\ UNCHANGED <<mode, left, training, files>>

(* wait_probe_idle: two consecutive idle observations, or a timeout.       *)
Enough == 2
AfterWait ==
  IF lost THEN "failed"
  ELSE IF mode = "train" THEN "gated"
  ELSE IF left > 0 THEN "spawn" ELSE "passed"

(* A mutant: a timeout is taken for idle.                                  *)
MutantObserve ==
  /\ at = "wait"
  /\ calm' = calm + 1
  /\ at' = IF calm' >= Enough THEN AfterWait ELSE "wait"
  /\ evidence' = evidence \cup (IF at' = "gated" THEN {"idle"} ELSE IF at' = "passed" THEN {"passed"} ELSE {})
  /\ UNCHANGED <<records, mode, left, lost, contexts, orphans, training>>
Observe ==
  /\ at = "wait"
  /\ calm' = IF contexts = {} THEN calm + 1 ELSE 0
  /\ at' = IF calm' >= Enough THEN AfterWait ELSE "wait"
  /\ evidence' = evidence \cup (IF at' = "gated" THEN {"idle"} ELSE IF at' = "passed" THEN {"passed"} ELSE {})
  /\ UNCHANGED <<records, mode, left, lost, contexts, orphans, training>>

(* The timeout; or the fresh driver finds its mask, a Ray address or the    *)
(* gate's record other than they must be.                                  *)
WaitFails ==
  /\ at \in {"wait", "gated"} /\ at' = "failed"
  /\ UNCHANGED <<mode, left, calm, lost, contexts, orphans, training, files>>

-----------------------------------------------------------------------------
(* execute_training: the driver. *)

Go(step) == at' = step
Waiting == <<mode, left, calm, lost, contexts, orphans>>

Exec ==
  /\ at = "gated" /\ {"probe", "idle"} \subseteq evidence
  /\ Go("exec")
  /\ evidence' = evidence \cup {"exec"}
  /\ UNCHANGED <<records, Waiting, training>>

(* checked_init: a local Ray; its resources are recorded, then compared.   *)
RayInit ==
  /\ at = "exec"
  /\ \E whole \in BOOLEAN :
       /\ evidence' = evidence \cup {IF whole THEN "ray" ELSE "ray_differs"}
       /\ Go(IF whole THEN "running" ELSE "unwinding")
  /\ UNCHANGED <<records, Waiting, training>>

(* The trainer returns; or something raises.  Either way Ray is shut down, *)
(* the workers go, and the terminal record is written last.                *)
Return ==
  /\ at = "running" /\ updates = Workers
  /\ \A r \in Workers : worker[r].at = "stated"
  /\ Go("unwinding") /\ exit' = "zero"
  /\ UNCHANGED <<Waiting, files, worker, updates, oom>>

Raise ==
  /\ at = "running" /\ \E r \in Workers : worker[r].at = "dead"
  /\ Go("unwinding")
  /\ UNCHANGED <<Waiting, files, training>>

(* A mutant: the trainer's end is recorded only when it raised nothing.    *)
MutantUnwind ==
  /\ at = "unwinding" /\ Go("ended")
  /\ worker' = [r \in Workers |-> IF worker[r].at = "none" THEN Absent ELSE [worker[r] EXCEPT !.at = "gone"]]
  /\ exit' = IF exit = "zero" THEN "zero" ELSE "error"
  /\ evidence' = evidence
  /\ UNCHANGED <<records, Waiting, updates, oom>>
Unwind ==
  /\ at = "unwinding" /\ Go("ended")
  /\ worker' = [r \in Workers |-> IF worker[r].at = "none" THEN Absent ELSE [worker[r] EXCEPT !.at = "gone"]]
  /\ exit' = IF exit = "zero" THEN "zero" ELSE "error"
  /\ evidence' = evidence \cup {"terminal"}
  /\ UNCHANGED <<records, Waiting, updates, oom>>

(* The container is killed, by the watchdog or the runner.                 *)
Killed ==
  /\ at \in {"exec", "running", "unwinding"} /\ Go("ended")
  /\ worker' = [r \in Workers |-> IF worker[r].at = "none" THEN Absent ELSE [worker[r] EXCEPT !.at = "gone"]]
  /\ exit' = "error"
  /\ UNCHANGED <<Waiting, files, updates, oom>>

-----------------------------------------------------------------------------
(* The workers. *)

Set(r, w) == worker' = [worker EXCEPT ![r] = w]

Place(r) ==
  /\ at = "running" /\ worker[r].at = "none"
  /\ \E m \in Masks : \E i \in DOMAIN m :
       Set(r, [Absent EXCEPT !.at = "placed", !.mask = m, !.cur = i])
  /\ UNCHANGED <<process, files, updates, exit, oom>>

Living == {"placed", "loaded", "stated"}

(* install, _Finder, _Loader: whichever comes first, the hook or the       *)
(* import of vLLM's interface, the interface is patched.                   *)
Install(r) ==
  /\ worker[r].at \in Living /\ worker[r].vllm \in {"absent", "raw"}
  /\ Set(r, [worker[r] EXCEPT !.vllm = IF @ = "raw" THEN "patched" ELSE "hooked"])
  /\ UNCHANGED <<process, files, updates, exit, oom>>

Import(r) ==
  /\ worker[r].at \in Living /\ worker[r].vllm \in {"absent", "hooked"}
  /\ Set(r, [worker[r] EXCEPT !.vllm = IF @ = "hooked" THEN "patched" ELSE "raw"])
  /\ UNCHANGED <<process, files, updates, exit, oom>>

(* get_device_indices: the engine's slice of the mask, as UUIDs.           *)
EngineMask(mask, rank, world, local) ==
  IF Range(mask) \subseteq Task /\ rank * world + local <= Len(mask)
  THEN SubSeq(mask, rank * world + 1, rank * world + local) ELSE << >>

(* device_id_to_physical_device_id: an index in the driver's order, or 0   *)
(* for an error; the handle by index is then the driver's device.          *)
Physical(mask, i) ==
  IF Range(mask) \subseteq Task /\ i \in DOMAIN mask
  THEN CHOOSE n \in DOMAIN Nvml : Nvml[n] = mask[i] ELSE 0

(* init_model; it may fail, or run out of memory.                          *)
Load(r) ==
  /\ at = "running" /\ worker[r].at = "placed"
  /\ \/ Set(r, [worker[r] EXCEPT !.at = "loaded"]) /\ UNCHANGED oom
     \/ Set(r, [worker[r] EXCEPT !.at = "dead"]) /\ oom' \in {oom, TRUE}
  /\ UNCHANGED <<process, files, updates, exit>>

(* record_worker_identity: a record, or an error file and an exception.    *)
State(r) ==
  LET w == worker[r]
  IN /\ at = "running" /\ w.at = "loaded"
     /\ IF Range(w.mask) \subseteq Task
        THEN /\ records' = records \cup {<<r, Device(w)>>} /\ UNCHANGED evidence
             /\ Set(r, [w EXCEPT !.at = "stated"])
        ELSE /\ evidence' = evidence \cup {"error"} /\ UNCHANGED records
             /\ Set(r, [w EXCEPT !.at = "dead"])
     /\ UNCHANGED <<process, updates, exit, oom>>

(* The engine asks for the memory of its device, before it is used.        *)
Look(r) ==
  LET w == worker[r]
      mask == EngineMask(w.mask, 0, Len(w.mask), Len(w.mask))
      n == Physical(mask, w.cur)
  IN /\ at = "running" /\ w.at = "stated" /\ w.looked = Nowhere /\ w.vllm \in {"raw", "patched"}
     /\ IF w.vllm = "patched" /\ n # 0
        THEN Set(r, [w EXCEPT !.looked = Nvml[n]])
        ELSE Set(r, [w EXCEPT !.at = "dead"])
     /\ UNCHANGED <<process, files, updates, exit, oom>>

(* Training starts when init_model has returned on every rank.             *)
Update(r) ==
  /\ at = "running" /\ \A q \in Workers : worker[q].at = "stated"
  /\ worker[r].looked # Nowhere /\ r \notin updates
  /\ \/ updates' = updates \cup {r} /\ UNCHANGED <<worker, oom>>
     \/ /\ Set(r, [worker[r] EXCEPT !.at = "dead"])
        /\ oom' \in {oom, TRUE} /\ UNCHANGED updates
  /\ UNCHANGED <<process, files, exit>>

Next ==
  \/ \E d \in Task : Vanish(d) \/ Orphan(d)
  \/ Begin \/ Spawn \/ ChildEnds \/ ChildFails \/ Observe \/ WaitFails
  \/ Exec \/ RayInit \/ Return \/ Raise \/ Unwind \/ Killed
  \/ \E r \in Workers : Place(r) \/ Install(r) \/ Import(r) \/ Load(r) \/ State(r)
                        \/ Look(r) \/ Update(r)

Spec == Init /\ [][Next]_vars

-----------------------------------------------------------------------------
(* validate_identity and validate_completed_allocator, when it is over.    *)

(* A mutant: enough if every rank has stated a device of the task.         *)
MutantComplete == \A r \in Workers : \E d \in Task : <<r, d>> \in records
Complete ==
  /\ \A r \in Workers : \E d \in Task : <<r, d>> \in records
  /\ \A d \in Task : \E r \in Workers : <<r, d>> \in records

Accepted ==
  /\ at = "ended"
  /\ {"probe", "idle", "exec"} \subseteq evidence
  /\ {"error", "ray_differs"} \cap evidence = {}
  /\ \A e \in records : e[2] \in Task
  /\ \/ exit = "zero" /\ Complete /\ {"ray", "terminal"} \subseteq evidence /\ updates # {}
     \/ exit = "error" /\ oom

-----------------------------------------------------------------------------
(* Properties.                                                             *)

(* The next child and the trainer start on devices that nothing of an      *)
(* earlier child is on or may still come to (lines 174-188, 209-215,  *)
(* 388-397): contexts of the inspection never count as the task's memory.  *)
StartsOnFreeDevices ==
  at # at' /\ (at = "gated" \/ (at = "spawn" /\ mode = "preflight"))
    => contexts = {} /\ orphans = {}
StartsAlone == [][StartsOnFreeDevices]_vars

(* What is accepted ran where it says: if training began, each rank was on *)
(* the device its record names, one of the task's, and vLLM measured that  *)
(* device; and no two ranks of a success shared one.  Ray's placement is   *)
(* not trusted for this.  (Two ranks of an accepted memory failure may     *)
(* share a device: its coverage is not asked for, lines 540-552.)          *)
AcceptedRanAsAssigned ==
  Accepted /\ updates # {} =>
    /\ \A r \in Workers : Mine(r) \in Task /\ <<r, Mine(r)>> \in records
    /\ \A r \in updates : worker[r].looked = Mine(r)
    /\ exit = "zero" => \A q, r \in Workers : Mine(q) = Mine(r) => q = r

(* And nothing sound is lost: a trainer that returned, with its ranks on   *)
(* devices of their own, leaves all the evidence that acceptance asks for, *)
(* though each file of it is written by another process.                   *)
SoundRunAccepted ==
  at = "ended" /\ exit = "zero" /\ (\A q, r \in Workers : Mine(q) = Mine(r) => q = r)
    => Accepted

(* Acceptance says what was: nothing that ran elsewhere, and all that is   *)
(* sound.                                                                  *)
AcceptanceTrue == AcceptedRanAsAssigned /\ SoundRunAccepted
=============================================================================
