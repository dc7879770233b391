------------------------------ MODULE NamHook ------------------------------
(***************************************************************************)
(* The in-process audio hook of patch/nam_hook.cpp: what nam_process_gonk  *)
(* does on the host's audio thread, block after block, for every hijacked  *)
(* pedal of the board, together with the detached threads it starts: one   *)
(* preload of the NAM folder per boot and, per instance slot, at most one  *)
(* background load of a model.                                             *)
(*                                                                         *)
(* One call of process() is a run of the audio thread through the labels   *)
(*                                                                         *)
(*   idle -> [bump] -> enter -> (request) -> net -> (request) -> pickup    *)
(*        -> (request) -> render -> (request) -> idle                      *)
(*                                                                         *)
(* where (request) is switch_model_in_background, entered at label "guard" *)
(* and left for the label in ret.  The labels are where another thread     *)
(* could be scheduled in between when SMP is TRUE; when SMP is FALSE the   *)
(* callback runs to its end, as the source's comments on the one-core      *)
(* device and the niceness of its own threads claim.                       *)
(*                                                                         *)
(* A model is its index in g_cached_models, a knob position is the rounded *)
(* step of knob_value_to_index, a built nam::DSP (of both channels) is the *)
(* model and the number of instances its quality tier was measured for.    *)
(***************************************************************************)
EXTENDS Integers, FiniteSets

CONSTANTS
  Pedals,            \* the engine objects (this_) that may call process()
  NoPedal,           \* the null pointer of ModelState::owner_this
  kMaxInstances,     \* slots of g_instances
  kKnobSteps,        \* rounded knob positions 0 .. kKnobSteps-1
  FileCounts,        \* how many loadable .nam files the folder may hold
  Slimmable,         \* the models that offer quality tiers
  MinSwitchTicks,    \* kMinSwitchIntervalMs, in ticks
  SettleTicks,       \* kKnobSettleMs, in ticks
  FadeOutBlocks,     \* blocks of the fade-out ramp
  FadeInBlocks,      \* blocks of the fade-in ramp
  SMP,               \* can a background thread run during a callback?
  MaxKnobMoves,      \* bound: turns of a knob in a behaviour
  MaxBypassToggles,  \* bound: presses of a footswitch
  MaxLoadFailures,   \* bound: loads that throw
  MaxSpawnFailures   \* bound: pthread_create calls that fail

ASSUME ConstantsAssumption ==
  /\ NoPedal \notin Pedals
  /\ kMaxInstances \in Nat \ {0}
  /\ kKnobSteps \in Nat \ {0}
  /\ FileCounts \subseteq Nat
  /\ Slimmable \subseteq Nat
  /\ MinSwitchTicks \in Nat
  /\ SettleTicks \in Nat
  /\ FadeOutBlocks \in Nat \ {0}
  /\ FadeInBlocks \in Nat \ {0}
  /\ SMP \in BOOLEAN
  /\ MaxKnobMoves \in Nat
  /\ MaxBypassToggles \in Nat
  /\ MaxLoadFailures \in Nat
  /\ MaxSpawnFailures \in Nat

Slots    == 1 .. kMaxInstances
KnobPos  == 0 .. kKnobSteps - 1
NoModel  == -1                          \* ModelState::active_index when silent
Indices  == KnobPos \cup {NoModel}
Dsp      == [model : Indices, share : 0 .. kMaxInstances]
NoDsp    == [model |-> NoModel, share |-> 0]   \* the null unique_ptr
Silence  == [sound |-> "silence", model |-> NoModel]
Dry      == [sound |-> "dry", model |-> NoModel]

VARIABLES
  \* the board, as the user sees it
  knob,          \* drive_raw of each pedal (0x534)
  bypass,        \* bypass_byte of each pedal (0x26b)
  heard,         \* what the last block of each pedal carried
  \* the audio thread
  apc,           \* its label
  call,          \* locals of the process() call: pedal, slot, drive_raw, bypass
  ret,           \* where switch_model_in_background returns to
  \* ModelState, fields only the audio thread uses
  owner, ready, fade, progress, candidate, candAge, attemptAge, calEpoch,
  force, dsp,
  \* ModelState, fields shared with the load thread
  active, switching, pendingDsp, pendingIndex, pendingReady,
  \* globals
  epoch,         \* g_topology_epoch
  preload,       \* g_preload_started and g_models_ready
  numModels,     \* g_cached_models.size()
  cache,         \* g_calibration_cache
  \* the load thread of each slot
  wpc,           \* its label, "off" when there is none
  wraw, wforce,  \* its captured arguments
  wepoch,        \* live_epoch
  wdsp,          \* loaded[]
  \* bounds
  knobMoves, toggles, loadFailures, spawnFailures

boardVars   == <<knob, bypass, heard>>
fadeVars    == <<fade, progress, force>>
settleVars  == <<candidate, candAge>>
installVars == <<ready, dsp, active, calEpoch>>
pendingVars == <<pendingDsp, pendingIndex, pendingReady>>
workVars    == <<wpc, wraw, wforce, wepoch, wdsp>>
boundVars   == <<knobMoves, toggles, loadFailures, spawnFailures>>
vars == <<boardVars, apc, call, ret, owner, fadeVars, settleVars, attemptAge,
          installVars, switching, pendingVars, epoch, preload, numModels,
          cache, workVars, boundVars>>

AudioLabels == {"idle", "bump", "enter", "guard", "cas", "net", "pickup",
                "render"}
WorkLabels  == {"off", "start", "lookup", "bench", "store", "stage", "publish", "exit"}
Building    == WorkLabels \ {"off", "exit"}
Sounds      == {"none", "dry", "silence", "full", "out", "in"}
NoCall      == [pedal |-> NoPedal, slot |-> 1, raw |-> 0, dry |-> FALSE]

TypeOK ==
  /\ knob \in [Pedals -> KnobPos]
  /\ bypass \in [Pedals -> BOOLEAN]
  /\ heard \in [Pedals -> [sound : Sounds, model : Indices]]
  /\ apc \in AudioLabels
  /\ call \in [pedal : Pedals \cup {NoPedal}, slot : Slots, raw : KnobPos,
               dry : BOOLEAN]
  /\ (apc # "idle" => call.pedal \in Pedals)
  /\ ret \in {"idle", "net", "pickup", "render"}
  /\ owner \in [Slots -> Pedals \cup {NoPedal}]
  /\ ready \in [Slots -> BOOLEAN]
  /\ fade \in [Slots -> 0 .. 3]
  /\ progress \in [Slots -> Nat]
  /\ candidate \in [Slots -> Indices \cup {-2}]
  /\ candAge \in [Slots -> 0 .. SettleTicks]
  /\ attemptAge \in [Slots -> 0 .. MinSwitchTicks]
  /\ calEpoch \in [Slots -> Int]
  /\ force \in [Slots -> BOOLEAN]
  /\ dsp \in [Slots -> Dsp]
  /\ active \in [Slots -> Indices]
  /\ switching \in [Slots -> BOOLEAN]
  /\ pendingDsp \in [Slots -> Dsp]
  /\ pendingIndex \in [Slots -> Indices]
  /\ pendingReady \in [Slots -> BOOLEAN]
  /\ epoch \in Nat
  /\ preload \in {"no", "running", "done", "lost"}
  /\ numModels \in Nat
  /\ cache \in [KnobPos -> [share : 0 .. kMaxInstances, epoch : Int]]
  /\ wpc \in [Slots -> WorkLabels]
  /\ wraw \in [Slots -> KnobPos]
  /\ wforce \in [Slots -> BOOLEAN]
  /\ wepoch \in [Slots -> Nat]
  /\ wdsp \in [Slots -> Dsp]
  /\ knobMoves \in 0 .. MaxKnobMoves
  /\ toggles \in 0 .. MaxBypassToggles
  /\ loadFailures \in 0 .. MaxLoadFailures
  /\ spawnFailures \in 0 .. MaxSpawnFailures

(* A zeroed table, every knob where the rig left it, NaN last_seen_knob_raw *)
(* and time stamps far in the past: the boot of the host.                  *)
Init ==
  /\ knob \in [Pedals -> KnobPos]
  /\ bypass \in [Pedals -> BOOLEAN]
  /\ heard = [p \in Pedals |-> [sound |-> "none", model |-> NoModel]]
  /\ apc = "idle" /\ call = NoCall /\ ret = "idle"
  /\ owner = [s \in Slots |-> NoPedal]
  /\ ready = [s \in Slots |-> FALSE]
  /\ fade = [s \in Slots |-> 0]
  /\ progress = [s \in Slots |-> 0]
  /\ candidate = [s \in Slots |-> NoModel]
  /\ candAge = [s \in Slots |-> SettleTicks]
  /\ attemptAge = [s \in Slots |-> MinSwitchTicks]
  /\ calEpoch = [s \in Slots |-> -1]
  /\ force = [s \in Slots |-> FALSE]
  /\ dsp = [s \in Slots |-> NoDsp]
  /\ active = [s \in Slots |-> NoModel]
  /\ switching = [s \in Slots |-> FALSE]
  /\ pendingDsp = [s \in Slots |-> NoDsp]
  /\ pendingIndex = [s \in Slots |-> NoModel]
  /\ pendingReady = [s \in Slots |-> FALSE]
  /\ epoch = 0 /\ preload = "no" /\ numModels = 0
  /\ cache = [m \in KnobPos |-> [share |-> 0, epoch |-> -1]]
  /\ wpc = [s \in Slots |-> "off"]
  /\ wraw = [s \in Slots |-> 0]
  /\ wforce = [s \in Slots |-> FALSE]
  /\ wepoch = [s \in Slots |-> 0]
  /\ wdsp = [s \in Slots |-> NoDsp]
  /\ knobMoves = 0 /\ toggles = 0 /\ loadFailures = 0 /\ spawnFailures = 0

-----------------------------------------------------------------------------
(***************************************************************************)
(* Helpers of the source.                                                  *)
(***************************************************************************)

(* -2: no files at all; -1: this step has no file, play silence; else the  *)
(* file of the step.                                                       *)
knob_value_to_index(raw) ==
  IF numModels = 0 THEN -2 ELSE IF raw < numModels THEN raw ELSE NoModel

Claimed == {s \in Slots : owner[s] # NoPedal}
Free    == Slots \ Claimed

(* Variant: counts the instance that asks once more.                       *)
ConcurrentInstancesAndMe == Cardinality(Claimed) + 1

(* std::max(1, count_claimed_instances()), what the block budget is divided *)
(* by.                                                                     *)
ConcurrentInstances == IF Claimed = {} THEN 1 ELSE Cardinality(Claimed)

(* Leave the label for l; the locals of process() die with the call.       *)
GoTo(l) ==
  /\ apc' = l
  /\ call' = IF l = "idle" THEN NoCall ELSE call
  /\ ret' = "idle"

(* Enter switch_model_in_background(s, drive_raw, s.force_recalibrate).    *)
RequestSwitch(back) == apc' = "guard" /\ ret' = back /\ UNCHANGED call

(* A spawned thread runs only between callbacks unless there is SMP.       *)
Preemptible == SMP \/ apc = "idle"

-----------------------------------------------------------------------------
(***************************************************************************)
(* process(): state_for, and the request or the knob-settle logic.         *)
(***************************************************************************)

EnterCall(p, s, l) ==
  /\ apc = "idle"
  /\ apc' = l
  /\ call' = [pedal |-> p, slot |-> s, raw |-> knob[p], dry |-> bypass[p]]
  /\ UNCHANGED <<boardVars, ret, fadeVars, settleVars, attemptAge,
                 installVars, switching, pendingVars, epoch, preload,
                 numModels, cache, workVars, boundVars>>

FindInstance(p) ==
  \E s \in Slots : owner[s] = p /\ EnterCall(p, s, "enter") /\ UNCHANGED owner

(* Variant: claims without having searched for its own slot.               *)
ClaimInstanceUnsearched(p) ==
  \E s \in Free :
    /\ \A t \in Free : s <= t
    /\ EnterCall(p, s, "bump")
    /\ owner' = [owner EXCEPT ![s] = p]

(* First call of an unseen pedal: compare-exchange of the first null slot. *)
ClaimInstance(p) ==
  /\ \A s \in Slots : owner[s] # p
  /\ \E s \in Free :
       /\ \A t \in Free : s <= t
       /\ EnterCall(p, s, "bump")
       /\ owner' = [owner EXCEPT ![s] = p]

(* All slots claimed: fall back on the last one.                           *)
ShareLastInstance(p) ==
  /\ \A s \in Slots : owner[s] # p
  /\ Free = {}
  /\ EnterCall(p, kMaxInstances, "enter")
  /\ UNCHANGED owner

BeginBlock(p) == FindInstance(p) \/ ClaimInstance(p) \/ ShareLastInstance(p)

BumpEpoch ==
  /\ apc = "bump"
  /\ epoch' = epoch + 1
  /\ GoTo("enter")
  /\ UNCHANGED <<boardVars, owner, fadeVars, settleVars, attemptAge,
                 installVars, switching, pendingVars, preload, numModels,
                 cache, workVars, boundVars>>

(* Variant: asks on the first call only, as an earlier version did.        *)
EnterNotReadyOnce ==
  /\ apc = "enter"
  /\ ~ready[call.slot]
  /\ IF preload = "no" THEN RequestSwitch("net") ELSE GoTo("net")
  /\ UNCHANGED <<boardVars, owner, fadeVars, settleVars, attemptAge,
                 installVars, switching, pendingVars, epoch, preload,
                 numModels, cache, workVars, boundVars>>

(* !ready: ask for the first model on every block, whatever the knob did.  *)
EnterNotReady ==
  /\ apc = "enter"
  /\ ~ready[call.slot]
  /\ RequestSwitch("net")
  /\ UNCHANGED <<boardVars, owner, fadeVars, settleVars, attemptAge,
                 installVars, switching, pendingVars, epoch, preload,
                 numModels, cache, workVars, boundVars>>

(* The knob has rested on one position other than the active one for       *)
(* kKnobSettleMs.                                                          *)
Settled(s, target) ==
  /\ target = candidate[s]
  /\ target # -2 /\ target # active[s]
  /\ candAge[s] >= SettleTicks

(* Variant: nobody looks at the topology epoch.                            *)
TopologyNeverStale(s) == FALSE

(* Another instance has joined since this one was installed.               *)
TopologyStale(s) == active[s] >= 0 /\ calEpoch[s] # epoch

EnterReady ==
  LET s      == call.slot
      target == knob_value_to_index(call.raw)
      duck   == fade[s] = 0 /\ Settled(s, target)
      recal  == fade[s] = 0 /\ ~duck /\ TopologyStale(s)
  IN  /\ apc = "enter"
      /\ ready[s]
      /\ candidate' = [candidate EXCEPT ![s] = target]
      /\ candAge' = [candAge EXCEPT ![s] =
                       IF target # candidate[s] THEN 0 ELSE @]
      /\ fade' = [fade EXCEPT ![s] = IF duck \/ recal THEN 1 ELSE @]
      /\ progress' = [progress EXCEPT ![s] = IF duck \/ recal THEN 0 ELSE @]
      /\ force' = [force EXCEPT ![s] = @ \/ recal]
      /\ GoTo("net")
      /\ UNCHANGED <<boardVars, owner, attemptAge, installVars, switching,
                     pendingVars, epoch, preload, numModels, cache, workVars,
                     boundVars>>

-----------------------------------------------------------------------------
(***************************************************************************)
(* switch_model_in_background, the part on the audio thread.               *)
(***************************************************************************)

Debounced(s) == attemptAge[s] < MinSwitchTicks

RequestDebounced ==
  /\ apc = "guard"
  /\ Debounced(call.slot)
  /\ GoTo(ret)
  /\ UNCHANGED <<boardVars, owner, fadeVars, settleVars, attemptAge,
                 installVars, switching, pendingVars, epoch, preload,
                 numModels, cache, workVars, boundVars>>

(* pthread_create works, or fails and the failure is swallowed.            *)
Spawn(started, failed) ==
  \/ started /\ UNCHANGED spawnFailures
  \/ /\ spawnFailures < MaxSpawnFailures
     /\ spawnFailures' = spawnFailures + 1
     /\ failed

(* The models are not there yet: start the one preload of this boot.       *)
RequestPreload ==
  /\ apc = "guard"
  /\ ~Debounced(call.slot)
  /\ preload # "done"
  /\ attemptAge' = [attemptAge EXCEPT ![call.slot] = 0]
  /\ IF preload = "no"
       THEN Spawn(preload' = "running", preload' = "lost")
       ELSE UNCHANGED <<preload, spawnFailures>>
  /\ GoTo(ret)
  /\ UNCHANGED <<boardVars, owner, fadeVars, settleVars, installVars,
                 switching, pendingVars, epoch, numModels, cache, workVars,
                 knobMoves, toggles, loadFailures>>

(* Variant: forgets the result that waits to be picked up.                 *)
MayStartLoadOverPending(s) == fade[s] \in {0, 3}

(* No transition is being played and nothing waits in the pending slot.    *)
MayStartLoad(s) == fade[s] \in {0, 3} /\ ~pendingReady[s]

RequestBlocked ==
  /\ apc = "guard"
  /\ ~Debounced(call.slot)
  /\ preload = "done"
  /\ ~MayStartLoad(call.slot)
  /\ attemptAge' = [attemptAge EXCEPT ![call.slot] = 0]
  /\ GoTo(ret)
  /\ UNCHANGED <<boardVars, owner, fadeVars, settleVars, installVars,
                 switching, pendingVars, epoch, preload, numModels, cache,
                 workVars, boundVars>>

RequestAllowed ==
  /\ apc = "guard"
  /\ ~Debounced(call.slot)
  /\ preload = "done"
  /\ MayStartLoad(call.slot)
  /\ attemptAge' = [attemptAge EXCEPT ![call.slot] = 0]
  /\ apc' = "cas"
  /\ UNCHANGED <<boardVars, call, ret, owner, fadeVars, settleVars,
                 installVars, switching, pendingVars, epoch, preload,
                 numModels, cache, workVars, boundVars>>

(* The compare-exchange on switching fails: a load is in flight.           *)
CasLost ==
  /\ apc = "cas"
  /\ switching[call.slot]
  /\ GoTo(ret)
  /\ UNCHANGED <<boardVars, owner, fadeVars, settleVars, attemptAge,
                 installVars, switching, pendingVars, epoch, preload,
                 numModels, cache, workVars, boundVars>>

(* It succeeds; when the thread cannot be created switching stays TRUE.    *)
StartWorker(s) ==
  /\ wpc' = [wpc EXCEPT ![s] = "start"]
  /\ wraw' = [wraw EXCEPT ![s] = call.raw]
  /\ wforce' = [wforce EXCEPT ![s] = force[s]]
  /\ UNCHANGED <<wepoch, wdsp>>

CasWon ==
  /\ apc = "cas"
  /\ ~switching[call.slot]
  /\ switching' = [switching EXCEPT ![call.slot] = TRUE]
  /\ Spawn(StartWorker(call.slot), UNCHANGED workVars)
  /\ GoTo(ret)
  /\ UNCHANGED <<boardVars, owner, fadeVars, settleVars, attemptAge,
                 installVars, pendingVars, epoch, preload, numModels, cache,
                 knobMoves, toggles, loadFailures>>

-----------------------------------------------------------------------------
(***************************************************************************)
(* process(): the retry while muted, and the pickup of a finished load.    *)
(***************************************************************************)

(* Variant: the one request after the fade-out is the only one.            *)
NeverRetries(s) == FALSE

(* fade_state 3 and nothing pending: the one request made at the end of    *)
(* the fade-out may have been lost, so ask again.                          *)
NeedsRetry(s) == fade[s] = 3 /\ ~pendingReady[s]

SafetyNet ==
  /\ apc = "net"
  /\ IF NeedsRetry(call.slot) THEN RequestSwitch("pickup") ELSE GoTo("pickup")
  /\ UNCHANGED <<boardVars, owner, fadeVars, settleVars, attemptAge,
                 installVars, switching, pendingVars, epoch, preload,
                 numModels, cache, workVars, boundVars>>

MayPickUp(s) == fade[s] \in {0, 3} /\ pendingReady[s]

NothingToPickUp ==
  /\ apc = "pickup"
  /\ ~MayPickUp(call.slot)
  /\ GoTo("render")
  /\ UNCHANGED <<boardVars, owner, fadeVars, settleVars, attemptAge,
                 installVars, switching, pendingVars, epoch, preload,
                 numModels, cache, workVars, boundVars>>

(* Variant: whatever was loaded is installed.                              *)
PendingNeverStale(s) == FALSE

(* The knob has moved on while the load ran.                               *)
PendingStale(s) ==
  LET current == knob_value_to_index(call.raw)
  IN  ready[s] /\ current # -2 /\ current # pendingIndex[s]

(* Variant: drops the DSP and leaves the flag up.                          *)
DropStaleLoadKeepsFlag ==
  LET s == call.slot
  IN  /\ apc = "pickup"
      /\ MayPickUp(s)
      /\ PendingStale(s)
      /\ pendingDsp' = [pendingDsp EXCEPT ![s] = NoDsp]
      /\ RequestSwitch("render")
      /\ UNCHANGED <<boardVars, owner, fadeVars, settleVars, attemptAge,
                     installVars, switching, pendingIndex, pendingReady,
                     epoch, preload, numModels, cache, workVars, boundVars>>

DropStaleLoad ==
  LET s == call.slot
  IN  /\ apc = "pickup"
      /\ MayPickUp(s)
      /\ PendingStale(s)
      /\ pendingDsp' = [pendingDsp EXCEPT ![s] = NoDsp]
      /\ pendingReady' = [pendingReady EXCEPT ![s] = FALSE]
      /\ RequestSwitch("render")
      /\ UNCHANGED <<boardVars, owner, fadeVars, settleVars, attemptAge,
                     installVars, switching, pendingIndex, epoch, preload,
                     numModels, cache, workVars, boundVars>>

TakePending(s) ==
  /\ dsp' = [dsp EXCEPT ![s] = pendingDsp[s]]
  /\ pendingDsp' = [pendingDsp EXCEPT ![s] = NoDsp]
  /\ active' = [active EXCEPT ![s] = pendingIndex[s]]
  /\ pendingReady' = [pendingReady EXCEPT ![s] = FALSE]
  /\ ready' = [ready EXCEPT ![s] = TRUE]
  /\ calEpoch' = [calEpoch EXCEPT ![s] = epoch]
  /\ force' = [force EXCEPT ![s] = FALSE]
  /\ UNCHANGED pendingIndex

(* The first model of this instance: nothing plays yet, no fade.           *)
InstallFirst ==
  /\ apc = "pickup"
  /\ MayPickUp(call.slot)
  /\ ~ready[call.slot]
  /\ TakePending(call.slot)
  /\ GoTo("render")
  /\ UNCHANGED <<boardVars, owner, fade, progress, settleVars, attemptAge,
                 switching, epoch, preload, numModels, cache, workVars,
                 boundVars>>

(* Variant: at full level at once, without a fade-in.                      *)
FadeAfterSwapSkipsRamp(s) == 0

FadeAfterSwap(s) == IF pendingIndex[s] < 0 THEN 0 ELSE 2

(* A later one: swap it in behind the mute and fade it in.                 *)
InstallNext ==
  LET s == call.slot
  IN  /\ apc = "pickup"
      /\ MayPickUp(s)
      /\ ready[s]
      /\ ~PendingStale(s)
      /\ TakePending(s)
      /\ progress' = [progress EXCEPT ![s] = 0]
      /\ fade' = [fade EXCEPT ![s] = FadeAfterSwap(s)]
      /\ GoTo("render")
      /\ UNCHANGED <<boardVars, owner, settleVars, attemptAge, switching,
                     epoch, preload, numModels, cache, workVars, boundVars>>

-----------------------------------------------------------------------------
(***************************************************************************)
(* process(): the block's audio.                                           *)
(***************************************************************************)

Hear(x) == heard' = [heard EXCEPT ![call.pedal] = x]
PlaysDry == call.dry \/ ~ready[call.slot]
Voiced(kind, s) ==
  IF active[s] < 0 THEN Silence ELSE [sound |-> kind, model |-> dsp[s].model]

Rendered ==
  UNCHANGED <<knob, bypass, owner, settleVars, attemptAge, installVars,
              switching, pendingVars, epoch, preload, numModels, cache,
              workVars, boundVars, force>>

RenderDry ==
  /\ apc = "render"
  /\ PlaysDry
  /\ Hear(Dry)
  /\ GoTo("idle")
  /\ Rendered /\ UNCHANGED <<fade, progress>>

RenderSteady ==
  /\ apc = "render"
  /\ ~PlaysDry
  /\ fade[call.slot] = 0
  /\ Hear(Voiced("full", call.slot))
  /\ GoTo("idle")
  /\ Rendered /\ UNCHANGED <<fade, progress>>

RenderMuted ==
  /\ apc = "render"
  /\ ~PlaysDry
  /\ fade[call.slot] = 3
  /\ Hear(Silence)
  /\ GoTo("idle")
  /\ Rendered /\ UNCHANGED <<fade, progress>>

(* A block of the fade-out that is not its last.                           *)
RenderFadeOut ==
  LET s == call.slot
  IN  /\ apc = "render"
      /\ ~PlaysDry
      /\ fade[s] = 1
      /\ Hear(Voiced("out", s))
      /\ progress[s] + 1 < FadeOutBlocks
      /\ progress' = [progress EXCEPT ![s] = @ + 1]
      /\ GoTo("idle")
      /\ Rendered /\ UNCHANGED fade

(* The knob came back to the model that was ducked: no load is needed.     *)
BackOnActive(s) == knob_value_to_index(call.raw) = active[s] /\ ~force[s]

(* The last block of the fade-out: fade the same model back in, or mute    *)
(* and request the new one.                                                *)
RenderFadeOutEnd ==
  LET s == call.slot
  IN  /\ apc = "render"
      /\ ~PlaysDry
      /\ fade[s] = 1
      /\ Hear(Voiced("out", s))
      /\ progress[s] + 1 >= FadeOutBlocks
      /\ progress' = [progress EXCEPT ![s] = 0]
      /\ \/ /\ BackOnActive(s)
            /\ fade' = [fade EXCEPT ![s] = IF active[s] < 0 THEN 0 ELSE 2]
            /\ GoTo("idle")
         \/ /\ ~BackOnActive(s)
            /\ fade' = [fade EXCEPT ![s] = 3]
            /\ RequestSwitch("idle")
      /\ Rendered

RenderFadeIn ==
  LET s    == call.slot
      last == progress[s] + 1 >= FadeInBlocks
  IN  /\ apc = "render"
      /\ ~PlaysDry
      /\ fade[s] = 2
      /\ Hear([sound |-> "in", model |-> dsp[s].model])
      /\ progress' = [progress EXCEPT ![s] = IF last THEN 0 ELSE @ + 1]
      /\ fade' = [fade EXCEPT ![s] = IF last THEN 0 ELSE 2]
      /\ GoTo("idle")
      /\ Rendered

AudioStep ==
  \/ BumpEpoch \/ EnterNotReady \/ EnterReady
  \/ RequestDebounced \/ RequestPreload \/ RequestBlocked \/ RequestAllowed
  \/ CasLost \/ CasWon
  \/ SafetyNet \/ NothingToPickUp \/ DropStaleLoad \/ InstallFirst
  \/ InstallNext
  \/ RenderDry \/ RenderSteady \/ RenderMuted \/ RenderFadeOut
  \/ RenderFadeOutEnd \/ RenderFadeIn

-----------------------------------------------------------------------------
(***************************************************************************)
(* The detached threads.                                                   *)
(***************************************************************************)

audioVars == <<apc, call, ret, owner, fadeVars, settleVars, attemptAge,
               installVars, epoch>>

(* Scan the folder, keep the files a DSP can be built from, publish.       *)
PreloadModels ==
  /\ Preemptible
  /\ preload = "running"
  /\ preload' = "done"
  /\ \E n \in FileCounts : numModels' = n
  /\ cache' = [m \in KnobPos |-> [share |-> 0, epoch |-> -1]]
  /\ UNCHANGED <<boardVars, audioVars, switching, pendingVars, workVars,
                 boundVars>>

WorkerGoTo(s, l) == wpc' = [wpc EXCEPT ![s] = l]
WorkerFrame ==
  UNCHANGED <<boardVars, audioVars, preload, numModels, knobMoves, toggles,
              spawnFailures>>

(* Nothing to load, or the knob is back on the model that plays.           *)
NothingToLoad(s) ==
  LET idx == knob_value_to_index(wraw[s])
  IN  idx = -2 \/ (idx = active[s] /\ ~wforce[s])

(* Decide what to load; channel 0 is constructed here.                     *)
WorkerStart(s) ==
  LET idx == knob_value_to_index(wraw[s])
  IN  /\ Preemptible
      /\ wpc[s] = "start"
      /\ \/ NothingToLoad(s) /\ WorkerGoTo(s, "exit") /\ UNCHANGED wdsp
         \/ /\ ~NothingToLoad(s)
            /\ WorkerGoTo(s, IF idx \in Slimmable THEN "lookup" ELSE "stage")
            /\ wdsp' = [wdsp EXCEPT ![s] = [model |-> idx, share |-> 0]]
      /\ WorkerFrame
      /\ UNCHANGED <<switching, pendingVars, cache, wraw, wforce, wepoch,
                     loadFailures>>

(* An entry measured for the instances of this moment.                     *)
CacheHit(m) == cache[m].share > 0 /\ cache[m].epoch = epoch

(* Under g_calibration_cache_mutex, which a benchmark holds throughout.    *)
WorkerLookup(s) ==
  LET m == wdsp[s].model
  IN  /\ Preemptible
      /\ wpc[s] = "lookup"
      /\ \A t \in Slots : wpc[t] \notin {"bench", "store"}
      /\ \/ /\ CacheHit(m)
            /\ wdsp' = [wdsp EXCEPT ![s] = [model |-> m,
                                        share |-> cache[m].share]]
            /\ WorkerGoTo(s, "stage")
            /\ UNCHANGED wepoch
         \/ /\ ~CacheHit(m)
            /\ wepoch' = [wepoch EXCEPT ![s] = epoch]
            /\ WorkerGoTo(s, "bench")
            /\ UNCHANGED wdsp
      /\ WorkerFrame
      /\ UNCHANGED <<switching, pendingVars, cache, wraw, wforce,
                     loadFailures>>

(* calibrate_slimmable_quality: the budget is shared between the instances *)
(* claimed when the benchmark begins ...                                   *)
WorkerMeasure(s) ==
  /\ Preemptible
  /\ wpc[s] = "bench"
  /\ wdsp' = [wdsp EXCEPT ![s] = [model |-> wdsp[s].model,
                                  share |-> ConcurrentInstances]]
  /\ WorkerGoTo(s, "store")
  /\ WorkerFrame
  /\ UNCHANGED <<switching, pendingVars, cache, wraw, wforce, wepoch,
                 loadFailures>>

(* Variant: the epoch is read again after the benchmark.                   *)
EntryEpochReadLate(s) == epoch

(* ... and the entry is tagged with the epoch read before it.              *)
EntryEpoch(s) == wepoch[s]

WorkerRemember(s) ==
  /\ Preemptible
  /\ wpc[s] = "store"
  /\ cache' = [cache EXCEPT ![wdsp[s].model] =
                  [share |-> wdsp[s].share, epoch |-> EntryEpoch(s)]]
  /\ wepoch' = [wepoch EXCEPT ![s] = 0]
  /\ WorkerGoTo(s, "stage")
  /\ WorkerFrame
  /\ UNCHANGED <<switching, pendingVars, wraw, wforce, wdsp, loadFailures>>

(* Move the result (or null, for an unmapped step) into pending_dsp ...    *)
WorkerStage(s) ==
  /\ Preemptible
  /\ wpc[s] = "stage"
  /\ pendingDsp' = [pendingDsp EXCEPT ![s] = wdsp[s]]
  /\ WorkerGoTo(s, "publish")
  /\ WorkerFrame
  /\ UNCHANGED <<switching, pendingIndex, pendingReady, cache, wraw, wforce,
                 wepoch, wdsp, loadFailures>>

(* ... and publish it.                                                     *)
WorkerPublish(s) ==
  /\ Preemptible
  /\ wpc[s] = "publish"
  /\ pendingIndex' = [pendingIndex EXCEPT ![s] = wdsp[s].model]
  /\ pendingReady' = [pendingReady EXCEPT ![s] = TRUE]
  /\ WorkerGoTo(s, "exit")
  /\ WorkerFrame
  /\ UNCHANGED <<switching, pendingDsp, cache, wraw, wforce, wepoch, wdsp,
                 loadFailures>>

(* get_dsp, Reset or the prewarm throws; catch (...) drops the load.       *)
WorkerFail(s) ==
  /\ Preemptible
  /\ wpc[s] \in {"lookup", "bench", "stage"}
  /\ wdsp[s].model # NoModel
  /\ loadFailures < MaxLoadFailures
  /\ loadFailures' = loadFailures + 1
  /\ WorkerGoTo(s, "exit")
  /\ wepoch' = [wepoch EXCEPT ![s] = 0]
  /\ WorkerFrame
  /\ UNCHANGED <<switching, pendingVars, cache, wraw, wforce, wdsp>>

(* ~Reset: the flag is released last.                                      *)
WorkerExit(s) ==
  /\ Preemptible
  /\ wpc[s] = "exit"
  /\ switching' = [switching EXCEPT ![s] = FALSE]
  /\ WorkerGoTo(s, "off")
  /\ wraw' = [wraw EXCEPT ![s] = 0]
  /\ wforce' = [wforce EXCEPT ![s] = FALSE]
  /\ wdsp' = [wdsp EXCEPT ![s] = NoDsp]
  /\ WorkerFrame
  /\ UNCHANGED <<pendingVars, cache, wepoch, loadFailures>>

WorkerStep(s) ==
  \/ WorkerStart(s) \/ WorkerLookup(s) \/ WorkerMeasure(s)
  \/ WorkerRemember(s) \/ WorkerStage(s) \/ WorkerPublish(s)
  \/ WorkerExit(s)

-----------------------------------------------------------------------------
(***************************************************************************)
(* Time and the user.                                                      *)
(***************************************************************************)

(* A tick of the steady clock, until every age is past its threshold.      *)
Tick ==
  /\ Preemptible
  /\ \E s \in Slots : candAge[s] < SettleTicks \/ attemptAge[s] < MinSwitchTicks
  /\ candAge' = [s \in Slots |->
                   IF candAge[s] < SettleTicks THEN candAge[s] + 1
                                               ELSE candAge[s]]
  /\ attemptAge' = [s \in Slots |->
                      IF attemptAge[s] < MinSwitchTicks THEN attemptAge[s] + 1
                                                        ELSE attemptAge[s]]
  /\ UNCHANGED <<boardVars, apc, call, ret, owner, fadeVars, candidate,
                 installVars, switching, pendingVars, epoch, preload,
                 numModels, cache, workVars, boundVars>>

userFrame == <<audioVars, heard, switching, pendingVars, preload, numModels,
               cache, workVars, loadFailures, spawnFailures>>

TurnKnob(p) ==
  /\ Preemptible
  /\ knobMoves < MaxKnobMoves
  /\ knobMoves' = knobMoves + 1
  /\ \E k \in KnobPos \ {knob[p]} : knob' = [knob EXCEPT ![p] = k]
  /\ UNCHANGED <<userFrame, bypass, toggles>>

ToggleBypass(p) ==
  /\ Preemptible
  /\ toggles < MaxBypassToggles
  /\ toggles' = toggles + 1
  /\ bypass' = [bypass EXCEPT ![p] = ~@]
  /\ UNCHANGED <<userFrame, knob, knobMoves>>

Next ==
  \/ AudioStep
  \/ \E p \in Pedals : BeginBlock(p) \/ TurnKnob(p) \/ ToggleBypass(p)
  \/ \E s \in Slots : WorkerStep(s) \/ WorkerFail(s)
  \/ PreloadModels
  \/ Tick

Spec == Init /\ [][Next]_vars

(* The host calls process() of every pedal once per audio period and each  *)
(* call ends; the callbacks leave the processor time in which the detached *)
(* threads run and the clock advances.  Nobody has to touch a knob, and no *)
(* load has to fail.                                                       *)
Fairness ==
  /\ WF_vars(AudioStep)
  /\ \A p \in Pedals : SF_vars(BeginBlock(p))
  /\ \A s \in Slots : SF_vars(WorkerStep(s))
  /\ SF_vars(PreloadModels)
  /\ SF_vars(Tick)

FairSpec == Spec /\ Fairness

-----------------------------------------------------------------------------
(***************************************************************************)
(* Safety.                                                                 *)
(***************************************************************************)

(* The object process() runs is the model active_index names, null exactly *)
(* when the instance is silent, and a fade-in only ever plays a model: the *)
(* render code dereferences dsp[ch] whenever active_index >= 0 or          *)
(* fade_state = 2, without a null check.                                   *)
RenderedModelIsInstalled ==
  \A s \in Slots :
    /\ dsp[s].model = active[s]
    /\ fade[s] = 2 => active[s] >= 0
    /\ pendingReady[s] => pendingDsp[s].model = pendingIndex[s]

(* The load thread builds, measures and stages only for an instance nobody *)
(* hears: before its first model or while it is muted (fade_state 3), so   *)
(* its processor bursts and the swap never meet a sounding model.          *)
LoadsOnlyUnheard ==
  \A s \in Slots :
    (wpc[s] \in Building \/ pendingReady[s]) => ~ready[s] \/ fade[s] = 3

(* pending_dsp and pending_index have one owner at a time: the load thread *)
(* that holds `switching` until it raises pending_ready, the audio thread  *)
(* from then on ("each owned by exactly one thread").                      *)
PendingHasOneOwner ==
  \A s \in Slots :
    /\ wpc[s] # "off" => switching[s]
    /\ pendingReady[s] => wpc[s] \in {"off", "exit"}

(* The three of them as one core keeps them: the flag that lets a request  *)
(* through is still true when the load starts, the staged DSP is the one   *)
(* about to be published, and before the first model there is no fade.     *)
OneCoreInv ==
  /\ RenderedModelIsInstalled /\ LoadsOnlyUnheard /\ PendingHasOneOwner
  /\ \A s \in Slots : wpc[s] = "publish" => pendingDsp[s] = wdsp[s]
  /\ \A s \in Slots : ~ready[s] => fade[s] = 0
  /\ apc \in {"guard", "cas"} => ~ready[call.slot] \/ fade[call.slot] = 3
  /\ apc = "cas" => ~pendingReady[call.slot]

(* A calibration entry tagged with an epoch was measured for at least as   *)
(* many instances as had joined by that epoch: a cache hit never returns a *)
(* tier that is too expensive for the board of its own epoch.              *)
CalibrationCoversItsEpoch ==
  \A m \in KnobPos : cache[m].share > 0 => cache[m].epoch <= cache[m].share

(* A pedal works on its own ModelState, of which it has one; on another    *)
(* pedal's only where state_for found none left to claim, and then on the  *)
(* last one of the table.                                                  *)
EachPedalItsOwnState ==
  /\ apc # "idle" =>
       \/ owner[call.slot] = call.pedal
       \/ /\ call.slot = kMaxInstances
          /\ Free = {}
          /\ \A s \in Slots : owner[s] # call.pedal
  /\ \A s, t \in Slots : owner[s] = owner[t] /\ s # t => owner[s] = NoPedal

(* A steady instance that counts as calibrated for the present board runs  *)
(* a tier that was measured for all the instances on it.                   *)
TierCoversBoard ==
  \A s \in Slots :
    (ready[s] /\ fade[s] = 0 /\ active[s] \in Slimmable /\ calEpoch[s] = epoch)
      => dsp[s].share >= epoch

(* What is heard of a pedal goes from one model to another only from the   *)
(* end of a fade-out to the start of a fade-in: never a hard cut.          *)
NoHardCut ==
  [][\A p \in Pedals :
       (/\ heard[p].model # heard'[p].model
        /\ heard[p].model >= 0 /\ heard'[p].model >= 0)
         => heard[p].sound = "out" /\ heard'[p].sound = "in"]_vars

(* A replacement is installed only if the knob still asks for it at that   *)
(* block: loads the knob has moved past are never heard.                   *)
InstalledIsWanted ==
  [][\A s \in Slots :
       (ready[s] /\ active'[s] # active[s])
         => active'[s] = knob_value_to_index(call.raw)]_vars

-----------------------------------------------------------------------------
(***************************************************************************)
(* Liveness.                                                               *)
(***************************************************************************)

(* What the folder held, once the preload has read it: a file for the step *)
(* of the knob, or files for other steps only.                             *)
Mapped(p)   == preload = "done" => knob[p] < numModels
Unmapped(p) == preload = "done" /\ 0 < numModels /\ numModels <= knob[p]

(* The model of step k, silence if the step has none, the dry input if the *)
(* folder is empty.                                                        *)
Audible(p, k) ==
  /\ preload = "done"
  /\ heard[p] = IF k < numModels THEN [sound |-> "full", model |-> k]
                ELSE IF numModels = 0 THEN Dry ELSE Silence

(* Muted, with the knob back on the model that was ducked out: every retry *)
(* ends at once because the target is the active index already.            *)
Trapped(s) ==
  /\ fade[s] = 3
  /\ ~force[s]
  /\ knob_value_to_index(knob[owner[s]]) = active[s]

SlotOf(p, s) == owner[s] = p

(* Unheard for good: a pthread_create failed, and with it went the only    *)
(* preload of this boot or the load this slot still counts as in flight.   *)
Stranded(s) ==
  /\ ~ready[s] \/ fade[s] = 3
  /\ preload = "lost" \/ (switching[s] /\ wpc[s] = "off")

(* With the knob at rest on a step that has a file, an instance gets its   *)
(* first model, bypassed or not, even if nobody ever touches the knob and  *)
(* some loads fail; only a thread that was never created prevents it.      *)
FirstModelLoads ==
  \A p \in Pedals :
    <>[]Mapped(p) =>
      \/ <>(\E s \in Slots : SlotOf(p, s) /\ ready[s])
      \/ <>[](\E s \in Slots : SlotOf(p, s) /\ Stranded(s))

(* Once the knob rests, the pedal ends up playing what the knob points at, *)
(* for good; the only ways out are the trap above, a thread that was never *)
(* created, and an instance that never got a first model because its knob  *)
(* rests on a step without file.                                           *)
SettledKnobIsHeard ==
  \A p \in Pedals, k \in KnobPos :
    <>[](knob[p] = k /\ ~bypass[p]) =>
      \/ <>[]Audible(p, k)
      \/ <>[](\E s \in Slots : SlotOf(p, s) /\ (Trapped(s) \/ Stranded(s)))
      \/ <>[](Unmapped(p) /\ \E s \in Slots : SlotOf(p, s) /\ ~ready[s])

(* Every instance that sounds is in the end reloaded for the board as it   *)
(* is (a bypassed one waits in its fade-out).                              *)
EveryInstanceRecalibrated ==
  \A s \in Slots :
    []<>((ready[s] /\ active[s] >= 0 /\ ~bypass[owner[s]])
           => calEpoch[s] = epoch)

(* A muted instance is eventually heard again (the safety net's promise).  *)
NoPermanentMute == \A s \in Slots : []<>(fade[s] # 3)
=============================================================================
