--------------------------- MODULE NamHookProofs ---------------------------
(***************************************************************************)
(* Proofs about the audio hook, for every number of pedals, slots, models  *)
(* and knob positions.                                                     *)
(***************************************************************************)
EXTENDS NamHookVoice, FiniteSetTheorems, TLAPS

-----------------------------------------------------------------------------
(***************************************************************************)
(* Type correctness.                                                       *)
(***************************************************************************)

(* A load that is being calibrated is the load of a file.                  *)
CalibratesAFile ==
  \A s \in Slots :
    wpc[s] \in {"lookup", "bench", "store"} => wdsp[s].model \in KnobPos

TypeInv == TypeOK /\ CalibratesAFile

LEMMA SlotsFinite == IsFiniteSet(Slots) /\ Cardinality(Slots) = kMaxInstances
  BY FS_Interval, ConstantsAssumption DEF Slots

(* What is in the budget's denominator.                                    *)
LEMMA ConcurrentInstancesType ==
  /\ IsFiniteSet(Claimed)
  /\ Cardinality(Claimed) \in 0 .. kMaxInstances
  /\ ConcurrentInstances \in 1 .. kMaxInstances
  /\ Cardinality(Claimed) <= ConcurrentInstances
<1>1. Claimed \subseteq Slots
  BY DEF Claimed
<1>2. IsFiniteSet(Claimed) /\ Cardinality(Claimed) <= kMaxInstances
  BY <1>1, SlotsFinite, FS_Subset
<1>3. Cardinality(Claimed) \in Nat
  BY <1>2, FS_CardinalityType
<1>4. Claimed # {} => Cardinality(Claimed) >= 1
  BY <1>2, <1>3, FS_EmptySet
<1>5. Claimed = {} => Cardinality(Claimed) = 0
  BY FS_EmptySet
<1> QED
  BY <1>2, <1>3, <1>4, <1>5, ConstantsAssumption DEF ConcurrentInstances

LEMMA IndicesAreIntegers == \A i \in Indices : i \in Int /\ i >= -1
  BY ConstantsAssumption DEF Indices, KnobPos, NoModel

LEMMA IndexType ==
  ASSUME NEW raw \in KnobPos, TypeOK
  PROVE  knob_value_to_index(raw) \in Indices \cup {-2}
  BY DEF TypeOK, knob_value_to_index, Indices, KnobPos, NoModel

LEMMA TypeInit == Init => TypeInv
  BY ConstantsAssumption
  DEF Init, TypeInv, TypeOK, CalibratesAFile, Slots, KnobPos, Indices, Dsp,
      NoDsp, NoModel, NoCall, AudioLabels, WorkLabels, Sounds



(* The closure facts the typing steps need.                                *)
LEMMA Domains ==
  /\ NoModel \in Indices /\ NoDsp \in Dsp /\ KnobPos \subseteq Indices
  /\ \A d \in Dsp : d.model \in Indices
  /\ NoCall \in [pedal : Pedals \cup {NoPedal}, slot : Slots, raw : KnobPos,
                  dry : BOOLEAN]
  /\ kMaxInstances \in Slots /\ 0 \in 0 .. kMaxInstances /\ 0 \in KnobPos
  /\ \A m \in Indices, n \in 0 .. kMaxInstances :
       [model |-> m, share |-> n] \in Dsp
  BY ConstantsAssumption
  DEF NoModel, Indices, NoDsp, Dsp, KnobPos, NoCall, Slots

LEMMA TypeStep == TypeInv /\ [Next]_vars => TypeInv'
<1>1. ASSUME TypeInv, BumpEpoch PROVE TypeInv'
  BY <1>1, Domains, ConstantsAssumption, IndexType DEF TypeInv, TypeOK, CalibratesAFile, boardVars, fadeVars, settleVars, installVars, pendingVars, workVars, boundVars, AudioLabels, GoTo, BumpEpoch
<1>2. ASSUME TypeInv, EnterNotReady PROVE TypeInv'
  BY <1>2, Domains, ConstantsAssumption, IndexType DEF TypeInv, TypeOK, CalibratesAFile, boardVars, fadeVars, settleVars, installVars, pendingVars, workVars, boundVars, AudioLabels, GoTo, EnterNotReady, RequestSwitch
<1>3. ASSUME TypeInv, EnterReady PROVE TypeInv'
  <2>1. knob_value_to_index(call.raw) \in Indices \cup {-2}
    BY <1>3, IndexType DEF TypeInv, TypeOK
  <2>2. candidate' \in [Slots -> Indices \cup {-2}] /\ candAge' \in [Slots -> 0 .. SettleTicks]
    BY <1>3, <2>1, ConstantsAssumption DEF EnterReady, TypeInv, TypeOK
  <2>3. fade' \in [Slots -> 0 .. 3] /\ progress' \in [Slots -> Nat]
    BY <1>3 DEF EnterReady, TypeInv, TypeOK
  <2>4. force' \in [Slots -> BOOLEAN]
    BY <1>3 DEF EnterReady, TypeInv, TypeOK, TopologyStale
  <2>5. apc' = "net" /\ call' = call /\ ret' = "idle"
    BY <1>3 DEF EnterReady, GoTo
  <2> QED
    BY Domains, <1>3, <2>1, <2>2, <2>3, <2>4, <2>5 DEF EnterReady, TypeInv, TypeOK, CalibratesAFile, boardVars, fadeVars, settleVars, installVars, pendingVars, workVars, boundVars, AudioLabels
<1>4. ASSUME TypeInv, RequestDebounced PROVE TypeInv'
  BY <1>4, Domains, ConstantsAssumption, IndexType DEF TypeInv, TypeOK, CalibratesAFile, boardVars, fadeVars, settleVars, installVars, pendingVars, workVars, boundVars, AudioLabels, GoTo, RequestDebounced
<1>5. ASSUME TypeInv, RequestPreload PROVE TypeInv'
  BY <1>5, Domains, ConstantsAssumption, IndexType DEF TypeInv, TypeOK, CalibratesAFile, boardVars, fadeVars, settleVars, installVars, pendingVars, workVars, boundVars, AudioLabels, GoTo, RequestPreload, Spawn
<1>6. ASSUME TypeInv, RequestBlocked PROVE TypeInv'
  BY <1>6, Domains, ConstantsAssumption, IndexType DEF TypeInv, TypeOK, CalibratesAFile, boardVars, fadeVars, settleVars, installVars, pendingVars, workVars, boundVars, AudioLabels, GoTo, RequestBlocked
<1>7. ASSUME TypeInv, RequestAllowed PROVE TypeInv'
  BY <1>7, Domains, ConstantsAssumption, IndexType DEF TypeInv, TypeOK, CalibratesAFile, boardVars, fadeVars, settleVars, installVars, pendingVars, workVars, boundVars, AudioLabels, GoTo, RequestAllowed
<1>8. ASSUME TypeInv, CasLost PROVE TypeInv'
  BY <1>8, Domains, ConstantsAssumption, IndexType DEF TypeInv, TypeOK, CalibratesAFile, boardVars, fadeVars, settleVars, installVars, pendingVars, workVars, boundVars, AudioLabels, GoTo, CasLost
<1>9. ASSUME TypeInv, CasWon PROVE TypeInv'
  <2>1. /\ switching' \in [Slots -> BOOLEAN] /\ wpc' \in [Slots -> WorkLabels]
        /\ wraw' \in [Slots -> KnobPos] /\ wforce' \in [Slots -> BOOLEAN]
    BY <1>9 DEF CasWon, Spawn, StartWorker, workVars, TypeInv, TypeOK, WorkLabels
  <2>2. wepoch' = wepoch /\ wdsp' = wdsp
    BY <1>9 DEF CasWon, Spawn, StartWorker, workVars
  <2>3. spawnFailures' \in 0 .. MaxSpawnFailures
    BY <1>9, ConstantsAssumption DEF CasWon, Spawn, StartWorker, TypeInv, TypeOK
  <2>4. CalibratesAFile'
    BY <1>9 DEF CasWon, Spawn, StartWorker, workVars, TypeInv, TypeOK, CalibratesAFile
  <2>5. apc' = ret /\ call' \in {call, NoCall} /\ ret' = "idle" /\ (apc' # "idle" => call' = call)
    BY <1>9 DEF CasWon, GoTo
  <2> QED
    BY Domains, <1>9, <2>1, <2>2, <2>3, <2>4, <2>5 DEF CasWon, TypeInv, TypeOK, CalibratesAFile, boardVars, fadeVars, settleVars, installVars, pendingVars, workVars, boundVars, AudioLabels
<1>10. ASSUME TypeInv, SafetyNet PROVE TypeInv'
  BY <1>10, Domains, ConstantsAssumption, IndexType DEF TypeInv, TypeOK, CalibratesAFile, boardVars, fadeVars, settleVars, installVars, pendingVars, workVars, boundVars, AudioLabels, GoTo, SafetyNet, RequestSwitch
<1>11. ASSUME TypeInv, NothingToPickUp PROVE TypeInv'
  BY <1>11, Domains, ConstantsAssumption, IndexType DEF TypeInv, TypeOK, CalibratesAFile, boardVars, fadeVars, settleVars, installVars, pendingVars, workVars, boundVars, AudioLabels, GoTo, NothingToPickUp
<1>12. ASSUME TypeInv, DropStaleLoad PROVE TypeInv'
  BY <1>12, Domains, ConstantsAssumption, IndexType DEF TypeInv, TypeOK, CalibratesAFile, boardVars, fadeVars, settleVars, installVars, pendingVars, workVars, boundVars, AudioLabels, GoTo, DropStaleLoad, RequestSwitch
<1>13. ASSUME TypeInv, InstallFirst PROVE TypeInv'
  <2>1. /\ dsp' \in [Slots -> Dsp] /\ pendingDsp' \in [Slots -> Dsp]
        /\ active' \in [Slots -> Indices] /\ pendingIndex' = pendingIndex
    BY <1>13, Domains DEF InstallFirst, TakePending, TypeInv, TypeOK
  <2>2. /\ pendingReady' \in [Slots -> BOOLEAN] /\ ready' \in [Slots -> BOOLEAN]
        /\ calEpoch' \in [Slots -> Int] /\ force' \in [Slots -> BOOLEAN]
    BY <1>13 DEF InstallFirst, TakePending, TypeInv, TypeOK
  <2>3. apc' = "render" /\ call' = call /\ ret' = "idle"
    BY <1>13 DEF InstallFirst, GoTo
  <2> QED
    BY Domains, <1>13, <2>1, <2>2, <2>3 DEF InstallFirst, TypeInv, TypeOK, CalibratesAFile, boardVars, fadeVars, settleVars, installVars, pendingVars, workVars, boundVars, AudioLabels
<1>14. ASSUME TypeInv, InstallNext PROVE TypeInv'
  <2>1. /\ dsp' \in [Slots -> Dsp] /\ pendingDsp' \in [Slots -> Dsp]
        /\ active' \in [Slots -> Indices] /\ pendingIndex' = pendingIndex
    BY <1>14, Domains DEF InstallNext, TakePending, TypeInv, TypeOK
  <2>2. /\ pendingReady' \in [Slots -> BOOLEAN] /\ ready' \in [Slots -> BOOLEAN]
        /\ calEpoch' \in [Slots -> Int] /\ force' \in [Slots -> BOOLEAN]
    BY <1>14 DEF InstallNext, TakePending, TypeInv, TypeOK
  <2>3. apc' = "render" /\ call' = call /\ ret' = "idle"
    BY <1>14 DEF InstallNext, GoTo
  <2>4. fade' \in [Slots -> 0 .. 3] /\ progress' \in [Slots -> Nat]
    BY <1>14 DEF InstallNext, FadeAfterSwap, TypeInv, TypeOK
  <2> QED
    BY Domains, <1>14, <2>1, <2>2, <2>3, <2>4 DEF InstallNext, TypeInv, TypeOK, CalibratesAFile, boardVars, fadeVars, settleVars, installVars, pendingVars, workVars, boundVars, AudioLabels
<1>15. ASSUME TypeInv, RenderDry PROVE TypeInv'
  BY <1>15, Domains, ConstantsAssumption, IndexType DEF TypeInv, TypeOK, CalibratesAFile, boardVars, fadeVars, settleVars, installVars, pendingVars, workVars, boundVars, AudioLabels, GoTo, RenderDry, Rendered, Hear, Voiced, Silence, Dry, Sounds
<1>16. ASSUME TypeInv, RenderSteady PROVE TypeInv'
  BY <1>16, Domains, ConstantsAssumption, IndexType DEF TypeInv, TypeOK, CalibratesAFile, boardVars, fadeVars, settleVars, installVars, pendingVars, workVars, boundVars, AudioLabels, GoTo, RenderSteady, Rendered, Hear, Voiced, Silence, Dry, Sounds
<1>17. ASSUME TypeInv, RenderMuted PROVE TypeInv'
  BY <1>17, Domains, ConstantsAssumption, IndexType DEF TypeInv, TypeOK, CalibratesAFile, boardVars, fadeVars, settleVars, installVars, pendingVars, workVars, boundVars, AudioLabels, GoTo, RenderMuted, Rendered, Hear, Voiced, Silence, Dry, Sounds
<1>18. ASSUME TypeInv, RenderFadeOut PROVE TypeInv'
  <2>1. heard' \in [Pedals -> [sound : Sounds, model : Indices]]
    BY <1>18, Domains DEF RenderFadeOut, Hear, Voiced, Silence, Sounds, TypeInv, TypeOK
  <2>2. fade' \in [Slots -> 0 .. 3] /\ progress' \in [Slots -> Nat]
    BY <1>18 DEF RenderFadeOut, TypeInv, TypeOK
  <2>3. /\ apc' \in {"idle", "guard"} /\ ret' = "idle"
        /\ call' \in {call, NoCall} /\ (apc' # "idle" => call' = call)
    BY <1>18 DEF RenderFadeOut, GoTo
  <2> QED
    BY Domains, <1>18, <2>1, <2>2, <2>3 DEF RenderFadeOut, TypeInv, TypeOK, CalibratesAFile, boardVars, fadeVars, settleVars, installVars, pendingVars, workVars, boundVars, AudioLabels, Rendered
<1>19. ASSUME TypeInv, RenderFadeOutEnd PROVE TypeInv'
  <2>1. heard' \in [Pedals -> [sound : Sounds, model : Indices]]
    BY <1>19, Domains DEF RenderFadeOutEnd, Hear, Voiced, Silence, Sounds, TypeInv, TypeOK
  <2>2. fade' \in [Slots -> 0 .. 3] /\ progress' \in [Slots -> Nat]
    <3>1. progress' \in [Slots -> Nat]
      BY <1>19 DEF RenderFadeOutEnd, TypeInv, TypeOK
    <3>2. \E f \in 0 .. 3 : fade' = [fade EXCEPT ![call.slot] = f]
      BY <1>19 DEF RenderFadeOutEnd
    <3> QED
      BY <3>1, <3>2, <1>19 DEF TypeInv, TypeOK
  <2>3. /\ apc' \in {"idle", "guard"} /\ ret' = "idle"
        /\ call' \in {call, NoCall} /\ (apc' # "idle" => call' = call)
    BY <1>19 DEF RenderFadeOutEnd, GoTo, RequestSwitch
  <2> QED
    BY Domains, <1>19, <2>1, <2>2, <2>3 DEF RenderFadeOutEnd, TypeInv, TypeOK, CalibratesAFile, boardVars, fadeVars, settleVars, installVars, pendingVars, workVars, boundVars, AudioLabels, Rendered
<1>20. ASSUME TypeInv, RenderFadeIn PROVE TypeInv'
  <2>1. heard' \in [Pedals -> [sound : Sounds, model : Indices]]
    BY <1>20, Domains DEF RenderFadeIn, Hear, Voiced, Silence, Sounds, TypeInv, TypeOK
  <2>2. fade' \in [Slots -> 0 .. 3] /\ progress' \in [Slots -> Nat]
    BY <1>20 DEF RenderFadeIn, TypeInv, TypeOK
  <2>3. /\ apc' \in {"idle", "guard"} /\ ret' = "idle"
        /\ call' \in {call, NoCall} /\ (apc' # "idle" => call' = call)
    BY <1>20 DEF RenderFadeIn, GoTo
  <2> QED
    BY Domains, <1>20, <2>1, <2>2, <2>3 DEF RenderFadeIn, TypeInv, TypeOK, CalibratesAFile, boardVars, fadeVars, settleVars, installVars, pendingVars, workVars, boundVars, AudioLabels, Rendered
<1>21. ASSUME TypeInv, NEW p \in Pedals, FindInstance(p) PROVE TypeInv'
  BY <1>21, Domains DEF FindInstance, EnterCall, Free, Claimed, AudioLabels,
     TypeInv, TypeOK, CalibratesAFile, boardVars, fadeVars, settleVars, installVars, pendingVars, workVars, boundVars
<1>22. ASSUME TypeInv, NEW p \in Pedals, ClaimInstance(p) PROVE TypeInv'
  BY <1>22, Domains DEF ClaimInstance, EnterCall, Free, Claimed, AudioLabels,
     TypeInv, TypeOK, CalibratesAFile, boardVars, fadeVars, settleVars, installVars, pendingVars, workVars, boundVars
<1>23. ASSUME TypeInv, NEW p \in Pedals, ShareLastInstance(p) PROVE TypeInv'
  BY <1>23, Domains DEF ShareLastInstance, EnterCall, Free, Claimed, AudioLabels,
     TypeInv, TypeOK, CalibratesAFile, boardVars, fadeVars, settleVars, installVars, pendingVars, workVars, boundVars
<1>24. ASSUME TypeInv, NEW p \in Pedals, TurnKnob(p) PROVE TypeInv'
  BY <1>24, ConstantsAssumption DEF TurnKnob, userFrame, audioVars,
     TypeInv, TypeOK, CalibratesAFile, boardVars, fadeVars, settleVars, installVars, pendingVars, workVars, boundVars
<1>25. ASSUME TypeInv, NEW p \in Pedals, ToggleBypass(p) PROVE TypeInv'
  BY <1>25, ConstantsAssumption DEF ToggleBypass, userFrame, audioVars,
     TypeInv, TypeOK, CalibratesAFile, boardVars, fadeVars, settleVars, installVars, pendingVars, workVars, boundVars
<1>26. ASSUME TypeInv, NEW s \in Slots, WorkerStart(s) PROVE TypeInv'
  <2>1. knob_value_to_index(wraw[s]) \in Indices \cup {-2}
    BY <1>26, IndexType DEF TypeInv, TypeOK
  <2>2. ~NothingToLoad(s) => knob_value_to_index(wraw[s]) \in Indices
    BY <2>1 DEF NothingToLoad
  <2>3. wdsp' \in [Slots -> Dsp]
    <3>1. \/ wdsp' = wdsp
          \/ \E m \in Indices :
               wdsp' = [wdsp EXCEPT ![s] = [model |-> m, share |-> 0]]
      BY <1>26, <2>2 DEF WorkerStart
    <3>2. wdsp \in [Slots -> Dsp]
      BY <1>26 DEF TypeInv, TypeOK
    <3> QED
      BY <3>1, <3>2, Domains
  <2>4. /\ wpc' \in [Slots -> WorkLabels]
        /\ \A t \in Slots \ {s} : wpc'[t] = wpc[t] /\ wdsp'[t] = wdsp[t]
        /\ wpc'[s] \in {"exit", "lookup", "stage"}
    <3>1. \E l \in {"exit", "lookup", "stage"} : wpc' = [wpc EXCEPT ![s] = l]
      BY <1>26 DEF WorkerStart, WorkerGoTo
    <3>2. wpc \in [Slots -> WorkLabels] /\ wdsp \in [Slots -> Dsp]
      BY <1>26 DEF TypeInv, TypeOK
    <3>3. \A t \in Slots \ {s} : wdsp'[t] = wdsp[t]
      BY <1>26, <3>2 DEF WorkerStart
    <3> QED
      BY <3>1, <3>2, <3>3 DEF WorkLabels
  <2>5. wpc'[s] = "lookup" => wdsp'[s].model \in KnobPos
    BY <1>26, <2>2, ConstantsAssumption DEF WorkerStart, WorkerGoTo, TypeInv, TypeOK, Indices, NoModel
  <2>6. CalibratesAFile'
    BY <1>26, <2>4, <2>5 DEF TypeInv, CalibratesAFile
  <2> QED
    BY <1>26, <2>1, <2>2, <2>3, <2>4, <2>5, <2>6
    DEF WorkerStart, TypeInv, TypeOK, CalibratesAFile, boardVars, fadeVars, settleVars, installVars,
       pendingVars, workVars, boundVars, audioVars, WorkerFrame
<1>27. ASSUME TypeInv, NEW s \in Slots, WorkerLookup(s) PROVE TypeInv'
  <2>1. wdsp[s] \in Dsp /\ wdsp[s].model \in KnobPos
    BY <1>27 DEF WorkerLookup, TypeInv, TypeOK, CalibratesAFile
  <2>2. cache[wdsp[s].model].share \in 0 .. kMaxInstances
    BY <1>27, <2>1 DEF TypeInv, TypeOK
  <2>3. wdsp' \in [Slots -> Dsp] /\ \A t \in Slots : wdsp'[t].model = wdsp[t].model
    <3>1. \/ wdsp' = wdsp
          \/ \E n \in 0 .. kMaxInstances :
               wdsp' = [wdsp EXCEPT ![s] = [model |-> wdsp[s].model, share |-> n]]
      BY <1>27, <2>2 DEF WorkerLookup
    <3>2. wdsp \in [Slots -> Dsp]
      BY <1>27 DEF TypeInv, TypeOK
    <3> QED
      BY <3>1, <3>2, Domains
  <2>4. wpc' \in [Slots -> WorkLabels] /\ wepoch' \in [Slots -> Nat]
    <3>1. wpc' \in [Slots -> WorkLabels]
      <4>1. \E l \in WorkLabels : wpc' = [wpc EXCEPT ![s] = l]
        BY <1>27 DEF WorkerLookup, WorkerGoTo, WorkLabels
      <4>2. wpc \in [Slots -> WorkLabels]
        BY <1>27 DEF TypeInv, TypeOK
      <4> QED
        BY <4>1, <4>2
    <3>2. wepoch' \in [Slots -> Nat]
      BY <1>27 DEF WorkerLookup, TypeInv, TypeOK
    <3> QED
      BY <3>1, <3>2
  <2>5. CalibratesAFile'
    BY <1>27, <2>1, <2>3 DEF WorkerLookup, WorkerGoTo, TypeInv, TypeOK, CalibratesAFile
  <2> QED
    BY <1>27, <2>1, <2>2, <2>3, <2>4, <2>5
    DEF WorkerLookup, TypeInv, TypeOK, CalibratesAFile, boardVars, fadeVars, settleVars, installVars,
       pendingVars, workVars, boundVars, audioVars, WorkerFrame
<1>28. ASSUME TypeInv, NEW s \in Slots, WorkerMeasure(s) PROVE TypeInv'
  <2>1. wdsp[s] \in Dsp
    BY <1>28 DEF TypeInv, TypeOK
  <2>2. wdsp' \in [Slots -> Dsp] /\ \A t \in Slots : wdsp'[t].model = wdsp[t].model
    <3>1. wdsp[s].model \in Indices /\ ConcurrentInstances \in 0 .. kMaxInstances
      BY <2>1, ConcurrentInstancesType, Domains, ConstantsAssumption
    <3> QED
      BY <1>28, <3>1, Domains DEF WorkerMeasure, TypeInv, TypeOK
  <2>3. wpc' \in [Slots -> WorkLabels]
    BY <1>28 DEF WorkerMeasure, WorkerGoTo, WorkLabels, TypeInv, TypeOK
  <2>4. CalibratesAFile'
    BY <1>28, <2>2 DEF WorkerMeasure, WorkerGoTo, TypeInv, TypeOK, CalibratesAFile
  <2> QED
    BY <1>28, <2>1, <2>2, <2>3, <2>4
    DEF WorkerMeasure, TypeInv, TypeOK, CalibratesAFile, boardVars, fadeVars, settleVars, installVars,
       pendingVars, workVars, boundVars, audioVars, WorkerFrame
<1>29. ASSUME TypeInv, NEW s \in Slots, WorkerRemember(s) PROVE TypeInv'
  <2>1. wdsp[s] \in Dsp /\ wepoch[s] \in Int
    BY <1>29 DEF TypeInv, TypeOK
  <2>2. cache' \in [KnobPos -> [share : 0 .. kMaxInstances, epoch : Int]]
    BY <1>29, <2>1 DEF WorkerRemember, EntryEpoch, TypeInv, TypeOK, Dsp
  <2>3. wpc' \in [Slots -> WorkLabels] /\ wepoch' \in [Slots -> Nat]
    BY <1>29 DEF WorkerRemember, WorkerGoTo, WorkLabels, TypeInv, TypeOK
  <2>4. CalibratesAFile'
    BY <1>29 DEF WorkerRemember, WorkerGoTo, TypeInv, TypeOK, CalibratesAFile
  <2> QED
    BY <1>29, <2>1, <2>2, <2>3, <2>4
    DEF WorkerRemember, TypeInv, TypeOK, CalibratesAFile, boardVars, fadeVars, settleVars, installVars,
       pendingVars, workVars, boundVars, audioVars, WorkerFrame
<1>30. ASSUME TypeInv, NEW s \in Slots, WorkerStage(s) PROVE TypeInv'
  BY <1>30, Domains DEF WorkerStage, EntryEpoch, WorkerFrame, WorkerGoTo, WorkLabels,
     audioVars, TypeInv, TypeOK, CalibratesAFile, boardVars, fadeVars, settleVars, installVars, pendingVars, workVars, boundVars
<1>31. ASSUME TypeInv, NEW s \in Slots, WorkerPublish(s) PROVE TypeInv'
  BY <1>31, Domains DEF WorkerPublish, EntryEpoch, WorkerFrame, WorkerGoTo, WorkLabels,
     audioVars, TypeInv, TypeOK, CalibratesAFile, boardVars, fadeVars, settleVars, installVars, pendingVars, workVars, boundVars
<1>32. ASSUME TypeInv, NEW s \in Slots, WorkerFail(s) PROVE TypeInv'
  BY <1>32, Domains, ConstantsAssumption DEF WorkerFail, EntryEpoch, WorkerFrame, WorkerGoTo, WorkLabels,
     audioVars, TypeInv, TypeOK, CalibratesAFile, boardVars, fadeVars, settleVars, installVars, pendingVars, workVars, boundVars
<1>33. ASSUME TypeInv, NEW s \in Slots, WorkerExit(s) PROVE TypeInv'
  <2>1. /\ switching' \in [Slots -> BOOLEAN] /\ wforce' \in [Slots -> BOOLEAN]
        /\ wdsp' \in [Slots -> Dsp]
    BY <1>33, Domains DEF WorkerExit, TypeInv, TypeOK
  <2>2. wpc' \in [Slots -> WorkLabels] /\ wraw' \in [Slots -> KnobPos]
    <3>1. wpc' \in [Slots -> WorkLabels]
      BY <1>33 DEF WorkerExit, WorkerGoTo, WorkLabels, TypeInv, TypeOK
    <3>2. wraw' \in [Slots -> KnobPos]
      BY <1>33, Domains DEF WorkerExit, TypeInv, TypeOK
    <3> QED
      BY <3>1, <3>2
  <2>3. CalibratesAFile'
    BY <1>33 DEF WorkerExit, WorkerGoTo, TypeInv, TypeOK, CalibratesAFile
  <2> QED
    BY <1>33, <2>1, <2>2, <2>3
    DEF WorkerExit, TypeInv, TypeOK, CalibratesAFile, boardVars, fadeVars, settleVars, installVars,
       pendingVars, workVars, boundVars, audioVars, WorkerFrame
<1>34. ASSUME TypeInv, PreloadModels PROVE TypeInv'
  BY <1>34, ConstantsAssumption DEF PreloadModels, audioVars,
     TypeInv, TypeOK, CalibratesAFile, boardVars, fadeVars, settleVars, installVars, pendingVars, workVars, boundVars
<1>35. ASSUME TypeInv, Tick PROVE TypeInv'
  BY <1>35, ConstantsAssumption DEF Tick, audioVars,
     TypeInv, TypeOK, CalibratesAFile, boardVars, fadeVars, settleVars, installVars, pendingVars, workVars, boundVars
<1>36. ASSUME TypeInv, UNCHANGED vars PROVE TypeInv'
  BY <1>36 DEF vars,
     TypeInv, TypeOK, CalibratesAFile, boardVars, fadeVars, settleVars, installVars, pendingVars, workVars, boundVars
<1> QED
  BY <1>1, <1>2, <1>3, <1>4, <1>5, <1>6, <1>7, <1>8, <1>9, <1>10, <1>11, <1>12, <1>13, <1>14, <1>15, <1>16, <1>17, <1>18, <1>19, <1>20, <1>21, <1>22, <1>23, <1>24, <1>25, <1>26, <1>27, <1>28, <1>29, <1>30, <1>31, <1>32, <1>33, <1>34, <1>35, <1>36
  DEF Next, AudioStep, BeginBlock, WorkerStep

(* Every state of the hook has the declared types.                         *)
THEOREM TypeCorrect == Spec => []TypeOK
<1>1. TypeInv => TypeOK
  BY DEF TypeInv
<1> QED
  BY TypeInit, TypeStep, <1>1, PTL DEF Spec

-----------------------------------------------------------------------------
(***************************************************************************)
(* One core: a callback is never preempted by a thread of the hook.        *)
(***************************************************************************)

protocolVars == <<ready, fade, dsp, active, switching, pendingDsp,
                  pendingIndex, pendingReady, wpc, wdsp>>

LEMMA OneCoreInit == Init => OneCoreInv
  BY DEF Init, OneCoreInv, RenderedModelIsInstalled, LoadsOnlyUnheard,
         PendingHasOneOwner, Building, WorkLabels, NoDsp, NoModel

(* Steps that only move the audio thread, and not into a request.          *)
LEMMA OneCoreElsewhere ==
  ASSUME OneCoreInv, UNCHANGED protocolVars,
         apc' \notin {"guard", "cas"}
  PROVE  OneCoreInv'
  BY DEF OneCoreInv, RenderedModelIsInstalled, LoadsOnlyUnheard,
         PendingHasOneOwner, protocolVars

(* Threads and users move only while no call is in progress.               *)
LEMMA OneCoreStep ==
  ASSUME SMP = FALSE, TypeInv, TypeInv', OneCoreInv, [Next]_vars
  PROVE  OneCoreInv'
<1>1. CASE BumpEpoch
  BY <1>1, OneCoreElsewhere
  DEF BumpEpoch, GoTo, protocolVars, installVars, pendingVars, workVars, fadeVars,
      Rendered, TypeInv, TypeOK
<1>2. CASE EnterNotReady
  BY <1>2
  DEF EnterNotReady, GoTo, RequestSwitch, TakePending, FadeAfterSwap, MayPickUp,
     MayStartLoad, NeedsRetry, PlaysDry, Rendered, installVars, pendingVars,
     workVars, fadeVars, OneCoreInv, RenderedModelIsInstalled, LoadsOnlyUnheard,
     PendingHasOneOwner, Building, WorkLabels, TypeInv, TypeOK
<1>3. CASE EnterReady
  BY <1>3
  DEF EnterReady, GoTo, RequestSwitch, TakePending, FadeAfterSwap, MayPickUp,
     MayStartLoad, NeedsRetry, PlaysDry, Rendered, installVars, pendingVars,
     workVars, fadeVars, OneCoreInv, RenderedModelIsInstalled, LoadsOnlyUnheard,
     PendingHasOneOwner, Building, WorkLabels, TypeInv, TypeOK
<1>4. CASE RequestDebounced
  BY <1>4, OneCoreElsewhere
  DEF RequestDebounced, GoTo, protocolVars, installVars, pendingVars, workVars, fadeVars,
      Rendered, TypeInv, TypeOK
<1>5. CASE RequestPreload
  BY <1>5, OneCoreElsewhere
  DEF RequestPreload, GoTo, protocolVars, installVars, pendingVars, workVars, fadeVars,
      Rendered, TypeInv, TypeOK
<1>6. CASE RequestBlocked
  BY <1>6, OneCoreElsewhere
  DEF RequestBlocked, GoTo, protocolVars, installVars, pendingVars, workVars, fadeVars,
      Rendered, TypeInv, TypeOK
<1>7. CASE RequestAllowed
  BY <1>7
  DEF RequestAllowed, GoTo, RequestSwitch, TakePending, FadeAfterSwap, MayPickUp,
     MayStartLoad, NeedsRetry, PlaysDry, Rendered, installVars, pendingVars,
     workVars, fadeVars, OneCoreInv, RenderedModelIsInstalled, LoadsOnlyUnheard,
     PendingHasOneOwner, Building, WorkLabels, TypeInv, TypeOK
<1>8. CASE CasLost
  BY <1>8, OneCoreElsewhere
  DEF CasLost, GoTo, protocolVars, installVars, pendingVars, workVars, fadeVars,
      Rendered, TypeInv, TypeOK
<1>9. CASE CasWon
  <2> DEFINE s == call.slot
  <2>1. /\ s \in Slots /\ ~pendingReady[s] /\ (~ready[s] \/ fade[s] = 3)
        /\ UNCHANGED <<ready, fade, dsp, active, pendingDsp, pendingIndex,
                       pendingReady>>
        /\ switching' = [switching EXCEPT ![s] = TRUE]
    BY <1>9 DEF CasWon, OneCoreInv, TypeInv, TypeOK, installVars, pendingVars,
                fadeVars
  <2>2. (wpc' = wpc \/ wpc' = [wpc EXCEPT ![s] = "start"]) /\ wdsp' = wdsp
    BY <1>9 DEF CasWon, Spawn, StartWorker, workVars
  <2>3. apc' \notin {"guard", "cas"}
    BY <1>9 DEF CasWon, GoTo, TypeInv, TypeOK
  <2>4. \A t \in Slots : t # s => wpc'[t] = wpc[t] /\ switching'[t] = switching[t]
    BY <2>1, <2>2 DEF TypeInv, TypeOK
  <2>5. switching'[s] /\ wpc'[s] \in {wpc[s], "start"}
    BY <2>1, <2>2 DEF TypeInv, TypeOK
  <2>6. RenderedModelIsInstalled'
    BY <2>1 DEF OneCoreInv, RenderedModelIsInstalled
  <2>7. LoadsOnlyUnheard'
    BY <2>1, <2>4 DEF OneCoreInv, LoadsOnlyUnheard
  <2>8. PendingHasOneOwner'
    BY <2>1, <2>4, <2>5 DEF OneCoreInv, PendingHasOneOwner
  <2>9. \A t \in Slots : wpc'[t] = "publish" => pendingDsp'[t] = wdsp'[t]
    BY <2>1, <2>2, <2>4, <2>5 DEF OneCoreInv
  <2>10. \A t \in Slots : ~ready'[t] => fade'[t] = 0
    BY <2>1 DEF OneCoreInv
  <2> QED
    BY <2>3, <2>6, <2>7, <2>8, <2>9, <2>10 DEF OneCoreInv
<1>10. CASE SafetyNet
  BY <1>10
  DEF SafetyNet, GoTo, RequestSwitch, TakePending, FadeAfterSwap, MayPickUp,
     MayStartLoad, NeedsRetry, PlaysDry, Rendered, installVars, pendingVars,
     workVars, fadeVars, OneCoreInv, RenderedModelIsInstalled, LoadsOnlyUnheard,
     PendingHasOneOwner, Building, WorkLabels, TypeInv, TypeOK
<1>11. CASE NothingToPickUp
  BY <1>11, OneCoreElsewhere
  DEF NothingToPickUp, GoTo, protocolVars, installVars, pendingVars, workVars, fadeVars,
      Rendered, TypeInv, TypeOK
<1>12. CASE DropStaleLoad
  <2> DEFINE s == call.slot
  <2>1. /\ s \in Slots /\ ready[s] /\ pendingReady[s]
        /\ pendingDsp' = [pendingDsp EXCEPT ![s] = NoDsp]
        /\ pendingReady' = [pendingReady EXCEPT ![s] = FALSE]
        /\ UNCHANGED <<ready, fade, dsp, active, pendingIndex, switching, wpc,
                       wdsp, call>>
        /\ apc' = "guard"
    BY <1>12 DEF DropStaleLoad, PendingStale, MayPickUp, RequestSwitch,
                 installVars, fadeVars, workVars, TypeInv, TypeOK
  <2>2. fade[s] = 3 /\ wpc[s] \in {"off", "exit"}
    BY <2>1 DEF OneCoreInv, LoadsOnlyUnheard, PendingHasOneOwner
  <2>3. /\ \A t \in Slots : pendingReady'[t] => pendingReady[t] /\ t # s
        /\ \A t \in Slots : t # s => pendingDsp'[t] = pendingDsp[t]
    BY <2>1 DEF TypeInv, TypeOK
  <2>4. RenderedModelIsInstalled'
    BY <2>1, <2>3 DEF OneCoreInv, RenderedModelIsInstalled
  <2>5. LoadsOnlyUnheard' /\ PendingHasOneOwner'
    BY <2>1, <2>3 DEF OneCoreInv, LoadsOnlyUnheard, PendingHasOneOwner
  <2>6. \A t \in Slots : wpc'[t] = "publish" => pendingDsp'[t] = wdsp'[t]
    BY <2>1, <2>2, <2>3 DEF OneCoreInv
  <2>7. \A t \in Slots : ~ready'[t] => fade'[t] = 0
    BY <2>1 DEF OneCoreInv
  <2> QED
    BY <2>1, <2>2, <2>4, <2>5, <2>6, <2>7 DEF OneCoreInv
<1>13. CASE InstallFirst
  <2> DEFINE s == call.slot
  <2>1. s \in Slots /\ pendingReady[s] /\ fade[s] \in {0, 3}
    BY <1>13 DEF InstallFirst, MayPickUp, TypeInv, TypeOK
  <2>2. /\ fade' = fade /\ ~ready[s]
        /\ dsp' = [dsp EXCEPT ![s] = pendingDsp[s]]
        /\ active' = [active EXCEPT ![s] = pendingIndex[s]]
        /\ pendingReady' = [pendingReady EXCEPT ![s] = FALSE]
        /\ ready' = [ready EXCEPT ![s] = TRUE]
        /\ pendingDsp' = [pendingDsp EXCEPT ![s] = NoDsp]
        /\ UNCHANGED <<pendingIndex, switching, wpc, wdsp>>
        /\ apc' = "render"
    BY <1>13 DEF InstallFirst, TakePending, GoTo, workVars
  <2>3. wpc[s] \in {"off", "exit"} /\ pendingDsp[s].model = pendingIndex[s]
    BY <2>1 DEF OneCoreInv, PendingHasOneOwner, RenderedModelIsInstalled
  <2>4. RenderedModelIsInstalled'
    <3>1. pendingIndex[s] \in Int /\ pendingIndex[s] >= -1
      BY <2>1, IndicesAreIntegers DEF TypeInv, TypeOK
    <3>2. \A t \in Slots : dsp'[t].model = active'[t]
      BY <2>1, <2>2, <2>3 DEF OneCoreInv, RenderedModelIsInstalled, TypeInv, TypeOK
    <3>3. \A t \in Slots : fade'[t] = 2 => active'[t] >= 0
      BY <2>1, <2>2, <3>1 DEF OneCoreInv, RenderedModelIsInstalled, TypeInv, TypeOK
    <3>4. \A t \in Slots : pendingReady'[t] => pendingDsp'[t].model = pendingIndex'[t]
      BY <2>1, <2>2 DEF OneCoreInv, RenderedModelIsInstalled, TypeInv, TypeOK
    <3> QED
      BY <3>2, <3>3, <3>4 DEF RenderedModelIsInstalled
  <2>5. LoadsOnlyUnheard' /\ PendingHasOneOwner'
    BY <2>1, <2>2, <2>3 DEF OneCoreInv, LoadsOnlyUnheard, PendingHasOneOwner,
       Building, WorkLabels, TypeInv, TypeOK
  <2>6. /\ \A t \in Slots : wpc'[t] = "publish" => pendingDsp'[t] = wdsp'[t]
        /\ \A t \in Slots : ~ready'[t] => fade'[t] = 0
    BY <2>1, <2>2, <2>3 DEF OneCoreInv, TypeInv, TypeOK
  <2> QED
    BY <2>2, <2>4, <2>5, <2>6 DEF OneCoreInv
<1>14. CASE InstallNext
  <2> DEFINE s == call.slot
  <2>1. s \in Slots /\ pendingReady[s] /\ fade[s] \in {0, 3}
    BY <1>14 DEF InstallNext, MayPickUp, TypeInv, TypeOK
  <2>2. /\ fade' = [fade EXCEPT ![s] = IF pendingIndex[s] < 0 THEN 0 ELSE 2]
        /\ dsp' = [dsp EXCEPT ![s] = pendingDsp[s]]
        /\ active' = [active EXCEPT ![s] = pendingIndex[s]]
        /\ pendingReady' = [pendingReady EXCEPT ![s] = FALSE]
        /\ ready' = [ready EXCEPT ![s] = TRUE]
        /\ pendingDsp' = [pendingDsp EXCEPT ![s] = NoDsp]
        /\ UNCHANGED <<pendingIndex, switching, wpc, wdsp>>
        /\ apc' = "render"
    BY <1>14 DEF InstallNext, TakePending, GoTo, workVars, FadeAfterSwap
  <2>3. wpc[s] \in {"off", "exit"} /\ pendingDsp[s].model = pendingIndex[s]
    BY <2>1 DEF OneCoreInv, PendingHasOneOwner, RenderedModelIsInstalled
  <2>4. RenderedModelIsInstalled'
    <3>1. pendingIndex[s] \in Int /\ pendingIndex[s] >= -1
      BY <2>1, IndicesAreIntegers DEF TypeInv, TypeOK
    <3>2. \A t \in Slots : dsp'[t].model = active'[t]
      BY <2>1, <2>2, <2>3 DEF OneCoreInv, RenderedModelIsInstalled, TypeInv, TypeOK
    <3>3. \A t \in Slots : fade'[t] = 2 => active'[t] >= 0
      BY <2>1, <2>2, <3>1 DEF OneCoreInv, RenderedModelIsInstalled, TypeInv, TypeOK
    <3>4. \A t \in Slots : pendingReady'[t] => pendingDsp'[t].model = pendingIndex'[t]
      BY <2>1, <2>2 DEF OneCoreInv, RenderedModelIsInstalled, TypeInv, TypeOK
    <3> QED
      BY <3>2, <3>3, <3>4 DEF RenderedModelIsInstalled
  <2>5. LoadsOnlyUnheard' /\ PendingHasOneOwner'
    BY <2>1, <2>2, <2>3 DEF OneCoreInv, LoadsOnlyUnheard, PendingHasOneOwner,
       Building, WorkLabels, TypeInv, TypeOK
  <2>6. /\ \A t \in Slots : wpc'[t] = "publish" => pendingDsp'[t] = wdsp'[t]
        /\ \A t \in Slots : ~ready'[t] => fade'[t] = 0
    BY <2>1, <2>2, <2>3 DEF OneCoreInv, TypeInv, TypeOK
  <2> QED
    BY <2>2, <2>4, <2>5, <2>6 DEF OneCoreInv
<1>15. CASE RenderDry
  BY <1>15, OneCoreElsewhere
  DEF RenderDry, GoTo, protocolVars, installVars, pendingVars, workVars, fadeVars,
      Rendered, TypeInv, TypeOK
<1>16. CASE RenderSteady
  BY <1>16, OneCoreElsewhere
  DEF RenderSteady, GoTo, protocolVars, installVars, pendingVars, workVars, fadeVars,
      Rendered, TypeInv, TypeOK
<1>17. CASE RenderMuted
  BY <1>17, OneCoreElsewhere
  DEF RenderMuted, GoTo, protocolVars, installVars, pendingVars, workVars, fadeVars,
      Rendered, TypeInv, TypeOK
<1>18. CASE RenderFadeOut
  BY <1>18, OneCoreElsewhere
  DEF RenderFadeOut, GoTo, protocolVars, installVars, pendingVars, workVars, fadeVars,
      Rendered, TypeInv, TypeOK
<1>19. CASE RenderFadeOutEnd
  <2> DEFINE s == call.slot
  <2>1. s \in Slots /\ ready[s] /\ fade[s] = 1
    BY <1>19 DEF RenderFadeOutEnd, PlaysDry, TypeInv, TypeOK
  <2>2. UNCHANGED <<ready, dsp, active, pendingDsp, pendingIndex, pendingReady,
                    switching, wpc, wdsp>>
    BY <1>19 DEF RenderFadeOutEnd, Rendered, installVars, pendingVars, workVars
  <2>3. wpc[s] \notin Building /\ ~pendingReady[s]
    BY <2>1 DEF OneCoreInv, LoadsOnlyUnheard
  <2>4. CASE /\ fade' = [fade EXCEPT ![s] = IF active[s] < 0 THEN 0 ELSE 2]
             /\ apc' = "idle"
    <3>1. active[s] \in Int /\ active[s] >= -1
      BY <2>1, IndicesAreIntegers DEF TypeInv, TypeOK
    <3>2. \A t \in Slots : t # s => fade'[t] = fade[t]
      BY <2>4 DEF TypeInv, TypeOK
    <3>3. fade'[s] = 2 => active[s] >= 0
      BY <2>1, <2>4, <3>1 DEF TypeInv, TypeOK
    <3>4. RenderedModelIsInstalled'
      BY <2>2, <3>2, <3>3 DEF OneCoreInv, RenderedModelIsInstalled
    <3>5. LoadsOnlyUnheard' /\ PendingHasOneOwner'
      BY <2>2, <2>3, <3>2 DEF OneCoreInv, LoadsOnlyUnheard, PendingHasOneOwner
    <3>6. /\ \A t \in Slots : wpc'[t] = "publish" => pendingDsp'[t] = wdsp'[t]
          /\ \A t \in Slots : ~ready'[t] => fade'[t] = 0
      BY <2>1, <2>2, <3>2 DEF OneCoreInv
    <3> QED
      BY <2>4, <3>4, <3>5, <3>6 DEF OneCoreInv
  <2>5. CASE /\ fade' = [fade EXCEPT ![s] = 3]
             /\ apc' = "guard" /\ call' = call
    BY <2>1, <2>2, <2>3, <2>5
    DEF OneCoreInv, RenderedModelIsInstalled, LoadsOnlyUnheard,
        PendingHasOneOwner, TypeInv, TypeOK
  <2> QED
    BY <1>19, <2>4, <2>5 DEF RenderFadeOutEnd, GoTo, RequestSwitch
<1>20. CASE RenderFadeIn
  BY <1>20
  DEF RenderFadeIn, GoTo, RequestSwitch, TakePending, FadeAfterSwap, MayPickUp,
     MayStartLoad, NeedsRetry, PlaysDry, Rendered, installVars, pendingVars,
     workVars, fadeVars, OneCoreInv, RenderedModelIsInstalled, LoadsOnlyUnheard,
     PendingHasOneOwner, Building, WorkLabels, TypeInv, TypeOK
<1>21. ASSUME NEW p \in Pedals, FindInstance(p) PROVE OneCoreInv'
  BY <1>21, OneCoreElsewhere
  DEF FindInstance, EnterCall, protocolVars, installVars, pendingVars, workVars, fadeVars
<1>22. ASSUME NEW p \in Pedals, ClaimInstance(p) PROVE OneCoreInv'
  BY <1>22, OneCoreElsewhere
  DEF ClaimInstance, EnterCall, protocolVars, installVars, pendingVars, workVars, fadeVars
<1>23. ASSUME NEW p \in Pedals, ShareLastInstance(p) PROVE OneCoreInv'
  BY <1>23, OneCoreElsewhere
  DEF ShareLastInstance, EnterCall, protocolVars, installVars, pendingVars, workVars, fadeVars
<1>24. ASSUME NEW p \in Pedals, TurnKnob(p) PROVE OneCoreInv'
  BY <1>24, OneCoreElsewhere
  DEF TurnKnob, Preemptible, userFrame, audioVars, protocolVars, installVars,
      pendingVars, workVars, fadeVars
<1>25. ASSUME NEW p \in Pedals, ToggleBypass(p) PROVE OneCoreInv'
  BY <1>25, OneCoreElsewhere
  DEF ToggleBypass, Preemptible, userFrame, audioVars, protocolVars, installVars,
      pendingVars, workVars, fadeVars
<1>26. ASSUME NEW s \in Slots, WorkerStart(s) PROVE OneCoreInv'
  <2>1. /\ apc = "idle" /\ wpc[s] = "start"
        /\ UNCHANGED <<apc, call, ready, fade, dsp, active, switching,
                       pendingDsp, pendingIndex, pendingReady>>
    BY <1>26 DEF WorkerStart, Preemptible, WorkerFrame, audioVars, installVars,
                 pendingVars, fadeVars
  <2>2. \E l \in {"exit", "lookup", "stage"} : wpc' = [wpc EXCEPT ![s] = l]
    BY <1>26 DEF WorkerStart, WorkerGoTo
  <2>3. \A t \in Slots : t # s => wdsp'[t] = wdsp[t]
    BY <1>26 DEF WorkerStart, TypeInv, TypeOK
  <2> QED
    BY <2>1, <2>2, <2>3
    DEF OneCoreInv, RenderedModelIsInstalled, LoadsOnlyUnheard,
        PendingHasOneOwner, TypeInv, TypeOK, Building, WorkLabels
<1>27. ASSUME NEW s \in Slots, WorkerLookup(s) PROVE OneCoreInv'
  <2>1. /\ apc = "idle" /\ wpc[s] = "lookup"
        /\ UNCHANGED <<apc, call, ready, fade, dsp, active, switching,
                       pendingDsp, pendingIndex, pendingReady>>
    BY <1>27 DEF WorkerLookup, Preemptible, WorkerFrame, audioVars, installVars,
                 pendingVars, fadeVars
  <2>2. \E l \in {"bench", "stage"} : wpc' = [wpc EXCEPT ![s] = l]
    BY <1>27 DEF WorkerLookup, WorkerGoTo
  <2>3. \A t \in Slots : t # s => wdsp'[t] = wdsp[t]
    BY <1>27 DEF WorkerLookup, TypeInv, TypeOK
  <2> QED
    BY <2>1, <2>2, <2>3
    DEF OneCoreInv, RenderedModelIsInstalled, LoadsOnlyUnheard,
        PendingHasOneOwner, TypeInv, TypeOK, Building, WorkLabels
<1>28. ASSUME NEW s \in Slots, WorkerMeasure(s) PROVE OneCoreInv'
  BY <1>28, SMP = FALSE
  DEF WorkerMeasure, Preemptible, WorkerGoTo, WorkerFrame, audioVars, installVars,
     pendingVars, fadeVars, OneCoreInv, RenderedModelIsInstalled, LoadsOnlyUnheard,
     PendingHasOneOwner, Building, WorkLabels, TypeInv, TypeOK
<1>29. ASSUME NEW s \in Slots, WorkerRemember(s) PROVE OneCoreInv'
  BY <1>29, SMP = FALSE
  DEF WorkerRemember, Preemptible, WorkerGoTo, WorkerFrame, audioVars, installVars,
     pendingVars, fadeVars, OneCoreInv, RenderedModelIsInstalled, LoadsOnlyUnheard,
     PendingHasOneOwner, Building, WorkLabels, TypeInv, TypeOK
<1>30. ASSUME NEW s \in Slots, WorkerStage(s) PROVE OneCoreInv'
  BY <1>30, SMP = FALSE
  DEF WorkerStage, Preemptible, WorkerGoTo, WorkerFrame, audioVars, installVars,
     pendingVars, fadeVars, OneCoreInv, RenderedModelIsInstalled, LoadsOnlyUnheard,
     PendingHasOneOwner, Building, WorkLabels, TypeInv, TypeOK
<1>31. ASSUME NEW s \in Slots, WorkerPublish(s) PROVE OneCoreInv'
  BY <1>31, SMP = FALSE
  DEF WorkerPublish, Preemptible, WorkerGoTo, WorkerFrame, audioVars, installVars,
     pendingVars, fadeVars, OneCoreInv, RenderedModelIsInstalled, LoadsOnlyUnheard,
     PendingHasOneOwner, Building, WorkLabels, TypeInv, TypeOK
<1>32. ASSUME NEW s \in Slots, WorkerFail(s) PROVE OneCoreInv'
  BY <1>32, SMP = FALSE
  DEF WorkerFail, Preemptible, WorkerGoTo, WorkerFrame, audioVars, installVars,
     pendingVars, fadeVars, OneCoreInv, RenderedModelIsInstalled, LoadsOnlyUnheard,
     PendingHasOneOwner, Building, WorkLabels, TypeInv, TypeOK
<1>33. ASSUME NEW s \in Slots, WorkerExit(s) PROVE OneCoreInv'
  BY <1>33, SMP = FALSE
  DEF WorkerExit, Preemptible, WorkerGoTo, WorkerFrame, audioVars, installVars,
     pendingVars, fadeVars, OneCoreInv, RenderedModelIsInstalled, LoadsOnlyUnheard,
     PendingHasOneOwner, Building, WorkLabels, TypeInv, TypeOK
<1>34. CASE PreloadModels
  BY <1>34, OneCoreElsewhere
  DEF PreloadModels, Preemptible, audioVars, protocolVars, installVars, pendingVars,
      workVars, fadeVars
<1>35. CASE Tick
  BY <1>35, OneCoreElsewhere
  DEF Tick, Preemptible, audioVars, protocolVars, installVars, pendingVars,
      workVars, fadeVars
<1>36. CASE UNCHANGED vars
  BY <1>36
  DEF vars, installVars, pendingVars, workVars, fadeVars, OneCoreInv,
      RenderedModelIsInstalled, LoadsOnlyUnheard, PendingHasOneOwner
<1> QED
  BY <1>1, <1>2, <1>3, <1>4, <1>5, <1>6, <1>7, <1>8, <1>9, <1>10, <1>11, <1>12, <1>13, <1>14, <1>15, <1>16, <1>17, <1>18, <1>19, <1>20, <1>21, <1>22, <1>23, <1>24, <1>25, <1>26, <1>27, <1>28, <1>29, <1>30, <1>31, <1>32, <1>33, <1>34, <1>35, <1>36
  DEF Next, AudioStep, BeginBlock, WorkerStep

(* Where no thread of the hook can preempt a callback, the three protocol  *)
(* invariants hold in every state, for any board and any folder.           *)
THEOREM OneCore == (SMP = FALSE) => (Spec => []OneCoreInv)
<1> SUFFICES ASSUME SMP = FALSE
             PROVE  Spec => []OneCoreInv
  OBVIOUS
<1>1. TypeInv /\ [Next]_vars => TypeInv'
  BY TypeStep
<1>2. TypeInv /\ TypeInv' /\ OneCoreInv /\ [Next]_vars => OneCoreInv'
  BY OneCoreStep
<1> QED
  BY TypeInit, OneCoreInit, <1>1, <1>2, PTL DEF Spec

(* The load thread works for unheard instances only.                       *)
THEOREM LoadsMeetSilence == (SMP = FALSE) => (Spec => []LoadsOnlyUnheard)
<1>1. OneCoreInv => LoadsOnlyUnheard
  BY DEF OneCoreInv
<1> QED
  BY OneCore, <1>1, PTL

(* pending_dsp and pending_index never have two owners.                    *)
THEOREM PendingOwned == (SMP = FALSE) => (Spec => []PendingHasOneOwner)
<1>1. OneCoreInv => PendingHasOneOwner
  BY DEF OneCoreInv
<1> QED
  BY OneCore, <1>1, PTL

(* The render code never dereferences a null DSP.                          *)
THEOREM NoNullDsp == (SMP = FALSE) => (Spec => []RenderedModelIsInstalled)
<1>1. OneCoreInv => RenderedModelIsInstalled
  BY DEF OneCoreInv
<1> QED
  BY OneCore, <1>1, PTL

-----------------------------------------------------------------------------
(***************************************************************************)
(* The calibration cache under any interleaving, one core or several: the  *)
(* epoch a benchmark is tagged with never exceeds the number of instances  *)
(* it was measured for.  The point is the order in which a joining pedal   *)
(* claims its slot (first) and bumps the epoch (second), and in which a    *)
(* load reads the epoch (first) and counts the instances (second).         *)
(***************************************************************************)

TierInv ==
  /\ epoch <= Cardinality(Claimed)
  /\ apc = "bump" => epoch + 1 <= Cardinality(Claimed)
  /\ \A s \in Slots : wpc[s] = "bench" => wepoch[s] <= epoch
  /\ \A s \in Slots : wpc[s] = "store" => wepoch[s] <= wdsp[s].share
  /\ CalibrationCoversItsEpoch

LEMMA TierInit == Init => TierInv
<1> SUFFICES ASSUME Init
             PROVE  TierInv
  OBVIOUS
<1>1. Claimed = {}
  BY DEF Init, Claimed
<1>2. Cardinality(Claimed) = 0
  BY <1>1, FS_EmptySet
<1> QED
  BY <1>2 DEF Init, TierInv, CalibrationCoversItsEpoch

(* Steps that touch neither the slots' owners, nor the epoch, nor the      *)
(* cache, nor a load.                                                      *)
LEMMA TierElsewhere ==
  ASSUME TierInv, UNCHANGED <<owner, epoch, cache, wpc, wepoch, wdsp>>,
         apc' = "bump" => apc = "bump"
  PROVE  TierInv'
<1>1. Cardinality(Claimed)' = Cardinality(Claimed)
  BY DEF Claimed
<1> QED
  BY <1>1 DEF TierInv, CalibrationCoversItsEpoch

(* Steps of the load thread of slot s that leave the cache alone.          *)
LEMMA TierWork ==
  ASSUME TypeInv, TierInv, NEW s \in Slots, NEW l \in WorkLabels,
         UNCHANGED <<owner, epoch, cache, apc>>,
         wpc' = [wpc EXCEPT ![s] = l],
         \A t \in Slots \ {s} : wepoch'[t] = wepoch[t] /\ wdsp'[t] = wdsp[t],
         l = "bench" => wepoch'[s] <= epoch,
         l = "store" => wepoch'[s] <= wdsp'[s].share
  PROVE  TierInv'
<1>1. Cardinality(Claimed)' = Cardinality(Claimed)
  BY DEF Claimed
<1>2. \A t \in Slots : wpc'[t] = IF t = s THEN l ELSE wpc[t]
  BY DEF TypeInv, TypeOK
<1>3. \A t \in Slots : wpc'[t] = "bench" => wepoch'[t] <= epoch'
  BY <1>2 DEF TierInv
<1>4. \A t \in Slots : wpc'[t] = "store" => wepoch'[t] <= wdsp'[t].share
  BY <1>2 DEF TierInv
<1> QED
  BY <1>1, <1>3, <1>4 DEF TierInv, CalibrationCoversItsEpoch

LEMMA TierClaim ==
  ASSUME TypeInv, TierInv, NEW p \in Pedals, ClaimInstance(p)
  PROVE  TierInv'
<1> PICK s \in Free : /\ EnterCall(p, s, "bump")
                      /\ owner' = [owner EXCEPT ![s] = p]
  BY DEF ClaimInstance
<1>1. /\ s \in Slots /\ owner[s] = NoPedal /\ s \notin Claimed
      /\ p # NoPedal
  BY ConstantsAssumption DEF Free, Claimed
<1>2. Claimed' = Claimed \cup {s}
  BY <1>1 DEF Claimed, TypeInv, TypeOK
<1>3. Cardinality(Claimed') = Cardinality(Claimed) + 1
  BY <1>1, <1>2, ConcurrentInstancesType, FS_AddElement
<1>4. UNCHANGED <<epoch, cache, wpc, wepoch, wdsp>>
  BY DEF EnterCall, workVars
<1> QED
  BY <1>3, <1>4, ConcurrentInstancesType
  DEF TierInv, CalibrationCoversItsEpoch, TypeInv, TypeOK

LEMMA TierMeasure ==
  ASSUME TypeInv, TierInv, NEW s \in Slots, WorkerMeasure(s)
  PROVE  TierInv'
<1>1. /\ wpc[s] = "bench" /\ wpc' = [wpc EXCEPT ![s] = "store"]
      /\ UNCHANGED <<owner, epoch, cache, apc, wepoch>>
  BY DEF WorkerMeasure, WorkerGoTo, WorkerFrame, audioVars
<1>2. /\ wdsp'[s].share = ConcurrentInstances
      /\ \A t \in Slots \ {s} : wdsp'[t] = wdsp[t]
  BY DEF WorkerMeasure, TypeInv, TypeOK
<1>3. wepoch[s] <= epoch /\ epoch <= Cardinality(Claimed)
  BY <1>1 DEF TierInv
<1>4. wepoch[s] <= ConcurrentInstances
  BY <1>3, ConcurrentInstancesType DEF TypeInv, TypeOK
<1> QED
  BY <1>1, <1>2, <1>4, TierWork DEF WorkLabels

LEMMA TierRemember ==
  ASSUME TypeInv, TierInv, NEW s \in Slots, WorkerRemember(s)
  PROVE  TierInv'
<1> DEFINE m == wdsp[s].model
<1>1. /\ wpc[s] = "store" /\ wpc' = [wpc EXCEPT ![s] = "stage"]
      /\ UNCHANGED <<owner, epoch, apc, wdsp>>
      /\ wepoch' = [wepoch EXCEPT ![s] = 0]
      /\ cache' = [cache EXCEPT ![m] = [share |-> wdsp[s].share,
                                        epoch |-> wepoch[s]]]
  BY DEF WorkerRemember, EntryEpoch, WorkerGoTo, WorkerFrame, audioVars
<1>2. wepoch[s] <= wdsp[s].share
  BY <1>1 DEF TierInv
<1>3. CalibrationCoversItsEpoch'
  BY <1>1, <1>2 DEF TierInv, CalibrationCoversItsEpoch, TypeInv, TypeOK
<1>4. Cardinality(Claimed)' = Cardinality(Claimed)
  BY <1>1 DEF Claimed
<1>5. \A t \in Slots : wpc'[t] = IF t = s THEN "stage" ELSE wpc[t]
  BY <1>1 DEF TypeInv, TypeOK
<1>6. \A t \in Slots \ {s} : wepoch'[t] = wepoch[t]
  BY <1>1 DEF TypeInv, TypeOK
<1> QED
  BY <1>1, <1>3, <1>4, <1>5, <1>6 DEF TierInv

LEMMA TierStep ==
  ASSUME TypeInv, TierInv, [Next]_vars
  PROVE  TierInv'
<1>1. CASE BumpEpoch
  <2>1. Cardinality(Claimed)' = Cardinality(Claimed)
    BY <1>1 DEF BumpEpoch, Claimed
  <2>2. /\ epoch' = epoch + 1 /\ apc = "bump" /\ apc' = "enter"
        /\ UNCHANGED <<cache, wpc, wepoch, wdsp>>
    BY <1>1 DEF BumpEpoch, GoTo, workVars
  <2>3. epoch \in Int /\ wepoch \in [Slots -> Int]
    BY DEF TypeInv, TypeOK
  <2>4. \A s \in Slots : wpc'[s] = "bench" => wepoch'[s] <= epoch'
    BY <2>2, <2>3 DEF TierInv
  <2> QED
    BY <2>1, <2>2, <2>4 DEF TierInv, CalibrationCoversItsEpoch
<1>2. CASE AudioStep /\ ~BumpEpoch /\ ~CasWon
  <2>1. UNCHANGED <<owner, epoch, cache, wpc, wepoch, wdsp>>
    BY <1>2 DEF AudioStep, EnterNotReady, EnterReady, RequestDebounced,
       RequestPreload, RequestBlocked, RequestAllowed, CasLost, SafetyNet,
       NothingToPickUp, DropStaleLoad, InstallFirst, InstallNext, RenderDry,
       RenderSteady, RenderMuted, RenderFadeOut, RenderFadeOutEnd,
       RenderFadeIn, Rendered, workVars
  <2>2. apc' # "bump"
    BY <1>2 DEF AudioStep, EnterNotReady, EnterReady, RequestDebounced,
       RequestPreload, RequestBlocked, RequestAllowed, CasLost, SafetyNet,
       NothingToPickUp, DropStaleLoad, InstallFirst, InstallNext, RenderDry,
       RenderSteady, RenderMuted, RenderFadeOut, RenderFadeOutEnd,
       RenderFadeIn, GoTo, RequestSwitch, TypeInv, TypeOK
  <2> QED
    BY <2>1, <2>2, TierElsewhere
<1>3. CASE CasWon
  <2>1. /\ UNCHANGED <<owner, epoch, cache, wepoch, wdsp>>
        /\ apc' # "bump"
        /\ call.slot \in Slots
        /\ wpc' = wpc \/ wpc' = [wpc EXCEPT ![call.slot] = "start"]
    BY <1>3 DEF CasWon, Spawn, StartWorker, GoTo, workVars, TypeInv, TypeOK
  <2>2. \A t \in Slots : wpc'[t] \in {wpc[t], "start"}
    BY <2>1 DEF TypeInv, TypeOK
  <2>3. Cardinality(Claimed)' = Cardinality(Claimed)
    BY <2>1 DEF Claimed
  <2> QED
    BY <2>1, <2>2, <2>3 DEF TierInv, CalibrationCoversItsEpoch
<1>4. ASSUME NEW p \in Pedals, BeginBlock(p) PROVE TierInv'
  <2>1. CASE ClaimInstance(p)
    BY <2>1, TierClaim
  <2>2. CASE FindInstance(p) \/ ShareLastInstance(p)
    BY <2>2, TierElsewhere
    DEF FindInstance, ShareLastInstance, EnterCall, workVars
  <2> QED
    BY <1>4, <2>1, <2>2 DEF BeginBlock
<1>5. ASSUME NEW p \in Pedals, TurnKnob(p) \/ ToggleBypass(p) PROVE TierInv'
  BY <1>5, TierElsewhere
  DEF TurnKnob, ToggleBypass, userFrame, audioVars, workVars
<1>6. ASSUME NEW s \in Slots, WorkerStep(s) \/ WorkerFail(s) PROVE TierInv'
  <2>1. CASE WorkerStart(s)
    <3>1. /\ UNCHANGED <<owner, epoch, cache, apc, wepoch>>
          /\ \A t \in Slots \ {s} : wdsp'[t] = wdsp[t]
          /\ \E l \in {"exit", "lookup", "stage"} : wpc' = [wpc EXCEPT ![s] = l]
      BY <2>1 DEF WorkerStart, WorkerGoTo, WorkerFrame, audioVars, TypeInv, TypeOK
    <3> QED
      BY <3>1, TierWork DEF WorkLabels
  <2>2. CASE WorkerLookup(s)
    <3>1. /\ UNCHANGED <<owner, epoch, cache, apc>>
          /\ \A t \in Slots \ {s} : wepoch'[t] = wepoch[t] /\ wdsp'[t] = wdsp[t]
          /\ \/ wpc' = [wpc EXCEPT ![s] = "stage"]
             \/ wpc' = [wpc EXCEPT ![s] = "bench"] /\ wepoch'[s] = epoch
      BY <2>2 DEF WorkerLookup, WorkerGoTo, WorkerFrame, audioVars, TypeInv, TypeOK
    <3>2. epoch <= epoch
      BY DEF TypeInv, TypeOK
    <3> QED
      BY <3>1, <3>2, TierWork DEF WorkLabels
  <2>3. CASE WorkerMeasure(s)
    BY <2>3, TierMeasure
  <2>4. CASE WorkerRemember(s)
    BY <2>4, TierRemember
  <2>5. CASE WorkerStage(s) \/ WorkerPublish(s)
    <3>1. /\ UNCHANGED <<owner, epoch, cache, apc, wepoch, wdsp>>
          /\ \E l \in {"publish", "exit"} : wpc' = [wpc EXCEPT ![s] = l]
      BY <2>5 DEF WorkerStage, WorkerPublish, WorkerGoTo, WorkerFrame, audioVars
    <3> QED
      BY <3>1, TierWork DEF WorkLabels
  <2>6. CASE WorkerFail(s) \/ WorkerExit(s)
    <3>1. /\ UNCHANGED <<owner, epoch, cache, apc>>
          /\ \A t \in Slots \ {s} : wepoch'[t] = wepoch[t] /\ wdsp'[t] = wdsp[t]
          /\ \E l \in {"exit", "off"} : wpc' = [wpc EXCEPT ![s] = l]
      BY <2>6 DEF WorkerFail, WorkerExit, WorkerGoTo, WorkerFrame, audioVars,
                  TypeInv, TypeOK
    <3> QED
      BY <3>1, TierWork DEF WorkLabels
  <2> QED
    BY <1>6, <2>1, <2>2, <2>3, <2>4, <2>5, <2>6 DEF WorkerStep
<1>7. CASE PreloadModels
  <2>1. /\ UNCHANGED <<owner, epoch, apc, wpc, wepoch, wdsp>>
        /\ cache' = [m \in KnobPos |-> [share |-> 0, epoch |-> -1]]
    BY <1>7 DEF PreloadModels, audioVars, workVars
  <2>2. Cardinality(Claimed)' = Cardinality(Claimed)
    BY <2>1 DEF Claimed
  <2> QED
    BY <2>1, <2>2 DEF TierInv, CalibrationCoversItsEpoch
<1>8. CASE Tick
  BY <1>8, TierElsewhere DEF Tick, workVars
<1>9. CASE UNCHANGED vars
  BY <1>9, TierElsewhere DEF vars, workVars
<1> QED
  BY <1>1, <1>2, <1>3, <1>4, <1>5, <1>6, <1>7, <1>8, <1>9 DEF Next

(* A cache hit never returns a tier that is too expensive for the board of *)
(* the entry's epoch, whatever runs in parallel.                           *)
THEOREM CacheCoversItsEpoch == Spec => []CalibrationCoversItsEpoch
<1>1. TypeInv /\ [Next]_vars => TypeInv'
  BY TypeStep
<1>2. TypeInv /\ TierInv /\ [Next]_vars => TierInv'
  BY TierStep
<1>3. TierInv => CalibrationCoversItsEpoch
  BY DEF TierInv
<1> QED
  BY TypeInit, TierInit, <1>1, <1>2, <1>3, PTL DEF Spec

-----------------------------------------------------------------------------
(***************************************************************************)
(* Who may touch which ModelState, and what may be installed in it.        *)
(***************************************************************************)


(* What every step but the claiming of a slot keeps.                       *)
LEMMA OwnerElsewhere ==
  ASSUME EachPedalItsOwnState, UNCHANGED owner,
         apc' # "idle" => apc # "idle" /\ UNCHANGED call
  PROVE  EachPedalItsOwnState'
  BY DEF EachPedalItsOwnState, Free, Claimed

LEMMA OwnerStep ==
  ASSUME TypeInv, EachPedalItsOwnState, [Next]_vars
  PROVE  EachPedalItsOwnState'
<1>1. CASE AudioStep
  BY <1>1, OwnerElsewhere
  DEF AudioStep, BumpEpoch, EnterNotReady, EnterReady, RequestDebounced,
      RequestPreload, RequestBlocked, RequestAllowed, CasLost, CasWon,
      SafetyNet, NothingToPickUp, DropStaleLoad, InstallFirst, InstallNext,
      RenderDry, RenderSteady, RenderMuted, RenderFadeOut, RenderFadeOutEnd,
      RenderFadeIn, Rendered, GoTo, RequestSwitch
<1>2. ASSUME NEW p \in Pedals, FindInstance(p) PROVE EachPedalItsOwnState'
  BY <1>2 DEF FindInstance, EnterCall, EachPedalItsOwnState
<1>3. ASSUME NEW p \in Pedals, ClaimInstance(p) PROVE EachPedalItsOwnState'
  <2>1. PICK s \in Free : /\ EnterCall(p, s, "bump")
                          /\ owner' = [owner EXCEPT ![s] = p]
    BY <1>3 DEF ClaimInstance
  <2>2. s \in Slots /\ p # NoPedal /\ \A t \in Slots : owner[t] # p
    BY <1>3, ConstantsAssumption DEF ClaimInstance, Free
  <2>3. \A t \in Slots : owner'[t] = IF t = s THEN p ELSE owner[t]
    BY <2>1, <2>2 DEF TypeInv, TypeOK
  <2>4. owner'[call'.slot] = call'.pedal
    BY <2>1, <2>2, <2>3 DEF EnterCall
  <2>5. \A t, u \in Slots : owner'[t] = owner'[u] /\ t # u => owner'[t] = NoPedal
    BY <2>2, <2>3 DEF EachPedalItsOwnState
  <2> QED
    BY <2>4, <2>5 DEF EachPedalItsOwnState
<1>4. ASSUME NEW p \in Pedals, ShareLastInstance(p) PROVE EachPedalItsOwnState'
  BY <1>4
  DEF ShareLastInstance, EnterCall, EachPedalItsOwnState, Free, Claimed
<1>5. ASSUME NEW p \in Pedals, TurnKnob(p) \/ ToggleBypass(p)
      PROVE  EachPedalItsOwnState'
  BY <1>5, OwnerElsewhere DEF TurnKnob, ToggleBypass, userFrame, audioVars
<1>6. ASSUME NEW s \in Slots, WorkerStep(s) \/ WorkerFail(s)
      PROVE  EachPedalItsOwnState'
  BY <1>6, OwnerElsewhere
  DEF WorkerStep, WorkerStart, WorkerLookup, WorkerMeasure, WorkerRemember,
      WorkerStage, WorkerPublish, WorkerExit, WorkerFail, WorkerFrame, audioVars
<1>7. CASE PreloadModels \/ Tick
  BY <1>7, OwnerElsewhere DEF PreloadModels, Tick, audioVars
<1>8. CASE UNCHANGED vars
  BY <1>8, OwnerElsewhere DEF vars
<1> QED
  BY <1>1, <1>2, <1>3, <1>4, <1>5, <1>6, <1>7, <1>8 DEF Next, BeginBlock

(* Whatever the number of pedals and the order of their first calls, on    *)
(* one core or several: only a pedal that comes to a full table works on   *)
(* a ModelState that is not its own.                                       *)
THEOREM OwnState == Spec => []EachPedalItsOwnState
<1>1. Init => EachPedalItsOwnState
  BY DEF Init, EachPedalItsOwnState
<1>2. TypeInv /\ [Next]_vars => TypeInv'
  BY TypeStep
<1>3. TypeInv /\ EachPedalItsOwnState /\ [Next]_vars => EachPedalItsOwnState'
  BY OwnerStep
<1> QED
  BY TypeInit, <1>1, <1>2, <1>3, PTL DEF Spec

(* With no more pedals than slots nobody comes to a full table: it would   *)
(* have a slot for every pedal.                                            *)
LEMMA TableHasRoom ==
  ASSUME IsFiniteSet(Pedals), Cardinality(Pedals) <= kMaxInstances,
         TypeInv, EachPedalItsOwnState, NEW p \in Pedals,
         \A s \in Slots : owner[s] # p
  PROVE  Free # {}
<1> SUFFICES ASSUME Free = {}
             PROVE  FALSE
  OBVIOUS
<1> DEFINE Others == Pedals \ {p}
<1>1. Claimed = Slots
  BY DEF Free, Claimed
<1>2. owner \in [Slots -> Others]
  BY <1>1 DEF Claimed, TypeInv, TypeOK
<1>3. IsFiniteSet(Others) /\ Cardinality(Others) = Cardinality(Pedals) - 1
  BY FS_RemoveElement
<1>4. Cardinality(Others) < Cardinality(Slots)
  BY <1>3, SlotsFinite, FS_CardinalityType, ConstantsAssumption
<1>5. \E s, t \in Slots : s # t /\ owner[s] = owner[t]
  BY <1>2, <1>3, <1>4, SlotsFinite, FS_PigeonHole
<1>6. \A s \in Slots : owner[s] # NoPedal
  BY <1>1 DEF Claimed
<1> QED
  BY <1>5, <1>6 DEF EachPedalItsOwnState

(* What a call then works on: the one slot of its pedal.                   *)
OwnSlot ==
  /\ apc # "idle" => owner[call.slot] = call.pedal
  /\ \A s, t \in Slots : owner[s] = owner[t] /\ s # t => owner[s] = NoPedal

LEMMA RoomMakesOwn ==
  ASSUME IsFiniteSet(Pedals), Cardinality(Pedals) <= kMaxInstances,
         TypeInv, EachPedalItsOwnState
  PROVE  OwnSlot
<1>1. apc # "idle" => call.pedal \in Pedals
  BY DEF TypeInv, TypeOK
<1> QED
  BY <1>1, TableHasRoom DEF EachPedalItsOwnState, OwnSlot
-----------------------------------------------------------------------------
(***************************************************************************)
(* What is installed.  The pickup refuses a stale model only when the      *)
(* folder holds files (target -2 disables the test), so the argument needs *)
(* that a model was installed, or is about to be, in a non-empty folder    *)
(* only.                                                                   *)
(***************************************************************************)
Loading == WorkLabels \ {"off", "start", "exit"}

FolderInv ==
  /\ preload # "done" =>
       numModels = 0 /\ apc # "cas" /\ \A s \in Slots : wpc[s] = "off"
  /\ \A s \in Slots :
       wpc[s] \in Loading \/ pendingReady[s] \/ ready[s] => numModels > 0

(* Steps that start no load, publish none and install none.                *)
LEMMA FolderElsewhere ==
  ASSUME FolderInv, UNCHANGED <<wpc, pendingReady, ready, preload, numModels>>,
         apc' = "cas" => preload = "done"
  PROVE  FolderInv'
  BY DEF FolderInv

(* Steps of the load thread of slot s.                                     *)
LEMMA FolderWork ==
  ASSUME TypeInv, FolderInv, NEW s \in Slots, NEW l \in WorkLabels,
         wpc[s] # "off", wpc' = [wpc EXCEPT ![s] = l],
         UNCHANGED <<apc, ready, preload, numModels>>,
         \A t \in Slots : pendingReady'[t] => pendingReady[t] \/ numModels > 0,
         l \in Loading => numModels > 0
  PROVE  FolderInv'
<1>1. \A t \in Slots : wpc'[t] = IF t = s THEN l ELSE wpc[t]
  BY DEF TypeInv, TypeOK
<1>2. preload = "done"
  BY DEF FolderInv
<1> QED
  BY <1>1, <1>2 DEF FolderInv

LEMMA FolderStep ==
  ASSUME TypeInv, FolderInv, [Next]_vars
  PROVE  FolderInv'
<1>1. CASE BumpEpoch \/ EnterNotReady \/ EnterReady \/ RequestDebounced
           \/ RequestBlocked \/ RequestAllowed \/ CasLost \/ SafetyNet
           \/ NothingToPickUp
  BY <1>1, FolderElsewhere
  DEF BumpEpoch, EnterNotReady, EnterReady, RequestDebounced, RequestBlocked,
      RequestAllowed, CasLost, SafetyNet, NothingToPickUp, GoTo, RequestSwitch,
      installVars, pendingVars, workVars, TypeInv, TypeOK
<1>2. CASE RenderDry \/ RenderSteady \/ RenderMuted \/ RenderFadeOut
           \/ RenderFadeOutEnd \/ RenderFadeIn
  BY <1>2, FolderElsewhere
  DEF RenderDry, RenderSteady, RenderMuted, RenderFadeOut, RenderFadeOutEnd,
      RenderFadeIn, Rendered, GoTo, RequestSwitch, installVars, pendingVars,
      workVars
<1>3. CASE RequestPreload
  <2>1. preload # "done" /\ preload' # "done" /\ apc' # "cas"
    BY <1>3 DEF RequestPreload, Spawn, GoTo, TypeInv, TypeOK
  <2>2. UNCHANGED <<wpc, pendingReady, ready, numModels>>
    BY <1>3 DEF RequestPreload, installVars, pendingVars, workVars
  <2> QED
    BY <2>1, <2>2 DEF FolderInv
<1>4. CASE CasWon
  <2>1. preload = "done"
    BY <1>4 DEF CasWon, FolderInv
  <2>2. UNCHANGED <<pendingReady, ready, preload, numModels>>
    BY <1>4 DEF CasWon, installVars, pendingVars
  <2>3. \A t \in Slots : wpc'[t] \in {wpc[t], "start"}
    BY <1>4 DEF CasWon, Spawn, StartWorker, workVars, TypeInv, TypeOK
  <2> QED
    BY <2>1, <2>2, <2>3 DEF FolderInv, Loading
<1>5. CASE DropStaleLoad \/ InstallFirst \/ InstallNext
  <2>1. call.slot \in Slots /\ pendingReady[call.slot]
    BY <1>5 DEF DropStaleLoad, InstallFirst, InstallNext, MayPickUp, TypeInv, TypeOK
  <2>2. numModels > 0 /\ preload = "done"
    BY <2>1 DEF FolderInv
  <2>3. UNCHANGED <<wpc, preload, numModels>>
    BY <1>5 DEF DropStaleLoad, InstallFirst, InstallNext, workVars
  <2> QED
    BY <2>2, <2>3 DEF FolderInv
<1>6. ASSUME NEW p \in Pedals, BeginBlock(p) PROVE FolderInv'
  BY <1>6, FolderElsewhere
  DEF BeginBlock, FindInstance, ClaimInstance, ShareLastInstance, EnterCall,
      installVars, pendingVars, workVars
<1>7. ASSUME NEW p \in Pedals, TurnKnob(p) \/ ToggleBypass(p) PROVE FolderInv'
  BY <1>7, FolderElsewhere
  DEF TurnKnob, ToggleBypass, userFrame, audioVars, installVars, pendingVars,
      workVars, FolderInv
<1>8. ASSUME NEW s \in Slots, WorkerStep(s) \/ WorkerFail(s) PROVE FolderInv'
  <2>1. UNCHANGED <<apc, ready, preload, numModels>>
    BY <1>8 DEF WorkerStep, WorkerStart, WorkerLookup, WorkerMeasure,
       WorkerRemember, WorkerStage, WorkerPublish, WorkerExit, WorkerFail,
       WorkerFrame, audioVars, installVars
  <2>2. CASE WorkerStart(s)
    <3>1. /\ wpc[s] # "off" /\ pendingReady' = pendingReady
          /\ \E l \in {"exit", "lookup", "stage"} :
               /\ wpc' = [wpc EXCEPT ![s] = l]
               /\ l = "exit" \/ ~NothingToLoad(s)
      BY <2>2 DEF WorkerStart, WorkerGoTo, pendingVars
    <3>2. ~NothingToLoad(s) => numModels > 0
      BY DEF NothingToLoad, knob_value_to_index, TypeInv, TypeOK
    <3> QED
      BY <2>1, <3>1, <3>2, FolderWork DEF WorkLabels, Loading
  <2>3. CASE WorkerLookup(s) \/ WorkerMeasure(s) \/ WorkerRemember(s)
             \/ WorkerStage(s) \/ WorkerFail(s)
    <3>1. /\ wpc[s] \in Loading /\ pendingReady' = pendingReady
          /\ \E l \in WorkLabels : wpc' = [wpc EXCEPT ![s] = l]
      BY <2>3 DEF WorkerLookup, WorkerMeasure, WorkerRemember, WorkerStage,
         WorkerFail, WorkerGoTo, WorkLabels, Loading, pendingVars
    <3>2. numModels > 0 /\ wpc[s] # "off"
      BY <3>1 DEF FolderInv, Loading
    <3> QED
      BY <2>1, <3>1, <3>2, FolderWork
  <2>4. CASE WorkerPublish(s)
    <3>1. wpc[s] = "publish" /\ wpc' = [wpc EXCEPT ![s] = "exit"]
      BY <2>4 DEF WorkerPublish, WorkerGoTo
    <3>2. numModels > 0
      BY <3>1 DEF FolderInv, Loading, WorkLabels
    <3> QED
      BY <2>1, <3>1, <3>2, FolderWork DEF WorkLabels
  <2>5. CASE WorkerExit(s)
    <3>1. /\ wpc[s] = "exit" /\ wpc' = [wpc EXCEPT ![s] = "off"]
          /\ pendingReady' = pendingReady
      BY <2>5 DEF WorkerExit, WorkerGoTo, pendingVars
    <3> QED
      BY <2>1, <3>1, FolderWork DEF WorkLabels, Loading
  <2> QED
    BY <1>8, <2>2, <2>3, <2>4, <2>5 DEF WorkerStep
<1>9. CASE PreloadModels
  <2>1. preload = "running" /\ preload' = "done"
        /\ UNCHANGED <<wpc, pendingReady, ready>>
    BY <1>9 DEF PreloadModels, audioVars, installVars, pendingVars, workVars
  <2>2. \A s \in Slots : wpc[s] \notin Loading /\ ~pendingReady[s] /\ ~ready[s]
    BY <2>1 DEF FolderInv, Loading
  <2> QED
    BY <2>1, <2>2 DEF FolderInv
<1>10. CASE Tick
  BY <1>10, FolderElsewhere
  DEF Tick, installVars, pendingVars, workVars, FolderInv
<1>11. CASE UNCHANGED vars
  BY <1>11, FolderElsewhere DEF vars, installVars, pendingVars, workVars, FolderInv
<1> QED
  BY <1>1, <1>2, <1>3, <1>4, <1>5, <1>6, <1>7, <1>8, <1>9, <1>10, <1>11
  DEF Next, AudioStep

LEMMA WantedStep ==
  ASSUME TypeInv, FolderInv, [Next]_vars
  PROVE  \A s \in Slots :
           (ready[s] /\ active'[s] # active[s])
             => active'[s] = knob_value_to_index(call.raw)
<1>1. CASE InstallNext
  <2>1. /\ call.slot \in Slots /\ pendingReady[call.slot]
        /\ active' = [active EXCEPT ![call.slot] = pendingIndex[call.slot]]
    BY <1>1 DEF InstallNext, MayPickUp, TakePending, TypeInv, TypeOK
  <2>2. numModels > 0
    BY <2>1 DEF FolderInv
  <2>3. knob_value_to_index(call.raw) # -2
    <3>1. call.raw \in Indices
      BY Domains DEF TypeInv, TypeOK
    <3>2. call.raw >= -1 /\ call.raw \in Int /\ numModels # 0
      BY <2>2, <3>1, IndicesAreIntegers DEF TypeInv, TypeOK
    <3> QED
      BY <3>2 DEF knob_value_to_index, NoModel
  <2>4. knob_value_to_index(call.raw) = pendingIndex[call.slot]
    BY <1>1, <2>3 DEF InstallNext, PendingStale
  <2> QED
    BY <2>1, <2>4 DEF TypeInv, TypeOK
<1>2. CASE InstallFirst
  BY <1>2 DEF InstallFirst, TakePending, TypeInv, TypeOK
<1>3. CASE ~InstallFirst /\ ~InstallNext
  <2>1. CASE AudioStep
    BY <1>3, <2>1
    DEF AudioStep, BumpEpoch, EnterNotReady, EnterReady, RequestDebounced,
        RequestPreload, RequestBlocked, RequestAllowed, CasLost, CasWon,
        SafetyNet, NothingToPickUp, DropStaleLoad, RenderDry, RenderSteady,
        RenderMuted, RenderFadeOut, RenderFadeOutEnd, RenderFadeIn, Rendered,
        installVars
  <2>2. ASSUME NEW p \in Pedals, BeginBlock(p) \/ TurnKnob(p) \/ ToggleBypass(p)
        PROVE  active' = active
    BY <2>2 DEF BeginBlock, FindInstance, ClaimInstance, ShareLastInstance,
       EnterCall, TurnKnob, ToggleBypass, userFrame, audioVars, installVars
  <2>3. ASSUME NEW s \in Slots, WorkerStep(s) \/ WorkerFail(s)
        PROVE  active' = active
    BY <2>3 DEF WorkerStep, WorkerStart, WorkerLookup, WorkerMeasure,
       WorkerRemember, WorkerStage, WorkerPublish, WorkerExit, WorkerFail,
       WorkerFrame, audioVars, installVars
  <2>4. CASE PreloadModels \/ Tick \/ UNCHANGED vars
    BY <2>4 DEF PreloadModels, Tick, vars, audioVars, installVars
  <2> QED
    BY <2>1, <2>2, <2>3, <2>4 DEF Next
<1> QED
  BY <1>1, <1>2, <1>3

(* A load the knob has moved past is never installed, one core or several. *)
THEOREM StaleLoadsNeverPlay == Spec => InstalledIsWanted
<1>1. Init => FolderInv
  BY DEF Init, FolderInv, Loading
<1>2. TypeInv /\ [Next]_vars => TypeInv'
  BY TypeStep
<1>3. TypeInv /\ FolderInv /\ [Next]_vars => FolderInv'
  BY FolderStep
<1>4. TypeInv /\ FolderInv /\ [Next]_vars
        => [\A s \in Slots :
              (ready[s] /\ active'[s] # active[s])
                => active'[s] = knob_value_to_index(call.raw)]_vars
  BY WantedStep
<1> QED
  BY TypeInit, <1>1, <1>2, <1>3, <1>4, PTL DEF Spec, InstalledIsWanted

-----------------------------------------------------------------------------
(***************************************************************************)
(* What the player hears.  Between two blocks of a pedal its last block    *)
(* and the state of its instance must agree: unless that block ended a     *)
(* fade-out, the next one can only carry the same model or silence.        *)
(***************************************************************************)

(* The last block of slot s's owner carried the model that plays, or its   *)
(* fade-out; a muted instance, and one that rises with another model, has  *)
(* faded out.                                                              *)
TailKept(s) ==
  LET last == heard[owner[s]]
  IN  last.model >= 0 =>
        /\ ready[s]
        /\ fade[s] \in {0, 1} => active[s] \in {last.model, NoModel}
        /\ fade[s] = 2 => last.sound = "out" \/ active[s] = last.model
        /\ fade[s] = 3 => last.sound = "out"

(* The same of block x, if it leaves slot s in fade state f.               *)
LeavesTail(x, f, s) ==
  x.model >= 0 =>
    /\ ready[s]
    /\ f \in {0, 1} => active[s] \in {x.model, NoModel}
    /\ f = 2 => x.sound = "out" \/ active[s] = x.model
    /\ f = 3 => x.sound = "out"

HeardInv ==
  /\ \A p \in Pedals : heard[p].model >= 0 => \E s \in Slots : owner[s] = p
  /\ \A s \in Slots : owner[s] # NoPedal => TailKept(s)

heardVars == <<heard, owner, ready, fade, active>>

LEMMA HeardElsewhere ==
  ASSUME HeardInv, UNCHANGED heardVars
  PROVE  HeardInv'
  BY DEF HeardInv, TailKept, heardVars

(* What the tail of the instance of a running call is.                     *)
LEMMA CallTail ==
  ASSUME TypeInv, OwnSlot, HeardInv, apc # "idle"
  PROVE  /\ call.slot \in Slots /\ call.pedal \in Pedals
         /\ owner[call.slot] = call.pedal
         /\ \A s \in Slots : owner[s] = call.pedal => s = call.slot
         /\ TailKept(call.slot)
<1>1. call.slot \in Slots /\ call.pedal \in Pedals /\ call.pedal # NoPedal
  BY ConstantsAssumption DEF TypeInv, TypeOK
<1>2. owner[call.slot] = call.pedal
  BY DEF OwnSlot
<1>3. \A s \in Slots : owner[s] = call.pedal => s = call.slot
  BY <1>1, <1>2 DEF OwnSlot
<1> QED
  BY <1>1, <1>2, <1>3 DEF HeardInv

(* A block that carries x moves the fade state of its own instance only.   *)
LEMMA HeardRender ==
  ASSUME TypeInv, OwnSlot, HeardInv, apc = "render",
         NEW x, Hear(x), NEW f, fade' = [fade EXCEPT ![call.slot] = f],
         UNCHANGED <<owner, ready, active>>, LeavesTail(x, f, call.slot)
  PROVE  HeardInv'
<1> DEFINE s == call.slot
           p == call.pedal
<1>1. /\ s \in Slots /\ p \in Pedals /\ owner[s] = p
      /\ \A t \in Slots : owner[t] = p => t = s
  BY CallTail
<1>2. \A q \in Pedals : heard'[q] = IF q = p THEN x ELSE heard[q]
  BY DEF Hear, TypeInv, TypeOK
<1>3. \A t \in Slots : fade'[t] = IF t = s THEN f ELSE fade[t]
  BY DEF TypeInv, TypeOK
<1>4. \A q \in Pedals : heard'[q].model >= 0 => \E t \in Slots : owner'[t] = q
  BY <1>1, <1>2 DEF HeardInv
<1>5. ASSUME NEW t \in Slots, owner[t] # NoPedal
      PROVE  TailKept(t)'
  <2>1. owner[t] \in Pedals
    BY <1>5 DEF TypeInv, TypeOK
  <2>2. CASE t = s
    BY <1>1, <1>2, <1>3, <2>2 DEF TailKept, LeavesTail
  <2>3. CASE t # s
    <3>1. owner[t] # p /\ heard'[owner[t]] = heard[owner[t]]
      BY <1>1, <1>2, <2>1, <2>3
    <3>2. TailKept(t)
      BY <1>5 DEF HeardInv
    <3> QED
      BY <1>3, <2>3, <3>1, <3>2 DEF TailKept
  <2> QED
    BY <2>2, <2>3
<1> QED
  BY <1>4, <1>5 DEF HeardInv

(* A step that changes nothing but the state of one instance.              *)
LEMMA HeardInstall ==
  ASSUME TypeInv, HeardInv, NEW s \in Slots, UNCHANGED <<heard, owner>>,
         \A t \in Slots \ {s} :
           ready'[t] = ready[t] /\ fade'[t] = fade[t] /\ active'[t] = active[t],
         owner[s] # NoPedal => TailKept(s)'
  PROVE  HeardInv'
<1>1. \A t \in Slots \ {s} : owner[t] # NoPedal => TailKept(t)'
  BY DEF HeardInv, TailKept
<1> QED
  BY <1>1 DEF HeardInv

LEMMA HeardEnterReady ==
  ASSUME TypeInv, OwnSlot, HeardInv, EnterReady
  PROVE  HeardInv'
<1>1. PICK s \in Slots :
        s = call.slot /\ TailKept(s) /\ owner[s] # NoPedal
  BY CallTail, ConstantsAssumption DEF EnterReady
<1>2. /\ UNCHANGED <<heard, owner, ready, active>>
      /\ fade \in [Slots -> 0 .. 3]
      /\ \/ fade' = [fade EXCEPT ![s] = @]
         \/ fade[s] = 0 /\ fade' = [fade EXCEPT ![s] = 1]
  BY <1>1 DEF EnterReady, boardVars, installVars, TypeInv, TypeOK
<1>3. \A t \in Slots \ {s} : fade'[t] = fade[t]
  BY <1>2
<1>4. fade'[s] = fade[s] \/ (fade[s] = 0 /\ fade'[s] = 1)
  BY <1>1, <1>2
<1>5. TailKept(s)'
  BY <1>1, <1>2, <1>4 DEF TailKept
<1> QED
  BY <1>1, <1>2, <1>3, <1>5, HeardInstall

(* A later model comes only after the mute, the first after nothing.       *)
LEMMA HeardPickUp ==
  ASSUME TypeInv, OneCoreInv, OwnSlot, HeardInv,
         InstallFirst \/ InstallNext
  PROVE  HeardInv'
<1>1. PICK s \in Slots :
        s = call.slot /\ TailKept(s) /\ owner[s] # NoPedal
  BY CallTail, ConstantsAssumption DEF InstallFirst, InstallNext
<1> DEFINE m == pendingIndex[s]
<1>2. /\ UNCHANGED <<heard, owner>> /\ pendingReady[s] /\ m \in Indices
      /\ ready' = [ready EXCEPT ![s] = TRUE]
      /\ active' = [active EXCEPT ![s] = m]
      /\ \/ ~ready[s] /\ fade' = fade
         \/ ready[s] /\ fade' = [fade EXCEPT ![s] = IF m < 0 THEN 0 ELSE 2]
  BY <1>1 DEF InstallFirst, InstallNext, TakePending, MayPickUp, FadeAfterSwap,
     boardVars, TypeInv, TypeOK
<1>3. /\ ready'[s] /\ active'[s] = m
      /\ \A t \in Slots \ {s} : /\ ready'[t] = ready[t] /\ fade'[t] = fade[t]
                                /\ active'[t] = active[t]
  BY <1>1, <1>2 DEF TypeInv, TypeOK
<1>4. TailKept(s)'
  <2>1. CASE ~ready[s]
    BY <1>1, <1>2, <2>1 DEF TailKept
  <2>2. CASE ready[s]
    <3>1. fade[s] = 3
      BY <1>1, <1>2, <2>2 DEF OneCoreInv, LoadsOnlyUnheard
    <3>2. fade'[s] = IF m < 0 THEN 0 ELSE 2
      BY <1>1, <1>2, <2>2 DEF TypeInv, TypeOK
    <3>3. m < 0 => m = NoModel
      BY <1>2, ConstantsAssumption DEF Indices, KnobPos, NoModel
    <3>4. heard[owner[s]].model >= 0 => heard[owner[s]].sound = "out"
      BY <1>1, <3>1 DEF TailKept
    <3> QED
      BY <1>2, <1>3, <3>2, <3>3, <3>4 DEF TailKept
  <2> QED
    BY <2>1, <2>2
<1> QED
  BY <1>1, <1>2, <1>3, <1>4, HeardInstall

(* The block of a call carries what its instance plays, as it plays it.    *)
LEMMA HeardRenderStep ==
  ASSUME TypeInv, OneCoreInv, OwnSlot, HeardInv,
         RenderDry \/ RenderSteady \/ RenderMuted \/ RenderFadeOut
           \/ RenderFadeOutEnd \/ RenderFadeIn
  PROVE  HeardInv'
<1> DEFINE s == call.slot
<1>1. /\ s \in Slots /\ apc = "render"
      /\ UNCHANGED <<owner, ready, active>>
      /\ fade[s] \in 0 .. 3 /\ fade = [fade EXCEPT ![s] = fade[s]]
      /\ dsp[s].model = active[s]
  BY DEF RenderDry, RenderSteady, RenderMuted, RenderFadeOut, RenderFadeOutEnd,
     RenderFadeIn, Rendered, installVars, OneCoreInv, RenderedModelIsInstalled,
     TypeInv, TypeOK
<1>2. CASE RenderDry
  <2>1. Hear(Dry) /\ fade' = [fade EXCEPT ![s] = fade[s]] /\ Dry.model = -1
    BY <1>1, <1>2 DEF RenderDry, Dry, NoModel
  <2>2. LeavesTail(Dry, fade[s], s)
    BY <2>1 DEF LeavesTail
  <2> QED
    BY <1>1, <2>1, <2>2, HeardRender
<1>3. CASE RenderMuted
  <2>1. Hear(Silence) /\ fade' = [fade EXCEPT ![s] = fade[s]]
        /\ Silence.model = -1
    BY <1>1, <1>3 DEF RenderMuted, Silence, NoModel
  <2>2. LeavesTail(Silence, fade[s], s)
    BY <2>1 DEF LeavesTail
  <2> QED
    BY <1>1, <2>1, <2>2, HeardRender
<1>4. CASE RenderSteady
  <2> DEFINE x == Voiced("full", s)
  <2>1. Hear(x) /\ fade' = [fade EXCEPT ![s] = fade[s]] /\ fade[s] = 0 /\ ready[s]
    BY <1>1, <1>4 DEF RenderSteady, PlaysDry
  <2>2. x.model >= 0 => active[s] = x.model
    BY <1>1 DEF Voiced, Silence, NoModel
  <2> HIDE DEF x
  <2>3. LeavesTail(x, fade[s], s)
    BY <2>1, <2>2 DEF LeavesTail
  <2> QED
    BY <1>1, <2>1, <2>3, HeardRender
<1>5. CASE RenderFadeOut \/ RenderFadeOutEnd
  <2> DEFINE x == Voiced("out", s)
  <2>1. /\ Hear(x) /\ ready[s]
        /\ \E f \in {fade[s], 0, 2, 3} : fade' = [fade EXCEPT ![s] = f]
    BY <1>1, <1>5 DEF RenderFadeOut, RenderFadeOutEnd, PlaysDry
  <2>2. x.model >= 0 => active[s] = x.model /\ x.sound = "out"
    BY <1>1 DEF Voiced, Silence, NoModel
  <2> HIDE DEF x
  <2>3. \A f : fade' = [fade EXCEPT ![s] = f] => LeavesTail(x, f, s)
    BY <2>1, <2>2 DEF LeavesTail
  <2> QED
    BY <1>1, <2>1, <2>3, HeardRender
<1>6. CASE RenderFadeIn
  <2> DEFINE x == [sound |-> "in", model |-> dsp[s].model]
  <2>1. /\ Hear(x) /\ ready[s]
        /\ \E f \in {0, 2} : fade' = [fade EXCEPT ![s] = f]
    BY <1>1, <1>6 DEF RenderFadeIn, PlaysDry
  <2>2. active[s] = x.model
    BY <1>1
  <2> HIDE DEF x
  <2>3. \A f \in {0, 2} : LeavesTail(x, f, s)
    BY <2>1, <2>2 DEF LeavesTail
  <2> QED
    BY <1>1, <2>1, <2>3, HeardRender
<1> QED
  BY <1>2, <1>3, <1>4, <1>5, <1>6

LEMMA HeardStep ==
  ASSUME IsFiniteSet(Pedals), Cardinality(Pedals) <= kMaxInstances,
         TypeInv, OneCoreInv, EachPedalItsOwnState, OwnSlot, HeardInv,
         [Next]_vars
  PROVE  HeardInv'
<1>1. CASE EnterReady \/ InstallFirst \/ InstallNext
  BY <1>1, HeardEnterReady, HeardPickUp
<1>2. CASE RenderDry \/ RenderSteady \/ RenderMuted \/ RenderFadeOut
           \/ RenderFadeOutEnd \/ RenderFadeIn
  BY <1>2, HeardRenderStep
<1>3. CASE BumpEpoch \/ EnterNotReady \/ RequestDebounced \/ RequestPreload
           \/ RequestBlocked \/ RequestAllowed \/ CasLost \/ CasWon
           \/ SafetyNet \/ NothingToPickUp \/ DropStaleLoad
  BY <1>3, HeardElsewhere
  DEF BumpEpoch, EnterNotReady, RequestDebounced, RequestPreload,
      RequestBlocked, RequestAllowed, CasLost, CasWon, SafetyNet,
      NothingToPickUp, DropStaleLoad, boardVars, installVars, fadeVars, heardVars
<1>4. ASSUME NEW p \in Pedals, FindInstance(p) PROVE HeardInv'
  BY <1>4, HeardElsewhere
  DEF FindInstance, EnterCall, boardVars, installVars, fadeVars, heardVars
<1>5. ASSUME NEW p \in Pedals, ClaimInstance(p) PROVE HeardInv'
  <2>1. PICK s \in Free : owner' = [owner EXCEPT ![s] = p]
    BY <1>5 DEF ClaimInstance
  <2>2. s \in Slots /\ owner[s] = NoPedal /\ \A t \in Slots : owner[t] # p
    BY <1>5 DEF ClaimInstance, Free, Claimed
  <2>3. \A t \in Slots : owner'[t] = IF t = s THEN p ELSE owner[t]
    BY <2>1, <2>2 DEF TypeInv, TypeOK
  <2>4. UNCHANGED <<heard, ready, fade, active>>
    BY <1>5 DEF ClaimInstance, EnterCall, boardVars, installVars, fadeVars
  <2>5. ~(heard[p].model >= 0)
    BY <2>2 DEF HeardInv
  <2>6. \A q \in Pedals : heard'[q].model >= 0 => \E t \in Slots : owner'[t] = q
    <3> SUFFICES ASSUME NEW q \in Pedals, heard[q].model >= 0
                 PROVE  \E t \in Slots : owner'[t] = q
      BY <2>4
    <3>1. PICK t \in Slots : owner[t] = q
      BY DEF HeardInv
    <3>2. q # NoPedal
      BY ConstantsAssumption
    <3> QED
      BY <2>2, <2>3, <3>1, <3>2
  <2>7. \A t \in Slots : owner'[t] # NoPedal => TailKept(t)'
    BY <2>3, <2>4, <2>5 DEF HeardInv, TailKept
  <2> QED
    BY <2>6, <2>7 DEF HeardInv
<1>6. ASSUME NEW p \in Pedals, ShareLastInstance(p) PROVE HeardInv'
  BY <1>6, TableHasRoom DEF ShareLastInstance
<1>7. ASSUME NEW p \in Pedals, TurnKnob(p) \/ ToggleBypass(p) PROVE HeardInv'
  BY <1>7, HeardElsewhere
  DEF TurnKnob, ToggleBypass, userFrame, audioVars, installVars, fadeVars,
      heardVars
<1>8. ASSUME NEW s \in Slots, WorkerStep(s) \/ WorkerFail(s) PROVE HeardInv'
  BY <1>8, HeardElsewhere
  DEF WorkerStep, WorkerStart, WorkerLookup, WorkerMeasure, WorkerRemember,
      WorkerStage, WorkerPublish, WorkerExit, WorkerFail, WorkerFrame,
      boardVars, audioVars, installVars, fadeVars, heardVars
<1>9. CASE PreloadModels \/ Tick \/ UNCHANGED vars
  BY <1>9, HeardElsewhere
  DEF PreloadModels, Tick, vars, boardVars, audioVars, installVars, fadeVars,
      heardVars
<1> QED
  BY <1>1, <1>2, <1>3, <1>4, <1>5, <1>6, <1>7, <1>8, <1>9
  DEF Next, AudioStep, BeginBlock

(* The step in which the next block is heard, against the last one.        *)
NoCutNow ==
  \A p \in Pedals :
    (/\ heard[p].model # heard'[p].model
     /\ heard[p].model >= 0 /\ heard'[p].model >= 0)
      => heard[p].sound = "out" /\ heard'[p].sound = "in"

LEMMA CutStep ==
  ASSUME TypeInv, OneCoreInv, OwnSlot, HeardInv, [Next]_vars
  PROVE  NoCutNow
<1>1. CASE UNCHANGED heard
  BY <1>1 DEF NoCutNow
<1>2. CASE RenderDry \/ RenderSteady \/ RenderMuted \/ RenderFadeOut
           \/ RenderFadeOutEnd \/ RenderFadeIn
  <2> DEFINE s == call.slot
             p == call.pedal
  <2>1. apc = "render"
    BY <1>2 DEF RenderDry, RenderSteady, RenderMuted, RenderFadeOut,
       RenderFadeOutEnd, RenderFadeIn
  <2>2. s \in Slots /\ p \in Pedals /\ owner[s] = p /\ TailKept(s)
    BY <2>1, CallTail
  <2>3. dsp[s].model = active[s] /\ active[s] \in Int /\ fade[s] \in {0, 1, 2, 3}
    BY <2>2, IndicesAreIntegers
    DEF OneCoreInv, RenderedModelIsInstalled, TypeInv, TypeOK
  <2>4. \A q \in Pedals \ {p} : heard'[q] = heard[q]
    BY <1>2 DEF RenderDry, RenderSteady, RenderMuted, RenderFadeOut,
       RenderFadeOutEnd, RenderFadeIn, Hear, TypeInv, TypeOK
  <2>5. CASE RenderDry \/ RenderMuted
    <3>1. heard'[p].model = -1
      BY <2>2, <2>5 DEF RenderDry, RenderMuted, Hear, Dry, Silence, NoModel,
         TypeInv, TypeOK
    <3> QED
      BY <2>4, <3>1 DEF NoCutNow
  <2>6. CASE RenderSteady \/ RenderFadeOut \/ RenderFadeOutEnd
    <3>1. fade[s] \in {0, 1}
      BY <2>6 DEF RenderSteady, RenderFadeOut, RenderFadeOutEnd
    <3>2. heard'[p].model \in {-1, active[s]}
      BY <2>2, <2>3, <2>6 DEF RenderSteady, RenderFadeOut, RenderFadeOutEnd,
         Hear, Voiced, Silence, NoModel, TypeInv, TypeOK
    <3>3. heard[p].model >= 0 => active[s] \in {heard[p].model, -1}
      BY <2>2, <3>1 DEF TailKept, NoModel
    <3> QED
      BY <2>4, <3>2, <3>3 DEF NoCutNow
  <2>7. CASE RenderFadeIn
    <3>1. heard'[p] = [sound |-> "in", model |-> active[s]] /\ fade[s] = 2
      BY <2>2, <2>3, <2>7 DEF RenderFadeIn, Hear, TypeInv, TypeOK
    <3>2. heard[p].model >= 0
            => heard[p].sound = "out" \/ active[s] = heard[p].model
      BY <2>2, <3>1 DEF TailKept
    <3> QED
      BY <2>4, <3>1, <3>2 DEF NoCutNow
  <2> QED
    BY <1>2, <2>5, <2>6, <2>7
<1>3. CASE BumpEpoch \/ EnterNotReady \/ EnterReady \/ RequestDebounced
           \/ RequestPreload \/ RequestBlocked \/ RequestAllowed \/ CasLost
           \/ CasWon \/ SafetyNet \/ NothingToPickUp \/ DropStaleLoad
           \/ InstallFirst \/ InstallNext
  BY <1>1, <1>3
  DEF BumpEpoch, EnterNotReady, EnterReady, RequestDebounced, RequestPreload,
      RequestBlocked, RequestAllowed, CasLost, CasWon, SafetyNet,
      NothingToPickUp, DropStaleLoad, InstallFirst, InstallNext, boardVars
<1>4. ASSUME NEW p \in Pedals, BeginBlock(p) \/ TurnKnob(p) \/ ToggleBypass(p)
      PROVE  NoCutNow
  BY <1>1, <1>4
  DEF BeginBlock, FindInstance, ClaimInstance, ShareLastInstance, EnterCall,
      boardVars, TurnKnob, ToggleBypass, userFrame
<1>5. ASSUME NEW s \in Slots, WorkerStep(s) \/ WorkerFail(s)
      PROVE  NoCutNow
  BY <1>1, <1>5
  DEF WorkerStep, WorkerStart, WorkerLookup, WorkerMeasure, WorkerRemember,
      WorkerStage, WorkerPublish, WorkerExit, WorkerFail, WorkerFrame, boardVars
<1>6. CASE PreloadModels \/ Tick \/ UNCHANGED vars
  BY <1>1, <1>6 DEF PreloadModels, Tick, vars, boardVars
<1> QED
  BY <1>2, <1>3, <1>4, <1>5, <1>6 DEF Next, AudioStep

(* On one core, with a slot for every pedal, the player never hears one    *)
(* model cut hard into another.                                            *)
THEOREM NeverCutHard ==
  SMP = FALSE /\ IsFiniteSet(Pedals) /\ Cardinality(Pedals) <= kMaxInstances
    => (Spec => NoHardCut)
<1> SUFFICES ASSUME SMP = FALSE, IsFiniteSet(Pedals),
                    Cardinality(Pedals) <= kMaxInstances
             PROVE  Spec => NoHardCut
  OBVIOUS
<1>1. Init => HeardInv
  BY DEF Init, HeardInv, NoModel
<1>2. TypeInv /\ [Next]_vars => TypeInv'
  BY TypeStep
<1>3. TypeInv /\ TypeInv' /\ OneCoreInv /\ [Next]_vars => OneCoreInv'
  BY OneCoreStep
<1>4. TypeInv /\ OneCoreInv /\ EachPedalItsOwnState /\ HeardInv /\ [Next]_vars
        => HeardInv'
  BY RoomMakesOwn, HeardStep
<1>5. TypeInv /\ OneCoreInv /\ EachPedalItsOwnState /\ HeardInv /\ [Next]_vars
        => [\A p \in Pedals :
              (/\ heard[p].model # heard'[p].model
               /\ heard[p].model >= 0 /\ heard'[p].model >= 0)
                => heard[p].sound = "out" /\ heard'[p].sound = "in"]_vars
  BY RoomMakesOwn, CutStep DEF NoCutNow
<1> QED
  BY TypeInit, OneCoreInit, OwnState, <1>1, <1>2, <1>3, <1>4, <1>5, PTL
  DEF Spec, NoHardCut

-----------------------------------------------------------------------------
(***************************************************************************)
(* On one core the hook implements PedalVoice, for any board and folder.   *)
(***************************************************************************)

Phases == [s \in Slots |-> PhaseOf(s)]

(* The fields the voice is read off.                                       *)
voicedVars == <<ready, fade, active>>

LEMMA PhaseReadOff ==
  ASSUME TypeInv, NEW s \in Slots
  PROVE  /\ ~ready[s] <=> Phases[s] = "through"
         /\ ready[s] /\ fade[s] = 0 <=> Phases[s] = "playing"
         /\ ready[s] /\ fade[s] = 1 <=> Phases[s] = "ducking"
         /\ ready[s] /\ fade[s] = 2 <=> Phases[s] = "rising"
         /\ ready[s] /\ fade[s] = 3 <=> Phases[s] = "muted"
<1>1. fade[s] \in {0, 1, 2, 3}
  BY DEF TypeInv, TypeOK
<1> QED
  BY <1>1 DEF Phases, PhaseOf

(* A step that changes the fade state of one slot only moves its phase.    *)
LEMMA OnePhaseMoves ==
  ASSUME TypeInv, TypeInv', NEW s \in Slots,
         \A t \in Slots \ {s} : fade'[t] = fade[t] /\ ready'[t] = ready[t]
  PROVE  Phases' = [Phases EXCEPT ![s] = Phases'[s]]
<1>1. ASSUME NEW t \in Slots \ {s}
      PROVE  Phases'[t] = Phases[t]
  <2>1. fade'[t] = fade[t] /\ ready'[t] = ready[t] /\ fade[t] \in {0, 1, 2, 3}
    BY DEF TypeInv, TypeOK
  <2> QED
    BY <2>1 DEF Phases, PhaseOf
<1> QED
  BY <1>1 DEF Phases

LEMMA VoiceElsewhere ==
  ASSUME UNCHANGED voicedVars
  PROVE  UNCHANGED <<Phases, active>>
  BY DEF voicedVars, Phases, PhaseOf

LEMMA VoiceInit == Init => Voice!Init
  BY DEF Init, Voice!Init, PhaseOf, NoModel

(* The first model: nothing was fading.                                    *)
LEMMA VoiceInstallFirst ==
  ASSUME TypeInv, TypeInv', OneCoreInv, InstallFirst
  PROVE  Voice!Next
<1> DEFINE s == call.slot
           m == pendingIndex[s]
<1>1. /\ s \in Slots /\ ~ready[s] /\ m \in Indices /\ fade' = fade
      /\ ready' = [ready EXCEPT ![s] = TRUE]
      /\ active' = [active EXCEPT ![s] = m]
  BY DEF InstallFirst, TakePending, TypeInv, TypeOK
<1>2. fade[s] = 0
  BY <1>1 DEF OneCoreInv
<1>3. Phases[s] = "through" /\ Phases'[s] = "playing"
  BY <1>1, <1>2, PhaseReadOff DEF Phases, PhaseOf, TypeInv, TypeOK
<1>4. \A t \in Slots \ {s} : fade'[t] = fade[t] /\ ready'[t] = ready[t]
  BY <1>1 DEF TypeInv, TypeOK
<1>5. Phases' = [Phases EXCEPT ![s] = "playing"]
  BY <1>1, <1>3, <1>4, OnePhaseMoves
<1>6. Voice!FirstModel(s, m)
  BY <1>1, <1>3, <1>5 DEF Voice!FirstModel, Voice!Move, Phases
<1> QED
  BY <1>1, <1>6 DEF Voice!Next

(* A later model: only behind the mute, and raised unless it is silence.   *)
LEMMA VoiceInstallNext ==
  ASSUME TypeInv, TypeInv', OneCoreInv, InstallNext
  PROVE  Voice!Next
<1> DEFINE s == call.slot
           m == pendingIndex[s]
<1>1. /\ s \in Slots /\ ready[s] /\ m \in Indices /\ pendingReady[s]
      /\ fade' = [fade EXCEPT ![s] = IF m < 0 THEN 0 ELSE 2]
      /\ ready' = [ready EXCEPT ![s] = TRUE]
      /\ active' = [active EXCEPT ![s] = m]
  BY DEF InstallNext, TakePending, FadeAfterSwap, MayPickUp, TypeInv, TypeOK
<1>2. fade[s] = 3
  BY <1>1 DEF OneCoreInv, LoadsOnlyUnheard
<1>3. Phases[s] = "muted"
  BY <1>1, <1>2, PhaseReadOff
<1>4. ready'[s] /\ fade'[s] = IF m < 0 THEN 0 ELSE 2
  BY <1>1 DEF TypeInv, TypeOK
<1>5. Phases'[s] = Voice!Raised(m)
  BY <1>1, <1>4 DEF Phases, PhaseOf, Voice!Raised
<1>6. \A t \in Slots \ {s} : fade'[t] = fade[t] /\ ready'[t] = ready[t]
  BY <1>1 DEF TypeInv, TypeOK
<1>7. Phases' = [Phases EXCEPT ![s] = Voice!Raised(m)]
  BY <1>1, <1>5, <1>6, OnePhaseMoves
<1>8. Voice!Swap(s, m)
  BY <1>1, <1>3, <1>7 DEF Voice!Swap, Voice!Move, Phases
<1> QED
  BY <1>1, <1>8 DEF Voice!Next

(* A duck starts from full level.                                          *)
LEMMA VoiceEnterReady ==
  ASSUME TypeInv, TypeInv', EnterReady
  PROVE  Voice!Next \/ UNCHANGED <<Phases, active>>
<1> DEFINE s == call.slot
<1>1. /\ s \in Slots /\ ready[s] /\ UNCHANGED <<ready, active>>
      /\ \/ fade' = fade
         \/ fade[s] = 0 /\ fade' = [fade EXCEPT ![s] = 1]
  <2>1. /\ s \in Slots /\ ready[s] /\ UNCHANGED <<ready, active>>
        /\ fade \in [Slots -> 0 .. 3]
    BY DEF EnterReady, installVars, TypeInv, TypeOK
  <2>2. \/ fade' = [fade EXCEPT ![s] = @]
        \/ fade[s] = 0 /\ fade' = [fade EXCEPT ![s] = 1]
    BY DEF EnterReady
  <2> QED
    BY <2>1, <2>2
<1>2. CASE fade' = fade
  BY <1>1, <1>2, VoiceElsewhere DEF voicedVars
<1>3. CASE fade[s] = 0 /\ fade' = [fade EXCEPT ![s] = 1]
  <2>1. Phases[s] = "playing"
    BY <1>1, <1>3, PhaseReadOff
  <2>2. fade'[s] = 1 /\ \A t \in Slots \ {s} : fade'[t] = fade[t]
    BY <1>1, <1>3 DEF TypeInv, TypeOK
  <2>3. Phases'[s] = "ducking"
    BY <1>1, <2>2 DEF Phases, PhaseOf
  <2>4. Phases' = [Phases EXCEPT ![s] = "ducking"]
    BY <1>1, <2>2, <2>3, OnePhaseMoves
  <2>5. Voice!Duck(s)
    BY <1>1, <2>1, <2>4 DEF Voice!Duck, Voice!Move, Phases
  <2> QED
    BY <1>1, <2>5 DEF Voice!Next
<1> QED
  BY <1>1, <1>2, <1>3

(* The end of a duck: the same model returns, or the instance is muted.    *)
LEMMA VoiceFadeOutEnd ==
  ASSUME TypeInv, TypeInv', RenderFadeOutEnd
  PROVE  Voice!Next
<1> DEFINE s == call.slot
           f == IF active[s] < 0 THEN 0 ELSE 2
<1>1. /\ s \in Slots /\ ready[s] /\ fade[s] = 1 /\ UNCHANGED <<ready, active>>
      /\ fade' = [fade EXCEPT ![s] = f] \/ fade' = [fade EXCEPT ![s] = 3]
  BY DEF RenderFadeOutEnd, PlaysDry, Rendered, installVars, TypeInv, TypeOK
<1>2. Phases[s] = "ducking"
  BY <1>1, PhaseReadOff
<1>3. \A t \in Slots \ {s} : fade'[t] = fade[t]
  BY <1>1 DEF TypeInv, TypeOK
<1>4. Phases' = [Phases EXCEPT ![s] = Phases'[s]]
  BY <1>1, <1>3, OnePhaseMoves
<1>5. CASE fade' = [fade EXCEPT ![s] = f]
  <2>1. fade'[s] = f
    BY <1>1, <1>5 DEF TypeInv, TypeOK
  <2>2. Phases'[s] = Voice!Raised(active[s])
    BY <1>1, <2>1 DEF Phases, PhaseOf, Voice!Raised
  <2>3. Voice!Return(s)
    BY <1>1, <1>2, <1>4, <2>2 DEF Voice!Return, Voice!Move, Phases
  <2> QED
    BY <1>1, <2>3 DEF Voice!Next
<1>6. CASE fade' = [fade EXCEPT ![s] = 3]
  <2>1. fade'[s] = 3
    BY <1>1, <1>6 DEF TypeInv, TypeOK
  <2>2. Phases'[s] = "muted"
    BY <1>1, <2>1 DEF Phases, PhaseOf
  <2>3. Voice!Mute(s)
    BY <1>1, <1>2, <1>4, <2>2 DEF Voice!Mute, Voice!Move, Phases
  <2> QED
    BY <1>1, <2>3 DEF Voice!Next
<1> QED
  BY <1>1, <1>5, <1>6

(* A block of the rise; the last one arrives at full level.                *)
LEMMA VoiceFadeIn ==
  ASSUME TypeInv, TypeInv', RenderFadeIn
  PROVE  Voice!Next \/ UNCHANGED <<Phases, active>>
<1> DEFINE s == call.slot
<1>1. /\ s \in Slots /\ ready[s] /\ fade[s] = 2 /\ UNCHANGED <<ready, active>>
      /\ fade' = [fade EXCEPT ![s] = 0] \/ fade' = [fade EXCEPT ![s] = 2]
  BY DEF RenderFadeIn, PlaysDry, Rendered, installVars, TypeInv, TypeOK
<1>2. \A t \in Slots \ {s} : fade'[t] = fade[t]
  BY <1>1 DEF TypeInv, TypeOK
<1>3. CASE fade' = [fade EXCEPT ![s] = 0]
  <2>1. fade'[s] = 0
    BY <1>1, <1>3 DEF TypeInv, TypeOK
  <2>2. Phases[s] = "rising" /\ Phases'[s] = "playing"
    BY <1>1, <2>1, PhaseReadOff DEF Phases, PhaseOf
  <2>3. Phases' = [Phases EXCEPT ![s] = "playing"]
    BY <1>1, <1>2, <2>2, OnePhaseMoves
  <2>4. Voice!Arrive(s)
    BY <1>1, <2>2, <2>3 DEF Voice!Arrive, Voice!Move, Phases
  <2> QED
    BY <1>1, <2>4 DEF Voice!Next
<1>4. CASE fade' = [fade EXCEPT ![s] = 2]
  <2>1. fade' = fade
    BY <1>1, <1>4 DEF TypeInv, TypeOK
  <2> QED
    BY <1>1, <2>1, VoiceElsewhere DEF voicedVars
<1> QED
  BY <1>1, <1>3, <1>4

LEMMA VoiceStep ==
  ASSUME TypeInv, TypeInv', OneCoreInv, [Next]_vars
  PROVE  Voice!Next \/ UNCHANGED <<Phases, active>>
<1>1. CASE InstallFirst \/ InstallNext \/ RenderFadeOutEnd
  BY <1>1, VoiceInstallFirst, VoiceInstallNext, VoiceFadeOutEnd
<1>2. CASE EnterReady \/ RenderFadeIn
  BY <1>2, VoiceEnterReady, VoiceFadeIn
<1>3. CASE BumpEpoch \/ EnterNotReady \/ RequestDebounced \/ RequestPreload
           \/ RequestBlocked \/ RequestAllowed \/ CasLost \/ CasWon
           \/ SafetyNet \/ NothingToPickUp \/ DropStaleLoad \/ RenderDry
           \/ RenderSteady \/ RenderMuted \/ RenderFadeOut
  BY <1>3, VoiceElsewhere
  DEF BumpEpoch, EnterNotReady, RequestDebounced, RequestPreload,
      RequestBlocked, RequestAllowed, CasLost, CasWon, SafetyNet,
      NothingToPickUp, DropStaleLoad, RenderDry, RenderSteady, RenderMuted,
      RenderFadeOut, Rendered, installVars, fadeVars, voicedVars
<1>4. ASSUME NEW p \in Pedals, BeginBlock(p) \/ TurnKnob(p) \/ ToggleBypass(p)
      PROVE  UNCHANGED <<Phases, active>>
  BY <1>4, VoiceElsewhere
  DEF BeginBlock, FindInstance, ClaimInstance, ShareLastInstance, EnterCall,
      TurnKnob, ToggleBypass, userFrame, audioVars, installVars, fadeVars,
      voicedVars
<1>5. ASSUME NEW s \in Slots, WorkerStep(s) \/ WorkerFail(s)
      PROVE  UNCHANGED <<Phases, active>>
  BY <1>5, VoiceElsewhere
  DEF WorkerStep, WorkerStart, WorkerLookup, WorkerMeasure, WorkerRemember,
      WorkerStage, WorkerPublish, WorkerExit, WorkerFail, WorkerFrame,
      audioVars, installVars, fadeVars, voicedVars
<1>6. CASE PreloadModels \/ Tick \/ UNCHANGED vars
  BY <1>6, VoiceElsewhere
  DEF PreloadModels, Tick, vars, audioVars, installVars, fadeVars, voicedVars
<1> QED
  BY <1>1, <1>2, <1>3, <1>4, <1>5, <1>6 DEF Next, AudioStep

(* One core: the hook keeps PedalVoice's promise to the player.            *)
THEOREM VoiceRefined == (SMP = FALSE) => (Spec => KeepsTheVoicePromise)
<1> SUFFICES ASSUME SMP = FALSE
             PROVE  Spec => KeepsTheVoicePromise
  OBVIOUS
<1>1. TypeInv /\ [Next]_vars => TypeInv'
  BY TypeStep
<1>2. TypeInv /\ TypeInv' /\ OneCoreInv /\ [Next]_vars => OneCoreInv'
  BY OneCoreStep
<1>3. TypeInv /\ TypeInv' /\ OneCoreInv /\ [Next]_vars
        => [Voice!Next]_(Voice!voiceVars)
  BY VoiceStep DEF Voice!voiceVars, Phases
<1> QED
  BY TypeInit, OneCoreInit, VoiceInit, <1>1, <1>2, <1>3, PTL
  DEF Spec, KeepsTheVoicePromise, Voice!Spec

=============================================================================
