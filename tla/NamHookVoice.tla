---------------------------- MODULE NamHookVoice ---------------------------
(***************************************************************************)
(* The hook implements PedalVoice: the phase of an instance is read off    *)
(* `ready` and fade_state, its model off active_index.                     *)
(***************************************************************************)
EXTENDS NamHook

PhaseOf(s) ==
  IF ~ready[s] THEN "through"
  ELSE CASE fade[s] = 0 -> "playing"
         [] fade[s] = 1 -> "ducking"
         [] fade[s] = 2 -> "rising"
         [] fade[s] = 3 -> "muted"

Voice == INSTANCE PedalVoice
           WITH phase <- [s \in Slots |-> PhaseOf(s)], model <- active

(* On one core, every step of the hook is a step of the voice or invisible *)
(* to it: the player hears one model at a time, and a swap only behind the *)
(* mute.                                                                   *)
KeepsTheVoicePromise == Voice!Spec
=============================================================================
