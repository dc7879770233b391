---------------------------- MODULE PedalVoice -----------------------------
(***************************************************************************)
(* What the hook promises a player about each instance, with none of its   *)
(* threads: before its first model an instance passes the signal through;  *)
(* then it plays one model (or silence, index -1) at a time, and goes to   *)
(* another only by ducking the old one out completely, being mute while    *)
(* the new one is prepared, and raising the new one from nothing.  A duck  *)
(* may also end by raising the same model again.                           *)
(***************************************************************************)
EXTENDS Integers

CONSTANTS Slots, Indices
VARIABLES phase, model

voiceVars == <<phase, model>>
Phases == {"through", "playing", "ducking", "muted", "rising"}

VoiceTypeOK ==
  /\ phase \in [Slots -> Phases]
  /\ model \in [Slots -> Indices]

Init ==
  /\ phase = [s \in Slots |-> "through"]
  /\ model = [s \in Slots |-> -1]

Move(s, from, to) == phase[s] = from /\ phase' = [phase EXCEPT ![s] = to]

(* Nothing is raised when the target is silence.                           *)
Raised(m) == IF m < 0 THEN "playing" ELSE "rising"

FirstModel(s, m) ==
  /\ Move(s, "through", "playing")
  /\ model' = [model EXCEPT ![s] = m]

Duck(s)   == Move(s, "playing", "ducking") /\ UNCHANGED model
Return(s) == Move(s, "ducking", Raised(model[s])) /\ UNCHANGED model
Mute(s)   == Move(s, "ducking", "muted") /\ UNCHANGED model

Swap(s, m) ==
  /\ Move(s, "muted", Raised(m))
  /\ model' = [model EXCEPT ![s] = m]

Arrive(s) == Move(s, "rising", "playing") /\ UNCHANGED model

Next ==
  \E s \in Slots :
    \/ Duck(s) \/ Return(s) \/ Mute(s) \/ Arrive(s)
    \/ \E m \in Indices : FirstModel(s, m) \/ Swap(s, m)

Spec == Init /\ [][Next]_voiceVars
=============================================================================
