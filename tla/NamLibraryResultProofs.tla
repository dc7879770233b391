----------------------- MODULE NamLibraryResultProofs -----------------------
(***************************************************************************)
(* More proofs about the organiser: the blocks it leaves, the way back     *)
(* after a failed rename, where a successful apply leaves the planned      *)
(* files and all others, and what the next scan and the device make of it. *)
(***************************************************************************)
EXTENDS NamLibraryProofs, WellFoundedInduction

-----------------------------------------------------------------------------
(* The blocks.                                                             *)

(* The block is there; it is torn only for a reason.                       *)
BlockDone(t, i) ==
  /\ Block(t, i) \in whole \cup torn
  /\ Block(t, i) \in torn =>
       \/ "close" \in mishaps
       \/ ~option.overwrite /\ mishaps \cap {"write", "crash"} # {}

(* The loops have gone past the i-th block of type t.                      *)
Passed(t, i) == t < type \/ (t = type /\ i < at)

BlocksInv ==
  /\ step # "blocks" => type = 1
  /\ step = "blocks" => type <= option.kinds
  /\ torn # {} => mishaps \cap {"write", "crash", "close"} # {}
  /\ step = "blocks" =>
       \A t \in 1 .. option.kinds, i \in DOMAIN plan :
         Passed(t, i) => BlockDone(t, i)
  /\ step = "result" =>
       \A t \in 1 .. option.kinds, i \in DOMAIN plan : BlockDone(t, i)


LEMMA BlocksInit == Init => BlocksInv
BY DEF Init, BlocksInv

(* A step that leaves blocks alone and neither starts nor ends their       *)
(* writing.                                                                *)
LEMMA BlocksStill ==
  ASSUME BlocksInv, UNCHANGED <<torn, whole>>, mishaps \subseteq mishaps',
         step # "blocks", step' \notin {"blocks", "result"}, type' \in {type, 1}
  PROVE  BlocksInv'
BY DEF BlocksInv

(* What writing one block, or keeping it, does to it and to the others.    *)
LEMMA BlockWritten ==
  ASSUME TypeInv, BlocksInv, WriteBlock, NextBlock
  PROVE  \A t, i : BlockDone(t, i) \/ (t = type /\ i = at) => BlockDone(t, i)'
<1> DEFINE b == Block(type, at)
<1>1. /\ UNCHANGED <<plan, option>> /\ mishaps \subseteq mishaps'
      /\ whole \cup torn \subseteq whole' \cup torn'
      /\ b \in whole' \cup torn'
      /\ torn' \subseteq torn \/ "close" \in mishaps'
  BY DEF WriteBlock, KeepsBlock, Happens, NextBlock
<1>2. b \in torn' => \/ "close" \in mishaps'
                     \/ ~option.overwrite /\ mishaps \cap {"write", "crash"} # {}
  BY DEF WriteBlock, KeepsBlock, Happens, BlocksInv, NextBlock
<1>3. ASSUME NEW t, NEW i, t = type, i = at PROVE BlockDone(t, i)'
  <2>1. Block(t, i)' = b
    BY <1>1, <1>3 DEF Block
  <2> QED
    BY <1>1, <1>2, <2>1 DEF BlockDone
<1>4. ASSUME NEW t, NEW i, BlockDone(t, i) PROVE BlockDone(t, i)'
  <2>1. Block(t, i)' = Block(t, i)
    BY <1>1 DEF Block
  <2> QED
    BY <1>1, <1>4, <2>1 DEF BlockDone
<1> QED
  BY <1>3, <1>4

LEMMA BlocksStep == TypeInv /\ BlocksInv /\ [Next]_vars => BlocksInv'
<1> SUFFICES ASSUME TypeInv, BlocksInv, [Next]_vars PROVE BlocksInv'
  OBVIOUS
<1>1. CASE Detect \/ PickDrive
  <2>1. /\ UNCHANGED <<torn, whole, mishaps>> /\ type' \in {type, 1}
        /\ step # "blocks" /\ step' \notin {"blocks", "result"}
    BY <1>1 DEF Detect, PickDrive, Scan, Steps, folderVars
  <2> QED
    BY <2>1, BlocksStill
<1>2. CASE \/ Back \/ ApplyStart
           \/ \E i \in DOMAIN plan : i < Len(plan) /\ SwapItems(i, i + 1)
  <2>1. /\ UNCHANGED <<torn, whole, mishaps, type>>
        /\ step # "blocks" /\ step' \notin {"blocks", "result"}
    BY <1>2 DEF Back, ApplyStart, SwapItems, folderVars, applyVars
  <2> QED
    BY <2>1, BlocksStill
<1>3. ASSUME NEW m \in Models, UserCopies(m) PROVE BlocksInv'
  <2>1. /\ UNCHANGED <<torn, whole, type>> /\ mishaps \subseteq mishaps'
        /\ step # "blocks" /\ step' \notin {"blocks", "result"}
    BY <1>3 DEF UserCopies, Happens, applyVars
  <2> QED
    BY <2>1, BlocksStill
<1>4. CASE Phase1 \/ Phase2 \/ Undo \/ Restore
  <2>1. /\ UNCHANGED <<torn, whole, type, option, plan>>
        /\ mishaps \subseteq mishaps' /\ step # "blocks" /\ type = 1
    BY <1>4, RenameFailsTyped
    DEF Phase1, Phase2, Undo, Restore, applyFrame, TypeInv, Rename, BlocksInv
  <2>2. CASE step' \notin {"blocks", "result"}
    BY <2>1, <2>2, BlocksStill
  <2>3. CASE step' \in {"blocks", "result"}
    <3>1. at' = 1 /\ step' = AfterRenames
      BY <1>4, <2>3 DEF Phase1, Phase2, Undo, Restore, Advance
    <3>2. option.kinds \in 0 .. 2
      BY LibraryAssumption DEF TypeInv, TypeOK, NoOption, LibraryAssumption
    <3>3. \A i \in DOMAIN plan : i \in Nat /\ i >= 1
      BY PlanTyped DEF TypeInv
    <3> QED
      BY <2>1, <2>3, <3>1, <3>2, <3>3 DEF AfterRenames, BlocksInv, Passed
  <2> QED
    BY <2>2, <2>3
<1>5. CASE WriteBlock
  <2>1. step = "blocks" /\ UNCHANGED <<plan, option>> /\ at \in DOMAIN plan
        /\ DOMAIN plan = 1 .. Len(plan) /\ Len(plan) \in Nat
        /\ type \in {1, 2} /\ option.kinds \in 0 .. 2 /\ type <= option.kinds
    <3>1. option.kinds \in 0 .. 2
      BY LibraryAssumption DEF TypeInv, TypeOK, NoOption, LibraryAssumption
    <3> QED
      BY <1>5, <3>1, PlanTyped
      DEF WriteBlock, TypeInv, TypeOK, Loop, Applying, BlockTypes, BlocksInv
  <2>2. CASE NextBlock
    <3>1. \A t, i : BlockDone(t, i) \/ (t = type /\ i = at) => BlockDone(t, i)'
      BY <1>5, <2>2, BlockWritten
    <3>2. torn' # {} => mishaps' \cap {"write", "crash", "close"} # {}
      BY <1>5 DEF WriteBlock, Happens, BlocksInv
    <3>3. ASSUME NEW t \in 1 .. option.kinds, NEW i \in DOMAIN plan,
                 Passed(t, i) \/ (t = type /\ i = at)
          PROVE  BlockDone(t, i)'
      BY <2>1, <3>1, <3>3 DEF BlocksInv
    <3>4. CASE at < Len(plan)
      <4>1. at' = at + 1 /\ type' = type /\ step' = "blocks"
        BY <2>1, <2>2, <3>4 DEF NextBlock
      <4>2. \A t \in 1 .. option.kinds, i \in DOMAIN plan :
              Passed(t, i)' => Passed(t, i) \/ (t = type /\ i = at)
        BY <2>1, <4>1 DEF Passed
      <4> QED
        BY <2>1, <3>2, <3>3, <4>1, <4>2 DEF BlocksInv
    <3>5. CASE at = Len(plan)
      <4>1. \A t \in 1 .. option.kinds, i \in DOMAIN plan :
              t <= type => Passed(t, i) \/ (t = type /\ i = at)
        BY <2>1, <3>5 DEF Passed
      <4>2. CASE type < option.kinds
        <5>1. at' = 1 /\ type' = type + 1 /\ step' = "blocks"
          BY <2>1, <2>2, <3>5, <4>2 DEF NextBlock
        <5>2. \A t \in 1 .. option.kinds, i \in DOMAIN plan :
                Passed(t, i)' => t <= type
          BY <2>1, <5>1 DEF Passed
        <5> QED
          BY <2>1, <3>2, <3>3, <4>1, <4>2, <5>1, <5>2 DEF BlocksInv
      <4>3. CASE type = option.kinds
        <5>1. type' = 1 /\ step' = "result"
          BY <2>1, <2>2, <3>5, <4>3 DEF NextBlock
        <5>2. \A t \in 1 .. option.kinds : t <= type
          BY <2>1, <4>3
        <5> QED
          BY <2>1, <3>2, <3>3, <4>1, <5>1, <5>2 DEF BlocksInv
      <4> QED
        BY <2>1, <4>2, <4>3
    <3> QED
      BY <2>1, <3>4, <3>5
  <2>3. CASE step' = "error" /\ type' = 1 /\ Happens("write")
    BY <2>3 DEF BlocksInv, Happens
  <2> QED
    BY <1>5, <2>2, <2>3 DEF WriteBlock
<1>6. CASE Crash
  BY <1>6 DEF Crash, Happens, BlocksInv
<1>7. CASE UNCHANGED vars
  BY <1>7
  DEF vars, folderVars, applyVars, BlocksInv, BlockDone, Block, Passed
<1> QED
  BY <1>1, <1>2, <1>3, <1>4, <1>5, <1>6, <1>7 DEF Next

(* After a success every ticked block of every item whose title leaves     *)
(* room for ".block" exists under that name, and it is complete unless     *)
(* fclose kept quiet about a loss or an earlier apply left it torn and it  *)
(* was to be kept.                                                         *)
THEOREM BlocksAreComplete == Spec => []BlocksComplete
<1>1. Init => TypeInv /\ BlocksInv
  BY TypeInit, BlocksInit
<1>2. TypeInv /\ BlocksInv /\ [Next]_vars => (TypeInv /\ BlocksInv)'
  BY TypeStep, BlocksStep
<1>3. BlocksInv => BlocksComplete
  <2> SUFFICES ASSUME BlocksInv, step = "result", NEW t \in 1 .. option.kinds,
                      NEW i \in DOMAIN plan, plan[i].base \notin LongTitles
               PROVE  LET b == <<t, Name("block", i - 1, plan[i].base)>>
                      IN  /\ b \in whole \cup torn
                          /\ b \in torn =>
                               \/ "close" \in mishaps
                               \/ /\ ~option.overwrite
                                  /\ mishaps \cap {"write", "crash"} # {}
    BY DEF BlocksComplete
  <2>1. Block(t, i) = <<t, Name("block", i - 1, plan[i].base)>>
    BY DEF Block
  <2>2. BlockDone(t, i)
    BY DEF BlocksInv
  <2> QED
    BY <2>1, <2>2 DEF BlockDone
<1> QED
  BY <1>1, <1>2, <1>3, PTL DEF Spec

-----------------------------------------------------------------------------
(* The way back.                                                           *)

Planned(m) == \E i \in DOMAIN plan : before[m] = plan[i]

(* A plan that still is what a scan of the folder would find.              *)
PlanCurrent ==
  /\ before \in [Models -> DiskNames]
  /\ edited => "copy" \in mishaps
  /\ step = "preview" /\ ~edited => before = where
  /\ step \in {"preview", "result"} \cup Applying /\ ~edited =>
       /\ \A m \in Models : before[m].kind = "nam" <=> Planned(m)
       /\ \A i \in DOMAIN plan : \E m \in Models : before[m] = plan[i]

(* No rollback has failed, the plan is current and free of twins, and no   *)
(* file is in the way that rename() would replace.                         *)
Quiet ==
  /\ ~edited /\ "undo" \notin mishaps /\ ~Twins(plan)
  /\ replaces => \A m \in Models : before[m].kind \notin {"tmp", "cut"}

(* Every item's file is in the item's place, and every other file where it *)
(* was and in nobody's way.                                                *)
InPlace(m) ==
  \/ \E i \in DOMAIN plan : before[m] = plan[i] /\ where[m] = Place(i)
  \/ /\ ~Planned(m) /\ where[m] = before[m]
     /\ \A i \in DOMAIN plan :
          /\ where[m] # Place(i)
          /\ state[i] = 2 => where[m] # Tmp(i)

(* A rollback has brought home the items it has gone past.                 *)
ComingHome ==
  /\ step \in {"undo", "restore"} => \A i \in DOMAIN plan : i < at => state[i] = 0
  /\ step = "restore" => state[at] # 2

RollbackInv ==
  Quiet /\ step \in Applying \cup {"result"} =>
    /\ \A m \in Models : InPlace(m)
    /\ ComingHome


LEMMA PlanCurrentInit == Init => PlanCurrent
<1> SUFFICES ASSUME Init PROVE PlanCurrent
  OBVIOUS
<1>1. where \in [Models -> DiskNames]
  BY TypeInit DEF TypeInv, TypeOK
<1> QED
  BY <1>1 DEF Init, PlanCurrent, Applying

LEMMA PlanCurrentStep == TypeInv /\ PlanCurrent /\ [Next]_vars => PlanCurrent'
<1> SUFFICES ASSUME TypeInv, PlanCurrent, [Next]_vars PROVE PlanCurrent'
  OBVIOUS
<1>0. TypeOK /\ where \in [Models -> DiskNames]
  BY DEF TypeInv, TypeOK
<1>1. CASE Detect \/ PickDrive
  <2>1. /\ where' = where /\ before' = where /\ edited' = FALSE
        /\ step' \in {"no_drive", "pick_drive", "preview", "error"}
        /\ step' = "preview" => {plan'[i] : i \in DOMAIN plan'} = Scanned
    BY <1>0, <1>1, ScanPlan DEF Detect, PickDrive, folderVars
  <2>2. CASE step' # "preview"
    BY <1>0, <2>1, <2>2 DEF PlanCurrent, Applying
  <2>3. CASE step' = "preview"
    <3>1. \A m \in Models : where[m].kind = "nam" <=> where[m] \in Scanned
      BY DEF Scanned
    <3>2. \A n \in Scanned : \E m \in Models : n = where[m]
      BY DEF Scanned
    <3>3. \A i \in DOMAIN plan' : plan'[i] \in Scanned
      BY <2>1, <2>3
    <3>4. \A m \in Models : where[m] \in Scanned <=>
                              \E i \in DOMAIN plan' : where[m] = plan'[i]
      BY <2>1, <2>3
    <3> QED
      BY <1>0, <2>1, <3>1, <3>2, <3>3, <3>4 DEF PlanCurrent, Planned
  <2> QED
    BY <2>2, <2>3
<1>2. CASE Back \/ Crash
  BY <1>0, <1>2 DEF Back, Crash, PlanCurrent, Applying, folderVars
<1>3. ASSUME NEW i \in DOMAIN plan, i < Len(plan), SwapItems(i, i + 1)
      PROVE  PlanCurrent'
  <2>1. i + 1 \in DOMAIN plan
    BY <1>0, <1>3, PlanTyped
  <2>2. /\ DOMAIN plan' = DOMAIN plan
        /\ plan' = [plan EXCEPT ![i] = plan[i + 1], ![i + 1] = plan[i]]
        /\ step = "preview" /\ step' = "preview"
        /\ UNCHANGED <<where, before, edited, mishaps>>
    BY <1>3 DEF SwapItems, folderVars
  <2>3. /\ \A k \in DOMAIN plan : \E j \in DOMAIN plan : plan'[k] = plan[j]
        /\ \A k \in DOMAIN plan : \E j \in DOMAIN plan : plan'[j] = plan[k]
    BY <2>1, <2>2
  <2>4. ASSUME NEW m \in Models PROVE Planned(m)' <=> Planned(m)
    <3>1. Planned(m)' => Planned(m)
      <4> SUFFICES ASSUME NEW k \in DOMAIN plan, before[m] = plan'[k]
                   PROVE  Planned(m)
        BY <2>2 DEF Planned
      <4> QED
        BY <2>3 DEF Planned
    <3>2. Planned(m) => Planned(m)'
      <4> SUFFICES ASSUME NEW k \in DOMAIN plan, before[m] = plan[k]
                   PROVE  \E j \in DOMAIN plan : before[m] = plan'[j]
        BY <2>2 DEF Planned
      <4> QED
        BY <2>3
    <3> QED
      BY <3>1, <3>2
  <2> QED
    BY <2>2, <2>3, <2>4 DEF PlanCurrent
<1>4. CASE ApplyStart
  <2>1. /\ step = "preview" /\ before' = where
        /\ UNCHANGED <<where, plan, edited, mishaps>> /\ step' = "phase1"
    BY <1>4 DEF ApplyStart, folderVars
  <2>2. ~edited => before = where
    BY <2>1 DEF PlanCurrent
  <2> QED
    BY <1>0, <2>1, <2>2 DEF PlanCurrent, Planned
<1>5. CASE Phase1 \/ Phase2 \/ Undo \/ Restore \/ WriteBlock
  <2>1. /\ UNCHANGED <<plan, before, edited>> /\ mishaps \subseteq mishaps'
        /\ step \in Applying /\ step' # "preview"
    BY <1>5
    DEF Phase1, Phase2, Undo, Restore, WriteBlock, Advance, AfterRenames,
        NextBlock, applyFrame, Rename, RenameFails, Happens, Applying
  <2> QED
    BY <2>1 DEF PlanCurrent, Planned
<1>6. ASSUME NEW m \in Models, UserCopies(m) PROVE PlanCurrent'
  BY <1>6 DEF UserCopies, Happens, PlanCurrent
<1>7. CASE UNCHANGED vars
  BY <1>7 DEF vars, folderVars, PlanCurrent, Planned
<1> QED
  BY <1>1, <1>2, <1>3, <1>4, <1>5, <1>6, <1>7 DEF Next

(* Without twins the three names of one item are nobody else's.            *)
LEMMA PlacesApart ==
  ASSUME TypeOK, ~Twins(plan),
         NEW i \in DOMAIN plan, NEW j \in DOMAIN plan, i # j
  PROVE  Place(i) \notin {plan[j], Tmp(j), New(plan, j), Place(j)}
<1>1. /\ plan[i].kind = "nam" /\ plan[j].kind = "nam"
      /\ Tmp(i).kind = "tmp" /\ Tmp(j).kind = "tmp"
      /\ New(plan, i).kind # "tmp" /\ New(plan, j).kind # "tmp"
      /\ Tmp(i).num = i - 1 /\ Tmp(j).num = j - 1
      /\ New(plan, i).base = plan[i].base /\ New(plan, j).base = plan[j].base
  BY NamesOfItems DEF NamNames
<1>2. plan[i].base # plan[j].base /\ i - 1 # j - 1
  BY NamesOfItems DEF Twins
<1>3. Place(i) \notin {plan[j], New(plan, j)}
  BY <1>1, <1>2 DEF Place
<1>4. Place(i) # Tmp(j)
  BY <1>1, <1>2 DEF Place
<1>5. Place(j) \in {plan[j], Tmp(j), New(plan, j)}
  BY DEF Place
<1> QED
  BY <1>3, <1>4, <1>5

(* A rename of an item from its place to another of its names leaves every *)
(* other file in its place.                                                *)
LEMMA QuietMove ==
  ASSUME TypeInv, PlanCurrent, Quiet, step \in Applying,
         \A m \in Models : InPlace(m), UNCHANGED <<plan, before>>,
         NEW new, NEW s, Rename(Place(at), new), Mark(at, s),
         \/ s = 0 /\ new = plan[at]
         \/ s = 1 /\ new = Tmp(at)
         \/ s = 2 /\ new = New(plan, at) /\ state[at] = 1,
         NEW m \in Models
  PROVE  InPlace(m)'
<1>1. at \in DOMAIN plan /\ TypeOK /\ ~Twins(plan) /\ ~edited
  BY DEF TypeInv, Loop, Quiet
<1>2. \A k \in DOMAIN plan : state'[k] = IF k = at THEN s ELSE state[k]
  BY MarkState
<1>3. \A k : Tmp(k)' = Tmp(k) /\ New(plan, k)' = New(plan, k)
  BY DEF Tmp, New
<1>4. \A k \in DOMAIN plan : k = at => Place(k)' = new
  BY <1>1, <1>2, <1>3 DEF Place
<1>5. \A k \in DOMAIN plan : k # at => Place(k)' = Place(k)
  BY <1>2, <1>3 DEF Place
<1>6. new \in {plan[at], Tmp(at), New(plan, at)}
  OBVIOUS
<1>7. CASE \E i \in DOMAIN plan : before[m] = plan[i] /\ where[m] = Place(i)
  <2>1. PICK i \in DOMAIN plan : before[m] = plan[i] /\ where[m] = Place(i)
    BY <1>7
  <2>2. CASE i = at
    <3>1. where'[m] = Place(i)'
      BY <1>4, <2>1, <2>2, RenameEffect
    <3> QED
      BY <2>1, <3>1 DEF InPlace
  <2>3. CASE i # at
    <3>1. where[m] # Place(at) /\ where[m] # new
      BY <1>1, <1>6, <2>1, <2>3, PlacesApart
    <3>2. where'[m] = Place(i)'
      BY <1>5, <2>1, <2>3, <3>1, RenameEffect
    <3> QED
      BY <2>1, <3>2 DEF InPlace
  <2> QED
    BY <2>2, <2>3
<1>8. CASE /\ ~Planned(m) /\ where[m] = before[m]
           /\ \A i \in DOMAIN plan :
                /\ where[m] # Place(i)
                /\ state[i] = 2 => where[m] # Tmp(i)
  <2>1. before[m].kind # "nam"
    BY <1>1, <1>8 DEF PlanCurrent
  <2>2. new.kind \in {"nam", "tmp", "cut"}
    BY <1>1, <1>6, NamesOfItems DEF NamNames
  <2>3. where[m] # new
    BY <1>8, <2>1, <2>2 DEF Rename, OnDisk, Quiet
  <2>4. where'[m] = where[m]
    BY <1>1, <1>8, <2>3, RenameEffect
  <2>5. ~Planned(m)'
    BY <1>8 DEF Planned
  <2>6. ASSUME NEW i \in DOMAIN plan
        PROVE  /\ where'[m] # Place(i)'
               /\ state'[i] = 2 => where'[m] # Tmp(i)'
    <3>1. CASE i = at
      <4>1. state'[i] = 2 => Place(at) = Tmp(at)
        BY <1>2, <3>1 DEF Place
      <4> QED
        BY <1>3, <1>4, <1>8, <2>3, <2>4, <3>1, <4>1
    <3>2. CASE i # at
      BY <1>2, <1>3, <1>5, <1>8, <2>4, <3>2
    <3> QED
      BY <3>1, <3>2
  <2> QED
    BY <1>8, <2>4, <2>5, <2>6 DEF InPlace
<1> QED
  BY <1>7, <1>8 DEF InPlace

(* What a rename needs: the file is there, and on the way back nothing is  *)
(* under the name it goes to.                                              *)
LEMMA QuietWorks ==
  ASSUME TypeInv, Shape, PlanCurrent, Quiet, step \in Applying,
         \A m \in Models : InPlace(m)
  PROVE  /\ OnDisk(Place(at))
         /\ state[at] = 2 => ~OnDisk(Tmp(at))
         /\ state[at] = 1 => ~OnDisk(plan[at])
<1>1. at \in DOMAIN plan /\ TypeOK /\ ~Twins(plan) /\ ~edited
  BY DEF TypeInv, Loop, Quiet
<1>2. OnDisk(Place(at))
  <2>1. PICK m \in Models : before[m] = plan[at]
    BY <1>1 DEF PlanCurrent
  <2>2. Planned(m) /\ InPlace(m)
    BY <1>1, <2>1 DEF Planned
  <2>3. PICK i \in DOMAIN plan : before[m] = plan[i] /\ where[m] = Place(i)
    BY <2>2 DEF InPlace
  <2>4. i = at
    BY <1>1, <2>1, <2>3 DEF Shape
  <2> QED
    BY <2>3, <2>4 DEF OnDisk
<1>3. /\ plan[at].kind = "nam" /\ Tmp(at).kind = "tmp"
      /\ New(plan, at).kind # "tmp"
  BY <1>1, NamesOfItems DEF NamNames
<1>4. ASSUME state[at] = 2, NEW m \in Models, where[m] = Tmp(at) PROVE FALSE
  <2>1. InPlace(m)
    OBVIOUS
  <2>2. PICK i \in DOMAIN plan : where[m] = Place(i)
    BY <1>1, <1>4, <2>1 DEF InPlace
  <2>3. i = at
    BY <1>1, <1>4, <2>2, PlacesApart
  <2> QED
    BY <1>3, <1>4, <2>2, <2>3 DEF Place
<1>5. ASSUME state[at] = 1, NEW m \in Models, where[m] = plan[at] PROVE FALSE
  <2>1. InPlace(m)
    OBVIOUS
  <2>2. PICK i \in DOMAIN plan : where[m] = Place(i)
    BY <1>1, <1>5, <2>1 DEF InPlace, Planned
  <2>3. i = at
    BY <1>1, <1>5, <2>2, PlacesApart
  <2> QED
    BY <1>3, <1>5, <2>2, <2>3 DEF Place
<1> QED
  BY <1>2, <1>4, <1>5 DEF OnDisk

(* Both halves of the rollback of an item do what they are for.            *)
LEMMA QuietUndo ==
  ASSUME TypeInv, Shape, PlanCurrent, Quiet, RollbackInv, Undo,
         "undo" \notin mishaps'
  PROVE  /\ \A m \in Models : InPlace(m)'
         /\ state'[at] # 2
         /\ \A k \in DOMAIN plan : k # at => state'[k] = state[k]
<1>1. /\ step \in Applying /\ at \in DOMAIN plan /\ UNCHANGED <<plan, before>>
      /\ \A m \in Models : InPlace(m)
  BY DEF Undo, applyFrame, Applying, TypeInv, Loop, RollbackInv
<1>2. CASE state[at] # 2 /\ UNCHANGED <<where, state>>
  <2>1. \A m \in Models : InPlace(m)'
    BY <1>1, <1>2 DEF InPlace, Planned, Place, New, Tmp
  <2> QED
    BY <1>2, <2>1
<1>3. CASE state[at] = 2
  <2>1. Place(at) = New(plan, at)
    BY <1>3 DEF Place
  <2>2. Rename(New(plan, at), Tmp(at)) /\ Mark(at, 1)
    BY <1>1, <1>3, <2>1, QuietWorks
    DEF Undo, AtNew, RenameFails, Happens
  <2>3. \A m \in Models : InPlace(m)'
    BY <1>1, <2>1, <2>2, QuietMove
  <2> QED
    BY <1>1, <2>2, <2>3, MarkState
<1> QED
  BY <1>2, <1>3 DEF Undo, AtNew

LEMMA QuietRestore ==
  ASSUME TypeInv, Shape, PlanCurrent, Quiet, RollbackInv, Restore,
         "undo" \notin mishaps'
  PROVE  /\ \A m \in Models : InPlace(m)'
         /\ \A k \in DOMAIN plan : k <= at => state'[k] = 0
<1>1. /\ step \in Applying /\ at \in DOMAIN plan /\ UNCHANGED <<plan, before>>
      /\ \A m \in Models : InPlace(m)
      /\ \A k \in DOMAIN plan : k < at => state[k] = 0
      /\ state[at] \in {0, 1}
      /\ \A k \in DOMAIN plan : k \in Int
  <2>1. step \in Applying /\ at \in DOMAIN plan
    BY DEF Restore, Applying, TypeInv, Loop
  <2>2. state[at] \in 0 .. 2 /\ \A k \in DOMAIN plan : k \in Int
    BY <2>1, PlanTyped DEF TypeInv, TypeOK
  <2> QED
    BY <2>1, <2>2 DEF Restore, applyFrame, RollbackInv, ComingHome
<1>2. CASE state[at] = 0
  <2>1. UNCHANGED <<where, state>>
    BY <1>2 DEF Restore, AtTmp
  <2>2. \A m \in Models : InPlace(m)'
    BY <1>1, <2>1 DEF InPlace, Planned, Place, New, Tmp
  <2> QED
    BY <1>1, <1>2, <2>1, <2>2
<1>3. CASE state[at] = 1
  <2>1. Place(at) = Tmp(at)
    BY <1>3 DEF Place
  <2>2. Rename(Tmp(at), plan[at]) /\ Mark(at, 0)
    BY <1>1, <1>3, <2>1, QuietWorks
    DEF Restore, AtTmp, RenameFails, Happens
  <2>3. \A m \in Models : InPlace(m)'
    BY <1>1, <2>1, <2>2, QuietMove
  <2>4. \A k \in DOMAIN plan : state'[k] = IF k = at THEN 0 ELSE state[k]
    BY <2>2, MarkState
  <2> QED
    BY <1>1, <2>3, <2>4
<1> QED
  BY <1>1, <1>2, <1>3

LEMMA RollbackInit == Init => RollbackInv
BY DEF Init, RollbackInv, Applying

LEMMA RollbackStep ==
  TypeInv /\ Shape /\ PlanCurrent /\ RollbackInv /\ [Next]_vars => RollbackInv'
<1> SUFFICES ASSUME TypeInv, Shape, PlanCurrent, RollbackInv, [Next]_vars,
                    Quiet', step' \in Applying \cup {"result"}
             PROVE  (\A m \in Models : InPlace(m)') /\ ComingHome'
  BY DEF RollbackInv
<1>1. CASE ApplyStart
  <2>1. /\ step' = "phase1" /\ where' = where /\ before' = where /\ plan' = plan
        /\ \A k \in DOMAIN plan : state'[k] = 0
    BY <1>1 DEF ApplyStart, Shape, folderVars, applyVars
  <2>2. \A k \in DOMAIN plan : Place(k)' = plan[k]
    BY <2>1 DEF Place
  <2>3. ASSUME NEW m \in Models PROVE InPlace(m)'
    BY <2>1, <2>2 DEF InPlace, Planned
  <2> QED
    BY <2>1, <2>3 DEF ComingHome
<1>2. CASE Phase1 \/ Phase2
  <2>1. /\ step \in Applying /\ at \in DOMAIN plan
        /\ UNCHANGED <<plan, before, replaces, edited>>
        /\ mishaps \subseteq mishaps' /\ step' # "restore"
        /\ step' = "undo" => at' = 1
    BY <1>2
    DEF Phase1, Phase2, applyFrame, Applying, TypeInv, Loop, Advance,
        AfterRenames, Rename, RenameFails, Happens
  <2>2. Quiet /\ \A m \in Models : InPlace(m)
    <3>1. Quiet
      BY <2>1 DEF Quiet, Twins
    <3> QED
      BY <2>1, <3>1 DEF RollbackInv
  <2>3. \A m \in Models : InPlace(m)'
    <3>1. CASE UNCHANGED <<where, state>>
      BY <2>1, <2>2, <3>1 DEF InPlace, Planned, Place, New, Tmp
    <3>2. CASE Phase1 /\ Rename(plan[at], Tmp(at)) /\ Mark(at, 1)
      <4>1. ~(at < at)
        BY PlanTyped DEF TypeInv
      <4>2. Place(at) = plan[at]
        BY <2>1, <3>2, <4>1 DEF Phase1, Shape, Place
      <4> QED
        BY <2>1, <2>2, <3>2, <4>2, QuietMove
    <3>3. CASE Phase2 /\ AtTmp(at) /\ Rename(Tmp(at), New(plan, at)) /\ Mark(at, 2)
      <4>1. Place(at) = Tmp(at) /\ state[at] = 1
        BY <3>3 DEF AtTmp, Place
      <4> QED
        BY <2>1, <2>2, <3>3, <4>1, QuietMove
    <3> QED
      BY <1>2, <3>1, <3>2, <3>3 DEF Phase1, Phase2, RenameFails
  <2>4. \A k \in DOMAIN plan : ~(k < 1)
    BY PlanTyped DEF TypeInv
  <2> QED
    BY <2>1, <2>3, <2>4 DEF ComingHome
<1>3. CASE Undo \/ Restore
  <2>1. /\ UNCHANGED <<plan, before, replaces, edited>> /\ at \in DOMAIN plan
        /\ mishaps \subseteq mishaps' /\ step \in Applying
        /\ \A k \in DOMAIN plan : k \in Int
    BY <1>3, PlanTyped
    DEF Undo, Restore, applyFrame, Applying, TypeInv, Loop, Rename, RenameFails,
        Happens
  <2>2. Quiet /\ "undo" \notin mishaps'
    BY <2>1 DEF Quiet, Twins
  <2>3. ComingHome
    BY <2>1, <2>2 DEF RollbackInv
  <2>4. CASE Undo
    <3>1. /\ \A m \in Models : InPlace(m)'
          /\ state'[at] # 2
          /\ \A k \in DOMAIN plan : k # at => state'[k] = state[k]
      BY <2>2, <2>4, QuietUndo
    <3>2. at' = at /\ step = "undo" /\ step' = "restore"
      BY <2>4 DEF Undo
    <3> QED
      BY <2>1, <2>3, <3>1, <3>2 DEF ComingHome
  <2>5. CASE Restore
    <3>1. /\ \A m \in Models : InPlace(m)'
          /\ \A k \in DOMAIN plan : k <= at => state'[k] = 0
      BY <2>2, <2>5, QuietRestore
    <3>2. at' = at + 1 /\ step' = "undo"
      BY <2>5 DEF Restore, Applying
    <3> QED
      BY <2>1, <3>1, <3>2 DEF ComingHome
  <2> QED
    BY <1>3, <2>4, <2>5
<1>4. CASE WriteBlock
  <2>1. /\ UNCHANGED <<where, state, plan, before, replaces, edited>>
        /\ mishaps \subseteq mishaps' /\ step = "blocks"
        /\ step' \in {"blocks", "result"}
    BY <1>4 DEF WriteBlock, NextBlock, Happens, Applying
  <2>2. Quiet
    BY <2>1 DEF Quiet, Twins
  <2> QED
    BY <2>1, <2>2
    DEF RollbackInv, Applying, ComingHome, InPlace, Planned, Place, New, Tmp
<1>5. CASE UNCHANGED vars
  BY <1>5
  DEF vars, folderVars, applyVars, RollbackInv, Quiet, Twins, ComingHome,
      InPlace, Planned, Place, New, Tmp
<1>6. CASE Detect \/ PickDrive \/ Back \/ Crash
  <2>1. step' \in {"closed", "no_drive", "pick_drive", "preview", "error"}
    BY <1>6 DEF Detect, PickDrive, Back, Crash, Scan
  <2> QED
    BY <2>1 DEF Applying
<1>7. CASE \/ \E i \in DOMAIN plan : i < Len(plan) /\ SwapItems(i, i + 1)
           \/ \E m \in Models : UserCopies(m)
  BY <1>7 DEF SwapItems, UserCopies, Applying
<1> QED
  BY <1>1, <1>2, <1>3, <1>4, <1>5, <1>6, <1>7 DEF Next

RollbackAll == TypeInv /\ Shape /\ FolderInv /\ PlanCurrent /\ RollbackInv

LEMMA RollbackAllInvariant == Spec => []RollbackAll
<1>1. Init => RollbackAll
  BY TypeInit, ShapeInit, FolderInit, PlanCurrentInit, RollbackInit
  DEF RollbackAll
<1>2. RollbackAll /\ [Next]_vars => RollbackAll'
  BY TypeStep, ShapeStep, FolderStep, PlanCurrentStep, RollbackStep
  DEF RollbackAll
<1> QED
  BY <1>1, <1>2, PTL DEF Spec

(* The last step of a quiet rollback has brought every file home.          *)
LEMMA QuietHome ==
  ASSUME RollbackAll, Quiet, Restore, step' = "error", "undo" \notin mishaps'
  PROVE  where' = before
<1>1. /\ UNCHANGED <<plan, before>> /\ at \in DOMAIN plan
      /\ where' \in [Models -> DiskNames] /\ before \in [Models -> DiskNames]
  <2>1. TypeInv'
    BY TypeStep DEF RollbackAll, Next
  <2> QED
    BY <2>1
    DEF RollbackAll, Restore, applyFrame, TypeInv, TypeOK, Loop, Applying,
        PlanCurrent
<1>2. \A k \in DOMAIN plan : k <= at
  BY PlanTyped DEF RollbackAll, TypeInv, Restore
<1>3. /\ \A m \in Models : InPlace(m)'
      /\ \A k \in DOMAIN plan : state'[k] = 0
  BY <1>2, QuietRestore DEF RollbackAll
<1>4. \A k \in DOMAIN plan : Place(k)' = plan[k]
  BY <1>1, <1>3 DEF Place
<1>5. \A m \in Models : where'[m] = before[m]
  BY <1>1, <1>3, <1>4 DEF InPlace
<1> QED
  BY <1>1, <1>5

(* After a failed apply the folder is what it was, if every undoing rename *)
(* works, no two base names are the same, no file lay about under a name   *)
(* that scans do not see and nobody else has touched the folder.           *)
THEOREM RollbackIsComplete == Spec => RollbackRestores
<1> DEFINE Undone == /\ step = "restore" /\ step' = "error"
                     /\ ~edited /\ "undo" \notin mishaps' /\ ~Twins(plan)
                     /\ \A m \in Models : before[m].kind \notin {"tmp", "cut"}
<1>1. RollbackAll /\ [Next]_vars => [Undone => where' = before]_vars
  <2> SUFFICES ASSUME RollbackAll, Next, Undone PROVE where' = before
    OBVIOUS
  <2>1. Restore
    BY DEF Next, Detect, PickDrive, Back, SwapItems, ApplyStart, Phase1, Phase2,
           Undo, WriteBlock, Crash, UserCopies, Steps
  <2>2. "undo" \notin mishaps
    BY <2>1 DEF Restore, Rename, RenameFails, Happens
  <2> QED
    BY <2>1, <2>2, QuietHome DEF Quiet
<1> QED
  BY <1>1, RollbackAllInvariant, PTL DEF Spec, RollbackRestores

-----------------------------------------------------------------------------
(* The folder after a success.                                             *)

(* No two files have the same name.                                        *)
NamesDistinct ==
  \A m, k \in Models :
    where[m] = where[k] => m = k \/ where[m].kind \in {"absent", "lost"}

(* What may have happened to a file that lay under a name of the plan.     *)
Replaced(m) ==
  /\ where[m] = Lost /\ replaces
  /\ mishaps \cap {"undo", "crash", "copy"} # {}
  /\ \E i \in DOMAIN plan : before[m] \in {Tmp(i), New(plan, i)}

(* A file that is not planned stays where it was or is replaced; it is     *)
(* never under a temporary name that the second phase will take up.        *)
StrangersStay ==
  step \in {"phase1", "phase2", "blocks", "result"} =>
    \A m \in Models : ~Planned(m) =>
      /\ where[m] = before[m] \/ Replaced(m)
      /\ \A i \in DOMAIN plan : state[i] = 1 => where[m] # Tmp(i)

LEMMA DistinctInit == Init => NamesDistinct
<1> SUFFICES ASSUME Init, NEW m \in Models, NEW k \in Models,
                    where[m] = where[k]
             PROVE  m = k \/ where[m].kind \in {"absent", "lost"}
  BY DEF NamesDistinct
<1>1. m = k \/ where[m] = Absent
  BY LibraryAssumption DEF Init, LibraryAssumption
<1> QED
  BY <1>1 DEF Absent, Name

LEMMA RenameDistinct ==
  ASSUME NamesDistinct, NEW old, NEW new, Rename(old, new),
         old.kind \notin {"absent", "lost"}
  PROVE  NamesDistinct'
<1> SUFFICES ASSUME NEW m \in Models, NEW k \in Models, where'[m] = where'[k],
                    where'[m].kind \notin {"absent", "lost"}
             PROVE  m = k
  BY DEF NamesDistinct
<1>1. where'[m] # Lost /\ where'[k] # Lost
  BY DEF Lost, Name
<1>2. CASE where[m] = old
  <2>1. where'[k] = new
    BY <1>2, RenameEffect
  <2>2. where[k] = old
    BY <1>1, <2>1, RenameEffect
  <2> QED
    BY <1>2, <2>2 DEF NamesDistinct
<1>3. CASE where[m] # old
  <2>1. where[m] # new /\ where'[m] = where[m]
    BY <1>1, <1>3, RenameEffect
  <2>2. where[k] # old /\ where'[k] = where[k]
    BY <1>1, <2>1, RenameEffect
  <2> QED
    BY <2>1, <2>2 DEF NamesDistinct
<1> QED
  BY <1>2, <1>3

LEMMA DistinctStep == TypeInv /\ NamesDistinct /\ [Next]_vars => NamesDistinct'
<1> SUFFICES ASSUME TypeInv, NamesDistinct, [Next]_vars PROVE NamesDistinct'
  OBVIOUS
<1>1. CASE UNCHANGED where
  BY <1>1 DEF NamesDistinct
<1>2. CASE Phase1 \/ Phase2 \/ Undo \/ Restore
  <2>1. at \in DOMAIN plan /\ TypeOK
    BY <1>2 DEF Phase1, Phase2, Undo, Restore, TypeInv, Loop, Applying
  <2>2. \A n \in {plan[at], Tmp(at), New(plan, at)} :
          n.kind \notin {"absent", "lost"}
    BY <2>1, NamesOfItems DEF NamNames
  <2>3. \/ UNCHANGED where
        \/ \E old, new \in {plan[at], Tmp(at), New(plan, at)} : Rename(old, new)
    BY <1>2 DEF Phase1, Phase2, Undo, Restore, RenameFails
  <2> QED
    BY <1>1, <2>2, <2>3, RenameDistinct
<1>3. ASSUME NEW c \in Models, UserCopies(c) PROVE NamesDistinct'
  <2>1. PICK n \in UserNames : ~OnDisk(n) /\ where' = [where EXCEPT ![c] = n]
    BY <1>3 DEF UserCopies
  <2>2. \A m \in Models : where'[m] = IF m = c THEN n ELSE where[m]
    BY <2>1 DEF TypeInv, TypeOK
  <2> QED
    BY <2>1, <2>2 DEF NamesDistinct, OnDisk
<1> QED
  BY <1>1, <1>2, <1>3
  DEF Next, Detect, PickDrive, Back, SwapItems, ApplyStart, WriteBlock, Crash,
      vars, folderVars

LEMMA StrangersInit == Init => StrangersStay
BY DEF Init, StrangersStay

LEMMA StrangersStep ==
  KeepInv /\ StrangersStay /\ [Next]_vars => StrangersStay'
<1> SUFFICES ASSUME KeepInv, StrangersStay, [Next]_vars,
                    step' \in {"phase1", "phase2", "blocks", "result"},
                    NEW m \in Models, ~Planned(m)'
             PROVE  /\ where'[m] = before'[m] \/ Replaced(m)'
                    /\ \A i \in DOMAIN plan' : state'[i] = 1 => where'[m] # Tmp(i)
  BY DEF StrangersStay, Tmp
<1> USE DEF KeepInv
<1>1. CASE ApplyStart
  BY <1>1 DEF ApplyStart, Shape, folderVars, applyVars
<1>2. CASE Phase1 \/ Phase2
  <2>1. /\ UNCHANGED <<plan, before, replaces>> /\ mishaps \subseteq mishaps'
        /\ at \in DOMAIN plan
        /\ step \in {"phase1", "phase2"} /\ TypeOK
    BY <1>2
    DEF Phase1, Phase2, applyFrame, TypeInv, Loop, Applying, Rename,
        RenameFails, Happens
  <2>2. /\ ~Planned(m) /\ (where[m] = before[m] \/ Replaced(m))
        /\ \A i \in DOMAIN plan : state[i] = 1 => where[m] # Tmp(i)
    BY <2>1 DEF StrangersStay, Planned
  <2>3. /\ Tmp(at).kind = "tmp" /\ plan[at].kind = "nam" /\ Lost.kind = "lost"
        /\ New(plan, at).kind \in {"nam", "cut"}
    BY <2>1, NamesOfItems DEF NamNames, Lost, Name
  <2>4. ASSUME NEW old, NEW new, Rename(old, new),
               new \in {Tmp(at), New(plan, at)}, where[m] # old
        PROVE  \/ where'[m] = where[m] /\ where[m] # new
               \/ where'[m] = Lost /\ where[m] = new /\ where[m] = before[m]
    BY <2>2, <2>3, <2>4, RenameEffect DEF Replaced
  <2>5. ASSUME where'[m] = where[m] PROVE where'[m] = before'[m] \/ Replaced(m)'
    BY <2>1, <2>2, <2>5 DEF Replaced, Tmp, New
  <2>6. ASSUME where'[m] = Lost, where[m] \in {Tmp(at), New(plan, at)},
               where[m] = before[m]
        PROVE  Replaced(m)'
    <3>1. LossAllowed
      BY <1>2, <2>3, <2>6, LossIsAllowed DEF Next
    <3> QED
      BY <2>1, <2>6, <3>1 DEF Replaced, LossAllowed, Tmp, New
  <2>7. CASE UNCHANGED <<where, state>>
    BY <2>1, <2>2, <2>5, <2>7
  <2>8. CASE Rename(plan[at], Tmp(at)) /\ Mark(at, 1)
    <3>1. where[m] # plan[at]
      BY <2>1, <2>2, <2>3 DEF Planned, Replaced
    <3>2. \/ where'[m] = where[m] /\ where[m] # Tmp(at)
          \/ /\ where'[m] = Lost /\ where[m] = Tmp(at)
             /\ where[m] = before[m]
      BY <2>4, <2>8, <3>1
    <3>3. ASSUME NEW i \in DOMAIN plan, state'[i] = 1 PROVE where'[m] # Tmp(i)
      <4>1. Tmp(i).kind = "tmp" /\ (i = at \/ state[i] = 1)
        BY <2>1, <2>8, <3>3, MarkState, NamesOfItems
      <4> QED
        BY <2>2, <2>3, <3>2, <4>1
    <3> QED
      BY <2>1, <2>5, <2>6, <3>2, <3>3
  <2>9. CASE state[at] = 1 /\ Rename(Tmp(at), New(plan, at)) /\ Mark(at, 2)
    <3>1. \/ where'[m] = where[m]
          \/ /\ where'[m] = Lost /\ where[m] = New(plan, at)
             /\ where[m] = before[m]
      BY <2>1, <2>2, <2>4, <2>9
    <3>2. ASSUME NEW i \in DOMAIN plan, state'[i] = 1 PROVE where'[m] # Tmp(i)
      <4>1. Tmp(i).kind = "tmp" /\ state[i] = 1
        BY <2>1, <2>9, <3>2, MarkState, NamesOfItems
      <4> QED
        BY <2>2, <2>3, <3>1, <4>1
    <3> QED
      BY <2>1, <2>5, <2>6, <3>1, <3>2
  <2> QED
    BY <1>2, <2>7, <2>8, <2>9 DEF Phase1, Phase2, AtTmp, RenameFails
<1>3. CASE WriteBlock
  <2>1. /\ UNCHANGED <<where, plan, before, state, replaces>> /\ step = "blocks"
        /\ mishaps \subseteq mishaps'
    BY <1>3 DEF WriteBlock, Happens
  <2> QED
    BY <2>1 DEF StrangersStay, Planned, Replaced, Tmp, New
<1>4. CASE UNCHANGED vars
  BY <1>4
  DEF vars, folderVars, applyVars, StrangersStay, Planned, Replaced, Tmp, New
<1>5. CASE Detect \/ PickDrive \/ Back \/ Crash \/ Undo \/ Restore
  BY <1>5 DEF Detect, PickDrive, Back, Crash, Undo, Restore, Scan
<1>6. CASE \/ \E i \in DOMAIN plan : i < Len(plan) /\ SwapItems(i, i + 1)
           \/ \E k \in Models : UserCopies(k)
  BY <1>6 DEF SwapItems, UserCopies
<1> QED
  BY <1>1, <1>2, <1>3, <1>4, <1>5, <1>6 DEF Next

ResultAll ==
  /\ KeepInv /\ Placed /\ PlanCurrent
  /\ NamesDistinct /\ StrangersStay

LEMMA ResultAllInvariant == Spec => []ResultAll
<1>1. Init => ResultAll
  BY KeepInvariant, PlacedInit, PlanCurrentInit, DistinctInit, StrangersInit
  DEF ResultAll
<1>2. ResultAll /\ [Next]_vars => ResultAll'
  BY KeepInvariant, PlacedStep, PlanCurrentStep, DistinctStep, StrangersStep
  DEF ResultAll, KeepInv
<1> QED
  BY <1>1, <1>2, PTL DEF Spec

(* After the second phase every planned file has its new name.             *)
LEMMA PlannedArrive ==
  ASSUME ResultAll, step \in {"blocks", "result"},
         NEW m \in Models, NEW i \in DOMAIN plan, before[m] = plan[i]
  PROVE  where[m] = New(plan, i)
<1>1. where[m] = Place(i) /\ state[i] # 1
  BY DEF ResultAll, KeepInv, Placed, Shape
<1>2. state[i] = 0 => plan[i] = New(plan, i)
  BY DEF ResultAll, KeepInv, Shape, NeedsRename
<1> QED
  BY <1>1, <1>2 DEF Place

(* Whatever goes wrong, an apply that reports success has given every      *)
(* planned file the name the preview showed for it and left every other    *)
(* file where it was, unless it lay under a name of the plan since a       *)
(* mishap and was replaced.                                                *)
THEOREM AppliesThePlan == Spec => []AppliedAsPlanned
<1>1. ResultAll => AppliedAsPlanned
  <2> SUFFICES ASSUME ResultAll, step = "result", NEW m \in Models,
                      ~Planned(m)
               PROVE  where[m] = before[m] \/ Replaced(m)
    BY PlannedArrive DEF AppliedAsPlanned, Planned, Replaced
  <2> QED
    BY DEF ResultAll, StrangersStay
<1> QED
  BY <1>1, ResultAllInvariant, PTL

(* After a success the .nam files are the items at their new names.        *)
LEMMA FolderIsThePlan ==
  ASSUME ResultAll, step = "result", ~edited
  PROVE  /\ \A m \in Models : where[m].kind = "nam" =>
              \E i \in DOMAIN plan : where[m] = New(plan, i)
         /\ \A i \in DOMAIN plan : \E m \in Models : where[m] = New(plan, i)
<1>1. \A m \in Models, i \in DOMAIN plan :
        before[m] = plan[i] => where[m] = New(plan, i)
  BY PlannedArrive
<1>2. ASSUME NEW m \in Models, where[m].kind = "nam" PROVE Planned(m)
  <2>1. SUFFICES ASSUME ~Planned(m) PROVE FALSE
    OBVIOUS
  <2>2. where[m] \in {before[m], Lost}
    BY <2>1 DEF ResultAll, StrangersStay, Replaced
  <2>3. before[m].kind # "nam"
    BY <2>1 DEF ResultAll, PlanCurrent
  <2> QED
    BY <1>2, <2>2, <2>3 DEF Lost, Name
<1>3. \A i \in DOMAIN plan : \E m \in Models : before[m] = plan[i]
  BY DEF ResultAll, PlanCurrent
<1> QED
  BY <1>1, <1>2, <1>3 DEF Planned

-----------------------------------------------------------------------------
(* What no scan sees.                                                      *)

(* A file that an apply has put under a cut name is an item that has       *)
(* arrived; a rollback that works has none of them behind it.              *)
CutKnown ==
  step \in Applying \cup {"result"} =>
    \A m \in Models : where[m].kind = "cut" /\ where[m] # before[m] =>
      \E i \in DOMAIN plan :
        /\ before[m] = plan[i] /\ where[m] = New(plan, i) /\ state[i] = 2
        /\ replaces /\ "undo" \notin mishaps =>
             /\ step = "undo" => i >= at
             /\ step = "restore" => i > at

LEMMA CutInit == Init => CutKnown
BY DEF Init, CutKnown

(* A rename to a name that is not cut gives no file a cut name.            *)
LEMMA CutStays ==
  ASSUME NEW old, NEW new, Rename(old, new), new.kind # "cut",
         NEW m \in Models, where'[m].kind = "cut"
  PROVE  where'[m] = where[m] /\ where[m] # old
BY RenameEffect DEF Lost, Name

LEMMA CutStep == ResultAll /\ CutKnown /\ [Next]_vars => CutKnown'
<1> SUFFICES ASSUME ResultAll, CutKnown, [Next]_vars,
                    step' \in Applying \cup {"result"},
                    NEW m \in Models,
                    where'[m].kind = "cut", where'[m] # before'[m]
             PROVE  \E i \in DOMAIN plan' :
                      /\ before'[m] = plan'[i] /\ where'[m] = New(plan, i)'
                      /\ state'[i] = 2
                      /\ replaces' /\ "undo" \notin mishaps' =>
                           /\ step' = "undo" => i >= at'
                           /\ step' = "restore" => i > at'
  BY DEF CutKnown
<1> USE DEF ResultAll, KeepInv
<1>1. CASE ApplyStart
  BY <1>1 DEF ApplyStart, folderVars
<1>2. CASE Phase1 \/ Phase2 \/ Undo \/ Restore
  <2>1. /\ UNCHANGED <<plan, before, replaces>> /\ mishaps \subseteq mishaps'
        /\ step \in Applying /\ at \in DOMAIN plan /\ TypeOK /\ at \in Int
        /\ \A k \in DOMAIN plan : k \in Int /\ k >= 1
    BY <1>2, PlanTyped
    DEF Phase1, Phase2, Undo, Restore, applyFrame, TypeInv, Loop, Applying,
        Rename, RenameFails, Happens
  <2>2. /\ plan[at].kind # "cut" /\ Tmp(at).kind # "cut"
        /\ \A k \in DOMAIN plan : New(plan, k) = New(plan, at) => k = at
    <3>1. ASSUME NEW k \in DOMAIN plan, New(plan, k) = New(plan, at)
          PROVE  k = at
      <4>1. k - 1 = at - 1
        BY <2>1, <3>1, NamesOfItems
      <4> QED
        BY <2>1, <4>1
    <3> QED
      BY <2>1, <3>1, NamesOfItems DEF NamNames
  <2>3. \A k : New(plan, k)' = New(plan, k)
    BY <2>1 DEF New
  <2>4. ASSUME where'[m] = where[m]
        PROVE  \E i \in DOMAIN plan :
                 /\ before[m] = plan[i] /\ where[m] = New(plan, i)
                 /\ state[i] = 2
                 /\ replaces' /\ "undo" \notin mishaps' =>
                      /\ step = "undo" => i >= at
                      /\ step = "restore" => i > at
    BY <2>1, <2>4 DEF CutKnown
  <2>5. CASE Phase1
    <3>1. where'[m] = where[m]
      BY <2>2, <2>5, CutStays DEF Phase1, RenameFails
    <3> QED
      BY <2>4, <2>5, <3>1 DEF Phase1, Shape
  <2>6. CASE Phase2
    <3>1. CASE UNCHANGED <<where, state>>
      <4>1. step' # "restore" /\ (step' = "undo" => at' = 1)
        BY <2>6 DEF Phase2, Advance, AfterRenames
      <4> QED
        BY <2>1, <2>3, <2>4, <3>1, <4>1
    <3>2. CASE state[at] = 1 /\ Rename(Tmp(at), New(plan, at)) /\ Mark(at, 2)
      <4>1. step' \notin {"undo", "restore"}
        <5>1. state'[at] = 2
          BY <2>1, <3>2, MarkState
        <5> QED
          BY <2>6, <3>2, <5>1 DEF Phase2, AtTmp, Advance, AfterRenames
      <4>2. \A k \in DOMAIN plan : state'[k] = IF k = at THEN 2 ELSE state[k]
        BY <3>2, MarkState
      <4>3. CASE where[m] = Tmp(at)
        <5>1. Planned(m)
          BY <2>1, <2>6, <3>2, <4>3 DEF StrangersStay, Phase2
        <5>2. PICK i \in DOMAIN plan : before[m] = plan[i]
          BY <5>1 DEF Planned
        <5>3. Place(i) = Tmp(at)
          BY <2>6, <4>3, <5>2 DEF Placed, Phase2
        <5>4. i = at
          BY <2>1, <2>6, <5>3, NamesApart DEF Phase2
        <5>5. where'[m] = New(plan, at)
          BY <3>2, <4>3, RenameEffect
        <5> QED
          BY <2>1, <2>3, <4>1, <4>2, <5>2, <5>4, <5>5
      <4>4. CASE where[m] # Tmp(at)
        <5>1. where'[m] = where[m]
          BY <3>2, <4>4, RenameEffect DEF Lost, Name
        <5> QED
          BY <2>1, <2>3, <2>4, <3>2, <4>1, <4>2, <5>1
      <4> QED
        BY <4>3, <4>4
    <3> QED
      BY <2>6, <3>1, <3>2 DEF Phase2, AtTmp, RenameFails
  <2>7. CASE Undo
    <3>1. step = "undo" /\ step' = "restore" /\ at' = at
      BY <2>7 DEF Undo
    <3>2. where'[m] = where[m]
      BY <2>2, <2>7, CutStays DEF Undo, RenameFails
    <3>3. PICK i \in DOMAIN plan :
            /\ before[m] = plan[i] /\ where[m] = New(plan, i) /\ state[i] = 2
            /\ replaces' /\ "undo" \notin mishaps' => i >= at
      BY <2>4, <3>1, <3>2
    <3>4. state'[i] = 2 /\ (replaces' /\ "undo" \notin mishaps' => i # at)
      <4>1. CASE ~AtNew(at) /\ UNCHANGED <<where, state>>
        BY <3>3, <4>1 DEF AtNew
      <4>2. CASE Rename(New(plan, at), Tmp(at)) /\ Mark(at, 1)
        <5>1. i # at
          BY <2>2, <3>3, <4>2, CutStays
        <5> QED
          BY <3>3, <4>2, <5>1, MarkState
      <4>3. CASE RenameFails(New(plan, at), Tmp(at), "undo") /\ UNCHANGED state
        BY <2>1, <3>3, <4>3 DEF RenameFails, Happens, OnDisk
      <4> QED
        BY <2>7, <4>1, <4>2, <4>3 DEF Undo
    <3> QED
      BY <2>1, <2>3, <3>1, <3>2, <3>3, <3>4
  <2>8. CASE Restore
    <3>1. step = "restore" /\ step' = "undo" /\ at' = at + 1
      BY <2>8 DEF Restore, Applying
    <3>2. where'[m] = where[m]
      BY <2>2, <2>8, CutStays DEF Restore, RenameFails
    <3>3. PICK i \in DOMAIN plan :
            /\ before[m] = plan[i] /\ where[m] = New(plan, i) /\ state[i] = 2
            /\ replaces' /\ "undo" \notin mishaps' => i > at
      BY <2>4, <3>1, <3>2
    <3>4. state'[i] = 2
      <4>1. CASE UNCHANGED state
        BY <3>3, <4>1
      <4>2. CASE state[at] = 1 /\ Mark(at, 0)
        BY <3>3, <4>2, MarkState
      <4> QED
        BY <2>8, <4>1, <4>2 DEF Restore, AtTmp
    <3> QED
      BY <2>1, <2>3, <3>1, <3>2, <3>3, <3>4
  <2> QED
    BY <1>2, <2>5, <2>6, <2>7, <2>8
<1>3. CASE WriteBlock
  <2>1. /\ UNCHANGED <<where, plan, before, state, replaces>> /\ step = "blocks"
        /\ step' \in {"blocks", "result"}
    BY <1>3 DEF WriteBlock, NextBlock, Applying
  <2> QED
    BY <2>1 DEF CutKnown, New, Applying
<1>4. CASE UNCHANGED vars
  BY <1>4 DEF vars, folderVars, applyVars, CutKnown, New
<1>5. CASE Detect \/ PickDrive \/ Back \/ Crash
  <2>1. step' \in {"closed", "no_drive", "pick_drive", "preview", "error"}
    BY <1>5 DEF Detect, PickDrive, Back, Crash, Scan
  <2> QED
    BY <2>1 DEF Applying
<1>6. CASE \/ \E i \in DOMAIN plan : i < Len(plan) /\ SwapItems(i, i + 1)
           \/ \E k \in Models : UserCopies(k)
  BY <1>6 DEF SwapItems, UserCopies, Applying
<1> QED
  BY <1>1, <1>2, <1>3, <1>4, <1>5, <1>6 DEF Next

(* After the second phase a file that no scan sees is one of before, or an *)
(* item whose new name is cut.                                             *)
UnseenKnown ==
  step \in {"blocks", "result"} =>
    \A m \in Models : where[m].kind \in {"tmp", "cut"} =>
      \/ where[m] = before[m]
      \/ \E i \in DOMAIN plan :
           before[m] = plan[i] /\ New(plan, i).kind = "cut"

LEMMA UnseenAfterRenames == ResultAll => UnseenKnown
<1> SUFFICES ASSUME ResultAll, step \in {"blocks", "result"}, NEW m \in Models,
                    where[m].kind \in {"tmp", "cut"}
             PROVE  \/ where[m] = before[m]
                    \/ \E i \in DOMAIN plan :
                         before[m] = plan[i] /\ New(plan, i).kind = "cut"
  BY DEF UnseenKnown
<1>1. CASE Planned(m)
  <2>1. PICK i \in DOMAIN plan : before[m] = plan[i]
    BY <1>1 DEF Planned
  <2>2. where[m] = New(plan, i) /\ New(plan, i).kind \in {"nam", "cut"}
    BY <2>1, PlannedArrive, NamesOfItems DEF ResultAll, KeepInv, TypeInv
  <2> QED
    BY <2>1, <2>2
<1>2. CASE ~Planned(m)
  BY <1>2 DEF ResultAll, StrangersStay, Replaced, Lost, Name
<1> QED
  BY <1>1, <1>2

HiddenAll == ResultAll /\ RollbackAll /\ CutKnown /\ UnseenKnown

LEMMA HiddenAllInvariant == Spec => []HiddenAll
<1>1. Init => CutKnown
  BY CutInit
<1>2. ResultAll /\ CutKnown /\ [Next]_vars => CutKnown'
  BY CutStep
<1>3. ResultAll /\ RollbackAll /\ CutKnown => HiddenAll
  BY UnseenAfterRenames DEF HiddenAll
<1> QED
  BY <1>1, <1>2, <1>3, ResultAllInvariant, RollbackAllInvariant, PTL DEF Spec

(* An apply, however it ends, leaves no new file under a temporary or a    *)
(* cut name, unless a rollback failed, it was cut short, somebody else was *)
(* at the folder, there are twins and rename() does not replace, or it is  *)
(* an item whose new name has no room for its extension and that was not   *)
(* rolled back.                                                            *)
THEOREM NothingIsHidden == Spec => HiddenNeedsAMishap
<1> DEFINE Ends == step \in Applying /\ step' \in Steps
<1>1. ASSUME HiddenAll, HiddenAll', Next, Ends, NEW m \in Models,
             where'[m].kind \in {"tmp", "cut"},
             mishaps' \cap {"undo", "crash", "copy"} = {},
             ~(~replaces /\ Twins(plan))
      PROVE  \/ where'[m] = before[m]
             \/ /\ step # "restore"
                /\ \E i \in DOMAIN plan :
                     before[m] = plan[i] /\ New(plan, i).kind = "cut"
  <2> USE <1>1 DEF HiddenAll, RollbackAll
  <2>1. Phase2 \/ Restore \/ WriteBlock
    BY DEF Next, Detect, PickDrive, Back, SwapItems, ApplyStart, Phase1, Undo,
           Crash, UserCopies, Happens, Advance, Steps, Applying
  <2>2. /\ UNCHANGED <<plan, before, replaces, edited>> /\ mishaps \subseteq mishaps'
        /\ step' \in {"result", "error"}
    BY <2>1
    DEF Phase2, Restore, WriteBlock, applyFrame, Rename, RenameFails, Happens,
        Advance, AfterRenames, NextBlock, Steps, Applying
  <2>3. CASE Restore /\ ~replaces
    <3>1. Quiet /\ "undo" \notin mishaps' /\ step' = "error"
      BY <2>2, <2>3 DEF Quiet, PlanCurrent, Restore, Steps
    <3> QED
      BY <2>3, <3>1, QuietHome
  <2>4. CASE Restore /\ replaces
    <3>1. where'[m].kind # "tmp"
      <4>1. FolderInv'
        BY FolderStep
      <4>2. NoTmp'
        BY <2>2, <2>4, <4>1 DEF FolderInv, Clean, Renaming
      <4> QED
        BY <4>2 DEF NoTmp
    <3>2. /\ step = "restore" /\ at \in DOMAIN plan /\ TypeOK
          /\ ~(at < Len(plan)) /\ DOMAIN plan = 1 .. Len(plan)
          /\ Len(plan) \in Nat
      BY <2>4, PlanTyped DEF Restore, TypeInv, Loop, Applying, Steps
    <3>3. where'[m] = where[m]
      <4>1. plan[at].kind # "cut"
        BY <3>2, NamesOfItems DEF NamNames
      <4> QED
        BY <2>4, <3>1, <4>1, CutStays DEF Restore, RenameFails
    <3>4. ASSUME where[m] # before[m]
          PROVE  \E i \in DOMAIN plan : i > at
      BY <2>2, <2>4, <3>1, <3>2, <3>3, <3>4 DEF CutKnown, Applying
    <3> QED
      BY <3>2, <3>3, <3>4
  <2>5. CASE Phase2
    <3>1. step' = "result"
      BY <2>5 DEF Phase2, Advance, AfterRenames, Steps
    <3>2. \/ where'[m] = before'[m]
          \/ \E i \in DOMAIN plan' :
               before'[m] = plan'[i] /\ New(plan, i)'.kind = "cut"
      BY <3>1 DEF UnseenKnown
    <3>3. \A i : New(plan, i)' = New(plan, i)
      BY <2>2 DEF New
    <3> QED
      BY <2>2, <2>5, <3>2, <3>3 DEF Phase2
  <2>6. CASE WriteBlock
    <3>1. step = "blocks" /\ where' = where
      BY <2>6 DEF WriteBlock
    <3> QED
      BY <3>1 DEF UnseenKnown
  <2> QED
    BY <2>1, <2>3, <2>4, <2>5, <2>6
<1>2. HiddenAll /\ HiddenAll' /\ [Next]_vars =>
        [Ends => \A m \in Models : where'[m].kind \in {"tmp", "cut"} =>
           \/ where'[m] = before[m]
           \/ mishaps' \cap {"undo", "crash", "copy"} # {}
           \/ ~replaces /\ Twins(plan)
           \/ /\ step # "restore"
              /\ \E i \in DOMAIN plan :
                   before[m] = plan[i] /\ New(plan, i).kind = "cut"]_vars
  BY <1>1
<1> QED
  BY <1>2, HiddenAllInvariant, PTL DEF Spec, HiddenNeedsAMishap

-----------------------------------------------------------------------------
(* A second scan.                                                          *)

(* The least number of a set.                                              *)
LEMMA LeastNumber ==
  ASSUME NEW T \in SUBSET Nat, T # {}
  PROVE  \E x \in T : \A y \in T : x <= y
<1> DEFINE R == OpToRel(<, Nat)
<1>1. \E x \in T : \A y \in T : ~(<<y, x>> \in R)
  <2>1. IsWellFoundedOn(R, Nat)
    BY NatLessThanWellFounded
  <2> HIDE DEF R
  <2> QED
    BY <2>1, WFMin
<1>2. PICK x \in T : \A y \in T : ~(<<y, x>> \in R)
  BY <1>1
<1>3. ASSUME NEW y \in T PROVE x <= y
  <2>1. ~(y < x)
    <3>1. <<y, x>> \in R <=> <<y, x>> \in {ss \in Nat \X Nat : ss[1] < ss[2]}
      BY Zenon DEF OpToRel
    <3> QED
      BY <1>2, <3>1
  <2> QED
    BY <2>1
<1> QED
  BY <1>2, <1>3

Numbers(g, c, n) == g \in [1 .. c -> 1 .. n]
GoesUp(g, c)     == \A i, j \in 1 .. c : i < j => g[i] < g[j]
HasAll(g, c, n)  == \A j \in 1 .. n : \E i \in 1 .. c : g[i] = j
InTurn(g, c)     == \A i \in 1 .. c : g[i] = i

(* A list of the numbers up to n that goes up and leaves none out is the   *)
(* list of them in order.                                                  *)
LEMMA UpwardsOnto ==
  ASSUME NEW c \in Nat, NEW n \in Nat, NEW g,
         Numbers(g, c, n), GoesUp(g, c), HasAll(g, c, n)
  PROVE  InTurn(g, c)
<1> USE DEF Numbers, GoesUp, HasAll, InTurn
<1> DEFINE T == {i \in 1 .. c : g[i] # i}
<1> SUFFICES ASSUME T # {} PROVE FALSE
  OBVIOUS
<1>1. PICK i \in T : \A j \in T : i <= j
  <2>1. T \in SUBSET Nat
    OBVIOUS
  <2> HIDE DEF T
  <2> QED
    BY <2>1, LeastNumber
<1>2. i \in 1 .. c /\ g[i] \in 1 .. n /\ g[i] # i
  OBVIOUS
<1>3. \A j \in 1 .. c : j < i => g[j] = j
  BY <1>1, <1>2
<1>4. g[i] >= i
  <2>1. CASE i = 1
    BY <1>2, <2>1
  <2>2. CASE i # 1
    <3>1. i - 1 \in 1 .. c /\ i - 1 < i
      BY <1>2, <2>2
    <3>2. g[i - 1] = i - 1 /\ g[i - 1] < g[i]
      BY <1>2, <1>3, <3>1
    <3> QED
      BY <1>2, <3>2
  <2> QED
    BY <2>1, <2>2
<1>5. i \in 1 .. n
  BY <1>2, <1>4
<1>6. PICK j \in 1 .. c : g[j] = i
  BY <1>5
<1>7. ~(j < i) /\ j # i
  BY <1>2, <1>3, <1>6
<1>8. i < j
  BY <1>2, <1>7
<1>9. g[i] < g[j]
  BY <1>2, <1>8
<1> QED
  BY <1>2, <1>4, <1>6, <1>9

(* A list of c numbers up to c that goes up is the list of them in order.  *)
LEMMA UpwardsWithin ==
  ASSUME NEW c \in Nat, NEW g, Numbers(g, c, c), GoesUp(g, c)
  PROVE  InTurn(g, c)
<1> USE DEF Numbers, GoesUp, InTurn
<1>1. ASSUME NEW j \in 1 .. c PROVE g[j] >= j
  <2> DEFINE T == {i \in 1 .. c : g[i] < i}
  <2> SUFFICES ASSUME T # {} PROVE FALSE
    OBVIOUS
  <2>1. PICK i \in T : \A k \in T : i <= k
    <3>1. T \in SUBSET Nat
      OBVIOUS
    <3> HIDE DEF T
    <3> QED
      BY <3>1, LeastNumber
  <2>2. i \in 1 .. c /\ g[i] \in 1 .. c /\ g[i] < i
    OBVIOUS
  <2>3. i - 1 \in 1 .. c /\ i - 1 < i /\ i - 1 \notin T
    BY <2>1, <2>2
  <2>4. g[i - 1] >= i - 1 /\ g[i - 1] \in Int
    BY <2>3
  <2>5. g[i - 1] < g[i]
    BY <2>2, <2>3
  <2> QED
    BY <2>2, <2>4, <2>5
<1>2. ASSUME NEW j \in 1 .. c, g[j] > j PROVE FALSE
  <2> DEFINE T == {i \in 1 .. c : j <= i /\ g[i] <= i}
  <2>1. c \in T
    BY <1>2
  <2>2. PICK i \in T : \A k \in T : i <= k
    <3>1. T \in SUBSET Nat /\ T # {}
      BY <2>1
    <3> HIDE DEF T
    <3> QED
      BY <3>1, LeastNumber
  <2>3. i \in 1 .. c /\ j <= i /\ g[i] <= i /\ i # j /\ g[i] \in Int
    BY <1>2
  <2>4. i - 1 \in 1 .. c /\ j <= i - 1 /\ i - 1 \notin T
    BY <2>2, <2>3
  <2>5. g[i - 1] > i - 1 /\ g[i - 1] \in Int
    BY <2>4
  <2>6. g[i - 1] < g[i]
    BY <2>3, <2>4
  <2> QED
    BY <2>3, <2>5, <2>6
<1> QED
  BY <1>1, <1>2

(* A scan after a success lists the items that kept their extension, each  *)
(* at a place of its own, in the order of the numbers they were given.     *)
LEMMA ScanAfterSuccess ==
  ASSUME ResultAll, step = "result", ~edited,
         NEW q \in [1 .. Cardinality(Scanned) -> Scanned], InOrder(q)
  PROVE  LET c == Cardinality(Scanned)
             n == Len(plan)
             g == [k \in 1 .. c |-> q[k].num + 1]
         IN  /\ c \in Nat /\ n \in Nat /\ DOMAIN plan = 1 .. n
             /\ g \in [1 .. c -> 1 .. n]
             /\ \A j, k \in 1 .. c : j < k => g[j] < g[k]
             /\ \A k \in 1 .. c : q[k] = New(plan, g[k]) /\ q[k] \in NamNames
             /\ \A j \in 1 .. n : New(plan, j).kind # "cut" =>
                  \E k \in 1 .. c : g[k] = j
<1> DEFINE c == Cardinality(Scanned)
           n == Len(plan)
           g == [k \in 1 .. c |-> q[k].num + 1]
<1>1. /\ c \in Nat /\ n \in Nat /\ DOMAIN plan = 1 .. n /\ DOMAIN q = 1 .. c
      /\ Scanned \subseteq NamNames /\ TypeOK
  BY ScannedFinite, PlanTyped DEF ResultAll, KeepInv, TypeInv
<1>2. ASSUME NEW x \in Scanned
      PROVE  \E j \in 1 .. n : x = New(plan, j)
  BY <1>1, <1>2, FolderIsThePlan DEF Scanned
<1>3. ASSUME NEW j \in 1 .. n
      PROVE  New(plan, j).num = j - 1 /\ New(plan, j).base \in Int
  <2>1. New(plan, j).base \in Bases
    BY <1>1, NamesOfItems DEF NamNames
  <2>2. Bases \subseteq Int
    BY LibraryAssumption DEF LibraryAssumption
  <2> QED
    BY <1>1, <2>1, <2>2, NamesOfItems
<1>4. ASSUME NEW k \in 1 .. c
      PROVE  /\ g[k] \in 1 .. n /\ q[k] = New(plan, g[k])
             /\ q[k] \in NamNames
  <2>1. PICK j \in 1 .. n : q[k] = New(plan, j)
    BY <1>2
  <2>2. g[k] = j - 1 + 1
    BY <1>3, <2>1
  <2>3. g[k] = j
    BY <1>1, <2>2
  <2> QED
    BY <1>1, <2>1, <2>3
<1>5. ASSUME NEW j \in 1 .. c, NEW k \in 1 .. c, j < k PROVE g[j] < g[k]
  <2>1. Before(q[j], q[k])
    BY <1>1, <1>5 DEF InOrder
  <2>2. PICK a \in 1 .. n : q[j] = New(plan, a) /\ g[j] = a
    BY <1>4
  <2>3. PICK b \in 1 .. n : q[k] = New(plan, b) /\ g[k] = b
    BY <1>4
  <2>4. q[j].num = a - 1 /\ q[k].num = b - 1
    BY <1>3, <2>2, <2>3
  <2>5. a # b
    <3>1. a = b => q[j].base = q[k].base /\ q[j].base \in Int
      BY <1>3, <2>2, <2>3
    <3> QED
      BY <2>1, <2>4, <3>1 DEF Before
  <2>6. a < b
    BY <2>1, <2>4, <2>5 DEF Before
  <2> QED
    BY <2>2, <2>3, <2>6
<1>6. ASSUME NEW j \in 1 .. n, New(plan, j).kind # "cut"
      PROVE  \E k \in 1 .. c : g[k] = j
  <2>1. PICK m \in Models : where[m] = New(plan, j)
    BY <1>1, FolderIsThePlan
  <2>2. New(plan, j) \in Scanned
    BY <1>1, <1>6, <2>1, NamesOfItems DEF Scanned
  <2>3. PICK k \in 1 .. c : q[k] = New(plan, j)
    BY <1>1, <2>2 DEF InOrder
  <2>4. g[k] = j - 1 + 1
    BY <1>3, <2>3
  <2> QED
    BY <1>1, <2>4
<1>7. g \in [1 .. c -> 1 .. n]
  BY <1>4
<1> QED
  BY <1>1, <1>4, <1>5, <1>6, <1>7

(* It renames what is behind a file without an extension, and no more.     *)
LEMMA RescanMoves ==
  ASSUME ResultAll, step = "result", ~edited,
         NEW q \in [1 .. Cardinality(Scanned) -> Scanned], InOrder(q),
         NEW i \in DOMAIN q
  PROVE  NeedsRename(q, i) <=>
           \E k \in DOMAIN plan : New(plan, k).kind = "cut" /\ k - 1 < q[i].num
<1> DEFINE c == Cardinality(Scanned)
           n == Len(plan)
           g == [k \in 1 .. c |-> q[k].num + 1]
           h == [k \in 1 .. i |-> g[k]]
<1>1. /\ c \in Nat /\ n \in Nat /\ DOMAIN plan = 1 .. n
      /\ g \in [1 .. c -> 1 .. n]
      /\ \A j, k \in 1 .. c : j < k => g[j] < g[k]
      /\ \A k \in 1 .. c : q[k] = New(plan, g[k]) /\ q[k] \in NamNames
      /\ \A j \in 1 .. n : New(plan, j).kind # "cut" =>
           \E k \in 1 .. c : g[k] = j
  BY ScanAfterSuccess
<1>2. i \in 1 .. c /\ 1 .. i \subseteq 1 .. c /\ i \in Nat
  BY <1>1
<1>3. /\ q[i] \in NamNames /\ q[i].kind = "nam" /\ g[i] = q[i].num + 1
      /\ q[i].num \in Int /\ g[i] \in 1 .. n
  BY <1>1, <1>2 DEF NamNames
<1>4. NeedsRename(q, i) <=> g[i] # i
  <2>1. q[i].num \in Int /\ q[i].num >= 0
    BY <1>3
  <2>2. New(q, i) = Name("nam", i - 1, q[i].base)
    BY <2>1 DEF New
  <2>3. q[i] = Name("nam", q[i].num, q[i].base)
    BY <1>3 DEF Name, NamNames
  <2>4. NeedsRename(q, i) <=> q[i].num # i - 1
    BY <2>2, <2>3 DEF NeedsRename, Name
  <2> QED
    BY <1>2, <1>3, <2>4
<1>5. /\ Numbers(h, i, g[i]) /\ GoesUp(h, i) /\ h[i] = g[i]
      /\ \A k \in 1 .. i : h[k] = g[k]
  <2>1. ASSUME NEW k \in 1 .. i PROVE g[k] \in 1 .. g[i]
    BY <1>1, <1>2, <1>3
  <2> QED
    BY <1>1, <1>2, <2>1 DEF Numbers, GoesUp
<1>6. ASSUME \A k \in DOMAIN plan :
               New(plan, k).kind = "cut" => ~(k - 1 < q[i].num)
      PROVE  g[i] = i
  <2>1. ASSUME NEW j \in 1 .. g[i] PROVE \E k \in 1 .. i : h[k] = j
    <3>0. New(plan, g[i]).kind = "nam"
      <4>1. q[i] = New(plan, g[i])
        BY <1>1, <1>2
      <4> QED
        BY <1>3, <4>1
    <3>1. j \in 1 .. n /\ New(plan, j).kind # "cut"
      <4>1. CASE j = g[i]
        BY <1>3, <1>1, <3>0, <4>1
      <4>2. CASE j # g[i]
        <5>1. n \in Nat /\ g[i] \in 1 .. n /\ g[i] = q[i].num + 1
              /\ q[i].num \in Int
          BY <1>1, <1>3
        <5>2. j \in 1 .. n /\ j - 1 < q[i].num
          BY <4>2, <5>1
        <5> QED
          BY <1>1, <1>6, <5>2
      <4> QED
        BY <4>1, <4>2
    <3>2. PICK k \in 1 .. c : g[k] = j
      BY <1>1, <3>1
    <3>3. ~(i < k)
      BY <1>1, <1>2, <1>3, <3>2
    <3>4. k \in 1 .. i
      BY <1>2, <3>2, <3>3
    <3> QED
      BY <1>5, <3>2, <3>4
  <2>2. HasAll(h, i, g[i])
    BY <2>1 DEF HasAll
  <2>3. g[i] \in Nat /\ i \in 1 .. i
    BY <1>2, <1>3
  <2> HIDE DEF h, g, c, n
  <2>4. InTurn(h, i)
    BY <1>2, <1>5, <2>2, <2>3, UpwardsOnto
  <2> QED
    BY <1>5, <2>3, <2>4 DEF InTurn
<1>7. ASSUME NEW k \in DOMAIN plan, New(plan, k).kind = "cut", k - 1 < q[i].num,
             g[i] = i
      PROVE  FALSE
  <2>1. k \in 1 .. i
    BY <1>1, <1>2, <1>3, <1>7
  <2>2. InTurn(h, i)
    <3> HIDE DEF h, g, c, n
    <3> QED
      BY <1>2, <1>5, <1>7, UpwardsWithin
  <2>3. g[k] = k
    BY <1>5, <2>1, <2>2 DEF InTurn
  <2>4. k \in 1 .. c
    BY <1>2, <2>1
  <2>5. New(plan, k) \in NamNames
    BY <1>1, <2>3, <2>4
  <2> QED
    BY <1>7, <2>5 DEF NamNames
<1> QED
  BY <1>4, <1>6, <1>7

(* A scan right after a successful apply proposes to rename exactly the    *)
(* files behind the first one whose new name had no room for its           *)
(* extension; nothing, if there is none, whatever order the user had       *)
(* chosen.                                                                 *)
THEOREM OnlyCutNamesLeaveGaps == Spec => RescanClosesGaps
<1> DEFINE Rescan == step = "result" /\ step' = "preview" /\ ~edited
           Gaps(i) == \E k \in DOMAIN plan :
                        New(plan, k).kind = "cut" /\ k - 1 < plan'[i].num
<1>1. ResultAll /\ [Next]_vars =>
        [Rescan => \A i \in DOMAIN plan' : NeedsRename(plan', i) <=> Gaps(i)]_vars
  <2> SUFFICES ASSUME ResultAll, Next, Rescan, NEW i \in DOMAIN plan'
               PROVE  NeedsRename(plan', i) <=> Gaps(i)
    OBVIOUS
  <2>1. Detect
    BY DEF Next, PickDrive, Back, SwapItems, ApplyStart, Phase1, Phase2, Undo,
           Restore, WriteBlock, Crash, UserCopies, Applying
  <2>2. PICK q \in [1 .. Cardinality(Scanned) -> Scanned] :
          InOrder(q) /\ plan' = q
    BY <2>1 DEF Detect, Scan
  <2> QED
    BY <2>2, RescanMoves
<1> QED
  BY <1>1, ResultAllInvariant, PTL DEF Spec, RescanClosesGaps

-----------------------------------------------------------------------------
(* The knob.                                                               *)

(* After a success the knob position that selects a model is its index,    *)
(* less the files before it that the device skips.                         *)
THEOREM KnobFollowsThePlan == Spec => []RankIsIndexLessSkipped
<1>1. ASSUME ResultAll, step = "result", ~edited,
             NEW m \in Models, NEW i \in DOMAIN plan,
             where[m] = New(plan, i), Loadable(m)
      PROVE  DeviceRank(m) = i - 1 - Cardinality(Skipped(i))
  <2> DEFINE P == {k \in Models : \E j \in 1 .. i : where[k] = New(plan, j)}
             A == {k \in Models : Loadable(k) /\ DeviceBefore(where[k], where[m])}
             h == [k \in P |-> where[k].num + 1]
  <2>1. /\ TypeOK /\ DOMAIN plan = 1 .. Len(plan) /\ Len(plan) \in Nat
        /\ i \in 1 .. Len(plan) /\ 1 .. i \subseteq DOMAIN plan
    BY <1>1, PlanTyped DEF ResultAll, KeepInv, TypeInv
  <2>2. ASSUME NEW j \in DOMAIN plan
        PROVE  /\ New(plan, j).num = j - 1 /\ j \in Int
               /\ New(plan, j).kind \in {"nam", "cut"}
               /\ New(plan, j).base \in Int
    <3>1. New(plan, j).base \in Bases
      BY <2>1, NamesOfItems DEF NamNames
    <3>2. Bases \subseteq Int
      BY LibraryAssumption DEF LibraryAssumption
    <3>3. /\ New(plan, j).num = j - 1 /\ New(plan, j).kind \in {"nam", "cut"}
          /\ j \in Int
      BY <2>1, NamesOfItems
    <3> QED
      BY <3>1, <3>2, <3>3
  <2>3. IsFiniteSet(P) /\ Cardinality(P) = i
    <3>1. IsFiniteSet(1 .. i) /\ Cardinality(1 .. i) = i
      BY <2>1, FS_Interval
    <3>2. h \in [P -> 1 .. i]
      BY <2>1, <2>2
    <3>3. \A j, k \in P : h[j] = h[k] => j = k
      <4> SUFFICES ASSUME NEW j \in P, NEW k \in P, h[j] = h[k] PROVE j = k
        OBVIOUS
      <4>1. PICK a \in 1 .. i : where[j] = New(plan, a)
        OBVIOUS
      <4>2. PICK b \in 1 .. i : where[k] = New(plan, b)
        OBVIOUS
      <4>3. a = b
        <5>1. h[j] = a - 1 + 1 /\ h[k] = b - 1 + 1
          BY <2>1, <2>2, <4>1, <4>2
        <5> QED
          BY <2>1, <5>1
      <4> QED
        BY <1>1, <2>1, <2>2, <4>1, <4>2, <4>3 DEF ResultAll, NamesDistinct
    <3>4. ASSUME NEW j \in 1 .. i PROVE \E k \in P : h[k] = j
      <4>1. PICK k \in Models : where[k] = New(plan, j)
        BY <1>1, <2>1, FolderIsThePlan
      <4>2. k \in P /\ h[k] = j
        BY <2>1, <2>2, <4>1
      <4> QED
        BY <4>2
    <3>5. h \in Bijection(P, 1 .. i)
      <4>1. \A j \in 1 .. i : \E k \in P : h[k] = j
        BY <3>4
      <4> HIDE DEF P, h
      <4> QED
        BY <3>2, <3>3, <4>1 DEF Bijection, Injection, Surjection, IsInjective
    <3>6. IsFiniteSet(P)
      BY FS_Subset, LibraryAssumption DEF LibraryAssumption
    <3> HIDE DEF P, h
    <3> QED
      BY <3>1, <3>5, <3>6, FS_Bijection DEF ExistsBijection
  <2>4. A \cup Skipped(i) = P \ {m}
    <3>1. ASSUME NEW k \in A PROVE k \in P \ {m}
      <4>1. PICK j \in DOMAIN plan : where[k] = New(plan, j)
        BY <1>1, <3>1, FolderIsThePlan DEF Loadable
      <4>2. j < i
        BY <1>1, <2>2, <3>1, <4>1 DEF DeviceBefore
      <4> QED
        BY <1>1, <2>1, <2>2, <4>1, <4>2
    <3>2. ASSUME NEW k \in P \ {m}, Loadable(k) PROVE k \in A
      <4>1. PICK j \in 1 .. i : where[k] = New(plan, j)
        OBVIOUS
      <4>2. j # i
        BY <1>1, <2>2, <3>2, <4>1 DEF ResultAll, NamesDistinct
      <4> QED
        BY <1>1, <2>1, <2>2, <3>2, <4>1, <4>2 DEF DeviceBefore
    <3> QED
      BY <1>1, <3>1, <3>2 DEF Skipped
  <2>5. A \cap Skipped(i) = {}
    BY DEF Skipped
  <2>6. IsFiniteSet(A) /\ IsFiniteSet(Skipped(i))
    BY FS_Subset, LibraryAssumption DEF LibraryAssumption, Skipped
  <2>7. m \in P
    BY <1>1, <2>1
  <2>8. Cardinality(P \ {m}) = i - 1
    <3> HIDE DEF P
    <3> QED
      BY <2>3, <2>7, FS_RemoveElement
  <2>9. /\ Cardinality(A \cup Skipped(i))
             = Cardinality(A) + Cardinality(Skipped(i))
        /\ Cardinality(A) \in Nat /\ Cardinality(Skipped(i)) \in Nat
    <3> HIDE DEF A
    <3>1. /\ Cardinality(A \cup Skipped(i))
               = Cardinality(A) + Cardinality(Skipped(i)) - Cardinality({})
          /\ Cardinality({}) = 0
          /\ Cardinality(A) \in Nat /\ Cardinality(Skipped(i)) \in Nat
      BY <2>5, <2>6, FS_Union, FS_EmptySet, FS_CardinalityType
    <3> QED
      BY <3>1
  <2>10. DeviceRank(m) = Cardinality(A)
    BY DEF DeviceRank
  <2> HIDE DEF A, P
  <2>11. Cardinality(A) + Cardinality(Skipped(i)) = i - 1
    BY <2>4, <2>8, <2>9
  <2> QED
    BY <2>1, <2>9, <2>10, <2>11
<1>2. ResultAll => RankIsIndexLessSkipped
  BY <1>1 DEF RankIsIndexLessSkipped
<1> QED
  BY <1>2, ResultAllInvariant, PTL

=============================================================================
