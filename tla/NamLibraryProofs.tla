-------------------------- MODULE NamLibraryProofs --------------------------
(***************************************************************************)
(* Proofs about the organiser, for any number of files, any prefixes and   *)
(* any sequence of scans, applies and mishaps: it is well typed, and a     *)
(* model is lost only in the ways LossNeedsAMishap names.                  *)
(***************************************************************************)
EXTENDS NamLibrary, FiniteSetTheorems, TLAPS

-----------------------------------------------------------------------------
(* Lemmas on the operators the actions are built from.                     *)

(* A folder has finitely many names.                                       *)
LEMMA ScannedFinite ==
  ASSUME TypeOK
  PROVE  /\ Scanned \subseteq NamNames
         /\ Cardinality(Scanned) \in Nat
<1> DEFINE D == {where[m] : m \in Models}
<1>1. IsFiniteSet(D)
  <2>1. where \in Surjection(Models, D)
    BY DEF TypeOK, Surjection
  <2> QED
    BY <2>1, FS_Surjection, LibraryAssumption
    DEF LibraryAssumption, ExistsSurjection
<1>2. Scanned \subseteq D
  BY DEF Scanned
<1>3. IsFiniteSet(Scanned)
  BY <1>1, <1>2, FS_Subset
<1>4. Cardinality(Scanned) \in Nat
  BY <1>3, FS_CardinalityType
<1>5. Scanned \subseteq NamNames
  BY DEF Scanned, TypeOK, DiskNames, NamNames, CutNames
<1> QED
  BY <1>4, <1>5

(* A scan makes a plan that fits the knob, names every .nam file once and  *)
(* nothing else, or none.                                                  *)
LEMMA ScanPlan ==
  ASSUME TypeOK, Scan
  PROVE  /\ plan' \in Seq(NamNames) /\ Len(plan') <= MaxModels
         /\ \A i, j \in DOMAIN plan' : plan'[i] = plan'[j] => i = j
         /\ step' \in {"preview", "error"}
         /\ step' = "preview" => {plan'[i] : i \in DOMAIN plan'} = Scanned
<1>1. CASE plan' = <<>> /\ step' = "error"
  BY <1>1, LibraryAssumption DEF LibraryAssumption
<1>2. CASE /\ FitsKnob(Cardinality(Scanned))
           /\ \E q \in [1 .. Cardinality(Scanned) -> Scanned] :
                InOrder(q) /\ plan' = q
           /\ step' = "preview"
  <2> DEFINE n == Cardinality(Scanned)
  <2>1. n \in Nat /\ Scanned \subseteq NamNames /\ n <= MaxModels
    BY <1>2, ScannedFinite DEF FitsKnob
  <2>2. plan' \in [1 .. n -> Scanned] /\ InOrder(plan')
    BY <1>2
  <2>3. plan' \in Seq(NamNames) /\ Len(plan') = n /\ DOMAIN plan' = 1 .. n
    BY <2>1, <2>2
  <2>4. ASSUME NEW i \in DOMAIN plan', NEW j \in DOMAIN plan', i < j
        PROVE  plan'[i] # plan'[j]
    <3>1. Before(plan'[i], plan'[j])
      BY <2>2, <2>4 DEF InOrder
    <3>2. plan'[i].num \in Int /\ plan'[i].base \in Int
      <4>1. plan'[i] \in NamNames
        BY <2>1, <2>2, <2>3
      <4>2. Bases \subseteq Int
        BY LibraryAssumption DEF LibraryAssumption
      <4>3. plan'[i].num \in Int /\ plan'[i].base \in Bases
        BY <4>1 DEF NamNames
      <4> QED
        BY <4>2, <4>3
    <3> QED
      BY <3>1, <3>2 DEF Before
  <2>5. \A i, j \in DOMAIN plan' : plan'[i] = plan'[j] => i = j
    BY <2>3, <2>4
  <2>6. {plan'[i] : i \in DOMAIN plan'} = Scanned
    BY <2>2 DEF InOrder
  <2> QED
    BY <1>2, <2>1, <2>3, <2>5, <2>6
<1> QED
  BY <1>1, <1>2 DEF Scan

(* Every name a rename can give is one.                                    *)
LEMMA NamesOfItems ==
  ASSUME TypeOK, NEW i \in DOMAIN plan
  PROVE  /\ plan[i] \in NamNames
         /\ New(plan, i) \in DiskNames /\ New(plan, i).kind \in {"nam", "cut"}
         /\ New(plan, i).num = i - 1 /\ New(plan, i).base = plan[i].base
         /\ Tmp(i) \in DiskNames /\ Tmp(i).kind = "tmp" /\ Tmp(i).num = i - 1
         /\ i \in 1 .. Len(plan) /\ i \in Nat
<1>0. plan \in Seq(NamNames)
  BY DEF TypeOK
<1>1. plan[i] \in NamNames /\ i \in 1 .. Len(plan) /\ i \in Nat
  BY <1>0
<1> QED
  BY <1>1 DEF New, Tmp, Name, DiskNames, NamNames, CutNames

LEMMA BlockTyped ==
  ASSUME TypeOK, NEW i \in DOMAIN plan
  PROVE  Block(type, i) \in Blocks
<1>1. plan[i].base \in Bases /\ i - 1 \in Nat
  BY NamesOfItems DEF NamNames
<1> QED
  BY <1>1 DEF Block, Blocks, BlockNames, Name, TypeOK

LEMMA RenameTyped ==
  ASSUME TypeOK, NEW old \in DiskNames, NEW new \in DiskNames, Rename(old, new)
  PROVE  where' \in [Models -> DiskNames]
<1>1. Lost \in DiskNames
  BY DEF Lost, Name, DiskNames
<1> QED
  BY <1>1 DEF TypeOK, Rename, DiskNames

LEMMA RenameFailsTyped ==
  ASSUME TypeOK, NEW old, NEW new, NEW mishap, RenameFails(old, new, mishap)
  PROVE  /\ where' = where
         /\ mishaps' \subseteq Mishaps /\ mishaps \subseteq mishaps'
         /\ mishaps' # mishaps => mishap \in mishaps'
BY DEF TypeOK, RenameFails, Happens

-----------------------------------------------------------------------------
(* Type correctness.                                                       *)

(* An apply stands at one of its items; outside, the counter is reset.     *)
Loop == IF step \in Applying THEN at \in DOMAIN plan ELSE at = 1

TypeInv == TypeOK /\ Loop

LEMMA PlanTyped ==
  ASSUME TypeOK
  PROVE  /\ plan \in Seq(NamNames) /\ DOMAIN plan = 1 .. Len(plan)
         /\ Len(plan) \in Nat /\ at \in Nat
BY DEF TypeOK

(* The loops over the plan.                                                *)
LEMMA AdvanceTyped ==
  ASSUME TypeInv, step \in Applying, NEW next \in Applying \cup {"result"},
         Advance(next)
  PROVE  /\ at' \in DOMAIN plan
         /\ step' \in Applying \cup {"result"}
         /\ step' \notin Applying => at' = 1
<1>1. at \in 1 .. Len(plan) /\ DOMAIN plan = 1 .. Len(plan) /\ Len(plan) \in Nat
  BY PlanTyped DEF TypeInv, Loop
<1>2. CASE at < Len(plan)
  BY <1>1, <1>2 DEF Advance
<1>3. CASE ~(at < Len(plan))
  BY <1>1, <1>3 DEF Advance, Applying
<1> QED
  BY <1>2, <1>3

LEMMA NextBlockTyped ==
  ASSUME TypeInv, NextBlock, step = "blocks"
  PROVE  /\ at' \in DOMAIN plan /\ type' \in BlockTypes
         /\ step' \in {"blocks", "result"}
         /\ step' = "result" => at' = 1
<1>1. option.kinds \in 0 .. 2
  BY LibraryAssumption DEF TypeInv, TypeOK, NoOption, LibraryAssumption
<1>2. at \in 1 .. Len(plan) /\ DOMAIN plan = 1 .. Len(plan) /\ Len(plan) \in Nat
  BY PlanTyped DEF TypeInv, Loop, Applying
<1>7. /\ at \in Int /\ Len(plan) \in Int
      /\ 1 <= at /\ at <= Len(plan)
  BY <1>2
<1>3. type \in {1, 2}
  BY DEF TypeInv, TypeOK, BlockTypes
<1>4. CASE at < Len(plan)
  <2>1. at' = at + 1 /\ UNCHANGED <<type, step>>
    BY <1>7, <1>4 DEF NextBlock
  <2>2. at + 1 \in 1 .. Len(plan)
    BY <1>2, <1>4
  <2> QED
    BY <1>2, <1>3, <2>1, <2>2 DEF BlockTypes
<1>5. CASE at = Len(plan)
  <2>1. at' = 1 /\ at' \in DOMAIN plan
    BY <1>2, <1>5 DEF NextBlock
  <2>2. CASE type < option.kinds
    BY <1>1, <1>3, <1>5, <2>1, <2>2 DEF NextBlock, BlockTypes
  <2>3. CASE ~(type < option.kinds)
    BY <1>2, <1>5, <2>1, <2>3 DEF NextBlock, BlockTypes
  <2> QED
    BY <2>2, <2>3
<1>6. at < Len(plan) \/ at = Len(plan)
  BY <1>7
<1> QED
  BY <1>4, <1>5, <1>6

(* A plan made by a scan, and nothing done about it yet.                   *)
LEMMA FreshPlanTyped ==
  ASSUME plan' \in Seq(NamNames), state' = [i \in DOMAIN plan' |-> 0]
  PROVE  state' \in [1 .. Len(plan') -> 0 .. 2]
<1>1. DOMAIN plan' = 1 .. Len(plan')
  OBVIOUS
<1> QED
  BY <1>1

(* No plan.                                                                *)
LEMMA EmptyPlanTyped ==
  /\ <<>> \in Seq(NamNames) /\ Len(<<>>) <= MaxModels
  /\ <<>> \in [1 .. Len(<<>>) -> 0 .. 2]
<1>1. MaxModels \in Nat
  BY LibraryAssumption DEF LibraryAssumption
<1> QED
  BY <1>1

LEMMA TypeInit == Init => TypeInv
<1> SUFFICES ASSUME Init PROVE TypeInv
  OBVIOUS
<1>1. StartNames \subseteq DiskNames /\ Absent \in DiskNames
  BY DEF StartNames, DiskNames, NamNames, Absent, Name
<1>2. where \in [Models -> DiskNames]
  BY <1>1, LibraryAssumption DEF Init, LibraryAssumption
<1>3. replaces \in BOOLEAN /\ 0 \in 0 .. MaxApplies
  BY LibraryAssumption DEF Init, LibraryAssumption
<1>4. TypeOK
  BY <1>2, <1>3, EmptyPlanTyped DEF Init, TypeOK, Steps, BlockTypes
<1> QED
  BY <1>4 DEF TypeInv, Loop, Init, Applying

(* What the four renaming steps share.                                     *)
LEMMA RenamingTyped ==
  ASSUME TypeInv, where' \in [Models -> DiskNames], UNCHANGED applyFrame,
         mishaps' \subseteq Mishaps,
         UNCHANGED state \/ \E s \in 0 .. 2 : Mark(at, s),
         step' \in Steps \cup Applying, 
         IF step' \in Applying THEN at' \in DOMAIN plan ELSE at' = 1
  PROVE  TypeInv'
<1>1. state' \in [1 .. Len(plan) -> 0 .. 2]
  BY DEF TypeInv, TypeOK, Mark
<1>2. at' \in Nat
  BY PlanTyped DEF TypeInv
<1> QED
  BY <1>1, <1>2 DEF TypeInv, TypeOK, Loop, applyFrame

LEMMA TypeStep == TypeInv /\ [Next]_vars => TypeInv'
<1> SUFFICES ASSUME TypeInv, [Next]_vars PROVE TypeInv'
  OBVIOUS
<1>0. TypeOK
  BY DEF TypeInv
<1>1. CASE Detect
  <2>1. plan' \in Seq(NamNames) /\ Len(plan') <= MaxModels
        /\ step' \in Steps \ Applying
    BY <1>0, <1>1, ScanPlan, EmptyPlanTyped DEF Detect, Steps, Applying
  <2>2. state' \in [1 .. Len(plan') -> 0 .. 2]
    BY <1>1, <2>1, FreshPlanTyped DEF Detect
  <2> QED
    BY <1>0, <1>1, <2>1, <2>2
    DEF Detect, TypeInv, TypeOK, BlockTypes, Loop, folderVars
<1>2. CASE PickDrive
  <2>1. plan' \in Seq(NamNames) /\ Len(plan') <= MaxModels
        /\ step' \in Steps \ Applying /\ step \notin Applying
    BY <1>0, <1>2, ScanPlan DEF PickDrive, Steps, Applying
  <2>2. state' \in [1 .. Len(plan') -> 0 .. 2]
    BY <1>2, <2>1, FreshPlanTyped DEF PickDrive
  <2> QED
    BY <1>0, <1>2, <2>1, <2>2 DEF PickDrive, TypeInv, TypeOK, Loop, folderVars
<1>3. CASE Back
  BY <1>0, <1>3, EmptyPlanTyped
  DEF Back, TypeInv, TypeOK, Steps, Loop, Applying, folderVars
<1>4. ASSUME NEW i \in DOMAIN plan, i < Len(plan), SwapItems(i, i + 1)
      PROVE  TypeInv'
  <2>1. plan \in Seq(NamNames) /\ i \in 1 .. Len(plan) /\ i + 1 \in 1 .. Len(plan)
    BY <1>0, <1>4 DEF TypeOK
  <2>2. plan' \in Seq(NamNames) /\ Len(plan') = Len(plan)
    BY <1>4, <2>1 DEF SwapItems
  <2> QED
    BY <1>4, <2>2
    DEF SwapItems, TypeInv, TypeOK, Loop, Applying, applyVars, folderVars
<1>5. CASE ApplyStart
  <2>1. applies' \in 0 .. MaxApplies
    BY <1>0, <1>5, LibraryAssumption DEF ApplyStart, TypeOK, LibraryAssumption
  <2>2. at' = 1 /\ 1 \in DOMAIN plan
    BY <1>0, <1>5, PlanTyped DEF ApplyStart, TypeInv, Loop, Applying, applyVars
  <2> QED
    BY <1>5, <2>1, <2>2
    DEF ApplyStart, TypeInv, TypeOK, Applying, Loop, applyVars, folderVars
<1>6. CASE Phase1 \/ Phase2 \/ Undo \/ Restore
  <2>1. step \in Applying /\ at \in DOMAIN plan
    BY <1>6 DEF Phase1, Phase2, Undo, Restore, TypeInv, Loop, Applying
  <2>2. plan[at] \in DiskNames /\ Tmp(at) \in DiskNames
        /\ New(plan, at) \in DiskNames
    BY <1>0, <2>1, NamesOfItems DEF DiskNames
  <2>3. where' \in [Models -> DiskNames] /\ mishaps' \subseteq Mishaps
    <3>1. UNCHANGED <<where, mishaps>> => where' \in [Models -> DiskNames] /\ mishaps' \subseteq Mishaps
      BY <1>0 DEF TypeOK
    <3>2. ASSUME NEW old \in DiskNames, NEW new \in DiskNames, Rename(old, new)
          PROVE  where' \in [Models -> DiskNames] /\ mishaps' \subseteq Mishaps
      <4>1. mishaps' \subseteq Mishaps
        BY <1>0, <3>2 DEF Rename, TypeOK
      <4> QED
        BY <1>0, <3>2, <4>1, RenameTyped
    <3>3. ASSUME NEW old, NEW new, NEW mishap, RenameFails(old, new, mishap)
          PROVE  where' \in [Models -> DiskNames] /\ mishaps' \subseteq Mishaps
      <4>1. where' = where /\ mishaps' \subseteq Mishaps
        BY <1>0, <3>3, RenameFailsTyped
      <4> QED
        BY <1>0, <4>1 DEF TypeOK
    <3>4. \/ UNCHANGED <<where, mishaps>>
          \/ \E old, new \in {plan[at], Tmp(at), New(plan, at)} :
               \/ Rename(old, new)
               \/ \E mishap \in {"fail", "undo"} : RenameFails(old, new, mishap)
      BY <1>6 DEF Phase1, Phase2, Undo, Restore
    <3> QED
      BY <2>2, <3>1, <3>2, <3>3, <3>4
  <2>4. UNCHANGED state \/ \E s \in 0 .. 2 : Mark(at, s)
    BY <1>6 DEF Phase1, Phase2, Undo, Restore
  <2>5. 1 \in DOMAIN plan /\ (at < Len(plan) => at + 1 \in DOMAIN plan)
    BY <1>0, <2>1, PlanTyped
  <2>6. /\ step' \in Steps \cup Applying
        /\ IF step' \in Applying THEN at' \in DOMAIN plan ELSE at' = 1
    <3>1. CASE UNCHANGED at /\ step' = "restore"
      BY <2>1, <3>1 DEF Applying
    <3>2. CASE at' = 1 /\ step' \in {"undo", "error"}
      BY <2>5, <3>2 DEF Applying, Steps
    <3>3. CASE at < Len(plan) /\ at' = at + 1 /\ step' = "undo"
      BY <2>5, <3>3 DEF Applying
    <3>4. CASE Advance("phase2") \/ Advance(AfterRenames)
      BY <2>1, <3>4, AdvanceTyped DEF Applying, Steps, AfterRenames
    <3> QED
      BY <1>6, <3>1, <3>2, <3>3, <3>4 DEF Phase1, Phase2, Undo, Restore
  <2>7. UNCHANGED applyFrame
    BY <1>6 DEF Phase1, Phase2, Undo, Restore
  <2> QED
    BY <2>3, <2>4, <2>6, <2>7, RenamingTyped
<1>7. CASE WriteBlock
  <2> DEFINE b == Block(type, at)
  <2>1. at \in DOMAIN plan /\ step = "blocks"
    BY <1>7 DEF WriteBlock, TypeInv, Loop, Applying
  <2>2. b \in Blocks
    BY <1>0, <2>1, BlockTyped
  <2>3. whole' \subseteq Blocks /\ torn' \subseteq Blocks /\ mishaps' \subseteq Mishaps
    BY <1>0, <1>7, <2>2 DEF WriteBlock, TypeOK, Happens
  <2>4. /\ type' \in BlockTypes /\ at' \in Nat
        /\ step' \in Steps \cup Applying
        /\ IF step' \in Applying THEN at' \in DOMAIN plan ELSE at' = 1
    <3>1. CASE NextBlock
      BY <1>0, <2>1, <3>1, NextBlockTyped, PlanTyped DEF Steps, Applying
    <3>2. CASE step' = "error" /\ at' = 1 /\ type' = 1
      BY <3>2 DEF Steps, Applying, BlockTypes
    <3> QED
      BY <1>7, <3>1, <3>2 DEF WriteBlock
  <2> QED
    BY <1>0, <1>7, <2>3, <2>4 DEF WriteBlock, TypeInv, TypeOK, Loop
<1>8. CASE Crash
  <2>1. step \in Applying /\ at \in DOMAIN plan
    BY <1>8 DEF Crash, TypeInv, Loop
  <2>2. Block(type, at) \in Blocks
    BY <1>0, <2>1, BlockTyped
  <2>3. whole' \subseteq Blocks /\ torn' \subseteq Blocks /\ mishaps' \subseteq Mishaps
    BY <1>0, <1>8, <2>2 DEF Crash, TypeOK, Happens
  <2> QED
    BY <1>0, <1>8, <2>3, EmptyPlanTyped
    DEF Crash, TypeInv, TypeOK, Loop, Steps, Applying, BlockTypes
<1>9. ASSUME NEW m \in Models, UserCopies(m) PROVE TypeInv'
  <2>1. UserNames \subseteq DiskNames
    BY LibraryAssumption
    DEF UserNames, Name, DiskNames, NamNames, LibraryAssumption
  <2>2. where' \in [Models -> DiskNames] /\ mishaps' \subseteq Mishaps
    BY <1>0, <1>9, <2>1 DEF UserCopies, TypeOK, Happens
  <2> QED
    BY <1>9, <2>2 DEF UserCopies, TypeInv, TypeOK, Loop, applyVars
<1>10. CASE UNCHANGED vars
  BY <1>10 DEF vars, TypeInv, TypeOK, Loop, folderVars, applyVars
<1> QED
  BY <1>1, <1>2, <1>3, <1>4, <1>5, <1>6, <1>7, <1>8, <1>9, <1>10 DEF Next

(* Every reachable state of the organiser is well typed.                   *)
THEOREM LibraryTypeCorrect == Spec => []TypeOK
<1>1. Spec => []TypeInv
  BY TypeInit, TypeStep, PTL DEF Spec
<1>2. TypeInv => TypeOK
  BY DEF TypeInv
<1> QED
  BY <1>1, <1>2, PTL

-----------------------------------------------------------------------------
(* Where a successful apply puts the planned files.                        *)

(* What the loops have done, and that a plan names no file twice.          *)
Shape ==
  /\ \A j, k \in DOMAIN plan : plan[j] = plan[k] => j = k
  /\ step = "preview" => \A k \in DOMAIN plan : state[k] = 0
  /\ step = "phase1" => \A k \in DOMAIN plan :
       state[k] = IF k < at /\ NeedsRename(plan, k) THEN 1 ELSE 0
  /\ step \in {"phase2", "blocks", "result"} => \A k \in DOMAIN plan :
       /\ state[k] = 0 => ~NeedsRename(plan, k)
       /\ state[k] = 1 => step = "phase2" /\ k >= at

(* Where an item's file is as long as the renames succeed.                 *)
Place(i) == IF state[i] = 0 THEN plan[i]
            ELSE IF state[i] = 1 THEN Tmp(i) ELSE New(plan, i)

Placed ==
  step \in {"phase1", "phase2", "blocks", "result"} =>
    \A m \in Models, i \in DOMAIN plan :
      before[m] = plan[i] => where[m] = Place(i)

LEMMA AdvanceCases ==
  ASSUME TypeInv, step \in Applying, NEW next, Advance(next)
  PROVE  /\ at \in DOMAIN plan /\ at \in Int
         /\ \A k \in DOMAIN plan : k \in Int
         /\ \/ at' = at + 1 /\ step' = step
            \/ /\ at' = 1 /\ step' = next
               /\ \A k \in DOMAIN plan : k <= at
<1>1. at \in 1 .. Len(plan) /\ DOMAIN plan = 1 .. Len(plan) /\ Len(plan) \in Nat
  BY PlanTyped DEF TypeInv, Loop
<1>2. CASE at < Len(plan)
  BY <1>1, <1>2 DEF Advance
<1>3. CASE ~(at < Len(plan))
  BY <1>1, <1>3 DEF Advance
<1> QED
  BY <1>2, <1>3

LEMMA MarkState ==
  ASSUME TypeInv, NEW s, Mark(at, s)
  PROVE  \A k \in DOMAIN plan : state'[k] = IF k = at THEN s ELSE state[k]
BY PlanTyped DEF TypeInv, TypeOK, Mark

LEMMA ShapeInit == Init => Shape
BY DEF Init, Shape

LEMMA ShapeStep == TypeInv /\ Shape /\ [Next]_vars => Shape'
<1> SUFFICES ASSUME TypeInv, Shape, [Next]_vars PROVE Shape'
  OBVIOUS
<1>0. TypeOK
  BY DEF TypeInv
<1>1. CASE Detect \/ PickDrive
  <2>1. /\ \A j, k \in DOMAIN plan' : plan'[j] = plan'[k] => j = k
        /\ step' \in {"no_drive", "pick_drive", "preview", "error"}
    BY <1>0, <1>1, ScanPlan DEF Detect, PickDrive
  <2>2. \A k \in DOMAIN plan' : state'[k] = 0
    BY <1>1 DEF Detect, PickDrive
  <2> QED
    BY <2>1, <2>2 DEF Shape
<1>2. CASE Back
  BY <1>2 DEF Back, Shape
<1>3. ASSUME NEW i \in DOMAIN plan, i < Len(plan), SwapItems(i, i + 1)
      PROVE  Shape'
  <2>1. i \in 1 .. Len(plan) /\ i + 1 \in DOMAIN plan
    BY <1>0, <1>3, PlanTyped
  <2>2. DOMAIN plan' = DOMAIN plan
    BY <1>3 DEF SwapItems
  <2>3. \A j, k \in DOMAIN plan' : plan'[j] = plan'[k] => j = k
    BY <1>3, <2>1, <2>2 DEF SwapItems, Shape
  <2> QED
    BY <1>3, <2>2, <2>3 DEF SwapItems, Shape, applyVars
<1>4. CASE ApplyStart
  <2>1. at' = 1 /\ plan' = plan /\ state' = state /\ step' = "phase1"
    BY <1>4 DEF ApplyStart, TypeInv, Loop, Applying, applyVars
  <2>2. \A k \in DOMAIN plan : ~(k < 1)
    BY <1>0, PlanTyped
  <2> QED
    BY <1>4, <2>1, <2>2 DEF ApplyStart, Shape
<1>5. CASE Phase1
  <2>1. plan' = plan /\ step = "phase1" /\ step \in Applying
    BY <1>5 DEF Phase1, applyFrame, Applying
  <2>2. CASE step' = "undo"
    BY <2>1, <2>2 DEF Shape
  <2>3. CASE Advance("phase2")
    <3>1. \A k \in DOMAIN plan : state'[k] =
            IF k = at /\ NeedsRename(plan, k) THEN 1 ELSE state[k]
      BY <1>5, <2>1, <2>3, MarkState DEF Phase1, TypeInv, Loop, Advance
    <3>2. /\ at \in DOMAIN plan /\ at \in Int
          /\ \A k \in DOMAIN plan : k \in Int
          /\ \/ at' = at + 1 /\ step' = step
             \/ /\ at' = 1 /\ step' = "phase2"
                /\ \A k \in DOMAIN plan : k <= at
      BY <2>1, <2>3, AdvanceCases
    <3>3. \A k \in DOMAIN plan : state'[k] =
            IF k <= at /\ NeedsRename(plan, k) THEN 1 ELSE 0
      BY <2>1, <3>1, <3>2 DEF Shape
    <3>4. CASE at' = at + 1 /\ step' = step
      BY <2>1, <3>2, <3>3, <3>4 DEF Shape, NeedsRename, New
    <3>5. CASE at' = 1 /\ step' = "phase2" /\ \A k \in DOMAIN plan : k <= at
      <4>1. \A k \in DOMAIN plan : k >= 1
        BY <1>0, PlanTyped
      <4> QED
        BY <2>1, <3>2, <3>3, <3>5, <4>1 DEF Shape, NeedsRename, New
    <3> QED
      BY <3>2, <3>4, <3>5
  <2> QED
    BY <1>5, <2>2, <2>3 DEF Phase1
<1>6. CASE Phase2
  <2>1. plan' = plan /\ step = "phase2" /\ step \in Applying
    BY <1>6 DEF Phase2, applyFrame, Applying
  <2>2. CASE step' = "undo"
    BY <2>1, <2>2 DEF Shape
  <2>3. CASE Advance(AfterRenames)
    <3>1. \A k \in DOMAIN plan : state'[k] =
            IF k = at /\ state[k] = 1 THEN 2 ELSE state[k]
      <4>1. CASE state[at] # 1 /\ UNCHANGED state
        BY <4>1
      <4>2. CASE state[at] = 1 /\ Mark(at, 2)
        BY <4>2, MarkState
      <4> QED
        BY <1>6, <2>1, <2>3, <4>1, <4>2
        DEF Phase2, AtTmp, Advance, AfterRenames
    <3>2. /\ at \in DOMAIN plan /\ at \in Int
          /\ \A k \in DOMAIN plan : k \in Int
          /\ \/ at' = at + 1 /\ step' = step
             \/ /\ at' = 1 /\ step' = AfterRenames
                /\ \A k \in DOMAIN plan : k <= at
      BY <2>1, <2>3, AdvanceCases
    <3>3. \A k \in DOMAIN plan : /\ state'[k] = 0 => ~NeedsRename(plan, k)
                                 /\ state'[k] = 1 => k > at
      BY <2>1, <3>1, <3>2 DEF Shape
    <3>4. CASE at' = at + 1 /\ step' = step
      BY <2>1, <3>2, <3>3, <3>4 DEF Shape, NeedsRename, New
    <3>5. CASE at' = 1 /\ step' = AfterRenames /\ \A k \in DOMAIN plan : k <= at
      <4>1. \A k \in DOMAIN plan : state'[k] # 1
        BY <3>2, <3>3, <3>5
      <4>2. step' \in {"blocks", "result"}
        BY <3>5 DEF AfterRenames
      <4> QED
        BY <2>1, <3>3, <4>1, <4>2 DEF Shape, NeedsRename, New
    <3> QED
      BY <3>2, <3>4, <3>5
  <2> QED
    BY <1>6, <2>2, <2>3 DEF Phase2
<1>7. CASE Undo \/ Restore
  BY <1>7 DEF Undo, Restore, applyFrame, Shape
<1>8. CASE WriteBlock
  <2>1. /\ plan' = plan /\ state' = state /\ step = "blocks"
        /\ step' \in {"blocks", "result", "error"}
    BY <1>8 DEF WriteBlock, NextBlock
  <2> QED
    BY <2>1 DEF Shape, NeedsRename, New
<1>9. CASE Crash
  BY <1>9 DEF Crash, Shape
<1>10. ASSUME NEW m \in Models, UserCopies(m) PROVE Shape'
  BY <1>10 DEF UserCopies, Shape, applyVars
<1>11. CASE UNCHANGED vars
  BY <1>11 DEF vars, Shape, NeedsRename, New, applyVars
<1> QED
  BY <1>1, <1>2, <1>3, <1>4, <1>5, <1>6, <1>7, <1>8, <1>9, <1>10, <1>11 DEF Next

LEMMA RenameEffect ==
  ASSUME NEW old, NEW new, Rename(old, new), NEW m \in Models
  PROVE  /\ where[m] = old => where'[m] = new
         /\ where[m] # old /\ where[m] # new => where'[m] = where[m]
         /\ where[m] # old /\ where[m] = new => where'[m] = Lost /\ replaces
BY DEF Rename, OnDisk

(* No two items ever share a name, whichever of its three each one has.    *)
LEMMA NamesApart ==
  ASSUME TypeInv, Shape, step \in {"phase1", "phase2"},
         NEW i \in DOMAIN plan, NEW j \in DOMAIN plan, i # j
  PROVE  /\ Place(i) # Tmp(j)
         /\ step = "phase1" => Place(i) # plan[j]
         /\ step = "phase2" => Place(i) # New(plan, j)
<1>1. /\ plan[i].kind = "nam" /\ plan[j].kind = "nam"
      /\ Tmp(i).kind = "tmp" /\ Tmp(j).kind = "tmp"
      /\ New(plan, i).kind # "tmp" /\ New(plan, j).kind # "tmp"
      /\ Tmp(i) # Tmp(j) /\ New(plan, i) # New(plan, j)
  <2>1. i - 1 # j - 1
    BY NamesOfItems DEF TypeInv
  <2> QED
    BY <2>1, NamesOfItems DEF TypeInv, NamNames
<1>2. plan[i] # plan[j]
  BY DEF Shape
<1>3. Place(i) # Tmp(j)
  BY <1>1 DEF Place
<1>4. ASSUME step = "phase1" PROVE Place(i) # plan[j]
  <2>1. state[i] \in {0, 1}
    BY <1>4 DEF Shape
  <2> QED
    BY <1>1, <1>2, <2>1 DEF Place
<1>5. ASSUME step = "phase2" PROVE Place(i) # New(plan, j)
  <2>1. state[i] = 0 => plan[i] = New(plan, i)
    BY <1>5 DEF Shape, NeedsRename
  <2> QED
    BY <1>1, <2>1 DEF Place
<1> QED
  BY <1>3, <1>4, <1>5

LEMMA PlacedInit == Init => Placed
BY DEF Init, Placed

LEMMA PlacedStep == TypeInv /\ Shape /\ Placed /\ [Next]_vars => Placed'
<1> SUFFICES ASSUME TypeInv, Shape, Placed, [Next]_vars,
                    step' \in {"phase1", "phase2", "blocks", "result"},
                    NEW m \in Models, NEW i \in DOMAIN plan',
                    before'[m] = plan'[i]
             PROVE  where'[m] = Place(i)'
  BY DEF Placed
<1>1. CASE ApplyStart
  <2>1. state[i] = 0 /\ state'[i] = 0 /\ where'[m] = plan[i] /\ plan' = plan
    BY <1>1 DEF ApplyStart, Shape, folderVars, applyVars
  <2> QED
    BY <2>1 DEF Place
<1>2. CASE Phase1
  <2>1. /\ plan' = plan /\ before' = before /\ step = "phase1"
        /\ step \in Applying /\ at \in DOMAIN plan
    BY <1>2 DEF Phase1, applyFrame, Applying, TypeInv, Loop
  <2>2. where[m] = Place(i) /\ i \in DOMAIN plan
    BY <2>1 DEF Placed
  <2>3. CASE UNCHANGED <<where, state>>
    BY <2>1, <2>2, <2>3 DEF Place, New
  <2>4. CASE Rename(plan[at], Tmp(at)) /\ Mark(at, 1)
    <3>1. CASE i = at
      <4>1. Place(i) = plan[at]
        <5>1. ~(at < at)
          BY PlanTyped DEF TypeInv
        <5> QED
          BY <2>1, <2>2, <3>1, <5>1 DEF Shape, Place
      <4>2. where'[m] = Tmp(at)
        BY <2>2, <2>4, <4>1, RenameEffect
      <4>3. state'[i] = 1
        BY <2>1, <2>4, <3>1, MarkState
      <4> QED
        BY <3>1, <4>2, <4>3 DEF Place, Tmp
    <3>2. CASE i # at
      <4>1. where'[m] = Place(i)
        BY <2>1, <2>2, <2>4, <3>2, NamesApart, RenameEffect
      <4>2. state'[i] = state[i]
        BY <2>2, <2>4, <3>2, MarkState
      <4> QED
        BY <2>1, <4>1, <4>2 DEF Place, New
    <3> QED
      BY <3>1, <3>2
  <2> QED
    BY <1>2, <2>3, <2>4 DEF Phase1
<1>3. CASE Phase2
  <2>1. /\ plan' = plan /\ before' = before /\ step = "phase2"
        /\ step \in Applying /\ at \in DOMAIN plan
    BY <1>3 DEF Phase2, applyFrame, Applying, TypeInv, Loop
  <2>2. where[m] = Place(i) /\ i \in DOMAIN plan
    BY <2>1 DEF Placed
  <2>3. CASE UNCHANGED <<where, state>>
    BY <2>1, <2>2, <2>3 DEF Place, New
  <2>4. CASE state[at] = 1 /\ Rename(Tmp(at), New(plan, at)) /\ Mark(at, 2)
    <3>1. CASE i = at
      <4>1. where'[m] = New(plan, at)
        BY <2>2, <2>4, <3>1, RenameEffect DEF Place
      <4>2. state'[i] = 2
        BY <2>1, <2>4, <3>1, MarkState
      <4> QED
        BY <2>1, <3>1, <4>1, <4>2 DEF Place, New
    <3>2. CASE i # at
      <4>1. where'[m] = Place(i)
        BY <2>1, <2>2, <2>4, <3>2, NamesApart, RenameEffect
      <4>2. state'[i] = state[i]
        BY <2>2, <2>4, <3>2, MarkState
      <4> QED
        BY <2>1, <4>1, <4>2 DEF Place, New
    <3> QED
      BY <3>1, <3>2
  <2> QED
    BY <1>3, <2>3, <2>4 DEF Phase2, AtTmp
<1>4. CASE WriteBlock
  <2>1. /\ UNCHANGED <<where, plan, state, before>> /\ step = "blocks"
    BY <1>4 DEF WriteBlock
  <2> QED
    BY <2>1 DEF Placed, Place, New
<1>5. CASE UNCHANGED vars
  BY <1>5 DEF vars, folderVars, applyVars, Placed, Place, New
<1>6. CASE Detect \/ PickDrive
  <2>1. step' \in {"no_drive", "pick_drive", "preview", "error"}
    BY <1>6 DEF Detect, PickDrive, Scan
  <2> QED
    BY <2>1
<1>7. CASE Back \/ Undo \/ Restore \/ Crash
  BY <1>7 DEF Back, Undo, Restore, Crash
<1>8. CASE \/ \E j \in DOMAIN plan : j < Len(plan) /\ SwapItems(j, j + 1)
           \/ \E k \in Models : UserCopies(k)
  BY <1>8 DEF SwapItems, UserCopies
<1> QED
  BY <1>1, <1>2, <1>3, <1>4, <1>5, <1>6, <1>7, <1>8 DEF Next

-----------------------------------------------------------------------------
(* How a model can be lost.                                                *)

(* No rollback has failed, no apply was cut short and nobody else has      *)
(* touched the folder.                                                     *)
Clean == mishaps \cap {"undo", "crash", "copy"} = {}

Renaming == {"phase1", "phase2", "undo", "restore"}

(* A temporary name is in use only for an item in state 1; a rollback has  *)
(* left none of those it has gone past.                                    *)
TmpOwned ==
  \A m \in Models : where[m].kind = "tmp" =>
    \E k \in DOMAIN plan : where[m] = Tmp(k) /\ state[k] = 1

TmpPassed ==
  \A m \in Models, k \in DOMAIN plan : where[m] = Tmp(k) => k >= at

NoTmp == \A m \in Models : where[m].kind # "tmp"

(* A .nam file is an item that has not moved or one that has arrived.      *)
NamOwned ==
  \A m \in Models : where[m].kind = "nam" =>
    \E k \in DOMAIN plan : \/ where[m] = plan[k] /\ state[k] = 0
                           \/ where[m] = New(plan, k) /\ state[k] = 2

(* The name of a long file before a prefix was added to it: never in use   *)
(* together with its cut name.                                             *)
Uncut(n) == Name("nam", -1, n.base)

CutAlone ==
  \A m \in Models : where[m].kind = "cut" => ~OnDisk(Uncut(where[m]))

CutArrived ==
  \A m \in Models, k \in DOMAIN plan :
    where[m].kind = "cut" /\ plan[k] = Uncut(where[m]) =>
      state[k] = 2 /\ where[m] = New(plan, k)

Owned == TmpOwned /\ NamOwned /\ CutArrived

FolderInv ==
  replaces /\ Clean =>
    /\ CutAlone
    /\ step \in Renaming => Owned
    /\ step \in {"undo", "restore"} => TmpPassed
    /\ step \notin Renaming => NoTmp
    /\ step = "preview" => Scanned = {plan[i] : i \in DOMAIN plan}

(* The files an action may find in its way.                                *)
LEMMA TargetsFree ==
  ASSUME TypeInv, Shape, FolderInv, replaces, Clean, step \in Renaming
  PROVE  /\ state[at] # 1 => ~OnDisk(Tmp(at))
         /\ step = "phase2" /\ state[at] = 1 => ~OnDisk(New(plan, at))
         /\ state[at] = 1 /\ OnDisk(plan[at]) => Twins(plan)
<1>1. TypeOK /\ at \in DOMAIN plan /\ TmpOwned /\ NamOwned /\ CutArrived
  BY DEF TypeInv, Loop, Applying, Renaming, FolderInv, Owned
<1>2. ASSUME state[at] # 1, NEW m \in Models, where[m] = Tmp(at)
      PROVE  FALSE
  <2>1. PICK k \in DOMAIN plan : where[m] = Tmp(k) /\ state[k] = 1
    BY <1>1, <1>2, NamesOfItems DEF TmpOwned
  <2>3. k - 1 = at - 1
    BY <1>1, <1>2, <2>1, NamesOfItems
  <2>2. k = at
    BY <1>1, <2>3, NamesOfItems
  <2> QED
    BY <1>2, <2>1, <2>2
<1>3. ASSUME step = "phase2", state[at] = 1, NEW m \in Models,
             where[m] = New(plan, at)
      PROVE  FALSE
  <2>1. CASE where[m].kind = "nam"
    <3>1. PICK k \in DOMAIN plan : \/ where[m] = plan[k] /\ state[k] = 0
                                   \/ where[m] = New(plan, k) /\ state[k] = 2
      BY <1>1, <2>1 DEF NamOwned
    <3>2. where[m] = New(plan, k)
      BY <1>3, <3>1 DEF Shape, NeedsRename
    <3>3. k - 1 = at - 1
      BY <1>1, <1>3, <3>2, NamesOfItems
    <3>4. k = at
      BY <1>1, <3>3, NamesOfItems
    <3> QED
      BY <1>3, <3>1, <3>4
  <2>2. CASE where[m].kind = "cut"
    <3>1. plan[at] = Uncut(where[m])
      <4>1. plan[at] \in NamNames /\ plan[at].num < 0
        BY <1>1, <1>3, <2>2, NamesOfItems DEF New, Name
      <4>2. plan[at].num = -1 /\ plan[at].kind = "nam"
        BY <4>1 DEF NamNames
      <4>3. where[m].base = plan[at].base
        BY <1>1, <1>3, NamesOfItems
      <4> QED
        BY <4>1, <4>2, <4>3 DEF Uncut, Name, NamNames
    <3> QED
      BY <1>1, <1>3, <2>2, <3>1 DEF CutArrived
  <2> QED
    BY <1>1, <1>3, <2>1, <2>2, NamesOfItems
<1>4. ASSUME state[at] = 1, NEW m \in Models, where[m] = plan[at]
      PROVE  Twins(plan)
  <2>1. PICK k \in DOMAIN plan : \/ where[m] = plan[k] /\ state[k] = 0
                                 \/ where[m] = New(plan, k) /\ state[k] = 2
    BY <1>1, <1>4, NamesOfItems DEF NamOwned, NamNames
  <2>2. k # at /\ where[m] # plan[k]
    BY <1>1, <1>4, <2>1 DEF Shape
  <2>3. plan[k].base = plan[at].base
    BY <1>1, <1>4, <2>1, <2>2, NamesOfItems
  <2> QED
    BY <1>1, <2>2, <2>3 DEF Twins
<1> QED
  BY <1>2, <1>3, <1>4 DEF OnDisk

(* The moves of one item between its three names.                          *)
Moves(old, new, s) ==
  \/ state[at] = 0 /\ old = plan[at] /\ new = Tmp(at) /\ s = 1
  \/ state[at] = 1 /\ old = Tmp(at) /\ new = New(plan, at) /\ s = 2
     /\ step = "phase2"
  \/ state[at] = 2 /\ old = New(plan, at) /\ new = Tmp(at) /\ s = 1
  \/ state[at] = 1 /\ old = Tmp(at) /\ new = plan[at] /\ s = 0

(* A move keeps every file owned.                                          *)
LEMMA MoveKeeps ==
  ASSUME TypeInv, Shape, Owned, CutAlone, step \in Renaming, UNCHANGED plan,
         NEW old, NEW new, NEW s, Moves(old, new, s),
         Rename(old, new), Mark(at, s)
  PROVE  Owned' /\ CutAlone'
<1>1. /\ TypeOK /\ at \in DOMAIN plan
      /\ \A k \in DOMAIN plan :
           /\ plan[k] \in NamNames /\ plan[k].kind = "nam"
           /\ Tmp(k).kind = "tmp" /\ New(plan, k).kind \in {"nam", "cut"}
           /\ New(plan, k).num >= 0 /\ New(plan, k).num \in Int
  <2>1. TypeOK /\ at \in DOMAIN plan
    BY DEF TypeInv, Loop, Renaming, Applying
  <2>2. ASSUME NEW k \in DOMAIN plan
        PROVE  /\ plan[k] \in NamNames /\ plan[k].kind = "nam"
               /\ Tmp(k).kind = "tmp" /\ New(plan, k).kind \in {"nam", "cut"}
               /\ New(plan, k).num >= 0 /\ New(plan, k).num \in Int
    BY <2>1, NamesOfItems DEF NamNames
  <2> QED
    BY <2>1, <2>2
<1>2. \A k \in DOMAIN plan : state'[k] = IF k = at THEN s ELSE state[k]
  BY MarkState
<1>3. ASSUME NEW m \in Models
      PROVE  \/ where'[m] = new
             \/ where'[m] = Lost
             \/ where'[m] = where[m] /\ where[m] # old
  BY RenameEffect
<1>4. Lost.kind = "lost"
  BY DEF Lost, Name
<1>5. \A k : Tmp(k)' = Tmp(k) /\ New(plan, k)' = New(plan, k)
  BY DEF Tmp, New
<1>6. TmpOwned'
  <2> SUFFICES ASSUME NEW m \in Models, where'[m].kind = "tmp"
               PROVE  \E k \in DOMAIN plan : where'[m] = Tmp(k) /\ state'[k] = 1
    BY <1>5 DEF TmpOwned
  <2>1. CASE where'[m] = new
    BY <1>1, <1>2, <2>1 DEF Moves
  <2>2. CASE where'[m] = where[m] /\ where[m] # old
    <3>1. PICK k \in DOMAIN plan : where[m] = Tmp(k) /\ state[k] = 1
      BY <2>2 DEF Owned, TmpOwned
    <3>2. k # at
      BY <2>2, <3>1 DEF Moves
    <3> QED
      BY <1>2, <2>2, <3>1, <3>2
  <2> QED
    BY <1>3, <1>4, <2>1, <2>2
<1>7. NamOwned'
  <2> SUFFICES ASSUME NEW m \in Models, where'[m].kind = "nam"
               PROVE  \E k \in DOMAIN plan :
                        \/ where'[m] = plan[k] /\ state'[k] = 0
                        \/ where'[m] = New(plan, k) /\ state'[k] = 2
    BY <1>5 DEF NamOwned
  <2>1. CASE where'[m] = new
    BY <1>1, <1>2, <2>1 DEF Moves
  <2>2. CASE where'[m] = where[m] /\ where[m] # old
    <3>1. PICK k \in DOMAIN plan : \/ where[m] = plan[k] /\ state[k] = 0
                                   \/ where[m] = New(plan, k) /\ state[k] = 2
      BY <2>2 DEF Owned, NamOwned
    <3>2. k # at
      BY <2>2, <3>1 DEF Moves
    <3> QED
      BY <1>2, <2>2, <3>1, <3>2
  <2> QED
    BY <1>3, <1>4, <2>1, <2>2
(* The only cut name that can appear is New of the item, and only its old  *)
(* name could be in conflict with it.                                      *)
<1>8. ASSUME new.kind = "cut"
      PROVE  /\ s = 2 /\ new = New(plan, at) /\ state[at] = 1 /\ step = "phase2"
             /\ plan[at] = Uncut(new)
  <2>1. /\ s = 2 /\ new = New(plan, at) /\ state[at] = 1 /\ step = "phase2"
    BY <1>1, <1>8 DEF Moves
  <2>2. plan[at] \in NamNames /\ plan[at].num < 0 /\ new.base = plan[at].base
    BY <1>1, <1>8, <2>1 DEF New, Name
  <2>3. plan[at].num = -1 /\ plan[at].kind = "nam"
    BY <2>2 DEF NamNames
  <2> QED
    BY <2>1, <2>2, <2>3 DEF Uncut, Name, NamNames
<1>9. CutArrived'
  <2> SUFFICES ASSUME NEW m \in Models, NEW k \in DOMAIN plan,
                      where'[m].kind = "cut", plan[k] = Uncut(where'[m])
               PROVE  state'[k] = 2 /\ where'[m] = New(plan, k)
    BY <1>5 DEF CutArrived, Uncut, Name
  <2>1. CASE where'[m] = new
    <3>1. k = at
      BY <1>1, <1>8, <2>1 DEF Shape
    <3> QED
      BY <1>2, <1>8, <2>1, <3>1
  <2>2. CASE where'[m] = where[m] /\ where[m] # old
    <3>1. state[k] = 2 /\ where[m] = New(plan, k)
      BY <2>2 DEF Owned, CutArrived
    <3>2. k # at
      BY <2>2, <3>1 DEF Moves
    <3> QED
      BY <1>2, <2>2, <3>1, <3>2
  <2> QED
    BY <1>3, <1>4, <2>1, <2>2
<1>10. CutAlone'
  <2> SUFFICES ASSUME NEW m \in Models, where'[m].kind = "cut",
                      NEW k \in Models, where'[k] = Uncut(where'[m])
               PROVE  FALSE
    BY DEF CutAlone, OnDisk, Uncut, Name
  <2>1. where'[k].kind = "nam" /\ where'[k].num = -1
    BY DEF Uncut, Name
  <2>2. CASE where'[m] = new
    <3>1. where'[k] = where[k]
      BY <1>3, <1>4, <1>8, <2>1, <2>2
    <3>2. PICK j \in DOMAIN plan : \/ where[k] = plan[j] /\ state[j] = 0
                                   \/ where[k] = New(plan, j) /\ state[j] = 2
      BY <2>1, <3>1 DEF Owned, NamOwned
    <3>3. where[k] = plan[j] /\ state[j] = 0
      BY <1>1, <2>1, <3>1, <3>2
    <3>4. j = at
      BY <1>1, <1>8, <2>2, <3>1, <3>3 DEF Shape
    <3> QED
      BY <1>8, <2>2, <3>3, <3>4
  <2>3. CASE where'[m] = where[m] /\ where[m] # old
    <3>1. ~OnDisk(Uncut(where[m]))
      BY <2>3 DEF CutAlone
    <3>2. where'[k] # where[k]
      BY <2>3, <3>1 DEF OnDisk
    <3>3. where'[k] = new
      BY <1>3, <1>4, <2>1, <3>2
    <3>4. new = plan[at] /\ state[at] = 1
      BY <1>1, <2>1, <3>3 DEF Moves
    <3>5. state[at] = 2
      BY <1>1, <2>3, <3>3, <3>4 DEF Owned, CutArrived
    <3> QED
      BY <3>4, <3>5
  <2> QED
    BY <1>3, <1>4, <2>2, <2>3
<1> QED
  BY <1>6, <1>7, <1>9, <1>10 DEF Owned

(* The folder is left alone.                                               *)
LEMMA FolderStill ==
  ASSUME FolderInv, UNCHANGED <<where, replaces>>, mishaps \subseteq mishaps',
         step \notin Renaming, step' \notin Renaming,
         step' = "preview" => {plan'[i] : i \in DOMAIN plan'} = Scanned
  PROVE  FolderInv'
<1>1. Scanned' = Scanned
  BY DEF Scanned
<1>2. Clean' => Clean
  BY DEF Clean
<1> QED
  BY <1>1, <1>2
  DEF FolderInv, CutAlone, OnDisk, Uncut, NoTmp, Renaming

LEMMA FolderInit == Init => FolderInv
<1> SUFFICES ASSUME Init PROVE FolderInv
  OBVIOUS
<1>1. \A m \in Models : where[m].kind \in {"nam", "absent"}
  <2>1. where \in [Models -> StartNames \cup {Absent}]
    BY LibraryAssumption DEF Init, LibraryAssumption
  <2> QED
    BY <2>1 DEF StartNames, Absent, Name
<1> QED
  BY <1>1 DEF Init, FolderInv, CutAlone, NoTmp, Renaming

(* Renaming one item, or leaving it where it is.                           *)
LEMMA FolderMoves ==
  ASSUME TypeInv, Shape, FolderInv, replaces, Clean, step \in Renaming,
         UNCHANGED plan,
         \/ UNCHANGED <<where, state>>
         \/ \E old, new, s : Moves(old, new, s) /\ Rename(old, new) /\ Mark(at, s)
  PROVE  Owned' /\ CutAlone'
<1>1. Owned /\ CutAlone
  BY DEF FolderInv
<1>2. CASE UNCHANGED <<where, state>>
  BY <1>1, <1>2
  DEF Owned, TmpOwned, NamOwned, CutArrived, CutAlone, OnDisk, Uncut, Tmp, New
<1>3. CASE \E old, new, s : Moves(old, new, s) /\ Rename(old, new) /\ Mark(at, s)
  BY <1>1, <1>3, MoveKeeps
<1> QED
  BY <1>2, <1>3

LEMMA FolderStep == TypeInv /\ Shape /\ FolderInv /\ [Next]_vars => FolderInv'
<1> SUFFICES ASSUME TypeInv, Shape, FolderInv, [Next]_vars PROVE FolderInv'
  OBVIOUS
<1>0. TypeOK
  BY DEF TypeInv
<1>1. CASE Detect \/ PickDrive
  <2>1. /\ step' \in {"no_drive", "pick_drive", "preview", "error"}
        /\ step' = "preview" => {plan'[i] : i \in DOMAIN plan'} = Scanned
    BY <1>0, <1>1, ScanPlan DEF Detect, PickDrive
  <2> QED
    BY <1>1, <2>1, FolderStill
    DEF Detect, PickDrive, folderVars, Steps, Renaming
<1>2. CASE Back
  BY <1>2, FolderStill DEF Back, folderVars, Renaming
<1>3. ASSUME NEW i \in DOMAIN plan, i < Len(plan), SwapItems(i, i + 1)
      PROVE  FolderInv'
  <2>1. i + 1 \in DOMAIN plan
    BY <1>0, <1>3, PlanTyped
  <2>2. {plan'[k] : k \in DOMAIN plan'} = {plan[k] : k \in DOMAIN plan}
    BY <1>3, <2>1 DEF SwapItems
  <2>3. step = "preview" /\ step' = "preview" /\ UNCHANGED <<where, replaces, mishaps>>
    BY <1>3 DEF SwapItems, folderVars
  <2>4. replaces /\ Clean => {plan'[k] : k \in DOMAIN plan'} = Scanned
    BY <2>2, <2>3 DEF FolderInv
  <2>5. Scanned' = Scanned /\ (Clean' => Clean)
    BY <2>3 DEF Scanned, Clean
  <2> QED
    BY <2>3, <2>4, <2>5
    DEF FolderInv, CutAlone, OnDisk, Uncut, NoTmp, Renaming
<1>4. CASE ApplyStart
  <2> SUFFICES ASSUME replaces, Clean PROVE FolderInv'
    BY <1>4 DEF ApplyStart, Clean, FolderInv
  <2>1. /\ step = "preview" /\ step' = "phase1"
        /\ UNCHANGED <<where, plan, state, replaces, mishaps>>
    BY <1>4 DEF ApplyStart, folderVars, applyVars
  <2>2. /\ CutAlone /\ NoTmp /\ Scanned = {plan[i] : i \in DOMAIN plan}
        /\ \A k \in DOMAIN plan : state[k] = 0
    BY <2>1 DEF FolderInv, Renaming, Shape
  <2>3. TmpOwned'
    BY <2>1, <2>2 DEF TmpOwned, NoTmp
  <2>4. NamOwned'
    <3> SUFFICES ASSUME NEW m \in Models, where[m].kind = "nam"
                 PROVE  \E k \in DOMAIN plan : where[m] = plan[k] /\ state[k] = 0
      BY <2>1 DEF NamOwned
    <3>1. where[m] \in Scanned
      BY DEF Scanned
    <3> QED
      BY <2>2, <3>1
  <2>5. CutArrived'
    <3> SUFFICES ASSUME NEW m \in Models, NEW k \in DOMAIN plan,
                        where[m].kind = "cut", plan[k] = Uncut(where[m])
                 PROVE  FALSE
      BY <2>1 DEF CutArrived, Uncut
    <3>1. plan[k] \in Scanned
      BY <2>2
    <3> QED
      BY <2>2, <3>1 DEF Scanned, OnDisk, CutAlone
  <2>6. CutAlone'
    BY <2>1, <2>2 DEF CutAlone, OnDisk, Uncut
  <2> QED
    BY <2>1, <2>3, <2>4, <2>5, <2>6 DEF FolderInv, Owned, Renaming
<1>5. CASE Phase1 \/ Phase2 \/ Undo \/ Restore
  <2> SUFFICES ASSUME replaces, Clean, Clean' PROVE FolderInv'
    <3>1. replaces' = replaces /\ mishaps \subseteq mishaps'
      BY <1>0, <1>5, RenameFailsTyped
      DEF Phase1, Phase2, Undo, Restore, applyFrame, Rename
    <3>2. Clean' => Clean
      BY <3>1 DEF Clean
    <3> QED
      BY <3>1, <3>2 DEF FolderInv
  <2>1. /\ plan' = plan /\ step \in Renaming /\ step \in Applying
        /\ at \in DOMAIN plan /\ DOMAIN plan = 1 .. Len(plan)
        /\ Len(plan) \in Nat
    BY <1>0, <1>5, PlanTyped
    DEF Phase1, Phase2, Undo, Restore, applyFrame, Renaming, Applying, TypeInv, Loop
  <2>2. Owned' /\ CutAlone'
    <3>1. \/ UNCHANGED <<where, state>>
          \/ \E old, new, s : Moves(old, new, s) /\ Rename(old, new) /\ Mark(at, s)
      <4>1. CASE Phase1
        <5>1. state[at] = 0
          BY <2>1, <4>1 DEF Phase1, Shape
        <5> QED
          BY <4>1, <5>1 DEF Phase1, RenameFails, Moves
      <4>2. CASE Phase2
        BY <4>2 DEF Phase2, AtTmp, RenameFails, Moves
      <4>3. CASE Undo
        BY <4>3 DEF Undo, AtNew, RenameFails, Moves
      <4>4. CASE Restore
        BY <4>4 DEF Restore, AtTmp, RenameFails, Moves
      <4> QED
        BY <1>5, <4>1, <4>2, <4>3, <4>4
    <3> QED
      BY <2>1, <3>1, FolderMoves
(* What a rollback, or a finished second phase, has behind it.             *)
  <2>6. \A k \in DOMAIN plan :
          /\ k \in Int /\ k >= 1
          /\ Tmp(k).kind = "tmp"
          /\ Tmp(k) = Tmp(at) => k = at
    <3>1. ASSUME NEW k \in DOMAIN plan
          PROVE  /\ k \in Int /\ k >= 1 /\ Tmp(k).kind = "tmp"
                 /\ Tmp(k).num = k - 1
      BY <1>0, <2>1, NamesOfItems
    <3>2. \A k \in DOMAIN plan : k - 1 = at - 1 => k = at
      BY <2>1
    <3> QED
      BY <2>1, <3>1, <3>2
  <2>8. \A k : Tmp(k)' = Tmp(k)
    BY DEF Tmp
  <2>7. ASSUME Restore, NEW m \in Models, NEW k \in DOMAIN plan, where'[m] = Tmp(k)
        PROVE  k > at
    <3>1. TmpPassed
      BY <2>7 DEF FolderInv, Restore
    <3>2. CASE UNCHANGED where /\ ~OnDisk(Tmp(at))
      BY <2>1, <2>6, <2>7, <3>1, <3>2 DEF TmpPassed, OnDisk
    <3>3. CASE Rename(Tmp(at), plan[at])
      <4>1. plan[at].kind = "nam" /\ Lost.kind = "lost"
        BY <1>0, <2>1, NamesOfItems DEF NamNames, Lost, Name
      <4>2. \/ where'[m] \in {plan[at], Lost}
            \/ where'[m] = where[m] /\ where[m] # Tmp(at)
        BY <3>3, RenameEffect
      <4>3. Tmp(k).kind = "tmp"
        BY <2>6
      <4>4. where[m] = Tmp(k) /\ k # at
        BY <2>7, <4>1, <4>2, <4>3
      <4>5. k >= at
        BY <3>1, <4>4 DEF TmpPassed
      <4> QED
        BY <2>1, <4>4, <4>5
    <3>4. \/ UNCHANGED where /\ ~OnDisk(Tmp(at))
          \/ Rename(Tmp(at), plan[at])
      <4>1. RenameFails(Tmp(at), plan[at], "undo") =>
              UNCHANGED where /\ ~OnDisk(Tmp(at))
        BY DEF RenameFails, Happens, Clean
      <4>2. ~AtTmp(at) => ~OnDisk(Tmp(at))
        BY <2>1, TargetsFree DEF AtTmp
      <4> QED
        BY <2>7, <4>1, <4>2 DEF Restore
    <3> QED
      BY <3>2, <3>3, <3>4
  <2>3. step' \in {"undo", "restore"} => TmpPassed'
    <3> SUFFICES ASSUME step' \in {"undo", "restore"},
                        NEW m \in Models, NEW k \in DOMAIN plan,
                        where'[m] = Tmp(k)
                 PROVE  k >= at'
      BY <2>1, <2>8 DEF TmpPassed
    <3>0. k \in Int /\ k >= 1 /\ Tmp(k).kind = "tmp" /\ (Tmp(k) = Tmp(at) => k = at)
      BY <2>6
    <3>1. CASE at' = 1
      BY <3>0, <3>1
    <3>2. CASE Undo
      <4>1. TmpPassed /\ at' = at
        BY <3>2 DEF FolderInv, Undo
      <4>2. CASE UNCHANGED where
        BY <4>1, <4>2 DEF TmpPassed
      <4>3. CASE Rename(New(plan, at), Tmp(at))
        <5>1. Lost.kind = "lost"
          BY DEF Lost, Name
        <5>2. where'[m] \in {Tmp(at), Lost, where[m]}
          BY <4>3, RenameEffect
        <5>3. k = at \/ where[m] = Tmp(k)
          BY <3>0, <5>1, <5>2
        <5> QED
          BY <2>1, <3>0, <4>1, <5>3 DEF TmpPassed
      <4> QED
        BY <3>2, <4>2, <4>3 DEF Undo, RenameFails
    <3>3. CASE Restore /\ at' = at + 1
      BY <2>1, <2>6, <2>7, <3>3
    <3> QED
      BY <1>5, <3>1, <3>2, <3>3
      DEF Phase1, Phase2, Restore, Advance, AfterRenames
  <2>4. step' \notin Renaming => NoTmp'
    <3> SUFFICES ASSUME step' \notin Renaming, NEW m \in Models,
                        where'[m].kind = "tmp"
                 PROVE  FALSE
      BY DEF NoTmp
    <3>1. PICK k \in DOMAIN plan : where'[m] = Tmp(k) /\ state'[k] = 1
      BY <2>1, <2>2, <2>8 DEF Owned, TmpOwned
    <3>2. CASE Phase2
      <4>1. step' \in {"blocks", "result"}
        BY <3>2 DEF Phase2, Advance, AfterRenames, Renaming
      <4> QED
        BY <2>1, <3>1, <4>1, ShapeStep DEF Shape
    <3>3. CASE Restore
      <4>1. k > at
        BY <2>7, <3>1, <3>3
      <4>2. ~(at < Len(plan))
        BY <3>3 DEF Restore, Renaming
      <4> QED
        BY <2>1, <4>1, <4>2
    <3> QED
      BY <1>5, <2>1, <3>2, <3>3 DEF Phase1, Undo, Advance, Renaming
  <2>5. step' # "preview"
    BY <1>5, <2>1
    DEF Phase1, Phase2, Undo, Restore, Advance, AfterRenames, Renaming
  <2> QED
    BY <2>2, <2>3, <2>4, <2>5 DEF FolderInv
<1>6. CASE WriteBlock
  <2>1. /\ UNCHANGED <<where, replaces>> /\ mishaps \subseteq mishaps'
        /\ step = "blocks" /\ step' \in {"blocks", "result", "error"}
    BY <1>6 DEF WriteBlock, NextBlock, Happens
  <2> QED
    BY <2>1, FolderStill DEF Renaming
<1>7. CASE Crash \/ \E m \in Models : UserCopies(m)
  BY <1>7 DEF Crash, UserCopies, Happens, Clean, FolderInv
<1>8. CASE UNCHANGED vars
  BY <1>8
  DEF vars, folderVars, applyVars, FolderInv, Clean, Owned, TmpOwned, NamOwned,
      CutArrived, CutAlone, TmpPassed, NoTmp, Scanned, OnDisk, Uncut, Tmp, New
<1> QED
  BY <1>1, <1>2, <1>3, <1>4, <1>5, <1>6, <1>7, <1>8 DEF Next

KeepInv == TypeInv /\ Shape /\ FolderInv

LEMMA KeepInvariant == /\ Init => KeepInv
                       /\ KeepInv /\ [Next]_vars => KeepInv'
BY TypeInit, ShapeInit, FolderInit, TypeStep, ShapeStep, FolderStep DEF KeepInv

(* What may overwrite a model.                                             *)
LossAllowed == /\ replaces
               /\ \/ mishaps \cap {"undo", "crash", "copy"} # {}
                  \/ step = "restore" /\ Twins(plan)

LEMMA LossIsAllowed ==
  ASSUME KeepInv, Next, NEW m \in Models, where[m] # Lost, where'[m] = Lost
  PROVE  LossAllowed
<1> USE DEF KeepInv, LossAllowed
<1>1. ASSUME NEW old, NEW new, Rename(old, new), new # Lost
      PROVE  where[m] = new /\ replaces
  BY <1>1, RenameEffect
<1>2. CASE Phase1 \/ Phase2 \/ Undo \/ Restore
  <2>1. step \in Renaming /\ TypeOK /\ at \in DOMAIN plan /\ at \in Int
    BY <1>2, PlanTyped
    DEF Phase1, Phase2, Undo, Restore, Renaming, TypeInv, Loop, Applying
  <2>2. /\ plan[at] # Lost /\ Tmp(at) # Lost /\ New(plan, at) # Lost
    <3>1. Lost.kind = "lost"
      BY DEF Lost, Name
    <3> QED
      BY <2>1, <3>1, NamesOfItems DEF NamNames
  <2>3. CASE Phase1
    <3>1. state[at] = 0
      BY <2>1, <2>3 DEF Phase1, Shape
    <3>2. Rename(plan[at], Tmp(at))
      BY <2>3 DEF Phase1, RenameFails
    <3>3. replaces /\ OnDisk(Tmp(at))
      BY <1>1, <2>2, <3>2 DEF OnDisk
    <3> QED
      BY <2>1, <3>1, <3>3, TargetsFree DEF Clean
  <2>4. CASE Phase2
    <3>1. state[at] = 1 /\ Rename(Tmp(at), New(plan, at)) /\ step = "phase2"
      BY <2>4 DEF Phase2, AtTmp, RenameFails
    <3>2. replaces /\ OnDisk(New(plan, at))
      BY <1>1, <2>2, <3>1 DEF OnDisk
    <3> QED
      BY <2>1, <3>1, <3>2, TargetsFree DEF Clean
  <2>5. CASE Undo
    <3>1. state[at] = 2 /\ Rename(New(plan, at), Tmp(at))
      BY <2>5 DEF Undo, AtNew, RenameFails
    <3>2. replaces /\ OnDisk(Tmp(at))
      BY <1>1, <2>2, <3>1 DEF OnDisk
    <3> QED
      BY <2>1, <3>1, <3>2, TargetsFree DEF Clean
  <2>6. CASE Restore
    <3>1. state[at] = 1 /\ Rename(Tmp(at), plan[at]) /\ step = "restore"
      BY <2>6 DEF Restore, AtTmp, RenameFails
    <3>2. replaces /\ OnDisk(plan[at])
      BY <1>1, <2>2, <3>1 DEF OnDisk
    <3> QED
      BY <2>1, <3>1, <3>2, TargetsFree DEF Clean
  <2> QED
    BY <1>2, <2>3, <2>4, <2>5, <2>6
<1>3. CASE UNCHANGED where
  BY <1>3
<1>4. ASSUME NEW k \in Models, UserCopies(k) PROVE FALSE
  <2>1. \A n \in UserNames : n.kind = "nam"
    BY DEF UserNames, Name
  <2>2. where'[m] = where[m] \/ where'[m] \in UserNames
    BY <1>4 DEF UserCopies, TypeInv, TypeOK
  <2> QED
    BY <2>1, <2>2 DEF Lost, Name
<1> QED
  BY <1>2, <1>3, <1>4
  DEF Next, Detect, PickDrive, Back, SwapItems, ApplyStart, WriteBlock, Crash,
      folderVars

(* A model is overwritten only where rename() replaces, and only by the    *)
(* rollback of a plan with equal base names or after a mishap worse than a *)
(* failing rename.                                                         *)
THEOREM ModelsAreKept == Spec => LossNeedsAMishap
<1> DEFINE Loss == \E m \in Models : where[m] # Lost /\ where'[m] = Lost
<1>1. KeepInv /\ [Next]_vars => [Loss => LossAllowed]_vars
  BY LossIsAllowed
<1> QED
  BY <1>1, KeepInvariant, PTL DEF Spec, LossNeedsAMishap, LossAllowed

=============================================================================
