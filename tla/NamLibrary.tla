----------------------------- MODULE NamLibrary -----------------------------
(***************************************************************************)
(* The organiser of the device's NAM folder: core/nam_library.c and the    *)
(* library screen of app/main.c that drives it.  A scan turns the folder   *)
(* into a plan (the i-th planned file gets knob position i-1), the user    *)
(* may reorder it, and apply carries it out by one rename() at a time:     *)
(* every file that needs a new name first to a private temporary name,     *)
(* then all of them to their final names; after a failure, file by file    *)
(* back.  At last one preset ("block") per model is written.               *)
(*                                                                         *)
(* A model file is an element of Models; `where` is the name it is stored  *)
(* under.  A name is its kind, the number of its "NNN - " prefix (-1: no   *)
(* prefix) and its base name; base names are numbers in the order of       *)
(* strcasecmp.                                                             *)
(***************************************************************************)
EXTENDS Integers, Sequences, FiniteSets

CONSTANTS
  Models,      \* the model files, by content
  Broken,      \* the ones nam::get_dsp cannot build a DSP from
  Bases,       \* base names
  LongTitles,  \* the ones too long for a name with a prefix and ".block"
  LongBases,   \* the ones too long even for a name with a prefix
  Prefixes,    \* the prefixes of files the user copies in later
  Starts,      \* bound: the folders to start with, names of all models
  MaxModels,   \* NAM_LIBRARY_MAX_MODELS
  Options,     \* what the user may tick before Apply
  Replacing,   \* does rename() replace an existing file? (POSIX yes, Windows no)
  Mishaps,     \* bound: what may go wrong, each at most once ...
  MaxMishaps,  \* bound: ... and this many of them in all
  MaxApplies   \* bound: how often Apply is pressed

AllMishaps == {"fail", "undo", "crash", "copy", "write", "close"}
BlockTypes == {1, 2}                    \* ANXIETY OD, ANXIETY OD V2

Name(kind, num, base) == [kind |-> kind, num |-> num, base |-> base]
Absent == Name("absent", -1, -1)
Lost   == Name("lost", -1, -1)
StartNames ==                           \* at most 255 characters
  {n \in [kind : {"nam"}, num : Nat \cup {-1}, base : Bases] :
     n.num >= 0 => n.base \notin LongBases}

ASSUME LibraryAssumption ==
  /\ IsFiniteSet(Models) /\ Broken \subseteq Models
  /\ Bases \subseteq Nat
  /\ LongBases \subseteq LongTitles /\ LongTitles \subseteq Bases
  /\ Prefixes \subseteq Nat
  /\ \A f \in Starts :
       /\ f \in [Models -> StartNames \cup {Absent}]
       /\ \A m, k \in Models : f[m] = f[k] => m = k \/ f[m] = Absent
  /\ MaxModels \in Nat
  /\ Options \subseteq [kinds : 0 .. 2, overwrite : BOOLEAN]
  /\ Replacing \subseteq BOOLEAN
  /\ Mishaps \subseteq AllMishaps
  /\ MaxMishaps \in Nat /\ MaxApplies \in Nat

VARIABLES
  where,      \* the name of each model
  whole,      \* blocks that hold a complete preset
  torn,       \* blocks whose writing broke off
  replaces,   \* the platform
  \* the library screen
  step,       \* LibraryStep, or the phase apply is in
  plan,       \* old_filename of the items, in the order of their index
  option,     \* the boxes ticked
  \* locals of nam_library_apply
  at,         \* loop counter
  state,      \* 0: still at old, 1: at its temporary name, 2: at new
  type,       \* the kind of block being written
  \* what the properties compare with
  before,     \* the folder as the scan or the apply found it
  edited,     \* has the user changed the folder since the scan?
  mishaps,    \* what has gone wrong so far
  applies     \* how often Apply was pressed

folderVars == <<where, whole, torn>>
applyVars  == <<at, state, type>>
vars == <<folderVars, replaces, step, plan, option, applyVars, before,
          edited, mishaps, applies>>

NoOption == [kinds |-> 0, overwrite |-> FALSE]

(* Variant: one temporary name for all.                                    *)
TmpShared(i) == Name("tmp", 0, -1)

(* The private temporary name of the i-th item.                            *)
Tmp(i) == Name("tmp", i - 1, -1)

UserNames ==
  {Name("nam", n, b) : n \in Prefixes, b \in Bases \ LongBases}
    \cup {Name("nam", -1, b) : b \in Bases}

OnDisk(n) == \E m \in Models : where[m] = n
Scanned   == {n \in {where[m] : m \in Models} : n.kind = "nam"}

Applying == {"phase1", "phase2", "undo", "restore", "blocks"}
Steps    == {"closed", "no_drive", "pick_drive", "preview", "result", "error"}

NamNames == [kind : {"nam"}, num : Nat \cup {-1}, base : Bases]
CutNames == [kind : {"cut"}, num : Nat, base : Bases]
BlockNames == [kind : {"block", "cut"}, num : Nat, base : Bases]
Blocks   == BlockTypes \X BlockNames
DiskNames ==
  NamNames \cup CutNames
    \cup [kind : {"tmp", "absent", "lost"}, num : Nat \cup {-1}, base : {-1}]

TypeOK ==
  /\ where \in [Models -> DiskNames]
  /\ whole \subseteq Blocks /\ torn \subseteq Blocks
  /\ replaces \in BOOLEAN
  /\ step \in Steps \cup Applying
  /\ plan \in Seq(NamNames)
  /\ Len(plan) <= MaxModels
  /\ option \in Options \cup {NoOption}
  /\ at \in Nat
  /\ state \in [1 .. Len(plan) -> 0 .. 2]
  /\ type \in BlockTypes
  /\ edited \in BOOLEAN
  /\ mishaps \subseteq Mishaps
  /\ applies \in 0 .. MaxApplies

Init ==
  /\ where \in Starts
  /\ whole = {} /\ torn = {}
  /\ replaces \in Replacing
  /\ step = "closed" /\ plan = <<>> /\ option = NoOption
  /\ at = 1 /\ state = <<>> /\ type = 1
  /\ before = where /\ edited = FALSE /\ mishaps = {} /\ applies = 0

-----------------------------------------------------------------------------
(***************************************************************************)
(* The scan.                                                               *)
(***************************************************************************)

(* Variant: prefixed and unprefixed files in one alphabetical order.       *)
BeforeByBase(a, b) == a.base < b.base \/ (a.base = b.base /\ a.num < b.num)

(* Files with a prefix come first, by number and then by base name; then   *)
(* the files without, by base name.                                        *)
Before(a, b) ==
  \/ a.num >= 0 /\ b.num < 0
  \/ a.num >= 0 /\ b.num >= 0 /\ a.num < b.num
  \/ a.num = b.num /\ a.base < b.base

InOrder(q) ==
  /\ {q[i] : i \in DOMAIN q} = Scanned
  /\ \A i, j \in DOMAIN q : i < j => Before(q[i], q[j])

(* new_filename of the i-th item: with its prefix added, a long name loses *)
(* its end and with it the extension.                                      *)
New(q, i) ==
  Name(IF q[i].num < 0 /\ q[i].base \in LongBases THEN "cut" ELSE "nam",
       i - 1, q[i].base)

(* Variant: numbers that are there are kept, gaps and all.                 *)
NeedsPrefixOnly(q, i) == q[i].num < 0

NeedsRename(q, i) == q[i] # New(q, i)

(* Variant: one file more than the knob has positions.                     *)
FitsKnobAndOne(n) == n <= MaxModels + 1

FitsKnob(n) == n <= MaxModels

(* A scan fails if there are too many files, and whenever the folder can   *)
(* not be read or made.                                                    *)
Scan ==
  \/ /\ FitsKnob(Cardinality(Scanned))
     /\ \E q \in [1 .. Cardinality(Scanned) -> Scanned] :
          InOrder(q) /\ plan' = q
     /\ step' = "preview"
  \/ plan' = <<>> /\ step' = "error"

(* nam_library_find_drives finds no drive, several, or the one that is     *)
(* scanned at once.                                                        *)
Detect ==
  /\ step \in Steps
  /\ \/ step' \in {"no_drive", "pick_drive"} /\ plan' = <<>>
     \/ Scan
  /\ state' = [i \in DOMAIN plan' |-> 0]
  /\ option' = NoOption /\ at' = 1 /\ type' = 1
  /\ before' = where /\ edited' = FALSE
  /\ UNCHANGED <<folderVars, replaces, mishaps, applies>>

PickDrive ==
  /\ step = "pick_drive"
  /\ Scan
  /\ state' = [i \in DOMAIN plan' |-> 0]
  /\ before' = where /\ edited' = FALSE
  /\ UNCHANGED <<folderVars, replaces, option, at, type, mishaps, applies>>

Back ==
  /\ step \in {"no_drive", "pick_drive", "result"}
  /\ step' = "closed" /\ plan' = <<>> /\ state' = <<>> /\ option' = NoOption
  /\ before' = where /\ edited' = FALSE
  /\ UNCHANGED <<folderVars, replaces, at, type, mishaps, applies>>

(* The arrows of the preview: an item changes places with its neighbour    *)
(* and both get the file names of their new positions.                     *)
SwapItems(i, j) ==
  /\ step = "preview"
  /\ plan' = [plan EXCEPT ![i] = plan[j], ![j] = plan[i]]
  /\ UNCHANGED <<folderVars, replaces, step, option, applyVars, before,
                 edited, mishaps, applies>>

-----------------------------------------------------------------------------
(***************************************************************************)
(* Apply: the renames.                                                     *)
(***************************************************************************)

ApplyStart ==
  /\ step = "preview"
  /\ plan # <<>>
  /\ applies < MaxApplies
  /\ applies' = applies + 1
  /\ option' \in Options
  /\ step' = "phase1"
  /\ before' = where
  /\ UNCHANGED <<folderVars, replaces, plan, applyVars, edited, mishaps>>

Happens(mishap) ==
  /\ mishap \in Mishaps \ mishaps
  /\ Cardinality(mishaps) < MaxMishaps
  /\ mishaps' = mishaps \cup {mishap}

(* rename(2): the file under the new name, if any, is replaced, or in the  *)
(* way.                                                                    *)
Rename(old, new) ==
  /\ OnDisk(old)
  /\ replaces \/ ~OnDisk(new)
  /\ where' = [m \in Models |-> IF where[m] = old THEN new
                                ELSE IF where[m] = new THEN Lost
                                ELSE where[m]]
  /\ UNCHANGED mishaps

RenameFails(old, new, mishap) ==
  /\ \/ (~OnDisk(old) \/ (~replaces /\ OnDisk(new))) /\ UNCHANGED mishaps
     \/ Happens(mishap)
  /\ UNCHANGED where

Mark(i, s) == state' = [state EXCEPT ![i] = s]
applyFrame == <<whole, torn, replaces, plan, option, type, before, edited,
                applies>>

(* The next item of the loop, or the next loop.                            *)
Advance(next) ==
  IF at < Len(plan) THEN at' = at + 1 /\ UNCHANGED step
                    ELSE at' = 1 /\ step' = next

Phase1 ==
  /\ step = "phase1"
  /\ \/ ~NeedsRename(plan, at) /\ Advance("phase2")
        /\ UNCHANGED <<where, mishaps, state>>
     \/ /\ NeedsRename(plan, at)
        /\ Rename(plan[at], Tmp(at))
        /\ Mark(at, 1) /\ Advance("phase2")
     \/ /\ NeedsRename(plan, at)
        /\ RenameFails(plan[at], Tmp(at), "fail")
        /\ step' = "undo" /\ at' = 1 /\ UNCHANGED state
  /\ UNCHANGED applyFrame

AfterRenames == IF option.kinds = 0 THEN "result" ELSE "blocks"

(* Variant: the loop starts at the second item.                            *)
AtTmpButFirst(i) == state[i] = 1 /\ i > 1

AtTmp(i) == state[i] = 1

Phase2 ==
  /\ step = "phase2"
  /\ \/ ~AtTmp(at) /\ Advance(AfterRenames)
        /\ UNCHANGED <<where, mishaps, state>>
     \/ /\ AtTmp(at)
        /\ Rename(Tmp(at), New(plan, at))
        /\ Mark(at, 2) /\ Advance(AfterRenames)
     \/ /\ AtTmp(at)
        /\ RenameFails(Tmp(at), New(plan, at), "fail")
        /\ step' = "undo" /\ at' = 1 /\ UNCHANGED state
  /\ UNCHANGED applyFrame

(* Variant: forgets the files that have reached their final names.         *)
NeverAtNew(i) == FALSE

AtNew(i) == state[i] = 2

(* Rollback of one item, first half: from new back to its temporary name.  *)
Undo ==
  /\ step = "undo"
  /\ step' = "restore" /\ UNCHANGED at
  /\ \/ ~AtNew(at) /\ UNCHANGED <<where, mishaps, state>>
     \/ AtNew(at) /\ Rename(New(plan, at), Tmp(at)) /\ Mark(at, 1)
     \/ AtNew(at) /\ RenameFails(New(plan, at), Tmp(at), "undo")
        /\ UNCHANGED state
  /\ UNCHANGED applyFrame

(* Second half: from the temporary name to old.                            *)
Restore ==
  /\ step = "restore"
  /\ IF at < Len(plan) THEN at' = at + 1 /\ step' = "undo"
                       ELSE at' = 1 /\ step' = "error"
  /\ \/ ~AtTmp(at) /\ UNCHANGED <<where, mishaps, state>>
     \/ AtTmp(at) /\ Rename(Tmp(at), plan[at]) /\ Mark(at, 0)
     \/ AtTmp(at) /\ RenameFails(Tmp(at), plan[at], "undo")
        /\ UNCHANGED state
  /\ UNCHANGED applyFrame

-----------------------------------------------------------------------------
(***************************************************************************)
(* Apply: the blocks.                                                      *)
(***************************************************************************)

(* "NNN - title.block" in the folder of its type; its DRIVE value is NNN.  *)
(* A long title pushes the end of the name, and with it the extension, out *)
(* of the buffer.                                                          *)
Block(t, i) ==
  <<t, Name(IF plan[i].base \in LongTitles THEN "cut" ELSE "block",
            i - 1, plan[i].base)>>

(* Variant: the box "Overwrite existing" is not looked at.                 *)
KeepsEveryBlock(b) == b \in whole \cup torn

KeepsBlock(b) == ~option.overwrite /\ b \in whole \cup torn

NextBlock ==
  \/ at < Len(plan) /\ at' = at + 1 /\ UNCHANGED <<type, step>>
  \/ at = Len(plan) /\ at' = 1 /\ type < option.kinds /\ type' = type + 1
     /\ UNCHANGED step
  \/ at = Len(plan) /\ at' = 1 /\ type = option.kinds /\ type' = 1
     /\ step' = "result"

(* A file that cannot be opened or takes too few bytes ends the apply.  A  *)
(* block fits the buffer of its FILE, so most often the disk is met only   *)
(* by fclose, whose result nobody looks at.                                *)
WriteBlock ==
  LET b == Block(type, at)
  IN  /\ step = "blocks"
      /\ \/ KeepsBlock(b) /\ NextBlock
            /\ UNCHANGED <<whole, torn, mishaps>>
         \/ /\ ~KeepsBlock(b)
            /\ whole' = whole \cup {b} /\ torn' = torn \ {b}
            /\ NextBlock
            /\ UNCHANGED mishaps
         \/ /\ ~KeepsBlock(b)
            /\ Happens("write")
            /\ \/ UNCHANGED <<whole, torn>>
               \/ whole' = whole \ {b} /\ torn' = torn \cup {b}
            /\ step' = "error" /\ at' = 1 /\ type' = 1
         \/ /\ ~KeepsBlock(b)
            /\ Happens("close")
            /\ whole' = whole \ {b} /\ torn' = torn \cup {b}
            /\ NextBlock
      /\ UNCHANGED <<where, replaces, plan, option, state, before, edited,
                     applies>>

-----------------------------------------------------------------------------
(***************************************************************************)
(* The environment.                                                        *)
(***************************************************************************)

(* The drive is pulled or the program dies between two calls, or in the    *)
(* middle of writing a block.                                              *)
Crash ==
  /\ step \in Applying
  /\ Happens("crash")
  /\ \/ UNCHANGED <<whole, torn>>
     \/ /\ step = "blocks" /\ ~KeepsBlock(Block(type, at))
        /\ whole' = whole \ {Block(type, at)}
        /\ torn' = torn \cup {Block(type, at)}
  /\ step' = "closed" /\ plan' = <<>> /\ state' = <<>> /\ option' = NoOption
  /\ at' = 1 /\ type' = 1
  /\ before' = where /\ edited' = FALSE
  /\ UNCHANGED <<where, replaces, applies>>

(* The user copies a file into the folder while the preview is shown; a    *)
(* rescan makes it part of the plan.                                       *)
UserCopies(m) ==
  /\ step = "preview"
  /\ Happens("copy")
  /\ where[m] = Absent
  /\ \E n \in UserNames : ~OnDisk(n) /\ where' = [where EXCEPT ![m] = n]
  /\ edited' = TRUE
  /\ UNCHANGED <<whole, torn, replaces, step, plan, option, applyVars, before,
                 applies>>

Next ==
  \/ Detect \/ PickDrive \/ Back
  \/ \E i \in DOMAIN plan : i < Len(plan) /\ SwapItems(i, i + 1)
  \/ ApplyStart \/ Phase1 \/ Phase2 \/ Undo \/ Restore \/ WriteBlock
  \/ Crash
  \/ \E m \in Models : UserCopies(m)

Spec == Init /\ [][Next]_vars

-----------------------------------------------------------------------------
(***************************************************************************)
(* Properties of the organiser.                                            *)
(***************************************************************************)

(* Two planned files with one base name: only then can the new name of one *)
(* be the old name of another.                                             *)
Twins(q) == \E i, j \in DOMAIN q : i # j /\ q[i].base = q[j].base

(* A model file is overwritten only where rename() replaces, and only by   *)
(* the rollback of a plan with twins or after something worse: a rollback  *)
(* that failed, a crash (both leave a file under a temporary name that the *)
(* next apply takes for its own), a file copied in behind the plan's back. *)
LossNeedsAMishap ==
  [][(\E m \in Models : where[m] # Lost /\ where'[m] = Lost) =>
       /\ replaces
       /\ \/ mishaps \cap {"undo", "crash", "copy"} # {}
          \/ step = "restore" /\ Twins(plan)]_vars

(* Apply ends with a file under a name that no scan and no device looks at *)
(* only in four ways: it had that name before; something worse than a      *)
(* failing rename happened; rename() does not replace and twins are in     *)
(* each other's way during the rollback; or the new name of the file, as   *)
(* the preview shows it, is too long for its extension and no rollback     *)
(* took it back.                                                           *)
HiddenNeedsAMishap ==
  [][(step \in Applying /\ step' \in Steps) =>
       \A m \in Models : where'[m].kind \in {"tmp", "cut"} =>
         \/ where'[m] = before[m]
         \/ mishaps' \cap {"undo", "crash", "copy"} # {}
         \/ ~replaces /\ Twins(plan)
         \/ /\ step # "restore"
            /\ \E i \in DOMAIN plan :
                 before[m] = plan[i] /\ New(plan, i).kind = "cut"]_vars

(* When apply reports success, every planned file has the name the preview *)
(* showed for it, and every other file is where it was.  The exception: a  *)
(* file that lay under a name the plan uses, left there by a failed        *)
(* rollback or a crash or copied in since the scan, is silently replaced.  *)
AppliedAsPlanned ==
  step = "result" =>
    \A m \in Models :
      /\ \A i \in DOMAIN plan : before[m] = plan[i] => where[m] = New(plan, i)
      /\ \/ \E i \in DOMAIN plan : before[m] = plan[i]
         \/ where[m] = before[m]
         \/ /\ where[m] = Lost /\ replaces
            /\ mishaps \cap {"undo", "crash", "copy"} # {}
            /\ \E i \in DOMAIN plan : before[m] \in {Tmp(i), New(plan, i)}

(* A failed apply leaves the folder as it found it, if every undoing       *)
(* rename works, no two base names are the same, no earlier apply has left *)
(* a file under a name that no scan sees (temporary or cut), and the user  *)
(* has not changed the folder since the scan.                              *)
RollbackRestores ==
  [][(/\ step = "restore" /\ step' = "error"
      /\ ~edited /\ "undo" \notin mishaps' /\ ~Twins(plan)
      /\ \A m \in Models : before[m].kind \notin {"tmp", "cut"})
       => where' = before]_vars

(* "already-moved files are best-effort restored to their original         *)
(* old_filename": also for plans with twins.                               *)
RollbackAlwaysRestores ==
  [][(step = "restore" /\ step' = "error" /\ ~edited /\ "undo" \notin mishaps')
       => where' = before]_vars

(* After a success every ticked block of every item whose title leaves     *)
(* room for it exists under its ".block" name.  It holds a complete preset *)
(* unless the loss went unnoticed in fclose, or an earlier apply has left  *)
(* it torn and existing blocks were not to be overwritten.                 *)
BlocksComplete ==
  step = "result" =>
    \A t \in 1 .. option.kinds, i \in DOMAIN plan :
      plan[i].base \notin LongTitles =>
        LET b == <<t, Name("block", i - 1, plan[i].base)>>
        IN  /\ b \in whole \cup torn
            /\ b \in torn => \/ "close" \in mishaps
                             \/ ~option.overwrite /\ mishaps \cap {"write", "crash"} # {}

(* "writes one NNN - base_name.block per model": also for long titles.     *)
EveryModelHasItsBlock ==
  step = "result" =>
    \A t \in 1 .. option.kinds, i \in DOMAIN plan :
      <<t, Name("block", i - 1, plan[i].base)>> \in whole

(* A scan right after a success proposes to rename exactly the files       *)
(* behind the first one whose new name had no room for its extension: no   *)
(* scan sees that file, so those behind it move up.  Without such a file   *)
(* an applied plan is final, whatever order the user had chosen.           *)
RescanClosesGaps ==
  [][step = "result" /\ step' = "preview" /\ ~edited =>
       \A i \in DOMAIN plan' :
         NeedsRename(plan', i) <=>
           \E k \in DOMAIN plan : New(plan, k).kind = "cut" /\ k - 1 < plan'[i].num]_vars

-----------------------------------------------------------------------------
(***************************************************************************)
(* The organiser and the device.  The hook's preload keeps the .nam files  *)
(* that build and sorts them; after an apply all have a prefix, where its  *)
(* order of bytes is the order of the prefixes.                            *)
(***************************************************************************)

Loadable(m) == where[m].kind = "nam" /\ m \notin Broken
DeviceBefore(a, b) == a.num < b.num \/ (a.num = b.num /\ a.base < b.base)
DeviceRank(m) ==
  Cardinality({k \in Models : Loadable(k) /\ DeviceBefore(where[k], where[m])})

(* The files of the items up to i that the device will not load.           *)
Skipped(i) ==
  {k \in Models : ~Loadable(k) /\ \E j \in 1 .. i : where[k] = New(plan, j)}

(* The knob position that selects a model is the index it was given, less  *)
(* the files before it that the device skips.                              *)
RankIsIndexLessSkipped ==
  step = "result" /\ ~edited =>
    \A m \in Models, i \in DOMAIN plan :
      where[m] = New(plan, i) /\ Loadable(m)
        => DeviceRank(m) = i - 1 - Cardinality(Skipped(i))
=============================================================================
