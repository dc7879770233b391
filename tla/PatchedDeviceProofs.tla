-------------------------- MODULE PatchedDeviceProofs --------------------------
(***************************************************************************)
(* Proofs about what becomes of a shipped image: a call of either pedal    *)
(* always ends in one function, constructors write into hook slots only,   *)
(* without mishap exactly the requested pedals reach the hook, and what    *)
(* the tool has made it never patches again.                               *)
(***************************************************************************)
EXTENDS PatchedDevice, PatchPipelineProofs

-----------------------------------------------------------------------------
(* The shipped binary beside the stock one                                  *)

\* The dead space behind the code, which the trampolines are put into.
DeadSpace(e, c) == TrampVaddr(e, c) .. TrampVaddr(e, c) + TrampLen

WordAt(e, pedal) == e.word[SlotFileOffset(pedal.vtable)]

\* In h a call of the pedal goes through one trampoline, which remembers what
\* the vtable of e held.
Rerouted(e, h, pedal, slot) ==
    \E t \in h.tramp :
        /\ WordAt(h, pedal) = t.vaddr
        /\ t.vaddr # WordAt(e, pedal)
        /\ t.orig = WordAt(e, pedal)
        /\ t.slot = slot
        /\ \A u \in h.tramp : u.vaddr = t.vaddr => u = t

\* What DeviceAssumption says of one binary and pedal.
LeavesRoom(e, pedal) == \A c \in CodeSegments(e) : pedal.orig \notin DeadSpace(e, c)

Unhooked(e, h, pedal) == WordAt(h, pedal) = WordAt(e, pedal)

LEMMA TrampNat == TrampLen \in Nat /\ TrampLen > 0
BY ElfAssumption

\* One hijack.
LEMMA OnceRerouted ==
  ASSUME NEW e, NEW h, NEW p, NEW slot, OnceHooked(e, h, p, slot),
         e.tramp = {}, LeavesRoom(e, p)
  PROVE  Rerouted(e, h, p, slot)
<1>1. PICK c, t :
        /\ c \in CodeSegments(e)
        /\ TrampVaddr(e, c) \in Nat /\ Holds(e, p)
        /\ h.word = [e.word EXCEPT ![SlotFileOffset(p.vtable)] = TrampVaddr(e, c)]
        /\ h.tramp = e.tramp \cup {t} /\ t.vaddr = TrampVaddr(e, c)
        /\ t.slot = slot /\ t.orig = p.orig
  BY DEF OnceHooked
<1>2. WordAt(h, p) = t.vaddr /\ WordAt(e, p) = p.orig
  BY <1>1 DEF Holds, WordAt
<1>3. t.vaddr # p.orig
  <2>1. t.vaddr \in DeadSpace(e, c)
    BY <1>1, TrampNat DEF DeadSpace
  <2> QED
    BY <1>1, <2>1 DEF LeavesRoom
<1>4. t \in h.tramp /\ \A u \in h.tramp : u = t
  BY <1>1
<1> QED
  BY <1>1, <1>2, <1>3, <1>4 DEF Rerouted

LEMMA OthersUnhooked ==
  ASSUME NEW e, NEW h, NEW p, NEW slot, OnceHooked(e, h, p, slot),
         NEW q, SlotFileOffset(p.vtable) # SlotFileOffset(q.vtable),
         SlotFileOffset(q.vtable) \in DOMAIN e.word
  PROVE  Unhooked(e, h, q)
BY DEF OnceHooked, Unhooked, WordAt

\* Two hijacks, one after the other.
LEMMA BothRerouted ==
  ASSUME NEW e, NEW m, NEW h, NEW p, NEW q, NEW slot, NEW slot2,
         OnceHooked(e, m, p, slot), OnceHooked(m, h, q, slot2),
         SlotFileOffset(p.vtable) # SlotFileOffset(q.vtable),
         e.tramp = {}, LeavesRoom(e, p), LeavesRoom(e, q)
  PROVE  Rerouted(e, h, p, slot) /\ Rerouted(e, h, q, slot2)
<1>1. PICK c, t :
        /\ c \in CodeSegments(e)
        /\ CodeSegments(m) = {c} /\ TrampVaddr(m, c) = TrampVaddr(e, c) + TrampLen
        /\ TrampVaddr(e, c) \in Nat /\ Holds(e, p)
        /\ m.word = [e.word EXCEPT ![SlotFileOffset(p.vtable)] = TrampVaddr(e, c)]
        /\ m.tramp = e.tramp \cup {t} /\ t.vaddr = TrampVaddr(e, c)
        /\ t.slot = slot /\ t.orig = p.orig
  BY DEF OnceHooked
<1>2. PICK d, u :
        /\ d \in CodeSegments(m)
        /\ Holds(m, q)
        /\ h.word = [m.word EXCEPT ![SlotFileOffset(q.vtable)] = TrampVaddr(m, d)]
        /\ h.tramp = m.tramp \cup {u} /\ u.vaddr = TrampVaddr(m, d)
        /\ u.slot = slot2 /\ u.orig = q.orig
  BY DEF OnceHooked
<1>3. d = c /\ u.vaddr = TrampVaddr(e, c) + TrampLen /\ t.vaddr # u.vaddr
  BY <1>1, <1>2, TrampNat
<1>4. t.vaddr # p.orig /\ u.vaddr # q.orig
  <2>1. t.vaddr \in DeadSpace(e, c) /\ u.vaddr \in DeadSpace(e, c)
    BY <1>1, <1>3, TrampNat DEF DeadSpace
  <2> QED
    BY <1>1, <2>1 DEF LeavesRoom
<1>5. WordAt(h, p) = t.vaddr /\ WordAt(e, p) = p.orig
  BY <1>1, <1>2 DEF Holds, WordAt
<1>6. WordAt(h, q) = u.vaddr /\ WordAt(e, q) = q.orig
  BY <1>1, <1>2 DEF Holds, WordAt
<1>7. h.tramp = {t, u}
  BY <1>1, <1>2
<1> QED
  BY <1>1, <1>2, <1>3, <1>4, <1>5, <1>6, <1>7 DEF Rerouted

\* Nothing the table names can be found in a binary that is hooked.
LEMMA HookedHoldsNothing ==
  ASSUME NEW e, NEW h, NEW p, NEW slot, OnceHooked(e, h, p, slot), LeavesRoom(e, p),
         NEW q, LeavesRoom(e, q), q = p \/ ~ Holds(e, q)
  PROVE  ~ Holds(h, q)
<1>1. PICK c \in CodeSegments(e) :
        /\ TrampVaddr(e, c) \in Nat /\ Holds(e, p)
        /\ h.word = [e.word EXCEPT ![SlotFileOffset(p.vtable)] = TrampVaddr(e, c)]
  BY DEF OnceHooked
<1>2. q.orig # TrampVaddr(e, c)
  <2>1. TrampVaddr(e, c) \in DeadSpace(e, c)
    BY <1>1, TrampNat DEF DeadSpace
  <2> QED
    BY <2>1 DEF LeavesRoom
<1> QED
  BY <1>1, <1>2 DEF Holds

LEMMA TwiceHookedHoldsNothing ==
  ASSUME NEW e, NEW m, NEW h, NEW p, NEW q, NEW slot, NEW slot2,
         OnceHooked(e, m, p, slot), OnceHooked(m, h, q, slot2),
         NEW r, LeavesRoom(e, r), ~ Holds(m, r)
  PROVE  ~ Holds(h, r)
<1>1. PICK c \in CodeSegments(e) :
        /\ CodeSegments(m) = {c} /\ TrampVaddr(m, c) = TrampVaddr(e, c) + TrampLen
        /\ TrampVaddr(e, c) \in Nat
  BY DEF OnceHooked
<1>2. h.word = [m.word EXCEPT ![SlotFileOffset(q.vtable)] = TrampVaddr(m, c)]
  BY <1>1 DEF OnceHooked
<1>3. r.orig # TrampVaddr(m, c)
  <2>1. TrampVaddr(m, c) \in DeadSpace(e, c)
    BY <1>1, TrampNat DEF DeadSpace
  <2> QED
    BY <2>1 DEF LeavesRoom
<1> QED
  BY <1>2, <1>3 DEF Holds

-----------------------------------------------------------------------------
(* The pedals of the shipped binary                                         *)

\* What DeviceAssumption says of the binary the call has started from.
StockFits(e) ==
    /\ e.tramp = {}
    /\ \A m \in DOMAIN Targets :
          /\ LeavesRoom(e, Targets[m].v1) /\ LeavesRoom(e, Targets[m].v2)
          /\ Holds(e, Targets[m].v1) =>
                /\ SlotFileOffset(Targets[m].v2.vtable) \in DOMAIN e.word
                /\ \A other \in DOMAIN Targets \ {m} : ~ Holds(e, Targets[other].v1)

LEMMA StockBinaryFits ==
  ASSUME NEW e \in StockBinaries PROVE StockFits(e)
<1> SUFFICES ASSUME NEW m \in DOMAIN Targets
             PROVE  LeavesRoom(e, Targets[m].v1) /\ LeavesRoom(e, Targets[m].v2)
  BY DeviceAssumption DEF StockFits
<1> QED
  BY DeviceAssumption DEF LeavesRoom, DeadSpace

LEMMA ShippedStock ==
  ASSUME CallInv, stage \in Filling
  PROVE  StockFits(StockEvil.elf) /\ target \in DOMAIN Targets
<1>1. /\ offer \in Stocks /\ Parses(offer) /\ HasImages(Props(offer))
      /\ target \in DOMAIN Targets
  BY DEF CallInv, PipelineInv, TypeOK, Filling
<1>2. OldImage(offer).kind = "xz" /\ Exists(OldImage(offer).of, "Evil", "Evil")
  BY DEF CallInv, SourceInv, Filling, StockFs
<1>3. StockEvil.kind = "elf" /\ StockEvil = Dump(OldImage(offer).of, "Evil", "Evil")
  BY DEF CallInv, HookedInv, Filling, Hooking, StockEvil, StockFs
<1>4. StockEvil.elf \in StockBinaries
  BY <1>1, <1>2, <1>3 DEF StockBinaries
<1> QED
  BY <1>1, <1>4, StockBinaryFits

\* No pedal the table begins with is found in the binary.
SpentFile(file) ==
    file.kind = "elf" => \A m \in DOMAIN Targets : ~ Holds(file.elf, Targets[m].v1)

PedalsRerouted ==
    /\ Rerouted(StockEvil.elf, evil.elf, Pedal1, slots["GONK"])
    /\ IF request.v2
       THEN /\ DOMAIN slots = {"GONK", "GONK_V2"}
            /\ Rerouted(StockEvil.elf, evil.elf, Pedal2, slots["GONK_V2"])
       ELSE /\ DOMAIN slots = {"GONK"}
            /\ Unhooked(StockEvil.elf, evil.elf, Pedal2)
    /\ SlotFileOffset(Pedal1.vtable) # SlotFileOffset(Pedal2.vtable)

\* What the two hijacks have made of the stock binary.
LEMMA ShippedPedals ==
  ASSUME CallInv, stage \in Filling
  PROVE  evil.kind = "elf" /\ PedalsRerouted /\ SpentFile(evil)
<1> DEFINE e == StockEvil.elf
<1>1. StockFits(e) /\ target \in DOMAIN Targets
  BY ShippedStock
<1>2. /\ SlotFileOffset(Pedal1.vtable) # SlotFileOffset(Pedal2.vtable)
      /\ LeavesRoom(e, Pedal1) /\ LeavesRoom(e, Pedal2) /\ e.tramp = {}
  BY <1>1, PipelineAssumption DEF StockFits, Pedal1, Pedal2
<1>3. stage \in (Hooking \cup Filling) \ {"hijack_v1"} /\ stage # "hijack_v2"
  BY DEF Filling, Hooking
<1>4. evil.kind = "elf"
  BY <1>3 DEF CallInv, HookedInv
<1>5. Holds(e, Pedal1) =>
         /\ SlotFileOffset(Pedal2.vtable) \in DOMAIN e.word
         /\ \A m \in DOMAIN Targets : Targets[m].v1 = Pedal1 \/ ~ Holds(e, Targets[m].v1)
  BY <1>1 DEF StockFits, Pedal1, Pedal2
<1>6. CASE request.v2
  <2>1. /\ DOMAIN slots = {"GONK", "GONK_V2"}
        /\ \E m : /\ OnceHooked(StockEvil.elf, m, Pedal1, slots["GONK"])
                  /\ OnceHooked(m, evil.elf, Pedal2, slots["GONK_V2"])
    BY <1>3, <1>6 DEF CallInv, HookedInv
  <2>2. PICK m : /\ OnceHooked(e, m, Pedal1, slots["GONK"])
                 /\ OnceHooked(m, evil.elf, Pedal2, slots["GONK_V2"])
    BY <2>1
  <2>3. Holds(e, Pedal1)
    BY <2>2 DEF OnceHooked
  <2>4. /\ Rerouted(e, evil.elf, Pedal1, slots["GONK"])
        /\ Rerouted(e, evil.elf, Pedal2, slots["GONK_V2"])
    BY <1>2, <2>2, BothRerouted
  <2>5. ASSUME NEW n \in DOMAIN Targets
        PROVE  ~ Holds(evil.elf, Targets[n].v1)
    <3>1. LeavesRoom(e, Targets[n].v1)
      BY <1>1 DEF StockFits
    <3>2. ~ Holds(m, Targets[n].v1)
      BY <1>2, <1>5, <2>2, <2>3, <3>1, HookedHoldsNothing
    <3> QED
      BY <2>2, <3>1, <3>2, TwiceHookedHoldsNothing
  <2> QED
    BY <1>2, <1>4, <1>6, <2>1, <2>4, <2>5 DEF PedalsRerouted, SpentFile
<1>7. CASE ~ request.v2
  <2>1. /\ DOMAIN slots = {"GONK"}
        /\ OnceHooked(e, evil.elf, Pedal1, slots["GONK"])
    BY <1>3, <1>7 DEF CallInv, HookedInv
  <2>2. Holds(e, Pedal1)
    BY <2>1 DEF OnceHooked
  <2>3. Rerouted(e, evil.elf, Pedal1, slots["GONK"])
    BY <1>2, <2>1, OnceRerouted
  <2>4. Unhooked(e, evil.elf, Pedal2)
    BY <1>2, <1>5, <2>1, <2>2, OthersUnhooked
  <2>5. ASSUME NEW n \in DOMAIN Targets
        PROVE  ~ Holds(evil.elf, Targets[n].v1)
    <3>1. LeavesRoom(e, Targets[n].v1)
      BY <1>1 DEF StockFits
    <3> QED
      BY <1>2, <1>5, <2>1, <2>2, <3>1, HookedHoldsNothing
  <2> QED
    BY <1>2, <1>4, <1>7, <2>1, <2>3, <2>4, <2>5 DEF PedalsRerouted, SpentFile
<1> QED
  BY <1>6, <1>7

-----------------------------------------------------------------------------
(* The tool on its own output, and the device                               *)

\* A second run of the tool comes no further than its first hijack: the binary
\* it has read, if it could be read, is the one the first run has built.
SecondRun ==
    /\ installed = Nothing
    /\ stage \in {"read", "unpack", "dump", "hijack_v1", "refused"}
    /\ stage \in {"unpack", "dump", "hijack_v1"} => target \in DOMAIN Targets
    /\ StockReadable
    /\ Exists(StockFs, "Evil", "Evil") => SpentFile(StockEvil)
    /\ stage \in {"read", "unpack"} => fs = Nothing
    /\ stage = "dump" => DumpsStock
    /\ fs # Nothing => FsInOrder
    /\ IF stage = "hijack_v1" THEN SpentFile(evil) /\ evil \in {Garbage, StockEvil}
       ELSE evil = Nothing

RoundInv ==
    /\ round \in Nat \ {0}
    /\ round = 1 => CallInv
    /\ round > 1 => SecondRun

Script == Dump(installed, "Scripts", "evil")

\* What runs on the device is what was installed on it.
DeviceInv ==
    /\ installed # Nothing =>
          /\ round = 1 /\ stage = "shipped" /\ installed = ShippedFs
          /\ requested = {p[1] : p \in RequestedPedals}
    /\ exe # Off =>
          /\ installed # Nothing
          /\ Exists(installed, "Scripts", "evil")
          /\ Script.kind = "script" /\ line \in Starts(Script.lines)
    /\ exe # "Evil" => writes = {}
    /\ exe = "Evil" =>
          /\ program = Dump(installed, "Evil", "Evil").elf
          /\ environ = line.env
          /\ writes = IF atMain THEN Constructor("Evil", environ) ELSE {}

DInv == RoundInv /\ DeviceInv

LEMMA ShippedStops ==
  ASSUME stage = "shipped" PROVE ~ Next
BY Zenon DEF Next, ReadStock, UnpackRootfs, DumpFiles, HijackV1, HijackV2, Relabel, BuildScript,
   Inject, CheckFilesystem, CloseImage, Repack, VerifyRoundTrip, Refuse, Working

LEMMA DeviceStarts == DeviceInit => DInv
<1> SUFFICES ASSUME DeviceInit PROVE DInv
  OBVIOUS
<1>1. CallInv
  BY CallInit DEF DeviceInit
<1>2. RoundInv
  BY <1>1 DEF DeviceInit, RoundInv
<1>3. DeviceInv
  BY DEF DeviceInit, DeviceInv, Off
<1> QED
  BY <1>2, <1>3 DEF DInv

\* The stock file system as it is unpacked, its end perhaps lost.
LEMMA UnpackedAgain ==
  ASSUME StockReadable, UnpackRootfs, StockFs' = StockFs
  PROVE  DumpsStock' /\ FsInOrder'
<1>1. IsFs(StockFs) /\ DOMAIN StockFs.data = Inodes
  BY DEF StockReadable, IsFs
<1>2. CASE fs' = StockFs
  BY <1>1, <1>2 DEF DumpsStock, FsInOrder
<1>3. CASE \E i \in InUse(StockFs) : fs' = [StockFs EXCEPT !.data[i] = Garbage]
  <2>1. PICK i \in Inodes : fs' = [StockFs EXCEPT !.data[i] = Garbage]
    BY <1>3 DEF InUse
  <2>2. PICK data : data = [StockFs.data EXCEPT ![i] = Garbage]
    OBVIOUS
  <2>3. fs' = [StockFs EXCEPT !.data = data]
    BY <2>1, <2>2
  <2>4. DOMAIN data = Inodes /\ \A j \in Inodes : data[j] \in {Garbage, StockFs.data[j]}
    BY <1>1, <2>2
  <2>5. fs'.data = data /\ fs'.entry = StockFs.entry
    <3>1. \A r : r = [StockFs EXCEPT !.data = data]
                 => IsFs(r) /\ r.data = data /\ r.entry = StockFs.entry
      BY <1>1, <2>4, NewData
    <3> QED
      BY <2>3, <3>1
  <2>6. FsSound(StockFs) => IsFs(fs') /\ FsSound(fs') /\ Leaked(fs') = Leaked(StockFs)
    <3>1. \A r : FsSound(StockFs) /\ r = [StockFs EXCEPT !.data = data]
                 => IsFs(r) /\ FsSound(r) /\ Leaked(r) = Leaked(StockFs)
      BY <1>1, <2>4, ContentsOnly
    <3> QED
      BY <2>3, <3>1
  <2> QED
    BY <2>4, <2>5, <2>6 DEF DumpsStock, FsInOrder
<1> QED
  BY <1>2, <1>3 DEF UnpackRootfs, StockFs

LEMMA SpentRefuses ==
  ASSUME SpentFile(evil), target \in DOMAIN Targets PROVE ~ HijackV1
<1> SUFFICES ASSUME Hijack(Targets[target].v1, "GONK") PROVE FALSE
  BY Zenon DEF HijackV1
<1>1. /\ evil.kind = "elf"
      /\ \E c, d, n \in Segments : Hijackable(evil.elf, Pedal1.vtable, Pedal1.orig, c, d, n)
  BY DEF Hijack, Pedal1
<1>2. Holds(evil.elf, Pedal1)
  BY <1>1 DEF Hijackable, Holds
<1> QED
  BY <1>1, <1>2 DEF SpentFile, Pedal1

\* The second run, step by step.
LEMMA SecondRunKept ==
  ASSUME SecondRun, Next, installed' = installed PROVE SecondRun'
<1> USE DEF SecondRun
<1>1. ASSUME offer' = offer
      PROVE  /\ StockFs' = StockFs /\ StockEvil' = StockEvil /\ StockReadable' = StockReadable
             /\ fs' = fs => FsInOrder' = FsInOrder
  BY <1>1 DEF StockFs, StockEvil, StockReadable, FsInOrder
<1>2. CASE ReadStock
  <2>1. /\ stage = "read" /\ stage' = "unpack" /\ target' \in DOMAIN Targets
        /\ UNCHANGED <<offer, fs, evil>>
    BY <1>2 DEF ReadStock, Selects
  <2> QED
    BY <1>1, <2>1
<1>3. CASE UnpackRootfs
  <2>1. stage = "unpack" /\ stage' = "dump" /\ UNCHANGED <<offer, target, evil>>
    BY <1>3 DEF UnpackRootfs
  <2>2. DumpsStock' /\ FsInOrder'
    BY <1>1, <1>3, <2>1, UnpackedAgain
  <2> QED
    BY <1>1, <2>1, <2>2
<1>4. CASE DumpFiles
  <2>1. /\ stage = "dump" /\ stage' = "hijack_v1" /\ UNCHANGED <<offer, target, fs>>
        /\ Exists(fs, "Evil", "Evil") /\ evil' = Dump(fs, "Evil", "Evil")
    BY <1>4 DEF DumpFiles
  <2>2. evil' \in {Garbage, StockEvil} /\ Exists(StockFs, "Evil", "Evil")
    <3>1. "Evil" \in Dirs /\ "Evil" \in Names
      BY PipelineAssumption
    <3>2. StockReadable /\ DumpsStock
      BY <2>1
    <3> QED
      BY <2>1, <3>1, <3>2, DumpedFile DEF StockEvil, DumpsStock, Exists
  <2>3. SpentFile(Garbage)
    BY DEF SpentFile, Garbage
  <2> QED
    BY <1>1, <2>1, <2>2, <2>3
<1>5. CASE HijackV1
  <2>1. stage = "hijack_v1"
    BY <1>5 DEF HijackV1
  <2> QED
    BY <1>5, <2>1, SpentRefuses
<1>6. CASE Refuse
  <2>1. stage' = "refused" /\ evil' = Nothing /\ UNCHANGED <<offer, fs>>
    BY <1>6 DEF Refuse
  <2> QED
    BY <1>1, <2>1
<1> QED
  BY <1>2, <1>3, <1>4, <1>5, <1>6 DEF Next, HijackV2, Relabel, BuildScript,
     Inject, CheckFilesystem, CloseImage, Repack, VerifyRoundTrip

LEMMA SameCall ==
  ASSUME UNCHANGED vars
  PROVE  /\ CallInv => CallInv'
         /\ SecondRun /\ installed' = installed => SecondRun'
         /\ ShippedFs' = ShippedFs /\ RequestedPedals' = RequestedPedals
<1>1. CallInv => CallInv'
  BY CallStep
<1>2. SecondRun /\ installed' = installed => SecondRun'
  <2>1. /\ StockFs' = StockFs /\ StockEvil' = StockEvil /\ StockReadable' = StockReadable
        /\ DumpsStock' = DumpsStock /\ FsInOrder' = FsInOrder
    BY DEF vars, StockFs, StockEvil, StockReadable, DumpsStock, FsInOrder
  <2> QED
    BY <2>1 DEF SecondRun, vars
<1>3. ShippedFs' = ShippedFs /\ RequestedPedals' = RequestedPedals
  BY DEF vars, ShippedFs, RequestedPedals
<1> QED
  BY <1>1, <1>2, <1>3

\* An image handed back to the tool holds nothing left to hijack.
LEMMA HandedBack ==
  ASSUME RoundInv, PatchAgain PROVE RoundInv'
<1>1. /\ round = 1 /\ CallInv /\ stage = "shipped" /\ round' = 2
      /\ stage' = "read" /\ offer' = out /\ installed' = Nothing
      /\ fs' = Nothing /\ evil' = Nothing
  BY DEF RoundInv, SecondRun, PatchAgain
<1>2. StockFs' = fs /\ Dump(fs, "Evil", "Evil") = evil
  BY <1>1, ShippedIsFs DEF CallInv, StockFs, ShippedFs
<1>3. IsFs(fs) /\ SpentFile(evil)
  BY <1>1, ShippedPedals DEF CallInv, FilesInv, Filling
<1>4. StockReadable' /\ StockEvil' = evil
  BY <1>1, <1>2 DEF StockReadable, StockEvil, CallInv, FilesInv
<1>5. SpentFile(StockEvil)'
  BY <1>3, <1>4 DEF SpentFile
<1>6. SecondRun'
  BY <1>1, <1>4, <1>5 DEF SecondRun
<1> QED
  BY <1>1, <1>6 DEF RoundInv

LEMMA RoundStep ==
  ASSUME DInv, [DeviceNext]_allVars PROVE RoundInv'
<1> USE DEF DInv
<1>1. CASE Pipeline
  <2>1. Next /\ round' = round /\ installed' = installed
    BY <1>1 DEF Pipeline, deviceVars
  <2>2. CASE round = 1
    BY <2>1, <2>2, CallStep DEF RoundInv
  <2>3. CASE round > 1
    BY <2>1, <2>3, SecondRunKept DEF RoundInv
  <2> QED
    BY <2>2, <2>3 DEF RoundInv
<1>2. CASE PatchAgain
  BY <1>2, HandedBack
<1>3. ASSUME UNCHANGED <<vars, round>>, round = 1 \/ installed' = installed PROVE RoundInv'
  BY <1>3, SameCall DEF RoundInv
<1>4. CASE InstallUpdate
  <2>1. round = 1
    BY <1>4 DEF InstallUpdate, RoundInv, SecondRun
  <2> QED
    BY <1>3, <1>4, <2>1 DEF InstallUpdate
<1>5. CASE RunLauncher \/ ExecEvil \/ StartMain \/ SpawnHelper \/ EvilExits
  BY <1>3, <1>5 DEF RunLauncher, ExecEvil, StartMain, SpawnHelper, EvilExits
<1>6. CASE UNCHANGED allVars
  BY <1>3, <1>6 DEF allVars, deviceVars
<1> QED
  BY <1>1, <1>2, <1>4, <1>5, <1>6 DEF DeviceNext

LEMMA SameConstructor ==
  ASSUME installed' = installed, environ' = environ
  PROVE  Constructor("Evil", environ)' = Constructor("Evil", environ)
BY DEF Constructor, Preloaded, OpensHookLibrary, RunningInsideEvil, HookWrites

\* A child process has no constructor that writes.
LEMMA HelperIsQuiet ==
  ASSUME NEW env PROVE Constructor("helper", env) = {}
BY DEF Constructor, RunningInsideEvil

LEMMA DeviceStep ==
  ASSUME DInv, [DeviceNext]_allVars PROVE DeviceInv'
<1> USE DEF DInv
<1>1. CASE Pipeline \/ PatchAgain
  <2>1. installed = Nothing /\ installed' = Nothing
    BY <1>1, ShippedStops DEF Pipeline, PatchAgain, deviceVars, DeviceInv
  <2>2. exe = Off /\ exe' = Off /\ writes' = writes
    BY <1>1, <2>1 DEF Pipeline, PatchAgain, deviceVars, DeviceInv
  <2> QED
    BY <2>1, <2>2 DEF DeviceInv, Off
<1>2. CASE InstallUpdate
  <2>1. round = 1
    BY <1>2 DEF InstallUpdate, RoundInv, SecondRun
  <2>2. exe = Off /\ writes = {}
    BY <1>2 DEF InstallUpdate, DeviceInv, Off
  <2>3. /\ stage = "shipped" /\ installed' = ShippedFs
        /\ requested' = {p[1] : p \in RequestedPedals}
        /\ UNCHANGED <<vars, round, exe, writes>>
    BY <1>2 DEF InstallUpdate
  <2>4. ShippedFs' = ShippedFs /\ RequestedPedals' = RequestedPedals /\ stage' = stage
    BY <2>3, SameCall DEF vars
  <2> QED
    BY <2>1, <2>2, <2>3, <2>4 DEF DeviceInv, Off
<1>3. ASSUME UNCHANGED <<vars, round, requested, installed>>
      PROVE  /\ installed' # Nothing =>
                  /\ round' = 1 /\ stage' = "shipped" /\ installed' = ShippedFs'
                  /\ requested' = {p[1] : p \in RequestedPedals'}
             /\ Script' = Script
  <2>1. ShippedFs' = ShippedFs /\ RequestedPedals' = RequestedPedals /\ stage' = stage
    BY <1>3, SameCall DEF vars
  <2> QED
    BY <1>3, <2>1 DEF DeviceInv, Script
<1>4. CASE RunLauncher
  <2>1. /\ installed # Nothing /\ installed' = installed
        /\ exe = Off /\ exe' = "systemd-inhibit"
        /\ Exists(installed, "Scripts", "evil")
        /\ Script.kind = "script" /\ line' \in Starts(Script.lines)
        /\ writes' = writes
    BY <1>4 DEF RunLauncher, Script
  <2>2. writes' = {} /\ exe' # "Evil"
    BY <2>1 DEF DeviceInv, Off
  <2> QED
    BY <1>3, <1>4, <2>1, <2>2 DEF RunLauncher, DeviceInv
<1>5. CASE ExecEvil
  <2>1. /\ exe # Off /\ exe' = "Evil" /\ installed' = installed /\ line' = line
        /\ program' = Dump(installed, "Evil", "Evil").elf
        /\ environ' = line.env /\ ~ atMain' /\ writes' = {}
    BY <1>5 DEF ExecEvil, Off
  <2> QED
    BY <1>3, <1>5, <2>1 DEF ExecEvil, DeviceInv
<1>6. CASE StartMain
  <2>1. /\ exe = "Evil" /\ exe' = "Evil" /\ exe # Off /\ ~ atMain /\ atMain'
        /\ writes' = writes \cup Constructor("Evil", environ)
        /\ UNCHANGED <<installed, line, environ, program>>
    BY <1>6 DEF StartMain, Off
  <2>2. writes' = Constructor("Evil", environ)'
    BY <2>1, SameConstructor DEF DeviceInv
  <2> QED
    BY <1>3, <1>6, <2>1, <2>2 DEF StartMain, DeviceInv
<1>7. CASE SpawnHelper
  <2>1. /\ exe = "Evil" /\ exe' = "Evil" /\ exe # Off /\ atMain /\ atMain'
        /\ writes' = writes
        /\ UNCHANGED <<installed, line, environ, program>>
    BY <1>7, HelperIsQuiet DEF SpawnHelper, Off
  <2>2. writes' = Constructor("Evil", environ)'
    BY <2>1, SameConstructor DEF DeviceInv
  <2> QED
    BY <1>3, <1>7, <2>1, <2>2 DEF SpawnHelper, DeviceInv
<1>8. CASE EvilExits
  <2>1. exe' = Off /\ exe' # "Evil" /\ writes' = {}
    BY <1>8 DEF EvilExits, Off
  <2> QED
    BY <1>3, <1>8, <2>1 DEF EvilExits, DeviceInv
<1>9. CASE UNCHANGED allVars
  <2>1. Constructor("Evil", environ)' = Constructor("Evil", environ)
    BY <1>9, SameConstructor DEF allVars, deviceVars
  <2> QED
    BY <1>3, <1>9, <2>1 DEF allVars, deviceVars, DeviceInv
<1> QED
  BY <1>1, <1>2, <1>4, <1>5, <1>6, <1>7, <1>8, <1>9 DEF DeviceNext

LEMMA DeviceInvariant == DeviceSpec => []DInv
<1>1. DInv /\ [DeviceNext]_allVars => DInv'
  BY RoundStep, DeviceStep DEF DInv
<1> QED
  BY <1>1, DeviceStarts, PTL DEF DeviceSpec

-----------------------------------------------------------------------------
(* The call                                                                 *)

\* While Evil runs it is the binary the one call has shipped.
LEMMA Running ==
  ASSUME DInv, exe = "Evil"
  PROVE  /\ CallInv /\ stage = "shipped" /\ stage \in Filling
         /\ installed = fs /\ program = evil.elf
         /\ PedalsRerouted
         /\ requested = {p[1] : p \in RequestedPedals}
         /\ Exists(installed, "Scripts", "evil")
         /\ Script.kind = "script" /\ line \in Starts(Script.lines) /\ environ = line.env
<1>1. /\ installed # Nothing /\ Exists(installed, "Scripts", "evil")
      /\ Script.kind = "script" /\ line \in Starts(Script.lines) /\ environ = line.env
      /\ program = Dump(installed, "Evil", "Evil").elf
  BY DEF DInv, DeviceInv, Off
<1>2. /\ round = 1 /\ stage = "shipped" /\ installed = ShippedFs
      /\ requested = {p[1] : p \in RequestedPedals}
  BY <1>1 DEF DInv, DeviceInv
<1>3. CallInv /\ stage \in Filling
  BY <1>2 DEF DInv, RoundInv, Filling
<1>4. ShippedFs = fs /\ Dump(fs, "Evil", "Evil") = evil
  BY <1>2, <1>3, ShippedIsFs DEF CallInv
<1>5. PedalsRerouted
  BY <1>3, ShippedPedals
<1> QED
  BY <1>1, <1>2, <1>3, <1>4, <1>5

\* The launcher sets the two variables of the pedals at most.
LEMMA EnvironNames ==
  ASSUME DInv, exe = "Evil" PROVE DOMAIN environ \subseteq {"GONK", "GONK_V2"}
<1>1. /\ CallInv /\ stage = "shipped" /\ installed = fs
      /\ Exists(fs, "Scripts", "evil")
      /\ Script.kind = "script" /\ line \in Starts(Script.lines) /\ environ = line.env
  BY Running
<1>2. IsFs(fs) /\ \A i \in Inodes : IsFile(fs.data[i])
  BY <1>1 DEF CallInv, FilesInv
<1>3. Lookup(fs, "Scripts", "evil") \in Inodes
  <2>1. "Scripts" \in Dirs /\ "evil" \in Names
    BY PipelineAssumption
  <2>2. PICK seq : seq = fs.entry["Scripts"]["evil"]
    OBVIOUS
  <2>3. seq \in Seq(Inodes) /\ seq # <<>>
    <3>1. fs.entry \in [Dirs -> [Names -> Seq(Inodes)]]
      BY <1>2 DEF IsFs
    <3> QED
      BY <1>1, <2>1, <2>2, <3>1 DEF Exists
  <2> QED
    BY <2>2, <2>3, HeadTailProperties DEF Lookup
<1>4. IsFile(Script)
  BY <1>1, <1>2, <1>3 DEF Script, Dump
<1>5. IsScript(Script.lines)
  BY <1>1, <1>4 DEF IsFile
<1>6. \E i \in DOMAIN Script.lines : line = Script.lines[i]
  BY <1>1 DEF Starts, Positions
<1> QED
  BY <1>1, <1>5, <1>6 DEF IsScript

\* So nothing is written but the pedals' hook.
LEMMA WritesOfEvil ==
  ASSUME DInv, exe = "Evil", NEW w \in writes
  PROVE  /\ w.exe = "Evil" /\ w.value = "nam_process_gonk"
         /\ \E v \in DOMAIN environ : v \in {"GONK", "GONK_V2"} /\ w.at = environ[v]
<1>1. w \in HookWrites("Evil", environ)
  BY DEF DInv, DeviceInv, Constructor
<1>2. PICK v \in Range(HookVariables) :
        /\ v[1] \in DOMAIN environ
        /\ w = [exe |-> "Evil", at |-> environ[v[1]], value |-> v[2]]
  BY <1>1 DEF HookWrites
<1>3. v[1] \in {"GONK", "GONK_V2"}
  BY <1>2, EnvironNames
<1>4. PICK k \in 1..6 : v = HookVariables[k]
  BY <1>2 DEF HookVariables, Range
<1>5. v[2] = "nam_process_gonk"
  <2>1. k = 1 \/ k = 2 \/ k = 3 \/ k = 4 \/ k = 5 \/ k = 6
    BY <1>4
  <2> QED
    BY <1>3, <1>4, <2>1 DEF HookVariables
<1> QED
  BY <1>2, <1>3, <1>5

LEMMA PointersAreHooks ==
  ASSUME DInv, exe = "Evil", NEW at
  PROVE  Pointer(at) \in {{}, {"nam_process_gonk"}}
<1>1. \A w \in writes : w.value = "nam_process_gonk"
  BY WritesOfEvil
<1> QED
  BY <1>1 DEF Pointer

\* A rerouted pedal ends in the hook if its slot was written, and else where
\* it always did.
LEMMA ReroutedCall ==
  ASSUME NEW pedal, NEW slot, Rerouted(StockEvil.elf, program, pedal, slot)
  PROVE  Called(pedal) = IF Pointer(slot) # {} THEN Pointer(slot) ELSE {"original"}
<1> DEFINE at == SlotFileOffset(pedal.vtable)
           entry == program.word[at]
           stock == Dump(StockFs, "Evil", "Evil").elf.word[at]
           End(t) == IF Pointer(t.slot) # {} THEN Pointer(t.slot)
                     ELSE {IF t.orig = stock THEN "original" ELSE "wrong"}
<1>1. PICK t \in program.tramp :
        /\ entry = t.vaddr /\ t.vaddr # stock /\ t.orig = stock /\ t.slot = slot
        /\ \A u \in program.tramp : u.vaddr = t.vaddr => u = t
  BY DEF Rerouted, WordAt, StockEvil
<1>2. {u \in program.tramp : u.vaddr = entry} = {t}
  BY <1>1
<1>3. Called(pedal) = UNION {End(v) : v \in {u \in program.tramp : u.vaddr = entry}}
  BY <1>1 DEF Called
<1>4. Called(pedal) = End(t)
  BY <1>2, <1>3
<1> QED
  BY <1>1, <1>4

LEMMA UnhookedCall ==
  ASSUME NEW pedal, Unhooked(StockEvil.elf, program, pedal)
  PROVE  Called(pedal) = {"original"}
BY DEF Called, Unhooked, WordAt, StockEvil

LEMMA EveryCallAnswered ==
  ASSUME DInv PROVE CallsAnswered
<1> SUFFICES ASSUME exe = "Evil", NEW p \in Pedals
             PROVE  Called(p) \in {{"original"}, {"nam_process_gonk"}}
  BY DEF CallsAnswered
<1>1. PedalsRerouted /\ program = evil.elf
  BY Running
<1>2. ASSUME NEW slot, Rerouted(StockEvil.elf, program, p, slot)
      PROVE  Called(p) \in {{"original"}, {"nam_process_gonk"}}
  BY <1>2, ReroutedCall, PointersAreHooks
<1>3. CASE p = Pedal1
  BY <1>1, <1>2, <1>3 DEF PedalsRerouted
<1>4. CASE p = Pedal2
  BY <1>1, <1>2, <1>4, UnhookedCall DEF PedalsRerouted
<1> QED
  BY <1>3, <1>4 DEF Pedals, Pedal1, Pedal2

\* On the device of a healthy stock image a line of the launcher that starts
\* Evil with hook slots starts it with those of the trampolines.
LEMMA EnvironIsSlots ==
  ASSUME DInv, exe = "Evil", StockHealthy
  PROVE  environ = slots \/ environ = <<>>
<1>1. /\ CallInv /\ stage = "shipped" /\ installed = fs
      /\ Exists(fs, "Scripts", "evil")
      /\ Script.kind = "script" /\ line \in Starts(Script.lines) /\ environ = line.env
  BY Running
<1>2. /\ launcher.kind = "script"
      /\ Starts(launcher.lines) = {[kind |-> "launch", env |-> slots]}
      /\ \A l \in Starts(StockLauncher.lines) : l.env = <<>>
  BY <1>1 DEF CallInv, LauncherInv, Filling
<1>3. OldOrNew /\ NewInPlace /\ Len(injected) = 4
  BY <1>1 DEF CallInv, InPlaceInv, FilesInv, StockHealthy
<1>4. "Scripts" \in Dirs /\ "evil" \in Names
  BY PipelineAssumption
<1>5. PICK j : j = Lookup(fs, "Scripts", "evil")
  OBVIOUS
<1>6. Script = fs.data[j]
  BY <1>1, <1>5 DEF Script, Dump
<1>7. Lists(fs.entry["Scripts"]["evil"], j)
  <2>1. PICK seq : seq = fs.entry["Scripts"]["evil"]
    OBVIOUS
  <2>2. seq \in Seq(Inodes) /\ seq # <<>>
    <3>1. fs.entry \in [Dirs -> [Names -> Seq(Inodes)]]
      BY <1>1 DEF CallInv, FilesInv, IsFs
    <3> QED
      BY <1>1, <1>4, <2>1, <3>1 DEF Exists
  <2>3. 1 \in DOMAIN seq /\ Head(seq) = seq[1]
    BY <2>2, HeadTailProperties, EmptySeq, LenProperties
  <2> QED
    BY <1>5, <2>1, <2>3 DEF Lists, Lookup
<1>8. IsNew("Scripts", "evil", j) \/ IsOld("Scripts", "evil", j)
  BY <1>3, <1>4, <1>7 DEF OldOrNew
<1>9. Garbage.kind # "script"
  BY DEF Garbage
<1>10. CASE IsNew("Scripts", "evil", j)
  <2>1. PICK k \in 1..4 : Place(k) = <<"Scripts", "evil">> /\ j = injected[k]
    BY <1>3, <1>10 DEF IsNew
  <2>2. k = 4 /\ Content(k) = launcher
    <3>1. k = 1 \/ k = 2 \/ k = 3 \/ k = 4
      BY <2>1
    <3> QED
      BY <2>1, <3>1 DEF Place, Content
  <2>3. fs.data[j] = launcher \/ fs.data[j] = Garbage
    BY <1>3, <2>1, <2>2 DEF NewInPlace
  <2> QED
    BY <1>1, <1>2, <1>6, <1>9, <2>3
<1>11. CASE IsOld("Scripts", "evil", j)
  <2>1. PICK old : old = StockFs.entry["Scripts"]["evil"]
    OBVIOUS
  <2>2. old \in Seq(Inodes) /\ Len(old) <= 1 /\ Lists(old, j)
    <3>1. StockFs.entry \in [Dirs -> [Names -> Seq(Inodes)]]
      BY <1>1 DEF CallInv, PipelineInv, StockReadable, IsFs
    <3> QED
      BY <1>4, <1>11, <2>1, <3>1 DEF StockHealthy, NamesOnce, IsOld
  <2>3. PICK k \in DOMAIN old : old[k] = j
    BY <2>2 DEF Lists
  <2>4. k = 1 /\ old # <<>> /\ Head(old) = old[1]
    BY <2>2, <2>3, HeadTailProperties, EmptySeq, LenProperties
  <2>5. StockLauncher = StockFs.data[j]
    BY <2>1, <2>3, <2>4 DEF StockLauncher, Dump, Lookup
  <2>6. Script = StockLauncher
    BY <1>1, <1>6, <1>9, <1>11, <2>5 DEF IsOld
  <2> QED
    BY <1>1, <1>2, <2>6
<1> QED
  BY <1>8, <1>10, <1>11

LEMMA SlotsAreRead ==
  ASSUME PedalsRerouted, NEW v \in DOMAIN slots
  PROVE  \E t \in evil.elf.tramp : t.slot = slots[v]
BY DEF PedalsRerouted, Rerouted

LEMMA EveryWriteInSlot ==
  ASSUME DInv PROVE WritesInHookSlots
<1> SUFFICES ASSUME NEW w \in writes
             PROVE  /\ w.exe = "Evil"
                    /\ StockHealthy => \E t \in program.tramp : t.slot = w.at
  BY DEF WritesInHookSlots
<1>1. exe = "Evil"
  BY DEF DInv, DeviceInv
<1>2. w.exe = "Evil" /\ \E v \in DOMAIN environ : w.at = environ[v]
  BY <1>1, WritesOfEvil
<1>3. ASSUME StockHealthy PROVE \E t \in program.tramp : t.slot = w.at
  <2>1. environ = slots
    BY <1>1, <1>2, <1>3, EnvironIsSlots
  <2>2. PedalsRerouted /\ program = evil.elf
    BY <1>1, Running
  <2> QED
    BY <1>2, <2>1, <2>2, SlotsAreRead
<1> QED
  BY <1>2, <1>3

\* Without mishap the four files are there.
LEMMA FilesAreThere ==
  ASSUME CallInv, stage = "shipped", StockHealthy, mishaps = {}
  PROVE  /\ Dump(fs, "Evil", "libnam_hook.so") = HookLibrary
         /\ Exists(fs, "Evil", "libnam_hook.so")
         /\ Dump(fs, "Evil", "libnam_preload.so") = PreloadLibrary
         /\ Exists(fs, "Evil", "libnam_preload.so")
         /\ Dump(fs, "Scripts", "evil") = launcher
<1>1. NewInPlace /\ Len(injected) = 4
  BY DEF CallInv, InPlaceInv, FilesInv, StockHealthy
<1>2. \A k \in 1..4 : Dump(fs, Place(k)[1], Place(k)[2]) = Content(k)
  BY ShippedFiles
<1>3. \A k \in 1..4 : Exists(fs, Place(k)[1], Place(k)[2])
  <2> SUFFICES ASSUME NEW k \in 1..4 PROVE Exists(fs, Place(k)[1], Place(k)[2])
    OBVIOUS
  <2>1. PICK seq : seq = fs.entry[Place(k)[1]][Place(k)[2]]
    OBVIOUS
  <2>2. Lists(seq, injected[k])
    BY <1>1, <2>1 DEF NewInPlace
  <2>3. seq # <<>>
    BY <2>2 DEF Lists
  <2> QED
    BY <2>1, <2>3 DEF Exists
<1>4. /\ Place(2) = <<"Evil", "libnam_hook.so">> /\ Content(2) = HookLibrary
      /\ Place(3) = <<"Evil", "libnam_preload.so">> /\ Content(3) = PreloadLibrary
      /\ Place(4) = <<"Scripts", "evil">> /\ Content(4) = launcher
  BY DEF Place, Content
<1> QED
  BY <1>2, <1>3, <1>4

LEMMA EveryHookReached ==
  ASSUME DInv PROVE HooksReached
<1> SUFFICES ASSUME exe = "Evil", atMain, mishaps = {}, StockHealthy, NEW p \in Pedals
             PROVE  p \in requested <=> Called(p) = {"nam_process_gonk"}
  BY DEF HooksReached
<1>1. /\ CallInv /\ stage = "shipped" /\ installed = fs /\ program = evil.elf
      /\ PedalsRerouted /\ requested = {q[1] : q \in RequestedPedals}
      /\ Script.kind = "script" /\ line \in Starts(Script.lines) /\ environ = line.env
  BY Running
<1>2. Preloaded /\ OpensHookLibrary /\ Script = launcher
  BY <1>1, FilesAreThere DEF Preloaded, OpensHookLibrary, Script
<1>3. environ = slots
  <2>1. Starts(launcher.lines) = {[kind |-> "launch", env |-> slots]}
    BY <1>1 DEF CallInv, LauncherInv, Filling
  <2> QED
    BY <1>1, <1>2, <2>1
<1>4. "GONK" \in DOMAIN slots /\ (request.v2 => "GONK_V2" \in DOMAIN slots)
  BY <1>1 DEF PedalsRerouted
<1>5. writes = HookWrites("Evil", slots)
  BY <1>2, <1>3, <1>4 DEF DInv, DeviceInv, Constructor, RunningInsideEvil
<1>6. ASSUME NEW v \in {"GONK", "GONK_V2"}, v \in DOMAIN slots
      PROVE  Pointer(slots[v]) = {"nam_process_gonk"}
  <2>1. <<v, "nam_process_gonk">> \in Range(HookVariables)
    BY DEF Range, HookVariables
  <2>2. [exe |-> "Evil", at |-> slots[v], value |-> "nam_process_gonk"] \in writes
    BY <1>5, <1>6, <2>1 DEF HookWrites
  <2>3. "nam_process_gonk" \in Pointer(slots[v])
    BY <2>2 DEF Pointer
  <2> QED
    BY <2>3, PointersAreHooks
<1>7. Pedal1 # Pedal2
  BY <1>1 DEF PedalsRerouted
<1>8. Pedal1 \in requested /\ (Pedal2 \in requested <=> request.v2)
  <2>1. CASE request.v2
    <3>1. RequestedPedals = {<<Pedal1, "GONK">>, <<Pedal2, "GONK_V2">>}
      BY <2>1 DEF RequestedPedals, Pedal1, Pedal2
    <3> QED
      BY <1>1, <2>1, <3>1
  <2>2. CASE ~ request.v2
    <3>1. RequestedPedals = {<<Pedal1, "GONK">>}
      BY <2>2 DEF RequestedPedals, Pedal1
    <3> QED
      BY <1>1, <1>7, <2>2, <3>1
  <2> QED
    BY <2>1, <2>2
<1>9. Called(Pedal1) = {"nam_process_gonk"}
  BY <1>1, <1>4, <1>6, ReroutedCall DEF PedalsRerouted
<1>10. Called(Pedal2) = IF request.v2 THEN {"nam_process_gonk"} ELSE {"original"}
  BY <1>1, <1>4, <1>6, ReroutedCall, UnhookedCall DEF PedalsRerouted
<1> QED
  BY <1>8, <1>9, <1>10 DEF Pedals, Pedal1, Pedal2

-----------------------------------------------------------------------------
(* Theorems                                                                 *)

\* An image the tool has made is never patched again: the binary it holds has
\* none of the table's functions in a vtable any more, so the first hijack of
\* the second run refuses (elf_patch.c:131).
THEOREM ImagePatchedOnce == DeviceSpec => []PatchedOnce
<1>1. DInv => PatchedOnce
  BY DEF DInv, RoundInv, SecondRun, PatchedOnce
<1> QED
  BY <1>1, DeviceInvariant, PTL

\* A call of either pedal ends in exactly one function, its own or the hook,
\* for every table of devices, stock image and mishap, and however far Evil
\* has started (trampoline_gonk.S, nam_preload.cpp:93-120).
THEOREM CallsAreAnswered == DeviceSpec => []CallsAnswered
BY DeviceInvariant, EveryCallAnswered, PTL

\* Without mishap, and from a healthy stock file system, the requested pedals
\* reach the hook and no other pedal does.
THEOREM HooksAreReached == DeviceSpec => []HooksReached
BY DeviceInvariant, EveryHookReached, PTL

\* Constructors write in no program but Evil, and there, on the device of a
\* healthy stock image, into hook slots only (nam_preload.cpp:53, 83).
THEOREM WritesStayInSlots == DeviceSpec => []WritesInHookSlots
BY DeviceInvariant, EveryWriteInSlot, PTL

\* What one call keeps it also keeps on the device's images: in the second
\* run, too, the binary stays loadable and the file system sound, and nothing
\* is shipped.
THEOREM CallsKeepTheirPromises ==
  DeviceSpec => [](/\ HijacksSound /\ FilesystemKept /\ BystandersUntouched
                   /\ ShippedHijack /\ StockPartsSurvive)
<1>1. ASSUME CallInv
      PROVE  /\ HijacksSound /\ FilesystemKept /\ BystandersUntouched
             /\ ShippedHijack /\ StockPartsSurvive
  BY <1>1, BystandersKept, HijackShipped, ShippedKeepsParts DEF CallInv, PipelineInv
<1>2. ASSUME SecondRun
      PROVE  /\ HijacksSound /\ FilesystemKept /\ BystandersUntouched
             /\ ShippedHijack /\ StockPartsSurvive
  <2>1. stage # "shipped"
    BY <1>2 DEF SecondRun
  <2>2. HijacksSound
    BY <1>2, NothingIsFile DEF SecondRun, HijacksSound, StockEvil, Garbage
  <2>3. FilesystemKept
    BY <1>2 DEF SecondRun, FilesystemKept, FsInOrder
  <2> QED
    BY <2>1, <2>2, <2>3 DEF BystandersUntouched, ShippedHijack, StockPartsSurvive
<1>3. DInv => /\ HijacksSound /\ FilesystemKept /\ BystandersUntouched
              /\ ShippedHijack /\ StockPartsSurvive
  BY <1>1, <1>2 DEF DInv, RoundInv
<1> QED
  BY <1>3, DeviceInvariant, PTL
===============================================================================
