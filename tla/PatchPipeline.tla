----------------------------- MODULE PatchPipeline -----------------------------
(***************************************************************************)
(* One call of nam_patch_pipeline (core/patch_pipeline.c): a stock update  *)
(* image goes in, a patched one comes out, or the call is refused.  One    *)
(* action per step of the function; what a step computes is in ElfPatch,   *)
(* LauncherScript, Ext4Image and FitImage.                                 *)
(*                                                                         *)
(* Every step checks its calls, and any of them can fail for want of       *)
(* memory or disk: Refuse.  What the code does NOT see is a mishap:        *)
(*   "tail"    the last buffer of rootfs.bin is lost in fclose             *)
(*   "lookup"  ext2fs_namei fails on a file that is there                  *)
(*   "flush"   injected blocks are lost when the image is closed           *)
(***************************************************************************)
EXTENDS ElfPatch, LauncherScript, Ext4Image, FitImage, FiniteSetsExt, TLC

CONSTANTS Stocks,      \* update images that may be offered
          Targets,     \* the device table: model -> [compatible, v1, v2, renames]
          NoModel,        \* "no model named"
          NullSlack,   \* bytes the first decompression buffer has beyond 4x
          Attempts,    \* decompression buffers tried
          MishapKinds, \* mishaps that may happen
          MaxMishaps   \* how many kinds of them in one run

VARIABLES stage,     \* the step the call is at
          offer,     \* the update image it was given
          request,   \* model name and whether V2 is hijacked, too
          target,    \* the model selected
          evil,      \* the copy of /usr/Evil/Evil being patched
          launcher,  \* the launcher script, read or built
          slots,     \* addresses of the hook slots, by variable name
          fs,        \* rootfs.bin in the working directory
          injected,  \* the inodes of the files injected so far
          built,     \* the image built
          out,       \* the image handed to the caller
          mishaps    \* failures so far that the call did not notice

vars == <<stage, offer, request, target, evil, launcher, slots, fs, injected,
          built, out, mishaps>>

Nothing   == [kind |-> "nothing"]
ElfFile(e)    == [kind |-> "elf", elf |-> e]
ScriptFile(s) == [kind |-> "script", lines |-> s]
Blob(name)    == [kind |-> "blob", name |-> name]

HookLibrary    == Blob("libnam_hook.so")
PreloadLibrary == Blob("libnam_preload.so")

\* The order of the steps.  "hijack_v2" is passed over for one pedal only.
Working == {"read", "unpack", "dump", "hijack_v1", "hijack_v2", "relabel",
            "script", "inject", "check", "close", "repack", "verify"}

Final == {"shipped", "refused"}

OldImage(tokens) == ImageData(Props(tokens), "rootfs")

\* What can be read out of a stock image is a file system with files in it.
IsFile(x) == /\ "kind" \in DOMAIN x
             /\ x.kind = "elf" => IsElf(x.elf)
             /\ x.kind = "script" => IsScript(x.lines)

IsText(v) == v \in Seq(Range(v))

ASSUME PipelineAssumption ==
    /\ {"Evil", "Scripts"} \subseteq Dirs
    /\ {"Evil", "libnam_hook.so", "libnam_preload.so", "evil"} \subseteq Names
    /\ \A m \in DOMAIN Targets :
          /\ Targets[m].v1.orig \in Nat /\ Targets[m].v2.orig \in Nat
          /\ SlotFileOffset(Targets[m].v1.vtable) # SlotFileOffset(Targets[m].v2.vtable)
    /\ \A s \in Stocks : Parses(s) /\ HasImages(Props(s)) =>
          LET z == OldImage(s)
          IN  z.kind = "xz" => IsFs(z.of) /\ \A i \in Inodes : IsFile(z.of.data[i])
    /\ \A s \in Stocks : Parses(s) /\ HasRootMetadata(Props(s)) =>
          \A name \in {"description", "compatible", "inmusic,devices"} :
             IsText(GetBytes(Props(s), RootPath, name))

-----------------------------------------------------------------------------
(* The codec: nam_xz_decompress, nam_xz_compress                            *)

Decompresses(z) ==
    /\ z.kind = "xz"
    /\ \E attempt \in 0..(Attempts - 1) : z.full <= (4 * z.packed + NullSlack) * 2 ^ attempt

Compressed(x) == [kind |-> "xz", of |-> x, packed |-> 1, full |-> Cardinality(Blocks)]

-----------------------------------------------------------------------------
Init ==
    /\ stage = "read"
    /\ offer \in Stocks
    /\ request \in [model : DOMAIN Targets \cup {NoModel}, v2 : BOOLEAN]
    /\ target = NoModel
    /\ evil = Nothing /\ launcher = Nothing
    /\ slots = <<>>
    /\ fs = Nothing
    /\ injected = <<>>
    /\ built = <<>> /\ out = <<>>
    /\ mishaps = {}

MayHappen(m) == m \in MishapKinds /\ Cardinality(mishaps \cup {m}) <= MaxMishaps

\* Parsing, metadata, choice of the target, the three images.
ReadStock ==
    /\ stage = "read"
    /\ Parses(offer)
    /\ HasRootMetadata(Props(offer))
    /\ \E m \in DOMAIN Targets :
          /\ Selects(Targets, NoModel, request.model, RootMetadata(Props(offer)).compatible, m)
          /\ target' = m
    /\ HasImages(Props(offer))
    /\ stage' = "unpack"
    /\ UNCHANGED <<offer, request, evil, launcher, slots, fs, injected, built, out, mishaps>>

\* rootfs.bin is written and opened; write_whole_file does not look at what
\* fclose returns.
UnpackRootfs ==
    /\ stage = "unpack"
    /\ Decompresses(OldImage(offer))
    /\ \/ fs' = OldImage(offer).of /\ UNCHANGED mishaps
       \/ /\ MayHappen("tail")
          /\ \E i \in InUse(OldImage(offer).of) : fs' = [OldImage(offer).of EXCEPT !.data[i] = Garbage]
          /\ mishaps' = mishaps \cup {"tail"}
    /\ stage' = "dump"
    /\ UNCHANGED <<offer, request, target, evil, launcher, slots, injected, built, out>>

DumpFiles ==
    /\ stage = "dump"
    /\ Exists(fs, "Evil", "Evil") /\ evil' = Dump(fs, "Evil", "Evil")
    /\ Exists(fs, "Scripts", "evil") /\ launcher' = Dump(fs, "Scripts", "evil")
    /\ stage' = "hijack_v1"
    /\ UNCHANGED <<offer, request, target, slots, fs, injected, built, out, mishaps>>

WithSlot(variable, slot) ==
    [v \in DOMAIN slots \cup {variable} |-> IF v = variable THEN slot ELSE slots[v]]

\* Variant: the second variable is given the slot of the first pedal.
SlotReused(pedal, variable) ==
    /\ evil.kind = "elf"
    /\ \E c, d, n \in Segments :
          /\ Hijackable(evil.elf, pedal.vtable, pedal.orig, c, d, n)
          /\ evil' = ElfFile(Hijacked(evil.elf, pedal.vtable, pedal.orig, c, d))
          /\ slots' = WithSlot(variable, IF DOMAIN slots = {} THEN HookSlot(evil.elf, d)
                                         ELSE slots["GONK"])

\* nam_elf_patch_gonkulator for one pedal; its slot goes into `variable`.
Hijack(pedal, variable) ==
    /\ evil.kind = "elf"
    /\ \E c, d, n \in Segments :
          /\ Hijackable(evil.elf, pedal.vtable, pedal.orig, c, d, n)
          /\ evil' = ElfFile(Hijacked(evil.elf, pedal.vtable, pedal.orig, c, d))
          /\ slots' = WithSlot(variable, HookSlot(evil.elf, d))

HijackV1 ==
    /\ stage = "hijack_v1"
    /\ Hijack(Targets[target].v1, "GONK")
    /\ stage' = IF request.v2 THEN "hijack_v2" ELSE "relabel"
    /\ UNCHANGED <<offer, request, target, launcher, fs, injected, built, out, mishaps>>

HijackV2 ==
    /\ stage = "hijack_v2"
    /\ Hijack(Targets[target].v2, "GONK_V2")
    /\ stage' = "relabel"
    /\ UNCHANGED <<offer, request, target, launcher, fs, injected, built, out, mishaps>>

\* Without renames for the model the step is skipped, and an empty set of
\* renames changes nothing.
Relabel ==
    /\ stage = "relabel"
    /\ Relabelable(evil.elf, Targets[target])
    /\ evil' = ElfFile(Relabelled(evil.elf, Targets[target]))
    /\ stage' = "script"
    /\ UNCHANGED <<offer, request, target, launcher, slots, fs, injected, built, out, mishaps>>

Lines(file) == IF file.kind = "script" THEN file.lines ELSE <<Line("other")>>

BuildScript ==
    /\ stage = "script"
    /\ \E s \in Launchers(Lines(launcher), slots) : launcher' = ScriptFile(s)
    /\ stage' = "inject"
    /\ UNCHANGED <<offer, request, target, evil, slots, fs, injected, built, out, mishaps>>

\* The four files in the order they are injected.
ToInject == <<[dir |-> "Evil", name |-> "Evil", content |-> evil],
              [dir |-> "Evil", name |-> "libnam_hook.so", content |-> HookLibrary],
              [dir |-> "Evil", name |-> "libnam_preload.so", content |-> PreloadLibrary],
              [dir |-> "Scripts", name |-> "evil", content |-> launcher]>>

\* Blocks of a file on the disk, its mapping blocks included.
SizeOf(content) == IF content.kind = "elf" THEN 2 ELSE 1

\* Whether the look-up of remove_if_exists may fail on a file that is there:
\* every error of ext2fs_namei counts as "not found".
MissedLookups(f) ==
    IF MayHappen("lookup") /\ Exists(fs, f.dir, f.name) THEN BOOLEAN ELSE {FALSE}

\* nam_ext4_inject.  The name is free, or it is removed, or the look-up fails
\* and the new file is linked beside the old one.
Inject ==
    /\ stage = "inject"
    /\ LET f == ToInject[Len(injected) + 1]
       IN  \E missed \in MissedLookups(f), ahead \in BOOLEAN, i \in Inodes :
             LET cleared == IF Exists(fs, f.dir, f.name) /\ ~missed
                            THEN Removed(fs, f.dir, f.name) ELSE fs
                 free    == Blocks \ cleared.bmap
             IN  \E B \in kSubset(SizeOf(f.content), free),
                    X \in kSubset(IF cleared.room[f.dir] = 0 THEN 1 ELSE 0, free) :
                   /\ Allocates(cleared, f.dir, SizeOf(f.content), i, B, X)
                   /\ ahead => cleared.entry[f.dir][f.name] # <<>>
                   /\ fs' = Created(cleared, f.dir, f.name, f.content, i, B, X, ahead)
                   /\ injected' = Append(injected, i)
                   /\ mishaps' = IF missed THEN mishaps \cup {"lookup"} ELSE mishaps
    /\ stage' = IF Len(injected) + 1 = Len(ToInject) THEN "check" ELSE "inject"
    /\ UNCHANGED <<offer, request, target, evil, launcher, slots, built, out>>

CheckFilesystem ==
    /\ stage = "check"
    /\ VerifiesBasic(fs)
    /\ stage' = "close"
    /\ UNCHANGED <<offer, request, target, evil, launcher, slots, fs, injected, built, out, mishaps>>

\* nam_ext4_close looks neither at ext2fs_flush nor at ext2fs_close.
CloseImage ==
    /\ stage = "close"
    /\ \E lost \in IF MayHappen("flush") THEN SUBSET Range(injected) ELSE {{}} :
          /\ fs' = [fs EXCEPT !.data = [i \in Inodes |-> IF i \in lost THEN Garbage ELSE @[i]]]
          /\ mishaps' = IF lost = {} THEN mishaps ELSE mishaps \cup {"flush"}
    /\ stage' = "repack"
    /\ UNCHANGED <<offer, request, target, evil, launcher, slots, injected, built, out>>

\* rootfs.bin is read back, compressed and put into an image made of the
\* stock metadata and splash screens.
Repack ==
    /\ stage = "repack"
    /\ built' = Build(RootMetadata(Props(offer)), ImageData(Props(offer), "splash"),
                      ImageData(Props(offer), "recoverysplash"), Compressed(fs))
    /\ stage' = "verify"
    /\ UNCHANGED <<offer, request, target, evil, launcher, slots, fs, injected, out, mishaps>>

\* The image is taken apart again; its Evil binary has to be the one built.
VerifyRoundTrip ==
    /\ stage = "verify"
    /\ Parses(built)
    /\ HasBytes(Props(built), ImagePath("rootfs"), "data")
    /\ Decompresses(OldImage(built))
    /\ Exists(OldImage(built).of, "Evil", "Evil")
    /\ Dump(OldImage(built).of, "Evil", "Evil") = evil
    /\ out' = built
    /\ stage' = "shipped"
    /\ UNCHANGED <<offer, request, target, evil, launcher, slots, fs, injected, built, mishaps>>

\* goto cleanup: nothing is handed out.
Refuse ==
    /\ stage \in Working
    /\ stage' = "refused"
    /\ evil' = Nothing /\ launcher' = Nothing
    /\ UNCHANGED <<offer, request, target, slots, fs, injected, built, out, mishaps>>

Next ==
    \/ ReadStock \/ UnpackRootfs \/ DumpFiles \/ HijackV1 \/ HijackV2 \/ Relabel
    \/ BuildScript \/ Inject \/ CheckFilesystem \/ CloseImage \/ Repack
    \/ VerifyRoundTrip \/ Refuse

Spec == Init /\ [][Next]_vars

-----------------------------------------------------------------------------
(* Properties                                                               *)

TypeOK ==
    /\ stage \in Working \cup Final
    /\ request \in [model : DOMAIN Targets \cup {NoModel}, v2 : BOOLEAN]
    /\ target \in DOMAIN Targets \cup (IF stage \in {"read", "refused"} THEN {NoModel} ELSE {})
    /\ DOMAIN slots \subseteq {"GONK", "GONK_V2"}
    /\ Len(injected) \in 0..4
    /\ mishaps \subseteq MishapKinds

StockFs == OldImage(offer).of

\* A stock file system a file system check would pass.
StockHealthy == FsSound(StockFs) /\ NamesOnce(StockFs)

ShippedFs == OldImage(out).of

\* The binary being patched stays a loadable program whose trampolines are
\* mapped, read zero-initialised words behind the data, and share nothing with
\* each other or with a segment: the second hijack (patch_pipeline.c:209)
\* finds its place in what the first one has left.
HijacksSound ==
    (evil.kind = "elf" /\ Dump(StockFs, "Evil", "Evil").kind = "elf"
        /\ HooksSound(Dump(StockFs, "Evil", "Evil").elf))
    => HooksSound(evil.elf)

\* Removing and injecting files keeps the file system sound and leaks no
\* block, whatever hard links, leftovers and failed look-ups there are
\* (ext4_image.c remove_if_exists, nam_ext4_inject).
FilesystemKept ==
    (fs # Nothing /\ FsSound(StockFs))
    => FsSound(fs) /\ Leaked(fs) \subseteq Leaked(StockFs)

Injected == {<<"Evil", "Evil">>, <<"Evil", "libnam_hook.so">>,
             <<"Evil", "libnam_preload.so">>, <<"Scripts", "evil">>}

\* Every other file of a shipped image reads as in the stock image, also one
\* that was a hard link to a replaced file.  Exceptions: the lost end of
\* rootfs.bin (patch_pipeline.c:86), and a stock image that is damaged: a file
\* whose blocks are not marked used is overwritten, and the check afterwards
\* finds the blocks marked.
BystandersUntouched ==
    (stage = "shipped" /\ "tail" \notin mishaps /\ FsSound(StockFs)) =>
        \A b \in (Dirs \X Names) \ Injected :
            /\ Exists(ShippedFs, b[1], b[2]) <=> Exists(StockFs, b[1], b[2])
            /\ Exists(StockFs, b[1], b[2])
               => Dump(ShippedFs, b[1], b[2]) = Dump(StockFs, b[1], b[2])

\* The pedal's vtable slot holds the function the table names.
Holds(e, pedal) == /\ SlotFileOffset(pedal.vtable) \in DOMAIN e.word
                   /\ e.word[SlotFileOffset(pedal.vtable)] = pedal.orig

\* The pedal's vtable slot leads to a trampoline that reads the hook slot at
\* `slot` and falls back on the pedal's own function.
LeadsTo(e, pedal, slot) ==
    \E t \in e.tramp : /\ e.word[SlotFileOffset(pedal.vtable)] = t.vaddr
                       /\ t.slot = slot /\ t.orig = pedal.orig

RequestedPedals ==
    {<<Targets[target].v1, "GONK">>}
    \cup (IF request.v2 THEN {<<Targets[target].v2, "GONK_V2">>} ELSE {})

\* Whatever went wrong, a shipped image carries the binary that was built,
\* with the requested pedals hijacked; and, if the stock file system was
\* healthy and no mishap hit the injected files, both libraries and a launcher
\* of which every line that starts Evil hands each pedal the address of the
\* slot its trampoline reads (patch_pipeline.c:199-234, 319,
\* launcher_script.c:132).  In a stock file system that shares blocks between
\* files an injected file can be overwritten by the next.
ShippedHijack ==
    stage = "shipped" =>
        LET e == Dump(ShippedFs, "Evil", "Evil")
            s == Dump(ShippedFs, "Scripts", "evil")
        IN  /\ e.kind = "elf"
            /\ \A p \in RequestedPedals : LeadsTo(e.elf, p[1], slots[p[2]])
            /\ (StockHealthy /\ mishaps \cap {"lookup", "flush"} = {}) =>
                  /\ Dump(ShippedFs, "Evil", "libnam_hook.so") = HookLibrary
                  /\ Dump(ShippedFs, "Evil", "libnam_preload.so") = PreloadLibrary
                  /\ Starts(s.lines) # {}
                  /\ \A line \in Starts(s.lines), p \in RequestedPedals :
                        /\ p[2] \in DOMAIN line.env
                        /\ LeadsTo(e.elf, p[1], line.env[p[2]])

\* What is not patched survives the rebuild: both splash screens, with
\* matching hashes, and the metadata up to the sizes of the buffers
\* (fit_image.c:244, 384).
StockPartsSurvive ==
    stage = "shipped" =>
        /\ RootMetadata(Props(out)) = RootMetadata(Props(offer))
        /\ \A image \in {"splash", "recoverysplash"} :
              /\ ImageData(Props(out), image) = ImageData(Props(offer), image)
              /\ GetBytes(Props(out), ImagePath(image) \o <<"hash">>, "value")
                    = Hash(ImageData(Props(out), image))
===============================================================================
