# Verification of the HeadRush NAM mod

TLA+ models of this repository's program, model-checked with TLC on small
instances and, where that is possible, proved with TLAPS for every instance.
The specifications are written from the code under `src/`; every definition
that stands for code is listed in `PROJECT.json` ("map") with the lines it
translates.

Contents

1. [The system](#1-the-system): components, their state, how they interact
2. [What is hard here](#2-what-is-hard-here): the hazards and what makes each component correct
3. [The models](#3-the-models): modules, state and actions against the code
4. [The runs](#4-the-runs): what each run asks, bounds, fairness
5. [The proofs](#5-the-proofs)
6. [What the runs found](#6-what-the-runs-found)
7. [What is not modelled](#7-what-is-not-modelled)
8. [What could come next](#8-what-could-come-next)

To repeat the checks, in this directory:

    tlc -workers 2 -config PatchedDevice.cfg MCPatchedDevice   # a run of PROJECT.json
    tlc -workers 2 -config Installer.cfg MCInstaller
    tlapm PatchPipelineProofs.tla                              # a proof module

## 1. The system

The repository turns a HeadRush guitar processor into a player of NAM (Neural
Amp Modeler) captures. It has two halves that never run at the same time.

**On the user's computer** - an installer that downloads the stock firmware,
patches it (FIT container -> xz -> ext4 file system -> ELF binary, launcher
script, labels) and repacks it as an updater, and a library organiser that
numbers the model files of the device's `/NAM` folder and writes one preset
("block") per model.

**On the device** - the launcher starts the vendor's program, Evil, with
`libnam_preload.so`, whose constructor stores the address of `nam_process_gonk`
in a hook slot. A trampoline in Evil jumps through that slot, so that every
`process()` call of the hijacked "Anxiety OD" pedal runs a neural network in
place of the overdrive. The pedal's DRIVE knob selects the model: knob step *n*
plays the *n*-th `.nam` file of the folder.

| component | source | state it keeps | operations |
|---|---|---|---|
| installer application | `app/main.c` | `AppShared` behind a mutex, thread handle, `LibraryState` | UI loop, worker thread, cancel on quit |
| packaging | `app/win_repack.c`, `app/mac_package.c` | the vendor updater, the output, the recovery copy | unpack, splice the patched image in, verify |
| download, zip, temp dir | `core/http_download.c`, `core/zip_reader.c`, `core/tempdir.c` | - | fetch with cancel, unpack, create and remove |
| patch pipeline | `core/patch_pipeline.c` | the image as it is taken apart and put together | ordered steps, verification before output |
| ELF hijack writer | `core/elf_patch.c` | an executable | grow code and data, write a trampoline, redirect a vtable slot; twice for four instances |
| launcher script, labels, targets | `core/launcher_script.c`, `core/qml_patch.c`, `core/model_targets.c` | - | rewrite the line that starts Evil, replace labels, identify the device |
| containers | `core/fit_image.c`, `core/ext4_image.c`, `core/xz_codec.c` | bytes | unpack, replace, repack |
| in-process loader | `patch/nam_preload.cpp`, `patch/trampoline_gonk.S` | the hook slots in Evil's `.bss` | library constructor, jump |
| audio hook | `patch/nam_hook.cpp` | `g_instances[8]` of `ModelState` (owner, ready, active index, fade state, pending slot, switching flag, settle and retry clocks, calibration epoch), topology epoch, preload flags, cached models, calibration cache | `process()` per block; preload thread; one load thread per instance |
| host engine (external) | `docs/TECHNICAL.md` | the board, knobs, footswitches | calls `process()` once per pedal and audio period |
| library organiser | `core/nam_library.c` | the `/NAM` folder, the plan, the `Blocks` folder | scan, swap items, apply (two-phase rename, rollback, block files) |

Interactions. The installer's worker calls download, zip, pipeline and packaging
in order and talks to the UI thread through `AppShared` only. The pipeline calls
the container and patch functions in order and owns everything in between; what
connects them on the device is one address: the hijack writer chooses the hook
slot, the launcher passes it in the environment, the loader stores into it, the
trampoline reads it. The host's audio thread calls the hook; the hook starts
detached threads and shares six fields per instance with them (`switching`,
`pending_ready`, `pending_dsp`, `pending_index`, `active_index`, and through the
globals the epoch and the calibration cache). The organiser and the hook share
the `/NAM` folder: the organiser's `index` has to be the hook's rank.

## 2. What is hard here

`PROJECT.json` lists every hazard with its line. They come from these sources.

* *Lock-free hand-over* (hook). A load is requested, built, staged, published,
  picked up or dropped by two threads that share one pending slot per instance
  without a mutex around it. Nothing in the tests runs the two of them together.
* *A chain of things that may not happen* (hook). A knob turn has to settle,
  fade out, get a request past the debounce, the preload, a transition guard and
  a compare-exchange, survive a failing load and a knob that has moved on. Every
  link may drop the request; if nobody repeats it the pedal is muted for good.
* *A board that changes* (hook). Each instance gets a share of the block budget,
  so a joining pedal makes the quality tier of all the others stale, while their
  benchmarks may be running.
* *A folder that changes under the plan's feet* (organiser). `rename()` may fail,
  or replace a file in silence; the program may die between any two calls; the
  user may copy files in while the preview is shown.
* *Surgery on foreign data* (pipeline). The second hijack works on what the
  first one left; a file that is replaced may have hard links; bitmaps may
  disagree with inodes; offsets read from an image wrap around.
* *Failures nobody looks at* (pipeline, packaging). Several calls of `fclose`,
  `ext2fs_flush` and `ext2fs_namei` drop or misread an error. Which of them can
  reach the user's device, and what happens there then?
* *A worker nobody joins* (installer). "Try Again" overwrites the thread handle;
  only the last one is waited for; a download may hang for ever.

What makes each component correct:

* hook: a sounding instance is never touched by a load; the pending slot has one
  owner; the render code never meets a null DSP; a change of model is never a
  hard cut; a resting knob ends in its model; tiers end up measured for the
  board as it is; pedals share no state while there are slots;
* organiser: an apply that fails puts the folder back; a model is hidden or
  overwritten only after something worse than a failing rename; after a
  success a file has the name and the knob position the preview showed, its
  block is complete, and a second run has nothing to do - the last three as far
  as the names leave room for their extensions (section 6);
* pipeline: what is patched stays sound (binary, file system), what is not
  patched is as before, the addresses in binary and launcher agree, nothing is
  handed out that is not hijacked as asked, and nothing is patched twice;
* device: every call of `process()` ends in one function, at any moment of the
  start-up and whatever file is missing; no other program's memory is written;
* reader: no read leaves the image, and the parser ends for any content;
* installer: jobs do not overlap, the window can always be closed, "Done!" is
  said of this job's image, the recovery copy is the stock updater (section 6
  has what a lost `fclose` does to the last two).

## 3. The models

| module | what it is |
|---|---|
| `NamHook` | the hook: the audio thread's `process()` calls, the preload thread, one load thread per slot, the clock and the user |
| `PedalVoice` | what the hook promises a player of one instance, without any thread |
| `NamHookVoice` | the refinement mapping from `NamHook` to `PedalVoice` |
| `NamLibrary` | the organiser: the folder, the plan, the screen, apply one `rename()` at a time, the blocks; crashes and the user's file manager |
| `ElfPatch` | an executable, the hijack, the labels and the device table, as operators |
| `LauncherScript` | the launcher script as kinds of lines |
| `Ext4Image` | the file system: directories, inodes, blocks and bitmaps; removal, injection, the basic check |
| `FitImage` | the update image as tokens: parser, getters, builder |
| `PatchPipeline` | one call of `nam_patch_pipeline`, one action per step, built from the four modules above |
| `PatchedDevice` | extends it: the image is installed and booted, or offered to the tool again |
| `FitReader` | the bytes under `FitImage`: where the parser reads, with words that wrap |
| `Packaging` | a job's work on files, for the three platforms |
| `Installer` | extends it: the UI thread, the worker threads, the shared state, quitting and starting again |
| `MCNamHook`, `MCNamLibrary`, `MCPatchedDevice`, `MCInstaller` | small instances for TLC |
| `NamHookProofs`, `NamLibraryProofs`, `NamLibraryResultProofs`, `FitReaderProofs`, `FitImageProofs`, `PatchPipelineProofs`, `PatchedDeviceProofs`, `InstallerProofs` | the proofs (section 5) |

### NamHook against the code

The audio thread runs one `process()` call through the labels

    idle -> [bump] -> enter -> (request) -> net -> (request) -> pickup -> (request) -> render -> (request) -> idle

`(request)` is `switch_model_in_background`, a subroutine of the labels `guard`
and `cas` with its return label in `ret`. A label is a place between two
accesses to shared fields, so that with `SMP = TRUE` every interleaving the
memory accesses allow is explored (under sequential consistency). With
`SMP = FALSE` the other threads, the clock and the user only step when no call
is running: the source states that the device has one core and lowers the
priority of its own threads below the audio thread's.

| code | model |
|---|---|
| `state_for` | `FindInstance`, `ClaimInstance` + `BumpEpoch`, `ShareLastInstance` |
| knob settle, topology check (1072-1128) | `EnterReady` with `Settled`, `TopologyStale` |
| first request (1048-1071) | `EnterNotReady` |
| `switch_model_in_background` up to the thread start | `RequestDebounced`, `RequestPreload`, `RequestBlocked`, `RequestAllowed`, `CasLost`, `CasWon` |
| safety net (1130-1146) | `SafetyNet` |
| pickup (1148-1203) | `NothingToPickUp`, `DropStaleLoad`, `InstallFirst`, `InstallNext` |
| output (1206-1347) | `RenderDry`, `RenderSteady`, `RenderMuted`, `RenderFadeOut`, `RenderFadeOutEnd`, `RenderFadeIn` |
| load thread (749-910) | `WorkerStart`, `WorkerLookup`, `WorkerMeasure`, `WorkerRemember`, `WorkerStage`, `WorkerPublish`, `WorkerFail`, `WorkerExit` |
| `preload_models_in_background` | `PreloadModels` |
| host and user | `BeginBlock`, `TurnKnob`, `ToggleBypass`, `Tick` |

Abstractions. A model is its index. A built DSP is its model and the number of
instances its quality tier was measured for (0: not measured). The audio of a
block is what kind of sound it carries (`dry`, `silence`, `full`, fade `out` or
`in`) and of which model. Time is ages in ticks up to the two thresholds of the
code, a fade is a number of blocks. The knob is its rounded step: two raw values
of one step are the same to `knob_value_to_index`, and the hook's comparison of
raw values (`last_seen_knob_raw`) does not gate anything else. `bypass` is read
once per call, like in the code.

`PedalVoice` has five phases per instance (through, playing, ducking, muted,
rising). `NamHookVoice` reads them off `ready` and `fade`; steps of threads,
clocks and other instances are invisible to it.

### NamLibrary against the code

The folder is a function from model files to names, so that "which content is
stored where" is the state and a file that has been replaced is `Lost`. A name
keeps what the code looks at: whether it is a `.nam` name, one of apply's
temporary names or a name cut short by `snprintf`; its number; its base name,
whose order is `strcasecmp`'s. `LongBases` are the base names for which
"NNN - name" does not fit into the 256 bytes, so that ".nam" is cut off
(`nam_library.c:75`); `LongTitles`, which contains them, those for which
"NNN - title.block" does not (`nam_library.c:460`). The steps of the screen and the phases of
`nam_library_apply` share the variable `step`:

    closed -> no_drive | pick_drive | preview | error
    preview -> phase1 -> phase2 -> [blocks] -> result
                  \-> undo <-> restore -> error

| code | model |
|---|---|
| `library_detect_drive`, `library_select_candidate` + `nam_library_scan` | `Detect`, `PickDrive` with `Scan`, `InOrder`, `Before` |
| `nam_library_swap_items`, `reindex_item` | `SwapItems`; `New` and `NeedsRename` are functions of a plan and a position, so that reindexing is implied |
| `nam_library_apply` | `ApplyStart`, `Phase1`, `Phase2`, `Undo`, `Restore`, one step per `rename()` |
| `write_blocks_for_type` | `WriteBlock`, one step per block |
| `rename()` of the platform | `Rename`, `RenameFails`; `replaces` is TRUE on POSIX, FALSE on Windows |
| `preload_models_in_background` of the hook | `Loadable`, `DeviceBefore`, `DeviceRank` |

One folder stands for the drive. A block is its type and its name, which is no
".block" name (kind `cut`) for a long title; what is kept of its text is whether
it is complete. Making a missing folder is part of
the scan and of the block writing that do it.

### PatchPipeline and PatchedDevice against the code

`stage` is the step of `nam_patch_pipeline` that comes next:

    read -> unpack -> dump -> hijack_v1 -> [hijack_v2] -> relabel -> script
         -> inject (four times) -> check -> close -> repack -> verify -> shipped
    any of them -> refused

| code | model |
|---|---|
| parse, metadata, target, images (116-156) | `ReadStock` with `FitImage`'s `Parses`, `RootMetadata`, `HasImages` and `ElfPatch`'s `Selects` |
| `write_whole_file`, open, dump (158-188) | `UnpackRootfs`, `DumpFiles` |
| `nam_elf_patch_gonkulator` | `Hijackable` (every guard), `Hijacked` (the new headers, slot and trampoline), `HookSlot`; called by `HijackV1`, `HijackV2` |
| `nam_qml_patch` | `Relabelable`, `Relabelled` |
| `nam_build_launcher_script` | `Launchers`: at most one script, none where the code refuses |
| `remove_if_exists`, `nam_ext4_inject` | `Removed`, `Allocates`, `Created`, put together in `Inject` |
| `nam_ext4_verify_basic`, `nam_ext4_close` | `VerifiesBasic`, `CloseImage` |
| `nam_fit_build` and the read-back (267-329) | `Repack`, `VerifyRoundTrip` |
| `cleanup:` | `Refuse`, possible at every step: each of them also fails for want of memory or disk |
| `install_nam_hooks` | `Constructor`, run by `StartMain` in Evil and by `SpawnHelper` in a child |
| `trampoline_gonk` | `Called` |

Three failures are *mishaps*: the code does not notice them (`tail`, `lookup`,
`flush`, explained in the module). The properties name the mishaps they survive.

An executable is its program headers, length, the words and labels the patcher
reads, the non-zero bytes between segments and its trampolines. A file system
keeps inodes and bitmaps apart, so that they can disagree; a directory lists a
sequence of inodes per name, so that a name can be there twice. Allocation is
lowest-first, as in libext2fs; where a new entry goes in a directory is open.
An image's content, a text and a list of devices are sequences or values whose
length is all that counts.

### FitReader against the code

One action per token of the loop in `nam_fit_parse`, `GetStr` and `GetCells` for
the getters. What a read returns is arbitrary (`\E` over all words); the state is
where the reader is, how far it has read, and the last property. `Sum` and
`Align4` wrap at `Modulus` like `uint32_t`; the comparisons the code makes in
`size_t` do not.

### Packaging and Installer against the code

Each worker thread has a program counter through `worker_main`:

    begin -> download -> workdir -> unpack -> pipeline -> ... -> cleanup -> finish -> ended
                \----------\----------\--> report -> ended
                                           discard -> report   (from the pipeline on)

with `package -> patch -> keep` on macOS, `package -> patch -> archive -> write
-> verify -> keep` on Windows and `write` on Linux. A step that writes a file can
end in success, in a failure that leaves what the operation leaves half-way, or
(`Drops`) in a failure of `fclose` that the code does not see. On Windows the
stock updater itself is written to a file first (`write_whole_file_local`); what
`fclose` can lose there without being noticed is the end of the certificate
behind the 7z archive (`CutShort`), for an archive that has lost its end is
refused. The pipeline is
one step here: `PatchPipeline` shows that it hands out an image or nothing. What
an unpack that failed has left in the working directory is not kept, for nobody
reads it.

The UI thread takes a snapshot of `state` (`Poll`) and then handles one click in
it, so that a click acts on a screen that may be out of date, and the quit event
of a frame is acted on after its clicks. `Leave` is the join of `worker_thread`
and the end of the mutex. `Relaunch` starts the program again on the same files.

### Variants

Operators commented "Variant:" (in `Packaging` and `Installer`, those named in the mutants) are plausible slips of the code. They are not
part of any specification; each one put in the place of the definition that
follows it makes a run fail, which shows the property would notice.

## 4. The runs

Bounds are constants of the models: `MaxKnobMoves`, `MaxBypassToggles`,
`MaxLoadFailures`, `MaxSpawnFailures`, `MaxMishaps`, `MaxApplies`, `MaxRounds`,
`MaxStarts`, `MaxLaunches` count events of the environment and appear only in the
guards of those events.

| run | cfg | asks |
|---|---|---|
| `one_pedal` | NamHookOne | one pedal, 3 knob steps with 0 or 2 files, so that steps are mapped, unmapped or without any folder; 2 knob turns, bypass, a load that throws, a thread that cannot be created; two-block fades and a two-tick debounce so that turns fall in the middle of fades. Safety, the refinement of `PedalVoice`, and that a resting knob's model is heard in the end |
| `several_cores` | NamHookMulti | `SMP = TRUE`, three interchangeable pedals on two slots, so that the last to come shares a slot, no debounce: what does not depend on the one-core claim (calibration cache, who works on which slot) |
| `recalibration` | NamHookRecal | two pedals, two slots: the load protocol while callbacks and loads of two instances alternate, and every sounding instance is reloaded for the final board |
| `library` | NamLibrary | three files of four, with equal base names, a gap, a duplicate number, a long name, numbers against the alphabet, and a folder with one file too many; one title too long for ".block" and one for ".nam" as well; any reordering; two applies with no, one or both kinds of block; up to two different mishaps of six; both platforms |
| `device` | PatchedDevice | 47 stock images, each with one thing that differs from a good one; two device models, named or detected; one or two pedals; at most one unnoticed failure; the shipped image is installed and Evil started twice, with a helper process, or patched again |
| `fit_reader` | FitReader | words modulo 20, images of 2, 14 and 16 bytes (the last close enough to the modulus for sums to wrap), any token at any offset |
| `installer` | Installer | three platforms, two worker threads, two wishes, two starts of the program, every step failing, one unnoticed failure per job; safety and liveness |
| `mute_trap`, `stale_tier` | NamHookMute, NamHookTier | the findings of section 6 about the hook: one or two pedals, at most two knob turns |
| `library_rollback`, `library_blocks` | NamLibraryRollback, NamLibraryBlocks | those about the organiser; the second without any mishap |
| `broken_updater` | BrokenUpdater | the one about the installer: one job, one unnoticed failure |

Why the bounds are enough. *Hook*: the threads of different slots share only the
epoch, the cache and the audio thread; two slots show each pair of them, and the
proofs of section 5 lift the safety results to any number of pedals, slots, knob
steps, turns and failures. Two turns let one pedal leave a model and change its
mind during the fade, the debounce or the load, back to the model that was ducked
out or on to another. Three pedals on two
slots are what the fallback on the last slot needs; their symmetry is sound
because no definition tells one pedal from another, and without a debounce
(thresholds of 0) loads start whenever they may. Two thresholds of
1 or 2 ticks separate "not yet" from "long enough"; larger ones only lengthen the
wait.

*Organiser*: three planned files are what a rename cycle and a rollback that
walks over a third file need; the fourth is the one the user copies in. A mishap
is a rename that fails (`fail`), one that fails during the rollback (`undo`), a
crash, a copy, a block that cannot be written (`write`) or that is lost in
`fclose` (`close`); each happens at most once and `MaxMishaps` = 2 in all, the
pairs (fail, undo), (crash, fail), (copy, fail) being the ones that hide or lose
a file. Two applies (`MaxApplies`) let the second meet what the first has left.

*Device*: the pipeline is sequential and an input takes one way through it, so
the inputs are what counts. For every guard of the code there is an image that
fails it and one that just passes: a gap with room for none, one and exactly two
trampolines, a directory that is full and one that is not, a disk that is full
and one with room for exactly the files, a file with one, two and a hidden third
link, a script without loop, without or with two exec lines, with an older block
and with markers in the wrong order. Patched twice (`MaxRounds`) is the smallest
number that asks "is it refused?"; started twice (`MaxStarts`) shows that nothing
survives a crash of Evil.

*Installer*: two workers are what an overlap needs, two wishes tell one job's
image from the other's, and two launches meet the files of an earlier run.

Fairness. *Hook* (`one_pedal`, `recalibration`, `mute_trap`): `WF` of the audio
thread: a callback that has begun runs to its end. `SF` of the beginning of a
block for each pedal: the host calls every pedal once per period, for ever. `SF`
of each load thread, of the preload and of the clock: they are enabled only
between callbacks on one core, so weak fairness would say nothing; the audio
thread sleeps between periods and leaves the core to them over and over. No
fairness is assumed of the user, and none of failures. *Installer*: `WF` of the
UI loop (it redraws for ever) and of each step of each worker, because the system
runs threads; `WF` of `NoticesCancel`, because libcurl calls the progress
function about once a second even when no byte arrives. Nothing is assumed of
`DownloadEnds`: the transfer has no timeout, and `DownloadedJobEnds` therefore
speaks of jobs whose download came through. No fairness makes the user click or
quit. The organiser, the pipeline and the reader are sequential programs; that
the reader ends is the safety property `Advances`.

Deadlock checking is on for the hook and the organiser: the audio thread can
always begin another block, the library screen can always be left. It is off for
`device`, `fit_reader` and the runs of the installer: a call that was refused, a read that is over and a program that was left do stop.

## 5. The proofs

All proofs are of the specification, for every value of the constants that
satisfies the module's assumptions. The bounds may be any natural number, so
they do not bound the theorems.

| theorem | module | states | assumes |
|---|---|---|---|
| `TypeCorrect` | NamHookProofs | `Spec => []TypeOK` | - |
| `OneCore` | NamHookProofs | `Spec => []OneCoreInv` | one core |
| `LoadsMeetSilence`, `PendingOwned`, `NoNullDsp` | NamHookProofs | the three named safety invariants | one core |
| `CacheCoversItsEpoch` | NamHookProofs | `Spec => []CalibrationCoversItsEpoch` | - |
| `OwnState` | NamHookProofs | `Spec => []EachPedalItsOwnState` | - |
| `StaleLoadsNeverPlay` | NamHookProofs | `Spec => InstalledIsWanted` | - |
| `NeverCutHard` | NamHookProofs | `Spec => NoHardCut` | one core; finitely many pedals, no more than slots |
| `VoiceRefined` | NamHookProofs | `Spec => KeepsTheVoicePromise` | one core |
| `LibraryTypeCorrect` | NamLibraryProofs | `Spec => []TypeOK` | - |
| `AppliesThePlan` | NamLibraryResultProofs | `Spec => []AppliedAsPlanned` | - |
| `ModelsAreKept` | NamLibraryProofs | `Spec => LossNeedsAMishap` | - |
| `BlocksAreComplete` | NamLibraryResultProofs | `Spec => []BlocksComplete` | - |
| `RollbackIsComplete`, `NothingIsHidden` | NamLibraryResultProofs | `Spec => RollbackRestores`, `Spec => HiddenNeedsAMishap` | - |
| `OnlyCutNamesLeaveGaps`, `KnobFollowsThePlan` | NamLibraryResultProofs | `Spec => RescanClosesGaps`, `Spec => []RankIsIndexLessSkipped` | - |
| `WrittenIsRead` | FitImageProofs | the parser reads out of a built image what it was built from | - |
| `PipelineTypeCorrect` | PatchPipelineProofs | `Spec => []TypeOK` | stock images are made of files (below) |
| `HijacksKeepBinarySound`, `FilesystemStaysSound` | PatchPipelineProofs | `Spec => []HijacksSound`, `Spec => []FilesystemKept` | the same |
| `StockPartsKept`, `BystandersStay`, `HijackIsShipped` | PatchPipelineProofs | `Spec => []StockPartsSurvive`, `Spec => []BystandersUntouched`, `Spec => []ShippedHijack` | the same |
| `ImagePatchedOnce` | PatchedDeviceProofs | `DeviceSpec => []PatchedOnce` | the same, and what a stock Evil is (below) |
| `CallsAreAnswered`, `HooksAreReached`, `WritesStayInSlots` | PatchedDeviceProofs | `DeviceSpec => []CallsAnswered`, `=> []HooksReached`, `=> []WritesInHookSlots` | the same |
| `CallsKeepTheirPromises` | PatchedDeviceProofs | the five pipeline properties under `DeviceSpec` | the same |
| `ReaderTypeCorrect` | FitReaderProofs | `Spec => []TypeOK` | images at least 3 bytes below the word size |
| `ReadsStayInside`, `PropertiesStayInside` | FitReaderProofs | `Spec => []ReadsInside`, `Spec => []PropsInside` | the same |
| `ReaderAdvances` | FitReaderProofs | `Spec => Advances` | the same |
| `InstallerTypeCorrect` | InstallerProofs | `Spec => []TypeOK` | - |
| `JobsNeverOverlap`, `MutexIsDestroyedLast` | InstallerProofs | `Spec => []OneActiveWorker`, `Spec => []MutexOutlivesWorkers` | - |
| `RecoveryCopyIsStock`, `DoneMeansDelivered` | InstallerProofs | `Spec => []StockCopyIsStock`, `Spec => []DoneIsThisRunsImage` | - |

So every invariant and every action property that a passing run checks is also
a theorem; what the runs have alone are the liveness properties and the
violations.

What the constants are assumed to be. `PipelineAssumption`: what can be unpacked
out of a stock image is a file system whose files are binaries, scripts or
something else; a script sets no variables but the hook slots', only in lines
that start Evil, and does not start Evil both with and without them; the texts of
the metadata are sequences; the two pedals of a device have different vtable
slots. `DeviceAssumption`: an Evil of the vendor carries no trampolines; none of
the functions the device table names lies in the dead space behind the code
(there is no code there); a binary that has the first pedal of one device has the
vtable of its second pedal and not the first pedal of another device. An image
the tool has made is not a stock image in this sense: it comes in through
`PatchAgain`, and what it is like is proved. TLC evaluates both on the
instances of the `device` run.

*The one-core invariant.* `LoadsOnlyUnheard` alone is not inductive: a request
passes its guard (`fade` 0 or 3, nothing pending) at one label and starts the
thread at another. `OneCoreInv` adds what is true in between: a call that stands
at `guard` or `cas` found its instance unready or muted; at `cas` nothing is
pending; before the first model there is no fade; and a thread about to publish
has staged what it built. Those facts survive because on one core no other
thread steps during a call, which the proof uses exactly where the guard is
re-read. On several cores they do not (see the hazard at line 731).

*The calibration cache.* An entry's tag is the epoch read before the benchmark,
its share the number of slots claimed when the benchmark counts them. The
strengthening says that the epoch never exceeds the number of claimed slots,
plus one claim that is not yet bumped, and that a thread between the two reads
holds a tag no larger than the epoch. It needs no scheduling assumption. The
cardinality of the claimed slots only grows; the lemmas on it use the finiteness
of `Slots`.

*Ownership.* `EachPedalItsOwnState` is inductive: a slot once claimed is never
given up, so that a full table stays full while a call works on a foreign slot.
With no more pedals than slots the fallback of `state_for` is dead code
(`TableHasRoom`): if every slot were taken by a pedal, each by another one, and
the caller had none, there would be more pedals than slots.

*The refinement.* Initial states map to initial states, and each action maps to
one action of `PedalVoice` or to a stutter. The lemmas split by label; the
one-core invariant supplies that a first model is installed outside any fade
and that a swap happens in phase "muted".

*The plan.* `AppliedAsPlanned` speaks of the end of an apply. `Placed` says where
the file of an item is at every step of it, by the item's state; it needs
`Shape`: before the second phase the items in front of `at` are exactly the
renamed ones, after it no item that needs a name is left in state 0, and no file
is planned twice. Then an item's three names differ from those of all others,
and no rename can hit a planned file, even when the folder holds other files.
Those are where they were, or were replaced: `LossAllowed` says that a file the
plan does not move is lost only under a temporary or new name of an item, and
`FolderInv` (below) that none lies there before a failed undo, a crash or a copy.

*The silence between two models.* `NoHardCut` relates two blocks that may be far
apart. `TailKept` says of each instance what its last block allows the next one
to be: while a model plays, the last block carried it, and a muted instance, or
one that rises with another model, has faded out before. It needs the one-core
invariant (a first model is installed outside any fade, a swap happens in the
mute) and a slot for every pedal (`OwnSlot`, from `OwnState` and `TableHasRoom`):
two pedals on one slot would hear each other's fades.

*The models.* `FolderInv` accounts for every name in the folder: a temporary
name belongs to an item in state 1, a `.nam` name to an item that has not moved
or has arrived, and a name cut short excludes the name it came from. It holds as
long as no undo has failed, no apply was cut short and nobody copied a file in,
and survives even a rollback that overwrites a file. From it each of the four
renames finds its target free, except for the last one, whose target can only be
the new name of an item with the same base name.

*The blocks.* `BlocksInv` says which blocks the two loops have passed; those are
there, and torn only for one of the two reasons of `BlocksComplete`. A torn block
exists only after a mishap, and a block that is overwritten is whole.

*The way back.* `ComingHome`: as long as the rollback is quiet (no undo has
failed, no twins, nobody else at the folder), each planned file is at the place
its item's state tells, every other file where it was before, and the items the
rollback has passed are back in state 0. `HiddenNeedsAMishap` needs the same where
`rename()` does not replace, and `FolderInv` where it does. A cut name is
accounted for like a temporary one: it was there before, or it is the new name
of an item (`CutKnown`), which a complete rollback has taken back.

*The plan is final.* After a success the `.nam` files are exactly the items at
their new names (`FolderIsThePlan`), less those whose new name was cut. A scan
orders them by number first, so that it maps 1..c to 1..n strictly rising; such a
map is the identity up to the first position it leaves out and never after it
(`UpwardsWithin`, `RescanMoves`). An item is therefore renamed by the next apply
exactly if a cut name is in front of it. The same description of the
folder counts the files in front of a model for `RankIsIndexLessSkipped`.

*The binary.* `HijackKeepsSound` is about one hijack of any binary whose segments
are laid out as a linker does (`LaidOut`) and whose trampolines, if any, are
mapped and apart. The new trampoline ends where the code segment now ends, so it
lies behind every older one, and the gap check keeps it in front of the next
segment in the file; that memory keeps the distances of the file carries this
over to addresses. The data segment is last in memory, so that its new word meets
nobody. The second hijack is then the same lemma again: the result has the
properties the lemma asks for. `HijacksSound` is inductive together with "the
binary dumped is the stock one".

*The file system.* `FsSound` is preserved by `Removed` and by `Created`. Removing
needs the link count: with more links the inode and its blocks stay, and the
count is still at least the number of entries seen. Freeing needs that no other
inode owns the blocks, which is `FsSound` itself. Creating needs that allocated
blocks were unmarked, hence unclaimed (`Claimed \subseteq bmap`). A namesake that
was missed by the look-up changes nothing of this: the lists of entries stay free
of duplicates. Leaks are bounded by those of the stock image step by step.

*The image.* `Rounds` is the parser's loop as a recursive function. The library's
induction theorems cannot be instantiated here, but its theorem that every
non-empty subset of a well-founded set has a minimal element (`WFMin`) can be:
`LeastNumber` is the principle of the smallest counterexample, and from it comes
that the recursive function exists and satisfies its equation
(`AnyNumberOfRounds`). An image that was built has a fixed number of tokens, and
the parser is followed through them node by node (`NodeIsRead`, `RootIsRead`,
`BuildIsRead`); then each getter finds exactly one property (`BuildSays`).
`StockPartsKept` follows, with one more fact: cutting a text to the size of its
buffer twice is cutting it once.

*One call.* `CallInv` joins what is true at every step of the pipeline:

| part | says |
|---|---|
| `PipelineInv` | types; the file system in use is sound whenever the stock one is; the binary is sound |
| `SourceInv` | what was unpacked was compressed, and it has the binary |
| `HookedInv` | the binary is the stock binary after one hijack, or after two, and `slots` holds the addresses chosen |
| `LauncherInv` | the launcher is a stock script, or one that starts Evil with exactly `slots`; the script it came from starts Evil without |
| `FilesInv` | every inode holds a file; four files have been injected after the last injection |
| `InPlaceInv` | names that are not injected list what they listed; what a name lists is the file injected there or an old one with its content; injected files are under their names, and alone there if stock names are listed once and no look-up has failed |
| `RebuiltInv` | the image built is the one `Repack` describes, and its binary is the one that was made |

The heart of `InPlaceInv` is `FilePlaced`: an inode that a directory lists is in
use, so its blocks are marked, so the allocator does not hand them out
(`ListedInUse`). Without a sound stock file system each of these steps fails.
`ShippedHijack` first promised the libraries and the launcher for every stock
image; the proof attempt showed where that is false: in a stock file system in
which two files share blocks, or which lists a name twice, an injected file can
be overwritten by the next one or stand behind an older namesake. The properties
`ShippedHijack`, `HooksReached` and `WritesInHookSlots` therefore ask for
`StockHealthy` there, the `device` run has such images among its inputs, and what
is promised for every stock image (the binary, `CallsAnswered`) is stated
without it.

*The device.* `Rerouted` says that a pedal's vtable slot holds the address of
exactly one trampoline, that this is not the address it held before, and that the
trampoline remembers that one. It follows from `HookedInv`: the second trampoline
begins where the first one ends, and both lie in dead space, where no function of
the table is. `DeviceInv` carries this to the running program: what is installed
is what was shipped, the line executed is one of the installed launcher, the
program is the installed binary, and what has been written is what the
constructor writes in that environment. For any mishap the environment has no
variables but the two of the pedals, whose function is the hook; this gives
`CallsAnswered`. In the absence of mishaps `NewInPlace` gives the libraries and
the launcher, and so `HooksReached`.

*Patched once.* `SpentFile`: after the hijacks no pedal the table begins with has
its function in its vtable slot, for the first pedal of the device because the
slot now holds the trampoline's address, for the others because the stock binary
never had them. `SecondRun` says that a second run has read that binary or
garbage, and so gets no further than the first hijack.

*The reader.* `Inside` puts the type invariant, `ReadsInside` and `PropsInside`
together: a sum of words inside the image does not wrap (`SumInside`,
`AlignedInside`), because images stay three bytes below the word size; each
action then reads inside by the check it has just made.

*The installer.* `OneJob` adds to `OneActiveWorker` that the screen a frame was
drawn from is `PICK` only while no job is active: a job says `ERROR` in its last
step, `Discard` comes before `Report`. This order is all that protects the
overwritten handle, and the mutant that swaps it violates the property. For the recovery
copy, `SourceOf` says that the unpacked stock updater is the downloaded one at
every step up to `keep`, or on Windows that one cut short by a job that has lost
its end; `CutForStays` keeps the record of such a job for as long as its copy is
there. For `DoneIsThisRunsImage`, `Delivery` follows the image from step to
step by platform, and `Chosen` that the selection cannot change under a running
job.

Only model-checked: liveness (`FirstModelLoads`, `SettledKnobIsHeard`,
`EveryInstanceRecalibrated`, `QuitEnds`, `DownloadedJobEnds`,
`PipelineJobsCleanUp`), since fairness and ENABLED are out of the prover's reach,
and the violations.

## 6. What the runs found

* `mute_trap`. A knob that returns to the ducked-out model after the fade-out
  has ended, while the replacement was debounced, failed or dropped as stale,
  leaves the instance muted: every retry of the safety net ends at the same
  comparison. `SettledKnobIsHeard` names this state, a thread that was never
  created and an instance that has never become ready as the only ways out of its
  promise.
* `stale_tier`. The epoch an instance counts as calibrated for is the one at
  installation, not the one its tier was measured under. A pedal that joins in
  between leaves it with a tier that is too expensive, and marked as fresh.
* `library_rollback`. The rollback restores one item after the other in plan
  order. With equal base names the old name of one item can be the new name
  another has already reached: `001 - x` becomes `000 - x`, `002 - x` becomes
  `001 - x`, a third rename fails, and putting back the first replaces the
  second. `LossNeedsAMishap` states that this and mishaps worse than a failing
  rename are the only ways to lose a model, and `RollbackRestores` that the
  rollback is right as long as base names differ.
* `library_blocks`. A name is built with `snprintf` into 256 bytes. For a base
  name near the limit the end is cut off, extension included: the block written
  for it is no `.block` and is counted as written. `BlocksComplete` states what
  holds of the others.
* `broken_updater`. The repacked Windows updater is tested after it has been
  written under its final name; a failing test ends the job and leaves the file,
  although the message says that it refuses to.

What the passing runs state exactly, and a reader may not expect:

* The load protocol holds on one core. `switch_model_in_background` reads
  `pending_ready` before its compare-exchange (`nam_hook.cpp:731`). If a load
  thread runs in between, publishes and ends, the next load starts although a
  result waits, and the pending slot has two owners: `PendingHasOneOwner` fails
  in `one_pedal` with `SMP = TRUE`. On one core this takes a callback that is
  preempted; `OneCore` proves that there is no other way, for any number of
  pedals and slots, the slot that is shared included.
* An instance whose knob rests on a step without a file from power-on never
  becomes ready: `-1` stands for "unmapped" and for "nothing loaded yet"
  (`nam_hook.cpp:756`), the load thread takes it for the model that plays already,
  and the pedal passes the dry signal, which `docs/TECHNICAL.md:41-43` and the
  comment at `nam_hook.cpp:402` exclude. It is the last case of
  `SettledKnobIsHeard` and the reason `FirstModelLoads` asks for a mapped step.
* A `pthread_create` that fails leaves `switching` set for ever (or, for the
  preload, the started flag): the slot, or the board, never loads again, although
  the comment at `nam_hook.cpp:736` says that the switch in flight finishes.
  `Stranded` is this state, which both liveness properties except; what they show
  of it is that it strands only an instance that is unready or muted.
* A pedal beyond the eighth works on the last pedal's `ModelState`
  (`EachPedalItsOwnState` says when). Both then duck and load one instance, so
  that `NoHardCut` is promised only for boards with a slot per pedal.
* A change of model made while the pedal is bypassed waits in the fade-out until
  the pedal is engaged (`nam_hook.cpp:1210`), contrary to the comment at 1043:
  the fade advances only in the rendering code, which a bypassed block does not
  reach. `SettledKnobIsHeard` therefore speaks of pedals that are not bypassed.
* The cut of `library_blocks` also hits the models' own names
  (`nam_library.c:75`): a renamed model without ".nam" is seen neither by the
  organiser nor by the device again, and every model behind it sits one position
  below its index. `RankIsIndexLessSkipped` gives the exact shift,
  `RescanClosesGaps` says that the next scan moves up exactly the files behind
  such a name, and `HiddenNeedsAMishap` lists the cut among the ways to hide a
  model.
* The organiser counts every `.nam` file, the device only those it can build;
  behind a broken file every model is one position below its index and its block
  (`nam_library.h:35`). `RankIsIndexLessSkipped` gives the exact shift.
* An apply replaces a file that is no item of its plan without a word, when that
  file came to lie under a temporary or new name of the plan after the scan, or
  by an earlier crash or failed rollback. `AppliedAsPlanned` names the case.
* A shipped image is guaranteed to carry the right Evil binary, not the right
  launcher or libraries: `ShippedHijack` needs "no failed look-up, no lost flush"
  for these, and a stock file system without shared blocks and double entries,
  which the tool does not check. `CallsAnswered` shows that the device still
  works then, as a stock device.
* `nam_ext4_verify_basic` checks that owned blocks are marked, not the "vice
  versa" of `ext4_image.h:15-17`. A stock image in which a block of a file is not
  marked passes it after the injection has overwritten that file:
  `BystandersUntouched` asks for a sound stock image.
* An image that was already patched is refused. The branch of the launcher
  patch that renews an existing block is therefore of use only where the exec
  line is still the stock one.
* A `NULL` from `SDL_CreateThread` leaves RUNNING on the screen until the program
  is closed. Jobs that fail before the pipeline leave their working directory
  behind. A download that hangs ends with the program only.
* `stock_updater.exe` is written without a look at `fclose` (`main.c:246`). If the
  last buffer is lost, the 7z archive in front of the certificate still unpacks,
  and the shortened file is copied and reported as the unmodified updater
  (`main.c:573`). `StockCopyIsStock` has this as its one exception.
* The same lost `fclose` at `Update_nam.img` (`main.c:589`) ends in "Done!" on
  Linux although the image is not whole. `DoneIsThisRunsImage` excepts it on
  Linux and macOS; Windows reads its file back.
* `KeepStock` removes the recovery copy of an earlier run before it copies; when
  the copy fails there is none, and the job is still done. `StockCopyIsStock`
  promises a copy only where the log reports one.

## 7. What is not modelled

Sample arithmetic (resampling, trims, gain, ramps), denormal flags and niceness
have no effect on the control the properties speak of. `nam_process` and
`nam_process_naml` are earlier entry points the pipeline does not install. The
model assumes sequential consistency: the code's acquire and release orderings
are on exactly the flags that publish data. The knob's conversion from the raw
float is its rounded step. The folder scan of the preload happens at once; the
files it drops and the order it gives them are in `NamLibrary`. Of the organiser
the text of a block, the probing of mount points and the clash of two long names
that are cut to the same characters are left out.

Of the pipeline: machine code, extent trees, checksums of the file system, file
modes and times, the bytes of xz and SHA-1. Of the installer: the log, progress,
the error text and the buttons that open a file manager; quoting of command
lines; codesign beyond "its failure is only a warning"; the offsets of the PE
header. `AppShared` fields the UI reads outside the mutex (the selection) are
written by the UI thread only. The device's updater, shell, dynamic linker and
Evil itself are external and modelled by what the repository relies on.

Third-party code (miniz, nuklear, sha1), the build, CI and blob scripts and the
superseded Python patchers are left out; each has its entry and reason in
`PROJECT.json`. Four hazards have no property; each has a note there.

## 8. What could come next

1. An abstract specification of the folder (an apply either gives every item its
   name or changes nothing) that the organiser implements when nothing fails.
2. One of the whole way of an image (refused, or shipped with the requested
   pedals and nothing else changed) that `PatchedDevice` implements.
3. The hazards without a property: a promise for each that the code could keep
   after a change.
