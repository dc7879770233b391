-------------------------- MODULE InstallerProofs --------------------------
(***************************************************************************)
(* Proofs about the installer, for any number of jobs, devices, mishaps    *)
(* and starts of the program: it is well typed, its jobs never overlap,    *)
(* the mutex is destroyed after its last user, and the recovery copy is     *)
(* never the patched updater.                                              *)
(***************************************************************************)
EXTENDS Installer, TLAPS

-----------------------------------------------------------------------------
(* Type correctness.                                                       *)

LEMMA FirstWishType == FirstWish \in Wishes
BY PackagingAssumption DEF PackagingAssumption, FirstWish

LEMMA WishType ==
  ASSUME NEW j \in Wishes
  PROVE  j.model \in Models /\ Patched(j) \in Images
BY PackagingAssumption DEF PackagingAssumption, Images

LEMMA PathType ==
  ASSUME NEW m \in Models
  PROVE  PathOf(m) \in Models \cup {"Update_nam.img"}
BY DEF PathOf

LEMMA ImageTypes == Missing \in Images /\ Partial \in Images
BY DEF Images

LEMMA UpdaterTypes == NoUpdater \in Updaters /\ Torn \in Updaters
BY ImageTypes DEF NoUpdater, Torn, Updaters

LEMMA ParcelTypes ==
  ASSUME NEW m \in Models
  PROVE  Parcels(m) \subseteq Updaters
<1>1. Missing \in Images /\ Stock(m) \in Images
  BY DEF Images
<1>2. Vendor(m) \in Updaters
  BY <1>1 DEF Vendor, Updaters
<1>3. [Vendor(m) EXCEPT !.img = Missing] \in Updaters
  BY <1>1, <1>2 DEF Updaters
<1>4. [Vendor(m) EXCEPT !.rest = "short"] \in Updaters
  BY <1>2 DEF Updaters
<1> QED
  BY <1>2, <1>3, <1>4 DEF Parcels

(* A field may be replaced by a value of its type.                         *)
LEMMA UpdaterFields ==
  ASSUME NEW u \in Updaters
  PROVE  /\ \A i \in Images : [u EXCEPT !.img = i] \in Updaters
         /\ Stripped(u) \in Updaters
         /\ CutShort(u) \in Updaters
BY DEF Updaters, Stripped, CutShort

LEMMA DirFields ==
  ASSUME NEW d \in Dirs
  PROVE  /\ [d EXCEPT !.made = TRUE] \in Dirs
         /\ \A u \in Updaters : /\ [d EXCEPT !.payload = u] \in Dirs
                               /\ [d EXCEPT !.archive = u] \in Dirs
BY DEF Dirs

LEMMA NoDirType == NoDir \in Dirs
BY UpdaterTypes DEF NoDir, Dirs

(* What a job keeps on disk and in its own variables.                      *)
FileTypes ==
  /\ platform \in Platforms
  /\ pc \in [Workers -> Steps]
  /\ job \in [Workers -> Wishes]
  /\ parcel \in [Workers -> Updaters]
  /\ workdir \in [Workers -> Dirs]
  /\ output \in [Models \cup {"Update_nam.img"} -> Updaters]
  /\ recovery \in [Models -> [holds : Updaters, saved : BOOLEAN]]
  /\ mishaps \in [Workers -> SUBSET MishapKinds]

LEMMA GotoType ==
  ASSUME FileTypes, NEW w \in Workers, NEW s \in Steps, Goto(w, s)
  PROVE  pc' \in [Workers -> Steps]
BY DEF FileTypes, Goto

LEMMA DropsType ==
  ASSUME FileTypes, NEW w \in Workers, NEW k \in MishapKinds, Drops(w, k)
  PROVE  mishaps' \in [Workers -> SUBSET MishapKinds]
BY DEF FileTypes, Drops

LEMMA RemovesDirType ==
  ASSUME FileTypes, NEW w \in Workers, RemovesDir(w)
  PROVE  /\ workdir' \in [Workers -> Dirs]
         /\ mishaps' \in [Workers -> SUBSET MishapKinds]
BY DropsType, NoDirType DEF RemovesDir, FileTypes, Notices, MishapKinds

LEMMA FileStepTypes ==
  ASSUME FileTypes, NEW w \in Workers, FileStep(w)
  PROVE  FileTypes'
<1> DEFINE p == PathOf(job[w].model)
<1>1. /\ job[w] \in Wishes /\ job[w].model \in Models
      /\ p \in Models \cup {"Update_nam.img"}
      /\ Patched(job[w]) \in Images
  BY WishType, PathType DEF FileTypes
<1>2. /\ workdir[w] \in Dirs /\ workdir[w].stock \in Updaters
      /\ workdir[w].payload \in Updaters /\ workdir[w].archive \in Updaters
  BY DEF FileTypes, Dirs
<1>3. pc' \in [Workers -> Steps]
  <2>1. \E s \in Steps : Goto(w, s)
    BY DEF FileStep, MakeWorkdir, Unpack, RunPipeline, CopyBundle, PatchBundle, Restage,
           PatchPayload, MakeArchive, WriteUpdater, VerifyUpdater, WriteImage, KeepStock,
           Aborts, Discards, Steps
  <2> QED
    BY <2>1, GotoType
<1>4. mishaps' \in [Workers -> SUBSET MishapKinds]
  <2>1. Notices \/ Drops(w, "close") \/ Drops(w, "cut")
    BY DEF FileStep, MakeWorkdir, Unpack, RunPipeline, CopyBundle, PatchBundle, Restage,
           PatchPayload, MakeArchive, WriteUpdater, VerifyUpdater, WriteImage, KeepStock, Notices
  <2> QED
    BY <2>1, DropsType DEF Notices, FileTypes, MishapKinds
<1>5. platform' \in Platforms /\ job' \in [Workers -> Wishes]
  BY DEF FileTypes, FileStep, MakeWorkdir, Unpack, RunPipeline, CopyBundle, PatchBundle, Restage,
         PatchPayload, MakeArchive, WriteUpdater, VerifyUpdater, WriteImage, KeepStock
<1>6. parcel' \in [Workers -> Updaters]
  BY UpdaterTypes
  DEF FileTypes, FileStep, MakeWorkdir, Unpack, RunPipeline, CopyBundle, PatchBundle, Restage,
      PatchPayload, MakeArchive, WriteUpdater, VerifyUpdater, WriteImage, KeepStock
<1>7. workdir' \in [Workers -> Dirs]
  <2>1. CASE UNCHANGED workdir
    BY <2>1 DEF FileTypes
  <2>2. CASE MakeWorkdir(w)
    <3>1. [workdir[w] EXCEPT !.made = TRUE] \in Dirs
      BY <1>2, DirFields
    <3>2. \/ UNCHANGED workdir
          \/ workdir' = [workdir EXCEPT ![w] = [workdir[w] EXCEPT !.made = TRUE]]
      BY <2>2 DEF MakeWorkdir
    <3> QED
      BY <3>1, <3>2 DEF FileTypes
  <2>3. CASE Unpack(w)
    <3>1. \A u \in Updaters : Unpacked(w, u) \in Dirs
      BY <1>2 DEF Unpacked, Dirs
    <3>2. parcel[w] \in Updaters /\ CutShort(parcel[w]) \in Updaters
      BY UpdaterFields DEF FileTypes
    <3>3. UNCHANGED workdir \/ \E u \in Updaters : workdir' = [workdir EXCEPT ![w] = Unpacked(w, u)]
      BY <2>3, <3>2 DEF Unpack
    <3> QED
      BY <3>1, <3>3 DEF FileTypes
  <2>4. CASE Restage(w)
    <3>1. [workdir[w] EXCEPT !.payload = Stripped(workdir[w].stock)] \in Dirs
      BY <1>2, DirFields, UpdaterFields
    <3>2. \/ UNCHANGED workdir
          \/ workdir' = [workdir EXCEPT ![w] = [workdir[w] EXCEPT !.payload = Stripped(workdir[w].stock)]]
      BY <2>4 DEF Restage
    <3> QED
      BY <3>1, <3>2 DEF FileTypes
  <2>5. CASE PatchPayload(w)
    <3> DEFINE Filled(i) == [workdir[w] EXCEPT !.payload = [workdir[w].payload EXCEPT !.img = i]]
    <3>1. \A i \in Images : Filled(i) \in Dirs
      BY <1>2, DirFields, UpdaterFields
    <3>2. UNCHANGED workdir \/ \E i \in Images : workdir' = [workdir EXCEPT ![w] = Filled(i)]
      BY <1>1, <2>5, ImageTypes DEF PatchPayload
    <3> QED
      BY <3>1, <3>2 DEF FileTypes
  <2>6. CASE MakeArchive(w)
    BY <1>2, <2>6 DEF MakeArchive, FileTypes, Dirs
  <2> QED
    BY <2>1, <2>2, <2>3, <2>4, <2>5, <2>6
    DEF FileStep, RunPipeline, CopyBundle, PatchBundle, WriteUpdater, VerifyUpdater, WriteImage, KeepStock
<1>8. output' \in [Models \cup {"Update_nam.img"} -> Updaters]
  <2>1. CASE UNCHANGED output
    BY <2>1 DEF FileTypes
  <2>2. CASE CopyBundle(w)
    BY <1>1, <1>2, <2>2, UpdaterTypes DEF CopyBundle, FileTypes
  <2>3. CASE PatchBundle(w)
    <3>1. output[p] \in Updaters
      BY <1>1 DEF FileTypes
    <3>2. \E i \in Images : output' = [output EXCEPT ![p] = [output[p] EXCEPT !.img = i]]
      <4>1. output[p].img \in Images
        BY <3>1 DEF Updaters
      <4> QED
        BY <1>1, <2>3, <4>1, ImageTypes DEF PatchBundle
    <3> QED
      BY <1>1, <3>1, <3>2, UpdaterFields DEF FileTypes
  <2>4. CASE WriteUpdater(w)
    BY <1>1, <1>2, <2>4, UpdaterTypes DEF WriteUpdater, FileTypes
  <2>5. CASE WriteImage(w)
    <3>1. output[p] \in Updaters
      BY <1>1 DEF FileTypes
    <3>2. \E i \in Images : output' = [output EXCEPT ![p] = [output[p] EXCEPT !.img = i]]
      <4>1. output[p].img \in Images
        BY <3>1 DEF Updaters
      <4> QED
        BY <1>1, <2>5, <4>1, ImageTypes DEF WriteImage
    <3> QED
      BY <1>1, <3>1, <3>2, UpdaterFields DEF FileTypes
  <2> QED
    BY <2>1, <2>2, <2>3, <2>4, <2>5
    DEF FileStep, MakeWorkdir, Unpack, RunPipeline, Restage, PatchPayload, MakeArchive, VerifyUpdater, KeepStock
<1>9. recovery' \in [Models -> [holds : Updaters, saved : BOOLEAN]]
  <2>1. CASE UNCHANGED recovery
    BY <2>1 DEF FileTypes
  <2>2. CASE KeepStock(w)
    <3> DEFINE m == job[w].model
    <3>1. recovery[m] \in [holds : Updaters, saved : BOOLEAN]
      BY <1>1 DEF FileTypes
    <3>2. \E r \in [holds : Updaters, saved : BOOLEAN] : recovery' = [recovery EXCEPT ![m] = r]
      BY <1>2, <2>2, <3>1, UpdaterTypes DEF KeepStock
    <3> QED
      BY <1>1, <3>2 DEF FileTypes
  <2> QED
    BY <2>1, <2>2
    DEF FileStep, MakeWorkdir, Unpack, RunPipeline, CopyBundle, PatchBundle, Restage,
        PatchPayload, MakeArchive, WriteUpdater, VerifyUpdater, WriteImage
<1> QED
  BY <1>3, <1>4, <1>5, <1>6, <1>7, <1>8, <1>9 DEF FileTypes

(* Steps of a worker leave the variables of the UI thread alone.            *)
LEMMA WorkerTypes ==
  ASSUME TypeOK, NEW w \in Workers, Worker(w)
  PROVE  TypeOK'
<1>1. FileTypes /\ selected \in Wishes /\ cancel \in BOOLEAN
  BY DEF TypeOK, FileTypes
<1>2. CASE OnFiles(w)
  BY <1>1, <1>2, FileStepTypes DEF OnFiles, shared, uiVars, TypeOK, FileTypes
<1>3. CASE Begin(w)
  BY <1>1, <1>3, GotoType DEF Begin, shared, uiVars, TypeOK, FileTypes, Steps
<1>4. CASE NoticesCancel(w) \/ Report(w) \/ Finish(w)
  <2>1. Goto(w, "report") \/ Goto(w, "ended")
    BY <1>4 DEF NoticesCancel, Report, Finish, Aborts
  <2>2. pc' \in [Workers -> Steps]
    BY <1>1, <2>1, GotoType DEF Steps
  <2> QED
    BY <1>4, <2>2 DEF NoticesCancel, Report, Finish, shared, uiVars, TypeOK, States
<1>5. CASE DownloadEnds(w)
  <2>1. Goto(w, "report") \/ Goto(w, "workdir")
    BY <1>5 DEF DownloadEnds, Aborts
  <2>2. pc' \in [Workers -> Steps]
    BY <1>1, <2>1, GotoType DEF Steps
  <2>3. Parcels(job[w].model) \subseteq Updaters
    BY <1>1, WishType, ParcelTypes DEF FileTypes
  <2>4. parcel' \in [Workers -> Updaters]
    BY <1>1, <1>5, <2>3 DEF DownloadEnds, FileTypes
  <2> QED
    BY <1>5, <2>2, <2>4 DEF DownloadEnds, shared, uiVars, TypeOK
<1>6. CASE Discard(w) \/ RemoveWorkdir(w)
  <2>1. Goto(w, "report") \/ Goto(w, "finish")
    BY <1>6 DEF Discard, RemoveWorkdir
  <2>2. pc' \in [Workers -> Steps]
    BY <1>1, <2>1, GotoType DEF Steps
  <2>3. /\ workdir' \in [Workers -> Dirs]
        /\ mishaps' \in [Workers -> SUBSET MishapKinds]
    BY <1>1, <1>6, RemovesDirType DEF Discard, RemoveWorkdir
  <2> QED
    BY <1>6, <2>2, <2>3 DEF Discard, RemoveWorkdir, shared, uiVars, TypeOK
<1> QED
  BY <1>2, <1>3, <1>4, <1>5, <1>6 DEF Worker

LEMMA UITypes ==
  ASSUME TypeOK, UI \/ Relaunch
  PROVE  TypeOK'
<1>1. AsksToStop(handle) \in BOOLEAN /\ AsksToStop(handle') \in BOOLEAN
  BY DEF AsksToStop
<1>2. CASE Poll
  BY <1>2 DEF Poll, TypeOK, fileVars, shared, States
<1>3. CASE NoClick \/ Select \/ PrepareLibrary \/ BackToPick \/ TryAgain
  BY <1>1, <1>3 DEF NoClick, Select, PrepareLibrary, BackToPick, TryAgain, Click, NextFrame,
                    TypeOK, fileVars, States
<1>4. CASE Install
  <2>1. pc' \in [Workers -> Steps] /\ handle' \in Workers \cup {0}
    BY <1>4, GotoType DEF Install, TypeOK, FileTypes, Steps
  <2> QED
    BY <1>1, <1>4, <2>1 DEF Install, NextFrame, TypeOK, States
<1>5. CASE Leave
  BY <1>5 DEF Leave, TypeOK, fileVars, shared
<1>6. CASE Relaunch
  <2>1. launches' \in 1..MaxLaunches
    BY <1>6, InstallerAssumption DEF Relaunch, TypeOK, InstallerAssumption
  <2> QED
    BY <1>6, <2>1, FirstWishType DEF Relaunch, TypeOK, fileVars, States
<1> QED
  BY <1>2, <1>3, <1>4, <1>5, <1>6 DEF UI

(* Every reachable state of the installer is well typed.                   *)
THEOREM InstallerTypeCorrect == Spec => []TypeOK
<1>1. Init => TypeOK
  <2> SUFFICES ASSUME Init PROVE TypeOK
    OBVIOUS
  <2>1. /\ platform \in Platforms
        /\ pc \in [Workers -> Steps]
        /\ job \in [Workers -> Wishes]
        /\ mishaps \in [Workers -> SUBSET MishapKinds]
    BY FirstWishType DEF Init, PackagingInit, Steps
  <2>2. /\ parcel \in [Workers -> Updaters]
        /\ workdir \in [Workers -> Dirs]
        /\ output \in [Models \cup {"Update_nam.img"} -> Updaters]
        /\ recovery \in [Models -> [holds : Updaters, saved : BOOLEAN]]
    BY UpdaterTypes, NoDirType DEF Init, PackagingInit
  <2>3. launches \in 1..MaxLaunches
    BY InstallerAssumption DEF Init, InstallerAssumption
  <2> QED
    BY <2>1, <2>2, <2>3, FirstWishType DEF Init, TypeOK, States
<1>2. TypeOK /\ [Next]_vars => TypeOK'
  <2>1. CASE UNCHANGED vars
    BY <2>1 DEF vars, fileVars, shared, uiVars, TypeOK
  <2> QED
    BY <2>1, WorkerTypes, UITypes DEF Next
<1> QED
  BY <1>1, <1>2, PTL DEF Spec

-----------------------------------------------------------------------------
(* Jobs never overlap.                                                     *)

(* A frame that offers a button shows the state as it still is: only the    *)
(* worker changes it behind the UI's back, and only away from RUNNING.      *)
OneJob ==
  /\ OneActiveWorker
  /\ MutexOutlivesWorkers
  /\ ui = "draw" /\ seen # "RUNNING" => state = seen

(* What a step of a worker may do to the protocol: it goes on in RUNNING, or *)
(* says how it ended with its last step.                                    *)
LEMMA WorkerProtocol ==
  ASSUME TypeOK, NEW w \in Workers, Worker(w)
  PROVE  /\ Active(w)
         /\ \A v \in Workers \ {w} : pc'[v] = pc[v]
         /\ UNCHANGED uiVars
         /\ UNCHANGED state \/ pc'[w] = "ended"
<1>1. /\ Active(w) /\ UNCHANGED uiVars
      /\ \E s \in Steps : Goto(w, s)
      /\ UNCHANGED state \/ Goto(w, "ended")
  BY DEF Worker, Begin, NoticesCancel, DownloadEnds, OnFiles, Discard, Report, RemoveWorkdir, Finish,
         FileStep, MakeWorkdir, Unpack, RunPipeline, CopyBundle, PatchBundle, Restage, PatchPayload,
         MakeArchive, WriteUpdater, VerifyUpdater, WriteImage, KeepStock,
         Aborts, Discards, At, Active, Steps, shared, uiVars
<1> QED
  BY <1>1 DEF Goto, TypeOK

LEMMA OneJobStep == TypeOK /\ OneJob /\ [Next]_vars => OneJob'
<1> SUFFICES ASSUME TypeOK, OneJob, [Next]_vars PROVE OneJob'
  OBVIOUS
<1>1. ASSUME NEW w \in Workers, Worker(w) PROVE OneJob'
  <2>1. w = handle /\ state = "RUNNING" /\ ui # "gone"
    BY <1>1, WorkerProtocol DEF OneJob, OneActiveWorker, MutexOutlivesWorkers
  <2>2. \A v \in Workers \ {w} : ~Active(v)
    BY <2>1 DEF OneJob, OneActiveWorker
  <2>3. OneActiveWorker'
    BY <1>1, <2>1, <2>2, WorkerProtocol DEF OneActiveWorker, Active, uiVars
  <2>4. ui' # "gone" /\ ~(ui' = "draw" /\ seen' # "RUNNING")
    BY <1>1, <2>1, WorkerProtocol DEF OneJob, uiVars
  <2> QED
    BY <2>3, <2>4 DEF OneJob, MutexOutlivesWorkers
<1>2. CASE Poll
  BY <1>2 DEF Poll, fileVars, shared, OneJob, OneActiveWorker, MutexOutlivesWorkers, Active
<1>3. CASE NoClick \/ Select
  BY <1>3 DEF NoClick, Select, NextFrame, fileVars, OneJob, OneActiveWorker, MutexOutlivesWorkers, Active
<1>4. CASE PrepareLibrary \/ BackToPick \/ TryAgain
  <2>1. \A w \in Workers : ~Active(w)
    BY <1>4 DEF PrepareLibrary, BackToPick, TryAgain, Click, Drawing, OneJob, OneActiveWorker
  <2> QED
    BY <1>4, <2>1 DEF PrepareLibrary, BackToPick, TryAgain, Click, NextFrame, fileVars,
                      OneJob, OneActiveWorker, MutexOutlivesWorkers, Active
<1>5. CASE Install
  <2>1. \A w \in Workers : ~Active(w)
    BY <1>5 DEF Install, Drawing, OneJob, OneActiveWorker
  <2>2. /\ state' = "RUNNING" /\ ui' \in {"poll", "wait"}
        /\ \A w \in Workers : w # handle' => pc'[w] = pc[w]
    BY <1>5 DEF Install, NextFrame, Goto, TypeOK
  <2>3. handle' = 0 => UNCHANGED pc
    BY <1>5, PackagingAssumption DEF Install, PackagingAssumption
  <2>4. OneActiveWorker'
    BY <2>1, <2>2, <2>3 DEF OneActiveWorker, Active
  <2> QED
    BY <2>2, <2>4 DEF OneJob, MutexOutlivesWorkers
<1>6. CASE Leave
  <2>1. \A w \in Workers : ~Active(w)
    BY <1>6 DEF Leave, MayLeave, At, OneJob, OneActiveWorker, Active
  <2> QED
    BY <1>6, <2>1 DEF Leave, fileVars, OneJob, OneActiveWorker, MutexOutlivesWorkers, Active
<1>7. CASE Relaunch
  BY <1>7 DEF Relaunch, fileVars, OneJob, OneActiveWorker, MutexOutlivesWorkers, Active
<1>8. CASE UNCHANGED vars
  BY <1>8 DEF vars, fileVars, shared, uiVars, OneJob, OneActiveWorker, MutexOutlivesWorkers, Active
<1> QED
  BY <1>1, <1>2, <1>3, <1>4, <1>5, <1>6, <1>7, <1>8 DEF Next, UI

LEMMA OneJobAlways == Spec => []OneJob
<1>1. Init => OneJob
  BY DEF Init, PackagingInit, OneJob, OneActiveWorker, MutexOutlivesWorkers, Active
<1> QED
  BY <1>1, OneJobStep, InstallerTypeCorrect, PTL DEF Spec

(* Whatever the user clicks and however jobs end, at most one worker touches *)
(* the shared state and the files, and the screen says RUNNING meanwhile.   *)
THEOREM JobsNeverOverlap == Spec => []OneActiveWorker
BY OneJobAlways, PTL DEF OneJob

(* The mutex is destroyed after the last thread that locks it.             *)
THEOREM MutexIsDestroyedLast == Spec => []MutexOutlivesWorkers
BY OneJobAlways, PTL DEF OneJob

-----------------------------------------------------------------------------
(* The recovery copy.                                                      *)

(* From the unpacking on a job holds the updater it has downloaded, whose    *)
(* image was there, and never writes to it; on Windows its end may be lost.  *)
BeforeUnpacked == {"idle", "begin", "download", "workdir", "unpack"}
Unpacking == {"pipeline", "package", "patch", "archive", "write", "verify", "keep"}

OwnCopy(w) ==
  LET m == job[w].model IN
  \/ workdir[w].stock \in Unpackable(m)
  \/ /\ platform = "win" /\ "cut" \in mishaps[w]
     /\ \E u \in Unpackable(m) : workdir[w].stock = CutShort(u)

SourceOf(w) ==
  /\ pc[w] \in {"workdir", "unpack"} => parcel[w] \in Parcels(job[w].model)
  /\ pc[w] \in BeforeUnpacked => "cut" \notin mishaps[w]
  /\ pc[w] \in Unpacking /\ platform # "linux" => OwnCopy(w)
  /\ pc[w] = "keep" => platform # "linux"

Sources == \A w \in Workers : SourceOf(w)

(* What a step of w leaves to the others.                                  *)
LEMMA OthersKept ==
  ASSUME TypeOK, NEW w \in Workers, Worker(w), NEW v \in Workers \ {w}
  PROVE  /\ pc'[v] = pc[v] /\ job'[v] = job[v] /\ parcel'[v] = parcel[v]
         /\ workdir'[v] = workdir[v] /\ mishaps'[v] = mishaps[v]
         /\ platform' = platform /\ selected' = selected
<1>1. pc'[v] = pc[v]
  BY WorkerProtocol
<1>2. job'[v] = job[v] /\ platform' = platform /\ selected' = selected
  BY DEF Worker, Begin, NoticesCancel, DownloadEnds, OnFiles, Discard, Report, RemoveWorkdir, Finish,
         FileStep, MakeWorkdir, Unpack, RunPipeline, CopyBundle, PatchBundle, Restage, PatchPayload,
         MakeArchive, WriteUpdater, VerifyUpdater, WriteImage, KeepStock, shared, TypeOK
<1>3. parcel'[v] = parcel[v] /\ workdir'[v] = workdir[v] /\ mishaps'[v] = mishaps[v]
  BY DEF Worker, Begin, NoticesCancel, DownloadEnds, OnFiles, Discard, Report, RemoveWorkdir, Finish,
         FileStep, MakeWorkdir, Unpack, RunPipeline, CopyBundle, PatchBundle, Restage, PatchPayload,
         MakeArchive, WriteUpdater, VerifyUpdater, WriteImage, KeepStock,
         RemovesDir, Drops, Notices, TypeOK
<1> QED
  BY <1>1, <1>2, <1>3

LEMMA SourceOfStep ==
  ASSUME TypeOK, NEW w \in Workers, Worker(w), SourceOf(w)
  PROVE  SourceOf(w)'
<1> DEFINE Kept == UNCHANGED <<platform, job>> /\ workdir'[w].stock = workdir[w].stock
<1>1. /\ pc \in [Workers -> Steps] /\ parcel \in [Workers -> Updaters] /\ workdir \in [Workers -> Dirs]
      /\ mishaps \in [Workers -> SUBSET MishapKinds]
  BY DEF TypeOK
<1>2. ASSUME pc'[w] \in {"report", "discard", "finish", "cleanup", "ended"}
      PROVE  SourceOf(w)'
  BY <1>2 DEF SourceOf, BeforeUnpacked, Unpacking
<1>3. CASE Begin(w)
  BY <1>1, <1>3 DEF Begin, At, Goto, SourceOf, BeforeUnpacked, Unpacking
<1>4. CASE DownloadEnds(w) \/ MakeWorkdir(w)
  BY <1>1, <1>2, <1>4
  DEF DownloadEnds, MakeWorkdir, At, Goto, Aborts, SourceOf, BeforeUnpacked, Unpacking
<1>5. CASE Unpack(w)
  <2>1. CASE pc'[w] = "report"
    BY <1>2, <2>1
  <2>2. CASE pc'[w] = "pipeline"
    <3>1. parcel[w] \in Unpackable(job[w].model) /\ UNCHANGED <<platform, job>>
      BY <1>1, <1>5, <2>2 DEF Unpack, At, Aborts, Goto, SourceOf, Unpackable
    <3>2. ASSUME platform # "linux", NEW u PROVE Unpacked(w, u).stock = u
      BY <1>1, <3>2, PackagingAssumption DEF Unpacked, Dirs, TypeOK, PackagingAssumption
    <3>3. CASE workdir' = [workdir EXCEPT ![w] = Unpacked(w, parcel[w])]
      <4>1. workdir'[w] = Unpacked(w, parcel[w])
        BY <1>1, <3>3
      <4>2. platform # "linux" => workdir'[w].stock = parcel[w]
        BY <3>2, <4>1
      <4> QED
        BY <2>2, <3>1, <4>2 DEF SourceOf, OwnCopy, BeforeUnpacked, Unpacking, Unpackable, Parcels, Vendor, Stock
    <3>4. CASE /\ platform = "win" /\ Drops(w, "cut")
               /\ workdir' = [workdir EXCEPT ![w] = Unpacked(w, CutShort(parcel[w]))]
      <4>1. workdir'[w] = Unpacked(w, CutShort(parcel[w])) /\ "cut" \in mishaps'[w]
        BY <1>1, <3>4 DEF Drops
      <4>2. workdir'[w].stock = CutShort(parcel[w])
        BY <3>2, <3>4, <4>1
      <4> QED
        BY <2>2, <3>1, <3>4, <4>1, <4>2
        DEF SourceOf, OwnCopy, BeforeUnpacked, Unpacking, Unpackable, Parcels, Vendor, Stock, CutShort
    <3> QED
      BY <1>1, <1>5, <2>2, <3>3, <3>4 DEF Unpack, Aborts, Goto
  <2> QED
    BY <1>1, <1>5, <2>1, <2>2 DEF Unpack, Aborts, Goto
<1>6. ASSUME pc[w] \in Unpacking, pc'[w] \in Unpacking, Kept,
             "cut" \in mishaps[w] => "cut" \in mishaps'[w],
             pc'[w] = "keep" => platform # "linux"
      PROVE  SourceOf(w)'
  BY <1>6 DEF SourceOf, OwnCopy, BeforeUnpacked, Unpacking, Unpackable, Parcels, Vendor, Stock, CutShort
<1>7. CASE RunPipeline(w)
  BY <1>1, <1>2, <1>6, <1>7 DEF RunPipeline, Goto, Discards, At, Unpacking
<1>8. CASE CopyBundle(w) \/ PatchBundle(w) \/ VerifyUpdater(w) \/ WriteUpdater(w) \/ WriteImage(w)
  <2>1. "cut" \in mishaps[w] => "cut" \in mishaps'[w]
    BY <1>1, <1>8 DEF CopyBundle, PatchBundle, VerifyUpdater, WriteUpdater, WriteImage, Drops, Notices
  <2> QED
    BY <1>1, <1>2, <1>6, <1>8, <2>1
    DEF CopyBundle, PatchBundle, VerifyUpdater, WriteUpdater, WriteImage, Goto, Discards, At, Unpacking
<1>9. CASE Restage(w) \/ PatchPayload(w) \/ MakeArchive(w)
  <2>1. workdir'[w].stock = workdir[w].stock
    BY <1>1, <1>9 DEF Restage, PatchPayload, MakeArchive, Dirs
  <2>2. "cut" \in mishaps[w] => "cut" \in mishaps'[w]
    BY <1>1, <1>9 DEF Restage, PatchPayload, MakeArchive, Drops, Notices
  <2> QED
    BY <1>1, <1>2, <1>6, <1>9, <2>1, <2>2
    DEF Restage, PatchPayload, MakeArchive, Goto, Discards, At, Unpacking
<1>10. CASE NoticesCancel(w) \/ Discard(w) \/ Report(w) \/ RemoveWorkdir(w) \/ Finish(w) \/ KeepStock(w)
  BY <1>1, <1>2, <1>10
  DEF NoticesCancel, Discard, Report, RemoveWorkdir, Finish, KeepStock, Goto, Aborts
<1> QED
  BY <1>3, <1>4, <1>5, <1>7, <1>8, <1>9, <1>10 DEF Worker, OnFiles, FileStep

(* A job that has lost the end of an updater stays on the record.           *)
LEMMA CutForStays ==
  ASSUME TypeOK, NEW w \in Workers, Worker(w), SourceOf(w), NEW m \in Models, CutFor(m)
  PROVE  CutFor(m)'
<1>1. PICK v \in Workers : job[v].model = m /\ "cut" \in mishaps[v]
  BY DEF CutFor
<1>2. CASE v # w
  BY <1>1, <1>2, OthersKept DEF CutFor
<1>3. CASE v = w
  <2>1. job'[w] = job[w]
    BY <1>1, <1>3
    DEF SourceOf, BeforeUnpacked, Worker, Begin, NoticesCancel, DownloadEnds, OnFiles, Discard, Report,
        RemoveWorkdir, Finish, At, FileStep, MakeWorkdir, Unpack, RunPipeline, CopyBundle, PatchBundle,
        Restage, PatchPayload, MakeArchive, WriteUpdater, VerifyUpdater, WriteImage, KeepStock
  <2>2. "cut" \in mishaps'[w]
    BY <1>1, <1>3
    DEF TypeOK, Worker, Begin, NoticesCancel, DownloadEnds, OnFiles, Discard, Report, RemoveWorkdir,
        Finish, FileStep, MakeWorkdir, Unpack, RunPipeline, CopyBundle, PatchBundle, Restage,
        PatchPayload, MakeArchive, WriteUpdater, VerifyUpdater, WriteImage, KeepStock, RemovesDir,
        Drops, Notices
  <2> QED
    BY <1>1, <1>3, <2>1, <2>2 DEF CutFor
<1> QED
  BY <1>2, <1>3

(* A device's recovery copy is kept, or keeps no more than its image.       *)
KeptWell(m) ==
  /\ recovery[m].holds.img \in {Missing, Partial, Stock(m)}
  /\ recovery[m].saved =>
       \/ recovery[m].holds \in Unpackable(m)
       \/ /\ platform = "win" /\ CutFor(m)
          /\ \E u \in Unpackable(m) : recovery[m].holds = CutShort(u)

LEMMA KeptWellStays ==
  ASSUME TypeOK, NEW w \in Workers, Worker(w), SourceOf(w), NEW m \in Models, KeptWell(m),
         recovery'[m] = recovery[m]
  PROVE  KeptWell(m)'
<1>1. platform' = platform
  BY DEF Worker, Begin, NoticesCancel, DownloadEnds, OnFiles, Discard, Report, RemoveWorkdir, Finish,
         FileStep, MakeWorkdir, Unpack, RunPipeline, CopyBundle, PatchBundle, Restage, PatchPayload,
         MakeArchive, WriteUpdater, VerifyUpdater, WriteImage, KeepStock
<1>2. CutFor(m) => CutFor(m)'
  BY CutForStays
<1> QED
  BY <1>1, <1>2 DEF KeptWell, Unpackable, Parcels, Vendor, Stock, CutShort, Missing, Partial

(* Only a worker's KeepStock writes a recovery copy, of its own device.      *)
LEMMA RecoveryStep ==
  ASSUME TypeOK, NEW w \in Workers, Worker(w), SourceOf(w), StockCopyIsStock
  PROVE  StockCopyIsStock'
<1>1. \A m \in Models : KeptWell(m)
  BY DEF StockCopyIsStock, KeptWell
<1>2. ASSUME NEW n \in Models PROVE KeptWell(n)'
  <2>1. CASE recovery'[n] = recovery[n]
    BY <1>1, <2>1, KeptWellStays
  <2>2. CASE KeepStock(w) /\ n = job[w].model
    <3> DEFINE u == workdir[w].stock
    <3>1. recovery \in [Models -> [holds : Updaters, saved : BOOLEAN]] /\ UNCHANGED <<platform, job, mishaps>>
      BY <2>2 DEF TypeOK, KeepStock
    <3>2. OwnCopy(w)
      BY <2>2 DEF KeepStock, At, SourceOf, Unpacking
    <3>3. \A v \in Unpackable(n) : v.img = Stock(n) /\ CutShort(v).img = Stock(n)
      BY DEF Unpackable, Parcels, Vendor, CutShort
    <3>4. u.img = Stock(n)
      BY <2>2, <3>2, <3>3 DEF OwnCopy
    <3>5. NoUpdater.img = Missing /\ Torn.img = Partial
      BY DEF NoUpdater, Torn
    <3>6. \/ recovery'[n] = [holds |-> u, saved |-> TRUE]
          \/ \E left \in {recovery[n].holds, NoUpdater, Torn} :
               recovery'[n] = [holds |-> left, saved |-> FALSE]
      BY <2>2, <3>1 DEF KeepStock
    <3>7. CASE recovery'[n] = [holds |-> u, saved |-> TRUE]
      <4>1. recovery'[n].holds = u
        BY <3>7
      <4>2. u \in Unpackable(n) \/ (platform = "win" /\ CutFor(n) /\ \E v \in Unpackable(n) : u = CutShort(v))
        BY <2>2, <3>2 DEF OwnCopy, CutFor
      <4>3. CutFor(n) => CutFor(n)'
        BY <3>1 DEF CutFor
      <4> QED
        BY <3>1, <3>4, <4>1, <4>2, <4>3 DEF KeptWell, Unpackable, Parcels, Vendor, Stock, CutShort
    <3>8. CASE \E left \in {recovery[n].holds, NoUpdater, Torn} :
                 recovery'[n] = [holds |-> left, saved |-> FALSE]
      BY <1>1, <3>5, <3>8 DEF KeptWell, Stock, Missing, Partial
    <3> QED
      BY <3>6, <3>7, <3>8
  <2>3. CASE KeepStock(w) /\ n # job[w].model
    <3>1. recovery'[n] = recovery[n]
      BY <2>3 DEF KeepStock, TypeOK
    <3> QED
      BY <2>1, <3>1
  <2> QED
    BY <2>1, <2>2, <2>3
    DEF Worker, Begin, NoticesCancel, DownloadEnds, OnFiles, Discard, Report, RemoveWorkdir, Finish,
        FileStep, MakeWorkdir, Unpack, RunPipeline, CopyBundle, PatchBundle, Restage, PatchPayload,
        MakeArchive, WriteUpdater, VerifyUpdater, WriteImage
<1> QED
  BY <1>2 DEF StockCopyIsStock, KeptWell

(* The UI thread writes no file, and starts a worker at its first step.     *)
LEMMA UIKeepsFiles ==
  ASSUME TypeOK, UI \/ Relaunch \/ UNCHANGED vars
  PROVE  /\ UNCHANGED <<platform, job, parcel, workdir, output, recovery, mishaps>>
         /\ \A w \in Workers : pc'[w] = pc[w] \/ (pc[w] = "idle" /\ pc'[w] = "begin")
<1>1. CASE Install
  BY <1>1 DEF Install, Goto, At, TypeOK
<1>2. CASE UNCHANGED fileVars
  BY <1>2 DEF fileVars
<1> QED
  BY <1>1, <1>2
  DEF UI, Poll, NoClick, Select, PrepareLibrary, BackToPick, TryAgain, Click, Leave, Relaunch, vars

(* Whatever step of whatever job failed, the recovery copy is never the      *)
(* patched updater: the bundle it is copied from is never the one that is    *)
(* patched.  One reported saved is the vendor's; its end can be missing only *)
(* on Windows, after an fclose that failed unseen in a job for the device.   *)
THEOREM RecoveryCopyIsStock == Spec => []StockCopyIsStock
<1> DEFINE Inv == Sources /\ StockCopyIsStock
<1>1. Init => Inv
  BY DEF Init, PackagingInit, Sources, SourceOf, BeforeUnpacked, Unpacking, StockCopyIsStock, NoUpdater
<1>2. TypeOK /\ Inv /\ [Next]_vars => Inv'
  <2> SUFFICES ASSUME TypeOK, Sources, StockCopyIsStock, [Next]_vars
               PROVE  Sources' /\ StockCopyIsStock'
    OBVIOUS
  <2>1. ASSUME NEW w \in Workers, Worker(w) PROVE Sources' /\ StockCopyIsStock'
    <3>1. SourceOf(w)'
      BY <2>1, SourceOfStep DEF Sources
    <3>2. ASSUME NEW v \in Workers \ {w} PROVE SourceOf(v)'
      BY <2>1, <3>2, OthersKept DEF Sources, SourceOf, OwnCopy
    <3> QED
      BY <2>1, <3>1, <3>2, RecoveryStep DEF Sources
  <2>2. CASE UI \/ Relaunch \/ UNCHANGED vars
    <3>1. /\ UNCHANGED <<platform, job, parcel, workdir, recovery, mishaps>>
          /\ \A w \in Workers : pc'[w] = pc[w] \/ (pc[w] = "idle" /\ pc'[w] = "begin")
      BY <2>2, UIKeepsFiles
    <3>2. ASSUME NEW w \in Workers PROVE SourceOf(w)'
      <4>1. SourceOf(w) /\ (pc'[w] = pc[w] \/ (pc[w] = "idle" /\ pc'[w] = "begin"))
        BY <3>1 DEF Sources
      <4> QED
        BY <3>1, <4>1
        DEF SourceOf, OwnCopy, BeforeUnpacked, Unpacking, Unpackable, Parcels, Vendor, Stock, CutShort
    <3>3. StockCopyIsStock'
      BY <3>1 DEF StockCopyIsStock, CutFor, Unpackable, Parcels, Vendor, Stock, CutShort, Missing, Partial
    <3> QED
      BY <3>2, <3>3 DEF Sources
  <2> QED
    BY <2>1, <2>2 DEF Next
<1> QED
  BY <1>1, <1>2, InstallerTypeCorrect, PTL DEF Spec

-----------------------------------------------------------------------------
(* What "Done!" means.                                                     *)

Shipped(w) == output[PathOf(job[w].model)]

Delivered(w) ==
  \/ /\ Shipped(w).img = Patched(job[w])
     /\ platform = "win" => Shipped(w).rest = "stock" /\ Shipped(w).cert = "none"
  \/ platform # "win" /\ "close" \in mishaps[w]

(* On Windows the payload is complete and the archive unsigned on the way to *)
(* the output file, which passes the round trip only if it is that archive. *)
DeliveryOf(w) ==
  /\ platform = "win" /\ pc[w] \in {"patch", "archive", "write", "verify"} =>
       workdir[w].payload.rest = "stock" /\ workdir[w].payload.cert = "none"
  /\ platform = "win" /\ pc[w] \in {"write", "verify"} => workdir[w].archive.cert = "none"
  /\ platform = "win" /\ pc[w] = "verify" => Shipped(w) = Torn \/ Shipped(w).cert = "none"
  /\ pc[w] \in {"keep", "cleanup", "finish"} => Delivered(w)

Chosen(w) == Active(w) /\ pc[w] # "begin" => job[w] = selected

Delivery ==
  /\ \A w \in Workers : DeliveryOf(w) /\ Chosen(w)
  /\ state = "DONE" => handle \in Workers /\ job[handle] = selected /\ Delivered(handle)

LEMMA DeliveryOfStep ==
  ASSUME TypeOK, NEW w \in Workers, Worker(w), DeliveryOf(w)
  PROVE  DeliveryOf(w)'
<1> DEFINE p == PathOf(job[w].model)
<1>1. /\ pc \in [Workers -> Steps] /\ workdir \in [Workers -> Dirs]
      /\ workdir[w] \in Dirs /\ workdir[w].payload \in Updaters
      /\ output \in [Models \cup {"Update_nam.img"} -> Updaters]
      /\ p \in Models \cup {"Update_nam.img"} /\ output[p] \in Updaters
      /\ mishaps \in [Workers -> SUBSET MishapKinds]
  BY WishType, PathType DEF TypeOK, Dirs
<1>2. ASSUME pc'[w] \in {"download", "workdir", "unpack", "pipeline", "package", "discard", "report", "ended"}
      PROVE  DeliveryOf(w)'
  BY <1>2 DEF DeliveryOf
<1>3. CASE \/ Begin(w) \/ NoticesCancel(w) \/ DownloadEnds(w) \/ MakeWorkdir(w) \/ Unpack(w)
           \/ Discard(w) \/ Report(w) \/ Finish(w)
  BY <1>1, <1>2, <1>3 DEF Begin, NoticesCancel, DownloadEnds, MakeWorkdir, Unpack, Discard, Report,
                          Finish, Goto, Aborts
<1>4. CASE RunPipeline(w)
  <2>1. ASSUME pc'[w] = "write" PROVE platform' = "linux"
    BY <1>1, <1>4, <2>1 DEF RunPipeline, Goto, Discards
  <2> QED
    BY <1>1, <1>2, <1>4, <2>1 DEF RunPipeline, Goto, Discards, DeliveryOf
<1>5. CASE CopyBundle(w)
  BY <1>1, <1>2, <1>5 DEF CopyBundle, Goto, Discards, DeliveryOf
<1>6. CASE PatchBundle(w) \/ WriteImage(w)
  <2>1. CASE pc'[w] = "discard"
    BY <1>2, <2>1
  <2>2. CASE pc'[w] \in {"keep", "cleanup"}
    <3>1. platform # "win" /\ UNCHANGED <<platform, job>>
      BY <1>6 DEF PatchBundle, WriteImage
    <3>2. \/ output' = [output EXCEPT ![p] = [output[p] EXCEPT !.img = Patched(job[w])]]
          \/ mishaps' = [mishaps EXCEPT ![w] = @ \cup {"close"}]
      BY <1>1, <1>6, <2>2 DEF PatchBundle, WriteImage, Drops, Goto, Discards
    <3>3. Shipped(w)' = output'[p]
      BY <3>1 DEF Shipped, PathOf
    <3>4. Patched(job[w])' = Patched(job[w])
      BY <3>1 DEF Patched
    <3>5. output'[p].img = Patched(job[w]) \/ "close" \in mishaps'[w]
      <4>1. CASE output' = [output EXCEPT ![p] = [output[p] EXCEPT !.img = Patched(job[w])]]
        BY <1>1, <4>1 DEF Updaters
      <4>2. CASE mishaps' = [mishaps EXCEPT ![w] = @ \cup {"close"}]
        BY <1>1, <4>2
      <4> QED
        BY <3>2, <4>1, <4>2
    <3>6. Delivered(w)'
      BY <3>1, <3>3, <3>4, <3>5 DEF Delivered
    <3> QED
      BY <2>2, <3>6 DEF DeliveryOf
  <2> QED
    BY <1>1, <1>6, <2>1, <2>2 DEF PatchBundle, WriteImage, Goto, Discards
<1>7. CASE Restage(w)
  <2>1. CASE pc'[w] = "discard"
    BY <1>2, <2>1
  <2>2. CASE pc'[w] = "patch"
    <3>1. /\ workdir[w].stock \in Updaters /\ workdir[w].stock.rest = "stock"
          /\ workdir' = [workdir EXCEPT ![w].payload = Stripped(workdir[w].stock)]
      BY <1>1, <1>7, <2>2 DEF Restage, Goto, Discards, HasExpectedEntries, Dirs
    <3>2. workdir'[w].payload = Stripped(workdir[w].stock)
      BY <1>1, <3>1 DEF Dirs
    <3>3. workdir'[w].payload.rest = "stock" /\ workdir'[w].payload.cert = "none"
      BY <3>1, <3>2 DEF Stripped, Updaters
    <3> QED
      BY <2>2, <3>3 DEF DeliveryOf
  <2> QED
    BY <1>1, <1>7, <2>1, <2>2 DEF Restage, Goto, Discards
<1>8. CASE PatchPayload(w)
  <2>1. CASE pc'[w] = "discard"
    BY <1>2, <2>1
  <2>2. CASE pc'[w] = "archive"
    <3>1. \E i : workdir' = [workdir EXCEPT ![w].payload.img = i]
      BY <1>1, <1>8, <2>2 DEF PatchPayload, Goto, Discards
    <3>2. /\ workdir'[w].payload.rest = workdir[w].payload.rest
          /\ workdir'[w].payload.cert = workdir[w].payload.cert
      BY <1>1, <3>1 DEF Dirs, Updaters
    <3> QED
      BY <1>8, <2>2, <3>2 DEF PatchPayload, At, DeliveryOf
  <2> QED
    BY <1>1, <1>8, <2>1, <2>2 DEF PatchPayload, Goto, Discards
<1>9. CASE MakeArchive(w)
  <2>1. CASE pc'[w] = "discard"
    BY <1>2, <2>1
  <2>2. CASE pc'[w] = "write"
    <3>1. workdir' = [workdir EXCEPT ![w].archive = workdir[w].payload]
      BY <1>1, <1>9, <2>2 DEF MakeArchive, Goto, Discards
    <3>2. workdir'[w].payload = workdir[w].payload /\ workdir'[w].archive = workdir[w].payload
      BY <1>1, <3>1 DEF Dirs
    <3> QED
      BY <1>9, <2>2, <3>2 DEF MakeArchive, At, DeliveryOf
  <2> QED
    BY <1>1, <1>9, <2>1, <2>2 DEF MakeArchive, Goto, Discards
<1>10. CASE WriteUpdater(w)
  <2>1. CASE pc'[w] = "discard"
    BY <1>2, <2>1
  <2>2. CASE pc'[w] = "verify"
    <3>1. output'[p] = workdir[w].archive \/ output'[p] = Torn
      BY <1>1, <1>10, <2>2 DEF WriteUpdater, Goto, Discards
    <3>2. Shipped(w)' = output'[p]
      BY <1>10 DEF WriteUpdater, Shipped, PathOf
    <3> QED
      BY <1>10, <2>2, <3>1, <3>2 DEF WriteUpdater, At, DeliveryOf
  <2> QED
    BY <1>1, <1>10, <2>1, <2>2 DEF WriteUpdater, Goto, Discards
<1>11. CASE VerifyUpdater(w)
  <2>1. CASE pc'[w] = "discard"
    BY <1>2, <2>1
  <2>2. CASE pc'[w] = "keep"
    <3>1. platform = "win" /\ RoundTrips(w, Shipped(w))
      BY <1>1, <1>11, <2>2 DEF VerifyUpdater, Goto, Discards, PassesRoundTrip, Shipped
    <3>2. /\ Shipped(w).img = Patched(job[w])
          /\ Shipped(w).rest = "stock" /\ Shipped(w).cert = "none"
      BY <1>11, <3>1 DEF VerifyUpdater, At, DeliveryOf, RoundTrips
    <3>3. Shipped(w)' = Shipped(w) /\ UNCHANGED <<platform, job, mishaps>>
      BY <1>11 DEF VerifyUpdater, Shipped, PathOf
    <3>4. Delivered(w)'
      BY <3>1, <3>2, <3>3 DEF Delivered, Patched
    <3> QED
      BY <2>2, <3>4 DEF DeliveryOf
  <2> QED
    BY <1>1, <1>11, <2>1, <2>2 DEF VerifyUpdater, Goto, Discards
<1>12. CASE KeepStock(w) \/ RemoveWorkdir(w)
  <2>1. /\ UNCHANGED <<platform, job, output>> /\ Shipped(w)' = Shipped(w)
        /\ "close" \in mishaps[w] => "close" \in mishaps'[w]
    BY <1>1, <1>12 DEF KeepStock, RemoveWorkdir, RemovesDir, Drops, Notices, Shipped, PathOf
  <2>2. pc'[w] \in {"cleanup", "finish"} /\ pc[w] \in {"keep", "cleanup"}
    BY <1>1, <1>12 DEF KeepStock, RemoveWorkdir, Goto, At
  <2>3. Delivered(w)'
    BY <2>1, <2>2 DEF DeliveryOf, Delivered, Patched
  <2> QED
    BY <2>2, <2>3 DEF DeliveryOf
<1> QED
  BY <1>3, <1>4, <1>5, <1>6, <1>7, <1>8, <1>9, <1>10, <1>11, <1>12 DEF Worker, OnFiles, FileStep

LEMMA ChosenStep ==
  ASSUME TypeOK, NEW w \in Workers, Worker(w), Chosen(w)
  PROVE  Chosen(w)'
<1>1. Active(w) /\ UNCHANGED selected
  BY WorkerProtocol
  DEF Worker, Begin, NoticesCancel, DownloadEnds, OnFiles, Discard, Report, RemoveWorkdir, Finish, shared
<1>2. CASE Begin(w)
  BY <1>1, <1>2 DEF Begin, Chosen, TypeOK
<1>3. CASE ~Begin(w)
  <2>1. job'[w] = job[w] /\ pc[w] # "begin"
    BY <1>3
    DEF Worker, NoticesCancel, DownloadEnds, OnFiles, Discard, Report, RemoveWorkdir, Finish, At,
        FileStep, MakeWorkdir, Unpack, RunPipeline, CopyBundle, PatchBundle, Restage, PatchPayload,
        MakeArchive, WriteUpdater, VerifyUpdater, WriteImage, KeepStock
  <2> QED
    BY <1>1, <2>1 DEF Chosen
<1> QED
  BY <1>2, <1>3

(* "Done!" is said only of a file that holds the image made for the selected *)
(* device and instances, on Windows complete and unsigned; elsewhere only an *)
(* fclose that failed unseen can make it otherwise.                         *)
THEOREM DoneMeansDelivered == Spec => []DoneIsThisRunsImage
<1>1. Init => Delivery
  BY DEF Init, PackagingInit, Delivery, DeliveryOf, Chosen, Active
<1>2. TypeOK /\ OneJob /\ Delivery /\ [Next]_vars => Delivery'
  <2> SUFFICES ASSUME TypeOK, OneJob, Delivery, [Next]_vars PROVE Delivery'
    OBVIOUS
  <2>1. ASSUME NEW w \in Workers, Worker(w) PROVE Delivery'
    <3>1. w = handle /\ state = "RUNNING" /\ handle' = handle /\ Active(w)
      BY <2>1, WorkerProtocol DEF OneJob, OneActiveWorker, uiVars
    <3>2. DeliveryOf(w)' /\ Chosen(w)'
      BY <2>1, DeliveryOfStep, ChosenStep DEF Delivery
    <3>3. ASSUME NEW v \in Workers \ {w} PROVE DeliveryOf(v)' /\ Chosen(v)'
      <4>1. pc[v] \in {"idle", "ended"} /\ pc'[v] = pc[v]
        BY <2>1, <3>1, <3>3, OthersKept DEF OneJob, OneActiveWorker, Active
      <4> QED
        BY <4>1 DEF DeliveryOf, Chosen, Active
    <3>4. ASSUME state' = "DONE"
          PROVE  job'[handle] = selected' /\ Delivered(handle)'
      <4>1. Finish(w)
        BY <2>1, <3>1, <3>4
        DEF Worker, Begin, NoticesCancel, DownloadEnds, OnFiles, Discard, Report, RemoveWorkdir, shared
      <4>2. pc[w] = "finish" /\ Delivered(w) /\ job[w] = selected
        BY <4>1 DEF Finish, At, Delivery, DeliveryOf, Chosen, Active
      <4> QED
        BY <3>1, <4>1, <4>2 DEF Finish, uiVars, Delivered, Shipped, PathOf
    <3> QED
      BY <3>1, <3>2, <3>3, <3>4 DEF Delivery
  <2>2. CASE UI \/ Relaunch \/ UNCHANGED vars
    <3>1. /\ UNCHANGED <<platform, job, workdir, output, mishaps>>
          /\ \A w \in Workers : pc'[w] = pc[w] \/ (pc[w] = "idle" /\ pc'[w] = "begin")
      BY <2>2, UIKeepsFiles
    <3>2. \A w \in Workers : DeliveryOf(w)'
      BY <3>1 DEF Delivery, DeliveryOf, Delivered, Shipped, PathOf
    <3>3. UNCHANGED selected \/ \A w \in Workers : ~Active(w)
      <4>1. CASE Select
        BY <4>1 DEF Select, Drawing, OneJob, OneActiveWorker
      <4>2. CASE Relaunch
        BY <4>2 DEF Relaunch, OneJob, MutexOutlivesWorkers
      <4> QED
        BY <2>2, <4>1, <4>2
        DEF UI, Poll, NoClick, Install, PrepareLibrary, BackToPick, TryAgain, Click, Leave, vars, shared
    <3>4. \A w \in Workers : Chosen(w)'
      BY <3>1, <3>3 DEF Delivery, Chosen, Active
    <3>5. ASSUME state' = "DONE"
          PROVE  state = "DONE" /\ UNCHANGED <<handle, selected>>
      BY <2>2, <3>5
      DEF UI, Poll, NoClick, Select, Install, PrepareLibrary, BackToPick, TryAgain, Click, Leave,
          Relaunch, vars, shared, uiVars, Drawing, OneJob
    <3>6. state' = "DONE" =>
            handle' \in Workers /\ job'[handle'] = selected' /\ Delivered(handle)'
      BY <3>1, <3>5 DEF Delivery, Delivered, Shipped, PathOf
    <3> QED
      BY <3>2, <3>4, <3>6 DEF Delivery
  <2> QED
    BY <2>1, <2>2 DEF Next
<1>3. Delivery => DoneIsThisRunsImage
  BY DEF Delivery, Delivered, Shipped, DoneIsThisRunsImage
<1> QED
  BY <1>1, <1>2, <1>3, InstallerTypeCorrect, OneJobAlways, PTL DEF Spec
=============================================================================
