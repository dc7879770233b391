----------------------------- MODULE Installer -----------------------------
(***************************************************************************)
(* The installer program of src/app/main.c: the UI thread, which reads the *)
(* shared state once per frame and then handles at most one click, and the *)
(* worker thread of every "Install NAM Mod".  They share state, the         *)
(* selection and cancel_requested under one mutex.  What is only displayed  *)
(* (log lines, progress, error text) is left out; the library screen is    *)
(* NamLibrary's.                                                           *)
(***************************************************************************)
EXTENDS Packaging

CONSTANTS MaxLaunches  \* bound on starts of the program

ASSUME InstallerAssumption == MaxLaunches \in Nat \ {0}

VARIABLES state,     \* shared.state
          selected,  \* shared.selected_model and shared.enable_v2_hijack
          cancel,    \* shared.cancel_requested
          ui,        \* where the UI thread is in its loop
          seen,      \* the state this frame is drawn from
          open,      \* "running": no quit event so far
          handle,    \* worker_thread, 0 for NULL
          launches   \* starts of the program

uiVars == <<ui, seen, open, handle, launches>>
shared == <<state, selected, cancel>>
vars == <<fileVars, shared, uiVars>>

States == {"PICK", "LIBRARY", "RUNNING", "DONE", "ERROR"}

TypeOK ==
  /\ platform \in Platforms
  /\ pc \in [Workers -> Steps]
  /\ job \in [Workers -> Wishes]
  /\ parcel \in [Workers -> Updaters]
  /\ workdir \in [Workers -> Dirs]
  /\ output \in [Models \cup {"Update_nam.img"} -> Updaters]
  /\ recovery \in [Models -> [holds : Updaters, saved : BOOLEAN]]
  /\ mishaps \in [Workers -> SUBSET MishapKinds]
  /\ state \in States /\ seen \in States
  /\ selected \in Wishes
  /\ cancel \in BOOLEAN /\ open \in BOOLEAN
  /\ ui \in {"poll", "draw", "wait", "gone"}
  /\ handle \in Workers \cup {0}
  /\ launches \in 1..MaxLaunches

Active(w) == pc[w] \notin {"idle", "ended"}

-----------------------------------------------------------------------------
(* The worker's own use of the shared state.                                 *)
Begin(w) ==
  /\ At(w, "begin")
  /\ job' = [job EXCEPT ![w] = selected]
  /\ Goto(w, "download")
  /\ UNCHANGED <<platform, parcel, workdir, output, recovery, mishaps, shared, uiVars>>

(* libcurl calls back again and again; the callback is the one place that    *)
(* looks at cancel_requested.                                                *)
NeverNoticesCancel(w) == FALSE
NoticesCancel(w) ==
  /\ At(w, "download") /\ cancel
  /\ Aborts(w)
  /\ UNCHANGED <<platform, job, parcel, workdir, output, recovery, mishaps, shared, uiVars>>

DownloadEnds(w) ==
  /\ At(w, "download")
  /\ \/ \E u \in Parcels(job[w].model) :
          parcel' = [parcel EXCEPT ![w] = u] /\ Goto(w, "workdir")
     \/ Aborts(w) /\ UNCHANGED parcel
  /\ UNCHANGED <<platform, job, workdir, output, recovery, mishaps, shared, uiVars>>

(* The error is shown last, when nothing is left to do.                      *)
DiscardReported(w) ==
  /\ At(w, "discard") /\ RemovesDir(w) /\ Goto(w, "report")
  /\ state' = "ERROR"
  /\ UNCHANGED <<platform, job, parcel, output, recovery, selected, cancel, uiVars>>
Discard(w) ==
  /\ At(w, "discard") /\ RemovesDir(w) /\ Goto(w, "report")
  /\ UNCHANGED <<platform, job, parcel, output, recovery, shared, uiVars>>

ReportUnsaid(w) ==
  /\ At(w, "report") /\ Goto(w, "ended")
  /\ UNCHANGED <<platform, job, parcel, workdir, output, recovery, mishaps, shared, uiVars>>
Report(w) ==
  /\ At(w, "report") /\ Goto(w, "ended")
  /\ state' = "ERROR"
  /\ UNCHANGED <<platform, job, parcel, workdir, output, recovery, mishaps, selected, cancel, uiVars>>

RemoveWorkdir(w) ==
  /\ At(w, "cleanup") /\ RemovesDir(w) /\ Goto(w, "finish")
  /\ UNCHANGED <<platform, job, parcel, output, recovery, shared, uiVars>>

Finish(w) ==
  /\ At(w, "finish") /\ Goto(w, "ended")
  /\ state' = "DONE"
  /\ UNCHANGED <<platform, job, parcel, workdir, output, recovery, mishaps, selected, cancel, uiVars>>

OnFiles(w) == FileStep(w) /\ UNCHANGED <<shared, uiVars>>

Worker(w) ==
  \/ Begin(w) \/ NoticesCancel(w) \/ DownloadEnds(w) \/ OnFiles(w)
  \/ Discard(w) \/ Report(w) \/ RemoveWorkdir(w) \/ Finish(w)

-----------------------------------------------------------------------------
(* One frame: poll the events, take a snapshot of the state, draw.  A frame   *)
(* that has seen the quit event is still drawn, clicks included.             *)
Poll ==
  /\ ui = "poll"
  /\ open' \in {open, FALSE}
  /\ seen' = state
  /\ ui' = "draw"
  /\ UNCHANGED <<fileVars, shared, handle, launches>>

Drawing(s) == ui = "draw" /\ seen = s

(* After the frame the loop goes on, or asks the last worker to stop and     *)
(* waits for it.                                                             *)
NextFrame == ui' = IF open THEN "poll" ELSE "wait"
AsksToStop(h) == ~open /\ h # 0

NoClick ==
  /\ ui = "draw" /\ NextFrame
  /\ cancel' = (cancel \/ AsksToStop(handle))
  /\ UNCHANGED <<fileVars, state, selected, seen, open, handle, launches>>

Select ==
  /\ Drawing("PICK")
  /\ selected' \in Wishes
  /\ NextFrame
  /\ cancel' = (cancel \/ AsksToStop(handle))
  /\ UNCHANGED <<fileVars, state, seen, open, handle, launches>>

(* The result of SDL_CreateThread is stored unseen: NULL leaves RUNNING on    *)
(* the screen.                                                               *)
Install ==
  /\ Drawing("PICK") /\ NextFrame
  /\ state' = "RUNNING"
  /\ \/ \E w \in Workers :
          /\ At(w, "idle") /\ \A v \in Workers : At(v, "idle") => w <= v
          /\ Goto(w, "begin")
          /\ handle' = w
     \/ handle' = 0 /\ UNCHANGED pc
  /\ cancel' = AsksToStop(handle')
  /\ UNCHANGED <<platform, job, parcel, workdir, output, recovery, mishaps,
                 selected, seen, open, launches>>

(* Clicks that only move between screens.                                    *)
Click(from, to) ==
  /\ Drawing(from) /\ NextFrame
  /\ state' = to
  /\ cancel' = (cancel \/ AsksToStop(handle))
  /\ UNCHANGED <<fileVars, selected, seen, open, handle, launches>>

PrepareLibrary == Click("PICK", "LIBRARY")
BackToPick == Click("LIBRARY", "PICK")
TryAgain == Click("ERROR", "PICK")

(* SDL_WaitThread on the last handle only, then the mutex is destroyed.      *)
MayLeaveUnlessRunning == seen # "RUNNING" \/ \A w \in Workers : w = handle => At(w, "ended")
MayLeave == \A w \in Workers : w = handle => At(w, "ended")

Leave ==
  /\ ui = "wait" /\ MayLeave
  /\ ui' = "gone"
  /\ UNCHANGED <<fileVars, shared, seen, open, handle, launches>>

(* The user starts the program again; the files are still there.             *)
Relaunch ==
  /\ ui = "gone" /\ launches < MaxLaunches
  /\ launches' = launches + 1
  /\ state' = "PICK" /\ seen' = "PICK" /\ cancel' = FALSE
  /\ selected' = FirstWish
  /\ ui' = "poll" /\ open' = TRUE /\ handle' = 0
  /\ UNCHANGED fileVars

Init ==
  /\ PackagingInit
  /\ state = "PICK" /\ seen = "PICK" /\ cancel = FALSE
  /\ selected = FirstWish
  /\ ui = "poll" /\ open = TRUE /\ handle = 0 /\ launches = 1

UI == Poll \/ NoClick \/ Select \/ Install \/ PrepareLibrary \/ BackToPick \/ TryAgain \/ Leave
Next == UI \/ Relaunch \/ \E w \in Workers : Worker(w)

(* The system runs the threads, and libcurl keeps calling back; nothing says  *)
(* that a download ever ends: the transfer has no timeout.                   *)
Fairness ==
  /\ WF_vars(UI)
  /\ \A w \in Workers :
       /\ WF_vars(Begin(w)) /\ WF_vars(NoticesCancel(w)) /\ WF_vars(OnFiles(w))
       /\ WF_vars(Discard(w)) /\ WF_vars(Report(w))
       /\ WF_vars(RemoveWorkdir(w)) /\ WF_vars(Finish(w))

Spec == Init /\ [][Next]_vars /\ Fairness

-----------------------------------------------------------------------------
(* A thread that may still touch the shared state or files is the one the    *)
(* handle names, and the screen says RUNNING: "Try Again" can never start a   *)
(* job beside one that is still cleaning up, although it overwrites the      *)
(* handle without joining.                                                   *)
OneActiveWorker ==
  \A w \in Workers : Active(w) => w = handle /\ state = "RUNNING"

(* The mutex, which lives on main's stack frame with the shared state, is     *)
(* destroyed after the last thread that locks it has ended.                  *)
MutexOutlivesWorkers == ui = "gone" => \A w \in Workers : ~Active(w)

(* "Done! NAM mod applied." means: the named file holds the image made for   *)
(* the device and the number of instances that are selected, whole and, on   *)
(* Windows, unsigned.  Only a failing fclose can break this, and not on       *)
(* Windows, which reads the file back.                                       *)
DoneIsThisRunsImage ==
  LET u == output[PathOf(selected.model)] IN
  state = "DONE" =>
    \/ u.img = Patched(selected) /\ (platform = "win" => u.rest = "stock" /\ u.cert = "none")
    \/ platform # "win" /\ "close" \in mishaps[handle]

(* The recovery copy is never the patched updater (mac_package.c records a    *)
(* bug here).  When the log says it was saved it is the vendor's, entry for  *)
(* entry; on Windows its certificate may have been cut short, if the fclose  *)
(* of stock_updater.exe failed unseen in a job for this device.              *)
Unpackable(m) == {u \in Parcels(m) : u.img # Missing}
CutFor(m) == \E w \in Workers : job[w].model = m /\ "cut" \in mishaps[w]

StockCopyIsStock ==
  \A m \in Models :
    /\ recovery[m].holds.img \in {Missing, Partial, Stock(m)}
    /\ recovery[m].saved =>
         \/ recovery[m].holds \in Unpackable(m)
         \/ /\ platform = "win" /\ CutFor(m)
            /\ \E u \in Unpackable(m) : recovery[m].holds = CutShort(u)

(* The window can always be closed: whatever the job is doing, and even if   *)
(* the download hangs, the program ends.                                     *)
QuitEnds == ~open ~> ui = "gone"

(* A job whose download came through ends in DONE or ERROR on the screen.    *)
DownloadedJobEnds ==
  \A w \in Workers : pc[w] = "workdir" ~> (pc[w] = "ended" /\ state \in {"DONE", "ERROR"})

(* A job that reached the pipeline ends with its working directory removed,   *)
(* however it ends, unless the removal itself failed (jobs that fail while    *)
(* unpacking do leave theirs behind).                                        *)
PipelineJobsCleanUp ==
  \A w \in Workers :
    pc[w] = "pipeline" ~> (pc[w] = "ended" /\ (workdir[w].made => "rm" \in mishaps[w]))

(* "refusing to leave a broken installer in place" (win_repack.c:473): the   *)
(* refusal only stops the job, the file written before the test stays.       *)
NoBrokenInstallerInPlace ==
  [][\A w \in Workers :
       At(w, "verify") /\ pc'[w] = "discard" => output'[PathOf(job[w].model)] # Torn]_vars
=============================================================================
