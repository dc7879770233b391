----------------------------- MODULE Packaging -----------------------------
(***************************************************************************)
(* What a job of the installer does to files: the working directory, the   *)
(* updater it unpacks there, the patched updater it leaves beside the       *)
(* program and the recovery copy of the stock one.  Sources: worker_main   *)
(* from the download on (src/app/main.c), mac_package.c, win_repack.c,      *)
(* src/core/zip_reader.c and tempdir.c.                                     *)
(*                                                                         *)
(* An updater is a record: its Update.img, the rest of its payload and the  *)
(* Authenticode certificate at its end: whole, cut short, or none that the  *)
(* header points to.  Every step that can fail may fail here too; a failure *)
(* the code does not notice is recorded in mishaps.                        *)
(***************************************************************************)
EXTENDS Naturals, FiniteSets

CONSTANTS Workers,    \* the threads that may be created, numbered from 1
          Models,     \* device names
          Wishes,     \* records [model, v2]: what the radio buttons can say
          Platforms,  \* subset of {"mac", "win", "linux"}
          MaxMishaps  \* bound on unnoticed failures of one job

ASSUME PackagingAssumption ==
  /\ Workers \subseteq Nat \ {0}
  /\ Wishes \subseteq [model : Models, v2 : BOOLEAN]
  /\ Wishes # {}
  /\ Platforms \subseteq {"mac", "win", "linux"}
  /\ MaxMishaps \in Nat
  /\ "Update_nam.img" \notin Models

VARIABLES platform,  \* which of the three builds this is
          pc,        \* per worker: the next step of worker_main
          job,       \* per worker: the wish it has read
          parcel,    \* per worker: the updater it has downloaded
          workdir,   \* per worker: its working directory
          output,    \* per path: the updater written for the user
          recovery,  \* per model: the "(stock)" copy, and whether it was reported
          mishaps    \* per worker: failures that were not noticed

fileVars == <<platform, pc, job, parcel, workdir, output, recovery, mishaps>>

-----------------------------------------------------------------------------
Missing == <<"missing">>
Partial == <<"partial">>
Stock(m) == <<"stock", m>>
Patched(j) == <<"patched", j.model, j.v2>>

Images == {Missing, Partial} \cup {Stock(m) : m \in Models} \cup {Patched(j) : j \in Wishes}
Updaters == [img : Images, rest : {"none", "short", "stock"}, cert : {"whole", "cut", "none"}]
NoUpdater == [img |-> Missing, rest |-> "none", cert |-> "none"]
Torn == [img |-> Partial, rest |-> "short", cert |-> "cut"]

(* The vendor's updater, and the same after a change of layout.             *)
Vendor(m) == [img |-> Stock(m), rest |-> "stock", cert |-> "whole"]
Parcels(m) == {Vendor(m), [Vendor(m) EXCEPT !.img = Missing], [Vendor(m) EXCEPT !.rest = "short"]}

Dirs == [made : BOOLEAN, stock : Updaters, payload : Updaters, archive : Updaters]
NoDir == [made |-> FALSE, stock |-> NoUpdater, payload |-> NoUpdater, archive |-> NoUpdater]

(* What may fail unseen: the fclose of the stock updater on Windows, of a     *)
(* patched file, the removal of the working directory.                       *)
MishapKinds == {"cut", "close", "rm"}

FirstWish == CHOOSE j \in Wishes : TRUE

(* Linux builds write one name, the others one per device.                  *)
PathOf(m) == IF platform = "linux" THEN "Update_nam.img" ELSE m

Steps == {"idle", "begin", "download", "workdir", "unpack", "pipeline", "package",
          "patch", "archive", "write", "verify", "keep", "cleanup", "finish", "discard", "report", "ended"}

At(w, s) == pc[w] = s
Goto(w, s) == pc' = [pc EXCEPT ![w] = s]

(* A failure the code cannot see: k is dropped by this step.                *)
Drops(w, k) ==
  /\ Cardinality(mishaps[w]) < MaxMishaps
  /\ mishaps' = [mishaps EXCEPT ![w] = @ \cup {k}]
Notices == UNCHANGED mishaps

(* Errors before the pipeline has run return at once.                       *)
Aborts(w) == Goto(w, "report")

(* Later ones remove the working directory first.                           *)
DiscardsLater(w) == Goto(w, "report")
Discards(w) == Goto(w, "discard")

-----------------------------------------------------------------------------
PackagingInit ==
  /\ platform \in Platforms
  /\ pc = [w \in Workers |-> "idle"]
  /\ job = [w \in Workers |-> FirstWish]
  /\ parcel = [w \in Workers |-> NoUpdater]
  /\ workdir = [w \in Workers |-> NoDir]
  /\ output = [p \in Models \cup {"Update_nam.img"} |-> NoUpdater]
  /\ recovery = [m \in Models |-> [holds |-> NoUpdater, saved |-> FALSE]]
  /\ mishaps = [w \in Workers |-> {}]

MakeWorkdir(w) ==
  /\ At(w, "workdir")
  /\ \/ workdir' = [workdir EXCEPT ![w].made = TRUE] /\ Goto(w, "unpack") /\ UNCHANGED parcel
     \/ Aborts(w) /\ parcel' = [parcel EXCEPT ![w] = NoUpdater] /\ UNCHANGED workdir
  /\ UNCHANGED <<platform, job, output, recovery, mishaps>>

(* write_whole_file_local does not look at fclose.  What it has lost is the    *)
(* end of the file: the certificate, or more, and then 7z refuses the archive. *)
CutShort(u) == [u EXCEPT !.cert = "cut"]

(* macOS unpacks the whole bundle, Windows writes the installer to a file and *)
(* unpacks its payload, Linux takes the image out of the archive in memory.  *)
(* The download is freed either way; what a half unpacked directory holds is  *)
(* never read.                                                               *)
Unpacked(w, u) ==
  CASE platform = "mac" -> [workdir[w] EXCEPT !.stock = u]
    [] platform = "win" -> [workdir[w] EXCEPT !.stock = u, !.payload = u]
    [] OTHER -> workdir[w]

Unpack(w) ==
  /\ At(w, "unpack")
  /\ \/ /\ parcel[w].img # Missing
        /\ \/ workdir' = [workdir EXCEPT ![w] = Unpacked(w, parcel[w])] /\ Notices
           \/ /\ platform = "win"
              /\ workdir' = [workdir EXCEPT ![w] = Unpacked(w, CutShort(parcel[w]))]
              /\ Drops(w, "cut")
        /\ Goto(w, "pipeline")
     \/ Aborts(w) /\ Notices /\ UNCHANGED workdir
  /\ parcel' = [parcel EXCEPT ![w] = NoUpdater]
  /\ UNCHANGED <<platform, job, output, recovery>>

(* nam_patch_pipeline as PatchPipeline describes it: an image or a reason.  *)
RunPipeline(w) ==
  /\ At(w, "pipeline")
  /\ \/ Goto(w, IF platform = "linux" THEN "write" ELSE "package")
     \/ Discards(w)
  /\ UNCHANGED <<platform, job, parcel, workdir, output, recovery, mishaps>>

-----------------------------------------------------------------------------
(* macOS.  The pristine bundle is copied out first (rm -rf && cp -R), then   *)
(* the image of the copy is overwritten.                                     *)
CopyBundle(w) ==
  LET p == PathOf(job[w].model) IN
  /\ At(w, "package") /\ platform = "mac"
  /\ \/ output' = [output EXCEPT ![p] = workdir[w].stock] /\ Goto(w, "patch")
     \/ \E left \in {output[p], NoUpdater, Torn} :
          output' = [output EXCEPT ![p] = left] /\ Discards(w)
  /\ UNCHANGED <<platform, job, parcel, workdir, recovery, mishaps>>

(* The order the comment in mac_package.c warns of.                          *)
PatchBundleAndSource(w) ==
  LET p == PathOf(job[w].model)
      new == Patched(job[w])
  IN /\ At(w, "patch") /\ platform = "mac"
     /\ output' = [output EXCEPT ![p].img = new]
     /\ workdir' = [workdir EXCEPT ![w].stock.img = new]
     /\ Goto(w, "keep") /\ Notices
     /\ UNCHANGED <<platform, job, parcel, recovery>>

(* fclose is not looked at; a failing codesign is only a warning.            *)
PatchBundle(w) ==
  LET p == PathOf(job[w].model) IN
  /\ At(w, "patch") /\ platform = "mac"
  /\ \/ output' = [output EXCEPT ![p].img = Patched(job[w])] /\ Goto(w, "keep") /\ Notices
     \/ output' = [output EXCEPT ![p].img = Partial] /\ Goto(w, "keep") /\ Drops(w, "close")
     \/ \E left \in {output[p].img, Partial} :
          output' = [output EXCEPT ![p].img = left] /\ Discards(w) /\ Notices
  /\ UNCHANGED <<platform, job, parcel, workdir, recovery>>

-----------------------------------------------------------------------------
(* Windows.  The stock installer is read again, its Authenticode entry is    *)
(* blanked in the prefix, its payload unpacked over the first copy, and the  *)
(* five expected entries must be there.                                      *)
Stripped(u) == [u EXCEPT !.cert = "none"]

HasExpectedEntries(u) == u.img # Missing /\ u.rest = "stock"

Restage(w) ==
  /\ At(w, "package") /\ platform = "win"
  /\ \/ /\ HasExpectedEntries(workdir[w].stock)
        /\ workdir' = [workdir EXCEPT ![w].payload = Stripped(workdir[w].stock)]
        /\ Goto(w, "patch")
     \/ Discards(w) /\ UNCHANGED workdir
  /\ UNCHANGED <<platform, job, parcel, output, recovery, mishaps>>

PatchPayload(w) ==
  /\ At(w, "patch") /\ platform = "win"
  /\ \/ /\ workdir' = [workdir EXCEPT ![w].payload.img = Patched(job[w])]
        /\ Goto(w, "archive") /\ Notices
     \/ /\ workdir' = [workdir EXCEPT ![w].payload.img = Partial]
        /\ Goto(w, "archive") /\ Drops(w, "close")
     \/ Discards(w) /\ Notices /\ UNCHANGED workdir
  /\ UNCHANGED <<platform, job, parcel, output, recovery>>

(* 7z a, run in the payload directory.                                       *)
MakeArchive(w) ==
  /\ At(w, "archive") /\ platform = "win"
  /\ \/ workdir' = [workdir EXCEPT ![w].archive = workdir[w].payload] /\ Goto(w, "write")
     \/ Discards(w) /\ UNCHANGED workdir
  /\ UNCHANGED <<platform, job, parcel, output, recovery, mishaps>>

(* Prefix and archive are written straight to the output path.               *)
WriteUpdater(w) ==
  LET p == PathOf(job[w].model) IN
  /\ At(w, "write") /\ platform = "win"
  /\ \/ output' = [output EXCEPT ![p] = workdir[w].archive] /\ Goto(w, "verify") /\ Notices
     \/ output' = [output EXCEPT ![p] = Torn] /\ Goto(w, "verify") /\ Drops(w, "close")
     \/ \E left \in {output[p], Torn} :
          output' = [output EXCEPT ![p] = left] /\ Discards(w) /\ Notices
  /\ UNCHANGED <<platform, job, parcel, workdir, recovery>>

(* The round trip: an intact archive, the patched image bit for bit, and     *)
(* every other entry as in the payload.                                      *)
RoundTrips(w, u) ==
  /\ u # Torn
  /\ u.img = Patched(job[w])
  /\ u.rest = workdir[w].payload.rest
IntegrityOnly(w, u) == u # Torn

PassesRoundTrip(w, u) == RoundTrips(w, u)

VerifyUpdater(w) ==
  /\ At(w, "verify") /\ platform = "win"
  /\ \/ PassesRoundTrip(w, output[PathOf(job[w].model)]) /\ Goto(w, "keep")
     \/ Discards(w)
  /\ UNCHANGED <<platform, job, parcel, workdir, output, recovery, mishaps>>

-----------------------------------------------------------------------------
(* Linux.                                                                    *)
WriteImage(w) ==
  LET p == PathOf(job[w].model) IN
  /\ At(w, "write") /\ platform = "linux"
  /\ \/ output' = [output EXCEPT ![p].img = Patched(job[w])] /\ Goto(w, "cleanup") /\ Notices
     \/ output' = [output EXCEPT ![p].img = Partial] /\ Goto(w, "cleanup") /\ Drops(w, "close")
     \/ \E left \in {output[p].img, Partial} :
          output' = [output EXCEPT ![p].img = left] /\ Discards(w) /\ Notices
  /\ UNCHANGED <<platform, job, parcel, workdir, recovery>>

-----------------------------------------------------------------------------
(* The recovery copy of the stock updater: best effort, the log says whether *)
(* it was saved.                                                             *)
KeepStock(w) ==
  LET m == job[w].model IN
  /\ At(w, "keep")
  /\ \/ recovery' = [recovery EXCEPT ![m] = [holds |-> workdir[w].stock, saved |-> TRUE]]
     \/ \E left \in {recovery[m].holds, NoUpdater, Torn} :
          recovery' = [recovery EXCEPT ![m] = [holds |-> left, saved |-> FALSE]]
  /\ Goto(w, "cleanup")
  /\ UNCHANGED <<platform, job, parcel, workdir, output, mishaps>>

(* nam_remove_dir_recursive: best effort, its result is not looked at.       *)
RemovesDir(w) ==
  \/ workdir' = [workdir EXCEPT ![w] = NoDir] /\ Notices
  \/ Drops(w, "rm") /\ UNCHANGED workdir

FileStep(w) ==
  \/ MakeWorkdir(w) \/ Unpack(w) \/ RunPipeline(w)
  \/ CopyBundle(w) \/ PatchBundle(w)
  \/ Restage(w) \/ PatchPayload(w) \/ MakeArchive(w) \/ WriteUpdater(w) \/ VerifyUpdater(w)
  \/ WriteImage(w) \/ KeepStock(w)
=============================================================================
