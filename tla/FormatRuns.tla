----------------------------- MODULE FormatRuns -----------------------------
(***************************************************************************)
(* Formatter runs on one project, one after the other or overlapping, and  *)
(* --undo: App::run with FileProcessor, FileIo::write_text, the parallel   *)
(* write phase and BackupManifest.  Any of the processes may be killed     *)
(* between two steps, the user edits the sources meanwhile, and several    *)
(* runs may use one backup directory (FORMATTER_BACKUP_RUN, or two starts  *)
(* within a millisecond).                                                  *)
(*                                                                         *)
(* AtomicWriter is one step here (module AtomicWriter shows when it is);   *)
(* fs::copy, with which backups are taken and restored, is two.            *)
(***************************************************************************)
EXTENDS Integers, FiniteSets, Sequences

CONSTANTS
  Files,       (* source files the finder collects                         *)
  MaxRuns,     (* bound on formatter runs                                  *)
  MaxEdits,    (* bound on texts the user writes per file                  *)
  Dirs,        (* run directories below backup_dir                         *)
  DirsOf,      (* DirsOf[r]: directories run r may use                     *)
  Overlap      (* runs may overlap in time                                 *)

Runs == 1 .. MaxRuns
NoDir == "no directory"
NoFile == "no file"

ASSUME FormatRunsAssumption ==
  /\ IsFiniteSet(Files)
  /\ MaxRuns \in Nat /\ MaxEdits \in Nat
  /\ DirsOf \in [Runs -> SUBSET Dirs]
  /\ Overlap \in BOOLEAN
  /\ NoDir \notin Dirs /\ NoFile \notin Files

(* A text is a version the user wrote, or the engine's output for it.      *)
Text == [version : 0 .. MaxEdits, formatted : BOOLEAN]
Torn == [version |-> -1, formatted |-> FALSE]
Absent == [version |-> -2, formatted |-> FALSE]

Formatted(t) == IF t = Torn THEN Torn ELSE [t EXCEPT !.formatted = TRUE]

(* The name a backup gets: 0 for the plain name, n for "stem.n.ext".       *)
Slots == 0 .. MaxRuns
NoSlot == -1

VARIABLES
  disk,      (* the source files                                           *)
  edits,     (* number of texts the user has written per file              *)
  backup,    (* backup[d][f][n]: backup n of file f in directory d         *)
  run,       (* phase and directory of each run                            *)
  job,       (* job[r][f]: stage, pending text and backup slot of a file   *)
  manifest,  (* backup_manifest.toml of each directory: the run that wrote *)
             (* it (0: no manifest) and the backup it lists per file       *)
  recent,    (* run directories by modification time, oldest first         *)
  undo,      (* what --undo is doing                                       *)
  authored,  (* ghost: the text per file the user last wrote or asked for  *)
  before     (* ghost: the text each run replaced per file                 *)

vars == <<disk, edits, backup, run, job, manifest, recent, undo, authored, before>>

Phases == {"new", "engine", "write", "manifest", "ended"}
Stages == {"todo", "pending", "named", "copying", "copied", "unchanged", "written", "error"}
NoJobs == [f \in Files |-> [stage |-> "todo", text |-> Absent, slot |-> NoSlot]]
NotUndoing == [dir |-> NoDir, latest |-> FALSE, todo |-> {}, file |-> NoFile]

TypeOK ==
  /\ disk \in [Files -> Text \cup {Torn}]
  /\ edits \in [Files -> 0 .. MaxEdits]
  /\ backup \in [Dirs -> [Files -> [Slots -> Text \cup {Torn, Absent}]]]
  /\ run \in [Runs -> [phase : Phases, dir : Dirs \cup {NoDir}]]
  /\ job \in [Runs -> [Files -> [stage : Stages, text : Text \cup {Absent},
                                 slot : Slots \cup {NoSlot}]]]
  /\ manifest \in [Dirs -> [by : 0 .. MaxRuns, slot : [Files -> Slots \cup {NoSlot}]]]
  /\ recent \in Seq(Dirs)
  /\ undo \in [dir : Dirs \cup {NoDir}, latest : BOOLEAN, todo : SUBSET Files,
               file : Files \cup {NoFile}]
  /\ authored \in [Files -> Text]
  /\ before \in [Runs -> [Files -> Text \cup {Absent}]]

Init ==
  /\ disk = [f \in Files |-> [version |-> 0, formatted |-> FALSE]]
  /\ edits = [f \in Files |-> 0]
  /\ backup = [d \in Dirs |-> [f \in Files |-> [n \in Slots |-> Absent]]]
  /\ run = [r \in Runs |-> [phase |-> "new", dir |-> NoDir]]
  /\ job = [r \in Runs |-> NoJobs]
  /\ manifest = [d \in Dirs |-> [by |-> 0, slot |-> [f \in Files |-> NoSlot]]]
  /\ recent = <<>>
  /\ undo = NotUndoing
  /\ authored = disk
  /\ before = [r \in Runs |-> [f \in Files |-> Absent]]

-----------------------------------------------------------------------------
(* A formatter run.                                                        *)

Active(r) == run[r].phase \in {"engine", "write", "manifest"}
Undoing == undo.dir # NoDir

Enter(r, phase) == run' = [run EXCEPT ![r].phase = phase]
Leave(r) == Enter(r, "ended") /\ job' = [job EXCEPT ![r] = NoJobs]
Move(r, f, stage) == job' = [job EXCEPT ![r][f].stage = stage]

(* The modification time of a directory that gets an entry.                *)
Touch(d) == recent' = Append(SelectSeq(recent, LAMBDA e : e # d), d)

(* The run picks its backup directory.                                     *)
Start(r) ==
  /\ run[r].phase = "new"
  /\ \A q \in Runs : q < r => run[q].phase # "new"
  /\ Overlap \/ \A q \in Runs : ~Active(q)
  /\ ~Undoing
  /\ \E d \in DirsOf[r] : run' = [run EXCEPT ![r] = [phase |-> "engine", dir |-> d]]
  /\ UNCHANGED <<disk, edits, backup, job, manifest, recent, undo, authored, before>>

(* FileProcessor::process: read the file, run the engine, keep the text it *)
(* returns as pending_text when it differs.                                *)
Process(r, f) ==
  /\ run[r].phase = "engine"
  /\ job[r][f].stage = "todo"
  /\ \/ /\ Formatted(disk[f]) # disk[f]
        /\ job' = [job EXCEPT ![r][f].stage = "pending", ![r][f].text = Formatted(disk[f])]
     \/ \E stage \in {"unchanged", "error"} : Move(r, f, stage)
  /\ UNCHANGED <<disk, edits, backup, run, manifest, recent, undo, authored, before>>

EngineDone(r) ==
  /\ run[r].phase = "engine"
  /\ \A f \in Files : job[r][f].stage # "todo"
  /\ Enter(r, "write")
  /\ UNCHANGED <<disk, edits, backup, job, manifest, recent, undo, authored, before>>

(* Mutant: an existing backup of that name is overwritten.                 *)
PlainSlot(d, f) == 0

(* make_backup, first half: the plain name, or the first free numbered one.*)
FreeSlot(d, f) ==
  CHOOSE n \in Slots : /\ backup[d][f][n] = Absent
                       /\ \A m \in Slots : m < n => backup[d][f][m] # Absent

NameBackup(r, f) ==
  /\ run[r].phase = "write"
  /\ job[r][f].stage = "pending"
  /\ job' = [job EXCEPT ![r][f].stage = "named", ![r][f].slot = FreeSlot(run[r].dir, f)]
  /\ UNCHANGED <<disk, edits, backup, run, manifest, recent, undo, authored, before>>

(* make_backup, second half: fs::copy creates the backup and fills it.     *)
BeginCopy(r, f) ==
  /\ run[r].phase = "write"
  /\ job[r][f].stage = "named"
  /\ backup' = [backup EXCEPT ![run[r].dir][f][job[r][f].slot] = Torn]
  /\ Touch(run[r].dir)
  /\ Move(r, f, "copying")
  /\ UNCHANGED <<disk, edits, run, manifest, undo, authored, before>>

EndCopy(r, f) ==
  /\ run[r].phase = "write"
  /\ job[r][f].stage = "copying"
  /\ backup' = [backup EXCEPT ![run[r].dir][f][job[r][f].slot] = disk[f]]
  /\ Move(r, f, "copied")
  /\ UNCHANGED <<disk, edits, run, manifest, recent, undo, authored, before>>

(* Mutant: the text is replaced while the backup is being taken.           *)
HastyReplace(r, f) ==
  /\ run[r].phase = "write"
  /\ job[r][f].stage \in {"copying", "copied"}
  /\ disk' = [disk EXCEPT ![f] = job[r][f].text]
  /\ before' = [before EXCEPT ![r][f] = disk[f]]
  /\ Move(r, f, "written")
  /\ UNCHANGED <<edits, backup, run, manifest, recent, undo, authored>>

(* AtomicWriter puts the pending text in place of whatever is there now.   *)
Replace(r, f) ==
  /\ run[r].phase = "write"
  /\ job[r][f].stage = "copied"
  /\ disk' = [disk EXCEPT ![f] = job[r][f].text]
  /\ before' = [before EXCEPT ![r][f] = disk[f]]
  /\ Move(r, f, "written")
  /\ UNCHANGED <<edits, backup, run, manifest, recent, undo, authored>>

(* make_backup or the write fails: the result has an error and no backup.  *)
WriteFails(r, f) ==
  /\ run[r].phase = "write"
  /\ job[r][f].stage \in {"pending", "named", "copying", "copied"}
  /\ Move(r, f, "error")
  /\ UNCHANGED <<disk, edits, backup, run, manifest, recent, undo, authored, before>>

WriteDone(r) ==
  /\ run[r].phase = "write"
  /\ \A f \in Files : job[r][f].stage \in {"unchanged", "written", "error"}
  /\ Enter(r, "manifest")
  /\ UNCHANGED <<disk, edits, backup, job, manifest, recent, undo, authored, before>>

(* Mutant: the manifest names the plain backup of a file.                  *)
PlainManifest(r) ==
  /\ run[r].phase = "manifest"
  /\ manifest' = [manifest EXCEPT ![run[r].dir] =
       [by |-> r, slot |-> [f \in Files |->
          IF job[r][f].stage = "written" THEN 0 ELSE NoSlot]]]
  /\ Touch(run[r].dir)
  /\ Leave(r)
  /\ UNCHANGED <<disk, edits, backup, undo, authored, before>>

(* BackupManifest::write lists the files that have a backup_path.          *)
WriteManifest(r) ==
  /\ run[r].phase = "manifest"
  /\ manifest' = [manifest EXCEPT ![run[r].dir] =
       [by |-> r, slot |-> [f \in Files |->
          IF job[r][f].stage = "written" THEN job[r][f].slot ELSE NoSlot]]]
  /\ Touch(run[r].dir)
  /\ Leave(r)
  /\ UNCHANGED <<disk, edits, backup, undo, authored, before>>

(* The run ends early: the process is killed, the processing pass returns  *)
(* an error, or the manifest cannot be written, which is only logged.      *)
Stop(r) ==
  /\ Active(r)
  /\ Leave(r)
  /\ UNCHANGED <<disk, edits, backup, manifest, recent, undo, authored, before>>

-----------------------------------------------------------------------------
(* The user edits a file at any time but while one of the runs copies and  *)
(* replaces that very file.                                                *)
UserEdit(f) ==
  /\ ~Undoing
  /\ edits[f] < MaxEdits
  /\ \A r \in Runs : Active(r) => job[r][f].stage \notin {"copying", "copied"}
  /\ edits' = [edits EXCEPT ![f] = @ + 1]
  /\ disk' = [disk EXCEPT ![f] = [version |-> edits[f] + 1, formatted |-> FALSE]]
  /\ authored' = [authored EXCEPT ![f] = [version |-> edits[f] + 1, formatted |-> FALSE]]
  /\ UNCHANGED <<backup, run, job, manifest, recent, undo, before>>

-----------------------------------------------------------------------------
(* BackupManifest::restore, while no run is active.                        *)

HasManifest(d) == manifest[d].by # 0

(* The directory with a manifest that was modified last.                   *)
LatestDir ==
  LET dirs == SelectSeq(recent, HasManifest) IN dirs[Len(dirs)]

(* --undo, or --undo-run <RUN_ID>.                                         *)
UndoStart ==
  /\ ~Undoing
  /\ \A r \in Runs : ~Active(r)
  /\ \E d \in Dirs : HasManifest(d) /\ \E latest \in BOOLEAN :
       /\ latest => d = LatestDir
       /\ undo' = [dir |-> d, latest |-> latest, file |-> NoFile,
                   todo |-> {f \in Files : manifest[d].slot[f] # NoSlot}]
  /\ UNCHANGED <<disk, edits, backup, run, job, manifest, recent, authored, before>>

Saved(f) == backup[undo.dir][f][manifest[undo.dir].slot[f]]

(* fs::copy truncates the source file...                                   *)
BeginRestore(f) ==
  /\ undo.file = NoFile
  /\ f \in undo.todo
  /\ undo' = [undo EXCEPT !.file = f]
  /\ disk' = [disk EXCEPT ![f] = Torn]
  /\ authored' = [authored EXCEPT ![f] = Saved(f)]
  /\ UNCHANGED <<edits, backup, run, job, manifest, recent, before>>

(* ... and fills it.                                                       *)
EndRestore(f) ==
  /\ undo.file = f
  /\ undo' = [undo EXCEPT !.file = NoFile, !.todo = @ \ {f}]
  /\ disk' = [disk EXCEPT ![f] = Saved(f)]
  /\ UNCHANGED <<edits, backup, run, job, manifest, recent, authored, before>>

Restored == Undoing /\ undo.todo = {}

(* The undo ends: complete, by an error of fs::copy, or killed.            *)
UndoEnd ==
  /\ Undoing
  /\ undo' = NotUndoing
  /\ UNCHANGED <<disk, edits, backup, run, job, manifest, recent, authored, before>>

-----------------------------------------------------------------------------
RunStep(r) ==
  \/ Start(r) \/ EngineDone(r) \/ WriteDone(r) \/ WriteManifest(r) \/ Stop(r)
  \/ \E f \in Files :
       \/ Process(r, f) \/ NameBackup(r, f) \/ BeginCopy(r, f) \/ EndCopy(r, f)
       \/ Replace(r, f) \/ WriteFails(r, f)

Next ==
  \/ \E r \in Runs : RunStep(r)
  \/ \E f \in Files : UserEdit(f) \/ BeginRestore(f) \/ EndRestore(f)
  \/ UndoStart
  \/ UndoEnd

Spec == Init /\ [][Next]_vars

-----------------------------------------------------------------------------
(* What the backups promise.                                               *)

(* No text of the user is ever lost, whatever is killed when, and although *)
(* the write phase replaces files by texts computed from what the engine   *)
(* read long before: the text the user last wrote to a file, or asked to   *)
(* have back, is in the file or in a complete backup.                      *)
Recoverable ==
  \A f \in Files :
    \/ disk[f] = authored[f]
    \/ \E d \in Dirs, n \in Slots : backup[d][f][n] = authored[f]

(* An undo that comes to its end has put back every file the undone run    *)
(* replaced, as it was before that run: after any crashes of other runs,   *)
(* and of earlier attempts to undo, and with run directories used again.   *)
UndoComplete ==
  Restored =>
    \A f \in Files :
      LET old == before[manifest[undo.dir].by][f]
      IN old # Absent => manifest[undo.dir].slot[f] # NoSlot /\ disk[f] = old

(* A backup that a manifest lists is never overwritten.                    *)
ListedBackupsStay ==
  [][\A d \in Dirs, f \in Files : \A n \in Slots :
       manifest[d].slot[f] = n /\ manifest'[d] = manifest[d] =>
         backup'[d][f][n] = backup[d][f][n]]_vars

(* "Restore all files modified by the most recent formatter run from their *)
(* backups", as the help of --undo says.                                   *)
UndoRestoresLatestRun ==
  Restored /\ undo.latest =>
    \A r \in Runs : \A f \in Files :
      (/\ run[r].phase # "new" /\ \A q \in Runs : q > r => run[q].phase = "new"
       /\ before[r][f] # Absent) => disk[f] = before[r][f]

=============================================================================
