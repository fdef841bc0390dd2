-------------------------- MODULE FormatRunsProofs --------------------------
(***************************************************************************)
(* Proofs about FormatRuns, for any files, runs, user edits and            *)
(* directories: no text of the user is lost and no listed backup is        *)
(* overwritten when runs that overlap do not share a directory, and a      *)
(* complete undo is exact when runs do not overlap at all.                 *)
(*                                                                         *)
(* Recoverable is not inductive.  That a replacement loses nothing needs   *)
(* to know that the copy before it was taken of the text that is replaced, *)
(* or that the user's text was safe already (Jobs); that a backup destroys *)
(* nothing needs its name to be free still when the copy begins, hence     *)
(* that one run at a time works in a directory (Alone) and that there is   *)
(* always a free name (Room); and that an undo restores whole texts needs  *)
(* what a manifest lists to be complete (Listed).                          *)
(*                                                                         *)
(* And proofs about AtomicWriter, whose replacement of a file is one step  *)
(* of FormatRuns, for any calls on any paths, processes and threads: it is *)
(* atomic for every path whose calls share no temporary name with another  *)
(* call under way.  Nobody then writes to the inode of such a call until   *)
(* it renames it, or ever after: an inode has one name at most, whoever    *)
(* writes to it has come by that name, and whoever has the name is known   *)
(* to share it.                                                            *)
(***************************************************************************)
EXTENDS FormatRuns, AtomicWriter, TLAPS, WellFoundedInduction

(* Runs of different processes that are at work at the same time have run  *)
(* directories of their own: true of runs one after the other, and of runs *)
(* that do not start in the same millisecond.                              *)
OwnDirectories ==
  Overlap => \A r, q \in Runs : r # q => DirsOf[r] \cap DirsOf[q] = {}

Working == {"pending", "named", "copying", "copied"}

(* The text the user last wrote to a file is in a complete backup.         *)
Kept(f) == \E d \in Dirs, n \in Slots : backup[d][f][n] = authored[f]

Entries == [stage : Stages, text : Text \cup {Absent}, slot : Slots \cup {NoSlot}]

Shapes ==
  /\ disk \in [Files -> Text \cup {Torn}]
  /\ edits \in [Files -> 0 .. MaxEdits]
  /\ backup \in [Dirs -> [Files -> [Slots -> Text \cup {Torn, Absent}]]]
  /\ run \in [Runs -> [phase : Phases, dir : Dirs \cup {NoDir}]]
  /\ job \in [Runs -> [Files -> Entries]]
  /\ manifest \in [Dirs -> [by : 0 .. MaxRuns, slot : [Files -> Slots \cup {NoSlot}]]]
  /\ undo \in [dir : Dirs \cup {NoDir}, latest : BOOLEAN, todo : SUBSET Files,
               file : Files \cup {NoFile}]
  /\ authored \in [Files -> Text]
  /\ before \in [Runs -> [Files -> Text \cup {Absent}]]

(* Runs start in order; an active run has one of its directories.          *)
Started ==
  /\ \A r, q \in Runs : run[r].phase = "new" /\ r < q => run[q].phase = "new"
  /\ \A r \in Runs : IF Active(r) THEN run[r].dir \in DirsOf[r] ELSE job[r] = NoJobs

(* No two active runs work in one directory, and none while an undo works. *)
Alone ==
  /\ \A r, q \in Runs : Active(r) /\ Active(q) /\ run[r].dir = run[q].dir => r = q
  /\ Undoing => \A r \in Runs : ~Active(r)

(* A name that is taken was taken by a run that has started, and a run     *)
(* that has still to take one finds one among as many as there are runs    *)
(* before it.                                                              *)
Room ==
  /\ \A d \in Dirs, f \in Files, n \in Slots :
       backup[d][f][n] # Absent => \E q \in Runs : n < q /\ run[q].phase # "new"
  /\ \A r \in Runs, f \in Files, n \in Slots :
       Active(r) /\ job[r][f].stage \in {"todo", "pending", "named"}
         /\ backup[run[r].dir][f][n] # Absent => n + 1 < r

(* What a file's stage in a run says of its text and of its backup.        *)
Job(r, f) ==
  LET j == job[r][f]
      saved == backup[run[r].dir][f][j.slot]
  IN /\ j.stage \in Working => disk[f] \in Text /\ j.text \in Text
     /\ j.stage \in {"named", "copying", "copied", "written"} => j.slot \in Slots
     /\ j.stage \in {"named", "copying"} => j.slot < r
     /\ j.stage = "named" => saved = Absent
     /\ j.stage = "copying" => saved = Torn
     /\ j.stage \in {"copied", "written"} => saved \in Text
     /\ j.stage = "copied" => Kept(f)

Jobs == \A r \in Runs, f \in Files : Active(r) => Job(r, f)

(* What a manifest lists is complete.                                      *)
Listed ==
  \A d \in Dirs, f \in Files :
    manifest[d].slot[f] # NoSlot => backup[d][f][manifest[d].slot[f]] \in Text

(* An undo has still to restore only what its manifest lists, and what it  *)
(* is at is the text the user asked for.                                   *)
Asked ==
  /\ ~Undoing => undo.todo = {} /\ undo.file = NoFile
  /\ \A f \in Files : f \in undo.todo => manifest[undo.dir].slot[f] # NoSlot
  /\ \A f \in Files : undo.file = f => f \in undo.todo /\ authored[f] = Saved(f)

IInv ==
  /\ Shapes /\ Started /\ Alone /\ Room /\ Jobs /\ Listed /\ Asked
  /\ Recoverable

(* For exact undos, of runs that do not overlap: before a file is replaced *)
(* its backup is what is replaced, what has been replaced is known from    *)
(* then on, and files that were not replaced were never noted.             *)
Noted(r, f) ==
  LET saved == backup[run[r].dir][f][job[r][f].slot]
  IN /\ job[r][f].stage = "copied" => saved = disk[f]
     /\ IF job[r][f].stage = "written" THEN saved = before[r][f] ELSE before[r][f] = Absent

Exact ==
  /\ \A r, q \in Runs : Active(r) /\ Active(q) => r = q
  /\ \A r \in Runs, f \in Files : run[r].phase = "new" => before[r][f] = Absent
  /\ \A r \in Runs, f \in Files : Active(r) => Noted(r, f)
  /\ \A d \in Dirs : manifest[d].by # 0 =>
       /\ run[manifest[d].by].phase = "ended"
       /\ \A f \in Files : LET old == before[manifest[d].by][f] IN
            old # Absent => /\ manifest[d].slot[f] # NoSlot
                            /\ backup[d][f][manifest[d].slot[f]] = old
  /\ Undoing => /\ manifest[undo.dir].by # 0
                /\ \A f \in Files : f \notin undo.todo /\ manifest[undo.dir].slot[f] # NoSlot
                     => disk[f] = Saved(f)

-----------------------------------------------------------------------------
(* Facts about data.                                                       *)

LEMMA Texts ==
  /\ Torn \notin Text /\ Absent \notin Text /\ Torn # Absent
  /\ [version |-> 0, formatted |-> FALSE] \in Text
  /\ \A n \in 0 .. MaxEdits : [version |-> n, formatted |-> FALSE] \in Text
  /\ \A t \in Text : Formatted(t) \in Text
  /\ Formatted(Torn) = Torn
<1> USE FormatRunsAssumption DEF Text, Torn, Absent
<1>1. Torn \notin Text /\ Absent \notin Text
  <2>1. \A t \in Text : t.version >= 0
    OBVIOUS
  <2>2. Torn.version = -1 /\ Absent.version = -2
    OBVIOUS
  <2> QED
    BY <2>1, <2>2
<1>2. Torn # Absent
  <2>1. Torn.version # Absent.version
    OBVIOUS
  <2> QED
    BY <2>1
<1>3. [version |-> 0, formatted |-> FALSE] \in Text
  OBVIOUS
<1>4. \A n \in 0 .. MaxEdits : [version |-> n, formatted |-> FALSE] \in Text
  OBVIOUS
<1>5. \A t \in Text : Formatted(t) \in Text
  BY <1>1 DEF Formatted
<1>6. Formatted(Torn) = Torn
  BY DEF Formatted
<1> QED
  BY <1>1, <1>2, <1>3, <1>4, <1>5, <1>6

LEMMA SlotFacts == NoSlot \notin Slots /\ Slots \subseteq Nat /\ \A r \in Runs : r - 1 \in Slots
BY FormatRunsAssumption DEF NoSlot, Slots, Runs

LEMMA Least ==
  ASSUME NEW S \in SUBSET Nat, S # {}
  PROVE  \E m \in S : \A k \in S : m <= k
<1> DEFINE R == {p \in Nat \X Nat : p[1] < p[2]}
<1>1. IsWellFoundedOn(R, Nat)
  BY NatLessThanWellFounded DEF OpToRel
<1>2. \A k, m \in Nat : <<k, m>> \notin R => m <= k
  OBVIOUS
<1> HIDE DEF R
<1>3. \E m \in S : \A k \in S : <<k, m>> \notin R
  BY <1>1, WFMin
<1> QED
  BY <1>2, <1>3

(* make_backup finds a free name as long as there is one, and none before  *)
(* it is free.                                                             *)
LEMMA FreeSlotIsFree ==
  ASSUME NEW d \in Dirs, NEW f \in Files, NEW n \in Slots, backup[d][f][n] = Absent
  PROVE  FreeSlot(d, f) \in Slots /\ FreeSlot(d, f) <= n /\ backup[d][f][FreeSlot(d, f)] = Absent
<1> DEFINE S == {m \in Slots : backup[d][f][m] = Absent}
<1>1. S \in SUBSET Nat /\ S # {}
  BY SlotFacts
<1>2. PICK m \in S : \A k \in S : m <= k
  BY <1>1, Least
<1>3. /\ m \in Slots /\ backup[d][f][m] = Absent
      /\ \A k \in Slots : k < m => backup[d][f][k] # Absent
  BY <1>2, SlotFacts
<1>4. /\ FreeSlot(d, f) \in Slots /\ backup[d][f][FreeSlot(d, f)] = Absent
      /\ \A k \in Slots : k < FreeSlot(d, f) => backup[d][f][k] # Absent
  BY <1>3 DEF FreeSlot
<1>5. ~(n < FreeSlot(d, f))
  BY <1>4
<1>6. n \in Nat /\ FreeSlot(d, f) \in Nat
  BY <1>4, SlotFacts
<1> QED
  BY <1>4, <1>5, <1>6

(* What an entry says stays true while nothing it speaks of changes.       *)
LEMMA JobStays ==
  ASSUME NEW q, NEW g, Job(q, g), job'[q][g] = job[q][g], run'[q].dir = run[q].dir,
         UNCHANGED <<disk, backup, authored>>
  PROVE  Job(q, g)'
BY DEF Job, Kept

-----------------------------------------------------------------------------
THEOREM InitIInv == Init => IInv
<1> SUFFICES ASSUME Init PROVE IInv
  OBVIOUS
<1> USE FormatRunsAssumption DEF Init
<1>1. Shapes
  BY Texts, SlotFacts DEF Entries, Shapes, NoJobs, Phases, Stages, NotUndoing, Runs
<1>2. Started /\ Alone /\ Room /\ Jobs
  BY DEF Started, Alone, Room, Jobs, Active, Undoing, NotUndoing
<1>3. Listed /\ Asked /\ Recoverable
  BY DEF Listed, Asked, Recoverable, Undoing, NotUndoing, NoSlot
<1> QED
  BY <1>1, <1>2, <1>3 DEF IInv

LEMMA StartPreserves == ASSUME OwnDirectories, IInv, NEW r \in Runs, Start(r) PROVE IInv'
<1> USE FormatRunsAssumption DEF Start
<1>r. PICK d \in DirsOf[r] : run' = [run EXCEPT ![r] = [phase |-> "engine", dir |-> d]]
  BY DEF Start
<1>d. d \in Dirs
  BY DEF IInv, Shapes
<1>a. /\ run[r].phase = "new" /\ run'[r].phase = "engine" /\ run'[r].dir = d
      /\ \A q \in Runs \ {r} : run'[q] = run[q]
  BY <1>r DEF IInv, Shapes
<1>b. Active(r)' /\ ~Active(r) /\ \A q \in Runs \ {r} : Active(q)' <=> Active(q)
  BY <1>a DEF Active
<1>1. Shapes'
  BY <1>r, <1>d DEF IInv, Shapes, Phases
<1>2. Started'
  BY <1>a, <1>b DEF IInv, Started, Runs
<1>3. Alone'
  <2>1. ASSUME NEW q \in Runs, q # r, Active(q) PROVE run[q].dir # d
    BY <2>1 DEF OwnDirectories, IInv, Started
  <2> QED
    BY <1>a, <1>b, <2>1 DEF IInv, Alone, Undoing
<1>4. Room'
  <2>1. \A q \in Runs : run[q].phase # "new" => q < r
    BY <1>a DEF IInv, Started, Runs
  <2>2. ASSUME NEW f \in Files, NEW n \in Slots, backup[d][f][n] # Absent PROVE n + 1 < r
    BY <1>d, <2>1, <2>2, SlotFacts DEF IInv, Room, Runs
  <2> QED
    BY <1>a, <1>b, <2>2 DEF IInv, Room
<1>5. Jobs'
  <2>1. \A f \in Files : job[r][f].stage = "todo"
    BY <1>b DEF IInv, Started, NoJobs
  <2>2. \A f \in Files : Job(r, f)'
    BY <2>1 DEF Job, Working
  <2>3. \A q \in Runs \ {r}, f \in Files : Active(q)' => Job(q, f)'
    <3>1. ASSUME NEW q \in Runs \ {r}, NEW f \in Files, Active(q)' PROVE Job(q, f)'
      <4>1. Job(q, f) /\ run'[q].dir = run[q].dir
        BY <1>a, <1>b, <3>1 DEF IInv, Jobs
      <4> QED
        BY <4>1, JobStays
    <3> QED
      BY <3>1
  <2> QED
    BY <2>2, <2>3 DEF Jobs
<1>6. Listed' /\ Asked' /\ Recoverable'
  BY DEF IInv, Listed, Asked, Undoing, Saved, Recoverable
<1> QED
  BY <1>1, <1>2, <1>3, <1>4, <1>5, <1>6 DEF IInv

(***************************************************************************)
(* Steps of a run that change nothing but the entry of one of its files.   *)
(***************************************************************************)
Early == {"todo", "pending", "named"}

Turns(r, f, j) ==
  /\ Active(r)
  /\ job' = [job EXCEPT ![r][f] = j]
  /\ j \in Entries
  /\ j.stage \in Early => job[r][f].stage \in Early
  /\ UNCHANGED <<disk, edits, backup, run, manifest, undo, authored, before>>

LEMMA TurnsPreserve ==
  ASSUME IInv, NEW r \in Runs, NEW f \in Files, NEW j, Turns(r, f, j), Job(r, f)'
  PROVE  IInv'
<1> USE DEF Turns
<1>a. /\ job'[r][f] = j
      /\ \A q \in Runs, g \in Files : <<q, g>> # <<r, f>> => job'[q][g] = job[q][g]
      /\ \A q \in Runs \ {r} : job'[q] = job[q]
  BY DEF IInv, Shapes
<1>b. \A q \in Runs : Active(q)' <=> Active(q)
  BY DEF Active
<1>1. Shapes'
  BY DEF IInv, Shapes
<1>2. Started' /\ Alone'
  BY <1>a, <1>b DEF IInv, Started, Alone, Undoing
<1>3. Room'
  BY <1>a, <1>b DEF IInv, Room, Early
<1>4. Jobs'
  <2>1. ASSUME NEW q \in Runs, NEW g \in Files, <<q, g>> # <<r, f>>, Active(q) PROVE Job(q, g)'
    <3>1. Job(q, g) /\ job'[q][g] = job[q][g]
      BY <1>a, <2>1 DEF IInv, Jobs
    <3> QED
      BY <3>1, JobStays
  <2> QED
    BY <1>b, <2>1 DEF Jobs
<1>5. Listed' /\ Asked' /\ Recoverable'
  BY DEF IInv, Listed, Asked, Undoing, Saved, Recoverable
<1> QED
  BY <1>1, <1>2, <1>3, <1>4, <1>5 DEF IInv

LEMMA ProcessPreserves == ASSUME IInv, NEW r \in Runs, NEW f \in Files, Process(r, f) PROVE IInv'
<1>a. Active(r) /\ job[r][f].stage = "todo"
  BY DEF Process, Active
<1>b. job[r][f] \in Entries
  BY DEF IInv, Shapes
<1>1. CASE Formatted(disk[f]) # disk[f] /\ job' = [job EXCEPT ![r][f].stage = "pending", ![r][f].text = Formatted(disk[f])]
  <2>1. disk[f] \in Text /\ Formatted(disk[f]) \in Text
    BY <1>1, Texts DEF IInv, Shapes
  <2> DEFINE j == [job[r][f] EXCEPT !.stage = "pending", !.text = Formatted(disk[f])]
  <2>a. j \in Entries /\ j.stage = "pending"
    BY <1>b, <2>1 DEF Entries, Stages
  <2>b. job' = [job EXCEPT ![r][f] = j]
    BY <1>1 DEF IInv, Shapes
  <2> HIDE DEF j
  <2>2. Turns(r, f, j)
    BY <1>a, <2>a, <2>b DEF Turns, Process, Early
  <2>3. job'[r][f] = j
    BY <2>2 DEF Turns, IInv, Shapes
  <2>4. Job(r, f)'
    <3>1. disk' = disk /\ j.text \in Text
      BY <1>b, <2>1 DEF Process, Entries, j
    <3> QED
      BY <2>1, <2>3, <2>a, <3>1 DEF Job
  <2> QED
    BY <2>2, <2>4, TurnsPreserve
<1>2. ASSUME NEW stage \in {"unchanged", "error"}, Move(r, f, stage) PROVE IInv'
  <2> DEFINE j == [job[r][f] EXCEPT !.stage = stage]
  <2>2. Turns(r, f, j)
    BY <1>2, <1>a, <1>b DEF Entries, Turns, Process, Move, Early, Stages, IInv, Shapes
  <2>3. job'[r][f] = j
    BY <2>2 DEF Turns, IInv, Shapes
  <2>4. Job(r, f)'
    BY <1>b, <2>3 DEF Job, Working
  <2> QED
    BY <2>2, <2>4, TurnsPreserve
<1> QED
  BY <1>1, <1>2 DEF Process

(* The name that make_backup picks is free, and stays within the room.     *)
LEMMA NameBackupPreserves ==
  ASSUME IInv, NEW r \in Runs, NEW f \in Files, NameBackup(r, f) PROVE IInv'
<1>a. Active(r) /\ job[r][f].stage = "pending"
  BY DEF NameBackup, Active
<1>b. job[r][f] \in Entries
  BY DEF IInv, Shapes
<1>c. run[r].dir \in Dirs
  BY <1>a, FormatRunsAssumption DEF IInv, Started
<1> DEFINE n == FreeSlot(run[r].dir, f)
<1>d. backup[run[r].dir][f][r - 1] = Absent
  BY <1>a, SlotFacts DEF IInv, Room, Runs
<1>1. n \in Slots /\ n <= r - 1 /\ backup[run[r].dir][f][n] = Absent
  BY <1>c, <1>d, SlotFacts, FreeSlotIsFree
<1> HIDE DEF n
<1> DEFINE j == [job[r][f] EXCEPT !.stage = "named", !.slot = n]
<1>2. job' = [job EXCEPT ![r][f].stage = "named", ![r][f].slot = n]
  BY DEF NameBackup, n
<1>3. Turns(r, f, j)
  <2>1. job' = [job EXCEPT ![r][f] = j]
    BY <1>2 DEF IInv, Shapes
  <2>2. j \in Entries
    BY <1>b, <1>1 DEF Entries, Stages
  <2>3. job[r][f].stage \in Early
    BY <1>a DEF Early
  <2> QED
    BY <1>a, <2>1, <2>2, <2>3 DEF Turns, NameBackup
<1>4. /\ job'[r][f].stage = "named" /\ job'[r][f].slot = n
      /\ job'[r][f].text = job[r][f].text
  BY <1>b, <1>2 DEF IInv, Shapes
<1>5. n < r
  BY <1>1, SlotFacts DEF Runs
<1>6. disk[f] \in Text /\ job[r][f].text \in Text
  BY <1>a DEF IInv, Jobs, Job, Working
<1>7. Job(r, f)'
  BY <1>1, <1>4, <1>5, <1>6 DEF Job, NameBackup
<1> QED
  BY <1>3, <1>7, TurnsPreserve

LEMMA WriteFailsPreserves ==
  ASSUME IInv, NEW r \in Runs, NEW f \in Files, WriteFails(r, f) PROVE IInv'
<1>a. Active(r)
  BY DEF WriteFails, Active
<1>b. job[r][f] \in Entries
  BY DEF IInv, Shapes
<1> DEFINE j == [job[r][f] EXCEPT !.stage = "error"]
<1>1. Turns(r, f, j)
  BY <1>a, <1>b DEF Entries, Turns, WriteFails, Move, Early, Stages, IInv, Shapes
<1>2. job'[r][f] = j
  BY <1>1 DEF Turns, IInv, Shapes
<1>3. Job(r, f)'
  BY <1>b, <1>2 DEF Job, Working
<1> QED
  BY <1>1, <1>3, TurnsPreserve

(***************************************************************************)
(* Steps of a run from phase to phase, and out of the last one.            *)
(***************************************************************************)
LEMMA EnterTyped ==
  ASSUME run \in [Runs -> [phase : Phases, dir : Dirs \cup {NoDir}]],
         NEW r \in Runs, NEW p \in Phases, Enter(r, p)
  PROVE  run' \in [Runs -> [phase : Phases, dir : Dirs \cup {NoDir}]]
<1>1. run[r] \in [phase : Phases, dir : Dirs \cup {NoDir}]
  OBVIOUS
<1>2. [run[r] EXCEPT !.phase = p] \in [phase : Phases, dir : Dirs \cup {NoDir}]
  BY <1>1
<1>3. run' = [run EXCEPT ![r] = [run[r] EXCEPT !.phase = p]]
  BY DEF Enter
<1> QED
  BY <1>2, <1>3

LEMMA EnterPreserves ==
  ASSUME IInv, NEW r \in Runs, Active(r), NEW p \in {"engine", "write", "manifest"}, Enter(r, p),
         UNCHANGED <<disk, edits, backup, job, manifest, undo, authored, before>>
  PROVE  IInv'
<1>a. /\ run'[r].phase = p /\ run'[r].dir = run[r].dir
      /\ \A q \in Runs \ {r} : run'[q] = run[q]
  BY DEF IInv, Shapes, Enter
<1>b. \A q \in Runs : Active(q)' <=> Active(q)
  BY <1>a DEF Active
<1>c. \A q \in Runs : run'[q].phase = "new" <=> run[q].phase = "new"
  BY <1>a DEF Active
<1>d. \A q \in Runs : run'[q].dir = run[q].dir
  BY <1>a
<1>1. Shapes'
  <2>1. run' \in [Runs -> [phase : Phases, dir : Dirs \cup {NoDir}]]
    BY EnterTyped DEF IInv, Shapes, Phases
  <2> QED
    BY <2>1 DEF IInv, Shapes
<1>2. Started' /\ Alone'
  BY <1>b, <1>c, <1>d DEF IInv, Started, Alone, Undoing
<1>3. Room'
  BY <1>b, <1>c, <1>d DEF IInv, Room
<1>4. Jobs'
  <2>1. ASSUME NEW q \in Runs, NEW g \in Files, Active(q) PROVE Job(q, g)'
    BY <1>d, <2>1, JobStays DEF IInv, Jobs
  <2> QED
    BY <1>b, <2>1 DEF Jobs
<1>5. Listed' /\ Asked' /\ Recoverable'
  BY DEF IInv, Listed, Asked, Undoing, Saved, Recoverable
<1> QED
  BY <1>1, <1>2, <1>3, <1>4, <1>5 DEF IInv

LEMMA EngineDonePreserves == ASSUME IInv, NEW r \in Runs, EngineDone(r) PROVE IInv'
BY EnterPreserves DEF EngineDone, Active

LEMMA WriteDonePreserves == ASSUME IInv, NEW r \in Runs, WriteDone(r) PROVE IInv'
BY EnterPreserves DEF WriteDone, Active

(* A run that leaves may have rewritten the manifest of its directory; what*)
(* it lists then it has copied.                                            *)
LEMMA LeavePreserves ==
  ASSUME IInv, NEW r \in Runs, Active(r), Leave(r),
         UNCHANGED <<disk, edits, backup, undo, authored, before>>,
         manifest' \in [Dirs -> [by : 0 .. MaxRuns, slot : [Files -> Slots \cup {NoSlot}]]],
         Listed'
  PROVE  IInv'
<1>a. /\ run'[r].phase = "ended" /\ job'[r] = NoJobs
      /\ \A q \in Runs \ {r} : run'[q] = run[q] /\ job'[q] = job[q]
  BY DEF IInv, Shapes, Leave, Enter
<1>b. ~Active(r)' /\ \A q \in Runs \ {r} : Active(q)' <=> Active(q)
  BY <1>a DEF Active
<1>c. \A q \in Runs : run'[q].phase = "new" <=> run[q].phase = "new"
  BY <1>a DEF Active
<1>d. ~Undoing
  BY DEF IInv, Alone
<1>1. Shapes'
  <2>1. run' \in [Runs -> [phase : Phases, dir : Dirs \cup {NoDir}]]
    BY EnterTyped DEF IInv, Shapes, Leave, Phases
  <2>2. NoJobs \in [Files -> Entries]
    BY DEF Entries, NoJobs, Stages
  <2>3. job' \in [Runs -> [Files -> Entries]]
    BY <2>2 DEF IInv, Shapes, Leave
  <2> QED
    BY <2>1, <2>3 DEF IInv, Shapes
<1>2. Started' /\ Alone'
  BY <1>a, <1>b, <1>c, <1>d DEF IInv, Started, Alone, Undoing
<1>3. Room'
  BY <1>a, <1>b, <1>c DEF IInv, Room
<1>4. Jobs'
  <2>1. ASSUME NEW q \in Runs \ {r}, NEW g \in Files, Active(q) PROVE Job(q, g)'
    <3>1. Job(q, g) /\ run'[q].dir = run[q].dir /\ job'[q][g] = job[q][g]
      BY <1>a, <2>1 DEF IInv, Jobs
    <3> QED
      BY <3>1, JobStays
  <2> QED
    BY <1>b, <2>1 DEF Jobs
<1>5. Asked' /\ Recoverable'
  BY <1>d, FormatRunsAssumption DEF IInv, Asked, Undoing, Recoverable
<1> QED
  BY <1>1, <1>2, <1>3, <1>4, <1>5 DEF IInv

LEMMA StopPreserves == ASSUME IInv, NEW r \in Runs, Stop(r) PROVE IInv'
<1>1. Listed'
  BY DEF IInv, Listed, Stop
<1> QED
  BY <1>1, LeavePreserves DEF Stop, IInv, Shapes

LEMMA WriteManifestPreserves == ASSUME IInv, NEW r \in Runs, WriteManifest(r) PROVE IInv'
<1> DEFINE m == [by |-> r, slot |-> [f \in Files |->
                   IF job[r][f].stage = "written" THEN job[r][f].slot ELSE NoSlot]]
           d == run[r].dir
<1>a. Active(r) /\ d \in Dirs
  BY FormatRunsAssumption DEF WriteManifest, Active, IInv, Started
<1>b. m \in [by : 0 .. MaxRuns, slot : [Files -> Slots \cup {NoSlot}]]
  BY FormatRunsAssumption DEF IInv, Shapes, Entries, Runs
<1>c. manifest' = [manifest EXCEPT ![d] = m]
  BY DEF WriteManifest
<1>1. ASSUME NEW f \in Files, m.slot[f] # NoSlot PROVE backup[d][f][m.slot[f]] \in Text
  BY <1>a, <1>1 DEF IInv, Jobs, Job
<1> HIDE DEF m, d
<1>2. manifest' \in [Dirs -> [by : 0 .. MaxRuns, slot : [Files -> Slots \cup {NoSlot}]]]
  BY <1>a, <1>b, <1>c DEF IInv, Shapes
<1>3. manifest'[d] = m /\ \A e \in Dirs \ {d} : manifest'[e] = manifest[e]
  BY <1>a, <1>c DEF IInv, Shapes
<1>4. Listed'
  BY <1>1, <1>3 DEF IInv, Listed, WriteManifest
<1> QED
  BY <1>a, <1>2, <1>4, LeavePreserves DEF WriteManifest

(***************************************************************************)
(* Backups.                                                                *)
(***************************************************************************)
Put(d, f, n, t) == backup' = [backup EXCEPT ![d][f][n] = t]

(* What does not overwrite a complete backup loses none.                   *)
LEMMA PutLosesNothing ==
  ASSUME IInv, NEW d \in Dirs, NEW f \in Files, NEW n \in Slots, backup[d][f][n] \notin Text,
         NEW t \in Text \cup {Torn}, Put(d, f, n, t)
  PROVE  /\ backup' \in [Dirs -> [Files -> [Slots -> Text \cup {Torn, Absent}]]]
         /\ backup'[d][f][n] = t
         /\ \A e \in Dirs, g \in Files : <<e, g>> # <<d, f>> => backup'[e][g] = backup[e][g]
         /\ \A m \in Slots : m # n => backup'[d][f][m] = backup[d][f][m]
         /\ \A e \in Dirs, g \in Files, m \in Slots :
              backup[e][g][m] \in Text => backup'[e][g][m] = backup[e][g][m]
<1> USE DEF Put
<1>1. backup \in [Dirs -> [Files -> [Slots -> Text \cup {Torn, Absent}]]]
  BY DEF IInv, Shapes
<1>2. backup'[d][f][n] = t
  BY <1>1
<1>3. \A e \in Dirs, g \in Files : <<e, g>> # <<d, f>> => backup'[e][g] = backup[e][g]
  BY <1>1
<1>4. \A m \in Slots : m # n => backup'[d][f][m] = backup[d][f][m]
  BY <1>1
<1>5. backup' \in [Dirs -> [Files -> [Slots -> Text \cup {Torn, Absent}]]]
  BY <1>1
<1> QED
  BY <1>2, <1>3, <1>4, <1>5

LEMMA MoveTyped ==
  ASSUME job \in [Runs -> [Files -> Entries]],
         NEW r \in Runs, NEW f \in Files, NEW stage \in Stages, Move(r, f, stage)
  PROVE  /\ job' \in [Runs -> [Files -> Entries]]
         /\ job'[r][f].stage = stage
         /\ job'[r][f].slot = job[r][f].slot /\ job'[r][f].text = job[r][f].text
         /\ \A q \in Runs, g \in Files : <<q, g>> # <<r, f>> => job'[q][g] = job[q][g]
         /\ \A q \in Runs \ {r} : job'[q] = job[q]
<1> DEFINE j == [job[r][f] EXCEPT !.stage = stage]
<1>1. job[r][f] \in Entries
  OBVIOUS
<1>2. /\ j \in Entries
      /\ j.stage = stage /\ j.slot = job[r][f].slot /\ j.text = job[r][f].text
  BY <1>1 DEF Entries
<1>3. job' = [job EXCEPT ![r][f] = j]
  BY DEF Move
<1> HIDE DEF j
<1>4. job' \in [Runs -> [Files -> Entries]]
  BY <1>2, <1>3
<1>5. /\ job'[r][f] = j
      /\ \A q \in Runs, g \in Files : <<q, g>> # <<r, f>> => job'[q][g] = job[q][g]
      /\ \A q \in Runs \ {r} : job'[q] = job[q]
  BY <1>3
<1> QED
  BY <1>2, <1>4, <1>5 DEF j

(* A run that puts something into a name of its own, which held no text.   *)
LEMMA PutPreserves ==
  ASSUME IInv, NEW r \in Runs, NEW f \in Files, Active(r),
         job[r][f].slot \in Slots, job[r][f].slot < r,
         job[r][f].stage \in {"named", "copying"},
         NEW t \in Text \cup {Torn},
         backup' = [backup EXCEPT ![run[r].dir][f][job[r][f].slot] = t],
         NEW stage \in {"copying", "copied"}, Move(r, f, stage), Job(r, f)',
         UNCHANGED <<disk, edits, run, manifest, undo, authored, before>>
  PROVE  IInv'
<1> DEFINE d == run[r].dir
           n == job[r][f].slot
<1>a. d \in Dirs /\ n \in Slots /\ backup[d][f][n] \notin Text
  BY Texts, FormatRunsAssumption DEF IInv, Started, Jobs, Job
<1>p. Put(d, f, n, t)
  BY DEF Put
<1>f. \A q \in Runs \ {r} : Active(q) => run[q].dir \in Dirs /\ run[q].dir # d
  BY FormatRunsAssumption DEF IInv, Started, Alone
<1>h. run[r].phase # "new" /\ n < r /\ run[r].dir = d
  BY DEF Active
<1> HIDE DEF d, n
<1>b. /\ backup' \in [Dirs -> [Files -> [Slots -> Text \cup {Torn, Absent}]]]
      /\ backup'[d][f][n] = t
      /\ \A e \in Dirs, g \in Files : <<e, g>> # <<d, f>> => backup'[e][g] = backup[e][g]
      /\ \A m \in Slots : m # n => backup'[d][f][m] = backup[d][f][m]
      /\ \A e \in Dirs, g \in Files, m \in Slots :
           backup[e][g][m] \in Text => backup'[e][g][m] = backup[e][g][m]
  BY <1>a, <1>p, PutLosesNothing
<1>i. ASSUME NEW e \in Dirs, NEW g \in Files, NEW m \in Slots, backup[e][g][m] \in Text
      PROVE  backup'[e][g][m] = backup[e][g][m]
  BY <1>b, <1>i
<1>c. /\ job' \in [Runs -> [Files -> Entries]]
      /\ job'[r][f].stage = stage
      /\ \A q \in Runs, g \in Files : <<q, g>> # <<r, f>> => job'[q][g] = job[q][g]
      /\ \A q \in Runs \ {r} : job'[q] = job[q]
  <2>1. stage \in Stages
    BY DEF Stages
  <2>2. job \in [Runs -> [Files -> Entries]]
    BY DEF IInv, Shapes
  <2> QED
    BY <2>1, <2>2, MoveTyped
<1>d. \A q \in Runs : Active(q)' <=> Active(q)
  BY DEF Active
<1>e. ~Undoing
  BY DEF IInv, Alone
<1>g. ASSUME NEW g \in Files, Kept(g) PROVE Kept(g)'
  <2>1. PICK e \in Dirs, m \in Slots : backup[e][g][m] = authored[g]
    BY <1>g DEF Kept
  <2>2. authored[g] \in Text
    BY DEF IInv, Shapes
  <2>3. backup[e][g][m] \in Text /\ authored' = authored
    BY <2>1, <2>2
  <2>4. backup'[e][g][m] = authored'[g]
    BY <1>i, <2>1, <2>3
  <2> QED
    BY <2>4 DEF Kept
<1>1. Shapes'
  BY <1>b, <1>c DEF IInv, Shapes
<1>2. Started' /\ Alone'
  BY <1>c, <1>d DEF IInv, Started, Alone, Undoing
<1>3. Room'
  <2>1. \A e \in Dirs, g \in Files, m \in Slots :
          backup'[e][g][m] # Absent => \E q \in Runs : m < q /\ run[q].phase # "new"
    BY <1>b, <1>h DEF IInv, Room
  <2>2. ASSUME NEW q \in Runs, NEW g \in Files, NEW m \in Slots, Active(q),
               job'[q][g].stage \in {"todo", "pending", "named"}, backup'[run[q].dir][g][m] # Absent
        PROVE  m + 1 < q
    <3>1. <<q, g>> # <<r, f>> /\ job'[q][g] = job[q][g]
      BY <1>c, <2>2
    <3>2. run[q].dir \in Dirs /\ <<run[q].dir, g>> # <<d, f>>
      BY <1>a, <1>f, <1>h, <2>2, <3>1
    <3>3. backup[run[q].dir][g][m] # Absent
      BY <1>b, <2>2, <3>2
    <3> QED
      BY <2>2, <3>1, <3>3 DEF IInv, Room
  <2> QED
    BY <1>d, <2>1, <2>2 DEF Room
<1>4. Jobs'
  <2>1. ASSUME NEW q \in Runs, NEW g \in Files, <<q, g>> # <<r, f>>, Active(q) PROVE Job(q, g)'
    <3>1. job'[q][g] = job[q][g] /\ run[q].dir \in Dirs /\ <<run[q].dir, g>> # <<d, f>>
      BY <1>a, <1>c, <1>f, <1>h, <2>1
    <3>2. backup'[run[q].dir][g] = backup[run[q].dir][g]
      BY <1>b, <3>1
    <3>3. Job(q, g)
      BY <2>1 DEF IInv, Jobs
    <3>4. Kept(g) => Kept(g)'
      BY <1>g
    <3> QED
      BY <3>1, <3>2, <3>3, <3>4 DEF Job
  <2> QED
    BY <1>d, <2>1 DEF Jobs
<1>5. Listed'
  <2>1. ASSUME NEW e \in Dirs, NEW g \in Files, manifest[e].slot[g] # NoSlot
        PROVE  backup'[e][g][manifest[e].slot[g]] \in Text
    <3> DEFINE m == manifest[e].slot[g]
    <3>1. backup[e][g][m] \in Text /\ m \in Slots
      BY <2>1 DEF IInv, Listed, Shapes
    <3> HIDE DEF m
    <3>2. backup'[e][g][m] = backup[e][g][m]
      BY <1>i, <3>1
    <3> QED
      BY <3>1, <3>2 DEF m
  <2>2. manifest' = manifest
    BY DEF IInv
  <2> QED
    BY <2>1, <2>2 DEF Listed
<1>6. Asked'
  BY <1>e, FormatRunsAssumption DEF IInv, Asked, Undoing
<1>7. Recoverable'
  BY <1>g DEF IInv, Recoverable, Kept
<1> QED
  BY <1>1, <1>2, <1>3, <1>4, <1>5, <1>6, <1>7 DEF IInv

LEMMA BeginCopyPreserves ==
  ASSUME IInv, NEW r \in Runs, NEW f \in Files, BeginCopy(r, f) PROVE IInv'
<1>1. Active(r) /\ Job(r, f) /\ job[r][f].stage = "named"
  BY DEF BeginCopy, Active, IInv, Jobs
<1>2. job[r][f].slot \in Slots /\ job[r][f].slot < r /\ disk[f] \in Text /\ job[r][f].text \in Text
  BY <1>1 DEF Job, Working
<1>3. run[r].dir \in Dirs
  BY <1>1, FormatRunsAssumption DEF IInv, Started
<1>4. /\ job'[r][f].stage = "copying" /\ job'[r][f].slot = job[r][f].slot
      /\ job'[r][f].text = job[r][f].text
      /\ backup'[run[r].dir][f][job[r][f].slot] = Torn
  BY <1>2, <1>3 DEF IInv, Shapes, BeginCopy, Move
<1>5. Job(r, f)'
  BY <1>2, <1>4 DEF Job, BeginCopy
<1> QED
  BY <1>1, <1>2, <1>5, PutPreserves DEF BeginCopy

(* The copy is taken of the user's last text, or that text is safe already.*)
LEMMA EndCopyPreserves ==
  ASSUME IInv, NEW r \in Runs, NEW f \in Files, EndCopy(r, f) PROVE IInv'
<1> DEFINE d == run[r].dir
           n == job[r][f].slot
<1>1. Active(r) /\ Job(r, f) /\ job[r][f].stage = "copying"
  BY DEF EndCopy, Active, IInv, Jobs
<1>2. n \in Slots /\ n < r /\ disk[f] \in Text /\ job[r][f].text \in Text /\ backup[d][f][n] = Torn
  BY <1>1 DEF Job, Working
<1>3. d \in Dirs
  BY <1>1, FormatRunsAssumption DEF IInv, Started
<1>4. /\ job'[r][f].stage = "copied" /\ job'[r][f].slot = n
      /\ job'[r][f].text = job[r][f].text
      /\ backup'[d][f][n] = disk[f]
  BY <1>2, <1>3 DEF IInv, Shapes, EndCopy, Move
<1>5. Kept(f)'
  <2>1. CASE disk[f] = authored[f]
    <3>1. backup'[d][f][n] = authored'[f]
      BY <1>4, <2>1 DEF EndCopy
    <3> QED
      BY <1>2, <1>3, <3>1 DEF Kept
  <2>2. CASE disk[f] # authored[f]
    <3>1. PICK e \in Dirs, m \in Slots : backup[e][f][m] = authored[f]
      BY <2>2 DEF IInv, Recoverable
    <3>2. backup[e][f][m] \in Text
      BY <3>1 DEF IInv, Shapes
    <3>3. Put(d, f, n, disk[f])
      BY DEF Put, EndCopy
    <3>4. backup'[e][f][m] = backup[e][f][m]
      BY <1>2, <1>3, <3>2, <3>3, Texts, PutLosesNothing
    <3> QED
      BY <3>1, <3>4 DEF Kept, EndCopy
  <2> QED
    BY <2>1, <2>2
<1>6. Job(r, f)'
  BY <1>2, <1>4, <1>5 DEF Job, EndCopy
<1> QED
  BY <1>1, <1>2, <1>6, PutPreserves DEF EndCopy

(* A file is replaced only when its backup is complete.                    *)
LEMMA ReplacePreserves ==
  ASSUME IInv, NEW r \in Runs, NEW f \in Files, Replace(r, f) PROVE IInv'
<1>1. Active(r) /\ Job(r, f) /\ job[r][f].stage = "copied"
  BY DEF Replace, Active, IInv, Jobs
<1>2. /\ job[r][f].text \in Text /\ disk[f] \in Text /\ Kept(f) /\ job[r][f].slot \in Slots
      /\ backup[run[r].dir][f][job[r][f].slot] \in Text
  BY <1>1 DEF Job, Working
<1>3. /\ job' \in [Runs -> [Files -> Entries]]
      /\ job'[r][f].stage = "written" /\ job'[r][f].slot = job[r][f].slot
      /\ \A q \in Runs, g \in Files : <<q, g>> # <<r, f>> => job'[q][g] = job[q][g]
      /\ \A q \in Runs \ {r} : job'[q] = job[q]
  <2>1. job \in [Runs -> [Files -> Entries]] /\ "written" \in Stages /\ Move(r, f, "written")
    BY DEF IInv, Shapes, Stages, Replace
  <2> QED
    BY <2>1, MoveTyped
<1>4. /\ disk' \in [Files -> Text \cup {Torn}] /\ disk'[f] \in Text
      /\ \A g \in Files \ {f} : disk'[g] = disk[g]
  BY <1>2 DEF IInv, Shapes, Replace
<1>5. before' \in [Runs -> [Files -> Text \cup {Absent}]]
  BY <1>2 DEF IInv, Shapes, Replace
<1>6. \A q \in Runs : Active(q)' <=> Active(q)
  BY DEF Active, Replace
<1>7. ~Undoing
  BY <1>1 DEF IInv, Alone
<1>8. Shapes'
  BY <1>3, <1>4, <1>5 DEF IInv, Shapes, Replace
<1>9. Started' /\ Alone'
  BY <1>1, <1>3, <1>6 DEF IInv, Started, Alone, Undoing, Replace
<1>10. Room'
  <2>1. \A q \in Runs, g \in Files : job'[q][g].stage \in {"todo", "pending", "named"}
                                       => job'[q][g] = job[q][g]
    BY <1>3
  <2> QED
    BY <1>6, <2>1 DEF IInv, Room, Replace
<1>11. Jobs'
  <2>1. ASSUME NEW q \in Runs, NEW g \in Files, Active(q), <<q, g>> # <<r, f>> PROVE Job(q, g)'
    <3>1. Job(q, g) /\ (disk[g] \in Text => disk'[g] \in Text)
      BY <1>4, <2>1 DEF IInv, Jobs
    <3> QED
      BY <1>3, <2>1, <3>1 DEF Job, Kept, Replace
  <2>2. Job(r, f)'
    BY <1>2, <1>3 DEF Job, Working, Replace
  <2> QED
    BY <1>6, <2>1, <2>2 DEF Jobs
<1>12. Listed' /\ Asked'
  BY <1>7, FormatRunsAssumption DEF IInv, Listed, Asked, Undoing, Replace
<1>13. Recoverable'
  BY <1>2, <1>4 DEF IInv, Recoverable, Kept, Replace
<1> QED
  BY <1>8, <1>9, <1>10, <1>11, <1>12, <1>13 DEF IInv

LEMMA UserEditPreserves == ASSUME IInv, NEW f \in Files, UserEdit(f) PROVE IInv'
<1> DEFINE t == [version |-> edits[f] + 1, formatted |-> FALSE]
<1>1. edits[f] + 1 \in 0 .. MaxEdits
  BY FormatRunsAssumption DEF IInv, Shapes, UserEdit
<1>2. t \in Text
  BY <1>1, Texts
<1>3. disk' = [disk EXCEPT ![f] = t] /\ authored' = [authored EXCEPT ![f] = t]
  BY DEF UserEdit
<1> HIDE DEF t
<1>4. /\ disk' \in [Files -> Text \cup {Torn}] /\ authored' \in [Files -> Text]
      /\ disk'[f] = t /\ authored'[f] = t
      /\ \A g \in Files \ {f} : disk'[g] = disk[g] /\ authored'[g] = authored[g]
  BY <1>2, <1>3 DEF IInv, Shapes
<1>5. edits' \in [Files -> 0 .. MaxEdits]
  BY <1>1 DEF IInv, Shapes, UserEdit
<1>6. Shapes'
  BY <1>4, <1>5 DEF IInv, Shapes, UserEdit
<1>7. Started' /\ Alone' /\ Room' /\ Listed' /\ Asked'
  BY FormatRunsAssumption
     DEF IInv, Started, Alone, Room, Listed, Asked, Active, Undoing, UserEdit
<1>8. Jobs'
  <2>1. ASSUME NEW q \in Runs, NEW g \in Files, Active(q) PROVE Job(q, g)'
    <3>1. Job(q, g) /\ (disk[g] \in Text => disk'[g] \in Text)
      BY <1>2, <1>4, <2>1 DEF IInv, Jobs
    <3>2. job[q][g].stage = "copied" => Kept(g)'
      <4>1. job[q][g].stage = "copied" => g # f
        BY <2>1 DEF UserEdit
      <4> QED
        BY <1>4, <3>1, <4>1 DEF Job, Kept, UserEdit
    <3> QED
      BY <3>1, <3>2 DEF Job, UserEdit
  <2> QED
    BY <2>1 DEF Jobs, Active, UserEdit
<1>9. Recoverable'
  BY <1>4 DEF IInv, Recoverable, UserEdit
<1> QED
  BY <1>6, <1>7, <1>8, <1>9 DEF IInv

(***************************************************************************)
(* The undo.                                                               *)
(***************************************************************************)
Undos == [dir : Dirs \cup {NoDir}, latest : BOOLEAN, todo : SUBSET Files,
          file : Files \cup {NoFile}]

LEMMA UndoStartPreserves == ASSUME IInv, UndoStart PROVE IInv'
<1>1. PICK d \in Dirs, latest \in BOOLEAN :
        /\ HasManifest(d)
        /\ undo' = [dir |-> d, latest |-> latest, file |-> NoFile,
                    todo |-> {f \in Files : manifest[d].slot[f] # NoSlot}]
  BY DEF UndoStart
<1>2. undo' \in Undos /\ undo'.dir = d /\ undo'.file = NoFile
      /\ undo'.todo = {f \in Files : manifest[d].slot[f] # NoSlot}
  BY <1>1 DEF Undos
<1>3. Shapes'
  BY <1>2 DEF IInv, Shapes, Undos, UndoStart
<1>4. Started' /\ Alone' /\ Room' /\ Jobs' /\ Listed' /\ Recoverable'
  <2>1. UNCHANGED <<disk, backup, run, job, manifest, authored>> /\ \A q \in Runs : ~Active(q)
    BY DEF UndoStart, Active
  <2>2. \A q \in Runs : ~Active(q)'
    BY <2>1 DEF Active
  <2>3. Started' /\ Alone'
    BY <2>1, <2>2 DEF IInv, Started, Alone, Active
  <2>4. Room' /\ Jobs'
    BY <2>1, <2>2 DEF IInv, Room, Jobs
  <2>5. Listed' /\ Recoverable'
    BY <2>1 DEF IInv, Listed, Recoverable
  <2> QED
    BY <2>3, <2>4, <2>5
<1>5. Asked'
  BY <1>2, FormatRunsAssumption DEF Asked, Undoing, UndoStart
<1> QED
  BY <1>3, <1>4, <1>5 DEF IInv

(* What is restored is complete, and from then on the text to be kept.     *)
LEMMA BeginRestorePreserves == ASSUME IInv, NEW f \in Files, BeginRestore(f) PROVE IInv'
<1> DEFINE d == undo.dir
           n == manifest[undo.dir].slot[f]
<1>1. Undoing /\ n # NoSlot /\ undo \in Undos
  BY DEF BeginRestore, IInv, Asked, Shapes, Undos
<1>2. d \in Dirs
  BY <1>1 DEF Undos, Undoing
<1>3. n \in Slots /\ Saved(f) = backup[d][f][n] /\ Saved(f) \in Text
  BY <1>1, <1>2 DEF IInv, Shapes, Listed, Saved
<1>4. \A r \in Runs : ~Active(r)
  BY <1>1 DEF IInv, Alone
<1>5. /\ undo' \in Undos /\ undo'.file = f /\ undo'.dir = d /\ undo'.todo = undo.todo
  BY <1>1 DEF Undos, BeginRestore
<1>6. /\ disk' \in [Files -> Text \cup {Torn}] /\ authored' \in [Files -> Text]
      /\ authored'[f] = Saved(f) /\ \A g \in Files \ {f} : disk'[g] = disk[g] /\ authored'[g] = authored[g]
  BY <1>3 DEF IInv, Shapes, BeginRestore
<1>7. Shapes'
  BY <1>5, <1>6 DEF IInv, Shapes, Undos, BeginRestore
<1>8. Started' /\ Alone' /\ Room' /\ Listed'
  BY <1>4, <1>5 DEF IInv, Started, Alone, Room, Listed, Active, Undoing, BeginRestore
<1>9. Jobs'
  BY <1>4 DEF Jobs, Active, BeginRestore
<1>10. Asked'
  BY <1>1, <1>5, <1>6 DEF IInv, Asked, Undoing, Saved, BeginRestore
<1>11. Recoverable'
  <2>1. backup'[d][f][n] = authored'[f]
    BY <1>3, <1>6 DEF BeginRestore
  <2>2. ASSUME NEW g \in Files \ {f}
        PROVE  disk'[g] = authored'[g] \/ \E e \in Dirs, m \in Slots : backup'[e][g][m] = authored'[g]
    BY <1>6 DEF IInv, Recoverable, BeginRestore
  <2>3. \E e \in Dirs, m \in Slots : backup'[e][f][m] = authored'[f]
    BY <1>2, <1>3, <2>1
  <2> QED
    BY <2>2, <2>3 DEF Recoverable
<1> QED
  BY <1>7, <1>8, <1>9, <1>10, <1>11 DEF IInv

LEMMA EndRestorePreserves == ASSUME IInv, NEW f \in Files, EndRestore(f) PROVE IInv'
<1> DEFINE d == undo.dir
           n == manifest[undo.dir].slot[f]
<1>1. Undoing /\ f \in undo.todo /\ n # NoSlot /\ undo \in Undos /\ authored[f] = Saved(f)
  BY FormatRunsAssumption DEF EndRestore, IInv, Asked, Shapes, Undos
<1>2. d \in Dirs
  BY <1>1 DEF Undos, Undoing
<1>3. Saved(f) \in Text
  BY <1>1, <1>2 DEF IInv, Shapes, Listed, Saved
<1>4. \A r \in Runs : ~Active(r)
  BY <1>1 DEF IInv, Alone
<1>5. /\ undo' \in Undos /\ undo'.file = NoFile /\ undo'.dir = d /\ undo'.todo = undo.todo \ {f}
  BY <1>1 DEF Undos, EndRestore
<1>6. /\ disk' \in [Files -> Text \cup {Torn}] /\ disk'[f] = authored[f]
      /\ \A g \in Files \ {f} : disk'[g] = disk[g]
  BY <1>1, <1>3 DEF IInv, Shapes, EndRestore
<1>7. Shapes'
  BY <1>5, <1>6 DEF IInv, Shapes, Undos, EndRestore
<1>8. Started' /\ Alone' /\ Room' /\ Listed'
  BY <1>4, <1>5 DEF IInv, Started, Alone, Room, Listed, Active, Undoing, EndRestore
<1>9. Jobs'
  BY <1>4 DEF Jobs, Active, EndRestore
<1>10. Asked'
  BY <1>1, <1>5, FormatRunsAssumption DEF IInv, Asked, Undoing, EndRestore
<1>11. Recoverable'
  BY <1>6 DEF IInv, Recoverable, EndRestore
<1> QED
  BY <1>7, <1>8, <1>9, <1>10, <1>11 DEF IInv

LEMMA UndoEndPreserves == ASSUME IInv, UndoEnd PROVE IInv'
<1>1. undo'.todo = {} /\ undo'.file = NoFile /\ undo'.dir = NoDir /\ undo' \in Undos
  BY DEF UndoEnd, NotUndoing, Undos
<1>2. Shapes'
  BY <1>1 DEF IInv, Shapes, Undos, UndoEnd
<1>3. Started' /\ Alone' /\ Room' /\ Jobs' /\ Listed' /\ Recoverable'
  <2>1. UNCHANGED <<disk, backup, run, job, manifest, authored>> /\ ~Undoing'
    BY <1>1 DEF UndoEnd, Undoing
  <2>2. \A q \in Runs : Active(q)' <=> Active(q)
    BY <2>1 DEF Active
  <2>3. Started' /\ Alone'
    BY <2>1, <2>2 DEF IInv, Started, Alone
  <2>4. Room' /\ Listed' /\ Recoverable'
    BY <2>1, <2>2 DEF IInv, Room, Listed, Recoverable
  <2>5. Jobs'
    <3>1. ASSUME NEW q \in Runs, NEW g \in Files, Active(q) PROVE Job(q, g)'
      BY <2>1, <3>1, JobStays DEF IInv, Jobs
    <3> QED
      BY <2>2, <3>1 DEF Jobs
  <2> QED
    BY <2>3, <2>4, <2>5
<1>4. Asked'
  BY <1>1, FormatRunsAssumption DEF Asked, Undoing
<1> QED
  BY <1>2, <1>3, <1>4 DEF IInv

-----------------------------------------------------------------------------
LEMMA StutterPreserves == ASSUME IInv, UNCHANGED vars PROVE IInv'
<1> USE DEF vars
<1>1. (\A q \in Runs : Active(q)' <=> Active(q)) /\ (Undoing' <=> Undoing)
  BY DEF Active, Undoing
<1>2. Shapes' /\ Listed' /\ Recoverable'
  BY DEF IInv, Shapes, Listed, Recoverable
<1>3. Started' /\ Alone' /\ Room'
  BY <1>1 DEF IInv, Started, Alone, Room
<1>4. Asked'
  BY <1>1 DEF IInv, Asked, Saved
<1>5. Jobs'
  <2>1. ASSUME NEW q \in Runs, NEW g \in Files, Active(q) PROVE Job(q, g)'
    BY <2>1, JobStays DEF IInv, Jobs
  <2> QED
    BY <1>1, <2>1 DEF Jobs
<1> QED
  BY <1>2, <1>3, <1>4, <1>5 DEF IInv

LEMMA NextPreserves == ASSUME OwnDirectories, IInv, [Next]_vars PROVE IInv'
<1>1. ASSUME NEW r \in Runs, RunStep(r) PROVE IInv'
  <2>1. CASE Start(r)
    BY <2>1, StartPreserves
  <2>2. CASE EngineDone(r) \/ WriteDone(r)
    BY <2>2, EngineDonePreserves, WriteDonePreserves
  <2>3. CASE WriteManifest(r) \/ Stop(r)
    BY <2>3, WriteManifestPreserves, StopPreserves
  <2>4. ASSUME NEW f \in Files, Process(r, f) \/ NameBackup(r, f) \/ WriteFails(r, f) PROVE IInv'
    BY <2>4, ProcessPreserves, NameBackupPreserves, WriteFailsPreserves
  <2>5. ASSUME NEW f \in Files, BeginCopy(r, f) \/ EndCopy(r, f) \/ Replace(r, f) PROVE IInv'
    BY <2>5, BeginCopyPreserves, EndCopyPreserves, ReplacePreserves
  <2> QED
    BY <1>1, <2>1, <2>2, <2>3, <2>4, <2>5 DEF RunStep
<1>2. ASSUME NEW f \in Files, UserEdit(f) \/ BeginRestore(f) \/ EndRestore(f) PROVE IInv'
  BY <1>2, UserEditPreserves, BeginRestorePreserves, EndRestorePreserves
<1>3. CASE UndoStart \/ UndoEnd
  BY <1>3, UndoStartPreserves, UndoEndPreserves
<1>4. CASE UNCHANGED vars
  BY <1>4, StutterPreserves
<1> QED
  BY <1>1, <1>2, <1>3, <1>4 DEF Next

LEMMA Invariance == ASSUME OwnDirectories PROVE Spec => []IInv
<1>1. Init => IInv
  BY InitIInv
<1>2. IInv /\ [Next]_vars => IInv'
  BY NextPreserves
<1> QED
  BY <1>1, <1>2, PTL DEF Spec

(* No text of the user is lost: whatever is killed between two steps, and  *)
(* although the write phase replaces files by texts made of what the       *)
(* engine read long before, the text the user last wrote to a file, or     *)
(* asked to have back, is in the file or in a complete backup, for any     *)
(* number of files and of runs, which may overlap if they do not share a   *)
(* directory (FileIo::write_text and make_backup, file_io.rs;              *)
(* BackupManifest::restore, backup.rs).                                    *)
THEOREM NothingIsLost == OwnDirectories => (Spec => []Recoverable)
<1>1. IInv => Recoverable
  BY DEF IInv
<1>2. ASSUME OwnDirectories PROVE Spec => []Recoverable
  BY <1>1, <1>2, Invariance, PTL
<1> QED
  BY <1>2

(* A backup that a manifest lists is never overwritten: a new one gets a   *)
(* name that is free still when the copy begins (make_backup, file_io.rs). *)
THEOREM ListedBackupsAreKept == OwnDirectories => (Spec => ListedBackupsStay)
<1> DEFINE Stay == \A d \in Dirs, f \in Files : \A n \in Slots :
                     manifest[d].slot[f] = n /\ manifest'[d] = manifest[d] =>
                       backup'[d][f][n] = backup[d][f][n]
<1>1. ASSUME IInv, NEW r \in Runs, NEW e \in Files,
             job[r][e].slot \in Slots, run[r].dir \in Dirs,
             backup[run[r].dir][e][job[r][e].slot] \notin Text, NEW t \in Text \cup {Torn},
             Put(run[r].dir, e, job[r][e].slot, t)
      PROVE  Stay
  <2>1. ASSUME NEW d \in Dirs, NEW f \in Files, NEW n \in Slots, manifest[d].slot[f] = n
        PROVE  backup'[d][f][n] = backup[d][f][n]
    <3>1. backup[d][f][n] \in Text
      BY <1>1, <2>1, SlotFacts DEF IInv, Listed
    <3> QED
      BY <1>1, <3>1, PutLosesNothing
  <2> QED
    BY <2>1
<1>2. ASSUME IInv, NEW r \in Runs, NEW f \in Files, BeginCopy(r, f) \/ EndCopy(r, f) PROVE Stay
  <2>1. Active(r) /\ Job(r, f) /\ job[r][f].stage \in {"named", "copying"}
    BY <1>2 DEF BeginCopy, EndCopy, Active, IInv, Jobs
  <2>2. /\ job[r][f].slot \in Slots /\ disk[f] \in Text
        /\ backup[run[r].dir][f][job[r][f].slot] \notin Text
    BY <2>1, Texts DEF Job, Working
  <2>3. run[r].dir \in Dirs
    BY <1>2, <2>1, FormatRunsAssumption DEF IInv, Started
  <2>4. \E t \in Text \cup {Torn} : Put(run[r].dir, f, job[r][f].slot, t)
    BY <1>2, <2>2 DEF Put, BeginCopy, EndCopy
  <2> QED
    BY <1>1, <1>2, <2>2, <2>3, <2>4
<1>3. ASSUME UNCHANGED backup PROVE Stay
  BY <1>3
<1>4. IInv /\ [Next]_vars => [Stay]_vars
  <2>1. [Next]_vars => \/ \E r \in Runs, f \in Files : BeginCopy(r, f) \/ EndCopy(r, f)
                       \/ UNCHANGED backup
    <3>1. ASSUME NEW r \in Runs, RunStep(r)
          PROVE  UNCHANGED backup \/ \E f \in Files : BeginCopy(r, f) \/ EndCopy(r, f)
      BY <3>1 DEF RunStep, Start, EngineDone, WriteDone, WriteManifest, Stop, Process,
                  NameBackup, Replace, WriteFails
    <3>2. ASSUME NEW f \in Files, UserEdit(f) \/ BeginRestore(f) \/ EndRestore(f) PROVE UNCHANGED backup
      BY <3>2 DEF UserEdit, BeginRestore, EndRestore
    <3>3. CASE UndoStart \/ UndoEnd \/ UNCHANGED vars
      BY <3>3 DEF UndoStart, UndoEnd, vars
    <3> QED
      BY <3>1, <3>2, <3>3 DEF Next
  <2> HIDE DEF Stay
  <2> QED
    BY <1>2, <1>3, <2>1
<1>5. ASSUME OwnDirectories PROVE Spec => ListedBackupsStay
  <2>1. Spec => []IInv
    BY <1>5, Invariance
  <2>2. Spec => [][Stay]_vars
    BY <1>4, <2>1, PTL DEF Spec
  <2> QED
    BY <2>2 DEF ListedBackupsStay
<1> QED
  BY <1>5

(***************************************************************************)
(* Exact undos, of runs one after the other.                               *)
(***************************************************************************)
LEMMA ManifestRuns ==
  ASSUME IInv
  PROVE  \A d \in Dirs : manifest[d].by # 0 => manifest[d].by \in Runs
BY FormatRunsAssumption DEF IInv, Shapes, Runs

LEMMA StartKeepsExact ==
  ASSUME ~Overlap, IInv, Exact, NEW r \in Runs, Start(r) PROVE Exact'
<1>1. /\ run[r].phase = "new" /\ run'[r].phase = "engine"
      /\ \A q \in Runs \ {r} : run'[q] = run[q]
  BY DEF IInv, Shapes, Start
<1>2. \A q \in Runs : ~Active(q)
  BY DEF Start
<1>3. \A q \in Runs : Active(q)' => q = r
  BY <1>1, <1>2 DEF Active
<1>4. ASSUME NEW f \in Files PROVE Noted(r, f)'
  <2>1. job[r][f].stage = "todo" /\ before[r][f] = Absent
    BY <1>1, <1>2 DEF IInv, Started, Exact, NoJobs
  <2>2. job' = job /\ before' = before
    BY DEF Start
  <2> QED
    BY <2>1, <2>2 DEF Noted
<1>5. \A d \in Dirs : manifest[d].by # 0 => manifest[d].by \in Runs \ {r}
  BY <1>1, ManifestRuns DEF Exact
<1> QED
  BY <1>1, <1>3, <1>4, <1>5 DEF Exact, Undoing, Start

(* Steps that change an entry, and perhaps a backup that held no text.     *)
LEMMA EntryKeepsExact ==
  ASSUME IInv, Exact, NEW r \in Runs, NEW f \in Files, Active(r), Noted(r, f)',
         \A q \in Runs, g \in Files : <<q, g>> # <<r, f>> => job'[q][g] = job[q][g],
         \A e \in Dirs, g \in Files, m \in Slots :
           backup[e][g][m] \in Text => backup'[e][g][m] = backup[e][g][m],
         UNCHANGED <<disk, run, manifest, undo, before>>
  PROVE  Exact'
<1>1. ~Undoing /\ \A q \in Runs : (Active(q)' <=> Active(q)) /\ (Active(q) => q = r)
  BY DEF IInv, Alone, Active, Exact
<1>2. ASSUME NEW g \in Files, g # f PROVE Noted(r, g)'
  <2>1. job'[r][g] = job[r][g] /\ Noted(r, g) /\ Job(r, g) /\ run[r].dir \in Dirs
    BY <1>2, FormatRunsAssumption DEF IInv, Started, Jobs, Exact
  <2>2. job[r][g].stage \in {"copied", "written"} =>
          backup'[run[r].dir][g][job[r][g].slot] = backup[run[r].dir][g][job[r][g].slot]
    BY <2>1 DEF Job
  <2>3. Noted(r, g)' <=>
          /\ job[r][g].stage = "copied" => backup'[run[r].dir][g][job[r][g].slot] = disk[g]
          /\ IF job[r][g].stage = "written"
             THEN backup'[run[r].dir][g][job[r][g].slot] = before[r][g] ELSE before[r][g] = Absent
    BY <2>1 DEF Noted
  <2> QED
    BY <2>1, <2>2, <2>3 DEF Noted
<1>3. ASSUME NEW d \in Dirs, NEW g \in Files, manifest[d].slot[g] # NoSlot
      PROVE  backup'[d][g][manifest[d].slot[g]] = backup[d][g][manifest[d].slot[g]]
  BY <1>3 DEF IInv, Listed, Shapes
<1> QED
  BY <1>1, <1>2, <1>3 DEF Exact, Undoing

LEMMA JobStepKeepsExact ==
  ASSUME IInv, Exact, NEW r \in Runs, NEW f \in Files,
         Process(r, f) \/ NameBackup(r, f) \/ WriteFails(r, f)
  PROVE  Exact'
<1>1. Active(r) /\ job[r][f].stage # "written"
  BY DEF Process, NameBackup, WriteFails, Active
<1>2. /\ job'[r][f].stage \notin {"copied", "written"}
      /\ \A q \in Runs, g \in Files : <<q, g>> # <<r, f>> => job'[q][g] = job[q][g]
  BY DEF IInv, Shapes, Entries, Process, NameBackup, WriteFails, Move
<1>3. Noted(r, f)'
  <2>1. before' = before /\ Noted(r, f)
    BY <1>1 DEF Exact, Process, NameBackup, WriteFails
  <2> QED
    BY <1>1, <1>2, <2>1 DEF Noted
<1>4. UNCHANGED <<disk, run, manifest, undo, before, backup>>
  BY DEF Process, NameBackup, WriteFails
<1> QED
  BY <1>1, <1>2, <1>3, <1>4, EntryKeepsExact

LEMMA CopyKeepsExact ==
  ASSUME IInv, Exact, NEW r \in Runs, NEW f \in Files, BeginCopy(r, f) \/ EndCopy(r, f)
  PROVE  Exact'
<1> DEFINE d == run[r].dir
           n == job[r][f].slot
           t == IF BeginCopy(r, f) THEN Torn ELSE disk[f]
           stage == IF BeginCopy(r, f) THEN "copying" ELSE "copied"
<1>1. Active(r) /\ Job(r, f) /\ job[r][f].stage \in {"named", "copying"}
  BY DEF BeginCopy, EndCopy, Active, IInv, Jobs
<1>2. n \in Slots /\ d \in Dirs /\ disk[f] \in Text /\ backup[d][f][n] \notin Text
  BY <1>1, Texts, FormatRunsAssumption DEF IInv, Started, Job, Working
<1>3. t \in Text \cup {Torn} /\ Put(d, f, n, t)
  BY <1>2 DEF Put, BeginCopy, EndCopy
<1>4. /\ backup'[d][f][n] = t
      /\ \A e \in Dirs, g \in Files, m \in Slots :
           backup[e][g][m] \in Text => backup'[e][g][m] = backup[e][g][m]
  BY <1>2, <1>3, PutLosesNothing
<1>5. /\ job'[r][f].stage = stage /\ job'[r][f].slot = n
      /\ \A q \in Runs, g \in Files : <<q, g>> # <<r, f>> => job'[q][g] = job[q][g]
  <2>1. job \in [Runs -> [Files -> Entries]] /\ stage \in Stages /\ Move(r, f, stage)
    BY DEF IInv, Shapes, Stages, BeginCopy, EndCopy
  <2> QED
    BY <2>1, MoveTyped
<1>6. UNCHANGED <<disk, run, manifest, undo, before>>
  BY DEF BeginCopy, EndCopy
<1>7. before[r][f] = Absent
  BY <1>1 DEF Exact, Noted
<1>8. stage = "copying" \/ (stage = "copied" /\ t = disk[f])
  BY DEF BeginCopy, EndCopy
<1> HIDE DEF t, stage
<1>9. Noted(r, f)'
  BY <1>4, <1>5, <1>6, <1>7, <1>8 DEF Noted
<1> QED
  BY <1>1, <1>4, <1>5, <1>6, <1>9, EntryKeepsExact

LEMMA ReplaceKeepsExact ==
  ASSUME IInv, Exact, NEW r \in Runs, NEW f \in Files, Replace(r, f) PROVE Exact'
<1>1. Active(r) /\ job[r][f].stage = "copied" /\ Noted(r, f)
  BY DEF Replace, Active, Exact
<1>2. /\ job'[r][f].stage = "written" /\ job'[r][f].slot = job[r][f].slot
      /\ \A q \in Runs, g \in Files : <<q, g>> # <<r, f>> => job'[q][g] = job[q][g]
  <2>1. job \in [Runs -> [Files -> Entries]] /\ "written" \in Stages /\ Move(r, f, "written")
    BY DEF IInv, Shapes, Stages, Replace
  <2> QED
    BY <2>1, MoveTyped
<1>3. /\ before'[r][f] = disk[f]
      /\ \A q \in Runs, g \in Files : <<q, g>> # <<r, f>> => before'[q][g] = before[q][g]
      /\ \A g \in Files \ {f} : disk'[g] = disk[g]
  BY DEF IInv, Shapes, Replace
<1>4. ~Undoing /\ \A q \in Runs : (Active(q)' <=> Active(q)) /\ (Active(q) => q = r)
  BY <1>1 DEF IInv, Alone, Active, Exact, Replace
<1>5. UNCHANGED <<backup, run>>
  BY DEF Replace
<1>6. Noted(r, f)'
  BY <1>1, <1>2, <1>3, <1>5 DEF Noted
<1>7. ASSUME NEW g \in Files PROVE Noted(r, g)'
  <2>1. CASE g = f
    BY <1>6, <2>1
  <2>2. CASE g # f
    <3>1. job'[r][g] = job[r][g] /\ before'[r][g] = before[r][g] /\ disk'[g] = disk[g]
      BY <1>2, <1>3, <2>2
    <3>2. Noted(r, g)
      BY <1>1 DEF Exact
    <3> QED
      BY <3>1, <3>2, <1>5 DEF Noted
  <2> QED
    BY <2>1, <2>2
<1>8. \A d \in Dirs : manifest[d].by # 0 => manifest[d].by \in Runs \ {r}
  BY <1>1, ManifestRuns DEF Exact, Active
<1> QED
  BY <1>1, <1>3, <1>4, <1>7, <1>8 DEF Exact, Undoing, Active, Replace

LEMMA PhaseKeepsExact ==
  ASSUME IInv, Exact, NEW r \in Runs, EngineDone(r) \/ WriteDone(r) \/ Stop(r) PROVE Exact'
<1>1. Active(r) /\ ~Undoing
  BY DEF EngineDone, WriteDone, Stop, Active, IInv, Alone
<1>2. /\ run'[r].phase \in {"write", "manifest", "ended"} /\ run'[r].dir = run[r].dir
      /\ \A q \in Runs \ {r} : run'[q] = run[q]
      /\ run'[r].phase = "ended" \/ job' = job
      /\ UNCHANGED <<disk, backup, manifest, undo, before>>
  BY DEF IInv, Shapes, EngineDone, WriteDone, Stop, Leave, Enter
<1>3. \A q \in Runs : Active(q)' => Active(q) /\ q = r /\ job' = job
  BY <1>1, <1>2 DEF Active, Exact
<1>4. \A d \in Dirs : manifest[d].by # 0 => manifest[d].by \in Runs \ {r}
  BY <1>1, ManifestRuns DEF Exact, Active
<1>5. ASSUME NEW q \in Runs, NEW f \in Files, Active(q)' PROVE Noted(q, f)'
  <2>1. Noted(q, f) /\ job' = job /\ run'[q].dir = run[q].dir
    BY <1>2, <1>3, <1>5 DEF Exact
  <2> QED
    BY <1>2, <2>1 DEF Noted
<1> QED
  BY <1>1, <1>2, <1>3, <1>4, <1>5 DEF Exact, Undoing

LEMMA WriteManifestKeepsExact ==
  ASSUME IInv, Exact, NEW r \in Runs, WriteManifest(r) PROVE Exact'
<1> DEFINE d == run[r].dir
           m == [by |-> r, slot |-> [f \in Files |->
                   IF job[r][f].stage = "written" THEN job[r][f].slot ELSE NoSlot]]
<1>1. Active(r) /\ ~Undoing /\ d \in Dirs
  BY FormatRunsAssumption DEF WriteManifest, Active, IInv, Alone, Started
<1>2. /\ run'[r].phase = "ended" /\ \A q \in Runs \ {r} : run'[q] = run[q]
      /\ UNCHANGED <<disk, backup, undo, before>>
  BY DEF IInv, Shapes, WriteManifest, Leave, Enter
<1>3. manifest'[d] = m /\ \A e \in Dirs \ {d} : manifest'[e] = manifest[e]
  BY <1>1 DEF IInv, Shapes, WriteManifest
<1>4. \A q \in Runs : ~Active(q)'
  BY <1>1, <1>2 DEF Active, Exact
<1>5. ASSUME NEW f \in Files, before[r][f] # Absent
      PROVE  m.slot[f] # NoSlot /\ backup[d][f][m.slot[f]] = before[r][f]
  BY <1>1, <1>5, SlotFacts DEF IInv, Jobs, Job, Exact, Noted
<1>6. m.by = r
  OBVIOUS
<1> HIDE DEF m, d
<1>7. \A e \in Dirs : manifest[e].by # 0 => manifest[e].by \in Runs \ {r}
  BY <1>1, ManifestRuns DEF Exact, Active
<1> QED
  BY <1>1, <1>2, <1>3, <1>4, <1>5, <1>6, <1>7 DEF Exact, Undoing

LEMMA UserEditKeepsExact == ASSUME IInv, Exact, NEW f \in Files, UserEdit(f) PROVE Exact'
<1>1. \A g \in Files \ {f} : disk'[g] = disk[g]
  BY DEF IInv, Shapes, UserEdit
<1>2. ASSUME NEW r \in Runs, NEW g \in Files, Active(r) PROVE Noted(r, g)'
  <2>1. Noted(r, g) /\ UNCHANGED <<backup, run, job, before>>
    BY <1>2 DEF Exact, UserEdit
  <2>2. job[r][g].stage = "copied" => disk'[g] = disk[g]
    BY <1>1, <1>2 DEF UserEdit
  <2> QED
    BY <2>1, <2>2 DEF Noted
<1> QED
  BY <1>2 DEF Exact, Active, Undoing, UserEdit

LEMMA UndoKeepsExact ==
  ASSUME IInv, Exact, UndoStart \/ UndoEnd \/ \E f \in Files : BeginRestore(f) \/ EndRestore(f)
  PROVE  Exact'
<1>1. UNCHANGED <<run, job, backup, manifest, before>>
  BY DEF UndoStart, UndoEnd, BeginRestore, EndRestore
<1>2. \A r \in Runs : ~Active(r)
  BY FormatRunsAssumption DEF IInv, Alone, Asked, UndoStart, UndoEnd, BeginRestore, EndRestore
<1>3. CASE UndoStart
  BY <1>1, <1>2, <1>3 DEF Exact, Active, UndoStart, HasManifest, Undoing
<1>4. CASE UndoEnd
  BY <1>1, <1>2, <1>4 DEF Exact, Active, UndoEnd, NotUndoing, Undoing
<1>5. ASSUME NEW f \in Files, BeginRestore(f) PROVE Exact'
  <2>1. /\ Undoing /\ f \in undo.todo /\ undo'.dir = undo.dir /\ undo'.todo = undo.todo
        /\ \A g \in Files \ {f} : disk'[g] = disk[g]
    BY <1>5 DEF IInv, Asked, Shapes, BeginRestore
  <2> QED
    BY <1>1, <1>2, <2>1 DEF Exact, Active, Undoing, Saved
<1>6. ASSUME NEW f \in Files, EndRestore(f) PROVE Exact'
  <2>1. /\ Undoing /\ undo'.dir = undo.dir /\ undo'.todo = undo.todo \ {f}
        /\ \A g \in Files \ {f} : disk'[g] = disk[g]
        /\ disk'[f] = Saved(f)
    BY <1>6, FormatRunsAssumption DEF IInv, Asked, Shapes, EndRestore
  <2>2. Undoing' /\ manifest'[undo'.dir].by # 0
    BY <1>1, <2>1 DEF Exact, Undoing
  <2>3. ASSUME NEW g \in Files, g \notin undo'.todo, manifest'[undo'.dir].slot[g] # NoSlot
        PROVE  disk'[g] = Saved(g)'
    <3>1. Saved(g)' = Saved(g)
      BY <1>1, <2>1 DEF Saved
    <3>2. CASE g = f
      BY <2>1, <3>1, <3>2
    <3>3. CASE g # f
      BY <1>1, <2>1, <2>3, <3>1, <3>3 DEF Exact
    <3> QED
      BY <3>2, <3>3
  <2> QED
    BY <1>1, <1>2, <2>2, <2>3 DEF Exact, Active
<1> QED
  BY <1>3, <1>4, <1>5, <1>6

LEMMA NextKeepsExact == ASSUME ~Overlap, IInv, Exact, [Next]_vars PROVE Exact'
<1>1. ASSUME NEW r \in Runs, RunStep(r) PROVE Exact'
  <2>1. CASE Start(r) \/ WriteManifest(r)
    BY <2>1, StartKeepsExact, WriteManifestKeepsExact
  <2>2. CASE EngineDone(r) \/ WriteDone(r) \/ Stop(r)
    BY <2>2, PhaseKeepsExact
  <2>3. ASSUME NEW f \in Files, Process(r, f) \/ NameBackup(r, f) \/ WriteFails(r, f) PROVE Exact'
    BY <2>3, JobStepKeepsExact
  <2>4. ASSUME NEW f \in Files, BeginCopy(r, f) \/ EndCopy(r, f) \/ Replace(r, f) PROVE Exact'
    BY <2>4, CopyKeepsExact, ReplaceKeepsExact
  <2> QED
    BY <1>1, <2>1, <2>2, <2>3, <2>4 DEF RunStep
<1>2. ASSUME NEW f \in Files, UserEdit(f) PROVE Exact'
  BY <1>2, UserEditKeepsExact
<1>3. CASE UNCHANGED vars
  BY <1>3 DEF vars, Exact, Noted, Active, Undoing, Saved
<1> QED
  BY <1>1, <1>2, <1>3, UndoKeepsExact DEF Next

(* An undo that comes to its end has put back every file that the undone   *)
(* run replaced, as it was before that run, for any number of files and of *)
(* runs that follow one another, after any crashes of other runs and of    *)
(* earlier attempts to undo, and with run directories used again           *)
(* (BackupManifest::write and restore, backup.rs).                         *)
THEOREM UndoIsComplete == ~Overlap => (Spec => []UndoComplete)
<1>1. Init => Exact
  BY DEF Init, Exact, Active, Undoing, NotUndoing
<1>2. ASSUME IInv, Exact PROVE UndoComplete
  <2>1. ASSUME Restored, NEW f \in Files, before[manifest[undo.dir].by][f] # Absent
        PROVE  /\ manifest[undo.dir].slot[f] # NoSlot
               /\ disk[f] = before[manifest[undo.dir].by][f]
    <3>1. undo.dir \in Dirs /\ manifest[undo.dir].by # 0
      BY <1>2, <2>1 DEF IInv, Shapes, Exact, Restored, Undoing
    <3> QED
      BY <1>2, <2>1, <3>1 DEF Exact, Restored, Saved
  <2> QED
    BY <2>1 DEF UndoComplete
<1>3. ASSUME ~Overlap PROVE Spec => []UndoComplete
  <2>1. OwnDirectories
    BY <1>3 DEF OwnDirectories
  <2>2. IInv /\ Exact /\ [Next]_vars => Exact'
    BY <1>3, NextKeepsExact
  <2>3. IInv /\ Exact => UndoComplete
    BY <1>2
  <2>4. Spec => []IInv
    BY <2>1, Invariance
  <2> QED
    BY <1>1, <2>2, <2>3, <2>4, PTL DEF Spec
<1> QED
  BY <1>3

-----------------------------------------------------------------------------
(* The replacement of a file by AtomicWriter.                              *)

(* Calls under way with one temporary name are known to share it, and no   *)
(* call shares a name it has not made yet.                                 *)
SharersKnown ==
  /\ \A c, d \in Calls :
       UnderWay(c) /\ UnderWay(d) /\ TempName(c) = TempName(d) /\ c # d => c \in shared
  /\ \A c \in Calls : pc[c] = "start" => c \notin shared

(* A temporary name leads to an inode that a call created under it, one    *)
(* that no path leads to.                                                  *)
TempOwned ==
  /\ \A n \in Owners \X Stamps : temp[n] # Missing =>
       TempName(temp[n]) = n /\ pc[temp[n]] \in {"write", "rename", "error"}
  /\ \A p \in Paths : file[p] # Original =>
       pc[file[p]] \notin {"start", "create"} /\ temp[TempName(file[p])] # file[p]

(* A call writes to an inode that was created under its name.              *)
InodeOfName ==
  \A c \in Calls : pc[c] = "write" =>
    TempName(fd[c]) = TempName(c) /\ pc[fd[c]] \notin {"start", "create"}

(* A call that shares no name has the inode under its name for itself; it  *)
(* may be the one that a failed call has left there.                       *)
OwnInode ==
  \A c \in Calls \ shared :
    /\ pc[c] \in {"write", "rename"} => temp[TempName(c)] = fd[c]
    /\ pc[c] = "write" => content[fd[c]] = Partial
    /\ pc[c] = "rename" => content[fd[c]] = c

(* A path of calls that share no name leads to a finished inode, which     *)
(* nobody writes to any more.                                              *)
FileFinished ==
  \A p \in Paths \ Exposed : file[p] # Original =>
    /\ \E c \in Calls : Target[c] = p /\ content[file[p]] = c
    /\ \A d \in Calls : pc[d] = "write" => fd[d] # file[p]

WriterIInv ==
  WriterTypeOK /\ SharersKnown /\ TempOwned /\ InodeOfName /\ OwnInode /\ FileFinished

LEMMA NameInRange == \A c \in Calls : WriterTypeOK => TempName(c) \in Owners \X Stamps
BY DEF WriterTypeOK, TempName, Owners

LEMMA InitWriterIInv == WriterInit => WriterIInv
<1> SUFFICES ASSUME WriterInit PROVE WriterIInv
  OBVIOUS
<1> USE AtomicWriterAssumption DEF WriterInit
<1>1. WriterTypeOK
  BY DEF WriterTypeOK, Stamps
<1>2. SharersKnown
  BY DEF SharersKnown, UnderWay
<1>3. TempOwned /\ InodeOfName /\ OwnInode /\ FileFinished
  BY DEF TempOwned, InodeOfName, OwnInode, FileFinished
<1> QED
  BY <1>1, <1>2, <1>3 DEF WriterIInv

LEMMA WriterTypeStep == WriterIInv /\ [WriterNext]_writerVars => WriterTypeOK'
<1> SUFFICES ASSUME WriterIInv, [WriterNext]_writerVars PROVE WriterTypeOK'
  OBVIOUS
<1> USE AtomicWriterAssumption DEF WriterTypeOK, Goto
<1>0. WriterTypeOK
  BY DEF WriterIInv
<1>1. ASSUME NEW c \in Calls, MakeName(c) PROVE WriterTypeOK'
  <2>1. shared' \subseteq Calls
    BY <1>0, <1>1 DEF MakeName
  <2> QED
    BY <1>0, <1>1, <2>1 DEF MakeName, Stamps
<1>2. ASSUME NEW c \in Calls, Create(c) PROVE WriterTypeOK'
  <2>1. TempName(c) \in Owners \X Stamps
    BY <1>0, NameInRange
  <2> DEFINE inode == IF temp[TempName(c)] = Missing THEN c ELSE temp[TempName(c)]
  <2>2. inode \in Calls
    BY <1>0, <2>1
  <2> HIDE DEF inode
  <2>3. /\ temp' = [temp EXCEPT ![TempName(c)] = inode]
        /\ fd' = [fd EXCEPT ![c] = inode]
        /\ content' = [content EXCEPT ![inode] = Partial]
    BY <1>2 DEF Create, inode
  <2> QED
    BY <1>0, <1>2, <2>1, <2>2, <2>3 DEF Create
<1>3. ASSUME NEW c \in Calls, Write(c) PROVE WriterTypeOK'
  BY <1>0, <1>3 DEF Write, Written
<1>4. ASSUME NEW c \in Calls, Rename(c) PROVE WriterTypeOK'
  <2>1. TempName(c) \in Owners \X Stamps /\ Target[c] \in Paths
    BY <1>0, NameInRange DEF Paths
  <2>2. temp[TempName(c)] \in Calls
    BY <1>0, <1>4, <2>1 DEF Rename
  <2> QED
    BY <1>0, <1>4, <2>1, <2>2 DEF Rename
<1>5. ASSUME NEW c \in Calls, Fail(c) PROVE WriterTypeOK'
  BY <1>0, <1>5 DEF Fail
<1>6. CASE Tick
  BY <1>0, <1>6 DEF Tick, Stamps
<1>7. CASE UNCHANGED writerVars
  BY <1>0, <1>7 DEF writerVars
<1> QED
  BY <1>1, <1>2, <1>3, <1>4, <1>5, <1>6, <1>7 DEF WriterNext

-----------------------------------------------------------------------------
(* A call that makes its name: it comes to share it with the calls under   *)
(* way that have made the same one.                                        *)
LEMMA MakeNameStep ==
  ASSUME WriterIInv, WriterTypeOK', NEW c \in Calls, MakeName(c)
  PROVE  WriterIInv'
<1> USE DEF MakeName, Goto
<1>0. WriterTypeOK /\ SharersKnown /\ TempOwned /\ InodeOfName /\ OwnInode /\ FileFinished
  BY DEF WriterIInv
<1>1. /\ pc[c] = "start" /\ pc'[c] = "create" /\ stamp'[c] = clock
      /\ \A d \in Calls \ {c} : pc'[d] = pc[d] /\ stamp'[d] = stamp[d]
      /\ TempName(c)' = <<Owner[c], clock>>
      /\ \A d \in Calls \ {c} : TempName(d)' = TempName(d)
      /\ temp' = temp /\ fd' = fd /\ content' = content /\ file' = file
  BY <1>0 DEF WriterTypeOK, TempName
<1> DEFINE same == {d \in Calls : UnderWay(d) /\ TempName(d) = <<Owner[c], clock>>}
<1>2. shared' = (IF same = {} THEN shared ELSE shared \cup same \cup {c}) /\ c \notin same
  BY <1>1 DEF UnderWay
<1> HIDE DEF same
<1>3. shared \subseteq shared' /\ Exposed \subseteq Exposed'
  BY <1>2 DEF Exposed
<1>4. SharersKnown'
  <2>1. ASSUME NEW d \in Calls, NEW e \in Calls, d # e, UnderWay(d)', UnderWay(e)',
               TempName(d)' = TempName(e)'
        PROVE  d \in shared'
    <3>1. CASE d # c /\ e # c
      <4>1. UnderWay(d) /\ UnderWay(e) /\ TempName(d) = TempName(e)
        BY <1>1, <2>1, <3>1 DEF UnderWay
      <4> QED
        BY <1>0, <1>3, <2>1, <4>1 DEF SharersKnown
    <3>2. CASE d = c
      <4>1. e \in same
        BY <1>1, <2>1, <3>2 DEF UnderWay, same
      <4> QED
        BY <1>2, <3>2, <4>1
    <3>3. CASE e = c
      <4>1. d \in same
        BY <1>1, <2>1, <3>3 DEF UnderWay, same
      <4> QED
        BY <1>2, <4>1
    <3> QED
      BY <3>1, <3>2, <3>3
  <2>2. ASSUME NEW d \in Calls, pc'[d] = "start" PROVE d \notin shared'
    <3>1. d # c /\ pc[d] = "start"
      BY <1>1, <2>2
    <3>2. d \notin same /\ d \notin shared
      BY <1>0, <3>1 DEF same, UnderWay, SharersKnown
    <3> QED
      BY <1>2, <3>1, <3>2
  <2> QED
    BY <2>1, <2>2 DEF SharersKnown
<1>5. TempOwned'
  <2>1. ASSUME NEW n \in Owners \X Stamps, temp[n] # Missing
        PROVE  TempName(temp[n])' = n /\ pc'[temp[n]] \in {"write", "rename", "error"}
    <3>1. temp[n] \in Calls /\ temp[n] # c
      BY <1>0, <1>1, <2>1 DEF WriterTypeOK, TempOwned
    <3> QED
      BY <1>0, <1>1, <2>1, <3>1 DEF TempOwned
  <2>2. ASSUME NEW p \in Paths, file[p] # Original
        PROVE  pc'[file[p]] \notin {"start", "create"} /\ temp[TempName(file[p])'] # file[p]
    <3>1. file[p] \in Calls /\ file[p] # c
      BY <1>0, <1>1, <2>2 DEF WriterTypeOK, TempOwned
    <3> QED
      BY <1>0, <1>1, <2>2, <3>1 DEF TempOwned
  <2> QED
    BY <1>1, <2>1, <2>2 DEF TempOwned
<1>6. InodeOfName'
  <2> SUFFICES ASSUME NEW d \in Calls, pc'[d] = "write"
               PROVE  TempName(fd[d])' = TempName(d)' /\ pc'[fd[d]] \notin {"start", "create"}
    BY <1>1 DEF InodeOfName
  <2>1. d # c /\ pc[d] = "write" /\ fd[d] \in Calls
    BY <1>0, <1>1 DEF WriterTypeOK
  <2>2. fd[d] # c
    BY <1>0, <1>1, <2>1 DEF InodeOfName
  <2> QED
    BY <1>0, <1>1, <2>1, <2>2 DEF InodeOfName
<1>7. OwnInode'
  BY <1>0, <1>1, <1>3 DEF OwnInode
<1>8. FileFinished'
  BY <1>0, <1>1, <1>3 DEF FileFinished
<1> QED
  BY <1>4, <1>5, <1>6, <1>7, <1>8 DEF WriterIInv

(* The steps after it leave every name, the set of the calls that share    *)
(* one and whether a call is under way, unless it returns.                 *)
LEMMA NamesKept ==
  ASSUME WriterIInv, WriterTypeOK', stamp' = stamp, shared' = shared,
         \A d \in Calls : UnderWay(d)' => UnderWay(d),
         \A d \in Calls : pc'[d] = "start" => pc[d] = "start"
  PROVE  SharersKnown' /\ Exposed' = Exposed /\ \A d \in Calls : TempName(d)' = TempName(d)
BY DEF WriterIInv, SharersKnown, Exposed, TempName

LEMMA CreateStep ==
  ASSUME WriterIInv, WriterTypeOK', NEW c \in Calls, Create(c)
  PROVE  WriterIInv' /\ \A p \in Paths : Shown(p)' = Shown(p)
<1> USE DEF Goto
<1> DEFINE n == TempName(c)
           inode == IF temp[n] = Missing THEN c ELSE temp[n]
<1>0. WriterTypeOK /\ SharersKnown /\ TempOwned /\ InodeOfName /\ OwnInode /\ FileFinished
      /\ n \in Owners \X Stamps
  BY NameInRange DEF WriterIInv
<1>1. inode \in Calls /\ TempName(inode) = n
  BY <1>0 DEF WriterTypeOK, TempOwned
<1>2. /\ temp' = [temp EXCEPT ![n] = inode] /\ fd' = [fd EXCEPT ![c] = inode]
      /\ content' = [content EXCEPT ![inode] = Partial]
      /\ pc[c] = "create" /\ pc' = [pc EXCEPT ![c] = "write"]
      /\ clock' = clock /\ stamp' = stamp /\ file' = file /\ shared' = shared
  BY DEF Create
<1>3. pc'[inode] \in {"write", "rename", "error"} /\ (pc[inode] = "create" => inode = c)
  BY <1>0, <1>1, <1>2 DEF WriterTypeOK, TempOwned
<1>4. \A p \in Paths : file[p] # inode
  <2> SUFFICES ASSUME NEW p \in Paths, file[p] = inode PROVE FALSE
    OBVIOUS
  <2>1. file[p] # Original
    BY <1>1, AtomicWriterAssumption DEF Original
  <2>2. pc[inode] # "create" /\ temp[TempName(inode)] # inode
    BY <1>0, <2>1 DEF TempOwned
  <2>3. CASE temp[n] = Missing
    BY <1>2, <2>2, <2>3
  <2>4. CASE temp[n] # Missing
    BY <1>1, <2>2, <2>4
  <2> QED
    BY <2>3, <2>4
<1>5. SharersKnown' /\ Exposed' = Exposed /\ \A d \in Calls : TempName(d)' = TempName(d)
  BY <1>0, <1>2, NamesKept DEF UnderWay, WriterTypeOK
<1>6. (* Another call to whom the inode would matter shares the name.  *)
      ASSUME NEW d \in Calls \ {c}, pc[d] \in {"write", "rename"}, d \notin shared
      PROVE  TempName(d) # n /\ fd[d] # inode
  <2>1. UnderWay(c) /\ UnderWay(d)
    BY <1>2, <1>6 DEF UnderWay
  <2>2. TempName(d) # n
    BY <1>0, <1>6, <2>1 DEF SharersKnown
  <2>3. TempName(d) \in Owners \X Stamps /\ temp[TempName(d)] = fd[d] /\ fd[d] \in Calls
    BY <1>0, <1>6, NameInRange DEF OwnInode, WriterTypeOK
  <2>4. TempName(fd[d]) = TempName(d)
    BY <1>0, <2>3, AtomicWriterAssumption DEF TempOwned, Missing
  <2> QED
    BY <1>1, <2>2, <2>4
<1> HIDE DEF inode, n
<1>7. TempOwned'
  <2>1. ASSUME NEW m \in Owners \X Stamps, temp'[m] # Missing
        PROVE  TempName(temp[m])' = m /\ pc'[temp'[m]] \in {"write", "rename", "error"}
    <3>1. CASE m = n
      <4>1. temp'[m] = inode
        BY <1>0, <1>2, <3>1 DEF WriterTypeOK
      <4>2. <<Owner[inode], stamp[inode]>> = m
        BY <1>1, <3>1 DEF TempName
      <4> QED
        BY <1>2, <1>3, <4>1, <4>2 DEF TempName
    <3>2. CASE m # n
      <4>1. temp'[m] = temp[m] /\ temp[m] \in Calls
        BY <1>0, <1>2, <2>1, <3>2 DEF WriterTypeOK
      <4>2. TempName(temp[m]) = m /\ pc[temp[m]] \in {"write", "rename", "error"}
        BY <1>0, <2>1, <4>1 DEF TempOwned
      <4>3. pc'[temp[m]] \in {"write", "rename", "error"}
        BY <1>0, <1>2, <4>1, <4>2 DEF WriterTypeOK
      <4> QED
        BY <1>2, <4>1, <4>2, <4>3 DEF TempName
    <3> QED
      BY <3>1, <3>2
  <2>2. ASSUME NEW p \in Paths, file[p] # Original
        PROVE  pc'[file[p]] \notin {"start", "create"} /\ temp'[TempName(file[p])'] # file[p]
    <3>1. file[p] \in Calls /\ TempName(file[p]) \in Owners \X Stamps
      BY <1>0, <2>2, NameInRange DEF WriterTypeOK
    <3>2. pc[file[p]] \notin {"start", "create"} /\ temp[TempName(file[p])] # file[p]
      BY <1>0, <2>2 DEF TempOwned
    <3>3. pc'[file[p]] \notin {"start", "create"}
      BY <1>0, <1>2, <3>1, <3>2 DEF WriterTypeOK
    <3>4. temp'[TempName(file[p])] # file[p]
      BY <1>0, <1>2, <1>4, <3>1, <3>2 DEF WriterTypeOK
    <3> QED
      BY <1>2, <3>3, <3>4 DEF TempName
  <2> QED
    BY <1>2, <2>1, <2>2 DEF TempOwned
<1>8. InodeOfName'
  <2> SUFFICES ASSUME NEW d \in Calls, pc'[d] = "write"
               PROVE  TempName(fd[d])' = TempName(d)' /\ pc'[fd'[d]] \notin {"start", "create"}
    BY DEF InodeOfName
  <2>1. CASE d = c
    <3>1. fd'[d] = inode
      BY <1>0, <1>2, <2>1 DEF WriterTypeOK
    <3>2. <<Owner[inode], stamp[inode]>> = <<Owner[c], stamp[c]>>
      <4>1. TempName(inode) = TempName(c)
        BY <1>1 DEF n
      <4> QED
        BY <4>1 DEF TempName
    <3> QED
      BY <1>2, <1>3, <2>1, <3>1, <3>2 DEF TempName
  <2>2. CASE d # c
    <3>1. pc[d] = "write" /\ fd'[d] = fd[d] /\ fd[d] \in Calls
      BY <1>0, <1>2, <2>2 DEF WriterTypeOK
    <3>2. TempName(fd[d]) = TempName(d) /\ pc'[fd[d]] \notin {"start", "create"}
      BY <1>0, <1>2, <3>1 DEF InodeOfName, WriterTypeOK
    <3> QED
      BY <1>2, <3>1, <3>2 DEF TempName
  <2> QED
    BY <2>1, <2>2
<1>9. OwnInode'
  <2> SUFFICES ASSUME NEW d \in Calls \ shared
               PROVE  /\ pc'[d] \in {"write", "rename"} => temp'[TempName(d)] = fd'[d]
                      /\ pc'[d] = "write" => content'[fd'[d]] = Partial
                      /\ pc'[d] = "rename" => content'[fd'[d]] = d
    BY <1>2, <1>5 DEF OwnInode
  <2>1. CASE d = c
    BY <1>0, <1>1, <1>2, <2>1 DEF WriterTypeOK, n
  <2>2. CASE d # c
    <3>1. pc'[d] = pc[d] /\ fd'[d] = fd[d] /\ fd[d] \in Calls /\ TempName(d) \in Owners \X Stamps
      BY <1>0, <1>2, <2>2, NameInRange DEF WriterTypeOK
    <3> QED
      BY <1>0, <1>2, <1>6, <2>2, <3>1 DEF OwnInode, WriterTypeOK
  <2> QED
    BY <2>1, <2>2
<1>10. FileFinished'
  <2> SUFFICES ASSUME NEW p \in Paths \ Exposed, file[p] # Original
               PROVE  /\ \E d \in Calls : Target[d] = p /\ content'[file[p]] = d
                      /\ \A d \in Calls : pc'[d] = "write" => fd'[d] # file[p]
    BY <1>2, <1>5 DEF FileFinished
  <2>1. content'[file[p]] = content[file[p]] /\ file[p] \in Calls
    BY <1>0, <1>2, <1>4 DEF WriterTypeOK
  <2> QED
    BY <1>0, <1>2, <1>4, <2>1 DEF FileFinished, WriterTypeOK
<1>11. \A p \in Paths : Shown(p)' = Shown(p)
  BY <1>0, <1>2, <1>4 DEF Shown, WriterTypeOK
<1> QED
  BY <1>5, <1>7, <1>8, <1>9, <1>10, <1>11 DEF WriterIInv

(* What a call writes is seen at the path of a call that shares a name, or *)
(* at no path yet.                                                         *)
LEMMA WriteStep ==
  ASSUME WriterIInv, WriterTypeOK', NEW c \in Calls, Write(c)
  PROVE  /\ WriterIInv'
         /\ \A p \in Paths \ Exposed : Shown(p)' = Shown(p)
         /\ c \notin shared => \A p \in Paths : Shown(p)' = Shown(p)
<1> USE DEF Goto
<1>0. WriterTypeOK /\ SharersKnown /\ TempOwned /\ InodeOfName /\ OwnInode /\ FileFinished
  BY DEF WriterIInv
<1>1. /\ pc[c] = "write" /\ pc' = [pc EXCEPT ![c] = "rename"]
      /\ clock' = clock /\ stamp' = stamp /\ fd' = fd /\ temp' = temp /\ file' = file
      /\ shared' = shared /\ fd[c] \in Calls
  BY <1>0 DEF Write, WriterTypeOK
<1>2. PICK t \in Written(c) : content' = [content EXCEPT ![fd[c]] = t]
  BY DEF Write
<1>3. c \notin shared => t = c
  BY <1>0, <1>1 DEF OwnInode, Written
<1>4. SharersKnown' /\ Exposed' = Exposed /\ \A d \in Calls : TempName(d)' = TempName(d)
  BY <1>0, <1>1, NamesKept DEF UnderWay, WriterTypeOK
<1>5. TempOwned'
  BY <1>0, <1>1, <1>4 DEF TempOwned, WriterTypeOK
<1>6. InodeOfName'
  BY <1>0, <1>1, <1>4 DEF InodeOfName, WriterTypeOK
<1>7. OwnInode'
  <2> SUFFICES ASSUME NEW d \in Calls \ shared
               PROVE  /\ pc'[d] \in {"write", "rename"} => temp[TempName(d)] = fd[d]
                      /\ pc'[d] = "write" => content'[fd[d]] = Partial
                      /\ pc'[d] = "rename" => content'[fd[d]] = d
    BY <1>1, <1>4 DEF OwnInode
  <2>1. CASE d = c
    BY <1>0, <1>1, <1>2, <1>3, <2>1 DEF OwnInode, WriterTypeOK
  <2>2. CASE d # c /\ pc[d] \in {"write", "rename"}
    <3>1. TempName(d) # TempName(c)
      BY <1>0, <1>1, <2>2 DEF SharersKnown, UnderWay
    <3>2. TempName(d) \in Owners \X Stamps /\ temp[TempName(d)] = fd[d] /\ fd[d] \in Calls
      BY <1>0, <2>2, NameInRange DEF OwnInode, WriterTypeOK
    <3>3. TempName(fd[d]) = TempName(d) /\ TempName(fd[c]) = TempName(c)
      BY <1>0, <1>1, <3>2, AtomicWriterAssumption DEF TempOwned, Missing, InodeOfName
    <3>4. content'[fd[d]] = content[fd[d]]
      BY <1>0, <1>2, <3>1, <3>2, <3>3 DEF WriterTypeOK
    <3> QED
      BY <1>0, <1>1, <2>2, <3>2, <3>4 DEF OwnInode, WriterTypeOK
  <2>3. CASE d # c /\ pc[d] \notin {"write", "rename"}
    BY <1>0, <1>1, <2>3 DEF WriterTypeOK
  <2> QED
    BY <2>1, <2>2, <2>3
<1>8. FileFinished' /\ \A p \in Paths \ Exposed : Shown(p)' = Shown(p)
  <2>1. ASSUME NEW p \in Paths \ Exposed, file[p] # Original
        PROVE  content'[file[p]] = content[file[p]]
    BY <1>0, <1>1, <1>2, <2>1 DEF FileFinished, WriterTypeOK
  <2>2. \A d \in Calls : pc'[d] = "write" => pc[d] = "write"
    BY <1>0, <1>1 DEF WriterTypeOK
  <2> QED
    BY <1>0, <1>1, <1>4, <2>1, <2>2 DEF FileFinished, Shown
<1>9. ASSUME c \notin shared, NEW p \in Paths PROVE Shown(p)' = Shown(p)
  <2>1. file[p] # fd[c]
    <3> SUFFICES ASSUME file[p] = fd[c] PROVE FALSE
      OBVIOUS
    <3>1. temp[TempName(fd[c])] = fd[c]
      BY <1>0, <1>1, <1>9 DEF OwnInode, InodeOfName
    <3>2. file[p] # Original
      BY <1>1, AtomicWriterAssumption DEF Original
    <3> QED
      BY <1>0, <3>1, <3>2 DEF TempOwned
  <2> QED
    BY <1>0, <1>1, <1>2, <2>1 DEF Shown, WriterTypeOK
<1> QED
  BY <1>4, <1>5, <1>6, <1>7, <1>8, <1>9 DEF WriterIInv

LEMMA RenameStep ==
  ASSUME WriterIInv, WriterTypeOK', NEW c \in Calls, Rename(c)
  PROVE  /\ WriterIInv'
         /\ \A p \in Paths \ {Target[c]} : Shown(p)' = Shown(p)
         /\ c \notin shared => Shown(Target[c])' = c
<1> USE DEF Goto
<1> DEFINE n == TempName(c)
           inode == temp[n]
<1>0. WriterTypeOK /\ SharersKnown /\ TempOwned /\ InodeOfName /\ OwnInode /\ FileFinished
      /\ n \in Owners \X Stamps /\ Target[c] \in Paths
  BY NameInRange DEF WriterIInv, Paths
<1>1. /\ pc[c] = "rename" /\ pc' = [pc EXCEPT ![c] = "ok"]
      /\ file' = [file EXCEPT ![Target[c]] = inode]
      /\ temp' = [temp EXCEPT ![n] = Missing] /\ temp[n] # Missing
      /\ clock' = clock /\ stamp' = stamp /\ fd' = fd /\ content' = content
      /\ shared' = shared
  BY DEF Rename
<1>2. inode \in Calls /\ TempName(inode) = n /\ pc[inode] \in {"write", "rename", "error"}
  BY <1>0, <1>1 DEF WriterTypeOK, TempOwned
<1>3. SharersKnown' /\ Exposed' = Exposed /\ \A d \in Calls : TempName(d)' = TempName(d)
  BY <1>0, <1>1, NamesKept DEF UnderWay, WriterTypeOK
<1>4. ASSUME NEW d \in Calls \ {c}, c \notin shared \/ d \notin shared, UnderWay(d)
      PROVE  TempName(d) # n
  <2>1. UnderWay(c)
    BY <1>1 DEF UnderWay
  <2> QED
    BY <1>0, <1>4, <2>1 DEF SharersKnown
<1>5. c \notin shared => content[inode] = c
  BY <1>0, <1>1 DEF OwnInode
<1> HIDE DEF inode
<1>6. TempOwned'
  <2>1. ASSUME NEW m \in Owners \X Stamps, temp'[m] # Missing
        PROVE  TempName(temp[m])' = m /\ pc'[temp'[m]] \in {"write", "rename", "error"}
    <3>1. m # n /\ temp'[m] = temp[m] /\ temp[m] \in Calls
      BY <1>0, <1>1, <2>1 DEF WriterTypeOK
    <3>2. TempName(temp[m]) = m /\ pc[temp[m]] \in {"write", "rename", "error"}
      BY <1>0, <2>1, <3>1 DEF TempOwned
    <3> QED
      BY <1>0, <1>1, <1>3, <3>1, <3>2 DEF WriterTypeOK
  <2>2. ASSUME NEW p \in Paths, file'[p] # Original
        PROVE  pc'[file'[p]] \notin {"start", "create"} /\ temp'[TempName(file[p])'] # file'[p]
    <3>1. CASE p = Target[c]
      <4>1. file'[p] = inode
        BY <1>0, <1>1, <3>1 DEF WriterTypeOK
      <4>2. temp'[TempName(inode)] = Missing /\ inode # Missing
        BY <1>0, <1>1, <1>2, AtomicWriterAssumption DEF WriterTypeOK, Missing
      <4>3. pc'[inode] \notin {"start", "create"}
        BY <1>0, <1>1, <1>2 DEF WriterTypeOK
      <4> QED
        BY <1>2, <1>3, <4>1, <4>2, <4>3
    <3>2. CASE p # Target[c]
      <4>1. file'[p] = file[p] /\ file[p] \in Calls /\ file[p] # Missing
        BY <1>0, <1>1, <2>2, <3>2, AtomicWriterAssumption DEF WriterTypeOK, Missing
      <4>2. pc[file[p]] \notin {"start", "create"} /\ temp[TempName(file[p])] # file[p]
        BY <1>0, <2>2, <4>1 DEF TempOwned
      <4>3. TempName(file[p]) \in Owners \X Stamps
        BY <1>0, <4>1, NameInRange
      <4> QED
        BY <1>0, <1>1, <1>3, <4>1, <4>2, <4>3 DEF WriterTypeOK
    <3> QED
      BY <3>1, <3>2
  <2> QED
    BY <2>1, <2>2 DEF TempOwned
<1>7. InodeOfName'
  <2> SUFFICES ASSUME NEW d \in Calls, pc'[d] = "write"
               PROVE  TempName(fd[d])' = TempName(d)' /\ pc'[fd[d]] \notin {"start", "create"}
    BY <1>1 DEF InodeOfName
  <2>1. pc[d] = "write" /\ fd[d] \in Calls
    BY <1>0, <1>1 DEF WriterTypeOK
  <2> QED
    BY <1>0, <1>1, <1>3, <2>1 DEF InodeOfName, WriterTypeOK
<1>8. OwnInode'
  <2> SUFFICES ASSUME NEW d \in Calls \ shared
               PROVE  /\ pc'[d] \in {"write", "rename"} => temp'[TempName(d)] = fd[d]
                      /\ pc'[d] = "write" => content[fd[d]] = Partial
                      /\ pc'[d] = "rename" => content[fd[d]] = d
    BY <1>1, <1>3 DEF OwnInode
  <2>1. CASE pc'[d] \in {"write", "rename"}
    <3>1. d # c /\ pc'[d] = pc[d] /\ TempName(d) \in Owners \X Stamps
      BY <1>0, <1>1, <2>1, NameInRange DEF WriterTypeOK
    <3>2. TempName(d) # n
      BY <1>4, <2>1, <3>1 DEF UnderWay
    <3> QED
      BY <1>0, <1>1, <3>1, <3>2 DEF OwnInode, WriterTypeOK
  <2> QED
    BY <2>1
<1>9. FileFinished'
  <2> SUFFICES ASSUME NEW p \in Paths \ Exposed, file'[p] # Original
               PROVE  /\ \E d \in Calls : Target[d] = p /\ content[file'[p]] = d
                      /\ \A d \in Calls : pc'[d] = "write" => fd[d] # file'[p]
    BY <1>1, <1>3 DEF FileFinished
  <2>1. CASE p = Target[c]
    <3>1. file'[p] = inode /\ c \notin shared
      BY <1>0, <1>1, <2>1 DEF WriterTypeOK, Exposed
    <3>2. ASSUME NEW d \in Calls, pc'[d] = "write" PROVE fd[d] # inode
      <4>1. d # c /\ pc[d] = "write"
        BY <1>0, <1>1, <3>2 DEF WriterTypeOK
      <4>2. TempName(d) # n /\ TempName(fd[d]) = TempName(d)
        BY <1>0, <1>4, <3>1, <4>1 DEF UnderWay, InodeOfName
      <4> QED
        BY <1>2, <4>2
    <3> QED
      BY <1>5, <2>1, <3>1, <3>2
  <2>2. CASE p # Target[c]
    <3>1. file'[p] = file[p]
      BY <1>0, <1>1, <2>2 DEF WriterTypeOK
    <3>2. \A d \in Calls : pc'[d] = "write" => pc[d] = "write"
      BY <1>0, <1>1 DEF WriterTypeOK
    <3> QED
      BY <1>0, <3>1, <3>2 DEF FileFinished
  <2> QED
    BY <2>1, <2>2
<1>10. \A p \in Paths \ {Target[c]} : Shown(p)' = Shown(p)
  BY <1>0, <1>1 DEF Shown, WriterTypeOK
<1>11. c \notin shared => Shown(Target[c])' = c
  <2>1. file'[Target[c]] = inode /\ inode # Original
    BY <1>0, <1>1, <1>2, AtomicWriterAssumption DEF WriterTypeOK, Original
  <2> QED
    BY <1>1, <1>5, <2>1 DEF Shown
<1> QED
  BY <1>3, <1>6, <1>7, <1>8, <1>9, <1>10, <1>11 DEF WriterIInv

LEMMA OtherStep ==
  ASSUME WriterIInv, WriterTypeOK', (\E c \in Calls : Fail(c)) \/ Tick \/ UNCHANGED writerVars
  PROVE  WriterIInv'
<1>0. WriterTypeOK /\ SharersKnown /\ TempOwned /\ InodeOfName /\ OwnInode /\ FileFinished
  BY DEF WriterIInv
<1>1. /\ stamp' = stamp /\ fd' = fd /\ content' = content /\ temp' = temp /\ file' = file
      /\ shared' = shared
      /\ \A d \in Calls : pc'[d] = pc[d] \/ pc'[d] = "error"
  BY <1>0 DEF Fail, Goto, Tick, writerVars, WriterTypeOK
<1>2. SharersKnown' /\ Exposed' = Exposed /\ \A d \in Calls : TempName(d)' = TempName(d)
  BY <1>1, NamesKept DEF UnderWay
<1>3. TempOwned'
  BY <1>0, <1>1, <1>2 DEF TempOwned, WriterTypeOK
<1>4. InodeOfName'
  BY <1>0, <1>1, <1>2 DEF InodeOfName, WriterTypeOK
<1>5. OwnInode'
  BY <1>0, <1>1, <1>2 DEF OwnInode
<1>6. FileFinished'
  BY <1>0, <1>1, <1>2 DEF FileFinished
<1> QED
  BY <1>2, <1>3, <1>4, <1>5, <1>6 DEF WriterIInv

LEMMA WriterStep == WriterIInv /\ [WriterNext]_writerVars => WriterIInv'
BY WriterTypeStep, MakeNameStep, CreateStep, WriteStep, RenameStep, OtherStep DEF WriterNext

-----------------------------------------------------------------------------
LEMMA WriterInvariance == WriterSpec => []WriterIInv
BY WriterStep, InitWriterIInv, PTL DEF WriterSpec

(* A reader never sees a torn file or the text of another file at a path   *)
(* whose calls share no temporary name, for any number of processes,       *)
(* threads and times that the clock repeats.                               *)
THEOREM ReadersSeeWholeTexts == WriterSpec => []TargetIntact
<1>1. WriterIInv => TargetIntact
  BY DEF WriterIInv, FileFinished, TargetIntact, Shown
<1> QED
  BY <1>1, WriterInvariance, PTL

(* write_bytes implements an atomic replacement: the new text and the      *)
(* answer Ok appear in one step, the rename, and what calls with a shared  *)
(* name do stays at their own paths.                                       *)
LEMMA RefineInit == WriterInit => Replacement!Init
<1> SUFFICES ASSUME WriterInit PROVE Replacement!Init
  OBVIOUS
<1>1. [p \in Paths |-> Shown(p)] = [p \in Replacement!Paths |-> "original"]
  BY DEF WriterInit, Shown, Paths, Replacement!Paths, Original
<1>2. [c \in Calls |-> Answer(c)] = [c \in Calls |-> "none"]
  BY DEF WriterInit, Answer
<1> QED
  BY <1>1, <1>2 DEF Replacement!Init, WriterInit

LEMMA RefineStep ==
  WriterIInv /\ WriterTypeOK' /\ [WriterNext]_writerVars
    => [Replacement!Next]_<<[p \in Paths |-> Shown(p)], [c \in Calls |-> Answer(c)], shared>>
<1> SUFFICES ASSUME WriterIInv, WriterTypeOK', [WriterNext]_writerVars
             PROVE  [Replacement!Next]_<<[p \in Paths |-> Shown(p)], [c \in Calls |-> Answer(c)], shared>>
  OBVIOUS
<1> DEFINE shown == [p \in Paths |-> Shown(p)]
           answers == [c \in Calls |-> Answer(c)]
<1>0. WriterTypeOK /\ SharersKnown
  BY DEF WriterIInv
<1>1. ASSUME NEW c \in Calls, MakeName(c)
      PROVE  Replacement!Share(c) \/ (shown' = shown /\ answers' = answers /\ shared' = shared)
  <2> DEFINE same == {d \in Calls : UnderWay(d) /\ TempName(d) = <<Owner[c], clock>>}
  <2>1. shown' = shown /\ answers' = answers /\ answers[c] = "none"
    BY <1>0, <1>1 DEF MakeName, Goto, Shown, Answer, WriterTypeOK
  <2>2. c \notin shared
    BY <1>0, <1>1 DEF SharersKnown, MakeName
  <2>3. shared' = (IF same = {} THEN shared ELSE shared \cup same \cup {c})
    BY <1>1 DEF MakeName
  <2>4. ASSUME NEW d \in same PROVE d \in Calls \ {c} /\ answers[d] = "none"
    BY <1>1, <2>4 DEF MakeName, UnderWay, Answer
  <2> HIDE DEF same
  <2>5. CASE same # {}
    <3>1. PICK d \in same : TRUE
      BY <2>5
    <3>2. d \in Calls \ {c} /\ answers[d] = "none" /\ d \in shared'
      BY <2>3, <2>4, <3>1
    <3>3. shared \cup {c} \subseteq shared'
      BY <2>3, <2>5
    <3> QED
      BY <2>1, <2>2, <3>2, <3>3 DEF Replacement!Share
  <2> QED
    BY <2>1, <2>3, <2>5
<1>2. ASSUME NEW c \in Calls, Create(c)
      PROVE  shown' = shown /\ answers' = answers /\ shared' = shared
  <2>1. \A p \in Paths : Shown(p)' = Shown(p)
    BY <1>2, CreateStep
  <2>2. \A d \in Calls : Answer(d)' = Answer(d)
    BY <1>0, <1>2 DEF Create, Goto, Answer, WriterTypeOK
  <2> QED
    BY <1>2, <2>1, <2>2 DEF Create
<1>3. ASSUME NEW c \in Calls, Write(c)
      PROVE  Replacement!Damage(c) \/ (shown' = shown /\ answers' = answers /\ shared' = shared)
  <2>1. answers' = answers /\ answers[c] = "none" /\ shared' = shared
    BY <1>0, <1>3 DEF Write, Goto, Answer, WriterTypeOK
  <2>2. \A p \in Paths \ Exposed : shown'[p] = shown[p]
    BY <1>3, WriteStep
  <2>3. c \notin shared => shown' = shown
    BY <1>3, WriteStep
  <2> QED
    BY <2>1, <2>2, <2>3 DEF Replacement!Damage, Replacement!Paths, Paths, Exposed
<1>4. ASSUME NEW c \in Calls, Rename(c) PROVE Replacement!Replace(c) \/ Replacement!Damage(c)
  <2>1. answers' = [answers EXCEPT ![c] = "ok"] /\ answers[c] = "none" /\ shared' = shared
    BY <1>0, <1>4 DEF Rename, Goto, Answer, WriterTypeOK
  <2>2. /\ \A p \in Paths \ {Target[c]} : shown'[p] = shown[p]
        /\ c \notin shared => Shown(Target[c])' = c
    BY <1>4, RenameStep
  <2>3. CASE c \notin shared
    <3>1. shown' = [shown EXCEPT ![Target[c]] = c]
      BY <2>2, <2>3
    <3> QED
      BY <2>1, <2>3, <3>1 DEF Replacement!Replace
  <2>4. CASE c \in shared
    <3>1. \A p \in Paths \ {Target[d] : d \in shared} : shown'[p] = shown[p]
      BY <2>2, <2>4
    <3> QED
      BY <2>1, <2>4, <3>1 DEF Replacement!Damage, Replacement!Paths, Paths
  <2> QED
    BY <2>3, <2>4
<1>5. ASSUME NEW c \in Calls, Fail(c) PROVE Replacement!Fail(c)
  <2>1. shown' = shown /\ shared' = shared
    BY <1>5 DEF Fail, Shown
  <2>2. answers' = [answers EXCEPT ![c] = "error"] /\ answers[c] = "none"
    BY <1>0, <1>5 DEF Fail, Goto, Answer, WriterTypeOK
  <2> QED
    BY <2>1, <2>2 DEF Replacement!Fail
<1>6. CASE Tick \/ UNCHANGED writerVars
  BY <1>6 DEF Tick, writerVars, Shown, Answer
<1> QED
  BY <1>1, <1>2, <1>3, <1>4, <1>5, <1>6 DEF WriterNext, Replacement!Next

THEOREM ImplementsReplacement == WriterSpec => ReplacementSpec
<1>1. WriterIInv => WriterTypeOK
  BY DEF WriterIInv
<1> QED
  BY <1>1, WriterInvariance, RefineInit, RefineStep, PTL DEF WriterSpec, ReplacementSpec, Replacement!Spec

=============================================================================
