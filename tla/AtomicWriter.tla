---------------------------- MODULE AtomicWriter ----------------------------
(***************************************************************************)
(* AtomicWriter::write_bytes of src/files/atomic_writer.rs, called by      *)
(* several threads of several processes at once on paths of one directory  *)
(* (source files in the parallel write phase; caches, shards, journals and *)
(* manifests elsewhere).                                                   *)
(*                                                                         *)
(* The temporary file of a call is named after the process id, the clock   *)
(* in nanoseconds and the name of the thread, "t" when it has none.  The   *)
(* threads of the rayon pool that writes the sources have none, so Owner,  *)
(* the process and thread part of the name, is shared by all of them: two  *)
(* of them that read the same time use one temporary file.                 *)
(*                                                                         *)
(* A path leads to an inode, as an open file does, so that a call goes on  *)
(* writing the file it opened when another call renames it.  A crash is a  *)
(* call that takes no further step.                                        *)
(***************************************************************************)
EXTENDS Integers

CONSTANTS
  Calls,        (* calls of write_bytes; a call stands for the text it     *)
                (* writes, different for every call, and for the inode it  *)
                (* creates                                                 *)
  Target,       (* Target[c]: the path call c replaces                     *)
  Owner,        (* Owner[c]: process id and thread name of call c          *)
  MaxClock,     (* bound on the clock                                      *)
  CoarseClock   (* two calls may read the same time                        *)

Partial == "torn"       (* content of a file that is being written         *)
Missing == "absent"     (* no such file                                    *)
Original == "original"  (* the file before any call                        *)

ASSUME AtomicWriterAssumption ==
  /\ MaxClock \in Nat
  /\ CoarseClock \in BOOLEAN
  /\ Target = [c \in Calls |-> Target[c]]
  /\ Owner = [c \in Calls |-> Owner[c]]
  /\ \A c \in Calls : c # "torn" /\ c # "absent" /\ c # "original"

Paths == {Target[c] : c \in Calls}
Owners == {Owner[c] : c \in Calls}
Stamps == 0 .. MaxClock

VARIABLES
  clock,     (* the system clock                                           *)
  pc,        (* program counter of each call                               *)
  stamp,     (* time a call has put into its temporary name                *)
  fd,        (* inode a call has open for writing                          *)
  content,   (* content of each inode                                      *)
  temp,      (* inode of each temporary name, or Missing                   *)
  file,      (* inode of each path, or Original                            *)
  shared     (* history, of which no step depends: the calls that had one  *)
             (* temporary name with another call under way                 *)

writerVars == <<clock, pc, stamp, fd, content, temp, file, shared>>

WriterTypeOK ==
  /\ clock \in Stamps
  /\ pc \in [Calls -> {"start", "create", "write", "rename", "ok", "error"}]
  /\ stamp \in [Calls -> Stamps]
  /\ fd \in [Calls -> Calls]
  /\ content \in [Calls -> Calls \cup {Partial}]
  /\ temp \in [Owners \X Stamps -> Calls \cup {Missing}]
  /\ file \in [Paths -> Calls \cup {Original}]
  /\ shared \subseteq Calls

WriterInit ==
  /\ clock = 0
  /\ pc = [c \in Calls |-> "start"]
  /\ stamp = [c \in Calls |-> 0]
  /\ fd = [c \in Calls |-> c]
  /\ content = [c \in Calls |-> Partial]
  /\ temp = [n \in Owners \X Stamps |-> Missing]
  /\ file = [p \in Paths |-> Original]
  /\ shared = {}

Goto(c, l) == pc' = [pc EXCEPT ![c] = l]

TempName(c) == <<Owner[c], stamp[c]>>

(* A call that has made its temporary name and not returned.               *)
UnderWay(c) == pc[c] \in {"create", "write", "rename"}

(* SystemTime::now() goes into the name.  A clock that is not coarse has   *)
(* moved on when the next call reads it.                                   *)
MakeName(c) ==
  /\ pc[c] = "start"
  /\ stamp' = [stamp EXCEPT ![c] = clock]
  /\ \/ CoarseClock /\ UNCHANGED clock
     \/ ~CoarseClock /\ clock < MaxClock /\ clock' = clock + 1
  /\ LET same == {d \in Calls : UnderWay(d) /\ TempName(d) = <<Owner[c], clock>>}
     IN shared' = IF same = {} THEN shared ELSE shared \cup same \cup {c}
  /\ Goto(c, "create")
  /\ UNCHANGED <<fd, content, temp, file>>

(* fs::write opens the file, creating or truncating it...                  *)
Create(c) ==
  /\ pc[c] = "create"
  /\ LET n == TempName(c)
         inode == IF temp[n] = Missing THEN c ELSE temp[n]
     IN /\ temp' = [temp EXCEPT ![n] = inode]
        /\ fd' = [fd EXCEPT ![c] = inode]
        /\ content' = [content EXCEPT ![inode] = Partial]
  /\ Goto(c, "write")
  /\ UNCHANGED <<clock, stamp, file, shared>>

(* What a call leaves in the inode it writes: its text, or, when another   *)
(* call has written there since it was truncated, the end of the longer    *)
(* text after it.                                                          *)
Written(c) == IF content[fd[c]] = Partial THEN {c} ELSE {c, Partial}

(* ... and writes the text.                                                *)
Write(c) ==
  /\ pc[c] = "write"
  /\ \E t \in Written(c) : content' = [content EXCEPT ![fd[c]] = t]
  /\ Goto(c, "rename")
  /\ UNCHANGED <<clock, stamp, fd, temp, file, shared>>

(* Mutant: the file is renamed before it is written.                       *)
EarlyRename(c) ==
  /\ pc[c] \in {"write", "rename"}
  /\ temp[TempName(c)] # Missing
  /\ file' = [file EXCEPT ![Target[c]] = temp[TempName(c)]]
  /\ temp' = [temp EXCEPT ![TempName(c)] = Missing]
  /\ Goto(c, IF pc[c] = "write" THEN "write" ELSE "ok")
  /\ UNCHANGED <<clock, stamp, fd, content, shared>>

(* Mutant: an error of the rename is ignored.                              *)
IgnoredRename(c) ==
  /\ pc[c] = "rename"
  /\ Goto(c, "ok")
  /\ UNCHANGED <<clock, stamp, fd, content, temp, file, shared>>

(* fs::rename replaces the target with whatever the name leads to.         *)
Rename(c) ==
  /\ pc[c] = "rename"
  /\ temp[TempName(c)] # Missing
  /\ file' = [file EXCEPT ![Target[c]] = temp[TempName(c)]]
  /\ temp' = [temp EXCEPT ![TempName(c)] = Missing]
  /\ Goto(c, "ok")
  /\ UNCHANGED <<clock, stamp, fd, content, shared>>

(* create_dir_all, fs::write or fs::rename fails; what has been written of *)
(* the temporary file stays.  A rename fails for sure without its file.    *)
Fail(c) ==
  /\ pc[c] \in {"start", "create", "write", "rename"}
  /\ Goto(c, "error")
  /\ UNCHANGED <<clock, stamp, fd, content, temp, file, shared>>

Tick ==
  /\ clock < MaxClock
  /\ clock' = clock + 1
  /\ UNCHANGED <<pc, stamp, fd, content, temp, file, shared>>

WriterNext ==
  \/ \E c \in Calls : MakeName(c) \/ Create(c) \/ Write(c) \/ Rename(c) \/ Fail(c)
  \/ Tick

WriterSpec == WriterInit /\ [][WriterNext]_writerVars

-----------------------------------------------------------------------------
(* What a reader of a path sees.                                           *)
Shown(p) == IF file[p] = Original THEN Original ELSE content[file[p]]

(* Paths of calls that had their temporary name with another call.         *)
Exposed == {Target[c] : c \in shared}

(* A reader of a path sees the original text or the complete text of a     *)
(* call for that very path, never a part of one or another file's text     *)
(* ("Atomic file writes via tempfile + rename"), whatever crashes and      *)
(* fails.  Calls that share a temporary name may damage the paths these    *)
(* calls are for, and no other: not even one whose call goes on with the   *)
(* temporary file that a failed call has left.                             *)
TargetIntact ==
  \A p \in Paths \ Exposed :
    Shown(p) = Original \/ \E c \in Calls : Target[c] = p /\ Shown(p) = c

(* The call implements an atomic replacement, for the others also when     *)
(* some calls share a name.                                                *)
Answer(c) == IF pc[c] \in {"ok", "error"} THEN pc[c] ELSE "none"
Replacement == INSTANCE AtomicReplace WITH
  file <- [p \in Paths |-> Shown(p)],
  answer <- [c \in Calls |-> Answer(c)]
ReplacementSpec == Replacement!Spec

=============================================================================
