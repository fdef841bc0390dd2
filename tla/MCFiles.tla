------------------------------ MODULE MCFiles ------------------------------
(* Runs over a project, and the calls of write_bytes that one replacement  *)
(* of a file is made of: in a behaviour one of the two has something to    *)
(* do.  See README.md for the bounds.                                      *)
EXTENDS MCFormatRuns, AtomicWriter

CONSTANTS c1, c2, c3

(* Three calls in one directory, two of them for the same path.            *)
TwoPaths == [c \in Calls |-> IF c = c3 THEN "b.hpp" ELSE "a.hpp"]

(* c1 and c3 are calls of unnamed threads of one process, c2 is a call of  *)
(* another process.                                                        *)
TwoProcesses == [c \in Calls |-> IF c = c2 THEN "p2" ELSE "p1"]

(* The part that this behaviour is about. *)
VARIABLE part
filesVars == <<part, vars, writerVars>>

FilesInit == part \in {"runs", "writer"} /\ Init /\ WriterInit

FilesNext ==
  \/ part = "runs" /\ Next /\ UNCHANGED <<part, writerVars>>
  \/ part = "writer" /\ WriterNext /\ UNCHANGED <<part, vars>>

FilesSpec == FilesInit /\ [][FilesNext]_filesVars
=============================================================================
