---------------------------- MODULE MCFormatRuns ----------------------------
(* Instances of FormatRuns for TLC.                                        *)
EXTENDS FormatRuns, TLC

CONSTANTS d1, d2

(* Runs name directories of their own, or use any.                         *)
OwnDir == [r \in Runs |-> IF r = 1 THEN {d1} ELSE {d2}]
AnyDir == [r \in Runs |-> Dirs]

FileSymmetry == Permutations(Files)
=============================================================================
