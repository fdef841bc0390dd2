--------------------------- MODULE AtomicReplace ---------------------------
(***************************************************************************)
(* What AtomicWriter promises: a reader of a path sees a complete text     *)
(* written for that path, and a call that returns Ok has put its text      *)
(* there in one step.  Calls that share a temporary name are on their own: *)
(* nothing is promised of the paths they are for, everything of the rest.  *)
(***************************************************************************)
CONSTANTS Calls, Target

VARIABLES
  file,    (* file[p]: the call whose text path p holds, or "original"     *)
  answer,  (* answer[c]: "none" until call c returns "ok" or "error"       *)
  shared   (* calls that share their temporary name with another one       *)

Paths == {Target[c] : c \in Calls}

Init ==
  /\ file = [p \in Paths |-> "original"]
  /\ answer = [c \in Calls |-> "none"]
  /\ shared = {}

(* The text and the answer Ok appear together.                             *)
Replace(c) ==
  /\ answer[c] = "none" /\ c \notin shared
  /\ file' = [file EXCEPT ![Target[c]] = c]
  /\ answer' = [answer EXCEPT ![c] = "ok"]
  /\ UNCHANGED shared

Fail(c) ==
  /\ answer[c] = "none"
  /\ answer' = [answer EXCEPT ![c] = "error"]
  /\ UNCHANGED <<file, shared>>

(* A call comes to share its name with others that have not returned.      *)
Share(c) ==
  /\ c \notin shared /\ answer[c] = "none"
  /\ \E d \in Calls \ {c} : answer[d] = "none" /\ d \in shared'
  /\ shared \cup {c} \subseteq shared'
  /\ UNCHANGED <<file, answer>>

(* A call that shares its name changes the paths of such calls at will and *)
(* may return Ok.                                                          *)
Damage(c) ==
  /\ answer[c] = "none" /\ c \in shared
  /\ \A p \in Paths \ {Target[d] : d \in shared} : file'[p] = file[p]
  /\ answer' \in {answer, [answer EXCEPT ![c] = "ok"]}
  /\ UNCHANGED shared

Next == \E c \in Calls : Replace(c) \/ Fail(c) \/ Share(c) \/ Damage(c)

Spec == Init /\ [][Next]_<<file, answer, shared>>

=============================================================================
