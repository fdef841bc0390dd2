----------------------------- MODULE ResultCache -----------------------------
(***************************************************************************)
(* The cache of check results (runtime/result_cache.rs): a run of one      *)
(* process that only checks reads its file when it starts, answers from    *)
(* memory what was checked before, and writes the whole file back at the   *)
(* end of the pass (app/worker.rs, aggregate_pass_results).                *)
(*                                                                         *)
(* A result says what it was made of: file, text, options, and the rest of *)
(* the world, which the key leaves out: the headers, the compile commands, *)
(* what was learned, and the options cache_fingerprint does not list.      *)
(***************************************************************************)
EXTENDS Naturals, FiniteSets, Functions

CONSTANTS
  Given,      (* run -> the files it is given                               *)
  Options,    (* the configurations that cache_fingerprint tells apart      *)
  Changes     (* how often texts and the rest of the world may change       *)

Checks == DOMAIN Given
Files == UNION Range(Given)

VARIABLES
  content,    (* file -> its text, a number; files may have the same text   *)
  world,      (* version of all else                                        *)
  stored,     (* the file of the cache: NoStore, Damaged, or                *)
              (* [print, entries]                                           *)
  check       (* run -> its state                                           *)

cacheVars == <<content, world, stored, check>>

NoStore == [print |-> "none", entries |-> <<>>]
Damaged == [print |-> "damaged", entries |-> <<>>]

NoAnswer == [file |-> "none", text |-> 0, options |-> "none", world |-> 0]
Failure == [NoAnswer EXCEPT !.file = "error"]

NewCheck ==
  [phase |-> "new", options |-> "none", entries |-> <<>>, dirty |-> FALSE,
   at |-> [f \in Files |-> "read"], read |-> [f \in Files |-> 0],
   answer |-> [f \in Files |-> NoAnswer], hit |-> [f \in Files |-> FALSE]]

CacheInit ==
  /\ content = [f \in Files |-> 1] /\ world = 1
  /\ stored = NoStore
  /\ check = [c \in Checks |-> NewCheck]

(* load_entries: what cannot be read or belongs to other options counts    *)
(* for nothing.                                                            *)
Loaded(options) == IF stored.print = options THEN stored.entries ELSE <<>>

Open(c) ==
  /\ check[c].phase = "new"
  /\ \E o \in Options :
       check' = [check EXCEPT ![c].phase = "pass", ![c].options = o, ![c].entries = Loaded(o)]
  /\ UNCHANGED <<content, world, stored>>

(* Mutant of Key: the text is not part of it.                              *)
KeyOfPath(c, f) == <<f, 0, check[c].options>>

Key(c, f) == <<f, check[c].read[f], check[c].options>>

At(c, f, where) == check[c].phase = "pass" /\ check[c].at[f] = where
With(table, key, value) == [k \in DOMAIN table \cup {key} |-> IF k = key THEN value ELSE table[k]]

(* FileProcessor::process, up to the key of the text it has read; no other *)
(* thread of the run works on the same key.                                *)
Read(c, f) ==
  /\ At(c, f, "read")
  /\ \/ check' = [check EXCEPT ![c].at[f] = "look", ![c].read[f] = content[f]]
     \/ check' = [check EXCEPT ![c].at[f] = "done", ![c].answer[f] = Failure]
  /\ UNCHANGED <<content, world, stored>>

(* get: a run asks once per file, so the first level, which starts empty,  *)
(* never has the answer.                                                   *)
Hit(c, f) ==
  /\ At(c, f, "look") /\ Key(c, f) \in DOMAIN check[c].entries
  /\ check' = [check EXCEPT ![c].at[f] = "done", ![c].hit[f] = TRUE,
                            ![c].answer[f] = check[c].entries[Key(c, f)]]
  /\ UNCHANGED <<content, world, stored>>

(* A miss: the engine works on the text that was read and on the world as  *)
(* it finds it.                                                            *)
Engine(c, f) ==
  /\ At(c, f, "look") /\ Key(c, f) \notin DOMAIN check[c].entries
  /\ \/ check' = [check EXCEPT ![c].at[f] = "put", ![c].answer[f] =
                    [file |-> f, text |-> check[c].read[f],
                     options |-> check[c].options, world |-> world]]
     \/ check' = [check EXCEPT ![c].at[f] = "done", ![c].answer[f] = Failure]
  /\ UNCHANGED <<content, world, stored>>

(* put: a result with an error is not given to it.                         *)
Put(c, f) ==
  /\ At(c, f, "put")
  /\ check' = [check EXCEPT ![c].at[f] = "done", ![c].dirty = TRUE,
                            ![c].entries = With(@, Key(c, f), check[c].answer[f])]
  /\ UNCHANGED <<content, world, stored>>

(* flush: the whole file is replaced by what this run has in memory; if    *)
(* that fails the run fails, and its results are not reported.             *)
Ended(c, phase) == check' = [check EXCEPT ![c] = [NewCheck EXCEPT !.phase = phase]]

Flush(c) ==
  /\ check[c].phase = "pass" /\ \A f \in Given[c] : check[c].at[f] = "done"
  /\ \/ /\ check[c].dirty
        /\ stored' = [print |-> check[c].options, entries |-> check[c].entries]
        /\ Ended(c, "reported")
     \/ check[c].dirty /\ Ended(c, "failed") /\ UNCHANGED stored
     \/ ~check[c].dirty /\ Ended(c, "reported") /\ UNCHANGED stored
  /\ UNCHANGED <<content, world>>

Kill(c) ==
  /\ check[c].phase = "pass"
  /\ Ended(c, "failed")
  /\ UNCHANGED <<content, world, stored>>

(* A user edits the file or what it depends on, or the store is damaged.   *)
Changed == world - 1 + SumFunction([f \in Files |-> content[f] - 1])
EditSource(f) ==
  /\ Changed < Changes
  /\ content' = [content EXCEPT ![f] = @ + 1]
  /\ UNCHANGED <<world, stored, check>>
EditWorld ==
  /\ Changed < Changes
  /\ world' = world + 1
  /\ UNCHANGED <<content, stored, check>>
DamageStore ==
  /\ stored # NoStore
  /\ stored' = Damaged
  /\ UNCHANGED <<content, world, check>>

CheckStep(c) ==
  \/ Open(c)
  \/ \E f \in Given[c] : \/ Read(c, f)
                         \/ Hit(c, f)
                         \/ Engine(c, f)
                         \/ Put(c, f)
  \/ Flush(c)
  \/ Kill(c)

CacheNext ==
  \/ \E c \in Checks : CheckStep(c)
  \/ \E f \in Files : EditSource(f)
  \/ EditWorld
  \/ DamageStore

CacheSpec == CacheInit /\ [][CacheNext]_cacheVars

-----------------------------------------------------------------------------
Made(f, text, options, answer) ==
  /\ answer = [file |-> f, text |-> text, options |-> options, world |-> answer.world]
  /\ answer.world \in 1 .. world

(* What a run answers from the cache is what the engine has answered for   *)
(* this file and the text this run has read, under its options, whichever  *)
(* runs overlapped, whatever was damaged, killed or edited meanwhile: it   *)
(* may be out of date in nothing but what the key leaves out.  And the     *)
(* store holds answers of one configuration only, each under the key of    *)
(* what it was made of (CheckResultCache::get, put, flush).                *)
HitIsTrue ==
  /\ \A c \in Checks : \A f \in Files : check[c].hit[f] =>
       Made(f, check[c].read[f], check[c].options, check[c].answer[f])
  /\ \A key \in DOMAIN stored.entries :
       key[3] = stored.print /\ Made(key[1], key[2], key[3], stored.entries[key])
=============================================================================
