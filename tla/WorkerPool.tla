----------------------------- MODULE WorkerPool -----------------------------
(***************************************************************************)
(* The multi-process pass of src/app/worker.rs (run_multiprocess_pass).    *)
(*                                                                         *)
(* The parent runs one controller thread per worker slot.  A controller    *)
(* owns one persistent worker process, leases batches of files from a      *)
(* shared atomic counter, sends each batch down the worker's stdin, waits  *)
(* for the response with a timeout, and replaces the worker process and    *)
(* sends the batch again when anything goes wrong, at most MaxRestarts     *)
(* times per batch.  When every controller has returned, the parent merges *)
(* the learning shards and the results.                                    *)
(*                                                                         *)
(* A batch stands for its files: a response carries how many results it    *)
(* has for each of them (1 when the coverage is exact), which is all the   *)
(* coverage fingerprints and path counts of the code look at.              *)
(***************************************************************************)
EXTENDS Integers, FiniteSets

CONSTANTS
  Slots,        (* worker slots, one controller thread and worker each     *)
  NumBatches,   (* number of batches the scheduler planned                 *)
  MaxRestarts   (* config.worker_max_restarts                              *)

ASSUME WorkerPoolAssumption ==
  /\ Slots # {}
  /\ IsFiniteSet(Slots)
  /\ NumBatches \in Nat \ {0}
  /\ MaxRestarts \in Nat

Batches == 0 .. NumBatches - 1
NoBatch == -1
NoResponse == [kind |-> "none", shard |-> NoBatch, count |-> 0]

VARIABLES
  nextBatch,   (* the AtomicUsize all controllers fetch_add                *)
  ctl,         (* controller thread: program counter, leased batch, attempt*)
  proc,        (* worker process of a slot: its state and the batch it runs*)
  request,     (* batch written to the worker's stdin and not yet read     *)
  closing,     (* slots whose stdin got Shutdown or was dropped            *)
  response,    (* response the reader thread has put into the channel      *)
  results,     (* results[s][b]: results a controller holds per batch file *)
  memory,      (* memory[s][b]: times the worker's filter has learned b    *)
  shard,       (* the same, as saved in the slot's shard file; NoShard     *)
  faulty,      (* worker_failures or restart_count is not zero             *)
  verdict      (* result of the pass                                       *)

NoShard == [b \in Batches |-> -1]

ctlVars  == <<nextBatch, ctl>>
procVars == <<proc, request, closing, response, memory, shard>>
vars == <<nextBatch, ctl, proc, request, closing, response, results, memory,
          shard, faulty, verdict>>

Fresh == [b \in Batches |-> 0]

CtlStates  == {"spawn", "claim", "send", "collect", "terminate", "closing",
               "done", "failed"}
LiveStates == {"idle", "busy", "saved", "unsaved"}
ProcStates == LiveStates \cup {"none", "exited", "lost", "dead"}
Responses  == [kind : {"none", "output", "failure", "broken"},
               shard : Batches \cup {NoBatch}, count : 0 .. 2]

CtlType ==
  /\ nextBatch \in Nat
  /\ ctl \in [Slots -> [pc : CtlStates, task : Batches \cup {NoBatch},
                        attempt : 0 .. MaxRestarts]]

ProcType ==
  /\ proc \in [Slots -> [st : ProcStates, batch : Batches \cup {NoBatch}]]
  /\ request \in [Slots -> Batches \cup {NoBatch}]
  /\ closing \subseteq Slots

LearnType ==
  /\ memory \in [Slots -> [Batches -> Nat]]
  /\ shard \in [Slots -> [Batches -> Nat] \cup {NoShard}]

ResultType ==
  /\ response \in [Slots -> Responses]
  /\ results \in [Slots -> [Batches -> Nat]]
  /\ faulty \in BOOLEAN
  /\ verdict \in {"running", "ok", "failed", "mismatch"}

TypeOK == CtlType /\ ProcType /\ LearnType /\ ResultType

Init ==
  /\ nextBatch = 0
  /\ ctl = [s \in Slots |-> [pc |-> "spawn", task |-> NoBatch, attempt |-> 0]]
  /\ proc = [s \in Slots |-> [st |-> "none", batch |-> NoBatch]]
  /\ request = [s \in Slots |-> NoBatch]
  /\ closing = {}
  /\ response = [s \in Slots |-> NoResponse]
  /\ results = [s \in Slots |-> Fresh]
  /\ memory = [s \in Slots |-> Fresh]
  /\ shard = [s \in Slots |-> NoShard]
  /\ faulty = FALSE
  /\ verdict = "running"

-----------------------------------------------------------------------------
(* The controller thread.                                                  *)

Goto(s, pc) == ctl' = [ctl EXCEPT ![s].pc = pc]

Alive(s) == proc[s].st \in LiveStates

(* spawn_worker: a new process with new pipes and a new response channel.  *)
(* The worker loads its slot's shard file if an earlier incarnation saved  *)
(* one, and starts with a new filter otherwise.                            *)
SpawnWorker(s) ==
  /\ ctl[s].pc = "spawn"
  /\ Goto(s, IF ctl[s].task = NoBatch THEN "claim" ELSE "send")
  /\ proc' = [proc EXCEPT ![s] = [st |-> "idle", batch |-> NoBatch]]
  /\ request' = [request EXCEPT ![s] = NoBatch]
  /\ closing' = closing \ {s}
  /\ response' = [response EXCEPT ![s] = NoResponse]
  /\ memory' = [memory EXCEPT ![s] = IF shard[s] = NoShard THEN Fresh ELSE shard[s]]
  /\ UNCHANGED <<nextBatch, results, shard, faulty, verdict>>

(* spawn_worker returns an error: the controller returns it.               *)
SpawnFails(s) ==
  /\ ctl[s].pc = "spawn"
  /\ Goto(s, "failed")
  /\ UNCHANGED <<nextBatch, procVars, results, faulty, verdict>>

(* Mutant: the counter is loaded and stored, not incremented atomically.   *)
RacyClaim(s) ==
  /\ ctl[s].pc = "claim"
  /\ nextBatch' \in {nextBatch, nextBatch + 1}
  /\ \/ /\ nextBatch \in Batches
        /\ ctl' = [ctl EXCEPT ![s] = [pc |-> "send", task |-> nextBatch, attempt |-> 0]]
        /\ UNCHANGED closing
     \/ /\ nextBatch \notin Batches
        /\ ctl' = [ctl EXCEPT ![s] = [pc |-> "closing", task |-> NoBatch, attempt |-> 0]]
        /\ closing' = closing \cup {s}
  /\ UNCHANGED <<proc, request, response, results, memory, shard, faulty, verdict>>

(* next_batch.fetch_add(1): lease the next batch, or leave the loop when   *)
(* there is none and start shutdown_worker (send Shutdown, drop stdin).    *)
Claim(s) ==
  /\ ctl[s].pc = "claim"
  /\ nextBatch' = nextBatch + 1
  /\ \/ /\ nextBatch \in Batches
        /\ ctl' = [ctl EXCEPT ![s] = [pc |-> "send", task |-> nextBatch, attempt |-> 0]]
        /\ UNCHANGED closing
     \/ /\ nextBatch \notin Batches
        /\ ctl' = [ctl EXCEPT ![s] = [pc |-> "closing", task |-> NoBatch, attempt |-> 0]]
        /\ closing' = closing \cup {s}
  /\ UNCHANGED <<proc, request, response, results, memory, shard, faulty, verdict>>

(* worker.send succeeds.                                                   *)
Send(s) ==
  /\ ctl[s].pc = "send"
  /\ Alive(s)
  /\ request' = [request EXCEPT ![s] = ctl[s].task]
  /\ Goto(s, "collect")
  /\ UNCHANGED <<nextBatch, proc, closing, response, results, memory, shard,
                 faulty, verdict>>

(* Mutant: one restart too many.                                           *)
LateRecover(s) ==
  /\ ctl' = IF ctl[s].attempt > MaxRestarts
            THEN [ctl EXCEPT ![s].pc = "failed"]
            ELSE [ctl EXCEPT ![s].pc = "terminate", ![s].attempt = @ + 1]
  /\ closing' = closing \cup {s}
  /\ faulty' = TRUE
  /\ UNCHANGED <<nextBatch, proc, request, response, results, memory, shard, verdict>>

(* Mutant: the restarts of a batch are not counted.                        *)
FreeRecover(s) ==
  /\ ctl' = [ctl EXCEPT ![s].pc = IF ctl[s].attempt >= MaxRestarts THEN "failed" ELSE "terminate"]
  /\ closing' = closing \cup {s}
  /\ faulty' = TRUE
  /\ UNCHANGED <<nextBatch, proc, request, response, results, memory, shard, verdict>>

(* What both error arms of the lease loop do: give up when the batch has   *)
(* used its restarts, dropping the worker (stdin closes, nobody kills or   *)
(* waits for the process), or start terminate_worker.                      *)
Recover(s) ==
  /\ ctl' = IF ctl[s].attempt >= MaxRestarts
            THEN [ctl EXCEPT ![s].pc = "failed"]
            ELSE [ctl EXCEPT ![s].pc = "terminate", ![s].attempt = @ + 1]
  /\ closing' = closing \cup {s}
  /\ faulty' = TRUE
  /\ UNCHANGED <<nextBatch, proc, request, response, results, memory, shard, verdict>>

(* worker.send fails: the process at the other end of the pipe is gone.    *)
SendFails(s) ==
  /\ ctl[s].pc = "send"
  /\ ~Alive(s)
  /\ Recover(s)

(* Mutant: the coverage of the response is not checked.                    *)
UncheckedValid(s, r) == r.kind = "output" /\ r.shard = ctl[s].task

(* The checks of collect_output on the response for the leased batch.      *)
Valid(s, r) ==
  /\ r.kind = "output"
  /\ r.shard = ctl[s].task
  /\ r.count = 1

(* collect_output returns the output: its results join the controller's.   *)
Collect(s) ==
  /\ ctl[s].pc = "collect"
  /\ Valid(s, response[s])
  /\ results' = [results EXCEPT ![s][response[s].shard] = @ + response[s].count]
  /\ response' = [response EXCEPT ![s] = NoResponse]
  /\ Goto(s, "claim")
  /\ UNCHANGED <<nextBatch, proc, request, closing, memory, shard, faulty, verdict>>

(* collect_output returns an error: an invalid response, a closed channel, *)
(* or the timeout, which can fire as long as nothing has been received.    *)
CollectFails(s) ==
  /\ ctl[s].pc = "collect"
  /\ ~Valid(s, response[s])
  /\ Recover(s)

(* wait_worker_output_with_timeout: once its timeout has passed (1 ms when *)
(* terminating) it kills a worker that has not exited.                     *)
Kill(s) ==
  /\ ctl[s].pc \in {"terminate", "closing"}
  /\ Alive(s)
  /\ proc' = [proc EXCEPT ![s] = [st |-> "dead", batch |-> NoBatch]]
  /\ UNCHANGED <<nextBatch, ctl, request, closing, response, results, memory,
                 shard, faulty, verdict>>

(* terminate_worker has seen the old process exit; a new one is spawned.   *)
Terminated(s) ==
  /\ ctl[s].pc = "terminate"
  /\ ~Alive(s)
  /\ Goto(s, "spawn")
  /\ UNCHANGED <<nextBatch, procVars, results, faulty, verdict>>

(* Mutant: shutdown_worker does not wait for the exit.                     *)
HastyShutDown(s) ==
  /\ ctl[s].pc = "closing"
  /\ Goto(s, "done")
  /\ faulty' = (faulty \/ proc[s].st \notin {"exited", "lost"})
  /\ UNCHANGED <<nextBatch, procVars, results, verdict>>

(* Mutant: an unclean exit is not counted.                                 *)
SilentShutDown(s) ==
  /\ ctl[s].pc = "closing"
  /\ ~Alive(s)
  /\ Goto(s, "done")
  /\ UNCHANGED <<nextBatch, procVars, results, faulty, verdict>>

(* shutdown_worker returns; an unclean exit is only counted and logged.    *)
ShutDown(s) ==
  /\ ctl[s].pc = "closing"
  /\ ~Alive(s)
  /\ Goto(s, "done")
  /\ faulty' = (faulty \/ proc[s].st \notin {"exited", "lost"})
  /\ UNCHANGED <<nextBatch, procVars, results, verdict>>

-----------------------------------------------------------------------------
(* The worker process (run_pool_entry).                                    *)

(* It reads the next request.                                              *)
Receive(s) ==
  /\ proc[s].st = "idle"
  /\ request[s] # NoBatch
  /\ proc' = [proc EXCEPT ![s] = [st |-> "busy", batch |-> request[s]]]
  /\ request' = [request EXCEPT ![s] = NoBatch]
  /\ UNCHANGED <<nextBatch, ctl, closing, response, results, memory, shard,
                 faulty, verdict>>

(* run_pass ends and the response is written.  The filter has learned from *)
(* the batch whether or not the pass then fails, and the frame that        *)
(* arrives may be unreadable.                                              *)
Respond(s) ==
  /\ proc[s].st = "busy"
  /\ proc' = [proc EXCEPT ![s] = [st |-> "idle", batch |-> NoBatch]]
  /\ memory' = [memory EXCEPT ![s][proc[s].batch] = @ + 1]
  /\ \/ \E n \in 0 .. 2 : response' = [response EXCEPT ![s] =
          [kind |-> "output", shard |-> proc[s].batch, count |-> n]]
     \/ \E k \in {"failure", "broken"} : response' = [response EXCEPT ![s] =
          [kind |-> k, shard |-> NoBatch, count |-> 0]]
  /\ UNCHANGED <<nextBatch, ctl, request, closing, results, shard, faulty, verdict>>

(* Shutdown or end of input: save the filter state to the slot's shard; an *)
(* error is only logged.                                                   *)
SaveState(s) ==
  /\ proc[s].st = "idle"
  /\ request[s] = NoBatch
  /\ s \in closing
  /\ \/ /\ proc' = [proc EXCEPT ![s].st = "saved"]
        /\ shard' = [shard EXCEPT ![s] = memory[s]]
     \/ /\ proc' = [proc EXCEPT ![s].st = "unsaved"]
        /\ UNCHANGED shard
  /\ UNCHANGED <<nextBatch, ctl, request, closing, response, results, memory,
                 faulty, verdict>>

(* The worker returns from run_pool_entry with status 0, saved or not.     *)
Exit(s) ==
  /\ proc[s].st \in {"saved", "unsaved"}
  /\ proc' = [proc EXCEPT ![s].st = IF @ = "saved" THEN "exited" ELSE "lost"]
  /\ UNCHANGED <<nextBatch, ctl, request, closing, response, results, memory,
                 shard, faulty, verdict>>

(* The process dies on its own (panic, out of memory, broken stdin frame). *)
Crash(s) ==
  /\ Alive(s)
  /\ proc' = [proc EXCEPT ![s] = [st |-> "dead", batch |-> NoBatch]]
  /\ UNCHANGED <<nextBatch, ctl, request, closing, response, results, memory,
                 shard, faulty, verdict>>

-----------------------------------------------------------------------------
(* The parent, after the scope has joined every controller.                *)

Joined == \A s \in Slots : ctl[s].pc \in {"done", "failed"}

(* A controller returned an error: the pass fails and the temporary        *)
(* directory with the shards is removed.                                   *)
JoinFailed ==
  /\ verdict = "running"
  /\ Joined
  /\ \E s \in Slots : ctl[s].pc = "failed"
  /\ verdict' = "failed"
  /\ shard' = [s \in Slots |-> NoShard]
  /\ UNCHANGED <<nextBatch, ctl, proc, request, closing, response, results,
                 memory, faulty>>

(* validate_and_order_multiprocess_results: the merged results hold each   *)
(* expected file exactly once.                                             *)
ExactCoverage ==
  \A b \in Batches :
    \E s \in Slots : results[s][b] = 1 /\ \A t \in Slots \ {s} : results[t][b] = 0

(* Every controller returned its output: merge_worker_learning_states      *)
(* reads the shards (and may fail the pass, which drops the results), the  *)
(* coverage check decides, and the temporary directory is removed.         *)
JoinAll ==
  /\ verdict = "running"
  /\ \A s \in Slots : ctl[s].pc = "done"
  /\ verdict' \in {"failed", IF ExactCoverage THEN "ok" ELSE "mismatch"}
  /\ shard' = [s \in Slots |-> NoShard]
  /\ UNCHANGED <<nextBatch, ctl, proc, request, closing, response, results,
                 memory, faulty>>

-----------------------------------------------------------------------------
Controller(s) ==
  \/ SpawnWorker(s) \/ SpawnFails(s) \/ Claim(s) \/ Send(s) \/ SendFails(s)
  \/ Collect(s) \/ CollectFails(s) \/ Kill(s) \/ Terminated(s) \/ ShutDown(s)

Worker(s) == Receive(s) \/ Respond(s) \/ SaveState(s) \/ Exit(s) \/ Crash(s)

Parent == JoinFailed \/ JoinAll

(* The program has returned from the pass; a dropped worker may still run. *)
Returned == verdict # "running" /\ UNCHANGED vars

Next ==
  \/ \E s \in Slots : Controller(s) \/ Worker(s)
  \/ Parent
  \/ Returned

(* Controller threads and the parent are never stopped: each of their      *)
(* waits has a timeout, after which the step they wait to take is enabled. *)
(* Nothing is assumed of the workers, which may hang or crash.             *)
Fairness ==
  /\ \A s \in Slots : WF_vars(Controller(s))
  /\ WF_vars(Parent)

Spec == Init /\ [][Next]_vars /\ Fairness

-----------------------------------------------------------------------------
(* What the pass promises.                                                 *)

(* The coverage check at the end of the pass never fires: batches leased   *)
(* from the shared counter and validated one by one by collect_output add  *)
(* up to every input file exactly once, whatever timed out, crashed or was *)
(* sent again on the way ("multiprocess deterministic merge mismatch").    *)
NeverMismatch == verdict # "mismatch"

(* A batch whose results a controller holds is not being worked on for any *)
(* controller: no other holds a result for it or has it leased, and its    *)
(* own controller is not about to send it again.                           *)
DeliveredOnce ==
  \A s \in Slots : \A b \in Batches :
    results[s][b] > 0 =>
      /\ results[s][b] = 1
      /\ \A t \in Slots \ {s} : results[t][b] = 0 /\ ctl[t].task # b
      /\ ctl[s].task = b => ctl[s].pc = "claim"

(* When the pass succeeds every worker process is gone: shutdown_worker    *)
(* waits for the exit and kills a worker that does not exit in time.       *)
NoWorkerOutlivesSuccess ==
  verdict = "ok" => \A s \in Slots : ~Alive(s)

(* In a pass that counted no worker failure and no restart, and in which   *)
(* every shard could be written, the shards to be merged hold every batch  *)
(* exactly once: nothing is learned twice or lost between the workers'     *)
(* memory and merge_worker_learning_states.                                *)
CleanPassLearnsOnce ==
  (/\ verdict = "running" /\ ~faulty
   /\ \A s \in Slots : ctl[s].pc = "done" /\ proc[s].st # "lost") =>
    \A b \in Batches : \E s \in Slots :
      /\ shard[s][b] = 1
      /\ \A t \in Slots \ {s} : shard[t][b] = 0

(* The pass ends: the timeouts and the restart budget leave no way to wait *)
(* for a worker, or to replace it, for ever.                               *)
PassEnds == <>(verdict # "running")

(* The pass implements a ledger that delivers each batch exactly once and  *)
(* succeeds only when all are delivered.                                   *)
Ledger == INSTANCE BatchLedger WITH ledger <- results, outcome <- verdict
LedgerSpec == Ledger!Spec

=============================================================================
