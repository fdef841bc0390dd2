-------------------------- MODULE WorkerPoolProofs --------------------------
(***************************************************************************)
(* Proofs about WorkerPool, for any number of slots, batches and restarts. *)
(*                                                                         *)
(* DeliveredOnce is not inductive: that Collect delivers a batch nobody    *)
(* has delivered needs to know that a leased batch is leased by one slot   *)
(* only, and that nothing at or beyond the counter is leased or delivered. *)
(* NeverMismatch moreover needs that no batch below the counter is lost,   *)
(* and CleanPassLearnsOnce where the learning of each slot is.             *)
(***************************************************************************)
EXTENDS WorkerPool, TLAPS

(* A busy worker runs a batch; a controller that talks to its worker about *)
(* a batch has leased one.                                                 *)
HasTask ==
  \A s \in Slots :
    /\ proc[s].st = "busy" => proc[s].batch \in Batches
    /\ ctl[s].pc \in {"send", "collect", "terminate"} => ctl[s].task \in Batches

(* Leases come from the counter, and no two slots hold the same one.       *)
LeasedOnce ==
  \A s \in Slots :
    /\ ctl[s].task < nextBatch
    /\ \A t \in Slots \ {s} : ctl[s].task = ctl[t].task => ctl[s].task = NoBatch

(* Only batches below the counter have results.                            *)
DeliveredLeased ==
  \A s \in Slots : \A b \in Batches : results[s][b] > 0 => b < nextBatch

(* A batch below the counter is delivered or still in somebody's hands.    *)
Accounted ==
  \A b \in Batches : b < nextBatch =>
    \E s \in Slots : results[s][b] > 0 \/ (ctl[s].task = b /\ ctl[s].pc # "claim")

(* A controller leaves its loop when the counter has passed the batches,   *)
(* and is done once its worker is gone.                                    *)
Finished ==
  \A s \in Slots :
    /\ ctl[s].pc \in {"closing", "done"} =>
         ctl[s].task = NoBatch /\ nextBatch >= NumBatches
    /\ ctl[s].pc = "done" => ~Alive(s)

(* The pass has a verdict only when every controller has returned, and     *)
(* succeeds only when all of them returned their output.                   *)
Settled ==
  /\ verdict # "running" => Joined
  /\ verdict = "ok" => \A s \in Slots : ctl[s].pc = "done"

IInv ==
  /\ TypeOK /\ HasTask /\ LeasedOnce /\ DeliveredOnce /\ DeliveredLeased
  /\ Accounted /\ Finished /\ Settled /\ NeverMismatch

-----------------------------------------------------------------------------
THEOREM InitIInv == Init => IInv
<1> SUFFICES ASSUME Init PROVE IInv
  OBVIOUS
<1> USE WorkerPoolAssumption DEF Init
<1>f. Fresh \in [Batches -> Nat] /\ NoResponse \in Responses
  BY DEF Fresh, NoResponse, Responses
<1>1. TypeOK
  <2>1. CtlType
    BY DEF CtlType, CtlStates
  <2>2. ProcType
    BY DEF ProcType, ProcStates, LiveStates
  <2>3. LearnType
    BY <1>f DEF LearnType
  <2>4. ResultType
    BY <1>f DEF ResultType
  <2> QED
    BY <2>1, <2>2, <2>3, <2>4 DEF TypeOK
<1>2. HasTask /\ LeasedOnce /\ DeliveredOnce /\ DeliveredLeased
  BY DEF HasTask, LeasedOnce, DeliveredOnce, DeliveredLeased, Fresh, NoBatch, Batches
<1>3. Accounted /\ Finished /\ Settled /\ NeverMismatch
  BY DEF Accounted, Finished, Settled, NeverMismatch, Batches
<1> QED
  BY <1>1, <1>2, <1>3 DEF IInv

(* When every controller is done the merged results are complete: this is  *)
(* why the coverage check of the merge cannot fire.                        *)
LEMMA DoneIsExact ==
  ASSUME IInv, \A s \in Slots : ctl[s].pc = "done"
  PROVE  ExactCoverage
<1> SUFFICES ASSUME NEW b \in Batches
             PROVE  \E s \in Slots : results[s][b] = 1 /\ \A t \in Slots \ {s} : results[t][b] = 0
  BY DEF ExactCoverage
<1>1. b < nextBatch
  BY WorkerPoolAssumption DEF IInv, Finished, TypeOK, CtlType, Batches
<1>2. PICK s \in Slots : results[s][b] > 0
  BY <1>1, WorkerPoolAssumption DEF IInv, Accounted, Finished, Batches, NoBatch
<1> QED
  BY <1>2 DEF IInv, DeliveredOnce

(* The steps of a slot; the two error arms share Recover.                  *)
SlotStep(s) ==
  \/ SpawnWorker(s) \/ SpawnFails(s) \/ Claim(s) \/ Send(s) \/ SendFails(s)
  \/ Collect(s) \/ CollectFails(s) \/ Kill(s) \/ Terminated(s) \/ ShutDown(s)
  \/ Receive(s) \/ Respond(s) \/ SaveState(s) \/ Exit(s) \/ Crash(s)

LEMMA StepCases ==
  ASSUME [Next]_vars
  PROVE  (\E s \in Slots : SlotStep(s)) \/ JoinFailed \/ JoinAll \/ UNCHANGED vars
BY DEF Next, Controller, Worker, Parent, Returned, SlotStep

LEMMA CtlTypeStep == IInv /\ [Next]_vars => CtlType'
<1> SUFFICES ASSUME IInv, [Next]_vars PROVE CtlType'
  OBVIOUS
<1> USE WorkerPoolAssumption DEF CtlType, CtlStates
<1>0. CtlType
  BY DEF IInv, TypeOK
<1>1. ASSUME NEW s \in Slots, SlotStep(s) PROVE CtlType'
  <2>1. CASE SpawnWorker(s) \/ SpawnFails(s) \/ Send(s) \/ Collect(s)
    BY <1>0, <2>1 DEF SpawnWorker, SpawnFails, Send, Collect, Goto
  <2>2. CASE Claim(s)
    BY <1>0, <2>2 DEF Claim
  <2>3. CASE SendFails(s) \/ CollectFails(s)
    BY <1>0, <2>3 DEF SendFails, CollectFails, Recover
  <2>4. CASE Terminated(s) \/ ShutDown(s)
    BY <1>0, <2>4 DEF Terminated, ShutDown, Goto
  <2>5. CASE Kill(s) \/ Crash(s) \/ Receive(s) \/ Respond(s) \/ SaveState(s) \/ Exit(s)
    BY <1>0, <2>5 DEF Kill, Crash, Receive, Respond, SaveState, Exit
  <2> QED
    BY <1>1, <2>1, <2>2, <2>3, <2>4, <2>5 DEF SlotStep
<1>2. CASE JoinFailed \/ JoinAll \/ UNCHANGED vars
  BY <1>0, <1>2 DEF JoinFailed, JoinAll, vars
<1> QED
  BY <1>1, <1>2, StepCases

LEMMA ProcTypeStep == IInv /\ [Next]_vars => ProcType'
<1> SUFFICES ASSUME IInv, [Next]_vars PROVE ProcType'
  OBVIOUS
<1> USE DEF ProcType, ProcStates, LiveStates
<1>0. ProcType /\ CtlType
  BY DEF IInv, TypeOK
<1>1. ASSUME NEW s \in Slots, SlotStep(s) PROVE ProcType'
  <2>1. CASE SpawnWorker(s)
    BY <1>0, <2>1 DEF SpawnWorker
  <2>2. CASE Send(s)
    BY <1>0, <2>2 DEF Send, CtlType
  <2>8. CASE Claim(s) \/ SendFails(s) \/ CollectFails(s)
    BY <1>0, <2>8 DEF Claim, SendFails, CollectFails, Recover
  <2>3. CASE SpawnFails(s) \/ Collect(s) \/ Terminated(s) \/ ShutDown(s)
    BY <1>0, <2>3 DEF SpawnFails, Collect, Terminated, ShutDown, procVars
  <2>4. CASE Kill(s) \/ Crash(s)
    BY <1>0, <2>4 DEF Kill, Crash
  <2>5. CASE Receive(s)
    BY <1>0, <2>5 DEF Receive
  <2>6. CASE Respond(s)
    BY <1>0, <2>6 DEF Respond
  <2>7. CASE SaveState(s) \/ Exit(s)
    BY <1>0, <2>7 DEF SaveState, Exit
  <2> QED
    BY <1>1, <2>1, <2>2, <2>3, <2>4, <2>5, <2>6, <2>7, <2>8 DEF SlotStep
<1>2. CASE JoinFailed \/ JoinAll \/ UNCHANGED vars
  BY <1>0, <1>2 DEF JoinFailed, JoinAll, vars
<1> QED
  BY <1>1, <1>2, StepCases

LEMMA LearnTypeStep == IInv /\ [Next]_vars => LearnType'
<1> SUFFICES ASSUME IInv, [Next]_vars PROVE LearnType'
  OBVIOUS
<1> USE DEF LearnType
<1>0. LearnType /\ HasTask
  BY DEF IInv, TypeOK
<1>1. ASSUME NEW s \in Slots, SlotStep(s) PROVE LearnType'
  <2>1. CASE SpawnWorker(s)
    <3>1. (IF shard[s] = NoShard THEN Fresh ELSE shard[s]) \in [Batches -> Nat]
      BY <1>0 DEF Fresh
    <3> QED
      BY <1>0, <2>1, <3>1 DEF SpawnWorker
  <2>2. CASE Respond(s)
    BY <1>0, <2>2 DEF Respond, HasTask
  <2>3. CASE SaveState(s) \/ Exit(s)
    BY <1>0, <2>3 DEF SaveState, Exit
  <2>4. CASE SpawnFails(s) \/ Terminated(s) \/ ShutDown(s)
    BY <1>0, <2>4 DEF SpawnFails, Terminated, ShutDown, procVars
  <2>5. CASE Claim(s) \/ Send(s) \/ SendFails(s) \/ Collect(s) \/ CollectFails(s)
    BY <1>0, <2>5 DEF Claim, Send, SendFails, Collect, CollectFails, Recover
  <2>6. CASE Kill(s) \/ Crash(s) \/ Receive(s)
    BY <1>0, <2>6 DEF Kill, Crash, Receive
  <2> QED
    BY <1>1, <2>1, <2>2, <2>3, <2>4, <2>5, <2>6 DEF SlotStep
<1>2. CASE JoinFailed \/ JoinAll \/ UNCHANGED vars
  BY <1>0, <1>2 DEF JoinFailed, JoinAll, vars
<1> QED
  BY <1>1, <1>2, StepCases

LEMMA ResultTypeStep == IInv /\ [Next]_vars => ResultType'
<1> SUFFICES ASSUME IInv, [Next]_vars PROVE ResultType'
  OBVIOUS
<1> USE DEF ResultType
<1>0. ResultType /\ HasTask
  BY DEF IInv, TypeOK
<1>n. NoResponse \in Responses
  BY DEF NoResponse, Responses
<1>1. ASSUME NEW s \in Slots, SlotStep(s) PROVE ResultType'
  <2>1. CASE SpawnWorker(s)
    BY <1>0, <1>n, <2>1 DEF SpawnWorker
  <2>2. CASE Collect(s)
    <3>1. response[s].shard \in Batches /\ response[s].count = 1
      BY <1>0, <2>2 DEF Collect, Valid, HasTask
    <3>2. results' \in [Slots -> [Batches -> Nat]]
      BY <1>0, <2>2, <3>1 DEF Collect
    <3> QED
      BY <1>0, <1>n, <2>2, <3>2 DEF Collect
  <2>3. CASE Respond(s)
    <3>1. proc[s].batch \in Batches
      BY <1>0, <2>3 DEF Respond, HasTask
    <3>2. PICK r \in Responses : response' = [response EXCEPT ![s] = r]
      <4>1. \A n \in 0 .. 2 : [kind |-> "output", shard |-> proc[s].batch, count |-> n] \in Responses
        BY <3>1 DEF Responses
      <4>2. \A k \in {"failure", "broken"} : [kind |-> k, shard |-> NoBatch, count |-> 0] \in Responses
        BY DEF Responses
      <4> QED
        BY <2>3, <4>1, <4>2 DEF Respond
    <3> QED
      BY <1>0, <2>3, <3>2 DEF Respond
  <2>4. CASE SpawnFails(s) \/ Terminated(s) \/ ShutDown(s)
    BY <1>0, <2>4 DEF SpawnFails, Terminated, ShutDown, procVars
  <2>5. CASE Claim(s) \/ Send(s) \/ SendFails(s) \/ CollectFails(s)
    BY <1>0, <2>5 DEF Claim, Send, SendFails, CollectFails, Recover
  <2>6. CASE Kill(s) \/ Crash(s) \/ Receive(s) \/ SaveState(s) \/ Exit(s)
    BY <1>0, <2>6 DEF Kill, Crash, Receive, SaveState, Exit
  <2> QED
    BY <1>1, <2>1, <2>2, <2>3, <2>4, <2>5, <2>6 DEF SlotStep
<1>2. CASE JoinFailed \/ JoinAll \/ UNCHANGED vars
  BY <1>0, <1>2 DEF JoinFailed, JoinAll, vars
<1> QED
  BY <1>1, <1>2, StepCases

-----------------------------------------------------------------------------
(* The part of the invariant that only the controllers' steps can disturb. *)
Ledgered == LeasedOnce /\ DeliveredOnce /\ DeliveredLeased /\ Accounted

(* Steps that leave the counter, the results, every lease and every        *)
(* controller's being between two batches as they are.                     *)
LEMMA LedgeredFrame ==
  ASSUME IInv, nextBatch' = nextBatch, results' = results,
         \A s \in Slots : /\ ctl'[s].task = ctl[s].task
                          /\ ctl'[s].pc = "claim" <=> ctl[s].pc = "claim"
  PROVE  Ledgered'
BY DEF IInv, Ledgered, LeasedOnce, DeliveredOnce, DeliveredLeased, Accounted

(* A spawned worker without a task takes its controller to the next lease; *)
(* one with a task does not.                                               *)
LEMMA LedgeredSpawn ==
  ASSUME IInv, NEW s \in Slots, SpawnWorker(s)
  PROVE  Ledgered'
<1> USE DEF SpawnWorker, Goto
<1>0. CtlType /\ \A b \in Batches : b # NoBatch
  BY WorkerPoolAssumption DEF IInv, TypeOK, Batches, NoBatch
<1>1. \A t \in Slots : /\ ctl'[t].task = ctl[t].task
                       /\ t # s => ctl'[t] = ctl[t]
  BY <1>0 DEF CtlType
<1>2. LeasedOnce' /\ DeliveredLeased'
  BY <1>1 DEF IInv, LeasedOnce, DeliveredLeased
<1>3. DeliveredOnce'
  BY <1>0, <1>1 DEF IInv, DeliveredOnce, CtlType
<1>4. Accounted'
  BY <1>0, <1>1 DEF IInv, Accounted, CtlType
<1> QED
  BY <1>2, <1>3, <1>4 DEF Ledgered

(* The counter hands out a batch that nobody has leased or delivered.      *)
LEMMA LedgeredClaim ==
  ASSUME IInv, NEW s \in Slots, Claim(s)
  PROVE  Ledgered'
<1> USE DEF Claim
<1>0. CtlType /\ ResultType
  BY DEF IInv, TypeOK
<1>1. /\ nextBatch' = nextBatch + 1 /\ nextBatch \in Nat
      /\ results' = results
      /\ ctl'[s].pc # "claim" /\ ctl[s].pc = "claim"
      /\ ctl'[s].task = (IF nextBatch \in Batches THEN nextBatch ELSE NoBatch)
      /\ \A t \in Slots \ {s} : ctl'[t] = ctl[t]
  BY <1>0 DEF CtlType
<1>2. \A t \in Slots : ctl[t].task \in Int /\ ctl[t].task < nextBatch
  BY <1>0, WorkerPoolAssumption DEF IInv, LeasedOnce, CtlType, Batches, NoBatch
<1>3. LeasedOnce'
  BY <1>1, <1>2, WorkerPoolAssumption DEF IInv, LeasedOnce, NoBatch
<1>4. DeliveredLeased'
  BY <1>1, WorkerPoolAssumption DEF IInv, DeliveredLeased, Batches
<1>5. DeliveredOnce'
  <2> SUFFICES ASSUME NEW u \in Slots, NEW b \in Batches, results[u][b] > 0
               PROVE  /\ results[u][b] = 1
                      /\ \A t \in Slots \ {u} : results[t][b] = 0 /\ ctl'[t].task # b
                      /\ ctl'[u].task = b => ctl'[u].pc = "claim"
    BY <1>1 DEF DeliveredOnce
  <2>1. b < nextBatch /\ b \in Nat /\ b # NoBatch
    BY WorkerPoolAssumption DEF IInv, DeliveredLeased, Batches, NoBatch
  <2>2. ctl'[s].task # b
    BY <1>1, <2>1
  <2> QED
    BY <1>1, <2>2 DEF IInv, DeliveredOnce
<1>6. Accounted'
  <2> SUFFICES ASSUME NEW b \in Batches, b < nextBatch + 1
               PROVE  \E u \in Slots :
                        results[u][b] > 0 \/ (ctl'[u].task = b /\ ctl'[u].pc # "claim")
    BY <1>1 DEF Accounted
  <2>1. CASE b = nextBatch
    BY <1>1, <2>1
  <2>2. CASE b < nextBatch
    <3>1. PICK u \in Slots : results[u][b] > 0 \/ (ctl[u].task = b /\ ctl[u].pc # "claim")
      BY <2>2 DEF IInv, Accounted
    <3>2. CASE results[u][b] > 0
      BY <3>2
    <3>3. CASE ctl[u].task = b /\ ctl[u].pc # "claim"
      <4>1. ctl'[u] = ctl[u]
        BY <1>1, <3>3
      <4> QED
        BY <3>3, <4>1
    <3> QED
      BY <3>1, <3>2, <3>3
  <2> QED
    BY <1>1, <2>1, <2>2, WorkerPoolAssumption DEF Batches
<1> QED
  BY <1>3, <1>4, <1>5, <1>6 DEF Ledgered

(* Collecting delivers the leased batch, which nobody else has.            *)
LEMMA LedgeredCollect ==
  ASSUME IInv, NEW s \in Slots, Collect(s)
  PROVE  Ledgered'
<1> USE DEF Collect, Goto
<1> DEFINE b == ctl[s].task
<1>0. CtlType /\ ResultType
  BY DEF IInv, TypeOK
<1>1. /\ b \in Batches /\ ctl[s].pc = "collect"
      /\ response[s].shard = b /\ response[s].count = 1
  BY DEF IInv, HasTask, Valid
<1>2. results[s][b] = 0 /\ \A t \in Slots \ {s} : results[t][b] = 0 /\ ctl[t].task # b
  <2>1. \A t \in Slots : results[t][b] \in Nat
    BY <1>0, <1>1 DEF ResultType
  <2> QED
    BY <1>1, <2>1, WorkerPoolAssumption DEF IInv, DeliveredOnce, LeasedOnce, Batches, NoBatch
<1>3. \A t \in Slots, c \in Batches :
        results'[t][c] = IF t = s /\ c = b THEN 1 ELSE results[t][c]
  BY <1>0, <1>1, <1>2 DEF ResultType
<1>4. /\ nextBatch' = nextBatch
      /\ \A t \in Slots : ctl'[t].task = ctl[t].task
      /\ \A t \in Slots : ctl'[t].pc = IF t = s THEN "claim" ELSE ctl[t].pc
  BY <1>0 DEF CtlType
<1> HIDE DEF b
<1>5. LeasedOnce'
  BY <1>4 DEF IInv, LeasedOnce
<1>6. DeliveredLeased'
  BY <1>1, <1>3, <1>4 DEF IInv, DeliveredLeased, LeasedOnce, b
<1>7. DeliveredOnce'
  <2> SUFFICES ASSUME NEW u \in Slots, NEW c \in Batches, results'[u][c] > 0
               PROVE  /\ results'[u][c] = 1
                      /\ \A t \in Slots \ {u} : results'[t][c] = 0 /\ ctl'[t].task # c
                      /\ ctl'[u].task = c => ctl'[u].pc = "claim"
    BY DEF DeliveredOnce
  <2>1. CASE u = s /\ c = b
    BY <1>2, <1>3, <1>4, <2>1
  <2>2. CASE ~(u = s /\ c = b)
    <3>1. results[u][c] > 0
      BY <1>3, <2>2
    <3>2. c # b
      BY <1>2, <2>2, <3>1
    <3> QED
      BY <1>3, <1>4, <2>2, <3>1, <3>2 DEF IInv, DeliveredOnce
  <2> QED
    BY <2>1, <2>2
<1>8. Accounted'
  BY <1>1, <1>3, <1>4 DEF IInv, Accounted, b
<1> QED
  BY <1>5, <1>6, <1>7, <1>8 DEF Ledgered

LEMMA LedgeredStep == IInv /\ [Next]_vars => Ledgered'
<1> SUFFICES ASSUME IInv, [Next]_vars PROVE Ledgered'
  OBVIOUS
<1>0. CtlType
  BY DEF IInv, TypeOK
<1>1. ASSUME NEW s \in Slots, SlotStep(s) PROVE Ledgered'
  <2>1. CASE SpawnWorker(s)
    BY <2>1, LedgeredSpawn
  <2>2. CASE Claim(s)
    BY <2>2, LedgeredClaim
  <2>3. CASE Collect(s)
    BY <2>3, LedgeredCollect
  <2>4. CASE SpawnFails(s) \/ Send(s) \/ Terminated(s) \/ ShutDown(s)
    BY <1>0, <2>4, LedgeredFrame DEF SpawnFails, Send, Terminated, ShutDown, Goto, CtlType
  <2>5. CASE SendFails(s) \/ CollectFails(s)
    BY <1>0, <2>5, LedgeredFrame DEF SendFails, CollectFails, Recover, CtlType
  <2>6. CASE Kill(s) \/ Crash(s) \/ Receive(s) \/ Respond(s) \/ SaveState(s) \/ Exit(s)
    BY <2>6, LedgeredFrame DEF Kill, Crash, Receive, Respond, SaveState, Exit
  <2> QED
    BY <1>1, <2>1, <2>2, <2>3, <2>4, <2>5, <2>6 DEF SlotStep
<1>2. CASE JoinFailed \/ JoinAll \/ UNCHANGED vars
  BY <1>2, LedgeredFrame DEF JoinFailed, JoinAll, vars
<1> QED
  BY <1>1, <1>2, StepCases

(* A controller's own progress: its task and its worker.  A step of one    *)
(* slot leaves the other slots as they are and never takes leases back.    *)
LEMMA ProgressFrame ==
  ASSUME IInv, NEW s \in Slots,
         \A t \in Slots \ {s} : ctl'[t] = ctl[t] /\ proc'[t] = proc[t],
         nextBatch' \in Nat, nextBatch' >= nextBatch,
         proc'[s].st = "busy" => proc'[s].batch \in Batches,
         ctl'[s].pc \in {"send", "collect", "terminate"} => ctl'[s].task \in Batches,
         ctl'[s].pc \in {"closing", "done"} => ctl'[s].task = NoBatch /\ nextBatch' >= NumBatches,
         ctl'[s].pc = "done" => proc'[s].st \notin LiveStates
  PROVE  (HasTask /\ Finished)'
<1>1. HasTask'
  BY DEF IInv, HasTask
<1>2. Finished'
  BY WorkerPoolAssumption DEF IInv, TypeOK, CtlType, Finished, Alive
<1> QED
  BY <1>1, <1>2

LEMMA ProgressStep == IInv /\ [Next]_vars => (HasTask /\ Finished)'
<1> SUFFICES ASSUME IInv, [Next]_vars PROVE (HasTask /\ Finished)'
  OBVIOUS
<1>0. CtlType /\ ProcType /\ HasTask /\ Finished
  BY DEF IInv, TypeOK
<1>b. \A b \in Batches : b # NoBatch
  BY WorkerPoolAssumption DEF Batches, NoBatch
<1>1. ASSUME NEW s \in Slots, SlotStep(s) PROVE (HasTask /\ Finished)'
  <2> USE DEF CtlType, ProcType
  <2>1. CASE SpawnWorker(s)
    BY <1>0, <2>1, ProgressFrame, <1>b DEF SpawnWorker, HasTask, Finished, Alive, LiveStates, Goto
  <2>2. CASE SpawnFails(s)
    BY <1>0, <2>2, ProgressFrame DEF SpawnFails, HasTask, Finished, Alive, LiveStates, Goto, procVars
  <2>3. CASE Claim(s)
    BY <1>0, <2>3, ProgressFrame, WorkerPoolAssumption DEF Claim, HasTask, Finished, Alive, LiveStates, Batches
  <2>4. CASE Send(s)
    BY <1>0, <2>4, ProgressFrame DEF Send, HasTask, Finished, Alive, LiveStates, Goto
  <2>5. CASE SendFails(s)
    BY <1>0, <2>5, ProgressFrame DEF SendFails, HasTask, Finished, Alive, LiveStates, Recover
  <2>6. CASE Collect(s)
    BY <1>0, <2>6, ProgressFrame DEF Collect, HasTask, Finished, Alive, LiveStates, Goto
  <2>7. CASE CollectFails(s)
    BY <1>0, <2>7, ProgressFrame DEF CollectFails, HasTask, Finished, Alive, LiveStates, Recover
  <2>8. CASE Kill(s)
    BY <1>0, <2>8, ProgressFrame DEF Kill, HasTask, Finished, Alive, LiveStates
  <2>9. CASE Terminated(s)
    BY <1>0, <2>9, ProgressFrame DEF Terminated, HasTask, Finished, Alive, LiveStates, Goto, procVars
  <2>10. CASE ShutDown(s)
    BY <1>0, <2>10, ProgressFrame DEF ShutDown, HasTask, Finished, Alive, LiveStates, Goto, procVars
  <2>11. CASE Receive(s)
    BY <1>0, <2>11, ProgressFrame, <1>b DEF Receive, HasTask, Finished, Alive, LiveStates
  <2>12. CASE Respond(s)
    BY <1>0, <2>12, ProgressFrame DEF Respond, HasTask, Finished, Alive, LiveStates
  <2>13. CASE SaveState(s) \/ Exit(s)
    BY <1>0, <2>13, ProgressFrame DEF SaveState, Exit, HasTask, Finished, Alive, LiveStates
  <2>14. CASE Crash(s)
    BY <1>0, <2>14, ProgressFrame DEF Crash, HasTask, Finished, Alive, LiveStates
  <2> QED
    BY <1>1, <2>1, <2>2, <2>3, <2>4, <2>5, <2>6, <2>7, <2>8, <2>9, <2>10, <2>11, <2>12, <2>13, <2>14
    DEF SlotStep
<1>2. CASE JoinFailed \/ JoinAll \/ UNCHANGED vars
  BY <1>0, <1>2 DEF JoinFailed, JoinAll, vars, HasTask, Finished, Alive, LiveStates
<1> QED
  BY <1>1, <1>2, StepCases

LEMMA VerdictStep == IInv /\ [Next]_vars => (Settled /\ NeverMismatch)'
<1> SUFFICES ASSUME IInv, [Next]_vars PROVE (Settled /\ NeverMismatch)'
  OBVIOUS
<1> USE DEF Settled, NeverMismatch, Joined
<1>0. CtlType /\ Settled /\ NeverMismatch
  BY DEF IInv, TypeOK
<1>1. ASSUME NEW s \in Slots, SlotStep(s) PROVE (Settled /\ NeverMismatch)'
  <2>1. verdict' = verdict
    BY <1>1 DEF SlotStep, SpawnWorker, SpawnFails, Claim, Send, SendFails, Collect, CollectFails,
      Recover, Kill, Terminated, ShutDown, Receive, Respond, SaveState, Exit, Crash
  <2>2. ctl' = ctl \/ ctl[s].pc \notin {"done", "failed"}
    BY <1>1 DEF SlotStep, SpawnWorker, SpawnFails, Claim, Send, SendFails, Collect, CollectFails,
      Kill, Terminated, ShutDown, Receive, Respond, SaveState, Exit, Crash
  <2> QED
    BY <1>0, <2>1, <2>2
<1>2. CASE JoinAll
  BY <1>2, DoneIsExact DEF JoinAll
<1>3. CASE JoinFailed
  BY <1>3 DEF JoinFailed
<1>4. CASE UNCHANGED vars
  BY <1>0, <1>4 DEF vars
<1> QED
  BY <1>1, <1>2, <1>3, <1>4, StepCases

THEOREM InductiveStep == IInv /\ [Next]_vars => IInv'
BY CtlTypeStep, ProcTypeStep, LearnTypeStep, ResultTypeStep, LedgeredStep, ProgressStep, VerdictStep
DEF IInv, TypeOK, Ledgered

THEOREM Invariance == Spec => []IInv
BY InitIInv, InductiveStep, PTL DEF Spec

-----------------------------------------------------------------------------
(* Every variable keeps its type: in particular no attempt counter passes  *)
(* worker_max_restarts.                                                    *)
THEOREM TypeCorrect == Spec => []TypeOK
<1>1. IInv => TypeOK
  BY DEF IInv
<1> QED
  BY <1>1, Invariance, PTL

(* No file is delivered twice, and none that is delivered is sent again.   *)
THEOREM DeliversOnce == Spec => []DeliveredOnce
<1>1. IInv => DeliveredOnce
  BY DEF IInv
<1> QED
  BY <1>1, Invariance, PTL

(* The merge of a pass never finds a missing or a repeated file.           *)
THEOREM MergeNeverMismatches == Spec => []NeverMismatch
<1>1. IInv => NeverMismatch
  BY DEF IInv
<1> QED
  BY <1>1, Invariance, PTL

(* A pass that succeeds leaves no worker process behind.                   *)
THEOREM SuccessLeavesNoWorker == Spec => []NoWorkerOutlivesSuccess
<1>1. IInv => NoWorkerOutlivesSuccess
  BY DEF IInv, Settled, Finished, NoWorkerOutlivesSuccess
<1> QED
  BY <1>1, Invariance, PTL

-----------------------------------------------------------------------------
(* The pass implements BatchLedger: collecting a response is a delivery of *)
(* an undelivered batch, joining the controllers ends the pass, and every  *)
(* other step is invisible to the caller.                                  *)
LEMMA RefineInit == Init => Ledger!Init
BY DEF Init, Fresh, Ledger!Init, Ledger!Batches, Batches

LEMMA RefineStep == IInv /\ [Next]_vars => [Ledger!Next]_<<results, verdict>>
<1> SUFFICES ASSUME IInv, [Next]_vars PROVE [Ledger!Next]_<<results, verdict>>
  OBVIOUS
<1> USE DEF Ledger!Next, Ledger!Batches
<1>0. Ledger!Batches = Batches
  BY DEF Batches
<1>1. ASSUME NEW s \in Slots, SlotStep(s) PROVE [Ledger!Next]_<<results, verdict>>
  <2>1. CASE Collect(s)
    <3> DEFINE b == ctl[s].task
    <3>1. b \in Batches /\ response[s].shard = b /\ response[s].count = 1 /\ ctl[s].pc = "collect"
      BY <2>1 DEF Collect, Valid, IInv, HasTask
    <3>2. \A t \in Slots : results[t][b] \in Nat
      BY <3>1 DEF IInv, TypeOK, ResultType
    <3>3. \A t \in Slots : results[t][b] = 0
      BY <3>1, <3>2, WorkerPoolAssumption DEF IInv, DeliveredOnce
    <3>4. verdict = "running"
      BY <3>1 DEF IInv, Settled, Joined
    <3>5. results' = [results EXCEPT ![s][b] = 1] /\ verdict' = verdict
      <4>1. results[s][b] + response[s].count = 1
        BY <3>1, <3>3
      <4> QED
        BY <2>1, <3>1, <4>1 DEF Collect
    <3>6. Ledger!Deliver(s, b)
      BY <3>3, <3>4, <3>5 DEF Ledger!Deliver, Ledger!Undelivered
    <3> QED
      BY <1>0, <3>1, <3>6
  <2>2. CASE ~Collect(s)
    BY <1>1, <2>2 DEF SlotStep, SpawnWorker, SpawnFails, Claim, Send, SendFails, CollectFails,
      Recover, Kill, Terminated, ShutDown, Receive, Respond, SaveState, Exit, Crash
  <2> QED
    BY <2>1, <2>2
<1>2. CASE JoinAll
  <2>1. ExactCoverage
    BY <1>2, DoneIsExact DEF JoinAll
  <2>2. verdict' \in {"failed", "ok"} /\ verdict = "running" /\ results' = results
    BY <1>2, <2>1 DEF JoinAll
  <2>3. \A b \in Batches : ~Ledger!Undelivered(b)
    BY <2>1 DEF ExactCoverage, Ledger!Undelivered
  <2> QED
    BY <1>0, <2>2, <2>3 DEF Ledger!Succeed, Ledger!Fail
<1>3. CASE JoinFailed
  BY <1>3 DEF JoinFailed, Ledger!Fail
<1>4. CASE UNCHANGED vars
  BY <1>4 DEF vars
<1> QED
  BY <1>1, <1>2, <1>3, <1>4, StepCases

THEOREM ImplementsLedger == Spec => LedgerSpec
<1>1. Spec => []IInv
  BY Invariance
<1> QED
  BY <1>1, RefineInit, RefineStep, PTL DEF Spec, LedgerSpec, Ledger!Spec

-----------------------------------------------------------------------------
(* What a slot has learned, as long as nothing has gone wrong anywhere.    *)
(* Until its worker saves, the worker's memory is what the controller has  *)
(* collected, and one batch more between the response and its collection;  *)
(* from then on the shard is.                                              *)
Waiting(s) ==
  ctl[s].pc \in {"claim", "send", "closing"} =>
    /\ request[s] = NoBatch /\ response[s].kind = "none" /\ proc[s].st # "busy"
    /\ proc[s].st = "idle" => memory[s] = results[s]

AskedOnce(s) ==
  ctl[s].pc = "collect" =>
    /\ request[s] # NoBatch => request[s] = ctl[s].task /\ proc[s].st # "busy"
    /\ request[s] # NoBatch \/ proc[s].st = "busy" =>
         response[s].kind = "none" /\ (Alive(s) => memory[s] = results[s])
    /\ proc[s].st = "busy" => proc[s].batch = ctl[s].task
    /\ request[s] = NoBatch /\ proc[s].st = "idle" =>
         memory[s] = [results[s] EXCEPT ![ctl[s].task] = @ + 1]

Unsaved(s) ==
  /\ ctl[s].pc = "spawn" =>
       ctl[s].task = NoBatch /\ shard[s] = NoShard /\ results[s] = Fresh /\ s \notin closing
  /\ ctl[s].pc \in {"claim", "send", "collect"} =>
       shard[s] = NoShard /\ s \notin closing /\ proc[s].st \in {"idle", "busy", "dead"}

Saved(s) ==
  /\ ctl[s].pc \in {"closing", "done"} /\ proc[s].st \in {"saved", "exited"} => shard[s] = results[s]
  /\ ctl[s].pc = "done" => proc[s].st \in {"exited", "lost"}

Clean(s) == ctl[s].pc # "terminate" /\ Waiting(s) /\ AskedOnce(s) /\ Unsaved(s) /\ Saved(s)

CleanInv == verdict = "running" /\ ~faulty => \A s \in Slots : Clean(s)

LEMMA InitClean == Init => CleanInv
BY DEF Init, CleanInv, Clean, Waiting, AskedOnce, Unsaved, Saved

(* A step of a slot leaves the others as they are, and what has gone wrong *)
(* stays so.                                                               *)
LEMMA OtherSlots ==
  ASSUME IInv, NEW s \in Slots, SlotStep(s)
  PROVE  /\ verdict' = verdict
         /\ faulty => faulty'
         /\ \A t \in Slots \ {s} :
              /\ ctl'[t] = ctl[t] /\ proc'[t] = proc[t] /\ request'[t] = request[t]
              /\ response'[t] = response[t] /\ results'[t] = results[t]
              /\ memory'[t] = memory[t] /\ shard'[t] = shard[t]
              /\ t \in closing' <=> t \in closing
<1>0. CtlType /\ ProcType /\ LearnType /\ ResultType
  BY DEF IInv, TypeOK
<1> USE <1>0 DEF CtlType, ProcType, LearnType, ResultType, Goto
<1>1. CASE SpawnWorker(s)
  BY <1>1 DEF SpawnWorker
<1>2. CASE SpawnFails(s) \/ Terminated(s) \/ ShutDown(s)
  BY <1>2 DEF SpawnFails, Terminated, ShutDown, procVars
<1>3. CASE Claim(s)
  BY <1>3 DEF Claim
<1>4. CASE Send(s) \/ Kill(s) \/ Crash(s) \/ Receive(s)
  BY <1>4 DEF Send, Kill, Crash, Receive
<1>5. CASE SendFails(s) \/ CollectFails(s)
  BY <1>5 DEF SendFails, CollectFails, Recover
<1>6. CASE Collect(s)
  BY <1>6 DEF Collect
<1>7. CASE Respond(s)
  BY <1>7 DEF Respond
<1>8. CASE SaveState(s) \/ Exit(s)
  BY <1>8 DEF SaveState, Exit
<1> QED
  BY <1>1, <1>2, <1>3, <1>4, <1>5, <1>6, <1>7, <1>8 DEF SlotStep

LEMMA CleanStep ==
  ASSUME IInv, NEW s \in Slots, SlotStep(s), Clean(s), verdict = "running", ~faulty'
  PROVE  Clean(s)'
<1>0. CtlType /\ ProcType /\ LearnType /\ ResultType /\ HasTask
  BY DEF IInv, TypeOK
<1>b. \A b \in Batches : b # NoBatch
  BY WorkerPoolAssumption DEF Batches, NoBatch
<1> USE <1>0 DEF CtlType, ProcType, LearnType, ResultType, Goto
<1>1. CASE SpawnWorker(s)
  <2>1. /\ ctl'[s].pc = "claim" /\ ctl'[s].task = NoBatch /\ proc'[s].st = "idle"
        /\ request'[s] = NoBatch /\ response'[s] = NoResponse /\ s \notin closing'
        /\ memory'[s] = Fresh /\ results'[s] = Fresh /\ shard'[s] = NoShard
    BY <1>1 DEF SpawnWorker, Clean, Unsaved
  <2> QED
    BY <2>1 DEF Clean, Waiting, AskedOnce, Unsaved, Saved, NoResponse
<1>2. CASE SpawnFails(s)
  <2>1. ctl'[s].pc = "failed"
    BY <1>2 DEF SpawnFails
  <2> QED
    BY <2>1 DEF Clean, Waiting, AskedOnce, Unsaved, Saved
<1>3. CASE Claim(s)
  <2>1. /\ ctl[s].pc = "claim" /\ ctl'[s].pc \in {"send", "closing"}
        /\ proc' = proc /\ request' = request /\ response' = response /\ results' = results
        /\ memory' = memory /\ shard' = shard
        /\ ctl'[s].pc = "send" => closing' = closing
    BY <1>3 DEF Claim
  <2> QED
    BY <2>1 DEF Clean, Waiting, AskedOnce, Unsaved, Saved
<1>4. CASE Send(s)
  <2>1. /\ ctl[s].pc = "send" /\ ctl'[s].pc = "collect" /\ ctl'[s].task = ctl[s].task
        /\ request'[s] = ctl[s].task /\ proc[s].st \in LiveStates
        /\ proc' = proc /\ response' = response /\ results' = results /\ closing' = closing
        /\ memory' = memory /\ shard' = shard
    BY <1>4 DEF Send, Alive
  <2>2. ctl[s].task # NoBatch
    BY <1>b, <2>1 DEF HasTask
  <2> QED
    BY <2>1, <2>2 DEF Clean, Waiting, AskedOnce, Unsaved, Saved, Alive, LiveStates
<1>5. CASE SendFails(s) \/ CollectFails(s)
  BY <1>5 DEF SendFails, CollectFails, Recover
<1>6. CASE Collect(s)
  <2>1. /\ ctl[s].pc = "collect" /\ ctl'[s].pc = "claim" /\ ctl[s].task \in Batches
        /\ response[s].kind = "output" /\ response[s].shard = ctl[s].task /\ response[s].count = 1
    BY <1>6 DEF Collect, Valid, HasTask
  <2>2. results'[s] = [results[s] EXCEPT ![ctl[s].task] = @ + 1]
    BY <1>6, <2>1 DEF Collect
  <2>3. /\ proc' = proc /\ request' = request /\ response'[s] = NoResponse /\ closing' = closing
        /\ memory' = memory /\ shard' = shard
    BY <1>6 DEF Collect
  <2>4. request[s] = NoBatch /\ proc[s].st # "busy"
    BY <2>1 DEF Clean, AskedOnce
  <2> QED
    BY <2>1, <2>2, <2>3, <2>4 DEF Clean, Waiting, AskedOnce, Unsaved, Saved, NoResponse
<1>7. CASE Kill(s) \/ Crash(s)
  <2>1. /\ proc'[s].st = "dead" /\ Alive(s)
        /\ ctl' = ctl /\ request' = request /\ response' = response /\ results' = results
        /\ closing' = closing /\ memory' = memory /\ shard' = shard
    BY <1>7 DEF Kill, Crash
  <2>2. ctl[s].pc # "done"
    BY <2>1 DEF Clean, Saved, Alive, LiveStates
  <2> QED
    BY <2>1, <2>2 DEF Clean, Waiting, AskedOnce, Unsaved, Saved, Alive, LiveStates
<1>8. CASE Terminated(s)
  BY <1>8 DEF Terminated, Clean
<1>9. CASE ShutDown(s)
  <2>1. /\ ctl'[s].pc = "done" /\ ctl[s].pc = "closing" /\ proc[s].st \in {"exited", "lost"}
        /\ proc' = proc /\ results' = results /\ shard' = shard
    BY <1>9 DEF ShutDown, procVars
  <2> QED
    BY <2>1 DEF Clean, Waiting, AskedOnce, Unsaved, Saved
<1>10. CASE Receive(s)
  <2>1. /\ proc[s].st = "idle" /\ request[s] # NoBatch /\ request'[s] = NoBatch
        /\ proc'[s].st = "busy" /\ proc'[s].batch = request[s]
        /\ ctl' = ctl /\ response' = response /\ results' = results
        /\ closing' = closing /\ memory' = memory /\ shard' = shard
    BY <1>10 DEF Receive
  <2>2. ctl[s].pc \notin {"claim", "send", "closing", "done"}
    BY <2>1 DEF Clean, Waiting, Saved
  <2>3. Alive(s)
    BY <2>1 DEF Alive, LiveStates
  <2> QED
    BY <2>1, <2>2, <2>3 DEF Clean, Waiting, AskedOnce, Unsaved, Saved
<1>11. CASE Respond(s)
  <2>1. /\ proc[s].st = "busy" /\ proc'[s].st = "idle" /\ proc[s].batch \in Batches
        /\ memory'[s] = [memory[s] EXCEPT ![proc[s].batch] = @ + 1]
        /\ ctl' = ctl /\ request' = request /\ results' = results
        /\ closing' = closing /\ shard' = shard
    BY <1>11 DEF Respond, HasTask
  <2>2. ctl[s].pc \notin {"claim", "send", "closing", "done"}
    BY <2>1 DEF Clean, Waiting, Saved
  <2>3. Alive(s)
    BY <2>1 DEF Alive, LiveStates
  <2>4. ctl[s].pc = "collect" =>
          /\ request[s] = NoBatch /\ proc[s].batch = ctl[s].task /\ memory[s] = results[s]
    BY <2>1, <2>3 DEF Clean, AskedOnce
  <2> QED
    BY <2>1, <2>2, <2>4 DEF Clean, Waiting, AskedOnce, Unsaved, Saved
<1>12. CASE SaveState(s)
  <2>1. /\ proc[s].st = "idle" /\ s \in closing /\ proc'[s].st \in {"saved", "unsaved"}
        /\ proc'[s].st = "saved" => shard'[s] = memory[s]
        /\ ctl' = ctl /\ request' = request /\ response' = response /\ results' = results
    BY <1>12 DEF SaveState
  <2>2. ctl[s].pc \notin {"spawn", "claim", "send", "collect", "done"}
    BY <2>1 DEF Clean, Unsaved, Saved
  <2> QED
    BY <2>1, <2>2 DEF Clean, Waiting, AskedOnce, Unsaved, Saved
<1>13. CASE Exit(s)
  <2>1. /\ proc[s].st \in {"saved", "unsaved"}
        /\ proc'[s].st = IF proc[s].st = "saved" THEN "exited" ELSE "lost"
        /\ ctl' = ctl /\ request' = request /\ response' = response /\ results' = results
        /\ closing' = closing /\ memory' = memory /\ shard' = shard
    BY <1>13 DEF Exit
  <2>2. ctl[s].pc \notin {"claim", "send", "collect", "done"}
    BY <2>1 DEF Clean, Unsaved, Saved
  <2> QED
    BY <2>1, <2>2 DEF Clean, Waiting, AskedOnce, Unsaved, Saved
<1> QED
  BY <1>1, <1>2, <1>3, <1>4, <1>5, <1>6, <1>7, <1>8, <1>9, <1>10, <1>11, <1>12, <1>13 DEF SlotStep

LEMMA CleanInductive == IInv /\ CleanInv /\ [Next]_vars => CleanInv'
<1> SUFFICES ASSUME IInv, CleanInv, [Next]_vars, (verdict = "running" /\ ~faulty)'
             PROVE  \A t \in Slots : Clean(t)'
  BY DEF CleanInv
<1>1. ASSUME NEW s \in Slots, SlotStep(s), NEW t \in Slots PROVE Clean(t)'
  <2>1. verdict = "running" /\ ~faulty /\ Clean(t) /\ Clean(s)
    BY <1>1, OtherSlots DEF CleanInv
  <2>2. CASE t = s
    BY <1>1, <2>1, <2>2, CleanStep
  <2>3. CASE t # s
    BY <1>1, <2>1, <2>3, OtherSlots DEF Clean, Waiting, AskedOnce, Unsaved, Saved, Alive
  <2> QED
    BY <2>2, <2>3
<1>2. CASE JoinFailed \/ JoinAll
  BY <1>2 DEF JoinFailed, JoinAll
<1>3. CASE UNCHANGED vars
  BY <1>3 DEF vars, CleanInv, Clean, Waiting, AskedOnce, Unsaved, Saved, Alive
<1> QED
  BY <1>1, <1>2, <1>3, StepCases

(* In a pass without failures and restarts, whose shards could all be      *)
(* written, the shards hold every batch exactly once, for any number of    *)
(* slots and batches (worker.rs, run_worker_controller, run_pool_entry;    *)
(* runner.rs, merge_worker_learning_states).                               *)
THEOREM CleanPassesLearnOnce == Spec => []CleanPassLearnsOnce
<1>1. ASSUME IInv, CleanInv PROVE CleanPassLearnsOnce
  <2> SUFFICES ASSUME verdict = "running", ~faulty,
                      \A s \in Slots : ctl[s].pc = "done" /\ proc[s].st # "lost"
               PROVE  \A b \in Batches : \E s \in Slots :
                        shard[s][b] = 1 /\ \A t \in Slots \ {s} : shard[t][b] = 0
    BY DEF CleanPassLearnsOnce
  <2>1. \A s \in Slots : shard[s] = results[s]
    BY <1>1 DEF CleanInv, Clean, Saved
  <2>2. ExactCoverage
    BY <1>1, DoneIsExact
  <2> QED
    BY <2>1, <2>2 DEF ExactCoverage
<1>2. (IInv /\ CleanInv) /\ [Next]_vars => (IInv /\ CleanInv)'
  BY InductiveStep, CleanInductive
<1> QED
  BY <1>1, <1>2, InitIInv, InitClean, PTL DEF Spec
=============================================================================
