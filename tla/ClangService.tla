---------------------------- MODULE ClangService ----------------------------
(***************************************************************************)
(* The services that ask clang: lanes, helper processes and callers        *)
(* (parser/clang_service.rs, policy/clang_format_service.rs), and the      *)
(* cache of parses in front of them (ParserManager::parse_clang,           *)
(* dispatch_clang and collect_clang in parser/manager.rs).                 *)
(*                                                                         *)
(* A lane is a thread with a queue of its own.  A parse lane keeps one     *)
(* helper process and talks to it through two pipes, a format lane starts  *)
(* clang-format for every request.  Callers are threads of the pool: they  *)
(* send one request per set of arguments, round robin, and give up at a    *)
(* deadline, while the lane goes on.  Requests are named <<call, set>>,    *)
(* and what a helper writes names the request it is about.                 *)
(*                                                                         *)
(* A request is assumed to fit the pipe to its helper: the write is not    *)
(* under the timeout of the lane.                                          *)
(***************************************************************************)
EXTENDS Integers, Sequences, FiniteSets

CONSTANTS
  Calls,      (* Calls[c]: how thread c asks: "parse", "dispatch", "format";*)
              (* the key (path and text) and the sets of arguments          *)
  Lanes       (* Lanes[s]: number of lanes of service s                     *)

Services == {"clang", "format"}
ServiceOf(how) == IF how = "format" THEN "format" ELSE "clang"

ASSUME ServiceAssumption ==
  /\ \A c \in DOMAIN Calls :
       /\ Calls[c].how \in {"parse", "dispatch", "format"}
       /\ IsFiniteSet(Calls[c].sets) /\ Calls[c].sets \subseteq Nat \ {0}
       /\ Calls[c].sets # {}
       /\ Calls[c].how # "parse" => Cardinality(Calls[c].sets) = 1
  /\ Lanes \in [Services -> Nat \ {0}]

Callers == DOMAIN Calls
Requests == UNION {{<<c, s>> : s \in Calls[c].sets} : c \in Callers}
Keys == {Calls[c].key : c \in Callers}
LaneIds == UNION {{<<s, i>> : i \in 0 .. Lanes[s] - 1} : s \in Services}
ParseLanes == {l \in LaneIds : l[1] = "clang"}
FormatLanes == LaneIds \ ParseLanes

NoRequest == <<>>
None == [is |-> "none"]
Failed == [is |-> "error"]
Parsed(r) == [is |-> "parsed", of |-> r]

VARIABLES
  next,       (* next[s]: the counter that deals the requests to lanes     *)
  queue,      (* queue[l]: the channel of a lane, without a bound          *)
  lane,       (* lane[l]: the request a lane waits for, or NoRequest       *)
  helper,     (* helper[l]: the process of a parse lane and what is in the *)
              (* two pipes to it                                           *)
  answer,     (* answer[r]: what was sent to the channel of r's caller     *)
  caller,     (* caller[c]: where a thread is, what is still to be sent and*)
              (* to be collected, what it has, whether its time is up      *)
  cache       (* cache[k]: the requests whose parses the entry is made of  *)

vars == <<next, queue, lane, helper, answer, caller, cache>>
laneVars == <<queue, lane, helper, answer>>

NewHelper == [alive |-> TRUE, in |-> NoRequest, out |-> <<>>]
DeadHelper == [NewHelper EXCEPT !.alive = FALSE]

NewCaller(c) ==
  [at |-> "begin", send |-> Calls[c].sets, collect |-> Calls[c].sets,
   got |-> {}, late |-> FALSE]

Init ==
  /\ next = [s \in Services |-> 0]
  /\ queue = [l \in LaneIds |-> <<>>]
  /\ lane = [l \in LaneIds |-> NoRequest]
  /\ helper = [l \in ParseLanes |-> NewHelper]
  /\ answer = [r \in Requests |-> None]
  /\ caller = [c \in Callers |-> NewCaller(c)]
  /\ cache = [k \in Keys |-> {}]

----------------------------------------------------------------------------
(* The callers.                                                            *)

Cached(c) == Calls[c].how # "format" /\ cache[Calls[c].key] # {}

(* parse_clang and dispatch_clang look at the cache before they ask.       *)
Begin(c) ==
  /\ caller[c].at = "begin"
  /\ caller' = [caller EXCEPT ![c].at = IF Cached(c) THEN "done" ELSE "send"]
  /\ UNCHANGED <<next, cache, laneVars>>

(* One request after the other goes to the next lane of the service.       *)
Send(c) ==
  LET s == ServiceOf(Calls[c].how)
      l == <<s, next[s] % Lanes[s]>>
      set == CHOOSE x \in caller[c].send : \A y \in caller[c].send : x <= y
  IN /\ caller[c].at = "send"
     /\ next' = [next EXCEPT ![s] = @ + 1]
     /\ queue' = [queue EXCEPT ![l] = Append(@, <<c, set>>)]
     /\ caller' = [caller EXCEPT ![c].send = @ \ {set},
                                 ![c].at = IF caller[c].send = {set} THEN "collect" ELSE @]
     /\ UNCHANGED <<lane, helper, answer, cache>>

(* collect_clang returns what somebody else has put into the cache.        *)
CollectCached(c) ==
  /\ caller[c].at = "collect" /\ Calls[c].how = "dispatch" /\ Cached(c)
  /\ caller' = [caller EXCEPT ![c].at = "done"]
  /\ UNCHANGED <<next, cache, laneVars>>

(* collect_deadline takes an answer that is there, whatever the time; the  *)
(* handles of a batch are asked in the order of the sets.                  *)
Collect(c) ==
  LET set == CHOOSE x \in caller[c].collect : \A y \in caller[c].collect : x <= y
      a == answer[<<c, set>>]
  IN /\ caller[c].at = "collect" /\ caller[c].collect # {}
     /\ ~(Calls[c].how = "dispatch" /\ Cached(c))
     /\ a.is # "none" \/ caller[c].late
     /\ caller' = [caller EXCEPT ![c].collect = @ \ {set},
                                 ![c].got = IF a.is = "parsed" THEN @ \union {a.of} ELSE @]
     /\ UNCHANGED <<next, cache, laneVars>>

DeadlinePasses(c) ==
  /\ caller[c].at = "collect" /\ ~caller[c].late
  /\ caller' = [caller EXCEPT ![c].late = TRUE]
  /\ UNCHANGED <<next, cache, laneVars>>

(* A parse, or the consensus of those parses of a batch that came in time, *)
(* is put into the cache for whoever asks next; an error is not.           *)
Return(c) ==
  /\ caller[c].at = "collect" /\ caller[c].collect = {}
  /\ caller' = [caller EXCEPT ![c].at = "done"]
  /\ cache' = IF Calls[c].how # "format" /\ caller[c].got # {}
              THEN [cache EXCEPT ![Calls[c].key] = caller[c].got]
              ELSE cache
  /\ UNCHANGED <<next, laneVars>>

----------------------------------------------------------------------------
(* The parse lanes.                                                        *)

(* The answer of the request a lane is at; nobody may be left to take it.  *)
Answer(l, r, a) ==
  /\ answer' = [answer EXCEPT ![r] = a]
  /\ lane' = [lane EXCEPT ![l] = NoRequest]

(* Mutant of Replace: the helper stays if it is not dead.                  *)
KeptHelper(l) ==
  helper' \in {[helper EXCEPT ![l] = h] :
                 h \in {IF helper[l].alive THEN helper[l] ELSE NewHelper, DeadHelper}}

(* After an error the old helper is dropped, and with it what is in its    *)
(* pipes, if a new one can be started; else the dead one is kept.          *)
Replace(l) == helper' \in {[helper EXCEPT ![l] = h] : h \in {NewHelper, DeadHelper}}

(* The request is written to a helper that reads it some time.             *)
Ask(l) ==
  /\ lane[l] = NoRequest /\ queue[l] # <<>> /\ helper[l].alive
  /\ lane' = [lane EXCEPT ![l] = Head(queue[l])]
  /\ queue' = [queue EXCEPT ![l] = Tail(@)]
  /\ helper' = [helper EXCEPT ![l].in = Head(queue[l])]
  /\ UNCHANGED <<next, answer, caller, cache>>

(* The pipe of a dead helper is broken.                                    *)
AskDead(l) ==
  /\ lane[l] = NoRequest /\ queue[l] # <<>> /\ ~helper[l].alive
  /\ queue' = [queue EXCEPT ![l] = Tail(@)]
  /\ Answer(l, Head(queue[l]), Failed)
  /\ Replace(l)
  /\ UNCHANGED <<next, caller, cache>>

(* A response of the helper is read: a syntax tree that the lane can load, *)
(* one that it can not or an error of the helper, or bytes that are no     *)
(* response, which cost the helper its life.                               *)
Receive(l) ==
  /\ lane[l] # NoRequest /\ helper[l].out # <<>>
  /\ LET o == Head(helper[l].out) IN
     \/ /\ o.is = "parsed"
        /\ Answer(l, lane[l], Parsed(o.of))
        /\ helper' = [helper EXCEPT ![l].out = Tail(@)]
     \/ /\ o.is \in {"parsed", "error"}
        /\ Answer(l, lane[l], Failed)
        /\ helper' = [helper EXCEPT ![l].out = Tail(@)]
     \/ /\ o.is = "garbage"
        /\ Answer(l, lane[l], Failed)
        /\ Replace(l)
  /\ UNCHANGED <<next, queue, caller, cache>>

(* Mutant of Over: only the end of the output ends the waiting.            *)
AtEof(l) == ~helper[l].alive /\ helper[l].out = <<>>

(* A helper that lives may be too late; one that has died has written all. *)
Over(l) == helper[l].alive \/ helper[l].out = <<>>

(* The helper has closed its output, or the time is up: it is killed.  The *)
(* thread that reads has ended by then, and with it what was in the pipe.  *)
GiveUp(l) ==
  /\ lane[l] # NoRequest
  /\ Over(l)
  /\ Answer(l, lane[l], Failed)
  /\ Replace(l)
  /\ UNCHANGED <<next, queue, caller, cache>>

(* The helper process reads a request and writes what came of it, in the   *)
(* order of the requests; it may hang, and it may die.                     *)
HelperResponds(l) ==
  /\ helper[l].alive /\ helper[l].in # NoRequest
  /\ \E is \in {"parsed", "error", "garbage"} :
       helper' = [helper EXCEPT ![l].in = NoRequest,
                                ![l].out = Append(@, [is |-> is, of |-> helper[l].in])]
  /\ UNCHANGED <<next, queue, lane, answer, caller, cache>>

HelperDies(l) ==
  /\ helper[l].alive
  /\ helper' = [helper EXCEPT ![l].alive = FALSE, ![l].in = NoRequest]
  /\ UNCHANGED <<next, queue, lane, answer, caller, cache>>

----------------------------------------------------------------------------
(* The format lanes read the output of clang-format to its end, and look   *)
(* at the clock only then: a process that hangs keeps its lane.            *)

Format(l) ==
  /\ lane[l] = NoRequest /\ queue[l] # <<>>
  /\ queue' = [queue EXCEPT ![l] = Tail(@)]
  /\ \/ lane' = [lane EXCEPT ![l] = Head(queue[l])] /\ UNCHANGED answer
     \/ Answer(l, Head(queue[l]), Failed)
  /\ UNCHANGED <<next, helper, caller, cache>>

FormatEnds(l) ==
  /\ lane[l] # NoRequest
  /\ Answer(l, lane[l], Parsed(lane[l])) \/ Answer(l, lane[l], Failed)
  /\ UNCHANGED <<next, queue, helper, caller, cache>>

----------------------------------------------------------------------------

LaneStep(l) == Ask(l) \/ AskDead(l) \/ Receive(l) \/ GiveUp(l)
CallerStep(c) ==
  Begin(c) \/ Send(c) \/ CollectCached(c) \/ Collect(c) \/ DeadlinePasses(c) \/ Return(c)

Next ==
  \/ \E c \in Callers : CallerStep(c)
  \/ \E l \in ParseLanes : LaneStep(l) \/ HelperResponds(l) \/ HelperDies(l)
  \/ \E l \in FormatLanes : Format(l) \/ FormatEnds(l)

(* Threads run, and their timers fire; helpers and clang-format may hang.  *)
Fairness ==
  /\ \A c \in Callers : WF_vars(CallerStep(c))
  /\ \A l \in ParseLanes : WF_vars(LaneStep(l))
  /\ \A l \in FormatLanes : WF_vars(Format(l))

Spec == Init /\ [][Next]_vars /\ Fairness

----------------------------------------------------------------------------
TypeOK ==
  /\ next \in [Services -> Nat]
  /\ queue \in [LaneIds -> Seq(Requests)]
  /\ lane \in [LaneIds -> Requests \union {NoRequest}]
  /\ \A l \in ParseLanes :
       /\ helper[l].alive \in BOOLEAN
       /\ helper[l].in \in Requests \union {NoRequest}
       /\ helper[l].out \in Seq([is : {"parsed", "error", "garbage"}, of : Requests])
  /\ \A r \in Requests : answer[r] \in {None, Failed} \union {Parsed(q) : q \in Requests}
  /\ \A c \in Callers :
       /\ caller[c].at \in {"begin", "send", "collect", "done"}
       /\ caller[c].send \subseteq Calls[c].sets /\ caller[c].collect \subseteq Calls[c].sets
       /\ caller[c].got \subseteq Requests /\ caller[c].late \in BOOLEAN
  /\ cache \in [Keys -> SUBSET Requests]

(* What is parsed for a request is the parse of that request, whatever     *)
(* hung, died, was killed or came too late before: no answer is that of an *)
(* older request of the same helper, and what the cache has for a path and *)
(* a text is made of parses of that path and text                          *)
(* (clang_service.rs, execute and run_subprocess_lane; collect_clang).     *)
AnswersMatch ==
  /\ \A r \in Requests : answer[r].is = "parsed" => answer[r].of = r
  /\ \A k \in Keys : \A r \in cache[k] : Calls[r[1]].key = k

(* Every thread that asks returns, and a parse lane answers every request  *)
(* in its queue, although its callers gave up and its helpers may hang:    *)
(* HELPER_TIMEOUT frees the lane (clang_service.rs, execute).  A format    *)
(* lane has no such limit.                                                 *)
Returned(c) == caller[c].at = "done"
Idle(l) == lane[l] = NoRequest /\ queue[l] = <<>>
NobodyWaits == <>((\A c \in Callers : Returned(c)) /\ (\A l \in ParseLanes : Idle(l)))
=============================================================================
