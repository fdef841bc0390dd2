---------------------------- MODULE ServicesProofs ----------------------------
(***************************************************************************)
(* Proofs about what stands beside the engine: the services that ask clang *)
(* (ClangService), the cache of check results (ResultCache) and the        *)
(* reporter process (Reporter).                                            *)
(***************************************************************************)
EXTENDS Services, TLAPS, WellFoundedInduction, SequenceTheorems

LEMMA Least ==
  ASSUME NEW S \in SUBSET Nat, S # {}
  PROVE  \E m \in S : \A k \in S : m <= k
<1> DEFINE Smaller == {p \in Nat \X Nat : p[1] < p[2]}
<1>1. IsWellFoundedOn(Smaller, Nat)
  BY NatLessThanWellFounded DEF OpToRel
<1>2. \A k, m \in Nat : <<k, m>> \notin Smaller => m <= k
  OBVIOUS
<1> HIDE DEF Smaller
<1>3. \E m \in S : \A k \in S : <<k, m>> \notin Smaller
  BY <1>1, WFMin
<1> QED
  BY <1>2, <1>3

(***************************************************************************)
(* The clang services.                                                     *)
(***************************************************************************)
Outputs == [is : {"parsed", "error", "garbage"}, of : Requests]
Helpers == [alive : BOOLEAN, in : Requests \cup {NoRequest}, out : Seq(Outputs)]
Threads ==
  [at : {"begin", "send", "collect", "done"}, send : SUBSET (Nat \ {0}),
   collect : SUBSET (Nat \ {0}), got : SUBSET Requests, late : BOOLEAN]
Answers == {None, Failed} \cup {Parsed(r) : r \in Requests}

ClangShapes ==
  /\ next \in [Services -> Nat]
  /\ queue \in [LaneIds -> Seq(Requests)]
  /\ lane \in [LaneIds -> Requests \cup {NoRequest}]
  /\ helper \in [ParseLanes -> Helpers]
  /\ answer \in [Requests -> Answers]
  /\ caller \in [Callers -> Threads]
  /\ cache \in [Keys -> SUBSET Requests]

(* A caller sends and collects sets of arguments of its own call, and what *)
(* it has are parses of its own requests.                                  *)
Own ==
  \A c \in Callers :
    /\ caller[c].send \subseteq Calls[c].sets /\ caller[c].collect \subseteq Calls[c].sets
    /\ caller[c].at \in {"begin", "send"} => caller[c].send # {}
    /\ \A r \in caller[c].got : r[1] = c

(* All that is in the two pipes to a helper is about the request its lane  *)
(* waits for, and it is one thing: a lane asks when it waits for nothing,  *)
(* and then the pipes are empty.                                           *)
About(h, r) ==
  /\ h.in # NoRequest => h.in = r /\ h.out = <<>>
  /\ h.out # <<>> => Len(h.out) = 1 /\ h.out[1].of = r
  /\ r = NoRequest => h.in = NoRequest /\ h.out = <<>>

Pipes == \A l \in ParseLanes : About(helper[l], lane[l])

ClangInv == ClangShapes /\ Own /\ Pipes /\ AnswersMatch

LEMMA ShapesTyped == ClangShapes /\ Own => TypeOK
  BY DEF ClangShapes, Own, TypeOK, Helpers, Threads, Outputs, Answers

LEMMA ClangInit == Init => ClangInv
<1> SUFFICES ASSUME Init PROVE ClangInv
  OBVIOUS
<1>1. ClangShapes
  BY ServiceAssumption, EmptySeq
  DEF Init, ClangShapes, Helpers, NewHelper, Answers, NewCaller, Threads, Callers
<1>2. Own
  BY ServiceAssumption DEF Init, Own, NewCaller, Callers
<1>3. Pipes
  BY DEF Init, Pipes, About, NewHelper, LaneIds, ParseLanes
<1>4. AnswersMatch
  BY DEF Init, AnswersMatch, None
<1> QED
  BY <1>1, <1>2, <1>3, <1>4 DEF ClangInv

(* What a step of the lanes leaves alone.                                  *)
LEMMA CallersUnmoved ==
  ASSUME Own, caller' = caller PROVE Own'
  BY DEF Own

LEMMA FirstSet ==
  ASSUME NEW S \in SUBSET (Nat \ {0}), S # {}
  PROVE  (CHOOSE x \in S : \A y \in S : x <= y) \in S
  BY Least

LEMMA LaneOfCount ==
  ASSUME NEW s \in Services, NEW n \in Nat PROVE <<s, n % Lanes[s]>> \in LaneIds
<1>1. Lanes[s] \in Nat \ {0}
  BY ServiceAssumption
<1>2. n % Lanes[s] \in 0 .. Lanes[s] - 1
  BY <1>1
<1>3. \A i \in 0 .. Lanes[s] - 1 : <<s, i>> \in LaneIds
  BY DEF LaneIds
<1> QED
  BY <1>2, <1>3

LEMMA SendKeeps ==
  ASSUME ClangInv, NEW c \in Callers, Send(c) PROVE ClangInv'
<1> DEFINE s == ServiceOf(Calls[c].how)
           l == <<s, next[s] % Lanes[s]>>
           set == CHOOSE x \in caller[c].send : \A y \in caller[c].send : x <= y
<1>1. set \in caller[c].send /\ caller[c].send \subseteq Calls[c].sets
  <2>1. caller[c].send \in SUBSET (Nat \ {0}) /\ caller[c].send # {}
    BY DEF ClangInv, ClangShapes, Threads, Own, Send
  <2> QED
    BY <2>1, FirstSet DEF ClangInv, Own
<1>2. s \in Services /\ next[s] \in Nat
  BY DEF ClangInv, ClangShapes, Services, ServiceOf
<1>3. l \in LaneIds
  BY <1>2, LaneOfCount
<1>4. <<c, set>> \in Requests
  BY <1>1 DEF Requests
<1>5. /\ next' = [next EXCEPT ![s] = @ + 1]
      /\ queue' = [queue EXCEPT ![l] = Append(@, <<c, set>>)]
      /\ caller' = [caller EXCEPT ![c].send = @ \ {set},
                                  ![c].at = IF caller[c].send = {set} THEN "collect" ELSE @]
      /\ UNCHANGED <<lane, helper, answer, cache>>
  BY DEF Send
<1> HIDE DEF s, l, set
<1>6. queue' \in [LaneIds -> Seq(Requests)] /\ next' \in [Services -> Nat]
  BY <1>2, <1>3, <1>4, <1>5 DEF ClangInv, ClangShapes
<1>7. caller' \in [Callers -> Threads]
  <2>1. caller[c] \in Threads
    BY DEF ClangInv, ClangShapes
  <2>2. [caller[c] EXCEPT !.send = @ \ {set},
           !.at = IF caller[c].send = {set} THEN "collect" ELSE @] \in Threads
    BY <2>1 DEF Threads
  <2> QED
    BY <1>5, <2>1, <2>2 DEF ClangInv, ClangShapes
<1>8. ClangShapes'
  BY <1>5, <1>6, <1>7 DEF ClangInv, ClangShapes
<1>9. Own'
  BY <1>1, <1>5 DEF ClangInv, ClangShapes, Threads, Own
<1> QED
  BY <1>5, <1>8, <1>9 DEF ClangInv, Pipes, AnswersMatch

LEMMA CollectKeeps ==
  ASSUME ClangInv, NEW c \in Callers, Collect(c) PROVE ClangInv'
<1> DEFINE set == CHOOSE x \in caller[c].collect : \A y \in caller[c].collect : x <= y
           a == answer[<<c, set>>]
           got == IF a.is = "parsed" THEN caller[c].got \cup {a.of} ELSE caller[c].got
<1>1. set \in Calls[c].sets
  <2>1. caller[c].collect \in SUBSET (Nat \ {0}) /\ caller[c].collect # {}
    BY DEF ClangInv, ClangShapes, Threads, Collect
  <2> QED
    BY <2>1, FirstSet DEF ClangInv, Own
<1>2. <<c, set>> \in Requests
  BY <1>1 DEF Requests
<1>3. /\ caller' = [caller EXCEPT ![c].collect = @ \ {set}, ![c].got = got]
      /\ caller[c].at = "collect"
      /\ UNCHANGED <<next, cache, laneVars>>
  BY DEF Collect
<1>4. a.is = "parsed" => a.of = <<c, set>>
  BY <1>2 DEF ClangInv, AnswersMatch
<1>5. got \subseteq Requests /\ \A r \in got : r[1] = c
  <2>1. caller[c].got \subseteq Requests
    BY DEF ClangInv, ClangShapes, Threads
  <2>2. \A r \in caller[c].got : r[1] = c
    BY DEF ClangInv, Own
  <2> HIDE DEF a, set
  <2> QED
    BY <1>2, <1>4, <2>1, <2>2
<1> HIDE DEF set, got
<1>6. ClangShapes'
  <2>1. caller[c] \in Threads
    BY DEF ClangInv, ClangShapes
  <2>2. [caller[c] EXCEPT !.collect = @ \ {set}, !.got = got] \in Threads
    BY <1>5, <2>1 DEF Threads
  <2>3. caller' \in [Callers -> Threads]
    BY <1>3, <2>1, <2>2 DEF ClangInv, ClangShapes
  <2> QED
    BY <1>3, <2>3 DEF ClangInv, ClangShapes, laneVars
<1>7. Own'
  BY <1>3, <1>5 DEF ClangInv, ClangShapes, Threads, Own
<1> QED
  BY <1>3, <1>6, <1>7 DEF ClangInv, Pipes, AnswersMatch, laneVars

LEMMA ReturnKeeps ==
  ASSUME ClangInv, NEW c \in Callers, Return(c) PROVE ClangInv'
<1>1. Calls[c].key \in Keys /\ caller[c].got \subseteq Requests /\ \A r \in caller[c].got : r[1] = c
  BY DEF ClangInv, ClangShapes, Threads, Own, Keys
<1>2. ClangShapes'
  <2>1. caller \in [Callers -> Threads] /\ cache \in [Keys -> SUBSET Requests]
    BY DEF ClangInv, ClangShapes
  <2>2. [caller[c] EXCEPT !.at = "done"] \in Threads
    BY <2>1 DEF Threads
  <2>3. caller' \in [Callers -> Threads]
    BY <2>1, <2>2 DEF Return
  <2>4. cache' \in [Keys -> SUBSET Requests]
    BY <1>1, <2>1 DEF Return
  <2>5. UNCHANGED <<next, laneVars>>
    BY DEF Return
  <2> QED
    BY <2>3, <2>4, <2>5 DEF ClangInv, ClangShapes, laneVars
<1>3. Own'
  BY DEF Return, ClangInv, ClangShapes, Threads, Own
<1>4. AnswersMatch'
  BY <1>1 DEF Return, ClangInv, ClangShapes, AnswersMatch, laneVars
<1> QED
  BY <1>2, <1>3, <1>4 DEF Return, ClangInv, Pipes, laneVars

LEMMA CallersKeep ==
  ASSUME ClangInv, NEW c \in Callers, CallerStep(c) PROVE ClangInv'
<1>1. ASSUME Begin(c) \/ CollectCached(c) \/ DeadlinePasses(c) PROVE ClangInv'
  <2> DEFINE t == CASE Begin(c) -> [caller[c] EXCEPT !.at = IF Cached(c) THEN "done" ELSE "send"]
                    [] CollectCached(c) /\ ~Begin(c) -> [caller[c] EXCEPT !.at = "done"]
                    [] OTHER -> [caller[c] EXCEPT !.late = TRUE]
  <2>1. caller \in [Callers -> Threads]
    BY DEF ClangInv, ClangShapes
  <2>2. caller' = [caller EXCEPT ![c] = t] /\ UNCHANGED <<next, cache, laneVars>>
    BY <1>1, <2>1 DEF Begin, CollectCached, DeadlinePasses
  <2>3. /\ t \in Threads /\ t.send = caller[c].send /\ t.collect = caller[c].collect
        /\ t.got = caller[c].got
        /\ t.at \in {"begin", "send"} => caller[c].at \in {"begin", "send"}
    BY <1>1, <2>1 DEF Threads, Begin
  <2> HIDE DEF t
  <2>4. ClangShapes'
    BY <2>1, <2>2, <2>3 DEF ClangInv, ClangShapes, laneVars
  <2>5. Own'
    BY <2>1, <2>2, <2>3 DEF ClangInv, Own
  <2> QED
    BY <2>2, <2>4, <2>5 DEF ClangInv, Pipes, AnswersMatch, laneVars
<1> QED
  BY <1>1, SendKeeps, CollectKeeps, ReturnKeeps DEF CallerStep

(* An answer is about the request it answers, and frees the lane.          *)
LEMMA AnswerTyped ==
  ASSUME ClangInv, NEW l \in LaneIds, NEW r \in Requests, NEW a \in {Failed, Parsed(r)},
         Answer(l, r, a), cache' = cache
  PROVE  /\ answer' \in [Requests -> Answers] /\ lane' \in [LaneIds -> Requests \cup {NoRequest}]
         /\ AnswersMatch' /\ lane'[l] = NoRequest
         /\ \A m \in LaneIds \ {l} : lane'[m] = lane[m]
<1>1. answer' = [answer EXCEPT ![r] = a] /\ lane' = [lane EXCEPT ![l] = NoRequest]
  BY DEF Answer
<1>2. a \in Answers /\ (a.is = "parsed" => a.of = r)
  BY DEF Answers, Failed, Parsed
<1>3. answer \in [Requests -> Answers] /\ lane \in [LaneIds -> Requests \cup {NoRequest}]
  BY DEF ClangInv, ClangShapes
<1>4. AnswersMatch'
  BY <1>1, <1>2, <1>3 DEF ClangInv, AnswersMatch
<1> QED
  BY <1>1, <1>2, <1>3, <1>4

LEMMA FirstInQueue ==
  ASSUME ClangInv, NEW l \in LaneIds, queue[l] # <<>>
  PROVE  /\ Head(queue[l]) \in Requests
         /\ [queue EXCEPT ![l] = Tail(@)] \in [LaneIds -> Seq(Requests)]
<1>1. queue[l] \in Seq(Requests) /\ queue \in [LaneIds -> Seq(Requests)]
  BY DEF ClangInv, ClangShapes
<1>2. Head(queue[l]) \in Requests /\ Tail(queue[l]) \in Seq(Requests)
  BY <1>1, HeadTailProperties
<1> QED
  BY <1>1, <1>2

LEMMA ParseLanesAreLanes == ParseLanes \subseteq LaneIds /\ FormatLanes \subseteq LaneIds
                            /\ ParseLanes \cap FormatLanes = {}
  BY DEF ParseLanes, FormatLanes

(* A helper that is replaced, by a new one or by none, has empty pipes.    *)
LEMMA ReplaceTyped ==
  ASSUME ClangInv, NEW l \in ParseLanes, Replace(l)
  PROVE  /\ helper' \in [ParseLanes -> Helpers]
         /\ helper'[l].in = NoRequest /\ helper'[l].out = <<>>
         /\ \A m \in ParseLanes \ {l} : helper'[m] = helper[m]
<1>1. PICK h \in {NewHelper, DeadHelper} : helper' = [helper EXCEPT ![l] = h]
  BY DEF Replace
<1>2. h \in Helpers /\ h.in = NoRequest /\ h.out = <<>>
  <2>1. <<>> \in Seq(Outputs)
    BY EmptySeq
  <2>2. NewHelper \in Helpers /\ NewHelper.in = NoRequest /\ NewHelper.out = <<>>
    BY <2>1 DEF NewHelper, Helpers
  <2>3. DeadHelper \in Helpers /\ DeadHelper.in = NoRequest /\ DeadHelper.out = <<>>
    BY <2>1 DEF NewHelper, DeadHelper, Helpers
  <2> QED
    BY <1>1, <2>2, <2>3
<1> QED
  BY <1>1, <1>2 DEF ClangInv, ClangShapes

LEMMA AskKeeps ==
  ASSUME ClangInv, NEW l \in ParseLanes, Ask(l) PROVE ClangInv'
<1> DEFINE r == Head(queue[l])
           h == [helper[l] EXCEPT !.in = r]
<1>1. l \in LaneIds /\ r \in Requests /\ [queue EXCEPT ![l] = Tail(@)] \in [LaneIds -> Seq(Requests)]
  BY ParseLanesAreLanes, FirstInQueue DEF Ask
<1>2. helper[l] \in Helpers /\ helper[l].out = <<>>
  BY DEF Ask, ClangInv, ClangShapes, Pipes, About
<1>3. h \in Helpers /\ h.in = r /\ h.out = <<>>
  BY <1>1, <1>2 DEF Helpers
<1>4. helper' = [helper EXCEPT ![l] = h] /\ lane' = [lane EXCEPT ![l] = r]
  BY DEF Ask
<1>5. r # NoRequest
  BY <1>1 DEF Requests, NoRequest
<1> HIDE DEF r, h
<1>6. ClangShapes'
  <2>1. helper' \in [ParseLanes -> Helpers] /\ lane' \in [LaneIds -> Requests \cup {NoRequest}]
    BY <1>1, <1>3, <1>4 DEF ClangInv, ClangShapes
  <2>2. queue' \in [LaneIds -> Seq(Requests)] /\ UNCHANGED <<next, answer, caller, cache>>
    BY <1>1 DEF Ask
  <2> QED
    BY <2>1, <2>2 DEF ClangInv, ClangShapes
<1>7. Pipes'
  BY <1>1, <1>3, <1>4, <1>5, ParseLanesAreLanes DEF ClangInv, ClangShapes, Pipes, About
<1> QED
  BY <1>6, <1>7, CallersUnmoved DEF Ask, ClangInv, AnswersMatch

(* A lane that has answered: its pipes are empty.                          *)
LEMMA AnswerKeeps ==
  ASSUME ClangInv, NEW l \in ParseLanes, NEW r \in Requests, NEW a \in {Failed, Parsed(r)},
         Answer(l, r, a), UNCHANGED <<next, caller, cache>>,
         queue' \in [LaneIds -> Seq(Requests)],
         helper' \in [ParseLanes -> Helpers],
         helper'[l].in = NoRequest, helper'[l].out = <<>>,
         \A m \in ParseLanes \ {l} : helper'[m] = helper[m]
  PROVE  ClangInv'
<1>1. /\ answer' \in [Requests -> Answers] /\ lane' \in [LaneIds -> Requests \cup {NoRequest}]
      /\ AnswersMatch' /\ lane'[l] = NoRequest
      /\ \A m \in LaneIds \ {l} : lane'[m] = lane[m]
  BY ParseLanesAreLanes, AnswerTyped
<1>2. ClangShapes'
  BY <1>1 DEF ClangInv, ClangShapes
<1>3. Pipes'
  BY <1>1, ParseLanesAreLanes DEF ClangInv, Pipes, About
<1> QED
  BY <1>1, <1>2, <1>3, CallersUnmoved DEF ClangInv

LEMMA ReceiveKeeps ==
  ASSUME ClangInv, NEW l \in ParseLanes, Receive(l) PROVE ClangInv'
<1> DEFINE o == Head(helper[l].out)
<1>1. /\ lane[l] \in Requests /\ helper[l] \in Helpers
      /\ helper[l].in = NoRequest /\ Len(helper[l].out) = 1 /\ helper[l].out[1].of = lane[l]
  BY ParseLanesAreLanes DEF Receive, ClangInv, ClangShapes, Pipes, About
<1>2. helper[l].out \in Seq(Outputs) /\ o = helper[l].out[1]
  BY <1>1 DEF Helpers
<1>3. Tail(helper[l].out) = <<>>
  <2>1. Tail(helper[l].out) \in Seq(Outputs) /\ Len(Tail(helper[l].out)) = 0
    BY <1>1, <1>2, HeadTailProperties DEF Receive
  <2> QED
    BY <2>1, EmptySeq
<1>4. queue' \in [LaneIds -> Seq(Requests)] /\ UNCHANGED <<next, caller, cache>>
  BY DEF Receive, ClangInv, ClangShapes
<1>5. CASE helper' = [helper EXCEPT ![l].out = Tail(@)]
  <2>1. helper' = [helper EXCEPT ![l] = [helper[l] EXCEPT !.out = <<>>]]
    BY <1>3, <1>5
  <2>2. [helper[l] EXCEPT !.out = <<>>] \in Helpers /\ [helper[l] EXCEPT !.out = <<>>].in = NoRequest
    BY <1>1, EmptySeq DEF Helpers
  <2>3. /\ helper' \in [ParseLanes -> Helpers]
        /\ helper'[l].in = NoRequest /\ helper'[l].out = <<>>
        /\ \A m \in ParseLanes \ {l} : helper'[m] = helper[m]
    BY <1>1, <2>1, <2>2 DEF ClangInv, ClangShapes, Helpers
  <2>4. Answer(l, lane[l], Parsed(lane[l])) \/ Answer(l, lane[l], Failed)
    BY <1>1, <1>2 DEF Receive
  <2> QED
    BY <1>1, <1>4, <2>3, <2>4, AnswerKeeps
<1>6. CASE Answer(l, lane[l], Failed) /\ Replace(l)
  BY <1>1, <1>4, <1>6, ReplaceTyped, AnswerKeeps
<1> QED
  BY <1>5, <1>6 DEF Receive

LEMMA LanesKeep ==
  ASSUME ClangInv, NEW l \in ParseLanes, LaneStep(l) PROVE ClangInv'
<1>1. CASE AskDead(l)
  <2>1. Head(queue[l]) \in Requests /\ queue' \in [LaneIds -> Seq(Requests)]
    BY <1>1, ParseLanesAreLanes, FirstInQueue DEF AskDead
  <2> QED
    BY <1>1, <2>1, ReplaceTyped, AnswerKeeps DEF AskDead
<1>2. CASE GiveUp(l)
  <2>1. lane[l] \in Requests /\ queue' \in [LaneIds -> Seq(Requests)]
    BY <1>2, ParseLanesAreLanes DEF GiveUp, ClangInv, ClangShapes
  <2> QED
    BY <1>2, <2>1, ReplaceTyped, AnswerKeeps DEF GiveUp
<1> QED
  BY <1>1, <1>2, AskKeeps, ReceiveKeeps DEF LaneStep

LEMMA HelpersKeep ==
  ASSUME ClangInv, NEW l \in ParseLanes, HelperResponds(l) \/ HelperDies(l) PROVE ClangInv'
<1>1. helper \in [ParseLanes -> Helpers] /\ helper[l] \in Helpers /\ About(helper[l], lane[l])
  BY DEF ClangInv, ClangShapes, Pipes
<1>2. UNCHANGED <<next, queue, lane, answer, caller, cache>>
  BY DEF HelperResponds, HelperDies
<1>3. PICK h \in Helpers : helper' = [helper EXCEPT ![l] = h] /\ About(h, lane[l])
  <2>1. CASE HelperDies(l)
    <3>1. [helper[l] EXCEPT !.alive = FALSE, !.in = NoRequest] \in Helpers
      BY <1>1 DEF Helpers
    <3>2. About([helper[l] EXCEPT !.alive = FALSE, !.in = NoRequest], lane[l])
      BY <1>1 DEF Helpers, About
    <3> QED
      BY <2>1, <3>1, <3>2 DEF HelperDies
  <2>2. CASE HelperResponds(l)
    <3>1. PICK is \in {"parsed", "error", "garbage"} :
            helper' = [helper EXCEPT ![l].in = NoRequest,
                                     ![l].out = Append(@, [is |-> is, of |-> helper[l].in])]
      BY <2>2 DEF HelperResponds
    <3> DEFINE o == [is |-> is, of |-> helper[l].in]
               h == [helper[l] EXCEPT !.in = NoRequest, !.out = Append(<<>>, o)]
    <3>2. helper[l].in = lane[l] /\ helper[l].out = <<>> /\ lane[l] # NoRequest
      BY <1>1, <2>2 DEF HelperResponds, About
    <3>3. o \in Outputs /\ o.of = lane[l]
      BY <1>1, <3>2 DEF Helpers, Outputs
    <3>4. helper' = [helper EXCEPT ![l] = h]
      BY <3>1, <3>2
    <3> HIDE DEF o
    <3>5. Append(<<>>, o) \in Seq(Outputs) /\ Len(Append(<<>>, o)) = 1 /\ Append(<<>>, o)[1] = o
      BY <3>3
    <3>6. h \in Helpers /\ h.in = NoRequest /\ h.out = Append(<<>>, o)
      BY <1>1, <3>5 DEF Helpers
    <3> HIDE DEF h
    <3> QED
      BY <3>2, <3>3, <3>4, <3>5, <3>6 DEF About
  <2> QED
    BY <2>1, <2>2
<1>4. ClangShapes'
  BY <1>1, <1>2, <1>3 DEF ClangInv, ClangShapes
<1>5. Pipes'
  BY <1>1, <1>2, <1>3 DEF ClangInv, Pipes
<1> QED
  BY <1>2, <1>4, <1>5 DEF ClangInv, Own, AnswersMatch

LEMMA FormatLanesKeep ==
  ASSUME ClangInv, NEW l \in FormatLanes, Format(l) \/ FormatEnds(l) PROVE ClangInv'
<1>1. l \in LaneIds /\ l \notin ParseLanes /\ UNCHANGED <<next, helper, caller, cache>>
  BY ParseLanesAreLanes DEF Format, FormatEnds
<1>2. queue' \in [LaneIds -> Seq(Requests)]
  <2>1. CASE Format(l)
    <3>1. queue[l] # <<>> /\ queue' = [queue EXCEPT ![l] = Tail(@)]
      BY <2>1 DEF Format
    <3> QED
      BY <1>1, <3>1, FirstInQueue
  <2>2. CASE FormatEnds(l)
    BY <2>2 DEF FormatEnds, ClangInv, ClangShapes
  <2> QED
    BY <2>1, <2>2
<1>3. /\ answer' \in [Requests -> Answers] /\ lane' \in [LaneIds -> Requests \cup {NoRequest}]
      /\ AnswersMatch' /\ \A m \in LaneIds \ {l} : lane'[m] = lane[m]
  <2>1. CASE Format(l)
    <3>1. Head(queue[l]) \in Requests
      BY <1>1, <2>1, FirstInQueue DEF Format
    <3>2. CASE Answer(l, Head(queue[l]), Failed)
      BY <1>1, <3>1, <3>2, AnswerTyped
    <3>3. CASE lane' = [lane EXCEPT ![l] = Head(queue[l])] /\ UNCHANGED answer
      BY <1>1, <3>1, <3>3 DEF ClangInv, ClangShapes, AnswersMatch
    <3> QED
      BY <2>1, <3>2, <3>3 DEF Format
  <2>2. CASE FormatEnds(l)
    <3>1. lane[l] \in Requests
      BY <1>1, <2>2 DEF FormatEnds, ClangInv, ClangShapes
    <3> QED
      BY <1>1, <2>2, <3>1, AnswerTyped DEF FormatEnds
  <2> QED
    BY <2>1, <2>2
<1>4. ClangShapes'
  BY <1>1, <1>2, <1>3 DEF ClangInv, ClangShapes
<1>5. Pipes'
  BY <1>1, <1>3, ParseLanesAreLanes DEF ClangInv, Pipes, About
<1> QED
  BY <1>1, <1>3, <1>4, <1>5, CallersUnmoved DEF ClangInv

(* The inductive invariant of the services: all there is in the pipes to a *)
(* helper is about the request its lane waits for                          *)
(* (clang_service.rs, execute).                                            *)
THEOREM ClangServiceInvariant == Spec => []ClangInv
<1>1. ClangInv /\ [Next]_vars => ClangInv'
  <2>1. ASSUME ClangInv, UNCHANGED vars PROVE ClangInv'
    BY <2>1 DEF vars, ClangInv, ClangShapes, Own, Pipes, AnswersMatch
  <2> QED
    BY <2>1, CallersKeep, LanesKeep, HelpersKeep, FormatLanesKeep DEF Next
<1> QED
  BY <1>1, ClangInit, PTL DEF Spec

(* Every variable of the services keeps its type, for any calls and lanes. *)
THEOREM ClangTypeCorrect == Spec => []TypeOK
<1>1. ClangInv => TypeOK
  BY ShapesTyped DEF ClangInv
<1> QED
  BY <1>1, ClangServiceInvariant, PTL

(* An answer is the parse of the request it answers, whatever hung, died,  *)
(* was killed or came too late before, and a cached parse is one of its    *)
(* path and text, for any number of lanes and callers                      *)
(* (clang_service.rs, execute and run_subprocess_lane; collect_clang).     *)
THEOREM AnswersAreTrue == Spec => []AnswersMatch
<1>1. ClangInv => AnswersMatch
  BY DEF ClangInv
<1> QED
  BY <1>1, ClangServiceInvariant, PTL

(***************************************************************************)
(* The cache of check results.                                             *)
(***************************************************************************)
(* What a run has in memory: each entry is under the key of what it was    *)
(* made of, an answer on its way into the table is one of the engine, and  *)
(* a run that is not in its pass has nothing.                              *)
CheckShape(s) ==
  /\ DOMAIN s = {"phase", "options", "entries", "dirty", "at", "read", "answer", "hit"}
  /\ DOMAIN s.at = Files /\ DOMAIN s.read = Files
  /\ DOMAIN s.answer = Files /\ DOMAIN s.hit = Files

TrueEntries(table, options) ==
  \A key \in DOMAIN table : key[3] = options /\ Made(key[1], key[2], key[3], table[key])

Honest(s) ==
  /\ CheckShape(s)
  /\ TrueEntries(s.entries, s.options)
  /\ \A f \in Files :
       /\ s.at[f] = "put" => Made(f, s.read[f], s.options, s.answer[f])
       /\ s.hit[f] => s.at[f] = "done" /\ Made(f, s.read[f], s.options, s.answer[f])
       /\ s.phase # "pass" => s.at[f] = "read"

CacheInv ==
  /\ world \in Nat \ {0}
  /\ DOMAIN check = Checks /\ \A c \in Checks : Honest(check[c])
  /\ TrueEntries(stored.entries, stored.print)

LEMMA NothingMade == \A options : TrueEntries(<<>>, options)
  BY DEF TrueEntries

LEMMA NewIsHonest ==
  ASSUME NEW phase PROVE Honest([NewCheck EXCEPT !.phase = phase])
  BY NothingMade DEF NewCheck, Honest, CheckShape

LEMMA CacheInits == CacheInit => CacheInv
<1>1. Honest(NewCheck)
  BY NothingMade DEF NewCheck, Honest, CheckShape
<1> QED
  BY <1>1, NothingMade DEF CacheInit, CacheInv, NoStore

(* What was made of an older world stays what it was made of.              *)
LEMMA MadeStays ==
  ASSUME world \in Nat, world' \in Nat, world <= world'
  PROVE  /\ \A f, t, o, a : Made(f, t, o, a) => Made(f, t, o, a)'
         /\ \A table, o : TrueEntries(table, o) => TrueEntries(table, o)'
         /\ \A s : Honest(s) => Honest(s)'
<1>1. ASSUME NEW f, NEW t, NEW o, NEW a, Made(f, t, o, a) PROVE Made(f, t, o, a)'
  BY <1>1 DEF Made
<1>2. ASSUME NEW table, NEW o, TrueEntries(table, o) PROVE TrueEntries(table, o)'
  BY <1>1, <1>2 DEF TrueEntries
<1>3. ASSUME NEW s, Honest(s) PROVE Honest(s)'
  BY <1>1, <1>2, <1>3 DEF Honest, CheckShape
<1> QED
  BY <1>1, <1>2, <1>3

(* A step of one run that leaves it honest and the rest of the world.      *)
LEMMA OneRunMoves ==
  ASSUME CacheInv, NEW c \in Checks, NEW s, Honest(s), check' = [check EXCEPT ![c] = s],
         UNCHANGED <<world, stored>>
  PROVE  CacheInv'
<1>1. DOMAIN check' = Checks /\ \A d \in Checks : Honest(check'[d])
  BY DEF CacheInv
<1>2. world \in Nat /\ world' \in Nat /\ world <= world'
  BY DEF CacheInv
<1>3. \A d \in Checks : Honest(check[d])'
  BY <1>1, <1>2, MadeStays
<1>4. TrueEntries(stored.entries, stored.print)'
  BY <1>2, MadeStays DEF CacheInv
<1> QED
  BY <1>1, <1>3, <1>4 DEF CacheInv

LEMMA OpenKeeps ==
  ASSUME CacheInv, NEW c \in Checks, Open(c) PROVE CacheInv'
<1>1. PICK o \in Options :
        check' = [check EXCEPT ![c].phase = "pass", ![c].options = o, ![c].entries = Loaded(o)]
  BY DEF Open
<1> DEFINE s == [check[c] EXCEPT !.phase = "pass", !.options = o, !.entries = Loaded(o)]
<1>2. Honest(check[c]) /\ check[c].phase = "new"
  BY DEF CacheInv, Open
<1>3. TrueEntries(Loaded(o), o)
  BY NothingMade DEF CacheInv, Loaded
<1>4. /\ s.phase = "pass" /\ s.options = o /\ s.entries = Loaded(o)
      /\ s.at = check[c].at /\ s.read = check[c].read /\ s.answer = check[c].answer
      /\ s.hit = check[c].hit /\ DOMAIN s = DOMAIN check[c]
  BY <1>2 DEF Honest, CheckShape
<1>5. check' = [check EXCEPT ![c] = s]
  BY <1>1
<1> HIDE DEF s
<1>6. Honest(s)
  BY <1>2, <1>3, <1>4 DEF Honest, CheckShape
<1> QED
  BY <1>5, <1>6, OneRunMoves DEF Open

(* A step of a run at one file leaves the other files alone.               *)
Elsewhere(s, old, f) ==
  \A g \in Files \ {f} : /\ s.at[g] = old.at[g] /\ s.read[g] = old.read[g]
                        /\ s.answer[g] = old.answer[g] /\ s.hit[g] = old.hit[g]

LEMMA FileMoves ==
  ASSUME CacheInv, NEW c \in Checks, NEW f \in Files, NEW s,
         check' = [check EXCEPT ![c] = s], UNCHANGED <<world, stored>>,
         check[c].phase = "pass", s.phase = "pass", s.options = check[c].options,
         CheckShape(s), TrueEntries(s.entries, s.options),
         Elsewhere(s, check[c], f),
         s.at[f] = "put" \/ s.hit[f] => Made(f, s.read[f], s.options, s.answer[f]),
         s.hit[f] => s.at[f] = "done"
  PROVE  CacheInv'
<1>1. Honest(check[c])
  BY DEF CacheInv
<1>2. Honest(s)
  BY <1>1 DEF Honest, Elsewhere
<1> QED
  BY <1>2, OneRunMoves

LEMMA FileIsGiven ==
  ASSUME NEW c \in Checks, NEW f \in Given[c] PROVE f \in Files
  BY DEF Files, Range, Checks

LEMMA ReadKeeps ==
  ASSUME CacheInv, NEW c \in Checks, NEW f \in Given[c], Read(c, f) PROVE CacheInv'
<1>1. Honest(check[c]) /\ f \in Files /\ check[c].phase = "pass" /\ check[c].at[f] = "read"
      /\ ~check[c].hit[f]
  BY FileIsGiven DEF CacheInv, Honest, Read, At
<1>2. CASE check' = [check EXCEPT ![c].at[f] = "look", ![c].read[f] = content[f]]
  <2> DEFINE s == [check[c] EXCEPT !.at[f] = "look", !.read[f] = content[f]]
  <2>1. check' = [check EXCEPT ![c] = s]
    BY <1>2
  <2>2. /\ CheckShape(s) /\ s.phase = "pass" /\ s.options = check[c].options
        /\ s.entries = check[c].entries /\ s.at[f] = "look" /\ ~s.hit[f]
        /\ Elsewhere(s, check[c], f)
    BY <1>1 DEF Honest, CheckShape, Elsewhere
  <2> HIDE DEF s
  <2> QED
    BY <1>1, <2>1, <2>2, FileMoves DEF Read, Honest
<1>3. CASE check' = [check EXCEPT ![c].at[f] = "done", ![c].answer[f] = Failure]
  <2> DEFINE s == [check[c] EXCEPT !.at[f] = "done", !.answer[f] = Failure]
  <2>1. check' = [check EXCEPT ![c] = s]
    BY <1>3
  <2>2. /\ CheckShape(s) /\ s.phase = "pass" /\ s.options = check[c].options
        /\ s.entries = check[c].entries /\ s.at[f] = "done" /\ ~s.hit[f]
        /\ Elsewhere(s, check[c], f)
    BY <1>1 DEF Honest, CheckShape, Elsewhere
  <2> HIDE DEF s
  <2> QED
    BY <1>1, <2>1, <2>2, FileMoves DEF Read, Honest
<1> QED
  BY <1>2, <1>3 DEF Read

LEMMA HitKeeps ==
  ASSUME CacheInv, NEW c \in Checks, NEW f \in Given[c], Hit(c, f) PROVE CacheInv'
<1> DEFINE found == check[c].entries[Key(c, f)]
           s == [check[c] EXCEPT !.at[f] = "done", !.hit[f] = TRUE, !.answer[f] = found]
<1>1. Honest(check[c]) /\ f \in Files /\ check[c].phase = "pass"
  BY FileIsGiven DEF CacheInv, Hit, At
<1>2. Made(f, check[c].read[f], check[c].options, found)
  BY <1>1 DEF Hit, Honest, TrueEntries, Key
<1>3. check' = [check EXCEPT ![c] = s]
  BY DEF Hit
<1> HIDE DEF found
<1>4. /\ CheckShape(s) /\ s.phase = "pass" /\ s.options = check[c].options
      /\ s.entries = check[c].entries /\ s.at[f] = "done" /\ s.hit[f]
      /\ s.read[f] = check[c].read[f] /\ s.answer[f] = found
      /\ Elsewhere(s, check[c], f)
  BY <1>1 DEF Honest, CheckShape, Elsewhere
<1> HIDE DEF s
<1> QED
  BY <1>1, <1>2, <1>3, <1>4, FileMoves DEF Hit, Honest

LEMMA EngineKeeps ==
  ASSUME CacheInv, NEW c \in Checks, NEW f \in Given[c], Engine(c, f) PROVE CacheInv'
<1>1. Honest(check[c]) /\ f \in Files /\ check[c].phase = "pass" /\ check[c].at[f] = "look"
      /\ ~check[c].hit[f] /\ world \in Nat \ {0}
  BY FileIsGiven DEF CacheInv, Honest, Engine, At
<1> DEFINE made == [file |-> f, text |-> check[c].read[f],
                    options |-> check[c].options, world |-> world]
<1>2. Made(f, check[c].read[f], check[c].options, made)
  BY <1>1 DEF Made
<1>3. PICK where \in {"put", "done"}, given \in {made, Failure} :
        /\ check' = [check EXCEPT ![c].at[f] = where, ![c].answer[f] = given]
        /\ where = "put" => given = made
  BY DEF Engine
<1> HIDE DEF made
<1> DEFINE s == [check[c] EXCEPT !.at[f] = where, !.answer[f] = given]
<1>4. check' = [check EXCEPT ![c] = s]
  BY <1>3
<1>5. /\ CheckShape(s) /\ s.phase = "pass" /\ s.options = check[c].options
      /\ s.entries = check[c].entries /\ s.at[f] = where /\ ~s.hit[f]
      /\ s.read[f] = check[c].read[f] /\ s.answer[f] = given
      /\ Elsewhere(s, check[c], f)
  BY <1>1 DEF Honest, CheckShape, Elsewhere
<1> HIDE DEF s
<1> QED
  BY <1>1, <1>2, <1>3, <1>4, <1>5, FileMoves DEF Engine, Honest

LEMMA PutKeeps ==
  ASSUME CacheInv, NEW c \in Checks, NEW f \in Given[c], Put(c, f) PROVE CacheInv'
<1> DEFINE kept == check[c].answer[f]
           table == With(check[c].entries, Key(c, f), kept)
           s == [check[c] EXCEPT !.at[f] = "done", !.dirty = TRUE, !.entries = table]
<1>1. Honest(check[c]) /\ f \in Files /\ check[c].phase = "pass" /\ ~check[c].hit[f]
      /\ Made(f, check[c].read[f], check[c].options, kept)
  BY FileIsGiven DEF CacheInv, Put, At, Honest
<1>2. TrueEntries(table, check[c].options)
  BY <1>1 DEF Honest, TrueEntries, With, Key
<1>3. check' = [check EXCEPT ![c] = s]
  BY DEF Put
<1> HIDE DEF table
<1>4. /\ CheckShape(s) /\ s.phase = "pass" /\ s.options = check[c].options
      /\ s.entries = table /\ s.at[f] = "done" /\ ~s.hit[f]
      /\ Elsewhere(s, check[c], f)
  BY <1>1 DEF Honest, CheckShape, Elsewhere
<1> HIDE DEF s
<1> QED
  BY <1>1, <1>2, <1>3, <1>4, FileMoves DEF Put, Honest

LEMMA EndKeeps ==
  ASSUME CacheInv, NEW c \in Checks, Flush(c) \/ Kill(c) PROVE CacheInv'
<1>1. PICK phase : Ended(c, phase)
  BY DEF Flush, Kill
<1>2. Honest([NewCheck EXCEPT !.phase = phase])
  BY NewIsHonest
<1>3. CASE UNCHANGED stored
  BY <1>1, <1>2, <1>3, OneRunMoves DEF Ended, Flush, Kill
<1>4. CASE stored' = [print |-> check[c].options, entries |-> check[c].entries]
  <2>1. world' = world /\ world \in Nat
    BY DEF Flush, Kill, CacheInv
  <2>2. DOMAIN check' = Checks /\ \A d \in Checks : Honest(check'[d])
    BY <1>1, <1>2 DEF Ended, CacheInv
  <2>3. \A d \in Checks : Honest(check[d])'
    BY <2>1, <2>2, MadeStays
  <2>4. TrueEntries(stored'.entries, stored'.print)
    BY <1>4 DEF CacheInv, Honest
  <2>5. TrueEntries(stored.entries, stored.print)'
    BY <2>1, <2>4, MadeStays
  <2> QED
    BY <2>1, <2>2, <2>3, <2>5 DEF CacheInv
<1> QED
  BY <1>3, <1>4 DEF Flush, Kill

LEMMA UsersKeep ==
  ASSUME CacheInv, EditWorld \/ DamageStore \/ \E f \in Files : EditSource(f) PROVE CacheInv'
<1>1. world' \in Nat \ {0} /\ world \in Nat /\ world <= world' /\ check' = check
  BY DEF EditWorld, DamageStore, EditSource, CacheInv
<1>2. \A d \in Checks : Honest(check[d])'
  BY <1>1, MadeStays DEF CacheInv
<1>3. TrueEntries(stored'.entries, stored'.print)
  BY NothingMade DEF EditWorld, DamageStore, EditSource, CacheInv, Damaged
<1>4. TrueEntries(stored.entries, stored.print)'
  BY <1>1, <1>3, MadeStays
<1> QED
  BY <1>1, <1>2, <1>4 DEF CacheInv

(* What a run answers from the cache of check results the engine has       *)
(* answered for the same file, text and options, and the file of the cache *)
(* holds answers of one configuration under the keys of what they were     *)
(* made of, for any number of runs, files and configurations               *)
(* (CheckResultCache::get, put and flush).                                 *)
THEOREM CachedAnswersAreTrue == CacheSpec => []HitIsTrue
<1>1. CacheInv /\ [CacheNext]_cacheVars => CacheInv'
  <2>1. ASSUME CacheInv, UNCHANGED cacheVars PROVE CacheInv'
    BY <2>1, MadeStays DEF cacheVars, CacheInv
  <2>2. ASSUME CacheInv, NEW c \in Checks, CheckStep(c) PROVE CacheInv'
    BY <2>2, OpenKeeps, ReadKeeps, HitKeeps, EngineKeeps, PutKeeps, EndKeeps DEF CheckStep
  <2> QED
    BY <2>1, <2>2, UsersKeep DEF CacheNext
<1>2. CacheInv => HitIsTrue
  BY DEF CacheInv, Honest, TrueEntries, HitIsTrue
<1> QED
  BY <1>1, <1>2, CacheInits, PTL DEF CacheSpec

(***************************************************************************)
(* The reporter process.                                                   *)
(***************************************************************************)
(* Records are numbered in the order of the results.  Each of the four     *)
(* places has some in this order, and a place nearer to the report has     *)
(* earlier ones.                                                           *)
Rising(s) ==
  /\ s \in Seq(1 .. sent)
  /\ \A i, j \in 1 .. Len(s) : i < j => s[i] < s[j]

Earlier(s, t) == \A i \in 1 .. Len(s), j \in 1 .. Len(t) : s[i] < t[j]

InOrder(a, b, c, d) ==
  /\ Rising(a) /\ Rising(b) /\ Rising(c) /\ Rising(d)
  /\ Earlier(a, b) /\ Earlier(a, c) /\ Earlier(a, d)
  /\ Earlier(b, c) /\ Earlier(b, d)
  /\ Earlier(c, d)

Ordered == InOrder(report, pipe, buffer, records)

(* As long as the process has not died, what is in one of the four places  *)
(* was sent and not dropped, and this is all there is without a fault; the *)
(* thread has ended only when nothing is on its way to the process.        *)
Total == Len(report) + Len(pipe) + Len(buffer) + Len(records) + dropped

Counted ==
  process # "died" =>
    /\ Total <= sent
    /\ ~faulty => Total = sent /\ (thread # "runs" => main # "sends" /\ records = <<>>)
    /\ thread = "ended" => buffer = <<>> /\ records = <<>>

ReportInv ==
  /\ sent \in Nat /\ dropped \in Nat
  /\ process \in {"reads", "ended", "died"} /\ faulty \in BOOLEAN
  /\ Ordered /\ Counted
  /\ main # "sends" => sent = Records
  /\ process = "ended" => /\ thread = "ended" /\ pipe = <<>>
                          /\ summary.files = Len(report)

LEMMA ReportInits == R!Init => ReportInv
<1> SUFFICES ASSUME R!Init PROVE ReportInv
  OBVIOUS
<1>1. <<>> \in Seq(1 .. sent) /\ Len(<<>>) = 0
  BY EmptySeq
<1> QED
  <2>1. /\ report = <<>> /\ pipe = <<>> /\ buffer = <<>> /\ records = <<>> /\ sent = 0 /\ dropped = 0
        /\ thread = "runs" /\ process = "reads" /\ main = "sends" /\ faulty = FALSE
    BY DEF R!Init
  <2>2. Ordered
    BY <1>1, <2>1 DEF Ordered, InOrder, Rising, Earlier
  <2>3. Total = 0
    BY <1>1, <2>1 DEF Total
  <2>4. Counted
    BY <2>1, <2>3 DEF Counted
  <2>5. faulty \in BOOLEAN /\ sent \in Nat /\ dropped \in Nat
    BY <2>1
  <2> QED
    BY <2>1, <2>2, <2>4, <2>5 DEF ReportInv

(* Taking the first record of a place and adding one at the end of another.*)
LEMMA TakeFirst ==
  ASSUME NEW s, Rising(s), s # <<>>
  PROVE  /\ Head(s) \in 1 .. sent /\ Rising(Tail(s)) /\ Len(Tail(s)) = Len(s) - 1
         /\ Head(s) = s[1]
         /\ \A i \in 1 .. Len(Tail(s)) : Head(s) < Tail(s)[i] /\ Tail(s)[i] = s[i + 1]
<1>1. s \in Seq(1 .. sent)
  BY DEF Rising
<1>2. /\ Head(s) \in 1 .. sent /\ Tail(s) \in Seq(1 .. sent) /\ Len(Tail(s)) = Len(s) - 1
      /\ \A i \in 1 .. Len(Tail(s)) : Tail(s)[i] = s[i + 1]
  BY <1>1, HeadTailProperties
<1>3. Head(s) = s[1] /\ Len(s) \in Nat \ {0}
  BY <1>1
<1> QED
  BY <1>2, <1>3 DEF Rising

LEMMA AddLast ==
  ASSUME NEW s, Rising(s), NEW r \in 1 .. sent, \A i \in 1 .. Len(s) : s[i] < r
  PROVE  /\ Rising(Append(s, r)) /\ Len(Append(s, r)) = Len(s) + 1
         /\ \A i \in 1 .. Len(s) : Append(s, r)[i] = s[i]
         /\ Append(s, r)[Len(s) + 1] = r
  BY DEF Rising

LEMMA NoneIsOrdered ==
  /\ Rising(<<>>) /\ \A s : Earlier(<<>>, s) /\ Earlier(s, <<>>)
  BY EmptySeq DEF Rising, Earlier

LEMMA LensAreNat == \A s : Rising(s) => Len(s) \in Nat
  BY DEF Rising

LEMMA RisingStays ==
  ASSUME sent \in Nat, sent' \in Nat, sent <= sent'
  PROVE  \A s : Rising(s) => Rising(s)'
<1> SUFFICES ASSUME NEW s, Rising(s) PROVE Rising(s)'
  OBVIOUS
<1>1. 1 .. sent \subseteq 1 .. sent'
  OBVIOUS
<1>2. s \in Seq(1 .. sent')
  BY <1>1, SeqMonotonic DEF Rising
<1> QED
  BY <1>2 DEF Rising

(* The place in front gives its first record to the place behind it.       *)
LEMMA HandOver ==
  ASSUME NEW s, NEW t, Rising(s), Rising(t), Earlier(s, t), t # <<>>
  PROVE  /\ Rising(Append(s, Head(t))) /\ Rising(Tail(t))
         /\ Earlier(Append(s, Head(t)), Tail(t))
         /\ Len(Append(s, Head(t))) = Len(s) + 1 /\ Len(Tail(t)) = Len(t) - 1
         /\ \A u : Earlier(u, s) /\ Earlier(u, t)
                    => Earlier(u, Append(s, Head(t))) /\ Earlier(u, Tail(t))
         /\ \A u : Earlier(s, u) /\ Earlier(t, u)
                    => Earlier(Append(s, Head(t)), u) /\ Earlier(Tail(t), u)
<1> DEFINE r == Head(t)
           a == Append(s, r)
           b == Tail(t)
<1>1. /\ r \in 1 .. sent /\ Rising(b) /\ Len(b) = Len(t) - 1 /\ r = t[1]
      /\ \A i \in 1 .. Len(b) : r < b[i] /\ b[i] = t[i + 1]
  BY TakeFirst
<1>2. Len(s) \in Nat /\ Len(t) \in Nat \ {0} /\ Len(b) \in Nat
  BY <1>1 DEF Rising
<1>3. \A i \in 1 .. Len(s) : s[i] < r
  BY <1>1, <1>2 DEF Earlier
<1>4. /\ Rising(a) /\ Len(a) = Len(s) + 1
      /\ \A i \in 1 .. Len(s) : a[i] = s[i]
      /\ a[Len(s) + 1] = r
  BY <1>1, <1>3, AddLast
<1> HIDE DEF r, a, b
<1>5. \A i \in 1 .. Len(a) : (i \in 1 .. Len(s) /\ a[i] = s[i]) \/ a[i] = t[1]
  BY <1>1, <1>2, <1>4
<1>6. \A i \in 1 .. Len(b) : i + 1 \in 1 .. Len(t) /\ b[i] = t[i + 1]
  BY <1>1, <1>2
<1>7. 1 \in 1 .. Len(t)
  BY <1>2
<1>8. Earlier(a, b)
  <2> SUFFICES ASSUME NEW i \in 1 .. Len(a), NEW j \in 1 .. Len(b) PROVE a[i] < b[j]
    BY DEF Earlier
  <2> QED
    BY <1>1, <1>5, <1>6 DEF Earlier
<1>9. ASSUME NEW u, Earlier(u, s), Earlier(u, t) PROVE Earlier(u, a) /\ Earlier(u, b)
  BY <1>5, <1>6, <1>7, <1>9 DEF Earlier
<1>10. ASSUME NEW u, Earlier(s, u), Earlier(t, u) PROVE Earlier(a, u) /\ Earlier(b, u)
  BY <1>5, <1>6, <1>7, <1>10 DEF Earlier
<1> QED
  BY <1>1, <1>4, <1>8, <1>9, <1>10 DEF r, a, b

LEMMA OrderStays ==
  ASSUME sent \in Nat, sent' \in Nat, sent <= sent'
  PROVE  \A a, b, c, d : InOrder(a, b, c, d) => InOrder(a, b, c, d)'
  BY RisingStays DEF InOrder, Earlier

LEMMA TrySendKeeps == ASSUME ReportInv, R!TrySend PROVE ReportInv'
<1>1. /\ sent \in Nat /\ sent' = sent + 1 /\ dropped \in Nat
      /\ UNCHANGED <<thread, buffer, pipe, process, report, summary, main, faulty>>
  BY DEF R!TrySend, ReportInv
<1>2. Ordered /\ InOrder(report, pipe, buffer, records)'  => Ordered'
  BY DEF Ordered
<1>3. InOrder(report, pipe, buffer, records)
  BY DEF ReportInv, Ordered
<1>4. \A d : InOrder(report, pipe, buffer, d) => InOrder(report, pipe, buffer, d)'
  BY <1>1, OrderStays
<1>5. CASE records' = Append(records, sent + 1) /\ dropped' = dropped
  <2>1. /\ records \in Seq(1 .. sent') /\ Len(records) \in Nat /\ sent + 1 \in 1 .. sent'
        /\ \A i \in 1 .. Len(records) : records[i] \in 1 .. sent
    <3>1. 1 .. sent \subseteq 1 .. sent' /\ records \in Seq(1 .. sent)
      BY <1>1, <1>3 DEF InOrder, Rising
    <3> QED
      BY <1>1, <3>1, SeqMonotonic
  <2>2. /\ records' \in Seq(1 .. sent') /\ Len(records') = Len(records) + 1
        /\ \A i \in 1 .. Len(records) : records'[i] = records[i]
        /\ records'[Len(records) + 1] = sent + 1
    BY <1>5, <2>1
  <2>3. \A i \in 1 .. Len(records') : i \in 1 .. Len(records) \/ i = Len(records) + 1
    BY <2>1, <2>2
  <2>4. Rising(records)'
    <3>1. \A i, j \in 1 .. Len(records) : i < j => records[i] < records[j]
      BY <1>3 DEF InOrder, Rising
    <3>2. ASSUME NEW i \in 1 .. Len(records'), NEW j \in 1 .. Len(records'), i < j
          PROVE  records'[i] < records'[j]
      <4>1. i \in 1 .. Len(records)
        BY <2>1, <2>2, <3>2
      <4>2. records'[i] = records[i] /\ records[i] \in 1 .. sent
        BY <2>1, <2>2, <4>1
      <4>3. CASE j \in 1 .. Len(records)
        BY <2>2, <3>1, <3>2, <4>1, <4>2, <4>3
      <4>4. CASE j = Len(records) + 1
        BY <1>1, <2>2, <4>2, <4>4
      <4> QED
        BY <2>3, <4>3, <4>4
    <3> QED
      BY <2>2, <3>2 DEF Rising
  <2>5. ASSUME NEW s, Rising(s), Earlier(s, records) PROVE Earlier(s, records')
    <3> SUFFICES ASSUME NEW i \in 1 .. Len(s), NEW j \in 1 .. Len(records')
                 PROVE  s[i] < records'[j]
      BY DEF Earlier
    <3>1. s[i] \in 1 .. sent
      BY <2>5, ElementOfSeq DEF Rising
    <3>2. CASE j \in 1 .. Len(records)
      BY <2>2, <2>5, <3>2 DEF Earlier
    <3>3. CASE j = Len(records) + 1
      BY <1>1, <2>2, <3>1, <3>3
    <3> QED
      BY <2>3, <3>2, <3>3
  <2>6. InOrder(report, pipe, buffer, records)'
    <3>1. Earlier(report, records') /\ Earlier(pipe, records') /\ Earlier(buffer, records')
      BY <1>3, <2>5 DEF InOrder
    <3>2. Rising(report)' /\ Rising(pipe)' /\ Rising(buffer)'
      BY <1>1, <1>3, RisingStays DEF InOrder
    <3> QED
      BY <1>1, <1>3, <2>4, <3>1, <3>2 DEF InOrder, Earlier
  <2> QED
    BY <1>1, <1>2, <1>5, <2>2, <2>6 DEF R!TrySend, ReportInv, Counted, Total
<1>6. CASE records' = records /\ dropped' = dropped + 1
  <2>1. InOrder(report, pipe, buffer, records)'
    BY <1>1, <1>3, <1>4, <1>6
  <2> QED
    BY <1>1, <1>2, <1>6, <2>1 DEF R!TrySend, ReportInv, Counted, Total
<1> QED
  BY <1>5, <1>6 DEF R!TrySend

LEMMA OrderMoves ==
  ASSUME ReportInv, sent' = sent, NEW a, NEW b, NEW c, NEW d, InOrder(a, b, c, d),
         report' = a, pipe' = b, buffer' = c, records' = d
  PROVE  Ordered'
<1>1. InOrder(a, b, c, d)'
  BY OrderStays DEF ReportInv
<1> QED
  BY <1>1 DEF Ordered

LEMMA PlacesAreFinite ==
  ASSUME ReportInv
  PROVE  /\ Len(report) \in Nat /\ Len(pipe) \in Nat /\ Len(buffer) \in Nat /\ Len(records) \in Nat
         /\ InOrder(report, pipe, buffer, records)
  BY LensAreNat DEF ReportInv, Ordered, InOrder

LEMMA MainKeeps == ASSUME ReportInv, R!Finish \/ R!Join \/ R!Wait PROVE ReportInv'
<1>1. UNCHANGED <<sent, dropped, records, thread, buffer, pipe, process, report, summary, faulty>>
      /\ main' # "sends" /\ (main = "sends" => sent = Records)
  BY DEF R!Finish, R!Join, R!Wait
<1>2. Ordered'
  BY <1>1, PlacesAreFinite, OrderMoves
<1> QED
  BY <1>1, <1>2 DEF ReportInv, Counted, Total

LEMMA ForwardKeeps == ASSUME ReportInv, R!Forward PROVE ReportInv'
<1>1. /\ buffer' = Append(buffer, Head(records)) /\ records' = Tail(records) /\ records # <<>>
      /\ UNCHANGED <<sent, dropped, thread, pipe, process, report, summary, main, faulty>>
      /\ thread = "runs"
  BY DEF R!Forward
<1>2. /\ InOrder(report, pipe, buffer', records')
      /\ Len(buffer') = Len(buffer) + 1 /\ Len(records') = Len(records) - 1
  BY <1>1, PlacesAreFinite, HandOver DEF InOrder
<1>3. Ordered'
  BY <1>1, <1>2, OrderMoves
<1>4. Counted'
  <2>1. Counted /\ sent \in Nat /\ dropped \in Nat
    BY DEF ReportInv
  <2>2. /\ Len(report) \in Nat /\ Len(pipe) \in Nat /\ Len(buffer) \in Nat /\ Len(records) \in Nat
    BY PlacesAreFinite
  <2>3. Total' = Total
    BY <1>1, <1>2, <2>1, <2>2 DEF Total
  <2> QED
    BY <1>1, <2>1, <2>3 DEF Counted
<1> QED
  BY <1>1, <1>3, <1>4 DEF ReportInv

LEMMA WriteOutKeeps == ASSUME ReportInv, R!WriteOut PROVE ReportInv'
<1>1. /\ pipe' = Append(pipe, Head(buffer)) /\ buffer' = Tail(buffer) /\ buffer # <<>>
      /\ UNCHANGED <<sent, dropped, records, thread, process, report, summary, main, faulty>>
      /\ process = "reads" /\ thread # "ended"
  BY DEF R!WriteOut, R!Writing
<1>2. /\ InOrder(report, pipe', buffer', records)
      /\ Len(pipe') = Len(pipe) + 1 /\ Len(buffer') = Len(buffer) - 1
  BY <1>1, PlacesAreFinite, HandOver DEF InOrder
<1>3. Ordered'
  BY <1>1, <1>2, OrderMoves
<1>4. Counted'
  <2>1. Counted /\ sent \in Nat /\ dropped \in Nat
    BY DEF ReportInv
  <2>2. /\ Len(report) \in Nat /\ Len(pipe) \in Nat /\ Len(buffer) \in Nat /\ Len(records) \in Nat
    BY PlacesAreFinite
  <2>3. Total' = Total
    BY <1>1, <1>2, <2>1, <2>2 DEF Total
  <2> QED
    BY <1>1, <2>1, <2>3 DEF Counted
<1> QED
  BY <1>1, <1>3, <1>4 DEF ReportInv

LEMMA ReadFrameKeeps == ASSUME ReportInv, R!ReadFrame PROVE ReportInv'
<1>1. /\ report' = Append(report, Head(pipe)) /\ pipe' = Tail(pipe) /\ pipe # <<>>
      /\ UNCHANGED <<sent, dropped, records, thread, buffer, process, summary, main, faulty>>
      /\ process = "reads"
  BY DEF R!ReadFrame
<1>2. /\ InOrder(report', pipe', buffer, records)
      /\ Len(report') = Len(report) + 1 /\ Len(pipe') = Len(pipe) - 1
  BY <1>1, PlacesAreFinite, HandOver DEF InOrder
<1>3. Ordered'
  BY <1>1, <1>2, OrderMoves
<1>4. Counted'
  <2>1. Counted /\ sent \in Nat /\ dropped \in Nat
    BY DEF ReportInv
  <2>2. /\ Len(report) \in Nat /\ Len(pipe) \in Nat /\ Len(buffer) \in Nat /\ Len(records) \in Nat
    BY PlacesAreFinite
  <2>3. Total' = Total
    BY <1>1, <1>2, <2>1, <2>2 DEF Total
  <2> QED
    BY <1>1, <2>1, <2>3 DEF Counted
<1> QED
  BY <1>1, <1>3, <1>4 DEF ReportInv

(* A thread that writes to a process that has ended has nothing to write.  *)
LEMMA BreakKeeps == ASSUME ReportInv, R!Break PROVE ReportInv'
<1>1. /\ buffer # <<>> /\ process # "reads" /\ thread # "ended"
      /\ buffer' = <<>> /\ records' = <<>>
      /\ UNCHANGED <<sent, dropped, pipe, process, report, summary, main, faulty>>
  BY DEF R!Break, R!Writing
<1>2. process # "ended"
  BY <1>1 DEF ReportInv
<1>3. InOrder(report, pipe, <<>>, <<>>)
  BY PlacesAreFinite, NoneIsOrdered DEF InOrder
<1>4. Ordered'
  BY <1>1, <1>3, OrderMoves
<1> QED
  BY <1>1, <1>2, <1>4 DEF ReportInv, Counted

(* A place that loses its first record, or all of them.                    *)
LEMMA Leaves ==
  ASSUME NEW s, Rising(s), s # <<>>
  PROVE  /\ Rising(Tail(s)) /\ Len(Tail(s)) = Len(s) - 1 /\ Len(s) \in Nat
         /\ \A t : Earlier(t, s) => Earlier(t, Tail(s))
         /\ \A t : Earlier(s, t) => Earlier(Tail(s), t)
<1>1. /\ Rising(Tail(s)) /\ Len(Tail(s)) = Len(s) - 1
      /\ \A i \in 1 .. Len(Tail(s)) : Tail(s)[i] = s[i + 1]
  BY TakeFirst
<1>2. Len(s) \in Nat /\ \A i \in 1 .. Len(Tail(s)) : i + 1 \in 1 .. Len(s)
  BY <1>1, LensAreNat
<1> QED
  BY <1>1, <1>2 DEF Earlier

LEMMA FaultsKeep ==
  ASSUME ReportInv, R!SkipRecord \/ R!FrameFails \/ R!SkipFrame PROVE ReportInv'
<1>1. UNCHANGED <<sent, dropped, buffer, process, report, summary, main>> /\ faulty' = TRUE
  BY DEF R!SkipRecord, R!FrameFails, R!SkipFrame
<1>2. CASE R!SkipRecord \/ R!FrameFails
  <2>1. /\ records # <<>> /\ records' = Tail(records) /\ pipe' = pipe
        /\ thread = "runs" /\ thread' # "ended"
    BY <1>2 DEF R!SkipRecord, R!FrameFails
  <2>2. InOrder(report, pipe, buffer, records') /\ Len(records') = Len(records) - 1
    BY <2>1, PlacesAreFinite, Leaves DEF InOrder
  <2>3. Ordered'
    BY <1>1, <2>1, <2>2, OrderMoves
  <2> QED
    BY <1>1, <2>1, <2>2, <2>3, PlacesAreFinite DEF ReportInv, Counted, Total
<1>3. CASE R!SkipFrame
  <2>1. pipe # <<>> /\ pipe' = Tail(pipe) /\ UNCHANGED <<records, thread>> /\ process = "reads"
    BY <1>3 DEF R!SkipFrame
  <2>2. InOrder(report, pipe', buffer, records) /\ Len(pipe') = Len(pipe) - 1
    BY <2>1, PlacesAreFinite, Leaves DEF InOrder
  <2>3. Ordered'
    BY <1>1, <2>1, <2>2, OrderMoves
  <2> QED
    BY <1>1, <2>1, <2>2, <2>3, PlacesAreFinite DEF ReportInv, Counted, Total
<1> QED
  BY <1>2, <1>3

LEMMA FlushKeeps == ASSUME ReportInv, R!Flush PROVE ReportInv'
<1>1. UNCHANGED <<sent, dropped, records, buffer, pipe, process, report, summary, main, faulty>>
      /\ records = <<>> /\ main # "sends" /\ thread = "runs" /\ thread' = "flushes"
  BY DEF R!Flush
<1>2. Ordered'
  BY <1>1, PlacesAreFinite, OrderMoves
<1> QED
  BY <1>1, <1>2 DEF ReportInv, Counted, Total

(* Without a fault the queue is empty when the thread ends.                *)
LEMMA CloseKeeps == ASSUME ReportInv, R!Close PROVE ReportInv'
<1>1. UNCHANGED <<sent, dropped, buffer, pipe, process, report, summary, main, faulty>>
      /\ buffer = <<>> /\ records' = <<>> /\ thread = "flushes" /\ thread' = "ended"
  BY DEF R!Close
<1>2. InOrder(report, pipe, buffer, <<>>) /\ Len(<<>>) = 0
  BY PlacesAreFinite, NoneIsOrdered DEF InOrder
<1>3. Ordered'
  BY <1>1, <1>2, OrderMoves
<1>4. Len(records') <= Len(records) /\ Len(records') \in Nat
  BY <1>1, <1>2, PlacesAreFinite
<1>5. process # "died" /\ ~faulty => records' = records
  BY <1>1 DEF ReportInv, Counted
<1> QED
  BY <1>1, <1>3, <1>4, <1>5, PlacesAreFinite DEF ReportInv, Counted, Total

LEMMA SummarizeKeeps == ASSUME ReportInv, R!Summarize PROVE ReportInv'
<1>1. /\ UNCHANGED <<sent, dropped, records, thread, buffer, pipe, report, main, faulty>>
      /\ pipe = <<>> /\ thread = "ended" /\ process = "reads" /\ process' = "ended"
      /\ summary'.files = Len(report)
  BY DEF R!Summarize
<1>2. Ordered'
  BY <1>1, PlacesAreFinite, OrderMoves
<1> QED
  BY <1>1, <1>2 DEF ReportInv, Counted, Total

(* What a process that dies leaves is the beginning of the report.         *)
LEMMA DieKeeps == ASSUME ReportInv, R!Die PROVE ReportInv'
<1>1. PICK n \in 0 .. Len(report) : report' = SubSeq(report, 1, n)
  BY DEF R!Die
<1>2. /\ UNCHANGED <<sent, dropped, thread, buffer, records, summary, main, faulty>>
      /\ pipe' = <<>> /\ process' = "died"
  BY DEF R!Die
<1>3. n \in Nat /\ report \in Seq(1 .. sent)
  BY PlacesAreFinite DEF InOrder, Rising
<1>4. /\ report' \in Seq(1 .. sent) /\ Len(report') = n
      /\ \A i \in 1 .. n : report'[i] = report[i] /\ i \in 1 .. Len(report)
  <2>1. \A i \in 1 .. n : i \in 1 .. Len(report) /\ report[i] \in 1 .. sent
    <3>1. \A i \in 1 .. n : i \in 1 .. Len(report)
      BY <1>3, PlacesAreFinite
    <3> QED
      BY <1>3, <3>1, ElementOfSeq
  <2>2. /\ SubSeq(report, 1, n) \in Seq(1 .. sent)
        /\ Len(SubSeq(report, 1, n)) = IF 1 <= n THEN n - 1 + 1 ELSE 0
        /\ \A i \in 1 .. n - 1 + 1 : SubSeq(report, 1, n)[i] = report[1 + i - 1]
    BY <1>3, <2>1, SubSeqProperties
  <2> QED
    BY <1>1, <1>3, <2>1, <2>2
<1>5. InOrder(report', <<>>, buffer, records)
  <2>1. Rising(report')
    BY <1>4, PlacesAreFinite DEF InOrder, Rising
  <2>2. \A s : Earlier(report, s) => Earlier(report', s)
    BY <1>4 DEF Earlier
  <2> QED
    BY <2>1, <2>2, NoneIsOrdered, PlacesAreFinite DEF InOrder
<1>6. Ordered'
  BY <1>2, <1>5, OrderMoves
<1> QED
  BY <1>2, <1>6 DEF ReportInv, Counted

(* The report has the records in the order of the results and each at most *)
(* once, and when the process ends by itself no result is in the summary   *)
(* and counted as dropped; the two are all the results unless a record     *)
(* could not be serialized, put into a frame or read.  This is for any     *)
(* number of results and any capacity of queue, buffer and pipe            *)
(* (reporter.rs, try_send, the thread of spawn, run_reporter_entry).       *)
THEOREM ReportIsAccounted == R!Spec => []ReportAccounts
<1>1. ReportInv /\ [R!Next]_R!vars => ReportInv'
  <2>1. ASSUME ReportInv, UNCHANGED R!vars PROVE ReportInv'
    <3>1. UNCHANGED <<sent, dropped, records, thread, buffer, pipe, process, report, summary, main, faulty>>
      BY <2>1 DEF R!vars
    <3>2. Ordered'
      BY <2>1, <3>1, PlacesAreFinite, OrderMoves
    <3> QED
      BY <2>1, <3>1, <3>2 DEF ReportInv, Counted, Total
  <2> QED
    BY <2>1, TrySendKeeps, MainKeeps, ForwardKeeps, WriteOutKeeps, ReadFrameKeeps, BreakKeeps,
       FaultsKeep, FlushKeeps, CloseKeeps, SummarizeKeeps, DieKeeps
    DEF R!Next, R!MainStep, R!ThreadStep, R!ProcessStep
<1>2. ReportInv => ReportAccounts
  <2> SUFFICES ASSUME ReportInv PROVE ReportAccounts
    OBVIOUS
  <2>1. \A i, j \in DOMAIN report : i < j => report[i] < report[j]
    BY PlacesAreFinite DEF InOrder, Rising
  <2>2. process = "ended" => /\ summary.files = Len(report) /\ summary.files + dropped <= sent
                             /\ ~faulty => summary.files + dropped = Records
    <3> SUFFICES ASSUME process = "ended"
                 PROVE  /\ summary.files = Len(report) /\ summary.files + dropped <= sent
                        /\ ~faulty => summary.files + dropped = Records
      OBVIOUS
    <3>1. /\ summary.files = Len(report) /\ pipe = <<>> /\ buffer = <<>> /\ records = <<>>
          /\ dropped \in Nat
      BY DEF ReportInv, Counted
    <3>2. Len(<<>>) = 0
      BY EmptySeq
    <3>3. Total = Len(report) + dropped
      BY <3>1, <3>2, PlacesAreFinite DEF Total
    <3> QED
      BY <3>1, <3>3 DEF ReportInv, Counted
  <2> QED
    BY <2>1, <2>2 DEF ReportAccounts, R!ReportAccounts
<1> QED
  BY <1>1, <1>2, ReportInits, PTL DEF R!Spec
===============================================================================
