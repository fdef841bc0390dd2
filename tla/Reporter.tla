------------------------------ MODULE Reporter ------------------------------
(***************************************************************************)
(* The reporter process (runtime/reporter.rs): the run puts a record per   *)
(* file into a bounded queue and drops what does not fit, a thread writes  *)
(* the records as frames to the process through a buffer, the process      *)
(* writes the report and, at the end of its input, the summary.            *)
(***************************************************************************)
EXTENDS Integers, Sequences

CONSTANTS
  Records,    (* the number of results of the run                          *)
  Capacity,   (* of the queue: 128 in the code                             *)
  Buffer,     (* frames that fit the buffer of the thread: 64 KiB          *)
  Pipe        (* frames that fit the pipe to the process                   *)

VARIABLES
  sent,       (* results that finalize_run has gone through                *)
  dropped,    (* DROP_COUNT of the run                                     *)
  queue,      (* the channel between finalize_run and the thread           *)
  thread,     (* "runs", "flushes" or "ended"                              *)
  buffer,     (* frames in the writer of the thread                        *)
  pipe,       (* frames in the pipe; a process that is gone leaves it      *)
  process,    (* "reads", "ended" or "died"                                *)
  report,     (* the records the process has written into the files of the *)
              (* report, in their order; an error of a write is ignored    *)
  summary,    (* what the summary says: files and dropped records, or none *)
  main,       (* "sends", "joins", "waits" or "finished"                   *)
  faulty      (* history: a record could not be serialized, put into a     *)
              (* frame or read from one                                    *)

vars == <<sent, dropped, queue, thread, buffer, pipe, process, report, summary, main, faulty>>

NoSummary == [files |-> -1, dropped |-> -1]

Init ==
  /\ sent = 0 /\ dropped = 0
  /\ queue = <<>> /\ buffer = <<>> /\ pipe = <<>> /\ report = <<>>
  /\ thread = "runs" /\ process = "reads" /\ main = "sends"
  /\ summary = NoSummary
  /\ faulty = FALSE

(* A record is never waited for: it goes into the queue if there is room   *)
(* and a thread that takes it, else it is counted.                         *)
TrySend ==
  /\ main = "sends" /\ sent < Records
  /\ sent' = sent + 1
  /\ IF Len(queue) < Capacity /\ thread # "ended"
     THEN queue' = Append(queue, sent + 1) /\ UNCHANGED dropped
     ELSE dropped' = dropped + 1 /\ UNCHANGED queue
  /\ UNCHANGED <<thread, buffer, pipe, process, report, summary, main, faulty>>

(* finish closes the queue, waits for the thread, then for the process.    *)
Finish ==
  /\ main = "sends" /\ sent = Records
  /\ main' = "joins"
  /\ UNCHANGED <<sent, dropped, queue, thread, buffer, pipe, process, report, summary, faulty>>

Join ==
  /\ main = "joins" /\ thread = "ended"
  /\ main' = "waits"
  /\ UNCHANGED <<sent, dropped, queue, thread, buffer, pipe, process, report, summary, faulty>>

Wait ==
  /\ main = "waits" /\ process # "reads"
  /\ main' = "finished"
  /\ UNCHANGED <<sent, dropped, queue, thread, buffer, pipe, process, report, summary, faulty>>

(* The thread: a frame goes into the buffer; a full one is written first.  *)
Forward ==
  /\ thread = "runs" /\ queue # <<>> /\ Len(buffer) < Buffer
  /\ buffer' = Append(buffer, Head(queue))
  /\ queue' = Tail(queue)
  /\ UNCHANGED <<sent, dropped, thread, pipe, process, report, summary, main, faulty>>

(* A record that cannot be serialized is left out.                         *)
SkipRecord ==
  /\ thread = "runs" /\ queue # <<>>
  /\ queue' = Tail(queue)
  /\ faulty' = TRUE
  /\ UNCHANGED <<sent, dropped, thread, buffer, pipe, process, report, summary, main>>

(* One that makes no frame (more than 64 MiB) ends the loop: the thread    *)
(* flushes what it has, while the queue still takes records.               *)
FrameFails ==
  /\ thread = "runs" /\ queue # <<>>
  /\ queue' = Tail(queue)
  /\ thread' = "flushes"
  /\ faulty' = TRUE
  /\ UNCHANGED <<sent, dropped, buffer, pipe, process, report, summary, main>>

Writing ==
  \/ thread = "runs" /\ queue # <<>> /\ Len(buffer) = Buffer
  \/ thread = "flushes"

(* Writing blocks while the pipe is full.                                  *)
WriteOut ==
  /\ Writing
  /\ buffer # <<>> /\ process = "reads" /\ Len(pipe) < Pipe
  /\ pipe' = Append(pipe, Head(buffer))
  /\ buffer' = Tail(buffer)
  /\ UNCHANGED <<sent, dropped, queue, thread, process, report, summary, main, faulty>>

(* A write to a process that is gone ends the thread, and with it what is  *)
(* in its buffer and in the queue; so does the end of the queue, after the *)
(* buffer has been flushed.                                                *)
Break ==
  /\ Writing
  /\ buffer # <<>> /\ process # "reads"
  /\ thread' = "ended" /\ queue' = <<>> /\ buffer' = <<>>
  /\ UNCHANGED <<sent, dropped, pipe, process, report, summary, main, faulty>>

(* Mutant of Flush: the thread ends without a flush.                       *)
NoFlush ==
  /\ thread = "runs" /\ queue = <<>> /\ main # "sends"
  /\ thread' = "ended" /\ buffer' = <<>>
  /\ UNCHANGED <<sent, dropped, queue, pipe, process, report, summary, main, faulty>>

Flush ==
  /\ thread = "runs" /\ queue = <<>> /\ main # "sends"
  /\ thread' = "flushes"
  /\ UNCHANGED <<sent, dropped, queue, buffer, pipe, process, report, summary, main, faulty>>

(* With the thread its end of the queue goes, and what is in it.           *)
Close ==
  /\ thread = "flushes" /\ buffer = <<>>
  /\ thread' = "ended" /\ queue' = <<>>
  /\ UNCHANGED <<sent, dropped, buffer, pipe, process, report, summary, main, faulty>>

(* The process.  The count of dropped records in the summary is that of    *)
(* its own memory, in which nothing is ever dropped.                       *)
ReadFrame ==
  /\ process = "reads" /\ pipe # <<>>
  /\ report' = Append(report, Head(pipe))
  /\ pipe' = Tail(pipe)
  /\ UNCHANGED <<sent, dropped, queue, thread, buffer, process, summary, main, faulty>>

(* A frame or a record it cannot read is left out; the warning is lost, as *)
(* the process has no log.                                                 *)
SkipFrame ==
  /\ process = "reads" /\ pipe # <<>>
  /\ pipe' = Tail(pipe)
  /\ faulty' = TRUE
  /\ UNCHANGED <<sent, dropped, queue, thread, buffer, process, report, summary, main>>

Summarize ==
  /\ process = "reads" /\ pipe = <<>> /\ thread = "ended"
  /\ process' = "ended"
  /\ summary' = [files |-> Len(report), dropped |-> 0]
  /\ UNCHANGED <<sent, dropped, queue, thread, buffer, pipe, report, main, faulty>>

Die ==
  /\ process = "reads"
  /\ process' = "died" /\ pipe' = <<>>
  /\ \E n \in 0 .. Len(report) : report' = SubSeq(report, 1, n)
  /\ UNCHANGED <<sent, dropped, queue, thread, buffer, summary, main, faulty>>

MainStep == TrySend \/ Finish \/ Join \/ Wait
ThreadStep ==
  Forward \/ SkipRecord \/ FrameFails \/ WriteOut \/ Break \/ Flush \/ Close
ProcessStep == ReadFrame \/ SkipFrame \/ Summarize
Next == MainStep \/ ThreadStep \/ ProcessStep \/ Die

(* The process reads its input as long as it lives.                        *)
Fairness == WF_vars(MainStep) /\ WF_vars(ThreadStep) /\ WF_vars(ProcessStep)

Spec == Init /\ [][Next]_vars /\ Fairness

----------------------------------------------------------------------------
(* The report has the records in the order of the results, each at most    *)
(* once.  A process that ends by itself has written a summary of them, and *)
(* no result is in the report and among the dropped ones.  What is in      *)
(* neither is missing because a record could not be serialized, put into a *)
(* frame or read: without such a fault nothing is (reporter.rs, try_send,  *)
(* the thread of spawn, run_reporter_entry).                               *)
ReportAccounts ==
  /\ \A i, j \in DOMAIN report : i < j => report[i] < report[j]
  /\ process = "ended" => /\ summary.files = Len(report)
                          /\ summary.files + dropped <= sent
                          /\ ~faulty => summary.files + dropped = Records

(* A run is never kept from its end by the reporter: finish returns,       *)
(* whether the process lives or dies (reporter.rs, finish).                *)
FinishReturns == <>(main = "finished")
=============================================================================
