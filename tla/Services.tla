------------------------------- MODULE Services -------------------------------
(***************************************************************************)
(* What stands beside the engine, in one module: the lanes that ask clang  *)
(* (ClangService), the cache of check results (ResultCache) and the        *)
(* process that writes the report (Reporter).  They share no state.        *)
(***************************************************************************)
EXTENDS ClangService, ResultCache

CONSTANTS Records, Capacity, Buffer, Pipe

(* `records` are those in the queue between the run and its reporter.      *)
VARIABLES sent, dropped, records, thread, buffer, pipe, process, report,
          summary, main, faulty
reporterVars ==
  <<sent, dropped, records, thread, buffer, pipe, process, report, summary, main, faulty>>

R == INSTANCE Reporter WITH queue <- records

(* The report has the records in the order of the results and each at most *)
(* once, and when the process ends by itself its summary and the records   *)
(* counted as dropped are all the results, but for those that are left out *)
(* because they could not be serialized, put into a frame or read          *)
(* (reporter.rs, try_send, the thread of spawn, run_reporter_entry).       *)
ReportAccounts == R!ReportAccounts
===============================================================================
