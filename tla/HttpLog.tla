------------------------------ MODULE HttpLog -------------------------------
(***************************************************************************)
(* The log of `rnx serve` (src/http_server/log.rs).                        *)
(*                                                                         *)
(* Producers never wait: a record that is too long, or finds the queue     *)
(* full, is refused and counted.  One thread writes to standard error and  *)
(* may block there for ever.  Shutdown waits for it for a while and then   *)
(* reports what became of every record; the counters are atomic, the       *)
(* report's reading of them is not.                                        *)
(***************************************************************************)
EXTENDS Naturals, FiniteSets, Functions

CONSTANTS
    Producer,   \* owners of a Log other than main: requests, workers
    LogQueue,   \* QUEUE
    MaxRecords  \* bound on the records of one producer

ASSUME LogAssumption == IsFiniteSet(Producer) /\ {LogQueue, MaxRecords} \subseteq Nat

VARIABLES
    sender,     \* of each producer: "idle", "sent" or "full" (not yet counted), "dropped"
    logSent,    \* history: records of each producer
    queued,     \* records in the channel
    counts,     \* Counts
    logThread,  \* "receiving", "writing", "wrote" or "failed" (not yet counted), "ended"
    summary,    \* the dropped of the last line, once it is written
    logMain,    \* "serving", "waiting", "joined", "detached", then a reading of the report
    report      \* Report

logVars == <<sender, logSent, queued, counts, logThread, summary, logMain, report>>

Counter == {"enqueued", "written", "refused", "write_failed"}
Zero == [c \in Counter |-> 0]
Count(c) == counts' = [counts EXCEPT ![c] = @ + 1]
Total == MaxRecords * Cardinality(Producer)
None == Total + 1      \* not read or not written yet
Blank == [c \in Counter |-> None]

LogSent == SumFunctionOnSet(logSent, Producer)
LogOpen == \E p \in Producer : sender[p] # "dropped"

LogInit ==
    /\ sender = [p \in Producer |-> "idle"]
    /\ logSent = [p \in Producer |-> 0]
    /\ queued = 0 /\ counts = Zero
    /\ logThread = "receiving" /\ summary = None
    /\ logMain = "serving" /\ report = Blank

-----------------------------------------------------------------------------
\* Log::send.

TooLong(p) ==
    /\ sender[p] = "idle" /\ logSent[p] < MaxRecords
    /\ logSent' = [logSent EXCEPT ![p] = @ + 1]
    /\ Count("refused")
    /\ UNCHANGED <<sender, queued, logThread, summary, logMain, report>>

TrySend(p) ==
    /\ sender[p] = "idle" /\ logSent[p] < MaxRecords
    /\ logSent' = [logSent EXCEPT ![p] = @ + 1]
    /\ IF queued < LogQueue
       THEN sender' = [sender EXCEPT ![p] = "sent"] /\ queued' = queued + 1
       ELSE sender' = [sender EXCEPT ![p] = "full"] /\ UNCHANGED queued
    /\ UNCHANGED <<counts, logThread, summary, logMain, report>>

\* Mutant: what found no room is not counted.
CountSentOnly(p) ==
    /\ sender[p] \in {"sent", "full"}
    /\ IF sender[p] = "sent" THEN Count("enqueued") ELSE UNCHANGED counts
    /\ sender' = [sender EXCEPT ![p] = "idle"]
    /\ UNCHANGED <<logSent, queued, logThread, summary, logMain, report>>

\* The record is counted after it was handed over, when it may be written already.
CountSent(p) ==
    /\ sender[p] \in {"sent", "full"}
    /\ IF sender[p] = "sent" THEN Count("enqueued") ELSE Count("refused")
    /\ sender' = [sender EXCEPT ![p] = "idle"]
    /\ UNCHANGED <<logSent, queued, logThread, summary, logMain, report>>

DropLog(p) ==
    /\ sender[p] = "idle"
    /\ sender' = [sender EXCEPT ![p] = "dropped"]
    /\ UNCHANGED <<logSent, queued, counts, logThread, summary, logMain, report>>

-----------------------------------------------------------------------------
\* The thread.

LogReceive ==
    /\ logThread = "receiving" /\ queued > 0
    /\ queued' = queued - 1
    /\ logThread' = "writing"
    /\ UNCHANGED <<sender, logSent, counts, summary, logMain, report>>

LogWrite ==
    /\ logThread = "writing"
    /\ logThread' \in {"wrote", "failed"}
    /\ UNCHANGED <<sender, logSent, queued, counts, summary, logMain, report>>

CountWritten ==
    /\ logThread \in {"wrote", "failed"}
    /\ Count(IF logThread = "wrote" THEN "written" ELSE "write_failed")
    /\ logThread' = "receiving"
    /\ UNCHANGED <<sender, logSent, queued, summary, logMain, report>>

\* recv fails once every sender is gone and the queue is empty; the summary follows.
LogEnds ==
    /\ logThread = "receiving" /\ queued = 0
    /\ ~LogOpen /\ logMain # "serving"
    /\ logThread' = "ended"
    /\ summary' = counts["refused"] + counts["write_failed"]
    /\ UNCHANGED <<sender, logSent, queued, counts, logMain, report>>

-----------------------------------------------------------------------------
\* Logger::shutdown.

\* "Host drops all other producers before shutdown": serve joined tasks and workers.
Shutdown ==
    /\ logMain = "serving" /\ ~LogOpen
    /\ logMain' = "waiting"
    /\ UNCHANGED <<sender, logSent, queued, counts, logThread, summary, report>>

\* The thread is finished, or 100 ms are over.
Waited ==
    /\ logMain = "waiting"
    /\ logMain' = IF logThread = "ended" THEN "joined" ELSE "detached"
    /\ UNCHANGED <<sender, logSent, queued, counts, logThread, summary, report>>

\* One load: enqueued, written, write_failed, refused, in this order.
LogRead ==
    /\ logMain \in {"joined", "detached"}
    /\ \E c \in Counter :
          /\ report[c] = None
          /\ c = "written" => report["enqueued"] # None
          /\ c = "write_failed" => report["written"] # None
          /\ c = "refused" => report["write_failed"] # None
          /\ report' = [report EXCEPT ![c] = counts[c]]
    /\ UNCHANGED <<sender, logSent, queued, counts, logThread, summary, logMain>>

Reported == report["refused"] # None
LogDone == Reported /\ UNCHANGED logVars      \* the process goes on to its end

LogNext ==
    \/ \E p \in Producer : TooLong(p) \/ TrySend(p) \/ CountSent(p) \/ DropLog(p)
    \/ LogReceive \/ LogWrite \/ CountWritten \/ LogEnds
    \/ Shutdown \/ Waited \/ LogRead \/ LogDone

\* The threads run and requests end.  A write to standard error may never return.
LogFairness ==
    /\ \A p \in Producer : WF_logVars(CountSent(p)) /\ SF_logVars(DropLog(p))
    /\ WF_logVars(LogReceive \/ CountWritten)
    /\ WF_logVars(Shutdown \/ Waited \/ LogRead)

LogSpec == LogInit /\ [][LogNext]_logVars
LogFairSpec == LogSpec /\ LogFairness

-----------------------------------------------------------------------------

LogTypeOK ==
    /\ sender \in [Producer -> {"idle", "sent", "full", "dropped"}]
    /\ logSent \in [Producer -> 0..MaxRecords]
    /\ queued \in 0..LogQueue
    /\ counts \in [Counter -> 0..Total]
    /\ logThread \in {"receiving", "writing", "wrote", "failed", "ended"}
    /\ summary \in 0..None
    /\ logMain \in {"serving", "waiting", "joined", "detached"}
    /\ report \in [Counter -> 0..None]

\* The report accounts for every record, once: refused, written, failed or outstanding,
\* though it is read while the thread still writes; with the thread joined none is
\* outstanding.
ReportExact ==
    Reported =>
        LET outstanding == report["enqueued"] - (report["written"] + report["write_failed"])
        IN  /\ report["written"] + report["write_failed"] <= report["enqueued"]
            /\ LogSent = report["enqueued"] + report["refused"]
            /\ logMain = "joined" => outstanding = 0

\* The last line of the log counts exactly the records that the log does not have.
SummaryExact == summary # None => summary + counts["written"] = LogSent

\* Once the producers are gone shutdown returns, though standard error may be blocked for
\* ever.
ShutdownReturns == ~LogOpen ~> Reported

\* Log: the counts that are reported add up, whenever they are read.
LogExact == LogTypeOK /\ ReportExact /\ SummaryExact

=============================================================================
