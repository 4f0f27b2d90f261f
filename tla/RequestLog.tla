----------------------------- MODULE RequestLog -----------------------------
(***************************************************************************)
(* The request logs: the rolling log in memory that the dashboard shows    *)
(* (router/proxy.py, _request_log), the rows of the database               *)
(* (db/request_logs.py, _record_request_log), the image counters, and who  *)
(* writes, trims, deletes and resets them.                                 *)
(*                                                                         *)
(* A text request is logged when it is over: _log_request (the log in      *)
(* memory, then the counters), then its row, each in a worker thread.  An  *)
(* image request has a row from the start, which the same record replaces  *)
(* in the end.  Trimming runs in the maintenance thread.                   *)
(***************************************************************************)
EXTENDS Integers, Sequences, FiniteSets

CONSTANTS
    Requests,   \* requests that are made, in any order
    Old,        \* requests whose rows an earlier run left behind
    BatchSize   \* rows that one trimming transaction deletes (500)

ASSUME LogAssumption ==
    /\ Requests \cap Old = {} /\ IsFiniteSet(Old)
    /\ BatchSize \in Nat \ {0}

VARIABLES
    flight,     \* Requests -> [stage, image, row, ok]
    recent,     \* _request_log: requests, newest first
    arrivals,   \* history: every request put into the log since it was last empty
    rows,       \* request_logs: id -> [request, image, status]
    lastRow,    \* AUTOINCREMENT: ids are never used again
    trimmer,    \* the maintenance thread: [keep, busy]
    resetting,  \* /admin/stats/reset is between its writes
    truth       \* history: what the image counters should say

logs == <<flight, recent, arrivals, rows, lastRow, trimmer, resetting, truth>>

Stages == {"new", "running", "answered", "appended", "counted", "logged", "lost"}

Fresh == [stage |-> "new", image |-> FALSE, row |-> 0, ok |-> TRUE]
Resting == [keep |-> 0, busy |-> FALSE]

\* What _migrate_image_generation_stats counts in the rows: a row that is not
\* "ok" (or "degraded") counts as failed, one that never ended included.
ImageRows == {i \in DOMAIN rows : rows[i].image}
Recount == [calls |-> Cardinality(ImageRows),
            failed |-> Cardinality({i \in ImageRows : rows[i].status # "ok"}),
            images |-> Cardinality({i \in ImageRows : rows[i].status = "ok"})]

LogInit ==
    /\ flight = [r \in Requests |-> Fresh]
    /\ recent = <<>> /\ arrivals = <<>>
    /\ \E n \in 0..Cardinality(Old) :
          \E f \in [1..n -> {[request |-> o, image |-> TRUE, status |-> s] :
                                o \in Old, s \in {"ok", "running"}}] :
             rows = f /\ lastRow = n
    /\ trimmer = Resting
    /\ resetting = FALSE

----------------------------------------------------------------------------
(* Writing.                                                                *)

Store(id, r, status) ==
    rows' = [i \in DOMAIN rows \cup {id} |->
                IF i = id THEN [request |-> r, image |-> flight[r].image, status |-> status]
                ELSE rows[i]]

\* _record_request_log: with the id of a row it replaces that row, if it is
\* still there, without one it adds a row.
Record(r, status) ==
    IF flight[r].row # 0
    THEN /\ IF flight[r].row \in DOMAIN rows THEN Store(flight[r].row, r, status)
                                             ELSE UNCHANGED rows
         /\ UNCHANGED lastRow
    ELSE Store(lastRow + 1, r, status) /\ lastRow' = lastRow + 1

Stage(r, stage) == flight' = [flight EXCEPT ![r].stage = stage]

\* An image request begins with a row that says "running".
StartImage(r) ==
    /\ flight[r].stage = "new"
    /\ flight' = [flight EXCEPT ![r] = [@ EXCEPT !.stage = "running", !.image = TRUE,
                                                 !.row = lastRow + 1]]
    /\ rows' = [i \in DOMAIN rows \cup {lastRow + 1} |->
                   IF i \in DOMAIN rows THEN rows[i]
                   ELSE [request |-> r, image |-> TRUE, status |-> "running"]]
    /\ lastRow' = lastRow + 1
    /\ UNCHANGED <<recent, arrivals, trimmer, resetting, truth>>

\* on_progress: the row is written again, still running.
Progress(r) ==
    /\ flight[r].stage = "running"
    /\ Record(r, "running")
    /\ UNCHANGED <<flight, recent, arrivals, trimmer, resetting, truth>>

\* The upstream answers, or the request fails.
Answered(r, stage) ==
    /\ flight[r].stage = stage
    /\ \E ok \in BOOLEAN :
          flight' = [flight EXCEPT ![r] = [@ EXCEPT !.stage = "answered", !.ok = ok]]
    /\ UNCHANGED <<recent, arrivals, rows, lastRow, trimmer, resetting, truth>>

AnswerText(r) == Answered(r, "new")
AnswerImage(r) == Answered(r, "running")

\* deque(maxlen): the newest is put in front, the oldest falls out.
Front(log, n) == SubSeq(log, 1, IF Len(log) < n THEN Len(log) ELSE n)

Arrive(r, capacity) ==
    /\ flight[r].stage = "answered"
    /\ recent' = Front(<<r>> \o recent, capacity)
    /\ arrivals' = <<r>> \o arrivals
    /\ Stage(r, "appended")
    /\ UNCHANGED <<rows, lastRow, trimmer, resetting, truth>>

Outcome(ok) == [calls |-> 1, failed |-> IF ok THEN 0 ELSE 1, images |-> IF ok THEN 1 ELSE 0]
Plus(counters, n) == [c \in DOMAIN n |-> counters[c] + n[c]]

\* increment_image_generation_stats, for the counters the caller passes.
Count(r) ==
    /\ flight[r].stage = "appended"
    /\ truth' = IF flight[r].image THEN Plus(truth, Outcome(flight[r].ok)) ELSE truth
    /\ Stage(r, "counted")
    /\ UNCHANGED <<recent, arrivals, rows, lastRow, trimmer, resetting>>

Finish(r) ==
    /\ flight[r].stage = "counted"
    /\ Record(r, IF flight[r].ok THEN "ok" ELSE "fail")
    /\ Stage(r, "logged")
    /\ UNCHANGED <<recent, arrivals, trimmer, resetting, truth>>

\* An image request that is cancelled leaves its row as it is.
Cancel(r) ==
    /\ flight[r].stage \in {"running", "answered"} /\ flight[r].image
    /\ Stage(r, "lost")
    /\ UNCHANGED <<recent, arrivals, rows, lastRow, trimmer, resetting, truth>>

----------------------------------------------------------------------------
(* Trimming: rows beyond the newest "keep", a batch per transaction, until *)
(* a batch is not full.  keep is read once.                                *)

Newer(i) == {j \in DOMAIN rows : j > i}

\* Slip: the oldest rows are kept.
BeyondOldest(keep) == {i \in DOMAIN rows : Cardinality({j \in DOMAIN rows : j < i}) >= keep}

Beyond(keep) == {i \in DOMAIN rows : Cardinality(Newer(i)) >= keep}
Batch(surplus) == {i \in surplus : Cardinality({j \in surplus : j > i}) < BatchSize}

Remove(ids) == rows' = [i \in DOMAIN rows \ ids |-> rows[i]]

StartTrim(keep) ==
    /\ ~trimmer.busy
    /\ keep > 0
    /\ trimmer' = [keep |-> keep, busy |-> TRUE]
    /\ UNCHANGED <<flight, recent, arrivals, rows, lastRow, resetting, truth>>

TrimBatch ==
    /\ trimmer.busy
    /\ LET batch == Batch(Beyond(trimmer.keep))
       IN  /\ Remove(batch)
           /\ trimmer' = IF Cardinality(batch) < BatchSize THEN Resting ELSE trimmer
    /\ UNCHANGED <<flight, recent, arrivals, lastRow, resetting, truth>>

----------------------------------------------------------------------------
(* The administrator.                                                      *)

DeleteRow(i) ==
    /\ i \in DOMAIN rows
    /\ Remove({i})
    /\ UNCHANGED <<flight, recent, arrivals, lastRow, trimmer, resetting, truth>>

ClearRows ==
    /\ DOMAIN rows # {}
    /\ Remove(DOMAIN rows)
    /\ UNCHANGED <<flight, recent, arrivals, lastRow, trimmer, resetting, truth>>

\* reset_global_stats and, after the users' counters, clear_request_log.
ResetCounters ==
    /\ ~resetting /\ resetting' = TRUE
    /\ truth' = [c \in DOMAIN truth |-> 0]
    /\ UNCHANGED <<flight, recent, arrivals, rows, lastRow, trimmer>>

ClearRecent ==
    /\ resetting /\ resetting' = FALSE
    /\ recent' = <<>> /\ arrivals' = <<>>
    /\ UNCHANGED <<flight, rows, lastRow, trimmer, truth>>

\* Slip: the other end of the log is kept.
ResizedOldest(capacity) ==
    IF Len(recent) < capacity THEN recent ELSE SubSeq(recent, Len(recent) - capacity + 1, Len(recent))

\* set_request_log_max: the deque is built again from its newest entries.
Resized(capacity) == Front(recent, capacity)

\* The end of the process.
Lost ==
    /\ flight' = [r \in Requests |-> IF flight[r].stage \in {"new", "logged"} THEN flight[r]
                                     ELSE [flight[r] EXCEPT !.stage = "lost"]]
    /\ recent' = <<>> /\ arrivals' = <<>>
    /\ trimmer' = Resting /\ resetting' = FALSE
    /\ UNCHANGED <<rows, lastRow, truth>>
=============================================================================
