------------------------------ MODULE JobTable ------------------------------
(***************************************************************************)
(* One row of the collection_job table and the SQL statements that         *)
(* PostgresCollectionJobRepository issues on it.  A statement is an        *)
(* operator from the old row to the new one: Postgres applies it           *)
(* atomically, so the interleaving is left to the modules that use it.     *)
(*                                                                         *)
(* Times are clock ticks.  The timestamp columns started_at, finished_at   *)
(* and dead_lettered_at are only ever tested for NULL, so they are         *)
(* BOOLEANs (TRUE: not NULL); next_run_at is compared and keeps its value. *)
(***************************************************************************)
EXTENDS Integers

CONSTANTS
    MaxRetries,         \* COLLECTION_JOB_MAX_RETRIES
    BaseDelay,          \* COLLECTION_JOB_RETRY_BASE_MS, in ticks
    MaxDelay,           \* COLLECTION_JOB_RETRY_MAX_MS, in ticks
    DeadLetterAllowed,  \* the CHECK on collection_job.status admits dead_letter
    FailureTyped        \* the server takes the $4 of fail for a timestamp

ASSUME RetryPolicyAssumption ==
    /\ MaxRetries \in Nat
    /\ BaseDelay \in Nat
    /\ MaxDelay \in Nat
    /\ DeadLetterAllowed \in BOOLEAN
    /\ FailureTyped \in BOOLEAN

NoTime == -1            \* the NULL of next_run_at

JobStatus ==
    {"queued", "running", "succeeded", "failed", "retrying", "dead_letter"}

\* "absent" marks a key for which the table holds no row yet.
Row ==
    [ status       : JobStatus \cup {"absent"},
      retryCount   : Nat,
      nextRunAt    : Nat \cup {NoTime},
      started      : BOOLEAN,
      finished     : BOOLEAN,
      deadLettered : BOOLEAN,
      cursorSaved  : BOOLEAN ]

NoRow ==
    [ status |-> "absent", retryCount |-> 0, nextRunAt |-> NoTime,
      started |-> FALSE, finished |-> FALSE, deadLettered |-> FALSE,
      cursorSaved |-> FALSE ]

Exists(row) == row.status # "absent"

\* The row both jobs build before they call create.
QueuedRow(now) ==
    [ status |-> "queued", retryCount |-> 0, nextRunAt |-> now,
      started |-> FALSE, finished |-> FALSE, deadLettered |-> FALSE,
      cursorSaved |-> FALSE ]

-----------------------------------------------------------------------------
\* Variant for the mutation runs: updateStatus without the next_run_at column.
SetStatusKeepsDueTime(row, status) ==
    [row EXCEPT
        !.status       = status,
        !.started      = @ \/ status = "running",
        !.finished     = @ \/ status \in {"succeeded", "failed"},
        !.deadLettered = @ \/ status = "dead_letter"]

(* updateStatus: no condition on the status the row already has.           *)
SetStatus(row, status) ==
    [row EXCEPT
        !.status       = status,
        !.started      = @ \/ status = "running",
        !.finished     = @ \/ status \in {"succeeded", "failed"},
        !.nextRunAt    = IF status \in {"running", "succeeded", "failed", "dead_letter"}
                         THEN NoTime ELSE @,
        !.deadLettered = @ \/ status = "dead_letter"]

\* Exponential backoff of computeRetryDelayMs, capped by MaxDelay.
RetryDelay(retryCount) ==
    LET exponent == IF retryCount > 1 THEN retryCount - 1 ELSE 0
        rawDelay == BaseDelay * 2^exponent
    IN  IF rawDelay < MaxDelay THEN rawDelay ELSE MaxDelay

\* Variant: the ceiling compared with the count before this failure.
RetriesExhaustedLate(row) == row.retryCount > MaxRetries

RetriesExhausted(row) == row.retryCount + 1 > MaxRetries

(* fail: the count is the row's own, the delay is the caller's.            *)
RecordFailure(row, now, delay) ==
    LET dead == RetriesExhausted(row)
    IN  [row EXCEPT
            !.retryCount   = @ + 1,
            !.status       = IF dead THEN "dead_letter" ELSE "retrying",
            !.nextRunAt    = IF dead THEN NoTime ELSE now + delay,
            !.finished     = dead,
            !.deadLettered = dead]

\* The server accepts the statement and the CHECK on status the new row.
\* Postgres resolves CASE .. THEN NULL ELSE $4 END as text, for want of a typed
\* branch, and has no assignment cast from text to the type of next_run_at.
Admitted(row) ==
    /\ FailureTyped
    /\ DeadLetterAllowed \/ row.status # "dead_letter"

SaveCursor(row) == [row EXCEPT !.cursorSaved = TRUE]

-----------------------------------------------------------------------------
(* What both jobs do with the row create returns: leave it alone when it   *)
(* is finished or still backing off, run it otherwise.                     *)

\* Variant: a succeeded job is picked up again.
IsDead(row) == row.status = "dead_letter"

IsSettled(row) == row.status \in {"succeeded", "dead_letter"}

IsBackingOff(row, now) == row.status = "retrying" /\ row.nextRunAt > now

ShouldRun(row, now) == ~IsSettled(row) /\ ~IsBackingOff(row, now)

-----------------------------------------------------------------------------
\* The columns of a row agree with its status: it has a due time exactly when
\* it waits to be run, it only waits while retries are left, and it is dead
\* exactly when they are used up.
RowConsistent(row) ==
    /\ row.nextRunAt # NoTime <=> row.status \in {"queued", "retrying"}
    /\ row.status = "queued" => row.retryCount = 0
    /\ row.status = "retrying" =>
          /\ row.retryCount \in 1 .. MaxRetries
          /\ ~row.deadLettered
          /\ ~row.finished
    /\ row.status = "dead_letter" =>
          row.retryCount > MaxRetries /\ row.deadLettered /\ row.finished
=============================================================================
