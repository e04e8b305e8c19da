------------------------ MODULE CollectionLifecycle ------------------------
(***************************************************************************)
(* A lone runner keeps the promise of JobLifecycle: its statements on a    *)
(* row of collection_job, crashes and failed calls included, are steps of  *)
(* the job's life or leave it where it is.  A row that a crash left as     *)
(* running is still running; marking it running again is no step.          *)
(***************************************************************************)
EXTENDS CollectionCycle

StageOf(row) ==
    CASE row.status \in {"queued", "retrying"} -> "waiting"
      [] row.status = "dead_letter"            -> "buried"
      [] OTHER                                 -> row.status

\* The start of the lone runner's latest cycle, the nowIso of all it writes.
Cycle == lastStart[CHOOSE r \in Runners : TRUE]

Lifecycle == INSTANCE JobLifecycle WITH
    Jobs     <- Job,
    Delay    <- RetryDelay,
    cycle    <- Cycle,
    stage    <- [j \in Job |-> StageOf(jobs[j])],
    failures <- [j \in Job |-> jobs[j].retryCount],
    due      <- [j \in Job |-> jobs[j].nextRunAt]

\* What a lone runner knows of the row of its job at each step.
RowKnown(r) ==
    LET row == jobs[JobOf(r)]
    IN  /\ ~At(r, "idle") => now[r] = Cycle
        /\ At(r, "select_job") => Exists(row)
        /\ At(r, "mark_running") =>
              /\ row.status \in {"queued", "retrying", "running"}
              /\ row.nextRunAt <= Cycle
              /\ seenRetries[r] = row.retryCount
        /\ pc[r] \in TrySteps \cup {"record_failure"} =>
              /\ row.status = "running"
              /\ seenRetries[r] = row.retryCount

\* What the statements of a lone runner make of a row.
RowBounded(row) ==
    /\ row.status \in JobStatus \ {"failed"} \/ row = NoRow
    /\ row.status = "queued" => row.nextRunAt <= Cycle
    /\ IF row.status = "dead_letter" THEN row.retryCount = MaxRetries + 1
                                     ELSE row.retryCount <= MaxRetries

\* The inductive invariant behind the refinement: nobody else moves the row
\* between the statements of a job, so what create returned still holds of it.
LoneInv ==
    /\ TypeOK
    /\ RowsConsistent
    /\ \A j \in Job : RowBounded(jobs[j])
    /\ \A r \in Runners : RowKnown(r)

\* With one runner and no lost acknowledgement, every job lives the life
\* JobLifecycle promises: the due time is honoured by the cycle that resumes
\* the job, the delay matches the count in the row although it is computed
\* from a copy read before the fetch, a job is buried at exactly its
\* (MaxRetries + 1)-th failure, and a settled job is never touched again.
KeepsLifecycle == Lifecycle!Spec
=============================================================================
