--------------------------- MODULE TelemetryArchive ---------------------------
(* Archiving of old telemetry by the worker processes, day by day, for one site
   (archive-producer.ts, job-store.ts, history-worker.ts, archive-telemetry.job.ts,
   archive-object-store.ts, migrations 021 and 022).

   A poll first lets the producer request a day or retry a failed job, then claims
   a job under a lease.  The job extracts the rows of its day from one snapshot,
   uploads them, checkpoints what it did in the job's row, and appends a
   generation to the catalog.  A process that lost its lease may still be running.

   Left out: restoring, which is retired (JobAccessService.current refuses it and
   allowed() fails what is left of it), the limits on sizes, and checksums: an
   object is either what was uploaded or not there. *)
EXTENDS Naturals, Sequences, FiniteSets

CONSTANTS
  Worker,        \* processes that run HistoryJobsWorker
  NoWorker,
  MaxDay,        \* the days, oldest first
  MaxVersion,    \* bound: changes of the rows of a day
  MaxJob,        \* bound: rows of platform_jobs
  MaxObject,     \* bound: uploads
  MaxAttempt,    \* attempts of a job: 4 in the code
  MaxFaults      \* bound: failed steps, crashes, leases lost by living processes

ASSUME ArchiveAssumption ==
  /\ NoWorker \notin Worker
  /\ MaxDay \in Nat /\ MaxVersion \in Nat
  /\ MaxJob \in Nat /\ MaxObject \in Nat
  /\ MaxAttempt \in Nat \ {0}
  /\ MaxFaults \in Nat

VARIABLES
  raw,          \* how often the rows of a day have changed; 0: it has none
  open,         \* what the trigger did in the open transaction that changes a day
  noted,        \* history: the last change of a day that was committed as marked
  cutoff,       \* days 1 .. cutoff are more than 90 days old
  dirty,        \* telemetry_archive_dirty
  scan,         \* telemetry_archive_scan
  job,          \* platform_jobs of kind archive
  failures,     \* failed jobs whose failure is five minutes old, oldest first
  object,       \* the object store, by upload
  generation,   \* telemetry_archives: the generation an upload was published as
  worker,       \* what the processes are doing
  faults        \* bound

telemetryVars == <<raw, open, noted, cutoff>>
storeVars == <<object, generation>>
vars == <<raw, open, noted, cutoff, dirty, scan, job, failures, object, generation,
          worker, faults>>

Day == 1 .. MaxDay
JobId == 1 .. MaxJob
Upload == 1 .. MaxObject
NoUpload == 0

(* upload and stored are the manifest: no upload, one under way, or one of which
   all parts and the checksum are known.  leased: lease_until is ahead;
   requested is history, the rows when it was requested. *)
Job ==
  [state: {"none", "queued", "running", "ready", "failed"},
   day: {0} \cup Day, attempt: 0 .. MaxAttempt, owner: Worker \cup {NoWorker},
   leased: BOOLEAN, upload: {NoUpload} \cup Upload, stored: BOOLEAN,
   key: {NoUpload} \cup Upload, requested: 0 .. MaxVersion]

Object ==
  [state: {"none", "uploading", "complete", "aborted"}, day: {0} \cup Day,
   version: 0 .. MaxVersion]

Process ==
  [at: {"idle", "claim", "verify", "abort", "extract", "checkpoint", "upload",
        "complete", "publish", "finish"},
   job: {0} \cup JobId, upload: {NoUpload} \cup Upload]

Idle == [at |-> "idle", job |-> 0, upload |-> NoUpload]

NoJob ==
  [state |-> "none", day |-> 0, attempt |-> 0, owner |-> NoWorker, leased |-> FALSE,
   upload |-> NoUpload, stored |-> FALSE, key |-> NoUpload, requested |-> 0]

TypeOK ==
  /\ raw \in [Day -> 0 .. MaxVersion]
  /\ open \in [Day -> {"none", "added", "seen"}]
  /\ noted \in [Day -> 0 .. MaxVersion]
  /\ cutoff \in 0 .. MaxDay
  /\ dirty \subseteq Day
  /\ scan \in [next: 1 .. MaxDay + 1, completed: BOOLEAN]
  /\ job \in [JobId -> Job]
  /\ failures \in Seq(JobId)
  /\ object \in [Upload -> Object]
  /\ generation \in [Upload -> 0 .. MaxObject]
  /\ worker \in [Worker -> Process]
  /\ faults \in 0 .. MaxFaults

(* Migration 022 finds rows of any days and marks none of them. *)
Init ==
  /\ raw \in [Day -> {v \in 0 .. MaxVersion : v <= 1}]
  /\ open = [d \in Day |-> "none"]
  /\ noted = [d \in Day |-> 0]
  /\ cutoff \in 0 .. MaxDay
  /\ dirty = {}
  /\ scan = [next |-> 1, completed |-> FALSE]
  /\ job = [j \in JobId |-> NoJob]
  /\ failures = <<>>
  /\ object = [e \in Upload |-> [state |-> "none", day |-> 0, version |-> 0]]
  /\ generation = [e \in Upload |-> 0]
  /\ worker = [w \in Worker |-> Idle]
  /\ faults = 0

-----------------------------------------------------------------------------
(* The rows.  Ingestion writes them in transactions of many statements, of which
   one at a time is modelled for each day. *)

(* The trigger archive_raw_dirty: ON CONFLICT DO NOTHING neither changes nor locks
   a marker that is there. *)
BeginChange(d) ==
  /\ open[d] = "none" /\ raw[d] < MaxVersion
  /\ open' = [open EXCEPT ![d] = IF d \in dirty THEN "seen" ELSE "added"]
  /\ UNCHANGED <<raw, noted, cutoff, dirty, scan, job, failures, storeVars, worker, faults>>

CommitChange(d) ==
  /\ open[d] # "none"
  /\ open' = [open EXCEPT ![d] = "none"]
  /\ raw' = [raw EXCEPT ![d] = @ + 1]
  /\ dirty' = IF open[d] = "added" THEN dirty \cup {d} ELSE dirty
  /\ noted' = IF d \in dirty' THEN [noted EXCEPT ![d] = raw[d] + 1] ELSE noted
  /\ UNCHANGED <<cutoff, scan, job, failures, storeVars, worker, faults>>

AbortChange(d) ==
  /\ open[d] # "none"
  /\ open' = [open EXCEPT ![d] = "none"]
  /\ UNCHANGED <<raw, noted, cutoff, dirty, scan, job, failures, storeVars, worker, faults>>

NewDay ==
  /\ cutoff < MaxDay
  /\ cutoff' = cutoff + 1
  /\ UNCHANGED <<raw, open, noted, dirty, scan, job, failures, storeVars, worker, faults>>

-----------------------------------------------------------------------------
(* The first transaction of a poll: ArchiveProducer.enqueueOne. *)

Active(j) == job[j].state \in {"queued", "running"}

Retryable(j) == job[j].state = "failed" /\ job[j].attempt < MaxAttempt

(* platform_jobs_one_active_archive_day *)
DayIsFree(d) == \A j \in JobId : Active(j) => job[j].day # d

(* The oldest failed job is queued again.  If the unique index refuses it the
   transaction and the poll end here, and no job is claimed. *)
RetryFailed(w, j) ==
  /\ worker[w].at = "idle"
  /\ failures # <<>> /\ j = Head(failures)
  /\ Retryable(j)
  /\ DayIsFree(job[j].day)
  /\ job' = [job EXCEPT ![j].state = "queued", ![j].attempt = @ + 1]
  /\ failures' = Tail(failures)
  /\ worker' = [worker EXCEPT ![w].at = "claim"]
  /\ UNCHANGED <<telemetryVars, dirty, scan, storeVars, faults>>

NothingToRetry == failures = <<>>

Requestable(w) ==
  /\ worker[w].at = "idle"
  /\ NothingToRetry
  /\ \A j \in JobId : ~Active(j)

Old(d) == d <= cutoff

(* The first day with rows that the cursor has not passed. *)
ScanFinds(d) ==
  /\ ~scan.completed
  /\ Old(d) /\ scan.next <= d /\ raw[d] > 0
  /\ \A e \in Day : scan.next <= e /\ e < d => raw[e] = 0

(* INSERT INTO platform_jobs, and the marker is taken back. *)
Request(w, d) ==
  /\ \E j \in JobId :
       /\ job[j].state = "none"
       /\ \A i \in JobId : i < j => job[i].state # "none"
       /\ job' = [job EXCEPT ![j] = [NoJob EXCEPT !.state = "queued", !.day = d,
                                       !.attempt = 1, !.requested = raw[d]]]
  /\ dirty' = dirty \ {d}
  /\ worker' = [worker EXCEPT ![w].at = "claim"]
  /\ UNCHANGED <<telemetryVars, failures, storeVars, faults>>

(* The oldest marked day comes first. *)
RequestDirty(w, d) ==
  /\ Requestable(w)
  /\ d \in dirty /\ Old(d) /\ \A e \in dirty : d <= e
  /\ Request(w, d)
  /\ UNCHANGED scan

NothingDirty == \A d \in dirty : ~Old(d)

RequestScanned(w, d) ==
  /\ Requestable(w) /\ NothingDirty
  /\ ScanFinds(d)
  /\ Request(w, d)
  /\ scan' = [scan EXCEPT !.next = d + 1]

(* A cursor that finds no more rows before the cutoff is done for good. *)
CompleteScan(w) ==
  /\ Requestable(w) /\ NothingDirty
  /\ ~scan.completed
  /\ \A d \in Day : ~ScanFinds(d)
  /\ scan' = [scan EXCEPT !.completed = TRUE]
  /\ worker' = [worker EXCEPT ![w].at = "claim"]
  /\ UNCHANGED <<telemetryVars, dirty, job, failures, storeVars, faults>>

RequestNothing(w) ==
  /\ worker[w].at = "idle"
  /\ NothingToRetry
  /\ \/ \E j \in JobId : Active(j)
     \/ NothingDirty /\ scan.completed
  /\ worker' = [worker EXCEPT ![w].at = "claim"]
  /\ UNCHANGED <<telemetryVars, dirty, scan, job, failures, storeVars, faults>>

(* The lock of the producer is taken by a process that is in this transaction: w
   goes on to claim, whatever becomes of the other's. *)
ProducerBusy(w) ==
  /\ worker[w].at = "idle"
  /\ \E v \in Worker \ {w} : worker[v].at = "idle"
  /\ worker' = [worker EXCEPT ![w].at = "claim"]
  /\ UNCHANGED <<telemetryVars, dirty, scan, job, failures, storeVars, faults>>

-----------------------------------------------------------------------------
(* JobStore.claim and the statements that are conditional on the claim. *)

Holds(w) ==
  LET j == worker[w].job IN
  /\ worker[w].at \notin {"idle", "claim"}
  /\ job[j].state = "running" /\ job[j].owner = w /\ job[j].leased

(* Mutant: a lease that expired is not taken over. *)
ClaimableQueued(j) == job[j].state = "queued"

Claimable(j) == job[j].state = "queued" \/ (job[j].state = "running" /\ ~job[j].leased)

(* Running jobs come first, then the oldest. *)
First(j) ==
  \A i \in JobId : Claimable(i) =>
    \/ job[j].state = "running" /\ (job[i].state = "queued" \/ j <= i)
    \/ job[j].state = "queued" /\ job[i].state = "queued" /\ j <= i

(* Where an execution starts, by the manifest it finds (execute). *)
Entry(j) ==
  IF job[j].stored THEN "verify" ELSE IF job[j].upload # NoUpload THEN "abort" ELSE "extract"

NoneLeased == \A j \in JobId : ~(job[j].state = "running" /\ job[j].leased)

Claim(w, j) ==
  /\ worker[w].at = "claim"
  /\ NoneLeased
  /\ Claimable(j) /\ First(j)
  /\ job' = [job EXCEPT ![j].state = "running", ![j].owner = w, ![j].leased = TRUE]
  /\ worker' = [worker EXCEPT ![w] = [at |-> Entry(j), job |-> j, upload |-> job[j].upload]]
  /\ UNCHANGED <<telemetryVars, dirty, scan, failures, storeVars, faults>>

ClaimNothing(w) ==
  /\ worker[w].at = "claim"
  /\ ~NoneLeased \/ \A j \in JobId : ~Claimable(j)
  /\ worker' = [worker EXCEPT ![w] = Idle]
  /\ UNCHANGED <<telemetryVars, dirty, scan, job, failures, storeVars, faults>>

(* The heartbeat of every 15 s keeps the lease of 60 s; a process that is alive
   loses it only if it stands still. *)
LeaseExpires(j) ==
  /\ job[j].state = "running" /\ job[j].leased
  /\ IF \E w \in Worker : worker[w].job = j /\ Holds(w)
     THEN faults < MaxFaults /\ faults' = faults + 1
     ELSE UNCHANGED faults
  /\ job' = [job EXCEPT ![j].leased = FALSE]
  /\ UNCHANGED <<telemetryVars, dirty, scan, failures, storeVars, worker>>

-----------------------------------------------------------------------------
(* HistoryJobsWorker.execute of an archive job. *)

Goto(w, at) == worker' = [worker EXCEPT ![w].at = at]

(* Mutant: what was completed is taken to be published. *)
VerifyPublished(w) ==
  /\ worker[w].at = "verify"
  /\ object[worker[w].upload].state = "complete"
  /\ Goto(w, "finish")
  /\ UNCHANGED <<telemetryVars, dirty, scan, job, failures, storeVars, faults>>

(* A checkpoint whose upload was completed is published as it is ... *)
VerifyStored(w) ==
  /\ worker[w].at = "verify"
  /\ object[worker[w].upload].state = "complete"
  /\ Goto(w, "publish")
  /\ UNCHANGED <<telemetryVars, dirty, scan, job, failures, storeVars, faults>>

(* ... and one whose object is not there (404) is forgotten. *)
ForgetStored(w) ==
  /\ worker[w].at = "verify"
  /\ object[worker[w].upload].state # "complete"
  /\ Goto(w, "extract")
  /\ UNCHANGED <<telemetryVars, dirty, scan, job, failures, storeVars, faults>>

(* abortPending; an upload that is gone is as good. *)
AbortPending(w) ==
  /\ worker[w].at = "abort"
  /\ object' = [object EXCEPT ![worker[w].upload].state =
                   IF @ = "uploading" THEN "aborted" ELSE @]
  /\ Goto(w, "extract")
  /\ UNCHANGED <<telemetryVars, dirty, scan, job, failures, generation, faults>>

(* The snapshot of a REPEATABLE READ transaction, and CreateMultipartUpload. *)
Extract(w) ==
  /\ worker[w].at = "extract"
  /\ \E e \in Upload :
       /\ object[e].state = "none"
       /\ \A f \in Upload : f < e => object[f].state # "none"
       /\ LET d == job[worker[w].job].day IN
          object' = [object EXCEPT ![e] = [state |-> "uploading", day |-> d,
                                             version |-> raw[d]]]
       /\ worker' = [worker EXCEPT ![w].at = "checkpoint", ![w].upload = e]
  /\ UNCHANGED <<telemetryVars, dirty, scan, job, failures, generation, faults>>

(* The manifest, under the lease. *)
Save(w, stored) ==
  /\ Holds(w)
  /\ job' = [job EXCEPT ![worker[w].job].upload = worker[w].upload,
                        ![worker[w].job].stored = stored]

(* The upload is on record before its first part. *)
CheckpointPending(w) ==
  /\ worker[w].at = "checkpoint"
  /\ Save(w, FALSE)
  /\ Goto(w, "upload")
  /\ UNCHANGED <<telemetryVars, dirty, scan, failures, storeVars, faults>>

(* All parts are there; their checksum is on record before they become an object. *)
CheckpointStored(w) ==
  /\ worker[w].at = "upload"
  /\ object[worker[w].upload].state = "uploading"
  /\ Save(w, TRUE)
  /\ Goto(w, "complete")
  /\ UNCHANGED <<telemetryVars, dirty, scan, failures, storeVars, faults>>

(* CompleteMultipartUpload.  Nothing looks at the lease here or in publish: the
   timer of the heartbeat may not have fired yet. *)
CompleteUpload(w) ==
  /\ worker[w].at = "complete"
  /\ object[worker[w].upload].state = "uploading"
  /\ object' = [object EXCEPT ![worker[w].upload].state = "complete"]
  /\ Goto(w, "publish")
  /\ UNCHANGED <<telemetryVars, dirty, scan, job, failures, generation, faults>>

Generations(d) == {generation[e] : e \in {f \in Upload : object[f].day = d}}

(* Mutant: a generation that is there is numbered again. *)
PublishAgain(w) ==
  /\ worker[w].at = "publish"
  /\ LET e == worker[w].upload IN
     /\ object[e].state = "complete"
     /\ \E g \in 1 .. MaxObject :
          /\ \A h \in Generations(object[e].day) : h < g
          /\ g - 1 \in Generations(object[e].day) \cup {0}
          /\ generation' = [generation EXCEPT ![e] = g]
  /\ Goto(w, "finish")
  /\ UNCHANGED <<telemetryVars, dirty, scan, job, failures, object, faults>>

(* One transaction under a lock of the day; a generation that is there stays. *)
Publish(w) ==
  /\ worker[w].at = "publish"
  /\ LET e == worker[w].upload IN
     /\ object[e].state = "complete"
     /\ IF generation[e] > 0
        THEN UNCHANGED generation
        ELSE \E g \in 1 .. MaxObject :
               /\ \A h \in Generations(object[e].day) : h < g
               /\ g - 1 \in Generations(object[e].day) \cup {0}
               /\ generation' = [generation EXCEPT ![e] = g]
  /\ Goto(w, "finish")
  /\ UNCHANGED <<telemetryVars, dirty, scan, job, failures, object, faults>>

(* Mutant: the day's marker is taken back when its job is done. *)
FinishClean(w) ==
  /\ worker[w].at = "finish"
  /\ Holds(w)
  /\ job' = [job EXCEPT ![worker[w].job] =
                [@ EXCEPT !.state = "ready", !.owner = NoWorker, !.leased = FALSE,
                          !.upload = worker[w].upload, !.stored = TRUE,
                          !.key = worker[w].upload]]
  /\ dirty' = dirty \ {job[worker[w].job].day}
  /\ worker' = [worker EXCEPT ![w] = Idle]
  /\ UNCHANGED <<telemetryVars, scan, failures, storeVars, faults>>

(* The last checkpoint repeats the one before; then complete. *)
Finish(w) ==
  /\ worker[w].at = "finish"
  /\ Holds(w)
  /\ job' = [job EXCEPT ![worker[w].job] =
                [@ EXCEPT !.state = "ready", !.owner = NoWorker, !.leased = FALSE,
                          !.upload = worker[w].upload, !.stored = TRUE,
                          !.key = worker[w].upload]]
  /\ worker' = [worker EXCEPT ![w] = Idle]
  /\ UNCHANGED <<telemetryVars, dirty, scan, failures, storeVars, faults>>

-----------------------------------------------------------------------------
(* Errors. *)

(* upload's catch: the abort of the upload in hand is tried once. *)
Uploading(w) == worker[w].at \in {"checkpoint", "upload", "complete"}

AbandonUpload(w) ==
  \/ UNCHANGED object
  \/ /\ Uploading(w)
     /\ object[worker[w].upload].state = "uploading"
     /\ object' = [object EXCEPT ![worker[w].upload].state = "aborted"]

(* Mutant: fail is not conditional on the claim. *)
LeaseLostFails(w) ==
  /\ worker[w].at \notin {"idle", "claim"}
  /\ ~Holds(w)
  /\ AbandonUpload(w)
  /\ job' = [job EXCEPT ![worker[w].job].state = "failed",
                        ![worker[w].job].owner = NoWorker,
                        ![worker[w].job].leased = FALSE]
  /\ worker' = [worker EXCEPT ![w] = Idle]
  /\ UNCHANGED <<telemetryVars, dirty, scan, failures, generation, faults>>

(* A process that finds its lease lost; fail changes nothing. *)
LeaseLost(w) ==
  /\ worker[w].at \notin {"idle", "claim"}
  /\ ~Holds(w)
  /\ AbandonUpload(w)
  /\ worker' = [worker EXCEPT ![w] = Idle]
  /\ UNCHANGED <<telemetryVars, dirty, scan, job, failures, generation, faults>>

(* Any step throws: the job fails. *)
StepFails(w) ==
  /\ Holds(w)
  /\ faults < MaxFaults /\ faults' = faults + 1
  /\ AbandonUpload(w)
  /\ job' = [job EXCEPT ![worker[w].job].state = "failed",
                        ![worker[w].job].owner = NoWorker,
                        ![worker[w].job].leased = FALSE]
  /\ worker' = [worker EXCEPT ![w] = Idle]
  /\ UNCHANGED <<telemetryVars, dirty, scan, failures, generation>>

(* The answer of CompleteMultipartUpload is lost. *)
AnswerLost(w) ==
  /\ worker[w].at = "complete" /\ Holds(w)
  /\ faults < MaxFaults /\ faults' = faults + 1
  /\ object[worker[w].upload].state = "uploading"
  /\ object' = [object EXCEPT ![worker[w].upload].state = "complete"]
  /\ job' = [job EXCEPT ![worker[w].job].state = "failed",
                        ![worker[w].job].owner = NoWorker,
                        ![worker[w].job].leased = FALSE]
  /\ worker' = [worker EXCEPT ![w] = Idle]
  /\ UNCHANGED <<telemetryVars, dirty, scan, failures, generation>>

(* The process ends, or cannot reach the database to say that it failed. *)
Crash(w) ==
  /\ worker[w].at # "idle"
  /\ faults < MaxFaults /\ faults' = faults + 1
  /\ worker' = [worker EXCEPT ![w] = Idle]
  /\ UNCHANGED <<telemetryVars, dirty, scan, job, failures, storeVars>>

(* Five minutes pass since a failure. *)
FailureAges(j) ==
  /\ Retryable(j)
  /\ \A n \in 1 .. Len(failures) : failures[n] # j
  /\ failures' = Append(failures, j)
  /\ UNCHANGED <<telemetryVars, dirty, scan, job, storeVars, worker, faults>>

-----------------------------------------------------------------------------
Telemetry == NewDay \/ \E d \in Day : BeginChange(d) \/ CommitChange(d) \/ AbortChange(d)

Enqueue(w) ==
  \/ \E j \in JobId : RetryFailed(w, j)
  \/ \E d \in Day : RequestDirty(w, d) \/ RequestScanned(w, d)
  \/ CompleteScan(w) \/ RequestNothing(w)

Take(w) == ClaimNothing(w) \/ \E j \in JobId : Claim(w, j)

Poll(w) == Enqueue(w) \/ ProducerBusy(w) \/ Take(w)

Execute(w) ==
  \/ VerifyStored(w) \/ ForgetStored(w) \/ AbortPending(w) \/ Extract(w)
  \/ CheckpointPending(w) \/ CheckpointStored(w) \/ CompleteUpload(w)
  \/ Publish(w) \/ Finish(w) \/ LeaseLost(w)

Fault(w) == StepFails(w) \/ AnswerLost(w) \/ Crash(w)

Time == \E j \in JobId : LeaseExpires(j) \/ FailureAges(j)

Next ==
  \/ Telemetry \/ Time
  \/ \E w \in Worker : Poll(w) \/ Execute(w) \/ Fault(w)

Spec == Init /\ [][Next]_vars

(* The timer of every process fires for ever and its execution goes on; the
   producer's lock is held by a process that polls, so some poll gets through; time
   passes.  Nothing is assumed of the rows or of faults. *)
FairSpec ==
  /\ Spec
  /\ WF_vars(NewDay)
  /\ SF_vars(\E w \in Worker : Enqueue(w))
  /\ \A w \in Worker : WF_vars(Take(w)) /\ WF_vars(Execute(w))
  /\ \A j \in JobId : WF_vars(FailureAges(j))
  /\ \A j \in JobId : WF_vars(LeaseExpires(j) /\ UNCHANGED faults)

-----------------------------------------------------------------------------
(* Properties *)

Archived(d, v) ==
  \E e \in Upload : generation[e] > 0 /\ object[e].day = d /\ object[e].version >= v

(* A job that is ready names a complete upload of its day that is in the catalog
   and has the rows as they were when the day was requested, or later ones: it
   does not report as done what a process that lost its lease, an upload whose
   answer was lost, or a forgotten checkpoint left behind. *)
ReadyIsArchived ==
  \A j \in JobId : job[j].state = "ready" =>
    /\ job[j].key # NoUpload
    /\ object[job[j].key].state = "complete"
    /\ object[job[j].key].day = job[j].day
    /\ object[job[j].key].version >= job[j].requested
    /\ generation[job[j].key] > 0

(* The catalog names only complete uploads, and numbers the generations of a day
   without repetition or gap although overtaken processes publish too. *)
CatalogIsSound ==
  \A e \in Upload : generation[e] > 0 =>
    /\ object[e].state = "complete"
    /\ \A f \in Upload \ {e} :
         object[f].day = object[e].day => generation[f] # generation[e]
    /\ generation[e] > 1 =>
         \E f \in Upload : object[f].day = object[e].day
                             /\ generation[f] = generation[e] - 1

Pending(d, v) ==
  \E j \in JobId : job[j].day = d /\ job[j].state \notin {"none", "ready"}
                      /\ job[j].requested >= v

(* A change that was committed as marked is not forgotten: until the catalog has
   the rows of the day as they were then, or newer ones, the day is marked or a job
   requested since then is not done. *)
NoMarkedChangeIsForgotten ==
  \A d \in Day : noted[d] > 0 =>
    d \in dirty \/ Archived(d, noted[d]) \/ Pending(d, noted[d])

(* What is ready stays so: no process that was overtaken, failure or retry takes
   a job back. *)
ReadyIsFinal ==
  [][\A j \in JobId : job[j].state = "ready" => job'[j] = job[j]]_vars

(* The unique index refuses the retry that is due. *)
RetryRefused == failures # <<>> /\ ~DayIsFree(job[Head(failures)].day)

Exhausted(d) ==
  \E j \in JobId : job[j].day = d /\ job[j].state = "failed" /\ ~Retryable(j)

(* A marked change of an old day is archived in the end, unless a job of the day
   used up its attempts, or the unique index refuses a retry from some time on. *)
ChangesAreArchived ==
  []<>~RetryRefused =>
    \A d \in Day : \A v \in 1 .. MaxVersion :
      (noted[d] = v /\ Old(d)) ~> (Archived(d, v) \/ Exhausted(d))

(* "Failed requests retry with their durable object checkpoint; four attempts
   maximum" (archive-producer.ts:13). *)
FailedRequestsRetry ==
  \A j \in JobId : (job[j].state = "failed" /\ Retryable(j)) ~> (job[j].state # "failed")
=============================================================================
