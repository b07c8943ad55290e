------------------------ MODULE TelemetryArchiveProofs ------------------------
(* Theorems of TelemetryArchive, for every number of processes, days, jobs, uploads,
   attempts and faults.

   Nothing that was done is taken back (Persists): rows change forward, an upload
   keeps its day and its rows, what is complete or published stays so, and a job
   keeps its day and what was asked of it.  So what a job's row, or a process that
   may have lost its lease, says of an upload stays true (JobInv, WorkerInv). *)
EXTENDS TelemetryArchive, TLAPS

-----------------------------------------------------------------------------
(* The invariant *)

(* Upload e has the rows of the day of job j, not older than asked for. *)
Carries(e, j) ==
  /\ e \in Upload
  /\ object[e].state # "none"
  /\ object[e].day = job[j].day
  /\ object[e].version >= job[j].requested

Done(e) == object[e].state = "complete" /\ generation[e] > 0

JobInv(j) ==
  /\ job[j].state # "none" => job[j].day \in Day /\ job[j].requested <= raw[job[j].day]
  /\ job[j].upload # NoUpload => Carries(job[j].upload, j)
  /\ job[j].stored => job[j].upload # NoUpload
  /\ job[j].state = "ready" => Carries(job[j].key, j) /\ Done(job[j].key)

WorkerInv(w) ==
  /\ worker[w].at \notin {"idle", "claim"} =>
       worker[w].job \in JobId /\ job[worker[w].job].state # "none"
  /\ worker[w].at \notin {"idle", "claim", "extract"} =>
       Carries(worker[w].upload, worker[w].job)
  /\ worker[w].at = "finish" => Done(worker[w].upload)

RowsInv(d) == noted[d] <= raw[d] /\ (open[d] # "none" => raw[d] < MaxVersion)

IInv ==
  /\ TypeOK
  /\ \A j \in JobId : JobInv(j)
  /\ \A w \in Worker : WorkerInv(w)
  /\ CatalogIsSound
  /\ \A d \in Day : RowsInv(d)
  /\ NoMarkedChangeIsForgotten

(* What a step leaves as it is. *)
RowsKept == \A d \in Day : raw[d] <= raw'[d]

UploadsKept ==
  \A e \in Upload :
    /\ object[e].state # "none" =>
         /\ object'[e].state # "none"
         /\ object'[e].day = object[e].day
         /\ object'[e].version = object[e].version
    /\ object[e].state = "complete" => object'[e].state = "complete"
    /\ generation[e] > 0 => generation'[e] = generation[e]

JobsKept ==
  \A j \in JobId : job[j].state # "none" =>
    /\ job'[j].state # "none"
    /\ job'[j].day = job[j].day
    /\ job'[j].requested = job[j].requested

Persists == RowsKept /\ UploadsKept /\ JobsKept

-----------------------------------------------------------------------------
(* The initial states *)

LEMMA NoJobType ==
  /\ NoJob \in Job
  /\ NoJob.state = "none" /\ NoJob.upload = NoUpload /\ NoJob.stored = FALSE
BY ArchiveAssumption DEF NoJob, Job, NoUpload

LEMMA IdleType == Idle \in Process /\ Idle.at = "idle"
BY DEF Idle, Process, NoUpload

LEMMA InitInvariant == Init => IInv
<1> SUFFICES ASSUME Init PROVE IInv
  OBVIOUS
<1>1. raw \in [Day -> 0 .. MaxVersion]
  BY ArchiveAssumption DEF Init
<1>2. object \in [Upload -> Object] /\ generation \in [Upload -> 0 .. MaxObject]
  BY ArchiveAssumption DEF Init, Object
<1>3. scan \in [next: 1 .. MaxDay + 1, completed: BOOLEAN]
  BY ArchiveAssumption DEF Init
<1>4. TypeOK
  BY <1>1, <1>2, <1>3, NoJobType, IdleType, ArchiveAssumption DEF Init, TypeOK
<1>5. \A j \in JobId : JobInv(j)
  BY NoJobType DEF Init, JobInv
<1>6. \A w \in Worker : WorkerInv(w)
  BY IdleType DEF Init, WorkerInv
<1>7. CatalogIsSound /\ NoMarkedChangeIsForgotten /\ \A d \in Day : RowsInv(d)
  BY <1>1, ArchiveAssumption DEF Init, CatalogIsSound, NoMarkedChangeIsForgotten, RowsInv
<1>8. QED
  BY <1>4, <1>5, <1>6, <1>7 DEF IInv

-----------------------------------------------------------------------------
(* What the actions do to a row, an upload and a process. *)

Others(j) == \A i \in JobId : i # j => job'[i] = job[i]

(* Job j goes to state s and keeps its request and its manifest. *)
JobTo(j, s) ==
  /\ job' \in [JobId -> Job]
  /\ job'[j].state = s
  /\ job'[j].day = job[j].day /\ job'[j].requested = job[j].requested
  /\ job'[j].upload = job[j].upload /\ job'[j].stored = job[j].stored
  /\ Others(j)

ObjectTo(e, s) ==
  /\ object' \in [Upload -> Object]
  /\ object'[e].state = s
  /\ object'[e].day = object[e].day /\ object'[e].version = object[e].version
  /\ \A f \in Upload : f # e => object'[f] = object[f]

WorkerTo(w, p) ==
  /\ worker' \in [Worker -> Process]
  /\ worker'[w] = p
  /\ \A v \in Worker : v # w => worker'[v] = worker[v]

LEMMA JobRow ==
  ASSUME TypeOK, NEW j \in JobId, NEW r \in Job, job' = [job EXCEPT ![j] = r]
  PROVE  job' \in [JobId -> Job] /\ job'[j] = r /\ Others(j)
BY DEF TypeOK, Others

LEMMA GotoFacts ==
  ASSUME TypeOK, NEW w \in Worker,
         NEW at \in {"idle", "claim", "verify", "abort", "extract", "checkpoint",
                     "upload", "complete", "publish", "finish"},
         worker' = [worker EXCEPT ![w].at = at]
  PROVE  WorkerTo(w, [worker[w] EXCEPT !.at = at]) /\ worker'[w].at = at
         /\ worker'[w].job = worker[w].job /\ worker'[w].upload = worker[w].upload
<1> DEFINE p == [worker[w] EXCEPT !.at = at]
<1>1. worker \in [Worker -> Process] /\ worker[w] \in Process
  BY DEF TypeOK
<1>2. p \in Process /\ p.at = at /\ p.job = worker[w].job /\ p.upload = worker[w].upload
  BY <1>1 DEF Process
<1>3. worker' = [worker EXCEPT ![w] = p]
  OBVIOUS
<1> HIDE DEF p
<1>4. WorkerTo(w, p)
  BY <1>1, <1>2, <1>3 DEF WorkerTo
<1>5. worker'[w] = p
  BY <1>4 DEF WorkerTo
<1>6. QED
  BY <1>2, <1>4, <1>5 DEF p

LEMMA IdleFacts ==
  ASSUME TypeOK, NEW w \in Worker, worker' = [worker EXCEPT ![w] = Idle]
  PROVE  WorkerTo(w, Idle) /\ worker'[w].at = "idle"
BY IdleType DEF TypeOK, WorkerTo

LEMMA ObjectState ==
  ASSUME TypeOK, NEW e \in Upload, NEW s \in {"uploading", "complete", "aborted"},
         object' = [object EXCEPT ![e].state = s]
  PROVE  ObjectTo(e, s)
<1> DEFINE o == [object[e] EXCEPT !.state = s]
<1>1. object \in [Upload -> Object] /\ object[e] \in Object
  BY DEF TypeOK
<1>2. o \in Object /\ o.state = s /\ o.day = object[e].day /\ o.version = object[e].version
  BY <1>1 DEF Object
<1>3. object' = [object EXCEPT ![e] = o]
  OBVIOUS
<1> HIDE DEF o
<1>4. QED
  BY <1>1, <1>2, <1>3 DEF ObjectTo

LEMMA JobFails ==
  ASSUME TypeOK, NEW j \in JobId,
         job' = [job EXCEPT ![j].state = "failed", ![j].owner = NoWorker, ![j].leased = FALSE]
  PROVE  JobTo(j, "failed")
<1> DEFINE r == [job[j] EXCEPT !.state = "failed", !.owner = NoWorker, !.leased = FALSE]
<1>1. job \in [JobId -> Job] /\ job[j] \in Job
  BY DEF TypeOK
<1>2. /\ r \in Job /\ r.state = "failed" /\ r.day = job[j].day
      /\ r.requested = job[j].requested
      /\ r.upload = job[j].upload /\ r.stored = job[j].stored
  BY <1>1 DEF Job
<1>3. job' = [job EXCEPT ![j] = r]
  BY <1>1
<1> HIDE DEF r
<1>4. QED
  BY <1>2, <1>3, JobRow DEF JobTo

-----------------------------------------------------------------------------
(* What each action does. *)

LEMMA RetryFailedFacts ==
  ASSUME TypeOK, NEW w \in Worker, NEW j \in JobId, RetryFailed(w, j)
  PROVE  JobTo(j, "queued") /\ worker'[w].at = "claim"
         /\ WorkerTo(w, [worker[w] EXCEPT !.at = "claim"])
         /\ failures' \in Seq(JobId)
<1> DEFINE r == [job[j] EXCEPT !.state = "queued", !.attempt = @ + 1]
<1>1. job \in [JobId -> Job] /\ job[j] \in Job /\ job[j].attempt < MaxAttempt
  BY DEF TypeOK, RetryFailed, Retryable
<1>2. job[j].attempt + 1 \in 0 .. MaxAttempt
  BY <1>1, ArchiveAssumption DEF Job
<1>3. /\ r \in Job /\ r.state = "queued" /\ r.day = job[j].day
      /\ r.requested = job[j].requested
      /\ r.upload = job[j].upload /\ r.stored = job[j].stored
  BY <1>1, <1>2 DEF Job
<1>4. job' = [job EXCEPT ![j] = r]
  BY <1>1 DEF RetryFailed
<1> HIDE DEF r
<1>5. JobTo(j, "queued")
  BY <1>3, <1>4, JobRow DEF JobTo
<1>6. worker' = [worker EXCEPT ![w].at = "claim"]
  BY DEF RetryFailed
<1>7. failures' \in Seq(JobId)
  <2>1. failures \in Seq(JobId) /\ failures # <<>> /\ failures' = Tail(failures)
    BY DEF RetryFailed, TypeOK
  <2>2. QED
    BY <2>1
<1>8. QED
  BY <1>5, <1>6, <1>7, GotoFacts

LEMMA RequestFacts ==
  ASSUME TypeOK, NEW w \in Worker, NEW d \in Day, Request(w, d)
  PROVE  /\ \E j \in JobId :
              /\ job[j].state = "none"
              /\ job' \in [JobId -> Job] /\ Others(j)
              /\ job'[j].state = "queued" /\ job'[j].day = d
              /\ job'[j].requested = raw[d]
              /\ job'[j].upload = NoUpload /\ ~job'[j].stored
         /\ dirty' = dirty \ {d}
<1> DEFINE r == [NoJob EXCEPT !.state = "queued", !.day = d, !.attempt = 1,
                              !.requested = raw[d]]
<1>1. PICK j \in JobId : job[j].state = "none" /\ job' = [job EXCEPT ![j] = r]
  BY DEF Request
<1>2. raw[d] \in 0 .. MaxVersion /\ 1 \in 0 .. MaxAttempt
  BY ArchiveAssumption DEF TypeOK
<1>3. /\ r \in Job /\ r.state = "queued" /\ r.day = d /\ r.requested = raw[d]
      /\ r.upload = NoUpload /\ r.stored = FALSE
  BY <1>2, NoJobType DEF Job
<1> HIDE DEF r
<1>4. job' \in [JobId -> Job] /\ job'[j] = r /\ Others(j)
  BY <1>1, <1>3, JobRow
<1>5. QED
  BY <1>1, <1>3, <1>4 DEF Request

LEMMA ClaimFacts ==
  ASSUME TypeOK, NEW w \in Worker, NEW j \in JobId, Claim(w, j)
  PROVE  /\ JobTo(j, "running") /\ job[j].state \in {"queued", "running"}
         /\ WorkerTo(w, [at |-> Entry(j), job |-> j, upload |-> job[j].upload])
         /\ worker'[w].job = j /\ worker'[w].upload = job[j].upload
         /\ worker'[w].at = Entry(j) /\ Entry(j) \in {"verify", "abort", "extract"}
<1> DEFINE r == [job[j] EXCEPT !.state = "running", !.owner = w, !.leased = TRUE]
           p == [at |-> Entry(j), job |-> j, upload |-> job[j].upload]
<1>1. job \in [JobId -> Job] /\ job[j] \in Job
  BY DEF TypeOK
<1>2. /\ r \in Job /\ r.state = "running" /\ r.day = job[j].day
      /\ r.requested = job[j].requested
      /\ r.upload = job[j].upload /\ r.stored = job[j].stored
  BY <1>1 DEF Job
<1>3. job' = [job EXCEPT ![j] = r]
  BY <1>1 DEF Claim
<1>4. Entry(j) \in {"verify", "abort", "extract"}
  BY DEF Entry
<1>5. p \in Process /\ p.at = Entry(j) /\ p.job = j /\ p.upload = job[j].upload
  BY <1>1, <1>4 DEF Process, Job
<1>6. worker' = [worker EXCEPT ![w] = p]
  BY DEF Claim
<1> HIDE DEF r
<1>7. JobTo(j, "running")
  BY <1>2, <1>3, JobRow DEF JobTo
<1> HIDE DEF p
<1>8. WorkerTo(w, p)
  BY <1>5, <1>6 DEF WorkerTo, TypeOK
<1>9. worker'[w] = p
  BY <1>8 DEF WorkerTo
<1>10. QED
  BY <1>4, <1>5, <1>7, <1>8, <1>9 DEF Claim, Claimable, p

LEMMA LeaseExpiresFacts ==
  ASSUME TypeOK, NEW j \in JobId, LeaseExpires(j)
  PROVE  JobTo(j, "running") /\ job[j].state = "running"
<1> DEFINE r == [job[j] EXCEPT !.leased = FALSE]
<1>1. job \in [JobId -> Job] /\ job[j] \in Job /\ job[j].state = "running"
  BY DEF TypeOK, LeaseExpires
<1>2. /\ r \in Job /\ r.state = "running" /\ r.day = job[j].day
      /\ r.requested = job[j].requested
      /\ r.upload = job[j].upload /\ r.stored = job[j].stored
  BY <1>1 DEF Job
<1>3. job' = [job EXCEPT ![j] = r]
  BY <1>1 DEF LeaseExpires
<1> HIDE DEF r
<1>4. QED
  BY <1>1, <1>2, <1>3, JobRow DEF JobTo

LEMMA FailureAgesFacts ==
  ASSUME TypeOK, NEW j \in JobId, FailureAges(j)
  PROVE  failures' \in Seq(JobId)
<1>1. failures \in Seq(JobId) /\ failures' = Append(failures, j)
  BY DEF TypeOK, FailureAges
<1>2. QED
  BY <1>1

(* A process that holds its claim has a running job. *)
LEMMA HoldsFacts ==
  ASSUME IInv, NEW w \in Worker, Holds(w)
  PROVE  /\ worker[w].job \in JobId /\ job[worker[w].job].state = "running"
         /\ worker[w].at \notin {"idle", "claim"}
BY DEF IInv, WorkerInv, Holds

LEMMA SaveFacts ==
  ASSUME TypeOK, NEW w \in Worker, NEW j \in JobId, j = worker[w].job,
         NEW stored \in BOOLEAN, Save(w, stored)
  PROVE  /\ job' \in [JobId -> Job] /\ Others(j)
         /\ job'[j].state = job[j].state
         /\ job'[j].day = job[j].day /\ job'[j].requested = job[j].requested
         /\ job'[j].upload = worker[w].upload
<1> DEFINE r == [job[j] EXCEPT !.upload = worker[w].upload, !.stored = stored]
<1>1. job \in [JobId -> Job] /\ job[j] \in Job /\ worker[w].upload \in {NoUpload} \cup Upload
  BY DEF TypeOK, Process
<1>2. /\ r \in Job /\ r.state = job[j].state /\ r.day = job[j].day
      /\ r.requested = job[j].requested /\ r.upload = worker[w].upload
  BY <1>1 DEF Job
<1>3. job' = [job EXCEPT ![j] = r]
  BY <1>1 DEF Save
<1> HIDE DEF r
<1>4. QED
  BY <1>2, <1>3, JobRow

LEMMA FinishFacts ==
  ASSUME TypeOK, NEW w \in Worker, NEW j \in JobId, j = worker[w].job, Finish(w)
  PROVE  /\ job' \in [JobId -> Job] /\ Others(j)
         /\ job'[j].state = "ready"
         /\ job'[j].day = job[j].day /\ job'[j].requested = job[j].requested
         /\ job'[j].upload = worker[w].upload /\ job'[j].key = worker[w].upload
         /\ WorkerTo(w, Idle) /\ worker'[w].at = "idle"
<1> DEFINE r == [job[j] EXCEPT !.state = "ready", !.owner = NoWorker, !.leased = FALSE,
                   !.upload = worker[w].upload, !.stored = TRUE, !.key = worker[w].upload]
<1>1. job \in [JobId -> Job] /\ job[j] \in Job /\ worker[w].upload \in {NoUpload} \cup Upload
  BY DEF TypeOK, Process
<1>2. /\ r \in Job /\ r.state = "ready" /\ r.day = job[j].day
      /\ r.requested = job[j].requested
      /\ r.upload = worker[w].upload /\ r.key = worker[w].upload
  BY <1>1 DEF Job
<1>3. job' = [job EXCEPT ![j] = r]
  BY <1>1 DEF Finish
<1> HIDE DEF r
<1>4. WorkerTo(w, Idle) /\ worker'[w].at = "idle"
  BY IdleFacts DEF Finish
<1>5. QED
  BY <1>2, <1>3, <1>4, JobRow

LEMMA ExtractFacts ==
  ASSUME TypeOK, NEW w \in Worker, NEW j \in JobId, j = worker[w].job,
         job[j].day \in Day, Extract(w)
  PROVE  /\ \E e \in Upload :
              /\ object[e].state = "none"
              /\ object' \in [Upload -> Object]
              /\ object'[e].state = "uploading"
              /\ object'[e].day = job[j].day /\ object'[e].version = raw[job[j].day]
              /\ \A f \in Upload : f # e => object'[f] = object[f]
              /\ worker'[w].upload = e
         /\ worker'[w].at = "checkpoint" /\ worker'[w].job = j
         /\ \E p \in Process : WorkerTo(w, p)
<1>1. PICK e \in Upload :
        /\ object[e].state = "none"
        /\ object' = [object EXCEPT ![e] = [state |-> "uploading", day |-> job[j].day,
                                             version |-> raw[job[j].day]]]
        /\ worker' = [worker EXCEPT ![w].at = "checkpoint", ![w].upload = e]
  BY DEF Extract
<1> DEFINE o == [state |-> "uploading", day |-> job[j].day, version |-> raw[job[j].day]]
           p == [worker[w] EXCEPT !.at = "checkpoint", !.upload = e]
<1>2. o \in Object /\ o.state = "uploading" /\ o.day = job[j].day /\ o.version = raw[job[j].day]
  BY DEF TypeOK, Object
<1>3. worker \in [Worker -> Process] /\ worker[w] \in Process
  BY DEF TypeOK
<1>4. p \in Process /\ p.at = "checkpoint" /\ p.upload = e /\ p.job = worker[w].job
  BY <1>3 DEF Process
<1>5. worker' = [worker EXCEPT ![w] = p]
  BY <1>1, <1>3
<1> HIDE DEF o, p
<1>6. object' = [object EXCEPT ![e] = o]
  BY <1>1 DEF o
<1>7. object' \in [Upload -> Object] /\ object'[e] = o
      /\ \A f \in Upload : f # e => object'[f] = object[f]
  BY <1>2, <1>6 DEF TypeOK
<1>8. WorkerTo(w, p) /\ worker'[w] = p
  BY <1>3, <1>4, <1>5 DEF WorkerTo
<1>9. QED
  BY <1>1, <1>2, <1>4, <1>7, <1>8

(* The abort of an error; upload' is over then. *)
LEMMA AbandonFacts ==
  ASSUME IInv, NEW w \in Worker, AbandonUpload(w)
  PROVE  \/ UNCHANGED object
         \/ \E e \in Upload : object[e].state = "uploading" /\ ObjectTo(e, "aborted")
<1>1. CASE UNCHANGED object
  BY <1>1
<1>2. CASE /\ Uploading(w) /\ object[worker[w].upload].state = "uploading"
           /\ object' = [object EXCEPT ![worker[w].upload].state = "aborted"]
  <2>1. worker[w].upload \in Upload
    BY <1>2 DEF IInv, WorkerInv, Carries, Uploading
  <2>2. ObjectTo(worker[w].upload, "aborted")
    BY <1>2, <2>1, ObjectState DEF IInv
  <2>3. QED
    BY <1>2, <2>1, <2>2
<1>3. QED
  BY <1>1, <1>2 DEF AbandonUpload

-----------------------------------------------------------------------------
(* Every step keeps the types and what persists. *)

LEMMA RowsSame == ASSUME TypeOK, UNCHANGED raw PROVE RowsKept
BY ArchiveAssumption DEF TypeOK, RowsKept

LEMMA UploadsSame == ASSUME UNCHANGED storeVars PROVE UploadsKept
BY DEF UploadsKept, storeVars

LEMMA JobsSame == ASSUME UNCHANGED job PROVE JobsKept
BY DEF JobsKept

LEMMA JobToKept ==
  ASSUME NEW j \in JobId, NEW s, s # "none", JobTo(j, s)
  PROVE  JobsKept
BY DEF JobTo, Others, JobsKept

LEMMA ObjectToKept ==
  ASSUME NEW e \in Upload, object[e].state = "uploading", NEW s, s # "none",
         ObjectTo(e, s), UNCHANGED generation
  PROVE  UploadsKept
BY DEF ObjectTo, UploadsKept

LEMMA FaultsType ==
  ASSUME TypeOK, faults < MaxFaults, faults' = faults + 1
  PROVE  faults' \in 0 .. MaxFaults
BY ArchiveAssumption DEF TypeOK

LEMMA TelemetryStep ==
  ASSUME IInv, Telemetry
  PROVE  TypeOK' /\ Persists
<1>1. TypeOK
  BY DEF IInv
<1>2. CASE NewDay
  <2>1. cutoff' \in 0 .. MaxDay
    BY <1>1, <1>2, ArchiveAssumption DEF NewDay, TypeOK
  <2>2. QED
    BY <1>1, <1>2, <2>1, RowsSame, UploadsSame, JobsSame DEF NewDay, TypeOK, storeVars, Persists
<1>3. ASSUME NEW d \in Day, BeginChange(d) \/ AbortChange(d)
      PROVE  TypeOK' /\ Persists
  <2>1. open' \in [Day -> {"none", "added", "seen"}]
    BY <1>1, <1>3 DEF TypeOK, BeginChange, AbortChange
  <2>2. UNCHANGED <<raw, noted, cutoff, dirty, scan, job, failures, storeVars, worker, faults>>
    BY <1>3 DEF BeginChange, AbortChange
  <2>3. QED
    BY <1>1, <2>1, <2>2, RowsSame, UploadsSame, JobsSame DEF TypeOK, storeVars, Persists
<1>4. ASSUME NEW d \in Day, CommitChange(d)
      PROVE  TypeOK' /\ Persists
  <2>0. raw[d] < MaxVersion
    BY <1>4 DEF IInv, RowsInv, CommitChange
  <2>1. raw[d] \in 0 .. MaxVersion /\ raw[d] + 1 \in 0 .. MaxVersion
    BY <1>1, <2>0, ArchiveAssumption DEF TypeOK
  <2>2. raw' \in [Day -> 0 .. MaxVersion] /\ noted' \in [Day -> 0 .. MaxVersion]
    BY <1>1, <1>4, <2>1 DEF TypeOK, CommitChange
  <2>3. open' \in [Day -> {"none", "added", "seen"}] /\ dirty' \subseteq Day
    BY <1>1, <1>4 DEF TypeOK, CommitChange
  <2>4. RowsKept
    BY <1>1, <1>4, <2>1, ArchiveAssumption DEF RowsKept, CommitChange, TypeOK
  <2>5. QED
    BY <1>1, <1>4, <2>2, <2>3, <2>4, UploadsSame, JobsSame
    DEF TypeOK, CommitChange, storeVars, Persists
<1>5. QED
  BY <1>2, <1>3, <1>4 DEF Telemetry
LEMMA TimeStep ==
  ASSUME IInv, Time
  PROVE  TypeOK' /\ Persists
<1>1. TypeOK
  BY DEF IInv
<1>2. ASSUME NEW j \in JobId, LeaseExpires(j)
      PROVE  TypeOK' /\ Persists
  <2>1. JobTo(j, "running")
    BY <1>1, <1>2, LeaseExpiresFacts
  <2>2. faults' \in 0 .. MaxFaults
    BY <1>1, <1>2, FaultsType DEF LeaseExpires, TypeOK
  <2>3. UNCHANGED <<telemetryVars, dirty, scan, failures, storeVars, worker>>
    BY <1>2 DEF LeaseExpires
  <2>4. QED
    BY <1>1, <2>1, <2>2, <2>3, RowsSame, UploadsSame, JobToKept
    DEF TypeOK, telemetryVars, storeVars, Persists, JobTo
<1>3. ASSUME NEW j \in JobId, FailureAges(j)
      PROVE  TypeOK' /\ Persists
  <2>1. failures' \in Seq(JobId)
    BY <1>1, <1>3, FailureAgesFacts
  <2>2. UNCHANGED <<telemetryVars, dirty, scan, job, storeVars, worker, faults>>
    BY <1>3 DEF FailureAges
  <2>3. QED
    BY <1>1, <2>1, <2>2, RowsSame, UploadsSame, JobsSame
    DEF TypeOK, telemetryVars, storeVars, Persists
<1>4. QED
  BY <1>2, <1>3 DEF Time

LEMMA PollStep ==
  ASSUME IInv, NEW w \in Worker, Poll(w)
  PROVE  TypeOK' /\ Persists
<1>1. TypeOK
  BY DEF IInv
<1>2. ASSUME NEW j \in JobId, RetryFailed(w, j)
      PROVE  TypeOK' /\ Persists
  <2>1. JobTo(j, "queued") /\ worker' \in [Worker -> Process] /\ failures' \in Seq(JobId)
    BY <1>1, <1>2, RetryFailedFacts DEF WorkerTo
  <2>2. UNCHANGED <<telemetryVars, dirty, scan, storeVars, faults>>
    BY <1>2 DEF RetryFailed
  <2>3. QED
    BY <1>1, <2>1, <2>2, RowsSame, UploadsSame, JobToKept
    DEF TypeOK, telemetryVars, storeVars, Persists, JobTo
<1>3. ASSUME NEW j \in JobId, Claim(w, j)
      PROVE  TypeOK' /\ Persists
  <2>1. JobTo(j, "running") /\ worker' \in [Worker -> Process]
    BY <1>1, <1>3, ClaimFacts DEF WorkerTo
  <2>2. UNCHANGED <<telemetryVars, dirty, scan, failures, storeVars, faults>>
    BY <1>3 DEF Claim
  <2>3. QED
    BY <1>1, <2>1, <2>2, RowsSame, UploadsSame, JobToKept
    DEF TypeOK, telemetryVars, storeVars, Persists, JobTo
<1>4. ASSUME NEW d \in Day, Request(w, d), scan' \in [next: 1 .. MaxDay + 1, completed: BOOLEAN]
      PROVE  TypeOK' /\ Persists
  <2>1. PICK j \in JobId : job[j].state = "none" /\ job' \in [JobId -> Job] /\ Others(j)
    BY <1>1, <1>4, RequestFacts
  <2>2. dirty' \subseteq Day
    BY <1>1, <1>4 DEF TypeOK, Request
  <2>5. worker' \in [Worker -> Process]
    BY <1>1, <1>4, GotoFacts DEF Request, WorkerTo
  <2>3. UNCHANGED <<telemetryVars, failures, storeVars, faults>>
    BY <1>4 DEF Request
  <2>4. JobsKept
    BY <2>1 DEF Others, JobsKept
  <2>6. QED
    BY <1>1, <1>4, <2>1, <2>2, <2>3, <2>4, <2>5, RowsSame, UploadsSame
    DEF TypeOK, telemetryVars, storeVars, Persists
<1>5. ASSUME NEW d \in Day, RequestDirty(w, d)
      PROVE  TypeOK' /\ Persists
  BY <1>1, <1>4, <1>5 DEF RequestDirty, TypeOK
<1>6. ASSUME NEW d \in Day, RequestScanned(w, d)
      PROVE  TypeOK' /\ Persists
  <2>1. d + 1 \in 1 .. MaxDay + 1
    BY ArchiveAssumption DEF Day
  <2>2. scan' \in [next: 1 .. MaxDay + 1, completed: BOOLEAN]
    BY <1>1, <1>6, <2>1 DEF RequestScanned, TypeOK
  <2>3. QED
    BY <1>4, <1>6, <2>2 DEF RequestScanned
<1>7. CASE CompleteScan(w)
  <2>1. scan' \in [next: 1 .. MaxDay + 1, completed: BOOLEAN]
    BY <1>1, <1>7 DEF CompleteScan, TypeOK
  <2>2. worker' \in [Worker -> Process]
    BY <1>1, <1>7, GotoFacts DEF CompleteScan, WorkerTo
  <2>3. UNCHANGED <<telemetryVars, dirty, job, failures, storeVars, faults>>
    BY <1>7 DEF CompleteScan
  <2>4. QED
    BY <1>1, <2>1, <2>2, <2>3, RowsSame, UploadsSame, JobsSame
    DEF TypeOK, telemetryVars, storeVars, Persists
<1>8. CASE RequestNothing(w) \/ ProducerBusy(w) \/ ClaimNothing(w)
  <2>1. worker' \in [Worker -> Process]
    BY <1>1, <1>8, GotoFacts, IdleFacts DEF RequestNothing, ProducerBusy, ClaimNothing, WorkerTo
  <2>2. UNCHANGED <<telemetryVars, dirty, scan, job, failures, storeVars, faults>>
    BY <1>8 DEF RequestNothing, ProducerBusy, ClaimNothing
  <2>3. QED
    BY <1>1, <2>1, <2>2, RowsSame, UploadsSame, JobsSame
    DEF TypeOK, telemetryVars, storeVars, Persists
<1>9. QED
  BY <1>2, <1>3, <1>5, <1>6, <1>7, <1>8 DEF Poll, Enqueue, Take
(* The job and the upload of a process that executes. *)
LEMMA ExecutionFacts ==
  ASSUME IInv, NEW w \in Worker, worker[w].at \notin {"idle", "claim"}
  PROVE  /\ worker[w].job \in JobId /\ job[worker[w].job].state # "none"
         /\ job[worker[w].job].day \in Day
         /\ job[worker[w].job].requested <= raw[job[worker[w].job].day]
         /\ worker[w].at # "extract" => Carries(worker[w].upload, worker[w].job)
         /\ worker[w].at # "extract" => worker[w].upload \in Upload
BY DEF IInv, WorkerInv, JobInv, Carries

LEMMA ExecuteStep ==
  ASSUME IInv, NEW w \in Worker, Execute(w)
  PROVE  TypeOK' /\ Persists
<1>1. TypeOK
  BY DEF IInv
<1> DEFINE j == worker[w].job
           e == worker[w].upload
<1>2. CASE VerifyStored(w) \/ ForgetStored(w)
  <2>1. worker' \in [Worker -> Process]
    BY <1>1, <1>2, GotoFacts DEF VerifyStored, ForgetStored, Goto, WorkerTo
  <2>2. UNCHANGED <<telemetryVars, dirty, scan, job, failures, storeVars, faults>>
    BY <1>2 DEF VerifyStored, ForgetStored
  <2>3. QED
    BY <1>1, <2>1, <2>2, RowsSame, UploadsSame, JobsSame
    DEF TypeOK, telemetryVars, storeVars, Persists
<1>3. CASE AbortPending(w)
  <2>1. worker' \in [Worker -> Process] /\ e \in Upload
    BY <1>1, <1>3, GotoFacts, ExecutionFacts DEF AbortPending, Goto, WorkerTo
  <2>2. UNCHANGED <<telemetryVars, dirty, scan, job, failures, generation, faults>>
    BY <1>3 DEF AbortPending
  <2>3. object' \in [Upload -> Object] /\ UploadsKept
    <3> DEFINE s == IF object[e].state = "uploading" THEN "aborted" ELSE object[e].state
               o == [object[e] EXCEPT !.state = s]
    <3>1. object \in [Upload -> Object] /\ object[e] \in Object
      BY <1>1, <2>1 DEF TypeOK
    <3>2. s \in {"none", "uploading", "complete", "aborted"}
          /\ (object[e].state # "none" => s # "none")
          /\ (object[e].state = "complete" => s = "complete")
      BY <3>1 DEF Object
    <3>3. object' = [object EXCEPT ![e] = o]
      BY <1>3, <3>1 DEF AbortPending
    <3>4. o \in Object /\ o.state = s /\ o.day = object[e].day /\ o.version = object[e].version
      <4> HIDE DEF s
      <4>1. QED
        BY <3>1, <3>2 DEF Object
    <3> HIDE DEF o, s
    <3>5. object' \in [Upload -> Object] /\ object'[e] = o
          /\ \A f \in Upload : f # e => object'[f] = object[f]
      BY <2>1, <3>1, <3>3, <3>4
    <3>6. QED
      BY <2>2, <3>2, <3>4, <3>5 DEF UploadsKept
  <2>4. QED
    BY <1>1, <2>1, <2>2, <2>3, RowsSame, JobsSame DEF TypeOK, telemetryVars, Persists
<1>4. CASE Extract(w)
  <2>1. j \in JobId /\ job[j].day \in Day
    BY <1>4, ExecutionFacts DEF Extract
  <2>2. PICK u \in Upload : /\ object[u].state = "none" /\ object' \in [Upload -> Object]
                            /\ \A f \in Upload : f # u => object'[f] = object[f]
    BY <1>1, <1>4, <2>1, ExtractFacts
  <2>3. worker' \in [Worker -> Process]
    BY <1>1, <1>4, <2>1, ExtractFacts DEF WorkerTo
  <2>4. UNCHANGED <<telemetryVars, dirty, scan, job, failures, generation, faults>>
    BY <1>4 DEF Extract
  <2>5. UploadsKept
    BY <2>2, <2>4 DEF UploadsKept
  <2>6. QED
    BY <1>1, <2>2, <2>3, <2>4, <2>5, RowsSame, JobsSame DEF TypeOK, telemetryVars, Persists
<1>5. ASSUME NEW stored \in BOOLEAN, Save(w, stored), worker' \in [Worker -> Process],
             UNCHANGED <<telemetryVars, dirty, scan, failures, storeVars, faults>>
      PROVE  TypeOK' /\ Persists
  <2>1. j \in JobId /\ job[j].state # "none"
    BY <1>5, HoldsFacts DEF Save
  <2>2. job' \in [JobId -> Job] /\ Others(j) /\ job'[j].state = job[j].state
        /\ job'[j].day = job[j].day /\ job'[j].requested = job[j].requested
    BY <1>1, <1>5, <2>1, SaveFacts
  <2>3. JobsKept
    BY <2>1, <2>2 DEF Others, JobsKept
  <2>4. QED
    BY <1>1, <1>5, <2>2, <2>3, RowsSame, UploadsSame DEF TypeOK, telemetryVars, storeVars, Persists
<1>6. CASE CheckpointPending(w) \/ CheckpointStored(w)
  <2>1. worker' \in [Worker -> Process]
    BY <1>1, <1>6, GotoFacts DEF CheckpointPending, CheckpointStored, Goto, WorkerTo
  <2>2. QED
    BY <1>5, <1>6, <2>1 DEF CheckpointPending, CheckpointStored
<1>7. CASE CompleteUpload(w)
  <2>1. worker' \in [Worker -> Process] /\ e \in Upload
    BY <1>1, <1>7, GotoFacts, ExecutionFacts DEF CompleteUpload, Goto, WorkerTo
  <2>2. ObjectTo(e, "complete") /\ object[e].state = "uploading"
    BY <1>1, <1>7, <2>1, ObjectState DEF CompleteUpload
  <2>3. UNCHANGED <<telemetryVars, dirty, scan, job, failures, generation, faults>>
    BY <1>7 DEF CompleteUpload
  <2>4. QED
    BY <1>1, <2>1, <2>2, <2>3, RowsSame, ObjectToKept, JobsSame
    DEF TypeOK, telemetryVars, Persists, ObjectTo
<1>8. CASE Publish(w)
  <2>1. worker' \in [Worker -> Process] /\ e \in Upload
    BY <1>1, <1>8, GotoFacts, ExecutionFacts DEF Publish, Goto, WorkerTo
  <2>2. UNCHANGED <<telemetryVars, dirty, scan, job, failures, object, faults>>
    BY <1>8 DEF Publish
  <2>3. \/ UNCHANGED generation
        \/ generation[e] = 0 /\ \E g \in 1 .. MaxObject : generation' = [generation EXCEPT ![e] = g]
    BY <1>1, <1>8, <2>1 DEF Publish, TypeOK
  <2>4. generation' \in [Upload -> 0 .. MaxObject] /\ UploadsKept
    BY <1>1, <2>1, <2>2, <2>3 DEF TypeOK, UploadsKept
  <2>5. QED
    BY <1>1, <2>1, <2>2, <2>4, RowsSame, JobsSame DEF TypeOK, telemetryVars, Persists
<1>9. CASE Finish(w)
  <2>1. j \in JobId /\ job[j].state # "none"
    BY <1>9, HoldsFacts DEF Finish
  <2>2. /\ job' \in [JobId -> Job] /\ Others(j) /\ job'[j].state = "ready"
        /\ job'[j].day = job[j].day /\ job'[j].requested = job[j].requested
        /\ WorkerTo(w, Idle)
    BY <1>1, <1>9, <2>1, FinishFacts
  <2>3. JobsKept /\ worker' \in [Worker -> Process]
    BY <2>1, <2>2 DEF Others, JobsKept, WorkerTo
  <2>4. UNCHANGED <<telemetryVars, dirty, scan, failures, storeVars, faults>>
    BY <1>9 DEF Finish
  <2>5. QED
    BY <1>1, <2>2, <2>3, <2>4, RowsSame, UploadsSame DEF TypeOK, telemetryVars, storeVars, Persists
<1>10. CASE LeaseLost(w)
  <2>1. worker' \in [Worker -> Process]
    BY <1>1, <1>10, IdleFacts DEF LeaseLost, WorkerTo
  <2>2. UNCHANGED <<telemetryVars, dirty, scan, job, failures, generation, faults>>
    BY <1>10 DEF LeaseLost
  <2>3. object' \in [Upload -> Object] /\ UploadsKept
    BY <1>1, <1>10, <2>2, AbandonFacts, UploadsSame, ObjectToKept
    DEF LeaseLost, TypeOK, ObjectTo, storeVars
  <2>4. QED
    BY <1>1, <2>1, <2>2, <2>3, RowsSame, JobsSame DEF TypeOK, telemetryVars, Persists
<1>11. QED
  BY <1>2, <1>3, <1>4, <1>6, <1>7, <1>8, <1>9, <1>10 DEF Execute

LEMMA FaultStep ==
  ASSUME IInv, NEW w \in Worker, Fault(w)
  PROVE  TypeOK' /\ Persists
<1>1. TypeOK
  BY DEF IInv
<1> DEFINE j == worker[w].job
<1>2. worker' \in [Worker -> Process] /\ faults' \in 0 .. MaxFaults
  BY <1>1, IdleFacts, FaultsType DEF Fault, StepFails, AnswerLost, Crash, WorkerTo
<1>3. CASE StepFails(w) \/ AnswerLost(w)
  <2>1. j \in JobId
    BY <1>3, HoldsFacts DEF StepFails, AnswerLost
  <2>2. JobTo(j, "failed")
    BY <1>1, <1>3, <2>1, JobFails DEF StepFails, AnswerLost
  <2>3. UNCHANGED <<telemetryVars, dirty, scan, failures, generation>>
    BY <1>3 DEF StepFails, AnswerLost
  <2>4. object' \in [Upload -> Object] /\ UploadsKept
    <3>1. CASE StepFails(w)
      BY <1>1, <3>1, <2>3, AbandonFacts, UploadsSame, ObjectToKept
      DEF StepFails, TypeOK, ObjectTo, storeVars
    <3>2. CASE AnswerLost(w)
      <4>1. worker[w].upload \in Upload
        BY <3>2, ExecutionFacts DEF AnswerLost
      <4>2. ObjectTo(worker[w].upload, "complete") /\ object[worker[w].upload].state = "uploading"
        BY <1>1, <3>2, <4>1, ObjectState DEF AnswerLost
      <4>3. QED
        BY <2>3, <4>1, <4>2, ObjectToKept DEF ObjectTo
    <3>3. QED
      BY <1>3, <3>1, <3>2
  <2>5. QED
    BY <1>1, <1>2, <2>1, <2>2, <2>3, <2>4, RowsSame, JobToKept
    DEF TypeOK, telemetryVars, Persists, JobTo
<1>4. CASE Crash(w)
  <2>1. UNCHANGED <<telemetryVars, dirty, scan, job, failures, storeVars>>
    BY <1>4 DEF Crash
  <2>2. QED
    BY <1>1, <1>2, <2>1, RowsSame, UploadsSame, JobsSame
    DEF TypeOK, telemetryVars, storeVars, Persists
<1>5. QED
  BY <1>3, <1>4 DEF Fault

LEMMA StepPersists == IInv /\ [Next]_vars => TypeOK' /\ Persists
<1> SUFFICES ASSUME IInv, [Next]_vars PROVE TypeOK' /\ Persists
  OBVIOUS
<1>1. CASE UNCHANGED vars
  <2>1. TypeOK
    BY DEF IInv
  <2>2. QED
    BY <1>1, <2>1, RowsSame, UploadsSame, JobsSame DEF TypeOK, vars, storeVars, Persists
<1>2. CASE Next
  BY <1>2, TelemetryStep, TimeStep, PollStep, ExecuteStep, FaultStep DEF Next
<1>3. QED
  BY <1>1, <1>2
-----------------------------------------------------------------------------
(* The rows of the jobs *)

CarriesNext(e, j) ==
  /\ e \in Upload
  /\ object'[e].state # "none"
  /\ object'[e].day = job'[j].day
  /\ object'[e].version >= job'[j].requested

DoneNext(e) == object'[e].state = "complete" /\ generation'[e] > 0

LEMMA CarriesKept ==
  ASSUME IInv, TypeOK', Persists, NEW j \in JobId, NEW e, Carries(e, j),
         job'[j].day = job[j].day, job'[j].requested = job[j].requested
  PROVE  CarriesNext(e, j)
BY DEF Carries, CarriesNext, Persists, UploadsKept

LEMMA DoneKept ==
  ASSUME Persists, NEW e \in Upload, Done(e)
  PROVE  DoneNext(e)
BY DEF Done, DoneNext, Persists, UploadsKept

LEMMA AskedKept ==
  ASSUME IInv, TypeOK', Persists, NEW d \in Day, NEW n \in Nat, n <= raw[d]
  PROVE  n <= raw'[d]
BY ArchiveAssumption DEF IInv, TypeOK, Persists, RowsKept

LEMMA JobInvKept ==
  ASSUME IInv, TypeOK', Persists, NEW j \in JobId,
         job'[j].day = job[j].day, job'[j].requested = job[j].requested,
         job'[j].upload = job[j].upload, job'[j].stored = job[j].stored,
         job'[j].state # "none" => job[j].state # "none",
         job'[j].state = "ready" => job[j].state = "ready" /\ job'[j].key = job[j].key
  PROVE  JobInv(j)'
<1>1. JobInv(j) /\ job[j].requested \in Nat
  BY ArchiveAssumption DEF IInv, TypeOK, Job
<1>2. job'[j].state # "none" => job'[j].day \in Day /\ job'[j].requested <= raw'[job'[j].day]
  BY <1>1, AskedKept DEF JobInv
<1>3. job'[j].upload # NoUpload => CarriesNext(job'[j].upload, j)
  BY <1>1, CarriesKept DEF JobInv
<1>4. job'[j].state = "ready" => CarriesNext(job'[j].key, j) /\ DoneNext(job'[j].key)
  <2>1. job[j].state = "ready" => job[j].key \in Upload /\ Carries(job[j].key, j) /\ Done(job[j].key)
    BY <1>1 DEF JobInv, Carries
  <2>2. QED
    BY <2>1, CarriesKept, DoneKept
<1>5. job'[j].stored => job'[j].upload # NoUpload
  BY <1>1 DEF JobInv
<1>6. QED
  BY <1>2, <1>3, <1>4, <1>5 DEF JobInv, Carries, CarriesNext, Done, DoneNext

LEMMA JobsInvSame ==
  ASSUME IInv, TypeOK', Persists, UNCHANGED job
  PROVE  \A j \in JobId : JobInv(j)'
BY JobInvKept

LEMMA OthersInv ==
  ASSUME IInv, TypeOK', Persists, NEW j \in JobId, Others(j), JobInv(j)'
  PROVE  \A i \in JobId : JobInv(i)'
<1> SUFFICES ASSUME NEW i \in JobId, i # j PROVE JobInv(i)'
  OBVIOUS
<1>1. QED
  BY JobInvKept DEF Others

LEMMA JobToInv ==
  ASSUME IInv, TypeOK', Persists, NEW j \in JobId, job[j].state # "none",
         NEW s \in {"queued", "running", "failed"}, JobTo(j, s)
  PROVE  \A i \in JobId : JobInv(i)'
BY JobInvKept, OthersInv DEF JobTo

LEMMA StepJobs ==
  ASSUME IInv, TypeOK', Persists, [Next]_vars
  PROVE  \A j \in JobId : JobInv(j)'
<1>1. TypeOK
  BY DEF IInv
<1>2. CASE UNCHANGED job
  BY <1>2, JobsInvSame
<1>3. ASSUME NEW w \in Worker, NEW j \in JobId, RetryFailed(w, j)
      PROVE  \A i \in JobId : JobInv(i)'
  BY <1>1, <1>3, RetryFailedFacts, JobToInv DEF RetryFailed, Retryable
<1>4. ASSUME NEW w \in Worker, NEW j \in JobId, Claim(w, j)
      PROVE  \A i \in JobId : JobInv(i)'
  <2>1. JobTo(j, "running") /\ job[j].state # "none"
    BY <1>1, <1>4, ClaimFacts
  <2>2. QED
    BY <2>1, JobToInv
<1>5. ASSUME NEW j \in JobId, LeaseExpires(j)
      PROVE  \A i \in JobId : JobInv(i)'
  BY <1>1, <1>5, LeaseExpiresFacts, JobToInv
<1>6. ASSUME NEW w \in Worker, NEW d \in Day, Request(w, d)
      PROVE  \A i \in JobId : JobInv(i)'
  <2>1. PICK j \in JobId :
          /\ Others(j) /\ job'[j].state = "queued" /\ job'[j].day = d
          /\ job'[j].requested = raw[d] /\ job'[j].upload = NoUpload /\ ~job'[j].stored
    BY <1>1, <1>6, RequestFacts
  <2>2. raw'[d] = raw[d] /\ raw[d] \in Nat
    BY <1>1, <1>6, ArchiveAssumption DEF Request, telemetryVars, TypeOK
  <2>3. JobInv(j)'
    BY <2>1, <2>2 DEF JobInv
  <2>4. QED
    BY <2>1, <2>3, OthersInv
<1>7. ASSUME NEW w \in Worker, NEW stored \in BOOLEAN, Save(w, stored),
             worker[w].at # "extract"
      PROVE  \A i \in JobId : JobInv(i)'
  <2>1. PICK j \in JobId : /\ j = worker[w].job /\ job[j].state = "running"
                           /\ worker[w].at \notin {"idle", "claim"}
    BY <1>7, HoldsFacts DEF Save
  <2>8. PICK e \in Upload : e = worker[w].upload
    BY <1>7, <2>1, ExecutionFacts
  <2>2. Carries(e, j) /\ job[j].requested <= raw[job[j].day] /\ job[j].day \in Day
    BY <1>7, <2>1, <2>8, ExecutionFacts
  <2>3. /\ Others(j) /\ job'[j].state = job[j].state
        /\ job'[j].day = job[j].day /\ job'[j].requested = job[j].requested
        /\ job'[j].upload = e
    BY <1>1, <1>7, <2>1, <2>8, SaveFacts
  <2>4. CarriesNext(e, j)
    BY <2>1, <2>2, <2>3, CarriesKept
  <2>5. job'[j].requested <= raw'[job[j].day]
    <3>1. job[j].requested \in Nat
      BY <1>1, <2>1, ArchiveAssumption DEF TypeOK, Job
    <3>2. QED
      BY <2>2, <2>3, <3>1, AskedKept
  <2>6. JobInv(j)'
    <3>1. e # NoUpload
      BY ArchiveAssumption DEF Upload, NoUpload
    <3>2. QED
      BY <2>1, <2>2, <2>3, <2>4, <2>5, <3>1 DEF JobInv, Carries, CarriesNext
  <2>7. QED
    BY <2>1, <2>3, <2>6, OthersInv
<1>8. ASSUME NEW w \in Worker, Finish(w)
      PROVE  \A i \in JobId : JobInv(i)'
  <2>1. PICK j \in JobId : j = worker[w].job /\ job[j].state = "running"
    BY <1>8, HoldsFacts DEF Finish
  <2>9. PICK e \in Upload : e = worker[w].upload
    BY <1>8, ExecutionFacts DEF Finish
  <2>2. /\ Carries(e, j) /\ job[j].requested <= raw[job[j].day]
        /\ job[j].day \in Day
    BY <1>8, <2>1, <2>9, ExecutionFacts DEF Finish
  <2>3. Done(e)
    BY <1>8, <2>9 DEF IInv, WorkerInv, Finish
  <2>4. /\ Others(j) /\ job'[j].state = "ready"
        /\ job'[j].day = job[j].day /\ job'[j].requested = job[j].requested
        /\ job'[j].upload = e /\ job'[j].key = e
    BY <1>1, <1>8, <2>1, <2>9, FinishFacts
  <2>5. CarriesNext(e, j) /\ DoneNext(e)
    BY <2>1, <2>2, <2>3, <2>4, CarriesKept, DoneKept
  <2>6. job'[j].requested <= raw'[job[j].day]
    <3>1. job[j].requested \in Nat
      BY <1>1, <2>1, ArchiveAssumption DEF TypeOK, Job
    <3>2. QED
      BY <2>2, <2>4, <3>1, AskedKept
  <2>7. JobInv(j)'
    <3>1. e # NoUpload
      BY ArchiveAssumption DEF Upload, NoUpload
    <3>2. QED
      BY <2>2, <2>4, <2>5, <2>6, <3>1 DEF JobInv, Carries, CarriesNext, Done, DoneNext
  <2>8. QED
    BY <2>1, <2>4, <2>7, OthersInv
<1>9. ASSUME NEW w \in Worker, StepFails(w) \/ AnswerLost(w)
      PROVE  \A i \in JobId : JobInv(i)'
  <2>1. worker[w].job \in JobId /\ job[worker[w].job].state = "running"
    BY <1>9, HoldsFacts DEF StepFails, AnswerLost
  <2>2. JobTo(worker[w].job, "failed")
    BY <1>1, <1>9, <2>1, JobFails DEF StepFails, AnswerLost
  <2>3. QED
    BY <2>1, <2>2, JobToInv
<1>10. ASSUME NEW w \in Worker, Poll(w) PROVE \A i \in JobId : JobInv(i)'
  BY <1>2, <1>3, <1>4, <1>6, <1>10
  DEF Poll, Enqueue, Take, RequestDirty, RequestScanned, CompleteScan, RequestNothing,
      ProducerBusy, ClaimNothing
<1>11. ASSUME NEW w \in Worker, Execute(w) PROVE \A i \in JobId : JobInv(i)'
  BY <1>2, <1>7, <1>8, <1>11
  DEF Execute, VerifyStored, ForgetStored, AbortPending, Extract, CheckpointPending,
      CheckpointStored, CompleteUpload, Publish, LeaseLost
<1>12. ASSUME NEW w \in Worker, Fault(w) PROVE \A i \in JobId : JobInv(i)'
  BY <1>2, <1>9, <1>12 DEF Fault, Crash
<1>13. CASE Telemetry \/ UNCHANGED vars \/ \E j \in JobId : FailureAges(j)
  BY <1>2, <1>13
  DEF Telemetry, NewDay, BeginChange, CommitChange, AbortChange, FailureAges, vars
<1>14. QED
  BY <1>5, <1>10, <1>11, <1>12, <1>13 DEF Next, Time
-----------------------------------------------------------------------------
(* The processes *)

LEMMA WorkerInvKept ==
  ASSUME IInv, TypeOK', Persists, NEW w \in Worker, worker'[w] = worker[w]
  PROVE  WorkerInv(w)'
<1>1. WorkerInv(w)
  BY DEF IInv
<1>2. worker[w].at \notin {"idle", "claim"} =>
        worker[w].job \in JobId /\ job'[worker[w].job].state # "none"
  BY <1>1 DEF WorkerInv, Persists, JobsKept
<1>3. worker[w].at \notin {"idle", "claim", "extract"} =>
        CarriesNext(worker[w].upload, worker[w].job)
  BY <1>1, CarriesKept DEF WorkerInv, Persists, JobsKept
<1>4. worker[w].at = "finish" => DoneNext(worker[w].upload)
  BY <1>1, DoneKept DEF WorkerInv, Carries
<1>5. QED
  BY <1>2, <1>3, <1>4 DEF WorkerInv, Carries, CarriesNext, Done, DoneNext

LEMMA WorkersInvSame ==
  ASSUME IInv, TypeOK', Persists, UNCHANGED worker
  PROVE  \A w \in Worker : WorkerInv(w)'
BY WorkerInvKept

LEMMA OtherWorkers ==
  ASSUME IInv, TypeOK', Persists, NEW w \in Worker, WorkerInv(w)',
         \A v \in Worker : v # w => worker'[v] = worker[v]
  PROVE  \A v \in Worker : WorkerInv(v)'
BY WorkerInvKept

(* A process goes from one point of an execution to another. *)
LEMMA GotoInv ==
  ASSUME IInv, TypeOK', Persists, NEW w \in Worker,
         NEW at \in {"extract", "upload", "complete", "publish", "finish"},
         worker[w].at \notin {"idle", "claim"},
         at # "extract" => worker[w].at # "extract",
         at = "finish" => DoneNext(worker[w].upload),
         Goto(w, at)
  PROVE  \A v \in Worker : WorkerInv(v)'
<1>1. /\ worker'[w].at = at
      /\ worker'[w].job = worker[w].job /\ worker'[w].upload = worker[w].upload
      /\ \A v \in Worker : v # w => worker'[v] = worker[v]
  BY GotoFacts DEF Goto, WorkerTo, IInv
<1>2. /\ worker[w].job \in JobId /\ job[worker[w].job].state # "none"
      /\ worker[w].at # "extract" => Carries(worker[w].upload, worker[w].job)
  BY ExecutionFacts
<1>3. job'[worker[w].job].state # "none"
  BY <1>2 DEF Persists, JobsKept
<1>4. at # "extract" => CarriesNext(worker[w].upload, worker[w].job)
  BY <1>2, CarriesKept DEF Persists, JobsKept
<1>5. WorkerInv(w)'
  BY <1>1, <1>2, <1>3, <1>4 DEF WorkerInv, Carries, CarriesNext, Done, DoneNext
<1>6. QED
  BY <1>1, <1>5, OtherWorkers

(* A process that is not executing afterwards. *)
LEMMA RestInv ==
  ASSUME IInv, TypeOK', Persists, NEW w \in Worker, worker'[w].at \in {"idle", "claim"},
         \A v \in Worker : v # w => worker'[v] = worker[v]
  PROVE  \A v \in Worker : WorkerInv(v)'
<1>1. WorkerInv(w)'
  BY DEF WorkerInv
<1>2. QED
  BY <1>1, OtherWorkers

LEMMA StepWorkers ==
  ASSUME IInv, TypeOK', Persists, [Next]_vars
  PROVE  \A w \in Worker : WorkerInv(w)'
<1>1. TypeOK
  BY DEF IInv
<1>2. CASE UNCHANGED worker
  BY <1>2, WorkersInvSame
<1>3. ASSUME NEW w \in Worker, NEW at \in {"idle", "claim"},
             worker' = [worker EXCEPT ![w].at = at] \/ worker' = [worker EXCEPT ![w] = Idle]
      PROVE  \A v \in Worker : WorkerInv(v)'
  <2>1. worker'[w].at \in {"idle", "claim"}
    BY <1>1, <1>3, GotoFacts, IdleFacts
  <2>2. \A v \in Worker : v # w => worker'[v] = worker[v]
    BY <1>1, <1>3 DEF TypeOK
  <2>3. QED
    BY <2>1, <2>2, RestInv
<1>4. ASSUME NEW w \in Worker, NEW j \in JobId, Claim(w, j)
      PROVE  \A v \in Worker : WorkerInv(v)'
  <2>1. /\ worker'[w].job = j /\ worker'[w].upload = job[j].upload
        /\ worker'[w].at = Entry(j) /\ Entry(j) \in {"verify", "abort", "extract"}
        /\ JobTo(j, "running")
    BY <1>1, <1>4, ClaimFacts
  <2>2. \A v \in Worker : v # w => worker'[v] = worker[v]
    BY <1>1, <1>4 DEF TypeOK, Claim
  <2>3. Entry(j) # "extract" => job[j].upload # NoUpload
    BY DEF Entry, IInv, JobInv
  <2>4. Entry(j) # "extract" => CarriesNext(job[j].upload, j)
    BY <2>1, <2>3, CarriesKept DEF IInv, JobInv, JobTo
  <2>5. WorkerInv(w)'
    BY <2>1, <2>4 DEF WorkerInv, Carries, CarriesNext, JobTo
  <2>6. QED
    BY <2>2, <2>5, OtherWorkers
<1>5. ASSUME NEW w \in Worker, Extract(w)
      PROVE  \A v \in Worker : WorkerInv(v)'
  <2>1. PICK j \in JobId : j = worker[w].job /\ job[j].state # "none" /\ job[j].day \in Day
                           /\ job[j].requested <= raw[job[j].day]
    BY <1>5, ExecutionFacts DEF Extract
  <2>2. PICK e \in Upload :
          /\ object'[e].state = "uploading" /\ object'[e].day = job[j].day
          /\ object'[e].version = raw[job[j].day] /\ worker'[w].upload = e
    BY <1>1, <1>5, <2>1, ExtractFacts
  <2>3. worker'[w].at = "checkpoint" /\ worker'[w].job = j
    BY <1>1, <1>5, <2>1, ExtractFacts
  <2>4. job' = job
    BY <1>5 DEF Extract
  <2>5. \A v \in Worker : v # w => worker'[v] = worker[v]
    BY <1>1, <1>5 DEF TypeOK, Extract
  <2>6. CarriesNext(e, j)
    BY <2>1, <2>2, <2>4 DEF CarriesNext
  <2>7. WorkerInv(w)'
    BY <2>1, <2>2, <2>3, <2>4, <2>6 DEF WorkerInv, Carries, CarriesNext
  <2>8. QED
    BY <2>5, <2>7, OtherWorkers
<1>6. ASSUME NEW w \in Worker, Publish(w)
      PROVE  \A v \in Worker : WorkerInv(v)'
  <2>1. worker[w].upload \in Upload
    BY <1>6, ExecutionFacts DEF Publish
  <2>2. DoneNext(worker[w].upload)
    BY <1>1, <1>6, <2>1 DEF Publish, DoneNext, TypeOK
  <2>3. QED
    BY <1>6, <2>2, GotoInv DEF Publish
<1>7. ASSUME NEW w \in Worker,
             VerifyStored(w) \/ ForgetStored(w) \/ AbortPending(w)
             \/ CheckpointPending(w) \/ CheckpointStored(w) \/ CompleteUpload(w)
      PROVE  \A v \in Worker : WorkerInv(v)'
  BY <1>7, GotoInv DEF VerifyStored, ForgetStored, AbortPending, CheckpointPending,
                       CheckpointStored, CompleteUpload
<1>8. ASSUME NEW w \in Worker, Finish(w) \/ LeaseLost(w) \/ Fault(w)
      PROVE  \A v \in Worker : WorkerInv(v)'
  BY <1>3, <1>8 DEF Finish, LeaseLost, Fault, StepFails, AnswerLost, Crash
<1>9. ASSUME NEW w \in Worker, Poll(w) PROVE \A v \in Worker : WorkerInv(v)'
  BY <1>3, <1>4, <1>9
  DEF Poll, Enqueue, Take, RetryFailed, RequestDirty, RequestScanned, Request, CompleteScan,
      RequestNothing, ProducerBusy, ClaimNothing
<1>10. CASE Telemetry \/ Time \/ UNCHANGED vars
  BY <1>2, <1>10
  DEF Telemetry, NewDay, BeginChange, CommitChange, AbortChange, Time, LeaseExpires,
      FailureAges, vars
<1>11. QED
  BY <1>5, <1>6, <1>7, <1>8, <1>9, <1>10 DEF Next, Execute

-----------------------------------------------------------------------------
(* The catalog *)

LEMMA StepCatalog ==
  ASSUME IInv, TypeOK', Persists, [Next]_vars
  PROVE  CatalogIsSound'
<1>1. TypeOK /\ CatalogIsSound
  BY DEF IInv
<1>2. CASE UNCHANGED generation
  <2> SUFFICES ASSUME NEW e \in Upload, generation[e] > 0
               PROVE  /\ object'[e].state = "complete"
                      /\ \A f \in Upload \ {e} :
                           object'[f].day = object'[e].day => generation[f] # generation[e]
                      /\ generation[e] > 1 =>
                           \E f \in Upload : object'[f].day = object'[e].day
                                               /\ generation[f] = generation[e] - 1
    BY <1>2 DEF CatalogIsSound
  <2>1. \A f \in Upload : generation[f] > 0 =>
          /\ object[f].state = "complete" /\ object'[f].state = "complete"
          /\ object'[f].day = object[f].day
    BY <1>1 DEF CatalogIsSound, Persists, UploadsKept
  <2>2. \A f \in Upload \ {e} : object'[f].day = object'[e].day => generation[f] # generation[e]
    BY <1>1, <2>1 DEF CatalogIsSound
  <2>3. ASSUME generation[e] > 1
        PROVE  \E f \in Upload : object'[f].day = object'[e].day
                                    /\ generation[f] = generation[e] - 1
    <3>1. PICK f \in Upload : object[f].day = object[e].day /\ generation[f] = generation[e] - 1
      BY <1>1, <2>3 DEF CatalogIsSound
    <3>2. generation[e] \in Nat /\ generation[f] > 0
      BY <1>1, <2>3, <3>1, ArchiveAssumption DEF TypeOK
    <3>3. QED
      BY <2>1, <3>1, <3>2
  <2>4. QED
    BY <2>1, <2>2, <2>3
<1>3. ASSUME NEW w \in Worker, Publish(w), generation' # generation
      PROVE  CatalogIsSound'
  <2>1. PICK e \in Upload : e = worker[w].upload
    BY <1>3, ExecutionFacts DEF Publish
  <2>2. PICK g \in 1 .. MaxObject :
          /\ \A h \in Generations(object[e].day) : h < g
          /\ g - 1 \in Generations(object[e].day) \cup {0}
          /\ generation' = [generation EXCEPT ![e] = g]
    BY <1>3, <2>1 DEF Publish
  <2>3. object[e].state = "complete" /\ object' = object
    BY <1>3, <2>1 DEF Publish
  <2>4. \A f \in Upload : object[f].day = object[e].day => generation[f] < g
    BY <2>2 DEF Generations
  <2>5. g > 1 => \E f \in Upload : object[f].day = object[e].day /\ generation[f] = g - 1
    BY <2>2, ArchiveAssumption DEF Generations
  <2>6. /\ generation \in [Upload -> 0 .. MaxObject]
        /\ generation'[e] = g /\ \A f \in Upload : f # e => generation'[f] = generation[f]
        /\ \A f \in Upload : generation[f] \in Nat
        /\ g \in Nat
    BY <1>1, <2>2, ArchiveAssumption DEF TypeOK
  <2>7. generation[e] = 0
    BY <1>1, <1>3, <2>1, <2>6 DEF Publish
  <2>8. ASSUME NEW c \in Upload, generation'[c] > 0
        PROVE  /\ object[c].state = "complete"
               /\ \A f \in Upload \ {c} :
                    object[f].day = object[c].day => generation'[f] # generation'[c]
               /\ generation'[c] > 1 =>
                    \E f \in Upload : object[f].day = object[c].day
                                        /\ generation'[f] = generation'[c] - 1
    <3>1. CASE c = e
      <4>1. \A f \in Upload \ {c} : object[f].day = object[c].day => generation'[f] # generation'[c]
        BY <2>4, <2>6, <3>1
      <4>2. ASSUME g > 1
            PROVE  \E f \in Upload : object[f].day = object[c].day /\ generation'[f] = generation'[c] - 1
        <5>1. PICK f \in Upload : object[f].day = object[e].day /\ generation[f] = g - 1
          BY <2>5, <4>2
        <5>2. f # e
          BY <2>6, <2>7, <4>2, <5>1
        <5>3. QED
          BY <2>6, <3>1, <5>1, <5>2
      <4>3. QED
        BY <2>3, <2>6, <3>1, <4>1, <4>2
    <3>2. CASE c # e
      <4>1. generation'[c] = generation[c] /\ generation[c] > 0
        BY <2>6, <2>8, <3>2
      <4>2. object[c].state = "complete"
        BY <1>1, <4>1 DEF CatalogIsSound
      <4>3. ASSUME NEW f \in Upload \ {c}, object[f].day = object[c].day
            PROVE  generation'[f] # generation'[c]
        <5>1. CASE f = e
          BY <2>4, <2>6, <4>1, <4>3, <5>1
        <5>2. CASE f # e
          BY <1>1, <2>6, <4>1, <4>3, <5>2 DEF CatalogIsSound
        <5>3. QED
          BY <5>1, <5>2
      <4>4. ASSUME generation[c] > 1
            PROVE  \E f \in Upload : object[f].day = object[c].day /\ generation'[f] = generation'[c] - 1
        <5>1. PICK f \in Upload : object[f].day = object[c].day /\ generation[f] = generation[c] - 1
          BY <1>1, <4>1, <4>4 DEF CatalogIsSound
        <5>2. f # e
          BY <2>6, <2>7, <4>4, <5>1
        <5>3. QED
          BY <2>6, <4>1, <5>1, <5>2
      <4>5. QED
        BY <4>1, <4>2, <4>3, <4>4
    <3>3. QED
      BY <3>1, <3>2
  <2>9. QED
    BY <2>3, <2>8 DEF CatalogIsSound
<1>4. UNCHANGED generation \/ \E w \in Worker : Publish(w)
  BY DEF Next, Telemetry, Time, Poll, Enqueue, Take, Execute, Fault, NewDay, BeginChange, CommitChange,
         AbortChange, LeaseExpires, FailureAges, RetryFailed, Claim, RequestDirty,
         RequestScanned, Request, CompleteScan, RequestNothing, ProducerBusy,
         ClaimNothing, VerifyStored, ForgetStored, AbortPending, Extract, CheckpointPending, CheckpointStored,
         CompleteUpload, Finish, LeaseLost, StepFails, AnswerLost, Crash, storeVars, vars
<1>5. QED
  BY <1>2, <1>3, <1>4
-----------------------------------------------------------------------------
(* The changes *)

LEMMA StepRows ==
  ASSUME IInv, TypeOK', Persists, [Next]_vars
  PROVE  \A d \in Day : RowsInv(d)'
<1>1. TypeOK /\ \A d \in Day : RowsInv(d) /\ noted[d] \in Nat /\ raw[d] \in Nat
  BY ArchiveAssumption DEF IInv, TypeOK
<1>2. CASE UNCHANGED <<raw, open, noted>>
  BY <1>1, <1>2 DEF RowsInv
<1>3. ASSUME NEW d \in Day, BeginChange(d) \/ AbortChange(d)
      PROVE  \A e \in Day : RowsInv(e)'
  BY <1>1, <1>3 DEF BeginChange, AbortChange, RowsInv, TypeOK
<1>4. ASSUME NEW d \in Day, CommitChange(d)
      PROVE  \A e \in Day : RowsInv(e)'
  <2>1. /\ open' = [open EXCEPT ![d] = "none"] /\ open'[d] = "none"
        /\ raw' = [raw EXCEPT ![d] = raw[d] + 1] /\ raw'[d] = raw[d] + 1
        /\ \/ noted' = noted
           \/ noted' = [noted EXCEPT ![d] = raw[d] + 1] /\ noted'[d] = raw[d] + 1
    BY <1>1, <1>4 DEF CommitChange, TypeOK
  <2>2. RowsInv(d)'
    BY <1>1, <2>1 DEF RowsInv
  <2>3. ASSUME NEW e \in Day, e # d PROVE RowsInv(e)'
    <3>1. open'[e] = open[e] /\ raw'[e] = raw[e] /\ noted'[e] = noted[e]
      BY <1>1, <2>1, <2>3 DEF TypeOK
    <3>2. QED
      BY <1>1, <3>1 DEF RowsInv
  <2>4. QED
    BY <2>2, <2>3
<1>5. UNCHANGED <<raw, open, noted>> \/ Telemetry
  <2>1. ASSUME NEW w \in Worker, Poll(w) PROVE UNCHANGED telemetryVars
    BY <2>1 DEF Poll, Enqueue, Take, RetryFailed, Claim, RequestDirty, RequestScanned, Request,
                CompleteScan, RequestNothing, ProducerBusy, ClaimNothing
  <2>2. ASSUME NEW w \in Worker, Execute(w) PROVE UNCHANGED telemetryVars
    BY <2>2 DEF Execute, VerifyStored, ForgetStored, AbortPending, Extract,
                CheckpointPending, CheckpointStored, CompleteUpload, Publish, Finish, LeaseLost
  <2>3. ASSUME NEW w \in Worker, Fault(w) PROVE UNCHANGED telemetryVars
    BY <2>3 DEF Fault, StepFails, AnswerLost, Crash
  <2>4. CASE Time
    BY <2>4 DEF Time, LeaseExpires, FailureAges, telemetryVars
  <2>5. QED
    BY <2>1, <2>2, <2>3, <2>4 DEF Next, telemetryVars, vars
<1>6. QED
  BY <1>2, <1>3, <1>4, <1>5 DEF Telemetry, NewDay

ArchivedNext(d, v) ==
  \E e \in Upload : generation'[e] > 0 /\ object'[e].day = d /\ object'[e].version >= v

PendingNext(d, v) ==
  \E j \in JobId : job'[j].day = d /\ job'[j].state \notin {"none", "ready"}
                      /\ job'[j].requested >= v

LEMMA ArchivedKept ==
  ASSUME IInv, Persists, NEW d, NEW v, Archived(d, v)
  PROVE  ArchivedNext(d, v)
BY DEF IInv, CatalogIsSound, Persists, UploadsKept, Archived, ArchivedNext

(* Markers and jobs stay, or are replaced by what they stand for. *)
LEMMA NotedKept ==
  ASSUME IInv, Persists, UNCHANGED noted,
         \A d \in Day : noted[d] > 0 /\ d \in dirty /\ d \notin dirty' => PendingNext(d, noted[d]),
         \A j \in JobId : job'[j].state = "ready" => job[j].state = "ready"
  PROVE  NoMarkedChangeIsForgotten'
<1> SUFFICES ASSUME NEW d \in Day, noted[d] > 0
             PROVE  d \in dirty' \/ ArchivedNext(d, noted[d]) \/ PendingNext(d, noted[d])
  BY DEF NoMarkedChangeIsForgotten, Archived, ArchivedNext, Pending, PendingNext
<1>1. d \in dirty \/ Archived(d, noted[d]) \/ Pending(d, noted[d])
  BY DEF IInv, NoMarkedChangeIsForgotten
<1>2. CASE Pending(d, noted[d])
  BY <1>2 DEF Pending, PendingNext, Persists, JobsKept
<1>3. QED
  BY <1>1, <1>2, ArchivedKept

LEMMA StepNoted ==
  ASSUME IInv, TypeOK', Persists, [Next]_vars
  PROVE  NoMarkedChangeIsForgotten'
<1>1. TypeOK
  BY DEF IInv
<1>2. CASE UNCHANGED <<noted, dirty, job>>
  BY <1>2, NotedKept
<1>3. ASSUME NEW d \in Day, CommitChange(d)
      PROVE  NoMarkedChangeIsForgotten'
  <2> SUFFICES ASSUME NEW e \in Day, noted'[e] > 0
               PROVE  e \in dirty' \/ ArchivedNext(e, noted'[e]) \/ PendingNext(e, noted'[e])
    BY DEF NoMarkedChangeIsForgotten, Archived, ArchivedNext, Pending, PendingNext
  <2>1. e \in dirty => e \in dirty'
    BY <1>3 DEF CommitChange
  <2>2. CASE e \in dirty'
    BY <2>2
  <2>3. CASE e \notin dirty'
    <3>1. noted'[e] = noted[e] /\ UNCHANGED <<job, storeVars>>
      BY <1>1, <1>3, <2>3 DEF CommitChange, TypeOK
    <3>2. Archived(e, noted[e]) \/ Pending(e, noted[e])
      BY <2>1, <2>3, <3>1 DEF IInv, NoMarkedChangeIsForgotten
    <3>3. QED
      BY <3>1, <3>2 DEF Archived, ArchivedNext, Pending, PendingNext, storeVars
  <2>4. QED
    BY <2>2, <2>3
<1>4. ASSUME NEW w \in Worker, NEW d \in Day, Request(w, d)
      PROVE  NoMarkedChangeIsForgotten'
  <2>1. PICK j \in JobId :
          /\ job[j].state = "none" /\ Others(j)
          /\ job'[j].state = "queued" /\ job'[j].day = d /\ job'[j].requested = raw[d]
    BY <1>1, <1>4, RequestFacts
  <2>2. PendingNext(d, noted[d])
    <3>1. noted[d] <= raw[d] /\ noted[d] \in Nat /\ raw[d] \in Nat
      BY <1>1, ArchiveAssumption DEF IInv, RowsInv, TypeOK
    <3>2. QED
      BY <2>1, <3>1 DEF PendingNext
  <2>3. \A i \in JobId : job'[i].state = "ready" => job[i].state = "ready"
    BY <2>1 DEF Others
  <2>4. dirty' = dirty \ {d} /\ UNCHANGED noted
    BY <1>4 DEF Request, telemetryVars
  <2>5. QED
    BY <2>2, <2>3, <2>4, NotedKept
<1>5. ASSUME NEW w \in Worker, Finish(w)
      PROVE  NoMarkedChangeIsForgotten'
  <2>1. PICK j \in JobId : j = worker[w].job
    BY <1>5, ExecutionFacts DEF Finish
  <2>2. PICK u \in Upload : u = worker[w].upload
    BY <1>5, ExecutionFacts DEF Finish
  <2>3. Carries(u, j) /\ Done(u)
    BY <1>5, <2>1, <2>2 DEF IInv, WorkerInv, Finish
  <2>4. Others(j)
    BY <1>1, <1>5, <2>1, FinishFacts
  <2>5. UNCHANGED <<noted, dirty, storeVars>>
    BY <1>5 DEF Finish, telemetryVars
  <2> SUFFICES ASSUME NEW d \in Day, noted[d] > 0
               PROVE  d \in dirty \/ ArchivedNext(d, noted[d]) \/ PendingNext(d, noted[d])
    BY <2>5 DEF NoMarkedChangeIsForgotten, Archived, ArchivedNext, Pending, PendingNext
  <2>6. d \in dirty \/ Archived(d, noted[d]) \/ Pending(d, noted[d])
    BY DEF IInv, NoMarkedChangeIsForgotten
  <2>7. ASSUME NEW i \in JobId, job[i].day = d, job[i].state \notin {"none", "ready"},
               job[i].requested >= noted[d]
        PROVE  ArchivedNext(d, noted[d]) \/ PendingNext(d, noted[d])
    <3>1. CASE i = j
      <4>1. object[u].version >= noted[d]
        <5>1. /\ object[u].version \in Nat /\ job[j].requested \in Nat /\ noted[d] \in Nat
          <6>1. /\ object[u].version \in 0 .. MaxVersion
                /\ job[j].requested \in 0 .. MaxVersion
                /\ noted[d] \in 0 .. MaxVersion
            BY <1>1 DEF TypeOK, Object, Job
          <6>2. QED
            BY <6>1, ArchiveAssumption
        <5>2. QED
          BY <2>3, <2>7, <3>1, <5>1 DEF Carries
      <4>2. QED
        BY <2>3, <2>5, <2>7, <3>1, <4>1 DEF Carries, Done, ArchivedNext, storeVars
    <3>2. CASE i # j
      BY <2>4, <2>7, <3>2 DEF Others, PendingNext
    <3>3. QED
      BY <3>1, <3>2
  <2>8. QED
    BY <2>6, <2>7, ArchivedKept DEF Pending
<1>6. ASSUME NEW j \in JobId, NEW s \in {"queued", "running", "failed"}, JobTo(j, s),
             UNCHANGED <<noted, dirty>>
      PROVE  NoMarkedChangeIsForgotten'
  BY <1>6, NotedKept DEF JobTo, Others
<1>7. ASSUME NEW w \in Worker, Poll(w) PROVE NoMarkedChangeIsForgotten'
  <2>1. ASSUME NEW j \in JobId, RetryFailed(w, j) \/ Claim(w, j)
        PROVE  NoMarkedChangeIsForgotten'
    <3>1. JobTo(j, "queued") \/ JobTo(j, "running")
      BY <1>1, <2>1, RetryFailedFacts, ClaimFacts
    <3>2. UNCHANGED <<noted, dirty>>
      BY <2>1 DEF RetryFailed, Claim, telemetryVars
    <3>3. QED
      BY <1>6, <3>1, <3>2
  <2>2. QED
    BY <1>2, <1>4, <1>7, <2>1
    DEF Poll, Enqueue, Take, RequestDirty, RequestScanned, CompleteScan, RequestNothing, ProducerBusy, ClaimNothing,
        telemetryVars
<1>8. ASSUME NEW w \in Worker, NEW stored \in BOOLEAN, Save(w, stored),
             UNCHANGED <<noted, dirty>>
      PROVE  NoMarkedChangeIsForgotten'
  <2>1. PICK j \in JobId : j = worker[w].job
    BY <1>8, HoldsFacts DEF Save
  <2>2. Others(j) /\ job'[j].state = job[j].state
    BY <1>1, <1>8, <2>1, SaveFacts
  <2>3. QED
    BY <1>8, <2>2, NotedKept DEF Others
<1>9. ASSUME NEW w \in Worker, Execute(w) PROVE NoMarkedChangeIsForgotten'
  BY <1>2, <1>5, <1>8, <1>9
  DEF Execute, VerifyStored, ForgetStored, AbortPending, Extract, CheckpointPending,
      CheckpointStored, CompleteUpload, Publish, LeaseLost, telemetryVars
<1>10. ASSUME NEW w \in Worker, StepFails(w) \/ AnswerLost(w)
       PROVE  NoMarkedChangeIsForgotten'
  <2>1. worker[w].job \in JobId
    BY <1>10, HoldsFacts DEF StepFails, AnswerLost
  <2>2. JobTo(worker[w].job, "failed")
    BY <1>1, <1>10, <2>1, JobFails DEF StepFails, AnswerLost
  <2>3. UNCHANGED <<noted, dirty>>
    BY <1>10 DEF StepFails, AnswerLost, telemetryVars
  <2>4. QED
    BY <1>6, <2>1, <2>2, <2>3
<1>11. CASE Time
  <2>1. ASSUME NEW j \in JobId, LeaseExpires(j)
        PROVE  NoMarkedChangeIsForgotten'
    <3>1. JobTo(j, "running")
      BY <1>1, <2>1, LeaseExpiresFacts
    <3>2. UNCHANGED <<noted, dirty>>
      BY <2>1 DEF LeaseExpires, telemetryVars
    <3>3. QED
      BY <1>6, <3>1, <3>2
  <2>2. ASSUME NEW j \in JobId, FailureAges(j)
        PROVE  NoMarkedChangeIsForgotten'
    BY <1>2, <2>2 DEF FailureAges, telemetryVars
  <2>3. QED
    BY <1>11, <2>1, <2>2 DEF Time
<1>12. CASE Telemetry \/ UNCHANGED vars
  BY <1>2, <1>3, <1>12 DEF Telemetry, NewDay, BeginChange, AbortChange, vars
<1>13. QED
  BY <1>2, <1>7, <1>9, <1>10, <1>11, <1>12 DEF Next, Fault, Crash, telemetryVars

-----------------------------------------------------------------------------
(* Theorems *)

LEMMA StepInvariant == IInv /\ [Next]_vars => IInv'
<1> SUFFICES ASSUME IInv, [Next]_vars PROVE IInv'
  OBVIOUS
<1>1. TypeOK' /\ Persists
  BY StepPersists
<1>2. QED
  BY <1>1, StepJobs, StepWorkers, StepCatalog, StepRows, StepNoted DEF IInv

(* The jobs, the uploads, the catalog and the processes fit together in every
   reachable state. *)
THEOREM InvariantHolds == Spec => []IInv
BY InitInvariant, StepInvariant, PTL DEF Spec

(* Every variable has its type; no job has more than MaxAttempt attempts. *)
THEOREM TypeCorrect == Spec => []TypeOK
<1>1. IInv => TypeOK
  BY DEF IInv
<1>2. QED
  BY <1>1, InvariantHolds, PTL

(* A job that is ready has its rows in the catalog. *)
THEOREM ReadyArchived == Spec => []ReadyIsArchived
<1>1. IInv => ReadyIsArchived
  <2> SUFFICES ASSUME IInv, NEW j \in JobId, job[j].state = "ready"
               PROVE  /\ job[j].key # NoUpload
                      /\ object[job[j].key].state = "complete"
                      /\ object[job[j].key].day = job[j].day
                      /\ object[job[j].key].version >= job[j].requested
                      /\ generation[job[j].key] > 0
    BY DEF ReadyIsArchived
  <2>1. Carries(job[j].key, j) /\ Done(job[j].key)
    BY DEF IInv, JobInv
  <2>2. QED
    BY <2>1, ArchiveAssumption DEF Carries, Done, Upload, NoUpload
<1>2. QED
  BY <1>1, InvariantHolds, PTL

(* The catalog has only complete uploads and numbers a day's without gaps. *)
THEOREM CatalogSound == Spec => []CatalogIsSound
<1>1. IInv => CatalogIsSound
  BY DEF IInv
<1>2. QED
  BY <1>1, InvariantHolds, PTL

(* What was marked is not forgotten. *)
THEOREM MarkedChangesKept == Spec => []NoMarkedChangeIsForgotten
<1>1. IInv => NoMarkedChangeIsForgotten
  BY DEF IInv
<1>2. QED
  BY <1>1, InvariantHolds, PTL
(* No step changes a job that is ready. *)
LEMMA ReadyStep ==
  ASSUME TypeOK, IInv, [Next]_vars, NEW j \in JobId, job[j].state = "ready"
  PROVE  job'[j] = job[j]
<1>1. ASSUME NEW i \in JobId, Others(i), job[i].state # "ready" PROVE job'[j] = job[j]
  BY <1>1 DEF Others
<1>2. ASSUME NEW w \in Worker, Holds(w) PROVE worker[w].job \in JobId /\ job[worker[w].job].state # "ready"
  BY <1>2, HoldsFacts DEF Holds
<1>3. ASSUME NEW w \in Worker, Poll(w) PROVE job'[j] = job[j]
  <2>1. ASSUME NEW i \in JobId, RetryFailed(w, i) PROVE job'[j] = job[j]
    <3>1. Others(i) /\ job[i].state # "ready"
      BY <2>1, RetryFailedFacts DEF JobTo, RetryFailed, Retryable
    <3>2. QED
      BY <1>1, <3>1
  <2>2. ASSUME NEW i \in JobId, Claim(w, i) PROVE job'[j] = job[j]
    <3>1. Others(i) /\ job[i].state # "ready"
      BY <2>2, ClaimFacts DEF JobTo, Claim, Claimable
    <3>2. QED
      BY <1>1, <3>1
  <2>3. ASSUME NEW d \in Day, Request(w, d) PROVE job'[j] = job[j]
    <3>1. PICK i \in JobId : job[i].state = "none" /\ Others(i)
      BY <2>3, RequestFacts
    <3>2. QED
      BY <1>1, <3>1
  <2>4. QED
    BY <1>3, <2>1, <2>2, <2>3
    DEF Poll, Enqueue, Take, RequestDirty, RequestScanned, CompleteScan, RequestNothing, ProducerBusy, ClaimNothing
<1>4. ASSUME NEW w \in Worker, Execute(w) PROVE job'[j] = job[j]
  <2>1. ASSUME NEW stored \in BOOLEAN, Save(w, stored) PROVE job'[j] = job[j]
    <3>1. Holds(w)
      BY <2>1 DEF Save
    <3>2. Others(worker[w].job)
      BY <1>2, <2>1, <3>1, SaveFacts
    <3>3. QED
      BY <1>1, <1>2, <3>1, <3>2
  <2>2. ASSUME Finish(w) PROVE job'[j] = job[j]
    <3>1. Holds(w)
      BY <2>2 DEF Finish
    <3>2. Others(worker[w].job)
      BY <1>2, <2>2, <3>1, FinishFacts
    <3>3. QED
      BY <1>1, <1>2, <3>1, <3>2
  <2>3. QED
    BY <1>4, <2>1, <2>2
    DEF Execute, VerifyStored, ForgetStored, AbortPending, Extract, CheckpointPending,
        CheckpointStored, CompleteUpload, Publish, LeaseLost
<1>5. ASSUME NEW w \in Worker, StepFails(w) \/ AnswerLost(w) PROVE job'[j] = job[j]
  <2>1. Holds(w)
    BY <1>5 DEF StepFails, AnswerLost
  <2>2. Others(worker[w].job)
    BY <1>2, <1>5, <2>1, JobFails DEF StepFails, AnswerLost, JobTo
  <2>3. QED
    BY <1>1, <1>2, <2>1, <2>2
<1>6. ASSUME NEW i \in JobId, LeaseExpires(i) PROVE job'[j] = job[j]
  <2>1. Others(i) /\ job[i].state # "ready"
    BY <1>6, LeaseExpiresFacts DEF JobTo, LeaseExpires
  <2>2. QED
    BY <1>1, <2>1
<1>7. CASE Telemetry \/ UNCHANGED vars \/ \E i \in JobId : FailureAges(i)
  BY <1>7
  DEF Telemetry, NewDay, BeginChange, CommitChange, AbortChange, FailureAges, vars
<1>8. QED
  BY <1>3, <1>4, <1>5, <1>6, <1>7 DEF Next, Fault, Crash, Time

(* No process that was overtaken, failure or retry takes a ready job back. *)
THEOREM ReadyFinal == Spec => ReadyIsFinal
<1>1. IInv /\ [Next]_vars => [\A j \in JobId : job[j].state = "ready" => job'[j] = job[j]]_vars
  BY ReadyStep DEF IInv
<1>2. QED
  BY <1>1, InvariantHolds, PTL DEF Spec, ReadyIsFinal
=============================================================================
