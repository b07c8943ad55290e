--------------------------- MODULE MonthlyBilling ---------------------------
(* The monthly run that prepares the bill of every site and month
   (financial-scheduler.ts, FinancialApplicationService.monthly), by several
   replicas of the API at once, while staff calculate, prepare, reject, approve
   and reopen the same bills.

   A job of financial_month_jobs stands for one energy bill.  The run is not a
   transaction: it selects jobs, reads the status of a bill, calculates, prepares
   and closes the job in statements of their own, between which others act.  The
   transactions it calls are actions of BillingCycle.

   Left out: staff notices (unique per job and kind), the Bangkok cutoff hour and
   the order of the jobs of a run. *)
EXTENDS BillingCycle

CONSTANTS
  Replica,     \* API processes, each with a FinancialScheduler
  NoBill,
  MaxFaults    \* bound: refused or failed calls, and ends of a run or process

ASSUME MonthAssumption == NoBill \notin Cycle /\ MaxFaults \in Nat

VARIABLES
  job,       \* financial_month_jobs.state; "none" before the row exists
  replica,   \* the run of a process
  faults     \* bound

runVars   == <<job, replica, faults>>
monthVars == <<vars, runVars>>

Energy == Cycle \ Manual

Run ==
  [at: {"idle", "next", "calculate", "check", "prepare", "close", "failed"},
   todo: SUBSET Energy, bill: Energy \cup {NoBill}]

MonthTypeOK ==
  /\ TypeOK
  /\ job \in [Energy -> {"none", "pending", "blocked", "done"}]
  /\ replica \in [Replica -> Run]
  /\ \A r \in Replica : replica[r].at \notin {"idle", "next"} => replica[r].bill # NoBill
  /\ faults \in 0 .. MaxFaults

Idle == [at |-> "idle", todo |-> {}, bill |-> NoBill]

MonthInit ==
  /\ Init
  /\ job = [c \in Energy |-> "none"]
  /\ replica = [r \in Replica |-> Idle]
  /\ faults = 0

-----------------------------------------------------------------------------
Issued == {"approved", "pending_verification", "partially_paid", "paid"}

(* Mutant: a job that was blocked is not selected again. *)
WaitingNew(j) == {c \in Energy : j[c] = "pending"}

Waiting(j) == {c \in Energy : j[c] \in {"pending", "blocked"}}

(* tick and the first statements of monthly: the job of a month that ended is
   created once, and the jobs to do are selected.  A blocked one is selected when
   its hour is over: later is the set of those that have to wait.  A process that
   is in a run starts no other. *)
Tick(r, month, later) ==
  LET jobs == [job EXCEPT ![month] = IF @ = "none" THEN "pending" ELSE @] IN
  /\ replica[r].at = "idle"
  /\ Waiting(jobs) \ later # {}
  /\ job' = jobs
  /\ replica' = [replica EXCEPT ![r] = [at |-> "next", todo |-> Waiting(jobs) \ later,
                                        bill |-> NoBill]]
  /\ UNCHANGED <<vars, faults>>

Blocked == {c \in Energy : job[c] = "blocked"}

(* Where the run goes on with a bill of the status it read. *)
After(state) ==
  CASE state = "none" -> "calculate"
    [] state \in Issued -> "check"
    [] OTHER -> "prepare"

(* The bill of the next job is read. *)
ReadBill(r, c) ==
  /\ replica[r].at = "next"
  /\ c \in replica[r].todo
  /\ replica' = [replica EXCEPT ![r] = [at |-> After(status[c]), todo |-> @.todo \ {c},
                                        bill |-> c]]
  /\ UNCHANGED <<vars, job, faults>>

GoTo(r, at) == replica' = [replica EXCEPT ![r].at = at]

(* calculate, which answers with the bill that others calculated meanwhile. *)
CalculateBill(r) ==
  LET c == replica[r].bill IN
  /\ replica[r].at = "calculate"
  /\ \/ \E a \in Amount : Calculate(c, a)
     \/ status[c] # "none" /\ UNCHANGED vars
  /\ GoTo(r, After(status'[c]))
  /\ UNCHANGED <<job, faults>>

CheckCurrent(r) ==
  LET c == replica[r].bill IN
  /\ replica[r].at = "check"
  /\ GoTo(r, IF Cardinality(CurrentInvoices(c)) = 1 THEN "close" ELSE "failed")
  /\ UNCHANGED <<vars, job, faults>>

(* Mutant: the status that was read decides, not the one in the row. *)
PrepareAsRead(r) ==
  LET c == replica[r].bill IN
  /\ replica[r].at = "prepare"
  /\ Gate(c)
  /\ SetStatus(c, "pending_issue_approval")
  /\ UNCHANGED <<settings, terms, invoices, draft, review, payment>>
  /\ GoTo(r, "close")
  /\ UNCHANGED <<job, faults>>

(* prepareInvoice, which looks at the row again under its lock: it prepares the
   bill, finds it prepared, or refuses. *)
PrepareBill(r) ==
  LET c == replica[r].bill IN
  /\ replica[r].at = "prepare"
  /\ \/ PrepareInvoice(c) /\ GoTo(r, "close")
     \/ /\ status[c] = "pending_issue_approval" /\ Gate(c)
        /\ GoTo(r, "close") /\ UNCHANGED vars
     \/ /\ status[c] \in Issued \/ ~Gate(c)
        /\ GoTo(r, "failed") /\ UNCHANGED vars
  /\ UNCHANGED <<job, faults>>

(* The end of a job: of one that went well, whatever became of it. *)
Close(r) ==
  /\ replica[r].at = "close"
  /\ job' = [job EXCEPT ![replica[r].bill] = "done"]
  /\ GoTo(r, "next")
  /\ UNCHANGED <<vars, faults>>

(* Mutant: a failure is recorded over what another replica completed. *)
BlockAnyway(r) ==
  /\ replica[r].at = "failed"
  /\ job' = [job EXCEPT ![replica[r].bill] = "blocked"]
  /\ GoTo(r, "next")
  /\ UNCHANGED <<vars, faults>>

(* The catch: WHERE state<>'done'. *)
Block(r) ==
  /\ replica[r].at = "failed"
  /\ job' = [job EXCEPT ![replica[r].bill] = IF @ = "done" THEN @ ELSE "blocked"]
  /\ GoTo(r, "next")
  /\ UNCHANGED <<vars, faults>>

EndRun(r) ==
  /\ replica[r].at = "next" /\ replica[r].todo = {}
  /\ replica' = [replica EXCEPT ![r] = Idle]
  /\ UNCHANGED <<vars, job, faults>>

(* A reading is missing, readiness is withdrawn, the database fails: the job is
   blocked. *)
CallFails(r) ==
  /\ replica[r].at \in {"calculate", "check", "prepare", "close"}
  /\ faults < MaxFaults /\ faults' = faults + 1
  /\ GoTo(r, "failed")
  /\ UNCHANGED <<vars, job>>

(* The process ends, or the database fails where nothing catches it: in the
   selection and in the catch. *)
Crash(r) ==
  /\ replica[r].at # "idle"
  /\ faults < MaxFaults /\ faults' = faults + 1
  /\ replica' = [replica EXCEPT ![r] = Idle]
  /\ UNCHANGED <<vars, job>>

Monthly(r) ==
  \/ \E c \in Energy : ReadBill(r, c)
  \/ CalculateBill(r)
  \/ CheckCurrent(r)
  \/ PrepareBill(r)
  \/ Close(r)
  \/ Block(r)
  \/ EndRun(r)

Staff == Next /\ UNCHANGED runVars

MonthNext ==
  \/ Staff
  \/ \E r \in Replica :
       \/ \E month \in Energy, later \in SUBSET Blocked : Tick(r, month, later)
       \/ Monthly(r)
       \/ CallFails(r)
       \/ Crash(r)

MonthSpec == MonthInit /\ [][MonthNext]_monthVars

(* The interval timer ticks every minute, a run that started goes on, and a
   blocked job is due again after an hour. *)
Fairness ==
  \A r \in Replica :
    /\ WF_monthVars(\E month \in Energy : Tick(r, month, {}))
    /\ WF_monthVars(Monthly(r))

FairMonthSpec == MonthSpec /\ Fairness
-----------------------------------------------------------------------------
(* PROPERTIES *)

(* A late failure of one replica does not overwrite what another completed
   (monthly's catch; the test "a late failed preparation replica cannot
   overwrite another replica completed preparation"). *)
DoneIsFinal ==
  [][\A c \in Energy : job[c] = "done" => job'[c] = "done"]_monthVars

(* The monthly run implements the rules of bills: whatever status a replica read
   and whatever staff did since, it does nothing to a bill that its own
   operations do not allow.  So a replay does not reopen an issued bill (the
   comment in monthly), and all that is shown of BillingCycle holds here. *)
OnlyBillingSteps == Spec

(* Not prepared, and refused for good: the settings changed since the bill was
   calculated. *)
Stale(c) == status[c] \in {"pending_review", "rejected", "pending_issue_approval"} /\ ~Gate(c)

(* Every job is completed, after whatever failures, unless the settings changed
   under its bill. *)
JobsSettle ==
  \A c \in Energy : job[c] # "none" ~> (job[c] = "done" \/ Stale(c))
=============================================================================
