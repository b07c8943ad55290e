--------------------------- MODULE EnergySummary ---------------------------
(* The daily energy of one device, a summary kept beside its telemetry: every
   sample marks, in its own transaction, the days it may change; a worker
   calculates marked days again; reports show a day only while it is not marked.
   Code: infra/migrations/020_energy_read_models.sql,
   apps/worker/src/jobs/refresh-energy-summary.job.ts,
   packages/domain/src/energy-increments.ts,
   apps/api/src/modules/dashboard/energy-read.service.ts and the ingestions. *)
EXTENDS Integers, FiniteSets, FiniteSetsExt

CONSTANTS
  Worker,      \* worker processes (transactions of runBatch)
  Writer,      \* ingestion transactions that may be open at once
  Reading,     \* what a sample says: a register value, and the mapping or profile it was read by
  NoRow,       \* a day without a summary, a writer without a transaction
  NoEnergy,    \* SQL NULL in place of an energy
  Free,        \* a mark that is not locked
  DayLength,   \* times of a day at which a sample may lie, its start included
  MaxDay,      \* bound: days 0 .. MaxDay have samples
  MaxSamples,  \* bound: samples written
  MaxFaults    \* bound: transactions that fail or lose their process

ASSUME SummaryAssumption ==
  /\ DayLength \in Nat \ {0}
  /\ {MaxDay, MaxSamples, MaxFaults} \subseteq Nat
  /\ \A r \in Reading : r.kwh \in Nat /\ DOMAIN r = {"kwh", "mapping"}
  /\ Worker \cap Writer = {}
  /\ Free \notin Worker \cup Writer

(* A day ends where the next one starts; the last day has its start only. *)
Day == 0 .. MaxDay + 1
Start(d) == DayLength * d
End(d) == DayLength * d + DayLength
Time == 0 .. Start(MaxDay + 1)
DayOf(t) == Max({d \in Day : Start(d) <= t})
IsBoundary(t) == t = Start(DayOf(t))

VARIABLES
  raw,      \* telemetry_raw, committed: the readings at a time, several if they conflict
  today,    \* the current day in Bangkok
  dirty,    \* energy_dirty_days, committed
  holder,   \* the transaction that locks, wrote or deletes the mark of a day
  daily,    \* energy_daily, committed
  writer,   \* the open ingestion transactions
  worker,   \* the open batches
  cursor,   \* energy_backfill_checkpoints: the first day not queued
  faults
vars == <<raw, today, dirty, holder, daily, writer, worker, cursor, faults>>

Quality == {"complete", "partial", "missing", "reset"}
Row == [quality : Quality, kwh : Nat \cup {NoEnergy}]
Sample == [at : Time, reading : Reading, ahead : SUBSET Day]
Batch == [todo : SUBSET Day, phase : {"idle", "baseline", "samples"},
          baseline : [at : Time \cup {-1}, seen : SUBSET Reading],
          done : [Day -> Row \cup {NoRow}]]

NoBaseline == [at |-> -1, seen |-> {}]
Idle == [todo |-> {}, phase |-> "idle", baseline |-> NoBaseline,
         done |-> [d \in Day |-> NoRow]]

TypeOK ==
  /\ raw \in [Time -> SUBSET Reading]
  /\ today \in Day
  /\ dirty \subseteq Day
  /\ holder \in [Day -> Worker \cup Writer \cup {Free}]
  /\ daily \in [Day -> Row \cup {NoRow}]
  /\ writer \in [Writer -> Sample \cup {NoRow}]
  /\ worker \in [Worker -> Batch]
  /\ cursor \in 0 .. MaxDay + 1
  /\ faults \in 0 .. MaxFaults

(* Samples from before the migration have no marks; there is at most one. *)
Init ==
  /\ raw \in {[t \in Time |-> {}]} \cup
             {[t \in Time |-> IF t = 0 THEN {r} ELSE {}] : r \in Reading}
  /\ today = 0
  /\ dirty = {}
  /\ holder = [d \in Day |-> Free]
  /\ daily = [d \in Day |-> NoRow]
  /\ writer = [w \in Writer |-> NoRow]
  /\ worker = [p \in Worker |-> Idle]
  /\ cursor = 0
  /\ faults = 0

Locked(x) == {d \in Day : holder[d] = x}
Released(x) == [d \in Day |-> IF holder[d] = x THEN Free ELSE holder[d]]
-----------------------------------------------------------------------------
(* INGESTION AND ITS TRIGGER *)

Open == {w \in Writer : writer[w] # NoRow}
Written ==
  MapThenSumSet(LAMBDA t : Cardinality(raw[t]), Time) + Cardinality(Open)

(* Mutant: only the day of the sample. *)
MarksOwnDay(t) == Day \cap {DayOf(t)}

(* The day of a sample, the one it closes, the next one, and the day of its
   successor, as far as the transaction sees one. *)
Marks(t) ==
  LET later == {u \in Time : u > t /\ raw[u] # {}}
  IN  Day \cap ( {DayOf(t), DayOf(t) + 1}
                 \cup (IF IsBoundary(t) THEN {DayOf(t) - 1} ELSE {})
                 \cup (IF later # {} THEN {DayOf(Min(later))} ELSE {}) )

(* INSERT INTO telemetry_raw; its trigger finds the days and then marks them one
   after the other.  A source time is at most 30 seconds ahead: at the boundary
   of tomorrow.  Ingestions of one device are open at the same time, as those of
   legacy gateways are. *)
InsertSample(w) ==
  \E t \in Time, r \in Reading :
    /\ writer[w] = NoRow
    /\ Written < MaxSamples
    /\ t <= End(today)
    /\ r \notin raw[t]
    /\ writer' = [writer EXCEPT ![w] = [at |-> t, reading |-> r, ahead |-> Marks(t)]]
    /\ UNCHANGED <<raw, today, dirty, holder, daily, worker, cursor, faults>>

(* Mutant: ON CONFLICT DO NOTHING, which takes no lock on a mark that is there. *)
MarkDayOnce(w) ==
  /\ writer[w] # NoRow
  /\ writer[w].ahead # {}
  /\ LET d == Min(writer[w].ahead) IN
       /\ holder[d] = Free \/ d \in dirty
       /\ holder' = IF d \in dirty THEN holder ELSE [holder EXCEPT ![d] = w]
       /\ writer' = [writer EXCEPT ![w].ahead = @ \ {d}]
  /\ UNCHANGED <<raw, today, dirty, daily, worker, cursor, faults>>

(* INSERT INTO energy_dirty_days ... ORDER BY d ON CONFLICT DO UPDATE waits for
   whoever has the mark of a day and keeps it until the transaction ends. *)
MarkDay(w) ==
  /\ writer[w] # NoRow
  /\ writer[w].ahead # {}
  /\ LET d == Min(writer[w].ahead) IN
       /\ holder[d] = Free
       /\ holder' = [holder EXCEPT ![d] = w]
       /\ writer' = [writer EXCEPT ![w].ahead = @ \ {d}]
  /\ UNCHANGED <<raw, today, dirty, daily, worker, cursor, faults>>

CommitSample(w) ==
  /\ writer[w] # NoRow
  /\ writer[w].ahead = {}
  /\ raw' = [raw EXCEPT ![writer[w].at] = @ \cup {writer[w].reading}]
  /\ dirty' = dirty \cup Locked(w)
  /\ holder' = Released(w)
  /\ writer' = [writer EXCEPT ![w] = NoRow]
  /\ UNCHANGED <<today, daily, worker, cursor, faults>>

(* The transaction fails, or its process dies: the sample and its marks go. *)
AbortSample(w) ==
  /\ writer[w] # NoRow
  /\ faults < MaxFaults
  /\ holder' = Released(w)
  /\ writer' = [writer EXCEPT ![w] = NoRow]
  /\ faults' = faults + 1
  /\ UNCHANGED <<raw, today, dirty, daily, worker, cursor>>
-----------------------------------------------------------------------------
(* THE CALCULATION OF A DAY *)

Kwh(readings) == Max({r.kwh : r \in readings})
Mappings(readings) == {r.mapping : r \in readings}
Conflict(readings) == Cardinality(readings) > 1

(* Where the increments of day d start: the samples of (start, end] and the
   baseline, which is a time and the readings that were seen at it. *)
Samples(d) == {t \in Time : Start(d) < t /\ t <= End(d) /\ raw[t] # {}}
Points(d, base) == Samples(d) \cup (IF base = NoBaseline THEN {} ELSE {base.at})
ReadingsAt(t, base) == IF t = base.at THEN base.seen ELSE raw[t]
Preceded(d, base) == {t \in Samples(d) : \E u \in Points(d, base) : u < t}
Previous(t, d, base) == Max({u \in Points(d, base) : u < t})
Increment(t, d, base) ==
  Kwh(ReadingsAt(t, base)) - Kwh(ReadingsAt(Previous(t, d, base), base))

(* Mutant: no increment is ever a reset. *)
NeverReset(d, base) == FALSE

Resets(d, base) == \E t \in Preceded(d, base) : Increment(t, d, base) < 0

BoundaryMissing(d, base) ==
  \/ base.at # Start(d)
  \/ Conflict(base.seen)
  \/ d # today /\ End(d) \notin Samples(d)

(* A sample without a previous one, of several values or mappings, or read by
   another mapping than the one before it.  The test for quality 'invalid' has no
   case here: both ingestions write such a row without a register value
   (payload-ingestion.ts:211,214; mqtt-ingestion.service.ts:384), and the queries
   of the calculation leave rows without one out. *)
LineageBroken(d, base) ==
  \E t \in Samples(d) :
    \/ t \notin Preceded(d, base)
    \/ Conflict(raw[t])
    \/ Mappings(raw[t]) # Mappings(ReadingsAt(Previous(t, d, base), base))

(* The row of day d from the baseline read before and the samples there are now.
   A reset prevails over everything missing.  The limit of 4096 samples a day is
   not reached. *)
Calculated(d, base) ==
  LET quality ==
        CASE Resets(d, base) -> "reset"
          [] ~Resets(d, base) /\ (BoundaryMissing(d, base) \/ LineageBroken(d, base)) -> "missing"
          [] OTHER -> IF d = today THEN "partial" ELSE "complete"
  IN  [quality |-> quality,
       kwh |-> IF quality \in {"complete", "partial"}
               THEN MapThenSumSet(LAMBDA t : Increment(t, d, base), Samples(d))
               ELSE NoEnergy]
-----------------------------------------------------------------------------
(* THE WORKER *)

(* Days calculated while they were the current one, now past. *)
PastPartial == {d \in Day : d < today /\ daily[d] # NoRow /\ daily[d].quality = "partial"}

(* The mark of day d was inserted, changed or deleted by an open transaction:
   INSERT ... ON CONFLICT DO NOTHING waits for it.  It does not wait for a batch
   that has only locked a mark. *)
Unsettled(d) ==
  \/ holder[d] \in Writer
  \/ holder[d] \in Worker /\ (d \notin dirty \/ worker[holder[d]].done[d] # NoRow)

(* Mutant: partial days of the past are not marked again. *)
ClaimMarkedDays(p) ==
  /\ worker[p].phase = "idle"
  /\ LET claimed == {d \in dirty : holder[d] = Free} IN
       /\ claimed # {}
       /\ holder' = [d \in Day |-> IF d \in claimed THEN p ELSE holder[d]]
       /\ worker' = [worker EXCEPT ![p] = [Idle EXCEPT !.todo = claimed, !.phase = "baseline"]]
  /\ UNCHANGED <<raw, today, dirty, daily, writer, cursor, faults>>

(* The batch begins: past partial days are marked again, and every mark nobody
   holds is locked (FOR UPDATE SKIP LOCKED; LIMIT 32 is not reached). *)
ClaimDays(p) ==
  /\ worker[p].phase = "idle"
  /\ \A d \in PastPartial : ~Unsettled(d)
  /\ LET claimed == {d \in dirty \cup PastPartial : holder[d] = Free} IN
       /\ claimed # {}
       /\ holder' = [d \in Day |-> IF d \in claimed THEN p ELSE holder[d]]
       /\ worker' = [worker EXCEPT ![p] = [Idle EXCEPT !.todo = claimed, !.phase = "baseline"]]
  /\ UNCHANGED <<raw, today, dirty, daily, writer, cursor, faults>>

(* The last sample at or before the start of the day. *)
ReadBaseline(p) ==
  /\ worker[p].phase = "baseline"
  /\ worker[p].todo # {}
  /\ LET before == {t \in 0 .. Start(Min(worker[p].todo)) : raw[t] # {}}
     IN  worker' = [worker EXCEPT ![p].phase = "samples",
                                  ![p].baseline = IF before = {} THEN NoBaseline
                                    ELSE [at |-> Max(before), seen |-> raw[Max(before)]]]
  /\ UNCHANGED <<raw, today, dirty, holder, daily, writer, cursor, faults>>

(* The samples of the day, in a statement of their own; the row is written and
   the mark deleted.  The comparison of versions in the DELETE adds nothing: the
   mark is locked from the claim on. *)
CalculateDay(p) ==
  /\ worker[p].phase = "samples"
  /\ LET d == Min(worker[p].todo)
         row == Calculated(d, worker[p].baseline)
     IN  worker' = [worker EXCEPT ![p].todo = @ \ {d}, ![p].phase = "baseline",
                                  ![p].baseline = NoBaseline,
                                  ![p].done = [worker[p].done EXCEPT ![d] = row]]
  /\ UNCHANGED <<raw, today, dirty, holder, daily, writer, cursor, faults>>

(* The batch ends with its last day, or earlier, ten seconds after the claim; it
   has then calculated one day at least.  Past partial days that it marked and did
   not reach stay marked. *)
CommitBatch(p) ==
  LET done == {d \in Day : worker[p].done[d] # NoRow} IN
  /\ worker[p].phase = "baseline"
  /\ done # {}
  /\ daily' = [d \in Day |-> IF d \in done THEN worker[p].done[d] ELSE daily[d]]
  /\ dirty' = (dirty \cup Locked(p)) \ done
  /\ holder' = Released(p)
  /\ worker' = [worker EXCEPT ![p] = Idle]
  /\ UNCHANGED <<raw, today, writer, cursor, faults>>

(* A statement fails, or the process dies: the batch is rolled back. *)
AbortBatch(p) ==
  /\ worker[p].phase # "idle"
  /\ faults < MaxFaults
  /\ holder' = Released(p)
  /\ worker' = [worker EXCEPT ![p] = Idle]
  /\ faults' = faults + 1
  /\ UNCHANGED <<raw, today, dirty, daily, writer, cursor>>

(* One call of backfill marks a page of days, with samples or without, and moves
   the cursor in the same transaction. *)
Backfill ==
  \E last \in cursor .. MaxDay :
    /\ \A d \in cursor .. last : holder[d] = Free
    /\ dirty' = dirty \cup (cursor .. last)
    /\ cursor' = last + 1
    /\ UNCHANGED <<raw, today, holder, daily, writer, worker, faults>>

Midnight ==
  /\ today <= MaxDay
  /\ today' = today + 1
  /\ UNCHANGED <<raw, dirty, holder, daily, writer, worker, cursor, faults>>

IngestionStep(w) == InsertSample(w) \/ MarkDay(w) \/ CommitSample(w) \/ AbortSample(w)
BatchStep(p) ==
  \/ ClaimDays(p) \/ ReadBaseline(p) \/ CalculateDay(p)
  \/ CommitBatch(p) \/ AbortBatch(p)

Next ==
  \/ \E w \in Writer : IngestionStep(w)
  \/ \E p \in Worker : BatchStep(p)
  \/ Backfill
  \/ Midnight

Spec == Init /\ [][Next]_vars

(* Statements and commits return; the timer of a worker starts a batch every
   second.  Nothing is assumed of gateways, backfills or faults. *)
Fairness ==
  /\ \A w \in Writer : WF_vars(MarkDay(w) \/ CommitSample(w))
  /\ \A p \in Worker :
       WF_vars(\/ ClaimDays(p) \/ ReadBaseline(p) \/ CalculateDay(p)
               \/ CommitBatch(p) /\ worker[p].todo = {})

FairSpec == Spec /\ Fairness
-----------------------------------------------------------------------------
(* PROPERTIES *)

(* What a report shows of a day (EnergyReadService.daily). *)
Reported(d) ==
  IF /\ daily[d] # NoRow /\ d \notin dirty
     /\ ~(daily[d].quality = "partial" /\ d < today)
  THEN daily[d].kwh ELSE NoEnergy

(* The register ran through the day without a gap at its boundaries, under one
   mapping, and never went back. *)
Seen(d) == {t \in Time : Start(d) <= t /\ t <= End(d) /\ raw[t] # {}}
Continuous(d) ==
  /\ Start(d) \in Seen(d)
  /\ d < today => End(d) \in Seen(d)
  /\ \A t \in Seen(d) : Cardinality(raw[t]) = 1
  /\ \A t, u \in Seen(d) : t < u => Kwh(raw[t]) <= Kwh(raw[u])
                                    /\ Mappings(raw[t]) = Mappings(raw[u])
Measured(d) ==
  IF Continuous(d) THEN Kwh(raw[Max(Seen(d))]) - Kwh(raw[Start(d)]) ELSE NoEnergy

(* A reported energy is the one the committed samples measure, at every moment:
   late samples, corrections of a boundary that two days share, samples that
   commit between two statements of a batch, two batches and midnight included
   (energy_mark_dirty, runBatch). *)
ReportedIsMeasured ==
  \A d \in Day : Reported(d) # NoEnergy => Reported(d) = Measured(d)

(* No stale gap is shown: a past day reported as missing or as a reset is one
   whose samples do not measure an energy (energy_mark_dirty, runBatch). *)
GapsAreReal ==
  \A d \in Day :
    /\ d < today /\ d \notin dirty
    /\ daily[d] # NoRow /\ daily[d].quality \in {"missing", "reset"}
    => Measured(d) = NoEnergy

(* Every past day that was measured is reported in the end, unless samples that
   contradict it arrive (the timer of RefreshEnergySummaryJob, "dirty days
   retained"). *)
MeasuredIsReported ==
  \A d \in Day :
    d < today /\ Measured(d) # NoEnergy
      ~> Measured(d) = NoEnergy \/ Reported(d) = Measured(d)
=============================================================================
