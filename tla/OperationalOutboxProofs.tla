----------------------- MODULE OperationalOutboxProofs -----------------------
(***************************************************************************)
(* Theorems of OperationalOutbox, for every set of processes and rows and  *)
(* every bound.                                                            *)
(***************************************************************************)
EXTENDS OperationalOutbox, TLAPS

-----------------------------------------------------------------------------
(* What the three ways to change the place of a process leave alone. *)

LEMMA GotoFacts ==
  ASSUME TypeOK, NEW w \in Worker, NEW pc \in Step, Goto(w, pc)
  PROVE  /\ worker' \in [Worker -> Tick]
         /\ \A v \in Worker \ {w} : worker'[v] = worker[v]
         /\ worker'[w].pc = pc
         /\ worker'[w].left = worker[w].left
         /\ worker'[w].todo = worker[w].todo
         /\ worker'[w].row = worker[w].row
         /\ worker'[w].number = worker[w].number
         /\ worker'[w].outcome = worker[w].outcome
<1>1. worker[w] \in Tick
  BY DEF TypeOK
<1>2. [worker[w] EXCEPT !.pc = pc] \in Tick
  BY <1>1 DEF Tick
<1>3. worker' = [worker EXCEPT ![w] = [worker[w] EXCEPT !.pc = pc]]
  BY DEF Goto
<1>4. worker'[w] = [worker[w] EXCEPT !.pc = pc]
  BY <1>3 DEF TypeOK
<1>5. QED
  BY <1>1, <1>2, <1>3, <1>4 DEF TypeOK, Tick

(* The same when an outcome is noted for the step that records it. *)
LEMMA GotoWithFacts ==
  ASSUME TypeOK, NEW w \in Worker, NEW pc \in Step, NEW outcome \in Outcome,
         GotoWith(w, pc, outcome)
  PROVE  /\ worker' \in [Worker -> Tick]
         /\ \A v \in Worker \ {w} : worker'[v] = worker[v]
         /\ worker'[w].pc = pc
         /\ worker'[w].left = worker[w].left
         /\ worker'[w].todo = worker[w].todo
         /\ worker'[w].row = worker[w].row
         /\ worker'[w].number = worker[w].number
         /\ worker'[w].outcome = outcome
<1>1. worker[w] \in Tick
  BY DEF TypeOK
<1>2. [worker[w] EXCEPT !.pc = pc, !.outcome = outcome] \in Tick
  BY <1>1 DEF Tick
<1>3. worker' = [worker EXCEPT ![w] = [worker[w] EXCEPT !.pc = pc, !.outcome = outcome]]
  BY DEF TypeOK, GotoWith
<1>4. worker'[w] = [worker[w] EXCEPT !.pc = pc, !.outcome = outcome]
  BY <1>3 DEF TypeOK
<1>5. QED
  BY <1>1, <1>2, <1>3, <1>4 DEF TypeOK, Tick

LEMMA IdleType == Idle \in Tick
BY BoundsAssumption DEF Idle, Tick, Step, Outcome

LEMMA DoneFacts ==
  ASSUME TypeOK, NEW w \in Worker, Done(w)
  PROVE  /\ worker' \in [Worker -> Tick]
         /\ \A v \in Worker \ {w} : worker'[v] = worker[v]
         /\ worker'[w].pc = "take"
         /\ worker'[w].left = worker[w].left
         /\ worker'[w].todo = worker[w].todo
         /\ worker'[w].row = NoRow
<1> DEFINE t == [Idle EXCEPT !.left = worker[w].left, !.todo = worker[w].todo]
<1>1. worker[w] \in Tick
  BY DEF TypeOK
<1>2. /\ t \in Tick
      /\ t.pc = "take" /\ t.row = NoRow
      /\ t.left = worker[w].left /\ t.todo = worker[w].todo
  BY <1>1, IdleType DEF Tick, Idle
<1>3. worker' = [worker EXCEPT ![w] = t]
  BY DEF Done
<1> HIDE DEF t
<1>4. QED
  BY <1>2, <1>3 DEF TypeOK

-----------------------------------------------------------------------------
(* The initial states *)

LEMMA InitInvariant == Init => IInv
<1> SUFFICES ASSUME Init PROVE IInv
  OBVIOUS
<1>1. TypeOK
  <2>1. /\ 0 \in 0 .. MaxAttempts /\ 0 \in 0 .. MaxBalance
        /\ MaxBalance \in 0 .. MaxBalance /\ 0 \in 0 .. MaxFaults
    BY BoundsAssumption
  <2>2. QED
    BY <2>1, IdleType DEF Init, TypeOK
<1>2. ASSUME NEW w \in Worker
      PROVE  TickConsistent(w) /\ ClaimFresh(w) /\ SendProtected(w) /\ DueKnown(w)
  BY RowsAssumption DEF Init, TickConsistent, ClaimFresh, BeforeSend, SendProtected,
                        DueKnown, BatchDone, Idle, Row
<1>3. ASSUME NEW r \in Row PROVE RowConsistent(r)
  BY BoundsAssumption DEF Init, RowConsistent, Unaccepted, Row
<1>4. QED
  BY <1>1, <1>2, <1>3 DEF IInv

-----------------------------------------------------------------------------
(* Frames *)

(* Nothing the invariant says of a row changes. *)
Kept(r) ==
  /\ state'[r] = state[r] /\ attempts'[r] = attempts[r] /\ holder'[r] = holder[r]
  /\ accepted'[r] \in {accepted[r], 1}
  /\ misread'[r] \in Nat /\ misread'[r] >= misread[r]
  /\ r \in Mail => handed'[r] = handed[r] /\ accepted'[r] = accepted[r]
  /\ \A n \in 1 .. MaxAttempts : marker'[r][n] = "none" <=> marker[r][n] = "none"

LEMMA SameRowsKept ==
  ASSUME TypeOK, UNCHANGED <<state, attempts, holder, marker, handed, accepted, misread>>,
         NEW r \in Row
  PROVE  Kept(r)
BY DEF Kept, TypeOK

LEMMA RowFrame ==
  ASSUME IInv, NEW r \in Row, Kept(r)
  PROVE  RowConsistent(r)'
<1>1. /\ RowConsistent(r) /\ attempts[r] \in 0 .. MaxAttempts
      /\ accepted[r] \in Nat /\ misread[r] \in Nat
  BY DEF IInv, TypeOK
<1>2. state[r] = "sending" => attempts[r] \in 1 .. MaxAttempts
  BY <1>1 DEF RowConsistent
<1>3. QED
  BY <1>1, <1>2 DEF RowConsistent, Kept, Waits, Unaccepted, AcceptedOnce

(* A process that takes no step, and whose rows are kept. *)
LEMMA ProcessFrame ==
  ASSUME IInv, NEW v \in Worker, worker'[v] = worker[v],
         \A r \in Row : holder[r] = v \/ holder'[r] = v => Kept(r)
  PROVE  ClaimFresh(v)' /\ SendProtected(v)'
<1>1. \A r \in Row : RowConsistent(r) /\ attempts[r] \in 0 .. MaxAttempts
  BY DEF IInv, TypeOK
<1>2. ClaimFresh(v) /\ SendProtected(v)
  BY DEF IInv
<1>3. ClaimFresh(v)'
  <2> SUFFICES ASSUME NEW r \in Row, holder'[r] = v,
                      \/ r \in worker[v].todo
                      \/ worker[v].row = r /\ worker[v].pc \in BeforeSend
               PROVE  /\ state'[r] = "sending"
                      /\ r \in Mail => marker'[r][attempts'[r]] = "none"
                      /\ worker[v].row = r => worker[v].number = attempts'[r]
    BY DEF ClaimFresh
  <2>1. Kept(r) /\ holder[r] = v
    BY DEF Kept
  <2>2. /\ state[r] = "sending"
        /\ r \in Mail => marker[r][attempts[r]] = "none"
        /\ worker[v].row = r => worker[v].number = attempts[r]
    BY <1>2, <2>1 DEF ClaimFresh
  <2>3. attempts[r] \in 1 .. MaxAttempts
    BY <1>1, <2>2 DEF RowConsistent
  <2>4. QED
    BY <2>1, <2>2, <2>3 DEF Kept
<1>4. SendProtected(v)'
  <2> SUFFICES ASSUME NEW r \in Mail, worker[v].row = r
               PROVE  /\ worker[v].pc = "send" =>
                           /\ holder'[r] = v
                           /\ state'[r] \in {"sending", "uncertain"}
                           /\ attempts'[r] >= 1 /\ marker'[r][attempts'[r]] # "none"
                           /\ Unaccepted(r)' /\ handed'[r] < attempts'[r]
                      /\ worker[v].pc = "record" /\ holder'[r] = v => AcceptedOnce(r)'
                      /\ worker[v].pc = "fail" /\ worker[v].outcome = "failed"
                         /\ holder'[r] = v => Unaccepted(r)'
    BY DEF SendProtected
  <2>1. r \in Row /\ attempts[r] \in 0 .. MaxAttempts
    BY <1>1 DEF Row
  <2>2. CASE holder[r] = v \/ holder'[r] = v
    <3>1. Kept(r)
      BY <2>1, <2>2
    <3>2. \A n \in 1 .. MaxAttempts : marker'[r][n] = "none" <=> marker[r][n] = "none"
      BY <3>1 DEF Kept
    <3>3. /\ state'[r] = state[r] /\ attempts'[r] = attempts[r] /\ holder'[r] = holder[r]
          /\ handed'[r] = handed[r] /\ accepted'[r] = accepted[r]
          /\ misread'[r] \in Nat /\ misread'[r] >= misread[r]
          /\ misread[r] \in Nat /\ accepted[r] \in Nat
      BY <2>1, <3>1 DEF Kept, IInv, TypeOK
    <3>4. attempts[r] >= 1 => attempts[r] \in 1 .. MaxAttempts
      BY <2>1
    <3>5. QED
      BY <1>2, <2>1, <3>2, <3>3, <3>4 DEF SendProtected, Unaccepted, AcceptedOnce
  <2>3. CASE ~(holder[r] = v \/ holder'[r] = v)
    BY <1>2, <2>3 DEF SendProtected
  <2>4. QED
    BY <2>2, <2>3
<1>5. QED
  BY <1>3, <1>4

(* A step of process w that touches no row claimed by another. *)
LEMMA StepFrame ==
  ASSUME IInv, TypeOK', NEW w \in Worker,
         \A v \in Worker \ {w} : worker'[v] = worker[v] /\ dueSince'[v] = dueSince[v],
         \A r \in Row : holder[r] # w \/ holder'[r] \notin {w, NoWorker} => Kept(r),
         \A r \in Row : Kept(r) \/ RowConsistent(r)',
         UNCHANGED <<balance, evidence>>,
         TickConsistent(w)', ClaimFresh(w)', SendProtected(w)', DueKnown(w)'
  PROVE  IInv'
<1>1. \A r \in Row : RowConsistent(r)'
  BY RowFrame
<1>2. ASSUME NEW v \in Worker \ {w}
      PROVE  TickConsistent(v)' /\ ClaimFresh(v)' /\ SendProtected(v)' /\ DueKnown(v)'
  <2>1. TickConsistent(v)' /\ DueKnown(v)'
    BY DEF IInv, TickConsistent, DueKnown, Due, BatchDone
  <2>2. \A r \in Row : holder[r] = v \/ holder'[r] = v => Kept(r)
    BY RowsAssumption
  <2>3. ClaimFresh(v)' /\ SendProtected(v)'
    BY <2>2, ProcessFrame
  <2>4. QED
    BY <2>1, <2>3
<1>3. QED
  BY <1>1, <1>2 DEF IInv

(* A step of process w that changes nothing but its own place. *)
LEMMA PlaceFrame ==
  ASSUME IInv, TypeOK', NEW w \in Worker,
         \A v \in Worker \ {w} : worker'[v] = worker[v],
         UNCHANGED <<rowVars, marker, billVars, historyVars>>,
         TickConsistent(w)', ClaimFresh(w)', SendProtected(w)', DueKnown(w)'
  PROVE  IInv'
<1>1. UNCHANGED <<state, attempts, holder, marker, handed, accepted, dueSince, misread, balance, evidence>>
  BY DEF rowVars, billVars, historyVars
<1>2. \A r \in Row : Kept(r)
  BY <1>1, SameRowsKept DEF IInv
<1>3. QED
  BY <1>1, <1>2, StepFrame

-----------------------------------------------------------------------------
(* Steps of a process that change only its own place *)

LEMMA TakeRowInvariant ==
  ASSUME IInv, NEW w \in Worker, NEW r \in Row, NEW eligible \in BOOLEAN,
         TakeRow(w, r, eligible)
  PROVE  IInv'
<1> DEFINE t == [worker[w] EXCEPT !.todo = worker[w].todo \ {r}, !.row = r,
                   !.number = attempts[r],
                   !.outcome = IF eligible THEN "none" ELSE "uncertain",
                   !.pc = IF ~eligible THEN "fail"
                          ELSE IF r \in Reminder THEN "bill" ELSE "prepare"]
<1>1. TypeOK /\ TickConsistent(w) /\ ClaimFresh(w) /\ DueKnown(w)
  BY DEF IInv
<1>2. worker[w] \in Tick /\ attempts[r] \in 0 .. MaxAttempts
  BY <1>1 DEF TypeOK
<1>3. /\ t \in Tick
      /\ t.todo = worker[w].todo \ {r} /\ t.row = r /\ t.number = attempts[r]
      /\ t.pc = "fail" => t.outcome = "uncertain"
      /\ t.pc \in {"fail", "bill", "prepare"}
      /\ t.pc = "prepare" => r \notin Reminder
  BY <1>2 DEF Tick, Step, Outcome
<1>4. worker' = [worker EXCEPT ![w] = t]
  BY <1>1 DEF TakeRow, TypeOK
<1> HIDE DEF t
<1>5. /\ worker' \in [Worker -> Tick] /\ worker'[w] = t
      /\ \A v \in Worker \ {w} : worker'[v] = worker[v]
  BY <1>1, <1>3, <1>4 DEF TypeOK
<1>6. /\ UNCHANGED <<rowVars, marker, notice, billVars, historyVars, faults>>
      /\ worker[w].pc = "take" /\ r \in worker[w].todo
  BY DEF TakeRow
<1>7. UNCHANGED <<state, attempts, holder, handed, accepted, dueSince, misread, balance, evidence>>
  BY <1>6 DEF rowVars, billVars, historyVars
<1>8. TypeOK'
  BY <1>1, <1>5, <1>6, <1>7 DEF TypeOK
<1>9. TickConsistent(w)'
  BY <1>3, <1>5, RowsAssumption DEF TickConsistent
<1>10. ClaimFresh(w)'
  BY <1>1, <1>3, <1>5, <1>6, <1>7 DEF ClaimFresh
<1>11. SendProtected(w)'
  BY <1>3, <1>5 DEF SendProtected
<1>12. DueKnown(w)'
  BY <1>1, <1>3, <1>5, <1>6, <1>7 DEF DueKnown, BatchDone, Due
<1>13. QED
  BY <1>5, <1>6, <1>8, <1>9, <1>10, <1>11, <1>12, PlaceFrame

LEMMA CheckBillInvariant ==
  ASSUME IInv, NEW w \in Worker, CheckBill(w)
  PROVE  IInv'
<1>1. PICK pc \in {"cancel", "pause", "prepare"} :
        Goto(w, pc) /\ (pc = "prepare" => balance # 0 /\ ~evidence)
  BY DEF CheckBill
<1>2. TypeOK /\ TickConsistent(w) /\ ClaimFresh(w) /\ DueKnown(w) /\ pc \in Step
  BY DEF IInv, Step
<1>3. /\ worker' \in [Worker -> Tick]
      /\ \A v \in Worker \ {w} : worker'[v] = worker[v]
      /\ worker'[w].pc = pc
      /\ worker'[w].todo = worker[w].todo
      /\ worker'[w].row = worker[w].row
      /\ worker'[w].number = worker[w].number
  BY <1>1, <1>2, GotoFacts
<1>4. /\ UNCHANGED <<rowVars, marker, notice, billVars, historyVars, faults>>
      /\ worker[w].pc = "bill"
  BY DEF CheckBill
<1>5. UNCHANGED <<state, attempts, holder, handed, accepted, dueSince, misread, balance, evidence>>
  BY <1>4 DEF rowVars, billVars, historyVars
<1>6. TypeOK'
  BY <1>2, <1>3, <1>4, <1>5 DEF TypeOK
<1>7. TickConsistent(w)' /\ ClaimFresh(w)' /\ SendProtected(w)'
  BY <1>1, <1>2, <1>3, <1>4, <1>5 DEF TickConsistent, ClaimFresh, BeforeSend, SendProtected
<1>8. DueKnown(w)'
  <2>1. pc = "prepare" => Due
    BY <1>1, <1>2 DEF Due, TypeOK
  <2>2. QED
    BY <1>1, <1>2, <1>3, <1>4, <1>5, <2>1 DEF DueKnown, BatchDone, Due
<1>9. QED
  BY <1>3, <1>4, <1>6, <1>7, <1>8, PlaceFrame

LEMMA CrashInvariant ==
  ASSUME IInv, NEW w \in Worker, Crash(w)
  PROVE  IInv'
<1>1. TypeOK
  BY DEF IInv
<1>2. /\ worker' \in [Worker -> Tick] /\ worker'[w] = Idle
      /\ \A v \in Worker \ {w} : worker'[v] = worker[v]
  BY <1>1, IdleType DEF Crash, TypeOK
<1>3. faults' \in 0 .. MaxFaults
  BY <1>1, BoundsAssumption DEF Crash, TypeOK
<1>4. TypeOK'
  BY <1>1, <1>2, <1>3 DEF Crash, TypeOK, rowVars, billVars, historyVars
<1>5. TickConsistent(w)' /\ ClaimFresh(w)' /\ SendProtected(w)' /\ DueKnown(w)'
  BY <1>2, RowsAssumption DEF TickConsistent, ClaimFresh, BeforeSend, SendProtected,
                              DueKnown, BatchDone, Idle
<1>6. QED
  BY <1>2, <1>4, <1>5, PlaceFrame DEF Crash

(* An error taken for a refusal forgives one acceptance of its row. *)
LEMMA RecordingFailsInvariant ==
  ASSUME IInv, NEW w \in Worker, NEW refused \in BOOLEAN, RecordingFails(w, refused)
  PROVE  IInv'
<1> DEFINE outcome == IF refused THEN "failed" ELSE "uncertain"
<1>0. PICK r \in Mail : r = worker[w].row
  BY DEF RecordingFails
<1>1. /\ TypeOK /\ TickConsistent(w) /\ ClaimFresh(w) /\ DueKnown(w)
      /\ RowConsistent(r) /\ r \in Row
  BY DEF IInv, Row
<1>2. outcome \in Outcome /\ "fail" \in Step
  BY DEF Outcome, Step
<1>3. GotoWith(w, "fail", outcome)
  BY DEF RecordingFails
<1>4. /\ outcome \in {"failed", "uncertain"}
      /\ misread' = IF outcome = "failed" THEN [misread EXCEPT ![r] = misread[r] + 1]
                                         ELSE misread
  BY <1>0, <1>1 DEF RecordingFails, TypeOK
<1> HIDE DEF outcome
<1>5. /\ worker' \in [Worker -> Tick]
      /\ \A v \in Worker \ {w} : worker'[v] = worker[v]
      /\ worker'[w].pc = "fail" /\ worker'[w].outcome = outcome
      /\ worker'[w].todo = worker[w].todo /\ worker'[w].row = worker[w].row
      /\ worker'[w].number = worker[w].number
  BY <1>1, <1>2, <1>3, GotoWithFacts
<1>6. faults' \in 0 .. MaxFaults
  BY <1>1, BoundsAssumption DEF RecordingFails, TypeOK
<1>7. /\ UNCHANGED <<state, attempts, holder, marker, notice, balance, evidence,
                     handed, accepted, dueSince>>
      /\ worker[w].pc \in {"record", "finish", "notice"}
  BY DEF RecordingFails, rowVars, billVars
<1>8. /\ misread' \in [Row -> Nat]
      /\ \A q \in Row : misread'[q] \in Nat /\ misread'[q] >= misread[q]
      /\ outcome = "failed" => misread'[r] = misread[r] + 1
  BY <1>1, <1>4 DEF TypeOK
<1>9. TypeOK'
  BY <1>1, <1>5, <1>6, <1>7, <1>8 DEF TypeOK
<1>10. \A q \in Row : Kept(q)
  BY <1>7, <1>8 DEF Kept
<1>11. TickConsistent(w)' /\ ClaimFresh(w)'
  BY <1>1, <1>4, <1>5, <1>7 DEF TickConsistent, ClaimFresh, BeforeSend
<1>12. SendProtected(w)'
  <2>1. accepted[r] <= misread[r] + 1
    BY <1>1 DEF RowConsistent
  <2>2. outcome = "failed" => Unaccepted(r)'
    BY <1>7, <1>8, <2>1 DEF Unaccepted
  <2>3. QED
    BY <1>0, <1>5, <2>2 DEF SendProtected
<1>13. DueKnown(w)'
  BY <1>1, <1>5, <1>7 DEF DueKnown, BatchDone, Due
<1>14. QED
  BY <1>5, <1>7, <1>9, <1>10, <1>11, <1>12, <1>13, StepFrame

(* A process that leaves its row behind keeps the invariant of what remains. *)
LEMMA DoneInvariant ==
  ASSUME IInv, NEW w \in Worker, Done(w),
         \A r \in Row : worker[w].row # r /\ holder[r] = w => Kept(r),
         \A r \in Row : holder'[r] = w => holder[r] = w,
         UNCHANGED <<balance, evidence, dueSince>>
  PROVE  TickConsistent(w)' /\ ClaimFresh(w)' /\ SendProtected(w)' /\ DueKnown(w)'
<1>1. TypeOK /\ TickConsistent(w) /\ ClaimFresh(w) /\ DueKnown(w)
  BY DEF IInv
<1>2. /\ worker'[w].pc = "take" /\ worker'[w].row = NoRow
      /\ worker'[w].todo = worker[w].todo
  BY <1>1, DoneFacts
<1>3. worker[w].todo \subseteq Row
  BY <1>1 DEF TypeOK, Tick
<1>4. TickConsistent(w)'
  BY <1>2, <1>3, RowsAssumption DEF TickConsistent
<1>5. ClaimFresh(w)'
  <2> SUFFICES ASSUME NEW r \in Row, holder'[r] = w, r \in worker[w].todo
               PROVE  /\ state'[r] = "sending"
                      /\ r \in Mail => marker'[r][attempts'[r]] = "none"
    BY <1>2, RowsAssumption DEF ClaimFresh, BeforeSend
  <2>1. Kept(r) /\ holder[r] = w
    BY <1>1 DEF TickConsistent
  <2>2. state[r] = "sending" /\ (r \in Mail => marker[r][attempts[r]] = "none")
    BY <1>1, <2>1 DEF ClaimFresh
  <2>3. attempts[r] \in 1 .. MaxAttempts
    BY <1>1, <2>2 DEF IInv, RowConsistent, TypeOK
  <2>4. QED
    BY <2>1, <2>2, <2>3 DEF Kept
<1>6. SendProtected(w)'
  BY <1>2 DEF SendProtected
<1>7. DueKnown(w)'
  BY <1>1, <1>2 DEF DueKnown, BatchDone, Due
<1>8. QED
  BY <1>4, <1>5, <1>6, <1>7

(* A process that drops its row and changes nothing else. *)
LEMMA NextRowInvariant ==
  ASSUME IInv, NEW w \in Worker, Done(w),
         UNCHANGED <<rowVars, marker, notice, billVars, historyVars, faults>>
  PROVE  IInv'
<1>1. TypeOK
  BY DEF IInv
<1>2. /\ worker' \in [Worker -> Tick]
      /\ \A v \in Worker \ {w} : worker'[v] = worker[v]
  BY <1>1, DoneFacts
<1>3. UNCHANGED <<state, attempts, holder, handed, accepted, dueSince, misread, balance, evidence>>
  BY DEF rowVars, billVars, historyVars
<1>4. TypeOK'
  BY <1>1, <1>2, <1>3 DEF TypeOK
<1>5. \A r \in Row : Kept(r)
  BY <1>1, <1>3, SameRowsKept
<1>6. TickConsistent(w)' /\ ClaimFresh(w)' /\ SendProtected(w)' /\ DueKnown(w)'
  BY <1>3, <1>5, DoneInvariant
<1>7. QED
  BY <1>2, <1>4, <1>6, PlaceFrame

-----------------------------------------------------------------------------
(* Steps of a process that change its row *)

(* The marker is set under the claim; a process without it goes on to the next
   row. *)
LEMMA PrepareAttemptInvariant ==
  ASSUME IInv, NEW w \in Worker, PrepareAttempt(w)
  PROVE  IInv'
<1>0. PICK r \in Row : r = worker[w].row
  BY DEF IInv, TypeOK, TickConsistent, Tick, PrepareAttempt
<1> DEFINE n == worker[w].number
<1>1. /\ TypeOK /\ TickConsistent(w) /\ ClaimFresh(w) /\ DueKnown(w)
      /\ "send" \in Step
  BY DEF IInv, Step
<1>2. worker[w] \in Tick /\ worker[w].pc = "prepare" /\ r = worker[w].row
  BY <1>0, <1>1 DEF TypeOK, PrepareAttempt
<1>3. UNCHANGED <<rowVars, notice, billVars, historyVars, faults>>
  BY DEF PrepareAttempt
<1>4. UNCHANGED <<state, attempts, holder, balance, evidence, handed, accepted, dueSince, misread>>
  BY <1>3 DEF rowVars, billVars, historyVars
<1>5. CASE MayPrepare(w)
  <2>1. Goto(w, "send") /\ marker' = [marker EXCEPT ![r][n] = "sending"]
    BY <1>2, <1>5 DEF PrepareAttempt
  <2>2. /\ worker' \in [Worker -> Tick]
        /\ \A v \in Worker \ {w} : worker'[v] = worker[v]
        /\ worker'[w].pc = "send"
        /\ worker'[w].todo = worker[w].todo /\ worker'[w].row = worker[w].row
        /\ worker'[w].number = n
    BY <1>1, <2>1, GotoFacts
  <2>3. /\ holder[r] = w /\ state[r] = "sending" /\ n = attempts[r]
        /\ r \in Mail => marker[r][n] = "none"
    BY <1>1, <1>2, <1>5 DEF ClaimFresh, BeforeSend, MayPrepare, Owns
  <2>4. RowConsistent(r) /\ n \in 1 .. MaxAttempts
    BY <1>1, <1>2, <2>3 DEF TypeOK, IInv, RowConsistent
  <2>5. /\ \A q \in Row, k \in 1 .. MaxAttempts :
             ~(q = r /\ k = n) => marker'[q][k] = marker[q][k]
        /\ marker'[r][n] = "sending"
        /\ marker' \in [Row -> [1 .. MaxAttempts ->
                          {"none", "sending", "sent", "failed", "uncertain", "paused"}]]
    BY <1>1, <1>2, <2>1, <2>4 DEF TypeOK
  <2>6. TypeOK'
    BY <1>1, <1>3, <1>4, <2>2, <2>5 DEF TypeOK
  <2>7. \A q \in Row : q # r => Kept(q)
    BY <1>1, <1>4, <2>5 DEF Kept, TypeOK
  <2>8. r \in Mail => Unaccepted(r) /\ handed[r] < attempts[r]
    BY <2>3, <2>4 DEF RowConsistent
  <2>9. RowConsistent(r)'
    BY <1>4, <2>3, <2>4, <2>5 DEF RowConsistent, Waits, Unaccepted, AcceptedOnce
  <2>10. TickConsistent(w)'
    BY <1>1, <1>2, <2>2 DEF TickConsistent
  <2>11. ClaimFresh(w)'
    <3> SUFFICES ASSUME NEW q \in Row, holder[q] = w, q \in worker[w].todo
                 PROVE  state[q] = "sending" /\ q # r
                        /\ (q \in Mail => marker'[q][attempts[q]] = "none")
      BY <1>2, <1>4, <2>2 DEF ClaimFresh, BeforeSend
    <3>1. /\ state[q] = "sending" /\ q # r
          /\ q \in Mail => marker[q][attempts[q]] = "none"
      BY <1>1, <1>2 DEF ClaimFresh, TickConsistent
    <3>2. attempts[q] \in 1 .. MaxAttempts
      BY <1>1, <3>1 DEF IInv, RowConsistent, TypeOK
    <3>3. QED
      BY <2>5, <3>1, <3>2
  <2>12. SendProtected(w)'
    BY <1>2, <1>4, <2>2, <2>3, <2>4, <2>5, <2>8 DEF SendProtected, Unaccepted
  <2>13. DueKnown(w)'
    BY <1>1, <1>2, <1>4, <2>2 DEF DueKnown, BatchDone, Due
  <2>14. QED
    <3>1. \A v \in Worker \ {w} : worker'[v] = worker[v] /\ dueSince'[v] = dueSince[v]
      BY <1>4, <2>2
    <3>2. \A q \in Row : holder[q] # w \/ holder'[q] \notin {w, NoWorker} => Kept(q)
      BY <1>4, <2>3, <2>7
    <3>3. \A q \in Row : Kept(q) \/ RowConsistent(q)'
      BY <2>7, <2>9
    <3>4. QED
      BY <1>4, <2>6, <2>10, <2>11, <2>12, <2>13, <3>1, <3>2, <3>3, StepFrame
<1>6. CASE ~MayPrepare(w)
  BY <1>3, <1>6, NextRowInvariant DEF PrepareAttempt
<1>7. QED
  BY <1>5, <1>6

LEMMA CancelReminderInvariant ==
  ASSUME IInv, NEW w \in Worker, CancelReminder(w)
  PROVE  IInv'
<1>0. PICK r \in Row : r = worker[w].row
  BY DEF IInv, TypeOK, TickConsistent, Tick, CancelReminder
<1>1. TypeOK /\ TickConsistent(w) /\ ClaimFresh(w)
  BY DEF IInv
<1>2. worker[w].pc = "cancel" /\ r = worker[w].row /\ Done(w)
  BY <1>0, <1>1 DEF TypeOK, CancelReminder
<1>3. UNCHANGED <<attempts, holder, marker, notice, billVars, historyVars, faults>>
  BY DEF CancelReminder
<1>4. UNCHANGED <<balance, evidence, handed, accepted, dueSince, misread>>
  BY <1>3 DEF billVars, historyVars
<1>5. CASE Owns(w)
  <2>1. state' = [state EXCEPT ![r] = "cancelled"]
    BY <1>2, <1>5 DEF CancelReminder
  <2>2. /\ worker' \in [Worker -> Tick]
        /\ \A v \in Worker \ {w} : worker'[v] = worker[v]
    BY <1>1, <1>2, DoneFacts
  <2>3. /\ state'[r] = "cancelled" /\ \A q \in Row : q # r => state'[q] = state[q]
        /\ state' \in [Row -> {"none", "pending", "sending", "sent", "failed",
                               "uncertain", "cancelled"}]
    BY <1>1, <1>2, <2>1 DEF TypeOK
  <2>4. TypeOK'
    BY <1>1, <1>3, <1>4, <2>2, <2>3 DEF TypeOK
  <2>5. \A q \in Row : q # r => Kept(q)
    BY <1>1, <1>3, <1>4, <2>3 DEF Kept, TypeOK
  <2>6. holder[r] = w /\ state[r] = "sending"
        /\ (r \in Mail => marker[r][attempts[r]] = "none")
    BY <1>1, <1>2, <1>5 DEF Owns, ClaimFresh, BeforeSend
  <2>7. RowConsistent(r)'
    BY <1>2, <1>3, <1>4, <2>3, <2>6 DEF IInv, RowConsistent, Waits, Unaccepted, AcceptedOnce
  <2>8. TickConsistent(w)' /\ ClaimFresh(w)' /\ SendProtected(w)' /\ DueKnown(w)'
    BY <1>2, <1>3, <1>4, <2>5, DoneInvariant
  <2>9. QED
    <3>1. \A v \in Worker \ {w} : worker'[v] = worker[v] /\ dueSince'[v] = dueSince[v]
      BY <1>4, <2>2
    <3>2. \A q \in Row : holder[q] # w \/ holder'[q] \notin {w, NoWorker} => Kept(q)
      BY <1>3, <2>5, <2>6
    <3>3. \A q \in Row : Kept(q) \/ RowConsistent(q)'
      BY <2>5, <2>7
    <3>4. QED
      BY <1>4, <2>4, <2>8, <3>1, <3>2, <3>3, StepFrame
<1>6. CASE ~Owns(w)
  BY <1>2, <1>6, NextRowInvariant DEF CancelReminder, rowVars
<1>7. QED
  BY <1>5, <1>6

LEMMA PauseReminderInvariant ==
  ASSUME IInv, NEW w \in Worker, PauseReminder(w)
  PROVE  IInv'
<1>0. PICK r \in Row : r = worker[w].row
  BY DEF IInv, TypeOK, TickConsistent, Tick, PauseReminder
<1>1. TypeOK /\ TickConsistent(w) /\ ClaimFresh(w)
  BY DEF IInv
<1>2. worker[w].pc = "pause" /\ r = worker[w].row /\ Done(w)
  BY <1>0, <1>1 DEF TypeOK, PauseReminder
<1>3. UNCHANGED <<marker, notice, billVars, historyVars, faults>>
  BY DEF PauseReminder
<1>4. UNCHANGED <<balance, evidence, handed, accepted, dueSince, misread>>
  BY <1>3 DEF billVars, historyVars
<1>5. CASE Owns(w)
  <2>1. /\ state' = [state EXCEPT ![r] = "pending"]
        /\ attempts' = [attempts EXCEPT ![r] = attempts[r] - 1]
        /\ holder' = [holder EXCEPT ![r] = NoWorker]
    BY <1>1, <1>2, <1>5 DEF PauseReminder, TypeOK
  <2>2. /\ worker' \in [Worker -> Tick]
        /\ \A v \in Worker \ {w} : worker'[v] = worker[v]
    BY <1>1, <1>2, DoneFacts
  <2>3. holder[r] = w /\ state[r] = "sending"
        /\ (r \in Mail => marker[r][attempts[r]] = "none")
    BY <1>1, <1>2, <1>5 DEF Owns, ClaimFresh, BeforeSend
  <2>4. RowConsistent(r) /\ attempts[r] \in 1 .. MaxAttempts
    BY <1>1, <1>2, <2>3 DEF IInv, RowConsistent, TypeOK
  <2>5. /\ state'[r] = "pending" /\ attempts'[r] = attempts[r] - 1
        /\ holder'[r] = NoWorker
        /\ \A q \in Row : q # r => /\ state'[q] = state[q] /\ attempts'[q] = attempts[q]
                                   /\ holder'[q] = holder[q]
    BY <1>1, <1>2, <2>1 DEF TypeOK
  <2>6. TypeOK'
    <3>1. attempts[r] - 1 \in 0 .. MaxAttempts
      BY <2>4, BoundsAssumption
    <3>2. /\ state' \in [Row -> {"none", "pending", "sending", "sent", "failed",
                                  "uncertain", "cancelled"}]
          /\ attempts' \in [Row -> 0 .. MaxAttempts]
          /\ holder' \in [Row -> Worker \cup {NoWorker}]
      BY <1>1, <2>1, <3>1 DEF TypeOK
    <3>3. QED
      BY <1>1, <1>3, <1>4, <2>2, <3>2 DEF TypeOK
  <2>7. \A q \in Row : q # r => Kept(q)
    BY <1>1, <1>3, <1>4, <2>5 DEF Kept, TypeOK
  <2>8. RowConsistent(r)'
    <3>1. r \in Mail => /\ Unaccepted(r) /\ accepted[r] <= misread[r] + 1
                       /\ handed[r] < attempts[r] /\ handed[r] \in Nat
      BY <1>1, <1>2, <2>3, <2>4 DEF RowConsistent, TypeOK
    <3>2. r \in Mail => \A n \in 1 .. MaxAttempts : n > attempts'[r] => marker'[r][n] = "none"
      BY <1>3, <2>3, <2>4, <2>5 DEF RowConsistent
    <3>3. attempts'[r] < MaxAttempts
          /\ (r \in Mail => handed'[r] <= attempts'[r])
      BY <1>4, <2>4, <2>5, <3>1, BoundsAssumption
    <3>4. QED
      BY <1>4, <2>5, <3>1, <3>2, <3>3 DEF RowConsistent, Waits, Unaccepted, AcceptedOnce
  <2>9. TickConsistent(w)' /\ ClaimFresh(w)' /\ SendProtected(w)' /\ DueKnown(w)'
    <3>1. \A q \in Row : holder'[q] = w => holder[q] = w
      BY <2>3, <2>5
    <3>2. QED
      BY <1>2, <1>4, <2>7, <3>1, DoneInvariant
  <2>10. QED
    <3>1. \A v \in Worker \ {w} : worker'[v] = worker[v] /\ dueSince'[v] = dueSince[v]
      BY <1>4, <2>2
    <3>2. \A q \in Row : holder[q] # w \/ holder'[q] \notin {w, NoWorker} => Kept(q)
      BY <2>3, <2>5, <2>7
    <3>3. \A q \in Row : Kept(q) \/ RowConsistent(q)'
      BY <2>7, <2>8
    <3>4. QED
      BY <1>4, <2>6, <2>9, <3>1, <3>2, <3>3, StepFrame
<1>6. CASE ~Owns(w)
  BY <1>2, <1>6, NextRowInvariant DEF PauseReminder, rowVars
<1>7. QED
  BY <1>5, <1>6

(* The state a process gives its row while it has the claim. *)
LEMMA StateExcept ==
  ASSUME TypeOK, NEW r \in Row, NEW s \in {"sent", "failed", "uncertain"},
         state' = [state EXCEPT ![r] = s]
  PROVE  /\ state'[r] = s
         /\ \A q \in Row : q # r => state'[q] = state[q]
         /\ state' \in [Row -> {"none", "pending", "sending", "sent", "failed",
                                "uncertain", "cancelled"}]
BY DEF TypeOK

LEMMA ShowInFeedInvariant ==
  ASSUME IInv, NEW w \in Worker, ShowInFeed(w)
  PROVE  IInv'
<1>0. PICK r \in Feed : r = worker[w].row
  BY DEF ShowInFeed
<1>1. TypeOK /\ TickConsistent(w) /\ ClaimFresh(w) /\ DueKnown(w) /\ RowConsistent(r)
      /\ r \in Row /\ r \notin Mail
  BY RowsAssumption DEF IInv, Row
<1>2. /\ worker[w].pc = "send" /\ r = worker[w].row
      /\ GotoWith(w, "finish", "sent")
      /\ handed' = [handed EXCEPT ![r] = 1]
      /\ accepted' = [accepted EXCEPT ![r] = 1]
      /\ state' = IF holder[r] = w THEN [state EXCEPT ![r] = "sent"] ELSE state
  BY <1>0 DEF ShowInFeed, Owns
<1>3. UNCHANGED <<attempts, holder, marker, notice, billVars, dueSince, misread, faults>>
  BY DEF ShowInFeed
<1>4. UNCHANGED <<balance, evidence>>
  BY <1>3 DEF billVars
<1>5. "finish" \in Step /\ "sent" \in Outcome
  BY DEF Step, Outcome
<1>6. /\ worker' \in [Worker -> Tick]
      /\ \A v \in Worker \ {w} : worker'[v] = worker[v]
      /\ worker'[w].pc = "finish" /\ worker'[w].outcome = "sent"
      /\ worker'[w].todo = worker[w].todo /\ worker'[w].row = worker[w].row
  BY <1>1, <1>2, <1>5, GotoWithFacts
<1>7. /\ handed' \in [Row -> Nat] /\ accepted' \in [Row -> Nat]
      /\ accepted'[r] = 1 /\ misread' = misread /\ misread \in [Row -> Nat]
      /\ \A q \in Row : q # r => handed'[q] = handed[q] /\ accepted'[q] = accepted[q]
  BY <1>1, <1>2, <1>3 DEF TypeOK
<1>8. /\ \A q \in Row : q # r => state'[q] = state[q]
      /\ holder[r] = w => state'[r] = "sent"
      /\ holder[r] # w => state'[r] = state[r]
      /\ state' \in [Row -> {"none", "pending", "sending", "sent", "failed",
                             "uncertain", "cancelled"}]
  <2>1. CASE holder[r] = w
    BY <1>1, <1>2, <2>1, StateExcept
  <2>2. CASE holder[r] # w
    BY <1>1, <1>2, <2>2 DEF TypeOK
  <2>3. QED
    BY <2>1, <2>2
<1>9. TypeOK'
  BY <1>1, <1>3, <1>4, <1>6, <1>7, <1>8 DEF TypeOK
<1>10. \A q \in Row : q # r \/ holder[r] # w => Kept(q)
  BY <1>1, <1>3, <1>7, <1>8 DEF Kept
<1>11. holder[r] = w => RowConsistent(r)'
  BY <1>1, <1>7, <1>8 DEF RowConsistent, AcceptedOnce
<1>12. TickConsistent(w)'
  BY <1>1, <1>2, <1>6 DEF TickConsistent
<1>13. ClaimFresh(w)'
  <2> SUFFICES ASSUME NEW q \in Row, holder[q] = w, q \in worker[w].todo
               PROVE  /\ state'[q] = "sending"
                      /\ q \in Mail => marker[q][attempts[q]] = "none"
                      /\ worker'[w].row # q
    BY <1>3, <1>6 DEF ClaimFresh, BeforeSend
  <2>1. q # r
    BY <1>1, <1>2 DEF TickConsistent
  <2>2. QED
    BY <1>1, <1>2, <1>6, <1>8, <2>1 DEF ClaimFresh
<1>14. SendProtected(w)'
  BY <1>6 DEF SendProtected
<1>15. DueKnown(w)'
  BY <1>1, <1>2, <1>3, <1>4, <1>6 DEF DueKnown, BatchDone, Due
<1>16. QED
  <2>1. \A v \in Worker \ {w} : worker'[v] = worker[v] /\ dueSince'[v] = dueSince[v]
    BY <1>3, <1>6
  <2>2. \A q \in Row : holder[q] # w \/ holder'[q] \notin {w, NoWorker} => Kept(q)
    BY <1>3, <1>10
  <2>3. \A q \in Row : Kept(q) \/ RowConsistent(q)'
    BY <1>10, <1>11
  <2>4. QED
    BY <1>4, <1>9, <1>12, <1>13, <1>14, <1>15, <2>1, <2>2, <2>3, StepFrame

(* The mail is handed over under the protection of claim and marker. *)
LEMMA SendMailInvariant ==
  ASSUME IInv, NEW w \in Worker, NEW taken \in BOOLEAN,
         NEW answer \in {"accepted", "refused", "unknown"}, SendMail(w, taken, answer)
  PROVE  IInv'
<1>0. PICK r \in Mail : r = worker[w].row
  BY DEF SendMail
<1>1. /\ TypeOK /\ TickConsistent(w) /\ ClaimFresh(w) /\ SendProtected(w) /\ DueKnown(w)
      /\ RowConsistent(r) /\ r \in Row
  BY DEF IInv, Row
<1>2. /\ worker[w].pc = "send" /\ r = worker[w].row
      /\ handed' = [handed EXCEPT ![r] = handed[r] + 1]
      /\ accepted' = [accepted EXCEPT ![r] = IF taken THEN accepted[r] + 1 ELSE accepted[r]]
      /\ answer = "accepted" => taken
      /\ answer = "refused" => ~taken
  BY <1>0, <1>1 DEF SendMail, TypeOK
<1>3. UNCHANGED <<rowVars, marker, notice, billVars, dueSince, misread, faults>>
  BY DEF SendMail
<1>4. UNCHANGED <<state, attempts, holder, balance, evidence>>
  BY <1>3 DEF rowVars, billVars
<1>5. /\ worker' \in [Worker -> Tick]
      /\ \A v \in Worker \ {w} : worker'[v] = worker[v]
      /\ worker'[w].todo = worker[w].todo /\ worker'[w].row = worker[w].row
      /\ worker'[w].number = worker[w].number
      /\ \/ answer = "accepted" /\ worker'[w].pc = "record"
         \/ answer = "refused" /\ worker'[w].pc = "fail" /\ worker'[w].outcome = "failed"
         \/ answer = "unknown" /\ worker'[w].pc = "fail" /\ worker'[w].outcome = "uncertain"
  <2>1. /\ "record" \in Step /\ "fail" \in Step
        /\ "failed" \in Outcome /\ "uncertain" \in Outcome
    BY DEF Step, Outcome
  <2>2. CASE answer = "accepted"
    <3>1. Goto(w, "record")
      BY <2>2 DEF SendMail
    <3>2. QED
      BY <1>1, <2>1, <2>2, <3>1, GotoFacts
  <2>3. CASE answer = "refused"
    <3>1. GotoWith(w, "fail", "failed")
      BY <2>3 DEF SendMail
    <3>2. QED
      BY <1>1, <2>1, <2>3, <3>1, GotoWithFacts
  <2>4. CASE answer = "unknown"
    <3>1. GotoWith(w, "fail", "uncertain")
      BY <2>4 DEF SendMail
    <3>2. QED
      BY <1>1, <2>1, <2>4, <3>1, GotoWithFacts
  <2>5. QED
    BY <2>2, <2>3, <2>4
<1>6. /\ holder[r] = w /\ state[r] \in {"sending", "uncertain"}
      /\ attempts[r] >= 1 /\ marker[r][attempts[r]] # "none"
      /\ Unaccepted(r) /\ handed[r] < attempts[r]
  BY <1>1, <1>2 DEF SendProtected
<1>7. /\ handed' \in [Row -> Nat] /\ accepted' \in [Row -> Nat]
      /\ handed'[r] = handed[r] + 1
      /\ accepted'[r] = IF taken THEN accepted[r] + 1 ELSE accepted[r]
      /\ handed[r] \in Nat /\ accepted[r] \in Nat /\ attempts[r] \in Nat
      /\ misread'[r] = misread[r] /\ misread[r] \in Nat
      /\ \A q \in Row : q # r => handed'[q] = handed[q] /\ accepted'[q] = accepted[q]
  BY <1>1, <1>2, <1>3 DEF TypeOK
<1>8. TypeOK'
  BY <1>1, <1>3, <1>4, <1>5, <1>7 DEF TypeOK
<1>9. \A q \in Row : q # r => Kept(q)
  BY <1>1, <1>3, <1>4, <1>7 DEF Kept, TypeOK
<1>10. /\ accepted'[r] <= misread'[r] + 1
       /\ taken => AcceptedOnce(r)'
       /\ ~taken => Unaccepted(r)'
       /\ handed'[r] <= attempts'[r]
  BY <1>4, <1>6, <1>7 DEF Unaccepted, AcceptedOnce
<1>11. RowConsistent(r)'
  BY <1>1, <1>3, <1>4, <1>6, <1>10 DEF RowConsistent, Waits
<1>12. TickConsistent(w)'
  BY <1>0, <1>1, <1>2, <1>5 DEF TickConsistent
<1>13. ClaimFresh(w)'
  BY <1>1, <1>3, <1>4, <1>5 DEF ClaimFresh, BeforeSend, TickConsistent
<1>14. SendProtected(w)'
  BY <1>2, <1>5, <1>10 DEF SendProtected
<1>15. DueKnown(w)'
  BY <1>1, <1>2, <1>3, <1>4, <1>5 DEF DueKnown, BatchDone, Due
<1>16. QED
  <2>1. \A v \in Worker \ {w} : worker'[v] = worker[v] /\ dueSince'[v] = dueSince[v]
    BY <1>3, <1>5
  <2>2. \A q \in Row : holder[q] # w \/ holder'[q] \notin {w, NoWorker} => Kept(q)
    BY <1>4, <1>6, <1>9
  <2>3. \A q \in Row : Kept(q) \/ RowConsistent(q)'
    BY <1>9, <1>11
  <2>4. QED
    BY <1>4, <1>8, <1>12, <1>13, <1>14, <1>15, <2>1, <2>2, <2>3, StepFrame

LEMMA RecordSentInvariant ==
  ASSUME IInv, NEW w \in Worker, RecordSent(w)
  PROVE  IInv'
<1>0. PICK r \in Row : r = worker[w].row
  BY DEF IInv, TypeOK, TickConsistent, Tick, RecordSent
<1>1. /\ TypeOK /\ TickConsistent(w) /\ ClaimFresh(w) /\ SendProtected(w) /\ DueKnown(w)
      /\ RowConsistent(r)
  BY DEF IInv
<1>2. /\ worker[w].pc = "record" /\ r = worker[w].row
      /\ GotoWith(w, "finish", "sent")
      /\ state' = IF holder[r] = w THEN [state EXCEPT ![r] = "sent"] ELSE state
  BY <1>0 DEF RecordSent, Owns
<1>3. UNCHANGED <<attempts, holder, marker, notice, billVars, historyVars, faults>>
  BY DEF RecordSent
<1>4. UNCHANGED <<balance, evidence, handed, accepted, dueSince, misread>>
  BY <1>3 DEF billVars, historyVars
<1>5. "finish" \in Step /\ "sent" \in Outcome
  BY DEF Step, Outcome
<1>6. /\ worker' \in [Worker -> Tick]
      /\ \A v \in Worker \ {w} : worker'[v] = worker[v]
      /\ worker'[w].pc = "finish" /\ worker'[w].outcome = "sent"
      /\ worker'[w].todo = worker[w].todo /\ worker'[w].row = worker[w].row
  BY <1>1, <1>2, <1>5, GotoWithFacts
<1>7. /\ \A q \in Row : q # r => state'[q] = state[q]
      /\ holder[r] = w => state'[r] = "sent"
      /\ holder[r] # w => state'[r] = state[r]
      /\ state' \in [Row -> {"none", "pending", "sending", "sent", "failed",
                             "uncertain", "cancelled"}]
  <2>1. CASE holder[r] = w
    BY <1>1, <1>2, <2>1, StateExcept
  <2>2. CASE holder[r] # w
    BY <1>1, <1>2, <2>2 DEF TypeOK
  <2>3. QED
    BY <2>1, <2>2
<1>8. TypeOK'
  BY <1>1, <1>3, <1>4, <1>6, <1>7 DEF TypeOK
<1>9. \A q \in Row : q # r \/ holder[r] # w => Kept(q)
  BY <1>1, <1>3, <1>4, <1>7 DEF Kept, TypeOK
<1>10. holder[r] = w => RowConsistent(r)'
  <2>1. holder[r] = w /\ r \in Mail => AcceptedOnce(r)
    BY <1>1, <1>2 DEF SendProtected
  <2>2. r \in Mail
    BY <1>1, <1>2 DEF TickConsistent
  <2>3. QED
    BY <1>1, <1>3, <1>4, <1>7, <2>1, <2>2 DEF RowConsistent, Waits, Unaccepted, AcceptedOnce
<1>11. TickConsistent(w)'
  BY <1>1, <1>2, <1>6 DEF TickConsistent
<1>12. ClaimFresh(w)'
  <2> SUFFICES ASSUME NEW q \in Row, holder[q] = w, q \in worker[w].todo
               PROVE  /\ state'[q] = "sending"
                      /\ q \in Mail => marker[q][attempts[q]] = "none"
                      /\ worker'[w].row # q
    BY <1>3, <1>6 DEF ClaimFresh, BeforeSend
  <2>1. q # r
    BY <1>1, <1>2 DEF TickConsistent
  <2>2. QED
    BY <1>1, <1>2, <1>6, <1>7, <2>1 DEF ClaimFresh
<1>13. SendProtected(w)'
  BY <1>6 DEF SendProtected
<1>14. DueKnown(w)'
  BY <1>1, <1>2, <1>4, <1>6 DEF DueKnown, BatchDone, Due
<1>15. QED
  <2>1. \A v \in Worker \ {w} : worker'[v] = worker[v] /\ dueSince'[v] = dueSince[v]
    BY <1>4, <1>6
  <2>2. \A q \in Row : holder[q] # w \/ holder'[q] \notin {w, NoWorker} => Kept(q)
    BY <1>3, <1>9
  <2>3. \A q \in Row : Kept(q) \/ RowConsistent(q)'
    BY <1>9, <1>10
  <2>4. QED
    BY <1>4, <1>8, <1>11, <1>12, <1>13, <1>14, <2>1, <2>2, <2>3, StepFrame

LEMMA FailInvariant ==
  ASSUME IInv, NEW w \in Worker, Fail(w)
  PROVE  IInv'
<1>0. PICK r \in Row : r = worker[w].row
  BY DEF IInv, TypeOK, TickConsistent, Tick, Fail
<1> DEFINE s == worker[w].outcome
<1>1. /\ TypeOK /\ TickConsistent(w) /\ ClaimFresh(w) /\ SendProtected(w) /\ DueKnown(w)
      /\ RowConsistent(r) /\ "finish" \in Step
  BY DEF IInv, Step
<1>2. worker[w].pc = "fail" /\ r = worker[w].row /\ s \in {"failed", "uncertain"}
  BY <1>0, <1>1 DEF Fail, TickConsistent
<1>3. UNCHANGED <<attempts, holder, marker, notice, billVars, historyVars, faults>>
  BY DEF Fail
<1>4. UNCHANGED <<balance, evidence, handed, accepted, dueSince, misread>>
  BY <1>3 DEF billVars, historyVars
<1>5. CASE Owns(w)
  <2>1. holder[r] = w /\ state' = [state EXCEPT ![r] = s] /\ Goto(w, "finish")
    BY <1>2, <1>5 DEF Fail, Owns
  <2>2. /\ worker' \in [Worker -> Tick]
        /\ \A v \in Worker \ {w} : worker'[v] = worker[v]
        /\ worker'[w].pc = "finish" /\ worker'[w].outcome = s
        /\ worker'[w].todo = worker[w].todo /\ worker'[w].row = worker[w].row
    BY <1>1, <2>1, GotoFacts
  <2>3. /\ state'[r] = s /\ \A q \in Row : q # r => state'[q] = state[q]
        /\ state' \in [Row -> {"none", "pending", "sending", "sent", "failed",
                               "uncertain", "cancelled"}]
    BY <1>1, <1>2, <2>1, StateExcept
  <2>4. TypeOK'
    BY <1>1, <1>3, <1>4, <2>2, <2>3 DEF TypeOK
  <2>5. \A q \in Row : q # r => Kept(q)
    BY <1>1, <1>3, <1>4, <2>3 DEF Kept, TypeOK
  <2>6. RowConsistent(r)'
    <3>1. r \in Mail /\ s = "failed" => Unaccepted(r)
      BY <1>1, <1>2, <2>1 DEF SendProtected
    <3>2. QED
      BY <1>1, <1>2, <1>3, <1>4, <2>3, <3>1 DEF RowConsistent, Waits, Unaccepted, AcceptedOnce
  <2>7. TickConsistent(w)'
    BY <1>1, <1>2, <2>2 DEF TickConsistent
  <2>8. ClaimFresh(w)'
    <3> SUFFICES ASSUME NEW q \in Row, holder[q] = w, q \in worker[w].todo
                 PROVE  /\ state'[q] = "sending"
                        /\ q \in Mail => marker[q][attempts[q]] = "none"
                        /\ worker'[w].row # q
      BY <1>3, <2>2 DEF ClaimFresh, BeforeSend
    <3>1. q # r
      BY <1>1, <1>2 DEF TickConsistent
    <3>2. QED
      BY <1>1, <1>2, <2>2, <2>3, <3>1 DEF ClaimFresh
  <2>9. SendProtected(w)' /\ DueKnown(w)'
    BY <1>1, <1>2, <1>4, <2>2 DEF SendProtected, DueKnown, BatchDone, Due
  <2>10. QED
    <3>1. \A v \in Worker \ {w} : worker'[v] = worker[v] /\ dueSince'[v] = dueSince[v]
      BY <1>4, <2>2
    <3>2. \A q \in Row : holder[q] # w \/ holder'[q] \notin {w, NoWorker} => Kept(q)
      BY <1>3, <2>1, <2>5
    <3>3. \A q \in Row : Kept(q) \/ RowConsistent(q)'
      BY <2>5, <2>6
    <3>4. QED
      BY <1>4, <2>4, <2>7, <2>8, <2>9, <3>1, <3>2, <3>3, StepFrame
<1>6. CASE ~Owns(w)
  BY <1>6, NextRowInvariant DEF Fail, rowVars
<1>7. QED
  BY <1>5, <1>6

(* Whoever holds the row, no marker appears or disappears. *)
LEMMA FinishAttemptInvariant ==
  ASSUME IInv, NEW w \in Worker, FinishAttempt(w)
  PROVE  IInv'
<1>0. PICK r \in Row : r = worker[w].row
  BY DEF IInv, TypeOK, TickConsistent, Tick, FinishAttempt
<1> DEFINE n == worker[w].number
           o == worker[w].outcome
<1>1. /\ TypeOK /\ TickConsistent(w) /\ ClaimFresh(w) /\ DueKnown(w)
      /\ "notice" \in Step
  BY DEF IInv, Step
<1>2. /\ worker[w].pc = "finish" /\ r = worker[w].row
      /\ o \in {"sent", "failed", "uncertain"}
  BY <1>0, <1>1 DEF FinishAttempt, TickConsistent, TypeOK, Tick, Outcome
<1>3. /\ marker' = IF marker[r][n] # "none" THEN [marker EXCEPT ![r][n] = o] ELSE marker
      /\ UNCHANGED <<rowVars, notice, billVars, historyVars, faults>>
      /\ Goto(w, "notice") \/ Done(w)
  BY <1>2 DEF FinishAttempt
<1>4. UNCHANGED <<state, attempts, holder, balance, evidence, handed, accepted, dueSince, misread>>
  BY <1>3 DEF rowVars, billVars, historyVars
<1>5. /\ marker' \in [Row -> [1 .. MaxAttempts ->
                        {"none", "sending", "sent", "failed", "uncertain", "paused"}]]
      /\ \A q \in Row, k \in 1 .. MaxAttempts :
           marker'[q][k] = "none" <=> marker[q][k] = "none"
  <2>1. CASE marker[r][n] # "none"
    <3>1. marker' = [marker EXCEPT ![r][n] = o]
      BY <1>3, <2>1
    <3>2. QED
      BY <1>1, <1>2, <2>1, <3>1 DEF TypeOK
  <2>2. CASE marker[r][n] = "none"
    BY <1>1, <1>3, <2>2 DEF TypeOK
  <2>3. QED
    BY <2>1, <2>2
<1>6. \A q \in Row : Kept(q)
  BY <1>1, <1>4, <1>5 DEF Kept, TypeOK
<1>7. /\ worker' \in [Worker -> Tick]
      /\ \A v \in Worker \ {w} : worker'[v] = worker[v]
  BY <1>1, <1>3, GotoFacts, DoneFacts
<1>8. TypeOK'
  BY <1>1, <1>3, <1>4, <1>5, <1>7 DEF TypeOK
<1>9. TickConsistent(w)' /\ ClaimFresh(w)' /\ SendProtected(w)' /\ DueKnown(w)'
  <2>1. CASE Done(w)
    BY <1>4, <1>6, <2>1, DoneInvariant
  <2>2. CASE Goto(w, "notice")
    <3>1. /\ worker'[w].pc = "notice" /\ worker'[w].todo = worker[w].todo
          /\ worker'[w].row = worker[w].row
      BY <1>1, <2>2, GotoFacts
    <3>2. TickConsistent(w)' /\ SendProtected(w)' /\ DueKnown(w)'
      BY <1>1, <1>2, <1>4, <3>1 DEF TickConsistent, SendProtected, DueKnown, BatchDone, Due
    <3>3. ClaimFresh(w)'
      <4> SUFFICES ASSUME NEW q \in Row, holder[q] = w, q \in worker[w].todo
                   PROVE  /\ state[q] = "sending"
                          /\ q \in Mail => marker'[q][attempts[q]] = "none"
                          /\ worker[w].row # q
        BY <1>4, <3>1 DEF ClaimFresh, BeforeSend
      <4>1. /\ state[q] = "sending" /\ (q \in Mail => marker[q][attempts[q]] = "none")
            /\ worker[w].row # q
        BY <1>1 DEF ClaimFresh, TickConsistent
      <4>2. attempts[q] \in 1 .. MaxAttempts
        BY <1>1, <4>1 DEF IInv, RowConsistent, TypeOK
      <4>3. QED
        BY <1>5, <4>1, <4>2
    <3>4. QED
      BY <3>2, <3>3
  <2>3. QED
    BY <1>3, <2>1, <2>2
<1>10. QED
  <2>1. \A v \in Worker \ {w} : worker'[v] = worker[v] /\ dueSince'[v] = dueSince[v]
    BY <1>4, <1>7
  <2>2. QED
    BY <1>4, <1>6, <1>8, <1>9, <2>1, StepFrame

LEMMA UpdateNoticeInvariant ==
  ASSUME IInv, NEW w \in Worker, UpdateNotice(w)
  PROVE  IInv'
<1>1. TypeOK /\ Done(w)
  BY DEF IInv, UpdateNotice
<1>2. /\ worker' \in [Worker -> Tick]
      /\ \A v \in Worker \ {w} : worker'[v] = worker[v]
  BY <1>1, DoneFacts
<1>3. UNCHANGED <<rowVars, marker, billVars, historyVars, faults>>
  BY DEF UpdateNotice
<1>4. UNCHANGED <<state, attempts, holder, handed, accepted, dueSince, misread, balance, evidence>>
  BY <1>3 DEF rowVars, billVars, historyVars
<1>5. notice' \in [Decision -> {"queued", "sent", "failed"}]
  BY <1>1 DEF UpdateNotice, TypeOK
<1>6. TypeOK'
  BY <1>1, <1>2, <1>3, <1>4, <1>5 DEF TypeOK
<1>7. \A r \in Row : Kept(r)
  BY <1>1, <1>3, <1>4, SameRowsKept
<1>8. TickConsistent(w)' /\ ClaimFresh(w)' /\ SendProtected(w)' /\ DueKnown(w)'
  BY <1>1, <1>4, <1>7, DoneInvariant
<1>9. QED
  BY <1>2, <1>3, <1>6, <1>8, PlaceFrame

-----------------------------------------------------------------------------
(* Steps of the queue and of billing *)

(* No process moves, and no row that one has the claim of for a send changes. *)
LEMMA EnvironmentFrame ==
  ASSUME IInv, TypeOK',
         UNCHANGED <<worker, holder, attempts, marker, handed, accepted, misread>>,
         \A r \in Row : \/ state'[r] = state[r]
                        \/ Waits(r) /\ state'[r] \in {"pending", "cancelled"}
                           /\ (state[r] # "none" => state'[r] = "cancelled"),
         \A w \in Worker : /\ dueSince[w] => dueSince'[w]
                           /\ Due' => Due \/ dueSince'[w]
  PROVE  IInv'
<1>1. ASSUME NEW r \in Row PROVE RowConsistent(r)'
  BY DEF IInv, RowConsistent, Waits, Unaccepted, AcceptedOnce
<1>2. ASSUME NEW w \in Worker
      PROVE  TickConsistent(w)' /\ ClaimFresh(w)' /\ SendProtected(w)' /\ DueKnown(w)'
  <2>1. TickConsistent(w) /\ ClaimFresh(w) /\ SendProtected(w) /\ DueKnown(w)
    BY DEF IInv
  <2>2. TickConsistent(w)'
    BY <2>1 DEF TickConsistent
  <2>3. ClaimFresh(w)'
    BY <2>1 DEF ClaimFresh, Waits
  <2>4. SendProtected(w)'
    BY <2>1 DEF SendProtected, Unaccepted, AcceptedOnce, Waits, Row
  <2>5. DueKnown(w)'
    BY <2>1 DEF DueKnown, BatchDone
  <2>6. QED
    BY <2>2, <2>3, <2>4, <2>5
<1>3. QED
  BY <1>1, <1>2 DEF IInv

LEMMA QueueInvariant ==
  ASSUME IInv, NEW r \in Row, Queue(r)
  PROVE  IInv'
<1>1. TypeOK
  BY DEF IInv
<1>2. UNCHANGED <<attempts, holder, marker, notice, balance, evidence, worker, handed,
                  accepted, dueSince, misread, faults>>
  BY DEF Queue, billVars, historyVars
<1>3. state' = [state EXCEPT ![r] = "pending"] /\ state[r] = "none"
  BY DEF Queue
<1>5. TypeOK'
  BY <1>1, <1>2, <1>3 DEF TypeOK
<1>6. \A q \in Row : \/ state'[q] = state[q]
                     \/ Waits(q) /\ state'[q] = "pending" /\ state[q] = "none"
  BY <1>1, <1>3 DEF TypeOK, Waits
<1>7. Due' = Due
  BY <1>2 DEF Due
<1>8. QED
  BY <1>2, <1>5, <1>6, <1>7, EnvironmentFrame

LEMMA RecordCashPaymentInvariant ==
  ASSUME IInv, NEW left \in 0 .. MaxBalance, RecordCashPayment(left)
  PROVE  IInv'
<1>1. TypeOK /\ Due
  BY DEF IInv, RecordCashPayment
<1>2. UNCHANGED <<attempts, holder, marker, notice, evidence, worker, handed,
                  accepted, dueSince, misread, faults>>
  BY DEF RecordCashPayment, historyVars
<1>3. \A q \in Row : \/ state'[q] = state[q]
                     \/ /\ Waits(q) /\ state[q] # "none"
                        /\ state'[q] = "cancelled"
  BY DEF RecordCashPayment, Waits
<1>4. state' \in [Row -> {"none", "pending", "sending", "sent", "failed",
                          "uncertain", "cancelled"}]
  BY <1>1 DEF RecordCashPayment, TypeOK
<1>5. TypeOK'
  BY <1>1, <1>2, <1>4 DEF RecordCashPayment, TypeOK
<1>6. QED
  BY <1>1, <1>2, <1>3, <1>5, EnvironmentFrame

LEMMA SubmitEvidenceInvariant ==
  ASSUME IInv, SubmitEvidence
  PROVE  IInv'
<1>1. TypeOK
  BY DEF IInv
<1>2. /\ UNCHANGED <<state, attempts, holder, marker, notice, balance, worker,
                     handed, accepted, dueSince, misread, faults>>
      /\ evidence' = TRUE
  BY DEF SubmitEvidence, rowVars, historyVars
<1>3. TypeOK' /\ ~Due'
  BY <1>1, <1>2 DEF TypeOK, Due
<1>4. QED
  BY <1>2, <1>3, EnvironmentFrame

LEMMA VerifyPaymentInvariant ==
  ASSUME IInv, NEW left \in 0 .. MaxBalance, VerifyPayment(left)
  PROVE  IInv'
<1>1. TypeOK
  BY DEF IInv
<1>2. /\ UNCHANGED <<state, attempts, holder, marker, notice, worker, handed,
                     accepted, misread, faults>>
      /\ evidence' = FALSE /\ balance' = left
      /\ dueSince' = [w \in Worker |-> dueSince[w] \/ left > 0]
  BY DEF VerifyPayment, rowVars
<1>3. dueSince' \in [Worker -> BOOLEAN]
  BY <1>1, <1>2 DEF TypeOK
<1>4. TypeOK'
  BY <1>1, <1>2, <1>3 DEF TypeOK
<1>5. \A w \in Worker : /\ dueSince[w] => dueSince'[w]
                        /\ Due' => dueSince'[w]
  BY <1>2 DEF Due
<1>6. QED
  BY <1>2, <1>4, <1>5, EnvironmentFrame
-----------------------------------------------------------------------------
(* Steps that concern the rows of several processes *)

(* A claimed row waited: no process is about to send it, and what an earlier
   holder still does with it is no longer under a claim. *)
LEMMA ClaimDeliveriesInvariant ==
  ASSUME IInv, NEW w \in Worker, NEW S \in SUBSET Row, ClaimDeliveries(w, S)
  PROVE  IInv'
<1>1. /\ TypeOK /\ TickConsistent(w)
      /\ worker[w].pc = "take" /\ worker[w].row = NoRow /\ worker[w].todo = {}
      /\ worker[w].left \in 1 .. 2 /\ worker[w] \in Tick
  BY DEF IInv, TickConsistent, ClaimDeliveries, BatchDone, TypeOK, Tick
<1>2. /\ state' = [r \in Row |-> IF r \in S THEN "sending" ELSE state[r]]
      /\ attempts' = [r \in Row |-> IF r \in S THEN attempts[r] + 1 ELSE attempts[r]]
      /\ holder' = [r \in Row |-> IF r \in S THEN w ELSE holder[r]]
      /\ dueSince' = [dueSince EXCEPT ![w] = Due]
      /\ UNCHANGED <<marker, notice, balance, evidence, handed, accepted, misread, faults>>
      /\ \A r \in S : state[r] \in {"pending", "failed"} /\ attempts[r] < MaxAttempts
  BY DEF ClaimDeliveries, Claimable, billVars
<1> DEFINE left == worker[w].left - 1
           t == [worker[w] EXCEPT !.left = left, !.todo = S]
<1>3. /\ t \in Tick /\ t.pc = "take" /\ t.row = NoRow /\ t.todo = S
  <2>1. left \in 0 .. 2
    BY <1>1
  <2> HIDE DEF left
  <2>2. QED
    BY <1>1, <2>1 DEF Tick
<1>4. worker' = [worker EXCEPT ![w] = t]
  BY <1>1 DEF ClaimDeliveries, TypeOK
<1> HIDE DEF t
<1>5. /\ worker' \in [Worker -> Tick] /\ worker'[w] = t
      /\ \A v \in Worker \ {w} : worker'[v] = worker[v]
  BY <1>1, <1>3, <1>4 DEF TypeOK
<1>6. /\ dueSince' \in [Worker -> BOOLEAN] /\ dueSince'[w] = Due
      /\ \A v \in Worker \ {w} : dueSince'[v] = dueSince[v]
  BY <1>1, <1>2 DEF TypeOK, Due
<1>7. attempts' \in [Row -> 0 .. MaxAttempts]
  BY <1>1, <1>2, BoundsAssumption DEF TypeOK
<1>8. TypeOK'
  BY <1>1, <1>2, <1>5, <1>6, <1>7 DEF TypeOK
<1>9. \A r \in Row \ S : Kept(r)
  BY <1>1, <1>2 DEF Kept, TypeOK
<1>10. ASSUME NEW r \in S
       PROVE  /\ state'[r] = "sending" /\ attempts'[r] = attempts[r] + 1 /\ holder'[r] = w
              /\ state[r] \in {"pending", "failed"}
              /\ attempts[r] \in 0 .. MaxAttempts /\ attempts[r] < MaxAttempts
              /\ RowConsistent(r)
  BY <1>1, <1>2 DEF IInv, TypeOK
<1>11. ASSUME NEW r \in S, r \in Mail
       PROVE  marker[r][attempts[r] + 1] = "none"
  <2>1. attempts[r] + 1 \in 1 .. MaxAttempts /\ attempts[r] + 1 > attempts[r]
    BY <1>10, BoundsAssumption
  <2>2. QED
    BY <1>10, <1>11, <2>1 DEF RowConsistent
<1>12. ASSUME NEW r \in S PROVE RowConsistent(r)'
  <2>1. attempts'[r] >= 1 /\ state'[r] = "sending"
    BY <1>10
  <2>2. ASSUME r \in Mail
        PROVE  /\ \A n \in 1 .. MaxAttempts : n > attempts'[r] => marker'[r][n] = "none"
               /\ handed'[r] < attempts'[r]
               /\ accepted'[r] <= misread'[r] + 1
               /\ Unaccepted(r)'
    <3>1. /\ \A n \in 1 .. MaxAttempts : n > attempts[r] => marker[r][n] = "none"
          /\ handed[r] <= attempts[r] /\ handed[r] \in Nat
          /\ accepted[r] <= misread[r] + 1
          /\ Unaccepted(r)
      BY <1>1, <1>10, <2>2 DEF RowConsistent, Waits, TypeOK
    <3>2. /\ attempts'[r] = attempts[r] + 1 /\ attempts[r] \in Nat
          /\ marker' = marker /\ handed' = handed
          /\ accepted' = accepted /\ misread' = misread
      <4>1. attempts'[r] = attempts[r] + 1 /\ attempts[r] \in Nat
        BY <1>10
      <4>2. QED
        BY <1>2, <4>1
    <3>3. \A n \in 1 .. MaxAttempts : n > attempts'[r] => n > attempts[r]
      BY <3>2, BoundsAssumption
    <3>4. handed'[r] < attempts'[r]
      BY <3>1, <3>2
    <3>5. Unaccepted(r)'
      BY <3>1, <3>2 DEF Unaccepted
    <3>6. QED
      BY <3>1, <3>2, <3>3, <3>4, <3>5
  <2>3. handed[r] \in Nat /\ attempts'[r] \in Nat
    BY <1>1, <1>10 DEF TypeOK
  <2>4. QED
    BY <1>2, <2>1, <2>2, <2>3 DEF RowConsistent, Waits
<1>13. \A r \in Row : RowConsistent(r)'
  BY <1>9, <1>12, RowFrame
<1>14. TickConsistent(w)' /\ SendProtected(w)' /\ DueKnown(w)'
  <2>1. TickConsistent(w)'
    BY <1>3, <1>5, RowsAssumption DEF TickConsistent
  <2>2. SendProtected(w)'
    BY <1>3, <1>5 DEF SendProtected
  <2>3. DueKnown(w)'
    BY <1>2, <1>3, <1>5, <1>6, RowsAssumption DEF DueKnown, Due
  <2>4. QED
    BY <2>1, <2>2, <2>3
<1>15. ClaimFresh(w)'
  <2> SUFFICES ASSUME NEW r \in S
               PROVE  /\ state'[r] = "sending"
                      /\ r \in Mail => marker'[r][attempts'[r]] = "none"
                      /\ worker'[w].row # r
    BY <1>3, <1>5 DEF ClaimFresh, BeforeSend
  <2>1. worker'[w].row # r
    BY <1>3, <1>5, RowsAssumption
  <2>2. QED
    BY <1>2, <1>10, <1>11, <2>1
<1>16. ASSUME NEW v \in Worker \ {w}
       PROVE  TickConsistent(v)' /\ ClaimFresh(v)' /\ SendProtected(v)' /\ DueKnown(v)'
  <2>1. TickConsistent(v) /\ ClaimFresh(v) /\ SendProtected(v) /\ DueKnown(v)
    BY DEF IInv
  <2>2. TickConsistent(v)' /\ DueKnown(v)'
    BY <1>2, <1>5, <1>6, <2>1 DEF TickConsistent, DueKnown, Due, BatchDone
  <2>3. ClaimFresh(v)'
    BY <1>2, <1>5, <1>10, <2>1 DEF ClaimFresh
  <2>4. SendProtected(v)'
    BY <1>2, <1>5, <1>10, <2>1 DEF SendProtected, Unaccepted, AcceptedOnce, Row
  <2>5. QED
    BY <2>2, <2>3, <2>4
<1>17. QED
  BY <1>8, <1>13, <1>14, <1>15, <1>16 DEF IInv

(* A recovered mail has no marker, so it was not handed over under its attempt
   and nobody is about to send it; a marked one is never claimed again. *)
LEMMA ReconcileClaimsInvariant ==
  ASSUME IInv, NEW w \in Worker, NEW S \in SUBSET Row, ReconcileClaims(w, S)
  PROVE  IInv'
<1> DEFINE safe == {r \in S : SafeToRetry(r)}
<1>1. /\ TypeOK /\ TickConsistent(w)
      /\ worker[w].pc = "take" /\ worker[w].row = NoRow /\ worker[w].todo = {}
      /\ worker[w] \in Tick
  BY DEF IInv, TickConsistent, ReconcileClaims, BatchDone, TypeOK
<1>2. \A r \in S : /\ state[r] = "sending" /\ RowConsistent(r)
                   /\ attempts[r] \in 1 .. MaxAttempts
  BY <1>1 DEF ReconcileClaims, IInv, RowConsistent, TypeOK
<1>3. /\ state' = [r \in Row |-> IF r \in safe THEN "pending"
                                 ELSE IF r \in S THEN "uncertain" ELSE state[r]]
      /\ attempts' = [r \in Row |-> IF r \in safe /\ attempts[r] > 0
                                      THEN attempts[r] - 1 ELSE attempts[r]]
      /\ holder' = [r \in Row |-> IF r \in safe THEN NoWorker ELSE holder[r]]
      /\ marker' = [r \in Row |->
           IF r \in S /\ attempts[r] > 0 /\ marker[r][attempts[r]] # "none"
             THEN [marker[r] EXCEPT ![attempts[r]] =
                     IF r \in safe THEN "paused" ELSE "uncertain"]
             ELSE marker[r]]
      /\ notice' = RepairedNotices(state')
      /\ faults' = faults \/ (faults < MaxFaults /\ faults' = faults + 1)
      /\ UNCHANGED <<balance, evidence, handed, accepted, dueSince, misread>>
  BY DEF ReconcileClaims, billVars, historyVars
<1>4. \A r \in S : r \notin safe => r \in Mail /\ marker[r][attempts[r]] # "none"
  BY DEF SafeToRetry, Row
<1>5. \A r \in S : r \in safe /\ r \in Mail => marker[r][attempts[r]] = "none"
  BY RowsAssumption DEF SafeToRetry
<1> HIDE DEF safe
<1>6. safe \subseteq S
  BY DEF safe
<1> DEFINE t == [worker[w] EXCEPT !.left = 2]
<1>7. t \in Tick /\ t.pc = "take" /\ t.row = NoRow /\ t.todo = {}
  BY <1>1 DEF Tick
<1>8. worker' = [worker EXCEPT ![w] = t]
  BY DEF ReconcileClaims
<1> HIDE DEF t
<1>9. /\ worker' \in [Worker -> Tick] /\ worker'[w] = t
      /\ \A v \in Worker \ {w} : worker'[v] = worker[v]
  BY <1>1, <1>7, <1>8 DEF TypeOK
<1>10. ASSUME NEW r \in Row
       PROVE  /\ marker'[r] \in [1 .. MaxAttempts ->
                   {"none", "sending", "sent", "failed", "uncertain", "paused"}]
              /\ \A n \in 1 .. MaxAttempts : marker'[r][n] = "none" <=> marker[r][n] = "none"
  <2>1. marker[r] \in [1 .. MaxAttempts ->
          {"none", "sending", "sent", "failed", "uncertain", "paused"}]
    BY <1>1 DEF TypeOK
  <2>2. CASE r \in S /\ attempts[r] > 0 /\ marker[r][attempts[r]] # "none"
    <3>1. PICK s \in {"paused", "uncertain"} :
            marker'[r] = [marker[r] EXCEPT ![attempts[r]] = s]
      BY <1>3, <2>2
    <3>2. attempts[r] \in 1 .. MaxAttempts
      BY <1>2, <2>2
    <3>3. QED
      BY <2>1, <2>2, <3>1, <3>2
  <2>3. CASE ~(r \in S /\ attempts[r] > 0 /\ marker[r][attempts[r]] # "none")
    BY <1>3, <2>1, <2>3
  <2>4. QED
    BY <2>2, <2>3
<1>11. TypeOK'
  <2>1. attempts' \in [Row -> 0 .. MaxAttempts]
    <3>1. \A r \in Row : attempts[r] \in 0 .. MaxAttempts
      BY <1>1 DEF TypeOK
    <3>2. \A k \in 0 .. MaxAttempts : k > 0 => k - 1 \in 0 .. MaxAttempts
      BY BoundsAssumption
    <3>3. \A r \in Row : (IF r \in safe /\ attempts[r] > 0
                             THEN attempts[r] - 1 ELSE attempts[r]) \in 0 .. MaxAttempts
      BY <3>1, <3>2
    <3>4. QED
      BY <1>3, <3>3
  <2>2. marker' \in [Row -> [1 .. MaxAttempts ->
                      {"none", "sending", "sent", "failed", "uncertain", "paused"}]]
    BY <1>3, <1>10
  <2>3. faults' \in 0 .. MaxFaults
    BY <1>1, <1>3, BoundsAssumption DEF TypeOK
  <2>4. notice' \in [Decision -> {"queued", "sent", "failed"}]
    BY <1>1, <1>3 DEF TypeOK, RepairedNotices
  <2>5. state' \in [Row -> {"none", "pending", "sending", "sent", "failed",
                            "uncertain", "cancelled"}]
    BY <1>1, <1>3 DEF TypeOK
  <2>6. holder' \in [Row -> Worker \cup {NoWorker}]
    BY <1>1, <1>3 DEF TypeOK
  <2>7. QED
    BY <1>1, <1>3, <1>9, <2>1, <2>2, <2>3, <2>4, <2>5, <2>6 DEF TypeOK
<1>12. \A r \in Row \ S : Kept(r)
  BY <1>1, <1>3, <1>6, <1>10 DEF Kept, TypeOK
<1>13. ASSUME NEW r \in S, r \in safe PROVE RowConsistent(r)'
  <2>1. /\ state'[r] = "pending" /\ attempts'[r] = attempts[r] - 1
        /\ attempts[r] \in 1 .. MaxAttempts /\ state[r] = "sending" /\ RowConsistent(r)
    BY <1>2, <1>3, <1>13
  <2>2. ASSUME r \in Mail
        PROVE  /\ \A n \in 1 .. MaxAttempts : n > attempts'[r] => marker'[r][n] = "none"
               /\ handed'[r] <= attempts'[r]
               /\ accepted'[r] <= misread'[r] + 1
               /\ Unaccepted(r)'
    <3>1. /\ marker[r][attempts[r]] = "none"
          /\ \A n \in 1 .. MaxAttempts : n > attempts[r] => marker[r][n] = "none"
          /\ handed[r] < attempts[r] /\ handed[r] \in Nat
          /\ accepted[r] <= misread[r] + 1
          /\ Unaccepted(r)
      BY <1>1, <1>5, <1>13, <2>1, <2>2 DEF RowConsistent, TypeOK
    <3>2. ASSUME NEW n \in 1 .. MaxAttempts, n > attempts'[r] PROVE marker'[r][n] = "none"
      <4>1. n = attempts[r] \/ n > attempts[r]
        BY <2>1, <3>2
      <4>2. QED
        BY <1>10, <3>1, <4>1
    <3>3. handed'[r] <= attempts'[r]
      BY <1>3, <2>1, <3>1
    <3>4. QED
      BY <1>3, <3>1, <3>2, <3>3 DEF Unaccepted
  <2>3. attempts'[r] < MaxAttempts
    BY <2>1, BoundsAssumption
  <2>4. QED
    BY <2>1, <2>2, <2>3 DEF RowConsistent
<1>14. ASSUME NEW r \in S, r \notin safe PROVE RowConsistent(r)'
  <2>1. /\ state'[r] = "uncertain" /\ attempts'[r] = attempts[r] /\ state[r] = "sending"
        /\ RowConsistent(r)
    BY <1>2, <1>3, <1>14
  <2>2. QED
    BY <1>3, <1>10, <2>1 DEF RowConsistent, Waits
<1>15. \A r \in Row : RowConsistent(r)'
  BY <1>12, <1>13, <1>14, RowFrame
<1>16. TickConsistent(w)' /\ ClaimFresh(w)' /\ SendProtected(w)' /\ DueKnown(w)'
  BY <1>7, <1>9, RowsAssumption DEF TickConsistent, ClaimFresh, BeforeSend, SendProtected,
                                   DueKnown, BatchDone
<1>17. ASSUME NEW v \in Worker \ {w}
       PROVE  TickConsistent(v)' /\ ClaimFresh(v)' /\ SendProtected(v)' /\ DueKnown(v)'
  <2>1. /\ TickConsistent(v) /\ ClaimFresh(v) /\ SendProtected(v) /\ DueKnown(v)
        /\ v # NoWorker
    BY RowsAssumption DEF IInv
  <2>2. TickConsistent(v)' /\ DueKnown(v)'
    BY <1>3, <1>9, <2>1 DEF TickConsistent, DueKnown, Due, BatchDone
  <2>3. ClaimFresh(v)'
    <3> SUFFICES ASSUME NEW r \in Row, holder'[r] = v,
                        \/ r \in worker[v].todo
                        \/ worker[v].row = r /\ worker[v].pc \in BeforeSend
                 PROVE  /\ state'[r] = "sending"
                        /\ r \in Mail => marker'[r][attempts'[r]] = "none"
                        /\ worker[v].row = r => worker[v].number = attempts'[r]
      BY <1>9 DEF ClaimFresh
    <3>1. r \notin safe /\ holder[r] = v
      BY <1>3, <2>1
    <3>2. /\ state[r] = "sending"
          /\ r \in Mail => marker[r][attempts[r]] = "none"
          /\ worker[v].row = r => worker[v].number = attempts[r]
      BY <2>1, <3>1 DEF ClaimFresh
    <3>3. r \notin S
      BY <1>4, <3>1, <3>2
    <3>4. QED
      BY <1>3, <1>6, <3>2, <3>3
  <2>4. SendProtected(v)'
    <3> SUFFICES ASSUME NEW r \in Mail, worker[v].row = r
                 PROVE  /\ worker[v].pc = "send" =>
                             /\ holder'[r] = v
                             /\ state'[r] \in {"sending", "uncertain"}
                             /\ attempts'[r] >= 1 /\ marker'[r][attempts'[r]] # "none"
                             /\ Unaccepted(r)' /\ handed'[r] < attempts'[r]
                        /\ worker[v].pc = "record" /\ holder'[r] = v => AcceptedOnce(r)'
                        /\ worker[v].pc = "fail" /\ worker[v].outcome = "failed"
                           /\ holder'[r] = v => Unaccepted(r)'
      BY <1>9 DEF SendProtected
    <3>1. r \in Row /\ attempts[r] \in 0 .. MaxAttempts
      BY <1>1 DEF Row, TypeOK
    <3>2. ASSUME worker[v].pc = "send"
          PROVE  /\ holder'[r] = v
                 /\ state'[r] \in {"sending", "uncertain"}
                 /\ attempts'[r] >= 1 /\ marker'[r][attempts'[r]] # "none"
                 /\ Unaccepted(r)' /\ handed'[r] < attempts'[r]
      <4>1. /\ holder[r] = v /\ state[r] \in {"sending", "uncertain"}
            /\ attempts[r] \in 1 .. MaxAttempts /\ marker[r][attempts[r]] # "none"
            /\ Unaccepted(r) /\ handed[r] < attempts[r]
        BY <2>1, <3>1, <3>2 DEF SendProtected
      <4>2. r \notin safe
        BY <1>5, <1>6, <4>1
      <4>3. attempts'[r] = attempts[r] /\ holder'[r] = v /\ state'[r] \in {"sending", "uncertain"}
        BY <1>3, <3>1, <4>1, <4>2
      <4>4. QED
        BY <1>3, <1>10, <3>1, <4>1, <4>3 DEF Unaccepted
    <3>3. holder'[r] = v => holder[r] = v
      BY <1>3, <2>1, <3>1
    <3>4. QED
      BY <1>3, <2>1, <3>2, <3>3 DEF SendProtected, Unaccepted, AcceptedOnce
  <2>5. QED
    BY <2>2, <2>3, <2>4
<1>18. QED
  BY <1>11, <1>15, <1>16, <1>17 DEF IInv

-----------------------------------------------------------------------------
(* All steps *)

LEMMA StutterInvariant ==
  ASSUME IInv, UNCHANGED vars
  PROVE  IInv'
<1>1. UNCHANGED <<state, attempts, holder, marker, notice, balance, evidence,
                  worker, handed, accepted, dueSince, misread, faults>>
  BY DEF vars
<1>2. TypeOK'
  BY <1>1 DEF IInv, TypeOK
<1>3. QED
  BY <1>1, <1>2, EnvironmentFrame DEF Due

LEMMA NextInvariant ==
  ASSUME IInv, [Next]_vars
  PROVE  IInv'
<1>1. ASSUME NEW r \in Row, Queue(r) PROVE IInv'
  BY <1>1, QueueInvariant
<1>2. ASSUME NEW w \in Worker, Deliver(w) PROVE IInv'
  <2>1. ASSUME NEW S \in SUBSET Row, ReconcileClaims(w, S) \/ ClaimDeliveries(w, S)
        PROVE  IInv'
    BY <2>1, ReconcileClaimsInvariant, ClaimDeliveriesInvariant
  <2>2. ASSUME NEW r \in Row, NEW eligible \in BOOLEAN, TakeRow(w, r, eligible)
        PROVE  IInv'
    BY <2>2, TakeRowInvariant
  <2>3. CASE CheckBill(w)
    BY <2>3, CheckBillInvariant
  <2>4. CASE CancelReminder(w)
    BY <2>4, CancelReminderInvariant
  <2>5. CASE PauseReminder(w)
    BY <2>5, PauseReminderInvariant
  <2>6. CASE PrepareAttempt(w)
    BY <2>6, PrepareAttemptInvariant
  <2>7. CASE ShowInFeed(w)
    BY <2>7, ShowInFeedInvariant
  <2>8. ASSUME NEW taken \in BOOLEAN, NEW answer \in {"accepted", "refused", "unknown"},
               SendMail(w, taken, answer)
        PROVE  IInv'
    BY <2>8, SendMailInvariant
  <2>9. CASE RecordSent(w)
    BY <2>9, RecordSentInvariant
  <2>10. CASE Fail(w)
    BY <2>10, FailInvariant
  <2>11. CASE FinishAttempt(w)
    BY <2>11, FinishAttemptInvariant
  <2>12. CASE UpdateNotice(w)
    BY <2>12, UpdateNoticeInvariant
  <2>13. ASSUME NEW refused \in BOOLEAN, RecordingFails(w, refused) PROVE IInv'
    BY <2>13, RecordingFailsInvariant
  <2>14. CASE Crash(w)
    BY <2>14, CrashInvariant
  <2>15. QED
    BY <1>2, <2>1, <2>2, <2>3, <2>4, <2>5, <2>6, <2>7, <2>8, <2>9, <2>10, <2>11, <2>12,
       <2>13, <2>14 DEF Deliver, DeliverRow
<1>3. ASSUME Billing PROVE IInv'
  <2>1. ASSUME NEW left \in 0 .. MaxBalance, RecordCashPayment(left) \/ VerifyPayment(left)
        PROVE  IInv'
    BY <2>1, RecordCashPaymentInvariant, VerifyPaymentInvariant
  <2>2. CASE SubmitEvidence
    BY <2>2, SubmitEvidenceInvariant
  <2>3. QED
    BY <1>3, <2>1, <2>2 DEF Billing
<1>4. CASE UNCHANGED vars
  BY <1>4, StutterInvariant
<1>5. QED
  BY <1>1, <1>2, <1>3, <1>4 DEF Next

(* The inductive invariant holds of every behaviour, whatever the number of
   processes, rows, attempts and faults. *)
THEOREM InvariantHolds == Spec => []IInv
<1>1. Init => IInv
  BY InitInvariant
<1>2. IInv /\ [Next]_vars => IInv'
  BY NextInvariant
<1>3. QED
  BY <1>1, <1>2, PTL DEF Spec

(* Type correctness: above all, attempts never leaves 0 .. MaxAttempts, though
   it is incremented by claims and decremented by pauses and recoveries. *)
THEOREM TypeCorrect == Spec => []TypeOK
<1>1. IInv => TypeOK
  BY DEF IInv
<1>2. QED
  BY <1>1, InvariantHolds, PTL

(* A mail is accepted once, and once more at most for each database error that
   the sender took for a refusal by SMTP: no crash, no outlived lease, no
   recovery and no unknown answer has it sent again (reconcileClaims,
   prepareAttempt, the claim_token guards). *)
THEOREM ResentOnlyIfMisreadHolds == Spec => []ResentOnlyIfMisread
<1>1. IInv => ResentOnlyIfMisread
  BY DEF IInv, RowConsistent, ResentOnlyIfMisread, Row
<1>2. QED
  BY <1>1, InvariantHolds, PTL

(* The outbox tells the truth about every row, misread acceptances apart: what
   may be sent was not accepted, what is sent was. *)
THEOREM OutcomeIsTruthfulHolds == Spec => []OutcomeIsTruthful
<1>1. IInv => OutcomeIsTruthful
  BY DEF IInv, RowConsistent, OutcomeIsTruthful, Waits, Unaccepted, AcceptedOnce
<1>2. QED
  BY <1>1, InvariantHolds, PTL

(* The retry budget bounds the messages handed to SMTP, and no row waits where no
   claim finds it. *)
THEOREM BudgetHoldsAlways == Spec => []BudgetHolds
<1>1. IInv => BudgetHolds
  BY DEF IInv, RowConsistent, BudgetHolds, Row
<1>2. QED
  BY <1>1, InvariantHolds, PTL

(* No reminder leaves for a bill that was not due since its claim. *)
THEOREM ReminderStillDueHolds == Spec => ReminderStillDue
<1>1. IInv => \A w \in Worker : worker[w].row \in Reminder /\ worker[w].pc = "send"
                                  => dueSince[w]
  BY DEF IInv, DueKnown
<1>2. (IInv /\ [Next]_vars) =>
        [\A w \in Worker : worker[w].row \in Reminder /\ worker[w].pc = "send"
                           /\ handed' # handed
           => dueSince[w] \/ worker'[w] = worker[w]]_vars
  BY <1>1
<1>3. QED
  BY <1>2, InvariantHolds, PTL DEF Spec, ReminderStillDue

=============================================================================
