------------------------ MODULE EnergySummaryProofs ------------------------
(* Theorems of EnergySummary, for every number of workers, writers, days, samples
   and faults, and every set of readings.

   Two halves.  The arithmetic of a day: if the baseline was read at the start of
   the day, the row that the samples give is the one they measure (CalculatedFresh).
   The locks: a sample changes the measure of the days it borders on only (Needs),
   and whoever commits it holds the marks of all of them (WriterInv); so no batch
   has read a baseline, or calculated a row, of a day that a commit changes
   (WorkerInv), and a row whose day is not marked is fresh (DayInv). *)
EXTENDS EnergySummary, FiniteSums

-----------------------------------------------------------------------------
(* Numbers and days *)

(* Max is the element that bounds the others. *)
LEMMA MaxIs ==
  ASSUME NEW S, S \subseteq Int, NEW m \in S, \A x \in S : x <= m
  PROVE  Max(S) = m
<1>1. ASSUME NEW n \in S, \A x \in S : n >= x PROVE n = m
  <2>1. n \in Int /\ m \in Int /\ n <= m /\ n >= m
    BY <1>1
  <2>2. QED
    BY <2>1
<1>2. \A x \in S : m >= x
  OBVIOUS
<1>3. QED
  BY <1>1, <1>2, Zenon DEF Max

(* A finite set of integers has a greatest element and a least one. *)
LEMMA MaxExists ==
  ASSUME NEW S, IsFiniteSet(S), S # {}, S \subseteq Int
  PROVE  Max(S) \in S /\ \A x \in S : x <= Max(S)
<1> DEFINE G == {T \in SUBSET S : T # {} => \E m \in T : \A x \in T : x <= m}
<1>1. ASSUME NEW T \in SUBSET S, \A U \in SUBSET T : U # T => U \in G
      PROVE  T \in G
  <2>1. SUFFICES ASSUME NEW t \in T PROVE \E m \in T : \A x \in T : x <= m
    OBVIOUS
  <2>2. CASE T \ {t} = {}
    BY <2>2
  <2>3. CASE T \ {t} # {}
    <3>0. T \ {t} \in G
      BY <1>1
    <3>1. PICK m \in T \ {t} : \A x \in T \ {t} : x <= m
      BY <2>3, <3>0
    <3>2. t \in Int /\ m \in Int /\ T \subseteq Int
      OBVIOUS
    <3>3. CASE t <= m
      BY <3>1, <3>3
    <3>4. CASE ~(t <= m)
      BY <3>1, <3>2, <3>4
    <3>5. QED
      BY <3>3, <3>4
  <2>4. QED
    BY <2>2, <2>3
<1>2. \A T \in SUBSET S : T \in G
  <2> HIDE DEF G
  <2>1. QED
    BY <1>1, SubsetInduction
<1>3. PICK m \in S : \A x \in S : x <= m
  BY <1>2
<1>4. QED
  BY <1>3, MaxIs

LEMMA MinIn ==
  ASSUME NEW S, IsFiniteSet(S), S # {}, S \subseteq Int
  PROVE  Min(S) \in S
<1> DEFINE G == {T \in SUBSET S : T # {} => \E m \in T : \A x \in T : m <= x}
<1>1. ASSUME NEW T \in SUBSET S, \A U \in SUBSET T : U # T => U \in G
      PROVE  T \in G
  <2>1. SUFFICES ASSUME NEW t \in T PROVE \E m \in T : \A x \in T : m <= x
    OBVIOUS
  <2>2. CASE T \ {t} = {}
    BY <2>2
  <2>3. CASE T \ {t} # {}
    <3>0. T \ {t} \in G
      BY <1>1
    <3>1. PICK m \in T \ {t} : \A x \in T \ {t} : m <= x
      BY <2>3, <3>0
    <3>2. t \in Int /\ m \in Int /\ T \subseteq Int
      OBVIOUS
    <3>3. CASE m <= t
      BY <3>1, <3>3
    <3>4. CASE ~(m <= t)
      BY <3>1, <3>2, <3>4
    <3>5. QED
      BY <3>3, <3>4
  <2>4. QED
    BY <2>2, <2>3
<1>2. \A T \in SUBSET S : T \in G
  <2> HIDE DEF G
  <2>1. QED
    BY <1>1, SubsetInduction
<1>3. PICK m \in S : \A x \in S : m <= x
  BY <1>2
<1>4. QED
  BY <1>3 DEF Min

(* Days and times are numbers, finitely many; a day is not empty. *)
LEMMA DayBounds ==
  ASSUME NEW d \in Day
  PROVE  /\ d \in Nat /\ DayLength \in Nat \ {0} /\ MaxDay \in Nat
         /\ Start(d) \in Nat /\ Start(d) \in Time /\ Start(d) <= Start(MaxDay + 1)
         /\ End(d) \in Nat /\ Start(d) < End(d) /\ End(d) = DayLength * (d + 1)
<1>1. d \in Nat /\ DayLength \in Nat \ {0} /\ MaxDay \in Nat /\ d <= MaxDay + 1
  BY SummaryAssumption DEF Day
<1>2. DayLength * d \in Nat /\ DayLength * (MaxDay + 1) \in Nat
      /\ DayLength * (d + 1) = DayLength * d + DayLength
  BY <1>1
<1>3. DayLength * d <= DayLength * (MaxDay + 1)
  BY <1>1
<1>4. QED
  BY <1>1, <1>2, <1>3 DEF Start, End, Time

LEMMA SummaryNumbers ==
  /\ MaxDay \in Nat /\ MaxSamples \in Nat /\ MaxFaults \in Nat
  /\ \A d \in Day : /\ d \in Nat /\ d \in Int /\ Start(d) \in Time /\ Start(d) \in Int
                    /\ End(d) \in Int /\ Start(d) # -1
  /\ \A t \in Time : t \in Nat /\ t \in Int
  /\ IsFiniteSet(Day) /\ IsFiniteSet(Time)
<1>1. /\ MaxDay \in Nat /\ MaxSamples \in Nat /\ MaxFaults \in Nat
      /\ DayLength \in Nat /\ Start(MaxDay + 1) \in Nat
  BY SummaryAssumption DEF Start
<1>2. \A d \in Day : /\ d \in Nat /\ d \in Int /\ Start(d) \in Time /\ Start(d) \in Int
                     /\ End(d) \in Int /\ Start(d) # -1
  BY DayBounds
<1>3. \A t \in Time : t \in Nat /\ t \in Int
  BY <1>1 DEF Time
<1>4. IsFiniteSet(Day) /\ IsFiniteSet(Time)
  BY <1>1, FS_Interval DEF Day, Time
<1>5. QED
  BY <1>1, <1>2, <1>3, <1>4

(* The days whose measure a sample at time t changes; its marks cover them. *)
Needs(t) == {d \in Day : Start(d) <= t /\ t <= End(d)}

LEMMA NeedsMarked == ASSUME NEW t \in Time PROVE Needs(t) \subseteq Marks(t)
<1> DEFINE B == {d \in Day : Start(d) <= t}
<1>1. SUFFICES ASSUME NEW d \in Day, Start(d) <= t, t <= End(d)
               PROVE  d \in Marks(t)
  BY DEF Needs
<1>2. d \in B /\ B \subseteq Int /\ IsFiniteSet(B)
  BY <1>1, SummaryNumbers, FS_Subset
<1>3. DayOf(t) \in Day /\ Start(DayOf(t)) <= t /\ d <= DayOf(t)
  <2>1. Max(B) \in B /\ d <= Max(B)
    <3> HIDE DEF B
    <3>1. QED
      BY <1>2, MaxExists
  <2>2. QED
    BY <2>1 DEF DayOf
<1>4. d \in Nat /\ DayOf(t) \in Nat /\ t \in Nat /\ DayLength \in Nat \ {0}
  BY <1>3, DayBounds, SummaryNumbers
<1>5. DayOf(t) = d \/ DayOf(t) = d + 1
  <2>1. SUFFICES ASSUME DayOf(t) >= d + 2 PROVE FALSE
    BY <1>3, <1>4
  <2>2. DayLength * (d + 2) <= DayLength * DayOf(t)
    BY <1>4, <2>1
  <2>3. DayLength * (d + 2) = DayLength * d + DayLength + DayLength
    BY <1>4
  <2>4. DayLength * d \in Nat /\ DayLength * DayOf(t) \in Nat
    BY <1>4
  <2>5. QED
    BY <1>1, <1>3, <1>4, <2>2, <2>3, <2>4 DEF Start, End
<1>6. DayOf(t) = d + 1 => IsBoundary(t) /\ d = DayOf(t) - 1
  <2>1. DayLength * (d + 1) = End(d) /\ End(d) \in Nat
    BY DayBounds
  <2>2. QED
    BY <1>1, <1>3, <1>4, <2>1 DEF IsBoundary, Start
<1>7. QED
  BY <1>5, <1>6 DEF Marks

-----------------------------------------------------------------------------
(* What a row and a baseline must say of the samples there are *)

(* Continuous(d), for a day that is past or not. *)
Through(d, past) ==
  /\ Start(d) \in Seen(d)
  /\ past => End(d) \in Seen(d)
  /\ \A t \in Seen(d) : Cardinality(raw[t]) = 1
  /\ \A t, u \in Seen(d) : t < u => Kwh(raw[t]) <= Kwh(raw[u])
                                    /\ Mappings(raw[t]) = Mappings(raw[u])

Value(d) == Kwh(raw[Max(Seen(d))]) - Kwh(raw[Start(d)])

(* The row of a day is what a calculation would give now, but for midnight, which
   leaves a partial row of a day that is past. *)
RowFresh(d, row) ==
  /\ row.quality = "complete" => Through(d, TRUE) /\ row.kwh = Value(d)
  /\ row.quality = "partial" => d <= today /\ Through(d, FALSE) /\ row.kwh = Value(d)
  /\ row.quality \in {"missing", "reset"} => ~Through(d, TRUE) /\ row.kwh = NoEnergy

(* A baseline read before is the sample at the start of the day, or there is none. *)
BaseRead(d, base) ==
  IF raw[Start(d)] # {} THEN base = [at |-> Start(d), seen |-> raw[Start(d)]]
  ELSE base.at # Start(d)

(* Readings at a time are finitely many, if Reading is not. *)
RawInv == raw \in [Time -> SUBSET Reading] /\ \A t \in Time : IsFiniteSet(raw[t])

-----------------------------------------------------------------------------
(* The calculation of a day *)

(* One reading has its value; readings that are no conflict are one. *)
LEMMA KwhOfOne ==
  ASSUME NEW s \in SUBSET Reading, IsFiniteSet(s), Cardinality(s) = 1
  PROVE  Kwh(s) \in Nat
<1>1. PICK r : s = {r}
  BY FS_Singleton
<1>2. r \in Reading /\ r.kwh \in Nat
  BY <1>1, SummaryAssumption
<1>3. {x.kwh : x \in s} = {r.kwh}
  BY <1>1
<1>4. Max({r.kwh}) = r.kwh
  BY <1>2, MaxIs
<1>5. QED
  BY <1>2, <1>3, <1>4 DEF Kwh

LEMMA OneReading ==
  ASSUME NEW s, IsFiniteSet(s), s # {}, ~Conflict(s)
  PROVE  Cardinality(s) = 1
BY FS_CardinalityType, FS_EmptySet DEF Conflict

(* The seen time before time t of day d. *)
Before(t, d) == Max({u \in Seen(d) : u < t})

(* A day is seen at finitely many times, from its start to its end. *)
LEMMA TimesOfDay ==
  ASSUME NEW d \in Day
  PROVE  /\ Samples(d) = Seen(d) \ {Start(d)}
         /\ Seen(d) \subseteq Time /\ Seen(d) \subseteq Int /\ IsFiniteSet(Seen(d))
         /\ Start(d) \in Int /\ End(d) \in Int /\ Start(d) < End(d)
         /\ \A t \in Seen(d) : Start(d) <= t
<1>1. Start(d) \in Int /\ End(d) \in Int /\ Start(d) < End(d)
  BY DayBounds
<1>2. Seen(d) \subseteq Time /\ Seen(d) \subseteq Int /\ IsFiniteSet(Seen(d))
  BY SummaryNumbers, FS_Subset DEF Seen
<1>3. Samples(d) = Seen(d) \ {Start(d)}
  BY <1>1, <1>2, SummaryNumbers DEF Samples, Seen
<1>4. QED
  BY <1>1, <1>2, <1>3 DEF Seen

(* A day seen at its start has a time before every other one. *)
LEMMA TimeBefore ==
  ASSUME NEW d \in Day, Start(d) \in Seen(d), NEW t \in Samples(d)
  PROVE  /\ Before(t, d) \in Seen(d) /\ Before(t, d) < t
         /\ \A u \in Seen(d) : u < t => u <= Before(t, d)
<1> DEFINE B == {u \in Seen(d) : u < t}
<1>1. IsFiniteSet(B) /\ B \subseteq Int /\ Start(d) \in B
  BY TimesOfDay, FS_Subset DEF Samples
<1>2. Max(B) \in B /\ \A u \in B : u <= Max(B)
  <2> HIDE DEF B
  <2>1. QED
    BY <1>1, MaxExists
<1>3. QED
  BY <1>2 DEF Before

(* With a baseline at its start, a day is calculated from its seen times. *)
LEMMA FromStart ==
  ASSUME RawInv, NEW d \in Day, NEW base, BaseRead(d, base), base.at = Start(d)
  PROVE  /\ Start(d) \in Seen(d)
         /\ Points(d, base) = Seen(d)
         /\ Preceded(d, base) = Samples(d)
         /\ base.seen = raw[Start(d)]
         /\ \A t \in Seen(d) : ReadingsAt(t, base) = raw[t]
         /\ \A t \in Samples(d) : Before(t, d) \in Seen(d) /\ Before(t, d) < t
                                  /\ Previous(t, d, base) = Before(t, d)
<1>1. raw[Start(d)] # {} /\ base = [at |-> Start(d), seen |-> raw[Start(d)]]
  BY DEF BaseRead
<1>2. Start(d) \in Seen(d)
  BY <1>1, DayBounds DEF Seen
<1>3. base # NoBaseline
  BY <1>1, SummaryNumbers DEF NoBaseline
<1>4. Points(d, base) = Seen(d)
  BY <1>1, <1>2, <1>3, TimesOfDay DEF Points
<1>5. base.seen = raw[Start(d)] /\ \A t \in Seen(d) : ReadingsAt(t, base) = raw[t]
  BY <1>1 DEF ReadingsAt
<1>6. \A t \in Samples(d) : Start(d) < t
  BY DEF Samples
<1>7. Preceded(d, base) = Samples(d)
  BY <1>2, <1>4, <1>6 DEF Preceded
<1>8. ASSUME NEW t \in Samples(d)
      PROVE  Before(t, d) \in Seen(d) /\ Before(t, d) < t /\ Previous(t, d, base) = Before(t, d)
  BY <1>2, <1>4, TimeBefore DEF Previous, Before
<1>9. QED
  BY <1>2, <1>4, <1>5, <1>7, <1>8

(* An increment is the difference to the seen time before. *)
LEMMA IncrementOf ==
  ASSUME RawInv, NEW d \in Day, NEW base, BaseRead(d, base), base.at = Start(d)
  PROVE  \A t \in Samples(d) :
           /\ t \in Seen(d)
           /\ Increment(t, d, base) = Kwh(raw[t]) - Kwh(raw[Before(t, d)])
           /\ Mappings(ReadingsAt(Previous(t, d, base), base)) = Mappings(raw[Before(t, d)])
BY FromStart, TimesOfDay DEF Increment

(* Where a day is seen there are readings, finitely many. *)
LEMMA SeenReadings ==
  ASSUME RawInv, NEW d \in Day
  PROVE  \A t \in Seen(d) : /\ raw[t] \in SUBSET Reading /\ IsFiniteSet(raw[t]) /\ raw[t] # {}
                            /\ Cardinality(raw[t]) = 1 => Kwh(raw[t]) \in Nat
<1>1. ASSUME NEW t \in Seen(d)
      PROVE  raw[t] \in SUBSET Reading /\ IsFiniteSet(raw[t]) /\ raw[t] # {}
  BY DEF Seen, RawInv
<1>2. QED
  BY <1>1, KwhOfOne

(* A day whose samples run through it has no gap. *)
LEMMA ThroughHasNoGap ==
  ASSUME RawInv, NEW d \in Day, NEW base, BaseRead(d, base), Through(d, TRUE)
  PROVE  ~Resets(d, base) /\ ~BoundaryMissing(d, base) /\ ~LineageBroken(d, base)
<1>1. base.at = Start(d) /\ base.seen = raw[Start(d)]
  BY DEF Through, Seen, BaseRead
<1>2. ASSUME NEW t \in Samples(d)
      PROVE  /\ ~(Increment(t, d, base) < 0)
             /\ ~Conflict(raw[t])
             /\ Mappings(raw[t]) = Mappings(ReadingsAt(Previous(t, d, base), base))
             /\ t \in Preceded(d, base)
  <2>1. /\ t \in Seen(d) /\ Before(t, d) \in Seen(d) /\ Before(t, d) < t
        /\ Increment(t, d, base) = Kwh(raw[t]) - Kwh(raw[Before(t, d)])
        /\ Mappings(ReadingsAt(Previous(t, d, base), base)) = Mappings(raw[Before(t, d)])
        /\ t \in Preceded(d, base)
    BY <1>1, FromStart, IncrementOf
  <2>2. /\ Cardinality(raw[t]) = 1 /\ Cardinality(raw[Before(t, d)]) = 1
        /\ Kwh(raw[Before(t, d)]) <= Kwh(raw[t])
        /\ Mappings(raw[Before(t, d)]) = Mappings(raw[t])
    BY <2>1 DEF Through
  <2>3. Kwh(raw[t]) \in Nat /\ Kwh(raw[Before(t, d)]) \in Nat
    BY <2>1, <2>2, SeenReadings
  <2>4. QED
    BY <2>1, <2>2, <2>3 DEF Conflict
<1>3. ~Resets(d, base)
  BY <1>1, <1>2, FromStart DEF Resets
<1>4. ~LineageBroken(d, base)
  BY <1>2 DEF LineageBroken
<1>5. ~BoundaryMissing(d, base)
  <2>1. Cardinality(raw[Start(d)]) = 1
    BY DEF Through
  <2>2. End(d) \in Samples(d)
    BY TimesOfDay DEF Through
  <2>3. QED
    BY <1>1, <2>1, <2>2 DEF BoundaryMissing, Conflict
<1>6. QED
  BY <1>3, <1>4, <1>5

(* What holds of every time and the one before it, and carries over, holds of every
   two: by induction on the times seen until then. *)
LEMMA ChainOfTimes ==
  ASSUME NEW d \in Day, Start(d) \in Seen(d), NEW R,
         \A t \in Samples(d) : <<Before(t, d), t>> \in R,
         \A t, u, v \in Seen(d) : <<t, u>> \in R /\ <<u, v>> \in R => <<t, v>> \in R
  PROVE  \A t, u \in Seen(d) : t < u => <<t, u>> \in R
<1> DEFINE Until(u) == {x \in Seen(d) : x <= u}
           G == {T \in SUBSET Seen(d) :
                   \A u \in Seen(d) : T = Until(u) =>
                     \A t \in Seen(d) : t < u => <<t, u>> \in R}
<1>1. ASSUME NEW T \in SUBSET Seen(d), \A U \in SUBSET T : U # T => U \in G
      PROVE  T \in G
  <2>1. SUFFICES ASSUME NEW u \in Seen(d), T = Until(u), NEW t \in Seen(d), t < u
                 PROVE  <<t, u>> \in R
    OBVIOUS
  <2>2. u \in Samples(d) /\ u \in Int /\ t \in Int
    BY <2>1, TimesOfDay
  <2>3. /\ Before(u, d) \in Seen(d) /\ Before(u, d) < u /\ t <= Before(u, d)
        /\ Before(u, d) \in Int
    BY <2>1, <2>2, TimeBefore, TimesOfDay
  <2>4. Until(Before(u, d)) \in SUBSET T /\ Until(Before(u, d)) # T
    <3>1. \A x \in Until(Before(u, d)) : x \in Seen(d) /\ x <= u /\ x # u
      BY <2>2, <2>3, TimesOfDay
    <3>2. u \in T
      BY <2>1, <2>2
    <3>3. QED
      BY <2>1, <3>1, <3>2
  <2>5. Until(Before(u, d)) \in G
    BY <1>1, <2>4
  <2>6. t < Before(u, d) => <<t, Before(u, d)>> \in R
    BY <2>3, <2>5
  <2>7. <<Before(u, d), u>> \in R
    BY <2>2
  <2>8. CASE t < Before(u, d)
    BY <2>3, <2>6, <2>7, <2>8
  <2>9. CASE t = Before(u, d)
    BY <2>7, <2>9
  <2>10. QED
    BY <2>2, <2>3, <2>8, <2>9
<1>2. \A T \in SUBSET Seen(d) : T \in G
  <2> HIDE DEF G
  <2>1. QED
    BY <1>1, TimesOfDay, SubsetInduction
<1>3. \A u \in Seen(d) : Until(u) \in SUBSET Seen(d)
  OBVIOUS
<1>4. QED
  BY <1>2, <1>3

(* A day calculated without a gap runs through its samples. *)
LEMMA NoGapIsThrough ==
  ASSUME RawInv, NEW d \in Day, NEW base, BaseRead(d, base), base.at = Start(d),
         ~Resets(d, base), ~Conflict(base.seen), ~LineageBroken(d, base)
  PROVE  Through(d, FALSE)
<1>1. Start(d) \in Seen(d) /\ base.seen = raw[Start(d)]
  BY FromStart
<1>2. ASSUME NEW t \in Seen(d) PROVE Cardinality(raw[t]) = 1 /\ Kwh(raw[t]) \in Nat
  <2>1. ~Conflict(raw[t])
    BY <1>1, TimesOfDay DEF LineageBroken
  <2>2. QED
    BY <2>1, SeenReadings, OneReading
<1>3. ASSUME NEW t \in Samples(d)
      PROVE  /\ Before(t, d) \in Seen(d)
             /\ Kwh(raw[Before(t, d)]) <= Kwh(raw[t])
             /\ Mappings(raw[Before(t, d)]) = Mappings(raw[t])
  <2>1. /\ t \in Seen(d) /\ Before(t, d) \in Seen(d) /\ t \in Preceded(d, base)
        /\ Increment(t, d, base) = Kwh(raw[t]) - Kwh(raw[Before(t, d)])
        /\ Mappings(ReadingsAt(Previous(t, d, base), base)) = Mappings(raw[Before(t, d)])
    BY FromStart, IncrementOf
  <2>2. ~(Kwh(raw[t]) - Kwh(raw[Before(t, d)]) < 0)
    BY <2>1 DEF Resets
  <2>3. Mappings(raw[Before(t, d)]) = Mappings(raw[t])
    BY <2>1 DEF LineageBroken
  <2>4. QED
    BY <1>2, <2>1, <2>2, <2>3
<1> DEFINE R == {p \in Seen(d) \X Seen(d) :
                   Kwh(raw[p[1]]) <= Kwh(raw[p[2]]) /\ Mappings(raw[p[1]]) = Mappings(raw[p[2]])}
<1>4. ASSUME NEW t \in Seen(d), NEW u \in Seen(d), t < u
      PROVE  Kwh(raw[t]) <= Kwh(raw[u]) /\ Mappings(raw[t]) = Mappings(raw[u])
  <2>1. \A x \in Samples(d) : <<Before(x, d), x>> \in R
    BY <1>3, TimesOfDay
  <2>2. \A x, y, z \in Seen(d) : <<x, y>> \in R /\ <<y, z>> \in R => <<x, z>> \in R
    BY <1>2
  <2>3. <<t, u>> \in R
    <3> HIDE DEF R
    <3>1. QED
      BY <1>1, <1>4, <2>1, <2>2, ChainOfTimes
  <2>4. QED
    BY <2>3
<1>5. QED
  BY <1>1, <1>2, <1>4 DEF Through

(* The sum of the increments, as Calculated has it. *)
EnergyOf(d, base) == MapThenSumSet(LAMBDA t : Increment(t, d, base), Samples(d))

LEMMA EnergyOfIsSum ==
  ASSUME NEW d \in Day, NEW base, NEW f, IsFiniteSet(Samples(d)),
         \A t \in Samples(d) : f[t] = Increment(t, d, base)
  PROVE  EnergyOf(d, base) = SumOf(f, Samples(d))
<1> DEFINE S == Samples(d)
           inc(t) == Increment(t, d, base)
           table == CHOOSE r : r = [s \in SUBSET S |->
                      IF s = {} THEN 0 ELSE inc(Pick(s)) + r[s \ {Pick(s)}]]
<1>1. EnergyOf(d, base) = table[S]
  BY DEF EnergyOf, MapThenSumSet, MapThenFoldSet, Pick
<1>2. PICK u : IsSumTable(u, f, S)
  BY TableExists
<1>3. \A s \in SUBSET S : s # {} => f[Pick(s)] = inc(Pick(s))
  BY PickIn
<1>4. u = [s \in SUBSET S |-> IF s = {} THEN 0 ELSE inc(Pick(s)) + u[s \ {Pick(s)}]]
  <2> HIDE DEF inc
  <2>1. QED
    BY <1>2, <1>3 DEF IsSumTable
<1>5. table = [s \in SUBSET S |-> IF s = {} THEN 0 ELSE inc(Pick(s)) + table[s \ {Pick(s)}]]
  <2> HIDE DEF inc
  <2>1. QED
    BY <1>4
<1>6. IsSumTable(table, f, S)
  <2> HIDE DEF inc, table
  <2>1. QED
    BY <1>3, <1>5 DEF IsSumTable
<1> HIDE DEF table
<1>7. QED
  BY <1>1, <1>6, SumOfTable

(* The increments up to a time add up to the difference to the start of the day. *)
LEMMA IncrementsTelescope ==
  ASSUME NEW d \in Day, Start(d) \in Seen(d), NEW f, NEW k,
         \A t \in Seen(d) : k[t] \in Int,
         \A t \in Samples(d) : f[t] = k[t] - k[Before(t, d)]
  PROVE  \A u \in Seen(d) : SumOf(f, {x \in Samples(d) : x <= u}) = k[u] - k[Start(d)]
<1> DEFINE Until(u) == {x \in Samples(d) : x <= u}
           G == {T \in SUBSET Samples(d) :
                   \A u \in Seen(d) : T = Until(u) => SumOf(f, T) = k[u] - k[Start(d)]}
<1>1. IsFiniteSet(Samples(d)) /\ Samples(d) \subseteq Seen(d) /\ Seen(d) \subseteq Int
  BY TimesOfDay, FS_Subset
<1>2. \A t \in Samples(d) : Before(t, d) \in Seen(d) /\ Before(t, d) < t /\ f[t] \in Int
  <2>1. \A t \in Samples(d) : Before(t, d) \in Seen(d) /\ Before(t, d) < t
    BY TimeBefore
  <2>2. QED
    BY <1>1, <2>1
<1>3. ASSUME NEW T \in SUBSET Samples(d), \A U \in SUBSET T : U # T => U \in G
      PROVE  T \in G
  <2>1. SUFFICES ASSUME NEW u \in Seen(d), T = Until(u)
                 PROVE  SumOf(f, T) = k[u] - k[Start(d)]
    OBVIOUS
  <2>2. CASE u = Start(d)
    <3>1. T = {}
      BY <2>1, <2>2, TimesOfDay DEF Samples
    <3>2. QED
      BY <2>2, <3>1, SumEmpty
  <2>3. CASE u # Start(d)
    <3>1. u \in Samples(d) /\ u \in Int
      BY <2>3, TimesOfDay
    <3>2. \A x \in Samples(d) : x \in Int /\ (x < u => x <= Before(u, d))
      BY <1>1, <3>1, TimeBefore
    <3>3. Before(u, d) \in Seen(d) /\ Before(u, d) < u /\ Before(u, d) \in Int
      BY <1>1, <1>2, <3>1
    <3>4. T = Until(Before(u, d)) \cup {u} /\ u \notin Until(Before(u, d))
      <4>1. \A x \in Samples(d) : x <= u <=> x <= Before(u, d) \/ x = u
        BY <3>1, <3>2, <3>3
      <4>2. ~(u <= Before(u, d))
        BY <3>1, <3>3
      <4>3. QED
        BY <2>1, <3>1, <4>1, <4>2
    <3>5. SumOf(f, Until(Before(u, d))) = k[Before(u, d)] - k[Start(d)]
      <4>1. Until(Before(u, d)) \in G
        BY <1>3, <3>4
      <4>2. QED
        BY <3>3, <4>1
    <3>6. SumOf(f, T) = f[u] + SumOf(f, Until(Before(u, d)))
      <4> DEFINE S == Until(Before(u, d))
      <4>1. IsFiniteSet(S) /\ u \notin S /\ \A y \in S \cup {u} : f[y] \in Int
        BY <1>1, <1>2, <3>1, <3>4, FS_Subset
      <4> HIDE DEF S
      <4>2. SumOf(f, S \cup {u}) = f[u] + SumOf(f, S)
        BY <4>1, SumAdd
      <4>3. QED
        BY <3>4, <4>2 DEF S
    <3>7. f[u] = k[u] - k[Before(u, d)]
      BY <3>1
    <3>8. QED
      BY <2>1, <3>3, <3>5, <3>6, <3>7
  <2>4. QED
    BY <2>2, <2>3
<1>4. \A T \in SUBSET Samples(d) : T \in G
  <2> HIDE DEF G
  <2>1. QED
    BY <1>1, <1>3, SubsetInduction
<1>5. \A u \in Seen(d) : Until(u) \in SUBSET Samples(d)
  OBVIOUS
<1>6. QED
  BY <1>4, <1>5

(* The increments of a day add up to the difference of its ends. *)
LEMMA EnergyIsValue ==
  ASSUME RawInv, NEW d \in Day, NEW base, BaseRead(d, base), base.at = Start(d),
         Through(d, FALSE)
  PROVE  EnergyOf(d, base) = Value(d) /\ Value(d) \in Nat
<1> DEFINE k == [t \in Time |-> Kwh(raw[t])]
           f == [t \in Time |-> Kwh(raw[t]) - Kwh(raw[Before(t, d)])]
           last == Max(Seen(d))
<1>1. /\ Start(d) \in Seen(d) /\ Seen(d) \subseteq Time /\ Seen(d) \subseteq Int
      /\ IsFiniteSet(Seen(d)) /\ Samples(d) \subseteq Seen(d) /\ IsFiniteSet(Samples(d))
  BY TimesOfDay, FS_Subset DEF Through
<1>2. \A t \in Seen(d) : k[t] = Kwh(raw[t]) /\ k[t] \in Nat
  BY <1>1, SeenReadings DEF Through
<1>3. \A t \in Samples(d) : f[t] = Increment(t, d, base) /\ f[t] = k[t] - k[Before(t, d)]
  BY <1>1, <1>2, IncrementOf, TimeBefore
<1>4. last \in Seen(d) /\ \A t \in Seen(d) : t <= last
  BY <1>1, MaxExists
<1>5. k[Start(d)] <= k[last]
  <2>1. CASE last = Start(d)
    BY <1>1, <1>2, <2>1
  <2>2. CASE last # Start(d)
    <3>1. Start(d) < last
      BY <1>1, <1>4, <2>2
    <3>2. QED
      BY <1>1, <1>2, <1>4, <3>1 DEF Through
  <2>3. QED
    BY <2>1, <2>2
<1>6. Value(d) = k[last] - k[Start(d)]
  BY <1>1, <1>2, <1>4 DEF Value
<1> HIDE DEF k, f, last
<1>7. SumOf(f, {x \in Samples(d) : x <= last}) = k[last] - k[Start(d)]
  <2>1. \A t \in Seen(d) : k[t] \in Int
    BY <1>2
  <2>2. \A t \in Samples(d) : f[t] = k[t] - k[Before(t, d)]
    BY <1>3
  <2>3. QED
    BY <1>1, <1>4, <2>1, <2>2, IncrementsTelescope
<1>8. {x \in Samples(d) : x <= last} = Samples(d)
  BY <1>1, <1>4
<1>9. EnergyOf(d, base) = SumOf(f, Samples(d))
  BY <1>1, <1>3, EnergyOfIsSum
<1>10. QED
  BY <1>1, <1>2, <1>4, <1>5, <1>6, <1>7, <1>8, <1>9

(* From a baseline read before, the row of a day is fresh, and it is a row. *)
LEMMA CalculatedFresh ==
  ASSUME RawInv, today \in Day, NEW d \in Day, NEW base, BaseRead(d, base)
  PROVE  Calculated(d, base) \in Row /\ RowFresh(d, Calculated(d, base))
<1> DEFINE row == Calculated(d, base)
<1>1. CASE Resets(d, base) \/ BoundaryMissing(d, base) \/ LineageBroken(d, base)
  <2>1. row.quality \in {"missing", "reset"} /\ row.kwh = NoEnergy /\ row \in Row
    BY <1>1 DEF Calculated, Row, Quality
  <2>2. ~Through(d, TRUE)
    BY <1>1, ThroughHasNoGap
  <2>3. QED
    BY <2>1, <2>2 DEF RowFresh
<1>2. CASE ~Resets(d, base) /\ ~BoundaryMissing(d, base) /\ ~LineageBroken(d, base)
  <2>1. base.at = Start(d) /\ ~Conflict(base.seen) /\ (d # today => End(d) \in Samples(d))
    BY <1>2 DEF BoundaryMissing
  <2>2. Through(d, FALSE)
    BY <1>2, <2>1, NoGapIsThrough
  <2>3. EnergyOf(d, base) = Value(d) /\ Value(d) \in Nat
    BY <2>1, <2>2, EnergyIsValue
  <2>4. row = [quality |-> IF d = today THEN "partial" ELSE "complete",
               kwh |-> EnergyOf(d, base)]
    BY <1>2 DEF Calculated, EnergyOf
  <2>5. row \in Row
    BY <2>3, <2>4 DEF Row, Quality
  <2>6. d # today => Through(d, TRUE)
    BY <2>1, <2>2, TimesOfDay DEF Through
  <2>7. d = today => d <= today
    BY SummaryNumbers
  <2>8. RowFresh(d, row)
    <3> HIDE DEF row
    <3>1. CASE d = today
      BY <2>2, <2>3, <2>4, <2>7, <3>1 DEF RowFresh
    <3>2. CASE d # today
      BY <2>3, <2>4, <2>6, <3>2 DEF RowFresh
    <3>3. QED
      BY <3>1, <3>2
  <2>9. QED
    BY <2>5, <2>8
<1>3. QED
  BY <1>1, <1>2

-----------------------------------------------------------------------------
(* The inductive invariant *)

FreshRows(d) == {row \in Row : RowFresh(d, row)}
Baselines(d) == {base \in [at : Time \cup {-1}, seen : SUBSET Reading] : BaseRead(d, base)}

(* A transaction has locked the marks its sample needs, or is about to. *)
WriterInv(w) ==
  writer[w] # NoRow => Needs(writer[w].at) \subseteq writer[w].ahead \cup Locked(w)

(* A batch holds the marks of its days; what it has read of them is still true. *)
WorkerInv(p) ==
  /\ worker[p].todo \subseteq Locked(p)
  /\ worker[p].phase = "samples" =>
       /\ worker[p].todo # {}
       /\ \A d \in Day : d = Min(worker[p].todo) => worker[p].baseline \in Baselines(d)
  /\ \A d \in Day :
       worker[p].done[d] # NoRow => holder[d] = p /\ worker[p].done[d] \in FreshRows(d)

(* A row that is not marked is fresh. *)
DayInv(d) == daily[d] # NoRow /\ d \notin dirty => daily[d] \in FreshRows(d)

SummaryInv ==
  /\ TypeOK
  /\ RawInv
  /\ \A w \in Writer : WriterInv(w)
  /\ \A p \in Worker : WorkerInv(p)
  /\ \A d \in Day : DayInv(d)

(* A day whose samples stay keeps its fresh rows and its baselines, at midnight too. *)
LEMMA DayKept ==
  ASSUME RawInv, RawInv', today \in Day, today' \in Day, today <= today', NEW d \in Day,
         \A t \in Time : Start(d) <= t /\ t <= End(d) => raw'[t] = raw[t]
  PROVE  FreshRows(d) \subseteq FreshRows(d)' /\ Baselines(d)' = Baselines(d)
<1>1. Seen(d)' = Seen(d) /\ \A t \in Seen(d) : raw'[t] = raw[t]
  BY DEF Seen
<1>2. Through(d, TRUE)' <=> Through(d, TRUE)
  BY <1>1 DEF Through
<1>3. Through(d, FALSE) => Through(d, FALSE)'
  BY <1>1 DEF Through
<1>4. ASSUME Through(d, FALSE) PROVE Value(d)' = Value(d)
  <2>1. Start(d) \in Seen(d)
    BY <1>4 DEF Through
  <2>2. Seen(d) \subseteq Int /\ IsFiniteSet(Seen(d))
    BY TimesOfDay, SummaryNumbers, FS_Subset
  <2>3. Max(Seen(d)) \in Seen(d)
    BY <2>1, <2>2, MaxExists
  <2>4. QED
    BY <1>1, <2>1, <2>3 DEF Value
<1>5. Through(d, TRUE) => Through(d, FALSE)
  BY DEF Through
<1>6. d <= today => d <= today'
  BY SummaryNumbers
<1>7. ASSUME NEW row \in Row, RowFresh(d, row) PROVE RowFresh(d, row)'
  BY <1>2, <1>3, <1>4, <1>5, <1>6, <1>7 DEF RowFresh
<1>8. FreshRows(d) \subseteq FreshRows(d)'
  BY <1>7 DEF FreshRows
<1>9. Start(d) \in Time /\ raw'[Start(d)] = raw[Start(d)]
  BY SummaryNumbers, TimesOfDay
<1>10. Baselines(d)' = Baselines(d)
  BY <1>9 DEF Baselines, BaseRead
<1>11. QED
  BY <1>8, <1>10

(* Without a commit of a sample, the days stay as they are. *)
LEMMA DaysKept ==
  ASSUME RawInv, TypeOK, raw' = raw, today' \in Day, today <= today'
  PROVE  /\ RawInv'
         /\ \A d \in Day : FreshRows(d) \subseteq FreshRows(d)' /\ Baselines(d)' = Baselines(d)
<1>1. RawInv'
  BY DEF RawInv
<1>2. today \in Day
  BY DEF TypeOK
<1>3. QED
  BY <1>1, <1>2, DayKept

(* A mark has one holder, of one kind. *)
LEMMA Holders ==
  /\ \A w \in Writer : w \notin Worker /\ w # Free
  /\ \A p \in Worker : p \notin Writer /\ p # Free
BY SummaryAssumption

(* There is a first day in a set of days. *)
LEMMA FirstDay ==
  ASSUME NEW S \in SUBSET Day, S # {}
  PROVE  Min(S) \in S /\ Min(S) \in Day
<1>1. IsFiniteSet(S) /\ S \subseteq Int
  BY SummaryNumbers, FS_Subset
<1>2. QED
  BY <1>1, MinIn

(* What is not touched stays as it is. *)
LEMMA SameWriter ==
  ASSUME NEW v \in Writer, WriterInv(v), writer'[v] = writer[v], Locked(v)' = Locked(v)
  PROVE  WriterInv(v)'
BY DEF WriterInv, Needs

LEMMA SameWorker ==
  ASSUME NEW q \in Worker, WorkerInv(q), worker'[q] = worker[q], Locked(q)' = Locked(q),
         \A d \in Day : FreshRows(d) \subseteq FreshRows(d)' /\ Baselines(d)' = Baselines(d)
  PROVE  WorkerInv(q)'
<1>1. \A d \in Day : holder[d] = q => holder'[d] = q
  BY DEF Locked
<1>2. QED
  BY <1>1 DEF WorkerInv

-----------------------------------------------------------------------------
(* Every step keeps the invariant *)

LEMMA InitInv == Init => SummaryInv
<1>1. SUFFICES ASSUME Init PROVE SummaryInv
  OBVIOUS
<1>2. 0 \in Time /\ 0 \in Day /\ 0 \in 0 .. MaxDay + 1 /\ 0 \in 0 .. MaxFaults
  BY SummaryNumbers DEF Time, Day
<1>3. RawInv
  <2>1. CASE raw = [t \in Time |-> {}]
    BY <2>1, FS_EmptySet DEF RawInv
  <2>2. CASE \E r \in Reading : raw = [t \in Time |-> IF t = 0 THEN {r} ELSE {}]
    BY <2>2, FS_EmptySet, FS_Singleton DEF RawInv
  <2>3. QED
    BY <1>1, <2>1, <2>2 DEF Init
<1>4. Idle \in Batch
  BY DEF Idle, Batch, NoBaseline
<1>5. TypeOK
  BY <1>1, <1>2, <1>3, <1>4 DEF Init, TypeOK, RawInv
<1>6. \A w \in Writer : WriterInv(w)
  BY <1>1 DEF Init, WriterInv
<1>7. \A p \in Worker : WorkerInv(p)
  BY <1>1 DEF Init, WorkerInv, Idle
<1>8. \A d \in Day : DayInv(d)
  BY <1>1 DEF Init, DayInv
<1>9. QED
  BY <1>3, <1>5, <1>6, <1>7, <1>8 DEF SummaryInv

LEMMA InsertSampleInv ==
  ASSUME SummaryInv, NEW w \in Writer, InsertSample(w)
  PROVE  SummaryInv'
<1>1. PICK t \in Time, r \in Reading :
        writer' = [writer EXCEPT ![w] = [at |-> t, reading |-> r, ahead |-> Marks(t)]]
  BY DEF InsertSample
<1>2. UNCHANGED <<raw, today, dirty, holder, daily, worker, cursor, faults>>
  BY DEF InsertSample
<1>3. TypeOK /\ RawInv
  BY DEF SummaryInv
<1>4. today' \in Day /\ today <= today'
  BY <1>2, <1>3, SummaryNumbers DEF TypeOK
<1>5. RawInv' /\ \A d \in Day : FreshRows(d) \subseteq FreshRows(d)' /\ Baselines(d)' = Baselines(d)
  BY <1>2, <1>3, <1>4, DaysKept
<1>6. [at |-> t, reading |-> r, ahead |-> Marks(t)] \in Sample
  BY DEF Sample, Marks
<1>7. TypeOK'
  BY <1>1, <1>2, <1>3, <1>6 DEF TypeOK
<1>8. ASSUME NEW v \in Writer PROVE WriterInv(v)'
  <2>1. CASE v = w
    BY <1>1, <1>2, <1>3, <2>1, NeedsMarked DEF WriterInv, TypeOK
  <2>2. CASE v # w
    BY <1>1, <1>2, <1>3, <2>2 DEF WriterInv, TypeOK, SummaryInv, Locked
  <2>3. QED
    BY <2>1, <2>2
<1>9. \A p \in Worker : WorkerInv(p)'
  BY <1>2, <1>5 DEF SummaryInv, WorkerInv, Locked
<1>10. \A d \in Day : DayInv(d)'
  BY <1>2, <1>5 DEF SummaryInv, DayInv
<1>11. QED
  BY <1>5, <1>7, <1>8, <1>9, <1>10 DEF SummaryInv

LEMMA MarkDayInv ==
  ASSUME SummaryInv, NEW w \in Writer, MarkDay(w)
  PROVE  SummaryInv'
<1> DEFINE m == Min(writer[w].ahead)
<1>1. TypeOK /\ RawInv
  BY DEF SummaryInv
<1>2. writer[w] # NoRow /\ writer[w] \in Sample /\ writer[w].ahead # {}
  BY <1>1 DEF MarkDay, TypeOK
<1>3. m \in writer[w].ahead /\ m \in Day
  BY <1>2, FirstDay DEF Sample
<1>4. /\ holder[m] = Free
      /\ holder' = [holder EXCEPT ![m] = w]
      /\ writer' = [writer EXCEPT ![w].ahead = @ \ {m}]
      /\ UNCHANGED <<raw, today, dirty, daily, worker, cursor, faults>>
  BY DEF MarkDay
<1> HIDE DEF m
<1>5. today' \in Day /\ today <= today'
  BY <1>1, <1>4, SummaryNumbers DEF TypeOK
<1>6. RawInv' /\ \A d \in Day : FreshRows(d) \subseteq FreshRows(d)' /\ Baselines(d)' = Baselines(d)
  BY <1>1, <1>4, <1>5, DaysKept
<1>7. /\ writer'[w] \in Sample /\ writer'[w].at = writer[w].at
      /\ writer'[w].ahead = writer[w].ahead \ {m}
      /\ \A v \in Writer : v # w => writer'[v] = writer[v]
  BY <1>1, <1>2, <1>4 DEF TypeOK, Sample
<1>8. TypeOK'
  <2>1. writer' \in [Writer -> Sample \cup {NoRow}]
    BY <1>1, <1>4, <1>7 DEF TypeOK
  <2>2. holder' \in [Day -> Worker \cup Writer \cup {Free}]
    BY <1>1, <1>3, <1>4 DEF TypeOK
  <2>3. QED
    BY <1>1, <1>4, <2>1, <2>2 DEF TypeOK
<1>9. /\ Locked(w)' = Locked(w) \cup {m}
      /\ \A v \in Writer : v # w => Locked(v)' = Locked(v)
      /\ \A p \in Worker : Locked(p)' = Locked(p)
  BY <1>1, <1>3, <1>4, Holders DEF TypeOK, Locked
<1>10. ASSUME NEW v \in Writer PROVE WriterInv(v)'
  <2>1. CASE v = w
    BY <1>2, <1>7, <1>9, <2>1 DEF WriterInv, SummaryInv, Needs
  <2>2. CASE v # w
    BY <1>7, <1>9, <2>2 DEF WriterInv, SummaryInv, Needs
  <2>3. QED
    BY <2>1, <2>2
<1>11. ASSUME NEW p \in Worker PROVE WorkerInv(p)'
  <2>1. \A d \in Day : holder[d] = p => holder'[d] = p
    BY <1>1, <1>4, Holders DEF TypeOK
  <2>2. QED
    BY <1>4, <1>6, <1>9, <2>1 DEF SummaryInv, WorkerInv
<1>12. \A d \in Day : DayInv(d)'
  BY <1>4, <1>6 DEF SummaryInv, DayInv
<1>13. QED
  BY <1>6, <1>8, <1>10, <1>11, <1>12 DEF SummaryInv
(* The end of a transaction unlocks its marks and no other. *)
LEMMA ReleasedHolders ==
  ASSUME TypeOK, NEW x, holder' = Released(x)
  PROVE  /\ x # Free => Locked(x)' = {}
         /\ \A y \in Worker \cup Writer : y # x => Locked(y)' = Locked(y)
         /\ holder' \in [Day -> Worker \cup Writer \cup {Free}]
BY Holders DEF TypeOK, Locked, Released

LEMMA CommitSampleInv ==
  ASSUME SummaryInv, NEW w \in Writer, CommitSample(w)
  PROVE  SummaryInv'
<1> DEFINE s == writer[w].at
<1>1. TypeOK /\ RawInv
  BY DEF SummaryInv
<1>2. writer[w] # NoRow /\ writer[w] \in Sample /\ writer[w].ahead = {}
  BY <1>1 DEF CommitSample, TypeOK
<1>3. s \in Time /\ writer[w].reading \in Reading /\ Needs(s) \subseteq Locked(w)
  BY <1>2 DEF Sample, SummaryInv, WriterInv
<1>4. /\ raw' = [raw EXCEPT ![s] = @ \cup {writer[w].reading}]
      /\ dirty' = dirty \cup Locked(w)
      /\ holder' = Released(w)
      /\ writer' = [writer EXCEPT ![w] = NoRow]
      /\ UNCHANGED <<today, daily, worker, cursor, faults>>
  BY DEF CommitSample
<1> HIDE DEF s
<1>5. RawInv'
  <2>1. IsFiniteSet(raw[s] \cup {writer[w].reading})
    BY <1>1, <1>3, FS_AddElement DEF RawInv
  <2>2. QED
    BY <1>1, <1>3, <1>4, <2>1 DEF RawInv
<1>6. ASSUME NEW d \in Day, d \notin Locked(w)
      PROVE  FreshRows(d) \subseteq FreshRows(d)' /\ Baselines(d)' = Baselines(d)
  <2>1. ~(Start(d) <= s /\ s <= End(d))
    BY <1>3, <1>6 DEF Needs
  <2>2. \A t \in Time : Start(d) <= t /\ t <= End(d) => raw'[t] = raw[t]
    BY <1>1, <1>4, <2>1 DEF RawInv
  <2>3. today \in Day /\ today' \in Day /\ today <= today'
    BY <1>1, <1>4, SummaryNumbers DEF TypeOK
  <2>4. QED
    BY <1>1, <1>5, <2>2, <2>3, DayKept
<1>7. /\ \A y \in Worker \cup Writer : y # w => Locked(y)' = Locked(y)
      /\ holder' \in [Day -> Worker \cup Writer \cup {Free}]
  BY <1>1, <1>4, ReleasedHolders
<1>8. TypeOK'
  <2>1. dirty' \subseteq Day
    BY <1>1, <1>4 DEF TypeOK, Locked
  <2>2. QED
    BY <1>1, <1>4, <1>5, <1>7, <2>1 DEF TypeOK, RawInv
<1>9. ASSUME NEW v \in Writer PROVE WriterInv(v)'
  <2>1. CASE v = w
    BY <1>1, <1>4, <2>1 DEF WriterInv, TypeOK
  <2>2. CASE v # w
    <3>1. writer'[v] = writer[v]
      BY <1>1, <1>4, <2>2 DEF TypeOK
    <3>2. QED
      BY <1>7, <2>2, <3>1 DEF WriterInv, SummaryInv, Needs
  <2>3. QED
    BY <2>1, <2>2
<1>10. ASSUME NEW p \in Worker PROVE WorkerInv(p)'
  <2>1. p # w /\ WorkerInv(p)
    BY Holders DEF SummaryInv
  <2>2. Locked(p)' = Locked(p) /\ worker' = worker
    BY <1>4, <1>7, <2>1
  <2>3. \A d \in Locked(p) : d \in Day /\ d \notin Locked(w) /\ holder'[d] = p
    BY <1>1, <2>1, <2>2 DEF Locked, TypeOK
  <2>4. worker[p].todo # {} => Min(worker[p].todo) \in worker[p].todo
    BY <2>1, FirstDay DEF WorkerInv, Locked
  <2>5. ASSUME worker[p].phase = "samples", NEW d \in Day, d = Min(worker[p].todo)
        PROVE  worker[p].baseline \in Baselines(d)'
    BY <1>6, <2>1, <2>3, <2>4, <2>5 DEF WorkerInv
  <2>6. ASSUME NEW d \in Day, worker[p].done[d] # NoRow
        PROVE  holder'[d] = p /\ worker[p].done[d] \in FreshRows(d)'
    <3>1. d \in Locked(p) /\ worker[p].done[d] \in FreshRows(d)
      BY <2>1, <2>6 DEF WorkerInv, Locked
    <3>2. QED
      BY <1>6, <2>3, <3>1
  <2>7. QED
    BY <2>1, <2>2, <2>5, <2>6 DEF WorkerInv
<1>11. ASSUME NEW d \in Day PROVE DayInv(d)'
  BY <1>4, <1>6 DEF SummaryInv, DayInv
<1>12. QED
  BY <1>5, <1>8, <1>9, <1>10, <1>11 DEF SummaryInv

LEMMA AbortSampleInv ==
  ASSUME SummaryInv, NEW w \in Writer, AbortSample(w)
  PROVE  SummaryInv'
<1>1. TypeOK /\ RawInv
  BY DEF SummaryInv
<1>2. /\ holder' = Released(w)
      /\ writer' = [writer EXCEPT ![w] = NoRow]
      /\ faults < MaxFaults /\ faults' = faults + 1
      /\ UNCHANGED <<raw, today, dirty, daily, worker, cursor>>
  BY DEF AbortSample
<1>3. today' \in Day /\ today <= today'
  BY <1>1, <1>2, SummaryNumbers DEF TypeOK
<1>4. RawInv' /\ \A d \in Day : FreshRows(d) \subseteq FreshRows(d)' /\ Baselines(d)' = Baselines(d)
  BY <1>1, <1>2, <1>3, DaysKept
<1>5. /\ \A y \in Worker \cup Writer : y # w => Locked(y)' = Locked(y)
      /\ holder' \in [Day -> Worker \cup Writer \cup {Free}]
  BY <1>1, <1>2, ReleasedHolders
<1>6. TypeOK'
  <2>1. faults' \in 0 .. MaxFaults
    BY <1>1, <1>2, SummaryNumbers DEF TypeOK
  <2>2. QED
    BY <1>1, <1>2, <1>5, <2>1 DEF TypeOK
<1>7. ASSUME NEW v \in Writer PROVE WriterInv(v)'
  <2>1. CASE v = w
    BY <1>1, <1>2, <2>1 DEF WriterInv, TypeOK
  <2>2. CASE v # w
    <3>1. writer'[v] = writer[v]
      BY <1>1, <1>2, <2>2 DEF TypeOK
    <3>2. QED
      BY <1>5, <2>2, <3>1 DEF WriterInv, SummaryInv, Needs
  <2>3. QED
    BY <2>1, <2>2
<1>8. ASSUME NEW p \in Worker PROVE WorkerInv(p)'
  <2>1. p # w /\ WorkerInv(p)
    BY Holders DEF SummaryInv
  <2>2. Locked(p)' = Locked(p) /\ worker' = worker
    BY <1>2, <1>5, <2>1
  <2>3. \A d \in Day : holder[d] = p => holder'[d] = p
    BY <2>2 DEF Locked
  <2>4. QED
    BY <1>4, <2>1, <2>2, <2>3 DEF WorkerInv
<1>9. \A d \in Day : DayInv(d)'
  BY <1>2, <1>4 DEF SummaryInv, DayInv
<1>10. QED
  BY <1>4, <1>6, <1>7, <1>8, <1>9 DEF SummaryInv
-----------------------------------------------------------------------------
LEMMA ClaimDaysInv ==
  ASSUME SummaryInv, NEW p \in Worker, ClaimDays(p)
  PROVE  SummaryInv'
<1> DEFINE claimed == {d \in dirty \cup PastPartial : holder[d] = Free}
           batch == [Idle EXCEPT !.todo = claimed, !.phase = "baseline"]
<1>1. TypeOK /\ RawInv
  BY DEF SummaryInv
<1>2. /\ holder' = [d \in Day |-> IF d \in claimed THEN p ELSE holder[d]]
      /\ worker' = [worker EXCEPT ![p] = batch]
      /\ UNCHANGED <<raw, today, dirty, daily, writer, cursor, faults>>
  BY DEF ClaimDays
<1>3. claimed \in SUBSET Day /\ \A d \in claimed : holder[d] = Free
  BY <1>1 DEF TypeOK, PastPartial
<1> HIDE DEF claimed
<1>4. /\ batch \in Batch /\ batch.todo = claimed /\ batch.phase = "baseline"
      /\ \A d \in Day : batch.done[d] = NoRow
  BY <1>3 DEF Idle, Batch, NoBaseline
<1> HIDE DEF batch
<1>5. today' \in Day /\ today <= today'
  BY <1>1, <1>2, SummaryNumbers DEF TypeOK
<1>6. RawInv' /\ \A d \in Day : FreshRows(d) \subseteq FreshRows(d)' /\ Baselines(d)' = Baselines(d)
  BY <1>1, <1>2, <1>5, DaysKept
<1>7. TypeOK'
  <2>1. holder' \in [Day -> Worker \cup Writer \cup {Free}]
    BY <1>1, <1>2 DEF TypeOK
  <2>2. worker' \in [Worker -> Batch]
    BY <1>1, <1>2, <1>4 DEF TypeOK
  <2>3. QED
    BY <1>1, <1>2, <2>1, <2>2 DEF TypeOK
<1>8. /\ claimed \subseteq Locked(p)'
      /\ \A y \in Worker \cup Writer : y # p => Locked(y)' = Locked(y)
  BY <1>2, <1>3, Holders DEF Locked
<1>9. ASSUME NEW v \in Writer PROVE WriterInv(v)'
  <2>1. v # p /\ Locked(v)' = Locked(v)
    BY <1>8, Holders
  <2>2. QED
    BY <1>2, <2>1 DEF WriterInv, SummaryInv, Needs
<1>10. ASSUME NEW q \in Worker PROVE WorkerInv(q)'
  <2>1. CASE q = p
    <3>1. worker'[q] = batch
      BY <1>1, <1>2, <2>1 DEF TypeOK
    <3>2. QED
      BY <1>4, <1>8, <2>1, <3>1 DEF WorkerInv
  <2>2. CASE q # p
    <3>1. worker'[q] = worker[q] /\ Locked(q)' = Locked(q)
      BY <1>1, <1>2, <1>8, <2>2 DEF TypeOK
    <3>2. \A d \in Day : holder[d] = q => holder'[d] = q
      BY <3>1 DEF Locked
    <3>3. QED
      BY <1>6, <3>1, <3>2 DEF SummaryInv, WorkerInv
  <2>3. QED
    BY <2>1, <2>2
<1>11. \A d \in Day : DayInv(d)'
  BY <1>2, <1>6 DEF SummaryInv, DayInv
<1>12. QED
  BY <1>6, <1>7, <1>9, <1>10, <1>11 DEF SummaryInv

(* What the first statement of a day reads. *)
LEMMA BaselineRead ==
  ASSUME RawInv, NEW d \in Day, NEW before, before = {t \in 0 .. Start(d) : raw[t] # {}},
         NEW base, base = IF before = {} THEN NoBaseline
                          ELSE [at |-> Max(before), seen |-> raw[Max(before)]]
  PROVE  base \in Baselines(d)
<1>1. Start(d) \in Time /\ 0 .. Start(d) \subseteq Time /\ Start(d) \in 0 .. Start(d)
      /\ IsFiniteSet(0 .. Start(d)) /\ Start(d) # -1
  <2>1. Start(d) \in Nat /\ Start(MaxDay + 1) \in Int /\ Start(d) <= Start(MaxDay + 1)
    <3>1. DayLength * (MaxDay + 1) \in Int
      BY DayBounds
    <3>2. QED
      BY <3>1, DayBounds DEF Start
  <2>2. 0 .. Start(d) \subseteq Time /\ Start(d) \in 0 .. Start(d)
    BY <2>1 DEF Time
  <2>3. QED
    <3>1. IsFiniteSet(0 .. Start(d))
      BY SummaryNumbers, FS_Interval
    <3>2. QED
      BY <2>2, <3>1, SummaryNumbers
<1>2. IsFiniteSet(before) /\ before \subseteq Int
  BY <1>1, FS_Subset
<1>3. before # {} => Max(before) \in before
  BY <1>2, MaxExists
<1>4. raw[Start(d)] # {} => Start(d) \in before /\ Max(before) = Start(d)
  BY <1>1, <1>2, MaxIs
<1>5. base \in [at : Time \cup {-1}, seen : SUBSET Reading]
  BY <1>1, <1>3 DEF NoBaseline, RawInv
<1>6. BaseRead(d, base)
  <2>1. CASE raw[Start(d)] # {}
    BY <1>4, <2>1 DEF BaseRead
  <2>2. CASE raw[Start(d)] = {} /\ before = {}
    BY <1>1, <2>2 DEF BaseRead, NoBaseline
  <2>3. CASE raw[Start(d)] = {} /\ before # {}
    BY <1>3, <2>3 DEF BaseRead
  <2>4. QED
    BY <2>1, <2>2, <2>3
<1>7. QED
  BY <1>5, <1>6 DEF Baselines

LEMMA ReadBaselineInv ==
  ASSUME SummaryInv, NEW p \in Worker, ReadBaseline(p)
  PROVE  SummaryInv'
<1> DEFINE first == Min(worker[p].todo)
           before == {t \in 0 .. Start(first) : raw[t] # {}}
           base == IF before = {} THEN NoBaseline
                   ELSE [at |-> Max(before), seen |-> raw[Max(before)]]
<1>1. TypeOK /\ RawInv /\ worker[p] \in Batch /\ WorkerInv(p)
  BY DEF SummaryInv, TypeOK
<1>2. /\ worker[p].todo # {}
      /\ worker' = [worker EXCEPT ![p].phase = "samples", ![p].baseline = base]
      /\ UNCHANGED <<raw, today, dirty, holder, daily, writer, cursor, faults>>
  BY DEF ReadBaseline
<1>3. first \in Day
  BY <1>1, <1>2, FirstDay DEF Batch
<1>4. base \in Baselines(first)
  BY <1>1, <1>3, BaselineRead
<1>5. base \in [at : Time \cup {-1}, seen : SUBSET Reading]
  BY <1>4 DEF Baselines
<1> HIDE DEF base
<1>6. today' \in Day /\ today <= today'
  BY <1>1, <1>2, SummaryNumbers DEF TypeOK
<1>7. RawInv' /\ \A d \in Day : FreshRows(d) \subseteq FreshRows(d)' /\ Baselines(d)' = Baselines(d)
  BY <1>1, <1>2, <1>6, DaysKept
<1>8. worker'[p] = [todo |-> worker[p].todo, phase |-> "samples", baseline |-> base,
                    done |-> worker[p].done]
  BY <1>1, <1>2 DEF TypeOK, Batch
<1>9. TypeOK'
  <2>1. worker'[p] \in Batch
    BY <1>1, <1>5, <1>8 DEF Batch
  <2>2. worker' \in [Worker -> Batch]
    BY <1>1, <1>2, <2>1 DEF TypeOK
  <2>3. QED
    BY <1>1, <1>2, <2>2 DEF TypeOK
<1>10. \A v \in Writer : WriterInv(v)'
  BY <1>2 DEF WriterInv, SummaryInv, Needs, Locked
<1>11. ASSUME NEW q \in Worker PROVE WorkerInv(q)'
  <2>1. Locked(q)' = Locked(q)
    BY <1>2 DEF Locked
  <2>2. CASE q = p
    <3>1. \A d \in Day : d = first => base \in Baselines(d)'
      BY <1>4, <1>7
    <3>2. holder' = holder /\ worker'[q].todo = worker[p].todo /\ worker'[q].baseline = base
          /\ worker'[q].done = worker[p].done
      BY <1>2, <1>8, <2>2
    <3>3. \A d \in Day : worker[p].done[d] # NoRow =>
            holder'[d] = p /\ worker[p].done[d] \in FreshRows(d)'
      BY <1>1, <1>7, <3>2 DEF WorkerInv
    <3>4. worker'[q].todo \subseteq Locked(q)' /\ worker'[q].todo # {}
      BY <1>1, <1>2, <2>1, <2>2, <3>2 DEF WorkerInv
    <3>5. QED
      BY <2>2, <3>1, <3>2, <3>3, <3>4 DEF WorkerInv
  <2>3. CASE q # p
    <3>1. worker'[q] = worker[q]
      BY <1>1, <1>2, <2>3 DEF TypeOK
    <3>2. QED
      BY <1>7, <2>1, <3>1, SameWorker DEF SummaryInv
  <2>4. QED
    BY <2>2, <2>3
<1>12. \A d \in Day : DayInv(d)'
  BY <1>2, <1>7 DEF SummaryInv, DayInv
<1>13. QED
  BY <1>7, <1>9, <1>10, <1>11, <1>12 DEF SummaryInv

LEMMA CalculateDayInv ==
  ASSUME SummaryInv, NEW p \in Worker, CalculateDay(p)
  PROVE  SummaryInv'
<1> DEFINE first == Min(worker[p].todo)
           row == Calculated(first, worker[p].baseline)
<1>1. TypeOK /\ RawInv /\ worker[p] \in Batch /\ WorkerInv(p)
  BY DEF SummaryInv, TypeOK
<1>2. /\ worker[p].phase = "samples"
      /\ worker' = [worker EXCEPT ![p].todo = @ \ {first}, ![p].phase = "baseline",
                                  ![p].baseline = NoBaseline,
                                  ![p].done = [worker[p].done EXCEPT ![first] = row]]
      /\ UNCHANGED <<raw, today, dirty, holder, daily, writer, cursor, faults>>
  BY DEF CalculateDay
<1>3. first \in worker[p].todo /\ first \in Day
  BY <1>1, <1>2, FirstDay DEF Batch, WorkerInv
<1>4. holder[first] = p
  BY <1>1, <1>3 DEF WorkerInv, Locked
<1>5. BaseRead(first, worker[p].baseline)
  BY <1>1, <1>2, <1>3 DEF WorkerInv, Baselines
<1>6. row \in FreshRows(first) /\ row \in Row
  BY <1>1, <1>3, <1>5, CalculatedFresh DEF TypeOK, FreshRows
<1> HIDE DEF first, row
<1>7. today' \in Day /\ today <= today'
  BY <1>1, <1>2, SummaryNumbers DEF TypeOK
<1>8. RawInv' /\ \A d \in Day : FreshRows(d) \subseteq FreshRows(d)' /\ Baselines(d)' = Baselines(d)
  BY <1>1, <1>2, <1>7, DaysKept
<1>9. worker'[p] = [todo |-> worker[p].todo \ {first}, phase |-> "baseline",
                    baseline |-> NoBaseline, done |-> [worker[p].done EXCEPT ![first] = row]]
  BY <1>1, <1>2 DEF TypeOK, Batch
<1>10. TypeOK'
  <2>1. worker'[p] \in Batch
    <3>1. worker[p].todo \ {first} \in SUBSET Day
      BY <1>1 DEF Batch
    <3>2. [worker[p].done EXCEPT ![first] = row] \in [Day -> Row \cup {NoRow}]
      BY <1>1, <1>6 DEF Batch
    <3>3. NoBaseline \in [at : Time \cup {-1}, seen : SUBSET Reading]
      BY DEF NoBaseline
    <3>4. QED
      BY <1>9, <3>1, <3>2, <3>3 DEF Batch
  <2>2. worker' \in [Worker -> Batch]
    BY <1>1, <1>2, <2>1 DEF TypeOK
  <2>3. QED
    BY <1>1, <1>2, <2>2 DEF TypeOK
<1>11. \A v \in Writer : WriterInv(v)'
  BY <1>2 DEF WriterInv, SummaryInv, Needs, Locked
<1>12. ASSUME NEW q \in Worker PROVE WorkerInv(q)'
  <2>1. Locked(q)' = Locked(q)
    BY <1>2 DEF Locked
  <2>2. CASE q = p
    <3>1. ASSUME NEW d \in Day, worker'[p].done[d] # NoRow
          PROVE  holder'[d] = p /\ worker'[p].done[d] \in FreshRows(d)'
      <4>1. CASE d = first
        <5>1. worker'[p].done[d] = row
          BY <1>1, <1>9, <4>1 DEF Batch
        <5>2. row \in FreshRows(d)'
          BY <1>6, <1>8, <4>1
        <5>3. QED
          BY <1>2, <1>4, <4>1, <5>1, <5>2
      <4>2. CASE d # first
        <5>1. worker'[p].done[d] = worker[p].done[d]
          BY <1>1, <1>9, <4>2 DEF Batch
        <5>2. QED
          BY <1>1, <1>2, <1>8, <3>1, <5>1 DEF WorkerInv
      <4>3. QED
        BY <4>1, <4>2
    <3>2. worker'[p].todo \subseteq Locked(p)' /\ worker'[p].phase # "samples"
      BY <1>1, <1>9, <2>1, <2>2 DEF WorkerInv
    <3>3. QED
      BY <2>2, <3>1, <3>2 DEF WorkerInv
  <2>3. CASE q # p
    <3>1. worker'[q] = worker[q]
      BY <1>1, <1>2, <2>3 DEF TypeOK
    <3>2. QED
      BY <1>8, <2>1, <3>1, SameWorker DEF SummaryInv
  <2>4. QED
    BY <2>2, <2>3
<1>13. \A d \in Day : DayInv(d)'
  BY <1>2, <1>8 DEF SummaryInv, DayInv
<1>14. QED
  BY <1>8, <1>10, <1>11, <1>12, <1>13 DEF SummaryInv
(* A batch that ends leaves its worker idle and its days unlocked. *)
LEMMA IdleWorkers ==
  ASSUME SummaryInv, NEW p \in Worker, holder' = Released(p),
         worker' = [worker EXCEPT ![p] = Idle], raw' = raw, today' = today, writer' = writer
  PROVE  /\ RawInv'
         /\ \A d \in Day : FreshRows(d) \subseteq FreshRows(d)'
         /\ holder' \in [Day -> Worker \cup Writer \cup {Free}]
         /\ worker' \in [Worker -> Batch]
         /\ \A v \in Writer : WriterInv(v)'
         /\ \A q \in Worker : WorkerInv(q)'
<1>1. TypeOK /\ RawInv
  BY DEF SummaryInv
<1>2. today' \in Day /\ today <= today'
  BY <1>1, SummaryNumbers DEF TypeOK
<1>3. RawInv' /\ \A d \in Day : FreshRows(d) \subseteq FreshRows(d)' /\ Baselines(d)' = Baselines(d)
  BY <1>1, <1>2, DaysKept
<1>4. /\ \A y \in Worker \cup Writer : y # p => Locked(y)' = Locked(y)
      /\ holder' \in [Day -> Worker \cup Writer \cup {Free}]
  BY <1>1, ReleasedHolders
<1>5. Idle \in Batch
  BY DEF Idle, Batch, NoBaseline
<1>6. worker' \in [Worker -> Batch]
  BY <1>1, <1>5 DEF TypeOK
<1>7. ASSUME NEW v \in Writer PROVE WriterInv(v)'
  <2>1. v # p /\ WriterInv(v)
    BY Holders DEF SummaryInv
  <2>2. QED
    BY <1>4, <2>1, SameWriter
<1>8. ASSUME NEW q \in Worker PROVE WorkerInv(q)'
  <2>1. CASE q = p
    <3>1. worker'[q] = Idle
      BY <1>1, <2>1 DEF TypeOK
    <3>2. QED
      BY <3>1 DEF WorkerInv, Idle
  <2>2. CASE q # p
    <3>1. worker'[q] = worker[q] /\ WorkerInv(q) /\ Locked(q)' = Locked(q)
      BY <1>1, <1>4, <2>2 DEF TypeOK, SummaryInv
    <3>2. QED
      BY <1>3, <3>1, SameWorker
  <2>3. QED
    BY <2>1, <2>2
<1>9. QED
  BY <1>3, <1>4, <1>6, <1>7, <1>8

LEMMA CommitBatchInv ==
  ASSUME SummaryInv, NEW p \in Worker, CommitBatch(p)
  PROVE  SummaryInv'
<1> DEFINE done == {d \in Day : worker[p].done[d] # NoRow}
<1>1. TypeOK /\ WorkerInv(p) /\ worker[p] \in Batch
  BY DEF SummaryInv, TypeOK
<1>2. /\ daily' = [d \in Day |-> IF d \in done THEN worker[p].done[d] ELSE daily[d]]
      /\ dirty' = (dirty \cup Locked(p)) \ done
      /\ holder' = Released(p)
      /\ worker' = [worker EXCEPT ![p] = Idle]
      /\ UNCHANGED <<raw, today, writer, cursor, faults>>
  BY DEF CommitBatch
<1>3. /\ RawInv'
      /\ \A d \in Day : FreshRows(d) \subseteq FreshRows(d)'
      /\ holder' \in [Day -> Worker \cup Writer \cup {Free}]
      /\ worker' \in [Worker -> Batch]
      /\ \A v \in Writer : WriterInv(v)'
      /\ \A q \in Worker : WorkerInv(q)'
  BY <1>2, IdleWorkers
<1>4. TypeOK'
  <2>1. daily' \in [Day -> Row \cup {NoRow}]
    <3>1. worker[p].done \in [Day -> Row \cup {NoRow}]
      BY <1>1 DEF Batch
    <3>2. QED
      BY <1>1, <1>2, <3>1 DEF TypeOK
  <2>2. dirty' \subseteq Day
    BY <1>1, <1>2 DEF TypeOK, Locked
  <2>3. QED
    BY <1>1, <1>2, <1>3, <2>1, <2>2 DEF TypeOK
<1>5. ASSUME NEW d \in Day PROVE DayInv(d)'
  <2>1. CASE d \in done
    BY <1>1, <1>2, <1>3, <2>1 DEF WorkerInv, DayInv
  <2>2. CASE d \notin done
    BY <1>2, <1>3, <2>2 DEF SummaryInv, DayInv
  <2>3. QED
    BY <2>1, <2>2
<1>6. QED
  BY <1>3, <1>4, <1>5 DEF SummaryInv

LEMMA AbortBatchInv ==
  ASSUME SummaryInv, NEW p \in Worker, AbortBatch(p)
  PROVE  SummaryInv'
<1>1. TypeOK
  BY DEF SummaryInv
<1>2. /\ holder' = Released(p)
      /\ worker' = [worker EXCEPT ![p] = Idle]
      /\ faults < MaxFaults /\ faults' = faults + 1
      /\ UNCHANGED <<raw, today, dirty, daily, writer, cursor>>
  BY DEF AbortBatch
<1>3. /\ RawInv'
      /\ \A d \in Day : FreshRows(d) \subseteq FreshRows(d)'
      /\ holder' \in [Day -> Worker \cup Writer \cup {Free}]
      /\ worker' \in [Worker -> Batch]
      /\ \A v \in Writer : WriterInv(v)'
      /\ \A q \in Worker : WorkerInv(q)'
  BY <1>2, IdleWorkers
<1>4. TypeOK'
  <2>1. faults' \in 0 .. MaxFaults
    BY <1>1, <1>2, SummaryNumbers DEF TypeOK
  <2>2. QED
    BY <1>1, <1>2, <1>3, <2>1 DEF TypeOK
<1>5. \A d \in Day : DayInv(d)'
  BY <1>2, <1>3 DEF SummaryInv, DayInv
<1>6. QED
  BY <1>3, <1>4, <1>5 DEF SummaryInv

(* Steps that touch no transaction and no sample. *)
LEMMA OtherSteps ==
  ASSUME SummaryInv, UNCHANGED <<raw, holder, daily, writer, worker, faults>>,
         dirty \subseteq dirty', dirty' \subseteq Day, cursor' \in 0 .. MaxDay + 1,
         today' \in Day, today <= today'
  PROVE  SummaryInv'
<1>1. TypeOK /\ RawInv
  BY DEF SummaryInv
<1>2. RawInv' /\ \A d \in Day : FreshRows(d) \subseteq FreshRows(d)' /\ Baselines(d)' = Baselines(d)
  BY <1>1, DaysKept
<1>3. TypeOK'
  BY <1>1 DEF TypeOK
<1>4. \A x : Locked(x)' = Locked(x)
  BY DEF Locked
<1>5. \A w \in Writer : WriterInv(w)'
  BY <1>4, SameWriter DEF SummaryInv
<1>6. \A p \in Worker : WorkerInv(p)'
  BY <1>2, <1>4, SameWorker DEF SummaryInv
<1>7. \A d \in Day : DayInv(d)'
  BY <1>2 DEF SummaryInv, DayInv
<1>8. QED
  BY <1>2, <1>3, <1>5, <1>6, <1>7 DEF SummaryInv

LEMMA NextInv == SummaryInv /\ [Next]_vars => SummaryInv'
<1>1. SUFFICES ASSUME SummaryInv, [Next]_vars PROVE SummaryInv'
  OBVIOUS
<1>2. TypeOK /\ MaxDay \in Nat /\ today \in Int /\ today <= today /\ cursor \in Int
  <2>1. TypeOK
    BY <1>1 DEF SummaryInv
  <2>2. MaxDay \in Nat /\ \A d \in Day : d \in Int
    BY SummaryNumbers
  <2>3. today \in Int /\ cursor \in Int
    BY <2>1, <2>2 DEF TypeOK
  <2>4. QED
    BY <2>1, <2>2, <2>3
<1>3. CASE \E w \in Writer : IngestionStep(w)
  BY <1>1, <1>3, InsertSampleInv, MarkDayInv, CommitSampleInv, AbortSampleInv DEF IngestionStep
<1>4. CASE \E p \in Worker : BatchStep(p)
  BY <1>1, <1>4, ClaimDaysInv, ReadBaselineInv, CalculateDayInv, CommitBatchInv, AbortBatchInv
     DEF BatchStep
<1>5. CASE Backfill
  <2>1. PICK last \in cursor .. MaxDay : /\ dirty' = dirty \cup (cursor .. last)
                                         /\ cursor' = last + 1
    BY <1>5 DEF Backfill
  <2>2. UNCHANGED <<raw, today, holder, daily, writer, worker, faults>>
    BY <1>5 DEF Backfill
  <2>3. cursor .. last \subseteq Day /\ last + 1 \in 0 .. MaxDay + 1
    BY <1>2, <2>1 DEF Day, TypeOK
  <2>4. QED
    BY <1>1, <1>2, <2>1, <2>2, <2>3, OtherSteps DEF TypeOK
<1>6. CASE Midnight
  <2>1. today' \in Day /\ today <= today'
    BY <1>2, <1>6 DEF Midnight, Day, TypeOK
  <2>2. UNCHANGED <<raw, dirty, holder, daily, writer, worker, cursor, faults>>
    BY <1>6 DEF Midnight
  <2>3. QED
    BY <1>1, <1>2, <2>1, <2>2, OtherSteps DEF TypeOK
<1>7. CASE UNCHANGED vars
  BY <1>1, <1>2, <1>7, OtherSteps DEF vars, TypeOK
<1>8. QED
  BY <1>1, <1>3, <1>4, <1>5, <1>6, <1>7 DEF Next

-----------------------------------------------------------------------------
(* The theorems *)

LEMMA InvReported == SummaryInv => ReportedIsMeasured
<1>1. SUFFICES ASSUME SummaryInv, NEW d \in Day, Reported(d) # NoEnergy
               PROVE  Reported(d) = Measured(d)
  BY DEF ReportedIsMeasured
<1>2. /\ daily[d] # NoRow /\ d \notin dirty /\ Reported(d) = daily[d].kwh
      /\ ~(daily[d].quality = "partial" /\ d < today)
  BY <1>1 DEF Reported
<1>3. daily[d] \in Row /\ RowFresh(d, daily[d])
  BY <1>1, <1>2 DEF SummaryInv, DayInv, FreshRows
<1>4. daily[d].quality \in {"complete", "partial"}
  BY <1>1, <1>2, <1>3 DEF RowFresh, Row, Quality
<1>5. CASE daily[d].quality = "complete"
  <2>1. Continuous(d) /\ daily[d].kwh = Value(d)
    BY <1>3, <1>5 DEF RowFresh, Through, Continuous
  <2>2. QED
    BY <1>2, <2>1 DEF Measured, Value
<1>6. CASE daily[d].quality = "partial"
  <2>1. Continuous(d) /\ daily[d].kwh = Value(d)
    BY <1>2, <1>3, <1>6 DEF RowFresh, Through, Continuous
  <2>2. QED
    BY <1>2, <2>1 DEF Measured, Value
<1>7. QED
  BY <1>4, <1>5, <1>6

LEMMA InvGaps == SummaryInv => GapsAreReal
<1>1. SUFFICES ASSUME SummaryInv, NEW d \in Day, d < today, d \notin dirty,
                      daily[d] # NoRow, daily[d].quality \in {"missing", "reset"}
               PROVE  Measured(d) = NoEnergy
  BY DEF GapsAreReal
<1>2. RowFresh(d, daily[d])
  BY <1>1 DEF SummaryInv, DayInv, FreshRows
<1>3. ~Continuous(d)
  BY <1>1, <1>2 DEF RowFresh, Through, Continuous
<1>4. QED
  BY <1>3 DEF Measured

(* The invariant above holds in every behaviour. *)
THEOREM SummaryInvariant == Spec => []SummaryInv
<1>1. QED
  BY InitInv, NextInv, PTL DEF Spec

(* Every variable keeps its type; that a row's energy is never negative needs the
   whole invariant. *)
THEOREM TypeCorrect == Spec => []TypeOK
<1>1. SummaryInv => TypeOK
  BY DEF SummaryInv
<1>2. QED
  BY <1>1, SummaryInvariant, PTL

(* What a report shows of a day is what its committed samples measure
   (EnergyReadService.daily, energy_mark_dirty, runBatch). *)
THEOREM ReportsMeasure == Spec => []ReportedIsMeasured
<1>1. QED
  BY SummaryInvariant, InvReported, PTL

(* No past day is shown as missing or reset whose samples measure an energy
   (energy_mark_dirty, runBatch). *)
THEOREM GapsReal == Spec => []GapsAreReal
<1>1. QED
  BY SummaryInvariant, InvGaps, PTL
=============================================================================
