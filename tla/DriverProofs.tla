----------------------------- MODULE DriverProofs -----------------------------
(***************************************************************************)
(* Proofs about the trace driver and its timing packages, for all traces,  *)
(* all answers of the allocator and all clocks: what the clocks measure    *)
(* and what fcyc makes of the samples; how the verdicts are counted; and,  *)
(* for the traces that checktrace.pl accepts, that the driver's records    *)
(* are the live payloads, that its verdicts are right, and that it knows   *)
(* how much was live at most.                                              *)
(*                                                                         *)
(* There are eight inductive invariants.  TimeInv and KBestInv speak of the*)
(* timing package alone, whose steps no other part of the driver takes;    *)
(* ReplayInv says where main is, CountInv how many verdicts there are at   *)
(* that point, RangeInv what is recorded of the live blocks, and JudgeInv  *)
(* what those blocks hold as long as the allocator has no fault, and       *)
(* which faults the driver may have let pass.  UtilizationRight itself     *)
(* needs of the others only ReplayInv, but also that the recursive sum of  *)
(* SizeOfLive is a sum: that it exists, and does not depend on the order.  *)
(* Each is shown on a counterexample with the fewest blocks.  DataInv      *)
(* completes the types.                                                    *)
(***************************************************************************)
EXTENDS Driver, FiniteSetTheorems, WellFoundedInduction, TLAPS

-----------------------------------------------------------------------------
(* Clocks *)

\* A number is made of its high and its low word.
LEMMA HiLo ==
  ASSUME NEW x \in Int, NEW b \in Nat \ {0}
  PROVE  /\ Hi(b, x) \in Int /\ Lo(b, x) \in 0 .. b - 1
         /\ x = b * Hi(b, x) + Lo(b, x)
BY DEF Hi, Lo

\* The remainder of a number that is small, or small and negative.
LEMMA ModSmall ==
  ASSUME NEW b \in Nat \ {0}, NEW x \in 0 .. b - 1
  PROVE  x % b = x /\ (x - b) % b = x
<1>1. x % b = x
  OBVIOUS
<1>2. (x - b) % b = x
  OBVIOUS
<1> QED BY <1>1, <1>2

\* A quotient is told by its product, to less than the divisor.
LEMMA Quotient ==
  ASSUME NEW b \in Nat \ {0}, NEW q \in Int, NEW r \in Int, b * q + r >= 0, b * q + r < b * b, r < b, r > - b
  PROVE  (r >= 0 => q \in 0 .. b - 1) /\ (r < 0 => q - 1 \in 0 .. b - 1)
<1>1. ASSUME q >= b PROVE b * q >= b * b
  BY <1>1
<1>2. ASSUME q =< -1 PROVE b * q =< - b
  BY <1>2
<1>3. ASSUME q = 0 PROVE b * q = 0
  BY <1>3
<1>4. ASSUME q >= b + 1 PROVE b * q >= b * b + b
  BY <1>4
<1> QED BY <1>1, <1>2, <1>3, <1>4

\* However the two words of the counter wrap around, their difference is the
\* number of cycles that have passed.
LEMMA CounterRight ==
  ASSUME NEW start \in Nat, NEW d \in Nat, d < Word * Word
  PROVE  get_counter(start, start + d) = d
<1> DEFINE now == start + d
           al == Lo(Word, start)   ah == Hi(Word, start)
           bl == Lo(Word, now)     bh == Hi(Word, now)
<1>0. Word \in Nat \ {0} /\ now \in Int
  BY TimingAssumption
<1>1. /\ al \in 0 .. Word - 1 /\ ah \in Int /\ start = Word * ah + al
      /\ bl \in 0 .. Word - 1 /\ bh \in Int /\ start + d = Word * bh + bl
  BY <1>0, HiLo
<1> HIDE DEF al, ah, bl, bh
<1>2. d = Word * (bh - ah) + (bl - al)
  BY <1>0, <1>1
<1>3. /\ bl >= al => bh - ah \in 0 .. Word - 1
      /\ bl < al => bh - ah - 1 \in 0 .. Word - 1
  BY <1>0, <1>1, <1>2, Quotient
<1> DEFINE lo == (bl - al) % Word
           hi == (bh - ah - Bit(lo > bl)) % Word
<1>4. get_counter(start, now) = hi * Word + lo
  BY DEF get_counter, al, ah, bl, bh
<1>5. CASE bl >= al
  <2>1. bl - al \in 0 .. Word - 1 /\ lo = bl - al
    BY <1>0, <1>1, <1>5, ModSmall
  <2>2. Bit(lo > bl) = 0
    BY <1>0, <1>1, <2>1 DEF Bit
  <2>3. hi = bh - ah
    BY <1>0, <1>1, <1>3, <1>5, <2>2, ModSmall
  <2> HIDE DEF lo, hi
  <2> QED BY <1>0, <1>1, <1>2, <1>4, <2>1, <2>3
<1>6. CASE bl < al
  <2>1. bl - al + Word \in 0 .. Word - 1 /\ lo = bl - al + Word
    <3>1. bl - al + Word \in 0 .. Word - 1 /\ bl - al = (bl - al + Word) - Word
      BY <1>0, <1>1, <1>6
    <3> QED BY <1>0, <3>1, ModSmall
  <2>2. Bit(lo > bl) = 1
    BY <1>0, <1>1, <2>1 DEF Bit
  <2>3. hi = bh - ah - 1
    BY <1>0, <1>1, <1>3, <1>6, <2>2, ModSmall
  <2> HIDE DEF lo, hi
  <2>4. Word * (bh - ah) = (bh - ah - 1) * Word + Word
    BY <1>0, <1>1
  <2> QED BY <1>0, <1>1, <1>2, <1>4, <2>1, <2>3, <2>4
<1> QED BY <1>0, <1>1, <1>5, <1>6

\* The difference of two times of day is the time between them, whatever second each is in.
LEMMA TimeOfDayRight ==
  ASSUME NEW start \in Nat, NEW d \in Nat
  PROVE  gettimeofday(start, start + d) = d
<1> DEFINE now == start + d
           al == Lo(Usec, start)   ah == Hi(Usec, start)
           bl == Lo(Usec, now)     bh == Hi(Usec, now)
<1>0. Usec \in Nat \ {0} /\ now \in Int
  BY TimingAssumption
<1>1. /\ al \in Int /\ ah \in Int /\ start = Usec * ah + al
      /\ bl \in Int /\ bh \in Int /\ start + d = Usec * bh + bl
  BY <1>0, HiLo
<1>2. gettimeofday(start, now) = Usec * (bh - ah) + (bl - al)
  BY DEF gettimeofday
<1> HIDE DEF al, ah, bl, bh
<1>3. Usec * (bh - ah) = Usec * bh - Usec * ah
  BY <1>0, <1>1
<1> QED BY <1>0, <1>1, <1>2, <1>3

\* The interval timer counts down from its start what passes.
LEMMA TimerRight == ASSUME NEW t \in Nat PROVE get_etime(t) = t
<1> DEFINE left == MAX_ETIME * Usec - t
<1>0. Usec \in Nat \ {0} /\ MAX_ETIME \in Nat /\ left \in Int
  BY TimingAssumption
<1>1. /\ Lo(Usec, left) \in Int /\ Hi(Usec, left) \in Int /\ left = Usec * Hi(Usec, left) + Lo(Usec, left)
  BY <1>0, HiLo
<1>2. Usec * (MAX_ETIME - Hi(Usec, left)) = MAX_ETIME * Usec - Usec * Hi(Usec, left)
  BY <1>0, <1>1
<1>3. get_etime(t) = Usec * (MAX_ETIME - Hi(Usec, left)) - Lo(Usec, left)
  BY DEF get_etime
<1> QED BY <1>0, <1>1, <1>2, <1>3

-----------------------------------------------------------------------------
(* What a measurement reads *)

\* The steps of the timing package, and fsecs being called.
TimingMoves == FReturns \/ Measure \/ fsecs

\* A step of the driver moves the timer or leaves it alone.
LEMMA TimingNext == [Next]_vars => TimingMoves \/ UNCHANGED timingVars
<1>1. UNCHANGED vars => UNCHANGED timingVars
  BY DEF vars
<1>2. Next => TimingMoves \/ UNCHANGED timingVars
  BY DEF Next, options, read_trace, loop_end, StartFsecs, Timer, EndFsecs, mm_init, mm_malloc, mm_realloc,
         mm_free, IsValid, eval_libc_valid, util_init, eval_mm_util, util_end, eval_mm_speed,
         eval_libc_speed, Timed, TimingMoves
<1> QED BY <1>1, <1>2

\* fcyc measures one run.
TimeInv == /\ package \in Packages /\ mark \in Nat /\ elapsed \in Nat
           /\ step \in {"idle", "clear", "start", "callibrate", "f", "stop", "exit"}
           /\ package = "fcyc" /\ step = "f" => elapsed = 0
           /\ package = "fcyc" /\ step = "stop" => elapsed \in Durations
           /\ TimeIsElapsed

\* A run takes less cycles than the two words of the counter can count.
CounterLasts == \A d \in Durations : d < Word * Word

\* Each package measures what has elapsed, the cycle counter as long as it does not wrap.
LEMMA MeasuredRight ==
  ASSUME CounterLasts, package \in Packages, mark \in Nat, elapsed \in Nat,
         package = "fcyc" => elapsed \in Durations
  PROVE  Measured = elapsed
<1>1. package \in {"fcyc", "itimer", "gettod"}
  BY TimingAssumption
<1>2. CASE package = "fcyc"
  BY <1>2, CounterRight DEF Measured, CounterLasts
<1>3. CASE package = "gettod"
  BY <1>3, TimeOfDayRight DEF Measured
<1>4. CASE package = "itimer"
  <2>1. get_etime(mark + elapsed) = mark + elapsed /\ get_etime(mark) = mark
    BY TimerRight
  <2> QED BY <1>4, <2>1 DEF Measured
<1> QED BY <1>1, <1>2, <1>3, <1>4

\* The clock is read when a measurement begins, and again when it ends.
LEMMA TimeKept == CounterLasts /\ TimeInv /\ [Next]_vars => TimeInv'
<1> SUFFICES ASSUME CounterLasts, TimeInv, TimingMoves \/ UNCHANGED timingVars PROVE TimeInv'
  BY TimingNext
<1> USE DEF TimeInv, TimeIsElapsed
<1>0. Durations \subseteq Nat /\ Marks \subseteq Nat
  BY TimingAssumption
<1>1. CASE UNCHANGED timingVars
  BY <1>1 DEF timingVars
<1>2. CASE FReturns
  <2>1. step = "f" /\ package' = package /\ mark' = mark /\ time' = time
    BY <1>2 DEF FReturns
  <2>2. PICK d \in Durations : elapsed' = elapsed + d
    BY <1>2 DEF FReturns
  <2>3. step' \in {"f", "stop"} /\ (package = "fcyc" => step' = "stop")
    BY <1>2 DEF FReturns
  <2> QED BY <1>0, <2>1, <2>2, <2>3
<1>3. CASE ftimer_stop
  BY <1>3, MeasuredRight DEF ftimer_stop
<1>4. CASE clear
  BY <1>4 DEF clear
<1>c. ASSUME StartClock, package' = package PROVE TimeInv'
  <2>1. mark' \in Nat /\ elapsed' = 0 /\ step' = "f"
    BY <1>0, <1>c DEF StartClock
  <2> QED BY <2>1, <1>c
<1>5. CASE start_comp_counter
  <2>1. /\ step = "start" /\ package' = package /\ time' = time
        /\ \/ StartClock
           \/ step' = "callibrate" /\ mark' = mark /\ elapsed' = elapsed
    BY <1>5 DEF start_comp_counter
  <2> QED BY <1>c, <2>1
<1>6. ASSUME NEW d \in Durations, NEW tick \in {0, 1}, callibrate(d, tick) PROVE TimeInv'
  <2>1. /\ step = "callibrate" /\ package' = package /\ time' = time
        /\ \/ StartClock
           \/ step' = step /\ mark' = mark /\ elapsed' = elapsed
    BY <1>6 DEF callibrate
  <2> QED BY <1>c, <2>1
<1>7. CASE get_comp_counter
  BY <1>7, MeasuredRight DEF get_comp_counter
<1>8. CASE fsecs
  <2>1. /\ step = "idle" /\ package' = package /\ time' = time
        /\ \/ StartClock
           \/ step' = "clear" /\ mark' = mark /\ elapsed' = elapsed
    BY <1>8 DEF fsecs
  <2> QED BY <1>c, <2>1
<1> QED BY <1>1, <1>2, <1>3, <1>4, <1>5, <1>6, <1>7, <1>8 DEF TimingMoves, Measure, fcyc

\* Whichever package measures, wherever its words wrap around, what it reads is
\* the time that has passed, if a run takes less than the whole counter.
THEOREM ClocksRight == CounterLasts => (Spec => []TimeIsElapsed)
<1>1. Init => TimeInv
  BY DEF Init, TimingInit, TimeInv, TimeIsElapsed
<1>2. TimeInv => TimeIsElapsed
  BY DEF TimeInv
<1> SUFFICES ASSUME CounterLasts PROVE Spec => []TimeIsElapsed
  OBVIOUS
<1>3. TimeInv /\ [Next]_vars => TimeInv'
  BY TimeKept
<1> QED BY <1>1, <1>2, <1>3, PTL DEF Spec

-----------------------------------------------------------------------------
(* Types of the timing package *)

\* At least one sample is kept.
LEMMA KbestPositive == kbest \in Nat \ {0}
BY TimingAssumption

\* Each package measures a number.
LEMMA MeasuredIsInt == ASSUME package \in Packages, mark \in Nat, elapsed \in Nat PROVE Measured \in Int
<1>0. /\ Word \in Nat \ {0} /\ Usec \in Nat \ {0} /\ MAX_ETIME \in Nat
      /\ package \in {"fcyc", "itimer", "gettod"}
  BY TimingAssumption
<1>1. \A x \in Int : /\ Hi(Word, x) \in Int /\ Lo(Word, x) \in Int
                     /\ Hi(Usec, x) \in Int /\ Lo(Usec, x) \in Int
  BY <1>0, HiLo
<1>3. \A x \in Int : x % Word \in Int
  BY <1>0
<1>4. ASSUME NEW s \in Int, NEW t \in Int PROVE get_counter(s, t) \in Int
  <2> DEFINE lo == (Lo(Word, t) - Lo(Word, s)) % Word
             hi == (Hi(Word, t) - Hi(Word, s) - Bit(lo > Lo(Word, t))) % Word
  <2>1. lo \in Int
    BY <1>1, <1>3
  <2>2. hi \in Int
    <3> HIDE DEF lo
    <3>1. Bit(lo > Lo(Word, t)) \in Int
      BY DEF Bit
    <3> QED BY <1>1, <1>3, <3>1
  <2>3. get_counter(s, t) = hi * Word + lo
    BY DEF get_counter
  <2> HIDE DEF lo, hi
  <2> QED BY <1>0, <2>1, <2>2, <2>3
<1>5. ASSUME NEW s \in Int, NEW t \in Int PROVE gettimeofday(s, t) \in Int
  BY <1>0, <1>1 DEF gettimeofday
<1>6. ASSUME NEW t \in Int PROVE get_etime(t) \in Int
  <2>1. MAX_ETIME * Usec - t \in Int
    BY <1>0
  <2> QED BY <1>0, <1>1, <2>1 DEF get_etime
<1> QED BY <1>0, <1>4, <1>5, <1>6 DEF Measured

\* A set of natural numbers has a least one.
LEMMA Least == ASSUME NEW S, S \subseteq Nat, S # {}
               PROVE  \E i \in S : \A j \in S : i =< j
<1>1. PICK i \in S : \A j \in S : ~ (<<j, i>> \in OpToRel(<, Nat))
  BY NatLessThanWellFounded, WFMin, Zenon
<1>2. \A j \in S : <<j, i>> \in OpToRel(<, Nat) <=> j < i
  BY DEF OpToRel
<1>3. \A j \in S : ~ (j < i)
  BY <1>1, <1>2, Zenon
<1>4. \A j \in S : i =< j
  BY <1>3
<1> QED BY <1>4

\* The insertion sort finds a place.
LEMMA PlaceFound ==
  ASSUME NEW pos \in 0 .. kbest - 1, NEW val \in Int, values \in [0 .. kbest - 1 -> Int]
  PROVE  /\ Place(pos, val) \in 0 .. pos
         /\ Place(pos, val) = 0 \/ values[Place(pos, val) - 1] =< val
         /\ \A q \in Place(pos, val) + 1 .. pos : values[q - 1] > val
<1>0. kbest \in Nat /\ pos \in Nat
  BY KbestPositive
<1> DEFINE S == {p \in 0 .. pos : \A q \in p + 1 .. pos : values[q - 1] > val}
           Right(p) == /\ p = 0 \/ values[p - 1] =< val
                       /\ \A q \in p + 1 .. pos : values[q - 1] > val
<1>1. S \subseteq Nat /\ pos \in S
  BY <1>0
<1>2. PICK p \in S : \A r \in S : p =< r
  BY <1>1, Least
<1>3. ASSUME p # 0 PROVE values[p - 1] =< val
  <2>1. p \in 1 .. pos /\ p - 1 \in 0 .. pos /\ p - 1 \in 0 .. kbest - 1
    BY <1>0, <1>2, <1>3
  <2>5. p - 1 \notin S
    <3> HIDE DEF S
    <3>1. ASSUME p - 1 \in S PROVE p =< p - 1
      BY <1>2, <3>1
    <3> QED BY <1>0, <2>1, <3>1
  <2>2. PICK q \in p - 1 + 1 .. pos : ~ values[q - 1] > val
    BY <2>1, <2>5
  <2>3. q \notin p + 1 .. pos
    BY <1>2, <2>2
  <2>4. q = p
    BY <1>0, <2>1, <2>2, <2>3
  <2> QED BY <2>1, <2>2, <2>4
<1>4. p \in 0 .. pos /\ Right(p)
  BY <1>2, <1>3
<1>5. Place(pos, val) = CHOOSE q \in 0 .. pos : Right(q)
  BY DEF Place
<1> HIDE DEF Right
<1>6. Place(pos, val) \in 0 .. pos /\ Right(Place(pos, val))
  BY <1>4, <1>5, Zenon
<1> QED BY <1>6 DEF Right

\* The values below the place stay, and those from it to pos move up.
LEMMA Inserted ==
  ASSUME NEW pos \in 0 .. kbest - 1, NEW val \in Int, values \in [0 .. kbest - 1 -> Int]
  PROVE  /\ Insert(val, pos) \in [0 .. kbest - 1 -> Int]
         /\ \A i \in 0 .. kbest - 1 :
              Insert(val, pos)[i] = IF i < Place(pos, val) \/ i > pos THEN values[i]
                                    ELSE IF i = Place(pos, val) THEN val ELSE values[i - 1]
<1> DEFINE p == Place(pos, val)
<1>p. p \in 0 .. pos
  BY PlaceFound
<1>0. kbest \in Nat /\ pos \in Nat /\ p \in 0 .. pos
  BY KbestPositive, <1>p
<1>1. Insert(val, pos) = [i \in 0 .. kbest - 1 |-> IF i < p \/ i > pos THEN values[i]
                                                   ELSE IF i = p THEN val ELSE values[i - 1]]
  BY DEF Insert
<1> HIDE DEF p
<1>2. ASSUME NEW i \in 0 .. kbest - 1, ~ (i < p \/ i > pos), i # p
      PROVE  values[i - 1] \in Int
  <2>1. i - 1 \in 0 .. kbest - 1
    BY <1>0, <1>2
  <2> QED BY <2>1
<1>3. \A i \in 0 .. kbest - 1 : (IF i < p \/ i > pos THEN values[i]
                                 ELSE IF i = p THEN val ELSE values[i - 1]) \in Int
  BY <1>2
<1> QED BY <1>1, <1>3 DEF p

\* add_sample keeps the types.
LEMMA SampleTypes ==
  ASSUME values \in [0 .. kbest - 1 -> Int], samplecount \in Nat, samples \in Seq(Int),
         NEW val \in Int, add_sample(val)
  PROVE  /\ values' \in [0 .. kbest - 1 -> Int] /\ samplecount' \in Nat
         /\ samples' \in Seq(Int)
<1>0. kbest \in Nat \ {0}
  BY KbestPositive
<1>1. samplecount < kbest => samplecount \in 0 .. kbest - 1
  BY <1>0
<1>2. kbest - 1 \in 0 .. kbest - 1
  BY <1>0
<1>3. \A pos \in 0 .. kbest - 1 : Insert(val, pos) \in [0 .. kbest - 1 -> Int]
  BY Inserted
<1>4. values' \in [0 .. kbest - 1 -> Int]
  BY <1>1, <1>2, <1>3 DEF add_sample
<1>5. samplecount' = samplecount + 1 /\ samples' = Append(samples, val)
  BY DEF add_sample
<1> QED BY <1>4, <1>5

\* The timer's types are inductive.
LEMMA TimingTypes == TimingTypeOK /\ [Next]_vars => TimingTypeOK'
<1>h. SUFFICES ASSUME TimingTypeOK, TimingMoves \/ UNCHANGED timingVars PROVE TimingTypeOK'
  BY TimingNext
<1>0. /\ Durations \subseteq Nat /\ Marks \subseteq Nat /\ THRESHOLD \in Nat
      /\ kbest \in Nat \ {0}
  BY TimingAssumption, KbestPositive
<1>n. /\ mark \in Nat /\ elapsed \in Nat /\ dt \in Nat /\ cyc_per_tick \in Nat /\ e \in Nat
      /\ newt \in Nat /\ newc \in Nat /\ samplecount \in Nat /\ runs \in Nat
      /\ package \in Packages /\ cache_buf \in BOOLEAN
      /\ step \in {"idle", "clear", "start", "callibrate", "f", "stop", "exit"}
      /\ values \in [0 .. kbest - 1 -> Int] /\ samples \in Seq(Int) /\ time \in Int /\ result \in Int
  BY <1>h DEF TimingTypeOK
<1>m. Measured \in Int
  BY <1>n, MeasuredIsInt
<1>1. CASE UNCHANGED timingVars
  BY <1>h, <1>1 DEF timingVars, TimingTypeOK
<1>2. CASE FReturns
  <2>1. PICK d \in Durations : elapsed' = elapsed + d
    BY <1>2 DEF FReturns
  <2>2. /\ dt' = dt \/ dt' = dt + 1 \/ dt' = dt + 0
        /\ runs' = runs \/ runs' = runs + 1
        /\ step' \in {"f", "stop"}
    BY <1>2 DEF FReturns
  <2> QED BY <1>0, <1>n, <2>1, <2>2, <1>2 DEF FReturns, TimingTypeOK, calibrateVars, sampleVars
<1>3. CASE ftimer_stop
  BY <1>m, <1>n, <1>3 DEF ftimer_stop, TimingTypeOK, calibrateVars, sampleVars
<1>4. CASE clear
  BY <1>n, <1>4 DEF clear, TimingTypeOK, calibrateVars, sampleVars
<1>5. CASE start_comp_counter
  <2>1. \/ StartClock /\ dt' \in {0, 1}
        \/ step' = "callibrate" /\ UNCHANGED <<mark, elapsed, dt>>
    BY <1>5 DEF start_comp_counter
  <2>3. ASSUME StartClock, dt' \in {0, 1}
        PROVE  mark' \in Nat /\ elapsed' \in Nat /\ dt' \in Nat /\ step' = "f"
    BY <1>0, <2>3 DEF StartClock
  <2>2. mark' \in Nat /\ elapsed' \in Nat /\ dt' \in Nat /\ step' \in {"callibrate", "f"}
    BY <1>n, <2>1, <2>3
  <2> QED BY <1>n, <1>5, <2>2 DEF start_comp_counter, TimingTypeOK, calibrateVars, sampleVars
<1>6. ASSUME NEW d \in Durations, NEW tick \in {0, 1}, callibrate(d, tick) PROVE TimingTypeOK'
  <2> DEFINE t == newt + d
             c == newc + tick
             event  == t >= THRESHOLD /\ c > 0
             cpt    == t \div c
             record == event /\ (cyc_per_tick = 0 \/ cyc_per_tick > cpt) /\ cpt > RECORDTHRESH
             count  == e + Events(event, record)
  <2>1. t \in Nat /\ c \in Nat /\ (c > 0 => cpt \in Nat) /\ count \in Nat
    BY <1>0, <1>n DEF Events, Bit
  <2>2. /\ newt' = IF t >= THRESHOLD THEN 0 ELSE t
        /\ newc' = IF event THEN 0 ELSE c
        /\ cyc_per_tick' = IF record THEN cpt ELSE cyc_per_tick
        /\ IF count < NEVENT THEN e' = count /\ UNCHANGED <<step, mark, elapsed, dt>>
                             ELSE e' = 0 /\ StartClock /\ dt' \in {0, 1}
        /\ UNCHANGED <<package, time, cache_buf, sampleVars, runs, result>>
    BY <1>6 DEF callibrate
  <2>3. record => c > 0
    OBVIOUS
  <2> HIDE DEF t, c, cpt, record, count, event
  <2>4. newt' \in Nat /\ newc' \in Nat /\ cyc_per_tick' \in Nat /\ e' \in Nat
    BY <1>n, <2>1, <2>2, <2>3
  <2>6. \/ StartClock /\ dt' \in {0, 1}
        \/ UNCHANGED <<step, mark, elapsed, dt>>
    BY <2>2
  <2>5. /\ mark' \in Nat /\ elapsed' \in Nat /\ dt' \in Nat
        /\ step' \in {"f", step}
    BY <1>0, <1>n, <2>6 DEF StartClock
  <2> QED BY <1>n, <2>2, <2>4, <2>5 DEF sampleVars, TimingTypeOK
<1>7. CASE get_comp_counter
  <2>1. PICK tick \in {0, 1} : add_sample(Measured - (dt + tick) * cyc_per_tick)
    BY <1>7 DEF get_comp_counter
  <2>2. Measured - (dt + tick) * cyc_per_tick \in Int
    BY <1>0, <1>m, <1>n
  <2>3. values' \in [0 .. kbest - 1 -> Int] /\ samplecount' \in Nat /\ samples' \in Seq(Int)
    BY <1>n, <2>1, <2>2, SampleTypes
  <2>4. values'[0] \in Int
    BY <1>0, <2>3
  <2>6. \/ step' = "idle" /\ result' = values'[0]
        \/ step' = "clear" /\ result' = result
    BY <1>7 DEF get_comp_counter
  <2>5. /\ time' = Measured /\ step' \in {"idle", "clear"} /\ result' \in Int
        /\ UNCHANGED <<package, mark, elapsed, dt, cache_buf, cyc_per_tick, calibrateVars, runs>>
    BY <1>7, <1>n, <2>4, <2>6 DEF get_comp_counter
  <2> QED BY <1>m, <1>n, <2>3, <2>5 DEF calibrateVars, TimingTypeOK
<1>8. CASE fsecs
  <2>1. [i \in 0 .. kbest - 1 |-> 0] \in [0 .. kbest - 1 -> Int] /\ <<>> \in Seq(Int)
    OBVIOUS
  <2>2. CASE package = "fcyc"
    <3>1. /\ step' = "clear" /\ values' = [i \in 0 .. kbest - 1 |-> 0]
          /\ samplecount' = 0 /\ samples' = <<>> /\ UNCHANGED <<mark, elapsed, runs>>
          /\ UNCHANGED <<package, dt, time, cache_buf, cyc_per_tick, calibrateVars, result>>
      BY <1>8, <2>2 DEF fsecs
    <3>2. values' \in [0 .. kbest - 1 -> Int] /\ samples' \in Seq(Int)
      BY <2>1, <3>1
    <3> QED BY <1>n, <3>1, <3>2 DEF calibrateVars, TimingTypeOK
  <2>3. CASE package # "fcyc"
    <3>1. /\ mark' \in Marks /\ elapsed' = 0 /\ step' = "f" /\ runs' = 0 /\ UNCHANGED sampleVars
          /\ UNCHANGED <<package, dt, time, cache_buf, cyc_per_tick, calibrateVars, result>>
      BY <1>8, <2>3 DEF fsecs, StartClock
    <3>2. /\ mark' \in Nat /\ elapsed' \in Nat /\ runs' \in Nat
          /\ step' \in {"idle", "clear", "start", "callibrate", "f", "stop", "exit"}
      BY <1>0, <3>1
    <3>3. /\ package' \in Packages /\ cache_buf' \in BOOLEAN /\ time' \in Int /\ result' \in Int
          /\ dt' \in Nat /\ cyc_per_tick' \in Nat /\ e' \in Nat /\ newt' \in Nat /\ newc' \in Nat
      BY <1>n, <3>1 DEF calibrateVars
    <3>4. /\ values' \in [0 .. kbest - 1 -> Int] /\ samples' \in Seq(Int) /\ samplecount' \in Nat
      BY <1>n, <3>1 DEF sampleVars
    <3> QED BY <3>2, <3>3, <3>4 DEF TimingTypeOK
  <2> QED BY <2>2, <2>3
<1> QED BY <1>h, <1>1, <1>2, <1>3, <1>4, <1>5, <1>6, <1>7, <1>8 DEF TimingMoves, Measure, fcyc

-----------------------------------------------------------------------------
(* Ranks among the samples *)

AtMost(s, v) == Cardinality({i \in 1 .. Len(s) : s[i] =< v})
Below(s, v)  == Cardinality({i \in 1 .. Len(s) : s[i] < v})

\* The counts of samples below a value are numbers.
LEMMA CountsAreNat ==
  ASSUME NEW s \in Seq(Int), NEW v \in Int
  PROVE  AtMost(s, v) \in Nat /\ Below(s, v) \in Nat /\ Below(s, v) =< Len(s)
<1>0. Len(s) \in Nat /\ Len(s) \in Int
  OBVIOUS
<1>1. IsFiniteSet(1 .. Len(s)) /\ Cardinality(1 .. Len(s)) = Len(s)
  <2>1. /\ IsFiniteSet(1 .. Len(s))
        /\ Cardinality(1 .. Len(s)) = IF 1 > Len(s) THEN 0 ELSE Len(s) - 1 + 1
    BY <1>0, FS_Interval
  <2> QED BY <1>0, <2>1
<1>2. /\ {i \in 1 .. Len(s) : s[i] =< v} \in SUBSET (1 .. Len(s))
      /\ {i \in 1 .. Len(s) : s[i] < v} \in SUBSET (1 .. Len(s))
  OBVIOUS
<1>3. AtMost(s, v) \in Nat
  BY <1>1, <1>2, FS_Subset, FS_CardinalityType DEF AtMost
<1>4. Below(s, v) \in Nat /\ Below(s, v) =< Len(s)
  <2> DEFINE T == {i \in 1 .. Len(s) : s[i] < v}
  <2>1. IsFiniteSet(T) /\ Cardinality(T) =< Cardinality(1 .. Len(s))
    BY <1>1, <1>2, FS_Subset
  <2>2. Cardinality(T) \in Nat
    BY <2>1, FS_CardinalityType
  <2> QED BY <1>1, <2>1, <2>2 DEF Below
<1> QED BY <1>3, <1>4

\* A greater value has more samples below it.
LEMMA CountsGrow ==
  ASSUME NEW s \in Seq(Int), NEW v \in Int, NEW w \in Int, v =< w
  PROVE  AtMost(s, v) =< AtMost(s, w) /\ Below(s, v) =< Below(s, w)
<1>1. IsFiniteSet(1 .. Len(s))
  BY FS_Interval
<1> DEFINE A(x) == {i \in 1 .. Len(s) : s[i] =< x}
           B(x) == {i \in 1 .. Len(s) : s[i] < x}
<1>2. IsFiniteSet(A(w)) /\ IsFiniteSet(B(w))
  BY <1>1, FS_Subset
<1>3. \A i \in 1 .. Len(s) : s[i] \in Int
  OBVIOUS
<1>4. A(v) \in SUBSET A(w) /\ B(v) \in SUBSET B(w)
  BY <1>3
<1> HIDE DEF A, B
<1>5. Cardinality(A(v)) =< Cardinality(A(w)) /\ Cardinality(B(v)) =< Cardinality(B(w))
  BY <1>2, <1>4, FS_Subset
<1> QED BY <1>5 DEF AtMost, Below, A, B

\* A new sample counts for the values that are not below it.
LEMMA CountsAppend ==
  ASSUME NEW s \in Seq(Int), NEW x \in Int, NEW v \in Int
  PROVE  /\ AtMost(Append(s, x), v) = AtMost(s, v) + (IF x =< v THEN 1 ELSE 0)
         /\ Below(Append(s, x), v) = Below(s, v) + (IF x < v THEN 1 ELSE 0)
<1> DEFINE n == Len(s)
           t == Append(s, x)
           A == {i \in 1 .. n : s[i] =< v}
           B == {i \in 1 .. n : s[i] < v}
<1>0. /\ n \in Nat /\ Len(t) = n + 1 /\ t[n + 1] = x
      /\ \A i \in 1 .. n : t[i] = s[i]
  OBVIOUS
<1>1. IsFiniteSet(1 .. n)
  BY <1>0, FS_Interval
<1>2. IsFiniteSet(A) /\ IsFiniteSet(B)
  BY <1>1, FS_Subset
<1>3. n + 1 \notin A /\ n + 1 \notin B
  BY <1>0
<1>4. {i \in 1 .. Len(t) : t[i] =< v} = IF x =< v THEN A \cup {n + 1} ELSE A
  <2> HIDE DEF t, n
  <2>1. 1 .. Len(t) = (1 .. n) \cup {n + 1}
    BY <1>0
  <2> QED BY <1>0, <2>1
<1>5. {i \in 1 .. Len(t) : t[i] < v} = IF x < v THEN B \cup {n + 1} ELSE B
  <2> HIDE DEF t, n
  <2>1. 1 .. Len(t) = (1 .. n) \cup {n + 1}
    BY <1>0
  <2> QED BY <1>0, <2>1
<1> HIDE DEF A, B
<1>6. /\ Cardinality(A \cup {n + 1}) = Cardinality(A) + 1 /\ Cardinality(A) \in Nat
      /\ Cardinality(B \cup {n + 1}) = Cardinality(B) + 1 /\ Cardinality(B) \in Nat
  BY <1>2, <1>3, FS_AddElement, FS_CardinalityType
<1>7. AtMost(t, v) = Cardinality(A) + (IF x =< v THEN 1 ELSE 0)
  <2>1. AtMost(t, v) = Cardinality(IF x =< v THEN A \cup {n + 1} ELSE A)
    BY <1>4 DEF AtMost
  <2> HIDE DEF t, n
  <2> QED BY <1>6, <2>1
<1>8. Below(t, v) = Cardinality(B) + (IF x < v THEN 1 ELSE 0)
  <2>1. Below(t, v) = Cardinality(IF x < v THEN B \cup {n + 1} ELSE B)
    BY <1>5 DEF Below
  <2> HIDE DEF t, n
  <2> QED BY <1>6, <2>1
<1>9. AtMost(s, v) = Cardinality(A) /\ Below(s, v) = Cardinality(B)
  BY DEF AtMost, Below, A, B
<1> QED BY <1>7, <1>8, <1>9

-----------------------------------------------------------------------------
(* The k best samples *)

\* The array is sorted, and each value has its rank.
Ranked == /\ samplecount = Len(samples)
          /\ \A i, j \in 0 .. Filled - 1 : i =< j => values[i] =< values[j]
          /\ \A j \in 0 .. Filled - 1 : /\ AtMost(samples, values[j]) > j
                                        /\ Below(samples, values[j]) =< j
Returned == /\ package # "fcyc" => samplecount = 0
            /\ step = "idle" /\ samplecount > 0 =>
                  result = values[0] /\ Enough(values, samplecount)
KBestInv == TimingTypeOK /\ Ranked /\ Returned

\* A sample that is inserted at its place pushes the greater ones up by a rank.
LEMMA InsertRanked ==
  ASSUME TimingTypeOK, Ranked, NEW val \in Int, NEW pos \in 0 .. kbest - 1,
         \/ samplecount < kbest /\ pos = samplecount
         \/ samplecount >= kbest /\ pos = kbest - 1 /\ val < values[kbest - 1],
         values' = Insert(val, pos), samplecount' = samplecount + 1, samples' = Append(samples, val)
  PROVE  Ranked'
<1> DEFINE p == Place(pos, val)
<1>0. /\ kbest \in Nat \ {0} /\ pos \in Nat /\ samplecount \in Nat
      /\ values \in [0 .. kbest - 1 -> Int] /\ samples \in Seq(Int)
  BY KbestPositive DEF TimingTypeOK
<1>1. /\ p \in 0 .. pos /\ p \in Nat
      /\ p = 0 \/ values[p - 1] =< val
      /\ \A q \in p + 1 .. pos : values[q - 1] > val
  BY <1>0, PlaceFound
<1>2. /\ values' \in [0 .. kbest - 1 -> Int]
      /\ \A i \in 0 .. kbest - 1 : values'[i] = IF i < p \/ i > pos THEN values[i]
                                               ELSE IF i = p THEN val ELSE values[i - 1]
  <2>1. /\ Insert(val, pos) \in [0 .. kbest - 1 -> Int]
        /\ \A i \in 0 .. kbest - 1 :
             Insert(val, pos)[i] = IF i < p \/ i > pos THEN values[i]
                                   ELSE IF i = p THEN val ELSE values[i - 1]
    BY <1>0, Inserted
  <2> HIDE DEF p
  <2>2. values' = Insert(val, pos)
    OBVIOUS
  <2> QED BY <2>1, <2>2, Zenon
<1> HIDE DEF p
<1>3. /\ Filled' - 1 = pos
      /\ Filled \in Nat /\ pos =< Filled /\ (Filled = pos \/ Filled = pos + 1)
  BY <1>0 DEF Filled
<1>4. \A j \in 0 .. pos : j \in 0 .. kbest - 1 /\ j \in Nat
  BY <1>0
<1>5. \A j \in 0 .. pos - 1 : j \in 0 .. Filled - 1 /\ values[j] \in Int
  BY <1>0, <1>3
<1>6. /\ \A i, j \in 0 .. Filled - 1 : i =< j => values[i] =< values[j]
      /\ \A j \in 0 .. Filled - 1 : AtMost(samples, values[j]) > j /\ Below(samples, values[j]) =< j
      /\ samplecount = Len(samples)
  BY DEF Ranked
<1>7. \A i \in 0 .. p - 1 : values[i] =< val
  <2> SUFFICES ASSUME NEW i \in 0 .. p - 1 PROVE values[i] =< val
    OBVIOUS
  <2>1. p - 1 \in 0 .. pos - 1 /\ i \in 0 .. pos - 1 /\ i =< p - 1 /\ p # 0
    BY <1>0, <1>1
  <2>2. values[i] =< values[p - 1]
    BY <1>5, <1>6, <2>1
  <2> QED BY <1>1, <1>5, <2>1, <2>2
<1>8. \A i \in p .. pos - 1 : values[i] > val
  <2> SUFFICES ASSUME NEW i \in p .. pos - 1 PROVE values[i] > val
    OBVIOUS
  <2>1. i + 1 \in p + 1 .. pos /\ i + 1 - 1 = i
    BY <1>0, <1>1
  <2> QED BY <1>1, <2>1
<1>9. \A i, j \in 0 .. pos : i =< j => values'[i] =< values'[j]
  <2> SUFFICES ASSUME NEW i \in 0 .. pos, NEW j \in 0 .. pos, i < j PROVE values'[i] =< values'[j]
    BY <1>2, <1>4
  <2>1. CASE j < p
    BY <1>0, <1>1, <1>2, <1>4, <1>5, <1>6, <2>1
  <2>2. CASE j = p
    BY <1>0, <1>1, <1>2, <1>4, <1>7, <2>2
  <2>3. CASE j > p /\ i < p
    <3>1. j - 1 \in p .. pos - 1 /\ i \in 0 .. p - 1
      BY <1>0, <1>1, <2>3
    <3>2. values[i] =< val /\ values[j - 1] > val
      BY <1>7, <1>8, <3>1
    <3>3. values'[i] = values[i] /\ values'[j] = values[j - 1]
      BY <1>1, <1>2, <1>4, <2>3
    <3>4. values[i] \in Int /\ values[j - 1] \in Int
      BY <1>0, <1>1, <1>5, <3>1
    <3> QED BY <3>2, <3>3, <3>4
  <2>4. CASE j > p /\ i = p
    <3>1. j - 1 \in p .. pos - 1 /\ j - 1 \in 0 .. pos - 1
      BY <1>0, <1>1, <2>4
    <3>2. values[j - 1] > val
      BY <1>8, <3>1
    <3>3. values'[i] = val /\ values'[j] = values[j - 1]
      BY <1>1, <1>2, <1>4, <2>4
    <3> QED BY <1>5, <3>1, <3>2, <3>3
  <2>5. CASE j > p /\ i > p
    <3>1. i - 1 \in 0 .. pos - 1 /\ j - 1 \in 0 .. pos - 1 /\ i - 1 =< j - 1
      BY <1>0, <1>1, <2>5
    <3>2. values'[i] = values[i - 1] /\ values'[j] = values[j - 1]
      BY <1>1, <1>2, <1>4, <2>5
    <3> QED BY <1>5, <1>6, <3>1, <3>2
  <2> QED BY <1>0, <1>1, <2>1, <2>2, <2>3, <2>4, <2>5
<1>10. \A v \in Int : /\ AtMost(samples', v) = AtMost(samples, v) + (IF val =< v THEN 1 ELSE 0)
                      /\ Below(samples', v) = Below(samples, v) + (IF val < v THEN 1 ELSE 0)
                      /\ AtMost(samples, v) \in Nat /\ Below(samples, v) \in Nat /\ Below(samples, v) =< Len(samples)
  BY <1>0, CountsAppend, CountsAreNat
<1>11. \A j \in 0 .. pos : AtMost(samples', values'[j]) > j /\ Below(samples', values'[j]) =< j
  <2> SUFFICES ASSUME NEW j \in 0 .. pos
               PROVE  AtMost(samples', values'[j]) > j /\ Below(samples', values'[j]) =< j
    OBVIOUS
  <2>1. CASE j < p
    <3>1. j \in 0 .. p - 1 /\ j \in 0 .. pos - 1 /\ values'[j] = values[j]
      BY <1>0, <1>1, <1>2, <1>4, <2>1
    <3>2. values[j] =< val /\ values[j] \in Int
      BY <1>5, <1>7, <3>1
    <3>3. AtMost(samples, values[j]) > j /\ Below(samples, values[j]) =< j
      BY <1>5, <1>6, <3>1
    <3>4. /\ AtMost(samples', values[j]) = AtMost(samples, values[j]) + (IF val =< values[j] THEN 1 ELSE 0)
          /\ Below(samples', values[j]) = Below(samples, values[j]) + (IF val < values[j] THEN 1 ELSE 0)
          /\ AtMost(samples, values[j]) \in Nat /\ Below(samples, values[j]) \in Nat
      BY <1>0, <1>10, <3>2
    <3> HIDE DEF AtMost, Below
    <3>5. AtMost(samples', values[j]) > j /\ Below(samples', values[j]) =< j
      BY <1>0, <3>2, <3>3, <3>4
    <3> QED BY <3>1, <3>5
  <2>2. CASE j > p
    <3>1. j - 1 \in p .. pos - 1 /\ j - 1 \in 0 .. pos - 1 /\ values'[j] = values[j - 1]
      BY <1>0, <1>1, <1>2, <1>4, <2>2
    <3>2. values[j - 1] > val /\ values[j - 1] \in Int
      BY <1>5, <1>8, <3>1
    <3>3. AtMost(samples, values[j - 1]) > j - 1 /\ Below(samples, values[j - 1]) =< j - 1
      BY <1>5, <1>6, <3>1
    <3> DEFINE v == values[j - 1]
    <3>4. /\ AtMost(samples', v) = AtMost(samples, v) + (IF val =< v THEN 1 ELSE 0)
          /\ Below(samples', v) = Below(samples, v) + (IF val < v THEN 1 ELSE 0)
          /\ AtMost(samples, v) \in Nat /\ Below(samples, v) \in Nat
      BY <1>0, <1>10, <3>2
    <3>5. AtMost(samples', v) > j /\ Below(samples', v) =< j
      BY <1>0, <3>2, <3>3, <3>4
    <3> QED BY <3>1, <3>5
  <2>3. CASE j = p
    <3>1. values'[j] = val
      BY <1>1, <1>2, <1>4, <2>3
    <3>2. AtMost(samples, val) >= p
      <4>1. CASE p = 0
        BY <1>10, <4>1
      <4>2. CASE p # 0
        <5> AtMost(samples, val) \in Nat
          BY <1>10
        <5>1. p - 1 \in 0 .. p - 1 /\ p - 1 \in 0 .. pos - 1
          BY <1>0, <1>1, <4>2
        <5>2. values[p - 1] =< val /\ values[p - 1] \in Int /\ AtMost(samples, values[p - 1]) > p - 1
          BY <1>5, <1>6, <1>7, <5>1
        <5>3. AtMost(samples, values[p - 1]) =< AtMost(samples, val)
          BY <1>0, <5>2, CountsGrow
        <5>4. AtMost(samples, values[p - 1]) \in Nat
          BY <1>10, <5>2
        <5> QED BY <1>1, <5>2, <5>3, <5>4
      <4> QED BY <4>1, <4>2
    <3>3. Below(samples, val) =< p
      <4>1. CASE p = pos /\ samplecount < kbest
        <5>1. pos = samplecount
          BY <1>0, <4>1
        <5>2. Below(samples, val) =< Len(samples)
          BY <1>10
        <5> QED BY <1>0, <1>6, <4>1, <5>1, <5>2
      <4>2. CASE ~ (p = pos /\ samplecount < kbest)
        <5>1. p \in 0 .. Filled - 1 /\ values[p] > val /\ p \in 0 .. kbest - 1
          <6>1. CASE p = pos
            <7>1. samplecount >= kbest /\ p = kbest - 1 /\ values[p] > val /\ Filled = kbest
              BY <1>0, <4>2, <6>1 DEF Filled
            <7> QED BY <1>0, <1>1, <7>1
          <6>2. CASE p # pos
            <7>1. p \in p .. pos - 1 /\ p \in 0 .. Filled - 1 /\ p \in 0 .. kbest - 1
              BY <1>0, <1>1, <1>3, <6>2
            <7> QED BY <1>8, <7>1
          <6> QED BY <6>1, <6>2
        <5>2. values[p] \in Int /\ val =< values[p]
          BY <1>0, <5>1
        <5>3. Below(samples, values[p]) =< p /\ Below(samples, val) =< Below(samples, values[p])
          BY <1>0, <1>6, <5>1, <5>2, CountsGrow
        <5>6. Below(samples, values[p]) \in Nat /\ Below(samples, val) \in Nat
          BY <1>0, <1>10, <5>2
        <5> QED BY <1>1, <5>2, <5>3, <5>6
      <4> QED BY <4>1, <4>2
    <3>4. /\ AtMost(samples', val) = AtMost(samples, val) + 1
          /\ Below(samples', val) = Below(samples, val)
          /\ AtMost(samples, val) \in Nat /\ Below(samples, val) \in Nat
      BY <1>0, <1>10
    <3>5. AtMost(samples', val) > p /\ Below(samples', val) =< p
      BY <1>1, <3>2, <3>3, <3>4
    <3> QED BY <2>3, <3>1, <3>5
  <2> QED BY <1>0, <1>1, <2>1, <2>2, <2>3
<1>12. samplecount' = Len(samples')
  BY <1>0, <1>6
<1> QED BY <1>3, <1>9, <1>11, <1>12 DEF Ranked

\* A sample that is not among the k best does not change a rank.
LEMMA LeftOutRanked ==
  ASSUME TimingTypeOK, Ranked, NEW val \in Int, samplecount >= kbest, val >= values[kbest - 1],
         values' = values, samplecount' = samplecount + 1, samples' = Append(samples, val)
  PROVE  Ranked'
<1>0. /\ kbest \in Nat \ {0} /\ samplecount \in Nat
      /\ values \in [0 .. kbest - 1 -> Int] /\ samples \in Seq(Int)
  BY KbestPositive DEF TimingTypeOK
<1>1. Filled = kbest /\ Filled' = kbest
  BY <1>0 DEF Filled
<1>2. /\ \A i, j \in 0 .. kbest - 1 : i =< j => values[i] =< values[j]
      /\ \A j \in 0 .. kbest - 1 : AtMost(samples, values[j]) > j /\ Below(samples, values[j]) =< j
      /\ samplecount = Len(samples)
  BY <1>1 DEF Ranked
<1>3. \A v \in Int : /\ AtMost(samples', v) = AtMost(samples, v) + (IF val =< v THEN 1 ELSE 0)
                     /\ Below(samples', v) = Below(samples, v) + (IF val < v THEN 1 ELSE 0)
                     /\ AtMost(samples, v) \in Nat /\ Below(samples, v) \in Nat /\ Below(samples, v) =< Len(samples)
  BY <1>0, CountsAppend, CountsAreNat
<1>4. \A j \in 0 .. kbest - 1 : AtMost(samples', values[j]) > j /\ Below(samples', values[j]) =< j
  <2> SUFFICES ASSUME NEW j \in 0 .. kbest - 1
               PROVE  AtMost(samples', values[j]) > j /\ Below(samples', values[j]) =< j
    OBVIOUS
  <2>1. kbest - 1 \in 0 .. kbest - 1 /\ j =< kbest - 1
    BY <1>0
  <2>2. values[j] \in Int /\ values[kbest - 1] \in Int /\ values[j] =< values[kbest - 1]
    BY <1>0, <1>2, <2>1
  <2>3. AtMost(samples, values[j]) > j /\ Below(samples, values[j]) =< j
    BY <1>2
  <2>4. ~ val < values[j]
    BY <2>2
  <2>5. /\ AtMost(samples', values[j]) = AtMost(samples, values[j]) + (IF val =< values[j] THEN 1 ELSE 0)
        /\ Below(samples', values[j]) = Below(samples, values[j]) + (IF val < values[j] THEN 1 ELSE 0)
        /\ AtMost(samples, values[j]) \in Nat /\ Below(samples, values[j]) \in Nat
    BY <1>0, <1>3, <2>2
  <2> QED BY <1>0, <2>2, <2>3, <2>4, <2>5
<1>5. samplecount' = Len(samples')
  BY <1>0, <1>2
<1> QED BY <1>1, <1>2, <1>4, <1>5 DEF Ranked

\* add_sample inserts where the order wants it.
LEMMA RanksKept ==
  ASSUME TimingTypeOK, Ranked, NEW val \in Int, add_sample(val)
  PROVE  Ranked'
<1>0. kbest \in Nat \ {0} /\ samplecount \in Nat /\ values \in [0 .. kbest - 1 -> Int]
  BY KbestPositive DEF TimingTypeOK
<1>1. samplecount' = samplecount + 1 /\ samples' = Append(samples, val)
  BY DEF add_sample
<1>2. CASE samplecount < kbest
  <2>1. values' = Insert(val, samplecount) /\ samplecount \in 0 .. kbest - 1
    BY <1>0, <1>2 DEF add_sample
  <2> QED BY <1>1, <1>2, <2>1, InsertRanked
<1>3. CASE samplecount >= kbest /\ val < values[kbest - 1]
  <2>1. values' = Insert(val, kbest - 1) /\ kbest - 1 \in 0 .. kbest - 1
    BY <1>0, <1>3 DEF add_sample
  <2> QED BY <1>1, <1>3, <2>1, InsertRanked
<1>4. CASE samplecount >= kbest /\ ~ val < values[kbest - 1]
  <2>1. values' = values /\ kbest - 1 \in 0 .. kbest - 1
    BY <1>0, <1>4 DEF add_sample
  <2>2. val >= values[kbest - 1]
    BY <1>0, <1>4, <2>1
  <2> QED BY <1>1, <1>4, <2>1, <2>2, LeftOutRanked
<1> QED BY <1>0, <1>2, <1>3, <1>4

\* The order of the samples, when none is added.
LEMMA RankedSame == Ranked /\ UNCHANGED <<values, samplecount, samples>> => Ranked'
BY DEF Ranked, Filled

\* What was returned, when nothing is.
LEMMA ReturnedSame ==
  Returned /\ UNCHANGED <<package, values, samplecount, result>> /\ (step' = "idle" => step = "idle")
    => Returned'
BY DEF Returned, Enough, Converged

\* The invariant of KBest is inductive.
LEMMA KBestKept == KBestInv /\ [Next]_vars => KBestInv'
<1>h. SUFFICES ASSUME KBestInv, TimingMoves \/ UNCHANGED timingVars, TimingTypeOK'
               PROVE  Ranked' /\ Returned'
  BY TimingNext, TimingTypes DEF KBestInv
<1> DEFINE Goal == Ranked' /\ Returned'
<1>n. TimingTypeOK /\ Ranked /\ Returned
  BY <1>h DEF KBestInv
<1>0. ASSUME UNCHANGED <<package, values, samplecount, samples, result>>, step' = "idle" => step = "idle"
      PROVE  Goal
  BY <1>0, <1>n, RankedSame, ReturnedSame
<1>1. CASE UNCHANGED timingVars
  BY <1>0, <1>1 DEF timingVars
<1>2. CASE FReturns
  <2>1. UNCHANGED <<package, values, samplecount, samples, result>> /\ step' # "idle"
    BY <1>2 DEF FReturns, sampleVars
  <2> QED BY <1>0, <2>1
<1>3. CASE ftimer_stop
  <2>1. package # "fcyc" /\ UNCHANGED <<package, values, samplecount, samples>>
    BY <1>3 DEF ftimer_stop, sampleVars
  <2>2. Ranked'
    BY <1>n, <2>1, RankedSame
  <2>3. samplecount = 0
    BY <1>n, <2>1 DEF Returned
  <2> QED BY <2>1, <2>2, <2>3 DEF Returned
<1>4. CASE clear
  <2>1. UNCHANGED <<package, values, samplecount, samples, result>> /\ step' # "idle"
    BY <1>4 DEF clear, sampleVars
  <2> QED BY <1>0, <2>1
<1>5. CASE start_comp_counter
  <2>1. UNCHANGED <<package, values, samplecount, samples, result>> /\ step' # "idle"
    BY <1>5 DEF start_comp_counter, StartClock, sampleVars
  <2> QED BY <1>0, <2>1
<1>6. ASSUME NEW d \in Durations, NEW tick \in {0, 1}, callibrate(d, tick) PROVE Goal
  <2>1. UNCHANGED <<package, values, samplecount, samples, result>>
    BY <1>6 DEF callibrate, sampleVars
  <2>2. step' = step \/ step' = "f"
    BY <1>6 DEF callibrate, StartClock
  <2> QED BY <1>0, <2>1, <2>2
<1>7. CASE get_comp_counter
  <2>1. PICK tick \in {0, 1} : add_sample(Measured - (dt + tick) * cyc_per_tick)
    BY <1>7 DEF get_comp_counter
  <2>2. Measured - (dt + tick) * cyc_per_tick \in Int
    <3>1. /\ Measured \in Int /\ dt \in Nat /\ cyc_per_tick \in Nat
      BY <1>n, MeasuredIsInt DEF TimingTypeOK
    <3> QED BY <3>1
  <2>3. Ranked'
    BY <1>n, <2>1, <2>2, RanksKept
  <2>4. package = "fcyc" /\ package' = package
    BY <1>7 DEF get_comp_counter
  <2>5. step' = "idle" => result' = values'[0] /\ Enough(values', samplecount')
    BY <1>7 DEF get_comp_counter
  <2> QED BY <2>3, <2>4, <2>5 DEF Returned
<1>8. CASE fsecs
  <2>1. CASE package = "fcyc"
    <3>1. package' = package /\ step' = "clear" /\ samplecount' = 0 /\ samples' = <<>>
      BY <1>8, <2>1 DEF fsecs
    <3>2. Filled' = 0
      BY <3>1, KbestPositive DEF Filled
    <3> QED BY <2>1, <3>1, <3>2 DEF Ranked, Returned
  <2>2. CASE package # "fcyc"
    <3>1. UNCHANGED <<package, values, samplecount, samples, result>> /\ step' = "f"
      BY <1>8, <2>2 DEF fsecs, StartClock, sampleVars
    <3> QED BY <1>0, <3>1
  <2> QED BY <2>1, <2>2
<1> QED BY <1>h, <1>1, <1>2, <1>3, <1>4, <1>5, <1>6, <1>7, <1>8 DEF TimingMoves, Measure, fcyc

\* The timer's types in the beginning.
LEMMA TimingTypesInit == Init => TimingTypeOK
<1> SUFFICES ASSUME Init PROVE TimingTypeOK
  OBVIOUS
<1>1. /\ package \in Packages /\ step = "idle" /\ cache_buf = FALSE /\ time = 0 /\ result = 0
      /\ mark = 0 /\ elapsed = 0 /\ dt = 0 /\ cyc_per_tick = 0 /\ e = 0 /\ newt = 0 /\ newc = 0
      /\ samplecount = 0 /\ runs = 0 /\ samples = <<>>
      /\ values = [i \in 0 .. kbest - 1 |-> 0]
  BY DEF Init, TimingInit
<1>2. values \in [0 .. kbest - 1 -> Int] /\ samples \in Seq(Int)
  BY <1>1
<1>3. {mark, elapsed, dt, cyc_per_tick, e, newt, newc, samplecount, runs} \subseteq Nat
  BY <1>1
<1>5. cache_buf \in BOOLEAN
  <2>1. cache_buf = FALSE
    BY <1>1
  <2> QED BY <2>1, Zenon
<1>4. /\ package \in Packages /\ time \in Int /\ result \in Int
      /\ step \in {"idle", "clear", "start", "callibrate", "f", "stop", "exit"}
  BY <1>1
<1> QED BY <1>2, <1>3, <1>4, <1>5 DEF TimingTypeOK

\* However the samples come, the array of fcyc holds the k best of them, each
\* at its rank, and what fcyc has returned is the least of enough samples.
THEOREM SamplesRanked == Spec => []KBest
<1>1. Init => KBestInv
  <2>1. Init => samplecount = 0 /\ samples = <<>> /\ Len(<<>>) = 0 /\ Filled = 0
    BY KbestPositive DEF Init, TimingInit, Filled
  <2> QED BY <2>1, TimingTypesInit DEF KBestInv, Ranked, Returned
<1>2. KBestInv => KBest
  BY DEF KBestInv, KBest, Ranked, Returned, AtMost, Below
<1> QED BY <1>1, <1>2, KBestKept, PTL DEF Spec

-----------------------------------------------------------------------------
(* Where main is *)

libcPhases == {"libc_next", "libc_valid", "libc_speed", "libc_secs"}
mmPhases   == {"mm_init", "mm_valid", "util_init", "mm_util", "mm_speed", "mm_secs"}

\* While a trace is replayed, op requests of it are done.
ReplayInv ==
  /\ files \in Files /\ files \in Seq(Traces) /\ tracenum \in 0 .. Len(files) /\ op \in Nat
  /\ phase \in {"start", "mm_next", "exited"} \cup libcPhases \cup mmPhases
  /\ phase \in mmPhases => /\ tracenum # 0 /\ trace.num_ops = Len(trace.ops)
                           /\ op =< Len(trace.ops)
  /\ brk \in 0 .. MaxHeap /\ block_sizes \in [DOMAIN Low -> Nat]
  /\ total_size \in Int /\ max_total_size \in Int

\* The trace in hand is one of the files.
LEMMA TraceOK == ASSUME ReplayInv, tracenum # 0 PROVE trace \in Traces /\ trace.ops \in Seq(Requests)
<1>1. files \in Seq(Traces) /\ tracenum \in 1 .. Len(files)
  BY DEF ReplayInv
<1>2. trace \in Traces
  BY <1>1 DEF trace
<1> QED BY <1>2 DEF Traces

\* The request in hand is one of the trace's.
LEMMA RequestOK ==
  ASSUME ReplayInv, phase \in mmPhases, ~ Done
  PROVE  /\ op + 1 \in 1 .. Len(trace.ops) /\ request \in Requests
         /\ request.index \in DOMAIN Low /\ request.size \in Nat
         /\ request.type \in {"ALLOC", "REALLOC", "FREE"}
<1>1. /\ trace.ops \in Seq(Requests) /\ op \in Nat /\ op =< Len(trace.ops) /\ op # Len(trace.ops)
  BY TraceOK DEF ReplayInv, Done
<1>2. op + 1 \in 1 .. Len(trace.ops)
  <2> Len(trace.ops) \in Nat
    BY <1>1
  <2> HIDE DEF trace
  <2> QED BY <1>1
<1>3. request \in Requests
  BY <1>1, <1>2 DEF request
<1> QED BY <1>2, <1>3 DEF Requests

\* Every break is within the heap.
LEMMA BrksInHeap == Brks \subseteq 0 .. MaxHeap /\ 0 \in 0 .. MaxHeap /\ MaxHeap \in Nat
BY DriverAssumption

\* The steps of the timing package leave the rest of the driver alone.
LEMMA TimerSteps ==
  ASSUME StartFsecs \/ Timer \/ EndFsecs \/ eval_mm_speed \/ eval_libc_speed
  PROVE  /\ UNCHANGED <<mainVars, tracenum, op, mem, traceVars, statVars>>
         /\ brk' = brk \/ brk' = 0
         /\ \/ UNCHANGED <<phase, outcome>>
            \/ phase' = "exited" /\ outcome' = "1"
            \/ phase = "libc_speed" /\ phase' = "libc_secs" /\ outcome' = outcome
            \/ phase = "mm_speed" /\ phase' = "mm_secs" /\ outcome' = outcome
            \/ phase = "libc_secs" /\ phase' = "libc_next" /\ outcome' = outcome
            \/ phase = "mm_secs" /\ phase' = "mm_next" /\ outcome' = outcome
         /\ phase \in {"libc_speed", "mm_speed", "libc_secs", "mm_secs"}
<1>1. CASE StartFsecs
  BY <1>1 DEF StartFsecs, Go, heapVars
<1>2. CASE Timer
  BY <1>2 DEF Timer, Exit, heapVars
<1>3. CASE EndFsecs
  BY <1>3 DEF EndFsecs, Go, heapVars
<1>4. CASE eval_mm_speed
  BY <1>4 DEF eval_mm_speed, Timed, Exit
<1>5. CASE eval_libc_speed
  BY <1>5 DEF eval_libc_speed, Timed, Exit, heapVars
<1> QED BY <1>1, <1>2, <1>3, <1>4, <1>5

\* The round of a reallocation, its parts named: the bytes that must be kept,
\* the other payloads, and the memory as the allocator leaves it.
Copied == IF request.size < block_sizes[request.index] THEN request.size
                                                      ELSE block_sizes[request.index]
Others == remove_range(ranges, blocks[request.index])
MovedTo(lo, top, kept) == IF InHeap(lo, request.size, top)
                          THEN Moved(blocks[request.index], lo, Copied, kept) ELSE mem
Loses(lo, top, kept) ==
  /\ InHeap(lo, request.size, top)
  /\ \E j \in 0 .. Copied - 1 : MovedTo(lo, top, kept)[lo + j] # mem[blocks[request.index] + j]
Differs(lo, top, kept) ==
  \E j \in 0 .. Copied - 1 : ~ Same(MovedTo(lo, top, kept)[lo + j], request.index)

ReallocTo(lo, top, kept) ==
  /\ brk' = top
  /\ faults' = faults \cup Broken(request.index, lo, request.size, top)
                      \cup IF Loses(lo, top, kept) THEN {"lost"} ELSE {}
  /\ \/ request.size = 0 /\ AssertFails /\ ranges' = Others
     \/ /\ request.size # 0 /\ ~ RangeOK(Others, lo, request.size, top)
        /\ Refuse /\ ranges' = Others
     \/ /\ request.size # 0 /\ RangeOK(Others, lo, request.size, top) /\ Differs(lo, top, kept)
        /\ Refuse /\ ranges' = Others \cup {<<lo, lo + request.size - 1>>}
     \/ /\ request.size # 0 /\ RangeOK(Others, lo, request.size, top) /\ ~ Differs(lo, top, kept)
        /\ Accept(Others, MovedTo(lo, top, kept), lo)

MallocTo(lo, top) ==
  /\ brk' = top
  /\ faults' = faults \cup Broken(request.index, lo, request.size, top)
  /\ \/ request.size = 0 /\ AssertFails /\ ranges' = ranges
     \/ request.size # 0 /\ ~ RangeOK(ranges, lo, request.size, top) /\ Refuse /\ ranges' = ranges
     \/ request.size # 0 /\ RangeOK(ranges, lo, request.size, top) /\ Accept(ranges, mem, lo)

RoundFrame == UNCHANGED <<mainVars, tracenum, total_size, max_total_size>>

\* An ALLOC is answered with NULL, or with a block.
LEMMA MallocRound ==
  ASSUME mm_malloc
  PROVE  /\ phase = "mm_valid" /\ Request("ALLOC") /\ RoundFrame
         /\ \/ AnswersNull
            \/ \E lo \in Addresses, top \in {b \in Brks : b >= brk} : MallocTo(lo, top)
<1>1. phase = "mm_valid" /\ Request("ALLOC") /\ RoundFrame
  BY DEF mm_malloc, RoundFrame
<1>2. \/ AnswersNull
      \/ \E lo \in Addresses, top \in {b \in Brks : b >= brk} :
           /\ brk' = top
           /\ faults' = faults \cup Broken(request.index, lo, request.size, top)
           /\ IF request.size = 0 THEN AssertFails /\ UNCHANGED ranges
              ELSE IF ~ RangeOK(ranges, lo, request.size, top) THEN Refuse /\ UNCHANGED ranges
              ELSE Accept(ranges, mem, lo)
  BY DEF mm_malloc
<1> QED BY <1>1, <1>2 DEF MallocTo

\* A REALLOC is answered with NULL, or with a block.
LEMMA ReallocRound ==
  ASSUME mm_realloc
  PROVE  /\ phase = "mm_valid" /\ Request("REALLOC") /\ RoundFrame
         /\ \/ AnswersNull
            \/ \E lo \in Addresses, top \in {b \in Brks : b >= brk}, kept \in BOOLEAN :
                 ReallocTo(lo, top, kept)
<1>1. phase = "mm_valid" /\ Request("REALLOC") /\ RoundFrame
  BY DEF mm_realloc, RoundFrame
<1>2. \/ AnswersNull
      \/ \E lo \in Addresses, top \in {b \in Brks : b >= brk}, kept \in BOOLEAN :
           /\ brk' = top
           /\ faults' = faults \cup Broken(request.index, lo, request.size, top)
                               \cup IF Loses(lo, top, kept) THEN {"lost"} ELSE {}
           /\ IF request.size = 0 THEN AssertFails /\ ranges' = Others
              ELSE IF ~ RangeOK(Others, lo, request.size, top) THEN Refuse /\ ranges' = Others
              ELSE IF Differs(lo, top, kept)
                   THEN Refuse /\ ranges' = Others \cup {<<lo, lo + request.size - 1>>}
              ELSE Accept(Others, MovedTo(lo, top, kept), lo)
  BY DEF mm_realloc, Loses, Differs, MovedTo, Copied, Others
<1> QED BY <1>1, <1>2 DEF ReallocTo

\* What a round of eval_mm_valid does with the verdicts and with main.
Rejects == /\ errors' = errors + 1 /\ valid' = Append(valid, FALSE)
           /\ util' = Append(util, <<0, 1>>) /\ phase' = "mm_next" /\ outcome' = outcome
Rounds == \/ UNCHANGED <<statVars, phase, outcome>> /\ op' = op + 1
          \/ Rejects /\ op' = op
          \/ UNCHANGED statVars /\ phase' = "exited" /\ outcome' = "abort" /\ op' = op

\* What every round of eval_mm_valid has in common.
LEMMA ValidRounds ==
  ASSUME mm_malloc \/ mm_realloc \/ mm_free
  PROVE  /\ phase = "mm_valid" /\ ~ Done /\ Rounds
         /\ UNCHANGED <<mainVars, tracenum, total_size, max_total_size>>
         /\ brk' = brk \/ brk' \in Brks
         /\ \/ block_sizes' = block_sizes
            \/ block_sizes' = [block_sizes EXCEPT ![request.index] = request.size]
<1> USE DEF Rounds, Rejects, Reject, Refuse, Accept, AssertFails, AnswersNull, Exit, Go, Request, RoundFrame
<1>1. ASSUME AnswersNull PROVE Rounds /\ brk' = brk /\ block_sizes' = block_sizes
  BY <1>1
<1>2. ASSUME NEW lo, NEW top \in Brks, MallocTo(lo, top)
      PROVE  /\ Rounds /\ brk' \in Brks
             /\ \/ block_sizes' = block_sizes
                \/ block_sizes' = [block_sizes EXCEPT ![request.index] = request.size]
  BY <1>2 DEF MallocTo
<1>3. ASSUME NEW lo, NEW top \in Brks, NEW kept, ReallocTo(lo, top, kept)
      PROVE  /\ Rounds /\ brk' \in Brks
             /\ \/ block_sizes' = block_sizes
                \/ block_sizes' = [block_sizes EXCEPT ![request.index] = request.size]
  BY <1>3 DEF ReallocTo
<1>4. CASE mm_malloc
  BY <1>1, <1>2, <1>4, MallocRound
<1>5. CASE mm_realloc
  BY <1>1, <1>3, <1>5, ReallocRound
<1>6. CASE mm_free
  BY <1>6 DEF mm_free, heapVars
<1> QED BY <1>4, <1>5, <1>6

\* What the replay of a trace knows is inductive.
LEMMA ReplayKept == ReplayInv /\ [Next]_vars => ReplayInv'
<1>h. SUFFICES ASSUME ReplayInv, [Next]_vars PROVE ReplayInv'
  OBVIOUS
<1>n. /\ files \in Files /\ files \in Seq(Traces) /\ tracenum \in 0 .. Len(files) /\ op \in Nat
      /\ phase \in {"start", "mm_next", "exited"} \cup libcPhases \cup mmPhases
      /\ phase \in mmPhases => /\ tracenum # 0 /\ trace.num_ops = Len(trace.ops)
                               /\ op =< Len(trace.ops)
      /\ brk \in 0 .. MaxHeap /\ block_sizes \in [DOMAIN Low -> Nat]
      /\ total_size \in Int /\ max_total_size \in Int
  BY <1>h DEF ReplayInv
<1>p. /\ libcPhases = {"libc_next", "libc_valid", "libc_speed", "libc_secs"}
      /\ mmPhases = {"mm_init", "mm_valid", "util_init", "mm_util", "mm_speed", "mm_secs"}
  BY DEF libcPhases, mmPhases
<1>b. Brks \subseteq 0 .. MaxHeap /\ 0 \in 0 .. MaxHeap
  BY BrksInHeap
<1>t. UNCHANGED <<files, tracenum>> => trace' = trace
  BY DEF trace
<1>1. CASE UNCHANGED vars
  <2>1. UNCHANGED <<files, tracenum, op, phase, brk, block_sizes, total_size, max_total_size>>
    BY <1>1 DEF vars, driverVars
  <2> QED BY <1>n, <1>t, <2>1 DEF ReplayInv
\* A step in the same trace, or one that leaves it.
<1>2. ASSUME UNCHANGED <<files, tracenum, block_sizes, total_size, max_total_size>>,
             op' = op, brk' \in 0 .. MaxHeap,
             phase' \in {"mm_next", "exited"} \cup libcPhases \cup mmPhases,
             phase' \in mmPhases => phase \in mmPhases
      PROVE  ReplayInv'
  BY <1>n, <1>t, <1>2 DEF ReplayInv
<1>3. CASE options
  BY <1>n, <1>p, <1>2, <1>3 DEF options, Exit, Go, mainVars, heapVars, traceVars
<1>4. CASE read_trace
  <2>1. /\ tracenum < Len(files) /\ tracenum' = tracenum + 1 /\ op' = 0 /\ files' = files
        /\ block_sizes' = NoSizes /\ UNCHANGED <<brk, total_size, max_total_size>>
        /\ IF ~ HeaderOK(files[tracenum + 1]) THEN Exit("abort")
           ELSE Go(IF phase = "libc_next" THEN "libc_valid" ELSE "mm_init")
    BY <1>4 DEF read_trace, mainVars, heapVars
  <2>2. tracenum + 1 \in 1 .. Len(files) /\ tracenum' \in 0 .. Len(files) /\ tracenum' # 0
    BY <1>n, <2>1
  <2>3. NoSizes \in [DOMAIN Low -> Nat]
    BY DEF NoSizes
  <2>4. files[tracenum + 1] \in Traces /\ Len(files[tracenum + 1].ops) \in Nat
    <3>1. files[tracenum + 1] \in Traces
      BY <1>n, <2>2
    <3>2. files[tracenum + 1].ops \in Seq(Requests)
      BY <3>1 DEF Traces
    <3> QED BY <3>1, <3>2
  <2>5. trace' = files[tracenum + 1]
    BY <2>1 DEF trace
  <2>6. CASE ~ HeaderOK(files[tracenum + 1])
    <3>1. phase' = "exited"
      BY <2>1, <2>6 DEF Exit
    <3> QED BY <1>n, <1>p, <2>1, <2>2, <2>3, <3>1 DEF ReplayInv
  <2>7. CASE HeaderOK(files[tracenum + 1])
    <3>1. phase' \in {"libc_valid", "mm_init"}
      BY <2>1, <2>7 DEF Go
    <3>2. trace'.num_ops = Len(trace'.ops) /\ op' =< Len(trace'.ops) /\ op' \in Nat
      BY <2>1, <2>4, <2>5, <2>7 DEF HeaderOK
    <3> QED BY <1>n, <1>p, <2>1, <2>2, <2>3, <3>1, <3>2 DEF ReplayInv
  <2> QED BY <2>6, <2>7
<1>5. CASE loop_end
  <2>1. /\ tracenum' = 0 \/ tracenum' = tracenum
        /\ phase' \in {"mm_next", "exited"}
        /\ UNCHANGED <<files, op, brk, block_sizes, total_size, max_total_size>>
    BY <1>5 DEF loop_end, Exit, Go, mainVars, heapVars, traceVars
  <2>2. tracenum' \in 0 .. Len(files')
    BY <1>n, <2>1
  <2> QED BY <1>n, <1>p, <2>1, <2>2 DEF ReplayInv
<1>6. CASE StartFsecs \/ Timer \/ EndFsecs \/ eval_mm_speed \/ eval_libc_speed
  <2>1. /\ UNCHANGED <<files, tracenum, op, block_sizes, total_size, max_total_size>>
        /\ brk' = brk \/ brk' = 0
        /\ \/ phase' = phase \/ phase' = "exited"
           \/ phase = "libc_speed" /\ phase' = "libc_secs"
           \/ phase = "mm_speed" /\ phase' = "mm_secs"
           \/ phase = "libc_secs" /\ phase' = "libc_next"
           \/ phase = "mm_secs" /\ phase' = "mm_next"
        /\ phase \in {"libc_speed", "mm_speed", "libc_secs", "mm_secs"}
    BY <1>6, TimerSteps DEF mainVars, traceVars
  <2> QED BY <1>n, <1>p, <1>b, <1>2, <2>1
<1>7. CASE mm_init
  <2>1. /\ UNCHANGED <<files, tracenum, op, block_sizes, total_size, max_total_size>>
        /\ brk' \in Brks /\ phase = "mm_init" /\ phase' \in {"mm_valid", "mm_next"}
    BY <1>7 DEF mm_init, Go, Reject, mainVars
  <2> QED BY <1>p, <1>b, <1>2, <2>1
<1>8. CASE mm_malloc \/ mm_realloc \/ mm_free
  <2>1. /\ phase = "mm_valid" /\ ~ Done /\ Rounds
        /\ UNCHANGED <<files, tracenum, total_size, max_total_size>>
        /\ brk' = brk \/ brk' \in Brks
        /\ \/ block_sizes' = block_sizes
           \/ block_sizes' = [block_sizes EXCEPT ![request.index] = request.size]
    BY <1>8, ValidRounds DEF mainVars
  <2>2. phase \in mmPhases /\ op + 1 \in 1 .. Len(trace.ops) /\ request.size \in Nat
    BY <1>h, <1>p, <2>1, RequestOK
  <2>3. block_sizes' \in [DOMAIN Low -> Nat] /\ brk' \in 0 .. MaxHeap
    BY <1>n, <1>b, <2>1, <2>2
  <2>4. phase' \in {"mm_valid", "mm_next", "exited"} /\ (op' = op \/ op' = op + 1)
    BY <2>1 DEF Rounds, Rejects
  <2>5. op' \in Nat /\ op' =< Len(trace.ops)
    BY <1>n, <2>2, <2>4
  <2> QED BY <1>n, <1>p, <1>t, <2>1, <2>2, <2>3, <2>4, <2>5 DEF ReplayInv
<1>9. CASE IsValid
  <2>1. /\ UNCHANGED <<files, tracenum, op, brk, block_sizes, total_size, max_total_size>>
        /\ phase = "mm_valid" /\ phase' = "util_init"
    BY <1>9 DEF IsValid, Go, mainVars, heapVars, traceVars
  <2> QED BY <1>n, <1>p, <1>2, <2>1
<1>10. CASE eval_libc_valid
  <2>1. /\ UNCHANGED <<files, tracenum, op, brk, block_sizes, total_size, max_total_size>>
        /\ phase' \in {"libc_speed", "exited"}
    BY <1>10 DEF eval_libc_valid, Go, Exit, mainVars, heapVars, traceVars
  <2> QED BY <1>n, <1>p, <1>2, <2>1
<1>11. CASE util_init
  <2>1. /\ UNCHANGED <<files, tracenum, block_sizes>> /\ brk' \in 0 .. MaxHeap
        /\ phase = "util_init" /\ phase' \in {"mm_util", "exited"}
        /\ op' = 0 /\ total_size' = 0 /\ max_total_size' = 0
    BY <1>b, <1>11 DEF util_init, Go, Exit, mainVars
  <2>2. Len(trace.ops) \in Nat
    <3>1. trace.ops \in Seq(Requests)
      BY <1>h, <1>n, <1>p, <2>1, TraceOK
    <3> QED BY <3>1
  <2> QED BY <1>n, <1>p, <1>t, <2>1, <2>2 DEF ReplayInv
<1>12. CASE eval_mm_util
  <2>1. /\ phase = "mm_util" /\ ~ Done /\ UNCHANGED <<files, tracenum>>
    BY <1>12 DEF eval_mm_util, mainVars
  <2>2. /\ phase \in mmPhases /\ op + 1 \in 1 .. Len(trace.ops)
        /\ request.index \in DOMAIN Low /\ request.size \in Nat
        /\ request.type \in {"ALLOC", "REALLOC", "FREE"}
    BY <1>h, <1>p, <2>1, RequestOK
  <2>3. CASE phase' = "exited" /\ UNCHANGED <<op, brk, total_size, max_total_size, block_sizes>>
    BY <1>n, <1>p, <1>2, <2>1, <2>3
  <2>4. CASE /\ op' = op + 1 /\ total_size' = total_size + Change /\ phase' = phase
             /\ block_sizes' = IF request.type = "FREE" THEN block_sizes
                               ELSE [block_sizes EXCEPT ![request.index] = request.size]
             /\ max_total_size' = IF request.type = "FREE" THEN max_total_size
                                  ELSE Greatest(total_size', max_total_size)
             /\ brk' \in Brks
    <3>1. block_sizes[request.index] \in Nat
      BY <1>n, <2>2
    <3>2. Change \in Int
      BY <2>2, <3>1 DEF Change
    <3>3. total_size' \in Int /\ max_total_size' \in Int
      BY <1>n, <2>4, <3>2 DEF Greatest
    <3>4. block_sizes' \in [DOMAIN Low -> Nat]
      BY <1>n, <2>2, <2>4
    <3>5. op' \in Nat /\ op' =< Len(trace.ops)
      BY <1>n, <2>2, <2>4
    <3> QED BY <1>n, <1>p, <1>b, <1>t, <2>1, <2>4, <3>3, <3>4, <3>5 DEF ReplayInv
  <2> QED BY <1>12, <2>3, <2>4 DEF eval_mm_util, Exit
<1>13. CASE util_end
  <2>1. /\ UNCHANGED <<files, tracenum, op, brk, block_sizes, total_size, max_total_size>>
        /\ phase = "mm_util" /\ phase' = "mm_speed"
    BY <1>13 DEF util_end, Go, mainVars, heapVars, traceVars
  <2> QED BY <1>n, <1>p, <1>2, <2>1
<1> QED BY <1>h, <1>1, <1>3, <1>4, <1>5, <1>6, <1>7, <1>8, <1>9, <1>10, <1>11, <1>12, <1>13 DEF Next

\* What the replay knows, in the beginning.
LEMMA ReplayInit == Init => ReplayInv
<1> SUFFICES ASSUME Init PROVE ReplayInv
  OBVIOUS
<1>1. /\ files \in Files /\ phase = "start" /\ tracenum = 0 /\ op = 0 /\ brk = 0
      /\ block_sizes = NoSizes /\ total_size = 0 /\ max_total_size = 0
  BY DEF Init
<1>2. files \in Seq(Traces)
  BY <1>1, TracesAssumption
<1>3. tracenum \in 0 .. Len(files)
  BY <1>1, <1>2
<1>4. block_sizes \in [DOMAIN Low -> Nat]
  BY <1>1 DEF NoSizes
<1> QED BY <1>1, <1>2, <1>3, <1>4, BrksInHeap DEF ReplayInv, mmPhases, libcPhases

-----------------------------------------------------------------------------
(* The verdicts are counted *)

AllTrue(v) == \A i \in 1 .. Len(v) : v[i] = TRUE

\* How many verdicts and utilizations there are where main is, and what they
\* have to do with the number of errors.
CountInv ==
  /\ errors \in Nat /\ valid \in Seq(BOOLEAN) /\ util \in Seq(Int \X Int)
  /\ phase # "exited" => outcome = "none" /\ (errors = 0 <=> AllTrue(valid))
  /\ phase \in {"start"} \cup libcPhases => Len(valid) = 0 /\ Len(util) = 0
  /\ phase = "start" => tracenum = 0
  /\ phase \in {"mm_next", "mm_speed", "mm_secs"} => Len(valid) = tracenum /\ Len(util) = tracenum
  /\ phase \in {"mm_init", "mm_valid"} => Len(valid) = tracenum - 1 /\ Len(util) = tracenum - 1
  /\ phase \in {"util_init", "mm_util"} => Len(valid) = tracenum /\ Len(util) = tracenum - 1
  /\ outcome \in {"index", "errors"} => /\ Len(valid) = Len(files) /\ Len(util) = Len(files)
                                        /\ (outcome = "index" <=> AllTrue(valid))

\* A list of verdicts and one more are all true if both are.
LEMMA AppendVerdict ==
  ASSUME NEW v \in Seq(BOOLEAN), NEW b \in BOOLEAN
  PROVE  /\ Append(v, b) \in Seq(BOOLEAN) /\ Len(Append(v, b)) = Len(v) + 1
         /\ AllTrue(Append(v, b)) <=> AllTrue(v) /\ b = TRUE
<1> DEFINE w == Append(v, b)
<1>1. /\ w \in Seq(BOOLEAN) /\ Len(w) = Len(v) + 1 /\ w[Len(v) + 1] = b /\ Len(v) \in Nat
      /\ \A i \in 1 .. Len(v) : w[i] = v[i]
  OBVIOUS
<1> HIDE DEF w
<1>2. 1 .. Len(w) = (1 .. Len(v)) \cup {Len(v) + 1}
  BY <1>1
<1>3. AllTrue(w) <=> AllTrue(v) /\ b = TRUE
  BY <1>1, <1>2, Zenon DEF AllTrue
<1> QED BY <1>1, <1>3 DEF w

\* A list of utilisations grows by one.
LEMMA AppendPair ==
  ASSUME NEW u \in Seq(Int \X Int), NEW a \in Int, NEW b \in Int
  PROVE  Append(u, <<a, b>>) \in Seq(Int \X Int) /\ Len(Append(u, <<a, b>>)) = Len(u) + 1
OBVIOUS

\* A rejected trace counts as one error.
LEMMA RejectCounted ==
  ASSUME CountInv, phase \in {"mm_init", "mm_valid"}, tracenum \in Nat, Rejects,
         UNCHANGED tracenum
  PROVE  CountInv'
<1>1. /\ errors \in Nat /\ valid \in Seq(BOOLEAN) /\ util \in Seq(Int \X Int)
      /\ outcome = "none" /\ Len(valid) = tracenum - 1 /\ Len(util) = tracenum - 1
  BY DEF CountInv
<1>2. /\ valid' = Append(valid, FALSE) /\ util' = Append(util, <<0, 1>>)
      /\ phase' = "mm_next" /\ outcome' = "none" /\ errors' = errors + 1
  BY <1>1 DEF Rejects
<1>3. valid' \in Seq(BOOLEAN) /\ Len(valid') = tracenum /\ ~ AllTrue(valid')
  <2> DEFINE v == Append(valid, FALSE)
  <2>1. /\ v \in Seq(BOOLEAN) /\ Len(v) = Len(valid) + 1
        /\ AllTrue(v) <=> AllTrue(valid) /\ FALSE = TRUE
    BY <1>1, AppendVerdict
  <2> HIDE DEF v
  <2>2. ~ AllTrue(v)
    BY <2>1, Zenon
  <2>3. Len(v) = tracenum
    BY <1>1, <2>1
  <2>4. valid' = v
    BY <1>2 DEF v
  <2> QED BY <2>1, <2>2, <2>3, <2>4
<1>4. util' \in Seq(Int \X Int) /\ Len(util') = tracenum
  BY <1>1, <1>2, AppendPair
<1>5. errors' \in Nat /\ errors' # 0
  BY <1>1, <1>2
<1> QED BY <1>2, <1>3, <1>4, <1>5 DEF CountInv, libcPhases

\* The count of errors and verdicts is inductive.
LEMMA CountKept == ReplayInv /\ CountInv /\ [Next]_vars => CountInv'
<1>h. SUFFICES ASSUME ReplayInv, CountInv, [Next]_vars PROVE CountInv'
  OBVIOUS
<1>r. /\ files \in Seq(Traces) /\ tracenum \in 0 .. Len(files) /\ tracenum \in Nat
      /\ brk \in Int /\ max_total_size \in Int
  BY <1>h, BrksInHeap DEF ReplayInv
<1>p. libcPhases = {"libc_next", "libc_valid", "libc_speed", "libc_secs"}
  BY DEF libcPhases
<1>n. /\ errors \in Nat /\ valid \in Seq(BOOLEAN) /\ util \in Seq(Int \X Int)
      /\ phase # "exited" => outcome = "none" /\ (errors = 0 <=> AllTrue(valid))
      /\ phase \in {"start"} \cup libcPhases => Len(valid) = 0 /\ Len(util) = 0
      /\ phase = "start" => tracenum = 0
      /\ phase \in {"mm_next", "mm_speed", "mm_secs"} => Len(valid) = tracenum /\ Len(util) = tracenum
      /\ phase \in {"mm_init", "mm_valid"} => Len(valid) = tracenum - 1 /\ Len(util) = tracenum - 1
      /\ phase \in {"util_init", "mm_util"} => Len(valid) = tracenum /\ Len(util) = tracenum - 1
  BY <1>h DEF CountInv
\* A step without a verdict.
<1>1. ASSUME UNCHANGED <<statVars, tracenum, outcome>>, phase # "exited",
             \/ phase' = phase
             \/ phase \in {"start"} \cup libcPhases /\ phase' \in libcPhases
             \/ phase = "mm_init" /\ phase' = "mm_valid"
             \/ phase = "util_init" /\ phase' = "mm_util"
             \/ phase = "mm_speed" /\ phase' = "mm_secs"
             \/ phase = "mm_secs" /\ phase' = "mm_next"
      PROVE  CountInv'
  BY <1>n, <1>p, <1>1 DEF CountInv, statVars
\* The driver ends without one of the two lines.
<1>2. ASSUME phase' = "exited", outcome' \in {"0", "1", "abort"}, UNCHANGED <<valid, util>>, errors' \in Nat
      PROVE  CountInv'
  BY <1>n, <1>p, <1>2 DEF CountInv
<1>3. CASE UNCHANGED vars
  BY <1>h, <1>3 DEF vars, driverVars, CountInv
<1>4. CASE options
  <2>1. /\ phase = "start" /\ UNCHANGED <<statVars, tracenum>>
        /\ \/ phase' = "exited" /\ outcome' \in {"0", "1"}
           \/ phase' \in {"libc_next", "mm_next"} /\ outcome' = outcome
    BY <1>4 DEF options, Exit, Go
  <2>2. CASE phase' = "exited" /\ outcome' \in {"0", "1"}
    BY <1>2, <1>n, <2>1, <2>2 DEF statVars
  <2>3. CASE phase' \in {"libc_next", "mm_next"} /\ outcome' = outcome
    BY <1>n, <1>p, <2>1, <2>3 DEF statVars, CountInv
  <2> QED BY <2>1, <2>2, <2>3
<1>5. CASE read_trace
  <2>1. /\ phase \in {"libc_next", "mm_next"} /\ tracenum' = tracenum + 1 /\ UNCHANGED statVars
        /\ \/ phase' = "exited" /\ outcome' = "abort"
           \/ /\ phase' = IF phase = "libc_next" THEN "libc_valid" ELSE "mm_init"
              /\ outcome' = outcome
    BY <1>5 DEF read_trace, Exit, Go
  <2>2. CASE phase' = "exited" /\ outcome' = "abort"
    BY <1>2, <1>n, <2>1, <2>2 DEF statVars
  <2>3. CASE phase = "libc_next" /\ phase' = "libc_valid" /\ outcome' = outcome
    BY <1>n, <1>p, <2>1, <2>3 DEF statVars, CountInv
  <2>4. CASE phase = "mm_next" /\ phase' = "mm_init" /\ outcome' = outcome
    BY <1>n, <1>p, <1>r, <2>1, <2>4 DEF statVars, CountInv
  <2> QED BY <2>1, <2>2, <2>3, <2>4
<1>6. CASE loop_end
  <2>1. tracenum = Len(files) /\ UNCHANGED <<statVars, files>>
    BY <1>6 DEF loop_end, mainVars
  <2>2. CASE phase = "libc_next"
    <3>1. phase' = "mm_next" /\ outcome' = outcome /\ tracenum' = 0
      BY <1>6, <2>2 DEF loop_end, Go
    <3> QED BY <1>n, <1>p, <2>1, <2>2, <3>1 DEF statVars, CountInv
  <2>3. CASE phase = "mm_next"
    <3>1. phase' = "exited" /\ outcome' = IF errors = 0 THEN "index" ELSE "errors"
      BY <1>6, <2>3 DEF loop_end, Exit
    <3> QED BY <1>n, <1>p, <2>1, <2>3, <3>1 DEF statVars, CountInv
  <2> QED BY <1>6, <2>2, <2>3 DEF loop_end
<1>7. CASE StartFsecs \/ Timer \/ EndFsecs \/ eval_mm_speed \/ eval_libc_speed
  <2>1. /\ UNCHANGED <<tracenum, statVars>>
        /\ \/ phase' = phase /\ outcome' = outcome
           \/ phase' = "exited" /\ outcome' = "1"
           \/ phase = "libc_speed" /\ phase' = "libc_secs" /\ outcome' = outcome
           \/ phase = "mm_speed" /\ phase' = "mm_secs" /\ outcome' = outcome
           \/ phase = "libc_secs" /\ phase' = "libc_next" /\ outcome' = outcome
           \/ phase = "mm_secs" /\ phase' = "mm_next" /\ outcome' = outcome
        /\ phase \in {"libc_speed", "mm_speed", "libc_secs", "mm_secs"}
    BY <1>7, TimerSteps
  <2>2. CASE phase' = "exited" /\ outcome' = "1"
    BY <1>2, <1>n, <2>1, <2>2 DEF statVars
  <2> QED BY <1>1, <1>p, <2>1, <2>2
<1>8. CASE mm_init
  <2>1. /\ phase = "mm_init" /\ UNCHANGED tracenum
        /\ \/ phase' = "mm_valid" /\ outcome' = outcome /\ UNCHANGED statVars
           \/ Rejects
    BY <1>8 DEF mm_init, Go, Reject, Rejects
  <2>2. CASE Rejects
    BY <1>h, <1>r, <2>1, <2>2, RejectCounted
  <2> QED BY <1>1, <2>1, <2>2
<1>9. CASE mm_malloc \/ mm_realloc \/ mm_free
  <2>1. phase = "mm_valid" /\ Rounds /\ UNCHANGED tracenum
    BY <1>9, ValidRounds
  <2>2. CASE Rejects
    BY <1>h, <1>r, <2>1, <2>2, RejectCounted
  <2>3. CASE UNCHANGED <<statVars, phase, outcome>>
    BY <1>1, <2>1, <2>3
  <2>4. CASE UNCHANGED statVars /\ phase' = "exited" /\ outcome' = "abort"
    BY <1>2, <1>n, <2>4 DEF statVars
  <2> QED BY <2>1, <2>2, <2>3, <2>4 DEF Rounds
<1>10. CASE IsValid
  <2>1. /\ phase = "mm_valid" /\ phase' = "util_init" /\ outcome' = outcome
        /\ valid' = Append(valid, TRUE) /\ UNCHANGED <<tracenum, errors, util>>
    BY <1>10 DEF IsValid, Go
  <2>2. valid' \in Seq(BOOLEAN) /\ Len(valid') = Len(valid) + 1 /\ (AllTrue(valid') <=> AllTrue(valid))
    BY <1>n, <2>1, AppendVerdict
  <2>3. Len(valid') = tracenum
    BY <1>n, <1>r, <2>1, <2>2
  <2> QED BY <1>n, <1>p, <2>1, <2>2, <2>3 DEF CountInv
<1>11. CASE eval_libc_valid
  <2>1. /\ phase = "libc_valid" /\ UNCHANGED <<tracenum, valid, util>>
        /\ \/ phase' = "libc_speed" /\ outcome' = outcome /\ errors' = errors
           \/ phase' = "exited" /\ outcome' = "1" /\ errors' = errors + 1
    BY <1>11 DEF eval_libc_valid, Go, Exit
  <2>2. CASE phase' = "exited" /\ outcome' = "1" /\ errors' = errors + 1
    BY <1>2, <1>n, <2>1, <2>2
  <2> QED BY <1>1, <1>p, <2>1, <2>2 DEF statVars
<1>12. CASE util_init
  <2>1. /\ phase = "util_init" /\ UNCHANGED <<tracenum, statVars>>
        /\ \/ phase' = "mm_util" /\ outcome' = outcome
           \/ phase' = "exited" /\ outcome' = "1"
    BY <1>12 DEF util_init, Go, Exit
  <2>2. CASE phase' = "exited" /\ outcome' = "1"
    BY <1>2, <1>n, <2>1, <2>2 DEF statVars
  <2> QED BY <1>1, <2>1, <2>2
<1>13. CASE eval_mm_util
  <2>1. /\ phase = "mm_util" /\ UNCHANGED <<tracenum, statVars>>
        /\ \/ UNCHANGED <<phase, outcome>>
           \/ phase' = "exited" /\ outcome' = "1"
    BY <1>13 DEF eval_mm_util, Exit
  <2>2. CASE phase' = "exited" /\ outcome' = "1"
    BY <1>2, <1>n, <2>1, <2>2 DEF statVars
  <2> QED BY <1>1, <2>1, <2>2
<1>14. CASE util_end
  <2>1. /\ phase = "mm_util" /\ phase' = "mm_speed" /\ outcome' = outcome
        /\ util' = Append(util, <<max_total_size, brk>>) /\ UNCHANGED <<tracenum, errors, valid>>
    BY <1>14 DEF util_end, Go
  <2>2. util' \in Seq(Int \X Int) /\ Len(util') = Len(util) + 1
    BY <1>n, <1>r, <2>1, AppendPair
  <2>3. Len(util') = tracenum
    BY <1>n, <1>r, <2>1, <2>2
  <2> QED BY <1>n, <1>p, <2>1, <2>2, <2>3 DEF CountInv
<1> QED BY <1>h, <1>3, <1>4, <1>5, <1>6, <1>7, <1>8, <1>9, <1>10, <1>11, <1>12, <1>13, <1>14 DEF Next

\* The count in the beginning.
LEMMA CountInit == Init => CountInv
<1> SUFFICES ASSUME Init PROVE CountInv
  OBVIOUS
<1>1. /\ errors = 0 /\ valid = <<>> /\ util = <<>> /\ phase = "start" /\ outcome = "none" /\ tracenum = 0
  BY DEF Init
<1>2. <<>> \in Seq(BOOLEAN) /\ <<>> \in Seq(Int \X Int) /\ Len(<<>>) = 0
  OBVIOUS
<1>3. AllTrue(<<>>)
  BY <1>2 DEF AllTrue
<1> QED BY <1>1, <1>2, <1>3 DEF CountInv

\* For any allocator, whatever fails on the way: when one of the two last lines
\* is printed, every trace has its verdict and its utilization, and it is the
\* index if and only if every verdict was that the trace is valid.
THEOREM IndexIsEarned == Spec => []IndexMeansValid
<1>1. Init => ReplayInv /\ CountInv
  BY ReplayInit, CountInit
<1>2. ReplayInv /\ CountInv => IndexMeansValid
  <2> SUFFICES ASSUME ReplayInv, CountInv, outcome \in {"index", "errors"}
               PROVE  /\ Len(valid) = Len(files) /\ Len(util) = Len(files)
                      /\ outcome = "index" <=> \A i \in DOMAIN files : valid[i]
    BY DEF IndexMeansValid
  <2>1. /\ Len(valid) = Len(files) /\ Len(util) = Len(files)
        /\ outcome = "index" <=> AllTrue(valid)
    BY DEF CountInv
  <2>2. DOMAIN files = 1 .. Len(valid) /\ valid \in Seq(BOOLEAN)
    BY <2>1 DEF ReplayInv, CountInv
  <2>3. \A i \in 1 .. Len(valid) : valid[i] \in BOOLEAN
    BY <2>2
  <2>4. AllTrue(valid) <=> \A i \in DOMAIN files : valid[i]
    BY <2>2, <2>3, Zenon DEF AllTrue
  <2> QED BY <2>1, <2>4
<1>3. ReplayInv /\ CountInv /\ [Next]_vars => (ReplayInv /\ CountInv)'
  BY ReplayKept, CountKept
<1> QED BY <1>1, <1>2, <1>3, PTL DEF Spec

-----------------------------------------------------------------------------
(* The records are the live payloads *)

\* A request makes its block live, or frees it.
LEMMA LiveStep ==
  ASSUME NEW t \in Traces, NEW n \in Nat, n + 1 =< Len(t.ops)
  PROVE  LiveAfter(t, n + 1) = IF t.ops[n + 1].type = "FREE"
                               THEN LiveAfter(t, n) \ {t.ops[n + 1].index}
                               ELSE LiveAfter(t, n) \cup {t.ops[n + 1].index}
<1> DEFINE r == t.ops[n + 1]
           Opens(i, k) == t.ops[k].index = i /\ t.ops[k].type # "FREE"
           Keeps(i, m) == t.ops[m].index # i \/ t.ops[m].type # "FREE"
           Is(i, l) == \E k \in 1 .. l : Opens(i, k) /\ \A m \in k + 1 .. l : Keeps(i, m)
<1>1. \A l : LiveAfter(t, l) = {i \in DOMAIN Low : Is(i, l)}
  BY DEF LiveAfter
<1>2. n + 1 \in 1 .. Len(t.ops) /\ t.ops \in Seq(Requests)
  BY DEF Traces
<1>3. r \in Requests
  BY <1>2
<1>4. r.index \in DOMAIN Low
  BY <1>3 DEF Requests
<1> HIDE DEF Opens, Keeps
<1>5. ASSUME NEW i, Keeps(i, n + 1), Is(i, n) PROVE Is(i, n + 1)
  <2>1. PICK k \in 1 .. n : Opens(i, k) /\ \A m \in k + 1 .. n : Keeps(i, m)
    BY <1>5
  <2>2. k \in 1 .. n + 1 /\ \A m \in k + 1 .. n + 1 : m \in k + 1 .. n \/ m = n + 1
    BY <2>1
  <2> QED BY <1>5, <2>1, <2>2
<1>6. ASSUME NEW i, Is(i, n + 1) PROVE Is(i, n) \/ Opens(i, n + 1)
  <2>1. PICK k \in 1 .. n + 1 : Opens(i, k) /\ \A m \in k + 1 .. n + 1 : Keeps(i, m)
    BY <1>6
  <2>2. CASE k = n + 1
    BY <2>1, <2>2
  <2>3. CASE k # n + 1
    <3>1. k \in 1 .. n /\ \A m \in k + 1 .. n : m \in k + 1 .. n + 1
      BY <2>1, <2>3
    <3> QED BY <2>1, <3>1
  <2> QED BY <2>2, <2>3
<1>7. ASSUME NEW i, ~ Keeps(i, n + 1), ~ Opens(i, n + 1) PROVE ~ Is(i, n + 1)
  <2> SUFFICES ASSUME NEW k \in 1 .. n + 1, Opens(i, k), \A m \in k + 1 .. n + 1 : Keeps(i, m)
               PROVE  FALSE
    OBVIOUS
  <2>1. k # n + 1
    BY <1>7
  <2>2. n + 1 \in k + 1 .. n + 1
    BY <2>1
  <2> QED BY <1>7, <2>2
<1>8. ASSUME NEW i, Opens(i, n + 1) PROVE Is(i, n + 1)
  <2>1. n + 1 \in 1 .. n + 1 /\ (n + 1) + 1 .. n + 1 = {}
    OBVIOUS
  <2> QED BY <1>8, <2>1
<1>9. CASE r.type = "FREE"
  <2>1. \A i : /\ ~ Opens(i, n + 1)
               /\ Keeps(i, n + 1) <=> i # r.index
    BY <1>9 DEF Opens, Keeps
  <2>2. \A i : Is(i, n + 1) <=> Is(i, n) /\ i # r.index
    <3> HIDE DEF Is, r
    <3> QED BY <1>5, <1>6, <1>7, <2>1, Zenon
  <2> HIDE DEF Is, r
  <2>3. LiveAfter(t, n + 1) = LiveAfter(t, n) \ {r.index}
    BY <1>1, <2>2
  <2> QED BY <1>9, <2>3 DEF r
<1>10. CASE r.type # "FREE"
  <2>1. \A i : /\ Opens(i, n + 1) <=> i = r.index
               /\ Keeps(i, n + 1)
    BY <1>10 DEF Opens, Keeps
  <2>2. \A i : Is(i, n + 1) <=> Is(i, n) \/ i = r.index
    <3> HIDE DEF Is, r
    <3> QED BY <1>5, <1>6, <1>8, <2>1, Zenon
  <2> HIDE DEF Is, r
  <2>3. LiveAfter(t, n + 1) = LiveAfter(t, n) \cup {r.index}
    BY <1>1, <1>4, <2>2
  <2> QED BY <1>10, <2>3 DEF r
<1> QED BY <1>9, <1>10

\* Before the first request, no block is live.
LEMMA LiveNone == ASSUME NEW t PROVE LiveAfter(t, 0) = {}
BY DEF LiveAfter

\* The payload of a block, and what the driver has checked about it.
Record(i) == <<blocks[i], blocks[i] + block_sizes[i] - 1>>
Checked(i) == /\ blocks[i] \in Int /\ block_sizes[i] \in Nat \ {0}
              /\ IsAligned(blocks[i]) /\ blocks[i] >= 0 /\ blocks[i] + block_sizes[i] =< brk

\* The live payloads begin in different places, for none begins in another one
\* when it is recorded.
RangeInv ==
  /\ blocks \in [DOMAIN Low -> Int \cup {Null}]
  /\ phase = "mm_init" => op = 0
  /\ phase = "mm_valid" => /\ ranges = {Record(i) : i \in Live}
                           /\ \A i \in Live : Checked(i)
                           /\ \A i, j \in Live : i # j => blocks[i] # blocks[j]

\* What a request does to the live blocks, in a file that allocates before it frees.
LEMMA RequestLive ==
  ASSUME FilesConsistent, ReplayInv, phase \in mmPhases, ~ Done
  PROVE  /\ request.type = "ALLOC" <=> request.index \notin Live
         /\ LiveAfter(trace, op + 1) = IF request.type = "FREE" THEN Live \ {request.index}
                                       ELSE Live \cup {request.index}
<1>1. /\ files \in Files /\ tracenum \in DOMAIN files /\ trace \in Traces /\ op \in Nat
  <2>1. files \in Files /\ files \in Seq(Traces) /\ tracenum \in 1 .. Len(files) /\ op \in Nat
    BY DEF ReplayInv
  <2> QED BY <2>1, TraceOK
<1>2. op + 1 \in 1 .. Len(trace.ops) /\ op + 1 =< Len(trace.ops) /\ op + 1 - 1 = op
  <2>1. op + 1 \in 1 .. Len(trace.ops)
    BY RequestOK
  <2> QED BY <1>1, <2>1
<1>3. Consistent(trace)
  BY <1>1 DEF FilesConsistent, trace
<1>4. request.type = "ALLOC" <=> request.index \notin Live
  <2> DEFINE n == op + 1
  <2>3. n \in 1 .. Len(trace.ops) /\ n - 1 = op
    BY <1>1, <1>2
  <2>4. request = trace.ops[n]
    BY DEF request
  <2>1. n \in 1 .. Len(trace.ops) /\ n - 1 = op /\ request = trace.ops[n]
    BY <2>3, <2>4
  <2> HIDE DEF n
  <2>2. trace.ops[n].type = "ALLOC" <=> trace.ops[n].index \notin LiveAfter(trace, n - 1)
    BY <1>3, <2>1, Zenon DEF Consistent
  <2> QED BY <2>1, <2>2 DEF Live
<1>5. LiveAfter(trace, op + 1) = IF request.type = "FREE" THEN Live \ {request.index}
                                 ELSE Live \cup {request.index}
  BY <1>1, <1>2, LiveStep DEF request, Live
<1> QED BY <1>4, <1>5

\* The live blocks after a round.
LEMMA LiveNext ==
  ASSUME FilesConsistent, ReplayInv, phase \in mmPhases, ~ Done, UNCHANGED <<mainVars, tracenum>>, op' = op + 1
  PROVE  Live' = IF request.type = "FREE" THEN Live \ {request.index} ELSE Live \cup {request.index}
<1>1. trace' = trace
  BY DEF mainVars, trace
<1>2. Live' = LiveAfter(trace, op + 1)
  BY <1>1 DEF Live, LiveAfter
<1> QED BY <1>2, RequestLive

\* add_range takes a payload that begins in none of the others, and is in the
\* heap.
LEMMA AcceptKeepsRecords ==
  ASSUME NEW I \in SUBSET DOMAIN Low, NEW index \in DOMAIN Low, index \notin I,
         NEW size \in Nat \ {0}, NEW lo \in Int, NEW top \in Int, brk \in Int, top >= brk,
         blocks \in [DOMAIN Low -> Int \cup {Null}], block_sizes \in [DOMAIN Low -> Nat],
         \A i \in I : Checked(i), \A i, j \in I : i # j => blocks[i] # blocks[j],
         NEW R, R = {Record(i) : i \in I}, RangeOK(R, lo, size, top),
         brk' = top, blocks' = [blocks EXCEPT ![index] = lo],
         block_sizes' = [block_sizes EXCEPT ![index] = size],
         ranges' = R \cup {<<lo, lo + size - 1>>}, Live' = I \cup {index}
  PROVE  /\ ranges' = {Record(i)' : i \in Live'}
         /\ \A i \in Live' : Checked(i)'
         /\ \A i, j \in Live' : i # j => blocks'[i] # blocks'[j]
<1>1. /\ \A i \in I : blocks'[i] = blocks[i] /\ block_sizes'[i] = block_sizes[i]
      /\ blocks'[index] = lo /\ block_sizes'[index] = size
  OBVIOUS
<1>2. \A i \in I : Record(i)' = Record(i)
  BY <1>1 DEF Record
<1>3. Record(index)' = <<lo, lo + size - 1>>
  BY <1>1 DEF Record
<1>4. ranges' = {Record(i)' : i \in Live'}
  BY <1>2, <1>3
<1>5. \A i \in I : Checked(i)'
  BY <1>1 DEF Checked
<1>6. Checked(index)'
  BY <1>1 DEF Checked, RangeOK, InHeap
<1>7. ASSUME NEW i \in I PROVE blocks[i] # lo
  <2>1. Record(i) \in R
    OBVIOUS
  <2>2. ~ lo \in Record(i)[1] .. Record(i)[2]
    BY <2>1 DEF RangeOK, Overlaps
  <2>3. blocks[i] \in Int /\ block_sizes[i] \in Nat \ {0}
    BY DEF Checked
  <2>4. ~ lo \in blocks[i] .. blocks[i] + block_sizes[i] - 1
    BY <2>2 DEF Record
  <2> QED BY <2>3, <2>4
<1> QED BY <1>1, <1>4, <1>5, <1>6, <1>7

\* remove_range takes out the record of its block and of no other one.
LEMMA RemoveRecord ==
  ASSUME NEW I \in SUBSET DOMAIN Low, NEW index \in I, ranges = {Record(i) : i \in I},
         \A i, j \in I : i # j => blocks[i] # blocks[j]
  PROVE  remove_range(ranges, blocks[index]) = {Record(i) : i \in I \ {index}}
<1>1. \A i \in I : Record(i)[1] = blocks[i]
  BY DEF Record
<1>2. \A i \in I : Record(i)[1] # blocks[index] <=> i # index
  BY <1>1
<1> QED BY <1>2 DEF remove_range

\* That the live payloads begin in different places is inductive.
LEMMA RangesKept == FilesConsistent /\ ReplayInv /\ RangeInv /\ [Next]_vars => RangeInv'
<1>h. SUFFICES ASSUME FilesConsistent, ReplayInv, RangeInv, [Next]_vars PROVE RangeInv'
  OBVIOUS
<1>n. /\ blocks \in [DOMAIN Low -> Int \cup {Null}] /\ block_sizes \in [DOMAIN Low -> Nat]
      /\ brk \in Int
      /\ phase = "mm_init" => op = 0
      /\ phase = "mm_valid" => /\ ranges = {Record(i) : i \in Live}
                               /\ \A i \in Live : Checked(i)
                               /\ \A i, j \in Live : i # j => blocks[i] # blocks[j]
  BY <1>h, BrksInHeap DEF RangeInv, ReplayInv
<1>t. UNCHANGED <<files, tracenum, op>> => Live' = Live
  BY DEF Live, trace, LiveAfter
<1>b. NoBlocks \in [DOMAIN Low -> Int \cup {Null}]
  BY DEF NoBlocks
<1>1. ASSUME UNCHANGED blocks, phase' \notin {"mm_init", "mm_valid"} PROVE RangeInv'
  BY <1>n, <1>1 DEF RangeInv
<1>2. CASE UNCHANGED vars
  <2>1. UNCHANGED <<files, tracenum, op, phase, brk, ranges, blocks, block_sizes>>
    BY <1>2 DEF vars, driverVars
  <2>2. Live' = Live /\ \A i : Record(i)' = Record(i) /\ (Checked(i)' <=> Checked(i))
    BY <1>t, <2>1 DEF Record, Checked
  <2> QED BY <1>n, <2>1, <2>2 DEF RangeInv
<1>3. CASE options
  <2>1. UNCHANGED blocks /\ phase' \in {"exited", "libc_next", "mm_next"}
    BY <1>3 DEF options, Exit, Go, traceVars
  <2> QED BY <1>1, <2>1
<1>4. CASE read_trace
  <2>1. blocks' = NoBlocks /\ op' = 0 /\ phase' \in {"exited", "libc_valid", "mm_init"}
    BY <1>4 DEF read_trace, Exit, Go
  <2> QED BY <1>b, <2>1 DEF RangeInv
<1>5. CASE loop_end
  <2>1. UNCHANGED blocks /\ phase' \in {"exited", "mm_next"}
    BY <1>5 DEF loop_end, Exit, Go, traceVars
  <2> QED BY <1>1, <2>1
<1>6. CASE StartFsecs \/ Timer \/ EndFsecs \/ eval_mm_speed \/ eval_libc_speed
  <2>1. UNCHANGED blocks /\ phase' \notin {"mm_init", "mm_valid"}
    BY <1>6, TimerSteps DEF traceVars
  <2> QED BY <1>1, <2>1
<1>7. CASE mm_init
  <2>1. /\ phase = "mm_init" /\ ranges' = {} /\ UNCHANGED <<files, tracenum, op, blocks>>
        /\ phase' \in {"mm_valid", "mm_next"}
    BY <1>7 DEF mm_init, Go, Reject, mainVars, clear_ranges
  <2>2. op = 0 /\ Live' = {}
    BY <1>n, <1>t, <2>1, LiveNone DEF Live
  <2> QED BY <1>n, <2>1, <2>2 DEF RangeInv
<1>8. ASSUME phase = "mm_valid", RoundFrame, AnswersNull PROVE RangeInv'
  <2>1. UNCHANGED blocks /\ phase' = "mm_next"
    BY <1>8 DEF AnswersNull, Refuse, Reject, Go
  <2> QED BY <1>1, <2>1
<1>9. CASE mm_malloc
  <2>1. /\ phase = "mm_valid" /\ ~ Done /\ request.type = "ALLOC" /\ RoundFrame
        /\ \/ AnswersNull
           \/ \E lo \in Addresses, top \in {b \in Brks : b >= brk} : MallocTo(lo, top)
    BY <1>9, MallocRound DEF Request
  <2>2. /\ request.index \in DOMAIN Low /\ request.size \in Nat /\ request.index \notin Live
        /\ Live \in SUBSET DOMAIN Low
    BY <1>h, <2>1, RequestOK, RequestLive DEF mmPhases, Live, LiveAfter
  <2>3. ASSUME NEW lo \in Addresses, NEW top \in {b \in Brks : b >= brk}, MallocTo(lo, top)
        PROVE  RangeInv'
    <3>1. lo \in Int /\ top \in Int /\ top >= brk
      BY BrksInHeap DEF Addresses
    <3>2. CASE AssertFails \/ Refuse
      <4>1. UNCHANGED blocks /\ phase' \in {"mm_next", "exited"}
        BY <3>2 DEF AssertFails, Refuse, Reject, Go, Exit
      <4> QED BY <1>1, <4>1
    <3>3. CASE request.size # 0 /\ RangeOK(ranges, lo, request.size, top) /\ Accept(ranges, mem, lo)
      <4>1. /\ blocks' = [blocks EXCEPT ![request.index] = lo] /\ phase' = phase /\ op' = op + 1
            /\ block_sizes' = [block_sizes EXCEPT ![request.index] = request.size]
            /\ ranges' = ranges \cup {<<lo, lo + request.size - 1>>}
        BY <3>3 DEF Accept
      <4>2. Live' = Live \cup {request.index}
        BY <1>h, <2>1, <4>1, LiveNext DEF RoundFrame, mmPhases
      <4>3. brk' = top
        BY <2>3 DEF MallocTo
      <4>4. /\ ranges' = {Record(i)' : i \in Live'}
            /\ \A i \in Live' : Checked(i)'
            /\ \A i, j \in Live' : i # j => blocks'[i] # blocks'[j]
        BY <1>n, <2>1, <2>2, <3>1, <3>3, <4>1, <4>2, <4>3, AcceptKeepsRecords
      <4>5. blocks' \in [DOMAIN Low -> Int \cup {Null}]
        BY <1>n, <3>1, <4>1
      <4> QED BY <2>1, <4>1, <4>4, <4>5 DEF RangeInv
    <3> QED BY <2>3, <3>2, <3>3 DEF MallocTo
  <2> QED BY <1>8, <2>1, <2>3
<1>10. CASE mm_realloc
  <2>1. /\ phase = "mm_valid" /\ ~ Done /\ request.type = "REALLOC" /\ RoundFrame
        /\ \/ AnswersNull
           \/ \E lo \in Addresses, top \in {b \in Brks : b >= brk}, kept \in BOOLEAN :
                ReallocTo(lo, top, kept)
    BY <1>10, ReallocRound DEF Request
  <2>2. /\ request.index \in DOMAIN Low /\ request.size \in Nat /\ request.index \in Live
        /\ Live \in SUBSET DOMAIN Low
    BY <1>h, <2>1, RequestOK, RequestLive DEF mmPhases, Live, LiveAfter
  <2> DEFINE I == Live \ {request.index}
  <2>4. Others = {Record(i) : i \in I}
    BY <1>n, <2>1, <2>2, RemoveRecord DEF Others
  <2>3. ASSUME NEW lo \in Addresses, NEW top \in {b \in Brks : b >= brk}, NEW kept \in BOOLEAN,
               ReallocTo(lo, top, kept)
        PROVE  RangeInv'
    <3>1. lo \in Int /\ top \in Int /\ top >= brk
      BY BrksInHeap DEF Addresses
    <3>2. CASE AssertFails \/ Refuse
      <4>1. UNCHANGED blocks /\ phase' \in {"mm_next", "exited"}
        BY <3>2 DEF AssertFails, Refuse, Reject, Go, Exit
      <4> QED BY <1>1, <4>1
    <3>3. CASE /\ request.size # 0 /\ RangeOK(Others, lo, request.size, top)
               /\ Accept(Others, MovedTo(lo, top, kept), lo)
      <4>1. /\ blocks' = [blocks EXCEPT ![request.index] = lo] /\ phase' = phase /\ op' = op + 1
            /\ block_sizes' = [block_sizes EXCEPT ![request.index] = request.size]
            /\ ranges' = Others \cup {<<lo, lo + request.size - 1>>}
        BY <3>3 DEF Accept
      <4>2. Live' = I \cup {request.index} /\ request.index \notin I /\ I \in SUBSET DOMAIN Low
        BY <1>h, <2>1, <2>2, <4>1, LiveNext DEF RoundFrame, mmPhases
      <4>3. brk' = top
        BY <2>3 DEF ReallocTo
      <4>6. (\A i \in I : Checked(i)) /\ \A i, j \in I : i # j => blocks[i] # blocks[j]
        BY <1>n, <2>1
      <4> HIDE DEF I
      <4>4. /\ ranges' = {Record(i)' : i \in Live'}
            /\ \A i \in Live' : Checked(i)'
            /\ \A i, j \in Live' : i # j => blocks'[i] # blocks'[j]
        BY <1>n, <2>1, <2>2, <2>4, <3>1, <3>3, <4>1, <4>2, <4>3, <4>6, AcceptKeepsRecords
      <4>5. blocks' \in [DOMAIN Low -> Int \cup {Null}]
        BY <1>n, <3>1, <4>1
      <4> QED BY <2>1, <4>1, <4>4, <4>5 DEF RangeInv
    <3> QED BY <2>3, <3>2, <3>3 DEF ReallocTo
  <2> QED BY <1>8, <2>1, <2>3
<1>11. CASE mm_free
  <2>1. /\ phase = "mm_valid" /\ ~ Done /\ request.type = "FREE" /\ phase' = phase /\ op' = op + 1
        /\ ranges' = remove_range(ranges, blocks[request.index])
        /\ UNCHANGED <<mainVars, tracenum, brk, blocks, block_sizes>>
    BY <1>11 DEF mm_free, Request, heapVars
  <2>2. request.index \in Live /\ Live \in SUBSET DOMAIN Low /\ Live' = Live \ {request.index}
    BY <1>h, <2>1, RequestLive, LiveNext DEF mmPhases, Live, LiveAfter
  <2>3. ranges' = {Record(i) : i \in Live \ {request.index}}
    BY <1>n, <2>1, <2>2, RemoveRecord
  <2>4. \A i : Record(i)' = Record(i) /\ (Checked(i)' <=> Checked(i))
    BY <2>1 DEF Record, Checked
  <2> QED BY <1>n, <2>1, <2>2, <2>3, <2>4 DEF RangeInv
<1>12. CASE IsValid \/ eval_libc_valid \/ eval_mm_util \/ util_end
  <2>1. UNCHANGED blocks /\ phase' \notin {"mm_init", "mm_valid"}
    BY <1>12 DEF IsValid, eval_libc_valid, eval_mm_util, util_end, Go, Exit, traceVars
  <2> QED BY <1>1, <2>1
<1>13. CASE util_init
  <2>1. blocks' = NoBlocks /\ phase' \in {"mm_util", "exited"}
    BY <1>13 DEF util_init, Go, Exit
  <2> QED BY <1>b, <2>1 DEF RangeInv
<1> QED BY <1>h, <1>2, <1>3, <1>4, <1>5, <1>6, <1>7, <1>9, <1>10, <1>11, <1>12, <1>13 DEF Next

\* For any allocator, on any consistent trace: the records of the driver are
\* the payloads of the live blocks, which begin in different places, are
\* aligned and lie in the heap.
THEOREM RecordsAreBlocks == FilesConsistent => (Spec => []RangesAreBlocks)
<1>1. Init => ReplayInv /\ RangeInv
  <2>1. Init => blocks = NoBlocks /\ phase = "start"
    BY DEF Init
  <2> QED BY <2>1, ReplayInit DEF RangeInv, NoBlocks
<1>2. RangeInv => RangesAreBlocks
  <2> SUFFICES ASSUME RangeInv, phase = "mm_valid"
               PROVE  /\ ranges = {<<blocks[i], blocks[i] + block_sizes[i] - 1>> : i \in Live}
                      /\ Cardinality(ranges) = Cardinality(Live)
                      /\ \A r \in ranges : IsAligned(r[1]) /\ InHeap(r[1], r[2] - r[1] + 1, brk)
    BY DEF RangesAreBlocks
  <2>1. /\ ranges = {Record(i) : i \in Live} /\ \A i \in Live : Checked(i)
        /\ \A i, j \in Live : i # j => blocks[i] # blocks[j]
    BY DEF RangeInv
  <2>2. ranges = {<<blocks[i], blocks[i] + block_sizes[i] - 1>> : i \in Live}
    BY <2>1 DEF Record
  <2>3. Cardinality(ranges) = Cardinality(Live)
    <3>1. IsFiniteSet(Live)
      BY DriverAssumption, FS_Subset DEF Live, LiveAfter
    <3> DEFINE f == [i \in Live |-> Record(i)]
    <3>2. f \in Bijection(Live, ranges)
      <4>1. f \in [Live -> ranges] /\ \A r \in ranges : \E i \in Live : f[i] = r
        BY <2>1
      <4>2. \A i, j \in Live : f[i] = f[j] => i = j
        BY <2>1 DEF Record
      <4> HIDE DEF f
      <4>3. f \in Injection(Live, ranges)
        BY <4>1, <4>2 DEF Injection, IsInjective
      <4> QED BY <4>1, <4>3 DEF Bijection, Surjection
    <3> QED BY <3>1, <3>2, FS_Bijection DEF ExistsBijection
  <2>4. ASSUME NEW r \in ranges PROVE IsAligned(r[1]) /\ InHeap(r[1], r[2] - r[1] + 1, brk)
    <3>1. PICK i \in Live : r = Record(i)
      BY <2>1
    <3>2. Checked(i)
      BY <2>1
    <3>3. r[1] = blocks[i] /\ r[2] = blocks[i] + block_sizes[i] - 1
      BY <3>1 DEF Record
    <3>4. r[2] - r[1] + 1 = block_sizes[i]
      BY <3>2, <3>3 DEF Checked
    <3> QED BY <3>2, <3>3, <3>4 DEF Checked, InHeap
  <2> QED BY <2>2, <2>3, <2>4
<1> SUFFICES ASSUME FilesConsistent PROVE Spec => []RangesAreBlocks
  OBVIOUS
<1>3. ReplayInv /\ RangeInv /\ [Next]_vars => (ReplayInv /\ RangeInv)'
  BY ReplayKept, RangesKept
<1> QED BY <1>1, <1>2, <1>3, PTL DEF Spec

-----------------------------------------------------------------------------
(* The verdicts are right *)

Bytes(i) == Payload(blocks[i], block_sizes[i])
OnlyMeets(F) == F = {} \/ ("meets" \in F /\ F \subseteq {"meets", "lost"})
HoldsData(I) == /\ \A i, j \in I : i # j => Bytes(i) \cap Bytes(j) = {}
                /\ \A i \in I : \A a \in Bytes(i) : mem[a] = Low[i]

\* VerdictIsRight, with the two verdicts apart.
VerdictInv == Judged => /\ valid[tracenum] = TRUE => OnlyMeets(faults)
                        /\ valid[tracenum] = FALSE => faults # {} \/ Misread

\* What the driver has let pass so far, and what the blocks hold if nothing was
\* wrong; and the last verdict.
JudgeInv == /\ phase = "mm_valid" => OnlyMeets(faults) /\ (faults = {} => HoldsData(Live))
            /\ phase \in {"util_init", "mm_util"} => valid[tracenum] = TRUE
            /\ VerdictInv

\* Two payloads that are not empty meet where their bounds say.
LEMMA PayloadsMeet ==
  ASSUME NEW a \in Int, NEW m \in Nat \ {0}, NEW b \in Int, NEW n \in Nat \ {0}
  PROVE  Payload(a, m) \cap Payload(b, n) # {} <=> a < b + n /\ b < a + m
<1>1. ASSUME a < b + n, b < a + m PROVE \E x \in Int : x \in Payload(a, m) /\ x \in Payload(b, n)
  <2>1. CASE a =< b
    BY <1>1, <2>1 DEF Payload
  <2>2. CASE b < a
    BY <1>1, <2>2 DEF Payload
  <2> QED BY <2>1, <2>2
<1>2. ASSUME NEW x \in Payload(a, m), x \in Payload(b, n) PROVE a < b + n /\ b < a + m
  BY <1>2 DEF Payload
<1> QED BY <1>1, <1>2

Meets(lo, size, j) == Payload(lo, size) \cap Bytes(j) # {}
Encloses(lo, size, j) == lo < blocks[j] /\ blocks[j] + block_sizes[j] < lo + size

\* Which rules an answer breaks, one by one.
LEMMA BrokenIs ==
  ASSUME NEW index, NEW lo, NEW size, NEW top
  PROVE  /\ Broken(index, lo, size, top) \subseteq {"misaligned", "outside", "overlaps", "meets"}
         /\ "misaligned" \in Broken(index, lo, size, top) <=> ~ IsAligned(lo)
         /\ "outside" \in Broken(index, lo, size, top) <=> ~ InHeap(lo, size, top)
         /\ "overlaps" \in Broken(index, lo, size, top)
              <=> \E j \in Live \ {index} : Meets(lo, size, j) /\ ~ Encloses(lo, size, j)
         /\ "meets" \in Broken(index, lo, size, top) <=> \E j \in Live \ {index} : Meets(lo, size, j)
<1> DEFINE others == {j \in Live \ {index} : Meets(lo, size, j)}
           A == IF IsAligned(lo) THEN {} ELSE {"misaligned"}
           B == IF InHeap(lo, size, top) THEN {} ELSE {"outside"}
           C == IF \E j \in others : ~ Encloses(lo, size, j) THEN {"overlaps"} ELSE {}
           D == IF others # {} THEN {"meets"} ELSE {}
<1>1. Broken(index, lo, size, top) = A \cup B \cup C \cup D
  BY DEF Broken, Meets, Encloses, Bytes
<1>2. /\ A = {} \/ A = {"misaligned"}
      /\ B = {} \/ B = {"outside"}
      /\ C = {} \/ C = {"overlaps"}
      /\ D = {} \/ D = {"meets"}
  OBVIOUS
<1>3. /\ A = {"misaligned"} <=> ~ IsAligned(lo)
      /\ B = {"outside"} <=> ~ InHeap(lo, size, top)
  OBVIOUS
<1>4. C = {"overlaps"} <=> \E j \in Live \ {index} : Meets(lo, size, j) /\ ~ Encloses(lo, size, j)
  OBVIOUS
<1>5. D = {"meets"} <=> \E j \in Live \ {index} : Meets(lo, size, j)
  OBVIOUS
<1> HIDE DEF A, B, C, D
<1>6. /\ A \cup B \cup C \cup D \subseteq {"misaligned", "outside", "overlaps", "meets"}
      /\ "misaligned" \in A \cup B \cup C \cup D <=> A = {"misaligned"}
      /\ "outside" \in A \cup B \cup C \cup D <=> B = {"outside"}
      /\ "overlaps" \in A \cup B \cup C \cup D <=> C = {"overlaps"}
      /\ "meets" \in A \cup B \cup C \cup D <=> D = {"meets"}
  BY <1>2
<1> QED BY <1>1, <1>3, <1>4, <1>5, <1>6, Zenon

\* What add_range refuses, it refuses rightly.
LEMMA RefusedIsBroken ==
  ASSUME NEW index, NEW lo \in Int, NEW size \in Nat \ {0}, NEW top \in Int,
         \A i \in Live \ {index} : Checked(i),
         ~ RangeOK({Record(i) : i \in Live \ {index}}, lo, size, top)
  PROVE  Broken(index, lo, size, top) # {}
<1> DEFINE R == {Record(i) : i \in Live \ {index}}
<1>1. CASE ~ IsAligned(lo)
  BY <1>1, BrokenIs
<1>2. CASE ~ InHeap(lo, size, top)
  BY <1>2, BrokenIs
<1>3. CASE Overlaps(R, lo, lo + size - 1)
  <2>1. PICK j \in Live \ {index} :
          \/ lo \in Record(j)[1] .. Record(j)[2]
          \/ lo + size - 1 \in Record(j)[1] .. Record(j)[2]
    BY <1>3 DEF Overlaps
  <2>2. /\ blocks[j] \in Int /\ block_sizes[j] \in Nat \ {0}
        /\ Record(j)[1] = blocks[j] /\ Record(j)[2] = blocks[j] + block_sizes[j] - 1
    BY DEF Checked, Record
  <2>3. lo < blocks[j] + block_sizes[j] /\ blocks[j] < lo + size
    BY <2>1, <2>2
  <2>4. Meets(lo, size, j)
    BY <2>2, <2>3, PayloadsMeet DEF Meets, Bytes
  <2> QED BY <2>4, BrokenIs
<1> QED BY <1>1, <1>2, <1>3 DEF RangeOK

\* What it accepts can only be wrong by enclosing others.
LEMMA AcceptedIsBroken ==
  ASSUME NEW index, NEW lo \in Int, NEW size \in Nat \ {0}, NEW top \in Int,
         \A i \in Live \ {index} : Checked(i),
         RangeOK({Record(i) : i \in Live \ {index}}, lo, size, top)
  PROVE  /\ Broken(index, lo, size, top) \subseteq {"meets"}
         /\ Broken(index, lo, size, top) = {}
              => \A j \in Live \ {index} : Payload(lo, size) \cap Bytes(j) = {}
<1> DEFINE R == {Record(i) : i \in Live \ {index}}
<1>1. IsAligned(lo) /\ InHeap(lo, size, top) /\ ~ Overlaps(R, lo, lo + size - 1)
  BY DEF RangeOK
<1>2. ASSUME NEW j \in Live \ {index}, Meets(lo, size, j) PROVE Encloses(lo, size, j)
  <2>1. /\ blocks[j] \in Int /\ block_sizes[j] \in Nat \ {0}
        /\ Record(j)[1] = blocks[j] /\ Record(j)[2] = blocks[j] + block_sizes[j] - 1
    BY DEF Checked, Record
  <2>2. Record(j) \in R
    OBVIOUS
  <2>3. /\ ~ lo \in Record(j)[1] .. Record(j)[2]
        /\ ~ lo + size - 1 \in Record(j)[1] .. Record(j)[2]
    BY <1>1, <2>2 DEF Overlaps
  <2>4. lo < blocks[j] + block_sizes[j] /\ blocks[j] < lo + size
    BY <1>2, <2>1, PayloadsMeet DEF Meets, Bytes
  <2> QED BY <2>1, <2>3, <2>4 DEF Encloses
<1>3. Broken(index, lo, size, top) \subseteq {"meets"}
  <2> DEFINE B == Broken(index, lo, size, top)
  <2>1. /\ B \subseteq {"misaligned", "outside", "overlaps", "meets"}
        /\ "misaligned" \notin B /\ "outside" \notin B /\ "overlaps" \notin B
    BY <1>1, <1>2, BrokenIs
  <2> HIDE DEF B
  <2>2. B \subseteq {"meets"}
    BY <2>1
  <2> QED BY <2>2 DEF B
<1>4. Broken(index, lo, size, top) = {} => \A j \in Live \ {index} : ~ Meets(lo, size, j)
  BY BrokenIs, Zenon
<1> QED BY <1>3, <1>4 DEF Meets

\* A block is filled; the others lie elsewhere and keep what they hold.
LEMMA AcceptHolds ==
  ASSUME NEW I \in SUBSET DOMAIN Low, NEW index \in DOMAIN Low, index \notin I,
         NEW size \in Nat \ {0}, NEW lo \in Int, NEW top \in 0 .. MaxHeap, InHeap(lo, size, top),
         blocks \in [DOMAIN Low -> Int \cup {Null}], block_sizes \in [DOMAIN Low -> Nat],
         \A i \in I : Checked(i), brk \in 0 .. MaxHeap,
         HoldsData(I), \A j \in I : Payload(lo, size) \cap Bytes(j) = {},
         NEW m, \A i \in I : \A a \in Bytes(i) : m[a] = mem[a],
         mem' = memset(m, lo, size, Low[index]), blocks' = [blocks EXCEPT ![index] = lo],
         block_sizes' = [block_sizes EXCEPT ![index] = size], Live' = I \cup {index}
  PROVE  HoldsData(Live)'
<1>0. MaxHeap \in Nat
  BY DriverAssumption
<1>1. /\ \A i \in I : Bytes(i)' = Bytes(i)
      /\ Bytes(index)' = Payload(lo, size)
  BY DEF Bytes, Payload
<1>2. \A a \in Heap : mem'[a] = IF a \in Payload(lo, size) THEN Low[index] ELSE m[a]
  BY DEF memset
<1>3. \A a \in Payload(lo, size) : a \in Heap
  BY <1>0 DEF Payload, Heap, InHeap
<1>4. \A i \in I : \A a \in Bytes(i) : a \in Heap
  <2> SUFFICES ASSUME NEW i \in I, NEW a \in Bytes(i) PROVE a \in Heap
    OBVIOUS
  <2>1. /\ blocks[i] \in Int /\ block_sizes[i] \in Nat /\ blocks[i] >= 0
        /\ blocks[i] + block_sizes[i] =< brk
    BY DEF Checked
  <2> QED BY <1>0, <2>1 DEF Bytes, Payload, Heap
<1>5. \A i, j \in Live' : i # j => Bytes(i)' \cap Bytes(j)' = {}
  BY <1>1 DEF HoldsData
<1>6. \A a \in Bytes(index)' : mem'[a] = Low[index]
  BY <1>1, <1>2, <1>3
<1>7. ASSUME NEW i \in I, NEW a \in Bytes(i) PROVE mem'[a] = Low[i]
  <2>1. a \in Heap /\ a \notin Payload(lo, size)
    BY <1>4
  <2>2. mem'[a] = m[a] /\ m[a] = mem[a] /\ mem[a] = Low[i]
    BY <1>2, <2>1 DEF HoldsData
  <2> QED BY <2>2
<1>8. \A i \in Live' : \A a \in Bytes(i)' : mem'[a] = Low[i]
  BY <1>1, <1>6, <1>7
<1> QED BY <1>5, <1>8 DEF HoldsData

\* eval_mm_valid looks at the bytes that a reallocation must keep, and rejects
\* it rightly, but for the bytes that are negative chars; it lets a loss pass
\* only if a payload enclosed the block.
LEMMA ReallocJudged ==
  ASSUME ReplayInv, RangeInv, JudgeInv, phase = "mm_valid", request.index \in Live,
         request.size \in Nat \ {0}, NEW lo \in Int, NEW top \in 0 .. MaxHeap, NEW kept \in BOOLEAN,
         RangeOK(Others, lo, request.size, top)
  PROVE  /\ Differs(lo, top, kept) /\ faults = {} /\ Low[request.index] =< CharMax
              => Loses(lo, top, kept)
         /\ ~ Differs(lo, top, kept) /\ Loses(lo, top, kept) => faults # {}
         /\ \A a \in Heap : a \notin Payload(lo, request.size) => MovedTo(lo, top, kept)[a] = mem[a]
<1> DEFINE index == request.index
           old   == blocks[index]
           new   == MovedTo(lo, top, kept)
<1>1. /\ index \in DOMAIN Low /\ Low[index] \in Nat /\ block_sizes[index] \in Nat
      /\ InHeap(lo, request.size, top)
  BY TracesAssumption DEF Live, LiveAfter, ReplayInv, RangeOK
<1>2. Checked(index) /\ old \in Int
  BY DEF RangeInv, Checked
<1>3. Copied \in Nat /\ Copied =< request.size /\ Copied =< block_sizes[index]
  BY <1>1 DEF Copied
<1>4. \A j \in 0 .. Copied - 1 : old + j \in Bytes(index)
  BY <1>1, <1>2, <1>3 DEF Bytes, Payload
<1>5. faults = {} => \A j \in 0 .. Copied - 1 : mem[old + j] = Low[index]
  BY <1>4 DEF JudgeInv, HoldsData
<1>6. Loses(lo, top, kept) <=> \E j \in 0 .. Copied - 1 : new[lo + j] # mem[old + j]
  BY <1>1 DEF Loses
<1>7. Differs(lo, top, kept) <=> \E j \in 0 .. Copied - 1 : ~ (new[lo + j] = Low[index] /\ new[lo + j] =< CharMax)
  BY DEF Differs, Same
<1>8. ASSUME NEW a \in Heap, a \notin Payload(lo, request.size) PROVE new[a] = mem[a]
  <2>1. ~ a \in lo .. lo + Copied - 1
    BY <1>3, <1>8 DEF Payload
  <2>2. new = Moved(old, lo, Copied, kept)
    BY <1>1 DEF MovedTo
  <2> QED BY <1>8, <2>1, <2>2 DEF Moved
<1> HIDE DEF new, old, index
<1>9. Differs(lo, top, kept) /\ faults = {} /\ Low[index] =< CharMax => Loses(lo, top, kept)
  BY <1>5, <1>6, <1>7
<1>10. ~ Differs(lo, top, kept) /\ Loses(lo, top, kept) => faults # {}
  BY <1>5, <1>6, <1>7
<1> QED BY <1>8, <1>9, <1>10 DEF new, index

\* A trace is rejected: a verdict is added.
LEMMA RejectJudged ==
  ASSUME ReplayInv, CountInv, phase \in {"mm_init", "mm_valid"}, Rejects,
         UNCHANGED <<mainVars, tracenum, op>>, faults' # {} \/ Misread
  PROVE  JudgeInv'
<1>1. /\ valid \in Seq(BOOLEAN) /\ Len(valid) = tracenum - 1 /\ tracenum \in Nat
      /\ valid' = Append(valid, FALSE) /\ phase' = "mm_next" /\ tracenum' = tracenum
  BY DEF CountInv, ReplayInv, Rejects
<1>2. valid'[tracenum'] = FALSE
  BY <1>1
<1>3. Misread => Misread'
  BY DEF Misread, Request, Done, request, trace, mainVars
<1>4. ~ valid'[tracenum'] = TRUE
  BY <1>2
<1> QED BY <1>1, <1>2, <1>3, <1>4 DEF JudgeInv, VerdictInv

\* No verdict has been given yet.
LEMMA NotJudged ==
  ASSUME ReplayInv, CountInv, phase \in {"mm_init", "mm_valid"}, UNCHANGED <<valid, tracenum>>
  PROVE  ~ Judged'
<1>1. valid \in Seq(BOOLEAN) /\ Len(valid) = tracenum - 1 /\ tracenum \in Nat
  BY DEF CountInv, ReplayInv
<1>2. Len(valid) # tracenum
  BY <1>1
<1> QED BY <1>2 DEF Judged

\* That the verdict is right is inductive.
LEMMA JudgeKept ==
  FilesConsistent /\ ReplayInv /\ CountInv /\ RangeInv /\ JudgeInv /\ [Next]_vars => JudgeInv'
<1>h. SUFFICES ASSUME FilesConsistent, ReplayInv, CountInv, RangeInv, JudgeInv, [Next]_vars
               PROVE  JudgeInv'
  OBVIOUS
<1>n. /\ phase = "mm_valid" => OnlyMeets(faults) /\ (faults = {} => HoldsData(Live))
      /\ phase \in {"util_init", "mm_util"} => valid[tracenum] = TRUE
      /\ VerdictInv
  BY <1>h DEF JudgeInv
<1>c. /\ tracenum \in Nat /\ valid \in Seq(BOOLEAN)
      /\ phase \in {"start"} \cup libcPhases => Len(valid) = 0
      /\ phase = "start" => tracenum = 0
      /\ phase \in {"mm_next", "mm_speed", "mm_secs"} => Len(valid) = tracenum
      /\ phase \in {"mm_init", "mm_valid"} => Len(valid) = tracenum - 1
      /\ phase \in {"util_init", "mm_util"} => Len(valid) = tracenum
  BY <1>h DEF ReplayInv, CountInv
<1>r. /\ phase = "mm_valid" => /\ ranges = {Record(i) : i \in Live} /\ \A i \in Live : Checked(i)
                               /\ \A i, j \in Live : i # j => blocks[i] # blocks[j]
      /\ blocks \in [DOMAIN Low -> Int \cup {Null}] /\ block_sizes \in [DOMAIN Low -> Nat]
      /\ brk \in 0 .. MaxHeap
  BY <1>h DEF RangeInv, ReplayInv
\* A step after which the last verdict stands as it stood, or there is none.
<1>1. ASSUME UNCHANGED <<files, tracenum, op, valid, faults>>, phase' \notin {"mm_valid", "util_init", "mm_util"}
      PROVE  JudgeInv'
  <2>1. VerdictInv'
    BY <1>n, <1>1 DEF VerdictInv, Judged, Misread, Request, Done, request, trace
  <2> QED BY <1>1, <2>1 DEF JudgeInv
<1>2. ASSUME ~ Judged', phase' \notin {"mm_valid", "util_init", "mm_util"} PROVE JudgeInv'
  BY <1>2 DEF JudgeInv, VerdictInv
<1>3. CASE UNCHANGED vars
  <2>1. UNCHANGED <<files, tracenum, op, valid, faults, phase, mem, blocks, block_sizes>>
    BY <1>3 DEF vars, driverVars
  <2>2. VerdictInv'
    BY <1>n, <2>1 DEF VerdictInv, Judged, Misread, Request, Done, request, trace
  <2>3. HoldsData(Live) => HoldsData(Live)'
    BY <2>1 DEF HoldsData, Bytes, Live, LiveAfter, trace
  <2> QED BY <1>n, <2>1, <2>2, <2>3 DEF JudgeInv
<1>4. CASE options
  <2>1. phase = "start" /\ tracenum' = tracenum /\ phase' \in {"exited", "libc_next", "mm_next"}
    BY <1>4 DEF options, Exit, Go
  <2>2. ~ Judged'
    BY <1>c, <2>1 DEF Judged
  <2> QED BY <1>2, <2>1, <2>2
<1>5. CASE read_trace
  <2>1. /\ phase \in {"libc_next", "mm_next"} /\ tracenum' = tracenum + 1 /\ valid' = valid
        /\ phase' \in {"exited", "libc_valid", "mm_init"}
    BY <1>5 DEF read_trace, Exit, Go, statVars
  <2>2. ~ Judged'
    BY <1>c, <2>1 DEF Judged, libcPhases
  <2> QED BY <1>2, <2>1, <2>2
<1>6. CASE loop_end
  <2>1. /\ UNCHANGED <<files, op, valid, faults>> /\ phase' \in {"exited", "mm_next"}
        /\ tracenum' = 0 \/ tracenum' = tracenum
    BY <1>6 DEF loop_end, Exit, Go, mainVars, traceVars, statVars
  <2>2. CASE tracenum' = 0
    BY <1>2, <2>1, <2>2 DEF Judged
  <2>3. CASE tracenum' = tracenum
    BY <1>1, <2>1, <2>3
  <2> QED BY <2>1, <2>2, <2>3
<1>7. CASE StartFsecs \/ Timer \/ EndFsecs \/ eval_mm_speed \/ eval_libc_speed
  <2>1. UNCHANGED <<files, tracenum, op, valid, faults>> /\ phase' \notin {"mm_valid", "util_init", "mm_util"}
    BY <1>7, TimerSteps DEF mainVars, traceVars, statVars
  <2> QED BY <1>1, <2>1
<1>8. CASE mm_init
  <2>1. /\ phase = "mm_init" /\ UNCHANGED <<mainVars, tracenum, op>>
        /\ \/ phase' = "mm_valid" /\ faults' = {} /\ UNCHANGED statVars
           \/ Rejects /\ faults' = {"init"}
    BY <1>8 DEF mm_init, Go, Reject, Rejects
  <2>2. CASE Rejects /\ faults' = {"init"}
    BY <1>h, <2>1, <2>2, RejectJudged
  <2>3. CASE phase' = "mm_valid" /\ faults' = {} /\ UNCHANGED statVars
    <3>1. ~ Judged'
      BY <1>h, <2>1, <2>3, NotJudged DEF statVars
    <3>2. Live' = {}
      <4>1. op' = 0
        BY <1>h, <2>1 DEF RangeInv
      <4> QED BY <4>1 DEF Live, LiveAfter
    <3> QED BY <2>3, <3>1, <3>2 DEF JudgeInv, VerdictInv, OnlyMeets, HoldsData
  <2> QED BY <2>1, <2>2, <2>3
<1>9. ASSUME phase = "mm_valid", RoundFrame, Refuse, faults' # {} \/ Misread PROVE JudgeInv'
  <2>1. Rejects /\ UNCHANGED <<mainVars, tracenum, op>>
    BY <1>9 DEF Refuse, Reject, Rejects, Go, RoundFrame
  <2> QED BY <1>h, <1>9, <2>1, RejectJudged
<1>10. ASSUME phase = "mm_valid", RoundFrame, AnswersNull PROVE JudgeInv'
  BY <1>9, <1>10 DEF AnswersNull
<1>11. ASSUME phase = "mm_valid", RoundFrame, AssertFails PROVE JudgeInv'
  <2>1. UNCHANGED <<valid, tracenum>> /\ phase' = "exited"
    BY <1>11 DEF AssertFails, Exit, statVars, RoundFrame
  <2>2. ~ Judged'
    BY <1>h, <1>11, <2>1, NotJudged
  <2> QED BY <1>2, <2>1, <2>2
\* A block is taken.
<1>12. ASSUME phase = "mm_valid", RoundFrame, UNCHANGED <<statVars, phase>>, OnlyMeets(faults'),
              faults' = {} => HoldsData(Live)'
       PROVE  JudgeInv'
  <2>1. ~ Judged'
    BY <1>h, <1>12, NotJudged DEF statVars, RoundFrame
  <2> QED BY <1>12, <2>1 DEF JudgeInv, VerdictInv
<1>13. CASE mm_malloc
  <2>1. /\ phase = "mm_valid" /\ ~ Done /\ request.type = "ALLOC" /\ RoundFrame
        /\ \/ AnswersNull
           \/ \E lo \in Addresses, top \in {b \in Brks : b >= brk} : MallocTo(lo, top)
    BY <1>13, MallocRound DEF Request
  <2>2. /\ request.index \in DOMAIN Low /\ request.size \in Nat /\ request.index \notin Live
        /\ Live \in SUBSET DOMAIN Low
    BY <1>h, <2>1, RequestOK, RequestLive DEF mmPhases, Live, LiveAfter
  <2>3. Live \ {request.index} = Live /\ ranges = {Record(i) : i \in Live} /\ \A i \in Live : Checked(i)
    BY <1>r, <2>1, <2>2
  <2>4. ASSUME NEW lo \in Addresses, NEW top \in {b \in Brks : b >= brk}, MallocTo(lo, top)
        PROVE  JudgeInv'
    <3>1. lo \in Int /\ top \in Int /\ top \in 0 .. MaxHeap /\ top >= brk
      BY BrksInHeap DEF Addresses
    <3> DEFINE B == Broken(request.index, lo, request.size, top)
    <3>2. faults' = faults \cup B
      BY <2>4 DEF MallocTo
    <3>3. CASE AssertFails
      BY <1>11, <2>1, <3>3
    <3>4. CASE request.size # 0 /\ ~ RangeOK(ranges, lo, request.size, top) /\ Refuse
      <4>1. B # {}
        BY <2>2, <2>3, <3>1, <3>4, RefusedIsBroken
      <4>2. faults' # {}
        BY <3>2, <4>1
      <4> QED BY <1>9, <2>1, <3>4, <4>2
    <3>5. CASE request.size # 0 /\ RangeOK(ranges, lo, request.size, top) /\ Accept(ranges, mem, lo)
      <4>1. /\ B \subseteq {"meets"}
            /\ B = {} => \A j \in Live : Payload(lo, request.size) \cap Bytes(j) = {}
        BY <2>2, <2>3, <3>1, <3>5, AcceptedIsBroken
      <4>2. /\ blocks' = [blocks EXCEPT ![request.index] = lo] /\ op' = op + 1
            /\ block_sizes' = [block_sizes EXCEPT ![request.index] = request.size]
            /\ mem' = memset(mem, lo, request.size, Low[request.index]) /\ UNCHANGED <<statVars, phase>>
        BY <3>5 DEF Accept
      <4>3. Live' = Live \cup {request.index}
        BY <1>h, <2>1, <4>2, LiveNext DEF RoundFrame, mmPhases
      <4> HIDE DEF B
      <4>4. OnlyMeets(faults')
        BY <1>n, <2>1, <3>2, <4>1 DEF OnlyMeets
      <4>5. ASSUME faults' = {} PROVE HoldsData(Live)'
        <5>1. HoldsData(Live) /\ \A j \in Live : Payload(lo, request.size) \cap Bytes(j) = {}
          BY <1>n, <2>1, <3>2, <4>1, <4>5
        <5>2. InHeap(lo, request.size, top) /\ request.size \in Nat \ {0}
          BY <2>2, <3>5 DEF RangeOK
        <5> QED BY <1>r, <2>2, <2>3, <3>1, <4>2, <4>3, <5>1, <5>2, AcceptHolds
      <4> QED BY <1>12, <2>1, <4>2, <4>4, <4>5
    <3> QED BY <2>4, <3>3, <3>4, <3>5 DEF MallocTo
  <2> QED BY <1>10, <2>1, <2>4
<1>14. CASE mm_realloc
  <2>1. /\ phase = "mm_valid" /\ ~ Done /\ request.type = "REALLOC" /\ RoundFrame
        /\ \/ AnswersNull
           \/ \E lo \in Addresses, top \in {b \in Brks : b >= brk}, kept \in BOOLEAN :
                ReallocTo(lo, top, kept)
    BY <1>14, ReallocRound DEF Request
  <2>2. /\ request.index \in DOMAIN Low /\ request.size \in Nat /\ request.index \in Live
        /\ Live \in SUBSET DOMAIN Low
    BY <1>h, <2>1, RequestOK, RequestLive DEF mmPhases, Live, LiveAfter
  <2> DEFINE I == Live \ {request.index}
  <2>3. /\ Others = {Record(i) : i \in I} /\ \A i \in I : Checked(i)
        /\ request.index \notin I /\ I \in SUBSET DOMAIN Low
    BY <1>r, <2>1, <2>2, RemoveRecord DEF Others
  <2>4. ASSUME NEW lo \in Addresses, NEW top \in {b \in Brks : b >= brk}, NEW kept \in BOOLEAN,
               ReallocTo(lo, top, kept)
        PROVE  JudgeInv'
    <3>1. lo \in Int /\ top \in Int /\ top \in 0 .. MaxHeap /\ top >= brk
      BY BrksInHeap DEF Addresses
    <3> DEFINE B == Broken(request.index, lo, request.size, top)
               L == IF Loses(lo, top, kept) THEN {"lost"} ELSE {}
    <3>2. faults' = faults \cup B \cup L
      BY <2>4 DEF ReallocTo
    <3>3. CASE AssertFails
      BY <1>11, <2>1, <3>3
    <3>4. CASE request.size # 0 /\ ~ RangeOK(Others, lo, request.size, top) /\ Refuse
      <4>1. B # {}
        BY <2>2, <2>3, <3>1, <3>4, RefusedIsBroken
      <4>2. faults' # {}
        BY <3>2, <4>1
      <4> QED BY <1>9, <2>1, <3>4, <4>2
    <3>5. CASE request.size # 0 /\ RangeOK(Others, lo, request.size, top)
      <4>0. request.size \in Nat \ {0}
        BY <2>2, <3>5
      <4>1. /\ Differs(lo, top, kept) /\ faults = {} /\ Low[request.index] =< CharMax
                 => Loses(lo, top, kept)
            /\ ~ Differs(lo, top, kept) /\ Loses(lo, top, kept) => faults # {}
            /\ \A a \in Heap : a \notin Payload(lo, request.size)
                                 => MovedTo(lo, top, kept)[a] = mem[a]
        BY <1>h, <2>1, <2>2, <3>1, <3>5, <4>0, ReallocJudged
      <4>2. CASE Differs(lo, top, kept) /\ Refuse
        <5>1. faults' # {} \/ Low[request.index] > CharMax
          <6>1. Low[request.index] \in Nat /\ CharMax \in Nat
            BY <2>2, TracesAssumption, DriverAssumption
          <6> QED BY <3>2, <4>1, <4>2, <6>1
        <5>2. Low[request.index] > CharMax => Misread
          BY <2>1 DEF Misread, Request
        <5> QED BY <1>9, <2>1, <4>2, <5>1, <5>2
      <4>3. CASE ~ Differs(lo, top, kept) /\ Accept(Others, MovedTo(lo, top, kept), lo)
        <5> DEFINE m == MovedTo(lo, top, kept)
        <5>1. /\ B \subseteq {"meets"}
              /\ B = {} => \A j \in I : Payload(lo, request.size) \cap Bytes(j) = {}
          BY <2>2, <2>3, <3>1, <3>5, <4>0, AcceptedIsBroken
        <5>2. /\ blocks' = [blocks EXCEPT ![request.index] = lo] /\ op' = op + 1
              /\ block_sizes' = [block_sizes EXCEPT ![request.index] = request.size]
              /\ mem' = memset(m, lo, request.size, Low[request.index]) /\ UNCHANGED <<statVars, phase>>
          BY <4>3 DEF Accept
        <5>3. Live' = I \cup {request.index}
          BY <1>h, <2>1, <2>2, <5>2, LiveNext DEF RoundFrame, mmPhases
        <5>4. L # {} => faults # {}
          BY <4>1, <4>3
        <5>5. L \subseteq {"lost"}
          OBVIOUS
        <5> HIDE DEF B, L, I, m
        <5>6. OnlyMeets(faults')
          BY <1>n, <2>1, <3>2, <5>1, <5>4, <5>5 DEF OnlyMeets
        <5>7. ASSUME faults' = {} PROVE HoldsData(Live)'
          <6>1. HoldsData(Live) /\ \A j \in I : Payload(lo, request.size) \cap Bytes(j) = {}
            BY <1>n, <2>1, <3>2, <5>1, <5>7
          <6>2. InHeap(lo, request.size, top)
            BY <3>5 DEF RangeOK
          <6>3. HoldsData(I)
            BY <6>1 DEF HoldsData, I
          <6>4. \A i \in I : \A a \in Bytes(i) : m[a] = mem[a]
            <7> SUFFICES ASSUME NEW i \in I, NEW a \in Bytes(i) PROVE m[a] = mem[a]
              OBVIOUS
            <7>1. a \notin Payload(lo, request.size)
              BY <6>1
            <7>2. a \in Heap
              <8>1. /\ blocks[i] \in Int /\ block_sizes[i] \in Nat /\ blocks[i] >= 0
                    /\ blocks[i] + block_sizes[i] =< brk /\ brk =< MaxHeap /\ MaxHeap \in Nat /\ brk \in Nat
                BY <1>r, <2>3, BrksInHeap DEF Checked
              <8> QED BY <8>1 DEF Bytes, Payload, Heap
            <7> QED BY <4>1, <7>1, <7>2 DEF m
          <6> QED BY <1>r, <2>2, <2>3, <3>1, <4>0, <5>2, <5>3, <6>1, <6>2, <6>3, <6>4, AcceptHolds
        <5> QED BY <1>12, <2>1, <5>2, <5>6, <5>7
      <4> QED BY <2>4, <3>3, <3>4, <3>5, <4>2, <4>3 DEF ReallocTo
    <3> QED BY <2>4, <3>3, <3>4, <3>5 DEF ReallocTo
  <2> QED BY <1>10, <2>1, <2>4
<1>15. CASE mm_free
  <2>1. /\ phase = "mm_valid" /\ ~ Done /\ request.type = "FREE" /\ op' = op + 1 /\ RoundFrame
        /\ UNCHANGED <<mainVars, tracenum, statVars, phase, mem, blocks, block_sizes, faults>>
    BY <1>15 DEF mm_free, Request, heapVars, RoundFrame
  <2>2. Live' = Live \ {request.index}
    BY <1>h, <2>1, LiveNext DEF mmPhases
  <2>3. HoldsData(Live) => HoldsData(Live)'
    BY <2>1, <2>2 DEF HoldsData, Bytes
  <2> QED BY <1>n, <1>12, <2>1, <2>3
<1>16. CASE IsValid
  <2>1. /\ phase = "mm_valid" /\ phase' = "util_init" /\ valid' = Append(valid, TRUE)
        /\ tracenum' = tracenum /\ faults' = faults
    BY <1>16 DEF IsValid, Go, traceVars
  <2>2. valid'[tracenum'] = TRUE
    BY <1>c, <2>1
  <2>3. ~ valid'[tracenum'] = FALSE
    BY <2>2
  <2>4. OnlyMeets(faults')
    BY <1>n, <2>1
  <2> QED BY <2>1, <2>2, <2>3, <2>4 DEF JudgeInv, VerdictInv
<1>17. CASE eval_libc_valid \/ util_end
  <2>1. UNCHANGED <<files, tracenum, op, valid, faults>> /\ phase' \notin {"mm_valid", "util_init", "mm_util"}
    BY <1>17 DEF eval_libc_valid, util_end, Go, Exit, mainVars, traceVars
  <2> QED BY <1>1, <2>1
<1>18. CASE util_init \/ eval_mm_util
  <2>1. /\ phase \in {"util_init", "mm_util"} /\ phase' # "mm_valid"
        /\ UNCHANGED <<tracenum, valid, faults>>
    BY <1>18 DEF util_init, eval_mm_util, Go, Exit, statVars
  <2>2. valid[tracenum] = TRUE /\ ~ valid[tracenum] = FALSE /\ Judged' = Judged
    BY <1>n, <2>1 DEF Judged
  <2>3. Judged => OnlyMeets(faults)
    BY <1>n, <2>2 DEF VerdictInv
  <2> QED BY <2>1, <2>2, <2>3 DEF JudgeInv, VerdictInv
<1> QED BY <1>h, <1>3, <1>4, <1>5, <1>6, <1>7, <1>8, <1>13, <1>14, <1>15, <1>16, <1>17, <1>18 DEF Next

\* For any allocator, on any consistent trace: the trace is rejected only if the
\* allocator has broken a promise, or for a byte that a char cannot show; and
\* it passes only if none is broken, but for a payload that encloses another.
THEOREM VerdictsAreRight == FilesConsistent => (Spec => []VerdictIsRight)
<1>1. Init => ReplayInv /\ CountInv /\ RangeInv /\ JudgeInv
  <2>1. Init => phase = "start" /\ tracenum = 0 /\ blocks = NoBlocks
    BY DEF Init
  <2>2. Init => RangeInv
    BY <2>1 DEF RangeInv, NoBlocks
  <2>3. Init => JudgeInv
    BY <2>1 DEF JudgeInv, VerdictInv, Judged
  <2> QED BY <2>2, <2>3, ReplayInit, CountInit
<1>2. CountInv /\ JudgeInv => VerdictIsRight
  <2> SUFFICES ASSUME CountInv, VerdictInv, Judged
               PROVE  IF valid[tracenum]
                      THEN faults = {} \/ ("meets" \in faults /\ faults \subseteq {"meets", "lost"})
                      ELSE faults # {} \/ Misread
    BY DEF JudgeInv, VerdictIsRight
  <2>1. valid[tracenum] \in BOOLEAN
    BY DEF CountInv, Judged
  <2>2. CASE valid[tracenum] = TRUE
    BY <2>2 DEF VerdictInv, OnlyMeets
  <2>3. CASE valid[tracenum] = FALSE
    BY <2>3 DEF VerdictInv
  <2> QED BY <2>1, <2>2, <2>3
<1> SUFFICES ASSUME FilesConsistent PROVE Spec => []VerdictIsRight
  OBVIOUS
<1> DEFINE Inv == ReplayInv /\ CountInv /\ RangeInv /\ JudgeInv
<1>3. Inv /\ [Next]_vars => Inv'
  BY ReplayKept, CountKept, RangesKept, JudgeKept
<1>4. Inv => VerdictIsRight
  BY <1>2
<1>5. Init => Inv
  BY <1>1
<1> HIDE DEF Inv
<1> QED BY <1>3, <1>4, <1>5, PTL DEF Spec

-----------------------------------------------------------------------------
(* The high-water mark is the most that was live *)

\* The function that SizeOfLive adds up with.
Sums(f, s) == f = [I \in SUBSET DOMAIN Low |->
                     IF I = {} THEN 0
                     ELSE LET i == CHOOSE i \in I : TRUE IN s[i] + f[I \ {i}]]
SumOf(s) == CHOOSE f : Sums(f, s)

\* The sets of blocks are finite; one block fewer is one fewer.
LEMMA Counting ==
  ASSUME NEW I \in SUBSET DOMAIN Low
  PROVE  /\ IsFiniteSet(I) /\ Cardinality(I) \in Nat /\ (Cardinality(I) = 0 <=> I = {})
         /\ \A i \in I : Cardinality(I \ {i}) = Cardinality(I) - 1
<1>1. IsFiniteSet(I)
  BY DriverAssumption, FS_Subset
<1> QED BY <1>1, FS_CardinalityType, FS_EmptySet, FS_RemoveElement

\* A set of sets of blocks has a smallest member.
LEMMA Smallest ==
  ASSUME NEW P, P \subseteq SUBSET DOMAIN Low, P # {}
  PROVE  \E I \in P : \A J \in P : Cardinality(I) =< Cardinality(J)
<1>1. PICK C : C = {Cardinality(I) : I \in P}
  OBVIOUS
<1>2. C \subseteq Nat /\ C # {}
  BY <1>1, Counting
<1>3. PICK c \in C : \A d \in C : c =< d
  BY <1>2, Least
<1> QED BY <1>1, <1>3

\* The sets of at most n blocks, and a function that adds up the sizes of those.
Small(n) == {I \in SUBSET DOMAIN Low : Cardinality(I) =< n}
Next1(I) == CHOOSE i \in I : TRUE
PartialSums(f, s, n) ==
  /\ f \in [Small(n) -> Nat]
  /\ \A I \in Small(n) : f[I] = IF I = {} THEN 0 ELSE s[Next1(I)] + f[I \ {Next1(I)}]

\* The blocks of any set can be added up.
LEMMA SumExists == ASSUME NEW s \in [DOMAIN Low -> Nat] PROVE \E f : Sums(f, s)
<1> DEFINE Good(n) == \E f : PartialSums(f, s, n)
           bad == {n \in Nat : ~ Good(n)}
<1>1. \A I \in SUBSET DOMAIN Low : I # {} => Next1(I) \in I
  BY DEF Next1
<1>2. Good(0)
  <2>1. PICK f : f = [I \in Small(0) |-> 0]
    OBVIOUS
  <2>2. \A I \in Small(0) : I = {}
    BY Counting DEF Small
  <2>3. PartialSums(f, s, 0)
    BY <2>1, <2>2 DEF PartialSums
  <2> QED BY <2>3
<1>3. ASSUME NEW n \in Nat \ {0}, Good(n - 1) PROVE Good(n)
  <2>1. PICK f : PartialSums(f, s, n - 1)
    BY <1>3
  <2>2. /\ f \in [Small(n - 1) -> Nat]
        /\ \A I \in Small(n - 1) : f[I] = IF I = {} THEN 0 ELSE s[Next1(I)] + f[I \ {Next1(I)}]
    BY <2>1 DEF PartialSums
  <2>3. Small(n - 1) \subseteq Small(n) /\ \A I \in Small(n) : \A i \in I : I \ {i} \in Small(n - 1)
    BY Counting DEF Small
  <2>4. \A I \in Small(n) : I \in SUBSET DOMAIN Low
    BY DEF Small
  <2>5. PICK g : g = [I \in Small(n) |-> IF I = {} THEN 0 ELSE s[Next1(I)] + f[I \ {Next1(I)}]]
    OBVIOUS
  <2>6. \A I \in Small(n) : I # {} => /\ Next1(I) \in I /\ I \ {Next1(I)} \in Small(n - 1)
                                      /\ s[Next1(I)] \in Nat /\ f[I \ {Next1(I)}] \in Nat
    BY <1>1, <2>2, <2>3, <2>4
  <2>7. g \in [Small(n) -> Nat]
    <3>1. \A I \in Small(n) : (IF I = {} THEN 0 ELSE s[Next1(I)] + f[I \ {Next1(I)}]) \in Nat
      <4> SUFFICES ASSUME NEW I \in Small(n), I # {} PROVE s[Next1(I)] + f[I \ {Next1(I)}] \in Nat
        OBVIOUS
      <4>1. PICK a, b : a = s[Next1(I)] /\ b = f[I \ {Next1(I)}]
        OBVIOUS
      <4>2. a \in Nat /\ b \in Nat
        BY <2>6, <4>1
      <4>3. a + b \in Nat
        BY <4>2
      <4> QED BY <4>1, <4>3
    <3> QED BY <2>5, <3>1
  <2>8. \A I \in Small(n - 1) : g[I] = f[I]
    BY <2>2, <2>3, <2>5
  <2>9. \A I \in Small(n) : g[I] = IF I = {} THEN 0 ELSE s[Next1(I)] + g[I \ {Next1(I)}]
    BY <2>5, <2>6, <2>8
  <2>10. PartialSums(g, s, n)
    BY <2>7, <2>9 DEF PartialSums
  <2> QED BY <2>10
<1>4. bad = {}
  <2> SUFFICES ASSUME bad # {} PROVE FALSE
    OBVIOUS
  <2>1. PICK n \in bad : \A k \in bad : n =< k
    <3>1. bad \subseteq Nat
      OBVIOUS
    <3> HIDE DEF bad
    <3> QED BY <3>1, Least
  <2>2. n # 0
    <3> HIDE DEF Good
    <3> QED BY <1>2, <2>1
  <2>3. n - 1 \in Nat /\ n - 1 \notin bad
    <3>1. n \in Nat /\ n - 1 \in Nat /\ ~ n =< n - 1
      BY <2>1, <2>2
    <3> HIDE DEF bad
    <3> QED BY <2>1, <3>1
  <2> HIDE DEF Good
  <2>4. Good(n - 1) /\ ~ Good(n) /\ n \in Nat \ {0}
    BY <2>1, <2>2, <2>3
  <2> QED BY <1>3, <2>4
<1>5. PICK K : K = Cardinality(DOMAIN Low)
  OBVIOUS
<1>6. K \in Nat /\ Small(K) = SUBSET DOMAIN Low
  <2>1. IsFiniteSet(DOMAIN Low)
    BY DriverAssumption
  <2>2. \A I \in SUBSET DOMAIN Low : Cardinality(I) =< K
    BY <1>5, <2>1, FS_Subset
  <2>3. K \in Nat
    BY <1>5, <2>1, FS_CardinalityType
  <2> QED BY <2>2, <2>3 DEF Small
<1>7. PICK f : PartialSums(f, s, K)
  BY <1>4, <1>6
<1>8. Sums(f, s)
  <2>1. f \in [SUBSET DOMAIN Low -> Nat]
    BY <1>6, <1>7 DEF PartialSums
  <2>2. \A I \in SUBSET DOMAIN Low : f[I] = IF I = {} THEN 0
                                            ELSE LET i == CHOOSE i \in I : TRUE IN s[i] + f[I \ {i}]
    BY <1>6, <1>7 DEF PartialSums, Next1
  <2>3. f = [I \in SUBSET DOMAIN Low |-> f[I]]
    BY <2>1
  <2> QED BY <2>2, <2>3 DEF Sums
<1> QED BY <1>8

\* The sum over a set is a number, and any of its blocks can be added last.
LEMMA SumIs ==
  ASSUME NEW s \in [DOMAIN Low -> Nat]
  PROVE  /\ SumOf(s)[{}] = 0
         /\ \A I \in SUBSET DOMAIN Low : /\ SumOf(s)[I] \in Nat
                                         /\ \A i \in I : SumOf(s)[I] = s[i] + SumOf(s)[I \ {i}]
<1>1. PICK f : f = SumOf(s)
  OBVIOUS
<1>2. Sums(f, s)
  BY <1>1, SumExists DEF SumOf
<1>3. \A I \in SUBSET DOMAIN Low : f[I] = IF I = {} THEN 0 ELSE s[Next1(I)] + f[I \ {Next1(I)}]
  <2>1. \A I \in SUBSET DOMAIN Low : f[I] = IF I = {} THEN 0
                                            ELSE LET i == CHOOSE i \in I : TRUE IN s[i] + f[I \ {i}]
    BY <1>2 DEF Sums
  <2> QED BY <2>1 DEF Next1
<1>4. \A I \in SUBSET DOMAIN Low : I # {} => Next1(I) \in I
  BY DEF Next1
<1>5. f[{}] = 0
  BY <1>3
<1>6. \A I \in SUBSET DOMAIN Low : f[I] \in Nat
  <2>1. PICK P : P = {I \in SUBSET DOMAIN Low : f[I] \notin Nat}
    OBVIOUS
  <2> SUFFICES ASSUME P # {} PROVE FALSE
    BY <2>1
  <2>2. PICK I \in P : \A J \in P : Cardinality(I) =< Cardinality(J)
    BY <2>1, Smallest
  <2>3. I \in SUBSET DOMAIN Low /\ I # {} /\ Next1(I) \in I
    <3>1. I \in SUBSET DOMAIN Low /\ f[I] \notin Nat
      BY <2>1, <2>2
    <3>2. I # {}
      BY <1>5, <3>1
    <3> QED BY <1>4, <3>1, <3>2
  <2>4. I \ {Next1(I)} \notin P
    <3>1. Cardinality(I \ {Next1(I)}) = Cardinality(I) - 1 /\ Cardinality(I) \in Nat
      BY <2>3, Counting
    <3> QED BY <2>2, <3>1
  <2>5. PICK a, b : a = s[Next1(I)] /\ b = f[I \ {Next1(I)}]
    OBVIOUS
  <2>6. a \in Nat /\ b \in Nat
    <3>1. I \ {Next1(I)} \in SUBSET DOMAIN Low /\ Next1(I) \in DOMAIN Low
      BY <2>3
    <3> QED BY <2>1, <2>4, <2>5, <3>1
  <2>7. f[I] = a + b
    BY <1>3, <2>3, <2>5
  <2>8. f[I] \notin Nat
    BY <2>1, <2>2
  <2> QED BY <2>6, <2>7, <2>8
<1>7. \A I \in SUBSET DOMAIN Low : \A i \in I : f[I] = s[i] + f[I \ {i}]
  <2>1. PICK P : P = {I \in SUBSET DOMAIN Low : \E i \in I : f[I] # s[i] + f[I \ {i}]}
    OBVIOUS
  <2> SUFFICES ASSUME P # {} PROVE FALSE
    BY <2>1
  <2>2. PICK I \in P : \A J \in P : Cardinality(I) =< Cardinality(J)
    BY <2>1, Smallest
  <2>3. PICK i \in I : f[I] # s[i] + f[I \ {i}]
    BY <2>1, <2>2
  <2>4. PICK c : c = Next1(I)
    OBVIOUS
  <2>5. I \in SUBSET DOMAIN Low /\ I # {} /\ c \in I /\ f[I] = s[c] + f[I \ {c}]
    BY <1>3, <1>4, <2>1, <2>2, <2>3, <2>4
  <2>6. c # i
    BY <2>3, <2>5
  <2>7. \A x \in I : I \ {x} \in SUBSET DOMAIN Low /\ I \ {x} \notin P
    <3> SUFFICES ASSUME NEW x \in I PROVE I \ {x} \in SUBSET DOMAIN Low /\ I \ {x} \notin P
      OBVIOUS
    <3>1. Cardinality(I \ {x}) = Cardinality(I) - 1 /\ Cardinality(I) \in Nat
      BY <2>5, Counting
    <3> QED BY <2>2, <2>5, <3>1
  <2>8. f[I \ {c}] = s[i] + f[(I \ {c}) \ {i}]
    BY <2>1, <2>5, <2>6, <2>7
  <2>9. f[I \ {i}] = s[c] + f[(I \ {i}) \ {c}]
    BY <2>1, <2>5, <2>6, <2>7
  <2>10. (I \ {c}) \ {i} = (I \ {i}) \ {c}
    OBVIOUS
  <2>11. PICK a, b, d : a = s[i] /\ b = s[c] /\ d = f[(I \ {i}) \ {c}]
    OBVIOUS
  <2>12. a \in Nat /\ b \in Nat /\ d \in Nat
    <3>1. i \in DOMAIN Low /\ c \in DOMAIN Low /\ (I \ {i}) \ {c} \in SUBSET DOMAIN Low
      BY <2>3, <2>5
    <3> QED BY <1>6, <2>11, <3>1
  <2>13. f[I] = b + (a + d) /\ f[I \ {i}] = b + d
    BY <2>5, <2>8, <2>9, <2>10, <2>11
  <2>14. f[I] = a + f[I \ {i}]
    BY <2>12, <2>13
  <2> QED BY <2>3, <2>11, <2>14
<1> QED BY <1>1, <1>5, <1>6, <1>7

\* The sum depends on the sizes of its blocks only.
LEMMA SumSame ==
  ASSUME NEW s \in [DOMAIN Low -> Nat], NEW t \in [DOMAIN Low -> Nat],
         NEW I \in SUBSET DOMAIN Low, \A i \in I : s[i] = t[i]
  PROVE  SumOf(s)[I] = SumOf(t)[I]
<1>1. PICK f, g : f = SumOf(s) /\ g = SumOf(t)
  OBVIOUS
<1>2. /\ f[{}] = 0 /\ \A J \in SUBSET DOMAIN Low : \A i \in J : f[J] = s[i] + f[J \ {i}]
      /\ g[{}] = 0 /\ \A J \in SUBSET DOMAIN Low : \A i \in J : g[J] = t[i] + g[J \ {i}]
  BY <1>1, SumIs
<1>3. PICK P : P = {J \in SUBSET I : f[J] # g[J]}
  OBVIOUS
<1>4. P = {}
  <2> SUFFICES ASSUME P # {} PROVE FALSE
    OBVIOUS
  <2>1. P \subseteq SUBSET DOMAIN Low
    BY <1>3
  <2>2. PICK J \in P : \A J2 \in P : Cardinality(J) =< Cardinality(J2)
    BY <2>1, Smallest
  <2>3. J # {} /\ J \subseteq I /\ J \in SUBSET DOMAIN Low
    BY <1>2, <1>3, <2>2
  <2>4. PICK i \in J : TRUE
    BY <2>3
  <2>5. J \ {i} \notin P
    <3>1. Cardinality(J \ {i}) = Cardinality(J) - 1 /\ Cardinality(J) \in Nat
      BY <2>3, <2>4, Counting
    <3> QED BY <2>2, <3>1
  <2>6. f[J \ {i}] = g[J \ {i}] /\ s[i] = t[i]
    BY <1>3, <2>3, <2>4, <2>5
  <2> QED BY <1>2, <1>3, <2>2, <2>3, <2>4, <2>6
<1> QED BY <1>1, <1>3, <1>4

\* What is live is the sum over the live blocks.
LEMMA LiveIsSum == /\ SizeOfLive = SumOf(block_sizes)[Live]
                   /\ SizeOfLive' = SumOf(block_sizes')[Live']
BY DEF SizeOfLive, SumOf, Sums

\* A block that was not live becomes live.
LEMMA SumGains ==
  ASSUME NEW s \in [DOMAIN Low -> Nat], NEW I \in SUBSET DOMAIN Low,
         NEW x \in (DOMAIN Low) \ I, NEW n \in Nat
  PROVE  SumOf([s EXCEPT ![x] = n])[I \cup {x}] = SumOf(s)[I] + n
<1>1. PICK t : t = [s EXCEPT ![x] = n]
  OBVIOUS
<1>2. t \in [DOMAIN Low -> Nat] /\ t[x] = n /\ \A i \in I : t[i] = s[i]
  BY <1>1
<1>3. I \cup {x} \in SUBSET DOMAIN Low /\ x \in I \cup {x} /\ (I \cup {x}) \ {x} = I
  OBVIOUS
<1>4. SumOf(t)[I \cup {x}] = n + SumOf(t)[I]
  BY <1>2, <1>3, SumIs
<1>5. SumOf(t)[I] = SumOf(s)[I]
  BY <1>2, SumSame
<1>6. SumOf(s)[I] \in Nat
  BY SumIs
<1> QED BY <1>1, <1>4, <1>5, <1>6

\* A live block gets another size.
LEMMA SumChanges ==
  ASSUME NEW s \in [DOMAIN Low -> Nat], NEW I \in SUBSET DOMAIN Low,
         NEW x \in I, NEW n \in Nat
  PROVE  SumOf([s EXCEPT ![x] = n])[I \cup {x}] = SumOf(s)[I] + (n - s[x])
<1>1. PICK J : J = I \ {x}
  OBVIOUS
<1>2. J \in SUBSET DOMAIN Low /\ x \in (DOMAIN Low) \ J
  BY <1>1
<1>3. SumOf([s EXCEPT ![x] = n])[J \cup {x}] = SumOf(s)[J] + n
  BY <1>2, SumGains, Zenon
<1>8. J \cup {x} = I \cup {x}
  BY <1>1
<1>4. SumOf(s)[I] = s[x] + SumOf(s)[J] /\ SumOf(s)[J] \in Nat /\ s[x] \in Nat
  BY <1>1, <1>2, SumIs
<1>5. PICK a, b, c : a = SumOf(s)[J] /\ b = s[x] /\ c = SumOf(s)[I]
  OBVIOUS
<1>6. c = b + a /\ a \in Nat /\ b \in Nat
  BY <1>4, <1>5
<1>7. a + n = c + (n - b)
  BY <1>6
<1> QED BY <1>3, <1>5, <1>7, <1>8

\* A live block is freed.
LEMMA SumLoses ==
  ASSUME NEW s \in [DOMAIN Low -> Nat], NEW I \in SUBSET DOMAIN Low, NEW x \in I
  PROVE  SumOf(s)[I \ {x}] = SumOf(s)[I] + (- s[x])
<1>1. SumOf(s)[I] = s[x] + SumOf(s)[I \ {x}]
  BY SumIs
<1>2. SumOf(s)[I \ {x}] \in Nat /\ s[x] \in Nat
  <2>1. I \ {x} \in SUBSET DOMAIN Low
    OBVIOUS
  <2> QED BY <2>1, SumIs
<1>3. PICK a, b, c : a = SumOf(s)[I \ {x}] /\ b = s[x] /\ c = SumOf(s)[I]
  OBVIOUS
<1>4. a \in Nat /\ b \in Nat /\ c = b + a
  BY <1>1, <1>2, <1>3
<1>5. a = c + (- b)
  BY <1>4
<1> QED BY <1>3, <1>5

\* A round of eval_mm_util changes total_size by as much as the live payloads
\* change.
LEMMA ChangeRight ==
  ASSUME FilesConsistent, ReplayInv, phase \in mmPhases, ~ Done,
         UNCHANGED <<mainVars, tracenum>>, op' = op + 1,
         block_sizes' = IF request.type = "FREE" THEN block_sizes
                        ELSE [block_sizes EXCEPT ![request.index] = request.size]
  PROVE  SizeOfLive \in Nat /\ SizeOfLive' \in Nat /\ SizeOfLive' = SizeOfLive + Change
<1>1. /\ request.index \in DOMAIN Low /\ request.size \in Nat
      /\ request.type \in {"ALLOC", "REALLOC", "FREE"}
      /\ block_sizes \in [DOMAIN Low -> Nat] /\ Live \in SUBSET DOMAIN Low
  BY RequestOK DEF ReplayInv, Live, LiveAfter
<1>2. /\ request.type = "ALLOC" <=> request.index \notin Live
      /\ Live' = IF request.type = "FREE" THEN Live \ {request.index}
                 ELSE Live \cup {request.index}
  BY RequestLive, LiveNext
<1>3. Live' \in SUBSET DOMAIN Low /\ block_sizes' \in [DOMAIN Low -> Nat]
  BY <1>1, <1>2
<1>4. SizeOfLive \in Nat /\ SizeOfLive' \in Nat
  <2>1. SumOf(block_sizes)[Live] \in Nat
    BY <1>1, SumIs
  <2>2. PICK s, I : s = block_sizes' /\ I = Live'
    OBVIOUS
  <2>3. SumOf(s)[I] \in Nat
    BY <1>3, <2>2, SumIs
  <2> QED BY <2>1, <2>2, <2>3, LiveIsSum
<1>f. PICK s, I, x, n : s = block_sizes /\ I = Live /\ x = request.index /\ n = request.size
  OBVIOUS
<1>g. s \in [DOMAIN Low -> Nat] /\ I \in SUBSET DOMAIN Low /\ x \in DOMAIN Low /\ n \in Nat
  BY <1>1, <1>f
<1>5. CASE request.type = "ALLOC"
  <2>2. SumOf([s EXCEPT ![x] = n])[I \cup {x}] = SumOf(s)[I] + n
    <3>1. x \in (DOMAIN Low) \ I
      BY <1>2, <1>5, <1>f, <1>g
    <3> QED BY <1>g, <3>1, SumGains
  <2>1. SumOf([block_sizes EXCEPT ![request.index] = request.size])[Live \cup {request.index}]
          = SumOf(block_sizes)[Live] + request.size
    BY <1>f, <2>2
  <2> QED BY <1>2, <1>4, <1>5, <2>1, LiveIsSum DEF Change
<1>6. CASE request.type = "REALLOC"
  <2>2. SumOf([s EXCEPT ![x] = n])[I \cup {x}] = SumOf(s)[I] + (n - s[x])
    <3>1. x \in I
      BY <1>2, <1>6, <1>f
    <3> QED BY <1>g, <3>1, SumChanges
  <2>1. SumOf([block_sizes EXCEPT ![request.index] = request.size])[Live \cup {request.index}]
          = SumOf(block_sizes)[Live] + (request.size - block_sizes[request.index])
    BY <1>f, <2>2
  <2> QED BY <1>2, <1>4, <1>6, <2>1, LiveIsSum DEF Change
<1>7. CASE request.type = "FREE"
  <2>2. SumOf(s)[I \ {x}] = SumOf(s)[I] + (- s[x])
    <3>1. x \in I
      BY <1>2, <1>7, <1>f
    <3> QED BY <1>g, <3>1, SumLoses
  <2>1. SumOf(block_sizes)[Live \ {request.index}]
          = SumOf(block_sizes)[Live] + (- block_sizes[request.index])
    BY <1>f, <2>2
  <2> QED BY <1>2, <1>4, <1>7, <2>1, LiveIsSum DEF Change
<1> QED BY <1>1, <1>4, <1>5, <1>6, <1>7

\* That the high-water mark is the most that was live is inductive.
LEMMA UtilKept == FilesConsistent /\ ReplayInv /\ UtilizationRight /\ [Next]_vars => UtilizationRight'
<1>h. SUFFICES ASSUME FilesConsistent, ReplayInv, UtilizationRight, [Next]_vars
               PROVE  UtilizationRight'
  OBVIOUS
<1>1. ASSUME phase' # "mm_util" PROVE UtilizationRight'
  BY <1>1 DEF UtilizationRight
<1>2. CASE UNCHANGED vars
  <2>1. /\ UNCHANGED <<files, tracenum, op, block_sizes>>
        /\ UNCHANGED <<phase, total_size, max_total_size, faults, brk>>
    BY <1>2 DEF vars, driverVars
  <2>2. SizeOfLive' = SizeOfLive
    <3>1. Live' = Live
      BY <2>1 DEF Live, trace, LiveAfter
    <3> QED BY <2>1, <3>1, LiveIsSum
  <2> QED BY <1>h, <2>1, <2>2 DEF UtilizationRight
<1>3. CASE options \/ read_trace \/ loop_end
  BY <1>1, <1>3 DEF options, read_trace, loop_end, Exit, Go
<1>4. CASE StartFsecs \/ Timer \/ EndFsecs \/ eval_mm_speed \/ eval_libc_speed
  BY <1>1, <1>4, TimerSteps
<1>5. CASE mm_init \/ IsValid \/ eval_libc_valid \/ util_end
  BY <1>1, <1>5 DEF mm_init, IsValid, eval_libc_valid, util_end, Go, Exit, Reject
<1>6. CASE mm_malloc \/ mm_realloc \/ mm_free
  <2>1. phase = "mm_valid" /\ Rounds
    BY <1>6, ValidRounds
  <2> QED BY <1>1, <2>1 DEF Rounds, Rejects
<1>7. CASE util_init
  <2>1. CASE phase' = "mm_util"
    <3>1. /\ op' = 0 /\ total_size' = 0 /\ max_total_size' = 0 /\ block_sizes' = block_sizes
          /\ brk' \in Brks
      BY <1>7, <2>1 DEF util_init, Go, Exit
    <3>2. Live' = {}
      BY <3>1 DEF Live, LiveAfter
    <3>3. SizeOfLive' = 0
      <4>1. block_sizes \in [DOMAIN Low -> Nat]
        BY <1>h DEF ReplayInv
      <4> QED BY <3>1, <3>2, <4>1, LiveIsSum, SumIs
    <3>4. brk' \in Nat
      BY <3>1, BrksInHeap
    <3> QED BY <3>1, <3>3, <3>4 DEF UtilizationRight
  <2> QED BY <1>1, <2>1
<1>8. CASE eval_mm_util
  <2>1. /\ phase = "mm_util" /\ ~ Done /\ UNCHANGED <<mainVars, tracenum, faults>>
    BY <1>8 DEF eval_mm_util
  <2>2. CASE phase' = "exited"
    BY <1>1, <2>2
  <2>3. CASE /\ op' = op + 1 /\ total_size' = total_size + Change
             /\ block_sizes' = IF request.type = "FREE" THEN block_sizes
                               ELSE [block_sizes EXCEPT ![request.index] = request.size]
             /\ max_total_size' = IF request.type = "FREE" THEN max_total_size
                                  ELSE Greatest(total_size', max_total_size)
             /\ brk' \in {b \in Brks : b >= brk} /\ (faults = {} => SizeOfLive' =< brk')
    <3>1. SizeOfLive \in Nat /\ SizeOfLive' \in Nat /\ SizeOfLive' = SizeOfLive + Change
      BY <1>h, <2>1, <2>3, ChangeRight DEF mmPhases
    <3>2. /\ total_size = SizeOfLive /\ total_size =< max_total_size
          /\ faults = {} => max_total_size =< brk
      BY <1>h, <2>1 DEF UtilizationRight
    <3>3. /\ max_total_size \in Int /\ brk \in Int /\ brk' \in Int
          /\ request.index \in DOMAIN Low /\ block_sizes \in [DOMAIN Low -> Nat]
      BY <1>h, <2>1, <2>3, RequestOK, BrksInHeap DEF ReplayInv, mmPhases
    <3>4. total_size' = SizeOfLive'
      BY <2>3, <3>1, <3>2
    <3>5. CASE request.type = "FREE"
      <4>1. Change = - block_sizes[request.index] /\ block_sizes[request.index] \in Nat
        BY <3>3, <3>5 DEF Change
      <4>2. total_size' =< total_size /\ max_total_size' = max_total_size
        BY <2>3, <3>1, <3>2, <3>5, <4>1
      <4>3. faults' = {} => max_total_size' =< brk'
        BY <2>1, <2>3, <3>2, <3>3, <4>2
      <4>4. total_size' =< max_total_size'
        BY <3>1, <3>2, <3>3, <3>4, <4>2
      <4> QED BY <3>4, <4>3, <4>4 DEF UtilizationRight
    <3>6. CASE request.type # "FREE"
      <4>1. max_total_size' = Greatest(total_size', max_total_size)
        BY <2>3, <3>6
      <4>2. total_size' =< max_total_size'
        BY <3>1, <3>3, <3>4, <4>1 DEF Greatest
      <4>3. max_total_size' \in {SizeOfLive', max_total_size}
        BY <3>4, <4>1 DEF Greatest
      <4>4. faults' = {} => max_total_size' =< brk'
        BY <2>1, <2>3, <3>2, <3>3, <4>3
      <4> QED BY <3>4, <4>2, <4>4 DEF UtilizationRight
    <3> QED BY <3>5, <3>6
  <2> QED BY <1>8, <2>2, <2>3 DEF eval_mm_util, Exit
<1> QED BY <1>h, <1>2, <1>3, <1>4, <1>5, <1>6, <1>7, <1>8 DEF Next

\* For any allocator, on any consistent trace: the high-water mark that the
\* utilization is computed from is at least what is live, which is what
\* total_size counts, and fits the heap of an allocator without faults.
THEOREM UtilizationIsRight == FilesConsistent => (Spec => []UtilizationRight)
<1>1. Init => ReplayInv /\ UtilizationRight
  <2>1. Init => phase = "start"
    BY DEF Init
  <2> QED BY <2>1, ReplayInit DEF UtilizationRight
<1> SUFFICES ASSUME FilesConsistent PROVE Spec => []UtilizationRight
  OBVIOUS
<1> DEFINE Inv == ReplayInv /\ UtilizationRight
<1>2. Inv /\ [Next]_vars => Inv'
  BY ReplayKept, UtilKept
<1>3. Inv => UtilizationRight
  OBVIOUS
<1>4. Init => Inv
  BY <1>1
<1> HIDE DEF Inv
<1> QED BY <1>2, <1>3, <1>4, PTL DEF Spec

-----------------------------------------------------------------------------
(* Types *)

Contents == {Low[i] : i \in DOMAIN Low} \cup {Junk}

\* What the driver and the allocator write stays in the arrays.
DataInv == /\ mem \in [Heap -> Contents] /\ ranges \subseteq Addresses \X Heap
           /\ blocks \in [DOMAIN Low -> Addresses \cup {Null}]
           /\ total_size \in Nat /\ max_total_size \in Nat
           /\ Len(util) =< Len(valid)

\* The payload of a request is recorded in the heap.
LEMMA RecordInHeap ==
  ASSUME NEW lo \in Addresses, NEW top \in 0 .. MaxHeap, NEW size \in Nat \ {0}, NEW R,
         RangeOK(R, lo, size, top)
  PROVE  <<lo, lo + size - 1>> \in Addresses \X Heap
<1>1. lo \in Int /\ lo >= 0 /\ lo + size =< MaxHeap
  BY BrksInHeap DEF RangeOK, InHeap, Addresses
<1>2. lo + size - 1 \in Heap
  BY <1>1, BrksInHeap DEF Heap
<1> QED BY <1>2

\* What the driver accepts has its types.
LEMMA AcceptTypes ==
  ASSUME NEW R, R \subseteq Addresses \X Heap, NEW m \in [Heap -> Contents],
         NEW lo \in Addresses, NEW top \in 0 .. MaxHeap,
         request.index \in DOMAIN Low, request.size \in Nat \ {0},
         RangeOK(R, lo, request.size, top), Accept(R, m, lo),
         blocks \in [DOMAIN Low -> Addresses \cup {Null}]
  PROVE  /\ mem' \in [Heap -> Contents] /\ ranges' \subseteq Addresses \X Heap
         /\ blocks' \in [DOMAIN Low -> Addresses \cup {Null}]
<1>1. /\ ranges' = R \cup {<<lo, lo + request.size - 1>>}
      /\ mem' = memset(m, lo, request.size, Low[request.index])
      /\ blocks' = [blocks EXCEPT ![request.index] = lo]
  BY DEF Accept
<1>2. Low[request.index] \in Contents
  BY DEF Contents
<1>3. mem' \in [Heap -> Contents]
  BY <1>1, <1>2 DEF memset
<1>4. ranges' \subseteq Addresses \X Heap
  BY <1>1, RecordInHeap
<1> QED BY <1>1, <1>3, <1>4

\* The allocator moves bytes of the old block only.
LEMMA MovedTypes ==
  ASSUME mem \in [Heap -> Contents], request.index \in DOMAIN Low, request.size \in Nat,
         Checked(request.index), brk \in 0 .. MaxHeap,
         NEW lo \in Addresses, NEW top, NEW kept \in BOOLEAN
  PROVE  MovedTo(lo, top, kept) \in [Heap -> Contents]
<1>1. PICK from, n, size : /\ from = blocks[request.index] /\ n = Copied
                           /\ size = block_sizes[request.index]
  OBVIOUS
<1>2. /\ from \in Int /\ size \in Nat /\ from >= 0 /\ from + size =< MaxHeap
      /\ n \in Nat /\ n =< size
  <2>1. from \in Int /\ size \in Nat /\ from >= 0 /\ from + size =< brk
    BY <1>1 DEF Checked
  <2>2. n \in Nat /\ n =< size
    BY <1>1, <2>1 DEF Copied
  <2> QED BY <2>1, <2>2, BrksInHeap
<1>3. lo \in Int
  BY BrksInHeap DEF Addresses
<1>4. ASSUME NEW a \in Heap, a \in lo .. lo + n - 1 PROVE mem[from + a - lo] \in Contents
  <2>1. from + a - lo \in Heap
    BY <1>2, <1>3, <1>4, BrksInHeap DEF Heap
  <2> QED BY <2>1
<1>5. Moved(from, lo, n, kept) \in [Heap -> Contents]
  BY <1>4 DEF Moved
<1> QED BY <1>1, <1>5 DEF MovedTo

\* The list of verdicts is not overtaken by that of the utilizations.
LEMMA ListsKept ==
  ReplayInv /\ CountInv /\ Len(util) =< Len(valid) /\ [Next]_vars => (Len(util) =< Len(valid))'
<1> SUFFICES ASSUME ReplayInv, CountInv, Len(util) =< Len(valid), [Next]_vars
             PROVE  Len(util') =< Len(valid')
  OBVIOUS
<1>n. /\ valid \in Seq(BOOLEAN) /\ util \in Seq(Int \X Int) /\ tracenum \in Nat
      /\ phase = "mm_util" => Len(valid) = tracenum /\ Len(util) = tracenum - 1
      /\ brk \in Int /\ max_total_size \in Int
  BY BrksInHeap DEF ReplayInv, CountInv
<1>1. ASSUME UNCHANGED <<valid, util>> PROVE Len(util') =< Len(valid')
  BY <1>1
<1>2. ASSUME valid' = Append(valid, FALSE), util' = Append(util, <<0, 1>>)
      PROVE  Len(util') =< Len(valid')
  <2>1. Len(util') = Len(util) + 1 /\ Len(valid') = Len(valid) + 1
    BY <1>n, <1>2, AppendPair
  <2> QED BY <1>n, <2>1
<1>3. CASE \/ UNCHANGED vars \/ options \/ read_trace \/ loop_end \/ eval_libc_valid
           \/ util_init \/ eval_mm_util
  BY <1>1, <1>3 DEF vars, driverVars, options, read_trace, loop_end, eval_libc_valid, util_init,
                    eval_mm_util, statVars
<1>4. CASE StartFsecs \/ Timer \/ EndFsecs \/ eval_mm_speed \/ eval_libc_speed
  BY <1>1, <1>4, TimerSteps DEF statVars
<1>5. CASE mm_init
  BY <1>1, <1>2, <1>5 DEF mm_init, Reject, statVars
<1>6. CASE mm_malloc \/ mm_realloc \/ mm_free
  <2>1. Rounds
    BY <1>6, ValidRounds
  <2> QED BY <1>1, <1>2, <2>1 DEF Rounds, Rejects, statVars
<1>7. CASE IsValid
  <2>1. valid' = Append(valid, TRUE) /\ util' = util
    BY <1>7 DEF IsValid
  <2>2. Len(valid') = Len(valid) + 1
    BY <1>n, <2>1
  <2> QED BY <1>n, <2>1, <2>2
<1>8. CASE util_end
  <2>1. /\ phase = "mm_util" /\ valid' = valid
        /\ util' = Append(util, <<max_total_size, brk>>)
    BY <1>8 DEF util_end
  <2>2. Len(util') = Len(util) + 1
    BY <1>n, <2>1, AppendPair
  <2> QED BY <1>n, <2>1, <2>2
<1> QED BY <1>3, <1>4, <1>5, <1>6, <1>7, <1>8 DEF Next

\* That the arrays keep their types is inductive.
LEMMA DataKept ==
  FilesConsistent /\ ReplayInv /\ CountInv /\ RangeInv /\ UtilizationRight /\ DataInv /\ [Next]_vars
    => DataInv'
<1>h. SUFFICES ASSUME FilesConsistent, ReplayInv, CountInv, RangeInv, UtilizationRight, DataInv,
                      [Next]_vars
               PROVE  DataInv'
  OBVIOUS
<1>n. /\ mem \in [Heap -> Contents] /\ ranges \subseteq Addresses \X Heap
      /\ blocks \in [DOMAIN Low -> Addresses \cup {Null}]
      /\ total_size \in Nat /\ max_total_size \in Nat
  BY <1>h DEF DataInv
<1>b. /\ brk \in 0 .. MaxHeap /\ Brks \subseteq 0 .. MaxHeap
      /\ AnyHeap \in [Heap -> Contents] /\ NoBlocks \in [DOMAIN Low -> Addresses \cup {Null}]
  BY <1>h, BrksInHeap DEF ReplayInv, AnyHeap, NoBlocks, Contents
<1>l. Len(util') =< Len(valid')
  BY <1>h, ListsKept DEF DataInv
<1>1. ASSUME mem' \in [Heap -> Contents], ranges' \subseteq Addresses \X Heap,
             blocks' \in [DOMAIN Low -> Addresses \cup {Null}],
             total_size' \in Nat, max_total_size' \in Nat
      PROVE  DataInv'
  BY <1>l, <1>1 DEF DataInv
<1>2. CASE UNCHANGED <<mem, ranges, blocks, total_size, max_total_size>>
  BY <1>n, <1>1, <1>2
<1>3. CASE UNCHANGED vars \/ options \/ loop_end \/ IsValid \/ eval_libc_valid \/ util_end
  BY <1>2, <1>3 DEF vars, driverVars, options, loop_end, IsValid, eval_libc_valid, util_end,
                    heapVars, traceVars
<1>4. CASE StartFsecs \/ Timer \/ EndFsecs \/ eval_mm_speed \/ eval_libc_speed
  BY <1>2, <1>4, TimerSteps DEF traceVars
<1>5. CASE read_trace
  BY <1>n, <1>b, <1>1, <1>5 DEF read_trace, heapVars
<1>6. CASE mm_init
  <2>1. mem' = AnyHeap /\ ranges' = {} /\ UNCHANGED <<blocks, total_size, max_total_size>>
    BY <1>6 DEF mm_init, clear_ranges
  <2> QED BY <1>n, <1>b, <1>1, <2>1
<1>7. CASE mm_free
  <2>1. /\ ranges' \subseteq ranges
        /\ UNCHANGED <<mem, blocks, total_size, max_total_size>>
    BY <1>7 DEF mm_free, remove_range, heapVars
  <2> QED BY <1>n, <1>1, <2>1
<1>8. ASSUME RoundFrame, AnswersNull PROVE DataInv'
  BY <1>2, <1>8 DEF RoundFrame, AnswersNull, Refuse
<1>9. ASSUME RoundFrame, AssertFails \/ Refuse, ranges' \subseteq Addresses \X Heap
      PROVE  DataInv'
  <2>1. UNCHANGED <<mem, blocks, total_size, max_total_size>>
    BY <1>9 DEF RoundFrame, AssertFails, Refuse
  <2> QED BY <1>n, <1>1, <1>9, <2>1
<1>10. CASE mm_malloc
  <2>1. /\ phase = "mm_valid" /\ ~ Done /\ RoundFrame
        /\ \/ AnswersNull
           \/ \E lo \in Addresses, top \in {b \in Brks : b >= brk} : MallocTo(lo, top)
    BY <1>10, MallocRound DEF Request
  <2>2. request.index \in DOMAIN Low /\ request.size \in Nat
    BY <1>h, <2>1, RequestOK DEF mmPhases
  <2>3. ASSUME NEW lo \in Addresses, NEW top \in Brks, MallocTo(lo, top) PROVE DataInv'
    <3>1. CASE (AssertFails \/ Refuse) /\ ranges' = ranges
      BY <1>n, <1>9, <2>1, <3>1
    <3>2. CASE request.size # 0 /\ RangeOK(ranges, lo, request.size, top) /\ Accept(ranges, mem, lo)
      <4>1. /\ mem' \in [Heap -> Contents] /\ ranges' \subseteq Addresses \X Heap
            /\ blocks' \in [DOMAIN Low -> Addresses \cup {Null}]
        BY <1>n, <1>b, <2>2, <3>2, AcceptTypes
      <4> QED BY <1>n, <1>1, <2>1, <4>1 DEF RoundFrame
    <3> QED BY <2>3, <3>1, <3>2 DEF MallocTo
  <2> QED BY <1>8, <2>1, <2>3
<1>11. CASE mm_realloc
  <2>1. /\ phase = "mm_valid" /\ ~ Done /\ request.type = "REALLOC" /\ RoundFrame
        /\ \/ AnswersNull
           \/ \E lo \in Addresses, top \in {b \in Brks : b >= brk}, kept \in BOOLEAN :
                ReallocTo(lo, top, kept)
    BY <1>11, ReallocRound DEF Request
  <2>2. request.index \in DOMAIN Low /\ request.size \in Nat /\ Checked(request.index)
    BY <1>h, <2>1, RequestOK, RequestLive DEF mmPhases, RangeInv
  <2>3. Others \subseteq Addresses \X Heap
    BY <1>n DEF Others, remove_range
  <2>4. ASSUME NEW lo \in Addresses, NEW top \in Brks, NEW kept \in BOOLEAN, ReallocTo(lo, top, kept)
        PROVE  DataInv'
    <3>1. CASE (AssertFails \/ Refuse) /\ ranges' = Others
      BY <1>9, <2>1, <2>3, <3>1
    <3>2. CASE /\ request.size # 0 /\ RangeOK(Others, lo, request.size, top)
               /\ Refuse /\ ranges' = Others \cup {<<lo, lo + request.size - 1>>}
      <4>1. <<lo, lo + request.size - 1>> \in Addresses \X Heap
        BY <1>b, <2>2, <3>2, RecordInHeap
      <4> QED BY <1>9, <2>1, <2>3, <3>2, <4>1
    <3>3. CASE /\ request.size # 0 /\ RangeOK(Others, lo, request.size, top)
               /\ Accept(Others, MovedTo(lo, top, kept), lo)
      <4>1. MovedTo(lo, top, kept) \in [Heap -> Contents]
        BY <1>n, <1>b, <2>2, MovedTypes
      <4>2. /\ mem' \in [Heap -> Contents] /\ ranges' \subseteq Addresses \X Heap
            /\ blocks' \in [DOMAIN Low -> Addresses \cup {Null}]
        BY <1>n, <1>b, <2>2, <2>3, <3>3, <4>1, AcceptTypes
      <4> QED BY <1>n, <1>1, <2>1, <4>2 DEF RoundFrame
    <3> QED BY <2>4, <3>1, <3>2, <3>3 DEF ReallocTo
  <2> QED BY <1>8, <2>1, <2>4
<1>12. CASE util_init
  <2>1. mem' = AnyHeap /\ blocks' = NoBlocks /\ total_size' = 0 /\ max_total_size' = 0 /\ ranges' = ranges
    BY <1>12 DEF util_init
  <2> QED BY <1>n, <1>b, <1>1, <2>1
<1>13. CASE eval_mm_util
  <2>1. /\ phase = "mm_util" /\ ~ Done /\ UNCHANGED <<mainVars, tracenum, mem, ranges, blocks>>
    BY <1>13 DEF eval_mm_util
  <2>2. CASE UNCHANGED <<total_size, max_total_size>>
    BY <1>2, <2>1, <2>2
  <2>3. CASE /\ op' = op + 1 /\ total_size' = total_size + Change
             /\ block_sizes' = IF request.type = "FREE" THEN block_sizes
                               ELSE [block_sizes EXCEPT ![request.index] = request.size]
             /\ max_total_size' = IF request.type = "FREE" THEN max_total_size
                                  ELSE Greatest(total_size', max_total_size)
    <3>1. SizeOfLive' \in Nat /\ SizeOfLive' = SizeOfLive + Change
      BY <1>h, <2>1, <2>3, ChangeRight DEF mmPhases
    <3>2. total_size' \in Nat
      BY <1>h, <2>1, <2>3, <3>1 DEF UtilizationRight
    <3>3. max_total_size' \in Nat
      BY <1>n, <2>3, <3>2 DEF Greatest
    <3> QED BY <1>n, <1>1, <2>1, <3>2, <3>3
  <2> QED BY <1>13, <2>2, <2>3 DEF eval_mm_util
<1> QED BY <1>h, <1>3, <1>4, <1>5, <1>6, <1>7, <1>10, <1>11, <1>12, <1>13 DEF Next

\* For any allocator, on any consistent trace, and any clocks: no array of the
\* driver is left by what it records, fills or checks, and no counter or size
\* goes below zero.
THEOREM DriverTypes == FilesConsistent => (Spec => []TypeOK)
<1>1. Init => /\ TimingTypeOK /\ ReplayInv /\ CountInv /\ RangeInv /\ UtilizationRight
              /\ DataInv
  <2> SUFFICES ASSUME Init
               PROVE  TimingTypeOK /\ ReplayInv /\ CountInv /\ RangeInv /\ UtilizationRight /\ DataInv
    OBVIOUS
  <2>1. /\ phase = "start" /\ blocks = NoBlocks /\ mem = AnyHeap /\ ranges = {}
        /\ total_size = 0 /\ max_total_size = 0 /\ valid = <<>> /\ util = <<>>
    BY DEF Init
  <2>2. Len(util) =< Len(valid)
    BY <2>1
  <2>3. RangeInv /\ UtilizationRight /\ DataInv
    BY <2>1, <2>2 DEF RangeInv, UtilizationRight, DataInv, NoBlocks, AnyHeap, Contents
  <2> QED BY <2>3, TimingTypesInit, ReplayInit, CountInit
<1>2. TimingTypeOK /\ ReplayInv /\ CountInv /\ DataInv => TypeOK
  <2> SUFFICES ASSUME TimingTypeOK, ReplayInv, CountInv, DataInv PROVE TypeOK
    OBVIOUS
  <2>1. brk \in 0 .. MaxHeap /\ tracenum \in Nat /\ op \in Nat /\ errors \in Nat
    BY DEF ReplayInv, CountInv
  <2> QED BY <2>1 DEF TypeOK, DataInv, Contents
<1> SUFFICES ASSUME FilesConsistent PROVE Spec => []TypeOK
  OBVIOUS
<1> DEFINE Inv == TimingTypeOK /\ ReplayInv /\ CountInv /\ RangeInv /\ UtilizationRight /\ DataInv
<1>3. Inv /\ [Next]_vars => Inv'
  BY TimingTypes, ReplayKept, CountKept, RangesKept, UtilKept, DataKept
<1>4. Inv => TypeOK
  BY <1>2
<1>5. Init => Inv
  BY <1>1
<1> HIDE DEF Inv
<1> QED BY <1>3, <1>4, <1>5, PTL DEF Spec
===============================================================================
