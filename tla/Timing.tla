-------------------------------- MODULE Timing --------------------------------
(***************************************************************************)
(* The timing packages of malloc/lab: fsecs.c calls, as config.h says,     *)
(* either fcyc.c, which measures a function with the cycle counter of      *)
(* clock.c until the kbest smallest samples agree, or one of the two of    *)
(* ftimer.c, which measure NRuns calls at once with gettimeofday or with   *)
(* the interval timer.  The caller of fsecs and the function it measures   *)
(* are not in this module.                                                 *)
(*                                                                         *)
(* Times are integers: cycles for fcyc, microseconds for ftimer; a         *)
(* quotient of cycles and ticks is rounded down.  The scale of the result  *)
(* (Mhz, n) is left out.  init_fsecs always asks fcyc to clear the cache   *)
(* and to compensate for timer interrupts, and so does the module.         *)
(***************************************************************************)
EXTENDS Integers, Sequences, FiniteSets

CONSTANTS Packages,                \* the packages that the build may choose
          Word,                    \* 2^32
          Usec,                    \* 10^6, or less
          MAX_ETIME,
          kbest, maxsamples, EpsNum, EpsDen,   \* 1 + epsilon = EpsNum / EpsDen
          NRuns,                   \* the calls that ftimer.c averages over
          NEVENT, THRESHOLD, RECORDTHRESH,
          Durations,               \* how long one run may take
          Marks                    \* when a measurement may begin

ASSUME TimingAssumption ==
  /\ Packages \subseteq {"fcyc", "itimer", "gettod"}
  /\ {Word, Usec, kbest, maxsamples, EpsNum, EpsDen, NRuns, NEVENT} \subseteq Nat \ {0}
  /\ {MAX_ETIME, THRESHOLD, RECORDTHRESH} \subseteq Nat
  /\ Durations \subseteq Nat \ {0} /\ Marks \subseteq Nat

VARIABLES package,   \* which of USE_FCYC, USE_ITIMER and USE_GETTOD is 1
          step,      \* where fsecs is; the function runs in step "f"
          mark,      \* when the last measurement began
          elapsed,   \* the time since then, until it ended
          dt,        \* the timer interrupts since then
          time,      \* what the last measurement read
          cache_buf, cyc_per_tick,          \* static variables of fcyc.c and clock.c
          e, newt, newc,                    \* callibrate: events; time and ticks since oldt, oldc
          values, samplecount,              \* fcyc.c
          samples,                          \* all that add_sample got in this call
          runs,                             \* ftimer.c: i
          result                            \* what fsecs returned last

calibrateVars == <<e, newt, newc>>
sampleVars    == <<values, samplecount, samples>>
timingVars == <<package, step, mark, elapsed, dt, time, cache_buf, cyc_per_tick,
                e, newt, newc, values, samplecount, samples, runs, result>>

TimingInit == /\ package \in Packages /\ step = "idle"
              /\ mark = 0 /\ elapsed = 0 /\ dt = 0 /\ time = 0
              /\ cache_buf = FALSE /\ cyc_per_tick = 0
              /\ e = 0 /\ newt = 0 /\ newc = 0
              /\ values = [i \in 0 .. kbest - 1 |-> 0] /\ samplecount = 0 /\ samples = <<>>
              /\ runs = 0 /\ result = 0

-----------------------------------------------------------------------------
(* Clocks.  Each gives a time as two numbers, the second below a base.      *)

Hi(base, t) == t \div base
Lo(base, t) == t % base
Bit(b) == IF b THEN 1 ELSE 0

\* Mutant: no borrow from the high word.
get_counterNoBorrow(start, now) ==
  LET lo == (Lo(Word, now) - Lo(Word, start)) % Word
      hi == (Hi(Word, now) - Hi(Word, start)) % Word
  IN  hi * Word + lo

\* The two-word subtraction of 32-bit unsigned integers; the counter itself
\* has two words, the high one of which wraps around, too.
get_counter(start, now) ==
  LET lo     == (Lo(Word, now) - Lo(Word, start)) % Word
      borrow == Bit(lo > Lo(Word, now))
      hi     == (Hi(Word, now) - Hi(Word, start) - borrow) % Word
  IN  hi * Word + lo

gettimeofday(start, now) ==
  Usec * (Hi(Usec, now) - Hi(Usec, start)) + (Lo(Usec, now) - Lo(Usec, start))

\* The timer counts down from MAX_ETIME seconds, which init_etime sets.
get_etime(t) == LET left == MAX_ETIME * Usec - t
                IN  Usec * (MAX_ETIME - Hi(Usec, left)) - Lo(Usec, left)

Measured == CASE package = "fcyc"   -> get_counter(mark, mark + elapsed)
              [] package = "gettod" -> gettimeofday(mark, mark + elapsed)
              [] package = "itimer" -> get_etime(mark + elapsed) - get_etime(mark)

-----------------------------------------------------------------------------
(* The function runs, and what the measurement begins with.                 *)

\* The clock is read and the function called.
StartClock == /\ mark' \in Marks /\ elapsed' = 0
              /\ step' = "f"

\* The function has returned; ftimer.c calls it again.
FReturns == /\ step = "f"
            /\ \E d \in Durations : elapsed' = elapsed + d
            /\ IF package = "fcyc"
               THEN \E tick \in {0, 1} : dt' = dt + tick /\ step' = "stop" /\ UNCHANGED runs
               ELSE /\ runs' = runs + 1 /\ UNCHANGED dt
                    /\ step' = IF runs' = NRuns THEN "stop" ELSE "f"
            /\ UNCHANGED <<package, mark, time, cache_buf, cyc_per_tick, calibrateVars,
                           sampleVars, result>>

-----------------------------------------------------------------------------
(* ftimer.c *)

ftimer_stop == /\ package # "fcyc" /\ step = "stop"
               /\ time' = Measured /\ result' = Measured /\ step' = "idle"
               /\ UNCHANGED <<package, mark, elapsed, dt, cache_buf, cyc_per_tick,
                              calibrateVars, sampleVars, runs>>

-----------------------------------------------------------------------------
(* clock.c and fcyc.c *)

\* Before each sample: clear the cache, whose buffer is allocated once.
clear == /\ step = "clear"
         /\ \/ cache_buf' = TRUE /\ step' = "start"
            \/ ~ cache_buf /\ step' = "exit" /\ UNCHANGED cache_buf
         /\ UNCHANGED <<package, mark, elapsed, dt, time, cyc_per_tick, calibrateVars,
                        sampleVars, runs, result>>

\* start_comp_counter reads the ticks, then the counter.
start_comp_counter ==
  /\ step = "start"
  /\ IF cyc_per_tick = 0 THEN /\ step' = "callibrate" /\ UNCHANGED <<mark, elapsed, dt>>
                         ELSE StartClock /\ dt' \in {0, 1}
  /\ UNCHANGED <<package, time, cache_buf, cyc_per_tick, calibrateVars, sampleVars, runs, result>>

\* Mutant: e counts only the events that change cyc_per_tick.
EventsRecorded(event, record) == Bit(record)

\* By how much a look raises e.
Events(event, record) == Bit(event)

\* One round of the loop, in which a tick may fall.  Every THRESHOLD cycles it
\* looks at the ticks; an event is a look that finds some.
callibrate(d, tick) ==
  LET t == newt + d
      c == newc + tick
      event  == t >= THRESHOLD /\ c > 0
      cpt    == t \div c
      record == event /\ (cyc_per_tick = 0 \/ cyc_per_tick > cpt) /\ cpt > RECORDTHRESH
      count  == e + Events(event, record)
  IN  /\ step = "callibrate"
      /\ newt' = IF t >= THRESHOLD THEN 0 ELSE t
      /\ newc' = IF event THEN 0 ELSE c
      /\ cyc_per_tick' = IF record THEN cpt ELSE cyc_per_tick
      /\ IF count < NEVENT THEN e' = count /\ UNCHANGED <<step, mark, elapsed, dt>>
                           ELSE e' = 0 /\ StartClock /\ dt' \in {0, 1}
      /\ UNCHANGED <<package, time, cache_buf, sampleVars, runs, result>>

\* The place of val: the insertion sort stops at the first smaller value.
Place(pos, val) ==
  CHOOSE p \in 0 .. pos : /\ p = 0 \/ values[p - 1] =< val
                          /\ \A q \in p + 1 .. pos : values[q - 1] > val

\* Mutant: a full array gives up its smallest value.
InsertFirst(val, pos) == [values EXCEPT ![pos] = values[0], ![0] = val]

\* The values from the place of val on move up; the one at pos goes.
Insert(val, pos) ==
  LET p == Place(pos, val)
  IN  [i \in 0 .. kbest - 1 |-> IF i < p \/ i > pos THEN values[i]
                                ELSE IF i = p THEN val ELSE values[i - 1]]

add_sample(val) ==
  /\ values' = IF samplecount < kbest THEN Insert(val, samplecount)
               ELSE IF val < values[kbest - 1] THEN Insert(val, kbest - 1)
               ELSE values
  /\ samplecount' = samplecount + 1 /\ samples' = Append(samples, val)

Converged(vals, count) == /\ count >= kbest
                          /\ EpsNum * vals[0] >= EpsDen * vals[kbest - 1]

Enough(vals, count) == Converged(vals, count) \/ count >= maxsamples

\* get_comp_counter reads the counter, then the ticks; the sample is added.
get_comp_counter ==
  /\ package = "fcyc" /\ step = "stop" /\ time' = Measured
  /\ \E tick \in {0, 1} : add_sample(Measured - (dt + tick) * cyc_per_tick)
  /\ IF Enough(values', samplecount') THEN step' = "idle" /\ result' = values'[0]
                                      ELSE step' = "clear" /\ UNCHANGED result
  /\ UNCHANGED <<package, mark, elapsed, dt, cache_buf, cyc_per_tick, calibrateVars, runs>>

-----------------------------------------------------------------------------
\* fsecs is called.
fsecs == /\ step = "idle"
         /\ IF package = "fcyc"
            THEN /\ step' = "clear" /\ values' = [i \in 0 .. kbest - 1 |-> 0]
                 /\ samplecount' = 0 /\ samples' = <<>>
                 /\ UNCHANGED <<mark, elapsed, runs>>
            ELSE StartClock /\ runs' = 0 /\ UNCHANGED sampleVars
         /\ UNCHANGED <<package, dt, time, cache_buf, cyc_per_tick, calibrateVars, result>>

\* The steps between the call and the return, without those of the function.
fcyc == \/ clear \/ start_comp_counter \/ get_comp_counter
        \/ \E d \in Durations, tick \in {0, 1} : callibrate(d, tick)

Measure == fcyc \/ ftimer_stop

-----------------------------------------------------------------------------
(***************************************************************************)
(* Properties                                                              *)
(***************************************************************************)

TimingTypeOK ==
  /\ package \in Packages
  /\ step \in {"idle", "clear", "start", "callibrate", "f", "stop", "exit"}
  /\ {mark, elapsed, dt, cyc_per_tick, e, newt, newc, samplecount, runs} \subseteq Nat
  /\ cache_buf \in BOOLEAN
  /\ values \in [0 .. kbest - 1 -> Int] /\ samples \in Seq(Int)
  /\ time \in Int /\ result \in Int

\* A measurement reads the time that has passed, whatever words wrapped
\* around, if it is less than the whole clock can hold.
TimeIsElapsed == step \notin {"f", "stop"} => time = elapsed

\* values[j] is the sample of rank j, so that values[0] is the smallest; and
\* fcyc has returned it, after enough samples.
Filled == IF samplecount < kbest THEN samplecount ELSE kbest
KBest == /\ samplecount = Len(samples)
         /\ \A j \in 0 .. Filled - 1 :
              /\ Cardinality({i \in 1 .. samplecount : samples[i] =< values[j]}) > j
              /\ Cardinality({i \in 1 .. samplecount : samples[i] < values[j]}) =< j
         /\ step = "idle" /\ samplecount > 0 =>
               result = values[0] /\ Enough(values, samplecount)
=============================================================================
