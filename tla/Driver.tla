-------------------------------- MODULE Driver --------------------------------
(***************************************************************************)
(* The trace driver malloc/lab/mdriver.c: it replays each trace against    *)
(* the allocator, judges the answers, measures the use of space and, with  *)
(* the packages of Timing, the speed.                                      *)
(*                                                                         *)
(* The allocator is not mm.c: whether the driver is right is a question    *)
(* about all allocators.  This one answers a request with NULL or with any *)
(* address, and moves the data or not when it reallocates; it writes       *)
(* nowhere else.  faults records which promises it has broken, whether or  *)
(* not the driver noticed.  When a trace is replayed to measure it, only   *)
(* the heap's size and requests that fail matter: the payloads are nobody's*)
(* concern, and an allocator without faults is taken to keep them disjoint *)
(* again.                                                                  *)
(*                                                                         *)
(* Addresses are relative to mem_start_brk.                                *)
(***************************************************************************)
EXTENDS Timing

CONSTANTS Files,      \* the sequences of traces the driver may be started with
          MaxHeap, ALIGNMENT,
          Brks,       \* where mem_brk may be
          Low,        \* index & 0xFF
          CharMax,    \* the largest char, 127
          Null, Junk  \* NULL; what nobody wrote

ASSUME DriverAssumption ==
  /\ MaxHeap \in Nat /\ ALIGNMENT \in Nat \ {0} /\ Brks \subseteq 0 .. MaxHeap
  /\ DOMAIN Low \subseteq Nat /\ IsFiniteSet(DOMAIN Low)
  /\ CharMax \in Nat /\ {Null, Junk} \cap Int = {}

\* A trace has a header (num_ids, num_ops) and its requests, ops.
Op(type, index, size) == [type |-> type, index |-> index, size |-> size]
Requests == [type : {"ALLOC", "REALLOC", "FREE"}, index : DOMAIN Low, size : Nat]
Traces == [num_ids : Nat, num_ops : Nat, ops : Seq(Requests)]

ASSUME TracesAssumption == Files \subseteq Seq(Traces) /\ \A i \in DOMAIN Low : Low[i] \in Nat

VARIABLES files, run_libc,
          phase,          \* where main is
          tracenum, op,   \* the trace, and the requests of it that are done
          brk, mem,       \* the heap
          ranges,         \* the payloads, <<lo, hi>>
          blocks, block_sizes,
          total_size, max_total_size,
          errors, valid, util,   \* stats[i].valid, .util: of the traces so far
          faults,
          outcome         \* how the driver ended

heapVars  == <<brk, mem>>
traceVars == <<ranges, blocks, block_sizes, total_size, max_total_size, faults>>
mainVars  == <<files, run_libc>>
statVars  == <<errors, valid, util>>
driverVars == <<files, run_libc, phase, tracenum, op, brk, mem, ranges, blocks, block_sizes,
                total_size, max_total_size, errors, valid, util, faults, outcome>>
vars == <<driverVars, timingVars>>

trace == files[tracenum]
Done  == op = trace.num_ops
request == trace.ops[op + 1]
Request(type) == ~ Done /\ request.type = type
Heap == 0 .. MaxHeap - 1
Addresses == -2 .. MaxHeap
AnyHeap == [a \in Heap |-> Junk]
NoBlocks == [i \in DOMAIN Low |-> Null]
NoSizes == [i \in DOMAIN Low |-> 0]

Init == /\ files \in Files /\ run_libc \in BOOLEAN
        /\ phase = "start" /\ tracenum = 0 /\ op = 0
        /\ brk = 0 /\ mem = AnyHeap /\ ranges = {} /\ blocks = NoBlocks /\ block_sizes = NoSizes
        /\ total_size = 0 /\ max_total_size = 0
        /\ errors = 0 /\ valid = <<>> /\ util = <<>> /\ faults = {} /\ outcome = "none"
        /\ TimingInit

Exit(how) == phase' = "exited" /\ outcome' = how
Go(where) == phase' = where /\ UNCHANGED outcome

-----------------------------------------------------------------------------
(* main *)

\* -h, a wrong option or a wrong team ends it; init_fsecs chooses nothing here.
options == /\ phase = "start"
           /\ \/ Exit("0") \/ Exit("1")
              \/ Go(IF run_libc THEN "libc_next" ELSE "mm_next")
           /\ UNCHANGED <<mainVars, tracenum, op, heapVars, traceVars, statVars, timingVars>>

\* The assertions about the header compare it with the requests.
HeaderOK(t) ==
  /\ t.num_ops = Len(t.ops)
  /\ \E i \in DOMAIN t.ops : t.ops[i].type # "FREE" /\ t.ops[i].index = t.num_ids - 1
  /\ \A i \in DOMAIN t.ops : t.ops[i].type # "FREE" => t.ops[i].index < t.num_ids

\* What malloc gives for the arrays is not used before it is written.
read_trace == LET t == files[tracenum + 1]
              IN  /\ phase \in {"libc_next", "mm_next"} /\ tracenum < Len(files)
                  /\ tracenum' = tracenum + 1 /\ op' = 0
                  /\ IF ~ HeaderOK(t) THEN Exit("abort")
                     ELSE Go(IF phase = "libc_next" THEN "libc_valid" ELSE "mm_init")
                  /\ blocks' = NoBlocks /\ block_sizes' = NoSizes
                  /\ UNCHANGED <<mainVars, heapVars, ranges, total_size, max_total_size, faults,
                                 statVars, timingVars>>

\* The loop over the traces ends: the libc loop is followed by the other one,
\* and that by the performance index, if there were no errors.
loop_end == /\ phase \in {"libc_next", "mm_next"} /\ tracenum = Len(files)
            /\ IF phase = "libc_next" THEN Go("mm_next") /\ tracenum' = 0
               ELSE Exit(IF errors = 0 THEN "index" ELSE "errors") /\ UNCHANGED tracenum
            /\ UNCHANGED <<mainVars, op, heapVars, traceVars, statVars, timingVars>>

\* fsecs measures eval_mm_speed or eval_libc_speed.
StartFsecs == /\ phase \in {"libc_speed", "mm_speed"} /\ fsecs
              /\ Go(IF phase = "libc_speed" THEN "libc_secs" ELSE "mm_secs")
              /\ UNCHANGED <<mainVars, tracenum, op, heapVars, traceVars, statVars>>

\* The package's own steps; clear() may exit.
Timer == /\ phase \in {"libc_secs", "mm_secs"} /\ Measure
         /\ IF step' = "exit" THEN Exit("1") ELSE UNCHANGED <<phase, outcome>>
         /\ UNCHANGED <<mainVars, tracenum, op, heapVars, traceVars, statVars>>

\* fsecs has returned; free_trace.
EndFsecs == /\ phase \in {"libc_secs", "mm_secs"} /\ step = "idle"
            /\ Go(IF phase = "libc_secs" THEN "libc_next" ELSE "mm_next")
            /\ UNCHANGED <<mainVars, tracenum, op, heapVars, traceVars, statVars, timingVars>>

-----------------------------------------------------------------------------
(* Validity *)

Payload(lo, size) == lo .. lo + size - 1
IsAligned(lo) == lo % ALIGNMENT = 0
InHeap(lo, size, top) == lo >= 0 /\ lo + size =< top

\* Mutant: the high end is not looked at.
OverlapsLow(R, lo, hi) == \E r \in R : lo \in r[1] .. r[2]

\* add_range asks whether an end of the new payload lies in an old one.
Overlaps(R, lo, hi) == \E r \in R : lo \in r[1] .. r[2] \/ hi \in r[1] .. r[2]

\* add_range would accept a payload.
RangeOK(R, lo, size, top) ==
  IsAligned(lo) /\ InHeap(lo, size, top) /\ ~ Overlaps(R, lo, lo + size - 1)

\* Mutant: the search for the block goes wrong.
remove_rangeNot(R, lo) == R

remove_range(R, lo) == {r \in R : r[1] # lo}

\* The blocks that the first n requests of a trace have allocated and not freed.
LiveAfter(t, n) == {i \in DOMAIN Low :
                      \E k \in 1 .. n : /\ t.ops[k].index = i /\ t.ops[k].type # "FREE"
                                       /\ \A m \in k + 1 .. n : t.ops[m].index # i
                                                             \/ t.ops[m].type # "FREE"}
Live == LiveAfter(trace, op)

\* checktrace.pl accepts a trace: only a block that is free is allocated, and
\* only one that is not is reallocated or freed.
Consistent(t) == \A n \in 1 .. Len(t.ops) :
                   t.ops[n].type = "ALLOC" <=> t.ops[n].index \notin LiveAfter(t, n - 1)
FilesConsistent == \A f \in Files : \A i \in DOMAIN f : Consistent(f[i])

\* What is wrong with an answer, seen with the payloads of all live blocks: a
\* payload that encloses another is a case of its own.
Broken(index, lo, size, top) ==
  LET Meets(j) == Payload(lo, size) \cap Payload(blocks[j], block_sizes[j]) # {}
      others   == {j \in Live \ {index} : Meets(j)}
  IN  (IF IsAligned(lo) THEN {} ELSE {"misaligned"})
      \cup (IF InHeap(lo, size, top) THEN {} ELSE {"outside"})
      \cup (IF \E j \in others : ~ /\ lo < blocks[j]
                                   /\ blocks[j] + block_sizes[j] < lo + size
            THEN {"overlaps"} ELSE {})
      \cup (IF others # {} THEN {"meets"} ELSE {})

memset(m, lo, size, value) == [a \in Heap |-> IF a \in Payload(lo, size) THEN value ELSE m[a]]

\* Mutant: the error is not counted.
RejectSilently == /\ UNCHANGED errors /\ valid' = Append(valid, FALSE)
                  /\ util' = Append(util, <<0, 1>>) /\ Go("mm_next")

\* malloc_error and return 0; free_trace.
Reject == /\ errors' = errors + 1 /\ valid' = Append(valid, FALSE)
          /\ util' = Append(util, <<0, 1>>) /\ Go("mm_next")

clear_ranges == {}

\* mem_reset_brk, clear_ranges and mm_init, which takes some of the heap.
mm_init == /\ phase = "mm_init"
           /\ brk' \in Brks /\ mem' = AnyHeap /\ ranges' = clear_ranges
           /\ \/ Go("mm_valid") /\ faults' = {} /\ UNCHANGED statVars
              \/ Reject /\ faults' = {"init"}
           /\ UNCHANGED <<mainVars, tracenum, op, blocks, block_sizes, total_size, max_total_size,
                          timingVars>>

\* The driver takes a block whose memory is m: it fills and records it.
Accept(R, m, lo) ==
  /\ ranges' = R \cup {<<lo, lo + request.size - 1>>}
  /\ mem' = memset(m, lo, request.size, Low[request.index])
  /\ blocks' = [blocks EXCEPT ![request.index] = lo]
  /\ block_sizes' = [block_sizes EXCEPT ![request.index] = request.size]
  /\ op' = op + 1 /\ UNCHANGED <<statVars, phase, outcome>>

Refuse == Reject /\ UNCHANGED <<op, mem, blocks, block_sizes>>

\* assert(size > 0)
AssertFails == Exit("abort") /\ UNCHANGED <<statVars, op, mem, blocks, block_sizes>>

AnswersNull == /\ Refuse /\ faults' = faults \cup {"null"}
               /\ UNCHANGED <<brk, ranges>>

\* A round of eval_mm_valid.
mm_malloc ==
  /\ phase = "mm_valid" /\ Request("ALLOC")
  /\ \/ AnswersNull
     \/ \E lo \in Addresses, top \in {b \in Brks : b >= brk} :
           /\ brk' = top
           /\ faults' = faults \cup Broken(request.index, lo, request.size, top)
           /\ IF request.size = 0 THEN AssertFails /\ UNCHANGED ranges
              ELSE IF ~ RangeOK(ranges, lo, request.size, top) THEN Refuse /\ UNCHANGED ranges
              ELSE Accept(ranges, mem, lo)
  /\ UNCHANGED <<mainVars, tracenum, total_size, max_total_size, timingVars>>

\* The memory once the allocator has moved the data, or not.
Moved(from, to, n, kept) ==
  [a \in Heap |-> IF kept /\ a \in to .. to + n - 1 THEN mem[from + a - to] ELSE mem[a]]

\* A char that holds a larger byte is negative, and differs from any index & 0xFF.
Same(byte, index) == byte = Low[index] /\ byte =< CharMax

mm_realloc ==
  /\ phase = "mm_valid" /\ Request("REALLOC")
  /\ \/ AnswersNull
     \/ \E lo \in Addresses, top \in {b \in Brks : b >= brk}, kept \in BOOLEAN :
           LET index == request.index
               oldp  == blocks[index]
               n     == IF request.size < block_sizes[index] THEN request.size
                                                             ELSE block_sizes[index]
               rest  == remove_range(ranges, oldp)
               moved == IF InHeap(lo, request.size, top) THEN Moved(oldp, lo, n, kept) ELSE mem
               lost  == /\ InHeap(lo, request.size, top)
                        /\ \E j \in 0 .. n - 1 : moved[lo + j] # mem[oldp + j]
           IN  /\ brk' = top
               /\ faults' = faults \cup Broken(index, lo, request.size, top)
                                   \cup IF lost THEN {"lost"} ELSE {}
               /\ IF request.size = 0 THEN AssertFails /\ ranges' = rest
                  ELSE IF ~ RangeOK(rest, lo, request.size, top) THEN Refuse /\ ranges' = rest
                  ELSE IF \E j \in 0 .. n - 1 : ~ Same(moved[lo + j], index)
                       THEN Refuse /\ ranges' = rest \cup {<<lo, lo + request.size - 1>>}
                  ELSE Accept(rest, moved, lo)
  /\ UNCHANGED <<mainVars, tracenum, total_size, max_total_size, timingVars>>

mm_free == /\ phase = "mm_valid" /\ Request("FREE")
           /\ ranges' = remove_range(ranges, blocks[request.index]) /\ op' = op + 1
           /\ UNCHANGED <<mainVars, phase, outcome, tracenum, heapVars, blocks, block_sizes,
                          total_size, max_total_size, statVars, faults, timingVars>>

\* eval_mm_valid returns 1.
IsValid == /\ phase = "mm_valid" /\ Done
           /\ Go("util_init") /\ valid' = Append(valid, TRUE)
           /\ UNCHANGED <<mainVars, tracenum, op, heapVars, traceVars, errors, util, timingVars>>

\* The libc malloc is tested with the same requests, and one that fails ends
\* the driver.
eval_libc_valid ==
  /\ phase = "libc_valid"
  /\ \/ Go("libc_speed") /\ UNCHANGED errors
     \/ Exit("1") /\ errors' = errors + 1
  /\ UNCHANGED <<mainVars, tracenum, op, heapVars, traceVars, valid, util, timingVars>>

-----------------------------------------------------------------------------
(* Utilization and speed *)

Greatest(m, n) == IF m > n THEN m ELSE n
SizeOfLive == LET Sum[I \in SUBSET DOMAIN Low] ==
                    IF I = {} THEN 0
                    ELSE LET i == CHOOSE i \in I : TRUE IN block_sizes[i] + Sum[I \ {i}]
              IN  Sum[Live]

util_init == /\ phase = "util_init"
             /\ \/ Go("mm_util") /\ brk' \in Brks
                \/ Exit("1") /\ brk' = 0
             /\ op' = 0 /\ mem' = AnyHeap /\ blocks' = NoBlocks
             /\ total_size' = 0 /\ max_total_size' = 0
             /\ UNCHANGED <<mainVars, tracenum, ranges, block_sizes, faults, statVars,
                            timingVars>>

\* Mutant: a reallocated block counts twice.
ChangeAdds == CASE request.type = "FREE" -> - block_sizes[request.index]
                [] OTHER -> request.size

\* By how much a request changes total_size.
Change == CASE request.type = "ALLOC"   -> request.size
            [] request.type = "REALLOC" -> request.size - block_sizes[request.index]
            [] request.type = "FREE"    -> - block_sizes[request.index]

\* A round of eval_mm_util.  Without faults, the payloads have room.
eval_mm_util ==
  /\ phase = "mm_util" /\ ~ Done
  /\ UNCHANGED <<mainVars, tracenum, mem, ranges, blocks, faults, statVars, timingVars>>
  /\ \/ /\ op' = op + 1 /\ total_size' = total_size + Change
        /\ block_sizes' = IF request.type = "FREE" THEN block_sizes
                          ELSE [block_sizes EXCEPT ![request.index] = request.size]
        /\ max_total_size' = IF request.type = "FREE" THEN max_total_size
                             ELSE Greatest(total_size', max_total_size)
        /\ brk' \in {b \in Brks : b >= brk} /\ (faults = {} => SizeOfLive' =< brk')
        /\ UNCHANGED <<phase, outcome>>
     \/ /\ request.type # "FREE" /\ Exit("1")
        /\ UNCHANGED <<op, brk, total_size, max_total_size, block_sizes>>

util_end == /\ phase = "mm_util" /\ Done /\ Go("mm_speed")
            /\ util' = Append(util, <<max_total_size, brk>>)
            /\ UNCHANGED <<mainVars, tracenum, op, heapVars, traceVars, errors, valid, timingVars>>

\* One call of the timed function by the timing package.  A request that is
\* answered with NULL ends the driver.
Timed == \/ FReturns /\ UNCHANGED <<phase, outcome>>
         \/ step = "f" /\ Exit("1") /\ UNCHANGED timingVars

\* The heap is reset, and what the requests then make of it nobody reads.
eval_mm_speed == /\ phase = "mm_secs" /\ Timed /\ brk' = 0
                 /\ UNCHANGED <<mainVars, tracenum, op, mem, traceVars, statVars>>

eval_libc_speed == /\ phase = "libc_secs" /\ Timed
                   /\ UNCHANGED <<mainVars, tracenum, op, heapVars, traceVars, statVars>>

Next == \/ options \/ read_trace \/ loop_end \/ StartFsecs \/ Timer \/ EndFsecs
        \/ mm_init \/ mm_malloc \/ mm_realloc \/ mm_free \/ IsValid \/ eval_libc_valid
        \/ util_init \/ eval_mm_util \/ util_end
        \/ eval_mm_speed \/ eval_libc_speed

Spec == Init /\ [][Next]_vars

\* The functions of the allocator return, and the clock ticks while callibrate
\* spins.
Ticks == Timer /\ step = "callibrate" /\ (newc' + e' > newc + e \/ step' # step)
Fairness == WF_vars(Next) /\ WF_vars(Ticks)
FairSpec == Spec /\ Fairness

-----------------------------------------------------------------------------
(***************************************************************************)
(* Properties                                                              *)
(***************************************************************************)

TypeOK == /\ TimingTypeOK
          /\ brk \in 0 .. MaxHeap /\ mem \in [Heap -> {Low[i] : i \in DOMAIN Low} \cup {Junk}]
          /\ ranges \subseteq Addresses \X Heap
          /\ blocks \in [DOMAIN Low -> Addresses \cup {Null}]
          /\ {tracenum, op, total_size, max_total_size, errors} \subseteq Nat
          /\ Len(util) =< Len(valid)

\* The records are the payloads of the live blocks, and each of them is
\* aligned and in the heap.
RangesAreBlocks ==
  phase = "mm_valid" =>
    /\ ranges = {<<blocks[i], blocks[i] + block_sizes[i] - 1>> : i \in Live}
    /\ Cardinality(ranges) = Cardinality(Live)
    /\ \A r \in ranges : IsAligned(r[1]) /\ InHeap(r[1], r[2] - r[1] + 1, brk)

\* The verdict on the trace that was judged last is right: an allocator that
\* is rejected has broken a promise, and one that is accepted has not.  There
\* are two exceptions: a payload that encloses an older one passes, and what
\* that one held is then gone; and a block whose index has a low byte above 127
\* is never found to have kept its data.
Judged == tracenum > 0 /\ Len(valid) = tracenum
Misread == Request("REALLOC") /\ Low[request.index] > CharMax
VerdictIsRight ==
  Judged => IF valid[tracenum]
            THEN faults = {} \/ ("meets" \in faults /\ faults \subseteq {"meets", "lost"})
            ELSE faults # {} \/ Misread

\* The high-water mark that the utilization is computed from is the most that
\* was ever live, and fits the heap of an allocator without faults.
UtilizationRight == phase = "mm_util" => /\ total_size = SizeOfLive
                                         /\ total_size =< max_total_size
                                         /\ faults = {} => max_total_size =< brk

\* An index is printed exactly when every trace was valid.
IndexMeansValid == outcome \in {"index", "errors"} =>
                     /\ Len(valid) = Len(files) /\ Len(util) = Len(files)
                     /\ outcome = "index" <=> \A i \in DOMAIN files : valid[i]

\* Whatever the allocator and the clocks do, the driver comes to an end.
DriverEnds == <>(phase = "exited")
=============================================================================
