--------------------------------- MODULE Rio ---------------------------------
(***************************************************************************)
(* The robust I/O package of proxy/lab/csapp.c: one descriptor, used by    *)
(* one thread, either for buffered reads (rio_readlineb and rio_readnb in  *)
(* any order), for unbuffered reads (rio_readn) or for writes              *)
(* (rio_writen).  The kernel moves as many bytes as it likes, is           *)
(* interrupted by signals, fails, and reports the end of the stream.       *)
(*                                                                         *)
(* A call is a loop around read or write, and each round is a step.  What  *)
(* memcpy and the kernel put into the caller's buffers, call after call,   *)
(* is got; for rio_writen, got is what the kernel took.                    *)
(***************************************************************************)
EXTENDS Integers, Sequences

CONSTANTS Byte, NL,   \* the bytes, and the newline
          BufSize,    \* RIO_BUFSIZE
          Lens,       \* the lengths callers pass
          Streams     \* what the peer sends (or is sent)

ASSUME RioAssumption == /\ NL \in Byte /\ BufSize \in Nat \ {0}
                        /\ Lens \subseteq Nat /\ Streams \subseteq Seq(Byte)

VARIABLES mode,     \* "readb", "readn" or "writen": how the descriptor is used
          stream,   \* the bytes sent through the descriptor
          arrived,  \* how many of them the kernel has received from the peer
          ended,    \* the peer has closed
          taken,    \* how many bytes read() has returned
          rio_buf, rio_ptr, rio_cnt,  \* rio_t; rio_ptr is an index
          op,       \* the call in progress: "line", "n", or "idle"
          len,      \* its length argument
          start,    \* Len(got) when it began
          rc,       \* what the last call returned
          got       \* see above

kernelVars == <<stream, arrived, ended>>
bufVars    == <<rio_buf, rio_ptr, rio_cnt>>
callVars   == <<op, len, start, rc>>
vars == <<mode, stream, arrived, ended, taken, rio_buf, rio_ptr, rio_cnt,
          op, len, start, rc, got>>

Slots == 0 .. BufSize - 1
Least(m, n) == IF m < n THEN m ELSE n

\* The bytes that this call has moved.
Done == Len(got) - start

\* rio_readinitb; the array is as the stack left it.
Init == /\ mode \in {"readb", "readn", "writen"}
        /\ stream \in Streams /\ arrived = 0 /\ ended = FALSE /\ taken = 0
        /\ rio_buf = [i \in Slots |-> NL] /\ rio_ptr = 0 /\ rio_cnt = 0
        /\ op = "idle" /\ len = 0 /\ start = 0 /\ rc = 0 /\ got = <<>>

-----------------------------------------------------------------------------
(* The peer and the kernel *)

Arrive == /\ ~ ended /\ arrived < Len(stream)
          /\ arrived' = arrived + 1
          /\ UNCHANGED <<mode, stream, ended, taken, bufVars, callVars, got>>

PeerClose == /\ ~ ended /\ ended' = TRUE
             /\ UNCHANGED <<mode, stream, arrived, taken, bufVars, callVars, got>>

\* How many bytes read(fd, buf, n) may return, when it returns bytes.
Counts(n) == 1 .. Least(n, arrived - taken)

\* read returns 0.
EOF == ended /\ taken = arrived

-----------------------------------------------------------------------------
(* The calls *)

\* The loop of a call, none of whose rounds has run, ends at once for a
\* length of 0, and for a line of which nothing fits beside the NUL.
Call == /\ op = "idle"
        /\ \E n \in Lens, o \in IF mode = "readb" THEN {"line", "n"} ELSE {"n"} :
              /\ mode = "writen" => Len(got) + n =< Len(stream)
              /\ len' = n /\ start' = Len(got)
              /\ IF n = 0 \/ (o = "line" /\ n = 1) THEN op' = "idle" /\ rc' = 0
                                                   ELSE op' = o /\ UNCHANGED rc
        /\ UNCHANGED <<mode, kernelVars, taken, bufVars, got>>

Return(n) == op' = "idle" /\ rc' = n /\ UNCHANGED <<len, start>>

\* The call goes on unless it is finished.
ReturnIf(finished, n) == IF finished THEN Return(n) ELSE UNCHANGED callVars

\* n bytes of array from place i on go to the caller, or to the kernel.
Move(array, i, n) ==
  got' = [j \in 1 .. Len(got) + n |->
            IF j =< Len(got) THEN got[j] ELSE array[i + j - Len(got) - 1]]

\* rio_read, the loop: the buffer is empty.
Empty == mode = "readb" /\ op # "idle" /\ rio_cnt =< 0

Fill == /\ Empty
        /\ \E k \in Counts(BufSize) :
              /\ rio_buf' = [i \in Slots |-> IF i < k THEN stream[taken + i + 1] ELSE rio_buf[i]]
              /\ rio_cnt' = k /\ rio_ptr' = 0 /\ taken' = taken + k
        /\ UNCHANGED <<mode, kernelVars, callVars, got>>

\* read returns -1 with EINTR, and is called again.
FillInterrupted == /\ Empty /\ rio_cnt' = -1
                   /\ UNCHANGED <<mode, kernelVars, taken, rio_buf, rio_ptr, callVars, got>>

\* Another error ends the call with -1, whatever it has moved.
FillError == /\ Empty /\ rio_cnt' = -1 /\ Return(-1)
             /\ UNCHANGED <<mode, kernelVars, taken, rio_buf, rio_ptr, got>>

\* Mutant: the loop of rio_readnb ignores that rio_read returned 0.
FillEOFOnlyLine == /\ Empty /\ EOF /\ rio_cnt' = 0 /\ ReturnIf(op = "line", Done)
                   /\ UNCHANGED <<mode, kernelVars, taken, rio_buf, rio_ptr, got>>

\* End of file: both callers return what they have.
FillEOF == /\ Empty /\ EOF /\ rio_cnt' = 0 /\ Return(Done)
           /\ UNCHANGED <<mode, kernelVars, taken, rio_buf, rio_ptr, got>>

\* Mutant: the pointer stays where it is.
CopyNoAdvance(n) == LET cnt == Least(n, rio_cnt)
                    IN  /\ mode = "readb" /\ rio_cnt > 0
                        /\ Move(rio_buf, rio_ptr, cnt)
                        /\ rio_cnt' = rio_cnt - cnt
                        /\ UNCHANGED <<mode, kernelVars, taken, rio_buf, rio_ptr>>

\* rio_read, the end: min(n, rio_cnt) bytes go from the buffer to the caller.
Copy(n) == LET cnt == Least(n, rio_cnt)
           IN  /\ mode = "readb" /\ rio_cnt > 0
               /\ Move(rio_buf, rio_ptr, cnt)
               /\ rio_ptr' = rio_ptr + cnt /\ rio_cnt' = rio_cnt - cnt
               /\ UNCHANGED <<mode, kernelVars, taken, rio_buf>>

\* Mutant: the limit of a line leaves no room for the NUL.
rio_readlineb_long ==
  /\ op = "line" /\ Copy(1)
  /\ ReturnIf(rio_buf[rio_ptr] = NL \/ Done + 1 = len, Done + 1)

\* One round of rio_readlineb.
rio_readlineb == /\ op = "line" /\ Copy(1)
                 /\ ReturnIf(rio_buf[rio_ptr] = NL \/ Done + 2 = len, Done + 1)

\* One round of rio_readnb.
rio_readnb == /\ op = "n" /\ Copy(len - Done)
              /\ ReturnIf(Len(got') - start = len, len)

\* One round of rio_readn: read puts bytes straight into the caller's buffer.
rio_readn ==
  /\ mode = "readn" /\ op = "n"
  /\ \/ \E k \in Counts(len - Done) :
           /\ Move(stream, taken + 1, k) /\ taken' = taken + k
           /\ ReturnIf(Done + k = len, len)
     \/ EOF /\ Return(Done) /\ UNCHANGED <<taken, got>>
     \/ Return(-1) /\ UNCHANGED <<taken, got>>
  /\ UNCHANGED <<mode, kernelVars, bufVars>>

\* One round of rio_writen: write takes some of the bytes that are left.
rio_writen ==
  /\ mode = "writen" /\ op = "n"
  /\ \/ \E k \in 1 .. len - Done :
           Move(stream, Len(got) + 1, k) /\ ReturnIf(Done + k = len, len)
     \/ Return(-1) /\ UNCHANGED got
  /\ UNCHANGED <<mode, kernelVars, taken, bufVars>>

Round == \/ Fill \/ FillInterrupted \/ FillError \/ FillEOF
         \/ rio_readlineb \/ rio_readnb \/ rio_readn \/ rio_writen

Next == Arrive \/ PeerClose \/ Call \/ Round

Spec == Init /\ [][Next]_vars

\* Nothing is assumed of the peer, and a call may wait for it for ever; but
\* once the peer has closed, neither read nor write waits.
FairSpec == Spec /\ WF_vars(ended /\ Round)

-----------------------------------------------------------------------------
(***************************************************************************)
(* Properties                                                              *)
(***************************************************************************)

TypeOK == /\ mode \in {"readb", "readn", "writen"}
          /\ stream \in Seq(Byte) /\ got \in Seq(Byte)
          /\ arrived \in Nat /\ ended \in BOOLEAN /\ taken \in Nat
          /\ rio_buf \in [Slots -> Byte] /\ rio_ptr \in 0 .. BufSize /\ rio_cnt \in Int
          /\ op \in {"idle", "line", "n"} /\ len \in Nat /\ start \in Nat /\ rc \in Int

\* Whatever the mixture of calls, short counts and interruptions, the callers
\* get the bytes of the stream in order, each one once.
ImplementsByteStream == INSTANCE ByteStream
StreamKept == ImplementsByteStream!Spec

\* The bytes of the call that began last.
Piece == [i \in 1 .. Done |-> got[start + i]]

\* A call of rio_readlineb moves no byte after a newline, and leaves room for
\* the NUL.  A call that has returned without an error says how many bytes it
\* moved, and when those are fewer than asked for, the line or the stream has
\* ended.
AtNewline == Done > 0 /\ Piece[Done] = NL
AtEnd     == ended /\ taken = arrived /\ rio_cnt = 0
ResultsRight == /\ op = "line" => Done < len - 1 /\ \A i \in 1 .. Done : Piece[i] # NL
                /\ op = "n" => Done < len
                /\ op = "idle" /\ rc # -1 => rc = Done /\ rc =< len
                /\ op = "idle" /\ rc # -1 /\ rc < len - 1 => AtNewline \/ AtEnd

\* A call returns when the peer has closed, even if it never gets what it
\* asked for.
CallsReturn == ended /\ op # "idle" ~> op = "idle"
=============================================================================
