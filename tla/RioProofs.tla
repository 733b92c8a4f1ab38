------------------------------ MODULE RioProofs ------------------------------
(***************************************************************************)
(* The robust I/O package hands over the bytes of the stream in order,     *)
(* each one once, for every stream, every size of the buffer and every     *)
(* mixture of calls.  The argument: the unread part of rio_buf is the part *)
(* of the stream between what was handed over and what read() returned.    *)
(***************************************************************************)
EXTENDS Rio, SequenceTheorems, TLAPS

\* The bytes that wait in the buffer.
Unread == IF rio_cnt > 0 THEN rio_cnt ELSE 0

\* What read() has returned the peer has sent.
KernelOK == taken =< arrived /\ arrived =< Len(stream)

\* The callers have a prefix of the stream.
Prefix == /\ Len(got) =< Len(stream)
          /\ \A j \in 1 .. Len(got) : got[j] = stream[j]

\* The buffer holds what comes next.
BufferOK == mode = "readb" =>
              /\ Len(got) = taken - Unread
              /\ rio_cnt > 0 =>
                   /\ rio_ptr + rio_cnt =< BufSize
                   /\ \A i \in 0 .. rio_cnt - 1 :
                         rio_buf[rio_ptr + i] = stream[Len(got) + 1 + i]

\* The other two kinds of descriptor have no buffer.
DirectOK == /\ mode = "readn" => Len(got) = taken
            /\ mode = "writen" /\ op # "idle" => start + len =< Len(stream)
            /\ mode # "readb" => op # "line" /\ rio_cnt = 0

\* A call has moved no more than it was asked for.
CallOK == start =< Len(got)

IInv == TypeOK /\ KernelOK /\ Prefix /\ BufferOK /\ DirectOK /\ CallOK /\ ResultsRight

-----------------------------------------------------------------------------
\* Least is the minimum of two numbers.
LEMMA LeastIsMin == \A m, n \in Int : /\ Least(m, n) \in {m, n}
                                      /\ Least(m, n) =< m /\ Least(m, n) =< n
BY DEF Least

\* Bytes that are the next ones of the stream extend the prefix.
LEMMA MoveExtends ==
  ASSUME TypeOK, Prefix, NEW array, NEW i \in Int, NEW k \in Nat,
         Len(got) + k =< Len(stream),
         \A j \in 1 .. k : array[i + j - 1] = stream[Len(got) + j],
         Move(array, i, k)
  PROVE  /\ got' = [j \in 1 .. Len(got) + k |-> stream[j]]
         /\ got' \in Seq(Byte) /\ Len(got') = Len(got) + k
         /\ \A j \in 1 .. Len(got') : got'[j] = stream[j]
         /\ \A j \in 1 .. Len(got) : got'[j] = got[j]
<1>1. Len(got) \in Nat /\ Len(stream) \in Nat
  BY LenProperties DEF TypeOK
<1>2. \A j \in 1 .. Len(got) + k :
         (IF j =< Len(got) THEN got[j] ELSE array[i + j - Len(got) - 1]) = stream[j]
  <2> SUFFICES ASSUME NEW j \in 1 .. Len(got) + k
               PROVE  (IF j =< Len(got) THEN got[j] ELSE array[i + j - Len(got) - 1]) = stream[j]
    OBVIOUS
  <2>1. CASE j =< Len(got)
    BY <1>1, <2>1 DEF Prefix
  <2>2. CASE ~ (j =< Len(got))
    <3> DEFINE m == j - Len(got)
    <3>1. m \in 1 .. k
      BY <1>1, <2>2
    <3>2. array[i + m - 1] = stream[Len(got) + m]
      BY <3>1
    <3>3. i + m - 1 = i + j - Len(got) - 1 /\ Len(got) + m = j
      BY <1>1
    <3> QED BY <2>2, <3>2, <3>3
  <2> QED BY <2>1, <2>2
<1>3. got' = [j \in 1 .. Len(got) + k |-> stream[j]]
  BY <1>2 DEF Move
<1>4. \A j \in 1 .. Len(got) + k : stream[j] \in Byte
  BY <1>1, ElementOfSeq DEF TypeOK
<1>5. got' \in [1 .. Len(got) + k -> Byte]
  BY <1>3, <1>4
<1>6. got' \in Seq(Byte)
  BY <1>1, <1>5, SeqDef
<1>7. Len(got') = Len(got) + k
  BY <1>1, <1>5, <1>6, LenProperties
<1> QED BY <1>1, <1>3, <1>6, <1>7 DEF Prefix

-----------------------------------------------------------------------------
\* Every action keeps the invariant.
LEMMA InitInv == Init => IInv
<1> SUFFICES ASSUME Init PROVE IInv
  OBVIOUS
<1>1. Len(got) = 0 /\ got \in Seq(Byte)
  BY EmptySeq DEF Init
<1>2. stream \in Seq(Byte) /\ Len(stream) \in Nat
  BY RioAssumption, LenProperties DEF Init
<1>3. TypeOK /\ KernelOK /\ Prefix /\ BufferOK /\ DirectOK /\ CallOK
  BY <1>1, <1>2, RioAssumption
  DEF Init, TypeOK, KernelOK, Prefix, BufferOK, Unread, DirectOK, CallOK, Slots
<1>4. ResultsRight
  BY <1>1 DEF Init, ResultsRight, Done
<1> QED BY <1>3, <1>4 DEF IInv

\* The peer moves nothing.
LEMMA PeerInv == IInv /\ (Arrive \/ PeerClose) => IInv'
<1> SUFFICES ASSUME IInv, Arrive \/ PeerClose PROVE IInv'
  OBVIOUS
<1>0. Len(stream) \in Nat
  BY LenProperties DEF IInv, TypeOK
<1>1. /\ UNCHANGED <<mode, stream, taken, rio_buf, rio_ptr, rio_cnt, op, len, start, rc, got>>
      /\ arrived' \in Nat /\ taken =< arrived' /\ arrived' =< Len(stream)
  BY <1>0 DEF Arrive, PeerClose, bufVars, callVars, IInv, TypeOK, KernelOK
<1>2. /\ ended' \in BOOLEAN
      /\ ended => ended' /\ arrived' = arrived
  BY Zenon DEF Arrive, PeerClose, IInv, TypeOK
<1> USE <1>1, <1>2
<1>3. TypeOK' /\ KernelOK'
  BY DEF IInv, TypeOK, KernelOK
<1>4. Prefix' /\ BufferOK' /\ DirectOK' /\ CallOK'
  BY DEF IInv, Prefix, BufferOK, Unread, DirectOK, CallOK
<1>5. AtEnd => AtEnd'
  BY DEF AtEnd
<1>6. ResultsRight'
  BY <1>5 DEF IInv, ResultsRight, AtNewline, Piece, Done
<1> QED BY <1>3, <1>4, <1>6 DEF IInv

\* The invariant, when a call begins.
LEMMA CallInv == IInv /\ Call => IInv'
<1> SUFFICES ASSUME IInv, Call PROVE IInv'
  OBVIOUS
<1>1. Len(got) \in Nat /\ Len(stream) \in Nat
  BY LenProperties DEF IInv, TypeOK
<1>2. PICK n \in Lens, o \in IF mode = "readb" THEN {"line", "n"} ELSE {"n"} :
         /\ mode = "writen" => Len(got) + n =< Len(stream)
         /\ len' = n /\ start' = Len(got)
         /\ IF n = 0 \/ (o = "line" /\ n = 1) THEN op' = "idle" /\ rc' = 0
                                             ELSE op' = o /\ UNCHANGED rc
  BY DEF Call
<1>3. n \in Nat
  BY RioAssumption
<1> USE DEF kernelVars, bufVars
<1>4. UNCHANGED <<mode, stream, arrived, ended, taken, rio_buf, rio_ptr, rio_cnt, got>>
  BY DEF Call
<1>5. TypeOK'
  BY <1>1, <1>2, <1>3, <1>4 DEF IInv, TypeOK
<1>6. KernelOK' /\ Prefix' /\ BufferOK'
  BY <1>4 DEF IInv, KernelOK, Prefix, BufferOK, Unread
<1>7. DirectOK' /\ CallOK'
  BY <1>1, <1>2, <1>3, <1>4 DEF IInv, DirectOK, CallOK, Call
<1>8. Done' = 0
  BY <1>1, <1>2, <1>4 DEF Done
<1>9. ResultsRight'
  BY <1>2, <1>3, <1>8 DEF ResultsRight
<1> QED BY <1>5, <1>6, <1>7, <1>9 DEF IInv

\* Filling the buffer moves nothing to the caller.
LEMMA FillInv == IInv /\ (Fill \/ FillInterrupted \/ FillError \/ FillEOF) => IInv'
<1> SUFFICES ASSUME IInv, Fill \/ FillInterrupted \/ FillError \/ FillEOF PROVE IInv'
  OBVIOUS
<1> USE DEF kernelVars, bufVars, callVars
<1>1. /\ mode = "readb" /\ op \in {"line", "n"} /\ rio_cnt =< 0 /\ Len(got) = taken
      /\ Len(got) \in Nat /\ Len(stream) \in Nat
  BY LenProperties DEF Fill, FillInterrupted, FillError, FillEOF, Empty, IInv, BufferOK, Unread, TypeOK
<1>2. CASE Fill
  <2>1. PICK k \in Counts(BufSize) :
           /\ rio_buf' = [i \in Slots |-> IF i < k THEN stream[taken + i + 1] ELSE rio_buf[i]]
           /\ rio_cnt' = k /\ rio_ptr' = 0 /\ taken' = taken + k
    BY <1>2 DEF Fill
  <2>2. UNCHANGED <<mode, stream, arrived, ended, op, len, start, rc, got>>
    BY <1>2 DEF Fill
  <2>3. k \in Nat /\ k > 0 /\ k =< BufSize /\ taken + k =< arrived /\ taken + k =< Len(stream)
    BY LeastIsMin, RioAssumption, <1>1 DEF Counts, IInv, TypeOK, KernelOK
  <2>4. \A i \in 0 .. k - 1 : rio_buf'[i] = stream[Len(got) + 1 + i]
    BY <1>1, <2>1, <2>3, RioAssumption DEF Slots, IInv, TypeOK
  <2>5. rio_buf' \in [Slots -> Byte]
    <3>1. \A i \in Slots : i < k => stream[taken + i + 1] \in Byte
      BY <2>3, RioAssumption, ElementOfSeq DEF Slots, IInv, TypeOK
    <3> QED BY <2>1, <3>1 DEF IInv, TypeOK
  <2>6. TypeOK' /\ KernelOK'
    BY <2>1, <2>2, <2>3, <2>5, RioAssumption DEF IInv, TypeOK, KernelOK
  <2>7. Prefix' /\ DirectOK' /\ CallOK'
    BY <1>1, <2>2 DEF IInv, Prefix, DirectOK, CallOK
  <2>10. rio_cnt' > 0 /\ Unread' = k /\ Len(got') = taken' - k
    <3>1. rio_cnt' > 0
      BY <2>1, <2>3
    <3>2. Unread' = k
      BY <2>1, <3>1 DEF Unread
    <3>3. taken \in Nat
      BY DEF IInv, TypeOK
    <3> QED BY <1>1, <2>1, <2>2, <2>3, <3>1, <3>2, <3>3
  <2>11. rio_ptr' + rio_cnt' =< BufSize
    BY <2>1, <2>3
  <2>12. \A i \in 0 .. rio_cnt' - 1 : rio_buf'[rio_ptr' + i] = stream'[Len(got') + 1 + i]
    <3> SUFFICES ASSUME NEW i \in 0 .. k - 1
                 PROVE  rio_buf'[rio_ptr' + i] = stream[Len(got) + 1 + i]
      BY <2>1, <2>2
    <3>1. rio_ptr' + i = i
      BY <2>1, <2>3
    <3> QED BY <2>4, <3>1
  <2>9. BufferOK'
    <3>1. Len(got') = taken' - Unread'
      BY <2>10
    <3> QED BY <2>11, <2>12, <3>1 DEF BufferOK
  <2>8. ResultsRight'
    BY <1>1, <2>2 DEF IInv, ResultsRight, AtNewline, Piece, Done
  <2> QED BY <2>6, <2>7, <2>8, <2>9 DEF IInv
<1>3. CASE FillInterrupted
  <2>1. UNCHANGED <<mode, stream, arrived, ended, taken, rio_buf, rio_ptr, op, len, start, rc, got>> /\ rio_cnt' = -1
    BY <1>3 DEF FillInterrupted
  <2>2. Prefix' /\ BufferOK' /\ DirectOK' /\ CallOK'
    BY <1>1, <2>1 DEF IInv, Prefix, BufferOK, Unread, DirectOK, CallOK
  <2>4. TypeOK' /\ KernelOK'
    BY <1>1, <2>1 DEF IInv, TypeOK, KernelOK
  <2>3. ResultsRight'
    BY <1>1, <2>1 DEF IInv, ResultsRight, AtNewline, Piece, Done
  <2> QED BY <2>2, <2>3, <2>4 DEF IInv
<1>4. CASE FillError \/ FillEOF
  <2>1. /\ UNCHANGED <<mode, stream, arrived, ended, taken, rio_buf, rio_ptr, len, start, got>>
        /\ op' = "idle" /\ rio_cnt' \in {-1, 0}
        /\ rc' = -1 \/ (rc' = Done /\ ended /\ taken = arrived /\ rio_cnt' = 0)
    BY <1>4 DEF FillError, FillEOF, Return, EOF
  <2>2. Done \in Nat /\ Done' = Done
    BY <1>1, <2>1 DEF IInv, CallOK, TypeOK, Done
  <2>3. Prefix' /\ DirectOK' /\ CallOK'
    BY <1>1, <2>1 DEF IInv, Prefix, DirectOK, CallOK
  <2>8. Unread' = 0 /\ ~ (rio_cnt' > 0)
    BY <2>1 DEF Unread
  <2>7. BufferOK'
    <3>1. Len(got') = taken' - Unread'
      BY <1>1, <2>1, <2>8
    <3> QED BY <2>8, <3>1 DEF BufferOK
  <2>6. TypeOK' /\ KernelOK'
    BY <2>1, <2>2 DEF IInv, TypeOK, KernelOK
  <2>4. Done < len /\ len \in Nat
    BY <1>1, <2>2 DEF IInv, ResultsRight, TypeOK
  <2>5. ResultsRight'
    BY <2>1, <2>2, <2>4 DEF ResultsRight, AtEnd
  <2> QED BY <2>3, <2>5, <2>6, <2>7 DEF IInv
<1> QED BY <1>2, <1>3, <1>4

-----------------------------------------------------------------------------
(* The rounds that move bytes *)

\* What a round that moves k bytes does to got.
Moved(k) == /\ got' = [j \in 1 .. Len(got) + k |-> stream[j]]
            /\ got' \in Seq(Byte) /\ Len(got') = Len(got) + k
            /\ \A j \in 1 .. Len(got) : got'[j] = got[j]

\* Copy moves the next bytes of the stream, and leaves the rest in the buffer.
LEMMA CopyMoves ==
  ASSUME IInv, NEW n \in Nat, n > 0, Copy(n)
  PROVE  /\ Least(n, rio_cnt) \in 1 .. n /\ Moved(Least(n, rio_cnt))
         /\ Prefix' /\ KernelOK' /\ BufferOK'
         /\ rio_ptr' \in 0 .. BufSize /\ rio_cnt' \in Int
<1> DEFINE cnt == Least(n, rio_cnt)
<1>1. /\ mode = "readb" /\ rio_cnt \in Int /\ rio_cnt > 0 /\ rio_ptr \in Nat /\ BufSize \in Nat
      /\ Len(got) \in Nat /\ Len(stream) \in Nat /\ taken \in Nat
      /\ rio_ptr + rio_cnt =< BufSize /\ Len(got) = taken - rio_cnt
      /\ \A i \in 0 .. rio_cnt - 1 : rio_buf[rio_ptr + i] = stream[Len(got) + 1 + i]
      /\ taken =< Len(stream)
  BY LenProperties, RioAssumption DEF Copy, IInv, TypeOK, BufferOK, Unread, KernelOK
<1>2. cnt \in 1 .. n /\ cnt =< rio_cnt
  BY <1>1, LeastIsMin
<1>3. /\ UNCHANGED <<mode, stream, arrived, taken, rio_buf>>
      /\ rio_ptr' = rio_ptr + cnt /\ rio_cnt' = rio_cnt - cnt /\ Move(rio_buf, rio_ptr, cnt)
  BY DEF Copy, kernelVars
<1>4. \A j \in 1 .. cnt : rio_buf[rio_ptr + j - 1] = stream[Len(got) + j]
  <2> SUFFICES ASSUME NEW j \in 1 .. cnt
               PROVE  rio_buf[rio_ptr + j - 1] = stream[Len(got) + j]
    OBVIOUS
  <2>1. j - 1 \in 0 .. rio_cnt - 1
    BY <1>1, <1>2
  <2>2. rio_buf[rio_ptr + (j - 1)] = stream[Len(got) + 1 + (j - 1)]
    BY <1>1, <2>1
  <2>3. rio_ptr + (j - 1) = rio_ptr + j - 1 /\ Len(got) + 1 + (j - 1) = Len(got) + j
    BY <1>1, <1>2
  <2> QED BY <2>2, <2>3
<1> HIDE DEF cnt
<1>8. cnt \in Nat /\ Len(got) + cnt =< Len(stream)
  BY <1>1, <1>2
<1>9. TypeOK /\ Prefix /\ rio_ptr \in Int /\ Move(rio_buf, rio_ptr, cnt)
  BY <1>1, <1>3 DEF IInv
<1>5. Moved(cnt) /\ \A j \in 1 .. Len(got') : got'[j] = stream[j]
  BY <1>4, <1>8, <1>9, MoveExtends DEF Moved
<1>6. Prefix' /\ KernelOK' /\ rio_ptr' \in 0 .. BufSize /\ rio_cnt' \in Int
  BY <1>1, <1>2, <1>3, <1>5 DEF Moved, Prefix, KernelOK, IInv
<1>7. BufferOK'
  <2>1. Len(got') = taken - rio_cnt' /\ rio_ptr' + rio_cnt' =< BufSize
    BY <1>1, <1>2, <1>3, <1>5 DEF Moved
  <2>2. ASSUME NEW i \in 0 .. rio_cnt' - 1
        PROVE  rio_buf[rio_ptr' + i] = stream[Len(got') + 1 + i]
    <3>1. cnt + i \in 0 .. rio_cnt - 1
      BY <1>1, <1>2, <1>3
    <3>2. rio_buf[rio_ptr + (cnt + i)] = stream[Len(got) + 1 + (cnt + i)]
      BY <1>1, <3>1
    <3>3. rio_ptr + (cnt + i) = rio_ptr' + i /\ Len(got) + 1 + (cnt + i) = Len(got') + 1 + i
      BY <1>1, <1>2, <1>3, <1>5 DEF Moved
    <3> QED BY <3>2, <3>3
  <2>3. Unread' = rio_cnt'
    BY <1>1, <1>2, <1>3 DEF Unread
  <2> QED BY <1>1, <1>3, <2>1, <2>2, <2>3 DEF BufferOK
<1> QED BY <1>2, <1>5, <1>6, <1>7 DEF cnt

\* The invariant, after a step of rio_readlineb.
LEMMA LineInv == IInv /\ rio_readlineb => IInv'
<1> SUFFICES ASSUME IInv, rio_readlineb PROVE IInv'
  OBVIOUS
<1> USE DEF callVars
<1>1. /\ op = "line" /\ Copy(1) /\ mode = "readb" /\ rio_cnt \in Int /\ rio_cnt > 0
      /\ UNCHANGED <<mode, stream, arrived, ended, taken, rio_buf, len, start>>
  BY DEF rio_readlineb, Copy, kernelVars, ReturnIf, Return, IInv, TypeOK
<1>2. /\ Moved(1) /\ Prefix' /\ KernelOK' /\ BufferOK'
      /\ rio_ptr' \in 0 .. BufSize /\ rio_cnt' \in Int
  <2>1. Least(1, rio_cnt) = 1
    BY <1>1 DEF Least
  <2> QED BY <1>1, <2>1, CopyMoves
<1>3. /\ Len(got) \in Nat /\ start \in Nat /\ len \in Nat /\ start =< Len(got)
      /\ Done \in Nat /\ Done' = Done + 1 /\ Done < len - 1
      /\ \A i \in 1 .. Done : Piece[i] # NL
  BY <1>1, <1>2, LenProperties DEF IInv, TypeOK, CallOK, ResultsRight, Moved, Done
<1>4. ASSUME NEW i \in 1 .. Done PROVE Piece'[i] = Piece[i]
  <2>1. start + i \in 1 .. Len(got) /\ i \in 1 .. Done'
    BY <1>3 DEF Done
  <2>2. Piece[i] = got[start + i] /\ Piece'[i] = got'[start + i]
    BY <1>1, <2>1 DEF Piece
  <2> QED BY <1>2, <2>1, <2>2 DEF Moved
<1>5. Piece'[Done + 1] = rio_buf[rio_ptr]
  <2>1. Least(1, rio_cnt) = 1
    BY <1>1 DEF Least
  <2>2. got' = [j \in 1 .. Len(got) + 1 |->
                  IF j =< Len(got) THEN got[j] ELSE rio_buf[rio_ptr + j - Len(got) - 1]]
    BY <1>1, <2>1 DEF Copy, Move
  <2>3. rio_ptr + (Len(got) + 1) - Len(got) - 1 = rio_ptr /\ start + (Done + 1) = Len(got) + 1
    BY <1>3 DEF Done, IInv, TypeOK
  <2>4. got'[Len(got) + 1] = rio_buf[rio_ptr]
    BY <1>3, <2>2, <2>3
  <2>5. Piece'[Done + 1] = got'[start + (Done + 1)]
    BY <1>1, <1>3 DEF Piece
  <2> QED BY <2>3, <2>4, <2>5
<1>6. DirectOK' /\ CallOK'
  BY <1>1, <1>2, <1>3 DEF IInv, DirectOK, CallOK, Moved
<1>7. CASE rio_buf[rio_ptr] = NL \/ Done + 2 = len
  <2>1. op' = "idle" /\ rc' = Done + 1
    BY <1>7 DEF rio_readlineb, ReturnIf, Return
  <2>2. TypeOK'
    BY <1>1, <1>2, <1>3, <2>1 DEF IInv, TypeOK, Moved
  <2>3. ResultsRight'
    BY <1>1, <1>3, <1>5, <1>7, <2>1 DEF ResultsRight, AtNewline
  <2> QED BY <1>2, <1>6, <2>2, <2>3 DEF IInv
<1>8. CASE ~ (rio_buf[rio_ptr] = NL \/ Done + 2 = len)
  <2>1. UNCHANGED <<op, rc>>
    BY <1>8 DEF rio_readlineb, ReturnIf
  <2>2. TypeOK'
    BY <1>1, <1>2, <1>3, <2>1 DEF IInv, TypeOK, Moved
  <2>3. ASSUME NEW i \in 1 .. Done + 1 PROVE Piece'[i] # NL
    BY <1>3, <1>4, <1>5, <1>8
  <2>4. ResultsRight'
    BY <1>1, <1>3, <1>8, <2>1, <2>3 DEF ResultsRight
  <2> QED BY <1>2, <1>6, <2>2, <2>4 DEF IInv
<1> QED BY <1>7, <1>8

\* The invariant, after a step of rio_readnb.
LEMMA BytesInv == IInv /\ rio_readnb => IInv'
<1> SUFFICES ASSUME IInv, rio_readnb PROVE IInv'
  OBVIOUS
<1> USE DEF callVars
<1>1. /\ op = "n" /\ Copy(len - Done) /\ mode = "readb" /\ Len(got) \in Nat
      /\ start \in Nat /\ len \in Nat /\ start =< Len(got) /\ Done \in Nat /\ Done < len
      /\ UNCHANGED <<mode, stream, arrived, ended, taken, rio_buf, len, start>>
  BY LenProperties DEF rio_readnb, Copy, kernelVars, ReturnIf, Return, IInv, TypeOK,
                       CallOK, ResultsRight, Done
<1> DEFINE cnt == Least(len - Done, rio_cnt)
<1>2. /\ cnt \in 1 .. len - Done /\ Moved(cnt) /\ Prefix' /\ KernelOK' /\ BufferOK'
      /\ rio_ptr' \in 0 .. BufSize /\ rio_cnt' \in Int
  <2>1. len - Done \in Nat /\ len - Done > 0
    BY <1>1
  <2> QED BY <1>1, <2>1, CopyMoves
<1> HIDE DEF cnt
<1>3. Done' = Done + cnt /\ Done' \in Nat /\ Done' =< len /\ Len(got') - start = Done'
  BY <1>1, <1>2 DEF Moved, Done
<1>4. DirectOK' /\ CallOK'
  BY <1>1, <1>2 DEF IInv, DirectOK, CallOK, Moved, rio_readnb, ReturnIf, Return
<1>5. \/ op' = "idle" /\ rc' = len /\ Done' = len
      \/ op' = "n" /\ rc' = rc /\ Done' < len
  BY <1>1, <1>3 DEF rio_readnb, ReturnIf, Return
<1>6. TypeOK'
  BY <1>1, <1>2, <1>5 DEF IInv, TypeOK, Moved
<1>7. ResultsRight'
  BY <1>1, <1>3, <1>5 DEF ResultsRight
<1> QED BY <1>2, <1>4, <1>6, <1>7 DEF IInv

\* The invariant, after a read of rio_readn, which adds bytes or none.
LEMMA ReadInv == IInv /\ rio_readn => IInv' /\ (got' = got \/ \E k \in Nat : k > 0 /\ Moved(k))
<1> SUFFICES ASSUME IInv, rio_readn
             PROVE  IInv' /\ (got' = got \/ \E k \in Nat : k > 0 /\ Moved(k))
  OBVIOUS
<1> USE DEF kernelVars, bufVars, callVars
<1>1. /\ mode = "readn" /\ op = "n" /\ Len(got) = taken /\ taken \in Nat /\ rio_cnt = 0
      /\ start \in Nat /\ len \in Nat /\ start =< Len(got) /\ Done \in Nat /\ Done < len
      /\ UNCHANGED <<mode, stream, arrived, ended, rio_buf, rio_ptr, rio_cnt, len, start>>
  BY LenProperties DEF rio_readn, ReturnIf, Return, IInv, TypeOK, DirectOK, CallOK,
                       ResultsRight, Done
<1>2. ASSUME NEW k \in Counts(len - Done), Move(stream, taken + 1, k), taken' = taken + k,
             ReturnIf(Done + k = len, len)
      PROVE  IInv' /\ k \in Nat /\ k > 0 /\ Moved(k)
  <2>1. /\ k \in 1 .. len - Done /\ taken + k =< arrived /\ arrived =< Len(stream)
        /\ arrived \in Nat /\ Len(stream) \in Nat
    BY <1>1, <1>2, LeastIsMin, LenProperties DEF Counts, IInv, TypeOK, KernelOK
  <2>2. /\ TypeOK /\ Prefix /\ taken + 1 \in Int /\ k \in Nat /\ Len(got) + k =< Len(stream)
        /\ \A j \in 1 .. k : stream[taken + 1 + j - 1] = stream[Len(got) + j]
    <3>1. ASSUME NEW j \in 1 .. k PROVE stream[taken + 1 + j - 1] = stream[Len(got) + j]
      <4>1. taken + 1 + j - 1 = Len(got) + j
        BY <1>1
      <4> QED BY <4>1
    <3> QED BY <1>1, <2>1, <3>1 DEF IInv
  <2>3. Moved(k) /\ \A j \in 1 .. Len(got') : got'[j] = stream[j]
    BY <1>2, <2>2, MoveExtends DEF Moved
  <2>4. Done' = Done + k /\ Len(got') = taken'
    <3>1. Len(got') = Len(got) + k /\ k \in Nat
      BY <2>2, <2>3 DEF Moved
    <3> QED BY <1>1, <1>2, <3>1 DEF Done
  <2>5. \/ op' = "idle" /\ rc' = len /\ Done' = len
        \/ op' = "n" /\ rc' = rc /\ Done' < len
    BY <1>1, <1>2, <2>1, <2>4 DEF ReturnIf, Return
  <2>6. TypeOK' /\ KernelOK'
    BY <1>1, <1>2, <2>1, <2>3, <2>5 DEF IInv, TypeOK, KernelOK, Moved
  <2>7. Prefix' /\ BufferOK' /\ CallOK'
    BY <1>1, <1>2, <2>1, <2>3 DEF Moved, Prefix, BufferOK, CallOK
  <2>9. DirectOK'
    BY <1>1, <2>4, <2>5 DEF DirectOK
  <2>8. ResultsRight'
    BY <1>1, <2>1, <2>4, <2>5 DEF ResultsRight
  <2> QED BY <2>1, <2>3, <2>6, <2>7, <2>8, <2>9 DEF IInv
<1>3. ASSUME (EOF /\ Return(Done)) \/ Return(-1), UNCHANGED <<taken, got>>
      PROVE  IInv' /\ got' = got
  <2>1. /\ op' = "idle" /\ Done' = Done
        /\ rc' = -1 \/ (rc' = Done /\ ended /\ taken = arrived)
    BY <1>1, <1>3 DEF EOF, Return, Done
  <2>2. TypeOK' /\ KernelOK'
    BY <1>1, <1>3, <2>1 DEF IInv, TypeOK, KernelOK
  <2>3. Prefix' /\ BufferOK' /\ CallOK' /\ DirectOK'
    BY <1>1, <1>3, <2>1 DEF IInv, Prefix, BufferOK, CallOK, DirectOK
  <2>4. ResultsRight'
    BY <1>1, <1>3, <2>1 DEF ResultsRight, AtEnd
  <2> QED BY <1>3, <2>2, <2>3, <2>4 DEF IInv
<1> QED BY <1>2, <1>3 DEF rio_readn

\* The invariant, after a write of rio_writen, which adds bytes or none.
LEMMA WriteInv == IInv /\ rio_writen => IInv' /\ (got' = got \/ \E k \in Nat : k > 0 /\ Moved(k))
<1> SUFFICES ASSUME IInv, rio_writen
             PROVE  IInv' /\ (got' = got \/ \E k \in Nat : k > 0 /\ Moved(k))
  OBVIOUS
<1> USE DEF kernelVars, bufVars, callVars
<1>1. /\ mode = "writen" /\ op = "n" /\ Len(got) \in Nat /\ rio_cnt = 0 /\ Len(stream) \in Nat
      /\ start \in Nat /\ len \in Nat /\ start =< Len(got) /\ Done \in Nat /\ Done < len
      /\ start + len =< Len(stream)
      /\ UNCHANGED <<mode, stream, arrived, ended, taken, rio_buf, rio_ptr, rio_cnt, len, start>>
  BY LenProperties DEF rio_writen, ReturnIf, Return, IInv, TypeOK, DirectOK, CallOK,
                       ResultsRight, Done
<1>2. ASSUME NEW k \in 1 .. len - Done, Move(stream, Len(got) + 1, k),
             ReturnIf(Done + k = len, len)
      PROVE  IInv' /\ k \in Nat /\ k > 0 /\ Moved(k)
  <2>2. /\ TypeOK /\ Prefix /\ Len(got) + 1 \in Int /\ k \in Nat /\ k > 0
        /\ Len(got) + k =< Len(stream)
        /\ \A j \in 1 .. k : stream[Len(got) + 1 + j - 1] = stream[Len(got) + j]
    <3>1. ASSUME NEW j \in 1 .. k
          PROVE  stream[Len(got) + 1 + j - 1] = stream[Len(got) + j]
      <4>1. Len(got) + 1 + j - 1 = Len(got) + j
        BY <1>1
      <4> QED BY <4>1
    <3> QED BY <1>1, <3>1 DEF IInv, Done
  <2>3. Moved(k) /\ \A j \in 1 .. Len(got') : got'[j] = stream[j]
    BY <1>2, <2>2, MoveExtends DEF Moved
  <2>4. Done' = Done + k
    BY <1>1, <2>3 DEF Moved, Done
  <2>5. \/ op' = "idle" /\ rc' = len /\ Done' = len
        \/ op' = "n" /\ rc' = rc /\ Done' < len
    BY <1>1, <1>2, <2>4 DEF ReturnIf, Return
  <2>6. TypeOK' /\ KernelOK'
    BY <1>1, <2>3, <2>5 DEF IInv, TypeOK, KernelOK, Moved
  <2>7. Prefix' /\ BufferOK' /\ CallOK' /\ DirectOK'
    BY <1>1, <2>2, <2>3, <2>5 DEF Moved, Prefix, BufferOK, CallOK, DirectOK
  <2>8. ResultsRight'
    BY <1>1, <2>4, <2>5 DEF ResultsRight
  <2> QED BY <2>2, <2>3, <2>6, <2>7, <2>8 DEF IInv
<1>3. ASSUME Return(-1), UNCHANGED got PROVE IInv' /\ got' = got
  <2>1. op' = "idle" /\ Done' = Done /\ rc' = -1
    BY <1>1, <1>3 DEF Return, Done
  <2>2. TypeOK' /\ KernelOK'
    BY <1>1, <1>3, <2>1 DEF IInv, TypeOK, KernelOK
  <2>3. Prefix' /\ BufferOK' /\ CallOK' /\ DirectOK'
    BY <1>1, <1>3, <2>1 DEF IInv, Prefix, BufferOK, CallOK, DirectOK
  <2>4. ResultsRight'
    BY <2>1 DEF ResultsRight
  <2> QED BY <1>3, <2>2, <2>3, <2>4 DEF IInv
<1> QED BY <1>2, <1>3 DEF rio_writen

-----------------------------------------------------------------------------
\* The invariant is inductive.
LEMMA NextInv == IInv /\ [Next]_vars => IInv'
<1>1. IInv /\ UNCHANGED vars => IInv'
  BY DEF vars, IInv, TypeOK, KernelOK, Prefix, BufferOK, Unread, DirectOK, CallOK,
         ResultsRight, AtNewline, AtEnd, Piece, Done
<1> QED BY <1>1, PeerInv, CallInv, FillInv, LineInv, BytesInv, ReadInv, WriteInv DEF Next, Round

\* The descriptor, the buffer of rio_t and the call keep their types, and
\* rio_bufptr stays inside the buffer or just behind it.
THEOREM TypeCorrect == Spec => []TypeOK
<1>1. IInv => TypeOK
  BY DEF IInv
<1> QED BY <1>1, InitInv, NextInv, PTL DEF Spec

\* What the calls of the package return is right: the count of a line ends at
\* its newline, and a short count means that the line or the stream has ended.
THEOREM ResultsAreRight == Spec => []ResultsRight
<1>1. IInv => ResultsRight
  BY DEF IInv
<1> QED BY <1>1, InitInv, NextInv, PTL DEF Spec

-----------------------------------------------------------------------------
\* Every step of the package is a delivery of the next bytes of the stream, or
\* none at all.
LEMMA StepDelivers ==
  IInv /\ [Next]_vars => [ImplementsByteStream!Next]_<<stream, got>>
<1> SUFFICES ASSUME IInv, [Next]_vars
             PROVE  [ImplementsByteStream!Next]_<<stream, got>>
  OBVIOUS
<1>1. UNCHANGED stream
  BY DEF Next, Arrive, PeerClose, Call, Round, Fill, FillInterrupted, FillError, FillEOF,
         rio_readlineb, rio_readnb, rio_readn, rio_writen, Copy, kernelVars, vars
<1>2. got' = got \/ \E k \in Nat : k > 0 /\ Moved(k)
  <2>1. CASE Arrive \/ PeerClose \/ Call \/ Fill \/ FillInterrupted \/ FillError \/ FillEOF
             \/ UNCHANGED vars
    BY <2>1 DEF Arrive, PeerClose, Call, Fill, FillInterrupted, FillError, FillEOF, vars
  <2>2. CASE rio_readlineb
    BY <2>2, CopyMoves DEF rio_readlineb
  <2>3. CASE rio_readnb
    <3>1. len - Done \in Nat /\ len - Done > 0
      BY <2>3, LenProperties DEF rio_readnb, IInv, TypeOK, ResultsRight, Done
    <3> QED BY <2>3, <3>1, CopyMoves DEF rio_readnb
  <2>4. CASE rio_readn \/ rio_writen
    BY <2>4, ReadInv, WriteInv
  <2> QED BY <2>1, <2>2, <2>3, <2>4 DEF Next, Round
<1>3. ASSUME NEW k \in Nat, k > 0, Moved(k) PROVE ImplementsByteStream!Next
  <2>1. Len(got) \in Nat /\ Len(stream) \in Nat /\ Len(got) + k =< Len(stream)
    BY <1>1, <1>3, NextInv, LenProperties DEF Moved, IInv, TypeOK, Prefix
  <2>2. k \in 1 .. Len(stream) - Len(got)
    BY <1>3, <2>1
  <2>3. ImplementsByteStream!Deliver(k)
    BY <1>1, <1>3 DEF ImplementsByteStream!Deliver, Moved
  <2> QED BY <2>2, <2>3 DEF ImplementsByteStream!Next
<1> QED BY <1>1, <1>2, <1>3

\* The robust I/O package implements the byte stream: whatever the kernel
\* does, the bytes arrive in order, each one once.
THEOREM DeliversStream == Spec => StreamKept
<1>1. Init => ImplementsByteStream!Init
  BY DEF Init, ImplementsByteStream!Init
<1> QED BY <1>1, InitInv, NextInv, StepDelivers, PTL DEF Spec, StreamKept, ImplementsByteStream!Spec
=============================================================================
