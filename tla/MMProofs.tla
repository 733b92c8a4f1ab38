------------------------------- MODULE MMProofs -------------------------------
(***************************************************************************)
(* The heap of mm.c stays sound, for every number of lists, heap size and  *)
(* set of requests.  The invariant HeapInv says that there are blocks B    *)
(* with sizes S, of which F are free, such that the memory is a picture of *)
(* them; each write of the code changes the picture in a way that a lemma  *)
(* describes, and the lemmas are put together function by function as the  *)
(* code calls them.  While coalesce, place or realloc are at work, some    *)
(* blocks (X) have old words and some free blocks are in no list (not in   *)
(* L): State has both as parameters.                                       *)
(***************************************************************************)
EXTENDS MM, FiniteSetTheorems, TLAPS

-----------------------------------------------------------------------------
(* Numbers, powers of two, words                                           *)

\* A set of natural numbers has a least one.
LEMMA Least == ASSUME NEW S, S \subseteq Nat, S # {}
               PROVE  \E i \in S : \A j \in S : i =< j
<1>1. PICK i \in S : \A j \in S : ~ (<<j, i>> \in OpToRel(<, Nat))
  BY NatLessThanWellFounded, WFMin, Zenon
<1>2. \A j \in S : <<j, i>> \in OpToRel(<, Nat) <=> j < i
  BY DEF OpToRel
<1>3. \A j \in S : ~ (j < i)
  BY <1>1, <1>2, Zenon
<1>4. \A j \in S : i =< j
  BY <1>3
<1> QED BY <1>4

\* f lists the first iterations of F from x.
Iteration(f, D, F, x, K) == f \in [0 .. K -> D] /\ f[0] = x /\ \A j \in 1 .. K : f[j] = F[f[j - 1]]

\* A function can be iterated any number of times from any starting point.
LEMMA Iterates ==
  ASSUME NEW D, NEW F \in [D -> D], NEW x \in D, NEW K \in Nat
  PROVE  \E f : Iteration(f, D, F, x, K)
<1> DEFINE Good(k) == \E f : Iteration(f, D, F, x, k)
           bad == {k \in Nat : ~ Good(k)}
<1>1. Good(0)
  <2> DEFINE g == [j \in 0 .. 0 |-> x]
  <2>1. g \in [0 .. 0 -> D] /\ g[0] = x
    OBVIOUS
  <2>2. \A j \in 1 .. 0 : g[j] = F[g[j - 1]]
    OBVIOUS
  <2>3. Iteration(g, D, F, x, 0)
    BY <2>1, <2>2 DEF Iteration
  <2> QED BY <2>3
<1>2. ASSUME NEW k \in Nat \ {0}, Good(k - 1) PROVE Good(k)
  <2>1. PICK f : Iteration(f, D, F, x, k - 1)
    BY <1>2
  <2>2. f \in [0 .. k - 1 -> D] /\ f[0] = x /\ \A j \in 1 .. k - 1 : f[j] = F[f[j - 1]]
    BY <2>1 DEF Iteration
  <2> DEFINE g == [j \in 0 .. k |-> IF j = k THEN F[f[k - 1]] ELSE f[j]]
  <2>3. f[k - 1] \in D
    BY <2>2
  <2>4. g \in [0 .. k -> D]
    BY <2>2, <2>3
  <2>5. g[0] = x
    BY <2>2
  <2>6. \A j \in 1 .. k : g[j] = F[g[j - 1]]
    BY <2>2
  <2>7. Iteration(g, D, F, x, k)
    <3> HIDE DEF g
    <3> QED BY <2>4, <2>5, <2>6 DEF Iteration
  <2> QED BY <2>7
<1> HIDE DEF Good
<1>3. bad = {}
  <2> SUFFICES ASSUME bad # {} PROVE FALSE
    OBVIOUS
  <2>1. PICK k \in bad : \A j \in bad : k =< j
    BY Least
  <2>2. k # 0
    BY <1>1
  <2>3. k - 1 \in Nat /\ k - 1 \notin bad
    BY <2>1, <2>2
  <2> QED BY <1>2, <2>2, <2>3
<1> QED BY <1>3 DEF Good

\* MAX_SIZE doubles from 1 to 2^30.
LEMMA MaxSizes == /\ MAX_SIZE \in [0 .. 30 -> Nat]
                  /\ MAX_SIZE[0] = 1 /\ \A x \in 1 .. 30 : MAX_SIZE[x] = 2 * MAX_SIZE[x - 1]
<1> DEFINE Powers(n) == n = [x \in 0 .. 30 |-> IF x = 0 THEN 1 ELSE 2 * n[x - 1]]
<1>1. MAX_SIZE = CHOOSE n : Powers(n)
  BY DEF MAX_SIZE
<1>2. PICK Double : Double = [n \in Nat |-> 2 * n]
  OBVIOUS
<1>3. PICK f : f \in [0 .. 30 -> Nat] /\ f[0] = 1 /\ \A j \in 1 .. 30 : f[j] = 2 * f[j - 1]
  <2>1. Double \in [Nat -> Nat] /\ 1 \in Nat /\ 30 \in Nat
    BY <1>2
  <2>2. PICK f : Iteration(f, Nat, Double, 1, 30)
    BY <2>1, Iterates
  <2>3. f \in [0 .. 30 -> Nat] /\ f[0] = 1 /\ \A j \in 1 .. 30 : f[j] = Double[f[j - 1]]
    BY <2>2 DEF Iteration
  <2>4. \A j \in 1 .. 30 : f[j] = 2 * f[j - 1]
    BY <1>2, <2>3
  <2> QED BY <2>3, <2>4
<1>4. \A j \in 0 .. 30 : f[j] = IF j = 0 THEN 1 ELSE 2 * f[j - 1]
  BY <1>3
<1>5. Powers(f)
  BY <1>3, <1>4
<1>6. Powers(MAX_SIZE)
  BY <1>1, <1>5, Zenon
<1>7. \A x \in 0 .. 30 : MAX_SIZE[x] = f[x]
  <2> DEFINE differ == {j \in 0 .. 30 : MAX_SIZE[j] # f[j]}
  <2> SUFFICES ASSUME differ # {} PROVE FALSE
    OBVIOUS
  <2>1. differ \subseteq Nat
    OBVIOUS
  <2>2. PICK j \in differ : \A i \in differ : j =< i
    BY <2>1, Least
  <2>3. j # 0
    BY <1>5, <1>6
  <2>4. j - 1 \in 0 .. 30 /\ j - 1 \notin differ
    BY <2>2, <2>3
  <2>5. MAX_SIZE[j] = 2 * MAX_SIZE[j - 1] /\ f[j] = 2 * f[j - 1]
    BY <1>5, <1>6, <2>3
  <2> QED BY <2>4, <2>5
<1>8. MAX_SIZE = f
  BY <1>3, <1>6, <1>7
<1> QED BY <1>3, <1>8

\* Every size that an int holds has a list, and fits the sizes of that list.
LEMMA UIs == ASSUME NEW s \in 1 .. MAX_SIZE[30]
             PROVE  U(s) \in 0 .. 30 /\ MAX_SIZE[U(s)] >= s
<1> DEFINE large == {u \in 0 .. 30 : MAX_SIZE[u] >= s}
<1>1. \A u \in 0 .. 30 : MAX_SIZE[u] \in Nat
  BY MaxSizes
<1>2. 30 \in large
  BY MaxSizes
<1>3. PICK u \in large : \A v \in large : u =< v
  <2>1. large \subseteq Nat /\ large # {}
    BY <1>2
  <2> HIDE DEF large
  <2> QED BY <2>1, Least
<1>4. \A v \in 0 .. u - 1 : MAX_SIZE[v] < s
  BY <1>1, <1>3
<1> DEFINE Right(x) == MAX_SIZE[x] >= s /\ \A v \in 0 .. x - 1 : MAX_SIZE[v] < s
<1>5. u \in 0 .. 30 /\ Right(u)
  BY <1>3, <1>4
<1>6. U(s) = CHOOSE x \in 0 .. 30 : Right(x)
  BY DEF U
<1> HIDE DEF Right
<1>7. U(s) \in 0 .. 30 /\ Right(U(s))
  BY <1>5, <1>6
<1> QED BY <1>7 DEF Right

\* The addresses of words are the multiples of four below MaxHeap.
LEMMA WordIs == ASSUME NEW a \in Int PROVE a \in Words <=> a >= 0 /\ a < MaxHeap /\ a % 4 = 0
<1>1. MaxHeap \in Nat /\ MaxHeap % 8 = 0
  BY HeapAssumption, MaxSizes DEF FirstBlock
<1>2. PICK q \in Nat : MaxHeap = 8 * q
  <2>1. MaxHeap = 8 * (MaxHeap \div 8) /\ MaxHeap \div 8 \in Nat
    BY <1>1
  <2> QED BY <2>1
<1>3. MaxHeap \div 4 = 2 * q
  BY <1>2
<1>4. ASSUME a >= 0, a < MaxHeap, a % 4 = 0 PROVE a \in Words
  <2>1. a = 4 * (a \div 4) /\ a \div 4 \in Nat
    BY <1>4
  <2>2. a \div 4 \in 0 .. MaxHeap \div 4 - 1
    BY <1>2, <1>3, <1>4, <2>1
  <2> QED BY <2>1, <2>2 DEF Words
<1>5. ASSUME a \in Words PROVE a >= 0 /\ a < MaxHeap /\ a % 4 = 0
  <2>1. PICK i \in 0 .. 2 * q - 1 : a = 4 * i
    BY <1>3, <1>5 DEF Words
  <2> QED BY <1>2, <2>1
<1> QED BY <1>4, <1>5

\* The header word of a block says its size and whether it is allocated.
LEMMA Tagging ==
  ASSUME NEW m, NEW a, NEW s \in Nat, s % 8 = 0, NEW al \in {0, 1}, m[a] = s + al
  PROVE  GET_SIZE(m, a) = s /\ GET_ALLOC(m, a) = al
<1>1. PICK q \in Nat : s = 8 * q
  <2>1. s = 8 * (s \div 8) /\ s \div 8 \in Nat
    OBVIOUS
  <2> QED BY <2>1
<1>2. (8 * q + al) \div 8 = q /\ (8 * q + al) % 2 = al
  OBVIOUS
<1> QED BY <1>1, <1>2 DEF GET_SIZE, GET_ALLOC

-----------------------------------------------------------------------------
(* heap_remove and heap_add on lists that are well linked                  *)

\* Addresses of blocks are so far apart that their links do not overlap.
Spread(B) == /\ \A x \in B : x \in Nat /\ x >= 16 /\ x - 4 \in Words /\ x - 8 \in Words
             /\ \A x, y \in B : x < y => x + 16 =< y

\* The nodes of the lists: the listed blocks and the heads.
ListNodes(L) == L \cup Heads

\* The memory links the blocks of L to the head of the list that c says, and
\* r grows along every list.
LinkedBy(m, L, r, c) ==
  /\ r \in [ListNodes(L) -> Nat] /\ c \in [ListNodes(L) -> 0 .. N - 1]
  /\ \A n \in ListNodes(L) : \/ m[n - 4] = Null
                             \/ /\ m[n - 4] \in L /\ c[m[n - 4]] = c[n]
                                /\ m[m[n - 4] - 8] = n /\ r[n] < r[m[n - 4]]
  /\ \A b \in L : /\ m[b - 8] \in ListNodes(L) /\ c[m[b - 8]] = c[b]
                  /\ m[m[b - 8] - 4] = b

\* heap_remove, word by word.
LEMMA RemoveWords ==
  ASSUME NEW m \in [Words -> Nat], NEW B, Spread(B), NEW L, ListNodes(L) \subseteq B,
         NEW r, NEW c, LinkedBy(m, L, r, c), NEW bp \in L
  PROVE  LET pred == m[bp - 8]
             succ == m[bp - 4]
             mm == heap_remove(m, bp)
         IN  /\ pred \in ListNodes(L) /\ succ \in L \cup {Null} /\ pred # bp /\ succ # bp
             /\ succ # Null => pred # succ
             /\ mm \in [Words -> Nat]
             /\ mm[pred - 4] = succ /\ mm[bp - 4] = Null /\ mm[bp - 8] = Null
             /\ succ # Null => mm[succ - 8] = pred
             /\ \A a \in Words : /\ a # pred - 4 /\ a # bp - 4 /\ a # bp - 8
                                 /\ succ # Null => a # succ - 8
                                 => mm[a] = m[a]
<1> DEFINE pred == m[bp - 8]
           succ == m[bp - 4]
           mm == heap_remove(m, bp)
<1>1. /\ pred \in ListNodes(L) /\ c[pred] = c[bp] /\ m[pred - 4] = bp
      /\ bp \in ListNodes(L)
  BY DEF LinkedBy, ListNodes
<1>2. succ = Null \/ (succ \in L /\ r[bp] < r[succ] /\ m[succ - 8] = bp)
  BY <1>1 DEF LinkedBy
<1>3. r[pred] < r[bp] /\ r[pred] \in Nat /\ r[bp] \in Nat /\ (succ \in L => r[succ] \in Nat)
  <2>1. bp # Null
    BY <1>1 DEF Spread, Null
  <2>2. r[pred] < r[bp]
    BY <1>1, <2>1 DEF LinkedBy
  <2> QED BY <1>1, <2>2 DEF LinkedBy, ListNodes
<1>4. pred # bp /\ succ # bp /\ (succ # Null => pred # succ)
  <2>1. bp # Null
    BY <1>1 DEF Spread, Null
  <2> HIDE DEF pred, succ
  <2> QED BY <1>2, <1>3, <2>1
<1>5. /\ bp \in B /\ pred \in B /\ (succ # Null => succ \in B)
  BY <1>1, <1>2 DEF ListNodes
<1> HIDE DEF pred, succ
<1>6. /\ bp \in Nat /\ bp - 4 \in Words /\ bp - 8 \in Words
      /\ pred \in Nat /\ pred - 4 \in Words
      /\ succ # Null => succ \in Nat /\ succ - 8 \in Words
      /\ pred < bp => pred + 16 =< bp
      /\ bp < pred => bp + 16 =< pred
      /\ succ # Null => /\ pred < succ => pred + 16 =< succ
                        /\ succ < pred => succ + 16 =< pred
                        /\ bp < succ => bp + 16 =< succ
                        /\ succ < bp => succ + 16 =< bp
  BY <1>5 DEF Spread
<1>7. succ \in Nat
  BY <1>6 DEF Null
<1> DEFINE linked == [m EXCEPT ![pred - 4] = succ]
           both == IF succ = Null THEN linked ELSE [linked EXCEPT ![succ - 8] = pred]
<1>8. mm = [both EXCEPT ![bp - 8] = Null, ![bp - 4] = Null]
  BY DEF heap_remove, PRED, SUCC, pred, succ
<1>9. linked \in [Words -> Nat] /\ both \in [Words -> Nat]
  BY <1>6, <1>7
<1>10. mm \in [Words -> Nat]
  BY <1>6, <1>8, <1>9 DEF Null
<1>11. /\ linked[pred - 4] = succ
       /\ \A a \in Words : a # pred - 4 => linked[a] = m[a]
  BY <1>6
<1>12. /\ both[pred - 4] = succ
       /\ succ # Null => both[succ - 8] = pred
       /\ \A a \in Words : a # pred - 4 /\ (succ # Null => a # succ - 8) => both[a] = m[a]
  <2>1. succ # Null => pred - 4 # succ - 8
    BY <1>4, <1>6
  <2> HIDE DEF linked
  <2> QED BY <1>6, <1>9, <1>11, <2>1
<1> HIDE DEF both, linked
<1>13. /\ mm[bp - 4] = Null /\ mm[bp - 8] = Null
       /\ \A a \in Words : a # bp - 4 /\ a # bp - 8 => mm[a] = both[a]
  BY <1>6, <1>8, <1>9
<1>14. pred - 4 # bp - 4 /\ pred - 4 # bp - 8 /\ (succ # Null => succ - 8 # bp - 4 /\ succ - 8 # bp - 8)
  BY <1>4, <1>6
<1> HIDE DEF mm
<1>15. mm[pred - 4] = succ /\ (succ # Null => mm[succ - 8] = pred)
  BY <1>6, <1>12, <1>13, <1>14
<1>16. \A a \in Words : /\ a # pred - 4 /\ a # bp - 4 /\ a # bp - 8
                        /\ succ # Null => a # succ - 8
                        => mm[a] = m[a]
  BY <1>12, <1>13
<1> QED BY <1>1, <1>2, <1>4, <1>10, <1>13, <1>15, <1>16 DEF mm, pred, succ

\* heap_remove takes its block out of the list and leaves the rest linked.
LEMMA RemoveKeeps ==
  ASSUME NEW m \in [Words -> Nat], NEW B, Spread(B), NEW L, ListNodes(L) \subseteq B,
         L \cap Heads = {},
         NEW r, NEW c, LinkedBy(m, L, r, c), NEW bp \in L
  PROVE  LET R == ListNodes(L \ {bp})
         IN  LinkedBy(heap_remove(m, bp), L \ {bp}, [n \in R |-> r[n]], [n \in R |-> c[n]])
<1> DEFINE R == ListNodes(L \ {bp})
           rr == [n \in R |-> r[n]]
           cc == [n \in R |-> c[n]]
<1>1. PICK pred \in ListNodes(L) : pred = m[bp - 8]
  BY RemoveWords
<1>2. PICK succ \in L \cup {Null} : succ = m[bp - 4]
  BY RemoveWords
<1>3. PICK mm \in [Words -> Nat] : mm = heap_remove(m, bp)
  BY RemoveWords
<1>4. /\ pred # bp /\ succ # bp /\ (succ # Null => pred # succ)
      /\ mm[pred - 4] = succ /\ mm[bp - 4] = Null /\ mm[bp - 8] = Null
      /\ succ # Null => mm[succ - 8] = pred
      /\ \A a \in Words : /\ a # pred - 4 /\ a # bp - 4 /\ a # bp - 8
                          /\ succ # Null => a # succ - 8
                          => mm[a] = m[a]
  BY <1>1, <1>2, <1>3, RemoveWords
<1>5. R = ListNodes(L) \ {bp} /\ bp \in ListNodes(L)
  BY DEF ListNodes
<1>6. rr \in [R -> Nat] /\ cc \in [R -> 0 .. N - 1]
  BY <1>5 DEF LinkedBy
<1>7. \A n \in ListNodes(L) : n \in Nat /\ n - 4 \in Words /\ n - 8 \in Words /\ n # Null
  BY DEF Spread, Null
<1>8. \A x, y \in ListNodes(L) : x - 4 # y - 8 /\ (x # y => x - 4 # y - 4 /\ x - 8 # y - 8)
  <2> SUFFICES ASSUME NEW x \in ListNodes(L), NEW y \in ListNodes(L)
               PROVE  x - 4 # y - 8 /\ (x # y => x - 4 # y - 4 /\ x - 8 # y - 8)
    OBVIOUS
  <2>1. x \in Nat /\ y \in Nat /\ (x < y => x + 16 =< y) /\ (y < x => y + 16 =< x)
    BY DEF Spread
  <2> QED BY <2>1
<1>9. L \subseteq ListNodes(L) /\ succ \in L \cup {Null}
  BY DEF ListNodes
<1>10. \A n \in ListNodes(L) : n # pred /\ n # bp => mm[n - 4] = m[n - 4]
  BY <1>4, <1>5, <1>7, <1>8, <1>9
<1>11. \A n \in ListNodes(L) : n # succ /\ n # bp => mm[n - 8] = m[n - 8]
  BY <1>1, <1>4, <1>5, <1>7, <1>8
<1>12. /\ c[pred] = c[bp] /\ r[pred] < r[bp] /\ m[pred - 4] = bp
       /\ succ # Null => c[succ] = c[bp] /\ r[bp] < r[succ] /\ m[succ - 8] = bp
       /\ r[pred] \in Nat /\ r[bp] \in Nat /\ (succ # Null => r[succ] \in Nat)
  BY <1>1, <1>2, <1>5, <1>7, <1>9 DEF LinkedBy
<1>13. ASSUME NEW n \in R
       PROVE  \/ mm[n - 4] = Null
              \/ /\ mm[n - 4] \in L \ {bp} /\ cc[mm[n - 4]] = cc[n]
                 /\ mm[mm[n - 4] - 8] = n /\ rr[n] < rr[mm[n - 4]]
  <2>1. n \in ListNodes(L) /\ n # bp
    BY <1>5
  <2>2. CASE n = pred
    <3>1. mm[n - 4] = succ
      BY <1>4, <2>2
    <3>2. CASE succ # Null
      <4>1. succ \in L \ {bp} /\ succ \in R /\ mm[succ - 8] = n /\ c[succ] = c[n] /\ r[n] < r[succ]
        BY <1>4, <1>5, <1>9, <1>12, <2>2, <3>2
      <4> QED BY <3>1, <4>1
    <3> QED BY <3>1, <3>2
  <2>3. CASE n # pred
    <3>1. mm[n - 4] = m[n - 4]
      BY <1>10, <2>1, <2>3
    <3>2. CASE m[n - 4] # Null
      <4>1. PICK s \in L : s = m[n - 4]
        BY <2>1, <3>2 DEF LinkedBy
      <4>2. c[s] = c[n] /\ m[s - 8] = n /\ r[n] < r[s]
        BY <2>1, <3>2, <4>1 DEF LinkedBy
      <4>3. s # bp /\ s # succ
        BY <1>1, <1>7, <1>12, <2>1, <2>3, <4>2, <4>1, <1>9
      <4>4. mm[s - 8] = n
        BY <1>9, <1>11, <4>1, <4>2, <4>3
      <4>5. s \in R
        BY <1>5, <1>9, <4>1, <4>3
      <4> QED BY <3>1, <4>1, <4>2, <4>3, <4>4, <4>5
    <3> QED BY <3>1, <3>2
  <2> QED BY <2>2, <2>3
<1>14. ASSUME NEW b \in L \ {bp}
       PROVE  /\ mm[b - 8] \in R /\ cc[mm[b - 8]] = cc[b]
              /\ mm[mm[b - 8] - 4] = b
  <2>1. b \in ListNodes(L) /\ b # bp /\ b \in R
    BY <1>5, <1>9
  <2>2. CASE b = succ
    <3>1. mm[b - 8] = pred /\ pred \in R /\ b # Null
      BY <1>4, <1>5, <1>7, <2>1, <2>2
    <3> QED BY <1>4, <1>12, <2>1, <2>2, <3>1
  <2>3. CASE b # succ
    <3>1. mm[b - 8] = m[b - 8]
      BY <1>11, <2>1, <2>3
    <3>2. PICK q \in ListNodes(L) : q = m[b - 8]
      BY DEF LinkedBy
    <3>3. c[q] = c[b] /\ m[q - 4] = b
      BY <3>2 DEF LinkedBy
    <3>4. q # bp /\ q # pred
      BY <1>2, <1>12, <2>1, <2>3, <3>3
    <3>5. mm[q - 4] = b /\ q \in R
      BY <1>5, <1>10, <3>3, <3>4
    <3> QED BY <2>1, <3>1, <3>2, <3>3, <3>5
  <2> QED BY <2>2, <2>3
<1>15. LinkedBy(mm, L \ {bp}, rr, cc)
  <2> HIDE DEF rr, cc
  <2> QED BY <1>6, <1>13, <1>14 DEF LinkedBy
<1> QED BY <1>3, <1>15

\* A heap as its three fields.
HeapOf(m, k, l) == [mem |-> m, brk |-> k, alive |-> l]

\* heap_remove writes links of listed blocks and list heads only.
LEMMA RemoveFrame ==
  ASSUME NEW m \in [Words -> Nat], NEW B, Spread(B), NEW L, ListNodes(L) \subseteq B,
         NEW r, NEW c, LinkedBy(m, L, r, c), NEW bp \in L
  PROVE  /\ heap_remove(m, bp) \in [Words -> Nat]
         /\ \A a \in Words : (\A n \in ListNodes(L) : a # n - 4 /\ a # n - 8)
                             => heap_remove(m, bp)[a] = m[a]
<1>1. m[bp - 8] \in ListNodes(L) /\ bp \in ListNodes(L) /\ (m[bp - 4] # Null => m[bp - 4] \in ListNodes(L))
  BY RemoveWords DEF ListNodes
<1> QED BY <1>1, RemoveWords

\* The nodes of the lists are numbers with words for their links, which are
\* different words for different nodes.
LEMMA LinksApart ==
  ASSUME NEW B, Spread(B)
  PROVE  /\ \A n \in B : n \in Nat /\ n - 4 \in Words /\ n - 8 \in Words /\ n # Null
         /\ \A x, y \in B : x - 4 # y - 8 /\ (x # y => x - 4 # y - 4 /\ x - 8 # y - 8)
<1>1. \A n \in B : n \in Nat /\ n - 4 \in Words /\ n - 8 \in Words /\ n # Null
  BY DEF Spread, Null
<1>2. ASSUME NEW x \in B, NEW y \in B
      PROVE  x - 4 # y - 8 /\ (x # y => x - 4 # y - 4 /\ x - 8 # y - 8)
  <2>1. x \in Nat /\ y \in Nat /\ (x < y => x + 16 =< y) /\ (y < x => y + 16 =< x)
    BY DEF Spread
  <2> QED BY <2>1
<1> QED BY <1>1, <1>2

\* heap_add, word by word.
LEMMA AddWords ==
  ASSUME NEW m \in [Words -> Nat], NEW k, NEW l,
         NEW B, Spread(B), NEW L, ListNodes(L) \subseteq B,
         NEW r, NEW c, LinkedBy(m, L, r, c),
         NEW bp \in B, bp \notin ListNodes(L),
         NEW i \in 0 .. N - 1, U(Size(m, bp)) = i, heap(i) \in Heads
  PROVE  LET nxt == m[heap(i) - 4]
             mm == heap_add(HeapOf(m, k, l), bp).mem
         IN  /\ nxt \in L \cup {Null} /\ (nxt # Null => c[nxt] = c[heap(i)] /\ m[nxt - 8] = heap(i))
             /\ mm \in [Words -> Nat]
             /\ heap_add(HeapOf(m, k, l), bp) = HeapOf(mm, k, l)
             /\ mm[heap(i) - 4] = bp /\ mm[bp - 8] = heap(i) /\ mm[bp - 4] = nxt
             /\ nxt # Null => mm[nxt - 8] = bp
             /\ \A a \in Words : /\ a # heap(i) - 4 /\ a # bp - 4 /\ a # bp - 8
                                 /\ nxt # Null => a # nxt - 8
                                 => mm[a] = m[a]
<1> DEFINE head == heap(i)
           h == HeapOf(m, k, l)
           nxt == m[head - 4]
           mm == heap_add(h, bp).mem
<1>1. head \in ListNodes(L) /\ head \in B /\ head # bp
  BY DEF ListNodes
<1>2. nxt = Null \/ (nxt \in L /\ c[nxt] = c[head] /\ m[nxt - 8] = head)
  BY <1>1 DEF LinkedBy
<1>3. nxt # Null => nxt \in B /\ nxt # bp
  BY <1>2 DEF ListNodes
<1> HIDE DEF nxt, head
<1>4. /\ head \in Nat /\ bp \in Nat /\ nxt \in Nat
      /\ head - 4 \in Words /\ bp - 4 \in Words /\ bp - 8 \in Words
      /\ nxt # Null => nxt - 8 \in Words
  BY <1>1, <1>3, LinksApart DEF Null
<1>5. /\ head - 4 # bp - 4 /\ head - 4 # bp - 8 /\ bp - 4 # bp - 8
      /\ nxt # Null => nxt - 8 # head - 4 /\ nxt - 8 # bp - 4 /\ nxt - 8 # bp - 8
  BY <1>1, <1>3, LinksApart
<1> DEFINE m1 == [m EXCEPT ![bp - 4] = nxt]
           both == IF nxt = Null THEN m1 ELSE [m1 EXCEPT ![nxt - 8] = bp]
<1>6. heap_add(h, bp) = [h EXCEPT !.mem = [both EXCEPT ![head - 4] = bp, ![bp - 8] = head]]
  <2>1. ~ (U(Size(m, bp)) >= N) /\ h.mem = m
    BY HeapAssumption DEF HeapOf
  <2> QED BY <2>1 DEF heap_add, PRED, SUCC, head, nxt
<1>7. heap_add(h, bp) = HeapOf([both EXCEPT ![head - 4] = bp, ![bp - 8] = head], k, l)
  <2> DEFINE z == [both EXCEPT ![head - 4] = bp, ![bp - 8] = head]
  <2> HIDE DEF z
  <2>1. [h EXCEPT !.mem = z] = HeapOf(z, k, l)
    BY DEF HeapOf
  <2> QED BY <1>6, <2>1 DEF z
<1>8. mm = [both EXCEPT ![head - 4] = bp, ![bp - 8] = head]
  <2> DEFINE z == [both EXCEPT ![head - 4] = bp, ![bp - 8] = head]
  <2>1. mm = HeapOf(z, k, l).mem
    BY <1>7
  <2> HIDE DEF z, mm
  <2>2. mm = z
    BY <2>1 DEF HeapOf
  <2> QED BY <2>2 DEF z
<1>9. m1 \in [Words -> Nat] /\ both \in [Words -> Nat]
  BY <1>4
<1>10. mm \in [Words -> Nat]
  BY <1>4, <1>8, <1>9
<1>11. m1[bp - 4] = nxt /\ \A a \in Words : a # bp - 4 => m1[a] = m[a]
  BY <1>4
<1>12. /\ both[bp - 4] = nxt
       /\ nxt # Null => both[nxt - 8] = bp
       /\ \A a \in Words : a # bp - 4 /\ (nxt # Null => a # nxt - 8) => both[a] = m[a]
  <2> HIDE DEF m1
  <2> QED BY <1>4, <1>5, <1>9, <1>11
<1> HIDE DEF both, m1
<1>13. /\ mm[head - 4] = bp /\ mm[bp - 8] = head
       /\ \A a \in Words : a # head - 4 /\ a # bp - 8 => mm[a] = both[a]
  BY <1>4, <1>5, <1>8, <1>9
<1>14. heap_add(h, bp) = HeapOf(mm, k, l)
  BY <1>7, <1>8
<1> HIDE DEF mm
<1>15. mm[bp - 4] = nxt /\ (nxt # Null => mm[nxt - 8] = bp)
  BY <1>4, <1>5, <1>12, <1>13
<1>16. \A a \in Words : /\ a # head - 4 /\ a # bp - 4 /\ a # bp - 8
                        /\ nxt # Null => a # nxt - 8
                        => mm[a] = m[a]
  BY <1>12, <1>13
<1> QED BY <1>2, <1>10, <1>13, <1>14, <1>15, <1>16 DEF mm, nxt, head

\* The ranks and the lists of the blocks once x is the first of list i.
AddRank(L, x, r) == [n \in ListNodes(L \cup {x}) |-> IF n \in Heads THEN 0 ELSE IF n = x THEN 1 ELSE r[n] + 2]
AddList(L, x, i, c) == [n \in ListNodes(L \cup {x}) |-> IF n = x THEN i ELSE c[n]]

\* heap_add puts its block in front of the list of its size.
LEMMA AddKeeps ==
  ASSUME NEW m \in [Words -> Nat], NEW k, NEW l,
         NEW B, Spread(B), NEW L, ListNodes(L) \subseteq B,
         NEW r, NEW c, LinkedBy(m, L, r, c),
         NEW bp \in B, bp \notin ListNodes(L), L \cap Heads = {},
         NEW i \in 0 .. N - 1, U(Size(m, bp)) = i, heap(i) \in Heads, c[heap(i)] = i
  PROVE  LinkedBy(heap_add(HeapOf(m, k, l), bp).mem, L \cup {bp}, AddRank(L, bp, r), AddList(L, bp, i, c))
<1> DEFINE h == HeapOf(m, k, l)
           head == heap(i)
           R == ListNodes(L \cup {bp})
           rr == [n \in R |-> IF n \in Heads THEN 0 ELSE IF n = bp THEN 1 ELSE r[n] + 2]
           cc == [n \in R |-> IF n = bp THEN i ELSE c[n]]
<1>1. PICK nxt \in L \cup {Null} : nxt = m[head - 4]
  BY AddWords
<1>2. PICK mm \in [Words -> Nat] : mm = heap_add(h, bp).mem
  BY AddWords
<1>3. /\ nxt # Null => c[nxt] = c[head] /\ m[nxt - 8] = head
      /\ mm[head - 4] = bp /\ mm[bp - 8] = head /\ mm[bp - 4] = nxt
      /\ nxt # Null => mm[nxt - 8] = bp
      /\ \A a \in Words : /\ a # head - 4 /\ a # bp - 4 /\ a # bp - 8
                          /\ nxt # Null => a # nxt - 8
                          => mm[a] = m[a]
  BY <1>1, <1>2, AddWords
<1>4. /\ R = ListNodes(L) \cup {bp} /\ L \subseteq ListNodes(L) /\ Heads \subseteq ListNodes(L)
      /\ head \in Heads /\ R \subseteq B /\ head \in ListNodes(L) /\ bp \notin Heads /\ bp \notin L
  BY DEF ListNodes
<1>5. rr \in [R -> Nat] /\ cc \in [R -> 0 .. N - 1] /\ c[head] = i
  BY <1>4 DEF LinkedBy
<1> HIDE DEF head
<1>6. /\ \A n \in R : n \in Nat /\ n - 4 \in Words /\ n - 8 \in Words /\ n # Null
      /\ \A x, y \in R : x - 4 # y - 8 /\ (x # y => x - 4 # y - 4 /\ x - 8 # y - 8)
  BY <1>4, LinksApart
<1>7. nxt # Null => nxt \in L /\ nxt \in R
  BY <1>1, <1>4
<1>8. \A n \in ListNodes(L) : n # head => mm[n - 4] = m[n - 4]
  <2> SUFFICES ASSUME NEW n \in ListNodes(L), n # head PROVE mm[n - 4] = m[n - 4]
    OBVIOUS
  <2>1. n \in R /\ head \in R /\ bp \in R /\ n # bp
    BY <1>4
  <2>2. n - 4 \in Words /\ n - 4 # head - 4 /\ n - 4 # bp - 4 /\ n - 4 # bp - 8
    BY <1>6, <2>1
  <2>3. nxt # Null => n - 4 # nxt - 8
    BY <1>6, <1>7, <2>1
  <2> QED BY <1>3, <2>2, <2>3
<1>9. \A n \in ListNodes(L) : n # nxt => mm[n - 8] = m[n - 8]
  BY <1>3, <1>4, <1>6, <1>7
<1>10. ASSUME NEW n \in R
       PROVE  \/ mm[n - 4] = Null
              \/ /\ mm[n - 4] \in L \cup {bp} /\ cc[mm[n - 4]] = cc[n]
                 /\ mm[mm[n - 4] - 8] = n /\ rr[n] < rr[mm[n - 4]]
  <2>1. CASE n = head
    <3>1. mm[n - 4] = bp /\ mm[bp - 8] = n /\ bp \in R /\ bp # n
      BY <1>3, <1>4, <2>1
    <3>2. rr[n] = 0 /\ rr[bp] = 1
      BY <1>4, <2>1, <3>1
    <3>3. cc[n] = i /\ cc[bp] = i
      BY <1>4, <1>5, <2>1, <3>1
    <3> QED BY <3>1, <3>2, <3>3
  <2>2. CASE n = bp
    <3>1. mm[n - 4] = nxt
      BY <1>3, <2>2
    <3>2. CASE nxt # Null
      <4>1. nxt \in L /\ nxt \notin Heads /\ nxt \in R /\ nxt # bp /\ r[nxt] \in Nat
        BY <1>4, <1>7, <3>2 DEF LinkedBy
      <4>2. rr[n] = 1 /\ rr[nxt] = r[nxt] + 2
        BY <1>4, <2>2, <4>1
      <4>3. cc[nxt] = i /\ cc[n] = i
        BY <1>3, <1>4, <2>2, <3>2, <4>1, <1>5
      <4>4. mm[nxt - 8] = n
        BY <1>3, <2>2, <3>2
      <4>5. rr[n] < rr[nxt]
        BY <4>1, <4>2
      <4> QED BY <3>1, <4>1, <4>3, <4>4, <4>5
    <3> QED BY <3>1, <3>2
  <2>3. CASE n # head /\ n # bp
    <3>1. n \in ListNodes(L) /\ mm[n - 4] = m[n - 4]
      BY <1>4, <1>8, <2>3
    <3>2. CASE m[n - 4] # Null
      <4>1. PICK s \in L : s = m[n - 4]
        BY <3>1, <3>2 DEF LinkedBy
      <4>2. c[s] = c[n] /\ m[s - 8] = n /\ r[n] < r[s] /\ r[n] \in Nat /\ r[s] \in Nat
        BY <1>4, <3>1, <3>2, <4>1 DEF LinkedBy
      <4>3. s # nxt /\ s \in R /\ s # bp /\ s \notin Heads
        BY <1>3, <1>4, <1>6, <2>3, <4>1, <4>2
      <4>4. mm[s - 8] = n
        BY <1>4, <1>9, <4>2, <4>3
      <4>5. cc[s] = cc[n]
        BY <2>3, <4>2, <4>3
      <4>6. rr[s] = r[s] + 2 /\ (rr[n] = 0 \/ rr[n] = r[n] + 2)
        BY <2>3, <4>3
      <4>7. rr[n] < rr[s]
        BY <4>2, <4>6
      <4> QED BY <3>1, <4>1, <4>4, <4>5, <4>7
    <3> QED BY <3>1, <3>2
  <2> QED BY <2>1, <2>2, <2>3
<1>11. ASSUME NEW b \in L \cup {bp}
       PROVE  /\ mm[b - 8] \in R /\ cc[mm[b - 8]] = cc[b]
              /\ mm[mm[b - 8] - 4] = b
  <2>1. CASE b = bp
    BY <1>3, <1>4, <1>5, <2>1
  <2>2. CASE b = nxt
    <3>1. b # bp /\ b # Null /\ b \in R
      BY <1>4, <1>6, <1>7, <2>2
    <3>2. mm[b - 8] = bp /\ mm[bp - 4] = b /\ bp \in R
      BY <1>3, <1>4, <2>2, <3>1
    <3>3. cc[bp] = i /\ cc[b] = i
      BY <1>3, <1>4, <2>2, <3>1, <3>2, <1>5
    <3> QED BY <3>2, <3>3
  <2>3. CASE b # bp /\ b # nxt
    <3>1. b \in ListNodes(L) /\ b \in L /\ mm[b - 8] = m[b - 8]
      BY <1>4, <1>9, <2>3
    <3>2. PICK q \in ListNodes(L) : q = m[b - 8]
      BY <3>1 DEF LinkedBy
    <3>3. c[q] = c[b] /\ m[q - 4] = b
      BY <3>1, <3>2 DEF LinkedBy
    <3>4. q # head /\ q # bp
      BY <1>1, <1>4, <2>3, <3>3
    <3>5. mm[q - 4] = b /\ q \in R /\ b \in R
      BY <1>4, <1>8, <3>1, <3>3, <3>4
    <3>6. cc[q] = cc[b]
      BY <2>3, <3>3, <3>4, <3>5
    <3> QED BY <3>1, <3>2, <3>5, <3>6
  <2> QED BY <2>1, <2>2, <2>3
<1>12. LinkedBy(mm, L \cup {bp}, rr, cc)
  <2> HIDE DEF rr, cc
  <2> QED BY <1>5, <1>10, <1>11 DEF LinkedBy
<1> QED BY <1>2, <1>12 DEF AddRank, AddList

\* heap_add writes links of listed blocks, its own and list heads only.
LEMMA AddFrame ==
  ASSUME NEW m \in [Words -> Nat], NEW k, NEW l,
         NEW B, Spread(B), NEW L, ListNodes(L) \subseteq B,
         NEW r, NEW c, LinkedBy(m, L, r, c),
         NEW bp \in B, bp \notin ListNodes(L),
         NEW i \in 0 .. N - 1, U(Size(m, bp)) = i, heap(i) \in Heads
  PROVE  \A a \in Words : (\A n \in ListNodes(L \cup {bp}) : a # n - 4 /\ a # n - 8)
                          => heap_add(HeapOf(m, k, l), bp).mem[a] = m[a]
<1>1. /\ heap(i) \in ListNodes(L \cup {bp}) /\ bp \in ListNodes(L \cup {bp})
      /\ L \subseteq ListNodes(L \cup {bp})
  BY DEF ListNodes
<1>2. PICK nxt \in L \cup {Null} : nxt = m[heap(i) - 4]
  BY AddWords
<1>3. \A a \in Words : a # heap(i) - 4 /\ a # bp - 4 /\ a # bp - 8 /\ (nxt # Null => a # nxt - 8)
                       => heap_add(HeapOf(m, k, l), bp).mem[a] = m[a]
  BY <1>2, AddWords
<1> QED BY <1>1, <1>2, <1>3

-----------------------------------------------------------------------------
(* Blocks that tile the heap, and how joining, cutting and extending keep it tiled*)

\* The blocks that mm_init makes: the prologue and the heads of the lists.
Fixed == {16} \cup Heads

\* The blocks B with their sizes S cover the heap from the prologue to the
\* epilogue at k + 8.
Tiles(k, B, S) ==
  /\ k \in FirstBlock .. MaxHeap /\ k % 8 = 0
  /\ B \subseteq Nat /\ S \in [B -> Nat]
  /\ Fixed \subseteq B /\ \A b \in Fixed : S[b] = 16
  /\ \A b \in B : /\ b >= 16 /\ b % 8 = 0 /\ S[b] >= 16 /\ S[b] % 8 = 0
                  /\ b + S[b] \in B \cup {k + 8} /\ b + S[b] =< k + 8
  /\ \A b, c \in B : b < c => b + S[b] =< c
  /\ \A t \in B \cup {k + 8} : t # 16 => \E c \in B : c + S[c] = t

\* The heads of the lists, and the numbers that bound the heap.
LEMMA Basics == /\ N \in 1 .. 31 /\ N \in Nat /\ MaxHeap \in Nat /\ MaxHeap % 8 = 0
                /\ MaxHeap =< MAX_SIZE[30] /\ FirstBlock = 24 + 16 * N
                /\ FirstBlock \in Nat /\ FirstBlock =< MaxHeap
                /\ \A i \in 0 .. N - 1 : heap(i) = 32 + 16 * i /\ heap(i) \in Heads
                /\ \A i, j \in 0 .. N - 1 : heap(i) = heap(j) => i = j
                /\ Heads \subseteq Fixed
BY HeapAssumption, MaxSizes DEF FirstBlock, heap, Heads, Fixed

\* Header, links and footer of a block are words of the heap.
LEMMA TilesWords ==
  ASSUME NEW k, NEW B, NEW S, Tiles(k, B, S)
  PROVE  /\ \A b \in B : /\ b - 12 \in Words /\ b - 8 \in Words /\ b - 4 \in Words
                         /\ b + S[b] - 16 \in Words
                         /\ b \in Nat /\ S[b] \in Nat
         /\ k - 4 \in Words
<1>1. k \in Nat /\ k =< MaxHeap /\ k % 8 = 0 /\ MaxHeap \in Nat /\ k >= 24
  BY Basics DEF Tiles
<1>2. ASSUME NEW b \in B
      PROVE  /\ b - 12 \in Words /\ b - 8 \in Words /\ b - 4 \in Words
             /\ b + S[b] - 16 \in Words
             /\ b \in Nat /\ S[b] \in Nat
  <2>1. /\ b \in Nat /\ S[b] \in Nat /\ b >= 16 /\ b % 8 = 0 /\ S[b] >= 16 /\ S[b] % 8 = 0
        /\ b + S[b] =< k + 8
    BY DEF Tiles
  <2>2. (b - 12) % 4 = 0 /\ (b - 8) % 4 = 0 /\ (b - 4) % 4 = 0 /\ (b + S[b] - 16) % 4 = 0
    BY <2>1
  <2> QED BY <1>1, <2>1, <2>2, WordIs
<1>3. (k - 4) % 4 = 0
  BY <1>1
<1> QED BY <1>1, <1>2, <1>3, WordIs

\* Blocks are apart.
LEMMA TilesSpread == ASSUME NEW k, NEW B, NEW S, Tiles(k, B, S) PROVE Spread(B)
<1>1. \A x, y \in B : x < y => x + 16 =< y
  BY DEF Tiles
<1> QED BY <1>1, TilesWords DEF Spread, Tiles

\* The blocks that mm_init did not make lie behind those that it made.
LEMMA FixedFirst ==
  ASSUME NEW k, NEW B, NEW S, Tiles(k, B, S), NEW b \in B, b \notin Fixed
  PROVE  b >= FirstBlock + 8
<1> SUFFICES ASSUME b < FirstBlock + 8 PROVE FALSE
  BY Basics DEF Tiles
<1>1. b \in Nat /\ b >= 16 /\ b < 32 + 16 * N /\ N \in Nat
  BY Basics DEF Tiles
<1>2. PICK q \in Nat : 16 + 16 * q =< b /\ b < 32 + 16 * q
  <2>1. (b - 16) \div 16 \in Nat /\ 16 * ((b - 16) \div 16) =< b - 16
        /\ b - 16 < 16 * ((b - 16) \div 16) + 16
    BY <1>1
  <2> QED BY <1>1, <2>1
<1>3. 16 + 16 * q \in Fixed
  <2>1. CASE q = 0
    BY <2>1 DEF Fixed
  <2>2. CASE q # 0
    <3>1. q - 1 \in 0 .. N - 1
      BY <1>1, <1>2, <2>2
    <3>2. heap(q - 1) = 16 + 16 * q
      BY <1>2, <3>1, Basics
    <3> QED BY <3>1, <3>2, Basics
  <2> QED BY <2>1, <2>2
<1>4. 16 + 16 * q \in B /\ S[16 + 16 * q] = 16 /\ 16 + 16 * q # b
  BY <1>3 DEF Tiles
<1>5. 16 + 16 * q + 16 =< b
  BY <1>1, <1>2, <1>4 DEF Tiles
<1> QED BY <1>1, <1>2, <1>5

\* A block begins where at most one other ends, and none begins inside another.
LEMMA TilesUnique ==
  ASSUME NEW k, NEW B, NEW S, Tiles(k, B, S)
  PROVE  /\ \A b, c \in B : b + S[b] = c + S[c] => b = c
         /\ \A b, c \in B : b < c => b + S[b] =< c
         /\ k + 8 \notin B /\ \A b \in B : b + 16 =< k + 8
<1>1. \A b \in B : b \in Nat /\ S[b] \in Nat /\ S[b] >= 16 /\ b + S[b] =< k + 8
  BY DEF Tiles
<1>2. \A b, c \in B : b < c => b + S[b] =< c
  BY DEF Tiles
<1>3. \A b, c \in B : b + S[b] = c + S[c] => b = c
  BY <1>1, <1>2
<1>4. k \in Nat
  BY Basics DEF Tiles
<1> QED BY <1>1, <1>2, <1>3, <1>4

\* Two neighbours become one block.
Joined(B, S, x, y) == [b \in B \ {y} |-> IF b = x THEN S[x] + S[y] ELSE S[b]]

\* After that the blocks still tile the heap.
LEMMA JoinTiles ==
  ASSUME NEW k, NEW B, NEW S, Tiles(k, B, S), NEW x \in B \ Fixed, NEW y \in B \ Fixed,
         y = x + S[x]
  PROVE  Tiles(k, B \ {y}, Joined(B, S, x, y))
<1> DEFINE BB == B \ {y}
           SS == Joined(B, S, x, y)
<1>1. /\ \A b \in B : /\ b \in Nat /\ S[b] \in Nat /\ b >= 16 /\ b % 8 = 0 /\ S[b] >= 16 /\ S[b] % 8 = 0
                      /\ b + S[b] \in B \cup {k + 8} /\ b + S[b] =< k + 8
      /\ k \in Nat
  BY Basics DEF Tiles
<1>2. /\ \A b \in BB : b # x => SS[b] = S[b]
      /\ SS[x] = S[x] + S[y] /\ x \in BB /\ SS \in [BB -> Nat]
  <2>1. x # y /\ S[x] + S[y] \in Nat
    BY <1>1
  <2>2. SS \in [BB -> Nat]
    BY <1>1, <2>1 DEF Joined
  <2> QED BY <2>1, <2>2 DEF Joined
<1> HIDE DEF SS
<1>3. /\ Fixed \subseteq BB /\ \A b \in Fixed : SS[b] = 16
  BY <1>2 DEF Tiles
<1>4. ASSUME NEW b \in BB
      PROVE  /\ b >= 16 /\ b % 8 = 0 /\ SS[b] >= 16 /\ SS[b] % 8 = 0
             /\ b + SS[b] \in BB \cup {k + 8} /\ b + SS[b] =< k + 8
  <2>1. CASE b = x
    <3>1. b + SS[b] = y + S[y]
      BY <1>1, <1>2, <2>1
    <3>2. (S[x] + S[y]) % 8 = 0
      BY <1>1
    <3> QED BY <1>1, <1>2, <2>1, <3>1, <3>2
  <2>2. CASE b # x
    BY <1>1, <1>2, <2>2, TilesUnique
  <2> QED BY <2>1, <2>2
<1>5. ASSUME NEW b \in BB, NEW c \in BB, b < c PROVE b + SS[b] =< c
  <2>1. b + S[b] =< c
    BY <1>5, TilesUnique
  <2>2. CASE b = x
    <3>1. y < c
      BY <1>1, <2>1, <2>2
    <3>2. y + S[y] =< c
      BY <3>1, TilesUnique
    <3> QED BY <1>1, <1>2, <2>2, <3>2
  <2> QED BY <1>2, <2>1, <2>2
<1>6. ASSUME NEW t \in BB \cup {k + 8}, t # 16 PROVE \E c \in BB : c + SS[c] = t
  <2>1. PICK c \in B : c + S[c] = t
    BY <1>6 DEF Tiles
  <2>2. t # y
    BY TilesUnique
  <2>3. CASE c = y
    <3>1. x + SS[x] = t
      BY <1>1, <1>2, <2>1, <2>3
    <3> QED BY <1>2, <3>1
  <2>4. CASE c # y
    BY <1>2, <2>1, <2>2, <2>4
  <2> QED BY <2>3, <2>4
<1>7. BB \subseteq Nat /\ k \in FirstBlock .. MaxHeap /\ k % 8 = 0
  BY DEF Tiles
<1> HIDE DEF BB
<1>8. Tiles(k, BB, SS)
  BY <1>2, <1>3, <1>4, <1>5, <1>6, <1>7 DEF Tiles
<1> QED BY <1>8 DEF BB, SS

\* A block is cut in two.
Cut(B, S, x, n) == [b \in B \cup {x + n} |-> IF b = x THEN n ELSE IF b = x + n THEN S[x] - n ELSE S[b]]

\* A block cut so that both parts are large enough leaves the heap tiled.
LEMMA CutTiles ==
  ASSUME NEW k, NEW B, NEW S, Tiles(k, B, S), NEW x \in B \ Fixed, NEW n \in Nat, n >= 16, n % 8 = 0,
         S[x] - n >= 16
  PROVE  Tiles(k, B \cup {x + n}, Cut(B, S, x, n)) /\ x + n \notin B
<1> DEFINE y == x + n
           BB == B \cup {y}
           SS == Cut(B, S, x, n)
<1>1. /\ \A b \in B : /\ b \in Nat /\ S[b] \in Nat /\ b >= 16 /\ b % 8 = 0 /\ S[b] >= 16 /\ S[b] % 8 = 0
                      /\ b + S[b] \in B \cup {k + 8} /\ b + S[b] =< k + 8
      /\ k \in Nat
  BY Basics DEF Tiles
<1>2. y \in Nat /\ x < y /\ y < x + S[x]
  BY <1>1
<1>3. y \notin B
  BY <1>1, <1>2, TilesUnique
<1>4. /\ \A b \in B : b # x => SS[b] = S[b]
      /\ SS[x] = n /\ SS[y] = S[x] - n
  BY <1>2, <1>3 DEF Cut
<1>5. SS \in [BB -> Nat]
  BY <1>1 DEF Cut
<1> HIDE DEF SS
<1>6. /\ Fixed \subseteq BB /\ \A b \in Fixed : SS[b] = 16
  BY <1>4 DEF Tiles
<1>7. ASSUME NEW b \in BB
      PROVE  /\ b >= 16 /\ b % 8 = 0 /\ SS[b] >= 16 /\ SS[b] % 8 = 0
             /\ b + SS[b] \in BB \cup {k + 8} /\ b + SS[b] =< k + 8
  <2>1. CASE b = x
    BY <1>1, <1>2, <1>4, <2>1
  <2>2. CASE b = y
    <3>1. y % 8 = 0 /\ (S[x] - n) % 8 = 0
      BY <1>1
    <3>2. y + SS[y] = x + S[x]
      BY <1>1, <1>2, <1>4
    <3> QED BY <1>1, <1>2, <1>4, <2>2, <3>1, <3>2
  <2>3. CASE b # x /\ b # y
    BY <1>1, <1>4, <2>3
  <2> QED BY <2>1, <2>2, <2>3
<1>8. ASSUME NEW b \in BB, NEW c \in BB, b < c PROVE b + SS[b] =< c
  <2>1. CASE b = x
    <3>1. c = y \/ x + S[x] =< c
      BY <1>8, <2>1, TilesUnique
    <3> QED BY <1>1, <1>2, <1>4, <2>1, <3>1
  <2>2. CASE b = y
    <3>1. c \in B /\ x < c
      BY <1>1, <1>2, <1>8, <2>2
    <3>2. x + S[x] =< c
      BY <3>1, TilesUnique
    <3> QED BY <1>1, <1>2, <1>4, <2>2, <3>2
  <2>3. CASE b # x /\ b # y /\ c # y
    BY <1>4, <1>8, <2>3, TilesUnique
  <2>4. CASE b # x /\ b # y /\ c = y
    <3>1. b < x
      <4>1. ~ (x < b)
        <5> SUFFICES ASSUME x < b PROVE FALSE
          OBVIOUS
        <5>1. x + S[x] =< b
          BY <2>4, TilesUnique
        <5> QED BY <1>1, <1>2, <1>8, <2>4, <5>1
      <4> QED BY <1>1, <2>4, <4>1
    <3>2. b + S[b] =< x
      BY <2>4, <3>1, TilesUnique
    <3> QED BY <1>1, <1>2, <1>4, <2>4, <3>2
  <2> QED BY <2>1, <2>2, <2>3, <2>4
<1>9. ASSUME NEW t \in BB \cup {k + 8}, t # 16 PROVE \E c \in BB : c + SS[c] = t
  <2>1. CASE t = y
    BY <1>4, <2>1
  <2>2. CASE t # y
    <3>1. PICK c \in B : c + S[c] = t
      BY <1>9, <2>2 DEF Tiles
    <3>2. CASE c = x
      <4>1. y + SS[y] = t
        BY <1>1, <1>2, <1>4, <3>1, <3>2
      <4> QED BY <4>1
    <3>3. CASE c # x
      BY <1>4, <3>1, <3>3
    <3> QED BY <3>2, <3>3
  <2> QED BY <2>1, <2>2
<1>10. BB \subseteq Nat /\ k \in FirstBlock .. MaxHeap /\ k % 8 = 0
  BY <1>2 DEF Tiles
<1> HIDE DEF BB
<1>11. Tiles(k, BB, SS)
  BY <1>5, <1>6, <1>7, <1>8, <1>9, <1>10 DEF Tiles
<1> QED BY <1>3, <1>11 DEF BB, SS

\* The heap is extended by a block.
Extended(B, S, k, n) == [b \in B \cup {k + 8} |-> IF b = k + 8 THEN n ELSE S[b]]

\* With a new block at its end the heap is tiled to its new end.
LEMMA ExtendTiles ==
  ASSUME NEW k, NEW B, NEW S, Tiles(k, B, S), NEW n \in Nat, n >= 16, n % 8 = 0, k + n =< MaxHeap
  PROVE  Tiles(k + n, B \cup {k + 8}, Extended(B, S, k, n))
<1> DEFINE y == k + 8
           BB == B \cup {y}
           SS == Extended(B, S, k, n)
<1>1. /\ \A b \in B : /\ b \in Nat /\ S[b] \in Nat /\ b >= 16 /\ b % 8 = 0 /\ S[b] >= 16 /\ S[b] % 8 = 0
                      /\ b + S[b] \in B \cup {y} /\ b + S[b] =< y
      /\ k \in Nat /\ k >= FirstBlock /\ FirstBlock \in Nat /\ FirstBlock >= 24 /\ MaxHeap \in Nat /\ k % 8 = 0
  BY Basics DEF Tiles
<1>2. y \notin B
  BY TilesUnique
<1>3. /\ \A b \in B : SS[b] = S[b]
      /\ SS[y] = n
  BY <1>2 DEF Extended
<1>4. SS \in [BB -> Nat]
  BY <1>1 DEF Extended
<1> HIDE DEF SS
<1>5. /\ Fixed \subseteq BB /\ \A b \in Fixed : SS[b] = 16
  BY <1>3 DEF Tiles
<1>6. ASSUME NEW b \in BB
      PROVE  /\ b >= 16 /\ b % 8 = 0 /\ SS[b] >= 16 /\ SS[b] % 8 = 0
             /\ b + SS[b] \in BB \cup {k + n + 8} /\ b + SS[b] =< k + n + 8
  <2>1. CASE b = y
    <3>1. y % 8 = 0
      BY <1>1
    <3> QED BY <1>1, <1>3, <2>1, <3>1
  <2>2. CASE b # y
    <3>1. b \in B /\ SS[b] = S[b]
      BY <1>3, <2>2
    <3> QED BY <1>1, <3>1
  <2> QED BY <2>1, <2>2
<1>7. ASSUME NEW b \in BB, NEW c \in BB, b < c PROVE b + SS[b] =< c
  <2>1. b # y
    BY <1>1, <1>7
  <2>2. b \in B /\ SS[b] = S[b]
    BY <1>3, <2>1
  <2>3. CASE c = y
    BY <1>1, <2>2, <2>3
  <2>4. CASE c # y
    BY <1>7, <2>2, <2>4, TilesUnique
  <2> QED BY <2>3, <2>4
<1>8. ASSUME NEW t \in BB \cup {k + n + 8}, t # 16 PROVE \E c \in BB : c + SS[c] = t
  <2>1. CASE t = k + n + 8
    <3>1. y + SS[y] = t
      BY <1>1, <1>3, <2>1
    <3> QED BY <3>1
  <2>2. CASE t # k + n + 8
    <3>1. PICK c \in B : c + S[c] = t
      BY <1>8, <2>2 DEF Tiles
    <3> QED BY <1>3, <3>1
  <2> QED BY <2>1, <2>2
<1>9. BB \subseteq Nat /\ k + n \in FirstBlock .. MaxHeap /\ (k + n) % 8 = 0
  BY <1>1
<1> HIDE DEF BB
<1>10. Tiles(k + n, BB, SS)
  BY <1>4, <1>5, <1>6, <1>7, <1>8, <1>9 DEF Tiles
<1> QED BY <1>10 DEF BB, SS

\* The last block grows with the heap.
Grown(B, S, x, d) == [b \in B |-> IF b = x THEN S[x] + d ELSE S[b]]

\* So it is when the last block takes the new words.
LEMMA GrowTiles ==
  ASSUME NEW k, NEW B, NEW S, Tiles(k, B, S), NEW x \in B \ Fixed, x + S[x] = k + 8,
         NEW d \in Nat, d % 8 = 0, k + d =< MaxHeap
  PROVE  Tiles(k + d, B, Grown(B, S, x, d))
<1> DEFINE SS == Grown(B, S, x, d)
<1>1. /\ \A b \in B : /\ b \in Nat /\ S[b] \in Nat /\ b >= 16 /\ b % 8 = 0 /\ S[b] >= 16 /\ S[b] % 8 = 0
                      /\ b + S[b] \in B \cup {k + 8} /\ b + S[b] =< k + 8
      /\ k \in Nat /\ k >= FirstBlock /\ FirstBlock \in Nat /\ MaxHeap \in Nat /\ k % 8 = 0
  BY Basics DEF Tiles
<1>2. /\ \A b \in B : b # x => SS[b] = S[b]
      /\ SS[x] = S[x] + d
  BY DEF Grown
<1>3. SS \in [B -> Nat]
  BY <1>1 DEF Grown
<1> HIDE DEF SS
<1>4. /\ Fixed \subseteq B /\ \A b \in Fixed : SS[b] = 16
  BY <1>2 DEF Tiles
<1>5. ASSUME NEW b \in B
      PROVE  /\ b >= 16 /\ b % 8 = 0 /\ SS[b] >= 16 /\ SS[b] % 8 = 0
             /\ b + SS[b] \in B \cup {k + d + 8} /\ b + SS[b] =< k + d + 8
  <2>1. CASE b = x
    <3>1. (S[x] + d) % 8 = 0
      BY <1>1
    <3> QED BY <1>1, <1>2, <2>1, <3>1
  <2>2. CASE b # x
    <3>1. b + S[b] # k + 8
      BY <2>2, TilesUnique
    <3> QED BY <1>1, <1>2, <2>2, <3>1
  <2> QED BY <2>1, <2>2
<1>6. ASSUME NEW b \in B, NEW c \in B, b < c PROVE b + SS[b] =< c
  <2>1. b # x
    <3> SUFFICES ASSUME b = x PROVE FALSE
      OBVIOUS
    <3>1. x + S[x] =< c /\ c + 16 =< k + 8
      BY <1>6, TilesUnique
    <3>2. c \in Nat /\ k + 8 =< c
      BY <1>1, <3>1
    <3> QED BY <1>1, <3>1, <3>2
  <2> QED BY <1>2, <1>6, <2>1, TilesUnique
<1>7. ASSUME NEW t \in B \cup {k + d + 8}, t # 16 PROVE \E c \in B : c + SS[c] = t
  <2>1. CASE t = k + d + 8
    <3>1. x + SS[x] = t
      BY <1>1, <1>2, <2>1
    <3> QED BY <3>1
  <2>2. CASE t # k + d + 8
    <3>1. PICK c \in B : c + S[c] = t
      BY <1>7, <2>2 DEF Tiles
    <3>2. c # x
      BY <2>2, <3>1, TilesUnique
    <3> QED BY <1>2, <3>1, <3>2
  <2> QED BY <2>1, <2>2
<1>8. B \subseteq Nat /\ k + d \in FirstBlock .. MaxHeap /\ (k + d) % 8 = 0
  <2>1. (k + d) % 8 = 0
    BY <1>1
  <2> QED BY <1>1, <2>1
<1>9. Tiles(k + d, B, SS)
  BY <1>3, <1>4, <1>5, <1>6, <1>7, <1>8 DEF Tiles
<1> QED BY <1>9 DEF SS

-----------------------------------------------------------------------------
(* The state of a heap, possibly with words still to be written            *)

\* The allocated bit of block b, when F are the free blocks.
Alloc(b, F) == IF b \in F THEN 0 ELSE 1

\* Every block outside X has its size and allocated bit in header and footer;
\* unless k + 8 is in X, the epilogue is there.
Tagged(m, k, B, S, F, X) ==
  /\ m \in [Words -> Nat]
  /\ k + 8 \notin X => m[k - 4] = 1
  /\ \A b \in B \ X : /\ m[b - 12] = S[b] + Alloc(b, F)
                      /\ m[b + S[b] - 16] = S[b] + Alloc(b, F)

\* The lists hold the blocks of L, each in the list of its size.
Lists(m, S, L) ==
  \E r, c : /\ LinkedBy(m, L, r, c)
            /\ \A i \in 0 .. N - 1 : c[heap(i)] = i
            /\ \A b \in L : c[b] = U(S[b])

\* A heap with blocks B of sizes S, of which F are free and L in the lists;
\* the words of the blocks of X are still to be written.
State(m, k, B, S, F, L, X) ==
  /\ Tiles(k, B, S)
  /\ Tagged(m, k, B, S, F, X)
  /\ Lists(m, S, L)
  /\ F \subseteq B \ Fixed /\ L \subseteq F

\* What lies between header and footer of the blocks of A is the same.
Kept(m, mm, A, S) ==
  \A b \in A : \A a \in Words : b - 8 =< a /\ a < b + S[b] - 16 => mm[a] = m[a]

\* What is kept by two changes is kept by both together.
LEMMA KeptTransitive ==
  ASSUME NEW m1, NEW m2, NEW m3, NEW A, NEW S, Kept(m1, m2, A, S), Kept(m2, m3, A, S)
  PROVE  Kept(m1, m3, A, S)
BY DEF Kept

\* What is kept in some blocks is kept in fewer.
LEMMA KeptSame ==
  ASSUME NEW m1, NEW m2, NEW A, NEW S, NEW A2, NEW S2, Kept(m1, m2, A, S), A2 \subseteq A,
         \A b \in A2 : S2[b] = S[b]
  PROVE  Kept(m1, m2, A2, S2)
BY DEF Kept

\* Headers, footers, links and payloads do not overlap.
LEMMA WordsApart ==
  ASSUME NEW k, NEW B, NEW S, Tiles(k, B, S), NEW x \in B
  PROVE  /\ \A b \in B \ {x} : /\ b - 12 # x - 12 /\ b - 12 # x + S[x] - 16
                               /\ b + S[b] - 16 # x - 12 /\ b + S[b] - 16 # x + S[x] - 16
         /\ \A b \in B : /\ b - 4 # x - 12 /\ b - 4 # x + S[x] - 16
                         /\ b - 8 # x - 12 /\ b - 8 # x + S[x] - 16
         /\ k - 4 # x - 12 /\ k - 4 # x - 8 /\ k - 4 # x - 4 /\ k - 4 # x + S[x] - 16
         /\ x - 12 # x + S[x] - 16
         /\ \A b \in B : \A a \in Int : b - 8 =< a /\ a < b + S[b] - 16 =>
              /\ a # x - 12 /\ a # x + S[x] - 16 /\ a # k - 4
              /\ b # x => a # x - 4 /\ a # x - 8
<1>1. k \in Nat /\ x \in Nat /\ S[x] \in Nat /\ S[x] >= 16 /\ x + S[x] =< k + 8
  BY Basics DEF Tiles
<1>2. ASSUME NEW b \in B
      PROVE  /\ b \in Nat /\ S[b] \in Nat /\ S[b] >= 16 /\ b + S[b] =< k + 8
             /\ b < x => b + S[b] =< x
             /\ x < b => x + S[x] =< b
  BY DEF Tiles
<1>3. ASSUME NEW b \in B \ {x}
      PROVE  /\ b - 12 # x - 12 /\ b - 12 # x + S[x] - 16
             /\ b + S[b] - 16 # x - 12 /\ b + S[b] - 16 # x + S[x] - 16
             /\ b - 4 # x - 12 /\ b - 4 # x + S[x] - 16
             /\ b - 8 # x - 12 /\ b - 8 # x + S[x] - 16
  <2>1. /\ b \in Nat /\ S[b] \in Nat /\ S[b] >= 16
        /\ (b < x /\ b + S[b] =< x) \/ (x < b /\ x + S[x] =< b)
    BY <1>1, <1>2
  <2> QED BY <1>1, <2>1
<1>4. /\ x - 4 # x - 12 /\ x - 4 # x + S[x] - 16
      /\ x - 8 # x - 12 /\ x - 8 # x + S[x] - 16
      /\ k - 4 # x - 12 /\ k - 4 # x - 8 /\ k - 4 # x - 4 /\ k - 4 # x + S[x] - 16
      /\ x - 12 # x + S[x] - 16
  BY <1>1
<1>5. ASSUME NEW b \in B, NEW a \in Int, b - 8 =< a, a < b + S[b] - 16
      PROVE  /\ a # x - 12 /\ a # x + S[x] - 16 /\ a # k - 4
             /\ b # x => a # x - 4 /\ a # x - 8
  <2>1. CASE b = x
    BY <1>1, <1>5, <2>1
  <2>2. CASE b # x
    <3>1. /\ b \in Nat /\ S[b] \in Nat /\ S[b] >= 16 /\ b + S[b] =< k + 8
          /\ (b < x /\ b + S[b] =< x) \/ (x < b /\ x + S[x] =< b)
      BY <1>1, <1>2, <2>2
    <3> QED BY <1>1, <1>5, <3>1
  <2> QED BY <2>1, <2>2
<1> QED BY <1>3, <1>4, <1>5

\* The links depend on the link words of the listed blocks and the heads only.
LEMMA LinkedSame ==
  ASSUME NEW m, NEW mm, NEW L, NEW r, NEW c, LinkedBy(m, L, r, c), Null \notin L,
         \A n \in ListNodes(L) : mm[n - 4] = m[n - 4] /\ mm[n - 8] = m[n - 8]
  PROVE  LinkedBy(mm, L, r, c)
<1>1. L \subseteq ListNodes(L)
  BY DEF ListNodes
<1>2. ASSUME NEW n \in ListNodes(L)
      PROVE  \/ mm[n - 4] = Null
             \/ /\ mm[n - 4] \in L /\ c[mm[n - 4]] = c[n]
                /\ mm[mm[n - 4] - 8] = n /\ r[n] < r[mm[n - 4]]
  <2>1. CASE m[n - 4] # Null
    <3>1. PICK s \in L : s = m[n - 4]
      BY <2>1 DEF LinkedBy
    <3>2. c[s] = c[n] /\ m[s - 8] = n /\ r[n] < r[s]
      BY <2>1, <3>1 DEF LinkedBy
    <3> QED BY <1>1, <3>1, <3>2
  <2> QED BY <2>1
<1>3. ASSUME NEW b \in L
      PROVE  /\ mm[b - 8] \in ListNodes(L) /\ c[mm[b - 8]] = c[b]
             /\ mm[mm[b - 8] - 4] = b
  <2>1. PICK q \in ListNodes(L) : q = m[b - 8]
    BY DEF LinkedBy
  <2>2. c[q] = c[b] /\ m[q - 4] = b
    BY <2>1 DEF LinkedBy
  <2> QED BY <1>1, <2>1, <2>2
<1> QED BY <1>2, <1>3 DEF LinkedBy

\* So do the lists.
LEMMA ListsSame ==
  ASSUME NEW m, NEW mm, NEW S, NEW SS, NEW L, Lists(m, S, L), Null \notin L,
         \A n \in ListNodes(L) : mm[n - 4] = m[n - 4] /\ mm[n - 8] = m[n - 8],
         \A b \in L : SS[b] = S[b]
  PROVE  Lists(mm, SS, L)
<1>1. PICK r, c : /\ LinkedBy(m, L, r, c)
                  /\ \A i \in 0 .. N - 1 : c[heap(i)] = i
                  /\ \A b \in L : c[b] = U(S[b])
  BY DEF Lists
<1>2. LinkedBy(mm, L, r, c)
  BY <1>1, LinkedSame
<1>3. \A b \in L : c[b] = U(SS[b])
  BY <1>1
<1> QED BY <1>1, <1>2, <1>3 DEF Lists

\* The nodes of the lists are blocks.
LEMMA NodesAreBlocks ==
  ASSUME NEW m, NEW k, NEW B, NEW S, NEW F, NEW L, NEW X, State(m, k, B, S, F, L, X)
  PROVE  /\ ListNodes(L) \subseteq B /\ Null \notin L /\ L \cap Heads = {} /\ Spread(B)
         /\ L \subseteq B /\ Heads \subseteq B /\ L \subseteq ListNodes(L) /\ Heads \subseteq ListNodes(L)
         /\ m \in [Words -> Nat] /\ Tiles(k, B, S)
<1>1. Spread(B)
  BY TilesSpread DEF State
<1> QED BY <1>1, LinksApart, Basics DEF State, Tiles, ListNodes, Tagged

\* What header, footer and neighbours of a block tell.
LEMMA Reads ==
  ASSUME NEW m, NEW k, NEW B, NEW S, NEW F, NEW L, NEW X, State(m, k, B, S, F, L, X),
         NEW b \in B, b \notin X
  PROVE  /\ Size(m, b) = S[b] /\ GET_ALLOC(m, HDRP(b)) = Alloc(b, F)
         /\ FTRP(m, b) = b + S[b] - 16
         /\ GET_ALLOC(m, FTRP(m, b)) = Alloc(b, F) /\ m[FTRP(m, b)] = m[HDRP(b)]
         /\ NEXT_BLKP(m, b) = b + S[b]
         /\ PREV_BLKP(m, b + S[b]) = b
<1>1. S[b] \in Nat /\ S[b] % 8 = 0 /\ b \in Nat /\ Alloc(b, F) \in {0, 1}
  BY DEF State, Tiles, Alloc
<1>2. m[b - 12] = S[b] + Alloc(b, F) /\ m[b + S[b] - 16] = S[b] + Alloc(b, F)
  BY DEF State, Tagged
<1>3. GET_SIZE(m, b - 12) = S[b] /\ GET_ALLOC(m, b - 12) = Alloc(b, F)
  BY <1>1, <1>2, Tagging
<1>4. GET_SIZE(m, b + S[b] - 16) = S[b] /\ GET_ALLOC(m, b + S[b] - 16) = Alloc(b, F)
  BY <1>1, <1>2, Tagging
<1>5. Size(m, b) = S[b]
  BY <1>3 DEF Size, HDRP
<1>6. FTRP(m, b) = b + S[b] - 16 /\ NEXT_BLKP(m, b) = b + S[b]
  BY <1>5 DEF FTRP, NEXT_BLKP
<1>7. PREV_BLKP(m, b + S[b]) = b
  BY <1>1, <1>4 DEF PREV_BLKP
<1> QED BY <1>2, <1>3, <1>4, <1>5, <1>6, <1>7 DEF HDRP

\* The epilogue is an allocated block of size 0.
LEMMA ReadsEnd ==
  ASSUME NEW m, NEW k, NEW B, NEW S, NEW F, NEW L, NEW X, State(m, k, B, S, F, L, X),
         k + 8 \notin X
  PROVE  /\ GET_ALLOC(m, HDRP(k + 8)) = 1 /\ Size(m, k + 8) = 0
<1>1. k \in Nat /\ m[k - 4] = 0 + 1
  BY Basics DEF State, Tagged, Tiles
<1>2. GET_SIZE(m, k - 4) = 0 /\ GET_ALLOC(m, k - 4) = 1
  BY <1>1, Tagging
<1>3. HDRP(k + 8) = k - 4
  BY <1>1 DEF HDRP
<1> QED BY <1>2, <1>3 DEF Size

-----------------------------------------------------------------------------
(* What each write and each list operation does to the state               *)

\* PUT of header and footer completes one block and touches nothing else.
LEMMA DoTag ==
  ASSUME NEW m, NEW k, NEW B, NEW S, NEW F, NEW L, NEW X, State(m, k, B, S, F, L, X),
         NEW x \in B
  PROVE  /\ State(Tag(m, x, S[x], Alloc(x, F)), k, B, S, F, L, X \ {x})
         /\ Kept(m, Tag(m, x, S[x], Alloc(x, F)), B, S)
<1> DEFINE mm == Tag(m, x, S[x], Alloc(x, F))
<1>1. /\ x - 12 \in Words /\ x + S[x] - 16 \in Words /\ x \in Nat /\ S[x] \in Nat
      /\ \A b \in B : /\ b - 12 \in Words /\ b - 8 \in Words /\ b - 4 \in Words
                      /\ b + S[b] - 16 \in Words
      /\ k - 4 \in Words
  BY TilesWords DEF State
<1>2. x - 12 # x + S[x] - 16
  BY WordsApart DEF State
<1>3. PICK v \in Nat : v = S[x] + Alloc(x, F)
  BY <1>1 DEF Alloc
<1>4. m \in [Words -> Nat]
  BY DEF State, Tagged
<1>5. mm = [m EXCEPT ![x - 12] = v, ![x + S[x] - 16] = v]
  BY <1>3 DEF Tag, HDRP, PACK
<1>6. /\ mm \in [Words -> Nat]
      /\ mm[x - 12] = v /\ mm[x + S[x] - 16] = v
      /\ \A a \in Words : a # x - 12 /\ a # x + S[x] - 16 => mm[a] = m[a]
  <2> HIDE DEF mm
  <2> QED BY <1>1, <1>2, <1>3, <1>4, <1>5
<1> HIDE DEF mm
<1>7. ASSUME k + 8 \notin X \ {x} PROVE mm[k - 4] = 1
  <2>1. k + 8 # x /\ k - 4 # x - 12 /\ k - 4 # x + S[x] - 16
    BY TilesUnique, WordsApart DEF State
  <2>2. m[k - 4] = 1
    BY <1>7, <2>1 DEF State, Tagged
  <2> QED BY <1>1, <1>6, <2>1, <2>2
<1>8. ASSUME NEW b \in B \ (X \ {x})
      PROVE  mm[b - 12] = S[b] + Alloc(b, F) /\ mm[b + S[b] - 16] = S[b] + Alloc(b, F)
  <2>1. CASE b = x
    BY <1>3, <1>6, <2>1
  <2>2. CASE b # x
    <3>1. /\ b - 12 # x - 12 /\ b - 12 # x + S[x] - 16
          /\ b + S[b] - 16 # x - 12 /\ b + S[b] - 16 # x + S[x] - 16
      BY <2>2, WordsApart DEF State
    <3>2. m[b - 12] = S[b] + Alloc(b, F) /\ m[b + S[b] - 16] = S[b] + Alloc(b, F)
      BY <2>2 DEF State, Tagged
    <3> QED BY <1>1, <1>6, <3>1, <3>2
  <2> QED BY <2>1, <2>2
<1>9. Tagged(mm, k, B, S, F, X \ {x})
  BY <1>6, <1>7, <1>8 DEF Tagged
<1>10. \A n \in B : mm[n - 4] = m[n - 4] /\ mm[n - 8] = m[n - 8]
  <2>1. \A b \in B : /\ b - 4 # x - 12 /\ b - 4 # x + S[x] - 16
                     /\ b - 8 # x - 12 /\ b - 8 # x + S[x] - 16
    BY WordsApart DEF State
  <2> QED BY <1>1, <1>6, <2>1
<1>11. Lists(mm, S, L)
  BY <1>10, ListsSame, NodesAreBlocks DEF State
<1>12. Kept(m, mm, B, S)
  <2> SUFFICES ASSUME NEW b \in B, NEW a \in Words, b - 8 =< a, a < b + S[b] - 16
               PROVE  mm[a] = m[a]
    BY DEF Kept
  <2>1. a \in Int
    BY DEF Words
  <2>2. a # x - 12 /\ a # x + S[x] - 16
    BY <2>1, WordsApart DEF State
  <2> QED BY <1>6, <2>2
<1> QED BY <1>9, <1>11, <1>12 DEF State, mm

\* The new epilogue.
LEMMA DoEnd ==
  ASSUME NEW m, NEW k, NEW B, NEW S, NEW F, NEW L, NEW X, State(m, k, B, S, F, L, X)
  PROVE  /\ State([m EXCEPT ![k - 4] = 1], k, B, S, F, L, X \ {k + 8})
         /\ Kept(m, [m EXCEPT ![k - 4] = 1], B, S)
<1> DEFINE mm == [m EXCEPT ![k - 4] = 1]
<1>1. /\ \A b \in B : /\ b - 12 \in Words /\ b - 8 \in Words /\ b - 4 \in Words
                      /\ b + S[b] - 16 \in Words
      /\ k - 4 \in Words
  BY TilesWords DEF State
<1>2. m \in [Words -> Nat]
  BY DEF State, Tagged
<1>3. mm \in [Words -> Nat] /\ mm[k - 4] = 1 /\ \A a \in Words : a # k - 4 => mm[a] = m[a]
  BY <1>1, <1>2
<1> HIDE DEF mm
<1>4. \A b \in B : k - 4 # b - 12 /\ k - 4 # b - 8 /\ k - 4 # b - 4 /\ k - 4 # b + S[b] - 16
  BY WordsApart DEF State
<1>5. k + 8 \notin B
  BY TilesUnique DEF State
<1>6. Tagged(mm, k, B, S, F, X \ {k + 8})
  <2>1. ASSUME NEW b \in B \ (X \ {k + 8})
        PROVE  mm[b - 12] = S[b] + Alloc(b, F) /\ mm[b + S[b] - 16] = S[b] + Alloc(b, F)
    <3>1. m[b - 12] = S[b] + Alloc(b, F) /\ m[b + S[b] - 16] = S[b] + Alloc(b, F)
      BY <1>5 DEF State, Tagged
    <3> QED BY <1>1, <1>3, <1>4, <3>1
  <2> QED BY <1>3, <2>1 DEF Tagged
<1>7. \A n \in B : mm[n - 4] = m[n - 4] /\ mm[n - 8] = m[n - 8]
  BY <1>1, <1>3, <1>4
<1>8. Lists(mm, S, L)
  BY <1>7, ListsSame, NodesAreBlocks DEF State
<1>9. Kept(m, mm, B, S)
  <2> SUFFICES ASSUME NEW b \in B, NEW a \in Words, b - 8 =< a, a < b + S[b] - 16
               PROVE  mm[a] = m[a]
    BY DEF Kept
  <2>1. a \in Int
    BY DEF Words
  <2>2. a # k - 4
    BY <2>1, WordsApart DEF State
  <2> QED BY <1>3, <2>2
<1> QED BY <1>6, <1>8, <1>9 DEF State, mm

\* A change of link words only keeps tags and the payload of what is not listed.
LEMMA LinksOnly ==
  ASSUME NEW m, NEW mm \in [Words -> Nat], NEW k, NEW B, NEW S, NEW F, NEW X, NEW D,
         Tiles(k, B, S), Tagged(m, k, B, S, F, X), D \subseteq B,
         \A a \in Words : (\A n \in D : a # n - 4 /\ a # n - 8) => mm[a] = m[a]
  PROVE  Tagged(mm, k, B, S, F, X) /\ Kept(m, mm, B \ D, S)
<1>1. /\ \A b \in B : b - 12 \in Words /\ b + S[b] - 16 \in Words
      /\ k - 4 \in Words
  BY TilesWords
<1>2. \A b \in B : \A n \in D : /\ b - 12 # n - 4 /\ b - 12 # n - 8
                                /\ b + S[b] - 16 # n - 4 /\ b + S[b] - 16 # n - 8
                                /\ k - 4 # n - 8 /\ k - 4 # n - 4
  BY WordsApart
<1>3. \A b \in B : mm[b - 12] = m[b - 12] /\ mm[b + S[b] - 16] = m[b + S[b] - 16]
  BY <1>1, <1>2
<1>4. k + 8 \notin X => mm[k - 4] = m[k - 4]
  <2>1. \A n \in D : k - 4 # n - 4 /\ k - 4 # n - 8
    BY WordsApart
  <2> QED BY <1>1, <2>1
<1>5. Tagged(mm, k, B, S, F, X)
  BY <1>3, <1>4 DEF Tagged
<1>6. Kept(m, mm, B \ D, S)
  <2> SUFFICES ASSUME NEW b \in B \ D, NEW a \in Words, b - 8 =< a, a < b + S[b] - 16
               PROVE  mm[a] = m[a]
    BY DEF Kept
  <2>1. a \in Int
    BY DEF Words
  <2>2. \A n \in D : a # n - 4 /\ a # n - 8
    BY <2>1, WordsApart
  <2> QED BY <2>2
<1> QED BY <1>5, <1>6

\* heap_remove takes a block off the lists.
LEMMA DoRemove ==
  ASSUME NEW m, NEW k, NEW B, NEW S, NEW F, NEW L, NEW X, State(m, k, B, S, F, L, X),
         NEW x \in L
  PROVE  /\ State(heap_remove(m, x), k, B, S, F, L \ {x}, X)
         /\ Kept(m, heap_remove(m, x), B \ (F \cup Fixed), S)
<1> DEFINE mm == heap_remove(m, x)
<1>1. PICK r, c : /\ LinkedBy(m, L, r, c)
                  /\ \A i \in 0 .. N - 1 : c[heap(i)] = i
                  /\ \A b \in L : c[b] = U(S[b])
  BY DEF State, Lists
<1>2. /\ mm \in [Words -> Nat]
      /\ \A a \in Words : (\A n \in ListNodes(L) : a # n - 4 /\ a # n - 8) => mm[a] = m[a]
  BY <1>1, NodesAreBlocks, RemoveFrame
<1>3. PICK R : R = ListNodes(L \ {x})
  OBVIOUS
<1>4. LinkedBy(mm, L \ {x}, [n \in R |-> r[n]], [n \in R |-> c[n]])
  BY <1>1, <1>3, NodesAreBlocks, RemoveKeeps
<1>5. /\ \A i \in 0 .. N - 1 : heap(i) \in R
      /\ \A b \in L \ {x} : b \in R
  BY <1>3, Basics DEF ListNodes
<1>6. PICK cc : cc = [n \in R |-> c[n]]
  OBVIOUS
<1>7. /\ \A i \in 0 .. N - 1 : cc[heap(i)] = i
      /\ \A b \in L \ {x} : cc[b] = U(S[b])
  BY <1>1, <1>5, <1>6
<1>8. Lists(mm, S, L \ {x})
  BY <1>4, <1>6, <1>7 DEF Lists
<1> HIDE DEF mm
<1>9. Tagged(mm, k, B, S, F, X) /\ Kept(m, mm, B \ ListNodes(L), S)
  BY <1>2, NodesAreBlocks, LinksOnly DEF State
<1>10. B \ (F \cup Fixed) \subseteq B \ ListNodes(L)
  BY DEF State, ListNodes, Fixed
<1>11. Kept(m, mm, B \ (F \cup Fixed), S)
  BY <1>9, <1>10, KeptSame
<1> QED BY <1>8, <1>9, <1>11 DEF State, mm

\* heap_add puts a free block into the list of its size.
LEMMA DoAdd ==
  ASSUME NEW m, NEW k, NEW B, NEW S, NEW F, NEW L, State(m, k, B, S, F, L, {}),
         NEW x \in F \ L, NEW l, heap_add(HeapOf(m, k, l), x).alive
  PROVE  \E mm : /\ heap_add(HeapOf(m, k, l), x) = HeapOf(mm, k, l)
                 /\ State(mm, k, B, S, F, L \cup {x}, {})
                 /\ Kept(m, mm, B \ (F \cup Fixed), S)
<1>1. PICK r, c : /\ LinkedBy(m, L, r, c)
                  /\ \A i \in 0 .. N - 1 : c[heap(i)] = i
                  /\ \A b \in L : c[b] = U(S[b])
  BY DEF State, Lists
<1>2. x \in B /\ x \notin Fixed /\ Size(m, x) = S[x]
  BY Reads DEF State
<1>3. S[x] \in 1 .. MAX_SIZE[30]
  <2>1. /\ S[x] \in Nat /\ S[x] >= 16 /\ x + S[x] =< k + 8 /\ k =< MaxHeap /\ x \in Nat /\ k \in Nat
        /\ x >= 16 /\ MaxHeap =< MAX_SIZE[30] /\ MaxHeap \in Nat
    BY <1>2, Basics DEF State, Tiles
  <2>2. MAX_SIZE[30] \in Nat
    BY MaxSizes
  <2> QED BY <2>1, <2>2
<1>4. PICK i \in 0 .. N - 1 : i = U(S[x])
  <2>1. U(S[x]) \in 0 .. 30
    BY <1>3, UIs
  <2>2. ~ (U(S[x]) >= N)
    <3> SUFFICES ASSUME U(S[x]) >= N PROVE FALSE
      OBVIOUS
    <3>1. heap_add(HeapOf(m, k, l), x) = [HeapOf(m, k, l) EXCEPT !.alive = FALSE]
      BY <1>2 DEF heap_add, HeapOf
    <3>2. heap_add(HeapOf(m, k, l), x).alive = FALSE
      BY <3>1 DEF HeapOf
    <3> QED BY <3>2
  <2> QED BY <2>1, <2>2, Basics
<1>5. heap(i) \in Heads /\ c[heap(i)] = i
  BY <1>1, Basics
<1>6. x \notin ListNodes(L)
  BY <1>2 DEF ListNodes, Fixed
<1> DEFINE h == heap_add(HeapOf(m, k, l), x)
           mm == h.mem
<1>7. h = HeapOf(mm, k, l) /\ mm \in [Words -> Nat]
  BY <1>1, <1>2, <1>4, <1>5, <1>6, NodesAreBlocks, AddWords
<1>8. \A a \in Words : (\A n \in ListNodes(L \cup {x}) : a # n - 4 /\ a # n - 8) => mm[a] = m[a]
  BY <1>1, <1>2, <1>4, <1>5, <1>6, NodesAreBlocks, AddFrame
<1> DEFINE R == ListNodes(L \cup {x})
<1>9. U(Size(m, x)) = i /\ L \cap Heads = {} /\ ListNodes(L) \subseteq B /\ Spread(B) /\ m \in [Words -> Nat]
  BY <1>2, <1>4, NodesAreBlocks
<1>10. LinkedBy(mm, L \cup {x}, AddRank(L, x, r), AddList(L, x, i, c))
  BY <1>1, <1>2, <1>5, <1>6, <1>9, AddKeeps
<1>11. PICK cc : cc = AddList(L, x, i, c) /\ cc = [n \in R |-> IF n = x THEN i ELSE c[n]]
  BY DEF AddList
<1>12. /\ \A j \in 0 .. N - 1 : heap(j) \in R /\ heap(j) # x
       /\ \A b \in L \cup {x} : b \in R
  BY <1>2, Basics DEF ListNodes, Fixed
<1>13. /\ \A j \in 0 .. N - 1 : cc[heap(j)] = j
       /\ \A b \in L \cup {x} : cc[b] = U(S[b])
  BY <1>1, <1>4, <1>11, <1>12
<1> HIDE DEF mm, h
<1>14. Lists(mm, S, L \cup {x})
  BY <1>10, <1>11, <1>13 DEF Lists
<1>15. ListNodes(L \cup {x}) \subseteq B
  BY <1>2, NodesAreBlocks DEF ListNodes
<1>16. Tagged(mm, k, B, S, F, {}) /\ Kept(m, mm, B \ ListNodes(L \cup {x}), S)
  BY <1>7, <1>8, <1>15, LinksOnly DEF State
<1>17. B \ (F \cup Fixed) \subseteq B \ ListNodes(L \cup {x})
  BY DEF State, ListNodes, Fixed
<1>18. Kept(m, mm, B \ (F \cup Fixed), S)
  BY <1>16, <1>17, KeptSame
<1>19. State(mm, k, B, S, F, L \cup {x}, {})
  BY <1>14, <1>16 DEF State
<1> QED BY <1>7, <1>18, <1>19 DEF h

\* More words may be pending than are.
LEMMA MorePending ==
  ASSUME NEW m, NEW k, NEW B, NEW S, NEW F, NEW L, NEW X, State(m, k, B, S, F, L, X),
         NEW Y, X \subseteq Y
  PROVE  State(m, k, B, S, F, L, Y)
BY DEF State, Tagged

\* Two neighbours that are in no list are seen as one block, whose tags are
\* still to be written.
LEMMA DoJoin ==
  ASSUME NEW m, NEW k, NEW B, NEW S, NEW F, NEW L, NEW X, State(m, k, B, S, F, L, X),
         NEW x \in B \ Fixed, NEW y \in B \ Fixed, y = x + S[x], x \notin L, y \notin L
  PROVE  /\ State(m, k, B \ {y}, Joined(B, S, x, y), F \ {y}, L, (X \ {y}) \cup {x})
         /\ Joined(B, S, x, y)[x] = S[x] + S[y]
         /\ \A b \in B \ {x, y} : Joined(B, S, x, y)[b] = S[b]
         /\ x # y
<1> DEFINE SS == Joined(B, S, x, y)
<1>1. Tiles(k, B \ {y}, SS)
  BY JoinTiles DEF State
<1>2. x # y /\ y # k + 8
  <2>1. x \in Nat /\ S[x] \in Nat /\ S[x] >= 16 /\ y # k + 8
    BY TilesUnique DEF State, Tiles
  <2> QED BY <2>1
<1>3. /\ \A b \in B \ {x, y} : SS[b] = S[b]
      /\ SS[x] = S[x] + S[y]
  BY <1>2 DEF Joined
<1> HIDE DEF SS
<1>4. Tagged(m, k, B \ {y}, SS, F \ {y}, (X \ {y}) \cup {x})
  BY <1>2, <1>3 DEF State, Tagged, Alloc
<1>5. Lists(m, SS, L)
  <2>1. \A b \in L : SS[b] = S[b]
    BY <1>3 DEF State
  <2>2. Null \notin L
    BY NodesAreBlocks
  <2>3. Lists(m, S, L)
    BY DEF State
  <2> QED BY <2>1, <2>2, <2>3, ListsSame
<1> QED BY <1>1, <1>2, <1>3, <1>4, <1>5 DEF State, SS

\* A block that is in no list is seen as two, whose tags are still to be
\* written; the second is free.
LEMMA DoCut ==
  ASSUME NEW m, NEW k, NEW B, NEW S, NEW F, NEW L, NEW X, State(m, k, B, S, F, L, X),
         NEW x \in B \ Fixed, x \notin L, NEW n \in Nat, n >= 16, n % 8 = 0, S[x] - n >= 16
  PROVE  /\ State(m, k, B \cup {x + n}, Cut(B, S, x, n), F \cup {x + n}, L, X \cup {x, x + n})
         /\ x + n \notin B
         /\ Cut(B, S, x, n)[x] = n /\ Cut(B, S, x, n)[x + n] = S[x] - n
         /\ \A b \in B \ {x} : Cut(B, S, x, n)[b] = S[b]
<1> DEFINE SS == Cut(B, S, x, n)
<1>1. Tiles(k, B \cup {x + n}, SS) /\ x + n \notin B
  BY CutTiles DEF State
<1>2. x \in Nat /\ x + n # x
  BY DEF State, Tiles
<1>3. /\ \A b \in B \ {x} : SS[b] = S[b]
      /\ SS[x] = n /\ SS[x + n] = S[x] - n
  BY <1>1, <1>2 DEF Cut
<1> HIDE DEF SS
<1>4. Tagged(m, k, B \cup {x + n}, SS, F \cup {x + n}, X \cup {x, x + n})
  <2>1. /\ m \in [Words -> Nat]
        /\ k + 8 \notin X => m[k - 4] = 1
        /\ \A b \in B \ X : m[b - 12] = S[b] + Alloc(b, F) /\ m[b + S[b] - 16] = S[b] + Alloc(b, F)
    BY DEF State, Tagged
  <2>2. \A b \in (B \cup {x + n}) \ (X \cup {x, x + n}) :
          b \in B \ X /\ SS[b] = S[b] /\ Alloc(b, F \cup {x + n}) = Alloc(b, F)
    BY <1>3 DEF Alloc
  <2>3. \A b \in (B \cup {x + n}) \ (X \cup {x, x + n}) :
          /\ m[b - 12] = SS[b] + Alloc(b, F \cup {x + n})
          /\ m[b + SS[b] - 16] = SS[b] + Alloc(b, F \cup {x + n})
    BY <2>1, <2>2
  <2> QED BY <2>1, <2>3 DEF Tagged
<1>5. Lists(m, SS, L)
  <2>1. \A b \in L : SS[b] = S[b]
    BY <1>3 DEF State
  <2>2. Null \notin L
    BY NodesAreBlocks
  <2>3. Lists(m, S, L)
    BY DEF State
  <2> QED BY <2>1, <2>2, <2>3, ListsSame
<1>6. x + n \notin Fixed
  BY <1>1 DEF State, Tiles
<1> QED BY <1>1, <1>3, <1>4, <1>5, <1>6 DEF State, SS

\* The heap with a new free block at its end, before anything is written.
LEMMA DoExtend ==
  ASSUME NEW m, NEW k, NEW B, NEW S, NEW F, NEW L, NEW X, State(m, k, B, S, F, L, X),
         NEW n \in Nat, n >= 16, n % 8 = 0, k + n =< MaxHeap
  PROVE  /\ State(m, k + n, B \cup {k + 8}, Extended(B, S, k, n), F \cup {k + 8}, L,
                  X \cup {k + 8, k + n + 8})
         /\ k + 8 \notin B
         /\ Extended(B, S, k, n)[k + 8] = n /\ \A b \in B : Extended(B, S, k, n)[b] = S[b]
<1> DEFINE SS == Extended(B, S, k, n)
           BB == B \cup {k + 8}
           XX == X \cup {k + 8, k + n + 8}
<1>1. Tiles(k + n, BB, SS)
  BY ExtendTiles DEF State
<1>2. k + 8 \notin B
  BY TilesUnique DEF State
<1>3. SS[k + 8] = n /\ \A b \in B : SS[b] = S[b]
  BY <1>2 DEF Extended
<1> HIDE DEF SS
<1>4. Tagged(m, k + n, BB, SS, F \cup {k + 8}, XX)
  <2>1. /\ m \in [Words -> Nat]
        /\ \A b \in B \ X : m[b - 12] = S[b] + Alloc(b, F) /\ m[b + S[b] - 16] = S[b] + Alloc(b, F)
    BY DEF State, Tagged
  <2>2. \A b \in BB \ XX : b \in B \ X /\ SS[b] = S[b] /\ Alloc(b, F \cup {k + 8}) = Alloc(b, F)
    BY <1>3 DEF Alloc
  <2>3. \A b \in BB \ XX : /\ m[b - 12] = SS[b] + Alloc(b, F \cup {k + 8})
                           /\ m[b + SS[b] - 16] = SS[b] + Alloc(b, F \cup {k + 8})
    BY <2>1, <2>2
  <2>4. k + n + 8 \in XX
    OBVIOUS
  <2> HIDE DEF BB, XX
  <2> QED BY <2>1, <2>3, <2>4 DEF Tagged
<1>5. Lists(m, SS, L)
  <2>1. \A b \in L : SS[b] = S[b]
    BY <1>3 DEF State
  <2>2. Null \notin L
    BY NodesAreBlocks
  <2>3. Lists(m, S, L)
    BY DEF State
  <2> QED BY <2>1, <2>2, <2>3, ListsSame
<1>6. k + 8 \notin Fixed
  BY <1>2 DEF State, Tiles
<1> QED BY <1>1, <1>2, <1>3, <1>4, <1>5, <1>6 DEF State, SS

\* The heap with its last block, which is in no list, made larger.
LEMMA DoGrow ==
  ASSUME NEW m, NEW k, NEW B, NEW S, NEW F, NEW L, NEW X, State(m, k, B, S, F, L, X),
         NEW x \in B \ Fixed, x + S[x] = k + 8, x \notin L,
         NEW d \in Nat, d % 8 = 0, k + d =< MaxHeap
  PROVE  /\ State(m, k + d, B, Grown(B, S, x, d), F, L, X \cup {x, k + d + 8})
         /\ Grown(B, S, x, d)[x] = S[x] + d
         /\ \A b \in B \ {x} : Grown(B, S, x, d)[b] = S[b]
<1> DEFINE SS == Grown(B, S, x, d)
           XX == X \cup {x, k + d + 8}
<1>1. Tiles(k + d, B, SS)
  BY GrowTiles DEF State
<1>2. SS[x] = S[x] + d /\ \A b \in B \ {x} : SS[b] = S[b]
  BY DEF Grown
<1> HIDE DEF SS
<1>3. Tagged(m, k + d, B, SS, F, XX)
  <2>1. /\ m \in [Words -> Nat]
        /\ \A b \in B \ X : m[b - 12] = S[b] + Alloc(b, F) /\ m[b + S[b] - 16] = S[b] + Alloc(b, F)
    BY DEF State, Tagged
  <2>2. \A b \in B \ XX : b \in B \ X /\ SS[b] = S[b]
    BY <1>2
  <2>3. k + d + 8 \in XX
    OBVIOUS
  <2> HIDE DEF XX
  <2> QED BY <2>1, <2>2, <2>3 DEF Tagged
<1>4. Lists(m, SS, L)
  <2>1. \A b \in L : SS[b] = S[b]
    BY <1>2 DEF State
  <2> QED BY <2>1, ListsSame, NodesAreBlocks DEF State
<1> QED BY <1>1, <1>2, <1>3, <1>4 DEF State, SS

\* A block is seen as free, or as allocated, before its tags say so.
LEMMA DoSet ==
  ASSUME NEW m, NEW k, NEW B, NEW S, NEW F, NEW L, NEW X, State(m, k, B, S, F, L, X),
         NEW x \in B \ Fixed
  PROVE  /\ State(m, k, B, S, F \cup {x}, L, X \cup {x})
         /\ x \notin L => State(m, k, B, S, F \ {x}, L, X \cup {x})
<1>1. \A b \in B \ (X \cup {x}) : Alloc(b, F \cup {x}) = Alloc(b, F) /\ Alloc(b, F \ {x}) = Alloc(b, F)
  BY DEF Alloc
<1>2. Tagged(m, k, B, S, F \cup {x}, X \cup {x}) /\ Tagged(m, k, B, S, F \ {x}, X \cup {x})
  BY <1>1 DEF State, Tagged
<1> QED BY <1>2 DEF State

-----------------------------------------------------------------------------
(* coalesce                                                                *)

\* The fields of a heap, and a heap with one of them changed.
LEMMA HeapFields ==
  ASSUME NEW m, NEW k, NEW l, NEW z
  PROVE  /\ HeapOf(m, k, l).mem = m /\ HeapOf(m, k, l).brk = k /\ HeapOf(m, k, l).alive = l
         /\ [HeapOf(m, k, l) EXCEPT !.mem = z] = HeapOf(z, k, l)
BY DEF HeapOf

\* DoJoin for two blocks given by facts.
LEMMA JoinState ==
  ASSUME NEW m, NEW k, NEW B, NEW S, NEW F, NEW L, NEW X, State(m, k, B, S, F, L, X),
         NEW x, NEW y, x \in B \ Fixed, y \in B \ Fixed, y = x + S[x], x \notin L, y \notin L
  PROVE  State(m, k, B \ {y}, Joined(B, S, x, y), F \ {y}, L, (X \ {y}) \cup {x})
BY DoJoin

\* No two free blocks are neighbours.
Apart(S, F) == \A x \in F : x + S[x] \notin F

\* What a heap is between two calls.
Settled(m, k, B, S, F) == State(m, k, B, S, F, F, {}) /\ Apart(S, F)

\* The free blocks FF and the other blocks that coalesce makes of F and its
\* block bp: the first of the joined ones is f.
Merged(B, S, F, BB, SS, FF, f) ==
  /\ f \in FF /\ Apart(SS, FF)
  /\ BB \ FF = B \ F /\ \A b \in B \ F : SS[b] = S[b]

\* The blocks, and the free blocks, once the free block after bp is joined with it.
JoinedNext(m, k, B, S, F, L, X, bp, nxt, BB, SS, FF) ==
  /\ State(m, k, BB, SS, FF, L, X \cup {bp})
  /\ FF = F \ {nxt} /\ BB = B \ (F \cap {nxt}) /\ bp \in FF
  /\ SS[bp] = S[bp] + IF nxt \in F THEN S[nxt] ELSE 0
  /\ \A b \in BB \ {bp} : SS[b] = S[b]
  /\ bp + SS[bp] \notin FF

\* The block that is being freed takes its free successor.
LEMMA JoinNext ==
  ASSUME NEW m, NEW k, NEW B, NEW S, NEW F, NEW L, NEW X, State(m, k, B, S, F, L, X),
         NEW bp \in F, NEW nxt, nxt = bp + S[bp], bp \notin L, nxt \notin L,
         \A x \in F \ {bp} : x + S[x] \notin F \ {bp}
  PROVE  \E BB, SS, FF : JoinedNext(m, k, B, S, F, L, X, bp, nxt, BB, SS, FF)
<1>1. /\ bp \in B \ Fixed /\ bp \in Nat /\ S[bp] \in Nat /\ S[bp] >= 16 /\ nxt # bp
  BY DEF State, Tiles
<1>2. CASE nxt \in F
  <2>1. nxt \in B \ Fixed /\ nxt \in Nat /\ S[nxt] \in Nat /\ S[nxt] >= 16
    BY <1>2 DEF State, Tiles
  <2>2. PICK SS : SS = Joined(B, S, bp, nxt)
    OBVIOUS
  <2>3. /\ State(m, k, B \ {nxt}, SS, F \ {nxt}, L, (X \ {nxt}) \cup {bp})
        /\ SS[bp] = S[bp] + S[nxt] /\ \A b \in B \ {bp, nxt} : SS[b] = S[b]
    <3>1. nxt \in B \ Fixed /\ nxt = bp + S[bp] /\ bp \in B \ Fixed
      BY <1>1, <2>1
    <3>2. State(m, k, B \ {nxt}, Joined(B, S, bp, nxt), F \ {nxt}, L, (X \ {nxt}) \cup {bp})
      BY <3>1, DoJoin
    <3>3. SS[bp] = S[bp] + S[nxt] /\ \A b \in B \ {bp, nxt} : SS[b] = S[b]
      BY <1>1, <2>2 DEF Joined
    <3> QED BY <2>2, <3>2, <3>3
  <2>4. State(m, k, B \ {nxt}, SS, F \ {nxt}, L, X \cup {bp})
    <3>1. (X \ {nxt}) \cup {bp} \subseteq X \cup {bp}
      OBVIOUS
    <3> QED BY <2>3, <3>1, MorePending
  <2>5. bp + SS[bp] \notin F \ {nxt}
    <3>1. bp + SS[bp] = nxt + S[nxt] /\ nxt + S[nxt] # bp
      BY <1>1, <2>1, <2>3
    <3>2. nxt + S[nxt] \notin F \ {bp}
      BY <1>1, <1>2
    <3> QED BY <3>1, <3>2
  <2>6. B \ {nxt} = B \ (F \cap {nxt}) /\ bp \in F \ {nxt}
    BY <1>1, <1>2
  <2>7. \A b \in (B \ {nxt}) \ {bp} : SS[b] = S[b]
    BY <2>3
  <2>8. SS[bp] = S[bp] + IF nxt \in F THEN S[nxt] ELSE 0
    BY <1>2, <2>3
  <2>9. JoinedNext(m, k, B, S, F, L, X, bp, nxt, B \ {nxt}, SS, F \ {nxt})
    BY <2>4, <2>5, <2>6, <2>7, <2>8 DEF JoinedNext
  <2> QED BY <2>9
<1>3. CASE nxt \notin F
  <2>1. State(m, k, B, S, F, L, X \cup {bp})
    <3>1. X \subseteq X \cup {bp}
      OBVIOUS
    <3> QED BY <3>1, MorePending
  <2>2. F = F \ {nxt} /\ B = B \ (F \cap {nxt})
    BY <1>3
  <2>3. S[bp] = S[bp] + (IF nxt \in F THEN S[nxt] ELSE 0)
    BY <1>1, <1>3
  <2>4. JoinedNext(m, k, B, S, F, L, X, bp, nxt, B, S, F)
    BY <1>3, <2>1, <2>2, <2>3 DEF JoinedNext
  <2> QED BY <2>4
<1> QED BY <1>2, <1>3

\* The blocks once the free blocks on both sides of bp are joined with it.
JoinedBoth(m, k, B, S, F, L, BB, SS, FF, f, size) ==
  /\ State(m, k, BB, SS, FF, L, {f})
  /\ L = FF \ {f} /\ SS[f] = size
  /\ Merged(B, S, F, BB, SS, FF, f)

\* The free predecessor takes the block that is being freed and what it took.
LEMMA JoinBoth ==
  ASSUME NEW m, NEW k, NEW B, NEW S, NEW F, NEW L, State(m, k, B, S, F, L, {}),
         NEW bp \in F, NEW nxt, nxt = bp + S[bp], NEW pre \in B, pre + S[pre] = bp,
         L = F \ {bp, pre, nxt},
         \A x \in F \ {bp} : x + S[x] \notin F \ {bp},
         NEW f, f = (IF pre \in F THEN pre ELSE bp),
         NEW size, size = S[bp] + (IF pre \in F THEN S[pre] ELSE 0) + (IF nxt \in F THEN S[nxt] ELSE 0)
  PROVE  \E BB, SS, FF : JoinedBoth(m, k, B, S, F, L, BB, SS, FF, f, size)
<1>1. /\ bp \in B \ Fixed /\ bp \in Nat /\ S[bp] \in Nat /\ S[bp] >= 16 /\ nxt # bp
      /\ pre \in Nat /\ S[pre] \in Nat /\ S[pre] >= 16 /\ pre # bp /\ pre < bp /\ bp < nxt /\ nxt \in Nat
      /\ F \subseteq B \ Fixed
      /\ \A b \in B : b \in Nat /\ S[b] \in Nat
  BY DEF State, Tiles
<1>2. PICK B1, S1, F1 : /\ State(m, k, B1, S1, F1, L, {bp})
                        /\ F1 = F \ {nxt} /\ B1 = B \ (F \cap {nxt}) /\ bp \in F1
                        /\ S1[bp] = S[bp] + IF nxt \in F THEN S[nxt] ELSE 0
                        /\ \A b \in B1 \ {bp} : S1[b] = S[b]
                        /\ bp + S1[bp] \notin F1
  <2>1. bp \notin L /\ nxt \notin L
    OBVIOUS
  <2>2. PICK B1, S1, F1 : JoinedNext(m, k, B, S, F, L, {}, bp, nxt, B1, S1, F1)
    BY <2>1, JoinNext
  <2>3. {} \cup {bp} = {bp}
    OBVIOUS
  <2> QED BY <2>2, <2>3 DEF JoinedNext
<1>3. State(m, k, B1, S1, F1, L, {bp})
  BY <1>2
<1>4. \A x \in F1 \ {bp} : x + S1[x] \notin F1 \ {bp} /\ S1[x] = S[x]
  <2> SUFFICES ASSUME NEW x \in F1 \ {bp} PROVE x + S1[x] \notin F1 \ {bp} /\ S1[x] = S[x]
    OBVIOUS
  <2>1. x \in F \ {bp} /\ x \in B1 \ {bp} /\ S1[x] = S[x]
    BY <1>1, <1>2 
  <2> QED BY <1>2, <2>1
<1>5. \A b \in B \ F : b \in B1 /\ S1[b] = S[b]
  BY <1>2
<1>6. B1 \ F1 = B \ F
  BY <1>1, <1>2
<1>7. CASE pre \in F
  <2>1. pre \in B1 \ Fixed /\ bp \in B1 \ Fixed /\ pre \notin L /\ bp \notin L /\ bp = pre + S1[pre] /\ pre \in F1
    BY <1>1, <1>2, <1>7
  <2>2. PICK SS : SS = Joined(B1, S1, pre, bp)
    OBVIOUS
  <2>3. /\ State(m, k, B1 \ {bp}, SS, F1 \ {bp}, L, ({bp} \ {bp}) \cup {pre})
        /\ SS[pre] = S1[pre] + S1[bp] /\ \A b \in B1 \ {pre, bp} : SS[b] = S1[b]
    <3> PICK X : X = {bp}
      OBVIOUS
    <3>0. State(m, k, B1, S1, F1, L, X)
      BY <1>3
    <3>1. State(m, k, B1 \ {bp}, Joined(B1, S1, pre, bp), F1 \ {bp}, L, (X \ {bp}) \cup {pre})
      BY <2>1, <3>0, JoinState
    <3>2. SS[pre] = S1[pre] + S1[bp] /\ \A b \in B1 \ {pre, bp} : SS[b] = S1[b]
      BY <1>1, <2>1, <2>2 DEF Joined
    <3> QED BY <2>2, <3>1, <3>2
  <2>4. State(m, k, B1 \ {bp}, SS, F1 \ {bp}, L, {f})
    <3>1. ({bp} \ {bp}) \cup {pre} = {f}
      BY <1>7
    <3> QED BY <2>3, <3>1
  <2>5. L = (F1 \ {bp}) \ {f}
    BY <1>2, <1>7
  <2>6. SS[f] = size
    <3>1. PICK n : n = IF nxt \in F THEN S[nxt] ELSE 0
      OBVIOUS
    <3>2. n \in Nat
      BY <1>1, <3>1
    <3>3. S1[bp] = S[bp] + n /\ S1[pre] = S[pre] /\ size = S[bp] + S[pre] + n /\ f = pre
      BY <1>1, <1>2, <1>7, <2>1, <3>1
    <3> QED BY <1>1, <2>3, <3>2, <3>3
  <2>7. Apart(SS, F1 \ {bp})
    <3> SUFFICES ASSUME NEW x \in F1 \ {bp} PROVE x + SS[x] \notin F1 \ {bp}
      BY DEF Apart
    <3>1. CASE x = pre
      <4>1. x + SS[x] = bp + S1[bp]
        <5>1. S1[bp] \in Nat /\ S1[pre] \in Nat
          BY <1>1, <1>2, <2>1
        <5> QED BY <1>1, <2>1, <2>3, <3>1, <5>1
      <4> QED BY <1>2, <4>1
    <3>2. CASE x # pre
      <4>1. x \in B1 \ {pre, bp} /\ SS[x] = S1[x]
        BY <1>1, <1>2, <2>3, <3>2
      <4> QED BY <1>4, <4>1
    <3> QED BY <3>1, <3>2
  <2>8. (B1 \ {bp}) \ (F1 \ {bp}) = B \ F
    BY <1>6, <1>2
  <2>9. \A b \in B \ F : SS[b] = S[b]
    BY <1>5, <1>7, <2>3
  <2>10. f \in F1 \ {bp}
    BY <1>1, <1>7, <2>1
  <2>11. Merged(B, S, F, B1 \ {bp}, SS, F1 \ {bp}, f)
    BY <2>7, <2>8, <2>9, <2>10 DEF Merged
  <2> QED BY <2>4, <2>5, <2>6, <2>11 DEF JoinedBoth
<1>8. CASE pre \notin F
  <2>1. f = bp /\ L = F1 \ {f}
    BY <1>2, <1>8
  <2>2. S1[f] = size
    <3>1. PICK n : n = IF nxt \in F THEN S[nxt] ELSE 0
      OBVIOUS
    <3>2. n \in Nat
      BY <1>1, <3>1
    <3>3. S1[bp] = S[bp] + n /\ size = S[bp] + 0 + n
      BY <1>1, <1>2, <1>8, <3>1
    <3> QED BY <1>1, <2>1, <3>2, <3>3
  <2>3. Apart(S1, F1)
    <3> SUFFICES ASSUME NEW x \in F1 PROVE x + S1[x] \notin F1
      BY DEF Apart
    <3>1. CASE x = bp
      BY <1>2, <3>1
    <3>2. CASE x # bp
      <4>1. x + S1[x] \notin F1 \ {bp} /\ S1[x] = S[x] /\ x \in F /\ x \in B
        BY <1>1, <1>2, <1>4, <3>2
      <4>2. x + S[x] # bp
        <5> SUFFICES ASSUME x + S[x] = bp PROVE FALSE
          OBVIOUS
        <5>1. x = pre
          BY <4>1, TilesUnique DEF State
        <5> QED BY <1>8, <4>1, <5>1
      <4> QED BY <4>1, <4>2
    <3> QED BY <3>1, <3>2
  <2>4. Merged(B, S, F, B1, S1, F1, f)
    BY <1>2, <1>5, <1>6, <2>1, <2>3 DEF Merged
  <2> QED BY <1>3, <2>1, <2>2, <2>4 DEF JoinedBoth
<1> QED BY <1>7, <1>8

\* What coalesce makes of a heap with the free block bp in no list: the heap is
\* settled again, and no other block but free ones has changed.
Coalesces(m, k, l, B, S, F, bp, h, mm, BB, SS, FF, f) ==
  /\ h = HeapOf(mm, k, l)
  /\ Settled(mm, k, BB, SS, FF) /\ Merged(B, S, F, BB, SS, FF, f)
  /\ Kept(m, mm, B \ (F \cup Fixed), S)
  /\ SS[f] >= S[bp]
  /\ \A c \in B : c + S[c] = bp => f = IF c \in F THEN c ELSE bp

\* coalesce of a block in no list settles the heap.
LEMMA DoCoalesce ==
  ASSUME NEW m, NEW k, NEW l, NEW B, NEW S, NEW F, NEW bp \in F, State(m, k, B, S, F, F \ {bp}, {}),
         \A x \in F \ {bp} : x + S[x] \notin F \ {bp},
         coalesce(HeapOf(m, k, l), bp).alive
  PROVE  \E mm, BB, SS, FF, f :
           Coalesces(m, k, l, B, S, F, bp, coalesce(HeapOf(m, k, l), bp), mm, BB, SS, FF, f)
<1>1. /\ bp \in B \ Fixed /\ bp \in Nat /\ S[bp] \in Nat /\ S[bp] >= 16 /\ bp # 16
      /\ F \subseteq B \ Fixed /\ k \in Nat
      /\ \A b \in B : b \in Nat /\ S[b] \in Nat /\ S[b] >= 16
      /\ bp + S[bp] \in B \cup {k + 8}
  BY Basics DEF State, Tiles, Fixed
<1>2. PICK pre \in B : pre + S[pre] = bp
  BY <1>1 DEF State, Tiles
<1>3. PICK nxt : nxt = bp + S[bp]
  OBVIOUS
<1>4. nxt \in Nat /\ pre \in Nat /\ pre < bp /\ bp < nxt /\ S[pre] \in Nat
  BY <1>1, <1>2, <1>3
<1>5. /\ Size(m, bp) = S[bp] /\ NEXT_BLKP(m, bp) = nxt
      /\ PREV_BLKP(m, bp) = pre /\ GET_ALLOC(m, FTRP(m, pre)) = Alloc(pre, F) /\ Size(m, pre) = S[pre]
  BY <1>1, <1>2, <1>3, Reads
<1>6. /\ nxt \in F => GET_ALLOC(m, HDRP(nxt)) = 0 /\ Size(m, nxt) = S[nxt]
      /\ nxt \notin F => GET_ALLOC(m, HDRP(nxt)) = 1
  <2>1. CASE nxt \in B
    BY <1>1, <2>1, Reads DEF Alloc
  <2>2. CASE nxt = k + 8
    <3>1. nxt \notin F
      BY <1>1, <2>2, TilesUnique DEF State
    <3> QED BY <2>2, <3>1, ReadsEnd
  <2> QED BY <1>1, <1>3, <2>1, <2>2
<1>7. PICK size : size = S[bp] + (IF pre \in F THEN S[pre] ELSE 0) + (IF nxt \in F THEN S[nxt] ELSE 0)
  OBVIOUS
<1>8. PICK f : f = IF pre \in F THEN pre ELSE bp
  OBVIOUS
<1>9. PICK m1 : m1 = IF pre \in F THEN heap_remove(m, pre) ELSE m
  OBVIOUS
<1>10. PICK m2 : m2 = IF nxt \in F THEN heap_remove(m1, nxt) ELSE m1
  OBVIOUS
<1>11. coalesce(HeapOf(m, k, l), bp) = heap_add(HeapOf(Tag(m2, f, size, 0), k, l), f)
  <2>1. /\ (GET_ALLOC(m, FTRP(m, pre)) = 0) <=> pre \in F
        /\ (GET_ALLOC(m, HDRP(nxt)) = 0) <=> nxt \in F
    BY <1>5, <1>6 DEF Alloc
  <2>2. HeapOf(m, k, l).mem = m
    BY HeapFields
  <2>3. PICK z : z = Tag(m2, f, size, 0)
    OBVIOUS
  <2>4. [HeapOf(m, k, l) EXCEPT !.mem = z] = HeapOf(z, k, l)
    BY HeapFields
  <2>5. coalesce(HeapOf(m, k, l), bp) = heap_add([HeapOf(m, k, l) EXCEPT !.mem = Tag(m2, f, size, 0)], f)
    BY <1>5, <1>6, <1>7, <1>8, <1>9, <1>10, <2>1, <2>2 DEF coalesce
  <2> QED BY <2>3, <2>4, <2>5
<1>12. PICK A : A = B \ (F \cup Fixed)
  OBVIOUS
<1>13. State(m1, k, B, S, F, F \ {bp, pre}, {}) /\ Kept(m, m1, A, S)
  <2>1. CASE pre \in F
    <3>1. pre \in F \ {bp} /\ (F \ {bp}) \ {pre} = F \ {bp, pre}
      BY <1>4, <2>1
    <3> QED BY <1>9, <1>12, <2>1, <3>1, DoRemove
  <2>2. CASE pre \notin F
    <3>1. F \ {bp} = F \ {bp, pre}
      BY <2>2
    <3> QED BY <1>9, <2>2, <3>1 DEF Kept
  <2> QED BY <2>1, <2>2
<1>14. State(m2, k, B, S, F, F \ {bp, pre, nxt}, {}) /\ Kept(m1, m2, A, S)
  <2>1. CASE nxt \in F
    <3>1. nxt \in F \ {bp, pre} /\ (F \ {bp, pre}) \ {nxt} = F \ {bp, pre, nxt}
      BY <1>4, <2>1
    <3> QED BY <1>10, <1>12, <1>13, <2>1, <3>1, DoRemove
  <2>2. CASE nxt \notin F
    <3>1. F \ {bp, pre} = F \ {bp, pre, nxt}
      BY <2>2
    <3> QED BY <1>10, <1>13, <2>2, <3>1 DEF Kept
  <2> QED BY <2>1, <2>2
<1>15. PICK L : L = F \ {bp, pre, nxt}
  OBVIOUS
<1>16. PICK BB, SS, FF : /\ State(m2, k, BB, SS, FF, L, {f})
                         /\ L = FF \ {f} /\ SS[f] = size
                         /\ Merged(B, S, F, BB, SS, FF, f)
  <2>1. State(m2, k, B, S, F, L, {})
    BY <1>14, <1>15
  <2>2. PICK BB, SS, FF : JoinedBoth(m2, k, B, S, F, L, BB, SS, FF, f, size)
    BY <1>2, <1>3, <1>7, <1>8, <1>15, <2>1, JoinBoth
  <2> QED BY <2>2 DEF JoinedBoth
<1>17. PICK m3 : m3 = Tag(m2, f, size, 0)
  OBVIOUS
<1>18. f \in FF /\ f \in BB /\ BB \ FF = B \ F /\ \A b \in B \ F : SS[b] = S[b]
  BY <1>16 DEF State, Merged
<1>19. State(m3, k, BB, SS, FF, L, {}) /\ Kept(m2, m3, BB, SS)
  <2>1. Alloc(f, FF) = 0 /\ {f} \ {f} = {}
    BY <1>18 DEF Alloc
  <2> QED BY <1>16, <1>17, <1>18, <2>1, DoTag
<1>20. heap_add(HeapOf(m3, k, l), f).alive
  BY <1>11, <1>17
<1>21. PICK mm : /\ heap_add(HeapOf(m3, k, l), f) = HeapOf(mm, k, l)
                 /\ State(mm, k, BB, SS, FF, L \cup {f}, {})
                 /\ Kept(m3, mm, BB \ (FF \cup Fixed), SS)
  <2>1. f \in FF \ L
    BY <1>16, <1>18
  <2> QED BY <1>19, <1>20, <2>1, DoAdd
<1>22. Settled(mm, k, BB, SS, FF)
  <2>1. L \cup {f} = FF
    BY <1>16, <1>18
  <2> QED BY <1>16, <1>21, <2>1 DEF Settled, Merged
<1>23. Kept(m, mm, A, S)
  <2>1. A = BB \ (FF \cup Fixed) /\ A \subseteq BB /\ \A b \in A : S[b] = SS[b]
    BY <1>12, <1>18
  <2>2. Kept(m2, m3, A, S) /\ Kept(m3, mm, A, S)
    BY <1>19, <1>21, <2>1, KeptSame
  <2>3. Kept(m, m2, A, S)
    BY <1>13, <1>14, KeptTransitive
  <2>4. Kept(m, m3, A, S)
    BY <2>2, <2>3, KeptTransitive
  <2> QED BY <2>2, <2>4, KeptTransitive
<1>24. SS[f] >= S[bp]
  <2>1. nxt \in F => S[nxt] \in Nat
    BY <1>1
  <2> QED BY <1>1, <1>4, <1>7, <1>16, <2>1
<1>25. \A c \in B : c + S[c] = bp => f = IF c \in F THEN c ELSE bp
  <2>1. \A c \in B : c + S[c] = bp => c = pre
    BY <1>2, TilesUnique DEF State
  <2> QED BY <1>8, <2>1
<1>26. Coalesces(m, k, l, B, S, F, bp, coalesce(HeapOf(m, k, l), bp), mm, BB, SS, FF, f)
  BY <1>11, <1>12, <1>16, <1>17, <1>21, <1>22, <1>23, <1>24, <1>25 DEF Coalesces
<1> QED BY <1>26

-----------------------------------------------------------------------------
(* mm_free, place and extend_heap                                          *)

\* A heap with a new memory and end.
Moved(h, z, w) == [h EXCEPT !.mem = z, !.brk = w]

\* Moved changes two fields and leaves the third.
LEMMA HeapMoved ==
  ASSUME NEW m, NEW k, NEW l, NEW z, NEW w
  PROVE  Moved(HeapOf(m, k, l), z, w) = HeapOf(z, w, l)
<1>1. PICK h : h = HeapOf(m, k, l)
  OBVIOUS
<1>2. PICK g : g = [h EXCEPT !.mem = z, !.brk = w]
  OBVIOUS
<1>3. h \in [{"mem", "brk", "alive"} -> {m, k, l}]
  BY <1>1 DEF HeapOf
<1>4. DOMAIN g = {"mem", "brk", "alive"} /\ g = [x \in DOMAIN g |-> g[x]]
  BY <1>2, <1>3
<1>5. g.mem = z /\ g.brk = w /\ g.alive = l
  BY <1>1, <1>2, <1>3 DEF HeapOf
<1> QED BY <1>1, <1>2, <1>4, <1>5 DEF HeapOf, Moved

\* What a call does to the heap with memory m and blocks B: of the allocated
\* blocks it gives up those of old, it adds those of new, and the others keep
\* their sizes and what they hold.
Becomes(m, l, B, S, F, old, new, h, mm, kk, BB, SS, FF) ==
  /\ h = HeapOf(mm, kk, l)
  /\ Settled(mm, kk, BB, SS, FF)
  /\ BB \ FF = ((B \ F) \ old) \cup new
  /\ new \cap ((B \ F) \ old) = {}
  /\ \A b \in (B \ F) \ old : SS[b] = S[b]
  /\ Kept(m, mm, (B \ (F \cup Fixed)) \ old, S)

\* The heap once bp is freed.
Freed(m, k, l, bp) == mm_free(HeapOf(m, k, l), bp - 8)

\* mm_free: the block is given up and nothing else changes.
LEMMA DoFree ==
  ASSUME NEW m, NEW k, NEW l, NEW B, NEW S, NEW F, Settled(m, k, B, S, F),
         NEW bp \in B, bp \notin F, bp \notin Fixed,
         Freed(m, k, l, bp).alive
  PROVE  \E mm, BB, SS, FF :
           Becomes(m, l, B, S, F, {bp}, {}, Freed(m, k, l, bp), mm, k, BB, SS, FF)
<1>1. /\ State(m, k, B, S, F, F, {}) /\ \A x \in F : x + S[x] \notin F
      /\ bp \in Nat
  BY DEF Settled, Apart, State, Tiles
<1>2. PICK F1 : F1 = F \cup {bp}
  OBVIOUS
<1>3. bp \in F1 /\ F1 \ {bp} = F /\ Alloc(bp, F1) = 0
  BY <1>2 DEF Alloc
<1>4. PICK m1 : m1 = Tag(m, bp, S[bp], 0)
  OBVIOUS
<1>5. State(m1, k, B, S, F1, F, {}) /\ Kept(m, m1, B, S)
  <2>1. {} \cup {bp} = {bp} /\ {bp} \ {bp} = {} /\ bp \in B \ Fixed
    OBVIOUS
  <2>2. State(m, k, B, S, F1, F, {} \cup {bp})
    BY <1>1, <1>2, <2>1, DoSet
  <2>3. State(m, k, B, S, F1, F, {bp})
    BY <2>1, <2>2
  <2> QED BY <1>3, <1>4, <2>1, <2>3, DoTag
<1>6. Freed(m, k, l, bp) = coalesce(HeapOf(m1, k, l), bp)
  <2>1. Size(m, bp) = S[bp]
    BY <1>1, Reads
  <2>2. HeapOf(m, k, l).mem = m /\ [HeapOf(m, k, l) EXCEPT !.mem = m1] = HeapOf(m1, k, l) /\ bp - 8 + 8 = bp
    BY <1>1, HeapFields
  <2> QED BY <1>4, <2>1, <2>2 DEF mm_free, Freed
<1>7. PICK mm, BB, SS, FF, f :
        Coalesces(m1, k, l, B, S, F1, bp, coalesce(HeapOf(m1, k, l), bp), mm, BB, SS, FF, f)
  <2>1. State(m1, k, B, S, F1, F1 \ {bp}, {})
    BY <1>3, <1>5
  <2>2. \A x \in F1 \ {bp} : x + S[x] \notin F1 \ {bp}
    BY <1>1, <1>3
  <2> QED BY <1>3, <1>6, <2>1, <2>2, DoCoalesce
<1>8. B \ F1 = (B \ F) \ {bp} /\ B \ (F1 \cup Fixed) = (B \ (F \cup Fixed)) \ {bp}
  BY <1>2
<1>9. Kept(m, mm, (B \ (F \cup Fixed)) \ {bp}, S)
  <2>1. Kept(m1, mm, (B \ (F \cup Fixed)) \ {bp}, S)
    BY <1>7, <1>8 DEF Coalesces
  <2>2. Kept(m, m1, (B \ (F \cup Fixed)) \ {bp}, S)
    BY <1>5, KeptSame
  <2> QED BY <2>1, <2>2, KeptTransitive
<1>10. Becomes(m, l, B, S, F, {bp}, {}, Freed(m, k, l, bp), mm, k, BB, SS, FF)
  <2>1. /\ Freed(m, k, l, bp) = HeapOf(mm, k, l)
        /\ Settled(mm, k, BB, SS, FF)
        /\ BB \ FF = B \ F1 /\ \A b \in B \ F1 : SS[b] = S[b]
    BY <1>6, <1>7 DEF Coalesces, Merged
  <2>2. BB \ FF = ((B \ F) \ {bp}) \cup {} /\ {} \cap ((B \ F) \ {bp}) = {}
    BY <1>8, <2>1
  <2>3. \A b \in (B \ F) \ {bp} : SS[b] = S[b]
    BY <1>8, <2>1
  <2> QED BY <1>9, <2>1, <2>2, <2>3 DEF Becomes
<1> QED BY <1>10

\* The remainder of a block that place splits is a free block of its own.
Split(m, k, B, S, F, bp, n, mm, B2, S2, F2) ==
  /\ State(mm, k, B2, S2, F2, F2 \ {bp + n}, {})
  /\ B2 = B \cup {bp + n} /\ F2 = (F \cup {bp + n}) \ {bp} /\ bp + n \notin B
  /\ S2[bp] = n /\ \A b \in B \ {bp} : S2[b] = S[b]
  /\ Kept(m, mm, B \ {bp}, S)

\* Splitting an allocated block leaves it with the size asked for.
LEMMA DoSplit ==
  ASSUME NEW m, NEW k, NEW B, NEW S, NEW F, NEW bp \in F, State(m, k, B, S, F, F \ {bp}, {}),
         NEW n \in Nat, n >= 16, n % 8 = 0, S[bp] - n >= 16
  PROVE  \E S2 : Split(m, k, B, S, F, bp, n, Tag(Tag(m, bp, n, 1), bp + n, S[bp] - n, 0),
                       B \cup {bp + n}, S2, (F \cup {bp + n}) \ {bp})
<1>1. bp \in B \ Fixed /\ bp \in Nat /\ S[bp] \in Nat /\ bp \notin F \ {bp}
  BY DEF State, Tiles
<1>2. PICK y : y = bp + n
  OBVIOUS
<1>3. PICK S2 : S2 = Cut(B, S, bp, n)
  OBVIOUS
<1>4. PICK B2 : B2 = B \cup {y}
  OBVIOUS
<1>5. PICK L : L = F \ {bp}
  OBVIOUS
<1>6. State(m, k, B2, S2, F \cup {y}, L, {bp, y})
  <2>1. {} \cup {bp, y} = {bp, y}
    OBVIOUS
  <2>2. State(m, k, B \cup {bp + n}, Cut(B, S, bp, n), F \cup {bp + n}, F \ {bp}, {} \cup {bp, bp + n})
    BY <1>1, DoCut
  <2> QED BY <1>2, <1>3, <1>4, <1>5, <2>1, <2>2
<1>7. y \notin B /\ y # bp
  <2>1. Tiles(k, B, S)
    BY DEF State
  <2>2. bp + n \notin B
    BY <1>1, <2>1, CutTiles
  <2> QED BY <1>1, <1>2, <2>2
<1>8. S2[bp] = n /\ S2[y] = S[bp] - n /\ \A b \in B \ {bp} : S2[b] = S[b]
  BY <1>1, <1>2, <1>3, <1>7 DEF Cut
<1>9. PICK F2 : F2 = (F \cup {y}) \ {bp}
  OBVIOUS
<1>10. State(m, k, B2, S2, F2, L, {bp, y})
  <2>1. {bp, y} \cup {bp} = {bp, y} /\ bp \in B2 \ Fixed /\ bp \notin L
    BY <1>1, <1>4, <1>5
  <2>2. State(m, k, B2, S2, (F \cup {y}) \ {bp}, L, {bp, y} \cup {bp})
    BY <1>6, <2>1, DoSet
  <2> QED BY <1>9, <2>1, <2>2
<1>11. PICK m2 : m2 = Tag(m, bp, n, 1)
  OBVIOUS
<1>12. State(m2, k, B2, S2, F2, L, {y}) /\ Kept(m, m2, B2, S2)
  <2>1. {bp, y} \ {bp} = {y} /\ Alloc(bp, F2) = 1 /\ bp \in B2
    BY <1>1, <1>4, <1>7, <1>9 DEF Alloc
  <2> QED BY <1>8, <1>10, <1>11, <2>1, DoTag
<1>13. PICK m3 : m3 = Tag(m2, y, S[bp] - n, 0)
  OBVIOUS
<1>14. State(m3, k, B2, S2, F2, L, {}) /\ Kept(m2, m3, B2, S2)
  <2>1. {y} \ {y} = {} /\ Alloc(y, F2) = 0 /\ y \in B2
    BY <1>4, <1>7, <1>9 DEF Alloc
  <2> QED BY <1>8, <1>12, <1>13, <2>1, DoTag
<1>15. Kept(m, m3, B \ {bp}, S)
  <2>1. Kept(m, m3, B2, S2)
    BY <1>12, <1>14, KeptTransitive
  <2>2. B \ {bp} \subseteq B2
    BY <1>4
  <2> QED BY <1>8, <2>1, <2>2, KeptSame
<1>16. L = F2 \ {y}
  <2>1. F \subseteq B
    BY DEF State
  <2> QED BY <1>5, <1>7, <1>9, <2>1
<1>17. State(m3, k, B2, S2, F2, F2 \ {bp + n}, {})
  BY <1>2, <1>14, <1>16
<1>18. Split(m, k, B, S, F, bp, n, m3, B2, S2, F2)
  BY <1>2, <1>4, <1>7, <1>8, <1>9, <1>15, <1>17 DEF Split
<1> QED BY <1>2, <1>4, <1>9, <1>11, <1>13, <1>18

\* A block that is taken out of its list and then marked as allocated, whole.
LEMMA DoTake ==
  ASSUME NEW m, NEW k, NEW B, NEW S, NEW F, NEW bp \in F, State(m, k, B, S, F, F \ {bp}, {})
  PROVE  /\ State(Tag(m, bp, S[bp], 1), k, B, S, F \ {bp}, F \ {bp}, {})
         /\ Kept(m, Tag(m, bp, S[bp], 1), B, S)
<1>1. bp \in B \ Fixed /\ bp \notin F \ {bp}
  BY DEF State
<1>2. PICK F2 : F2 = F \ {bp}
  OBVIOUS
<1>3. {} \cup {bp} = {bp} /\ {bp} \ {bp} = {} /\ Alloc(bp, F2) = 1
  BY <1>2 DEF Alloc
<1>4. State(m, k, B, S, F \ {bp}, F \ {bp}, {} \cup {bp})
  BY <1>1, DoSet
<1>5. State(m, k, B, S, F2, F2, {bp})
  BY <1>2, <1>3, <1>4
<1>6. /\ State(Tag(m, bp, S[bp], 1), k, B, S, F2, F2, {})
      /\ Kept(m, Tag(m, bp, S[bp], 1), B, S)
  BY <1>1, <1>3, <1>5, DoTag
<1> QED BY <1>2, <1>6

\* place: the free block bp is allocated, and what it need not hold stays free.
LEMMA DoPlace ==
  ASSUME NEW m, NEW k, NEW l, NEW B, NEW S, NEW F, Settled(m, k, B, S, F),
         NEW bp \in F, NEW n \in Nat, n >= 16, n % 8 = 0, S[bp] >= n,
         place(HeapOf(m, k, l), bp, n).h.alive
  PROVE  \E mm, kk, BB, SS, FF :
           /\ Becomes(m, l, B, S, F, {}, {bp}, place(HeapOf(m, k, l), bp, n).h, mm, kk, BB, SS, FF)
           /\ kk = k /\ SS[bp] >= n
<1>1. /\ State(m, k, B, S, F, F, {}) /\ \A x \in F : x + S[x] \notin F
      /\ bp \in Nat /\ bp \in B /\ S[bp] \in Nat /\ F \subseteq B
  BY DEF Settled, Apart, State, Tiles
<1>2. PICK A : A = B \ (F \cup Fixed)
  OBVIOUS
<1>3. PICK m1 : m1 = heap_remove(m, bp)
  OBVIOUS
<1>4. State(m1, k, B, S, F, F \ {bp}, {}) /\ Kept(m, m1, A, S)
  BY <1>1, <1>2, <1>3, DoRemove
<1>5. Size(m, bp) = S[bp] /\ HeapOf(m, k, l).mem = m
  BY <1>1, HeapFields, Reads
<1>6. CASE S[bp] - n >= 16
  <2>1. PICK m3 : m3 = Tag(Tag(m1, bp, n, 1), bp + n, S[bp] - n, 0)
    OBVIOUS
  <2>2. PICK y : y = bp + n
    OBVIOUS
  <2>3. place(HeapOf(m, k, l), bp, n).h = coalesce(HeapOf(m3, k, l), y)
    <3>1. [HeapOf(m, k, l) EXCEPT !.mem = m3] = HeapOf(m3, k, l)
      BY HeapFields
    <3> QED BY <1>3, <1>5, <1>6, <2>1, <2>2, <3>1 DEF place
  <2>4. PICK B2, S2, F2 : Split(m1, k, B, S, F, bp, n, m3, B2, S2, F2)
    BY <1>4, <1>6, <2>1, DoSplit
  <2>5. /\ State(m3, k, B2, S2, F2, F2 \ {y}, {})
        /\ B2 = B \cup {y} /\ F2 = (F \cup {y}) \ {bp} /\ y \notin B
        /\ S2[bp] = n /\ \A b \in B \ {bp} : S2[b] = S[b]
        /\ Kept(m1, m3, B \ {bp}, S)
    BY <2>2, <2>4 DEF Split
  <2>6. y \in F2 /\ F2 \ {y} = F \ {bp} /\ B2 \ F2 = (B \ F) \cup {bp} /\ A \subseteq B2 \ (F2 \cup Fixed)
    BY <1>1, <1>2, <2>5
  <2>7. PICK mm, BB, SS, FF, f :
          Coalesces(m3, k, l, B2, S2, F2, y, coalesce(HeapOf(m3, k, l), y), mm, BB, SS, FF, f)
    <3>1. \A x \in F2 \ {y} : x + S2[x] \notin F2 \ {y}
      BY <1>1, <2>5, <2>6
    <3> QED BY <2>3, <2>5, <2>6, <3>1, DoCoalesce
  <2>8. /\ place(HeapOf(m, k, l), bp, n).h = HeapOf(mm, k, l)
        /\ Settled(mm, k, BB, SS, FF)
        /\ BB \ FF = B2 \ F2 /\ \A b \in B2 \ F2 : SS[b] = S2[b]
        /\ Kept(m3, mm, B2 \ (F2 \cup Fixed), S2)
    BY <2>3, <2>7 DEF Coalesces, Merged
  <2>9. SS[bp] = n /\ \A b \in B \ F : SS[b] = S[b]
    BY <1>1, <2>5, <2>6, <2>8
  <2>10. Kept(m, mm, A, S)
    <3>1. A \subseteq B \ {bp} /\ \A b \in A : S2[b] = S[b]
      BY <1>2, <2>5
    <3>2. Kept(m3, mm, A, S)
      BY <2>6, <2>8, <3>1, KeptSame
    <3>3. Kept(m1, m3, A, S)
      BY <2>5, <3>1, KeptSame
    <3> QED BY <1>4, <3>2, <3>3, KeptTransitive
  <2>11. /\ BB \ FF = ((B \ F) \ {}) \cup {bp} /\ {bp} \cap ((B \ F) \ {}) = {}
         /\ (B \ (F \cup Fixed)) \ {} = A /\ \A b \in (B \ F) \ {} : SS[b] = S[b]
    BY <1>2, <2>6, <2>8, <2>9
  <2>12. Becomes(m, l, B, S, F, {}, {bp}, place(HeapOf(m, k, l), bp, n).h, mm, k, BB, SS, FF)
    BY <2>8, <2>10, <2>11 DEF Becomes
  <2>13. SS[bp] >= n
    BY <2>9
  <2> QED BY <2>12, <2>13
<1>7. CASE ~ S[bp] - n >= 16
  <2>1. PICK mm : mm = Tag(m1, bp, S[bp], 1)
    OBVIOUS
  <2>2. place(HeapOf(m, k, l), bp, n).h = HeapOf(mm, k, l)
    <3>1. [HeapOf(m, k, l) EXCEPT !.mem = mm] = HeapOf(mm, k, l)
      BY HeapFields
    <3> QED BY <1>3, <1>5, <1>7, <2>1, <3>1 DEF place
  <2>3. State(mm, k, B, S, F \ {bp}, F \ {bp}, {}) /\ Kept(m1, mm, B, S)
    BY <1>4, <2>1, DoTake
  <2>4. Settled(mm, k, B, S, F \ {bp})
    <3>1. \A x \in F \ {bp} : x + S[x] \notin F \ {bp}
      BY <1>1
    <3> QED BY <2>3, <3>1 DEF Settled, Apart
  <2>5. Kept(m, mm, A, S)
    <3>1. Kept(m1, mm, A, S)
      BY <1>2, <2>3, KeptSame
    <3> QED BY <1>4, <3>1, KeptTransitive
  <2>6. /\ B \ (F \ {bp}) = ((B \ F) \ {}) \cup {bp} /\ {bp} \cap ((B \ F) \ {}) = {}
        /\ (B \ (F \cup Fixed)) \ {} = A
    BY <1>1, <1>2
  <2>7. Becomes(m, l, B, S, F, {}, {bp}, place(HeapOf(m, k, l), bp, n).h, mm, k, B, S, F \ {bp})
    BY <2>2, <2>4, <2>5, <2>6 DEF Becomes
  <2> QED BY <2>7
<1> QED BY <1>6, <1>7

\* extend_heap: the allocated blocks stay, and the block it returns is free and
\* large enough.
LEMMA DoExtendHeap ==
  ASSUME NEW m, NEW k, NEW l, NEW B, NEW S, NEW F, Settled(m, k, B, S, F),
         NEW n \in Nat, n >= 16, n % 8 = 0, CanGrow(HeapOf(m, k, l), n),
         extend_heap(HeapOf(m, k, l), n).h.alive
  PROVE  \E mm, kk, BB, SS, FF :
           /\ Becomes(m, l, B, S, F, {}, {}, extend_heap(HeapOf(m, k, l), n).h, mm, kk, BB, SS, FF)
           /\ extend_heap(HeapOf(m, k, l), n).p \in FF
           /\ SS[extend_heap(HeapOf(m, k, l), n).p] >= n
<1>1. /\ State(m, k, B, S, F, F, {}) /\ \A x \in F : x + S[x] \notin F
      /\ k \in Nat /\ F \subseteq B /\ k + n =< MaxHeap
      /\ \A b \in B : b \in Nat /\ S[b] \in Nat
  BY Basics DEF Settled, Apart, State, Tiles, CanGrow, HeapOf
<1>2. PICK bp : bp = k + 8
  OBVIOUS
<1>3. PICK e : e = k + n + 8
  OBVIOUS
<1>4. PICK S1 : S1 = Extended(B, S, k, n)
  OBVIOUS
<1>5. PICK B1 : B1 = B \cup {bp}
  OBVIOUS
<1>6. PICK F1 : F1 = F \cup {bp}
  OBVIOUS
<1>7. bp \notin B /\ bp # e /\ bp \in Nat
  BY <1>1, <1>2, <1>3, TilesUnique DEF State
<1>8. S1[bp] = n /\ \A b \in B : S1[b] = S[b]
  BY <1>2, <1>4, <1>7 DEF Extended
<1>9. State(m, k + n, B1, S1, F1, F, {bp, e})
  <2>1. {} \cup {k + 8, k + n + 8} = {bp, e}
    BY <1>2, <1>3
  <2>2. State(m, k + n, B \cup {k + 8}, Extended(B, S, k, n), F \cup {k + 8}, F, {} \cup {k + 8, k + n + 8})
    BY <1>1, DoExtend
  <2> QED BY <1>2, <1>4, <1>5, <1>6, <2>1, <2>2
<1>10. PICK m1 : m1 = Tag(m, bp, n, 0)
  OBVIOUS
<1>11. State(m1, k + n, B1, S1, F1, F, {e}) /\ Kept(m, m1, B1, S1)
  <2>1. {bp, e} \ {bp} = {e} /\ Alloc(bp, F1) = 0 /\ bp \in B1
    BY <1>5, <1>6, <1>7 DEF Alloc
  <2> QED BY <1>8, <1>9, <1>10, <2>1, DoTag
<1>12. PICK m2 : m2 = [m1 EXCEPT ![k + n - 4] = 1]
  OBVIOUS
<1>13. State(m2, k + n, B1, S1, F1, F, {}) /\ Kept(m1, m2, B1, S1)
  <2>1. PICK w : w = k + n
    OBVIOUS
  <2>2. {e} \ {w + 8} = {} /\ m2 = [m1 EXCEPT ![w - 4] = 1]
    BY <1>1, <1>3, <1>12, <2>1
  <2>3. State(m1, w, B1, S1, F1, F, {e})
    BY <1>11, <2>1
  <2>4. State([m1 EXCEPT ![w - 4] = 1], w, B1, S1, F1, F, {e} \ {w + 8})
    BY <2>3, DoEnd
  <2>5. Kept(m1, [m1 EXCEPT ![w - 4] = 1], B1, S1)
    BY <2>3, DoEnd
  <2> QED BY <2>1, <2>2, <2>4, <2>5
<1>14. PICK r : r = extend_heap(HeapOf(m, k, l), n)
  OBVIOUS
<1>15. r.h = coalesce(HeapOf(m2, k + n, l), bp)
  <2>1. HeapOf(m, k, l).mem = m /\ HeapOf(m, k, l).brk = k
    BY HeapFields
  <2>2. PICK w : w = k + n
    OBVIOUS
  <2>4. Moved(HeapOf(m, k, l), m2, w) = HeapOf(m2, w, l)
    BY HeapMoved
  <2>5. [HeapOf(m, k, l) EXCEPT !.mem = m2, !.brk = w] = HeapOf(m2, w, l)
    BY <2>4 DEF Moved
  <2>3. HDRP(bp + n) = k + n - 4 /\ PACK(0, 1) = 1
    BY <1>1, <1>2 DEF HDRP, PACK
  <2> QED BY <1>2, <1>10, <1>12, <1>14, <2>1, <2>2, <2>3, <2>5 DEF extend_heap
<1>16. F1 \ {bp} = F /\ bp \in F1
  BY <1>1, <1>6, <1>7
<1>17. PICK mm, BB, SS, FF, f :
         Coalesces(m2, k + n, l, B1, S1, F1, bp, coalesce(HeapOf(m2, k + n, l), bp), mm, BB, SS, FF, f)
  <2>1. State(m2, k + n, B1, S1, F1, F1 \ {bp}, {})
    BY <1>13, <1>16
  <2>2. \A x \in F1 \ {bp} : x + S1[x] \notin F1 \ {bp}
    BY <1>1, <1>8, <1>16
  <2> QED BY <1>14, <1>15, <1>16, <2>1, <2>2, DoCoalesce
<1>18. r.p = f
  <2>1. PICK pre \in B1 : pre + S1[pre] = bp
    <3>1. Tiles(k + n, B1, S1) /\ bp \in B1 /\ bp # 16
      BY <1>1, <1>2, <1>5, <1>9, Basics DEF State, Tiles
    <3> QED BY <3>1 DEF Tiles
  <2>2. pre # e
    <3>1. (k + n) + 8 \notin B1
      BY <1>9, TilesUnique DEF State
    <3> QED BY <1>1, <1>3, <2>1, <3>1
  <2>3. PREV_BLKP(m1, bp) = pre /\ GET_ALLOC(m1, FTRP(m1, pre)) = Alloc(pre, F1)
    BY <1>11, <2>1, <2>2, Reads
  <2>4. r.p = IF pre \in F1 THEN pre ELSE bp
    <3>1. HeapOf(m, k, l).mem = m /\ HeapOf(m, k, l).brk = k
      BY HeapFields
    <3>2. r.p = IF GET_ALLOC(m1, FTRP(m1, PREV_BLKP(m1, bp))) = 0 THEN PREV_BLKP(m1, bp) ELSE bp
      BY <1>2, <1>10, <1>14, <3>1 DEF extend_heap
    <3> QED BY <2>3, <3>2 DEF Alloc
  <2> QED BY <1>17, <2>1, <2>4 DEF Coalesces
<1>19. B1 \ F1 = B \ F /\ B1 \ (F1 \cup Fixed) = B \ (F \cup Fixed)
  BY <1>1, <1>5, <1>6, <1>7
<1>20. /\ r.h = HeapOf(mm, k + n, l)
       /\ Settled(mm, k + n, BB, SS, FF)
       /\ BB \ FF = B \ F /\ \A b \in B \ F : SS[b] = S1[b]
       /\ Kept(m2, mm, B \ (F \cup Fixed), S1)
       /\ f \in FF /\ SS[f] >= n
  BY <1>8, <1>15, <1>17, <1>19 DEF Coalesces, Merged
<1>21. Kept(m, mm, B \ (F \cup Fixed), S)
  <2>1. PICK A : A = B \ (F \cup Fixed)
    OBVIOUS
  <2>2. A \subseteq B1 /\ \A b \in A : S1[b] = S[b]
    BY <1>5, <1>8, <2>1
  <2>3. Kept(m, m2, B1, S1)
    BY <1>11, <1>13, KeptTransitive
  <2>4. Kept(m, m2, A, S)
    BY <2>2, <2>3, KeptSame
  <2>5. Kept(m2, mm, A, S)
    BY <1>20, <2>1, <2>2, KeptSame
  <2>6. Kept(m, mm, A, S)
    BY <2>4, <2>5, KeptTransitive
  <2> QED BY <2>1, <2>6
<1>22. Becomes(m, l, B, S, F, {}, {}, r.h, mm, k + n, BB, SS, FF)
  <2>1. /\ BB \ FF = ((B \ F) \ {}) \cup {} /\ {} \cap ((B \ F) \ {}) = {}
        /\ (B \ (F \cup Fixed)) \ {} = B \ (F \cup Fixed)
        /\ \A b \in (B \ F) \ {} : SS[b] = S[b]
    BY <1>8, <1>20
  <2> QED BY <1>20, <1>21, <2>1 DEF Becomes
<1> QED BY <1>14, <1>18, <1>20, <1>22

-----------------------------------------------------------------------------
(* find_fit: the lists as the search walks them                            *)

\* What defines the nodes of a list.
Successive(n, m, i) ==
  n = [j \in 0 .. MaxFree |->
        LET previous == IF j = 0 THEN heap(i) ELSE n[j - 1]
        IN  IF previous = Null THEN Null ELSE m[SUCC(previous)]]

\* n are the nodes of list i, of which L are all lists' nodes.
Walk(n, m, L, i) ==
  /\ n \in [0 .. MaxFree -> L \cup {Null}]
  /\ n[0] = m[heap(i) - 4]
  /\ \A j \in 1 .. MaxFree : n[j] = IF n[j - 1] = Null THEN Null ELSE m[n[j - 1] - 4]

\* There is room for a whole number of free blocks.
LEMMA MaxFreeIs == MaxFree \in Nat /\ 16 * MaxFree =< MaxHeap - FirstBlock /\ MaxHeap - FirstBlock < 16 * MaxFree + 16
<1>1. PICK d : d = MaxHeap - FirstBlock
  OBVIOUS
<1>2. d \in Nat
  BY <1>1, Basics
<1>3. MaxFree = d \div 16
  BY <1>1 DEF MaxFree
<1>4. d \div 16 \in Nat /\ 16 * (d \div 16) =< d /\ d < 16 * (d \div 16) + 16
  BY <1>2
<1> QED BY <1>1, <1>2, <1>3, <1>4, Basics

\* A list is what following the links from its head gives.
LEMMA ListWalks ==
  ASSUME NEW m, NEW k, NEW B, NEW S, NEW F, NEW L, NEW X, State(m, k, B, S, F, L, X),
         NEW i \in 0 .. N - 1
  PROVE  Walk(List(m, i), m, L, i)
<1> DEFINE D == ListNodes(L) \cup {Null}
           G == [x \in D |-> IF x = Null THEN Null ELSE m[x - 4]]
<1>1. PICK r, c : LinkedBy(m, L, r, c)
  BY DEF State, Lists
<1>2. Null \notin ListNodes(L) /\ L \subseteq ListNodes(L) /\ heap(i) \in ListNodes(L)
  <2>1. /\ ListNodes(L) \subseteq B /\ Spread(B) /\ L \subseteq ListNodes(L) /\ Heads \subseteq ListNodes(L)
    BY NodesAreBlocks
  <2>2. Null \notin B
    BY <2>1, LinksApart
  <2> QED BY <2>1, <2>2, Basics
<1>3. \A x \in ListNodes(L) : m[x - 4] \in L \cup {Null}
  BY <1>1 DEF LinkedBy
<1>4. G \in [D -> D] /\ \A x \in D : G[x] \in L \cup {Null}
  BY <1>2, <1>3
<1>5. PICK K : K = MaxFree + 1
  OBVIOUS
<1>6. MaxFree \in Nat /\ K \in Nat
  BY <1>5, MaxFreeIs
<1>7. PICK f : Iteration(f, D, G, heap(i), K)
  <2>1. heap(i) \in D
    BY <1>2
  <2> HIDE DEF D, G
  <2> QED BY <1>4, <1>6, <2>1, Iterates
<1>8. f \in [0 .. K -> D] /\ f[0] = heap(i) /\ \A j \in 1 .. K : f[j] = G[f[j - 1]]
  BY <1>7 DEF Iteration
<1> DEFINE g == [j \in 0 .. MaxFree |-> f[j + 1]]
<1>9. \A j \in 0 .. MaxFree : g[j] = IF f[j] = Null THEN Null ELSE m[f[j] - 4]
  <2> SUFFICES ASSUME NEW j \in 0 .. MaxFree PROVE g[j] = IF f[j] = Null THEN Null ELSE m[f[j] - 4]
    OBVIOUS
  <2>1. j + 1 \in 1 .. K /\ j \in 0 .. K /\ (j + 1) - 1 = j
    BY <1>5, <1>6
  <2>2. g[j] = G[f[j]] /\ f[j] \in D
    BY <1>8, <2>1
  <2> QED BY <2>2
<1>10. Successive(g, m, i)
  <2> DEFINE body(j) == LET previous == IF j = 0 THEN heap(i) ELSE g[j - 1]
                        IN  IF previous = Null THEN Null ELSE m[SUCC(previous)]
  <2>1. ASSUME NEW j \in 0 .. MaxFree PROVE g[j] = body(j)
    <3>1. f[j] = IF j = 0 THEN heap(i) ELSE g[j - 1]
      <4>1. CASE j = 0
        BY <1>8, <4>1
      <4>2. CASE j # 0
        <5>1. j - 1 \in 0 .. MaxFree /\ (j - 1) + 1 = j
          BY <1>6, <4>2
        <5> QED BY <4>2, <5>1
      <4> QED BY <4>1, <4>2
    <3> HIDE DEF g
    <3> QED BY <1>9, <3>1 DEF SUCC
  <2> HIDE DEF body
  <2>2. g = [j \in 0 .. MaxFree |-> body(j)]
    BY <2>1
  <2> HIDE DEF g
  <2> QED BY <2>2 DEF Successive, body
<1>11. List(m, i) = CHOOSE n : Successive(n, m, i)
  BY DEF List, Successive
<1>12. PICK n : n = List(m, i)
  OBVIOUS
<1>13. Successive(n, m, i)
  <2> HIDE DEF g
  <2> QED BY <1>10, <1>11, <1>12
<1>14. \A j \in 0 .. MaxFree : n[j] = LET previous == IF j = 0 THEN heap(i) ELSE n[j - 1]
                                     IN  IF previous = Null THEN Null ELSE m[previous - 4]
  BY <1>13 DEF Successive, SUCC
<1>15. n[0] = m[heap(i) - 4]
  BY <1>2, <1>6, <1>14
<1>16. \A j \in 1 .. MaxFree : n[j] = IF n[j - 1] = Null THEN Null ELSE m[n[j - 1] - 4]
  <2> SUFFICES ASSUME NEW j \in 1 .. MaxFree PROVE n[j] = IF n[j - 1] = Null THEN Null ELSE m[n[j - 1] - 4]
    OBVIOUS
  <2>1. j \in 0 .. MaxFree /\ j # 0
    BY <1>6
  <2> QED BY <1>14, <2>1
<1>17. \A j \in 0 .. MaxFree : n[j] \in L \cup {Null}
  <2> DEFINE bad == {j \in 0 .. MaxFree : n[j] \notin L \cup {Null}}
  <2> SUFFICES ASSUME bad # {} PROVE FALSE
    OBVIOUS
  <2>1. PICK j \in bad : \A x \in bad : j =< x
    <3>1. bad \subseteq Nat
      BY <1>6
    <3> HIDE DEF bad
    <3> QED BY <3>1, Least
  <2>2. j # 0
    BY <1>2, <1>3, <1>15
  <2>3. j \in 1 .. MaxFree /\ j - 1 \in 0 .. MaxFree /\ j - 1 \notin bad
    BY <1>6, <2>1, <2>2
  <2>4. n[j - 1] \in L \cup {Null}
    BY <2>3
  <2> QED BY <1>2, <1>3, <1>16, <2>3, <2>4
<1>18. n \in [0 .. MaxFree -> L \cup {Null}]
  <2>1. n = [j \in 0 .. MaxFree |-> n[j]]
    <3>1. DOMAIN n = 0 .. MaxFree /\ n = [j \in DOMAIN n |-> n[j]]
      BY <1>13 DEF Successive
    <3> QED BY <3>1
  <2> QED BY <1>17, <2>1
<1> QED BY <1>12, <1>15, <1>16, <1>18 DEF Walk

\* The nodes of a list belong to it, and each links back to the one before.
LEMMA WalkMembers ==
  ASSUME NEW m, NEW L, NEW r, NEW c, LinkedBy(m, L, r, c), Null \notin L,
         NEW i \in 0 .. N - 1, c[heap(i)] = i, NEW n, Walk(n, m, L, i)
  PROVE  \A j \in 0 .. MaxFree : n[j] # Null =>
           /\ n[j] \in L /\ c[n[j]] = i
           /\ m[n[j] - 8] = IF j = 0 THEN heap(i) ELSE n[j - 1]
           /\ j # 0 => n[j - 1] # Null /\ n[j - 1] \in L /\ r[n[j - 1]] < r[n[j]]
<1> DEFINE Ok(j) == n[j] # Null =>
             /\ n[j] \in L /\ c[n[j]] = i
             /\ m[n[j] - 8] = IF j = 0 THEN heap(i) ELSE n[j - 1]
             /\ j # 0 => n[j - 1] # Null /\ n[j - 1] \in L /\ r[n[j - 1]] < r[n[j]]
           bad == {j \in 0 .. MaxFree : ~ Ok(j)}
<1>1. MaxFree \in Nat /\ heap(i) \in ListNodes(L) /\ L \subseteq ListNodes(L)
  BY MaxFreeIs, Basics DEF ListNodes
<1>2. \A x \in ListNodes(L) : m[x - 4] # Null =>
        m[x - 4] \in L /\ c[m[x - 4]] = c[x] /\ m[m[x - 4] - 8] = x /\ r[x] < r[m[x - 4]]
  BY DEF LinkedBy
<1>3. SUFFICES ASSUME bad # {} PROVE FALSE
  OBVIOUS
<1>4. PICK j \in bad : \A x \in bad : j =< x
  <2>1. bad \subseteq Nat
    BY <1>1
  <2> HIDE DEF bad
  <2> QED BY <1>3, <2>1, Least
<1>5. j \in 0 .. MaxFree /\ ~ Ok(j) /\ n[j] # Null
  BY <1>4
<1>6. CASE j = 0
  <2>1. n[j] = m[heap(i) - 4]
    BY <1>6 DEF Walk
  <2> QED BY <1>1, <1>2, <1>5, <1>6, <2>1
<1>7. CASE j # 0
  <2>1. j \in 1 .. MaxFree /\ j - 1 \in 0 .. MaxFree /\ j - 1 \notin bad
    BY <1>1, <1>4, <1>5, <1>7
  <2>2. n[j] = IF n[j - 1] = Null THEN Null ELSE m[n[j - 1] - 4]
    BY <2>1 DEF Walk
  <2>3. n[j - 1] # Null /\ n[j] = m[n[j - 1] - 4]
    BY <1>5, <2>2
  <2>4. n[j - 1] \in L /\ c[n[j - 1]] = i
    BY <2>1, <2>3
  <2>5. n[j] \in L /\ c[n[j]] = i /\ m[n[j] - 8] = n[j - 1] /\ r[n[j - 1]] < r[n[j]]
    BY <1>1, <1>2, <1>5, <2>3, <2>4
  <2> QED BY <1>5, <1>7, <2>3, <2>4, <2>5
<1> QED BY <1>6, <1>7

\* A node of a list comes only once.
LEMMA WalkOnce ==
  ASSUME NEW m, NEW L, NEW r, NEW c, LinkedBy(m, L, r, c), Null \notin L,
         NEW i \in 0 .. N - 1, c[heap(i)] = i, NEW n, Walk(n, m, L, i)
  PROVE  \A a, b \in 0 .. MaxFree : a < b /\ n[b] # Null => n[a] \in L /\ r[n[a]] < r[n[b]]
<1> SUFFICES ASSUME NEW a \in 0 .. MaxFree
             PROVE  \A b \in 0 .. MaxFree : a < b /\ n[b] # Null => n[a] \in L /\ r[n[a]] < r[n[b]]
  OBVIOUS
<1> DEFINE bad == {b \in 0 .. MaxFree : ~ (a < b /\ n[b] # Null => n[a] \in L /\ r[n[a]] < r[n[b]])}
<1>1. SUFFICES ASSUME bad # {} PROVE FALSE
  OBVIOUS
<1>2. MaxFree \in Nat /\ \A x \in L : r[x] \in Nat
  BY MaxFreeIs DEF LinkedBy, ListNodes
<1>3. PICK b \in bad : \A x \in bad : b =< x
  <2>1. bad \subseteq Nat
    BY <1>2
  <2> HIDE DEF bad
  <2> QED BY <1>1, <2>1, Least
<1>4. b \in 0 .. MaxFree /\ a < b /\ n[b] # Null /\ b # 0 /\ b - 1 \in 0 .. MaxFree
  BY <1>2, <1>3
<1>5. n[b] \in L /\ n[b - 1] # Null /\ n[b - 1] \in L /\ r[n[b - 1]] < r[n[b]]
  BY <1>4, WalkMembers
<1>6. CASE a = b - 1
  BY <1>3, <1>5, <1>6
<1>7. CASE a # b - 1
  <2>1. a < b - 1 /\ b - 1 \notin bad
    BY <1>2, <1>3, <1>4, <1>7
  <2>2. n[a] \in L /\ r[n[a]] < r[n[b - 1]]
    BY <1>4, <1>5, <2>1
  <2>3. r[n[a]] < r[n[b]]
    BY <1>2, <1>5, <2>2
  <2> QED BY <1>3, <2>2, <2>3
<1> QED BY <1>6, <1>7

\* There are at most MaxFree free blocks, so the last place of a list is empty.
LEMMA WalkEnds ==
  ASSUME NEW m, NEW k, NEW B, NEW S, NEW L, NEW r, NEW c, LinkedBy(m, L, r, c), Null \notin L,
         Tiles(k, B, S), L \subseteq B \ Fixed,
         NEW i \in 0 .. N - 1, c[heap(i)] = i, NEW n, Walk(n, m, L, i)
  PROVE  n[MaxFree] = Null
<1> SUFFICES ASSUME n[MaxFree] # Null PROVE FALSE
  OBVIOUS
<1>1. MaxFree \in Nat /\ FirstBlock \in Nat /\ MaxHeap \in Nat /\ MaxHeap - FirstBlock < 16 * MaxFree + 16
  BY MaxFreeIs, Basics
<1>2. \A j \in 0 .. MaxFree : n[j] \in L
  <2> SUFFICES ASSUME NEW j \in 0 .. MaxFree PROVE n[j] \in L
    OBVIOUS
  <2>1. CASE j = MaxFree
    BY <1>1, <2>1, WalkMembers
  <2>2. CASE j # MaxFree
    <3>1. j < MaxFree /\ MaxFree \in 0 .. MaxFree
      BY <1>1, <2>2
    <3> QED BY <3>1, WalkOnce
  <2> QED BY <2>1, <2>2
<1> DEFINE slot(b) == (b - (FirstBlock + 8)) \div 16
           f == [j \in 0 .. MaxFree |-> slot(n[j])]
<1>3. \A b \in L : /\ b \in Nat /\ b >= FirstBlock + 8 /\ b + 16 =< MaxHeap + 8
                   /\ slot(b) \in 0 .. MaxFree - 1
  <2> SUFFICES ASSUME NEW b \in L
               PROVE  /\ b \in Nat /\ b >= FirstBlock + 8 /\ b + 16 =< MaxHeap + 8
                      /\ slot(b) \in 0 .. MaxFree - 1
    OBVIOUS
  <2>1. b \in B /\ b \notin Fixed /\ b \in Nat /\ b >= FirstBlock + 8
    BY FixedFirst DEF Tiles
  <2>2. b + 16 =< k + 8 /\ k \in Nat /\ k =< MaxHeap
    BY <1>1, <2>1, TilesUnique DEF Tiles
  <2>3. PICK d : d = b - (FirstBlock + 8)
    OBVIOUS
  <2>4. d \in Nat /\ d < 16 * MaxFree
    BY <1>1, <2>1, <2>2, <2>3
  <2>5. d \div 16 \in 0 .. MaxFree - 1
    BY <1>1, <2>4
  <2> QED BY <1>1, <2>1, <2>2, <2>3, <2>5
<1>4. \A x, y \in L : x < y => slot(x) # slot(y)
  <2> SUFFICES ASSUME NEW x \in L, NEW y \in L, x < y PROVE slot(x) # slot(y)
    OBVIOUS
  <2>1. x \in Nat /\ y \in Nat /\ x >= FirstBlock + 8 /\ y >= FirstBlock + 8
    BY <1>3
  <2>2. x + 16 =< y
    <3>1. x \in B /\ y \in B /\ x + S[x] =< y /\ S[x] \in Nat /\ S[x] >= 16
      BY DEF Tiles
    <3> QED BY <2>1, <3>1
  <2>3. PICK d : d = x - (FirstBlock + 8)
    OBVIOUS
  <2>4. PICK e : e = y - (FirstBlock + 8)
    OBVIOUS
  <2>5. d \in Nat /\ e \in Nat /\ d + 16 =< e
    BY <1>1, <2>1, <2>2, <2>3, <2>4
  <2>6. d \div 16 # e \div 16
    BY <2>5
  <2> QED BY <2>3, <2>4, <2>6
<1>5. \A x, y \in L : x # y => slot(x) # slot(y)
  <2> HIDE DEF slot
  <2> SUFFICES ASSUME NEW x \in L, NEW y \in L, x # y PROVE slot(x) # slot(y)
    OBVIOUS
  <2>1. x \in Nat /\ y \in Nat
    BY <1>3
  <2>2. x < y \/ y < x
    BY <2>1
  <2> QED BY <1>4, <2>2
<1> HIDE DEF slot
<1>6. f \in [0 .. MaxFree -> 0 .. MaxFree - 1]
  BY <1>2, <1>3
<1>7. PICK a \in 0 .. MaxFree, b \in 0 .. MaxFree : a # b /\ f[a] = f[b]
  <2>1. PICK K : K = MaxFree - 1
    OBVIOUS
  <2>2. IsFiniteSet(0 .. MaxFree) /\ Cardinality(0 .. MaxFree) = MaxFree + 1
    BY <1>1, FS_Interval
  <2>3. K \in Int
    BY <1>1, <2>1
  <2>4. IsFiniteSet(0 .. K) /\ Cardinality(0 .. K) = IF 0 > K THEN 0 ELSE K - 0 + 1
    BY <2>3, FS_Interval
  <2>5. IsFiniteSet(0 .. K) /\ Cardinality(0 .. K) < Cardinality(0 .. MaxFree)
    BY <1>1, <2>1, <2>2, <2>4
  <2>6. f \in [0 .. MaxFree -> 0 .. K]
    BY <1>6, <2>1
  <2> HIDE DEF f
  <2>7. PICK D, T : D = 0 .. MaxFree /\ T = 0 .. K
    OBVIOUS
  <2>8. IsFiniteSet(D) /\ IsFiniteSet(T) /\ Cardinality(T) < Cardinality(D) /\ f \in [D -> T]
    BY <2>2, <2>5, <2>6, <2>7
  <2>9. \E x, y \in D : x # y /\ f[x] = f[y]
    BY <2>8, FS_PigeonHole
  <2> QED BY <2>7, <2>9
<1>8. n[a] = n[b]
  BY <1>2, <1>5, <1>7
<1>9. a < b \/ b < a
  BY <1>1, <1>7
<1>10. r[n[a]] \in Nat
  BY <1>2 DEF LinkedBy, ListNodes
<1> QED BY <1>2, <1>8, <1>9, <1>10, <1>3, WalkOnce

\* Every block of a list is among its nodes.
LEMMA WalkReaches ==
  ASSUME NEW m, NEW k, NEW B, NEW S, NEW L, NEW r, NEW c, LinkedBy(m, L, r, c), Null \notin L,
         Tiles(k, B, S), L \subseteq B \ Fixed, \A x \in 0 .. N - 1 : c[heap(x)] = x,
         NEW i \in 0 .. N - 1, NEW n, Walk(n, m, L, i)
  PROVE  \A b \in L : c[b] = i => \E j \in 0 .. MaxFree : n[j] = b
<1> DEFINE bad == {b \in L : c[b] = i /\ ~ \E j \in 0 .. MaxFree : n[j] = b}
           ranks == {r[b] : b \in bad}
<1>1. SUFFICES ASSUME bad # {} PROVE FALSE
  OBVIOUS
<1>2. MaxFree \in Nat /\ n[MaxFree] = Null /\ (\A x \in L : r[x] \in Nat)
  <2>1. n[MaxFree] = Null
    BY WalkEnds
  <2> QED BY <2>1, MaxFreeIs DEF LinkedBy, ListNodes
<1>3. PICK b \in bad : \A x \in bad : r[b] =< r[x]
  <2>1. ranks \subseteq Nat /\ ranks # {}
    BY <1>1, <1>2
  <2>2. PICK v \in ranks : \A w \in ranks : v =< w
    <3> HIDE DEF ranks
    <3> QED BY <2>1, Least
  <2> QED BY <2>2
<1>4. b \in L /\ c[b] = i /\ ~ \E j \in 0 .. MaxFree : n[j] = b
  BY <1>3
<1> HIDE DEF ranks
<1>5. PICK q : q = m[b - 8]
  OBVIOUS
<1>6. q \in ListNodes(L) /\ c[q] = i /\ m[q - 4] = b
  BY <1>4, <1>5 DEF LinkedBy
<1>7. b # Null
  BY <1>4
<1>8. CASE q \in Heads
  <2>1. PICK x \in 0 .. N - 1 : q = heap(x)
    BY <1>8 DEF Heads
  <2>2. x = i
    BY <1>6, <2>1
  <2>3. n[0] = b /\ 0 \in 0 .. MaxFree
    BY <1>2, <1>6, <2>1, <2>2 DEF Walk
  <2> QED BY <1>4, <2>3
<1>9. CASE q \in L
  <2>1. r[q] < r[b]
    BY <1>6, <1>7 DEF LinkedBy
  <2>2. q \notin bad
    BY <1>2, <1>3, <1>4, <1>9, <2>1
  <2>3. PICK j \in 0 .. MaxFree : n[j] = q
    BY <1>6, <1>9, <2>2
  <2>4. j # MaxFree
    BY <1>2, <1>9, <2>3
  <2>5. j + 1 \in 1 .. MaxFree /\ j + 1 \in 0 .. MaxFree /\ (j + 1) - 1 = j
    BY <1>2, <2>4
  <2>6. n[j + 1] = m[n[j] - 4]
    BY <1>9, <2>3, <2>5 DEF Walk
  <2> QED BY <1>4, <1>6, <2>3, <2>5, <2>6
<1> QED BY <1>6, <1>8, <1>9 DEF ListNodes

\* What the lists hold, and how the nodes link back.
LEMMA ListIs ==
  ASSUME NEW m, NEW k, NEW B, NEW S, NEW F, NEW L, NEW X, State(m, k, B, S, F, L, X)
  PROVE  /\ \A b \in L : U(S[b]) \in 0 .. N - 1
         /\ \A i \in 0 .. N - 1 : \A j \in 0 .. MaxFree :
              List(m, i)[j] # Null =>
                /\ List(m, i)[j] \in L /\ U(S[List(m, i)[j]]) = i
                /\ m[List(m, i)[j] - 8] = IF j = 0 THEN heap(i) ELSE List(m, i)[j - 1]
         /\ \A i \in 0 .. N - 1 : \A b \in L :
              U(S[b]) = i => \E j \in 0 .. MaxFree : List(m, i)[j] = b
<1>1. PICK r, c : /\ LinkedBy(m, L, r, c)
                  /\ \A i \in 0 .. N - 1 : c[heap(i)] = i
                  /\ \A b \in L : c[b] = U(S[b])
  BY DEF State, Lists
<1>2. /\ Null \notin L /\ Tiles(k, B, S) /\ L \subseteq B \ Fixed
      /\ \A b \in L : c[b] \in 0 .. N - 1
  BY <1>1, NodesAreBlocks DEF State, LinkedBy, ListNodes
<1>3. ASSUME NEW i \in 0 .. N - 1
      PROVE  /\ \A j \in 0 .. MaxFree : List(m, i)[j] # Null =>
                  /\ List(m, i)[j] \in L /\ U(S[List(m, i)[j]]) = i
                  /\ m[List(m, i)[j] - 8] = IF j = 0 THEN heap(i) ELSE List(m, i)[j - 1]
             /\ \A b \in L : U(S[b]) = i => \E j \in 0 .. MaxFree : List(m, i)[j] = b
  <2>1. PICK n : n = List(m, i)
    OBVIOUS
  <2>2. Walk(n, m, L, i)
    BY <2>1, ListWalks
  <2>3. \A j \in 0 .. MaxFree : n[j] # Null =>
          /\ n[j] \in L /\ c[n[j]] = i
          /\ m[n[j] - 8] = IF j = 0 THEN heap(i) ELSE n[j - 1]
    BY <1>1, <1>2, <2>2, WalkMembers
  <2>4. \A b \in L : c[b] = i => \E j \in 0 .. MaxFree : n[j] = b
    BY <1>1, <1>2, <2>2, WalkReaches
  <2> QED BY <1>1, <2>1, <2>3, <2>4
<1> QED BY <1>1, <1>2, <1>3

\* The first of some places, if there is one, is one of them.
LEMMA FirstIs ==
  ASSUME NEW m, NEW P, P \subseteq (0 .. N - 1) \X (0 .. MaxFree)
  PROVE  IF P = {} THEN FirstAt(m, P) = Null
         ELSE \E x \in P : FirstAt(m, P) = List(m, x[1])[x[2]]
<1> DEFINE Before(x, y) == x[1] < y[1] \/ (x[1] = y[1] /\ x[2] =< y[2])
<1>1. CASE P = {}
  BY <1>1 DEF FirstAt
<1>2. CASE P # {}
  <2>1. N \in Nat /\ MaxFree \in Nat /\ \A x \in P : x[1] \in Nat /\ x[2] \in Nat
    BY Basics, MaxFreeIs
  <2>2. PICK x1 \in P : \A y \in P : x1[1] =< y[1]
    <3>1. {x[1] : x \in P} \subseteq Nat /\ {x[1] : x \in P} # {}
      BY <1>2, <2>1
    <3>2. PICK v \in {x[1] : x \in P} : \A w \in {x[1] : x \in P} : v =< w
      BY <3>1, Least
    <3> QED BY <3>2
  <2>3. PICK Q : Q = {x \in P : x[1] = x1[1]}
    OBVIOUS
  <2>4. PICK x2 \in Q : \A y \in Q : x2[2] =< y[2]
    <3>1. {x[2] : x \in Q} \subseteq Nat /\ {x[2] : x \in Q} # {}
      BY <2>1, <2>2, <2>3
    <3>2. PICK v \in {x[2] : x \in Q} : \A w \in {x[2] : x \in Q} : v =< w
      BY <3>1, Least
    <3> QED BY <3>2
  <2>5. x2 \in P /\ \A y \in P : Before(x2, y)
    BY <2>1, <2>2, <2>3, <2>4
  <2>6. PICK x : x = CHOOSE z \in P : \A y \in P : Before(z, y)
    OBVIOUS
  <2>7. x \in P
    <3> HIDE DEF Before
    <3> QED BY <2>5, <2>6
  <2>8. FirstAt(m, P) = List(m, x[1])[x[2]]
    BY <1>2, <2>6 DEF FirstAt
  <2> QED BY <1>2, <2>7, <2>8
<1> QED BY <1>1, <1>2

\* find_fit finds a free block that is large enough if there is one.
LEMMA FindFit ==
  ASSUME NEW m, NEW k, NEW B, NEW S, NEW F, State(m, k, B, S, F, F, {}), NEW n \in Nat
  PROVE  IF find_fit(m, n) = Null THEN \A b \in F : S[b] < n
         ELSE find_fit(m, n) \in F /\ S[find_fit(m, n)] >= n
<1>1. PICK P : P = {x \in Nodes(m) : n =< MAX_SIZE[x[1]] /\ Size(m, List(m, x[1])[x[2]]) >= n}
  OBVIOUS
<1>2. find_fit(m, n) = FirstAt(m, P)
  BY <1>1 DEF find_fit
<1>3. /\ \A b \in F : U(S[b]) \in 0 .. N - 1 /\ S[b] \in Nat /\ S[b] =< MaxHeap /\ Size(m, b) = S[b] /\ b # Null
                      /\ S[b] >= 16
      /\ \A i \in 0 .. N - 1 : \A j \in 0 .. MaxFree :
           List(m, i)[j] # Null => List(m, i)[j] \in F /\ U(S[List(m, i)[j]]) = i
      /\ \A b \in F : \E j \in 0 .. MaxFree : List(m, U(S[b]))[j] = b
  <2>1. \A b \in F : S[b] \in Nat /\ S[b] >= 16 /\ b \in B /\ b >= 16 /\ b \in Nat /\ b + S[b] =< k + 8
                     /\ k \in Nat /\ k =< MaxHeap /\ MaxHeap \in Nat
    BY Basics DEF State, Tiles
  <2>2. \A b \in F : S[b] =< MaxHeap
    BY <2>1
  <2>3. \A b \in F : Size(m, b) = S[b]
    BY <2>1, Reads
  <2> QED BY <2>1, <2>2, <2>3, ListIs, NodesAreBlocks
<1>4. \A x \in P : List(m, x[1])[x[2]] \in F /\ S[List(m, x[1])[x[2]]] >= n
  <2> SUFFICES ASSUME NEW x \in P PROVE List(m, x[1])[x[2]] \in F /\ S[List(m, x[1])[x[2]]] >= n
    OBVIOUS
  <2>1. /\ x[1] \in 0 .. N - 1 /\ x[2] \in 0 .. MaxFree /\ List(m, x[1])[x[2]] # Null
        /\ Size(m, List(m, x[1])[x[2]]) >= n
    BY <1>1 DEF Nodes
  <2> QED BY <1>3, <2>1
<1>5. P \subseteq (0 .. N - 1) \X (0 .. MaxFree)
  BY <1>1 DEF Nodes
<1>6. CASE P = {}
  <2>1. find_fit(m, n) = Null
    BY <1>2, <1>5, <1>6, FirstIs
  <2>2. ASSUME NEW b \in F, S[b] >= n PROVE FALSE
    <3>1. PICK i : i = U(S[b])
      OBVIOUS
    <3>2. PICK j \in 0 .. MaxFree : List(m, i)[j] = b
      BY <1>3, <3>1
    <3>3. <<i, j>> \in Nodes(m)
      BY <1>3, <3>1, <3>2 DEF Nodes
    <3>4. MAX_SIZE[i] >= S[b] /\ i \in 0 .. 30
      <4>1. S[b] \in 1 .. MAX_SIZE[30]
        BY <1>3, Basics, MaxSizes
      <4> QED BY <3>1, <4>1, UIs
    <3>5. n =< MAX_SIZE[i]
      <4>1. MAX_SIZE[i] \in Nat /\ S[b] \in Nat
        BY <1>3, <3>4, MaxSizes
      <4> QED BY <2>2, <3>4, <4>1
    <3>6. <<i, j>> \in P
      BY <1>1, <1>3, <2>2, <3>2, <3>3, <3>5
    <3> QED BY <1>6, <3>6
  <2>3. \A b \in F : S[b] < n
    BY <1>3, <2>2
  <2> QED BY <2>1, <2>3
<1>7. CASE P # {}
  <2>1. PICK x \in P : find_fit(m, n) = List(m, x[1])[x[2]]
    BY <1>2, <1>5, <1>7, FirstIs
  <2> QED BY <1>3, <1>4, <2>1
<1> QED BY <1>6, <1>7

-----------------------------------------------------------------------------
(* mm_malloc                                                               *)

\* Two changes, of which the first gives up nothing, are one.
LEMMA BecomesTwice ==
  ASSUME NEW m, NEW l, NEW B, NEW S, NEW F, NEW n1, NEW h1, NEW m1, NEW k1, NEW B1, NEW S1, NEW F1,
         Becomes(m, l, B, S, F, {}, n1, h1, m1, k1, B1, S1, F1),
         NEW o2, NEW n2, NEW h2, NEW m2, NEW k2, NEW B2, NEW S2, NEW F2,
         Becomes(m1, l, B1, S1, F1, o2, n2, h2, m2, k2, B2, S2, F2),
         o2 \subseteq B \ F, n1 \cap o2 = {}, NEW new, new = n1 \cup n2
  PROVE  Becomes(m, l, B, S, F, o2, new, h2, m2, k2, B2, S2, F2)
<1>1. /\ B1 \ F1 = (B \ F) \cup n1 /\ n1 \cap (B \ F) = {} /\ \A b \in B \ F : S1[b] = S[b]
      /\ Kept(m, m1, B \ (F \cup Fixed), S)
  <2>1. (B \ F) \ {} = B \ F /\ (B \ (F \cup Fixed)) \ {} = B \ (F \cup Fixed)
    OBVIOUS
  <2> QED BY <2>1 DEF Becomes
<1>2. /\ h2 = HeapOf(m2, k2, l) /\ Settled(m2, k2, B2, S2, F2)
      /\ B2 \ F2 = ((B1 \ F1) \ o2) \cup n2 /\ n2 \cap ((B1 \ F1) \ o2) = {}
      /\ \A b \in (B1 \ F1) \ o2 : S2[b] = S1[b]
      /\ Kept(m1, m2, (B1 \ (F1 \cup Fixed)) \ o2, S1)
  BY DEF Becomes
<1>3. B2 \ F2 = ((B \ F) \ o2) \cup new /\ new \cap ((B \ F) \ o2) = {}
  BY <1>1, <1>2
<1>4. \A b \in (B \ F) \ o2 : S2[b] = S[b]
  BY <1>1, <1>2
<1>5. PICK A : A = (B \ (F \cup Fixed)) \ o2
  OBVIOUS
<1>6. A \subseteq (B1 \ (F1 \cup Fixed)) \ o2 /\ A \subseteq B \ (F \cup Fixed) /\ \A b \in A : S1[b] = S[b]
  BY <1>1, <1>5
<1>7. Kept(m, m2, A, S)
  <2>1. Kept(m, m1, A, S)
    BY <1>1, <1>6, KeptSame
  <2>2. Kept(m1, m2, A, S)
    BY <1>2, <1>6, KeptSame
  <2> QED BY <2>1, <2>2, KeptTransitive
<1> QED BY <1>2, <1>3, <1>4, <1>5, <1>7 DEF Becomes

\* The size of a block for n bytes, and a smaller free block.
LEMMA AdjustedIs ==
  ASSUME NEW n \in Nat
  PROVE  /\ AdjustedSize(n) \in Nat /\ AdjustedSize(n) >= 16 /\ AdjustedSize(n) % 8 = 0
         /\ AdjustedSize(n) >= n + 8
         /\ \A s \in Nat : s >= 16 /\ s % 8 = 0 /\ s < AdjustedSize(n) => s < n + 8
<1>1. CASE n =< 8
  BY <1>1 DEF AdjustedSize
<1>2. CASE ~ n =< 8
  <2>1. PICK q : q = (n + 15) \div 8
    OBVIOUS
  <2>2. q \in Nat /\ 8 * q =< n + 15 /\ n + 15 < 8 * q + 8
    BY <2>1
  <2>3. AdjustedSize(n) = 8 * q
    BY <1>2, <2>1 DEF AdjustedSize
  <2>4. ASSUME NEW s \in Nat, s % 8 = 0, s < 8 * q PROVE s < n + 8
    <3>1. PICK t : t = s \div 8
      OBVIOUS
    <3>2. t \in Nat /\ s = 8 * t
      BY <2>4, <3>1
    <3> QED BY <2>2, <2>4, <3>2
  <2>5. (8 * q) % 8 = 0 /\ 8 * q >= 16 /\ 8 * q >= n + 8 /\ 8 * q \in Nat
    BY <1>2, <2>2
  <2> QED BY <2>3, <2>4, <2>5
<1> QED BY <1>1, <1>2

\* What a call that returns the block r.p of n bytes has done: it has given up
\* the blocks of old, whose contents the new one has, and if the heap has grown
\* for a block elsewhere no free one was large enough.
Gives(m, k, l, B, S, F, old, n, r, mm, kk, BB, SS, FF) ==
  /\ Becomes(m, l, B, S, F, old, {r.p + 8}, r.h, mm, kk, BB, SS, FF)
  /\ r.p \in Nat /\ r.p # Null /\ SS[r.p + 8] >= n + 8
  /\ \A o \in old : \A j \in Nat : j % 4 = 0 /\ j < S[o] - 8 => mm[r.p + j] = m[o - 8 + j]
  /\ kk > k /\ r.p + 8 \notin old => \A b \in F : S[b] < n + 8

\* mm_malloc: it changes nothing and returns NULL, or it gives a block.
LEMMA DoMalloc ==
  ASSUME NEW m, NEW k, NEW l, NEW B, NEW S, NEW F, Settled(m, k, B, S, F), NEW n \in Nat,
         NEW r, r = mm_malloc(HeapOf(m, k, l), n), r.h.alive
  PROVE  \/ r.p = Null /\ r.h = HeapOf(m, k, l)
         \/ n # 0 /\ \E mm, kk, BB, SS, FF : Gives(m, k, l, B, S, F, {}, n, r, mm, kk, BB, SS, FF)
<1>1. PICK h : h = HeapOf(m, k, l)
  OBVIOUS
<1>2. PICK a : a = AdjustedSize(n)
  OBVIOUS
<1>3. /\ a \in Nat /\ a >= 16 /\ a % 8 = 0 /\ a >= n + 8
      /\ \A s \in Nat : s >= 16 /\ s % 8 = 0 /\ s < a => s < n + 8
  BY <1>2, AdjustedIs
<1>4. h.mem = m /\ h.brk = k /\ h.alive = l
  BY <1>1, HeapFields
<1>5. PICK bp : bp = find_fit(m, a)
  OBVIOUS
<1>6. IF bp = Null THEN \A b \in F : S[b] < a ELSE bp \in F /\ S[bp] >= a
  <2>1. State(m, k, B, S, F, F, {})
    BY DEF Settled
  <2> QED BY <1>3, <1>5, <2>1, FindFit
<1>7. ASSUME NEW mm, NEW kk, NEW BB, NEW SS, NEW FF, NEW x, Settled(mm, kk, BB, SS, FF), x \in BB \ FF,
             x \notin B \ F
      PROVE  x - 8 \in Nat /\ x - 8 # Null /\ x - 8 + 8 = x
  <2>1. Fixed \subseteq B \ F
    BY DEF Settled, State, Tiles
  <2>2. x \in BB /\ x \notin Fixed /\ Tiles(kk, BB, SS)
    BY <1>7, <2>1 DEF Settled, State
  <2>3. x >= FirstBlock + 8 /\ x \in Nat
    BY <2>2, FixedFirst DEF Tiles
  <2> QED BY <2>3, Basics DEF Null
<1>8. CASE n = 0
  BY <1>1, <1>8 DEF mm_malloc
<1>9. CASE n # 0 /\ bp # Null
  <2>1. r = place(h, bp, a)
    BY <1>1, <1>2, <1>4, <1>5, <1>9 DEF mm_malloc
  <2>2. r.p = bp - 8
    BY <2>1 DEF place
  <2>3. PICK mm, kk, BB, SS, FF : /\ Becomes(m, l, B, S, F, {}, {bp}, r.h, mm, kk, BB, SS, FF)
                                  /\ kk = k /\ SS[bp] >= a
    BY <1>1, <1>3, <1>6, <1>9, <2>1, DoPlace
  <2>4. /\ Settled(mm, kk, BB, SS, FF) /\ bp \in BB \ FF /\ bp \notin B \ F
        /\ k \in Nat /\ SS[bp] \in Nat
    <3>1. Settled(mm, kk, BB, SS, FF) /\ bp \in BB \ FF /\ bp \notin B \ F /\ SS[bp] \in Nat
      BY <2>3 DEF Becomes, Settled, State, Tiles
    <3>2. k \in Nat
      BY Basics DEF Settled, State, Tiles
    <3> QED BY <3>1, <3>2
  <2>5. r.p \in Nat /\ r.p # Null /\ r.p + 8 = bp
    BY <1>7, <2>2, <2>4
  <2>6. ~ (kk > k) /\ SS[r.p + 8] >= n + 8
    BY <1>3, <2>3, <2>4, <2>5
  <2>7. Becomes(m, l, B, S, F, {}, {r.p + 8}, r.h, mm, kk, BB, SS, FF)
    BY <2>3, <2>5
  <2>8. Gives(m, k, l, B, S, F, {}, n, r, mm, kk, BB, SS, FF)
    BY <2>5, <2>6, <2>7 DEF Gives
  <2> QED BY <1>9, <2>8
<1>10. CASE n # 0 /\ bp = Null /\ ~ CanGrow(h, a)
  BY <1>1, <1>2, <1>4, <1>5, <1>10 DEF mm_malloc
<1>11. CASE n # 0 /\ bp = Null /\ CanGrow(h, a)
  <2>1. PICK e : e = extend_heap(h, a)
    OBVIOUS
  <2>2. r = IF ~ e.h.alive THEN e ELSE place(e.h, e.p, a)
    BY <1>1, <1>2, <1>4, <1>5, <1>11, <2>1 DEF mm_malloc
  <2>3. e.h.alive /\ r = place(e.h, e.p, a)
    BY <2>2
  <2>4. PICK m1, k1, B1, S1, F1 : /\ Becomes(m, l, B, S, F, {}, {}, e.h, m1, k1, B1, S1, F1)
                                  /\ e.p \in F1 /\ S1[e.p] >= a
    BY <1>1, <1>3, <1>11, <2>1, <2>3, DoExtendHeap
  <2>5. PICK x : x = e.p
    OBVIOUS
  <2>6. r = place(HeapOf(m1, k1, l), x, a) /\ r.p = x - 8 /\ Settled(m1, k1, B1, S1, F1)
    BY <2>3, <2>4, <2>5 DEF Becomes, place
  <2>7. PICK mm, kk, BB, SS, FF : /\ Becomes(m1, l, B1, S1, F1, {}, {x}, r.h, mm, kk, BB, SS, FF)
                                  /\ kk = k1 /\ SS[x] >= a
    BY <1>3, <2>4, <2>5, <2>6, DoPlace
  <2>8. Becomes(m, l, B, S, F, {}, {x}, r.h, mm, kk, BB, SS, FF)
    <3>1. {} \subseteq B \ F /\ {} \cap {} = {} /\ {x} = {} \cup {x}
      OBVIOUS
    <3> QED BY <2>4, <2>7, <3>1, BecomesTwice
  <2>9. Settled(mm, kk, BB, SS, FF) /\ x \in BB \ FF /\ x \notin B \ F /\ SS[x] \in Nat
    BY <2>8 DEF Becomes, Settled, State, Tiles
  <2>10. r.p \in Nat /\ r.p # Null /\ r.p + 8 = x
    BY <1>7, <2>6, <2>9
  <2>11. SS[r.p + 8] >= n + 8
    BY <1>3, <2>7, <2>9, <2>10
  <2>12. \A b \in F : S[b] < n + 8
    <3>1. \A b \in F : S[b] \in Nat /\ S[b] >= 16 /\ S[b] % 8 = 0
      BY DEF Settled, State, Tiles
    <3> QED BY <1>3, <1>6, <1>11, <3>1
  <2>13. Becomes(m, l, B, S, F, {}, {r.p + 8}, r.h, mm, kk, BB, SS, FF)
    BY <2>8, <2>10
  <2>14. Gives(m, k, l, B, S, F, {}, n, r, mm, kk, BB, SS, FF)
    BY <2>10, <2>11, <2>12, <2>13 DEF Gives
  <2> QED BY <1>11, <2>14
<1> QED BY <1>8, <1>9, <1>10, <1>11

-----------------------------------------------------------------------------
(* mm_realloc                                                              *)

\* The words of a payload are words of the heap.
LEMMA PayloadWords ==
  ASSUME NEW k, NEW B, NEW S, Tiles(k, B, S), NEW b \in B, NEW j \in Nat, j % 4 = 0, j < S[b] - 8
  PROVE  b - 8 + j \in Words /\ b - 8 =< b - 8 + j /\ b - 8 + j < b + S[b] - 16
<1>1. /\ b \in Nat /\ b >= 16 /\ b % 8 = 0 /\ S[b] \in Nat /\ b + S[b] =< k + 8
      /\ k \in Nat /\ k =< MaxHeap /\ MaxHeap \in Nat
  BY Basics DEF Tiles
<1>2. PICK a : a = b - 8 + j
  OBVIOUS
<1>3. a \in Int /\ a >= 0 /\ a < MaxHeap /\ a % 4 = 0 /\ a < b + S[b] - 16 /\ b - 8 =< a
  BY <1>1, <1>2
<1>4. a \in Words
  BY <1>3, WordIs
<1> QED BY <1>2, <1>3, <1>4

\* Kept blocks hold what they held.
LEMMA KeptPayload ==
  ASSUME NEW k, NEW B, NEW S, Tiles(k, B, S), NEW m, NEW mm, NEW A, Kept(m, mm, A, S), NEW b \in A, b \in B
  PROVE  \A j \in Nat : j % 4 = 0 /\ j < S[b] - 8 => mm[b - 8 + j] = m[b - 8 + j]
BY PayloadWords DEF Kept

\* Writing into the payload of an allocated block changes nothing else.
LEMMA PayloadOnly ==
  ASSUME NEW m, NEW k, NEW B, NEW S, NEW F, Settled(m, k, B, S, F),
         NEW b \in B, b \notin F, b \notin Fixed, NEW mm \in [Words -> Nat],
         \A a \in Words : ~ (b - 8 =< a /\ a < b + S[b] - 16) => mm[a] = m[a]
  PROVE  Settled(mm, k, B, S, F) /\ Kept(m, mm, (B \ (F \cup Fixed)) \ {b}, S)
<1>1. /\ State(m, k, B, S, F, F, {}) /\ Apart(S, F) /\ Tiles(k, B, S) /\ Tagged(m, k, B, S, F, {})
      /\ Lists(m, S, F) /\ F \subseteq B \ Fixed
  BY DEF Settled, State
<1>2. \A x \in B : /\ x - 12 \in Words /\ x - 8 \in Words /\ x - 4 \in Words /\ x + S[x] - 16 \in Words
                   /\ x \in Nat /\ S[x] \in Nat
  BY <1>1, TilesWords
<1>3. k - 4 \in Words
  BY <1>1, TilesWords
<1>4. Words \subseteq Int
  BY Basics DEF Words
<1>5. ASSUME NEW x \in B, NEW a \in Words, b - 8 =< a, a < b + S[b] - 16
      PROVE  a # x - 12 /\ a # x + S[x] - 16 /\ a # k - 4 /\ (b # x => a # x - 4 /\ a # x - 8)
  BY <1>1, <1>4, <1>5, WordsApart
<1>6. Tagged(mm, k, B, S, F, {})
  <2>1. mm[k - 4] = m[k - 4]
    BY <1>3, <1>5
  <2>2. \A x \in B : mm[x - 12] = m[x - 12] /\ mm[x + S[x] - 16] = m[x + S[x] - 16]
    BY <1>2, <1>5
  <2> QED BY <1>1, <2>1, <2>2 DEF Tagged
<1>7. Lists(mm, S, F)
  <2>1. ListNodes(F) \subseteq B /\ Null \notin F /\ b \notin ListNodes(F)
    <3>1. ListNodes(F) \subseteq B /\ Null \notin F
      BY <1>1, NodesAreBlocks
    <3>2. b \notin Heads
      BY Basics
    <3> QED BY <3>1, <3>2 DEF ListNodes
  <2>2. \A n \in ListNodes(F) : mm[n - 4] = m[n - 4] /\ mm[n - 8] = m[n - 8]
    BY <1>2, <1>5, <2>1
  <2>3. \A x \in F : S[x] = S[x]
    OBVIOUS
  <2> QED BY <1>1, <2>1, <2>2, <2>3, ListsSame
<1>8. Settled(mm, k, B, S, F)
  BY <1>1, <1>6, <1>7 DEF Settled, State
<1>9. Kept(m, mm, (B \ (F \cup Fixed)) \ {b}, S)
  <2> SUFFICES ASSUME NEW x \in (B \ (F \cup Fixed)) \ {b}, NEW a \in Words, x - 8 =< a, a < x + S[x] - 16
               PROVE  mm[a] = m[a]
    BY DEF Kept
  <2>1. (x < b /\ x + S[x] =< b) \/ (b < x /\ b + S[b] =< x)
    BY <1>1, <1>2 DEF Tiles
  <2>2. ~ (b - 8 =< a /\ a < b + S[b] - 16)
    BY <1>2, <1>4, <2>1
  <2> QED BY <2>2
<1> QED BY <1>8, <1>9

\* The first n bytes of block y are copied to block x.
Copied(m, k, B, S, F, x, y, n, mm) ==
  /\ mm = memcpy(m, x - 8, y - 8, n)
  /\ Settled(mm, k, B, S, F) /\ Kept(m, mm, (B \ (F \cup Fixed)) \ {x}, S)
  /\ \A j \in Nat : j % 4 = 0 /\ j < n => mm[x - 8 + j] = m[y - 8 + j]

\* memcpy into the payload of an allocated block.
LEMMA DoCopy ==
  ASSUME NEW m, NEW k, NEW B, NEW S, NEW F, Settled(m, k, B, S, F),
         NEW x \in B, x \notin F, x \notin Fixed, NEW y \in B, NEW n \in Nat, n =< S[x] - 8, n =< S[y] - 8
  PROVE  \E mm : Copied(m, k, B, S, F, x, y, n, mm)
<1>0. PICK mm : mm = memcpy(m, x - 8, y - 8, n)
  OBVIOUS
<1>1. /\ Tiles(k, B, S) /\ m \in [Words -> Nat]
      /\ x \in Nat /\ y \in Nat /\ S[x] \in Nat /\ S[y] \in Nat /\ x % 8 = 0 /\ y % 8 = 0
  BY DEF Settled, State, Tagged, Tiles
<1>2. mm = [a \in Words |-> IF a \in x - 8 .. (x - 8) + n - 1 THEN m[a - (x - 8) + (y - 8)] ELSE m[a]]
  BY <1>0 DEF memcpy
<1>3. Words \subseteq Int
  BY Basics DEF Words
<1>4. ASSUME NEW a \in Words, a \in x - 8 .. (x - 8) + n - 1
      PROVE  m[a - (x - 8) + (y - 8)] \in Nat
  <2>1. PICK j : j = a - (x - 8)
    OBVIOUS
  <2>2. a % 4 = 0 /\ a \in Int
    BY <1>3, WordIs
  <2>3. j \in Nat /\ j < n /\ j % 4 = 0 /\ j < S[y] - 8 /\ a - (x - 8) + (y - 8) = y - 8 + j
    BY <1>1, <1>4, <2>1, <2>2
  <2>4. y - 8 + j \in Words
    BY <1>1, <2>3, PayloadWords
  <2> QED BY <1>1, <2>3, <2>4
<1>5. mm \in [Words -> Nat]
  BY <1>1, <1>2, <1>4
<1>6. \A a \in Words : ~ (x - 8 =< a /\ a < x + S[x] - 16) => mm[a] = m[a]
  BY <1>1, <1>2, <1>3
<1>7. Settled(mm, k, B, S, F) /\ Kept(m, mm, (B \ (F \cup Fixed)) \ {x}, S)
  BY <1>5, <1>6, PayloadOnly
<1>8. ASSUME NEW j \in Nat, j % 4 = 0, j < n
      PROVE  mm[x - 8 + j] = m[y - 8 + j]
  <2>1. j < S[x] - 8
    BY <1>1, <1>8
  <2>2. PICK a : a = x - 8 + j
    OBVIOUS
  <2>3. a \in Words
    BY <1>1, <1>8, <2>1, <2>2, PayloadWords
  <2>4. a \in x - 8 .. (x - 8) + n - 1 /\ a - (x - 8) + (y - 8) = y - 8 + j
    BY <1>1, <1>8, <2>2
  <2> QED BY <1>2, <2>2, <2>3, <2>4
<1> QED BY <1>0, <1>7, <1>8 DEF Copied

\* A block whose size changes in place is the block a call gives for itself.
LEMMA GivesInPlace ==
  ASSUME NEW m, NEW k, NEW l, NEW B, NEW S, NEW F, Settled(m, k, B, S, F),
         NEW bp \in B, bp \notin F, bp \notin Fixed,
         NEW mm, NEW kk, NEW BB, NEW SS, NEW FF, Settled(mm, kk, BB, SS, FF),
         BB \ FF = B \ F, \A b \in (B \ F) \ {bp} : SS[b] = S[b],
         Kept(m, mm, B \ (F \cup Fixed), S),
         NEW n \in Nat, SS[bp] >= n + 8,
         NEW r, r.p = bp - 8, r.h = HeapOf(mm, kk, l)
  PROVE  Gives(m, k, l, B, S, F, {bp}, n, r, mm, kk, BB, SS, FF)
<1>1. /\ Tiles(k, B, S) /\ bp \in Nat /\ S[bp] \in Nat /\ bp >= FirstBlock + 8
  BY FixedFirst DEF Settled, State, Tiles
<1>2. r.p \in Nat /\ r.p # Null /\ r.p + 8 = bp
  BY <1>1, Basics DEF Null
<1>3. Becomes(m, l, B, S, F, {bp}, {r.p + 8}, r.h, mm, kk, BB, SS, FF)
  <2>1. BB \ FF = ((B \ F) \ {bp}) \cup {bp} /\ {bp} \cap ((B \ F) \ {bp}) = {}
    OBVIOUS
  <2>2. Kept(m, mm, (B \ (F \cup Fixed)) \ {bp}, S)
    BY KeptSame
  <2>3. Becomes(m, l, B, S, F, {bp}, {bp}, r.h, mm, kk, BB, SS, FF)
    BY <2>1, <2>2 DEF Becomes
  <2> QED BY <1>2, <2>3
<1>4. \A o \in {bp} : \A j \in Nat : j % 4 = 0 /\ j < S[o] - 8 => mm[r.p + j] = m[o - 8 + j]
  <2>1. bp \in B \ (F \cup Fixed)
    OBVIOUS
  <2>2. \A j \in Nat : j % 4 = 0 /\ j < S[bp] - 8 => mm[bp - 8 + j] = m[bp - 8 + j]
    BY <1>1, <2>1, KeptPayload
  <2> QED BY <2>2
<1> QED BY <1>2, <1>3, <1>4 DEF Gives

\* ALIGN rounds up to a multiple of 8.
LEMMA AlignIs == ASSUME NEW n \in Nat PROVE ALIGN(n) \in Nat /\ ALIGN(n) % 8 = 0 /\ ALIGN(n) >= n
<1>1. PICK q : q = (n + 7) \div 8
  OBVIOUS
<1>2. q \in Nat /\ n + 7 < 8 * q + 8
  BY <1>1
<1>3. (8 * q) % 8 = 0
  BY <1>2
<1> QED BY <1>1, <1>2, <1>3 DEF ALIGN

\* mm_realloc of the last block moves the end of the heap.
LEMMA ReallocLast ==
  ASSUME NEW m, NEW k, NEW l, NEW B, NEW S, NEW F, Settled(m, k, B, S, F),
         NEW bp \in B, bp \notin F, bp \notin Fixed, bp + S[bp] = k + 8,
         NEW d \in Nat, d % 8 = 0, k + d =< MaxHeap, NEW n \in Nat, S[bp] + d >= n + 8,
         NEW m1, m1 = Tag(m, bp, S[bp] + d, 1), NEW w, w = k + d,
         NEW r, r.p = bp - 8, r.h = HeapOf([m1 EXCEPT ![w - 4] = 1], w, l)
  PROVE  \E mm, kk, BB, SS, FF : Gives(m, k, l, B, S, F, {bp}, n, r, mm, kk, BB, SS, FF)
<1>1. /\ State(m, k, B, S, F, F, {}) /\ \A x \in F : x + S[x] \notin F
      /\ F \subseteq B /\ S[bp] \in Nat /\ bp \in Nat /\ k \in Nat
  BY Basics DEF Settled, Apart, State, Tiles
<1>3. PICK S1 : S1 = Grown(B, S, bp, d)
  OBVIOUS
<1>4. S1[bp] = S[bp] + d /\ \A b \in B \ {bp} : S1[b] = S[b]
  BY <1>3 DEF Grown
<1>5. State(m, w, B, S1, F, F, {bp, w + 8})
  <2>1. {} \cup {bp, k + d + 8} = {bp, w + 8}
    OBVIOUS
  <2>2. bp \in B \ Fixed
    OBVIOUS
  <2>3. State(m, k + d, B, Grown(B, S, bp, d), F, F, {} \cup {bp, k + d + 8})
    BY <1>1, <2>2, DoGrow
  <2> QED BY <1>3, <2>1, <2>3
<1>7. State(m1, w, B, S1, F, F, {w + 8}) /\ Kept(m, m1, B, S1)
  <2>1. {bp, w + 8} \ {bp} = {w + 8} /\ Alloc(bp, F) = 1
    <3>1. bp # w + 8
      BY <1>5, TilesUnique DEF State
    <3> QED BY <3>1 DEF Alloc
  <2> QED BY <1>4, <1>5, <2>1, DoTag
<1>8. PICK mm : mm = [m1 EXCEPT ![w - 4] = 1]
  OBVIOUS
<1>9. State(mm, w, B, S1, F, F, {}) /\ Kept(m1, mm, B, S1)
  <2>1. {w + 8} \ {w + 8} = {}
    OBVIOUS
  <2>2. State([m1 EXCEPT ![w - 4] = 1], w, B, S1, F, F, {w + 8} \ {w + 8})
    BY <1>7, DoEnd
  <2>3. Kept(m1, [m1 EXCEPT ![w - 4] = 1], B, S1)
    BY <1>7, DoEnd
  <2> QED BY <1>8, <2>1, <2>2, <2>3
<1>10. Settled(mm, w, B, S1, F)
  <2>1. \A x \in F : x + S1[x] \notin F
    BY <1>1, <1>4
  <2> QED BY <1>9, <2>1 DEF Settled, Apart
<1>11. Kept(m, mm, B \ (F \cup Fixed), S)
  <2>1. Kept(m, mm, B, S1)
    BY <1>7, <1>9, KeptTransitive
  <2> SUFFICES ASSUME NEW b \in B \ (F \cup Fixed), NEW a \in Words, b - 8 =< a, a < b + S[b] - 16
               PROVE  mm[a] = m[a]
    BY DEF Kept
  <2>2. a < b + S1[b] - 16
    <3>1. a \in Int /\ b \in Nat /\ S[b] \in Nat /\ S1[b] >= S[b] /\ S1[b] \in Nat
      BY <1>1, <1>4, Basics DEF State, Tiles, Words
    <3> QED BY <3>1
  <2> QED BY <2>1, <2>2 DEF Kept
<1>12. r.h = HeapOf(mm, w, l)
  BY <1>8
<1>13. S1[bp] >= n + 8
  BY <1>4
<1>14. \A b \in (B \ F) \ {bp} : S1[b] = S[b]
  BY <1>4
<1>15. Gives(m, k, l, B, S, F, {bp}, n, r, mm, w, B, S1, F)
  BY <1>10, <1>11, <1>12, <1>13, <1>14, GivesInPlace
<1> QED BY <1>15

\* mm_realloc swallows the free block behind.
LEMMA ReallocSwallows ==
  ASSUME NEW m, NEW k, NEW l, NEW B, NEW S, NEW F, Settled(m, k, B, S, F),
         NEW bp \in B, bp \notin F, bp \notin Fixed, NEW nxt \in F, nxt = bp + S[bp],
         NEW n \in Nat, S[bp] + S[nxt] >= n + 8,
         NEW r, r.p = bp - 8,
         r.h = HeapOf(Tag(heap_remove(m, nxt), bp, S[bp] + S[nxt], 1), k, l)
  PROVE  \E mm, kk, BB, SS, FF : Gives(m, k, l, B, S, F, {bp}, n, r, mm, kk, BB, SS, FF)
<1>1. /\ State(m, k, B, S, F, F, {}) /\ \A x \in F : x + S[x] \notin F
      /\ F \subseteq B \ Fixed /\ S[bp] \in Nat /\ bp \in Nat /\ S[nxt] \in Nat
  BY DEF Settled, Apart, State, Tiles
<1>2. PICK A : A = B \ (F \cup Fixed)
  OBVIOUS
<1>3. PICK m1 : m1 = heap_remove(m, nxt)
  OBVIOUS
<1>4. PICK L : L = F \ {nxt}
  OBVIOUS
<1>5. PICK BB : BB = B \ {nxt}
  OBVIOUS
<1>6. State(m1, k, B, S, F, L, {}) /\ Kept(m, m1, A, S)
  BY <1>1, <1>2, <1>3, <1>4, DoRemove
<1>7. PICK S1 : S1 = Joined(B, S, bp, nxt)
  OBVIOUS
<1>8. S1[bp] = S[bp] + S[nxt] /\ \A b \in BB \ {bp} : S1[b] = S[b]
  BY <1>5, <1>7 DEF Joined
<1>9. State(m1, k, BB, S1, L, L, {bp})
  <2>1. ({} \ {nxt}) \cup {bp} = {bp}
    OBVIOUS
  <2>2. bp \in B \ Fixed /\ nxt \in B \ Fixed /\ bp \notin L /\ nxt \notin L
    BY <1>1, <1>4
  <2>3. State(m1, k, B \ {nxt}, Joined(B, S, bp, nxt), F \ {nxt}, L, ({} \ {nxt}) \cup {bp})
    BY <1>6, <2>2, JoinState
  <2> QED BY <1>4, <1>5, <1>7, <2>1, <2>3
<1>10. PICK mm : mm = Tag(m1, bp, S[bp] + S[nxt], 1)
  OBVIOUS
<1>11. State(mm, k, BB, S1, L, L, {}) /\ Kept(m1, mm, BB, S1)
  <2>1. {bp} \ {bp} = {} /\ Alloc(bp, L) = 1 /\ bp \in BB
    BY <1>4, <1>5 DEF Alloc
  <2> QED BY <1>8, <1>9, <1>10, <2>1, DoTag
<1>12. Settled(mm, k, BB, S1, L)
  <2>1. \A x \in L : x + S1[x] \notin L
    BY <1>1, <1>4, <1>5, <1>8
  <2> QED BY <1>11, <2>1 DEF Settled, Apart
<1>13. Kept(m, mm, A, S)
  <2>1. Kept(m1, mm, A, S)
    <3> SUFFICES ASSUME NEW b \in A, NEW a \in Words, b - 8 =< a, a < b + S[b] - 16
                 PROVE  mm[a] = m1[a]
      BY DEF Kept
    <3>1. b \in BB /\ b \in B
      BY <1>2, <1>5
    <3>2. a < b + S1[b] - 16
      <4>1. a \in Int /\ b \in Nat /\ S[b] \in Nat /\ S1[b] >= S[b] /\ S1[b] \in Nat
        BY <1>1, <1>8, <3>1, Basics DEF State, Tiles, Words
      <4> QED BY <4>1
    <3> QED BY <1>11, <3>1, <3>2 DEF Kept
  <2> QED BY <1>6, <2>1, KeptTransitive
<1>14. BB \ L = B \ F /\ \A b \in (B \ F) \ {bp} : S1[b] = S[b]
  BY <1>1, <1>4, <1>5, <1>8
<1>15. r.h = HeapOf(mm, k, l) /\ S1[bp] >= n + 8
  BY <1>3, <1>8, <1>10
<1>16. Gives(m, k, l, B, S, F, {bp}, n, r, mm, k, BB, S1, L)
  BY <1>2, <1>12, <1>13, <1>14, <1>15, GivesInPlace
<1> QED BY <1>16

\* mm_realloc moves a block: a new one gets its contents, and it is freed.
LEMMA ReallocMoves ==
  ASSUME NEW m, NEW k, NEW l, NEW B, NEW S, NEW F, Settled(m, k, B, S, F),
         NEW bp \in B, bp \notin F, bp \notin Fixed, NEW n \in Nat, n > S[bp] - 8,
         NEW new, NEW m1, NEW k1, NEW B1, NEW S1, NEW F1,
         Gives(m, k, l, B, S, F, {}, n, new, m1, k1, B1, S1, F1),
         NEW m2, m2 = memcpy(m1, new.p, bp - 8, S[bp] - 8),
         NEW r, r.p = new.p, r.h = mm_free(HeapOf(m2, k1, l), bp - 8), r.h.alive
  PROVE  \E mm, kk, BB, SS, FF : Gives(m, k, l, B, S, F, {bp}, n, r, mm, kk, BB, SS, FF)
<1>1. PICK x : x = new.p + 8
  OBVIOUS
<1>2. /\ Becomes(m, l, B, S, F, {}, {x}, new.h, m1, k1, B1, S1, F1)
      /\ new.p \in Nat /\ new.p # Null /\ S1[x] >= n + 8
      /\ k1 > k => \A b \in F : S[b] < n + 8
  BY <1>1 DEF Gives
<1>3. new.p = x - 8 /\ x \in Nat
  BY <1>1, <1>2
<1>4. PICK A : A = B \ (F \cup Fixed)
  OBVIOUS
<1>5. /\ Settled(m1, k1, B1, S1, F1)
      /\ B1 \ F1 = (B \ F) \cup {x} /\ x \notin B \ F
      /\ \A b \in B \ F : S1[b] = S[b]
      /\ Kept(m, m1, A, S)
  <2>1. (B \ F) \ {} = B \ F /\ A \ {} = A /\ {x} \cap (B \ F) = {} => x \notin B \ F
    OBVIOUS
  <2> QED BY <1>2, <1>4, <2>1 DEF Becomes
<1>6. /\ Fixed \subseteq B \ F /\ Fixed \subseteq B1 \ F1 /\ bp \in A
      /\ Tiles(k, B, S) /\ Tiles(k1, B1, S1) /\ S[bp] \in Nat /\ S[bp] >= 16 /\ bp \in Nat
      /\ bp \in B1 /\ bp \notin F1 /\ S1[bp] = S[bp]
      /\ x \in B1 /\ x \notin F1 /\ x \notin Fixed /\ x # bp /\ S1[x] \in Nat
      /\ A \subseteq (B1 \ (F1 \cup Fixed)) \ {x}
      /\ x \in (B1 \ (F1 \cup Fixed)) \ {bp}
  <2>1. /\ Fixed \subseteq B \ F /\ Tiles(k, B, S) /\ S[bp] \in Nat /\ S[bp] >= 16 /\ bp \in Nat
    BY DEF Settled, State, Tiles
  <2>2. Tiles(k1, B1, S1) /\ Fixed \subseteq B1 \ F1
    BY <1>5 DEF Settled, State, Tiles
  <2>3. x \in B1 /\ x \notin F1 /\ x \notin Fixed /\ x # bp /\ bp \in A
    BY <1>4, <1>5, <2>1
  <2>4. S1[x] \in Nat
    BY <2>2, <2>3 DEF Tiles
  <2> QED BY <1>4, <1>5, <2>1, <2>2, <2>3, <2>4
<1>7. PICK c : c = S[bp] - 8
  OBVIOUS
<1>8. c \in Nat /\ c =< S1[x] - 8 /\ c =< S1[bp] - 8
  BY <1>2, <1>6, <1>7
<1>9. /\ Settled(m2, k1, B1, S1, F1) /\ Kept(m1, m2, (B1 \ (F1 \cup Fixed)) \ {x}, S1)
      /\ \A j \in Nat : j % 4 = 0 /\ j < c => m2[x - 8 + j] = m1[bp - 8 + j]
  <2>1. m2 = memcpy(m1, x - 8, bp - 8, c)
    BY <1>3, <1>7
  <2>2. \E z : Copied(m1, k1, B1, S1, F1, x, bp, c, z)
    BY <1>5, <1>6, <1>8, DoCopy
  <2> QED BY <2>1, <2>2 DEF Copied
<1>10. Becomes(m, l, B, S, F, {}, {x}, HeapOf(m2, k1, l), m2, k1, B1, S1, F1)
  <2>1. Kept(m1, m2, A, S)
    <3>1. \A b \in A : S[b] = S1[b]
      BY <1>4, <1>5
    <3>2. PICK A1 : A1 = (B1 \ (F1 \cup Fixed)) \ {x}
      OBVIOUS
    <3>3. Kept(m1, m2, A1, S1) /\ A \subseteq A1
      BY <1>6, <1>9, <3>2
    <3> QED BY <3>1, <3>3, KeptSame
  <2>2. Kept(m, m2, A, S)
    BY <1>5, <2>1, KeptTransitive
  <2>3. /\ (B \ F) \ {} = B \ F /\ (B \ (F \cup Fixed)) \ {} = A /\ {x} \cap ((B \ F) \ {}) = {}
        /\ B1 \ F1 = ((B \ F) \ {}) \cup {x}
    BY <1>4, <1>5
  <2> QED BY <1>5, <1>9, <2>2, <2>3 DEF Becomes
<1>11. PICK mm, BB, SS, FF : Becomes(m2, l, B1, S1, F1, {bp}, {}, r.h, mm, k1, BB, SS, FF)
  <2>1. r.h = Freed(m2, k1, l, bp) /\ Freed(m2, k1, l, bp).alive
    BY DEF Freed
  <2>2. Settled(m2, k1, B1, S1, F1) /\ bp \in B1 /\ bp \notin F1 /\ bp \notin Fixed
    BY <1>6, <1>9
  <2>3. \E mm, BB, SS, FF :
          Becomes(m2, l, B1, S1, F1, {bp}, {}, Freed(m2, k1, l, bp), mm, k1, BB, SS, FF)
    BY <2>1, <2>2, DoFree
  <2> QED BY <2>1, <2>3
<1>12. Becomes(m, l, B, S, F, {bp}, {x}, r.h, mm, k1, BB, SS, FF)
  <2>1. {bp} \subseteq B \ F /\ {x} \cap {bp} = {} /\ {x} = {x} \cup {}
    BY <1>6
  <2>2. Becomes(m2, l, B1, S1, F1, {bp}, {}, r.h, mm, k1, BB, SS, FF)
    BY <1>11
  <2>3. PICK o2, n1, n2, h1 : o2 = {bp} /\ n1 = {x} /\ n2 = {} /\ h1 = HeapOf(m2, k1, l)
    OBVIOUS
  <2>4. Becomes(m, l, B, S, F, {}, n1, h1, m2, k1, B1, S1, F1)
    BY <1>10, <2>3
  <2>5. Becomes(m2, l, B1, S1, F1, o2, n2, r.h, mm, k1, BB, SS, FF)
    BY <2>2, <2>3
  <2>6. o2 \subseteq B \ F /\ n1 \cap o2 = {} /\ n1 = n1 \cup n2
    BY <2>1, <2>3
  <2>7. Becomes(m, l, B, S, F, o2, n1, r.h, mm, k1, BB, SS, FF)
    BY <2>4, <2>5, <2>6, BecomesTwice
  <2> QED BY <2>3, <2>7
<1>13. SS[x] = S1[x] /\ Kept(m2, mm, (B1 \ (F1 \cup Fixed)) \ {bp}, S1)
  BY <1>6, <1>11 DEF Becomes
<1>14. \A j \in Nat : j % 4 = 0 /\ j < S[bp] - 8 => mm[r.p + j] = m[bp - 8 + j]
  <2> SUFFICES ASSUME NEW j \in Nat, j % 4 = 0, j < S[bp] - 8 PROVE mm[r.p + j] = m[bp - 8 + j]
    OBVIOUS
  <2>1. j < S1[x] - 8
    BY <1>6, <1>7, <1>8
  <2>2. mm[x - 8 + j] = m2[x - 8 + j]
    BY <1>6, <1>13, <2>1, KeptPayload
  <2>3. m2[x - 8 + j] = m1[bp - 8 + j]
    BY <1>7, <1>9
  <2>4. m1[bp - 8 + j] = m[bp - 8 + j]
    BY <1>5, <1>6, KeptPayload
  <2> QED BY <1>3, <2>2, <2>3, <2>4
<1>15. Gives(m, k, l, B, S, F, {bp}, n, r, mm, k1, BB, SS, FF)
  <2>1. \A o \in {bp} : \A j \in Nat : j % 4 = 0 /\ j < S[o] - 8 => mm[r.p + j] = m[o - 8 + j]
    BY <1>14
  <2> QED BY <1>1, <1>2, <1>11, <1>12, <1>13, <2>1 DEF Gives
<1> QED BY <1>15

\* mm_realloc of an allocated block for n bytes.
LEMMA DoRealloc ==
  ASSUME NEW m, NEW k, NEW l, NEW B, NEW S, NEW F, Settled(m, k, B, S, F),
         NEW bp \in B, bp \notin F, bp \notin Fixed, NEW n \in Nat, n # 0,
         NEW r, r = mm_realloc(HeapOf(m, k, l), bp - 8, n), r.h.alive
  PROVE  \/ r.p = Null /\ r.h = HeapOf(m, k, l)
         \/ \E mm, kk, BB, SS, FF : Gives(m, k, l, B, S, F, {bp}, n, r, mm, kk, BB, SS, FF)
<1>1. /\ State(m, k, B, S, F, F, {}) /\ Tiles(k, B, S)
      /\ bp \in Nat /\ S[bp] \in Nat /\ S[bp] >= 16 /\ S[bp] % 8 = 0 /\ k \in Nat
      /\ bp + S[bp] \in B \cup {k + 8}
      /\ \A b \in B : S[b] \in Nat /\ S[b] >= 16
  BY Basics DEF Settled, State, Tiles
<1>2. PICK h : h = HeapOf(m, k, l)
  OBVIOUS
<1>3. h.mem = m /\ h.brk = k /\ h.alive = l /\ \A z : [h EXCEPT !.mem = z] = HeapOf(z, k, l)
  BY <1>2, HeapFields
<1>4. PICK ptr : ptr = bp - 8
  OBVIOUS
<1>5. ptr + 8 = bp /\ ptr # Null
  BY <1>1, <1>4, FixedFirst, Basics DEF Null
<1>6. PICK s : s = S[bp]
  OBVIOUS
<1>7. PICK nxt : nxt = bp + s
  OBVIOUS
<1>8. Size(m, bp) = s /\ NEXT_BLKP(m, bp) = nxt
  BY <1>1, <1>6, <1>7, Reads
<1>9. PICK d : d = ALIGN(n - (s - 8))
  OBVIOUS
<1>10. PICK new : new = mm_malloc(h, n)
  OBVIOUS
<1>11. CASE n =< s - 8
  <2>1. r = [h |-> h, p |-> ptr]
    BY <1>2, <1>3, <1>4, <1>5, <1>8, <1>11 DEF mm_realloc
  <2>2. r.h = HeapOf(m, k, l) /\ r.p = bp - 8 /\ S[bp] >= n + 8
    BY <1>1, <1>2, <1>4, <1>6, <1>11, <2>1
  <2>3. Kept(m, m, B \ (F \cup Fixed), S)
    BY DEF Kept
  <2>4. Gives(m, k, l, B, S, F, {bp}, n, r, m, k, B, S, F)
    BY <2>2, <2>3, GivesInPlace
  <2> QED BY <2>4
<1>12. CASE ~ n =< s - 8 /\ Size(m, nxt) = 0
  <2>1. nxt = k + 8
    BY <1>1, <1>6, <1>7, <1>12, Reads
  <2>2. r = IF ~ CanGrow(h, d) THEN [h |-> h, p |-> Null]
            ELSE [h |-> [h EXCEPT !.mem = [Tag(m, bp, s + d, 1) EXCEPT ![HDRP(bp) + s + d] = PACK(0, 1)],
                                  !.brk = k + d],
                  p |-> ptr]
    BY <1>2, <1>3, <1>4, <1>5, <1>8, <1>9, <1>12 DEF mm_realloc
  <2>3. CASE ~ CanGrow(h, d)
    BY <1>2, <2>2, <2>3
  <2>4. CASE CanGrow(h, d)
    <3>1. d \in Nat /\ d % 8 = 0 /\ d >= n - (s - 8)
      <4>1. PICK g : g = n - (s - 8)
        OBVIOUS
      <4>2. g \in Nat
        BY <1>1, <1>6, <1>12, <4>1
      <4> QED BY <1>9, <4>1, <4>2, AlignIs
    <3>2. PICK w : w = k + d
      OBVIOUS
    <3>3. PICK m1 : m1 = Tag(m, bp, S[bp] + d, 1)
      OBVIOUS
    <3>4. PICK z : z = [m1 EXCEPT ![w - 4] = 1]
      OBVIOUS
    <3>5. r.p = bp - 8 /\ r.h = Moved(h, z, w)
      <4>1. HDRP(bp) + s + d = w - 4 /\ PACK(0, 1) = 1
        BY <1>1, <1>6, <1>7, <2>1, <3>1, <3>2 DEF HDRP, PACK
      <4>2. z = [Tag(m, bp, s + d, 1) EXCEPT ![HDRP(bp) + s + d] = PACK(0, 1)]
        BY <1>6, <3>3, <3>4, <4>1
      <4> QED BY <1>4, <2>2, <2>4, <3>2, <4>2 DEF Moved
    <3>6. r.h = HeapOf([m1 EXCEPT ![w - 4] = 1], w, l)
      BY <1>2, <3>4, <3>5, HeapMoved
    <3>7. k + d =< MaxHeap /\ S[bp] + d >= n + 8 /\ bp + S[bp] = k + 8
      BY <1>1, <1>3, <1>6, <1>7, <2>1, <2>4, <3>1 DEF CanGrow
    <3>8. \E mm, kk, BB, SS, FF : Gives(m, k, l, B, S, F, {bp}, n, r, mm, kk, BB, SS, FF)
      BY <3>1, <3>2, <3>3, <3>5, <3>6, <3>7, ReallocLast
    <3> QED BY <3>8
  <2> QED BY <2>3, <2>4
<1>13. CASE ~ n =< s - 8 /\ Size(m, nxt) # 0 /\ GET_ALLOC(m, HDRP(nxt)) = 0 /\ Size(m, nxt) + (s - 8) >= n
  <2>1. nxt \in F /\ Size(m, nxt) = S[nxt]
    <3>1. k + 8 \notin {}
      OBVIOUS
    <3>2. nxt # k + 8
      BY <1>1, <1>13, <3>1, ReadsEnd
    <3>3. nxt \in B
      BY <1>1, <1>6, <1>7, <3>2
    <3> QED BY <1>1, <1>13, <3>3, Reads DEF Alloc
  <2>2. r = [h |-> [h EXCEPT !.mem = Tag(heap_remove(m, nxt), bp, s + Size(m, nxt), 1)], p |-> ptr]
    BY <1>2, <1>3, <1>4, <1>5, <1>8, <1>13 DEF mm_realloc
  <2>3. r.p = bp - 8 /\ r.h = HeapOf(Tag(heap_remove(m, nxt), bp, S[bp] + S[nxt], 1), k, l)
    <3>1. PICK z : z = Tag(heap_remove(m, nxt), bp, s + Size(m, nxt), 1)
      OBVIOUS
    <3> QED BY <1>3, <1>4, <1>6, <2>1, <2>2, <3>1
  <2>4. S[bp] + S[nxt] >= n + 8 /\ nxt = bp + S[bp]
    <3>1. S[nxt] \in Nat
      BY <1>1, <2>1 DEF State
    <3> QED BY <1>1, <1>6, <1>7, <1>13, <2>1, <3>1
  <2>5. \E mm, kk, BB, SS, FF : Gives(m, k, l, B, S, F, {bp}, n, r, mm, kk, BB, SS, FF)
    BY <2>1, <2>3, <2>4, ReallocSwallows
  <2> QED BY <2>5
<1>14. CASE /\ ~ n =< s - 8 /\ Size(m, nxt) # 0
            /\ ~ (GET_ALLOC(m, HDRP(nxt)) = 0 /\ Size(m, nxt) + (s - 8) >= n)
  <2>1. r = IF new.p = Null \/ ~ new.h.alive THEN new
            ELSE [h |-> mm_free([new.h EXCEPT !.mem = memcpy(new.h.mem, new.p, ptr, s - 8)], ptr), p |-> new.p]
    BY <1>2, <1>3, <1>4, <1>5, <1>8, <1>10, <1>14 DEF mm_realloc
  <2>2. new.h.alive
    BY <2>1
  <2>3. \/ new.p = Null /\ new.h = h
        \/ \E mm, kk, BB, SS, FF : Gives(m, k, l, B, S, F, {}, n, new, mm, kk, BB, SS, FF)
    BY <1>2, <1>10, <2>2, DoMalloc
  <2>4. CASE new.p = Null
    <3>1. new.h = h
      BY <2>3, <2>4 DEF Gives
    <3> QED BY <1>2, <2>1, <2>4, <3>1
  <2>5. CASE new.p # Null
    <3>1. PICK m1, k1, B1, S1, F1 : Gives(m, k, l, B, S, F, {}, n, new, m1, k1, B1, S1, F1)
      BY <2>3, <2>5
    <3>2. new.h = HeapOf(m1, k1, l)
      BY <3>1 DEF Gives, Becomes
    <3>3. PICK m2 : m2 = memcpy(m1, new.p, bp - 8, S[bp] - 8)
      OBVIOUS
    <3>4. new.h.mem = m1 /\ [new.h EXCEPT !.mem = m2] = HeapOf(m2, k1, l)
      BY <3>2, HeapFields
    <3>5. r.p = new.p /\ r.h = mm_free(HeapOf(m2, k1, l), bp - 8)
      BY <1>4, <1>6, <2>1, <2>2, <2>5, <3>3, <3>4
    <3>6. n > S[bp] - 8
      BY <1>1, <1>6, <1>14
    <3>7. \E mm, kk, BB, SS, FF : Gives(m, k, l, B, S, F, {bp}, n, r, mm, kk, BB, SS, FF)
      BY <3>1, <3>3, <3>5, <3>6, ReallocMoves
    <3> QED BY <3>7
  <2> QED BY <2>4, <2>5
<1> QED BY <1>11, <1>12, <1>13, <1>14

-----------------------------------------------------------------------------
(* The caller                                                              *)

\* Sizes are natural numbers.
LEMMA RequestNat == ASSUME NEW n \in Requests \cup {0} PROVE n \in Nat
BY HeapAssumption

\* The words of n bytes fit into a block that has room for n bytes.
LEMMA WordsFit ==
  ASSUME NEW n \in Nat
  PROVE  /\ WordsFor(n) \in Nat /\ WordsFor(0) = 0
         /\ \A s \in Nat : s % 8 = 0 /\ s >= n + 8 => 4 * WordsFor(n) =< s - 8
<1>1. PICK q : q = (n + 3) \div 4
  OBVIOUS
<1>2. q \in Nat /\ 4 * q =< n + 3
  BY <1>1
<1>3. ASSUME NEW s \in Nat, s % 8 = 0, s >= n + 8 PROVE 4 * q =< s - 8
  <2>1. PICK t : t = s \div 8
    OBVIOUS
  <2>2. t \in Nat /\ s = 8 * t
    BY <1>3, <2>1
  <2> QED BY <1>2, <1>3, <2>2
<1>4. (0 + 3) \div 4 = 0
  OBVIOUS
<1> QED BY <1>1, <1>2, <1>3, <1>4 DEF WordsFor

\* Fill has written the number id to the first n bytes of block x.
FilledIn(mm, kk, BB, SS, FF, x, id, from, n, z) ==
  /\ z = Fill(mm, id, x - 8, from, n)
  /\ Settled(z, kk, BB, SS, FF) /\ Kept(mm, z, (BB \ (FF \cup Fixed)) \ {x}, SS)
  /\ \A j \in Nat : j % 4 = 0 /\ j < 4 * WordsFor(n) => z[x - 8 + j] = id

\* Filling a block writes inside it only, and all of what was asked for.
LEMMA DoFill ==
  ASSUME NEW mm, NEW kk, NEW BB, NEW SS, NEW FF, Settled(mm, kk, BB, SS, FF),
         NEW x \in BB, x \notin FF, x \notin Fixed, NEW n \in Nat, SS[x] >= n + 8,
         NEW id \in Nat, NEW from \in Nat,
         \A j \in Nat : j % 4 = 0 /\ j < 4 * WordsFor(from) /\ j < SS[x] - 8 => mm[x - 8 + j] = id
  PROVE  \E z : FilledIn(mm, kk, BB, SS, FF, x, id, from, n, z)
<1>1. PICK z : z = Fill(mm, id, x - 8, from, n)
  OBVIOUS
<1>2. PICK lo : lo = x - 8 + 4 * WordsFor(from)
  OBVIOUS
<1>3. PICK hi : hi = x - 8 + 4 * WordsFor(n) - 1
  OBVIOUS
<1>4. z = [a \in Words |-> IF a \in lo .. hi THEN id ELSE mm[a]]
  BY <1>1, <1>2, <1>3 DEF Fill
<1>5. /\ mm \in [Words -> Nat] /\ Words \subseteq Int /\ Tiles(kk, BB, SS)
      /\ x \in Nat /\ SS[x] \in Nat /\ SS[x] % 8 = 0 /\ x % 8 = 0
  BY Basics DEF Settled, State, Tagged, Tiles, Words
<1>6. WordsFor(n) \in Nat /\ WordsFor(from) \in Nat /\ 4 * WordsFor(n) =< SS[x] - 8
  BY <1>5, WordsFit
<1>7. lo \in Int /\ hi \in Int /\ x - 8 =< lo /\ hi < x + SS[x] - 16
  BY <1>2, <1>3, <1>5, <1>6
<1>8. z \in [Words -> Nat]
  BY <1>4, <1>5
<1>9. \A a \in Words : ~ (x - 8 =< a /\ a < x + SS[x] - 16) => z[a] = mm[a]
  BY <1>4, <1>5, <1>7
<1>10. Settled(z, kk, BB, SS, FF) /\ Kept(mm, z, (BB \ (FF \cup Fixed)) \ {x}, SS)
  BY <1>8, <1>9, PayloadOnly
<1>11. ASSUME NEW j \in Nat, j % 4 = 0, j < 4 * WordsFor(n)
       PROVE  z[x - 8 + j] = id
  <2>1. PICK a : a = x - 8 + j
    OBVIOUS
  <2>2. j < SS[x] - 8
    BY <1>5, <1>6, <1>11
  <2>3. a \in Words
    BY <1>5, <1>11, <2>1, <2>2, PayloadWords
  <2>4. CASE j < 4 * WordsFor(from)
    <3>1. mm[a] = id
      BY <1>11, <2>1, <2>2, <2>4
    <3> QED BY <1>4, <2>1, <2>3, <3>1
  <2>5. CASE ~ j < 4 * WordsFor(from)
    <3>1. a \in lo .. hi
      BY <1>2, <1>3, <1>5, <1>6, <1>11, <2>1, <2>5
    <3> QED BY <1>4, <2>1, <2>3, <3>1
  <2> QED BY <2>4, <2>5
<1> QED BY <1>1, <1>10, <1>11 DEF FilledIn

\* Those who have a block.
LiveOf(bl) == {id \in Ids : bl[id] # Null}

\* The allocated blocks are those mm_init made and one for each of the
\* caller's pointers, which is large enough and holds what the caller wrote.
Owned(B, S, F, m, bl, sz) ==
  /\ bl \in [Ids -> Nat] /\ sz \in [Ids -> Requests \cup {0}]
  /\ B \ F = Fixed \cup {bl[id] + 8 : id \in LiveOf(bl)}
  /\ \A id \in LiveOf(bl) :
       /\ bl[id] + 8 \notin Fixed /\ sz[id] + 8 =< S[bl[id] + 8]
       /\ \A j \in Nat : j % 4 = 0 /\ j < 4 * WordsFor(sz[id]) => m[bl[id] + j] = id
       /\ \A o \in LiveOf(bl) \ {id} : bl[id] # bl[o]
  /\ \A id \in Ids : bl[id] = Null => sz[id] = 0

\* The block of a pointer.
BlockOf(p) == IF p = Null THEN {} ELSE {p + 8}

\* The blocks stay owned when one is given up, or a new one is given for it.
LEMMA OwnedKeeps ==
  ASSUME NEW m, NEW k, NEW l, NEW B, NEW S, NEW F, Settled(m, k, B, S, F),
         NEW bl, NEW sz, Owned(B, S, F, m, bl, sz), NEW id \in Ids,
         NEW p \in Nat, NEW n \in Requests \cup {0}, p = Null => n = 0,
         NEW h, NEW mm, NEW kk, NEW BB, NEW SS, NEW FF,
         Becomes(m, l, B, S, F, BlockOf(bl[id]), BlockOf(p), h, mm, kk, BB, SS, FF),
         NEW z, Kept(mm, z, (BB \ (FF \cup Fixed)) \ BlockOf(p), SS),
         p # Null => /\ SS[p + 8] >= n + 8
                     /\ \A j \in Nat : j % 4 = 0 /\ j < 4 * WordsFor(n) => z[p + j] = id
  PROVE  Owned(BB, SS, FF, z, [bl EXCEPT ![id] = p], [sz EXCEPT ![id] = n])
<1>1. PICK b2 : b2 = [bl EXCEPT ![id] = p]
  OBVIOUS
<1>2. PICK s2 : s2 = [sz EXCEPT ![id] = n]
  OBVIOUS
<1>3. bl \in [Ids -> Nat] /\ sz \in [Ids -> Requests \cup {0}]
  BY DEF Owned
<1>4. /\ b2 \in [Ids -> Nat] /\ s2 \in [Ids -> Requests \cup {0}]
      /\ b2[id] = p /\ s2[id] = n /\ \A o \in Ids \ {id} : b2[o] = bl[o] /\ s2[o] = sz[o]
  BY <1>1, <1>2, <1>3
<1>5. PICK old : old = BlockOf(bl[id])
  OBVIOUS
<1>6. PICK new : new = BlockOf(p)
  OBVIOUS
<1>7. PICK T : T = (B \ F) \ old
  OBVIOUS
<1>8. /\ BB \ FF = T \cup new /\ new \cap T = {} /\ \A b \in T : SS[b] = S[b]
      /\ Kept(m, mm, (B \ (F \cup Fixed)) \ old, S)
      /\ Kept(mm, z, (BB \ (FF \cup Fixed)) \ new, SS)
  BY <1>5, <1>6, <1>7 DEF Becomes
<1>9. ASSUME NEW o \in LiveOf(bl) \ {id}
      PROVE  bl[o] \in Nat /\ bl[o] + 8 \in T /\ bl[o] + 8 \notin Fixed /\ bl[o] # p
  <2>1. bl[o] \in Nat /\ bl[id] \in Nat /\ bl[o] + 8 \in B \ F /\ bl[o] + 8 \notin Fixed
    BY <1>3 DEF Owned, LiveOf
  <2>2. bl[id] # Null => bl[id] # bl[o]
    BY DEF Owned, LiveOf
  <2>3. bl[o] + 8 \in T
    BY <1>5, <1>7, <2>1, <2>2 DEF BlockOf
  <2>4. bl[o] # p
    <3>1. bl[o] # Null
      BY DEF LiveOf
    <3>2. SUFFICES ASSUME bl[o] = p PROVE FALSE
      OBVIOUS
    <3>3. bl[o] + 8 \in new
      BY <1>6, <3>1, <3>2 DEF BlockOf
    <3> QED BY <1>8, <2>3, <3>3
  <2> QED BY <2>1, <2>3, <2>4
<1>10. Fixed \subseteq T
  <2>1. Fixed \subseteq B \ F
    BY DEF Owned
  <2>2. old \cap Fixed = {}
    BY <1>5 DEF Owned, LiveOf, BlockOf
  <2> QED BY <1>7, <2>1, <2>2
<1>11. T = Fixed \cup {bl[o] + 8 : o \in LiveOf(bl) \ {id}}
  <2>1. B \ F = Fixed \cup {bl[o] + 8 : o \in LiveOf(bl)}
    BY DEF Owned
  <2>2. ASSUME NEW t \in T PROVE t \in Fixed \cup {bl[o] + 8 : o \in LiveOf(bl) \ {id}}
    <3>1. t \in B \ F /\ t \notin old
      BY <1>7, <2>2
    <3>2. CASE t \in Fixed
      BY <3>2
    <3>3. CASE t \notin Fixed
      <4>1. PICK o \in LiveOf(bl) : t = bl[o] + 8
        BY <2>1, <3>1, <3>3
      <4>2. o # id
        BY <1>5, <3>1, <4>1 DEF LiveOf, BlockOf
      <4> QED BY <4>1, <4>2
    <3> QED BY <3>2, <3>3
  <2> QED BY <1>9, <1>10, <2>2
<1>12. LiveOf(b2) = (LiveOf(bl) \ {id}) \cup (IF p = Null THEN {} ELSE {id})
  BY <1>4 DEF LiveOf
<1>13. BB \ FF = Fixed \cup {b2[o] + 8 : o \in LiveOf(b2)}
  <2>1. \A o \in LiveOf(bl) \ {id} : b2[o] = bl[o]
    BY <1>4 DEF LiveOf
  <2>2. {b2[o] + 8 : o \in LiveOf(b2)} = {bl[o] + 8 : o \in LiveOf(bl) \ {id}} \cup new
    <3>1. CASE p = Null
      BY <1>6, <1>12, <2>1, <3>1 DEF BlockOf
    <3>2. CASE p # Null
      <4>1. new = {p + 8} /\ LiveOf(b2) = (LiveOf(bl) \ {id}) \cup {id} /\ b2[id] = p
        BY <1>4, <1>6, <1>12, <3>2 DEF BlockOf
      <4> QED BY <2>1, <4>1
    <3> QED BY <3>1, <3>2
  <2> QED BY <1>8, <1>11, <2>2
<1>14. Tiles(k, B, S) /\ Tiles(kk, BB, SS)
  BY DEF Becomes, Settled, State
<1>15. ASSUME NEW o \in LiveOf(bl) \ {id}
       PROVE  /\ b2[o] = bl[o] /\ s2[o] = sz[o]
              /\ b2[o] + 8 \notin Fixed /\ s2[o] + 8 =< SS[b2[o] + 8]
              /\ \A j \in Nat : j % 4 = 0 /\ j < 4 * WordsFor(s2[o]) => z[b2[o] + j] = o
  <2>1. b2[o] = bl[o] /\ s2[o] = sz[o]
    BY <1>4 DEF LiveOf
  <2>2. PICK b : b = bl[o] + 8
    OBVIOUS
  <2>3. /\ b \in T /\ b \in B /\ b \in BB /\ b \in (B \ (F \cup Fixed)) \ old
        /\ b \in (BB \ (FF \cup Fixed)) \ new /\ SS[b] = S[b] /\ b - 8 = bl[o]
    BY <1>7, <1>8, <1>9, <2>2
  <2>4. /\ sz[o] + 8 =< S[b]
        /\ \A j \in Nat : j % 4 = 0 /\ j < 4 * WordsFor(sz[o]) => m[bl[o] + j] = o
    BY <2>2 DEF Owned
  <2>5. 4 * WordsFor(sz[o]) =< S[b] - 8 /\ WordsFor(sz[o]) \in Nat /\ S[b] \in Nat
    <3>1. sz[o] \in Nat /\ S[b] \in Nat /\ S[b] % 8 = 0
      <4>1. o \in Ids
        BY DEF LiveOf
      <4>2. sz[o] \in Requests \cup {0} /\ Requests \subseteq Nat
        BY <1>3, <4>1, HeapAssumption
      <4>3. S[b] \in Nat /\ S[b] % 8 = 0
        BY <1>14, <2>3 DEF Tiles
      <4>4. sz[o] \in Nat
        BY <4>2, RequestNat
      <4> QED BY <4>3, <4>4
    <3> QED BY <2>4, <3>1, WordsFit
  <2>6. ASSUME NEW j \in Nat, j % 4 = 0, j < 4 * WordsFor(sz[o]) PROVE z[bl[o] + j] = o
    <3>1. j < S[b] - 8
      BY <2>5, <2>6
    <3>2. mm[b - 8 + j] = m[b - 8 + j]
      BY <1>8, <1>14, <2>3, <2>6, <3>1, KeptPayload
    <3>3. z[b - 8 + j] = mm[b - 8 + j]
      BY <1>8, <1>14, <2>3, <2>6, <3>1, KeptPayload
    <3> QED BY <2>3, <2>4, <2>6, <3>2, <3>3
  <2> QED BY <1>9, <2>1, <2>2, <2>3, <2>4, <2>6
<1>16. p # Null => p + 8 \notin Fixed
  <2>1. p # Null => p + 8 \in new
    BY <1>6 DEF BlockOf
  <2> QED BY <1>8, <1>10, <2>1
<1>17. ASSUME NEW o \in LiveOf(b2)
       PROVE  /\ b2[o] + 8 \notin Fixed /\ s2[o] + 8 =< SS[b2[o] + 8]
              /\ \A j \in Nat : j % 4 = 0 /\ j < 4 * WordsFor(s2[o]) => z[b2[o] + j] = o
              /\ \A q \in LiveOf(b2) \ {o} : b2[o] # b2[q]
  <2>1. CASE o = id
    <3>1. p # Null /\ \A q \in LiveOf(b2) \ {o} : q \in LiveOf(bl) \ {id}
      BY <1>12, <2>1
    <3>2. \A q \in LiveOf(b2) \ {o} : b2[o] # b2[q]
      BY <1>4, <1>9, <1>15, <2>1, <3>1
    <3>3. n + 8 =< SS[p + 8]
      <4>1. p + 8 \in BB
        BY <1>6, <1>8, <3>1 DEF BlockOf
      <4>2. n \in Nat /\ SS[p + 8] \in Nat
        BY <1>14, <4>1, HeapAssumption DEF Tiles
      <4> QED BY <3>1, <4>2
    <3> QED BY <1>4, <1>16, <2>1, <3>1, <3>2, <3>3
  <2>2. CASE o # id
    <3>1. o \in LiveOf(bl) \ {id}
      BY <1>12, <2>2
    <3>2. \A q \in LiveOf(b2) \ {o} : b2[o] # b2[q]
      <4> SUFFICES ASSUME NEW q \in LiveOf(b2) \ {o} PROVE b2[o] # b2[q]
        OBVIOUS
      <4>1. CASE q = id
        BY <1>4, <1>9, <1>15, <3>1, <4>1
      <4>2. CASE q # id
        <5>1. q \in LiveOf(bl) \ {id}
          BY <1>12, <4>2
        <5> QED BY <1>15, <3>1, <5>1 DEF Owned
      <4> QED BY <4>1, <4>2
    <3> QED BY <1>15, <3>1, <3>2
  <2> QED BY <2>1, <2>2
<1>18. \A o \in Ids : b2[o] = Null => s2[o] = 0
  BY <1>4 DEF Owned
<1>19. Owned(BB, SS, FF, z, b2, s2)
  BY <1>4, <1>13, <1>17, <1>18 DEF Owned
<1> QED BY <1>1, <1>2, <1>19

-----------------------------------------------------------------------------
(* The inductive invariant                                                 *)

\* The inductive invariant: there are blocks that tile the heap, the free ones
\* are in the lists and apart, and the others are owned.
HeapInv ==
  /\ alive \in BOOLEAN
  /\ \E B, S, F : Settled(mem, brk, B, S, F) /\ Owned(B, S, F, mem, blocks, sizes)

\* The caller has got a block of n bytes for id, which may have had one.
Got(B, S, F, id, n) ==
  \E r, mm, BB, SS, FF :
    /\ Gives(mem, brk, alive, B, S, F, BlockOf(blocks[id]), n, r, mm, brk', BB, SS, FF)
    /\ mem' = Fill(mm, id, r.p, sizes[id], n)
    /\ blocks' = [blocks EXCEPT ![id] = r.p] /\ sizes' = [sizes EXCEPT ![id] = n]

\* The caller has given up the block of id.
Gone(B, S, F, id) ==
  /\ \E h, BB, SS, FF : Becomes(mem, alive, B, S, F, BlockOf(blocks[id]), {}, h, mem', brk', BB, SS, FF)
  /\ blocks[id] # Null /\ brk' = brk
  /\ blocks' = [blocks EXCEPT ![id] = Null] /\ sizes' = [sizes EXCEPT ![id] = 0]

\* Nothing is written to an empty block.
LEMMA FillNothing ==
  ASSUME NEW m \in [Words -> Nat], NEW id, NEW from \in Nat
  PROVE  Fill(m, id, Null, from, 0) = m
<1>1. PICK lo : lo = Null + 4 * WordsFor(from)
  OBVIOUS
<1>2. PICK hi : hi = Null + 4 * WordsFor(0) - 1
  OBVIOUS
<1>3. lo \in Nat /\ hi = -1
  BY <1>1, <1>2, WordsFit DEF Null
<1>4. Fill(m, id, Null, from, 0) = [a \in Words |-> IF a \in lo .. hi THEN id ELSE m[a]]
  BY <1>1, <1>2 DEF Fill
<1>5. lo .. hi = {}
  BY <1>3
<1>6. m = [a \in Words |-> m[a]]
  OBVIOUS
<1> QED BY <1>4, <1>5, <1>6

\* mm_malloc for the caller.
LEMMA MallocStep ==
  ASSUME NEW B, NEW S, NEW F, Settled(mem, brk, B, S, F), Owned(B, S, F, mem, blocks, sizes),
         NEW id \in Ids, blocks[id] = Null, NEW n \in Requests,
         NEW r, r = mm_malloc(Heap, n), Returned(id, n, r)
  PROVE  UNCHANGED <<mem, brk, blocks, sizes>> \/ (n # 0 /\ Got(B, S, F, id, n))
<1>1. Heap = HeapOf(mem, brk, alive)
  BY DEF Heap, HeapOf
<1>2. n \in Nat /\ mem \in [Words -> Nat] /\ blocks \in [Ids -> Nat] /\ sizes \in [Ids -> Requests \cup {0}]
      /\ sizes[id] = 0
  <2>1. n \in Nat
    BY RequestNat
  <2> QED BY <2>1 DEF Settled, State, Tagged, Owned
<1>3. r.h.alive
  BY DEF Returned
<1>4. \/ r.p = Null /\ r.h = HeapOf(mem, brk, alive)
      \/ n # 0 /\ \E mm, kk, BB, SS, FF : Gives(mem, brk, alive, B, S, F, {}, n, r, mm, kk, BB, SS, FF)
  BY <1>1, <1>2, <1>3, DoMalloc
<1>5. CASE r.p = Null /\ r.h = HeapOf(mem, brk, alive)
  <2>1. r.h.mem = mem /\ r.h.brk = brk
    BY <1>5, HeapFields
  <2>2. CASE n # 0
    BY <1>5, <2>1, <2>2 DEF Returned
  <2>3. CASE n = 0
    <3>1. /\ mem' = Fill(mem, id, Null, sizes[id], 0) /\ brk' = brk
          /\ blocks' = [blocks EXCEPT ![id] = Null] /\ sizes' = [sizes EXCEPT ![id] = 0]
      BY <1>5, <2>1, <2>3 DEF Returned
    <3>2. mem' = mem
      BY <1>2, <3>1, FillNothing
    <3>3. blocks' = blocks /\ sizes' = sizes
      BY <1>2, <3>1
    <3> QED BY <3>1, <3>2, <3>3
  <2> QED BY <2>2, <2>3
<1>6. CASE n # 0 /\ \E mm, kk, BB, SS, FF : Gives(mem, brk, alive, B, S, F, {}, n, r, mm, kk, BB, SS, FF)
  <2>1. PICK mm, kk, BB, SS, FF : Gives(mem, brk, alive, B, S, F, {}, n, r, mm, kk, BB, SS, FF)
    BY <1>6
  <2>2. r.p # Null /\ r.h = HeapOf(mm, kk, alive)
    BY <2>1 DEF Gives, Becomes
  <2>3. r.h.mem = mm /\ r.h.brk = kk
    BY <2>2, HeapFields
  <2>4. /\ mem' = Fill(mm, id, r.p, sizes[id], n) /\ brk' = kk
        /\ blocks' = [blocks EXCEPT ![id] = r.p] /\ sizes' = [sizes EXCEPT ![id] = n]
    BY <2>2, <2>3 DEF Returned
  <2>5. BlockOf(blocks[id]) = {}
    BY DEF BlockOf
  <2> QED BY <1>6, <2>1, <2>4, <2>5 DEF Got
<1> QED BY <1>4, <1>5, <1>6

\* The block of one of the caller's pointers is allocated.
LEMMA LiveBlock ==
  ASSUME NEW B, NEW S, NEW F, NEW m, NEW bl, NEW sz, Owned(B, S, F, m, bl, sz), NEW id \in Ids, bl[id] # Null
  PROVE  bl[id] \in Nat /\ bl[id] + 8 \in B /\ bl[id] + 8 \notin F /\ bl[id] + 8 \notin Fixed /\ id \in LiveOf(bl)
<1>1. id \in LiveOf(bl) /\ bl[id] \in Nat
  BY DEF LiveOf, Owned
<1>2. bl[id] + 8 \in B \ F /\ bl[id] + 8 \notin Fixed
  BY <1>1 DEF Owned
<1> QED BY <1>1, <1>2

\* mm_free for the caller.
LEMMA FreeStep ==
  ASSUME NEW B, NEW S, NEW F, Settled(mem, brk, B, S, F), Owned(B, S, F, mem, blocks, sizes),
         NEW id \in Ids, blocks[id] # Null,
         NEW r, r = [h |-> mm_free(Heap, blocks[id]), p |-> Null], Returned(id, 0, r)
  PROVE  Gone(B, S, F, id)
<1>1. Heap = HeapOf(mem, brk, alive)
  BY DEF Heap, HeapOf
<1>2. PICK bp : bp = blocks[id] + 8
  OBVIOUS
<1>3. blocks[id] \in Nat /\ bp \in B /\ bp \notin F /\ bp \notin Fixed
  BY <1>2, LiveBlock
<1>4. r.h = Freed(mem, brk, alive, bp)
  <2>1. bp - 8 = blocks[id]
    BY <1>2, <1>3
  <2> QED BY <1>1, <2>1 DEF Freed
<1>5. r.h.alive /\ r.p = Null
  BY DEF Returned
<1>6. PICK mm, BB, SS, FF : Becomes(mem, alive, B, S, F, {bp}, {}, r.h, mm, brk, BB, SS, FF)
  <2>1. Freed(mem, brk, alive, bp).alive
    BY <1>4, <1>5
  <2>2. \E mm, BB, SS, FF : Becomes(mem, alive, B, S, F, {bp}, {}, Freed(mem, brk, alive, bp), mm, brk, BB, SS, FF)
    BY <1>3, <2>1, DoFree
  <2> QED BY <1>4, <2>2
<1>7. r.h.mem = mm /\ r.h.brk = brk /\ mm \in [Words -> Nat] /\ sizes[id] \in Nat
  <2>1. r.h = HeapOf(mm, brk, alive) /\ mm \in [Words -> Nat]
    BY <1>6 DEF Becomes, Settled, State, Tagged
  <2>2. sizes[id] \in Requests \cup {0}
    BY DEF Owned
  <2> QED BY <2>1, <2>2, HeapFields, RequestNat
<1>8. mem' = mm /\ brk' = brk /\ blocks' = [blocks EXCEPT ![id] = Null] /\ sizes' = [sizes EXCEPT ![id] = 0]
  <2>1. /\ mem' = Fill(mm, id, Null, sizes[id], 0) /\ brk' = brk
        /\ blocks' = [blocks EXCEPT ![id] = Null] /\ sizes' = [sizes EXCEPT ![id] = 0]
    BY <1>5, <1>7 DEF Returned
  <2> QED BY <1>7, <2>1, FillNothing
<1>9. BlockOf(blocks[id]) = {bp}
  BY <1>2 DEF BlockOf
<1>10. Becomes(mem, alive, B, S, F, BlockOf(blocks[id]), {}, r.h, mem', brk', BB, SS, FF)
  BY <1>6, <1>8, <1>9
<1> QED BY <1>8, <1>10 DEF Gone

\* mm_realloc for the caller.
LEMMA ReallocStep ==
  ASSUME NEW B, NEW S, NEW F, Settled(mem, brk, B, S, F), Owned(B, S, F, mem, blocks, sizes),
         NEW id \in Ids, NEW n \in Requests,
         NEW r, r = mm_realloc(Heap, blocks[id], n), Returned(id, n, r)
  PROVE  UNCHANGED <<mem, brk, blocks, sizes>> \/ (n # 0 /\ Got(B, S, F, id, n)) \/ Gone(B, S, F, id)
<1>1. Heap = HeapOf(mem, brk, alive)
  BY DEF Heap, HeapOf
<1>2. n \in Nat
  BY RequestNat
<1>3. CASE blocks[id] = Null
  <2>1. r = mm_malloc(Heap, n)
    BY <1>3 DEF mm_realloc
  <2> QED BY <1>3, <2>1, MallocStep
<1>4. CASE blocks[id] # Null /\ n = 0
  <2>1. r = [h |-> mm_free(Heap, blocks[id]), p |-> Null]
    BY <1>4 DEF mm_realloc
  <2> QED BY <1>4, <2>1, FreeStep
<1>5. CASE blocks[id] # Null /\ n # 0
  <2>1. PICK bp : bp = blocks[id] + 8
    OBVIOUS
  <2>2. blocks[id] \in Nat /\ bp \in B /\ bp \notin F /\ bp \notin Fixed /\ blocks[id] = bp - 8
    BY <1>5, <2>1, LiveBlock
  <2>3. r = mm_realloc(HeapOf(mem, brk, alive), bp - 8, n) /\ r.h.alive
    BY <1>1, <2>2 DEF Returned
  <2>4. \/ r.p = Null /\ r.h = HeapOf(mem, brk, alive)
        \/ \E mm, kk, BB, SS, FF : Gives(mem, brk, alive, B, S, F, {bp}, n, r, mm, kk, BB, SS, FF)
    BY <1>2, <1>5, <2>2, <2>3, DoRealloc
  <2>5. CASE r.p = Null /\ r.h = HeapOf(mem, brk, alive)
    <3>1. r.h.mem = mem /\ r.h.brk = brk
      BY <2>5, HeapFields
    <3> QED BY <1>5, <2>5, <3>1 DEF Returned
  <2>6. CASE \E mm, kk, BB, SS, FF : Gives(mem, brk, alive, B, S, F, {bp}, n, r, mm, kk, BB, SS, FF)
    <3>1. PICK mm, kk, BB, SS, FF : Gives(mem, brk, alive, B, S, F, {bp}, n, r, mm, kk, BB, SS, FF)
      BY <2>6
    <3>2. r.p # Null /\ r.h = HeapOf(mm, kk, alive)
      BY <3>1 DEF Gives, Becomes
    <3>3. r.h.mem = mm /\ r.h.brk = kk
      BY <3>2, HeapFields
    <3>4. /\ mem' = Fill(mm, id, r.p, sizes[id], n) /\ brk' = kk
          /\ blocks' = [blocks EXCEPT ![id] = r.p] /\ sizes' = [sizes EXCEPT ![id] = n]
      BY <3>2, <3>3 DEF Returned
    <3>5. BlockOf(blocks[id]) = {bp}
      BY <1>5, <2>1 DEF BlockOf
    <3> QED BY <1>5, <3>1, <3>4, <3>5 DEF Got
  <2> QED BY <2>4, <2>5, <2>6
<1> QED BY <1>3, <1>4, <1>5

\* What a step does to the blocks.
LEMMA StepIs ==
  ASSUME NEW B, NEW S, NEW F, Settled(mem, brk, B, S, F), Owned(B, S, F, mem, blocks, sizes), [Next]_vars
  PROVE  \/ UNCHANGED <<mem, brk, blocks, sizes>>
         \/ \E id \in Ids : Gone(B, S, F, id)
         \/ \E id \in Ids, n \in Requests \ {0} : Got(B, S, F, id, n)
<1>1. CASE UNCHANGED vars
  BY <1>1 DEF vars
<1>2. ASSUME NEW id \in Ids, Free(id)
      PROVE  UNCHANGED <<mem, brk, blocks, sizes>> \/ Gone(B, S, F, id)
  <2>1. PICK r : r = [h |-> mm_free(Heap, blocks[id]), p |-> Null]
    OBVIOUS
  <2>2. blocks[id] # Null /\ (Returned(id, 0, r) \/ Wild(r))
    BY <1>2, <2>1 DEF Free
  <2>3. CASE Returned(id, 0, r)
    BY <2>1, <2>2, <2>3, FreeStep
  <2>4. CASE Wild(r)
    BY <2>4 DEF Wild
  <2> QED BY <2>2, <2>3, <2>4
<1>3. ASSUME NEW id \in Ids, NEW n \in Requests, Malloc(id, n)
      PROVE  UNCHANGED <<mem, brk, blocks, sizes>> \/ (n # 0 /\ Got(B, S, F, id, n))
  <2>1. PICK r : r = mm_malloc(Heap, n)
    OBVIOUS
  <2>2. blocks[id] = Null /\ (Returned(id, n, r) \/ Wild(r))
    BY <1>3, <2>1 DEF Malloc
  <2>3. CASE Returned(id, n, r)
    BY <2>1, <2>2, <2>3, MallocStep
  <2>4. CASE Wild(r)
    BY <2>4 DEF Wild
  <2> QED BY <2>2, <2>3, <2>4
<1>4. ASSUME NEW id \in Ids, NEW n \in Requests, Realloc(id, n)
      PROVE  UNCHANGED <<mem, brk, blocks, sizes>> \/ (n # 0 /\ Got(B, S, F, id, n)) \/ Gone(B, S, F, id)
  <2>1. PICK r : r = mm_realloc(Heap, blocks[id], n)
    OBVIOUS
  <2>2. Returned(id, n, r) \/ Wild(r)
    BY <1>4, <2>1 DEF Realloc
  <2>3. CASE Returned(id, n, r)
    BY <2>1, <2>3, ReallocStep
  <2>4. CASE Wild(r)
    BY <2>4 DEF Wild
  <2> QED BY <2>2, <2>3, <2>4
<1> QED BY <1>1, <1>2, <1>3, <1>4 DEF Next

\* A block that the caller got: where it is, and that the heap is as it should be.
LEMMA GotKeeps ==
  ASSUME NEW B, NEW S, NEW F, Settled(mem, brk, B, S, F), Owned(B, S, F, mem, blocks, sizes),
         NEW id \in Ids, NEW n \in Requests \ {0}, Got(B, S, F, id, n)
  PROVE  /\ \E BB, SS, FF : Settled(mem', brk', BB, SS, FF) /\ Owned(BB, SS, FF, mem', blocks', sizes')
         /\ \E p \in Nat : p # Null /\ blocks' = [blocks EXCEPT ![id] = p] /\ sizes' = [sizes EXCEPT ![id] = n]
         /\ \A b \in F : brk' > brk /\ blocks'[id] # blocks[id] => S[b] < n + 8
<1>1. PICK r, mm, BB, SS, FF :
        /\ Gives(mem, brk, alive, B, S, F, BlockOf(blocks[id]), n, r, mm, brk', BB, SS, FF)
        /\ mem' = Fill(mm, id, r.p, sizes[id], n)
        /\ blocks' = [blocks EXCEPT ![id] = r.p] /\ sizes' = [sizes EXCEPT ![id] = n]
  BY DEF Got
<1>2. PICK p : p = r.p
  OBVIOUS
<1>3. PICK x : x = p + 8
  OBVIOUS
<1>4. PICK old : old = BlockOf(blocks[id])
  OBVIOUS
<1>5. /\ Becomes(mem, alive, B, S, F, old, {x}, r.h, mm, brk', BB, SS, FF)
      /\ p \in Nat /\ p # Null /\ SS[x] >= n + 8 /\ p = x - 8 /\ BlockOf(p) = {x}
      /\ \A o \in old : \A j \in Nat : j % 4 = 0 /\ j < S[o] - 8 => mm[p + j] = mem[o - 8 + j]
      /\ brk' > brk /\ x \notin old => \A b \in F : S[b] < n + 8
  BY <1>1, <1>2, <1>3, <1>4 DEF Gives, BlockOf
<1>6. /\ Settled(mm, brk', BB, SS, FF) /\ Tiles(brk', BB, SS) /\ Tiles(brk, B, S)
      /\ BB \ FF = ((B \ F) \ old) \cup {x} /\ {x} \cap ((B \ F) \ old) = {}
  BY <1>5 DEF Becomes, Settled, State
<1>7. n \in Nat /\ id \in Nat /\ sizes[id] \in Nat /\ blocks \in [Ids -> Nat] /\ sizes \in [Ids -> Requests \cup {0}]
  <2>1. n \in Nat
    BY RequestNat
  <2>2. sizes[id] \in Requests \cup {0} /\ blocks \in [Ids -> Nat] /\ sizes \in [Ids -> Requests \cup {0}]
    BY DEF Owned
  <2> QED BY <2>1, <2>2, RequestNat, HeapAssumption
<1>8. x \in BB /\ x \notin FF /\ x \notin Fixed
  <2>1. Fixed \subseteq (B \ F) \ old
    <3>1. Fixed \subseteq B \ F /\ old \cap Fixed = {}
      <4>1. Fixed \subseteq B \ F
        BY DEF Owned
      <4>2. blocks[id] # Null => blocks[id] + 8 \notin Fixed
        BY LiveBlock
      <4> QED BY <1>4, <4>1, <4>2 DEF BlockOf
    <3> QED BY <3>1
  <2> QED BY <1>6, <2>1
<1>9. \A j \in Nat : j % 4 = 0 /\ j < 4 * WordsFor(sizes[id]) /\ j < SS[x] - 8 => mm[x - 8 + j] = id
  <2>1. CASE blocks[id] = Null
    <3>1. sizes[id] = 0
      BY <2>1 DEF Owned
    <3>2. WordsFor(sizes[id]) = 0
      BY <1>7, <3>1, WordsFit
    <3> QED BY <3>2
  <2>2. CASE blocks[id] # Null
    <3>1. PICK o : o = blocks[id] + 8
      OBVIOUS
    <3>2. o \in old /\ o \in B /\ o - 8 = blocks[id] /\ id \in LiveOf(blocks)
      BY <1>4, <2>2, <3>1, LiveBlock DEF BlockOf
    <3>3. /\ sizes[id] + 8 =< S[o]
          /\ \A j \in Nat : j % 4 = 0 /\ j < 4 * WordsFor(sizes[id]) => mem[blocks[id] + j] = id
      BY <3>1, <3>2 DEF Owned
    <3>4. S[o] \in Nat /\ S[o] % 8 = 0
      BY <1>6, <3>2 DEF Tiles
    <3>5. WordsFor(sizes[id]) \in Nat /\ 4 * WordsFor(sizes[id]) =< S[o] - 8
      BY <1>7, <3>3, <3>4, WordsFit
    <3> SUFFICES ASSUME NEW j \in Nat, j % 4 = 0, j < 4 * WordsFor(sizes[id]) PROVE mm[x - 8 + j] = id
      OBVIOUS
    <3>6. j < S[o] - 8
      BY <3>4, <3>5
    <3>7. mm[p + j] = mem[o - 8 + j] /\ mem[blocks[id] + j] = id
      BY <1>5, <3>2, <3>3, <3>6
    <3> QED BY <1>5, <3>2, <3>7
  <2> QED BY <2>1, <2>2
<1>10. PICK z : FilledIn(mm, brk', BB, SS, FF, x, id, sizes[id], n, z)
  <2>1. PICK kk : kk = brk'
    OBVIOUS
  <2>2. \E z : FilledIn(mm, kk, BB, SS, FF, x, id, sizes[id], n, z)
    BY <1>5, <1>6, <1>7, <1>8, <1>9, <2>1, DoFill
  <2> QED BY <2>1, <2>2
<1>11. mem' = z
  BY <1>1, <1>2, <1>5, <1>10 DEF FilledIn
<1>12. /\ Settled(z, brk', BB, SS, FF) /\ Kept(mm, z, (BB \ (FF \cup Fixed)) \ {x}, SS)
       /\ \A j \in Nat : j % 4 = 0 /\ j < 4 * WordsFor(n) => z[p + j] = id
  BY <1>5, <1>10 DEF FilledIn
<1>13. Owned(BB, SS, FF, mem', blocks', sizes')
  <2>1. PICK kk : kk = brk'
    OBVIOUS
  <2>2. Becomes(mem, alive, B, S, F, BlockOf(blocks[id]), BlockOf(p), r.h, mm, kk, BB, SS, FF)
    BY <1>4, <1>5, <2>1
  <2>3. Kept(mm, z, (BB \ (FF \cup Fixed)) \ BlockOf(p), SS)
    BY <1>5, <1>12
  <2>4. n \in Requests \cup {0} /\ p \in Nat /\ (p = Null => n = 0)
    BY <1>5
  <2>5. p # Null => /\ SS[p + 8] >= n + 8
                    /\ \A j \in Nat : j % 4 = 0 /\ j < 4 * WordsFor(n) => z[p + j] = id
    BY <1>3, <1>5, <1>12
  <2>6. Owned(BB, SS, FF, z, [blocks EXCEPT ![id] = p], [sizes EXCEPT ![id] = n])
    BY <2>2, <2>3, <2>4, <2>5, OwnedKeeps
  <2> QED BY <1>1, <1>2, <1>11, <2>6
<1>14. Settled(mem', brk', BB, SS, FF)
  BY <1>11, <1>12
<1>15. \A b \in F : brk' > brk /\ blocks'[id] # blocks[id] => S[b] < n + 8
  <2> SUFFICES ASSUME NEW b \in F, brk' > brk, blocks'[id] # blocks[id] PROVE S[b] < n + 8
    OBVIOUS
  <2>1. blocks'[id] = p
    BY <1>1, <1>2, <1>7
  <2>2. x \notin old
    BY <1>3, <1>4, <1>5, <1>7, <2>1 DEF BlockOf
  <2> QED BY <1>5, <2>2
<1>16. \E q \in Nat : q # Null /\ blocks' = [blocks EXCEPT ![id] = q] /\ sizes' = [sizes EXCEPT ![id] = n]
  BY <1>1, <1>2, <1>5
<1> QED BY <1>13, <1>14, <1>15, <1>16

\* The heap is as it should be when the caller has given up a block.
LEMMA GoneKeeps ==
  ASSUME NEW B, NEW S, NEW F, Settled(mem, brk, B, S, F), Owned(B, S, F, mem, blocks, sizes),
         NEW id \in Ids, Gone(B, S, F, id)
  PROVE  \E BB, SS, FF : Settled(mem', brk', BB, SS, FF) /\ Owned(BB, SS, FF, mem', blocks', sizes')
<1>1. PICK h, BB, SS, FF : Becomes(mem, alive, B, S, F, BlockOf(blocks[id]), {}, h, mem', brk', BB, SS, FF)
  BY DEF Gone
<1>2. blocks' = [blocks EXCEPT ![id] = Null] /\ sizes' = [sizes EXCEPT ![id] = 0]
  BY DEF Gone
<1>3. PICK p, n, mm, kk : p = Null /\ n = 0 /\ mm = mem' /\ kk = brk'
  OBVIOUS
<1>4. BlockOf(p) = {} /\ p \in Nat
  BY <1>3 DEF BlockOf, Null
<1>5. Becomes(mem, alive, B, S, F, BlockOf(blocks[id]), BlockOf(p), h, mm, kk, BB, SS, FF)
  BY <1>1, <1>3, <1>4
<1>6. Kept(mm, mm, (BB \ (FF \cup Fixed)) \ BlockOf(p), SS)
  BY DEF Kept
<1>7. Owned(BB, SS, FF, mm, [blocks EXCEPT ![id] = p], [sizes EXCEPT ![id] = n])
  <2>1. n \in Requests \cup {0} /\ (p = Null => n = 0) /\ ~ (p # Null)
    BY <1>3
  <2> QED BY <1>4, <1>5, <1>6, <2>1, OwnedKeeps
<1>8. Settled(mem', brk', BB, SS, FF)
  BY <1>1 DEF Becomes
<1> QED BY <1>2, <1>3, <1>7, <1>8

\* Every step preserves the invariant.
LEMMA HeapInvStep == HeapInv /\ [Next]_vars => HeapInv'
<1> SUFFICES ASSUME HeapInv, [Next]_vars PROVE HeapInv'
  OBVIOUS
<1>1. alive' \in BOOLEAN
  <2>1. CASE UNCHANGED vars
    BY <2>1 DEF HeapInv, vars
  <2>2. CASE Next
    BY <2>2 DEF HeapInv, Next, Free, Malloc, Realloc, Returned, Wild
  <2> QED BY <2>1, <2>2
<1>2. PICK B, S, F : Settled(mem, brk, B, S, F) /\ Owned(B, S, F, mem, blocks, sizes)
  BY DEF HeapInv
<1>3. \E BB, SS, FF : Settled(mem', brk', BB, SS, FF) /\ Owned(BB, SS, FF, mem', blocks', sizes')
  <2>1. CASE UNCHANGED <<mem, brk, blocks, sizes>>
    <3>1. mem' = mem /\ brk' = brk /\ blocks' = blocks /\ sizes' = sizes
      BY <2>1
    <3>2. Settled(mem', brk', B, S, F) /\ Owned(B, S, F, mem', blocks', sizes')
      BY <1>2, <3>1
    <3> QED BY <3>2
  <2>2. CASE \E id \in Ids : Gone(B, S, F, id)
    BY <1>2, <2>2, GoneKeeps
  <2>3. CASE \E id \in Ids, n \in Requests \ {0} : Got(B, S, F, id, n)
    BY <1>2, <2>3, GotKeeps
  <2> QED BY <1>2, <2>1, <2>2, <2>3, StepIs
<1> QED BY <1>1, <1>3 DEF HeapInv

-----------------------------------------------------------------------------
(* The heap of mm_init                                                     *)

\* The words that mm_init writes.
LEMMA FreshWords ==
  ASSUME NEW m \in [Words -> Nat], NEW z, z = FreshHeap(m)
  PROVE  /\ z \in [Words -> Nat]
         /\ \A b \in Fixed : z[b - 12] = 17 /\ z[b] = 17
         /\ \A b \in Heads : z[b - 8] = 0 /\ z[b - 4] = 0
         /\ z[FirstBlock - 4] = 1
<1> DEFINE H == {heap(i) : i \in 0 .. N - 1}
           value(a) == CASE a = 0 -> 0
                         [] \E bp \in H \cup {16} : a = HDRP(bp) \/ a = bp -> PACK(16, 1)
                         [] \E bp \in H : a = PRED(bp) \/ a = SUCC(bp) -> 0
                         [] a = FirstBlock - 4 -> PACK(0, 1)
                         [] OTHER -> m[a]
<1>1. z = [a \in Words |-> value(a)]
  BY DEF FreshHeap
<1>2. H = Heads /\ Fixed = Heads \cup {16}
  BY DEF Heads, Fixed
<1>3. \A b \in Heads : \E i \in 0 .. N - 1 : b = 32 + 16 * i
  BY DEF Heads, heap
<1>4. ASSUME NEW b \in Fixed
      PROVE  /\ b \in Nat /\ b % 16 = 0 /\ b >= 16 /\ b =< FirstBlock - 8
             /\ b \in Words /\ b - 12 \in Words /\ b - 8 \in Words /\ b - 4 \in Words
  <2>1. b \in Nat /\ b % 16 = 0 /\ b >= 16 /\ b =< FirstBlock - 8
    <3>1. CASE b = 16
      BY <3>1, Basics
    <3>2. CASE b \in Heads
      <4>1. PICK i \in 0 .. N - 1 : b = 32 + 16 * i
        BY <1>3, <3>2
      <4> QED BY <4>1, Basics
    <3> QED BY <1>2, <3>1, <3>2
  <2>2. \A c \in {0, 4, 8, 12} : b - c \in Int /\ b - c >= 0 /\ b - c < MaxHeap /\ (b - c) % 4 = 0
    BY <2>1, Basics
  <2>3. \A c \in {0, 4, 8, 12} : b - c \in Words
    BY <2>2, WordIs
  <2>4. b - 0 = b
    BY <2>1
  <2> QED BY <2>1, <2>3, <2>4
<1>5. FirstBlock - 4 \in Words
  <2>1. PICK a : a = FirstBlock - 4
    OBVIOUS
  <2>2. a \in Int /\ a >= 0 /\ a < MaxHeap /\ a % 4 = 0
    BY <2>1, Basics
  <2> QED BY <2>1, <2>2, WordIs
<1>6. \A bp : HDRP(bp) = bp - 12 /\ PRED(bp) = bp - 8 /\ SUCC(bp) = bp - 4
  BY DEF HDRP, PRED, SUCC
<1>7. PACK(16, 1) = 17 /\ PACK(0, 1) = 1
  BY DEF PACK
<1>8. \A b \in Fixed : value(b - 12) = 17 /\ value(b) = 17
  <2> SUFFICES ASSUME NEW b \in Fixed, NEW a \in {b - 12, b} PROVE value(a) = 17
    OBVIOUS
  <2>1. \E bp \in H \cup {16} : a = HDRP(bp) \/ a = bp
    BY <1>2, <1>6
  <2>2. a # 0 /\ a # FirstBlock - 4
    BY <1>4, Basics
  <2>3. ~ \E bp \in H : a = PRED(bp) \/ a = SUCC(bp)
    <3> SUFFICES ASSUME NEW bp \in Fixed PROVE a # bp - 8 /\ a # bp - 4
      BY <1>2, <1>6
    <3>1. b \in Nat /\ b % 16 = 0 /\ bp \in Nat /\ bp % 16 = 0
      BY <1>4
    <3> QED BY <3>1
  <2> QED BY <1>7, <2>1, <2>2, <2>3
<1>9. \A b \in Heads : value(b - 8) = 0 /\ value(b - 4) = 0
  <2> SUFFICES ASSUME NEW b \in Heads, NEW a \in {b - 8, b - 4} PROVE value(a) = 0
    OBVIOUS
  <2>1. \E bp \in H : a = PRED(bp) \/ a = SUCC(bp)
    BY <1>2, <1>6
  <2>2. b \in Fixed
    BY <1>2
  <2>3. a # 0 /\ a # FirstBlock - 4
    BY <1>4, <2>2, Basics
  <2>4. ~ \E bp \in H \cup {16} : a = HDRP(bp) \/ a = bp
    <3> SUFFICES ASSUME NEW bp \in Fixed PROVE a # bp - 12 /\ a # bp
      BY <1>2, <1>6
    <3>1. b \in Nat /\ b % 16 = 0 /\ bp \in Nat /\ bp % 16 = 0
      BY <1>4, <2>2
    <3> QED BY <3>1
  <2> QED BY <2>1, <2>3, <2>4
<1>10. value(FirstBlock - 4) = 1
  <2>1. PICK a : a = FirstBlock - 4
    OBVIOUS
  <2>2. a # 0
    BY <2>1, Basics
  <2>3. \A bp \in Fixed : a # bp - 12 /\ a # bp /\ a # bp - 8 /\ a # bp - 4
    BY <1>4, <2>1, Basics
  <2>4. /\ ~ \E bp \in H \cup {16} : a = HDRP(bp) \/ a = bp
        /\ ~ \E bp \in H : a = PRED(bp) \/ a = SUCC(bp)
    BY <1>2, <1>6, <2>3
  <2> QED BY <1>7, <2>1, <2>2, <2>4
<1>11. \A a \in Words : value(a) \in Nat
  BY <1>7
<1> HIDE DEF value
<1>12. z \in [Words -> Nat]
  BY <1>1, <1>11
<1>13. \A a \in Words : z[a] = value(a)
  BY <1>1
<1>14. \A b \in Fixed : z[b - 12] = 17 /\ z[b] = 17
  BY <1>4, <1>8, <1>13
<1>15. \A b \in Heads : z[b - 8] = 0 /\ z[b - 4] = 0
  BY <1>2, <1>4, <1>9, <1>13
<1>16. z[FirstBlock - 4] = 1
  BY <1>5, <1>10, <1>13
<1> QED BY <1>12, <1>14, <1>15, <1>16

\* The sizes of the blocks that mm_init makes.
FirstSizes == [b \in Fixed |-> 16]

\* They tile the heap of mm_init.
LEMMA FirstTiles == Tiles(FirstBlock, Fixed, FirstSizes)
<1>1. \A b \in Fixed : FirstSizes[b] = 16
  BY DEF FirstSizes
<1>2. FirstSizes \in [Fixed -> Nat]
  BY DEF FirstSizes
<1>3. /\ N \in Nat /\ N >= 1 /\ FirstBlock = 24 + 16 * N /\ FirstBlock \in Nat
      /\ FirstBlock \in FirstBlock .. MaxHeap
  BY Basics
<1>4. FirstBlock % 8 = 0
  BY <1>3
<1>5. \A b \in Fixed : \E i \in -1 .. N - 1 : b = 32 + 16 * i
  <2> SUFFICES ASSUME NEW b \in Fixed PROVE \E i \in -1 .. N - 1 : b = 32 + 16 * i
    OBVIOUS
  <2>1. CASE b = 16
    <3>1. 16 = 32 + 16 * (-1) /\ -1 \in -1 .. N - 1
      BY <1>3
    <3> QED BY <2>1, <3>1
  <2>2. CASE b \in Heads
    <3>1. PICK i \in 0 .. N - 1 : b = 32 + 16 * i
      BY <2>2 DEF Heads, heap
    <3>2. i \in -1 .. N - 1
      BY <1>3
    <3> QED BY <3>1, <3>2
  <2> QED BY <2>1, <2>2 DEF Fixed
<1>6. \A i \in -1 .. N - 1 : 32 + 16 * i \in Fixed
  <2> SUFFICES ASSUME NEW i \in -1 .. N - 1 PROVE 32 + 16 * i \in Fixed
    OBVIOUS
  <2>1. CASE i = -1
    <3>1. 32 + 16 * i = 16
      BY <2>1
    <3> QED BY <3>1 DEF Fixed
  <2>2. CASE i # -1
    <3>1. i \in 0 .. N - 1
      BY <1>3, <2>2
    <3>2. heap(i) \in Heads /\ heap(i) = 32 + 16 * i
      BY <3>1, Basics
    <3> QED BY <3>2 DEF Fixed
  <2> QED BY <2>1, <2>2
<1>7. ASSUME NEW b \in Fixed
      PROVE  /\ b \in Nat /\ b >= 16 /\ b % 8 = 0
             /\ b + 16 \in Fixed \cup {FirstBlock + 8} /\ b + 16 =< FirstBlock + 8
  <2>1. PICK i \in -1 .. N - 1 : b = 32 + 16 * i
    BY <1>5
  <2>2. b \in Nat /\ b >= 16 /\ b % 8 = 0 /\ b + 16 =< FirstBlock + 8
    BY <1>3, <2>1
  <2>3. CASE i = N - 1
    BY <1>3, <2>1, <2>3
  <2>4. CASE i # N - 1
    <3>1. i + 1 \in -1 .. N - 1 /\ b + 16 = 32 + 16 * (i + 1)
      BY <1>3, <2>1, <2>4
    <3>2. 32 + 16 * (i + 1) \in Fixed
      BY <1>6, <3>1
    <3> QED BY <2>2, <3>1, <3>2
  <2> QED BY <2>2, <2>3, <2>4
<1>8. \A b, c \in Fixed : b < c => b + 16 =< c
  <2> SUFFICES ASSUME NEW b \in Fixed, NEW c \in Fixed, b < c PROVE b + 16 =< c
    OBVIOUS
  <2>1. PICK i \in -1 .. N - 1 : b = 32 + 16 * i
    BY <1>5
  <2>2. PICK j \in -1 .. N - 1 : c = 32 + 16 * j
    BY <1>5
  <2> QED BY <1>3, <2>1, <2>2
<1>9. \A t \in Fixed \cup {FirstBlock + 8} : t # 16 => \E c \in Fixed : c + 16 = t
  <2> SUFFICES ASSUME NEW t \in Fixed \cup {FirstBlock + 8}, t # 16 PROVE \E c \in Fixed : c + 16 = t
    OBVIOUS
  <2>1. PICK i \in 0 .. N : t = 32 + 16 * i
    <3>1. CASE t \in Fixed
      <4>1. PICK i \in -1 .. N - 1 : t = 32 + 16 * i
        BY <1>5, <3>1
      <4>2. i \in 0 .. N
        BY <1>3, <4>1
      <4> QED BY <4>1, <4>2
    <3>2. CASE t = FirstBlock + 8
      BY <1>3, <3>2
    <3> QED BY <3>1, <3>2
  <2>2. i - 1 \in -1 .. N - 1 /\ (32 + 16 * (i - 1)) + 16 = t
    BY <1>3, <2>1
  <2>3. 32 + 16 * (i - 1) \in Fixed
    BY <1>6, <2>2
  <2> QED BY <2>2, <2>3
<1>10. Fixed \subseteq Nat
  BY <1>7
<1> QED BY <1>1, <1>2, <1>3, <1>4, <1>7, <1>8, <1>9, <1>10 DEF Tiles

\* All lists are empty at first.
LEMMA FirstLists ==
  ASSUME NEW m, \A b \in Heads : m[b - 4] = 0
  PROVE  Lists(m, FirstSizes, {})
<1> DEFINE r == [h \in Heads |-> 0]
           c == [h \in Heads |-> CHOOSE i \in 0 .. N - 1 : h = heap(i)]
<1>1. ListNodes({}) = Heads
  BY DEF ListNodes
<1>2. \A h \in Heads : \E i \in 0 .. N - 1 : h = heap(i)
  BY DEF Heads
<1>3. \A h \in Heads : c[h] \in 0 .. N - 1 /\ h = heap(c[h])
  BY <1>2
<1>4. \A i \in 0 .. N - 1 : c[heap(i)] = i
  <2> SUFFICES ASSUME NEW i \in 0 .. N - 1 PROVE c[heap(i)] = i
    OBVIOUS
  <2>1. heap(i) \in Heads
    BY Basics
  <2>2. c[heap(i)] \in 0 .. N - 1 /\ heap(i) = heap(c[heap(i)])
    BY <1>3, <2>1
  <2> HIDE DEF c
  <2> QED BY <2>2, Basics
<1>5. r \in [Heads -> Nat] /\ c \in [Heads -> 0 .. N - 1]
  BY <1>3
<1> HIDE DEF r, c
<1>6. LinkedBy(m, {}, r, c)
  BY <1>1, <1>5 DEF LinkedBy, Null
<1>7. /\ LinkedBy(m, {}, r, c) /\ \A i \in 0 .. N - 1 : c[heap(i)] = i
      /\ \A b \in {} : c[b] = U(FirstSizes[b])
  BY <1>4, <1>6
<1> QED BY <1>7 DEF Lists

\* The heap that mm_init makes satisfies the invariant.
LEMMA HeapInvInit == Init => HeapInv
<1> SUFFICES ASSUME Init PROVE HeapInv
  OBVIOUS
<1>1. PICK s \in Stale : mem = FreshHeap([a \in Words |-> s])
  BY DEF Init
<1>2. PICK m : m = [a \in Words |-> s]
  OBVIOUS
<1>3. m \in [Words -> Nat]
  BY <1>2, HeapAssumption
<1>4. /\ mem \in [Words -> Nat]
      /\ \A b \in Fixed : mem[b - 12] = 17 /\ mem[b] = 17
      /\ \A b \in Heads : mem[b - 8] = 0 /\ mem[b - 4] = 0
      /\ mem[FirstBlock - 4] = 1
  <2>1. mem = FreshHeap(m)
    BY <1>1, <1>2
  <2> QED BY <1>3, <2>1, FreshWords
<1>5. brk = FirstBlock /\ alive \in BOOLEAN /\ blocks = [id \in Ids |-> Null] /\ sizes = [id \in Ids |-> 0]
  BY DEF Init
<1>6. PICK none : none = {}
  OBVIOUS
<1>7. /\ \A b \in Fixed : FirstSizes[b] = 16 /\ Alloc(b, none) = 1 /\ b \in Nat /\ b + 16 - 16 = b
  <2>1. Fixed \subseteq Nat
    BY FirstTiles DEF Tiles
  <2>2. \A b \in Fixed : b + 16 - 16 = b
    BY <2>1
  <2> QED BY <1>6, <2>1, <2>2 DEF FirstSizes, Alloc
<1>8. Tagged(mem, brk, Fixed, FirstSizes, none, none)
  <2>1. mem[brk - 4] = 1
    BY <1>4, <1>5
  <2>2. ASSUME NEW b \in Fixed
        PROVE  /\ mem[b - 12] = FirstSizes[b] + Alloc(b, none)
               /\ mem[b + FirstSizes[b] - 16] = FirstSizes[b] + Alloc(b, none)
    BY <1>4, <1>7
  <2> QED BY <1>4, <1>6, <2>1, <2>2 DEF Tagged
<1>9. Lists(mem, FirstSizes, none)
  BY <1>4, <1>6, FirstLists
<1>10. State(mem, brk, Fixed, FirstSizes, none, none, none)
  BY <1>5, <1>6, <1>8, <1>9, FirstTiles DEF State
<1>11. Settled(mem, brk, Fixed, FirstSizes, none)
  BY <1>6, <1>10 DEF Settled, Apart
<1>12. Owned(Fixed, FirstSizes, none, mem, blocks, sizes)
  <2>1. LiveOf(blocks) = {}
    BY <1>5 DEF LiveOf
  <2>2. blocks \in [Ids -> Nat] /\ sizes \in [Ids -> Requests \cup {0}]
    BY <1>5 DEF Null
  <2>3. \A id \in Ids : blocks[id] = Null => sizes[id] = 0
    BY <1>5
  <2>4. Fixed \ none = Fixed \cup {blocks[id] + 8 : id \in LiveOf(blocks)}
    BY <1>6, <2>1
  <2> QED BY <2>1, <2>2, <2>3, <2>4 DEF Owned
<1> QED BY <1>5, <1>11, <1>12 DEF HeapInv

\* THEOREM: the inductive invariant holds in every reachable state.
THEOREM HeapIsSound == Spec => []HeapInv
<1>1. Init => HeapInv
  BY HeapInvInit
<1>2. HeapInv /\ [Next]_vars => HeapInv'
  BY HeapInvStep
<1> QED BY <1>1, <1>2, PTL DEF Spec

-----------------------------------------------------------------------------
(* What the properties compute from the memory                             *)

\* The step from a block to the next, which stays at the end of the heap.
Stride(m, bp) == IF HDRP(bp) \in Words THEN NEXT_BLKP(m, bp) ELSE bp
\* What defines the places that AllBlocks steps along.
Strides(n, m) == n = [j \in 0 .. N + 1 + MaxFree |-> IF j = 0 THEN 16 ELSE Stride(m, n[j - 1])]

\* n goes from block to block, and stays at the end of the heap.
Tour(n, k, B, S) ==
  /\ n \in [0 .. N + 1 + MaxFree -> B \cup {k + 8}]
  /\ n[0] = 16
  /\ \A j \in 1 .. N + 1 + MaxFree : n[j] = IF n[j - 1] \in B THEN n[j - 1] + S[n[j - 1]] ELSE n[j - 1]

\* AllBlocks collects the blocks of a tour.
LEMMA BlocksTour ==
  ASSUME NEW B, NEW S, NEW F, State(mem, brk, B, S, F, F, {})
  PROVE  \E n : /\ Tour(n, brk, B, S)
                /\ AllBlocks = {n[j] : j \in 0 .. N + 1 + MaxFree} \ {brk + 8}
<1> DEFINE D == B \cup {brk + 8}
           G == [b \in D |-> IF b \in B THEN b + S[b] ELSE b]
<1>1. PICK K : K = N + 1 + MaxFree
  OBVIOUS
<1>2. K \in Nat
  BY <1>1, Basics, MaxFreeIs
<1>3. Tiles(brk, B, S) /\ brk \in Nat /\ 16 \in B /\ brk + 8 \notin B
  BY Basics, TilesUnique DEF State, Tiles, Fixed
<1>4. ASSUME NEW b \in D PROVE G[b] \in D /\ Stride(mem, b) = G[b]
  <2>1. CASE b \in B
    <3>1. NEXT_BLKP(mem, b) = b + S[b]
      BY <2>1, Reads
    <3>2. b - 12 \in Words
      BY <1>3, <2>1, TilesWords
    <3>3. b + S[b] \in D
      BY <1>3, <2>1 DEF Tiles
    <3> QED BY <2>1, <3>1, <3>2, <3>3 DEF Stride, HDRP
  <2>2. CASE b = brk + 8
    <3>1. G[b] = b
      BY <1>3, <2>2
    <3>2. NEXT_BLKP(mem, b) = b
      <4>1. Size(mem, b) = 0
        BY <2>2, ReadsEnd
      <4>2. b \in Nat
        BY <1>3, <2>2
      <4> QED BY <4>1, <4>2 DEF NEXT_BLKP
    <3> QED BY <3>1, <3>2 DEF Stride
  <2> QED BY <2>1, <2>2
<1>5. G \in [D -> D] /\ 16 \in D
  BY <1>3, <1>4
<1>6. PICK f : Iteration(f, D, G, 16, K)
  <2> HIDE DEF D, G
  <2> QED BY <1>2, <1>5, Iterates
<1>7. f \in [0 .. K -> D] /\ f[0] = 16 /\ \A j \in 1 .. K : f[j] = G[f[j - 1]]
  BY <1>6 DEF Iteration
<1>8. Strides(f, mem)
  <2> DEFINE body(j) == IF j = 0 THEN 16 ELSE Stride(mem, f[j - 1])
  <2>1. ASSUME NEW j \in 0 .. K PROVE f[j] = body(j)
    <3>1. CASE j = 0
      BY <1>7, <3>1
    <3>2. CASE j # 0
      <4>1. j \in 1 .. K /\ j - 1 \in 0 .. K
        BY <1>2, <3>2
      <4>2. f[j - 1] \in D /\ f[j] = G[f[j - 1]]
        BY <1>7, <4>1
      <4> HIDE DEF D, G
      <4> QED BY <1>4, <3>2, <4>2
    <3> QED BY <3>1, <3>2
  <2> HIDE DEF body
  <2>2. f = [j \in 0 .. K |-> body(j)]
    <3>1. f = [j \in 0 .. K |-> f[j]]
      BY <1>7
    <3> QED BY <2>1, <3>1
  <2> QED BY <1>1, <2>2 DEF Strides, body
<1>9. PICK n : n = CHOOSE f2 : Strides(f2, mem)
  OBVIOUS
<1>10. Strides(n, mem)
  BY <1>8, <1>9
<1>11. AllBlocks = {n[j] : j \in 0 .. K} \ {brk + 8}
  BY <1>1, <1>9 DEF AllBlocks, Epilogue, Strides, Stride
<1>12. \A j \in 0 .. K : n[j] = IF j = 0 THEN 16 ELSE Stride(mem, n[j - 1])
  BY <1>1, <1>10 DEF Strides
<1>13. \A j \in 0 .. K : n[j] \in D
  <2> DEFINE bad == {j \in 0 .. K : n[j] \notin D}
  <2> SUFFICES ASSUME bad # {} PROVE FALSE
    OBVIOUS
  <2>1. PICK j \in bad : \A x \in bad : j =< x
    <3>1. bad \subseteq Nat
      OBVIOUS
    <3> HIDE DEF bad
    <3> QED BY <3>1, Least
  <2>2. j # 0
    BY <1>5, <1>12, <2>1
  <2>3. j \in 0 .. K /\ j - 1 \in 0 .. K /\ j - 1 \notin bad
    BY <1>2, <2>1, <2>2
  <2>4. n[j - 1] \in D /\ n[j] = Stride(mem, n[j - 1]) /\ n[j] \notin D
    BY <1>12, <2>1, <2>2, <2>3
  <2> HIDE DEF D, G
  <2> QED BY <1>4, <2>4
<1>14. \A j \in 1 .. K : n[j] = IF n[j - 1] \in B THEN n[j - 1] + S[n[j - 1]] ELSE n[j - 1]
  <2> SUFFICES ASSUME NEW j \in 1 .. K
               PROVE  n[j] = IF n[j - 1] \in B THEN n[j - 1] + S[n[j - 1]] ELSE n[j - 1]
    OBVIOUS
  <2>1. j \in 0 .. K /\ j - 1 \in 0 .. K /\ j # 0
    BY <1>2
  <2>2. n[j - 1] \in D /\ n[j] = Stride(mem, n[j - 1])
    BY <1>12, <1>13, <2>1
  <2> QED BY <1>4, <2>2
<1>15. n \in [0 .. K -> D]
  <2>1. DOMAIN n = 0 .. K /\ n = [j \in DOMAIN n |-> n[j]]
    BY <1>1, <1>10 DEF Strides
  <2> HIDE DEF D
  <2> QED BY <1>13, <2>1
<1>16. n[0] = 16
  BY <1>2, <1>12
<1>17. Tour(n, brk, B, S)
  BY <1>1, <1>14, <1>15, <1>16 DEF Tour
<1> QED BY <1>1, <1>11, <1>17

\* A tour visits every block.
LEMMA TourReaches ==
  ASSUME NEW k, NEW B, NEW S, Tiles(k, B, S), NEW n, Tour(n, k, B, S), NEW b \in B
  PROVE  \E j \in 0 .. N + 1 + MaxFree : n[j] = b
<1>1. PICK K : K = N + 1 + MaxFree
  OBVIOUS
<1>2. /\ K \in Nat /\ N \in Nat /\ MaxFree \in Nat /\ MaxHeap \in Nat /\ FirstBlock \in Nat
      /\ FirstBlock = 24 + 16 * N /\ MaxHeap - FirstBlock < 16 * MaxFree + 16
  BY <1>1, Basics, MaxFreeIs
<1>3. /\ b \in Nat /\ b >= 16 /\ k \in Nat /\ k =< MaxHeap /\ b + 16 =< k + 8
      /\ \A c \in B : c \in Nat /\ S[c] \in Nat /\ S[c] >= 16 /\ (c < b => c + S[c] =< b)
  BY <1>2, TilesUnique DEF Tiles
<1>4. /\ n[0] = 16 /\ \A j \in 0 .. K : n[j] \in B \cup {k + 8}
      /\ \A j \in 1 .. K : n[j] = IF n[j - 1] \in B THEN n[j - 1] + S[n[j - 1]] ELSE n[j - 1]
  BY <1>1 DEF Tour
<1> SUFFICES ASSUME \A j \in 0 .. K : n[j] # b PROVE FALSE
  BY <1>1
<1> DEFINE bad == {j \in 0 .. K : ~ (n[j] \in Nat /\ n[j] < b /\ n[j] >= 16 + 16 * j)}
<1>5. bad = {}
  <2> SUFFICES ASSUME bad # {} PROVE FALSE
    OBVIOUS
  <2>1. PICK j \in bad : \A x \in bad : j =< x
    <3>1. bad \subseteq Nat
      OBVIOUS
    <3> HIDE DEF bad
    <3> QED BY <3>1, Least
  <2>2. j # 0
    <3>1. n[0] # b
      BY <1>2
    <3> QED BY <1>3, <1>4, <2>1, <3>1
  <2>3. j \in 1 .. K /\ j - 1 \in 0 .. K /\ j - 1 \notin bad
    BY <1>2, <2>1, <2>2
  <2>4. PICK c : c = n[j - 1]
    OBVIOUS
  <2>5. c \in Nat /\ c < b /\ c >= 16 * j /\ c \in B
    <3>1. c \in Nat /\ c < b /\ c >= 16 + 16 * (j - 1) /\ c \in B \cup {k + 8}
      BY <1>4, <2>3, <2>4
    <3> QED BY <1>3, <2>3, <3>1
  <2>6. n[j] = c + S[c] /\ n[j] # b
    BY <1>4, <2>3, <2>4, <2>5
  <2>7. n[j] \in Nat /\ n[j] < b /\ n[j] >= 16 + 16 * j
    BY <1>3, <2>3, <2>5, <2>6
  <2> QED BY <2>1, <2>7
<1>6. n[K] < b /\ n[K] >= 16 + 16 * K /\ n[K] \in Nat
  <2>1. K \in 0 .. K /\ K \notin bad
    BY <1>2, <1>5
  <2> QED BY <2>1
<1> QED BY <1>1, <1>2, <1>3, <1>6

\* What the properties compute from the memory is what the invariant speaks of.
LEMMA BlocksAre ==
  ASSUME NEW B, NEW S, NEW F, Settled(mem, brk, B, S, F)
  PROVE  AllBlocks = B /\ FreeIn(AllBlocks) = F
<1>1. State(mem, brk, B, S, F, F, {}) /\ Tiles(brk, B, S)
  BY DEF Settled, State
<1>2. PICK n : Tour(n, brk, B, S) /\ AllBlocks = {n[j] : j \in 0 .. N + 1 + MaxFree} \ {brk + 8}
  BY <1>1, BlocksTour
<1>3. \A j \in 0 .. N + 1 + MaxFree : n[j] \in B \cup {brk + 8}
  BY <1>2 DEF Tour
<1>4. \A b \in B : b # brk + 8 /\ \E j \in 0 .. N + 1 + MaxFree : n[j] = b
  BY <1>1, <1>2, TourReaches, TilesUnique
<1>5. AllBlocks = B
  BY <1>2, <1>3, <1>4
<1>6. \A b \in B : GET_ALLOC(mem, HDRP(b)) = Alloc(b, F)
  BY <1>1, Reads
<1>7. F \subseteq B
  BY <1>1 DEF State
<1>8. \A b \in B : Alloc(b, F) = 0 <=> b \in F
  BY DEF Alloc
<1> QED BY <1>5, <1>6, <1>7, <1>8 DEF FreeIn

-----------------------------------------------------------------------------
(* The properties                                                          *)

\* The end of the heap, in every state of the invariant.
LEMMA EndIs ==
  ASSUME NEW B, NEW S, NEW F, Settled(mem, brk, B, S, F)
  PROVE  /\ brk \in FirstBlock .. MaxHeap /\ brk % 8 = 0 /\ brk \in Nat
         /\ HDRP(Epilogue) = brk - 4 /\ mem[HDRP(Epilogue)] = PACK(0, 1)
         /\ mem \in [Words -> Nat]
<1>1. brk \in FirstBlock .. MaxHeap /\ brk % 8 = 0 /\ brk \in Nat
  BY Basics DEF Settled, State, Tiles
<1>2. mem \in [Words -> Nat] /\ mem[brk - 4] = 1
  BY DEF Settled, State, Tagged
<1>3. HDRP(Epilogue) = brk - 4
  BY <1>1 DEF HDRP, Epilogue
<1> QED BY <1>1, <1>2, <1>3 DEF PACK

\* The tiling that coalesce relies on.
LEMMA InvTiled == HeapInv => HeapTiled
<1> SUFFICES ASSUME HeapInv PROVE HeapTiled
  OBVIOUS
<1>1. PICK B, S, F : Settled(mem, brk, B, S, F)
  BY DEF HeapInv
<1>2. State(mem, brk, B, S, F, F, {}) /\ Tiles(brk, B, S)
  BY <1>1 DEF Settled, State
<1>3. ASSUME NEW bp \in B
      PROVE  /\ bp % 8 = 0 /\ HDRP(bp) \in Words
             /\ Size(mem, bp) >= 16
             /\ NEXT_BLKP(mem, bp) =< Epilogue
             /\ mem[FTRP(mem, bp)] = mem[HDRP(bp)]
  <2>1. /\ Size(mem, bp) = S[bp] /\ NEXT_BLKP(mem, bp) = bp + S[bp]
        /\ mem[FTRP(mem, bp)] = mem[HDRP(bp)]
    BY <1>2, Reads
  <2>2. bp % 8 = 0 /\ S[bp] >= 16 /\ bp + S[bp] =< brk + 8
    BY <1>2 DEF Tiles
  <2>3. HDRP(bp) \in Words
    BY <1>2, TilesWords DEF HDRP
  <2> QED BY <2>1, <2>2, <2>3 DEF Epilogue
<1>4. AllBlocks = B
  BY <1>1, BlocksAre
<1> QED BY <1>1, <1>3, <1>4, EndIs DEF HeapTiled

\* No block is lost or has two owners.
LEMMA InvOwned == HeapInv => BlocksOwned
<1> SUFFICES ASSUME HeapInv PROVE BlocksOwned
  OBVIOUS
<1>1. PICK B, S, F : Settled(mem, brk, B, S, F) /\ Owned(B, S, F, mem, blocks, sizes)
  BY DEF HeapInv
<1>2. State(mem, brk, B, S, F, F, {}) /\ Tiles(brk, B, S)
  BY <1>1 DEF Settled, State
<1>3. AllBlocks = B /\ FreeIn(AllBlocks) = F
  BY <1>1, BlocksAre
<1>4. Live = LiveOf(blocks)
  BY DEF Live, LiveOf
<1>5. B \ F = Fixed \cup {blocks[id] + 8 : id \in Live}
  BY <1>1, <1>4 DEF Owned
<1>6. ASSUME NEW id \in Live
      PROVE  /\ blocks[id] + 8 >= FirstBlock
             /\ sizes[id] + 8 =< Size(mem, blocks[id] + 8)
             /\ \A o \in Live \ {id} : blocks[id] # blocks[o]
  <2>1. PICK b : b = blocks[id] + 8
    OBVIOUS
  <2>2. /\ b \in B /\ b \notin Fixed /\ sizes[id] + 8 =< S[b]
        /\ \A o \in Live \ {id} : blocks[id] # blocks[o]
    BY <1>1, <1>4, <1>5, <2>1 DEF Owned
  <2>3. b >= FirstBlock
    <3>1. b >= FirstBlock + 8 /\ b \in Nat
      BY <1>2, <2>2, FixedFirst, TilesWords
    <3> QED BY <3>1, Basics
  <2>4. Size(mem, b) = S[b]
    BY <1>2, <2>2, Reads
  <2> QED BY <2>1, <2>2, <2>3, <2>4
<1> QED BY <1>3, <1>5, <1>6 DEF BlocksOwned, Fixed

\* The lists hold the free blocks.
LEMMA InvListed == HeapInv => FreeBlocksListed
<1> SUFFICES ASSUME HeapInv PROVE FreeBlocksListed
  OBVIOUS
<1>1. PICK B, S, F : Settled(mem, brk, B, S, F)
  BY DEF HeapInv
<1>2. State(mem, brk, B, S, F, F, {})
  BY <1>1 DEF Settled
<1>3. AllBlocks = B /\ FreeIn(AllBlocks) = F
  BY <1>1, BlocksAre
<1>4. \A b \in F : Size(mem, b) = S[b]
  <2>1. F \subseteq B
    BY <1>2 DEF State
  <2> QED BY <1>2, <2>1, Reads
<1>5. /\ \A b \in F : U(S[b]) \in 0 .. N - 1
      /\ \A i \in 0 .. N - 1 : \A j \in 0 .. MaxFree :
           List(mem, i)[j] # Null =>
             /\ List(mem, i)[j] \in F /\ U(S[List(mem, i)[j]]) = i
             /\ mem[List(mem, i)[j] - 8] = IF j = 0 THEN heap(i) ELSE List(mem, i)[j - 1]
      /\ \A i \in 0 .. N - 1 : \A b \in F :
           U(S[b]) = i => \E j \in 0 .. MaxFree : List(mem, i)[j] = b
  BY <1>2, ListIs
<1>6. Null \notin F
  BY <1>2, NodesAreBlocks
<1>7. \A bp \in F : U(Size(mem, bp)) < N
  <2> SUFFICES ASSUME NEW bp \in F PROVE U(Size(mem, bp)) < N
    OBVIOUS
  <2>1. PICK u : u = U(S[bp])
    OBVIOUS
  <2>2. u \in 0 .. N - 1
    BY <1>5, <2>1
  <2>3. u < N
    BY <2>2, Basics
  <2> QED BY <1>4, <2>1, <2>3
<1>8. ASSUME NEW i \in 0 .. N - 1
      PROVE  LET l == List(mem, i)
                 nodes == {j \in 0 .. MaxFree : l[j] # Null}
             IN  /\ {l[j] : j \in nodes} = {bp \in F : U(Size(mem, bp)) = i}
                 /\ \A j \in nodes : mem[PRED(l[j])] = IF j = 0 THEN heap(i) ELSE l[j - 1]
  <2>1. PICK l : l = List(mem, i)
    OBVIOUS
  <2>2. PICK nodes : nodes = {j \in 0 .. MaxFree : l[j] # Null}
    OBVIOUS
  <2>3. \A j \in nodes : /\ l[j] \in F /\ U(S[l[j]]) = i
                         /\ mem[l[j] - 8] = IF j = 0 THEN heap(i) ELSE l[j - 1]
    BY <1>5, <2>1, <2>2
  <2>4. \A b \in F : U(S[b]) = i => \E j \in nodes : l[j] = b
    BY <1>5, <1>6, <2>1, <2>2
  <2>5. {l[j] : j \in nodes} = {bp \in F : U(Size(mem, bp)) = i}
    BY <1>4, <2>3, <2>4
  <2>6. \A j \in nodes : mem[PRED(l[j])] = IF j = 0 THEN heap(i) ELSE l[j - 1]
    BY <2>3 DEF PRED
  <2> QED BY <2>1, <2>2, <2>5, <2>6
<1> QED BY <1>3, <1>7, <1>8, Zenon DEF FreeBlocksListed

\* Free blocks have no free neighbour.
LEMMA InvCoalesced == HeapInv => Coalesced
<1> SUFFICES ASSUME HeapInv PROVE Coalesced
  OBVIOUS
<1>1. PICK B, S, F : Settled(mem, brk, B, S, F)
  BY DEF HeapInv
<1>2. State(mem, brk, B, S, F, F, {}) /\ Apart(S, F) /\ F \subseteq B
  BY <1>1 DEF Settled, State
<1>3. AllBlocks = B /\ FreeIn(AllBlocks) = F
  BY <1>1, BlocksAre
<1>4. \A bp \in F : NEXT_BLKP(mem, bp) = bp + S[bp]
  BY <1>2, Reads
<1> QED BY <1>2, <1>3, <1>4 DEF Coalesced, Apart

\* Variables have their types.
LEMMA InvTypes == HeapInv => TypeOK
<1> SUFFICES ASSUME HeapInv PROVE TypeOK
  OBVIOUS
<1>1. PICK B, S, F : Settled(mem, brk, B, S, F) /\ Owned(B, S, F, mem, blocks, sizes)
  BY DEF HeapInv
<1>2. Tiles(brk, B, S)
  BY <1>1 DEF Settled, State
<1>3. /\ brk \in FirstBlock .. MaxHeap /\ brk % 8 = 0 /\ brk \in Nat /\ mem \in [Words -> Nat]
      /\ MaxHeap \in Nat /\ FirstBlock \in Nat /\ FirstBlock >= 40
  BY <1>1, EndIs, Basics
<1>4. blocks \in [Ids -> Nat] /\ sizes \in [Ids -> Requests \cup {0}] /\ alive \in BOOLEAN
  BY <1>1 DEF Owned, HeapInv
<1>5. ASSUME NEW id \in Ids PROVE blocks[id] \in 0 .. MaxHeap - 1
  <2>1. CASE blocks[id] = Null
    BY <1>3, <2>1 DEF Null
  <2>2. CASE blocks[id] # Null
    <3>1. blocks[id] + 8 \in B
      BY <1>1, <2>2 DEF Owned, LiveOf
    <3>2. blocks[id] + 8 + 16 =< brk + 8
      BY <1>2, <3>1, TilesUnique
    <3> QED BY <1>3, <1>4, <3>2
  <2> QED BY <2>1, <2>2
<1>6. blocks \in [Ids -> 0 .. MaxHeap - 1]
  BY <1>4, <1>5
<1> QED BY <1>3, <1>4, <1>6 DEF TypeOK

\* THEOREM: from the prologue to the epilogue the heap is covered by blocks with
\* the same header as footer, whatever malloc, free and realloc did to it.
THEOREM HeapIsTiled == Spec => []HeapTiled
BY HeapIsSound, InvTiled, PTL

\* THEOREM: every allocated block belongs to mm_init or to exactly one of the
\* caller's pointers, and is large enough for it.
THEOREM BlocksAreOwned == Spec => []BlocksOwned
BY HeapIsSound, InvOwned, PTL

\* THEOREM: the lists of heap[] hold the free blocks, each in the list of its
\* size, with links back that mirror the links forward.
THEOREM FreeBlocksAreListed == Spec => []FreeBlocksListed
BY HeapIsSound, InvListed, PTL

\* THEOREM: coalesce leaves no two free blocks side by side.
THEOREM FreeBlocksAreApart == Spec => []Coalesced
BY HeapIsSound, InvCoalesced, PTL

\* THEOREM: the words, mem_brk and the caller's table keep their types.
THEOREM HeapTypes == Spec => []TypeOK
BY HeapIsSound, InvTypes, PTL

-----------------------------------------------------------------------------
(* The refinement of Allocator                                             *)

\* A step that moves the end of the heap for a block of the caller has found
\* no free block that is large enough.
LEMMA GrowsStep ==
  ASSUME HeapInv, [Next]_vars, NEW id \in Ids, brk' > brk, blocks'[id] # blocks[id],
         NEW bp \in FreeIn(AllBlocks)
  PROVE  Size(mem, bp) < sizes'[id] + 8
<1>1. PICK B, S, F : Settled(mem, brk, B, S, F) /\ Owned(B, S, F, mem, blocks, sizes)
  BY DEF HeapInv
<1>2. State(mem, brk, B, S, F, F, {}) /\ F \subseteq B /\ brk \in Nat
  BY <1>1, EndIs DEF Settled, State
<1>3. bp \in F /\ Size(mem, bp) = S[bp]
  <2>1. bp \in F
    BY <1>1, BlocksAre
  <2> QED BY <1>2, <2>1, Reads
<1>4. ~ UNCHANGED <<mem, brk, blocks, sizes>>
  <2>1. brk' # brk
    BY <1>2
  <2> QED BY <2>1
<1>5. ~ \E o \in Ids : Gone(B, S, F, o)
  <2>1. brk' # brk
    BY <1>2
  <2> QED BY <2>1 DEF Gone
<1>6. PICK o \in Ids, n \in Requests \ {0} : Got(B, S, F, o, n)
  BY <1>1, <1>4, <1>5, StepIs
<1>7. PICK p \in Nat : blocks' = [blocks EXCEPT ![o] = p] /\ sizes' = [sizes EXCEPT ![o] = n]
  BY <1>1, <1>6, GotKeeps
<1>8. blocks \in [Ids -> Nat] /\ sizes \in [Ids -> Requests \cup {0}]
  BY <1>1 DEF Owned
<1>9. o = id /\ sizes'[id] = n
  BY <1>7, <1>8
<1>10. \A b \in F : brk' > brk /\ blocks'[o] # blocks[o] => S[b] < n + 8
  BY <1>1, <1>6, GotKeeps
<1> QED BY <1>3, <1>9, <1>10

\* The caller finds its number in every word that it asked for.
Undamaged == Contents = [id \in Ids |-> Allocates!Filled(id, sizes[id])]

\* It is so in every state of the invariant.
LEMMA ContentsAre == HeapInv => Undamaged
<1> SUFFICES ASSUME HeapInv PROVE Contents = [id \in Ids |-> Allocates!Filled(id, sizes[id])]
  BY DEF Undamaged
<1>1. PICK B, S, F : Owned(B, S, F, mem, blocks, sizes)
  BY DEF HeapInv
<1>2. ASSUME NEW id \in Ids
      PROVE  [w \in 0 .. WordsFor(sizes[id]) - 1 |-> mem[blocks[id] + 4 * w]] = Allocates!Filled(id, sizes[id])
  <2>1. PICK W : W = 0 .. WordsFor(sizes[id]) - 1
    OBVIOUS
  <2>2. Allocates!Filled(id, sizes[id]) = [w \in W |-> id]
    BY <2>1 DEF Allocates!Filled, Allocates!WordsOf, WordsFor
  <2>3. sizes[id] \in Nat
    <3>1. sizes[id] \in Requests \cup {0}
      BY <1>1 DEF Owned
    <3> QED BY <3>1, RequestNat
  <2>4. WordsFor(sizes[id]) \in Nat /\ WordsFor(0) = 0
    BY <2>3, WordsFit
  <2>5. \A w \in W : mem[blocks[id] + 4 * w] = id
    <3> SUFFICES ASSUME NEW w \in W PROVE mem[blocks[id] + 4 * w] = id
      OBVIOUS
    <3>1. w \in Nat /\ w < WordsFor(sizes[id])
      BY <2>1, <2>4
    <3>2. blocks[id] # Null
      <4>1. sizes[id] # 0
        BY <2>4, <3>1
      <4> QED BY <1>1, <4>1 DEF Owned
    <3>3. PICK j : j = 4 * w
      OBVIOUS
    <3>4. j \in Nat /\ j % 4 = 0 /\ j < 4 * WordsFor(sizes[id])
      BY <2>4, <3>1, <3>3
    <3>5. mem[blocks[id] + j] = id
      BY <1>1, <3>2, <3>4 DEF Owned, LiveOf
    <3> QED BY <3>3, <3>5
  <2> QED BY <2>1, <2>2, <2>5
<1> QED BY <1>2 DEF Contents

\* A block that the caller got is aligned, in the heap, and apart from the others.
LEMMA GotPlaced ==
  ASSUME NEW B, NEW S, NEW F, Settled(mem, brk, B, S, F), Owned(B, S, F, mem, blocks, sizes),
         NEW id \in Ids, NEW n \in Requests \ {0}, Got(B, S, F, id, n)
  PROVE  \E p \in 1 .. MaxHeap : /\ blocks' = [blocks EXCEPT ![id] = p]
                                 /\ Allocates!MayPlace(id, p, n)
<1>1. PICK p \in Nat : p # Null /\ blocks' = [blocks EXCEPT ![id] = p] /\ sizes' = [sizes EXCEPT ![id] = n]
  BY GotKeeps
<1>2. PICK BB, SS, FF : Settled(mem', brk', BB, SS, FF) /\ Owned(BB, SS, FF, mem', blocks', sizes')
  BY GotKeeps
<1>3. PICK kk : kk = brk'
  OBVIOUS
<1>4. Tiles(kk, BB, SS)
  BY <1>2, <1>3 DEF Settled, State
<1>5. kk \in Nat /\ kk =< MaxHeap /\ MaxHeap \in Nat
  BY <1>4, Basics DEF Tiles
<1>6. PICK bl, sz : bl = blocks' /\ sz = sizes'
  OBVIOUS
<1>7. /\ bl \in [Ids -> Nat] /\ sz \in [Ids -> Requests \cup {0}]
      /\ bl[id] = p /\ sz[id] = n /\ \A o \in Ids \ {id} : bl[o] = blocks[o] /\ sz[o] = sizes[o]
  <2>1. blocks \in [Ids -> Nat] /\ sizes \in [Ids -> Requests \cup {0}]
    BY DEF Owned
  <2> QED BY <1>1, <1>6, <2>1
<1>8. ASSUME NEW o \in Ids, bl[o] # Null
      PROVE  /\ bl[o] \in Nat /\ sz[o] \in Nat /\ bl[o] + 8 \in BB /\ (bl[o] + 8) % 8 = 0
             /\ SS[bl[o] + 8] \in Nat /\ sz[o] + 8 =< SS[bl[o] + 8]
             /\ bl[o] + 8 + SS[bl[o] + 8] =< kk + 8
             /\ \A q \in Ids \ {o} : bl[q] # Null => bl[o] # bl[q]
  <2>1. /\ bl[o] + 8 \in BB /\ sz[o] + 8 =< SS[bl[o] + 8]
        /\ \A q \in Ids \ {o} : bl[q] # Null => bl[o] # bl[q]
    BY <1>2, <1>6, <1>8 DEF Owned, LiveOf
  <2>2. sz[o] \in Nat
    <3>1. sz[o] \in Requests \cup {0}
      BY <1>7
    <3> QED BY <3>1, RequestNat
  <2>3. PICK b : b = bl[o] + 8
    OBVIOUS
  <2>4. SS[b] \in Nat /\ b + SS[b] =< kk + 8 /\ b % 8 = 0
    BY <1>4, <2>1, <2>3 DEF Tiles
  <2> QED BY <1>7, <2>1, <2>2, <2>3, <2>4
<1>9. /\ p \in Nat /\ n \in Nat /\ p + 8 \in BB /\ (p + 8) % 8 = 0 /\ SS[p + 8] \in Nat /\ n + 8 =< SS[p + 8]
      /\ p + 8 + SS[p + 8] =< kk + 8
      /\ \A q \in Ids \ {id} : bl[q] # Null => p # bl[q]
  BY <1>1, <1>7, <1>8
<1>10. p \in 1 .. MaxHeap /\ p % 8 = 0 /\ p + n =< MaxHeap
  BY <1>1, <1>5, <1>9 DEF Null
<1>11. ASSUME NEW o \in Ids \ {id}, blocks[o] # Null
       PROVE  Allocates!Disjoint(p, n, blocks[o], sizes[o])
  <2>1. PICK q, k : q = bl[o] /\ k = sz[o]
    OBVIOUS
  <2>2. /\ q = blocks[o] /\ k = sizes[o] /\ q \in Nat /\ k \in Nat /\ q + 8 \in BB /\ SS[q + 8] \in Nat
        /\ k + 8 =< SS[q + 8] /\ p # q
    BY <1>7, <1>8, <1>9, <1>11, <2>1
  <2>3. PICK x, y : x = p + 8 /\ y = q + 8
    OBVIOUS
  <2>4. (x < y => x + SS[x] =< y) /\ (y < x => y + SS[y] =< x)
    BY <1>4, <1>9, <2>2, <2>3, TilesUnique
  <2>5. p + n =< q \/ q + k =< p
    BY <1>9, <2>2, <2>3, <2>4
  <2> QED BY <2>2, <2>5 DEF Allocates!Disjoint
<1>12. Allocates!MayPlace(id, p, n)
  BY <1>10, <1>11 DEF Allocates!MayPlace
<1> QED BY <1>1, <1>10, <1>12

\* The state of mm_init is an initial state of an allocator.
LEMMA AllocatesInit == Init => Allocates!Init
<1> SUFFICES ASSUME Init PROVE Allocates!Init
  OBVIOUS
<1>1. blocks = [id \in Ids |-> Null] /\ sizes = [id \in Ids |-> 0]
  BY DEF Init
<1>2. Contents = [id \in Ids |-> Allocates!Filled(id, sizes[id])]
  BY HeapInvInit, ContentsAre DEF Undamaged
<1>3. \A id \in Ids : Allocates!Filled(id, sizes[id]) = Allocates!Filled(id, 0)
  BY <1>1
<1>4. Contents = [id \in Ids |-> Allocates!Filled(id, 0)]
  BY <1>2, <1>3, Zenon
<1> QED BY <1>1, <1>4 DEF Allocates!Init

\* Every step of mm.c is a step of an allocator.
LEMMA AllocatesStep == HeapInv /\ Undamaged' /\ [Next]_vars => [Allocates!Next]_(Allocates!vars)
<1> SUFFICES ASSUME HeapInv, Undamaged', [Next]_vars PROVE [Allocates!Next]_(Allocates!vars)
  OBVIOUS
<1>1. PICK B, S, F : Settled(mem, brk, B, S, F) /\ Owned(B, S, F, mem, blocks, sizes)
  BY DEF HeapInv
<1>2. Contents = [id \in Ids |-> Allocates!Filled(id, sizes[id])]
  BY ContentsAre DEF Undamaged
<1>3. Contents' = [id \in Ids |-> Allocates!Filled(id, sizes'[id])]
  BY DEF Undamaged, Allocates!Filled
<1>4. ASSUME NEW id \in Ids, NEW n, sizes' = [sizes EXCEPT ![id] = n]
      PROVE  Contents' = [Contents EXCEPT ![id] = Allocates!Filled(id, n)]
  <2>1. sizes \in [Ids -> Requests \cup {0}]
    BY <1>1 DEF Owned
  <2>2. sizes'[id] = n /\ \A o \in Ids \ {id} : sizes'[o] = sizes[o]
    BY <1>4, <2>1
  <2>3. \A o \in Ids : Allocates!Filled(o, sizes'[o]) =
          IF o = id THEN Allocates!Filled(id, n) ELSE Allocates!Filled(o, sizes[o])
    BY <2>2, Zenon
  <2>4. Contents' = [o \in Ids |-> IF o = id THEN Allocates!Filled(id, n) ELSE Allocates!Filled(o, sizes[o])]
    BY <1>3, <2>3, Zenon
  <2> QED BY <1>2, <2>4
<1>5. CASE UNCHANGED <<mem, brk, blocks, sizes>>
  <2>1. Contents' = Contents
    BY <1>5 DEF Contents, WordsFor
  <2> QED BY <1>5, <2>1 DEF Allocates!vars
<1>6. ASSUME NEW id \in Ids, Gone(B, S, F, id) PROVE Allocates!Next
  <2>1. blocks[id] # Null /\ blocks' = [blocks EXCEPT ![id] = Null] /\ sizes' = [sizes EXCEPT ![id] = 0]
    BY <1>6 DEF Gone
  <2>2. Contents' = [Contents EXCEPT ![id] = Allocates!Filled(id, 0)]
    BY <1>4, <2>1
  <2>3. Allocates!Free(id)
    BY <2>1, <2>2 DEF Allocates!Free
  <2> QED BY <2>3 DEF Allocates!Next
<1>7. ASSUME NEW id \in Ids, NEW n \in Requests \ {0}, Got(B, S, F, id, n) PROVE Allocates!Next
  <2>1. sizes' = [sizes EXCEPT ![id] = n]
    BY <1>7 DEF Got
  <2>2. Contents' = [Contents EXCEPT ![id] = Allocates!Filled(id, n)]
    BY <1>4, <2>1
  <2>3. \E p \in 1 .. MaxHeap : /\ blocks' = [blocks EXCEPT ![id] = p]
                                /\ Allocates!MayPlace(id, p, n)
    BY <1>1, <1>7, GotPlaced
  <2>4. Allocates!Placed(id, n)
    BY <2>1, <2>2, <2>3 DEF Allocates!Placed
  <2>5. Allocates!Malloc(id, n) \/ Allocates!Realloc(id, n)
    BY <2>4 DEF Allocates!Malloc, Allocates!Realloc
  <2> QED BY <2>5 DEF Allocates!Next
<1> QED BY <1>1, <1>5, <1>6, <1>7, StepIs

\* THEOREM: the end of the heap moves for a new or moved block only if no free
\* block is large enough: find_fit does not overlook one.
THEOREM GrowsWhenFull == Spec => GrowsOnlyWhenFull
<1> DEFINE A == \A id \in Ids : brk' > brk /\ blocks'[id] # blocks[id]
                                => \A bp \in FreeIn(AllBlocks) : Size(mem, bp) < sizes'[id] + 8
<1>1. HeapInv /\ [Next]_vars => A
  BY GrowsStep
<1>2. GrowsOnlyWhenFull <=> [][A]_vars
  BY DEF GrowsOnlyWhenFull
<1> HIDE DEF A
<1>3. HeapInv /\ [Next]_vars => [A]_vars
  BY <1>1
<1> QED BY <1>2, <1>3, HeapIsSound, PTL DEF Spec

\* THEOREM: malloc, free and realloc of mm.c do what an allocator promises:
\* blocks are aligned, in the heap and apart, and keep what was written.
THEOREM MallocAllocates == Spec => ImplementsAllocator
<1>1. Init => Allocates!Init
  BY AllocatesInit
<1>2. HeapInv /\ Undamaged' /\ [Next]_vars => [Allocates!Next]_(Allocates!vars)
  BY AllocatesStep
<1>3. HeapInv => Undamaged
  BY ContentsAre
<1> QED BY <1>1, <1>2, <1>3, HeapIsSound, PTL DEF Spec, ImplementsAllocator, Allocates!Spec
=============================================================================
