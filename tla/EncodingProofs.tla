---------------------------- MODULE EncodingProofs ----------------------------
(***************************************************************************)
(* Proofs about Encoding for any job documents, limits, outputs of FFmpeg  *)
(* and sizes of the reads.                                                 *)
(***************************************************************************)
EXTENDS Encoding, SequenceTheorems, FiniteSetTheorems, WellFoundedInduction, TLAPS

-----------------------------------------------------------------------------
(* Sequences.                                                              *)

\* A concatenation is the sequence that has the elements of both in turn.
LEMMA IsConcat ==
  ASSUME NEW S, NEW s \in Seq(S), NEW t \in Seq(S), NEW u \in Seq(S),
         Len(u) = Len(s) + Len(t),
         \A i \in 1..Len(s) : u[i] = s[i],
         \A i \in 1..Len(t) : u[Len(s) + i] = t[i]
  PROVE  s \o t = u
<1> DEFINE m == Len(s)
           n == Len(t)
<1>0. m \in Nat /\ n \in Nat
  OBVIOUS
<1>1. s \o t \in Seq(S) /\ Len(s \o t) = m + n
  OBVIOUS
<1>2. ASSUME NEW i \in 1..m + n PROVE (s \o t)[i] = u[i]
  <2>1. CASE i <= m
    BY <2>1
  <2>2. CASE ~(i <= m)
    <3>1. i - m \in 1..n /\ u[m + (i - m)] = t[i - m]
      BY <2>2
    <3>2. (s \o t)[i] = t[i - m]
      BY <2>2
    <3> QED BY <2>2, <3>1, <3>2
  <2> QED BY <2>1, <2>2
<1> QED BY <1>1, <1>2, SeqEqual

\* A part is the sequence that has the elements between its bounds.
LEMMA IsSubSeq ==
  ASSUME NEW S, NEW s \in Seq(S), NEW m \in Nat \ {0}, NEW n \in Nat, m <= n + 1, n <= Len(s),
         NEW u \in Seq(S), Len(u) = n + 1 - m,
         \A i \in 1..n + 1 - m : u[i] = s[m + i - 1]
  PROVE  SubSeq(s, m, n) = u
<1>1. SubSeq(s, m, n) \in Seq(S) /\ Len(SubSeq(s, m, n)) = n + 1 - m
  OBVIOUS
<1>2. ASSUME NEW i \in 1..n + 1 - m PROVE SubSeq(s, m, n)[i] = u[i]
  OBVIOUS
<1> QED BY <1>1, <1>2, SeqEqual

-----------------------------------------------------------------------------
(* The log.                                                                *)

\* The bytes from one position of the log to another.
Bytes(first, last) == [i \in 1..last - first + 1 |-> first - 1 + i]

\* What they are.
LEMMA BytesElements ==
  ASSUME NEW a \in Nat, NEW b \in Nat, NEW n \in Nat, b + 1 = a + n
  PROVE  /\ Bytes(a, b) \in Seq(Int)
         /\ Len(Bytes(a, b)) = n
         /\ \A i \in 1..n : Bytes(a, b)[i] = a - 1 + i
<1>1. b - a + 1 = n
  OBVIOUS
<1>2. Bytes(a, b) = [i \in 1..n |-> a - 1 + i]
  BY <1>1 DEF Bytes
<1> QED BY <1>2

\* The end of consecutive bytes is consecutive.
LEMMA KeepNewestOfBytes ==
  ASSUME NEW first \in Nat, NEW last \in Nat, first <= last + 1
  PROVE  KeepNewest(Bytes(first, last)) =
           Bytes(last + 1 - Smaller(LogLimit, last + 1 - first), last)
<1> DEFINE all == Bytes(first, last)
           n == last - first + 1
           m == Smaller(LogLimit, n)
           end == Bytes(last + 1 - m, last)
<1>1. n \in Nat /\ m \in Nat /\ m <= n /\ last + 1 - m \in Nat
  BY LimitsAssumption DEF Smaller
<1>2. all \in Seq(Int) /\ Len(all) = n /\ \A i \in 1..n : all[i] = first - 1 + i
  BY BytesElements
<1> HIDE DEF m
<1>3. end \in Seq(Int) /\ Len(end) = m /\ \A i \in 1..m : end[i] = last - m + i
  <2>1. last + 1 = (last + 1 - m) + m
    BY <1>1
  <2>2. end \in Seq(Int) /\ Len(end) = m /\ \A i \in 1..m : end[i] = last + 1 - m - 1 + i
    BY <1>1, <2>1, BytesElements
  <2> QED BY <1>1, <2>2
<1> HIDE DEF all, end
<1>4. KeepNewest(all) = SubSeq(all, n - m + 1, n)
  BY <1>2 DEF KeepNewest, m
<1>5. \A i \in 1..m : end[i] = all[n - m + 1 + i - 1]
  BY <1>1, <1>2, <1>3
<1>6. SubSeq(all, n - m + 1, n) = end
  <2>1. n - m + 1 \in Nat \ {0} /\ n - m + 1 <= n + 1 /\ n + 1 - (n - m + 1) = m
    BY <1>1
  <2> HIDE DEF n
  <2> QED BY <1>1, <1>2, <1>3, <1>5, <2>1, IsSubSeq
<1> QED BY <1>4, <1>6 DEF all, end, m

\* Consecutive bytes and those behind them are consecutive.
LEMMA BytesJoin ==
  ASSUME NEW a \in Nat, NEW b \in Nat, NEW c \in Nat, a <= b + 1, b <= c
  PROVE  Bytes(a, b) \o Bytes(b + 1, c) = Bytes(a, c)
<1> DEFINE m == b - a + 1
           n == c - (b + 1) + 1
           s == [i \in 1..m |-> a - 1 + i]
           t == [i \in 1..n |-> b + i]
           u == [i \in 1..m + n |-> a - 1 + i]
<1>1. m \in Nat /\ n \in Nat /\ m + n = c - a + 1 /\ a - 1 + m = b
  OBVIOUS
<1>2. Bytes(a, b) = s /\ Bytes(b + 1, c) = t /\ Bytes(a, c) = u
  <2>1. Bytes(a, b) = s
    BY DEF Bytes
  <2>2. Bytes(b + 1, c) = [i \in 1..n |-> b + 1 - 1 + i]
    BY DEF Bytes
  <2>3. Bytes(a, c) = [i \in 1..c - a + 1 |-> a - 1 + i]
    BY DEF Bytes
  <2>4. [i \in 1..n |-> b + 1 - 1 + i] = t
    OBVIOUS
  <2>5. [i \in 1..c - a + 1 |-> a - 1 + i] = u
    BY <1>1
  <2> QED BY <2>1, <2>2, <2>3, <2>4, <2>5
<1> HIDE DEF m, n
<1>3. s \in Seq(Int) /\ Len(s) = m /\ \A i \in 1..m : s[i] = a - 1 + i
  BY <1>1
<1>4. t \in Seq(Int) /\ Len(t) = n /\ \A i \in 1..n : t[i] = b + i
  BY <1>1
<1>5. u \in Seq(Int) /\ Len(u) = m + n /\ \A i \in 1..m + n : u[i] = a - 1 + i
  BY <1>1
<1> HIDE DEF s, t, u
<1>6. \A i \in 1..m : u[i] = s[i]
  BY <1>1, <1>3, <1>5
<1>7. ASSUME NEW i \in 1..n PROVE u[m + i] = t[i]
  <2>1. m + i \in 1..m + n /\ a - 1 + (m + i) = b + i
    BY <1>1
  <2> QED BY <1>4, <1>5, <2>1
<1>8. /\ s \in Seq(Int) /\ t \in Seq(Int) /\ u \in Seq(Int)
      /\ Len(u) = Len(s) + Len(t)
      /\ \A i \in 1..Len(s) : u[i] = s[i]
      /\ \A i \in 1..Len(t) : u[Len(s) + i] = t[i]
  BY <1>3, <1>4, <1>5, <1>6, <1>7
<1>9. s \o t = u
  BY <1>8, IsConcat, Zenon
<1> QED BY <1>2, <1>9

\* A part of a read is consecutive.
LEMMA BytesPart ==
  ASSUME NEW n \in Nat, NEW base \in Nat, NEW a \in Nat \ {0}, NEW b \in Nat, a <= b + 1, b <= n
  PROVE  SubSeq([i \in 1..n |-> base + i], a, b) = Bytes(base + a, base + b)
<1> DEFINE m == b + 1 - a
           all == [i \in 1..n |-> base + i]
           part == [i \in 1..m |-> base + a - 1 + i]
<1>1. m \in Nat /\ (base + b) - (base + a) + 1 = m
  OBVIOUS
<1>2. Bytes(base + a, base + b) = part
  BY <1>1 DEF Bytes
<1>3. all \in Seq(Int) /\ Len(all) = n /\ \A i \in 1..n : all[i] = base + i
  OBVIOUS
<1>4. part \in Seq(Int) /\ Len(part) = m /\ \A i \in 1..m : part[i] = base + a - 1 + i
  BY <1>1
<1> HIDE DEF all, part
<1>5. \A i \in 1..m : part[i] = all[a + i - 1]
  BY <1>1, <1>3, <1>4
<1>6. SubSeq(all, a, b) = part
  BY <1>3, <1>4, <1>5, IsSubSeq
<1> QED BY <1>2, <1>6 DEF all

\* No bytes are the same anywhere.
LEMMA NoBytes ==
  ASSUME NEW x \in Nat, NEW y \in Nat
  PROVE  Bytes(x + 1, x) = Bytes(y + 1, y)
<1>1. x - (x + 1) + 1 = 0 /\ y - (y + 1) + 1 = 0
  OBVIOUS
<1> QED BY <1>1 DEF Bytes

\* Head and tail, as bytes of the log.
LEMMA LogAsBytes ==
  ASSUME NEW l \in Nat
  PROVE  LET start == Smaller(LogLimit, l)
             others == Smaller(LogLimit, l - start)
         IN /\ [i \in 1..start |-> i] = Bytes(1, start)
            /\ [i \in 1..others |-> l - others + i] = Bytes(l + 1 - others, l)
<1> DEFINE start == Smaller(LogLimit, l)
           others == Smaller(LogLimit, l - start)
<1>1. start \in Nat /\ others \in Nat
  BY LimitsAssumption DEF Smaller
<1> HIDE DEF start, others
<1>2. Bytes(1, start) = [i \in 1..start |-> i]
  <2>1. start - 1 + 1 = start /\ \A i \in 1..start : 1 - 1 + i = i
    BY <1>1
  <2> QED BY <2>1 DEF Bytes
<1>3. Bytes(l + 1 - others, l) = [i \in 1..others |-> l - others + i]
  <2>1. /\ l - (l + 1 - others) + 1 = others
        /\ \A i \in 1..others : (l + 1 - others) - 1 + i = l - others + i
    BY <1>1
  <2> QED BY <2>1 DEF Bytes
<1> QED BY <1>2, <1>3 DEF start, others

\* A read of any size: what fits goes to the head, the rest behind the tail.
LEMMA CaptureKeepsBothEnds ==
  ASSUME logged \in Nat, LogKeepsBothEnds, NEW n \in Nat,
         Capture([i \in 1..n |-> logged + i]), logged' = logged + n
  PROVE  LogKeepsBothEnds'
<1> DEFINE chunk == [i \in 1..n |-> logged + i]
           start == Smaller(LogLimit, logged)
           others == Smaller(LogLimit, logged - start)
           fits == Smaller(n, LogLimit - start)
<1>1. /\ start \in Nat /\ others \in Nat /\ fits \in Nat /\ fits <= n
      /\ others <= logged
      /\ fits # 0 => start = logged /\ others = 0
      /\ start + fits = Smaller(LogLimit, logged + n)
      /\ Smaller(LogLimit, logged + n - (start + fits))
           = Smaller(LogLimit, n - fits + others)
      /\ logged' \in Nat
  BY LimitsAssumption DEF Smaller
<1>2. head = Bytes(1, start) /\ tail = Bytes(logged + 1 - others, logged)
  BY LogAsBytes DEF LogKeepsBothEnds
<1>3. Len(head) = start
  <2> HIDE DEF start
  <2> QED BY <1>1, <1>2 DEF Bytes
<1>4. Len(chunk) = n
  OBVIOUS
<1>5. head' = head \o SubSeq(chunk, 1, fits)
      /\ tail' = KeepNewest(tail \o SubSeq(chunk, fits + 1, n))
  BY <1>3, <1>4 DEF Capture
<1> HIDE DEF start, others, fits
<1>6. /\ SubSeq(chunk, 1, fits) = Bytes(logged + 1, logged + fits)
      /\ SubSeq(chunk, fits + 1, n) = Bytes(logged + (fits + 1), logged + n)
  <2>1. /\ fits \in Nat /\ 1 \in Nat \ {0} /\ 1 <= fits + 1 /\ fits <= n
        /\ fits + 1 \in Nat \ {0} /\ fits + 1 <= n + 1 /\ n <= n
    BY <1>1
  <2>2. SubSeq(chunk, 1, fits) = Bytes(logged + 1, logged + fits)
    BY <2>1, BytesPart
  <2>3. SubSeq(chunk, fits + 1, n) = Bytes(logged + (fits + 1), logged + n)
    BY <2>1, BytesPart
  <2> QED BY <2>2, <2>3
<1> HIDE DEF chunk
<1>7. head' = Bytes(1, start + fits)
  <2>1. Bytes(logged + 1, logged + fits) = Bytes(start + 1, start + fits)
    <3>1. CASE fits = 0
      <4>1. logged + fits = logged /\ start + fits = start
        BY <1>1, <3>1
      <4> QED BY <1>1, <4>1, NoBytes
    <3>2. CASE fits # 0
      BY <1>1, <3>2
    <3> QED BY <3>1, <3>2
  <2>2. Bytes(1, start) \o Bytes(start + 1, start + fits) = Bytes(1, start + fits)
    <3>1. start + fits \in Nat /\ 1 <= start + 1 /\ start <= start + fits
      BY <1>1
    <3> QED BY <1>1, <3>1, BytesJoin
  <2> QED BY <1>2, <1>5, <1>6, <2>1, <2>2
<1> DEFINE first == logged + fits + 1 - others
<1>8. tail \o SubSeq(chunk, fits + 1, n) = Bytes(first, logged + n)
  <2>1. Bytes(logged + 1 - others, logged) = Bytes(first, logged + fits)
    <3>1. CASE fits = 0
      <4>1. logged + fits = logged /\ first = logged + 1 - others
        BY <1>1, <3>1
      <4> QED BY <4>1
    <3>2. CASE fits # 0
      <4>1. others = 0 /\ logged + 1 - others = logged + 1 /\ first = (logged + fits) + 1
        BY <1>1, <3>2
      <4> QED BY <1>1, <4>1, NoBytes
    <3> QED BY <3>1, <3>2
  <2>2. first \in Nat /\ logged + fits \in Nat /\ logged + n \in Nat
        /\ first <= (logged + fits) + 1 /\ logged + fits <= logged + n
        /\ logged + (fits + 1) = (logged + fits) + 1
    BY <1>1
  <2> HIDE DEF first
  <2>3. Bytes(first, logged + fits) \o Bytes((logged + fits) + 1, logged + n)
          = Bytes(first, logged + n)
    BY <2>2, BytesJoin
  <2> QED BY <1>2, <1>6, <2>1, <2>2, <2>3
<1>9. tail' = Bytes(logged' + 1 - Smaller(LogLimit, n - fits + others), logged')
  <2>1. first \in Nat /\ logged' \in Nat /\ first <= logged' + 1
        /\ logged' + 1 - first = n - fits + others
    BY <1>1
  <2> HIDE DEF first
  <2>2. tail' = KeepNewest(Bytes(first, logged'))
    BY <1>5, <1>8
  <2> QED BY <2>1, <2>2, KeepNewestOfBytes
<1>10. /\ head' = Bytes(1, Smaller(LogLimit, logged'))
       /\ tail' = Bytes(logged' + 1 - Smaller(LogLimit, logged' - Smaller(LogLimit, logged')), logged')
  BY <1>1, <1>7, <1>9
<1> QED BY <1>1, <1>10, LogAsBytes DEF LogKeepsBothEnds

\* The part of the state the log is proved from.
LogSound == logged \in Nat /\ LogKeepsBothEnds

\* Wherever the reads of standard error end, the log of an event is the first
\* LogLimit bytes of it and the last LogLimit of the others, each byte once and
\* in order (read_log in execute).
THEOREM LogAlwaysKeepsBothEnds == Spec => []LogKeepsBothEnds
<1>1. Init => LogSound
  <2> SUFFICES ASSUME Init PROVE LogSound
    OBVIOUS
  <2> DEFINE start == Smaller(LogLimit, 0)
             others == Smaller(LogLimit, 0 - start)
  <2>1. logged = 0 /\ head = <<>> /\ tail = <<>>
    BY DEF Init
  <2>2. start = 0 /\ others = 0
    <3>1. start = 0
      BY LimitsAssumption DEF Smaller
    <3> HIDE DEF start
    <3> QED BY <3>1, LimitsAssumption DEF Smaller
  <2> HIDE DEF start, others
  <2>3. ASSUME NEW a \in Nat, NEW b \in Nat, b + 1 = a PROVE Bytes(a, b) = <<>>
    <3>1. Bytes(a, b) \in Seq(Int) /\ Len(Bytes(a, b)) = 0
      BY <2>3, BytesElements
    <3> QED BY <3>1, EmptySeq
  <2>4. 1 \in Nat /\ 0 \in Nat /\ 0 + 1 = 1 /\ 0 + 1 - 0 = 1
    OBVIOUS
  <2>5. Bytes(1, 0) = <<>> /\ Bytes(0 + 1 - 0, 0) = <<>>
    BY <2>3, <2>4
  <2>6. /\ [i \in 1..start |-> i] = <<>>
        /\ [i \in 1..others |-> 0 - others + i] = <<>>
    BY <2>2, <2>4, <2>5, LogAsBytes DEF start, others
  <2> QED BY <2>1, <2>6 DEF LogSound, LogKeepsBothEnds, start, others
<1>2. LogSound /\ [Next]_vars => LogSound'
  <2> SUFFICES ASSUME LogSound, [Next]_vars PROVE LogSound'
    OBVIOUS
  <2>1. logged \in Nat /\ LogKeepsBothEnds
    BY DEF LogSound
  <2>2. ASSUME UNCHANGED logVars PROVE LogSound'
    BY <2>1, <2>2 DEF LogSound, LogKeepsBothEnds, logVars
  <2>3. ASSUME NEW n \in 1..ReadLimit, ReadLog(n) PROVE LogSound'
    <3>1. n \in Nat
      BY LimitsAssumption
    <3>2. Capture([i \in 1..n |-> logged + i]) /\ logged' = logged + n
      BY <2>3 DEF ReadLog
    <3>3. LogKeepsBothEnds'
      BY <2>1, <3>1, <3>2, CaptureKeepsBothEnds
    <3> QED BY <2>1, <3>1, <3>2, <3>3 DEF LogSound
  <2>4. ASSUME NEW d \in Documents, Refuse(d) \/ Accept(d) PROVE LogSound'
    BY <2>2, <2>4 DEF Refuse, Accept
  <2>5. ASSUME Spawn PROVE LogSound'
    BY <2>2, <2>5 DEF Spawn
  <2>6. ASSUME NEW n \in 1..ReadLimit, ReadProgress(n) PROVE LogSound'
    BY <2>2, <2>6 DEF ReadProgress
  <2>7. ASSUME Finish \/ Abort PROVE LogSound'
    BY <2>2, <2>7 DEF Finish, Abort
  <2>8. ASSUME UNCHANGED vars PROVE LogSound'
    BY <2>2, <2>8 DEF vars
  <2> QED BY <2>3, <2>4, <2>5, <2>6, <2>7, <2>8 DEF Next
<1>3. LogSound => LogKeepsBothEnds
  BY DEF LogSound
<1> QED BY <1>1, <1>2, <1>3, PTL DEF Spec

-----------------------------------------------------------------------------
(* The command.                                                            *)

\* A set of naturals that is not empty has a least element.
LEMMA LeastExists ==
  ASSUME NEW S, S \subseteq Nat, S # {}
  PROVE  \E i \in S : \A j \in S : i <= j
<1>1. PICK i \in S : \A j \in S : ~(<<j, i>> \in OpToRel(<, Nat))
  BY NatLessThanWellFounded, WFMin, Zenon
<1>2. \A j \in S : ~(j < i)
  BY <1>1 DEF OpToRel
<1> QED BY <1>2

\* The equation of FlattenSeq.
Flattens(g, seqs, n) == \A i \in 1..n : g[i] = IF i = 1 THEN seqs[i] ELSE g[i - 1] \o seqs[i]

\* There is only one such function: at the least place where two differ, they
\* agree before it.
LEMMA Flattened ==
  ASSUME NEW seqs, NEW n \in Nat \ {0}, Len(seqs) = n, NEW g, Flattens(g, seqs, n)
  PROVE  FlattenSeq(seqs) = g[n]
<1>0. \A i \in 1..n : g[i] = IF i = 1 THEN seqs[i] ELSE g[i - 1] \o seqs[i]
  BY DEF Flattens
<1> DEFINE f == CHOOSE h : h = [i \in 1..n |-> IF i = 1 THEN seqs[i] ELSE h[i - 1] \o seqs[i]]
<1>1. FlattenSeq(seqs) = f[n]
  BY Zenon DEF FlattenSeq
<1>2. f = [i \in 1..n |-> IF i = 1 THEN seqs[i] ELSE f[i - 1] \o seqs[i]]
  <2> DEFINE h == [i \in 1..n |-> g[i]]
  <2>1. ASSUME NEW i \in 1..n PROVE g[i] = IF i = 1 THEN seqs[i] ELSE h[i - 1] \o seqs[i]
    <3>1. CASE i = 1
      BY <1>0, <3>1
    <3>2. CASE i # 1
      <4>1. i - 1 \in 1..n
        BY <3>2
      <4>2. h[i - 1] = g[i - 1]
        BY <4>1
      <4> QED BY <1>0, <3>2, <4>2
    <3> QED BY <3>1, <3>2
  <2>2. h = [i \in 1..n |-> IF i = 1 THEN seqs[i] ELSE h[i - 1] \o seqs[i]]
    BY <2>1, Zenon
  <2> HIDE DEF h
  <2> QED BY <2>2, Zenon
<1> HIDE DEF f
<1> DEFINE apart == {i \in 1..n : f[i] # g[i]}
<1>3. apart = {}
  <2> SUFFICES ASSUME apart # {} PROVE FALSE
    OBVIOUS
  <2>1. PICK i \in apart : \A j \in apart : i <= j
    <3>1. apart \subseteq Nat
      OBVIOUS
    <3> HIDE DEF apart
    <3> QED BY <3>1, LeastExists
  <2>2. CASE i = 1
    <3>1. f[1] = seqs[1] /\ g[1] = seqs[1]
      BY <1>0, <1>2
    <3> QED BY <2>2, <3>1
  <2>3. CASE i # 1
    <3>1. i - 1 \in 1..n /\ i - 1 \notin apart
      BY <2>1, <2>3
    <3>2. f[i] = f[i - 1] \o seqs[i] /\ g[i] = g[i - 1] \o seqs[i]
      BY <1>0, <1>2, <2>3
    <3> QED BY <3>1, <3>2
  <2> QED BY <2>2, <2>3
<1>4. n \in 1..n
  OBVIOUS
<1>5. n \notin apart
  BY <1>3
<1>6. f[n] = g[n]
  BY <1>4, <1>5
<1> QED BY <1>1, <1>6

\* What a word of the job becomes, the output aside.
Word(arg) == IF arg = "{input}" THEN Agent("INPUT") ELSE Caller(arg)

\* What a number among others says of them.
LEMMA Within ==
  ASSUME NEW n \in Nat, NEW p \in 1..n
  PROVE  n \in 1..n /\ p \in Nat \ {0} /\ (p + 1 \in 1..n /\ p + 1 # n => p + 1 < n)
OBVIOUS

\* A word stands at one of the places up to n.
At(words, n, arg, k) == \A j \in 1..n : words[j] = arg <=> j = k

\* Where the words stand that may occur once.
LEMMA ArgsShape ==
  ASSUME NEW n \in Nat, NEW args, DOMAIN args = 1..n, args[n] = "{output}",
         NEW p \in 1..n, Places(args, "-i") = {p}, Places(args, "{input}") = {p + 1},
         NEW l \in 1..n, Places(args, "{output}") = {l}
  PROVE  /\ p \in Nat \ {0} /\ p + 1 < n
         /\ At(args, n, "-i", p) /\ At(args, n, "{input}", p + 1) /\ At(args, n, "{output}", n)
<1>1. ASSUME NEW j \in 1..n, NEW arg, NEW k, Places(args, arg) = {k}
      PROVE  args[j] = arg <=> j = k
  <2>1. j \in Places(args, arg) <=> args[j] = arg
    BY Zenon DEF Places
  <2> QED BY <1>1, <2>1, Zenon
<1>2. ASSUME NEW arg, NEW k, Places(args, arg) = {k}
      PROVE  k \in 1..n /\ args[k] = arg
  <2>1. k \in Places(args, arg)
    BY <1>2, Zenon
  <2> QED BY <2>1, Zenon DEF Places
<1>3. n \in 1..n
  BY Within, Zenon
<1>4. n = l
  BY <1>1, <1>3, Zenon
<1>5. p + 1 \in 1..n /\ args[p + 1] = "{input}"
  BY <1>2, Zenon
<1>6. p + 1 # n
  BY <1>5, Zenon
<1>7. At(args, n, "-i", p)
  BY <1>1, Zenon DEF At
<1>9. At(args, n, "{input}", p + 1)
  BY <1>1, Zenon DEF At
<1>10. At(args, n, "{output}", n)
  BY <1>1, <1>4, Zenon DEF At
<1>8. p \in Nat \ {0} /\ p + 1 < n
  BY <1>5, <1>6, Within, Zenon
<1> QED BY <1>7, <1>8, <1>9, <1>10, Zenon

\* A sequence of one.
LEMMA Singleton ==
  ASSUME NEW S, NEW x \in S
  PROVE  <<x>> \in Seq(S) /\ Len(<<x>>) = 1 /\ <<x>>[1] = x
OBVIOUS

\* Words that stay one word each.
OneEach(seqs, w, n) == \A i \in 1..n - 1 : seqs[i] = <<w[i]>>

\* They come in turn, and then what the last one becomes.
LEMMA FlattenedWords ==
  ASSUME NEW S, NEW n \in Nat \ {0, 1}, NEW seqs, Len(seqs) = n, seqs[n] \in Seq(S),
         NEW w \in [1..n - 1 -> S], OneEach(seqs, w, n)
  PROVE  FlattenSeq(seqs) = w \o seqs[n]
<1> DEFINE last == seqs[n]
<1>a. last \in Seq(S)
  OBVIOUS
<1> HIDE DEF last
<1>0. \A i \in 1..n - 1 : seqs[i] = <<w[i]>>
  BY DEF OneEach
<1> DEFINE b == [k \in 1..n - 1 |-> [i \in 1..k |-> w[i]]]
<1>1. ASSUME NEW k \in 1..n - 1
      PROVE  /\ b[k] \in Seq(S) /\ Len(b[k]) = k
             /\ b[k][k] = w[k]
             /\ \A i \in 1..k : b[k][i] = w[i]
             /\ w[k] \in S
  OBVIOUS
<1>2. b[n - 1] = w
  OBVIOUS
<1> HIDE DEF b
<1>3. b[1] = <<w[1]>>
  <2> DEFINE s == b[1]
             t == <<w[1]>>
  <2>1. 1 \in 1..n - 1
    OBVIOUS
  <2>2. s \in Seq(S) /\ Len(s) = 1 /\ s[1] = w[1]
    BY <1>1, <2>1
  <2>3. t \in Seq(S) /\ Len(t) = 1 /\ t[1] = w[1]
    BY <1>1, <2>1, Singleton, Zenon
  <2> HIDE DEF s, t
  <2>4. s = t
    BY <2>2, <2>3, SeqEqual
  <2> QED BY <2>4 DEF s, t
<1>4. ASSUME NEW k \in 2..n - 1 PROVE b[k - 1] \o <<w[k]>> = b[k]
  <2> DEFINE s == b[k - 1]
             t == <<w[k]>>
             u == b[k]
  <2>1. k - 1 \in 1..n - 1 /\ k \in 1..n - 1
    OBVIOUS
  <2>2. /\ s \in Seq(S) /\ u \in Seq(S)
        /\ Len(s) = k - 1 /\ Len(u) = k /\ w[k] = u[k]
    BY <1>1, <2>1
  <2>6. t \in Seq(S) /\ Len(t) = 1 /\ t[1] = w[k]
    BY <1>1, <2>1, Singleton, Zenon
  <2>3. \A i \in 1..k - 1 : u[i] = s[i]
    BY <1>1, <2>1
  <2> HIDE DEF s, t, u
  <2>4. /\ Len(u) = Len(s) + Len(t)
        /\ \A i \in 1..Len(s) : u[i] = s[i]
        /\ \A i \in 1..Len(t) : u[Len(s) + i] = t[i]
    BY <2>1, <2>2, <2>3, <2>6
  <2>5. s \o t = u
    BY <2>2, <2>4, <2>6, IsConcat, Zenon
  <2> QED BY <2>5 DEF s, t, u
<1> DEFINE g == [k \in 1..n |-> IF k = n THEN w \o last ELSE b[k]]
<1>5. ASSUME NEW k \in 1..n
      PROVE  g[k] = IF k = 1 THEN seqs[k] ELSE g[k - 1] \o seqs[k]
  <2>1. CASE k = 1
    <3>1. 1 \in 1..n - 1 /\ 1 \in 1..n /\ 1 # n
      OBVIOUS
    <3>2. seqs[1] = <<w[1]>> /\ g[1] = b[1]
      BY <1>0, <3>1
    <3> QED BY <1>3, <2>1, <3>2
  <2>2. CASE k # 1 /\ k # n
    <3>1. k \in 2..n - 1 /\ k \in 1..n - 1 /\ k - 1 \in 1..n /\ k - 1 # n
      BY <2>2
    <3>2. g[k] = b[k] /\ g[k - 1] = b[k - 1] /\ seqs[k] = <<w[k]>>
      BY <1>0, <2>2, <3>1
    <3> QED BY <1>4, <2>2, <3>1, <3>2
  <2>3. CASE k = n
    <3>1. k - 1 \in 1..n /\ k - 1 # n /\ k # 1
      BY <2>3
    <3>2. g[k] = w \o last /\ g[k - 1] = w
      BY <1>2, <2>3, <3>1
    <3> QED BY <2>3, <3>1, <3>2 DEF last
  <2> QED BY <2>1, <2>2, <2>3
<1>7. g[n] = w \o last
  OBVIOUS
<1> HIDE DEF g
<1>8. FlattenSeq(seqs) = g[n]
  <2>1. n \in Nat \ {0}
    OBVIOUS
  <2>2. Flattens(g, seqs, n)
    BY <1>5 DEF Flattens
  <2> QED BY <2>1, <2>2, Flattened, Zenon
<1> QED BY <1>7, <1>8 DEF last

\* A sequence of three.
LEMMA Triple ==
  ASSUME NEW S, NEW x \in S, NEW y \in S, NEW z \in S
  PROVE  <<x, y, z>> \in Seq(S) /\ Len(<<x, y, z>>) = 3
         /\ <<x, y, z>>[1] = x /\ <<x, y, z>>[2] = y /\ <<x, y, z>>[3] = z
OBVIOUS

\* Three others stand behind m words.
Fronts(c, w, last, m) ==
  /\ DOMAIN c = 1..m + 3 /\ Len(c) = m + 3
  /\ \A i \in 1..m : c[i] = w[i]
  /\ c[m + 1] = last[1] /\ c[m + 2] = last[2] /\ c[m + 3] = last[3]

\* Words in front of three others.
LEMMA InFront ==
  ASSUME NEW S, NEW m \in Nat, NEW w \in Seq(S), Len(w) = m,
         NEW last \in Seq(S), Len(last) = 3
  PROVE  Fronts(w \o last, w, last, m)
<1> DEFINE c == w \o last
<1>1. /\ c \in Seq(S) /\ Len(c) = Len(w) + Len(last)
      /\ \A i \in 1..Len(w) + Len(last) :
           c[i] = IF i <= Len(w) THEN w[i] ELSE last[i - Len(w)]
  BY ConcatProperties, Zenon
<1>2. /\ c \in Seq(S) /\ Len(c) = m + 3
      /\ \A i \in 1..m + 3 : c[i] = IF i <= m THEN w[i] ELSE last[i - m]
  BY <1>1, Zenon
<1>3. DOMAIN c = 1..m + 3
  BY <1>2, LenProperties, Zenon
<1> HIDE DEF c
<1>4. \A i \in 1..m : i \in 1..m + 3 /\ i <= m
  OBVIOUS
<1>5. \A i \in 1..m : c[i] = w[i]
  BY <1>2, <1>4, Zenon
<1>6. ASSUME NEW k \in 1..3 PROVE c[m + k] = last[k]
  <2>1. m + k \in 1..m + 3 /\ ~(m + k <= m) /\ m + k - m = k
    OBVIOUS
  <2> DEFINE i == m + k
  <2>2. i \in 1..m + 3 /\ ~(i <= m) /\ i - m = k
    BY <2>1
  <2> HIDE DEF i
  <2>3. c[i] = last[i - m]
    BY <1>2, <2>2, Zenon
  <2>4. c[i] = last[k]
    BY <2>2, <2>3, Zenon
  <2> QED BY <2>4 DEF i
<1>7. 1 \in 1..3 /\ 2 \in 1..3 /\ 3 \in 1..3
  OBVIOUS
<1>8. c[m + 1] = last[1] /\ c[m + 2] = last[2] /\ c[m + 3] = last[3]
  BY <1>6, <1>7, Zenon
<1> QED BY <1>2, <1>3, <1>5, <1>8, Zenon DEF c, Fronts

\* The numbers of the words and of what stands behind them.
LEMMA Before ==
  ASSUME NEW n \in Nat, NEW p \in Nat \ {0}, p + 1 < n
  PROVE  /\ n \in Nat \ {0, 1} /\ n - 1 \in Nat /\ n \in 1..n
         /\ \A i \in 1..n - 1 : i \in 1..n /\ i # n
         /\ (n - 1) + 1 = n /\ (n - 1) + 2 = n + 1 /\ (n - 1) + 3 = n + 2
         /\ n + 2 - 2 = n /\ n + 2 - 1 = n + 1
         /\ p \in 1..n + 2 /\ p + 1 \in 1..n + 2 /\ n + 2 \in 1..n + 2
OBVIOUS

\* A place in the command: in front, or one of the last three.
LEMMA Behind ==
  ASSUME NEW n \in Nat, NEW p \in Nat \ {0}, p + 1 < n, NEW i \in 1..n + 2
  PROVE  /\ i \in 1..n - 1 \/ i = n \/ i = n + 1 \/ i = n + 2
         /\ i \in 1..n - 1 => i # n + 2
         /\ i = n => i # p /\ i # p + 1 /\ i # n + 2
         /\ i = n + 1 => i # p /\ i # p + 1 /\ i # n + 2
         /\ i = n + 2 => i # p /\ i # p + 1
OBVIOUS

\* A function on the first numbers is a sequence.
LEMMA FunctionIsSeq ==
  ASSUME NEW S, NEW m \in Nat, NEW w \in [1..m -> S]
  PROVE  w \in Seq(S) /\ Len(w) = m
OBVIOUS

\* The places of a word that stands at one.
LEMMA OnePlace ==
  ASSUME NEW c, NEW m, DOMAIN c = 1..m, NEW arg, NEW k \in 1..m, At(c, m, arg, k)
  PROVE  Places(c, arg) = {k}
BY Zenon DEF Places, At

\* What validate lets pass becomes a command with the agent's two paths, each
\* once and in its place.
LEMMA ValidIsPlaced ==
  ASSUME NEW d \in Documents, Valid(d)
  PROVE  LET c == CommandOf(d.args)
             last == Len(c)
         IN /\ \E i \in 1..last : /\ Places(c, Caller("-i")) = {i}
                                 /\ Places(c, Agent("INPUT")) = {i + 1}
            /\ Places(c, Agent("OUTPUT")) = {last}
            /\ c[last - 2] = Agent("-fs") /\ c[last - 1] = Agent("LIMIT")
<1> DEFINE args == d.args
           n == Len(args)
           seqs == [i \in DOMAIN args |-> Expand(args[i])]
           w == [i \in 1..n - 1 |-> Word(args[i])]
           tl == <<Agent("-fs"), Agent("LIMIT"), Agent("OUTPUT")>>
           S == {Word(args[i]) : i \in 1..n - 1}
                \cup {Agent("-fs"), Agent("LIMIT"), Agent("OUTPUT")}
           c == CommandOf(args)
<1>1. args \in Seq(STRING) /\ ArgsFit(args)
  BY DocumentsAssumption DEF Valid
<1> HIDE DEF args
<1>2. n \in Nat /\ DOMAIN args = 1..n
  BY <1>1
<1> HIDE DEF n
<1>3. PICK p \in 1..n, l \in 1..n : /\ Places(args, "-i") = {p}
                                   /\ Places(args, "{input}") = {p + 1}
                                   /\ Places(args, "{output}") = {l}
  BY <1>1, <1>2, Zenon DEF ArgsFit, OneOutput
<1>4. args[n] = "{output}"
  BY <1>1, Zenon DEF ArgsFit, n
<1>5. /\ p \in Nat \ {0} /\ p + 1 < n
      /\ At(args, n, "-i", p) /\ At(args, n, "{input}", p + 1) /\ At(args, n, "{output}", n)
  BY <1>2, <1>3, <1>4, ArgsShape, Zenon
<1>6. /\ n \in Nat \ {0, 1} /\ n - 1 \in Nat /\ n \in 1..n
      /\ \A i \in 1..n - 1 : i \in 1..n /\ i # n
  BY <1>2, <1>5, Before, Zenon
<1>7. ASSUME NEW i \in 1..n - 1
      PROVE  /\ i \in DOMAIN args /\ w[i] = Word(args[i])
             /\ args[i] = "-i" <=> i = p
             /\ args[i] = "{input}" <=> i = p + 1
             /\ args[i] # "{output}"
  <2>1. i \in 1..n /\ i # n
    BY <1>6, Zenon
  <2> QED BY <1>2, <1>5, <2>1, Zenon DEF At
<1>8. w \in [1..n - 1 -> S]
  BY Zenon
<1>9. ASSUME NEW i \in 1..n - 1
      PROVE  /\ seqs[i] = <<w[i]>>
             /\ w[i] = Caller("-i") <=> i = p
             /\ w[i] = Agent("INPUT") <=> i = p + 1
             /\ w[i] # Agent("OUTPUT")
  <2>1. seqs[i] = Expand(args[i])
    BY <1>7, Zenon
  <2>2. args[i] # "{output}" => Expand(args[i]) = <<Word(args[i])>>
    BY DEF Expand, Word
  <2>3. /\ Word(args[i]) = Caller("-i") <=> args[i] = "-i"
        /\ Word(args[i]) = Agent("INPUT") <=> args[i] = "{input}"
        /\ Word(args[i]) # Agent("OUTPUT")
    BY DEF Word, Caller, Agent
  <2> QED BY <1>7, <2>1, <2>2, <2>3, Zenon
<1>10. seqs[n] = tl
  <2>1. seqs[n] = Expand("{output}")
    BY <1>2, <1>4, <1>6, Zenon
  <2>2. Expand("{output}") = <<Agent("-fs"), Agent("LIMIT"), Agent("OUTPUT")>>
    BY DEF Expand
  <2> QED BY <2>1, <2>2, Zenon
<1>11. Len(seqs) = n
  BY <1>2
<1>12. tl \in Seq(S) /\ Len(tl) = 3 /\ tl[1] = Agent("-fs")
       /\ tl[2] = Agent("LIMIT") /\ tl[3] = Agent("OUTPUT")
  BY Triple, Zenon
<1>13. c = FlattenSeq(seqs)
  BY Zenon DEF CommandOf
<1> HIDE DEF seqs, w, tl, S, c
<1>14. OneEach(seqs, w, n)
  BY <1>9, Zenon DEF OneEach
<1>15. c = w \o tl
  <2>1. seqs[n] \in Seq(S)
    BY <1>10, <1>12, Zenon
  <2>2. FlattenSeq(seqs) = w \o seqs[n]
    BY <1>6, <1>8, <1>11, <1>14, <2>1, FlattenedWords, Zenon
  <2> QED BY <1>10, <1>13, <2>2, Zenon
<1>16. w \in Seq(S) /\ Len(w) = n - 1
  BY <1>6, <1>8, FunctionIsSeq, Zenon
<1>17. /\ DOMAIN c = 1..(n - 1) + 3 /\ Len(c) = (n - 1) + 3
       /\ \A i \in 1..n - 1 : c[i] = w[i]
       /\ c[(n - 1) + 1] = tl[1] /\ c[(n - 1) + 2] = tl[2] /\ c[(n - 1) + 3] = tl[3]
  <2>1. Fronts(c, w, tl, n - 1)
    BY <1>6, <1>12, <1>15, <1>16, InFront, Zenon
  <2> QED BY <2>1 DEF Fronts
<1>18. /\ (n - 1) + 1 = n /\ (n - 1) + 2 = n + 1 /\ (n - 1) + 3 = n + 2
       /\ p \in 1..n + 2 /\ p + 1 \in 1..n + 2 /\ n + 2 \in 1..n + 2
       /\ n + 2 - 2 = n /\ n + 2 - 1 = n + 1
  BY <1>2, <1>5, Before, Zenon
<1>19. /\ DOMAIN c = 1..n + 2 /\ Len(c) = n + 2
       /\ \A i \in 1..n - 1 : c[i] = w[i]
       /\ c[n] = Agent("-fs") /\ c[n + 1] = Agent("LIMIT") /\ c[n + 2] = Agent("OUTPUT")
  BY <1>12, <1>17, <1>18, Zenon
<1>20. ASSUME NEW i \in 1..n + 2
       PROVE  /\ c[i] = Caller("-i") <=> i = p
              /\ c[i] = Agent("INPUT") <=> i = p + 1
              /\ c[i] = Agent("OUTPUT") <=> i = n + 2
  <2>0. /\ Agent("-fs") # Agent("INPUT") /\ Agent("-fs") # Agent("OUTPUT")
        /\ Agent("LIMIT") # Agent("INPUT") /\ Agent("LIMIT") # Agent("OUTPUT")
        /\ Agent("INPUT") # Agent("OUTPUT")
        /\ \A x, y : Caller(x) # Agent(y)
    BY DEF Caller, Agent
  <2>1. /\ i \in 1..n - 1 \/ i = n \/ i = n + 1 \/ i = n + 2
        /\ i \in 1..n - 1 => i # n + 2
        /\ i = n => i # p /\ i # p + 1 /\ i # n + 2
        /\ i = n + 1 => i # p /\ i # p + 1 /\ i # n + 2
        /\ i = n + 2 => i # p /\ i # p + 1
    BY <1>2, <1>5, Behind
  <2>2. CASE i \in 1..n - 1
    BY <1>9, <1>19, <2>1, <2>2, Zenon
  <2>3. CASE i = n
    BY <1>19, <2>0, <2>1, <2>3, Zenon
  <2>4. CASE i = n + 1
    BY <1>19, <2>0, <2>1, <2>4, Zenon
  <2>5. CASE i = n + 2
    BY <1>19, <2>0, <2>1, <2>5, Zenon
  <2> QED BY <2>1, <2>2, <2>3, <2>4, <2>5, Zenon
<1>21. PICK m : m = n + 2
  OBVIOUS
<1>22. /\ At(c, m, Caller("-i"), p) /\ At(c, m, Agent("INPUT"), p + 1)
       /\ At(c, m, Agent("OUTPUT"), m)
  BY <1>20, <1>21, Zenon DEF At
<1>23. DOMAIN c = 1..m /\ p \in 1..m /\ p + 1 \in 1..m /\ m \in 1..m /\ Len(c) = m
  BY <1>18, <1>19, <1>21, Zenon
<1>24. /\ Places(c, Caller("-i")) = {p} /\ Places(c, Agent("INPUT")) = {p + 1}
       /\ Places(c, Agent("OUTPUT")) = {m}
  BY <1>22, <1>23, OnePlace, Zenon
<1>25. \E i \in 1..Len(c) : /\ Places(c, Caller("-i")) = {i}
                           /\ Places(c, Agent("INPUT")) = {i + 1}
  BY <1>23, <1>24, Zenon
<1>26. Len(c) - 2 = n /\ Len(c) - 1 = n + 1
  <2>1. Len(c) = n + 2
    BY <1>19, Zenon
  <2> QED BY <1>2, <2>1
<1>27. c[Len(c) - 2] = Agent("-fs") /\ c[Len(c) - 1] = Agent("LIMIT")
  BY <1>19, <1>26, Zenon
<1>28. Places(c, Agent("OUTPUT")) = {Len(c)}
  BY <1>23, <1>24, Zenon
<1> QED BY <1>25, <1>26, <1>27, <1>28, Zenon DEF c, args

\* The accepted command is that of a valid document.
CommandSound ==
  stage = "accepted" => \E d \in Documents : Valid(d) /\ command = CommandOf(d.args)

\* Whatever arguments a job brings, bare names of files in the job directory
\* among them, the path of the download is written once, behind the only "-i",
\* and the path that is uploaded once, last and behind the byte limit
\* (Job::validate against the expansion in execute).
THEOREM CommandAlwaysAsAdmitted == Spec => []CommandAsAdmitted
<1>1. Init => CommandSound
  BY DEF Init, CommandSound
<1>2. CommandSound /\ [Next]_vars => CommandSound'
  <2> SUFFICES ASSUME CommandSound, [Next]_vars PROVE CommandSound'
    OBVIOUS
  <2>1. ASSUME stage' # "accepted" PROVE CommandSound'
    BY <2>1 DEF CommandSound
  <2>2. ASSUME NEW d \in Documents, Refuse(d) PROVE CommandSound'
    BY <2>1, <2>2 DEF Refuse
  <2>3. ASSUME NEW d \in Documents, Accept(d) PROVE CommandSound'
    BY <2>3, Zenon DEF Accept, CommandSound
  <2>4. ASSUME Spawn PROVE CommandSound'
    BY <2>1, <2>4 DEF Spawn
  <2>5. ASSUME NEW n \in 1..ReadLimit, ReadProgress(n) PROVE CommandSound'
    BY <2>1, <2>5 DEF ReadProgress
  <2>6. ASSUME NEW n \in 1..ReadLimit, ReadLog(n) PROVE CommandSound'
    BY <2>1, <2>6 DEF ReadLog
  <2>7. ASSUME Finish \/ Abort PROVE CommandSound'
    BY <2>1, <2>7 DEF Finish, Abort
  <2>8. ASSUME UNCHANGED vars PROVE CommandSound'
    BY <2>8, Zenon DEF CommandSound, vars
  <2> QED BY <2>2, <2>3, <2>4, <2>5, <2>6, <2>7, <2>8 DEF Next
<1>3. CommandSound => CommandAsAdmitted
  BY ValidIsPlaced, Zenon DEF CommandSound, CommandAsAdmitted
<1> QED BY <1>1, <1>2, <1>3, PTL DEF Spec

-----------------------------------------------------------------------------
(* The progress: recursive functions.                                      *)

\* What holds first and stays is always so.
LEMMA UpTo ==
  ASSUME NEW n \in Nat, NEW A, 0 \in A, \A i \in 1..n : i - 1 \in A => i \in A
  PROVE  \A i \in 0..n : i \in A
<1> DEFINE B == {i \in 0..n : i \notin A}
<1>1. B \subseteq Nat
  OBVIOUS
<1>2. SUFFICES ASSUME B # {} PROVE FALSE
  OBVIOUS
<1>3. PICK i \in B : \A j \in B : i <= j
  <2> HIDE DEF B
  <2> QED BY <1>1, <1>2, LeastExists
<1>4. i # 0 /\ i \in 1..n /\ i - 1 \in 0..n /\ ~(i <= i - 1)
  BY <1>3
<1>5. i - 1 \in A
  BY <1>3, <1>4
<1> QED BY <1>3, <1>4, <1>5

\* A set of numbers up to a bound has a greatest element.
LEMMA GreatestExists ==
  ASSUME NEW c \in Nat, NEW S, S \subseteq 1..c, S # {}
  PROVE  \E i \in S : \A j \in S : j <= i
<1> DEFINE T == {c - i : i \in S}
<1>1. T \subseteq Nat
  OBVIOUS
<1>2. T # {}
  OBVIOUS
<1>3. PICK t \in T : \A u \in T : t <= u
  <2> HIDE DEF T
  <2> QED BY <1>1, <1>2, LeastExists
<1>4. PICK i \in S : t = c - i
  BY <1>3
<1>5. ASSUME NEW j \in S PROVE j <= i
  <2>1. c - i <= c - j
    BY <1>3, <1>4
  <2>2. i \in 1..c /\ j \in 1..c
    OBVIOUS
  <2> QED BY <2>1, <2>2
<1> QED BY <1>4, <1>5

\* h repeats a step n times.
Repeats(h, n, R, base, F) ==
  h \in [0..n -> R] /\ h[0] = base /\ \A i \in 1..n : h[i] = F[i][h[i - 1]]

\* Any step can be repeated.
LEMMA Iterate ==
  ASSUME NEW n \in Nat, NEW R, NEW base \in R, NEW F \in [1..n -> [R -> R]]
  PROVE  \E h : Repeats(h, n, R, base, F)
<1> DEFINE Good(m, h) == h \in [0..m -> R] /\ h[0] = base /\ \A i \in 1..m : h[i] = F[i][h[i - 1]]
           A == {m \in 0..n : \E h : Good(m, h)}
<1>1. 0 \in A
  <2>1. Good(0, [i \in 0..0 |-> base])
    OBVIOUS
  <2> HIDE DEF Good
  <2> QED BY <2>1
<1>2. ASSUME NEW m \in 1..n, m - 1 \in A PROVE m \in A
  <2>1. PICK h : Good(m - 1, h)
    BY <1>2
  <2> DEFINE g == [i \in 0..m |-> IF i = m THEN F[m][h[m - 1]] ELSE h[i]]
  <2>2. /\ h \in [0..m - 1 -> R] /\ h[0] = base
        /\ \A i \in 1..m - 1 : h[i] = F[i][h[i - 1]]
    BY <2>1
  <2>3. m - 1 \in 0..m - 1 /\ h[m - 1] \in R /\ F[m] \in [R -> R]
    BY <2>2
  <2>4. F[m][h[m - 1]] \in R
    BY <2>3
  <2>5. g \in [0..m -> R]
    <3>1. ASSUME NEW i \in 0..m, i # m PROVE h[i] \in R
      <4>1. i \in 0..m - 1
        BY <3>1
      <4> QED BY <2>2, <4>1
    <3> QED BY <2>4, <3>1
  <2>6. g[0] = base
    BY <2>2
  <2>7. ASSUME NEW i \in 1..m PROVE g[i] = F[i][g[i - 1]]
    <3>1. i - 1 # m /\ i - 1 \in 0..m /\ i \in 0..m
      OBVIOUS
    <3>2. g[i - 1] = h[i - 1]
      BY <3>1
    <3>3. CASE i = m
      BY <3>1, <3>2, <3>3
    <3>4. CASE i # m
      <4>1. i \in 1..m - 1
        BY <3>4
      <4>2. g[i] = h[i]
        BY <3>1, <3>4
      <4> QED BY <2>2, <3>2, <4>1, <4>2
    <3> QED BY <3>3, <3>4
  <2> HIDE DEF g
  <2>8. Good(m, g)
    BY <2>5, <2>6, <2>7
  <2>9. m \in 0..n
    OBVIOUS
  <2> HIDE DEF Good
  <2> QED BY <2>8, <2>9
<1>3. n \in A
  <2> HIDE DEF A
  <2>1. \A i \in 0..n : i \in A
    BY <1>1, <1>2, UpTo
  <2> QED BY <2>1
<1> QED BY <1>3, Zenon DEF Repeats

\* A digit stands for a number.
LEMMA DigitsAreNumbers == \A c \in DOMAIN Digits : Digits[c] \in Nat
BY DEF Digits

\* What the digits of a line say is a natural number.
LEMMA NumberIsNatural ==
  ASSUME NEW n \in Nat, NEW digits, Len(digits) = n,
         \A i \in 1..n : digits[i] \in DOMAIN Digits
  PROVE  Number(digits) \in Nat
<1> DEFINE value == CHOOSE f : f = [i \in 0..n |-> IF i = 0 THEN 0 ELSE 10 * f[i - 1] + Digits[digits[i]]]
           F == [i \in 1..n |-> [m \in Nat |-> 10 * m + Digits[digits[i]]]]
<1>1. Number(digits) = value[n]
  BY Zenon DEF Number
<1>2. F \in [1..n -> [Nat -> Nat]]
  <2>1. \A i \in 1..n : Digits[digits[i]] \in Nat
    BY DigitsAreNumbers, Zenon
  <2>2. ASSUME NEW i \in 1..n, NEW m \in Nat PROVE 10 * m + Digits[digits[i]] \in Nat
    <3> DEFINE d == Digits[digits[i]]
    <3>1. d \in Nat
      BY <2>1
    <3> HIDE DEF d
    <3>2. 10 * m + d \in Nat
      BY <3>1
    <3> QED BY <3>2 DEF d
  <2> QED BY <2>2, Zenon
<1>3. PICK h : Repeats(h, n, Nat, 0, F)
  <2> HIDE DEF F
  <2>1. 0 \in Nat
    OBVIOUS
  <2> QED BY <1>2, <2>1, Iterate, Zenon
<1>4. h = [i \in 0..n |-> IF i = 0 THEN 0 ELSE 10 * h[i - 1] + Digits[digits[i]]]
  <2>1. ASSUME NEW i \in 0..n PROVE h[i] = IF i = 0 THEN 0 ELSE 10 * h[i - 1] + Digits[digits[i]]
    <3>1. CASE i = 0
      BY <1>3, <3>1, Zenon DEF Repeats
    <3>2. CASE i # 0
      <4>1. i \in 1..n /\ i - 1 \in 0..n
        BY <3>2
      <4>2. h[i] = F[i][h[i - 1]] /\ h[i - 1] \in Nat
        BY <1>3, <4>1, Zenon DEF Repeats
      <4>3. F[i][h[i - 1]] = 10 * h[i - 1] + Digits[digits[i]]
        BY <4>1, <4>2, Zenon
      <4> QED BY <3>2, <4>2, <4>3, Zenon
    <3> QED BY <3>1, <3>2
  <2>2. h \in [0..n -> Nat]
    BY <1>3, Zenon DEF Repeats
  <2> QED BY <2>1, <2>2, Zenon
<1>5. value = [i \in 0..n |-> IF i = 0 THEN 0 ELSE 10 * value[i - 1] + Digits[digits[i]]]
  BY <1>4, Zenon
<1> HIDE DEF value
<1> DEFINE A == {i \in 0..n : value[i] \in Nat}
<1>6. 0 \in A
  BY <1>5
<1>7. ASSUME NEW i \in 1..n, i - 1 \in A PROVE i \in A
  <2>1. i \in 0..n /\ i # 0
    OBVIOUS
  <2>2. value[i] = 10 * value[i - 1] + Digits[digits[i]]
    BY <1>5, <2>1, Zenon
  <2> DEFINE d == Digits[digits[i]]
             v == value[i - 1]
  <2>3. d \in Nat /\ v \in Nat
    BY <1>7, DigitsAreNumbers, Zenon
  <2> HIDE DEF d, v
  <2>4. 10 * v + d \in Nat
    BY <2>3
  <2> QED BY <2>1, <2>2, <2>4 DEF d, v
<1>8. n \in A
  <2> HIDE DEF A
  <2>1. \A i \in 0..n : i \in A
    BY <1>6, <1>7, UpTo
  <2> QED BY <2>1
<1> QED BY <1>1, <1>8

-----------------------------------------------------------------------------
(* The progress: the reader's locals.                                      *)

\* The states of the reader,
Reader == [line : Seq(STRING), overflow : BOOLEAN, maxima : [Counters -> Nat], touches : Nat]

\* and one of them.
State(l, o, m, t) == [line |-> l, overflow |-> o, maxima |-> m, touches |-> t]

\* Fields of the right types make a state,
LEMMA StateIsReader ==
  ASSUME NEW l \in Seq(STRING), NEW o \in BOOLEAN, NEW m \in [Counters -> Nat], NEW t \in Nat
  PROVE  State(l, o, m, t) \in Reader
BY DEF Reader, State

\* which has these fields.
LEMMA StateHas ==
  ASSUME NEW l, NEW o, NEW m, NEW t
  PROVE  /\ State(l, o, m, t).line = l /\ State(l, o, m, t).overflow = o
         /\ State(l, o, m, t).maxima = m /\ State(l, o, m, t).touches = t
BY DEF State

\* A reading says a natural number of a counter.
LEMMA ReadingIsNatural ==
  ASSUME NEW line \in Seq(STRING), IsReading(line)
  PROVE  Number(Tail(line)) \in Nat /\ line[1] \in Counters
<1> DEFINE n == Len(line) - 1
           d == Tail(line)
<1>1. Len(line) \in Nat /\ Len(line) >= 2 /\ \A i \in 2..Len(line) : line[i] \in DOMAIN Digits
  BY DEF IsReading
<1>2. n \in Nat /\ Len(d) = n /\ \A i \in 1..n : d[i] = line[i + 1] /\ i + 1 \in 2..Len(line)
  BY <1>1
<1>3. \A i \in 1..n : d[i] \in DOMAIN Digits
  BY <1>1, <1>2, Zenon
<1> HIDE DEF n, d
<1>4. Number(d) \in Nat
  BY <1>2, <1>3, NumberIsNatural, Zenon
<1> QED BY <1>4, Zenon DEF IsReading, d

\* The end of the line will set a new maximum.
IsRecord(r) ==
  ~r.overflow /\ IsReading(r.line) /\ Number(Tail(r.line)) > r.maxima[r.line[1]]

\* What the end of a line does: it empties the line, sets a new maximum and
\* the clock together, or leaves both.
LEMMA EndLineIs ==
  ASSUME NEW r \in Reader
  PROVE  /\ EndLine(r) \in Reader
         /\ EndLine(r).line = <<>> /\ ~EndLine(r).overflow
         /\ IsRecord(r) =>
              /\ r.line[1] \in Counters
              /\ EndLine(r).maxima = [r.maxima EXCEPT ![r.line[1]] = Number(Tail(r.line))]
              /\ EndLine(r).touches = r.touches + 1
         /\ ~IsRecord(r) => EndLine(r).maxima = r.maxima /\ EndLine(r).touches = r.touches
<1> DEFINE v == Number(Tail(r.line))
           k == r.line[1]
           read == IF ~IsCut(r) /\ IsReading(r.line) THEN v ELSE 0
           rest == [line |-> <<>>, overflow |-> FALSE, maxima |-> r.maxima, touches |-> r.touches]
<1>1. r.line \in Seq(STRING) /\ r.overflow \in BOOLEAN /\ r.maxima \in [Counters -> Nat]
      /\ r.touches \in Nat
  BY Zenon DEF Reader
<1>2. IsReading(r.line) => v \in Nat /\ k \in Counters
  BY <1>1, ReadingIsNatural, Zenon
<1>3. rest = State(<<>>, FALSE, r.maxima, r.touches)
  BY Zenon DEF State
<1>4. <<>> \in Seq(STRING)
  BY EmptySeq, Zenon
<1>5. CASE IsRecord(r)
  <2>1. v \in Nat /\ k \in Counters /\ v > r.maxima[k] /\ read = v
    BY <1>2, <1>5 DEF IsRecord, IsCut
  <2>2. r.maxima[k] \in Nat
    BY <1>1, <2>1
  <2>3. read > 0 /\ read > r.maxima[k]
    BY <2>1, <2>2
  <2>4. EndLine(r) = [rest EXCEPT !.maxima[k] = read, !.touches = @ + 1]
    BY <2>3, Zenon DEF EndLine
  <2> DEFINE m == [r.maxima EXCEPT ![k] = v]
             t == r.touches + 1
  <2>5. EndLine(r) = State(<<>>, FALSE, m, t)
    BY <1>3, <2>1, <2>4 DEF State
  <2>6. m \in [Counters -> Nat] /\ t \in Nat /\ FALSE \in BOOLEAN
    BY <1>1, <2>1
  <2> HIDE DEF m, t
  <2>7. EndLine(r) \in Reader
    BY <1>4, <2>5, <2>6, StateIsReader, Zenon
  <2>8. /\ EndLine(r).line = <<>> /\ EndLine(r).overflow = FALSE
        /\ EndLine(r).maxima = m /\ EndLine(r).touches = t
    BY <2>5 DEF State
  <2> QED BY <1>5, <2>1, <2>7, <2>8, Zenon DEF m, t
<1>6. CASE ~IsRecord(r)
  <2>1. ~(read > 0 /\ read > r.maxima[k])
    <3>1. CASE ~r.overflow /\ IsReading(r.line)
      BY <1>6, <3>1 DEF IsRecord, IsCut
    <3>2. CASE ~(~r.overflow /\ IsReading(r.line))
      <4>1. read = 0
        BY <3>2 DEF IsCut
      <4> HIDE DEF read
      <4> QED BY <4>1
    <3> QED BY <3>1, <3>2
  <2>2. EndLine(r) = rest
    BY <2>1, Zenon DEF EndLine
  <2> HIDE DEF rest
  <2>3. rest \in Reader
    <3>1. FALSE \in BOOLEAN
      OBVIOUS
    <3> QED BY <1>1, <1>3, <1>4, <3>1, StateIsReader, Zenon
  <2>4. rest.line = <<>> /\ ~rest.overflow /\ rest.maxima = r.maxima /\ rest.touches = r.touches
    BY <1>3 DEF State
  <2> QED BY <1>6, <2>2, <2>3, <2>4, Zenon
<1> QED BY <1>5, <1>6

\* What another character does: it is kept, or the line is cut.
LEMMA OtherByteIs ==
  ASSUME NEW r \in Reader, NEW ch \in STRING, ch # "\n"
  PROVE  /\ OnByte(r, ch) \in Reader
         /\ OnByte(r, ch).maxima = r.maxima /\ OnByte(r, ch).touches = r.touches
         /\ Len(r.line) < LineLimit =>
              OnByte(r, ch).line = Append(r.line, ch) /\ OnByte(r, ch).overflow = r.overflow
         /\ ~(Len(r.line) < LineLimit) =>
              OnByte(r, ch).line = r.line /\ OnByte(r, ch).overflow
<1>1. r.line \in Seq(STRING) /\ r.overflow \in BOOLEAN /\ r.maxima \in [Counters -> Nat]
      /\ r.touches \in Nat
  BY Zenon DEF Reader
<1>2. CASE Len(r.line) < LineLimit
  <2>1. OnByte(r, ch) = [r EXCEPT !.line = Append(@, ch)]
    BY <1>2, Zenon DEF OnByte
  <2>2. OnByte(r, ch) = State(Append(r.line, ch), r.overflow, r.maxima, r.touches)
    BY <2>1 DEF Reader, State
  <2>3. Append(r.line, ch) \in Seq(STRING)
    BY <1>1, AppendProperties, Zenon
  <2>4. OnByte(r, ch) \in Reader
    BY <1>1, <2>2, <2>3, StateIsReader, Zenon
  <2> QED BY <1>2, <2>2, <2>4 DEF State
<1>3. CASE ~(Len(r.line) < LineLimit)
  <2>1. OnByte(r, ch) = [r EXCEPT !.overflow = TRUE]
    BY <1>3, Zenon DEF OnByte
  <2>2. OnByte(r, ch) = State(r.line, TRUE, r.maxima, r.touches)
    BY <2>1 DEF Reader, State
  <2>3. TRUE \in BOOLEAN
    OBVIOUS
  <2>4. OnByte(r, ch) \in Reader
    BY <1>1, <2>2, <2>3, StateIsReader, Zenon
  <2>5. OnByte(r, ch).overflow = TRUE
    BY <2>2 DEF State
  <2>6. /\ OnByte(r, ch).line = r.line
        /\ OnByte(r, ch).maxima = r.maxima /\ OnByte(r, ch).touches = r.touches
    BY <2>2 DEF State
  <2> QED BY <1>3, <2>4, <2>5, <2>6, Zenon
<1> QED BY <1>2, <1>3

-----------------------------------------------------------------------------
(* The progress: lines of the output.                                      *)

\* The greatest element, where there is one.
Greatest(S, g) == g \in S /\ \A j \in S : j <= g

\* It is the one a choice finds.
LEMMA GreatestIsChosen ==
  ASSUME NEW S, S \subseteq Nat, NEW g, Greatest(S, g)
  PROVE  (CHOOSE i \in S : \A j \in S : j <= i) = g
<1> DEFINE x == CHOOSE i \in S : \A j \in S : j <= i
<1>1. x \in S /\ \A j \in S : j <= x
  BY Zenon DEF Greatest
<1>2. g \in S /\ \A j \in S : j <= g
  BY DEF Greatest
<1> HIDE DEF x
<1>3. x <= g /\ g <= x /\ x \in Nat /\ g \in Nat
  BY <1>1, <1>2
<1>4. x = g
  BY <1>3
<1> QED BY <1>4 DEF x

\* The ends of lines lie within the characters; the next one is an end or not.
LEMMA EndsAre ==
  ASSUME NEW c \in Nat
  PROVE  /\ Ends(c) \subseteq 1..c /\ Ends(c) \subseteq Nat /\ Ends(0) = {}
         /\ output[c + 1] = "\n" => Ends(c + 1) = Ends(c) \cup {c + 1}
         /\ output[c + 1] # "\n" => Ends(c + 1) = Ends(c)
<1>1. \A i : i \in 1..c + 1 <=> i \in 1..c \/ i = c + 1
  OBVIOUS
<1>2. \A i : i \in Ends(c + 1) <=> i \in 1..c + 1 /\ output[i] = "\n"
  BY Zenon DEF Ends
<1>3. \A i : i \in Ends(c) <=> i \in 1..c /\ output[i] = "\n"
  BY Zenon DEF Ends
<1>4. output[c + 1] = "\n" => Ends(c + 1) = Ends(c) \cup {c + 1}
  <2> SUFFICES ASSUME output[c + 1] = "\n"
               PROVE  \A i : i \in Ends(c + 1) <=> i \in Ends(c) \cup {c + 1}
    BY Zenon
  <2> QED BY <1>1, <1>2, <1>3, Zenon
<1>5. output[c + 1] # "\n" => Ends(c + 1) = Ends(c)
  <2> SUFFICES ASSUME output[c + 1] # "\n"
               PROVE  \A i : i \in Ends(c + 1) <=> i \in Ends(c)
    BY Zenon
  <2> QED BY <1>1, <1>2, <1>3, Zenon
<1>6. Ends(c) \subseteq 1..c /\ Ends(c) \subseteq Nat
  BY <1>3
<1>7. Ends(0) = {}
  BY DEF Ends
<1> QED BY <1>4, <1>5, <1>6, <1>7, Zenon

\* Where the line begins that the next character belongs to.
LEMMA StartIs ==
  ASSUME NEW c \in Nat
  PROVE  /\ StartOf(c) \in 0..c
         /\ output[c + 1] = "\n" => StartOf(c + 1) = c + 1
         /\ output[c + 1] # "\n" => StartOf(c + 1) = StartOf(c)
<1>1. c + 1 \in Nat /\ 0 \in 0..c /\ 1..c \subseteq 0..c
  OBVIOUS
<1>2. StartOf(c) \in 0..c
  <2>1. CASE Ends(c) = {}
    BY <1>1, <2>1, Zenon DEF StartOf
  <2>2. CASE Ends(c) # {}
    <3>1. PICK g \in Ends(c) : \A j \in Ends(c) : j <= g
      BY <2>2, EndsAre, GreatestExists, Zenon
    <3>2. (CHOOSE i \in Ends(c) : \A j \in Ends(c) : j <= i) = g
      BY <3>1, EndsAre, GreatestIsChosen, Zenon DEF Greatest
    <3> QED BY <1>1, <2>2, <3>1, <3>2, EndsAre, Zenon DEF StartOf
  <2> QED BY <2>1, <2>2
<1>4. ASSUME output[c + 1] = "\n" PROVE StartOf(c + 1) = c + 1
  <2>1. Ends(c + 1) = Ends(c) \cup {c + 1} /\ Ends(c) \subseteq 1..c /\ Ends(c + 1) \subseteq Nat
    BY <1>1, <1>4, EndsAre, Zenon
  <2>2. \A j \in 1..c : j <= c + 1
    OBVIOUS
  <2>3. c + 1 <= c + 1
    OBVIOUS
  <2>4. Greatest(Ends(c + 1), c + 1) /\ Ends(c + 1) # {}
    BY <2>1, <2>2, <2>3, Zenon DEF Greatest
  <2>5. (CHOOSE i \in Ends(c + 1) : \A j \in Ends(c + 1) : j <= i) = c + 1
    BY <2>1, <2>4, GreatestIsChosen, Zenon
  <2> QED BY <2>4, <2>5, Zenon DEF StartOf
<1>5. ASSUME output[c + 1] # "\n" PROVE StartOf(c + 1) = StartOf(c)
  <2>1. Ends(c + 1) = Ends(c)
    BY <1>5, EndsAre, Zenon
  <2> DEFINE Latest(S) == IF S = {} THEN 0 ELSE CHOOSE i \in S : \A j \in S : j <= i
  <2>2. \A n : StartOf(n) = Latest(Ends(n))
    BY Zenon DEF StartOf
  <2> HIDE DEF Latest
  <2> QED BY <2>1, <2>2, Zenon
<1> QED BY <1>2, <1>4, <1>5, Zenon

\* The characters of the line so far, and how the next one changes them.
LEMMA LineIs ==
  ASSUME output \in Seq(STRING), NEW c \in Nat, c <= Len(output)
  PROVE  /\ LineAt(c) \in Seq(STRING)
         /\ c + 1 <= Len(output) /\ output[c + 1] = "\n" => LineAt(c + 1) = <<>>
         /\ c + 1 <= Len(output) /\ output[c + 1] # "\n" =>
              LineAt(c + 1) = Append(LineAt(c), output[c + 1])
<1> DEFINE s == StartOf(c)
<1>2. s \in 0..c /\ (output[c + 1] = "\n" => StartOf(c + 1) = c + 1)
      /\ (output[c + 1] # "\n" => StartOf(c + 1) = s)
  BY StartIs, Zenon
<1>3. LineAt(c) = SubSeq(output, s + 1, c)
  BY Zenon DEF LineAt
<1>4. LineAt(c + 1) = SubSeq(output, StartOf(c + 1) + 1, c + 1)
  BY Zenon DEF LineAt
<1> HIDE DEF s
<1>5. Len(output) \in Nat
  OBVIOUS
<1>6. LineAt(c) \in Seq(STRING)
  <2> DEFINE a == SubSeq(output, s + 1, c)
  <2>1. a \in Seq(STRING)
    BY <1>2, <1>5
  <2> QED BY <1>3, <2>1, Zenon
<1>7. ASSUME c + 1 <= Len(output), output[c + 1] = "\n" PROVE LineAt(c + 1) = <<>>
  <2>1. LineAt(c + 1) = SubSeq(output, (c + 1) + 1, c + 1)
    BY <1>2, <1>4, <1>7, Zenon
  <2>2. SubSeq(output, (c + 1) + 1, c + 1) \in Seq(STRING)
        /\ Len(SubSeq(output, (c + 1) + 1, c + 1)) = 0
    BY <1>5, <1>7
  <2> QED BY <2>1, <2>2, EmptySeq
<1>8. ASSUME c + 1 <= Len(output), output[c + 1] # "\n"
      PROVE  LineAt(c + 1) = Append(LineAt(c), output[c + 1])
  <2>1. LineAt(c + 1) = SubSeq(output, s + 1, c + 1)
    BY <1>2, <1>4, <1>8, Zenon
  <2> DEFINE a == SubSeq(output, s + 1, c)
             b == SubSeq(output, s + 1, c + 1)
             m == c - s
             e == Append(a, output[c + 1])
  <2>2. m \in Nat /\ s \in Nat /\ s + 1 + m = c + 1
    BY <1>2
  <2>3. /\ a \in Seq(STRING) /\ Len(a) = m /\ \A i \in 1..m : a[i] = output[s + i]
        /\ b \in Seq(STRING) /\ Len(b) = m + 1 /\ \A i \in 1..m + 1 : b[i] = output[s + i]
    BY <1>2, <1>5, <1>8
  <2>4. output[c + 1] \in STRING
    BY <1>5, <1>8
  <2>5. e \in Seq(STRING) /\ Len(e) = m + 1 /\ (\A i \in 1..m : e[i] = a[i]) /\ e[m + 1] = output[c + 1]
    <3>1. PICK x \in STRING : x = output[c + 1]
      BY <2>4
    <3> HIDE DEF a
    <3> QED BY <2>2, <2>3, <3>1
  <2> HIDE DEF a, b, e
  <2>6. ASSUME NEW i \in 1..m + 1 PROVE b[i] = e[i]
    <3>1. CASE i = m + 1
      <4>1. s + i = c + 1
        BY <2>2, <3>1
      <4> QED BY <2>3, <2>5, <3>1, <4>1
    <3>2. CASE i # m + 1
      <4>1. i \in 1..m
        BY <2>2, <3>2
      <4> QED BY <2>3, <2>5, <4>1
    <3> QED BY <3>1, <3>2
  <2> HIDE DEF m
  <2>7. b = e
    BY <2>3, <2>5, <2>6, SeqEqual
  <2> QED BY <1>3, <2>1, <2>7 DEF a, b, e
<1> QED BY <1>6, <1>7, <1>8, Zenon

-----------------------------------------------------------------------------
(* The progress: readings and records.                                     *)

\* The line that ends at a place was kept whole and is a reading of k.
Kept(k, e) == LET l == LineAt(e - 1) IN Len(l) <= LineLimit /\ IsReading(l) /\ l[1] = k

\* Its value is above nothing and above those of the earlier places of a set.
Above(k, e, S) == ReadingAt(e) > 0 /\ \A f \in S : f < e => ReadingAt(f) < ReadingAt(e)

\* The next character adds a reading when it ends a line that was kept.
LEMMA ReadingsAre ==
  ASSUME NEW k, NEW c \in Nat
  PROVE  /\ Readings(k, c) \subseteq 1..c
         /\ output[c + 1] = "\n" /\ Kept(k, c + 1) => Readings(k, c + 1) = Readings(k, c) \cup {c + 1}
         /\ ~(output[c + 1] = "\n" /\ Kept(k, c + 1)) => Readings(k, c + 1) = Readings(k, c)
<1>1. \A n : Readings(k, n) = {e \in Ends(n) : Kept(k, e)}
  BY Zenon DEF Readings, Kept
<1>2. Readings(k, c) \subseteq 1..c
  BY <1>1, EndsAre, Zenon
<1>3. c + 1 \notin 1..c
  OBVIOUS
<1>4. ASSUME output[c + 1] = "\n"
      PROVE  \A e : e \in Readings(k, c + 1) <=>
                      e \in Readings(k, c) \/ (e = c + 1 /\ Kept(k, c + 1))
  <2>1. \A e : e \in Ends(c + 1) <=> e \in Ends(c) \/ e = c + 1
    BY <1>4, EndsAre, Zenon
  <2> QED BY <1>1, <2>1, Zenon
<1>5. ASSUME output[c + 1] # "\n" PROVE Readings(k, c + 1) = Readings(k, c)
  <2>1. \A e : e \in Ends(c + 1) <=> e \in Ends(c)
    BY <1>5, EndsAre, Zenon
  <2>2. \A e : e \in Readings(k, c + 1) <=> e \in Readings(k, c)
    BY <1>1, <2>1, Zenon
  <2> QED BY <2>2, Zenon
<1>6. ASSUME output[c + 1] = "\n", Kept(k, c + 1)
      PROVE  Readings(k, c + 1) = Readings(k, c) \cup {c + 1}
  <2>1. \A e : e \in Readings(k, c + 1) <=> e \in Readings(k, c) \cup {c + 1}
    BY <1>4, <1>6, Zenon
  <2> QED BY <2>1, Zenon
<1>7. ASSUME output[c + 1] = "\n", ~Kept(k, c + 1)
      PROVE  Readings(k, c + 1) = Readings(k, c)
  <2>1. \A e : e \in Readings(k, c + 1) <=> e \in Readings(k, c)
    BY <1>4, <1>7, Zenon
  <2> QED BY <2>1, Zenon
<1> QED BY <1>2, <1>5, <1>6, <1>7, Zenon

\* Records below the next place stay what they are.
LEMMA RecordsAre ==
  ASSUME NEW k, NEW c \in Nat
  PROVE  /\ Records(k, c) \subseteq Readings(k, c) /\ Records(k, c) \subseteq 1..c
         /\ LET new == c + 1 \in Readings(k, c + 1) /\ Above(k, c + 1, Readings(k, c))
            IN /\ new => Records(k, c + 1) = Records(k, c) \cup {c + 1}
               /\ ~new => Records(k, c + 1) = Records(k, c)
<1>1. \A n : Records(k, n) = {e \in Readings(k, n) : Above(k, e, Readings(k, n))}
  BY Zenon DEF Records, Above
<1>2. Readings(k, c) \subseteq 1..c
  BY ReadingsAre, Zenon
<1>3. Readings(k, c + 1) = Readings(k, c) \cup {c + 1} \/ Readings(k, c + 1) = Readings(k, c)
  BY ReadingsAre, Zenon
<1>4. \A e \in 1..c : ~(c + 1 < e) /\ e # c + 1
  OBVIOUS
<1>5. ASSUME NEW e \in Readings(k, c)
      PROVE  Above(k, e, Readings(k, c + 1)) <=> Above(k, e, Readings(k, c))
  <2>1. ~(c + 1 < e)
    BY <1>2, <1>4, Zenon
  <2> QED BY <1>3, <2>1, Zenon DEF Above
<1>6. ~(c + 1 < c + 1)
  OBVIOUS
<1>7. Above(k, c + 1, Readings(k, c + 1)) <=> Above(k, c + 1, Readings(k, c))
  BY <1>3, <1>6, Zenon DEF Above
<1>8. c + 1 \notin Readings(k, c)
  BY <1>2, <1>4, Zenon
<1>9. ASSUME c + 1 \in Readings(k, c + 1), Above(k, c + 1, Readings(k, c))
      PROVE  Records(k, c + 1) = Records(k, c) \cup {c + 1}
  <2> SUFFICES ASSUME NEW e PROVE e \in Records(k, c + 1) <=> e \in Records(k, c) \/ e = c + 1
    BY Zenon
  <2> QED BY <1>1, <1>3, <1>5, <1>7, <1>9, Zenon
<1>10. ASSUME ~(c + 1 \in Readings(k, c + 1) /\ Above(k, c + 1, Readings(k, c)))
       PROVE  Records(k, c + 1) = Records(k, c)
  <2> SUFFICES ASSUME NEW e PROVE e \in Records(k, c + 1) <=> e \in Records(k, c)
    BY Zenon
  <2> QED BY <1>1, <1>3, <1>5, <1>7, <1>8, <1>10, Zenon
<1> QED BY <1>1, <1>2, <1>9, <1>10, Zenon

\* The records of all counters.
AllRecords(c) == UNION {Records(k, c) : k \in Counters}

\* They become one more when one counter has a new record.
LEMMA RecordsCounted ==
  ASSUME NEW c \in Nat
  PROVE  /\ (\A k \in Counters : Records(k, c + 1) = Records(k, c)) =>
              Cardinality(AllRecords(c + 1)) = Cardinality(AllRecords(c))
         /\ \A k \in Counters :
              /\ Records(k, c + 1) = Records(k, c) \cup {c + 1}
              /\ \A j \in Counters : j # k => Records(j, c + 1) = Records(j, c)
              => Cardinality(AllRecords(c + 1)) = Cardinality(AllRecords(c)) + 1
<1>1. \A k : Records(k, c) \subseteq 1..c
  BY RecordsAre, Zenon
<1>2. AllRecords(c) \subseteq 1..c
  BY <1>1, Zenon DEF AllRecords
<1>3. IsFiniteSet(AllRecords(c))
  <2>1. IsFiniteSet(1..c)
    <3>1. 1 \in Int /\ c \in Int
      OBVIOUS
    <3> QED BY <3>1, FS_Interval, Zenon
  <2> QED BY <1>2, <2>1, FS_Subset, Zenon
<1>4. c + 1 \notin 1..c
  OBVIOUS
<1>5. ASSUME \A k \in Counters : Records(k, c + 1) = Records(k, c)
      PROVE  AllRecords(c + 1) = AllRecords(c)
  <2>1. \A e : e \in AllRecords(c + 1) <=> e \in AllRecords(c)
    BY <1>5, Zenon DEF AllRecords
  <2> QED BY <2>1, Zenon
<1>6. ASSUME NEW k \in Counters, Records(k, c + 1) = Records(k, c) \cup {c + 1},
             \A j \in Counters : j # k => Records(j, c + 1) = Records(j, c)
      PROVE  AllRecords(c + 1) = AllRecords(c) \cup {c + 1}
  <2>1. \A e : e \in AllRecords(c + 1) <=> e \in AllRecords(c) \/ e = c + 1
    <3> SUFFICES ASSUME NEW e PROVE e \in AllRecords(c + 1) <=> e \in AllRecords(c) \/ e = c + 1
      BY Zenon
    <3>1. \A n : e \in AllRecords(n) <=> \E j \in Counters : e \in Records(j, n)
      BY Zenon DEF AllRecords
    <3>2. \A j \in Counters : e \in Records(j, c + 1) <=> e \in Records(j, c) \/ (j = k /\ e = c + 1)
      <4> TAKE j \in Counters
      <4>1. CASE j = k
        BY <1>6, <4>1, Zenon
      <4>2. CASE j # k
        BY <1>6, <4>2, Zenon
      <4> QED BY <4>1, <4>2
    <3> QED BY <3>1, <3>2, Zenon
  <2> QED BY <2>1, Zenon
<1>7. Cardinality(AllRecords(c) \cup {c + 1}) = Cardinality(AllRecords(c)) + 1
  <2>1. c + 1 \notin AllRecords(c)
    BY <1>2, <1>4, Zenon
  <2> QED BY <1>3, <2>1, FS_AddElement, Zenon
<1> QED BY <1>5, <1>6, <1>7, Zenon

-----------------------------------------------------------------------------
(* The progress: what the reader knows of the output.                      *)

\* What the reader knows of the line it is in,
LineKnown(c, r) ==
  /\ Len(LineAt(c)) <= LineLimit => r.line = LineAt(c) /\ ~r.overflow
  /\ ~(Len(LineAt(c)) <= LineLimit) => ~(Len(r.line) < LineLimit) /\ r.overflow

\* of the readings of a counter,
MaximumOf(k, c, m) ==
  /\ \A f \in Readings(k, c) : ReadingAt(f) <= m
  /\ m = 0 \/ \E f \in Readings(k, c) : ReadingAt(f) = m

\* and of the first c characters.
Sees(c, r) ==
  /\ r \in Reader
  /\ LineKnown(c, r)
  /\ \A k \in Counters : MaximumOf(k, c, r.maxima[k])
  /\ r.touches = Cardinality(AllRecords(c))

\* The line in front of a place,
LineBefore(e) == LineAt(e - 1)

\* The line that ends at the next place.
LEMMA NextLine ==
  ASSUME NEW c \in Nat
  PROVE  /\ ReadingAt(c + 1) = Number(Tail(LineAt(c)))
         /\ \A k : Kept(k, c + 1) <=>
              Len(LineAt(c)) <= LineLimit /\ IsReading(LineAt(c)) /\ LineAt(c)[1] = k
<1>1. \A e : ReadingAt(e) = Number(Tail(LineBefore(e)))
  BY Zenon DEF ReadingAt, LineBefore
<1>2. \A k, e : Kept(k, e) <=>
        Len(LineBefore(e)) <= LineLimit /\ IsReading(LineBefore(e)) /\ LineBefore(e)[1] = k
  BY Zenon DEF Kept, LineBefore
<1>3. LineBefore(c + 1) = LineAt(c)
  BY DEF LineBefore
<1>4. PICK l : l = LineAt(c) /\ l = LineBefore(c + 1)
  BY <1>3, Zenon
<1>5. ReadingAt(c + 1) = Number(Tail(l))
  BY <1>1, <1>4, Zenon
<1>6. \A k : Kept(k, c + 1) <=> Len(l) <= LineLimit /\ IsReading(l) /\ l[1] = k
  BY <1>2, <1>4, Zenon
<1> QED BY <1>4, <1>5, <1>6, Zenon

\* Readings are natural numbers at places of the output.
LEMMA ReadingsAreNatural ==
  ASSUME output \in Seq(STRING), NEW c \in Nat, c <= Len(output), NEW k, NEW f \in Readings(k, c)
  PROVE  ReadingAt(f) \in Nat /\ f \in 1..c
<1>1. f \in 1..c
  BY ReadingsAre, Zenon
<1>2. f - 1 \in Nat /\ f - 1 <= Len(output)
  <2>1. Len(output) \in Nat
    OBVIOUS
  <2> QED BY <1>1, <2>1
<1>3. IsReading(LineAt(f - 1))
  BY Zenon DEF Readings
<1>4. LineAt(f - 1) \in Seq(STRING)
  BY <1>2, LineIs, Zenon
<1>5. Number(Tail(LineAt(f - 1))) \in Nat
  BY <1>3, <1>4, ReadingIsNatural, Zenon
<1> QED BY <1>1, <1>5, Zenon DEF ReadingAt

\* What a comparison of two values says of a third.
LEMMA Compared ==
  ASSUME NEW a \in Nat, NEW b \in Nat
  PROVE  /\ a > b => a > 0 /\ b < a /\ b <= a /\ a <= a
         /\ ~(a > b) => a <= b /\ (b = 0 => ~(a > 0)) /\ ~(b < a)
         /\ \A x \in Nat : x <= b /\ a > b => x < a /\ x <= a
OBVIOUS

\* The next character ends a line that sets a new maximum.
LEMMA RecordStep ==
  ASSUME output \in Seq(STRING), NEW c \in Nat, c + 1 <= Len(output), output[c + 1] = "\n",
         NEW r, Sees(c, r), IsRecord(r)
  PROVE  Sees(c + 1, EndLine(r))
<1> DEFINE l == LineAt(c)
           k == r.line[1]
           v == Number(Tail(r.line))
           e == EndLine(r)
<1>1. r \in Reader /\ LineKnown(c, r) /\ (\A j \in Counters : MaximumOf(j, c, r.maxima[j]))
      /\ r.touches = Cardinality(AllRecords(c))
  BY Zenon DEF Sees
<1>2. Len(output) \in Nat /\ c <= Len(output) /\ c + 1 \in Nat
  OBVIOUS
<1>3. ~r.overflow /\ IsReading(r.line) /\ v > r.maxima[k]
  BY Zenon DEF IsRecord
<1>4. Len(l) <= LineLimit /\ r.line = l
  BY <1>1, <1>3, Zenon DEF LineKnown
<1>5. l \in Seq(STRING) /\ LineAt(c + 1) = <<>>
  BY <1>2, LineIs, Zenon
<1>6. v \in Nat /\ k \in Counters
  BY <1>3, <1>4, <1>5, ReadingIsNatural
<1>7. r.maxima[k] \in Nat
  BY <1>1, <1>6 DEF Reader
<1>8. /\ e \in Reader /\ e.line = <<>> /\ ~e.overflow
      /\ e.maxima = [r.maxima EXCEPT ![k] = v] /\ e.touches = r.touches + 1
  BY <1>1, EndLineIs, Zenon
<1>9. e.maxima[k] = v /\ \A j \in Counters : j # k => e.maxima[j] = r.maxima[j]
  <2>1. r.maxima \in [Counters -> Nat]
    BY <1>1 DEF Reader
  <2> QED BY <1>6, <1>8, <2>1, Zenon
<1>10. ReadingAt(c + 1) = v /\ \A j : Kept(j, c + 1) <=> j = k
  <2>1. ReadingAt(c + 1) = Number(Tail(l))
    BY NextLine, Zenon
  <2>2. \A j : Kept(j, c + 1) <=> Len(l) <= LineLimit /\ IsReading(l) /\ l[1] = j
    BY NextLine, Zenon
  <2> HIDE DEF l
  <2>3. IsReading(l) /\ l[1] = k /\ Number(Tail(l)) = v
    BY <1>3, <1>4
  <2> QED BY <1>4, <2>1, <2>2, <2>3, Zenon
<1> HIDE DEF v, k, e, l
<1>11. /\ Readings(k, c + 1) = Readings(k, c) \cup {c + 1}
       /\ \A j : j # k => Readings(j, c + 1) = Readings(j, c)
  BY <1>10, ReadingsAre, Zenon
<1>12. /\ \A f \in Readings(k, c) : ReadingAt(f) \in Nat /\ ReadingAt(f) <= r.maxima[k]
       /\ \A j : Readings(j, c) \subseteq 1..c
  BY <1>1, <1>2, <1>6, ReadingsAreNatural, ReadingsAre, Zenon DEF MaximumOf
<1>13. v > 0 /\ v <= v /\ \A f \in Readings(k, c) : ReadingAt(f) < v /\ ReadingAt(f) <= v
  BY <1>3, <1>6, <1>7, <1>12, Compared, Zenon DEF v, k
<1>14. Above(k, c + 1, Readings(k, c)) /\ c + 1 \in Readings(k, c + 1)
  BY <1>10, <1>11, <1>13, Zenon DEF Above
<1>15. Records(k, c + 1) = Records(k, c) \cup {c + 1}
  BY <1>14, RecordsAre, Zenon
<1>16. c + 1 \notin 1..c
  OBVIOUS
<1>17. \A j : j # k => Records(j, c + 1) = Records(j, c)
  <2> SUFFICES ASSUME NEW j, j # k PROVE Records(j, c + 1) = Records(j, c)
    BY Zenon
  <2>1. c + 1 \notin Readings(j, c + 1)
    BY <1>11, <1>12, <1>16, Zenon
  <2> QED BY <2>1, RecordsAre, Zenon
<1>18. MaximumOf(k, c + 1, v)
  BY <1>10, <1>11, <1>13, Zenon DEF MaximumOf
<1>19. ASSUME NEW j \in Counters PROVE MaximumOf(j, c + 1, e.maxima[j])
  <2>1. CASE j = k
    BY <1>9, <1>18, <2>1, Zenon
  <2>2. CASE j # k
    <3>1. Readings(j, c + 1) = Readings(j, c)
      BY <1>11, <2>2, Zenon
    <3>2. MaximumOf(j, c, r.maxima[j]) /\ e.maxima[j] = r.maxima[j]
      BY <1>1, <1>9, <2>2, Zenon
    <3> QED BY <3>1, <3>2, Zenon DEF MaximumOf
  <2> QED BY <2>1, <2>2
<1>20. e.touches = Cardinality(AllRecords(c + 1))
  BY <1>1, <1>6, <1>8, <1>15, <1>17, RecordsCounted, Zenon
<1>21. LineKnown(c + 1, e)
  <2>1. Len(LineAt(c + 1)) <= LineLimit
    <3>1. Len(LineAt(c + 1)) = 0
      BY <1>5
    <3> QED BY <3>1, LimitsAssumption
  <2> QED BY <1>5, <1>8, <2>1, Zenon DEF LineKnown
<1> QED BY <1>8, <1>19, <1>20, <1>21, Zenon DEF Sees, e

\* What follows if no counter has a new record.
LEMMA NothingNew ==
  ASSUME NEW c \in Nat, NEW r, Sees(c, r), NEW e \in Reader, LineKnown(c + 1, e),
         e.maxima = r.maxima, e.touches = r.touches,
         \A k \in Counters :
           /\ Records(k, c + 1) = Records(k, c)
           /\ \/ Readings(k, c + 1) = Readings(k, c)
              \/ /\ Readings(k, c + 1) = Readings(k, c) \cup {c + 1}
                 /\ ReadingAt(c + 1) <= r.maxima[k]
  PROVE  Sees(c + 1, e)
<1>1. ASSUME NEW k \in Counters PROVE MaximumOf(k, c + 1, e.maxima[k])
  <2>1. MaximumOf(k, c, r.maxima[k]) /\ e.maxima[k] = r.maxima[k]
    BY Zenon DEF Sees
  <2>3. CASE Readings(k, c + 1) = Readings(k, c)
    BY <2>1, <2>3, Zenon DEF MaximumOf
  <2>4. CASE Readings(k, c + 1) = Readings(k, c) \cup {c + 1} /\ ReadingAt(c + 1) <= r.maxima[k]
    BY <2>1, <2>4, Zenon DEF MaximumOf
  <2> QED BY <2>3, <2>4, Zenon
<1>2. e.touches = Cardinality(AllRecords(c + 1))
  <2>1. Cardinality(AllRecords(c + 1)) = Cardinality(AllRecords(c))
    BY RecordsCounted, Zenon
  <2> QED BY <2>1, Zenon DEF Sees
<1> QED BY <1>1, <1>2, Zenon DEF Sees

\* The next character ends a line that sets no new maximum.
LEMMA EndStep ==
  ASSUME output \in Seq(STRING), NEW c \in Nat, c + 1 <= Len(output), output[c + 1] = "\n",
         NEW r, Sees(c, r), ~IsRecord(r)
  PROVE  Sees(c + 1, EndLine(r))
<1> DEFINE l == LineAt(c)
           e == EndLine(r)
<1>1. r \in Reader /\ LineKnown(c, r) /\ (\A j \in Counters : MaximumOf(j, c, r.maxima[j]))
  BY Zenon DEF Sees
<1>2. Len(output) \in Nat /\ c <= Len(output) /\ c + 1 \in Nat
  OBVIOUS
<1>3. l \in Seq(STRING) /\ LineAt(c + 1) = <<>>
  BY <1>2, LineIs, Zenon
<1>4. e \in Reader /\ e.line = <<>> /\ ~e.overflow /\ e.maxima = r.maxima /\ e.touches = r.touches
  BY <1>1, EndLineIs, Zenon
<1>5. LineKnown(c + 1, e)
  <2>1. Len(LineAt(c + 1)) <= LineLimit
    <3>1. Len(LineAt(c + 1)) = 0
      BY <1>3
    <3> QED BY <3>1, LimitsAssumption
  <2> QED BY <1>3, <1>4, <2>1, Zenon DEF LineKnown
<1>6. ASSUME NEW k \in Counters
      PROVE  /\ Records(k, c + 1) = Records(k, c)
             /\ \/ Readings(k, c + 1) = Readings(k, c)
                \/ /\ Readings(k, c + 1) = Readings(k, c) \cup {c + 1}
                   /\ ReadingAt(c + 1) <= r.maxima[k]
  <2>1. CASE Kept(k, c + 1)
    <3>1. Len(l) <= LineLimit /\ IsReading(l) /\ l[1] = k /\ ReadingAt(c + 1) = Number(Tail(l))
      BY <2>1, NextLine, Zenon
    <3>2. r.line = l /\ ~r.overflow
      BY <1>1, <3>1, Zenon DEF LineKnown
    <3> DEFINE v == ReadingAt(c + 1)
               m == r.maxima[k]
    <3>3. v \in Nat
      BY <1>3, <3>1, ReadingIsNatural, Zenon
    <3>4. m \in Nat
      BY <1>1 DEF Reader
    <3>5. ~(v > m)
      <4>1. ~(Number(Tail(r.line)) > r.maxima[r.line[1]])
        <5> HIDE DEF l
        <5>1. IsReading(r.line)
          BY <3>1, <3>2
        <5> QED BY <3>2, <5>1, Zenon DEF IsRecord
      <4> HIDE DEF l
      <4> QED BY <3>1, <3>2, <4>1
    <3> HIDE DEF v, m
    <3>6. v <= m /\ (m = 0 => ~(v > 0)) /\ ~(m < v)
      BY <3>3, <3>4, <3>5, Compared, Zenon
    <3>7. \A f \in Readings(k, c) : f < c + 1
      <4>1. Readings(k, c) \subseteq 1..c
        BY ReadingsAre, Zenon
      <4> QED BY <4>1
    <3>8. ~Above(k, c + 1, Readings(k, c))
      <4>1. CASE m = 0
        BY <3>6, <4>1, Zenon DEF Above, v
      <4>2. CASE m # 0
        <5>1. PICK f \in Readings(k, c) : ReadingAt(f) = m
          BY <1>1, <4>2, Zenon DEF MaximumOf, m
        <5> QED BY <3>6, <3>7, <5>1, Zenon DEF Above, v
      <4> QED BY <4>1, <4>2
    <3>9. Records(k, c + 1) = Records(k, c)
      BY <3>8, RecordsAre, Zenon
    <3>10. Readings(k, c + 1) = Readings(k, c) \cup {c + 1}
      BY <2>1, ReadingsAre, Zenon
    <3> QED BY <3>6, <3>9, <3>10, Zenon DEF v, m
  <2>2. CASE ~Kept(k, c + 1)
    <3>1. Readings(k, c + 1) = Readings(k, c) /\ Readings(k, c) \subseteq 1..c
      BY <2>2, ReadingsAre, Zenon
    <3>2. c + 1 \notin 1..c
      OBVIOUS
    <3>3. c + 1 \notin Readings(k, c + 1)
      BY <3>1, <3>2, Zenon
    <3> QED BY <3>1, <3>3, RecordsAre, Zenon
  <2> QED BY <2>1, <2>2
<1> HIDE DEF e
<1>7. Sees(c + 1, e)
  BY <1>4, <1>5, <1>6, NothingNew, Zenon
<1> QED BY <1>7 DEF e

\* The next character is not the end of a line.
LEMMA CharacterStep ==
  ASSUME output \in Seq(STRING), NEW c \in Nat, c + 1 <= Len(output), output[c + 1] # "\n",
         NEW r, Sees(c, r)
  PROVE  Sees(c + 1, OnByte(r, output[c + 1]))
<1> DEFINE ch == output[c + 1]
           e == OnByte(r, ch)
           l == LineAt(c)
<1>1. r \in Reader /\ LineKnown(c, r)
  BY Zenon DEF Sees
<1>2. Len(output) \in Nat /\ c <= Len(output) /\ ch \in STRING
  OBVIOUS
<1>3. l \in Seq(STRING) /\ LineAt(c + 1) = Append(l, ch)
  BY <1>2, LineIs, Zenon
<1>4. /\ e \in Reader /\ e.maxima = r.maxima /\ e.touches = r.touches
      /\ Len(r.line) < LineLimit => e.line = Append(r.line, ch) /\ e.overflow = r.overflow
      /\ ~(Len(r.line) < LineLimit) => e.line = r.line /\ e.overflow
  BY <1>1, <1>2, OtherByteIs, Zenon
<1> HIDE DEF e, ch, l
<1>5. LineKnown(c + 1, e)
  <2>1. Len(l) \in Nat /\ LineLimit \in Nat /\ Len(LineAt(c + 1)) = Len(l) + 1
    BY <1>2, <1>3, LimitsAssumption
  <2>2. \/ Len(l) < LineLimit /\ Len(l) <= LineLimit /\ Len(l) + 1 <= LineLimit
        \/ Len(l) = LineLimit /\ Len(l) <= LineLimit /\ ~(Len(l) < LineLimit) /\ ~(Len(l) + 1 <= LineLimit)
        \/ ~(Len(l) <= LineLimit) /\ ~(Len(l) + 1 <= LineLimit)
    BY <2>1
  <2>3. CASE Len(l) < LineLimit /\ Len(l) <= LineLimit /\ Len(l) + 1 <= LineLimit
    <3>1. r.line = l /\ ~r.overflow
      BY <1>1, <2>3, Zenon DEF LineKnown, l
    <3>2. e.line = LineAt(c + 1) /\ e.overflow = r.overflow
      BY <1>3, <1>4, <2>3, <3>1
    <3> QED BY <2>1, <2>3, <3>1, <3>2 DEF LineKnown
  <2>4. CASE Len(l) = LineLimit /\ Len(l) <= LineLimit /\ ~(Len(l) < LineLimit) /\ ~(Len(l) + 1 <= LineLimit)
    <3>1. r.line = l
      BY <1>1, <2>4, Zenon DEF LineKnown, l
    <3>2. e.line = l /\ e.overflow
      BY <1>4, <2>4, <3>1
    <3> QED BY <2>1, <2>4, <3>2 DEF LineKnown
  <2>5. CASE ~(Len(l) <= LineLimit) /\ ~(Len(l) + 1 <= LineLimit)
    <3>1. ~(Len(r.line) < LineLimit)
      BY <1>1, <2>5, Zenon DEF LineKnown, l
    <3>2. e.line = r.line /\ e.overflow
      BY <1>4, <3>1
    <3> QED BY <2>1, <2>5, <3>1, <3>2 DEF LineKnown
  <2> QED BY <2>2, <2>3, <2>4, <2>5
<1>6. ASSUME NEW k \in Counters
      PROVE  Records(k, c + 1) = Records(k, c) /\ Readings(k, c + 1) = Readings(k, c)
  <2>1. Readings(k, c + 1) = Readings(k, c) /\ Readings(k, c) \subseteq 1..c
    BY ReadingsAre, Zenon
  <2>2. c + 1 \notin 1..c
    OBVIOUS
  <2>3. c + 1 \notin Readings(k, c + 1)
    BY <2>1, <2>2, Zenon
  <2> QED BY <2>1, <2>3, RecordsAre, Zenon
<1>7. Sees(c + 1, e)
  BY <1>4, <1>5, <1>6, NothingNew, Zenon
<1> QED BY <1>7 DEF e, ch

\* Any character takes the reader from what it knew to what it knows with it.
LEMMA ByteStep ==
  ASSUME output \in Seq(STRING), NEW c \in Nat, c + 1 <= Len(output), NEW r, Sees(c, r)
  PROVE  Sees(c + 1, OnByte(r, output[c + 1]))
<1>1. CASE output[c + 1] = "\n"
  <2>1. OnByte(r, output[c + 1]) = EndLine(r)
    BY <1>1, Zenon DEF OnByte
  <2>2. Sees(c + 1, EndLine(r))
    BY <1>1, RecordStep, EndStep, Zenon
  <2> QED BY <2>1, <2>2, Zenon
<1>2. CASE output[c + 1] # "\n"
  BY <1>2, CharacterStep, Zenon
<1> QED BY <1>1, <1>2

-----------------------------------------------------------------------------
(* The progress: the reads.                                                *)

\* What was known of an output stays known while the output stays: of where
\* its lines end and begin,
LEMMA LinesStay ==
  ASSUME output' = output
  PROVE  \A c : Ends(c)' = Ends(c) /\ StartOf(c)' = StartOf(c) /\ LineAt(c)' = LineAt(c)
<1>1. \A c : Ends(c)' = Ends(c)
  BY Zenon DEF Ends
<1>2. \A c : StartOf(c)' = StartOf(c)
  <2> DEFINE Latest(S) == IF S = {} THEN 0 ELSE CHOOSE i \in S : \A j \in S : j <= i
  <2>1. \A c : StartOf(c) = Latest(Ends(c))
    BY Zenon DEF StartOf
  <2>2. \A c : StartOf(c)' = Latest(Ends(c)')
    BY Zenon DEF StartOf
  <2> HIDE DEF Latest
  <2> QED BY <1>1, <2>1, <2>2, Zenon
<1>3. \A c : LineAt(c)' = LineAt(c)
  <2>1. \A c : LineAt(c) = SubSeq(output, StartOf(c) + 1, c)
    BY Zenon DEF LineAt
  <2>2. \A c : LineAt(c)' = SubSeq(output', StartOf(c)' + 1, c)
    BY Zenon DEF LineAt
  <2> QED BY <1>2, <2>1, <2>2, Zenon
<1> QED BY <1>1, <1>2, <1>3

\* of its readings and records,
LEMMA RecordsStay ==
  ASSUME output' = output
  PROVE  \A k, c : /\ Readings(k, c)' = Readings(k, c) /\ ReadingAt(c)' = ReadingAt(c)
                   /\ Records(k, c)' = Records(k, c)
<1>1. \A e : LineBefore(e)' = LineBefore(e)
  <2>1. \A e : LineBefore(e)' = LineAt(e - 1)' /\ LineBefore(e) = LineAt(e - 1)
    BY Zenon DEF LineBefore
  <2> QED BY <2>1, LinesStay, Zenon
<1>2. \A e : ReadingAt(e)' = ReadingAt(e)
  <2>1. \A e : ReadingAt(e) = Number(Tail(LineBefore(e)))
    BY Zenon DEF ReadingAt, LineBefore
  <2>2. \A e : ReadingAt(e)' = Number(Tail(LineBefore(e)'))
    BY Zenon DEF ReadingAt, LineBefore
  <2> QED BY <1>1, <2>1, <2>2, Zenon
<1> DEFINE Fits(l, k) == Len(l) <= LineLimit /\ IsReading(l) /\ l[1] = k
<1>3. \A k, c : Readings(k, c)' = Readings(k, c)
  <2>1. \A k, c, e : e \in Readings(k, c) <=> e \in Ends(c) /\ Fits(LineBefore(e), k)
    BY Zenon DEF Readings, LineBefore
  <2>2. \A k, c, e : e \in Readings(k, c)' <=> e \in Ends(c)' /\ Fits(LineBefore(e)', k)
    BY Zenon DEF Readings, LineBefore
  <2> HIDE DEF Fits
  <2> SUFFICES ASSUME NEW k, NEW c PROVE Readings(k, c)' = Readings(k, c)
    BY Zenon
  <2>3. \A e : e \in Readings(k, c)' <=> e \in Readings(k, c)
    BY <1>1, <2>1, <2>2, LinesStay, Zenon
  <2> QED BY <2>3, Zenon
<1>4. \A k, c : Records(k, c)' = Records(k, c)
  <2>1. \A k, c, e : e \in Records(k, c) <=>
          /\ e \in Readings(k, c) /\ ReadingAt(e) > 0
          /\ \A f \in Readings(k, c) : f < e => ReadingAt(f) < ReadingAt(e)
    BY Zenon DEF Records
  <2>2. \A k, c, e : e \in Records(k, c)' <=>
          /\ e \in Readings(k, c)' /\ ReadingAt(e)' > 0
          /\ \A f \in Readings(k, c)' : f < e => ReadingAt(f)' < ReadingAt(e)'
    BY Zenon DEF Records
  <2> SUFFICES ASSUME NEW k, NEW c PROVE Records(k, c)' = Records(k, c)
    BY Zenon
  <2>3. \A e : e \in Records(k, c)' <=> e \in Records(k, c)
    BY <1>2, <1>3, <2>1, <2>2, Zenon
  <2> QED BY <2>3, Zenon
<1> QED BY <1>2, <1>3, <1>4, Zenon

\* and so of what the reader makes of them.
LEMMA SightStays ==
  ASSUME output' = output, NEW c, NEW r, Sees(c, r)
  PROVE  Sees(c, r)'
<1>1. AllRecords(c)' = AllRecords(c)
  <2>1. \A e : e \in AllRecords(c)' <=> \E k \in Counters : e \in Records(k, c)'
    BY Zenon DEF AllRecords
  <2>2. \A e : e \in AllRecords(c) <=> \E k \in Counters : e \in Records(k, c)
    BY Zenon DEF AllRecords
  <2>3. \A e : e \in AllRecords(c)' <=> e \in AllRecords(c)
    BY <2>1, <2>2, RecordsStay, Zenon
  <2> QED BY <2>3, Zenon
<1>2. LineKnown(c, r)'
  <2>1. LineKnown(c, r)
    BY Zenon DEF Sees
  <2> QED BY <2>1, LinesStay, Zenon DEF LineKnown
<1>3. ASSUME NEW k \in Counters PROVE MaximumOf(k, c, r.maxima[k])'
  <2>1. MaximumOf(k, c, r.maxima[k])
    BY Zenon DEF Sees
  <2> QED BY <2>1, RecordsStay, Zenon DEF MaximumOf
<1>4. r \in Reader /\ (r.touches = Cardinality(AllRecords(c)))'
  BY <1>1, Zenon DEF Sees
<1> QED BY <1>2, <1>3, <1>4, Zenon DEF Sees

\* Before the first character there is nothing to know.
LEMMA NothingSeen == Sees(0, FreshReader)
<1>1. FreshReader = State(<<>>, FALSE, [k \in Counters |-> 0], 0)
  BY Zenon DEF FreshReader, State
<1>2. FreshReader \in Reader
  <2>1. <<>> \in Seq(STRING) /\ FALSE \in BOOLEAN /\ [k \in Counters |-> 0] \in [Counters -> Nat] /\ 0 \in Nat
    BY EmptySeq
  <2> QED BY <1>1, <2>1, StateIsReader, Zenon
<1>3. /\ FreshReader.line = <<>> /\ ~FreshReader.overflow /\ FreshReader.touches = 0
      /\ \A k \in Counters : FreshReader.maxima[k] = 0
  BY DEF FreshReader
<1>4. LineAt(0) = <<>> /\ Len(LineAt(0)) <= LineLimit
  <2>1. StartOf(0) = 0
    BY EndsAre, Zenon DEF StartOf
  <2>2. LineAt(0) = SubSeq(output, 0 + 1, 0)
    BY <2>1, Zenon DEF LineAt
  <2>3. SubSeq(output, 0 + 1, 0) = <<>>
    OBVIOUS
  <2>4. Len(<<>>) <= LineLimit
    BY LimitsAssumption
  <2> QED BY <2>2, <2>3, <2>4
<1>5. \A k : Readings(k, 0) = {} /\ Records(k, 0) = {}
  <2>1. Ends(0) = {}
    BY EndsAre, Zenon
  <2> QED BY <2>1, Zenon DEF Readings, Records
<1>6. Cardinality(AllRecords(0)) = 0
  <2>1. AllRecords(0) = {}
    BY <1>5, Zenon DEF AllRecords
  <2> QED BY <2>1, FS_EmptySet, Zenon
<1>7. LineKnown(0, FreshReader)
  BY <1>3, <1>4, Zenon DEF LineKnown
<1>8. \A k \in Counters : MaximumOf(k, 0, FreshReader.maxima[k])
  BY <1>3, <1>5, Zenon DEF MaximumOf
<1> QED BY <1>2, <1>3, <1>6, <1>7, <1>8, Zenon DEF Sees

\* The highest reading of a counter is its maximum.
LEMMA MaximumIsHighest ==
  ASSUME output \in Seq(STRING), NEW c \in Nat, c <= Len(output), NEW k,
         NEW m \in Nat, MaximumOf(k, c, m)
  PROVE  m = Highest(k, c)
<1> DEFINE S == {0} \cup {ReadingAt(e) : e \in Readings(k, c)}
<1>1. S \subseteq Nat
  <2>1. \A e \in Readings(k, c) : ReadingAt(e) \in Nat
    BY ReadingsAreNatural, Zenon
  <2> QED BY <2>1
<1>2. m \in S /\ \A x \in S : x <= m
  <2>1. m \in S
    BY Zenon DEF MaximumOf
  <2>2. 0 <= m
    OBVIOUS
  <2> QED BY <2>1, <2>2, Zenon DEF MaximumOf
<1>3. Highest(k, c) = CHOOSE x \in S : \A y \in S : x >= y
  BY Zenon DEF Highest, Max
<1> HIDE DEF S
<1>4. \A y \in S : m >= y
  BY <1>1, <1>2
<1> DEFINE h == CHOOSE x \in S : \A y \in S : x >= y
<1>5. h \in S /\ \A y \in S : h >= y
  BY <1>2, <1>4, Zenon
<1> HIDE DEF h
<1>6. h >= m /\ m >= h /\ h \in Nat
  BY <1>1, <1>2, <1>4, <1>5
<1>7. h = m
  BY <1>6
<1> QED BY <1>3, <1>7, Zenon DEF h

\* One read, of any number of characters, takes the reader from what it knew
\* of those before to what it knows with them.
LEMMA ChunkSeen ==
  ASSUME output \in Seq(STRING), consumed \in Nat, NEW n \in Nat,
         Sees(consumed, reader), ReadProgress(n)
  PROVE  Sees(consumed + n, reader')
<1> DEFINE after == CHOOSE f : f = [i \in 0..n |->
                      IF i = 0 THEN reader ELSE OnByte(f[i - 1], output[consumed + i])]
           F == [i \in 1..n |-> [r \in Reader |-> OnByte(r, output[consumed + i])]]
<1>1. reader' = after[n] /\ consumed + n <= Len(output)
  BY Zenon DEF ReadProgress
<1>2. reader \in Reader
  BY Zenon DEF Sees
<1>3. Len(output) \in Nat
  OBVIOUS
<1>4. F \in [1..n -> [Reader -> Reader]]
  <2> SUFFICES ASSUME NEW i \in 1..n, NEW r \in Reader
               PROVE  OnByte(r, output[consumed + i]) \in Reader
    BY Zenon
  <2>1. output[consumed + i] \in STRING
    BY <1>1, <1>3
  <2>2. CASE output[consumed + i] = "\n"
    BY <2>2, EndLineIs, Zenon DEF OnByte
  <2>3. CASE output[consumed + i] # "\n"
    BY <2>1, <2>3, OtherByteIs, Zenon
  <2> QED BY <2>2, <2>3, Zenon
<1>5. PICK h : Repeats(h, n, Reader, reader, F)
  <2> HIDE DEF F
  <2> QED BY <1>2, <1>4, Iterate, Zenon
<1>6. h = [i \in 0..n |-> IF i = 0 THEN reader ELSE OnByte(h[i - 1], output[consumed + i])]
  <2>1. ASSUME NEW i \in 0..n
        PROVE  h[i] = IF i = 0 THEN reader ELSE OnByte(h[i - 1], output[consumed + i])
    <3>1. CASE i = 0
      BY <1>5, <3>1, Zenon DEF Repeats
    <3>2. CASE i # 0
      <4>1. i \in 1..n /\ i - 1 \in 0..n
        BY <3>2
      <4>2. h[i] = F[i][h[i - 1]] /\ h[i - 1] \in Reader
        BY <1>5, <4>1, Zenon DEF Repeats
      <4>3. F[i][h[i - 1]] = OnByte(h[i - 1], output[consumed + i])
        BY <4>1, <4>2, Zenon
      <4> QED BY <3>2, <4>2, <4>3, Zenon
    <3> QED BY <3>1, <3>2
  <2>2. h \in [0..n -> Reader]
    BY <1>5, Zenon DEF Repeats
  <2> QED BY <2>1, <2>2, Zenon
<1>7. after = [i \in 0..n |-> IF i = 0 THEN reader ELSE OnByte(after[i - 1], output[consumed + i])]
  BY <1>6, Zenon
<1> HIDE DEF after, F
<1> DEFINE A == {i \in 0..n : Sees(consumed + i, after[i])}
<1>8. 0 \in A
  <2>1. after[0] = reader /\ consumed + 0 = consumed /\ 0 \in 0..n
    BY <1>7
  <2> QED BY <2>1
<1>9. ASSUME NEW i \in 1..n, i - 1 \in A PROVE i \in A
  <2> DEFINE c == consumed + (i - 1)
             r == after[i - 1]
  <2>1. Sees(c, r)
    BY <1>9
  <2>2. c \in Nat /\ c + 1 <= Len(output) /\ consumed + i = c + 1 /\ i \in 0..n /\ i # 0
    BY <1>1, <1>3
  <2>3. after[i] = OnByte(r, output[consumed + i])
    BY <1>7, <2>2, Zenon
  <2> HIDE DEF c, r
  <2>4. Sees(c + 1, OnByte(r, output[c + 1]))
    BY <2>1, <2>2, ByteStep, Zenon
  <2>5. Sees(consumed + i, after[i])
    BY <2>2, <2>3, <2>4
  <2> QED BY <2>2, <2>5
<1>10. n \in A
  <2> HIDE DEF A
  <2>1. \A i \in 0..n : i \in A
    BY <1>8, <1>9, UpTo
  <2> QED BY <2>1
<1> QED BY <1>1, <1>10

\* What was read so far is a beginning of the output, and is seen; before
\* there is an output nothing was read.
ReaderSound ==
  /\ output \in Seq(STRING)
  /\ consumed \in Nat /\ consumed <= Len(output)
  /\ \E c, r : c = consumed /\ r = reader /\ Sees(c, r)
  /\ stage \in {"received", "accepted"} => consumed = 0 /\ reader = FreshReader

\* It holds at the start,
LEMMA InitReads == Init => ReaderSound
<1> SUFFICES ASSUME Init PROVE ReaderSound
  OBVIOUS
<1>1. output = <<>> /\ consumed = 0 /\ reader = FreshReader
  BY DEF Init
<1>2. output \in Seq(STRING) /\ Len(output) = 0
  BY <1>1, EmptySeq
<1> QED BY <1>1, <1>2, NothingSeen DEF ReaderSound

\* every step keeps it,
LEMMA NextReads == ReaderSound /\ [Next]_vars => ReaderSound'
<1> SUFFICES ASSUME ReaderSound, [Next]_vars PROVE ReaderSound'
  OBVIOUS
<1>1. /\ output \in Seq(STRING) /\ consumed \in Nat /\ consumed <= Len(output)
      /\ stage \in {"received", "accepted"} => consumed = 0 /\ reader = FreshReader
  BY DEF ReaderSound
<1>2. Sees(consumed, reader)
  BY DEF ReaderSound
<1>3. ASSUME output' = output, consumed' = consumed, reader' = reader,
             stage' \in {"received", "accepted"} => stage \in {"received", "accepted"}
      PROVE  ReaderSound'
  <2>1. PICK c, r : c = consumed /\ r = reader /\ Sees(c, r)
    BY Zenon DEF ReaderSound
  <2>2. Sees(c, r)'
    BY <1>3, <2>1, SightStays, Zenon
  <2>3. \E d, q : d = consumed' /\ q = reader' /\ Sees(d, q)'
    BY <1>3, <2>1, <2>2, Zenon
  <2>4. output' \in Seq(STRING) /\ consumed' \in Nat /\ consumed' <= Len(output')
    BY <1>1, <1>3
  <2> QED BY <1>1, <1>3, <2>3, <2>4, Zenon DEF ReaderSound
<1>4. ASSUME NEW d \in Documents, Refuse(d) PROVE ReaderSound'
  BY <1>3, <1>4 DEF Refuse, progressVars
<1>5. ASSUME NEW d \in Documents, Accept(d) PROVE ReaderSound'
  BY <1>3, <1>5 DEF Accept, progressVars
<1>6. CASE Spawn
  <2>1. output' \in Outputs /\ consumed' = 0 /\ reader' = FreshReader /\ stage' = "running"
    BY <1>1, <1>6 DEF Spawn
  <2>2. output' \in Seq(STRING)
    BY <2>1, OutputsAssumption, Zenon
  <2>3. PICK c, r : c = 0 /\ r = FreshReader
    OBVIOUS
  <2>4. Sees(0, FreshReader)'
    BY NothingSeen, PTL
  <2> QED BY <2>1, <2>2, <2>3, <2>4 DEF ReaderSound
<1>7. ASSUME NEW n \in 1..ReadLimit, ReadProgress(n) PROVE ReaderSound'
  <2>1. /\ output' = output /\ consumed' = consumed + n /\ stage' = stage /\ stage = "running"
        /\ consumed + n <= Len(output) /\ n \in Nat
    BY <1>7, LimitsAssumption DEF ReadProgress
  <2>2. Sees(consumed + n, reader')
    BY <1>1, <1>2, <1>7, <2>1, ChunkSeen, Zenon
  <2>3. PICK c, r : c = consumed + n /\ r = reader' /\ Sees(c, r)
    BY <2>2, Zenon
  <2>4. Sees(c, r)'
    BY <2>1, <2>3, SightStays, Zenon
  <2>5. \E d, q : d = consumed' /\ q = reader' /\ Sees(d, q)'
    BY <2>1, <2>3, <2>4, Zenon
  <2>6. output' \in Seq(STRING) /\ consumed' \in Nat /\ consumed' <= Len(output')
    BY <1>1, <2>1
  <2>7. stage' \notin {"received", "accepted"}
    BY <2>1
  <2> QED BY <2>5, <2>6, <2>7, Zenon DEF ReaderSound
<1>8. ASSUME NEW n \in 1..ReadLimit, ReadLog(n) PROVE ReaderSound'
  BY <1>3, <1>8 DEF ReadLog, progressVars
<1>9. CASE Finish
  BY <1>3, <1>9 DEF Finish, progressVars
<1>10. CASE Abort
  BY <1>3, <1>10 DEF Abort, progressVars
<1>11. CASE UNCHANGED vars
  BY <1>3, <1>11 DEF vars, progressVars
<1> QED BY <1>4, <1>5, <1>6, <1>7, <1>8, <1>9, <1>10, <1>11 DEF Next

\* and a reader that sees what was read has counted what the property says.
LEMMA SeenIsRight == ReaderSound => CountersSeeWholeLines
<1> SUFFICES ASSUME ReaderSound PROVE CountersSeeWholeLines
  OBVIOUS
<1>1. output \in Seq(STRING) /\ consumed \in Nat /\ consumed <= Len(output) /\ Sees(consumed, reader)
  BY DEF ReaderSound
<1>2. ASSUME NEW k \in Counters PROVE reader.maxima[k] = Highest(k, consumed)
  <2>1. reader.maxima[k] \in Nat
    BY <1>1 DEF Sees, Reader
  <2>2. MaximumOf(k, consumed, reader.maxima[k])
    BY <1>1, Zenon DEF Sees
  <2> QED BY <1>1, <2>1, <2>2, MaximumIsHighest, Zenon
<1>3. reader.touches = Cardinality(UNION {Records(k, consumed) : k \in Counters})
  BY <1>1, Zenon DEF Sees, AllRecords
<1> QED BY <1>2, <1>3, Zenon DEF CountersSeeWholeLines

\* Wherever the reads end and however long a line is, the counters are the
\* highest values of the whole lines and the clock was set back once for each
\* new maximum (read_progress).
THEOREM CountersAlwaysSeeWholeLines == Spec => []CountersSeeWholeLines
<1>1. Spec => []ReaderSound
  BY InitReads, NextReads, PTL DEF Spec
<1> QED BY <1>1, SeenIsRight, PTL
=============================================================================
