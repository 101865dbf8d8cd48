----------------------------- MODULE RunProofs -----------------------------
(***************************************************************************)
(* Proofs about a run: the loop behind its commands (RunPipes), for any    *)
(* output, chunk and pipe, and run_analysis() with the wizard (RunAnalysis *)
(* at the end), for any number of runs.                                    *)
(*                                                                         *)
(* What split_stream makes of a chunk is found byte by byte (FeedLined),   *)
(* by induction over the chunk as a least counterexample (ChunkLined): it  *)
(* takes the log and the unfinished line from the lines of what was read   *)
(* before to the lines of what has been read now.  Then come the places of *)
(* the loop (Known), above all that whoever writes has the pipe open.      *)
(***************************************************************************)
EXTENDS RunPipes, RunAnalysis, WellFoundedInduction, TLAPS

(* Induction over the bytes of an output, as the least counterexample.     *)
LEMMA LeastElement ==
  ASSUME NEW S \in SUBSET Nat, S # {}
  PROVE  \E x \in S : \A y \in S : x <= y
<1>1. \A x, y \in Nat : y < x => <<y, x>> \in OpToRel(<, Nat)
  BY DEF OpToRel
<1>2. PICK x \in S : \A y \in S : <<y, x>> \notin OpToRel(<, Nat)
  BY NatLessThanWellFounded, WFMin
<1>3. ASSUME NEW y \in S PROVE x <= y
  <2>1. x \in Nat /\ y \in Nat
    OBVIOUS
  <2>2. ~ (y < x)
    BY <1>1, <1>2, <2>1
  <2> QED  BY <2>1, <2>2
<1> QED  BY <1>3

-----------------------------------------------------------------------------
(* split_stream                                                            *)

Blank == [lines |-> <<>>, rest |-> <<>>]

Fed(f, n, bytes) == IF n = 0 THEN Blank ELSE Feed(f[n - 1], bytes[n])

(* The recursion of split_stream defines a function.                       *)
LEMMA ReadExists ==
  ASSUME NEW bytes \in Seq(Int)
  PROVE  \E f : f = [n \in 0 .. Len(bytes) |-> Fed(f, n, bytes)]
<1> DEFINE N == Len(bytes)
           Upto(f, n) == \A j \in 0 .. n : f[j] = Fed(f, j, bytes)
           Bad == {n \in 0 .. N : ~ \E f : Upto(f, n)}
<1>0. N \in Nat
  OBVIOUS
<1> HIDE DEF N
<1>1. Bad = {}
  <2> SUFFICES ASSUME Bad # {} PROVE FALSE
    OBVIOUS
  <2>1. PICK n \in Bad : \A k \in Bad : n <= k
    <3>1. Bad \in SUBSET Nat
      BY <1>0
    <3> HIDE DEF Bad
    <3> QED  BY <3>1, LeastElement
  <2>2. n \in Nat /\ n <= N
    BY <1>0
  <2>3. CASE n = 0
    <3> DEFINE f == [j \in 0 .. 0 |-> Blank]
    <3>1. \A j \in 0 .. 0 : f[j] = Fed(f, j, bytes)
      BY DEF Fed
    <3> QED  BY <2>3, <3>1
  <2>4. CASE n # 0
    <3>1. n - 1 \in 0 .. N /\ n - 1 \notin Bad
      <4> HIDE DEF Bad
      <4> QED  BY <1>0, <2>1, <2>2, <2>4
    <3>2. PICK g : Upto(g, n - 1)
      <4> HIDE DEF Upto
      <4> QED  BY <3>1
    <3> DEFINE f == [j \in 0 .. n |-> IF j = n THEN Fed(g, n, bytes) ELSE g[j]]
    <3>3. ASSUME NEW j \in 0 .. n PROVE f[j] = Fed(f, j, bytes)
      <4>1. j = 0 \/ f[j - 1] = g[j - 1]
        BY <2>2
      <4>2. Fed(f, j, bytes) = Fed(g, j, bytes)
        <5> HIDE DEF f
        <5> QED  BY <4>1, <2>2 DEF Fed
      <4>3. j = n \/ j \in 0 .. n - 1
        BY <2>2
      <4>4. CASE j = n
        BY <4>2, <4>4
      <4>5. CASE j \in 0 .. n - 1
        <5>1. f[j] = g[j]
          BY <4>5, <2>2
        <5>2. g[j] = Fed(g, j, bytes)
          BY <4>5, <3>2
        <5> QED  BY <5>1, <5>2, <4>2
      <4> QED  BY <4>3, <4>4, <4>5
    <3>4. Upto(f, n)
      <4> HIDE DEF f
      <4> QED  BY <3>3
    <3>5. n \notin Bad
      <4> HIDE DEF f
      <4> QED  BY <3>4
    <3> QED  BY <3>5
  <2> QED  BY <2>3, <2>4
<1>2. PICK g : Upto(g, N)
  <2>1. N \in 0 .. N
    BY <1>0
  <2>2. N \notin Bad
    <3> HIDE DEF Bad
    <3> QED  BY <1>1
  <2> HIDE DEF Upto
  <2> QED  BY <2>1, <2>2
<1> DEFINE f == [j \in 0 .. N |-> g[j]]
<1>3. ASSUME NEW j \in 0 .. N PROVE f[j] = Fed(f, j, bytes)
  <2>1. j = 0 \/ f[j - 1] = g[j - 1]
    BY <1>0
  <2>2. Fed(f, j, bytes) = Fed(g, j, bytes)
    <3> HIDE DEF f
    <3> QED  BY <2>1, <1>0 DEF Fed
  <2> QED  BY <1>2, <2>2
<1>4. f = [j \in 0 .. N |-> f[j]]
  OBVIOUS
<1>5. f = [j \in 0 .. N |-> Fed(f, j, bytes)]
  <2> HIDE DEF f
  <2> QED  BY <1>3, <1>4
<1> QED  BY <1>5 DEF N

LEMMA SplitReads ==
  ASSUME NEW bytes \in Seq(Int)
  PROVE  \E f : /\ SplitStream(bytes) = f[Len(bytes)]
                /\ f[0] = Blank
                /\ \A n \in 1 .. Len(bytes) : f[n] = Feed(f[n - 1], bytes[n])
<1> DEFINE N == Len(bytes)
           f == CHOOSE g : g = [n \in 0 .. N |-> Fed(g, n, bytes)]
<1>0. N \in Nat
  OBVIOUS
<1>1. SplitStream(bytes) = f[N]
  BY DEF SplitStream, Fed, Blank
<1>2. f = [n \in 0 .. N |-> Fed(f, n, bytes)]
  BY ReadExists
<1> HIDE DEF f, N
<1>3. \A n \in 0 .. N : f[n] = Fed(f, n, bytes)
  <2> DEFINE F == [n \in 0 .. N |-> Fed(f, n, bytes)]
  <2>1. \A n \in 0 .. N : F[n] = Fed(f, n, bytes)
    OBVIOUS
  <2>2. f = F
    BY <1>2
  <2> HIDE DEF F
  <2> QED  BY <2>1, <2>2
<1>4. f[0] = Blank
  BY <1>0, <1>3 DEF Fed
<1>5. \A n \in 1 .. N : f[n] = Feed(f[n - 1], bytes[n])
  <2> TAKE n \in 1 .. N
  <2>1. n \in 0 .. N /\ n # 0
    BY <1>0
  <2> QED  BY <1>3, <2>1 DEF Fed
<1> QED  BY <1>1, <1>4, <1>5 DEF N
-----------------------------------------------------------------------------
(* Lines, byte by byte                                                     *)

LEMMA AppendIs ==
  ASSUME NEW s \in Seq(Int), NEW b \in Int
  PROVE  /\ Append(s, b) \in Seq(Int) /\ Len(Append(s, b)) = Len(s) + 1
         /\ DOMAIN s = 1 .. Len(s) /\ DOMAIN Append(s, b) = 1 .. Len(s) + 1
         /\ \A i \in 1 .. Len(s) : Append(s, b)[i] = s[i]
         /\ Append(s, b)[Len(s) + 1] = b
  OBVIOUS

LEMMA SubSeqIs ==
  ASSUME NEW s \in Seq(Int), NEW h \in 1 .. Len(s), NEW t \in h .. Len(s)
  PROVE  /\ SubSeq(s, h, t) \in Seq(Int) /\ Len(SubSeq(s, h, t)) = t - h + 1
         /\ \A k \in 1 .. t - h + 1 : SubSeq(s, h, t)[k] = s[h + k - 1]
  OBVIOUS

(* What a line of the output is, without SubSeq.                           *)
LineAt(l, s, h, t) ==
  /\ h \in 1 .. Len(s) /\ t \in h .. Len(s)
  /\ Len(l) = t - h + 1
  /\ \A k \in 1 .. t - h + 1 : l[k] = h + k - 1
  /\ \A i \in h .. t : s[i] = i
  /\ h = 1 \/ s[h - 1] <= 0
  /\ t = Len(s) \/ s[t + 1] <= 0

Positions(s) == \A i \in 1 .. Len(s) : s[i] > 0 => s[i] = i

LEMMA LineMeans ==
  ASSUME NEW s \in Seq(Int), Positions(s), NEW l \in Seq(Int)
  PROVE  LineIn(l, s) <=> LineAt(l, s, Head(l), Last(l)) /\ l # <<>>
<1>1. ASSUME LineIn(l, s) PROVE LineAt(l, s, Head(l), Last(l)) /\ l # <<>>
  <2> DEFINE h == Head(l)
             t == Last(l)
  <2>1. /\ l # <<>> /\ h \in 1 .. Len(s) /\ t \in 1 .. Len(s)
        /\ l = SubSeq(s, h, t)
        /\ \A i \in h .. t : s[i] > 0
        /\ h = 1 \/ s[h - 1] <= 0
        /\ t = Len(s) \/ s[t + 1] <= 0
    BY <1>1 DEF LineIn
  <2> HIDE DEF h, t
  <2>2. h <= t
    <3> SUFFICES ASSUME t < h PROVE FALSE
      BY <2>1
    <3> QED  BY <2>1
  <2>3. t \in h .. Len(s)
    BY <2>1, <2>2
  <2>4. /\ Len(l) = t - h + 1
        /\ \A k \in 1 .. t - h + 1 : l[k] = s[h + k - 1]
    BY <2>1, <2>3, SubSeqIs
  <2>5. \A i \in h .. t : s[i] = i
    BY <2>1, <2>3 DEF Positions
  <2>6. ASSUME NEW k \in 1 .. t - h + 1 PROVE l[k] = h + k - 1
    <3>1. h + k - 1 \in h .. t
      BY <2>1, <2>3
    <3> QED  BY <3>1, <2>4, <2>5
  <2>7. LineAt(l, s, h, t) /\ l # <<>>
    BY <2>1, <2>3, <2>4, <2>5, <2>6 DEF LineAt
  <2> QED  BY <2>7 DEF h, t
<1>2. ASSUME LineAt(l, s, Head(l), Last(l)), l # <<>> PROVE LineIn(l, s)
  <2> DEFINE h == Head(l)
             t == Last(l)
  <2>1. LineAt(l, s, h, t)
    BY <1>2
  <2> HIDE DEF h, t
  <2>2. h \in 1 .. Len(s) /\ t \in h .. Len(s) /\ t \in 1 .. Len(s) /\ h \in Int
    BY <2>1 DEF LineAt
  <2>3. /\ SubSeq(s, h, t) \in Seq(Int) /\ Len(SubSeq(s, h, t)) = t - h + 1
        /\ \A k \in 1 .. t - h + 1 : SubSeq(s, h, t)[k] = s[h + k - 1]
    BY <2>2, SubSeqIs
  <2>4. ASSUME NEW k \in 1 .. t - h + 1 PROVE SubSeq(s, h, t)[k] = l[k]
    <3>1. h + k - 1 \in h .. t
      BY <2>2
    <3> QED  BY <3>1, <2>1, <2>3 DEF LineAt
  <2>5. l = SubSeq(s, h, t)
    <3> DEFINE x == SubSeq(s, h, t)
    <3>1. Len(l) = Len(x) /\ Len(x) = t - h + 1 /\ x \in Seq(Int)
      BY <2>1, <2>3 DEF LineAt
    <3>2. \A k \in 1 .. t - h + 1 : x[k] = l[k]
      BY <2>4
    <3> HIDE DEF x
    <3>3. l = x
      BY <3>1, <3>2
    <3> QED  BY <3>3 DEF x
  <2>6. \A i \in h .. t : s[i] > 0
    <3> TAKE i \in h .. t
    <3>1. s[i] = i /\ i > 0
      BY <2>1, <2>2 DEF LineAt
    <3> QED  BY <3>1
  <2>7. (h = 1 \/ s[h - 1] <= 0) /\ (t = Len(s) \/ s[t + 1] <= 0)
    BY <2>1 DEF LineAt
  <2>8. {h, t} \subseteq DOMAIN s
    BY <2>2
  <2>9. /\ l # <<>> /\ {h, t} \subseteq DOMAIN s
        /\ l = SubSeq(s, h, t)
        /\ \A i \in h .. t : s[i] > 0
        /\ h = 1 \/ s[h - 1] <= 0
        /\ t = Len(s) \/ s[t + 1] <= 0
    BY <1>2, <2>5, <2>6, <2>7, <2>8
  <2> QED  BY <2>9 DEF LineIn, h, t
<1> QED  BY <1>1, <1>2

(* Another byte leaves a line what it is, unless it joins it.              *)
LEMMA LineStays ==
  ASSUME NEW s \in Seq(Int), NEW b \in Int, NEW l, NEW h, NEW t,
         LineAt(l, s, h, t), t < Len(s) \/ b <= 0
  PROVE  LineAt(l, Append(s, b), h, t)
<1> DEFINE u == Append(s, b)
<1>1. Len(u) = Len(s) + 1 /\ (\A i \in 1 .. Len(s) : u[i] = s[i]) /\ u[Len(s) + 1] = b
  BY AppendIs
<1>2. Len(s) \in Nat
  OBVIOUS
<1> HIDE DEF u
<1>0. /\ h \in 1 .. Len(s) /\ t \in h .. Len(s)
      /\ \A i \in h .. t : s[i] = i
      /\ h = 1 \/ s[h - 1] <= 0
      /\ t = Len(s) \/ s[t + 1] <= 0
  BY DEF LineAt
<1>3. h \in 1 .. Len(u) /\ t \in h .. Len(u)
  BY <1>0, <1>1, <1>2
<1>4. h = 1 \/ u[h - 1] <= 0
  <2> SUFFICES ASSUME h # 1 PROVE u[h - 1] <= 0
    OBVIOUS
  <2>1. h - 1 \in 1 .. Len(s)
    BY <1>0, <1>2
  <2> QED  BY <1>0, <1>1, <2>1
<1>5. u[t + 1] <= 0
  <2>1. t = Len(s) \/ t + 1 \in 1 .. Len(s)
    BY <1>0, <1>2
  <2> QED  BY <1>0, <1>1, <2>1
<1>6. \A i \in h .. t : u[i] = i
  <2> TAKE i \in h .. t
  <2>1. i \in 1 .. Len(s)
    BY <1>0, <1>2
  <2> QED  BY <1>0, <1>1, <2>1
<1>7. LineAt(l, u, h, t)
  BY <1>3, <1>4, <1>5, <1>6 DEF LineAt
<1> QED  BY <1>7 DEF u

LEMMA LineBegins ==
  ASSUME NEW s \in Seq(Int), s = <<>> \/ s[Len(s)] <= 0
  PROVE  LineAt(<<Len(s) + 1>>, Append(s, Len(s) + 1), Len(s) + 1, Len(s) + 1)
  BY AppendIs DEF LineAt

LEMMA LineGrows ==
  ASSUME NEW s \in Seq(Int), NEW l \in Seq(Int), NEW h, LineAt(l, s, h, Len(s))
  PROVE  LineAt(Append(l, Len(s) + 1), Append(s, Len(s) + 1), h, Len(s) + 1)
<1> DEFINE n == Len(s)
           u == Append(s, n + 1)
           m == Append(l, n + 1)
<1>1. n \in Nat /\ Len(u) = n + 1 /\ (\A i \in 1 .. n : u[i] = s[i]) /\ u[n + 1] = n + 1
  BY AppendIs
<1>2. /\ Len(m) = Len(l) + 1
      /\ (\A i \in 1 .. Len(l) : m[i] = l[i]) /\ m[Len(l) + 1] = n + 1
  BY <1>1, AppendIs
<1>3. LineAt(l, s, h, n)
  OBVIOUS
<1> HIDE DEF n, u, m
<1>4. h \in 1 .. n /\ Len(l) = n - h + 1 /\ h \in Int
  BY <1>1, <1>3 DEF LineAt
<1>5. \A k \in 1 .. n + 1 - h + 1 : m[k] = h + k - 1
  BY <1>1, <1>2, <1>3, <1>4 DEF LineAt
<1>6. \A i \in h .. n + 1 : u[i] = i
  BY <1>1, <1>3, <1>4 DEF LineAt
<1>7. h = 1 \/ u[h - 1] <= 0
  BY <1>1, <1>3, <1>4 DEF LineAt
<1>8. Len(m) = n + 1 - h + 1 /\ h \in 1 .. Len(u) /\ n + 1 \in h .. Len(u)
  BY <1>1, <1>2, <1>4
<1>9. LineAt(m, u, h, n + 1)
  BY <1>1, <1>5, <1>6, <1>7, <1>8 DEF LineAt
<1> QED  BY <1>9 DEF n, u, m

(* All the lines of an output, without SubSeq.                             *)
Spans(ls, s) ==
  /\ \A n \in 1 .. Len(ls) : ls[n] # <<>> /\ LineAt(ls[n], s, Head(ls[n]), Last(ls[n]))
  /\ \A m, n \in 1 .. Len(ls) : m < n => Last(ls[m]) < Head(ls[n])
  /\ \A i \in 1 .. Len(s) :
       s[i] > 0 => \E n \in 1 .. Len(ls) : i \in Head(ls[n]) .. Last(ls[n])

LEMMA LinesMean ==
  ASSUME NEW s \in Seq(Int), Positions(s), NEW ls \in Seq(Seq(Int))
  PROVE  LinesAre(ls, s) <=> Spans(ls, s)
<1>1. DOMAIN ls = 1 .. Len(ls) /\ DOMAIN s = 1 .. Len(s)
  OBVIOUS
<1>2. \A n \in 1 .. Len(ls) : ls[n] \in Seq(Int)
  OBVIOUS
<1>3. \A n \in 1 .. Len(ls) :
        LineIn(ls[n], s) <=> LineAt(ls[n], s, Head(ls[n]), Last(ls[n])) /\ ls[n] # <<>>
  BY <1>2, LineMeans
<1> QED  BY <1>1, <1>3, Zenon DEF LinesAre, Spans

LEMMA Ends ==
  ASSUME NEW l \in Seq(Int), NEW b \in Int
  PROVE  /\ Append(l, b) # <<>> /\ Last(Append(l, b)) = b
         /\ l # <<>> => Head(Append(l, b)) = Head(l)
         /\ <<b>> # <<>> /\ Head(<<b>>) = b /\ Last(<<b>>) = b
  BY DEF Last

LEMMA AppendLine ==
  ASSUME NEW ls \in Seq(Seq(Int)), NEW l \in Seq(Int)
  PROVE  /\ Append(ls, l) \in Seq(Seq(Int)) /\ Len(Append(ls, l)) = Len(ls) + 1
         /\ \A n \in 1 .. Len(ls) : Append(ls, l)[n] = ls[n]
         /\ Append(ls, l)[Len(ls) + 1] = l
         /\ Len(ls) \in Nat /\ ls \o <<l>> = Append(ls, l)
         /\ Append(ls, l) \o <<>> = Append(ls, l) /\ ls \o <<>> = ls
  OBVIOUS

(* A line break.                                                           *)
LEMMA SpansBreak ==
  ASSUME NEW s \in Seq(Int), NEW b \in Int, b <= 0,
         NEW ls \in Seq(Seq(Int)), Spans(ls, s)
  PROVE  Spans(ls, Append(s, b))
<1> DEFINE u == Append(s, b)
<1>1. Len(u) = Len(s) + 1 /\ (\A i \in 1 .. Len(s) : u[i] = s[i]) /\ u[Len(s) + 1] = b
  BY AppendIs
<1>2. \A n \in 1 .. Len(ls) : ls[n] # <<>> /\ LineAt(ls[n], u, Head(ls[n]), Last(ls[n]))
  BY LineStays DEF Spans
<1>3. ASSUME NEW i \in 1 .. Len(u), u[i] > 0
      PROVE  \E n \in 1 .. Len(ls) : i \in Head(ls[n]) .. Last(ls[n])
  <2> HIDE DEF u
  <2>1. i \in 1 .. Len(s)
    BY <1>1, <1>3
  <2>2. s[i] > 0
    BY <1>1, <1>3, <2>1
  <2> QED  BY <2>1, <2>2 DEF Spans
<1> HIDE DEF u
<1>4. Spans(ls, u)
  BY <1>2, <1>3 DEF Spans
<1> QED  BY <1>4 DEF u

(* The first byte of a line.                                               *)
LEMMA SpansBegin ==
  ASSUME NEW s \in Seq(Int), s = <<>> \/ s[Len(s)] <= 0,
         NEW ls \in Seq(Seq(Int)), Spans(ls, s)
  PROVE  Spans(Append(ls, <<Len(s) + 1>>), Append(s, Len(s) + 1))
<1> DEFINE N == Len(s)
           M == Len(ls)
           u == Append(s, N + 1)
           l == <<N + 1>>
           ks == Append(ls, l)
<1>0. N \in Nat /\ M \in Nat /\ l \in Seq(Int) /\ N + 1 \in Int
  OBVIOUS
<1>1. Len(u) = N + 1 /\ (\A i \in 1 .. N : u[i] = s[i]) /\ u[N + 1] = N + 1
  BY AppendIs
<1>2. /\ Len(ks) = M + 1 /\ (\A n \in 1 .. M : ks[n] = ls[n])
      /\ ks[M + 1] = l
  BY <1>0, AppendLine
<1>3. LineAt(l, u, N + 1, N + 1) /\ l # <<>> /\ Head(l) = N + 1 /\ Last(l) = N + 1
  BY LineBegins, Ends, <1>0
<1>4. ASSUME NEW n \in 1 .. M
      PROVE  /\ ls[n] # <<>> /\ LineAt(ls[n], u, Head(ls[n]), Last(ls[n]))
             /\ Last(ls[n]) < N + 1
  <2>1. LineAt(ls[n], s, Head(ls[n]), Last(ls[n])) /\ ls[n] # <<>>
    BY DEF Spans
  <2>2. Last(ls[n]) \in Head(ls[n]) .. N /\ Head(ls[n]) \in 1 .. N /\ N \in Nat
    BY <2>1, <1>0 DEF LineAt
  <2>3. s # <<>>
    BY <2>2
  <2>4. s[Last(ls[n])] = Last(ls[n]) /\ Last(ls[n]) > 0
    <3> DEFINE h == Head(ls[n])
               t == Last(ls[n])
    <3>1. LineAt(ls[n], s, h, t) /\ h \in 1 .. N /\ t \in h .. N
      BY <2>1, <2>2
    <3> HIDE DEF h, t
    <3>2. (\A i \in h .. t : s[i] = i) /\ t \in h .. t /\ t > 0
      BY <1>0, <3>1 DEF LineAt
    <3>3. s[t] = t /\ t > 0
      BY <3>2
    <3> QED  BY <3>3 DEF t
  <2>5. Last(ls[n]) < N
    BY <2>2, <2>3, <2>4
  <2>6. LineAt(ls[n], u, Head(ls[n]), Last(ls[n]))
    BY <2>1, <2>5, LineStays, <1>0
  <2> QED  BY <2>1, <2>2, <2>5, <2>6
<1>5. \A i, j \in 1 .. M : i < j => Last(ls[i]) < Head(ls[j])
  BY DEF Spans
<1>6. \A i \in 1 .. N : s[i] > 0 => \E n \in 1 .. M : i \in Head(ls[n]) .. Last(ls[n])
  BY DEF Spans
<1> HIDE DEF N, M, u, l, ks
<1>7. \A n \in 1 .. M + 1 : ks[n] # <<>> /\ LineAt(ks[n], u, Head(ks[n]), Last(ks[n]))
  <2> TAKE n \in 1 .. M + 1
  <2>1. n \in 1 .. M \/ n = M + 1
    BY <1>0
  <2> QED  BY <1>2, <1>3, <1>4, <2>1
<1>8. \A i, j \in 1 .. M + 1 : i < j => Last(ks[i]) < Head(ks[j])
  <2> SUFFICES ASSUME NEW i \in 1 .. M + 1, NEW j \in 1 .. M + 1, i < j
               PROVE  Last(ks[i]) < Head(ks[j])
    OBVIOUS
  <2>1. i \in 1 .. M /\ (j \in 1 .. M \/ j = M + 1)
    BY <1>0
  <2> QED  BY <1>2, <1>3, <1>4, <1>5, <2>1
<1>9. ASSUME NEW i \in 1 .. N + 1, u[i] > 0
      PROVE  \E n \in 1 .. M + 1 : i \in Head(ks[n]) .. Last(ks[n])
  <2>1. CASE i = N + 1
    BY <2>1, <1>0, <1>2, <1>3
  <2>2. CASE i # N + 1
    <3>1. i \in 1 .. N /\ s[i] > 0
      BY <2>2, <1>0, <1>1, <1>9
    <3>2. PICK n \in 1 .. M : i \in Head(ls[n]) .. Last(ls[n])
      BY <3>1, <1>6
    <3>3. n \in 1 .. M + 1 /\ ks[n] = ls[n]
      BY <1>0, <1>2
    <3> QED  BY <3>2, <3>3
  <2> QED  BY <2>1, <2>2
<1>10. Spans(ks, u)
  BY <1>1, <1>2, <1>7, <1>8, <1>9 DEF Spans
<1> QED  BY <1>10 DEF ks, u, l, N

(* Another byte of the last line.                                          *)
LEMMA SpansGrow ==
  ASSUME NEW s \in Seq(Int), NEW r \in Seq(Int), r # <<>>, Last(r) = Len(s),
         NEW ls \in Seq(Seq(Int)), Spans(Append(ls, r), s)
  PROVE  Spans(Append(ls, Append(r, Len(s) + 1)), Append(s, Len(s) + 1))
<1> DEFINE N == Len(s)
           M == Len(ls)
           u == Append(s, N + 1)
           l == Append(r, N + 1)
           ks == Append(ls, l)
           js == Append(ls, r)
<1>0. N \in Nat /\ M \in Nat /\ l \in Seq(Int) /\ N + 1 \in Int
  OBVIOUS
<1>1. Len(u) = N + 1 /\ (\A i \in 1 .. N : u[i] = s[i]) /\ u[N + 1] = N + 1
  BY AppendIs
<1>2. /\ Len(ks) = M + 1 /\ (\A n \in 1 .. M : ks[n] = ls[n]) /\ ks[M + 1] = l
      /\ Len(js) = M + 1 /\ (\A n \in 1 .. M : js[n] = ls[n]) /\ js[M + 1] = r
  BY <1>0, AppendLine
<1>3. /\ \A n \in 1 .. M + 1 : LineAt(js[n], s, Head(js[n]), Last(js[n])) /\ js[n] # <<>>
      /\ \A i, j \in 1 .. M + 1 : i < j => Last(js[i]) < Head(js[j])
      /\ \A i \in 1 .. N : s[i] > 0 => \E n \in 1 .. M + 1 : i \in Head(js[n]) .. Last(js[n])
  <2>1. Spans(js, s)
    OBVIOUS
  <2> QED  BY <2>1, <1>2 DEF Spans
<1>a. M + 1 \in 1 .. M + 1 /\ \A n \in 1 .. M : n \in 1 .. M + 1 /\ n < M + 1
  BY <1>0
<1>4. LineAt(r, s, Head(r), N)
  BY <1>2, <1>3, <1>a
<1>5. LineAt(l, u, Head(r), N + 1) /\ l # <<>> /\ Head(l) = Head(r) /\ Last(l) = N + 1
  BY <1>0, <1>4, LineGrows, Ends
<1>6. Head(r) \in 1 .. N /\ Last(r) = N
  BY <1>4 DEF LineAt
<1>7. ASSUME NEW n \in 1 .. M
      PROVE  /\ ls[n] # <<>> /\ LineAt(ls[n], u, Head(ls[n]), Last(ls[n]))
             /\ Last(ls[n]) < Head(r)
  <2>1. LineAt(ls[n], s, Head(ls[n]), Last(ls[n])) /\ ls[n] # <<>>
    BY <1>2, <1>3, <1>a
  <2>2. Last(ls[n]) < Head(r)
    BY <1>2, <1>3, <1>a
  <2>3. Last(ls[n]) \in Int
    BY <2>1, <1>0 DEF LineAt
  <2>4. Last(ls[n]) < N
    BY <2>2, <2>3, <1>0, <1>6
  <2>5. LineAt(ls[n], u, Head(ls[n]), Last(ls[n]))
    BY <2>1, <2>4, LineStays, <1>0
  <2> QED  BY <2>1, <2>2, <2>5
<1> HIDE DEF N, M, u, l, ks, js
<1>8. \A n \in 1 .. M + 1 : ks[n] # <<>> /\ LineAt(ks[n], u, Head(ks[n]), Last(ks[n]))
  <2> TAKE n \in 1 .. M + 1
  <2>1. n \in 1 .. M \/ n = M + 1
    BY <1>0
  <2> QED  BY <1>2, <1>5, <1>7, <2>1
<1>9. \A i, j \in 1 .. M + 1 : i < j => Last(ks[i]) < Head(ks[j])
  <2> SUFFICES ASSUME NEW i \in 1 .. M + 1, NEW j \in 1 .. M + 1, i < j
               PROVE  Last(ks[i]) < Head(ks[j])
    OBVIOUS
  <2>1. i \in 1 .. M /\ (j \in 1 .. M \/ j = M + 1)
    BY <1>0
  <2>2. CASE j = M + 1
    BY <1>2, <1>5, <1>7, <2>1, <2>2
  <2>3. CASE j \in 1 .. M
    BY <1>2, <1>3, <1>a, <2>1, <2>3
  <2> QED  BY <2>1, <2>2, <2>3
<1>10. ASSUME NEW i \in 1 .. N + 1, u[i] > 0
       PROVE  \E n \in 1 .. M + 1 : i \in Head(ks[n]) .. Last(ks[n])
  <2>1. CASE i \in Head(r) .. N + 1
    BY <2>1, <1>2, <1>5, <1>a
  <2>2. CASE i \notin Head(r) .. N + 1
    <3>1. i \in 1 .. N /\ s[i] > 0
      BY <2>2, <1>0, <1>1, <1>6, <1>10
    <3>2. PICK n \in 1 .. M + 1 : i \in Head(js[n]) .. Last(js[n])
      BY <3>1, <1>3
    <3>3. n # M + 1
      <4> SUFFICES ASSUME n = M + 1 PROVE FALSE
        OBVIOUS
      <4>1. i \in Head(r) .. N
        BY <3>2, <1>2, <1>6
      <4> QED  BY <4>1, <2>2, <1>0, <1>6
    <3>4. n \in 1 .. M /\ ks[n] = js[n]
      BY <3>3, <1>0, <1>2
    <3> QED  BY <3>2, <3>4
  <2> QED  BY <2>1, <2>2
<1>11. Spans(ks, u)
  BY <1>1, <1>2, <1>8, <1>9, <1>10 DEF Spans
<1> QED  BY <1>11 DEF ks, u, l, N

-----------------------------------------------------------------------------
(* A chunk                                                                 *)

(* What the log and the unfinished line hold of an output.                 *)
Lined(L, r, s) ==
  /\ Spans(IF r = <<>> THEN L ELSE Append(L, r), s)
  /\ r = <<>> => s = <<>> \/ s[Len(s)] <= 0
  /\ r # <<>> => Last(r) = Len(s)

Splits(a) ==
  /\ a = [lines |-> a.lines, rest |-> a.rest]
  /\ a.lines \in Seq(Seq(Int)) /\ a.rest \in Seq(Int)

LEMMA SplitsIs ==
  ASSUME NEW M \in Seq(Seq(Int)), NEW r \in Seq(Int)
  PROVE  Splits([lines |-> M, rest |-> r])
  BY DEF Splits

LEMMA FeedByte ==
  ASSUME NEW M, NEW r, NEW b \in Int, b > 0
  PROVE  Feed([lines |-> M, rest |-> r], b) = [lines |-> M, rest |-> Append(r, b)]
  BY DEF Feed

LEMMA Grow ==
  ASSUME NEW t \in Seq(Int), NEW n \in 1 .. Len(t)
  PROVE  /\ Append(SubSeq(t, 1, n - 1), t[n]) = SubSeq(t, 1, n)
         /\ SubSeq(t, 1, n - 1) \in Seq(Int) /\ Len(SubSeq(t, 1, n - 1)) = n - 1
         /\ t[n] \in Int
  OBVIOUS

LEMMA AppendAfter ==
  ASSUME NEW s \in Seq(Int), NEW y \in Seq(Int), NEW b \in Int
  PROVE  /\ Append(s \o y, b) = s \o Append(y, b)
         /\ s \o y \in Seq(Int) /\ Len(s \o y) = Len(s) + Len(y)
<1>1. s \o y \in Seq(Int) /\ Len(s \o y) = Len(s) + Len(y)
  OBVIOUS
<1> DEFINE z == <<b>>
<1>2. z \in Seq(Int) /\ Append(s \o y, b) = (s \o y) \o z /\ Append(y, b) = y \o z
  OBVIOUS
<1> HIDE DEF z
<1>3. (s \o y) \o z = s \o (y \o z)
  <2>1. z \in Seq(Int)
    BY <1>2
  <2> QED  BY <2>1
<1> QED  BY <1>1, <1>2, <1>3

LEMMA FeedLined ==
  ASSUME NEW s \in Seq(Int), NEW b \in Int, b > 0 => b = Len(s) + 1,
         NEW L \in Seq(Seq(Int)), NEW a, Splits(a), Lined(L \o a.lines, a.rest, s)
  PROVE  /\ Splits(Feed(a, b))
         /\ Lined(L \o Feed(a, b).lines, Feed(a, b).rest, Append(s, b))
<1> DEFINE M == a.lines
           r == a.rest
           K == L \o M
           u == Append(s, b)
<1>1. a = [lines |-> M, rest |-> r] /\ M \in Seq(Seq(Int)) /\ r \in Seq(Int)
  BY DEF Splits
<1>2. Lined(K, r, s)
  OBVIOUS
<1> HIDE DEF M, r
<1>3. K \in Seq(Seq(Int)) /\ L \o Append(M, r) = Append(K, r)
  BY <1>1
<1>4. Len(u) = Len(s) + 1 /\ u[Len(s) + 1] = b /\ Len(s) \in Nat
  BY AppendIs
<1> HIDE DEF K, u
<1>5. CASE b > 0
  <2>1. Feed(a, b) = [lines |-> M, rest |-> Append(r, b)]
    BY <1>1, <1>5, FeedByte
  <2>2. Splits(Feed(a, b))
    <3>1. Append(r, b) \in Seq(Int)
      BY <1>1
    <3> QED  BY <1>1, <2>1, <3>1, SplitsIs
  <2>3. b = Len(s) + 1
    BY <1>5
  <2>4. Append(r, b) # <<>> /\ Last(Append(r, b)) = Len(u)
    <3>1. Append(r, b) # <<>> /\ Last(Append(r, b)) = b
      BY <1>1, Ends
    <3> QED  BY <3>1, <1>4, <2>3
  <2>5. Spans(Append(K, Append(r, b)), u)
    <3>1. CASE r = <<>>
      <4>1. Append(r, b) = <<Len(s) + 1>>
        BY <3>1, <2>3
      <4>2. Spans(K, s) /\ (s = <<>> \/ s[Len(s)] <= 0)
        BY <1>2, <3>1 DEF Lined
      <4>3. Spans(Append(K, <<Len(s) + 1>>), Append(s, Len(s) + 1))
        BY <1>3, <4>2, SpansBegin
      <4> QED  BY <4>1, <4>3, <2>3 DEF u
    <3>2. CASE r # <<>>
      <4>1. Spans(Append(K, r), s) /\ Last(r) = Len(s)
        BY <1>2, <3>2 DEF Lined
      <4>2. Spans(Append(K, Append(r, Len(s) + 1)), Append(s, Len(s) + 1))
        BY <1>1, <1>3, <3>2, <4>1, SpansGrow
      <4> QED  BY <4>2, <2>3 DEF u
    <3> QED  BY <3>1, <3>2
  <2>6. Lined(K, Append(r, b), u)
    BY <2>4, <2>5 DEF Lined
  <2> QED  BY <2>1, <2>2, <2>6 DEF K, u
<1>6. CASE ~ (b > 0)
  <2>0. b <= 0
    BY <1>6
  <2> DEFINE M2 == IF r = <<>> THEN M ELSE Append(M, r)
             K2 == IF r = <<>> THEN K ELSE Append(K, r)
  <2>1. Feed(a, b) = [lines |-> M2, rest |-> <<>>]
    BY <1>1, <1>6 DEF Feed
  <2>2. M2 \in Seq(Seq(Int)) /\ K2 \in Seq(Seq(Int))
    BY <1>1, <1>3
  <2>3. L \o M2 = K2
    BY <1>3 DEF K
  <2>4. Spans(K2, s)
    BY <1>2 DEF Lined
  <2> HIDE DEF K2, M2
  <2>5. Spans(K2, u)
    BY <2>0, <2>2, <2>4, SpansBreak DEF u
  <2>6. u[Len(u)] <= 0
    BY <2>0, <1>4
  <2>7. Lined(K2, <<>>, u)
    BY <2>5, <2>6 DEF Lined
  <2>8. Splits(Feed(a, b))
    <3>1. <<>> \in Seq(Int)
      OBVIOUS
    <3> QED  BY <2>1, <2>2, <3>1, SplitsIs
  <2>9. Feed(a, b).lines = M2 /\ Feed(a, b).rest = <<>>
    BY <2>1
  <2>10. Lined(L \o Feed(a, b).lines, Feed(a, b).rest, u)
    BY <2>3, <2>7, <2>9
  <2> QED  BY <2>8, <2>10 DEF u
<1> QED  BY <1>5, <1>6

LEMMA RestPositive ==
  ASSUME NEW s \in Seq(Int), NEW L \in Seq(Seq(Int)), NEW r \in Seq(Int), Lined(L, r, s),
         NEW k \in 1 .. Len(r)
  PROVE  r[k] > 0
<1> DEFINE ks == Append(L, r)
<1>1. r # <<>>
  OBVIOUS
<1>2. Spans(ks, s)
  BY <1>1 DEF Lined
<1>3. Len(ks) = Len(L) + 1 /\ ks[Len(L) + 1] = r /\ Len(L) \in Nat
  BY AppendLine
<1> HIDE DEF ks
<1>4. LineAt(r, s, Head(r), Last(r))
  BY <1>2, <1>3 DEF Spans
<1> DEFINE h == Head(r)
           t == Last(r)
<1>5. h \in 1 .. Len(s) /\ t \in h .. Len(s) /\ Len(r) = t - h + 1
      /\ \A i \in 1 .. t - h + 1 : r[i] = h + i - 1
  BY <1>4 DEF LineAt
<1>6. Len(s) \in Nat
  OBVIOUS
<1> HIDE DEF h, t
<1>7. r[k] = h + k - 1 /\ h >= 1
  BY <1>5, <1>6
<1> QED  BY <1>5, <1>6, <1>7

(* Read from where the last one ended, a chunk is what it would be in the  *)
(* whole output.                                                           *)
LEMMA ChunkLined ==
  ASSUME NEW s \in Seq(Int), NEW t \in Seq(Int), Positions(s \o t),
         NEW L \in Seq(Seq(Int)), NEW r \in Seq(Int), Lined(L, r, s)
  PROVE  /\ Splits(SplitStream(r \o t))
         /\ Lined(L \o SplitStream(r \o t).lines, SplitStream(r \o t).rest, s \o t)
<1> DEFINE R == Len(r)
           T == Len(t)
           bytes == r \o t
<1>0. R \in Nat /\ T \in Nat /\ bytes \in Seq(Int) /\ Len(bytes) = R + T /\ Len(s) \in Nat
  OBVIOUS
<1>a. SubSeq(r, 1, R) = r /\ SubSeq(r, 1, 0) = <<>> /\ SubSeq(t, 1, T) = t
      /\ L \o <<>> = L /\ s \o SubSeq(t, 1, 0) = s
  OBVIOUS
<1>1. /\ \A k \in 1 .. R : bytes[k] = r[k] /\ r[k] > 0
      /\ \A k \in 1 .. T : bytes[R + k] = t[k] /\ t[k] \in Int
                           /\ (t[k] > 0 => t[k] = Len(s) + k)
  <2>1. \A k \in 1 .. R : r[k] > 0
    BY RestPositive
  <2>2. \A k \in 1 .. T : t[k] > 0 => t[k] = Len(s) + k
    <3> TAKE k \in 1 .. T
    <3>1. Len(s) + k \in 1 .. Len(s \o t) /\ (s \o t)[Len(s) + k] = t[k]
      OBVIOUS
    <3> QED  BY <3>1 DEF Positions
  <2> QED  BY <2>1, <2>2
<1>2. PICK f : /\ SplitStream(bytes) = f[R + T]
               /\ f[0] = Blank
               /\ \A n \in 1 .. R + T : f[n] = Feed(f[n - 1], bytes[n])
  BY <1>0, SplitReads
<1> HIDE DEF bytes, R, T
<1>3. \A n \in 0 .. R : f[n] = [lines |-> <<>>, rest |-> SubSeq(r, 1, n)]
  <2> DEFINE Good(n) == f[n] = [lines |-> <<>>, rest |-> SubSeq(r, 1, n)]
             Bad == {n \in 0 .. R : ~ Good(n)}
  <2> SUFFICES ASSUME Bad # {} PROVE FALSE
    OBVIOUS
  <2>1. PICK n \in Bad : \A k \in Bad : n <= k
    <3>1. Bad \in SUBSET Nat
      BY <1>0
    <3> HIDE DEF Bad
    <3> QED  BY <3>1, LeastElement
  <2>2. n \in 0 .. R /\ ~ Good(n)
    OBVIOUS
  <2>3. n # 0
    BY <2>2, <1>2, <1>a DEF Blank
  <2>4. n \in 1 .. R /\ n - 1 \in 0 .. R /\ n \in 1 .. R + T
    BY <2>2, <2>3, <1>0
  <2>5. n - 1 \notin Bad
    <3> HIDE DEF Bad
    <3> QED  BY <2>1, <2>4
  <2>6. Good(n - 1)
    BY <2>4, <2>5
  <2>7. f[n] = Feed(f[n - 1], r[n]) /\ r[n] > 0
    BY <1>1, <1>2, <2>4
  <2>8. Append(SubSeq(r, 1, n - 1), r[n]) = SubSeq(r, 1, n)
    BY <2>4, Grow DEF R
  <2>9. f[n] = [lines |-> <<>>, rest |-> Append(SubSeq(r, 1, n - 1), r[n])]
    <3>1. r[n] \in Int
      BY <2>4, Grow DEF R
    <3> QED  BY <2>6, <2>7, <3>1, FeedByte
  <2> QED  BY <2>2, <2>8, <2>9
<1>4. \A n \in 0 .. T :
        /\ Splits(f[R + n])
        /\ Lined(L \o f[R + n].lines, f[R + n].rest, s \o SubSeq(t, 1, n))
  <2> DEFINE Good(n) == /\ Splits(f[R + n])
                        /\ Lined(L \o f[R + n].lines, f[R + n].rest, s \o SubSeq(t, 1, n))
             Bad == {n \in 0 .. T : ~ Good(n)}
  <2> HIDE DEF Good
  <2>0. SUFFICES ASSUME Bad # {} PROVE FALSE
    BY DEF Good
  <2>1. PICK n \in Bad : \A k \in Bad : n <= k
    <3>1. Bad \in SUBSET Nat
      BY <1>0
    <3> HIDE DEF Bad
    <3> QED  BY <2>0, <3>1, LeastElement
  <2>2. n \in 0 .. T /\ ~ Good(n)
    OBVIOUS
  <2>3. n # 0
    <3> SUFFICES Good(0)
      BY <2>2
    <3>1. R \in 0 .. R /\ R + 0 = R
      BY <1>0
    <3>2. f[R + 0] = [lines |-> <<>>, rest |-> r]
      BY <1>3, <1>a, <3>1
    <3>3. f[R + 0].lines = <<>> /\ f[R + 0].rest = r
      BY <3>2
    <3>4. Splits(f[R + 0])
      <4>1. <<>> \in Seq(Seq(Int))
        OBVIOUS
      <4> QED  BY <3>2, <4>1, SplitsIs
    <3>5. Lined(L \o f[R + 0].lines, f[R + 0].rest, s \o SubSeq(t, 1, 0))
      BY <3>3, <1>a, Zenon
    <3> QED  BY <3>4, <3>5 DEF Good
  <2>4. n \in 1 .. T /\ n - 1 \in 0 .. T /\ R + n \in 1 .. R + T /\ R + n - 1 = R + (n - 1)
    BY <2>2, <2>3, <1>0
  <2>5. n - 1 \notin Bad
    <3> HIDE DEF Bad
    <3> QED  BY <2>1, <2>4
  <2>6. Good(n - 1)
    BY <2>4, <2>5
  <2> DEFINE a == f[R + (n - 1)]
             x == s \o SubSeq(t, 1, n - 1)
  <2>7. f[R + n] = Feed(a, t[n])
    <3> DEFINE k == R + n
    <3>1. k \in 1 .. R + T /\ k - 1 = R + (n - 1) /\ bytes[k] = t[n]
      BY <1>0, <1>1, <2>4
    <3> HIDE DEF k
    <3>2. f[k] = Feed(f[k - 1], bytes[k])
      BY <1>2, <3>1
    <3> QED  BY <3>1, <3>2 DEF k, a
  <2>8. /\ x \in Seq(Int) /\ Len(x) = Len(s) + n - 1 /\ t[n] \in Int
        /\ Append(x, t[n]) = s \o SubSeq(t, 1, n)
    <3>1. /\ Append(SubSeq(t, 1, n - 1), t[n]) = SubSeq(t, 1, n)
          /\ SubSeq(t, 1, n - 1) \in Seq(Int) /\ Len(SubSeq(t, 1, n - 1)) = n - 1
          /\ t[n] \in Int
      BY <2>4, Grow DEF T
    <3> DEFINE y == SubSeq(t, 1, n - 1)
    <3> HIDE DEF y
    <3>2. /\ Append(s \o y, t[n]) = s \o Append(y, t[n])
          /\ s \o y \in Seq(Int) /\ Len(s \o y) = Len(s) + Len(y)
      BY <3>1, AppendAfter DEF y
    <3>3. Len(s) + Len(y) = Len(s) + n - 1
      BY <3>1, <2>4, <1>0 DEF y
    <3> QED  BY <3>1, <3>2, <3>3 DEF y
  <2>9. t[n] > 0 => t[n] = Len(x) + 1
    BY <1>0, <1>1, <2>4, <2>8
  <2>10. Splits(a) /\ Lined(L \o a.lines, a.rest, x)
    BY <2>6 DEF Good
  <2> HIDE DEF a, x
  <2>11. /\ Splits(Feed(a, t[n]))
         /\ Lined(L \o Feed(a, t[n]).lines, Feed(a, t[n]).rest, Append(x, t[n]))
    BY <2>8, <2>9, <2>10, FeedLined
  <2>12. Good(n)
    BY <2>7, <2>8, <2>11 DEF Good
  <2> QED  BY <2>2, <2>12
<1>5. T \in 0 .. T /\ SubSeq(t, 1, T) = t
  BY <1>0, <1>a
<1>6. Splits(f[R + T]) /\ Lined(L \o f[R + T].lines, f[R + T].rest, s \o t)
  BY <1>4, <1>5
<1> QED  BY <1>2, <1>6 DEF bytes

-----------------------------------------------------------------------------
(* The invariant                                                           *)

Reading == {"top", "select", "read", "eof", "check", "leftover"}

Typing ==
  /\ pc \in Reading \union {"finally", "wait", "returned", "raised"}
  /\ buf \in Seq(Int) /\ logged \in Seq(Seq(Int))
  /\ failed \in BOOLEAN /\ cancel \in BOOLEAN
  /\ pipe \in Seq(Int) /\ written \in Seq(Int)
  /\ child \in {"running", "closed", "exited"}
  /\ told \in BOOLEAN /\ deaf \in BOOLEAN
  /\ helper \in BOOLEAN /\ endless \in BOOLEAN
  /\ quiet \in Int /\ atExit \in Nat

(* The pipe holds the end of the output.                                   *)
Piped ==
  /\ Len(pipe) <= Len(written)
  /\ \A i \in 1 .. Len(pipe) : pipe[i] = written[Len(written) - Len(pipe) + i]
  /\ Positions(written)
  /\ Exited => atExit <= Len(written)

(* What is known where the loop stands.                                    *)
Known ==
  /\ endless => helper
  /\ pc = "read" /\ pipe = <<>> => endless \/ ~Open
  /\ pc = "eof" => pipe = <<>> /\ ~Open
  /\ pc \in {"read", "eof"} => quiet = -1
  /\ pc \in {"check", "leftover"} => quiet = Len(written) - Len(pipe)
  /\ pc = "leftover" => Exited

(* The whole output has been read, and a break of those without end.       *)
Over == endless /\ pipe = <<>> /\ buf = <<>> /\ Spans(logged, Consumed)

(* The log and buf, against what has been read.                            *)
LogIsTrue == pc \in Reading => Lined(logged, buf, Consumed) \/ Over

(* A loop that nobody has cancelled has read and logged all it should.     *)
AllLogged ==
  ~cancel /\ pc \in {"finally", "wait", "returned"} =>
    /\ Exited
    /\ Spans(logged, Consumed)
    /\ Len(written) - Len(pipe) >= IF quiet = -1 THEN atExit ELSE Least(atExit, quiet + Chunk)

IInv == Typing /\ Piped /\ Known /\ LogIsTrue /\ AllLogged

-----------------------------------------------------------------------------
(* What a read does                                                        *)

LEMMA ConsumedIs ==
  ASSUME Typing, Piped
  PROVE  /\ Consumed \in Seq(Int) /\ Len(Consumed) = Len(written) - Len(pipe)
         /\ \A i \in 1 .. Len(Consumed) : Consumed[i] = written[i]
  BY DEF Typing, Piped, Consumed

LEMMA TakenIs ==
  ASSUME Typing, Piped
  PROVE  /\ Taken \in Seq(Int) /\ Len(Taken) = Least(Len(pipe), Chunk)
         /\ \A i \in 1 .. Len(Taken) : Taken[i] = pipe[i]
         /\ Left \in Seq(Int) /\ Len(Left) = Len(pipe) - Len(Taken)
         /\ \A i \in 1 .. Len(Left) : Left[i] = pipe[Len(Taken) + i]
         /\ Len(Taken) \in 0 .. Len(pipe)
         /\ pipe = <<>> => Taken = <<>>
<1> DEFINE k == Least(Len(pipe), Chunk)
<1>1. k \in 0 .. Len(pipe) /\ pipe \in Seq(Int)
  BY RunPipesAssumption DEF Least, Typing
<1> HIDE DEF k
<1>2. Taken = SubSeq(pipe, 1, k) /\ Left = SubSeq(pipe, k + 1, Len(pipe))
  BY DEF Taken, Left, k
<1>3. Len(Taken) = k /\ Taken \in Seq(Int) /\ \A i \in 1 .. k : Taken[i] = pipe[i]
  BY <1>1, <1>2
<1>4. /\ Left \in Seq(Int) /\ Len(Left) = Len(pipe) - k
      /\ \A i \in 1 .. Len(pipe) - k : Left[i] = pipe[k + i]
  BY <1>1, <1>2
<1>5. pipe = <<>> => Taken = <<>>
  BY <1>1, <1>3
<1> QED  BY <1>1, <1>3, <1>4, <1>5 DEF k

LEMMA ConcatIs ==
  ASSUME NEW s \in Seq(Int), NEW t \in Seq(Int)
  PROVE  /\ s \o t \in Seq(Int) /\ Len(s \o t) = Len(s) + Len(t)
         /\ \A i \in 1 .. Len(s) : (s \o t)[i] = s[i]
         /\ \A i \in 1 .. Len(t) : (s \o t)[Len(s) + i] = t[i]
  OBVIOUS

LEMMA ReadOn ==
  ASSUME Typing, Piped
  PROVE  /\ SubSeq(written, 1, Len(written) - Len(Left)) = Consumed \o Taken
         /\ Positions(Consumed \o Taken)
         /\ Len(Left) <= Len(written)
         /\ \A i \in 1 .. Len(Left) : Left[i] = written[Len(written) - Len(Left) + i]
<1> DEFINE W == Len(written)
           P == Len(pipe)
           k == Len(Taken)
           x == Consumed \o Taken
           y == SubSeq(written, 1, W - Len(Left))
<1>1. /\ W \in Nat /\ P \in 0 .. W /\ k \in 0 .. P /\ Len(Left) = P - k
      /\ written \in Seq(Int)
  BY TakenIs DEF Typing, Piped
<1>2. /\ x \in Seq(Int) /\ Len(x) = W - P + k
      /\ \A i \in 1 .. W - P : x[i] = written[i]
      /\ \A i \in 1 .. k : x[W - P + i] = pipe[i]
  <2>1. /\ Consumed \in Seq(Int) /\ Len(Consumed) = W - P
        /\ \A i \in 1 .. W - P : Consumed[i] = written[i]
    BY ConsumedIs
  <2>2. Taken \in Seq(Int) /\ \A i \in 1 .. k : Taken[i] = pipe[i]
    BY TakenIs
  <2>3. /\ x \in Seq(Int) /\ Len(x) = Len(Consumed) + k
        /\ \A i \in 1 .. Len(Consumed) : x[i] = Consumed[i]
        /\ \A i \in 1 .. k : x[Len(Consumed) + i] = Taken[i]
    BY <2>1, <2>2, ConcatIs
  <2> HIDE DEF x, k, W, P
  <2> QED  BY <2>1, <2>2, <2>3
<1>3. \A i \in 1 .. P : pipe[i] = written[W - P + i]
  BY DEF Piped
<1>4. y \in Seq(Int) /\ Len(y) = W - P + k /\ \A i \in 1 .. W - P + k : y[i] = written[i]
  <2>1. W - Len(Left) \in 0 .. W /\ W - Len(Left) = W - P + k
    BY <1>1
  <2> DEFINE z == W - Len(Left)
  <2> HIDE DEF z
  <2>2. y = SubSeq(written, 1, z) /\ z \in 0 .. Len(written)
    BY <2>1 DEF z
  <2> HIDE DEF y
  <2>3. y \in Seq(Int) /\ Len(y) = z /\ \A i \in 1 .. z : y[i] = written[i]
    BY <1>1, <2>2
  <2> QED  BY <2>1, <2>3 DEF z
<1> HIDE DEF x, y, k, W, P
<1>5. ASSUME NEW i \in 1 .. W - P + k PROVE x[i] = written[i]
  <2>1. CASE i \in 1 .. W - P
    BY <2>1, <1>2
  <2>2. CASE i \notin 1 .. W - P
    <3> DEFINE j == i - (W - P)
    <3>1. j \in 1 .. k /\ j \in 1 .. P /\ W - P + j = i
      BY <2>2, <1>1
    <3> HIDE DEF j
    <3>2. x[i] = pipe[j] /\ pipe[j] = written[i]
      BY <1>2, <1>3, <3>1
    <3> QED  BY <3>2
  <2> QED  BY <2>1, <2>2
<1>6. x = y
  BY <1>2, <1>4, <1>5
<1>7. Positions(x)
  <2>1. Positions(written) /\ W = Len(written)
    BY DEF Piped, W
  <2>2. ASSUME NEW i \in 1 .. Len(x), x[i] > 0 PROVE x[i] = i
    <3>1. i \in 1 .. W - P + k /\ i \in 1 .. W
      BY <1>1, <1>2
    <3> QED  BY <3>1, <1>5, <2>1, <2>2 DEF Positions
  <2> QED  BY <2>2 DEF Positions
<1>8. ASSUME NEW i \in 1 .. Len(Left) PROVE Left[i] = written[W - Len(Left) + i]
  <2>1. Left[i] = pipe[k + i]
    BY TakenIs DEF k
  <2> DEFINE j == k + i
  <2>2. j \in 1 .. P /\ W - P + j = W - Len(Left) + i
    BY <1>1
  <2> HIDE DEF j
  <2>3. pipe[j] = written[W - P + j]
    BY <1>3, <2>2
  <2> QED  BY <2>1, <2>2, <2>3 DEF j
<1>9. Len(Left) <= W
  BY <1>1
<1> QED  BY <1>6, <1>7, <1>8, <1>9 DEF x, y, W

LEMMA SpansUnbreak ==
  ASSUME NEW s \in Seq(Int), NEW b \in Int, b <= 0,
         NEW ls \in Seq(Seq(Int)), Spans(ls, Append(s, b))
  PROVE  Spans(ls, s)
<1> DEFINE u == Append(s, b)
           N == Len(s)
<1>1. Len(u) = N + 1 /\ (\A i \in 1 .. N : u[i] = s[i]) /\ u[N + 1] = b /\ N \in Nat
  BY AppendIs
<1>2. Spans(ls, u)
  OBVIOUS
<1> HIDE DEF u, N
<1>3. ASSUME NEW n \in 1 .. Len(ls)
      PROVE  ls[n] # <<>> /\ LineAt(ls[n], s, Head(ls[n]), Last(ls[n]))
  <2> DEFINE h == Head(ls[n])
             t == Last(ls[n])
             l == ls[n]
  <2>1. LineAt(l, u, h, t) /\ l # <<>>
    BY <1>2 DEF Spans
  <2> HIDE DEF h, t, l
  <2>2. /\ h \in 1 .. N + 1 /\ t \in h .. N + 1 /\ Len(l) = t - h + 1
        /\ \A k \in 1 .. t - h + 1 : l[k] = h + k - 1
        /\ \A i \in h .. t : u[i] = i
        /\ h = 1 \/ u[h - 1] <= 0
        /\ t = N + 1 \/ u[t + 1] <= 0
    BY <1>1, <2>1 DEF LineAt
  <2>3. t # N + 1
    <3>1. t \in h .. t
      BY <1>1, <2>2
    <3>2. u[t] = t /\ t > 0
      BY <1>1, <2>2, <3>1
    <3> QED  BY <1>1, <2>2, <3>2
  <2>4. h \in 1 .. N /\ t \in h .. N
    BY <1>1, <2>2, <2>3
  <2>5. \A i \in h .. t : s[i] = i
    <3> TAKE i \in h .. t
    <3>1. i \in 1 .. N
      BY <1>1, <2>4
    <3> QED  BY <1>1, <2>2, <3>1
  <2>6. h = 1 \/ s[h - 1] <= 0
    <3>1. h = 1 \/ h - 1 \in 1 .. N
      BY <1>1, <2>4
    <3> QED  BY <1>1, <2>2, <3>1
  <2>7. t = N \/ s[t + 1] <= 0
    <3>1. t = N \/ t + 1 \in 1 .. N
      BY <1>1, <2>4
    <3> QED  BY <1>1, <2>2, <2>3, <3>1
  <2>8. LineAt(l, s, h, t)
    BY <2>2, <2>4, <2>5, <2>6, <2>7 DEF LineAt, N
  <2> QED  BY <2>1, <2>8 DEF l, h, t
<1>4. \A m, n \in 1 .. Len(ls) : m < n => Last(ls[m]) < Head(ls[n])
  BY <1>2 DEF Spans
<1>5. ASSUME NEW i \in 1 .. N, s[i] > 0
      PROVE  \E n \in 1 .. Len(ls) : i \in Head(ls[n]) .. Last(ls[n])
  <2>1. i \in 1 .. N + 1 /\ u[i] > 0
    BY <1>1, <1>5
  <2> QED  BY <1>1, <1>2, <2>1 DEF Spans
<1> QED  BY <1>3, <1>4, <1>5 DEF Spans, N

(* The last line, closed by a break that was not in the output.            *)
LEMMA FlushLined ==
  ASSUME NEW s \in Seq(Int), NEW t \in Seq(Int), Positions(s \o t),
         NEW L \in Seq(Seq(Int)), NEW r \in Seq(Int), Lined(L, r, s)
  PROVE  /\ SplitStream(Append(r \o t, LF)).lines \in Seq(Seq(Int))
         /\ Spans(L \o SplitStream(Append(r \o t, LF)).lines, s \o t)
         /\ SplitStream(Append(r \o t, LF)).rest = <<>>
<1> DEFINE t2 == Append(t, LF)
           x == s \o t
           u == s \o t2
           a == SplitStream(r \o t2)
<1>0. LF \in Int /\ LF <= 0
  BY DEF LF
<1>1. t2 \in Seq(Int) /\ x \in Seq(Int) /\ u = Append(x, LF) /\ r \o t2 = Append(r \o t, LF)
  BY <1>0, AppendAfter
<1>2. Len(u) = Len(x) + 1 /\ (\A i \in 1 .. Len(x) : u[i] = x[i]) /\ u[Len(x) + 1] = LF
      /\ Len(x) \in Nat
  BY <1>0, <1>1, AppendIs
<1>3. Positions(u)
  <2>1. Positions(x)
    OBVIOUS
  <2> HIDE DEF u, x
  <2>2. ASSUME NEW i \in 1 .. Len(u), u[i] > 0 PROVE u[i] = i
    <3>1. i \in 1 .. Len(x) \/ i = Len(x) + 1
      BY <1>2
    <3>2. i \in 1 .. Len(x)
      BY <1>0, <1>2, <2>2, <3>1
    <3> QED  BY <1>2, <2>1, <2>2, <3>2 DEF Positions
  <2> QED  BY <2>2 DEF Positions
<1>4. Splits(a) /\ Lined(L \o a.lines, a.rest, u)
  BY <1>1, <1>3, ChunkLined
<1> HIDE DEF a, x, u
<1> DEFINE K == L \o a.lines
           q == a.rest
<1>5. a.lines \in Seq(Seq(Int)) /\ K \in Seq(Seq(Int)) /\ q \in Seq(Int)
  BY <1>4 DEF Splits
<1>6. Lined(K, q, u)
  BY <1>4
<1> HIDE DEF K, q
<1>7. q = <<>>
  <2> SUFFICES ASSUME q # <<>> PROVE FALSE
    OBVIOUS
  <2> DEFINE ks == Append(K, q)
  <2>1. Spans(ks, u) /\ Last(q) = Len(u)
    BY <1>6 DEF Lined
  <2>2. Len(ks) = Len(K) + 1 /\ ks[Len(K) + 1] = q /\ Len(K) \in Nat
    BY <1>5, AppendLine
  <2> HIDE DEF ks
  <2>3. LineAt(q, u, Head(q), Len(u))
    <3>1. Len(K) + 1 \in 1 .. Len(ks)
      BY <2>2
    <3>2. LineAt(ks[Len(K) + 1], u, Head(ks[Len(K) + 1]), Last(ks[Len(K) + 1]))
      BY <2>1, <3>1 DEF Spans
    <3> QED  BY <2>1, <2>2, <3>2
  <2>4. Len(u) \in Head(q) .. Len(u) /\ \A i \in Head(q) .. Len(u) : u[i] = i
    BY <1>2, <2>3 DEF LineAt
  <2>5. u[Len(u)] = Len(u)
    BY <2>4
  <2> QED  BY <1>0, <1>2, <2>5
<1>8. Spans(K, u)
  BY <1>6, <1>7 DEF Lined
<1>9. Spans(K, x)
  BY <1>0, <1>1, <1>5, <1>8, SpansUnbreak DEF x, u
<1> QED  BY <1>1, <1>5, <1>7, <1>9 DEF a, x, K, q

(* A break with no line before it.                                         *)
LEMMA BreakAlone == SplitStream(Append(<<>>, LF)) = Blank
<1> DEFINE t == Append(<<>>, LF)
<1>1. LF = 0 /\ <<>> \in Seq(Int) /\ <<>> \in Seq(Seq(Int))
  BY DEF LF
<1>2. t \in Seq(Int) /\ Len(t) = 1 /\ t[1] = LF
  BY <1>1
<1> HIDE DEF t
<1>3. PICK f : /\ SplitStream(t) = f[Len(t)] /\ f[0] = Blank
               /\ \A n \in 1 .. Len(t) : f[n] = Feed(f[n - 1], t[n])
  BY <1>2, SplitReads
<1>4. f[1] = Feed(Blank, LF)
  BY <1>2, <1>3
<1>5. Feed(Blank, LF) = Blank
  BY <1>1 DEF Feed, Blank
<1> QED  BY <1>2, <1>3, <1>4, <1>5 DEF t

(* What the last read leaves in the log, whatever was read before.         *)
LEMMA FlushIs ==
  ASSUME Typing, Piped, pc \in Reading, LogIsTrue
  PROVE  /\ Consumed \in Seq(Int) /\ Taken \in Seq(Int) /\ Positions(Consumed \o Taken)
         /\ SubSeq(written, 1, Len(written) - Len(Left)) = Consumed \o Taken
         /\ SplitStream(Append(buf \o Taken, LF)).lines \in Seq(Seq(Int))
         /\ SplitStream(Append(buf \o Taken, LF)).rest = <<>>
         /\ Spans(logged \o SplitStream(Append(buf \o Taken, LF)).lines, Consumed \o Taken)
<1>1. /\ Consumed \in Seq(Int) /\ Taken \in Seq(Int) /\ Positions(Consumed \o Taken)
      /\ SubSeq(written, 1, Len(written) - Len(Left)) = Consumed \o Taken
      /\ buf \in Seq(Int) /\ logged \in Seq(Seq(Int))
  BY ConsumedIs, TakenIs, ReadOn DEF Typing
<1>2. CASE Lined(logged, buf, Consumed)
  BY <1>1, <1>2, FlushLined
<1>3. CASE Over
  <2>1. Taken = <<>> /\ buf = <<>> /\ Spans(logged, Consumed)
    BY <1>3, TakenIs DEF Over
  <2>2. buf \o Taken = <<>> /\ Consumed \o Taken = Consumed /\ logged \o <<>> = logged
    BY <1>1, <2>1
  <2>3. /\ SplitStream(Append(buf \o Taken, LF)).lines = <<>>
        /\ SplitStream(Append(buf \o Taken, LF)).rest = <<>>
    BY <2>2, BreakAlone DEF Blank
  <2>4. <<>> \in Seq(Seq(Int))
    OBVIOUS
  <2> QED  BY <1>1, <2>1, <2>2, <2>3, <2>4
<1> QED  BY <1>2, <1>3 DEF LogIsTrue

-----------------------------------------------------------------------------
(* The invariant is inductive                                              *)

LEMMA InitIInv == Init => IInv
<1> SUFFICES ASSUME Init PROVE IInv
  OBVIOUS
<1>1. Typing
  <2>1. <<>> \in Seq(Int) /\ <<>> \in Seq(Seq(Int))
    OBVIOUS
  <2>2. /\ buf \in Seq(Int) /\ logged \in Seq(Seq(Int))
        /\ pipe \in Seq(Int) /\ written \in Seq(Int)
    BY <2>1, Zenon DEF Init
  <2>3. /\ failed \in BOOLEAN /\ cancel \in BOOLEAN
        /\ told \in BOOLEAN /\ deaf \in BOOLEAN
        /\ helper \in BOOLEAN /\ endless \in BOOLEAN
    BY DEF Init
  <2>4. /\ pc \in Reading \union {"finally", "wait", "returned", "raised"}
        /\ child \in {"running", "closed", "exited"}
        /\ quiet \in Int /\ atExit \in Nat
    BY DEF Init, Reading
  <2> QED  BY <2>2, <2>3, <2>4 DEF Typing
<1>a. Piped
  BY DEF Init, Piped, Positions, Exited
<1>b. Known /\ AllLogged
  BY DEF Init, Known, AllLogged
<1>2. Consumed = <<>>
  BY DEF Init, Consumed
<1>3. LogIsTrue
  BY <1>2 DEF Init, LogIsTrue, Lined, Spans
<1> QED  BY <1>1, <1>3, <1>a, <1>b DEF IInv

(* As long as the loop reads nothing, what it has read stays what it was.  *)
LEMMA ConsumedStays ==
  ASSUME Typing, Piped, Outside \/ UNCHANGED <<pipe, written>>
  PROVE  Consumed' = Consumed
<1>1. CASE UNCHANGED <<pipe, written>>
  BY <1>1 DEF Consumed
<1>2. CASE Write
  <2>1. PICK b \in {LF, CR, Len(written) + 1} :
          pipe' = Append(pipe, b) /\ written' = Append(written, b)
    BY <1>2 DEF Write
  <2>2. b \in Int /\ written \in Seq(Int) /\ pipe \in Seq(Int) /\ Len(pipe) <= Len(written)
    BY <2>1 DEF LF, CR, Typing, Piped
  <2> HIDE DEF Typing, Piped
  <2>3. SubSeq(Append(written, b), 1, Len(written) - Len(pipe))
          = SubSeq(written, 1, Len(written) - Len(pipe))
    BY <2>2
  <2>4. Len(Append(written, b)) - Len(Append(pipe, b)) = Len(written) - Len(pipe)
    BY <2>2
  <2> QED  BY <2>1, <2>3, <2>4 DEF Consumed
<1>3. CASE Outside /\ ~Write
  BY <1>1, <1>3 DEF Outside, Cancel, CloseStdout, Exit, Fork, HelperEnds, HelperRunsOn,
                history
<1> QED  BY <1>1, <1>2, <1>3

LEMMA NextTyping == IInv /\ [Next]_vars => Typing'
<1> SUFFICES ASSUME IInv, [Next]_vars PROVE Typing'
  OBVIOUS
<1> USE DEF Typing, loop, command, history
<1>0. Typing /\ Piped
  BY DEF IInv
<1>a. LF \in Int /\ CR \in Int
  BY DEF LF, CR
<1>t. Taken \in Seq(Int) /\ Left \in Seq(Int)
  BY <1>0, TakenIs
<1>b. ASSUME NEW lines \in Seq(Seq(Int)), NEW next, LogThen(lines, next)
      PROVE  /\ logged' \in Seq(Seq(Int)) /\ failed' \in BOOLEAN
             /\ pc' \in {next, "finally"}
  <2>1. logged \in Seq(Seq(Int))
    BY <1>0
  <2>2. CASE logged' = logged \o lines /\ pc' = next /\ UNCHANGED failed
    BY <2>1, <2>2, <1>0
  <2>3. ASSUME NEW n \in 0 .. Len(lines) - 1, logged' = logged \o SubSeq(lines, 1, n),
               pc' = "finally", failed' = TRUE
        PROVE  logged' \in Seq(Seq(Int)) /\ failed' \in BOOLEAN /\ pc' \in {next, "finally"}
    <3>1. SubSeq(lines, 1, n) \in Seq(Seq(Int))
      OBVIOUS
    <3> QED  BY <2>1, <2>3, <3>1
  <2> QED  BY <1>b, <2>2, <2>3 DEF LogThen
<1>c. ASSUME pc \in Reading
      PROVE  /\ pipe # <<>> => Splits(SplitStream(buf \o Taken))
             /\ SplitStream(Append(buf \o Taken, LF)).lines \in Seq(Seq(Int))
             /\ pipe = <<>> => SplitStream(Append(buf, LF)).lines \in Seq(Seq(Int))
  <2>1. /\ Consumed \in Seq(Int) /\ Positions(Consumed \o Taken)
        /\ SplitStream(Append(buf \o Taken, LF)).lines \in Seq(Seq(Int))
        /\ buf \in Seq(Int) /\ logged \in Seq(Seq(Int))
    BY <1>0, <1>c, FlushIs DEF IInv
  <2>2. ASSUME pipe # <<>> PROVE Splits(SplitStream(buf \o Taken))
    <3>1. Lined(logged, buf, Consumed)
      BY <1>c, <2>2 DEF IInv, LogIsTrue, Over
    <3> QED  BY <1>t, <2>1, <3>1, ChunkLined
  <2>3. pipe = <<>> => buf \o Taken = buf
    BY <1>0, <2>1, TakenIs
  <2> QED  BY <2>1, <2>2, <2>3
<1>1. CASE Top  BY <1>0, <1>1 DEF Top, KillGroup, Reading
<1>2. CASE SelectReady  BY <1>0, <1>2 DEF SelectReady, Reading
<1>3. CASE SelectNothing  BY <1>0, <1>3 DEF SelectNothing, Reading
<1>4. CASE Read
  <2>0. pc \in Reading
    BY <1>4 DEF Read, Reading
  <2>1. CASE pipe = <<>>
    BY <1>0, <1>4, <1>t, <2>1 DEF Read, Reading
  <2>2. CASE pipe # <<>>
    <3> DEFINE split == SplitStream(buf \o Taken)
    <3>1. split.lines \in Seq(Seq(Int)) /\ split.rest \in Seq(Int)
      BY <1>c, <2>0, <2>2 DEF Splits
    <3>2. LogThen(split.lines, "top") /\ buf' = split.rest
      BY <1>4, <2>2 DEF Read
    <3> HIDE DEF split
    <3>3. logged' \in Seq(Seq(Int)) /\ failed' \in BOOLEAN /\ pc' \in {"top", "finally"}
      BY <1>b, <3>1, <3>2
    <3> QED  BY <1>0, <1>4, <1>t, <3>1, <3>2, <3>3 DEF Read, Reading
  <2> QED  BY <2>1, <2>2
<1>5. CASE Eof
  <2>1. CASE Exited
    <3>1. pc \in Reading /\ pipe = <<>> /\ Flush(buf)
      BY <1>5, <2>1 DEF Eof, Reading, IInv, Known
    <3>2. logged' \in Seq(Seq(Int)) /\ failed' \in BOOLEAN /\ pc' \in {"finally"}
      BY <1>b, <1>c, <3>1 DEF Flush
    <3> QED  BY <1>0, <1>5, <3>1, <3>2 DEF Eof, Reading, Flush
  <2>2. CASE ~Exited  BY <1>0, <1>5, <2>2 DEF Eof, Reading
  <2> QED  BY <2>1, <2>2
<1>6. CASE Check  BY <1>0, <1>6 DEF Check, Reading
<1>7. CASE Leftover
  <2>1. pc \in Reading /\ Flush(buf \o Taken) /\ buf \o Taken \in Seq(Int)
    BY <1>0, <1>7, <1>t DEF Leftover, Reading
  <2>2. logged' \in Seq(Seq(Int)) /\ failed' \in BOOLEAN /\ pc' \in {"finally"}
    BY <1>b, <1>c, <2>1 DEF Flush
  <2> QED  BY <1>0, <1>7, <1>t, <2>1, <2>2 DEF Leftover, Reading, Flush
<1>8. CASE Finally  BY <1>0, <1>8 DEF Finally, KillGroup, Reading
<1>9. CASE Waited  BY <1>0, <1>9 DEF Waited, Reading
<1>10. CASE WaitExpires  BY <1>0, <1>10 DEF WaitExpires, Reading
<1>11. CASE Cancel  BY <1>0, <1>11 DEF Cancel
<1>12. CASE Write  BY <1>0, <1>12, <1>a DEF Write
<1>13. CASE CloseStdout  BY <1>0, <1>13 DEF CloseStdout
<1>14. CASE Exit  BY <1>0, <1>14 DEF Exit
<1>15. CASE Fork  BY <1>0, <1>15 DEF Fork
<1>16. CASE HelperEnds  BY <1>0, <1>16 DEF HelperEnds
<1>17. CASE HelperRunsOn  BY <1>0, <1>17 DEF HelperRunsOn
<1>18. CASE ReadBreak
  <2>0. pc \in Reading /\ pipe = <<>>
    BY <1>18 DEF ReadBreak, Reading
  <2> DEFINE split == SplitStream(Append(buf, LF))
  <2>1. split.lines \in Seq(Seq(Int)) /\ split.rest = <<>>
    <3>1. buf \o Taken = buf
      BY <1>0, <2>0, TakenIs
    <3> QED  BY <1>0, <1>c, <2>0, <3>1, FlushIs DEF IInv
  <2>2. LogThen(split.lines, "top") /\ buf' = split.rest
    BY <1>18 DEF ReadBreak
  <2> HIDE DEF split
  <2>3. logged' \in Seq(Seq(Int)) /\ failed' \in BOOLEAN /\ pc' \in {"top", "finally"}
    BY <1>b, <2>1, <2>2
  <2>4. <<>> \in Seq(Int)
    OBVIOUS
  <2> QED  BY <1>0, <1>18, <2>1, <2>2, <2>3, <2>4 DEF ReadBreak, Reading
<1>19. CASE UNCHANGED vars  BY <1>0, <1>19 DEF vars
<1> QED  BY <1>1, <1>2, <1>3, <1>4, <1>5, <1>6, <1>7, <1>8, <1>9, <1>10, <1>11, <1>12,
            <1>13, <1>14, <1>15, <1>16, <1>17, <1>18, <1>19
         DEF Next, Loop, Outside

LEMMA NextPiped == IInv /\ [Next]_vars => Piped'
<1> SUFFICES ASSUME IInv, [Next]_vars PROVE Piped'
  OBVIOUS
<1> USE DEF loop, command, history
<1>0. Typing /\ Piped
  BY DEF IInv
<1>a. pipe \in Seq(Int) /\ written \in Seq(Int) /\ atExit \in Nat
  BY <1>0 DEF Typing
<1>b. ASSUME pipe' = Left, UNCHANGED <<written, atExit, child>> PROVE Piped'
  <2>1. /\ Len(Left) <= Len(written)
        /\ \A i \in 1 .. Len(Left) : Left[i] = written[Len(written) - Len(Left) + i]
    BY <1>0, ReadOn
  <2> QED  BY <1>0, <1>b, <2>1 DEF Piped, Exited
<1>c. ASSUME UNCHANGED <<pipe, written, atExit, child>> PROVE Piped'
  BY <1>0, <1>c DEF Piped, Exited
<1>1. CASE Read \/ Leftover
  BY <1>1, <1>b DEF Read, Leftover
<1>2. CASE Write
  <2>1. PICK b \in {LF, CR, Len(written) + 1} :
          pipe' = Append(pipe, b) /\ written' = Append(written, b)
    BY <1>2 DEF Write
  <2> DEFINE p == Append(pipe, b)
             w == Append(written, b)
  <2>2. b \in Int /\ (b > 0 => b = Len(written) + 1)
    BY <2>1 DEF LF, CR
  <2>3. /\ Len(p) = Len(pipe) + 1 /\ Len(w) = Len(written) + 1
        /\ \A i \in 1 .. Len(pipe) : p[i] = pipe[i]
        /\ \A i \in 1 .. Len(written) : w[i] = written[i]
        /\ p[Len(pipe) + 1] = b /\ w[Len(written) + 1] = b
        /\ Len(pipe) \in Nat /\ Len(written) \in Nat
    BY <1>a, <2>2, AppendIs
  <2> HIDE DEF p, w
  <2>4. /\ Len(pipe) <= Len(written) /\ Positions(written)
        /\ \A i \in 1 .. Len(pipe) : pipe[i] = written[Len(written) - Len(pipe) + i]
        /\ Exited => atExit <= Len(written)
    BY <1>0 DEF Piped
  <2>5. Len(p) <= Len(w)
    BY <2>3, <2>4
  <2>6. ASSUME NEW i \in 1 .. Len(p) PROVE p[i] = w[Len(w) - Len(p) + i]
    <3>1. Len(w) - Len(p) = Len(written) - Len(pipe)
      BY <2>3
    <3>2. CASE i \in 1 .. Len(pipe)
      <4>1. Len(written) - Len(pipe) + i \in 1 .. Len(written)
        BY <2>3, <2>4, <3>2
      <4> QED  BY <2>3, <2>4, <3>1, <3>2, <4>1
    <3>3. CASE i \notin 1 .. Len(pipe)
      <4>1. i = Len(pipe) + 1 /\ Len(written) - Len(pipe) + i = Len(written) + 1
        BY <2>3, <3>3
      <4> QED  BY <2>3, <3>1, <4>1
    <3> QED  BY <3>2, <3>3
  <2>7. Positions(w)
    <3>1. ASSUME NEW i \in 1 .. Len(w), w[i] > 0 PROVE w[i] = i
      <4>1. i \in 1 .. Len(written) \/ i = Len(written) + 1
        BY <2>3
      <4>2. CASE i \in 1 .. Len(written)
        BY <2>3, <2>4, <3>1, <4>2 DEF Positions
      <4>3. CASE i = Len(written) + 1
        BY <2>2, <2>3, <3>1, <4>3
      <4> QED  BY <4>1, <4>2, <4>3
    <3> QED  BY <3>1 DEF Positions
  <2>8. Exited' => atExit' <= Len(w)
    BY <1>2, <1>a, <2>3, <2>4 DEF Write, Exited
  <2>9. pipe' = p /\ written' = w
    BY <2>1 DEF p, w
  <2> QED  BY <2>5, <2>6, <2>7, <2>8, <2>9 DEF Piped
<1>3. CASE Exit
  BY <1>0, <1>3, <1>a DEF Exit, Piped, Exited
<1>4. CASE CloseStdout
  BY <1>0, <1>4, <1>a DEF CloseStdout, Piped, Exited
<1>5. CASE Top \/ SelectReady \/ SelectNothing \/ Eof \/ Check \/ Finally \/ Waited \/ WaitExpires
  BY <1>5, <1>c DEF Top, SelectReady, SelectNothing, Eof, Check, Finally, Waited, WaitExpires
<1>6. CASE Cancel \/ Fork \/ HelperEnds \/ HelperRunsOn \/ ReadBreak
  BY <1>6, <1>c DEF Cancel, Fork, HelperEnds, HelperRunsOn, ReadBreak
<1>7. CASE UNCHANGED vars
  BY <1>7, <1>c DEF vars
<1> QED  BY <1>1, <1>2, <1>3, <1>4, <1>5, <1>6, <1>7 DEF Next, Loop, Outside

(* Whoever writes has the pipe open, and nobody opens it again.            *)
LEMMA NextKnown == IInv /\ [Next]_vars => Known'
<1> SUFFICES ASSUME IInv, [Next]_vars PROVE Known'
  OBVIOUS
<1> USE DEF loop, command, history, Open, Exited, Readable
<1>0. Known /\ Typing /\ Piped
  BY DEF IInv
<1>a. pipe \in Seq(Int) /\ written \in Seq(Int) /\ Len(pipe) \in Nat /\ Len(written) \in Nat
  BY <1>0 DEF Typing
<1>1. CASE Top  BY <1>0, <1>1 DEF Top, Known
<1>2. CASE SelectReady  BY <1>0, <1>2 DEF SelectReady, Known
<1>3. CASE SelectNothing  BY <1>0, <1>3, <1>a DEF SelectNothing, Known
<1>4. CASE Read
  <2>1. pc = "read" /\ UNCHANGED <<cancel, command, history>> /\ pipe' = Left
    BY <1>4 DEF Read
  <2>2. CASE pipe = <<>>
    <3>1. Left = <<>>
      BY <1>0, <1>a, <2>2, TakenIs
    <3> QED  BY <1>0, <1>4, <2>1, <2>2, <3>1 DEF Known, Read
  <2>3. CASE pipe # <<>>
    <3>1. pc' \in {"top", "finally"}
      BY <1>4, <2>3 DEF Read, LogThen
    <3> QED  BY <1>0, <2>1, <3>1 DEF Known
  <2> QED  BY <2>2, <2>3
<1>5. CASE Eof
  <2>1. pc' \in {"top", "finally"} /\ UNCHANGED <<helper, endless>>
    BY <1>5 DEF Eof, Flush, LogThen
  <2> QED  BY <1>0, <2>1 DEF Known
<1>6. CASE Check  BY <1>0, <1>6 DEF Check, Known
<1>7. CASE Leftover
  <2>1. pc' = "finally" /\ UNCHANGED <<helper, endless>>
    BY <1>7 DEF Leftover, Flush, LogThen
  <2> QED  BY <1>0, <2>1 DEF Known
<1>8. CASE Finally \/ Waited \/ WaitExpires
  BY <1>0, <1>8 DEF Finally, Waited, WaitExpires, Known
<1>9. CASE Cancel  BY <1>0, <1>9 DEF Cancel, Known
<1>10. CASE Write
  <2>1. PICK b \in {LF, CR, Len(written) + 1} :
          pipe' = Append(pipe, b) /\ written' = Append(written, b)
    BY <1>10 DEF Write
  <2>2. /\ pipe' # <<>>
        /\ Len(written') - Len(pipe') = Len(written) - Len(pipe)
    <3>1. b \in Int
      BY <2>1, <1>a DEF LF, CR
    <3> QED  BY <1>a, <2>1, <3>1, AppendIs
  <2>3. UNCHANGED <<pc, child, helper, endless, quiet>> /\ Open
    BY <1>10 DEF Write
  <2> QED  BY <1>0, <2>2, <2>3 DEF Known
<1>11. CASE CloseStdout  BY <1>0, <1>11 DEF CloseStdout, Known
<1>12. CASE Exit  BY <1>0, <1>12 DEF Exit, Known
<1>13. CASE Fork  BY <1>0, <1>13 DEF Fork, Known
<1>14. CASE HelperEnds  BY <1>0, <1>14 DEF HelperEnds, Known
<1>15. CASE HelperRunsOn  BY <1>0, <1>15 DEF HelperRunsOn, Known
<1>16. CASE ReadBreak
  <2>1. pc' \in {"top", "finally"} /\ UNCHANGED <<helper, endless>>
    BY <1>16 DEF ReadBreak, LogThen
  <2> QED  BY <1>0, <2>1 DEF Known
<1>17. CASE UNCHANGED vars  BY <1>0, <1>17 DEF vars, Known
<1> QED  BY <1>1, <1>2, <1>3, <1>4, <1>5, <1>6, <1>7, <1>8, <1>9, <1>10, <1>11, <1>12,
            <1>13, <1>14, <1>15, <1>16, <1>17
         DEF Next, Loop, Outside

(* What a read that is not the last adds to the log.                       *)
LEMMA NextLog == IInv /\ [Next]_vars => LogIsTrue'
<1> SUFFICES ASSUME IInv, [Next]_vars, pc' \in Reading
             PROVE  (Lined(logged, buf, Consumed) \/ Over)'
  BY DEF LogIsTrue
<1> USE DEF loop, command, history
<1>0. /\ Typing /\ Piped
      /\ pc \in Reading => Lined(logged, buf, Consumed) \/ Over
  BY DEF IInv, LogIsTrue
<1>b. ASSUME pc \in Reading, UNCHANGED <<logged, buf, pipe, written>>, endless => endless'
      PROVE  (Lined(logged, buf, Consumed) \/ Over)'
  <2>1. Consumed' = Consumed
    BY <1>b DEF Consumed
  <2> QED  BY <1>0, <1>b, <2>1 DEF Over
<1>1. CASE Top \/ SelectReady \/ SelectNothing \/ Check
  BY <1>1, <1>b DEF Top, SelectReady, SelectNothing, Check, Reading
<1>2. CASE Read
  <2>0. pc \in Reading /\ pipe' = Left /\ written' = written
    BY <1>2 DEF Read, Reading
  <2>1. CASE pipe = <<>>
    <3>1. Left = <<>>
      BY <1>0, <2>1, TakenIs DEF Typing
    <3> QED  BY <1>2, <1>b, <2>0, <2>1, <3>1 DEF Read
  <2>2. CASE pipe # <<>>
    <3> DEFINE split == SplitStream(buf \o Taken)
    <3>1. LogThen(split.lines, "top") /\ buf' = split.rest
      BY <1>2, <2>2 DEF Read
    <3>2. Consumed \in Seq(Int) /\ Positions(Consumed \o Taken) /\ Taken \in Seq(Int)
          /\ SubSeq(written, 1, Len(written) - Len(Left)) = Consumed \o Taken
      BY <1>0, ConsumedIs, ReadOn, TakenIs
    <3>3. Lined(logged, buf, Consumed) /\ buf \in Seq(Int) /\ logged \in Seq(Seq(Int))
      BY <1>0, <2>0, <2>2 DEF Typing, Over
    <3>4. Lined(logged \o split.lines, split.rest, Consumed \o Taken)
      BY <3>2, <3>3, ChunkLined
    <3>5. Consumed' = Consumed \o Taken
      BY <2>0, <3>2 DEF Consumed
    <3> HIDE DEF split
    <3>6. logged' = logged \o split.lines
      BY <3>1 DEF LogThen, Reading
    <3> QED  BY <3>1, <3>4, <3>5, <3>6
  <2> QED  BY <2>1, <2>2
<1>3. CASE Eof
  <2>1. CASE Exited
    <3>1. pc' = "finally"
      BY <1>3, <2>1 DEF Eof, Flush, LogThen
    <3> QED  BY <3>1 DEF Reading
  <2>2. CASE ~Exited
    BY <1>3, <1>b, <2>2 DEF Eof, Reading
  <2> QED  BY <2>1, <2>2
<1>4. CASE Leftover
  <2>1. pc' = "finally"
    BY <1>4 DEF Leftover, Flush, LogThen
  <2> QED  BY <2>1 DEF Reading
<1>5. CASE Finally \/ Waited \/ WaitExpires
  BY <1>5 DEF Finally, Waited, WaitExpires, Reading
<1>6. CASE Write
  <2>1. Consumed' = Consumed
    BY <1>0, <1>6, ConsumedStays DEF Outside
  <2> QED  BY <1>0, <1>6, <2>1 DEF Write, Over
<1>7. CASE Cancel \/ CloseStdout \/ Exit \/ Fork \/ HelperEnds \/ HelperRunsOn
  BY <1>7, <1>b DEF Cancel, CloseStdout, Exit, Fork, HelperEnds, HelperRunsOn
<1>8. CASE ReadBreak
  <2>1. pc \in Reading /\ pipe = <<>> /\ endless /\ UNCHANGED <<pipe, written, endless>>
    BY <1>8 DEF ReadBreak, Reading
  <2>2. buf \o Taken = buf /\ Consumed \o Taken = Consumed
    BY <1>0, <2>1, ConsumedIs, TakenIs DEF Typing
  <2> DEFINE split == SplitStream(Append(buf, LF))
  <2>3. LogThen(split.lines, "top") /\ buf' = split.rest
    BY <1>8 DEF ReadBreak
  <2>4. Spans(logged \o split.lines, Consumed) /\ split.rest = <<>>
    BY <1>0, <2>1, <2>2, FlushIs DEF IInv
  <2> HIDE DEF split
  <2>5. logged' = logged \o split.lines
    BY <2>3 DEF LogThen, Reading
  <2>6. Consumed' = Consumed
    BY <2>1 DEF Consumed
  <2> QED  BY <2>1, <2>3, <2>4, <2>5, <2>6 DEF Over
<1>9. CASE UNCHANGED vars
  BY <1>9, <1>b DEF vars
<1> QED  BY <1>1, <1>2, <1>3, <1>4, <1>5, <1>6, <1>7, <1>8, <1>9 DEF Next, Loop, Outside

(* What the last read adds to it.                                          *)
LEMMA NextAllLogged == IInv /\ [Next]_vars => AllLogged'
<1> DEFINE Enough(c) == c >= IF quiet = -1 THEN atExit ELSE Least(atExit, quiet + Chunk)
<1> SUFFICES ASSUME IInv, [Next]_vars, ~cancel', pc' \in {"finally", "wait", "returned"}
             PROVE  /\ Exited' /\ Spans(logged, Consumed)'
                    /\ (Enough(Len(written) - Len(pipe)))'
  BY DEF AllLogged
<1> USE DEF loop, command, history
<1>0. /\ Typing /\ Piped /\ Known
      /\ LogIsTrue
      /\ ~cancel /\ pc \in {"finally", "wait", "returned"} =>
           Exited /\ Spans(logged, Consumed) /\ Enough(Len(written) - Len(pipe))
  BY DEF IInv, AllLogged
<1>a. /\ pipe \in Seq(Int) /\ written \in Seq(Int) /\ Len(pipe) \in Nat /\ Len(written) \in Nat
      /\ buf \in Seq(Int) /\ logged \in Seq(Seq(Int)) /\ Chunk \in Nat /\ atExit \in Nat
      /\ quiet \in Int /\ Len(pipe) <= Len(written)
  BY <1>0, RunPipesAssumption DEF Typing, Piped
<1>1. CASE Top
  BY <1>1 DEF Top
<1>2. CASE SelectReady \/ SelectNothing \/ Check
  BY <1>2 DEF SelectReady, SelectNothing, Check
<1>3. CASE Read
  <2>1. (cancel' = cancel /\ pc' \in {"eof", "top"}) \/ cancel
    BY <1>3 DEF Read, LogThen
  <2> QED  BY <1>3, <2>1 DEF Read
<1>4. CASE Eof
  <2>1. Exited /\ Flush(buf) /\ UNCHANGED <<cancel, pipe, command, history>> /\ pc = "eof"
    BY <1>4 DEF Eof
  <2>2. logged' = logged \o SplitStream(Append(buf, LF)).lines
    BY <2>1 DEF Flush, LogThen
  <2>3. pipe = <<>> /\ quiet = -1
    BY <1>0, <2>1 DEF Known
  <2>4. /\ Consumed \in Seq(Int) /\ Taken \in Seq(Int)
        /\ Spans(logged \o SplitStream(Append(buf \o Taken, LF)).lines, Consumed \o Taken)
    BY <1>0, <2>1, FlushIs DEF Reading
  <2>5. Taken = <<>>
    BY <1>0, <2>3, TakenIs
  <2>6. Consumed \o Taken = Consumed /\ buf \o Taken = buf
    BY <1>a, <2>4, <2>5
  <2>8. Consumed' = Consumed
    BY <2>1 DEF Consumed
  <2>9. Spans(logged, Consumed)'
    BY <2>2, <2>4, <2>6, <2>8
  <2>10. (Enough(Len(written) - Len(pipe)))'
    BY <1>0, <1>a, <2>1, <2>3 DEF Piped, Exited
  <2> QED  BY <2>1, <2>9, <2>10 DEF Exited
<1>5. CASE Leftover
  <2>1. /\ pc = "leftover" /\ Flush(buf \o Taken) /\ pipe' = Left
        /\ UNCHANGED <<cancel, command, history>>
    BY <1>5 DEF Leftover
  <2>2. logged' = logged \o SplitStream(Append(buf \o Taken, LF)).lines
    BY <2>1 DEF Flush, LogThen
  <2>3. Exited /\ quiet = Len(written) - Len(pipe)
    BY <1>0, <2>1 DEF Known
  <2>4. /\ Spans(logged \o SplitStream(Append(buf \o Taken, LF)).lines, Consumed \o Taken)
        /\ SubSeq(written, 1, Len(written) - Len(Left)) = Consumed \o Taken
    BY <1>0, <2>1, FlushIs DEF Reading
  <2>6. Consumed' = Consumed \o Taken
    BY <2>1, <2>4 DEF Consumed
  <2>7. Spans(logged, Consumed)'
    BY <2>2, <2>4, <2>6
  <2>8. (Enough(Len(written) - Len(pipe)))'
    <3>1. Len(Left) = Len(pipe) - Least(Len(pipe), Chunk)
      BY <1>0, TakenIs
    <3>2. atExit <= Len(written)
      BY <1>0, <2>3 DEF Piped
    <3>3. Enough(Len(written) - Len(Left))
      BY <1>a, <2>3, <3>1, <3>2 DEF Least
    <3> QED  BY <2>1, <3>3
  <2> QED  BY <2>1, <2>3, <2>7, <2>8 DEF Exited
<1>6. CASE Finally \/ Waited
  <2>1. /\ ~cancel /\ pc \in {"finally", "wait"}
        /\ UNCHANGED <<logged, pipe, written, quiet, atExit, child>>
    BY <1>6 DEF Finally, Waited
  <2>2. Consumed' = Consumed
    BY <2>1 DEF Consumed
  <2> QED  BY <1>0, <2>1, <2>2 DEF Exited
<1>7. CASE WaitExpires
  BY <1>7 DEF WaitExpires
<1>8. CASE Outside
  <2>1. UNCHANGED <<loop, quiet>> /\ ~cancel
    BY <1>8 DEF Outside, Cancel, Write, CloseStdout, Exit, Fork, HelperEnds, HelperRunsOn
  <2>2. Exited /\ Spans(logged, Consumed) /\ Enough(Len(written) - Len(pipe))
    BY <1>0, <2>1
  <2>3. Consumed' = Consumed
    BY <1>0, <1>8, ConsumedStays
  <2>4. Exited' /\ atExit' = atExit
    BY <1>8, <2>2 DEF Outside, Cancel, Write, CloseStdout, Exit, Fork, HelperEnds,
                HelperRunsOn, Exited
  <2>5. Len(written') - Len(pipe') = Len(written) - Len(pipe)
    <3>1. CASE Write
      <4>1. PICK b \in {LF, CR, Len(written) + 1} :
              pipe' = Append(pipe, b) /\ written' = Append(written, b)
        BY <3>1 DEF Write
      <4>2. b \in Int
        BY <1>a, <4>1 DEF LF, CR
      <4> QED  BY <1>a, <4>1, <4>2, AppendIs
    <3>2. CASE ~Write
      BY <1>8, <3>2 DEF Outside, Cancel, CloseStdout, Exit, Fork, HelperEnds, HelperRunsOn
    <3> QED  BY <3>1, <3>2
  <2> QED  BY <2>1, <2>2, <2>3, <2>4, <2>5
<1>9. CASE ReadBreak
  <2>1. (cancel' = cancel /\ pc' = "top") \/ cancel
    BY <1>9 DEF ReadBreak, LogThen
  <2> QED  BY <1>9, <2>1 DEF ReadBreak
<1>10. CASE UNCHANGED vars
  <2>1. Consumed' = Consumed
    BY <1>10 DEF vars, Consumed
  <2> QED  BY <1>0, <1>10, <2>1 DEF vars, Exited
<1> QED  BY <1>1, <1>2, <1>3, <1>4, <1>5, <1>6, <1>7, <1>8, <1>9, <1>10 DEF Next, Loop

LEMMA Inductive == Spec => []IInv
<1>1. IInv /\ [Next]_vars => IInv'
  BY NextTyping, NextPiped, NextKnown, NextLog, NextAllLogged DEF IInv
<1> QED  BY <1>1, InitIInv, PTL DEF Spec, SafeSpec

LEMMA LinesOfLog ==
  ASSUME NEW L \in Seq(Seq(Int)), NEW r \in Seq(Int), NEW s \in Seq(Int), Positions(s),
         Spans(IF r = <<>> THEN L ELSE Append(L, r), s)
  PROVE  LinesAre(L \o (IF r = <<>> THEN <<>> ELSE <<r>>), s)
<1> DEFINE K == IF r = <<>> THEN L ELSE Append(L, r)
<1>1. K \in Seq(Seq(Int)) /\ L \o (IF r = <<>> THEN <<>> ELSE <<r>>) = K
  BY AppendLine
<1>2. Spans(K, s)
  OBVIOUS
<1> HIDE DEF K
<1> QED  BY <1>1, <1>2, LinesMean

LEMMA ConsumedPositions ==
  ASSUME Typing, Piped
  PROVE  Consumed \in Seq(Int) /\ Positions(Consumed)
<1>1. /\ Consumed \in Seq(Int) /\ Len(Consumed) \in 0 .. Len(written)
      /\ \A i \in 1 .. Len(Consumed) : Consumed[i] = written[i]
  BY ConsumedIs DEF Piped, Typing
<1>2. Positions(written) /\ Len(written) \in Nat
  BY DEF Piped, Typing
<1> QED  BY <1>1, <1>2 DEF Positions

(* Wherever a read cuts the output, the log holds its lines whole, in      *)
(* order and once, and buf the rest, for any output and any chunk.         *)
THEOREM WholeLinesHolds == Spec => []WholeLines
<1>1. IInv => WholeLines
  <2> SUFFICES ASSUME IInv, pc \in Reading PROVE LinesAre(logged \o Pending, Consumed)
    BY DEF WholeLines, Reading
  <2>1. /\ Spans(IF buf = <<>> THEN logged ELSE Append(logged, buf), Consumed)
        /\ buf \in Seq(Int) /\ logged \in Seq(Seq(Int))
    BY DEF IInv, LogIsTrue, Typing, Lined, Over
  <2>2. Consumed \in Seq(Int) /\ Positions(Consumed)
    BY ConsumedPositions DEF IInv
  <2> QED  BY <2>1, <2>2, LinesOfLog DEF Pending
<1> QED  BY <1>1, Inductive, PTL

(* A call that returns uncancelled has logged what was written before the  *)
(* command exited, but for what one more read could not hold.              *)
THEOREM TailShownHolds == Spec => []TailShown
<1>1. IInv => TailShown
  <2> SUFFICES ASSUME IInv, pc = "returned", ~cancel
               PROVE  /\ LinesAre(logged, Consumed)
                      /\ Len(Consumed) >= IF quiet = -1 THEN atExit
                                          ELSE Least(atExit, quiet + Chunk)
    BY DEF TailShown
  <2>1. /\ Spans(logged, Consumed) /\ logged \in Seq(Seq(Int))
        /\ Len(written) - Len(pipe) >= IF quiet = -1 THEN atExit
                                       ELSE Least(atExit, quiet + Chunk)
    BY DEF IInv, AllLogged, Typing
  <2>2. Consumed \in Seq(Int) /\ Positions(Consumed)
        /\ Len(Consumed) = Len(written) - Len(pipe)
    BY ConsumedPositions, ConsumedIs DEF IInv
  <2>3. LinesAre(logged, Consumed)
    BY <2>1, <2>2, LinesMean
  <2> QED  BY <2>1, <2>2, <2>3
<1> QED  BY <1>1, Inductive, PTL

-----------------------------------------------------------------------------
(* run_analysis() and the wizard, which go through this loop for every     *)
(* command: the proofs about RunAnalysis, for any number of runs, of       *)
(* relaunches and of orphans.  The invariant says, for each line of the    *)
(* try statement, what the run has made by then.                           *)

Vm == {"host", "boot", "await", "venv", "guest"}
Leaving == {"render", "finally", "stop", "deliver"}
Working == {"prepare", "static", "load", "merge", "render"} \union Vm

(* The screen is ready for a new run only when the worker has finished.    *)
Ui ==
  /\ WizardMeansIdle
  /\ app = "up" /\ ready => worker = "idle"
  /\ worker = "idle" /\ app = "up" => ~busy

(* What there is where the worker stands, when there is no error.          *)
Made ==
  /\ worker \in Working => ~error
  /\ worker \in {"static"} => mode # "runtime"
  /\ worker \in Vm \union {"load"} => mode # "static"
  /\ worker = "merge" => mode = "full"
  /\ mode = "runtime" => static = 0
  /\ mode # "runtime" /\ ~error /\ worker \in Vm \union {"load", "merge"} \union Leaving
       => static = now /\ files["static"] = now
  /\ worker = "load" => files["runtime"] \in {now} \union late
  /\ mode = "static" => dynamic = 0
  /\ mode # "static" /\ ~error /\ worker \in {"merge"} \union Leaving
       => dynamic \in {now} \union late
  /\ worker \in Working \ {"render"} => ~merged
  /\ ~error /\ worker \in Leaving =>
       (merged <=> mode = "full") /\ (mode = "full" => files["combined"] = now)

RunInv == RunTypeOK /\ Ui /\ Made

LEMMA RunInitially ==
  ASSUME RunInit
  PROVE  RunInv
<1>1. RunTypeOK
  <2>1. WorkerTypeOK
    BY DEF RunInit, WorkerTypeOK
  <2>2. RunsTypeOK
    BY RunAnalysisAssumption DEF RunInit, RunsTypeOK
  <2> QED  BY <2>1, <2>2 DEF RunTypeOK
<1>2. Ui
  BY DEF RunInit, Ui, WizardMeansIdle
<1>3. Made
  BY DEF RunInit, Made, Vm, Leaving, Working, Modes
<1> QED  BY <1>1, <1>2, <1>3 DEF RunInv

LEMMA RunNextWorker ==
  ASSUME RunTypeOK, [RunNext]_runVars
  PROVE  WorkerTypeOK'
<1>0. WorkerTypeOK
  BY DEF RunTypeOK
<1> USE <1>0, RunAnalysisAssumption
<1> USE DEF WorkerTypeOK, ui, result, commands, Step, Goto, Fail
<1>1. CASE Worker
  <2>1. CASE Prepare  BY <2>1 DEF Prepare
  <2>2. CASE Static  BY <2>2 DEF Static
  <2>3. CASE Host  BY <2>3 DEF Host
  <2>4. CASE Boot  BY <2>4 DEF Boot
  <2>5. CASE Await  BY <2>5 DEF Await
  <2>6. CASE Venv  BY <2>6 DEF Venv
  <2>7. CASE Guest  BY <2>7 DEF Guest
  <2>8. CASE Load  BY <2>8 DEF Load
  <2>9. CASE Merge  BY <2>9 DEF Merge
  <2>10. CASE Render  BY <2>10 DEF Render
  <2>11. CASE StopUnlessDown  BY <2>11 DEF StopUnlessDown
  <2>12. CASE Stop  BY <2>12 DEF Stop
  <2>13. CASE Deliver  BY <2>13 DEF Deliver
  <2> QED
    BY <1>1, <2>1, <2>2, <2>3, <2>4, <2>5, <2>6, <2>7, <2>8, <2>9, <2>10, <2>11,
       <2>12, <2>13 DEF Worker, WorkerStep
<1>2. CASE User
  <2>1. ASSUME NEW m \in Modes, StartRun(m) PROVE WorkerTypeOK'
    BY <2>1 DEF StartRun
  <2>2. CASE Again  BY <2>2 DEF Again
  <2>3. CASE Quit  BY <2>3 DEF Quit
  <2>4. CASE Relaunch  BY <2>4 DEF Relaunch
  <2> QED  BY <1>2, <2>1, <2>2, <2>3, <2>4 DEF User
<1>3. CASE Abandoned  BY <1>3 DEF Abandoned
<1>4. CASE Booted  BY <1>4 DEF Booted
<1>5. ASSUME NEW n \in 1 .. MaxRun, OrphanWrites(n) PROVE WorkerTypeOK'
  BY <1>5 DEF OrphanWrites
<1>6. CASE Hangs  BY <1>6 DEF Hangs
<1>7. CASE UNCHANGED runVars  BY <1>7 DEF runVars
<1> QED  BY <1>1, <1>2, <1>3, <1>4, <1>5, <1>6, <1>7 DEF RunNext

LEMMA RunNextRuns ==
  ASSUME RunTypeOK, [RunNext]_runVars
  PROVE  RunsTypeOK'
<1>0. RunsTypeOK
  BY DEF RunTypeOK
<1> USE <1>0, RunAnalysisAssumption
<1> USE DEF RunsTypeOK, ui, result, commands, Step, Goto, Fail
<1>1. CASE Worker
  <2>1. CASE Prepare  BY <2>1 DEF Prepare
  <2>2. CASE Static  BY <2>2 DEF Static
  <2>3. CASE Host  BY <2>3 DEF Host
  <2>4. CASE Boot  BY <2>4 DEF Boot
  <2>5. CASE Await  BY <2>5 DEF Await
  <2>6. CASE Venv  BY <2>6 DEF Venv
  <2>7. CASE Guest  BY <2>7 DEF Guest
  <2>8. CASE Load  BY <2>8 DEF Load, Reports
  <2>9. CASE Merge  BY <2>9 DEF Merge
  <2>10. CASE Render  BY <2>10 DEF Render
  <2>11. CASE StopUnlessDown  BY <2>11 DEF StopUnlessDown
  <2>12. CASE Stop  BY <2>12 DEF Stop
  <2>13. CASE Deliver  BY <2>13 DEF Deliver
  <2> QED
    BY <1>1, <2>1, <2>2, <2>3, <2>4, <2>5, <2>6, <2>7, <2>8, <2>9, <2>10, <2>11,
       <2>12, <2>13 DEF Worker, WorkerStep
<1>2. CASE User
  <2>1. ASSUME NEW m \in Modes, StartRun(m) PROVE RunsTypeOK'
    BY <2>1 DEF StartRun
  <2>2. CASE Again  BY <2>2 DEF Again
  <2>3. CASE Quit  BY <2>3 DEF Quit
  <2>4. CASE Relaunch  BY <2>4 DEF Relaunch
  <2> QED  BY <1>2, <2>1, <2>2, <2>3, <2>4 DEF User
<1>3. CASE Abandoned  BY <1>3 DEF Abandoned
<1>4. CASE Booted  BY <1>4 DEF Booted
<1>5. ASSUME NEW n \in 1 .. MaxRun, OrphanWrites(n) PROVE RunsTypeOK'
  <2>1. n \in 1 .. now /\ n \in 0 .. now
    BY <1>5 DEF OrphanWrites
  <2>2. files' \in [Reports -> 0 .. now]
    BY <1>5, <2>1 DEF OrphanWrites
  <2>3. orphans' \subseteq 1 .. now /\ late' \subseteq 1 .. now
    BY <1>5, <2>1 DEF OrphanWrites
  <2>4. UNCHANGED <<now, static, dynamic, worker>>
    BY <1>5 DEF OrphanWrites
  <2> QED  BY <2>2, <2>3, <2>4
<1>6. CASE Hangs  BY <1>6 DEF Hangs
<1>7. CASE UNCHANGED runVars  BY <1>7 DEF runVars
<1> QED  BY <1>1, <1>2, <1>3, <1>4, <1>5, <1>6, <1>7 DEF RunNext

LEMMA RunNextMade ==
  ASSUME RunInv, [RunNext]_runVars
  PROVE  Ui' /\ Made'
<1>a. /\ mode \in Modes /\ now \in Nat /\ files \in [Reports -> 0 .. now]
      /\ app \in {"up", "gone"} /\ Ui /\ Made
  BY DEF RunInv, RunTypeOK, WorkerTypeOK, RunsTypeOK
<1> USE <1>a
<1> USE DEF Ui, Made, WizardMeansIdle, Vm, Leaving, Working, Modes, Reports,
            ui, result, commands, Step, Goto, Fail
<1>1. CASE Worker
  <2>1. CASE Prepare  BY <2>1 DEF Prepare
  <2>2. CASE Static  BY <2>2 DEF Static
  <2>3. CASE Host  BY <2>3 DEF Host
  <2>4. CASE Boot  BY <2>4 DEF Boot
  <2>5. CASE Await  BY <2>5 DEF Await
  <2>6. CASE Venv  BY <2>6 DEF Venv
  <2>7. CASE Guest  BY <2>7 DEF Guest
  <2>8. CASE Load  BY <2>8 DEF Load
  <2>9. CASE Merge  BY <2>9 DEF Merge
  <2>10. CASE Render  BY <2>10 DEF Render
  <2>11. CASE StopUnlessDown  BY <2>11 DEF StopUnlessDown
  <2>12. CASE Stop  BY <2>12 DEF Stop
  <2>13. CASE Deliver  BY <2>13 DEF Deliver
  <2> QED
    BY <1>1, <2>1, <2>2, <2>3, <2>4, <2>5, <2>6, <2>7, <2>8, <2>9, <2>10, <2>11,
       <2>12, <2>13 DEF Worker, WorkerStep
<1>2. CASE User
  <2>1. ASSUME NEW m \in Modes, StartRun(m) PROVE Ui' /\ Made'
    BY <2>1 DEF StartRun
  <2>2. CASE Again  BY <2>2 DEF Again
  <2>3. CASE Quit  BY <2>3 DEF Quit
  <2>4. CASE Relaunch  BY <2>4 DEF Relaunch
  <2> QED  BY <1>2, <2>1, <2>2, <2>3, <2>4 DEF User
<1>3. CASE Abandoned  BY <1>3 DEF Abandoned
<1>4. CASE Booted  BY <1>4 DEF Booted
<1>5. ASSUME NEW n \in 1 .. MaxRun, OrphanWrites(n) PROVE Ui' /\ Made'
  BY <1>5 DEF OrphanWrites
<1>6. CASE Hangs  BY <1>6 DEF Hangs
<1>7. CASE UNCHANGED runVars  BY <1>7 DEF runVars
<1> QED  BY <1>1, <1>2, <1>3, <1>4, <1>5, <1>6, <1>7 DEF RunNext

LEMMA RunInductive ==
  RunSpec => []RunInv
<1>0. RunInit => RunInv
  BY RunInitially
<1>1. RunInv /\ [RunNext]_runVars => RunInv'
  BY RunNextWorker, RunNextRuns, RunNextMade DEF RunInv, RunTypeOK
<1> QED  BY <1>0, <1>1, PTL DEF RunSpec, RunSafeSpec

(* Every variable has its type; no report is from a run to come.           *)
THEOREM RunTypeCorrect ==
  RunSpec => []RunTypeOK
  BY RunInductive, PTL DEF RunInv

(* A run without an error delivers its own reports, and all of them.       *)
THEOREM OwnReportsHolds ==
  RunSpec => []OwnReports
<1>1. RunInv => OwnReports
  BY DEF RunInv, Made, Leaving, OwnReports, Delivered
<1> QED  BY <1>1, RunInductive, PTL

(* One worker at a time.                                                   *)
THEOREM WizardMeansIdleHolds ==
  RunSpec => []WizardMeansIdle
<1>1. RunInv => WizardMeansIdle
  BY DEF RunInv, Ui
<1> QED  BY <1>1, RunInductive, PTL

(* The finally block is left for the delivery only past stop_instance: it  *)
(* skips a VM that does not run; a listing or a stop that fails is on      *)
(* record.                                                                 *)
THEOREM StoppedWhenDeliveredHolds == RunSpec => StoppedWhenDelivered
<1> DEFINE Fine == UsesVm /\ worker \in {"finally", "stop"} /\ worker' = "deliver"
                     => vm' # "running" \/ unstopped' = TRUE
<1>1. ASSUME RunNext, ~ UNCHANGED worker PROVE Fine
  <2>1. CASE StopUnlessDown  BY <2>1 DEF StopUnlessDown, Step, UsesVm
  <2>2. CASE Stop  BY <2>2 DEF Stop
  <2>3. CASE Prepare \/ Static \/ Host \/ Boot \/ Await \/ Venv
             \/ Guest \/ Load \/ Merge \/ Render \/ Deliver
    BY <2>3 DEF Prepare, Static, Host, Boot, Await, Venv,
                Guest, Load, Merge, Render, Deliver
  <2>4. CASE User \/ Abandoned
    BY <2>4 DEF User, StartRun, Again, Quit, Relaunch, Abandoned
  <2>5. CASE Booted \/ \E n \in 1 .. MaxRun : OrphanWrites(n)
    BY <1>1, <2>5 DEF Booted, OrphanWrites
  <2>6. CASE Hangs  BY <1>1, <2>6 DEF Hangs
  <2> QED  BY <1>1, <2>1, <2>2, <2>3, <2>4, <2>5, <2>6 DEF RunNext, Worker, WorkerStep
<1>2. [RunNext]_runVars => [Fine]_runVars
  <2>1. UNCHANGED worker => Fine
    OBVIOUS
  <2> QED  BY <1>1, <2>1
<1> QED  BY <1>2, PTL DEF RunSpec, RunSafeSpec, StoppedWhenDelivered
=============================================================================
