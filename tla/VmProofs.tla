------------------------------ MODULE VmProofs ------------------------------
(***************************************************************************)
(* Theorems about Vm, for any programs, quotas and limits: frames          *)
(* partition the stack, every return finds its caller, fuel never wraps.   *)
(*                                                                         *)
(* The three are inductive together: a return or a tail call cuts the      *)
(* stack at the base of its frame, which is where the frame below ends;    *)
(* what a native answers goes to the target it was called with; and a call *)
(* is pushed on the frame its target lands in.                             *)
(***************************************************************************)
EXTENDS Vm, Recursion, TLAPS

----------------------------------------------------------------------------
(* Sequences of anything.                                                  *)

LEMMA SeqIsSeq ==
    ASSUME NEW S, NEW s \in Seq(S)
    PROVE  IsSeq(s)
BY DEF IsSeq

LEMMA IsSeqLen ==
    ASSUME NEW s, IsSeq(s)
    PROVE  Len(s) \in Nat /\ DOMAIN s = 1..Len(s) /\ (Len(s) = 0 <=> s = <<>>)
BY DEF IsSeq

LEMMA EmptyIsSeq == IsSeq(<<>>) /\ Len(<<>>) = 0
BY DEF IsSeq

LEMMA ConcatIsSeq ==
    ASSUME NEW s, IsSeq(s), NEW t, IsSeq(t)
    PROVE  /\ IsSeq(s \o t)
           /\ Len(s \o t) = Len(s) + Len(t)
           /\ \A i \in 1..Len(s) : (s \o t)[i] = s[i]
           /\ \A i \in 1..Len(t) : (s \o t)[Len(s) + i] = t[i]
<1> DEFINE S == {s[i] : i \in DOMAIN s} \cup {t[i] : i \in DOMAIN t}
<1>1. s \in Seq(S)
  BY DEF IsSeq
<1>2. t \in Seq(S)
  BY DEF IsSeq
<1> HIDE DEF S
<1>3. s \o t \in Seq(S)
  BY <1>1, <1>2
<1>4. IsSeq(s \o t)
  BY <1>3, SeqIsSeq
<1> QED BY <1>1, <1>2, <1>4

LEMMA AppendIsSeq ==
    ASSUME NEW s, IsSeq(s), NEW x
    PROVE  /\ IsSeq(Append(s, x))
           /\ Len(Append(s, x)) = Len(s) + 1
           /\ \A i \in 1..Len(s) : Append(s, x)[i] = s[i]
           /\ Append(s, x)[Len(s) + 1] = x
<1> DEFINE S == {s[i] : i \in DOMAIN s} \cup {x}
<1>1. s \in Seq(S)
  BY DEF IsSeq
<1> HIDE DEF S
<1>2. x \in S
  BY DEF S
<1>3. Append(s, x) \in Seq(S)
  BY <1>1, <1>2
<1>4. IsSeq(Append(s, x))
  BY <1>3, SeqIsSeq
<1> QED BY <1>1, <1>2, <1>4

LEMMA ConsIsSeq ==
    ASSUME NEW x, NEW s, IsSeq(s)
    PROVE  LET t == <<x>> \o s
           IN  /\ IsSeq(t)
               /\ Len(t) = Len(s) + 1
               /\ t[1] = x
               /\ \A i \in 2..Len(t) : i - 1 \in 1..Len(s) /\ t[i] = s[i - 1]
<1> DEFINE S == {s[i] : i \in DOMAIN s} \cup {x}
           t == <<x>> \o s
<1>1. s \in Seq(S)
  BY DEF IsSeq
<1> HIDE DEF S
<1>2. x \in S
  BY DEF S
<1>3. t \in Seq(S)
  BY <1>1, <1>2
<1>4. IsSeq(t)
  BY <1>3, SeqIsSeq
<1> QED BY <1>1, <1>2, <1>4

LEMMA PrefixIsSeq ==
    ASSUME NEW s, IsSeq(s), NEW n \in Nat, n <= Len(s)
    PROVE  /\ IsSeq(SubSeq(s, 1, n))
           /\ Len(SubSeq(s, 1, n)) = n
           /\ \A i \in 1..n : SubSeq(s, 1, n)[i] = s[i]
<1> DEFINE S == {s[i] : i \in DOMAIN s}
<1>1. s \in Seq(S)
  BY DEF IsSeq
<1> HIDE DEF S
<1>2. SubSeq(s, 1, n) \in Seq(S)
  BY <1>1
<1>3. IsSeq(SubSeq(s, 1, n))
  BY <1>2, SeqIsSeq
<1> QED BY <1>1, <1>3

LEMMA FrontIsSeq ==
    ASSUME NEW s, IsSeq(s), s # <<>>
    PROVE  LET t == SubSeq(s, 1, Len(s) - 1)
           IN  /\ IsSeq(t)
               /\ Len(t) = Len(s) - 1
               /\ \A i \in 1..(Len(s) - 1) : t[i] = s[i]
<1>1. Len(s) - 1 \in Nat /\ Len(s) - 1 <= Len(s)
  BY IsSeqLen
<1> QED BY ONLY <1>1, IsSeq(s), PrefixIsSeq, Zenon

LEMMA TailIsSeq ==
    ASSUME NEW s, IsSeq(s), s # <<>>
    PROVE  /\ IsSeq(Tail(s))
           /\ Len(Tail(s)) = Len(s) - 1
           /\ \A i \in 1..Len(Tail(s)) : i + 1 \in 1..Len(s) /\ Tail(s)[i] = s[i + 1]
           /\ Head(s) = s[1] /\ 1 \in 1..Len(s)
<1> DEFINE S == {s[i] : i \in DOMAIN s}
<1>1. s \in Seq(S)
  BY DEF IsSeq
<1> HIDE DEF S
<1>2. Tail(s) \in Seq(S)
  BY <1>1
<1>3. IsSeq(Tail(s))
  BY <1>2, SeqIsSeq
<1> QED BY <1>1, <1>3

LEMMA ExceptIsSeq ==
    ASSUME NEW s, IsSeq(s), NEW k, NEW x
    PROVE  IsSeq([s EXCEPT ![k] = x]) /\ Len([s EXCEPT ![k] = x]) = Len(s)
<1> DEFINE S == {s[i] : i \in DOMAIN s} \cup {x}
           t == [s EXCEPT ![k] = x]
<1>1. s \in Seq(S)
  BY DEF IsSeq
<1> HIDE DEF S
<1>2. x \in S
  BY DEF S
<1>3. t = [i \in 1..Len(s) |-> IF i = k THEN x ELSE s[i]]
  BY <1>1
<1> HIDE DEF t
<1>4. t \in Seq(S)
  <2>1. Len(s) \in Nat /\ \A i \in 1..Len(s) : s[i] \in S
    BY <1>1
  <2>2. t \in [1..Len(s) -> S]
    BY <1>2, <1>3, <2>1
  <2> QED BY <2>1, <2>2
<1>5. IsSeq(t)
  BY <1>4, SeqIsSeq
<1>6. Len(t) = Len(s)
  BY <1>1, <1>3
<1> QED BY <1>5, <1>6 DEF t

----------------------------------------------------------------------------
(* Sums.                                                                   *)

\* The sums of the prefixes of w.
PrefixSums(w, sum) ==
    /\ sum \in [0..Len(w) -> Nat]
    /\ sum[0] = 0
    /\ \A n \in 1..Len(w) : sum[n] = sum[n - 1] + w[n]

LEMMA AddNat == \A a, b \in Nat : a + b \in Nat
OBVIOUS

LEMMA SumIsPrefixSum ==
    ASSUME NEW w \in Seq(Nat)
    PROVE  \E sum : PrefixSums(w, sum) /\ SumOf(w) = sum[Len(w)]
<1> DEFINE N == Len(w)
           weight == [n \in Nat |-> IF n \in 1..N THEN w[n] ELSE 0]
           step == [p \in Nat \X Nat |-> p[2] + weight[p[1]]]
           Sums(s) == s = [n \in 0..N |-> IF n = 0 THEN 0 ELSE s[n - 1] + w[n]]
           sum == CHOOSE s : Sums(s)
<1>1. N \in Nat /\ \A n \in 1..N : w[n] \in Nat
  OBVIOUS
<1>2. weight \in [Nat -> Nat]
  BY <1>1
<1>3. step \in [Nat \X Nat -> Nat]
  BY <1>2
<1> HIDE DEF N
<1>4. PICK f \in [Nat -> Nat] :
        f[0] = 0 /\ \A n \in Nat \ {0} : f[n] = step[<<n, f[n - 1]>>]
  <2>1. 0 \in Nat
    OBVIOUS
  <2> HIDE DEF step
  <2>2. \E f : Iterates(f, Nat, 0, step)
    BY <1>3, <2>1, StepsExist
  <2> QED BY <2>2 DEF Iterates
<1> DEFINE g == [n \in 0..N |-> f[n]]
<1>5. ASSUME NEW n \in 1..N PROVE f[n] = f[n - 1] + w[n]
  <2>1. n \in Nat /\ n # 0 /\ n - 1 \in Nat
    BY <1>1
  <2>2. f[n] = step[<<n, f[n - 1]>>]
    BY <1>4, <2>1
  <2>3. <<n, f[n - 1]>> \in Nat \X Nat
    BY <1>4, <2>1
  <2> QED BY <2>1, <2>2, <2>3
<1>6. f[0] = 0
  BY <1>4
<1>7. Sums(g)
  <2> DEFINE h == [n \in 0..N |-> IF n = 0 THEN 0 ELSE g[n - 1] + w[n]]
  <2>1. ASSUME NEW n \in 0..N PROVE g[n] = h[n]
    <3>1. CASE n = 0
      BY <1>6, <3>1
    <3>2. CASE n # 0
      <4>1. n \in 1..N /\ n - 1 \in 0..N
        BY <1>1, <3>2
      <4> QED BY <1>5, <3>2, <4>1
    <3> QED BY <3>1, <3>2
  <2> HIDE DEF h
  <2>2. g = [n \in 0..N |-> g[n]] /\ h = [n \in 0..N |-> h[n]]
    BY DEF h
  <2>3. g = h
    BY <2>1, <2>2
  <2> QED BY <2>3 DEF h
<1>8. Sums(sum)
  <2> HIDE DEF Sums, g
  <2> QED BY <1>7
<1> HIDE DEF sum
<1>9. /\ sum[0] = 0
      /\ \A n \in 1..N : sum[n] = sum[n - 1] + w[n]
      /\ sum = [n \in 0..N |-> sum[n]]
  <2>1. 0 \in 0..N /\ \A n \in 1..N : n \in 0..N /\ n # 0
    BY <1>1
  <2>2. \A n \in 0..N : sum[n] = IF n = 0 THEN 0 ELSE sum[n - 1] + w[n]
    BY <1>8
  <2>3. sum = [n \in 0..N |-> sum[n]]
    BY <1>8
  <2> QED BY <2>1, <2>2, <2>3
<1>10. \A n \in 0..N : sum[n] \in Nat
  <2> DEFINE T == {n \in Nat : n <= N => sum[n] \in Nat}
  <2>1. 0 \in T
    BY <1>9
  <2>2. ASSUME NEW n \in Nat, n \in T PROVE n + 1 \in T
    <3>1. CASE n + 1 <= N
      <4>1. n + 1 \in 1..N /\ (n + 1) - 1 = n /\ n <= N
        BY <1>1, <3>1
      <4>2. sum[n + 1] = sum[n] + w[n + 1] /\ w[n + 1] \in Nat /\ sum[n] \in Nat
        BY <1>1, <1>9, <2>2, <4>1
      <4>3. sum[n] + w[n + 1] \in Nat
        BY <4>2, AddNat, Zenon
      <4>4. sum[n + 1] \in Nat
        BY <4>2, <4>3, Zenon
      <4> QED BY ONLY <4>4, n \in Nat
    <3>2. CASE ~(n + 1 <= N)
      BY <3>2
    <3> QED BY <3>1, <3>2
  <2> HIDE DEF T
  <2>3. \A n \in Nat : n \in T
    BY <2>1, <2>2, SetInduction
  <2> QED BY <1>1, <2>3 DEF T
<1>11. PrefixSums(w, sum)
  BY <1>9, <1>10 DEF PrefixSums, N
<1>12. SumOf(w) = sum[N]
  BY DEF SumOf, sum, N
<1> QED BY <1>11, <1>12 DEF N

\* The prefix sums of a sequence are those of any that begins with it.
LEMMA PrefixSumsAgree ==
    ASSUME NEW v \in Seq(Nat), NEW w \in Seq(Nat), NEW d \in Nat, NEW s, NEW t,
           PrefixSums(v, s), PrefixSums(w, t), d + Len(v) <= Len(w),
           \A i \in 1..Len(v) : w[i + d] = v[i]
    PROVE  \A n \in 0..Len(v) : t[n + d] = t[d] + s[n]
<1> DEFINE T == {n \in Nat : n <= Len(v) => t[n + d] = t[d] + s[n]}
<1>1. /\ Len(v) \in Nat /\ Len(w) \in Nat
      /\ \A n \in 0..Len(v) : s[n] \in Nat
      /\ \A n \in 0..Len(w) : t[n] \in Nat
      /\ \A n \in 1..Len(v) : v[n] \in Nat
  <2>1. s \in [0..Len(v) -> Nat] /\ t \in [0..Len(w) -> Nat]
    BY DEF PrefixSums
  <2>2. /\ \A n \in 0..Len(v) : s[n] \in Nat
        /\ \A n \in 0..Len(w) : t[n] \in Nat
    BY ONLY <2>1
  <2>3. Len(v) \in Nat /\ Len(w) \in Nat /\ \A n \in 1..Len(v) : v[n] \in Nat
    OBVIOUS
  <2> QED BY ONLY <2>2, <2>3
<1>2. 0 \in T
  BY <1>1 DEF PrefixSums
<1>3. ASSUME NEW n \in Nat, n \in T PROVE n + 1 \in T
  <2>1. CASE n + 1 <= Len(v)
    <3>1. /\ n + 1 \in 1..Len(v) /\ (n + 1) - 1 = n /\ n <= Len(v) /\ n \in 0..Len(v)
          /\ (n + 1) + d \in 1..Len(w) /\ ((n + 1) + d) - 1 = n + d
          /\ n + d \in 0..Len(w) /\ d \in 0..Len(w)
      BY <1>1, <2>1
    <3>2. t[(n + 1) + d] = t[n + d] + w[(n + 1) + d]
      BY <3>1 DEF PrefixSums
    <3>3. s[n + 1] = s[n] + v[n + 1]
      BY <3>1 DEF PrefixSums
    <3>4. w[(n + 1) + d] = v[n + 1] /\ t[n + d] = t[d] + s[n]
      BY <1>3, <3>1
    <3>5. t[d] \in Nat /\ s[n] \in Nat /\ v[n + 1] \in Nat
      BY <1>1, <3>1
    <3>6. t[(n + 1) + d] = t[d] + s[n + 1]
      BY ONLY <3>2, <3>3, <3>4, <3>5
    <3> QED BY ONLY <3>6, n \in Nat
  <2>2. CASE ~(n + 1 <= Len(v))
    BY <2>2
  <2> QED BY <2>1, <2>2
<1> HIDE DEF T
<1>4. \A n \in Nat : n \in T
  BY <1>2, <1>3, SetInduction
<1> QED BY <1>1, <1>4 DEF T

LEMMA SumIsNat ==
    ASSUME NEW w \in Seq(Nat)
    PROVE  SumOf(w) \in Nat
<1>1. PICK t : PrefixSums(w, t) /\ SumOf(w) = t[Len(w)]
  BY SumIsPrefixSum
<1>2. Len(w) \in 0..Len(w)
  OBVIOUS
<1> QED BY <1>1, <1>2 DEF PrefixSums

LEMMA SumOfNone ==
    ASSUME NEW w \in Seq(Nat), Len(w) = 0
    PROVE  SumOf(w) = 0
BY SumIsPrefixSum DEF PrefixSums

\* One more at the end.
LEMMA SumOfAppended ==
    ASSUME NEW v \in Seq(Nat), NEW w \in Seq(Nat), Len(w) = Len(v) + 1,
           \A i \in 1..Len(v) : w[i] = v[i]
    PROVE  SumOf(w) = SumOf(v) + w[Len(v) + 1]
<1>1. PICK s : PrefixSums(v, s) /\ SumOf(v) = s[Len(v)]
  BY SumIsPrefixSum
<1>2. PICK t : PrefixSums(w, t) /\ SumOf(w) = t[Len(w)]
  BY SumIsPrefixSum
<1>3. /\ Len(v) \in Nat /\ 0 + Len(v) <= Len(w) /\ 0 \in Nat
      /\ \A i \in 1..Len(v) : w[i + 0] = v[i]
      /\ Len(v) \in 0..Len(v) /\ Len(w) \in 1..Len(w)
  OBVIOUS
<1>4. t[Len(v) + 0] = t[0] + s[Len(v)]
  <2>1. \A n \in 0..Len(v) : t[n + 0] = t[0] + s[n]
    BY ONLY <1>1, <1>2, <1>3, v \in Seq(Nat), w \in Seq(Nat), PrefixSumsAgree
  <2> QED BY <1>3, <2>1
<1>5. t[Len(w)] = t[Len(v)] + w[Len(w)] /\ t[0] = 0
  BY <1>2, <1>3 DEF PrefixSums
<1>6. s[Len(v)] \in Nat
  BY <1>1, <1>3 DEF PrefixSums
<1> QED BY <1>1, <1>2, <1>3, <1>4, <1>5, <1>6

\* One more in front.
LEMMA SumOfPrepended ==
    ASSUME NEW v \in Seq(Nat), NEW w \in Seq(Nat), Len(w) = Len(v) + 1,
           \A i \in 1..Len(v) : w[i + 1] = v[i]
    PROVE  SumOf(w) = w[1] + SumOf(v)
<1>1. PICK s : PrefixSums(v, s) /\ SumOf(v) = s[Len(v)]
  BY SumIsPrefixSum
<1>2. PICK t : PrefixSums(w, t) /\ SumOf(w) = t[Len(w)]
  BY SumIsPrefixSum
<1>3. /\ Len(v) \in Nat /\ 1 + Len(v) <= Len(w) /\ 1 \in Nat
      /\ \A i \in 1..Len(v) : w[i + 1] = v[i]
      /\ Len(v) \in 0..Len(v) /\ 1 \in 1..Len(w) /\ w[1] \in Nat
  OBVIOUS
<1>4. t[Len(v) + 1] = t[1] + s[Len(v)]
  <2>1. \A n \in 0..Len(v) : t[n + 1] = t[1] + s[n]
    BY ONLY <1>1, <1>2, <1>3, v \in Seq(Nat), w \in Seq(Nat), PrefixSumsAgree
  <2> QED BY <1>3, <2>1
<1>5. t[1] = t[0] + w[1] /\ t[0] = 0
  <2>1. t[1] = t[1 - 1] + w[1]
    BY <1>2, <1>3 DEF PrefixSums
  <2> QED BY <1>2, <2>1 DEF PrefixSums
<1> QED BY <1>1, <1>2, <1>3, <1>4, <1>5

----------------------------------------------------------------------------
(* What natives wait for, and what they have collected.                    *)

LEMMA OutputsAreLengths ==
    ASSUME NEW natives, IsSeq(natives),
           \A i \in 1..Len(natives) : IsContinuation(natives[i])
    PROVE  LET w == [i \in DOMAIN natives |-> Len(natives[i].output)]
           IN  w \in Seq(Nat) /\ Len(w) = Len(natives)
<1> DEFINE w == [i \in DOMAIN natives |-> Len(natives[i].output)]
<1>1. Len(natives) \in Nat /\ DOMAIN natives = 1..Len(natives)
  BY IsSeqLen
<1>2. \A i \in 1..Len(natives) : Len(natives[i].output) \in Nat
  BY IsSeqLen DEF IsContinuation
<1>3. w \in [1..Len(natives) -> Nat]
  BY <1>1, <1>2
<1> HIDE DEF w
<1>4. w \in Seq(Nat) /\ Len(w) = Len(natives)
  BY <1>1, <1>3
<1> QED BY <1>4 DEF w

LEMMA TargetSums ==
    ASSUME NEW target, IsTarget(target)
    PROVE  Len(target.natives) \in Nat /\ Outputs(target.natives) \in Nat
<1>1. /\ IsSeq(target.natives)
      /\ \A i \in 1..Len(target.natives) : IsContinuation(target.natives[i])
  BY DEF IsTarget
<1> DEFINE w == [i \in DOMAIN target.natives |-> Len(target.natives[i].output)]
<1>2. w \in Seq(Nat)
  BY <1>1, OutputsAreLengths
<1> HIDE DEF w
<1>3. SumOf(w) \in Nat
  BY <1>2, SumIsNat
<1>4. Len(target.natives) \in Nat
  BY <1>1, IsSeqLen
<1> QED BY <1>3, <1>4 DEF Outputs, w

LEMMA NothingWaits ==
    ASSUME NEW to \in Nat \cup {Root}
    PROVE  /\ IsTarget(ReturnTo(to)) /\ ReturnTo(to).to = to
           /\ Len(ReturnTo(to).natives) = 0 /\ Outputs(ReturnTo(to).natives) = 0
<1> DEFINE w == [i \in DOMAIN <<>> |-> Len(<<>>[i].output)]
<1>1. IsSeq(<<>>) /\ Len(<<>>) = 0 /\ \A i \in 1..Len(<<>>) : IsContinuation(<<>>[i])
  BY EmptyIsSeq
<1>2. w \in Seq(Nat) /\ Len(w) = 0
  BY <1>1, OutputsAreLengths
<1> HIDE DEF w
<1>3. SumOf(w) = 0
  BY <1>2, SumOfNone
<1>4. Outputs(<<>>) = 0
  BY <1>3 DEF Outputs, w
<1> QED BY <1>1, <1>4 DEF ReturnTo, IsTarget

\* A native more, or less, and what it has collected.
LEMMA OutputsOfMore ==
    ASSUME NEW s, NEW t, IsSeq(s), IsSeq(t), Len(t) = Len(s) + 1,
           \A i \in 1..Len(s) : IsContinuation(s[i]) /\ t[i + 1] = s[i],
           IsContinuation(t[1])
    PROVE  Outputs(t) = Len(t[1].output) + Outputs(s)
<1> DEFINE v == [i \in DOMAIN s |-> Len(s[i].output)]
           w == [i \in DOMAIN t |-> Len(t[i].output)]
<1>1. /\ Len(s) \in Nat /\ DOMAIN s = 1..Len(s) /\ DOMAIN t = 1..Len(t)
      /\ \A i \in 1..Len(t) : i = 1 \/ (i - 1 \in 1..Len(s) /\ (i - 1) + 1 = i)
  BY IsSeqLen
<1>2. \A i \in 1..Len(t) : IsContinuation(t[i])
  <2> TAKE i \in 1..Len(t)
  <2>1. CASE i = 1
    BY <2>1
  <2>2. CASE i # 1
    <3>1. i - 1 \in 1..Len(s) /\ (i - 1) + 1 = i
      BY <1>1, <2>2
    <3>2. IsContinuation(s[i - 1]) /\ t[(i - 1) + 1] = s[i - 1]
      BY <3>1
    <3> QED BY <3>1, <3>2
  <2> QED BY <2>1, <2>2
<1>3. v \in Seq(Nat) /\ Len(v) = Len(s)
  BY OutputsAreLengths
<1>4. w \in Seq(Nat) /\ Len(w) = Len(t)
  BY <1>2, OutputsAreLengths
<1>5. \A i \in 1..Len(v) : w[i + 1] = v[i]
  <2> TAKE i \in 1..Len(v)
  <2>1. i \in 1..Len(s) /\ i + 1 \in 1..Len(t)
    BY <1>1, <1>3
  <2>2. t[i + 1] = s[i]
    BY <2>1
  <2>3. v[i] = Len(s[i].output) /\ w[i + 1] = Len(t[i + 1].output)
    BY <1>1, <2>1
  <2> QED BY <2>2, <2>3
<1>6. w[1] = Len(t[1].output)
  BY <1>1
<1> HIDE DEF v, w
<1>7. Len(w) = Len(v) + 1
  BY <1>3, <1>4
<1>8. SumOf(w) = w[1] + SumOf(v)
  BY <1>3, <1>4, <1>5, <1>7, SumOfPrepended
<1> QED BY <1>6, <1>8 DEF Outputs, v, w

----------------------------------------------------------------------------
(* What natives answer goes where it was asked to go, and pays for what it *)
(* keeps.                                                                  *)

\* An answer that fails, or that returns to, or calls for, what target
\* returns to, with no more than depth natives waiting, which have collected
\* no more than what was collected and what the answer charges.
Answers(answer, target, depth, collected) ==
    /\ answer.cost \in Nat
    /\ \/ answer.next.kind = "error"
       \/ /\ answer.next.kind \in {"call", "return"}
          /\ IsTarget(answer.next.target)
          /\ answer.next.target.to = target.to
          /\ Len(answer.next.target.natives) <= depth
          /\ Outputs(answer.next.target.natives) <= collected + answer.cost

LEMMA WithinIsTarget ==
    ASSUME NEW c, IsContinuation(c), NEW target, IsTarget(target)
    PROVE  /\ IsTarget(Within(c, target)) /\ Within(c, target).to = target.to
           /\ Len(Within(c, target).natives) = Len(target.natives) + 1
           /\ Outputs(Within(c, target).natives) =
                 Len(c.output) + Outputs(target.natives)
<1> DEFINE all == <<c>> \o target.natives
<1>1. /\ IsSeq(target.natives)
      /\ \A i \in 1..Len(target.natives) : IsContinuation(target.natives[i])
  BY DEF IsTarget
<1>2. /\ IsSeq(all)
      /\ Len(all) = Len(target.natives) + 1
      /\ all[1] = c
      /\ \A i \in 2..Len(all) :
           i - 1 \in 1..Len(target.natives) /\ all[i] = target.natives[i - 1]
  BY <1>1, ConsIsSeq
<1>3. Within(c, target) = [natives |-> all, to |-> target.to]
  BY DEF Within
<1> HIDE DEF all
<1>4. Len(all) \in Nat /\ Len(target.natives) \in Nat
  BY <1>1, <1>2, IsSeqLen
<1>5. \A i \in 1..Len(all) : IsContinuation(all[i])
  <2> TAKE i \in 1..Len(all)
  <2>1. CASE i = 1
    BY <2>1, <1>2
  <2>2. CASE i # 1
    <3>1. i \in 2..Len(all)
      BY <2>2, <1>4
    <3> QED BY <3>1, <1>1, <1>2
  <2> QED BY <2>1, <2>2
<1>6. Outputs(all) = Len(all[1].output) + Outputs(target.natives)
  <2>1. \A i \in 1..Len(target.natives) : all[i + 1] = target.natives[i]
    <3> TAKE i \in 1..Len(target.natives)
    <3>1. i + 1 \in 2..Len(all) /\ (i + 1) - 1 = i
      BY <1>2, <1>4
    <3>2. all[i + 1] = target.natives[(i + 1) - 1]
      BY <1>2, <3>1
    <3> QED BY <3>1, <3>2
  <2>2. IsContinuation(all[1])
    BY <1>2
  <2> QED BY <1>1, <1>2, <2>1, <2>2, OutputsOfMore
<1> QED BY <1>2, <1>3, <1>5, <1>6 DEF IsTarget

LEMMA BeyondIsTarget ==
    ASSUME NEW target, IsTarget(target), target.natives # <<>>
    PROVE  /\ IsTarget(Beyond(target))
           /\ Beyond(target).to = target.to
           /\ IsContinuation(Head(target.natives))
           /\ Len(target.natives) = Len(Beyond(target).natives) + 1
           /\ Outputs(target.natives) =
                 Len(Head(target.natives).output) + Outputs(Beyond(target).natives)
<1> DEFINE rest == Tail(target.natives)
<1>1. /\ IsSeq(target.natives)
      /\ \A i \in 1..Len(target.natives) : IsContinuation(target.natives[i])
  BY DEF IsTarget
<1>2. /\ IsSeq(rest)
      /\ Len(rest) = Len(target.natives) - 1
      /\ \A i \in 1..Len(rest) :
           i + 1 \in 1..Len(target.natives) /\ rest[i] = target.natives[i + 1]
      /\ Head(target.natives) = target.natives[1]
      /\ 1 \in 1..Len(target.natives)
  BY <1>1, TailIsSeq
<1>3. \A i \in 1..Len(rest) : IsContinuation(rest[i])
  BY <1>1, <1>2
<1>4. Beyond(target) = [natives |-> rest, to |-> target.to]
  BY DEF Beyond
<1> HIDE DEF rest
<1>5. Len(target.natives) = Len(rest) + 1
  BY <1>1, <1>2, IsSeqLen
<1>6. Outputs(target.natives) = Len(target.natives[1].output) + Outputs(rest)
  <2>1. \A i \in 1..Len(rest) : IsContinuation(rest[i]) /\ target.natives[i + 1] = rest[i]
    BY <1>2, <1>3
  <2>2. IsContinuation(target.natives[1])
    BY <1>1, <1>2
  <2> QED BY <1>1, <1>2, <1>5, <2>1, <2>2, OutputsOfMore
<1> QED BY <1>1, <1>2, <1>3, <1>4, <1>5, <1>6 DEF IsTarget

\* A continuation that has collected what the charge so far pays for.
LEMMA NextItemAnswers ==
    ASSUME NEW c, IsContinuation(c), NEW target, IsTarget(target),
           NEW cost \in Nat, NEW depth \in Nat, NEW collected \in Nat,
           Len(target.natives) + 1 <= depth,
           Len(c.output) + Outputs(target.natives) <= collected + cost
    PROVE  Answers(NextItem(c, target, cost), target, depth, collected)
<1> DEFINE moved == [c EXCEPT !.next = @ + 1]
<1>1. IsContinuation(moved) /\ moved.output = c.output
  BY DEF IsContinuation
<1> HIDE DEF moved
<1>2. /\ IsTarget(Within(moved, target)) /\ Within(moved, target).to = target.to
      /\ Len(Within(moved, target).natives) = Len(target.natives) + 1
      /\ Outputs(Within(moved, target).natives) =
            Len(moved.output) + Outputs(target.natives)
  BY <1>1, WithinIsTarget
<1>3. /\ Len(target.natives) \in Nat /\ Outputs(target.natives) \in Nat
      /\ Len(c.output) \in Nat
  BY TargetSums, IsSeqLen DEF IsContinuation
<1> DEFINE asked == cost + IF c.native = "dict.fold" THEN 1 ELSE 0
           ended == cost + IF c.native = "array.fold_control" THEN 2 ELSE 0
<1>4. asked \in Nat /\ asked >= cost /\ ended \in Nat /\ ended >= cost
  OBVIOUS
<1>5. CASE c.next < Len(c.source)
  <2>1. NextItem(c, target, cost) =
          Pay(asked, Call(c.callback, CallbackArguments(c), Within(moved, target)))
    BY <1>5 DEF NextItem, moved
  <2>2. /\ NextItem(c, target, cost).cost = asked
        /\ NextItem(c, target, cost).next.kind = "call"
        /\ NextItem(c, target, cost).next.target = Within(moved, target)
    BY <2>1 DEF Pay, Call
  <2> HIDE DEF asked
  <2>3. Len(moved.output) + Outputs(target.natives) <= collected + asked
    BY <1>1, <1>3, <1>4
  <2>4. Len(target.natives) + 1 <= depth
    OBVIOUS
  <2> QED BY ONLY <1>2, <1>4, <2>2, <2>3, <2>4 DEF Answers
<1>6. CASE ~(c.next < Len(c.source))
  <2>1. NextItem(c, target, cost) = Pay(ended, Return(Finished(c), target))
    BY <1>6 DEF NextItem
  <2>2. /\ NextItem(c, target, cost).cost = ended
        /\ NextItem(c, target, cost).next.kind = "return"
        /\ NextItem(c, target, cost).next.target = target
    BY <2>1 DEF Pay, Return
  <2> HIDE DEF ended
  <2>3. /\ Len(target.natives) <= depth
        /\ Outputs(target.natives) <= collected + ended
    BY <1>3, <1>4
  <2>4. IsTarget(target)
    OBVIOUS
  <2> QED BY ONLY <1>4, <2>2, <2>3, <2>4 DEF Answers
<1> QED BY <1>5, <1>6

LEMMA CollectedMore ==
    ASSUME NEW c, IsContinuation(c), NEW output, IsSeq(output)
    PROVE  /\ IsContinuation([c EXCEPT !.output = output])
           /\ [c EXCEPT !.output = output].output = output
BY DEF IsContinuation

LEMMA KeepAnswers ==
    ASSUME NEW c, IsContinuation(c), NEW target, IsTarget(target), NEW item,
           NEW depth \in Nat, NEW collected \in Nat,
           Len(target.natives) + 1 <= depth,
           Len(c.output) + Outputs(target.natives) <= collected
    PROVE  Answers(Keep(c, item, target), target, depth, collected)
<1> DEFINE kept == [c EXCEPT !.output = Append(@, item)]
           cost == IF c.native \in DictNatives THEN 2 ELSE 1
<1>1. IsSeq(Append(c.output, item)) /\ Len(Append(c.output, item)) = Len(c.output) + 1
  BY AppendIsSeq DEF IsContinuation
<1>2. IsContinuation(kept) /\ kept.output = Append(c.output, item)
  BY <1>1, CollectedMore, Zenon
<1>3. Keep(c, item, target) = NextItem(kept, target, cost)
  BY DEF Keep
<1> HIDE DEF kept
<1>4. cost \in Nat /\ cost >= 1
  OBVIOUS
<1> HIDE DEF cost
<1>5. Len(kept.output) + Outputs(target.natives) <= collected + cost
  <2>1. Outputs(target.natives) \in Nat /\ Len(c.output) \in Nat
    BY TargetSums, IsSeqLen DEF IsContinuation
  <2>2. Len(kept.output) = Len(c.output) + 1
    BY <1>1, <1>2
  <2> QED BY <1>4, <2>1, <2>2
<1> QED BY <1>2, <1>3, <1>4, <1>5, NextItemAnswers

LEMMA AtOnceAnswers ==
    ASSUME NEW value, NEW target, IsTarget(target),
           NEW depth \in Nat, NEW collected \in Nat,
           Len(target.natives) <= depth, Outputs(target.natives) <= collected
    PROVE  /\ \A cost \in Nat :
                Answers(Pay(cost, Return(value, target)), target, depth, collected)
           /\ Answers(Free(Return(value, target)), target, depth, collected)
           /\ Answers(TypeMismatch, target, depth, collected)
<1>1. Outputs(target.natives) \in Nat
  BY TargetSums
<1>2. \A cost \in Nat :
        Answers(Pay(cost, Return(value, target)), target, depth, collected)
  <2> TAKE cost \in Nat
  <2>1. Outputs(target.natives) <= collected + cost
    BY <1>1
  <2> QED BY <2>1 DEF Answers, Pay, Return
<1>3. Answers(Free(Return(value, target)), target, depth, collected)
  BY <1>2 DEF Free
<1>4. Answers(TypeMismatch, target, depth, collected)
  BY DEF Answers, TypeMismatch, Free, Pay, Raise
<1> QED BY <1>2, <1>3, <1>4

LEMMA SumsKeepOrder ==
    \A a, b, c, d \in Nat : a + b <= c => (a + d) + b <= c + d
OBVIOUS

\* resume_array_continuation, resume_dict_continuation: c has been taken off
\* the natives that wait.
LEMMA ResumeAnswers ==
    ASSUME NEW c, IsContinuation(c), NEW value, NEW target, IsTarget(target),
           NEW depth \in Nat, NEW collected \in Nat,
           Len(target.natives) + 1 <= depth,
           Len(c.output) + Outputs(target.natives) <= collected
    PROVE  Answers(Resume(c, value, target), target, depth, collected)
<1> DEFINE onward == [c EXCEPT !.output = @ \o value.items]
           folded == [c EXCEPT !.accumulator = value]
           goesOn == [c EXCEPT !.accumulator = value.payload]
           Good(answer) == Answers(answer, target, depth, collected)
<1>1. /\ IsContinuation(folded) /\ folded.output = c.output
      /\ IsContinuation(goesOn) /\ goesOn.output = c.output
  BY DEF IsContinuation
<1>2. /\ Len(c.output) \in Nat /\ Outputs(target.natives) \in Nat
      /\ Len(target.natives) \in Nat /\ IsSeq(c.output)
  BY TargetSums, IsSeqLen DEF IsContinuation
<1>3. ASSUME IsArray(value)
      PROVE  Good(NextItem(onward, target, Len(value.items)))
  <2>1. IsSeq(value.items) /\ Len(value.items) \in Nat
    BY <1>3, IsSeqLen DEF IsArray
  <2>2. /\ IsSeq(c.output \o value.items)
        /\ Len(c.output \o value.items) = Len(c.output) + Len(value.items)
    BY <1>2, <2>1, ConcatIsSeq, Zenon
  <2>3. IsContinuation(onward) /\ onward.output = c.output \o value.items
    BY <2>2, CollectedMore, Zenon
  <2> HIDE DEF onward
  <2>4. Len(onward.output) + Outputs(target.natives) <= collected + Len(value.items)
    <3>1. Len(onward.output) = Len(c.output) + Len(value.items)
      BY <2>2, <2>3, Zenon
    <3>2. (Len(c.output) + Len(value.items)) + Outputs(target.natives)
             <= collected + Len(value.items)
      BY <1>2, <2>1, SumsKeepOrder
    <3> QED BY <3>1, <3>2, Zenon
  <2> QED BY <2>1, <2>3, <2>4, NextItemAnswers
<1> HIDE DEF folded, goesOn
<1>4. Good(NextItem(c, target, 0)) /\ Good(NextItem(folded, target, 0))
      /\ Good(NextItem(goesOn, target, 0))
  <2>1. 0 \in Nat /\ Len(c.output) + Outputs(target.natives) <= collected + 0
    BY <1>2
  <2> QED BY <1>1, <2>1, NextItemAnswers
<1>5. \A item : Good(Keep(c, item, target))
  BY KeepAnswers
<1>6. /\ Good(TypeMismatch)
      /\ \A v : Good(Free(Return(v, target))) /\ Good(Pay(2, Return(v, target)))
  <2>1. Len(target.natives) <= depth /\ Outputs(target.natives) <= collected /\ 2 \in Nat
    BY <1>2
  <2> QED BY <2>1, AtOnceAnswers
<1> HIDE DEF onward, Good
<1>7. c.native \in Suspending
  BY DEF IsContinuation
<1>8. CASE c.native \in {"array.map", "dict.map_values"}
  <2>1. Good(Resume(c, value, target))
    BY <1>5, <1>8 DEF Resume
  <2> QED BY <2>1 DEF Good
<1>9. CASE c.native \in {"array.filter", "dict.filter"}
  <2>1. Good(Resume(c, value, target))
    BY <1>4, <1>5, <1>6, <1>9 DEF Resume
  <2> QED BY <2>1 DEF Good
<1>10. CASE c.native = "array.flat_map"
  <2>1. Resume(c, value, target) =
          IF ~IsArray(value) THEN TypeMismatch
          ELSE NextItem(onward, target, Len(value.items))
    BY <1>10 DEF Resume, onward
  <2>2. Good(Resume(c, value, target))
    BY <1>3, <1>6, <2>1
  <2> QED BY <2>2 DEF Good
<1>11. CASE c.native \in {"array.fold", "dict.fold"}
  <2>1. Good(Resume(c, value, target))
    BY <1>4, <1>11 DEF Resume, folded
  <2> QED BY <2>1 DEF Good
<1>12. CASE c.native = "array.fold_control"
  <2> DEFINE control == IF value.kind = "tagged" THEN value.tag ELSE Atom("None")
  <2>1. Resume(c, value, target) =
          IF control = Atom("Continue") THEN NextItem(goesOn, target, 0)
          ELSE IF control = Atom("Break") THEN Free(Return(value, target))
          ELSE TypeMismatch
    BY <1>12 DEF Resume, goesOn
  <2> HIDE DEF control
  <2>2. Good(Resume(c, value, target))
    BY <1>4, <1>6, <2>1
  <2> QED BY <2>2 DEF Good
<1>13. CASE c.native \in Predicates
  <2>1. Good(Resume(c, value, target))
    BY <1>4, <1>6, <1>13 DEF Resume, Predicates
  <2> QED BY <2>1 DEF Good
<1> QED BY <1>7, <1>8, <1>9, <1>10, <1>11, <1>12, <1>13 DEF Suspending

\* start_array_continuation, start_dict_continuation: a native more waits, and
\* has collected nothing.
LEMMA SuspendAnswers ==
    ASSUME NEW native \in Suspending, NEW arguments, NEW target, IsTarget(target),
           NEW depth \in Nat, NEW collected \in Nat,
           Len(target.natives) + 1 <= depth,
           Outputs(target.natives) <= collected
    PROVE  Answers(Suspend(native, arguments, target), target, depth, collected)
<1> DEFINE c == [native |-> native,
                 source |-> IF native \in DictNatives THEN arguments[1].entries
                                                      ELSE arguments[1].items,
                 callback |-> arguments[Len(arguments)],
                 next |-> 0,
                 accumulator |-> IF native \in Folding THEN arguments[2] ELSE Unset,
                 output |-> <<>>]
<1>1. IsContinuation(c) /\ c.output = <<>>
  BY EmptyIsSeq DEF IsContinuation
<1>2. Suspend(native, arguments, target) \in {TypeMismatch, NextItem(c, target, 0)}
  BY DEF Suspend
<1> HIDE DEF c
<1>3. Len(target.natives) \in Nat /\ Outputs(target.natives) \in Nat
  BY TargetSums
<1>4. Len(target.natives) <= depth /\ 0 \in Nat
  BY <1>3
<1>5. Len(c.output) + Outputs(target.natives) <= collected + 0
  BY <1>1, <1>3, EmptyIsSeq
<1>6. Answers(NextItem(c, target, 0), target, depth, collected)
  BY <1>1, <1>4, <1>5, NextItemAnswers
<1>7. Answers(TypeMismatch, target, depth, collected)
  BY <1>4, AtOnceAnswers
<1> QED BY <1>2, <1>6, <1>7

\* What array.concat joins is a sequence.
LEMMA JoinedIsSeq ==
    ASSUME NEW seqs, IsSeq(seqs), \A i \in 1..Len(seqs) : IsSeq(seqs[i])
    PROVE  Len(FlattenSeq(seqs)) \in Nat
<1> DEFINE N == Len(seqs)
           X == UNION {{seqs[i][j] : j \in DOMAIN seqs[i]} : i \in 1..N}
           part == [n \in Nat |-> IF n \in 1..N THEN seqs[n] ELSE <<>>]
           step == [p \in Nat \X Seq(X) |-> p[2] \o part[p[1]]]
           Joins(s) == s = [i \in 1..N |-> IF i = 1 THEN seqs[i]
                                           ELSE s[i - 1] \o seqs[i]]
           joined == CHOOSE s : Joins(s)
<1>1. N \in Nat
  BY IsSeqLen
<1>2. \A i \in 1..N : seqs[i] \in Seq(X)
  <2> TAKE i \in 1..N
  <2>1. seqs[i] \in Seq({seqs[i][j] : j \in DOMAIN seqs[i]})
    BY DEF IsSeq
  <2>2. {seqs[i][j] : j \in DOMAIN seqs[i]} \subseteq X
    OBVIOUS
  <2> HIDE DEF X, N
  <2> QED BY <2>1, <2>2
<1> HIDE DEF N, X
<1>3. part \in [Nat -> Seq(X)]
  BY <1>2
<1> HIDE DEF part
<1>4. step \in [Nat \X Seq(X) -> Seq(X)]
  <2>1. ASSUME NEW p \in Nat \X Seq(X) PROVE p[2] \o part[p[1]] \in Seq(X)
    <3>1. p[2] \in Seq(X) /\ part[p[1]] \in Seq(X)
      BY <1>3
    <3> QED BY <3>1
  <2> QED BY <2>1
<1> HIDE DEF step
<1>5. PICK f : Iterates(f, Seq(X), <<>>, step)
  <2>1. <<>> \in Seq(X)
    OBVIOUS
  <2> QED BY <1>4, <2>1, StepsExist
<1>6. ASSUME NEW n \in 1..N
      PROVE  f[n] = f[n - 1] \o seqs[n] /\ f[n - 1] \in Seq(X)
  <2>1. n \in Nat \ {0} /\ n - 1 \in Nat
    BY <1>1
  <2>2. f[n] = step[<<n, f[n - 1]>>] /\ f[n - 1] \in Seq(X)
    BY <1>5, <2>1 DEF Iterates
  <2>3. <<n, f[n - 1]>> \in Nat \X Seq(X)
    BY <2>1, <2>2
  <2>4. step[<<n, f[n - 1]>>] = f[n - 1] \o part[n]
    BY <2>3 DEF step
  <2>5. part[n] = seqs[n]
    BY <2>1 DEF part
  <2> QED BY <2>2, <2>4, <2>5
<1> DEFINE g == [i \in 1..N |-> f[i]]
<1>7. Joins(g)
  <2>1. ASSUME NEW i \in 1..N
        PROVE  g[i] = IF i = 1 THEN seqs[i] ELSE g[i - 1] \o seqs[i]
    <3>1. CASE i = 1
      <4>1. f[0] = <<>> /\ i - 1 = 0
        BY <1>5, <3>1 DEF Iterates
      <4>2. g[i] = <<>> \o seqs[i]
        BY <1>6, <4>1
      <4> QED BY <1>2, <3>1, <4>2
    <3>2. CASE i # 1
      <4>1. i - 1 \in 1..N
        BY <1>1, <3>2
      <4> QED BY <1>6, <3>2, <4>1
    <3> QED BY <3>1, <3>2
  <2> DEFINE h == [i \in 1..N |-> IF i = 1 THEN seqs[i] ELSE g[i - 1] \o seqs[i]]
  <2>2. \A i \in 1..N : g[i] = h[i]
    BY <2>1
  <2>3. h = [i \in 1..N |-> h[i]] /\ g = [i \in 1..N |-> g[i]]
    OBVIOUS
  <2> HIDE DEF h, g
  <2>4. g = h
    BY <2>2, <2>3
  <2> QED BY <2>4 DEF h
<1>8. Joins(joined)
  <2> HIDE DEF Joins, g
  <2> QED BY <1>7
<1> HIDE DEF joined, g
<1>9. \A i \in 1..N : joined[i] = IF i = 1 THEN seqs[i] ELSE joined[i - 1] \o seqs[i]
  BY <1>8
<1>10. \A i \in 1..N : joined[i] \in Seq(X)
  <2> DEFINE T == {n \in Nat : n \in 1..N => joined[n] \in Seq(X)}
  <2>1. 0 \in T
    OBVIOUS
  <2>2. ASSUME NEW n \in Nat, n \in T PROVE n + 1 \in T
    <3>1. CASE n + 1 \in 1..N
      <4>1. seqs[n + 1] \in Seq(X)
        BY <1>2, <3>1
      <4>2. CASE n = 0
        <5>1. joined[n + 1] = seqs[n + 1]
          BY <1>9, <3>1, <4>2
        <5> QED BY <4>1, <5>1
      <4>3. CASE n # 0
        <5>1. n \in 1..N /\ (n + 1) - 1 = n /\ n + 1 # 1
          BY <1>1, <3>1, <4>3
        <5>2. joined[n + 1] = joined[n] \o seqs[n + 1]
          BY <1>9, <3>1, <5>1
        <5>3. joined[n] \in Seq(X)
          BY <2>2, <5>1
        <5>4. joined[n] \o seqs[n + 1] \in Seq(X)
          BY ONLY <4>1, <5>3
        <5>5. joined[n + 1] \in Seq(X)
          BY ONLY <5>2, <5>4, Zenon
        <5> QED BY <5>5
      <4> QED BY <4>2, <4>3
    <3>2. CASE n + 1 \notin 1..N
      BY <3>2
    <3> QED BY <3>1, <3>2
  <2> HIDE DEF T
  <2>3. \A n \in Nat : n \in T
    BY <2>1, <2>2, SetInduction
  <2> QED BY <1>1, <2>3 DEF T
<1>11. CASE N = 0
  <2>1. FlattenSeq(seqs) = seqs
    BY <1>11 DEF FlattenSeq, N
  <2> QED BY <1>1, <2>1 DEF N
<1>12. CASE N # 0
  <2>1. FlattenSeq(seqs) = joined[N]
    BY <1>12 DEF FlattenSeq, joined, N
  <2>2. joined[N] \in Seq(X)
    BY <1>1, <1>10, <1>12
  <2>3. Len(joined[N]) \in Nat
    BY ONLY <2>2
  <2> QED BY ONLY <2>1, <2>3, Zenon
<1> QED BY <1>11, <1>12

\* start_array_continuation: the natives that answer at once.
LEMMA ComputeAnswers ==
    ASSUME NEW native \in {"array.length", "array.push", "array.concat", "array.zip"},
           NEW arguments, NEW target, IsTarget(target),
           NEW depth \in Nat, NEW collected \in Nat,
           Len(target.natives) <= depth, Outputs(target.natives) <= collected
    PROVE  Answers(Compute(native, arguments, target), target, depth, collected)
<1> DEFINE Good(answer) == Answers(answer, target, depth, collected)
<1>1. /\ Good(TypeMismatch)
      /\ \A v : Good(Free(Return(v, target)))
      /\ \A v : \A cost \in Nat : Good(Pay(cost, Return(v, target)))
  BY AtOnceAnswers
<1> HIDE DEF Good
<1>2. Good(Compute(native, arguments, target))
  <2>1. CASE ~IsArray(arguments[1])
    BY <1>1, <2>1 DEF Compute
  <2>2. CASE IsArray(arguments[1])
    <3> DEFINE items == arguments[1].items
               lists == [i \in 1..Len(items) |-> items[i].items]
    <3>1. IsSeq(items) /\ Len(items) \in Nat
      BY <2>2, IsSeqLen DEF IsArray
    <3>2. CASE native = "array.length"
      BY <1>1, <2>2, <3>2 DEF Compute
    <3>3. CASE native = "array.push"
      <4>1. Len(items) + 1 \in Nat
        BY <3>1
      <4> QED BY <1>1, <2>2, <3>3, <4>1 DEF Compute
    <3>4. CASE native = "array.concat"
      <4>1. CASE \E i \in 1..Len(items) : ~IsArray(items[i])
        BY <1>1, <2>2, <3>4, <4>1 DEF Compute
      <4>2. CASE \A i \in 1..Len(items) : IsArray(items[i])
        <5>1. \A i \in 1..Len(items) : IsSeq(items[i].items)
          BY <4>2 DEF IsArray
        <5>2. IsSeq(lists) /\ Len(lists) = Len(items)
              /\ \A i \in 1..Len(items) : lists[i] = items[i].items
          <6> DEFINE S == {items[i].items : i \in 1..Len(items)}
          <6>1. lists \in [1..Len(items) -> S]
            OBVIOUS
          <6> HIDE DEF S
          <6>2. lists \in Seq(S) /\ Len(lists) = Len(items)
            BY <3>1, <6>1
          <6>3. IsSeq(lists)
            BY <6>2, SeqIsSeq
          <6> QED BY <6>2, <6>3
        <5> HIDE DEF lists
        <5>3. \A i \in 1..Len(lists) : IsSeq(lists[i])
          BY <5>1, <5>2
        <5>4. Len(FlattenSeq(lists)) \in Nat
          BY <5>2, <5>3, JoinedIsSeq
        <5>5. Compute(native, arguments, target) =
                Pay(Len(FlattenSeq(lists)),
                    Return(Array(FlattenSeq(lists)), target))
          BY <2>2, <3>4, <4>2 DEF Compute, lists
        <5> QED BY <1>1, <5>4, <5>5
      <4> QED BY <4>1, <4>2
    <3>5. CASE native = "array.zip"
      <4>1. 2 + 3 * Len(items) \in Nat
        BY <3>1
      <4> QED BY <1>1, <2>2, <3>5, <4>1 DEF Compute
    <3> QED BY <3>2, <3>3, <3>4, <3>5
  <2> QED BY <2>1, <2>2
<1> QED BY <1>2 DEF Good

----------------------------------------------------------------------------
(* The inductive invariant, and the ways a step keeps it.                  *)

VmInv == TypeOK /\ FramesPartitionStack /\ ReturnsFindTheirCaller

LEMMA QuotaIsNat ==
    ASSUME TypeOK
    PROVE  /\ {quota.fuel, quota.stack_slots} \subseteq Nat
           /\ StackLimit \in Nat
           /\ fuel \in Nat
BY VmAssumption DEF TypeOK, StackLimit

LEMMA ShapesAreSound ==
    ASSUME TypeOK, NEW i \in 1..Len(frames)
    PROVE  IsFrame(frames[i]) /\ FunctionShape(code[frames[i].function])
           /\ RegistersOf(i) \in Nat
BY DEF TypeOK, IsFrame, RegistersOf, FunctionShape

\* A step that leaves every window where it is.
LEMMA SameWindows ==
    ASSUME VmInv,
           UNCHANGED <<code, quota>>,
           IsSeq(stack'), Len(stack') = Len(stack),
           IsSeq(frames'), Len(frames') = Len(frames),
           \A i \in 1..Len(frames) :
              /\ IsFrame(frames'[i])
              /\ frames'[i].function = frames[i].function
              /\ frames'[i].base = frames[i].base
              /\ frames'[i].target = frames[i].target,
           fuel' \in 0..quota.fuel,
           {reported', cancelled'} \subseteq BOOLEAN,
           action'.kind \in {"idle", "call", "return"},
           action'.kind # "idle" =>
              IsTarget(action'.target) /\ Lands(action'.target, Len(frames)),
           Executing' => frames # <<>>
    PROVE  VmInv'
<1>1. TypeOK'
  BY DEF VmInv, TypeOK, IsFrame, IsTarget, IsContinuation
<1>2. /\ Len(frames) \in Nat /\ (Len(frames) = 0 <=> frames = <<>>)
      /\ Len(frames) = 0 <=> frames' = <<>>
      /\ Len(stack) \in Nat /\ (Len(stack) = 0 <=> stack = <<>>)
      /\ Len(stack) = 0 <=> stack' = <<>>
  BY IsSeqLen DEF VmInv, TypeOK
<1>3. \A i \in 1..Len(frames) : RegistersOf(i)' = RegistersOf(i)
  BY DEF RegistersOf
<1>4. StackLimit' = StackLimit
  BY DEF StackLimit
<1>5. FramesPartitionStack'
  <2>1. frames' # <<>> => frames'[1].base = 0
    BY <1>2 DEF VmInv, FramesPartitionStack
  <2>2. \A i \in 1..Len(frames) :
          frames'[i].base + RegistersOf(i)' =
             IF i = Len(frames) THEN Len(stack) ELSE frames'[i + 1].base
    <3> TAKE i \in 1..Len(frames)
    <3>1. /\ frames'[i].base = frames[i].base
          /\ RegistersOf(i)' = RegistersOf(i)
      BY <1>3, Zenon
    <3>2. CASE i = Len(frames)
      BY <3>1, <3>2 DEF VmInv, FramesPartitionStack
    <3>3. CASE i # Len(frames)
      <4>1. i + 1 \in 1..Len(frames)
        BY <1>2, <3>3
      <4>2. frames'[i + 1].base = frames[i + 1].base
        BY <4>1, Zenon
      <4>3. frames[i].base + RegistersOf(i) = frames[i + 1].base
        BY <3>3 DEF VmInv, FramesPartitionStack
      <4> QED BY ONLY <3>1, <3>3, <4>2, <4>3
    <3> QED BY <3>2, <3>3
  <2> QED BY <1>2, <1>4, <2>1, <2>2 DEF VmInv, FramesPartitionStack
<1>6. ReturnsFindTheirCaller'
  BY <1>2, <1>3 DEF VmInv, ReturnsFindTheirCaller, Lands
<1> QED BY <1>1, <1>5, <1>6 DEF VmInv

\* An error drops every frame, and with them the stack.
LEMMA FailKeeps ==
    ASSUME VmInv, NEW error, NEW burnt \in {0, 1}, burnt <= fuel,
           FailAfter(error, burnt)
    PROVE  VmInv'
<1>1. fuel' \in 0..quota.fuel
  BY QuotaIsNat DEF VmInv, TypeOK, FailAfter
<1>2. IsSeq(stack') /\ IsSeq(frames') /\ Len(frames') = 0 /\ Len(stack') = 0
  BY EmptyIsSeq DEF FailAfter
<1>3. TypeOK'
  BY <1>1, <1>2 DEF VmInv, TypeOK, FailAfter, Idle, FunctionShape
<1>4. StackLimit' \in Nat
  BY QuotaIsNat DEF VmInv, FailAfter, StackLimit
<1>5. FramesPartitionStack'
  BY <1>2, <1>4 DEF FramesPartitionStack, FailAfter
<1>6. ReturnsFindTheirCaller'
  BY <1>2 DEF ReturnsFindTheirCaller, FailAfter, Idle, Executing, Raise, Running
<1> QED BY <1>3, <1>5, <1>6 DEF VmInv

\* Natives answer the action: what waits grows by no more than grows.
Reacts(grows) ==
    /\ outcome = Running /\ action.kind # "idle"
    /\ \E answer : \E burnt \in {0, 1} :
         /\ burnt <= fuel
         /\ Answers(answer, action.target, Len(action.target.natives) + grows,
                    Outputs(action.target.natives))
         /\ React(answer, burnt)

\* What a native answers lands where its target did.
LEMMA ReactKeeps ==
    ASSUME VmInv, NEW grows, Reacts(grows)
    PROVE  VmInv'
<1> DEFINE depth == Len(action.target.natives) + grows
           collected == Outputs(action.target.natives)
<1>0. PICK answer : \E burnt \in {0, 1} :
        /\ burnt <= fuel
        /\ Answers(answer, action.target, depth, collected)
        /\ React(answer, burnt)
  BY DEF Reacts
<1>1. PICK burnt \in {0, 1} :
        /\ burnt <= fuel
        /\ Answers(answer, action.target, depth, collected)
        /\ React(answer, burnt)
  BY <1>0
<1>2. CASE \E error : FailAfter(error, burnt)
  BY <1>1, <1>2, FailKeeps
<1>3. CASE ~\E error : FailAfter(error, burnt)
  <2>1. /\ answer.next.kind # "error"
        /\ fuel' = fuel - burnt
        /\ action' = answer.next
        /\ UNCHANGED <<code, quota, reported, cancelled, frames, stack, outcome>>
    BY <1>1, <1>3 DEF React
  <2>2. fuel' \in 0..quota.fuel
    BY <1>1, <2>1, QuotaIsNat DEF VmInv, TypeOK
  <2>3. Lands(action.target, Len(frames))
    BY DEF Reacts, VmInv, ReturnsFindTheirCaller
  <2>4. /\ action'.kind \in {"call", "return"}
        /\ IsTarget(action'.target) /\ Lands(action'.target, Len(frames))
    BY <1>1, <2>1, <2>3 DEF Answers, Lands
  <2>5. ~Executing'
    BY <2>4 DEF Executing, Idle
  <2> HIDE DEF depth, collected
  <2> QED BY <2>1, <2>2, <2>4, <2>5, SameWindows DEF VmInv, TypeOK
<1> QED BY <1>2, <1>3

\* The frame at the top: its window is the last, and it returns below it.
LEMMA TopFrame ==
    ASSUME VmInv, frames # <<>>
    PROVE  /\ Len(frames) \in Nat \ {0}
           /\ Top = frames[Len(frames)]
           /\ IsFrame(Top) /\ IsTarget(Top.target)
           /\ Top.base \in Nat /\ Top.pc \in Nat
           /\ FunctionShape(Shape)
           /\ Shape.registers \in Nat
           /\ Shape.registers = RegistersOf(Len(frames))
           /\ Top.base + Shape.registers = Len(stack)
           /\ Lands(Top.target, Len(frames) - 1)
<1>1. Len(frames) \in Nat \ {0}
  BY IsSeqLen DEF VmInv, TypeOK
<1>2. Len(frames) \in 1..Len(frames)
  BY <1>1
<1>3. Top = frames[Len(frames)] /\ Shape.registers = RegistersOf(Len(frames))
  BY DEF Top, Shape, RegistersOf
<1>4. /\ IsFrame(Top) /\ FunctionShape(Shape)
      /\ RegistersOf(Len(frames)) \in Nat
  BY <1>2, ShapesAreSound DEF VmInv, Top, Shape
<1>5. IsTarget(Top.target) /\ Top.base \in Nat /\ Top.pc \in Nat
  BY <1>4 DEF IsFrame
<1>6. Top.base + RegistersOf(Len(frames)) = Len(stack)
  BY <1>2 DEF VmInv, FramesPartitionStack, Top
<1>7. Lands(Top.target, Len(frames) - 1)
  BY <1>2 DEF VmInv, ReturnsFindTheirCaller, Top
<1> QED BY <1>1, <1>3, <1>4, <1>5, <1>6, <1>7

\* The frame at the top goes to another instruction.
LEMMA AtKeepsFrames ==
    ASSUME VmInv, frames # <<>>, NEW pc \in Nat
    PROVE  /\ IsSeq(At(pc)) /\ Len(At(pc)) = Len(frames)
           /\ \A i \in 1..Len(frames) :
                /\ IsFrame(At(pc)[i])
                /\ At(pc)[i].function = frames[i].function
                /\ At(pc)[i].base = frames[i].base
                /\ At(pc)[i].target = frames[i].target
<1> DEFINE n == Len(frames)
           below == SubSeq(frames, 1, n - 1)
           moved == [function |-> Top.function, base |-> Top.base, pc |-> pc,
                     target |-> Top.target]
<1>1. IsSeq(frames) /\ n \in Nat \ {0}
  BY IsSeqLen DEF VmInv, TypeOK
<1>2. /\ IsSeq(below) /\ Len(below) = n - 1
      /\ \A i \in 1..(n - 1) : below[i] = frames[i]
  BY <1>1, FrontIsSeq, Zenon
<1> HIDE DEF below
<1>3. /\ IsSeq(Append(below, moved)) /\ Len(Append(below, moved)) = n
      /\ \A i \in 1..(n - 1) : Append(below, moved)[i] = frames[i]
      /\ Append(below, moved)[n] = moved
  BY <1>1, <1>2, AppendIsSeq
<1>4. \A i \in 1..n : IsFrame(frames[i])
  BY DEF VmInv, TypeOK
<1>5. At(pc) = Append(below, moved)
  BY DEF At, below
<1>6. IsFrame(moved)
  BY TopFrame DEF IsFrame
<1>7. moved.function = frames[n].function /\ moved.base = frames[n].base
      /\ moved.target = frames[n].target
  BY DEF Top
<1> HIDE DEF moved
<1> QED BY <1>1, <1>3, <1>4, <1>5, <1>6, <1>7

\* The frame at the top is dropped, and its window cut off.
LEMMA DropKeeps ==
    ASSUME VmInv, frames # <<>>,
           UNCHANGED <<code, account>>,
           IsSeq(frames'), Len(frames') = Len(frames) - 1,
           \A i \in 1..(Len(frames) - 1) : frames'[i] = frames[i],
           IsSeq(stack'), Len(stack') = Top.base,
           action'.kind \in {"call", "return"},
           action'.target = Top.target
    PROVE  VmInv'
<1>1. PICK n : n = Len(frames)
  OBVIOUS
<1>2. /\ n \in Nat \ {0} /\ Len(stack) \in Nat
      /\ \A i \in 1..n : IsFrame(frames[i]) /\ RegistersOf(i) \in Nat
  BY <1>1, IsSeqLen, ShapesAreSound DEF VmInv, TypeOK
<1>3. /\ Top.base \in Nat /\ Top = frames[n] /\ IsTarget(Top.target)
      /\ Lands(Top.target, n - 1)
      /\ Top.base <= Len(stack)
  BY <1>1, <1>2, TopFrame
<1>4. /\ frames' = <<>> <=> n = 1
      /\ stack' = <<>> <=> Top.base = 0
  BY <1>1, <1>2, <1>3, IsSeqLen
<1>5. \A i \in 1..(n - 1) : RegistersOf(i)' = RegistersOf(i)
  BY <1>1, <1>2 DEF RegistersOf, account
<1> DEFINE kept == \A i \in 1..(n - 1) : i \in 1..n /\ frames'[i] = frames[i]
<1>6. Len(frames') = n - 1 /\ kept
  BY <1>1, <1>2
<1>7. TypeOK'
  <2>1. \A i \in 1..(n - 1) : IsFrame(frames'[i])
    BY <1>2, <1>6, Zenon
  <2> QED BY <1>1, <1>2, <1>3, <2>1 DEF VmInv, TypeOK, account, FunctionShape
<1>8. FramesPartitionStack'
  <2>1. n = 1 => Top.base = 0
    BY <1>1, <1>2, <1>3 DEF VmInv, FramesPartitionStack
  <2>2. n > 1 => frames'[1].base = 0
    BY <1>1, <1>2 DEF VmInv, FramesPartitionStack
  <2>3. \A i \in 1..(n - 1) :
          frames'[i].base + RegistersOf(i)' =
             IF i = n - 1 THEN Top.base ELSE frames'[i + 1].base
    <3> TAKE i \in 1..(n - 1)
    <3>1. frames[i].base + RegistersOf(i) = frames[i + 1].base
      BY <1>1, <1>2 DEF VmInv, FramesPartitionStack
    <3>2. RegistersOf(i)' = RegistersOf(i) /\ frames'[i] = frames[i]
      BY <1>5, <1>6
    <3>3. CASE i = n - 1
      BY <1>2, <1>3, <3>1, <3>2, <3>3
    <3>4. CASE i # n - 1
      <4>1. i + 1 \in 1..(n - 1)
        BY <1>2, <3>4
      <4> QED BY <1>6, <3>1, <3>2, <3>4, <4>1
    <3> QED BY <3>3, <3>4
  <2>4. Len(stack') <= StackLimit /\ StackLimit' = StackLimit
    BY <1>1, <1>2, <1>3, QuotaIsNat
       DEF VmInv, FramesPartitionStack, account, StackLimit
  <2>5. Len(stack') = Top.base /\ Len(frames') = n - 1
    BY <1>6
  <2> QED BY ONLY <1>2, <1>4, <2>1, <2>2, <2>3, <2>4, <2>5 DEF FramesPartitionStack
<1>9. ReturnsFindTheirCaller'
  <2>1. \A i \in 1..(n - 1) : Lands(frames[i].target, i - 1)'
    BY <1>1, <1>2, <1>5 DEF VmInv, ReturnsFindTheirCaller, Lands
  <2>2. Lands(action.target, n - 1)'
    BY <1>1, <1>2, <1>3, <1>5 DEF Lands
  <2>3. ~Executing'
    BY DEF Executing, Idle
  <2> QED BY <1>1, <1>2, <2>1, <2>2, <2>3 DEF ReturnsFindTheirCaller, Lands
<1> QED BY <1>7, <1>8, <1>9 DEF VmInv

LEMMA PopKeeps ==
    ASSUME VmInv, frames # <<>>,
           UNCHANGED <<code, account>>,
           frames' = SubSeq(frames, 1, Len(frames) - 1),
           stack' = SubSeq(stack, 1, Top.base),
           action'.kind \in {"call", "return"},
           action'.target = Top.target
    PROVE  VmInv'
<1>1. IsSeq(frames) /\ IsSeq(stack) /\ Len(stack) \in Nat
  BY IsSeqLen DEF VmInv, TypeOK
<1>2. Top.base \in Nat /\ Top.base <= Len(stack)
  BY <1>1, TopFrame
<1>3. IsSeq(stack') /\ Len(stack') = Top.base
  BY <1>1, <1>2, PrefixIsSeq, Zenon
<1>4. /\ IsSeq(frames') /\ Len(frames') = Len(frames) - 1
      /\ \A i \in 1..(Len(frames) - 1) : frames'[i] = frames[i]
  BY <1>1, FrontIsSeq, Zenon
<1> QED BY <1>3, <1>4, DropKeeps, Zenon

\* The frame at the top steps to another instruction, and may write a register.
LEMMA StepKeeps ==
    ASSUME VmInv, Executing, NEW pc \in Nat,
           UNCHANGED <<code, quota, reported, cancelled, action>>,
           fuel' \in 0..quota.fuel,
           IsSeq(stack'), Len(stack') = Len(stack),
           frames' = At(pc)
    PROVE  VmInv'
<1>1. frames # <<>> /\ action.kind = "idle"
  BY DEF VmInv, ReturnsFindTheirCaller, Executing, Idle
<1>2. /\ IsSeq(frames') /\ Len(frames') = Len(frames)
      /\ \A i \in 1..Len(frames) :
           /\ IsFrame(frames'[i])
           /\ frames'[i].function = frames[i].function
           /\ frames'[i].base = frames[i].base
           /\ frames'[i].target = frames[i].target
  BY <1>1, AtKeepsFrames, Zenon
<1>3. {reported', cancelled'} \subseteq BOOLEAN
  BY DEF VmInv, TypeOK
<1>4. UNCHANGED <<code, quota>> /\ action'.kind \in {"idle", "call", "return"}
      /\ ~(action'.kind # "idle")
  BY <1>1
<1> QED BY <1>1, <1>2, <1>3, <1>4, SameWindows, Zenon

LEMMA WriteKeeps ==
    ASSUME VmInv, Executing, NEW register, NEW value, Write(register, value)
    PROVE  VmInv'
<1>1. CASE Fail("InvalidBytecode")
  BY <1>1, FailKeeps, QuotaIsNat DEF Fail, VmInv
<1>2. CASE ~Fail("InvalidBytecode")
  <2>1. /\ stack' = [stack EXCEPT ![Slot(register)] = value]
        /\ frames' = At(Top.pc + 1)
        /\ UNCHANGED <<code, quota, reported, cancelled, action, fuel>>
    BY <1>2 DEF Write, account
  <2>2. IsSeq(stack') /\ Len(stack') = Len(stack)
    BY <2>1, ExceptIsSeq, Zenon DEF VmInv, TypeOK
  <2>3. Top.pc + 1 \in Nat
    BY TopFrame DEF VmInv, ReturnsFindTheirCaller
  <2>4. fuel' \in 0..quota.fuel
    BY <2>1 DEF VmInv, TypeOK
  <2> QED BY <2>1, <2>2, <2>3, <2>4, StepKeeps, Zenon
<1> QED BY <1>1, <1>2

LEMMA FailNowKeeps ==
    ASSUME VmInv, NEW error, Fail(error)
    PROVE  VmInv'
BY FailKeeps, QuotaIsNat DEF Fail, VmInv

----------------------------------------------------------------------------
(* The instructions.                                                       *)

LEMMA MakeClosureKeeps ==
    ASSUME VmInv, MakeClosure
    PROVE  VmInv'
<1>1. CASE \E error : Fail(error)
  BY <1>1, FailNowKeeps
<1>2. CASE ~\E error : Fail(error)
  <2>1. PICK x : stack' = [stack EXCEPT ![Slot(Instruction.dst)] = x]
    BY <1>2 DEF MakeClosure
  <2>2. /\ Executing
        /\ frames' = At(Top.pc + 1)
        /\ UNCHANGED <<code, quota, reported, cancelled, action, fuel>>
    BY <1>2 DEF MakeClosure, Fetched
  <2>3. IsSeq(stack') /\ Len(stack') = Len(stack)
    BY <2>1, ExceptIsSeq, Zenon DEF VmInv, TypeOK
  <2>4. Top.pc + 1 \in Nat
    BY <2>2, TopFrame DEF VmInv, ReturnsFindTheirCaller
  <2>5. fuel' \in 0..quota.fuel
    BY <2>2 DEF VmInv, TypeOK
  <2> QED BY <2>2, <2>3, <2>4, <2>5, StepKeeps, Zenon
<1> QED BY <1>1, <1>2

LEMMA JumpKeeps ==
    ASSUME VmInv, Jump
    PROVE  VmInv'
<1>1. CASE Starve
  BY <1>1, FailNowKeeps DEF Starve
<1>2. CASE ~Starve
  <2> DEFINE burnt == IF Instruction.target <= Top.pc THEN 1 ELSE 0
  <2>1. /\ Executing
        /\ ~(burnt = 1 /\ Starved)
        /\ fuel' = fuel - burnt
        /\ frames' = At(Instruction.target)
        /\ UNCHANGED <<code, quota, reported, cancelled, stack, action>>
        /\ Top.pc < Len(Shape.instructions)
        /\ Instruction.op \in {"Jump", "JumpIfFalse"}
    BY <1>2 DEF Jump, Taken
  <2>2. fuel' \in 0..quota.fuel
    BY <2>1, QuotaIsNat DEF VmInv, TypeOK, Starved
  <2>3. Instruction.target \in Nat
    <3>1. FunctionShape(Shape) /\ Top.pc \in Nat
      BY <2>1, TopFrame DEF VmInv, ReturnsFindTheirCaller
    <3>2. Top.pc + 1 \in 1..Len(Shape.instructions)
      BY <2>1, <3>1, IsSeqLen DEF FunctionShape
    <3> QED BY <2>1, <3>1, <3>2 DEF FunctionShape, Instruction
  <2>4. IsSeq(stack') /\ Len(stack') = Len(stack)
    BY <2>1 DEF VmInv, TypeOK
  <2> HIDE DEF burnt
  <2> QED BY <2>1, <2>2, <2>3, <2>4, StepKeeps, Zenon
<1> QED BY <1>1, <1>2

LEMMA NoJumpKeeps ==
    ASSUME VmInv, NoJump
    PROVE  VmInv'
<1>1. CASE Fail("TypeMismatch")
  BY <1>1, FailNowKeeps
<1>2. CASE ~Fail("TypeMismatch")
  <2>1. /\ Executing
        /\ frames' = At(Top.pc + 1)
        /\ UNCHANGED <<code, quota, reported, cancelled, stack, action, fuel>>
    BY <1>2 DEF NoJump, Fetched, account
  <2>2. Top.pc + 1 \in Nat
    BY <2>1, TopFrame DEF VmInv, ReturnsFindTheirCaller
  <2>3. fuel' \in 0..quota.fuel /\ IsSeq(stack') /\ Len(stack') = Len(stack)
    BY <2>1 DEF VmInv, TypeOK
  <2> QED BY <2>1, <2>2, <2>3, StepKeeps, Zenon
<1> QED BY <1>1, <1>2

\* The result of a call takes the callee's register, which the frame has.
LEMMA MakeCallKeeps ==
    ASSUME VmInv, MakeCall
    PROVE  VmInv'
<1> DEFINE target == ReturnTo(Instruction.base)
<1>1. /\ Executing
      /\ WindowReadable(Instruction.base, Instruction.count)
      /\ action' = Call(Register(Instruction.base),
                        Window(Instruction.base, Instruction.count), target)
      /\ frames' = At(Top.pc + 1)
      /\ UNCHANGED <<code, quota, reported, cancelled, stack, fuel>>
      /\ Top.pc < Len(Shape.instructions) /\ Instruction.op = "Call"
  BY DEF MakeCall, Fetched, account
<1>2. frames # <<>> /\ IsSeq(stack)
  BY <1>1 DEF VmInv, ReturnsFindTheirCaller, TypeOK
<1>3. /\ FunctionShape(Shape) /\ Top.pc \in Nat /\ Top.pc + 1 \in Nat
      /\ Len(frames) \in Nat \ {0}
      /\ Shape.registers = RegistersOf(Len(frames))
  BY <1>2, TopFrame
<1>4. {Instruction.base, Instruction.count} \subseteq Nat
  <2>1. Top.pc + 1 \in 1..Len(Shape.instructions)
    BY <1>1, <1>3, IsSeqLen DEF FunctionShape
  <2> QED BY <1>1, <1>3, <2>1 DEF FunctionShape, Instruction
<1>5. Instruction.base < Shape.registers
  <2>1. 0 \in 0..Instruction.count /\ Instruction.base + 0 = Instruction.base
    BY <1>4
  <2> QED BY <1>1, <2>1 DEF WindowReadable, Readable
<1>6. IsTarget(target)
  BY <1>4, EmptyIsSeq DEF IsTarget, ReturnTo
<1>7. Lands(target, Len(frames))
  BY <1>3, <1>4, <1>5, VmAssumption DEF Lands, ReturnTo
<1>8. action'.kind = "call" /\ action'.target = target
  BY <1>1 DEF Call
<1>9. ~Executing'
  BY <1>8 DEF Executing, Idle
<1>10. /\ IsSeq(frames') /\ Len(frames') = Len(frames)
       /\ \A i \in 1..Len(frames) :
            /\ IsFrame(frames'[i])
            /\ frames'[i].function = frames[i].function
            /\ frames'[i].base = frames[i].base
            /\ frames'[i].target = frames[i].target
  BY <1>1, <1>2, <1>3, AtKeepsFrames, Zenon
<1>11. fuel' \in 0..quota.fuel /\ {reported', cancelled'} \subseteq BOOLEAN
       /\ UNCHANGED <<code, quota>> /\ IsSeq(stack') /\ Len(stack') = Len(stack)
       /\ action'.kind \in {"idle", "call", "return"}
       /\ (action'.kind # "idle" =>
             IsTarget(action'.target) /\ Lands(action'.target, Len(frames)))
  BY <1>1, <1>2, <1>6, <1>7, <1>8 DEF VmInv, TypeOK
<1> QED BY <1>9, <1>10, <1>11, SameWindows, Zenon

LEMMA TailCallKeeps ==
    ASSUME VmInv, TailCall
    PROVE  VmInv'
<1>1. action'.kind = "call" /\ action'.target = Top.target
  BY DEF TailCall, Call
<1> QED BY <1>1, PopKeeps
        DEF TailCall, Fetched, VmInv, ReturnsFindTheirCaller

LEMMA LeaveFunctionKeeps ==
    ASSUME VmInv, LeaveFunction
    PROVE  VmInv'
<1>1. action'.kind = "return" /\ action'.target = Top.target
  BY DEF LeaveFunction, Return
<1> QED BY <1>1, PopKeeps
        DEF LeaveFunction, Fetched, VmInv, ReturnsFindTheirCaller

----------------------------------------------------------------------------
(* drive_vm_action.                                                        *)

LEMMA ReturnToRootKeeps ==
    ASSUME VmInv, ReturnToRoot
    PROVE  VmInv'
<1>1. /\ UNCHANGED <<code, quota, fuel, reported, cancelled, frames, stack>>
      /\ action'.kind = "idle" /\ outcome' # Running
  BY DEF ReturnToRoot, account, Idle, Raise, Done, Running
<1>2. /\ IsSeq(stack') /\ IsSeq(frames')
      /\ \A i \in 1..Len(frames) : IsFrame(frames'[i])
      /\ fuel' \in 0..quota.fuel /\ {reported', cancelled'} \subseteq BOOLEAN
  BY <1>1 DEF VmInv, TypeOK
<1>3. ~Executing'
  BY <1>1 DEF Executing
<1> QED BY <1>1, <1>2, <1>3, SameWindows

LEMMA ReturnToRegisterKeeps ==
    ASSUME VmInv, ReturnToRegister
    PROVE  VmInv'
<1>1. CASE Fail("InvalidBytecode")
  BY <1>1, FailNowKeeps
<1>2. CASE ~Fail("InvalidBytecode")
  <2>1. /\ frames # <<>>
        /\ stack' = [stack EXCEPT ![Slot(action.target.to)] = action.value]
        /\ action'.kind = "idle"
        /\ UNCHANGED <<code, quota, fuel, reported, cancelled, frames>>
    BY <1>2 DEF ReturnToRegister, account, Idle
  <2>2. IsSeq(stack') /\ Len(stack') = Len(stack)
    BY <2>1, ExceptIsSeq, Zenon DEF VmInv, TypeOK
  <2>3. /\ IsSeq(frames')
        /\ \A i \in 1..Len(frames) : IsFrame(frames'[i])
        /\ fuel' \in 0..quota.fuel /\ {reported', cancelled'} \subseteq BOOLEAN
    BY <2>1 DEF VmInv, TypeOK
  <2> QED BY <2>1, <2>2, <2>3, SameWindows
<1> QED BY <1>1, <1>2

\* The target an action has lands where it did when natives wrap or unwrap it.
LEMMA ActionLands ==
    ASSUME VmInv, action.kind # "idle"
    PROVE  IsTarget(action.target) /\ Lands(action.target, Len(frames))
BY DEF VmInv, TypeOK, ReturnsFindTheirCaller

LEMMA ResumeNativeReacts ==
    ASSUME VmInv, ResumeNative
    PROVE  Reacts(0)
<1> DEFINE beyond == Beyond(action.target)
           c == Head(action.target.natives)
           answer == Resume(c, action.value, beyond)
           depth == Len(action.target.natives) + 0
           collected == Outputs(action.target.natives)
<1>1. /\ outcome = Running /\ action.kind # "idle"
      /\ action.target.natives # <<>> /\ React(answer, 0)
  BY DEF ResumeNative, Returning
<1>2. /\ IsTarget(beyond) /\ beyond.to = action.target.to
      /\ IsContinuation(c)
      /\ Len(action.target.natives) = Len(beyond.natives) + 1
      /\ Outputs(action.target.natives) = Len(c.output) + Outputs(beyond.natives)
  BY <1>1, ActionLands, BeyondIsTarget, Zenon
<1>3. /\ depth \in Nat /\ collected \in Nat
      /\ Len(beyond.natives) \in Nat /\ Outputs(beyond.natives) \in Nat
      /\ Len(c.output) \in Nat
  BY <1>1, <1>2, ActionLands, TargetSums, IsSeqLen DEF IsContinuation
<1> HIDE DEF beyond, c
<1>4. /\ Len(beyond.natives) + 1 <= depth
      /\ Len(c.output) + Outputs(beyond.natives) <= collected
  BY <1>2, <1>3
<1> HIDE DEF depth, collected
<1>5. Answers(answer, beyond, depth, collected)
  BY <1>2, <1>3, <1>4, ResumeAnswers
<1> HIDE DEF answer
<1>6. Answers(answer, action.target, depth, collected)
  BY <1>2, <1>5 DEF Answers
<1>7. 0 \in {0, 1} /\ 0 <= fuel
  BY QuotaIsNat DEF VmInv
<1> QED BY <1>1, <1>6, <1>7 DEF Reacts, depth, collected

\* A call that is not starved has fuel to burn.
LEMMA NotStarved ==
    ASSUME VmInv, ~Starved
    PROVE  1 <= fuel /\ 1 \in {0, 1}
BY QuotaIsNat DEF VmInv, Starved

LEMMA RefuseCallKeeps ==
    ASSUME VmInv, RefuseCall
    PROVE  VmInv'
<1>1. CASE Starve
  BY <1>1, FailNowKeeps DEF Starve
<1>2. CASE ~Starved /\ FailAfter("CallDepthExceeded", 1)
  BY <1>2, NotStarved, FailKeeps, Zenon
<1> QED BY <1>1, <1>2 DEF RefuseCall

LEMMA CallMisfitKeeps ==
    ASSUME VmInv, CallMisfit
    PROVE  VmInv'
BY NotStarved, FailKeeps, Zenon DEF CallMisfit, Admitted

\* What a call has, and that there is room for one native more.
LEMMA CallHas ==
    ASSUME VmInv, Admitted
    PROVE  LET t == action.target
           IN  /\ outcome = Running /\ action.kind # "idle"
               /\ IsTarget(t) /\ Lands(t, Len(frames))
               /\ Len(t.natives) \in Nat /\ Outputs(t.natives) \in Nat
               /\ Len(t.natives) + 1 \in Nat
               /\ Len(t.natives) + 1 <= Len(t.natives) + 1
               /\ Len(t.natives) <= Len(t.natives) + 1
               /\ Outputs(t.natives) <= Outputs(t.natives)
               /\ 1 <= fuel /\ 1 \in {0, 1}
<1>1. outcome = Running /\ action.kind # "idle" /\ ~Starved
  BY DEF Admitted, Calling
<1>2. IsTarget(action.target) /\ Lands(action.target, Len(frames))
  BY <1>1, ActionLands
<1>3. Len(action.target.natives) \in Nat /\ Outputs(action.target.natives) \in Nat
  BY <1>2, TargetSums
<1>4. 1 <= fuel /\ 1 \in {0, 1}
  BY <1>1, NotStarved
<1> QED BY <1>1, <1>2, <1>3, <1>4

LEMMA CallTagReacts ==
    ASSUME VmInv, CallTag
    PROVE  Admitted /\ Reacts(1)
<1> DEFINE answer == Pay(2, Return(Tagged(action.callee, action.arguments[1]),
                                   action.target))
<1>1. Admitted /\ React(answer, 1) /\ 2 \in Nat
  BY DEF CallTag
<1>2. Answers(answer, action.target, Len(action.target.natives) + 1,
              Outputs(action.target.natives))
  BY <1>1, CallHas, AtOnceAnswers
<1> HIDE DEF answer
<1> QED BY <1>1, <1>2, CallHas DEF Reacts

LEMMA CallNativeReacts ==
    ASSUME VmInv, CallNative
    PROVE  Admitted /\ Reacts(1)
<1> DEFINE f == action.callee.function
           suspended == Suspend(f, action.arguments, action.target)
           computed == Compute(f, action.arguments, action.target)
           Good(answer) == Answers(answer, action.target,
                                   Len(action.target.natives) + 1,
                                   Outputs(action.target.natives))
<1>1. Admitted
  BY DEF CallNative, Calls
<1>2. CASE f \in Suspending /\ React(suspended, 1)
  <2>1. Good(suspended)
    BY <1>1, <1>2, CallHas, SuspendAnswers
  <2> HIDE DEF suspended
  <2> QED BY <1>1, <1>2, <2>1, CallHas DEF Reacts
<1>3. CASE /\ f \in {"array.length", "array.push", "array.concat", "array.zip"}
           /\ React(computed, 1)
  <2>1. Good(computed)
    BY <1>1, <1>3, CallHas, ComputeAnswers
  <2> HIDE DEF computed
  <2> QED BY <1>1, <1>3, <2>1, CallHas DEF Reacts
<1> QED BY <1>2, <1>3 DEF CallNative, Calls

LEMMA CallHostReacts ==
    ASSUME VmInv, CallHost
    PROVE  Admitted /\ (Reacts(1) \/ \E error : FailAfter(error, 1))
<1> DEFINE answer == Free(Return(action.arguments[1], action.target))
<1>1. Admitted
  BY DEF CallHost, Calls
<1>2. CASE React(answer, 1)
  <2>1. Answers(answer, action.target, Len(action.target.natives) + 1,
                Outputs(action.target.natives))
    BY <1>1, CallHas, AtOnceAnswers
  <2> HIDE DEF answer
  <2> QED BY <1>1, <1>2, <2>1, CallHas DEF Reacts
<1>3. React(answer, 1) \/ \E error : FailAfter(error, 1)
  BY DEF CallHost
<1> QED BY <1>1, <1>2, <1>3

\* The natives' own steps.
LEMMA NativesKeep ==
    ASSUME VmInv, ResumeNative \/ CallTag \/ CallNative \/ CallHost
    PROVE  VmInv'
<1>1. CASE \E grows : Reacts(grows)
  BY <1>1, ReactKeeps
<1>2. CASE Admitted /\ \E error : FailAfter(error, 1)
  BY <1>2, CallHas, FailKeeps
<1> QED BY <1>1, <1>2, ResumeNativeReacts, CallTagReacts, CallNativeReacts,
           CallHostReacts

LEMMA ReportKeeps ==
    ASSUME VmInv, Report
    PROVE  VmInv'
<1>1. /\ Admitted /\ ~Starved /\ action.kind # "idle"
      /\ IsTarget(action.target) /\ Lands(action.target, Len(frames))
  BY ActionLands DEF Report, Calls, Admitted, Calling
<1>2. CASE \E error : FailAfter(error, 1)
  BY <1>1, <1>2, NotStarved, FailKeeps, Zenon
<1>3. CASE ~\E error : FailAfter(error, 1)
  <2>1. /\ reported' = (reported \/ action.arguments[1] = Atom("Error"))
        /\ action' = Return(action.arguments[2], action.target)
        /\ fuel' = fuel - 1
        /\ UNCHANGED <<code, quota, cancelled, frames, stack>>
    BY <1>3 DEF Report
  <2>2. fuel' \in 0..quota.fuel
    BY <1>1, <2>1, NotStarved, QuotaIsNat DEF VmInv, TypeOK
  <2>3. /\ IsSeq(stack') /\ IsSeq(frames')
        /\ \A i \in 1..Len(frames) : IsFrame(frames'[i])
        /\ cancelled' \in BOOLEAN
    BY <2>1 DEF VmInv, TypeOK
  <2>4. reported' \in BOOLEAN
    BY <2>1, Zenon
  <2>5. action'.kind = "return" /\ action'.target = action.target
    BY <2>1 DEF Return
  <2>6. ~Executing'
    BY <2>5 DEF Executing, Idle
  <2>7. {reported', cancelled'} \subseteq BOOLEAN
    BY <2>3, <2>4, Zenon
  <2> QED BY <1>1, <2>1, <2>2, <2>3, <2>5, <2>6, <2>7, SameWindows
<1> QED BY <1>2, <1>3

LEMMA NewWindowIsSeq ==
    ASSUME TypeOK, NEW f \in Functions, NEW arguments, NEW captures
    PROVE  /\ code[f].registers \in Nat
           /\ IsSeq(NewWindow(f, arguments, captures))
           /\ Len(NewWindow(f, arguments, captures)) = code[f].registers
<1> DEFINE n == code[f].registers
           given == arguments \o captures
           item(i) == IF i <= Len(given) THEN given[i] ELSE Unset
           w == [i \in 1..n |-> item(i)]
<1>1. n \in Nat
  BY DEF TypeOK, FunctionShape
<1>2. NewWindow(f, arguments, captures) = w
  BY DEF NewWindow
<1> HIDE DEF n, item
<1> DEFINE S == {item(i) : i \in 1..n}
<1>3. w \in [1..n -> S]
  OBVIOUS
<1> HIDE DEF S
<1>4. w \in Seq(S) /\ Len(w) = n
  BY <1>1, <1>3
<1> HIDE DEF w
<1>5. IsSeq(w)
  BY <1>4, SeqIsSeq
<1> QED BY <1>1, <1>2, <1>4, <1>5 DEF n

\* A frame is pushed where the stack ends, and returns to the frame below.
LEMMA PushKeeps ==
    ASSUME VmInv, NEW f \in Functions, NEW target, NEW window,
           IsTarget(target), Lands(target, Len(frames)),
           IsSeq(window), Len(window) = code[f].registers,
           Len(stack) + code[f].registers <= StackLimit,
           UNCHANGED <<code, quota>>,
           fuel' \in 0..quota.fuel,
           {reported', cancelled'} \subseteq BOOLEAN,
           frames' = Append(frames, Frame(f, Len(stack), target)),
           stack' = stack \o window,
           action' = Idle
    PROVE  VmInv'
<1>1. PICK n : n = Len(frames)
  OBVIOUS
<1>2. PICK top : top = Frame(f, Len(stack), target)
  OBVIOUS
<1>3. /\ IsSeq(frames) /\ n \in Nat /\ IsSeq(stack) /\ Len(stack) \in Nat
      /\ \A i \in 1..n : IsFrame(frames[i]) /\ RegistersOf(i) \in Nat
      /\ code[f].registers \in Nat
      /\ frames = <<>> <=> n = 0
      /\ stack = <<>> <=> Len(stack) = 0
  BY <1>1, IsSeqLen, ShapesAreSound DEF VmInv, TypeOK, FunctionShape
<1>4. IsSeq(stack') /\ Len(stack') = Len(stack) + code[f].registers
  <2>1. IsSeq(stack \o window) /\ Len(stack \o window) = Len(stack) + Len(window)
    BY ONLY <1>3, IsSeq(window), ConcatIsSeq, Zenon
  <2>2. stack' = stack \o window /\ Len(window) = code[f].registers
    OBVIOUS
  <2> QED BY ONLY <2>1, <2>2, Zenon
<1>5. /\ IsSeq(frames') /\ Len(frames') = n + 1
      /\ \A i \in 1..n : frames'[i] = frames[i]
      /\ frames'[n + 1] = top
  <2>1. frames' = Append(frames, top)
    BY <1>2
  <2>2. /\ IsSeq(frames') /\ Len(frames') = Len(frames) + 1
        /\ \A i \in 1..Len(frames) : frames'[i] = frames[i]
        /\ frames'[Len(frames) + 1] = top
    <3>1. IsSeq(frames)
      BY <1>3
    <3>2. /\ IsSeq(Append(frames, top)) /\ Len(Append(frames, top)) = Len(frames) + 1
          /\ \A i \in 1..Len(frames) : Append(frames, top)[i] = frames[i]
          /\ Append(frames, top)[Len(frames) + 1] = top
      BY ONLY <3>1, AppendIsSeq
    <3> QED BY ONLY <2>1, <3>2, Zenon
  <2> QED BY ONLY <1>1, <2>2
<1>6. /\ top.function = f /\ top.base = Len(stack) /\ top.target = target
      /\ IsFrame(top)
  BY <1>2, <1>3 DEF Frame, IsFrame
<1>7. frames' # <<>>
  BY <1>3, <1>5, IsSeqLen
<1>8. /\ \A i \in 1..n : RegistersOf(i)' = RegistersOf(i)
      /\ RegistersOf(n + 1)' = code[f].registers
  BY <1>5, <1>6 DEF RegistersOf
<1>9. VmInv /\ Lands(target, n) /\ StackLimit' = StackLimit
      /\ Len(stack) + code[f].registers <= StackLimit
      /\ UNCHANGED <<code, quota>> /\ fuel' \in 0..quota.fuel
      /\ {reported', cancelled'} \subseteq BOOLEAN /\ action'.kind = "idle"
  BY <1>1 DEF StackLimit, Idle
<1>10. TypeOK'
  <2>1. \A i \in 1..(n + 1) : IsFrame(frames'[i])
    <3> TAKE i \in 1..(n + 1)
    <3>1. CASE i = n + 1
      BY ONLY <3>1, <1>5, <1>6
    <3>2. CASE i # n + 1
      <4>1. i \in 1..n
        BY ONLY <3>2, <1>3, i \in 1..(n + 1)
      <4> QED BY ONLY <4>1, <1>3, <1>5, Zenon
    <3> QED BY ONLY <3>1, <3>2
  <2> QED BY ONLY <1>4, <1>5, <1>9, <2>1 DEF VmInv, TypeOK, FunctionShape
<1>11. FramesPartitionStack'
  <2>1. frames'[1].base = 0
    <3>1. CASE n = 0
      BY ONLY <1>3, <1>5, <1>6, <1>9, <3>1 DEF VmInv, FramesPartitionStack
    <3>2. CASE n # 0
      BY ONLY <1>3, <1>5, <1>9, <3>2 DEF VmInv, FramesPartitionStack
    <3> QED BY ONLY <3>1, <3>2
  <2>2. ASSUME NEW i \in 1..(n + 1)
        PROVE  frames'[i].base + RegistersOf(i)' =
                  IF i = n + 1 THEN Len(stack') ELSE frames'[i + 1].base
    <3>1. CASE i = n + 1
      BY ONLY <1>4, <1>5, <1>6, <1>8, <3>1
    <3>2. CASE i = n /\ i # n + 1
      <4>1. n \in 1..n
        BY ONLY <1>3, <3>2, i \in 1..(n + 1)
      <4>2. frames[n].base + RegistersOf(n) = Len(stack)
        BY ONLY <1>1, <1>9, <4>1 DEF VmInv, FramesPartitionStack
      <4> QED BY ONLY <1>5, <1>6, <1>8, <3>2, <4>1, <4>2
    <3>3. CASE i # n /\ i # n + 1
      <4>1. i \in 1..n /\ i + 1 \in 1..n
        BY ONLY <1>3, <3>3, i \in 1..(n + 1)
      <4>2. frames[i].base + RegistersOf(i) = frames[i + 1].base
        BY ONLY <1>1, <1>9, <3>3, <4>1 DEF VmInv, FramesPartitionStack
      <4> QED BY ONLY <1>5, <1>8, <3>3, <4>1, <4>2
    <3> QED BY ONLY <3>1, <3>2, <3>3
  <2> QED BY ONLY <1>4, <1>5, <1>7, <1>9, <2>1, <2>2 DEF FramesPartitionStack
<1>12. ReturnsFindTheirCaller'
  <2>1. ASSUME NEW i \in 1..(n + 1)
        PROVE  Lands(frames[i].target, i - 1)'
    <3>1. CASE i = n + 1
      <4>1. frames'[i].target = target /\ i - 1 = n
        BY ONLY <1>3, <1>5, <1>6, <3>1
      <4>2. n \in 1..n \/ n = 0
        BY ONLY <1>3
      <4> QED BY ONLY <1>8, <1>9, <4>1, <4>2 DEF Lands
    <3>2. CASE i # n + 1
      <4>1. i \in 1..n /\ (i - 1 \in 1..n \/ i - 1 = 0)
        BY ONLY <1>3, <3>2, i \in 1..(n + 1)
      <4>2. Lands(frames[i].target, i - 1)
        BY ONLY <1>1, <1>9, <4>1 DEF VmInv, ReturnsFindTheirCaller
      <4> QED BY ONLY <1>5, <1>8, <4>1, <4>2 DEF Lands
    <3> QED BY ONLY <3>1, <3>2
  <2> QED BY ONLY <1>5, <1>7, <1>9, <2>1 DEF ReturnsFindTheirCaller
<1> QED BY ONLY <1>10, <1>11, <1>12 DEF VmInv

LEMMA EnterFunctionKeeps ==
    ASSUME VmInv, EnterFunction
    PROVE  VmInv'
<1> DEFINE f == action.callee.function
           upvalues == action.callee.upvalues
           error == EntryError(f, action.arguments, upvalues, Len(stack))
           window == NewWindow(f, action.arguments, upvalues)
<1>1. /\ f \in Functions /\ ~Starved /\ action.kind # "idle"
      /\ IsTarget(action.target) /\ Lands(action.target, Len(frames))
  BY ActionLands DEF EnterFunction, Calls, Admitted, Calling
<1>2. CASE FailAfter(error, 1)
  BY <1>1, <1>2, NotStarved, FailKeeps, Zenon
<1>3. CASE ~FailAfter(error, 1)
  <2>1. /\ error = "none"
        /\ frames' = Append(frames, Frame(f, Len(stack), action.target))
        /\ stack' = stack \o window
        /\ action' = Idle
        /\ fuel' = fuel - 1
        /\ UNCHANGED <<code, quota, reported, cancelled>>
    BY <1>3 DEF EnterFunction
  <2>2. Len(stack) + code[f].registers <= StackLimit
    <3>1. ~(Len(stack) + code[f].registers > StackLimit)
      BY <2>1 DEF EntryError
    <3>2. Len(stack) \in Nat /\ code[f].registers \in Nat /\ StackLimit \in Nat
      BY <1>1, IsSeqLen, QuotaIsNat, NewWindowIsSeq DEF VmInv, TypeOK
    <3> QED BY <3>1, <3>2
  <2>3. IsSeq(window) /\ Len(window) = code[f].registers
    BY <1>1, NewWindowIsSeq DEF VmInv
  <2>4. fuel' \in 0..quota.fuel
    BY <1>1, <2>1, NotStarved, QuotaIsNat DEF VmInv, TypeOK
  <2>5. {reported', cancelled'} \subseteq BOOLEAN
    BY <2>1 DEF VmInv, TypeOK
  <2>6. UNCHANGED <<code, quota>>
    BY <2>1
  <2> HIDE DEF f, window
  <2> QED BY ONLY <1>1, <2>1, <2>2, <2>3, <2>4, <2>5, <2>6, VmInv, PushKeeps, Zenon
<1> QED BY <1>2, <1>3

----------------------------------------------------------------------------
(* Every state has the invariant.                                          *)

LEMMA InitEstablishes ==
    ASSUME Init
    PROVE  VmInv
<1> DEFINE error == EntryError(Main, <<>>, <<>>, 0)
<1>1. /\ DOMAIN code = Functions /\ \A f \in Functions : FunctionShape(code[f])
      /\ quota \in Quotas /\ fuel \in 0..quota.fuel
      /\ {reported, cancelled} \subseteq BOOLEAN
      /\ action.kind = "idle" /\ Main \in Functions
  <2>1. code \in Programs /\ quota \in Quotas /\ fuel = quota.fuel
        /\ reported = FALSE /\ cancelled = FALSE /\ action = Idle
    BY DEF Init
  <2>2. quota.fuel \in Nat /\ Main \in Functions
    BY <2>1, VmAssumption
  <2>3. DOMAIN code = Functions /\ \A f \in Functions : FunctionShape(code[f])
    BY <2>1, VmAssumption
  <2>4. fuel \in 0..quota.fuel
    BY <2>1, <2>2
  <2>5. action.kind = "idle"
    BY <2>1 DEF Idle
  <2> QED BY <2>1, <2>2, <2>3, <2>4, <2>5
<1>2. StackLimit \in Nat /\ code[Main].registers \in Nat
  BY <1>1, VmAssumption DEF StackLimit, FunctionShape
<1>3. CASE error # "none"
  <2>1. frames = <<>> /\ stack = <<>> /\ outcome # Running
    BY <1>3 DEF Init, Raise, Running
  <2> QED BY <1>1, <1>2, <2>1, EmptyIsSeq
          DEF VmInv, TypeOK, FramesPartitionStack, ReturnsFindTheirCaller, Executing
<1>4. CASE error = "none"
  <2> DEFINE main == Frame(Main, 0, ReturnTo(Root))
             n == code[Main].registers
  <2>1. frames = <<main>> /\ stack = NewWindow(Main, <<>>, <<>>)
    BY <1>4 DEF Init
  <2>2. IsSeq(stack) /\ Len(stack) = n
    <3> DEFINE w == NewWindow(Main, <<>>, <<>>)
               item(i) == IF i <= Len(<<>> \o <<>>) THEN (<<>> \o <<>>)[i] ELSE Unset
    <3>1. w = [i \in 1..n |-> item(i)]
      BY DEF NewWindow
    <3> HIDE DEF item, w, n
    <3> DEFINE S == {item(i) : i \in 1..n}
    <3>2. w \in [1..n -> S]
      BY <3>1
    <3> HIDE DEF S
    <3>3. w \in Seq(S) /\ Len(w) = n
      BY <1>2, <3>2 DEF n
    <3>4. IsSeq(w)
      BY <3>3, SeqIsSeq
    <3> QED BY <2>1, <3>3, <3>4 DEF w
  <2>3. IsTarget(main.target) /\ main.target.to = Root
    BY EmptyIsSeq DEF IsTarget, ReturnTo, Frame
  <2>4. IsFrame(main) /\ main.base = 0 /\ main.function = Main
    BY <1>1, <2>3 DEF IsFrame, Frame
  <2> HIDE DEF main
  <2>5. IsSeq(frames) /\ Len(frames) = 1 /\ frames # <<>> /\ frames[1] = main
    BY <2>1 DEF IsSeq
  <2>6. n <= StackLimit
    <3>1. ~(0 + code[Main].registers > StackLimit)
      BY <1>4 DEF EntryError
    <3> QED BY <1>2, <3>1
  <2>7. TypeOK
    BY <1>1, <2>2, <2>4, <2>5 DEF TypeOK
  <2>8. FramesPartitionStack
    BY <1>2, <2>2, <2>4, <2>5, <2>6 DEF FramesPartitionStack, RegistersOf
  <2>9. ReturnsFindTheirCaller
    BY <1>1, <2>3, <2>5 DEF ReturnsFindTheirCaller, Lands
  <2> QED BY <2>7, <2>8, <2>9 DEF VmInv
<1> QED BY <1>3, <1>4

LEMMA StepKeepsVmInv ==
    ASSUME VmInv, [Next]_vars
    PROVE  VmInv'
<1>1. CASE LoadConst
  BY <1>1, WriteKeeps DEF LoadConst, Fetched
<1>2. CASE Move
  BY <1>2, WriteKeeps DEF Move, Fetched
<1>3. CASE RefuseInstruction
  BY <1>3, FailNowKeeps DEF RefuseInstruction
<1>4. CASE Cancel
  <2>1. /\ UNCHANGED <<code, quota, fuel, reported, frames, stack, action, outcome>>
        /\ cancelled' = TRUE
    BY <1>4 DEF Cancel
  <2> QED BY <2>1 DEF VmInv, TypeOK, FramesPartitionStack, ReturnsFindTheirCaller,
             RegistersOf, StackLimit, Lands, Executing
<1>5. CASE UNCHANGED vars
  BY <1>5 DEF vars, account, VmInv, TypeOK, FramesPartitionStack,
     ReturnsFindTheirCaller, RegistersOf, StackLimit, Lands, Executing
<1>6. CASE ExecuteInstruction
  BY <1>1, <1>2, <1>3, <1>6, MakeClosureKeeps, JumpKeeps, NoJumpKeeps,
     MakeCallKeeps, TailCallKeeps, LeaveFunctionKeeps DEF ExecuteInstruction
<1>7. CASE DriveAction
  BY <1>7, ReturnToRootKeeps, ReturnToRegisterKeeps, NativesKeep,
     RefuseCallKeeps, CallMisfitKeeps, EnterFunctionKeeps, ReportKeeps
     DEF DriveAction
<1> QED BY <1>4, <1>5, <1>6, <1>7 DEF Next, Ended

LEMMA VmInvariant == Spec => []VmInv
<1>1. Init => VmInv
  BY InitEstablishes
<1>2. VmInv /\ [Next]_vars => VmInv'
  BY StepKeepsVmInv
<1> QED BY <1>1, <1>2, PTL DEF Spec

----------------------------------------------------------------------------
(* The limits: what the frames and the action wait for.                    *)

DepthsOf(fs) == SumOf([i \in DOMAIN fs |-> Len(fs[i].target.natives)])
CollectedBy(fs) == SumOf([i \in DOMAIN fs |-> Outputs(fs[i].target.natives)])

PendingDepth == IF action.kind = "idle" THEN 0 ELSE Len(action.target.natives)
PendingOutputs == IF action.kind = "idle" THEN 0 ELSE Outputs(action.target.natives)

LimitsInv == VmInv /\ requested \in Nat /\ WithinLimits

LEMMA LimitsAre ==
    WithinLimits <=>
       /\ Len(frames) + DepthsOf(frames) + PendingDepth <= MaxCallDepth
       /\ CollectedBy(frames) + PendingOutputs <= requested
       /\ requested <= quota.allocation
BY DEF WithinLimits, DepthBounded, OutputsArePaid, DepthsOf, CollectedBy,
       PendingDepth, PendingOutputs

Framed(fs) == IsSeq(fs) /\ \A i \in 1..Len(fs) : IsFrame(fs[i])

LEMMA FramesWeigh ==
    ASSUME NEW fs, Framed(fs)
    PROVE  LET depths == [i \in DOMAIN fs |-> Len(fs[i].target.natives)]
               collected == [i \in DOMAIN fs |-> Outputs(fs[i].target.natives)]
           IN  /\ depths \in Seq(Nat) /\ Len(depths) = Len(fs)
               /\ collected \in Seq(Nat) /\ Len(collected) = Len(fs)
               /\ DepthsOf(fs) \in Nat /\ CollectedBy(fs) \in Nat
<1> DEFINE depths == [i \in DOMAIN fs |-> Len(fs[i].target.natives)]
           collected == [i \in DOMAIN fs |-> Outputs(fs[i].target.natives)]
<1>1. Len(fs) \in Nat /\ DOMAIN fs = 1..Len(fs)
  BY IsSeqLen DEF Framed
<1>2. \A i \in 1..Len(fs) : /\ Len(fs[i].target.natives) \in Nat
                            /\ Outputs(fs[i].target.natives) \in Nat
  BY TargetSums DEF Framed, IsFrame
<1>3. depths \in [1..Len(fs) -> Nat] /\ collected \in [1..Len(fs) -> Nat]
  BY <1>1, <1>2
<1> HIDE DEF depths, collected
<1>4. /\ depths \in Seq(Nat) /\ Len(depths) = Len(fs)
      /\ collected \in Seq(Nat) /\ Len(collected) = Len(fs)
  BY <1>1, <1>3
<1>5. SumOf(depths) \in Nat /\ SumOf(collected) \in Nat
  BY <1>4, SumIsNat
<1>6. DepthsOf(fs) = SumOf(depths) /\ CollectedBy(fs) = SumOf(collected)
  BY DEF DepthsOf, CollectedBy, depths, collected
<1> QED BY <1>4, <1>5, <1>6 DEF depths, collected

\* No frames, no natives.
LEMMA NothingWeighs == DepthsOf(<<>>) = 0 /\ CollectedBy(<<>>) = 0
<1> DEFINE depths == [i \in DOMAIN <<>> |-> Len(<<>>[i].target.natives)]
           collected == [i \in DOMAIN <<>> |-> Outputs(<<>>[i].target.natives)]
<1>1. Framed(<<>>) /\ Len(<<>>) = 0
  BY EmptyIsSeq DEF Framed
<1>2. /\ depths \in Seq(Nat) /\ Len(depths) = 0
      /\ collected \in Seq(Nat) /\ Len(collected) = 0
  BY <1>1, FramesWeigh, Zenon
<1> HIDE DEF depths, collected
<1>3. SumOf(depths) = 0 /\ SumOf(collected) = 0
  BY <1>2, SumOfNone
<1> QED BY <1>3 DEF DepthsOf, CollectedBy, depths, collected

\* Frames with the same return targets.
LEMMA SameTargetsWeighTheSame ==
    ASSUME NEW fs, NEW gs, IsSeq(fs), IsSeq(gs), Len(gs) = Len(fs),
           \A i \in 1..Len(fs) : gs[i].target = fs[i].target
    PROVE  DepthsOf(gs) = DepthsOf(fs) /\ CollectedBy(gs) = CollectedBy(fs)
<1>1. DOMAIN fs = 1..Len(fs) /\ DOMAIN gs = 1..Len(fs)
  BY IsSeqLen
<1>2. [i \in DOMAIN gs |-> Len(gs[i].target.natives)]
         = [i \in DOMAIN fs |-> Len(fs[i].target.natives)]
  BY <1>1
<1>3. [i \in DOMAIN gs |-> Outputs(gs[i].target.natives)]
         = [i \in DOMAIN fs |-> Outputs(fs[i].target.natives)]
  BY <1>1
<1> QED BY <1>2, <1>3, Zenon DEF DepthsOf, CollectedBy

\* A frame more at the top.
LEMMA OneMoreWeighs ==
    ASSUME NEW fs, NEW gs, Framed(fs), Framed(gs), Len(gs) = Len(fs) + 1,
           \A i \in 1..Len(fs) : gs[i] = fs[i]
    PROVE  LET top == gs[Len(fs) + 1].target.natives
           IN  /\ DepthsOf(gs) = DepthsOf(fs) + Len(top)
               /\ CollectedBy(gs) = CollectedBy(fs) + Outputs(top)
<1> DEFINE n == Len(fs)
           depths == [i \in DOMAIN fs |-> Len(fs[i].target.natives)]
           more == [i \in DOMAIN gs |-> Len(gs[i].target.natives)]
           collected == [i \in DOMAIN fs |-> Outputs(fs[i].target.natives)]
           further == [i \in DOMAIN gs |-> Outputs(gs[i].target.natives)]
<1>1. /\ depths \in Seq(Nat) /\ Len(depths) = n
      /\ collected \in Seq(Nat) /\ Len(collected) = n
  BY FramesWeigh, Zenon
<1>2. /\ more \in Seq(Nat) /\ Len(more) = Len(gs)
      /\ further \in Seq(Nat) /\ Len(further) = Len(gs)
  BY FramesWeigh, Zenon
<1>3. n \in Nat /\ DOMAIN fs = 1..n /\ DOMAIN gs = 1..Len(gs)
  BY IsSeqLen DEF Framed
<1>4. \A i \in 1..n : more[i] = depths[i] /\ further[i] = collected[i]
  <2> TAKE i \in 1..n
  <2>1. i \in 1..Len(gs) /\ gs[i] = fs[i]
    BY <1>3
  <2> QED BY <1>3, <2>1
<1>5. /\ more[n + 1] = Len(gs[n + 1].target.natives)
      /\ further[n + 1] = Outputs(gs[n + 1].target.natives)
  BY <1>3
<1>6. Len(more) = Len(depths) + 1 /\ Len(further) = Len(collected) + 1
  BY <1>1, <1>2
<1> HIDE DEF n, depths, more, collected, further
<1>7. SumOf(more) = SumOf(depths) + more[n + 1]
  BY <1>1, <1>2, <1>4, <1>6, SumOfAppended
<1>8. SumOf(further) = SumOf(collected) + further[n + 1]
  BY <1>1, <1>2, <1>4, <1>6, SumOfAppended
<1> QED BY <1>5, <1>7, <1>8
        DEF DepthsOf, CollectedBy, n, depths, more, collected, further

\* What is known of the numbers in a state of the invariant.
LEMMA LimitsHave ==
    ASSUME LimitsInv
    PROVE  /\ Framed(frames) /\ Len(frames) \in Nat
           /\ DepthsOf(frames) \in Nat /\ CollectedBy(frames) \in Nat
           /\ PendingDepth \in Nat /\ PendingOutputs \in Nat
           /\ requested \in Nat /\ quota.allocation \in Nat /\ MaxCallDepth \in Nat
           /\ Len(frames) + DepthsOf(frames) + PendingDepth <= MaxCallDepth
           /\ CollectedBy(frames) + PendingOutputs <= requested
           /\ requested <= quota.allocation
<1>1. Framed(frames)
  BY DEF LimitsInv, VmInv, TypeOK, Framed
<1>2. Len(frames) \in Nat
  BY <1>1, IsSeqLen DEF Framed
<1>3. DepthsOf(frames) \in Nat /\ CollectedBy(frames) \in Nat
  BY <1>1, FramesWeigh
<1>4. PendingDepth \in Nat /\ PendingOutputs \in Nat
  BY TargetSums DEF LimitsInv, VmInv, TypeOK, PendingDepth, PendingOutputs
<1>5. quota.allocation \in Nat /\ MaxCallDepth \in Nat
  BY VmAssumption DEF LimitsInv, VmInv, TypeOK
<1> QED BY <1>1, <1>2, <1>3, <1>4, <1>5, LimitsAre DEF LimitsInv

\* The invariant of the next state, in its numbers.
LEMMA LimitsFollow ==
    ASSUME VmInv', requested' \in Nat,
           Len(frames') + DepthsOf(frames') + PendingDepth' <= MaxCallDepth,
           CollectedBy(frames') + PendingOutputs' <= requested',
           requested' <= quota'.allocation
    PROVE  LimitsInv'
BY DEF LimitsInv, WithinLimits, DepthBounded, OutputsArePaid, DepthsOf, CollectedBy,
       PendingDepth, PendingOutputs

\* An error frees everything.
LEMMA FailIsWithinLimits ==
    ASSUME LimitsInv, VmInv', NEW error, NEW burnt, FailAfter(error, burnt)
    PROVE  LimitsInv'
<1>1. /\ frames' = <<>> /\ action'.kind = "idle"
      /\ requested' = requested /\ quota' = quota
  BY DEF FailAfter, Idle
<1>2. /\ DepthsOf(frames') = 0 /\ CollectedBy(frames') = 0 /\ Len(frames') = 0
      /\ PendingDepth' = 0 /\ PendingOutputs' = 0
  BY <1>1, NothingWeighs, EmptyIsSeq DEF PendingDepth, PendingOutputs
<1> QED BY <1>1, <1>2, LimitsHave, LimitsFollow

\* The frames keep their return targets, and the action no more than it had.
LEMMA SameFramesWithinLimits ==
    ASSUME LimitsInv, VmInv', UNCHANGED quota,
           Len(frames') = Len(frames),
           \A i \in 1..Len(frames) : frames'[i].target = frames[i].target,
           requested' \in Nat, requested <= requested', requested' <= quota.allocation,
           Len(frames) + DepthsOf(frames) + PendingDepth' <= MaxCallDepth,
           CollectedBy(frames) + PendingOutputs' <= requested'
    PROVE  LimitsInv'
<1>1. IsSeq(frames) /\ IsSeq(frames')
  BY DEF LimitsInv, VmInv, TypeOK
<1>2. DepthsOf(frames') = DepthsOf(frames) /\ CollectedBy(frames') = CollectedBy(frames)
  BY <1>1, SameTargetsWeighTheSame
<1> QED BY <1>2, LimitsFollow

\* An instruction that goes to another, and charges or not.
LEMMA InstructionWithinLimits ==
    ASSUME LimitsInv, VmInv', Executing, NEW pc \in Nat, frames' = At(pc),
           UNCHANGED <<quota, action>>,
           requested' \in Nat, requested <= requested', requested' <= quota.allocation
    PROVE  LimitsInv'
<1>1. frames # <<>> /\ VmInv
  BY DEF LimitsInv, VmInv, ReturnsFindTheirCaller
<1>2. /\ Len(frames') = Len(frames)
      /\ \A i \in 1..Len(frames) : frames'[i].target = frames[i].target
  BY <1>1, AtKeepsFrames
<1>3. PendingDepth' = PendingDepth /\ PendingOutputs' = PendingOutputs
  BY DEF PendingDepth, PendingOutputs
<1>4. /\ Len(frames) + DepthsOf(frames) + PendingDepth' <= MaxCallDepth
      /\ CollectedBy(frames) + PendingOutputs' <= requested'
  <2>1. CollectedBy(frames) + PendingOutputs <= requested
    BY LimitsHave
  <2>2. CollectedBy(frames) \in Nat /\ PendingOutputs \in Nat /\ requested \in Nat
    BY LimitsHave
  <2>3. CollectedBy(frames) + PendingOutputs <= requested'
    BY <2>1, <2>2
  <2> QED BY <1>3, <2>3, LimitsHave
<1> QED BY <1>2, <1>4, SameFramesWithinLimits

\* A native answers: what it keeps is paid for, and what waits has room.
LEMMA ReactIsWithinLimits ==
    ASSUME LimitsInv, VmInv', NEW grows \in {0, 1}, Reacts(grows),
           grows = 1 => Admitted
    PROVE  LimitsInv'
<1> DEFINE depth == Len(action.target.natives) + grows
           collected == Outputs(action.target.natives)
<1>1. PICK answer : \E burnt \in {0, 1} :
        /\ burnt <= fuel
        /\ Answers(answer, action.target, depth, collected)
        /\ React(answer, burnt)
  BY DEF Reacts
<1>2. PICK burnt \in {0, 1} : /\ Answers(answer, action.target, depth, collected)
                              /\ React(answer, burnt)
  BY <1>1
<1>3. CASE \E error : FailAfter(error, burnt)
  BY <1>3, FailIsWithinLimits
<1>4. CASE ~\E error : FailAfter(error, burnt)
  <2>1. /\ ~(requested + answer.cost > quota.allocation)
        /\ requested' = requested + answer.cost
        /\ action' = answer.next /\ answer.next.kind # "error"
        /\ UNCHANGED <<quota, frames>>
    BY <1>2, <1>4 DEF React
  <2>2. action.kind # "idle"
    BY DEF Reacts
  <2>3. PendingDepth = Len(action.target.natives) /\ PendingOutputs = collected
    BY <2>2 DEF PendingDepth, PendingOutputs
  <2>4. /\ answer.cost \in Nat
        /\ answer.next.kind \in {"call", "return"}
        /\ IsTarget(answer.next.target)
        /\ Len(answer.next.target.natives) <= depth
        /\ Outputs(answer.next.target.natives) <= collected + answer.cost
    BY <1>2, <2>1 DEF Answers
  <2>5. /\ PendingDepth' = Len(answer.next.target.natives)
        /\ PendingOutputs' = Outputs(answer.next.target.natives)
    BY <2>1, <2>4 DEF PendingDepth, PendingOutputs
  <2>6. Len(answer.next.target.natives) \in Nat /\ Outputs(answer.next.target.natives) \in Nat
    BY <2>4, TargetSums
  <2>7. PendingDepth' <= PendingDepth + grows /\ PendingDepth' \in Nat
    BY <2>3, <2>4, <2>5, <2>6
  <2>8. PendingOutputs' <= PendingOutputs + answer.cost /\ PendingOutputs' \in Nat
    BY <2>3, <2>4, <2>5, <2>6
  <2>9. Len(frames) + DepthsOf(frames) + PendingDepth + grows <= MaxCallDepth
    <3>1. CASE grows = 0
      BY <3>1, LimitsHave
    <3>2. CASE grows = 1
      <4>1. Len(frames) + DepthsOf(frames) + PendingDepth < MaxCallDepth
        BY <3>2 DEF Admitted, LogicalDepth, NativeDepths, DepthsOf, PendingDepth
      <4> QED BY <3>2, <4>1, LimitsHave
    <3> QED BY <3>1, <3>2
  <2>10. Len(frames) + DepthsOf(frames) + PendingDepth' <= MaxCallDepth
    <3>1. /\ Len(frames) \in Nat /\ DepthsOf(frames) \in Nat /\ PendingDepth \in Nat
          /\ MaxCallDepth \in Nat
      BY LimitsHave
    <3> QED BY <2>7, <2>9, <3>1
  <2>11. CollectedBy(frames) + PendingOutputs' <= requested'
    <3>1. /\ CollectedBy(frames) \in Nat /\ PendingOutputs \in Nat /\ requested \in Nat
          /\ CollectedBy(frames) + PendingOutputs <= requested
      BY LimitsHave
    <3> QED BY <2>1, <2>4, <2>8, <3>1
  <2>12. /\ requested' \in Nat /\ requested <= requested'
         /\ requested' <= quota.allocation
    <3>1. requested \in Nat /\ quota.allocation \in Nat
      BY LimitsHave
    <3> QED BY <2>1, <2>4, <3>1
  <2>13. /\ Len(frames') = Len(frames)
         /\ \A i \in 1..Len(frames) : frames'[i].target = frames[i].target
    BY <2>1
  <2> HIDE DEF depth, collected
  <2> QED BY <2>1, <2>10, <2>11, <2>12, <2>13, SameFramesWithinLimits
<1> QED BY <1>3, <1>4

\* A return or a tail call: what the frame returned to waits with the action.
LEMMA PopIsWithinLimits ==
    ASSUME LimitsInv, VmInv', frames # <<>>, action.kind = "idle",
           UNCHANGED <<quota, requested>>,
           frames' = SubSeq(frames, 1, Len(frames) - 1),
           action'.kind # "idle", action'.target = Top.target
    PROVE  LimitsInv'
<1> DEFINE n == Len(frames)
           top == frames[n].target.natives
<1>1. IsSeq(frames) /\ n \in Nat \ {0} /\ VmInv
  BY IsSeqLen DEF LimitsInv, VmInv, TypeOK
<1>2. /\ Len(frames') = n - 1
      /\ \A i \in 1..(n - 1) : frames'[i] = frames[i]
  BY <1>1, FrontIsSeq, Zenon
<1>3. Framed(frames) /\ Framed(frames')
  BY DEF LimitsInv, VmInv, TypeOK, Framed
<1>4. /\ DepthsOf(frames) = DepthsOf(frames') + Len(top)
      /\ CollectedBy(frames) = CollectedBy(frames') + Outputs(top)
  <2>1. n = Len(frames') + 1 /\ (n - 1) + 1 = n
    BY <1>1, <1>2
  <2>2. \A i \in 1..Len(frames') : frames[i] = frames'[i]
    BY <1>2
  <2>3. /\ DepthsOf(frames) = DepthsOf(frames') + Len(frames[Len(frames') + 1].target.natives)
        /\ CollectedBy(frames)
              = CollectedBy(frames') + Outputs(frames[Len(frames') + 1].target.natives)
    BY <1>3, <2>1, <2>2, OneMoreWeighs
  <2> QED BY <2>1, <2>3
<1>5. /\ PendingDepth' = Len(top) /\ PendingOutputs' = Outputs(top)
      /\ PendingDepth = 0 /\ PendingOutputs = 0
  BY DEF PendingDepth, PendingOutputs, Top
<1>6. Len(top) \in Nat /\ Outputs(top) \in Nat
  BY <1>1, TopFrame, TargetSums DEF Top
<1>7. DepthsOf(frames') \in Nat /\ CollectedBy(frames') \in Nat
  BY <1>3, FramesWeigh
<1> HIDE DEF top, n
<1>8. Len(frames') + DepthsOf(frames') + PendingDepth' <= MaxCallDepth
  <2>1. n + DepthsOf(frames) + 0 <= MaxCallDepth /\ MaxCallDepth \in Nat
    BY <1>5, LimitsHave DEF n
  <2> QED BY <1>1, <1>2, <1>4, <1>5, <1>6, <1>7, <2>1
<1>9. CollectedBy(frames') + PendingOutputs' <= requested'
  <2>1. CollectedBy(frames) + 0 <= requested /\ requested \in Nat
    BY <1>5, LimitsHave
  <2> QED BY <1>4, <1>5, <1>6, <1>7, <2>1
<1>10. requested' \in Nat /\ requested' <= quota'.allocation
  BY LimitsHave
<1> QED BY <1>8, <1>9, <1>10, LimitsFollow

\* A call leaves its frame, and begins another with the action's target.
LEMMA EnterIsWithinLimits ==
    ASSUME LimitsInv, VmInv', EnterFunction
    PROVE  LimitsInv'
<1>1. Admitted
  BY DEF EnterFunction, Calls
<1>2. CASE \E error : FailAfter(error, 1)
  BY <1>2, FailIsWithinLimits
<1>3. CASE ~\E error : FailAfter(error, 1)
  <2>1. PICK f : /\ frames' = Append(frames, Frame(f, Len(stack), action.target))
                 /\ action' = Idle
                 /\ UNCHANGED <<quota, requested>>
    BY <1>3 DEF EnterFunction
  <2> DEFINE top == Frame(f, Len(stack), action.target)
             n == Len(frames)
  <2>2. top.target = action.target
    BY DEF Frame
  <2> HIDE DEF top
  <2>3. IsSeq(frames) /\ n \in Nat
    BY IsSeqLen DEF LimitsInv, VmInv, TypeOK
  <2>4. /\ Len(frames') = n + 1
        /\ \A i \in 1..n : frames'[i] = frames[i]
        /\ frames'[n + 1] = top
    <3>1. frames' = Append(frames, top)
      BY <2>1 DEF top
    <3> QED BY <2>3, <3>1, AppendIsSeq, Zenon
  <2>5. Framed(frames) /\ Framed(frames')
    BY DEF LimitsInv, VmInv, TypeOK, Framed
  <2>6. action.kind # "idle"
    BY <1>1 DEF Admitted, Calling
  <2>7. /\ PendingDepth = Len(action.target.natives)
        /\ PendingOutputs = Outputs(action.target.natives)
        /\ PendingDepth' = 0 /\ PendingOutputs' = 0
    BY <2>1, <2>6 DEF PendingDepth, PendingOutputs, Idle
  <2>8. /\ DepthsOf(frames') = DepthsOf(frames) + PendingDepth
        /\ CollectedBy(frames') = CollectedBy(frames) + PendingOutputs
    <3>1. /\ DepthsOf(frames') = DepthsOf(frames) + Len(frames'[n + 1].target.natives)
          /\ CollectedBy(frames')
                = CollectedBy(frames) + Outputs(frames'[n + 1].target.natives)
      BY <2>4, <2>5, OneMoreWeighs
    <3> QED BY <2>2, <2>4, <2>7, <3>1
  <2>9. n + DepthsOf(frames) + PendingDepth < MaxCallDepth
    BY <1>1 DEF Admitted, LogicalDepth, NativeDepths, DepthsOf, PendingDepth
  <2> HIDE DEF n
  <2>10. Len(frames') + DepthsOf(frames') + PendingDepth' <= MaxCallDepth
    <3>1. DepthsOf(frames) \in Nat /\ PendingDepth \in Nat /\ MaxCallDepth \in Nat
      BY LimitsHave
    <3> QED BY <2>3, <2>4, <2>7, <2>8, <2>9, <3>1
  <2>11. CollectedBy(frames') + PendingOutputs' <= requested'
    <3>1. /\ CollectedBy(frames) \in Nat /\ PendingOutputs \in Nat /\ requested \in Nat
          /\ CollectedBy(frames) + PendingOutputs <= requested
      BY LimitsHave
    <3> QED BY <2>1, <2>7, <2>8, <3>1
  <2>12. requested' \in Nat /\ requested' <= quota'.allocation
    BY <2>1, LimitsHave
  <2> QED BY <2>10, <2>11, <2>12, LimitsFollow
<1> QED BY <1>2, <1>3

\* The steps that touch neither the frames' targets nor what the action waits
\* for.
LEMMA QuietWithinLimits ==
    ASSUME LimitsInv, VmInv', UNCHANGED <<quota, requested, frames>>,
           PendingDepth' <= PendingDepth, PendingOutputs' <= PendingOutputs,
           PendingDepth' \in Nat, PendingOutputs' \in Nat
    PROVE  LimitsInv'
<1>1. /\ Len(frames) + DepthsOf(frames) + PendingDepth' <= MaxCallDepth
      /\ CollectedBy(frames) + PendingOutputs' <= requested'
      /\ requested' \in Nat /\ requested <= requested' /\ requested' <= quota.allocation
  <2>1. /\ Len(frames) \in Nat /\ DepthsOf(frames) \in Nat /\ CollectedBy(frames) \in Nat
        /\ PendingDepth \in Nat /\ PendingOutputs \in Nat /\ MaxCallDepth \in Nat
        /\ requested \in Nat /\ requested <= quota.allocation
        /\ Len(frames) + DepthsOf(frames) + PendingDepth <= MaxCallDepth
        /\ CollectedBy(frames) + PendingOutputs <= requested
    BY LimitsHave
  <2> QED BY <2>1
<1> QED BY <1>1, SameFramesWithinLimits

LEMMA InstructionsWithinLimits ==
    ASSUME LimitsInv, VmInv', ExecuteInstruction
    PROVE  LimitsInv'
<1>1. CASE \E error : FailAfter(error, 0)
  BY <1>1, FailIsWithinLimits
<1>2. CASE TailCall \/ LeaveFunction
  <2>1. /\ Executing /\ UNCHANGED <<quota, requested>>
        /\ frames' = SubSeq(frames, 1, Len(frames) - 1)
        /\ action'.kind # "idle" /\ action'.target = Top.target
    BY <1>2 DEF TailCall, LeaveFunction, Fetched, account, Call, Return
  <2>2. frames # <<>> /\ action.kind = "idle"
    BY <2>1 DEF Executing, Idle, LimitsInv, VmInv, ReturnsFindTheirCaller
  <2> QED BY <2>1, <2>2, PopIsWithinLimits
<1>3. CASE MakeCall
  <2> DEFINE target == ReturnTo(Instruction.base)
  <2>1. /\ Executing /\ frames' = At(Top.pc + 1)
        /\ action'.kind = "call" /\ action'.target = target
        /\ UNCHANGED <<quota, requested>>
    BY <1>3 DEF MakeCall, Fetched, account, Call
  <2>2. frames # <<>> /\ action.kind = "idle" /\ VmInv
    BY <2>1 DEF Executing, Idle, LimitsInv, VmInv, ReturnsFindTheirCaller
  <2>3. Top.pc + 1 \in Nat
    BY <2>2, TopFrame
  <2>4. /\ Len(frames') = Len(frames)
        /\ \A i \in 1..Len(frames) : frames'[i].target = frames[i].target
    BY <2>1, <2>2, <2>3, AtKeepsFrames
  <2>5. Len(target.natives) = 0 /\ Outputs(target.natives) = 0
    <3>1. ReturnTo(Root).natives = target.natives
      BY DEF ReturnTo
    <3> QED BY <3>1, NothingWaits
  <2> HIDE DEF target
  <2>6. PendingDepth' = 0 /\ PendingOutputs' = 0 /\ PendingDepth = 0 /\ PendingOutputs = 0
    BY <2>1, <2>2, <2>5 DEF PendingDepth, PendingOutputs
  <2>7. /\ requested' \in Nat /\ requested <= requested' /\ requested' <= quota.allocation
        /\ Len(frames) + DepthsOf(frames) + PendingDepth' <= MaxCallDepth
        /\ CollectedBy(frames) + PendingOutputs' <= requested'
    BY <2>1, <2>6, LimitsHave
  <2> QED BY <2>1, <2>4, <2>7, SameFramesWithinLimits
<1>4. CASE /\ ~\E error : FailAfter(error, 0)
           /\ LoadConst \/ Move \/ MakeClosure \/ Jump \/ NoJump
  <2>1. Executing
    BY <1>4 DEF LoadConst, Move, MakeClosure, Jump, NoJump, Fetched
  <2>2. frames # <<>> /\ VmInv
    BY <2>1 DEF LimitsInv, VmInv, ReturnsFindTheirCaller
  <2>3. FunctionShape(Shape) /\ Top.pc \in Nat
    BY <2>2, TopFrame
  <2>4. Top.pc < Len(Shape.instructions) =>
          Top.pc + 1 \in 1..Len(Shape.instructions)
    BY <2>3, IsSeqLen DEF FunctionShape
  <2>5. Top.pc + 1 \in Nat
    BY <2>3
  <2>6. requested \in Nat /\ requested <= quota.allocation /\ quota.allocation \in Nat
    BY LimitsHave
  <2>7. \E pc \in Nat : frames' = At(pc)
    <3>1. CASE Jump
      <4>1. /\ frames' = At(Instruction.target)
            /\ Top.pc < Len(Shape.instructions)
            /\ Instruction.op \in {"Jump", "JumpIfFalse"}
        BY <1>4, <3>1 DEF Jump, Taken, Starve, Fail
      <4>2. Instruction.target \in Nat
        BY <2>3, <2>4, <4>1 DEF FunctionShape, Instruction
      <4> QED BY <4>1, <4>2
    <3>2. CASE ~Jump
      <4>1. frames' = At(Top.pc + 1)
        BY <1>4, <3>2 DEF LoadConst, Move, MakeClosure, NoJump, Write, Fail
      <4> QED BY <2>5, <4>1
    <3> QED BY <3>1, <3>2
  <2>8. UNCHANGED <<quota, action>>
    BY <1>4 DEF LoadConst, Move, MakeClosure, Jump, NoJump, Write, Fail, Starve, account
  <2>9. requested' \in Nat /\ requested <= requested' /\ requested' <= quota.allocation
    <3>1. CASE MakeClosure
      <4>1. /\ Top.pc < Len(Shape.instructions) /\ Instruction.op = "MakeClosure"
            /\ requested' = requested + Len(Instruction.captures)
            /\ ~(requested + Len(Instruction.captures) > quota.allocation)
        BY <1>4, <3>1 DEF MakeClosure, Fetched, Fail
      <4>2. IsSeq(Instruction.captures)
        BY <2>3, <2>4, <4>1 DEF FunctionShape, Instruction
      <4>3. Len(Instruction.captures) \in Nat
        BY <4>2, IsSeqLen
      <4> QED BY <2>6, <4>1, <4>3
    <3>2. CASE ~MakeClosure
      <4>1. requested' = requested
        BY <1>4, <3>2 DEF LoadConst, Move, Jump, NoJump, Write, Fail, Starve, account
      <4> QED BY <2>6, <4>1
    <3> QED BY <3>1, <3>2
  <2> QED BY <2>1, <2>7, <2>8, <2>9, InstructionWithinLimits
<1>5. RefuseInstruction => \E error : FailAfter(error, 0)
  BY DEF RefuseInstruction, Fail
<1> QED BY <1>1, <1>2, <1>3, <1>4, <1>5 DEF ExecuteInstruction

LEMMA ActionsWithinLimits ==
    ASSUME LimitsInv, VmInv', DriveAction
    PROVE  LimitsInv'
<1>1. CASE \E error, burnt : FailAfter(error, burnt)
  BY <1>1, FailIsWithinLimits
<1>2. CASE \E grows \in {0, 1} : Reacts(grows) /\ (grows = 1 => Admitted)
  BY <1>2, ReactIsWithinLimits
<1>3. CASE ResumeNative \/ CallTag \/ CallNative \/ CallHost
  <2>1. VmInv /\ 0 \in {0, 1} /\ 1 \in {0, 1} /\ 0 # 1
    BY DEF LimitsInv
  <2> QED BY <1>1, <1>2, <1>3, <2>1, ResumeNativeReacts, CallTagReacts,
             CallNativeReacts, CallHostReacts
<1>4. PendingDepth \in Nat /\ PendingOutputs \in Nat
  BY LimitsHave
<1>5. CASE ReturnToRoot \/ (ReturnToRegister /\ ~\E error, burnt : FailAfter(error, burnt))
  <2>1. UNCHANGED <<quota, requested, frames>> /\ action'.kind = "idle"
    BY <1>5 DEF ReturnToRoot, ReturnToRegister, account, Idle, Fail
  <2>2. PendingDepth' = 0 /\ PendingOutputs' = 0
    BY <2>1 DEF PendingDepth, PendingOutputs
  <2>3. /\ PendingDepth' <= PendingDepth /\ PendingOutputs' <= PendingOutputs
        /\ PendingDepth' \in Nat /\ PendingOutputs' \in Nat
    BY <1>4, <2>2
  <2> QED BY <2>1, <2>3, QuietWithinLimits
<1>6. CASE Report /\ ~\E error, burnt : FailAfter(error, burnt)
  <2>1. /\ UNCHANGED <<quota, requested, frames>> /\ action.kind # "idle"
        /\ action'.kind = "return" /\ action'.target = action.target
    BY <1>6 DEF Report, Calls, Admitted, Calling, Return
  <2>2. PendingDepth' = PendingDepth /\ PendingOutputs' = PendingOutputs
    BY <2>1 DEF PendingDepth, PendingOutputs
  <2>3. /\ PendingDepth' <= PendingDepth /\ PendingOutputs' <= PendingOutputs
        /\ PendingDepth' \in Nat /\ PendingOutputs' \in Nat
    BY <1>4, <2>2
  <2> QED BY <2>1, <2>3, QuietWithinLimits
<1>7. RefuseCall \/ CallMisfit => \E error, burnt : FailAfter(error, burnt)
  BY DEF RefuseCall, CallMisfit, Starve, Fail
<1> QED BY <1>1, <1>3, <1>5, <1>6, <1>7, EnterIsWithinLimits DEF DriveAction

LEMMA StepKeepsLimits ==
    ASSUME LimitsInv, [Next]_vars
    PROVE  LimitsInv'
<1>1. VmInv'
  BY StepKeepsVmInv DEF LimitsInv
<1>2. CASE Cancel \/ UNCHANGED vars
  <2>1. UNCHANGED <<quota, requested, frames, action>>
    BY <1>2 DEF Cancel, vars, account
  <2>2. PendingDepth' = PendingDepth /\ PendingOutputs' = PendingOutputs
    BY <2>1 DEF PendingDepth, PendingOutputs
  <2>3. /\ PendingDepth' <= PendingDepth /\ PendingOutputs' <= PendingOutputs
        /\ PendingDepth' \in Nat /\ PendingOutputs' \in Nat
    BY <2>2, LimitsHave
  <2> QED BY <1>1, <2>1, <2>3, QuietWithinLimits
<1> QED BY <1>1, <1>2, InstructionsWithinLimits, ActionsWithinLimits DEF Next, Ended

\* execute_frame begins with one frame and nothing charged.
LEMMA InitIsWithinLimits ==
    ASSUME Init
    PROVE  LimitsInv
<1>1. VmInv
  BY InitEstablishes
<1>2. /\ requested = 0 /\ action.kind = "idle" /\ quota.allocation \in Nat
      /\ MaxCallDepth \in Nat \ {0}
  BY VmAssumption DEF Init, Idle
<1>3. PendingDepth = 0 /\ PendingOutputs = 0
  BY <1>2 DEF PendingDepth, PendingOutputs
<1>4. /\ Len(frames) \in {0, 1} /\ DepthsOf(frames) = 0 /\ CollectedBy(frames) = 0
  <2>1. CASE frames = <<>>
    BY <2>1, NothingWeighs, EmptyIsSeq
  <2>2. CASE frames # <<>>
    <3> DEFINE main == Frame(Main, 0, ReturnTo(Root))
               depths == [i \in DOMAIN frames |-> Len(frames[i].target.natives)]
    <3>1. frames = <<main>> /\ main.target = ReturnTo(Root)
      BY <2>2 DEF Init, Frame
    <3> HIDE DEF main
    <3>2. Len(frames) = 0 + 1 /\ frames[0 + 1] = main
      BY <3>1
    <3>3. Framed(frames) /\ Framed(<<>>) /\ Len(<<>>) = 0 /\ 1..0 = {}
      BY <1>1, EmptyIsSeq DEF VmInv, TypeOK, Framed
    <3>4. /\ DepthsOf(frames) = DepthsOf(<<>>) + Len(frames[0 + 1].target.natives)
          /\ CollectedBy(frames) = CollectedBy(<<>>) + Outputs(frames[0 + 1].target.natives)
      <4>1. Len(frames) = Len(<<>>) + 1 /\ \A i \in 1..Len(<<>>) : frames[i] = <<>>[i]
        BY <3>2, <3>3
      <4>2. /\ DepthsOf(frames) = DepthsOf(<<>>)
                  + Len(frames[Len(<<>>) + 1].target.natives)
            /\ CollectedBy(frames) = CollectedBy(<<>>)
                  + Outputs(frames[Len(<<>>) + 1].target.natives)
        BY ONLY <3>3, <4>1, OneMoreWeighs, Zenon
      <4> QED BY <3>3, <4>2, Zenon
    <3>5. /\ Len(ReturnTo(Root).natives) = 0 /\ Outputs(ReturnTo(Root).natives) = 0
      BY NothingWaits
    <3> QED BY <3>1, <3>2, <3>4, <3>5, NothingWeighs
  <2> QED BY <2>1, <2>2
<1>5. /\ Len(frames) + DepthsOf(frames) + PendingDepth <= MaxCallDepth
      /\ CollectedBy(frames) + PendingOutputs <= requested
      /\ requested <= quota.allocation /\ requested \in Nat
  <2>1. Len(frames) \in Nat /\ Len(frames) <= 1 /\ 1 <= MaxCallDepth
    <3>1. \A d \in Nat \ {0} : 1 <= d
      OBVIOUS
    <3>2. 1 <= MaxCallDepth
      BY <1>2, <3>1, Zenon
    <3>3. \A n \in {0, 1} : n \in Nat /\ n <= 1
      OBVIOUS
    <3> QED BY <1>4, <3>2, <3>3, Zenon
  <2>2. Len(frames) + DepthsOf(frames) + PendingDepth = Len(frames)
    BY ONLY <1>3, <1>4, <2>1
  <2>3. CollectedBy(frames) + PendingOutputs = 0
    BY ONLY <1>3, <1>4
  <2>4. 0 <= quota.allocation /\ 0 \in Nat
    BY ONLY <1>2
  <2>5. Len(frames) <= MaxCallDepth
    BY ONLY <1>2, <2>1
  <2> QED BY ONLY <1>2, <2>2, <2>3, <2>4, <2>5
<1>6. WithinLimits
  BY <1>5, LimitsAre, Zenon
<1> QED BY <1>1, <1>5, <1>6 DEF LimitsInv

----------------------------------------------------------------------------
(* The theorems.                                                           *)

\* Programs, fuel, frames and actions are well formed in every state of
\* execute_frame, whatever the program; consume_fuel never wraps.
THEOREM VmTypeCorrect == Spec => []TypeOK
<1>1. VmInv => TypeOK
  BY DEF VmInv
<1> QED BY <1>1, VmInvariant, PTL

\* make_execution_frame and the truncations of returns and tail calls keep the
\* windows of the frames disjoint, adjacent and within the stack limit.
THEOREM WindowsNeverOverlap == Spec => []FramesPartitionStack
<1>1. VmInv => FramesPartitionStack
  BY DEF VmInv
<1> QED BY <1>1, VmInvariant, PTL

\* Through calls, tail calls and suspended natives, a ReturnTarget always names
\* a register of the frame that is there when the value arrives.
THEOREM ReturnsAreDelivered == Spec => []ReturnsFindTheirCaller
<1>1. VmInv => ReturnsFindTheirCaller
  BY DEF VmInv
<1> QED BY <1>1, VmInvariant, PTL

\* No limit is passed: frames and waiting natives together never exceed
\* MAX_CALL_DEPTH, what the waiting natives have collected has been charged
\* before it was kept (charge_allocation), and charges stay within the quota.
THEOREM LimitsHold == Spec => []WithinLimits
<1>1. Init => LimitsInv
  BY InitIsWithinLimits
<1>2. LimitsInv /\ [Next]_vars => LimitsInv'
  BY StepKeepsLimits
<1>3. LimitsInv => WithinLimits
  BY DEF LimitsInv
<1> QED BY <1>1, <1>2, <1>3, PTL DEF Spec
=============================================================================
