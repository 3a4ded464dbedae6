------------------------------ MODULE Recursion ------------------------------
(***************************************************************************)
(* Induction over the naturals, and functions defined by recursion on      *)
(* them, stated over sets and functions: the folds and the closures of the *)
(* models are instances.                                                   *)
(***************************************************************************)
EXTENDS Integers, WellFoundedInduction, TLAPS

\* A set with 0 and with the successor of each of its numbers has them all.
LEMMA SetInduction ==
    ASSUME NEW T, 0 \in T, \A n \in Nat : n \in T => n + 1 \in T
    PROVE  \A n \in Nat : n \in T
<1> DEFINE R == OpToRel(<, Nat)
           Out == Nat \ T
<1>1. IsWellFoundedOn(R, Nat)
  BY NatLessThanWellFounded
<1>2. \A x, y \in Nat : x < y => <<x, y>> \in R
  BY DEF OpToRel
<1> HIDE DEF R
<1>3. ASSUME Out # {} PROVE FALSE
  <2>1. PICK x \in Out : \A y \in Out : ~(<<y, x>> \in R)
    BY <1>1, <1>3, WFMin
  <2>2. x # 0 /\ x - 1 \in Nat /\ x - 1 < x
    BY <2>1
  <2>3. x - 1 \in Out
    BY <2>1, <2>2
  <2> QED BY <1>2, <2>1, <2>2, <2>3
<1> QED BY <1>3

\* f is the state after each number of steps, from a first state.
Iterates(f, S, first, step) ==
    /\ f \in [Nat -> S]
    /\ f[0] = first
    /\ \A n \in Nat \ {0} : f[n] = step[<<n, f[n - 1]>>]

\* A step function over a set of states defines, from a first state, the
\* state after each number of steps.
LEMMA StepsExist ==
    ASSUME NEW S, NEW first \in S, NEW step \in [Nat \X S -> S]
    PROVE  \E f : Iterates(f, S, first, step)
<1> DEFINE Follows(g, n) ==
              /\ g \in [0..n -> S]
              /\ g[0] = first
              /\ \A k \in 1..n : g[k] = step[<<k, g[k - 1]>>]
           Reached == {n \in Nat : \E g : Follows(g, n)}
           Same(g, h, m) == {k \in Nat : k <= m => g[k] = h[k]}
<1>1. \A n \in Nat : n \in Reached
  <2>1. 0 \in Reached
    <3> DEFINE g == [k \in 0..0 |-> first]
    <3>1. g \in [0..0 -> S] /\ g[0] = first /\ 1..0 = {}
      OBVIOUS
    <3>2. Follows(g, 0)
      BY <3>1
    <3> QED BY <3>2
  <2>2. ASSUME NEW n \in Nat, n \in Reached PROVE n + 1 \in Reached
    <3>1. PICK g : Follows(g, n)
      BY <2>2
    <3> DEFINE h == [k \in 0..(n + 1) |->
                        IF k = n + 1 THEN step[<<n + 1, g[n]>>] ELSE g[k]]
    <3>2. g[n] \in S /\ step[<<n + 1, g[n]>>] \in S
      <4>1. n \in 0..n
        OBVIOUS
      <4>2. g[n] \in S
        BY <3>1, <4>1
      <4>3. <<n + 1, g[n]>> \in Nat \X S
        BY <4>2
      <4> QED BY <4>2, <4>3
    <3>3. h \in [0..(n + 1) -> S] /\ h[0] = first
      BY <3>1, <3>2
    <3>4. ASSUME NEW k \in 1..(n + 1) PROVE h[k] = step[<<k, h[k - 1]>>]
      <4>1. k \in 0..(n + 1) /\ k - 1 \in 0..(n + 1) /\ k - 1 # n + 1
        OBVIOUS
      <4>2. h[k - 1] = g[k - 1]
        BY <4>1
      <4>3. CASE k = n + 1
        BY <4>1, <4>2, <4>3
      <4>4. CASE k # n + 1
        <5>1. k \in 1..n
          BY <4>4
        <5>2. g[k] = step[<<k, g[k - 1]>>]
          BY <3>1, <5>1
        <5>3. h[k] = g[k]
          BY <4>1, <4>4
        <5> QED BY <4>2, <5>2, <5>3
      <4> QED BY <4>3, <4>4
    <3> HIDE DEF h
    <3>5. Follows(h, n + 1)
      BY <3>3, <3>4
    <3>6. n + 1 \in Nat
      OBVIOUS
    <3> QED BY <3>5, <3>6
  <2> HIDE DEF Reached
  <2> QED BY <2>1, <2>2, SetInduction
<1>2. ASSUME NEW m \in Nat, NEW n \in Nat, NEW g, NEW h, Follows(g, m),
             Follows(h, n), m <= n
      PROVE  g[m] = h[m]
  <2>1. 0 \in Same(g, h, m)
    BY <1>2
  <2>2. ASSUME NEW k \in Nat, k \in Same(g, h, m)
        PROVE  k + 1 \in Same(g, h, m)
    <3>1. CASE k + 1 <= m
      <4>1. k + 1 \in 1..m /\ k + 1 \in 1..n /\ (k + 1) - 1 = k /\ k <= m
        BY <1>2, <3>1
      <4>2. g[k + 1] = step[<<k + 1, g[k]>>]
        BY <1>2, <4>1
      <4>3. h[k + 1] = step[<<k + 1, h[k]>>]
        BY <1>2, <4>1
      <4>4. g[k] = h[k]
        BY <2>2, <4>1
      <4> QED BY <4>2, <4>3, <4>4
    <3>2. CASE ~(k + 1 <= m)
      BY <3>2
    <3> QED BY <3>1, <3>2
  <2>3. m \in Same(g, h, m)
    <3> DEFINE T == Same(g, h, m)
    <3>1. 0 \in T /\ \A k \in Nat : k \in T => k + 1 \in T
      BY <2>1, <2>2
    <3> HIDE DEF T
    <3>2. m \in T
      BY <3>1, SetInduction
    <3> QED BY <3>2 DEF T
  <2> QED BY <2>3
<1> DEFINE solution(n) == CHOOSE g : Follows(g, n)
           f == [n \in Nat |-> solution(n)[n]]
<1>3. \A n \in Nat : Follows(solution(n), n)
  <2> HIDE DEF Follows
  <2> QED BY <1>1
<1> HIDE DEF solution
<1>4. f \in [Nat -> S] /\ f[0] = first
  BY <1>3
<1>5. ASSUME NEW n \in Nat, n # 0
      PROVE  f[n] = step[<<n, f[n - 1]>>]
  <2>1. n - 1 \in Nat /\ n - 1 <= n /\ n \in 1..n
    BY <1>5
  <2>2. solution(n)[n] = step[<<n, solution(n)[n - 1]>>]
    BY <1>3, <2>1
  <2>3. solution(n - 1)[n - 1] = solution(n)[n - 1]
    <3>1. Follows(solution(n - 1), n - 1) /\ Follows(solution(n), n)
      BY <1>3, <2>1
    <3> HIDE DEF Follows
    <3> QED BY <1>2, <2>1, <3>1
  <2> QED BY <2>1, <2>2, <2>3
<1> HIDE DEF f
<1>6. Iterates(f, S, first, step)
  BY <1>4, <1>5 DEF Iterates
<1> QED BY <1>6

\* f is the state after each of the first N steps.
Folds(f, N, S, first, step) ==
    /\ f \in [0..N -> S]
    /\ f[0] = first
    /\ \A n \in 1..N : f[n] = step[<<n, f[n - 1]>>]

\* The same for a number of steps that is known.
LEMMA FoldExists ==
    ASSUME NEW N \in Nat, NEW S, NEW first \in S, NEW step \in [(1..N) \X S -> S]
    PROVE  \E f : Folds(f, N, S, first, step)
<1> DEFINE more == [p \in Nat \X S |-> IF p[1] \in 1..N THEN step[p] ELSE first]
<1>1. more \in [Nat \X S -> S]
  <2>1. ASSUME NEW p \in Nat \X S, p[1] \in 1..N PROVE step[p] \in S
    <3>1. p = <<p[1], p[2]>> /\ p \in (1..N) \X S
      BY <2>1
    <3> QED BY <3>1
  <2> QED BY <2>1
<1>2. ASSUME NEW n \in 1..N, NEW x \in S PROVE more[<<n, x>>] = step[<<n, x>>]
  <2>1. <<n, x>> \in Nat \X S /\ <<n, x>>[1] = n
    OBVIOUS
  <2> QED BY <2>1
<1> HIDE DEF more
<1>3. PICK g : Iterates(g, S, first, more)
  BY <1>1, StepsExist
<1> DEFINE f == [n \in 0..N |-> g[n]]
<1>4. f \in [0..N -> S] /\ f[0] = first
  BY <1>3 DEF Iterates
<1>5. ASSUME NEW n \in 1..N PROVE f[n] = step[<<n, f[n - 1]>>]
  <2>1. n \in Nat \ {0} /\ n - 1 \in Nat /\ n \in 0..N /\ n - 1 \in 0..N
    OBVIOUS
  <2>2. f[n] = more[<<n, f[n - 1]>>]
    BY <1>3, <2>1 DEF Iterates
  <2>3. f[n - 1] \in S
    BY <1>4, <2>1
  <2> QED BY <1>2, <2>2, <2>3
<1> HIDE DEF f
<1>6. Folds(f, N, S, first, step)
  BY <1>4, <1>5 DEF Folds
<1> QED BY <1>6

\* Induction over 0..N.
LEMMA UpTo ==
    ASSUME NEW N \in Nat, NEW T, 0 \in T,
           \A n \in 1..N : n - 1 \in T => n \in T
    PROVE  \A n \in 0..N : n \in T
<1> DEFINE U == {n \in Nat : n <= N => n \in T}
<1>1. 0 \in U
  OBVIOUS
<1>2. ASSUME NEW n \in Nat, n \in U PROVE n + 1 \in U
  <2>1. CASE n + 1 <= N
    <3>1. n + 1 \in 1..N /\ (n + 1) - 1 = n /\ n <= N
      BY <2>1
    <3>2. n \in T
      BY <1>2, <3>1
    <3> QED BY <3>1, <3>2
  <2> QED BY <2>1
<1> HIDE DEF U
<1>3. \A n \in Nat : n \in U
  <2>1. \A n \in Nat : n \in U => n + 1 \in U
    BY <1>2
  <2> QED BY <1>1, <2>1, SetInduction
<1> QED BY <1>3 DEF U

\* A set of naturals that is not empty has a least number.
LEMMA LeastExists ==
    ASSUME NEW T \in SUBSET Nat, T # {}
    PROVE  \E m \in T : \A k \in T : m <= k
<1> DEFINE R == OpToRel(<, Nat)
<1>1. IsWellFoundedOn(R, Nat)
  BY NatLessThanWellFounded
<1>2. \A x, y \in Nat : x < y => <<x, y>> \in R
  BY DEF OpToRel
<1> HIDE DEF R
<1>3. PICK m \in T : \A y \in T : ~(<<y, m>> \in R)
  <2>1. T \subseteq Nat
    OBVIOUS
  <2>2. \E m \in T : \A y \in T : ~(<<y, m>> \in R)
    BY ONLY <1>1, <2>1, T # {}, WFMin
  <2> QED BY <2>2
<1>4. ASSUME NEW k \in T PROVE m <= k
  <2>1. m \in Nat /\ k \in Nat /\ ~(k < m)
    BY <1>2, <1>3
  <2> QED BY ONLY <2>1
<1> QED BY <1>4

----------------------------------------------------------------------------
(* FoldLeft computes over sets of positions, the greatest one last.         *)

Greatest(s) == CHOOSE x \in s : \A y \in s : x >= y

LEMMA GreatestIs ==
    ASSUME NEW N \in Nat, NEW s \in SUBSET (1..N), s # {}
    PROVE  Greatest(s) \in s /\ \A y \in s : y <= Greatest(s)
<1> DEFINE T == {N - x : x \in s}
<1>1. T \in SUBSET Nat /\ T # {}
  OBVIOUS
<1>2. PICK m \in T : \A k \in T : m <= k
  BY <1>1, LeastExists
<1>3. PICK g \in s : m = N - g
  BY <1>2
<1>4. ASSUME NEW y \in s PROVE g >= y
  <2>1. N - y \in T
    OBVIOUS
  <2>2. N - g <= N - y /\ g \in Int /\ y \in Int
    BY <1>2, <1>3, <2>1
  <2> QED BY ONLY <2>2, N \in Nat
<1>5. Greatest(s) \in s /\ \A y \in s : Greatest(s) >= y
  BY <1>3, <1>4 DEF Greatest
<1>6. s \subseteq Int
  OBVIOUS
<1> QED BY ONLY <1>5, <1>6

LEMMA PrefixIs ==
    ASSUME NEW N \in Nat, NEW k \in 1..N
    PROVE  /\ 1..k \in SUBSET (1..N) /\ 1..k # {}
           /\ Greatest(1..k) = k /\ (1..k) \ {Greatest(1..k)} = 1..(k - 1)
<1>1. 1..k \in SUBSET (1..N) /\ k \in 1..k
  OBVIOUS
<1> DEFINE g == Greatest(1..k)
<1>2. g \in 1..k /\ \A y \in 1..k : y <= g
  BY <1>1, GreatestIs
<1> HIDE DEF g
<1>3. g = k
  BY <1>1, <1>2
<1> QED BY <1>1, <1>3 DEF g

\* h is the state after the steps of each set of numbers.
SetFolds(h, N, S, first, step) ==
    /\ h \in [SUBSET (1..N) -> S]
    /\ \A s \in SUBSET (1..N) :
           h[s] = IF s = {} THEN first
                  ELSE step[<<Greatest(s), h[s \ {Greatest(s)}]>>]

LEMMA SetFoldExists ==
    ASSUME NEW N \in Nat, NEW S, NEW first \in S, NEW step \in [(1..N) \X S -> S]
    PROVE  \E h : SetFolds(h, N, S, first, step)
<1> DEFINE D == SUBSET (1..N)
           W == [D -> S]
           start == [s \in D |-> first]
           more(k, h) == [s \in D |-> IF k \in s THEN step[<<k, h[s \ {k}]>>] ELSE h[s]]
           next == [q \in (1..N) \X W |-> more(q[1], q[2])]
<1>1. start \in W
  OBVIOUS
<1>2. ASSUME NEW k \in 1..N, NEW h \in W PROVE more(k, h) \in W
  <2>1. ASSUME NEW s \in D, k \in s PROVE step[<<k, h[s \ {k}]>>] \in S
    <3>1. s \ {k} \in D
      OBVIOUS
    <3>2. h[s \ {k}] \in S
      BY <3>1
    <3> QED BY <3>2
  <2> QED BY <2>1
<1>3. next \in [(1..N) \X W -> W]
  <2> HIDE DEF W, more
  <2> QED BY <1>2
<1>4. \A k \in 1..N, h \in W : next[<<k, h>>] = more(k, h)
  <2> HIDE DEF W, more
  <2> QED OBVIOUS
<1>5. PICK F : Folds(F, N, W, start, next)
  <2> HIDE DEF W, next, start
  <2> QED BY <1>1, <1>3, FoldExists
<1> HIDE DEF next
<1>6. /\ F[0] = start
      /\ \A k \in 0..N : F[k] \in W
      /\ \A k \in 1..N : F[k] = more(k, F[k - 1])
  <2>1. \A k \in 1..N : k - 1 \in 0..N
    OBVIOUS
  <2> HIDE DEF W, more, start
  <2> QED BY <1>4, <1>5, <2>1 DEF Folds
<1>7. ASSUME NEW k \in 1..N, NEW s \in D
      PROVE  /\ k \in s => F[k][s] = step[<<k, F[k - 1][s \ {k}]>>]
             /\ k \notin s => F[k][s] = F[k - 1][s]
  <2>1. F[k] = more(k, F[k - 1])
    BY <1>6
  <2>2. ASSUME NEW g PROVE more(k, g)[s] = IF k \in s THEN step[<<k, g[s \ {k}]>>] ELSE g[s]
    BY <1>7
  <2> HIDE DEF more
  <2> QED BY <2>1, <2>2
<1>8. ASSUME NEW k \in 0..N, NEW s \in D, \A y \in s : y <= k
      PROVE  F[N][s] = F[k][s]
  <2> DEFINE T == {j \in 0..N : j >= k => F[j][s] = F[k][s]}
  <2>1. 0 \in T
    <3>1. 0 >= k => k = 0
      OBVIOUS
    <3> QED BY <3>1
  <2>2. ASSUME NEW j \in 1..N, j - 1 \in T PROVE j \in T
    <3>1. CASE j > k
      <4>1. j \notin s /\ j - 1 >= k
        BY <1>8, <3>1
      <4>2. F[j][s] = F[j - 1][s] /\ F[j - 1][s] = F[k][s]
        BY <1>7, <2>2, <4>1
      <4> QED BY <4>2
    <3>2. CASE ~(j > k)
      <4>1. j >= k => j = k
        BY <3>2
      <4> QED BY <4>1
    <3> QED BY <3>1, <3>2
  <2> HIDE DEF T
  <2>3. \A j \in 0..N : j \in T
    <3>1. \A j \in 1..N : j - 1 \in T => j \in T
      BY <2>2
    <3> QED BY <2>1, <3>1, UpTo
  <2>4. N \in T /\ N >= k
    <3>1. N \in 0..N /\ N >= k
      OBVIOUS
    <3> QED BY <2>3, <3>1
  <2> QED BY <2>4 DEF T
<1> DEFINE h == F[N]
<1>9. h \in W
  <2>1. N \in 0..N
    OBVIOUS
  <2> HIDE DEF W, more
  <2> QED BY <1>6, <2>1
<1>10. ASSUME NEW s \in D
       PROVE  h[s] = IF s = {} THEN first ELSE step[<<Greatest(s), h[s \ {Greatest(s)}]>>]
  <2>1. CASE s = {}
    <3>1. h[s] = F[0][s]
      <4>1. 0 \in 0..N /\ \A y \in s : y <= 0
        BY <2>1
      <4> QED BY <1>8, <4>1
    <3> QED BY <1>6, <2>1, <3>1
  <2>2. CASE s # {}
    <3> DEFINE m == Greatest(s)
    <3>1. m \in s /\ \A y \in s : y <= m
      BY <2>2, GreatestIs
    <3> HIDE DEF m
    <3>2. m \in 1..N /\ m \in 0..N /\ m - 1 \in 0..N /\ s \ {m} \in D
      BY <3>1
    <3>3. h[s] = F[m][s]
      BY <1>8, <3>1, <3>2
    <3>4. F[m][s] = step[<<m, F[m - 1][s \ {m}]>>]
      BY <1>7, <3>1, <3>2
    <3>5. \A y \in s \ {m} : y <= m - 1
      BY <3>1, <3>2
    <3>6. h[s \ {m}] = F[m - 1][s \ {m}]
      BY <1>8, <3>2, <3>5
    <3>7. h[s] = step[<<m, h[s \ {m}]>>]
      BY <3>3, <3>4, <3>6
    <3> QED BY <2>2, <3>7 DEF m
  <2> QED BY <2>1, <2>2
<1> HIDE DEF h
<1> QED BY <1>9, <1>10 DEF SetFolds

=============================================================================
