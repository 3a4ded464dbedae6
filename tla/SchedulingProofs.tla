-------------------------- MODULE SchedulingProofs --------------------------
(***************************************************************************)
(* Theorems about what a host drives of one program, for any number of     *)
(* threads, any plan of units and any program: @main is made once, what is *)
(* blamed for a failure is its own, and failures stop only what needs them.*)
(*                                                                         *)
(* The three parts share no state.  Each has an inductive invariant of its *)
(* own, which holds while that part runs; the others stand still.          *)
(***************************************************************************)
EXTENDS MCScheduling, Recursion, FiniteSetTheorems

----------------------------------------------------------------------------
(* The handle of @main (PendingModule).                                    *)

NotStarted ==
    /\ state = Pending(accepted)
    /\ loads = 0
    /\ \A t \in Threads : doing[t] = Outside /\ answers[t] = {}

\* One thread has taken the modules: it loads them, holds an outcome, or is
\* lost.  All others are outside and were told to wait.
Underway ==
    /\ state = [kind |-> "Initializing"]
    /\ \A t \in Threads : \A a \in answers[t] : a.kind = "Initializing"
    /\ \E t \in Threads :
        /\ \A u \in Threads \ {t} : doing[u] = Outside
        /\ \/ loads = 0 /\ doing[t] = [at |-> "loading", modules |-> accepted]
           \/ loads = 1 /\ doing[t] = [at |-> "panicked"]
           \/ /\ loads = 1
              /\ \E r \in {"Ready", "Failed"} :
                    doing[t] = [at |-> "loaded", modules |-> accepted, load |-> 1,
                                result |-> r]

Ended ==
    /\ state = Ready(accepted, 1) \/ state = [kind |-> "Failed"]
    /\ loads = 1
    /\ \A t \in Threads :
        /\ doing[t] = Outside
        /\ \A a \in answers[t] : a.kind = "Initializing" \/ a = state

HandleInv ==
    /\ DOMAIN doing = Threads /\ DOMAIN answers = Threads
    /\ doing = [t \in Threads |-> doing[t]] /\ answers = [t \in Threads |-> answers[t]]
    /\ NotStarted \/ Underway \/ Ended

LEMMA HandleStarts == Init => HandleInv
BY DEF Init, HandleInv, NotStarted, Pending

\* An injection is accepted before anyone initializes.
LEMMA InjectKeeps ==
    ASSUME HandleInv, NEW t \in Threads, NEW id \in Ids, Inject(t, id)
    PROVE  HandleInv'
<1>1. /\ state.kind = "Pending"
      /\ state' = Pending(state.modules \cup {id}) /\ accepted' = accepted \cup {id}
      /\ UNCHANGED <<doing, answers, loads>>
  BY DEF Inject, InjectOk
<1>2. NotStarted
  BY <1>1 DEF HandleInv, Underway, Ended, Ready
<1>3. state' = Pending(accepted')
  BY <1>1, <1>2 DEF NotStarted, Pending
<1> QED BY <1>1, <1>2, <1>3 DEF HandleInv, NotStarted

\* The first caller takes the modules, all others get the state as it is.
LEMMA InitializeKeeps ==
    ASSUME HandleInv, NEW t \in Threads, Initialize(t)
    PROVE  HandleInv'
<1>1. UNCHANGED <<accepted, loads>> /\ doing[t] = Outside
  BY DEF Initialize
<1>2. CASE Take(t)
  <2>1. NotStarted /\ UNCHANGED answers
    BY <1>2 DEF Take, HandleInv, Underway, Ended, Ready
  <2>2. /\ state' = [kind |-> "Initializing"]
        /\ doing' = [doing EXCEPT ![t] = [at |-> "loading", modules |-> accepted]]
    BY <1>2, <2>1 DEF Take, NotStarted, Pending
  <2>3. Underway'
    BY <1>1, <2>1, <2>2 DEF NotStarted, Underway, HandleInv
  <2> QED BY <2>1, <2>2, <2>3 DEF HandleInv
<1>3. CASE AnswerNow(t)
  <2>1. /\ state.kind # "Pending" /\ UNCHANGED <<state, doing>>
        /\ answers' = [answers EXCEPT ![t] = @ \cup {state}]
    BY <1>3 DEF AnswerNow
  <2>2. \A u \in Threads : answers'[u] \subseteq answers[u] \cup {state}
    BY <2>1 DEF HandleInv
  <2>3. Underway \/ Ended
    BY <2>1 DEF HandleInv, NotStarted, Pending
  <2>4. Underway' \/ Ended'
    BY <1>1, <2>1, <2>2, <2>3 DEF Underway, Ended
  <2> QED BY <2>1, <2>4 DEF HandleInv
<1> QED BY <1>2, <1>3 DEF Initialize

\* The thread that took the modules loads them, once.
LEMMA LoadKeeps ==
    ASSUME HandleInv, NEW t \in Threads, Load(t)
    PROVE  HandleInv'
<1>1. /\ doing[t].at = "loading" /\ loads' = loads + 1
      /\ UNCHANGED <<state, answers, accepted>>
  BY DEF Load
<1>2. /\ Underway
      /\ \A u \in Threads \ {t} : doing[u] = Outside
      /\ loads = 0 /\ doing[t] = [at |-> "loading", modules |-> accepted]
  BY <1>1 DEF HandleInv, NotStarted, Underway, Ended, Outside
<1>3. loads' = 1
  BY <1>1, <1>2
<1> DEFINE after == IF disk = "panics" THEN [at |-> "panicked"]
                    ELSE [at |-> "loaded", modules |-> accepted, load |-> 1,
                          result |-> IF disk = "good" THEN "Ready" ELSE "Failed"]
<1>4. doing' = [doing EXCEPT ![t] = after]
  BY <1>2, <1>3 DEF Load
<1>5. doing'[t] = after /\ \A u \in Threads \ {t} : doing'[u] = Outside
  BY <1>2, <1>4 DEF HandleInv
<1>6. Underway'
  BY <1>1, <1>2, <1>3, <1>5 DEF Underway
<1> QED BY <1>1, <1>4, <1>6 DEF HandleInv

\* It stores the outcome, and the outcome is what everyone gets.
LEMMA StoreKeeps ==
    ASSUME HandleInv, NEW t \in Threads, Store(t)
    PROVE  HandleInv'
<1>1. /\ doing[t].at = "loaded" /\ state' = Stored(doing[t])
      /\ answers' = [answers EXCEPT ![t] = @ \cup {state'}]
      /\ doing' = [doing EXCEPT ![t] = Outside]
      /\ UNCHANGED <<accepted, loads>>
  BY DEF Store
<1>2. /\ Underway
      /\ \A u \in Threads \ {t} : doing[u] = Outside
      /\ loads = 1
      /\ \E r \in {"Ready", "Failed"} :
            doing[t] = [at |-> "loaded", modules |-> accepted, load |-> 1, result |-> r]
  BY <1>1 DEF HandleInv, NotStarted, Underway, Ended, Outside
<1>3. state' = Ready(accepted, 1) \/ state' = [kind |-> "Failed"]
  BY <1>1, <1>2 DEF Stored
<1>4. \A u \in Threads : doing'[u] = Outside /\ answers'[u] \subseteq answers[u] \cup {state'}
  BY <1>1, <1>2 DEF HandleInv
<1>5. \A u \in Threads : \A a \in answers[u] : a.kind = "Initializing"
  BY <1>2 DEF Underway
<1>6. Ended'
  BY <1>1, <1>2, <1>3, <1>4, <1>5 DEF Ended
<1> QED BY <1>1, <1>6 DEF HandleInv

LEMMA HandleKeeps == HandleInv /\ [Next]_vars => HandleInv'
<1> SUFFICES ASSUME HandleInv, [Next]_vars PROVE HandleInv'
  OBVIOUS
<1>1. CASE Edit \/ UNCHANGED vars
  BY <1>1 DEF Edit, vars, HandleInv, NotStarted, Underway, Ended
<1> QED BY <1>1, InjectKeeps, InitializeKeeps, LoadKeeps, StoreKeeps DEF Next

\* No two different answers but "Initializing" are given, and none is lost.
LEMMA HandleMadeOnce == HandleInv => InitializedOnce /\ AllInjected
<1> SUFFICES ASSUME HandleInv PROVE InitializedOnce /\ AllInjected
  OBVIOUS
<1> DEFINE final == {a \in UNION {answers[t] : t \in Threads} : a.kind # "Initializing"}
<1>1. final \subseteq {state}
  BY DEF HandleInv, NotStarted, Underway, Ended
<1> HIDE DEF final
<1>2. Cardinality(final) <= 1
  <2>1. final = {} \/ final = {state}
    BY <1>1
  <2>2. Cardinality({}) = 0 /\ Cardinality({state}) = 1
    BY FS_EmptySet, FS_Singleton
  <2> QED BY <2>1, <2>2
<1>3. loads <= 1
  BY DEF HandleInv, NotStarted, Underway, Ended
<1>4. AllInjected
  BY DEF AllInjected, HandleInv, NotStarted, Underway, Ended, Pending, Ready
<1> QED BY <1>2, <1>3, <1>4 DEF InitializedOnce, final

----------------------------------------------------------------------------
(* What is reached.                                                        *)

LEMMA ReachedHasStart ==
    ASSUME NEW leads, NEW start \in DOMAIN leads
    PROVE  start \in Reached(leads, start)
BY DEF Reached

LEMMA ReachedFollows ==
    ASSUME NEW leads, NEW start, NEW x \in Reached(leads, start),
           NEW y \in leads[x], y \in DOMAIN leads
    PROVE  y \in Reached(leads, start)
BY DEF Reached

\* Nothing is reached outside a set that has the start and is closed.
LEMMA ReachedWithin ==
    ASSUME NEW leads, NEW start \in DOMAIN leads, NEW T, start \in T,
           \A x \in T \cap DOMAIN leads : leads[x] \subseteq T \cap DOMAIN leads
    PROVE  Reached(leads, start) \subseteq T
<1> DEFINE S == T \cap DOMAIN leads
<1>1. S \in SUBSET DOMAIN leads /\ start \in S /\ \A y \in S : leads[y] \subseteq S
  OBVIOUS
<1>2. Reached(leads, start) \subseteq S
  BY <1>1 DEF Reached
<1> QED BY <1>2

\* What is reached from what is reached is reached.
LEMMA ReachedOn ==
    ASSUME NEW leads, NEW x, NEW y \in Reached(leads, x)
    PROVE  Reached(leads, y) \subseteq Reached(leads, x)
BY DEF Reached

----------------------------------------------------------------------------
(* The dependencies that failed, and the causes that are kept.             *)

LEMMA SeqOver ==
    ASSUME NEW S, NEW s \in Seq(S), NEW T, \A k \in DOMAIN s : s[k] \in T
    PROVE  s \in Seq(T)
<1>1. Len(s) \in Nat /\ DOMAIN s = 1..Len(s) /\ s = [k \in 1..Len(s) |-> s[k]]
  OBVIOUS
<1>2. s \in [1..Len(s) -> T]
  BY <1>1
<1> QED BY <1>1, <1>2

LEMMA SeqWider ==
    ASSUME NEW S, NEW T, S \subseteq T
    PROVE  Seq(S) \subseteq Seq(T)
OBVIOUS

LEMMA ElementsOfMore ==
    ASSUME NEW S, NEW s \in Seq(S), NEW x \in S
    PROVE  /\ Append(s, x) \in Seq(S) /\ Append(s, x) # <<>>
           /\ Elements(Append(s, x)) = Elements(s) \cup {x}
<1>1. PICK t : t = Append(s, x)
  OBVIOUS
<1>2. /\ t \in Seq(S) /\ Len(s) \in Nat /\ Len(t) = Len(s) + 1
      /\ DOMAIN t = 1..(Len(s) + 1) /\ DOMAIN s = 1..Len(s)
      /\ \A k \in 1..Len(s) : t[k] = s[k]
      /\ t[Len(s) + 1] = x
  BY <1>1
<1>3. t # <<>>
  BY <1>2
<1>4. Elements(t) = Elements(s) \cup {x}
  <2>1. \A k \in DOMAIN t : k \in DOMAIN s \/ k = Len(s) + 1
    BY <1>2
  <2>2. DOMAIN s \subseteq DOMAIN t /\ Len(s) + 1 \in DOMAIN t
    BY <1>2
  <2> QED BY <1>2, <2>1, <2>2 DEF Elements
<1> QED BY <1>1, <1>2, <1>3, <1>4

\* FailedDependencies are failures of the unit's dependencies, and there is
\* none only if all dependencies have values.
LEMMA FailedAre ==
    ASSUME states \in Seq(Nat), E!unit.dependencies \in Seq(DOMAIN states)
    PROVE  LET ds == E!unit.dependencies
               failures == {states[ds[k]] : k \in DOMAIN ds} \ {E!Value}
           IN  /\ E!FailedDependencies \in Seq(Nat \ {0})
               /\ Elements(E!FailedDependencies) \subseteq failures
               /\ E!FailedDependencies = <<>> => failures = {}
<1> DEFINE ds == E!unit.dependencies
           N == Len(ds)
           S == Seq(Nat \ {0})
           upTo(n) == {states[ds[k]] : k \in 1..n} \ {0}
           next1(n, s) == IF states[ds[n]] = 0 THEN s ELSE Append(s, states[ds[n]])
           step == [q \in (1..N) \X S |-> next1(q[1], q[2])]
           Is(f) == f = [k \in 0..N |-> IF k = 0 THEN <<>> ELSE next1(k, f[k - 1])]
           stopped == CHOOSE f : Is(f)
<1>1. N \in Nat /\ DOMAIN ds = 1..N /\ \A k \in 1..N : states[ds[k]] \in Nat
  OBVIOUS
<1>2. \A n \in 1..N, s \in S : next1(n, s) \in S
  BY <1>1
<1>3. step \in [(1..N) \X S -> S]
  BY <1>2
<1>4. \A n \in 1..N, s \in S : step[<<n, s>>] = next1(n, s)
  OBVIOUS
<1>5. <<>> \in S
  OBVIOUS
<1>6. PICK f : Folds(f, N, S, <<>>, step)
  <2> HIDE DEF N, S, step
  <2> QED BY <1>1, <1>3, <1>5, FoldExists
<1> HIDE DEF step, next1
<1>7. Is(f)
  <2>1. ASSUME NEW k \in 1..N PROVE f[k] = next1(k, f[k - 1])
    <3>1. k - 1 \in 0..N
      BY <1>1
    <3> QED BY <1>4, <1>6, <3>1 DEF Folds
  <2>2. \A k \in 0..N : k = 0 \/ k \in 1..N
    BY <1>1
  <2> HIDE DEF N, S
  <2> QED BY <1>6, <2>1, <2>2 DEF Folds
<1>8. Is(stopped)
  BY <1>7
<1>9. E!FailedDependencies = stopped[N]
  BY DEF E!FailedDependencies, E!Value, next1
<1> HIDE DEF stopped
<1>10. stopped[0] = <<>> /\ \A n \in 1..N : stopped[n] = next1(n, stopped[n - 1])
  <2> DEFINE h == [k \in 0..N |-> IF k = 0 THEN <<>> ELSE next1(k, stopped[k - 1])]
  <2>1. h[0] = <<>> /\ \A n \in 1..N : h[n] = next1(n, stopped[n - 1])
    BY <1>1
  <2>2. stopped = h
    BY <1>8
  <2> HIDE DEF h
  <2> QED BY <2>1, <2>2
<1> DEFINE Good == {n \in 0..N : /\ stopped[n] \in S
                                 /\ Elements(stopped[n]) \subseteq upTo(n)
                                 /\ stopped[n] = <<>> => upTo(n) = {}}
<1>11. 0 \in Good
  <2>1. Elements(<<>>) = {} /\ 1..0 = {} /\ 0 \in 0..N /\ <<>> \in S
    BY <1>1 DEF Elements
  <2>2. upTo(0) = {}
    BY <2>1
  <2> HIDE DEF upTo
  <2> QED BY <1>10, <2>1, <2>2
<1>12. ASSUME NEW n \in 1..N, n - 1 \in Good PROVE n \in Good
  <2>1. /\ stopped[n - 1] \in S /\ Elements(stopped[n - 1]) \subseteq upTo(n - 1)
        /\ stopped[n - 1] = <<>> => upTo(n - 1) = {}
    <3> HIDE DEF upTo
    <3> QED BY <1>12
  <2>2. upTo(n) = upTo(n - 1) \cup ({states[ds[n]]} \ {0})
    <3>1. 1..n = (1..(n - 1)) \cup {n}
      BY <1>1
    <3> QED BY <3>1
  <2>0. n \in 0..N
    BY <1>1
  <2> HIDE DEF upTo
  <2>3. CASE states[ds[n]] = 0
    <3>1. stopped[n] = stopped[n - 1]
      BY <1>10, <2>3 DEF next1
    <3>2. upTo(n) = upTo(n - 1)
      BY <2>2, <2>3
    <3> QED BY <2>0, <2>1, <3>1, <3>2
  <2>4. CASE states[ds[n]] # 0
    <3>1. stopped[n] = Append(stopped[n - 1], states[ds[n]])
      BY <1>10, <2>4 DEF next1
    <3>2. stopped[n - 1] \in S /\ states[ds[n]] \in Nat \ {0}
      BY <1>1, <2>1, <2>4
    <3>3. /\ stopped[n] \in S /\ stopped[n] # <<>>
          /\ Elements(stopped[n]) = Elements(stopped[n - 1]) \cup {states[ds[n]]}
      <4> DEFINE Pos == Nat \ {0}
                 old == stopped[n - 1]
                 v == states[ds[n]]
      <4>1. old \in Seq(Pos) /\ v \in Pos
        BY <3>2
      <4> HIDE DEF Pos, old, v
      <4>2. /\ Append(old, v) \in Seq(Pos) /\ Append(old, v) # <<>>
            /\ Elements(Append(old, v)) = Elements(old) \cup {v}
        BY ONLY <4>1, ElementsOfMore
      <4> QED BY <3>1, <4>2 DEF Pos, old, v
    <3> QED BY <2>0, <2>1, <2>2, <3>2, <3>3
  <2> QED BY <2>3, <2>4
<1>13. N \in Good
  <2> HIDE DEF Good, N
  <2>1. \A n \in 1..N : n - 1 \in Good => n \in Good
    BY <1>12
  <2>2. \A n \in 0..N : n \in Good
    BY <1>1, <1>11, <2>1, UpTo
  <2> QED BY <1>1, <2>2
<1> QED BY <1>1, <1>9, <1>13 DEF E!Value

\* The causes kept are some of the causes; if there is one, one is kept.
LEMMA NormalizedAre ==
    ASSUME NEW P, NEW causes \in Seq(P), causes # <<>>, NEW limit \in Nat \ {0}
    PROVE  /\ E!Normalized(causes, limit) \in Seq(P)
           /\ Elements(E!Normalized(causes, limit)) \subseteq Elements(causes)
           /\ E!Normalized(causes, limit) # <<>>
<1> DEFINE N == Len(causes)
           S == Seq(P)
           next1(n, s) == IF causes[n] \in E!Elements(s) \/ Len(s) = limit THEN s
                          ELSE Append(s, causes[n])
           step == [q \in (1..N) \X S |-> next1(q[1], q[2])]
           Is(f) == f = [k \in 0..N |-> IF k = 0 THEN <<>> ELSE next1(k, f[k - 1])]
           kept == CHOOSE f : Is(f)
<1>1. /\ N \in Nat /\ N # 0 /\ DOMAIN causes = 1..N
      /\ \A k \in 1..N : causes[k] \in P /\ causes[k] \in Elements(causes)
  BY DEF Elements
<1>2. \A n \in 1..N, s \in S : next1(n, s) \in S
  BY <1>1
<1>3. step \in [(1..N) \X S -> S]
  BY <1>2
<1>4. \A n \in 1..N, s \in S : step[<<n, s>>] = next1(n, s)
  OBVIOUS
<1>5. <<>> \in S
  OBVIOUS
<1>6. PICK f : Folds(f, N, S, <<>>, step)
  <2> HIDE DEF N, S, step
  <2> QED BY <1>1, <1>3, <1>5, FoldExists
<1> HIDE DEF step, next1
<1>7. Is(f)
  <2>1. ASSUME NEW k \in 1..N PROVE f[k] = next1(k, f[k - 1])
    <3>1. k - 1 \in 0..N
      BY <1>1
    <3> QED BY <1>4, <1>6, <3>1 DEF Folds
  <2>2. \A k \in 0..N : k = 0 \/ k \in 1..N
    BY <1>1
  <2> HIDE DEF N, S
  <2> QED BY <1>6, <2>1, <2>2 DEF Folds
<1>8. Is(kept)
  BY <1>7
<1>9. E!Normalized(causes, limit) = kept[N]
  BY DEF E!Normalized, next1
<1> HIDE DEF kept
<1>10. kept[0] = <<>> /\ \A n \in 1..N : kept[n] = next1(n, kept[n - 1])
  <2> DEFINE h == [k \in 0..N |-> IF k = 0 THEN <<>> ELSE next1(k, kept[k - 1])]
  <2>1. h[0] = <<>> /\ \A n \in 1..N : h[n] = next1(n, kept[n - 1])
    BY <1>1
  <2>2. kept = h
    BY <1>8
  <2> HIDE DEF h
  <2> QED BY <2>1, <2>2
<1> DEFINE Good == {n \in 0..N : /\ kept[n] \in S
                                 /\ Elements(kept[n]) \subseteq Elements(causes)
                                 /\ n # 0 => kept[n] # <<>>}
<1>11. 0 \in Good
  <2>1. Elements(<<>>) = {} /\ 0 \in 0..N /\ <<>> \in S
    BY <1>1 DEF Elements
  <2> QED BY <1>10, <2>1
<1>12. ASSUME NEW n \in 1..N, n - 1 \in Good PROVE n \in Good
  <2>1. kept[n - 1] \in S /\ Elements(kept[n - 1]) \subseteq Elements(causes) /\ n \in 0..N
    BY <1>1, <1>12
  <2> DEFINE old == kept[n - 1]
             c == causes[n]
  <2>2. old \in Seq(P) /\ c \in P /\ c \in Elements(causes)
    BY <1>1, <2>1
  <2>3. kept[n] = next1(n, old)
    BY <1>10
  <2> HIDE DEF old
  <2>4. CASE c \in E!Elements(old) \/ Len(old) = limit
    <3>1. kept[n] = old
      BY <2>3, <2>4 DEF next1
    <3>2. old # <<>>
      BY <2>4 DEF E!Elements
    <3> QED BY <2>1, <3>1, <3>2 DEF old
  <2>5. CASE ~(c \in E!Elements(old) \/ Len(old) = limit)
    <3>1. kept[n] = Append(old, c)
      BY <2>3, <2>5 DEF next1
    <3> HIDE DEF c
    <3>2. /\ Append(old, c) \in Seq(P) /\ Append(old, c) # <<>>
          /\ Elements(Append(old, c)) = Elements(old) \cup {c}
      BY ONLY <2>2, ElementsOfMore
    <3> QED BY <2>1, <2>2, <3>1, <3>2 DEF old
  <2> QED BY <2>4, <2>5
<1>13. N \in Good
  <2> HIDE DEF Good, N
  <2>1. \A n \in 1..N : n - 1 \in Good => n \in Good
    BY <1>12
  <2>2. \A n \in 0..N : n \in Good
    BY <1>1, <1>11, <2>1, UpTo
  <2> QED BY <1>1, <2>2
<1> QED BY <1>1, <1>9, <1>13

----------------------------------------------------------------------------
(* The best-effort session (Evaluation).                                   *)

\* What failed is blamed on what it depends on: a root on the unit itself, and
\* a propagation on failures of the unit's own dependencies, for all units that
\* share it.
OwnCauses ==
    \A i \in DOMAIN states : states[i] # 0 =>
        /\ nodes[states[i]].kind = "Root" => nodes[states[i]].unit = i
        /\ truncated = 0 =>
              \A c \in Elements(nodes[states[i]].causes) :
                  \E d \in Elements(plan[i].dependencies) : states[d] = c

\* Why a unit is what it is.
StatesExplained ==
    \A i \in DOMAIN states :
        IF states[i] = 0 THEN plan[i].outcome = "value"
        ELSE \/ plan[i].outcome = "recoverable"
             \/ \E d \in Elements(plan[i].dependencies) : states[d] # 0

SessionInv ==
    /\ plan \in Plans /\ limits \in Limits
    /\ E!TypeOK
    /\ E!ValuesRestOnValues /\ E!CausesArePrior /\ E!ArenaBounded
    /\ OwnCauses /\ StatesExplained
    /\ \A n \in DOMAIN nodes : nodes[n].kind = "Truncated" <=> n = truncated
    /\ (\E i \in DOMAIN states : states[i] # 0) => root_failures # <<>>
    /\ eStatus = "done" => Len(states) = Len(plan)

LEMMA PlanFacts ==
    ASSUME plan \in Plans
    PROVE  /\ plan \in Seq(Unit) /\ Len(plan) \in Nat /\ DOMAIN plan = 1..Len(plan)
           /\ \A i \in DOMAIN plan :
                 /\ plan[i].dependencies \in Seq(Nat)
                 /\ Elements(plan[i].dependencies) \subseteq 1..(i - 1)
                 /\ plan[i].location \in Locations
<1>1. plan \in Seq(Unit) /\ ValidPlan(plan)
  BY EvaluationAssumption
<1>2. \A i \in DOMAIN plan : plan[i] \in Unit
  BY <1>1
<1> QED BY <1>1, <1>2 DEF Unit, ValidPlan, Elements

LEMMA SameElements == \A s : E!Elements(s) = Elements(s)
BY DEF E!Elements, Elements

LEMMA SessionFacts ==
    ASSUME SessionInv
    PROVE  /\ states \in Seq(Nat) /\ Len(states) \in Nat /\ DOMAIN states = 1..Len(states)
           /\ Len(states) <= Len(plan)
           /\ \A i \in DOMAIN states : states[i] \in 0..Len(nodes)
           /\ nodes \in Seq(E!Node) /\ Len(nodes) \in Nat /\ DOMAIN nodes = 1..Len(nodes)
           /\ limits.nodes \in Nat /\ limits.causes \in Nat \ {0}
           /\ truncated \in 0..Len(nodes)
<1>1. states \in Seq(0..Len(nodes)) /\ nodes \in Seq(E!Node)
  BY DEF SessionInv, E!TypeOK
<1>2. 0..Len(nodes) \subseteq Nat
  BY <1>1
<1>3. states \in Seq(Nat)
  BY <1>1, <1>2
<1> QED BY <1>1, <1>3, EvaluationAssumption DEF SessionInv, E!TypeOK

\* The unit the loop is at, and what it may depend on.
LEMMA UnitFacts ==
    ASSUME SessionInv, E!Running
    PROVE  /\ E!Current = Len(states) + 1 /\ E!Current \in DOMAIN plan
           /\ E!unit = plan[E!Current]
           /\ E!unit.dependencies \in Seq(DOMAIN states)
           /\ Elements(E!unit.dependencies) \subseteq DOMAIN states
           /\ E!unit.location \in Locations
<1>1. /\ Len(states) \in Nat /\ DOMAIN states = 1..Len(states) /\ Len(states) < Len(plan)
  BY SessionFacts DEF E!Running
<1>2. Len(plan) \in Nat /\ DOMAIN plan = 1..Len(plan)
  BY PlanFacts DEF SessionInv
<1>3. E!Current = Len(states) + 1 /\ E!Current \in DOMAIN plan /\ E!unit = plan[E!Current]
  BY <1>1, <1>2 DEF E!Current, E!unit
<1>4. /\ E!unit.dependencies \in Seq(Nat) /\ E!unit.location \in Locations
      /\ Elements(E!unit.dependencies) \subseteq 1..(E!Current - 1)
  BY <1>3, PlanFacts DEF SessionInv
<1>5. 1..(E!Current - 1) = DOMAIN states
  BY <1>1, <1>3
<1>6. E!unit.dependencies \in Seq(DOMAIN states)
  <2>1. \A k \in DOMAIN E!unit.dependencies : E!unit.dependencies[k] \in DOMAIN states
    BY <1>4, <1>5 DEF Elements
  <2> QED BY <1>4, <2>1, SeqOver
<1> QED BY <1>3, <1>4, <1>5, <1>6

\* A unit gets its state: the states before it, and what they say, stay.
LEMMA StateAdded ==
    ASSUME SessionInv, E!Running, UNCHANGED plan,
           NEW s \in 0..Len(nodes'), states' = Append(states, s),
           nodes' \in Seq(E!Node), Len(nodes) <= Len(nodes'),
           \A n \in DOMAIN nodes : nodes'[n] = nodes[n],
           truncated' = 0 => truncated = 0,
           s = 0 => /\ E!unit.outcome = "value"
                    /\ \A d \in Elements(E!unit.dependencies) : states[d] = 0,
           s # 0 => /\ nodes'[s].kind = "Root" => nodes'[s].unit = E!Current
                    /\ truncated' = 0 =>
                          \A c \in Elements(nodes'[s].causes) :
                              \E d \in Elements(E!unit.dependencies) : states[d] = c
                    /\ \/ E!unit.outcome = "recoverable"
                       \/ \E d \in Elements(E!unit.dependencies) : states[d] # 0
    PROVE  /\ states' \in Seq(0..Len(nodes')) /\ Len(states') <= Len(plan)
           /\ E!ValuesRestOnValues' /\ OwnCauses' /\ StatesExplained'
<1>1. /\ states \in Seq(Nat) /\ Len(states) \in Nat /\ DOMAIN states = 1..Len(states)
      /\ \A i \in DOMAIN states : states[i] \in 0..Len(nodes)
      /\ Len(nodes) \in Nat /\ Len(nodes') \in Nat /\ DOMAIN nodes = 1..Len(nodes)
  BY SessionFacts
<1>2. /\ E!Current = Len(states) + 1 /\ E!Current \in DOMAIN plan
      /\ E!unit = plan[E!Current] /\ Elements(E!unit.dependencies) \subseteq DOMAIN states
  BY UnitFacts
<1>3. /\ Len(states') = Len(states) + 1 /\ DOMAIN states' = 1..(Len(states) + 1)
      /\ \A i \in DOMAIN states : states'[i] = states[i]
      /\ states'[E!Current] = s
  BY <1>1, <1>2
<1>4. \A i \in DOMAIN states' : i \in DOMAIN states \/ i = E!Current
  BY <1>1, <1>2, <1>3
<1>5. \A i \in DOMAIN states' : states'[i] \in 0..Len(nodes')
  BY <1>1, <1>3, <1>4
<1>6. states' \in Seq(0..Len(nodes'))
  <2>1. states' \in Seq(Nat)
    BY <1>1
  <2> QED BY <1>5, <2>1, SeqOver
<1>7. Len(states') <= Len(plan)
  BY <1>3 DEF E!Running
<1>8. ASSUME NEW i \in DOMAIN states
      PROVE  /\ i \in DOMAIN plan /\ Elements(plan[i].dependencies) \subseteq DOMAIN states
             /\ states[i] # 0 => states[i] \in DOMAIN nodes
  <2>1. i \in DOMAIN plan
    <3>1. Len(states) <= Len(plan) /\ Len(plan) \in Nat /\ DOMAIN plan = 1..Len(plan)
      BY SessionFacts, PlanFacts DEF SessionInv
    <3> QED BY <1>1, <3>1
  <2>2. Elements(plan[i].dependencies) \subseteq 1..(i - 1)
    BY <2>1, PlanFacts DEF SessionInv
  <2>3. 1..(i - 1) \subseteq DOMAIN states
    BY <1>1
  <2> QED BY <1>1, <2>1, <2>2, <2>3
<1>9. E!ValuesRestOnValues'
  <2>1. \A i \in DOMAIN states : states[i] = 0 =>
            \A d \in Elements(plan[i].dependencies) : states[d] = 0
    BY DEF SessionInv, E!ValuesRestOnValues, E!Value, Elements
  <2>2. \A i \in DOMAIN states' : states'[i] = 0 =>
            \A d \in Elements(plan[i].dependencies) : states'[d] = 0
    BY <1>2, <1>3, <1>4, <1>8, <2>1
  <2> QED BY <2>2 DEF E!ValuesRestOnValues, E!Value, Elements
<1>10. OwnCauses'
  <2>1. ASSUME NEW i \in DOMAIN states', states'[i] # 0
        PROVE  /\ nodes'[states'[i]].kind = "Root" => nodes'[states'[i]].unit = i
               /\ truncated' = 0 =>
                     \A c \in Elements(nodes'[states'[i]].causes) :
                         \E d \in Elements(plan[i].dependencies) : states'[d] = c
    <3>1. CASE i \in DOMAIN states
      <4>1. states'[i] = states[i] /\ states[i] \in DOMAIN nodes
        BY <1>3, <1>8, <2>1, <3>1
      <4>2. nodes'[states'[i]] = nodes[states[i]]
        BY <4>1
      <4>3. /\ nodes[states[i]].kind = "Root" => nodes[states[i]].unit = i
            /\ truncated = 0 =>
                  \A c \in Elements(nodes[states[i]].causes) :
                      \E d \in Elements(plan[i].dependencies) : states[d] = c
        BY <2>1, <3>1, <4>1 DEF SessionInv, OwnCauses
      <4>4. \A d \in Elements(plan[i].dependencies) : states'[d] = states[d]
        BY <1>3, <1>8, <3>1
      <4> QED BY <4>2, <4>3, <4>4
    <3>2. CASE i = E!Current
      <4>2. s # 0 /\ states'[i] = s /\ plan[i] = E!unit
        BY <1>2, <1>3, <2>1, <3>2
      <4>3. /\ nodes'[s].kind = "Root" => nodes'[s].unit = E!Current
            /\ truncated' = 0 =>
                  \A c \in Elements(nodes'[s].causes) :
                      \E d \in Elements(E!unit.dependencies) : states[d] = c
        BY <4>2
      <4>4. \A d \in Elements(E!unit.dependencies) : states'[d] = states[d]
        BY <1>2, <1>3
      <4>5. truncated' = 0 =>
                \A c \in Elements(nodes'[s].causes) :
                    \E d \in Elements(E!unit.dependencies) : states'[d] = c
        BY ONLY <4>3, <4>4
      <4>6. nodes'[states'[i]] = nodes'[s] /\ plan[i].dependencies = E!unit.dependencies
        BY <4>2
      <4> HIDE DEF Elements
      <4> QED BY ONLY <3>2, <4>3, <4>5, <4>6, Zenon
    <3> QED BY <1>4, <3>1, <3>2
  <2> QED BY <2>1 DEF OwnCauses
<1>11. StatesExplained'
  <2>1. ASSUME NEW i \in DOMAIN states'
        PROVE  IF states'[i] = 0 THEN plan[i].outcome = "value"
               ELSE \/ plan[i].outcome = "recoverable"
                    \/ \E d \in Elements(plan[i].dependencies) : states'[d] # 0
    <3>1. CASE i \in DOMAIN states
      BY <1>3, <1>8, <3>1 DEF SessionInv, StatesExplained
    <3>2. CASE i = E!Current
      BY <1>2, <1>3, <3>2
    <3> QED BY <1>4, <3>1, <3>2
  <2> QED BY <2>1 DEF StatesExplained
<1> QED BY <1>6, <1>7, <1>9, <1>10, <1>11

LEMMA SameCardinality == \A S : E!Cardinality(S) = Cardinality(S)
BY DEF E!Cardinality, Cardinality

LEMMA CountIsNat ==
    ASSUME SessionInv
    PROVE  E!PropagatedCount \in Nat
<1> DEFINE all == {n \in DOMAIN nodes : nodes[n].kind = "Propagated"}
<1>1. Len(nodes) \in Nat /\ DOMAIN nodes = 1..Len(nodes)
  BY SessionFacts
<1>2. IsFiniteSet(1..Len(nodes))
  BY <1>1, FS_Interval
<1>3. all \in SUBSET (1..Len(nodes))
  BY <1>1
<1> HIDE DEF all
<1>4. IsFiniteSet(all)
  BY <1>2, <1>3, FS_Subset
<1>5. Cardinality(all) \in Nat
  BY <1>4, FS_CardinalityType
<1> QED BY <1>5, SameCardinality DEF all, E!PropagatedCount

\* A node is added to the arena, within its limits.
LEMMA NodeAdded ==
    ASSUME SessionInv, UNCHANGED limits,
           NEW new \in E!Node, nodes' = Append(nodes, new),
           Elements(new.causes) \subseteq 1..Len(nodes),
           new.kind = "Root" <=> new.causes = <<>>,
           new.kind = "Propagated" =>
               /\ E!PropagatedCount < limits.nodes
               /\ \A n \in DOMAIN nodes : nodes[n] # new,
           IF new.kind = "Truncated" THEN truncated = 0 /\ truncated' = Len(nodes')
           ELSE truncated' = truncated
    PROVE  /\ nodes' \in Seq(E!Node) /\ Len(nodes') = Len(nodes) + 1
           /\ \A n \in DOMAIN nodes : nodes'[n] = nodes[n]
           /\ nodes'[Len(nodes')] = new
           /\ truncated' \in 0..Len(nodes')
           /\ E!CausesArePrior' /\ E!ArenaBounded'
           /\ \A n \in DOMAIN nodes' : nodes'[n].kind = "Truncated" <=> n = truncated'
<1>1. /\ nodes \in Seq(E!Node) /\ Len(nodes) \in Nat /\ DOMAIN nodes = 1..Len(nodes)
      /\ limits.nodes \in Nat /\ truncated \in 0..Len(nodes)
  BY SessionFacts
<1> DEFINE last == Len(nodes) + 1
<1>2. /\ nodes' \in Seq(E!Node) /\ Len(nodes') = last /\ DOMAIN nodes' = 1..last
      /\ \A n \in DOMAIN nodes : nodes'[n] = nodes[n]
      /\ nodes'[last] = new
  BY <1>1
<1>3. \A n \in DOMAIN nodes' : n \in DOMAIN nodes \/ n = last
  BY <1>1, <1>2
<1>4. last \in Nat /\ last \notin DOMAIN nodes /\ DOMAIN nodes \subseteq DOMAIN nodes'
      /\ last \in DOMAIN nodes'
  BY <1>1, <1>2
<1>5. truncated' \in 0..Len(nodes')
  BY <1>1, <1>2
<1>6. E!CausesArePrior'
  <2>1. \A n \in DOMAIN nodes : /\ \A c \in DOMAIN nodes[n].causes :
                                      nodes[n].causes[c] \in 1..n-1
                                /\ nodes[n].kind = "Root" <=> nodes[n].causes = <<>>
    BY DEF SessionInv, E!CausesArePrior
  <2>2. \A c \in DOMAIN new.causes : new.causes[c] \in 1..last-1
    <3>1. last - 1 = Len(nodes)
      BY <1>1
    <3> QED BY <3>1 DEF Elements
  <2>3. \A n \in DOMAIN nodes' : /\ \A c \in DOMAIN nodes'[n].causes :
                                       nodes'[n].causes[c] \in 1..n-1
                                 /\ nodes'[n].kind = "Root" <=> nodes'[n].causes = <<>>
    BY <1>2, <1>3, <2>1, <2>2
  <2> QED BY <2>3 DEF E!CausesArePrior
<1>7. \A n \in DOMAIN nodes' : nodes'[n].kind = "Truncated" <=> n = truncated'
  <2>1. \A n \in DOMAIN nodes : nodes[n].kind = "Truncated" <=> n = truncated
    BY <1>1 DEF SessionInv
  <2>2. CASE new.kind = "Truncated"
    <3>1. truncated' = last /\ 0 \notin DOMAIN nodes /\ truncated = 0
      BY <1>1, <1>2, <2>2
    <3> QED BY <1>2, <1>3, <1>4, <2>1, <2>2, <3>1
  <2>3. CASE new.kind # "Truncated"
    <3>1. truncated' = truncated /\ truncated # last
      BY <1>1, <2>3
    <3> QED BY <1>2, <1>3, <2>1, <2>3, <3>1
  <2> QED BY <2>2, <2>3
<1>8. E!ArenaBounded'
  <2> DEFINE old == {n \in DOMAIN nodes : nodes[n].kind = "Propagated"}
             now == {n \in DOMAIN nodes' : nodes'[n].kind = "Propagated"}
             cut == {n \in DOMAIN nodes' : nodes'[n].kind = "Truncated"}
  <2>1. Cardinality(old) <= limits.nodes
    BY SameCardinality DEF SessionInv, E!ArenaBounded, E!PropagatedCount
  <2>2. IsFiniteSet(old) /\ Cardinality(old) \in Nat
    <3>1. IsFiniteSet(1..Len(nodes))
      <4>1. 1 \in Int /\ Len(nodes) \in Int
        BY <1>1
      <4> QED BY ONLY <4>1, FS_Interval
    <3>2. old \in SUBSET (1..Len(nodes))
      BY <1>1
    <3> HIDE DEF old
    <3>3. IsFiniteSet(old)
      BY <3>1, <3>2, FS_Subset
    <3> QED BY <3>3, FS_CardinalityType
  <2>3. Cardinality(now) <= limits.nodes
    <3>1. CASE new.kind = "Propagated"
      <4>1. now = old \cup {last} /\ last \notin old
        BY <1>2, <1>3, <1>4, <3>1
      <4>2. Cardinality(old) < limits.nodes
        BY <3>1, SameCardinality DEF E!PropagatedCount
      <4> HIDE DEF old, now, last
      <4>3. Cardinality(now) = Cardinality(old) + 1
        BY <2>2, <4>1, FS_AddElement
      <4> QED BY <1>1, <2>2, <4>2, <4>3
    <3>2. CASE new.kind # "Propagated"
      <4>1. now = old
        BY <1>2, <1>3, <1>4, <3>2
      <4> HIDE DEF old, now
      <4> QED BY <2>1, <4>1
    <3> QED BY <3>1, <3>2
  <2>4. Cardinality(cut) <= 1
    <3>1. cut \subseteq {truncated'}
      BY <1>7
    <3> HIDE DEF cut
    <3>2. cut = {} \/ cut = {truncated'}
      BY <3>1
    <3>3. Cardinality({}) = 0 /\ Cardinality({truncated'}) = 1
      BY FS_EmptySet, FS_Singleton
    <3>4. Cardinality(cut) = 0 \/ Cardinality(cut) = 1
      BY ONLY <3>2, <3>3
    <3> QED BY ONLY <3>4
  <2>5. ASSUME NEW i \in DOMAIN nodes', NEW j \in DOMAIN nodes',
               nodes'[i].kind = "Propagated", nodes'[i] = nodes'[j]
        PROVE  i = j
    <3>1. CASE i \in DOMAIN nodes /\ j \in DOMAIN nodes
      BY <1>2, <2>5, <3>1 DEF SessionInv, E!ArenaBounded
    <3>2. CASE i = last /\ j \in DOMAIN nodes
      BY <1>2, <2>5, <3>2
    <3>3. CASE i \in DOMAIN nodes /\ j = last
      BY <1>2, <2>5, <3>3
    <3> QED BY <1>3, <3>1, <3>2, <3>3
  <2> QED BY <2>3, <2>4, <2>5, SameCardinality DEF E!ArenaBounded, E!PropagatedCount
<1> HIDE DEF last
<1>9. nodes'[Len(nodes')] = new
  BY <1>2
<1> QED BY <1>2, <1>5, <1>6, <1>7, <1>8, <1>9 DEF last

\* A unit with a failed dependency is blamed on what failed.
LEMMA PropagateKeeps == SessionInv /\ E!Propagate => SessionInv'
<1> SUFFICES ASSUME SessionInv, E!Propagate PROVE SessionInv'
  OBVIOUS
<1> DEFINE causes == E!Normalized(E!FailedDependencies, limits.causes)
           node == E!Propagated(E!unit.location, causes)
           deps == Elements(E!unit.dependencies)
<1>0. E!Running /\ UNCHANGED <<plan, limits, root_failures, eStatus>>
  BY DEF E!Propagate
<1>1. /\ states \in Seq(Nat) /\ DOMAIN states = 1..Len(states) /\ Len(states) \in Nat
      /\ \A i \in DOMAIN states : states[i] \in 0..Len(nodes)
      /\ nodes \in Seq(E!Node) /\ Len(nodes) \in Nat /\ DOMAIN nodes = 1..Len(nodes)
      /\ limits.nodes \in Nat /\ limits.causes \in Nat \ {0}
      /\ truncated \in 0..Len(nodes)
  BY SessionFacts
<1>2. /\ E!unit.dependencies \in Seq(DOMAIN states) /\ deps \subseteq DOMAIN states
      /\ E!unit.location \in Locations
  BY <1>0, UnitFacts
<1>3. /\ E!FailedDependencies \in Seq(Nat \ {0}) /\ E!FailedDependencies # <<>>
      /\ \A c \in Elements(E!FailedDependencies) : c # 0 /\ \E d \in deps : states[d] = c
  <2>1. /\ E!FailedDependencies \in Seq(Nat \ {0})
        /\ Elements(E!FailedDependencies) \subseteq
              {states[E!unit.dependencies[k]] : k \in DOMAIN E!unit.dependencies} \ {E!Value}
    BY <1>1, <1>2, FailedAre
  <2> QED BY <2>1 DEF E!Propagate, E!Value, Elements
<1>4. /\ causes \in Seq(Nat \ {0}) /\ causes # <<>>
      /\ Elements(causes) \subseteq Elements(E!FailedDependencies)
  <2> HIDE DEF causes
  <2>1. /\ E!Normalized(E!FailedDependencies, limits.causes) \in Seq(Nat \ {0})
        /\ Elements(E!Normalized(E!FailedDependencies, limits.causes))
              \subseteq Elements(E!FailedDependencies)
        /\ E!Normalized(E!FailedDependencies, limits.causes) # <<>>
    BY <1>1, <1>3, NormalizedAre
  <2> QED BY <2>1 DEF causes
<1> HIDE DEF causes
<1>5. \A c \in Elements(causes) : c \in 1..Len(nodes) /\ \E d \in deps : states[d] = c
  <2>1. ASSUME NEW c \in Elements(causes)
        PROVE  c \in 1..Len(nodes) /\ \E d \in deps : states[d] = c
    <3>1. PICK d \in deps : states[d] = c /\ c # 0
      BY <1>3, <1>4, <2>1
    <3>2. c \in 0..Len(nodes)
      BY <1>1, <1>2, <3>1
    <3> QED BY <1>1, <3>1, <3>2
  <2> QED BY <2>1
<1>6. /\ node \in E!Node /\ node.kind = "Propagated" /\ node.causes = causes
  <2>1. causes \in Seq(Nat)
    <3>1. Nat \ {0} \subseteq Nat
      OBVIOUS
    <3> QED BY <1>4, <3>1
  <2> QED BY <1>2, <2>1 DEF E!Node, E!Propagated
<1>7. \E d \in deps : states[d] # 0
  <2>1. PICK c : c \in Elements(causes)
    <3>1. 1 \in DOMAIN causes
      BY <1>4
    <3> QED BY <3>1 DEF Elements
  <2> QED BY <1>3, <1>4, <2>1
<1>8. E!PropagateCauses(node)
  BY DEF E!Propagate, causes
<1> HIDE DEF node, deps
\* What every branch has to show of the state it adds.
<1>9. ASSUME NEW s \in Nat \ {0}, s <= Len(nodes'), states' = Append(states, s),
             nodes' \in Seq(E!Node), Len(nodes) <= Len(nodes'),
             \A n \in DOMAIN nodes : nodes'[n] = nodes[n],
             nodes'[s].kind # "Root",
             truncated' = 0 => truncated = 0 /\ nodes'[s].causes = causes,
             truncated' \in 0..Len(nodes'),
             E!CausesArePrior', E!ArenaBounded',
             \A n \in DOMAIN nodes' : nodes'[n].kind = "Truncated" <=> n = truncated'
      PROVE  SessionInv'
  <2>1. s \in 0..Len(nodes') /\ s # 0
    BY <1>9
  <2>2. truncated' = 0 =>
            \A c \in Elements(nodes'[s].causes) :
                \E d \in Elements(E!unit.dependencies) : states[d] = c
    BY <1>5, <1>9 DEF deps
  <2>3. \E d \in Elements(E!unit.dependencies) : states[d] # 0
    BY <1>7 DEF deps
  <2>4. /\ states' \in Seq(0..Len(nodes')) /\ Len(states') <= Len(plan)
        /\ E!ValuesRestOnValues' /\ OwnCauses' /\ StatesExplained'
    BY <1>0, <1>9, <2>1, <2>2, <2>3, StateAdded
  <2>5. E!TypeOK'
    <3>1. root_failures \in Seq(1..Len(nodes'))
      <4>1. root_failures \in Seq(1..Len(nodes)) /\ 1..Len(nodes) \subseteq 1..Len(nodes')
        BY <1>1, <1>9 DEF SessionInv, E!TypeOK
      <4>2. Seq(1..Len(nodes)) \subseteq Seq(1..Len(nodes'))
        BY <4>1, SeqWider
      <4> QED BY <4>1, <4>2
    <3> QED BY <1>0, <1>9, <2>4, <3>1 DEF SessionInv, E!TypeOK
  <2>6. root_failures # <<>>
    <3>1. \E i \in DOMAIN states : states[i] # 0
      BY <1>2, <1>7
    <3> QED BY <3>1 DEF SessionInv
  <2>7. eStatus' # "done"
    BY <1>0 DEF E!Running
  <2> QED BY <1>0, <1>9, <2>4, <2>5, <2>6, <2>7 DEF SessionInv
<1>10. CASE E!Interned(node) # {}
  <2>1. PICK s \in E!Interned(node) : states' = Append(states, s)
                                      /\ UNCHANGED <<nodes, truncated>>
    BY <1>8, <1>10 DEF E!PropagateCauses
  <2>2. s \in DOMAIN nodes /\ nodes[s] = node
    BY DEF E!Interned
  <2>3. s \in Nat \ {0} /\ s <= Len(nodes)
    BY <1>1, <2>2
  <2>4. E!CausesArePrior' /\ E!ArenaBounded'
    BY <1>0, <2>1 DEF SessionInv, E!CausesArePrior, E!ArenaBounded, E!PropagatedCount
  <2>5. /\ nodes' = nodes /\ truncated' = truncated /\ states' = Append(states, s)
        /\ nodes'[s].kind # "Root" /\ nodes'[s].causes = causes
    BY <1>6, <2>1, <2>2
  <2>6. \A n \in DOMAIN nodes' : nodes'[n].kind = "Truncated" <=> n = truncated'
    BY <2>5 DEF SessionInv
  <2>7. /\ nodes' \in Seq(E!Node) /\ Len(nodes) <= Len(nodes') /\ s <= Len(nodes')
        /\ \A n \in DOMAIN nodes : nodes'[n] = nodes[n]
        /\ truncated' \in 0..Len(nodes')
    BY <1>1, <2>3, <2>5
  <2> QED BY <1>9, <2>3, <2>4, <2>5, <2>6, <2>7
<1>11. CASE /\ E!Interned(node) = {} /\ E!PropagatedCount >= limits.nodes /\ truncated # 0
  <2>1. states' = Append(states, truncated) /\ UNCHANGED <<nodes, truncated>>
    BY <1>8, <1>11 DEF E!PropagateCauses
  <2>2. truncated \in Nat \ {0} /\ truncated <= Len(nodes) /\ truncated \in DOMAIN nodes
    BY <1>1, <1>11
  <2>3. E!CausesArePrior' /\ E!ArenaBounded'
    BY <1>0, <2>1 DEF SessionInv, E!CausesArePrior, E!ArenaBounded, E!PropagatedCount
  <2>4. nodes[truncated].kind # "Root"
    BY <1>11, <2>2 DEF SessionInv
  <2> QED BY <1>1, <1>9, <2>1, <2>2, <2>3, <2>4 DEF SessionInv
<1>12. CASE /\ E!Interned(node) = {} /\ E!PropagatedCount >= limits.nodes /\ truncated = 0
  <2> DEFINE new == [node EXCEPT !.kind = "Truncated"]
  <2>1. /\ nodes' = Append(nodes, new) /\ truncated' = Len(nodes')
        /\ states' = Append(states, truncated')
    BY <1>8, <1>12 DEF E!PropagateCauses
  <2>2. new \in E!Node /\ new.kind = "Truncated" /\ new.causes = causes
    BY <1>6 DEF E!Node
  <2> HIDE DEF new
  <2>3. /\ nodes' \in Seq(E!Node) /\ Len(nodes') = Len(nodes) + 1
        /\ \A n \in DOMAIN nodes : nodes'[n] = nodes[n]
        /\ nodes'[Len(nodes')] = new
        /\ truncated' \in 0..Len(nodes')
        /\ E!CausesArePrior' /\ E!ArenaBounded'
        /\ \A n \in DOMAIN nodes' : nodes'[n].kind = "Truncated" <=> n = truncated'
    <3>1. Elements(new.causes) \subseteq 1..Len(nodes) /\ new.causes # <<>>
      BY <1>4, <1>5, <2>2
    <3> QED BY <1>0, <1>12, <2>1, <2>2, <3>1, NodeAdded
  <2>4. truncated' \in Nat \ {0} /\ truncated' <= Len(nodes') /\ truncated' # 0
    BY <1>1, <2>1, <2>3
  <2>5. PICK s : s = Len(nodes')
    OBVIOUS
  <2>6. /\ s \in Nat \ {0} /\ s <= Len(nodes') /\ Len(nodes) <= Len(nodes')
        /\ states' = Append(states, s) /\ truncated' # 0
        /\ nodes'[s].kind # "Root"
    BY <1>1, <2>1, <2>2, <2>3, <2>4, <2>5
  <2> QED BY <1>9, <2>3, <2>6
<1>13. CASE E!Interned(node) = {} /\ ~(E!PropagatedCount >= limits.nodes)
  <2>1. /\ nodes' = Append(nodes, node) /\ truncated' = truncated
        /\ states' = Append(states, Len(nodes'))
    BY <1>8, <1>13 DEF E!PropagateCauses
  <2>2. /\ nodes' \in Seq(E!Node) /\ Len(nodes') = Len(nodes) + 1
        /\ \A n \in DOMAIN nodes : nodes'[n] = nodes[n]
        /\ nodes'[Len(nodes')] = node
        /\ truncated' \in 0..Len(nodes')
        /\ E!CausesArePrior' /\ E!ArenaBounded'
        /\ \A n \in DOMAIN nodes' : nodes'[n].kind = "Truncated" <=> n = truncated'
    <3>1. Elements(node.causes) \subseteq 1..Len(nodes) /\ node.causes # <<>>
      BY <1>4, <1>5, <1>6
    <3>2. \A n \in DOMAIN nodes : nodes[n] # node
      BY <1>13 DEF E!Interned
    <3>3. E!PropagatedCount < limits.nodes
      BY <1>1, <1>13, CountIsNat
    <3> QED BY <1>0, <1>6, <2>1, <3>1, <3>2, <3>3, NodeAdded
  <2>3. PICK s : s = Len(nodes')
    OBVIOUS
  <2>4. /\ s \in Nat \ {0} /\ s <= Len(nodes') /\ Len(nodes) <= Len(nodes')
        /\ states' = Append(states, s)
    BY <1>1, <2>1, <2>2, <2>3
  <2>5. nodes'[s] = node /\ nodes'[s].kind # "Root" /\ nodes'[s].causes = causes
    BY <1>6, <2>2, <2>3
  <2>6. truncated' = 0 => truncated = 0
    BY <2>1
  <2> QED BY ONLY <1>9, <2>2, <2>4, <2>5, <2>6
<1> QED BY <1>10, <1>11, <1>12, <1>13

\* A unit whose dependencies all have values is run: it has a value, or is
\* blamed itself.
LEMMA ReadyUnit ==
    ASSUME SessionInv, E!Ready
    PROVE  E!Running /\ \A d \in Elements(E!unit.dependencies) : states[d] = 0
<1>1. E!Running /\ E!FailedDependencies = <<>>
  BY DEF E!Ready
<1>2. states \in Seq(Nat) /\ E!unit.dependencies \in Seq(DOMAIN states)
  BY <1>1, UnitFacts, SessionFacts
<1>3. {states[E!unit.dependencies[k]] : k \in DOMAIN E!unit.dependencies} \ {E!Value} = {}
  BY <1>1, <1>2, FailedAre
<1> QED BY <1>1, <1>3 DEF E!Value, Elements

LEMMA SucceedKeeps == SessionInv /\ E!Succeed => SessionInv'
<1> SUFFICES ASSUME SessionInv, E!Succeed PROVE SessionInv'
  OBVIOUS
<1>1. /\ E!Ready /\ E!unit.outcome = "value" /\ states' = Append(states, 0)
      /\ UNCHANGED <<plan, limits, root_failures, nodes, truncated, eStatus>>
  BY DEF E!Succeed, E!Value
<1>2. E!Running /\ \A d \in Elements(E!unit.dependencies) : states[d] = 0
  BY <1>1, ReadyUnit
<1>3. /\ nodes \in Seq(E!Node) /\ Len(nodes) \in Nat
      /\ states \in Seq(Nat) /\ DOMAIN states = 1..Len(states) /\ Len(states) \in Nat
  BY SessionFacts
<1>4. 0 \in 0..Len(nodes') /\ nodes' \in Seq(E!Node) /\ Len(nodes) <= Len(nodes')
  BY <1>1, <1>3
<1>5. /\ states' \in Seq(0..Len(nodes')) /\ Len(states') <= Len(plan)
      /\ E!ValuesRestOnValues' /\ OwnCauses' /\ StatesExplained'
  BY <1>1, <1>2, <1>4, StateAdded
<1>6. E!CausesArePrior' /\ E!ArenaBounded'
  BY <1>1 DEF SessionInv, E!CausesArePrior, E!ArenaBounded, E!PropagatedCount
<1>7. \A i \in DOMAIN states' : states'[i] # 0 => i \in DOMAIN states /\ states[i] # 0
  BY <1>1, <1>3
<1>8. E!TypeOK'
  BY <1>1, <1>5 DEF SessionInv, E!TypeOK
<1>9. eStatus' # "done"
  BY <1>1, <1>2 DEF E!Running
<1> QED BY <1>1, <1>5, <1>6, <1>7, <1>8, <1>9 DEF SessionInv

LEMMA FailKeeps == SessionInv /\ E!Fail => SessionInv'
<1> SUFFICES ASSUME SessionInv, E!Fail PROVE SessionInv'
  OBVIOUS
<1> DEFINE new == [kind |-> "Root", unit |-> E!Current, location |-> E!unit.location,
                   causes |-> <<>>]
<1>1. /\ E!Ready /\ E!unit.outcome = "recoverable"
      /\ nodes' = Append(nodes, new)
      /\ root_failures' = Append(root_failures, Len(nodes'))
      /\ states' = Append(states, Len(nodes'))
      /\ UNCHANGED <<plan, limits, truncated, eStatus>>
  BY DEF E!Fail
<1>2. E!Running
  BY <1>1, ReadyUnit
<1>3. /\ nodes \in Seq(E!Node) /\ Len(nodes) \in Nat /\ truncated \in 0..Len(nodes)
  BY SessionFacts
<1>4. /\ new \in E!Node /\ new.kind = "Root" /\ new.unit = E!Current /\ new.causes = <<>>
      /\ Elements(new.causes) = {}
  <2>1. E!Current \in Nat /\ E!unit.location \in Locations
    BY <1>2, <1>3, UnitFacts, SessionFacts
  <2> QED BY <2>1 DEF E!Node, Elements
<1> HIDE DEF new
<1>5. /\ nodes' \in Seq(E!Node) /\ Len(nodes') = Len(nodes) + 1
      /\ \A n \in DOMAIN nodes : nodes'[n] = nodes[n]
      /\ nodes'[Len(nodes')] = new
      /\ truncated' \in 0..Len(nodes')
      /\ E!CausesArePrior' /\ E!ArenaBounded'
      /\ \A n \in DOMAIN nodes' : nodes'[n].kind = "Truncated" <=> n = truncated'
  <2>1. Elements(new.causes) \subseteq 1..Len(nodes)
    BY <1>4
  <2> QED BY <1>1, <1>4, <2>1, NodeAdded
<1>6. PICK s : s = Len(nodes')
  OBVIOUS
<1>7. /\ s \in 0..Len(nodes') /\ s # 0 /\ Len(nodes) <= Len(nodes')
      /\ states' = Append(states, s) /\ root_failures' = Append(root_failures, s)
      /\ nodes'[s] = new
  BY <1>1, <1>3, <1>5, <1>6
<1>8. /\ states' \in Seq(0..Len(nodes')) /\ Len(states') <= Len(plan)
      /\ E!ValuesRestOnValues' /\ OwnCauses' /\ StatesExplained'
  <2>1. nodes'[s].kind = "Root" => nodes'[s].unit = E!Current
    BY <1>4, <1>7
  <2>2. \A c \in Elements(nodes'[s].causes) :
            \E d \in Elements(E!unit.dependencies) : states[d] = c
    BY <1>4, <1>7
  <2> QED BY <1>1, <1>2, <1>5, <1>7, <2>1, <2>2, StateAdded
<1>9. root_failures' \in Seq(1..Len(nodes')) /\ root_failures' # <<>>
  <2>1. root_failures \in Seq(1..Len(nodes))
    BY DEF SessionInv, E!TypeOK
  <2>2. 1..Len(nodes) \subseteq 1..Len(nodes') /\ s \in 1..Len(nodes')
    BY <1>3, <1>5, <1>7
  <2>3. root_failures \in Seq(1..Len(nodes'))
    BY <2>1, <2>2, SeqWider
  <2>4. Append(root_failures, s) \in Seq(1..Len(nodes')) /\ Append(root_failures, s) # <<>>
    BY ONLY <2>2, <2>3, ElementsOfMore
  <2> QED BY <1>7, <2>4
<1>10. E!TypeOK'
  BY <1>1, <1>5, <1>8, <1>9 DEF SessionInv, E!TypeOK
<1>11. eStatus' # "done"
  BY <1>1, <1>2 DEF E!Running
<1> QED BY <1>1, <1>5, <1>8, <1>9, <1>10, <1>11 DEF SessionInv

LEMMA SessionStarts == E!Init => SessionInv
<1> SUFFICES ASSUME E!Init PROVE SessionInv
  OBVIOUS
<1>1. /\ plan \in Plans /\ limits \in Limits /\ states = <<>> /\ root_failures = <<>>
      /\ nodes = <<>> /\ truncated = 0 /\ eStatus = "running"
  BY DEF E!Init
<1>2. E!TypeOK
  <2>1. Len(plan) \in Nat
    BY <1>1, PlanFacts
  <2> QED BY <1>1, <2>1 DEF E!TypeOK
<1>3. E!ArenaBounded
  <2>1. {n \in DOMAIN nodes : nodes[n].kind = "Propagated"} = {}
    BY <1>1
  <2>2. {n \in DOMAIN nodes : nodes[n].kind = "Truncated"} = {}
    BY <1>1
  <2>3. Cardinality({}) = 0 /\ limits.nodes \in Nat
    BY <1>1, FS_EmptySet, EvaluationAssumption
  <2>4. E!PropagatedCount = 0
    BY <2>1, <2>3, SameCardinality DEF E!PropagatedCount
  <2> QED BY <1>1, <2>2, <2>3, <2>4, SameCardinality DEF E!ArenaBounded
<1>4. E!ValuesRestOnValues /\ E!CausesArePrior /\ OwnCauses /\ StatesExplained
  BY <1>1 DEF E!ValuesRestOnValues, E!CausesArePrior, OwnCauses, StatesExplained
<1> QED BY <1>1, <1>2, <1>3, <1>4 DEF SessionInv

LEMMA SessionKeeps == SessionInv /\ [E!Next]_session => SessionInv'
<1> SUFFICES ASSUME SessionInv, [E!Next]_session PROVE SessionInv'
  OBVIOUS
<1>1. ASSUME UNCHANGED <<plan, limits, states, root_failures, nodes, truncated>>,
             eStatus' \in {"running", "done", "exhausted", "aborted"},
             eStatus' = "done" => Len(states) = Len(plan)
      PROVE  SessionInv'
  BY <1>1 DEF SessionInv, E!TypeOK, E!ValuesRestOnValues, E!CausesArePrior, E!ArenaBounded,
     E!PropagatedCount, OwnCauses, StatesExplained
<1>2. CASE E!Exhaust \/ E!Abort \/ E!Finish
  BY <1>1, <1>2 DEF E!Exhaust, E!Abort, E!Finish
<1>3. CASE UNCHANGED session
  BY <1>1, <1>3 DEF session, SessionInv, E!TypeOK
<1> QED BY <1>2, <1>3, PropagateKeeps, SucceedKeeps, FailKeeps DEF E!Next

\* Following dependencies stays within the plan, following causes in the arena.
LEMMA SessionGraphs ==
    ASSUME SessionInv
    PROVE  /\ \A i, d : i \in DOMAIN plan /\ d \in Elements(plan[i].dependencies) =>
                  d \in DOMAIN plan /\ d < i
           /\ \A n, c : n \in DOMAIN nodes /\ c \in Elements(nodes[n].causes) =>
                  c \in DOMAIN nodes /\ c < n
           /\ DOMAIN states \subseteq DOMAIN plan
<1>1. /\ Len(plan) \in Nat /\ DOMAIN plan = 1..Len(plan)
      /\ \A i \in DOMAIN plan : Elements(plan[i].dependencies) \subseteq 1..(i - 1)
  BY PlanFacts DEF SessionInv
<1>2. /\ Len(nodes) \in Nat /\ DOMAIN nodes = 1..Len(nodes)
      /\ DOMAIN states = 1..Len(states) /\ Len(states) \in Nat /\ Len(states) <= Len(plan)
  BY SessionFacts
<1>3. \A n \in DOMAIN nodes : Elements(nodes[n].causes) \subseteq 1..(n - 1)
  BY DEF SessionInv, E!CausesArePrior, Elements
<1>4. \A i, d : i \in DOMAIN plan /\ d \in 1..(i - 1) => d \in DOMAIN plan /\ d < i
  BY <1>1
<1>5. \A n, c : n \in DOMAIN nodes /\ c \in 1..(n - 1) => c \in DOMAIN nodes /\ c < n
  BY <1>2
<1>6. DOMAIN states \subseteq DOMAIN plan
  BY <1>1, <1>2
<1> HIDE DEF Elements
<1> QED BY <1>1, <1>3, <1>4, <1>5, <1>6, Zenon

\* What is reached from a failure goes down to a root, and each step of the way
\* is the failure of a unit that is needed.
LEMMA BlamedAreOwn == SessionInv => E!FailuresAreOwn
<1> SUFFICES ASSUME SessionInv, NEW i \in DOMAIN states, states[i] # 0
             PROVE  /\ E!Roots(states[i]) # {}
                    /\ truncated = 0 => \A r \in E!Roots(states[i]) :
                                            nodes[r].unit \in E!Needs(i)
  BY DEF E!FailuresAreOwn, E!Value
<1> DEFINE causes == [m \in DOMAIN nodes |-> E!Elements(nodes[m].causes)]
           needs == [j \in DOMAIN plan |-> E!Elements(plan[j].dependencies)]
           Origins == Reached(causes, states[i])
<1>1. /\ \A x, y : x \in DOMAIN plan /\ y \in needs[x] => y \in DOMAIN plan /\ y < x
      /\ \A x, y : x \in DOMAIN nodes /\ y \in causes[x] => y \in DOMAIN nodes /\ y < x
      /\ DOMAIN states \subseteq DOMAIN plan
      /\ \A x \in DOMAIN plan : needs[x] = Elements(plan[x].dependencies)
      /\ \A x \in DOMAIN nodes : causes[x] = Elements(nodes[x].causes)
  BY SessionGraphs, SameElements
<1>2. /\ DOMAIN nodes = 1..Len(nodes) /\ Len(nodes) \in Nat
      /\ \A j \in DOMAIN states : states[j] # 0 => states[j] \in DOMAIN nodes
  BY SessionFacts
<1>3. /\ E!Roots(states[i]) = {n \in Origins : nodes[n].kind = "Root"}
      /\ E!Needs(i) = Reached(needs, i)
  BY DEF E!Roots, E!Needs, E!Reached, Reached
<1>4. DOMAIN causes = DOMAIN nodes /\ DOMAIN needs = DOMAIN plan
  OBVIOUS
<1>5. Origins \subseteq DOMAIN nodes /\ states[i] \in Origins
  <2>1. states[i] \in DOMAIN causes
    BY <1>2, <1>4
  <2>2. Origins \subseteq DOMAIN causes
    BY DEF Reached
  <2> HIDE DEF causes
  <2> QED BY <1>4, <2>1, <2>2, ReachedHasStart
<1> HIDE DEF causes, needs
<1>6. \E r \in Origins : nodes[r].kind = "Root"
  <2>1. Origins \in SUBSET Nat /\ Origins # {}
    BY <1>2, <1>5
  <2>2. PICK m \in Origins : \A k \in Origins : m <= k
    <3> HIDE DEF Origins
    <3> QED BY <2>1, LeastExists
  <2>3. causes[m] = {}
    <3>1. ASSUME NEW c \in causes[m] PROVE FALSE
      <4>1. c \in DOMAIN nodes /\ c < m /\ m \in DOMAIN nodes
        BY <1>1, <1>5, <3>1
      <4>2. c \in Origins
        BY <1>4, <3>1, <4>1, ReachedFollows
      <4>3. m <= c /\ m \in Nat /\ c \in Nat
        BY <1>2, <2>2, <4>1, <4>2
      <4> QED BY ONLY <4>1, <4>3
    <3> QED BY <3>1
  <2>4. nodes[m].causes = <<>>
    <3>1. m \in DOMAIN nodes /\ Elements(nodes[m].causes) = {}
      BY <1>1, <1>5, <2>3
    <3>2. nodes[m].causes \in Seq(Nat)
      <4>1. nodes \in Seq(E!Node)
        BY SessionFacts
      <4>2. nodes[m] \in E!Node
        BY <3>1, <4>1
      <4> QED BY <4>2 DEF E!Node
    <3>3. PICK c : c = nodes[m].causes
      OBVIOUS
    <3>4. 1 \notin DOMAIN c
      BY <3>1, <3>3 DEF Elements
    <3> QED BY <3>2, <3>3, <3>4
  <2>5. nodes[m].kind = "Root"
    BY <1>5, <2>4 DEF SessionInv, E!CausesArePrior
  <2> QED BY <2>5
<1>7. ASSUME truncated = 0, NEW r \in Origins, nodes[r].kind = "Root"
      PROVE  nodes[r].unit \in Reached(needs, i)
  <2> DEFINE T == {n \in DOMAIN nodes :
                      \E j \in Reached(needs, i) : j \in DOMAIN states /\ states[j] = n}
  <2>1. i \in Reached(needs, i)
    BY <1>1, <1>4, ReachedHasStart
  <2>2. states[i] \in T
    BY <1>2, <2>1
  <2>3. ASSUME NEW n \in T, NEW c \in causes[n] PROVE c \in T
    <3>1. PICK j \in Reached(needs, i) : j \in DOMAIN states /\ states[j] = n
      BY <2>3
    <3>2. n \in DOMAIN nodes /\ n # 0
      BY <1>2, <2>3
    <3>3. PICK d \in Elements(plan[j].dependencies) : states[d] = c
      <4>1. \A e \in Elements(nodes[states[j]].causes) :
                \E d \in Elements(plan[j].dependencies) : states[d] = e
        BY <1>7, <3>1, <3>2 DEF SessionInv, OwnCauses
      <4>2. c \in Elements(nodes[n].causes)
        BY <1>1, <2>3, <3>2
      <4> QED BY <3>1, <4>1, <4>2
    <3>4. d \in DOMAIN plan /\ d < j /\ j \in DOMAIN plan /\ d \in needs[j]
      BY <1>1, <3>1, <3>3
    <3>5. d \in Reached(needs, i)
      BY <1>4, <3>4, ReachedFollows
    <3>6. d \in DOMAIN states
      <4>1. DOMAIN states = 1..Len(states) /\ Len(states) \in Nat
        BY SessionFacts
      <4>2. DOMAIN plan = 1..Len(plan) /\ Len(plan) \in Nat
        BY PlanFacts DEF SessionInv
      <4> QED BY <3>1, <3>4, <4>1, <4>2
    <3>7. c \in DOMAIN nodes
      BY <1>1, <2>3, <3>2
    <3> QED BY <3>3, <3>5, <3>6, <3>7
  <2>4. Origins \subseteq T
    <3>1. \A x \in T \cap DOMAIN causes : causes[x] \subseteq T \cap DOMAIN causes
      <4>1. T \subseteq DOMAIN causes
        BY <1>4
      <4> HIDE DEF T
      <4> QED BY <2>3, <4>1
    <3>2. states[i] \in DOMAIN causes
      BY <1>4, <1>5
    <3> HIDE DEF T
    <3> QED BY <2>2, <3>1, <3>2, ReachedWithin
  <2>5. PICK j \in Reached(needs, i) : j \in DOMAIN states /\ states[j] = r
    BY <2>4
  <2>6. r # 0
    BY <1>2, <1>5
  <2>7. nodes[r].unit = j
    BY <1>7, <2>5, <2>6 DEF SessionInv, OwnCauses
  <2> QED BY <2>5, <2>7
<1> HIDE DEF Origins
<1> QED BY <1>3, <1>6, <1>7

\* A unit that failed has, among what it needs, a unit that fails when run.
LEMMA IndependentRan == SessionInv => E!IndependentUnitsRun
<1> SUFFICES ASSUME SessionInv, eStatus = "done"
             PROVE  /\ Len(states) = Len(plan)
                    /\ \A i \in DOMAIN plan :
                          (\A j \in E!Needs(i) \ {i} : plan[j].outcome = "value") =>
                              (states[i] = 0 <=> plan[i].outcome = "value")
  BY DEF E!IndependentUnitsRun, E!Value
<1>1. Len(states) = Len(plan) /\ DOMAIN states = DOMAIN plan
  <2>1. Len(states) = Len(plan)
    BY DEF SessionInv
  <2>2. DOMAIN states = 1..Len(states) /\ DOMAIN plan = 1..Len(plan)
    BY SessionFacts, PlanFacts DEF SessionInv
  <2> QED BY <2>1, <2>2
<1> DEFINE needs == [j \in DOMAIN plan |-> E!Elements(plan[j].dependencies)]
<1>2. /\ \A x, y : x \in DOMAIN plan /\ y \in needs[x] => y \in DOMAIN plan /\ y < x
      /\ \A x \in DOMAIN plan : needs[x] = Elements(plan[x].dependencies)
  BY SessionGraphs, SameElements
<1>3. \A i : E!Needs(i) = Reached(needs, i)
  BY DEF E!Needs, E!Reached, Reached
<1>4. DOMAIN needs = DOMAIN plan
  OBVIOUS
<1> HIDE DEF needs
<1>5. ASSUME NEW i \in DOMAIN plan,
             \A j \in Reached(needs, i) \ {i} : plan[j].outcome = "value",
             plan[i].outcome = "value"
      PROVE  states[i] = 0
  <2> DEFINE bad == {j \in Reached(needs, i) : states[j] # 0}
  <2>1. i \in Reached(needs, i) /\ Reached(needs, i) \subseteq DOMAIN plan
    <3>1. Reached(needs, i) \subseteq DOMAIN needs
      BY DEF Reached
    <3> QED BY <1>4, <3>1, ReachedHasStart
  <2>2. ASSUME bad # {} PROVE FALSE
    <3>1. bad \in SUBSET Nat
      BY <2>1, PlanFacts DEF SessionInv
    <3>2. PICK m \in bad : \A k \in bad : m <= k
      <4> HIDE DEF bad
      <4> QED BY <2>2, <3>1, LeastExists
    <3>3. m \in Reached(needs, i) /\ m \in DOMAIN plan /\ states[m] # 0
      BY <2>1
    <3>4. plan[m].outcome = "value"
      BY <1>5, <3>3
    <3>5. PICK d \in Elements(plan[m].dependencies) : states[d] # 0
      BY <1>1, <3>3, <3>4 DEF SessionInv, StatesExplained
    <3>6. d \in DOMAIN plan /\ d < m /\ d \in needs[m]
      BY <1>2, <3>3, <3>5
    <3>7. d \in bad
      BY <1>4, <3>3, <3>5, <3>6, ReachedFollows
    <3>8. m <= d /\ m \in Nat /\ d \in Nat
      BY <3>1, <3>2, <3>7
    <3> QED BY ONLY <3>6, <3>8
  <2> QED BY <2>1, <2>2
<1>6. \A i \in DOMAIN plan : states[i] = 0 => plan[i].outcome = "value"
  BY <1>1 DEF SessionInv, StatesExplained
<1> QED BY <1>1, <1>3, <1>5, <1>6

LEMMA OutputClean == SessionInv => E!OutputIsClean
<1> SUFFICES ASSUME SessionInv, eStatus \in {"done", "exhausted"}, E!Output
             PROVE  Len(states) = Len(plan) /\ \A i \in DOMAIN states : states[i] = 0
  BY DEF E!OutputIsClean, E!Value
<1> QED BY DEF SessionInv, E!Output

----------------------------------------------------------------------------
(* The replay of a module's bindings (Replay).                             *)

IsList(s) == s \in Seq({s[k] : k \in DOMAIN s})

\* No diagnostic is there twice, but for those of the first n.
NewOnce(s, n) == \A i, j \in DOMAIN s : s[i] = s[j] /\ i < j => j <= n

LEMMA AppendedOnce ==
    ASSUME NEW S, NEW s \in Seq(S), NEW n \in Nat, NewOnce(s, n),
           NEW x \in S, x \notin Elements(s)
    PROVE  Append(s, x) \in Seq(S) /\ NewOnce(Append(s, x), n)
<1>1. PICK t : t = Append(s, x)
  OBVIOUS
<1>2. /\ t \in Seq(S) /\ Len(s) \in Nat
      /\ DOMAIN t = 1..(Len(s) + 1) /\ DOMAIN s = 1..Len(s)
      /\ \A k \in DOMAIN s : t[k] = s[k] /\ s[k] # x
      /\ t[Len(s) + 1] = x
  BY <1>1 DEF Elements
<1>3. ASSUME NEW i \in DOMAIN t, NEW j \in DOMAIN t, t[i] = t[j], i < j
      PROVE  j <= n
  <2>1. i \in DOMAIN s
    BY <1>2, <1>3
  <2>2. j \in DOMAIN s \/ j = Len(s) + 1
    BY <1>2
  <2>3. j \in DOMAIN s /\ s[i] = s[j]
    BY <1>2, <1>3, <2>1, <2>2
  <2> QED BY <1>3, <2>1, <2>3 DEF NewOnce
<1> QED BY <1>1, <1>2, <1>3 DEF NewOnce

\* Merging adds, one by one, what is not there yet.
LEMMA MergedOnce ==
    ASSUME NEW n \in Nat, NEW known, IsList(known), NewOnce(known, n),
           NEW new, IsList(new)
    PROVE  LET merged == R!Merged(known, new)
           IN  IsList(merged) /\ NewOnce(merged, n)
<1> DEFINE N == Len(new)
           P == {known[k] : k \in DOMAIN known} \cup {new[k] : k \in DOMAIN new}
           S == Seq(P)
           next1(k, s) == IF new[k] \in R!Elements(s) THEN s ELSE Append(s, new[k])
           step == [q \in (1..N) \X S |-> next1(q[1], q[2])]
           Is(f) == f = [k \in 0..N |-> IF k = 0 THEN known ELSE next1(k, f[k - 1])]
           merged == CHOOSE f : Is(f)
<1>1. /\ N \in Nat /\ DOMAIN new = 1..N /\ \A k \in 1..N : new[k] \in P
  BY DEF IsList
<1>2. known \in S
  <2>1. \A k \in DOMAIN known : known[k] \in P
    OBVIOUS
  <2> HIDE DEF P
  <2> QED BY <2>1, SeqOver DEF IsList
<1> HIDE DEF P
<1>3. \A k \in 1..N, s \in S : next1(k, s) \in S
  BY <1>1
<1>4. step \in [(1..N) \X S -> S]
  BY <1>3
<1>5. \A k \in 1..N, s \in S : step[<<k, s>>] = next1(k, s)
  OBVIOUS
<1>6. PICK f : Folds(f, N, S, known, step)
  <2> HIDE DEF N, S, step
  <2> QED BY <1>1, <1>2, <1>4, FoldExists
<1> HIDE DEF step, next1
<1>7. Is(f)
  <2>1. ASSUME NEW k \in 1..N PROVE f[k] = next1(k, f[k - 1])
    <3>1. k - 1 \in 0..N
      BY <1>1
    <3> QED BY <1>5, <1>6, <3>1 DEF Folds
  <2>2. \A k \in 0..N : k = 0 \/ k \in 1..N
    BY <1>1
  <2> HIDE DEF N, S
  <2> QED BY <1>6, <2>1, <2>2 DEF Folds
<1>8. Is(merged)
  BY <1>7
<1>9. R!Merged(known, new) = merged[N]
  BY DEF R!Merged, next1
<1> HIDE DEF merged
<1>10. merged[0] = known /\ \A k \in 1..N : merged[k] = next1(k, merged[k - 1])
  <2> DEFINE h == [k \in 0..N |-> IF k = 0 THEN known ELSE next1(k, merged[k - 1])]
  <2>1. h[0] = known /\ \A k \in 1..N : h[k] = next1(k, merged[k - 1])
    BY <1>1
  <2>2. merged = h
    BY <1>8
  <2> HIDE DEF h
  <2> QED BY <2>1, <2>2
<1> DEFINE Good == {k \in 0..N : merged[k] \in S /\ NewOnce(merged[k], n)}
<1>11. 0 \in Good
  BY <1>1, <1>2, <1>10
<1>12. ASSUME NEW k \in 1..N, k - 1 \in Good PROVE k \in Good
  <2> DEFINE old == merged[k - 1]
             d == new[k]
  <2>1. old \in Seq(P) /\ NewOnce(old, n) /\ d \in P /\ k \in 0..N
    BY <1>1, <1>12
  <2>2. merged[k] = next1(k, old)
    BY <1>10
  <2> HIDE DEF old
  <2>3. CASE d \in R!Elements(old)
    <3>1. merged[k] = old
      BY <2>2, <2>3 DEF next1
    <3> QED BY <2>1, <3>1
  <2>4. CASE d \notin R!Elements(old)
    <3>1. merged[k] = Append(old, d) /\ d \notin Elements(old)
      BY <2>2, <2>4 DEF next1, R!Elements, Elements
    <3> HIDE DEF d
    <3>2. Append(old, d) \in Seq(P) /\ NewOnce(Append(old, d), n)
      BY ONLY <2>1, <3>1, n \in Nat, AppendedOnce
    <3> QED BY <2>1, <3>1, <3>2
  <2> QED BY <2>3, <2>4
<1>13. N \in Good
  <2> HIDE DEF Good, N
  <2>1. \A k \in 1..N : k - 1 \in Good => k \in Good
    BY <1>12
  <2>2. \A k \in 0..N : k \in Good
    BY <1>1, <1>11, <2>1, UpTo
  <2> QED BY <1>1, <2>2
<1>14. merged[N] \in S /\ NewOnce(merged[N], n)
  BY <1>13
<1>15. \A s \in S : IsList(s)
  <2>1. ASSUME NEW s \in Seq(P) PROVE IsList(s)
    BY SeqOver DEF IsList
  <2> QED BY <2>1
<1> QED BY <1>9, <1>14, <1>15

\* The strict run reports a sequence of diagnostics.
LEMMA EmittedIsList ==
    ASSUME NEW p \in Programs
    PROVE  IsList(R!Emitted(p))
<1> DEFINE N == Len(p)
           P == UNION {{p[k].reports[l] : l \in DOMAIN p[k].reports} : k \in DOMAIN p}
           S == Seq(P)
           over(k) == \E j \in 1..k-1 : p[j].ends # "value"
           next1(k, s) == IF over(k) THEN s ELSE s \o p[k].reports
           step == [q \in (1..N) \X S |-> next1(q[1], q[2])]
           Is(f) == f = [k \in 0..N |-> IF k = 0 THEN <<>> ELSE next1(k, f[k - 1])]
           reported == CHOOSE f : Is(f)
<1>1. /\ N \in Nat /\ DOMAIN p = 1..N
      /\ \A k \in 1..N : IsList(p[k].reports)
  <2>1. p \in Seq({p[i] : i \in DOMAIN p}) /\ \A i \in DOMAIN p : IsList(p[i].reports)
    BY ReplayAssumption DEF IsList
  <2>2. N \in Nat /\ DOMAIN p = 1..N
    BY <2>1
  <2> HIDE DEF N
  <2> QED BY <2>1, <2>2
<1>2. \A k \in 1..N : p[k].reports \in S
  <2> TAKE k \in 1..N
  <2>1. IsList(p[k].reports) /\ \A l \in DOMAIN p[k].reports : p[k].reports[l] \in P
    BY <1>1
  <2> HIDE DEF P, N
  <2> QED BY <2>1, SeqOver DEF IsList
<1> HIDE DEF P, over
<1>3. \A k \in 1..N, s \in S : next1(k, s) \in S
  BY <1>2
<1>4. step \in [(1..N) \X S -> S] /\ <<>> \in S
  BY <1>3
<1>5. \A k \in 1..N, s \in S : step[<<k, s>>] = next1(k, s)
  OBVIOUS
<1>6. PICK f : Folds(f, N, S, <<>>, step)
  <2> HIDE DEF N, S, step
  <2> QED BY <1>1, <1>4, FoldExists
<1> HIDE DEF step, next1
<1>7. Is(f)
  <2>1. ASSUME NEW k \in 1..N PROVE f[k] = next1(k, f[k - 1])
    <3>1. k - 1 \in 0..N
      BY <1>1
    <3> QED BY <1>5, <1>6, <3>1 DEF Folds
  <2>2. \A k \in 0..N : k = 0 \/ k \in 1..N
    BY <1>1
  <2> HIDE DEF N, S
  <2> QED BY <1>6, <2>1, <2>2 DEF Folds
<1>8. Is(reported)
  BY <1>7
<1>9. R!Emitted(p) = reported[N]
  BY DEF R!Emitted, next1, over
<1> HIDE DEF reported
<1>10. reported[0] = <<>> /\ \A k \in 1..N : reported[k] = next1(k, reported[k - 1])
  <2> DEFINE h == [k \in 0..N |-> IF k = 0 THEN <<>> ELSE next1(k, reported[k - 1])]
  <2>1. h[0] = <<>> /\ \A k \in 1..N : h[k] = next1(k, reported[k - 1])
    BY <1>1
  <2>2. reported = h
    BY <1>8
  <2> HIDE DEF h
  <2> QED BY <2>1, <2>2
<1> DEFINE Good == {k \in 0..N : reported[k] \in S}
<1>11. 0 \in Good
  <2> HIDE DEF N, S
  <2>1. 0 \in 0..N /\ reported[0] \in S
    BY <1>1, <1>4, <1>10
  <2> QED BY <2>1
<1>12. \A k \in 1..N : k - 1 \in Good => k \in Good
  BY <1>1, <1>3, <1>10
<1>13. reported[N] \in S
  <2> HIDE DEF Good, N
  <2>1. \A k \in 0..N : k \in Good
    BY <1>1, <1>11, <1>12, UpTo
  <2>2. N \in Good
    BY <1>1, <2>1
  <2> QED BY <2>2 DEF Good
<1>14. ASSUME NEW s \in Seq(P) PROVE IsList(s)
  BY SeqOver DEF IsList
<1> QED BY <1>9, <1>13, <1>14

\* The bindings that ran and have a value.
Evaluated == {j \in ran : program[j].ends = "value"}

ReplayInv ==
    /\ program \in Programs
    /\ next \in 1..Len(program) + 1
    /\ ran \subseteq 1..next - 1
    /\ rStatus \in {"running", "done", "full", "stopped"}
    /\ rStatus = "done" => next > Len(program)
    /\ values = {program[j].name : j \in Evaluated}
    /\ failed \subseteq {program[j].name : j \in (1..next - 1) \ Evaluated}
    \* What ran referred to values only.
    /\ \A i \in ran : \A j \in DOMAIN program : R!Refers(i, j) => j \in Evaluated
    \* What did not run names something that failed, or refers to a name that
    \* had no value when its turn came.
    /\ \A i \in (1..next - 1) \ ran :
          \/ R!RuntimeNames(program[i]) \cap failed # {}
          \/ \E n \in program[i].refs :
                \A j \in 1..i-1 : program[j].name = n => j \notin Evaluated
    /\ IsList(diagnostics) /\ NewOnce(diagnostics, Len(R!Emitted(program)))

LEMMA ProgramFacts ==
    ASSUME ReplayInv
    PROVE  /\ Len(program) \in Nat /\ DOMAIN program = 1..Len(program)
           /\ \A i, j \in DOMAIN program : program[i].name = program[j].name => i = j
           /\ \A i \in DOMAIN program : IsList(program[i].reports)
           /\ next \in Nat /\ 1..next - 1 \subseteq DOMAIN program
           /\ Evaluated \subseteq ran /\ ran \subseteq DOMAIN program
           /\ next \notin 1..next - 1
           /\ Len(R!Emitted(program)) \in Nat
<1>1. program \in Programs /\ next \in 1..Len(program) + 1 /\ ran \subseteq 1..next - 1
  BY DEF ReplayInv
<1>2. /\ program \in Seq({program[i] : i \in DOMAIN program}) /\ ValidProgram(program)
      /\ \A i \in DOMAIN program : IsList(program[i].reports)
  BY <1>1, ReplayAssumption DEF IsList
<1>3. Len(R!Emitted(program)) \in Nat
  BY <1>1, EmittedIsList DEF IsList
<1> QED BY <1>1, <1>2, <1>3 DEF ValidProgram, Evaluated

LEMMA ReplayStarts == R!Init => ReplayInv
<1> SUFFICES ASSUME R!Init PROVE ReplayInv
  OBVIOUS
<1>1. /\ program \in Programs /\ next = 1 /\ values = {} /\ failed = {}
      /\ diagnostics = R!Emitted(program) /\ ran = {} /\ rStatus = "running"
  BY DEF R!Init
<1>2. IsList(diagnostics) /\ NewOnce(diagnostics, Len(R!Emitted(program)))
  <2>1. IsList(diagnostics)
    BY <1>1, EmittedIsList
  <2> QED BY <1>1, <2>1 DEF NewOnce, IsList
<1>3. next \in 1..Len(program) + 1 /\ 1..next - 1 = {}
  <2>1. Len(program) \in Nat
    BY <1>1, ReplayAssumption
  <2> QED BY <1>1, <2>1
<1>4. Evaluated = {}
  BY <1>1 DEF Evaluated
<1> QED BY <1>1, <1>2, <1>3, <1>4 DEF ReplayInv

\* What does not compile, or names what failed, joins it.
LEMMA SkipKeeps == ReplayInv /\ R!Skip => ReplayInv'
<1> SUFFICES ASSUME ReplayInv, R!Skip PROVE ReplayInv'
  OBVIOUS
<1>1. /\ R!AtBinding /\ (R!Blocked \/ ~R!Compiles)
      /\ failed' = failed \cup {program[next].name} /\ next' = next + 1
      /\ UNCHANGED <<program, values, diagnostics, ran, rStatus>>
  BY DEF R!Skip, R!HasRoom, R!binding
<1>2. Evaluated' = Evaluated
  BY <1>1 DEF Evaluated
<1>3. /\ next \in Nat /\ next \notin ran /\ next \notin Evaluated
      /\ 1..next' - 1 = (1..next - 1) \cup {next}
      /\ next' \in 1..Len(program) + 1
  BY <1>1, ProgramFacts DEF ReplayInv, R!AtBinding
<1>4. failed' \subseteq {program[j].name : j \in (1..next' - 1) \ Evaluated}
  BY <1>1, <1>3 DEF ReplayInv
<1>5. ASSUME NEW i \in (1..next' - 1) \ ran
      PROVE  \/ R!RuntimeNames(program[i]) \cap failed' # {}
             \/ \E n \in program[i].refs :
                   \A j \in 1..i-1 : program[j].name = n => j \notin Evaluated
  <2>1. CASE i \in 1..next - 1
    BY <1>1, <1>5, <2>1 DEF ReplayInv
  <2>2. CASE i = next
    <3>1. CASE R!Blocked
      BY <1>1, <2>2, <3>1 DEF R!Blocked, R!binding
    <3>2. CASE ~R!Compiles
      <4>1. PICK n \in program[i].refs : n \notin values
        BY <2>2, <3>2 DEF R!Compiles, R!binding
      <4>2. \A j \in Evaluated : program[j].name # n
        BY <4>1 DEF ReplayInv
      <4> QED BY <4>2
    <3> QED BY <1>1, <3>1, <3>2
  <2> QED BY <1>3, <1>5, <2>1, <2>2
<1>6. R!RuntimeNames(program[1])' = R!RuntimeNames(program[1])
  BY <1>1 DEF R!RuntimeNames
<1>7. ran' \subseteq 1..next' - 1 /\ rStatus' # "done"
  BY <1>1, <1>3 DEF ReplayInv, R!AtBinding
<1>8. \A i \in ran : \A j \in DOMAIN program : R!Refers(i, j)' => j \in Evaluated
  BY <1>1 DEF ReplayInv, R!Refers
<1> QED BY <1>1, <1>2, <1>3, <1>4, <1>5, <1>7, <1>8 DEF ReplayInv, R!RuntimeNames

\* What runs referred to values only, and becomes one, or fails.
LEMMA RanKeeps ==
    ASSUME ReplayInv, R!AtBinding, R!Compiles,
           ran' = ran \cup {next}, next' = next + 1, program' = program,
           diagnostics' = R!Merged(diagnostics, program[next].reports),
           rStatus' \in {"running", "stopped"},
           IF program[next].ends = "value"
           THEN values' = values \cup {program[next].name} /\ failed' = failed
           ELSE values' = values /\ failed' \in {failed, failed \cup {program[next].name}}
    PROVE  ReplayInv'
<1>1. /\ next \in Nat /\ next \in DOMAIN program
      /\ next \notin 1..next - 1 /\ next \notin ran
      /\ 1..next' - 1 = (1..next - 1) \cup {next}
      /\ next' \in 1..Len(program) + 1
      /\ ran \subseteq DOMAIN program /\ Evaluated \subseteq ran
  BY ProgramFacts DEF ReplayInv, R!AtBinding
<1>2. Evaluated' = Evaluated \cup
          IF program[next].ends = "value" THEN {next} ELSE {}
  BY <1>1 DEF Evaluated
<1>3. values' = {program[j].name : j \in Evaluated'}
  BY <1>2 DEF ReplayInv
<1>4. failed' \subseteq {program[j].name : j \in (1..next' - 1) \ Evaluated'}
  <2>1. failed \subseteq {program[j].name : j \in (1..next - 1) \ Evaluated}
    BY DEF ReplayInv
  <2>2. (1..next - 1) \ Evaluated \subseteq (1..next' - 1) \ Evaluated'
    BY <1>1, <1>2
  <2>3. program[next].ends # "value" => next \in (1..next' - 1) \ Evaluated'
    BY <1>1, <1>2
  <2> QED BY <2>1, <2>2, <2>3
<1>5. ASSUME NEW i \in ran', NEW j \in DOMAIN program, R!Refers(i, j)
      PROVE  j \in Evaluated'
  <2>1. CASE i \in ran
    BY <1>2, <1>5, <2>1 DEF ReplayInv
  <2>2. CASE i = next
    <3>1. program[j].name \in values
      BY <1>5, <2>2 DEF R!Refers, R!Compiles, R!binding
    <3>2. PICK k \in Evaluated : program[k].name = program[j].name
      BY <3>1 DEF ReplayInv
    <3>3. k = j
      BY <1>1, <3>2, ProgramFacts
    <3> QED BY <1>2, <3>3
  <2> QED BY <1>5, <2>1, <2>2
<1>6. ASSUME NEW i \in (1..next' - 1) \ ran'
      PROVE  \/ R!RuntimeNames(program[i]) \cap failed' # {}
             \/ \E n \in program[i].refs :
                   \A j \in 1..i-1 : program[j].name = n => j \notin Evaluated'
  <2>1. i \in (1..next - 1) \ ran
    BY <1>1, <1>6
  <2>2. \A j \in 1..i-1 : j # next
    BY <1>1, <2>1
  <2>3. failed \subseteq failed'
    OBVIOUS
  <2>4. \/ R!RuntimeNames(program[i]) \cap failed # {}
        \/ \E n \in program[i].refs :
              \A j \in 1..i-1 : program[j].name = n => j \notin Evaluated
    BY <2>1 DEF ReplayInv
  <2> QED BY <1>2, <2>2, <2>3, <2>4
<1>7. IsList(diagnostics') /\ NewOnce(diagnostics', Len(R!Emitted(program)))
  <2>1. /\ IsList(diagnostics) /\ NewOnce(diagnostics, Len(R!Emitted(program)))
        /\ Len(R!Emitted(program)) \in Nat /\ IsList(program[next].reports)
    BY <1>1, ProgramFacts DEF ReplayInv
  <2> QED BY ONLY <2>1, diagnostics' = R!Merged(diagnostics, program[next].reports),
             MergedOnce
<1>8. R!Emitted(program)' = R!Emitted(program)
  BY DEF R!Emitted
<1>9. ran' \subseteq 1..next' - 1 /\ rStatus' # "done"
  BY <1>1 DEF ReplayInv
<1>10. \A i \in ran' : \A j \in DOMAIN program : R!Refers(i, j)' => j \in Evaluated'
  <2>1. \A i, j : R!Refers(i, j)' <=> R!Refers(i, j)
    BY DEF R!Refers
  <2> QED BY <1>5, <2>1
<1> QED BY <1>1, <1>3, <1>4, <1>6, <1>7, <1>8, <1>9, <1>10 DEF ReplayInv, R!RuntimeNames

LEMMA ReplayKeeps == ReplayInv /\ [R!Next]_replay => ReplayInv'
<1> SUFFICES ASSUME ReplayInv, [R!Next]_replay PROVE ReplayInv'
  OBVIOUS
<1>1. ASSUME UNCHANGED <<program, next, values, failed, diagnostics, ran>>,
             rStatus' \in {"running", "done", "full", "stopped"},
             rStatus' = "done" => next > Len(program)
      PROVE  ReplayInv'
  BY <1>1 DEF ReplayInv, Evaluated, R!Refers, R!RuntimeNames, R!Emitted
<1>2. CASE R!Full \/ R!Finish
  BY <1>1, <1>2 DEF R!Full, R!Finish
<1>3. CASE UNCHANGED replay
  BY <1>1, <1>3 DEF replay, ReplayInv
<1>4. CASE R!Run
  <2>1. /\ R!AtBinding /\ R!Compiles
        /\ ran' = ran \cup {next} /\ next' = next + 1
        /\ diagnostics' = R!Merged(diagnostics, program[next].reports)
        /\ UNCHANGED <<program, rStatus>> /\ rStatus = "running"
        /\ IF program[next].ends = "value"
           THEN values' = values \cup {program[next].name} /\ failed' = failed
           ELSE values' = values /\ failed' = failed \cup {program[next].name}
    BY <1>4 DEF R!Run, R!HasRoom, R!AtBinding, R!binding
  <2> QED BY <2>1, RanKeeps
<1>5. CASE R!Terminate
  <2>1. /\ R!AtBinding /\ R!Compiles /\ program[next].ends = "terminal"
        /\ ran' = ran \cup {next} /\ next' = next + 1
        /\ diagnostics' = R!Merged(diagnostics, program[next].reports)
        /\ UNCHANGED <<program, values, failed>> /\ rStatus' = "stopped"
    BY <1>5 DEF R!Terminate, R!HasRoom, R!binding
  <2> QED BY <2>1, RanKeeps
<1> QED BY <1>2, <1>3, <1>4, <1>5, SkipKeeps DEF R!Next

\* What ran needs nothing but values, and no report is there twice.
LEMMA CascadesNever == ReplayInv => R!NoCascades
<1> SUFFICES ASSUME ReplayInv PROVE R!NoCascades
  OBVIOUS
<1> DEFINE leads == [x \in DOMAIN program |-> {j \in DOMAIN program : R!Refers(x, j)}]
<1>1. ASSUME NEW i \in ran PROVE \A j \in R!Needs(i) : j \in Evaluated
  <2> DEFINE T == {i} \cup Evaluated
  <2>1. DOMAIN leads = DOMAIN program /\ i \in DOMAIN leads /\ i \in T
    BY ProgramFacts
  <2>2. \A x \in T \cap DOMAIN leads : leads[x] \subseteq T \cap DOMAIN leads
    <3> TAKE x \in T \cap DOMAIN leads
    <3>1. x \in ran
      BY ProgramFacts
    <3>2. leads[x] \subseteq Evaluated
      BY <3>1 DEF ReplayInv
    <3> QED BY <2>1, <3>2
  <2>3. R!Needs(i) = Reached(leads, i) \ {i}
    BY DEF R!Needs, R!Reached, Reached
  <2> HIDE DEF leads
  <2>4. Reached(leads, i) \subseteq T
    <3> HIDE DEF T
    <3> QED BY <2>1, <2>2, ReachedWithin
  <2> QED BY <2>3, <2>4
<1>2. \A i, j \in DOMAIN diagnostics :
        diagnostics[i] = diagnostics[j] /\ i < j => j <= Len(R!Emitted(program))
  BY DEF ReplayInv, NewOnce
<1>3. \A i \in ran : \A j \in R!Needs(i) : j \in ran /\ program[j].ends = "value"
  BY <1>1 DEF Evaluated
<1> QED BY <1>2, <1>3 DEF R!NoCascades

\* A replay that was not cut short came to every binding, and left out what it
\* had to.
LEMMA ReplayGoesOn == ReplayInv => R!IndependentRun
<1> SUFFICES ASSUME ReplayInv, rStatus = "done",
                    NEW i \in DOMAIN program, i \notin ran,
                    \A n \in program[i].refs : \E j \in 1..i-1 : program[j].name = n,
                    \A j \in R!Needs(i) : j \in ran /\ program[j].ends = "value",
                    program[i].bound \cap failed = {}
             PROVE  FALSE
  BY DEF R!IndependentRun
<1> DEFINE leads == [x \in DOMAIN program |-> {j \in DOMAIN program : R!Refers(x, j)}]
<1>1. /\ DOMAIN program = 1..Len(program) /\ Len(program) \in Nat
      /\ i \in 1..next - 1 /\ i \in Nat
      /\ \A k, l \in DOMAIN program : program[k].name = program[l].name => k = l
  BY ProgramFacts DEF ReplayInv
\* What it refers to has a value.
<1>2. ASSUME NEW n \in program[i].refs
      PROVE  \E j \in 1..i-1 : program[j].name = n /\ j \in Evaluated
  <2>1. PICK j \in 1..i-1 : program[j].name = n
    OBVIOUS
  <2>2. j \in DOMAIN program /\ j # i /\ R!Refers(i, j)
    BY <1>1, <2>1 DEF R!Refers
  <2>3. DOMAIN leads = DOMAIN program /\ j \in leads[i] /\ i \in DOMAIN leads
    BY <2>2
  <2>4. R!Needs(i) = Reached(leads, i) \ {i}
    BY DEF R!Needs, R!Reached, Reached
  <2> HIDE DEF leads
  <2>5. i \in Reached(leads, i)
    BY <2>3, ReachedHasStart
  <2>6. j \in Reached(leads, i)
    BY <2>2, <2>3, <2>5, ReachedFollows
  <2>7. j \in ran /\ program[j].ends = "value"
    BY <2>2, <2>4, <2>6
  <2> QED BY <2>1, <2>7 DEF Evaluated
<1>3. CASE R!RuntimeNames(program[i]) \cap failed # {}
  <2>1. PICK n \in failed : n \in program[i].refs
    BY <1>3 DEF R!RuntimeNames
  <2>2. PICK j \in (1..next - 1) \ Evaluated : program[j].name = n
    BY <2>1 DEF ReplayInv
  <2>3. PICK k \in Evaluated : program[k].name = n
    BY <1>2, <2>1
  <2>4. k = j
    BY <1>1, <2>2, <2>3, ProgramFacts
  <2> QED BY <2>2, <2>3, <2>4
<1>4. CASE \E n \in program[i].refs :
              \A j \in 1..i-1 : program[j].name = n => j \notin Evaluated
  BY <1>2, <1>4
<1> QED BY <1>1, <1>3, <1>4 DEF ReplayInv

LEMMA ReplayTyped == ReplayInv => R!TypeOK
<1> SUFFICES ASSUME ReplayInv PROVE R!TypeOK
  OBVIOUS
<1>1. values \cap failed = {}
  <2> SUFFICES ASSUME NEW n \in values, n \in failed PROVE FALSE
    OBVIOUS
  <2>1. PICK j \in Evaluated : program[j].name = n
    BY DEF ReplayInv
  <2>2. PICK k \in (1..next - 1) \ Evaluated : program[k].name = n
    BY DEF ReplayInv
  <2>3. j = k
    BY <2>1, <2>2, ProgramFacts
  <2> QED BY <2>1, <2>2, <2>3
<1> QED BY <1>1 DEF ReplayInv, R!TypeOK

----------------------------------------------------------------------------
(* The parts of the host.                                                  *)

SessionHolds == part = "session" => SessionInv

LEMMA SessionStays == SessionHolds /\ [HostNext]_HostVars => SessionHolds'
<1> SUFFICES ASSUME SessionHolds, [HostNext]_HostVars, part' = "session"
             PROVE  SessionInv'
  BY DEF SessionHolds
<1>1. part = "session" /\ [E!Next]_session
  BY DEF HostNext, HostVars
<1> QED BY <1>1, SessionKeeps DEF SessionHolds

ReplayHolds == part = "replay" => ReplayInv

LEMMA ReplayStays == ReplayHolds /\ [HostNext]_HostVars => ReplayHolds'
<1> SUFFICES ASSUME ReplayHolds, [HostNext]_HostVars, part' = "replay"
             PROVE  ReplayInv'
  BY DEF ReplayHolds
<1>1. part = "replay" /\ [R!Next]_replay
  BY DEF HostNext, HostVars
<1> QED BY <1>1, ReplayKeeps DEF ReplayHolds

----------------------------------------------------------------------------
(* Theorems.                                                               *)

\* However many threads inject into @main and initialize it, whenever its file
\* is edited, it is loaded once, with every accepted module and no other.
THEOREM MakesOnce == HostSpec => []MadeOnce
<1> DEFINE Inv == part = "handle" => HandleInv
<1>1. HostInit => Inv
  BY HandleStarts DEF HostInit
<1>2. Inv /\ [HostNext]_HostVars => Inv'
  <2> SUFFICES ASSUME Inv, [HostNext]_HostVars, part' = "handle" PROVE HandleInv'
    OBVIOUS
  <2>1. part = "handle" /\ [Next]_vars
    BY DEF HostNext, HostVars
  <2> QED BY <2>1, HandleKeeps
<1>3. Inv => MadeOnce
  BY HandleMadeOnce DEF MadeOnce
<1> QED BY <1>1, <1>2, <1>3, PTL DEF HostSpec

\* What a failed unit is blamed on: causes are older than what they cause, so
\* every failure goes back to units that were run, all of them needed by the
\* unit as long as nothing was truncated; the arena keeps its limits and shares
\* equal nodes.
THEOREM BlamesItsOwn == HostSpec => []FailuresAreOwn
<1>1. HostInit => SessionHolds
  BY SessionStarts DEF HostInit, SessionHolds
<1>2. SessionHolds /\ [HostNext]_HostVars => SessionHolds'
  BY SessionStays
<1>3. SessionHolds => FailuresAreOwn
  BY BlamedAreOwn DEF SessionHolds, FailuresAreOwn, SessionInv
<1> QED BY <1>1, <1>2, <1>3, PTL DEF HostSpec

\* A failure stops nothing that does not depend on it: in a session that is done
\* a unit with only values among its needs was run; a replay that was not cut
\* short ran every binding that needs values alone, ran none that needs what
\* failed, and repeats no diagnostic.
THEOREM RunsIndependent == HostSpec => []IndependentUnitsRun
<1> DEFINE Inv == SessionHolds /\ ReplayHolds
<1>1. HostInit => Inv
  BY SessionStarts, ReplayStarts DEF HostInit, SessionHolds, ReplayHolds
<1>2. Inv /\ [HostNext]_HostVars => Inv'
  BY SessionStays, ReplayStays
<1>3. Inv => IndependentUnitsRun
  BY IndependentRan, OutputClean, CascadesNever, ReplayGoesOn, ReplayTyped
     DEF SessionHolds, ReplayHolds, IndependentUnitsRun
<1> QED BY <1>1, <1>2, <1>3, PTL DEF HostSpec

=============================================================================
