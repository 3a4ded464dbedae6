---------------------------- MODULE StaticProofs ----------------------------
(***************************************************************************)
(* Theorems about what is decided of a program before it runs: for any     *)
(* crates on disk and any requests, which module an identity is; for any   *)
(* types, patterns and values, what the checker says of a match.           *)
(***************************************************************************)
EXTENDS ModuleId, MatchCheck, SequenceTheorems, Recursion

----------------------------------------------------------------------------
(* Paths: what normalising does, name by name.                              *)

Normal == Seq(Name \ {".", ".."})

AbsoluteNext(done, name) ==
    CASE name = "."  -> done
      [] name = ".." -> IF done = <<>> THEN done ELSE Front(done)
      [] OTHER       -> Append(done, name)

RelativeNext(done, name) ==
    CASE done = Escapes -> Escapes
      [] done # Escapes /\ name = "."  -> done
      [] done # Escapes /\ name = ".." ->
            IF done = <<>> THEN Escapes ELSE Front(done)
      [] OTHER -> Append(done, name)

FollowNext(links, done, name) ==
    LET next == Append(done, name) IN
    IF next \in DOMAIN links THEN links[next] ELSE next

\* f is what is done of a path after each of its names.
Walks(f, path, result) ==
    /\ DOMAIN path = 1..Len(path) /\ Len(path) \in Nat
    /\ \A k \in 1..Len(path) : path[k] \in Name
    /\ f[0] = <<>> /\ f[Len(path)] = result

LEMMA NotEscapes == \A p \in Normal : p # Escapes /\ p \in Path
<1>1. \A p \in Normal : p # Escapes
  <2> TAKE p \in Normal
  <2>1. ASSUME p = Escapes PROVE FALSE
    <3>1. 1 \in DOMAIN p /\ p[1] = ".."
      BY <2>1 DEF Escapes
    <3> QED BY <3>1 DEF Normal
  <2> QED BY <2>1
<1>2. Normal \subseteq Path
  BY DEF Normal, Path
<1> QED BY <1>1, <1>2

LEMMA EmptyIsNormal == <<>> \in Normal
BY DEF Normal

LEMMA NextIsNormal ==
    ASSUME NEW done \in Normal, NEW name \in Name
    PROVE  /\ AbsoluteNext(done, name) \in Normal
           /\ RelativeNext(done, name) \in Normal \cup {Escapes}
           /\ name \notin {".", ".."} =>
                 /\ Append(done, name) \in Normal
                 /\ AbsoluteNext(done, name) = Append(done, name)
                 /\ RelativeNext(done, name) = Append(done, name)
<1>1. done # <<>> => Front(done) \in Normal
  BY DEF Front, Normal
<1>2. name \notin {".", ".."} => Append(done, name) \in Normal
  BY DEF Normal
<1>3. done # Escapes
  BY NotEscapes
<1>4. AbsoluteNext(done, name) \in Normal
  BY <1>1, <1>2 DEF AbsoluteNext
<1>5. RelativeNext(done, name) \in Normal \cup {Escapes}
  BY <1>1, <1>2, <1>3 DEF RelativeNext
<1>6. name \notin {".", ".."} => /\ AbsoluteNext(done, name) = Append(done, name)
                                 /\ RelativeNext(done, name) = Append(done, name)
  BY <1>3 DEF AbsoluteNext, RelativeNext
<1> QED BY <1>2, <1>4, <1>5, <1>6

LEMMA RelativeWalk ==
    ASSUME NEW path \in Path
    PROVE  \E f : /\ Walks(f, path, LexicalNormalizeRelative(path))
                  /\ \A k \in 1..Len(path) : f[k] = RelativeNext(f[k - 1], path[k])
<1> DEFINE n == Len(path)
           S == Normal \cup {Escapes}
           next(k, s) == RelativeNext(s, path[k])
           step == [q \in (1..n) \X S |-> next(q[1], q[2])]
           Is(h) == h = [s \in SUBSET (DOMAIN path) |->
                            IF s = {} THEN <<>>
                            ELSE RelativeNext(h[s \ {Greatest(s)}], path[Greatest(s)])]
           iter == CHOOSE h : Is(h)
<1>1. DOMAIN path = 1..n /\ n \in Nat /\ \A k \in 1..n : path[k] \in Name
  BY DEF Path
<1>2. LexicalNormalizeRelative(path) = iter[DOMAIN path]
  BY DEF LexicalNormalizeRelative, FoldLeft, MapThenFoldSet, Max, Greatest, RelativeNext
<1> HIDE DEF n, S
<1>3. \A k \in 1..n, s \in S : next(k, s) \in S
  <2> TAKE k \in 1..n, s \in S
  <2>1. CASE s = Escapes
    BY <2>1 DEF RelativeNext, S
  <2>2. CASE s \in Normal
    BY <1>1, <2>2, NextIsNormal DEF S
  <2> QED BY <2>1, <2>2 DEF S
<1>4. step \in [(1..n) \X S -> S] /\ \A k \in 1..n, s \in S : step[<<k, s>>] = next(k, s)
  BY <1>3
<1>5. <<>> \in S
  BY EmptyIsNormal DEF S
<1> HIDE DEF step
<1>6. PICK h : SetFolds(h, n, S, <<>>, step)
  BY <1>1, <1>4, <1>5, SetFoldExists
<1>7. Is(h)
  <2>1. ASSUME NEW s \in SUBSET (1..n), s # {}
        PROVE  h[s] = RelativeNext(h[s \ {Greatest(s)}], path[Greatest(s)])
    <3>1. Greatest(s) \in 1..n /\ s \ {Greatest(s)} \in SUBSET (1..n)
      BY <1>1, <2>1, GreatestIs
    <3>2. h[s \ {Greatest(s)}] \in S
      BY <1>6, <3>1 DEF SetFolds
    <3> QED BY <1>4, <1>6, <2>1, <3>1, <3>2 DEF SetFolds
  <2> QED BY <1>1, <1>6, <2>1 DEF SetFolds
<1>8. Is(iter)
  BY <1>7
<1> HIDE DEF iter
<1> DEFINE f == [k \in 0..n |-> iter[1..k]]
<1>9. f[0] = <<>> /\ f[n] = iter[DOMAIN path]
  <2>1. 1..0 = {} /\ 0 \in 0..n /\ n \in 0..n
    BY <1>1
  <2> QED BY <1>1, <1>8, <2>1
<1>10. ASSUME NEW k \in 1..n PROVE f[k] = RelativeNext(f[k - 1], path[k])
  <2>1. /\ 1..k \in SUBSET (DOMAIN path) /\ 1..k # {}
        /\ Greatest(1..k) = k /\ (1..k) \ {Greatest(1..k)} = 1..(k - 1)
        /\ k \in 0..n /\ k - 1 \in 0..n
    BY <1>1, PrefixIs
  <2>2. iter[1..k] = RelativeNext(iter[1..(k - 1)], path[k])
    BY <1>8, <2>1
  <2> QED BY <2>1, <2>2
<1> QED BY <1>1, <1>2, <1>9, <1>10 DEF Walks, n

LEMMA AbsoluteWalk ==
    ASSUME NEW path \in Path
    PROVE  \E f : /\ Walks(f, path, LexicalNormalize(path))
                  /\ \A k \in 1..Len(path) : f[k] = AbsoluteNext(f[k - 1], path[k])
<1> DEFINE n == Len(path)
           S == Normal
           next(k, s) == AbsoluteNext(s, path[k])
           step == [q \in (1..n) \X S |-> next(q[1], q[2])]
           Is(h) == h = [s \in SUBSET (DOMAIN path) |->
                            IF s = {} THEN <<>>
                            ELSE AbsoluteNext(h[s \ {Greatest(s)}], path[Greatest(s)])]
           iter == CHOOSE h : Is(h)
<1>1. DOMAIN path = 1..n /\ n \in Nat /\ \A k \in 1..n : path[k] \in Name
  BY DEF Path
<1>2. LexicalNormalize(path) = iter[DOMAIN path]
  BY DEF LexicalNormalize, FoldLeft, MapThenFoldSet, Max, Greatest, AbsoluteNext
<1> HIDE DEF n, S
<1>3. \A k \in 1..n, s \in S : next(k, s) \in S
  BY <1>1, NextIsNormal DEF S
<1>4. step \in [(1..n) \X S -> S] /\ \A k \in 1..n, s \in S : step[<<k, s>>] = next(k, s)
  BY <1>3
<1>5. <<>> \in S
  BY EmptyIsNormal DEF S
<1> HIDE DEF step
<1>6. PICK h : SetFolds(h, n, S, <<>>, step)
  BY <1>1, <1>4, <1>5, SetFoldExists
<1>7. Is(h)
  <2>1. ASSUME NEW s \in SUBSET (1..n), s # {}
        PROVE  h[s] = AbsoluteNext(h[s \ {Greatest(s)}], path[Greatest(s)])
    <3>1. Greatest(s) \in 1..n /\ s \ {Greatest(s)} \in SUBSET (1..n)
      BY <1>1, <2>1, GreatestIs
    <3>2. h[s \ {Greatest(s)}] \in S
      BY <1>6, <3>1 DEF SetFolds
    <3> QED BY <1>4, <1>6, <2>1, <3>1, <3>2 DEF SetFolds
  <2> QED BY <1>1, <1>6, <2>1 DEF SetFolds
<1>8. Is(iter)
  BY <1>7
<1> HIDE DEF iter
<1> DEFINE f == [k \in 0..n |-> iter[1..k]]
<1>9. f[0] = <<>> /\ f[n] = iter[DOMAIN path]
  <2>1. 1..0 = {} /\ 0 \in 0..n /\ n \in 0..n
    BY <1>1
  <2> QED BY <1>1, <1>8, <2>1
<1>10. ASSUME NEW k \in 1..n PROVE f[k] = AbsoluteNext(f[k - 1], path[k])
  <2>1. /\ 1..k \in SUBSET (DOMAIN path) /\ 1..k # {}
        /\ Greatest(1..k) = k /\ (1..k) \ {Greatest(1..k)} = 1..(k - 1)
        /\ k \in 0..n /\ k - 1 \in 0..n
    BY <1>1, PrefixIs
  <2>2. iter[1..k] = AbsoluteNext(iter[1..(k - 1)], path[k])
    BY <1>8, <2>1
  <2> QED BY <2>1, <2>2
<1> QED BY <1>1, <1>2, <1>9, <1>10 DEF Walks, n

\* Without links a path is copied.
LEMMA UnlinkedWalk ==
    ASSUME NEW links, DOMAIN links = {}, NEW path \in Path
    PROVE  \E f : /\ Walks(f, path, Canonical(links, path))
                  /\ \A k \in 1..Len(path) : f[k] = FollowNext(links, f[k - 1], path[k])
<1> DEFINE n == Len(path)
           S == Path
           next(k, s) == FollowNext(links, s, path[k])
           step == [q \in (1..n) \X S |-> next(q[1], q[2])]
           Is(h) == h = [s \in SUBSET (DOMAIN path) |->
                            IF s = {} THEN <<>>
                            ELSE FollowNext(links, h[s \ {Greatest(s)}], path[Greatest(s)])]
           iter == CHOOSE h : Is(h)
<1>1. DOMAIN path = 1..n /\ n \in Nat /\ \A k \in 1..n : path[k] \in Name
  BY DEF Path
<1>2. Canonical(links, path) = iter[DOMAIN path]
  BY DEF Canonical, FoldLeft, MapThenFoldSet, Max, Greatest, FollowNext
<1> HIDE DEF n, S
<1>3. \A k \in 1..n, s \in S : next(k, s) \in S
  BY <1>1 DEF FollowNext, S, Path
<1>4. step \in [(1..n) \X S -> S] /\ \A k \in 1..n, s \in S : step[<<k, s>>] = next(k, s)
  BY <1>3
<1>5. <<>> \in S
  BY DEF S, Path
<1> HIDE DEF step
<1>6. PICK h : SetFolds(h, n, S, <<>>, step)
  BY <1>1, <1>4, <1>5, SetFoldExists
<1>7. Is(h)
  <2>1. ASSUME NEW s \in SUBSET (1..n), s # {}
        PROVE  h[s] = FollowNext(links, h[s \ {Greatest(s)}], path[Greatest(s)])
    <3>1. Greatest(s) \in 1..n /\ s \ {Greatest(s)} \in SUBSET (1..n)
      BY <1>1, <2>1, GreatestIs
    <3>2. h[s \ {Greatest(s)}] \in S
      BY <1>6, <3>1 DEF SetFolds
    <3> QED BY <1>4, <1>6, <2>1, <3>1, <3>2 DEF SetFolds
  <2> QED BY <1>1, <1>6, <2>1 DEF SetFolds
<1>8. Is(iter)
  BY <1>7
<1> HIDE DEF iter
<1> DEFINE f == [k \in 0..n |-> iter[1..k]]
<1>9. f[0] = <<>> /\ f[n] = iter[DOMAIN path]
  <2>1. 1..0 = {} /\ 0 \in 0..n /\ n \in 0..n
    BY <1>1
  <2> QED BY <1>1, <1>8, <2>1
<1>10. ASSUME NEW k \in 1..n PROVE f[k] = FollowNext(links, f[k - 1], path[k])
  <2>1. /\ 1..k \in SUBSET (DOMAIN path) /\ 1..k # {}
        /\ Greatest(1..k) = k /\ (1..k) \ {Greatest(1..k)} = 1..(k - 1)
        /\ k \in 0..n /\ k - 1 \in 0..n
    BY <1>1, PrefixIs
  <2>2. iter[1..k] = FollowNext(links, iter[1..(k - 1)], path[k])
    BY <1>8, <2>1
  <2> QED BY <2>1, <2>2
<1> QED BY <1>1, <1>2, <1>9, <1>10 DEF Walks, n

\* A path of which every name is kept is the same path.
LEMMA KeptIsSame ==
    ASSUME NEW path \in Path, NEW result, NEW f, Walks(f, path, result),
           \A k \in 1..Len(path) :
               f[k - 1] = SubSeq(path, 1, k - 1) => f[k] = Append(f[k - 1], path[k])
    PROVE  result = path
<1> DEFINE n == Len(path)
           T == {k \in 0..n : f[k] = SubSeq(path, 1, k)}
<1>1. n \in Nat
  BY DEF Path
<1>2. 0 \in T
  <2>1. f[0] = <<>> /\ SubSeq(path, 1, 0) = <<>>
    BY DEF Walks, Path
  <2> HIDE DEF n
  <2>2. 0 \in 0..n
    BY <1>1
  <2> QED BY <2>1, <2>2, Zenon
<1>3. ASSUME NEW k \in 1..n, k - 1 \in T PROVE k \in T
  <2>1. SubSeq(path, 1, k) = Append(SubSeq(path, 1, k - 1), path[k])
    BY DEF Path
  <2>2. f[k] = Append(f[k - 1], path[k])
    BY <1>3
  <2>3. f[k] = SubSeq(path, 1, k)
    BY <1>3, <2>1, <2>2
  <2> HIDE DEF n
  <2>4. k \in 0..n
    BY <1>1
  <2> QED BY <2>3, <2>4
<1> HIDE DEF T
<1>4. \A k \in 0..n : k \in T
  <2> HIDE DEF n
  <2>1. \A k \in 1..n : k - 1 \in T => k \in T
    BY <1>3
  <2> QED BY <1>1, <1>2, <2>1, UpTo
<1>5. f[n] = SubSeq(path, 1, n)
  <2>1. n \in 0..n
    BY <1>1
  <2>2. n \in T
    BY <1>4, <2>1
  <2> QED BY <2>2 DEF T
<1> QED BY <1>5 DEF Walks, Path

\* What is normalised is in normal form, or climbs above where it starts.
LEMMA NormalizedIsNormal ==
    ASSUME NEW path \in Path
    PROVE  /\ LexicalNormalize(path) \in Normal
           /\ LexicalNormalizeRelative(path) \in Normal \cup {Escapes}
<1> DEFINE n == Len(path)
<1>1. n \in Nat /\ \A k \in 1..n : path[k] \in Name
  BY DEF Path
<1>2. LexicalNormalize(path) \in Normal
  <2>1. PICK f : /\ Walks(f, path, LexicalNormalize(path))
                 /\ \A k \in 1..n : f[k] = AbsoluteNext(f[k - 1], path[k])
    BY AbsoluteWalk
  <2> HIDE DEF n
  <2> DEFINE T == {k \in 0..n : f[k] \in Normal}
  <2>2. 0 \in T
    BY <1>1, <2>1, EmptyIsNormal DEF Walks
  <2>3. ASSUME NEW k \in 1..n, k - 1 \in T PROVE k \in T
    <3>1. f[k] = AbsoluteNext(f[k - 1], path[k]) /\ path[k] \in Name /\ f[k - 1] \in Normal
      <4>1. f[k - 1] \in Normal
        BY <2>3
      <4> QED BY <1>1, <2>1, <4>1
    <3>2. f[k] \in Normal
      BY <3>1, NextIsNormal
    <3>3. k \in 0..n
      BY <1>1
    <3> QED BY <3>2, <3>3
  <2> HIDE DEF T
  <2>4. n \in T
    <3>1. \A k \in 0..n : k \in T
      <4>1. \A k \in 1..n : k - 1 \in T => k \in T
        BY <2>3
      <4> QED BY <1>1, <2>2, <4>1, UpTo
    <3>2. n \in 0..n
      BY <1>1
    <3> QED BY <3>1, <3>2
  <2> QED BY <2>1, <2>4 DEF T, Walks, n
<1>3. LexicalNormalizeRelative(path) \in Normal \cup {Escapes}
  <2>1. PICK f : /\ Walks(f, path, LexicalNormalizeRelative(path))
                 /\ \A k \in 1..n : f[k] = RelativeNext(f[k - 1], path[k])
    BY RelativeWalk
  <2> HIDE DEF n
  <2> DEFINE T == {k \in 0..n : f[k] \in Normal \cup {Escapes}}
  <2>2. 0 \in T
    BY <1>1, <2>1, EmptyIsNormal DEF Walks
  <2>3. ASSUME NEW k \in 1..n, k - 1 \in T PROVE k \in T
    <3>1. CASE f[k - 1] = Escapes
      BY <2>1, <2>3, <3>1 DEF RelativeNext
    <3>2. CASE f[k - 1] \in Normal
      <4>1. f[k] = RelativeNext(f[k - 1], path[k]) /\ path[k] \in Name
        BY <1>1, <2>1
      <4>2. f[k] \in Normal \cup {Escapes} /\ k \in 0..n
        <5>1. k \in 0..n
          BY <1>1
        <5> QED BY <3>2, <4>1, <5>1, NextIsNormal
      <4> QED BY <4>2
    <3> QED BY <2>3, <3>1, <3>2
  <2> HIDE DEF T
  <2>4. n \in T
    <3>1. \A k \in 0..n : k \in T
      <4>1. \A k \in 1..n : k - 1 \in T => k \in T
        BY <2>3
      <4> QED BY <1>1, <2>2, <4>1, UpTo
    <3>2. n \in 0..n
      BY <1>1
    <3> QED BY <3>1, <3>2
  <2> QED BY <2>1, <2>4 DEF T, Walks, n
<1> QED BY <1>2, <1>3

\* Normalising again changes nothing.
LEMMA NormalStays ==
    ASSUME NEW path \in Normal
    PROVE  LexicalNormalize(path) = path /\ LexicalNormalizeRelative(path) = path
<1>1. /\ path \in Path
      /\ \A k \in 1..Len(path) : /\ path[k] \in Name \ {".", ".."}
                                 /\ SubSeq(path, 1, k - 1) \in Normal
  BY NotEscapes DEF Normal
<1>2. PICK f : /\ Walks(f, path, LexicalNormalize(path))
               /\ \A k \in 1..Len(path) : f[k] = AbsoluteNext(f[k - 1], path[k])
  BY <1>1, AbsoluteWalk
<1>3. PICK g : /\ Walks(g, path, LexicalNormalizeRelative(path))
               /\ \A k \in 1..Len(path) : g[k] = RelativeNext(g[k - 1], path[k])
  BY <1>1, RelativeWalk
<1>4. \A k \in 1..Len(path) :
          f[k - 1] = SubSeq(path, 1, k - 1) => f[k] = Append(f[k - 1], path[k])
  BY <1>1, <1>2, NextIsNormal
<1>5. \A k \in 1..Len(path) :
          g[k - 1] = SubSeq(path, 1, k - 1) => g[k] = Append(g[k - 1], path[k])
  BY <1>1, <1>3, NextIsNormal
<1>6. LexicalNormalize(path) = path
  BY <1>1, <1>2, <1>4, KeptIsSame
<1>7. LexicalNormalizeRelative(path) = path
  BY <1>1, <1>3, <1>5, KeptIsSame
<1> QED BY <1>6, <1>7

LEMMA UnlinkedIsCanonical ==
    ASSUME NEW links, DOMAIN links = {}, NEW path \in Path
    PROVE  Canonical(links, path) = path
<1>1. PICK f : /\ Walks(f, path, Canonical(links, path))
               /\ \A k \in 1..Len(path) : f[k] = FollowNext(links, f[k - 1], path[k])
  BY UnlinkedWalk
<1>2. \A done, name : FollowNext(links, done, name) = Append(done, name)
  BY DEF FollowNext
<1> QED BY <1>1, <1>2, KeptIsSame

\* Without links a path is the file it names.
LEMMA UnlinkedIsLexical ==
    ASSUME DOMAIN layout.links = {}, NEW path \in Path
    PROVE  ResolvePhysical(path) = LexicalNormalize(path)
<1>1. LexicalNormalize(path) \in Path
  BY NormalizedIsNormal, NotEscapes
<1> QED BY <1>1, UnlinkedIsCanonical DEF ResolvePhysical

----------------------------------------------------------------------------
(* The resolver of a layout.                                                *)

DependencyNames(l) ==
    DOMAIN l.dependencies
    \cup {l.options[i].name : i \in {j \in DOMAIN l.options : l.options[j].key = "crate.dependency"}}

LEMMA RefusedIs == \A why : IsRefused(Refused(why))
BY DEF IsRefused, Refused

\* What the options make of a resolver, if each keeps it in a set.
LEMMA OptionsApplied ==
    ASSUME NEW S, NEW first \in S, NEW options \in Seq(Option),
           \A k \in 1..Len(options), s \in S : ApplyOption(s, options[k]) \in S
    PROVE  FoldLeft(ApplyOption, first, options) \in S
<1> DEFINE n == Len(options)
           next(k, s) == ApplyOption(s, options[k])
           step == [q \in (1..n) \X S |-> next(q[1], q[2])]
           Is(h) == h = [s \in SUBSET (DOMAIN options) |->
                            IF s = {} THEN first
                            ELSE ApplyOption(h[s \ {Greatest(s)}], options[Greatest(s)])]
           iter == CHOOSE h : Is(h)
<1>1. DOMAIN options = 1..n /\ n \in Nat
  OBVIOUS
<1>2. FoldLeft(ApplyOption, first, options) = iter[DOMAIN options]
  BY DEF FoldLeft, MapThenFoldSet, Max, Greatest
<1> HIDE DEF n
<1>3. \A k \in 1..n, s \in S : next(k, s) \in S
  BY DEF n
<1> HIDE DEF next
<1>4. step \in [(1..n) \X S -> S] /\ \A k \in 1..n, s \in S : step[<<k, s>>] = next(k, s)
  BY <1>3
<1> HIDE DEF step
<1>6. PICK h : SetFolds(h, n, S, first, step)
  BY <1>1, <1>4, SetFoldExists
<1>7. Is(h)
  <2>1. ASSUME NEW s \in SUBSET (1..n), s # {}
        PROVE  h[s] = ApplyOption(h[s \ {Greatest(s)}], options[Greatest(s)])
    <3>1. Greatest(s) \in 1..n /\ s \ {Greatest(s)} \in SUBSET (1..n)
      BY <1>1, <2>1, GreatestIs
    <3>2. h[s \ {Greatest(s)}] \in S
      BY <1>6, <3>1 DEF SetFolds
    <3> QED BY <1>4, <1>6, <2>1, <3>1, <3>2 DEF SetFolds, next
  <2> QED BY <1>1, <1>6, <2>1 DEF SetFolds
<1>8. Is(iter)
  BY <1>7
<1> HIDE DEF iter
<1> DEFINE T == {k \in 0..n : iter[1..k] \in S}
<1>9. 0 \in T
  <2>1. 1..0 = {} /\ 0 \in 0..n
    BY <1>1
  <2> QED BY <1>1, <1>8, <2>1
<1>10. ASSUME NEW k \in 1..n, k - 1 \in T PROVE k \in T
  <2>1. /\ 1..k \in SUBSET (DOMAIN options) /\ 1..k # {}
        /\ Greatest(1..k) = k /\ (1..k) \ {Greatest(1..k)} = 1..(k - 1)
    BY <1>1, PrefixIs
  <2>4. k \in 0..n
    BY <1>1
  <2>2. iter[1..k] = next(k, iter[1..(k - 1)])
    BY <1>8, <2>1 DEF next
  <2>3. iter[1..k] \in S
    BY <1>3, <1>10, <2>2
  <2> QED BY <2>3, <2>4
<1> HIDE DEF T
<1>11. n \in T
  <2>1. \A k \in 0..n : k \in T
    <3>1. \A k \in 1..n : k - 1 \in T => k \in T
      BY <1>10
    <3> QED BY <1>1, <1>9, <3>1, UpTo
  <2>2. n \in 0..n
    BY <1>1
  <2> QED BY <2>1, <2>2
<1> QED BY <1>1, <1>2, <1>11 DEF T

LEMMA PathsCompose ==
    /\ \A p, q \in Path : p \o q \in Path
    /\ \A p \in Path : /\ Parent(p) \in Path /\ Ancestors(p) \subseteq Path
                       /\ p # <<>> => Tail(p) \in Path /\ Head(p) \in Name
    /\ \A p, q \in Normal : p \o q \in Normal
    /\ <<"src">> \in Path
<1>1. \A p, q \in Path : p \o q \in Path
  BY DEF Path
<1>2. ASSUME NEW p \in Path PROVE Parent(p) \in Path /\ Ancestors(p) \subseteq Path
  BY DEF Path, Parent, Ancestors
<1>3. ASSUME NEW p \in Path, p # <<>> PROVE Tail(p) \in Path /\ Head(p) \in Name
  BY <1>3 DEF Path
<1>4. \A p, q \in Normal : p \o q \in Normal
  BY DEF Normal
<1>5. <<"src">> \in Path
  BY NamesAssumption DEF Path
<1> QED BY <1>1, <1>2, <1>3, <1>4, <1>5

\* The nearest manifest is one of those above.
LEMMA ManifestIs ==
    ASSUME NEW start \in Path
    PROVE  Manifest(start) \subseteq Path
<1> DEFINE found == Ancestors(start) \cap layout.manifests
           T == {Len(start) - k : k \in {j \in 0..Len(start) : SubSeq(start, 1, j) \in layout.manifests}}
<1>1. Len(start) \in Nat /\ \A j \in 0..Len(start) : Len(SubSeq(start, 1, j)) = j
  BY DEF Path
<1> SUFFICES ASSUME found # {} PROVE \E d \in found : \A e \in found : Len(e) <= Len(d)
  BY PathsCompose DEF Manifest
<1>2. T \in SUBSET Nat /\ T # {}
  <2>1. T \subseteq Nat
    BY <1>1
  <2>2. PICK d \in found : TRUE
    OBVIOUS
  <2>3. PICK k \in 0..Len(start) : d = SubSeq(start, 1, k)
    BY <2>2 DEF Ancestors
  <2>4. k \in {j \in 0..Len(start) : SubSeq(start, 1, j) \in layout.manifests}
    BY <2>2, <2>3
  <2>5. Len(start) - k \in T
    BY <2>4
  <2> QED BY <2>1, <2>5
<1>3. PICK m \in T : \A k \in T : m <= k
  <2> HIDE DEF T
  <2> QED BY <1>2, LeastExists
<1>4. PICK j \in 0..Len(start) : SubSeq(start, 1, j) \in layout.manifests /\ m = Len(start) - j
  BY <1>3
<1>5. SubSeq(start, 1, j) \in found
  BY <1>4 DEF Ancestors
<1>6. ASSUME NEW e \in found PROVE Len(e) <= Len(SubSeq(start, 1, j))
  <2>1. PICK k \in 0..Len(start) : e = SubSeq(start, 1, k) /\ e \in layout.manifests
    BY DEF Ancestors
  <2>2. Len(start) - k \in T
    BY <2>1
  <2>3. Len(start) - j <= Len(start) - k
    BY <1>3, <1>4, <2>2
  <2>4. k <= j
    BY <1>1, <2>3
  <2> QED BY <1>1, <2>1, <2>4
<1> QED BY <1>5, <1>6

\* Functions on some of D.
Partial(D, R) == UNION {[N -> R] : N \in SUBSET D}

LEMMA WithIs ==
    ASSUME NEW D, NEW R, NEW f \in Partial(D, R), NEW x \in D, NEW v \in R
    PROVE  With(f, x, v) \in Partial(D, R)
<1>1. PICK N \in SUBSET D : f \in [N -> R]
  BY DEF Partial
<1>2. With(f, x, v) \in [N \cup {x} -> R]
  BY <1>1 DEF With
<1>3. N \cup {x} \in SUBSET D
  OBVIOUS
<1> QED BY <1>2, <1>3 DEF Partial

Physicals == {ResolvePhysical(p) : p \in Path}

LEMMA ResolverIs ==
    ASSUME layout \in Layouts, ~IsRefused(ForRootSource)
    PROVE  /\ ForRootSource.source_root \in Physicals
           /\ DOMAIN ForRootSource.dependencies \subseteq DependencyNames(layout)
           /\ \A n \in DOMAIN ForRootSource.dependencies :
                  ForRootSource.dependencies[n] \in Physicals
<1> DEFINE root == LexicalNormalize(layout.root)
           start == Parent(root)
           manifest == Manifest(start)
           workspace == IF manifest = {} THEN InferredRoot(start)
                        ELSE CHOOSE d \in manifest : TRUE
           bare == [workspace_root |-> workspace,
                    source_root    |-> SrcOr(workspace, ResolvePhysical(start)),
                    main_path      |-> ResolvePhysical(root),
                    dependencies   |-> <<>>, formats |-> <<>>]
           loaded == IF manifest = {} THEN bare
                     ELSE [bare EXCEPT
                             !.dependencies = [n \in DOMAIN layout.dependencies |->
                                 ResolvePhysical(workspace \o layout.dependencies[n])],
                             !.formats = layout.formats]
           Reasons == {"manifest and options", "duplicate dependency", "duplicate format",
                       "unknown option"}
           Deps == Partial(DependencyNames(layout), Physicals)
           Forms == Partial(Path, Formats)
           Whole == [workspace_root : Path, source_root : Physicals, main_path : Physicals,
                     dependencies : Deps, formats : Forms]
           S == Whole \cup {Refused(w) : w \in Reasons}
<1>1. /\ layout.root \in Path /\ layout.options \in Seq(Option)
      /\ \A n \in DOMAIN layout.dependencies : layout.dependencies[n] \in Path
      /\ DOMAIN layout.formats \subseteq Path
      /\ layout.formats \in [DOMAIN layout.formats -> Formats]
  BY LayoutsAssumption
<1>2. root \in Path /\ start \in Path
  BY <1>1, NormalizedIsNormal, NotEscapes, PathsCompose
<1>3. workspace \in Path
  <2>1. manifest \subseteq Path
    BY <1>2, ManifestIs
  <2>2. InferredRoot(start) \in Path
    BY <1>2, PathsCompose DEF InferredRoot
  <2> QED BY <2>1, <2>2
<1> HIDE DEF root, start
<1>4. bare \in Whole
  <2>1. ResolvePhysical(start) \in Physicals /\ ResolvePhysical(root) \in Physicals
    BY <1>2 DEF Physicals
  <2>2. SrcOr(workspace, ResolvePhysical(start)) \in Physicals
    BY <1>3, <2>1, PathsCompose DEF SrcOr, Physicals
  <2>3. <<>> \in Deps /\ <<>> \in Forms
    <3>1. \A R : <<>> \in [{} -> R]
      OBVIOUS
    <3> QED BY <3>1 DEF Partial
  <2> HIDE DEF workspace, Deps, Forms
  <2> QED BY <1>3, <2>1, <2>2, <2>3
<1>5. loaded \in S
  <2>1. ASSUME manifest # {} PROVE loaded \in Whole
    <3> DEFINE deps == [n \in DOMAIN layout.dependencies |->
                            ResolvePhysical(workspace \o layout.dependencies[n])]
    <3>1. deps \in Deps
      <4>1. \A n \in DOMAIN layout.dependencies :
                ResolvePhysical(workspace \o layout.dependencies[n]) \in Physicals
        BY <1>1, <1>3, PathsCompose DEF Physicals
      <4>2. deps \in [DOMAIN layout.dependencies -> Physicals]
        BY <4>1
      <4> QED BY <4>2 DEF DependencyNames, Partial
    <3>2. layout.formats \in Forms
      BY <1>1 DEF Partial
    <3>3. loaded = [bare EXCEPT !.dependencies = deps, !.formats = layout.formats]
      BY <2>1
    <3> HIDE DEF loaded, bare, deps, Deps, Forms
    <3> QED BY <1>4, <3>1, <3>2, <3>3
  <2> QED BY <1>4, <2>1
<1>6. ASSUME NEW k \in 1..Len(layout.options), NEW s \in S
      PROVE  ApplyOption(s, layout.options[k]) \in S
  <2> DEFINE o == layout.options[k]
  <2>1. o \in Option /\ k \in DOMAIN layout.options
    <3>1. PICK options \in Seq(Option) : options = layout.options
      BY <1>1
    <3> HIDE DEF S
    <3> QED BY <3>1
  <2>2. CASE IsRefused(s)
    BY <2>2 DEF ApplyOption
  <2>3. CASE ~IsRefused(s)
    <3>1. s \in Whole
      BY <2>3, RefusedIs
    <3>2. CASE o.key = "crate.dependency"
      <4>1. /\ o.name \in DependencyNames(layout)
            /\ ResolvePhysical(s.workspace_root \o o.path) \in Physicals
        <5>1. o.path \in Path
          BY <2>1, <3>2 DEF Option
        <5> QED BY <2>1, <3>1, <3>2, <5>1, PathsCompose DEF DependencyNames, Physicals
      <4>2. DEFINE deps == With(s.dependencies, o.name, ResolvePhysical(s.workspace_root \o o.path))
      <4>3. deps \in Deps
        BY <3>1, <4>1, WithIs
      <4>4. ApplyOption(s, o) \in {Refused("duplicate dependency"), [s EXCEPT !.dependencies = deps]}
        BY <2>3, <3>2 DEF ApplyOption
      <4> HIDE DEF deps, Deps, Forms
      <4>5. [s EXCEPT !.dependencies = deps] \in Whole
        BY <3>1, <4>3
      <4>6. Refused("duplicate dependency") \in S
        OBVIOUS
      <4> QED BY <4>4, <4>5, <4>6, Zenon
    <3>3. CASE o.key = "crate.format"
      <4>1. o.module \in Path /\ o.format \in Formats
        BY <2>1, <3>3 DEF Option
      <4>2. DEFINE forms == With(s.formats, o.module, o.format)
      <4>3. forms \in Forms
        BY <3>1, <4>1, WithIs
      <4>4. ApplyOption(s, o) \in {Refused("duplicate format"), [s EXCEPT !.formats = forms]}
        BY <2>3, <3>3 DEF ApplyOption
      <4> HIDE DEF forms, Deps, Forms
      <4>5. [s EXCEPT !.formats = forms] \in Whole
        BY <3>1, <4>3
      <4>6. Refused("duplicate format") \in S
        OBVIOUS
      <4> QED BY <4>4, <4>5, <4>6, Zenon
    <3> QED BY <2>1, <3>2, <3>3 DEF Option
  <2> QED BY <2>2, <2>3
<1>7. ForRootSource \in {Refused("manifest and options"),
                         FoldLeft(ApplyOption, loaded, layout.options)}
  BY DEF ForRootSource, root, start
<1>8. FoldLeft(ApplyOption, loaded, layout.options) \in S
  <2> HIDE DEF S, loaded
  <2> QED BY <1>1, <1>5, <1>6, OptionsApplied
<1>9. ForRootSource \in Whole
  BY <1>7, <1>8, RefusedIs
<1> QED BY <1>9 DEF Partial

----------------------------------------------------------------------------
(* What a resolution returns.                                               *)

IsIdentity(id) ==
    \/ id = Main
    \/ id.kind = "Source" /\ id = SourceId(id.path)
    \/ id.kind = "Dependency" /\ id = DependencyId(id.name, id.path)
    \/ id.kind = "Builtin" /\ id = BuiltinId(id.path)

\* Where the sources of an identity lie.
SourcesOf(r, id) ==
    IF id.kind = "Dependency" THEN DependencySources(r, id.name) ELSE r.source_root

\* The module an identity stands for, whoever asks for it.
ModuleNamed(r, id) ==
    IF id.kind = "Main" THEN Module(r, Main, r.main_path)
    ELSE IF id.kind = "Builtin" THEN SystemModule(id.path)
    ELSE Module(r, id, ResolvePhysical(SourcesOf(r, id) \o id.path))

\* A module with an identity lies in the sources of its owner.
IsModule(r, m) ==
    /\ ~IsRefused(m)
    /\ IsIdentity(m.id)
    /\ m = ModuleNamed(r, m.id)
    /\ m.id.kind \in {"Source", "Dependency"} => IsPrefix(SourcesOf(r, m.id), m.physical)
    /\ m.id.kind = "Source" => m.physical # r.main_path
    /\ m.id.kind = "Dependency" => m.id.name \in DOMAIN r.dependencies

\* What an importer may reach.
MayReach(importer, target) ==
    /\ target.kind = "Main" => IsEntry(importer)
    /\ target.kind = "Source" => Owner(importer) = <<>>
    /\ target.kind = "Dependency" /\ IsPrivate(target.path) =>
          Owner(importer) = Owner(target) \/ IsEntry(importer)

ModulesInv ==
    /\ \A m \in reached : IsModule(resolver, m)
    /\ \A e \in edges : /\ e[3] \in reached /\ IsIdentity(e[1])
                        /\ MayReach(e[1], e[3].id)

LEMMA KindsDiffer ==
    /\ Main.kind = "Main"
    /\ \A p : SourceId(p).kind = "Source" /\ SourceId(p).path = p /\ SourceId(p) # Main
    /\ \A n, p : /\ DependencyId(n, p).kind = "Dependency"
                 /\ DependencyId(n, p).path = p /\ DependencyId(n, p).name = n
                 /\ DependencyId(n, p) # Main
    /\ \A p : BuiltinId(p).kind = "Builtin" /\ BuiltinId(p).path = p /\ BuiltinId(p) # Main
BY DEF Main, SourceId, DependencyId, BuiltinId

LEMMA IdentityKind ==
    ASSUME NEW id, IsIdentity(id)
    PROVE  /\ id.kind \in {"Main", "Source", "Dependency", "Builtin"}
           /\ id.kind = "Main" => id = Main
           /\ id # Main => id.kind # "Main"
BY KindsDiffer DEF IsIdentity

\* Only what has a format is a module.
LEMMA FormattedIs ==
    ASSUME NEW id, NEW physical, NEW format, ~IsRefused(Formatted(id, physical, format))
    PROVE  /\ format \in Formats
           /\ Formatted(id, physical, format).id = id
           /\ Formatted(id, physical, format).physical = physical
           /\ Formatted(id, physical, format).format = format
           /\ Formatted(id, physical, format).authority =
                  IF id = Main THEN "Ordinary" ELSE AuthorityFor(physical)
<1>1. format \in Formats
  BY RefusedIs DEF Formatted
<1> QED BY <1>1 DEF Formatted

LEMMA ModuleIs ==
    ASSUME NEW r, NEW id, NEW physical, ~IsRefused(Module(r, id, physical))
    PROVE  /\ Module(r, id, physical).id = id
           /\ Module(r, id, physical).physical = physical
           /\ Module(r, id, physical).format = FormatFor(r, id, physical)
           /\ FormatFor(r, id, physical) \in Formats
           /\ Module(r, id, physical).authority =
                  IF id = Main THEN "Ordinary" ELSE AuthorityFor(physical)
BY FormattedIs DEF Module

LEMMA SystemModuleIs ==
    ASSUME NEW r, NEW request
    PROVE  /\ IsModule(r, SystemModule(request))
           /\ SystemModule(request).id = BuiltinId(request)
           /\ SystemModule(request).authority = "RuntimeSystem"
<1>1. /\ SystemModule(request).id = BuiltinId(request)
      /\ SystemModule(request).authority = "RuntimeSystem"
      /\ ~IsRefused(SystemModule(request))
  BY DEF SystemModule, IsRefused
<1> QED BY <1>1, KindsDiffer DEF IsModule, IsIdentity, ModuleNamed

LEMMA MainIs ==
    ASSUME NEW r, ~IsRefused(Module(r, Main, r.main_path))
    PROVE  /\ IsModule(r, Module(r, Main, r.main_path))
           /\ Module(r, Main, r.main_path).id = Main
<1>1. Module(r, Main, r.main_path).id = Main
  BY ModuleIs
<1> QED BY <1>1, KindsDiffer DEF IsModule, IsIdentity, ModuleNamed

LEMMA SourceIs ==
    ASSUME NEW r, NEW path, ~IsRefused(ResolveSource(r, path))
    PROVE  /\ IsModule(r, ResolveSource(r, path))
           /\ ResolveSource(r, path).id = SourceId(path)
<1> DEFINE physical == ResolvePhysical(r.source_root \o path)
           m == Module(r, SourceId(path), physical)
<1>1. /\ IsPrefix(r.source_root, physical) /\ physical # r.main_path
      /\ ResolveSource(r, path) = m
  BY RefusedIs DEF ResolveSource, SourceAt
<1>2. m.id = SourceId(path) /\ m.physical = physical
  BY <1>1, ModuleIs
<1>3. SourcesOf(r, SourceId(path)) = r.source_root
  BY KindsDiffer DEF SourcesOf
<1>4. ModuleNamed(r, SourceId(path)) = m
  BY <1>3, KindsDiffer DEF ModuleNamed
<1> HIDE DEF m, physical
<1>5. IsIdentity(SourceId(path))
  BY KindsDiffer DEF IsIdentity
<1> QED BY <1>1, <1>2, <1>3, <1>4, <1>5, KindsDiffer DEF IsModule

\* A private module of a dependency is given to those only who may have it.
LEMMA DependencyIs ==
    ASSUME NEW r, NEW name, NEW path, NEW allow_private,
           ~IsRefused(ResolveDependencyParts(r, name, path, allow_private))
    PROVE  /\ IsModule(r, ResolveDependencyParts(r, name, path, allow_private))
           /\ ResolveDependencyParts(r, name, path, allow_private).id = DependencyId(name, path)
           /\ IsPrivate(path) => allow_private
<1> DEFINE id == DependencyId(name, path)
           sources == DependencySources(r, name)
           physical == ResolvePhysical(sources \o path)
           m == Module(r, id, physical)
<1>0. id.path = path
  BY KindsDiffer
<1>1. /\ name \in DOMAIN r.dependencies
      /\ ResolveDependencyParts(r, name, path, allow_private) =
             DependencyAt(r, id, sources, physical, allow_private)
  BY RefusedIs DEF ResolveDependencyParts
<1> HIDE DEF id, sources, physical
<1>2. /\ IsPrefix(sources, physical)
      /\ DependencyAt(r, id, sources, physical, allow_private) = m
      /\ ~IsRefused(m) /\ (IsPrivate(path) => allow_private)
  BY <1>0, <1>1, RefusedIs DEF DependencyAt
<1>3. m.id = id /\ m.physical = physical
  BY <1>2, ModuleIs
<1>4. SourcesOf(r, id) = sources /\ id.kind = "Dependency" /\ id.name = name /\ IsIdentity(id)
  BY KindsDiffer DEF SourcesOf, id, sources, IsIdentity
<1>5. ModuleNamed(r, id) = m
  BY <1>0, <1>4 DEF ModuleNamed, physical
<1> HIDE DEF m
<1>6. IsModule(r, m)
  BY <1>1, <1>2, <1>3, <1>4, <1>5 DEF IsModule
<1> QED BY <1>1, <1>2, <1>3, <1>6 DEF id

\* A relative request stays with the importer's owner.
LEMMA InOwnerIs ==
    ASSUME NEW r, NEW importer, IsIdentity(importer), importer.kind # "Builtin", NEW path,
           ~IsRefused(InOwner(r, importer, path))
    PROVE  /\ IsModule(r, InOwner(r, importer, path))
           /\ MayReach(importer, InOwner(r, importer, path).id)
<1> DEFINE logical == LexicalNormalizeRelative(path)
<1>1. InOwner(r, importer, path) = InOwnerAt(r, importer, logical)
  BY DEF InOwner
<1> HIDE DEF logical
<1>2. logical # Escapes
  BY <1>1, RefusedIs DEF InOwnerAt
<1>3. CASE importer.kind \in {"Main", "Source"}
  <2>1. InOwner(r, importer, path) = ResolveSource(r, logical)
    BY <1>1, <1>2, <1>3 DEF InOwnerAt
  <2>2. Owner(importer) = <<>>
    BY <1>3 DEF Owner
  <2> QED BY <2>1, <2>2, SourceIs, KindsDiffer DEF MayReach
<1>4. CASE importer.kind = "Dependency"
  <2>0. PICK allow_private : allow_private = TRUE
    OBVIOUS
  <2>1. InOwner(r, importer, path) = ResolveDependencyParts(r, importer.name, logical, allow_private)
    BY <1>1, <1>2, <1>4, <2>0, Zenon DEF InOwnerAt
  <2>2. Owner(importer) = Owner(DependencyId(importer.name, logical))
    BY <1>4, KindsDiffer DEF Owner
  <2> DEFINE m == InOwner(r, importer, path)
  <2>3. IsModule(r, m) /\ m.id = DependencyId(importer.name, logical)
    BY <2>1, DependencyIs
  <2> HIDE DEF m
  <2>4. MayReach(importer, m.id)
    BY <2>2, <2>3, KindsDiffer DEF MayReach
  <2> QED BY <2>3, <2>4 DEF m
<1>5. importer.kind \in {"Main", "Source", "Dependency", "Builtin"}
  BY IdentityKind
<1> QED BY <1>3, <1>4, <1>5

LEMMA DependencyRequestIs ==
    ASSUME NEW r, NEW importer, NEW request,
           ~IsRefused(ResolveDependency(r, request, IsEntry(importer)))
    PROVE  LET m == ResolveDependency(r, request, IsEntry(importer)) IN
           IsModule(r, m) /\ MayReach(importer, m.id)
<1> DEFINE logical == LexicalNormalizeRelative(Tail(request))
           m == ResolveDependencyParts(r, Head(request), logical, IsEntry(importer))
<1>1. ResolveDependency(r, request, IsEntry(importer)) = m
  BY RefusedIs DEF ResolveDependency
<1> HIDE DEF logical
<1>2. /\ IsModule(r, m) /\ m.id = DependencyId(Head(request), logical)
      /\ IsPrivate(logical) => IsEntry(importer)
  BY <1>1, DependencyIs
<1> HIDE DEF m
<1> QED BY <1>1, <1>2, KindsDiffer DEF MayReach

\* Whatever an importer is given is a module, and one it may have.
LEMMA ResolveIs ==
    ASSUME NEW importer, IsIdentity(importer), NEW request,
           ~IsRefused(ResolveImport(resolver, importer, request))
    PROVE  LET m == ResolveImport(resolver, importer, request) IN
           IsModule(resolver, m) /\ MayReach(importer, m.id)
<1> DEFINE m == ResolveImport(resolver, importer, request)
           privileged == layout.entry # <<>> /\ importer = BuiltinId(layout.entry)
<1>1. privileged = IsEntry(importer)
  BY DEF IsEntry
<1>2. ASSUME m = SystemModule(request) PROVE IsModule(resolver, m) /\ MayReach(importer, m.id)
  BY <1>2, SystemModuleIs, KindsDiffer DEF MayReach
<1>3. ASSUME m = Module(resolver, Main, resolver.main_path), privileged
      PROVE  IsModule(resolver, m) /\ MayReach(importer, m.id)
  <2>1. IsModule(resolver, m) /\ m.id = Main /\ IsEntry(importer)
    BY <1>1, <1>3, MainIs
  <2> HIDE DEF m
  <2> QED BY <2>1, KindsDiffer DEF MayReach
<1>4. ASSUME importer.kind # "Builtin", NEW path, m = InOwner(resolver, importer, path)
      PROVE  IsModule(resolver, m) /\ MayReach(importer, m.id)
  BY <1>4, InOwnerIs
<1>5. ASSUME m = Relative(resolver, importer, request)
      PROVE  IsModule(resolver, m) /\ MayReach(importer, m.id)
  BY <1>4, <1>5, RefusedIs DEF Relative
<1>6. ASSUME m = ResolveDependency(resolver, request, privileged)
      PROVE  IsModule(resolver, m) /\ MayReach(importer, m.id)
  BY <1>1, <1>6, DependencyRequestIs
<1>7. \/ m = SystemModule(request)
      \/ m = Module(resolver, Main, resolver.main_path) /\ privileged
      \/ importer.kind # "Builtin" /\ m = InOwner(resolver, importer, Tail(request))
      \/ m = Relative(resolver, importer, request)
      \/ m = ResolveDependency(resolver, request, privileged)
  BY RefusedIs DEF ResolveImport
<1> HIDE DEF m, privileged
<1> QED BY <1>2, <1>3, <1>4, <1>5, <1>6, <1>7 DEF m

----------------------------------------------------------------------------
(* The invariant.                                                           *)

LEMMA ModulesInit == Init => ModulesInv
<1> SUFFICES ASSUME Init PROVE ModulesInv
  OBVIOUS
<1>1. edges = {}
  BY DEF Init
<1>2. ASSUME NEW m \in reached PROVE IsModule(resolver, m)
  <2>1. CASE m = SystemModule(layout.entry)
    BY <2>1, SystemModuleIs
  <2>2. CASE m # SystemModule(layout.entry)
    <3>1. m = ResolveRoot(resolver) /\ ~IsRefused(ResolveRoot(resolver))
      BY <1>2, <2>2 DEF Init
    <3>2. m = Module(resolver, Main, resolver.main_path)
      BY <3>1, RefusedIs DEF ResolveRoot
    <3> QED BY <3>1, <3>2, MainIs
  <2> QED BY <2>1, <2>2
<1> QED BY <1>1, <1>2 DEF ModulesInv

LEMMA ModulesStep == ModulesInv /\ [Next]_vars => ModulesInv'
<1> SUFFICES ASSUME ModulesInv, [Next]_vars PROVE ModulesInv'
  OBVIOUS
<1>1. layout' = layout /\ resolver' = resolver
  BY DEF Next, Enter, vars
<1>2. /\ \A m : IsModule(resolver, m)' = IsModule(resolver, m)
      /\ \A i, t : MayReach(i, t)' = MayReach(i, t)
  <2>1. \A p : ResolvePhysical(p)' = ResolvePhysical(p)
    BY <1>1 DEF ResolvePhysical
  <2>2. \A n : DependencySources(resolver, n)' = DependencySources(resolver, n)
    BY <1>1, <2>1 DEF DependencySources, SrcOr
  <2>3. \A i : SourcesOf(resolver, i)' = SourcesOf(resolver, i)
    BY <1>1, <2>2 DEF SourcesOf
  <2>4. \A i : ModuleNamed(resolver, i)' = ModuleNamed(resolver, i)
    BY <1>1, <2>1, <2>3 DEF ModuleNamed
  <2> QED BY <1>1, <2>3, <2>4 DEF IsModule, MayReach, IsEntry
<1>3. CASE UNCHANGED vars
  BY <1>2, <1>3 DEF vars, ModulesInv
<1>4. CASE Enter
  <2>1. PICK importers \in SUBSET reached :
            LET new == UNION {Imports(m) : m \in importers} IN
            edges' = edges \cup new /\ reached' = reached \cup {e[3] : e \in new}
    BY <1>4 DEF Enter
  <2> DEFINE new == UNION {Imports(m) : m \in importers}
  <2>2. ASSUME NEW e \in new
        PROVE  IsIdentity(e[1]) /\ IsModule(resolver, e[3]) /\ MayReach(e[1], e[3].id)
    <3>1. PICK m \in importers : e \in Imports(m)
      BY <2>2
    <3>2. PICK q : e = <<m.id, q, ResolveImport(resolver, m.id, q)>> /\ ~IsRefused(e[3])
      BY <3>1 DEF Imports
    <3>3. IsIdentity(m.id)
      BY <2>1 DEF ModulesInv, IsModule
    <3> QED BY <3>2, <3>3, ResolveIs
  <2>3. edges' = edges \cup new /\ reached' = reached \cup {e[3] : e \in new}
    BY <2>1
  <2> HIDE DEF new
  <2>4. \A m \in reached' : IsModule(resolver, m)'
    BY <1>2, <2>2, <2>3 DEF ModulesInv
  <2>5. \A e \in edges' : /\ e[3] \in reached' /\ IsIdentity(e[1])
                          /\ MayReach(e[1], e[3].id)'
    BY <1>2, <2>2, <2>3 DEF ModulesInv
  <2> QED BY <2>4, <2>5 DEF ModulesInv
<1> QED BY <1>3, <1>4 DEF Next

LEMMA ModulesHold == Spec => []ModulesInv
BY ModulesInit, ModulesStep, PTL DEF Spec

----------------------------------------------------------------------------
(* Crates are closed.                                                       *)

\* What has the authority of the package system is private source text: a
\* manifest cannot give it another format (format_for, authority_for_path).
LEMMA SystemSourcesAreText ==
    ASSUME NEW r, NEW id, NEW physical, ~IsRefused(Module(r, id, physical)),
           Module(r, id, physical).authority = "PackageSystem"
    PROVE  Module(r, id, physical).format = "telora" /\ IsPrivate(physical)
<1>1. AuthorityFor(physical) = "PackageSystem"
  BY ModuleIs
<1>2. /\ physical # <<>> /\ Extension[Last(physical)] = "telora"
      /\ Mark[Last(physical)] = "native" /\ IsPrivate(physical)
  BY <1>1 DEF AuthorityFor, IsSystemSource, IsPrivate
<1>3. FormatFromPath(physical) = "telora"
  BY <1>2 DEF FormatFromPath, Formats
<1>4. FormatFor(r, id, physical) = "telora"
  BY <1>3, ModuleIs DEF FormatFor, Formats
<1> QED BY <1>2, <1>4, ModuleIs

LEMMA InvClosed == ModulesInv => CratesAreClosed
<1> SUFFICES ASSUME ModulesInv PROVE CratesAreClosed
  OBVIOUS
<1>1. ASSUME NEW m \in reached
      PROVE  /\ m.id.kind = "Source" => /\ IsPrefix(resolver.source_root, m.physical)
                                        /\ m.physical # resolver.main_path
             /\ m.id.kind = "Dependency" =>
                   IsPrefix(DependencySources(resolver, m.id.name), m.physical)
             /\ m.authority = "PackageSystem" => m.format = "telora" /\ IsPrivate(m.physical)
  <2>1. IsModule(resolver, m)
    BY <1>1 DEF ModulesInv
  <2>2. ASSUME m.authority = "PackageSystem" PROVE m.format = "telora" /\ IsPrivate(m.physical)
    <3>1. m # SystemModule(m.id.path)
      BY <2>2, SystemModuleIs
    <3>2. PICK id, physical : m = Module(resolver, id, physical) /\ ~IsRefused(m)
      BY <2>1, <3>1 DEF IsModule, ModuleNamed
    <3> QED BY <2>2, <3>2, SystemSourcesAreText, ModuleIs
  <2> QED BY <2>1, <2>2 DEF IsModule, SourcesOf
<1>2. ASSUME NEW e \in edges PROVE MayReach(e[1], e[3].id)
  BY <1>2 DEF ModulesInv
<1> QED BY <1>1, <1>2 DEF CratesAreClosed, MayReach

\* For any crates, links, manifests and options, whatever the modules import:
\* what is taken for a module of a crate lies in its sources, private modules and
\* the main module are seen only by those they are meant for, and no dependency
\* reaches its consumer (resolve_import, resolve_dependency_parts).
THEOREM CratesClosed == Spec => []CratesAreClosed
BY ModulesHold, InvClosed, PTL

\* An identity is one module, whoever asked for it and how: the same file, format
\* and authority (resolve_import, format_for, authority_for_path).
IdentitiesAreModules ==
    \A m, n \in reached : m.id = n.id => m = n

THEOREM IdentitiesHold == Spec => []IdentitiesAreModules
<1>1. ModulesInv => IdentitiesAreModules
  BY DEF ModulesInv, IdentitiesAreModules, IsModule
<1> QED BY <1>1, ModulesHold, PTL

----------------------------------------------------------------------------
(* One module has one identity.                                             *)

Registered(l) ==
    l.builtins \cup l.injected \cup l.virtual \cup (IF l.entry = <<>> THEN {} ELSE {l.entry})

\* Nothing is registered under a name that is a form of request, or the name of a
\* dependency: what is registered would hide some modules of that dependency, and
\* the others would have the names of what is registered.
NamesApart ==
    \A l \in Layouts : \A b \in Registered(l) :
        b # <<>> => Head(b) \notin {"@main", "@src", ".", ".."} \cup DependencyNames(l)

\* What resolving makes of the paths and names in an identity.
IsNamed(id) ==
    /\ id.kind \in {"Source", "Dependency"} => id.path \in Normal
    /\ id.kind = "Dependency" => id.name \notin AtNames
    /\ id.kind = "Builtin" => id.path \in Registered(layout) /\ id.path # <<>>

\* The sources of the program and of its dependencies are where some paths lead.
IsPlaced(r) ==
    /\ r.source_root \in Physicals
    /\ DOMAIN r.dependencies \subseteq DependencyNames(layout)
    /\ \A n \in DOMAIN r.dependencies : r.dependencies[n] \in Physicals

NamesInv ==
    /\ layout \in Layouts
    /\ reached # {} => IsPlaced(resolver)
    /\ \A m \in reached : IsNamed(m.id)
    /\ \A e \in edges :
          /\ IsNamed(e[1]) /\ e[2] \in layout.requests
          /\ e[3] = ResolveImport(resolver, e[1], e[2]) /\ ~IsRefused(e[3])

LEMMA MainNamed == IsNamed(Main)
BY KindsDiffer DEF IsNamed

LEMMA SystemNamed ==
    ASSUME NEW request \in Registered(layout), request # <<>>
    PROVE  IsNamed(BuiltinId(request))
BY KindsDiffer DEF IsNamed

LEMMA InOwnerNamed ==
    ASSUME NEW r, NEW importer, IsIdentity(importer), IsNamed(importer), importer.kind # "Builtin",
           NEW path \in Path, ~IsRefused(InOwner(r, importer, path))
    PROVE  LET logical == LexicalNormalizeRelative(path) IN
           /\ logical \in Normal /\ logical # Escapes
           /\ InOwner(r, importer, path).id =
                  IF importer.kind = "Dependency" THEN DependencyId(importer.name, logical)
                  ELSE SourceId(logical)
           /\ IsNamed(InOwner(r, importer, path).id)
<1> DEFINE logical == LexicalNormalizeRelative(path)
           m == InOwner(r, importer, path)
<1>1. m = InOwnerAt(r, importer, logical)
  BY DEF InOwner
<1>2. logical \in Normal \cup {Escapes}
  BY NormalizedIsNormal
<1> HIDE DEF logical, m
<1>3. logical # Escapes
  BY <1>1, RefusedIs DEF InOwnerAt, m
<1>4. importer.kind \in {"Main", "Source", "Dependency", "Builtin"}
  BY IdentityKind
<1>5. CASE importer.kind \in {"Main", "Source"}
  <2>1. m = ResolveSource(r, logical)
    BY <1>1, <1>3, <1>5 DEF InOwnerAt
  <2>2. m.id = SourceId(logical)
    BY <2>1, SourceIs DEF m
  <2>3. IsNamed(m.id)
    BY <1>2, <1>3, <2>2, KindsDiffer DEF IsNamed
  <2> QED BY <1>2, <1>3, <1>5, <2>2, <2>3 DEF m, logical
<1>6. CASE importer.kind = "Dependency"
  <2>0. PICK allow_private : allow_private = TRUE
    OBVIOUS
  <2>1. m = ResolveDependencyParts(r, importer.name, logical, allow_private)
    BY <1>1, <1>3, <1>6, <2>0, Zenon DEF InOwnerAt
  <2>2. m.id = DependencyId(importer.name, logical)
    BY <2>1, DependencyIs DEF m
  <2>3. IsNamed(m.id)
    BY <1>2, <1>3, <1>6, <2>2, KindsDiffer DEF IsNamed
  <2> QED BY <1>2, <1>3, <1>6, <2>2, <2>3 DEF m, logical
<1> QED BY <1>4, <1>5, <1>6

\* Where a relative request starts.
Base(importer) == IF importer.kind = "Main" THEN <<>> ELSE Parent(importer.path)

LEMMA BaseIs ==
    ASSUME NEW importer, IsIdentity(importer), IsNamed(importer), importer.kind # "Builtin"
    PROVE  Base(importer) \in Path
<1>1. CASE importer.kind = "Main"
  BY <1>1, EmptyIsNormal, NotEscapes DEF Base
<1>2. CASE importer.kind # "Main"
  <2>1. importer.path \in Path
    BY <1>2, IdentityKind, NotEscapes DEF IsNamed
  <2> QED BY <1>2, <2>1, PathsCompose DEF Base
<1> QED BY <1>1, <1>2

LEMMA DependencyNamed ==
    ASSUME NEW r, NEW request \in Path, request # <<>>, Head(request) \notin AtNames,
           NEW allow_private, ~IsRefused(ResolveDependency(r, request, allow_private))
    PROVE  IsNamed(ResolveDependency(r, request, allow_private).id)
<1> DEFINE logical == LexicalNormalizeRelative(Tail(request))
           m == ResolveDependency(r, request, allow_private)
<1>1. logical # Escapes /\ m = ResolveDependencyParts(r, Head(request), logical, allow_private)
  BY RefusedIs DEF ResolveDependency
<1>2. logical \in Normal \cup {Escapes}
  BY PathsCompose, NormalizedIsNormal
<1> HIDE DEF logical
<1>3. m.id = DependencyId(Head(request), logical)
  <2> HIDE DEF m
  <2> QED BY <1>1, DependencyIs DEF m
<1> HIDE DEF m
<1>4. IsNamed(m.id)
  BY <1>1, <1>2, <1>3, KindsDiffer DEF IsNamed
<1> QED BY <1>4 DEF m

LEMMA ResolveNamed ==
    ASSUME layout \in Layouts, NEW importer, IsIdentity(importer), IsNamed(importer),
           NEW request \in layout.requests, ~IsRefused(ResolveImport(resolver, importer, request))
    PROVE  IsNamed(ResolveImport(resolver, importer, request).id)
<1> DEFINE m == ResolveImport(resolver, importer, request)
           privileged == layout.entry # <<>> /\ importer = BuiltinId(layout.entry)
<1>0. request \in Path
  BY LayoutsAssumption
<1>1. request # <<>>
  BY RefusedIs DEF ResolveImport
<1>2. ASSUME m = SystemModule(request), request \in layout.virtual \cup layout.injected \cup layout.builtins
      PROVE  IsNamed(m.id)
  BY <1>1, <1>2, SystemModuleIs, SystemNamed DEF Registered
<1>3. ASSUME m = Module(resolver, Main, resolver.main_path) PROVE IsNamed(m.id)
  <2>1. m.id = Main
    BY <1>3, MainIs
  <2> QED BY <2>1, MainNamed
<1>4. ASSUME importer.kind # "Builtin", NEW path \in Path, m = InOwner(resolver, importer, path)
      PROVE  IsNamed(m.id)
  BY <1>4, InOwnerNamed
<1>5. ASSUME m = Relative(resolver, importer, request) PROVE IsNamed(m.id)
  <2>1. importer.kind # "Builtin" /\ m = InOwner(resolver, importer, Base(importer) \o request)
    BY <1>5, RefusedIs DEF Relative, Base
  <2>2. Base(importer) \o request \in Path
    BY <1>0, <2>1, BaseIs, PathsCompose
  <2> HIDE DEF m
  <2> QED BY <1>4, <2>1, <2>2
<1>6. ASSUME m = ResolveDependency(resolver, request, privileged), Head(request) \notin AtNames
      PROVE  IsNamed(m.id)
  <2>1. PICK allow_private : allow_private = privileged
    OBVIOUS
  <2>2. m = ResolveDependency(resolver, request, allow_private)
    BY <1>6, <2>1
  <2> QED BY <1>0, <1>1, <1>6, <2>2, DependencyNamed
<1>7. \/ m = SystemModule(request) /\ request \in layout.virtual \cup layout.injected \cup layout.builtins
      \/ m = Module(resolver, Main, resolver.main_path)
      \/ importer.kind # "Builtin" /\ m = InOwner(resolver, importer, Tail(request))
      \/ m = Relative(resolver, importer, request)
      \/ m = ResolveDependency(resolver, request, privileged) /\ Head(request) \notin AtNames
  BY RefusedIs DEF ResolveImport
<1>8. Tail(request) \in Path
  BY <1>0, <1>1, PathsCompose
<1> HIDE DEF m, privileged
<1> QED BY <1>2, <1>3, <1>4, <1>5, <1>6, <1>7, <1>8 DEF m

LEMMA NamesInit == Init => NamesInv
<1> SUFFICES ASSUME Init PROVE NamesInv
  OBVIOUS
<1>1. layout \in Layouts /\ edges = {} /\ resolver = ForRootSource
  BY DEF Init
<1>2. ASSUME NEW m \in reached PROVE ~IsRefused(resolver) /\ IsNamed(m.id)
  <2>1. ~IsRefused(resolver)
    BY <1>2, RefusedIs DEF Init
  <2>2. CASE layout.entry # <<>> /\ m = SystemModule(layout.entry)
    <3>1. layout.entry \in Registered(layout)
      BY <2>2 DEF Registered
    <3> QED BY <2>1, <2>2, <3>1, SystemModuleIs, SystemNamed
  <2>3. CASE ~(layout.entry # <<>> /\ m = SystemModule(layout.entry))
    <3>1. m = ResolveRoot(resolver) /\ ~IsRefused(ResolveRoot(resolver))
      BY <1>2, <2>3 DEF Init
    <3>2. m = Module(resolver, Main, resolver.main_path)
      BY <3>1, RefusedIs DEF ResolveRoot
    <3>3. m.id = Main
      BY <3>1, <3>2, MainIs
    <3> QED BY <2>1, <3>3, MainNamed
  <2> QED BY <2>2, <2>3
<1>3. reached # {} => IsPlaced(resolver)
  BY <1>1, <1>2, ResolverIs DEF IsPlaced
<1> QED BY <1>1, <1>2, <1>3 DEF NamesInv

\* What is resolved depends on the layout and the resolver alone.
LEMMA ResolvingStays ==
    ASSUME layout' = layout
    PROVE  /\ \A p : ResolvePhysical(p)' = ResolvePhysical(p)
           /\ \A r, i, q : ResolveImport(r, i, q)' = ResolveImport(r, i, q)
<1>1. \A p : ResolvePhysical(p)' = ResolvePhysical(p)
  BY DEF ResolvePhysical
<1>2. \A r, n : DependencySources(r, n)' = DependencySources(r, n)
  BY <1>1 DEF DependencySources, SrcOr
<1>3. \A r, p : ResolveSource(r, p)' = ResolveSource(r, p)
  BY <1>1 DEF ResolveSource
<1>4. \A r, n, p, a : ResolveDependencyParts(r, n, p, a)' = ResolveDependencyParts(r, n, p, a)
  BY <1>1, <1>2 DEF ResolveDependencyParts
<1>5. \A r, i, p : InOwner(r, i, p)' = InOwner(r, i, p)
  BY <1>3, <1>4, Zenon DEF InOwner, InOwnerAt
<1>6. \A r, i, q : Relative(r, i, q)' = Relative(r, i, q)
  BY <1>5, Zenon DEF Relative
<1>7. \A r, q, a : ResolveDependency(r, q, a)' = ResolveDependency(r, q, a)
  BY <1>4, Zenon DEF ResolveDependency
<1>8. \A r, i, q : ResolveImport(r, i, q)' = ResolveImport(r, i, q)
  BY <1>5, <1>6, <1>7 DEF ResolveImport
<1> QED BY <1>1, <1>8

LEMMA NamesStep == ModulesInv /\ NamesInv /\ [Next]_vars => NamesInv'
<1> SUFFICES ASSUME ModulesInv, NamesInv, [Next]_vars PROVE NamesInv'
  OBVIOUS
<1>1. layout' = layout /\ resolver' = resolver
  BY DEF Next, Enter, vars
<1>2. /\ \A i : IsNamed(i)' = IsNamed(i)
      /\ IsPlaced(resolver)' = IsPlaced(resolver)
      /\ \A i, q : ResolveImport(resolver, i, q)' = ResolveImport(resolver, i, q)
  <2>1. Physicals' = Physicals
    BY <1>1, ResolvingStays DEF Physicals
  <2> QED BY <1>1, <2>1, ResolvingStays DEF IsNamed, IsPlaced
<1>3. CASE UNCHANGED vars
  BY <1>1, <1>2, <1>3 DEF vars, NamesInv
<1>4. CASE Enter
  <2>1. PICK importers \in SUBSET reached :
            LET new == UNION {Imports(m) : m \in importers} IN
            edges' = edges \cup new /\ reached' = reached \cup {e[3] : e \in new}
    BY <1>4 DEF Enter
  <2> DEFINE new == UNION {Imports(m) : m \in importers}
  <2>2. ASSUME NEW e \in new
        PROVE  /\ reached # {} /\ IsNamed(e[1]) /\ e[2] \in layout.requests
               /\ e[3] = ResolveImport(resolver, e[1], e[2]) /\ ~IsRefused(e[3])
               /\ IsNamed(e[3].id)
    <3>1. PICK m \in importers : e \in Imports(m)
      BY <2>2
    <3>2. PICK q \in layout.requests :
              e = <<m.id, q, ResolveImport(resolver, m.id, q)>> /\ ~IsRefused(e[3])
      BY <3>1 DEF Imports
    <3>3. IsIdentity(m.id) /\ IsNamed(m.id) /\ reached # {}
      BY <2>1 DEF ModulesInv, IsModule, NamesInv
    <3>4. layout \in Layouts
      BY DEF NamesInv
    <3>5. IsNamed(e[3].id)
      BY <3>2, <3>3, <3>4, ResolveNamed
    <3> QED BY <3>2, <3>3, <3>5
  <2>3. edges' = edges \cup new /\ reached' = reached \cup {e[3] : e \in new}
    BY <2>1
  <2> HIDE DEF new
  <2>4. layout' \in Layouts /\ (reached' # {} => IsPlaced(resolver)')
    BY <1>1, <1>2, <2>2, <2>3 DEF NamesInv
  <2>5. \A m \in reached' : IsNamed(m.id)'
    BY <1>2, <2>2, <2>3 DEF NamesInv
  <2>6. \A e \in edges' :
            /\ IsNamed(e[1])' /\ e[2] \in layout'.requests
            /\ e[3] = ResolveImport(resolver, e[1], e[2])' /\ ~IsRefused(e[3])
    BY <1>1, <1>2, <2>2, <2>3 DEF NamesInv
  <2> QED BY <2>4, <2>5, <2>6 DEF NamesInv
<1> QED BY <1>3, <1>4 DEF Next

LEMMA NamesHold == Spec => [](ModulesInv /\ NamesInv)
<1>1. Init => ModulesInv /\ NamesInv
  BY ModulesInit, NamesInit
<1>2. ModulesInv /\ NamesInv /\ [Next]_vars => (ModulesInv /\ NamesInv)'
  BY ModulesStep, NamesStep
<1> QED BY <1>1, <1>2, PTL DEF Spec

LEMMA ConcatCancels ==
    ASSUME NEW s \in Path, NEW p \in Path, NEW q \in Path, s \o p = s \o q
    PROVE  p = q
<1>1. Len(s \o p) = Len(s) + Len(p) /\ Len(s \o q) = Len(s) + Len(q)
  BY DEF Path
<1>2. Len(p) = Len(q) /\ Len(p) \in Nat /\ Len(s) \in Nat
  BY <1>1 DEF Path
<1>3. ASSUME NEW k \in 1..Len(p) PROVE p[k] = q[k]
  <2>1. (s \o p)[Len(s) + k] = p[k]
    BY <1>2 DEF Path
  <2>2. (s \o q)[Len(s) + k] = q[k]
    BY <1>2 DEF Path
  <2> QED BY <2>1, <2>2
<1> QED BY <1>2, <1>3 DEF Path

LEMMA ConsIs ==
    ASSUME NEW a, NEW p \in Path
    PROVE  /\ (<<a>> \o p)[1] = a
           /\ \A q \in Path : <<a>> \o p = <<a>> \o q => p = q
<1>1. /\ <<a>> \in Seq(Name \cup {a}) /\ p \in Seq(Name \cup {a})
      /\ Len(<<a>>) = 1 /\ <<a>>[1] = a
  BY DEF Path
<1>2. (<<a>> \o p)[1] = a
  BY <1>1
<1>3. ASSUME NEW q \in Path, <<a>> \o p = <<a>> \o q PROVE p = q
  <2>1. q \in Seq(Name \cup {a})
    BY DEF Path
  <2>2. PICK c \in Seq(Name \cup {a}) : c = <<a>> /\ Len(c) = 1
    BY <1>1
  <2>3. c \o p = c \o q
    BY <1>3, <2>2
  <2>4. Len(c \o p) = 1 + Len(p) /\ Len(c \o q) = 1 + Len(q)
    BY <1>1, <2>1, <2>2
  <2>5. Len(p) = Len(q) /\ Len(p) \in Nat
    BY <1>1, <2>1, <2>3, <2>4
  <2>6. ASSUME NEW k \in 1..Len(p) PROVE p[k] = q[k]
    <3>1. (c \o p)[1 + k] = p[k]
      BY <1>1, <2>2
    <3>2. (c \o q)[1 + k] = q[k]
      BY <2>1, <2>2, <2>5
    <3> QED BY <2>3, <3>1, <3>2
  <2> QED BY <1>1, <2>1, <2>5, <2>6
<1> QED BY <1>2, <1>3

\* The names under which modules are shown differ.
LEMMA ShownApart ==
    ASSUME NamesApart, ModulesInv, NamesInv, NEW m \in reached, NEW n \in reached,
           Shown(m.id) = Shown(n.id)
    PROVE  m.id = n.id
<1> DEFINE Names == DependencyNames(layout)
           Ok(id) == /\ IsIdentity(id) /\ IsNamed(id)
                     /\ id.kind = "Dependency" => id.name \in Names
<1>1. Ok(m.id) /\ Ok(n.id) /\ layout \in Layouts
  BY DEF ModulesInv, IsModule, NamesInv, IsPlaced
<1>2. ASSUME NEW id, Ok(id)
      PROVE  /\ id.kind = "Main" => Shown(id)[1] = "@main"
             /\ id.kind = "Source" => Shown(id)[1] = "@src"
             /\ id.kind = "Dependency" =>
                   Shown(id)[1] = id.name /\ id.name \in Names /\ id.name \notin AtNames
             /\ id.kind = "Builtin" => Shown(id)[1] \notin Names \cup {"@main", "@src"}
  <2>1. CASE id.kind = "Main"
    BY <2>1 DEF Shown
  <2>2. CASE id.kind = "Source"
    <3>1. id.path \in Path /\ Shown(id) = <<"@src">> \o id.path
      BY <1>2, <2>2, NotEscapes DEF Shown, IsNamed
    <3> QED BY <2>2, <3>1, ConsIs
  <2>3. CASE id.kind = "Dependency"
    <3>1. id.path \in Path /\ Shown(id) = <<id.name>> \o id.path
      BY <1>2, <2>3, NotEscapes DEF Shown, IsNamed
    <3>2. Shown(id)[1] = id.name
      BY <3>1, ConsIs
    <3> QED BY <1>2, <2>3, <3>2 DEF IsNamed
  <2>4. CASE id.kind = "Builtin"
    <3>1. Shown(id) = id.path /\ id.path \in Registered(layout) /\ id.path # <<>>
      BY <1>2, <2>4 DEF Shown, IsNamed
    <3>2. Head(id.path) \notin {"@main", "@src"} \cup Names
      BY <1>1, <3>1 DEF NamesApart
    <3>3. id.path \in Path
      BY <1>1, <3>1, LayoutsAssumption DEF Registered
    <3>4. Head(id.path) = id.path[1]
      BY <3>1, <3>3 DEF Path
    <3> QED BY <2>4, <3>1, <3>2, <3>4
  <2> QED BY <1>2, <2>1, <2>2, <2>3, <2>4, IdentityKind
<1> HIDE DEF Names
<1>3. m.id.kind = n.id.kind
  BY <1>1, <1>2, IdentityKind DEF AtNames
<1>4. CASE m.id.kind = "Main"
  BY <1>1, <1>3, <1>4, IdentityKind
<1>5. CASE m.id.kind = "Source"
  <2>1. /\ Shown(m.id) = <<"@src">> \o m.id.path /\ m.id.path \in Path
        /\ Shown(n.id) = <<"@src">> \o n.id.path /\ n.id.path \in Path
    BY <1>1, <1>3, <1>5, NotEscapes DEF Shown, IsNamed
  <2>2. m.id.path = n.id.path
    <3> DEFINE p == m.id.path
               q == n.id.path
    <3>1. p \in Path /\ q \in Path /\ <<"@src">> \o p = <<"@src">> \o q
      BY <2>1
    <3> HIDE DEF p, q
    <3>2. p = q
      BY ONLY <3>1, ConsIs
    <3> QED BY <3>2 DEF p, q
  <2>3. m.id = SourceId(m.id.path) /\ n.id = SourceId(n.id.path)
    BY <1>1, <1>3, <1>5, KindsDiffer DEF IsIdentity
  <2> QED BY <2>2, <2>3
<1>6. CASE m.id.kind = "Dependency"
  <2>0. m.id.name = n.id.name
    BY <1>1, <1>2, <1>3, <1>6
  <2>1. /\ Shown(m.id) = <<m.id.name>> \o m.id.path /\ m.id.path \in Path
        /\ Shown(n.id) = <<m.id.name>> \o n.id.path /\ n.id.path \in Path
    BY <1>1, <1>3, <1>6, <2>0, NotEscapes DEF Shown, IsNamed
  <2>2. m.id.path = n.id.path
    <3> DEFINE p == m.id.path
               q == n.id.path
               name == m.id.name
    <3>1. p \in Path /\ q \in Path /\ <<name>> \o p = <<name>> \o q
      BY <2>1
    <3> HIDE DEF p, q, name
    <3>2. p = q
      BY ONLY <3>1, ConsIs
    <3> QED BY <3>2 DEF p, q
  <2>3. m.id = DependencyId(m.id.name, m.id.path) /\ n.id = DependencyId(n.id.name, n.id.path)
    BY <1>1, <1>3, <1>6, KindsDiffer DEF IsIdentity
  <2> QED BY <2>0, <2>2, <2>3
<1>7. CASE m.id.kind = "Builtin"
  <2>1. Shown(m.id) = m.id.path /\ Shown(n.id) = n.id.path
    BY <1>3, <1>7 DEF Shown
  <2>2. m.id = BuiltinId(m.id.path) /\ n.id = BuiltinId(n.id.path)
    BY <1>1, <1>3, <1>7, KindsDiffer DEF IsIdentity
  <2> QED BY <2>1, <2>2
<1> QED BY <1>1, <1>4, <1>5, <1>6, <1>7, IdentityKind

\* Without links the file of a module is its path below its sources.
LEMMA UnlinkedFile ==
    ASSUME ModulesInv, NamesInv, DOMAIN layout.links = {}, NEW m \in reached,
           m.id.kind \in {"Source", "Dependency"}
    PROVE  /\ SourcesOf(resolver, m.id) \in Normal /\ m.id.path \in Normal
           /\ m.physical = SourcesOf(resolver, m.id) \o m.id.path
<1>1. IsModule(resolver, m) /\ IsPlaced(resolver) /\ m.id.path \in Normal
  BY DEF ModulesInv, NamesInv, IsNamed
<1>2. ASSUME NEW p \in Path PROVE ResolvePhysical(p) \in Normal
  BY <1>2, UnlinkedIsLexical, NormalizedIsNormal
<1>3. \A p \in Physicals : p \in Normal /\ p \in Path
  BY <1>2, NotEscapes DEF Physicals
<1>4. SourcesOf(resolver, m.id) \in Normal
  <2>1. CASE m.id.kind = "Dependency"
    <3>1. resolver.dependencies[m.id.name] \in Normal /\ resolver.dependencies[m.id.name] \in Path
      BY <1>1, <1>3, <2>1 DEF IsModule, IsPlaced
    <3>2. ResolvePhysical(resolver.dependencies[m.id.name] \o <<"src">>) \in Normal
      BY <1>2, <3>1, PathsCompose
    <3> QED BY <2>1, <3>1, <3>2 DEF SourcesOf, DependencySources, SrcOr
  <2>2. CASE m.id.kind # "Dependency"
    BY <1>1, <1>3, <2>2 DEF SourcesOf, IsPlaced
  <2> QED BY <2>1, <2>2
<1> DEFINE p == SourcesOf(resolver, m.id) \o m.id.path
<1>5. p \in Normal /\ p \in Path
  BY <1>1, <1>4, PathsCompose, NotEscapes
<1>6. ResolvePhysical(p) = p
  BY <1>5, UnlinkedIsLexical, NormalStays
<1>7. m = Module(resolver, m.id, ResolvePhysical(p)) /\ ~IsRefused(m)
  BY <1>1 DEF IsModule, ModuleNamed
<1> HIDE DEF p
<1>8. m.physical = p
  BY <1>6, <1>7, ModuleIs
<1> QED BY <1>1, <1>4, <1>8 DEF p

\* Without links two modules of one crate are two files.
LEMMA FilesApart ==
    ASSUME ModulesInv, NamesInv, DOMAIN layout.links = {}, NEW m \in reached, NEW n \in reached,
           m.physical = n.physical, Owner(m.id) = Owner(n.id), m.id.kind # "Builtin"
    PROVE  m.id = n.id
<1>1. /\ IsModule(resolver, m) /\ IsModule(resolver, n)
      /\ IsIdentity(m.id) /\ IsIdentity(n.id)
  BY DEF ModulesInv, IsModule
<1>2. \A a : IsModule(resolver, a) /\ a.id.kind = "Main" => a.physical = resolver.main_path
  BY ModuleIs, KindsDiffer DEF IsModule, ModuleNamed
<1>3. /\ \A a, b, c : <<a>> # <<b, c>> /\ <<a>> # <<>> /\ <<b, c>> # <<>>
      /\ \A a, b : <<a>> = <<b>> => a = b
  OBVIOUS
<1>4. CASE m.id.kind = "Dependency"
  <2>1. n.id.kind = "Dependency" /\ n.id.name = m.id.name
    BY <1>1, <1>3, <1>4, IdentityKind DEF Owner
  <2>2. SourcesOf(resolver, n.id) = SourcesOf(resolver, m.id)
    BY <1>4, <2>1 DEF SourcesOf
  <2>3. m.id.path = n.id.path
    <3> DEFINE s == SourcesOf(resolver, m.id)
               p == m.id.path
               q == n.id.path
    <3>1. s \in Normal /\ p \in Normal /\ m.physical = s \o p
      BY <1>4, <2>1, UnlinkedFile
    <3>2. q \in Normal /\ n.physical = s \o q
      BY <1>4, <2>1, <2>2, UnlinkedFile
    <3>3. s \in Path /\ p \in Path /\ q \in Path /\ s \o p = s \o q
      BY <3>1, <3>2, NotEscapes
    <3> HIDE DEF s, p, q
    <3>4. p = q
      BY ONLY <3>3, ConcatCancels
    <3> QED BY <3>4 DEF p, q
  <2>4. m.id = DependencyId(m.id.name, m.id.path) /\ n.id = DependencyId(n.id.name, n.id.path)
    BY <1>1, <1>4, <2>1, KindsDiffer DEF IsIdentity
  <2> QED BY <2>1, <2>3, <2>4
<1>5. CASE m.id.kind \in {"Main", "Source"}
  <2>1. n.id.kind \in {"Main", "Source"}
    BY <1>1, <1>3, <1>5, IdentityKind DEF Owner
  <2>2. CASE m.id.kind = "Main" /\ n.id.kind = "Main"
    BY <1>1, <2>2, IdentityKind
  <2>3. CASE m.id.kind = "Source" /\ n.id.kind = "Source"
    <3>1. SourcesOf(resolver, n.id) = SourcesOf(resolver, m.id)
      BY <2>3 DEF SourcesOf
    <3>2. m.id.path = n.id.path
      <4> DEFINE s == SourcesOf(resolver, m.id)
                 p == m.id.path
                 q == n.id.path
      <4>1. s \in Normal /\ p \in Normal /\ m.physical = s \o p
        BY <2>3, UnlinkedFile
      <4>2. q \in Normal /\ n.physical = s \o q
        BY <2>3, <3>1, UnlinkedFile
      <4>3. s \in Path /\ p \in Path /\ q \in Path /\ s \o p = s \o q
        BY <4>1, <4>2, NotEscapes
      <4> HIDE DEF s, p, q
      <4>4. p = q
        BY ONLY <4>3, ConcatCancels
      <4> QED BY <4>4 DEF p, q
    <3>3. m.id = SourceId(m.id.path) /\ n.id = SourceId(n.id.path)
      BY <1>1, <2>3, KindsDiffer DEF IsIdentity
    <3> QED BY <3>2, <3>3
  <2>4. CASE m.id.kind # n.id.kind
    BY <1>1, <1>2, <1>5, <2>1, <2>4 DEF IsModule
  <2> QED BY <1>5, <2>1, <2>2, <2>3, <2>4
<1> QED BY <1>1, <1>4, <1>5, IdentityKind


\* A request that starts with "@src" names what follows it.
LEMMA SrcRequestIs ==
    ASSUME NEW p \in Path, p # <<>>
    PROVE  LET request == <<"@src">> \o p IN
           /\ request # <<>> /\ Len(request) > 1 /\ request # <<"@main">>
           /\ Head(request) = "@src" /\ Tail(request) = p
<1> DEFINE request == <<"@src">> \o p
<1>1. p \in Seq(Name \cup {"@src"}) /\ Len(p) > 0
  BY DEF Path
<1>2. PICK c \in Seq(Name \cup {"@src"}) : c = <<"@src">> /\ Len(c) = 1 /\ c[1] = "@src"
  <2>1. /\ <<"@src">> \in Seq(Name \cup {"@src"}) /\ Len(<<"@src">>) = 1
        /\ <<"@src">>[1] = "@src"
    OBVIOUS
  <2> QED BY <2>1, Zenon
<1>3. /\ request \in Seq(Name \cup {"@src"}) /\ Len(request) = 1 + Len(p) /\ Len(request) > 1
      /\ request[1] = "@src" /\ \A k \in 1..Len(p) : request[1 + k] = p[k]
  <2>1. request = c \o p
    BY <1>2
  <2> HIDE DEF request
  <2> QED BY <1>1, <1>2, <2>1
<1> HIDE DEF request
<1>4. request # <<>> /\ request # <<"@main">> /\ Head(request) = "@src"
  BY <1>3
<1>5. Tail(request) = p
  <2> DEFINE rest == Tail(request)
  <2>1. rest \in Seq(Name \cup {"@src"}) /\ Len(rest) = Len(p)
    BY <1>1, <1>3, <1>4
  <2>2. ASSUME NEW k \in 1..Len(p) PROVE rest[k] = p[k]
    BY <1>1, <1>3, <1>4
  <2> HIDE DEF rest
  <2>3. rest = p
    BY <1>1, <2>1, <2>2
  <2> QED BY <2>3 DEF rest
<1> QED BY <1>3, <1>4, <1>5 DEF request

\* A relative request and the "@src" request for the same place agree.
LEMMA RelativeIsSource ==
    ASSUME NamesApart, layout \in Layouts, NEW importer, IsIdentity(importer), IsNamed(importer),
           NEW request \in layout.requests, Head(request) \in {".", ".."}, Len(request) > 1,
           request \notin layout.virtual \cup layout.injected,
           ~IsRefused(ResolveImport(resolver, importer, request)),
           ResolveImport(resolver, importer, request).id.path # <<>>
    PROVE  LET m == ResolveImport(resolver, importer, request) IN
           ResolveImport(resolver, importer, <<"@src">> \o m.id.path) = m
<1> DEFINE m == ResolveImport(resolver, importer, request)
           path == Base(importer) \o request
           logical == LexicalNormalizeRelative(path)
<1>1. request \in Path /\ request # <<>>
  BY LayoutsAssumption, RefusedIs DEF ResolveImport
<1>2. request \notin layout.builtins
  BY <1>1 DEF NamesApart, Registered
<1>3. m = Relative(resolver, importer, request)
  BY <1>1, <1>2, RefusedIs DEF ResolveImport
<1>4. importer.kind # "Builtin" /\ m = InOwner(resolver, importer, path)
  BY <1>3, RefusedIs DEF Relative, Base
<1>5. path \in Path
  BY <1>1, <1>4, BaseIs, PathsCompose
<1>6. m = InOwnerAt(resolver, importer, logical)
  BY <1>4 DEF InOwner
<1> HIDE DEF path
<1>7. logical \in Normal /\ m.id.path = logical
  <2>1. ~IsRefused(InOwner(resolver, importer, path))
    BY <1>4
  <2>2. /\ logical \in Normal
        /\ m.id = IF importer.kind = "Dependency" THEN DependencyId(importer.name, logical)
                  ELSE SourceId(logical)
    BY <1>4, <1>5, <2>1, InOwnerNamed
  <2> QED BY <2>2, KindsDiffer
<1>8. m.id.path # <<>>
  OBVIOUS
<1> HIDE DEF logical, m
<1>9. logical \in Path /\ logical # <<>> /\ LexicalNormalizeRelative(logical) = logical
  BY <1>7, <1>8, NotEscapes, NormalStays
<1> DEFINE again == <<"@src">> \o logical
<1>10. /\ again # <<>> /\ Len(again) > 1 /\ again # <<"@main">>
       /\ Head(again) = "@src" /\ Tail(again) = logical
  BY <1>9, SrcRequestIs
<1> HIDE DEF again
<1>11. again \notin layout.virtual \cup layout.injected \cup layout.builtins
  BY <1>10 DEF NamesApart, Registered
<1>12. ResolveImport(resolver, importer, again) = InOwner(resolver, importer, logical)
  BY <1>4, <1>10, <1>11 DEF ResolveImport
<1>13. InOwner(resolver, importer, logical) = m
  BY <1>6, <1>9 DEF InOwner
<1> QED BY <1>7, <1>12, <1>13 DEF m, again

\* Whatever the layouts are, as long as nothing is registered under a form of
\* request or under the name of a dependency, a module has one identity and one
\* name: paths are normal, identities, shown names and (without links) the files of
\* one crate tell modules apart, and relative requests agree with "@src" requests
\* (lexical_normalize_relative, resolve_in_owner).
THEOREM OneIdentityHolds ==
    ASSUME NamesApart
    PROVE  Spec => []OneIdentity
<1>1. ASSUME ModulesInv, NamesInv PROVE OneIdentity
  <2>1. ASSUME NEW m \in reached, m.id.kind \in {"Source", "Dependency"}
        PROVE  LexicalNormalizeRelative(m.id.path) = m.id.path
    BY <1>1, <2>1, NormalStays DEF NamesInv, IsNamed
  <2>2. ASSUME NEW m \in reached, NEW n \in reached, m.id = n.id PROVE m = n
    BY <1>1, <2>2 DEF ModulesInv, IsModule
  <2>3. ASSUME NEW m \in reached, NEW n \in reached, Shown(m.id) = Shown(n.id)
        PROVE  m.id = n.id
    BY <1>1, <2>3, ShownApart
  <2>4. ASSUME NEW m \in reached, NEW n \in reached, m.physical = n.physical,
               Owner(m.id) = Owner(n.id), m.id.kind # "Builtin", DOMAIN layout.links = {}
        PROVE  m = n
    BY <1>1, <2>2, <2>4, FilesApart
  <2>5. ASSUME NEW e \in edges, e[2][1] \in {".", ".."}, Len(e[2]) > 1,
               e[2] \notin layout.virtual \cup layout.injected, e[3].id.path # <<>>
        PROVE  ResolveImport(resolver, e[1], <<"@src">> \o e[3].id.path) = e[3]
    <3>1. /\ layout \in Layouts /\ IsNamed(e[1]) /\ e[2] \in layout.requests
          /\ e[3] = ResolveImport(resolver, e[1], e[2]) /\ ~IsRefused(e[3])
      BY <1>1 DEF NamesInv
    <3>2. IsIdentity(e[1])
      BY <1>1 DEF ModulesInv
    <3>3. e[2] \in Path /\ Head(e[2]) = e[2][1]
      BY <2>5, <3>1, LayoutsAssumption DEF Path
    <3> QED BY <2>5, <3>1, <3>2, <3>3, RelativeIsSource
  <2> QED BY <2>1, <2>2, <2>3, <2>4, <2>5 DEF OneIdentity
<1> QED BY <1>1, NamesHold, PTL

----------------------------------------------------------------------------
(* The walk down a pattern and its subject.                                 *)

NextLevel(role, visits) == UNION {VisitsUnder(role, v) : v \in visits}

\* g is the levels of a walk up to n.
LevelsUpTo(role, g, pattern, subject, n) ==
    /\ g = [k \in 0..n |-> g[k]]
    /\ g[0] = {Visit(<<>>, pattern, subject)}
    /\ \A k \in 1..n : g[k] = NextLevel(role, g[k - 1])

LEMMA LevelsReached ==
    ASSUME NEW role, NEW pattern, NEW subject
    PROVE  \A n \in Nat : \E g : LevelsUpTo(role, g, pattern, subject, n)
<1> DEFINE T == {n \in Nat : \E g : LevelsUpTo(role, g, pattern, subject, n)}
<1>1. 0 \in T
  <2> DEFINE g == [k \in 0..0 |-> {Visit(<<>>, pattern, subject)}]
  <2>1. g[0] = {Visit(<<>>, pattern, subject)} /\ 1..0 = {} /\ g = [k \in 0..0 |-> g[k]]
    OBVIOUS
  <2>2. LevelsUpTo(role, g, pattern, subject, 0)
    BY <2>1 DEF LevelsUpTo
  <2> QED BY <2>2
<1>2. ASSUME NEW n \in Nat, n \in T PROVE n + 1 \in T
  <2>1. PICK g : LevelsUpTo(role, g, pattern, subject, n)
    BY <1>2
  <2> DEFINE h == [k \in 0..(n + 1) |-> IF k = n + 1 THEN NextLevel(role, g[n]) ELSE g[k]]
  <2>2. h = [k \in 0..(n + 1) |-> h[k]] /\ h[0] = g[0]
    OBVIOUS
  <2>3. ASSUME NEW k \in 1..(n + 1) PROVE h[k] = NextLevel(role, h[k - 1])
    <3>1. k \in 0..(n + 1) /\ k - 1 \in 0..(n + 1) /\ k - 1 # n + 1
      OBVIOUS
    <3>2. h[k - 1] = g[k - 1]
      BY <3>1
    <3>3. CASE k = n + 1
      BY <3>1, <3>2, <3>3
    <3>4. CASE k # n + 1
      <4>1. k \in 1..n /\ h[k] = g[k]
        BY <3>1, <3>4
      <4>2. g[k] = NextLevel(role, g[k - 1])
        BY <2>1, <4>1 DEF LevelsUpTo
      <4> QED BY <3>2, <4>1, <4>2
    <3> QED BY <3>3, <3>4
  <2>4. g[0] = {Visit(<<>>, pattern, subject)}
    BY <2>1 DEF LevelsUpTo
  <2> HIDE DEF h
  <2>5. LevelsUpTo(role, h, pattern, subject, n + 1)
    BY <2>2, <2>3, <2>4 DEF LevelsUpTo
  <2> QED BY <2>5
<1> HIDE DEF T
<1>3. \A n \in Nat : n \in T
  BY <1>1, <1>2, SetInduction
<1> QED BY <1>3 DEF T

LEMMA LevelsAgree ==
    ASSUME NEW role, NEW pattern, NEW subject, NEW m \in Nat, NEW n \in Nat, m <= n, NEW g, NEW h,
           LevelsUpTo(role, g, pattern, subject, m), LevelsUpTo(role, h, pattern, subject, n)
    PROVE  g[m] = h[m]
<1> DEFINE T == {k \in 0..m : g[k] = h[k]}
<1>1. 0 \in T
  BY DEF LevelsUpTo
<1>2. ASSUME NEW k \in 1..m, k - 1 \in T PROVE k \in T
  <2>1. k \in 1..m /\ k \in 1..n
    OBVIOUS
  <2>2. g[k] = NextLevel(role, g[k - 1]) /\ h[k] = NextLevel(role, h[k - 1])
    BY <2>1 DEF LevelsUpTo
  <2> QED BY <1>2, <2>2
<1> HIDE DEF T
<1>3. \A k \in 0..m : k \in T
  BY <1>1, <1>2, UpTo
<1> QED BY <1>3 DEF T

\* The levels of a walk are defined: each is what is under the one before.
LEMMA LevelsAre ==
    ASSUME NEW role, NEW pattern, NEW subject
    PROVE  /\ Levels(role, pattern, subject)[0] = {Visit(<<>>, pattern, subject)}
           /\ \A n \in Nat :
                 Levels(role, pattern, subject)[n + 1] = NextLevel(role, Levels(role, pattern, subject)[n])
<1> DEFINE upTo(n) == CHOOSE g : LevelsUpTo(role, g, pattern, subject, n)
           f == [n \in Nat |-> upTo(n)[n]]
           first == {Visit(<<>>, pattern, subject)}
           body(g, n) == IF n = 0 THEN first ELSE UNION {VisitsUnder(role, v) : v \in g[n - 1]}
<1>1. \A n \in Nat : LevelsUpTo(role, upTo(n), pattern, subject, n)
  BY LevelsReached
<1> HIDE DEF upTo
<1>2. f[0] = first
  BY <1>1 DEF LevelsUpTo
<1>3. ASSUME NEW n \in Nat \ {0} PROVE f[n] = NextLevel(role, f[n - 1])
  <2>1. n - 1 \in Nat /\ n - 1 <= n /\ n \in 1..n
    OBVIOUS
  <2>2. upTo(n)[n] = NextLevel(role, upTo(n)[n - 1])
    BY <1>1, <2>1 DEF LevelsUpTo
  <2>3. upTo(n - 1)[n - 1] = upTo(n)[n - 1]
    BY <1>1, <2>1, LevelsAgree
  <2> QED BY <2>1, <2>2, <2>3
<1>4. f = [n \in Nat |-> body(f, n)]
  <2>1. \A n \in Nat : f[n] = body(f, n)
    BY <1>2, <1>3 DEF NextLevel
  <2> QED BY <2>1
<1> DEFINE L == CHOOSE g : g = [n \in Nat |-> body(g, n)]
<1>5. L = [n \in Nat |-> body(L, n)]
  <2> HIDE DEF f, body
  <2> QED BY <1>4
<1>6. Levels(role, pattern, subject) = L
  BY DEF Levels
<1> HIDE DEF L
<1>7. L[0] = first
  BY <1>5
<1>8. ASSUME NEW n \in Nat PROVE L[n + 1] = NextLevel(role, L[n])
  <2>1. n + 1 \in Nat /\ n + 1 # 0 /\ (n + 1) - 1 = n
    OBVIOUS
  <2> QED BY <1>5, <2>1 DEF NextLevel
<1> QED BY <1>6, <1>7, <1>8

\* A visit below the first is of a part of the pattern of one a level higher.
LEMMA VisitAbove ==
    ASSUME NEW role, NEW pattern, NEW subject, NEW n \in Nat \ {0},
           NEW v \in Levels(role, pattern, subject)[n]
    PROVE  \E u \in Levels(role, pattern, subject)[n - 1] :
              \E i \in DOMAIN PatternParts(u.pattern) :
                 /\ GoesOn(role, u.pattern, u.subject)
                 /\ v = Visit(Append(u.path, i), PatternParts(u.pattern)[i],
                              SubjectPart(role, u.pattern, u.subject, i))
<1>1. n - 1 \in Nat /\ (n - 1) + 1 = n
  OBVIOUS
<1>2. v \in NextLevel(role, Levels(role, pattern, subject)[n - 1])
  BY <1>1, LevelsAre
<1>3. PICK u \in Levels(role, pattern, subject)[n - 1] : v \in VisitsUnder(role, u)
  BY <1>2 DEF NextLevel
<1> QED BY <1>3 DEF VisitsUnder

LEMMA VisitBelow ==
    ASSUME NEW role, NEW pattern, NEW subject, NEW n \in Nat \ {0},
           NEW u \in Levels(role, pattern, subject)[n - 1],
           NEW i \in DOMAIN PatternParts(u.pattern), GoesOn(role, u.pattern, u.subject)
    PROVE  Visit(Append(u.path, i), PatternParts(u.pattern)[i],
                 SubjectPart(role, u.pattern, u.subject, i)) \in Levels(role, pattern, subject)[n]
<1>1. n - 1 \in Nat /\ (n - 1) + 1 = n
  OBVIOUS
<1> DEFINE v == Visit(Append(u.path, i), PatternParts(u.pattern)[i],
                      SubjectPart(role, u.pattern, u.subject, i))
<1>2. v \in VisitsUnder(role, u)
  BY DEF VisitsUnder
<1> HIDE DEF v
<1>3. v \in NextLevel(role, Levels(role, pattern, subject)[n - 1])
  BY <1>2 DEF NextLevel
<1>4. v \in Levels(role, pattern, subject)[n]
  BY <1>1, <1>3, LevelsAre
<1> QED BY <1>4 DEF v

LEMMA VisitFields ==
    ASSUME NEW path, NEW pattern, NEW subject
    PROVE  /\ Visit(path, pattern, subject).path = path
           /\ Visit(path, pattern, subject).pattern = pattern
           /\ Visit(path, pattern, subject).subject = subject
BY DEF Visit

LEMMA FirstVisit ==
    ASSUME NEW role, NEW pattern, NEW subject
    PROVE  /\ Levels(role, pattern, subject)[0] = {Visit(<<>>, pattern, subject)}
           /\ Visit(<<>>, pattern, subject) \in Visits(role, pattern, subject)
<1>1. 0 \in 0..MaxDepth
  BY MaxDepthAssumption
<1>2. Levels(role, pattern, subject)[0] = {Visit(<<>>, pattern, subject)}
  BY LevelsAre
<1> QED BY <1>1, <1>2 DEF Visits

----------------------------------------------------------------------------
(* A pattern and one value of the type that it is put to.                   *)

Typed(value, type) == type = AnyType \/ value \in Inhabitants(type)

IsPattern(pattern) == pattern.kind \in PatternKinds /\ DOMAIN PatternParts(pattern) \subseteq Nat

LEMMA TypedValue ==
    ASSUME NEW value, NEW type, Typed(value, type), type.kind # "Any"
    PROVE  type \in DOMAIN ValuesOf /\ value \in ValuesOf[type]
<1>1. value \in Inhabitants(type)
  BY DEF Typed, AnyType
<1> QED BY <1>1 DEF Inhabitants

\* A choice of values for the parts of a type.
LEMMA ChoiceIs ==
    ASSUME NEW parts, NEW s
    PROVE  s \in OneOfEach(parts) <=>
              /\ s = [x \in DOMAIN parts |-> s[x]] /\ DOMAIN s = DOMAIN parts
              /\ \A x \in DOMAIN parts : s[x] \in Inhabitants(parts[x])
BY DEF OneOfEach

\* What is known of a value of a type that is known.
LEMMA Shapes ==
    ASSUME NEW value, NEW type, Typed(value, type), type.kind # "Any"
    PROVE  \/ type.kind \in {"Int", "String", "Other"} /\ value.k = type.kind
           \/ type.kind = "Dict" /\ value.k \in {"Dict", "Other"}
           \/ type.kind = "Atom" /\ value = AtomValue(type.tag)
           \/ /\ type.kind = "Tagged"
              /\ \E payload \in Inhabitants(type.payload) : value = TaggedValue(type.tag, payload)
           \/ /\ type.kind = "Enum"
              /\ \E tag \in DOMAIN type.variants :
                    IF type.variants[tag] = Bare THEN value = AtomValue(tag)
                    ELSE \E payload \in Inhabitants(type.variants[tag]) : value = TaggedValue(tag, payload)
           \/ /\ type.kind = "Tuple" /\ value.k = "Tuple"
              /\ DOMAIN value.items = DOMAIN type.items
              /\ \A i \in DOMAIN type.items : value.items[i] \in Inhabitants(type.items[i])
           \/ /\ type.kind = "Struct" /\ value.k = "Dict"
              /\ DOMAIN value.fields = DOMAIN type.fields
              /\ \A x \in DOMAIN type.fields : value.fields[x] \in Inhabitants(type.fields[x])
<1>1. type \in DOMAIN ValuesOf /\ value \in ValuesOf[type]
  BY TypedValue
<1>2. \/ type.kind \in {"Int", "String", "Dict", "Other"} /\ \A v \in ValuesOf[type] : v.k \in KindsOf(type)
      \/ /\ type.kind \in {"Atom", "Tagged", "Enum", "Tuple", "Struct"}
         /\ ValuesOf[type] = Built(type)
  BY <1>1, ValuesAssumption
<1>3. CASE type.kind \in {"Int", "String", "Dict", "Other"}
  <2>1. value.k \in KindsOf(type)
    BY <1>1, <1>2, <1>3
  <2> QED BY <1>3, <2>1 DEF KindsOf
<1>4. CASE type.kind = "Atom"
  <2>1. Built(type) = {AtomValue(type.tag)}
    BY <1>4 DEF Built
  <2> QED BY <1>1, <1>2, <1>4, <2>1
<1>5. CASE type.kind = "Tagged"
  <2>1. Built(type) = {TaggedValue(type.tag, v) : v \in Inhabitants(type.payload)}
    BY <1>5 DEF Built
  <2> QED BY <1>1, <1>2, <1>5, <2>1
<1>6. CASE type.kind = "Enum"
  <2> DEFINE Of(tag) == IF type.variants[tag] = Bare THEN {AtomValue(tag)}
                        ELSE {TaggedValue(tag, v) : v \in Inhabitants(type.variants[tag])}
  <2>1. Built(type) = UNION {Of(tag) : tag \in DOMAIN type.variants}
    BY <1>6 DEF Built
  <2>2. PICK tag \in DOMAIN type.variants : value \in Of(tag)
    BY <1>1, <1>2, <1>6, <2>1
  <2>3. IF type.variants[tag] = Bare THEN value = AtomValue(tag)
        ELSE \E payload \in Inhabitants(type.variants[tag]) : value = TaggedValue(tag, payload)
    BY <2>2
  <2> QED BY <1>6, <2>2, <2>3
<1>7. CASE type.kind = "Tuple"
  <2>1. Built(type) = {TupleValue(items) : items \in OneOfEach(type.items)}
    BY <1>7 DEF Built
  <2>2. PICK items \in OneOfEach(type.items) : value = TupleValue(items)
    BY <1>1, <1>2, <1>7, <2>1
  <2>3. value.k = "Tuple" /\ value.items = items
    BY <2>2 DEF TupleValue
  <2> QED BY <1>7, <2>2, <2>3, ChoiceIs
<1>8. CASE type.kind = "Struct"
  <2>1. Built(type) = {DictValue(fields) : fields \in OneOfEach(type.fields)}
    BY <1>8 DEF Built
  <2>2. PICK fields \in OneOfEach(type.fields) : value = DictValue(fields)
    BY <1>1, <1>2, <1>8, <2>1
  <2>3. value.k = "Dict" /\ value.fields = fields
    BY <2>2 DEF DictValue
  <2> QED BY <1>8, <2>2, <2>3, ChoiceIs
<1> QED BY <1>2, <1>3, <1>4, <1>5, <1>6, <1>7, <1>8

\* A value of an enum is one of its variants.
LEMMA EnumShape ==
    ASSUME NEW value, NEW type, Typed(value, type), type.kind = "Enum"
    PROVE  /\ value.tag \in DOMAIN type.variants
           /\ type.variants[value.tag] = Bare => value = AtomValue(value.tag)
           /\ type.variants[value.tag] # Bare =>
                 \E payload \in Inhabitants(type.variants[value.tag]) :
                    value = TaggedValue(value.tag, payload)
<1>1. PICK tag \in DOMAIN type.variants :
         IF type.variants[tag] = Bare THEN value = AtomValue(tag)
         ELSE \E payload \in Inhabitants(type.variants[tag]) : value = TaggedValue(tag, payload)
  BY Shapes
<1>2. value.tag = tag
  BY <1>1 DEF AtomValue, TaggedValue
<1> QED BY <1>1, <1>2

\* What fits no value of a type cannot fail: the checks are those of the code.
LEMMA IrrefutableFits ==
    ASSUME NEW value, NEW type, Typed(value, type), NEW pattern, pattern.kind \in PatternKinds,
           Irrefutable(pattern, type)
    PROVE  FitsValue(pattern, value)
<1>1. FitsType(pattern, type) /\ pattern.kind \notin {"Int", "String"}
  BY DEF Irrefutable
<1>2. CASE pattern.kind \in {"Wildcard", "Binding"}
  BY <1>2 DEF FitsValue
<1>3. CASE pattern.kind \in {"Atom", "Tagged"}
  <2>1. type.kind \in {"Atom", "Tagged", "Enum"}
    BY <1>1, <1>3 DEF FitsType
  <2>2. CASE type.kind # "Enum"
    <3>1. type.kind = pattern.kind /\ type.tag = pattern.tag
      BY <1>1, <1>3, <2>2 DEF FitsType
    <3>2. value.k = pattern.kind /\ value.tag = pattern.tag
      BY <1>3, <3>1, Shapes DEF AtomValue, TaggedValue
    <3> QED BY <1>3, <3>2 DEF FitsValue
  <2>3. CASE type.kind = "Enum"
    <3>1. DOMAIN type.variants = {pattern.tag}
      BY <1>3, <2>3 DEF Irrefutable
    <3>2. pattern.kind = "Atom" <=> type.variants[pattern.tag] = Bare
      BY <1>1, <1>3, <2>3 DEF FitsType
    <3>3. value.tag = pattern.tag
      BY <2>3, <3>1, EnumShape
    <3>4. value.k = pattern.kind
      BY <1>3, <2>3, <3>2, <3>3, EnumShape DEF AtomValue, TaggedValue
    <3> QED BY <1>3, <3>3, <3>4 DEF FitsValue
  <2> QED BY <2>2, <2>3
<1>4. CASE pattern.kind = "Tuple"
  <2>1. type.kind = "Tuple" /\ DOMAIN type.items = DOMAIN pattern.items
    BY <1>1, <1>4 DEF FitsType
  <2>2. value.k = "Tuple" /\ DOMAIN value.items = DOMAIN type.items
    BY <2>1, Shapes
  <2> QED BY <1>4, <2>1, <2>2 DEF FitsValue
<1>5. CASE pattern.kind = "Struct"
  <2>1. type.kind = "Struct" /\ HasFields(pattern, type.fields)
    BY <1>1, <1>5 DEF FitsType
  <2>2. value.k = "Dict" /\ DOMAIN value.fields = DOMAIN type.fields
    BY <2>1, Shapes
  <2> QED BY <1>5, <2>1, <2>2 DEF FitsValue, HasFields
<1> QED BY <1>1, <1>2, <1>3, <1>4, <1>5 DEF PatternKinds

\* What passes the test of the code is not called incompatible, but for a Struct
\* pattern put to a Dict: that is a problem of the pattern's.
LEMMA FitsIsCompatible ==
    ASSUME NEW value, NEW type, Typed(value, type), type.kind # "Any",
           NEW pattern, pattern.kind \in PatternKinds, FitsValue(pattern, value)
    PROVE  FitsType(pattern, type) \/ (pattern.kind = "Struct" /\ type.kind = "Dict")
<1>1. CASE pattern.kind \in {"Wildcard", "Binding"}
  BY <1>1 DEF FitsType
<1>2. CASE pattern.kind \in {"Int", "String"}
  <2>1. value.k = pattern.kind
    BY <1>2 DEF FitsValue
  <2>2. type.kind = pattern.kind
    BY <1>2, <2>1, Shapes DEF AtomValue, TaggedValue
  <2> QED BY <1>2, <2>2 DEF FitsType
<1>3. CASE pattern.kind \in {"Atom", "Tagged"}
  <2>1. value.k = pattern.kind /\ value.tag = pattern.tag
    BY <1>3 DEF FitsValue
  <2>2. type.kind \in {"Atom", "Tagged", "Enum"}
    BY <1>3, <2>1, Shapes
  <2>3. CASE type.kind = "Enum"
    <3>1. /\ pattern.tag \in DOMAIN type.variants
          /\ pattern.kind = "Atom" <=> type.variants[pattern.tag] = Bare
      BY <1>3, <2>1, <2>3, EnumShape DEF AtomValue, TaggedValue
    <3> QED BY <1>3, <2>3, <3>1 DEF FitsType
  <2>4. CASE type.kind # "Enum"
    <3>1. type.kind = value.k /\ type.tag = value.tag
      BY <2>2, <2>4, Shapes DEF AtomValue, TaggedValue
    <3> QED BY <1>3, <2>1, <3>1 DEF FitsType
  <2> QED BY <2>3, <2>4
<1>4. CASE pattern.kind = "Tuple"
  <2>1. value.k = "Tuple" /\ DOMAIN value.items = DOMAIN pattern.items
    BY <1>4 DEF FitsValue
  <2>2. type.kind = "Tuple" /\ DOMAIN value.items = DOMAIN type.items
    BY <2>1, Shapes DEF AtomValue, TaggedValue
  <2> QED BY <1>4, <2>1, <2>2 DEF FitsType
<1>5. CASE pattern.kind = "Struct"
  <2>1. value.k = "Dict" /\ HasFields(pattern, value.fields)
    BY <1>5 DEF FitsValue
  <2>2. \/ type.kind = "Struct" /\ DOMAIN value.fields = DOMAIN type.fields
        \/ type.kind = "Dict"
    BY <2>1, Shapes DEF AtomValue, TaggedValue
  <2> QED BY <1>5, <2>1, <2>2 DEF FitsType, HasFields
<1> QED BY <1>1, <1>2, <1>3, <1>4, <1>5 DEF PatternKinds

\* The parts of a value that passes are of the types the checker puts to them.
LEMMA PartIsTyped ==
    ASSUME NEW value, NEW type, Typed(value, type),
           NEW pattern, FitsValue(pattern, value), NEW i \in DOMAIN PatternParts(pattern)
    PROVE  Typed(ValuePart(pattern, value, i), TypePart(pattern, type, i))
<1>1. pattern.kind \in {"Tagged", "Tuple", "Struct"}
  BY DEF PatternParts
<1>2. CASE pattern.kind = "Tagged" /\ FitsType(pattern, type)
  <2>1. value.k = "Tagged" /\ value.tag = pattern.tag
    BY <1>2 DEF FitsValue
  <2>2. ValuePart(pattern, value, i) = value.payload
    BY <1>2 DEF ValuePart
  <2>3. CASE type.kind = "Enum"
    <3>1. TypePart(pattern, type, i) = type.variants[pattern.tag]
      BY <1>2, <2>3 DEF TypePart
    <3>2. type.variants[value.tag] # Bare
      BY <1>2, <2>1, <2>3 DEF FitsType
    <3>3. value.payload \in Inhabitants(type.variants[value.tag])
      BY <2>3, <3>2, EnumShape DEF TaggedValue
    <3> QED BY <2>1, <2>2, <3>1, <3>3 DEF Typed
  <2>4. CASE type.kind # "Enum"
    <3>1. type.kind = "Tagged" /\ TypePart(pattern, type, i) = type.payload
      BY <1>2, <2>4 DEF FitsType, TypePart
    <3>2. value.payload \in Inhabitants(type.payload)
      BY <3>1, Shapes DEF TaggedValue
    <3> QED BY <2>2, <3>1, <3>2 DEF Typed
  <2> QED BY <2>3, <2>4
<1>3. CASE pattern.kind = "Tuple" /\ FitsType(pattern, type)
  <2>1. type.kind = "Tuple" /\ DOMAIN type.items = DOMAIN pattern.items
    BY <1>3 DEF FitsType
  <2>2. ValuePart(pattern, value, i) = value.items[i] /\ TypePart(pattern, type, i) = type.items[i]
    BY <1>3 DEF ValuePart, TypePart
  <2>3. i \in DOMAIN type.items
    BY <1>3, <2>1 DEF PatternParts
  <2>4. value.items[i] \in Inhabitants(type.items[i])
    BY <2>1, <2>3, Shapes
  <2> QED BY <2>2, <2>4 DEF Typed
<1>4. CASE /\ pattern.kind = "Struct" /\ type.kind = "Struct"
           /\ FieldName(pattern, i) \in DOMAIN type.fields
  <2> DEFINE name == FieldName(pattern, i)
  <2>1. ValuePart(pattern, value, i) = value.fields[name] /\ TypePart(pattern, type, i) = type.fields[name]
    BY <1>4 DEF ValuePart, TypePart
  <2>2. value.fields[name] \in Inhabitants(type.fields[name])
    BY <1>4, Shapes
  <2> QED BY <2>1, <2>2 DEF Typed
<1>5. CASE ~(pattern.kind \in {"Tagged", "Tuple"} /\ FitsType(pattern, type))
           /\ ~(/\ pattern.kind = "Struct" /\ type.kind = "Struct"
                /\ FieldName(pattern, i) \in DOMAIN type.fields)
  <2>1. TypePart(pattern, type, i) = AnyType
    BY <1>1, <1>5 DEF TypePart
  <2> QED BY <2>1 DEF Typed
<1> QED BY <1>1, <1>2, <1>3, <1>4, <1>5


----------------------------------------------------------------------------
(* The walk of the checker over the type, and that of the code over a value *)
(* of the type: at each level the one is the other, in types.               *)

\* A tree of patterns that ends within the bound.
IsTree(pattern, type) ==
    \A v \in Visits("type", pattern, type) : IsPattern(v.pattern)

\* What the code visits the checker visits, at the same place.
Follows(v, u) == u.path = v.path /\ u.pattern = v.pattern /\ Typed(v.subject, u.subject)

\* Every part of the value the code comes to is of the type the checker has there.
LEMMA ValueIsFollowed ==
    ASSUME NEW pattern, NEW value, NEW type, Typed(value, type), NEW n \in 0..MaxDepth,
           NEW v \in Levels("value", pattern, value)[n]
    PROVE  \E u \in Levels("type", pattern, type)[n] : Follows(v, u)
<1> DEFINE V == Levels("value", pattern, value)
           U == Levels("type", pattern, type)
           T == {k \in 0..MaxDepth : \A x \in V[k] : \E u \in U[k] : Follows(x, u)}
<1>1. 0 \in T
  <2>1. V[0] = {Visit(<<>>, pattern, value)} /\ U[0] = {Visit(<<>>, pattern, type)}
    BY FirstVisit
  <2>2. Follows(Visit(<<>>, pattern, value), Visit(<<>>, pattern, type))
    BY VisitFields DEF Follows
  <2> QED BY <2>1, <2>2, MaxDepthAssumption
<1>2. ASSUME NEW k \in 1..MaxDepth, k - 1 \in T PROVE k \in T
  <2>1. k \in Nat \ {0} /\ k \in 0..MaxDepth
    BY MaxDepthAssumption
  <2>2. SUFFICES ASSUME NEW x \in V[k] PROVE \E u \in U[k] : Follows(x, u)
    BY <2>1
  <2> HIDE DEF T
  <2>3. PICK w \in V[k - 1] : \E i \in DOMAIN PatternParts(w.pattern) :
           /\ GoesOn("value", w.pattern, w.subject)
           /\ x = Visit(Append(w.path, i), PatternParts(w.pattern)[i],
                        SubjectPart("value", w.pattern, w.subject, i))
    BY <2>1, VisitAbove
  <2>4. PICK i \in DOMAIN PatternParts(w.pattern) :
           /\ GoesOn("value", w.pattern, w.subject)
           /\ x = Visit(Append(w.path, i), PatternParts(w.pattern)[i],
                        SubjectPart("value", w.pattern, w.subject, i))
    BY <2>3
  <2>5. PICK u \in U[k - 1] : Follows(w, u)
    BY <1>2 DEF T
  <2> DEFINE y == Visit(Append(u.path, i), PatternParts(u.pattern)[i],
                        SubjectPart("type", u.pattern, u.subject, i))
  <2>6. u.path = w.path /\ u.pattern = w.pattern /\ Typed(w.subject, u.subject)
    BY <2>5 DEF Follows
  <2>7. GoesOn("type", u.pattern, u.subject) /\ i \in DOMAIN PatternParts(u.pattern)
    BY <2>6 DEF GoesOn
  <2>8. y \in U[k]
    BY <2>1, <2>7, VisitBelow
  <2>9. FitsValue(w.pattern, w.subject)
    BY <2>4 DEF GoesOn
  <2>10. Typed(ValuePart(w.pattern, w.subject, i), TypePart(w.pattern, u.subject, i))
    BY <2>6, <2>9, PartIsTyped
  <2>11. x.path = y.path /\ x.pattern = y.pattern
         /\ x.subject = ValuePart(w.pattern, w.subject, i) /\ y.subject = TypePart(w.pattern, u.subject, i)
    BY <2>4, <2>6, VisitFields DEF SubjectPart
  <2>12. Follows(x, y)
    BY <2>10, <2>11 DEF Follows
  <2> QED BY <2>8, <2>12
<1> HIDE DEF T
<1>3. \A k \in 0..MaxDepth : k \in T
  BY <1>1, <1>2, UpTo, MaxDepthAssumption
<1> QED BY <1>3 DEF T

\* And when nothing fails the code comes to every part.
LEMMA TypeIsFollowed ==
    ASSUME NEW pattern, NEW value, NEW type, Typed(value, type), Matches(pattern, value),
           NEW n \in 0..MaxDepth, NEW u \in Levels("type", pattern, type)[n]
    PROVE  \E v \in Levels("value", pattern, value)[n] : Follows(v, u)
<1> DEFINE V == Levels("value", pattern, value)
           U == Levels("type", pattern, type)
           T == {k \in 0..MaxDepth : \A x \in U[k] : \E v \in V[k] : Follows(v, x)}
<1>1. 0 \in T
  <2>1. V[0] = {Visit(<<>>, pattern, value)} /\ U[0] = {Visit(<<>>, pattern, type)}
    BY FirstVisit
  <2>2. Follows(Visit(<<>>, pattern, value), Visit(<<>>, pattern, type))
    BY VisitFields DEF Follows
  <2> QED BY <2>1, <2>2, MaxDepthAssumption
<1>2. ASSUME NEW k \in 1..MaxDepth, k - 1 \in T PROVE k \in T
  <2>1. k \in Nat \ {0} /\ k \in 0..MaxDepth /\ k - 1 \in 0..MaxDepth
    BY MaxDepthAssumption
  <2>2. SUFFICES ASSUME NEW x \in U[k] PROVE \E v \in V[k] : Follows(v, x)
    BY <2>1
  <2> HIDE DEF T
  <2>3. PICK w \in U[k - 1] : \E i \in DOMAIN PatternParts(w.pattern) :
           /\ GoesOn("type", w.pattern, w.subject)
           /\ x = Visit(Append(w.path, i), PatternParts(w.pattern)[i],
                        SubjectPart("type", w.pattern, w.subject, i))
    BY <2>1, VisitAbove
  <2>4. PICK i \in DOMAIN PatternParts(w.pattern) :
           x = Visit(Append(w.path, i), PatternParts(w.pattern)[i],
                     SubjectPart("type", w.pattern, w.subject, i))
    BY <2>3
  <2>5. PICK v \in V[k - 1] : Follows(v, w)
    BY <1>2 DEF T
  <2> DEFINE y == Visit(Append(v.path, i), PatternParts(v.pattern)[i],
                        SubjectPart("value", v.pattern, v.subject, i))
  <2>6. w.path = v.path /\ w.pattern = v.pattern /\ Typed(v.subject, w.subject)
    BY <2>5 DEF Follows
  <2>7. v \in Visits("value", pattern, value)
    BY <2>1 DEF Visits
  <2>8. FitsValue(v.pattern, v.subject)
    BY <2>7 DEF Matches
  <2>9. GoesOn("value", v.pattern, v.subject) /\ i \in DOMAIN PatternParts(v.pattern)
    BY <2>6, <2>8 DEF GoesOn
  <2>10. y \in V[k]
    BY <2>1, <2>9, VisitBelow
  <2>11. Typed(ValuePart(v.pattern, v.subject, i), TypePart(v.pattern, w.subject, i))
    BY <2>6, <2>8, <2>9, PartIsTyped
  <2>12. x.path = y.path /\ x.pattern = y.pattern
         /\ y.subject = ValuePart(v.pattern, v.subject, i) /\ x.subject = TypePart(v.pattern, w.subject, i)
    BY <2>4, <2>6, VisitFields DEF SubjectPart
  <2>13. Follows(y, x)
    BY <2>11, <2>12 DEF Follows
  <2> QED BY <2>10, <2>13
<1> HIDE DEF T
<1>3. \A k \in 0..MaxDepth : k \in T
  BY <1>1, <1>2, UpTo, MaxDepthAssumption
<1> QED BY <1>3 DEF T

\* The place of a visit is as long as it is deep.
LEMMA PathOfLevel ==
    ASSUME NEW pattern, NEW type, IsTree(pattern, type), NEW n \in 0..MaxDepth,
           NEW u \in Levels("type", pattern, type)[n]
    PROVE  u.path \in Seq(Nat) /\ Len(u.path) = n
<1> DEFINE U == Levels("type", pattern, type)
           T == {k \in 0..MaxDepth : \A x \in U[k] : x.path \in Seq(Nat) /\ Len(x.path) = k}
<1>1. 0 \in T
  <2>1. U[0] = {Visit(<<>>, pattern, type)} /\ 0 \in 0..MaxDepth
    BY FirstVisit, MaxDepthAssumption
  <2>2. Visit(<<>>, pattern, type).path = <<>>
    BY DEF Visit
  <2>3. <<>> \in Seq(Nat) /\ Len(<<>>) = 0
    OBVIOUS
  <2>4. \A x \in U[0] : x.path = <<>>
    BY <2>1, <2>2
  <2> HIDE DEF U
  <2> QED BY <2>1, <2>3, <2>4
<1>2. ASSUME NEW k \in 1..MaxDepth, k - 1 \in T PROVE k \in T
  <2>1. k \in Nat \ {0} /\ k \in 0..MaxDepth /\ k - 1 \in 0..MaxDepth
    BY MaxDepthAssumption
  <2>2. SUFFICES ASSUME NEW x \in U[k] PROVE x.path \in Seq(Nat) /\ Len(x.path) = k
    BY <2>1
  <2> HIDE DEF T
  <2>3. PICK w \in U[k - 1] : \E i \in DOMAIN PatternParts(w.pattern) :
           /\ GoesOn("type", w.pattern, w.subject)
           /\ x = Visit(Append(w.path, i), PatternParts(w.pattern)[i],
                        SubjectPart("type", w.pattern, w.subject, i))
    BY <2>1, VisitAbove
  <2>4. PICK i \in DOMAIN PatternParts(w.pattern) : x.path = Append(w.path, i)
    BY <2>3 DEF Visit
  <2>5. w \in Visits("type", pattern, type)
    BY <2>1 DEF Visits
  <2>6. i \in Nat
    BY <2>4, <2>5 DEF IsTree, IsPattern
  <2>7. w.path \in Seq(Nat) /\ Len(w.path) = k - 1
    BY <1>2 DEF T
  <2>8. Append(w.path, i) \in Seq(Nat) /\ Len(Append(w.path, i)) = k
    BY <2>1, <2>6, <2>7
  <2> QED BY <2>4, <2>8
<1> HIDE DEF T
<1>3. \A k \in 0..MaxDepth : k \in T
  BY <1>1, <1>2, UpTo, MaxDepthAssumption
<1> QED BY <1>3 DEF T

LEMMA SameAppend ==
    ASSUME NEW a \in Seq(Nat), NEW b \in Seq(Nat), NEW i \in Nat, NEW j \in Nat,
           Append(a, i) = Append(b, j)
    PROVE  a = b /\ i = j
BY AppendInjective

TypeVisitAt(u, i) ==
    Visit(Append(u.path, i), PatternParts(u.pattern)[i], SubjectPart("type", u.pattern, u.subject, i))

\* One visit at each place.
LEMMA VisitByPath ==
    ASSUME NEW pattern, NEW type, IsTree(pattern, type),
           NEW u \in Visits("type", pattern, type), NEW v \in Visits("type", pattern, type),
           u.path = v.path
    PROVE  u = v
<1> DEFINE U == Levels("type", pattern, type)
           T == {k \in 0..MaxDepth : \A x, y \in U[k] : x.path = y.path => x = y}
<1>1. 0 \in T
  BY FirstVisit, MaxDepthAssumption
<1>2. ASSUME NEW k \in 1..MaxDepth, k - 1 \in T PROVE k \in T
  <2>1. k \in Nat \ {0} /\ k \in 0..MaxDepth /\ k - 1 \in 0..MaxDepth
    BY MaxDepthAssumption
  <2>2. SUFFICES ASSUME NEW x \in U[k], NEW y \in U[k], x.path = y.path PROVE x = y
    BY <2>1
  <2> HIDE DEF T
  <2>3. ASSUME NEW z \in U[k]
        PROVE  \E w \in U[k - 1] : \E i \in DOMAIN PatternParts(w.pattern) : z = TypeVisitAt(w, i)
    BY <2>1, VisitAbove DEF TypeVisitAt
  <2>3x. PICK w \in U[k - 1] : \E i \in DOMAIN PatternParts(w.pattern) : x = TypeVisitAt(w, i)
    BY <2>3
  <2>3y. PICK ww \in U[k - 1] : \E i \in DOMAIN PatternParts(ww.pattern) : y = TypeVisitAt(ww, i)
    BY <2>3
  <2>4. PICK i \in DOMAIN PatternParts(w.pattern) : x = TypeVisitAt(w, i)
    BY <2>3x
  <2>5. PICK ii \in DOMAIN PatternParts(ww.pattern) : y = TypeVisitAt(ww, ii)
    BY <2>3y
  <2>6. x.path = Append(w.path, i) /\ y.path = Append(ww.path, ii)
    BY <2>4, <2>5 DEF TypeVisitAt, Visit
  <2>7. w.path \in Seq(Nat) /\ Len(w.path) = k - 1 /\ ww.path \in Seq(Nat) /\ Len(ww.path) = k - 1
    BY <2>1, PathOfLevel
  <2>8. w \in Visits("type", pattern, type) /\ ww \in Visits("type", pattern, type)
    BY <2>1 DEF Visits
  <2>9. i \in Nat /\ ii \in Nat
    BY <2>4, <2>5, <2>8 DEF IsTree, IsPattern
  <2>10. w.path = ww.path /\ i = ii
    <3>1. Len(w.path) = Len(ww.path) /\ Append(w.path, i) = Append(ww.path, ii)
      BY <2>2, <2>6, <2>7
    <3> QED BY <2>7, <2>9, <3>1, SameAppend
  <2>11. w = ww
    BY <1>2, <2>10 DEF T
  <2> QED BY <2>4, <2>5, <2>10, <2>11
<1> HIDE DEF T
<1>3. \A k \in 0..MaxDepth : k \in T
  BY <1>1, <1>2, UpTo, MaxDepthAssumption
<1>4. PICK m \in 0..MaxDepth : u \in U[m]
  BY DEF Visits
<1>5. PICK n \in 0..MaxDepth : v \in U[n]
  BY DEF Visits
<1>6. m = n
  BY <1>4, <1>5, PathOfLevel
<1> QED BY <1>3, <1>4, <1>5, <1>6 DEF T


----------------------------------------------------------------------------
(* What the analysis says of a pattern, in the values of the type.          *)

\* A pattern called irrefutable takes every value.
LEMMA IrrefutableMatches ==
    ASSUME NEW pattern, NEW value, NEW type, Typed(value, type), IsTree(pattern, type),
           AnalyzePattern(pattern, type).irrefutable
    PROVE  Matches(pattern, value)
<1>1. \A u \in Visits("type", pattern, type) : Irrefutable(u.pattern, u.subject)
  BY DEF AnalyzePattern
<1>2. ASSUME NEW v \in Visits("value", pattern, value) PROVE FitsValue(v.pattern, v.subject)
  <2>1. PICK n \in 0..MaxDepth : v \in Levels("value", pattern, value)[n]
    BY DEF Visits
  <2>2. PICK u \in Levels("type", pattern, type)[n] : Follows(v, u)
    BY <2>1, ValueIsFollowed
  <2>3. u \in Visits("type", pattern, type)
    BY DEF Visits
  <2>4. u.pattern = v.pattern /\ Typed(v.subject, u.subject) /\ v.pattern.kind \in PatternKinds
    BY <2>2, <2>3 DEF Follows, IsTree, IsPattern
  <2>5. Irrefutable(v.pattern, u.subject)
    BY <1>1, <2>3, <2>4
  <2> QED BY <2>4, <2>5, IrrefutableFits
<1> QED BY <1>2 DEF Matches

\* A pattern called incompatible takes none, when it has no problems.
LEMMA MatchIsCompatible ==
    ASSUME NEW pattern, NEW value, NEW type, Typed(value, type), IsTree(pattern, type),
           Matches(pattern, value), ~AnalyzePattern(pattern, type).problems
    PROVE  AnalyzePattern(pattern, type).compatibility # "Incompatible"
<1>1. ASSUME NEW u \in Visits("type", pattern, type)
      PROVE  Compatibility(u.pattern, u.subject) # "Incompatible"
  <2>1. PICK n \in 0..MaxDepth : u \in Levels("type", pattern, type)[n]
    BY DEF Visits
  <2>2. PICK v \in Levels("value", pattern, value)[n] : Follows(v, u)
    BY <2>1, TypeIsFollowed
  <2>3. v \in Visits("value", pattern, value)
    BY DEF Visits
  <2>4. FitsValue(v.pattern, v.subject)
    BY <2>3 DEF Matches
  <2>5. u.pattern = v.pattern /\ Typed(v.subject, u.subject) /\ u.pattern.kind \in PatternKinds
    BY <2>2 DEF Follows, IsTree, IsPattern
  <2>6. ~HasProblem(u.pattern, u.subject)
    BY DEF AnalyzePattern
  <2>7. \/ u.subject.kind = "Any" \/ FitsType(u.pattern, u.subject)
        \/ u.pattern.kind = "Struct" /\ u.subject.kind = "Dict"
    BY <2>4, <2>5, FitsIsCompatible
  <2>8. ASSUME u.pattern.kind = "Struct", u.subject.kind = "Dict" PROVE FALSE
    <3>1. Compatibility(u.pattern, u.subject) = "Incompatible"
      BY <2>8 DEF Compatibility, IsUnknown, FitsType
    <3> QED BY <2>6, <2>8, <3>1 DEF HasProblem
  <2> QED BY <2>7, <2>8 DEF Compatibility, IsUnknown
<1> DEFINE all == {Compatibility(u.pattern, u.subject) : u \in Visits("type", pattern, type)}
<1>2. "Incompatible" \notin all
  BY <1>1
<1>3. AnalyzePattern(pattern, type).compatibility = Combined(all)
  BY DEF AnalyzePattern
<1> HIDE DEF all
<1> QED BY <1>2, <1>3 DEF Combined

\* A pattern that covers a variant takes every value of it.
LEMMA CoveredMatches ==
    ASSUME NEW pattern, NEW value, NEW type, Typed(value, type), IsTree(pattern, type),
           value.tag \in AnalyzePattern(pattern, type).covered
    PROVE  Matches(pattern, value)
<1> DEFINE parts == {u \in Visits("type", pattern, type) : u.path # <<>>}
<1>1. AnalyzePattern(pattern, type).covered =
         IF \A u \in parts : Irrefutable(u.pattern, u.subject) THEN PossibleVariants(pattern, type) ELSE {}
  BY DEF AnalyzePattern
<1>2. \A u \in parts : Irrefutable(u.pattern, u.subject)
  BY <1>1
<1>3. value.tag \in PossibleVariants(pattern, type)
  BY <1>1
<1>4. type.kind = "Enum" /\ FitsType(pattern, type)
  BY <1>3 DEF PossibleVariants
<1>5. Visit(<<>>, pattern, type) \in Visits("type", pattern, type)
  BY FirstVisit
<1>6. pattern.kind \in PatternKinds
  BY <1>5, VisitFields DEF IsTree, IsPattern
<1>7. FitsValue(pattern, value)
  <2>1. CASE pattern.kind \in {"Atom", "Tagged"}
    <3>1. value.tag = pattern.tag
      BY <1>3, <1>4, <2>1 DEF PossibleVariants
    <3>2. pattern.kind = "Atom" <=> type.variants[pattern.tag] = Bare
      BY <1>4, <2>1 DEF FitsType
    <3>3. value.k = pattern.kind
      BY <1>4, <2>1, <3>1, <3>2, EnumShape DEF AtomValue, TaggedValue
    <3> QED BY <2>1, <3>1, <3>3 DEF FitsValue
  <2>2. CASE pattern.kind \in {"Wildcard", "Binding"}
    BY <2>2 DEF FitsValue
  <2>3. CASE pattern.kind \in {"Int", "String", "Tuple", "Struct"}
    BY <1>4, <2>3 DEF FitsType
  <2> QED BY <1>6, <2>1, <2>2, <2>3 DEF PatternKinds
<1>8. ASSUME NEW v \in Visits("value", pattern, value) PROVE FitsValue(v.pattern, v.subject)
  <2>1. PICK n \in 0..MaxDepth : v \in Levels("value", pattern, value)[n]
    BY DEF Visits
  <2>2. CASE n = 0
    <3>1. v = Visit(<<>>, pattern, value)
      BY <2>1, <2>2, FirstVisit
    <3>2. v.pattern = pattern /\ v.subject = value
      BY <3>1, VisitFields
    <3> QED BY <1>7, <3>2
  <2>3. CASE n # 0
    <3>1. PICK u \in Levels("type", pattern, type)[n] : Follows(v, u)
      BY <2>1, ValueIsFollowed
    <3>2. u \in Visits("type", pattern, type)
      BY DEF Visits
    <3>3. u.pattern = v.pattern /\ Typed(v.subject, u.subject) /\ v.pattern.kind \in PatternKinds
      BY <3>1, <3>2 DEF Follows, IsTree, IsPattern
    <3>4. Len(u.path) = n
      BY PathOfLevel
    <3>5. u.path # <<>>
      BY <2>3, <3>4
    <3>6. Irrefutable(v.pattern, u.subject)
      BY <1>2, <3>2, <3>3, <3>5
    <3> QED BY <3>3, <3>6, IrrefutableFits
  <2> QED BY <2>2, <2>3
<1> QED BY <1>8 DEF Matches

\* A value that is taken is of a variant the pattern may match.
LEMMA MatchIsPossible ==
    ASSUME NEW pattern, NEW value, NEW type, Typed(value, type), IsTree(pattern, type),
           Matches(pattern, value), AnalyzePattern(pattern, type).possible # {}
    PROVE  type.kind = "Enum" /\ value.tag \in AnalyzePattern(pattern, type).possible
<1>1. AnalyzePattern(pattern, type).possible = PossibleVariants(pattern, type)
  BY DEF AnalyzePattern
<1>2. type.kind = "Enum" /\ FitsType(pattern, type)
  BY <1>1 DEF PossibleVariants
<1>3. Visit(<<>>, pattern, value) \in Visits("value", pattern, value)
  BY FirstVisit
<1>4. FitsValue(pattern, value)
  BY <1>3, VisitFields DEF Matches
<1>5. CASE pattern.kind \in {"Atom", "Tagged"}
  <2>1. value.tag = pattern.tag
    BY <1>4, <1>5 DEF FitsValue
  <2> QED BY <1>1, <1>2, <1>5, <2>1 DEF PossibleVariants
<1>6. CASE pattern.kind \notin {"Atom", "Tagged"}
  <2>1. value.tag \in DOMAIN type.variants
    BY <1>2, EnumShape
  <2> QED BY <1>1, <1>2, <1>6, <2>1 DEF PossibleVariants
<1> QED BY <1>5, <1>6

\* Of two places one is earlier.
LEMMA OneIsEarlier ==
    ASSUME NEW p \in Seq(Nat), NEW q \in Seq(Nat), p # q
    PROVE  Earlier(p, q) \/ Earlier(q, p)
<1> DEFINE Both == DOMAIN p \cup DOMAIN q
           Differ == {i \in Both : ~(i \in DOMAIN p /\ i \in DOMAIN q /\ p[i] = q[i])}
<1>1. DOMAIN p = 1..Len(p) /\ DOMAIN q = 1..Len(q) /\ Len(p) \in Nat /\ Len(q) \in Nat
  OBVIOUS
<1>2. Differ # {}
  <2>1. SUFFICES ASSUME Differ = {} PROVE FALSE
    OBVIOUS
  <2>2. \A i \in Both : i \in DOMAIN p /\ i \in DOMAIN q /\ p[i] = q[i]
    BY <2>1
  <2>3. DOMAIN p = DOMAIN q
    BY <2>2
  <2>4. Len(p) = Len(q)
    <3> DEFINE m == Len(p)
               n == Len(q)
    <3>1. m \in Nat /\ n \in Nat /\ 1..m = 1..n
      BY <1>1, <2>3
    <3> HIDE DEF m, n
    <3>2. m = 0 \/ m \in 1..n
      BY <3>1
    <3>3. n = 0 \/ n \in 1..m
      BY <3>1
    <3> QED BY <3>1, <3>2, <3>3 DEF m, n
  <2>5. p = q
    BY <1>1, <2>2, <2>4
  <2> QED BY <2>5
<1>3. Differ \in SUBSET Nat
  BY <1>1
<1>4. PICK i \in Differ : \A k \in Differ : i <= k
  <2> HIDE DEF Differ
  <2> QED BY <1>2, <1>3, LeastExists
<1>5. i \in Nat /\ i # 0 /\ i \in Both
  BY <1>1
<1>6. ASSUME NEW j \in 1..i - 1 PROVE j \in DOMAIN p /\ j \in DOMAIN q /\ p[j] = q[j]
  <2>1. j \in Nat /\ 1 <= j /\ j < i
    BY <1>5
  <2>2. j \in Both
    BY <1>1, <1>5, <2>1
  <2>3. j \notin Differ
    BY <1>4, <1>5, <2>1
  <2> QED BY <2>2, <2>3
<1>7. CASE i \in DOMAIN p /\ i \in DOMAIN q
  <2>1. p[i] # q[i] /\ p[i] \in Nat /\ q[i] \in Nat
    BY <1>7
  <2>2. p[i] < q[i] \/ q[i] < p[i]
    BY <2>1
  <2> QED BY <1>6, <1>7, <2>2 DEF Earlier
<1>8. CASE i \notin DOMAIN p
  BY <1>5, <1>6, <1>8 DEF Earlier
<1>9. CASE i \notin DOMAIN q
  BY <1>5, <1>6, <1>9 DEF Earlier
<1> QED BY <1>7, <1>8, <1>9

\* Without duplicates a name is bound to a value of the type it is given.
LEMMA BindingIsTyped ==
    ASSUME NEW pattern, NEW value, NEW type, Typed(value, type), IsTree(pattern, type),
           AnalyzePattern(pattern, type).duplicates = {},
           NEW b \in AnalyzePattern(pattern, type).bindings,
           NEW x \in Bound(pattern, value), x[1] = b.name
    PROVE  Typed(x[2], b.type)
<1> DEFINE visits == Visits("type", pattern, type)
           named == {u \in visits : u.pattern.kind = "Binding"}
           Repeats(u) == \E w \in named : w.pattern.name = u.pattern.name /\ Earlier(w.path, u.path)
<1>1. AnalyzePattern(pattern, type).bindings =
         {[name |-> u.pattern.name, type |-> u.subject] : u \in {u \in named : ~Repeats(u)}}
  BY DEF AnalyzePattern
<1>2. AnalyzePattern(pattern, type).duplicates = {u.path : u \in {u \in named : Repeats(u)}}
  BY DEF AnalyzePattern
<1>3. PICK u \in named : b = [name |-> u.pattern.name, type |-> u.subject]
  BY <1>1
<1>4. PICK v \in Visits("value", pattern, value) :
         v.pattern.kind = "Binding" /\ x = <<v.pattern.name, v.subject>>
  BY DEF Bound
<1>5. PICK n \in 0..MaxDepth : v \in Levels("value", pattern, value)[n]
  BY DEF Visits
<1>6. PICK w \in Levels("type", pattern, type)[n] : Follows(v, w)
  BY <1>5, ValueIsFollowed
<1>7. w \in named /\ w.pattern.name = u.pattern.name /\ Typed(v.subject, w.subject)
  <2>1. w \in visits
    BY DEF Visits
  <2> QED BY <1>3, <1>4, <1>6, <2>1 DEF Follows
<1>8. ~Repeats(u) /\ ~Repeats(w)
  BY <1>2, <1>7
<1>9. u.path = w.path
  <2>1. u.path \in Seq(Nat) /\ w.path \in Seq(Nat)
    BY <1>7, PathOfLevel DEF Visits
  <2>2. ~Earlier(u.path, w.path) /\ ~Earlier(w.path, u.path)
    BY <1>7, <1>8
  <2> QED BY <2>1, <2>2, OneIsEarlier
<1>10. u = w
  BY <1>7, <1>9, VisitByPath
<1> QED BY <1>3, <1>4, <1>7, <1>10

----------------------------------------------------------------------------
(* What a pattern that is not irrefutable does not take.                    *)

LEMMA Inhabited ==
    ASSUME NEW type \in DOMAIN ValuesOf
    PROVE  ValuesOf[type] # {}
BY VarietyAssumption

LEMMA BuiltType ==
    ASSUME NEW type \in DOMAIN ValuesOf, type.kind \in {"Atom", "Tagged", "Enum", "Tuple", "Struct"}
    PROVE  /\ ValuesOf[type] = Built(type) /\ Built(type) # {}
           /\ type.kind = "Enum" => \A tag \in DOMAIN type.variants :
                 type.variants[tag] = Bare \/ type.variants[tag] \in DOMAIN ValuesOf
<1>1. type.kind \notin {"Int", "String", "Dict", "Other", "Any"}
  OBVIOUS
<1>2. ValuesOf[type] = Built(type)
  BY <1>1, ValuesAssumption
<1> QED BY <1>2, VarietyAssumption

\* One part may be any of its values, whatever the others are.
LEMMA ChooseOne ==
    ASSUME NEW parts, OneOfEach(parts) # {}, NEW x \in DOMAIN parts
    PROVE  /\ parts[x] \in DOMAIN ValuesOf
           /\ \A part \in Inhabitants(parts[x]) : \E s \in OneOfEach(parts) : s[x] = part
<1>1. PICK s : s \in OneOfEach(parts)
  OBVIOUS
<1>2. /\ s = [y \in DOMAIN parts |-> s[y]]
      /\ \A y \in DOMAIN parts : s[y] \in Inhabitants(parts[y])
  BY <1>1, ChoiceIs
<1>3. parts[x] \in DOMAIN ValuesOf
  BY <1>2 DEF Inhabitants
<1>4. ASSUME NEW part \in Inhabitants(parts[x]) PROVE \E t \in OneOfEach(parts) : t[x] = part
  <2> DEFINE t == [y \in DOMAIN parts |-> IF y = x THEN part ELSE s[y]]
  <2>1. /\ t = [y \in DOMAIN parts |-> t[y]] /\ DOMAIN t = DOMAIN parts /\ t[x] = part
        /\ \A y \in DOMAIN parts : t[y] \in Inhabitants(parts[y])
    BY <1>2
  <2> HIDE DEF t
  <2>2. t \in OneOfEach(parts)
    BY <2>1, ChoiceIs
  <2> QED BY <2>1, <2>2
<1> QED BY <1>3, <1>4

\* Under a pattern that takes all, each part is put to every value of its type.
LEMMA PartIsFree ==
    ASSUME NEW type \in DOMAIN ValuesOf, NEW pattern, Irrefutable(pattern, type),
           NEW i \in DOMAIN PatternParts(pattern)
    PROVE  /\ TypePart(pattern, type, i) \in DOMAIN ValuesOf
           /\ \A part \in Inhabitants(TypePart(pattern, type, i)) :
                 \E value \in ValuesOf[type] : ValuePart(pattern, value, i) = part
<1>1. FitsType(pattern, type)
  BY DEF Irrefutable
<1>2. pattern.kind \in {"Tagged", "Tuple", "Struct"}
  BY DEF PatternParts
<1>3. CASE pattern.kind = "Tagged" /\ type.kind = "Enum"
  <2>1. DOMAIN type.variants = {pattern.tag} /\ type.variants[pattern.tag] # Bare
    BY <1>1, <1>3 DEF Irrefutable, FitsType
  <2>2. TypePart(pattern, type, i) = type.variants[pattern.tag]
    BY <1>1, <1>3 DEF TypePart
  <2>3. type.variants[pattern.tag] \in DOMAIN ValuesOf /\ ValuesOf[type] = Built(type)
    BY <1>3, <2>1, BuiltType
  <2>4. ASSUME NEW part \in Inhabitants(type.variants[pattern.tag])
        PROVE  \E value \in ValuesOf[type] : ValuePart(pattern, value, i) = part
    <3> DEFINE Of(tag) == IF type.variants[tag] = Bare THEN {AtomValue(tag)}
                          ELSE {TaggedValue(tag, v) : v \in Inhabitants(type.variants[tag])}
    <3>1. Built(type) = UNION {Of(tag) : tag \in DOMAIN type.variants}
      BY <1>3 DEF Built
    <3>2. TaggedValue(pattern.tag, part) \in Of(pattern.tag)
      BY <2>1
    <3>3. TaggedValue(pattern.tag, part) \in Built(type)
      BY <2>1, <3>1, <3>2
    <3>4. ValuePart(pattern, TaggedValue(pattern.tag, part), i) = part
      BY <1>3 DEF ValuePart, TaggedValue
    <3> QED BY <2>3, <3>3, <3>4
  <2> QED BY <2>2, <2>3, <2>4
<1>4. CASE pattern.kind = "Tagged" /\ type.kind # "Enum"
  <2>1. type.kind = "Tagged" /\ TypePart(pattern, type, i) = type.payload
    BY <1>1, <1>4 DEF FitsType, TypePart
  <2>2. /\ ValuesOf[type] = {TaggedValue(type.tag, v) : v \in Inhabitants(type.payload)}
        /\ ValuesOf[type] # {}
    BY <2>1, BuiltType DEF Built
  <2>3. type.payload \in DOMAIN ValuesOf
    BY <2>2 DEF Inhabitants
  <2>4. ASSUME NEW part \in Inhabitants(type.payload)
        PROVE  \E value \in ValuesOf[type] : ValuePart(pattern, value, i) = part
    <3>1. TaggedValue(type.tag, part) \in ValuesOf[type]
      BY <2>2
    <3>2. ValuePart(pattern, TaggedValue(type.tag, part), i) = part
      BY <1>4 DEF ValuePart, TaggedValue
    <3> QED BY <3>1, <3>2
  <2> QED BY <2>1, <2>3, <2>4
<1>5. CASE pattern.kind = "Tuple"
  <2>1. type.kind = "Tuple" /\ DOMAIN type.items = DOMAIN pattern.items
    BY <1>1, <1>5 DEF FitsType
  <2>2. TypePart(pattern, type, i) = type.items[i] /\ i \in DOMAIN type.items
    BY <1>1, <1>5, <2>1 DEF TypePart, PatternParts
  <2>3. ValuesOf[type] = {TupleValue(items) : items \in OneOfEach(type.items)} /\ ValuesOf[type] # {}
    BY <2>1, BuiltType DEF Built
  <2>4. OneOfEach(type.items) # {}
    BY <2>3
  <2>5. \A items : ValuePart(pattern, TupleValue(items), i) = items[i]
    BY <1>5 DEF ValuePart, TupleValue
  <2>6. /\ type.items[i] \in DOMAIN ValuesOf
        /\ \A part \in Inhabitants(type.items[i]) : \E s \in OneOfEach(type.items) : s[i] = part
    BY <2>2, <2>4, ChooseOne
  <2> QED BY <2>2, <2>3, <2>5, <2>6
<1>6. CASE pattern.kind = "Struct"
  <2> DEFINE name == FieldName(pattern, i)
  <2>1. type.kind = "Struct" /\ name \in DOMAIN type.fields
    BY <1>1, <1>6 DEF FitsType, HasFields, PatternParts
  <2>2. TypePart(pattern, type, i) = type.fields[name]
    BY <1>6, <2>1 DEF TypePart
  <2>3. ValuesOf[type] = {DictValue(fields) : fields \in OneOfEach(type.fields)} /\ ValuesOf[type] # {}
    BY <2>1, BuiltType DEF Built
  <2>4. OneOfEach(type.fields) # {}
    BY <2>3
  <2>5. \A fields : ValuePart(pattern, DictValue(fields), i) = fields[name]
    BY <1>6 DEF ValuePart, DictValue
  <2>6. /\ type.fields[name] \in DOMAIN ValuesOf
        /\ \A part \in Inhabitants(type.fields[name]) : \E s \in OneOfEach(type.fields) : s[name] = part
    BY <2>1, <2>4, ChooseOne
  <2> QED BY <2>2, <2>3, <2>5, <2>6
<1> QED BY <1>2, <1>3, <1>4, <1>5, <1>6

\* A pattern that may fit and is not irrefutable in itself fails on some value.
LEMMA SomeValueFails ==
    ASSUME NEW type \in DOMAIN ValuesOf, NEW pattern, pattern.kind \in PatternKinds,
           Compatibility(pattern, type) # "Incompatible", ~Irrefutable(pattern, type)
    PROVE  \E value \in ValuesOf[type] : ~FitsValue(pattern, value)
<1>1. FitsType(pattern, type) \/ type.kind = "Any"
  BY DEF Compatibility, IsUnknown
<1>2. CASE FitsType(pattern, type)
  <2>1. CASE pattern.kind \in {"Int", "String"}
    <3>1. type.kind = pattern.kind
      BY <1>2, <2>1 DEF FitsType
    <3>3. CASE pattern.kind = "Int"
      <4>1. PICK v \in ValuesOf[type], w \in ValuesOf[type] : v.n # w.n
        BY <3>1, <3>3, VarietyAssumption
      <4>2. v.n # pattern.value \/ w.n # pattern.value
        BY <4>1
      <4> QED BY <3>3, <4>2 DEF FitsValue
    <3>4. CASE pattern.kind = "String"
      <4>1. PICK v \in ValuesOf[type], w \in ValuesOf[type] : v.s # w.s
        BY <3>1, <3>4, VarietyAssumption
      <4>2. v.s # pattern.value \/ w.s # pattern.value
        BY <4>1
      <4> QED BY <3>4, <4>2 DEF FitsValue
    <3> QED BY <2>1, <3>3, <3>4
  <2>2. CASE pattern.kind \notin {"Int", "String"}
    <3>1. pattern.kind \in {"Atom", "Tagged"} /\ type.kind = "Enum" /\ DOMAIN type.variants # {pattern.tag}
      BY <1>2, <2>2 DEF Irrefutable
    <3>2. pattern.tag \in DOMAIN type.variants
      BY <1>2, <3>1 DEF FitsType
    <3>3. PICK tag \in DOMAIN type.variants : tag # pattern.tag
      BY <3>1, <3>2
    <3> DEFINE Of(t) == IF type.variants[t] = Bare THEN {AtomValue(t)}
                        ELSE {TaggedValue(t, v) : v \in Inhabitants(type.variants[t])}
    <3>4. ValuesOf[type] = UNION {Of(t) : t \in DOMAIN type.variants}
      BY <3>1, BuiltType DEF Built
    <3>5. \E v \in Of(tag) : v.tag = tag
      <4>1. CASE type.variants[tag] = Bare
        BY <4>1 DEF AtomValue
      <4>2. CASE type.variants[tag] # Bare
        <5>1. type.variants[tag] \in DOMAIN ValuesOf
          BY <3>1, <4>2, BuiltType
        <5>2. PICK part : part \in Inhabitants(type.variants[tag])
          BY <5>1, Inhabited DEF Inhabitants
        <5>3. TaggedValue(tag, part) \in Of(tag) /\ TaggedValue(tag, part).tag = tag
          BY <4>2, <5>2 DEF TaggedValue
        <5> QED BY <5>3
      <4> QED BY <4>1, <4>2
    <3>6. PICK v \in ValuesOf[type] : v.tag = tag
      BY <3>4, <3>5
    <3>7. ~FitsValue(pattern, v)
      BY <3>1, <3>3, <3>6 DEF FitsValue
    <3> QED BY <3>7
  <2> QED BY <2>1, <2>2
<1>3. CASE ~FitsType(pattern, type) /\ type.kind = "Any"
  <2>1. pattern.kind \in {"Int", "String", "Atom", "Tagged", "Tuple", "Struct"}
    BY <1>3 DEF FitsType, PatternKinds
  <2>2. PICK v \in ValuesOf[type], w \in ValuesOf[type] : v.k # w.k
    BY <1>3, VarietyAssumption
  <2>3. FitsValue(pattern, v) => v.k = (IF pattern.kind = "Struct" THEN "Dict" ELSE pattern.kind)
    BY <2>1 DEF FitsValue
  <2>4. FitsValue(pattern, w) => w.k = (IF pattern.kind = "Struct" THEN "Dict" ELSE pattern.kind)
    BY <2>1 DEF FitsValue
  <2> QED BY <2>2, <2>3, <2>4
<1> QED BY <1>1, <1>2, <1>3

\* Where all above is irrefutable, the code comes with any value of the type.
LEMMA PlaceIsReached ==
    ASSUME NEW pattern, NEW type \in DOMAIN ValuesOf, IsTree(pattern, type), NEW n \in 0..MaxDepth,
           \A k \in 0..MaxDepth : k < n =>
              \A u \in Levels("type", pattern, type)[k] : Irrefutable(u.pattern, u.subject)
    PROVE  \A u \in Levels("type", pattern, type)[n] :
              /\ u.subject \in DOMAIN ValuesOf
              /\ \A part \in ValuesOf[u.subject] : \E value \in ValuesOf[type] :
                    Visit(u.path, u.pattern, part) \in Levels("value", pattern, value)[n]
<1> DEFINE U == Levels("type", pattern, type)
           V(value) == Levels("value", pattern, value)
           Reached(u, k) ==
              /\ u.subject \in DOMAIN ValuesOf
              /\ \A part \in ValuesOf[u.subject] : \E value \in ValuesOf[type] :
                    Visit(u.path, u.pattern, part) \in V(value)[k]
           T == {k \in 0..n : \A u \in U[k] : Reached(u, k)}
<1>1. 0 \in T
  <2>1. U[0] = {Visit(<<>>, pattern, type)} /\ 0 \in 0..n
    BY FirstVisit, MaxDepthAssumption
  <2>2. \A value : Visit(<<>>, pattern, value) \in V(value)[0]
    BY FirstVisit
  <2>3. Reached(Visit(<<>>, pattern, type), 0)
    BY <2>2, VisitFields
  <2> QED BY <2>1, <2>3
<1>2. ASSUME NEW k \in 1..n, k - 1 \in T PROVE k \in T
  <2>1. /\ k \in Nat \ {0} /\ k \in 0..n /\ k - 1 \in 0..MaxDepth /\ k - 1 < n
    BY MaxDepthAssumption
  <2> HIDE DEF Reached
  <2>2. SUFFICES ASSUME NEW u \in U[k] PROVE Reached(u, k)
    BY <2>1
  <2>3. \A w \in U[k - 1] : Reached(w, k - 1)
    BY <1>2
  <2> HIDE DEF T
  <2>4. PICK w \in U[k - 1] : \E i \in DOMAIN PatternParts(w.pattern) :
           /\ GoesOn("type", w.pattern, w.subject)
           /\ u = Visit(Append(w.path, i), PatternParts(w.pattern)[i],
                        SubjectPart("type", w.pattern, w.subject, i))
    BY <2>1, VisitAbove
  <2>5. PICK i \in DOMAIN PatternParts(w.pattern) :
           u = Visit(Append(w.path, i), PatternParts(w.pattern)[i],
                     SubjectPart("type", w.pattern, w.subject, i))
    BY <2>4
  <2>6. /\ u.path = Append(w.path, i) /\ u.pattern = PatternParts(w.pattern)[i]
        /\ u.subject = TypePart(w.pattern, w.subject, i)
    BY <2>5 DEF SubjectPart, Visit
  <2>7. Irrefutable(w.pattern, w.subject)
    BY <2>1
  <2>8. /\ w.subject \in DOMAIN ValuesOf
        /\ \A part \in ValuesOf[w.subject] : \E value \in ValuesOf[type] :
              Visit(w.path, w.pattern, part) \in V(value)[k - 1]
    BY <2>3 DEF Reached
  <2>9. /\ u.subject \in DOMAIN ValuesOf
        /\ \A part \in Inhabitants(u.subject) :
              \E whole \in ValuesOf[w.subject] : ValuePart(w.pattern, whole, i) = part
    BY <2>6, <2>7, <2>8, PartIsFree
  <2>10. w.pattern.kind \in PatternKinds
    <3>1. w \in Visits("type", pattern, type)
      BY <2>1 DEF Visits
    <3> QED BY <3>1 DEF IsTree, IsPattern
  <2>11. ASSUME NEW part \in ValuesOf[u.subject]
         PROVE  \E value \in ValuesOf[type] : Visit(u.path, u.pattern, part) \in V(value)[k]
    <3>1. PICK whole \in ValuesOf[w.subject] : ValuePart(w.pattern, whole, i) = part
      BY <2>9 DEF Inhabitants
    <3>2. PICK value \in ValuesOf[type] : Visit(w.path, w.pattern, whole) \in V(value)[k - 1]
      BY <2>8
    <3>3. Typed(whole, w.subject)
      BY <2>8 DEF Typed, Inhabitants
    <3>4. FitsValue(w.pattern, whole)
      BY <2>7, <2>10, <3>3, IrrefutableFits
    <3> DEFINE x == Visit(w.path, w.pattern, whole)
    <3>5. x.path = w.path /\ x.pattern = w.pattern /\ x.subject = whole
      BY VisitFields
    <3>6. GoesOn("value", x.pattern, x.subject) /\ i \in DOMAIN PatternParts(x.pattern)
      BY <3>4, <3>5 DEF GoesOn
    <3> HIDE DEF x
    <3>7. Visit(Append(x.path, i), PatternParts(x.pattern)[i],
                SubjectPart("value", x.pattern, x.subject, i)) \in V(value)[k]
      BY <2>1, <3>2, <3>6, VisitBelow DEF x
    <3>8. SubjectPart("value", x.pattern, x.subject, i) = part
      BY <3>1, <3>5 DEF SubjectPart
    <3> QED BY <2>6, <3>5, <3>7, <3>8
  <2> QED BY <2>9, <2>11 DEF Reached
<1> HIDE DEF T
<1>3. n \in Nat /\ n \in 0..n
  BY MaxDepthAssumption
<1>4. \A k \in 0..n : k \in T
  BY ONLY <1>1, <1>2, <1>3, UpTo
<1>5. n \in T
  BY <1>3, <1>4
<1> QED BY <1>5 DEF T

\* A pattern that is neither irrefutable nor incompatible fails on some value.
LEMMA RefutableFails ==
    ASSUME NEW pattern, NEW type \in DOMAIN ValuesOf, IsTree(pattern, type),
           ~AnalyzePattern(pattern, type).irrefutable,
           AnalyzePattern(pattern, type).compatibility # "Incompatible"
    PROVE  \E value \in ValuesOf[type] : ~Matches(pattern, value)
<1> DEFINE U == Levels("type", pattern, type)
           N == {n \in 0..MaxDepth : \E u \in U[n] : ~Irrefutable(u.pattern, u.subject)}
<1>1. \E u \in Visits("type", pattern, type) : ~Irrefutable(u.pattern, u.subject)
  BY DEF AnalyzePattern
<1>2. N # {}
  BY <1>1 DEF Visits
<1>3. N \in SUBSET Nat
  BY MaxDepthAssumption
<1>4. PICK n \in N : \A k \in N : n <= k
  <2> HIDE DEF N
  <2> QED BY <1>2, <1>3, LeastExists
<1>5. n \in 0..MaxDepth /\ n \in Nat
  BY <1>3
<1>6. PICK u \in U[n] : ~Irrefutable(u.pattern, u.subject)
  BY <1>4
<1>7. ASSUME NEW k \in 0..MaxDepth, k < n, NEW w \in U[k] PROVE Irrefutable(w.pattern, w.subject)
  <2>1. k \notin N
    BY <1>4, <1>5, <1>7, MaxDepthAssumption
  <2> QED BY <2>1
<1> HIDE DEF N
<1>8. /\ u.subject \in DOMAIN ValuesOf
      /\ \A part \in ValuesOf[u.subject] : \E value \in ValuesOf[type] :
            Visit(u.path, u.pattern, part) \in Levels("value", pattern, value)[n]
  BY <1>5, <1>7, PlaceIsReached
<1>9. u \in Visits("type", pattern, type)
  BY <1>5 DEF Visits
<1>10. Compatibility(u.pattern, u.subject) # "Incompatible"
  <2> DEFINE all == {Compatibility(w.pattern, w.subject) : w \in Visits("type", pattern, type)}
  <2>1. AnalyzePattern(pattern, type).compatibility = Combined(all)
    BY DEF AnalyzePattern
  <2>2. "Incompatible" \notin all
    <3> HIDE DEF all
    <3> QED BY <2>1 DEF Combined
  <2> QED BY <1>9, <2>2
<1>11. PICK part \in ValuesOf[u.subject] : ~FitsValue(u.pattern, part)
  BY <1>6, <1>8, <1>9, <1>10, SomeValueFails DEF IsTree, IsPattern
<1>12. PICK value \in ValuesOf[type] :
          Visit(u.path, u.pattern, part) \in Levels("value", pattern, value)[n]
  BY <1>8
<1>13. ~Matches(pattern, value)
  <2>1. Visit(u.path, u.pattern, part) \in Visits("value", pattern, value)
    BY <1>5, <1>12 DEF Visits
  <2> QED BY <1>11, <2>1, VisitFields DEF Matches
<1> QED BY <1>13

----------------------------------------------------------------------------
(* The arms of a match, one by one.                                         *)

MatchTypeOK ==
    /\ matched \in DOMAIN ArmsFor
    /\ arms \in Seq(ArmsFor[matched])
    /\ phase \in {"arms", "done"}
    /\ form \in {"if let", "let else"} /\ phase = "arms" => arms = <<>>

\* What is reported is reported of an arm that was looked at, or of the match.
PlacesInv == \A place \in DOMAIN diagnostics : place # <<>> => place[1] \in 1..Len(arms)

\* What counts as covered is taken.
CoverInv ==
    \A value \in ValuesOf[matched] :
        value.tag \in covered_variants \/ all_values_covered => Taken(value, Len(arms))

\* The reports of the last arm.
LastInv ==
    arms # <<>> =>
        LET i == Len(arms)
            analysis == AnalyzePattern(arms[i].pattern, matched)
        IN  /\ Reported(i, "incompatible") => analysis.compatibility = "Incompatible" /\ ~analysis.problems
            /\ Reported(i, "irrefutable") => analysis.irrefutable
            /\ Reported(i, "unreachable") =>
                  \A value \in ValuesOf[matched] :
                     Matches(arms[i].pattern, value) => Taken(value, i - 1)

\* What is known when nothing is reported.
SilentInv ==
    /\ (form = "let" /\ arms # <<>>) =>
          /\ Len(arms) = 1 /\ ~arms[1].guarded
          /\ DOMAIN diagnostics = {} => AnalyzePattern(arms[1].pattern, matched).irrefutable
    /\ (phase = "done" /\ form \in {"match", "let"}) =>
          /\ arms # <<>>
          /\ matched.kind = "Enum" /\ DOMAIN diagnostics = {} => DOMAIN matched.variants \subseteq covered_variants
    /\ (phase = "done" /\ form = "let else") =>
          /\ Len(arms) = 1
          /\ DOMAIN diagnostics = {} =>
                LET analysis == AnalyzePattern(arms[1].pattern, matched)
                IN  ~analysis.irrefutable /\ analysis.compatibility # "Incompatible"

MatchInv == MatchTypeOK /\ PlacesInv /\ CoverInv /\ LastInv /\ SilentInv

\* What is known of the diagnostics once some reports are made.
Reports(d, known, reports) ==
    /\ DOMAIN d = DOMAIN known \cup {reports[i].at : i \in {i \in DOMAIN reports : reports[i].when}}
    /\ \A place \in DOMAIN d :
          \/ place \in DOMAIN known /\ d[place] = known[place]
          \/ \E i \in DOMAIN reports :
                reports[i].when /\ reports[i].at = place /\ d[place] = reports[i].why

LEMMA ReportIs ==
    ASSUME NEW n \in Nat, NEW reports, DOMAIN reports = 1..n
    PROVE  Reports(Report(reports), diagnostics, reports)
<1> DEFINE Made(place) == {i \in DOMAIN reports : reports[i].when /\ reports[i].at = place}
           First(place) == CHOOSE i \in Made(place) : \A j \in Made(place) : i <= j
           all == {reports[i].at : i \in {i \in DOMAIN reports : reports[i].when}}
           known == DOMAIN diagnostics
           d == [place \in known \cup (all \ known) |->
                    IF place \in known THEN diagnostics[place] ELSE reports[First(place)].why]
<1>1. Report(reports) = d
  BY DEF Report
<1>2. ASSUME NEW place \in all PROVE First(place) \in Made(place)
  <2>1. Made(place) # {} /\ Made(place) \in SUBSET Nat
    OBVIOUS
  <2> HIDE DEF Made
  <2>2. \E i \in Made(place) : \A j \in Made(place) : i <= j
    BY <2>1, LeastExists
  <2> QED BY <2>2
<1>3. DOMAIN d = known \cup all
  OBVIOUS
<1>4. ASSUME NEW place \in DOMAIN d
      PROVE  \/ place \in known /\ d[place] = diagnostics[place]
             \/ \E i \in DOMAIN reports :
                   reports[i].when /\ reports[i].at = place /\ d[place] = reports[i].why
  <2>1. CASE place \in known
    BY <2>1
  <2>2. CASE place \notin known
    <3>1. place \in all
      BY <1>3, <2>2
    <3>2. d[place] = reports[First(place)].why
      BY <2>2, <3>1
    <3>3. First(place) \in Made(place)
      BY <1>2, <3>1
    <3> HIDE DEF First, d
    <3> QED BY <3>2, <3>3
  <2> QED BY <2>1, <2>2
<1> HIDE DEF d
<1> QED BY <1>1, <1>3, <1>4 DEF Reports

LEMMA MatchInvInit == MatchInit => MatchInv
<1> SUFFICES ASSUME MatchInit PROVE MatchInv
  OBVIOUS
<1> USE DEF MatchInit
<1>1. MatchTypeOK
  <2>1. \A S : <<>> \in Seq(S)
    <3> TAKE S
    <3> QED BY EmptySeq
  <2>2. arms \in Seq(ArmsFor[matched])
    BY <2>1
  <2> QED BY <2>2 DEF MatchTypeOK
<1>2. PlacesInv /\ CoverInv
  BY DEF PlacesInv, CoverInv
<1>3. LastInv /\ SilentInv
  BY DEF LastInv, SilentInv
<1> QED BY <1>1, <1>2, <1>3 DEF MatchInv

LEMMA PatternOfArm ==
    ASSUME NEW type \in DOMAIN ArmsFor, NEW arm \in ArmsFor[type]
    PROVE  IsTree(arm.pattern, type)
BY PatternsAssumption DEF IsTree, IsPattern

LEMMA ValueOfMatched ==
    ASSUME NEW type \in DOMAIN ArmsFor, NEW value \in ValuesOf[type]
    PROVE  Typed(value, type)
BY ValuesAssumption DEF Typed, Inhabitants

\* The reports of an arm are at places of its own.
LEMMA NewReports ==
    ASSUME MatchTypeOK, PlacesInv, NEW d, NEW m \in Nat, NEW reports, DOMAIN reports = 1..m,
           Reports(d, diagnostics, reports),
           \A i \in 1..m : reports[i].at[1] = Len(arms) + 1 /\ reports[i].at # <<>>
    PROVE  /\ \A place \in DOMAIN d : place # <<>> => place[1] \in 1..(Len(arms) + 1)
           /\ \A place \in DOMAIN d : place # <<>> /\ place[1] = Len(arms) + 1 =>
                 \E i \in 1..m : reports[i].when /\ d[place] = reports[i].why
           /\ \A i \in 1..m : reports[i].when => DOMAIN d # {}
<1>1. Len(arms) \in Nat
  <2>1. \A S : arms \in Seq(S) => Len(arms) \in Nat
    OBVIOUS
  <2> QED BY <2>1 DEF MatchTypeOK
<1>2. ASSUME NEW place \in DOMAIN d, place # <<>>
      PROVE  /\ place[1] \in 1..(Len(arms) + 1)
             /\ place[1] = Len(arms) + 1 =>
                   \E i \in 1..m : reports[i].when /\ d[place] = reports[i].why
  <2>1. CASE place \in DOMAIN diagnostics
    <3>1. place[1] \in 1..Len(arms)
      BY <1>2, <2>1 DEF PlacesInv
    <3> DEFINE a == place[1]
               n == Len(arms)
    <3>2. a \in 1..n /\ n \in Nat
      BY <1>1, <3>1
    <3> HIDE DEF a, n
    <3>3. a \in 1..(n + 1) /\ a # n + 1
      BY <3>2
    <3> QED BY <3>3 DEF a, n
  <2>2. CASE place \notin DOMAIN diagnostics
    <3>1. PICK i \in 1..m : reports[i].when /\ reports[i].at = place /\ d[place] = reports[i].why
      BY <2>2 DEF Reports
    <3>2. place[1] = Len(arms) + 1
      BY <3>1
    <3>3. Len(arms) + 1 \in 1..(Len(arms) + 1)
      BY <1>1
    <3> QED BY <3>1, <3>2, <3>3
  <2> QED BY <2>1, <2>2
<1>3. ASSUME NEW i \in 1..m, reports[i].when PROVE DOMAIN d # {}
  <2>1. reports[i].at \in {reports[j].at : j \in {j \in DOMAIN reports : reports[j].when}}
    BY <1>3
  <2>2. reports[i].at \in DOMAIN d
    BY <2>1 DEF Reports
  <2> QED BY <2>2
<1> QED BY <1>2, <1>3


TakenBy(list, value, n) == \E i \in 1..n : ~list[i].guarded /\ Matches(list[i].pattern, value)

\* One more arm: those before it are where they were.
LEMMA OneMore ==
    ASSUME NEW S, NEW list \in Seq(S), NEW arm \in S, NEW more, more = Append(list, arm)
    PROVE  /\ more \in Seq(S) /\ more # <<>> /\ Len(list) \in Nat
           /\ Len(more) = Len(list) + 1 /\ more[Len(list) + 1] = arm
           /\ \A i \in 1..Len(list) : more[i] = list[i]
BY AppendProperties

LEMMA OneArm ==
    ASSUME NEW S, NEW arm \in S
    PROVE  <<arm>> \in Seq(S) /\ Len(<<arm>>) = 1 /\ <<arm>>[1] = arm /\ <<arm>> # <<>>
OBVIOUS

LEMMA OneIsFirst == 0 + 1 = 1 /\ 1 \in 1..1
OBVIOUS

LEMMA NoneTaken ==
    ASSUME NEW list, NEW value
    PROVE  ~TakenBy(list, value, 0)
<1>1. 1..0 = {}
  OBVIOUS
<1> QED BY <1>1 DEF TakenBy

LEMMA TakenMore ==
    ASSUME NEW S, NEW list \in Seq(S), NEW arm \in S, NEW value
    PROVE  /\ TakenBy(Append(list, arm), value, Len(list)) = TakenBy(list, value, Len(list))
           /\ TakenBy(list, value, Len(list)) => TakenBy(Append(list, arm), value, Len(list) + 1)
           /\ ~arm.guarded /\ Matches(arm.pattern, value)
                 => TakenBy(Append(list, arm), value, Len(list) + 1)
<1> DEFINE n == Len(list)
           more == Append(list, arm)
<1>1. n \in Nat /\ more[n + 1] = arm /\ \A i \in 1..n : more[i] = list[i]
  BY OneMore
<1> HIDE DEF n, more
<1>2. n + 1 \in 1..(n + 1) /\ \A i \in 1..n : i \in 1..(n + 1)
  BY <1>1
<1>3. TakenBy(more, value, n) = TakenBy(list, value, n)
  BY <1>1 DEF TakenBy
<1>4. TakenBy(list, value, n) => TakenBy(more, value, n + 1)
  BY <1>1, <1>2 DEF TakenBy
<1>5. ~arm.guarded /\ Matches(arm.pattern, value) => TakenBy(more, value, n + 1)
  BY <1>1, <1>2 DEF TakenBy
<1> QED BY <1>3, <1>4, <1>5 DEF n, more

LEMMA CheckArmKeeps ==
    ASSUME MatchInv, NEW arm \in ArmsFor[matched], CheckArm(arm)
    PROVE  MatchInv'
<1> DEFINE analysis == AnalyzePattern(arm.pattern, matched)
           n == Len(arms) + 1
           required == form = "let"
           covered == IF Covers(arm) THEN covered_variants \cup analysis.covered ELSE covered_variants
           reports == <<
              When(analysis.compatibility = "Incompatible" /\ ~required /\ ~analysis.problems,
                   At(n, FirstIncompatibleLocation(arm.pattern, matched)), "incompatible"),
              When(required /\ ~analysis.irrefutable,
                   At(n, FirstRefutableLocation(arm.pattern, matched)), "refutable"),
              When(all_values_covered \/ Redundant(analysis), At(n, <<>>), "unreachable"),
              When(analysis.problems, At(n, Problem), "problem"),
              When(analysis.duplicates # {}, At(n, Duplicate), "duplicate")>>
<1> HIDE DEF analysis
<1>1. /\ phase = "arms" /\ form \in {"match", "let"}
      /\ Len(arms) < (IF form = "let" THEN 1 ELSE MaxArms[matched])
      /\ form = "let" => ~arm.guarded
      /\ arms' = Append(arms, arm)
      /\ diagnostics' = Report(reports)
      /\ covered_variants' = covered
      /\ all_values_covered' =
              \/ all_values_covered
              \/ /\ Covers(arm)
                 /\ \/ analysis.irrefutable
                    \/ matched.kind = "Enum" /\ DOMAIN matched.variants \subseteq covered
      /\ matched' = matched /\ form' = form /\ phase' = phase
  BY DEF CheckArm, ArmAnalyzed, analysis
<1>2. matched \in DOMAIN ArmsFor /\ arms \in Seq(ArmsFor[matched])
  BY DEF MatchInv, MatchTypeOK
<1>3. IsTree(arm.pattern, matched)
  BY <1>2, PatternOfArm
<1>4. /\ arms' \in Seq(ArmsFor[matched]) /\ arms' # <<>> /\ Len(arms) \in Nat
      /\ Len(arms') = n /\ arms'[n] = arm /\ \A i \in 1..Len(arms) : arms'[i] = arms[i]
  BY <1>1, <1>2, OneMore
<1>5. \A value : /\ TakenBy(arms, value, Len(arms)) => TakenBy(arms', value, n)
                 /\ TakenBy(arms', value, Len(arms)) = TakenBy(arms, value, Len(arms))
                 /\ ~arm.guarded /\ Matches(arm.pattern, value) => TakenBy(arms', value, n)
  <2> TAKE value
  <2>1. /\ TakenBy(Append(arms, arm), value, Len(arms)) = TakenBy(arms, value, Len(arms))
        /\ TakenBy(arms, value, Len(arms)) => TakenBy(Append(arms, arm), value, Len(arms) + 1)
        /\ ~arm.guarded /\ Matches(arm.pattern, value)
                 => TakenBy(Append(arms, arm), value, Len(arms) + 1)
    BY <1>2, TakenMore
  <2> QED BY <1>1, <2>1
<1>6. \A value \in ValuesOf[matched] :
         value.tag \in covered_variants \/ all_values_covered => TakenBy(arms, value, Len(arms))
  BY DEF MatchInv, CoverInv, Taken, TakenBy
<1>7. \A value \in ValuesOf[matched] : Typed(value, matched)
  BY <1>2, ValueOfMatched
<1>8. /\ DOMAIN reports = 1..5
      /\ \A i \in 1..5 : reports[i].at[1] = Len(arms) + 1 /\ reports[i].at # <<>>
  BY DEF When, At
<1>9. /\ reports[1].when => analysis.compatibility = "Incompatible" /\ ~analysis.problems
      /\ reports[2].when = (required /\ ~analysis.irrefutable)
      /\ reports[3].when => all_values_covered \/ Redundant(analysis)
      /\ reports[1].why = "incompatible" /\ reports[2].why = "refutable"
      /\ reports[3].why = "unreachable" /\ reports[4].why = "problem" /\ reports[5].why = "duplicate"
  BY DEF When
<1> HIDE DEF reports
<1>10. Reports(diagnostics', diagnostics, reports)
  BY <1>1, <1>8, ReportIs
<1>11. /\ \A place \in DOMAIN diagnostics' : place # <<>> => place[1] \in 1..n
       /\ \A place \in DOMAIN diagnostics' : place # <<>> /\ place[1] = n =>
             \E i \in 1..5 : reports[i].when /\ diagnostics'[place] = reports[i].why
       /\ \A i \in 1..5 : reports[i].when => DOMAIN diagnostics' # {}
  <2> DEFINE d == diagnostics'
  <2>1. MatchTypeOK /\ PlacesInv /\ 5 \in Nat /\ Reports(d, diagnostics, reports)
    BY <1>10 DEF MatchInv
  <2> HIDE DEF d
  <2>2. /\ \A place \in DOMAIN d : place # <<>> => place[1] \in 1..(Len(arms) + 1)
        /\ \A place \in DOMAIN d : place # <<>> /\ place[1] = Len(arms) + 1 =>
              \E i \in 1..5 : reports[i].when /\ d[place] = reports[i].why
        /\ \A i \in 1..5 : reports[i].when => DOMAIN d # {}
    BY ONLY <1>8, <2>1, NewReports
  <2> QED BY <2>2 DEF d
<1> HIDE DEF n, covered
<1>12. MatchTypeOK'
  BY <1>1, <1>2, <1>4 DEF MatchTypeOK
<1>13. PlacesInv'
  BY <1>4, <1>11 DEF PlacesInv
<1>14. CoverInv'
  <2>1. SUFFICES ASSUME NEW value \in ValuesOf[matched], value.tag \in covered_variants' \/ all_values_covered'
                 PROVE  TakenBy(arms', value, n)
    BY <1>1, <1>4 DEF CoverInv, Taken, TakenBy
  <2>2. ASSUME value.tag \in covered PROVE TakenBy(arms', value, n)
    <3>1. CASE value.tag \in covered_variants
      BY <1>5, <1>6, <3>1
    <3>2. CASE value.tag \notin covered_variants
      <4>1. ~arm.guarded /\ value.tag \in analysis.covered
        BY <2>2, <3>2 DEF covered, Covers
      <4>2. Matches(arm.pattern, value)
        BY <1>3, <1>7, <4>1, CoveredMatches DEF analysis
      <4> QED BY <1>5, <4>1, <4>2
    <3> QED BY <3>1, <3>2
  <2>3. CASE value.tag \in covered_variants'
    BY <1>1, <2>2, <2>3
  <2>4. CASE all_values_covered
    BY <1>5, <1>6, <2>4
  <2>5. CASE Covers(arm) /\ analysis.irrefutable
    <3>1. Matches(arm.pattern, value)
      BY <1>3, <1>7, <2>5, IrrefutableMatches DEF analysis
    <3> QED BY <1>5, <2>5, <3>1 DEF Covers
  <2>6. CASE matched.kind = "Enum" /\ DOMAIN matched.variants \subseteq covered
    <3>1. value.tag \in DOMAIN matched.variants
      BY <1>7, <2>6, EnumShape
    <3> QED BY <2>2, <2>6, <3>1
  <2> QED BY <1>1, <2>1, <2>3, <2>4, <2>5, <2>6
<1>15. LastInv'
  <2> DEFINE Says(why) ==
         \E place \in DOMAIN diagnostics' : place # <<>> /\ place[1] = n /\ diagnostics'[place] = why
  <2>1. ASSUME NEW why, Says(why) PROVE \E i \in 1..5 : reports[i].when /\ why = reports[i].why
    BY <1>11, <2>1
  <2>2. Says("incompatible") => analysis.compatibility = "Incompatible" /\ ~analysis.problems
    <3> SUFFICES ASSUME Says("incompatible") PROVE analysis.compatibility = "Incompatible" /\ ~analysis.problems
      OBVIOUS
    <3>1. PICK i \in 1..5 : reports[i].when /\ "incompatible" = reports[i].why
      BY <2>1
    <3>2. i \in {1, 2, 3, 4, 5}
      OBVIOUS
    <3> QED BY <1>9, <3>1, <3>2
  <2>3. ~Says("irrefutable")
    <3> SUFFICES ASSUME Says("irrefutable") PROVE FALSE
      OBVIOUS
    <3>1. PICK i \in 1..5 : reports[i].when /\ "irrefutable" = reports[i].why
      BY <2>1
    <3>2. i \in {1, 2, 3, 4, 5}
      OBVIOUS
    <3> QED BY <1>9, <3>1, <3>2
  <2>4. ASSUME Says("unreachable"), NEW value \in ValuesOf[matched], Matches(arm.pattern, value)
        PROVE  TakenBy(arms', value, Len(arms))
    <3>1. PICK i \in 1..5 : reports[i].when /\ "unreachable" = reports[i].why
      BY <2>1, <2>4
    <3>2. i \in {1, 2, 3, 4, 5}
      OBVIOUS
    <3>3. all_values_covered \/ Redundant(analysis)
      BY <1>9, <3>1, <3>2
    <3>4. CASE all_values_covered
      BY <1>5, <1>6, <3>4
    <3>5. CASE Redundant(analysis)
      <4>1. analysis.possible # {} /\ analysis.possible \subseteq covered_variants
        BY <3>5 DEF Redundant
      <4>2. value.tag \in analysis.possible
        BY <1>3, <1>7, <2>4, <4>1, MatchIsPossible DEF analysis
      <4> QED BY <1>5, <1>6, <4>1, <4>2
    <3> QED BY <3>3, <3>4, <3>5
  <2>5. n - 1 = Len(arms)
    BY <1>4 DEF n
  <2>6. /\ Len(arms') = n /\ arms'[Len(arms')] = arm /\ matched' = matched
        /\ \A why : Reported(Len(arms), why)' = Says(why)
    BY <1>1, <1>4 DEF Reported
  <2> HIDE DEF Says
  <2> QED BY <2>2, <2>3, <2>4, <2>5, <2>6 DEF LastInv, Taken, TakenBy, analysis
<1>16. SilentInv'
  <2>1. ASSUME form = "let" PROVE n = 1 /\ arms'[1] = arm /\ ~arm.guarded
    BY <1>1, <1>4, <2>1 DEF n
  <2>2. ASSUME form = "let", DOMAIN diagnostics' = {} PROVE analysis.irrefutable
    <3>1. ~reports[2].when
      BY <1>11, <2>2
    <3> QED BY <1>9, <2>2, <3>1
  <2>3. phase' # "done"
    BY <1>1
  <2> QED BY <1>1, <1>4, <2>1, <2>2, <2>3 DEF SilentInv, analysis
<1> QED BY <1>12, <1>13, <1>14, <1>15, <1>16 DEF MatchInv


LEMMA CheckMissingKeeps ==
    ASSUME MatchInv, CheckMissing
    PROVE  MatchInv'
<1> DEFINE lacks == matched.kind = "Enum" /\ ~(DOMAIN matched.variants \subseteq covered_variants)
           reports == <<When(lacks, <<>>, "missing")>>
<1>1. /\ phase = "arms" /\ form \in {"match", "let"} /\ arms # <<>>
      /\ diagnostics' = Report(reports) /\ phase' = "done"
      /\ matched' = matched /\ form' = form /\ arms' = arms
      /\ covered_variants' = covered_variants /\ all_values_covered' = all_values_covered
  BY DEF CheckMissing
<1>2a. DOMAIN reports = 1..1
  OBVIOUS
<1>2b. reports[1] = When(lacks, <<>>, "missing")
  OBVIOUS
<1>2. DOMAIN reports = 1..1 /\ (lacks => reports[1].when) /\ reports[1].at = <<>>
  <2> HIDE DEF lacks, reports
  <2> QED BY <1>2a, <1>2b DEF When
<1> HIDE DEF reports
<1>3. Reports(diagnostics', diagnostics, reports)
  BY <1>1, <1>2, ReportIs
<1>4. \A place \in DOMAIN diagnostics' :
         place # <<>> => place \in DOMAIN diagnostics /\ diagnostics'[place] = diagnostics[place]
  BY <1>2, <1>3 DEF Reports
<1>5. ASSUME lacks PROVE DOMAIN diagnostics' # {}
  <2>1. reports[1].at \in {reports[i].at : i \in {i \in DOMAIN reports : reports[i].when}}
    <3>1. 1 \in 1..1
      OBVIOUS
    <3>2. reports[1].when
      BY <1>2, <1>5
    <3> QED BY <1>2, <3>1, <3>2
  <2> QED BY <1>3, <2>1 DEF Reports
<1>6. DOMAIN diagnostics \subseteq DOMAIN diagnostics'
  BY <1>3 DEF Reports
<1> HIDE DEF lacks
<1>7. MatchTypeOK'
  BY <1>1 DEF MatchInv, MatchTypeOK
<1>8. PlacesInv'
  BY <1>1, <1>4 DEF MatchInv, PlacesInv
<1>9. CoverInv'
  BY <1>1 DEF MatchInv, CoverInv, Taken
<1>10. LastInv'
  <2> DEFINE Says(i, why) ==
         \E place \in DOMAIN diagnostics' : place # <<>> /\ place[1] = i /\ diagnostics'[place] = why
  <2>1. \A i, why : Says(i, why) => Reported(i, why)
    BY <1>4 DEF Reported
  <2>2. LastInv
    BY DEF MatchInv
  <2>3. \A why : Reported(Len(arms), why)' = Says(Len(arms), why)
    BY <1>1 DEF Reported
  <2>4. \A value : Taken(value, Len(arms) - 1)' = Taken(value, Len(arms) - 1)
    BY <1>1 DEF Taken
  <2> HIDE DEF Says
  <2> QED BY <1>1, <2>1, <2>2, <2>3, <2>4 DEF LastInv
<1>11. SilentInv'
  BY <1>1, <1>5, <1>6 DEF MatchInv, SilentInv, lacks
<1> QED BY <1>7, <1>8, <1>9, <1>10, <1>11 DEF MatchInv

\* The only arm of an if-let or a let-else.
LEMMA OnlyArm ==
    ASSUME MatchInv, NEW arm \in ArmsFor[matched], phase = "arms", form \in {"if let", "let else"},
           arms' = <<arm>>, phase' = "done", UNCHANGED <<matched, form, covered_variants, all_values_covered>>,
           NEW m \in Nat, NEW reports, DOMAIN reports = 1..m, diagnostics' = Report(reports),
           \A i \in 1..m :
              /\ reports[i].at[1] = 1 /\ reports[i].at # <<>>
              /\ reports[i].when /\ reports[i].why = "incompatible" =>
                    /\ AnalyzePattern(arm.pattern, matched).compatibility = "Incompatible"
                    /\ ~AnalyzePattern(arm.pattern, matched).problems
              /\ reports[i].when /\ reports[i].why = "irrefutable" =>
                    AnalyzePattern(arm.pattern, matched).irrefutable
              /\ reports[i].why # "unreachable",
           form = "let else" =>
              \/ \E i \in 1..m : reports[i].when
              \/ LET analysis == AnalyzePattern(arm.pattern, matched)
                 IN  ~analysis.irrefutable /\ analysis.compatibility # "Incompatible"
    PROVE  MatchInv'
<1> DEFINE analysis == AnalyzePattern(arm.pattern, matched)
<1> HIDE DEF analysis
<1>1. arms = <<>> /\ Len(arms) = 0 /\ matched \in DOMAIN ArmsFor
  BY DEF MatchInv, MatchTypeOK
<1>2. arms' \in Seq(ArmsFor[matched]) /\ Len(arms') = 1 /\ arms'[1] = arm /\ arms' # <<>>
  BY OneArm
<1>3. Reports(diagnostics', diagnostics, reports)
  BY ReportIs
<1>4. /\ \A place \in DOMAIN diagnostics' : place # <<>> => place[1] \in 1..1
      /\ \A place \in DOMAIN diagnostics' : place # <<>> /\ place[1] = 1 =>
             \E i \in 1..m : reports[i].when /\ diagnostics'[place] = reports[i].why
      /\ \A i \in 1..m : reports[i].when => DOMAIN diagnostics' # {}
  <2> DEFINE d == diagnostics'
  <2>1. MatchTypeOK /\ PlacesInv /\ Reports(d, diagnostics, reports) /\ Len(arms) + 1 = 1
    BY <1>1, <1>3, OneIsFirst, Zenon DEF MatchInv
  <2>2. \A i \in 1..m : reports[i].at[1] = Len(arms) + 1 /\ reports[i].at # <<>>
    BY <2>1
  <2> HIDE DEF d
  <2>3. /\ \A place \in DOMAIN d : place # <<>> => place[1] \in 1..(Len(arms) + 1)
        /\ \A place \in DOMAIN d : place # <<>> /\ place[1] = Len(arms) + 1 =>
              \E i \in 1..m : reports[i].when /\ d[place] = reports[i].why
        /\ \A i \in 1..m : reports[i].when => DOMAIN d # {}
    BY ONLY <2>1, <2>2, NewReports, m \in Nat, DOMAIN reports = 1..m
  <2> QED BY <2>1, <2>3 DEF d
<1>5. MatchTypeOK'
  BY <1>1, <1>2 DEF MatchTypeOK
<1>6. PlacesInv'
  BY <1>2, <1>4 DEF PlacesInv
<1>7. CoverInv'
  <2>1. ASSUME NEW value \in ValuesOf[matched], value.tag \in covered_variants \/ all_values_covered
        PROVE  FALSE
    <3>1. Taken(value, Len(arms))
      BY <2>1 DEF MatchInv, CoverInv
    <3> QED BY <1>1, <3>1, NoneTaken DEF Taken, TakenBy
  <2> QED BY <2>1 DEF CoverInv
<1>8. LastInv'
  <2>1. ASSUME NEW why, NEW place \in DOMAIN diagnostics', place # <<>>, place[1] = 1, diagnostics'[place] = why
        PROVE  /\ why = "incompatible" => analysis.compatibility = "Incompatible" /\ ~analysis.problems
               /\ why = "irrefutable" => analysis.irrefutable
               /\ why # "unreachable"
    <3>1. PICK i \in 1..m : reports[i].when /\ diagnostics'[place] = reports[i].why
      BY <1>4, <2>1
    <3> QED BY <2>1, <3>1 DEF analysis
  <2> QED BY <1>2, <2>1 DEF LastInv, Reported, analysis
<1>9. SilentInv'
  BY <1>2, <1>4 DEF SilentInv
<1> QED BY <1>5, <1>6, <1>7, <1>8, <1>9 DEF MatchInv

LEMMA CheckIfLetKeeps ==
    ASSUME MatchInv, NEW arm \in ArmsFor[matched], CheckIfLet(arm)
    PROVE  MatchInv'
<1> DEFINE analysis == AnalyzePattern(arm.pattern, matched)
           reports == <<
              When(analysis.compatibility = "Incompatible" /\ ~analysis.problems,
                   At(1, FirstIncompatibleLocation(arm.pattern, matched)), "incompatible"),
              When(analysis.problems, At(1, Problem), "problem")>>
<1> HIDE DEF analysis
<1>1. /\ phase = "arms" /\ form = "if let" /\ arms' = <<arm>>
      /\ diagnostics' = Report(reports) /\ phase' = "done"
      /\ UNCHANGED <<matched, form, covered_variants, all_values_covered>>
  BY DEF CheckIfLet, IfLetAnalyzed, analysis
<1>2a. 1..2 = {1, 2}
  OBVIOUS
<1>2b. DOMAIN reports = 1..2
  OBVIOUS
<1>2. /\ reports[1].at[1] = 1 /\ reports[1].at # <<>>
      /\ reports[2].at[1] = 1 /\ reports[2].at # <<>>
      /\ reports[1].when => analysis.compatibility = "Incompatible" /\ ~analysis.problems
      /\ reports[1].why = "incompatible" /\ reports[2].why = "problem"
  BY DEF When, At
<1> HIDE DEF reports
<1>3. \A i \in 1..2 :
         /\ reports[i].at[1] = 1 /\ reports[i].at # <<>>
         /\ reports[i].when /\ reports[i].why = "incompatible" => analysis.compatibility = "Incompatible" /\ ~analysis.problems
         /\ reports[i].when /\ reports[i].why = "irrefutable" => analysis.irrefutable
         /\ reports[i].why # "unreachable"
  BY <1>2, <1>2a
<1>4. 2 \in Nat
  OBVIOUS
<1> QED BY <1>1, <1>2b, <1>3, <1>4, OnlyArm DEF analysis

LEMMA CheckLetElseKeeps ==
    ASSUME MatchInv, NEW arm \in ArmsFor[matched], CheckLetElse(arm)
    PROVE  MatchInv'
<1> DEFINE analysis == AnalyzePattern(arm.pattern, matched)
           reports == <<
              When(analysis.irrefutable, At(1, <<>>), "irrefutable"),
              When(analysis.compatibility = "Incompatible" /\ ~analysis.problems, At(1, <<>>), "incompatible"),
              When(analysis.problems, At(1, Problem), "problem")>>
<1> HIDE DEF analysis
<1>1. /\ phase = "arms" /\ form = "let else" /\ arms' = <<arm>>
      /\ diagnostics' = Report(reports) /\ phase' = "done"
      /\ UNCHANGED <<matched, form, covered_variants, all_values_covered>>
  BY DEF CheckLetElse, LetElseAnalyzed, analysis
<1>2a. 1..3 = {1, 2, 3}
  OBVIOUS
<1>2b. DOMAIN reports = 1..3
  OBVIOUS
<1>2. /\ reports[1].at[1] = 1 /\ reports[1].at # <<>>
      /\ reports[2].at[1] = 1 /\ reports[2].at # <<>>
      /\ reports[3].at[1] = 1 /\ reports[3].at # <<>>
      /\ reports[1].when => analysis.irrefutable
      /\ reports[2].when => analysis.compatibility = "Incompatible" /\ ~analysis.problems
      /\ analysis.irrefutable => reports[1].when
      /\ analysis.compatibility = "Incompatible" => reports[2].when \/ reports[3].when
      /\ reports[1].why = "irrefutable" /\ reports[2].why = "incompatible" /\ reports[3].why = "problem"
  BY DEF When, At
<1> HIDE DEF reports
<1>3. \A i \in 1..3 :
         /\ reports[i].at[1] = 1 /\ reports[i].at # <<>>
         /\ reports[i].when /\ reports[i].why = "incompatible" => analysis.compatibility = "Incompatible" /\ ~analysis.problems
         /\ reports[i].when /\ reports[i].why = "irrefutable" => analysis.irrefutable
         /\ reports[i].why # "unreachable"
  BY <1>2, <1>2a
<1>4. 3 \in Nat
  OBVIOUS
<1>5. \/ \E i \in 1..3 : reports[i].when
      \/ ~analysis.irrefutable /\ analysis.compatibility # "Incompatible"
  BY <1>2, <1>2a
<1> QED BY <1>1, <1>2b, <1>3, <1>4, <1>5, OnlyArm DEF analysis

LEMMA MatchInvNext == MatchInv /\ [MatchNext]_matchVars => MatchInv'
<1> SUFFICES ASSUME MatchInv, [MatchNext]_matchVars PROVE MatchInv'
  OBVIOUS
<1>1. ASSUME NEW arm \in ArmsFor[matched], CheckArm(arm) PROVE MatchInv'
  BY <1>1, CheckArmKeeps
<1>2. ASSUME NEW arm \in ArmsFor[matched], CheckIfLet(arm) PROVE MatchInv'
  BY <1>2, CheckIfLetKeeps
<1>3. ASSUME NEW arm \in ArmsFor[matched], CheckLetElse(arm) PROVE MatchInv'
  BY <1>3, CheckLetElseKeeps
<1>4. CASE CheckMissing
  BY <1>4, CheckMissingKeeps
<1>5. CASE UNCHANGED matchVars
  BY <1>5 DEF matchVars, MatchInv, MatchTypeOK, PlacesInv, CoverInv, LastInv, SilentInv, Taken, Reported
<1> QED BY <1>1, <1>2, <1>3, <1>4, <1>5 DEF MatchNext

LEMMA MatchInvAlways == MatchSpec => []MatchInv
<1>1. MatchInit => MatchInv
  BY MatchInvInit
<1>2. MatchInv /\ [MatchNext]_matchVars => MatchInv'
  BY MatchInvNext
<1> QED BY <1>1, <1>2, PTL DEF MatchSpec

\* The invariant is enough for the two properties.
LEMMA InvNeverFails == MatchInv => MatchNeverFails
<1> SUFFICES ASSUME MatchInv, phase = "done", form \in {"match", "let"}, DOMAIN diagnostics = {},
                    form = "let" \/ matched.kind = "Enum", NEW value \in ValuesOf[matched]
             PROVE  Taken(value, Len(arms))
  BY DEF MatchNeverFails
<1>1. matched \in DOMAIN ArmsFor /\ arms \in Seq(ArmsFor[matched]) /\ arms # <<>>
  BY DEF MatchInv, MatchTypeOK, SilentInv
<1>2. Typed(value, matched)
  BY <1>1, ValueOfMatched
<1>3. CASE form = "let"
  <2>1. Len(arms) = 1 /\ ~arms[1].guarded /\ AnalyzePattern(arms[1].pattern, matched).irrefutable
    BY <1>1, <1>3 DEF MatchInv, SilentInv
  <2>2. arms[1] \in ArmsFor[matched]
    <3>1. 1 \in 1..Len(arms)
      BY <2>1
    <3> QED BY <1>1, <3>1, ElementOfSeq
  <2>3. Matches(arms[1].pattern, value)
    BY <1>1, <1>2, <2>1, <2>2, PatternOfArm, IrrefutableMatches
  <2>4. 1 \in 1..1
    OBVIOUS
  <2> QED BY <2>1, <2>3, <2>4 DEF Taken
<1>4. CASE matched.kind = "Enum"
  <2>1. DOMAIN matched.variants \subseteq covered_variants
    BY <1>4 DEF MatchInv, SilentInv
  <2>2. value.tag \in DOMAIN matched.variants
    BY <1>2, <1>4, EnumShape
  <2> QED BY <2>1, <2>2 DEF MatchInv, CoverInv
<1> QED BY <1>3, <1>4

LEMMA InvReportsAreTrue == MatchInv => ReportsAreTrue
<1> DEFINE i == Len(arms)
           pattern == arms[i].pattern
           analysis == AnalyzePattern(pattern, matched)
<1> SUFFICES ASSUME MatchInv, arms # <<>>, NEW value \in ValuesOf[matched]
             PROVE  /\ Matches(pattern, value) => ~Reported(i, "incompatible")
                    /\ (Matches(pattern, value) /\ Reported(i, "unreachable")) => Taken(value, i - 1)
                    /\ Reported(i, "irrefutable") => Matches(pattern, value)
                    /\ (Matches(pattern, value) /\ analysis.duplicates = {})
                          => \A b \in analysis.bindings, x \in Bound(pattern, value) :
                                (x[1] = b.name /\ b.type # AnyType) => x[2] \in ValuesOf[b.type]
  BY DEF ReportsAreTrue
<1>1. matched \in DOMAIN ArmsFor /\ arms \in Seq(ArmsFor[matched])
  BY DEF MatchInv, MatchTypeOK
<1>2. arms[i] \in ArmsFor[matched]
  <2>1. i \in 1..Len(arms)
    BY <1>1
  <2> QED BY <1>1, <2>1, ElementOfSeq
<1>3. IsTree(pattern, matched) /\ Typed(value, matched)
  BY <1>1, <1>2, PatternOfArm, ValueOfMatched
<1>4. /\ Reported(i, "incompatible") => analysis.compatibility = "Incompatible" /\ ~analysis.problems
      /\ Reported(i, "irrefutable") => analysis.irrefutable
      /\ Reported(i, "unreachable") => (Matches(pattern, value) => Taken(value, i - 1))
  BY DEF MatchInv, LastInv
<1> HIDE DEF pattern, i
<1>5. Matches(pattern, value) => ~Reported(i, "incompatible")
  BY <1>3, <1>4, MatchIsCompatible
<1>6. Reported(i, "irrefutable") => Matches(pattern, value)
  BY <1>3, <1>4, IrrefutableMatches
<1>7. ASSUME analysis.duplicates = {}, NEW b \in analysis.bindings, NEW x \in Bound(pattern, value),
             x[1] = b.name, b.type # AnyType
      PROVE  x[2] \in ValuesOf[b.type]
  <2>1. Typed(x[2], b.type)
    BY <1>3, <1>7, BindingIsTyped
  <2> QED BY <1>7, <2>1 DEF Typed, Inhabitants
<1> QED BY <1>4, <1>5, <1>6, <1>7

LEMMA InvElseIsLive == MatchInv => ElseIsLive
<1> SUFFICES ASSUME MatchInv, phase = "done", form = "let else", DOMAIN diagnostics = {}
             PROVE  \E value \in ValuesOf[matched] : ~Matches(arms[1].pattern, value)
  BY DEF ElseIsLive
<1>1. matched \in DOMAIN ArmsFor /\ arms \in Seq(ArmsFor[matched]) /\ Len(arms) = 1
  BY DEF MatchInv, MatchTypeOK, SilentInv
<1>2. arms[1] \in ArmsFor[matched]
  <2>1. 1 \in 1..Len(arms)
    BY <1>1, OneIsFirst, Zenon
  <2> QED BY <1>1, <2>1, ElementOfSeq
<1>3. /\ ~AnalyzePattern(arms[1].pattern, matched).irrefutable
      /\ AnalyzePattern(arms[1].pattern, matched).compatibility # "Incompatible"
  BY DEF MatchInv, SilentInv
<1>4. matched \in DOMAIN ValuesOf
  BY <1>1, ValuesAssumption
<1> QED BY <1>1, <1>2, <1>3, <1>4, PatternOfArm, RefutableFails

\* A match of an enum, or a let with a pattern, of which the checker reports
\* nothing takes every value of its type whatever the guards say: the Fail that
\* compile_match puts after the last arm is never run.
THEOREM MatchesAreComplete == MatchSpec => []MatchNeverFails
BY MatchInvAlways, InvNeverFails, PTL

\* What infer reports of an arm is so: an arm called incompatible takes no value,
\* one called unreachable none that is left, and a let-else called irrefutable
\* takes all; and a name is bound to a value of the type it is given.
THEOREM DiagnosticsAreTrue == MatchSpec => []ReportsAreTrue
BY MatchInvAlways, InvReportsAreTrue, PTL

\* A let-else of which the checker reports nothing has a value that goes to its
\* else: no irrefutable pattern goes unreported.
THEOREM ElsesAreLive == MatchSpec => []ElseIsLive
BY MatchInvAlways, InvElseIsLive, PTL
=============================================================================
