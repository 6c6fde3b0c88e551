------------------------------ MODULE Induction ------------------------------
(***************************************************************************)
(* Induction over data in a form the provers can use: what would be an     *)
(* operator in a principle of induction is a set here (the numbers for     *)
(* which a statement holds), and the step of a recursive definition is a   *)
(* function.  With it the folds and recursive functions of the models can  *)
(* be unfolded, whatever the length of the sequence.                       *)
(***************************************************************************)
EXTENDS Integers, Sequences, SequencesExt, WellFoundedInduction, TLAPS

-----------------------------------------------------------------------------
(* Natural numbers.                                                        *)

\* A set of natural numbers that is not empty has a least element.
LEMMA LeastElement ==
    ASSUME NEW S \in SUBSET Nat, S # {}
    PROVE  \E x \in S : \A y \in S : x <= y
  <1>1. \E x \in S : \A y \in S : ~ (<<y, x>> \in OpToRel(<, Nat))
    BY NatLessThanWellFounded, WFMin
  <1>2. PICK x \in S : \A y \in S : ~ (<<y, x>> \in OpToRel(<, Nat))
    BY <1>1
  <1>3. ASSUME NEW y \in S PROVE x <= y
    <2>1. <<y, x>> \notin OpToRel(<, Nat)
      BY <1>2
    <2>2. <<y, x>> \in Nat \X Nat
      OBVIOUS
    <2>3. ~ (y < x)
      BY <2>1, <2>2 DEF OpToRel
    <2> QED
      BY <2>3
  <1> QED
    BY <1>3

\* A set with zero and the successor of each of its numbers has them all.
LEMMA Induct ==
    ASSUME NEW P, 0 \in P, \A n \in Nat : n \in P => n + 1 \in P
    PROVE  \A n \in Nat : n \in P
  <1> DEFINE S == Nat \ P
  <1>1. SUFFICES ASSUME S # {} PROVE FALSE
    OBVIOUS
  <1>2. PICK x \in S : \A y \in S : x <= y
    BY <1>1, LeastElement
  <1>3. x # 0 /\ x - 1 \in Nat
    OBVIOUS
  <1>4. x - 1 \notin S
    BY <1>2, <1>3
  <1>5. x - 1 + 1 = x
    OBVIOUS
  <1> QED
    BY <1>3, <1>4, <1>5

\* The same as far as a bound.
LEMMA InductUpTo ==
    ASSUME NEW N \in Nat, NEW P, 0 \in P,
           \A n \in 0 .. N - 1 : n \in P => n + 1 \in P
    PROVE  \A n \in 0 .. N : n \in P
  <1> DEFINE Q == P \cup {n \in Nat : n > N}
  <1>1. 0 \in Q
    OBVIOUS
  <1>2. ASSUME NEW n \in Nat, n \in Q PROVE n + 1 \in Q
    <2>1. CASE n < N
      BY <1>2, <2>1
    <2>2. CASE n >= N
      BY <2>2
    <2> QED
      BY <2>1, <2>2
  <1>3. \A n \in Nat : n \in Q
    <2> HIDE DEF Q
    <2> QED BY <1>1, <1>2, Induct
  <1> QED
    BY <1>3

\* A set of numbers that has a bound and is not empty has a greatest element.
LEMMA MaxOf ==
    ASSUME NEW N \in Nat, NEW S \in SUBSET (1 .. N), S # {}
    PROVE  Max(S) \in S /\ \A y \in S : y <= Max(S)
  <1> DEFINE T == {n \in Nat : \E x \in S : n = N - x}
  <1>1. T # {} /\ T \in SUBSET Nat
    <2>1. PICK x \in S : TRUE
      OBVIOUS
    <2>2. N - x \in T
      BY <2>1
    <2> QED
      BY <2>2
  <1>2. PICK n \in T : \A m \in T : n <= m
    <2> HIDE DEF T
    <2> QED
      BY <1>1, LeastElement
  <1>3. PICK x \in S : n = N - x
    BY <1>2
  <1>4. ASSUME NEW y \in S PROVE x >= y
    <2>1. N - y \in T
      OBVIOUS
    <2>2. n <= N - y
      BY <1>2, <2>1
    <2> QED
      BY <1>3, <2>2
  <1>5. \E z \in S : \A y \in S : z >= y
    BY <1>4
  <1>6. Max(S) \in S /\ \A y \in S : Max(S) >= y
    BY <1>5 DEF Max
  <1> QED
    BY <1>6

\* The greatest number of an interval that begins with 1.
LEMMA MaxOfInterval ==
    ASSUME NEW n \in Nat \ {0}
    PROVE  Max(1 .. n) = n /\ (1 .. n) \ {n} = 1 .. n - 1
  <1>1. n \in 1 .. n /\ n \in Nat /\ 1 .. n \in SUBSET (1 .. n)
    OBVIOUS
  <1>2. Max(1 .. n) \in 1 .. n /\ \A y \in 1 .. n : y <= Max(1 .. n)
    BY <1>1, MaxOf
  <1> QED
    BY <1>1, <1>2

-----------------------------------------------------------------------------
(* The recursion of a fold from the left: a value for every set of         *)
(* positions, that of a set from its greatest position and the rest.       *)

\* A fold of elements of D that starts with b and has its values in T.
FoldOver(T, D, b, step) == b \in T /\ step \in [T \X D -> T]

Folds(g, N, b, step) ==
    /\ g[{}] = b
    /\ \A s \in (SUBSET (1 .. N)) \ {{}} : g[s] = step[<<g[s \ {Max(s)}], Max(s)>>]

\* There is such a function, and its values are in the range of the step.
LEMMA FoldExists ==
    ASSUME NEW N \in Nat, NEW T, NEW b, NEW step, FoldOver(T, 1 .. N, b, step)
    PROVE  \E g \in [SUBSET (1 .. N) -> T] : Folds(g, N, b, step)
  <1> DEFINE P == {n \in 0 .. N : \E g \in [SUBSET (1 .. n) -> T] : Folds(g, n, b, step)}
  <1>1. 0 \in P
    <2> DEFINE g == [s \in SUBSET (1 .. 0) |-> b]
    <2>1. g \in [SUBSET (1 .. 0) -> T]
      BY DEF FoldOver
    <2>2. {} \in SUBSET (1 .. 0) /\ (SUBSET (1 .. 0)) \ {{}} = {}
      OBVIOUS
    <2>3. Folds(g, 0, b, step)
      BY <2>2 DEF Folds
    <2> QED
      BY <2>1, <2>3
  <1>2. ASSUME NEW n \in 0 .. N - 1, n \in P PROVE n + 1 \in P
    <2>1. PICK g \in [SUBSET (1 .. n) -> T] : Folds(g, n, b, step)
      BY <1>2
    <2> DEFINE h == [s \in SUBSET (1 .. n + 1) |->
                        IF n + 1 \in s THEN step[<<g[s \ {n + 1}], n + 1>>] ELSE g[s]]
    <2>2. ASSUME NEW s \in SUBSET (1 .. n + 1)
          PROVE  /\ s \ {n + 1} \in SUBSET (1 .. n)
                 /\ n + 1 \notin s => s \in SUBSET (1 .. n)
                 /\ n + 1 \in s => Max(s) = n + 1
      <3>1. ASSUME n + 1 \in s PROVE Max(s) = n + 1
        <4>1. n + 1 \in Nat /\ s \in SUBSET (1 .. n + 1) /\ s # {}
          BY <3>1
        <4>2. Max(s) \in s /\ \A y \in s : y <= Max(s)
          BY <4>1, MaxOf
        <4>3. Max(s) \in 1 .. n + 1 /\ n + 1 <= Max(s)
          BY <3>1, <4>2
        <4> QED
          BY <4>3
      <3> QED
        BY <3>1
    <2>3. ASSUME NEW s \in SUBSET (1 .. n + 1) PROVE h[s] \in T
      <3>1. CASE n + 1 \in s
        <4>1. g[s \ {n + 1}] \in T
          BY <2>2
        <4>2. <<g[s \ {n + 1}], n + 1>> \in T \X (1 .. N)
          BY <4>1
        <4> QED
          BY <3>1, <4>2 DEF FoldOver
      <3>2. CASE n + 1 \notin s
        BY <2>2, <3>2
      <3> QED
        BY <3>1, <3>2
    <2>4. h[{}] = b
      <3>1. {} \in SUBSET (1 .. n + 1)
        OBVIOUS
      <3> QED
        BY <2>1, <3>1 DEF Folds
    <2>5. ASSUME NEW s \in (SUBSET (1 .. n + 1)) \ {{}}
          PROVE  h[s] = step[<<h[s \ {Max(s)}], Max(s)>>]
      <3>1. CASE n + 1 \in s
        <4>1. Max(s) = n + 1
          BY <2>2, <3>1
        <4>2. h[s \ {n + 1}] = g[s \ {n + 1}]
          OBVIOUS
        <4>3. h[s] = step[<<g[s \ {n + 1}], n + 1>>]
          BY <3>1
        <4> QED
          BY <4>1, <4>2, <4>3
      <3>2. CASE n + 1 \notin s
        <4>1. s \in (SUBSET (1 .. n)) \ {{}}
          BY <2>2, <3>2
        <4>2. g[s] = step[<<g[s \ {Max(s)}], Max(s)>>]
          BY <2>1, <4>1 DEF Folds
        <4>3. h[s] = g[s]
          BY <3>2
        <4>4. n + 1 \notin s \ {Max(s)} /\ s \ {Max(s)} \in SUBSET (1 .. n + 1)
          BY <3>2
        <4>5. h[s \ {Max(s)}] = g[s \ {Max(s)}]
          BY <4>4
        <4> QED
          BY <4>2, <4>3, <4>5
      <3> QED
        BY <3>1, <3>2
    <2>6. h \in [SUBSET (1 .. n + 1) -> T]
      BY <2>3
    <2>7. Folds(h, n + 1, b, step)
      <3> HIDE DEF h
      <3> QED BY <2>4, <2>5 DEF Folds
    <2> HIDE DEF h
    <2> QED
      BY <2>6, <2>7
  <1>3. \A n \in 0 .. N : n \in P
    <2> HIDE DEF P
    <2> QED BY <1>1, <1>2, InductUpTo
  <1>4. N \in P
    <2> HIDE DEF P
    <2> QED BY <1>3
  <1> QED
    BY <1>4

Follows(g, N, T, b, step) ==
    /\ FoldOver(T, 1 .. N, b, step)
    /\ g[{}] = b
    /\ \A s \in (SUBSET (1 .. N)) \ {{}} :
          g[s \ {Max(s)}] \in T => g[s] = step[<<g[s \ {Max(s)}], Max(s)>>]

\* A function that follows such a recursion as long as its values are in the range
\* does so for the intervals from 1, one position after the other.
LEMMA FoldOfIntervals ==
    ASSUME NEW N \in Nat, NEW T, NEW b, NEW step, NEW g, Follows(g, N, T, b, step)
    PROVE  \A n \in 0 .. N : /\ g[1 .. n] \in T
                             /\ n > 0 => g[1 .. n] = step[<<g[1 .. n - 1], n>>]
  <1> DEFINE P == {n \in 0 .. N : /\ g[1 .. n] \in T
                                  /\ n > 0 => g[1 .. n] = step[<<g[1 .. n - 1], n>>]}
  <1>1. 0 \in P
    <2>1. 1 .. 0 = {}
      OBVIOUS
    <2> QED
      BY <2>1 DEF Follows, FoldOver
  <1>2. ASSUME NEW n \in 0 .. N - 1, n \in P PROVE n + 1 \in P
    <2>1. Max(1 .. n + 1) = n + 1 /\ (1 .. n + 1) \ {n + 1} = 1 .. n
      <3>1. n + 1 \in Nat \ {0} /\ n + 1 - 1 = n
        OBVIOUS
      <3> QED
        BY <3>1, MaxOfInterval
    <2>2. 1 .. n + 1 \in (SUBSET (1 .. N)) \ {{}}
      OBVIOUS
    <2>3. g[1 .. n] \in T
      BY <1>2
    <2>4. g[1 .. n + 1] = step[<<g[1 .. n], n + 1>>]
      BY <2>1, <2>2, <2>3 DEF Follows
    <2>5. <<g[1 .. n], n + 1>> \in T \X (1 .. N)
      BY <2>3
    <2>6. g[1 .. n + 1] \in T
      BY <2>4, <2>5 DEF Follows, FoldOver
    <2>7. n + 1 - 1 = n /\ n + 1 \in 0 .. N
      OBVIOUS
    <2> QED
      BY <2>4, <2>6, <2>7
  <1>3. \A n \in 0 .. N : n \in P
    <2> HIDE DEF P
    <2> QED BY <1>1, <1>2, InductUpTo
  <1> QED
    BY <1>3

-----------------------------------------------------------------------------
(* A sequence of values, each made from the one before it.                 *)

Trace(h, N, b, step) ==
    h[0] = b /\ \A n \in 1 .. N : h[n] = step[<<h[n - 1], n>>]

\* There is one, with values in the range of the step.
LEMMA TraceExists ==
    ASSUME NEW N \in Nat, NEW T, NEW b, NEW step, FoldOver(T, 1 .. N, b, step)
    PROVE  \E h \in [0 .. N -> T] : Trace(h, N, b, step)
  <1>1. PICK g \in [SUBSET (1 .. N) -> T] : Folds(g, N, b, step)
    BY FoldExists
  <1>2. \A n \in 0 .. N : /\ g[1 .. n] \in T
                          /\ n > 0 => g[1 .. n] = step[<<g[1 .. n - 1], n>>]
    <2>1. Follows(g, N, T, b, step)
      BY <1>1 DEF Folds, Follows
    <2> QED
      BY <2>1, FoldOfIntervals
  <1> DEFINE h == [n \in 0 .. N |-> g[1 .. n]]
  <1>3. h \in [0 .. N -> T]
    BY <1>2
  <1>4. h[0] = b
    <2>1. 1 .. 0 = {} /\ 0 \in 0 .. N
      OBVIOUS
    <2> QED
      BY <1>1, <2>1 DEF Folds
  <1>5. ASSUME NEW n \in 1 .. N PROVE h[n] = step[<<h[n - 1], n>>]
    <2>1. n \in 0 .. N /\ n - 1 \in 0 .. N /\ n > 0
      OBVIOUS
    <2> QED
      BY <1>2, <2>1
  <1> HIDE DEF h
  <1> QED
    BY <1>3, <1>4, <1>5 DEF Trace

\* And only one.
LEMMA TraceAgrees ==
    ASSUME NEW N \in Nat, NEW b, NEW step, NEW h, NEW k,
           Trace(h, N, b, step), Trace(k, N, b, step)
    PROVE  \A n \in 0 .. N : h[n] = k[n]
  <1> DEFINE P == {n \in 0 .. N : h[n] = k[n]}
  <1>1. 0 \in P
    BY DEF Trace
  <1>2. ASSUME NEW n \in 0 .. N - 1, n \in P PROVE n + 1 \in P
    <2>1. n + 1 \in 1 .. N /\ n + 1 - 1 = n
      OBVIOUS
    <2>2. h[n + 1] = step[<<h[n], n + 1>>] /\ k[n + 1] = step[<<k[n], n + 1>>]
      BY <2>1 DEF Trace
    <2> QED
      BY <1>2, <2>1, <2>2
  <1>3. \A n \in 0 .. N : n \in P
    <2> HIDE DEF P
    <2> QED BY <1>1, <1>2, InductUpTo
  <1> QED
    BY <1>3

-----------------------------------------------------------------------------
(* FoldLeft, of a step that is given as a function.                        *)

FoldBy(step, b, s) == FoldLeft(LAMBDA x, e : step[<<x, e>>], b, s)

\* What the recursion inside FoldLeft has to satisfy.
Iterates(it, step, T, b, s) ==
    /\ it[{}] = b
    /\ \A t \in (SUBSET (1 .. Len(s))) \ {{}} :
          it[t \ {Max(t)}] \in T => it[t] = step[<<it[t \ {Max(t)}], s[Max(t)]>>]

IsIteration(g, b, step, s) ==
    /\ g[{}] = b
    /\ \A t \in (SUBSET DOMAIN s) \ {{}} :
          /\ Max(t) \in DOMAIN s
          /\ t \ {Max(t)} \in SUBSET DOMAIN s
          /\ g[t] = step[<<g[t \ {Max(t)}], s[Max(t)]>>]

\* The values after each element.
IsTrace(h, T, b, step, s) ==
    /\ h \in [0 .. Len(s) -> T] /\ h[0] = b
    /\ \A n \in 1 .. Len(s) : h[n] = step[<<h[n - 1], s[n]>>]

\* A fold has a recursion to run, ...
LEMMA IterationExists ==
    ASSUME NEW T, NEW D, NEW b, NEW step, FoldOver(T, D, b, step), NEW s \in Seq(D)
    PROVE  \E g \in [SUBSET DOMAIN s -> T] :
              IsIteration(g, b, step, s)
  <1> DEFINE N == Len(s)
             at == [x \in T \X (1 .. N) |-> step[<<x[1], s[x[2]]>>]]
  <1>1. N \in Nat /\ DOMAIN s = 1 .. N
    OBVIOUS
  <1>2. FoldOver(T, 1 .. N, b, at)
    <2>1. ASSUME NEW x \in T \X (1 .. N) PROVE step[<<x[1], s[x[2]]>>] \in T
      <3>1. <<x[1], s[x[2]]>> \in T \X D
        OBVIOUS
      <3> QED
        BY <3>1 DEF FoldOver
    <2> QED
      BY <2>1 DEF FoldOver
  <1>3. PICK g \in [SUBSET (1 .. N) -> T] : Folds(g, N, b, at)
    <2> HIDE DEF at, N
    <2> QED BY <1>1, <1>2, FoldExists
  <1>4. ASSUME NEW t \in (SUBSET (1 .. N)) \ {{}}
        PROVE  /\ Max(t) \in 1 .. N
               /\ t \ {Max(t)} \in SUBSET (1 .. N)
               /\ g[t] = step[<<g[t \ {Max(t)}], s[Max(t)]>>]
    <2>1. Max(t) \in 1 .. N
      BY <1>1, MaxOf
    <2>2. g[t \ {Max(t)}] \in T
      OBVIOUS
    <2>3. g[t] = at[<<g[t \ {Max(t)}], Max(t)>>]
      BY <1>3 DEF Folds
    <2>4. <<g[t \ {Max(t)}], Max(t)>> \in T \X (1 .. N)
      BY <2>1, <2>2
    <2> QED
      BY <2>1, <2>3, <2>4
  <1>5. g[{}] = b
    BY <1>3 DEF Folds
  <1> HIDE DEF N
  <1> QED
    BY <1>1, <1>4, <1>5 DEF IsIteration

\* ... which passes through the values after each element ...
LEMMA IterationTrace ==
    ASSUME NEW T, NEW D, NEW b, NEW step, FoldOver(T, D, b, step), NEW s \in Seq(D),
           NEW it, Iterates(it, step, T, b, s)
    PROVE  \E h : IsTrace(h, T, b, step, s) /\ h[Len(s)] = it[DOMAIN s]
  <1> DEFINE N == Len(s)
             at == [x \in T \X (1 .. N) |-> step[<<x[1], s[x[2]]>>]]
  <1>1. N \in Nat /\ DOMAIN s = 1 .. N
    OBVIOUS
  <1>2. FoldOver(T, 1 .. N, b, at)
    <2>1. ASSUME NEW x \in T \X (1 .. N) PROVE step[<<x[1], s[x[2]]>>] \in T
      <3>1. <<x[1], s[x[2]]>> \in T \X D
        OBVIOUS
      <3> QED
        BY <3>1 DEF FoldOver
    <2> QED
      BY <2>1 DEF FoldOver
  <1>3. ASSUME NEW t \in (SUBSET (1 .. N)) \ {{}}, it[t \ {Max(t)}] \in T
        PROVE  it[t] = at[<<it[t \ {Max(t)}], Max(t)>>]
    <2>1. Max(t) \in 1 .. N
      BY <1>1, MaxOf
    <2>2. it[t] = step[<<it[t \ {Max(t)}], s[Max(t)]>>]
      BY <1>3 DEF Iterates
    <2>3. <<it[t \ {Max(t)}], Max(t)>> \in T \X (1 .. N)
      BY <2>1, <1>3
    <2> QED
      BY <2>2, <2>3
  <1>4. \A n \in 0 .. N : /\ it[1 .. n] \in T
                          /\ n > 0 => it[1 .. n] = at[<<it[1 .. n - 1], n>>]
    <2> HIDE DEF at, N
    <2>1. Follows(it, N, T, b, at)
      BY <1>2, <1>3 DEF Iterates, Follows
    <2> QED BY <1>1, <2>1, FoldOfIntervals
  <1> DEFINE h == [n \in 0 .. N |-> it[1 .. n]]
  <1>5. h \in [0 .. N -> T]
    BY <1>4
  <1>6. h[0] = b /\ h[N] = it[DOMAIN s]
    <2>1. 1 .. 0 = {} /\ 0 \in 0 .. N /\ N \in 0 .. N
      OBVIOUS
    <2> QED
      BY <1>1, <2>1 DEF Iterates
  <1>7. ASSUME NEW n \in 1 .. N PROVE h[n] = step[<<h[n - 1], s[n]>>]
    <2>1. n \in 0 .. N /\ n - 1 \in 0 .. N /\ n > 0
      OBVIOUS
    <2>2. h[n] = at[<<h[n - 1], n>>] /\ h[n - 1] \in T
      BY <1>4, <2>1
    <2>3. <<h[n - 1], n>> \in T \X (1 .. N)
      BY <2>2
    <2> QED
      BY <2>2, <2>3
  <1> HIDE DEF h
  <1> QED
    BY <1>5, <1>6, <1>7 DEF IsTrace

\* ... and the same values as FoldBy.
LEMMA FoldByTrace ==
    ASSUME NEW T, NEW D, NEW b, NEW step, FoldOver(T, D, b, step), NEW s \in Seq(D)
    PROVE  \E h : IsTrace(h, T, b, step, s) /\ h[Len(s)] = FoldBy(step, b, s)
  <1> DEFINE Solves(it) == it = [t \in SUBSET DOMAIN s |->
                 IF t = {} THEN b ELSE step[<<it[t \ {Max(t)}], s[Max(t)]>>]]
             iter == CHOOSE it : Solves(it)
  <1>1. \E g : Solves(g)
    <2>1. PICK g \in [SUBSET DOMAIN s -> T] :
              IsIteration(g, b, step, s)
      BY IterationExists
    <2>2. Solves(g)
      BY <2>1 DEF IsIteration
    <2> QED
      BY <2>2
  <1>2. Solves(iter)
    <2> HIDE DEF Solves
    <2> QED BY <1>1
  <1>3. Iterates(iter, step, T, b, s)
    <2> HIDE DEF iter
    <2>1. DOMAIN s = 1 .. Len(s)
      OBVIOUS
    <2>2. iter[{}] = b
      BY <1>2
    <2>3. ASSUME NEW t \in (SUBSET (1 .. Len(s))) \ {{}}
          PROVE  iter[t] = step[<<iter[t \ {Max(t)}], s[Max(t)]>>]
      BY <1>2, <2>1
    <2> HIDE DEF Solves
    <2> QED BY <2>2, <2>3 DEF Iterates
  <1>4. FoldBy(step, b, s) = iter[DOMAIN s]
    BY DEF FoldBy, FoldLeft, MapThenFoldSet
  <1> HIDE DEF iter
  <1> QED
    BY <1>3, <1>4, IterationTrace

\* So whatever follows the recursion of a fold is that fold.
LEMMA FoldIsFoldBy ==
    ASSUME NEW T, NEW D, NEW b, NEW step, FoldOver(T, D, b, step), NEW s \in Seq(D),
           NEW it, Iterates(it, step, T, b, s)
    PROVE  it[DOMAIN s] = FoldBy(step, b, s)
  <1> DEFINE at == [x \in T \X (1 .. Len(s)) |-> step[<<x[1], s[x[2]]>>]]
  <1>1. PICK h : IsTrace(h, T, b, step, s) /\ h[Len(s)] = it[DOMAIN s]
    BY IterationTrace
  <1>2. PICK k : IsTrace(k, T, b, step, s) /\ k[Len(s)] = FoldBy(step, b, s)
    BY FoldByTrace
  <1>3. ASSUME NEW n \in 1 .. Len(s) PROVE <<h[n - 1], n>> \in T \X (1 .. Len(s))
                                           /\ <<k[n - 1], n>> \in T \X (1 .. Len(s))
    <2>1. n - 1 \in 0 .. Len(s)
      OBVIOUS
    <2> QED
      BY <1>1, <1>2, <2>1 DEF IsTrace
  <1>4. Trace(h, Len(s), b, at) /\ Trace(k, Len(s), b, at)
    BY <1>1, <1>2, <1>3 DEF Trace, IsTrace
  <1>5. Len(s) \in Nat /\ Len(s) \in 0 .. Len(s)
    OBVIOUS
  <1>6. \A n \in 0 .. Len(s) : h[n] = k[n]
    <2> HIDE DEF at
    <2> QED BY <1>4, <1>5, TraceAgrees
  <1> QED
    BY <1>1, <1>2, <1>5, <1>6

\* The fold of no element, and of one element more.
LEMMA FoldByEmpty ==
    ASSUME NEW T, NEW D, NEW b, NEW step, FoldOver(T, D, b, step)
    PROVE  FoldBy(step, b, <<>>) = b
  <1>1. ASSUME NEW z \in Seq(D), Len(z) = 0 PROVE FoldBy(step, b, z) = b
    <2>1. PICK h : IsTrace(h, T, b, step, z) /\ h[Len(z)] = FoldBy(step, b, z)
      BY FoldByTrace
    <2> QED
      BY <1>1, <2>1 DEF IsTrace
  <1>2. <<>> \in Seq(D) /\ Len(<<>>) = 0
    OBVIOUS
  <1> QED
    BY <1>1, <1>2

LEMMA FoldByType ==
    ASSUME NEW T, NEW D, NEW b, NEW step, FoldOver(T, D, b, step), NEW s \in Seq(D)
    PROVE  FoldBy(step, b, s) \in T
  <1>1. Len(s) \in 0 .. Len(s)
    OBVIOUS
  <1>2. PICK h : IsTrace(h, T, b, step, s) /\ h[Len(s)] = FoldBy(step, b, s)
    BY FoldByTrace
  <1> QED
    BY <1>1, <1>2 DEF IsTrace

LEMMA FoldByAppend ==
    ASSUME NEW T, NEW D, NEW b, NEW step, FoldOver(T, D, b, step), NEW s \in Seq(D), NEW e \in D
    PROVE  FoldBy(step, b, Append(s, e)) = step[<<FoldBy(step, b, s), e>>]
  <1> DEFINE N == Len(s)
             at == [x \in T \X (1 .. N) |-> step[<<x[1], s[x[2]]>>]]
             r == Append(s, e)
  <1>1. /\ r \in Seq(D) /\ Len(r) = N + 1 /\ r[N + 1] = e
        /\ \A n \in 1 .. N : r[n] = s[n]
        /\ N \in Nat /\ N \in 0 .. N
    OBVIOUS
  <1>2. PICK h \in [0 .. N -> T] :
            /\ h[0] = b /\ h[N] = FoldBy(step, b, s)
            /\ \A n \in 1 .. N : h[n] = step[<<h[n - 1], s[n]>>]
    <2>1. PICK h : IsTrace(h, T, b, step, s) /\ h[Len(s)] = FoldBy(step, b, s)
      BY FoldByTrace
    <2> QED
      BY <2>1 DEF IsTrace
  <1>3. PICK k \in [0 .. N + 1 -> T] :
            /\ k[0] = b /\ k[N + 1] = FoldBy(step, b, r)
            /\ \A n \in 1 .. N + 1 : k[n] = step[<<k[n - 1], r[n]>>]
    <2> HIDE DEF r, N
    <2>1. r \in Seq(D)
      BY <1>1
    <2>2. PICK k : IsTrace(k, T, b, step, r) /\ k[Len(r)] = FoldBy(step, b, r)
      BY <2>1, FoldByTrace
    <2> QED BY <1>1, <2>2 DEF IsTrace
  <1>4. Trace(h, N, b, at) /\ Trace(k, N, b, at)
    <2>1. ASSUME NEW n \in 1 .. N PROVE /\ h[n] = at[<<h[n - 1], n>>]
                                        /\ k[n] = at[<<k[n - 1], n>>]
      <3>1. n - 1 \in 0 .. N /\ n - 1 \in 0 .. N + 1 /\ n \in 1 .. N + 1
        OBVIOUS
      <3>2. <<h[n - 1], n>> \in T \X (1 .. N) /\ <<k[n - 1], n>> \in T \X (1 .. N)
        BY <3>1
      <3>3. h[n] = step[<<h[n - 1], s[n]>>] /\ k[n] = step[<<k[n - 1], s[n]>>]
        BY <1>1, <1>2, <1>3, <3>1
      <3> QED
        BY <3>2, <3>3
    <2> HIDE DEF at, N
    <2> QED
      BY <2>1, <1>2, <1>3 DEF Trace
  <1>5. h[N] = k[N]
    <2> HIDE DEF at, N
    <2> QED BY <1>1, <1>4, TraceAgrees
  <1>6. N + 1 \in 1 .. N + 1 /\ N + 1 - 1 = N
    OBVIOUS
  <1> HIDE DEF N, r
  <1> QED
    BY <1>1, <1>2, <1>3, <1>5, <1>6 DEF r
=============================================================================
