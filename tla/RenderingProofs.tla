---------------------------- MODULE RenderingProofs ----------------------------
(***************************************************************************)
(* What the operators of Rendering do to a worksheet of any size under any *)
(* rule: a manifest is a grid written, widened, and written twice more;    *)
(* every column ends up in one of its own; a field keeps its column; and   *)
(* the key of an appended record is read again as it was written.          *)
(***************************************************************************)
EXTENDS Rendering, FiniteSetTheorems, SequenceTheorems, WellFoundedInduction, TLAPS

-----------------------------------------------------------------------------
(* Induction.  The library's induction theorems speak of an operator; over  *)
(* a set of numbers or of sets they follow from its well-founded orders.    *)

\* A set of numbers with 0 and every successor has all of them.
LEMMA NumbersByOne ==
    ASSUME NEW N, 0 \in N, \A n \in Nat : n \in N => n + 1 \in N
    PROVE  Nat \subseteq N
  <1> DEFINE T == Nat \ N
             R == OpToRel(<, Nat)
  <1> SUFFICES ASSUME T # {} PROVE FALSE
    OBVIOUS
  <1>1. IsWellFoundedOn(R, Nat)
    BY NatLessThanWellFounded
  <1>2. \A x, y \in Nat : <<x, y>> \in R <=> x < y
    BY DEF OpToRel
  <1> HIDE DEF R
  <1>3. PICK x \in T : \A y \in T : ~(<<y, x>> \in R)
    <2>1. T \subseteq Nat
      OBVIOUS
    <2> HIDE DEF T
    <2>. QED BY <1>1, <2>1, WFMin
  <1>4. x # 0 /\ x - 1 \in Nat /\ x - 1 < x
    OBVIOUS
  <1>5. x - 1 \in N
    BY <1>2, <1>3, <1>4
  <1>. QED BY <1>4, <1>5

\* A family of subsets with {}, and with every set it has all but any one element of, has
\* all of a finite set's.
LEMMA SubsetsByOne ==
    ASSUME NEW S, IsFiniteSet(S), NEW P,
           {} \in P, \A T \in SUBSET S : T # {} /\ (\A x \in T : T \ {x} \in P) => T \in P
    PROVE  SUBSET S \subseteq P
  <1> DEFINE N == {n \in Nat : \A T \in SUBSET S : Cardinality(T) = n => T \in P}
  <1>1. \A T \in SUBSET S : IsFiniteSet(T) /\ Cardinality(T) \in Nat
    BY FS_Subset, FS_CardinalityType
  <1>2. 0 \in N
    BY <1>1, FS_EmptySet
  <1>3. ASSUME NEW n \in Nat, n \in N PROVE n + 1 \in N
    <2>1. ASSUME NEW T \in SUBSET S, Cardinality(T) = n + 1 PROVE T \in P
      <3>1. T # {}
        <4>1. Cardinality({}) = 0 /\ n + 1 # 0
          BY FS_EmptySet
        <4>. QED BY <2>1, <4>1
      <3>2. ASSUME NEW x \in T PROVE T \ {x} \in P
        <4>1. Cardinality(T \ {x}) = n
          BY <1>1, <2>1, FS_RemoveElement
        <4>. QED BY <1>3, <4>1
      <3>. QED BY <3>1, <3>2
    <2>. QED BY <2>1
  <1>4. Nat \subseteq N
    <2> HIDE DEF N
    <2>. QED BY <1>2, <1>3, NumbersByOne
  <1>. QED BY <1>1, <1>4

\* A function that is defined for a set by its value for the set without one element.
Iterates(iter, S, base, C, F) ==
    iter = [s \in SUBSET S |-> IF s = {} THEN base ELSE F[<<C[s], iter[s \ {C[s]}]>>]]

\* There is one: what CHOOSE names in a fold is a function of that kind.
LEMMA IterationExists ==
    ASSUME NEW S, IsFiniteSet(S), NEW base, NEW C, \A T \in SUBSET S : T # {} => C[T] \in T, NEW F
    PROVE  \E iter : Iterates(iter, S, base, C, F)
  <1> DEFINE Value(g, s) == IF s = {} THEN base ELSE F[<<C[s], g[s \ {C[s]}]>>]
             N == {n \in Nat : \E g : g = [s \in SUBSET S |-> IF Cardinality(s) > n THEN base ELSE Value(g, s)]}
  <1>1. \A T \in SUBSET S : IsFiniteSet(T) /\ Cardinality(T) \in Nat
    BY FS_Subset, FS_CardinalityType
  <1>2. 0 \in N
    <2> DEFINE g == [s \in SUBSET S |-> base]
    <2>1. ASSUME NEW s \in SUBSET S PROVE g[s] = IF Cardinality(s) > 0 THEN base ELSE Value(g, s)
      <3>1. Cardinality(s) > 0 \/ s = {}
        BY <1>1, FS_EmptySet
      <3>. QED BY <3>1
    <2>2. g = [s \in SUBSET S |-> IF Cardinality(s) > 0 THEN base ELSE Value(g, s)]
      BY <2>1
    <2>. QED BY <2>2
  <1>3. ASSUME NEW n \in Nat, n \in N PROVE n + 1 \in N
    <2>1. PICK g : g = [s \in SUBSET S |-> IF Cardinality(s) > n THEN base ELSE Value(g, s)]
      BY <1>3
    <2> DEFINE h == [s \in SUBSET S |-> IF Cardinality(s) > n + 1 THEN base ELSE Value(g, s)]
    <2>2. ASSUME NEW s \in SUBSET S, Cardinality(s) <= n PROVE h[s] = g[s]
      <3>1. ~(Cardinality(s) > n) /\ ~(Cardinality(s) > n + 1)
        BY <1>1, <2>2
      <3>2. g[s] = Value(g, s) /\ h[s] = Value(g, s)
        <4> HIDE DEF Value
        <4>. QED BY <2>1, <3>1
      <3>. QED BY <3>2
    <2>3. ASSUME NEW s \in SUBSET S, s # {}, Cardinality(s) <= n + 1
          PROVE  Value(g, s) = Value(h, s)
      <3>1. Cardinality(s \ {C[s]}) = Cardinality(s) - 1 /\ s \ {C[s]} \in SUBSET S
        BY <1>1, <2>3, FS_RemoveElement
      <3>2. Cardinality(s \ {C[s]}) <= n
        BY <1>1, <2>3, <3>1
      <3>3. h[s \ {C[s]}] = g[s \ {C[s]}]
        BY <2>2, <3>1, <3>2
      <3>. QED BY <3>3
    <2>4. ASSUME NEW s \in SUBSET S PROVE h[s] = IF Cardinality(s) > n + 1 THEN base ELSE Value(h, s)
      <3>1. CASE Cardinality(s) > n + 1
        BY <3>1
      <3>2. CASE ~(Cardinality(s) > n + 1)
        <4>1. h[s] = Value(g, s)
          BY <3>2
        <4>2. CASE s = {}
          BY <4>1, <4>2, <3>2
        <4>3. CASE s # {}
          <5>1. Cardinality(s) <= n + 1
            BY <1>1, <3>2
          <5>2. Value(g, s) = Value(h, s)
            <6> HIDE DEF Value, h
            <6>. QED BY <2>3, <4>3, <5>1
          <5> HIDE DEF Value, h
          <5>. QED BY <3>2, <4>1, <5>2
        <4>. QED BY <4>2, <4>3
      <3>. QED BY <3>1, <3>2
    <2>5. h = [s \in SUBSET S |-> IF Cardinality(s) > n + 1 THEN base ELSE Value(h, s)]
      <3> DEFINE k == [s \in SUBSET S |-> IF Cardinality(s) > n + 1 THEN base ELSE Value(h, s)]
      <3>1. \A s \in SUBSET S : h[s] = k[s]
        <4> HIDE DEF Value, h
        <4>. QED BY <2>4
      <3>2. \E H : h = [s \in SUBSET S |-> H[s]]
        <4>1. h = [s \in SUBSET S |-> h[s]]
          OBVIOUS
        <4> HIDE DEF h
        <4>. QED BY <4>1
      <3> HIDE DEF Value, h
      <3>. QED BY <3>1, <3>2
    <2> HIDE DEF h, Value
    <2>. QED BY <2>5
  <1>4. Cardinality(S) \in N
    <2>1. Nat \subseteq N
      <3> HIDE DEF N
      <3>. QED BY <1>2, <1>3, NumbersByOne
    <2>. QED BY <2>1, FS_CardinalityType
  <1>5. PICK g : g = [s \in SUBSET S |-> IF Cardinality(s) > Cardinality(S) THEN base ELSE Value(g, s)]
    BY <1>4
  <1>6. \A s \in SUBSET S : ~(Cardinality(s) > Cardinality(S))
    BY FS_Subset, FS_CardinalityType
  <1>7. g = [s \in SUBSET S |-> Value(g, s)]
    <2> HIDE DEF Value
    <2>. QED BY <1>5, <1>6
  <1>. QED BY <1>7 DEF Iterates

-----------------------------------------------------------------------------
(* Columns are inserted one after another, the leftmost last.               *)

\* A worksheet of n rows of at least w cells, all of them in C.
Grids(n, w, C) == {g \in [1 .. n -> Seq(C)] : \A r \in 1 .. n : Len(g[r]) >= w}

\* InsertAt moves what is right of its place by one.
LEMMA InsertedCellAt ==
    ASSUME NEW C, NEW s \in Seq(C), NEW i \in 1 .. Len(s) + 1, NEW e \in C
    PROVE  /\ InsertAt(s, i, e) \in Seq(C) /\ Len(InsertAt(s, i, e)) = Len(s) + 1
           /\ \A j \in 1 .. Len(s) + 1 :
                InsertAt(s, i, e)[j] = IF j < i THEN s[j] ELSE IF j = i THEN e ELSE s[j - 1]
  <1> DEFINE l == SubSeq(s, 1, i - 1)
             m == <<e>>
             h == SubSeq(s, i, Len(s))
             k == i - 1
             n == Len(s)
  <1>0. n \in Nat /\ i \in Nat /\ k \in Nat /\ 1 <= i /\ i <= n + 1
    OBVIOUS
  <1>1. l \in Seq(C) /\ Len(l) = k /\ \A j \in 1 .. k : l[j] = s[j]
    OBVIOUS
  <1>2. h \in Seq(C) /\ Len(h) = n - k /\ \A j \in 1 .. n - k : h[j] = s[j + k]
    <2>1. h \in Seq(C) /\ Len(h) = Len(s) - i + 1 /\ \A j \in 1 .. Len(s) - i + 1 : h[j] = s[i + j - 1]
      OBVIOUS
    <2>2. k = i - 1 /\ n = Len(s)
      OBVIOUS
    <2> HIDE DEF h, n, k
    <2>3. n - i + 1 = n - k /\ \A j \in Int : i + j - 1 = j + k
      BY <1>0, <2>2
    <2>4. \A j \in 1 .. n - k : j \in 1 .. Len(s) - i + 1 /\ j \in Int
      BY <1>0, <2>2
    <2>. QED BY <2>1, <2>2, <2>3, <2>4
  <1>3. m \in Seq(C) /\ Len(m) = 1 /\ m[1] = e
    OBVIOUS
  <1>4. InsertAt(s, i, e) = (l \o m) \o h
    BY DEF InsertAt
  <1> HIDE DEF l, m, h, k, n
  <1>5. /\ l \o m \in Seq(C) /\ Len(l \o m) = k + 1
        /\ \A j \in 1 .. k + 1 : (l \o m)[j] = IF j <= k THEN l[j] ELSE m[j - k]
    <2>1. /\ l \o m \in Seq(C) /\ Len(l \o m) = Len(l) + Len(m)
          /\ \A j \in 1 .. Len(l) + Len(m) : (l \o m)[j] = IF j <= Len(l) THEN l[j] ELSE m[j - Len(l)]
      BY ONLY <1>1, <1>3, ConcatProperties, Zenon
    <2>. QED BY <1>1, <1>3, <2>1
  <1>6. /\ (l \o m) \o h \in Seq(C) /\ Len((l \o m) \o h) = n + 1
        /\ \A j \in 1 .. n + 1 : ((l \o m) \o h)[j] = IF j <= k + 1 THEN (l \o m)[j] ELSE h[j - (k + 1)]
    <2> DEFINE lm == l \o m
    <2>0. lm \in Seq(C) /\ Len(lm) = k + 1
      BY <1>5
    <2> HIDE DEF lm
    <2>1. /\ lm \o h \in Seq(C) /\ Len(lm \o h) = Len(lm) + Len(h)
          /\ \A j \in 1 .. Len(lm) + Len(h) : (lm \o h)[j] = IF j <= Len(lm) THEN lm[j] ELSE h[j - Len(lm)]
      BY ONLY <1>2, <2>0, ConcatProperties, Zenon
    <2>2. (k + 1) + (n - k) = n + 1
      BY <1>0
    <2>3. /\ lm \o h \in Seq(C) /\ Len(lm \o h) = n + 1
          /\ \A j \in 1 .. n + 1 : (lm \o h)[j] = IF j <= k + 1 THEN lm[j] ELSE h[j - (k + 1)]
      BY <1>2, <2>0, <2>1, <2>2
    <2>. QED BY <2>3 DEF lm
  <1>7. k = i - 1
    BY DEF k
  <1>8. ASSUME NEW j \in 1 .. n + 1
        PROVE  ((l \o m) \o h)[j] = IF j < i THEN s[j] ELSE IF j = i THEN e ELSE s[j - 1]
    <2>1. CASE j < i
      <3>1. j \in 1 .. k /\ j <= k + 1 /\ j \in 1 .. k + 1 /\ j <= k
        BY <1>0, <1>7, <2>1
      <3>. QED BY <1>1, <1>5, <1>6, <2>1, <3>1
    <2>2. CASE j = i
      <3>1. j <= k + 1 /\ j \in 1 .. k + 1 /\ ~(j <= k) /\ j - k = 1
        BY <1>0, <1>7, <2>2
      <3>. QED BY <1>3, <1>5, <1>6, <2>2, <3>1
    <2>3. CASE j > i
      <3>1. ~(j <= k + 1) /\ j - (k + 1) \in 1 .. n - k /\ (j - (k + 1)) + k = j - 1 /\ ~(j < i) /\ j # i
        BY <1>0, <1>7, <2>3
      <3>. QED BY <1>2, <1>6, <3>1
    <2>4. j < i \/ j = i \/ j > i
      BY <1>0
    <2>. QED BY <2>1, <2>2, <2>3, <2>4
  <1>. QED BY <1>4, <1>6, <1>8 DEF n

\* The order in which insertions stand in the end: the leftmost is made last.
LeftOf(p, q) == p.before < q.before \/ (p.before = q.before /\ p.index <= q.index)

\* Finitely many insertions into rows of w cells, told apart by their index.
Plans(plans, w) ==
    /\ IsFiniteSet(plans)
    /\ \A p \in plans : p.before \in 1 .. w + 1 /\ p.index \in Int
    /\ \A p, q \in plans : p.index = q.index => p = q

\* The insertion LastInserted takes away first is left of the others.
LEMMA LeftmostExists ==
    ASSUME NEW w \in Nat, NEW plans, Plans(plans, w), NEW T \in SUBSET plans, T # {}
    PROVE  LastInserted(T) \in T /\ \A q \in T : LeftOf(LastInserted(T), q)
  <1> DEFINE P == {U \in SUBSET plans : U # {} => \E p \in U : \A q \in U : LeftOf(p, q)}
  <1>1. \A p \in plans : p.before \in Int /\ p.index \in Int
    BY DEF Plans
  <1>2. ASSUME NEW U \in SUBSET plans, U # {}, \A x \in U : U \ {x} \in P PROVE U \in P
    <2>1. PICK x \in U : TRUE
      BY <1>2
    <2>2. CASE U \ {x} = {}
      <3>1. \A q \in U : q = x
        BY <2>2
      <3>2. LeftOf(x, x)
        BY <1>1 DEF LeftOf
      <3>. QED BY <2>1, <3>1, <3>2
    <2>3. CASE U \ {x} # {}
      <3>1. PICK p \in U \ {x} : \A q \in U \ {x} : LeftOf(p, q)
        BY <1>2, <2>3
      <3>2. CASE LeftOf(p, x)
        BY <3>1, <3>2
      <3>3. CASE ~LeftOf(p, x)
        <4>1. \A q \in U \ {x} : LeftOf(x, q)
          BY <1>1, <3>1, <3>3 DEF LeftOf
        <4>2. LeftOf(x, x)
          BY <1>1 DEF LeftOf
        <4>. QED BY <4>1, <4>2
      <3>. QED BY <3>2, <3>3
    <2>. QED BY <2>2, <2>3
  <1>3. T \in P
    <2>1. IsFiniteSet(plans) /\ {} \in P
      BY DEF Plans
    <2> HIDE DEF P
    <2>. QED BY <1>2, <2>1, SubsetsByOne
  <1>4. \E p \in T : \A q \in T : LeftOf(p, q)
    BY <1>3
  <1>. QED BY <1>4 DEF LastInserted, LeftOf

\* What an insertion puts into a row: the title, the template's formula, or nothing.
InsertedValue(v, plan, r) ==
    LET f == v.rule.columns[plan.index]
    IN  CASE r = v.header -> f.title
          [] r # v.header /\ f.template /\ r \in FormulaRows(v) -> FormulaAt(r)
          [] OTHER -> None

\* h is the grid g of n rows with the values of an insertion in every row.
Inserts(v, n, plan, g, h) ==
    \A r \in 1 .. n :
        /\ Len(h[r]) = Len(g[r]) + 1
        /\ \A j \in 1 .. Len(g[r]) + 1 :
              h[r][j] = IF j < plan.before THEN g[r][j]
                        ELSE IF j = plan.before THEN InsertedValue(v, plan, r) ELSE g[r][j - 1]

\* InsertColumn is an insertion of its values in every row.
LEMMA InsertColumnRows ==
    ASSUME NEW v, NEW n \in Nat, NEW w \in Nat, NEW C, NEW g \in Grids(n, w, C),
           NEW plan, plan.before \in 1 .. w + 1, \A r \in 1 .. n : InsertedValue(v, plan, r) \in C
    PROVE  /\ InsertColumn(v, g, plan) \in Grids(n, w, C)
           /\ Inserts(v, n, plan, g, InsertColumn(v, g, plan))
  <1> DEFINE h == InsertColumn(v, g, plan)
  <1>1. DOMAIN g = 1 .. n /\ \A r \in 1 .. n : g[r] \in Seq(C) /\ Len(g[r]) \in Nat /\ Len(g[r]) >= w
    BY DEF Grids
  <1>2. /\ DOMAIN h = 1 .. n /\ h = [r \in DOMAIN h |-> h[r]]
        /\ \A r \in 1 .. n : h[r] = InsertAt(g[r], plan.before, InsertedValue(v, plan, r))
    BY <1>1 DEF InsertColumn, InsertedValue
  <1> HIDE DEF h
  <1>3. ASSUME NEW r \in 1 .. n
        PROVE  /\ h[r] \in Seq(C) /\ Len(h[r]) = Len(g[r]) + 1
               /\ \A j \in 1 .. Len(g[r]) + 1 :
                       h[r][j] = IF j < plan.before THEN g[r][j]
                                 ELSE IF j = plan.before THEN InsertedValue(v, plan, r) ELSE g[r][j - 1]
    <2> DEFINE s == g[r]
               i == plan.before
               e == InsertedValue(v, plan, r)
    <2>1. i \in 1 .. Len(s) + 1 /\ e \in C /\ s \in Seq(C)
      BY <1>1
    <2>2. h[r] = InsertAt(s, i, e)
      BY <1>2
    <2> HIDE DEF s, i, e
    <2>3. /\ h[r] \in Seq(C) /\ Len(h[r]) = Len(s) + 1
          /\ \A j \in 1 .. Len(s) + 1 : h[r][j] = IF j < i THEN s[j] ELSE IF j = i THEN e ELSE s[j - 1]
      BY <2>1, <2>2, InsertedCellAt
    <2>. QED BY <2>3 DEF s, i, e
  <1>4. h \in [1 .. n -> Seq(C)]
    BY <1>2, <1>3
  <1>5. h \in Grids(n, w, C)
    <2>1. ASSUME NEW r \in 1 .. n PROVE Len(h[r]) >= w
      <3> DEFINE a == Len(h[r])
                 b == Len(g[r])
      <3>1. a = b + 1
        BY <1>3
      <3>2. b \in Nat /\ b >= w
        BY <1>1
      <3> HIDE DEF a, b
      <3>3. a >= w
        BY <3>1, <3>2
      <3>. QED BY <3>3 DEF a
    <2> DEFINE T == [1 .. n -> Seq(C)]
               good(x) == \A r \in 1 .. n : Len(x[r]) >= w
    <2>2. Grids(n, w, C) = {x \in T : good(x)}
      BY DEF Grids
    <2>3. h \in T /\ good(h)
      BY <1>4, <2>1
    <2> HIDE DEF T, good
    <2>. QED BY <2>2, <2>3
  <1>6. Inserts(v, n, plan, g, h)
    BY <1>3 DEF Inserts
  <1>. QED BY <1>5, <1>6 DEF h

\* The insertions at a column or before it, and the column an insertion ends up in.
Upto(T, c) == Cardinality({p \in T : p.before <= c})
LeftOnes(T, p) == {q \in T : LeftOf(q, p) /\ q # p}
Spot(T, p) == p.before + Cardinality(LeftOnes(T, p))

\* What an insertion x left of those of U adds to the counts.
CountsMore(w, x, U, T) ==
    /\ \A c \in 1 .. w : /\ Upto(T, c) \in Nat /\ Upto(U, c) \in Nat
                         /\ IF c >= x.before THEN Upto(T, c) = Upto(U, c) + 1
                            ELSE Upto(T, c) = 0 /\ Upto(U, c) = 0
    /\ Spot(T, x) = x.before
    /\ \A p \in U : /\ Spot(T, p) = Spot(U, p) + 1 /\ Spot(U, p) \in Int
                    /\ Spot(U, p) >= x.before /\ p.before \in Int

\* The leftmost insertion, made last, moves all those made before it.
LEMMA LeftmostCounts ==
    ASSUME NEW w \in Nat, NEW plans, Plans(plans, w), NEW T \in SUBSET plans, T # {},
           NEW x, x = LastInserted(T), NEW U, U = T \ {x}
    PROVE  CountsMore(w, x, U, T)
  <1>1. x \in T /\ \A q \in T : LeftOf(x, q)
    BY LeftmostExists
  <1>2. \A p \in plans : p.before \in Int /\ p.index \in Int
    BY DEF Plans
  <1>3. \A W \in SUBSET T : IsFiniteSet(W) /\ Cardinality(W) \in Nat
    BY FS_Subset, FS_CardinalityType DEF Plans
  <1>4. ASSUME NEW c \in 1 .. w
        PROVE  /\ Upto(T, c) \in Nat /\ Upto(U, c) \in Nat
               /\ IF c >= x.before THEN Upto(T, c) = Upto(U, c) + 1
                                   ELSE Upto(T, c) = 0 /\ Upto(U, c) = 0
    <2> DEFINE A == {p \in T : p.before <= c}
               B == {p \in U : p.before <= c}
    <2>1. A \in SUBSET T /\ B \in SUBSET T
      OBVIOUS
    <2>2. Upto(T, c) = Cardinality(A) /\ Upto(U, c) = Cardinality(B)
      BY DEF Upto
    <2>3. CASE c >= x.before
      <3>1. B = A \ {x} /\ x \in A
        BY <1>1, <1>2, <2>3
      <3> HIDE DEF A, B
      <3>2. Cardinality(A \ {x}) = Cardinality(A) - 1
        BY <1>3, <2>1, <3>1, FS_RemoveElement
      <3>. QED BY <1>3, <2>1, <2>2, <2>3, <3>1, <3>2
    <2>4. CASE ~(c >= x.before)
      <3>1. A = {} /\ B = {}
        BY <1>1, <1>2, <2>4 DEF LeftOf
      <3> HIDE DEF A, B
      <3>2. Cardinality({}) = 0
        BY FS_EmptySet
      <3>. QED BY <2>2, <2>4, <3>1, <3>2
    <2>. QED BY <2>3, <2>4
  <1>5. LeftOnes(T, x) = {}
    <2>1. ASSUME NEW q \in T, LeftOf(q, x), q # x PROVE FALSE
      <3>1. q.before = x.before /\ q.index = x.index
        BY <1>1, <1>2, <2>1 DEF LeftOf
      <3>. QED BY <1>1, <2>1, <3>1 DEF Plans
    <2>. QED BY <2>1 DEF LeftOnes
  <1>6. Spot(T, x) = x.before
    <2>1. Cardinality({}) = 0 /\ x.before \in Int
      BY <1>1, <1>2, FS_EmptySet
    <2>. QED BY <1>5, <2>1 DEF Spot
  <1>7. ASSUME NEW p \in U
        PROVE  /\ Spot(T, p) = Spot(U, p) + 1 /\ Spot(U, p) \in Int
               /\ Spot(U, p) >= x.before /\ p.before \in Int
    <2> DEFINE A == LeftOnes(T, p)
               B == LeftOnes(U, p)
    <2>1. x \in A /\ B = A \ {x} /\ A \in SUBSET T /\ B \in SUBSET T
      BY <1>1 DEF LeftOnes
    <2> HIDE DEF A, B
    <2>2. Cardinality(A) \in Nat /\ Cardinality(B) \in Nat /\ Cardinality(B) = Cardinality(A) - 1
      BY <1>3, <2>1, FS_RemoveElement
    <2>3. p.before \in Int /\ x.before \in Int /\ p.before >= x.before
      BY <1>1, <1>2 DEF LeftOf
    <2>4. Spot(T, p) = p.before + Cardinality(A) /\ Spot(U, p) = p.before + Cardinality(B)
      BY DEF Spot, A, B
    <2>. QED BY <2>2, <2>3, <2>4
  <1>. QED BY <1>4, <1>6, <1>7 DEF CountsMore

\* A grid of w columns once the insertions of T are made.
Widened(v, T, grid, n, w, C, g) ==
    /\ g \in Grids(n, w, C)
    /\ \A r \in 1 .. n :
          /\ Len(g[r]) = w + Cardinality(T)
          /\ \A c \in 1 .. w : g[r][c + Upto(T, c)] = grid[r][c]
          /\ \A p \in T : /\ Spot(T, p) \in 1 .. w + Cardinality(T)
                          /\ g[r][Spot(T, p)] = InsertedValue(v, p, r)

\* One more insertion, left of those of U, keeps the cells of the sheet where they belong.
LEMMA WidenedByOne ==
    ASSUME NEW v, NEW n \in Nat, NEW w \in Nat, NEW C, NEW plans, Plans(plans, w),
           \A p \in plans : \A r \in 1 .. n : InsertedValue(v, p, r) \in C, NEW grid,
           NEW T \in SUBSET plans, T # {}, NEW x, x = LastInserted(T), NEW U, U = T \ {x},
           NEW g, Widened(v, U, grid, n, w, C, g)
    PROVE  Widened(v, T, grid, n, w, C, InsertColumn(v, g, x))
  <1> DEFINE h == InsertColumn(v, g, x)
  <1>1. x \in T /\ x \in plans /\ x.before \in 1 .. w + 1
    BY LeftmostExists DEF Plans
  <1>2. g \in Grids(n, w, C) /\ \A r \in 1 .. n : InsertedValue(v, x, r) \in C
    BY <1>1 DEF Widened
  <1>3. /\ h \in Grids(n, w, C)
        /\ \A r \in 1 .. n :
              /\ Len(h[r]) = Len(g[r]) + 1
              /\ \A j \in 1 .. Len(g[r]) + 1 :
                    h[r][j] = IF j < x.before THEN g[r][j]
                              ELSE IF j = x.before THEN InsertedValue(v, x, r) ELSE g[r][j - 1]
    <2>1. h \in Grids(n, w, C) /\ Inserts(v, n, x, g, h)
      BY <1>1, <1>2, InsertColumnRows
    <2>. QED BY <2>1 DEF Inserts
  <1>4. IsFiniteSet(T) /\ Cardinality(T) \in Nat /\ Cardinality(U) = Cardinality(T) - 1
    BY <1>1, FS_Subset, FS_CardinalityType, FS_RemoveElement DEF Plans
  <1>5. /\ \A c \in 1 .. w : /\ Upto(T, c) \in Nat /\ Upto(U, c) \in Nat
                             /\ IF c >= x.before THEN Upto(T, c) = Upto(U, c) + 1
                                ELSE Upto(T, c) = 0 /\ Upto(U, c) = 0
        /\ Spot(T, x) = x.before
        /\ \A p \in U : /\ Spot(T, p) = Spot(U, p) + 1 /\ Spot(U, p) \in Int
                        /\ Spot(U, p) >= x.before /\ p.before \in Int
    <2>1. CountsMore(w, x, U, T)
      BY LeftmostCounts
    <2>. QED BY <2>1 DEF CountsMore
  <1>6. \A c \in 1 .. w : Upto(U, c) <= Cardinality(U)
    <2>1. IsFiniteSet(U)
      BY <1>4, FS_Subset
    <2>. QED BY <2>1, FS_Subset DEF Upto
  <1> HIDE DEF h
  <1>7. ASSUME NEW r \in 1 .. n
        PROVE  /\ Len(h[r]) = w + Cardinality(T)
               /\ \A c \in 1 .. w : h[r][c + Upto(T, c)] = grid[r][c]
               /\ \A p \in T : /\ Spot(T, p) \in 1 .. w + Cardinality(T)
                               /\ h[r][Spot(T, p)] = InsertedValue(v, p, r)
    <2>1. Len(g[r]) = w + Cardinality(U)
      BY DEF Widened
    <2>2. Len(h[r]) = w + Cardinality(T) /\ Len(g[r]) + 1 = w + Cardinality(T)
      <3>1. Len(h[r]) = Len(g[r]) + 1
        BY <1>3
      <3>2. Cardinality(U) = Cardinality(T) - 1 /\ Cardinality(T) \in Int
        BY <1>4
      <3>. QED BY <2>1, <3>1, <3>2
    <2>3. \A j \in 1 .. w + Cardinality(T) :
              h[r][j] = IF j < x.before THEN g[r][j]
                        ELSE IF j = x.before THEN InsertedValue(v, x, r) ELSE g[r][j - 1]
      BY <1>3, <2>2
    <2>4. ASSUME NEW c \in 1 .. w PROVE h[r][c + Upto(T, c)] = grid[r][c]
      <3>1. g[r][c + Upto(U, c)] = grid[r][c]
        BY DEF Widened
      <3>2. CASE c >= x.before
        <4>1. /\ Upto(T, c) = Upto(U, c) + 1 /\ Upto(U, c) \in Nat /\ Upto(U, c) <= Cardinality(U)
              /\ c \in Int /\ x.before \in Int
          <5>1. Upto(T, c) = Upto(U, c) + 1 /\ Upto(U, c) \in Nat
            BY <1>5, <3>2
          <5>2. c \in Int /\ x.before \in Int
            BY <1>1
          <5>. QED BY <1>6, <5>1, <5>2
        <4> DEFINE k == c + Upto(U, c)
        <4>2. c + Upto(T, c) = k + 1 /\ k \in Nat /\ k >= c /\ k + 1 \in 1 .. w + Cardinality(T)
          BY <1>4, <4>1
        <4>3. g[r][k] = grid[r][c]
          BY <3>1
        <4> HIDE DEF k
        <4>4. ~(k + 1 < x.before) /\ k + 1 # x.before /\ (k + 1) - 1 = k
          BY <3>2, <4>1, <4>2
        <4>5. h[r][k + 1] = g[r][(k + 1) - 1]
          BY <2>3, <4>2, <4>4
        <4>. QED BY <4>2, <4>3, <4>4, <4>5
      <3>3. CASE ~(c >= x.before)
        <4>1. Upto(T, c) = 0 /\ Upto(U, c) = 0 /\ c < x.before /\ c + 0 = c /\ c \in 1 .. w + Cardinality(T)
          <5>1. Upto(T, c) = 0 /\ Upto(U, c) = 0
            BY <1>5, <3>3
          <5>2. c < x.before /\ c + 0 = c /\ c \in 1 .. w + Cardinality(T)
            BY <1>1, <1>4, <3>3
          <5>. QED BY <5>1, <5>2
        <4>. QED BY <2>3, <3>1, <4>1
      <3>. QED BY <3>2, <3>3
    <2>5. ASSUME NEW p \in T
          PROVE  Spot(T, p) \in 1 .. w + Cardinality(T) /\ h[r][Spot(T, p)] = InsertedValue(v, p, r)
      <3>1. CASE p = x
        <4>1. Spot(T, p) = x.before /\ x.before \in 1 .. w + Cardinality(T)
          <5>1. Cardinality(T) >= 1
            <6>1. Cardinality(U) \in Nat
              BY <1>4, FS_Subset, FS_CardinalityType
            <6>. QED BY <1>4, <6>1
          <5>. QED BY <1>1, <1>4, <1>5, <3>1, <5>1
        <4>2. ~(x.before < x.before)
          BY <4>1
        <4>. QED BY <2>3, <3>1, <4>1, <4>2
      <3>2. CASE p # x
        <4> DEFINE k == Spot(U, p)
        <4>1. p \in U /\ Spot(T, p) = k + 1 /\ k \in Int /\ k >= x.before
          BY <1>5, <3>2
        <4>2. k \in 1 .. w + Cardinality(U) /\ g[r][k] = InsertedValue(v, p, r)
          BY <4>1 DEF Widened
        <4> HIDE DEF k
        <4>3. /\ k + 1 \in 1 .. w + Cardinality(T) /\ ~(k + 1 < x.before) /\ k + 1 # x.before
              /\ (k + 1) - 1 = k
          BY <1>1, <1>4, <4>1, <4>2
        <4>4. h[r][k + 1] = g[r][(k + 1) - 1]
          BY <2>3, <4>3
        <4>. QED BY <4>1, <4>2, <4>3, <4>4
      <3>. QED BY <3>1, <3>2
    <2>. QED BY <2>2, <2>4, <2>5
  <1>8. Widened(v, T, grid, n, w, C, h)
    BY <1>3, <1>7 DEF Widened
  <1>. QED BY <1>8 DEF h

\* All insertions: InsertColumns moves a cell by the number of insertions up to it.
LEMMA ColumnsInserted ==
    ASSUME NEW v, NEW n \in Nat, NEW w \in Nat, NEW C, NEW plans, Plans(plans, w),
           \A p \in plans : \A r \in 1 .. n : InsertedValue(v, p, r) \in C,
           NEW grid \in [1 .. n -> Seq(C)], \A r \in 1 .. n : Len(grid[r]) = w
    PROVE  Widened(v, plans, grid, n, w, C, InsertColumns(v, grid, plans))
  <1> DEFINE F == [z \in plans \X Grids(n, w, C) |-> InsertColumn(v, z[2], z[1])]
             L == [T \in SUBSET plans |-> LastInserted(T)]
             Steps(it) == [s \in SUBSET plans |-> IF s = {} THEN grid
                                                   ELSE InsertColumn(v, it[s \ {LastInserted(s)}], LastInserted(s))]
  <1>1. IsFiniteSet(plans)
    BY DEF Plans
  <1>2. \A T \in SUBSET plans : T # {} => LastInserted(T) \in T
    BY LeftmostExists
  <1>3. Widened(v, {}, grid, n, w, C, grid)
    <2>1. Cardinality({}) = 0 /\ \A c : Upto({}, c) = 0
      BY FS_EmptySet DEF Upto
    <2>2. grid \in Grids(n, w, C)
      BY DEF Grids
    <2>. QED BY <2>1, <2>2 DEF Widened
  <1>4. \E it : it = Steps(it)
    <2>1. \A T \in SUBSET plans : T # {} => L[T] \in T
      BY <1>2
    <2> HIDE DEF F, L
    <2>2. PICK it : it = [s \in SUBSET plans |-> IF s = {} THEN grid ELSE F[<<L[s], it[s \ {L[s]}]>>]]
      <3>1. \E it : Iterates(it, plans, grid, L, F)
        BY <1>1, <2>1, IterationExists
      <3>. QED BY <3>1 DEF Iterates
    <2> DEFINE P == {T \in SUBSET plans : Widened(v, T, grid, n, w, C, it[T])}
    <2>3. ASSUME NEW T \in SUBSET plans, T # {}, T \ {LastInserted(T)} \in P
          PROVE  it[T] = InsertColumn(v, it[T \ {LastInserted(T)}], LastInserted(T))
      <3>1. it[T \ {LastInserted(T)}] \in Grids(n, w, C) /\ LastInserted(T) \in plans
        BY <1>2, <2>3 DEF Widened
      <3>2. it[T] = F[<<LastInserted(T), it[T \ {LastInserted(T)}]>>]
        BY <2>2, <2>3 DEF L
      <3>. QED BY <3>1, <3>2 DEF F
    <2>4. {} \in P
      <3>1. it[{}] = grid
        BY <2>2
      <3>. QED BY <1>3, <3>1
    <2>5. ASSUME NEW T \in SUBSET plans, T # {}, \A x \in T : T \ {x} \in P PROVE T \in P
      <3>1. LastInserted(T) \in T
        BY <1>2, <2>5
      <3>2. it[T] = InsertColumn(v, it[T \ {LastInserted(T)}], LastInserted(T))
        BY <2>3, <2>5, <3>1
      <3>3. Widened(v, T \ {LastInserted(T)}, grid, n, w, C, it[T \ {LastInserted(T)}])
        BY <2>5, <3>1
      <3>. QED BY <2>5, <3>2, <3>3, WidenedByOne
    <2>6. SUBSET plans \subseteq P
      <3> HIDE DEF P
      <3>. QED BY <1>1, <2>4, <2>5, SubsetsByOne
    <2>7. \A s \in SUBSET plans : it[s] = Steps(it)[s]
      <3>1. ASSUME NEW s \in SUBSET plans, s # {}
            PROVE  it[s] = InsertColumn(v, it[s \ {LastInserted(s)}], LastInserted(s))
        <4>1. s \ {LastInserted(s)} \in P
          BY <2>6, <3>1
        <4>. QED BY <2>3, <3>1, <4>1
      <3>2. it[{}] = grid
        BY <2>2
      <3>. QED BY <3>1, <3>2
    <2>8. DOMAIN it = SUBSET plans /\ it = [s \in DOMAIN it |-> it[s]]
      BY <2>2
    <2>. QED BY <2>7, <2>8
  <1> DEFINE iter == CHOOSE it : it = Steps(it)
  <1>5. iter = Steps(iter)
    BY <1>4
  <1>6. InsertColumns(v, grid, plans) = iter[plans]
    BY DEF InsertColumns, InOrder, MapThenFoldSet
  <1> HIDE DEF iter
  <1> DEFINE P == {T \in SUBSET plans : Widened(v, T, grid, n, w, C, iter[T])}
  <1>7. {} \in P
    <2>1. iter[{}] = grid
      BY <1>5
    <2>. QED BY <1>3, <2>1
  <1>8. ASSUME NEW T \in SUBSET plans, T # {}, \A x \in T : T \ {x} \in P PROVE T \in P
    <2>1. LastInserted(T) \in T
      BY <1>2, <1>8
    <2>2. iter[T] = InsertColumn(v, iter[T \ {LastInserted(T)}], LastInserted(T))
      BY <1>5, <1>8
    <2>3. Widened(v, T \ {LastInserted(T)}, grid, n, w, C, iter[T \ {LastInserted(T)}])
      BY <1>8, <2>1
    <2>. QED BY <1>8, <2>2, <2>3, WidenedByOne
  <1>9. plans \in P
    <2> HIDE DEF P
    <2>. QED BY <1>1, <1>7, <1>8, SubsetsByOne
  <1>. QED BY <1>6, <1>9

\* The field an insertion is for, and the columns the fields have once those of T are made.
PlanName(v, p) == v.rule.columns[p.index].name
Names(v, plans) == {PlanName(v, p) : p \in plans}

Moved(v, T, K) ==
    /\ DOMAIN K = DOMAIN v.columns \cup Names(v, T)
    /\ K \in [DOMAIN K -> Int]
    /\ \A f \in DOMAIN v.columns : K[f] = v.columns[f] + Upto(T, v.columns[f])
    /\ \A p \in T : K[PlanName(v, p)] = Spot(T, p)

\* Insertions of fields without columns, each of its own.
NewFields(v, plans, w) ==
    /\ v.columns \in [DOMAIN v.columns -> 1 .. w]
    /\ \A p \in plans : PlanName(v, p) \notin DOMAIN v.columns
    /\ \A p, q \in plans : PlanName(v, p) = PlanName(v, q) => p = q

\* ColumnsAfter follows InsertColumn in where it puts the fields.
LEMMA MovedByOne ==
    ASSUME NEW v, NEW w \in Nat, NEW plans, Plans(plans, w), NewFields(v, plans, w),
           NEW T \in SUBSET plans, T # {}, NEW x, x = LastInserted(T), NEW U, U = T \ {x},
           NEW K, Moved(v, U, K)
    PROVE  Moved(v, T, ColumnsAfter(v, x, K))
  <1> DEFINE H == ColumnsAfter(v, x, K)
             name == PlanName(v, x)
  <1>1. x \in T /\ x \in plans /\ x.before \in Int
    BY LeftmostExists DEF Plans
  <1>2. H = [f \in DOMAIN K \cup {name} |->
                CASE f = name -> x.before
                  [] f # name /\ K[f] >= x.before -> K[f] + 1
                  [] OTHER -> K[f]]
    BY DEF ColumnsAfter, PlanName
  <1>3. DOMAIN H = DOMAIN K \cup {name} /\ H = [f \in DOMAIN H |-> H[f]] /\ H[name] = x.before
    BY <1>2
  <1>4. \A f \in DOMAIN K \ {name} : H[f] = IF K[f] >= x.before THEN K[f] + 1 ELSE K[f]
    BY <1>2
  <1>5. CountsMore(w, x, U, T)
    BY LeftmostCounts
  <1>6. \A f \in DOMAIN K : K[f] \in Int
    BY DEF Moved
  <1>7. DOMAIN K = DOMAIN v.columns \cup Names(v, U) /\ name \notin DOMAIN v.columns
    BY <1>1 DEF Moved, NewFields
  <1>8. T = U \cup {x}
    BY <1>1
  <1> HIDE DEF H
  <1>9. DOMAIN H = DOMAIN v.columns \cup Names(v, T)
    BY <1>3, <1>7, <1>8 DEF Names
  <1>10. \A f \in DOMAIN H : H[f] \in Int
    BY <1>1, <1>3, <1>4, <1>6
  <1>11. ASSUME NEW f \in DOMAIN v.columns PROVE H[f] = v.columns[f] + Upto(T, v.columns[f])
    <2> DEFINE c == v.columns[f]
    <2>1. f # name /\ f \in DOMAIN K /\ c \in 1 .. w
      BY <1>7 DEF NewFields
    <2>2. K[f] = c + Upto(U, c)
      BY DEF Moved
    <2> HIDE DEF c
    <2>3. H[f] = IF c + Upto(U, c) >= x.before THEN c + Upto(U, c) + 1 ELSE c + Upto(U, c)
      BY <1>4, <2>1, <2>2
    <2>4. /\ Upto(T, c) \in Nat /\ Upto(U, c) \in Nat
          /\ c >= x.before => Upto(T, c) = Upto(U, c) + 1
          /\ ~(c >= x.before) => Upto(T, c) = 0 /\ Upto(U, c) = 0
      BY <1>5, <2>1 DEF CountsMore
    <2>5. H[f] = c + Upto(T, c)
      BY <1>1, <2>1, <2>3, <2>4
    <2>. QED BY <2>5 DEF c
  <1>12. ASSUME NEW p \in T PROVE H[PlanName(v, p)] = Spot(T, p)
    <2>1. CASE p = x
      BY <1>3, <1>5, <2>1 DEF CountsMore
    <2>2. CASE p # x
      <3>1. p \in U /\ p \in plans /\ PlanName(v, p) # name
        BY <1>1, <2>2 DEF NewFields
      <3>2. PlanName(v, p) \in DOMAIN K /\ K[PlanName(v, p)] = Spot(U, p)
        BY <1>7, <3>1 DEF Moved, Names
      <3>3. Spot(T, p) = Spot(U, p) + 1 /\ Spot(U, p) >= x.before
        BY <1>5, <3>1 DEF CountsMore
      <3>. QED BY <1>4, <3>1, <3>2, <3>3
    <2>. QED BY <2>1, <2>2
  <1>13. H \in [DOMAIN H -> Int]
    BY <1>3, <1>10
  <1>14. Moved(v, T, H)
    BY <1>9, <1>11, <1>12, <1>13 DEF Moved
  <1>. QED BY <1>14 DEF H

\* FinalColumns puts every field where InsertColumns moves its cells.
LEMMA ColumnsMoved ==
    ASSUME NEW v, NEW w \in Nat, Plans(InsertPlans(v, v.columns), w),
           NewFields(v, InsertPlans(v, v.columns), w)
    PROVE  Moved(v, InsertPlans(v, v.columns), FinalColumns(v))
  <1> DEFINE plans == InsertPlans(v, v.columns)
             N == DOMAIN v.columns \cup Names(v, plans)
             V == UNION {[D -> Int] : D \in SUBSET N}
             F == [z \in plans \X V |-> ColumnsAfter(v, z[1], z[2])]
             L == [T \in SUBSET plans |-> LastInserted(T)]
             base == v.columns
             Steps(it) == [s \in SUBSET plans |-> IF s = {} THEN base
                                                   ELSE ColumnsAfter(v, LastInserted(s), it[s \ {LastInserted(s)}])]
  <1>0. FinalColumns(v) = InOrder(LAMBDA plan, columns : ColumnsAfter(v, plan, columns), base, plans)
    BY DEF FinalColumns
  <1> HIDE DEF plans
  <1>1. IsFiniteSet(plans) /\ Plans(plans, w) /\ NewFields(v, plans, w)
    BY DEF Plans, plans
  <1>2. \A T \in SUBSET plans : T # {} => LastInserted(T) \in T
    BY <1>1, LeftmostExists
  <1>3. Moved(v, {}, base)
    <2>1. \A c : Upto({}, c) = 0
      <3>1. \A c : {p \in {} : p.before <= c} = {}
        OBVIOUS
      <3>. QED BY <3>1, FS_EmptySet DEF Upto
    <2>2. Names(v, {}) = {}
      BY DEF Names
    <2>. QED BY <1>1, <2>1, <2>2 DEF Moved, NewFields
  <1>4. \A T \in SUBSET plans : \A K : Moved(v, T, K) => K \in V
    <2>1. \A T \in SUBSET plans : \A K : Moved(v, T, K) => DOMAIN K \in SUBSET N /\ K \in [DOMAIN K -> Int]
      BY DEF Moved, Names
    <2>. QED BY <2>1
  <1> HIDE DEF V
  <1>5. \E it : it = Steps(it)
    <2>1. \A T \in SUBSET plans : T # {} => L[T] \in T
      BY <1>2
    <2> HIDE DEF F, L
    <2>2. PICK it : Iterates(it, plans, base, L, F)
      BY <1>1, <2>1, IterationExists
    <2> DEFINE P == {T \in SUBSET plans : Moved(v, T, it[T])}
    <2>3. ASSUME NEW T \in SUBSET plans, T # {}, T \ {LastInserted(T)} \in P
          PROVE  it[T] = ColumnsAfter(v, LastInserted(T), it[T \ {LastInserted(T)}])
      <3>1. it[T \ {LastInserted(T)}] \in V /\ LastInserted(T) \in plans
        BY <1>2, <1>4, <2>3
      <3>2. it[T] = F[<<LastInserted(T), it[T \ {LastInserted(T)}]>>]
        BY <2>2, <2>3 DEF L, Iterates
      <3>. QED BY <3>1, <3>2 DEF F
    <2>4. {} \in P
      <3>1. it[{}] = base
        BY <2>2 DEF Iterates
      <3>. QED BY <1>3, <3>1
    <2>5. ASSUME NEW T \in SUBSET plans, T # {}, \A x \in T : T \ {x} \in P PROVE T \in P
      <3>1. LastInserted(T) \in T
        BY <1>2, <2>5
      <3>2. it[T] = ColumnsAfter(v, LastInserted(T), it[T \ {LastInserted(T)}])
        BY <2>3, <2>5, <3>1
      <3>3. Moved(v, T \ {LastInserted(T)}, it[T \ {LastInserted(T)}])
        BY <2>5, <3>1
      <3>. QED BY <1>1, <2>5, <3>2, <3>3, MovedByOne
    <2>6. SUBSET plans \subseteq P
      <3> HIDE DEF P
      <3>. QED BY <1>1, <2>4, <2>5, SubsetsByOne
    <2>7. \A s \in SUBSET plans : it[s] = Steps(it)[s]
      <3>1. ASSUME NEW s \in SUBSET plans, s # {}
            PROVE  it[s] = ColumnsAfter(v, LastInserted(s), it[s \ {LastInserted(s)}])
        <4>1. s \ {LastInserted(s)} \in P
          BY <2>6, <3>1
        <4>. QED BY <2>3, <3>1, <4>1
      <3>2. it[{}] = base
        BY <2>2 DEF Iterates
      <3> HIDE DEF base
      <3>. QED BY <3>1, <3>2
    <2>8. DOMAIN it = SUBSET plans /\ it = [s \in DOMAIN it |-> it[s]]
      BY <2>2 DEF Iterates
    <2> HIDE DEF base
    <2>. QED BY <2>7, <2>8
  <1> DEFINE iter == CHOOSE it : it = Steps(it)
  <1>6. iter = Steps(iter)
    BY <1>5
  <1>7. FinalColumns(v) = iter[plans]
    BY <1>0 DEF InOrder, MapThenFoldSet
  <1> HIDE DEF iter
  <1> DEFINE P == {T \in SUBSET plans : Moved(v, T, iter[T])}
  <1>8. {} \in P
    <2>1. iter[{}] = base
      BY <1>6
    <2>. QED BY <1>3, <2>1
  <1>9. ASSUME NEW T \in SUBSET plans, T # {}, \A x \in T : T \ {x} \in P PROVE T \in P
    <2>1. LastInserted(T) \in T
      BY <1>2, <1>9
    <2>2. iter[T] = ColumnsAfter(v, LastInserted(T), iter[T \ {LastInserted(T)}])
      BY <1>6, <1>9
    <2>3. Moved(v, T \ {LastInserted(T)}, iter[T \ {LastInserted(T)}])
      BY <1>9, <2>1
    <2>. QED BY <1>1, <1>9, <2>2, <2>3, MovedByOne
  <1>10. plans \in P
    <2> HIDE DEF P
    <2>. QED BY <1>1, <1>8, <1>9, SubsetsByOne
  <1>. QED BY <1>7, <1>10 DEF plans

-----------------------------------------------------------------------------
(* A sheet as a rectangle of cells, and its scope under a rule.            *)

\* The community module's Max, of finitely many numbers.
LEMMA MaxOfSet ==
    ASSUME NEW S, S \subseteq Int, IsFiniteSet(S), S # {}
    PROVE  Max(S) \in S /\ \A x \in S : x <= Max(S)
  <1> DEFINE P == {T \in SUBSET S : T # {} => \E m \in T : \A x \in T : x <= m}
  <1>1. ASSUME NEW T \in SUBSET S, T # {}, \A x \in T : T \ {x} \in P PROVE T \in P
    <2>1. PICK x \in T : TRUE
      BY <1>1
    <2>2. CASE T \ {x} = {}
      <3>1. \A y \in T : y = x
        BY <2>2
      <3>. QED BY <2>1, <3>1
    <2>3. CASE T \ {x} # {}
      <3>1. PICK m \in T \ {x} : \A y \in T \ {x} : y <= m
        BY <1>1, <2>3
      <3>2. CASE x <= m
        BY <3>1, <3>2
      <3>3. CASE ~(x <= m)
        <4>1. \A y \in T : y <= x
          BY <3>1, <3>3
        <4>. QED BY <4>1
      <3>. QED BY <3>2, <3>3
    <2>. QED BY <2>2, <2>3
  <1>2. S \in P
    <2>1. {} \in P
      OBVIOUS
    <2> HIDE DEF P
    <2>. QED BY <1>1, <2>1, SubsetsByOne
  <1>3. \E m \in S : \A x \in S : m >= x
    BY <1>2
  <1>. QED BY <1>3 DEF Max

\* n rows of w cells of C.
Rectangle(grid, n, w, C) == grid \in [1 .. n -> Seq(C)] /\ \A r \in 1 .. n : Len(grid[r]) = w

\* Fields of a rule that publication allows have different names.
LEMMA FieldsAreDistinct ==
    ASSUME NEW rule, AllowedRule(rule), NEW i \in DOMAIN rule.columns, NEW j \in DOMAIN rule.columns,
           rule.columns[i].name = rule.columns[j].name
    PROVE  i = j
  <1> DEFINE titles(k) == {Normal(t) : t \in Titles(rule.columns[k])}
  <1>1. \A k : Normal(rule.columns[k].name) \in titles(k)
    BY DEF Titles
  <1>2. i # j => titles(i) \cap titles(j) = {}
    BY DEF AllowedRule
  <1> HIDE DEF titles
  <1>. QED BY <1>1, <1>2

\* v is the scope of a sheet of n rows and w columns, and its columns are those of its header.
ScopeOn(v, rule, sh, header, n, w) ==
    /\ v.rule = rule /\ v.sheet = sh /\ v.header = header
    /\ v.mapping = MapHeaders(rule, sh.grid[header]) /\ v.columns = Columns(v.mapping)
    /\ DOMAIN v.mapping = 1 .. w /\ DOMAIN sh.grid = 1 .. n /\ Len(sh.grid) = n
    /\ v.columns \in [DOMAIN v.columns -> 1 .. w]
    /\ \A f \in DOMAIN v.columns : /\ v.mapping[v.columns[f]].status = "matched"
                                   /\ v.mapping[v.columns[f]].field = f
    /\ \A c \in 1 .. w : v.mapping[c].status = "matched" => v.mapping[c].field \in DOMAIN v.columns

\* A scope has its columns within the worksheet, each matched by its header.
LEMMA ScopeColumns ==
    ASSUME NEW rule, NEW sh, NEW n \in Nat, NEW w \in Nat, NEW C, Rectangle(sh.grid, n, w, C),
           NEW header \in 1 .. n, NEW v, v = Scope(rule, sh, header)
    PROVE  ScopeOn(v, rule, sh, header, n, w)
  <1>1. /\ v.rule = rule /\ v.sheet = sh /\ v.header = header
        /\ v.mapping = MapHeaders(rule, sh.grid[header]) /\ v.columns = Columns(v.mapping)
    BY DEF Scope
  <1>2. DOMAIN sh.grid = 1 .. n /\ Len(sh.grid) = n
    BY DEF Rectangle
  <1>3. DOMAIN sh.grid[header] = 1 .. w
    <2>1. sh.grid[header] \in Seq(C) /\ Len(sh.grid[header]) = w
      BY DEF Rectangle
    <2>. QED BY <2>1
  <1>4. DOMAIN v.mapping = 1 .. w
    BY <1>1, <1>3 DEF MapHeaders
  <1> DEFINE m == v.mapping
             matched == {c \in DOMAIN m : m[c].status = "matched"}
  <1>5. /\ DOMAIN v.columns = {m[c].field : c \in matched}
        /\ v.columns = [f \in DOMAIN v.columns |-> v.columns[f]]
        /\ \A f \in DOMAIN v.columns : v.columns[f] = CHOOSE c \in matched : m[c].field = f
    BY <1>1 DEF Columns
  <1>6. \A f \in DOMAIN v.columns : v.columns[f] \in matched /\ m[v.columns[f]].field = f
    <2> HIDE DEF matched
    <2>. QED BY <1>5
  <1>7. v.columns \in [DOMAIN v.columns -> 1 .. w]
    BY <1>4, <1>5, <1>6
  <1>. QED BY <1>1, <1>2, <1>4, <1>5, <1>6, <1>7 DEF ScopeOn

\* The insertions a scope plans are finitely many, within the worksheet, one per new field.
LEMMA ScopeInsertions ==
    ASSUME NEW rule, AllowedRule(rule), rule.columns \in Seq(Range(rule.columns)),
           NEW sh, NEW n \in Nat, NEW w \in Nat, NEW C, Rectangle(sh.grid, n, w, C),
           NEW header \in 1 .. n, NEW v, v = Scope(rule, sh, header)
    PROVE  /\ Plans(InsertPlans(v, v.columns), w) /\ NewFields(v, InsertPlans(v, v.columns), w)
           /\ \A p \in InsertPlans(v, v.columns) :
                 p.index \in DOMAIN rule.columns /\ PlanName(v, p) \in Inserted(v)
           /\ Inserted(v) \subseteq Names(v, InsertPlans(v, v.columns))
  <1> DEFINE plans == InsertPlans(v, v.columns)
             known(i) == {j \in 1 .. i - 1 : rule.columns[j].name \in DOMAIN v.columns}
             place(i) == IF known(i) = {} THEN 1 ELSE v.columns[rule.columns[Max(known(i))].name] + 1
             new == {j \in DOMAIN rule.columns : rule.columns[j].name \in Inserted(v)}
  <1>1. v.rule = rule /\ v.columns \in [DOMAIN v.columns -> 1 .. w]
    <2>1. ScopeOn(v, rule, sh, header, n, w)
      BY ScopeColumns
    <2>. QED BY <2>1 DEF ScopeOn
  <1>2. plans = {[before |-> place(i), index |-> i] : i \in new}
    BY <1>1 DEF InsertPlans
  <1>3. DOMAIN rule.columns = 1 .. Len(rule.columns) /\ Len(rule.columns) \in Nat
    OBVIOUS
  <1>4. ASSUME NEW i \in new PROVE place(i) \in 1 .. w + 1
    <2>1. CASE known(i) = {}
      BY <2>1
    <2>2. CASE known(i) # {}
      <3>1. known(i) \subseteq Int /\ IsFiniteSet(known(i))
        <4>1. i - 1 \in Int
          BY <1>3
        <4>2. IsFiniteSet(1 .. i - 1) /\ known(i) \in SUBSET (1 .. i - 1)
          BY <4>1, FS_Interval
        <4>. QED BY <4>2, FS_Subset
      <3>2. Max(known(i)) \in known(i)
        <4> HIDE DEF known
        <4>. QED BY <2>2, <3>1, MaxOfSet
      <3> DEFINE c == v.columns[rule.columns[Max(known(i))].name]
      <3>3. c \in 1 .. w
        BY <1>1, <3>2
      <3>4. place(i) = c + 1
        BY <2>2
      <3> HIDE DEF c, known, place
      <3>. QED BY <3>3, <3>4
    <2>. QED BY <2>1, <2>2
  <1> HIDE DEF place, plans
  <1>5. \A p \in plans : /\ p.index \in new /\ p.before = place(p.index)
                         /\ p = [before |-> place(p.index), index |-> p.index]
    BY <1>2
  <1>6. \A p, q \in plans : p.index = q.index => p = q
    BY <1>5
  <1>7. IsFiniteSet(plans)
    <2> DEFINE S == DOMAIN rule.columns
               g == [p \in plans |-> p.index]
    <2>1. g \in Injection(plans, S)
      BY <1>5, <1>6 DEF Injection, IsInjective
    <2>2. IsFiniteSet(S)
      <3>1. S = 1 .. Len(rule.columns) /\ 1 \in Int /\ Len(rule.columns) \in Int
        BY <1>3
      <3>. QED BY <3>1, FS_Interval
    <2> HIDE DEF g, S
    <2>. QED BY <2>1, <2>2, FS_Injection
  <1>8. Plans(plans, w)
    BY <1>3, <1>4, <1>5, <1>6, <1>7 DEF Plans
  <1>9. \A p \in plans : PlanName(v, p) \in Inserted(v)
    BY <1>1, <1>5 DEF PlanName
  <1>10. \A f \in Inserted(v) : f \notin DOMAIN v.columns
    BY DEF Inserted, MissingHeaders
  <1>11. \A p, q \in plans : PlanName(v, p) = PlanName(v, q) => p = q
    <2>1. ASSUME NEW p \in plans, NEW q \in plans, PlanName(v, p) = PlanName(v, q) PROVE p = q
      <3>1. p.index \in DOMAIN rule.columns /\ q.index \in DOMAIN rule.columns
        BY <1>5
      <3>2. p.index = q.index
        BY <1>1, <2>1, <3>1, FieldsAreDistinct DEF PlanName
      <3>. QED BY <1>6, <3>2
    <2>. QED BY <2>1
  <1>12. NewFields(v, plans, w)
    BY <1>1, <1>9, <1>10, <1>11 DEF NewFields
  <1>13. ASSUME NEW f \in Inserted(v) PROVE \E p \in plans : PlanName(v, p) = f
    <2>1. PICK g \in Range(rule.columns) : g.name = f
      BY <1>1 DEF Inserted, MissingHeaders
    <2>2. PICK i \in DOMAIN rule.columns : rule.columns[i] = g
      BY <2>1 DEF Range
    <2>3. i \in new
      BY <1>13, <2>1, <2>2
    <2> DEFINE p == [before |-> place(i), index |-> i]
    <2>4. p \in plans /\ p.index = i
      BY <1>2, <2>3
    <2>5. PlanName(v, p) = f
      BY <1>1, <2>1, <2>2, <2>4 DEF PlanName
    <2>. QED BY <2>4, <2>5
  <1>14. \A p \in plans : p.index \in DOMAIN rule.columns
    BY <1>5
  <1>15. Inserted(v) \subseteq Names(v, plans)
    BY <1>13 DEF Names
  <1>. QED BY <1>8, <1>9, <1>12, <1>14, <1>15 DEF plans

\* Rows of data are rows of the worksheet.
LEMMA DataRowsAreRows ==
    ASSUME NEW rule, rule.startRow \in Nat, NEW sh, NEW n \in Nat, NEW w \in Nat, NEW C,
           Rectangle(sh.grid, n, w, C), NEW header \in 1 .. n, NEW v, v = Scope(rule, sh, header)
    PROVE  DataRows(v) \subseteq 1 .. n /\ ExcelRecords(v) \subseteq DataRows(v)
  <1>1. v.start \in Nat /\ v.start >= 1
    BY DEF Scope
  <1>2. Len(v.sheet.grid) = n
    <2>1. ScopeOn(v, rule, sh, header, n, w)
      BY ScopeColumns
    <2>. QED BY <2>1 DEF ScopeOn
  <1>. QED BY <1>1, <1>2 DEF DataRows, ExcelRecords, KeyedRows

-----------------------------------------------------------------------------
(* Cells written.                                                          *)

\* The cell an operation writes.
CellAt(o, r, c) == o.row = r /\ o.column = c

\* h is the grid of n rows with what is written, m rows of w cells.
Overwrites(grid, writes, n, w, m, h) ==
    /\ m \in Nat /\ m >= n /\ DOMAIN h = 1 .. m
    /\ \A o \in writes : o.row <= m
    /\ m = n \/ \E o \in writes : o.row = m
    /\ \A r \in 1 .. m : \A c \in 1 .. w :
          /\ (\A o \in writes : ~CellAt(o, r, c)) => h[r][c] = IF r <= n THEN grid[r][c] ELSE None
          /\ (\E o \in writes : CellAt(o, r, c)) => \E o \in writes : CellAt(o, r, c) /\ h[r][c] = o.value

\* The cells a sheet can hold once it is written.
Held(C, writes) == C \cup {None} \cup {o.value : o \in writes}

\* WriteCells writes what it is told, adds rows up to the last it is told and changes no more.
LEMMA CellsWritten ==
    ASSUME NEW n \in Nat, n # 0, NEW w \in Nat, NEW C, NEW grid, Rectangle(grid, n, w, C),
           NEW writes, NEW N \in Nat, \A o \in writes : o.row \in 1 .. N
    PROVE  \E m : /\ Overwrites(grid, writes, n, w, m, WriteCells(grid, writes))
                  /\ Rectangle(WriteCells(grid, writes), m, w, Held(C, writes))
  <1> DEFINE S == {Len(grid)} \cup {o.row : o \in writes}
             m == Max(S)
             at(r, c) == {o \in writes : o.row = r /\ o.column = c}
             old(r, c) == IF r \in DOMAIN grid THEN grid[r][c] ELSE None
             value(r, c) == IF at(r, c) = {} THEN old(r, c) ELSE (CHOOSE o \in at(r, c) : TRUE).value
             h == WriteCells(grid, writes)
  <1>1. Len(grid) = n /\ DOMAIN grid = 1 .. n /\ DOMAIN grid[1] = 1 .. w
    <2>1. grid \in Seq(Seq(C)) /\ Len(grid) = n /\ DOMAIN grid = 1 .. n
      BY DEF Rectangle
    <2>2. grid[1] \in Seq(C) /\ Len(grid[1]) = w
      BY DEF Rectangle
    <2>. QED BY <2>1, <2>2
  <1>2. h = [r \in 1 .. m |-> [c \in 1 .. w |-> value(r, c)]]
    BY <1>1 DEF WriteCells
  <1>3. S \subseteq Int /\ IsFiniteSet(S) /\ S # {}
    <2>1. S \subseteq 1 .. n + N /\ S # {}
      BY <1>1
    <2>2. IsFiniteSet(1 .. n + N)
      BY FS_Interval
    <2> HIDE DEF S
    <2>3. IsFiniteSet(S)
      BY <2>1, <2>2, FS_Subset
    <2>. QED BY <2>1, <2>3
  <1>4. m \in S /\ \A x \in S : x <= m
    <2> HIDE DEF S
    <2>. QED BY <1>3, MaxOfSet
  <1> HIDE DEF m, h
  <1>5. m \in Nat /\ m >= n /\ (\A o \in writes : o.row <= m) /\ (m = n \/ \E o \in writes : o.row = m)
    BY <1>1, <1>4
  <1>6. DOMAIN h = 1 .. m /\ \A r \in 1 .. m : /\ h[r] = [c \in 1 .. w |-> value(r, c)]
    <2> HIDE DEF value
    <2>. QED BY <1>2
  <1>7. ASSUME NEW r \in 1 .. m, NEW c \in 1 .. w
        PROVE  /\ (\A o \in writes : ~CellAt(o, r, c)) => h[r][c] = IF r <= n THEN grid[r][c] ELSE None
               /\ (\E o \in writes : CellAt(o, r, c)) => \E o \in writes : CellAt(o, r, c) /\ h[r][c] = o.value
               /\ h[r][c] \in Held(C, writes)
    <2>1. h[r][c] = value(r, c)
      <3> HIDE DEF value
      <3>. QED BY <1>6
    <2>2. at(r, c) = {o \in writes : CellAt(o, r, c)}
      BY DEF CellAt
    <2>3. old(r, c) = IF r <= n THEN grid[r][c] ELSE None
      BY <1>1, <1>5
    <2>4. CASE at(r, c) = {}
      <3>1. h[r][c] = old(r, c) /\ \A o \in writes : ~CellAt(o, r, c)
        BY <2>1, <2>2, <2>4
      <3>2. old(r, c) \in C \cup {None}
        <4>1. CASE r \in DOMAIN grid
          <5>1. grid[r] \in Seq(C) /\ Len(grid[r]) = w
            BY <1>1, <4>1 DEF Rectangle
          <5>2. grid[r][c] \in C
            BY <5>1
          <5>. QED BY <4>1, <5>2
        <4>2. CASE r \notin DOMAIN grid
          BY <4>2
        <4>. QED BY <4>1, <4>2
      <3> HIDE DEF at, old
      <3>. QED BY <2>3, <3>1, <3>2 DEF Held
    <2>5. CASE at(r, c) # {}
      <3>1. h[r][c] = (CHOOSE o \in at(r, c) : TRUE).value
        BY <2>1, <2>5
      <3>2. (CHOOSE o \in at(r, c) : TRUE) \in at(r, c)
        <4> HIDE DEF at
        <4>. QED BY <2>5
      <3>3. \E o \in at(r, c) : h[r][c] = o.value
        <4> HIDE DEF at
        <4>. QED BY <3>1, <3>2
      <3> HIDE DEF at
      <3>4. PICK o \in writes : CellAt(o, r, c) /\ h[r][c] = o.value
        BY <2>2, <3>3
      <3>5. h[r][c] \in Held(C, writes)
        BY <3>4 DEF Held
      <3>. QED BY <3>4, <3>5
    <2>. QED BY <2>4, <2>5
  <1>8. Overwrites(grid, writes, n, w, m, h)
    BY <1>5, <1>6, <1>7 DEF Overwrites
  <1>9. Rectangle(h, m, w, Held(C, writes))
    <2> DEFINE D == Held(C, writes)
    <2> HIDE DEF D, value
    <2>1. \A r \in 1 .. m : h[r] = [c \in 1 .. w |-> value(r, c)] /\ \A c \in 1 .. w : h[r][c] \in D
      BY <1>6, <1>7 DEF D
    <2>2. \A r \in 1 .. m : h[r] \in [1 .. w -> D]
      BY <2>1
    <2>3. \A r \in 1 .. m : h[r] \in Seq(D) /\ Len(h[r]) = w
      BY <2>2
    <2>4. h = [r \in 1 .. m |-> h[r]]
      BY <1>2
    <2>5. h \in [1 .. m -> Seq(D)]
      BY <2>3, <2>4
    <2>. QED BY <2>3, <2>5 DEF Rectangle, D
  <1>. QED BY <1>8, <1>9 DEF h

-----------------------------------------------------------------------------
(* Rows of the records appended.                                           *)

\* The row of each missing record: after those that were appended before its turn.
Appended(v, std, polars, missing, row, i) ==
    {j \in missing : Place(v, std, polars, missing, j) < Place(v, std, polars, missing, i) /\ Appendable(v, std, j, row[j])}
TakesRows(v, std, polars, missing, row) ==
    row = [i \in missing |-> Len(v.sheet.grid) + 1 + Cardinality(Appended(v, std, polars, missing, row, i))]

\* The place of a missing record among the others.
LEMMA PlaceIsNumber ==
    ASSUME NEW v, NEW std, NEW polars, NEW missing, IsFiniteSet(missing), NEW i
    PROVE  Place(v, std, polars, missing, i) \in 0 .. Cardinality(missing)
  <1> DEFINE order(j) == KeyOrder(StandardKey(v.rule, std, j), polars)
             S == {j \in missing : order(j) < order(i) \/ (order(j) = order(i) /\ j < i)}
  <1>1. S \in SUBSET missing
    OBVIOUS
  <1>2. Place(v, std, polars, missing, i) = Cardinality(S)
    BY DEF Place
  <1> HIDE DEF S
  <1>3. IsFiniteSet(S) /\ Cardinality(S) <= Cardinality(missing) /\ Cardinality(S) \in Nat /\ Cardinality(missing) \in Nat
    BY <1>1, FS_Subset, FS_CardinalityType
  <1>. QED BY <1>2, <1>3

\* The recursive function AppendRow satisfies its equation: places are numbers, and a row
\* depends on those of earlier places only.
LEMMA RowsAreTaken ==
    ASSUME NEW v, NEW std, NEW polars, NEW missing, IsFiniteSet(missing)
    PROVE  TakesRows(v, std, polars, missing, AppendRow(v, std, polars, missing))
  <1> DEFINE place == [i \in missing |-> Place(v, std, polars, missing, i)]
             Body(g, i) == Len(v.sheet.grid) + 1 + Cardinality({j \in missing : place[j] < place[i] /\ Appendable(v, std, j, g[j])})
             N == {n \in Nat : \E g : g = [i \in missing |-> IF place[i] >= n THEN 0 ELSE Body(g, i)]}
  <1>1. \A i \in missing : place[i] \in 0 .. Cardinality(missing)
    BY PlaceIsNumber
  <1>2. Cardinality(missing) \in Nat
    BY FS_CardinalityType
  <1>3. \A g, i : i \in missing => Body(g, i) = Len(v.sheet.grid) + 1 + Cardinality(Appended(v, std, polars, missing, g, i))
    <2> SUFFICES ASSUME NEW g, NEW i \in missing
                 PROVE  Body(g, i) = Len(v.sheet.grid) + 1 + Cardinality(Appended(v, std, polars, missing, g, i))
      OBVIOUS
    <2>1. \A j \in missing : place[j] = Place(v, std, polars, missing, j)
      OBVIOUS
    <2>2. {j \in missing : place[j] < place[i] /\ Appendable(v, std, j, g[j])} = Appended(v, std, polars, missing, g, i)
      BY <2>1 DEF Appended
    <2>. QED BY <2>2
  <1> HIDE DEF place
  <1>4. 0 \in N
    <2> DEFINE g == [i \in missing |-> 0]
    <2>1. g = [i \in missing |-> IF place[i] >= 0 THEN 0 ELSE Body(g, i)]
      BY <1>1
    <2>. QED BY <2>1
  <1>5. ASSUME NEW n \in Nat, n \in N PROVE n + 1 \in N
    <2>1. PICK g : g = [i \in missing |-> IF place[i] >= n THEN 0 ELSE Body(g, i)]
      BY <1>5
    <2> DEFINE h == [i \in missing |-> IF place[i] >= n + 1 THEN 0 ELSE Body(g, i)]
    <2>2. ASSUME NEW j \in missing, place[j] < n PROVE h[j] = g[j]
      <3>1. ~(place[j] >= n) /\ ~(place[j] >= n + 1)
        BY <1>1, <2>2
      <3> HIDE DEF Body
      <3>. QED BY <2>1, <3>1
    <2>3. ASSUME NEW i \in missing, ~(place[i] >= n + 1) PROVE Body(g, i) = Body(h, i)
      <3>1. \A j \in missing : place[j] < place[i] => h[j] = g[j]
        <4> HIDE DEF h
        <4>. QED BY <1>1, <2>2, <2>3
      <3> HIDE DEF h
      <3>2. {j \in missing : place[j] < place[i] /\ Appendable(v, std, j, g[j])}
              = {j \in missing : place[j] < place[i] /\ Appendable(v, std, j, h[j])}
        BY <3>1
      <3>. QED BY <3>2
    <2>4. \A i \in missing : h[i] = IF place[i] >= n + 1 THEN 0 ELSE Body(h, i)
      <3> SUFFICES ASSUME NEW i \in missing PROVE h[i] = IF place[i] >= n + 1 THEN 0 ELSE Body(h, i)
        OBVIOUS
      <3>1. h[i] = IF place[i] >= n + 1 THEN 0 ELSE Body(g, i)
        <4> HIDE DEF Body
        <4>. QED OBVIOUS
      <3> HIDE DEF h, Body
      <3>. QED BY <2>3, <3>1
    <2>5. DOMAIN h = missing /\ h = [i \in DOMAIN h |-> h[i]]
      OBVIOUS
    <2>6. h = [i \in missing |-> IF place[i] >= n + 1 THEN 0 ELSE Body(h, i)]
      <3> HIDE DEF h, Body
      <3>. QED BY <2>4, <2>5
    <2> HIDE DEF h, Body
    <2>. QED BY <2>6
  <1>6. Cardinality(missing) + 1 \in N
    <2> HIDE DEF N
    <2>1. Nat \subseteq N
      BY <1>4, <1>5, NumbersByOne
    <2>. QED BY <1>2, <2>1
  <1>7. PICK g : g = [i \in missing |-> IF place[i] >= Cardinality(missing) + 1 THEN 0 ELSE Body(g, i)]
    BY <1>6
  <1>8. \A i \in missing : ~(place[i] >= Cardinality(missing) + 1)
    BY <1>1, <1>2
  <1>9. TakesRows(v, std, polars, missing, g)
    <2>1. \A i \in missing : Body(g, i) = Len(v.sheet.grid) + 1 + Cardinality(Appended(v, std, polars, missing, g, i))
      BY <1>3
    <2> HIDE DEF Body
    <2>2. g = [i \in missing |-> Body(g, i)]
      BY <1>7, <1>8
    <2>. QED BY <2>1, <2>2 DEF TakesRows
  <1>10. AppendRow(v, std, polars, missing) = CHOOSE row : TakesRows(v, std, polars, missing, row)
    BY DEF AppendRow, TakesRows, Appended
  <1>. QED BY <1>9, <1>10

\* A missing record is appended below the sheet, and no other in the same row.
LEMMA AppendedBelow ==
    ASSUME NEW v, Len(v.sheet.grid) \in Nat, NEW std, NEW polars, NEW missing, IsFiniteSet(missing),
           NEW row, TakesRows(v, std, polars, missing, row), NEW i \in missing
    PROVE  row[i] \in Len(v.sheet.grid) + 1 .. Len(v.sheet.grid) + Cardinality(missing)
  <1> DEFINE A == Appended(v, std, polars, missing, row, i)
  <1>1. A \in SUBSET (missing \ {i})
    <2>1. Place(v, std, polars, missing, i) \in Int
      BY PlaceIsNumber
    <2>2. ~(Place(v, std, polars, missing, i) < Place(v, std, polars, missing, i))
      BY <2>1
    <2>. QED BY <2>2 DEF Appended
  <1>2. row[i] = Len(v.sheet.grid) + 1 + Cardinality(A)
    BY DEF TakesRows
  <1> HIDE DEF A
  <1>3. IsFiniteSet(missing \ {i}) /\ Cardinality(missing \ {i}) = Cardinality(missing) - 1 /\ Cardinality(missing) \in Nat
    BY FS_RemoveElement, FS_CardinalityType
  <1>4. Cardinality(A) \in Nat /\ Cardinality(A) <= Cardinality(missing) - 1
    BY <1>1, <1>3, FS_Subset, FS_CardinalityType
  <1> DEFINE l == Len(v.sheet.grid)
             m == Cardinality(missing)
             a == Cardinality(A)
  <1>5. row[i] = l + 1 + a /\ l \in Nat /\ m \in Nat /\ a \in Nat /\ a <= m - 1
    BY <1>2, <1>3, <1>4
  <1> HIDE DEF l, m, a
  <1>6. row[i] \in l + 1 .. l + m
    BY <1>5
  <1>. QED BY <1>6 DEF l, m

\* No two records are appended to one row.
LEMMA RowsAreApart ==
    ASSUME NEW v, Len(v.sheet.grid) \in Nat, NEW std, NEW polars, NEW missing, IsFiniteSet(missing), missing \subseteq Int,
           \A j \in missing : KeyOrder(StandardKey(v.rule, std, j), polars) \in Int,
           NEW row, TakesRows(v, std, polars, missing, row), NEW i \in missing, NEW j \in missing, i # j,
           Appendable(v, std, i, row[i]), Appendable(v, std, j, row[j])
    PROVE  row[i] # row[j]
  <1> DEFINE order(k) == KeyOrder(StandardKey(v.rule, std, k), polars)
             ahead(a, b) == order(a) < order(b) \/ (order(a) = order(b) /\ a < b)
             place(k) == Place(v, std, polars, missing, k)
  <1>1. ASSUME NEW a \in missing, NEW b \in missing, ahead(a, b),
               Appendable(v, std, a, row[a]), Appendable(v, std, b, row[b])
        PROVE  row[a] < row[b]
    <2> DEFINE A == {k \in missing : ahead(k, a)}
               B == {k \in missing : ahead(k, b)}
    <2>1. place(a) = Cardinality(A) /\ place(b) = Cardinality(B)
      BY DEF Place
    <2>2. A \in SUBSET B /\ a \in B /\ a \notin A /\ B \in SUBSET missing
      <3>1. order(a) \in Int /\ order(b) \in Int /\ \A k \in missing : order(k) \in Int
        OBVIOUS
      <3>2. \A k \in missing : ahead(k, a) => ahead(k, b)
        <4> HIDE DEF order
        <4>. QED BY <1>1, <3>1
      <3>3. ~ahead(a, a)
        <4> HIDE DEF order
        <4>. QED BY <3>1
      <3> HIDE DEF ahead
      <3>. QED BY <1>1, <3>2, <3>3
    <2>3. place(a) < place(b)
      <3> HIDE DEF A, B, ahead, place
      <3>1. IsFiniteSet(B) /\ IsFiniteSet(A)
        BY <2>2, FS_Subset
      <3>2. A \in SUBSET (B \ {a}) /\ Cardinality(B \ {a}) = Cardinality(B) - 1 /\ IsFiniteSet(B \ {a})
        BY <2>2, <3>1, FS_RemoveElement
      <3>3. Cardinality(A) <= Cardinality(B \ {a}) /\ Cardinality(A) \in Nat /\ Cardinality(B) \in Nat
        BY <3>1, <3>2, FS_Subset, FS_CardinalityType
      <3>. QED BY <2>1, <3>2, <3>3
    <2> DEFINE X == Appended(v, std, polars, missing, row, a)
               Y == Appended(v, std, polars, missing, row, b)
    <2>4. X \in SUBSET Y /\ a \in Y /\ a \notin X /\ Y \in SUBSET missing
      <3>1. \A k \in missing : place(k) \in Int
        BY PlaceIsNumber
      <3>2. X = {k \in missing : place(k) < place(a) /\ Appendable(v, std, k, row[k])}
        BY DEF Appended, place
      <3>3. Y = {k \in missing : place(k) < place(b) /\ Appendable(v, std, k, row[k])}
        BY DEF Appended, place
      <3> HIDE DEF X, Y, place, ahead
      <3>4. \A k \in missing : place(k) < place(a) => place(k) < place(b)
        BY <2>3, <3>1
      <3>5. ~(place(a) < place(a))
        BY <3>1
      <3>. QED BY <1>1, <2>3, <3>2, <3>3, <3>4, <3>5
    <2>5. row[a] = Len(v.sheet.grid) + 1 + Cardinality(X) /\ row[b] = Len(v.sheet.grid) + 1 + Cardinality(Y)
      BY DEF TakesRows
    <2> HIDE DEF X, Y
    <2>6. Cardinality(X) < Cardinality(Y) /\ Cardinality(X) \in Nat /\ Cardinality(Y) \in Nat
      <3>1. IsFiniteSet(X) /\ IsFiniteSet(Y)
        BY <2>4, FS_Subset
      <3>2. X \in SUBSET (Y \ {a}) /\ Cardinality(Y \ {a}) = Cardinality(Y) - 1 /\ IsFiniteSet(Y \ {a})
        BY <2>4, <3>1, FS_RemoveElement
      <3>3. Cardinality(X) <= Cardinality(Y \ {a}) /\ Cardinality(X) \in Nat /\ Cardinality(Y) \in Nat
        BY <3>1, <3>2, FS_Subset, FS_CardinalityType
      <3>. QED BY <3>2, <3>3
    <2> DEFINE l == Len(v.sheet.grid)
               p == Cardinality(X)
               q == Cardinality(Y)
    <2>7. row[a] = l + 1 + p /\ row[b] = l + 1 + q /\ p < q /\ l \in Nat /\ p \in Nat /\ q \in Nat
      BY <2>5, <2>6
    <2> HIDE DEF l, p, q
    <2>. QED BY <2>7
  <1>2. ahead(i, j) \/ ahead(j, i)
    OBVIOUS
  <1>3. \A k \in missing : row[k] \in Int
    BY AppendedBelow
  <1> HIDE DEF ahead
  <1>4. row[i] < row[j] \/ row[j] < row[i]
    BY <1>1, <1>2
  <1>. QED BY <1>3, <1>4

\* Missing records are standard records.
LEMMA MissingAreRecords ==
    ASSUME NEW v, NEW S, NEW std \in Seq(S), NEW mode
    PROVE  /\ Missing(v, std, mode) \subseteq 1 .. Len(std) /\ IsFiniteSet(Missing(v, std, mode))
           /\ Cardinality(Missing(v, std, mode)) <= Len(std)
  <1>1. Missing(v, std, mode) \subseteq DOMAIN std
    BY DEF Missing, JoinKeys, StandardRecords
  <1>2. DOMAIN std = 1 .. Len(std) /\ Len(std) \in Nat
    OBVIOUS
  <1>3. IsFiniteSet(1 .. Len(std)) /\ Cardinality(1 .. Len(std)) = Len(std)
    BY <1>2, FS_Interval
  <1>4. Missing(v, std, mode) \in SUBSET (1 .. Len(std))
    BY <1>1, <1>2
  <1>. QED BY <1>3, <1>4, FS_Subset

-----------------------------------------------------------------------------
(* The phases of a manifest.                                               *)

\* What the manifest writes before the insertions, after them and last.
CellWrites(v, finding) == {SetCell(o.row, o.column, CellValue(v, o)) : o \in Repairs(finding, "set_cell")}
FieldWrites(finding, columns) ==
    {SetCell(o.row, columns[o.field], Stored(o.value)) : o \in Repairs(finding, "set_field")}
RowWrites(v, finding, columns) ==
    UNION {RecordCells(AppendValues(v, o), columns) : o \in Repairs(finding, "append_record")}

\* Repairs of the rows that are there, and records below them.
Placed(finding, n, N) ==
    /\ \A o \in Repairs(finding, "set_cell") \cup Repairs(finding, "set_field") : o.row \in 1 .. n
    /\ \A o \in Repairs(finding, "append_record") : o.row \in n + 1 .. N

\* The grids between the phases of a manifest.
Phases(v, finding, n, w, m, D, g1, g2, g3, out) ==
    LET plans == InsertPlans(v, v.columns)
        W     == w + Cardinality(plans)
    IN  /\ Overwrites(v.sheet.grid, CellWrites(v, finding), n, w, n, g1)
        /\ Widened(v, plans, g1, n, w, D, g2)
        /\ Overwrites(g2, FieldWrites(finding, FinalColumns(v)), n, W, n, g3)
        /\ Overwrites(g3, RowWrites(v, finding, FinalColumns(v)), n, W, m, out)
        /\ Rectangle(out, m, W, D)

\* Writing to rows that are there adds none.
LEMMA SameRows ==
    ASSUME NEW n \in Nat, n # 0, NEW w \in Nat, NEW C, NEW grid, Rectangle(grid, n, w, C),
           NEW writes, \A o \in writes : o.row \in 1 .. n
    PROVE  /\ Overwrites(grid, writes, n, w, n, WriteCells(grid, writes))
           /\ Rectangle(WriteCells(grid, writes), n, w, Held(C, writes))
  <1>1. PICK m : /\ Overwrites(grid, writes, n, w, m, WriteCells(grid, writes))
                 /\ Rectangle(WriteCells(grid, writes), m, w, Held(C, writes))
    BY CellsWritten
  <1>2. m = n
    BY <1>1 DEF Overwrites
  <1>. QED BY <1>1, <1>2

\* A rectangle of some cells is one of more.
LEMMA RectangleWithin ==
    ASSUME NEW n \in Nat, NEW w \in Nat, NEW C, NEW D, C \subseteq D, NEW grid, Rectangle(grid, n, w, C)
    PROVE  Rectangle(grid, n, w, D)
  <1>1. grid = [r \in 1 .. n |-> grid[r]] /\ \A r \in 1 .. n : grid[r] \in Seq(C) /\ Len(grid[r]) = w
    BY DEF Rectangle
  <1>2. \A r \in 1 .. n : grid[r] \in Seq(D)
    <2>1. ASSUME NEW r \in 1 .. n PROVE grid[r] \in Seq(D)
      <3>1. grid[r] \in [1 .. w -> C]
        BY <1>1
      <3>2. grid[r] \in [1 .. w -> D]
        BY <3>1
      <3>. QED BY <3>2
    <2>. QED BY <2>1
  <1>3. grid \in [1 .. n -> Seq(D)]
    BY <1>1, <1>2
  <1>. QED BY <1>1, <1>3 DEF Rectangle

\* A manifest that does not fail writes the cells, inserts the columns, writes the fields and
\* then the records, in this order.
LEMMA ManifestPhases ==
    ASSUME NEW rule, AllowedRule(rule), rule.columns \in Seq(Range(rule.columns)),
           NEW sh, NEW n \in Nat, NEW w \in Nat, NEW C, Rectangle(sh.grid, n, w, C),
           NEW header \in 1 .. n, NEW v, v = Scope(rule, sh, header),
           NEW finding1, NEW N \in Nat, Placed(finding1, n, N), RenderManifest(v, finding1).ok
    PROVE  \E m, D, g1, g2, g3 : Phases(v, finding1, n, w, m, D, g1, g2, g3, RenderManifest(v, finding1).grid)
  <1> DEFINE plans   == InsertPlans(v, v.columns)
             W       == w + Cardinality(plans)
             columns == FinalColumns(v)
             cells   == CellWrites(v, finding1)
             fields  == FieldWrites(finding1, columns)
             rows    == RowWrites(v, finding1, columns)
             g1      == WriteCells(sh.grid, cells)
             g2      == InsertColumns(v, g1, plans)
             g3      == WriteCells(g2, fields)
             out     == WriteCells(g3, rows)
             values  == {InsertedValue(v, p, r) : p \in plans, r \in 1 .. n}
             C1      == Held(C, cells)
             C2      == C1 \cup values
             C3      == Held(C2, fields)
             D       == Held(C3, rows)
  <1>1. ScopeOn(v, rule, sh, header, n, w)
    BY ScopeColumns
  <1>2. Plans(plans, w) /\ NewFields(v, plans, w)
    BY ScopeInsertions
  <1>3. n # 0 /\ v.sheet = sh
    BY <1>1 DEF ScopeOn
  <1>4. RenderManifest(v, finding1).grid = out
    BY <1>3 DEF RenderManifest, RenderFailed, Written, CellWrites, FieldWrites, RowWrites
  <1>5. W \in Nat
    BY <1>2, FS_CardinalityType DEF Plans
  <1>6. \A o \in cells : o.row \in 1 .. n
    BY DEF Placed, CellWrites, SetCell
  <1>7. \A o \in fields : o.row \in 1 .. n
    BY DEF Placed, FieldWrites, SetCell
  <1>8. \A o \in rows : o.row \in 1 .. N
    <2>1. \A o \in Repairs(finding1, "append_record") : o.row \in 1 .. N
      BY DEF Placed
    <2>2. \A o : \A x \in RecordCells(AppendValues(v, o), columns) : x.row = o.row
      <3>1. \A o : AppendValues(v, o).row = o.row
        BY DEF AppendValues, AppendRecord
      <3>2. \A o : \A x \in RecordCells(o, columns) : x.row = o.row
        BY DEF RecordCells, SetCell
      <3>. QED BY <3>1, <3>2
    <2>. QED BY <2>1, <2>2 DEF RowWrites
  <1> HIDE DEF plans, W, cells, fields, rows, columns, g1, g2, g3, out
  <1>9. Overwrites(sh.grid, cells, n, w, n, g1) /\ Rectangle(g1, n, w, C1)
    <2> HIDE DEF C1
    <2>1. /\ Overwrites(sh.grid, cells, n, w, n, WriteCells(sh.grid, cells))
          /\ Rectangle(WriteCells(sh.grid, cells), n, w, Held(C, cells))
      BY <1>3, <1>6, SameRows
    <2>. QED BY <2>1 DEF g1, C1
  <1>10. Widened(v, plans, g1, n, w, C2, g2)
    <2>1. Rectangle(g1, n, w, C2)
      BY <1>9, RectangleWithin
    <2>2. \A p \in plans : \A r \in 1 .. n : InsertedValue(v, p, r) \in C2
      OBVIOUS
    <2> HIDE DEF C2
    <2>3. Widened(v, plans, g1, n, w, C2, InsertColumns(v, g1, plans))
      BY <1>2, <2>1, <2>2, ColumnsInserted DEF Rectangle
    <2>. QED BY <2>3 DEF g2
  <1>11. Rectangle(g2, n, W, C2)
    <2> HIDE DEF C2
    <2>. QED BY <1>10 DEF Widened, Grids, Rectangle, W
  <1>12. Overwrites(g2, fields, n, W, n, g3) /\ Rectangle(g3, n, W, C3)
    <2> HIDE DEF C2, C3
    <2>1. /\ Overwrites(g2, fields, n, W, n, WriteCells(g2, fields))
          /\ Rectangle(WriteCells(g2, fields), n, W, Held(C2, fields))
      BY <1>3, <1>5, <1>7, <1>11, SameRows
    <2>. QED BY <2>1 DEF g3, C3
  <1>13. PICK m : Overwrites(g3, rows, n, W, m, out) /\ Rectangle(out, m, W, D)
    <2> HIDE DEF C3, D
    <2>1. \E m : /\ Overwrites(g3, rows, n, W, m, WriteCells(g3, rows))
                 /\ Rectangle(WriteCells(g3, rows), m, W, Held(C3, rows))
      BY <1>3, <1>5, <1>8, <1>12, CellsWritten
    <2>. QED BY <2>1 DEF out, D
  <1>14. C2 \subseteq D
    BY DEF Held
  <1>15. Widened(v, plans, g1, n, w, D, g2)
    <2> HIDE DEF C2, D
    <2>1. Rectangle(g2, n, W, D)
      BY <1>5, <1>11, <1>14, RectangleWithin
    <2>2. g2 \in Grids(n, w, D)
      <3>1. Cardinality(plans) \in Nat
        BY <1>2, FS_CardinalityType DEF Plans
      <3>. QED BY <2>1, <3>1 DEF Rectangle, Grids, W
    <2>. QED BY <1>10, <2>2 DEF Widened
  <1>16. Phases(v, finding1, n, w, m, D, g1, g2, g3, out)
    <2> HIDE DEF D
    <2>. QED BY <1>3, <1>9, <1>12, <1>13, <1>15 DEF Phases, plans, W, columns, cells, fields, rows
  <1>. QED BY <1>4, <1>16

\* The rows of a plan of repairs.
RowsOfRepairs(repairs, n, N) ==
    \A o \in repairs :
        IF o.type = "append_record" THEN o.row \in n + 1 .. N
        ELSE o.type \in {"set_cell", "set_field", "set_number_format"} /\ o.row \in 1 .. n

LEMMA PlacedIfRows ==
    ASSUME NEW finding1, NEW n, NEW N, RowsOfRepairs(finding1.repairs, n, N)
    PROVE  Placed(finding1, n, N)
  BY DEF RowsOfRepairs, Placed, Repairs

\* What a manifest leaves is a rectangle again.
LEMMA RenderedIsRectangle ==
    ASSUME NEW rule, AllowedRule(rule), rule.columns \in Seq(Range(rule.columns)),
           NEW sh, NEW n \in Nat, NEW w \in Nat, NEW C, Rectangle(sh.grid, n, w, C),
           NEW header \in 1 .. n, NEW v, v = Scope(rule, sh, header),
           NEW plan, NEW N \in Nat, Placed(plan, n, N), RenderManifest(v, plan).ok
    PROVE  \E m \in Nat, W \in Nat : \E D : Rectangle(RenderManifest(v, plan).grid, m, W, D)
  <1> DEFINE out == RenderManifest(v, plan).grid
             W == w + Cardinality(InsertPlans(v, v.columns))
  <1>1. \E m, D, g1, g2, g3 : Phases(v, plan, n, w, m, D, g1, g2, g3, out)
    BY ManifestPhases
  <1>2. W \in Nat
    <2>1. Plans(InsertPlans(v, v.columns), w)
      BY ScopeInsertions
    <2>. QED BY <2>1, FS_CardinalityType DEF Plans
  <1> HIDE DEF out
  <1>3. PICK m, D, g1, g2, g3 : Phases(v, plan, n, w, m, D, g1, g2, g3, out)
    BY <1>1
  <1>4. Rectangle(out, m, W, D) /\ m \in Nat
    BY <1>3 DEF Phases, Overwrites
  <1> HIDE DEF W
  <1>. QED BY <1>2, <1>4 DEF out

-----------------------------------------------------------------------------
(* Where every column ends up.                                             *)

\* Every column of the sheet or of an insertion ends up in a column of its own, and every
\* column is one of them.
Layout(T, w, W) ==
    /\ \A c \in 1 .. w : c + Upto(T, c) \in 1 .. W
    /\ \A c, d \in 1 .. w : c + Upto(T, c) = d + Upto(T, d) => c = d
    /\ \A p \in T : Spot(T, p) \in 1 .. W
    /\ \A p, q \in T : Spot(T, p) = Spot(T, q) => p = q
    /\ \A c \in 1 .. w : \A p \in T : c + Upto(T, c) # Spot(T, p)
    /\ \A d \in 1 .. W : (\E c \in 1 .. w : d = c + Upto(T, c)) \/ (\E p \in T : d = Spot(T, p))

\* One more insertion shifts a layout by one from its place on.
LEMMA LayoutByOne ==
    ASSUME NEW w \in Nat, NEW U, NEW x, x \notin U, x.before \in 1 .. w + 1, NEW T, T = U \cup {x},
           CountsMore(w, x, U, T), NEW V \in Nat, V >= w, Layout(U, w, V)
    PROVE  Layout(T, w, V + 1)
  <1> DEFINE b == x.before
             old(c) == c + Upto(U, c)
             new(c) == c + Upto(T, c)
  <1> HIDE DEF b, old, new
  <1>1. \A c \in 1 .. w : /\ old(c) \in Int /\ new(c) \in Int
                          /\ c >= b => new(c) = old(c) + 1 /\ new(c) > b
                          /\ c < b => new(c) = c /\ old(c) = c
    <2>1. ASSUME NEW c \in 1 .. w
          PROVE  /\ Upto(T, c) \in Nat /\ Upto(U, c) \in Nat
                 /\ c >= b => Upto(T, c) = Upto(U, c) + 1
                 /\ c < b => Upto(T, c) = 0 /\ Upto(U, c) = 0
      BY <2>1 DEF CountsMore, b
    <2>2. b \in Int
      BY DEF b
    <2>. QED BY <2>1, <2>2 DEF old, new
  <1>2. Spot(T, x) = b /\ b \in 1 .. w + 1
    BY DEF CountsMore, b
  <1>3. \A p \in U : Spot(T, p) = Spot(U, p) + 1 /\ Spot(U, p) \in Int /\ Spot(T, p) > b
    <2>1. \A p \in U : Spot(T, p) = Spot(U, p) + 1 /\ Spot(U, p) \in Int /\ Spot(U, p) >= b
      BY DEF CountsMore, b
    <2>. QED BY <1>2, <2>1
  <1>4. /\ \A c \in 1 .. w : old(c) \in 1 .. V
        /\ \A c, d \in 1 .. w : old(c) = old(d) => c = d
        /\ \A p \in U : Spot(U, p) \in 1 .. V
        /\ \A p, q \in U : Spot(U, p) = Spot(U, q) => p = q
        /\ \A c \in 1 .. w : \A p \in U : old(c) # Spot(U, p)
        /\ \A d \in 1 .. V : (\E c \in 1 .. w : d = old(c)) \/ (\E p \in U : d = Spot(U, p))
    BY DEF Layout, old
  <1>5. \A c \in 1 .. w : new(c) \in 1 .. V + 1
    BY <1>1, <1>2, <1>4
  <1>6. ASSUME NEW c \in 1 .. w, NEW d \in 1 .. w, new(c) = new(d) PROVE c = d
    <2>1. CASE c >= b /\ d >= b
      <3>1. old(c) = old(d)
        BY <1>1, <1>6, <2>1
      <3>. QED BY <1>4, <3>1
    <2>2. CASE ~(c >= b /\ d >= b)
      BY <1>1, <1>2, <1>6, <2>2
    <2>. QED BY <2>1, <2>2
  <1>7. \A p \in T : Spot(T, p) \in 1 .. V + 1
    <2>1. ASSUME NEW p \in U PROVE Spot(T, p) \in 1 .. V + 1
      <3>1. Spot(T, p) = Spot(U, p) + 1 /\ Spot(U, p) \in 1 .. V
        BY <1>3, <1>4
      <3>. QED BY <3>1
    <2>2. Spot(T, x) \in 1 .. V + 1
      BY <1>2
    <2> HIDE DEF Layout
    <2>. QED BY <2>1, <2>2
  <1>8. \A p, q \in T : Spot(T, p) = Spot(T, q) => p = q
    <2>1. ASSUME NEW p \in U, NEW q \in U, Spot(T, p) = Spot(T, q) PROVE p = q
      <3>1. Spot(U, p) = Spot(U, q)
        BY <1>3, <2>1
      <3>. QED BY <1>4, <3>1
    <2>2. ASSUME NEW p \in U PROVE Spot(T, p) # Spot(T, x)
      BY <1>2, <1>3
    <2>. QED BY <2>1, <2>2
  <1>9. \A c \in 1 .. w : \A p \in T : new(c) # Spot(T, p)
    <2>1. ASSUME NEW c \in 1 .. w, NEW p \in U PROVE new(c) # Spot(T, p)
      <3>1. old(c) # Spot(U, p) /\ Spot(T, p) = Spot(U, p) + 1 /\ Spot(U, p) \in Int /\ Spot(T, p) > b
        BY <1>3, <1>4
      <3>. QED BY <1>1, <1>2, <3>1
    <2>2. ASSUME NEW c \in 1 .. w PROVE new(c) # Spot(T, x)
      BY <1>1, <1>2
    <2>. QED BY <2>1, <2>2
  <1>10. ASSUME NEW d \in 1 .. V + 1 PROVE (\E c \in 1 .. w : d = new(c)) \/ (\E p \in T : d = Spot(T, p))
    <2>1. CASE d < b
      <3>1. d \in 1 .. w /\ new(d) = d
        BY <1>1, <1>2, <2>1
      <3>. QED BY <3>1
    <2>2. CASE d = b
      BY <1>2, <2>2
    <2>3. CASE d > b
      <3>1. d - 1 \in 1 .. V /\ d - 1 >= b
        BY <1>2, <2>3
      <3>2. CASE \E c \in 1 .. w : d - 1 = old(c)
        <4>1. PICK c \in 1 .. w : d - 1 = old(c)
          BY <3>2
        <4>2. d = new(c)
          BY <1>1, <1>2, <3>1, <4>1
        <4>. QED BY <4>2
      <3>3. CASE \E p \in U : d - 1 = Spot(U, p)
        <4>1. PICK p \in U : d - 1 = Spot(U, p)
          BY <3>3
        <4>2. d = Spot(T, p) /\ p \in T
          BY <1>3, <4>1
        <4>. QED BY <4>2
      <3>. QED BY <1>4, <3>1, <3>2, <3>3
    <2>. QED BY <1>2, <2>1, <2>2, <2>3
  <1>. QED BY <1>5, <1>6, <1>7, <1>8, <1>9, <1>10 DEF Layout, new

\* Insertions leave every column one of its own.
LEMMA ColumnsLaidOut ==
    ASSUME NEW w \in Nat, NEW plans, Plans(plans, w)
    PROVE  Layout(plans, w, w + Cardinality(plans))
  <1> DEFINE P == {T \in SUBSET plans : Layout(T, w, w + Cardinality(T))}
  <1>1. IsFiniteSet(plans)
    BY DEF Plans
  <1>2. {} \in P
    <2>1. Cardinality({}) = 0 /\ \A c : Upto({}, c) = 0
      BY FS_EmptySet DEF Upto
    <2>. QED BY <2>1 DEF Layout
  <1>3. ASSUME NEW T \in SUBSET plans, T # {}, \A x \in T : T \ {x} \in P PROVE T \in P
    <2> DEFINE x == LastInserted(T)
               U == T \ {x}
               V == w + Cardinality(U)
    <2>1. x \in T
      BY <1>3, LeftmostExists
    <2>2. Layout(U, w, V)
      BY <1>3, <2>1
    <2>3. Cardinality(U) \in Nat /\ Cardinality(T) = Cardinality(U) + 1
      <3>1. IsFiniteSet(T) /\ IsFiniteSet(U)
        BY <1>1, FS_Subset
      <3>2. Cardinality(U) = Cardinality(T) - 1
        <4> HIDE DEF x
        <4>. QED BY <2>1, <3>1, FS_RemoveElement
      <3>3. Cardinality(U) \in Nat /\ Cardinality(T) \in Nat
        BY <3>1, FS_CardinalityType
      <3> HIDE DEF U
      <3>. QED BY <3>2, <3>3
    <2>4. CountsMore(w, x, U, T)
      BY <1>3, LeftmostCounts
    <2>5. x.before \in 1 .. w + 1 /\ T = U \cup {x} /\ x \notin U
      BY <2>1 DEF Plans
    <2> HIDE DEF x, U
    <2>6. V \in Nat /\ V >= w
      BY <2>3
    <2>7. Layout(T, w, V + 1)
      <3> HIDE DEF V
      <3>. QED BY <2>2, <2>4, <2>5, <2>6, LayoutByOne
    <2>8. V + 1 = w + Cardinality(T)
      BY <2>3
    <2>. QED BY <2>7, <2>8
  <1>4. SUBSET plans \subseteq P
    <2> HIDE DEF P
    <2>. QED BY <1>1, <1>2, <1>3, SubsetsByOne
  <1>. QED BY <1>4

\* The fields of the rule that have columns in the end have columns of their own.
Apart(v, w, K) ==
    /\ \A f \in DOMAIN v.columns : \A g \in DOMAIN K : K[f] = K[g] => f = g
    /\ \A g \in DOMAIN K \ DOMAIN v.columns : \A c \in 1 .. w : K[g] # ShiftedColumn(v, c)

\* A scope of n rows and w columns, with its insertions where they go.
LaidOut(v, rule, sh, header, n, w) ==
    LET plans == InsertPlans(v, v.columns)
    IN  /\ ScopeOn(v, rule, sh, header, n, w) /\ header \in 1 .. n
        /\ Plans(plans, w) /\ NewFields(v, plans, w)
        /\ Layout(plans, w, w + Cardinality(plans))
        /\ Moved(v, plans, FinalColumns(v)) /\ Apart(v, w, FinalColumns(v))
        /\ \A p \in plans : p.index \in DOMAIN rule.columns /\ PlanName(v, p) \in Inserted(v)

\* The scope of any worksheet under any rule that publication allows is laid out.
LEMMA ScopeIsLaidOut ==
    ASSUME NEW rule, AllowedRule(rule), rule.columns \in Seq(Range(rule.columns)),
           NEW sh, NEW n \in Nat, NEW w \in Nat, NEW C, Rectangle(sh.grid, n, w, C),
           NEW header \in 1 .. n, NEW v, v = Scope(rule, sh, header)
    PROVE  LaidOut(v, rule, sh, header, n, w)
  <1> DEFINE plans == InsertPlans(v, v.columns)
             K == FinalColumns(v)
             W == w + Cardinality(plans)
             S == DOMAIN v.columns
  <1>1. ScopeOn(v, rule, sh, header, n, w)
    BY ScopeColumns
  <1>2. /\ Plans(plans, w) /\ NewFields(v, plans, w)
        /\ \A p \in plans : p.index \in DOMAIN rule.columns /\ PlanName(v, p) \in Inserted(v)
    BY ScopeInsertions
  <1>3. Layout(plans, w, W)
    BY <1>2, ColumnsLaidOut
  <1>4. Moved(v, plans, K)
    BY <1>2, ColumnsMoved
  <1>a. \A c : ShiftedColumn(v, c) = c + Upto(plans, c)
    BY DEF ShiftedColumn, Upto
  <1> HIDE DEF plans, K, W, S
  <1>5. /\ DOMAIN K = S \cup Names(v, plans)
        /\ \A f \in S : K[f] = v.columns[f] + Upto(plans, v.columns[f])
        /\ \A p \in plans : K[PlanName(v, p)] = Spot(plans, p)
    BY <1>4 DEF Moved, S
  <1>6. /\ \A f \in S : v.columns[f] \in 1 .. w /\ v.mapping[v.columns[f]].field = f
        /\ \A p \in plans : PlanName(v, p) \notin S
    BY <1>1, <1>2 DEF ScopeOn, NewFields, S
  <1>7. /\ \A c, d \in 1 .. w : c + Upto(plans, c) = d + Upto(plans, d) => c = d
        /\ \A c \in 1 .. w : \A p \in plans : c + Upto(plans, c) # Spot(plans, p)
    BY <1>3 DEF Layout
  <1>8. ASSUME NEW g \in DOMAIN K \ S, NEW c \in 1 .. w PROVE K[g] # c + Upto(plans, c)
    <2>1. PICK p \in plans : g = PlanName(v, p)
      BY <1>5 DEF Names
    <2>. QED BY <1>5, <1>7, <2>1
  <1>9. ASSUME NEW f \in S, NEW g \in DOMAIN K, K[f] = K[g] PROVE f = g
    <2>1. v.columns[f] \in 1 .. w /\ K[f] = v.columns[f] + Upto(plans, v.columns[f])
      BY <1>5, <1>6
    <2>2. g \in S
      BY <1>8, <1>9, <2>1
    <2>3. v.columns[g] \in 1 .. w /\ K[g] = v.columns[g] + Upto(plans, v.columns[g])
      BY <1>5, <1>6, <2>2
    <2>4. v.columns[f] = v.columns[g]
      BY <1>7, <1>9, <2>1, <2>3
    <2>. QED BY <1>6, <2>2, <2>4
  <1>10. Apart(v, w, K)
    BY <1>8, <1>9, <1>a DEF Apart, S
  <1>. QED BY <1>1, <1>2, <1>3, <1>4, <1>10 DEF LaidOut, plans, K, W

\* The cell of a field as its record has it.
RecordHolds(v, r, f) == Get(v.record[r], f) = v.sheet.grid[r][v.columns[f]]

\* A field's cell in the record of a row is that of the worksheet in the field's column.
LEMMA CellOfRecord ==
    ASSUME NEW rule, NEW sh, NEW n \in Nat, NEW w \in Nat, NEW C, Rectangle(sh.grid, n, w, C),
           NEW header \in 1 .. n, NEW v, v = Scope(rule, sh, header),
           NEW r \in 1 .. n, NEW f \in DOMAIN v.columns
    PROVE  RecordHolds(v, r, f)
  <1>1. v.columns[f] \in 1 .. w
    <2>1. ScopeOn(v, rule, sh, header, n, w)
      BY ScopeColumns
    <2>. QED BY <2>1 DEF ScopeOn
  <1>2. Len(sh.grid[r]) = w /\ r \in DOMAIN sh.grid
    BY DEF Rectangle
  <1>3. v.record[r] = Record(v.columns, sh.grid[r])
    BY <1>2 DEF Scope
  <1> DEFINE columns == v.columns
             row == sh.grid[r]
  <1> HIDE DEF columns, row
  <1>4. columns[f] <= Len(row) /\ f \in DOMAIN columns
    BY <1>1, <1>2 DEF columns, row
  <1>5. Get(Record(columns, row), f) = row[columns[f]]
    BY <1>4 DEF Get, Record
  <1>6. v.sheet = sh
    BY DEF Scope
  <1>. QED BY <1>3, <1>5, <1>6 DEF columns, row, RecordHolds

-----------------------------------------------------------------------------
(* Headers.  A field is matched by a header of its own when no other header*)
(* is its own, and by no other.                                            *)

\* A field that a header names.
Owns(rule, headers, c, f) == f \in Owners(rule, Normal(headers[c]))

\* A header names one field at most.
LEMMA OneOwner ==
    ASSUME NEW rule, AllowedRule(rule), NEW h, NEW f \in Owners(rule, h), NEW g \in Owners(rule, h)
    PROVE  f = g
  <1> DEFINE titles(i) == {Normal(n) : n \in Titles(rule.columns[i])}
  <1>1. \A i, j \in DOMAIN rule.columns : i # j => titles(i) \cap titles(j) = {}
    BY DEF AllowedRule
  <1>2. PICK i \in DOMAIN rule.columns : f = rule.columns[i]
    BY DEF Owners, Range
  <1>3. PICK j \in DOMAIN rule.columns : g = rule.columns[j]
    BY DEF Owners, Range
  <1>4. h \in titles(i) /\ h \in titles(j)
    BY <1>2, <1>3 DEF Owners
  <1>. QED BY <1>1, <1>2, <1>3, <1>4

\* A name is that of one field.
LEMMA OneName ==
    ASSUME NEW rule, AllowedRule(rule), NEW f \in Fields(rule), NEW g \in Fields(rule), f.name = g.name
    PROVE  f = g
  <1>1. f \in Owners(rule, Normal(f.name)) /\ g \in Owners(rule, Normal(f.name))
    BY DEF Owners, Titles, Fields
  <1>. QED BY <1>1, OneOwner

\* FieldNamed finds the field of a name.
LEMMA NamedField ==
    ASSUME NEW rule, AllowedRule(rule), NEW f \in Fields(rule)
    PROVE  FieldNamed(rule, f.name) = f
  <1>1. \A g \in Fields(rule) : g.name = f.name => g = f
    BY OneName
  <1>. QED BY <1>1 DEF FieldNamed, Fields

\* A header that a field owns is not blank.
LEMMA OwnedIsTitled ==
    ASSUME NEW rule, AllowedRule(rule), NEW h, Owners(rule, h) # {}
    PROVE  h # None
  <1>1. PICK f \in Range(rule.columns) : \E n \in Titles(f) : Normal(n) = h
    BY DEF Owners
  <1>2. \A n \in Titles(f) : Normal(n) # None
    BY <1>1 DEF AllowedRule, AllowedField
  <1>. QED BY <1>1, <1>2

\* A field owns its title.
LEMMA OwnsItsTitle ==
    ASSUME NEW rule, NEW f \in Fields(rule)
    PROVE  f \in Owners(rule, Normal(f.title))
  BY DEF Owners, Titles, Fields

\* How a header that a field owns maps by itself.
LEMMA AloneOwned ==
    ASSUME NEW rule, AllowedRule(rule), NEW headers, NEW c \in DOMAIN headers, NEW f, Owns(rule, headers, c, f)
    PROVE  /\ MapHeader(c, rule, headers).status \in {"matched", "duplicate"}
           /\ MapHeader(c, rule, headers).status = "matched" => MapHeader(c, rule, headers).field = f.name
           /\ MapHeader(c, rule, headers).status = "duplicate" =>
                 \E d \in DOMAIN headers \ {c} : Owns(rule, headers, d, f)
  <1> DEFINE h == Normal(headers[c])
             owners == Owners(rule, h)
             again == \E d \in DOMAIN headers \ {c} : Normal(headers[d]) = h
             alias == \A g \in owners : h \notin {Normal(g.name), Normal(g.title)}
  <1>1. f \in owners /\ h # None
    BY OwnedIsTitled DEF Owns
  <1>2. (CHOOSE g \in owners : TRUE) = f
    <2>1. (CHOOSE g \in owners : TRUE) \in owners
      BY <1>1
    <2>. QED BY <1>1, <2>1, OneOwner
  <1>3. MapHeader(c, rule, headers) =
            IF again THEN Mapping("duplicate", None, "ambiguous")
            ELSE Mapping("matched", f.name, IF alias THEN "confirmed_alias" ELSE "exact_title")
    <2>1. owners # {}
      BY <1>1
    <2>. QED BY <1>1, <1>2, <2>1 DEF MapHeader
  <1>4. again => \E d \in DOMAIN headers \ {c} : Owns(rule, headers, d, f)
    BY <1>1 DEF Owns
  <1> HIDE DEF again, alias
  <1>. QED BY <1>3, <1>4 DEF Mapping

\* A header that maps to a field by itself is one of its own.
LEMMA AloneMatched ==
    ASSUME NEW rule, NEW headers, NEW c \in DOMAIN headers, MapHeader(c, rule, headers).status = "matched"
    PROVE  \E f : Owns(rule, headers, c, f) /\ MapHeader(c, rule, headers).field = f.name
  <1> DEFINE h == Normal(headers[c])
             owners == Owners(rule, h)
             near == {f \in Range(rule.columns) : Resembles(h, f)}
             again == h # None /\ \E d \in DOMAIN headers \ {c} : Normal(headers[d]) = h
             alias == \A g \in owners : h \notin {Normal(g.name), Normal(g.title)}
             f == CHOOSE g \in owners : TRUE
  <1>1. MapHeader(c, rule, headers) =
            CASE again -> Mapping("duplicate", None, "ambiguous")
              [] h = None -> Mapping("extra", None, "unmatched")
              [] OTHER ->
                    IF owners # {}
                    THEN Mapping("matched", f.name, IF alias THEN "confirmed_alias" ELSE "exact_title")
                    ELSE IF near # {}
                    THEN Mapping("ambiguous", (CHOOSE g \in near : TRUE).name, "fuzzy_suggestion")
                    ELSE Mapping("extra", None, "unmatched")
    BY DEF MapHeader
  <1> HIDE DEF again, near, alias
  <1>2. owners # {} /\ MapHeader(c, rule, headers).field = f.name
    BY <1>1 DEF Mapping
  <1>3. f \in owners
    BY <1>2
  <1>. QED BY <1>2, <1>3 DEF Owns

\* A column maps as its header does, unless another one maps to the same field.
LEMMA MappedAlone ==
    ASSUME NEW rule, NEW headers, NEW c \in DOMAIN headers
    PROVE  LET one == MapHeaders(rule, headers)[c]
               alone == MapHeader(c, rule, headers)
               twice == \E d \in DOMAIN headers \ {c} : /\ alone.status = "matched"
                                                        /\ MapHeader(d, rule, headers).status = "matched"
                                                        /\ alone.field = MapHeader(d, rule, headers).field
           IN  /\ twice => one.status = "duplicate"
               /\ ~twice => one = alone
  <1> DEFINE alone == [d \in DOMAIN headers |-> MapHeader(d, rule, headers)]
             twice(d) == \E e \in DOMAIN headers \ {d} :
                            alone[d].status = "matched" /\ alone[e].status = "matched"
                            /\ alone[d].field = alone[e].field
  <1>1. MapHeaders(rule, headers) =
            [d \in DOMAIN headers |-> IF twice(d) THEN [alone[d] EXCEPT !.status = "duplicate"] ELSE alone[d]]
    BY DEF MapHeaders
  <1>2. alone[c] = MapHeader(c, rule, headers)
    OBVIOUS
  <1>3. "status" \in DOMAIN MapHeader(c, rule, headers)
    BY DEF MapHeader, Mapping
  <1>4. twice(c) <=> \E d \in DOMAIN headers \ {c} : /\ MapHeader(c, rule, headers).status = "matched"
                                                     /\ MapHeader(d, rule, headers).status = "matched"
                                                     /\ MapHeader(c, rule, headers).field = MapHeader(d, rule, headers).field
    OBVIOUS
  <1>5. MapHeaders(rule, headers)[c] = IF twice(c) THEN [alone[c] EXCEPT !.status = "duplicate"] ELSE alone[c]
    BY <1>1
  <1> HIDE DEF alone, twice
  <1>. QED BY <1>2, <1>3, <1>4, <1>5

\* No other header of a column is the field's.
OwnsAlone(rule, headers, c, f) ==
    Owns(rule, headers, c, f) /\ \A d \in DOMAIN headers \ {c} : ~Owns(rule, headers, d, f)

\* The only header of a field is its column.
LEMMA OwnedMatches ==
    ASSUME NEW rule, AllowedRule(rule), NEW headers, NEW c \in DOMAIN headers, NEW f,
           OwnsAlone(rule, headers, c, f)
    PROVE  /\ MapHeaders(rule, headers)[c].status = "matched"
           /\ MapHeaders(rule, headers)[c].field = f.name
  <1> DEFINE one == MapHeaders(rule, headers)[c]
             alone(d) == MapHeader(d, rule, headers)
  <1>1. alone(c).status = "matched" /\ alone(c).field = f.name
    BY AloneOwned DEF OwnsAlone
  <1>2. ASSUME NEW d \in DOMAIN headers \ {c}, alone(d).status = "matched", alone(c).field = alone(d).field
        PROVE  FALSE
    <2>1. PICK g : Owns(rule, headers, d, g) /\ alone(d).field = g.name
      BY <1>2, AloneMatched
    <2>2. g \in Fields(rule) /\ f \in Fields(rule)
      BY <2>1 DEF Owns, OwnsAlone, Owners, Fields
    <2>3. f = g
      BY <1>1, <1>2, <2>1, <2>2, OneName
    <2>. QED BY <2>1, <2>3 DEF OwnsAlone
  <1>3. one = alone(c)
    BY <1>2, MappedAlone
  <1>. QED BY <1>1, <1>3

\* A column is one of its field's headers.
LEMMA MatchedOwns ==
    ASSUME NEW rule, NEW headers, NEW c \in DOMAIN headers,
           MapHeaders(rule, headers)[c].status = "matched"
    PROVE  \E f : Owns(rule, headers, c, f) /\ MapHeaders(rule, headers)[c].field = f.name
  <1>1. MapHeaders(rule, headers)[c] = MapHeader(c, rule, headers)
    BY MappedAlone
  <1>2. \E f : Owns(rule, headers, c, f) /\ MapHeader(c, rule, headers).field = f.name
    BY <1>1, AloneMatched
  <1>. QED BY <1>1, <1>2

\* Where no header is ambiguous, the only one.
LEMMA MatchedOwnsAlone ==
    ASSUME NEW rule, AllowedRule(rule), NEW headers, NEW c \in DOMAIN headers,
           MapHeaders(rule, headers)[c].status = "matched",
           \A d \in DOMAIN headers : MapHeaders(rule, headers)[d].status # "duplicate",
           NEW f, Owns(rule, headers, c, f)
    PROVE  OwnsAlone(rule, headers, c, f) /\ MapHeaders(rule, headers)[c].field = f.name
  <1> DEFINE alone(d) == MapHeader(d, rule, headers)
  <1>1. \A d \in DOMAIN headers : MapHeaders(rule, headers)[d] = alone(d)
    BY MappedAlone
  <1>2. alone(c).status = "matched" /\ alone(c).field = f.name
    BY <1>1, AloneOwned
  <1>3. ASSUME NEW d \in DOMAIN headers \ {c}, Owns(rule, headers, d, f) PROVE FALSE
    <2>1. alone(d).status # "duplicate"
      BY <1>1, <1>3
    <2>2. alone(d).status = "matched" /\ alone(d).field = f.name
      BY <1>3, <2>1, AloneOwned
    <2>3. MapHeaders(rule, headers)[c].status = "duplicate"
      BY <1>2, <2>2, MappedAlone
    <2>. QED BY <2>3
  <1>. QED BY <1>1, <1>2, <1>3 DEF OwnsAlone

\* The column of a field is the one with its only header.
ColumnIs(rule, headers, name, c) ==
    LET columns == Columns(MapHeaders(rule, headers))
    IN  name \in DOMAIN columns /\ columns[name] = c

\* The column of a field is the one whose header alone is the field's.
LEMMA ColumnOfOwned ==
    ASSUME NEW rule, AllowedRule(rule), NEW headers, NEW c \in DOMAIN headers, NEW f,
           OwnsAlone(rule, headers, c, f), DOMAIN MapHeaders(rule, headers) = DOMAIN headers
    PROVE  ColumnIs(rule, headers, f.name, c)
  <1> DEFINE mapping == MapHeaders(rule, headers)
             matched == {d \in DOMAIN mapping : mapping[d].status = "matched"}
             columns == Columns(mapping)
             name == f.name
  <1>1. mapping[c].status = "matched" /\ mapping[c].field = name
    BY OwnedMatches
  <1>2. ASSUME NEW d \in matched, mapping[d].field = name PROVE d = c
    <2>1. d \in DOMAIN headers /\ mapping[d].status = "matched"
      OBVIOUS
    <2>2. PICK g : Owns(rule, headers, d, g) /\ mapping[d].field = g.name
      BY <2>1, MatchedOwns
    <2>3. g \in Fields(rule) /\ f \in Fields(rule)
      BY <2>2 DEF Owns, OwnsAlone, Owners, Fields
    <2>4. f = g
      BY <1>2, <2>2, <2>3, OneName
    <2>. QED BY <2>1, <2>2, <2>4 DEF OwnsAlone
  <1> HIDE DEF name, mapping
  <1>3. c \in matched
    BY <1>1 DEF mapping
  <1>4. columns = [n \in {mapping[d].field : d \in matched} |-> CHOOSE d \in matched : mapping[d].field = n]
    BY DEF Columns
  <1> HIDE DEF matched
  <1>5. name \in {mapping[d].field : d \in matched}
    BY <1>1, <1>3
  <1>6. (CHOOSE d \in matched : mapping[d].field = name) = c
    BY <1>1, <1>2, <1>3
  <1>. QED BY <1>4, <1>5, <1>6 DEF name, mapping, ColumnIs

\* The header row a render leaves: every header where its column moved to, as it was or
\* renamed to its title, and the titles of the columns inserted.
Headed(v, w, row) ==
    LET plans == InsertPlans(v, v.columns)
    IN  /\ \A c \in 1 .. w :
              \/ row[ShiftedColumn(v, c)] = v.sheet.grid[v.header][c]
              \/ /\ c \in Renamed(v)
                 /\ row[ShiftedColumn(v, c)] = FieldNamed(v.rule, v.mapping[c].field).title
        /\ \A p \in plans : row[Spot(plans, p)] = v.rule.columns[p.index].title

\* In the header row a render leaves, every field that had a column has that column where it
\* moved to.
LEMMA ColumnsAreKept ==
    ASSUME NEW rule, AllowedRule(rule), NEW sh, NEW n \in Nat, NEW w \in Nat,
           NEW header, NEW v, LaidOut(v, rule, sh, header, n, w), ComparesRecords(v),
           DOMAIN sh.grid[header] = 1 .. w,
           NEW row, DOMAIN row = 1 .. w + Cardinality(InsertPlans(v, v.columns)), Headed(v, w, row),
           NEW name \in DOMAIN v.columns
    PROVE  ColumnIs(rule, row, name, FinalColumns(v)[name])
  <1> DEFINE plans == InsertPlans(v, v.columns)
             K == FinalColumns(v)
             W == w + Cardinality(plans)
             headers == sh.grid[header]
             mapping == MapHeaders(rule, headers)
             at(c) == ShiftedColumn(v, c)
             c == v.columns[name]
  <1> HIDE DEF plans, K, W, at, headers, mapping, c
  <1>1. /\ v.rule = rule /\ v.sheet.grid[v.header] = headers /\ v.mapping = mapping
        /\ DOMAIN mapping = 1 .. w /\ DOMAIN headers = 1 .. w
    BY DEF LaidOut, ScopeOn, headers, mapping
  <1>2. \A d \in 1 .. w : mapping[d].status # "duplicate"
    BY <1>1 DEF ComparesRecords
  <1>3. c \in 1 .. w /\ mapping[c].status = "matched" /\ mapping[c].field = name
    BY <1>1 DEF LaidOut, ScopeOn, c
  <1>4. PICK f : Owns(rule, headers, c, f) /\ name = f.name
    <2>1. \E f : Owns(rule, headers, c, f) /\ MapHeaders(rule, headers)[c].field = f.name
      BY <1>1, <1>3, MatchedOwns DEF mapping
    <2>. QED BY <1>3, <2>1 DEF mapping
  <1>5. OwnsAlone(rule, headers, c, f)
    BY <1>1, <1>2, <1>3, <1>4, MatchedOwnsAlone DEF mapping
  <1>6. f \in Fields(rule)
    BY <1>4 DEF Owns, Owners, Fields
  <1>7. /\ \A d \in 1 .. w : at(d) = d + Upto(plans, d)
        /\ \A d \in 1 .. w : at(d) \in 1 .. W
        /\ \A d, e \in 1 .. w : at(d) = at(e) => d = e
        /\ \A d \in 1 .. W : (\E e \in 1 .. w : d = at(e)) \/ (\E p \in plans : d = Spot(plans, p))
    <2>1. \A d : at(d) = d + Upto(plans, d)
      BY DEF ShiftedColumn, Upto, at, plans
    <2>2. Layout(plans, w, W)
      BY DEF LaidOut, plans, W
    <2>3. /\ \A d \in 1 .. w : d + Upto(plans, d) \in 1 .. W
          /\ \A d, e \in 1 .. w : d + Upto(plans, d) = e + Upto(plans, e) => d = e
          /\ \A d \in 1 .. W : (\E e \in 1 .. w : d = e + Upto(plans, e)) \/ (\E p \in plans : d = Spot(plans, p))
      BY <2>2 DEF Layout
    <2>. QED BY <2>1, <2>3
  <1>8. ASSUME NEW d \in 1 .. w
        PROVE  \/ row[at(d)] = headers[d]
               \/ d \in Renamed(v) /\ row[at(d)] = FieldNamed(rule, mapping[d].field).title
    <2>1. \/ row[at(d)] = v.sheet.grid[v.header][d]
          \/ d \in Renamed(v) /\ row[at(d)] = FieldNamed(v.rule, v.mapping[d].field).title
      BY DEF Headed, at
    <2>. QED BY <1>1, <2>1
  <1>t. ASSUME NEW p \in plans PROVE row[Spot(plans, p)] = rule.columns[p.index].title
    <2>1. row[Spot(plans, p)] = v.rule.columns[p.index].title
      BY DEF Headed, plans
    <2>. QED BY <1>1, <2>1
  <1>9. K[name] = at(c)
    <2>1. K[name] = v.columns[name] + Upto(plans, v.columns[name])
      BY DEF LaidOut, Moved, K, plans
    <2>. QED BY <1>3, <1>7, <2>1 DEF c
  \* The field a renamed header belongs to.
  <1>10. ASSUME NEW d \in 1 .. w, d \in Renamed(v)
         PROVE  \E g \in Fields(rule) : /\ Owns(rule, headers, d, g) /\ FieldNamed(rule, mapping[d].field) = g
    <2>1. mapping[d].status = "matched"
      BY <1>1, <1>10 DEF Renamed
    <2>2. PICK g : Owns(rule, headers, d, g) /\ mapping[d].field = g.name
      <3>1. \E g : Owns(rule, headers, d, g) /\ MapHeaders(rule, headers)[d].field = g.name
        BY <1>1, <2>1, MatchedOwns DEF mapping
      <3>. QED BY <3>1 DEF mapping
    <2>3. g \in Fields(rule)
      BY <2>2 DEF Owns, Owners, Fields
    <2>. QED BY <2>2, <2>3, NamedField
  <1>11. Owns(rule, row, at(c), f)
    <2>1. CASE row[at(c)] = headers[c]
      BY <1>4, <2>1 DEF Owns
    <2>2. CASE c \in Renamed(v) /\ row[at(c)] = FieldNamed(rule, mapping[c].field).title
      <3>1. FieldNamed(rule, mapping[c].field) = f
        BY <1>3, <1>4, <1>6, NamedField
      <3>. QED BY <1>6, <2>2, <3>1, OwnsItsTitle DEF Owns
    <2>. QED BY <1>3, <1>8, <2>1, <2>2
  <1>12. ASSUME NEW d \in 1 .. W, d # at(c), Owns(rule, row, d, f) PROVE FALSE
    <2>1. ASSUME NEW e \in 1 .. w, d = at(e) PROVE FALSE
      <3>1. e # c /\ ~Owns(rule, headers, e, f)
        BY <1>1, <1>5, <1>12, <2>1 DEF OwnsAlone
      <3>2. row[at(e)] # headers[e]
        BY <1>12, <2>1, <3>1 DEF Owns
      <3>3. e \in Renamed(v) /\ row[d] = FieldNamed(rule, mapping[e].field).title
        BY <1>8, <2>1, <3>2
      <3>4. PICK g \in Fields(rule) : Owns(rule, headers, e, g) /\ row[d] = g.title
        BY <1>10, <3>3
      <3>5. g = f
        <4>1. g \in Owners(rule, Normal(row[d])) /\ f \in Owners(rule, Normal(row[d]))
          BY <1>12, <3>4, OwnsItsTitle DEF Owns
        <4>. QED BY <4>1, OneOwner
      <3>. QED BY <3>1, <3>4, <3>5
    <2>2. ASSUME NEW p \in plans, d = Spot(plans, p) PROVE FALSE
      <3> DEFINE g == rule.columns[p.index]
      <3>1. g \in Fields(rule) /\ row[d] = g.title /\ g.name \notin DOMAIN v.columns
        <4>1. p.index \in DOMAIN rule.columns /\ PlanName(v, p) \notin DOMAIN v.columns
          BY DEF LaidOut, NewFields, plans
        <4>. QED BY <1>1, <1>t, <2>2, <4>1 DEF PlanName, Fields, Range
      <3> HIDE DEF g
      <3>2. g = f
        <4>1. g \in Owners(rule, Normal(row[d])) /\ f \in Owners(rule, Normal(row[d]))
          BY <1>12, <3>1, OwnsItsTitle DEF Owns
        <4>. QED BY <4>1, OneOwner
      <3>. QED BY <1>4, <3>1, <3>2
    <2>. QED BY <1>7, <2>1, <2>2
  <1>13. at(c) \in DOMAIN row /\ OwnsAlone(rule, row, at(c), f)
    <2>1. DOMAIN row = 1 .. W
      BY DEF W, plans
    <2>. QED BY <1>3, <1>7, <1>11, <1>12, <2>1 DEF OwnsAlone
  <1>14. DOMAIN MapHeaders(rule, row) = DOMAIN row
    BY DEF MapHeaders
  <1>15. ColumnIs(rule, row, f.name, at(c))
    <2> DEFINE d == at(c)
    <2> HIDE DEF d
    <2>1. d \in DOMAIN row /\ OwnsAlone(rule, row, d, f)
      BY <1>13 DEF d
    <2>2. ColumnIs(rule, row, f.name, d)
      BY <1>14, <2>1, ColumnOfOwned
    <2>. QED BY <2>2 DEF d
  <1>. QED BY <1>4, <1>9, <1>15 DEF K

-----------------------------------------------------------------------------
(* Keys written and read again.                                            *)

\* The cell of a field is one a record of the row was planned with.
AppendedFrom(v, plan, r, name, cell) ==
    \E o \in Repairs(plan, "append_record") :
        o.row = r /\ name \in DOMAIN o.values /\ cell = AppendValues(v, o).values[name]

\* A cell of an appended row that holds anything in the column of a field holds what a
\* record says of that field.
LEMMA AppendedCell ==
    ASSUME NEW rule, NEW sh, NEW n \in Nat, NEW w \in Nat, NEW header, NEW v, LaidOut(v, rule, sh, header, n, w),
           NEW plan, NEW m, NEW D, NEW g1, NEW g2, NEW g3, NEW out,
           Phases(v, plan, n, w, m, D, g1, g2, g3, out),
           NEW r \in n + 1 .. m, NEW name \in DOMAIN v.columns, out[r][FinalColumns(v)[name]] # None
    PROVE  AppendedFrom(v, plan, r, name, out[r][FinalColumns(v)[name]])
  <1> DEFINE plans == InsertPlans(v, v.columns)
             K == FinalColumns(v)
             W == w + Cardinality(plans)
             rows == RowWrites(v, plan, K)
  <1> HIDE DEF plans, K, W, rows
  <1>1. Overwrites(g3, rows, n, W, m, out)
    BY DEF Phases, plans, K, W, rows
  <1>2. K[name] \in 1 .. W
    <2>1. K[name] = v.columns[name] + Upto(plans, v.columns[name])
      BY DEF LaidOut, Moved, K, plans
    <2>2. v.columns[name] \in 1 .. w
      BY DEF LaidOut, ScopeOn
    <2>3. Layout(plans, w, W)
      BY DEF LaidOut, plans, W
    <2>. QED BY <2>1, <2>2, <2>3 DEF Layout
  <1>3. r \in 1 .. m /\ ~(r <= n)
    BY <1>1 DEF Overwrites
  <1>4. out[r][K[name]] # None
    BY DEF K
  <1>5. PICK x \in rows : CellAt(x, r, K[name]) /\ out[r][K[name]] = x.value
    BY <1>1, <1>2, <1>3, <1>4 DEF Overwrites
  <1>6. PICK o \in Repairs(plan, "append_record") : x \in RecordCells(AppendValues(v, o), K)
    BY DEF rows, RowWrites
  <1> DEFINE a == AppendValues(v, o)
  <1>7. a.row = o.row /\ DOMAIN a.values = DOMAIN o.values
    BY DEF AppendValues, AppendRecord
  <1> HIDE DEF a
  <1>8. PICK g \in DOMAIN a.values \cap DOMAIN K : x = SetCell(a.row, K[g], a.values[g])
    BY <1>6 DEF RecordCells, a
  <1>9. a.row = r /\ K[g] = K[name] /\ out[r][K[name]] = a.values[g]
    BY <1>5, <1>8 DEF SetCell, CellAt
  <1>10. g = name
    <2>1. Apart(v, w, K)
      BY DEF LaidOut, K
    <2>. QED BY <1>8, <1>9, <2>1 DEF Apart
  <1>. QED BY <1>7, <1>8, <1>9, <1>10 DEF a, K, AppendedFrom

\* What is read of a key that was written is the key, and there was one.
LEMMA WrittenKeyIsRead ==
    ASSUME NEW f, f.formula = "reject", NEW s, NEW cell, cell = Stored(WriteValue(s, f)),
           Parse(cell, f).value # None
    PROVE  Parse(s, f).valid /\ Parse(s, f).value = Parse(cell, f).value
  <1>1. /\ None \in Blanks /\ Blanks \cap Numbers = {}
        /\ \A x \in Numbers : Number(x) \in Numbers /\ Number(Number(x)) = Number(x)
    BY CellsAssumption
  <1>2. \A x : x \in Blanks => Parse(x, f) = Parsed(TRUE, None)
    BY <1>1 DEF Parse
  <1>3. \A x : x \in Numbers => Parse(x, f) = Parsed(TRUE, Number(x))
    BY <1>1 DEF Parse
  <1>4. \A x : x \notin Blanks /\ x \notin Numbers => Parse(x, f) = Parsed(FALSE, None)
    BY DEF Parse
  <1>5. Parsed(TRUE, None).value = None /\ Parsed(FALSE, None).value = None
    BY DEF Parsed
  <1>6. Parse(None, f).value = None
    BY <1>1, <1>2, <1>5
  <1>7. None \notin Numbers
    BY <1>1
  <1>8. WriteValue(s, f) # None
    <2>1. Stored(None) = None
      BY <1>7 DEF Stored
    <2>. QED BY <1>6, <2>1
  <1>9. WriteValue(s, f) = s /\ Parse(s, f).value # None
    BY <1>8 DEF WriteValue
  <1>10. s \in Numbers
    BY <1>2, <1>4, <1>5, <1>9
  <1>11. cell = Number(s)
    BY <1>9, <1>10 DEF Stored
  <1>12. Parse(s, f) = Parsed(TRUE, Number(s)) /\ Parse(cell, f) = Parsed(TRUE, Number(s))
    BY <1>1, <1>3, <1>10, <1>11
  <1>. QED BY <1>12 DEF Parsed

\* The fields of a key are fields of the rule that refuse formulas.
LEMMA KeyFields ==
    ASSUME NEW rule, AllowedRule(rule), NEW name \in rule.key
    PROVE  /\ \E f \in Fields(rule) : f.name = name
           /\ FieldNamed(rule, name).formula = "reject" /\ ~FieldNamed(rule, name).template
  <1>1. PICK f \in Fields(rule) : f.name = name /\ f.formula = "reject"
    BY DEF AllowedRule, AllowedKey, Fields
  <1>2. FieldNamed(rule, name) = f
    BY <1>1, NamedField
  <1>3. AllowedField(f)
    BY <1>1 DEF AllowedRule, Fields
  <1>4. f.template => f.formula = "formula"
    BY <1>3 DEF AllowedField
  <1>. QED BY <1>1, <1>2, <1>4

\* A key that was written is read as the key of the record it was written from.
LEMMA KeyIsReadBack ==
    ASSUME NEW rule, AllowedRule(rule), NEW record, HasKey(rule, record), NEW other,
           \A name \in rule.key :
              Get(record, name) = Stored(WriteValue(Get(other, name), FieldNamed(rule, name)))
    PROVE  HasKey(rule, other) /\ SameKey(FieldKey(rule, record), FieldKey(rule, other))
  <1> DEFINE F(name) == FieldNamed(rule, name)
  <1>1. ASSUME NEW name \in rule.key
        PROVE  /\ Parse(Get(other, name), F(name)).valid
               /\ Parse(Get(other, name), F(name)).value = Parse(Get(record, name), F(name)).value
               /\ Parse(Get(record, name), F(name)).value # None
    <2> DEFINE f == F(name)
               s == Get(other, name)
               cell == Get(record, name)
    <2>1. f.formula = "reject"
      BY KeyFields
    <2>2. cell = Stored(WriteValue(s, f)) /\ Parse(cell, f).value # None
      BY DEF HasKey
    <2> HIDE DEF f, s, cell
    <2>3. Parse(s, f).valid /\ Parse(s, f).value = Parse(cell, f).value
      BY <2>1, <2>2, WrittenKeyIsRead
    <2>. QED BY <2>2, <2>3 DEF f, s, cell
  <1>2. HasKey(rule, other)
    BY <1>1 DEF HasKey
  <1>3. ASSUME NEW a, NEW name \in rule.key, Parse(Get(a, name), F(name)).value # None
        PROVE  a[name] = Get(a, name)
    <2>1. F(name).formula = "reject"
      BY KeyFields
    <2>2. Parse(None, F(name)).value = None
      BY <2>1, CellsAssumption DEF Parse, Parsed
    <2>. QED BY <1>3, <2>2 DEF Get
  <1>4. \A name \in rule.key : Parse(record[name], F(name)).value = Parse(other[name], F(name)).value
    BY <1>1, <1>3
  <1> HIDE DEF F
  <1>5. [name \in rule.key |-> Parse(record[name], F(name)).value]
            = [name \in rule.key |-> Parse(other[name], F(name)).value]
    BY <1>4
  <1>. QED BY <1>2, <1>5 DEF SameKey, FieldKey, Key, F

\* The scope of a rendered sheet: its rows begin where they did, and its records are read at
\* the columns the fields moved to.
ReadsRows(v, x, out, m) ==
    x.rule = v.rule /\ x.start = v.start /\ \A name \in DOMAIN v.columns : \A r \in 1 .. m :
        Get(x.record[r], name) = out[r][FinalColumns(v)[name]]

=============================================================================
