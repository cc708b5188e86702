---------------------------- MODULE ParserProofs ----------------------------
(***************************************************************************)
(* What the parsers of Xmcd and CueSheet return for every document the     *)
(* service or the program writes, of any number of tracks and with titles  *)
(* of any number of lines: THEOREM ServiceParsed, WrittenParsed and        *)
(* CueParsed.                                                              *)
(*                                                                         *)
(* The parsers fold a handler over the lines.  A fold over 1..n is a       *)
(* function that exists and steps (FoldExists, FoldSteps), by induction    *)
(* over a set of numbers.  The documents are taken apart into places: the  *)
(* line at each place is known (DocumentPlaces, FlattenPlaces), each line  *)
(* takes the parser from one state to another (the lemmas that end in      *)
(* Line), and the state after i tracks is written out.                     *)
(***************************************************************************)
EXTENDS CddbCache, FiniteSetTheorems, SequenceTheorems, WellFoundedInduction, TLAPS

(* Induction over the numbers for a set, from the well-founded order of    *)
(* the numbers: a theorem about an operator cannot be instantiated.        *)
LEMMA SetInduction ==
  ASSUME NEW S, 0 \in S, \A n \in Nat : n \in S => n + 1 \in S
  PROVE  \A n \in Nat : n \in S
  <1> DEFINE T == {n \in Nat : n \notin S}
  <1> SUFFICES ASSUME T # {} PROVE FALSE
    OBVIOUS
  <1>1. PICK m \in T : \A k \in T : ~(<<k, m>> \in OpToRel(<, Nat))
    <2>1. T \subseteq Nat
      OBVIOUS
    <2> HIDE DEF T
    <2> QED BY <2>1, NatLessThanWellFounded, WFMin
  <1>2. m # 0 /\ m \in Nat
    OBVIOUS
  <1>3. m - 1 \in Nat /\ m - 1 < m /\ (m - 1) + 1 = m
    BY <1>2
  <1>4. m - 1 \notin T
    BY <1>1, <1>3 DEF OpToRel
  <1> QED BY <1>3, <1>4

(* A set of numbers up to n that is not empty has a largest member. *)
LEMMA LargestOf ==
  ASSUME NEW n \in Nat
  PROVE  \A s : s \subseteq 1..n /\ s # {} => \E x \in s : \A y \in s : x >= y
  <1> DEFINE HasTop(u) == \E x \in u : \A y \in u : x >= y
             P == {m \in Nat : \A u \in SUBSET (1..m) : u # {} => HasTop(u)}
  <1>1. 0 \in P
    <2>1. \A u \in SUBSET (1..0) : u = {}
      OBVIOUS
    <2> QED BY <2>1
  <1>2. ASSUME NEW m \in Nat, m \in P
        PROVE  m + 1 \in P
    <2>1. ASSUME NEW u \in SUBSET (1 .. m + 1), u # {}
          PROVE  HasTop(u)
      <3>1. CASE m + 1 \in u
        BY <3>1
      <3>2. CASE m + 1 \notin u
        <4>1. \A x \in u : x \in 1..m
          BY <3>2
        <4> QED BY <1>2, <2>1, <4>1
      <3> QED BY <3>1, <3>2
    <2> HIDE DEF HasTop
    <2> QED BY <2>1
  <1> HIDE DEF P
  <1>3. n \in P
    BY <1>1, <1>2, SetInduction
  <1> QED BY <1>3 DEF P

Top(s) == CHOOSE x \in s : \A y \in s : x >= y

(* The fold of a function on a set takes the largest member first. *)
LEMMA TopOf ==
  ASSUME NEW n \in Nat, NEW s \in SUBSET (1..n), s # {}
  PROVE  /\ Top(s) \in s
         /\ s \ {Top(s)} \subseteq 1 .. Top(s) - 1
         /\ \A m \in Nat : s \subseteq 1 .. m + 1 => s \ {Top(s)} \in SUBSET (1..m)
  <1>1. \E x \in s : \A y \in s : x >= y
    BY LargestOf
  <1>2. Top(s) \in s /\ \A y \in s : Top(s) >= y
    BY <1>1 DEF Top
  <1> HIDE DEF Top
  <1>4. \A y \in s \ {Top(s)} : y \in 1 .. Top(s) - 1
    <2>1. ASSUME NEW y \in s, y # Top(s)
          PROVE  y \in 1 .. Top(s) - 1
      <3>1. y \in 1..n /\ Top(s) \in 1..n /\ Top(s) >= y
        BY <1>2
      <3> QED BY <2>1, <3>1
    <2> QED BY <2>1
  <1>3. ASSUME NEW m \in Nat, s \subseteq 1 .. m + 1
        PROVE  s \ {Top(s)} \in SUBSET (1..m)
    <2>1. Top(s) \in 1 .. m + 1
      BY <1>2, <1>3
    <2>2. \A y \in 1 .. Top(s) - 1 : y \in 1..m
      BY <2>1
    <2> QED BY <1>4, <2>2
  <1> QED BY <1>2, <1>3, <1>4

LEMMA TopOfRange ==
  ASSUME NEW k \in Nat \ {0}
  PROVE  Top(1..k) = k /\ (1..k) \ {k} = 1 .. k - 1
  <1>1. \A y \in 1..k : k >= y
    OBVIOUS
  <1>2. \A x \in 1..k : (\A y \in 1..k : x >= y) => x = k
    OBVIOUS
  <1> QED BY <1>1, <1>2 DEF Top

Step(op, s, l) == CASE op = "entry" -> X!OnLine(s, l)
                    [] op = "cue" -> C!OnCueLine(s, l)
                    [] op = "sum" -> l + s
                    [] op = "concat" -> s \o l

Folding(op, start, doc, n, g) ==
  g = [s \in SUBSET (1..n) |->
         IF s = {} THEN start ELSE Step(op, g[s \ {Top(s)}], doc[Top(s)])]

(* A recursive function on the subsets of 1..n exists; so the one CHOOSE   *)
(* takes for a fold is one.                                                *)
LEMMA FoldExists ==
  ASSUME NEW n \in Nat, NEW op, NEW doc, NEW start
  PROVE  \E g : Folding(op, start, doc, n, g)
  <1> DEFINE P == {m \in Nat : \E g : Folding(op, start, doc, m, g)}
  <1>1. 0 \in P
    <2> DEFINE g == [s \in SUBSET (1..0) |-> start]
    <2>1. \A s \in SUBSET (1..0) : s = {}
      OBVIOUS
    <2>2. Folding(op, start, doc, 0, g)
      BY <2>1 DEF Folding
    <2> QED BY <2>2
  <1>2. ASSUME NEW m \in Nat, m \in P
        PROVE  m + 1 \in P
    <2>1. PICK g : Folding(op, start, doc, m, g)
      BY <1>2
    <2> DEFINE next(f, s) == IF s = {} THEN start ELSE Step(op, f[s \ {Top(s)}], doc[Top(s)])
               h == [s \in SUBSET (1 .. m + 1) |-> next(g, s)]
    <2>2. ASSUME NEW s \in SUBSET (1..m) PROVE h[s] = g[s]
      <3>1. s \in SUBSET (1 .. m + 1)
        OBVIOUS
      <3>2. h[s] = next(g, s)
        BY <3>1
      <3>3. g = [u \in SUBSET (1..m) |-> next(g, u)]
        BY <2>1 DEF Folding
      <3> HIDE DEF next, h
      <3>4. g[s] = next(g, s)
        BY <3>3
      <3> QED BY <3>2, <3>4
    <2>3. ASSUME NEW s \in SUBSET (1 .. m + 1)
          PROVE  next(g, s) = next(h, s)
      <3>1. CASE s # {}
        <4>1. s \ {Top(s)} \in SUBSET (1..m)
          BY <3>1, TopOf, m + 1 \in Nat
        <4> HIDE DEF h
        <4> QED BY <2>2, <3>1, <4>1
      <3> QED BY <3>1
    <2>4. h = [s \in SUBSET (1 .. m + 1) |-> next(h, s)]
      <3> HIDE DEF next
      <3> QED BY <2>3
    <2>5. Folding(op, start, doc, m + 1, h)
      BY <2>4 DEF Folding
    <2> QED BY <2>5
  <1> HIDE DEF P
  <1>3. n \in P
    BY <1>1, <1>2, SetInduction
  <1> QED BY <1>3 DEF P

Folded(op, start, doc, n) == (CHOOSE g : Folding(op, start, doc, n, g))[1..n]

(* The states a fold goes through. *)
Folds(op, start, doc, n, h) == /\ h[0] = start
                               /\ \A k \in 1..n : h[k] = Step(op, h[k - 1], doc[k])
                               /\ Folded(op, start, doc, n) = h[n]

(* What a fold over the numbers from 1 to n returns: one step for each. *)
LEMMA FoldSteps ==
  ASSUME NEW n \in Nat, NEW op, NEW doc, NEW start
  PROVE  \E h : Folds(op, start, doc, n, h)
  <1> DEFINE it == CHOOSE g : Folding(op, start, doc, n, g)
             next(f, s) == IF s = {} THEN start ELSE Step(op, f[s \ {Top(s)}], doc[Top(s)])
             h == [k \in 0..n |-> it[1..k]]
  <1>1. Folding(op, start, doc, n, it)
    BY FoldExists
  <1>2. Folded(op, start, doc, n) = it[1..n]
    BY DEF Folded
  <1> HIDE DEF it
  <1>3. it = [s \in SUBSET (1..n) |-> next(it, s)]
    BY <1>1 DEF Folding
  <1> HIDE DEF next
  <1>4. \A s \in SUBSET (1..n) : it[s] = next(it, s)
    BY <1>3
  <1>5. h[0] = start
    <2>1. 1..0 = {} /\ 1..0 \in SUBSET (1..n) /\ 0 \in 0..n
      OBVIOUS
    <2>2. it[1..0] = next(it, 1..0)
      BY <1>4, <2>1
    <2> QED BY <2>1, <2>2 DEF next
  <1>6. ASSUME NEW k \in 1..n
        PROVE  h[k] = Step(op, h[k - 1], doc[k])
    <2>1. 1..k # {} /\ 1..k \in SUBSET (1..n)
      <3>1. k \in 1..k
        OBVIOUS
      <3>2. \A x \in 1..k : x \in 1..n
        OBVIOUS
      <3> QED BY <3>1, <3>2
    <2>2. it[1..k] = next(it, 1..k)
      BY <1>4, <2>1
    <2>3. Top(1..k) = k /\ (1..k) \ {k} = 1 .. k - 1
      BY TopOfRange
    <2>4. it[1..k] = Step(op, it[1 .. k - 1], doc[k])
      BY <2>1, <2>2, <2>3 DEF next
    <2>5. h[k] = it[1..k] /\ h[k - 1] = it[1 .. k - 1]
      OBVIOUS
    <2> QED BY <2>4, <2>5
  <1>7. h[n] = it[1..n]
    OBVIOUS
  <1> HIDE DEF h
  <1> QED BY <1>2, <1>5, <1>6, <1>7 DEF Folds

EntryStart(d) == [mode |-> 0, prev |-> X!MsfOffset, cur |-> 0, nr |-> 0, old |-> -1, d |-> d]
CueStart == [file |-> 0, track |-> 0, prev |-> C!MsfOffset, d |-> C!AllocDisc]

(* The parsers are such folds. *)
LEMMA EntryIsFolded ==
  ASSUME NEW d, NEW doc, NEW n \in Nat, DOMAIN doc = 1..n
  PROVE  X!ParseEntry(d, doc) = Folded("entry", EntryStart(d), doc, n).d
  BY DEF X!ParseEntry, X!FoldLeft, X!MapThenFoldSet, EntryStart, Folded, Folding, Step, Top, X!Max

LEMMA CueIsFolded ==
  ASSUME NEW doc, NEW n \in Nat, DOMAIN doc = 1..n
  PROVE  C!ParseCue(doc) = Folded("cue", CueStart, doc, n).d
  BY DEF C!ParseCue, C!FoldLeft, C!MapThenFoldSet, CueStart, Folded, Folding, Step, Top, C!Max

-----------------------------------------------------------------------------
(* Sums. *)
Sum(f, k) == SumFunctionOnSet(f, 1..k)

Chosen(s) == CHOOSE x \in s : TRUE

Summing(f, S, g) ==
  g = [s \in SUBSET S |-> IF s = {} THEN 0 ELSE f[Chosen(s)] + g[s \ {Chosen(s)}]]

LEMMA SumIsChosen ==
  ASSUME NEW f, NEW k
  PROVE  Sum(f, k) = (CHOOSE g : Summing(f, 1..k, g))[1..k]
  BY DEF Sum, SumFunctionOnSet, FoldFunctionOnSet, MapThenFoldSet, Summing, Chosen

(* Every instance of the sum of a function chooses one and the same        *)
(* function.                                                               *)
LEMMA SumsAgree ==
  ASSUME NEW f, NEW k
  PROVE  X!SumFunctionOnSet(f, 1..k) = Sum(f, k) /\ C!SumFunctionOnSet(f, 1..k) = Sum(f, k)
  BY DEF Sum, SumFunctionOnSet, FoldFunctionOnSet, MapThenFoldSet,
         X!SumFunctionOnSet, X!FoldFunctionOnSet, X!MapThenFoldSet,
         C!SumFunctionOnSet, C!FoldFunctionOnSet, C!MapThenFoldSet

(* A sum of any of the first n numbers: whichever is taken off first. *)
IsSum(f, n, g) == /\ g[{}] = 0
                  /\ \A s \in SUBSET (1..n) :
                       g[s] \in Int /\ \A x \in s : g[s] = f[x] + g[s \ {x}]

(* The sum taken from the top: any other member may be taken off first. *)
LEMMA SumFromTop ==
  ASSUME NEW n \in Nat, NEW f, \A i \in 1..n : f[i] \in Int
  PROVE  \E g : IsSum(f, n, g)
  <1>1. PICK g : Folding("sum", 0, f, n, g)
    BY FoldExists
  <1>2. \A s \in SUBSET (1..n) : g[s] = IF s = {} THEN 0 ELSE f[Top(s)] + g[s \ {Top(s)}]
    BY <1>1 DEF Folding, Step
  <1> DEFINE P == {m \in Nat : \A s \in SUBSET (1..n) : s \subseteq 1..m =>
                     /\ g[s] \in Int
                     /\ \A x \in s : g[s] = f[x] + g[s \ {x}]}
  <1>3. 0 \in P
    <2>1. ASSUME NEW s \in SUBSET (1..n), s \subseteq 1..0
          PROVE  g[s] \in Int /\ \A x \in s : g[s] = f[x] + g[s \ {x}]
      <3>1. s = {}
        BY <2>1
      <3>2. g[s] = 0
        BY <1>2, <3>1
      <3> QED BY <3>1, <3>2
    <2> QED BY <2>1
  <1>4. ASSUME NEW m \in Nat, m \in P
        PROVE  m + 1 \in P
    <2>1. ASSUME NEW s \in SUBSET (1..n), s \subseteq 1 .. m + 1
          PROVE  g[s] \in Int /\ \A x \in s : g[s] = f[x] + g[s \ {x}]
      <3>1. CASE s = {}
        <4>1. g[s] = 0
          BY <1>2, <3>1
        <4> QED BY <3>1, <4>1
      <3>2. CASE s # {}
        <4> DEFINE t == Top(s)
        <4>1. /\ t \in s /\ s \ {t} \in SUBSET (1..m) /\ s \ {t} \in SUBSET (1..n)
              /\ t \in 1..n
          BY <2>1, <3>2, TopOf
        <4>2. g[s] = f[t] + g[s \ {t}] /\ f[t] \in Int
          BY <1>2, <3>2, <4>1
        <4>3. g[s \ {t}] \in Int /\ \A x \in s \ {t} : g[s \ {t}] = f[x] + g[(s \ {t}) \ {x}]
          <5> HIDE DEF t
          <5> QED BY <1>4, <4>1
        <4>4. ASSUME NEW x \in s, x # t
              PROVE  g[s] = f[x] + g[s \ {x}]
          <5>1. s \ {x} \in SUBSET (1..n) /\ s \ {x} # {} /\ Top(s \ {x}) = t
            <6>1. \A y \in s : y \in 1..n /\ t >= y
              <7>1. ASSUME NEW y \in s PROVE y \in 1..n /\ t >= y
                <8>1. y = t \/ y \in 1 .. t - 1
                  BY TopOf, <3>2
                <8> HIDE DEF t
                <8> QED BY <4>1, <8>1
              <7> QED BY <7>1
            <6>2. t \in s \ {x}
              BY <4>1, <4>4
            <6> HIDE DEF t
            <6>3. \A z \in s \ {x} : (\A y \in s \ {x} : z >= y) => z = t
              BY <6>1, <6>2
            <6> QED BY <6>1, <6>2, <6>3 DEF Top
          <5>2. g[s \ {x}] = f[t] + g[(s \ {x}) \ {t}]
            BY <1>2, <5>1
          <5>3. (s \ {x}) \ {t} = (s \ {t}) \ {x}
            OBVIOUS
          <5>4. (s \ {t}) \ {x} \in SUBSET (1..n) /\ (s \ {t}) \ {x} \subseteq 1..m
            BY <4>1
          <5>5. g[(s \ {t}) \ {x}] \in Int
            BY <1>4, <5>4
          <5>6. f[x] \in Int
            BY <4>4
          <5> HIDE DEF t
          <5>7. g[s \ {t}] = f[x] + g[(s \ {t}) \ {x}]
            BY <4>3, <4>4
          <5>8. f[t] \in Int /\ g[s] = f[t] + (f[x] + g[(s \ {t}) \ {x}])
            BY <4>2, <5>7
          <5>9. g[s \ {x}] = f[t] + g[(s \ {t}) \ {x}]
            BY <5>2, <5>3
          <5> HIDE DEF P
          <5> QED BY ONLY <5>5, <5>6, <5>8, <5>9
        <4> HIDE DEF t
        <4>5. g[s] \in Int
          BY <4>2, <4>3
        <4> QED BY <4>2, <4>4, <4>5
      <3> QED BY <3>1, <3>2
    <2> QED BY <2>1
  <1> HIDE DEF P
  <1>5. n \in P
    BY <1>3, <1>4, SetInduction
  <1>6. \A s \in SUBSET (1..n) : g[s] \in Int /\ \A x \in s : g[s] = f[x] + g[s \ {x}]
    BY <1>5 DEF P
  <1>7. g[{}] = 0
    BY <1>2
  <1> QED BY <1>6, <1>7 DEF IsSum

(* Chosen function that is a sum gives this sum. *)
LEMMA SumIsUnique ==
  ASSUME NEW n \in Nat, NEW f, NEW g, IsSum(f, n, g)
  PROVE  Sum(f, n) = g[1..n]
  <1> DEFINE it == CHOOSE h : Summing(f, 1..n, h)
             next(h, s) == IF s = {} THEN 0 ELSE f[Chosen(s)] + h[s \ {Chosen(s)}]
  <1>1. \A s : s # {} => Chosen(s) \in s
    BY DEF Chosen
  <1>2. Summing(f, 1..n, it)
    <2> DEFINE h == [s \in SUBSET (1..n) |-> g[s]]
    <2>1. ASSUME NEW s \in SUBSET (1..n)
          PROVE  g[s] = next(h, s)
      <3>1. CASE s = {}
        BY <3>1 DEF IsSum
      <3>2. CASE s # {}
        <4>1. Chosen(s) \in s /\ s \ {Chosen(s)} \in SUBSET (1..n)
          BY <1>1, <3>2
        <4>2. h[s \ {Chosen(s)}] = g[s \ {Chosen(s)}]
          BY <4>1
        <4>3. g[s] = f[Chosen(s)] + g[s \ {Chosen(s)}]
          BY <4>1 DEF IsSum
        <4> HIDE DEF h
        <4> QED BY <3>2, <4>2, <4>3
      <3> QED BY <3>1, <3>2
    <2> HIDE DEF next
    <2>2. h = [s \in SUBSET (1..n) |-> next(h, s)]
      BY <2>1
    <2>3. Summing(f, 1..n, h)
      BY <2>2 DEF Summing, next
    <2> HIDE DEF h
    <2> QED BY <2>3
  <1> HIDE DEF it
  <1>3. \A s \in SUBSET (1..n) : it[s] = next(it, s)
    <2>1. it = [s \in SUBSET (1..n) |-> next(it, s)]
      BY <1>2 DEF Summing
    <2> HIDE DEF next
    <2> QED BY <2>1
  <1> HIDE DEF next
  <1> DEFINE P == {m \in Nat : \A s \in SUBSET (1..n) : Cardinality(s) = m => it[s] = g[s]}
  <1>4. \A s \in SUBSET (1..n) : IsFiniteSet(s) /\ Cardinality(s) \in Nat
    <2>1. IsFiniteSet(1..n)
      BY FS_Interval
    <2> QED BY <2>1, FS_Subset, FS_CardinalityType
  <1>5. 0 \in P
    <2>1. ASSUME NEW s \in SUBSET (1..n), Cardinality(s) = 0
          PROVE  it[s] = g[s]
      <3>1. s = {}
        BY <1>4, <2>1, FS_EmptySet
      <3> QED BY <1>3, <3>1 DEF next, IsSum
    <2> QED BY <2>1
  <1>6. ASSUME NEW m \in Nat, m \in P
        PROVE  m + 1 \in P
    <2>1. ASSUME NEW s \in SUBSET (1..n), Cardinality(s) = m + 1
          PROVE  it[s] = g[s]
      <3>1. s # {}
        BY <2>1, FS_EmptySet
      <3>2. Chosen(s) \in s /\ s \ {Chosen(s)} \in SUBSET (1..n)
        BY <1>1, <3>1
      <3>3. Cardinality(s \ {Chosen(s)}) = m
        BY <1>4, <2>1, <3>2, FS_RemoveElement
      <3>4. it[s \ {Chosen(s)}] = g[s \ {Chosen(s)}]
        BY <1>6, <3>2, <3>3
      <3>5. it[s] = f[Chosen(s)] + it[s \ {Chosen(s)}]
        BY <1>3, <3>1 DEF next
      <3>6. g[s] = f[Chosen(s)] + g[s \ {Chosen(s)}]
        BY <3>2 DEF IsSum
      <3> HIDE DEF P
      <3> QED BY <3>4, <3>5, <3>6
    <2> QED BY <2>1
  <1> HIDE DEF P
  <1>7. \A m \in Nat : m \in P
    BY <1>5, <1>6, SetInduction
  <1>8. it[1..n] = g[1..n]
    <2>1. 1..n \in SUBSET (1..n)
      OBVIOUS
    <2>2. Cardinality(1..n) \in P /\ Cardinality(1..n) \in Nat
      BY <1>4, <1>7, <2>1
    <2> QED BY <2>1, <2>2 DEF P
  <1>9. Sum(f, n) = it[1..n]
    BY SumIsChosen DEF it
  <1> QED BY <1>8, <1>9

(* What a sum is: nothing, and one number more after each step. *)
LEMMA SumSteps ==
  ASSUME NEW f, NEW n \in Nat, \A i \in 1..n : f[i] \in Int
  PROVE  /\ Sum(f, 0) = 0
         /\ \A k \in 1..n : Sum(f, k) = Sum(f, k - 1) + f[k]
         /\ \A k \in 0..n : Sum(f, k) \in Int
  <1>1. PICK g : IsSum(f, n, g)
    BY SumFromTop
  <1>3. ASSUME NEW k \in 0..n
        PROVE  Sum(f, k) = g[1..k] /\ Sum(f, k) \in Int
    <2>1. \A x \in 1..k : x \in 1..n
      OBVIOUS
    <2>2. 1..k \in SUBSET (1..n) /\ \A s \in SUBSET (1..k) : s \in SUBSET (1..n)
      BY <2>1
    <2>3. IsSum(f, k, g)
      BY <1>1, <2>2 DEF IsSum
    <2>4. k \in Nat
      OBVIOUS
    <2>5. Sum(f, k) = g[1..k]
      BY <2>3, <2>4, SumIsUnique
    <2> QED BY <1>1, <2>2, <2>5 DEF IsSum
  <1>4. Sum(f, 0) = 0
    <2>1. 1..0 = {} /\ 0 \in 0..n
      OBVIOUS
    <2> QED BY <1>1, <1>3, <2>1 DEF IsSum
  <1>5. ASSUME NEW k \in 1..n
        PROVE  Sum(f, k) = Sum(f, k - 1) + f[k]
    <2>1. k \in 0..n /\ k - 1 \in 0..n /\ k \in 1..k
      OBVIOUS
    <2>2. (1..k) \ {k} = 1 .. k - 1
      OBVIOUS
    <2>3. \A x \in 1..k : x \in 1..n
      OBVIOUS
    <2>4. g[1..k] = f[k] + g[1 .. k - 1]
      <3>1. 1..k \in SUBSET (1..n)
        BY <2>3
      <3>2. g[1..k] = f[k] + g[(1..k) \ {k}]
        BY <1>1, <2>1, <3>1 DEF IsSum
      <3> QED BY <2>2, <3>2
    <2>5. Sum(f, k) = g[1..k] /\ Sum(f, k - 1) = g[1 .. k - 1] /\ g[1 .. k - 1] \in Int
      BY <1>3, <2>1
    <2>6. f[k] \in Int
      OBVIOUS
    <2> QED BY <2>4, <2>5, <2>6
  <1> QED BY <1>3, <1>4, <1>5

-----------------------------------------------------------------------------
(* Sequences strung together. *)

(* Where the members of each sequence are: pos[i] is where the i-th ends.  *)
IsFlat(seqs, n, flat, pos) ==
  /\ pos \in [0..n -> Nat] /\ pos[0] = 0 /\ Len(flat) = pos[n]
  /\ \A i \in 1..n : /\ pos[i] = pos[i - 1] + Len(seqs[i])
                     /\ \A j \in 1..Len(seqs[i]) : flat[pos[i - 1] + j] = seqs[i][j]

(* So is the concatenation of sequences. *)
LEMMA FlattenIsFolded ==
  ASSUME NEW S, NEW n \in Nat \ {0}, NEW seqs \in [1..n -> Seq(S)], NEW h,
         h[0] = <<>>, \A k \in 1..n : h[k] = h[k - 1] \o seqs[k],
         \A k \in 0..n : h[k] \in Seq(S)
  PROVE  X!FlattenSeq(seqs) = h[n] /\ C!FlattenSeq(seqs) = h[n]
  <1> DEFINE next(f, i) == IF i = 1 THEN seqs[i] ELSE f[i - 1] \o seqs[i]
             Rec(f) == f = [i \in 1..n |-> next(f, i)]
             it == CHOOSE f : Rec(f)
             g == [i \in 1..n |-> h[i]]
  <1>1. Rec(g)
    <2>1. ASSUME NEW i \in 1..n PROVE h[i] = next(g, i)
      <3>1. CASE i = 1
        <4>1. h[1] = h[0] \o seqs[1] /\ seqs[1] \in Seq(S)
          <5>1. 1 \in 1..n /\ 1 - 1 = 0
            OBVIOUS
          <5> QED BY <5>1
        <4>2. <<>> \o seqs[1] = seqs[1]
          BY <4>1
        <4> QED BY <3>1, <4>1, <4>2
      <3>2. CASE i # 1
        <4>1. i - 1 \in 1..n
          <5>1. i \in Nat /\ i >= 1 /\ i <= n /\ i # 1
            BY <3>2
          <5> QED BY ONLY <5>1, n \in Nat \ {0}
        <4>2. g[i - 1] = h[i - 1]
          BY <4>1
        <4> HIDE DEF g
        <4> QED BY <3>2, <4>1, <4>2
      <3> QED BY <3>1, <3>2
    <2> HIDE DEF next
    <2> QED BY <2>1
  <1>2. Rec(it)
    <2> HIDE DEF Rec, g
    <2> QED BY <1>1
  <1>3. \A i \in 1..n : it[i] = next(it, i)
    <2> HIDE DEF it, next
    <2> QED BY <1>2
  <1> HIDE DEF it
  <1> DEFINE P == {m \in Nat : m \in 1..n => it[m] = h[m]}
  <1>4. 0 \in P
    OBVIOUS
  <1>5. ASSUME NEW m \in Nat, m \in P PROVE m + 1 \in P
    <2>1. CASE m + 1 \in 1..n /\ m # 0
      <3>1. it[m + 1] = it[m] \o seqs[m + 1] /\ m \in 1..n
        <4>1. (m + 1) - 1 = m /\ m + 1 # 1 /\ m \in 1..n
          BY ONLY <2>1, m \in Nat, n \in Nat \ {0}
        <4>2. it[m + 1] = next(it, m + 1)
          BY <1>3, <2>1
        <4> QED BY <4>1, <4>2
      <3>2. h[m + 1] = h[m] \o seqs[m + 1]
        <4>1. (m + 1) - 1 = m
          OBVIOUS
        <4> QED BY <2>1, <4>1
      <3>3. it[m] = h[m]
        BY <1>5, <3>1
      <3>4. it[m + 1] = h[m + 1]
        BY ONLY <3>1, <3>2, <3>3
      <3> QED BY <3>4
    <2>2. CASE m = 0
      <3>0. 1 \in 1..n /\ 1 - 1 = 0
        OBVIOUS
      <3>1. it[1] = seqs[1]
        <4>1. it[1] = next(it, 1)
          BY <1>3, <3>0
        <4> QED BY <4>1
      <3>2. h[1] = <<>> \o seqs[1] /\ seqs[1] \in Seq(S)
        BY <3>0
      <3>3. h[1] = seqs[1]
        BY <3>2
      <3> HIDE DEF next
      <3> QED BY <2>2, <3>1, <3>3
    <2>3. CASE m + 1 \notin 1..n
      BY <2>3
    <2> QED BY <2>1, <2>2, <2>3
  <1> HIDE DEF P
  <1>6. n \in P
    BY <1>4, <1>5, SetInduction
  <1>7. it[n] = h[n]
    BY <1>6 DEF P
  <1>8. Len(seqs) = n
    OBVIOUS
  <1>9. X!FlattenSeq(seqs) = it[n] /\ C!FlattenSeq(seqs) = it[n]
    BY <1>8 DEF X!FlattenSeq, C!FlattenSeq, it
  <1> QED BY <1>7, <1>9

LEMMA ConcatAt ==
  ASSUME NEW S, NEW s \in Seq(S), NEW u \in Seq(S)
  PROVE  /\ s \o u \in Seq(S) /\ Len(s \o u) = Len(s) + Len(u)
         /\ \A j \in 1..Len(s) : (s \o u)[j] = s[j]
         /\ \A j \in 1..Len(u) : (s \o u)[Len(s) + j] = u[j]
  OBVIOUS

(* Every member of a concatenation has its place in one of the sequences. *)
LEMMA FlattenPlaces ==
  ASSUME NEW S, NEW n \in Nat, NEW seqs \in [1..n -> Seq(S)]
  PROVE  /\ X!FlattenSeq(seqs) = C!FlattenSeq(seqs)
         /\ X!FlattenSeq(seqs) \in Seq(S)
         /\ \E pos : IsFlat(seqs, n, X!FlattenSeq(seqs), pos)
  <1>1. PICK h : /\ h[0] = <<>>
                 /\ \A k \in 1..n : h[k] = h[k - 1] \o seqs[k]
    <2>1. PICK h : Folds("concat", <<>>, seqs, n, h)
      BY FoldSteps
    <2> QED BY <2>1 DEF Folds, Step
  <1> DEFINE P == {k \in Nat : k <= n => h[k] \in Seq(S)}
  <1>2. 0 \in P
    <2>1. <<>> \in Seq(S)
      OBVIOUS
    <2> QED BY <1>1, <2>1
  <1>3. ASSUME NEW k \in Nat, k \in P PROVE k + 1 \in P
    <2>1. CASE k + 1 <= n
      <3>1. k + 1 \in 1..n /\ (k + 1) - 1 = k /\ k <= n
        BY <2>1
      <3>2. h[k + 1] = h[k] \o seqs[k + 1]
        BY <1>1, <3>1
      <3>3. h[k] \in Seq(S) /\ seqs[k + 1] \in Seq(S)
        BY <1>3, <3>1
      <3>4. h[k + 1] \in Seq(S)
        BY <3>2, <3>3
      <3> QED BY <3>4
    <2> QED BY <2>1
  <1> HIDE DEF P
  <1>4. \A k \in 0..n : h[k] \in Seq(S)
    <2>1. \A k \in Nat : k \in P
      BY <1>2, <1>3, SetInduction
    <2> QED BY <2>1 DEF P
  <1> DEFINE pos == [i \in 0..n |-> Len(h[i])]
  <1>5. /\ pos \in [0..n -> Nat] /\ pos[0] = 0
        /\ \A i \in 1..n : pos[i] = pos[i - 1] + Len(seqs[i])
    <2>1. \A i \in 0..n : Len(h[i]) \in Nat
      BY <1>4
    <2>2. ASSUME NEW i \in 1..n PROVE pos[i] = pos[i - 1] + Len(seqs[i])
      <3>1. i \in 0..n /\ i - 1 \in 0..n
        OBVIOUS
      <3>2. h[i - 1] \in Seq(S) /\ seqs[i] \in Seq(S)
        BY <1>4, <3>1
      <3>3. Len(h[i]) = Len(h[i - 1]) + Len(seqs[i])
        <4>1. h[i] = h[i - 1] \o seqs[i]
          BY <1>1
        <4> QED BY <3>2, <4>1, ConcatAt
      <3> QED BY <3>1, <3>3
    <2>3. Len(h[0]) = 0 /\ 0 \in 0..n
      BY <1>1
    <2> QED BY <2>1, <2>2, <2>3
  <1> DEFINE Q == {k \in Nat : k <= n =>
                     \A i \in 1..k : \A j \in 1..Len(seqs[i]) : h[k][pos[i - 1] + j] = seqs[i][j]}
  <1>6. 0 \in Q
    <2>1. \A i \in 1..0 : FALSE
      OBVIOUS
    <2> QED BY <2>1
  <1>7. ASSUME NEW k \in Nat, k \in Q PROVE k + 1 \in Q
    <2> HIDE DEF pos
    <2>0. SUFFICES ASSUME k + 1 <= n, NEW i \in 1 .. k + 1, NEW j \in 1..Len(seqs[i])
                   PROVE  h[k + 1][pos[i - 1] + j] = seqs[i][j]
      <3> SUFFICES ASSUME k + 1 <= n
                   PROVE  \A i \in 1 .. k + 1 : \A j \in 1..Len(seqs[i]) :
                            h[k + 1][pos[i - 1] + j] = seqs[i][j]
        OBVIOUS
      <3> QED OBVIOUS
    <2>1. k + 1 \in 1..n /\ (k + 1) - 1 = k /\ k <= n /\ k \in 0..n
      BY ONLY k + 1 <= n, k \in Nat, n \in Nat
    <2>2. h[k + 1] = h[k] \o seqs[k + 1]
      BY <1>1, <2>1
    <2>3. h[k] \in Seq(S) /\ seqs[k + 1] \in Seq(S) /\ pos[k] = Len(h[k])
      BY <1>4, <2>1 DEF pos
    <2>6. /\ \A x \in 1..Len(h[k]) : (h[k] \o seqs[k + 1])[x] = h[k][x]
          /\ \A x \in 1..Len(seqs[k + 1]) :
               (h[k] \o seqs[k + 1])[Len(h[k]) + x] = seqs[k + 1][x]
      <3> DEFINE a == h[k]  b == seqs[k + 1]
      <3>1. a \in Seq(S) /\ b \in Seq(S)
        BY <2>3
      <3> HIDE DEF a, b
      <3>2. /\ \A x \in 1..Len(a) : (a \o b)[x] = a[x]
            /\ \A x \in 1..Len(b) : (a \o b)[Len(a) + x] = b[x]
        BY ONLY <3>1, ConcatAt
      <3> QED BY <3>2 DEF a, b
    <2>4. CASE i = k + 1
      <3>1. pos[i - 1] + j = Len(h[k]) + j /\ j \in 1..Len(seqs[k + 1])
        BY <2>1, <2>3, <2>4
      <3>2. (h[k] \o seqs[k + 1])[Len(h[k]) + j] = seqs[k + 1][j]
        BY <2>6, <3>1
      <3> QED BY <2>2, <2>4, <3>1, <3>2
    <2>5. CASE i \in 1..k
      <3>1. h[k][pos[i - 1] + j] = seqs[i][j]
        BY <1>7, <2>1, <2>5
      <3>2. i \in 1..n /\ i - 1 \in 0..n /\ i \in 0..n /\ pos[i - 1] \in Nat
        BY <1>5, <2>1, <2>5
      <3>3. pos[i - 1] + j \in 1..pos[i]
        <4>1. pos[i] = pos[i - 1] + Len(seqs[i]) /\ seqs[i] \in Seq(S)
          BY <1>5, <3>2
        <4>2. Len(seqs[i]) \in Nat /\ j \in 1..Len(seqs[i])
          BY <4>1
        <4> HIDE DEF pos, Q
        <4> QED BY ONLY <3>2, <4>1, <4>2
      <3>4. pos[i] <= pos[k]
        <4> DEFINE R == {l \in Nat : i + l <= n => pos[i] <= pos[i + l]}
        <4> HIDE DEF pos, Q
        <4>1. 0 \in R
          BY <1>5, <3>2
        <4>2. ASSUME NEW l \in Nat, l \in R PROVE l + 1 \in R
          <5>1. CASE i + (l + 1) <= n
            <6>1. /\ i + (l + 1) \in 1..n /\ (i + (l + 1)) - 1 = i + l /\ i + l <= n
                  /\ i + l \in 0..n
              BY <3>2, <5>1
            <6>2. pos[i + (l + 1)] = pos[i + l] + Len(seqs[i + (l + 1)])
              BY <1>5, <6>1
            <6>3. seqs[i + (l + 1)] \in Seq(S)
              BY <6>1
            <6>4. Len(seqs[i + (l + 1)]) \in Nat /\ pos[i + l] \in Nat /\ pos[i] \in Nat
              BY <1>5, <3>2, <6>1, <6>3
            <6>5. pos[i] <= pos[i + l]
              BY <4>2, <6>1
            <6> DEFINE x == pos[i]
                       y == pos[i + l]
                       z == pos[i + (l + 1)]
                       u == Len(seqs[i + (l + 1)])
            <6>6. z = y + u /\ u \in Nat /\ y \in Nat /\ x \in Nat /\ x <= y
              BY <6>2, <6>4, <6>5
            <6> HIDE DEF x, y, z, u
            <6>7. x <= z
              BY ONLY <6>6
            <6> QED BY <6>7 DEF x, z
          <5> QED BY <5>1
        <4> HIDE DEF R
        <4>3. k - i \in Nat /\ i + (k - i) = k
          BY <2>5
        <4>4. k - i \in R
          BY <4>1, <4>2, <4>3, SetInduction
        <4> QED BY <2>1, <4>3, <4>4 DEF R
      <3>5. pos[i - 1] + j \in 1..Len(h[k])
        <4>1. pos[i] \in Nat /\ pos[k] \in Nat
          BY <1>5, <2>1, <3>2
        <4> HIDE DEF pos, Q
        <4> QED BY <2>3, <3>3, <3>4, <4>1
      <3>6. (h[k] \o seqs[k + 1])[pos[i - 1] + j] = h[k][pos[i - 1] + j]
        <4> HIDE DEF pos, Q
        <4> QED BY <2>6, <3>5
      <3> HIDE DEF pos, Q
      <3> QED BY <2>2, <3>1, <3>6
    <2> QED BY <2>4, <2>5
  <1> HIDE DEF Q
  <1>8. n \in Q
    BY <1>6, <1>7, SetInduction
  <1>9. IsFlat(seqs, n, h[n], pos)
    <2>1. \A i \in 1..n : \A j \in 1..Len(seqs[i]) : h[n][pos[i - 1] + j] = seqs[i][j]
      BY <1>8 DEF Q
    <2>2. Len(h[n]) = pos[n]
      OBVIOUS
    <2> HIDE DEF pos
    <2> QED BY <1>5, <2>1, <2>2 DEF IsFlat
  <1>10. X!FlattenSeq(seqs) = h[n] /\ C!FlattenSeq(seqs) = h[n]
    <2>1. CASE n = 0
      <3>1. Len(seqs) = 0 /\ seqs = <<>>
        BY <2>1
      <3>2. X!FlattenSeq(seqs) = seqs /\ C!FlattenSeq(seqs) = seqs
        BY <3>1 DEF X!FlattenSeq, C!FlattenSeq
      <3> QED BY <1>1, <2>1, <3>1, <3>2
    <2>2. CASE n # 0
      <3> HIDE DEF pos
      <3> QED BY <1>1, <1>4, <2>2, FlattenIsFolded
    <2> QED BY <2>1, <2>2
  <1>11. h[n] \in Seq(S)
    BY <1>4
  <1> HIDE DEF pos
  <1> QED BY <1>9, <1>10, <1>11

-----------------------------------------------------------------------------
(* An entry is read line by line.  The structures and the states of the    *)
(* parser are written out, field by field.                                 *)
Disc(id, cid, lookup, n, length, name, year, rev, complete, len, title) ==
  [id |-> id, cid |-> cid, lookup |-> lookup, n |-> n, length |-> length, name |-> name,
   year |-> year, rev |-> rev, complete |-> complete, len |-> len, title |-> title]

St(mode, prev, cur, nr, old, d) ==
  [mode |-> mode, prev |-> prev, cur |-> cur, nr |-> nr, old |-> old, d |-> d]

Pieces == STRING \cup {"Track"}    \* the default title is a string
Lens == [1..MaxTracks -> Int]
Titles == [1..MaxTracks -> Seq(Pieces) \ {<<>>}]

(* A disc information structure. *)
IsStruct(d) ==
  /\ d = Disc(d.id, d.cid, d.lookup, d.n, d.length, d.name, d.year, d.rev, d.complete,
              d.len, d.title)
  /\ d.len \in Lens /\ d.title \in Titles

(* The structure with other lengths, and with other titles. *)
WithLen(d, len) == Disc(d.id, d.cid, d.lookup, d.n, d.length, d.name, d.year, d.rev,
                        d.complete, len, d.title)
WithHead(d, n, length, len) == Disc(d.id, d.cid, d.lookup, n, length, d.name, d.year, d.rev,
                                    d.complete, len, d.title)
WithTitles(d, n, title) == Disc(d.id, d.cid, d.lookup, n, d.length, d.name, d.year, d.rev,
                                d.complete, d.len, title)

(* One lemma for each kind of line: the state after it. *)
LEMMA OffsetsLine ==
  ASSUME NEW s, NEW v
  PROVE  X!OnLine(St(0, s.prev, s.cur, s.nr, s.old, s.d), X!Line("Offsets", v))
         = St(1, s.prev, s.cur, s.nr, s.old, s.d)
  BY DEF X!OnLine, X!Line, St

LEMMA OffsetLine ==
  ASSUME NEW d, NEW p, NEW c, NEW k, NEW o, NEW f, NEW v, v # 0,
         NEW g, g = IF k \in 1..MaxTracks /\ f[k] = 0 THEN [f EXCEPT ![k] = v - p] ELSE f
  PROVE  X!OnLine(St(1, p, c, k, o, WithLen(d, f)), X!Line("Offset", v))
         = St(1, v, v, k + 1, o, WithLen(d, g))
  <1> DEFINE d0 == WithLen(d, f)
             d1 == WithLen(d, g)
             s == St(1, p, c, k, o, d0)
  <1>1. X!OnLine(s, X!Line("Offset", v)) = X!OnOffset(s, v)
    <2> HIDE DEF s
    <2> QED BY DEF X!OnLine, X!Line
  <1>2. s.mode = 1 /\ s.prev = p /\ s.nr = k /\ s.d.len = f
    <2>1. d0.len = f
      BY DEF WithLen, Disc
    <2> HIDE DEF d0
    <2> QED BY <2>1 DEF St
  <1>3. X!OnOffset(s, v) = [s EXCEPT !.prev = v, !.cur = v, !.nr = k + 1, !.d.len = g]
    <2> HIDE DEF s, d0
    <2>1. X!OnOffset(s, v)
          = [s EXCEPT !.prev = v, !.cur = v, !.nr = s.nr + 1,
               !.d.len = IF s.nr \in 1..MaxTracks /\ s.d.len[s.nr] = 0
                         THEN [s.d.len EXCEPT ![s.nr] = v - s.prev] ELSE s.d.len]
      BY <1>2 DEF X!OnOffset
    <2> QED BY <1>2, <2>1
  <1>4. [s EXCEPT !.prev = v] = St(1, v, c, k, o, d0)
    <2> HIDE DEF d0
    <2> QED BY DEF St
  <1>5. [St(1, v, c, k, o, d0) EXCEPT !.cur = v] = St(1, v, v, k, o, d0)
    <2> HIDE DEF d0
    <2> QED BY DEF St
  <1>6. [St(1, v, v, k, o, d0) EXCEPT !.nr = k + 1] = St(1, v, v, k + 1, o, d0)
    <2> HIDE DEF d0
    <2> QED BY DEF St
  <1>7. [d0 EXCEPT !.len = g] = d1
    BY DEF WithLen, Disc
  <1>8. [St(1, v, v, k + 1, o, d0) EXCEPT !.d.len = g] = St(1, v, v, k + 1, o, d1)
    <2> HIDE DEF d0, d1
    <2> QED BY <1>7 DEF St
  <1>9. X!OnLine(s, X!Line("Offset", v)) = St(1, v, v, k + 1, o, d1)
    <2> HIDE DEF s, d0, d1
    <2> QED BY <1>1, <1>3, <1>4, <1>5, <1>6, <1>8
  <1> QED BY <1>9

(* The updates of a state, one field at a time. *)
LEMMA SetState ==
  ASSUME NEW m, NEW p, NEW c, NEW k, NEW o, NEW d, NEW v
  PROVE  /\ [St(m, p, c, k, o, d) EXCEPT !.mode = v] = St(v, p, c, k, o, d)
         /\ [St(m, p, c, k, o, d) EXCEPT !.old = v] = St(m, p, c, k, v, d)
         /\ [St(m, p, c, k, o, d) EXCEPT !.d = v] = St(m, p, c, k, o, v)
  BY DEF St

NewLength(d, secs) == IF d.length = 0 THEN secs * Frames ELSE d.length
NewLast(f, n, secs, c) == IF f[n] = 0 THEN [f EXCEPT ![n] = secs * Frames - c] ELSE f

LEMMA LengthLine ==
  ASSUME NEW d, NEW p, NEW c, NEW n \in 1..MaxTracks, NEW o, NEW f, NEW secs
  PROVE  X!OnLine(St(1, p, c, n, o, WithLen(d, f)), X!Line("Length", secs))
         = St(2, p, c, n, o, WithHead(d, n, NewLength(d, secs), NewLast(f, n, secs, c)))
  <1> DEFINE d0 == WithLen(d, f)
             s == St(1, p, c, n, o, d0)
             length == IF d0.length = 0 THEN secs * Frames ELSE d0.length
             g == IF d0.len[n] = 0 THEN [d0.len EXCEPT ![n] = secs * Frames - c] ELSE d0.len
             d1 == [d0 EXCEPT !.length = length]
             d2 == [d1 EXCEPT !.n = n]
             d3 == [d2 EXCEPT !.len = g]
  <1>1. X!OnLine(s, X!Line("Length", secs)) = X!OnLength(s, secs)
    <2> HIDE DEF s
    <2> QED BY DEF X!OnLine, X!Line
  <1>2. n <= MaxTracks
    OBVIOUS
  <1>3. /\ s.mode = 1 /\ s.nr = n /\ s.cur = c
        /\ s.d.length = d0.length /\ s.d.n = d0.n /\ s.d.len = d0.len
    <2> HIDE DEF d0
    <2> QED BY DEF St
  <1>4. X!OnLength(s, secs) = [s EXCEPT !.mode = 2, !.d.length = length, !.d.n = n, !.d.len = g]
    <2> HIDE DEF s, d0
    <2> QED BY <1>2, <1>3 DEF X!OnLength, Frames, X!Frames
  <1> HIDE DEF length, g, d3
  <1>5. d3 = WithHead(d, n, length, g)
    <2>1. d1 = WithHead(d, d.n, length, f)
      BY DEF WithLen, WithHead, Disc
    <2> HIDE DEF d0, d1
    <2>2. d2 = WithHead(d, n, length, f)
      <3>1. [WithHead(d, d.n, length, f) EXCEPT !.n = n] = WithHead(d, n, length, f)
        BY DEF WithHead, Disc
      <3> QED BY <2>1, <3>1
    <2> HIDE DEF d2
    <2>3. [WithHead(d, n, length, f) EXCEPT !.len = g] = WithHead(d, n, length, g)
      BY DEF WithHead, Disc
    <2> QED BY <2>2, <2>3 DEF d3
  <1>6. [s EXCEPT !.mode = 2, !.d.length = length, !.d.n = n, !.d.len = g] = St(2, p, c, n, o, d3)
    <2>1. [s EXCEPT !.mode = 2] = St(2, p, c, n, o, d0)
      <3> HIDE DEF d0
      <3> QED BY SetState
    <2>2. [St(2, p, c, n, o, d0) EXCEPT !.d.length = length] = St(2, p, c, n, o, d1)
      <3> HIDE DEF d0
      <3> QED BY DEF St
    <2> HIDE DEF d1
    <2>3. [St(2, p, c, n, o, d1) EXCEPT !.d.n = n] = St(2, p, c, n, o, d2)
      BY DEF St
    <2> HIDE DEF d2
    <2>4. [St(2, p, c, n, o, d2) EXCEPT !.d.len = g] = St(2, p, c, n, o, d3)
      BY DEF St, d3
    <2> HIDE DEF s, d0
    <2> QED BY <2>1, <2>2, <2>3, <2>4
  <1>7. length = NewLength(d, secs) /\ g = NewLast(f, n, secs, c)
    BY DEF WithLen, Disc, length, g, NewLength, NewLast
  <1>8. X!OnLine(s, X!Line("Length", secs)) = St(2, p, c, n, o, WithHead(d, n, length, g))
    <2> HIDE DEF s, d0, d1, d2
    <2> QED BY <1>1, <1>4, <1>5, <1>6
  <1> QED BY <1>7, <1>8

LEMMA RevisionLine ==
  ASSUME NEW id, NEW cid, NEW lookup, NEW n, NEW length, NEW name, NEW year, NEW rev,
         NEW complete, NEW len, NEW title, NEW p, NEW c, NEW k, NEW o, NEW r \in Nat
  PROVE  X!OnLine(St(2, p, c, k, o, Disc(id, cid, lookup, n, length, name, year, rev, complete,
                                         len, title)), X!Line("Revision", r))
         = St(3, p, c, k, o, Disc(id, cid, lookup, n, length, name, year, r, complete, len,
                                  title))
  <1> DEFINE d == Disc(id, cid, lookup, n, length, name, year, rev, complete, len, title)
             s == St(2, p, c, k, o, d)
  <1>1. X!OnLine(s, X!Line("Revision", r)) = X!OnRevision(s, r)
    <2> HIDE DEF s
    <2> QED BY DEF X!OnLine, X!Line
  <1>2. X!OnRevision(s, r) = [s EXCEPT !.mode = 3, !.d.rev = r]
    <2> HIDE DEF d
    <2>1. s.mode = 2 /\ ~(r < 0)
      BY DEF St
    <2> QED BY <2>1 DEF X!OnRevision
  <1>3. [s EXCEPT !.mode = 3] = St(3, p, c, k, o, d)
    <2> HIDE DEF d
    <2> QED BY SetState
  <1>4. [St(3, p, c, k, o, d) EXCEPT !.d.rev = r] = St(3, p, c, k, o, [d EXCEPT !.rev = r])
    <2> HIDE DEF d
    <2> QED BY DEF St
  <1>5. [d EXCEPT !.rev = r] = Disc(id, cid, lookup, n, length, name, year, r, complete, len,
                                    title)
    BY DEF Disc
  <1> HIDE DEF s, d
  <1>6. X!OnLine(s, X!Line("Revision", r)) = St(3, p, c, k, o, [d EXCEPT !.rev = r])
    BY <1>1, <1>2, <1>3, <1>4
  <1> QED BY <1>5, <1>6 DEF s, d

LEMMA DiscIdLine ==
  ASSUME NEW id, NEW cid, NEW lookup, NEW n, NEW length, NEW name, NEW year, NEW rev,
         NEW complete, NEW len, NEW title, NEW p, NEW c, NEW k, NEW o, NEW v,
         NEW cid2, cid2 = IF cid = NoId THEN v ELSE cid,
         NEW id2, id2 = IF id = NoId THEN cid2 ELSE id
  PROVE  X!OnLine(St(3, p, c, k, o, Disc(id, cid, lookup, n, length, name, year, rev,
                                         complete, len, title)), X!Line("DISCID", v))
         = St(3, p, c, k, o, Disc(id2, cid2, lookup, n, length, name, year, rev, complete,
                                  len, title))
  <1> DEFINE d == Disc(id, cid, lookup, n, length, name, year, rev, complete, len, title)
             d1 == Disc(id, cid2, lookup, n, length, name, year, rev, complete, len, title)
             d2 == Disc(id2, cid2, lookup, n, length, name, year, rev, complete, len, title)
             s == St(3, p, c, k, o, d)
  <1>1. X!OnLine(s, X!Line("DISCID", v)) = X!OnDiscId(s, v)
    <2> HIDE DEF s
    <2> QED BY DEF X!OnLine, X!Line
  <1>2. s.d.cid = cid /\ s.d.id = id
    <2>1. d.cid = cid /\ d.id = id
      BY DEF Disc
    <2> HIDE DEF d
    <2> QED BY <2>1 DEF St
  <1>3. [d EXCEPT !.cid = cid2] = d1 /\ [d1 EXCEPT !.id = id2] = d2 /\ d1.id = id
    BY DEF Disc
  <1>4. [s EXCEPT !.d.cid = cid2] = St(3, p, c, k, o, d1)
    <2> HIDE DEF d, d1
    <2> QED BY <1>3 DEF St
  <1>5. X!OnDiscId(s, v) = [[s EXCEPT !.d.cid = cid2] EXCEPT !.d.id = id2]
    <2>1. St(3, p, c, k, o, d1).d = d1
      BY DEF St
    <2> HIDE DEF s, d, d1
    <2>2. [s EXCEPT !.d.cid = cid2].d.id = id
      BY <1>3, <1>4, <2>1
    <2> QED BY <1>2, <2>2 DEF X!OnDiscId, X!NoId, NoId
  <1>6. [St(3, p, c, k, o, d1) EXCEPT !.d.id = id2] = St(3, p, c, k, o, d2)
    <2> HIDE DEF d1, d2
    <2> QED BY <1>3 DEF St
  <1> HIDE DEF s, d, d1, d2
  <1>7. X!OnLine(s, X!Line("DISCID", v)) = St(3, p, c, k, o, d2)
    BY <1>1, <1>4, <1>5, <1>6
  <1> QED BY <1>7 DEF s, d, d2

LEMMA NameLine ==
  ASSUME NEW id, NEW cid, NEW lookup, NEW n, NEW length, NEW name, NEW year, NEW rev,
         NEW complete, NEW len, NEW title, NEW p, NEW c, NEW k, NEW o, NEW w
  PROVE  X!OnLine(St(3, p, c, k, o, Disc(id, cid, lookup, n, length, name, year, rev,
                                         complete, len, title)), X!Line("DTITLE", w))
         = St(3, p, c, k, o, Disc(id, cid, lookup, n, length, w, year, rev, complete,
                                  len, title))
  BY DEF X!OnLine, X!Line, St, Disc

LEMMA YearLine ==
  ASSUME NEW id, NEW cid, NEW lookup, NEW n, NEW length, NEW name, NEW year, NEW rev,
         NEW complete, NEW len, NEW title, NEW p, NEW c, NEW k, NEW o, NEW y,
         NEW year2, year2 = IF y = 0 THEN year ELSE y
  PROVE  X!OnLine(St(3, p, c, k, o, Disc(id, cid, lookup, n, length, name, year, rev,
                                         complete, len, title)), X!Line("DYEAR", y))
         = St(3, p, c, k, o, Disc(id, cid, lookup, n, length, name, year2, rev, complete,
                                  len, title))
  <1>2. CASE y = 0
    BY <1>2 DEF X!OnLine, X!Line, St, Disc
  <1>3. CASE y # 0
    BY <1>3 DEF X!OnLine, X!Line, St, Disc
  <1> QED BY <1>2, <1>3

NewCount(n, i) == IF n < i + 1 THEN i + 1 ELSE n
NewTitles(t, o, i, v) == [t EXCEPT ![i + 1] = IF o = i THEN t[i + 1] \o v ELSE v]

LEMMA TitleLine ==
  ASSUME NEW d, NEW p, NEW c, NEW k, NEW o, NEW n \in Nat, NEW t, NEW i \in Nat, NEW v,
         i < MaxTracks
  PROVE  X!OnLine(St(3, p, c, k, o, WithTitles(d, n, t)), X!TrackLine(i, v))
         = St(3, p, c, k, i, WithTitles(d, NewCount(n, i), NewTitles(t, o, i, v)))
  <1> DEFINE d0 == WithTitles(d, n, t)
             s == St(3, p, c, k, o, d0)
             w == IF o = i THEN t[i + 1] \o v ELSE v
             m == IF n < i + 1 THEN i + 1 ELSE n
             d1 == [d0 EXCEPT !.title[i + 1] = w]
             d2 == [d1 EXCEPT !.n = m]
  <1>1. X!OnLine(s, X!TrackLine(i, v)) = X!OnTitle(s, i, v)
    <2> HIDE DEF s
    <2> QED BY DEF X!OnLine, X!TrackLine
  <1>2. s.old = o /\ s.d = d0 /\ d0.title = t /\ d0.n = n
    BY DEF St, WithTitles, Disc
  <1>3. X!OnTitle(s, i, v) = [s EXCEPT !.old = i, !.d.title[i + 1] = w, !.d.n = m]
    <2> HIDE DEF s, d0
    <2> QED BY <1>2 DEF X!OnTitle
  <1> HIDE DEF w, m, d2
  <1>4. d2 = WithTitles(d, m, [t EXCEPT ![i + 1] = w])
    <2>1. d1 = WithTitles(d, n, [t EXCEPT ![i + 1] = w])
      BY DEF WithTitles, Disc
    <2> HIDE DEF d1
    <2>2. [WithTitles(d, n, [t EXCEPT ![i + 1] = w]) EXCEPT !.n = m]
          = WithTitles(d, m, [t EXCEPT ![i + 1] = w])
      BY DEF WithTitles, Disc
    <2> QED BY <2>1, <2>2 DEF d2
  <1>5. [s EXCEPT !.old = i, !.d.title[i + 1] = w, !.d.n = m] = St(3, p, c, k, i, d2)
    <2>1. [s EXCEPT !.old = i] = St(3, p, c, k, i, d0)
      <3> HIDE DEF d0
      <3> QED BY DEF St
    <2>2. [St(3, p, c, k, i, d0) EXCEPT !.d.title[i + 1] = w] = St(3, p, c, k, i, d1)
      <3> HIDE DEF d0
      <3> QED BY DEF St
    <2> HIDE DEF d1
    <2>3. [St(3, p, c, k, i, d1) EXCEPT !.d.n = m] = St(3, p, c, k, i, d2)
      BY DEF St, d2
    <2> HIDE DEF s, d0
    <2> QED BY <2>1, <2>2, <2>3
  <1>6. X!OnLine(s, X!TrackLine(i, v))
        = St(3, p, c, k, i, WithTitles(d, m, [t EXCEPT ![i + 1] = w]))
    <2> HIDE DEF s, d0, d1
    <2> QED BY <1>1, <1>3, <1>4, <1>5
  <1> QED BY <1>6 DEF m, w, NewCount, NewTitles

-----------------------------------------------------------------------------
(* Both writers of an entry begin with the same lines: the offsets, five   *)
(* lines more, and then the titles.                                        *)
Document(len, n, secs, rev, id, name, year, titles) ==
  <<X!Line("Offsets", 0)>> \o X!Offsets(len, n)
  \o <<X!Line("Length", secs), X!Line("Revision", rev), X!Line("DISCID", id),
       X!Line("DTITLE", name), X!Line("DYEAR", year)>>
  \o titles

(* Where its lines are. *)
HasLines(doc, len, n, secs, rev, id, name, year, titles) ==
  /\ DOMAIN doc = 1 .. n + 6 + Len(titles)
  /\ doc[1] = X!Line("Offsets", 0)
  /\ \A i \in 1..n : doc[1 + i] = X!Line("Offset", MsfOffset + Sum(len, i - 1))
  /\ doc[n + 2] = X!Line("Length", secs) /\ doc[n + 3] = X!Line("Revision", rev)
  /\ doc[n + 4] = X!Line("DISCID", id) /\ doc[n + 5] = X!Line("DTITLE", name)
  /\ doc[n + 6] = X!Line("DYEAR", year)
  /\ \A j \in 1..Len(titles) : doc[n + 6 + j] = titles[j]

(* Every line of an entry has its place. *)
LEMMA DocumentPlaces ==
  ASSUME NEW len, NEW n \in Nat, NEW secs, NEW rev, NEW id, NEW name, NEW year,
         NEW T, NEW titles \in Seq(T)
  PROVE  HasLines(Document(len, n, secs, rev, id, name, year, titles),
                  len, n, secs, rev, id, name, year, titles)
  <1> DEFINE doc == Document(len, n, secs, rev, id, name, year, titles)
             a == <<X!Line("Offsets", 0)>>
             off(i) == X!Line("Offset", MsfOffset + Sum(len, i - 1))
             b == [i \in 1..n |-> off(i)]
             c == <<X!Line("Length", secs), X!Line("Revision", rev), X!Line("DISCID", id),
                    X!Line("DTITLE", name), X!Line("DYEAR", year)>>
             U == T \cup {off(i) : i \in 1..n}
                    \cup {X!Line("Offsets", 0), X!Line("Length", secs),
                          X!Line("Revision", rev), X!Line("DISCID", id),
                          X!Line("DTITLE", name), X!Line("DYEAR", year)}
  <1>1. Document(len, n, secs, rev, id, name, year, titles) = ((a \o b) \o c) \o titles
    <2>1. ASSUME NEW i \in 1..n
          PROVE  X!Line("Offset", X!MsfOffset + X!SumFunctionOnSet(len, 1..(i - 1))) = off(i)
      <3>1. X!SumFunctionOnSet(len, 1..(i - 1)) = Sum(len, i - 1)
        BY SumsAgree
      <3> QED BY <3>1 DEF X!MsfOffset, MsfOffset
    <2>2. X!Offsets(len, n) = b
      <3> HIDE DEF off
      <3> QED BY <2>1 DEF X!Offsets
    <2> HIDE DEF a, b, c
    <2> QED BY <2>2 DEF Document, a, c
  <1>2. /\ a \in Seq(U) /\ Len(a) = 1 /\ a[1] = X!Line("Offsets", 0)
        /\ c \in Seq(U) /\ Len(c) = 5
    <2> HIDE DEF off
    <2> QED OBVIOUS
  <1>3. /\ c[1] = X!Line("Length", secs) /\ c[2] = X!Line("Revision", rev)
        /\ c[3] = X!Line("DISCID", id) /\ c[4] = X!Line("DTITLE", name)
        /\ c[5] = X!Line("DYEAR", year)
    OBVIOUS
  <1>4. b \in Seq(U) /\ Len(b) = n /\ \A i \in 1..n : b[i] = off(i)
    <2> HIDE DEF off
    <2>1. \A i \in 1..n : off(i) \in U
      OBVIOUS
    <2> HIDE DEF U
    <2>2. b \in [1..n -> U]
      BY <2>1
    <2> QED BY <2>2
  <1>5. titles \in Seq(U)
    <2>1. titles \in [1..Len(titles) -> U] /\ Len(titles) \in Nat
      <3>1. T \subseteq U
        OBVIOUS
      <3> HIDE DEF U
      <3> QED BY <3>1
    <2> HIDE DEF U
    <2> QED BY <2>1
  <1> HIDE DEF a, b, c, U, off, doc
  <1> DEFINE ab == a \o b
             abc == ab \o c
  <1>6. /\ ab \in Seq(U) /\ Len(ab) = 1 + n /\ ab[1] = a[1]
        /\ \A i \in 1..n : ab[1 + i] = b[i]
    <2>1. /\ a \o b \in Seq(U) /\ Len(a \o b) = Len(a) + Len(b)
          /\ \A j \in 1..Len(a) : (a \o b)[j] = a[j]
          /\ \A j \in 1..Len(b) : (a \o b)[Len(a) + j] = b[j]
      <3>1. a \in Seq(U) /\ b \in Seq(U)
        BY <1>2, <1>4
      <3> QED BY ONLY <3>1, ConcatAt
    <2> QED BY <1>2, <1>4, <2>1
  <1> HIDE DEF ab
  <1>7. /\ abc \in Seq(U) /\ Len(abc) = n + 6
        /\ \A j \in 1 .. n + 1 : abc[j] = ab[j]
        /\ \A j \in 1..5 : abc[n + 1 + j] = c[j]
    <2>1. /\ ab \o c \in Seq(U) /\ Len(ab \o c) = Len(ab) + Len(c)
          /\ \A j \in 1..Len(ab) : (ab \o c)[j] = ab[j]
          /\ \A j \in 1..Len(c) : (ab \o c)[Len(ab) + j] = c[j]
      <3>1. ab \in Seq(U) /\ c \in Seq(U)
        BY <1>2, <1>6
      <3> QED BY ONLY <3>1, ConcatAt
    <2>2. Len(ab) = n + 1
      BY <1>6
    <2> QED BY <1>2, <2>1, <2>2
  <1> HIDE DEF abc
  <1>8. /\ doc \in Seq(U) /\ Len(doc) = n + 6 + Len(titles)
        /\ \A j \in 1 .. n + 6 : doc[j] = abc[j]
        /\ \A j \in 1..Len(titles) : doc[n + 6 + j] = titles[j]
    <2>1. /\ abc \o titles \in Seq(U) /\ Len(abc \o titles) = Len(abc) + Len(titles)
          /\ \A j \in 1..Len(abc) : (abc \o titles)[j] = abc[j]
          /\ \A j \in 1..Len(titles) : (abc \o titles)[Len(abc) + j] = titles[j]
      <3>1. abc \in Seq(U) /\ titles \in Seq(U)
        BY <1>5, <1>7
      <3> QED BY ONLY <3>1, ConcatAt
    <2>2. doc = abc \o titles
      BY <1>1 DEF abc, ab, doc
    <2> QED BY <1>7, <2>1, <2>2
  <1>10. DOMAIN doc = 1 .. n + 6 + Len(titles)
    BY <1>8
  <1>11. doc[1] = X!Line("Offsets", 0)
    <2>1. 1 \in 1 .. n + 6 /\ 1 \in 1 .. n + 1
      OBVIOUS
    <2> QED BY <1>2, <1>6, <1>7, <1>8, <2>1
  <1>12. ASSUME NEW i \in 1..n PROVE doc[1 + i] = off(i)
    <2>1. 1 + i \in 1 .. n + 6 /\ 1 + i \in 1 .. n + 1
      OBVIOUS
    <2>2. doc[1 + i] = abc[1 + i]
      BY <1>8, <2>1
    <2>3. abc[1 + i] = ab[1 + i]
      BY <1>7, <2>1
    <2> QED BY <1>4, <1>6, <2>2, <2>3
  <1>13. \A j \in 1..5 : doc[n + 1 + j] = c[j]
    <2>1. \A j \in 1..5 : n + 1 + j \in 1 .. n + 6
      OBVIOUS
    <2> QED BY <1>7, <1>8, <2>1
  <1>14. /\ doc[n + 2] = c[1] /\ doc[n + 3] = c[2] /\ doc[n + 4] = c[3]
         /\ doc[n + 5] = c[4] /\ doc[n + 6] = c[5]
    <2>1. /\ n + 1 + 1 = n + 2 /\ n + 1 + 2 = n + 3 /\ n + 1 + 3 = n + 4
          /\ n + 1 + 4 = n + 5 /\ n + 1 + 5 = n + 6
      OBVIOUS
    <2>2. 1 \in 1..5 /\ 2 \in 1..5 /\ 3 \in 1..5 /\ 4 \in 1..5 /\ 5 \in 1..5
      OBVIOUS
    <2> QED BY <1>13, <2>1, <2>2
  <1>15. HasLines(doc, len, n, secs, rev, id, name, year, titles)
    BY <1>3, <1>8, <1>10, <1>11, <1>12, <1>14 DEF off, HasLines
  <1> QED BY <1>15 DEF doc

-----------------------------------------------------------------------------
(* What the beginning of an entry leaves of a structure: the lengths it    *)
(* does not know yet, the last to where the disc ends.                     *)
At(len, k) == IF k = 0 THEN MsfOffset ELSE MsfOffset + Sum(len, k - 1)

Fill(d, len, k) ==
  [i \in 1..MaxTracks |-> IF i < k /\ d.len[i] = 0 THEN len[i] ELSE d.len[i]]

FillAll(d, len, n, secs) ==
  [i \in 1..MaxTracks |->
     IF i <= n /\ d.len[i] = 0
     THEN (IF i < n THEN len[i] ELSE secs * Frames - (MsfOffset + Sum(len, n - 1)))
     ELSE d.len[i]]

HeadOf(d, len, n, secs, rev, id, name, year) ==
  LET cid == IF d.cid = NoId THEN id ELSE d.cid
  IN  Disc(IF d.id = NoId THEN cid ELSE d.id, cid, d.lookup, n,
           IF d.length = 0 THEN secs * Frames ELSE d.length, name,
           IF year = 0 THEN d.year ELSE year, rev, d.complete,
           FillAll(d, len, n, secs), d.title)

(* Sums of lengths are natural numbers. *)
LEMMA SumNat ==
  ASSUME NEW n \in Nat, NEW len, \A i \in 1..n : len[i] \in Nat
  PROVE  /\ Sum(len, 0) = 0
         /\ \A k \in 1..n : Sum(len, k) = Sum(len, k - 1) + len[k]
         /\ \A k \in 0..n : Sum(len, k) \in Nat
  <1>1. /\ Sum(len, 0) = 0
        /\ \A k \in 1..n : Sum(len, k) = Sum(len, k - 1) + len[k]
        /\ \A k \in 0..n : Sum(len, k) \in Int
    BY SumSteps
  <1> DEFINE P == {k \in Nat : k <= n => Sum(len, k) \in Nat}
  <1>2. 0 \in P
    BY <1>1
  <1>3. ASSUME NEW k \in Nat, k \in P PROVE k + 1 \in P
    <2>1. CASE k + 1 <= n
      <3>1. k + 1 \in 1..n /\ (k + 1) - 1 = k /\ k <= n
        BY ONLY <2>1, k \in Nat, n \in Nat
      <3>2. Sum(len, k + 1) = Sum(len, k) + len[k + 1] /\ len[k + 1] \in Nat
        BY <1>1, <3>1
      <3>3. Sum(len, k) \in Nat
        BY <1>3, <3>1
      <3> QED BY <3>2, <3>3
    <2> QED BY <2>1
  <1> HIDE DEF P
  <1>4. \A k \in Nat : k \in P
    BY <1>2, <1>3, SetInduction
  <1>5. \A k \in 0..n : Sum(len, k) \in Nat
    BY <1>4 DEF P
  <1> QED BY <1>1, <1>5

(* The length of a track is the difference of two offsets, unless it is    *)
(* known.                                                                  *)
LEMMA FillNext ==
  ASSUME NEW d, IsStruct(d), NEW n \in 1..MaxTracks, NEW len, \A i \in 1..n : len[i] \in Nat,
         NEW k \in 0 .. n - 1
  PROVE  LET f == Fill(d, len, k)
             v == At(len, k + 1)
         IN  Fill(d, len, k + 1) =
               IF k \in 1..MaxTracks /\ f[k] = 0 THEN [f EXCEPT ![k] = v - At(len, k)] ELSE f
  <1> DEFINE f == Fill(d, len, k)
  <1>0. MaxTracks \in Nat /\ n <= MaxTracks
    BY MaxTracksAssumption
  <1>1. CASE k = 0
    <2>1. \A i \in 1..MaxTracks : ~(i < 0) /\ ~(i < 1)
      OBVIOUS
    <2>2. Fill(d, len, 1) = Fill(d, len, 0)
      BY <2>1 DEF Fill
    <2>3. k \notin 1..MaxTracks
      BY <1>1
    <2> QED BY <1>1, <2>2, <2>3
  <1>2. CASE k # 0
    <2>1. k \in 1..n /\ k \in 1..MaxTracks
      BY <1>0, <1>2
    <2>2. f[k] = d.len[k]
      BY <2>1 DEF Fill
    <2>3. At(len, k + 1) - At(len, k) = len[k]
      <3>1. Sum(len, k) = Sum(len, k - 1) + len[k]
        BY <2>1, SumNat
      <3>2. Sum(len, k - 1) \in Nat /\ len[k] \in Nat /\ Sum(len, k) \in Nat
        <4>1. k - 1 \in 0..n /\ k \in 0..n
          BY <2>1
        <4> QED BY <2>1, <4>1, SumNat
      <3>3. At(len, k + 1) = MsfOffset + Sum(len, k) /\ At(len, k) = MsfOffset + Sum(len, k - 1)
        <4>1. k + 1 # 0 /\ (k + 1) - 1 = k
          OBVIOUS
        <4> QED BY <1>2, <4>1 DEF At
      <3>4. MsfOffset \in Nat
        BY DEF MsfOffset
      <3> QED BY ONLY <3>1, <3>2, <3>3, <3>4
    <2>4. CASE d.len[k] = 0
      <3>1. ASSUME NEW i \in 1..MaxTracks
            PROVE  [f EXCEPT ![k] = len[k]][i] = Fill(d, len, k + 1)[i]
        <4>1. CASE i = k
          BY <2>1, <2>4, <4>1 DEF Fill
        <4>2. CASE i # k
          <5>1. (i < k) = (i < k + 1)
            BY <2>1, <4>2
          <5> QED BY <4>2, <5>1 DEF Fill
        <4> QED BY <4>1, <4>2
      <3>2. [f EXCEPT ![k] = len[k]] = Fill(d, len, k + 1)
        <4>1. /\ DOMAIN [f EXCEPT ![k] = len[k]] = 1..MaxTracks
              /\ DOMAIN Fill(d, len, k + 1) = 1..MaxTracks
          BY DEF Fill
        <4>2. [f EXCEPT ![k] = len[k]] = [i \in 1..MaxTracks |-> [f EXCEPT ![k] = len[k]][i]]
          BY DEF Fill
        <4>3. Fill(d, len, k + 1) = [i \in 1..MaxTracks |-> Fill(d, len, k + 1)[i]]
          BY DEF Fill
        <4> HIDE DEF f
        <4> QED BY <3>1, <4>2, <4>3
      <3> HIDE DEF f
      <3> QED BY <2>1, <2>2, <2>3, <2>4, <3>2 DEF f
    <2>5. CASE d.len[k] # 0
      <3>1. ASSUME NEW i \in 1..MaxTracks
            PROVE  (IF i < k /\ d.len[i] = 0 THEN len[i] ELSE d.len[i])
                   = (IF i < k + 1 /\ d.len[i] = 0 THEN len[i] ELSE d.len[i])
        <4>1. CASE i = k
          BY <2>5, <4>1
        <4>2. CASE i # k
          <5>1. (i < k) = (i < k + 1)
            BY <2>1, <4>2
          <5> QED BY <5>1
        <4> QED BY <4>1, <4>2
      <3>2. f = Fill(d, len, k + 1)
        BY <3>1 DEF Fill
      <3> HIDE DEF f
      <3> QED BY <2>2, <2>5, <3>2 DEF f
    <2> QED BY <2>4, <2>5
  <1> QED BY <1>1, <1>2

LEMMA StructLen ==
  ASSUME NEW d, IsStruct(d)
  PROVE  d = WithLen(d, d.len)
  BY DEF IsStruct, WithLen

(* After the offsets every track but the last has its length. *)
LEMMA OffsetsRead ==
  ASSUME NEW d, IsStruct(d), NEW n \in 1..MaxTracks, NEW len, \A i \in 1..n : len[i] \in Nat,
         NEW h, NEW doc, h[0] = EntryStart(d),
         \A k \in 1 .. n + 1 : h[k] = X!OnLine(h[k - 1], doc[k]),
         doc[1] = X!Line("Offsets", 0),
         \A i \in 1..n : doc[1 + i] = X!Line("Offset", MsfOffset + Sum(len, i - 1))
  PROVE  h[1 + n] = St(1, At(len, n), At(len, n), n, -1, WithLen(d, Fill(d, len, n)))
  <1> DEFINE state(k) == St(1, At(len, k), IF k = 0 THEN 0 ELSE At(len, k), k, -1,
                            WithLen(d, Fill(d, len, k)))
             P == {k \in Nat : k <= n => h[1 + k] = state(k)}
  <1>1. 0 \in P
    <2>1. EntryStart(d) = St(0, MsfOffset, 0, 0, -1, d)
      BY DEF EntryStart, St, X!MsfOffset, MsfOffset
    <2>2. h[1] = X!OnLine(h[0], doc[1])
      <3>1. 1 \in 1 .. n + 1 /\ 1 - 1 = 0
        OBVIOUS
      <3> QED BY <3>1
    <2>3. X!OnLine(St(0, MsfOffset, 0, 0, -1, d), X!Line("Offsets", 0))
          = St(1, MsfOffset, 0, 0, -1, d)
      <3> DEFINE s == St(0, MsfOffset, 0, 0, -1, d)
      <3>1. s.prev = MsfOffset /\ s.cur = 0 /\ s.nr = 0 /\ s.old = -1 /\ s.d = d
        BY DEF St
      <3>2. X!OnLine(St(0, s.prev, s.cur, s.nr, s.old, s.d), X!Line("Offsets", 0))
            = St(1, s.prev, s.cur, s.nr, s.old, s.d)
        <4> HIDE DEF s
        <4> QED BY OffsetsLine
      <3> HIDE DEF s
      <3> QED BY <3>1, <3>2 DEF s
    <2>4. Fill(d, len, 0) = d.len
      <3>1. \A i \in 1..MaxTracks : ~(i < 0)
        OBVIOUS
      <3>2. Fill(d, len, 0) = [i \in 1..MaxTracks |-> d.len[i]]
        BY <3>1 DEF Fill
      <3>3. d.len = [i \in 1..MaxTracks |-> d.len[i]]
        BY DEF IsStruct, Lens
      <3> QED BY <3>2, <3>3
    <2>5. state(0) = St(1, MsfOffset, 0, 0, -1, d)
      BY <2>4, StructLen DEF At
    <2> HIDE DEF state
    <2> QED BY <2>1, <2>2, <2>3, <2>5
  <1>2. ASSUME NEW k \in Nat, k \in P PROVE k + 1 \in P
    <2>1. CASE k + 1 <= n
      <3>1. /\ k \in 0 .. n - 1 /\ k + 1 \in 1..n /\ (k + 1) - 1 = k /\ k <= n
            /\ 1 + (k + 1) \in 1 .. n + 1 /\ (1 + (k + 1)) - 1 = 1 + k
        BY ONLY <2>1, k \in Nat, n \in 1..MaxTracks, MaxTracksAssumption
      <3> DEFINE f == Fill(d, len, k)
                 v == MsfOffset + Sum(len, k)
                 p == At(len, k)
                 c == IF k = 0 THEN 0 ELSE At(len, k)
      <3>2. h[1 + (k + 1)] = X!OnLine(h[1 + k], X!Line("Offset", v))
        <4>1. doc[1 + (k + 1)] = X!Line("Offset", MsfOffset + Sum(len, (k + 1) - 1))
          BY <3>1
        <4>2. h[1 + (k + 1)] = X!OnLine(h[(1 + (k + 1)) - 1], doc[1 + (k + 1)])
          BY <3>1
        <4> QED BY <3>1, <4>1, <4>2
      <3>3. h[1 + k] = state(k)
        BY <1>2, <3>1
      <3>4. v # 0 /\ v = At(len, k + 1)
        <4>1. n \in Nat /\ k \in 0..n
          BY <3>1
        <4>2. Sum(len, k) \in Nat
          BY <4>1, SumNat
        <4>3. k + 1 # 0
          OBVIOUS
        <4> QED BY <3>1, <4>2, <4>3 DEF MsfOffset, At
      <3>5. Fill(d, len, k + 1) =
              IF k \in 1..MaxTracks /\ f[k] = 0 THEN [f EXCEPT ![k] = v - p] ELSE f
        <4>1. Fill(d, len, k + 1) =
                IF k \in 1..MaxTracks /\ Fill(d, len, k)[k] = 0
                THEN [Fill(d, len, k) EXCEPT ![k] = At(len, k + 1) - At(len, k)]
                ELSE Fill(d, len, k)
          BY <3>1, FillNext
        <4> HIDE DEF v
        <4> QED BY <3>4, <4>1
      <3> HIDE DEF f, v, p, c
      <3> DEFINE o == -1
      <3> HIDE DEF o
      <3>6. X!OnLine(St(1, p, c, k, o, WithLen(d, f)), X!Line("Offset", v))
            = St(1, v, v, k + 1, o, WithLen(d, Fill(d, len, k + 1)))
        BY <3>4, <3>5, OffsetLine
      <3>7. state(k) = St(1, p, c, k, -1, WithLen(d, f))
        BY DEF p, c, f
      <3>8. state(k + 1) = St(1, v, v, k + 1, -1, WithLen(d, Fill(d, len, k + 1)))
        <4>1. k + 1 # 0
          OBVIOUS
        <4> QED BY <3>4, <4>1
      <3> HIDE DEF state
      <3> QED BY <3>2, <3>3, <3>6, <3>7, <3>8 DEF o
    <2> QED BY <2>1
  <1> HIDE DEF P
  <1>3. n \in P
    <2>1. n \in Nat
      OBVIOUS
    <2> QED BY <1>1, <1>2, <2>1, SetInduction
  <1>4. h[1 + n] = state(n)
    <2>1. n <= n
      OBVIOUS
    <2> HIDE DEF state
    <2> QED BY <1>3, <2>1 DEF P
  <1>5. n # 0
    OBVIOUS
  <1> QED BY <1>4, <1>5

(* The last track ends with the disc. *)
LEMMA FillLast ==
  ASSUME NEW d, IsStruct(d), NEW n \in 1..MaxTracks, NEW len, NEW secs
  PROVE  LET f == Fill(d, len, n)
         IN  FillAll(d, len, n, secs) =
               IF f[n] = 0 THEN [f EXCEPT ![n] = secs * Frames - At(len, n)] ELSE f
  <1> DEFINE f == Fill(d, len, n)
             last == secs * Frames - At(len, n)
             next(i) == IF i <= n /\ d.len[i] = 0
                        THEN (IF i < n THEN len[i] ELSE last)
                        ELSE d.len[i]
  <1>1. FillAll(d, len, n, secs) = [i \in 1..MaxTracks |-> next(i)]
    <2>1. n # 0
      OBVIOUS
    <2> QED BY <2>1 DEF FillAll, At
  <1>2. f = [i \in 1..MaxTracks |-> IF i < n /\ d.len[i] = 0 THEN len[i] ELSE d.len[i]]
    BY DEF Fill
  <1> HIDE DEF f, last
  <1>3. f[n] = d.len[n]
    BY <1>2
  <1>4. CASE d.len[n] = 0
    <2>1. ASSUME NEW i \in 1..MaxTracks
          PROVE  next(i) = IF i = n THEN last ELSE f[i]
      <3>1. CASE i = n
        BY <1>4, <3>1
      <3>2. CASE i # n
        <4>1. (i <= n) = (i < n)
          BY <3>2
        <4> QED BY <1>2, <3>2, <4>1
      <3> QED BY <3>1, <3>2
    <2> HIDE DEF next
    <2>2. [f EXCEPT ![n] = last] = [i \in 1..MaxTracks |-> IF i = n THEN last ELSE f[i]]
      BY <1>2
    <2>3. FillAll(d, len, n, secs) = [f EXCEPT ![n] = last]
      BY <1>1, <2>1, <2>2
    <2> QED BY <1>3, <1>4, <2>3 DEF f, last
  <1>5. CASE d.len[n] # 0
    <2>1. ASSUME NEW i \in 1..MaxTracks
          PROVE  next(i) = f[i]
      <3>1. CASE i = n
        BY <1>3, <1>5, <3>1
      <3>2. CASE i # n
        <4>1. (i <= n) = (i < n)
          BY <3>2
        <4> QED BY <1>2, <4>1
      <3> QED BY <3>1, <3>2
    <2> HIDE DEF next
    <2>2. f = [i \in 1..MaxTracks |-> f[i]]
      BY <1>2
    <2>3. FillAll(d, len, n, secs) = f
      BY <1>1, <2>1, <2>2
    <2> QED BY <1>3, <1>5, <2>3 DEF f, last
  <1> QED BY <1>4, <1>5

(* What is read, and the state of the fold after the head of the document. *)
Readable(d, n, len, rev, titles) ==
  /\ IsStruct(d) /\ n \in 1..MaxTracks /\ \A i \in 1..n : len[i] \in Nat
  /\ rev \in Nat /\ \E T : titles \in Seq(T)
Reads(d, n, len, secs, rev, id, name, year, titles, h) ==
  Folds("entry", EntryStart(d), Document(len, n, secs, rev, id, name, year, titles),
        n + 6 + Len(titles), h)
HeadTaken(d, n, len, secs, rev, id, name, year, h) ==
  h[n + 6] = St(3, At(len, n), At(len, n), n, -1, HeadOf(d, len, n, secs, rev, id, name, year))

(* After the five lines that follow, the structure has all but its titles. *)
LEMMA HeadRead ==
  ASSUME NEW d, NEW n, NEW len, NEW secs, NEW rev, NEW id, NEW name, NEW year,
         NEW titles, NEW h,
         Readable(d, n, len, rev, titles),
         Reads(d, n, len, secs, rev, id, name, year, titles, h)
  PROVE  HeadTaken(d, n, len, secs, rev, id, name, year, h)
  <1> PICK T : titles \in Seq(T)
    BY DEF Readable
  <1> SUFFICES ASSUME IsStruct(d), n \in 1..MaxTracks, \A i \in 1..n : len[i] \in Nat,
                      rev \in Nat,
                      Folds("entry", EntryStart(d),
                            Document(len, n, secs, rev, id, name, year, titles),
                            n + 6 + Len(titles), h)
               PROVE  h[n + 6] = St(3, At(len, n), At(len, n), n, -1,
                                    HeadOf(d, len, n, secs, rev, id, name, year))
    BY DEF Readable, Reads, HeadTaken
  <1> DEFINE p == At(len, n)
             o == -1
             l == IF d.length = 0 THEN secs * Frames ELSE d.length
             u == FillAll(d, len, n, secs)
             cid == IF d.cid = NoId THEN id ELSE d.cid
             id2 == IF d.id = NoId THEN cid ELSE d.id
             year2 == IF year = 0 THEN d.year ELSE year
             f == Fill(d, len, n)
             doc == Document(len, n, secs, rev, id, name, year, titles)
  <1>0. Len(titles) \in Nat /\ n \in Nat
    OBVIOUS
  <1>1. /\ doc[1] = X!Line("Offsets", 0)
        /\ \A i \in 1..n : doc[1 + i] = X!Line("Offset", MsfOffset + Sum(len, i - 1))
        /\ doc[n + 2] = X!Line("Length", secs) /\ doc[n + 3] = X!Line("Revision", rev)
        /\ doc[n + 4] = X!Line("DISCID", id) /\ doc[n + 5] = X!Line("DTITLE", name)
        /\ doc[n + 6] = X!Line("DYEAR", year)
    <2>1. HasLines(doc, len, n, secs, rev, id, name, year, titles)
      BY <1>0, DocumentPlaces
    <2> HIDE DEF doc
    <2> QED BY <2>1 DEF HasLines
  <1>2. h[0] = EntryStart(d) /\ \A k \in 1 .. n + 6 : h[k] = X!OnLine(h[k - 1], doc[k])
    <2>1. \A k \in 1 .. n + 6 : k \in 1 .. n + 6 + Len(titles)
      BY <1>0
    <2>2. Folds("entry", EntryStart(d), doc, n + 6 + Len(titles), h)
      OBVIOUS
    <2> HIDE DEF doc
    <2> QED BY <2>1, <2>2 DEF Folds, Step
  <1> HIDE DEF doc
  <1>3. h[1 + n] = St(1, p, p, n, o, WithLen(d, f))
    <2>1. \A k \in 1 .. n + 1 : h[k] = X!OnLine(h[k - 1], doc[k])
      <3>1. \A k \in 1 .. n + 1 : k \in 1 .. n + 6
        OBVIOUS
      <3> QED BY <1>2, <3>1
    <2>2. h[0] = EntryStart(d)
      BY <1>2
    <2>3. /\ doc[1] = X!Line("Offsets", 0)
          /\ \A i \in 1..n : doc[1 + i] = X!Line("Offset", MsfOffset + Sum(len, i - 1))
      BY <1>1
    <2> QED BY <2>1, <2>2, <2>3, OffsetsRead
  <1>4. /\ n + 2 \in 1 .. n + 6 /\ n + 3 \in 1 .. n + 6 /\ n + 4 \in 1 .. n + 6
        /\ n + 5 \in 1 .. n + 6 /\ n + 6 \in 1 .. n + 6
        /\ (n + 2) - 1 = 1 + n /\ (n + 3) - 1 = n + 2 /\ (n + 4) - 1 = n + 3
        /\ (n + 5) - 1 = n + 4 /\ (n + 6) - 1 = n + 5
    OBVIOUS
  <1>5. u = NewLast(f, n, secs, p) /\ l = NewLength(d, secs)
    BY FillLast DEF NewLast, NewLength
  <1>6. /\ h[n + 2] = X!OnLine(h[1 + n], X!Line("Length", secs))
        /\ h[n + 3] = X!OnLine(h[n + 2], X!Line("Revision", rev))
        /\ h[n + 4] = X!OnLine(h[n + 3], X!Line("DISCID", id))
        /\ h[n + 5] = X!OnLine(h[n + 4], X!Line("DTITLE", name))
        /\ h[n + 6] = X!OnLine(h[n + 5], X!Line("DYEAR", year))
    BY <1>1, <1>2, <1>4
  <1>c. /\ cid = IF d.cid = NoId THEN id ELSE d.cid
        /\ id2 = IF d.id = NoId THEN cid ELSE d.id
        /\ year2 = IF year = 0 THEN d.year ELSE year
    OBVIOUS
  <1> HIDE DEF p, o, l, u, f, cid, id2, year2
  <1>8. h[n + 2] = St(2, p, p, n, o, Disc(d.id, d.cid, d.lookup, n, l, d.name, d.year, d.rev,
                                          d.complete, u, d.title))
    <2>1. X!OnLine(St(1, p, p, n, o, WithLen(d, f)), X!Line("Length", secs))
          = St(2, p, p, n, o, WithHead(d, n, l, u))
      BY <1>5, LengthLine
    <2> QED BY <1>3, <1>6, <2>1 DEF WithHead
  <1>9. h[n + 3] = St(3, p, p, n, o, Disc(d.id, d.cid, d.lookup, n, l, d.name, d.year, rev,
                                          d.complete, u, d.title))
    BY <1>6, <1>8, RevisionLine
  <1>10. h[n + 4] = St(3, p, p, n, o, Disc(id2, cid, d.lookup, n, l, d.name, d.year, rev,
                                           d.complete, u, d.title))
    BY <1>6, <1>9, <1>c, DiscIdLine
  <1>11. h[n + 5] = St(3, p, p, n, o, Disc(id2, cid, d.lookup, n, l, name, d.year, rev,
                                           d.complete, u, d.title))
    BY <1>6, <1>10, NameLine
  <1>12. h[n + 6] = St(3, p, p, n, o, Disc(id2, cid, d.lookup, n, l, name, year2, rev,
                                           d.complete, u, d.title))
    BY <1>6, <1>11, <1>c, YearLine
  <1>13. Disc(id2, cid, d.lookup, n, l, name, year2, rev, d.complete, u, d.title)
         = HeadOf(d, len, n, secs, rev, id, name, year)
    BY DEF HeadOf, id2, cid, l, year2, u
  <1> QED BY <1>12, <1>13 DEF p, o

-----------------------------------------------------------------------------
(* The titles of an entry of the service: numbered from 0, as many lines   *)
(* to a title as it has pieces.                                            *)
LEMMA PlaceInFlat ==
  ASSUME NEW n \in Nat, NEW seqs, NEW flat, NEW pos, IsFlat(seqs, n, flat, pos),
         \A i \in 1..n : Len(seqs[i]) \in Nat
  PROVE  \A i \in 1..n : \A j \in 1..Len(seqs[i]) : pos[i - 1] + j \in 1..pos[n]
  <1>0. /\ pos \in [0..n -> Nat] /\ \A i \in 1..n : pos[i] = pos[i - 1] + Len(seqs[i])
    BY DEF IsFlat
  <1> DEFINE P == {m \in Nat : m <= n => pos[n - m] <= pos[n]}
  <1>1. 0 \in P
    <2>1. n - 0 = n /\ n \in 0..n
      OBVIOUS
    <2>2. pos[n] \in Nat
      BY <1>0, <2>1
    <2> QED BY <2>1, <2>2
  <1>2. ASSUME NEW m \in Nat, m \in P PROVE m + 1 \in P
    <2>1. CASE m + 1 <= n
      <3>1. /\ n - m \in 1..n /\ (n - m) - 1 = n - (m + 1) /\ m <= n
            /\ n - m \in 0..n /\ n - (m + 1) \in 0..n /\ n \in 0..n
        BY ONLY <2>1, m \in Nat, n \in Nat
      <3>2. pos[n - m] = pos[n - (m + 1)] + Len(seqs[n - m])
        BY <1>0, <3>1
      <3>3. /\ Len(seqs[n - m]) \in Nat /\ pos[n - (m + 1)] \in Nat /\ pos[n - m] \in Nat
            /\ pos[n] \in Nat
        BY <1>0, <3>1
      <3>4. pos[n - m] <= pos[n]
        BY <1>2, <3>1
      <3>5. pos[n - (m + 1)] <= pos[n]
        BY ONLY <3>2, <3>3, <3>4
      <3> QED BY <3>5
    <2> QED BY <2>1
  <1> HIDE DEF P
  <1>3. \A m \in Nat : m \in P
    BY <1>1, <1>2, SetInduction
  <1>4. ASSUME NEW i \in 1..n, NEW j \in 1..Len(seqs[i])
        PROVE  pos[i - 1] + j \in 1..pos[n]
    <2>1. n - i \in Nat /\ n - i <= n /\ n - (n - i) = i /\ i \in 0..n /\ i - 1 \in 0..n
          /\ n \in 0..n
      OBVIOUS
    <2>2. pos[i] <= pos[n]
      BY <1>3, <2>1 DEF P
    <2>3. /\ pos[i] = pos[i - 1] + Len(seqs[i]) /\ pos[i - 1] \in Nat /\ pos[i] \in Nat
          /\ pos[n] \in Nat /\ Len(seqs[i]) \in Nat
      BY <1>0, <2>1
    <2>4. j \in 1..Len(seqs[i])
      OBVIOUS
    <2> QED BY ONLY <2>2, <2>3, <2>4
  <1> QED BY <1>4

Titled(d, ts, i) == [k \in 1..MaxTracks |-> IF k <= i THEN ts[k] ELSE d.title[k]]
Titling(d, ts, i, j) ==
  [k \in 1..MaxTracks |->
     IF k < i THEN ts[k] ELSE IF k = i THEN SubSeq(ts[i], 1, j) ELSE d.title[k]]

(* The lines of one title begin and continue it. *)
LEMMA TitlePieces ==
  ASSUME NEW S, NEW t \in Seq(S)
  PROVE  /\ \A j \in 1..Len(t) : j # 1 => SubSeq(t, 1, j) = SubSeq(t, 1, j - 1) \o <<t[j]>>
         /\ Len(t) # 0 => SubSeq(t, 1, 1) = <<t[1]>>
         /\ SubSeq(t, 1, Len(t)) = t
  <1>1. ASSUME NEW j \in 1..Len(t), j # 1
        PROVE  SubSeq(t, 1, j) = SubSeq(t, 1, j - 1) \o <<t[j]>>
    BY <1>1
  <1>2. ASSUME Len(t) # 0 PROVE SubSeq(t, 1, 1) = <<t[1]>>
    <2>1. /\ SubSeq(t, 1, 1) \in Seq(S) /\ Len(SubSeq(t, 1, 1)) = 1
          /\ SubSeq(t, 1, 1)[1] = t[1]
      BY <1>2
    <2>2. \A s \in Seq(S) : Len(s) = 1 => s = <<s[1]>>
      OBVIOUS
    <2> QED BY <2>1, <2>2
  <1>3. SubSeq(t, 1, Len(t)) = t
    OBVIOUS
  <1> QED BY <1>1, <1>2, <1>3

(* The first line of a title replaces what was there, the others add a     *)
(* piece.                                                                  *)
LEMMA TitlingSteps ==
  ASSUME NEW d, NEW n \in 1..MaxTracks, NEW ts \in Seq(Seq(Pieces) \ {<<>>}), Len(ts) = n,
         NEW i \in 1..n
  PROVE  /\ 1 \in 1..Len(ts[i])
         /\ NewTitles(Titled(d, ts, i - 1), i - 2, i - 1, <<ts[i][1]>>) = Titling(d, ts, i, 1)
         /\ \A j \in 1..Len(ts[i]) : j # 1 =>
              NewTitles(Titling(d, ts, i, j - 1), i - 1, i - 1, <<ts[i][j]>>)
              = Titling(d, ts, i, j)
         /\ Titling(d, ts, i, Len(ts[i])) = Titled(d, ts, i)
  <1>0. ts[i] \in Seq(Pieces) /\ ts[i] # <<>> /\ i \in 1..MaxTracks
    <2>1. n <= MaxTracks /\ MaxTracks \in Nat
      BY MaxTracksAssumption
    <2>2. ts[i] \in Seq(Pieces) \ {<<>>}
      OBVIOUS
    <2> QED BY <2>1, <2>2
  <1> DEFINE t == ts[i]
  <1>1. Len(t) # 0 /\ Len(t) \in Nat
    BY <1>0
  <1>2. /\ \A j \in 1..Len(t) : j # 1 => SubSeq(t, 1, j) = SubSeq(t, 1, j - 1) \o <<t[j]>>
        /\ SubSeq(t, 1, 1) = <<t[1]>>
        /\ SubSeq(t, 1, Len(t)) = t
    BY <1>0, <1>1, TitlePieces
  <1>3. (i - 1) + 1 = i /\ i - 2 # i - 1
    OBVIOUS
  <1> HIDE DEF t
  <1>4. NewTitles(Titled(d, ts, i - 1), i - 2, i - 1, <<t[1]>>) = Titling(d, ts, i, 1)
    <2> DEFINE f == Titled(d, ts, i - 1)
               g == Titling(d, ts, i, 1)
    <2>1. NewTitles(f, i - 2, i - 1, <<t[1]>>) = [f EXCEPT ![i] = <<t[1]>>]
      <3> HIDE DEF f
      <3> QED BY <1>3 DEF NewTitles
    <2>2. [f EXCEPT ![i] = <<t[1]>>] = [k \in 1..MaxTracks |-> IF k = i THEN <<t[1]>> ELSE f[k]]
      BY DEF Titled
    <2>3. ASSUME NEW k \in 1..MaxTracks
          PROVE  g[k] = IF k = i THEN <<t[1]>> ELSE f[k]
      <3>1. CASE k = i
        <4>1. ~(k < i)
          BY <3>1
        <4> QED BY <1>2, <3>1, <4>1 DEF Titling, t
      <3>2. CASE k # i
        <4>1. (k < i) = (k <= i - 1)
          BY <3>2
        <4> QED BY <3>2, <4>1 DEF Titling, Titled
      <3> QED BY <3>1, <3>2
    <2>4. g = [k \in 1..MaxTracks |-> g[k]]
      BY DEF Titling
    <2> HIDE DEF f, g
    <2>5. g = [k \in 1..MaxTracks |-> IF k = i THEN <<t[1]>> ELSE f[k]]
      BY <2>3, <2>4
    <2> QED BY <2>1, <2>2, <2>5 DEF f, g
  <1>5. ASSUME NEW j \in 1..Len(t), j # 1
        PROVE  NewTitles(Titling(d, ts, i, j - 1), i - 1, i - 1, <<t[j]>>)
               = Titling(d, ts, i, j)
    <2> DEFINE f == Titling(d, ts, i, j - 1)
               g == Titling(d, ts, i, j)
    <2>0. f[i] = SubSeq(t, 1, j - 1)
      <3>1. ~(i < i)
        OBVIOUS
      <3> QED BY <1>0, <3>1 DEF Titling, t
    <2>1. NewTitles(f, i - 1, i - 1, <<t[j]>>) = [f EXCEPT ![i] = f[i] \o <<t[j]>>]
      <3> HIDE DEF f
      <3> QED BY <1>3 DEF NewTitles
    <2>6. f[i] \o <<t[j]>> = SubSeq(t, 1, j)
      <3> HIDE DEF f
      <3> QED BY <1>2, <1>5, <2>0
    <2> DEFINE x == SubSeq(t, 1, j)
    <2>2. [f EXCEPT ![i] = x] = [k \in 1..MaxTracks |-> IF k = i THEN x ELSE f[k]]
      <3> HIDE DEF x
      <3> QED BY DEF Titling
    <2>3. ASSUME NEW k \in 1..MaxTracks
          PROVE  g[k] = IF k = i THEN x ELSE f[k]
      <3>1. CASE k = i
        <4>1. ~(k < i)
          BY <3>1
        <4> QED BY <3>1, <4>1 DEF Titling, t
      <3>2. CASE k # i
        BY <3>2 DEF Titling
      <3> QED BY <3>1, <3>2
    <2>4. g = [k \in 1..MaxTracks |-> g[k]]
      BY DEF Titling
    <2> HIDE DEF f, g
    <2>5. g = [k \in 1..MaxTracks |-> IF k = i THEN x ELSE f[k]]
      <3> HIDE DEF x
      <3> QED BY <2>3, <2>4
    <2>7. [f EXCEPT ![i] = f[i] \o <<t[j]>>] = [f EXCEPT ![i] = x]
      BY <2>6
    <2> HIDE DEF x
    <2>8. NewTitles(f, i - 1, i - 1, <<t[j]>>) = g
      BY ONLY <2>1, <2>2, <2>5, <2>7
    <2> QED BY <2>8 DEF f, g
  <1>6. Titling(d, ts, i, Len(t)) = Titled(d, ts, i)
    <2> DEFINE f == Titling(d, ts, i, Len(t))
               g == Titled(d, ts, i)
    <2>1. ASSUME NEW k \in 1..MaxTracks PROVE f[k] = g[k]
      <3>1. CASE k = i
        <4>1. ~(k < i) /\ k <= i
          BY <3>1
        <4> QED BY <1>2, <3>1, <4>1 DEF Titling, Titled, t
      <3>2. CASE k # i
        <4>1. (k < i) = (k <= i)
          BY <3>2
        <4> QED BY <3>2, <4>1 DEF Titling, Titled
      <3> QED BY <3>1, <3>2
    <2>2. f = [k \in 1..MaxTracks |-> f[k]] /\ g = [k \in 1..MaxTracks |-> g[k]]
      BY DEF Titling, Titled
    <2> HIDE DEF f, g
    <2>3. f = g
      BY <2>1, <2>2
    <2> QED BY <2>3 DEF f, g
  <1>7. 1 \in 1..Len(ts[i])
    BY <1>1 DEF t
  <1> QED BY <1>4, <1>5, <1>6, <1>7 DEF t

(* The lines of the titles, title by title. *)
TitleLines(ts) ==
  [i \in 1..Len(ts) |-> [j \in 1..Len(ts[i]) |-> X!TrackLine(i - 1, <<ts[i][j]>>)]]

TitlesGiven(d, n, ts, flat, pos) ==
  /\ n \in 1..MaxTracks /\ ts \in Seq(Seq(Pieces) \ {<<>>}) /\ Len(ts) = n
  /\ IsFlat(TitleLines(ts), n, flat, pos)
  /\ d.title = [i \in 1..MaxTracks |-> d.title[i]]
TitlesRead(flat, m, g) == \A q \in 1..m : g[q] = X!OnLine(g[q - 1], flat[q])
TitlesTaken(d, n, ts, x, p, c, k) ==
  x = St(3, p, c, k, n - 1, WithTitles(d, n, Titled(d, ts, n)))

(* After the titles of an entry of the service each track has its own. *)
LEMMA ServiceTitlesRead ==
  ASSUME NEW d, NEW n, NEW ts, NEW flat, NEW pos, NEW p, NEW c, NEW k, NEW g,
         TitlesGiven(d, n, ts, flat, pos),
         g[0] = St(3, p, c, k, -1, WithTitles(d, n, d.title)),
         TitlesRead(flat, pos[n], g)
  PROVE  TitlesTaken(d, n, ts, g[pos[n]], p, c, k)
  <1> SUFFICES ASSUME n \in 1..MaxTracks, ts \in Seq(Seq(Pieces) \ {<<>>}), Len(ts) = n,
                      IsFlat(TitleLines(ts), n, flat, pos),
                      d.title = [i \in 1..MaxTracks |-> d.title[i]],
                      \A m \in 1..pos[n] : g[m] = X!OnLine(g[m - 1], flat[m])
               PROVE  g[pos[n]] = St(3, p, c, k, n - 1, WithTitles(d, n, Titled(d, ts, n)))
    BY DEF TitlesGiven, TitlesRead, TitlesTaken
  <1> DEFINE seqs == TitleLines(ts)
             State(o, t) == St(3, p, c, k, o, WithTitles(d, n, t))
  <1>0. n \in Nat /\ n <= MaxTracks /\ MaxTracks \in Nat
    BY MaxTracksAssumption
  <1>1. /\ pos \in [0..n -> Nat] /\ pos[0] = 0
        /\ \A i \in 1..n : /\ pos[i] = pos[i - 1] + Len(seqs[i])
                           /\ \A j \in 1..Len(seqs[i]) : flat[pos[i - 1] + j] = seqs[i][j]
    BY DEF IsFlat
  <1>2. \A i \in 1..n : /\ Len(seqs[i]) = Len(ts[i]) /\ Len(ts[i]) \in Nat
                        /\ \A j \in 1..Len(ts[i]) :
                             seqs[i][j] = X!TrackLine(i - 1, <<ts[i][j]>>)
    <2> SUFFICES ASSUME NEW i \in 1..n
                 PROVE  /\ Len(seqs[i]) = Len(ts[i]) /\ Len(ts[i]) \in Nat
                        /\ \A j \in 1..Len(ts[i]) :
                             seqs[i][j] = X!TrackLine(i - 1, <<ts[i][j]>>)
      OBVIOUS
    <2>1. ts[i] \in Seq(Pieces)
      OBVIOUS
    <2>2. seqs[i] = [j \in 1..Len(ts[i]) |-> X!TrackLine(i - 1, <<ts[i][j]>>)]
      BY DEF TitleLines
    <2> HIDE DEF seqs
    <2>3. Len(ts[i]) \in Nat
      BY <2>1
    <2> QED BY <2>2, <2>3
  <1>3. \A i \in 1..n : \A j \in 1..Len(ts[i]) : pos[i - 1] + j \in 1..pos[n]
    <2>1. IsFlat(seqs, n, flat, pos)
      OBVIOUS
    <2> HIDE DEF seqs
    <2>2. \A i \in 1..n : \A j \in 1..Len(seqs[i]) : pos[i - 1] + j \in 1..pos[n]
      BY <1>0, <1>2, <2>1, PlaceInFlat
    <2> QED BY <1>2, <2>2
  <1> HIDE DEF seqs
  <1>4. ASSUME NEW i \in 1..n, NEW j \in 1..Len(ts[i]), NEW o, NEW t,
               g[pos[i - 1] + (j - 1)] = State(o, t)
        PROVE  g[pos[i - 1] + j] = State(i - 1, NewTitles(t, o, i - 1, <<ts[i][j]>>))
    <2>0. i - 1 \in 0..n
      BY <1>0
    <2>1. pos[i - 1] + j \in 1..pos[n] /\ pos[i - 1] \in Nat
      BY <1>1, <1>3, <2>0
    <2>2. (pos[i - 1] + j) - 1 = pos[i - 1] + (j - 1)
      BY <1>2, <2>1
    <2>3. g[pos[i - 1] + j] = X!OnLine(g[pos[i - 1] + (j - 1)], flat[pos[i - 1] + j])
      BY <2>1, <2>2
    <2>4. flat[pos[i - 1] + j] = X!TrackLine(i - 1, <<ts[i][j]>>)
      <3>1. seqs[i][j] = X!TrackLine(i - 1, <<ts[i][j]>>) /\ j \in 1..Len(seqs[i])
        BY <1>2
      <3>2. flat[pos[i - 1] + j] = seqs[i][j]
        BY <1>1, <3>1
      <3> QED BY <3>1, <3>2
    <2>5. i - 1 \in Nat /\ i - 1 < MaxTracks
      BY <1>0
    <2>6. X!OnLine(State(o, t), X!TrackLine(i - 1, <<ts[i][j]>>))
          = St(3, p, c, k, i - 1, WithTitles(d, NewCount(n, i - 1),
                                             NewTitles(t, o, i - 1, <<ts[i][j]>>)))
      <3> DEFINE v == <<ts[i][j]>>  q == i - 1
      <3>1. q \in Nat /\ q < MaxTracks
        BY <2>5
      <3> HIDE DEF v, q
      <3>2. X!OnLine(State(o, t), X!TrackLine(q, v))
            = St(3, p, c, k, q, WithTitles(d, NewCount(n, q), NewTitles(t, o, q, v)))
        BY <1>0, <3>1, TitleLine
      <3> QED BY <3>2 DEF v, q
    <2>7. NewCount(n, i - 1) = n
      <3>1. ~(n < (i - 1) + 1)
        BY <1>0
      <3> QED BY <3>1 DEF NewCount
    <2> HIDE DEF State
    <2>8. g[pos[i - 1] + j] = X!OnLine(State(o, t), X!TrackLine(i - 1, <<ts[i][j]>>))
      BY <1>4, <2>3, <2>4
    <2> QED BY <2>6, <2>7, <2>8 DEF State
  <1> HIDE DEF State
  <1> DEFINE P == {i \in Nat : i <= n => g[pos[i]] = State(i - 1, Titled(d, ts, i))}
  <1>5. 0 \in P
    <2>1. Titled(d, ts, 0) = d.title
      <3>1. \A i \in 1..MaxTracks : ~(i <= 0)
        OBVIOUS
      <3>2. Titled(d, ts, 0) = [i \in 1..MaxTracks |-> d.title[i]]
        BY <3>1 DEF Titled
      <3> QED BY <3>2
    <2>2. 0 - 1 = -1
      OBVIOUS
    <2>3. g[pos[0]] = State(0 - 1, Titled(d, ts, 0))
      BY <1>1, <2>1, <2>2 DEF State
    <2> QED BY <2>3
  <1>6. ASSUME NEW q \in Nat, q \in P PROVE q + 1 \in P
    <2> DEFINE i == q + 1
    <2>1. CASE i <= n
      <3>1. i \in 1..n /\ i - 1 = q /\ q <= n /\ i - 2 = q - 1
        BY ONLY <2>1, q \in Nat, n \in Nat
      <3> HIDE DEF i
      <3>2. /\ 1 \in 1..Len(ts[i])
            /\ NewTitles(Titled(d, ts, i - 1), i - 2, i - 1, <<ts[i][1]>>) = Titling(d, ts, i, 1)
            /\ \A j \in 1..Len(ts[i]) : j # 1 =>
                 NewTitles(Titling(d, ts, i, j - 1), i - 1, i - 1, <<ts[i][j]>>)
                 = Titling(d, ts, i, j)
            /\ Titling(d, ts, i, Len(ts[i])) = Titled(d, ts, i)
        BY <3>1, TitlingSteps
      <3>3. g[pos[i - 1]] = State(i - 2, Titled(d, ts, i - 1)) /\ pos[i - 1] \in Nat
        BY <1>1, <1>6, <3>1
      <3> DEFINE Q == {j \in Nat : j \in 1..Len(ts[i]) =>
                         g[pos[i - 1] + j] = State(i - 1, Titling(d, ts, i, j))}
      <3>4. 0 \in Q
        OBVIOUS
      <3>5. ASSUME NEW j \in Nat, j \in Q PROVE j + 1 \in Q
        <4>0. (j + 1) - 1 = j
          OBVIOUS
        <4>1. CASE j + 1 \in 1..Len(ts[i]) /\ j # 0
          <5>1. j \in 1..Len(ts[i]) /\ j + 1 # 1
            BY <1>2, <3>1, <4>1
          <5>2. g[pos[i - 1] + j] = State(i - 1, Titling(d, ts, i, j))
            BY <3>5, <5>1
          <5>3. g[pos[i - 1] + (j + 1)]
                = State(i - 1, NewTitles(Titling(d, ts, i, j), i - 1, i - 1, <<ts[i][j + 1]>>))
            <6> HIDE DEF Q, P
            <6> QED BY <1>4, <3>1, <4>0, <4>1, <5>2
          <5>4. NewTitles(Titling(d, ts, i, j), i - 1, i - 1, <<ts[i][j + 1]>>)
                = Titling(d, ts, i, j + 1)
            BY <3>2, <4>0, <4>1, <5>1
          <5>5. g[pos[i - 1] + (j + 1)] = State(i - 1, Titling(d, ts, i, j + 1))
            BY <5>3, <5>4
          <5> QED BY <5>5
        <4>2. CASE j = 0
          <5>1. g[pos[i - 1] + (1 - 1)] = State(i - 2, Titled(d, ts, i - 1))
            <6>1. pos[i - 1] + (1 - 1) = pos[i - 1]
              BY <3>3
            <6> QED BY <3>3, <6>1
          <5>2. g[pos[i - 1] + 1]
                = State(i - 1, NewTitles(Titled(d, ts, i - 1), i - 2, i - 1, <<ts[i][1]>>))
            <6> HIDE DEF Q, P
            <6> QED BY <1>4, <3>1, <3>2, <5>1
          <5>3. g[pos[i - 1] + 1] = State(i - 1, Titling(d, ts, i, 1))
            BY <3>2, <5>2
          <5> QED BY <4>2, <5>3
        <4>3. CASE j + 1 \notin 1..Len(ts[i])
          BY <4>3
        <4> QED BY <4>1, <4>2, <4>3
      <3> HIDE DEF Q
      <3>6. \A j \in Nat : j \in Q
        BY <3>4, <3>5, SetInduction
      <3>7. g[pos[i - 1] + Len(ts[i])] = State(i - 1, Titling(d, ts, i, Len(ts[i])))
        <4>1. Len(ts[i]) \in Nat /\ Len(ts[i]) \in 1..Len(ts[i])
          BY <1>2, <3>1, <3>2
        <4> QED BY <3>6, <4>1 DEF Q
      <3>8. pos[i] = pos[i - 1] + Len(ts[i])
        BY <1>1, <1>2, <3>1
      <3>9. g[pos[i]] = State(i - 1, Titled(d, ts, i))
        BY <3>2, <3>7, <3>8
      <3> QED BY <3>9 DEF i
    <2> QED BY <2>1
  <1> HIDE DEF P
  <1>7. n \in P
    BY <1>0, <1>5, <1>6, SetInduction
  <1>8. g[pos[n]] = State(n - 1, Titled(d, ts, n))
    BY <1>0, <1>7 DEF P
  <1> QED BY <1>8 DEF State

Served(d, e) ==
  LET n == Len(e.lens)
      h == HeadOf(d, e.lens, n, (MsfOffset + Sum(e.lens, n)) \div Frames, e.rev, e.id, e.name,
                e.year)
  IN  WithTitles(h, n, Titled(d, e.titles, n))

(* The lines of all titles, strung together. *)
LEMMA TitleLinesFlat ==
  ASSUME NEW ts \in Seq(Seq(Pieces) \ {<<>>})
  PROVE  \E T : /\ X!FlattenSeq(TitleLines(ts)) \in Seq(T)
                /\ \E pos : IsFlat(TitleLines(ts), Len(ts), X!FlattenSeq(TitleLines(ts)), pos)
  <1> DEFINE n == Len(ts)
             line(i, j) == X!TrackLine(i - 1, <<ts[i][j]>>)
             T == {line(i, j) : i \in 1..n, j \in Nat}
             row(i) == [j \in 1..Len(ts[i]) |-> line(i, j)]
  <1>1. n \in Nat /\ \A i \in 1..n : Len(ts[i]) \in Nat
    <2>1. ASSUME NEW i \in 1..n PROVE Len(ts[i]) \in Nat
      <3>1. ts[i] \in Seq(Pieces)
        OBVIOUS
      <3> QED BY <3>1
    <2> QED BY <2>1
  <1>2. ASSUME NEW i \in 1..n PROVE row(i) \in Seq(T)
    <2>1. ASSUME NEW j \in 1..Len(ts[i]) PROVE line(i, j) \in T
      <3>1. j \in Nat
        BY <1>1
      <3> HIDE DEF line
      <3> QED BY <3>1
    <2>2. row(i) \in [1..Len(ts[i]) -> T]
      <3> HIDE DEF T, line
      <3> QED BY <2>1
    <2> HIDE DEF T, row
    <2> QED BY <1>1, <2>2
  <1>3. TitleLines(ts) \in [1..n -> Seq(T)]
    <2>1. TitleLines(ts) = [i \in 1..n |-> row(i)]
      BY DEF TitleLines
    <2> HIDE DEF T, row
    <2> QED BY <1>2, <2>1
  <1> HIDE DEF T, row
  <1>4. /\ X!FlattenSeq(TitleLines(ts)) \in Seq(T)
        /\ \E pos : IsFlat(TitleLines(ts), n, X!FlattenSeq(TitleLines(ts)), pos)
    <2> DEFINE seqs == TitleLines(ts)
    <2>1. n \in Nat /\ seqs \in [1..n -> Seq(T)]
      BY <1>1, <1>3
    <2> HIDE DEF seqs, n
    <2>2. X!FlattenSeq(seqs) \in Seq(T) /\ \E pos : IsFlat(seqs, n, X!FlattenSeq(seqs), pos)
      BY <2>1, FlattenPlaces
    <2> QED BY <2>2 DEF seqs
  <1> QED BY <1>4

(* What the assumptions say of the lengths of a disc or an entry. *)
LEMMA TocFacts ==
  ASSUME NEW len, IsToc(len)
  PROVE  /\ Len(len) \in 1..MaxTracks /\ Len(len) < MaxTracks /\ DOMAIN len = 1..Len(len)
         /\ \A i \in 1..Len(len) : len[i] \in Nat /\ len[i] > 0 /\ len[i] < 524288
         /\ X!SumFunctionOnSet(len, DOMAIN len) = Sum(len, Len(len))
         /\ SumFunctionOnSet(len, DOMAIN len) = Sum(len, Len(len))
  <1>1. len \in Seq(Nat) /\ Len(len) \in 1 .. MaxTracks - 1 /\ DOMAIN len = 1..Len(len)
    BY DEF IsToc
  <1>2. Len(len) \in 1..MaxTracks /\ Len(len) < MaxTracks
    BY <1>1, MaxTracksAssumption
  <1>3. \A i \in 1..Len(len) : len[i] \in 1 .. X!MaxLength
    BY <1>1 DEF IsToc
  <1>4. X!MaxLength \in Nat /\ X!MaxLength < 524288
    BY DEF X!MaxLength, X!Frames
  <1>5. \A i \in 1..Len(len) : len[i] \in Nat /\ len[i] > 0 /\ len[i] < 524288
    BY <1>3, <1>4
  <1>6. X!SumFunctionOnSet(len, 1..Len(len)) = Sum(len, Len(len))
    BY SumsAgree
  <1> QED BY <1>1, <1>2, <1>5, <1>6 DEF Sum

LEMMA WiderSeq ==
  ASSUME NEW S, NEW U, S \subseteq U, NEW t \in Seq(S)
  PROVE  t \in Seq(U)
  <1>1. t \in [1..Len(t) -> U] /\ Len(t) \in Nat
    OBVIOUS
  <1> QED BY <1>1

(* The titles of an entry have at least one piece each. *)
LEMMA EntryTitles ==
  ASSUME NEW e, IsEntry(e)
  PROVE  e.titles \in Seq(Seq(Pieces) \ {<<>>}) /\ Len(e.titles) = Len(e.lens)
  <1> DEFINE ts == e.titles
             n == Len(ts)
  <1>1. ts \in Seq(Seq(STRING) \ {<<>>}) /\ Len(ts) = Len(e.lens)
    BY DEF IsEntry
  <1>2. ts = [i \in 1..n |-> ts[i]] /\ n \in Nat
    <2>1. ts \in [1..n -> Seq(STRING) \ {<<>>}] /\ n \in Nat
      BY <1>1
    <2> QED BY <2>1
  <1>3. \A i \in 1..n : ts[i] \in Seq(STRING) /\ ts[i] # <<>>
    BY <1>1
  <1> HIDE DEF n, ts
  <1>4. ASSUME NEW i \in 1..n PROVE ts[i] \in Seq(Pieces) \ {<<>>}
    <2> DEFINE t == ts[i]
               S == STRING
    <2>1. t \in Seq(S) /\ t # <<>> /\ S \subseteq Pieces
      BY <1>3 DEF Pieces
    <2> HIDE DEF t, S
    <2>2. t \in Seq(Pieces)
      BY <2>1, WiderSeq
    <2> QED BY <2>1, <2>2 DEF t
  <1>5. ts \in [1..n -> Seq(Pieces) \ {<<>>}]
    BY <1>2, <1>4
  <1> DEFINE U == Seq(Pieces) \ {<<>>}
  <1>6. ts \in Seq(U)
    <2>1. ts \in [1..n -> U] /\ n \in Nat
      BY <1>2, <1>5
    <2> HIDE DEF U
    <2> QED BY <2>1
  <1> QED BY <1>1, <1>6 DEF ts

(* The entry of the service is such a document. *)
LEMMA ServiceEntryIs ==
  ASSUME NEW e, IsEntry(e)
  PROVE  X!ServiceEntry(e) =
           Document(e.lens, Len(e.lens), (MsfOffset + Sum(e.lens, Len(e.lens))) \div Frames,
                    e.rev, e.id, e.name, e.year, X!FlattenSeq(TitleLines(e.titles)))
  <1> DEFINE n == Len(e.lens)  ts == e.titles
  <1>1. X!SumFunctionOnSet(e.lens, DOMAIN e.lens) = Sum(e.lens, n)
    BY TocFacts DEF IsEntry
  <1>2. ts \in Seq(Seq(Pieces) \ {<<>>}) /\ DOMAIN ts = 1..Len(ts)
    BY EntryTitles
  <1>3. \A i \in 1..Len(ts) : DOMAIN ts[i] = 1..Len(ts[i])
    <2>1. \A i \in 1..Len(ts) : ts[i] \in Seq(Pieces)
      BY <1>2
    <2> QED BY <2>1
  <1>4. [i \in DOMAIN ts |-> [j \in DOMAIN ts[i] |-> X!TrackLine(i - 1, <<ts[i][j]>>)]]
        = TitleLines(ts)
    <2> HIDE DEF ts
    <2> QED BY <1>2, <1>3 DEF TitleLines
  <1> HIDE DEF n
  <1> QED BY <1>1, <1>4 DEF X!ServiceEntry, Document, X!MsfOffset, MsfOffset, X!Frames, Frames, n

(* The states after the head, which the lines of the titles go through. *)
TailOf(d, len, n, secs, rev, id, name, year, titles, g) ==
  LET hd == HeadOf(d, len, n, secs, rev, id, name, year)
  IN  /\ g[0] = St(3, At(len, n), At(len, n), n, -1, WithTitles(hd, n, hd.title))
      /\ TitlesRead(titles, Len(titles), g)
      /\ X!ParseEntry(d, Document(len, n, secs, rev, id, name, year, titles))
         = g[Len(titles)].d

(* The parser over the whole document: the titles, from where the head     *)
(* ends.                                                                   *)
LEMMA EntryTail ==
  ASSUME NEW d, NEW n, NEW len, NEW secs, NEW rev, NEW id, NEW name, NEW year,
         NEW flat, Readable(d, n, len, rev, flat)
  PROVE  \E g : TailOf(d, len, n, secs, rev, id, name, year, flat, g)
  <1> DEFINE doc == Document(len, n, secs, rev, id, name, year, flat)
             hd == HeadOf(d, len, n, secs, rev, id, name, year)
             m == n + 6 + Len(flat)
             p == At(len, n)
  <1> HIDE DEF doc, hd
  <1>3. PICK T : flat \in Seq(T)
    BY DEF Readable
  <1>5. Len(flat) \in Nat /\ n \in Nat
    BY <1>3 DEF Readable
  <1>6. PICK h : Folds("entry", EntryStart(d), doc, m, h)
    <2>1. m \in Nat
      BY <1>5
    <2> HIDE DEF m
    <2> QED BY <2>1, FoldSteps
  <1>7. HasLines(doc, len, n, secs, rev, id, name, year, flat)
    BY <1>3, <1>5, DocumentPlaces DEF doc
  <1>8. h[n + 6] = St(3, p, p, n, -1, hd)
    <2>1. Reads(d, n, len, secs, rev, id, name, year, flat, h)
      BY <1>6 DEF doc, Reads
    <2>3. HeadTaken(d, n, len, secs, rev, id, name, year, h)
      BY ONLY <2>1, Readable(d, n, len, rev, flat), HeadRead
    <2> QED BY <2>3 DEF hd, HeadTaken
  <1> DEFINE g == [q \in 0..Len(flat) |-> h[n + 6 + q]]
  <1>9. g[0] = St(3, p, p, n, -1, WithTitles(hd, n, hd.title))
    <2>1. n + 6 + 0 = n + 6 /\ 0 \in 0..Len(flat)
      BY <1>5
    <2>2. hd = WithTitles(hd, n, hd.title)
      BY DEF hd, HeadOf, WithTitles, Disc
    <2> HIDE DEF p
    <2> QED BY <1>8, <2>1, <2>2 DEF p
  <1>10. ASSUME NEW q \in 1..Len(flat)
         PROVE  g[q] = X!OnLine(g[q - 1], flat[q])
    <2>1. /\ q \in 0..Len(flat) /\ q - 1 \in 0..Len(flat) /\ n + 6 + q \in 1..m
          /\ (n + 6 + q) - 1 = n + 6 + (q - 1) /\ q \in 1..Len(flat)
      BY <1>5
    <2>2. h[n + 6 + q] = X!OnLine(h[(n + 6 + q) - 1], doc[n + 6 + q])
      BY <1>6, <2>1 DEF Folds, Step
    <2>3. doc[n + 6 + q] = flat[q]
      BY <1>7, <2>1 DEF HasLines
    <2>4. g[q] = h[n + 6 + q] /\ g[q - 1] = h[n + 6 + (q - 1)]
      BY <2>1
    <2> HIDE DEF g
    <2> QED BY <2>1, <2>2, <2>3, <2>4
  <1>13. h[m] = g[Len(flat)]
    BY <1>5
  <1>14. X!ParseEntry(d, doc) = h[m].d
    <2>1. DOMAIN doc = 1..m /\ m \in Nat
      BY <1>5, <1>7 DEF HasLines
    <2>2. Folded("entry", EntryStart(d), doc, m) = h[m]
      BY <1>6 DEF Folds
    <2> HIDE DEF m
    <2> QED BY <2>1, <2>2, EntryIsFolded
  <1>15. TitlesRead(flat, Len(flat), g)
    <2> HIDE DEF g
    <2> QED BY <1>10 DEF TitlesRead
  <1> HIDE DEF g, m, p
  <1>16. X!ParseEntry(d, doc) = g[Len(flat)].d
    BY <1>13, <1>14
  <1> QED BY <1>9, <1>15, <1>16 DEF TailOf, doc, hd, p

(* Parsing an entry as the service writes it, into a structure that may    *)
(* hold part of it already: the answer of the service fills in what is not *)
(* known, the lengths from the offsets, the last from the length in        *)
(* seconds, and sets the titles (cddb.c:470-860, with write_cddb_file).    *)
THEOREM ServiceParsed ==
  ASSUME NEW d, IsStruct(d), NEW e, IsEntry(e)
  PROVE  X!ParseEntry(d, X!ServiceEntry(e)) = Served(d, e)
  <1> DEFINE n == Len(e.lens)
             ts == e.titles
             len == e.lens
             secs == (MsfOffset + Sum(len, n)) \div Frames
             flat == X!FlattenSeq(TitleLines(ts))
             doc == Document(len, n, secs, e.rev, e.id, e.name, e.year, flat)
             hd == HeadOf(d, len, n, secs, e.rev, e.id, e.name, e.year)
             p == At(len, n)
  <1>1. /\ n \in 1..MaxTracks /\ \A i \in 1..n : len[i] \in Nat
        /\ e.rev \in Nat /\ ts \in Seq(Seq(Pieces) \ {<<>>}) /\ Len(ts) = n
    BY TocFacts, EntryTitles DEF IsEntry
  <1>2. X!ServiceEntry(e) = doc
    BY ServiceEntryIs
  <1> HIDE DEF doc, hd, flat, secs, len, ts, n, p
  <1>3. PICK T : flat \in Seq(T) /\ \E pos : IsFlat(TitleLines(ts), n, flat, pos)
    BY <1>1, TitleLinesFlat DEF flat
  <1>4. PICK pos : IsFlat(TitleLines(ts), n, flat, pos)
    BY <1>3
  <1>5. Len(flat) = pos[n]
    BY <1>4 DEF IsFlat
  <1>6. Readable(d, n, len, e.rev, flat)
    BY <1>1, <1>3 DEF Readable
  <1>7. PICK g : TailOf(d, len, n, secs, e.rev, e.id, e.name, e.year, flat, g)
    BY <1>6, EntryTail
  <1>8. /\ g[0] = St(3, p, p, n, -1, WithTitles(hd, n, hd.title))
        /\ TitlesRead(flat, pos[n], g) /\ X!ParseEntry(d, doc) = g[pos[n]].d
    BY <1>5, <1>7 DEF TailOf, p, hd, doc
  <1>9. hd.title = d.title /\ hd.title = [i \in 1..MaxTracks |-> hd.title[i]]
    BY DEF hd, HeadOf, Disc, IsStruct, Titles
  <1>10. TitlesGiven(hd, n, ts, flat, pos)
    BY <1>1, <1>4, <1>9 DEF TitlesGiven
  <1>11. TitlesTaken(hd, n, ts, g[pos[n]], p, p, n)
    BY ONLY <1>8, <1>10, ServiceTitlesRead
  <1>12. X!ParseEntry(d, doc) = WithTitles(hd, n, Titled(hd, ts, n))
    BY <1>8, <1>11 DEF TitlesTaken, St
  <1>16. Titled(hd, ts, n) = Titled(d, ts, n)
    BY <1>9 DEF Titled
  <1>17. Served(d, e) = WithTitles(hd, n, Titled(d, ts, n))
    BY DEF Served, hd, secs, n, len, ts
  <1> QED BY <1>2, <1>12, <1>16, <1>17

-----------------------------------------------------------------------------
(* The titles of an entry the program has written: numbered from 1, so     *)
(* that each is read as the title of the next track.                       *)
Shifted(d, ts, j) ==
  [k \in 1..MaxTracks |-> IF k \in 2 .. j + 1 THEN ts[k - 1] ELSE d.title[k]]
OldNr(j) == IF j = 0 THEN -1 ELSE j
TrackCount(n, j) == IF j = n THEN n + 1 ELSE n

(* A title numbered from 1 is read as that of the next track. *)
LEMMA ShiftStep ==
  ASSUME NEW d, NEW ts, NEW n \in 1 .. MaxTracks - 1, NEW j \in 1..n
  PROVE  /\ NewCount(TrackCount(n, j - 1), j) = TrackCount(n, j)
         /\ NewTitles(Shifted(d, ts, j - 1), OldNr(j - 1), j, ts[j]) = Shifted(d, ts, j)
  <1>0. MaxTracks \in Nat /\ j + 1 \in 1..MaxTracks /\ j \in Nat /\ n \in Nat
    BY MaxTracksAssumption
  <1>1. NewCount(TrackCount(n, j - 1), j) = TrackCount(n, j)
    <2>1. CASE j = n
      BY <1>0, <2>1 DEF NewCount, TrackCount
    <2>2. CASE j # n
      BY <1>0, <2>2 DEF NewCount, TrackCount
    <2> QED BY <2>1, <2>2
  <1> DEFINE f == Shifted(d, ts, j - 1)
             g == Shifted(d, ts, j)
  <1>2. OldNr(j - 1) # j
    BY <1>0 DEF OldNr
  <1>3. NewTitles(f, OldNr(j - 1), j, ts[j]) = [f EXCEPT ![j + 1] = ts[j]]
    <2> HIDE DEF f
    <2> QED BY <1>2 DEF NewTitles
  <1>4. [f EXCEPT ![j + 1] = ts[j]]
        = [k \in 1..MaxTracks |-> IF k = j + 1 THEN ts[j] ELSE f[k]]
    BY <1>0 DEF Shifted
  <1>5. ASSUME NEW k \in 1..MaxTracks
        PROVE  g[k] = IF k = j + 1 THEN ts[j] ELSE f[k]
    <2>1. CASE k = j + 1
      <3>1. k \in 2 .. j + 1 /\ k - 1 = j
        BY <1>0, <2>1
      <3> QED BY <2>1, <3>1 DEF Shifted
    <2>2. CASE k # j + 1
      <3>1. (k \in 2 .. j + 1) = (k \in 2 .. (j - 1) + 1)
        BY <1>0, <2>2
      <3> QED BY <2>2, <3>1 DEF Shifted
    <2> QED BY <2>1, <2>2
  <1>6. g = [k \in 1..MaxTracks |-> g[k]]
    BY DEF Shifted
  <1> HIDE DEF f, g
  <1>7. g = [k \in 1..MaxTracks |-> IF k = j + 1 THEN ts[j] ELSE f[k]]
    BY <1>5, <1>6
  <1> QED BY <1>1, <1>3, <1>4, <1>7 DEF f, g

WritesGiven(d, n, ts, lines) ==
  /\ d.title = [i \in 1..MaxTracks |-> d.title[i]] /\ n \in 1 .. MaxTracks - 1
  /\ \A i \in 1..n : lines[i] = X!TrackLine(i, ts[i])
WritesTaken(d, n, ts, x, p, c, k) ==
  x = St(3, p, c, k, n, WithTitles(d, n + 1, Shifted(d, ts, n)))

(* So the titles come back one track later. *)
LEMMA WrittenTitlesRead ==
  ASSUME NEW d, NEW n, NEW ts, NEW lines, NEW p, NEW c, NEW k, NEW g,
         WritesGiven(d, n, ts, lines),
         g[0] = St(3, p, c, k, -1, WithTitles(d, n, d.title)),
         TitlesRead(lines, n, g)
  PROVE  WritesTaken(d, n, ts, g[n], p, c, k)
  <1> SUFFICES ASSUME d.title = [i \in 1..MaxTracks |-> d.title[i]],
                      n \in 1 .. MaxTracks - 1,
                      \A i \in 1..n : lines[i] = X!TrackLine(i, ts[i])
               PROVE  g[n] = St(3, p, c, k, n, WithTitles(d, n + 1, Shifted(d, ts, n)))
    BY DEF WritesGiven, WritesTaken
  <1> DEFINE State(j) == St(3, p, c, k, OldNr(j),
                            WithTitles(d, TrackCount(n, j), Shifted(d, ts, j)))
             P == {j \in Nat : j <= n => g[j] = State(j)}
  <1>0. n \in Nat /\ MaxTracks \in Nat /\ n # 0
    BY MaxTracksAssumption
  <1>1. 0 \in P
    <2>1. Shifted(d, ts, 0) = d.title
      <3>1. \A i \in 1..MaxTracks : ~(i \in 2 .. 0 + 1)
        OBVIOUS
      <3>2. Shifted(d, ts, 0) = [i \in 1..MaxTracks |-> d.title[i]]
        BY <3>1 DEF Shifted
      <3> QED BY <3>2
    <2>2. OldNr(0) = -1 /\ TrackCount(n, 0) = n
      BY <1>0 DEF OldNr, TrackCount
    <2>3. g[0] = State(0)
      BY <2>1, <2>2
    <2> QED BY <2>3
  <1>2. ASSUME NEW q \in Nat, q \in P PROVE q + 1 \in P
    <2> DEFINE j == q + 1
    <2>1. CASE j <= n
      <3>1. j \in 1..n /\ j - 1 = q /\ q <= n /\ j < MaxTracks /\ j \in Nat
        BY ONLY <1>0, <2>1, q \in Nat, n \in 1 .. MaxTracks - 1
      <3> HIDE DEF j
      <3>2. g[j - 1] = State(j - 1)
        BY <1>2, <3>1
      <3>3. g[j] = X!OnLine(State(j - 1), X!TrackLine(j, ts[j]))
        <4> HIDE DEF State
        <4>1. g[j] = X!OnLine(g[j - 1], lines[j])
          BY <3>1 DEF TitlesRead
        <4> QED BY <3>1, <3>2, <4>1
      <3> DEFINE v == ts[j]  o == OldNr(j - 1)  m == TrackCount(n, j - 1)
                 t == Shifted(d, ts, j - 1)
      <3>4. m \in Nat
        BY <1>0 DEF TrackCount
      <3> HIDE DEF v, o, m, t
      <3>5. X!OnLine(St(3, p, c, k, o, WithTitles(d, m, t)), X!TrackLine(j, v))
            = St(3, p, c, k, j, WithTitles(d, NewCount(m, j), NewTitles(t, o, j, v)))
        BY <3>1, <3>4, TitleLine
      <3>6. NewCount(m, j) = TrackCount(n, j) /\ NewTitles(t, o, j, v) = Shifted(d, ts, j)
        BY <3>1, ShiftStep DEF m, t, o, v
      <3>7. OldNr(j) = j
        BY <3>1 DEF OldNr
      <3>8. g[j] = State(j)
        BY <3>3, <3>5, <3>6, <3>7 DEF m, t, o, v
      <3> QED BY <3>8 DEF j
    <2> QED BY <2>1
  <1> HIDE DEF P
  <1>3. n \in P
    BY <1>0, <1>1, <1>2, SetInduction
  <1>4. OldNr(n) = n /\ TrackCount(n, n) = n + 1
    BY <1>0 DEF OldNr, TrackCount
  <1>5. g[n] = State(n)
    BY <1>0, <1>3 DEF P
  <1> QED BY <1>4, <1>5

(* What reading back an entry that was written for x leaves of d. *)
Written(d, x) ==
  LET h == HeadOf(d, x.len, x.n, x.length \div Frames, x.rev, x.id, x.name, x.year)
  IN  WithTitles(h, x.n + 1, Shifted(d, x.title, x.n))

(* Parsing an entry as the program writes it beside an album: one track    *)
(* more than the disc, for its titles are numbered from 1 and read from 0, *)
(* and so another hash.                                                    *)
THEOREM WrittenParsed ==
  ASSUME NEW d, IsStruct(d), NEW x, x.n \in 1 .. MaxTracks - 1,
         \A i \in 1..x.n : x.len[i] \in Nat, x.rev \in Nat
  PROVE  X!ParseEntry(d, X!WriteEntry(x)) = Written(d, x)
  <1> DEFINE n == x.n
             ts == x.title
             len == x.len
             secs == x.length \div Frames
             line(i) == X!TrackLine(i, ts[i])
             flat == [i \in 1..n |-> line(i)]
             T == {line(i) : i \in 1..n}
             doc == Document(len, n, secs, x.rev, x.id, x.name, x.year, flat)
             hd == HeadOf(d, len, n, secs, x.rev, x.id, x.name, x.year)
             p == At(len, n)
  <1>0. n \in 1..MaxTracks /\ n \in 1 .. MaxTracks - 1 /\ n \in Nat
    BY MaxTracksAssumption
  <1>1. X!WriteEntry(x) = doc
    BY DEF X!WriteEntry, Document, X!Frames, Frames
  <1>2. flat \in Seq(T) /\ Len(flat) = n /\ \A i \in 1..n : flat[i] = line(i)
    <2> HIDE DEF line, n
    <2> QED BY <1>0
  <1>3. Readable(d, n, len, x.rev, flat)
    <2> HIDE DEF flat, T
    <2> QED BY <1>0, <1>2 DEF Readable
  <1> HIDE DEF doc, hd, flat, secs, len, n, p, T
  <1>4. PICK g : TailOf(d, len, n, secs, x.rev, x.id, x.name, x.year, flat, g)
    BY <1>3, EntryTail
  <1>5. /\ g[0] = St(3, p, p, n, -1, WithTitles(hd, n, hd.title))
        /\ TitlesRead(flat, n, g) /\ X!ParseEntry(d, doc) = g[n].d
    BY <1>2, <1>4 DEF TailOf, p, hd, doc
  <1>6. hd.title = d.title /\ hd.title = [i \in 1..MaxTracks |-> hd.title[i]]
    BY DEF hd, HeadOf, Disc, IsStruct, Titles
  <1>7. g[n] = St(3, p, p, n, n, WithTitles(hd, n + 1, Shifted(hd, ts, n)))
    <2>1. \A i \in 1..n : flat[i] = X!TrackLine(i, ts[i])
      BY <1>2
    <2>2. WritesGiven(hd, n, ts, flat)
      BY <1>0, <1>6, <2>1 DEF WritesGiven
    <2> HIDE DEF ts, flat
    <2>3. WritesTaken(hd, n, ts, g[n], p, p, n)
      BY ONLY <1>5, <2>2, WrittenTitlesRead
    <2> QED BY <2>3 DEF WritesTaken
  <1>8. X!ParseEntry(d, doc) = WithTitles(hd, n + 1, Shifted(hd, ts, n))
    BY <1>5, <1>7 DEF St
  <1>9. Shifted(hd, ts, n) = Shifted(d, ts, n)
    BY <1>6 DEF Shifted
  <1>10. Written(d, x) = WithTitles(hd, n + 1, Shifted(d, ts, n))
    BY DEF Written, hd, n, len, ts, secs
  <1> QED BY <1>1, <1>8, <1>9, <1>10

-----------------------------------------------------------------------------
(* A cue sheet is read line by line. *)
CSt(file, track, prev, d) == [file |-> file, track |-> track, prev |-> prev, d |-> d]

(* One lemma for each kind of line of a cue sheet. *)
LEMMA CueDiscIdLine ==
  ASSUME NEW id, NEW lookup, NEW n, NEW length, NEW name, NEW year, NEW rev,
         NEW complete, NEW len, NEW title, NEW p, NEW v, NEW f
  PROVE  C!OnCueLine(CSt(f, 0, p,
                       Disc(id, NoId, lookup, n, length, name, year, rev,
                            complete, len, title)),
                     C!Cue("DISCID", v))
         = CSt(f, 0, p, Disc(v, v, lookup, n, length, name, year, rev,
                            complete, len, title))
  BY DEF C!OnCueLine, C!Cue, CSt, Disc, C!NoId, NoId

LEMMA CueLookupLine ==
  ASSUME NEW id, NEW cid, NEW lookup, NEW n, NEW length, NEW name, NEW year, NEW rev,
         NEW complete, NEW len, NEW title, NEW p, NEW v, NEW f
  PROVE  C!OnCueLine(CSt(f, 0, p,
                       Disc(id, cid, lookup, n, length, name, year, rev,
                            complete, len, title)),
                     C!Cue("LOOKUP", v))
         = CSt(f, 0, p, Disc(id, cid, v, n, length, name, year, rev,
                            complete, len, title))
  BY DEF C!OnCueLine, C!Cue, CSt, Disc

LEMMA CueLengthLine ==
  ASSUME NEW id, NEW cid, NEW lookup, NEW n, NEW length, NEW name, NEW year, NEW rev,
         NEW complete, NEW len, NEW title, NEW p, NEW v, NEW f
  PROVE  C!OnCueLine(CSt(f, 0, p,
                       Disc(id, cid, lookup, n, length, name, year, rev,
                            complete, len, title)),
                     C!Cue("LENGTH", v))
         = CSt(f, 0, p, Disc(id, cid, lookup, n, v, name, year, rev,
                            complete, len, title))
  BY DEF C!OnCueLine, C!Cue, CSt, Disc, C!OnDiscOrTrack

LEMMA CueDateLine ==
  ASSUME NEW id, NEW cid, NEW lookup, NEW n, NEW length, NEW name, NEW year, NEW rev,
         NEW complete, NEW len, NEW title, NEW p, NEW v, NEW f
  PROVE  C!OnCueLine(CSt(f, 0, p,
                       Disc(id, cid, lookup, n, length, name, year, rev,
                            complete, len, title)),
                     C!Cue("DATE", v))
         = CSt(f, 0, p, Disc(id, cid, lookup, n, length, name, v, rev,
                            complete, len, title))
  BY DEF C!OnCueLine, C!Cue, CSt, Disc

LEMMA CueTitleLine ==
  ASSUME NEW id, NEW cid, NEW lookup, NEW n, NEW length, NEW name, NEW year, NEW rev,
         NEW complete, NEW len, NEW title, NEW p, NEW v, NEW f
  PROVE  C!OnCueLine(CSt(f, 0, p,
                       Disc(id, cid, lookup, n, length, name, year, rev,
                            complete, len, title)),
                     C!Cue("TITLE", v))
         = CSt(f, 0, p, Disc(id, cid, lookup, n, length, v, year, rev,
                            complete, len, title))
  BY DEF C!OnCueLine, C!Cue, CSt, Disc, C!OnDiscOrTrack

LEMMA CueFileLine ==
  ASSUME NEW id, NEW cid, NEW lookup, NEW n, NEW length, NEW name, NEW year, NEW rev,
         NEW complete, NEW len, NEW title, NEW p, NEW v
  PROVE  C!OnCueLine(CSt(0, 0, p,
                       Disc(id, cid, lookup, n, length, name, year, rev,
                            complete, len, title)),
                     C!Cue("FILE", v))
         = CSt(1, 0, p, Disc(id, cid, lookup, n, length, name, year, rev,
                            complete, len, title))
  BY DEF C!OnCueLine, C!Cue, CSt, Disc

WithTracks(d, n, len, title) == Disc(d.id, d.cid, d.lookup, n, d.length, d.name, d.year, d.rev,
                                     d.complete, len, title)

LEMMA TrackLineRead ==
  ASSUME NEW d, NEW len, NEW title, NEW p, NEW i \in Nat, i + 1 \in 1 .. MaxTracks - 1
  PROVE  C!OnCueLine(CSt(1, i, p, WithTracks(d, i, len, title)), C!Cue("TRACK", i + 1))
         = CSt(1, i + 1, p, WithTracks(d, i + 1, len, title))
  <1> DEFINE d0 == WithTracks(d, i, len, title)
             s == CSt(1, i, p, d0)
             s1 == [s EXCEPT !.track = i + 1]
  <1>1. C!OnCueLine(s, C!Cue("TRACK", i + 1)) = C!OnTrack(s, i + 1)
    <2> HIDE DEF s
    <2> QED BY DEF C!OnCueLine, C!Cue
  <1>2. C!OnTrack(s, i + 1) = [s1 EXCEPT !.d.n = i + 1]
    <2>1. s.d.n = i /\ i + 1 > i
      BY DEF CSt, WithTracks, Disc
    <2> HIDE DEF s
    <2> QED BY <2>1 DEF C!OnTrack
  <1>3. s1 = CSt(1, i + 1, p, d0)
    <2> HIDE DEF d0
    <2> QED BY DEF CSt
  <1>4. [CSt(1, i + 1, p, d0) EXCEPT !.d.n = i + 1] = CSt(1, i + 1, p, [d0 EXCEPT !.n = i + 1])
    <2> HIDE DEF d0
    <2> QED BY DEF CSt
  <1>5. [d0 EXCEPT !.n = i + 1] = WithTracks(d, i + 1, len, title)
    BY DEF WithTracks, Disc
  <1> HIDE DEF s, d0, s1
  <1>6. C!OnCueLine(s, C!Cue("TRACK", i + 1)) = CSt(1, i + 1, p, [d0 EXCEPT !.n = i + 1])
    BY <1>1, <1>2, <1>3, <1>4
  <1> QED BY <1>5, <1>6 DEF s, d0

Put(f, i, v) == [f EXCEPT ![i] = v]

LEMMA TrackFieldRead ==
  ASSUME NEW d, NEW len, NEW title, NEW p, NEW i \in Nat \ {0}, NEW v
  PROVE  /\ C!OnCueLine(CSt(1, i, p, WithTracks(d, i, len, title)), C!Cue("TITLE", v))
            = CSt(1, i, p, WithTracks(d, i, len, Put(title, i, v)))
         /\ C!OnCueLine(CSt(1, i, p, WithTracks(d, i, len, title)), C!Cue("LENGTH", v))
            = CSt(1, i, p, WithTracks(d, i, Put(len, i, v), title))
  <1> DEFINE d0 == WithTracks(d, i, len, title)
             s == CSt(1, i, p, d0)
  <1>0. ~(s.track < 1) /\ s.track \in 1..s.d.n /\ s.track = i
    BY DEF CSt, WithTracks, Disc
  <1>1. /\ C!OnCueLine(s, C!Cue("TITLE", v)) = [s EXCEPT !.d.title[i] = v]
        /\ C!OnCueLine(s, C!Cue("LENGTH", v)) = [s EXCEPT !.d.len[i] = v]
    <2> HIDE DEF s
    <2> QED BY <1>0 DEF C!OnCueLine, C!Cue, C!OnDiscOrTrack
  <1>2. /\ [s EXCEPT !.d.title[i] = v] = CSt(1, i, p, [d0 EXCEPT !.title[i] = v])
        /\ [s EXCEPT !.d.len[i] = v] = CSt(1, i, p, [d0 EXCEPT !.len[i] = v])
    <2> HIDE DEF d0
    <2> QED BY DEF CSt
  <1>3. /\ [d0 EXCEPT !.title[i] = v] = WithTracks(d, i, len, [title EXCEPT ![i] = v])
        /\ [d0 EXCEPT !.len[i] = v] = WithTracks(d, i, [len EXCEPT ![i] = v], title)
    BY DEF WithTracks, Disc
  <1> HIDE DEF s, d0
  <1>4. /\ C!OnCueLine(s, C!Cue("TITLE", v)) = CSt(1, i, p, [d0 EXCEPT !.title[i] = v])
        /\ C!OnCueLine(s, C!Cue("LENGTH", v)) = CSt(1, i, p, [d0 EXCEPT !.len[i] = v])
    BY <1>1, <1>2
  <1> QED BY <1>3, <1>4 DEF s, d0, Put

IndexedLen(len, i, p, v) ==
  IF i = 1 THEN [len EXCEPT ![1] = 0]
  ELSE IF len[i - 1] = 0 THEN [len EXCEPT ![i - 1] = v - p] ELSE len
IndexedPrev(len, i, p, v) == IF i # 1 /\ len[i - 1] = 0 THEN v ELSE p

LEMMA IndexLineRead ==
  ASSUME NEW d, NEW len, NEW title, NEW p, NEW i \in Nat \ {0}, NEW v
  PROVE  C!OnCueLine(CSt(1, i, p, WithTracks(d, i, len, title)), C!Index(1, v))
         = CSt(1, i, IndexedPrev(len, i, p, v),
               WithTracks(d, i, IndexedLen(len, i, p, v), title))
  <1> DEFINE d0 == WithTracks(d, i, len, title)
             s == CSt(1, i, p, d0)
  <1>0. C!OnCueLine(s, C!Index(1, v)) = C!OnIndex(s, 1, v)
    <2> HIDE DEF s
    <2> QED BY DEF C!OnCueLine, C!Index
  <1>1. s.file = 1 /\ s.track = i /\ s.d.n = i /\ s.prev = p /\ s.d.len = len
    BY DEF CSt, WithTracks, Disc
  <1>2. CASE i = 1
    <2>1. C!OnIndex(s, 1, v) = [s EXCEPT !.d.len[1] = 0]
      <3> HIDE DEF s
      <3> QED BY <1>1, <1>2 DEF C!OnIndex
    <2>2. [s EXCEPT !.d.len[1] = 0] = CSt(1, i, p, [d0 EXCEPT !.len[1] = 0])
      <3> HIDE DEF d0
      <3> QED BY DEF CSt
    <2>3. [d0 EXCEPT !.len[1] = 0] = WithTracks(d, i, [len EXCEPT ![1] = 0], title)
      BY DEF WithTracks, Disc
    <2>4. IndexedPrev(len, i, p, v) = p /\ IndexedLen(len, i, p, v) = [len EXCEPT ![1] = 0]
      BY <1>2 DEF IndexedPrev, IndexedLen
    <2> HIDE DEF s, d0
    <2> QED BY <1>0, <2>1, <2>2, <2>3, <2>4 DEF s, d0
  <1>3. CASE i # 1 /\ len[i - 1] = 0
    <2>1. i \in 2..i /\ i # 1
      BY <1>3
    <2>2. C!OnIndex(s, 1, v) = [s EXCEPT !.d.len[i - 1] = v - p, !.prev = v]
      <3> HIDE DEF s
      <3> QED BY <1>1, <1>3, <2>1 DEF C!OnIndex
    <2> DEFINE d1 == [d0 EXCEPT !.len[i - 1] = v - p]
    <2>3. [s EXCEPT !.d.len[i - 1] = v - p] = CSt(1, i, p, d1)
      <3> HIDE DEF d0
      <3> QED BY DEF CSt
    <2>4. [CSt(1, i, p, d1) EXCEPT !.prev = v] = CSt(1, i, v, d1)
      <3> HIDE DEF d1
      <3> QED BY DEF CSt
    <2>5. d1 = WithTracks(d, i, [len EXCEPT ![i - 1] = v - p], title)
      BY DEF WithTracks, Disc
    <2>6. /\ IndexedPrev(len, i, p, v) = v
          /\ IndexedLen(len, i, p, v) = [len EXCEPT ![i - 1] = v - p]
      BY <1>3 DEF IndexedPrev, IndexedLen
    <2> HIDE DEF s, d0, d1
    <2> QED BY <1>0, <2>2, <2>3, <2>4, <2>5, <2>6 DEF s, d0
  <1>4. CASE i # 1 /\ len[i - 1] # 0
    <2>1. C!OnIndex(s, 1, v) = s
      <3> HIDE DEF s
      <3> QED BY <1>1, <1>4 DEF C!OnIndex
    <2>2. /\ IndexedPrev(len, i, p, v) = p /\ IndexedLen(len, i, p, v) = len
      BY <1>4 DEF IndexedPrev, IndexedLen
    <2> HIDE DEF s, d0
    <2> QED BY <1>0, <2>1, <2>2 DEF s, d0
  <1> QED BY <1>2, <1>3, <1>4

-----------------------------------------------------------------------------
(* The state after the lines of i tracks. *)
CueLens(x, i) ==
  [k \in 1..MaxTracks |-> IF k = 1 THEN (IF i >= 2 THEN x.len[1] - MsfOffset ELSE 0)
                          ELSE IF k <= i THEN x.len[k] ELSE 0]
CueTitles(x, i) == [k \in 1..MaxTracks |-> IF k <= i THEN x.title[k] ELSE DefaultTitle]
CuePrev(x, i) == IF i < 2 THEN MsfOffset ELSE x.len[1]
CueAt(x, hd, i) == CSt(1, i, CuePrev(x, i), WithTracks(hd, i, CueLens(x, i), CueTitles(x, i)))

(* The lengths when the LENGTH line of track i is read. *)
CueLensHalf(x, i) == [CueLens(x, i - 1) EXCEPT ![i] = x.len[i]]

(* The state after each of the lines of a track. *)
LEMMA CueTrackSteps ==
  ASSUME NEW x, NEW i \in 1..MaxTracks, \A k \in 1..i : x.len[k] \in Nat \ {0}
  PROVE  /\ [CueTitles(x, i - 1) EXCEPT ![i] = x.title[i]] = CueTitles(x, i)
         /\ IndexedLen(CueLensHalf(x, i), i, CuePrev(x, i - 1), Sum(x.len, i - 1))
            = CueLens(x, i)
         /\ IndexedPrev(CueLensHalf(x, i), i, CuePrev(x, i - 1), Sum(x.len, i - 1))
            = CuePrev(x, i)
  <1>0. i \in Nat /\ MaxTracks \in Nat /\ i - 1 \in Nat
    BY MaxTracksAssumption
  <1>1. [CueTitles(x, i - 1) EXCEPT ![i] = x.title[i]] = CueTitles(x, i)
    <2> DEFINE f == CueTitles(x, i - 1)
               g == CueTitles(x, i)
    <2>1. [f EXCEPT ![i] = x.title[i]]
          = [k \in 1..MaxTracks |-> IF k = i THEN x.title[i] ELSE f[k]]
      BY DEF CueTitles
    <2>2. ASSUME NEW k \in 1..MaxTracks
          PROVE  g[k] = IF k = i THEN x.title[i] ELSE f[k]
      <3>1. CASE k = i
        BY <1>0, <3>1 DEF CueTitles
      <3>2. CASE k # i
        <4>1. (k <= i) = (k <= i - 1)
          BY <1>0, <3>2
        <4> QED BY <3>2, <4>1 DEF CueTitles
      <3> QED BY <3>1, <3>2
    <2>3. g = [k \in 1..MaxTracks |-> g[k]]
      BY DEF CueTitles
    <2> HIDE DEF f, g
    <2>4. g = [k \in 1..MaxTracks |-> IF k = i THEN x.title[i] ELSE f[k]]
      BY <2>2, <2>3
    <2> QED BY <2>1, <2>4 DEF f, g
  <1> DEFINE half == CueLensHalf(x, i)
             p == CuePrev(x, i - 1)
             v == Sum(x.len, i - 1)
             g == CueLens(x, i)
  <1>2. ASSUME NEW k \in 1..MaxTracks
        PROVE  half[k] = IF k = i THEN x.len[i] ELSE CueLens(x, i - 1)[k]
    BY DEF CueLensHalf, CueLens
  <1>3. half = [k \in 1..MaxTracks |-> half[k]] /\ g = [k \in 1..MaxTracks |-> g[k]]
    BY DEF CueLensHalf, CueLens
  <1>4. ASSUME NEW k \in 1..MaxTracks, NEW j \in Nat
        PROVE  CueLens(x, j)[k] = IF k = 1 THEN (IF j >= 2 THEN x.len[1] - MsfOffset ELSE 0)
                                  ELSE IF k <= j THEN x.len[k] ELSE 0
    BY DEF CueLens
  <1> HIDE DEF half, g
  <1>5. CASE i = 1
    <2>1. IndexedPrev(half, i, p, v) = p /\ IndexedLen(half, i, p, v) = [half EXCEPT ![1] = 0]
      BY <1>5 DEF IndexedPrev, IndexedLen
    <2>2. p = CuePrev(x, i)
      BY <1>5 DEF CuePrev
    <2>3. ASSUME NEW k \in 1..MaxTracks
          PROVE  g[k] = IF k = 1 THEN 0 ELSE half[k]
      <3>1. ~(i >= 2) /\ ~(i - 1 >= 2)
        BY <1>5
      <3>2. CASE k = 1
        BY <1>4, <3>1, <3>2, <1>0 DEF g
      <3>3. CASE k # 1
        <4>1. ~(k <= i) /\ ~(k <= i - 1) /\ k # i
          BY <1>5, <3>3
        <4> QED BY <1>0, <1>2, <1>4, <3>3, <4>1 DEF g
      <3> QED BY <3>2, <3>3
    <2>4. [half EXCEPT ![1] = 0] = [k \in 1..MaxTracks |-> IF k = 1 THEN 0 ELSE half[k]]
      BY <1>3
    <2>5. [half EXCEPT ![1] = 0] = g
      BY <1>3, <2>3, <2>4
    <2> QED BY <1>1, <2>1, <2>2, <2>5 DEF half, g
  <1>6. CASE i = 2
    <2>1. i - 1 = 1 /\ i # 1 /\ ~(1 >= 2) /\ 2 >= 2 /\ 1 \in 1..MaxTracks /\ 1 \in Nat /\ 1 \in 1..i
      BY <1>0, <1>6
    <2>2. half[1] = 0
      BY <1>2, <1>4, <2>1
    <2>3. v = x.len[1]
      <3>1. \A k \in 1..1 : x.len[k] \in Int
        BY <2>1
      <3>2. Sum(x.len, 0) = 0 /\ Sum(x.len, 1) = Sum(x.len, 1 - 1) + x.len[1]
        <4>1. 1 \in 1..1
          OBVIOUS
        <4> QED BY <2>1, <3>1, <4>1, SumSteps
      <3>3. 1 - 1 = 0
        OBVIOUS
      <3> DEFINE a == Sum(x.len, 1)
                 b == x.len[1]
      <3>4. a = 0 + b /\ b \in Int
        BY <2>1, <3>2, <3>3
      <3> QED BY <2>1, <3>4
    <2>4. p = MsfOffset
      BY <2>1 DEF CuePrev
    <2>5. /\ IndexedPrev(half, i, p, v) = v
          /\ IndexedLen(half, i, p, v) = [half EXCEPT ![1] = v - p]
      BY <2>1, <2>2 DEF IndexedPrev, IndexedLen
    <2>6. CuePrev(x, i) = x.len[1]
      BY <1>6 DEF CuePrev
    <2>7. ASSUME NEW k \in 1..MaxTracks
          PROVE  g[k] = IF k = 1 THEN v - p ELSE half[k]
      <3>1. CASE k = 1
        BY <1>0, <1>4, <1>6, <2>1, <2>3, <2>4, <3>1 DEF g
      <3>2. CASE k = i
        <4>1. k <= i /\ k # 1
          BY <1>0, <2>1, <3>2
        <4> QED BY <1>0, <1>2, <1>4, <3>2, <4>1 DEF g
      <3>3. CASE k # 1 /\ k # i
        <4>1. ~(k <= i) /\ ~(k <= i - 1)
          BY <1>6, <3>3
        <4> QED BY <1>0, <1>2, <1>4, <3>3, <4>1 DEF g
      <3> QED BY <3>1, <3>2, <3>3
    <2>8. [half EXCEPT ![1] = v - p]
          = [k \in 1..MaxTracks |-> IF k = 1 THEN v - p ELSE half[k]]
      BY <1>3
    <2> HIDE DEF v, p
    <2>9. [half EXCEPT ![1] = v - p] = g
      BY <1>3, <2>7, <2>8
    <2> QED BY <1>1, <2>3, <2>5, <2>6, <2>9 DEF half, g, v, p
  <1>7. CASE i > 2
    <2>1. /\ i - 1 \in 1..MaxTracks /\ i - 1 # i /\ i - 1 # 1 /\ i - 1 <= i - 1 /\ i # 1
          /\ ~(i < 2) /\ ~(i - 1 < 2) /\ i >= 2 /\ i - 1 >= 2 /\ i - 1 \in 1..i
      BY <1>0, <1>7
    <2>2. half[i - 1] = x.len[i - 1]
      BY <1>0, <1>2, <1>4, <2>1
    <2>3. half[i - 1] # 0
      BY <2>1, <2>2
    <2>4. IndexedPrev(half, i, p, v) = p /\ IndexedLen(half, i, p, v) = half
      BY <2>1, <2>3 DEF IndexedPrev, IndexedLen
    <2>5. p = CuePrev(x, i)
      BY <2>1 DEF CuePrev
    <2>6. ASSUME NEW k \in 1..MaxTracks
          PROVE  g[k] = half[k]
      <3>1. CASE k = i
        <4>1. k <= i
          BY <1>0, <3>1
        <4> QED BY <1>0, <1>2, <1>4, <2>1, <3>1, <4>1 DEF g
      <3>2. CASE k # i
        <4>1. (k <= i) = (k <= i - 1)
          BY <1>0, <3>2
        <4> QED BY <1>0, <1>2, <1>4, <2>1, <3>2, <4>1 DEF g
      <3> QED BY <3>1, <3>2
    <2>7. half = g
      BY <1>3, <2>6
    <2> QED BY <1>1, <2>4, <2>5, <2>7 DEF half, g
  <1> QED BY <1>0, <1>5, <1>6, <1>7

Block(x, i) == <<C!Cue("TRACK", i), C!Cue("TITLE", x.title[i]), C!Cue("LENGTH", x.len[i]),
                 C!Index(1, Sum(x.len, i - 1))>>
Blocks(x) == [i \in 1..x.n |-> Block(x, i)]

CueTracksGiven(x, n, flat, pos) ==
  /\ x.n = n /\ n \in 1 .. MaxTracks - 1 /\ \A k \in 1..n : x.len[k] \in Nat \ {0}
  /\ IsFlat(Blocks(x), n, flat, pos)
CueLinesRead(flat, m, g) == \A q \in 1..m : g[q] = C!OnCueLine(g[q - 1], flat[q])

(* The four lines of a track: its predecessor gets the length up to its    *)
(* first sector, and it the length of its LENGTH line where the sheet has  *)
(* no sector for its end.                                                  *)
LEMMA BlockRead ==
  ASSUME NEW x, NEW hd, NEW i \in 1 .. MaxTracks - 1, \A k \in 1..i : x.len[k] \in Nat \ {0},
         NEW a, NEW b, NEW c, NEW e,
         a = C!OnCueLine(CueAt(x, hd, i - 1), C!Cue("TRACK", i)),
         b = C!OnCueLine(a, C!Cue("TITLE", x.title[i])),
         c = C!OnCueLine(b, C!Cue("LENGTH", x.len[i])),
         e = C!OnCueLine(c, C!Index(1, Sum(x.len, i - 1)))
  PROVE  e = CueAt(x, hd, i)
  <1>0. i - 1 \in Nat /\ (i - 1) + 1 = i /\ i \in Nat \ {0} /\ i \in 1..MaxTracks
    BY MaxTracksAssumption
  <1> DEFINE p == CuePrev(x, i - 1)
             len == CueLens(x, i - 1)
             title == CueTitles(x, i - 1)
             v == Sum(x.len, i - 1)
             half == CueLensHalf(x, i)
             j == i - 1
  <1>1. a = CSt(1, i, p, WithTracks(hd, i, len, title))
    <2> HIDE DEF p, len, title, j
    <2>1. C!OnCueLine(CSt(1, j, p, WithTracks(hd, j, len, title)), C!Cue("TRACK", j + 1))
          = CSt(1, j + 1, p, WithTracks(hd, j + 1, len, title))
      <3>1. j \in Nat /\ j + 1 \in 1 .. MaxTracks - 1
        BY <1>0 DEF j
      <3> QED BY <3>1, TrackLineRead
    <2> QED BY <1>0, <2>1 DEF CueAt, p, len, title, j
  <1>2. b = CSt(1, i, p, WithTracks(hd, i, len, CueTitles(x, i)))
    <2>1. [title EXCEPT ![i] = x.title[i]] = CueTitles(x, i)
      BY <1>0, CueTrackSteps
    <2> DEFINE w == x.title[i]
    <2> HIDE DEF p, len, title, w
    <2>2. C!OnCueLine(CSt(1, i, p, WithTracks(hd, i, len, title)), C!Cue("TITLE", w))
          = CSt(1, i, p, WithTracks(hd, i, len, Put(title, i, w)))
      <3>1. i \in Nat \ {0}
        BY <1>0
      <3> QED BY ONLY <3>1, TrackFieldRead
    <2> QED BY <1>1, <2>1, <2>2 DEF w, Put
  <1>3. c = CSt(1, i, p, WithTracks(hd, i, half, CueTitles(x, i)))
    <2>1. [len EXCEPT ![i] = x.len[i]] = half
      BY DEF CueLensHalf
    <2> DEFINE w == x.len[i]
               t == CueTitles(x, i)
    <2> HIDE DEF p, len, title, half, w, t
    <2>2. C!OnCueLine(CSt(1, i, p, WithTracks(hd, i, len, t)), C!Cue("LENGTH", w))
          = CSt(1, i, p, WithTracks(hd, i, Put(len, i, w), t))
      <3>1. i \in Nat \ {0}
        BY <1>0
      <3> QED BY ONLY <3>1, TrackFieldRead
    <2> QED BY <1>2, <2>1, <2>2 DEF w, t, Put
  <1>4. e = CSt(1, i, IndexedPrev(half, i, p, v),
                WithTracks(hd, i, IndexedLen(half, i, p, v), CueTitles(x, i)))
    <2> HIDE DEF p, len, title, half, v
    <2>1. e = C!OnCueLine(c, C!Index(1, v))
      BY DEF v
    <2> QED BY <1>0, <1>3, <2>1, IndexLineRead
  <1>5. IndexedPrev(half, i, p, v) = CuePrev(x, i) /\ IndexedLen(half, i, p, v) = CueLens(x, i)
    BY <1>0, CueTrackSteps
  <1> HIDE DEF half, p, v
  <1> QED BY <1>4, <1>5 DEF CueAt

(* The tracks of a sheet, one after another. *)
LEMMA CueTracksRead ==
  ASSUME NEW x, NEW hd, NEW n, NEW flat, NEW pos, NEW g,
         CueTracksGiven(x, n, flat, pos),
         g[0] = CueAt(x, hd, 0),
         CueLinesRead(flat, pos[n], g)
  PROVE  g[pos[n]] = CueAt(x, hd, n)
  <1> SUFFICES ASSUME x.n = n, n \in 1 .. MaxTracks - 1, \A k \in 1..n : x.len[k] \in Nat \ {0},
                      IsFlat(Blocks(x), n, flat, pos)
               PROVE  g[pos[n]] = CueAt(x, hd, n)
    BY DEF CueTracksGiven
  <1>0. n \in Nat /\ MaxTracks \in Nat
    BY MaxTracksAssumption
  <1>1. \A i \in 1..n : /\ Len(Blocks(x)[i]) = 4 /\ Blocks(x)[i] = Block(x, i)
    <2> SUFFICES ASSUME NEW i \in 1..n PROVE Len(Blocks(x)[i]) = 4 /\ Blocks(x)[i] = Block(x, i)
      OBVIOUS
    <2>1. Blocks(x)[i] = Block(x, i)
      BY DEF Blocks
    <2>2. Len(Block(x, i)) = 4
      BY DEF Block
    <2> QED BY <2>1, <2>2
  <1>2. /\ pos \in [0..n -> Nat] /\ pos[0] = 0
        /\ \A i \in 1..n : /\ pos[i] = pos[i - 1] + 4
                           /\ \A j \in 1..4 : flat[pos[i - 1] + j] = Block(x, i)[j]
    <2>1. /\ pos \in [0..n -> Nat] /\ pos[0] = 0
          /\ \A i \in 1..n : /\ pos[i] = pos[i - 1] + Len(Blocks(x)[i])
                             /\ \A j \in 1..Len(Blocks(x)[i]) :
                                  flat[pos[i - 1] + j] = Blocks(x)[i][j]
      BY DEF IsFlat
    <2>2. ASSUME NEW i \in 1..n
          PROVE  /\ pos[i] = pos[i - 1] + 4
                 /\ \A j \in 1..4 : flat[pos[i - 1] + j] = Block(x, i)[j]
      <3>1. Len(Blocks(x)[i]) = 4 /\ Blocks(x)[i] = Block(x, i)
        BY <1>1
      <3>2. /\ pos[i] = pos[i - 1] + Len(Blocks(x)[i])
            /\ \A j \in 1..Len(Blocks(x)[i]) : flat[pos[i - 1] + j] = Blocks(x)[i][j]
        BY <2>1
      <3> QED BY ONLY <3>1, <3>2
    <2> QED BY <2>1, <2>2
  <1>3. \A i \in 1..n : \A j \in 1..4 : pos[i - 1] + j \in 1..pos[n]
    <2>1. \A i \in 1..n : Len(Blocks(x)[i]) \in Nat
      BY <1>1
    <2>2. \A i \in 1..n : \A j \in 1..Len(Blocks(x)[i]) : pos[i - 1] + j \in 1..pos[n]
      BY <1>0, <2>1, PlaceInFlat
    <2> QED BY <1>1, <2>2
  <1> DEFINE P == {i \in Nat : i <= n => g[pos[i]] = CueAt(x, hd, i)}
  <1>4. 0 \in P
    BY <1>2
  <1>5. ASSUME NEW q \in Nat, q \in P PROVE q + 1 \in P
    <2> DEFINE i == q + 1
    <2>1. CASE i <= n
      <3>1. i \in 1..n /\ i - 1 = q /\ q <= n /\ i \in 1 .. MaxTracks - 1 /\ i - 1 \in 0..n
        BY ONLY <1>0, <2>1, q \in Nat, n \in 1 .. MaxTracks - 1
      <3> HIDE DEF i
      <3> DEFINE r == pos[i - 1]
      <3>2. g[r] = CueAt(x, hd, i - 1) /\ r \in Nat
        BY <1>2, <1>5, <3>1
      <3>3. /\ r + 1 \in 1..pos[n] /\ r + 2 \in 1..pos[n] /\ r + 3 \in 1..pos[n]
            /\ r + 4 \in 1..pos[n] /\ pos[i] = r + 4
        <4>1. 1 \in 1..4 /\ 2 \in 1..4 /\ 3 \in 1..4 /\ 4 \in 1..4
          OBVIOUS
        <4> QED BY <1>2, <1>3, <3>1, <4>1
      <3>4. /\ flat[r + 1] = C!Cue("TRACK", i) /\ flat[r + 2] = C!Cue("TITLE", x.title[i])
            /\ flat[r + 3] = C!Cue("LENGTH", x.len[i])
            /\ flat[r + 4] = C!Index(1, Sum(x.len, i - 1))
        <4>1. 1 \in 1..4 /\ 2 \in 1..4 /\ 3 \in 1..4 /\ 4 \in 1..4
          OBVIOUS
        <4>2. /\ flat[r + 1] = Block(x, i)[1] /\ flat[r + 2] = Block(x, i)[2]
              /\ flat[r + 3] = Block(x, i)[3] /\ flat[r + 4] = Block(x, i)[4]
          BY <1>2, <3>1, <4>1
        <4> QED BY <4>2 DEF Block
      <3> HIDE DEF r
      <3>5. (r + 1) - 1 = r /\ (r + 2) - 1 = r + 1 /\ (r + 3) - 1 = r + 2 /\ (r + 4) - 1 = r + 3
        BY <3>2
      <3>6. /\ g[r + 1] = C!OnCueLine(CueAt(x, hd, i - 1), C!Cue("TRACK", i))
            /\ g[r + 2] = C!OnCueLine(g[r + 1], C!Cue("TITLE", x.title[i]))
            /\ g[r + 3] = C!OnCueLine(g[r + 2], C!Cue("LENGTH", x.len[i]))
            /\ g[r + 4] = C!OnCueLine(g[r + 3], C!Index(1, Sum(x.len, i - 1)))
        <4> HIDE DEF P
        <4>1. \A k \in 1..pos[n] : g[k] = C!OnCueLine(g[k - 1], flat[k])
          BY DEF CueLinesRead
        <4> QED BY ONLY <3>2, <3>3, <3>4, <3>5, <4>1
      <3>7. \A k \in 1..i : x.len[k] \in Nat \ {0}
        BY <3>1
      <3>8. g[r + 4] = CueAt(x, hd, i)
        BY ONLY <3>1, <3>6, <3>7, BlockRead
      <3> QED BY <3>3, <3>8 DEF i
    <2> QED BY <2>1
  <1> HIDE DEF P
  <1>6. n \in P
    BY <1>0, <1>4, <1>5, SetInduction
  <1> QED BY <1>0, <1>6 DEF P

(* The structure when the header of the sheet is read. *)
CueHead(x) ==
  Disc(x.id, x.id, x.lookup, 0, x.length, x.name, x.year, 0, FALSE,
       [i \in 1..MaxTracks |-> 0], [i \in 1..MaxTracks |-> DefaultTitle])

CueHeader(x) ==
  IF x.year > 0
  THEN <<C!Cue("DISCID", x.id), C!Cue("LOOKUP", x.lookup), C!Cue("LENGTH", x.length),
         C!Cue("DATE", x.year), C!Cue("TITLE", x.name), C!Cue("FILE", 1)>>
  ELSE <<C!Cue("DISCID", x.id), C!Cue("LOOKUP", x.lookup), C!Cue("LENGTH", x.length),
         C!Cue("TITLE", x.name), C!Cue("FILE", 1)>>

(* Short sequences before a longer one. *)
LEMMA Concat11 ==
  ASSUME NEW a, NEW b
  PROVE  <<a>> \o <<b>> = <<a, b>>
  <1> DEFINE S == {a, b}
  <1>1. <<a>> \in Seq(S) /\ <<b>> \in Seq(S)
    OBVIOUS
  <1>2. <<a>> \o <<b>> \in Seq(S) /\ Len(<<a>> \o <<b>>) = 2
    BY <1>1, ConcatAt
  <1>3. /\ (<<a>> \o <<b>>)[1] = a
          /\ (<<a>> \o <<b>>)[2] = b
    BY <1>1, ConcatAt
  <1>4. \A s \in Seq(S) : Len(s) = 2 => s = <<s[1], s[2]>>
    OBVIOUS
  <1> HIDE DEF S
  <1> QED BY <1>2, <1>3, <1>4

LEMMA Concat21 ==
  ASSUME NEW a, NEW b, NEW c
  PROVE  <<a, b>> \o <<c>> = <<a, b, c>>
  <1> DEFINE S == {a, b, c}
  <1>1. <<a, b>> \in Seq(S) /\ <<c>> \in Seq(S)
    OBVIOUS
  <1>2. <<a, b>> \o <<c>> \in Seq(S) /\ Len(<<a, b>> \o <<c>>) = 3
    BY <1>1, ConcatAt
  <1>3. /\ (<<a, b>> \o <<c>>)[1] = a
          /\ (<<a, b>> \o <<c>>)[2] = b
          /\ (<<a, b>> \o <<c>>)[3] = c
    BY <1>1, ConcatAt
  <1>4. \A s \in Seq(S) : Len(s) = 3 => s = <<s[1], s[2], s[3]>>
    OBVIOUS
  <1> HIDE DEF S
  <1> QED BY <1>2, <1>3, <1>4

LEMMA Concat31 ==
  ASSUME NEW a, NEW b, NEW c, NEW d
  PROVE  <<a, b, c>> \o <<d>> = <<a, b, c, d>>
  <1> DEFINE S == {a, b, c, d}
  <1>1. <<a, b, c>> \in Seq(S) /\ <<d>> \in Seq(S)
    OBVIOUS
  <1>2. <<a, b, c>> \o <<d>> \in Seq(S) /\ Len(<<a, b, c>> \o <<d>>) = 4
    BY <1>1, ConcatAt
  <1>3. /\ (<<a, b, c>> \o <<d>>)[1] = a
          /\ (<<a, b, c>> \o <<d>>)[2] = b
          /\ (<<a, b, c>> \o <<d>>)[3] = c
          /\ (<<a, b, c>> \o <<d>>)[4] = d
    BY <1>1, ConcatAt
  <1>4. \A s \in Seq(S) : Len(s) = 4 => s = <<s[1], s[2], s[3], s[4]>>
    OBVIOUS
  <1> HIDE DEF S
  <1> QED BY <1>2, <1>3, <1>4

LEMMA Concat30 ==
  ASSUME NEW a, NEW b, NEW c
  PROVE  <<a, b, c>> \o <<>> = <<a, b, c>>
  <1> DEFINE S == {a, b, c}
  <1>1. <<a, b, c>> \in Seq(S) /\ <<>> \in Seq(S)
    OBVIOUS
  <1>2. <<a, b, c>> \o <<>> \in Seq(S) /\ Len(<<a, b, c>> \o <<>>) = 3
    BY <1>1, ConcatAt
  <1>3. /\ (<<a, b, c>> \o <<>>)[1] = a
          /\ (<<a, b, c>> \o <<>>)[2] = b
          /\ (<<a, b, c>> \o <<>>)[3] = c
    BY <1>1, ConcatAt
  <1>4. \A s \in Seq(S) : Len(s) = 3 => s = <<s[1], s[2], s[3]>>
    OBVIOUS
  <1> HIDE DEF S
  <1> QED BY <1>2, <1>3, <1>4

LEMMA Concat32 ==
  ASSUME NEW a, NEW b, NEW c, NEW d, NEW e
  PROVE  <<a, b, c>> \o <<d, e>> = <<a, b, c, d, e>>
  <1> DEFINE S == {a, b, c, d, e}
  <1>1. <<a, b, c>> \in Seq(S) /\ <<d, e>> \in Seq(S)
    OBVIOUS
  <1>2. <<a, b, c>> \o <<d, e>> \in Seq(S) /\ Len(<<a, b, c>> \o <<d, e>>) = 5
    BY <1>1, ConcatAt
  <1>3. /\ (<<a, b, c>> \o <<d, e>>)[1] = a
          /\ (<<a, b, c>> \o <<d, e>>)[2] = b
          /\ (<<a, b, c>> \o <<d, e>>)[3] = c
          /\ (<<a, b, c>> \o <<d, e>>)[4] = d
          /\ (<<a, b, c>> \o <<d, e>>)[5] = e
    BY <1>1, ConcatAt
  <1>4. \A s \in Seq(S) : Len(s) = 5 => s = <<s[1], s[2], s[3], s[4], s[5]>>
    OBVIOUS
  <1> HIDE DEF S
  <1> QED BY <1>2, <1>3, <1>4

LEMMA Concat42 ==
  ASSUME NEW a, NEW b, NEW c, NEW d, NEW e, NEW f
  PROVE  <<a, b, c, d>> \o <<e, f>> = <<a, b, c, d, e, f>>
  <1> DEFINE S == {a, b, c, d, e, f}
  <1>1. <<a, b, c, d>> \in Seq(S) /\ <<e, f>> \in Seq(S)
    OBVIOUS
  <1>2. <<a, b, c, d>> \o <<e, f>> \in Seq(S) /\ Len(<<a, b, c, d>> \o <<e, f>>) = 6
    BY <1>1, ConcatAt
  <1>3. /\ (<<a, b, c, d>> \o <<e, f>>)[1] = a
          /\ (<<a, b, c, d>> \o <<e, f>>)[2] = b
          /\ (<<a, b, c, d>> \o <<e, f>>)[3] = c
          /\ (<<a, b, c, d>> \o <<e, f>>)[4] = d
          /\ (<<a, b, c, d>> \o <<e, f>>)[5] = e
          /\ (<<a, b, c, d>> \o <<e, f>>)[6] = f
    BY <1>1, ConcatAt
  <1>4. \A s \in Seq(S) : Len(s) = 6 => s = <<s[1], s[2], s[3], s[4], s[5], s[6]>>
    OBVIOUS
  <1> HIDE DEF S
  <1> QED BY <1>2, <1>3, <1>4

(* The sheet the program writes is a header and a block of lines for each  *)
(* track.                                                                  *)
LEMMA CueSheetIs ==
  ASSUME NEW x, x.lookup # NoLookup
  PROVE  C!WriteCue(x) = CueHeader(x) \o C!FlattenSeq(Blocks(x))
  <1>1. ASSUME NEW i \in 1..x.n
        PROVE  <<C!Cue("TRACK", i), C!Cue("TITLE", x.title[i]), C!Cue("LENGTH", x.len[i]),
                 C!Index(1, C!Start(x.len, i))>> = Block(x, i)
    <2>1. C!Start(x.len, i) = Sum(x.len, i - 1)
      BY SumsAgree DEF C!Start
    <2> QED BY <2>1 DEF Block
  <1>2. [i \in 1..x.n |-> <<C!Cue("TRACK", i), C!Cue("TITLE", x.title[i]),
                            C!Cue("LENGTH", x.len[i]), C!Index(1, C!Start(x.len, i))>>]
        = Blocks(x)
    BY <1>1 DEF Blocks
  <1> DEFINE a == C!Cue("DISCID", x.id)
             b == C!Cue("LOOKUP", x.lookup)
             c == C!Cue("LENGTH", x.length)
             d == C!Cue("DATE", x.year)
             e == C!Cue("TITLE", x.name)
             f == C!Cue("FILE", 1)
             flat == C!FlattenSeq(Blocks(x))
  <1>3. C!WriteCue(x) = (((((<<a>> \o <<b>>) \o <<c>>) \o (IF x.year > 0 THEN <<d>> ELSE <<>>))
                         \o <<e, f>>) \o flat)
    <2> HIDE DEF flat
    <2> QED BY <1>2 DEF C!WriteCue, C!NoLookup, NoLookup, flat
  <1>4. CueHeader(x) = IF x.year > 0 THEN <<a, b, c, d, e, f>> ELSE <<a, b, c, e, f>>
    BY DEF CueHeader
  <1> HIDE DEF a, b, c, d, e, f, flat
  <1>5. ((<<a>> \o <<b>>) \o <<c>>) = <<a, b, c>>
    <2>1. <<a>> \o <<b>> = <<a, b>>
      BY Concat11
    <2>2. <<a, b>> \o <<c>> = <<a, b, c>>
      BY Concat21
    <2> QED BY <2>1, <2>2
  <1>6. CASE x.year > 0
    <2>1. (<<a, b, c>> \o <<d>>) \o <<e, f>> = <<a, b, c, d, e, f>>
      <3>1. <<a, b, c>> \o <<d>> = <<a, b, c, d>>
        BY Concat31
      <3>2. <<a, b, c, d>> \o <<e, f>> = <<a, b, c, d, e, f>>
        BY Concat42
      <3> QED BY <3>1, <3>2
    <2> QED BY <1>3, <1>4, <1>5, <1>6, <2>1 DEF flat
  <1>7. CASE ~(x.year > 0)
    <2>1. (<<a, b, c>> \o <<>>) \o <<e, f>> = <<a, b, c, e, f>>
      BY Concat30, Concat32
    <2> QED BY <1>3, <1>4, <1>5, <1>7, <2>1 DEF flat
  <1> QED BY <1>6, <1>7

CueFolds(x, m, flat, h) ==
  /\ h[0] = CueStart
  /\ \A k \in 1 .. m + Len(flat) : h[k] = C!OnCueLine(h[k - 1], (CueHeader(x) \o flat)[k])

(* The state after the header. *)
LEMMA CueStartIs ==
  CueStart = CSt(0, 0, MsfOffset,
                 Disc(NoId, NoId, NoLookup, 0, 0, Unknown, 0, 0, FALSE,
                      [i \in 1..MaxTracks |-> 0], [i \in 1..MaxTracks |-> DefaultTitle]))
  BY DEF CueStart, CSt, C!AllocDisc, Disc, C!MsfOffset, MsfOffset, C!Frames, C!NoId, NoId,
         C!NoLookup, NoLookup, C!Unknown, Unknown, C!DefaultTitle, DefaultTitle

(* The lines of the header. *)
LEMMA CueHeaderRead ==
  ASSUME NEW x, x.year \in Nat, NEW m, m = Len(CueHeader(x)), NEW h, h[0] = CueStart,
         \A k \in 1..m : h[k] = C!OnCueLine(h[k - 1], CueHeader(x)[k])
  PROVE  h[m] = CSt(1, 0, MsfOffset, CueHead(x))
  <1> DEFINE zeros == [i \in 1..MaxTracks |-> 0]
             defaults == [i \in 1..MaxTracks |-> DefaultTitle]
             p == MsfOffset
             no == FALSE
             z == 0
             id == x.id
             lookup == x.lookup
             length == x.length
             name == x.name
             year == x.year
             a == C!Cue("DISCID", id)
             b == C!Cue("LOOKUP", lookup)
             c == C!Cue("LENGTH", length)
             d == C!Cue("DATE", year)
             e == C!Cue("TITLE", name)
             f == C!Cue("FILE", 1)
  <1>1. h[0] = CSt(0, 0, p, Disc(NoId, NoId, NoLookup, z, z, Unknown, z, z, no, zeros,
                                 defaults))
    BY CueStartIs
  <1>2. CueHeader(x) = IF year > 0 THEN <<a, b, c, d, e, f>> ELSE <<a, b, c, e, f>>
    BY DEF CueHeader
  <1>3. CueHead(x) = Disc(id, id, lookup, z, length, name, year, z, no, zeros, defaults)
    BY DEF CueHead
  <1>y. year \in Nat
    OBVIOUS
  <1>z. z = 0
    OBVIOUS
  <1> HIDE DEF no, z, zeros, defaults, p, id, lookup, length, name, year
  <1>4. /\ m >= 3 /\ m \in Nat
        /\ CueHeader(x)[1] = a /\ CueHeader(x)[2] = b /\ CueHeader(x)[3] = c
    <2> HIDE DEF a, b, c, d, e, f
    <2>1. CASE year > 0
      <3>1. CueHeader(x) = <<a, b, c, d, e, f>>
        BY <1>2, <2>1
      <3> QED BY <3>1
    <2>2. CASE ~(year > 0)
      <3>1. CueHeader(x) = <<a, b, c, e, f>>
        BY <1>2, <2>2
      <3> QED BY <3>1
    <2> QED BY <2>1, <2>2
  <1>5. /\ h[1] = C!OnCueLine(h[0], a) /\ h[2] = C!OnCueLine(h[1], b)
        /\ h[3] = C!OnCueLine(h[2], c)
    <2>1. 1 \in 1..m /\ 2 \in 1..m /\ 3 \in 1..m /\ 1 - 1 = 0 /\ 2 - 1 = 1 /\ 3 - 1 = 2
      BY <1>4
    <2> HIDE DEF a, b, c
    <2> QED BY <1>4, <2>1
  <1>6. h[1] = CSt(0, 0, p, Disc(id, id, NoLookup, z, z, Unknown, z, z, no, zeros, defaults))
    BY <1>1, <1>5, CueDiscIdLine
  <1>7. h[2] = CSt(0, 0, p, Disc(id, id, lookup, z, z, Unknown, z, z, no, zeros, defaults))
    BY <1>5, <1>6, CueLookupLine
  <1>8. h[3] = CSt(0, 0, p, Disc(id, id, lookup, z, length, Unknown, z, z, no, zeros,
                                 defaults))
    BY <1>5, <1>7, CueLengthLine
  <1>9. CASE year > 0
    <2>1. h[4] = C!OnCueLine(h[3], d) /\ h[5] = C!OnCueLine(h[4], e) /\ h[6] = C!OnCueLine(h[5], f)
          /\ m = 6
      <3> HIDE DEF a, b, c, d, e, f
      <3>1. CueHeader(x) = <<a, b, c, d, e, f>>
        BY <1>2, <1>9
      <3>2. m = 6 /\ CueHeader(x)[4] = d /\ CueHeader(x)[5] = e /\ CueHeader(x)[6] = f
        BY <3>1
      <3>3. 4 \in 1..m /\ 5 \in 1..m /\ 6 \in 1..m /\ 4 - 1 = 3 /\ 5 - 1 = 4 /\ 6 - 1 = 5
        BY <3>2
      <3> QED BY <3>2, <3>3
    <2>2. h[4] = CSt(0, 0, p, Disc(id, id, lookup, z, length, Unknown, year, z, no, zeros,
                                   defaults))
      BY <1>8, <2>1, CueDateLine
    <2>3. h[5] = CSt(0, 0, p, Disc(id, id, lookup, z, length, name, year, z, no, zeros,
                                   defaults))
      BY <2>1, <2>2, CueTitleLine
    <2>4. h[6] = CSt(1, 0, p, Disc(id, id, lookup, z, length, name, year, z, no, zeros,
                                   defaults))
      BY <2>1, <2>3, CueFileLine
    <2> QED BY <1>3, <2>1, <2>4 DEF p
  <1>10. CASE ~(year > 0)
    <2>0. year = z
      BY <1>y, <1>z, <1>10
    <2>1. h[4] = C!OnCueLine(h[3], e) /\ h[5] = C!OnCueLine(h[4], f) /\ m = 5
      <3> HIDE DEF a, b, c, d, e, f
      <3>1. CueHeader(x) = <<a, b, c, e, f>>
        BY <1>2, <1>10
      <3>2. m = 5 /\ CueHeader(x)[4] = e /\ CueHeader(x)[5] = f
        BY <3>1
      <3>3. 4 \in 1..m /\ 5 \in 1..m /\ 4 - 1 = 3 /\ 5 - 1 = 4
        BY <3>2
      <3> QED BY <3>2, <3>3
    <2>2. h[4] = CSt(0, 0, p, Disc(id, id, lookup, z, length, name, z, z, no, zeros,
                                   defaults))
      BY <1>8, <2>1, CueTitleLine
    <2>3. h[5] = CSt(1, 0, p, Disc(id, id, lookup, z, length, name, z, z, no, zeros,
                                   defaults))
      BY <2>1, <2>2, CueFileLine
    <2> QED BY <1>3, <2>0, <2>1, <2>3 DEF p
  <1> QED BY <1>9, <1>10

(* What reading back the cue sheet written for x gives. *)
CueRead(x) == WithTracks(CueHead(x), x.n, CueLens(x, x.n), CueTitles(x, x.n))

(* Parsing a cue sheet as the program writes it gives its disc back, but   *)
(* for the length of the first track (cue_sheet.c:604-615, 166, 257-266).  *)
THEOREM CueParsed ==
  ASSUME NEW x, x.lookup # NoLookup, x.year \in Nat, x.n \in 1 .. MaxTracks - 1,
         \A k \in 1..x.n : x.len[k] \in Nat \ {0}
  PROVE  C!ParseCue(C!WriteCue(x)) = CueRead(x)
  <1> DEFINE n == x.n
             hdr == CueHeader(x)
             flat == C!FlattenSeq(Blocks(x))
             doc == hdr \o flat
             hd == CueHead(x)
             lines == {Block(x, i)[j] : i \in 1..n, j \in 1..4}
             S == lines \cup {hdr[i] : i \in 1..Len(hdr)}
  <1>1. C!WriteCue(x) = doc
    BY CueSheetIs
  <1>2. n \in Nat /\ n \in 1 .. MaxTracks - 1
    BY MaxTracksAssumption
  <1>3. hdr \in Seq(S) /\ Len(hdr) \in Nat
    <2> DEFINE a == C!Cue("DISCID", x.id)
               b == C!Cue("LOOKUP", x.lookup)
               c == C!Cue("LENGTH", x.length)
               d == C!Cue("DATE", x.year)
               e == C!Cue("TITLE", x.name)
               f == C!Cue("FILE", 1)
    <2>1. hdr = IF x.year > 0 THEN <<a, b, c, d, e, f>> ELSE <<a, b, c, e, f>>
      BY DEF CueHeader
    <2> HIDE DEF hdr, a, b, c, d, e, f, lines
    <2>2. hdr = [i \in 1..Len(hdr) |-> hdr[i]] /\ Len(hdr) \in Nat
      <3>1. CASE x.year > 0
        <4>1. hdr = <<a, b, c, d, e, f>>
          BY <2>1, <3>1
        <4>2. hdr \in Seq({a, b, c, d, e, f})
          BY <4>1
        <4> QED BY <4>2
      <3>2. CASE ~(x.year > 0)
        <4>1. hdr = <<a, b, c, e, f>>
          BY <2>1, <3>2
        <4>2. hdr \in Seq({a, b, c, d, e, f})
          BY <4>1
        <4> QED BY <4>2
      <3> QED BY <3>1, <3>2
    <2>3. \A i \in 1..Len(hdr) : hdr[i] \in S
      OBVIOUS
    <2> HIDE DEF S
    <2> QED BY <2>2, <2>3
  <1>4. Blocks(x) \in [1..n -> Seq(S)]
    <2>1. ASSUME NEW i \in 1..n PROVE Block(x, i) \in Seq(S)
      <3> DEFINE a == C!Cue("TRACK", i)
                 b == C!Cue("TITLE", x.title[i])
                 c == C!Cue("LENGTH", x.len[i])
                 d == C!Index(1, Sum(x.len, i - 1))
                 B == Block(x, i)
      <3>1. B = <<a, b, c, d>>
        BY DEF Block
      <3>2. \A j \in 1..4 : B[j] \in lines
        <4> HIDE DEF B
        <4> QED BY DEF B
      <3> HIDE DEF a, b, c, d, B, lines
      <3>3. B = [j \in 1..4 |-> B[j]]
        BY <3>1
      <3>4. B \in [1..4 -> S]
        BY <3>2, <3>3
      <3> HIDE DEF S
      <3>5. \A k \in Nat : \A s \in [1..k -> S] : s \in Seq(S)
        OBVIOUS
      <3>6. 4 \in Nat
        OBVIOUS
      <3>7. B \in Seq(S)
        BY <3>4, <3>5, <3>6
      <3> QED BY <3>7 DEF B
    <2> HIDE DEF S
    <2> QED BY <2>1 DEF Blocks
  <1> HIDE DEF S
  <1>5. PICK pos : flat \in Seq(S) /\ IsFlat(Blocks(x), n, flat, pos)
    <2> DEFINE seqs == Blocks(x)
    <2> HIDE DEF seqs, n
    <2>1. n \in Nat /\ seqs \in [1..n -> Seq(S)]
      BY <1>2, <1>4 DEF seqs
    <2>2. /\ X!FlattenSeq(seqs) = C!FlattenSeq(seqs) /\ X!FlattenSeq(seqs) \in Seq(S)
          /\ \E pos : IsFlat(seqs, n, X!FlattenSeq(seqs), pos)
      BY <2>1, FlattenPlaces
    <2> QED BY <2>2 DEF seqs
  <1> HIDE DEF flat, hdr, doc, hd, n
  <1>6. /\ Len(doc) = Len(hdr) + Len(flat) /\ doc \in Seq(S)
        /\ \A j \in 1..Len(hdr) : doc[j] = hdr[j]
        /\ \A j \in 1..Len(flat) : doc[Len(hdr) + j] = flat[j]
    BY <1>3, <1>5, ConcatAt DEF doc
  <1> DEFINE m == Len(hdr)
             t == Len(doc)
  <1>7. m \in Nat /\ Len(flat) = pos[n] /\ Len(flat) \in Nat /\ t = m + Len(flat) /\ t \in Nat
    BY <1>3, <1>5, <1>6 DEF IsFlat
  <1>8. PICK h : Folds("cue", CueStart, doc, t, h)
    <2> HIDE DEF t
    <2> QED BY <1>7, FoldSteps
  <1>9. /\ h[0] = CueStart /\ \A k \in 1..t : h[k] = C!OnCueLine(h[k - 1], doc[k])
        /\ Folded("cue", CueStart, doc, t) = h[t]
    <2> HIDE DEF t
    <2> QED BY <1>8 DEF Folds, Step
  <1>10. h[m] = CSt(1, 0, MsfOffset, hd)
    <2>1. \A k \in 1..m : h[k] = C!OnCueLine(h[k - 1], CueHeader(x)[k])
      <3>1. \A k \in 1..m : k \in 1..t
        BY <1>7
      <3> HIDE DEF t
      <3> QED BY <1>6, <1>9, <3>1 DEF hdr
    <2>2. m = Len(CueHeader(x))
      BY DEF hdr
    <2> HIDE DEF m
    <2> QED BY <1>9, <2>1, <2>2, CueHeaderRead DEF hd
  <1> DEFINE g == [q \in 0..Len(flat) |-> h[m + q]]
  <1>11. g[0] = CueAt(x, hd, 0)
    <2>1. m + 0 = m /\ 0 \in 0..Len(flat)
      BY <1>7
    <2>2. CueLens(x, 0) = [i \in 1..MaxTracks |-> 0]
      <3>1. \A i \in 1..MaxTracks : ~(i <= 0) /\ ~(0 >= 2)
        OBVIOUS
      <3> QED BY <3>1 DEF CueLens
    <2>3. CueTitles(x, 0) = [i \in 1..MaxTracks |-> DefaultTitle]
      <3>1. \A i \in 1..MaxTracks : ~(i <= 0)
        OBVIOUS
      <3> QED BY <3>1 DEF CueTitles
    <2>4. WithTracks(hd, 0, CueLens(x, 0), CueTitles(x, 0)) = hd
      BY <2>2, <2>3 DEF WithTracks, hd, CueHead, Disc
    <2>5. CuePrev(x, 0) = MsfOffset
      BY DEF CuePrev
    <2>6. g[0] = h[m]
      BY <2>1
    <2> HIDE DEF g
    <2> QED BY <1>10, <2>4, <2>5, <2>6 DEF CueAt
  <1>12. ASSUME NEW q \in 1..Len(flat)
         PROVE  g[q] = C!OnCueLine(g[q - 1], flat[q])
    <2>1. /\ q \in 0..Len(flat) /\ q - 1 \in 0..Len(flat) /\ m + q \in 1..t
          /\ (m + q) - 1 = m + (q - 1)
      BY <1>7
    <2>2. h[m + q] = C!OnCueLine(h[(m + q) - 1], doc[m + q])
      BY <1>9, <2>1
    <2>3. doc[m + q] = flat[q]
      BY <1>6
    <2>4. g[q] = h[m + q] /\ g[q - 1] = h[m + (q - 1)]
      BY <2>1
    <2> HIDE DEF g, m
    <2> QED BY <2>1, <2>2, <2>3, <2>4
  <1>13. g[pos[n]] = CueAt(x, hd, n)
    <2> HIDE DEF g
    <2>1. CueTracksGiven(x, n, flat, pos)
      BY <1>2, <1>5 DEF CueTracksGiven, n
    <2>2. CueLinesRead(flat, pos[n], g)
      BY <1>7, <1>12 DEF CueLinesRead
    <2> QED BY ONLY <1>11, <2>1, <2>2, CueTracksRead
  <1>14. g[pos[n]] = h[t]
    BY <1>7
  <1>15. C!ParseCue(doc) = h[t].d
    <2>1. DOMAIN doc = 1..t /\ t \in Nat
      BY <1>6, <1>7
    <2> HIDE DEF t
    <2> QED BY <1>9, <2>1, CueIsFolded
  <1> HIDE DEF g, t
  <1>16. C!ParseCue(doc) = WithTracks(hd, n, CueLens(x, n), CueTitles(x, n))
    BY <1>13, <1>14, <1>15 DEF CueAt, CSt
  <1> QED BY <1>1, <1>16 DEF CueRead, hd, n
=============================================================================
