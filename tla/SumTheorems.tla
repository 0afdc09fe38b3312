---------------------------- MODULE SumTheorems ----------------------------
(***************************************************************************)
(* Sums over finite sets.                                                  *)
(*                                                                         *)
(* SumFunctionOnSet(f, S) is the sum of f[x] over the x in S, for S finite *)
(* and f integer-valued on S.  The community modules define it by a        *)
(* recursive function over SUBSET S that removes one CHOOSEn element at a  *)
(* time.  The lemmas show that the recursion is well defined, that any     *)
(* element may be taken first, and what follows from that: sums of parts,  *)
(* of groups and of images.                                                *)
(***************************************************************************)
EXTENDS Integers, FiniteSets, Functions, FiniteSetTheorems, WellFoundedInduction, TLAPS

(* h is the table of partial sums of f over the subsets of S. *)
IsSumTable(h, f, S) ==
  h = [s \in SUBSET S |->
         IF s = {} THEN 0
         ELSE LET x == CHOOSE x \in s : TRUE IN f[x] + h[s \ {x}]]

(* h is the table and records what SumFunctionOnSet says of every subset. *)
IsSumRecord(h, f, S) ==
  /\ h \in [SUBSET S -> Int]
  /\ IsSumTable(h, f, S)
  /\ \A T \in SUBSET S : SumFunctionOnSet(f, T) = h[T]

(* The element the recursion removes first. *)
First(s) == CHOOSE x \in s : TRUE

(* f is integer-valued on S. *)
IntOn(f, S) == \A x \in S : f[x] \in Int

(* What a map makes of the elements of S. *)
ImageOf(b, S) == {b[x] : x \in S}

(* The group of the elements of S that a key sorts under k. *)
Part(S, key, k) == {x \in S : key[x] = k}

(***************************************************************************)
(* Every non-empty set of subsets of a finite set has a minimal element.   *)
(* All the inductions below are arguments by minimal counterexample.       *)
(***************************************************************************)
LEMMA MinimalSubset ==
  ASSUME NEW S, IsFiniteSet(S), NEW B, B \subseteq SUBSET S, B # {}
  PROVE  \E T \in B : \A U \in B : ~(U \subseteq T /\ U # T)
<1>1. IsWellFoundedOn(StrictSubsetOrdering(S), FiniteSubsetsOf(S))
  BY FS_StrictSubsetOrderingWellFounded
<1>2. B \subseteq FiniteSubsetsOf(S)
  BY FS_FiniteSubsetsOfFinite
<1>3. PICK T \in B : \A U \in B : <<U, T>> \notin StrictSubsetOrdering(S)
  BY <1>1, <1>2, WFMin, Zenon
<1>4. ASSUME NEW U \in B, U \subseteq T, U # T
      PROVE  FALSE
  <2>1. <<U, T>> \in StrictSubsetOrdering(S)
    BY <1>4 DEF StrictSubsetOrdering
  <2>2. QED
    BY <2>1, <1>3
<1>5. QED
  BY <1>4

(***************************************************************************)
(* What one entry of a table of partial sums is.                           *)
(***************************************************************************)
LEMMA SumTableEntry ==
  ASSUME NEW h, NEW f, NEW S, IsSumTable(h, f, S), NEW s \in SUBSET S
  PROVE  /\ s = {} => h[s] = 0
         /\ s # {} => /\ First(s) \in s
                      /\ h[s] = f[First(s)] + h[s \ {First(s)}]
<1>1. s # {} => First(s) \in s
  BY DEF First
<1>2. h = [t \in SUBSET S |->
             IF t = {} THEN 0 ELSE f[First(t)] + h[t \ {First(t)}]]
  BY Zenon DEF IsSumTable, First
<1>3. h[s] = IF s = {} THEN 0 ELSE f[First(s)] + h[s \ {First(s)}]
  BY <1>2, Zenon
<1>4. QED
  BY <1>1, <1>3

(***************************************************************************)
(* Two tables of partial sums agree wherever both are defined.             *)
(***************************************************************************)
LEMMA SumTablesAgree ==
  ASSUME NEW S, IsFiniteSet(S), NEW f,
         NEW T \in SUBSET S, NEW U \in SUBSET S,
         NEW h, IsSumTable(h, f, T), NEW k, IsSumTable(k, f, U),
         NEW s \in SUBSET T, s \in SUBSET U
  PROVE  h[s] = k[s]
<1> DEFINE Bad == {t \in SUBSET S : t \subseteq T /\ t \subseteq U /\ h[t] # k[t]}
<1>1. SUFFICES ASSUME Bad # {} PROVE FALSE
  OBVIOUS
<1>2. PICK t \in Bad : \A u \in Bad : ~(u \subseteq t /\ u # t)
  <2>1. Bad \subseteq SUBSET S
    OBVIOUS
  <2> HIDE DEF Bad
  <2>2. QED
    BY <1>1, <2>1, MinimalSubset
<1>3. t # {}
  BY SumTableEntry
<1> DEFINE x == First(t)
<1>4. x \in t
  BY <1>3, SumTableEntry
<1>5. t \ {x} \notin Bad
  BY <1>2, <1>4
<1>6. h[t \ {x}] = k[t \ {x}]
  BY <1>5
<1>7. h[t] = f[x] + h[t \ {x}]
  BY <1>3, SumTableEntry
<1>8. k[t] = f[x] + k[t \ {x}]
  BY <1>3, SumTableEntry
<1>9. QED
  BY <1>6, <1>7, <1>8

(***************************************************************************)
(* Over a finite set the table exists, and its entries are integers.       *)
(***************************************************************************)
LEMMA SumTableExists ==
  ASSUME NEW S, IsFiniteSet(S), NEW f, IntOn(f, S)
  PROVE  \E h \in [SUBSET S -> Int] : IsSumTable(h, f, S)
<1> DEFINE Good(T) == \E h \in [SUBSET T -> Int] : IsSumTable(h, f, T)
           Bad == {T \in SUBSET S : ~Good(T)}
<1>1. SUFFICES ASSUME Bad # {} PROVE FALSE
  OBVIOUS
<1>2. PICK T \in Bad : \A U \in Bad : ~(U \subseteq T /\ U # T)
  <2>1. Bad \subseteq SUBSET S
    OBVIOUS
  <2> HIDE DEF Bad
  <2>2. QED
    BY <1>1, <2>1, MinimalSubset
<1> DEFINE Table(U) == CHOOSE h : h \in [SUBSET U -> Int] /\ IsSumTable(h, f, U)
           total(s) == IF s = {} THEN 0 ELSE f[First(s)] + Table(s \ {First(s)})[s \ {First(s)}]
           g == [s \in SUBSET T |-> total(s)]
<1>3. ASSUME NEW U, U \subseteq T, U # T
      PROVE  Table(U) \in [SUBSET U -> Int] /\ IsSumTable(Table(U), f, U)
  <2>1. Good(U)
    BY <1>2, <1>3
  <2>2. \E h : h \in [SUBSET U -> Int] /\ IsSumTable(h, f, U)
    BY <2>1
  <2>3. QED
    BY <2>2, Zenon
<1>4. ASSUME NEW s \in SUBSET T, s # {}
      PROVE  /\ First(s) \in s
             /\ f[First(s)] \in Int
             /\ s \ {First(s)} \subseteq T
             /\ s \ {First(s)} # T
             /\ Table(s \ {First(s)})[s \ {First(s)}] \in Int
  <2>1. First(s) \in s
    BY <1>4 DEF First
  <2>2. f[First(s)] \in Int
    BY <2>1, <1>2 DEF IntOn
  <2>3. s \ {First(s)} \subseteq T /\ s \ {First(s)} # T
    BY <2>1
  <2> DEFINE u == s \ {First(s)}
  <2>4. Table(u) \in [SUBSET u -> Int]
    BY <2>3, <1>3
  <2>5. Table(u)[u] \in Int
    <3> HIDE DEF Table, u
    <3>1. QED
      BY <2>4
  <2>6. QED
    BY <2>1, <2>2, <2>3, <2>5
<1>5. g \in [SUBSET T -> Int]
  <2> HIDE DEF Table
  <2>1. \A s \in SUBSET T : total(s) \in Int
    BY <1>4
  <2>2. QED
    BY <2>1
<1>6. ASSUME NEW s \in SUBSET T, s # {}
      PROVE  g[s \ {First(s)}] = Table(s \ {First(s)})[s \ {First(s)}]
  <2> DEFINE u == s \ {First(s)}
  <2>1. u \subseteq T /\ u # T /\ g[u] = total(u)
    BY <1>4, <1>6
  <2>2. CASE u = {}
    <3>1. Table(u)[u] = 0
      <4>1. IsSumTable(Table(u), f, u) /\ u \in SUBSET u
        BY <1>3, <2>1
      <4> HIDE DEF Table, u
      <4>2. QED
        BY <4>1, <2>2, SumTableEntry
    <3>2. QED
      BY <2>1, <2>2, <3>1
  <2>3. CASE u # {}
    <3> DEFINE w == u \ {First(u)}
    <3>1. w \subseteq u /\ w \subseteq T /\ w # T
      BY <1>4, <2>1, <2>3
    <3>2. IsSumTable(Table(u), f, u) /\ IsSumTable(Table(w), f, w)
      BY <1>3, <2>1, <3>1
    <3>3. Table(u)[w] = Table(w)[w]
      <4>1. u \in SUBSET S /\ w \in SUBSET S
        BY <2>1, <3>1, <1>2
      <4>2. w \in SUBSET u /\ w \in SUBSET w
        BY <3>1
      <4> HIDE DEF Table, w, u
      <4>3. QED
        BY <3>2, <4>1, <4>2, SumTablesAgree
    <3>4. Table(u)[u] = f[First(u)] + Table(u)[w]
      <4>1. IsSumTable(Table(u), f, u) /\ u \in SUBSET u
        BY <3>2
      <4> HIDE DEF Table, u, w, total, g, Bad
      <4>2. Table(u)[u] = f[First(u)] + Table(u)[u \ {First(u)}]
        <5>1. ASSUME NEW h, IsSumTable(h, f, u)
              PROVE  h[u] = f[First(u)] + h[u \ {First(u)}]
          BY <5>1, <4>1, <2>3, SumTableEntry
        <5>2. QED
          BY <5>1, <4>1
      <4>3. QED
        BY <4>2 DEF w
    <3>5. total(u) = f[First(u)] + Table(w)[w]
      BY <2>3
    <3>6. QED
      BY <2>1, <3>3, <3>4, <3>5
  <2>4. QED
    BY <2>2, <2>3
<1>7. IsSumTable(g, f, T)
  <2>1. \A s \in SUBSET T : total(s) = IF s = {} THEN 0 ELSE f[First(s)] + g[s \ {First(s)}]
    <3> HIDE DEF Table, g
    <3>1. QED
      BY <1>6
  <2>2. g = [s \in SUBSET T |-> IF s = {} THEN 0 ELSE f[First(s)] + g[s \ {First(s)}]]
    <3> DEFINE e(s) == IF s = {} THEN 0 ELSE f[First(s)] + g[s \ {First(s)}]
    <3>1. \A s \in SUBSET T : total(s) = e(s)
      BY <2>1
    <3>2. g = [s \in SUBSET T |-> total(s)]
      OBVIOUS
    <3> HIDE DEF total, e, g
    <3>3. g = [s \in SUBSET T |-> e(s)]
      BY <3>1, <3>2
    <3>4. QED
      BY <3>3 DEF e
  <2>3. QED
    BY <2>2, Zenon DEF IsSumTable, First
<1>8. QED
  BY <1>2, <1>5, <1>7

(***************************************************************************)
(* SumFunctionOnSet reads its value off such a table, and the same table   *)
(* gives the sums over all the subsets.                                    *)
(***************************************************************************)
LEMMA SumIsTableEntry ==
  ASSUME NEW S, IsFiniteSet(S), NEW f, IntOn(f, S)
  PROVE  \E h : IsSumRecord(h, f, S)
<1>1. PICK h \in [SUBSET S -> Int] : IsSumTable(h, f, S)
  BY SumTableExists
<1>2. ASSUME NEW T \in SUBSET S
      PROVE  SumFunctionOnSet(f, T) = h[T]
  <2>1. SumFunctionOnSet(f, T) = (CHOOSE k : IsSumTable(k, f, T))[T]
    BY Zenon DEF SumFunctionOnSet, FoldFunctionOnSet, MapThenFoldSet, IsSumTable
  <2>2. \E k : IsSumTable(k, f, T)
    <3>1. IsFiniteSet(T) /\ IntOn(f, T)
      BY FS_Subset DEF IntOn
    <3>2. QED
      BY <3>1, SumTableExists
  <2> DEFINE k == CHOOSE k : IsSumTable(k, f, T)
  <2>3. IsSumTable(k, f, T)
    BY <2>2
  <2> HIDE DEF k
  <2>4. k[T] = h[T]
    BY <1>1, <2>3, SumTablesAgree
  <2>5. QED
    BY <2>1, <2>4 DEF k
<1>3. QED
  BY <1>1, <1>2 DEF IsSumRecord

(***************************************************************************)
(* The sum over a finite set of integers is an integer.                    *)
(***************************************************************************)
LEMMA SumType ==
  ASSUME NEW S, IsFiniteSet(S), NEW f, IntOn(f, S)
  PROVE  SumFunctionOnSet(f, S) \in Int
<1>1. PICK h : IsSumRecord(h, f, S)
  BY SumIsTableEntry
<1>2. QED
  BY <1>1 DEF IsSumRecord

(***************************************************************************)
(* The sum over nothing is zero.                                           *)
(***************************************************************************)
LEMMA SumEmpty ==
  ASSUME NEW f
  PROVE  SumFunctionOnSet(f, {}) = 0
<1>1. IsFiniteSet({}) /\ IntOn(f, {})
  BY FS_EmptySet DEF IntOn
<1>2. PICK h : IsSumRecord(h, f, {})
  BY <1>1, SumIsTableEntry
<1>3. QED
  BY <1>2, SumTableEntry DEF IsSumRecord

(***************************************************************************)
(* The recursion's own step: taking the chosen element out.                *)
(***************************************************************************)
LEMMA SumFirst ==
  ASSUME NEW S, IsFiniteSet(S), S # {}, NEW f, IntOn(f, S)
  PROVE  /\ First(S) \in S
         /\ SumFunctionOnSet(f, S)
              = f[First(S)] + SumFunctionOnSet(f, S \ {First(S)})
<1>1. PICK h : IsSumRecord(h, f, S)
  BY SumIsTableEntry
<1>2. First(S) \in S /\ h[S] = f[First(S)] + h[S \ {First(S)}]
  BY <1>1, SumTableEntry DEF IsSumRecord
<1>3. QED
  BY <1>1, <1>2 DEF IsSumRecord

(***************************************************************************)
(* Any element may be taken out first.                                     *)
(***************************************************************************)
LEMMA SumRemove ==
  ASSUME NEW S, IsFiniteSet(S), NEW f, IntOn(f, S), NEW x \in S
  PROVE  SumFunctionOnSet(f, S) = f[x] + SumFunctionOnSet(f, S \ {x})
<1> DEFINE Sum(T) == SumFunctionOnSet(f, T)
           Bad == {T \in SUBSET S : \E y \in T : Sum(T) # f[y] + Sum(T \ {y})}
<1>1. SUFFICES ASSUME Bad # {} PROVE FALSE
  OBVIOUS
<1>2. PICK T \in Bad : \A U \in Bad : ~(U \subseteq T /\ U # T)
  <2>1. Bad \subseteq SUBSET S
    OBVIOUS
  <2> HIDE DEF Bad
  <2>2. QED
    BY <1>1, <2>1, MinimalSubset
<1>3. PICK y \in T : Sum(T) # f[y] + Sum(T \ {y})
  BY <1>2
<1>4. ASSUME NEW U \in SUBSET T
      PROVE  /\ IsFiniteSet(U)
             /\ IntOn(f, U)
             /\ Sum(U) \in Int
             /\ U # T => \A z \in U : Sum(U) = f[z] + Sum(U \ {z})
  <2>1. IsFiniteSet(U) /\ IntOn(f, U)
    BY <1>2, FS_Subset DEF IntOn
  <2>2. Sum(U) \in Int
    BY <2>1, SumType
  <2>3. U # T => U \notin Bad
    BY <1>2
  <2>4. QED
    BY <1>2, <2>1, <2>2, <2>3
<1> DEFINE c == First(T)
<1>5. c \in T /\ Sum(T) = f[c] + Sum(T \ {c})
  <2>1. IsFiniteSet(T) /\ IntOn(f, T) /\ T # {}
    BY <1>3, <1>4
  <2>2. QED
    BY <2>1, SumFirst, Zenon
<1> HIDE DEF c, Sum, Bad
<1>6. c # y
  BY <1>3, <1>5
<1>7. Sum(T \ {c}) = f[y] + Sum((T \ {c}) \ {y})
  <2> DEFINE U == T \ {c}
  <2>1. y \in U /\ U \in SUBSET T /\ U # T
    BY <1>3, <1>5, <1>6
  <2> HIDE DEF U
  <2>2. Sum(U) = f[y] + Sum(U \ {y})
    BY <2>1, <1>4
  <2>3. QED
    BY <2>2 DEF U
<1>8. Sum(T \ {y}) = f[c] + Sum((T \ {y}) \ {c})
  <2> DEFINE U == T \ {y}
  <2>1. c \in U /\ U \in SUBSET T /\ U # T
    BY <1>3, <1>5, <1>6
  <2> HIDE DEF U
  <2>2. Sum(U) = f[c] + Sum(U \ {c})
    BY <2>1, <1>4
  <2>3. QED
    BY <2>2 DEF U
<1>9. (T \ {c}) \ {y} = (T \ {y}) \ {c}
  OBVIOUS
<1>10. f[c] \in Int /\ f[y] \in Int /\ Sum((T \ {y}) \ {c}) \in Int
  <2> DEFINE U == (T \ {y}) \ {c}
  <2>1. U \in SUBSET T
    OBVIOUS
  <2> HIDE DEF U
  <2>2. Sum(U) \in Int
    BY <2>1, <1>4
  <2>3. IntOn(f, T)
    BY <1>4
  <2>4. QED
    BY <2>2, <2>3, <1>3, <1>5 DEF IntOn, U
<1> DEFINE r == Sum((T \ {y}) \ {c})
<1>11. /\ Sum(T) = f[c] + (f[y] + r)
       /\ Sum(T \ {y}) = f[c] + r
  BY <1>5, <1>7, <1>8, <1>9
<1>12. r \in Int
  BY <1>10
<1> HIDE DEF r
<1>13. Sum(T) = f[y] + Sum(T \ {y})
  BY <1>10, <1>11, <1>12
<1>14. QED
  BY <1>3, <1>13

(***************************************************************************)
(* The sum depends only on the values summed.                              *)
(***************************************************************************)
LEMMA SumSame ==
  ASSUME NEW S, IsFiniteSet(S), NEW f, NEW g, IntOn(f, S), IntOn(g, S),
         \A x \in S : f[x] = g[x]
  PROVE  SumFunctionOnSet(f, S) = SumFunctionOnSet(g, S)
<1> DEFINE Bad == {T \in SUBSET S : SumFunctionOnSet(f, T) # SumFunctionOnSet(g, T)}
<1>1. SUFFICES ASSUME Bad # {} PROVE FALSE
  OBVIOUS
<1>2. PICK T \in Bad : \A U \in Bad : ~(U \subseteq T /\ U # T)
  <2>1. Bad \subseteq SUBSET S
    OBVIOUS
  <2> HIDE DEF Bad
  <2>2. QED
    BY <1>1, <2>1, MinimalSubset
<1>3. T # {}
  BY <1>2, SumEmpty
<1>4. IsFiniteSet(T) /\ IntOn(f, T) /\ IntOn(g, T)
  BY <1>2, FS_Subset DEF IntOn
<1> DEFINE c == First(T)
<1>5. /\ c \in T
      /\ SumFunctionOnSet(f, T) = f[c] + SumFunctionOnSet(f, T \ {c})
      /\ SumFunctionOnSet(g, T) = g[c] + SumFunctionOnSet(g, T \ {c})
  BY <1>3, <1>4, SumFirst
<1> HIDE DEF c
<1>6. SumFunctionOnSet(f, T \ {c}) = SumFunctionOnSet(g, T \ {c})
  <2>1. T \ {c} \notin Bad
    BY <1>2, <1>5
  <2>2. QED
    BY <2>1, <1>2
<1>7. f[c] = g[c]
  BY <1>2, <1>5
<1>8. QED
  BY <1>2, <1>5, <1>6, <1>7

(***************************************************************************)
(* Changing the summand of one element moves the sum by the difference:    *)
(* what a single-row write does to a running total.                        *)
(***************************************************************************)
LEMMA SumChangeOne ==
  ASSUME NEW S, IsFiniteSet(S), NEW f, NEW g, IntOn(f, S), IntOn(g, S),
         NEW x \in S, \A y \in S \ {x} : f[y] = g[y]
  PROVE  SumFunctionOnSet(g, S) = SumFunctionOnSet(f, S) + (g[x] - f[x])
<1>1. IsFiniteSet(S \ {x}) /\ IntOn(f, S \ {x}) /\ IntOn(g, S \ {x})
  BY FS_Subset DEF IntOn
<1>2. SumFunctionOnSet(f, S \ {x}) = SumFunctionOnSet(g, S \ {x})
  BY <1>1, SumSame
<1>3. SumFunctionOnSet(f, S) = f[x] + SumFunctionOnSet(f, S \ {x})
  BY SumRemove
<1>4. SumFunctionOnSet(g, S) = g[x] + SumFunctionOnSet(g, S \ {x})
  BY SumRemove
<1>5. f[x] \in Int /\ g[x] \in Int /\ SumFunctionOnSet(f, S \ {x}) \in Int
  BY <1>1, SumType DEF IntOn
<1>6. QED
  BY <1>2, <1>3, <1>4, <1>5

(***************************************************************************)
(* The sum of sums, element by element: what a batch of writes does.       *)
(***************************************************************************)
LEMMA SumAdd ==
  ASSUME NEW S, IsFiniteSet(S), NEW f, NEW g, NEW h,
         IntOn(f, S), IntOn(g, S), IntOn(h, S),
         \A x \in S : h[x] = f[x] + g[x]
  PROVE  SumFunctionOnSet(h, S) = SumFunctionOnSet(f, S) + SumFunctionOnSet(g, S)
<1> DEFINE Bad == {T \in SUBSET S : SumFunctionOnSet(h, T) #
                     SumFunctionOnSet(f, T) + SumFunctionOnSet(g, T)}
<1>1. SUFFICES ASSUME Bad # {} PROVE FALSE
  OBVIOUS
<1>2. PICK T \in Bad : \A U \in Bad : ~(U \subseteq T /\ U # T)
  <2>1. Bad \subseteq SUBSET S
    OBVIOUS
  <2> HIDE DEF Bad
  <2>2. QED
    BY <1>1, <2>1, MinimalSubset
<1>3. T # {}
  <2>1. /\ SumFunctionOnSet(f, {}) = 0
        /\ SumFunctionOnSet(g, {}) = 0
        /\ SumFunctionOnSet(h, {}) = 0
    BY SumEmpty
  <2>2. {} \notin Bad
    BY <2>1
  <2> HIDE DEF Bad
  <2>3. QED
    BY <2>2, <1>2
<1>4. IsFiniteSet(T) /\ IntOn(f, T) /\ IntOn(g, T) /\ IntOn(h, T)
  BY <1>2, FS_Subset DEF IntOn
<1> DEFINE c == First(T)
<1>5. /\ c \in T
      /\ SumFunctionOnSet(f, T) = f[c] + SumFunctionOnSet(f, T \ {c})
      /\ SumFunctionOnSet(g, T) = g[c] + SumFunctionOnSet(g, T \ {c})
      /\ SumFunctionOnSet(h, T) = h[c] + SumFunctionOnSet(h, T \ {c})
  BY <1>3, <1>4, SumFirst
<1> HIDE DEF c
<1>6. SumFunctionOnSet(h, T \ {c})
        = SumFunctionOnSet(f, T \ {c}) + SumFunctionOnSet(g, T \ {c})
  <2>1. T \ {c} \notin Bad
    BY <1>2, <1>5
  <2>2. QED
    BY <2>1, <1>2
<1>7. h[c] = f[c] + g[c] /\ f[c] \in Int /\ g[c] \in Int
  BY <1>2, <1>4, <1>5 DEF IntOn
<1>8. /\ SumFunctionOnSet(f, T \ {c}) \in Int
      /\ SumFunctionOnSet(g, T \ {c}) \in Int
  <2>1. IsFiniteSet(T \ {c}) /\ IntOn(f, T \ {c}) /\ IntOn(g, T \ {c})
    BY <1>4, FS_Subset DEF IntOn
  <2>2. QED
    BY <2>1, SumType
<1>9. QED
  BY <1>2, <1>5, <1>6, <1>7, <1>8

(***************************************************************************)
(* Elements that count for nothing may be left out.                        *)
(***************************************************************************)
LEMMA SumSubset ==
  ASSUME NEW S, IsFiniteSet(S), NEW f, IntOn(f, S), NEW T \in SUBSET S,
         \A x \in S \ T : f[x] = 0
  PROVE  SumFunctionOnSet(f, S) = SumFunctionOnSet(f, T)
<1> DEFINE Bad == {U \in SUBSET S : /\ T \subseteq U
                                   /\ SumFunctionOnSet(f, U) # SumFunctionOnSet(f, T)}
<1>1. SUFFICES ASSUME Bad # {} PROVE FALSE
  OBVIOUS
<1>2. PICK U \in Bad : \A V \in Bad : ~(V \subseteq U /\ V # U)
  <2>1. Bad \subseteq SUBSET S
    OBVIOUS
  <2> HIDE DEF Bad
  <2>2. QED
    BY <1>1, <2>1, MinimalSubset
<1>3. PICK x \in U : x \notin T
  <2>1. T \notin Bad /\ T \subseteq U
    BY <1>2
  <2>2. U # T
    BY <2>1, <1>2
  <2>3. QED
    BY <2>1, <2>2
<1>4. IsFiniteSet(U) /\ IntOn(f, U)
  BY <1>2, FS_Subset DEF IntOn
<1>5. SumFunctionOnSet(f, U) = f[x] + SumFunctionOnSet(f, U \ {x})
  BY <1>4, SumRemove
<1>6. SumFunctionOnSet(f, U \ {x}) = SumFunctionOnSet(f, T)
  <2>1. U \ {x} \notin Bad
    BY <1>2, <1>3
  <2>2. QED
    BY <2>1, <1>2, <1>3
<1>7. f[x] = 0
  BY <1>2, <1>3
<1>8. SumFunctionOnSet(f, T) \in Int
  <2>1. IsFiniteSet(T) /\ IntOn(f, T)
    BY FS_Subset DEF IntOn
  <2>2. QED
    BY <2>1, SumType
<1>9. QED
  BY <1>2, <1>5, <1>6, <1>7, <1>8

(***************************************************************************)
(* Two parts that have nothing in common add up to the whole.              *)
(***************************************************************************)
LEMMA SumUnion ==
  ASSUME NEW S, IsFiniteSet(S), NEW f, IntOn(f, S),
         NEW A \in SUBSET S, NEW B \in SUBSET S, A \cap B = {}
  PROVE  SumFunctionOnSet(f, A \cup B) = SumFunctionOnSet(f, A) + SumFunctionOnSet(f, B)
<1> DEFINE U == A \cup B
           only(T) == [x \in U |-> IF x \in T THEN f[x] ELSE 0]
<1>1. /\ IsFiniteSet(U) /\ IntOn(f, U)
      /\ IsFiniteSet(A) /\ IntOn(f, A)
      /\ IsFiniteSet(B) /\ IntOn(f, B)
  BY FS_Subset DEF IntOn
<1>2. /\ IntOn(only(A), U) /\ IntOn(only(A), A)
      /\ IntOn(only(B), U) /\ IntOn(only(B), B)
  BY <1>1 DEF IntOn
<1>3. \A x \in U : f[x] = only(A)[x] + only(B)[x]
  BY <1>1 DEF IntOn
<1>4. /\ \A x \in U \ A : only(A)[x] = 0
      /\ \A x \in U \ B : only(B)[x] = 0
      /\ \A x \in A : only(A)[x] = f[x]
      /\ \A x \in B : only(B)[x] = f[x]
  OBVIOUS
<1>5. A \in SUBSET U /\ B \in SUBSET U
  OBVIOUS
<1> HIDE DEF only, U
<1>6. SumFunctionOnSet(f, U) = SumFunctionOnSet(only(A), U) + SumFunctionOnSet(only(B), U)
  BY <1>1, <1>2, <1>3, SumAdd
<1>7. SumFunctionOnSet(only(A), U) = SumFunctionOnSet(only(A), A)
  BY <1>1, <1>2, <1>4, <1>5, SumSubset
<1>8. SumFunctionOnSet(only(B), U) = SumFunctionOnSet(only(B), B)
  BY <1>1, <1>2, <1>4, <1>5, SumSubset
<1>9. /\ SumFunctionOnSet(only(A), A) = SumFunctionOnSet(f, A)
      /\ SumFunctionOnSet(only(B), B) = SumFunctionOnSet(f, B)
  BY <1>1, <1>2, <1>4, SumSame
<1>10. QED
  BY <1>6, <1>7, <1>8, <1>9 DEF U

LEMMA SumOne ==
  ASSUME NEW f, NEW x, f[x] \in Int
  PROVE  SumFunctionOnSet(f, {x}) = f[x]
<1>1. IsFiniteSet({x}) /\ IntOn(f, {x})
  BY FS_Singleton DEF IntOn
<1>2. SumFunctionOnSet(f, {x}) = f[x] + SumFunctionOnSet(f, {x} \ {x})
  BY <1>1, SumRemove
<1>3. {x} \ {x} = {}
  OBVIOUS
<1>4. QED
  BY <1>2, <1>3, SumEmpty

(***************************************************************************)
(* The sums of the groups into which a key sorts S add up to the sum of S. *)
(***************************************************************************)
LEMMA SumByKey ==
  ASSUME NEW S, IsFiniteSet(S), NEW f, IntOn(f, S),
         NEW K, IsFiniteSet(K), NEW key, \A x \in S : key[x] \in K,
         NEW h, \A k \in K : h[k] = SumFunctionOnSet(f, Part(S, key, k))
  PROVE  IntOn(h, K) /\ SumFunctionOnSet(h, K) = SumFunctionOnSet(f, S)
<1> DEFINE Of(T) == {x \in S : key[x] \in T}
           Bad == {T \in SUBSET K : SumFunctionOnSet(h, T) # SumFunctionOnSet(f, Of(T))}
<1>1. IntOn(h, K)
  <2>1. ASSUME NEW k \in K
        PROVE  h[k] \in Int
    <3> DEFINE G == Part(S, key, k)
    <3>1. IsFiniteSet(G) /\ IntOn(f, G)
      BY FS_Subset DEF IntOn, Part
    <3> HIDE DEF G
    <3>2. SumFunctionOnSet(f, G) \in Int
      BY <3>1, SumType
    <3>3. QED
      BY <3>2 DEF G
  <2>2. QED
    BY <2>1 DEF IntOn
<1>2. Bad = {}
  <2> SUFFICES ASSUME Bad # {} PROVE FALSE
    OBVIOUS
  <2>1. PICK T \in Bad : \A U \in Bad : ~(U \subseteq T /\ U # T)
    <3>1. Bad \subseteq SUBSET K
      OBVIOUS
    <3> HIDE DEF Bad
    <3>2. QED
      BY <3>1, MinimalSubset
  <2>2. T # {}
    <3>1. Of({}) = {}
      OBVIOUS
    <3>2. QED
      BY <2>1, <3>1, SumEmpty
  <2>3. PICK k \in T : TRUE
    BY <2>2
  <2> DEFINE R == T \ {k}
             G == Part(S, key, k)
  <2>4. SumFunctionOnSet(h, R) = SumFunctionOnSet(f, Of(R))
    <3>1. R \in SUBSET K /\ R \notin Bad
      BY <2>1
    <3>2. QED
      BY <3>1
  <2>5. SumFunctionOnSet(h, T) = h[k] + SumFunctionOnSet(h, R)
    <3>1. IsFiniteSet(T) /\ IntOn(h, T)
      BY <1>1, <2>1, FS_Subset DEF IntOn
    <3>2. QED
      BY <3>1, SumRemove
  <2>6. Of(T) = G \cup Of(R) /\ G \cap Of(R) = {} /\ G \in SUBSET S /\ Of(R) \in SUBSET S
    BY DEF Part
  <2>7. h[k] = SumFunctionOnSet(f, G)
    BY <2>1
  <2>8. /\ SumFunctionOnSet(f, G) \in Int
        /\ SumFunctionOnSet(f, Of(R)) \in Int
    <3>1. /\ IsFiniteSet(G) /\ IntOn(f, G)
          /\ IsFiniteSet(Of(R)) /\ IntOn(f, Of(R))
      BY <2>6, FS_Subset DEF IntOn
    <3> HIDE DEF G, Of, R
    <3>2. QED
      BY <3>1, SumType
  <2>9. SumFunctionOnSet(h, T) # SumFunctionOnSet(f, Of(T))
    BY <2>1
  <2> HIDE DEF G, Of, R, Bad
  <2>10. SumFunctionOnSet(f, Of(T)) = SumFunctionOnSet(f, G) + SumFunctionOnSet(f, Of(R))
    <3>1. SumFunctionOnSet(f, G \cup Of(R)) = SumFunctionOnSet(f, G) + SumFunctionOnSet(f, Of(R))
      BY <2>6, SumUnion
    <3>2. QED
      BY <2>6, <3>1
  <2>11. QED
    BY <2>4, <2>5, <2>7, <2>8, <2>9, <2>10
<1>3. Of(K) = S
  OBVIOUS
<1>4. SumFunctionOnSet(h, K) = SumFunctionOnSet(f, Of(K))
  <2>1. K \notin Bad
    BY <1>2
  <2>2. QED
    BY <2>1
<1>5. QED
  BY <1>1, <1>3, <1>4

(***************************************************************************)
(* A sum over the image of S under a map that is one-to-one on S.          *)
(***************************************************************************)
LEMMA SumImage ==
  ASSUME NEW S, IsFiniteSet(S), NEW f, IntOn(f, S), NEW b,
         \A x, y \in S : b[x] = b[y] => x = y,
         NEW T, T = ImageOf(b, S),
         NEW g, \A x \in S : g[b[x]] = f[x]
  PROVE  SumFunctionOnSet(g, T) = SumFunctionOnSet(f, S)
<1>1. IsFiniteSet(T)
  <2> DEFINE e == [x \in S |-> b[x]]
  <2>1. e \in Surjection(S, T)
    BY DEF Surjection, ImageOf
  <2>2. QED
    BY <2>1, FS_Surjection
<1>2. ASSUME NEW t \in T
      PROVE  g[t] = SumFunctionOnSet(f, Part(S, b, t))
  <2>1. PICK x \in S : t = b[x]
    BY <1>2 DEF ImageOf
  <2>2. Part(S, b, t) = {x}
    BY <2>1 DEF Part
  <2>3. SumFunctionOnSet(f, {x}) = f[x]
    BY SumOne DEF IntOn
  <2>4. QED
    BY <2>1, <2>2, <2>3
<1>3. \A x \in S : b[x] \in T
  BY DEF ImageOf
<1>4. \A t \in T : g[t] = SumFunctionOnSet(f, Part(S, b, t))
  BY <1>2
<1>5. SumFunctionOnSet(g, T) = SumFunctionOnSet(f, S)
  BY <1>1, <1>3, <1>4, SumByKey
<1>6. QED
  BY <1>5

(***************************************************************************)
(* A sum of natural numbers grows with the set.                            *)
(***************************************************************************)
LEMMA SumNat ==
  ASSUME NEW S, IsFiniteSet(S), NEW f, \A x \in S : f[x] \in Nat
  PROVE  SumFunctionOnSet(f, S) \in Nat
<1> DEFINE Bad == {T \in SUBSET S : SumFunctionOnSet(f, T) \notin Nat}
<1>1. SUFFICES ASSUME Bad # {} PROVE FALSE
  OBVIOUS
<1>2. PICK T \in Bad : \A U \in Bad : ~(U \subseteq T /\ U # T)
  <2>1. Bad \subseteq SUBSET S
    OBVIOUS
  <2> HIDE DEF Bad
  <2>2. QED
    BY <1>1, <2>1, MinimalSubset
<1>3. PICK x \in T : TRUE
  <2>1. SumFunctionOnSet(f, {}) \in Nat
    BY SumEmpty
  <2>2. T # {}
    BY <1>2, <2>1
  <2>3. QED
    BY <2>2
<1>4. SumFunctionOnSet(f, T \ {x}) \in Nat
  BY <1>2, <1>3
<1>5. SumFunctionOnSet(f, T) = f[x] + SumFunctionOnSet(f, T \ {x})
  <2>1. IsFiniteSet(T) /\ IntOn(f, T)
    BY <1>2, FS_Subset DEF IntOn
  <2>2. QED
    BY <2>1, SumRemove
<1>6. QED
  BY <1>2, <1>3, <1>4, <1>5

LEMMA SumGrows ==
  ASSUME NEW S, IsFiniteSet(S), NEW f, \A x \in S : f[x] \in Nat, NEW T \in SUBSET S
  PROVE  SumFunctionOnSet(f, T) <= SumFunctionOnSet(f, S)
<1>1. /\ IsFiniteSet(T) /\ IsFiniteSet(S \ T) /\ IntOn(f, S)
      /\ S \ T \in SUBSET S /\ T \cap (S \ T) = {} /\ T \cup (S \ T) = S
  BY FS_Subset DEF IntOn
<1>2. SumFunctionOnSet(f, T) \in Nat /\ SumFunctionOnSet(f, S \ T) \in Nat
  BY <1>1, SumNat
<1>3. SumFunctionOnSet(f, T \cup (S \ T)) = SumFunctionOnSet(f, T) + SumFunctionOnSet(f, S \ T)
  BY <1>1, SumUnion
<1>4. SumFunctionOnSet(f, S) = SumFunctionOnSet(f, T) + SumFunctionOnSet(f, S \ T)
  BY <1>1, <1>3, Zenon
<1>5. QED
  BY <1>2, <1>4

(***************************************************************************)
(* The size of a set is a sum of ones; so sizes add up as sums do.         *)
(***************************************************************************)
LEMMA SizeIsSum ==
  ASSUME NEW S, IsFiniteSet(S), NEW T \in SUBSET S
  PROVE  Cardinality(T) = SumFunctionOnSet([x \in S |-> 1], T)
<1> DEFINE f == [x \in S |-> 1]
           Bad == {U \in SUBSET S : Cardinality(U) # SumFunctionOnSet(f, U)}
<1>1. SUFFICES ASSUME Bad # {} PROVE FALSE
  OBVIOUS
<1>2. PICK U \in Bad : \A V \in Bad : ~(V \subseteq U /\ V # U)
  <2>1. Bad \subseteq SUBSET S
    OBVIOUS
  <2> HIDE DEF Bad
  <2>2. QED
    BY <1>1, <2>1, MinimalSubset
<1>3. PICK x \in U : TRUE
  BY <1>2, SumEmpty, FS_EmptySet
<1>4. IsFiniteSet(U) /\ IntOn(f, U) /\ f[x] = 1
  BY <1>2, <1>3, FS_Subset DEF IntOn
<1>5. Cardinality(U \ {x}) = SumFunctionOnSet(f, U \ {x})
  BY <1>2, <1>3
<1>6. Cardinality(U \ {x}) = Cardinality(U) - 1 /\ Cardinality(U) \in Nat
  BY <1>3, <1>4, FS_RemoveElement, FS_CardinalityType
<1> HIDE DEF f
<1>7. SumFunctionOnSet(f, U) = f[x] + SumFunctionOnSet(f, U \ {x})
  BY <1>3, <1>4, SumRemove
<1>8. QED
  BY <1>2, <1>4, <1>5, <1>6, <1>7

LEMMA SizeByKey ==
  ASSUME NEW S, IsFiniteSet(S),
         NEW K, IsFiniteSet(K), NEW key, \A x \in S : key[x] \in K,
         NEW h, \A k \in K : h[k] = Cardinality(Part(S, key, k))
  PROVE  IntOn(h, K) /\ SumFunctionOnSet(h, K) = Cardinality(S)
<1> DEFINE f == [x \in S |-> 1]
<1>1. IntOn(f, S)
  BY DEF IntOn
<1>2. \A k \in K : h[k] = SumFunctionOnSet(f, Part(S, key, k))
  <2>1. \A k \in K : Part(S, key, k) \in SUBSET S
    BY DEF Part
  <2>2. QED
    BY <2>1, SizeIsSum
<1>3. Cardinality(S) = SumFunctionOnSet(f, S)
  BY SizeIsSum
<1> HIDE DEF f
<1>4. IntOn(h, K) /\ SumFunctionOnSet(h, K) = SumFunctionOnSet(f, S)
  BY <1>1, <1>2, SumByKey
<1>5. QED
  BY <1>3, <1>4

LEMMA SizeImage ==
  ASSUME NEW S, IsFiniteSet(S), NEW b,
         \A x, y \in S : b[x] = b[y] => x = y,
         NEW T, T = ImageOf(b, S)
  PROVE  IsFiniteSet(T) /\ Cardinality(T) = Cardinality(S)
<1> DEFINE e == [x \in S |-> b[x]]
<1>1. e \in Surjection(S, T) /\ e \in Injection(S, T)
  BY DEF Surjection, Injection, IsInjective, ImageOf
<1> HIDE DEF e
<1>2. QED
  BY <1>1, FS_Surjection

(***************************************************************************)
(* The groups under some of the keys, with what has none of these keys.    *)
(***************************************************************************)
LEMMA SumByKeyAndRest ==
  ASSUME NEW S, IsFiniteSet(S), NEW f, IntOn(f, S),
         NEW K, IsFiniteSet(K), NEW key,
         NEW h, \A k \in K : h[k] = SumFunctionOnSet(f, Part(S, key, k)),
         NEW R, R = {x \in S : key[x] \notin K}
  PROVE  SumFunctionOnSet(h, K) + SumFunctionOnSet(f, R) = SumFunctionOnSet(f, S)
<1> DEFINE A == {x \in S : key[x] \in K}
<1>1. /\ IsFiniteSet(A) /\ IntOn(f, A) /\ A \in SUBSET S /\ R \in SUBSET S
      /\ A \cap R = {} /\ A \cup R = S
  BY FS_Subset DEF IntOn
<1>2. \A k \in K : Part(S, key, k) = Part(A, key, k)
  BY DEF Part
<1>3. \A x \in A : key[x] \in K
  OBVIOUS
<1> HIDE DEF A
<1>4. \A k \in K : h[k] = SumFunctionOnSet(f, Part(A, key, k))
  BY <1>2
<1>5. SumFunctionOnSet(h, K) = SumFunctionOnSet(f, A)
  BY <1>1, <1>3, <1>4, SumByKey
<1>6. SumFunctionOnSet(f, A \cup R) = SumFunctionOnSet(f, A) + SumFunctionOnSet(f, R)
  BY <1>1, SumUnion
<1>7. QED
  BY <1>1, <1>5, <1>6
=============================================================================
