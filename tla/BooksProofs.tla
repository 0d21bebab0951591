----------------------------- MODULE BooksProofs -----------------------------
(***************************************************************************)
(* Theorems about Ledger and Planning, for any number of accounts, buckets, *)
(* tags, months, rows and operations and any amounts. They rest on facts    *)
(* about finite sums, which come first and know nothing of money.           *)
(***************************************************************************)
EXTENDS Ledger, Planning, FiniteSetTheorems, TLAPS

----------------------------------------------------------------------------
(* Sums. SumFunctionOnSet takes one element of the set after another, as   *)
(* CHOOSE gives them.                                                      *)

Sums(g, F, S) ==
    g = [s \in SUBSET S |-> IF s = {} THEN 0
                            ELSE F[CHOOSE x \in s : TRUE] + g[s \ {CHOOSE x \in s : TRUE}]]

\* A statement that fails for a finite set fails for one and for no subset of it.
LEMMA LeastSet ==
    ASSUME NEW S, IsFiniteSet(S), NEW T \in SUBSET (SUBSET S), NEW x \in T
    PROVE  \E s \in T : \A t \in T : t \subseteq s => t = s
<1>1. IsWellFoundedOn(StrictSubsetOrdering(S), SUBSET S)
  BY FS_StrictSubsetOrderingWellFounded, FS_FiniteSubsetsOfFinite
<1>2. PICK s \in T : \A t \in T : ~(<<t, s>> \in StrictSubsetOrdering(S))
  BY <1>1, WFMin
<1>3. \A t \in T : t \subseteq s /\ t # s => <<t, s>> \in StrictSubsetOrdering(S)
  BY DEF StrictSubsetOrdering
<1>4. \A t \in T : t \subseteq s => t = s
  BY <1>2, <1>3
<1> QED
  BY <1>4

\* One element after another: what the recursion says, and that it shrinks the set.
LEMMA SumsStep ==
    ASSUME NEW F, NEW S, NEW g, Sums(g, F, S), NEW s \in SUBSET S
    PROVE  /\ s = {} => g[s] = 0
           /\ s # {} => LET x == CHOOSE x \in s : TRUE
                        IN  /\ x \in s /\ s \ {x} \in SUBSET S /\ s \ {x} # s
                            /\ g[s] = F[x] + g[s \ {x}]
BY DEF Sums

\* Two sums of functions that agree on a set agree on its subsets.
LEMMA SumsAgree ==
    ASSUME NEW S, NEW R, NEW F, NEW G, NEW g, NEW h, Sums(g, F, S), Sums(h, G, R),
           NEW T \in SUBSET (S \cap R), IsFiniteSet(T), \A x \in T : F[x] = G[x]
    PROVE  g[T] = h[T]
<1> DEFINE Bad == {s \in SUBSET T : g[s] # h[s]}
<1> SUFFICES ASSUME T \in Bad PROVE FALSE
  OBVIOUS
<1>1. PICK s \in Bad : \A t \in Bad : t \subseteq s => t = s
  <2>1. Bad \in SUBSET (SUBSET T)
    OBVIOUS
  <2> HIDE DEF Bad
  <2> QED
    BY <2>1, LeastSet
<1>2. s \in SUBSET S /\ s \in SUBSET R /\ s \in SUBSET T /\ g[s] # h[s]
  OBVIOUS
<1>3. CASE s = {}
  BY <1>2, <1>3, SumsStep
<1>4. CASE s # {}
  <2> DEFINE x == CHOOSE x \in s : TRUE
  <2>1. /\ x \in s /\ s \ {x} # s
        /\ g[s] = F[x] + g[s \ {x}] /\ h[s] = G[x] + h[s \ {x}]
    BY <1>2, <1>4, SumsStep
  <2> HIDE DEF x
  <2>2. F[x] = G[x] /\ s \ {x} \in SUBSET T
    BY <1>2, <2>1
  <2>3. g[s \ {x}] = h[s \ {x}]
    BY <1>1, <2>1, <2>2
  <2> QED
    BY <1>2, <2>1, <2>2, <2>3
<1> QED
  BY <1>3, <1>4

\* The recursion has a solution over every finite set.
LEMMA SumsExist ==
    ASSUME NEW F, NEW S, IsFiniteSet(S)
    PROVE  \E g : Sums(g, F, S)
<1> DEFINE Bad == {s \in SUBSET S : ~\E g : Sums(g, F, s)}
<1> SUFFICES ASSUME S \in Bad PROVE FALSE
  OBVIOUS
<1>1. PICK s \in Bad : \A t \in Bad : t \subseteq s => t = s
  <2>1. Bad \in SUBSET (SUBSET S)
    OBVIOUS
  <2> HIDE DEF Bad
  <2> QED
    BY <2>1, LeastSet
<1>2. s \in SUBSET S /\ ~\E g : Sums(g, F, s)
  OBVIOUS
<1> DEFINE of(t) == CHOOSE g : Sums(g, F, t)
           f == [t \in SUBSET s |-> of(t)[t]]
           x == CHOOSE x \in s : TRUE
           g == [t \in SUBSET s |-> IF t = s /\ s # {} THEN F[x] + of(s \ {x})[s \ {x}] ELSE of(t)[t]]
<1>3. \A t \in SUBSET s : t # s => Sums(of(t), F, t)
  <2> SUFFICES ASSUME NEW t \in SUBSET s, t # s PROVE Sums(of(t), F, t)
    OBVIOUS
  <2>1. t \notin Bad /\ t \in SUBSET S
    BY <1>1, <1>2
  <2>2. \E k : Sums(k, F, t)
    BY <2>1
  <2> QED
    BY <2>2
<1>4. \A t \in SUBSET s : IsFiniteSet(t)
  BY <1>2, FS_Subset
<1>5. ASSUME NEW t \in SUBSET s, t # s, t # {}
      PROVE  LET y == CHOOSE y \in t : TRUE IN of(t)[t] = F[y] + of(t \ {y})[t \ {y}]
  <2> DEFINE y == CHOOSE y \in t : TRUE
  <2> HIDE DEF of
  <2>1. Sums(of(t), F, t)
    BY <1>3, <1>5
  <2>2. /\ y \in t /\ t \ {y} \in SUBSET t /\ t \ {y} # t
        /\ of(t)[t] = F[y] + of(t)[t \ {y}]
    BY <1>5, <2>1, SumsStep
  <2> HIDE DEF y
  <2>3. t \ {y} \in SUBSET s /\ t \ {y} # s /\ t \ {y} \in SUBSET (t \cap (t \ {y}))
    BY <2>2
  <2>4. Sums(of(t \ {y}), F, t \ {y}) /\ IsFiniteSet(t \ {y})
    BY <1>3, <1>4, <2>3
  <2>5. of(t)[t \ {y}] = of(t \ {y})[t \ {y}]
    BY <2>1, <2>3, <2>4, SumsAgree
  <2> QED
    BY <2>2, <2>5 DEF y
<1>6. s # {}
  <2>1. SUFFICES ASSUME s = {} PROVE FALSE
    OBVIOUS
  <2>2. Sums([t \in SUBSET s |-> 0], F, s)
    BY <2>1 DEF Sums
  <2> QED
    BY <1>2, <2>2
<1>7. \A t \in SUBSET s :
         g[t] = IF t = {} THEN 0 ELSE F[CHOOSE y \in t : TRUE] + g[t \ {CHOOSE y \in t : TRUE}]
  <2> SUFFICES ASSUME NEW t \in SUBSET s
               PROVE  g[t] = IF t = {} THEN 0
                             ELSE F[CHOOSE y \in t : TRUE] + g[t \ {CHOOSE y \in t : TRUE}]
    OBVIOUS
  <2> DEFINE y == CHOOSE y \in t : TRUE
  <2>1. CASE t = {}
    <3>1. Sums(of(t), F, t) /\ t # s
      BY <1>3, <1>6, <2>1
    <3> HIDE DEF of
    <3>2. of(t)[t] = 0
      BY <2>1, <3>1 DEF Sums
    <3> QED
      BY <2>1, <3>1, <3>2
  <2>2. CASE t = s
    <3>1. y = x /\ y \in s /\ s \ {x} # s /\ s \ {x} \in SUBSET s
      BY <1>6, <2>2
    <3> HIDE DEF x, y, of
    <3> QED
      BY <1>6, <2>2, <3>1 DEF y
  <2>3. CASE t # {} /\ t # s
    <3>1. y \in t /\ t \ {y} \in SUBSET s /\ t \ {y} # s
      BY <2>3
    <3>2. of(t)[t] = F[y] + of(t \ {y})[t \ {y}]
      BY <1>5, <2>3
    <3> HIDE DEF y, of, x
    <3>3. g[t] = of(t)[t] /\ g[t \ {y}] = of(t \ {y})[t \ {y}]
      BY <2>3, <3>1
    <3> QED
      BY <2>3, <3>2, <3>3 DEF y
  <2> QED
    BY <2>1, <2>2, <2>3
<1>8. Sums(g, F, s)
  <2> HIDE DEF of, x
  <2>1. g = [t \in SUBSET s |-> g[t]]
    OBVIOUS
  <2> HIDE DEF g
  <2> QED
    BY <1>7, <2>1 DEF Sums
<1> QED
  BY <1>2, <1>8

LEMMA SumIs ==
    ASSUME NEW F, NEW S, IsFiniteSet(S), NEW g, Sums(g, F, S)
    PROVE  Sum(F, S) = g[S]
<1> DEFINE h == CHOOSE h : h = [s \in SUBSET S |-> IF s = {} THEN 0
                                                 ELSE F[CHOOSE x \in s : TRUE] + h[s \ {CHOOSE x \in s : TRUE}]]
<1>1. Sums(h, F, S)
  BY DEF Sums
<1>2. Sum(F, S) = h[S]
  BY DEF Sum, SumFunctionOnSet, FoldFunctionOnSet, MapThenFoldSet
<1> HIDE DEF h
<1>3. S \in SUBSET (S \cap S)
  OBVIOUS
<1>4. g[S] = h[S]
  BY <1>1, <1>3, SumsAgree
<1> QED
  BY <1>2, <1>4

LEMMA SumStep ==
    ASSUME NEW F, NEW S, IsFiniteSet(S)
    PROVE  /\ S = {} => Sum(F, S) = 0
           /\ S # {} => LET x == CHOOSE x \in S : TRUE
                        IN  x \in S /\ Sum(F, S) = F[x] + Sum(F, S \ {x})
<1>1. PICK g : Sums(g, F, S)
  BY SumsExist
<1>2. Sum(F, S) = g[S]
  BY <1>1, SumIs
<1>3. CASE S = {}
  BY <1>1, <1>2, <1>3 DEF Sums
<1>4. CASE S # {}
  <2> DEFINE x == CHOOSE x \in S : TRUE
  <2>1. x \in S /\ g[S] = F[x] + g[S \ {x}]
    BY <1>1, <1>4 DEF Sums
  <2> HIDE DEF x
  <2>2. IsFiniteSet(S \ {x}) /\ S \ {x} \in SUBSET (S \cap (S \ {x}))
    BY FS_Subset
  <2>3. PICK h : Sums(h, F, S \ {x})
    BY <2>2, SumsExist
  <2>4. Sum(F, S \ {x}) = h[S \ {x}]
    BY <2>2, <2>3, SumIs
  <2>5. g[S \ {x}] = h[S \ {x}]
    BY <1>1, <2>2, <2>3, SumsAgree
  <2> QED
    BY <1>2, <1>4, <2>1, <2>4, <2>5 DEF x
<1> QED
  BY <1>3, <1>4

LEMMA SumEmpty == ASSUME NEW F PROVE Sum(F, {}) = 0
<1>1. IsFiniteSet({})
  BY FS_EmptySet
<1> QED
  BY <1>1, SumStep

\* A sum depends on the values of its function only.
LEMMA SumSame ==
    ASSUME NEW S, IsFiniteSet(S), NEW F, NEW G, \A x \in S : F[x] = G[x]
    PROVE  Sum(F, S) = Sum(G, S)
<1>1. PICK g, h : Sums(g, F, S) /\ Sums(h, G, S)
  BY SumsExist
<1>2. S \in SUBSET (S \cap S)
  OBVIOUS
<1>3. g[S] = h[S]
  BY <1>1, <1>2, SumsAgree
<1> QED
  BY <1>1, <1>3, SumIs

LEMMA SumInt ==
    ASSUME NEW S, IsFiniteSet(S), NEW F, \A x \in S : F[x] \in Int
    PROVE  Sum(F, S) \in Int
<1> DEFINE Bad == {s \in SUBSET S : Sum(F, s) \notin Int}
<1> SUFFICES ASSUME S \in Bad PROVE FALSE
  OBVIOUS
<1>1. PICK s \in Bad : \A t \in Bad : t \subseteq s => t = s
  <2>1. Bad \in SUBSET (SUBSET S)
    OBVIOUS
  <2> HIDE DEF Bad
  <2> QED
    BY <2>1, LeastSet
<1>2. s \in SUBSET S /\ Sum(F, s) \notin Int /\ IsFiniteSet(s)
  BY FS_Subset
<1>3. s # {}
  <2>1. Sum(F, {}) = 0
    BY SumEmpty
  <2> QED
    BY <1>2, <2>1
<1>4. PICK x \in s : Sum(F, s) = F[x] + Sum(F, s \ {x})
  BY <1>2, <1>3, SumStep
<1>5. Sum(F, s \ {x}) \in Int
  BY <1>1, <1>2, <1>4
<1> QED
  BY <1>2, <1>4, <1>5

\* The order of the elements does not matter.
LEMMA SumAdd ==
    ASSUME NEW S, IsFiniteSet(S), NEW F, \A x \in S : F[x] \in Int, NEW a, a \notin S, F[a] \in Int
    PROVE  Sum(F, S \cup {a}) = F[a] + Sum(F, S)
<1> DEFINE Bad == {s \in SUBSET S : \E b \in (S \cup {a}) \ s : Sum(F, s \cup {b}) # F[b] + Sum(F, s)}
<1> SUFFICES ASSUME S \in Bad PROVE FALSE
  OBVIOUS
<1>1. PICK s \in Bad : \A t \in Bad : t \subseteq s => t = s
  <2>1. Bad \in SUBSET (SUBSET S)
    OBVIOUS
  <2> HIDE DEF Bad
  <2> QED
    BY <2>1, LeastSet
<1>2. s \in SUBSET S /\ IsFiniteSet(s)
  BY FS_Subset
<1>3. PICK b \in (S \cup {a}) \ s : Sum(F, s \cup {b}) # F[b] + Sum(F, s)
  OBVIOUS
<1>4. IsFiniteSet(s \cup {b})
  BY <1>2, FS_AddElement
<1>5. PICK x \in s \cup {b} : Sum(F, s \cup {b}) = F[x] + Sum(F, (s \cup {b}) \ {x})
  BY <1>4, SumStep
<1>6. CASE x = b
  <2>1. (s \cup {b}) \ {x} = s
    BY <1>6
  <2> QED
    BY <1>3, <1>5, <1>6, <2>1
<1>7. CASE x # b
  <2>1. x \in s /\ (s \cup {b}) \ {x} = (s \ {x}) \cup {b} /\ (s \ {x}) \cup {x} = s
    BY <1>5, <1>7
  <2>2. s \ {x} \notin Bad /\ s \ {x} \in SUBSET S
    BY <1>1, <1>2, <2>1
  <2>3. b \in (S \cup {a}) \ (s \ {x}) /\ x \in (S \cup {a}) \ (s \ {x})
    BY <1>2, <1>3, <2>1
  <2>4. /\ Sum(F, (s \ {x}) \cup {b}) = F[b] + Sum(F, s \ {x})
        /\ Sum(F, (s \ {x}) \cup {x}) = F[x] + Sum(F, s \ {x})
    BY <2>2, <2>3
  <2>5. Sum(F, s \ {x}) \in Int
    <3>1. IsFiniteSet(s \ {x}) /\ \A y \in s \ {x} : F[y] \in Int
      BY <1>2, FS_Subset
    <3> QED
      BY <3>1, SumInt
  <2>6. F[b] \in Int /\ F[x] \in Int
    BY <1>2, <1>3, <2>1
  <2>7. /\ Sum(F, s \cup {b}) = F[x] + (F[b] + Sum(F, s \ {x}))
        /\ Sum(F, s) = F[x] + Sum(F, s \ {x})
    BY <1>5, <2>1, <2>4
  <2>8. F[x] + (F[b] + Sum(F, s \ {x})) = F[b] + (F[x] + Sum(F, s \ {x}))
    BY <2>5, <2>6
  <2> QED
    BY <1>3, <2>7, <2>8
<1> QED
  BY <1>6, <1>7

LEMMA SumUnion ==
    ASSUME NEW S, IsFiniteSet(S), NEW T, IsFiniteSet(T), S \cap T = {},
           NEW F, \A x \in S \cup T : F[x] \in Int
    PROVE  Sum(F, S \cup T) = Sum(F, S) + Sum(F, T)
<1> DEFINE Bad == {t \in SUBSET T : Sum(F, S \cup t) # Sum(F, S) + Sum(F, t)}
<1> SUFFICES ASSUME T \in Bad PROVE FALSE
  OBVIOUS
<1>1. PICK t \in Bad : \A u \in Bad : u \subseteq t => u = t
  <2>1. Bad \in SUBSET (SUBSET T)
    OBVIOUS
  <2> HIDE DEF Bad
  <2> QED
    BY <2>1, LeastSet
<1>2. t \in SUBSET T /\ IsFiniteSet(t) /\ Sum(F, S \cup t) # Sum(F, S) + Sum(F, t)
  BY FS_Subset
<1>3. Sum(F, S) \in Int
  BY SumInt
<1>4. t # {}
  <2>1. Sum(F, {}) = 0
    BY SumEmpty
  <2>2. ASSUME t = {} PROVE S \cup t = S
    BY <2>2
  <2> QED
    BY <1>2, <1>3, <2>1, <2>2
<1>5. PICK a \in t : TRUE
  BY <1>4
<1> DEFINE u == t \ {a}
<1>6. /\ u \cup {a} = t /\ S \cup t = (S \cup u) \cup {a} /\ a \notin u /\ a \notin S \cup u
      /\ u \in SUBSET T /\ u # t
  BY <1>2, <1>5
<1>7. IsFiniteSet(u) /\ IsFiniteSet(S \cup u)
  BY <1>2, FS_Subset, FS_Union
<1> HIDE DEF u
<1>8. F[a] \in Int /\ (\A x \in u : F[x] \in Int) /\ (\A x \in S \cup u : F[x] \in Int)
  BY <1>2, <1>5, <1>6
<1>9. Sum(F, t) = F[a] + Sum(F, u) /\ Sum(F, S \cup t) = F[a] + Sum(F, S \cup u)
  BY <1>6, <1>7, <1>8, SumAdd
<1>10. Sum(F, S \cup u) = Sum(F, S) + Sum(F, u)
  <2>1. u \notin Bad
    BY <1>1, <1>6
  <2> QED
    BY <1>6, <2>1
<1>11. Sum(F, u) \in Int
  BY <1>7, <1>8, SumInt
<1> QED
  BY <1>2, <1>3, <1>8, <1>9, <1>10, <1>11

\* One value changes, and the sum by as much.
LEMMA SumShift ==
    ASSUME NEW T, IsFiniteSet(T), NEW a \in T, NEW F, NEW G, NEW d \in Int,
           \A x \in T : F[x] \in Int, G[a] = d + F[a], \A x \in T \ {a} : G[x] = F[x]
    PROVE  Sum(G, T) = d + Sum(F, T)
<1> DEFINE u == T \ {a}
<1>1. u \cup {a} = T /\ a \notin u /\ IsFiniteSet(u)
  BY FS_Subset
<1>2. (\A x \in u : F[x] \in Int /\ G[x] \in Int /\ F[x] = G[x]) /\ F[a] \in Int /\ G[a] \in Int
  OBVIOUS
<1> HIDE DEF u
<1>3. Sum(F, T) = F[a] + Sum(F, u) /\ Sum(G, T) = G[a] + Sum(G, u)
  BY <1>1, <1>2, SumAdd
<1>4. Sum(F, u) = Sum(G, u) /\ Sum(F, u) \in Int
  BY <1>1, <1>2, SumSame, SumInt
<1> QED
  BY <1>2, <1>3, <1>4

LEMMA SumZero ==
    ASSUME NEW S, IsFiniteSet(S), NEW F, \A x \in S : F[x] = 0
    PROVE  Sum(F, S) = 0
<1> DEFINE Bad == {s \in SUBSET S : Sum(F, s) # 0}
<1> SUFFICES ASSUME S \in Bad PROVE FALSE
  OBVIOUS
<1>1. PICK s \in Bad : \A t \in Bad : t \subseteq s => t = s
  <2>1. Bad \in SUBSET (SUBSET S)
    OBVIOUS
  <2> HIDE DEF Bad
  <2> QED
    BY <2>1, LeastSet
<1>2. s \in SUBSET S /\ Sum(F, s) # 0 /\ IsFiniteSet(s)
  BY FS_Subset
<1>3. s # {}
  <2>1. Sum(F, {}) = 0
    BY SumEmpty
  <2> QED
    BY <1>2, <2>1
<1>4. PICK x \in s : Sum(F, s) = F[x] + Sum(F, s \ {x})
  BY <1>2, <1>3, SumStep
<1>5. Sum(F, s \ {x}) = 0 /\ F[x] = 0
  BY <1>1, <1>2, <1>4
<1> QED
  BY <1>2, <1>4, <1>5

\* A sum over pairs, one second component after another.
PartSums(C, A, F, R) == [a \in A |-> Sum([i \in C |-> F[<<i, a>>]], {i \in C : <<i, a>> \in R})]
LEMMA SumByParts ==
    ASSUME NEW C, IsFiniteSet(C), NEW A, IsFiniteSet(A), NEW R \in SUBSET (C \X A), IsFiniteSet(R),
           NEW F, \A i \in C, a \in A : F[<<i, a>>] \in Int
    PROVE  Sum(F, R) = Sum(PartSums(C, A, F, R), A)
<1> USE DEF PartSums
<1> DEFINE part(a) == [i \in C |-> F[<<i, a>>]]
           slice(r, a) == {i \in C : <<i, a>> \in r}
           parts(r) == [a \in A |-> Sum(part(a), slice(r, a))]
           Bad == {r \in SUBSET R : Sum(F, r) # Sum(parts(r), A)}
<1> SUFFICES ASSUME R \in Bad PROVE FALSE
  OBVIOUS
<1>1. PICK r \in Bad : \A u \in Bad : u \subseteq r => u = r
  <2>1. Bad \in SUBSET (SUBSET R)
    OBVIOUS
  <2> HIDE DEF Bad
  <2> QED
    BY <2>1, LeastSet
<1>2. r \in SUBSET R /\ IsFiniteSet(r) /\ Sum(F, r) # Sum(parts(r), A)
  BY FS_Subset
<1>3. \A u \in SUBSET R : u \subseteq r /\ u # r => Sum(F, u) = Sum(parts(u), A)
  BY <1>1
<1> HIDE DEF Bad
<1>4. r # {}
  <2>1. SUFFICES ASSUME r = {} PROVE FALSE
    OBVIOUS
  <2>2. \A a \in A : slice(r, a) = {}
    BY <2>1
  <2>3. \A a \in A : parts(r)[a] = 0
    BY <2>2, SumEmpty
  <2> HIDE DEF parts
  <2>4. Sum(parts(r), A) = 0
    BY <2>3, SumZero
  <2> QED
    BY <1>2, <2>1, <2>4, SumEmpty
<1>5. PICK p \in r : TRUE
  BY <1>4
<1>6. PICK i \in C, a \in A : p = <<i, a>>
  BY <1>2, <1>5
<1> DEFINE u == r \ {p}
<1>7. u \in SUBSET R /\ u \subseteq r /\ u # r /\ u \cup {p} = r /\ p \notin u
  BY <1>2, <1>5
<1>8. IsFiniteSet(u)
  BY <1>2, FS_Subset
<1>9. \A q \in r : F[q] \in Int
  <2> SUFFICES ASSUME NEW q \in r PROVE F[q] \in Int
    OBVIOUS
  <2>1. PICK j \in C, b \in A : q = <<j, b>>
    BY <1>2
  <2> QED
    BY <2>1
<1> HIDE DEF u
<1>10. Sum(F, r) = F[p] + Sum(F, u)
  <2>1. F[p] \in Int /\ \A q \in u : F[q] \in Int
    BY <1>5, <1>7, <1>9
  <2>2. Sum(F, u \cup {p}) = F[p] + Sum(F, u)
    BY <1>7, <1>8, <2>1, SumAdd
  <2> QED
    BY <1>7, <2>2
<1>11. \A b \in A : IsFiniteSet(slice(u, b))
  <2> SUFFICES ASSUME NEW b \in A PROVE IsFiniteSet(slice(u, b))
    OBVIOUS
  <2>1. slice(u, b) \subseteq C
    OBVIOUS
  <2> QED
    BY <2>1, FS_Subset
<1>12. \A b \in A : \A j \in slice(u, b) : part(b)[j] \in Int
  OBVIOUS
<1>13. \A b \in A : parts(u)[b] = Sum(part(b), slice(u, b)) /\ parts(r)[b] = Sum(part(b), slice(r, b))
  OBVIOUS
<1>14. slice(r, a) = slice(u, a) \cup {i} /\ i \notin slice(u, a) /\ part(a)[i] = F[p]
  BY <1>6, <1>7
<1>15. \A b \in A \ {a} : slice(r, b) = slice(u, b)
  BY <1>6, <1>7
<1>16. F[p] \in Int
  BY <1>6
<1> HIDE DEF parts, part, slice
<1>17. \A b \in A : parts(u)[b] \in Int
  BY <1>11, <1>12, <1>13, SumInt
<1>18. Sum(part(a), slice(u, a) \cup {i}) = F[p] + Sum(part(a), slice(u, a))
  BY <1>11, <1>12, <1>14, <1>16, SumAdd
<1>19. parts(r)[a] = F[p] + parts(u)[a]
  BY <1>13, <1>14, <1>18
<1>20. \A b \in A \ {a} : parts(r)[b] = parts(u)[b]
  BY <1>13, <1>15
<1>21. Sum(parts(r), A) = F[p] + Sum(parts(u), A)
  BY <1>16, <1>17, <1>19, <1>20, SumShift
<1> QED
  BY <1>2, <1>3, <1>7, <1>10, <1>21

LEMMA SumPlus ==
    ASSUME NEW S, IsFiniteSet(S), NEW F, NEW G, NEW H,
           \A x \in S : F[x] \in Int /\ G[x] \in Int /\ H[x] = F[x] + G[x]
    PROVE  Sum(H, S) = Sum(F, S) + Sum(G, S)
<1> DEFINE Bad == {s \in SUBSET S : Sum(H, s) # Sum(F, s) + Sum(G, s)}
<1> SUFFICES ASSUME S \in Bad PROVE FALSE
  OBVIOUS
<1>1. PICK s \in Bad : \A t \in Bad : t \subseteq s => t = s
  <2>1. Bad \in SUBSET (SUBSET S)
    OBVIOUS
  <2> HIDE DEF Bad
  <2> QED
    BY <2>1, LeastSet
<1>2. s \in SUBSET S /\ Sum(H, s) # Sum(F, s) + Sum(G, s) /\ IsFiniteSet(s)
  BY FS_Subset
<1>3. s # {}
  <2>1. Sum(F, {}) = 0 /\ Sum(G, {}) = 0 /\ Sum(H, {}) = 0
    BY SumEmpty
  <2> QED
    BY <1>2, <2>1
<1> DEFINE x == CHOOSE x \in s : TRUE
<1>4. /\ x \in s /\ Sum(F, s) = F[x] + Sum(F, s \ {x})
      /\ Sum(G, s) = G[x] + Sum(G, s \ {x}) /\ Sum(H, s) = H[x] + Sum(H, s \ {x})
  BY <1>2, <1>3, SumStep
<1> HIDE DEF x
<1>5. s \ {x} \notin Bad /\ s \ {x} \in SUBSET S /\ IsFiniteSet(s \ {x})
  BY <1>1, <1>2, <1>4, FS_Subset
<1>6. Sum(H, s \ {x}) = Sum(F, s \ {x}) + Sum(G, s \ {x})
  BY <1>5
<1>7. Sum(F, s \ {x}) \in Int /\ Sum(G, s \ {x}) \in Int
  BY <1>5, SumInt
<1>8. F[x] \in Int /\ G[x] \in Int /\ H[x] = F[x] + G[x]
  BY <1>2, <1>4
<1> QED
  BY <1>2, <1>4, <1>6, <1>7, <1>8

\* A WHERE clause is a value of zero elsewhere.
LEMMA SumWhere ==
    ASSUME NEW S, IsFiniteSet(S), NEW T \in SUBSET S, NEW F, NEW G,
           \A x \in T : F[x] = G[x] /\ G[x] \in Int, \A x \in S \ T : G[x] = 0
    PROVE  Sum(F, T) = Sum(G, S)
<1> DEFINE R == S \ T
<1>1. IsFiniteSet(T) /\ IsFiniteSet(R) /\ T \cup R = S /\ T \cap R = {}
  BY FS_Subset
<1>2. \A x \in T \cup R : G[x] \in Int
  OBVIOUS
<1>3. \A x \in R : G[x] = 0
  OBVIOUS
<1> HIDE DEF R
<1>4. Sum(G, T \cup R) = Sum(G, T) + Sum(G, R)
  BY <1>1, <1>2, SumUnion
<1>5. Sum(G, R) = 0 /\ Sum(F, T) = Sum(G, T) /\ Sum(G, T) \in Int
  BY <1>1, <1>2, <1>3, SumZero, SumSame, SumInt
<1>6. Sum(G, S) = Sum(G, T \cup R)
  BY <1>1
<1> QED
  BY <1>4, <1>5, <1>6

LEMMA SumNatural ==
    ASSUME NEW S, IsFiniteSet(S), NEW F, \A x \in S : F[x] \in Nat
    PROVE  Sum(F, S) \in Nat
<1> DEFINE Bad == {s \in SUBSET S : Sum(F, s) \notin Nat}
<1> SUFFICES ASSUME S \in Bad PROVE FALSE
  OBVIOUS
<1>1. PICK s \in Bad : \A t \in Bad : t \subseteq s => t = s
  <2>1. Bad \in SUBSET (SUBSET S)
    OBVIOUS
  <2> HIDE DEF Bad
  <2> QED
    BY <2>1, LeastSet
<1>2. s \in SUBSET S /\ Sum(F, s) \notin Nat /\ IsFiniteSet(s)
  BY FS_Subset
<1>3. s # {}
  <2>1. Sum(F, {}) = 0
    BY SumEmpty
  <2> QED
    BY <1>2, <2>1
<1>4. PICK x \in s : Sum(F, s) = F[x] + Sum(F, s \ {x})
  BY <1>2, <1>3, SumStep
<1>5. Sum(F, s \ {x}) \in Nat /\ F[x] \in Nat
  BY <1>1, <1>2, <1>4
<1> QED
  BY <1>2, <1>4, <1>5

\* GROUP BY: a sum is the sum of the sums of its classes.
Class(S, c, a) == {x \in S : c[x] = a}
ClassSums(F, S, c, A) == [a \in A |-> Sum(F, Class(S, c, a))]
LEMMA SumByClass ==
    ASSUME NEW S, IsFiniteSet(S), NEW A, IsFiniteSet(A), NEW F, NEW c,
           \A x \in S : F[x] \in Int /\ c[x] \in A
    PROVE  Sum(F, S) = Sum(ClassSums(F, S, c, A), A)
<1> DEFINE Bad == {s \in SUBSET S : Sum(F, s) # Sum(ClassSums(F, s, c, A), A)}
<1> SUFFICES ASSUME S \in Bad PROVE FALSE
  OBVIOUS
<1>1. PICK s \in Bad : \A t \in Bad : t \subseteq s => t = s
  <2>1. Bad \in SUBSET (SUBSET S)
    OBVIOUS
  <2> HIDE DEF Bad
  <2> QED
    BY <2>1, LeastSet
<1>2. s \in SUBSET S /\ Sum(F, s) # Sum(ClassSums(F, s, c, A), A) /\ IsFiniteSet(s)
  BY FS_Subset
<1>3. s # {}
  <2> SUFFICES ASSUME s = {} PROVE FALSE
    OBVIOUS
  <2>1. Sum(F, {}) = 0
    BY SumEmpty
  <2>2. \A a \in A : Class({}, c, a) = {}
    BY DEF Class
  <2>3. \A a \in A : ClassSums(F, {}, c, A)[a] = 0
    BY <2>1, <2>2 DEF ClassSums
  <2>4. Sum(ClassSums(F, {}, c, A), A) = 0
    BY <2>3, SumZero
  <2> QED
    BY <1>2, <2>1, <2>4
<1>4. PICK x \in s : TRUE
  BY <1>3
<1> DEFINE t == s \ {x}
<1>5. t \in SUBSET S /\ t # s /\ t \subseteq s /\ t \cup {x} = s /\ x \notin t /\ IsFiniteSet(t)
  BY <1>2, <1>4, FS_Subset
<1> HIDE DEF t
<1>6. Sum(F, t) = Sum(ClassSums(F, t, c, A), A)
  BY <1>1, <1>5
<1> HIDE DEF Bad
<1>7. F[x] \in Int /\ c[x] \in A /\ \A y \in t : F[y] \in Int
  BY <1>2, <1>4, <1>5
<1>8. Sum(F, s) = F[x] + Sum(F, t)
  <2>1. Sum(F, t \cup {x}) = F[x] + Sum(F, t)
    BY <1>5, <1>7, SumAdd
  <2> QED
    BY <1>5, <2>1
<1>9. \A a \in A : IsFiniteSet(Class(t, c, a)) /\ \A y \in Class(t, c, a) : F[y] \in Int
  <2> SUFFICES ASSUME NEW a \in A PROVE IsFiniteSet(Class(t, c, a)) /\ \A y \in Class(t, c, a) : F[y] \in Int
    OBVIOUS
  <2>1. Class(t, c, a) \subseteq t
    BY DEF Class
  <2> QED
    BY <1>5, <1>7, <2>1, FS_Subset
<1>10. \A a \in A : ClassSums(F, t, c, A)[a] \in Int
  BY <1>9, SumInt DEF ClassSums
<1>11. ClassSums(F, s, c, A)[c[x]] = F[x] + ClassSums(F, t, c, A)[c[x]]
  <2>1. Class(s, c, c[x]) = Class(t, c, c[x]) \cup {x} /\ x \notin Class(t, c, c[x])
    BY <1>5 DEF Class
  <2>2. Sum(F, Class(t, c, c[x]) \cup {x}) = F[x] + Sum(F, Class(t, c, c[x]))
    BY <1>7, <1>9, <2>1, SumAdd
  <2> QED
    BY <1>7, <2>1, <2>2 DEF ClassSums
<1>12. \A a \in A \ {c[x]} : ClassSums(F, s, c, A)[a] = ClassSums(F, t, c, A)[a]
  <2> SUFFICES ASSUME NEW a \in A \ {c[x]} PROVE Class(s, c, a) = Class(t, c, a)
    BY DEF ClassSums
  <2> QED
    BY <1>5 DEF Class
<1>13. Sum(ClassSums(F, s, c, A), A) = F[x] + Sum(ClassSums(F, t, c, A), A)
  BY <1>7, <1>10, <1>11, <1>12, SumShift
<1> QED
  BY <1>2, <1>6, <1>8, <1>13

\* The least number of a set, by the sets 1..n.
LEMMA LeastIn ==
    ASSUME NEW k \in Nat, NEW B \in SUBSET (1..k), NEW x \in B
    PROVE  \E m \in B : \A j \in B : m <= j
<1> DEFINE T == {1..j : j \in B}
<1>1. IsFiniteSet(1..k)
  BY FS_Interval
<1>2. T \in SUBSET (SUBSET (1..k)) /\ 1..x \in T
  OBVIOUS
<1>3. PICK s \in T : \A t \in T : t \subseteq s => t = s
  <2> HIDE DEF T
  <2>1. PICK U, y : IsFiniteSet(U) /\ T \in SUBSET (SUBSET U) /\ y \in T
    BY <1>1, <1>2
  <2> QED
    BY <2>1, LeastSet
<1>4. PICK m \in B : s = 1..m
  OBVIOUS
<1>5. ASSUME NEW j \in B, j < m PROVE FALSE
  <2>1. 1..j \in T /\ 1..j \subseteq s
    BY <1>4, <1>5
  <2>2. 1..j = 1..m
    BY <1>3, <1>4, <2>1
  <2>3. m \in 1..m /\ m \notin 1..j
    BY <1>5
  <2> QED
    BY <2>2, <2>3
<1> QED
  BY <1>5

\* A figure that is carried from month to month: the recursion has a solution.
Walks(w, l, m, s, G) == w \in [l..m -> Int] /\ \A n \in l..m : w[n] = IF n = l THEN s ELSE G[<<n, w[n - 1]>>]
LEMMA WalkExists ==
    ASSUME NEW k \in Nat, NEW l \in 1..k, NEW s \in Int, NEW G \in [(1..k) \X Int -> Int]
    PROVE  \E w : Walks(w, l, k, s, G)
<1> DEFINE Bad == {m \in 1..k : m >= l /\ ~\E w : Walks(w, l, m, s, G)}
<1> SUFFICES ASSUME k \in Bad PROVE FALSE
  OBVIOUS
<1>1. PICK m \in Bad : \A j \in Bad : m <= j
  <2>1. Bad \in SUBSET (1..k)
    OBVIOUS
  <2> HIDE DEF Bad
  <2> QED
    BY <2>1, LeastIn
<1>2. m \in 1..k /\ m >= l /\ ~\E w : Walks(w, l, m, s, G)
  OBVIOUS
<1>3. CASE m = l
  <2>1. Walks([n \in l..l |-> s], l, l, s, G)
    BY DEF Walks
  <2> QED
    BY <1>2, <1>3, <2>1
<1>4. CASE m # l
  <2>1. m - 1 \in 1..k /\ m - 1 >= l /\ m - 1 \notin Bad
    BY <1>1, <1>2, <1>4
  <2>2. PICK w : Walks(w, l, m - 1, s, G)
    BY <2>1
  <2> DEFINE v == [n \in l..m |-> IF n = m THEN G[<<m, w[m - 1]>>] ELSE w[n]]
  <2>3. w[m - 1] \in Int /\ G[<<m, w[m - 1]>>] \in Int
    BY <1>2, <2>1, <2>2 DEF Walks
  <2>4. v \in [l..m -> Int]
    BY <1>2, <2>2, <2>3 DEF Walks
  <2>5. ASSUME NEW n \in l..m PROVE v[n] = IF n = l THEN s ELSE G[<<n, v[n - 1]>>]
    <3>1. CASE n = m
      <4>1. v[m - 1] = w[m - 1]
        BY <1>2, <2>1
      <4> QED
        BY <1>2, <1>4, <3>1, <4>1
    <3>2. CASE n # m
      <4>1. n \in l..m - 1 /\ (n # l => n - 1 \in l..m - 1)
        BY <1>2, <3>2
      <4>2. v[n] = w[n] /\ (n # l => v[n - 1] = w[n - 1])
        BY <1>2, <4>1
      <4> QED
        BY <2>2, <4>1, <4>2 DEF Walks
    <3> QED
      BY <3>1, <3>2
  <2>6. Walks(v, l, m, s, G)
    BY <2>4, <2>5 DEF Walks
  <2> HIDE DEF v
  <2> QED
    BY <1>2, <2>6
<1> QED
  BY <1>3, <1>4

----------------------------------------------------------------------------
(* The balance of an account in a table of transactions. *)

Row == [state : States, kind : Kinds, amount : Nat \ {0},
        account : Accounts \cup {None}, dest : Accounts \cup {None}, refund : Ids \cup {None},
        tagged : BOOLEAN, later : BOOLEAN]
Booked(t) == {i \in Ids : t[i].state = "live" /\ ~t[i].later}
Touching(t, a) == {i \in Booked(t) : t[i].account = a \/ (t[i].kind = "transfer" /\ t[i].dest = a)}
Signed(t, a) == [i \in Ids |-> IF t[i].account = a THEN Sign(t[i]) ELSE t[i].amount]
BalanceOf(t, a) == Sum(Signed(t, a), Touching(t, a))

LEMMA BookedFinite ==
    ASSUME NEW t
    PROVE  IsFiniteSet(Booked(t)) /\ \A a : IsFiniteSet(Touching(t, a))
<1>1. IsFiniteSet(Ids)
  BY BooksAssumption
<1>2. IsFiniteSet(Booked(t))
  BY <1>1, FS_Subset DEF Booked
<1>3. ASSUME NEW a PROVE IsFiniteSet(Touching(t, a))
  <2>1. Touching(t, a) \subseteq Booked(t)
    BY DEF Touching
  <2> QED
    BY <1>2, <2>1, FS_Subset
<1> QED
  BY <1>2, <1>3

\* account_balance_as_of adds these values over these rows.
LEMMA BalanceIs == \A a \in Accounts : Balance(a) = BalanceOf(txs, a)
BY DEF Balance, BalanceOf, Signed, Touching, Booked, Counted, LiveRows

LEMMA BalanceNext == \A a \in Accounts : Balance(a)' = BalanceOf(txs', a)
<1>1. (\A a \in Accounts : Balance(a) = BalanceOf(txs, a))'
  BY BalanceIs, PTL
<1> QED
  BY <1>1

\* A value of the sums.
LEMMA RowValues ==
    ASSUME NEW r \in Row
    PROVE  r.amount \in Nat \ {0} /\ Sign(r) \in Int /\ (Sign(r) = r.amount \/ Sign(r) = -r.amount)
BY DEF Row, Sign

LEMMA SignedIsInt ==
    ASSUME NEW t \in [Ids -> Row], NEW a, NEW i \in Ids
    PROVE  Signed(t, a)[i] \in Int
<1>1. t[i] \in Row
  OBVIOUS
<1>2. t[i].amount \in Int /\ Sign(t[i]) \in Int
  BY <1>1, RowValues
<1> QED
  BY <1>2 DEF Signed

LEMMA BalanceIsInt ==
    ASSUME NEW t \in [Ids -> Row], NEW a
    PROVE  BalanceOf(t, a) \in Int
<1>1. \A i \in Touching(t, a) : Signed(t, a)[i] \in Int
  BY SignedIsInt DEF Touching, Booked
<1> QED
  BY <1>1, BookedFinite, SumInt DEF BalanceOf

\* An account no row names holds nothing.
LEMMA UntouchedIsEmpty ==
    ASSUME NEW t, NEW a,
           \A i \in Ids : t[i].state = "live" => /\ t[i].account # a
                                                 /\ t[i].kind = "transfer" => t[i].dest # a
    PROVE  BalanceOf(t, a) = 0
<1>1. Touching(t, a) = {}
  BY DEF Touching, Booked
<1> QED
  BY <1>1, SumEmpty DEF BalanceOf

\* A new row moves the balance of its account by its sign and amount.
LEMMA NewRowMoves ==
    ASSUME NEW t \in [Ids -> Row], NEW i \in Ids, t[i].state = "absent",
           NEW r \in Row, r.state = "live", ~r.later, NEW u, u = [t EXCEPT ![i] = r]
    PROVE  BalanceOf(u, r.account) = Sign(r) + BalanceOf(t, r.account)
<1> DEFINE a == r.account
           S == Touching(t, a)
<1>1. u \in [Ids -> Row] /\ u[i] = r /\ \A j \in Ids \ {i} : u[j] = t[j]
  OBVIOUS
<1>2. i \notin S /\ S \subseteq Ids /\ Touching(u, a) = S \cup {i}
  BY <1>1 DEF Touching, Booked
<1>3. \A j \in S : Signed(u, a)[j] = Signed(t, a)[j]
  BY <1>1, <1>2 DEF Signed
<1>4. \A j \in S : Signed(u, a)[j] \in Int
  BY <1>1, <1>2, SignedIsInt
<1>5. Signed(u, a)[i] = Sign(r) /\ Signed(u, a)[i] \in Int
  BY <1>1, SignedIsInt DEF Signed
<1>6. IsFiniteSet(S)
  BY BookedFinite
<1> HIDE DEF S, a
<1>7. Sum(Signed(u, a), S \cup {i}) = Signed(u, a)[i] + Sum(Signed(u, a), S)
  BY <1>2, <1>4, <1>5, <1>6, SumAdd
<1>8. Sum(Signed(u, a), S) = Sum(Signed(t, a), S)
  BY <1>3, <1>6, SumSame
<1>9. BalanceOf(u, a) = Sign(r) + BalanceOf(t, a)
  BY <1>2, <1>5, <1>7, <1>8 DEF BalanceOf, S
<1> QED
  BY <1>9 DEF a

\* A new row whose day has not come moves no balance.
LEMMA LaterRowRests ==
    ASSUME NEW t \in [Ids -> Row], NEW i \in Ids, t[i].state = "absent",
           NEW r \in Row, r.later, NEW u, u = [t EXCEPT ![i] = r], NEW a
    PROVE  BalanceOf(u, a) = BalanceOf(t, a)
<1>1. u[i] = r /\ \A j \in Ids \ {i} : u[j] = t[j]
  OBVIOUS
<1>2. Touching(u, a) = Touching(t, a) /\ i \notin Touching(t, a) /\ Touching(t, a) \subseteq Ids
  BY <1>1 DEF Touching, Booked
<1>3. \A j \in Touching(t, a) : Signed(u, a)[j] = Signed(t, a)[j]
  BY <1>1, <1>2 DEF Signed
<1>4. IsFiniteSet(Touching(t, a))
  BY BookedFinite
<1> DEFINE S == Touching(t, a)
<1> HIDE DEF S
<1>5. Sum(Signed(u, a), S) = Sum(Signed(t, a), S)
  BY <1>3, <1>4, SumSame DEF S
<1> QED
  BY <1>2, <1>5 DEF BalanceOf, S

----------------------------------------------------------------------------
(* The invariant: types, what the schema asks of a row, what was stated. *)

Account == [state : States, class : Classes, cur : Currencies]
Goal == [state : States, account : Accounts \cup {None}, active : BOOLEAN]
Told == [account : Accounts \cup {None}, balance : Int, overdrawn : BOOLEAN]
Typed ==
    /\ accounts \in [Accounts -> Account]
    /\ txs \in [Ids -> Row]
    /\ goals \in [Goals -> Goal]
    /\ stated \in Told

Stands(r) == r.state # "absent" /\ Legal(r)
RowsInv == \A i \in Ids : txs[i] = NoRow \/ Stands(txs[i])
GoalsInv == \A g \in Goals : goals[g] # NoGoal => Known(goals[g].account)
Reached == IF stated.overdrawn THEN -stated.balance ELSE stated.balance
Settled == stated.account # None => BalanceOf(txs, stated.account) = Reached

LedgerInv == Typed /\ RowsInv /\ GoalsInv /\ Settled

LEMMA Blanks ==
    /\ NoRow \in Row /\ NoGoal \in Goal /\ NoAccount \in Account
    /\ NothingStated \in Told
    /\ NothingStated.account = None /\ NoRow.state = "absent" /\ NoAccount.state = "absent"
    /\ None \notin Accounts
<1>1. (CHOOSE c \in Currencies : TRUE) \in Currencies
  BY LedgerAssumption
<1>2. NoRow \in Row
  BY DEF NoRow, Row, Kinds, States
<1>3. NoAccount \in Account
  BY <1>1 DEF NoAccount, Account, States, Classes
<1> QED
  BY <1>2, <1>3, LedgerAssumption DEF NoRow, NoAccount, NoGoal, Goal, States, NothingStated, StatedAs, Told

\* A balance that is told plainly is the one to be reached.
LEMMA ToldPlainly ==
    ASSUME NEW a \in Accounts, NEW n \in Int
    PROVE  /\ StatedAs(a, n) \in Told /\ StatedAs(a, n).account = a
           /\ StatedAs(a, n).balance = n /\ ~StatedAs(a, n).overdrawn
BY DEF StatedAs, Told

\* A field that is written keeps its set, and the others their values.
LEMMA FieldWritten ==
    ASSUME NEW r \in Row
    PROVE  /\ \A v \in States : [r EXCEPT !.state = v] \in Row
           /\ \A v \in Kinds : [r EXCEPT !.kind = v] \in Row
           /\ \A v \in Nat \ {0} : [r EXCEPT !.amount = v] \in Row
           /\ \A v \in Accounts \cup {None} : /\ [r EXCEPT !.account = v] \in Row
                                              /\ [r EXCEPT !.dest = v] \in Row
           /\ \A v \in Ids \cup {None} : [r EXCEPT !.refund = v] \in Row
           /\ \A v \in BOOLEAN : [r EXCEPT !.tagged = v] \in Row /\ [r EXCEPT !.later = v] \in Row
BY DEF Row, States

\* Rows that are entered, and what is made of them.
LEMMA NewIsRow ==
    ASSUME NEW k \in Kinds, NEW n \in Nat \ {0}, NEW a \in Accounts
    PROVE  /\ New(k, n, a) \in Row /\ New(k, n, a).state = "live"
           /\ New(k, n, a).kind = k /\ New(k, n, a).amount = n /\ New(k, n, a).account = a
           /\ New(k, n, a).dest = None /\ New(k, n, a).refund = None /\ ~New(k, n, a).later
<1>1. New(k, n, a) \in Row
  <2>1. [NoRow EXCEPT !.state = "live"] \in Row
    BY Blanks, FieldWritten DEF States
  <2>2. [[NoRow EXCEPT !.state = "live"] EXCEPT !.kind = k] \in Row
    BY <2>1, FieldWritten
  <2>3. [[[NoRow EXCEPT !.state = "live"] EXCEPT !.kind = k] EXCEPT !.amount = n] \in Row
    BY <2>2, FieldWritten
  <2>4. [[[[NoRow EXCEPT !.state = "live"] EXCEPT !.kind = k] EXCEPT !.amount = n] EXCEPT !.account = a] \in Row
    BY <2>3, FieldWritten
  <2> QED
    BY <2>4 DEF New
<1>2. NoRow \in Row
  BY Blanks
<1>3. /\ New(k, n, a).state = "live" /\ New(k, n, a).kind = k /\ New(k, n, a).amount = n
      /\ New(k, n, a).account = a
      /\ New(k, n, a).dest = NoRow.dest /\ New(k, n, a).refund = NoRow.refund
      /\ New(k, n, a).later = NoRow.later
  BY <1>2 DEF New, Row
<1> QED
  BY <1>1, <1>3 DEF NoRow

LEMMA EnteredIsRow ==
    ASSUME NEW r \in Entered
    PROVE  r \in Row /\ r.state = "live" /\ r.account \in Accounts
<1>1. \E k \in Kinds, n \in Amounts, a \in Accounts, d \in Accounts \cup {None},
         f \in Ids \cup {None}, l \in BOOLEAN : r = Entry(k, n, a, d, f, l)
  BY DEF Entered
<1>2. PICK k \in Kinds, n \in Amounts, a \in Accounts, d \in Accounts \cup {None},
           f \in Ids \cup {None}, l \in BOOLEAN :
           r = Entry(k, n, a, d, f, l)
  BY <1>1
<1>3. New(k, n, a) \in Row /\ New(k, n, a).state = "live" /\ New(k, n, a).account = a
  BY NewIsRow, BooksAssumption
<1> DEFINE q == New(k, n, a)
<1> HIDE DEF q
<1>4. q \in Row /\ r = [q EXCEPT !.dest = d, !.refund = f, !.later = l]
  BY <1>2, <1>3 DEF q, Entry
<1>5. r \in Row
  <2>1. [q EXCEPT !.dest = d] \in Row
    BY <1>4, FieldWritten
  <2>2. [[q EXCEPT !.dest = d] EXCEPT !.refund = f] \in Row
    BY <2>1, FieldWritten
  <2>3. [[[q EXCEPT !.dest = d] EXCEPT !.refund = f] EXCEPT !.later = l] \in Row
    BY <2>2, FieldWritten
  <2> QED
    BY <1>4, <2>3
<1>6. r.state = q.state /\ r.account = q.account
  BY <1>4 DEF Row
<1> QED
  BY <1>3, <1>5, <1>6 DEF q

LEMMA StoredIsRow ==
    ASSUME NEW r \in Row
    PROVE  Stored(r) \in Row /\ Stored(r).state = r.state
<1>1. CASE r.kind = "transfer"
  <2>1. [r EXCEPT !.tagged = FALSE] \in Row
    BY FieldWritten
  <2>2. [[r EXCEPT !.tagged = FALSE] EXCEPT !.refund = None] \in Row
    BY <2>1, FieldWritten
  <2>3. Stored(r) = [r EXCEPT !.tagged = FALSE, !.refund = None]
    BY <1>1 DEF Stored
  <2> QED
    BY <2>2, <2>3 DEF Row
<1>2. CASE r.kind # "transfer"
  <2>1. Stored(r) = [r EXCEPT !.dest = None]
    BY <1>2 DEF Stored
  <2> QED
    BY <2>1, FieldWritten DEF Row
<1> QED
  BY <1>1, <1>2

LEMMA ConvertedIsRow ==
    ASSUME NEW r \in Row, NEW k \in Kinds, NEW d \in Accounts \cup {None}
    PROVE  Converted(r, k, d) \in Row /\ Converted(r, k, d).state = r.state
<1> DEFINE e == IF d = None THEN r.dest ELSE d
<1>1. e \in Accounts \cup {None}
  BY DEF Row
<1>2. Converted(r, k, d) \in {[r EXCEPT !.dest = e], [r EXCEPT !.kind = k, !.refund = None, !.dest = e],
                              [r EXCEPT !.kind = k, !.dest = None], [r EXCEPT !.kind = k, !.dest = e]}
  BY DEF Converted, Row
<1> HIDE DEF e
<1>3. [r EXCEPT !.dest = e] \in Row /\ [r EXCEPT !.kind = k] \in Row
  BY <1>1, FieldWritten
<1>4. [[r EXCEPT !.kind = k] EXCEPT !.refund = None] \in Row
  BY <1>3, FieldWritten
<1>5. /\ [[r EXCEPT !.kind = k] EXCEPT !.dest = None] \in Row
      /\ [[r EXCEPT !.kind = k] EXCEPT !.dest = e] \in Row
  BY <1>1, <1>3, FieldWritten
<1>6. [[[r EXCEPT !.kind = k] EXCEPT !.refund = None] EXCEPT !.dest = e] \in Row
  BY <1>1, <1>4, FieldWritten
<1>7. /\ [r EXCEPT !.dest = e].state = r.state
      /\ [r EXCEPT !.kind = k, !.refund = None, !.dest = e].state = r.state
      /\ [r EXCEPT !.kind = k, !.dest = None].state = r.state
      /\ [r EXCEPT !.kind = k, !.dest = e].state = r.state
  BY DEF Row
<1> QED
  BY <1>2, <1>3, <1>5, <1>6, <1>7

LEMMA FreshIsUnused ==
    ASSUME NEW but, NEW i \in FreshIds(but)
    PROVE  i \in Ids \ but /\ txs[i].state = "absent"
<1>1. Unused(but) # {} /\ i = CHOOSE j \in Unused(but) : TRUE
  BY DEF FreshIds
<1>2. i \in Unused(but)
  BY <1>1
<1> QED
  BY <1>2 DEF Unused

LEMMA RowIsStanding ==
    ASSUME Typed, RowsInv, NEW i \in Ids, txs[i].state # "absent"
    PROVE  txs[i] \in Row /\ Stands(txs[i])
BY Blanks DEF Typed, RowsInv

\* The schema asks of five fields only.
LEMMA LegalIgnores ==
    ASSUME NEW r, NEW q, Legal(r), q.account = r.account, q.kind = r.kind, q.dest = r.dest,
           q.refund = r.refund, q.tagged = r.tagged
    PROVE  Legal(q)
BY DEF Legal

LEMMA LegalKept ==
    ASSUME NEW r, Legal(r), \A a \in Accounts : Known(a) => Known(a)'
    PROVE  Legal(r)'
<1>1. \A a : Known(a) => Known(a)'
  BY DEF Known
<1> QED
  BY <1>1 DEF Legal

\* What all commands on rows have in common: the rows they write are legal.
Sound == Typed /\ RowsInv /\ GoalsInv
LEMMA RowsRewritten ==
    ASSUME Sound, NEW to \in [Ids -> Row], txs' = to, OnlyRows,
           \A i \in Ids : \/ to[i] = txs[i] \/ to[i] = NoRow
                          \/ to[i].state # "absent" /\ Legal(to[i]),
           stated' \in Told
    PROVE  Sound'
<1>1. accounts' = accounts /\ goals' = goals
  BY DEF OnlyRows
<1>2. \A a : Known(a)' <=> Known(a)
  BY <1>1 DEF Known
<1>3. Typed'
  BY <1>1 DEF Sound, Typed
<1>4. RowsInv'
  <2> SUFFICES ASSUME NEW i \in Ids PROVE to[i] = NoRow \/ (to[i].state # "absent" /\ Legal(to[i])')
    BY DEF RowsInv, Stands
  <2>1. to[i] = NoRow \/ (to[i].state # "absent" /\ Legal(to[i]))
    BY DEF Sound, RowsInv, Stands
  <2>2. \A a \in Accounts : Known(a) => Known(a)'
    BY <1>2
  <2>3. Legal(to[i]) => Legal(to[i])'
    BY <2>2, LegalKept
  <2> QED
    BY <2>1, <2>3
<1>5. GoalsInv'
  BY <1>1, <1>2 DEF Sound, GoalsInv
<1> QED
  BY <1>3, <1>4, <1>5 DEF Sound

LEMMA RowWritten ==
    ASSUME Sound, NEW i \in Ids, NEW r \in Row, r.state # "absent", Insert(i, r), OnlyRows,
           stated' \in Told
    PROVE  Sound'
<1> DEFINE to == [txs EXCEPT ![i] = r]
<1>1. txs \in [Ids -> Row]
  BY DEF Sound, Typed
<1>2. to \in [Ids -> Row] /\ to[i] = r /\ \A j \in Ids \ {i} : to[j] = txs[j]
  BY <1>1
<1>3. txs' = to /\ Legal(r)
  BY DEF Insert
<1> HIDE DEF to
<1> QED
  BY <1>2, <1>3, RowsRewritten

LEMMA Quiet ==
    ASSUME Unstated
    PROVE  stated' \in Told /\ Settled'
BY Blanks DEF Unstated, Settled

LEMMA InitInv == Init => LedgerInv
<1> SUFFICES ASSUME Init PROVE LedgerInv
  OBVIOUS
<1>1. PICK state \in {"absent", "live"} : accounts = [a \in Accounts |-> [NoAccount EXCEPT !.state = state]]
  BY DEF Init
<1>2. accounts \in [Accounts -> Account]
  <2>1. [NoAccount EXCEPT !.state = state] \in Account
    BY Blanks DEF Account, States
  <2> QED
    BY <1>1, <2>1
<1>3. txs \in [Ids -> Row] /\ goals \in [Goals -> Goal] /\ RowsInv /\ GoalsInv
  BY Blanks DEF Init, RowsInv, GoalsInv
<1>4. stated \in Told /\ Settled
  BY Blanks DEF Init, Settled
<1> QED
  BY <1>2, <1>3, <1>4 DEF LedgerInv, Typed

----------------------------------------------------------------------------
(* Every command keeps the invariant. *)

LEMMA CreateTransactionKeeps ==
    ASSUME LedgerInv, NEW r \in Sensible, CreateTransaction(r)
    PROVE  LedgerInv'
<1>1. PICK i \in FreshIds({}) : Insert(i, Stored(r))
  BY DEF CreateTransaction
<1>2. r \in Row /\ r.state = "live"
  BY EnteredIsRow DEF Sensible
<1>3. Stored(r) \in Row /\ Stored(r).state # "absent"
  BY <1>2, StoredIsRow
<1>4. i \in Ids
  BY FreshIsUnused
<1> QED
  BY <1>1, <1>3, <1>4, Quiet, RowWritten DEF LedgerInv, Sound, CreateTransaction

LEMMA DuplicateKeeps ==
    ASSUME LedgerInv, NEW j \in Ids, Duplicate(j)
    PROVE  LedgerInv'
<1> DEFINE r == [txs[j] EXCEPT !.refund = None, !.later = FALSE]
<1>1. PICK i \in FreshIds({}) : Insert(i, Stored(r))
  BY DEF Duplicate
<1>2. txs[j] \in Row /\ txs[j].state = "live"
  BY DEF LedgerInv, Typed, Duplicate, LiveRows
<1>3. r \in Row /\ r.state = "live"
  <2>1. [txs[j] EXCEPT !.refund = None] \in Row
    BY <1>2, FieldWritten
  <2>2. [[txs[j] EXCEPT !.refund = None] EXCEPT !.later = FALSE] \in Row
    BY <2>1, FieldWritten
  <2> QED
    BY <1>2, <2>2 DEF Row
<1> HIDE DEF r
<1>4. Stored(r) \in Row /\ Stored(r).state # "absent"
  BY <1>3, StoredIsRow
<1>5. i \in Ids
  BY FreshIsUnused
<1> QED
  BY <1>1, <1>4, <1>5, Quiet, RowWritten DEF LedgerInv, Sound, Duplicate

LEMMA ImportKeeps ==
    ASSUME LedgerInv, NEW r \in Plain, NEW s \in Plain, Import(r, s)
    PROVE  LedgerInv'
<1>0. PICK i \in FreshIds({}) : \E j \in FreshIds({i}) : txs' = [txs EXCEPT ![i] = r, ![j] = s]
  BY DEF Import
<1>1. PICK j \in FreshIds({i}) : txs' = [txs EXCEPT ![i] = r, ![j] = s]
  BY <1>0
<1>2. i \in Ids /\ j \in Ids
  BY FreshIsUnused
<1>3. r \in Row /\ r.state = "live" /\ s \in Row /\ s.state = "live"
  BY EnteredIsRow DEF Plain
<1>4. Legal(r) /\ Legal(s)
  <2>1. /\ r.dest = None /\ r.refund = None /\ r.kind # "transfer" /\ Live(r.account)
        /\ s.dest = None /\ s.refund = None /\ s.kind # "transfer" /\ Live(s.account)
    BY DEF Import, Plain
  <2> QED
    BY <2>1 DEF Legal, Live, Known
<1> DEFINE to == [txs EXCEPT ![i] = r, ![j] = s]
<1>5. txs \in [Ids -> Row]
  BY DEF LedgerInv, Typed
<1>6. to \in [Ids -> Row] /\ \A k \in Ids : to[k] \in {txs[k], r, s}
  BY <1>2, <1>3, <1>5
<1>7. \A k \in Ids : to[k] = txs[k] \/ (to[k].state # "absent" /\ Legal(to[k]))
  BY <1>3, <1>4, <1>6
<1>8. txs' = to
  BY <1>1
<1> HIDE DEF to
<1> QED
  BY <1>6, <1>7, <1>8, Quiet, RowsRewritten DEF LedgerInv, Sound, Import

LEMMA UpdateKeeps ==
    ASSUME LedgerInv, NEW i \in Ids, NEW k \in Kinds, NEW d \in Accounts \cup {None}, NEW n \in Amounts,
           NEW t \in BOOLEAN, NEW l \in BOOLEAN, Update(i, k, d, n, t, l)
    PROVE  LedgerInv'
<1> DEFINE c == Converted(txs[i], k, d)
           to == [c EXCEPT !.amount = n, !.tagged = t, !.later = l]
<1>1. txs[i] \in Row /\ txs[i].state = "live"
  BY DEF LedgerInv, Typed, Update, LiveRows
<1>2. c \in Row /\ c.state = "live"
  BY <1>1, ConvertedIsRow
<1>3. Insert(i, to) /\ Unstated /\ OnlyRows
  BY DEF Update
<1> HIDE DEF c
<1>4. to \in Row /\ to.state # "absent"
  <2>1. n \in Nat \ {0}
    BY BooksAssumption
  <2>2. [c EXCEPT !.amount = n] \in Row
    BY <1>2, <2>1, FieldWritten
  <2>3. [[c EXCEPT !.amount = n] EXCEPT !.tagged = t] \in Row
    BY <2>2, FieldWritten
  <2>4. [[[c EXCEPT !.amount = n] EXCEPT !.tagged = t] EXCEPT !.later = l] \in Row
    BY <2>3, FieldWritten
  <2> QED
    BY <1>2, <2>4 DEF Row
<1> HIDE DEF to
<1> QED
  BY <1>3, <1>4, Quiet, RowWritten DEF LedgerInv, Sound

LEMMA RestateKeeps ==
    ASSUME LedgerInv, NEW ids \in SUBSET Ids, NEW state \in {"live", "deleted"}, Restate(ids, state),
           \A i \in ids : txs[i].state # "absent", Unstated, OnlyRows
    PROVE  LedgerInv'
<1> DEFINE to == [i \in Ids |-> IF i \in ids THEN [txs[i] EXCEPT !.state = state] ELSE txs[i]]
<1>1. txs \in [Ids -> Row]
  BY DEF LedgerInv, Typed
<1>2. ASSUME NEW i \in ids
      PROVE  LET q == [txs[i] EXCEPT !.state = state] IN q \in Row /\ q.state # "absent" /\ Legal(q)
  <2> DEFINE q == [txs[i] EXCEPT !.state = state]
  <2>1. txs[i] \in Row /\ Legal(txs[i])
    BY RowIsStanding DEF LedgerInv, Stands
  <2>2. /\ q \in Row /\ q.state = state /\ q.account = txs[i].account /\ q.kind = txs[i].kind
        /\ q.dest = txs[i].dest /\ q.refund = txs[i].refund /\ q.tagged = txs[i].tagged
    BY <2>1, FieldWritten DEF Row, States
  <2> HIDE DEF q
  <2>3. Legal(q)
    BY <2>1, <2>2, LegalIgnores
  <2> QED
    BY <2>2, <2>3 DEF q
<1>3. to \in [Ids -> Row]
  BY <1>1, <1>2
<1>4. \A i \in Ids : to[i] = txs[i] \/ (to[i].state # "absent" /\ Legal(to[i]))
  BY <1>2
<1>5. txs' = to
  BY DEF Restate
<1> HIDE DEF to
<1> QED
  BY <1>3, <1>4, <1>5, Quiet, RowsRewritten DEF LedgerInv, Sound

LEMMA DeleteRowsKeeps ==
    ASSUME LedgerInv, NEW ids \in SUBSET Ids, DeleteRows(ids)
    PROVE  LedgerInv'
<1>1. \A i \in ids : txs[i].state # "absent"
  BY DEF DeleteRows, LiveRows
<1> QED
  BY <1>1, RestateKeeps DEF DeleteRows

LEMMA RestoreRowKeeps ==
    ASSUME LedgerInv, NEW i \in Ids, RestoreRow(i)
    PROVE  LedgerInv'
<1>1. {i} \in SUBSET Ids /\ \A j \in {i} : txs[j].state # "absent"
  BY DEF RestoreRow
<1> QED
  BY <1>1, RestateKeeps DEF RestoreRow

LEMMA EditManyKeeps ==
    ASSUME LedgerInv, NEW ids \in SUBSET Ids, NEW new \in [ids -> Row], EditMany(ids, new),
           \A i \in ids : new[i].state = txs[i].state
    PROVE  LedgerInv'
<1> DEFINE to == [i \in Ids |-> IF i \in ids THEN new[i] ELSE txs[i]]
<1>1. txs \in [Ids -> Row]
  BY DEF LedgerInv, Typed
<1>2. to \in [Ids -> Row]
  BY <1>1
<1>3. \A i \in Ids : to[i] = txs[i] \/ (to[i].state # "absent" /\ Legal(to[i]))
  BY DEF EditMany, LiveRows
<1>4. txs' = to /\ Unstated /\ OnlyRows
  BY DEF EditMany
<1> HIDE DEF to
<1> QED
  BY <1>2, <1>3, <1>4, Quiet, RowsRewritten DEF LedgerInv, Sound

LEMMA SetTagManyKeeps ==
    ASSUME LedgerInv, NEW ids \in SUBSET Ids, NEW t \in BOOLEAN, SetTagMany(ids, t)
    PROVE  LedgerInv'
<1> DEFINE new == [i \in ids |-> [txs[i] EXCEPT !.tagged = t]]
<1>1. txs \in [Ids -> Row]
  BY DEF LedgerInv, Typed
<1>2. \A i \in ids : [txs[i] EXCEPT !.tagged = t] \in Row /\ [txs[i] EXCEPT !.tagged = t].state = txs[i].state
  BY <1>1, FieldWritten DEF Row
<1>3. new \in [ids -> Row] /\ \A i \in ids : new[i].state = txs[i].state
  BY <1>2
<1>4. EditMany(ids, new)
  BY DEF SetTagMany
<1> HIDE DEF new
<1> QED
  BY <1>3, <1>4, EditManyKeeps

LEMMA SetAccountManyKeeps ==
    ASSUME LedgerInv, NEW ids \in SUBSET Ids, NEW a \in Accounts, SetAccountMany(ids, a)
    PROVE  LedgerInv'
<1> DEFINE new == [i \in ids |-> [txs[i] EXCEPT !.account = a]]
<1>1. txs \in [Ids -> Row]
  BY DEF LedgerInv, Typed
<1>2. \A i \in ids : [txs[i] EXCEPT !.account = a] \in Row /\ [txs[i] EXCEPT !.account = a].state = txs[i].state
  BY <1>1, FieldWritten DEF Row
<1>3. new \in [ids -> Row] /\ \A i \in ids : new[i].state = txs[i].state
  BY <1>2
<1>4. EditMany(ids, new)
  BY DEF SetAccountMany
<1> HIDE DEF new
<1> QED
  BY <1>3, <1>4, EditManyKeeps

LEMMA TomorrowKeeps ==
    ASSUME LedgerInv, Tomorrow
    PROVE  LedgerInv'
<1> DEFINE to == [i \in Ids |-> [txs[i] EXCEPT !.later = FALSE]]
<1>1. txs \in [Ids -> Row]
  BY DEF LedgerInv, Typed
<1>2. to \in [Ids -> Row]
  BY <1>1, FieldWritten
<1>3. ASSUME NEW i \in Ids
      PROVE  to[i] = NoRow \/ (to[i].state # "absent" /\ Legal(to[i]))
  <2>1. CASE txs[i].state = "absent"
    <3>1. txs[i] = NoRow
      BY <2>1 DEF LedgerInv, RowsInv, Stands
    <3> DEFINE r == NoRow
    <3>2. r \in Row /\ r.later = FALSE
      BY Blanks DEF NoRow
    <3> HIDE DEF r
    <3>3. [r EXCEPT !.later = FALSE] = r
      BY <3>2 DEF Row
    <3> QED
      BY <3>1, <3>3 DEF r
  <2>2. CASE txs[i].state # "absent"
    <3> DEFINE q == [txs[i] EXCEPT !.later = FALSE]
    <3>1. txs[i] \in Row /\ Legal(txs[i])
      BY <2>2, RowIsStanding DEF LedgerInv, Stands
    <3>2. /\ q.state = txs[i].state /\ q.account = txs[i].account /\ q.kind = txs[i].kind
          /\ q.dest = txs[i].dest /\ q.refund = txs[i].refund /\ q.tagged = txs[i].tagged
      BY <3>1 DEF Row
    <3>3. to[i] = q
      OBVIOUS
    <3> HIDE DEF q
    <3>4. Legal(q)
      BY <3>1, <3>2, LegalIgnores
    <3> QED
      BY <2>2, <3>2, <3>3, <3>4
  <2> QED
    BY <2>1, <2>2
<1>4. txs' = to /\ Unstated /\ OnlyRows
  BY DEF Tomorrow
<1> HIDE DEF to
<1> QED
  BY <1>2, <1>3, <1>4, Quiet, RowsRewritten DEF LedgerInv, Sound

\* The row that an opening balance, an adjustment or a write-off adds.
Added(k, n, a) == [New(k, n, a) EXCEPT !.tagged = TRUE]
LEMMA AddedRow ==
    ASSUME NEW k \in Kinds, NEW n \in Nat \ {0}, NEW a \in Accounts
    PROVE  /\ Added(k, n, a) \in Row /\ Added(k, n, a).state = "live" /\ ~Added(k, n, a).later
           /\ Added(k, n, a).account = a /\ Added(k, n, a).kind = k
           /\ Added(k, n, a).dest = None /\ Added(k, n, a).refund = None
           /\ k \in {"expense", "transfer"} => Sign(Added(k, n, a)) = -n
           /\ k \notin {"expense", "transfer"} => Sign(Added(k, n, a)) = n
<1> DEFINE q == New(k, n, a)
           r == Added(k, n, a)
<1>1. /\ q \in Row /\ q.state = "live" /\ q.kind = k /\ q.amount = n /\ q.account = a
      /\ q.dest = None /\ q.refund = None /\ ~q.later
  BY NewIsRow
<1> HIDE DEF q
<1>2. r = [q EXCEPT !.tagged = TRUE]
  BY DEF q, Added
<1> HIDE DEF r
<1>3. r \in Row
  BY <1>1, <1>2, FieldWritten
<1>4. /\ r.state = "live" /\ r.kind = k /\ r.amount = n /\ r.account = a
      /\ r.dest = None /\ r.refund = None /\ r.later = q.later
  BY <1>1, <1>2 DEF Row
<1>5. /\ k \in {"expense", "transfer"} => Sign(r) = -n
      /\ k \notin {"expense", "transfer"} => Sign(r) = n
  BY <1>4 DEF Sign
<1>6. ~r.later
  BY <1>1, <1>4
<1> QED
  BY <1>3, <1>4, <1>5, <1>6 DEF r

LEMMA WriteOffKeeps ==
    ASSUME LedgerInv, NEW a \in Accounts, NEW n \in Amounts, WriteOff(a, n)
    PROVE  LedgerInv'
<1> DEFINE k == WriteOffKind(accounts[a].class)
           r == Added(k, n, a)
<1>1. PICK i \in FreshIds({}) : Insert(i, r)
  BY DEF WriteOff, Added
<1>2. i \in Ids /\ txs[i].state = "absent"
  BY FreshIsUnused
<1>3. k \in Kinds /\ n \in Nat \ {0} /\ k = IF accounts[a].class = "lent" THEN "expense" ELSE "income"
  BY BooksAssumption DEF WriteOffKind, Kinds
<1> HIDE DEF k
<1>4. /\ r \in Row /\ r.state = "live" /\ ~r.later /\ r.account = a
      /\ k \in {"expense", "transfer"} => Sign(r) = -n
      /\ k \notin {"expense", "transfer"} => Sign(r) = n
  BY <1>3, AddedRow
<1> HIDE DEF r
<1>5. txs \in [Ids -> Row]
  BY DEF LedgerInv, Typed
<1>6. BalanceOf(txs', a) = Sign(r) + BalanceOf(txs, a)
  BY <1>1, <1>2, <1>4, <1>5, NewRowMoves DEF Insert
<1>7. Balance(a) = BalanceOf(txs, a) /\ BalanceOf(txs, a) \in Int
  BY <1>5, BalanceIs, BalanceIsInt
<1>8. stated' = IF Balance(a) = (IF accounts[a].class = "lent" THEN n ELSE -n)
                THEN StatedAs(a, 0) ELSE NothingStated
  BY DEF WriteOff
<1>9. stated' \in Told
  BY <1>8, Blanks, ToldPlainly
<1>10. Settled'
  <2>1. CASE Balance(a) = (IF accounts[a].class = "lent" THEN n ELSE -n)
    <3>1. stated'.account = a /\ Reached' = 0
      BY <1>8, <2>1, ToldPlainly DEF Reached
    <3>2. Sign(r) + BalanceOf(txs, a) = 0
      BY <1>3, <1>4, <1>7, <2>1
    <3> QED
      BY <1>6, <3>1, <3>2 DEF Settled
  <2>2. CASE Balance(a) # (IF accounts[a].class = "lent" THEN n ELSE -n)
    BY <1>8, <2>2, Blanks DEF Settled
  <2> QED
    BY <2>1, <2>2
<1>11. Sound'
  BY <1>1, <1>2, <1>4, <1>9, RowWritten DEF WriteOff, LedgerInv, Sound
<1> QED
  BY <1>10, <1>11 DEF LedgerInv, Sound

\* An adjustment is as large as the gap, and of its sign.
LEMMA ReconcileKeeps ==
    ASSUME LedgerInv, NEW a \in Accounts, NEW n \in Stated, NEW adjust \in BOOLEAN, Reconcile(a, n, adjust)
    PROVE  LedgerInv'
<1> DEFINE gap == Gap(a, n)
           k == IF gap > 0 THEN "adjustment" ELSE "expense"
           r == Added(k, Abs(gap), a)
<1>1. txs \in [Ids -> Row]
  BY DEF LedgerInv, Typed
<1>2. Balance(a) = BalanceOf(txs, a) /\ BalanceOf(txs, a) \in Int
  BY <1>1, BalanceIs, BalanceIsInt
<1>3. n \in Int
  BY LedgerAssumption DEF Stated
<1>4. gap \in Int /\ gap = n - BalanceOf(txs, a)
  BY <1>2, <1>3 DEF Gap
<1>5. stated' = IF adjust THEN StatedAs(a, n) ELSE NothingStated
  BY DEF Reconcile
<1>6. stated' \in Told
  BY <1>3, <1>5, Blanks, ToldPlainly
<1>7. IF adjust /\ gap # 0 THEN \E i \in FreshIds({}) : Insert(i, r) ELSE UNCHANGED txs
  BY DEF Reconcile, Added
<1>8. OnlyRows
  BY DEF Reconcile
<1>9. CASE adjust /\ gap # 0
  <2>1. PICK i \in FreshIds({}) : Insert(i, r)
    BY <1>7, <1>9
  <2>2. i \in Ids /\ txs[i].state = "absent"
    BY FreshIsUnused
  <2> HIDE DEF gap
  <2>3. Abs(gap) \in Nat \ {0} /\ Abs(gap) = IF gap < 0 THEN -gap ELSE gap
    BY <1>4, <1>9 DEF Abs
  <2>4. k \in Kinds
    BY DEF Kinds
  <2> HIDE DEF k
  <2>5. /\ r \in Row /\ r.state = "live" /\ ~r.later /\ r.account = a
        /\ k \in {"expense", "transfer"} => Sign(r) = -Abs(gap)
        /\ k \notin {"expense", "transfer"} => Sign(r) = Abs(gap)
    BY <2>3, <2>4, AddedRow
  <2> HIDE DEF r
  <2>6. Sign(r) = gap
    BY <1>4, <1>9, <2>3, <2>5 DEF k
  <2>7. BalanceOf(txs', a) = Sign(r) + BalanceOf(txs, a)
    BY <1>1, <2>1, <2>2, <2>5, NewRowMoves DEF Insert
  <2>8. BalanceOf(txs', a) = n
    BY <1>2, <1>3, <1>4, <2>6, <2>7
  <2>9. Settled'
    BY <1>3, <1>5, <1>9, <2>8, ToldPlainly DEF Settled, Reached
  <2>10. Sound'
    BY <1>6, <1>8, <2>1, <2>2, <2>5, RowWritten DEF LedgerInv, Sound
  <2> QED
    BY <2>9, <2>10 DEF LedgerInv, Sound
<1>10. CASE ~(adjust /\ gap # 0)
  <2>1. txs' = txs
    BY <1>7, <1>10
  <2>2. Settled'
    <3>1. CASE adjust
      <4>1. BalanceOf(txs, a) = n
        BY <1>2, <1>3, <1>4, <1>10, <3>1
      <4> QED
        BY <1>3, <1>5, <2>1, <3>1, <4>1, ToldPlainly DEF Settled, Reached
    <3>2. CASE ~adjust
      BY <1>5, <3>2, Blanks DEF Settled
    <3> QED
      BY <3>1, <3>2
  <2>3. Sound'
    BY <1>1, <1>6, <1>8, <2>1, RowsRewritten DEF LedgerInv, Sound
  <2> QED
    BY <2>2, <2>3 DEF LedgerInv, Sound
<1> QED
  BY <1>9, <1>10

\* Accounts come and are restored; none is forgotten.
LEMMA AccountsRewritten ==
    ASSUME LedgerInv, NEW to \in [Accounts -> Account], accounts' = to, goals' = goals,
           \A b \in Accounts : Known(b) => to[b].state # "absent",
           NEW u \in [Ids -> Row], txs' = u,
           \A i \in Ids : u[i] = txs[i] \/ (u[i].state # "absent" /\ Legal(u[i])'),
           stated' \in Told
    PROVE  Sound'
<1>1. \A b \in Accounts : Known(b) => Known(b)'
  BY DEF Known
<1>2. Typed'
  BY DEF LedgerInv, Typed
<1>3. RowsInv'
  <2> SUFFICES ASSUME NEW i \in Ids PROVE u[i] = NoRow \/ (u[i].state # "absent" /\ Legal(u[i])')
    BY DEF RowsInv, Stands
  <2>1. CASE u[i] = txs[i]
    <3>1. u[i] = NoRow \/ (u[i].state # "absent" /\ Legal(u[i]))
      BY <2>1 DEF LedgerInv, RowsInv, Stands
    <3>2. Legal(u[i]) => Legal(u[i])'
      BY <1>1, LegalKept
    <3> QED
      BY <3>1, <3>2
  <2>2. CASE u[i] # txs[i]
    BY <2>2
  <2> QED
    BY <2>1, <2>2
<1>4. GoalsInv'
  <2> SUFFICES ASSUME NEW g \in Goals, goals[g] # NoGoal PROVE Known(goals[g].account)'
    BY DEF GoalsInv
  <2>1. Known(goals[g].account) /\ goals[g].account \in Accounts
    BY DEF LedgerInv, GoalsInv, Known
  <2> QED
    BY <1>1, <2>1
<1> QED
  BY <1>2, <1>3, <1>4 DEF Sound

LEMMA DeleteAccountKeeps ==
    ASSUME LedgerInv, NEW a \in Accounts, DeleteAccount(a)
    PROVE  LedgerInv'
<1> DEFINE to == [accounts EXCEPT ![a].state = "deleted"]
<1>1. accounts \in [Accounts -> Account] /\ txs \in [Ids -> Row]
  BY DEF LedgerInv, Typed
<1>2. to \in [Accounts -> Account] /\ \A b \in Accounts : Known(b) => to[b].state # "absent"
  BY <1>1 DEF Account, States, Known
<1>3. accounts' = to /\ txs' = txs /\ goals' = goals
  BY DEF DeleteAccount, OnlyAccounts
<1> HIDE DEF to
<1>4. Sound' /\ Settled'
  BY <1>1, <1>2, <1>3, AccountsRewritten, Quiet DEF DeleteAccount
<1> QED
  BY <1>4 DEF LedgerInv, Sound

LEMMA RestoreAccountKeeps ==
    ASSUME LedgerInv, NEW a \in Accounts, RestoreAccount(a)
    PROVE  LedgerInv'
<1> DEFINE to == [accounts EXCEPT ![a].state = "live"]
<1>1. accounts \in [Accounts -> Account] /\ txs \in [Ids -> Row]
  BY DEF LedgerInv, Typed
<1>2. to \in [Accounts -> Account] /\ \A b \in Accounts : Known(b) => to[b].state # "absent"
  BY <1>1 DEF Account, States, Known
<1>3. accounts' = to /\ txs' = txs /\ goals' = goals
  BY DEF RestoreAccount, OnlyAccounts
<1> HIDE DEF to
<1>4. Sound' /\ Settled'
  BY <1>1, <1>2, <1>3, AccountsRewritten, Quiet DEF RestoreAccount
<1> QED
  BY <1>4 DEF LedgerInv, Sound

\* A row that counts is of accounts that exist, so a new account has none.
LEMMA NewAccountIsEmpty ==
    ASSUME LedgerInv, NEW a \in Accounts, accounts[a] = NoAccount
    PROVE  BalanceOf(txs, a) = 0
<1>1. ~Known(a)
  BY Blanks DEF Known
<1>2. ASSUME NEW i \in Ids, txs[i].state = "live"
      PROVE  txs[i].account # a /\ (txs[i].kind = "transfer" => txs[i].dest # a)
  <2>1. Legal(txs[i])
    BY <1>2, RowIsStanding DEF LedgerInv, Stands
  <2> QED
    BY <1>1, <2>1 DEF Legal
<1> QED
  BY <1>2, UntouchedIsEmpty

\* The row of an opening balance, on the day that was entered.
Opened(k, n, a, l) == [Added(k, n, a) EXCEPT !.later = l]
LEMMA OpenedRow ==
    ASSUME NEW k \in Kinds, NEW n \in Nat \ {0}, NEW a \in Accounts, NEW l \in BOOLEAN
    PROVE  /\ Opened(k, n, a, l) \in Row /\ Opened(k, n, a, l).state = "live"
           /\ Opened(k, n, a, l).later = l
           /\ Opened(k, n, a, l).account = a /\ Opened(k, n, a, l).kind = k
           /\ Opened(k, n, a, l).dest = None /\ Opened(k, n, a, l).refund = None
           /\ k \in {"expense", "transfer"} => Sign(Opened(k, n, a, l)) = -n
           /\ k \notin {"expense", "transfer"} => Sign(Opened(k, n, a, l)) = n
<1> DEFINE q == Added(k, n, a)
           r == Opened(k, n, a, l)
<1>1. /\ q \in Row /\ q.state = "live" /\ q.kind = k /\ q.account = a
      /\ q.dest = None /\ q.refund = None
      /\ k \in {"expense", "transfer"} => Sign(q) = -n
      /\ k \notin {"expense", "transfer"} => Sign(q) = n
  BY AddedRow
<1> HIDE DEF q
<1>2. r = [q EXCEPT !.later = l]
  BY DEF q, Opened
<1> HIDE DEF r
<1>3. r \in Row
  BY <1>1, <1>2, FieldWritten
<1>4. /\ r.state = "live" /\ r.kind = k /\ r.amount = q.amount /\ r.account = a
      /\ r.dest = None /\ r.refund = None /\ r.later = l
  BY <1>1, <1>2 DEF Row
<1>5. Sign(r) = Sign(q)
  BY <1>1, <1>4 DEF Sign
<1> QED
  BY <1>1, <1>3, <1>4, <1>5 DEF r

\* What an opening is to reach: an asset the absolute value, a liability owes it.
LEMMA OpeningTold ==
    ASSUME NEW a \in Accounts, NEW n \in Int, NEW owed \in BOOLEAN, NEW l \in BOOLEAN,
           stated' = IF l THEN StatedAs(a, 0)
                     ELSE IF owed THEN StatedAs(a, -Abs(n))
                     ELSE [StatedAs(a, n) EXCEPT !.overdrawn = n < 0]
    PROVE  /\ stated' \in Told /\ stated'.account = a
           /\ Reached' = IF l THEN 0 ELSE IF owed THEN -Abs(n) ELSE Abs(n)
<1>1. -Abs(n) \in Int /\ Abs(n) = IF n < 0 THEN -n ELSE n
  BY DEF Abs
<1>2. CASE l
  BY <1>2, ToldPlainly DEF Reached
<1>3. CASE ~l /\ owed
  BY <1>1, <1>3, ToldPlainly DEF Reached
<1>4. CASE ~l /\ ~owed
  <2>1. (n < 0) \in BOOLEAN
    OBVIOUS
  <2>2. stated' = [StatedAs(a, n) EXCEPT !.overdrawn = n < 0]
    BY <1>4
  <2> DEFINE told == n < 0
  <2> HIDE DEF told
  <2>3. told \in BOOLEAN
    BY <2>1 DEF told
  <2>4. stated' = [account |-> a, balance |-> n, overdrawn |-> told]
    BY <2>2 DEF StatedAs, told
  <2>5. stated' \in Told /\ stated'.account = a
    BY <2>3, <2>4 DEF Told
  <2>6. Reached' = IF told THEN -n ELSE n
    BY <2>4 DEF Reached
  <2>7. Reached' = Abs(n)
    BY <1>1, <2>6 DEF told
  <2> QED
    BY <1>4, <2>5, <2>7
<1> QED
  BY <1>2, <1>3, <1>4

LEMMA CreateAccountKeeps ==
    ASSUME LedgerInv, NEW a \in Accounts, NEW class \in Classes, NEW cur \in Currencies, NEW n \in Stated,
           NEW l \in BOOLEAN, CreateAccount(a, class, cur, n, l)
    PROVE  LedgerInv'
<1> DEFINE new == [state |-> "live", class |-> class, cur |-> cur]
           to == [accounts EXCEPT ![a] = new]
           owed == class \in {"liability", "borrowed"}
           k == IF owed THEN "expense" ELSE "adjustment"
           r == Opened(k, Abs(n), a, l)
<1>1. accounts \in [Accounts -> Account] /\ txs \in [Ids -> Row]
  BY DEF LedgerInv, Typed
<1>2. new \in Account /\ new.state = "live"
  BY DEF Account, States
<1> HIDE DEF new
<1>3. to \in [Accounts -> Account] /\ to[a] = new /\ \A b \in Accounts : Known(b) => to[b].state # "absent"
  BY <1>1, <1>2 DEF Known
<1>4. accounts' = to /\ goals' = goals
  BY DEF CreateAccount, new
<1> HIDE DEF to
<1>5. BalanceOf(txs, a) = 0
  BY NewAccountIsEmpty DEF CreateAccount
<1>6. n \in Int
  BY LedgerAssumption DEF Stated
<1>7. Known(a)'
  BY <1>2, <1>3, <1>4 DEF Known
<1>8. Abs(n) \in Nat /\ Abs(n) = IF n < 0 THEN -n ELSE n
  BY <1>6 DEF Abs
<1>9. /\ stated' \in Told /\ stated'.account = a
      /\ Reached' = IF l THEN 0 ELSE IF owed THEN -Abs(n) ELSE Abs(n)
  BY <1>6, <1>8, OpeningTold DEF CreateAccount
<1>10. CASE n = 0
  <2>1. txs' = txs
    BY <1>10 DEF CreateAccount
  <2>2. Abs(n) = 0 /\ -Abs(n) = 0
    <3>1. Abs(n) = 0
      BY <1>10 DEF Abs
    <3>2. \A m \in Int : -m = 0 - m
      OBVIOUS
    <3>3. -Abs(n) = 0 - Abs(n)
      BY <1>8, <3>2
    <3> QED
      BY <3>1, <3>3
  <2>3. Reached' = 0
    BY <1>9, <2>2
  <2>4. Settled'
    BY <1>5, <1>9, <2>1, <2>3 DEF Settled
  <2>5. Sound'
    BY <1>1, <1>3, <1>4, <1>9, <2>1, AccountsRewritten
  <2> QED
    BY <2>4, <2>5 DEF LedgerInv, Sound
<1>11. CASE n # 0
  <2>1. PICK i \in FreshIds({}) : txs' = [txs EXCEPT ![i] = r]
    BY <1>11 DEF CreateAccount, Added, Opened
  <2>2. i \in Ids /\ txs[i].state = "absent"
    BY FreshIsUnused
  <2>3. Abs(n) \in Nat \ {0}
    BY <1>6, <1>8, <1>11
  <2>4. k \in Kinds /\ k # "transfer" /\ (owed <=> k \in {"expense", "transfer"})
    BY DEF Kinds
  <2> HIDE DEF k, owed
  <2>5. /\ r \in Row /\ r.state = "live" /\ r.later = l /\ r.account = a /\ r.kind = k
        /\ r.dest = None /\ r.refund = None
        /\ k \in {"expense", "transfer"} => Sign(r) = -Abs(n)
        /\ k \notin {"expense", "transfer"} => Sign(r) = Abs(n)
    BY <2>3, <2>4, OpenedRow
  <2> HIDE DEF r
  <2>6. BalanceOf(txs', a) = Reached'
    <3>1. CASE l
      BY <1>1, <1>5, <1>9, <2>1, <2>2, <2>5, <3>1, LaterRowRests
    <3>2. CASE ~l
      <4>1. BalanceOf(txs', a) = Sign(r) + BalanceOf(txs, a)
        BY <1>1, <2>1, <2>2, <2>5, <3>2, NewRowMoves
      <4>2. Sign(r) \in Int
        BY <2>5, RowValues
      <4>3. BalanceOf(txs', a) = Sign(r)
        BY <1>5, <4>1, <4>2
      <4> QED
        BY <1>9, <2>4, <2>5, <3>2, <4>3
    <3> QED
      BY <3>1, <3>2
  <2>7. Settled'
    BY <1>9, <2>6 DEF Settled
  <2>8. Sound'
    <3>1. PICK u \in [Ids -> Row] : txs' = u /\ u[i] = r /\ \A j \in Ids \ {i} : u[j] = txs[j]
      <4>1. txs' \in [Ids -> Row] /\ txs'[i] = r /\ \A j \in Ids \ {i} : txs'[j] = txs[j]
        BY <1>1, <2>1, <2>2, <2>5
      <4> QED
        BY <4>1
    <3>2. Legal(r)'
      BY <1>7, <2>4, <2>5 DEF Legal
    <3>3. \A j \in Ids : u[j] = txs[j] \/ (u[j].state # "absent" /\ Legal(u[j])')
      BY <2>5, <3>1, <3>2
    <3> QED
      BY <1>3, <1>4, <1>9, <3>1, <3>3, AccountsRewritten
  <2> QED
    BY <2>7, <2>8 DEF LedgerInv, Sound
<1> QED
  BY <1>10, <1>11

LEMMA GoalStepKeeps ==
    ASSUME LedgerInv, NEW g \in Goals, NEW to \in Goal, GoalStep(g, to), Known(to.account)
    PROVE  LedgerInv'
<1>1. accounts' = accounts /\ txs' = txs /\ goals' = [goals EXCEPT ![g] = to]
  BY DEF GoalStep
<1>2. \A b : Known(b)' <=> Known(b)
  BY <1>1 DEF Known
<1>3. Typed' /\ Settled'
  BY <1>1, Quiet DEF GoalStep, LedgerInv, Typed
<1>4. RowsInv'
  BY <1>1, <1>2 DEF LedgerInv, RowsInv, Stands, Legal
<1>5. GoalsInv'
  <2> DEFINE new == [goals EXCEPT ![g] = to]
  <2>1. new[g] = to /\ \A h \in Goals \ {g} : new[h] = goals[h]
    BY DEF LedgerInv, Typed
  <2>2. goals' = new
    BY <1>1
  <2> HIDE DEF new
  <2> QED
    BY <1>2, <2>1, <2>2 DEF LedgerInv, GoalsInv
<1> QED
  BY <1>3, <1>4, <1>5 DEF LedgerInv

LEMMA GoalCommandKeeps ==
    ASSUME LedgerInv, NEW g \in Goals,
           \/ \E a \in Accounts : CreateGoal(g, a)
           \/ DeleteGoal(g) \/ RestoreGoal(g) \/ \E active \in BOOLEAN : UpdateGoal(g, active)
    PROVE  LedgerInv'
<1>1. goals[g] \in Goal
  BY DEF LedgerInv, Typed
<1>2. goals[g].state # "absent" => Known(goals[g].account)
  BY DEF LedgerInv, GoalsInv, NoGoal
<1>3. ASSUME NEW a \in Accounts, CreateGoal(g, a) PROVE LedgerInv'
  <2> DEFINE to == [state |-> "live", account |-> a, active |-> TRUE]
  <2>1. to \in Goal /\ to.account = a
    BY DEF Goal, States
  <2>2. Known(a) /\ GoalStep(g, to)
    BY <1>3 DEF CreateGoal
  <2> HIDE DEF to
  <2> QED
    BY <2>1, <2>2, GoalStepKeeps
<1>4. ASSUME NEW s \in {"live", "deleted"}, goals[g].state # "absent", GoalStep(g, [goals[g] EXCEPT !.state = s])
      PROVE  LedgerInv'
  <2> DEFINE to == [goals[g] EXCEPT !.state = s]
  <2>1. to \in Goal /\ to.account = goals[g].account
    BY <1>1 DEF Goal, States
  <2>2. GoalStep(g, to)
    BY <1>4
  <2> HIDE DEF to
  <2> QED
    BY <1>2, <1>4, <2>1, <2>2, GoalStepKeeps
<1>5. ASSUME NEW active \in BOOLEAN, UpdateGoal(g, active) PROVE LedgerInv'
  <2> DEFINE to == [goals[g] EXCEPT !.active = active]
  <2>1. to \in Goal /\ to.account = goals[g].account
    BY <1>1 DEF Goal
  <2>2. goals[g].state = "live" /\ GoalStep(g, to)
    BY <1>5 DEF UpdateGoal
  <2> HIDE DEF to
  <2> QED
    BY <1>2, <2>1, <2>2, GoalStepKeeps
<1>6. CASE DeleteGoal(g)
  BY <1>4, <1>6 DEF DeleteGoal
<1>7. CASE RestoreGoal(g)
  BY <1>4, <1>7 DEF RestoreGoal
<1> QED
  BY <1>3, <1>5, <1>6, <1>7

LEMMA StutterKeeps ==
    ASSUME LedgerInv, UNCHANGED vars
    PROVE  LedgerInv'
BY DEF LedgerInv, vars, Typed, RowsInv, Stands, Legal, Known, GoalsInv, Settled, Reached

LEMMA NextInv ==
    ASSUME LedgerInv, [Next]_vars
    PROVE  LedgerInv'
<1>1. CASE UNCHANGED vars
  BY <1>1, StutterKeeps
<1>2. ASSUME NEW a \in Accounts,
             \/ \E class \in Classes, cur \in Currencies, n \in Stated, l \in BOOLEAN :
                   CreateAccount(a, class, cur, n, l)
             \/ DeleteAccount(a) \/ RestoreAccount(a)
             \/ \E n \in Stated, adjust \in BOOLEAN : Reconcile(a, n, adjust)
             \/ \E n \in Amounts : WriteOff(a, n)
             \/ \E ids \in SUBSET Ids : SetAccountMany(ids, a)
      PROVE  LedgerInv'
  BY <1>2, CreateAccountKeeps, DeleteAccountKeeps, RestoreAccountKeeps, ReconcileKeeps, WriteOffKeeps,
     SetAccountManyKeeps
<1>3. ASSUME NEW i \in Ids,
             \/ \E k \in Kinds, d \in Accounts \cup {None}, n \in Amounts, t, l \in BOOLEAN :
                   Update(i, k, d, n, t, l)
             \/ RestoreRow(i) \/ Duplicate(i)
      PROVE  LedgerInv'
  BY <1>3, UpdateKeeps, RestoreRowKeeps, DuplicateKeeps
<1>4. ASSUME NEW ids \in SUBSET Ids, DeleteRows(ids) \/ \E t \in BOOLEAN : SetTagMany(ids, t)
      PROVE  LedgerInv'
  BY <1>4, DeleteRowsKeeps, SetTagManyKeeps
<1>5. ASSUME NEW r \in Sensible, CreateTransaction(r) PROVE LedgerInv'
  BY <1>5, CreateTransactionKeeps
<1>6. ASSUME NEW r \in Plain, NEW s \in Plain, Import(r, s) PROVE LedgerInv'
  BY <1>6, ImportKeeps
<1>7. ASSUME NEW g \in Goals,
             \/ \E a \in Accounts : CreateGoal(g, a)
             \/ DeleteGoal(g) \/ RestoreGoal(g) \/ \E active \in BOOLEAN : UpdateGoal(g, active)
      PROVE  LedgerInv'
  BY <1>7, GoalCommandKeeps
<1>8. CASE Tomorrow
  BY <1>8, TomorrowKeeps
<1> QED
  BY <1>1, <1>2, <1>3, <1>4, <1>5, <1>6, <1>7, <1>8 DEF Next

LEMMA Invariant == Spec => []LedgerInv
<1>1. LedgerInv /\ [Next]_vars => LedgerInv'
  BY NextInv
<1> QED
  BY <1>1, InitInv, PTL DEF Spec

----------------------------------------------------------------------------
(* The other two queries as sums. *)

Outs == [i \in Ids |-> Sign(txs[i])]
Ins == [i \in Ids |-> txs[i].amount]
Sources(a) == {i \in Booked(txs) : txs[i].account = a}
Arrivals(a) == {i \in Booked(txs) : txs[i].kind = "transfer" /\ txs[i].dest = a}

LEMMA ListedIs == \A a \in Accounts : ListedBalance(a) = Sum(Outs, Sources(a)) + Sum(Ins, Arrivals(a))
BY DEF ListedBalance, Outs, Ins, Sources, Arrivals, Booked, Counted, LiveRows

Pairs == {p \in Booked(txs) \X Accounts : Live(p[2]) /\ p[2] \in {txs[p[1]].account, txs[p[1]].dest}}
Parts == [p \in Ids \X Accounts |-> IF txs[p[1]].account = p[2] THEN Sign(txs[p[1]]) ELSE txs[p[1]].amount]

LEMMA PairsFinite == IsFiniteSet(Pairs)
<1>1. IsFiniteSet(Booked(txs) \X Accounts)
  BY BookedFinite, LedgerAssumption, FS_Product
<1>2. Pairs \subseteq Booked(txs) \X Accounts
  BY DEF Pairs
<1> QED
  BY <1>1, <1>2, FS_Subset

LEMMA NetWorthIs == NetWorth = Sum(Parts, Pairs)
BY DEF NetWorth, Parts, Pairs, Booked, Counted, LiveRows

LiveAccounts == {a \in Accounts : Live(a)}
Balances == [a \in LiveAccounts |-> BalanceOf(txs, a)]

LEMMA LiveFinite == IsFiniteSet(LiveAccounts) /\ LiveAccounts \subseteq Accounts
BY LedgerAssumption, FS_Subset DEF LiveAccounts

LEMMA SumOfBalancesIs == Sum([a \in Accounts |-> Balance(a)], LiveAccounts) = Sum(Balances, LiveAccounts)
<1>1. \A a \in LiveAccounts : [b \in Accounts |-> Balance(b)][a] = Balances[a]
  BY BalanceIs, LiveFinite DEF Balances
<1> QED
  BY <1>1, LiveFinite, SumSame

----------------------------------------------------------------------------
(* The theorems. *)

\* Every stored row satisfies the schema and every goal has an account, after
\* any commands on any number of accounts and rows (transactions.rs,
\* accounts.rs, goals.rs and the CHECKs of the schema).
THEOREM TypeCorrect == Spec => []TypeOK
<1>1. LedgerInv => TypeOK
  <2> SUFFICES ASSUME LedgerInv PROVE TypeOK
    OBVIOUS
  <2>1. accounts \in [Accounts -> [state : States, class : Classes, cur : Currencies]]
    BY DEF LedgerInv, Typed, Account, States
  <2>2. goals \in [Goals -> [state : States, account : Accounts \cup {None},
                             active : BOOLEAN]]
    BY DEF LedgerInv, Typed, Goal, States
  <2>3. ASSUME NEW i \in Ids, txs[i] # NoRow
        PROVE  txs[i].amount > 0 /\ txs[i].kind \in Kinds /\ Legal(txs[i])
    <3>1. txs[i] \in Row /\ Legal(txs[i])
      BY <2>3 DEF LedgerInv, Typed, RowsInv, Stands
    <3> QED
      BY <3>1, RowValues DEF Row
  <2> QED
    BY <2>1, <2>2, <2>3 DEF TypeOK, LedgerInv, GoalsInv
<1> QED
  BY <1>1, Invariant, PTL

\* A reconciliation that adjusts, a write-off of a whole debt and an opening
\* balance of today leave the account at the balance that was told, with one
\* exception: an asset opened overdrawn is left at the opposite of it, because
\* the opening row is a positive adjustment of the absolute value
\* (reconciliations.rs, debts.rs, accounts.rs:238-247).
THEOREM SettlesAsStated == Spec => []SettlesToStated
<1>1. LedgerInv => SettlesToStated
  <2> SUFFICES ASSUME LedgerInv, stated.account # None PROVE Balance(stated.account) = Reached
    BY DEF SettlesToStated, Reached
  <2>1. stated.account \in Accounts
    BY DEF LedgerInv, Typed, Told
  <2> QED
    BY <2>1, BalanceIs DEF LedgerInv, Settled
<1> QED
  BY <1>1, Invariant, PTL

\* A transfer has a destination and nothing else does.
LEMMA DestinationIsTransfer ==
    ASSUME LedgerInv, NEW i \in Booked(txs), txs[i].dest \in Accounts
    PROVE  txs[i].kind = "transfer"
<1>1. Legal(txs[i])
  BY RowIsStanding DEF LedgerInv, Booked, Stands
<1> QED
  BY <1>1, LedgerAssumption DEF Legal

LEMMA WorthIsSumOfBalances ==
    ASSUME LedgerInv
    PROVE  NetWorth = Sum([a \in Accounts |-> Balance(a)], LiveAccounts)
<1> DEFINE part(a) == [i \in Ids |-> Parts[<<i, a>>]]
           touching(a) == {i \in Ids : <<i, a>> \in Pairs}
<1>1. txs \in [Ids -> Row]
  BY DEF LedgerInv, Typed
<1>2. \A i \in Ids, a \in LiveAccounts :
        /\ Parts[<<i, a>>] \in Int
        /\ Parts[<<i, a>>] = Signed(txs, a)[i]
  <2> SUFFICES ASSUME NEW i \in Ids, NEW a \in LiveAccounts
               PROVE  Parts[<<i, a>>] \in Int /\ Parts[<<i, a>>] = Signed(txs, a)[i]
    OBVIOUS
  <2>1. a \in Accounts
    BY DEF LiveAccounts
  <2>2. Parts[<<i, a>>] = IF txs[i].account = a THEN Sign(txs[i]) ELSE txs[i].amount
    BY <2>1 DEF Parts
  <2>3. Parts[<<i, a>>] = Signed(txs, a)[i]
    BY <2>2 DEF Signed
  <2> QED
    BY <1>1, <2>3, SignedIsInt
<1>3. Pairs \in SUBSET (Ids \X LiveAccounts)
  BY DEF Pairs, Booked, LiveAccounts
<1>4. \A a \in LiveAccounts : touching(a) = Touching(txs, a)
  <2> SUFFICES ASSUME NEW a \in LiveAccounts PROVE touching(a) = Touching(txs, a)
    OBVIOUS
  <2>1. a \in Accounts /\ Live(a)
    BY DEF LiveAccounts
  <2>2. \A i \in Ids : <<i, a>> \in Pairs <=> i \in Booked(txs) /\ a \in {txs[i].account, txs[i].dest}
    BY <2>1 DEF Pairs
  <2>3. \A i \in Booked(txs) : a = txs[i].dest => txs[i].kind = "transfer"
    BY <2>1, DestinationIsTransfer
  <2> QED
    BY <2>2, <2>3 DEF Touching, Booked
<1>5. Sum(Parts, Pairs) = Sum([a \in LiveAccounts |-> Sum(part(a), touching(a))], LiveAccounts)
  <2>1. IsFiniteSet(Ids) /\ IsFiniteSet(LiveAccounts) /\ IsFiniteSet(Pairs)
    BY LiveFinite, PairsFinite, BooksAssumption
  <2>2. \A i \in Ids, a \in LiveAccounts : Parts[<<i, a>>] \in Int
    BY <1>2
  <2>3. Sum(Parts, Pairs) = Sum(PartSums(Ids, LiveAccounts, Parts, Pairs), LiveAccounts)
    BY <1>3, <2>1, <2>2, SumByParts
  <2> QED
    BY <2>3 DEF PartSums
<1>6. \A a \in LiveAccounts : Sum(part(a), touching(a)) = BalanceOf(txs, a)
  <2> SUFFICES ASSUME NEW a \in LiveAccounts PROVE Sum(part(a), touching(a)) = BalanceOf(txs, a)
    OBVIOUS
  <2>1. \A i \in Touching(txs, a) : part(a)[i] = Signed(txs, a)[i]
    BY <1>2 DEF Touching, Booked
  <2> HIDE DEF part, touching
  <2>2. Sum(part(a), Touching(txs, a)) = Sum(Signed(txs, a), Touching(txs, a))
    BY <2>1, BookedFinite, SumSame
  <2> QED
    BY <1>4, <2>2 DEF BalanceOf
<1> HIDE DEF part, touching
<1>7. [a \in LiveAccounts |-> Sum(part(a), touching(a))] = Balances
  BY <1>6 DEF Balances
<1> QED
  BY <1>5, <1>7, NetWorthIs, SumOfBalancesIs

LEMMA ListShowsBalance ==
    ASSUME LedgerInv, NEW a \in Accounts, \A i \in Counted : txs[i].account = a => ~SelfTransfer(txs[i])
    PROVE  ListedBalance(a) = Balance(a)
<1> DEFINE S == Sources(a)
           T == Arrivals(a)
           F == Signed(txs, a)
<1>1. txs \in [Ids -> Row]
  BY DEF LedgerInv, Typed
<1>2. S \cap T = {}
  BY DEF Sources, Arrivals, SelfTransfer, Booked, Counted, LiveRows
<1>3. S \cup T = Touching(txs, a) /\ S \subseteq Ids /\ T \subseteq Ids
  BY DEF Sources, Arrivals, Touching, Booked
<1>4. IsFiniteSet(S) /\ IsFiniteSet(T)
  BY <1>3, BooksAssumption, FS_Subset
<1>5. \A i \in S : Outs[i] = F[i]
  BY <1>3 DEF Sources, Outs, Signed
<1>6. \A i \in T : Ins[i] = F[i]
  BY <1>2, <1>3 DEF Sources, Arrivals, Ins, Signed
<1>7. \A i \in S \cup T : F[i] \in Int
  BY <1>1, <1>3, SignedIsInt
<1> HIDE DEF S, T, F
<1>8. Sum(F, S \cup T) = Sum(F, S) + Sum(F, T)
  BY <1>2, <1>4, <1>7, SumUnion
<1>9. Sum(Outs, S) = Sum(F, S) /\ Sum(Ins, T) = Sum(F, T)
  BY <1>4, <1>5, <1>6, SumSame
<1>10. ListedBalance(a) = Sum(Outs, S) + Sum(Ins, T)
  BY ListedIs DEF S, T
<1>11. Balance(a) = Sum(F, S \cup T)
  BY <1>3, BalanceIs DEF BalanceOf, F
<1> QED
  BY <1>8, <1>9, <1>10, <1>11

\* The three balance queries agree, whatever rows and accounts there are: net
\* worth is the sum of the balances of the live accounts, and the list shows
\* each balance unless the account has a transfer to itself (balance.rs,
\* accounts.rs, transactions.rs).
THEOREM QueriesAlwaysAgree == Spec => []QueriesAgree
<1>1. LedgerInv => QueriesAgree
  BY WorthIsSumOfBalances, ListShowsBalance DEF QueriesAgree, LiveAccounts
<1> QED
  BY <1>1, Invariant, PTL

----------------------------------------------------------------------------
(* Planning: what is planned and recorded stays well formed. *)

Bucketed == [state : States, rollover : BOOLEAN]
Tagged == [state : States, bucket : Buckets, system : BOOLEAN]
Planned == [state : States, kind : PlanKinds, month : Months, tag : Tags \cup {None}, amount : Nat \ {0}]

BucketsInv == buckets \in [Buckets -> Bucketed]
TagsInv ==
    /\ tags \in [Tags -> Tagged]
    /\ \A t \in Tags : Exists(tags[t]) => Exists(buckets[tags[t].bucket])
BudgetsInv ==
    /\ DOMAIN budgets \subseteq Buckets \X Months
    /\ \A p \in DOMAIN budgets : budgets[p] \in Nat /\ Exists(buckets[p[1]])
PlannedInv ==
    /\ rows \in [Ids -> Planned]
    /\ \A i \in Ids : rows[i].tag # None => Exists(tags[rows[i].tag])

PlanInv == BucketsInv /\ TagsInv /\ BudgetsInv /\ PlannedInv

LEMMA FirstMonth == \E k \in Nat \ {0} : Months = 1..k
<1>1. Cardinality(Months) \in Nat
  BY PlanningAssumption, FS_CardinalityType
<1>2. Cardinality(Months) # 0
  <2>1. Months # {} /\ Months = 1..Cardinality(Months)
    BY PlanningAssumption
  <2> QED
    BY <2>1
<1> QED
  BY <1>1, <1>2, PlanningAssumption

LEMMA PlanInitInv == PlanInit => PlanInv
<1> SUFFICES ASSUME PlanInit PROVE PlanInv
  OBVIOUS
<1>1. PICK b \in User, system \in Tags, own \in {"absent", "live"}, rollover \in BOOLEAN :
         /\ buckets = [c \in Buckets |-> [state |-> IF c \in {b, Adjustments} THEN "live" ELSE "absent",
                                          rollover |-> c # b \/ rollover]]
         /\ tags = [t \in Tags |-> IF t = system THEN [state |-> "live", bucket |-> Adjustments, system |-> TRUE]
                                    ELSE [state |-> own, bucket |-> b, system |-> FALSE]]
         /\ \E past \in SUBSET (Months \ {Max(Months)}), n \in Allocations \ {0} : budgets = [p \in {b} \X past |-> n]
  BY DEF PlanInit
<1>2. b \in Buckets /\ Adjustments \in Buckets
  BY PlanningAssumption DEF User
<1>3. BucketsInv
  BY <1>1, <1>2 DEF BucketsInv, Bucketed, States
<1>4. Exists(buckets[b]) /\ Exists(buckets[Adjustments])
  BY <1>1, <1>2 DEF Exists
<1>5. TagsInv
  BY <1>1, <1>2, <1>4 DEF TagsInv, Tagged, States
<1>6. BudgetsInv
  <2>1. PICK past \in SUBSET Months, n \in Nat : budgets = [p \in {b} \X past |-> n]
    BY <1>1, PlanningAssumption
  <2>2. DOMAIN budgets = {b} \X past
    BY <2>1
  <2>3. \A p \in DOMAIN budgets : budgets[p] = n /\ p[1] = b
    BY <2>1
  <2> QED
    BY <1>2, <1>4, <2>2, <2>3 DEF BudgetsInv
<1>7. PlannedInv
  <2>1. NoEntry \in Planned /\ NoEntry.tag = None
    BY FirstMonth DEF NoEntry, Planned, States, PlanKinds
  <2>2. rows = [i \in Ids |-> NoEntry]
    BY DEF PlanInit
  <2> QED
    BY <2>1, <2>2 DEF PlannedInv
<1> QED
  BY <1>3, <1>5, <1>6, <1>7 DEF PlanInv

\* Buckets are deleted by marking them, so what points at one keeps its target.
LEMMA BucketWritten ==
    ASSUME PlanInv, NEW to \in [Buckets -> Bucketed], buckets' = to, UNCHANGED <<tags, budgets, rows>>,
           \A b \in Buckets : Exists(buckets[b]) => Exists(to[b])
    PROVE  PlanInv'
<1>1. BucketsInv'
  BY DEF BucketsInv
<1>2. TagsInv'
  BY DEF PlanInv, TagsInv, Tagged, Exists
<1>3. BudgetsInv'
  <2>1. \A p \in DOMAIN budgets : p[1] \in Buckets
    BY DEF PlanInv, BudgetsInv
  <2> QED
    BY <2>1 DEF PlanInv, BudgetsInv, Exists
<1>4. PlannedInv'
  BY DEF PlanInv, PlannedInv, Exists
<1> QED
  BY <1>1, <1>2, <1>3, <1>4 DEF PlanInv

LEMMA BucketCommandKeeps ==
    ASSUME PlanInv, NEW b \in Buckets,
           CreateBucket(b) \/ DeleteBucket(b) \/ \E enabled \in BOOLEAN : SetRolloverEnabled(b, enabled)
    PROVE  PlanInv'
<1>1. buckets \in [Buckets -> Bucketed]
  BY DEF PlanInv, BucketsInv
<1>2. CASE CreateBucket(b)
  <2> DEFINE to == [buckets EXCEPT ![b] = [state |-> "live", rollover |-> TRUE]]
  <2>1. to \in [Buckets -> Bucketed] /\ \A c \in Buckets : Exists(buckets[c]) => Exists(to[c])
    BY <1>1 DEF Bucketed, States, Exists
  <2>2. buckets' = to /\ UNCHANGED <<tags, budgets, rows>>
    BY <1>2 DEF CreateBucket
  <2> HIDE DEF to
  <2> QED
    BY <2>1, <2>2, BucketWritten
<1>3. CASE DeleteBucket(b)
  <2> DEFINE to == [buckets EXCEPT ![b].state = "deleted"]
  <2>1. to \in [Buckets -> Bucketed] /\ \A c \in Buckets : Exists(buckets[c]) => Exists(to[c])
    BY <1>1 DEF Bucketed, States, Exists
  <2>2. buckets' = to /\ UNCHANGED <<tags, budgets, rows>>
    BY <1>3 DEF DeleteBucket
  <2> HIDE DEF to
  <2> QED
    BY <2>1, <2>2, BucketWritten
<1>4. ASSUME NEW enabled \in BOOLEAN, SetRolloverEnabled(b, enabled) PROVE PlanInv'
  <2> DEFINE to == [buckets EXCEPT ![b].rollover = enabled]
  <2>1. to \in [Buckets -> Bucketed] /\ \A c \in Buckets : Exists(buckets[c]) => Exists(to[c])
    BY <1>1 DEF Bucketed, Exists
  <2>2. buckets' = to /\ UNCHANGED <<tags, budgets, rows>>
    BY <1>4 DEF SetRolloverEnabled
  <2> HIDE DEF to
  <2> QED
    BY <2>1, <2>2, BucketWritten
<1> QED
  BY <1>2, <1>3, <1>4

\* A tag is written, and rows may be given another tag that exists.
LEMMA TagWritten ==
    ASSUME PlanInv, NEW t \in Tags, NEW new \in Tagged, Onto(t, new), UNCHANGED <<buckets, budgets>>,
           Exists(new), Exists(buckets[new.bucket]),
           NEW u \in [Ids -> Planned], rows' = u,
           \A i \in Ids : \/ u[i].tag = rows[i].tag
                          \/ u[i].tag \in Tags /\ Exists(tags[u[i].tag])
    PROVE  PlanInv'
<1> DEFINE to == [tags EXCEPT ![t] = new]
<1>1. tags \in [Tags -> Tagged]
  BY DEF PlanInv, TagsInv
<1>2. to \in [Tags -> Tagged] /\ to[t] = new /\ \A s \in Tags \ {t} : to[s] = tags[s]
  BY <1>1
<1>3. tags' = to
  BY DEF Onto
<1> HIDE DEF to
<1>4. \A s \in Tags : Exists(tags[s]) => Exists(to[s])
  BY <1>2
<1>5. BucketsInv' /\ BudgetsInv'
  BY DEF PlanInv, BucketsInv, BudgetsInv, Exists
<1>6. TagsInv'
  <2>1. \A s \in Tags : Exists(to[s]) => Exists(buckets[to[s].bucket])
    BY <1>2 DEF PlanInv, TagsInv
  <2> QED
    BY <1>2, <1>3, <2>1 DEF TagsInv, Exists
<1>7. PlannedInv'
  <2>1. ASSUME NEW i \in Ids, u[i].tag # None PROVE Exists(to[u[i].tag])
    <3>1. u[i].tag \in Tags
      BY <2>1 DEF Planned
    <3>2. Exists(tags[u[i].tag])
      BY <2>1 DEF PlanInv, PlannedInv
    <3> QED
      BY <1>4, <3>1, <3>2
  <2> QED
    BY <1>3, <2>1 DEF PlannedInv, Exists
<1> QED
  BY <1>5, <1>6, <1>7 DEF PlanInv

LEMMA TagCommandKeeps ==
    ASSUME PlanInv, NEW t \in Tags,
           \/ \E b \in Buckets : CreateTag(t, b) \/ MoveTag(t, b)
           \/ \E into \in Tags \cup {None} : DeleteTag(t, into)
    PROVE  PlanInv'
<1>1. tags[t] \in Tagged /\ rows \in [Ids -> Planned]
  BY DEF PlanInv, TagsInv, PlannedInv
<1>2. ASSUME NEW b \in Buckets, CreateTag(t, b) PROVE PlanInv'
  <2> DEFINE new == [state |-> "live", bucket |-> b, system |-> FALSE]
  <2>1. new \in Tagged /\ Exists(new) /\ new.bucket = b
    BY DEF Tagged, States, Exists
  <2>2. Onto(t, new) /\ Exists(buckets[b]) /\ UNCHANGED <<buckets, budgets, rows>>
    BY <1>2 DEF CreateTag
  <2> HIDE DEF new
  <2> QED
    BY <1>1, <2>1, <2>2, TagWritten
<1>3. ASSUME NEW b \in Buckets, MoveTag(t, b) PROVE PlanInv'
  <2> DEFINE new == [tags[t] EXCEPT !.bucket = b]
  <2>1. Onto(t, new) /\ Exists(buckets[b]) /\ UNCHANGED <<buckets, budgets, rows>> /\ tags[t].state = "live"
    BY <1>3 DEF MoveTag
  <2>2. new \in Tagged /\ Exists(new) /\ new.bucket = b
    BY <1>1, <2>1 DEF Tagged, Exists
  <2> HIDE DEF new
  <2> QED
    BY <1>1, <2>1, <2>2, TagWritten
<1>4. ASSUME NEW into \in Tags \cup {None}, DeleteTag(t, into) PROVE PlanInv'
  <2> DEFINE new == [tags[t] EXCEPT !.state = "deleted"]
             u == [i \in Ids |-> IF into # None /\ rows[i].state = "live" /\ rows[i].tag = t
                                 THEN [rows[i] EXCEPT !.tag = into] ELSE rows[i]]
  <2>1. /\ Onto(t, new) /\ UNCHANGED <<buckets, budgets>> /\ tags[t].state = "live"
        /\ rows' = u /\ (into # None => Exists(tags[into]))
    BY <1>4 DEF DeleteTag
  <2>2. new \in Tagged /\ Exists(new) /\ new.bucket = tags[t].bucket
    BY <1>1 DEF Tagged, Exists, States
  <2>3. Exists(buckets[tags[t].bucket])
    BY <2>1 DEF PlanInv, TagsInv, Exists
  <2>4. \A i \in Ids : [rows[i] EXCEPT !.tag = into] \in Planned /\ [rows[i] EXCEPT !.tag = into].tag = into
    BY <1>1 DEF Planned
  <2>5. u \in [Ids -> Planned] /\ \A i \in Ids : \/ u[i].tag = rows[i].tag
                                                 \/ u[i].tag = into /\ into # None
    BY <1>1, <2>4
  <2>6. into # None => into \in Tags
    OBVIOUS
  <2> HIDE DEF new, u
  <2>7. \A i \in Ids : u[i].tag = rows[i].tag \/ (u[i].tag \in Tags /\ Exists(tags[u[i].tag]))
    BY <2>1, <2>5, <2>6
  <2> QED
    BY <2>1, <2>2, <2>3, <2>5, <2>7, TagWritten
<1> QED
  BY <1>2, <1>3, <1>4

LEMMA BudgetWritten ==
    ASSUME PlanInv, NEW new, Upsert(new), UNCHANGED <<buckets, tags, rows>>,
           DOMAIN new \subseteq Buckets \X Months,
           \A p \in DOMAIN new : new[p] \in Nat /\ Exists(buckets[p[1]])
    PROVE  PlanInv'
<1> DEFINE to == [p \in DOMAIN new \cup DOMAIN budgets |-> IF p \in DOMAIN new THEN new[p] ELSE budgets[p]]
<1>1. DOMAIN to = DOMAIN new \cup DOMAIN budgets
  OBVIOUS
<1>2. \A p \in DOMAIN to : to[p] = IF p \in DOMAIN new THEN new[p] ELSE budgets[p]
  OBVIOUS
<1> HIDE DEF to
<1>3. DOMAIN to \subseteq Buckets \X Months /\ \A p \in DOMAIN to : to[p] \in Nat /\ Exists(buckets[p[1]])
  BY <1>1, <1>2 DEF PlanInv, BudgetsInv
<1>4. budgets' = to
  BY DEF to, Upsert
<1>5. BudgetsInv'
  BY <1>3, <1>4 DEF BudgetsInv, Exists
<1>6. BucketsInv' /\ TagsInv' /\ PlannedInv'
  BY DEF PlanInv, BucketsInv, TagsInv, PlannedInv, Exists
<1> QED
  BY <1>5, <1>6 DEF PlanInv

LEMMA SetAllocationKeeps ==
    ASSUME PlanInv, NEW b \in Buckets, NEW m \in Months, NEW n \in Allocations, SetAllocation(b, m, n)
    PROVE  PlanInv'
<1> DEFINE new == [p \in {<<b, m>>} |-> n]
<1>1. DOMAIN new = {<<b, m>>} /\ new[<<b, m>>] = n
  OBVIOUS
<1>2. Upsert(new) /\ UNCHANGED <<buckets, tags, rows>> /\ Exists(buckets[b])
  BY DEF SetAllocation
<1>3. n \in Nat
  BY PlanningAssumption
<1> HIDE DEF new
<1>4. DOMAIN new \subseteq Buckets \X Months /\ \A p \in DOMAIN new : new[p] \in Nat /\ Exists(buckets[p[1]])
  BY <1>1, <1>2, <1>3
<1> QED
  BY <1>2, <1>4, BudgetWritten

LEMMA CopyFromPreviousMonthKeeps ==
    ASSUME PlanInv, NEW m \in Months, CopyFromPreviousMonth(m)
    PROVE  PlanInv'
<1> DEFINE previous == {b \in Buckets : Budgeted(b, m - 1)}
           new == [p \in previous \X {m} |-> budgets[<<p[1], m - 1>>]]
<1>1. Upsert(new) /\ UNCHANGED <<buckets, tags, rows>>
  BY DEF CopyFromPreviousMonth
<1>2. DOMAIN new \subseteq Buckets \X Months
  OBVIOUS
<1>3. ASSUME NEW p \in DOMAIN new PROVE new[p] \in Nat /\ Exists(buckets[p[1]])
  <2>1. PICK b \in previous : p = <<b, m>>
    OBVIOUS
  <2>2. new[p] = budgets[<<b, m - 1>>] /\ p[1] = b /\ <<b, m - 1>>[1] = b
    BY <2>1
  <2>3. <<b, m - 1>> \in DOMAIN budgets
    BY DEF Budgeted
  <2> QED
    BY <2>2, <2>3 DEF PlanInv, BudgetsInv
<1> HIDE DEF new
<1> QED
  BY <1>1, <1>2, <1>3, BudgetWritten

LEMMA EntryWritten ==
    ASSUME PlanInv, NEW i \in Ids, NEW to \in Planned, OnlyRow(i, to), to.tag # None => Exists(tags[to.tag])
    PROVE  PlanInv'
<1> DEFINE u == [rows EXCEPT ![i] = to]
<1>1. u \in [Ids -> Planned] /\ u[i] = to /\ \A j \in Ids \ {i} : u[j] = rows[j]
  BY DEF PlanInv, PlannedInv
<1>2. rows' = u /\ UNCHANGED <<buckets, tags, budgets>>
  BY DEF OnlyRow
<1> HIDE DEF u
<1>3. \A j \in Ids : u[j].tag # None => Exists(tags[u[j].tag])
  BY <1>1 DEF PlanInv, PlannedInv
<1>4. PlannedInv'
  BY <1>1, <1>2, <1>3 DEF PlannedInv, Exists
<1>5. BucketsInv' /\ TagsInv' /\ BudgetsInv'
  BY <1>2 DEF PlanInv, BucketsInv, TagsInv, BudgetsInv, Exists
<1> QED
  BY <1>4, <1>5 DEF PlanInv

LEMMA EntryCommandKeeps ==
    ASSUME PlanInv, NEW i \in Ids,
           \/ \E k \in PlanKinds, m \in Months, t \in Tags \cup {None}, n \in Amounts : Record(i, k, m, t, n)
           \/ \E t \in Tags \cup {None} : Retag(i, t)
           \/ Discard(i) \/ Restore(i)
    PROVE  PlanInv'
<1>1. rows[i] \in Planned /\ (rows[i].tag # None => Exists(tags[rows[i].tag]))
  BY DEF PlanInv, PlannedInv
<1>2. ASSUME NEW k \in PlanKinds, NEW m \in Months, NEW t \in Tags \cup {None}, NEW n \in Amounts,
             Record(i, k, m, t, n)
      PROVE  PlanInv'
  <2> DEFINE to == [state |-> "live", kind |-> k, month |-> m, tag |-> t, amount |-> n]
  <2>1. to \in Planned /\ to.tag = t
    BY BooksAssumption DEF Planned, States
  <2>2. OnlyRow(i, to) /\ (t # None => Exists(tags[t]))
    BY <1>2 DEF Record
  <2> HIDE DEF to
  <2> QED
    BY <2>1, <2>2, EntryWritten
<1>3. ASSUME NEW t \in Tags \cup {None}, Retag(i, t) PROVE PlanInv'
  <2> DEFINE to == [rows[i] EXCEPT !.tag = t]
  <2>1. to \in Planned /\ to.tag = t
    BY <1>1 DEF Planned
  <2>2. OnlyRow(i, to) /\ (t # None => Exists(tags[t]))
    BY <1>3 DEF Retag
  <2> HIDE DEF to
  <2> QED
    BY <2>1, <2>2, EntryWritten
<1>4. ASSUME NEW s \in {"live", "deleted"}, OnlyRow(i, [rows[i] EXCEPT !.state = s]) PROVE PlanInv'
  <2> DEFINE to == [rows[i] EXCEPT !.state = s]
  <2>1. to \in Planned /\ to.tag = rows[i].tag
    BY <1>1 DEF Planned, States
  <2>2. OnlyRow(i, to)
    BY <1>4
  <2> HIDE DEF to
  <2> QED
    BY <1>1, <2>1, <2>2, EntryWritten
<1>5. CASE Discard(i)
  BY <1>4, <1>5 DEF Discard
<1>6. CASE Restore(i)
  BY <1>4, <1>6 DEF Restore
<1> QED
  BY <1>2, <1>3, <1>5, <1>6

LEMMA PlanNextInv ==
    ASSUME PlanInv, [PlanNext]_planVars
    PROVE  PlanInv'
<1>1. CASE UNCHANGED planVars
  BY <1>1 DEF planVars, PlanInv, BucketsInv, TagsInv, BudgetsInv, PlannedInv, Exists
<1>2. ASSUME NEW b \in Buckets,
             \/ CreateBucket(b) \/ DeleteBucket(b)
             \/ \E enabled \in BOOLEAN : SetRolloverEnabled(b, enabled)
             \/ \E t \in Tags : CreateTag(t, b) \/ MoveTag(t, b)
             \/ \E m \in Months, n \in Allocations : SetAllocation(b, m, n)
      PROVE  PlanInv'
  BY <1>2, BucketCommandKeeps, TagCommandKeeps, SetAllocationKeeps
<1>3. ASSUME NEW t \in Tags, NEW into \in Tags \cup {None}, DeleteTag(t, into) PROVE PlanInv'
  BY <1>3, TagCommandKeeps
<1>4. ASSUME NEW m \in Months, CopyFromPreviousMonth(m) PROVE PlanInv'
  BY <1>4, CopyFromPreviousMonthKeeps
<1>5. ASSUME NEW i \in Ids,
             \/ \E k \in PlanKinds, m \in Months, t \in Tags \cup {None}, n \in Amounts : Record(i, k, m, t, n)
             \/ \E t \in Tags \cup {None} : Retag(i, t)
             \/ Discard(i) \/ Restore(i)
      PROVE  PlanInv'
  BY <1>5, EntryCommandKeeps
<1>6. CASE Command
  BY <1>2, <1>3, <1>4, <1>5, <1>6 DEF Command
<1> QED
  BY <1>1, <1>6 DEF PlanNext

LEMMA PlanInvariant == PlanSpec => []PlanInv
<1>1. PlanInv /\ [PlanNext]_planVars => PlanInv'
  BY PlanNextInv
<1> QED
  BY <1>1, PlanInitInv, PTL DEF PlanSpec

\* Whatever is merged, moved or deleted, tags, budget rows and transactions
\* point at what exists or existed (categories.rs, budgets.rs, transactions.rs).
THEOREM PlanTypeCorrect == PlanSpec => []PlanTypeOK
<1>1. PlanInv => PlanTypeOK
  <2> SUFFICES ASSUME PlanInv PROVE PlanTypeOK
    OBVIOUS
  <2>1. \A i \in Ids : /\ rows[i].kind \in PlanKinds /\ rows[i].month \in Months /\ rows[i].amount > 0
                       /\ rows[i].tag # None => Exists(tags[rows[i].tag])
    BY DEF PlanInv, PlannedInv, Planned
  <2> QED
    BY <2>1 DEF PlanInv, PlanTypeOK, BucketsInv, Bucketed, TagsInv, Tagged, BudgetsInv
<1> QED
  BY <1>1, PlanInvariant, PTL

----------------------------------------------------------------------------
(* What the queries of Planning add up. *)

Amount == [i \in Ids |-> rows[i].amount]
OfKind(kind, ids) == {i \in ids : rows[i].kind = kind}

LEMMA TotalIs == \A kind, ids : Total(kind, ids) = Sum(Amount, OfKind(kind, ids))
BY DEF Total, Amount, OfKind

LEMMA AmountIsNat == ASSUME PlanInv PROVE \A i \in Ids : Amount[i] \in Nat
BY DEF PlanInv, PlannedInv, Planned, Amount

LEMMA OfKindFinite ==
    ASSUME NEW kind, NEW ids \in SUBSET Ids
    PROVE  OfKind(kind, ids) \subseteq Ids /\ IsFiniteSet(OfKind(kind, ids))
BY BooksAssumption, FS_Subset DEF OfKind

LEMMA TotalNatural ==
    ASSUME PlanInv, NEW kind, NEW ids \in SUBSET Ids
    PROVE  Total(kind, ids) \in Nat
<1>1. \A i \in OfKind(kind, ids) : Amount[i] \in Nat
  BY AmountIsNat, OfKindFinite
<1>2. Sum(Amount, OfKind(kind, ids)) \in Nat
  BY <1>1, OfKindFinite, SumNatural
<1> QED
  BY <1>2, TotalIs

LEMMA TotalOfNone == ASSUME NEW kind PROVE Total(kind, {}) = 0
<1>1. OfKind(kind, {}) = {}
  BY DEF OfKind
<1> QED
  BY <1>1, SumEmpty, TotalIs

LEMMA TotalOfParts ==
    ASSUME PlanInv, NEW kind, NEW ids \in SUBSET Ids, NEW part \in SUBSET ids
    PROVE  Total(kind, ids) = Total(kind, ids \ part) + Total(kind, part)
<1> DEFINE S == OfKind(kind, ids \ part)
           T == OfKind(kind, part)
<1>1. S \cup T = OfKind(kind, ids) /\ S \cap T = {}
  BY DEF OfKind
<1>2. IsFiniteSet(S) /\ IsFiniteSet(T) /\ \A i \in S \cup T : Amount[i] \in Int
  <2>1. ids \ part \in SUBSET Ids /\ part \in SUBSET Ids
    OBVIOUS
  <2> QED
    BY <1>1, <2>1, OfKindFinite, AmountIsNat
<1> HIDE DEF S, T
<1>3. Sum(Amount, S \cup T) = Sum(Amount, S) + Sum(Amount, T)
  BY <1>1, <1>2, SumUnion
<1> QED
  BY <1>1, <1>3, TotalIs DEF S, T

\* The totals of the tags or buckets that some rows have add up to the total of the rows.
TotalsBy(kind, ids, c, A) == [a \in A |-> Total(kind, Class(ids, c, a))]
LEMMA TotalByClass ==
    ASSUME PlanInv, NEW kind, NEW ids \in SUBSET Ids, NEW A, IsFiniteSet(A), NEW c, \A i \in ids : c[i] \in A
    PROVE  Total(kind, ids) = Sum(TotalsBy(kind, ids, c, A), A)
<1> DEFINE S == OfKind(kind, ids)
<1>1. IsFiniteSet(S) /\ \A i \in S : Amount[i] \in Int /\ c[i] \in A
  <2>1. S \subseteq Ids /\ IsFiniteSet(S)
    BY OfKindFinite
  <2>2. S \subseteq ids
    BY DEF OfKind
  <2> HIDE DEF S
  <2> QED
    BY <2>1, <2>2, AmountIsNat
<1>2. \A a \in A : Class(S, c, a) = OfKind(kind, Class(ids, c, a))
  BY DEF Class, OfKind
<1> HIDE DEF S
<1>3. Sum(Amount, S) = Sum(ClassSums(Amount, S, c, A), A)
  BY <1>1, SumByClass
<1>4. \A a \in A : ClassSums(Amount, S, c, A)[a] = TotalsBy(kind, ids, c, A)[a]
  BY <1>2, TotalIs DEF ClassSums, TotalsBy
<1>5. Sum(ClassSums(Amount, S, c, A), A) = Sum(TotalsBy(kind, ids, c, A), A)
  BY <1>4, SumSame
<1> QED
  BY <1>3, <1>5, TotalIs DEF S

LEMMA RowsOfMonth ==
    ASSUME NEW m
    PROVE  /\ RowsOf(m) \in SUBSET Ids
           /\ \A b : In(b, m) \in SUBSET RowsOf(m) /\ In(b, m) \in SUBSET Ids
           /\ \A t : OfTag(t, m) \in SUBSET RowsOf(m) /\ OfTag(t, m) \in SUBSET Ids
BY DEF RowsOf, In, OfTag

----------------------------------------------------------------------------
(* The reports. *)

TagOfRow == [i \in Ids |-> rows[i].tag]
BucketOfRow == [i \in Ids |-> Bucket(i)]
TagsIn(m) == {rows[i].tag : i \in RowsOf(m)}
Categorised(m) == {i \in RowsOf(m) : rows[i].tag # None}

LEMMA StackedAddsUp ==
    ASSUME PlanInv, NEW m, NEW adjusted \in BOOLEAN
    PROVE  Sum(Stacked(m, adjusted), DOMAIN Stacked(m, adjusted))
             = SpentOf(RowsOf(m)) + (IF adjusted THEN Total("adjustment", RowsOf(m)) ELSE 0)
<1> DEFINE A == TagsIn(m)
           by(kind) == TotalsBy(kind, RowsOf(m), TagOfRow, A)
           extra == [t \in A |-> IF adjusted THEN by("adjustment")[t] ELSE 0]
           both == [t \in A |-> by("expense")[t] + extra[t]]
<1>1. IsFiniteSet(A)
  <2>1. \A i \in RowsOf(m) : rows[i].tag \in Tags \cup {None}
    BY RowsOfMonth DEF PlanInv, PlannedInv, Planned
  <2>2. A \subseteq Tags \cup {None}
    BY <2>1 DEF TagsIn
  <2>3. IsFiniteSet(Tags \cup {None})
    BY PlanningAssumption, FS_AddElement
  <2> HIDE DEF A
  <2> QED
    BY <2>2, <2>3, FS_Subset
<1>2. \A kind : Total(kind, RowsOf(m)) = Sum(by(kind), A)
  <2>1. \A i \in RowsOf(m) : TagOfRow[i] \in A
    BY RowsOfMonth DEF TagOfRow, TagsIn
  <2> HIDE DEF A
  <2> QED
    BY <1>1, <2>1, RowsOfMonth, TotalByClass
<1>3. \A t \in A : Class(RowsOf(m), TagOfRow, t) = OfTag(t, m)
  BY RowsOfMonth DEF Class, TagOfRow, OfTag
<1>4. \A kind : \A t \in A : by(kind)[t] \in Int /\ by(kind)[t] = Total(kind, OfTag(t, m))
  BY <1>3, TotalNatural, RowsOfMonth DEF TotalsBy
<1>5. DOMAIN Stacked(m, adjusted) = A
  BY DEF Stacked, TagsIn
<1>6. \A t \in A : Stacked(m, adjusted)[t] = SpentOf(OfTag(t, m)) + (IF adjusted THEN Total("adjustment", OfTag(t, m)) ELSE 0)
  BY DEF Stacked, TagsIn, CategoryTrend
<1> HIDE DEF A, by
<1>7. \A t \in A : /\ extra[t] \in Int
                   /\ extra[t] = IF adjusted THEN Total("adjustment", OfTag(t, m)) ELSE 0
                   /\ both[t] = by("expense")[t] + extra[t]
  BY <1>4
<1> HIDE DEF extra, both
<1>8. \A t \in A : Stacked(m, adjusted)[t] \in Int /\ both[t] = Stacked(m, adjusted)[t] + by("refund")[t]
  BY <1>4, <1>6, <1>7 DEF SpentOf
<1>9. Sum(both, A) = Sum(by("expense"), A) + Sum(extra, A)
  BY <1>1, <1>4, <1>7, SumPlus
<1>10. Sum(both, A) = Sum(Stacked(m, adjusted), A) + Sum(by("refund"), A)
  BY <1>1, <1>4, <1>8, SumPlus
<1>11. Sum(extra, A) = IF adjusted THEN Total("adjustment", RowsOf(m)) ELSE 0
  <2>1. CASE adjusted
    <3>1. \A t \in A : extra[t] = by("adjustment")[t]
      BY <1>4, <1>7, <2>1
    <3> QED
      BY <1>1, <1>2, <2>1, <3>1, SumSame
  <2>2. CASE ~adjusted
    BY <1>1, <1>7, <2>2, SumZero
  <2> QED
    BY <2>1, <2>2
<1>12. Sum(Stacked(m, adjusted), A) \in Int
  BY <1>1, <1>8, SumInt
<1>13. \A kind : Total(kind, RowsOf(m)) \in Int
  BY TotalNatural, RowsOfMonth
<1> QED
  BY <1>2, <1>5, <1>9, <1>10, <1>11, <1>12, <1>13 DEF SpentOf

LEMMA CategoriesAddUp ==
    ASSUME PlanInv, NEW m
    PROVE  Sum(Comparison(m), Tags) = Sum(SpendingByBucket(m), Buckets)
<1> DEFINE S == Categorised(m)
<1>1. S \in SUBSET Ids /\ IsFiniteSet(Tags) /\ IsFiniteSet(Buckets)
  BY RowsOfMonth, PlanningAssumption DEF Categorised
<1>2. \A i \in S : TagOfRow[i] = rows[i].tag /\ BucketOfRow[i] = Bucket(i)
  BY <1>1 DEF TagOfRow, BucketOfRow
<1>3. \A i \in S : TagOfRow[i] \in Tags /\ BucketOfRow[i] \in Buckets
  <2> SUFFICES ASSUME NEW i \in S PROVE TagOfRow[i] \in Tags /\ BucketOfRow[i] \in Buckets
    OBVIOUS
  <2>1. rows[i] \in Planned /\ rows[i].tag # None
    BY <1>1 DEF Categorised, PlanInv, PlannedInv
  <2>2. rows[i].tag \in Tags
    BY <2>1 DEF Planned
  <2>3. tags[rows[i].tag].bucket \in Buckets
    BY <2>2 DEF PlanInv, TagsInv, Tagged
  <2> QED
    BY <1>2, <2>1, <2>2, <2>3 DEF Bucket
<1>4. \A t \in Tags : Class(S, TagOfRow, t) = OfTag(t, m)
  BY <1>2, PlanningAssumption DEF Class, Categorised, OfTag
<1>5. \A b \in Buckets : Class(S, BucketOfRow, b) = In(b, m)
  <2> SUFFICES ASSUME NEW b \in Buckets PROVE Class(S, BucketOfRow, b) = In(b, m)
    OBVIOUS
  <2>1. b # None
    BY PlanningAssumption
  <2>2. \A i \in RowsOf(m) : Bucket(i) = b => i \in S
    BY <2>1 DEF Bucket, Categorised
  <2>3. S \subseteq RowsOf(m)
    BY DEF Categorised
  <2> HIDE DEF S
  <2> QED
    BY <1>2, <2>2, <2>3 DEF Class, In
<1> HIDE DEF S
<1>6. /\ Total("expense", S) = Sum(TotalsBy("expense", S, TagOfRow, Tags), Tags)
      /\ Total("expense", S) = Sum(TotalsBy("expense", S, BucketOfRow, Buckets), Buckets)
  BY <1>1, <1>3, TotalByClass
<1>7. \A t \in Tags : Comparison(m)[t] = TotalsBy("expense", S, TagOfRow, Tags)[t]
  BY <1>4 DEF Comparison, TotalsBy
<1>8. \A b \in Buckets : SpendingByBucket(m)[b] = TotalsBy("expense", S, BucketOfRow, Buckets)[b]
  BY <1>5 DEF SpendingByBucket, TotalsBy
<1> QED
  BY <1>1, <1>6, <1>7, <1>8, SumSame

LEMMA OverviewHides ==
    ASSUME PlanInv, NEW m, NEW adjusted \in BOOLEAN,
           NEW hidden, hidden = IF adjusted THEN {} ELSE In(Adjustments, m)
    PROVE  /\ Overview(m, adjusted).expense = Trend(m, adjusted).expense - SpentOf(hidden)
           /\ Overview(m, adjusted).income = Trend(m, adjusted).income - Total("income", hidden)
<1> DEFINE S == RowsOf(m)
<1>1. S \in SUBSET Ids /\ hidden \in SUBSET S /\ hidden \in SUBSET Ids /\ S \ hidden \in SUBSET Ids
  BY RowsOfMonth
<1>2. \A kind : /\ Total(kind, S) = Total(kind, S \ hidden) + Total(kind, hidden)
                /\ Total(kind, S) \in Int /\ Total(kind, S \ hidden) \in Int /\ Total(kind, hidden) \in Int
  <2> HIDE DEF S
  <2>1. \A kind : Total(kind, S) = Total(kind, S \ hidden) + Total(kind, hidden)
    BY <1>1, TotalOfParts
  <2>2. \A kind : Total(kind, S) \in Int /\ Total(kind, S \ hidden) \in Int /\ Total(kind, hidden) \in Int
    BY <1>1, TotalNatural
  <2> QED
    BY <2>1, <2>2
<1>3. Overview(m, adjusted) = Totals(S \ hidden, adjusted)
  BY DEF Overview
<1>4. adjusted => S \ hidden = S
  OBVIOUS
<1> HIDE DEF S
<1>5. SpentOf(S) = SpentOf(S \ hidden) + SpentOf(hidden) /\ SpentOf(S \ hidden) \in Int /\ SpentOf(hidden) \in Int
  <2>1. \A kind \in {"expense", "refund"} :
          /\ Total(kind, S) = Total(kind, S \ hidden) + Total(kind, hidden)
          /\ Total(kind, S \ hidden) \in Int /\ Total(kind, hidden) \in Int
    BY <1>2
  <2> QED
    BY <2>1 DEF SpentOf
<1>6. Trend(m, adjusted) = Totals(S, adjusted)
  BY DEF Trend, S
<1>7. CASE adjusted
  <2>1. \A kind : Total(kind, hidden) = 0
    BY <1>7, TotalOfNone
  <2> QED
    BY <1>2, <1>3, <1>4, <1>5, <1>6, <1>7, <2>1 DEF Totals, SpentOf
<1>8. CASE ~adjusted
  <2>1. /\ Total("income", S) = Total("income", S \ hidden) + Total("income", hidden)
        /\ Total("income", S \ hidden) \in Int /\ Total("income", hidden) \in Int
    BY <1>2
  <2>2. /\ Trend(m, adjusted).income = Total("income", S) + 0
        /\ Overview(m, adjusted).income = Total("income", S \ hidden) + 0
        /\ Trend(m, adjusted).expense = SpentOf(S)
        /\ Overview(m, adjusted).expense = SpentOf(S \ hidden)
    BY <1>3, <1>6, <1>8 DEF Totals
  <2> QED
    BY <1>5, <2>1, <2>2
<1> QED
  BY <1>7, <1>8

\* The reports tell one story with the budgets, whatever rows, tags and
\* buckets there are (reports.rs, budgets.rs).
THEOREM ReportsAlwaysAgree == PlanSpec => []ReportsAgree
<1>1. PlanInv => ReportsAgree
  <2> SUFFICES ASSUME PlanInv, NEW m \in Months, NEW adjusted \in BOOLEAN,
                      NEW hidden, hidden = IF adjusted THEN {} ELSE In(Adjustments, m)
               PROVE  /\ \A b \in Buckets : TrendOf(b, m, adjusted).expense = Spent(b, m)
                      /\ Sum(Stacked(m, adjusted), DOMAIN Stacked(m, adjusted))
                           = Trend(m, adjusted).expense + (IF adjusted THEN Total("adjustment", RowsOf(m)) ELSE 0)
                      /\ Overview(m, adjusted).expense = Trend(m, adjusted).expense - SpentOf(hidden)
                      /\ Overview(m, adjusted).income = Trend(m, adjusted).income - Total("income", hidden)
                      /\ YearOverYear(m, adjusted) = Trend(m, adjusted)
                      /\ Sum(Comparison(m), Tags) = Sum(SpendingByBucket(m), Buckets)
                      /\ MonthIncome(m) = Trend(m, FALSE).income
    BY DEF ReportsAgree
  <2>1. \A b \in Buckets : TrendOf(b, m, adjusted).expense = Spent(b, m)
    BY DEF TrendOf, Totals, Spent
  <2>2. Sum(Stacked(m, adjusted), DOMAIN Stacked(m, adjusted))
          = Trend(m, adjusted).expense + (IF adjusted THEN Total("adjustment", RowsOf(m)) ELSE 0)
    <3>1. Trend(m, adjusted).expense = SpentOf(RowsOf(m))
      BY DEF Trend, Totals
    <3> QED
      BY <3>1, StackedAddsUp
  <2>3. /\ Overview(m, adjusted).expense = Trend(m, adjusted).expense - SpentOf(hidden)
        /\ Overview(m, adjusted).income = Trend(m, adjusted).income - Total("income", hidden)
    BY OverviewHides
  <2>4. YearOverYear(m, adjusted) = Trend(m, adjusted)
    BY DEF YearOverYear, Trend
  <2>5. Sum(Comparison(m), Tags) = Sum(SpendingByBucket(m), Buckets)
    BY CategoriesAddUp
  <2>6. MonthIncome(m) = Trend(m, FALSE).income
    <3>1. Total("income", RowsOf(m)) \in Int
      BY RowsOfMonth, TotalNatural
    <3> QED
      BY <3>1 DEF MonthIncome, Trend, Totals
  <2> QED
    BY <2>1, <2>2, <2>3, <2>4, <2>5, <2>6
<1> QED
  BY <1>1, PlanInvariant, PTL

----------------------------------------------------------------------------
(* The buckets, month by month: what is put in, what is paid out of it     *)
(* while it is budgeted, and what next month's pool makes good.            *)

Put(b, n) == IF Budgeted(b, n) THEN budgets[<<b, n>>] ELSE 0
Paid(b, n) == IF Budgeted(b, n) THEN Spent(b, n) ELSE 0
Owed(b, n) == IF Budgeted(b, n) /\ ~buckets[b].rollover THEN Floor(-Available(b, n)) ELSE 0

LEMMA BeforeFirst == ASSUME PlanInv, NEW b PROVE ~Budgeted(b, 0)
<1>1. 0 \notin Months
  BY FirstMonth
<1> QED
  BY <1>1 DEF PlanInv, BudgetsInv, Budgeted

LEMMA SpentIsInt == ASSUME PlanInv, NEW b, NEW n PROVE Spent(b, n) \in Int
<1>1. Total("expense", In(b, n)) \in Nat /\ Total("refund", In(b, n)) \in Nat
  BY RowsOfMonth, TotalNatural
<1> QED
  BY <1>1 DEF Spent, SpentOf

LEMMA PutAndPaid ==
    ASSUME PlanInv, NEW b, NEW n
    PROVE  Put(b, n) \in Nat /\ Paid(b, n) \in Int
<1>1. Put(b, n) \in Nat
  BY DEF PlanInv, BudgetsInv, Put, Budgeted
<1>2. Paid(b, n) \in Int
  BY SpentIsInt DEF Paid
<1> QED
  BY <1>1, <1>2

Rolled(b, n, x) ==
    IF ~Budgeted(b, n) THEN x
    ELSE LET rolled == x + budgets[<<b, n>>] - Spent(b, n)
         IN IF buckets[b].rollover THEN rolled ELSE Floor(rolled)
Carries(w, b) == w = [n \in Months |-> IF n = 1 THEN 0 ELSE Rolled(b, n - 1, w[n - 1])]

LEMMA RolledIsInt ==
    ASSUME PlanInv, NEW b, NEW n, NEW x \in Int
    PROVE  Rolled(b, n, x) \in Int
<1>1. Budgeted(b, n) => budgets[<<b, n>>] \in Nat
  BY DEF PlanInv, BudgetsInv, Budgeted
<1>2. Spent(b, n) \in Int
  BY SpentIsInt
<1> QED
  BY <1>1, <1>2 DEF Rolled, Floor

LEMMA CarryExists == ASSUME PlanInv, NEW b PROVE \E w : Carries(w, b)
<1>1. PICK k \in Nat \ {0} : Months = 1..k
  BY FirstMonth
<1> DEFINE G == [p \in (1..k) \X Int |-> Rolled(b, p[1] - 1, p[2])]
<1>2. G \in [(1..k) \X Int -> Int]
  <2>1. \A p \in (1..k) \X Int : Rolled(b, p[1] - 1, p[2]) \in Int
    <3> SUFFICES ASSUME NEW p \in (1..k) \X Int PROVE Rolled(b, p[1] - 1, p[2]) \in Int
      OBVIOUS
    <3>1. p[2] \in Int
      OBVIOUS
    <3> QED
      BY <3>1, RolledIsInt
  <2> QED
    BY <2>1
<1>3. \A n \in 1..k, x \in Int : G[<<n, x>>] = Rolled(b, n - 1, x)
  OBVIOUS
<1> HIDE DEF G
<1>4. PICK l \in 1..k, s \in Int : l = 1 /\ s = 0
  OBVIOUS
<1>5. PICK w \in [1..k -> Int] : \A n \in 1..k : w[n] = IF n = 1 THEN 0 ELSE G[<<n, w[n - 1]>>]
  <2>1. \E w : Walks(w, l, k, s, G)
    BY <1>2, WalkExists
  <2> QED
    BY <1>4, <2>1 DEF Walks
<1>6. \A n \in 1..k : w[n] = IF n = 1 THEN 0 ELSE Rolled(b, n - 1, w[n - 1])
  <2> SUFFICES ASSUME NEW n \in 1..k, n # 1 PROVE w[n] = Rolled(b, n - 1, w[n - 1])
    BY <1>5
  <2>1. w[n - 1] \in Int
    BY <1>5
  <2> QED
    BY <1>3, <1>5, <2>1
<1>7. w = [n \in 1..k |-> w[n]]
  OBVIOUS
<1>8. w = [n \in 1..k |-> IF n = 1 THEN 0 ELSE Rolled(b, n - 1, w[n - 1])]
  BY <1>6, <1>7
<1> QED
  BY <1>1, <1>8 DEF Carries

Carry(b) == CHOOSE w : Carries(w, b)

LEMMA RolledOverIs == \A b, m : RolledOver(b, m) = Carry(b)[m]
BY DEF RolledOver, Carry, Carries, Rolled

LEMMA RolledOverStep ==
    ASSUME PlanInv, NEW b, NEW m \in Months
    PROVE  RolledOver(b, m) = IF m = 1 THEN 0 ELSE Rolled(b, m - 1, RolledOver(b, m - 1))
<1> DEFINE w == Carry(b)
<1>1. Carries(w, b)
  BY CarryExists DEF Carry
<1> HIDE DEF w
<1>2. w[m] = IF m = 1 THEN 0 ELSE Rolled(b, m - 1, w[m - 1])
  BY <1>1 DEF Carries
<1> QED
  BY <1>2, RolledOverIs DEF w

LEMMA RolledOverIsInt == ASSUME PlanInv, NEW b, NEW m \in Months PROVE RolledOver(b, m) \in Int
<1>1. PICK k \in Nat \ {0} : Months = 1..k
  BY FirstMonth
<1> DEFINE Bad == {n \in 1..k : RolledOver(b, n) \notin Int}
<1> SUFFICES ASSUME m \in Bad PROVE FALSE
  BY <1>1
<1>2. PICK n \in Bad : \A j \in Bad : n <= j
  <2>1. Bad \in SUBSET (1..k) /\ k \in Nat
    OBVIOUS
  <2> HIDE DEF Bad
  <2> QED
    BY <2>1, LeastIn
<1>3. n \in Months /\ RolledOver(b, n) \notin Int
  BY <1>1
<1>4. n # 1
  BY <1>3, RolledOverStep
<1>5. n - 1 \in 1..k /\ n - 1 \notin Bad
  BY <1>2, <1>4
<1>6. RolledOver(b, n - 1) \in Int
  BY <1>5
<1> HIDE DEF Bad
<1>7. RolledOver(b, n) = Rolled(b, n - 1, RolledOver(b, n - 1))
  BY <1>3, <1>4, RolledOverStep
<1> QED
  BY <1>3, <1>6, <1>7, RolledIsInt

LEMMA AvailableIs ==
    ASSUME PlanInv, NEW b, NEW m \in Months
    PROVE  Available(b, m) \in Int /\ Available(b, m) = RolledOver(b, m) + Put(b, m) - Paid(b, m)
<1>1. RolledOver(b, m) \in Int
  BY RolledOverIsInt
<1>2. Put(b, m) \in Nat /\ Paid(b, m) \in Int
  BY PutAndPaid
<1>3. Available(b, m) = RolledOver(b, m) + (Put(b, m) - Paid(b, m))
  BY DEF Available, Put, Paid
<1> QED
  BY <1>1, <1>2, <1>3

LEMMA OwedIsNat == ASSUME PlanInv, NEW b, NEW m PROVE Owed(b, m) \in Nat
<1>1. Budgeted(b, m) => m \in Months
  BY DEF PlanInv, BudgetsInv, Budgeted
<1>2. m \in Months => Available(b, m) \in Int
  BY AvailableIs
<1> QED
  BY <1>1, <1>2 DEF Owed, Floor

\* The floor of the carry and the claw-back are one amount.
LEMMA CarryIs ==
    ASSUME PlanInv, NEW b, NEW m \in Months, m # 1
    PROVE  RolledOver(b, m) = Available(b, m - 1) + Owed(b, m - 1)
<1> DEFINE n == m - 1
<1>1. n \in Months
  BY FirstMonth
<1> HIDE DEF n
<1>2. RolledOver(b, m) = Rolled(b, n, RolledOver(b, n))
  BY RolledOverStep DEF n
<1>3. RolledOver(b, n) \in Int /\ Available(b, n) \in Int
  BY <1>1, RolledOverIsInt, AvailableIs
<1>4. CASE ~Budgeted(b, n)
  <2>1. Available(b, n) = RolledOver(b, n) + 0 /\ Owed(b, n) = 0 /\ Rolled(b, n, RolledOver(b, n)) = RolledOver(b, n)
    BY <1>4 DEF Available, Owed, Rolled
  <2> QED
    BY <1>2, <1>3, <2>1 DEF n
<1>5. CASE Budgeted(b, n)
  <2>1. budgets[<<b, n>>] \in Nat /\ Spent(b, n) \in Int
    BY <1>5, SpentIsInt DEF PlanInv, BudgetsInv, Budgeted
  <2>2. Available(b, n) = RolledOver(b, n) + (budgets[<<b, n>>] - Spent(b, n))
    BY <1>5 DEF Available
  <2>3. Available(b, n) = RolledOver(b, n) + budgets[<<b, n>>] - Spent(b, n)
    BY <1>3, <2>1, <2>2
  <2>4. Rolled(b, n, RolledOver(b, n)) = IF buckets[b].rollover THEN Available(b, n) ELSE Floor(Available(b, n))
    BY <1>5, <2>3 DEF Rolled
  <2>5. Owed(b, n) = IF buckets[b].rollover THEN 0 ELSE Floor(-Available(b, n))
    BY <1>5 DEF Owed
  <2>6. Floor(Available(b, n)) = Available(b, n) + Floor(-Available(b, n))
    BY <1>3 DEF Floor
  <2> QED
    BY <1>2, <1>3, <2>4, <2>5, <2>6 DEF n
<1> QED
  BY <1>4, <1>5

----------------------------------------------------------------------------
(* The pool, month by month. *)

Avails(m) == [b \in Buckets |-> Available(b, m)]
Puts(m) == [b \in Buckets |-> Put(b, m)]
Pays(m) == [b \in Buckets |-> Paid(b, m)]
Owes(m) == [b \in Buckets |-> Owed(b, m)]
Change(m) == MonthIncome(m) - Sum(Owes(m - 1), Buckets) - Sum(Puts(m), Buckets)

LEMMA BucketSums ==
    ASSUME PlanInv, NEW m
    PROVE  /\ IsFiniteSet(Buckets)
           /\ \A b \in Buckets : Puts(m)[b] \in Nat /\ Pays(m)[b] \in Int /\ Owes(m)[b] \in Nat
           /\ Sum(Puts(m), Buckets) \in Int /\ Sum(Pays(m), Buckets) \in Int /\ Sum(Owes(m), Buckets) \in Int
<1>1. IsFiniteSet(Buckets)
  BY PlanningAssumption
<1>2. \A b \in Buckets : Puts(m)[b] \in Nat /\ Pays(m)[b] \in Int /\ Owes(m)[b] \in Nat
  BY PutAndPaid, OwedIsNat DEF Puts, Pays, Owes
<1>3. /\ \A b \in Buckets : Puts(m)[b] \in Int
      /\ \A b \in Buckets : Pays(m)[b] \in Int
      /\ \A b \in Buckets : Owes(m)[b] \in Int
  BY <1>2
<1> QED
  BY <1>1, <1>2, <1>3, SumInt

LEMMA IncomeIsNat == ASSUME PlanInv, NEW m PROVE MonthIncome(m) \in Nat
BY RowsOfMonth, TotalNatural DEF MonthIncome

LEMMA AssignedIs == ASSUME PlanInv, NEW m PROVE MonthAssigned(m) = Sum(Puts(m), Buckets)
<1> DEFINE F == [b \in Buckets |-> budgets[<<b, m>>]]
           T == {b \in Buckets : Budgeted(b, m)}
<1>1. MonthAssigned(m) = Sum(F, T)
  BY DEF MonthAssigned
<1>2. /\ T \in SUBSET Buckets
      /\ \A b \in T : F[b] = Puts(m)[b] /\ Puts(m)[b] \in Int
      /\ \A b \in Buckets \ T : Puts(m)[b] = 0
  <2>1. \A b \in Buckets : Puts(m)[b] \in Int
    BY BucketSums
  <2> QED
    BY <2>1 DEF Puts, Put
<1> HIDE DEF F, T
<1> QED
  BY <1>1, <1>2, BucketSums, SumWhere

LEMMA OverspentIs ==
    ASSUME PlanInv, NEW m
    PROVE  LastMonthOverspent(m) = -Sum(Owes(m - 1), Buckets)
<1> DEFINE F == [b \in Buckets |-> -Floor(-Available(b, m - 1))]
           T == {b \in Buckets : Budgeted(b, m - 1) /\ ~buckets[b].rollover}
           G == [b \in Buckets |-> -Owed(b, m - 1)]
           zero == [b \in Buckets |-> 0]
<1>1. LastMonthOverspent(m) = Sum(F, T)
  BY DEF LastMonthOverspent
<1>2. T \in SUBSET Buckets
  OBVIOUS
<1>3. \A b \in Buckets : Owed(b, m - 1) \in Int /\ G[b] = -Owed(b, m - 1) /\ G[b] \in Int
  BY OwedIsNat
<1>4. /\ \A b \in T : F[b] = G[b] /\ G[b] \in Int
      /\ \A b \in Buckets \ T : G[b] = 0
  <2>1. \A b \in T : Owed(b, m - 1) = Floor(-Available(b, m - 1))
    BY DEF Owed
  <2>2. \A b \in Buckets \ T : Owed(b, m - 1) = 0
    BY DEF Owed
  <2>3. \A b \in T : F[b] = -Floor(-Available(b, m - 1))
    OBVIOUS
  <2> HIDE DEF F, T, G
  <2> QED
    BY <1>2, <1>3, <2>1, <2>2, <2>3
<1>5. \A b \in Buckets : zero[b] = G[b] + Owes(m - 1)[b] /\ zero[b] = 0 /\ Owes(m - 1)[b] \in Int
  BY <1>3 DEF Owes
<1> HIDE DEF F, T, G, zero
<1>6. Sum(F, T) = Sum(G, Buckets)
  BY <1>2, <1>4, BucketSums, SumWhere
<1>7. Sum(zero, Buckets) = Sum(G, Buckets) + Sum(Owes(m - 1), Buckets)
  BY <1>3, <1>5, BucketSums, SumPlus
<1>8. Sum(zero, Buckets) = 0 /\ Sum(G, Buckets) \in Int /\ Sum(Owes(m - 1), Buckets) \in Int
  BY <1>3, <1>5, BucketSums, SumZero, SumInt
<1> QED
  BY <1>1, <1>6, <1>7, <1>8

LEMMA ChangeIs ==
    ASSUME PlanInv, NEW m
    PROVE  /\ Change(m) \in Int
           /\ MonthIncome(m) + LastMonthOverspent(m) - MonthAssigned(m) = Change(m)
<1>1. MonthIncome(m) \in Int /\ Sum(Owes(m - 1), Buckets) \in Int /\ Sum(Puts(m), Buckets) \in Int
  BY IncomeIsNat, BucketSums
<1> QED
  BY <1>1, AssignedIs, OverspentIs DEF Change

\* Nothing moves in a month that is neither paid nor budgeted after one that is not.
LEMMA QuietMonth ==
    ASSUME PlanInv, NEW m \in Months, m \notin PoolMonths, m - 1 \notin PoolMonths
    PROVE  Change(m) = 0
<1>1. MonthIncome(m) = 0
  BY IncomeIsNat DEF PoolMonths, MonthIncome
<1>2. \A b \in Buckets : ~Budgeted(b, m) /\ ~Budgeted(b, m - 1)
  <2>1. \A b \in Buckets, n \in Months : n \notin PoolMonths => ~Budgeted(b, n)
    BY DEF PoolMonths
  <2>2. \A b : Budgeted(b, m - 1) => m - 1 \in Months
    BY DEF PlanInv, BudgetsInv, Budgeted
  <2> QED
    BY <2>1, <2>2
<1>3. \A b \in Buckets : Puts(m)[b] = 0
  BY <1>2 DEF Puts, Put
<1>4. \A b \in Buckets : Owes(m - 1)[b] = 0
  BY <1>2 DEF Owes, Owed
<1>5. Sum(Puts(m), Buckets) = 0 /\ Sum(Owes(m - 1), Buckets) = 0
  BY <1>3, <1>4, BucketSums, SumZero
<1> QED
  BY <1>1, <1>5 DEF Change

LEMMA FirstPoolMonth ==
    ASSUME PlanInv, PoolMonths # {}
    PROVE  Min(PoolMonths) \in PoolMonths /\ \A n \in PoolMonths : Min(PoolMonths) <= n
<1>1. PICK k \in Nat \ {0} : Months = 1..k
  BY FirstMonth
<1>2. PoolMonths \in SUBSET (1..k) /\ k \in Nat
  BY <1>1 DEF PoolMonths
<1>3. \E n \in PoolMonths : \A j \in PoolMonths : n <= j
  BY <1>2, LeastIn
<1> QED
  BY <1>3 DEF Min

Pools(w) ==
    w = [n \in {n \in Months : n >= Min(PoolMonths)} |->
            MonthIncome(n) + LastMonthOverspent(n) - MonthAssigned(n)
              + (IF n = Min(PoolMonths) THEN 0 ELSE w[n - 1])]
Pool == CHOOSE w : Pools(w)

LEMMA ToBudgetIs ==
    \A m : ToBudget(m) = IF PoolMonths \cap 1..m = {} THEN 0 ELSE Pool[m]
BY DEF ToBudget, Pool, Pools

LEMMA PoolExists == ASSUME PlanInv, PoolMonths # {} PROVE \E w : Pools(w)
<1>1. PICK k \in Nat \ {0} : Months = 1..k
  BY FirstMonth
<1>2. PICK l \in 1..k : l = Min(PoolMonths)
  BY <1>1, FirstPoolMonth DEF PoolMonths
<1>3. PICK s \in Int : s = Change(l)
  BY ChangeIs
<1> DEFINE G == [p \in (1..k) \X Int |-> Change(p[1]) + p[2]]
<1>4. G \in [(1..k) \X Int -> Int] /\ \A n \in 1..k, x \in Int : G[<<n, x>>] = Change(n) + x
  BY ChangeIs
<1> HIDE DEF G
<1>5. PICK w : Walks(w, l, k, s, G)
  BY <1>4, WalkExists
<1>6. w \in [l..k -> Int] /\ \A n \in l..k : w[n] = IF n = l THEN s ELSE G[<<n, w[n - 1]>>]
  BY <1>5 DEF Walks
<1>7. {n \in Months : n >= Min(PoolMonths)} = l..k
  BY <1>1, <1>2
<1>8. ASSUME NEW n \in l..k
      PROVE  w[n] = MonthIncome(n) + LastMonthOverspent(n) - MonthAssigned(n) + (IF n = l THEN 0 ELSE w[n - 1])
  <2> DEFINE change == MonthIncome(n) + LastMonthOverspent(n) - MonthAssigned(n)
  <2>1. change = Change(n) /\ Change(n) \in Int
    BY ChangeIs
  <2> HIDE DEF change
  <2> SUFFICES w[n] = change + (IF n = l THEN 0 ELSE w[n - 1])
    BY DEF change
  <2>2. CASE n = l
    <3>1. w[n] = s
      BY <1>6, <2>2
    <3>2. s = Change(n)
      BY <1>3, <2>2
    <3> QED
      BY <2>1, <2>2, <3>1, <3>2
  <2>3. CASE n # l
    <3>1. n - 1 \in l..k /\ n \in 1..k
      BY <2>3
    <3>2. w[n - 1] \in Int
      BY <1>6, <3>1
    <3>3. w[n] = G[<<n, w[n - 1]>>]
      BY <1>6, <2>3
    <3>4. w[n] = Change(n) + w[n - 1]
      BY <1>4, <3>1, <3>2, <3>3
    <3> QED
      BY <2>1, <2>3, <3>4
  <2> QED
    BY <2>2, <2>3
<1>9. w = [n \in l..k |-> w[n]]
  BY <1>6
<1>10. w = [n \in l..k |-> MonthIncome(n) + LastMonthOverspent(n) - MonthAssigned(n) + (IF n = l THEN 0 ELSE w[n - 1])]
  BY <1>8, <1>9
<1> QED
  BY <1>2, <1>7, <1>10 DEF Pools

\* One month more changes the pool by that month's change, first month or not.
LEMMA PoolStep ==
    ASSUME PlanInv, NEW m \in Months, ToBudget(m - 1) \in Int
    PROVE  ToBudget(m) = Change(m) + ToBudget(m - 1)
<1>1. PICK k \in Nat \ {0} : Months = 1..k
  BY FirstMonth
<1>2. PoolMonths \subseteq Months
  BY DEF PoolMonths
<1>3. Change(m) \in Int
  BY ChangeIs
<1>4. CASE PoolMonths \cap 1..m = {}
  <2>1. PoolMonths \cap 1..m - 1 = {} /\ m \notin PoolMonths /\ m - 1 \notin PoolMonths
    BY <1>1, <1>2, <1>4
  <2>2. ToBudget(m) = 0 /\ ToBudget(m - 1) = 0
    BY <1>4, <2>1, ToBudgetIs
  <2> QED
    BY <2>1, <2>2, QuietMonth
<1>5. CASE PoolMonths \cap 1..m # {}
  <2> DEFINE first == Min(PoolMonths)
             w == Pool
  <2>1. PoolMonths # {}
    BY <1>5
  <2>2. first \in PoolMonths /\ \A n \in PoolMonths : first <= n
    BY <2>1, FirstPoolMonth
  <2>3. Pools(w)
    BY <2>1, PoolExists DEF Pool
  <2>4. ToBudget(m) = w[m]
    BY <1>5, ToBudgetIs
  <2>5. first <= m /\ first \in 1..k
    <3>1. PICK n \in PoolMonths : n \in 1..m
      BY <1>5
    <3>2. first <= n /\ first \in 1..k
      BY <1>1, <1>2, <2>2
    <3> HIDE DEF first
    <3> QED
      BY <1>1, <3>1, <3>2
  <2> HIDE DEF w
  <2>6. w[m] = MonthIncome(m) + LastMonthOverspent(m) - MonthAssigned(m) + (IF m = first THEN 0 ELSE w[m - 1])
    <3>1. m \in {n \in Months : n >= first}
      BY <1>1, <2>5
    <3> QED
      BY <2>3, <3>1 DEF Pools
  <2> HIDE DEF first
  <2>7. w[m] = Change(m) + (IF m = first THEN 0 ELSE w[m - 1])
    BY <2>6, ChangeIs
  <2>8. ToBudget(m - 1) = IF m = first THEN 0 ELSE w[m - 1]
    <3>1. CASE m = first
      <4>1. PoolMonths \cap 1..m - 1 = {}
        BY <1>1, <1>2, <2>2, <3>1
      <4> QED
        BY <3>1, <4>1, ToBudgetIs
    <3>2. CASE m # first
      <4>1. first \in PoolMonths \cap 1..m - 1
        BY <1>1, <2>2, <2>5, <3>2
      <4> QED
        BY <3>2, <4>1, ToBudgetIs DEF w
    <3> QED
      BY <3>1, <3>2
  <2> QED
    BY <2>4, <2>7, <2>8
<1> QED
  BY <1>4, <1>5

----------------------------------------------------------------------------
(* What the pool and the buckets hold together. *)

Spends(b) == [n \in Months |-> Spent(b, n)]
BudgetedTo(b, m) == {n \in 1..m : Budgeted(b, n)}
Spents(m) == [b \in Buckets |-> Sum(Spends(b), BudgetedTo(b, m))]
Incomes == [n \in Months |-> MonthIncome(n)]
Helds(m) == [b \in Buckets |-> IF m = 1 THEN 0 ELSE Available(b, m - 1)]  \* at the end of the month before
Conserved(m) == ToBudget(m) + Sum(Avails(m), Buckets) = Sum(Incomes, 1..m) - Sum(Spents(m), Buckets)

LEMMA IncomeStep ==
    ASSUME PlanInv, NEW m \in Months
    PROVE  /\ Sum(Incomes, 1..m - 1) \in Int
           /\ Sum(Incomes, 1..m) = Sum(Incomes, 1..m - 1) + MonthIncome(m)
<1>1. PICK k \in Nat \ {0} : Months = 1..k
  BY FirstMonth
<1> DEFINE S == 1..m - 1
<1>2. S \cup {m} = 1..m /\ m \notin S /\ S \subseteq Months /\ IsFiniteSet(S)
  BY <1>1, FS_Interval
<1>3. \A n \in Months : Incomes[n] = MonthIncome(n) /\ Incomes[n] \in Int
  BY IncomeIsNat DEF Incomes
<1> HIDE DEF S
<1>4. Sum(Incomes, S \cup {m}) = Incomes[m] + Sum(Incomes, S) /\ Sum(Incomes, S) \in Int
  BY <1>2, <1>3, SumAdd, SumInt
<1>5. MonthIncome(m) \in Int
  BY IncomeIsNat
<1>6. Sum(Incomes, 1..m) = MonthIncome(m) + Sum(Incomes, S)
  <2>1. Sum(Incomes, 1..m) = Sum(Incomes, S \cup {m})
    BY <1>2
  <2> QED
    BY <1>3, <1>4, <2>1
<1> QED
  BY <1>4, <1>5, <1>6 DEF S

LEMMA SpentStep ==
    ASSUME PlanInv, NEW m \in Months, NEW b \in Buckets
    PROVE  /\ Spents(m - 1)[b] \in Int
           /\ Spents(m)[b] = Spents(m - 1)[b] + Paid(b, m)
<1>1. PICK k \in Nat \ {0} : Months = 1..k
  BY FirstMonth
<1> DEFINE S == BudgetedTo(b, m - 1)
           F == Spends(b)
<1>2. S \subseteq Months /\ m \notin S /\ IsFiniteSet(S)
  <2>1. m \in Int /\ S \subseteq 1..m - 1
    BY <1>1 DEF BudgetedTo
  <2>2. IsFiniteSet(1..m - 1)
    BY <2>1, FS_Interval
  <2> HIDE DEF S
  <2>3. 1..m - 1 \subseteq Months /\ m \notin 1..m - 1
    BY <1>1
  <2>4. IsFiniteSet(S)
    BY <2>1, <2>2, FS_Subset
  <2> QED
    BY <2>1, <2>3, <2>4
<1>3. BudgetedTo(b, m) = IF Budgeted(b, m) THEN S \cup {m} ELSE S
  <2>1. 1..m = (1..m - 1) \cup {m}
    BY <1>1
  <2>2. \A n : n \in BudgetedTo(b, m) <=> (n \in 1..m - 1 \/ n = m) /\ Budgeted(b, n)
    BY <2>1 DEF BudgetedTo
  <2>3. \A n : n \in S <=> n \in 1..m - 1 /\ Budgeted(b, n)
    BY DEF BudgetedTo
  <2> HIDE DEF S
  <2>4. CASE Budgeted(b, m)
    BY <2>2, <2>3, <2>4
  <2>5. CASE ~Budgeted(b, m)
    BY <2>2, <2>3, <2>5
  <2> QED
    BY <2>4, <2>5
<1>4. \A n \in Months : F[n] = Spent(b, n) /\ F[n] \in Int
  BY SpentIsInt DEF Spends
<1>5. Spents(m - 1)[b] = Sum(F, S) /\ Spents(m)[b] = Sum(F, BudgetedTo(b, m))
  BY DEF Spents
<1> HIDE DEF S, F
<1>6. Sum(F, S \cup {m}) = F[m] + Sum(F, S) /\ Sum(F, S) \in Int
  BY <1>2, <1>4, SumAdd, SumInt
<1>7. CASE Budgeted(b, m)
  <2>1. Spents(m)[b] = Spent(b, m) + Sum(F, S) /\ Paid(b, m) = Spent(b, m) /\ Spent(b, m) \in Int
    BY <1>3, <1>4, <1>5, <1>6, <1>7 DEF Paid
  <2> QED
    BY <1>5, <1>6, <2>1
<1>8. CASE ~Budgeted(b, m)
  <2>1. Spents(m)[b] = Sum(F, S) /\ Paid(b, m) = 0
    BY <1>3, <1>5, <1>8 DEF Paid
  <2> QED
    BY <1>5, <1>6, <2>1
<1> QED
  BY <1>7, <1>8

LEMMA SpentsStep ==
    ASSUME PlanInv, NEW m \in Months
    PROVE  /\ Sum(Spents(m - 1), Buckets) \in Int
           /\ Sum(Spents(m), Buckets) = Sum(Spents(m - 1), Buckets) + Sum(Pays(m), Buckets)
<1>1. \A b \in Buckets : /\ Spents(m - 1)[b] \in Int /\ Pays(m)[b] \in Int
                         /\ Spents(m)[b] = Spents(m - 1)[b] + Pays(m)[b]
  BY SpentStep, PutAndPaid DEF Pays
<1> QED
  BY <1>1, BucketSums, SumInt, SumPlus

\* What was held a month ago, what the pool made good, and what was put in and paid since.
LEMMA AvailsStep ==
    ASSUME PlanInv, NEW m \in Months
    PROVE  /\ Sum(Avails(m), Buckets) \in Int /\ Sum(Helds(m), Buckets) \in Int
           /\ Sum(Avails(m), Buckets) + Sum(Pays(m), Buckets)
                = Sum(Helds(m), Buckets) + Sum(Owes(m - 1), Buckets) + Sum(Puts(m), Buckets)
<1> DEFINE H == Helds(m)  O == Owes(m - 1)  U == Puts(m)  P == Pays(m)  A == Avails(m)
           HO == [b \in Buckets |-> H[b] + O[b]]
           AP == [b \in Buckets |-> A[b] + P[b]]
<1>1. \A b \in Buckets :
         /\ H[b] \in Int /\ O[b] \in Int /\ U[b] \in Int /\ P[b] \in Int /\ A[b] \in Int
         /\ A[b] = (H[b] + O[b]) + U[b] - P[b]
  <2> SUFFICES ASSUME NEW b \in Buckets
               PROVE  /\ H[b] \in Int /\ O[b] \in Int /\ U[b] \in Int /\ P[b] \in Int /\ A[b] \in Int
                      /\ A[b] = (H[b] + O[b]) + U[b] - P[b]
    OBVIOUS
  <2>1. O[b] \in Nat /\ U[b] \in Nat /\ P[b] \in Int
    BY BucketSums
  <2>2. O[b] = Owed(b, m - 1) /\ U[b] = Put(b, m) /\ P[b] = Paid(b, m) /\ A[b] = Available(b, m)
    BY DEF Owes, Puts, Pays, Avails
  <2>3. H[b] = IF m = 1 THEN 0 ELSE Available(b, m - 1)
    BY DEF Helds
  <2> HIDE DEF H, O, U, P, A
  <2>4. H[b] \in Int /\ RolledOver(b, m) = H[b] + O[b]
    <3>1. CASE m = 1
      <4>1. RolledOver(b, m) = 0
        BY <3>1, RolledOverStep
      <4>2. ~Budgeted(b, m - 1)
        BY <3>1, BeforeFirst
      <4>3. O[b] = 0
        BY <2>2, <4>2 DEF Owed
      <4> QED
        BY <2>3, <3>1, <4>1, <4>3
    <3>2. CASE m # 1
      <4>1. m - 1 \in Months
        BY <3>2, FirstMonth
      <4>2. Available(b, m - 1) \in Int
        BY <4>1, AvailableIs
      <4> QED
        BY <2>2, <2>3, <3>2, <4>2, CarryIs
    <3> QED
      BY <3>1, <3>2
  <2>5. A[b] \in Int /\ A[b] = RolledOver(b, m) + U[b] - P[b]
    BY <2>2, AvailableIs
  <2> QED
    BY <2>1, <2>4, <2>5
<1> HIDE DEF H, O, U, P, A
<1>2. \A b \in Buckets : /\ HO[b] = H[b] + O[b] /\ HO[b] \in Int
                         /\ AP[b] = A[b] + P[b]
                         /\ AP[b] = HO[b] + U[b]
  BY <1>1
<1> HIDE DEF HO, AP
<1>3. /\ Sum(HO, Buckets) = Sum(H, Buckets) + Sum(O, Buckets)
      /\ Sum(AP, Buckets) = Sum(A, Buckets) + Sum(P, Buckets)
      /\ Sum(AP, Buckets) = Sum(HO, Buckets) + Sum(U, Buckets)
  BY <1>1, <1>2, BucketSums, SumPlus
<1>4. Sum(A, Buckets) \in Int /\ Sum(H, Buckets) \in Int
  BY <1>1, BucketSums, SumInt
<1> QED
  BY <1>3, <1>4 DEF H, O, U, P, A

LEMMA ConservedStep ==
    ASSUME PlanInv, NEW m \in Months, ToBudget(m - 1) \in Int,
           ToBudget(m - 1) + Sum(Helds(m), Buckets) = Sum(Incomes, 1..m - 1) - Sum(Spents(m - 1), Buckets)
    PROVE  ToBudget(m) \in Int /\ Conserved(m)
<1> DEFINE h == Sum(Helds(m), Buckets)  o == Sum(Owes(m - 1), Buckets)
           u == Sum(Puts(m), Buckets)  p == Sum(Pays(m), Buckets)  a == Sum(Avails(m), Buckets)
           i == Sum(Incomes, 1..m - 1)  s == Sum(Spents(m - 1), Buckets)
           t == ToBudget(m - 1)
<1>1. /\ h \in Int /\ o \in Int /\ u \in Int /\ p \in Int /\ a \in Int /\ i \in Int /\ s \in Int /\ t \in Int
      /\ MonthIncome(m) \in Int
  BY BucketSums, AvailsStep, IncomeStep, SpentsStep, IncomeIsNat
<1>2. t + h = i - s
  OBVIOUS
<1>3. a + p = h + o + u
  BY AvailsStep
<1>4. ToBudget(m) = (MonthIncome(m) - o - u) + t
  BY PoolStep DEF Change
<1>5. Sum(Incomes, 1..m) = i + MonthIncome(m) /\ Sum(Spents(m), Buckets) = s + p
  BY IncomeStep, SpentsStep
<1> HIDE DEF h, o, u, p, i, s, t, a
<1>6. ToBudget(m) \in Int
  BY <1>1, <1>4
<1>7. ToBudget(m) + a = Sum(Incomes, 1..m) - Sum(Spents(m), Buckets)
  BY <1>1, <1>2, <1>3, <1>4, <1>5
<1> QED
  BY <1>6, <1>7 DEF Conserved, a

LEMMA NothingYet ==
    ASSUME PlanInv
    PROVE  /\ ToBudget(0) = 0
           /\ Sum(Helds(1), Buckets) = 0 /\ Sum(Incomes, 1..0) = 0 /\ Sum(Spents(0), Buckets) = 0
<1>1. 1..0 = {}
  OBVIOUS
<1>2. PoolMonths \cap 1..0 = {} /\ \A b : BudgetedTo(b, 0) = {}
  BY <1>1 DEF BudgetedTo
<1>3. ToBudget(0) = 0
  BY <1>2, ToBudgetIs
<1>4. Sum(Incomes, 1..0) = 0
  BY <1>1, SumEmpty
<1>5. \A b \in Buckets : Helds(1)[b] = 0 /\ Spents(0)[b] = 0
  BY <1>2, SumEmpty DEF Helds, Spents
<1> QED
  BY <1>3, <1>4, <1>5, BucketSums, SumZero

LEMMA EveryMonthConserves ==
    ASSUME PlanInv, NEW m \in Months
    PROVE  ToBudget(m) \in Int /\ Conserved(m)
<1>1. PICK k \in Nat \ {0} : Months = 1..k
  BY FirstMonth
<1> DEFINE Bad == {n \in 1..k : ~(ToBudget(n) \in Int /\ Conserved(n))}
<1> SUFFICES ASSUME m \in Bad PROVE FALSE
  BY <1>1
<1>2. PICK n \in Bad : \A j \in Bad : n <= j
  <2>1. Bad \in SUBSET (1..k) /\ k \in Nat
    OBVIOUS
  <2> HIDE DEF Bad
  <2> QED
    BY <2>1, LeastIn
<1>3. n \in Months /\ n \in 1..k /\ ~(ToBudget(n) \in Int /\ Conserved(n))
  BY <1>1
<1>4. CASE n = 1
  <2>1. /\ ToBudget(n - 1) \in Int
        /\ ToBudget(n - 1) + Sum(Helds(n), Buckets) = Sum(Incomes, 1..n - 1) - Sum(Spents(n - 1), Buckets)
    <3>1. n - 1 = 0
      BY <1>4
    <3> QED
      BY <1>4, <3>1, NothingYet
  <2> QED
    BY <1>3, <2>1, ConservedStep
<1>5. CASE n # 1
  <2>1. n - 1 \in 1..k /\ n - 1 \notin Bad
    BY <1>2, <1>5
  <2>2. ToBudget(n - 1) \in Int /\ Conserved(n - 1)
    BY <2>1
  <2> HIDE DEF Bad
  <2>3. Helds(n) = Avails(n - 1)
    BY <1>5 DEF Helds, Avails
  <2>4. ToBudget(n - 1) + Sum(Helds(n), Buckets) = Sum(Incomes, 1..n - 1) - Sum(Spents(n - 1), Buckets)
    BY <2>2, <2>3 DEF Conserved
  <2> QED
    BY <1>3, <2>2, <2>4, ConservedStep
<1> QED
  BY <1>4, <1>5

\* Money is conserved in every month of any history: what the pool and all
\* buckets hold is what came in less what was spent in budgeted months, however
\* buckets roll over and are overspent (budgets.rs).
THEOREM PoolConserves == PlanSpec => []MoneyIsConserved
<1>1. PlanInv => MoneyIsConserved
  <2> SUFFICES ASSUME PlanInv, NEW m \in Months PROVE Conserved(m)
    BY DEF MoneyIsConserved, Conserved, Avails, Incomes, Spents, Spends, BudgetedTo
  <2> QED
    BY EveryMonthConserves
<1> QED
  BY <1>1, PlanInvariant, PTL

=============================================================================
