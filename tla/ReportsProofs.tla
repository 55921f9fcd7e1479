---------------------------- MODULE ReportsProofs ----------------------------
(***************************************************************************)
(* Theorems about the reports: in every state the tables can reach, for    *)
(* every catalog, calendar and list of visits, the queries of dashboard,   *)
(* charts, tables and transactions agree, and decision support and the     *)
(* forecast answer what they say.                                          *)
(*                                                                         *)
(* SalesInv is what the tables keep.  From it the lemmas derive, one query *)
(* after another, that its figures are sums over parts of the lines, and   *)
(* the theorems that these parts fit together: by groups (SumGroups), one  *)
(* for one (SumRenamed), in order (ListExists), page by page (ChunksJoin). *)
(***************************************************************************)
EXTENDS Reports, DecisionSupport, ForecastModel, FiniteSetTheorems, WellFoundedInduction, TLAPS

-----------------------------------------------------------------------------
(* Sums over finite sets.  The induction is over a set P of sets, so that  *)
(* it takes no operator.                                                   *)

LEMMA SubsetInduction ==
  ASSUME NEW S, IsFiniteSet(S), NEW P,
         \A T \in SUBSET S : (\A U \in SUBSET T : U # T => U \in P) => T \in P
  PROVE  \A T \in SUBSET S : T \in P
  <1> DEFINE B == {T \in SUBSET S : T \notin P}
  <1> SUFFICES ASSUME B # {} PROVE FALSE OBVIOUS
  <1>1. B \in SUBSET FiniteSubsetsOf(S)
    <2>1. \A T \in SUBSET S : IsFiniteSet(T) BY FS_Subset
    <2>2. QED BY <2>1 DEF FiniteSubsetsOf
  <1>2. PICK T \in B : \A U \in B : ~ (<<U, T>> \in StrictSubsetOrdering(S))
    <2> HIDE DEF B
    <2>1. QED BY <1>1, FS_StrictSubsetOrderingWellFounded, WFMin
  <1>3. ASSUME NEW U \in SUBSET T, U # T PROVE U \in P
    <2>1. <<U, T>> \in StrictSubsetOrdering(S) BY <1>2, <1>3 DEF StrictSubsetOrdering
    <2>2. QED BY <1>2, <2>1
  <1>4. QED BY <1>2, <1>3

\* The sum of f over S, as MapThenSumSet computes it: an element is chosen, the
\* rest summed.
Chosen(s) == CHOOSE x \in s : TRUE
SumOver(f, S) == MapThenSumSet(LAMBDA k : f[k], S)
Unfolds(g, f, S) ==
  g = [s \in SUBSET S |-> IF s = {} THEN 0 ELSE f[Chosen(s)] + g[s \ {Chosen(s)}]]
Sums(g, f, S) ==
  /\ g = [s \in SUBSET S |-> g[s]]
  /\ g[{}] = 0
  /\ \A s \in SUBSET S : s # {} => g[s] = f[Chosen(s)] + g[s \ {Chosen(s)}]

LEMMA SumUnfolds == \A f, S : SumOver(f, S) = (CHOOSE g : Unfolds(g, f, S))[S]
  BY Zenon DEF SumOver, MapThenSumSet, MapThenFoldSet, Unfolds, Chosen

LEMMA ChosenIn == \A s : s # {} => Chosen(s) \in s
  BY DEF Chosen

LEMMA SumsUnfold == \A g, f, S : Sums(g, f, S) <=> Unfolds(g, f, S)
  <1> TAKE g, f, S
  <1>1. ASSUME Unfolds(g, f, S) PROVE Sums(g, f, S)
    <2>1. {} \in SUBSET S OBVIOUS
    <2>2. \A s \in SUBSET S : g[s] = IF s = {} THEN 0 ELSE f[Chosen(s)] + g[s \ {Chosen(s)}]
      BY <1>1, Zenon DEF Unfolds
    <2>3. g = [s \in SUBSET S |-> g[s]] BY <1>1 DEF Unfolds
    <2>4. QED BY <2>1, <2>2, <2>3, Zenon DEF Sums
  <1>2. ASSUME Sums(g, f, S) PROVE Unfolds(g, f, S)
    <2>1. \A s \in SUBSET S : g[s] = IF s = {} THEN 0 ELSE f[Chosen(s)] + g[s \ {Chosen(s)}]
      BY <1>2, Zenon DEF Sums
    <2>2. g = [s \in SUBSET S |-> g[s]] BY <1>2 DEF Sums
    <2>3. [s \in SUBSET S |-> g[s]]
            = [s \in SUBSET S |-> IF s = {} THEN 0 ELSE f[Chosen(s)] + g[s \ {Chosen(s)}]]
      BY <2>1, Zenon
    <2>4. QED BY <2>2, <2>3, Zenon DEF Unfolds
  <1>3. QED BY <1>1, <1>2

LEMMA SumsUnique ==
  ASSUME NEW f, NEW S, IsFiniteSet(S), NEW g, Sums(g, f, S), NEW h, Sums(h, f, S)
  PROVE  g = h
  <1> DEFINE P == {T \in SUBSET S : g[T] = h[T]}
  <1>1. ASSUME NEW T \in SUBSET S, \A U \in SUBSET T : U # T => U \in P PROVE T \in P
    <2>1. CASE T = {} BY <2>1 DEF Sums
    <2>2. CASE T # {}
      <3>1. PICK x \in T : x = Chosen(T) BY <2>2, ChosenIn
      <3>2. g[T \ {x}] = h[T \ {x}] BY <1>1
      <3>3. g[T] = f[x] + g[T \ {x}] /\ h[T] = f[x] + h[T \ {x}]
        BY <2>2, <3>1, Zenon DEF Sums
      <3>4. g[T] = h[T] BY <3>2, <3>3, Zenon
      <3>5. QED BY <3>4
    <2>3. QED BY <2>1, <2>2
  <1>2. \A T \in SUBSET S : T \in P
    <2> HIDE DEF P
    <2>1. QED BY <1>1, SubsetInduction
  <1>3. \A T \in SUBSET S : g[T] = h[T] BY <1>2
  <1>4. g = [s \in SUBSET S |-> g[s]] /\ h = [s \in SUBSET S |-> h[s]] BY DEF Sums
  <1>5. [s \in SUBSET S |-> g[s]] = [s \in SUBSET S |-> h[s]] BY <1>3, Zenon
  <1>6. QED BY <1>4, <1>5, Zenon

LEMMA SumsRestricts ==
  ASSUME NEW f, NEW S, NEW g, Sums(g, f, S), NEW V \in SUBSET S
  PROVE  Sums([s \in SUBSET V |-> g[s]], f, V)
  <1>1. PICK h : h = [s \in SUBSET V |-> g[s]] OBVIOUS
  <1>2. \A s \in SUBSET V : h[s] = g[s] BY <1>1
  <1>3. h = [s \in SUBSET V |-> h[s]] BY <1>1
  <1>4. {} \in SUBSET V OBVIOUS
  <1>5. ASSUME NEW s \in SUBSET V, s # {} PROVE h[s] = f[Chosen(s)] + h[s \ {Chosen(s)}]
    <2>1. PICK r \in SUBSET V : r = s \ {Chosen(s)} OBVIOUS
    <2>2. s \in SUBSET S OBVIOUS
    <2>3. g[s] = f[Chosen(s)] + g[r] BY <1>5, <2>1, <2>2, Zenon DEF Sums
    <2>4. QED BY <1>2, <2>1, <2>3, Zenon
  <1>6. h[{}] = 0 BY <1>2, <1>4 DEF Sums
  <1>7. Sums(h, f, V) BY <1>3, <1>5, <1>6, Zenon DEF Sums
  <1>8. QED BY <1>1, <1>7, Zenon

\* The sums of all subsets that are summed already fit together.
The(f, U) == CHOOSE g : Sums(g, f, U)

LEMMA SumsFit ==
  ASSUME NEW f, NEW U, U # {}, IsFiniteSet(U), Sums(The(f, U), f, U), NEW x, x = Chosen(U),
         Sums(The(f, U \ {x}), f, U \ {x})
  PROVE  The(f, U)[U] = f[x] + The(f, U \ {x})[U \ {x}]
  <1>1. PICK V \in SUBSET U : V = U \ {x} OBVIOUS
  <1>2. IsFiniteSet(V) BY FS_Subset
  <1>3. PICK g : g = The(f, U) /\ Sums(g, f, U) OBVIOUS
  <1>4. PICK h : h = The(f, V) /\ Sums(h, f, V) BY <1>1
  <1>5. Sums([s \in SUBSET V |-> g[s]], f, V) BY <1>3, SumsRestricts
  <1>6. [s \in SUBSET V |-> g[s]] = h BY <1>2, <1>4, <1>5, SumsUnique
  <1>7. g[V] = h[V]
    <2>1. V \in SUBSET V OBVIOUS
    <2>2. [s \in SUBSET V |-> g[s]][V] = g[V] BY <2>1, Zenon
    <2>3. QED BY <1>6, <2>2, Zenon
  <1>8. U \in SUBSET U OBVIOUS
  <1>9. g[U] = f[x] + g[V] BY <1>1, <1>3, <1>8, Zenon DEF Sums
  <1>10. QED BY <1>1, <1>3, <1>4, <1>7, <1>9, Zenon

LEMMA SumsExists ==
  ASSUME NEW f, NEW S, IsFiniteSet(S)
  PROVE  \A T \in SUBSET S : Sums(The(f, T), f, T)
  <1> DEFINE P == {T \in SUBSET S : \E g : Sums(g, f, T)}
  <1>1. ASSUME NEW T \in SUBSET S, \A U \in SUBSET T : U # T => U \in P PROVE T \in P
    <2>1. ASSUME NEW U \in SUBSET T, U # T PROVE Sums(The(f, U), f, U) /\ IsFiniteSet(U)
      <3>1. \E g : Sums(g, f, U) BY <1>1, <2>1
      <3>2. Sums(The(f, U), f, U) BY <3>1, Zenon DEF The
      <3>3. IsFiniteSet(U) BY FS_Subset
      <3>4. QED BY <3>2, <3>3
    <2>2. PICK h : h = [s \in SUBSET T |->
                          IF s = {} THEN 0
                          ELSE f[Chosen(s)] + The(f, s \ {Chosen(s)})[s \ {Chosen(s)}]]
      OBVIOUS
    <2>3. ASSUME NEW s \in SUBSET T, NEW x, s # {}, x = Chosen(s)
          PROVE  h[s] = f[x] + The(f, s \ {x})[s \ {x}]
      BY <2>2, <2>3, Zenon
    <2>4. h[{}] = 0
      <3>1. {} \in SUBSET T OBVIOUS
      <3>2. QED BY <2>2, <3>1, Zenon
    <2>5. ASSUME NEW U \in SUBSET T, U # T PROVE h[U] = The(f, U)[U]
      <3>1. CASE U = {}
        <4>1. Sums(The(f, U), f, U) BY <2>1, <2>5
        <4>2. The(f, U)[{}] = 0 BY <4>1, Zenon DEF Sums
        <4>3. QED BY <2>4, <3>1, <4>2, Zenon
      <3>2. CASE U # {}
        <4>1. PICK x \in U : x = Chosen(U) BY <3>2, ChosenIn
        <4>2. U \ {x} \in SUBSET T /\ U \ {x} # T OBVIOUS
        <4>3. The(f, U)[U] = f[x] + The(f, U \ {x})[U \ {x}]
          BY <2>1, <2>5, <3>2, <4>1, <4>2, SumsFit
        <4>4. QED BY <2>3, <3>2, <4>1, <4>3, Zenon
      <3>3. QED BY <3>1, <3>2
    <2>6. ASSUME NEW s \in SUBSET T, s # {} PROVE h[s] = f[Chosen(s)] + h[s \ {Chosen(s)}]
      <3>1. PICK x \in s : x = Chosen(s) BY <2>6, ChosenIn
      <3>2. PICK r \in SUBSET T : r = s \ {x} /\ r # T
        <4>1. s \ {x} \in SUBSET T /\ s \ {x} # T OBVIOUS
        <4>2. QED BY <4>1
      <3>3. h[r] = The(f, r)[r] BY <2>5, <3>2
      <3>4. h[s] = f[x] + The(f, r)[r] BY <2>3, <2>6, <3>1, <3>2, Zenon
      <3>5. QED BY <3>1, <3>2, <3>3, <3>4, Zenon
    <2>7. h = [s \in SUBSET T |-> h[s]]
      <3> DEFINE B(s) == IF s = {} THEN 0
                         ELSE f[Chosen(s)] + The(f, s \ {Chosen(s)})[s \ {Chosen(s)}]
      <3>1. h = [s \in SUBSET T |-> B(s)] BY <2>2, Zenon
      <3> HIDE DEF B
      <3>2. QED BY <3>1
    <2>8. Sums(h, f, T) BY <2>4, <2>6, <2>7, Zenon DEF Sums
    <2>9. QED BY <2>8
  <1>2. \A T \in SUBSET S : T \in P
    <2> HIDE DEF P
    <2>1. QED BY <1>1, SubsetInduction
  <1>3. QED BY <1>2, Zenon DEF The

LEMMA SumChosen ==
  ASSUME NEW f, NEW S, IsFiniteSet(S)
  PROVE  /\ SumOver(f, {}) = 0
         /\ S # {} => SumOver(f, S) = f[Chosen(S)] + SumOver(f, S \ {Chosen(S)})
  <1>1. ASSUME NEW T \in SUBSET S PROVE SumOver(f, T) = The(f, T)[T] /\ Sums(The(f, T), f, T)
    <2>1. Sums(The(f, T), f, T) BY SumsExists
    <2>2. (CHOOSE g : Unfolds(g, f, T)) = The(f, T) BY SumsUnfold, Zenon DEF The
    <2>3. QED BY <2>1, <2>2, SumUnfolds, Zenon
  <1>2. SumOver(f, {}) = 0
    <2>1. PICK T \in SUBSET S : T = {} OBVIOUS
    <2>2. The(f, T)[{}] = 0 BY <1>1, Zenon DEF Sums
    <2>3. QED BY <1>1, <2>1, <2>2, Zenon
  <1>3. ASSUME S # {} PROVE SumOver(f, S) = f[Chosen(S)] + SumOver(f, S \ {Chosen(S)})
    <2>1. PICK x \in S : x = Chosen(S) BY <1>3, ChosenIn
    <2>2. PICK T \in SUBSET S : T = S \ {x} OBVIOUS
    <2>3. S \in SUBSET S OBVIOUS
    <2>4. Sums(The(f, S), f, S) /\ Sums(The(f, T), f, T) BY <1>1, <2>3
    <2>5. The(f, S)[S] = f[x] + The(f, T)[T]
      <3>1. Sums(The(f, S \ {x}), f, S \ {x}) BY <2>2, <2>4, Zenon
      <3>2. The(f, S)[S] = f[x] + The(f, S \ {x})[S \ {x}]
        BY <1>3, <2>1, <2>4, <3>1, SumsFit
      <3>3. QED BY <2>2, <3>2, Zenon
    <2>6. QED BY <1>1, <2>1, <2>2, <2>3, <2>5, Zenon
  <1>4. QED BY <1>2, <1>3

LEMMA SumEmpty == \A f : SumOver(f, {}) = 0
  BY SumChosen, FS_EmptySet

LEMMA SumType ==
  ASSUME NEW f, NEW S, IsFiniteSet(S), \A x \in S : f[x] \in Int
  PROVE  SumOver(f, S) \in Int
  <1> DEFINE P == {T \in SUBSET S : SumOver(f, T) \in Int}
  <1>1. ASSUME NEW T \in SUBSET S, \A U \in SUBSET T : U # T => U \in P PROVE T \in P
    <2>1. CASE T = {} BY <2>1, SumEmpty
    <2>2. CASE T # {}
      <3>1. PICK x \in T : x = Chosen(T) BY <2>2, ChosenIn
      <3>2. SumOver(f, T \ {x}) \in Int /\ f[x] \in Int BY <1>1
      <3>3. IsFiniteSet(T) BY FS_Subset
      <3>4. SumOver(f, T) = f[x] + SumOver(f, T \ {x}) BY <2>2, <3>1, <3>3, SumChosen
      <3>5. SumOver(f, T) \in Int BY <3>2, <3>4
      <3>6. QED BY <3>5
    <2>3. QED BY <2>1, <2>2
  <1>2. \A T \in SUBSET S : T \in P
    <2> HIDE DEF P
    <2>1. QED BY <1>1, SubsetInduction
  <1>3. QED BY <1>2

\* Whichever element is taken out first.
LEMMA SumRemove ==
  ASSUME NEW f, NEW S, IsFiniteSet(S), \A x \in S : f[x] \in Int
  PROVE  \A x \in S : SumOver(f, S) = f[x] + SumOver(f, S \ {x})
  <1> DEFINE P == {T \in SUBSET S : \A x \in T : SumOver(f, T) = f[x] + SumOver(f, T \ {x})}
  <1>1. ASSUME NEW T \in SUBSET S, \A U \in SUBSET T : U # T => U \in P PROVE T \in P
    <2>1. ASSUME NEW x \in T PROVE SumOver(f, T) = f[x] + SumOver(f, T \ {x})
      <3>1. PICK c \in T : c = Chosen(T) BY <2>1, ChosenIn
      <3>2. IsFiniteSet(T) BY FS_Subset
      <3>3. SumOver(f, T) = f[c] + SumOver(f, T \ {c}) BY <3>1, <3>2, SumChosen
      <3>4. CASE x = c BY <3>3, <3>4
      <3>5. CASE x # c
        <4>1. T \ {c} \in P /\ T \ {x} \in P BY <1>1
        <4>2. PICK R \in SUBSET T : R = T \ {x, c} OBVIOUS
        <4>3. (T \ {c}) \ {x} = R /\ (T \ {x}) \ {c} = R BY <4>2
        <4>4. x \in T \ {c} /\ c \in T \ {x} BY <3>5
        <4>5. SumOver(f, T \ {c}) = f[x] + SumOver(f, R) BY <4>1, <4>3, <4>4, Zenon
        <4>6. SumOver(f, T \ {x}) = f[c] + SumOver(f, R) BY <4>1, <4>3, <4>4, Zenon
        <4>7. SumOver(f, R) \in Int /\ f[x] \in Int /\ f[c] \in Int
          <5>1. IsFiniteSet(R) BY <3>2, FS_Subset
          <5>2. QED BY <5>1, SumType
        <4>8. QED BY <3>3, <4>5, <4>6, <4>7
      <3>6. QED BY <3>4, <3>5
    <2>2. QED BY <2>1
  <1>2. \A T \in SUBSET S : T \in P
    <2> HIDE DEF P
    <2>1. QED BY <1>1, SubsetInduction
  <1>3. S \in P BY <1>2
  <1>4. QED BY <1>3

\* Sums of the same numbers.
LEMMA SumSame ==
  ASSUME NEW f, NEW g, NEW S, IsFiniteSet(S), \A x \in S : f[x] \in Int /\ f[x] = g[x]
  PROVE  SumOver(f, S) = SumOver(g, S)
  <1> DEFINE P == {T \in SUBSET S : SumOver(f, T) = SumOver(g, T)}
  <1>1. ASSUME NEW T \in SUBSET S, \A U \in SUBSET T : U # T => U \in P PROVE T \in P
    <2>1. CASE T = {} BY <2>1, SumEmpty
    <2>2. CASE T # {}
      <3>1. PICK x \in T : x = Chosen(T) BY <2>2, ChosenIn
      <3>2. SumOver(f, T \ {x}) = SumOver(g, T \ {x}) /\ f[x] = g[x] BY <1>1
      <3>3. IsFiniteSet(T) BY FS_Subset
      <3>4. SumOver(f, T) = f[x] + SumOver(f, T \ {x}) BY <2>2, <3>1, <3>3, SumChosen
      <3>5. SumOver(g, T) = g[x] + SumOver(g, T \ {x}) BY <2>2, <3>1, <3>3, SumChosen
      <3>6. SumOver(f, T) = SumOver(g, T) BY <3>2, <3>4, <3>5, Zenon
      <3>7. QED BY <3>6
    <2>3. QED BY <2>1, <2>2
  <1>2. \A T \in SUBSET S : T \in P
    <2> HIDE DEF P
    <2>1. QED BY <1>1, SubsetInduction
  <1>3. QED BY <1>2

\* A sum in two parts.
LEMMA SumParts ==
  ASSUME NEW f, NEW S, IsFiniteSet(S), \A x \in S : f[x] \in Int, NEW A \in SUBSET S
  PROVE  SumOver(f, S) = SumOver(f, A) + SumOver(f, S \ A)
  <1> DEFINE P == {T \in SUBSET S : SumOver(f, T) = SumOver(f, T \cap A) + SumOver(f, T \ A)}
  <1>1. ASSUME NEW T \in SUBSET S, \A U \in SUBSET T : U # T => U \in P PROVE T \in P
    <2>1. CASE T = {}
      <3>1. T \cap A = {} /\ T \ A = {} BY <2>1
      <3>2. SumOver(f, T) = 0 /\ SumOver(f, T \cap A) = 0 /\ SumOver(f, T \ A) = 0
        BY <2>1, <3>1, SumEmpty
      <3>3. QED BY <3>2
    <2>2. CASE T # {}
      <3>1. PICK x \in T : TRUE BY <2>2
      <3>2. SumOver(f, T \ {x}) = SumOver(f, (T \ {x}) \cap A) + SumOver(f, (T \ {x}) \ A)
        BY <1>1
      <3>3. IsFiniteSet(T) BY FS_Subset
      <3>4. SumOver(f, T) = f[x] + SumOver(f, T \ {x}) BY <3>1, <3>3, SumRemove
      <3>5. IsFiniteSet(T \cap A) /\ IsFiniteSet(T \ A)
            /\ IsFiniteSet((T \ {x}) \cap A) /\ IsFiniteSet((T \ {x}) \ A)
        BY <3>3, FS_Subset
      <3>6. /\ SumOver(f, (T \ {x}) \cap A) \in Int /\ SumOver(f, (T \ {x}) \ A) \in Int
            /\ f[x] \in Int
        BY <3>5, SumType
      <3>7. SumOver(f, T) = SumOver(f, T \cap A) + SumOver(f, T \ A)
        <4>1. CASE x \in A
          <5>1. (T \cap A) \ {x} = (T \ {x}) \cap A /\ T \ A = (T \ {x}) \ A BY <4>1
          <5>2. SumOver(f, T \cap A) = f[x] + SumOver(f, (T \cap A) \ {x})
            BY <3>1, <3>5, <4>1, SumRemove
          <5>3. SumOver(f, T \cap A) = f[x] + SumOver(f, (T \ {x}) \cap A)
            BY <5>1, <5>2, Zenon
          <5>4. SumOver(f, T \ A) = SumOver(f, (T \ {x}) \ A) BY <5>1, Zenon
          <5>5. QED BY <3>2, <3>4, <3>6, <5>3, <5>4
        <4>2. CASE x \notin A
          <5>1. (T \ A) \ {x} = (T \ {x}) \ A /\ T \cap A = (T \ {x}) \cap A BY <4>2
          <5>2. SumOver(f, T \ A) = f[x] + SumOver(f, (T \ A) \ {x})
            BY <3>1, <3>5, <4>2, SumRemove
          <5>3. SumOver(f, T \ A) = f[x] + SumOver(f, (T \ {x}) \ A)
            BY <5>1, <5>2, Zenon
          <5>4. SumOver(f, T \cap A) = SumOver(f, (T \ {x}) \cap A) BY <5>1, Zenon
          <5>5. QED BY <3>2, <3>4, <3>6, <5>3, <5>4
        <4>3. QED BY <4>1, <4>2
      <3>8. QED BY <3>7
    <2>3. QED BY <2>1, <2>2
  <1>2. \A T \in SUBSET S : T \in P
    <2> HIDE DEF P
    <2>1. QED BY <1>1, SubsetInduction
  <1>3. S \in P BY <1>2
  <1>4. S \cap A = A OBVIOUS
  <1>5. QED BY <1>3, <1>4

\* A sum by groups: f over S, and over the keys the sum of each key's elements.
Group(S, key, k) == {x \in S : key[x] = k}

LEMMA SumGroups ==
  ASSUME NEW f, NEW S, IsFiniteSet(S), \A x \in S : f[x] \in Int,
         NEW K, IsFiniteSet(K), NEW key, \A x \in S : key[x] \in K,
         NEW g, \A k \in K : g[k] = SumOver(f, Group(S, key, k))
  PROVE  SumOver(g, K) = SumOver(f, S)
  <1> DEFINE Of(L) == {x \in S : key[x] \in L}
             P == {L \in SUBSET K : SumOver(g, L) = SumOver(f, Of(L))}
  <1>1. ASSUME NEW L \in SUBSET K, \A U \in SUBSET L : U # L => U \in P PROVE L \in P
    <2>1. CASE L = {}
      <3>1. Of(L) = {} BY <2>1
      <3>2. SumOver(g, L) = 0 /\ SumOver(f, Of(L)) = 0 BY <2>1, <3>1, SumEmpty
      <3>3. QED BY <3>2
    <2>2. CASE L # {}
      <3>1. PICK k \in L : k = Chosen(L) BY <2>2, ChosenIn
      <3>2. SumOver(g, L \ {k}) = SumOver(f, Of(L \ {k})) BY <1>1
      <3>3. IsFiniteSet(L) /\ IsFiniteSet(Of(L)) BY FS_Subset
      <3>4. SumOver(g, L) = g[k] + SumOver(g, L \ {k}) BY <2>2, <3>1, <3>3, SumChosen
      <3>5. PICK A \in SUBSET Of(L) : A = Group(S, key, k) BY DEF Group
      <3>6. Of(L) \ A = Of(L \ {k}) BY <3>5 DEF Group
      <3>7. SumOver(f, Of(L)) = SumOver(f, A) + SumOver(f, Of(L) \ A)
        <4>1. \A x \in Of(L) : f[x] \in Int OBVIOUS
        <4> HIDE DEF Of
        <4>2. QED BY <3>3, <4>1, SumParts
      <3>8. g[k] = SumOver(f, A) BY <3>5
      <3>9. SumOver(g, L) = SumOver(f, Of(L))
        <4> HIDE DEF Of
        <4>1. QED BY <3>2, <3>4, <3>6, <3>7, <3>8
      <3>10. QED BY <3>9
    <2>3. QED BY <2>1, <2>2
  <1>2. \A L \in SUBSET K : L \in P
    <2> HIDE DEF P
    <2>1. QED BY <1>1, SubsetInduction
  <1>3. K \in P BY <1>2
  <1>4. Of(K) = S OBVIOUS
  <1>5. QED BY <1>3, <1>4

LEMMA SumNatural ==
  ASSUME NEW f, NEW S, IsFiniteSet(S), \A x \in S : f[x] \in Int /\ f[x] >= 0
  PROVE  SumOver(f, S) >= 0
  <1> DEFINE P == {T \in SUBSET S : SumOver(f, T) >= 0}
  <1>1. ASSUME NEW T \in SUBSET S, \A U \in SUBSET T : U # T => U \in P PROVE T \in P
    <2>1. CASE T = {} BY <2>1, SumEmpty
    <2>2. CASE T # {}
      <3>1. PICK x \in T : x = Chosen(T) BY <2>2, ChosenIn
      <3>2. SumOver(f, T \ {x}) >= 0 BY <1>1
      <3>3. IsFiniteSet(T) /\ IsFiniteSet(T \ {x}) BY FS_Subset
      <3>4. SumOver(f, T) = f[x] + SumOver(f, T \ {x}) BY <2>2, <3>1, <3>3, SumChosen
      <3>5. SumOver(f, T \ {x}) \in Int BY <3>3, SumType
      <3>6. SumOver(f, T) >= 0 BY <3>2, <3>4, <3>5
      <3>7. QED BY <3>6
    <2>3. QED BY <2>1, <2>2
  <1>2. \A T \in SUBSET S : T \in P
    <2> HIDE DEF P
    <2>1. QED BY <1>1, SubsetInduction
  <1>3. QED BY <1>2

LEMMA SumPositive ==
  ASSUME NEW f, NEW S, IsFiniteSet(S), \A x \in S : f[x] \in Int /\ f[x] > 0
  PROVE  SumOver(f, S) >= 0 /\ (SumOver(f, S) = 0 => S = {})
  <1> DEFINE P == {T \in SUBSET S : SumOver(f, T) >= 0 /\ (SumOver(f, T) = 0 => T = {})}
  <1>1. ASSUME NEW T \in SUBSET S, \A U \in SUBSET T : U # T => U \in P PROVE T \in P
    <2>1. CASE T = {} BY <2>1, SumEmpty
    <2>2. CASE T # {}
      <3>1. PICK x \in T : x = Chosen(T) BY <2>2, ChosenIn
      <3>2. SumOver(f, T \ {x}) >= 0 BY <1>1
      <3>3. IsFiniteSet(T) /\ IsFiniteSet(T \ {x}) BY FS_Subset
      <3>4. SumOver(f, T) = f[x] + SumOver(f, T \ {x}) BY <2>2, <3>1, <3>3, SumChosen
      <3>5. SumOver(f, T \ {x}) \in Int BY <3>3, SumType
      <3>6. f[x] \in Int /\ f[x] > 0 OBVIOUS
      <3>7. SumOver(f, T) >= 0 /\ SumOver(f, T) # 0 BY <3>2, <3>4, <3>5, <3>6
      <3>8. QED BY <3>7
    <2>3. QED BY <2>1, <2>2
  <1>2. \A T \in SUBSET S : T \in P
    <2> HIDE DEF P
    <2>1. QED BY <1>1, SubsetInduction
  <1>3. QED BY <1>2

\* Term by term.
LEMMA SumDifference ==
  ASSUME NEW f, NEW g, NEW h, NEW S, IsFiniteSet(S),
         \A x \in S : f[x] \in Int /\ g[x] \in Int /\ h[x] = f[x] - g[x]
  PROVE  SumOver(h, S) = SumOver(f, S) - SumOver(g, S)
  <1> DEFINE P == {T \in SUBSET S : SumOver(h, T) = SumOver(f, T) - SumOver(g, T)}
  <1>1. ASSUME NEW T \in SUBSET S, \A U \in SUBSET T : U # T => U \in P PROVE T \in P
    <2>1. CASE T = {} BY <2>1, SumEmpty
    <2>2. CASE T # {}
      <3>1. PICK x \in T : x = Chosen(T) BY <2>2, ChosenIn
      <3>2. SumOver(h, T \ {x}) = SumOver(f, T \ {x}) - SumOver(g, T \ {x}) BY <1>1
      <3>3. IsFiniteSet(T) /\ IsFiniteSet(T \ {x}) BY FS_Subset
      <3>4. /\ SumOver(f, T) = f[x] + SumOver(f, T \ {x})
            /\ SumOver(g, T) = g[x] + SumOver(g, T \ {x})
            /\ SumOver(h, T) = h[x] + SumOver(h, T \ {x})
        BY <2>2, <3>1, <3>3, SumChosen
      <3>5. SumOver(f, T \ {x}) \in Int /\ SumOver(g, T \ {x}) \in Int BY <3>3, SumType
      <3>6. f[x] \in Int /\ g[x] \in Int /\ h[x] = f[x] - g[x] OBVIOUS
      <3>7. SumOver(h, T) = SumOver(f, T) - SumOver(g, T) BY <3>2, <3>4, <3>5, <3>6
      <3>8. QED BY <3>7
    <2>3. QED BY <2>1, <2>2
  <1>2. \A T \in SUBSET S : T \in P
    <2> HIDE DEF P
    <2>1. QED BY <1>1, SubsetInduction
  <1>3. QED BY <1>2

LEMMA SumScale ==
  ASSUME NEW c \in Int, NEW f, NEW g, NEW S, IsFiniteSet(S),
         \A x \in S : f[x] \in Int /\ g[x] = c * f[x]
  PROVE  SumOver(g, S) = c * SumOver(f, S)
  <1> DEFINE P == {T \in SUBSET S : SumOver(g, T) = c * SumOver(f, T)}
  <1>1. ASSUME NEW T \in SUBSET S, \A U \in SUBSET T : U # T => U \in P PROVE T \in P
    <2>1. CASE T = {} BY <2>1, SumEmpty
    <2>2. CASE T # {}
      <3>1. PICK x \in T : x = Chosen(T) BY <2>2, ChosenIn
      <3>2. SumOver(g, T \ {x}) = c * SumOver(f, T \ {x}) BY <1>1
      <3>3. IsFiniteSet(T) /\ IsFiniteSet(T \ {x}) BY FS_Subset
      <3>4. /\ SumOver(f, T) = f[x] + SumOver(f, T \ {x})
            /\ SumOver(g, T) = g[x] + SumOver(g, T \ {x})
        BY <2>2, <3>1, <3>3, SumChosen
      <3>5. PICK a \in Int, b \in Int : a = f[x] /\ b = SumOver(f, T \ {x}) BY <3>3, SumType
      <3>6. c * (a + b) = c * a + c * b OBVIOUS
      <3>7. g[x] = c * a BY <3>5
      <3>8. SumOver(g, T) = c * SumOver(f, T) BY <3>2, <3>4, <3>5, <3>6, <3>7, Zenon
      <3>9. QED BY <3>8
    <2>3. QED BY <2>1, <2>2
  <1>2. \A T \in SUBSET S : T \in P
    <2> HIDE DEF P
    <2>1. QED BY <1>1, SubsetInduction
  <1>3. QED BY <1>2

\* Counting is adding ones.
LEMMA SumOnes ==
  ASSUME NEW f, NEW S, IsFiniteSet(S), \A x \in S : f[x] = 1
  PROVE  SumOver(f, S) = Cardinality(S)
  <1> DEFINE P == {T \in SUBSET S : SumOver(f, T) = Cardinality(T)}
  <1>1. ASSUME NEW T \in SUBSET S, \A U \in SUBSET T : U # T => U \in P PROVE T \in P
    <2>1. CASE T = {} BY <2>1, SumEmpty, FS_EmptySet
    <2>2. CASE T # {}
      <3>1. PICK x \in T : x = Chosen(T) BY <2>2, ChosenIn
      <3>2. SumOver(f, T \ {x}) = Cardinality(T \ {x}) BY <1>1
      <3>3. IsFiniteSet(T) BY FS_Subset
      <3>4. SumOver(f, T) = f[x] + SumOver(f, T \ {x}) BY <2>2, <3>1, <3>3, SumChosen
      <3>5. Cardinality(T \ {x}) = Cardinality(T) - 1 /\ Cardinality(T) \in Nat
        BY <3>1, <3>3, FS_RemoveElement, FS_CardinalityType
      <3>6. SumOver(f, T) = Cardinality(T) BY <3>2, <3>4, <3>5
      <3>7. QED BY <3>6
    <2>3. QED BY <2>1, <2>2
  <1>2. \A T \in SUBSET S : T \in P
    <2> HIDE DEF P
    <2>1. QED BY <1>1, SubsetInduction
  <1>3. QED BY <1>2

\* Under other names: the keys of L stand for the keys of K, one for one.
Renames(to, L, K) ==
  /\ \A l \in L : to[l] \in K
  /\ \A k \in K : \E l \in L : to[l] = k
  /\ \A l, m \in L : to[l] = to[m] => l = m
Carries(to, L, f, g) == \A l \in L : g[l] = f[to[l]] /\ g[l] \in Int

LEMMA SumRenamed ==
  ASSUME NEW f, NEW g, NEW K, NEW L, NEW to, IsFiniteSet(L), Renames(to, L, K),
         Carries(to, L, f, g)
  PROVE  SumOver(f, K) = SumOver(g, L)
  <1> DEFINE Of(M) == {k \in K : \E l \in M : to[l] = k}
             P == {M \in SUBSET L : IsFiniteSet(Of(M)) /\ SumOver(f, Of(M)) = SumOver(g, M)}
  <1>0. \A l \in L : g[l] = f[to[l]] /\ g[l] \in Int BY DEF Carries
  <1>1. ASSUME NEW M \in SUBSET L, \A U \in SUBSET M : U # M => U \in P PROVE M \in P
    <2>1. CASE M = {}
      <3>1. Of(M) = {} BY <2>1
      <3>2. SumOver(f, Of(M)) = 0 /\ SumOver(g, M) = 0 BY <2>1, <3>1, SumEmpty
      <3>3. IsFiniteSet(Of(M)) BY <3>1, FS_EmptySet
      <3>4. QED BY <3>2, <3>3
    <2>2. CASE M # {}
      <3>1. PICK l \in M : l = Chosen(M) BY <2>2, ChosenIn
      <3>2. IsFiniteSet(Of(M \ {l})) /\ SumOver(f, Of(M \ {l})) = SumOver(g, M \ {l}) BY <1>1
      <3>3. IsFiniteSet(M) BY FS_Subset
      <3>4. SumOver(g, M) = g[l] + SumOver(g, M \ {l}) BY <2>2, <3>1, <1>0, <3>3, SumChosen
      <3>5. to[l] \in Of(M) BY DEF Renames
      <3>6. Of(M) \ {to[l]} = Of(M \ {l}) BY DEF Renames
      <3>7. Of(M) = Of(M \ {l}) \cup {to[l]} BY <3>5, <3>6
      <3>8. IsFiniteSet(Of(M))
        <4> HIDE DEF Of
        <4>1. IsFiniteSet(Of(M \ {l}) \cup {to[l]}) BY <3>2, FS_AddElement
        <4>2. QED BY <3>7, <4>1, Zenon
      <3>9. SumOver(f, Of(M)) = f[to[l]] + SumOver(f, Of(M) \ {to[l]})
        <4>1. \A k \in Of(M) : f[k] \in Int BY <1>0
        <4> HIDE DEF Of
        <4>2. QED BY <3>5, <3>8, <4>1, SumRemove
      <3>10. SumOver(f, Of(M)) = SumOver(g, M)
        <4>1. g[l] = f[to[l]] BY <1>0
        <4> HIDE DEF Of
        <4>2. QED BY <3>2, <3>4, <3>6, <3>9, <4>1, Zenon
      <3>11. QED BY <3>8, <3>10
    <2>3. QED BY <2>1, <2>2
  <1>2. \A M \in SUBSET L : M \in P
    <2> HIDE DEF P
    <2>1. QED BY <1>1, SubsetInduction
  <1>3. L \in P BY <1>2
  <1>4. Of(L) = K BY DEF Renames
  <1>5. QED BY <1>3, <1>4

-----------------------------------------------------------------------------
(* The tables.  A line belongs to a receipt, carries the price and the     *)
(* cost of the receipt's year and region, and no receipt is dated ahead.   *)

LineRight(i) ==
  /\ i.receipt \in Ids /\ i.product \in Products /\ i.quantity \in 1..MaxQuantity
  /\ i.price = UnitPrice[<<i.product, YearOf(Day(i))>>] * i.quantity
  /\ i.cost = CostOf(i.product, receipts[i.receipt]) * i.quantity
  /\ i.margin = i.price - i.cost

SalesInv ==
  /\ today \in Int /\ prices \subseteq Products \X Years /\ receipts \in Seq(Visits)
  /\ receipts # <<>> => Priced
  /\ \A r \in Ids : receipts[r].day <= today
  /\ IsFiniteSet(lines) /\ \A i \in lines : LineRight(i)

\* The tables fill up as the reports expect them: a receipt once every price is
\* there and never dated ahead, a line with what its receipt's year and region
\* say (seed-demo.ts).
THEOREM SalesKept == SalesSpec => []SalesInv
  <1>1. SalesInit => SalesInv
    <2>1. IsFiniteSet({}) BY FS_EmptySet
    <2>2. QED BY <2>1, SalesAssumption DEF SalesInit, SalesInv, Ids
  <1>2. ASSUME SalesInv, [SalesNext]_salesVars PROVE SalesInv'
    <2> USE <1>2 DEF SalesInv
    <2> USE SalesAssumption, CatalogAssumption
    <2>1. ASSUME NEW p \in Products, NEW y \in Years, PriceProduct(p, y) PROVE SalesInv'
      <3>1. receipts = <<>> /\ receipts' = <<>> /\ lines' = lines /\ prices' = prices \cup {<<p, y>>}
        BY <2>1 DEF PriceProduct
      <3>2. Ids = {} /\ Ids' = {} BY <3>1 DEF Ids
      <3>3. \A i \in lines : i.receipt \in Ids BY DEF LineRight
      <3>4. lines = {} BY <3>2, <3>3
      <3>5. QED BY <2>1, <3>1, <3>2, <3>4 DEF PriceProduct
    <2>2. ASSUME NEW v \in Visits, NewReceipt(v) PROVE SalesInv'
      <3>1. /\ receipts' = Append(receipts, v) /\ v.day <= today /\ Priced
            /\ lines' = lines /\ today' = today /\ prices' = prices
        BY <2>2 DEF NewReceipt
      <3>2. /\ receipts' \in Seq(Visits) /\ Len(receipts') = Len(receipts) + 1
            /\ \A r \in Ids : receipts'[r] = receipts[r]
            /\ receipts'[Len(receipts) + 1] = v
        BY <3>1 DEF Ids
      <3>3. Ids' = Ids \cup {Len(receipts) + 1} BY <3>2 DEF Ids
      <3>4. \A r \in Ids' : receipts'[r].day <= today' BY <3>1, <3>2, <3>3
      <3>5. ASSUME NEW i \in lines' PROVE LineRight(i)'
        <4>1. LineRight(i) BY <3>1, <3>5
        <4>2. receipts'[i.receipt] = receipts[i.receipt] BY <3>2, <4>1 DEF LineRight
        <4>3. i.receipt \in Ids' BY <3>3, <4>1 DEF LineRight
        <4>4. QED BY <4>1, <4>2, <4>3 DEF LineRight, Day, YearOf, CostOf
      <3>6. Priced' BY <3>1 DEF Priced
      <3>7. QED BY <3>1, <3>2, <3>4, <3>5, <3>6
    <2>3. ASSUME NEW p \in Products, NEW quantity \in 1..MaxQuantity, AddLine(p, quantity)
          PROVE SalesInv'
      <3>1. PICK l : l = Line(Len(receipts), p, quantity) OBVIOUS
      <3>2. /\ receipts # <<>> /\ lines' = lines \cup {l}
            /\ today' = today /\ prices' = prices /\ receipts' = receipts
        BY <2>3, <3>1 DEF AddLine
      <3>3. /\ l.receipt = Len(receipts) /\ l.product = p /\ l.quantity = quantity
            /\ l.price = UnitPrice[<<p, YearOf(receipts[Len(receipts)].day)>>] * quantity
            /\ l.cost = CostOf(p, receipts[Len(receipts)]) * quantity
            /\ l.margin = l.price - l.cost
        BY <3>1 DEF Line
      <3>4. Len(receipts) \in Ids BY <3>2 DEF Ids
      <3>5. LineRight(l) BY <3>3, <3>4, Zenon DEF LineRight, Day
      <3>6. ASSUME NEW i \in lines' PROVE LineRight(i)'
        <4>1. LineRight(i) BY <3>2, <3>5, <3>6
        <4>2. QED BY <3>2, <4>1 DEF LineRight, Day, YearOf, CostOf, Ids
      <3>7. IsFiniteSet(lines') BY <3>2, FS_AddElement
      <3>8. QED BY <3>2, <3>6, <3>7 DEF Ids, Priced
    <2>4. CASE Midnight
      <3>1. today' = today + 1 /\ prices' = prices /\ receipts' = receipts /\ lines' = lines
        BY <2>4 DEF Midnight
      <3>2. \A r \in Ids : receipts[r].day \in Int BY DEF Ids
      <3>3. \A r \in Ids : receipts[r].day <= today + 1 BY <3>2
      <3>4. QED BY <3>1, <3>3 DEF LineRight, Day, YearOf, CostOf, Ids, Priced
    <2>5. CASE UNCHANGED salesVars
      BY <2>5 DEF salesVars, LineRight, Day, YearOf, CostOf, Ids, Priced
    <2>6. QED BY <1>2, <2>1, <2>2, <2>3, <2>4, <2>5 DEF SalesNext
  <1>3. QED BY <1>1, <1>2, PTL DEF SalesSpec

-----------------------------------------------------------------------------
(* Each total of the reports is such a sum.                                *)

Column(c, S) == [i \in S |-> i[c]]
AddsUp(g, c, S) ==
  g = [s \in SUBSET S |-> IF s = {} THEN 0 ELSE Chosen(s)[c] + g[s \ {Chosen(s)}]]

LEMMA ColumnSum ==
  \A c, S : (CHOOSE g : AddsUp(g, c, S))[S] = SumOver(Column(c, S), S)
  <1> TAKE c, S
  <1>1. ASSUME NEW g PROVE AddsUp(g, c, S) <=> Unfolds(g, Column(c, S), S)
    <2>1. ASSUME NEW s \in SUBSET S
          PROVE  (IF s = {} THEN 0 ELSE Chosen(s)[c] + g[s \ {Chosen(s)}])
                   = (IF s = {} THEN 0 ELSE Column(c, S)[Chosen(s)] + g[s \ {Chosen(s)}])
      <3>1. CASE s = {} BY <3>1, Zenon
      <3>2. CASE s # {}
        <4>1. PICK x \in S : x = Chosen(s) BY <3>2, ChosenIn
        <4>2. Column(c, S)[x] = x[c] BY Zenon DEF Column
        <4>3. QED BY <4>1, <4>2, Zenon
      <3>3. QED BY <3>1, <3>2
    <2>2. [s \in SUBSET S |-> IF s = {} THEN 0 ELSE Chosen(s)[c] + g[s \ {Chosen(s)}]]
            = [s \in SUBSET S |->
                 IF s = {} THEN 0 ELSE Column(c, S)[Chosen(s)] + g[s \ {Chosen(s)}]]
      BY <2>1, Zenon
    <2>3. QED BY <2>2, Zenon DEF AddsUp, Unfolds
  <1>2. (CHOOSE g : AddsUp(g, c, S)) = (CHOOSE g : Unfolds(g, Column(c, S), S)) BY <1>1, Zenon
  <1>3. QED BY <1>2, SumUnfolds, Zenon

LEMMA SalesSum == \A S : Sales(S) = SumOver(Column("price", S), S)
  <1>1. \A S : Sales(S) = (CHOOSE g : AddsUp(g, "price", S))[S]
    BY Zenon DEF Sales, MapThenSumSet, MapThenFoldSet, AddsUp, Chosen
  <1>2. QED BY <1>1, ColumnSum, Zenon

LEMMA CostSum == \A S : Cost(S) = SumOver(Column("cost", S), S)
  <1>1. \A S : Cost(S) = (CHOOSE g : AddsUp(g, "cost", S))[S]
    BY Zenon DEF Cost, MapThenSumSet, MapThenFoldSet, AddsUp, Chosen
  <1>2. QED BY <1>1, ColumnSum, Zenon

LEMMA ProfitSum == \A S : Profit(S) = SumOver(Column("margin", S), S)
  <1>1. \A S : Profit(S) = (CHOOSE g : AddsUp(g, "margin", S))[S]
    BY Zenon DEF Profit, MapThenSumSet, MapThenFoldSet, AddsUp, Chosen
  <1>2. QED BY <1>1, ColumnSum, Zenon

LEMMA QuantitySum == \A S : Quantity(S) = SumOver(Column("quantity", S), S)
  <1>1. \A S : Quantity(S) = (CHOOSE g : AddsUp(g, "quantity", S))[S]
    BY Zenon DEF Quantity, MapThenSumSet, MapThenFoldSet, AddsUp, Chosen
  <1>2. QED BY <1>1, ColumnSum, Zenon

LEMMA TotalSum == \A f : Total(f) = SumOver(f, DOMAIN f)
  BY Zenon DEF Total, SumOver

LEMMA LineTypes ==
  ASSUME SalesInv, NEW i \in lines
  PROVE  /\ i.receipt \in Ids /\ receipts[i.receipt] \in Visits
         /\ Day(i) \in Nat /\ Day(i) <= today /\ YearOf(Day(i)) \in Years
         /\ Branch(i) \in Branches /\ CityOf[Branch(i)] \in Cities
         /\ RegionOf[CityOf[Branch(i)]] \in Regions
         /\ i.product \in Products /\ i.quantity \in Nat
         /\ i.price \in Nat /\ i.price > 0 /\ i.cost \in Nat /\ i.margin = i.price - i.cost
         /\ i.cost = UnitCost[<<i.product, RegionOf[CityOf[Branch(i)]], YearOf(Day(i))>>]
                       * i.quantity
  <1>1. LineRight(i) BY DEF SalesInv
  <1>2. i.receipt \in Ids /\ receipts[i.receipt] \in Visits BY <1>1 DEF LineRight, Ids, SalesInv
  <1>3. /\ Day(i) \in Nat /\ Day(i) <= today /\ YearOf(Day(i)) \in Years
        /\ Branch(i) \in Branches
    BY <1>2, CatalogAssumption DEF Day, Branch, SalesInv
  <1>4. CityOf[Branch(i)] \in Cities BY <1>3 DEF Cities
  <1>5. RegionOf[CityOf[Branch(i)]] \in Regions BY <1>4 DEF Regions
  <1>6. i.product \in Products /\ i.quantity \in Nat /\ i.quantity > 0
    BY <1>1, SalesAssumption DEF LineRight
  <1>7. PICK u \in Nat \ {0} : u = UnitPrice[<<i.product, YearOf(Day(i))>>]
    BY <1>3, <1>6, CatalogAssumption
  <1>8. \A q \in Nat : q > 0 => u * q \in Nat /\ u * q > 0
    <2>1. u \in Nat /\ u > 0 OBVIOUS
    <2>2. QED BY <2>1
  <1>9. i.price \in Nat /\ i.price > 0 BY <1>1, <1>6, <1>7, <1>8 DEF LineRight
  <1>10. i.cost = UnitCost[<<i.product, RegionOf[CityOf[Branch(i)]], YearOf(Day(i))>>]
                    * i.quantity
    BY <1>1, Zenon DEF LineRight, CostOf, Branch, Day
  <1>11. PICK c \in Nat : c = UnitCost[<<i.product, RegionOf[CityOf[Branch(i)]], YearOf(Day(i))>>]
    <2>1. <<i.product, RegionOf[CityOf[Branch(i)]], YearOf(Day(i))>> \in Products \X Regions \X Years
      BY <1>3, <1>5, <1>6
    <2>2. QED BY <2>1, CatalogAssumption
  <1>12. i.cost \in Nat
    <2>1. \A q \in Nat : c * q \in Nat OBVIOUS
    <2>2. QED BY <1>6, <1>10, <1>11, <2>1
  <1>13. i.margin = i.price - i.cost BY <1>1 DEF LineRight
  <1>14. QED BY <1>2, <1>3, <1>4, <1>5, <1>6, <1>9, <1>10, <1>12, <1>13

LEMMA LineIntegers ==
  SalesInv => \A i \in lines : /\ Day(i) \in Int /\ Day(i) <= today
                              /\ i["price"] \in Int /\ i["cost"] \in Int
                              /\ i["margin"] \in Int /\ i["quantity"] \in Int
  <1> SUFFICES ASSUME SalesInv, NEW i \in lines
               PROVE  /\ Day(i) \in Int /\ Day(i) <= today
                      /\ i["price"] \in Int /\ i["cost"] \in Int
                      /\ i["margin"] \in Int /\ i["quantity"] \in Int
    OBVIOUS
  <1>1. /\ Day(i) \in Nat /\ Day(i) <= today /\ i.price \in Nat /\ i.cost \in Nat
        /\ i.margin = i.price - i.cost /\ i.quantity \in Nat
    BY LineTypes
  <1>2. QED BY <1>1

LEMMA ImageFinite ==
  ASSUME NEW S, IsFiniteSet(S), NEW f
  PROVE  IsFiniteSet({f[x] : x \in S}) /\ Cardinality({f[x] : x \in S}) <= Cardinality(S)
  <1> DEFINE T == {f[x] : x \in S}
             g == [x \in S |-> f[x]]
  <1>1. g \in Surjection(S, T) BY DEF Surjection
  <1> HIDE DEF T, g
  <1>2. IsFiniteSet(T) /\ Cardinality(T) <= Cardinality(S) BY <1>1, FS_Surjection
  <1>3. QED BY <1>2 DEF T

\* A column of the lines, added up over any part of them.
LEMMA ColumnPart ==
  ASSUME NEW c, NEW S, IsFiniteSet(S), \A i \in S : i[c] \in Int, NEW T \in SUBSET S
  PROVE  SumOver(Column(c, S), T) = SumOver(Column(c, T), T)
  <1>1. IsFiniteSet(T) BY FS_Subset
  <1>2. \A i \in T : Column(c, S)[i] \in Int /\ Column(c, S)[i] = Column(c, T)[i] BY DEF Column
  <1>3. QED BY <1>1, <1>2, SumSame

LEMMA ColumnGroups ==
  ASSUME NEW c, NEW S, IsFiniteSet(S), \A i \in S : i[c] \in Int,
         NEW K, IsFiniteSet(K), NEW key, \A i \in S : key[i] \in K, NEW g,
         \A k \in K : g[k] = SumOver(Column(c, Group(S, key, k)), Group(S, key, k))
  PROVE  SumOver(g, K) = SumOver(Column(c, S), S)
  <1>1. PICK f : f = Column(c, S) OBVIOUS
  <1>2. \A i \in S : f[i] \in Int BY <1>1 DEF Column
  <1>3. ASSUME NEW k \in K PROVE g[k] = SumOver(f, Group(S, key, k))
    <2>1. PICK T \in SUBSET S : T = Group(S, key, k) BY DEF Group
    <2>2. SumOver(Column(c, S), T) = SumOver(Column(c, T), T) BY ColumnPart
    <2>3. g[k] = SumOver(Column(c, T), T) BY <2>1, Zenon
    <2>4. QED BY <1>1, <2>1, <2>2, <2>3, Zenon
  <1>4. SumOver(g, K) = SumOver(f, S) BY <1>2, <1>3, SumGroups
  <1>5. QED BY <1>1, <1>4

LEMMA SalesZero ==
  ASSUME SalesInv, NEW S \in SUBSET lines
  PROVE  Sales(S) \in Int /\ (Sales(S) = 0 <=> S = {})
  <1>1. IsFiniteSet(S) BY FS_Subset DEF SalesInv
  <1>2. \A i \in S : Column("price", S)[i] \in Int /\ Column("price", S)[i] > 0
    <2>1. \A i \in S : i.price \in Nat /\ i.price > 0 BY LineTypes
    <2>2. QED BY <2>1 DEF Column
  <1>3. SumOver(Column("price", S), S) \in Int BY <1>1, <1>2, SumType
  <1>4. SumOver(Column("price", S), S) = 0 => S = {} BY <1>1, <1>2, SumPositive
  <1>5. S = {} => SumOver(Column("price", S), S) = 0 BY SumEmpty
  <1>6. QED BY <1>3, <1>4, <1>5, SalesSum

\* A receipt's place is its id.
LEMMA IdsFinite == SalesInv => IsFiniteSet(Ids) /\ Cardinality(Ids) = Len(receipts)
  <1>1. SalesInv => Len(receipts) \in Nat BY DEF SalesInv
  <1>2. QED BY <1>1, FS_Interval DEF Ids

-----------------------------------------------------------------------------
(* The two windows of a period.                                            *)

SoldBetween(from, to) == {i \in lines : from <= Day(i) /\ Day(i) < to}
WrittenBetween(from, to) == {r \in Ids : from <= receipts[r].day /\ receipts[r].day < to}

LEMMA WindowHolds ==
  ASSUME SalesInv, NEW from \in Int, NEW to \in Int
  PROVE  LET w == WindowStats(Instant(from), Instant(to)) IN
         /\ w.sales = Sales(SoldBetween(from, to))
         /\ w.orders = Cardinality(WrittenBetween(from, to))
         /\ w.distinctProducts = Cardinality({i.product : i \in SoldBetween(from, to)})
  <1> DEFINE R == {r \in Ids : /\ Instant(from) <= Instant(receipts[r].day)
                               /\ Instant(receipts[r].day) < Instant(to)}
             S == {i \in lines : i.receipt \in R}
  <1>1. \A r \in Ids : receipts[r].day \in Int BY CatalogAssumption DEF SalesInv, Ids
  <1>2. R = WrittenBetween(from, to) BY <1>1 DEF WrittenBetween, Instant
  <1>3. S = SoldBetween(from, to)
    <2>1. \A i \in lines : i.receipt \in Ids BY LineTypes
    <2>2. \A i \in lines : i.receipt \in R <=> i \in SoldBetween(from, to)
      BY <1>2, <2>1, Zenon DEF SoldBetween, WrittenBetween, Day
    <2>3. SoldBetween(from, to) \subseteq lines BY DEF SoldBetween
    <2> HIDE DEF R
    <2>4. QED BY <2>2, <2>3
  <1>4. /\ WindowStats(Instant(from), Instant(to)).sales = Sales(S)
        /\ WindowStats(Instant(from), Instant(to)).orders = Cardinality(R)
        /\ WindowStats(Instant(from), Instant(to)).distinctProducts
             = Cardinality({i.product : i \in S})
    BY DEF WindowStats
  <1>5. QED BY <1>2, <1>3, <1>4, Zenon

LEMMA PerformanceHolds ==
  ASSUME SalesInv, NEW n \in Periods
  PROVE  LET w == Performance(n) IN
         /\ w.current.sales = Sales(SoldBetween(today + 1 - n, today + 1))
         /\ w.previous.sales = Sales(SoldBetween(today + 1 - 2 * n, today + 1 - n))
         /\ w.current.distinctProducts
              = Cardinality({i.product : i \in SoldBetween(today + 1 - n, today + 1)})
         /\ w.current.orders = Cardinality(WrittenBetween(today + 1 - n, today + 1))
         /\ w.previous.orders = Cardinality(WrittenBetween(today + 1 - 2 * n, today + 1 - n))
  <1>1. n \in Nat /\ today \in Int BY ReportsAssumption DEF SalesInv
  <1>2. /\ WindowsEnd = Instant(today + 1)
        /\ WindowsEnd - Instant(n) = Instant(today + 1 - n)
        /\ WindowsEnd - Instant(2 * n) = Instant(today + 1 - 2 * n)
    BY <1>1 DEF WindowsEnd, Instant
  <1>3. /\ Performance(n).current = WindowStats(WindowsEnd - Instant(n), WindowsEnd)
        /\ Performance(n).previous = WindowStats(WindowsEnd - Instant(2 * n), WindowsEnd - Instant(n))
    BY DEF Performance
  <1>4. today + 1 \in Int /\ today + 1 - n \in Int /\ today + 1 - 2 * n \in Int BY <1>1
  <1>5. /\ Performance(n).current = WindowStats(Instant(today + 1 - n), Instant(today + 1))
        /\ Performance(n).previous = WindowStats(Instant(today + 1 - 2 * n), Instant(today + 1 - n))
    BY <1>2, <1>3, Zenon
  <1>6. QED BY <1>4, <1>5, WindowHolds

\* The daily list, added up.
LEMMA DailyHolds ==
  ASSUME SalesInv
  PROVE  Total(DailySummary) = WindowStats(WindowsEnd - Instant(DailyDays + 1), WindowsEnd).sales
  <1> DEFINE S == {i \in lines : Day(i) >= today - DailyDays}
             K == {Day(i) : i \in S}
             key == [i \in S |-> Day(i)]
  <1>1. today \in Int /\ DailyDays \in Nat BY ReportsAssumption DEF SalesInv
  <1>2. IsFiniteSet(S)
    <2>1. S \subseteq lines OBVIOUS
    <2>2. QED BY <2>1, FS_Subset DEF SalesInv
  <1>3. IsFiniteSet(K)
    <2>1. K = {key[i] : i \in S} OBVIOUS
    <2>2. IsFiniteSet({key[i] : i \in S})
      <3> HIDE DEF S, key
      <3>1. QED BY <1>2, ImageFinite
    <2>3. QED BY <2>1, <2>2, Zenon
  <1>4. \A i \in S : i["price"] \in Int BY LineIntegers
  <1>5. PICK g : g = DailySummary OBVIOUS
  <1>6. DOMAIN g = K /\ \A k \in K : g[k] = Sales({i \in S : Day(i) = k})
    BY <1>5 DEF DailySummary, GroupBy
  <1>7. ASSUME NEW k \in K
        PROVE  g[k] = SumOver(Column("price", Group(S, key, k)), Group(S, key, k))
    <2>1. {i \in S : Day(i) = k} = Group(S, key, k) BY DEF Group
    <2>2. g[k] = Sales({i \in S : Day(i) = k}) BY <1>6
    <2> HIDE DEF S, key
    <2>3. QED BY <2>1, <2>2, SalesSum, Zenon
  <1>8. SumOver(g, K) = SumOver(Column("price", S), S)
    <2>1. \A i \in S : key[i] \in K OBVIOUS
    <2> HIDE DEF S, K, key
    <2>2. QED BY <1>2, <1>3, <1>4, <1>7, <2>1, ColumnGroups
  <1>9. Total(DailySummary) = Sales(S)
    <2>1. Total(g) = SumOver(g, K) BY <1>6, TotalSum
    <2> HIDE DEF S, K
    <2>2. QED BY <1>5, <1>8, <2>1, SalesSum, Zenon
  <1>10. SoldBetween(today - DailyDays, today + 1) = S
    <2>1. \A i \in lines : Day(i) \in Int /\ Day(i) <= today BY LineIntegers
    <2>2. QED BY <1>1, <2>1 DEF SoldBetween
  <1>11. /\ WindowsEnd = Instant(today + 1)
         /\ WindowsEnd - Instant(DailyDays + 1) = Instant(today - DailyDays)
    BY <1>1 DEF WindowsEnd, Instant
  <1>12. WindowStats(Instant(today - DailyDays), Instant(today + 1)).sales = Sales(S)
    <2>1. today - DailyDays \in Int /\ today + 1 \in Int BY <1>1
    <2> HIDE DEF S
    <2>2. QED BY <1>10, <2>1, WindowHolds
  <1> HIDE DEF S
  <1>13. QED BY <1>9, <1>11, <1>12, Zenon

\* The two windows of the dashboard's performance split the last days, today's
\* receipts included, and its daily list adds up to the window it covers
\* (dashboard.service.ts getPerformance, getDailySummary).
THEOREM WindowsAlwaysPartition == SalesSpec => []WindowsPartition
  <1>1. ASSUME SalesInv, NEW n \in Periods
        PROVE  LET both == {i \in lines : today - 2 * n < Day(i) /\ Day(i) <= today}
                   now == {i \in both : Day(i) > today - n}
                   windows == Performance(n)
               IN /\ windows.current.sales = Sales(now)
                  /\ windows.previous.sales = Sales(both \ now)
                  /\ windows.current.distinctProducts = Cardinality({i.product : i \in now})
                  /\ windows.current.orders + windows.previous.orders =
                       Cardinality({r \in Ids : receipts[r].day > today - 2 * n})
                  /\ LET change == PercentChange(windows.current.sales, windows.previous.sales)
                     IN change = <<>> <=> both \ now = {}
    <2> DEFINE both == {i \in lines : today - 2 * n < Day(i) /\ Day(i) <= today}
               now == {i \in both : Day(i) > today - n}
               late == WrittenBetween(today + 1 - n, today + 1)
               early == WrittenBetween(today + 1 - 2 * n, today + 1 - n)
    <2>1. n \in Nat /\ n > 0 /\ today \in Int BY <1>1, ReportsAssumption DEF SalesInv
    <2>2. \A i \in lines : Day(i) \in Int /\ Day(i) <= today BY <1>1, LineIntegers
    <2>3. SoldBetween(today + 1 - n, today + 1) = now BY <2>1, <2>2 DEF SoldBetween
    <2>4. SoldBetween(today + 1 - 2 * n, today + 1 - n) = both \ now
      BY <2>1, <2>2 DEF SoldBetween
    <2>5. \A r \in Ids : receipts[r].day \in Int /\ receipts[r].day <= today
      BY <1>1, CatalogAssumption DEF SalesInv, Ids
    <2>6. {r \in Ids : receipts[r].day > today - 2 * n} = late \cup early /\ late \cap early = {}
      BY <2>1, <2>5 DEF WrittenBetween
    <2>7. IsFiniteSet(late) /\ IsFiniteSet(early)
      BY <1>1, IdsFinite, FS_Subset DEF WrittenBetween
    <2>8. Cardinality(late \cup early) = Cardinality(late) + Cardinality(early)
      <3> HIDE DEF late, early
      <3>1. /\ Cardinality(late \cup early)
                 = Cardinality(late) + Cardinality(early) - Cardinality(late \cap early)
            /\ Cardinality(late) \in Nat /\ Cardinality(early) \in Nat
        BY <2>7, FS_Union, FS_CardinalityType
      <3>2. QED BY <2>6, <3>1, FS_EmptySet
    <2>9. Sales(both \ now) = 0 <=> both \ now = {}
      <3>1. both \ now \in SUBSET lines OBVIOUS
      <3>2. QED BY <1>1, <3>1, SalesZero
    <2>10. \A a, b : PercentChange(a, b) = <<>> <=> b = 0 BY DEF PercentChange
    <2>11. /\ Performance(n).current.sales = Sales(now)
           /\ Performance(n).previous.sales = Sales(both \ now)
           /\ Performance(n).current.distinctProducts = Cardinality({i.product : i \in now})
           /\ Performance(n).current.orders = Cardinality(late)
           /\ Performance(n).previous.orders = Cardinality(early)
      <3> HIDE DEF both, now, late, early
      <3>1. QED BY <1>1, <2>3, <2>4, PerformanceHolds, Zenon DEF late, early
    <2>12. Performance(n).current.orders + Performance(n).previous.orders
             = Cardinality({r \in Ids : receipts[r].day > today - 2 * n})
      <3> HIDE DEF late, early
      <3>1. QED BY <2>6, <2>8, <2>11, Zenon
    <2>13. PercentChange(Performance(n).current.sales, Performance(n).previous.sales) = <<>>
             <=> both \ now = {}
      <3> HIDE DEF both, now
      <3>1. Performance(n).previous.sales = Sales(both \ now) BY <2>11
      <3>2. QED BY <2>9, <2>10, <3>1
    <2>14. QED BY <2>11, <2>12, <2>13, Zenon
  <1>2. SalesInv => WindowsPartition BY <1>1, DailyHolds, Zenon DEF WindowsPartition
  <1>3. QED BY <1>2, SalesKept, PTL

-----------------------------------------------------------------------------
(* Costs.  A line is sold under the cost row of its product, its region    *)
(* and its year, and every such row exists.                                *)

RowOf(i) == <<i.product, RegionOf[CityOf[Branch(i)]], YearOf(Day(i))>>

LEMMA CostRowsFinite == IsFiniteSet(CostRows)
  <1>1. IsFiniteSet(Cities) BY SalesAssumption, ImageFinite DEF Cities
  <1>2. IsFiniteSet(Regions) BY <1>1, ImageFinite DEF Regions
  <1>3. IsFiniteSet(Regions \X Years) BY <1>2, SalesAssumption, FS_Product
  <1>4. IsFiniteSet(Products \X (Regions \X Years)) BY <1>3, SalesAssumption, FS_Product
  <1> DEFINE T == Products \X Regions \X Years
             f == [k \in Products \X (Regions \X Years) |-> <<k[1], k[2][1], k[2][2]>>]
  <1>5. T = {f[k] : k \in Products \X (Regions \X Years)}
    <2>1. \A p \in Products, g \in Regions, y \in Years : f[<<p, <<g, y>>>>] = <<p, g, y>>
      OBVIOUS
    <2>2. ASSUME NEW t \in T PROVE t \in {f[k] : k \in Products \X (Regions \X Years)}
      <3>1. PICK p \in Products, g \in Regions, y \in Years : t = <<p, g, y>> OBVIOUS
      <3>2. <<p, <<g, y>>>> \in Products \X (Regions \X Years) OBVIOUS
      <3> HIDE DEF f
      <3>3. QED BY <2>1, <3>1, <3>2
    <2>3. ASSUME NEW k \in Products \X (Regions \X Years) PROVE f[k] \in T OBVIOUS
    <2>4. QED BY <2>2, <2>3
  <1>6. IsFiniteSet(T)
    <2> HIDE DEF T, f
    <2>1. QED BY <1>4, <1>5, ImageFinite
  <1>7. CostRows \in SUBSET T BY DEF CostRows
  <1> HIDE DEF T
  <1>8. QED BY <1>6, <1>7, FS_Subset

LEMMA SoldUnderHolds ==
  ASSUME SalesInv
  PROVE  /\ \A i \in lines : RowOf(i) \in CostRows
         /\ \A k : SoldUnder(k) = Group(lines, [i \in lines |-> RowOf(i)], k)
  <1>1. ASSUME NEW i \in lines PROVE RowOf(i) \in CostRows
    <2>1. PICK p \in Products, g \in Regions, y \in Years :
            p = i.product /\ g = RegionOf[CityOf[Branch(i)]] /\ y = YearOf(Day(i))
      BY LineTypes
    <2>2. prices = Products \X Years
      <3>1. i.receipt \in Ids BY LineTypes
      <3>2. receipts # <<>> BY <3>1 DEF Ids
      <3>3. QED BY <3>2 DEF SalesInv, Priced
    <2>3. <<p, g, y>> \in CostRows BY <2>2 DEF CostRows
    <2>4. QED BY <2>1, <2>3 DEF RowOf
  <1>2. ASSUME NEW k PROVE SoldUnder(k) = Group(lines, [i \in lines |-> RowOf(i)], k)
    BY DEF SoldUnder, Group, RowOf
  <1>3. QED BY <1>1, <1>2

\* A row's cost is its unit cost on what was sold under it.
LEMMA RowCost ==
  ASSUME SalesInv, NEW k \in CostRows
  PROVE  Cost(SoldUnder(k)) = UnitCost[k] * Quantity(SoldUnder(k))
  <1>1. PICK S \in SUBSET lines : S = SoldUnder(k) BY DEF SoldUnder
  <1>2. IsFiniteSet(S) BY FS_Subset DEF SalesInv
  <1>3. UnitCost[k] \in Int
    <2>1. k \in Products \X Regions \X Years BY DEF CostRows
    <2>2. UnitCost[k] \in Nat BY <2>1, CatalogAssumption
    <2>3. QED BY <2>2
  <1>4. ASSUME NEW i \in S
        PROVE  Column("quantity", S)[i] \in Int
               /\ Column("cost", S)[i] = UnitCost[k] * Column("quantity", S)[i]
    <2>1. i.quantity \in Nat /\ i.cost = UnitCost[RowOf(i)] * i.quantity BY LineTypes DEF RowOf
    <2>2. RowOf(i) = k BY <1>1 DEF SoldUnder, RowOf
    <2>3. Column("quantity", S)[i] = i.quantity /\ Column("cost", S)[i] = i.cost BY DEF Column
    <2>4. QED BY <2>1, <2>2, <2>3
  <1>5. SumOver(Column("cost", S), S) = UnitCost[k] * SumOver(Column("quantity", S), S)
    BY <1>2, <1>3, <1>4, SumScale
  <1>6. QED BY <1>1, <1>5, CostSum, QuantitySum, Zenon

RowSales(K) == [k \in K |-> Sales(SoldUnder(k))]
YearCost(p, g, S) == [y \in S |-> UnitCost[<<p, g, y>>]]

LEMMA RowSalesSum ==
  \A K : MapThenSumSet(LAMBDA k : Sales(SoldUnder(k)), K) = SumOver(RowSales(K), K)
  <1> TAKE K
  <1> DEFINE Adds(g) ==
        g = [s \in SUBSET K |-> IF s = {} THEN 0
                                ELSE Sales(SoldUnder(Chosen(s))) + g[s \ {Chosen(s)}]]
  <1>1. MapThenSumSet(LAMBDA k : Sales(SoldUnder(k)), K) = (CHOOSE g : Adds(g))[K]
    BY Zenon DEF MapThenSumSet, MapThenFoldSet, Chosen
  <1>2. ASSUME NEW g PROVE Adds(g) <=> Unfolds(g, RowSales(K), K)
    <2>1. ASSUME NEW s \in SUBSET K
          PROVE  (IF s = {} THEN 0 ELSE Sales(SoldUnder(Chosen(s))) + g[s \ {Chosen(s)}])
                   = (IF s = {} THEN 0 ELSE RowSales(K)[Chosen(s)] + g[s \ {Chosen(s)}])
      <3>1. CASE s = {} BY <3>1, Zenon
      <3>2. CASE s # {}
        <4>1. PICK x \in K : x = Chosen(s) BY <3>2, ChosenIn
        <4>2. RowSales(K)[x] = Sales(SoldUnder(x)) BY Zenon DEF RowSales
        <4>3. QED BY <4>1, <4>2, Zenon
      <3>3. QED BY <3>1, <3>2
    <2>2. [s \in SUBSET K |-> IF s = {} THEN 0
                              ELSE Sales(SoldUnder(Chosen(s))) + g[s \ {Chosen(s)}]]
            = [s \in SUBSET K |->
                 IF s = {} THEN 0 ELSE RowSales(K)[Chosen(s)] + g[s \ {Chosen(s)}]]
      BY <2>1, Zenon
    <2>3. QED BY <2>2, Zenon DEF Unfolds
  <1> HIDE DEF Adds
  <1>3. (CHOOSE g : Adds(g)) = (CHOOSE g : Unfolds(g, RowSales(K), K)) BY <1>2, Zenon
  <1>4. QED BY <1>1, <1>3, SumUnfolds, Zenon

LEMMA YearCostSum ==
  \A p, g, S : MapThenSumSet(LAMBDA y : UnitCost[<<p, g, y>>], S) = SumOver(YearCost(p, g, S), S)
  <1> TAKE p, g, S
  <1> DEFINE Adds(h) ==
        h = [s \in SUBSET S |-> IF s = {} THEN 0
                                ELSE UnitCost[<<p, g, Chosen(s)>>] + h[s \ {Chosen(s)}]]
  <1>1. MapThenSumSet(LAMBDA y : UnitCost[<<p, g, y>>], S) = (CHOOSE h : Adds(h))[S]
    BY Zenon DEF MapThenSumSet, MapThenFoldSet, Chosen
  <1>2. ASSUME NEW h PROVE Adds(h) <=> Unfolds(h, YearCost(p, g, S), S)
    <2>1. ASSUME NEW s \in SUBSET S
          PROVE  (IF s = {} THEN 0 ELSE UnitCost[<<p, g, Chosen(s)>>] + h[s \ {Chosen(s)}])
                   = (IF s = {} THEN 0 ELSE YearCost(p, g, S)[Chosen(s)] + h[s \ {Chosen(s)}])
      <3>1. CASE s = {} BY <3>1, Zenon
      <3>2. CASE s # {}
        <4>1. PICK y \in S : y = Chosen(s) BY <3>2, ChosenIn
        <4>2. YearCost(p, g, S)[y] = UnitCost[<<p, g, y>>] BY Zenon DEF YearCost
        <4>3. QED BY <4>1, <4>2, Zenon
      <3>3. QED BY <3>1, <3>2
    <2>2. [s \in SUBSET S |-> IF s = {} THEN 0
                              ELSE UnitCost[<<p, g, Chosen(s)>>] + h[s \ {Chosen(s)}]]
            = [s \in SUBSET S |->
                 IF s = {} THEN 0 ELSE YearCost(p, g, S)[Chosen(s)] + h[s \ {Chosen(s)}]]
      BY <2>1, Zenon
    <2>3. QED BY <2>2, Zenon DEF Unfolds
  <1> HIDE DEF Adds
  <1>3. (CHOOSE h : Adds(h)) = (CHOOSE h : Unfolds(h, YearCost(p, g, S), S)) BY <1>2, Zenon
  <1>4. QED BY <1>1, <1>3, SumUnfolds, Zenon

\* The rows of a region and a product are its years.
CostKey == [k \in CostRows |-> <<k[2], k[1]>>]

LEMMA AverageCounts ==
  \A K : AverageCost(K).sum = SumOver(UnitCost, K) /\ AverageCost(K).count = Cardinality(K)
  <1> TAKE K
  <1>1. PICK a, n : a = SumOver(UnitCost, K) /\ n = Cardinality(K) OBVIOUS
  <1>2. AverageCost(K) = [sum |-> a, count |-> n] BY <1>1, Zenon DEF AverageCost, SumOver
  <1>3. AverageCost(K).sum = a /\ AverageCost(K).count = n BY <1>2
  <1>4. QED BY <1>1, <1>3, Zenon

LEMMA RegionCostHolds ==
  /\ DOMAIN RegionCost = {CostKey[k] : k \in CostRows}
  /\ \A c \in DOMAIN RegionCost :
       LET K == Group(CostRows, CostKey, c) IN
       /\ RegionCost[c].avgCost.sum = SumOver(UnitCost, K)
       /\ RegionCost[c].avgCost.count = Cardinality(K)
       /\ RegionCost[c].sales = SumOver(RowSales(K), K)
  <1>1. \A c : Group(CostRows, CostKey, c) = {k \in CostRows : <<k[2], k[1]>> = c}
    BY DEF Group, CostKey
  <1>2. DOMAIN RegionCost = {CostKey[k] : k \in CostRows} BY DEF RegionCost, GroupBy, CostKey
  <1>3. ASSUME NEW c \in DOMAIN RegionCost, NEW K, K = Group(CostRows, CostKey, c)
        PROVE  /\ RegionCost[c].avgCost = AverageCost(K)
               /\ RegionCost[c].sales = MapThenSumSet(LAMBDA k : Sales(SoldUnder(k)), K)
    <2>1. c \in {<<k[2], k[1]>> : k \in CostRows} BY DEF RegionCost, GroupBy
    <2>2. K = {k \in CostRows : <<k[2], k[1]>> = c} BY <1>1, <1>3
    <2>3. RegionCost[c] =
            [avgCost |-> AverageCost(K),
             sales   |-> MapThenSumSet(LAMBDA k : Sales(SoldUnder(k)), K),
             profit  |-> MapThenSumSet(LAMBDA k : Profit(SoldUnder(k)), K)]
      BY <2>1, <2>2, Zenon DEF RegionCost, GroupBy
    <2>4. PICK a, n, q : /\ a = AverageCost(K)
                         /\ n = MapThenSumSet(LAMBDA k : Sales(SoldUnder(k)), K)
                         /\ q = MapThenSumSet(LAMBDA k : Profit(SoldUnder(k)), K)
      BY Zenon
    <2>5. RegionCost[c] = [avgCost |-> a, sales |-> n, profit |-> q] BY <2>3, <2>4, Zenon
    <2>6. RegionCost[c].avgCost = a /\ RegionCost[c].sales = n BY <2>5
    <2>7. QED BY <2>4, <2>6, Zenon
  <1>4. ASSUME NEW c \in DOMAIN RegionCost
        PROVE  LET K == Group(CostRows, CostKey, c) IN
               /\ RegionCost[c].avgCost.sum = SumOver(UnitCost, K)
               /\ RegionCost[c].avgCost.count = Cardinality(K)
               /\ RegionCost[c].sales = SumOver(RowSales(K), K)
    <2>1. PICK K : K = Group(CostRows, CostKey, c) OBVIOUS
    <2>2. /\ RegionCost[c].avgCost = AverageCost(K)
          /\ RegionCost[c].sales = MapThenSumSet(LAMBDA k : Sales(SoldUnder(k)), K)
      BY <1>3, <2>1
    <2>3. RegionCost[c].sales = SumOver(RowSales(K), K) BY <2>2, RowSalesSum, Zenon
    <2>4. QED BY <2>1, <2>2, <2>3, AverageCounts, Zenon
  <1>5. QED BY <1>2, <1>4

LEMMA AverageHolds ==
  ASSUME NEW c \in DOMAIN RegionCost, NEW years, years = {y \in Years : <<c[2], y>> \in prices}
  PROVE  RegionCost[c].avgCost.sum * Cardinality(years)
           = RegionCost[c].avgCost.count
               * MapThenSumSet(LAMBDA y : UnitCost[<<c[2], c[1], y>>], years)
  <1>1. PICK k \in CostRows : c = <<k[2], k[1]>> BY DEF RegionCost, GroupBy
  <1>2. PICK p \in Products, g \in Regions, z \in Years : k = <<p, g, z>> BY DEF CostRows
  <1>3. c = <<g, p>> /\ c[1] = g /\ c[2] = p BY <1>1, <1>2
  <1>4. PICK K : K = Group(CostRows, CostKey, c) OBVIOUS
  <1>5. K = {<<p, g, y>> : y \in years}
    <2>1. years = {y \in Years : <<p, y>> \in prices} BY <1>3
    <2>2. \A t \in K : \E y \in years : t = <<p, g, y>>
      BY <1>3, <1>4, <2>1 DEF Group, CostKey, CostRows
    <2>3. \A y \in years : <<p, g, y>> \in CostRows /\ CostKey[<<p, g, y>>] = <<g, p>>
      BY <1>3, <2>1 DEF CostKey, CostRows
    <2>4. \A y \in years : <<p, g, y>> \in K BY <1>3, <1>4, <2>3 DEF Group
    <2>5. QED BY <2>2, <2>4
  <1>6. IsFiniteSet(years) BY SalesAssumption, FS_Subset
  <1> DEFINE to == [y \in years |-> <<p, g, y>>]
             ones == [y \in years |-> 1]
             units == [t \in K |-> 1]
  <1>7. /\ \A y \in years : to[y] \in K
        /\ \A t \in K : \E y \in years : to[y] = t
        /\ \A x, y \in years : to[x] = to[y] => x = y
    BY <1>5
  <1>8. ASSUME NEW y \in years
        PROVE  YearCost(p, g, years)[y] = UnitCost[to[y]] /\ YearCost(p, g, years)[y] \in Int
    <2>1. <<p, g, y>> \in Products \X Regions \X Years OBVIOUS
    <2>2. UnitCost[<<p, g, y>>] \in Nat BY <2>1, CatalogAssumption
    <2>3. QED BY <2>2 DEF YearCost
  <1>9. SumOver(UnitCost, K) = SumOver(YearCost(p, g, years), years)
    <2>1. PICK h, t : h = YearCost(p, g, years) /\ t = to OBVIOUS
    <2>2. Carries(t, years, UnitCost, h)
      <3> HIDE DEF to
      <3>1. QED BY <1>8, <2>1 DEF Carries
    <2>3. Renames(t, years, K)
      <3> HIDE DEF to
      <3>1. QED BY <1>7, <2>1 DEF Renames
    <2>4. SumOver(UnitCost, K) = SumOver(h, years) BY <1>6, <2>2, <2>3, SumRenamed
    <2>5. QED BY <2>1, <2>4, Zenon
  <1>10. Cardinality(K) = Cardinality(years)
    <2>1. to \in Bijection(years, K) BY <1>7 DEF Bijection, Injection, Surjection, IsInjective
    <2>2. ExistsBijection(years, K) BY <2>1 DEF ExistsBijection
    <2>3. QED BY <1>6, <2>2, FS_Bijection
  <1>11. RegionCost[c].avgCost.sum = SumOver(UnitCost, K) /\ RegionCost[c].avgCost.count = Cardinality(K)
    BY <1>4, RegionCostHolds, Zenon
  <1>12. MapThenSumSet(LAMBDA y : UnitCost[<<c[2], c[1], y>>], years)
           = SumOver(YearCost(p, g, years), years)
    <2>1. MapThenSumSet(LAMBDA y : UnitCost[<<c[2], c[1], y>>], years)
            = SumOver(YearCost(c[2], c[1], years), years)
      BY YearCostSum, Zenon
    <2>2. QED BY <1>3, <2>1, Zenon
  <1>13. SumOver(YearCost(p, g, years), years) \in Int BY <1>6, <1>8, SumType
  <1>14. Cardinality(years) \in Int BY <1>6, FS_CardinalityType
  <1>15. SumOver(YearCost(p, g, years), years) * Cardinality(years)
           = Cardinality(years) * SumOver(YearCost(p, g, years), years)
    <2>1. \A a, b \in Int : a * b = b * a OBVIOUS
    <2>2. QED BY <1>13, <1>14, <2>1, Zenon
  <1>16. QED BY <1>9, <1>10, <1>11, <1>12, <1>15, Zenon

LEMMA RegionSalesHold ==
  ASSUME SalesInv
  PROVE  Total([c \in DOMAIN RegionCost |-> RegionCost[c].sales]) = Sales(lines)
  <1>1. PICK total : total = [c \in DOMAIN RegionCost |-> RegionCost[c].sales] OBVIOUS
  <1>2. IsFiniteSet(DOMAIN RegionCost) BY CostRowsFinite, RegionCostHolds, ImageFinite
  <1>3. ASSUME NEW k \in CostRows
        PROVE  RowSales(CostRows)[k] = Sales(SoldUnder(k)) /\ Sales(SoldUnder(k)) \in Int
    <2>1. SoldUnder(k) \in SUBSET lines BY DEF SoldUnder
    <2>2. QED BY <2>1, SalesZero DEF RowSales
  <1>4. ASSUME NEW c \in DOMAIN RegionCost
        PROVE  total[c] = SumOver(RowSales(CostRows), Group(CostRows, CostKey, c))
    <2>1. PICK K \in SUBSET CostRows : K = Group(CostRows, CostKey, c) BY DEF Group
    <2>2. total[c] = SumOver(RowSales(K), K) BY <1>1, <2>1, RegionCostHolds, Zenon
    <2>3. IsFiniteSet(K) BY CostRowsFinite, FS_Subset
    <2>4. \A k \in K : RowSales(K)[k] \in Int /\ RowSales(K)[k] = RowSales(CostRows)[k]
      BY <1>3 DEF RowSales
    <2>5. SumOver(RowSales(K), K) = SumOver(RowSales(CostRows), K) BY <2>3, <2>4, SumSame
    <2>6. QED BY <2>1, <2>2, <2>5, Zenon
  <1>5. SumOver(total, DOMAIN RegionCost) = SumOver(RowSales(CostRows), CostRows)
    <2>1. \A k \in CostRows : CostKey[k] \in DOMAIN RegionCost BY RegionCostHolds
    <2>2. \A k \in CostRows : RowSales(CostRows)[k] \in Int BY <1>3
    <2>3. QED BY <1>2, <1>4, <2>1, <2>2, CostRowsFinite, SumGroups
  <1>6. SumOver(RowSales(CostRows), CostRows) = SumOver(Column("price", lines), lines)
    <2>1. PICK row : row = [i \in lines |-> RowOf(i)] OBVIOUS
    <2>2. \A i \in lines : row[i] \in CostRows BY <2>1, SoldUnderHolds
    <2>3. ASSUME NEW k \in CostRows
          PROVE  RowSales(CostRows)[k]
                   = SumOver(Column("price", Group(lines, row, k)), Group(lines, row, k))
      <3>1. SoldUnder(k) = Group(lines, row, k) BY <2>1, SoldUnderHolds
      <3>2. QED BY <1>3, <3>1, SalesSum, Zenon
    <2>4. IsFiniteSet(lines) /\ \A i \in lines : i["price"] \in Int BY LineIntegers DEF SalesInv
    <2>5. QED BY <2>2, <2>3, <2>4, CostRowsFinite, ColumnGroups
  <1>7. Total(total) = SumOver(total, DOMAIN RegionCost) BY <1>1, TotalSum
  <1>8. QED BY <1>1, <1>5, <1>6, <1>7, SalesSum, Zenon

LEMMA CategoryHolds == \A c \in DOMAIN RegionCategory : RegionCategory[c].count > 0
  <1> SUFFICES ASSUME NEW c \in DOMAIN RegionCategory PROVE RegionCategory[c].count > 0
    OBVIOUS
  <1>1. PICK k \in CostRows : c = <<k[2], CategoryOf[k[1]]>> BY DEF RegionCategory, GroupBy
  <1>2. PICK K \in SUBSET CostRows : K = {q \in CostRows : <<q[2], CategoryOf[q[1]]>> = c} OBVIOUS
  <1>3. RegionCategory[c] = AverageCost(K) BY <1>2 DEF RegionCategory, GroupBy
  <1>4. RegionCategory[c].count = Cardinality(K) BY <1>3, AverageCounts
  <1>5. K # {} BY <1>1, <1>2
  <1>6. IsFiniteSet(K) BY CostRowsFinite, FS_Subset
  <1>7. Cardinality(K) \in Nat /\ Cardinality(K) # 0 BY <1>5, <1>6, FS_EmptySet, FS_CardinalityType
  <1>8. QED BY <1>4, <1>7

\* The price compared with is the latest earlier one, whatever years have none.
LEMMA PreviousHolds ==
  ASSUME NEW p, NEW y, NEW z \in PreviousYears(p, y)
  PROVE  \/ PreviousPrice(p, y) = UnitPrice[<<p, z>>]
         \/ \E x \in PreviousYears(p, y) : x > z
  <1>1. PICK S : S = PreviousYears(p, y) OBVIOUS
  <1>2. S \subseteq Int
    <2>1. Years \subseteq Nat BY SalesAssumption
    <2>2. ASSUME NEW x \in S PROVE x \in Int
      <3>1. x \in Nat BY <1>1, <2>1 DEF PreviousYears
      <3>2. QED BY <3>1
    <2>3. QED BY <2>2
  <1>3. SUFFICES ASSUME \A x \in S : ~ (x > z) PROVE PreviousPrice(p, y) = UnitPrice[<<p, z>>]
    BY <1>1
  <1>4. z \in S /\ \A x \in S : z >= x BY <1>1, <1>2, <1>3
  <1>5. PICK m : m = Max(S) OBVIOUS
  <1>6. m \in S /\ \A x \in S : m >= x BY <1>4, <1>5 DEF Max
  <1>7. m = z BY <1>2, <1>4, <1>6
  <1>8. S # {} BY <1>4
  <1>9. QED BY <1>1, <1>5, <1>7, <1>8, Zenon DEF PreviousPrice

\* The average cost of a region's product is that of its cost rows however much
\* was sold, each line is under one row and at its cost, and a price is compared
\* with the latest earlier one (tables.service.ts getRegionCost and
\* getPriceCostHistory, charts.service.ts regionCategory).
THEOREM CatalogFiguresAlwaysHold == SalesSpec => []CatalogFiguresHold
  <1>1. ASSUME SalesInv PROVE CatalogFiguresHold
    <2>1. \A c \in DOMAIN RegionCost :
            LET years == {y \in Years : <<c[2], y>> \in prices} cell == RegionCost[c]
            IN cell.avgCost.sum * Cardinality(years) =
                 cell.avgCost.count * MapThenSumSet(LAMBDA y : UnitCost[<<c[2], c[1], y>>], years)
      BY AverageHolds, Zenon
    <2>2. Total([c \in DOMAIN RegionCost |-> RegionCost[c].sales]) = Sales(lines)
      BY <1>1, RegionSalesHold
    <2>3. \A k \in CostRows : Cost(SoldUnder(k)) = UnitCost[k] * Quantity(SoldUnder(k))
      BY <1>1, RowCost
    <2>4. \A k \in prices : \A z \in PreviousYears(k[1], k[2]) :
            \/ PreviousPrice(k[1], k[2]) = UnitPrice[<<k[1], z>>]
            \/ \E x \in PreviousYears(k[1], k[2]) : x > z
      BY PreviousHolds
    <2>5. QED BY <2>1, <2>2, <2>3, <2>4, CategoryHolds, Zenon DEF CatalogFiguresHold
  <1>2. QED BY <1>1, SalesKept, PTL

-----------------------------------------------------------------------------
(* Breakdowns.  A metric that is added up line by line is the sum of its   *)
(* groups, however the lines are grouped.                                  *)

Additive == {"sales", "quantity", "profit", "cost"}
ColumnOf(m) == CASE m = "sales" -> "price" [] m = "quantity" -> "quantity"
                 [] m = "profit" -> "margin" [] m = "cost" -> "cost"
Grouped(m, S, key) == [k \in {key[i] : i \in S} |-> Metric(m, Group(S, key, k))]

LEMMA MetricSum ==
  /\ \A m \in Additive : \A S : Metric(m, S) = SumOver(Column(ColumnOf(m), S), S)
  /\ \A S : /\ Metric("sales", S) = Sales(S) /\ Metric("profit", S) = Profit(S)
            /\ Metric("quantity", S) = Quantity(S) /\ Metric("cost", S) = Cost(S)
            /\ Metric("orders", S) = Orders(S)
  <1>1. \A S : /\ Metric("sales", S) = Sales(S) /\ Metric("profit", S) = Profit(S)
               /\ Metric("quantity", S) = Quantity(S) /\ Metric("cost", S) = Cost(S)
               /\ Metric("orders", S) = Orders(S)
    BY DEF Metric
  <1>2. /\ ColumnOf("sales") = "price" /\ ColumnOf("quantity") = "quantity"
        /\ ColumnOf("profit") = "margin" /\ ColumnOf("cost") = "cost"
    BY DEF ColumnOf
  <1>3. \A S : /\ Metric("sales", S) = SumOver(Column(ColumnOf("sales"), S), S)
               /\ Metric("quantity", S) = SumOver(Column(ColumnOf("quantity"), S), S)
               /\ Metric("profit", S) = SumOver(Column(ColumnOf("profit"), S), S)
               /\ Metric("cost", S) = SumOver(Column(ColumnOf("cost"), S), S)
    BY <1>1, <1>2, SalesSum, QuantitySum, ProfitSum, CostSum, Zenon
  <1>4. QED BY <1>1, <1>3, Zenon DEF Additive

LEMMA ColumnTypes ==
  SalesInv => \A m \in Additive, i \in lines : i[ColumnOf(m)] \in Int
  <1>1. /\ ColumnOf("sales") = "price" /\ ColumnOf("quantity") = "quantity"
        /\ ColumnOf("profit") = "margin" /\ ColumnOf("cost") = "cost"
    BY DEF ColumnOf
  <1>2. SalesInv => \A i \in lines : /\ i[ColumnOf("sales")] \in Int
                                     /\ i[ColumnOf("quantity")] \in Int
                                     /\ i[ColumnOf("profit")] \in Int
                                     /\ i[ColumnOf("cost")] \in Int
    BY <1>1, LineIntegers, Zenon
  <1>3. QED BY <1>2, Zenon DEF Additive

LEMMA GroupedTotal ==
  ASSUME SalesInv, NEW m \in Additive, NEW key
  PROVE  Total(Grouped(m, lines, key)) = Metric(m, lines)
  <1>1. PICK g : g = Grouped(m, lines, key) OBVIOUS
  <1>2. PICK K : K = {key[i] : i \in lines} OBVIOUS
  <1>3. DOMAIN g = K BY <1>1, <1>2 DEF Grouped
  <1>4. IsFiniteSet(lines) BY DEF SalesInv
  <1>5. IsFiniteSet(K) BY <1>2, <1>4, ImageFinite
  <1>6. PICK c : c = ColumnOf(m) OBVIOUS
  <1>7. \A i \in lines : i[c] \in Int BY <1>6, ColumnTypes, Zenon
  <1>8. ASSUME NEW k \in K
        PROVE  g[k] = SumOver(Column(c, Group(lines, key, k)), Group(lines, key, k))
    <2>1. g[k] = Metric(m, Group(lines, key, k)) BY <1>1, <1>2, Zenon DEF Grouped
    <2>2. QED BY <1>6, <2>1, MetricSum, Zenon
  <1>9. \A i \in lines : key[i] \in K BY <1>2
  <1>10. SumOver(g, K) = SumOver(Column(c, lines), lines)
    BY <1>4, <1>5, <1>7, <1>8, <1>9, ColumnGroups
  <1>11. Metric(m, lines) = SumOver(Column(c, lines), lines) BY <1>6, MetricSum, Zenon
  <1>12. QED BY <1>1, <1>3, <1>10, <1>11, TotalSum, Zenon

\* How many there are is how many each group has.
Splits(key, S, K) == \A x \in S : key[x] \in K

LEMMA CountGroups ==
  ASSUME NEW S, IsFiniteSet(S), NEW K, IsFiniteSet(K), NEW key, Splits(key, S, K),
         NEW g, \A k \in K : g[k] = Cardinality(Group(S, key, k))
  PROVE  SumOver(g, K) = Cardinality(S)
  <1>1. PICK f : f = [x \in S |-> 1] OBVIOUS
  <1>2. \A x \in S : f[x] \in Int /\ f[x] = 1 BY <1>1
  <1>3. ASSUME NEW k \in K PROVE g[k] = SumOver(f, Group(S, key, k))
    <2>1. PICK T \in SUBSET S : T = Group(S, key, k) BY DEF Group
    <2>2. IsFiniteSet(T) BY FS_Subset
    <2>3. SumOver(f, T) = Cardinality(T) BY <1>2, <2>2, SumOnes
    <2>4. QED BY <2>1, <2>3
  <1>4. SumOver(g, K) = SumOver(f, S) BY <1>2, <1>3, SumGroups DEF Splits
  <1>5. SumOver(f, S) = Cardinality(S) BY <1>2, SumOnes
  <1>6. QED BY <1>4, <1>5

LEMMA TierTypes ==
  ASSUME NEW tiers \in Seq(Int), NEW value
  PROVE  Tier(value, tiers) \in 1..(Len(tiers) + 1)
  <1>1. PICK T \in SUBSET (1..Len(tiers)) : T = {n \in DOMAIN tiers : value >= tiers[n]}
    <2>1. DOMAIN tiers = 1..Len(tiers) OBVIOUS
    <2>2. {n \in DOMAIN tiers : value >= tiers[n]} \in SUBSET DOMAIN tiers OBVIOUS
    <2>3. QED BY <2>1, <2>2, Zenon
  <1>2. Len(tiers) \in Nat OBVIOUS
  <1>3. IsFiniteSet(1..Len(tiers)) /\ Cardinality(1..Len(tiers)) = Len(tiers)
    BY <1>2, FS_Interval
  <1>4. Cardinality(T) \in Nat /\ Cardinality(T) <= Len(tiers)
    BY <1>3, FS_Subset, FS_CardinalityType
  <1>5. Tier(value, tiers) = Cardinality(T) + 1 BY <1>1 DEF Tier
  <1>6. QED BY <1>2, <1>4, <1>5

TierTable(S, value, tiers) ==
  [t \in 1..(Len(tiers) + 1) |-> Cardinality({x \in S : Tier(value[x], tiers) = t})]

LEMMA TierCounts ==
  ASSUME NEW S, IsFiniteSet(S), NEW tiers \in Seq(Int), NEW value
  PROVE  Total(TierTable(S, value, tiers)) = Cardinality(S)
  <1>0. PICK h : h = TierTable(S, value, tiers) OBVIOUS
  <1>1. PICK K : K = 1..(Len(tiers) + 1) OBVIOUS
  <1>2. IsFiniteSet(K)
    <2>1. Len(tiers) + 1 \in Int OBVIOUS
    <2>2. QED BY <1>1, <2>1, FS_Interval
  <1>3. PICK key : key = [x \in S |-> Tier(value[x], tiers)] OBVIOUS
  <1>4. Splits(key, S, K) BY <1>1, <1>3, TierTypes DEF Splits
  <1>5. ASSUME NEW t \in K PROVE h[t] = Cardinality(Group(S, key, t))
    <2>1. Group(S, key, t) = {x \in S : Tier(value[x], tiers) = t} BY <1>3 DEF Group
    <2>2. h[t] = Cardinality({x \in S : Tier(value[x], tiers) = t})
      BY <1>0, <1>1, Zenon DEF TierTable
    <2>3. QED BY <2>1, <2>2, Zenon
  <1>6. SumOver(h, K) = Cardinality(S) BY <1>2, <1>4, <1>5, CountGroups
  <1>7. DOMAIN h = K BY <1>0, <1>1, Zenon DEF TierTable
  <1>8. QED BY <1>0, <1>6, <1>7, TotalSum, Zenon

LEMMA RankingGrouped ==
  \A d, m : ChartRanking(d, m) = Grouped(m, lines, [i \in lines |-> Dimension(d, i)])
  <1> TAKE d, m
  <1>1. PICK key : key = [i \in lines |-> Dimension(d, i)] OBVIOUS
  <1>2. \A i \in lines : key[i] = Dimension(d, i) BY <1>1
  <1>3. {Dimension(d, i) : i \in lines} = {key[i] : i \in lines} BY <1>2
  <1>4. \A k : {i \in lines : Dimension(d, i) = k} = Group(lines, key, k) BY <1>2 DEF Group
  <1>5. ChartRanking(d, m) = [k \in {Dimension(d, i) : i \in lines} |->
                                Metric(m, {i \in lines : Dimension(d, i) = k})]
    BY Zenon DEF ChartRanking, GroupBy
  <1>6. ChartRanking(d, m) = [k \in {key[i] : i \in lines} |-> Metric(m, Group(lines, key, k))]
    BY <1>3, <1>4, <1>5, Zenon
  <1>7. QED BY <1>1, <1>6, Zenon DEF Grouped

LEMMA WeekdayHourGrouped ==
  \A m : WeekdayHour(m)
           = Grouped(m, lines, [i \in lines |-> <<Period("weekday", i), Period("hour", i)>>])
  <1> TAKE m
  <1> DEFINE at(i) == <<Period("weekday", i), Period("hour", i)>>
  <1>1. PICK key : key = [i \in lines |-> at(i)] OBVIOUS
  <1>2. WeekdayHour(m) = [k \in {at(i) : i \in lines} |-> Metric(m, {i \in lines : at(i) = k})]
    BY Zenon DEF WeekdayHour, GroupBy
  <1> HIDE DEF at
  <1>3. \A i \in lines : key[i] = at(i) BY <1>1
  <1>4. {at(i) : i \in lines} = {key[i] : i \in lines} BY <1>3
  <1>5. \A k : {i \in lines : at(i) = k} = Group(lines, key, k) BY <1>3 DEF Group
  <1>6. WeekdayHour(m) = [k \in {key[i] : i \in lines} |-> Metric(m, Group(lines, key, k))]
    BY <1>2, <1>4, <1>5, Zenon
  <1>7. QED BY <1>1, <1>6, Zenon DEF Grouped, at

LEMMA YearMonthGrouped ==
  \A m : YearMonth(m)
           = Grouped(m, lines, [i \in lines |-> <<YearOf(Day(i)), MonthOf(Day(i))>>])
  <1> TAKE m
  <1> DEFINE at(i) == <<YearOf(Day(i)), MonthOf(Day(i))>>
  <1>1. PICK key : key = [i \in lines |-> at(i)] OBVIOUS
  <1>2. YearMonth(m) = [k \in {at(i) : i \in lines} |-> Metric(m, {i \in lines : at(i) = k})]
    BY Zenon DEF YearMonth, GroupBy
  <1> HIDE DEF at
  <1>3. \A i \in lines : key[i] = at(i) BY <1>1
  <1>4. {at(i) : i \in lines} = {key[i] : i \in lines} BY <1>3
  <1>5. \A k : {i \in lines : at(i) = k} = Group(lines, key, k) BY <1>3 DEF Group
  <1>6. YearMonth(m) = [k \in {key[i] : i \in lines} |-> Metric(m, Group(lines, key, k))]
    BY <1>2, <1>4, <1>5, Zenon
  <1>7. QED BY <1>1, <1>6, Zenon DEF Grouped, at

\* Every basket is in one tier, and every customer who came.
LEMMA BasketsCounted == SalesInv => Total(BasketSize) = Orders(lines)
  <1> SUFFICES ASSUME SalesInv PROVE Total(BasketSize) = Orders(lines) OBVIOUS
  <1>1. PICK S : S = {i.receipt : i \in lines} OBVIOUS
  <1>2. IsFiniteSet(S)
    <2>1. \A i \in lines : i.receipt \in Ids BY LineTypes
    <2>2. S \in SUBSET Ids BY <1>1, <2>1
    <2>3. QED BY <2>2, IdsFinite, FS_Subset
  <1>3. PICK basket : basket = GroupBy(lines, LAMBDA i : i.receipt, LAMBDA T : Sales(T)) BY Zenon
  <1>4. DOMAIN basket = S
    <2>1. basket = [r \in {i.receipt : i \in lines} |-> Sales({i \in lines : i.receipt = r})]
      BY <1>3, Zenon DEF GroupBy
    <2>2. QED BY <1>1, <2>1, Zenon
  <1>5. BasketTiers \in Seq(Int) BY ReportsAssumption
  <1>6. BasketSize = [t \in 1..(Len(BasketTiers) + 1) |->
                        Cardinality({r \in DOMAIN basket : Tier(basket[r], BasketTiers) = t})]
    BY <1>3, Zenon DEF BasketSize
  <1>7. BasketSize = TierTable(S, basket, BasketTiers) BY <1>4, <1>6, Zenon DEF TierTable
  <1>8. Total(BasketSize) = Cardinality(S) BY <1>2, <1>5, <1>7, TierCounts, Zenon
  <1>9. QED BY <1>1, <1>8, Zenon DEF Orders

LEMMA CustomersCounted ==
  SalesInv => Total(CustomerLoyalty) = Cardinality({c \in Customers : VisitsOf(c) > 0})
  <1> SUFFICES ASSUME SalesInv
               PROVE  Total(CustomerLoyalty) = Cardinality({c \in Customers : VisitsOf(c) > 0})
    OBVIOUS
  <1>1. PICK S : S = {receipts[r].customer : r \in Ids} OBVIOUS
  <1>2. \A r \in Ids : receipts[r].customer \in Customers
    BY CatalogAssumption DEF SalesInv, Ids
  <1>3. IsFiniteSet(S)
    <2>1. S \in SUBSET Customers BY <1>1, <1>2
    <2>2. IsFiniteSet(Customers) BY SalesAssumption
    <2>3. QED BY <2>1, <2>2, FS_Subset
  <1>4. \A c : VisitsOf(c) > 0 <=> c \in S
    <2> TAKE c
    <2>1. PICK R \in SUBSET Ids : R = {r \in Ids : receipts[r].customer = c} OBVIOUS
    <2>2. IsFiniteSet(R) BY IdsFinite, FS_Subset
    <2>3. Cardinality(R) \in Nat /\ (Cardinality(R) = 0 <=> R = {})
      BY <2>2, FS_CardinalityType, FS_EmptySet
    <2>4. VisitsOf(c) = Cardinality(R) BY <2>1, Zenon DEF VisitsOf
    <2>5. R # {} <=> c \in S BY <1>1, <2>1
    <2>6. QED BY <2>3, <2>4, <2>5
  <1>5. {c \in Customers : VisitsOf(c) > 0} = S
    <2>1. S \subseteq Customers BY <1>1, <1>2
    <2>2. QED BY <1>4, <2>1
  <1>6. VisitTiers \in Seq(Int) BY ReportsAssumption
  <1>7. PICK value : value = [c \in S |-> VisitsOf(c)] OBVIOUS
  <1>8. \A t : {c \in S : Tier(VisitsOf(c), VisitTiers) = t} = {c \in S : Tier(value[c], VisitTiers) = t}
    <2>1. \A c \in S : value[c] = VisitsOf(c) BY <1>7
    <2>2. QED BY <2>1
  <1>9. CustomerLoyalty = [t \in 1..(Len(VisitTiers) + 1) |->
                             Cardinality({c \in S : Tier(VisitsOf(c), VisitTiers) = t})]
    BY <1>1, Zenon DEF CustomerLoyalty
  <1>10. CustomerLoyalty = TierTable(S, value, VisitTiers) BY <1>8, <1>9, Zenon DEF TierTable
  <1>11. Total(CustomerLoyalty) = Cardinality(S) BY <1>3, <1>6, <1>10, TierCounts, Zenon
  <1>12. QED BY <1>5, <1>11, Zenon

LEMMA ProfitHolds ==
  ASSUME SalesInv, NEW S \in SUBSET lines
  PROVE  /\ Profit(S) = Sales(S) - Cost(S)
         /\ Sales(S) \in Int /\ Cost(S) \in Int /\ Profit(S) \in Int /\ Quantity(S) \in Int
  <1>1. IsFiniteSet(S) BY FS_Subset DEF SalesInv
  <1>2. \A i \in S : /\ Column("price", S)[i] = i.price /\ Column("cost", S)[i] = i.cost
                     /\ Column("margin", S)[i] = i.margin /\ Column("quantity", S)[i] = i.quantity
    BY DEF Column
  <1>3. ASSUME NEW i \in S
        PROVE  /\ i.price \in Int /\ i.cost \in Int /\ i.margin = i.price - i.cost
               /\ i.margin \in Int /\ i.quantity \in Int
    <2>1. i.price \in Nat /\ i.cost \in Nat /\ i.margin = i.price - i.cost /\ i.quantity \in Nat
      BY LineTypes
    <2>2. QED BY <2>1
  <1>4. PICK p, c, m, q : /\ p = Column("price", S) /\ c = Column("cost", S)
                          /\ m = Column("margin", S) /\ q = Column("quantity", S)
    OBVIOUS
  <1>5. \A i \in S : p[i] \in Int /\ c[i] \in Int /\ m[i] = p[i] - c[i] /\ q[i] \in Int
    BY <1>2, <1>3, <1>4
  <1>6. SumOver(m, S) = SumOver(p, S) - SumOver(c, S) BY <1>1, <1>5, SumDifference
  <1>7. SumOver(p, S) \in Int /\ SumOver(c, S) \in Int /\ SumOver(q, S) \in Int
    BY <1>1, <1>5, SumType
  <1>8. SumOver(m, S) \in Int BY <1>6, <1>7
  <1>9. /\ Sales(S) = SumOver(p, S) /\ Cost(S) = SumOver(c, S) /\ Profit(S) = SumOver(m, S)
        /\ Quantity(S) = SumOver(q, S)
    BY <1>4, SalesSum, CostSum, ProfitSum, QuantitySum, Zenon
  <1>10. QED BY <1>6, <1>7, <1>8, <1>9

LEMMA BreakdownsHold == SalesInv => BreakdownsAddUp
  <1> SUFFICES ASSUME SalesInv PROVE BreakdownsAddUp OBVIOUS
  <1>0. \A m \in RankingMetrics : m \in Additive BY DEF Additive, RankingMetrics
  <1>1. \A m \in RankingMetrics :
          /\ \A d \in Dimensions : Total(ChartRanking(d, m)) = Metric(m, lines)
          /\ Total(WeekdayHour(m)) = Metric(m, lines)
          /\ Total(YearMonth(m)) = Metric(m, lines)
    BY <1>0, GroupedTotal, RankingGrouped, WeekdayHourGrouped, YearMonthGrouped, Zenon
  <1>2. ProfitWaterfall[1] + ProfitWaterfall[2] = ProfitWaterfall[3]
    <2>1. lines \in SUBSET lines OBVIOUS
    <2>2. /\ Profit(lines) = Sales(lines) - Cost(lines)
          /\ Sales(lines) \in Int /\ Cost(lines) \in Int
      BY <2>1, ProfitHolds
    <2>3. /\ ProfitWaterfall[1] = Sales(lines) /\ ProfitWaterfall[2] = -Cost(lines)
          /\ ProfitWaterfall[3] = Profit(lines)
      BY DEF ProfitWaterfall
    <2>4. QED BY <2>2, <2>3
  <1>3. QED BY <1>1, <1>2, BasketsCounted, CustomersCounted, Zenon DEF BreakdownsAddUp

-----------------------------------------------------------------------------
(* Rankings.  A row of a table is its group's figure, or nothing was sold. *)

LEMMA ValueGrouped ==
  ASSUME NEW m \in Additive, NEW key, NEW k
  PROVE  Value(Grouped(m, lines, key), k) = Metric(m, Group(lines, key, k))
  <1>1. PICK g : g = Grouped(m, lines, key) OBVIOUS
  <1>2. DOMAIN g = {key[i] : i \in lines} BY <1>1 DEF Grouped
  <1>3. CASE k \in DOMAIN g
    <2>1. g[k] = Metric(m, Group(lines, key, k)) BY <1>1, <1>2, <1>3, Zenon DEF Grouped
    <2>2. Value(g, k) = g[k] BY <1>3 DEF Value
    <2>3. QED BY <1>1, <2>1, <2>2, Zenon
  <1>4. CASE k \notin DOMAIN g
    <2>1. Group(lines, key, k) = {} BY <1>2, <1>4 DEF Group
    <2>2. Metric(m, {}) = 0 BY MetricSum, SumEmpty, Zenon
    <2>3. Value(g, k) = 0 BY <1>4 DEF Value
    <2>4. QED BY <1>1, <2>1, <2>2, <2>3, Zenon
  <1>5. QED BY <1>3, <1>4

SoldBy(entity, e) == {i \in lines : receipts[i.receipt][entity] = e}

LEMMA TableRowHolds ==
  ASSUME SalesInv, NEW entity, NEW e
  PROVE  /\ TableRow(entity, e).sales = Sales(SoldBy(entity, e))
         /\ TableRow(entity, e).profit = Profit(SoldBy(entity, e))
         /\ TableRow(entity, e).orders = Cardinality({r \in Ids : receipts[r][entity] = e})
  <1> DEFINE R == {r \in Ids : receipts[r][entity] = e}
             S == {i \in lines : i.receipt \in R}
  <1>1. S = SoldBy(entity, e)
    <2>1. \A i \in lines : i.receipt \in Ids BY LineTypes
    <2>2. QED BY <2>1 DEF SoldBy
  <1>2. /\ TableRow(entity, e).sales = Sales(S) /\ TableRow(entity, e).profit = Profit(S)
        /\ TableRow(entity, e).orders = Cardinality(R)
    BY DEF TableRow
  <1>3. QED BY <1>1, <1>2, Zenon

LEMMA OrdersCounted ==
  ASSUME SalesInv, NEW entity, NEW E, IsFiniteSet(E),
         \A r \in Ids : receipts[r][entity] \in E, NEW table, table = TableRanking(entity, E)
  PROVE  Total([e \in DOMAIN table |-> table[e].orders]) = Len(receipts)
  <1>1. DOMAIN table = E /\ \A e \in E : table[e] = TableRow(entity, e)
    BY Zenon DEF TableRanking
  <1>2. PICK g : g = [e \in E |-> table[e].orders] OBVIOUS
  <1>3. PICK key : key = [r \in Ids |-> receipts[r][entity]] OBVIOUS
  <1>4. Splits(key, Ids, E) BY <1>3 DEF Splits
  <1>5. ASSUME NEW e \in E PROVE g[e] = Cardinality(Group(Ids, key, e))
    <2>1. Group(Ids, key, e) = {r \in Ids : receipts[r][entity] = e} BY <1>3 DEF Group
    <2>2. g[e] = TableRow(entity, e).orders BY <1>1, <1>2, Zenon
    <2>3. TableRow(entity, e).orders = Cardinality({r \in Ids : receipts[r][entity] = e})
      BY TableRowHolds
    <2>4. QED BY <2>1, <2>2, <2>3, Zenon
  <1>6. IsFiniteSet(Ids) /\ Cardinality(Ids) = Len(receipts) BY IdsFinite
  <1>7. SumOver(g, E) = Cardinality(Ids) BY <1>4, <1>5, <1>6, CountGroups
  <1>8. DOMAIN g = E BY <1>2
  <1>9. Total(g) = Len(receipts) BY <1>6, <1>7, <1>8, TotalSum, Zenon
  <1>10. QED BY <1>1, <1>2, <1>9, Zenon

LEMMA DimensionGroup ==
  /\ \A e : Group(lines, [i \in lines |-> Dimension("branch", i)], e) = SoldBy("branch", e)
  /\ \A e : Group(lines, [i \in lines |-> Dimension("cashier", i)], e) = SoldBy("cashier", e)
  /\ \A p : Group(lines, [i \in lines |-> Dimension("product", i)], p)
              = {i \in lines : i.product = p}
  <1>1. \A i : /\ Dimension("branch", i) = receipts[i.receipt].branch
               /\ Dimension("cashier", i) = receipts[i.receipt].cashier
               /\ Dimension("product", i) = i.product
    BY DEF Dimension, Branch
  <1>2. ASSUME NEW d, NEW e
        PROVE  Group(lines, [i \in lines |-> Dimension(d, i)], e)
                 = {i \in lines : Dimension(d, i) = e}
    BY DEF Group
  <1>3. ASSUME NEW e
        PROVE  /\ {i \in lines : Dimension("branch", i) = e} = SoldBy("branch", e)
               /\ {i \in lines : Dimension("cashier", i) = e} = SoldBy("cashier", e)
               /\ {i \in lines : Dimension("product", i) = e} = {i \in lines : i.product = e}
    BY <1>1 DEF SoldBy
  <1>4. ASSUME NEW e
        PROVE  Group(lines, [i \in lines |-> Dimension("branch", i)], e) = SoldBy("branch", e)
    <2>1. Group(lines, [i \in lines |-> Dimension("branch", i)], e)
            = {i \in lines : Dimension("branch", i) = e}
      BY <1>2
    <2>2. QED BY <1>3, <2>1, Zenon
  <1>5. ASSUME NEW e
        PROVE  Group(lines, [i \in lines |-> Dimension("cashier", i)], e) = SoldBy("cashier", e)
    <2>1. Group(lines, [i \in lines |-> Dimension("cashier", i)], e)
            = {i \in lines : Dimension("cashier", i) = e}
      BY <1>2
    <2>2. QED BY <1>3, <2>1, Zenon
  <1>6. ASSUME NEW p
        PROVE  Group(lines, [i \in lines |-> Dimension("product", i)], p)
                 = {i \in lines : i.product = p}
    <2>1. Group(lines, [i \in lines |-> Dimension("product", i)], p)
            = {i \in lines : Dimension("product", i) = p}
      BY <1>2
    <2>2. QED BY <1>3, <2>1, Zenon
  <1>7. QED BY <1>4, <1>5, <1>6, Zenon

\* What charts rank by a dimension is what is sold under each of its values.
LEMMA RankedValue ==
  ASSUME NEW d, NEW m \in RankingMetrics, NEW e
  PROVE  Value(ChartRanking(d, m), e)
           = Metric(m, Group(lines, [i \in lines |-> Dimension(d, i)], e))
  <1>1. m \in Additive BY DEF Additive, RankingMetrics
  <1>2. QED BY <1>1, RankingGrouped, ValueGrouped, Zenon

LEMMA EntitiesAgree ==
  ASSUME SalesInv, NEW entity \in {"branch", "cashier", "customer"}
  PROVE  LET E == CASE entity = "branch" -> Branches [] entity = "cashier" -> Cashiers
                    [] entity = "customer" -> Customers
             table == TableRanking(entity, E)
         IN /\ Total([e \in DOMAIN table |-> table[e].orders]) = Len(receipts)
            /\ entity # "customer" => \A e \in E :
                 /\ table[e].sales = Value(ChartRanking(entity, "sales"), e)
                 /\ table[e].profit = Value(ChartRanking(entity, "profit"), e)
  <1>1. PICK E : E = CASE entity = "branch" -> Branches [] entity = "cashier" -> Cashiers
                       [] entity = "customer" -> Customers
    OBVIOUS
  <1>2. PICK table : table = TableRanking(entity, E) OBVIOUS
  <1>3. IsFiniteSet(E)
    <2>1. IsFiniteSet(Branches) /\ IsFiniteSet(Cashiers) /\ IsFiniteSet(Customers)
      BY SalesAssumption
    <2>2. QED BY <1>1, <2>1
  <1>4. \A r \in Ids : receipts[r][entity] \in E
    <2>1. \A r \in Ids : /\ receipts[r].branch \in Branches /\ receipts[r].cashier \in Cashiers
                         /\ receipts[r].customer \in Customers
      BY CatalogAssumption DEF SalesInv, Ids
    <2>2. QED BY <1>1, <2>1
  <1>5. Total([e \in DOMAIN table |-> table[e].orders]) = Len(receipts)
    BY <1>2, <1>3, <1>4, OrdersCounted
  <1>6. ASSUME entity # "customer", NEW e \in E
        PROVE  /\ table[e].sales = Value(ChartRanking(entity, "sales"), e)
               /\ table[e].profit = Value(ChartRanking(entity, "profit"), e)
    <2>1. table[e] = TableRow(entity, e) BY <1>2, Zenon DEF TableRanking
    <2>2. table[e].sales = Sales(SoldBy(entity, e)) /\ table[e].profit = Profit(SoldBy(entity, e))
      BY <2>1, TableRowHolds
    <2>3. Group(lines, [i \in lines |-> Dimension(entity, i)], e) = SoldBy(entity, e)
      <3>1. entity = "branch" \/ entity = "cashier" BY <1>6
      <3>2. QED BY <3>1, DimensionGroup, Zenon
    <2>4. "sales" \in RankingMetrics /\ "profit" \in RankingMetrics BY DEF RankingMetrics
    <2>5. QED BY <2>2, <2>3, <2>4, RankedValue, MetricSum, Zenon
  <1>7. QED BY <1>1, <1>2, <1>5, <1>6, Zenon

LEMMA RankingsHold == SalesInv => RankingsAgree
  <1> SUFFICES ASSUME SalesInv PROVE RankingsAgree OBVIOUS
  <1>1. ASSUME NEW p \in Products, NEW m \in RankingMetrics
        PROVE  ProductRanking[p][m] = Value(ChartRanking("product", m), p)
    <2>1. PICK S : S = {i \in lines : i.product = p} OBVIOUS
    <2>2. ProductRanking[p] = [sales |-> Sales(S), profit |-> Profit(S), quantity |-> Quantity(S)]
      BY <2>1, Zenon DEF ProductRanking
    <2>3. /\ ProductRanking[p]["sales"] = Sales(S) /\ ProductRanking[p]["profit"] = Profit(S)
          /\ ProductRanking[p]["quantity"] = Quantity(S)
      BY <2>2
    <2>4. m = "sales" \/ m = "profit" \/ m = "quantity" BY DEF RankingMetrics
    <2>5. ProductRanking[p][m] = Metric(m, S) BY <2>3, <2>4, MetricSum, Zenon
    <2>6. Value(ChartRanking("product", m), p)
            = Metric(m, Group(lines, [i \in lines |-> Dimension("product", i)], p))
      BY RankedValue
    <2>7. QED BY <2>1, <2>5, <2>6, DimensionGroup, Zenon
  <1>2. ASSUME NEW b \in Located
        PROVE  GeographicSales[b] = Value(ChartRanking("branch", "sales"), b)
    <2>1. GeographicSales[b] = Sales({i \in lines : Branch(i) = b}) BY Zenon DEF GeographicSales
    <2>2. {i \in lines : Branch(i) = b} = SoldBy("branch", b) BY Zenon DEF SoldBy, Branch
    <2>3. "sales" \in RankingMetrics BY DEF RankingMetrics
    <2>4. Value(ChartRanking("branch", "sales"), b)
            = Metric("sales", Group(lines, [i \in lines |-> Dimension("branch", i)], b))
      BY <2>3, RankedValue
    <2>5. Group(lines, [i \in lines |-> Dimension("branch", i)], b) = SoldBy("branch", b)
      BY DimensionGroup, Zenon
    <2>6. Value(ChartRanking("branch", "sales"), b) = Sales(SoldBy("branch", b))
      BY <2>4, <2>5, MetricSum, Zenon
    <2>7. QED BY <2>1, <2>2, <2>6, Zenon
  <1>3. QED BY <1>1, <1>2, EntitiesAgree, Zenon DEF RankingsAgree

-----------------------------------------------------------------------------
(* Orders.  A finite set has a last element in any strict total order, and *)
(* so can be listed in it.                                                 *)

StrictOrder(R, S) ==
  /\ \A x \in S : <<x, x>> \notin R
  /\ \A x, y \in S : x # y => <<x, y>> \in R \/ <<y, x>> \in R
  /\ \A x, y, z \in S : <<x, y>> \in R /\ <<y, z>> \in R => <<x, z>> \in R
Lists(s, R, S) ==
  /\ s \in [1..Cardinality(S) -> S]
  /\ \A n, k \in 1..Cardinality(S) : n < k => <<s[n], s[k]>> \in R

LEMMA LastExists ==
  ASSUME NEW S, IsFiniteSet(S), NEW R, StrictOrder(R, S)
  PROVE  \A T \in SUBSET S : T # {} => \E m \in T : \A x \in T : x # m => <<x, m>> \in R
  <1> DEFINE P == {T \in SUBSET S :
                     T # {} => \E m \in T : \A x \in T : x # m => <<x, m>> \in R}
  <1>1. ASSUME NEW T \in SUBSET S, \A U \in SUBSET T : U # T => U \in P PROVE T \in P
    <2>1. ASSUME NEW c \in T PROVE \E m \in T : \A x \in T : x # m => <<x, m>> \in R
      <3>1. CASE T = {c} BY <3>1
      <3>2. CASE T # {c}
        <4>1. T \ {c} \in SUBSET T /\ T \ {c} # T /\ T \ {c} # {} BY <2>1, <3>2
        <4>2. T \ {c} \in P BY <1>1, <4>1
        <4>3. PICK m \in T \ {c} : \A x \in T \ {c} : x # m => <<x, m>> \in R BY <4>1, <4>2
        <4>4. CASE <<c, m>> \in R BY <4>3, <4>4
        <4>5. CASE <<m, c>> \in R BY <4>3, <4>5 DEF StrictOrder
        <4>6. QED BY <4>4, <4>5 DEF StrictOrder
      <3>3. QED BY <3>1, <3>2
    <2>2. QED BY <2>1
  <1>2. \A T \in SUBSET S : T \in P
    <2> HIDE DEF P
    <2>1. QED BY <1>1, SubsetInduction
  <1>3. QED BY <1>2

LEMMA ListExists ==
  ASSUME NEW S, IsFiniteSet(S), NEW R, StrictOrder(R, S)
  PROVE  \E s : Lists(s, R, S)
  <1> DEFINE P == {T \in SUBSET S : \E s : Lists(s, R, T)}
  <1>1. ASSUME NEW T \in SUBSET S, \A U \in SUBSET T : U # T => U \in P PROVE T \in P
    <2>1. CASE T = {}
      <3>1. 1..Cardinality(T) = {} BY <2>1, FS_EmptySet
      <3>2. Lists(<<>>, R, T) BY <3>1 DEF Lists
      <3>3. QED BY <3>2
    <2>2. CASE T # {}
      <3>1. PICK m \in T : \A x \in T : x # m => <<x, m>> \in R BY <2>2, LastExists
      <3>2. PICK U \in SUBSET T : U = T \ {m} OBVIOUS
      <3>3. PICK s : Lists(s, R, U) BY <1>1, <3>2
      <3>4. IsFiniteSet(T) BY FS_Subset
      <3>5. PICK n \in Nat : n = Cardinality(U) /\ Cardinality(T) = n + 1
        <4>1. Cardinality(U) = Cardinality(T) - 1 /\ Cardinality(T) \in Nat
          BY <3>2, <3>4, FS_RemoveElement, FS_CardinalityType
        <4>2. IsFiniteSet(U) BY <3>4, FS_Subset
        <4>3. Cardinality(U) \in Nat BY <4>2, FS_CardinalityType
        <4>4. QED BY <4>1, <4>3
      <3>6. PICK t : t = [k \in 1..(n + 1) |-> IF k = n + 1 THEN m ELSE s[k]] OBVIOUS
      <3>7. s \in [1..n -> U] /\ \A j, k \in 1..n : j < k => <<s[j], s[k]>> \in R
        BY <3>3, <3>5 DEF Lists
      <3>8. t[n + 1] = m /\ \A k \in 1..n : t[k] = s[k] /\ s[k] \in T /\ s[k] # m
        BY <3>2, <3>6, <3>7
      <3>9. t \in [1..(n + 1) -> T] BY <3>6, <3>8
      <3>10. ASSUME NEW j \in 1..(n + 1), NEW k \in 1..(n + 1), j < k PROVE <<t[j], t[k]>> \in R
        <4>1. j \in 1..n BY <3>10
        <4>2. CASE k = n + 1 BY <3>1, <3>8, <4>1, <4>2
        <4>3. CASE k # n + 1
          <5>1. k \in 1..n BY <4>3
          <5>2. QED BY <3>7, <3>8, <3>10, <4>1, <5>1
        <4>4. QED BY <4>2, <4>3
      <3>11. Lists(t, R, T) BY <3>5, <3>9, <3>10 DEF Lists
      <3>12. QED BY <3>11
    <2>3. QED BY <2>1, <2>2
  <1>2. \A T \in SUBSET S : T \in P
    <2> HIDE DEF P
    <2>1. QED BY <1>1, SubsetInduction
  <1>3. S \in P BY <1>2
  <1>4. QED BY <1>3

\* A list in such an order names every element once.
LEMMA ListRenames ==
  ASSUME NEW S, IsFiniteSet(S), NEW R, StrictOrder(R, S), NEW s, Lists(s, R, S)
  PROVE  Renames(s, 1..Cardinality(S), S)
  <1>1. PICK n \in Nat : n = Cardinality(S) BY FS_CardinalityType
  <1>2. s \in [1..n -> S] /\ \A j, k \in 1..n : j < k => <<s[j], s[k]>> \in R
    BY <1>1 DEF Lists
  <1>3. \A j, k \in 1..n : s[j] = s[k] => j = k
    <2>1. ASSUME NEW j \in 1..n, NEW k \in 1..n, s[j] = s[k], j # k PROVE FALSE
      <3>1. j < k \/ k < j BY <2>1
      <3>2. <<s[j], s[j]>> \in R BY <1>2, <2>1, <3>1
      <3>3. QED BY <1>2, <3>2 DEF StrictOrder
    <2>2. QED BY <2>1
  <1>4. IsFiniteSet(1..n) /\ Cardinality(1..n) = n BY FS_Interval
  <1>5. s \in Injection(1..n, S) BY <1>2, <1>3 DEF Injection, IsInjective
  <1>6. s \in Surjection(1..n, S) BY <1>1, <1>4, <1>5, FS_Injection
  <1>7. \A x \in S : \E j \in 1..n : s[j] = x BY <1>6 DEF Surjection
  <1>8. Renames(s, 1..n, S) BY <1>2, <1>3, <1>7 DEF Renames
  <1>9. QED BY <1>1, <1>8

-----------------------------------------------------------------------------
(* Trends.  The rows are the lines' groups in order, and the running total *)
(* of the last row is their sum.                                           *)

PeriodsOf(g) == {Period(g, i) : i \in lines}
Periodic(g) == [i \in lines |-> Period(g, i)]

\* A receipt is in one period, so the receipts of the periods add up.
LEMMA OrdersGrouped ==
  ASSUME SalesInv, NEW g \in Granularities
  PROVE  Total(Grouped("orders", lines, Periodic(g))) = Orders(lines)
  <1>1. PICK S : S = {i.receipt : i \in lines} OBVIOUS
  <1>2. PICK at : at = [r \in S |-> Period(g, [receipt |-> r])] OBVIOUS
  <1>3. ASSUME NEW i \in lines PROVE i.receipt \in S /\ at[i.receipt] = Period(g, i)
    <2>1. i.receipt \in S BY <1>1
    <2>2. PICK r : r = i.receipt OBVIOUS
    <2>3. PICK j : j = [receipt |-> r] OBVIOUS
    <2>4. j.receipt = i.receipt BY <2>2, <2>3
    <2>5. Day(j) = Day(i) BY <2>4, Zenon DEF Day
    <2>6. Period(g, j) = Period(g, i) BY <2>4, <2>5, Zenon DEF Period
    <2>7. at[r] = Period(g, j) BY <1>2, <2>1, <2>2, <2>3, Zenon
    <2>8. QED BY <2>1, <2>2, <2>6, <2>7, Zenon
  <1>4. IsFiniteSet(S)
    <2>1. \A i \in lines : i.receipt \in Ids BY LineTypes
    <2>2. S \in SUBSET Ids BY <1>1, <2>1
    <2>3. QED BY <2>2, IdsFinite, FS_Subset
  <1>5. PICK key : key = Periodic(g) OBVIOUS
  <1>6. \A i \in lines : key[i] = Period(g, i) BY <1>5 DEF Periodic
  <1>7. PICK K : K = {key[i] : i \in lines} OBVIOUS
  <1>8. IsFiniteSet(K)
    <2>1. IsFiniteSet(lines) BY DEF SalesInv
    <2>2. QED BY <1>7, <2>1, ImageFinite
  <1>9. Splits(at, S, K)
    <2>1. \A r \in S : \E i \in lines : r = i.receipt BY <1>1
    <2>2. QED BY <1>3, <1>6, <1>7, <2>1 DEF Splits
  <1>10. PICK f : f = Grouped("orders", lines, key) OBVIOUS
  <1>11. ASSUME NEW k \in K PROVE f[k] = Cardinality(Group(S, at, k))
    <2>1. {i.receipt : i \in Group(lines, key, k)} = Group(S, at, k)
      <3>1. \A i \in Group(lines, key, k) : i.receipt \in Group(S, at, k)
        BY <1>3, <1>6 DEF Group
      <3>2. ASSUME NEW r \in Group(S, at, k) PROVE \E i \in Group(lines, key, k) : r = i.receipt
        <4>1. PICK i \in lines : r = i.receipt BY <1>1 DEF Group
        <4>2. QED BY <1>3, <1>6, <4>1 DEF Group
      <3>3. QED BY <3>1, <3>2
    <2>2. f[k] = Metric("orders", Group(lines, key, k)) BY <1>7, <1>10, Zenon DEF Grouped
    <2>3. Metric("orders", Group(lines, key, k)) = Cardinality(Group(S, at, k))
      BY <2>1, MetricSum, Zenon DEF Orders
    <2>4. QED BY <2>2, <2>3, Zenon
  <1>12. SumOver(f, K) = Cardinality(S) BY <1>4, <1>8, <1>9, <1>11, CountGroups
  <1>13. DOMAIN f = K BY <1>7, <1>10, Zenon DEF Grouped
  <1>14. QED BY <1>1, <1>5, <1>10, <1>12, <1>13, TotalSum, Zenon DEF Orders

LEMMA PeriodTotal ==
  ASSUME SalesInv, NEW g \in Granularities, NEW m \in Metrics
  PROVE  Total(Grouped(m, lines, Periodic(g))) = Metric(m, lines)
  <1>1. CASE m = "orders" BY <1>1, OrdersGrouped, MetricSum, Zenon
  <1>2. CASE m # "orders"
    <2>1. m \in Additive BY <1>2 DEF Metrics, Additive
    <2>2. QED BY <2>1, GroupedTotal
  <1>3. QED BY <1>1, <1>2

LEMMA MetricTypes ==
  ASSUME SalesInv, NEW m \in Metrics, NEW S \in SUBSET lines
  PROVE  Metric(m, S) \in Int
  <1>1. CASE m = "orders"
    <2>1. PICK f : f = [i \in S |-> i.receipt] OBVIOUS
    <2>2. {i.receipt : i \in S} = {f[i] : i \in S} BY <2>1
    <2>3. IsFiniteSet(S) BY FS_Subset DEF SalesInv
    <2>4. IsFiniteSet({f[i] : i \in S}) BY <2>3, ImageFinite
    <2>5. Orders(S) \in Nat BY <2>2, <2>4, FS_CardinalityType DEF Orders
    <2>6. Orders(S) \in Int BY <2>5
    <2>7. QED BY <1>1, <2>6, MetricSum, Zenon
  <1>2. CASE m # "orders"
    <2>1. m = "sales" \/ m = "cost" \/ m = "profit" \/ m = "quantity" BY <1>2 DEF Metrics
    <2>2. Sales(S) \in Int /\ Cost(S) \in Int /\ Profit(S) \in Int /\ Quantity(S) \in Int
      BY ProfitHolds
    <2>3. QED BY <2>1, <2>2, MetricSum, Zenon
  <1>3. QED BY <1>1, <1>2

PeriodOrder(g) == {e \in PeriodsOf(g) \X PeriodsOf(g) : e[1] < e[2]}

LEMMA PeriodTypes ==
  ASSUME SalesInv, NEW g \in Granularities
  PROVE  /\ PeriodsOf(g) \subseteq Int /\ IsFiniteSet(PeriodsOf(g))
         /\ PeriodsOf(g) = {Periodic(g)[i] : i \in lines}
         /\ StrictOrder(PeriodOrder(g), PeriodsOf(g))
  <1>1. ASSUME NEW i \in lines PROVE Period(g, i) \in Int
    <2>1. Day(i) \in Nat /\ receipts[i.receipt].hour \in Int BY LineTypes, CatalogAssumption
    <2>2. /\ DaysPerMonth \in Nat /\ DaysPerMonth > 0 /\ MonthsPerYear \in Nat /\ MonthsPerYear > 0
          /\ DaysPerWeek \in Nat /\ DaysPerWeek > 0
      BY SalesAssumption
    <2>3. YearOf(Day(i)) \in Int
      <3>1. YearOf(Day(i)) \in Years /\ Years \subseteq Nat BY LineTypes, SalesAssumption
      <3>2. YearOf(Day(i)) \in Nat BY <3>1
      <3>3. QED BY <3>2
    <2>4. MonthOf(Day(i)) \in Int
      <3>1. PICK q \in Int : q = Day(i) \div DaysPerMonth BY <2>1, <2>2
      <3>2. q % MonthsPerYear \in Int BY <2>2
      <3>3. QED BY <3>1, <3>2 DEF MonthOf
    <2>5. MonthIndex(YearOf(Day(i)), MonthOf(Day(i))) \in Int BY <2>2, <2>3, <2>4 DEF MonthIndex
    <2>6. MonthIndex(YearOf(Day(i)), MonthOf(Day(i))) \div 3 \in Int BY <2>5
    <2>7. Day(i) \div DaysPerWeek \in Int /\ (Day(i) % DaysPerWeek) + 1 \in Int BY <2>1, <2>2
    <2>8. Day(i) \in Int BY <2>1
    <2>9. QED BY <2>1, <2>3, <2>5, <2>6, <2>7, <2>8 DEF Period, Granularities
  <1>2. PeriodsOf(g) \subseteq Int BY <1>1 DEF PeriodsOf
  <1>3. PeriodsOf(g) = {Periodic(g)[i] : i \in lines} BY DEF PeriodsOf, Periodic
  <1>4. IsFiniteSet(PeriodsOf(g))
    <2>1. IsFiniteSet(lines) BY DEF SalesInv
    <2>2. QED BY <1>3, <2>1, ImageFinite
  <1>5. StrictOrder(PeriodOrder(g), PeriodsOf(g)) BY <1>2 DEF PeriodOrder, StrictOrder
  <1>6. QED BY <1>2, <1>3, <1>4, <1>5

LEMMA PeriodsListed ==
  ASSUME SalesInv, NEW g \in Granularities, NEW S, S = PeriodsOf(g)
  PROVE  /\ Renames(Ordered(S, <), 1..Cardinality(S), S)
         /\ DOMAIN Ordered(S, <) = 1..Cardinality(S)
  <1>1. S \subseteq Int /\ IsFiniteSet(S) /\ StrictOrder(PeriodOrder(g), S) BY PeriodTypes
  <1>2. PICK s : Lists(s, PeriodOrder(g), S) BY <1>1, ListExists
  <1>3. PICK t : t = Ordered(S, <) BY Zenon
  <1>4. t = CHOOSE r \in [1..Cardinality(S) -> S] :
              \A n, k \in 1..Cardinality(S) : n < k => r[n] < r[k]
    BY <1>3, Zenon DEF Ordered
  <1>5. \A n, k \in 1..Cardinality(S) : n < k => s[n] < s[k]
    BY <1>2 DEF Lists, PeriodOrder
  <1>6. s \in [1..Cardinality(S) -> S] BY <1>2 DEF Lists
  <1>7. t \in [1..Cardinality(S) -> S] /\ \A n, k \in 1..Cardinality(S) : n < k => t[n] < t[k]
    BY <1>4, <1>5, <1>6, Zenon
  <1>8. Lists(t, PeriodOrder(g), S)
    <2>1. \A n, k \in 1..Cardinality(S) : n < k => <<t[n], t[k]>> \in PeriodOrder(g)
      BY <1>7 DEF PeriodOrder
    <2>2. QED BY <1>7, <2>1 DEF Lists
  <1>9. Renames(t, 1..Cardinality(S), S) BY <1>1, <1>8, ListRenames
  <1>10. DOMAIN t = 1..Cardinality(S) BY <1>7
  <1>11. QED BY <1>3, <1>9, <1>10, Zenon

Row(rows, m, J) == [j \in J |-> rows[j][m]]

LEMMA RunningSum ==
  \A rows, m, J : MapThenSumSet(LAMBDA j : rows[j][m], J) = SumOver(Row(rows, m, J), J)
  <1> TAKE rows, m, J
  <1> DEFINE Adds(h) ==
        h = [s \in SUBSET J |-> IF s = {} THEN 0 ELSE rows[Chosen(s)][m] + h[s \ {Chosen(s)}]]
  <1>1. MapThenSumSet(LAMBDA j : rows[j][m], J) = (CHOOSE h : Adds(h))[J]
    BY Zenon DEF MapThenSumSet, MapThenFoldSet, Chosen
  <1>2. ASSUME NEW h PROVE Adds(h) <=> Unfolds(h, Row(rows, m, J), J)
    <2>1. ASSUME NEW s \in SUBSET J
          PROVE  (IF s = {} THEN 0 ELSE rows[Chosen(s)][m] + h[s \ {Chosen(s)}])
                   = (IF s = {} THEN 0 ELSE Row(rows, m, J)[Chosen(s)] + h[s \ {Chosen(s)}])
      <3>1. CASE s = {} BY <3>1, Zenon
      <3>2. CASE s # {}
        <4>1. PICK j \in J : j = Chosen(s) BY <3>2, ChosenIn
        <4>2. Row(rows, m, J)[j] = rows[j][m] BY Zenon DEF Row
        <4>3. QED BY <4>1, <4>2, Zenon
      <3>3. QED BY <3>1, <3>2
    <2>2. [s \in SUBSET J |-> IF s = {} THEN 0 ELSE rows[Chosen(s)][m] + h[s \ {Chosen(s)}]]
            = [s \in SUBSET J |->
                 IF s = {} THEN 0 ELSE Row(rows, m, J)[Chosen(s)] + h[s \ {Chosen(s)}]]
      BY <2>1, Zenon
    <2>3. QED BY <2>2, Zenon DEF Unfolds
  <1> HIDE DEF Adds
  <1>3. (CHOOSE h : Adds(h)) = (CHOOSE h : Unfolds(h, Row(rows, m, J), J)) BY <1>2, Zenon
  <1>4. QED BY <1>1, <1>3, SumUnfolds, Zenon

\* The list of metrics names each one asked once.
LEMMA MetricListHolds ==
  ASSUME NEW asked \in Seq(Metrics), NEW metrics, metrics = MetricList(asked)
  PROVE  /\ ToSet(metrics) = ToSet(asked)
         /\ \A m \in ToSet(asked) : Cardinality({x \in DOMAIN metrics : metrics[x] = m}) = 1
  <1>1. PICK S : S = ToSet(asked) OBVIOUS
  <1>2. IsFiniteSet(S)
    <2>1. Len(asked) \in Int /\ DOMAIN asked = 1..Len(asked) OBVIOUS
    <2>2. IsFiniteSet(DOMAIN asked) BY <2>1, FS_Interval
    <2>3. S = {asked[n] : n \in DOMAIN asked} BY <1>1 DEF ToSet
    <2>4. QED BY <2>2, <2>3, ImageFinite
  <1>3. metrics = CHOOSE f \in [1..Cardinality(S) -> S] : IsInjective(f)
    BY <1>1, Zenon DEF MetricList, SetToSeq
  <1>4. PICK f \in Bijection(1..Cardinality(S), S) : TRUE
    BY <1>2, FS_CardinalityType DEF ExistsBijection
  <1>5. f \in [1..Cardinality(S) -> S] /\ IsInjective(f) BY DEF Bijection, Injection
  <1>6. metrics \in [1..Cardinality(S) -> S] /\ IsInjective(metrics) BY <1>3, <1>5, Zenon
  <1>7. PICK n \in Nat : n = Cardinality(S) BY <1>2, FS_CardinalityType
  <1>8. IsFiniteSet(1..n) /\ Cardinality(1..n) = n BY FS_Interval
  <1>9. metrics \in Injection(1..n, S) BY <1>6, <1>7 DEF Injection
  <1>10. metrics \in Surjection(1..n, S) BY <1>2, <1>7, <1>8, <1>9, FS_Injection
  <1>11. DOMAIN metrics = 1..n /\ \A x \in 1..n : metrics[x] \in S BY <1>6, <1>7
  <1>12. \A m \in S : \E x \in 1..n : metrics[x] = m BY <1>10 DEF Surjection
  <1>13. ToSet(metrics) = S BY <1>11, <1>12 DEF ToSet
  <1>14. ASSUME NEW m \in S PROVE Cardinality({x \in DOMAIN metrics : metrics[x] = m}) = 1
    <2>1. PICK y \in 1..n : metrics[y] = m BY <1>12
    <2>2. {x \in DOMAIN metrics : metrics[x] = m} = {y} BY <1>6, <1>11, <2>1 DEF IsInjective
    <2>3. Cardinality({y}) = 1 BY FS_Singleton
    <2>4. QED BY <2>2, <2>3, Zenon
  <1>15. QED BY <1>1, <1>13, <1>14, Zenon

LEMMA TrendsHold == SalesInv => TrendsAddUp
  <1> SUFFICES ASSUME SalesInv, NEW g \in Granularities, NEW asked \in Asked
               PROVE  LET metrics == MetricList(asked)
                          rows == Cumulative(Trend(g, metrics), metrics)
                      IN rows # <<>> => \A m \in ToSet(asked) : Last(rows)[m] = Metric(m, lines)
    BY Zenon DEF TrendsAddUp
  <1>1. PICK metrics : metrics = MetricList(asked) OBVIOUS
  <1>2. asked \in Seq(Metrics) BY ReportsAssumption
  <1>3. /\ ToSet(metrics) = ToSet(asked)
        /\ \A m \in ToSet(asked) : Cardinality({x \in DOMAIN metrics : metrics[x] = m}) = 1
    BY <1>1, <1>2, MetricListHolds
  <1>4. PICK K, key : K = PeriodsOf(g) /\ key = Periodic(g) OBVIOUS
  <1>5. IsFiniteSet(K) /\ K = {key[i] : i \in lines} BY <1>4, PeriodTypes
  <1>6. PICK n \in Nat : n = Cardinality(K) BY <1>5, FS_CardinalityType
  <1>7. PICK periods : periods = Ordered(K, <) BY Zenon
  <1>8. Renames(periods, 1..n, K) /\ DOMAIN periods = 1..n BY <1>4, <1>6, <1>7, PeriodsListed
  <1>9. PICK trend : trend = Trend(g, metrics) OBVIOUS
  <1>10. trend = [j \in 1..n |-> [m \in ToSet(asked) |->
                                    Metric(m, {i \in lines : Period(g, i) = periods[j]})]]
    <2>1. trend = [j \in DOMAIN Ordered({Period(g, i) : i \in lines}, <) |->
                     [m \in ToSet(metrics) |->
                        Metric(m, {i \in lines :
                                     Period(g, i) = Ordered({Period(g, other) : other \in lines}, <)[j]})]]
      BY <1>9, Zenon DEF Trend
    <2>2. QED BY <1>3, <1>4, <1>7, <1>8, <2>1, Zenon DEF PeriodsOf
  <1>11. PICK rows : rows = Cumulative(trend, metrics) OBVIOUS
  <1>12. DOMAIN trend = 1..n BY <1>10
  <1>13. rows = [k \in 1..n |-> [m \in ToSet(asked) |->
                   MapThenSumSet(LAMBDA j : trend[j][m], 1..k)
                     * Cardinality({x \in DOMAIN metrics : metrics[x] = m})]]
    BY <1>3, <1>11, <1>12, Zenon DEF Cumulative
  <1>14. ASSUME rows # <<>>, NEW m \in ToSet(asked) PROVE Last(rows)[m] = Metric(m, lines)
    <2>1. m \in Metrics BY <1>2 DEF ToSet
    <2>2. DOMAIN rows = 1..n BY <1>13, Zenon
    <2>3. rows = [k \in 1..n |-> rows[k]] BY <1>13, Zenon
    <2>4. n > 0 /\ n \in 1..n
      <3>1. CASE n = 0
        <4>1. 1..n = {} BY <3>1
        <4>2. rows = <<>> BY <2>3, <4>1
        <4>3. QED BY <1>14, <4>2
      <3>2. QED BY <3>1
    <2>5. Last(rows) = rows[n]
      <3>1. Len(rows) = n BY <2>2, <2>3
      <3>2. QED BY <3>1, Zenon DEF Last
    <2>6. rows[n][m] = SumOver(Row(trend, m, 1..n), 1..n) * 1
      <3>1. rows[n][m] = MapThenSumSet(LAMBDA j : trend[j][m], 1..n)
                           * Cardinality({x \in DOMAIN metrics : metrics[x] = m})
        BY <1>13, <2>4, Zenon
      <3>2. QED BY <1>3, <3>1, RunningSum, Zenon
    <2>7. PICK f, t : f = Grouped(m, lines, key) /\ t = Row(trend, m, 1..n) OBVIOUS
    <2>8. ASSUME NEW j \in 1..n PROVE t[j] = f[periods[j]] /\ t[j] \in Int
      <3>1. periods[j] \in K BY <1>8 DEF Renames
      <3>2. PICK T \in SUBSET lines : T = {i \in lines : Period(g, i) = periods[j]} OBVIOUS
      <3>3. T = Group(lines, key, periods[j]) BY <1>4, <3>2 DEF Group, Periodic
      <3>4. t[j] = trend[j][m] BY <2>7, Zenon DEF Row
      <3>5. trend[j][m] = Metric(m, T) BY <1>10, <3>2, Zenon
      <3>6. f[periods[j]] = Metric(m, T) BY <1>5, <2>7, <3>1, <3>3, Zenon DEF Grouped
      <3>7. Metric(m, T) \in Int BY <2>1, MetricTypes
      <3>8. QED BY <3>4, <3>5, <3>6, <3>7, Zenon
    <2>9. Carries(periods, 1..n, f, t) BY <2>8 DEF Carries
    <2>10. IsFiniteSet(1..n) BY FS_Interval
    <2>11. SumOver(f, K) = SumOver(t, 1..n) BY <1>8, <2>9, <2>10, SumRenamed
    <2>12. DOMAIN f = K BY <1>5, <2>7, Zenon DEF Grouped
    <2>13. Total(f) = Metric(m, lines) BY <1>4, <2>1, <2>7, PeriodTotal
    <2>14. SumOver(t, 1..n) = Metric(m, lines) BY <2>11, <2>12, <2>13, TotalSum, Zenon
    <2>15. Metric(m, lines) \in Int
      <3>1. lines \in SUBSET lines OBVIOUS
      <3>2. QED BY <2>1, <3>1, MetricTypes
    <2>16. Metric(m, lines) * 1 = Metric(m, lines) BY <2>15
    <2>17. QED BY <2>5, <2>6, <2>7, <2>14, <2>16, Zenon
  <1>15. QED BY <1>1, <1>9, <1>11, <1>14, Zenon

\* However the sales are broken down, in time, by dimension, by tier or by the
\* rows of a ranking, the figures of every page add up to the same totals
\* (charts.service.ts, tables.service.ts, sales.model.ts).
THEOREM ReportsAlwaysAgree == SalesSpec => []ReportsAgree
  <1>1. SalesInv => ReportsAgree BY TrendsHold, BreakdownsHold, RankingsHold DEF ReportsAgree
  <1>2. QED BY <1>1, SalesKept, PTL

-----------------------------------------------------------------------------
(* Pages.  The receipts are listed newest first, and page after page is    *)
(* that list.                                                              *)

LEMMA LeastExists ==
  ASSUME NEW n \in Nat, NEW B, B \subseteq 1..n, B # {}
  PROVE  \E m \in B : \A x \in B : x >= m
  <1>1. PICK S : S = 1..n OBVIOUS
  <1>2. PICK R : R = {e \in S \X S : e[1] > e[2]} OBVIOUS
  <1>3. \A x, y \in S : x \in Int /\ y \in Int /\ (<<x, y>> \in R <=> x > y) BY <1>1, <1>2
  <1>4. StrictOrder(R, S) BY <1>3 DEF StrictOrder
  <1>5. IsFiniteSet(S) BY <1>1, FS_Interval
  <1>6. \A T \in SUBSET S : T # {} => \E m \in T : \A x \in T : x # m => <<x, m>> \in R
    BY <1>4, <1>5, LastExists
  <1>7. B \in SUBSET S BY <1>1
  <1>8. PICK m \in B : \A x \in B : x # m => <<x, m>> \in R BY <1>6, <1>7
  <1>9. ASSUME NEW x \in B PROVE x >= m
    <2>1. x \in S /\ m \in S BY <1>7
    <2>2. CASE x = m BY <1>3, <2>1, <2>2
    <2>3. CASE x # m
      <3>1. <<x, m>> \in R BY <1>8, <2>3
      <3>2. QED BY <1>3, <2>1, <3>1
    <2>4. QED BY <2>2, <2>3
  <1>10. QED BY <1>8, <1>9

LEMMA IntervalInduction ==
  ASSUME NEW n \in Nat, NEW P, n > 0 => 1 \in P,
         \A i \in 1..n : i \in P /\ i + 1 <= n => i + 1 \in P
  PROVE  \A i \in 1..n : i \in P
  <1>1. PICK B : B = {i \in 1..n : i \notin P} OBVIOUS
  <1>2. ASSUME B # {} PROVE FALSE
    <2>1. B \subseteq 1..n BY <1>1
    <2>2. PICK m \in B : \A x \in B : x >= m BY <1>2, <2>1, LeastExists
    <2>3. m \in 1..n /\ m \notin P BY <1>1
    <2>4. m # 1 BY <2>3
    <2>5. m - 1 \in 1..n /\ (m - 1) + 1 = m BY <2>3, <2>4
    <2>6. m - 1 \notin B BY <2>2, <2>5
    <2>7. m - 1 \in P BY <1>1, <2>5, <2>6
    <2>8. QED BY <2>3, <2>5, <2>7
  <1>3. QED BY <1>1, <1>2

\* What is joined piece by piece is known from its pieces.
Joins(g, seqs) ==
  g = [i \in 1..Len(seqs) |-> IF i = 1 THEN seqs[i] ELSE g[i - 1] \o seqs[i]]

LEMMA FlattenIs ==
  ASSUME NEW seqs, Len(seqs) \in Nat, Len(seqs) > 0, NEW w, Joins(w, seqs)
  PROVE  FlattenSeq(seqs) = w[Len(seqs)]
  <1>1. PICK n \in Nat : n = Len(seqs) OBVIOUS
  <1>2. PICK g : g = CHOOSE h : Joins(h, seqs) OBVIOUS
  <1>3. Joins(g, seqs) BY <1>2
  <1>4. FlattenSeq(seqs) = g[n]
    <2>1. Len(seqs) # 0 OBVIOUS
    <2>2. QED BY <1>1, <1>2, <2>1, Zenon DEF FlattenSeq, Joins
  <1>5. ASSUME NEW i \in 1..n
        PROVE  /\ g[i] = IF i = 1 THEN seqs[i] ELSE g[i - 1] \o seqs[i]
               /\ w[i] = IF i = 1 THEN seqs[i] ELSE w[i - 1] \o seqs[i]
    BY <1>1, <1>3, Zenon DEF Joins
  <1> DEFINE P == {i \in 1..n : g[i] = w[i]}
  <1>6. n > 0 => 1 \in P
    <2>1. 1 \in 1..n BY <1>1
    <2>2. g[1] = seqs[1] /\ w[1] = seqs[1] BY <1>5, <2>1
    <2>3. QED BY <2>1, <2>2
  <1>7. ASSUME NEW i \in 1..n, i \in P, i + 1 <= n PROVE i + 1 \in P
    <2>1. i + 1 \in 1..n /\ i + 1 # 1 /\ (i + 1) - 1 = i BY <1>7
    <2>2. g[i + 1] = g[i] \o seqs[i + 1] /\ w[i + 1] = w[i] \o seqs[i + 1]
      BY <1>5, <2>1
    <2>3. g[i] = w[i] BY <1>7
    <2>4. g[i + 1] = w[i + 1] BY <2>2, <2>3, Zenon
    <2>5. QED BY <2>1, <2>4
  <1>8. \A i \in 1..n : i \in P
    <2> HIDE DEF P
    <2>1. QED BY <1>6, <1>7, IntervalInduction
  <1>9. n \in 1..n BY <1>1
  <1>10. QED BY <1>1, <1>4, <1>8, <1>9

ReceiptOrder(S) == {e \in S \X S : Newer(e[1], e[2])}

LEMMA NewerHolds ==
  ASSUME NEW q, NEW r, NEW x, NEW y, NEW g, NEW h,
         x = receipts[q].day, y = receipts[r].day, g = receipts[q].hour, h = receipts[r].hour
  PROVE  Newer(q, r) <=> x > y \/ (x = y /\ g > h) \/ (x = y /\ g = h /\ q > r)
  <1>1. PICK a, b : a = <<x, g, q>> /\ b = <<y, h, r>> OBVIOUS
  <1>2. Newer(q, r) <=> \E n \in 1..3 : a[n] > b[n] /\ \A k \in 1..(n - 1) : a[k] = b[k]
    BY <1>1, Zenon DEF Newer
  <1>3. 1..(1 - 1) = {} /\ 1..(2 - 1) = {1} /\ 1..(3 - 1) = {1, 2} /\ 1..3 = {1, 2, 3} OBVIOUS
  <1>4. (\E n \in 1..3 : a[n] > b[n] /\ \A k \in 1..(n - 1) : a[k] = b[k])
          <=> \/ a[1] > b[1]
              \/ a[1] = b[1] /\ a[2] > b[2]
              \/ a[1] = b[1] /\ a[2] = b[2] /\ a[3] > b[3]
    BY <1>3
  <1>5. QED BY <1>1, <1>2, <1>4

LEMMA MomentTypes ==
  SalesInv => \A r \in Ids : r \in Int /\ receipts[r].day \in Int /\ receipts[r].hour \in Int
  BY CatalogAssumption DEF SalesInv, Ids

LEMMA NewerOrders ==
  ASSUME SalesInv, NEW q \in Ids, NEW r \in Ids
  PROVE  /\ ~ Newer(q, q)
         /\ q # r => Newer(q, r) \/ Newer(r, q)
         /\ Newer(q, r) => receipts[q].day >= receipts[r].day
         /\ \A p \in Ids : Newer(p, q) /\ Newer(q, r) => Newer(p, r)
  <1>1. PICK x, g : x = receipts[q].day /\ g = receipts[q].hour OBVIOUS
  <1>2. PICK y, h : y = receipts[r].day /\ h = receipts[r].hour OBVIOUS
  <1>3. /\ x \in Int /\ y \in Int /\ g \in Int /\ h \in Int /\ q \in Int /\ r \in Int
    BY <1>1, <1>2, MomentTypes
  <1>4. Newer(q, r) <=> x > y \/ (x = y /\ g > h) \/ (x = y /\ g = h /\ q > r)
    BY <1>1, <1>2, NewerHolds
  <1>5. Newer(r, q) <=> y > x \/ (y = x /\ h > g) \/ (y = x /\ h = g /\ r > q)
    BY <1>1, <1>2, NewerHolds
  <1>6. Newer(q, q) <=> x > x \/ (x = x /\ g > g) \/ (x = x /\ g = g /\ q > q)
    BY <1>1, NewerHolds
  <1>7. ~ Newer(q, q) BY <1>3, <1>6
  <1>8. q # r => Newer(q, r) \/ Newer(r, q) BY <1>3, <1>4, <1>5
  <1>9. Newer(q, r) => x >= y BY <1>3, <1>4
  <1>10. ASSUME NEW p \in Ids, Newer(p, q), Newer(q, r) PROVE Newer(p, r)
    <2>1. PICK z, f : z = receipts[p].day /\ f = receipts[p].hour OBVIOUS
    <2>2. z \in Int /\ f \in Int /\ p \in Int BY <2>1, MomentTypes
    <2>3. z > x \/ (z = x /\ f > g) \/ (z = x /\ f = g /\ p > q)
      BY <1>1, <1>10, <2>1, NewerHolds
    <2>4. Newer(p, r) <=> z > y \/ (z = y /\ f > h) \/ (z = y /\ f = h /\ p > r)
      BY <1>2, <2>1, NewerHolds
    <2>5. QED BY <1>3, <1>4, <1>10, <2>2, <2>3, <2>4
  <1>11. QED BY <1>1, <1>2, <1>7, <1>8, <1>9, <1>10

LEMMA ReceiptsOrdered ==
  ASSUME SalesInv, NEW S \in SUBSET Ids, NEW s, s = Ordered(S, Newer), NEW n, n = Cardinality(S)
  PROVE  /\ n \in Nat /\ n <= Len(receipts)
         /\ s \in [1..n -> S] /\ Renames(s, 1..n, S)
         /\ \A j, k \in 1..n : j < k => receipts[s[j]].day >= receipts[s[k]].day
  <1>1. IsFiniteSet(S) /\ n \in Nat /\ n <= Len(receipts)
    BY IdsFinite, FS_Subset, FS_CardinalityType
  <1>2. PICK R : R = ReceiptOrder(S) OBVIOUS
  <1>3. \A x, y \in S : <<x, y>> \in R <=> Newer(x, y) BY <1>2 DEF ReceiptOrder
  <1>4. StrictOrder(R, S)
    <2>1. \A x \in S : <<x, x>> \notin R BY <1>3, NewerOrders
    <2>2. ASSUME NEW x \in S, NEW y \in S, x # y PROVE <<x, y>> \in R \/ <<y, x>> \in R
      <3>1. Newer(x, y) \/ Newer(y, x) BY <2>2, NewerOrders
      <3>2. QED BY <1>3, <3>1
    <2>3. ASSUME NEW x \in S, NEW y \in S, NEW z \in S, <<x, y>> \in R, <<y, z>> \in R
          PROVE  <<x, z>> \in R
      <3>1. Newer(x, y) /\ Newer(y, z) BY <1>3, <2>3
      <3>2. Newer(x, z) BY <3>1, NewerOrders
      <3>3. QED BY <1>3, <3>2
    <2>4. QED BY <2>1, <2>2, <2>3 DEF StrictOrder
  <1>5. PICK t : Lists(t, R, S) BY <1>1, <1>4, ListExists
  <1>6. /\ t \in [1..n -> S] /\ \A j, k \in 1..n : j < k => Newer(t[j], t[k])
    BY <1>3, <1>5 DEF Lists
  <1>7. s = CHOOSE u \in [1..n -> S] : \A j, k \in 1..n : j < k => Newer(u[j], u[k])
    BY Zenon DEF Ordered
  <1>8. s \in [1..n -> S] /\ \A j, k \in 1..n : j < k => Newer(s[j], s[k])
    BY <1>6, <1>7, Zenon
  <1>9. Lists(s, R, S) BY <1>3, <1>8 DEF Lists
  <1>10. Renames(s, 1..n, S) BY <1>1, <1>4, <1>9, ListRenames
  <1>11. ASSUME NEW j \in 1..n, NEW k \in 1..n, j < k
         PROVE  receipts[s[j]].day >= receipts[s[k]].day
    <2>1. Newer(s[j], s[k]) /\ s[j] \in Ids /\ s[k] \in Ids BY <1>8, <1>11
    <2>2. QED BY <2>1, NewerOrders
  <1>12. QED BY <1>1, <1>8, <1>10, <1>11

LEMMA ChunkJoin ==
  ASSUME NEW X, NEW N \in Nat, NEW t \in [1..N -> X], NEW a \in Nat, NEW b \in Nat,
         a <= b, b <= N,
         NEW u, u = [k \in 1..a |-> t[k]], NEW v, v = [k \in 1..(b - a) |-> t[a + k]]
  PROVE  u \o v = [k \in 1..b |-> t[k]]
  <1>1. u \in [1..a -> X] OBVIOUS
  <1>2. PICK c \in Nat : c = b - a /\ a + c = b OBVIOUS
  <1>3. v \in [1..c -> X] /\ \A k \in 1..c : v[k] = t[a + k] BY <1>2
  <1>4. u \in Seq(X) /\ Len(u) = a BY <1>1
  <1>5. v \in Seq(X) /\ Len(v) = c BY <1>3
  <1>6. u \o v \in Seq(X) /\ Len(u \o v) = b BY <1>2, <1>4, <1>5
  <1>7. ASSUME NEW k \in 1..b PROVE (u \o v)[k] = t[k]
    <2>1. CASE k <= a
      <3>1. k \in 1..a BY <2>1
      <3>2. (u \o v)[k] = u[k] BY <1>2, <1>4, <1>5, <3>1
      <3>3. QED BY <3>1, <3>2
    <2>2. CASE k > a
      <3>1. k - a \in 1..c /\ a + (k - a) = k BY <1>2, <2>2
      <3>2. (u \o v)[k] = v[k - a] BY <1>2, <1>4, <1>5, <2>2
      <3>3. QED BY <1>3, <3>1, <3>2
    <2>3. QED BY <2>1, <2>2
  <1>8. u \o v = [k \in 1..b |-> (u \o v)[k]] BY <1>6
  <1>9. QED BY <1>7, <1>8

\* A list cut into consecutive pieces is their concatenation.
Cuts(up, L, N) ==
  /\ up[0] = 0 /\ up[L + 1] = N
  /\ \A i \in 1..(L + 1) :
       up[i - 1] \in Nat /\ up[i] \in Nat /\ up[i - 1] <= up[i] /\ up[i] <= N
Piece(t, a, b) == [k \in 1..(b - a) |-> t[a + k]]
Pieces(seqs, L, up, t) ==
  /\ Len(seqs) = L + 1
  /\ \A i \in 1..(L + 1) : seqs[i] = Piece(t, up[i - 1], up[i])

LEMMA ChunksJoin ==
  ASSUME NEW L \in Nat, NEW N \in Nat, NEW X, NEW t \in [1..N -> X],
         NEW up, Cuts(up, L, N), NEW seqs, Pieces(seqs, L, up, t)
  PROVE  FlattenSeq(seqs) = t
  <1>0. /\ up[0] = 0 /\ up[L + 1] = N /\ Len(seqs) = L + 1
        /\ \A i \in 1..(L + 1) :
             /\ up[i - 1] \in Nat /\ up[i] \in Nat /\ up[i - 1] <= up[i] /\ up[i] <= N
             /\ seqs[i] = [k \in 1..(up[i] - up[i - 1]) |-> t[up[i - 1] + k]]
    BY Zenon DEF Cuts, Pieces, Piece
  <1>1. PICK w : w = [i \in 1..(L + 1) |-> [k \in 1..up[i] |-> t[k]]] OBVIOUS
  <1>2. ASSUME NEW i \in 1..(L + 1)
        PROVE  w[i] = IF i = 1 THEN seqs[i] ELSE w[i - 1] \o seqs[i]
    <2>1. PICK a \in Nat : a = up[i - 1] BY <1>0
    <2>2. PICK b \in Nat : b = up[i] BY <1>0
    <2>3. a <= b /\ b <= N BY <1>0, <2>1, <2>2
    <2>4. w[i] = [k \in 1..b |-> t[k]] BY <1>1, <2>2, Zenon
    <2>5. seqs[i] = [k \in 1..(b - a) |-> t[a + k]] BY <1>0, <2>1, <2>2, Zenon
    <2>6. CASE i = 1
      <3>1. a = 0 BY <1>0, <2>1, <2>6
      <3>2. b - a = b /\ \A k \in 1..b : a + k = k BY <3>1
      <3>3. seqs[i] = [k \in 1..b |-> t[k]] BY <2>5, <3>2, Zenon
      <3>4. QED BY <2>4, <2>6, <3>3, Zenon
    <2>7. CASE i # 1
      <3>1. i - 1 \in 1..(L + 1) BY <2>7
      <3>2. w[i - 1] = [k \in 1..a |-> t[k]] BY <1>1, <2>1, <3>1, Zenon
      <3>3. w[i - 1] \o seqs[i] = [k \in 1..b |-> t[k]] BY <2>3, <2>5, <3>2, ChunkJoin
      <3>4. QED BY <2>4, <2>7, <3>3, Zenon
    <2>8. QED BY <2>6, <2>7
  <1>3. [i \in 1..(L + 1) |-> w[i]]
          = [i \in 1..(L + 1) |-> IF i = 1 THEN seqs[i] ELSE w[i - 1] \o seqs[i]]
    BY <1>2, Zenon
  <1>4. w = [i \in 1..(L + 1) |-> w[i]] BY <1>1
  <1>5. Joins(w, seqs) BY <1>0, <1>3, <1>4, Zenon DEF Joins
  <1>6. FlattenSeq(seqs) = w[L + 1]
    <2>1. Len(seqs) \in Nat /\ Len(seqs) > 0 BY <1>0
    <2>2. FlattenSeq(seqs) = w[Len(seqs)] BY <1>5, <2>1, FlattenIs
    <2>3. QED BY <1>0, <2>2, Zenon
  <1>7. L + 1 \in 1..(L + 1) OBVIOUS
  <1>8. w[L + 1] = [k \in 1..N |-> t[k]] BY <1>0, <1>1, <1>7, Zenon
  <1>9. t = [k \in 1..N |-> t[k]] OBVIOUS
  <1>10. QED BY <1>6, <1>8, <1>9, Zenon

Least(a, b) == IF a <= b THEN a ELSE b

LEMMA MinIs ==
  ASSUME NEW a \in Int, NEW b \in Int PROVE Min({a, b}) = Least(a, b)
  BY DEF Min, Least

Listed(s, f) == s = Ordered({r \in Ids : Matches(r, f)}, Newer)
Headed(t, s, N) == t = [k \in 1..N |-> Header(s[k])]

Paged(t, N, f, limit) ==
  \A offset \in Nat :
    ListReceipts(f, limit, offset).items = Piece(t, Least(offset, N), Least(offset + limit, N))

LEMMA PagesListed ==
  ASSUME NEW N \in Nat, NEW X, NEW s \in [1..N -> X], NEW f, Listed(s, f), NEW t, Headed(t, s, N),
         NEW limit \in Nat
  PROVE  Paged(t, N, f, limit)
  <1> SUFFICES ASSUME NEW offset \in Nat, NEW a, a = Least(offset, N),
                      NEW b, b = Least(offset + limit, N)
               PROVE  ListReceipts(f, limit, offset).items = Piece(t, a, b)
    BY Zenon DEF Paged
  <1>1. s \in Seq(X) /\ Len(s) = N OBVIOUS
  <1>2. Min({offset + limit, Len(s)}) = b BY <1>1, MinIs
  <1>3. PICK page : page = SubSeq(s, offset + 1, b) OBVIOUS
  <1>4. a \in Nat /\ b \in Nat /\ a <= b /\ b <= N BY DEF Least
  <1>5. PICK c \in Nat : c = b - a /\ a + c = b BY <1>4
  <1>6. DOMAIN page = 1..c /\ \A k \in 1..c : page[k] = s[a + k]
    <2>1. CASE offset <= N
      <3>1. a = offset BY <2>1 DEF Least
      <3>2. offset + 1 \in 1..(N + 1) /\ b \in offset..N BY <1>4, <2>1, <3>1
      <3>3. page \in Seq(X) /\ Len(page) = c /\ \A k \in 1..c : page[k] = s[offset + k]
        <4>1. page \in Seq(X) BY <1>1, <1>3, <3>2
        <4>2. Len(page) = c BY <1>1, <1>3, <1>5, <3>1, <3>2
        <4>3. ASSUME NEW k \in 1..c PROVE page[k] = s[offset + k]
          <5>1. page[k] = s[(offset + 1) + k - 1] BY <1>1, <1>3, <1>5, <3>1, <3>2
          <5>2. (offset + 1) + k - 1 = offset + k OBVIOUS
          <5>3. QED BY <5>1, <5>2, Zenon
        <4>4. QED BY <4>1, <4>2, <4>3
      <3>4. DOMAIN page = 1..c BY <3>3
      <3>5. QED BY <3>1, <3>3, <3>4
    <2>2. CASE offset > N
      <3>1. a = N /\ b = N BY <2>2 DEF Least
      <3>2. page = <<>> BY <1>1, <1>3, <2>2, <3>1
      <3>3. c = 0 /\ 1..c = {} BY <1>5, <3>1
      <3>4. DOMAIN page = {} BY <3>2
      <3>5. QED BY <3>3, <3>4
    <2>3. QED BY <2>1, <2>2
  <1>7. ListReceipts(f, limit, offset).items = [k \in DOMAIN page |-> Header(page[k])]
    <2>1. ListReceipts(f, limit, offset).items
            = [k \in DOMAIN SubSeq(s, offset + 1, Min({offset + limit, Len(s)})) |->
                 Header(SubSeq(s, offset + 1, Min({offset + limit, Len(s)}))[k])]
      BY DEF ListReceipts, Listed
    <2>2. QED BY <1>2, <1>3, <2>1, Zenon
  <1>8. ASSUME NEW k \in 1..c PROVE Header(page[k]) = t[a + k]
    <2>1. a + k \in 1..N
      <3>1. a \in Nat /\ b \in Nat /\ k \in Nat /\ k >= 1 /\ k <= c BY <1>4
      <3>2. a + k <= b BY <1>5, <3>1
      <3>3. QED BY <1>4, <3>1, <3>2
    <2>2. page[k] = s[a + k] BY <1>6
    <2>3. QED BY <2>1, <2>2, Zenon DEF Headed
  <1>9. [k \in 1..c |-> Header(page[k])] = [k \in 1..c |-> t[a + k]] BY <1>8, Zenon
  <1>10. QED BY <1>5, <1>6, <1>7, <1>9, Zenon DEF Piece

LEMMA PagesAre ==
  ASSUME SalesInv, NEW f, NEW limit \in 1..2, NEW M, NEW N \in Nat, N <= Len(receipts),
         NEW s \in [1..N -> M], Listed(s, f), NEW t, Headed(t, s, N)
  PROVE  FlattenSeq([n \in 1..(Len(receipts) + 1) |-> ListReceipts(f, limit, (n - 1) * limit).items])
           = t
  <1>1. PICK L \in Nat : L = Len(receipts) BY DEF SalesInv
  <1>2. PICK X : X = {t[k] : k \in 1..N} OBVIOUS
  <1>3. t \in [1..N -> X] BY <1>2 DEF Headed
  <1>4. PICK up : up = [i \in 0..(L + 1) |-> Least(i * limit, N)] OBVIOUS
  <1>5. ASSUME NEW i \in 1..(L + 1)
        PROVE  /\ (i - 1) * limit \in Nat /\ (i - 1) * limit + limit = i * limit
               /\ up[i - 1] = Least((i - 1) * limit, N)
               /\ up[i] = Least((i - 1) * limit + limit, N)
    <2>1. (i - 1) * limit \in Nat /\ (i - 1) * limit + limit = i * limit
      <3>1. CASE limit = 1 BY <3>1
      <3>2. CASE limit = 2 BY <3>2
      <3>3. QED BY <3>1, <3>2
    <2>2. i \in 0..(L + 1) /\ i - 1 \in 0..(L + 1) OBVIOUS
    <2>3. QED BY <1>4, <2>1, <2>2, Zenon
  <1>6. up[0] = 0
    <2>1. 0 \in 0..(L + 1) /\ 0 * limit = 0 OBVIOUS
    <2>2. up[0] = Least(0, N) BY <1>4, <2>1, Zenon
    <2>3. QED BY <2>2 DEF Least
  <1>7. up[L + 1] = N
    <2>1. (L + 1) * limit \in Nat /\ (L + 1) * limit >= L + 1
      <3>1. CASE limit = 1 BY <3>1
      <3>2. CASE limit = 2 BY <3>2
      <3>3. QED BY <3>1, <3>2
    <2>2. L + 1 \in 0..(L + 1) OBVIOUS
    <2>3. up[L + 1] = Least((L + 1) * limit, N) BY <1>4, <2>2, Zenon
    <2>4. PICK x \in Nat : x = (L + 1) * limit BY <2>1
    <2>5. x > N BY <1>1, <2>1, <2>4
    <2>6. QED BY <2>3, <2>4, <2>5 DEF Least
  <1>8. ASSUME NEW i \in 1..(L + 1)
         PROVE up[i - 1] \in Nat /\ up[i] \in Nat /\ up[i - 1] <= up[i] /\ up[i] <= N
    <2>1. PICK x \in Nat : x = (i - 1) * limit BY <1>5
    <2>2. up[i - 1] = Least(x, N) /\ up[i] = Least(x + limit, N) BY <1>5, <2>1
    <2>3. QED BY <2>2 DEF Least
  <1>9. PICK seqs : seqs = [n \in 1..(L + 1) |-> ListReceipts(f, limit, (n - 1) * limit).items]
    OBVIOUS
  <1>10. ASSUME NEW i \in 1..(L + 1)
         PROVE  seqs[i] = Piece(t, up[i - 1], up[i])
    <2>1. PICK x \in Nat : x = (i - 1) * limit BY <1>5
    <2>2. PICK a, b : a = up[i - 1] /\ b = up[i] OBVIOUS
    <2>3. a = Least(x, N) /\ b = Least(x + limit, N) BY <1>5, <2>1, <2>2
    <2>4. seqs[i] = ListReceipts(f, limit, x).items BY <1>9, <2>1, Zenon
    <2>5. Paged(t, N, f, limit)
      <3>1. limit \in Nat OBVIOUS
      <3>2. QED BY <3>1, PagesListed
    <2>6. ListReceipts(f, limit, x).items = Piece(t, a, b) BY <2>3, <2>5, Zenon DEF Paged
    <2>7. QED BY <2>2, <2>4, <2>6, Zenon
  <1>11. Len(seqs) = L + 1
    <2>1. DOMAIN seqs = 1..(L + 1) /\ seqs = [i \in 1..(L + 1) |-> seqs[i]] BY <1>9, Zenon
    <2>2. QED BY <2>1
  <1>12. FlattenSeq(seqs) = t
    <2>1. Cuts(up, L, N) BY <1>6, <1>7, <1>8, Zenon DEF Cuts
    <2>2. Pieces(seqs, L, up, t) BY <1>10, <1>11, Zenon DEF Pieces
    <2>3. QED BY <1>3, <2>1, <2>2, ChunksJoin
  <1>13. QED BY <1>1, <1>9, <1>12, Zenon

LEMMA TotalsSum ==
  \A rows, J : MapThenSumSet(LAMBDA n : rows[n].total, J) = SumOver(Row(rows, "total", J), J)
  <1> TAKE rows, J
  <1>1. MapThenSumSet(LAMBDA j : rows[j]["total"], J) = SumOver(Row(rows, "total", J), J)
    BY RunningSum, Zenon
  <1>2. QED BY <1>1, Zenon DEF MapThenSumSet, MapThenFoldSet

\* The totals of any receipts are those of their lines.
LEMMA HeadersTotal ==
  ASSUME SalesInv, NEW M \in SUBSET Ids,
         NEW N \in Nat, NEW s, s \in [1..N -> M], Renames(s, 1..N, M),
         NEW t, t = [k \in 1..N |-> Header(s[k])]
  PROVE  SumOver(Row(t, "total", 1..N), 1..N) = Sales({i \in lines : i.receipt \in M})
  <1>1. PICK S \in SUBSET lines : S = {i \in lines : i.receipt \in M} OBVIOUS
  <1>2. IsFiniteSet(M) /\ IsFiniteSet(S) /\ IsFiniteSet(1..N)
    <2>1. IsFiniteSet(M) BY IdsFinite, FS_Subset
    <2>2. IsFiniteSet(lines) BY DEF SalesInv
    <2>3. IsFiniteSet(S) BY <2>2, FS_Subset
    <2>4. IsFiniteSet(1..N) BY FS_Interval
    <2>5. QED BY <2>1, <2>3, <2>4
  <1>3. PICK key : key = [i \in S |-> i.receipt] OBVIOUS
  <1>4. PICK g : g = [r \in M |-> Sales(LinesOf(r))] OBVIOUS
  <1>5. PICK h : h = Row(t, "total", 1..N) OBVIOUS
  <1>6. \A i \in S : key[i] \in M BY <1>1, <1>3
  <1>7. ASSUME NEW r \in M
        PROVE  /\ g[r] = SumOver(Column("price", Group(S, key, r)), Group(S, key, r))
               /\ g[r] \in Int
    <2>1. PICK T \in SUBSET lines : T = LinesOf(r) BY DEF LinesOf
    <2>2. Group(S, key, r) = T BY <1>1, <1>3, <2>1 DEF Group, LinesOf
    <2>3. g[r] = Sales(T) BY <1>4, <2>1, Zenon
    <2>4. Sales(T) \in Int BY SalesZero
    <2>5. QED BY <2>2, <2>3, <2>4, SalesSum, Zenon
  <1>8. \A i \in S : i["price"] \in Int BY LineIntegers
  <1>9. SumOver(g, M) = SumOver(Column("price", S), S)
    BY <1>2, <1>6, <1>7, <1>8, ColumnGroups
  <1>10. ASSUME NEW k \in 1..N PROVE h[k] = g[s[k]] /\ h[k] \in Int
    <2>1. PICK r \in M : r = s[k] OBVIOUS
    <2>2. h[k] = t[k]["total"] BY <1>5, Zenon DEF Row
    <2>3. t[k] = Header(r) BY <2>1, Zenon
    <2>4. Header(r)["total"] = Sales(LinesOf(r)) BY DEF Header
    <2>5. g[r] = Sales(LinesOf(r)) BY <1>4, Zenon
    <2>6. h[k] = g[r] BY <2>2, <2>3, <2>4, <2>5, Zenon
    <2>7. QED BY <1>7, <2>1, <2>6
  <1>11. Carries(s, 1..N, g, h) BY <1>10 DEF Carries
  <1>12. SumOver(g, M) = SumOver(h, 1..N) BY <1>2, <1>11, SumRenamed
  <1>13. QED BY <1>1, <1>5, <1>9, <1>12, SalesSum, Zenon

LEMMA DaysSplit ==
  ASSUME SalesInv, NEW f \in Filters, NEW d \in 0..MaxDay,
         f.from = None \/ f.from <= d, f.to = None \/ d < f.to, NEW r \in Ids
  PROVE  /\ Matches(r, [f EXCEPT !.to = d]) <=> Matches(r, f) /\ receipts[r].day <= d
         /\ Matches(r, [f EXCEPT !.from = d + 1]) <=> Matches(r, f) /\ receipts[r].day > d
  <1>1. PICK day \in Int : day = receipts[r].day BY MomentTypes
  <1>2. d \in Int /\ d >= 0 /\ d # None /\ d + 1 # None BY SalesAssumption DEF None
  <1>3. f \in [from : Int, to : Int, branch : Branches \cup {-1},
               cashier : Cashiers \cup {-1}, customer : Customers \cup {-1}]
    BY ReportsAssumption
  <1>4. f.from \in Int /\ f.to \in Int BY <1>3
  <1>5. PICK g : g = [f EXCEPT !.to = d] OBVIOUS
  <1>6. PICK h : h = [f EXCEPT !.from = d + 1] OBVIOUS
  <1>7. PICK rest : rest <=> \A column \in {"branch", "cashier", "customer"} :
                               f[column] = None \/ receipts[r][column] = f[column]
    OBVIOUS
  <1>8. /\ g.from = f.from /\ g.to = d
        /\ \A column \in {"branch", "cashier", "customer"} : g[column] = f[column]
    BY <1>3, <1>5
  <1>9. /\ h.from = d + 1 /\ h.to = f.to
        /\ \A column \in {"branch", "cashier", "customer"} : h[column] = f[column]
    BY <1>3, <1>6
  <1>10. Matches(r, f) <=> /\ f.from = None \/ day >= f.from
                           /\ f.to = None \/ day <= f.to
                           /\ rest
    BY <1>1, <1>7, Zenon DEF Matches, UpTo
  <1>11. Matches(r, g) <=> /\ f.from = None \/ day >= f.from
                           /\ d = None \/ day <= d
                           /\ rest
    BY <1>1, <1>7, <1>8, Zenon DEF Matches, UpTo
  <1>12. Matches(r, h) <=> /\ d + 1 = None \/ day >= d + 1
                           /\ f.to = None \/ day <= f.to
                           /\ rest
    BY <1>1, <1>7, <1>9, Zenon DEF Matches, UpTo
  <1>13. Matches(r, g) <=> Matches(r, f) /\ day <= d BY <1>2, <1>4, <1>10, <1>11
  <1>14. Matches(r, h) <=> Matches(r, f) /\ day > d BY <1>2, <1>4, <1>10, <1>12
  <1>15. QED BY <1>1, <1>5, <1>6, <1>13, <1>14, Zenon

AllPages(f, limit) ==
  FlattenSeq([n \in 1..(Len(receipts) + 1) |-> ListReceipts(f, limit, (n - 1) * limit).items])
Covers(all, total, M) ==
  /\ Len(all) = total
  /\ {all[n].id : n \in DOMAIN all} = M
  /\ \A n \in 1..(Len(all) - 1) : receipts[all[n].id].day >= receipts[all[n + 1].id].day
  /\ MapThenSumSet(LAMBDA n : all[n].total, DOMAIN all) = Sales({i \in lines : i.receipt \in M})

LEMMA ListCovers ==
  ASSUME SalesInv, NEW f, NEW limit \in 1..2, NEW M, M = {r \in Ids : Matches(r, f)}
  PROVE  Covers(AllPages(f, limit), ListReceipts(f, limit, 0).total, M)
  <1>1. M \in SUBSET Ids OBVIOUS
  <1>2. PICK s : s = Ordered(M, Newer) BY Zenon
  <1>3. PICK N : N = Cardinality(M) OBVIOUS
  <1>4. /\ N \in Nat /\ N <= Len(receipts) /\ s \in [1..N -> M] /\ Renames(s, 1..N, M)
        /\ \A j, k \in 1..N : j < k => receipts[s[j]].day >= receipts[s[k]].day
    BY <1>1, <1>2, <1>3, ReceiptsOrdered
  <1>5. Listed(s, f) BY <1>2, Zenon DEF Listed
  <1>6. PICK t : t = [k \in 1..N |-> Header(s[k])] OBVIOUS
  <1>7. Headed(t, s, N) BY <1>6 DEF Headed
  <1>8. AllPages(f, limit) = t
    <2>1. FlattenSeq([n \in 1..(Len(receipts) + 1) |->
                        ListReceipts(f, limit, (n - 1) * limit).items]) = t
      BY <1>4, <1>5, <1>7, PagesAre
    <2>2. QED BY <2>1, Zenon DEF AllPages
  <1>9. DOMAIN t = 1..N /\ Len(t) = N
    <2>1. DOMAIN t = 1..N /\ t = [k \in 1..N |-> t[k]] BY <1>6, Zenon
    <2>2. QED BY <1>4, <2>1
  <1>10. ListReceipts(f, limit, 0).total = N BY <1>3, Zenon DEF ListReceipts
  <1>11. \A k \in 1..N : t[k].id = s[k]
    <2>1. \A r : Header(r).id = r BY DEF Header
    <2>2. QED BY <1>6, <2>1, Zenon
  <1>12. {t[n].id : n \in 1..N} = M
    <2>1. {t[n].id : n \in 1..N} = {s[n] : n \in 1..N} BY <1>11, Zenon
    <2>2. {s[n] : n \in 1..N} = M BY <1>4 DEF Renames
    <2>3. QED BY <2>1, <2>2
  <1>13. ASSUME NEW n \in 1..(N - 1) PROVE receipts[t[n].id].day >= receipts[t[n + 1].id].day
    <2>1. n \in 1..N /\ n + 1 \in 1..N /\ n < n + 1 BY <1>4
    <2>2. t[n].id = s[n] /\ t[n + 1].id = s[n + 1] BY <1>11, <2>1
    <2>3. receipts[s[n]].day >= receipts[s[n + 1]].day BY <1>4, <2>1
    <2>4. QED BY <2>2, <2>3, Zenon
  <1>14. MapThenSumSet(LAMBDA n : t[n].total, 1..N) = Sales({i \in lines : i.receipt \in M})
    <2>1. SumOver(Row(t, "total", 1..N), 1..N) = Sales({i \in lines : i.receipt \in M})
      BY <1>1, <1>4, <1>6, HeadersTotal
    <2>2. QED BY <2>1, TotalsSum, Zenon
  <1>15. Covers(t, N, M)
    <2>1. {t[n].id : n \in DOMAIN t} = M BY <1>9, <1>12, Zenon
    <2>2. \A n \in 1..(Len(t) - 1) : receipts[t[n].id].day >= receipts[t[n + 1].id].day
      BY <1>9, <1>13, Zenon
    <2>3. MapThenSumSet(LAMBDA n : t[n].total, DOMAIN t) = Sales({i \in lines : i.receipt \in M})
      BY <1>9, <1>14, Zenon
    <2>4. QED BY <1>9, <2>1, <2>2, <2>3, Zenon DEF Covers
  <1>16. QED BY <1>8, <1>10, <1>15, Zenon

LEMMA PagesHold == SalesInv => PagesCoverReceipts
  <1> SUFFICES ASSUME SalesInv, NEW f \in Filters,
                      NEW matching, matching = {r \in Ids : Matches(r, f)}
               PROVE  /\ \A limit \in 1..2 :
                           Covers(AllPages(f, limit), ListReceipts(f, limit, 0).total, matching)
                      /\ \A d \in 0..MaxDay :
                           (f.from = None \/ f.from <= d) /\ (f.to = None \/ d < f.to) =>
                             LET early == {r \in Ids : Matches(r, [f EXCEPT !.to = d])}
                                 late  == {r \in Ids : Matches(r, [f EXCEPT !.from = d + 1])}
                             IN early \cup late = matching /\ early \cap late = {}
    BY Zenon DEF PagesCoverReceipts, Covers, AllPages
  <1>1. ASSUME NEW limit \in 1..2
        PROVE  Covers(AllPages(f, limit), ListReceipts(f, limit, 0).total, matching)
    BY ListCovers
  <1>2. ASSUME NEW d \in 0..MaxDay, f.from = None \/ f.from <= d, f.to = None \/ d < f.to,
               NEW early, early = {r \in Ids : Matches(r, [f EXCEPT !.to = d])},
               NEW late, late = {r \in Ids : Matches(r, [f EXCEPT !.from = d + 1])}
        PROVE  early \cup late = matching /\ early \cap late = {}
    <2>1. ASSUME NEW r \in Ids
          PROVE  /\ r \in early <=> r \in matching /\ receipts[r].day <= d
                 /\ r \in late <=> r \in matching /\ receipts[r].day > d
      <3>1. /\ Matches(r, [f EXCEPT !.to = d]) <=> Matches(r, f) /\ receipts[r].day <= d
            /\ Matches(r, [f EXCEPT !.from = d + 1]) <=> Matches(r, f) /\ receipts[r].day > d
        BY <1>2, DaysSplit
      <3>2. QED BY <1>2, <3>1, Zenon
    <2>2. \A r \in Ids : receipts[r].day \in Int BY MomentTypes
    <2>3. d \in Int OBVIOUS
    <2>4. early \subseteq Ids /\ late \subseteq Ids /\ matching \subseteq Ids BY <1>2
    <2>5. \A r \in Ids : receipts[r].day <= d \/ receipts[r].day > d BY <2>2, <2>3
    <2>6. \A r \in Ids : ~ (receipts[r].day <= d /\ receipts[r].day > d) BY <2>2, <2>3
    <2>7. QED BY <2>1, <2>4, <2>5, <2>6, Zenon
  <1>3. QED BY <1>1, <1>2, Zenon

\* Paging through the receipts under any filter shows every one that matches
\* once, newest first, with the totals of its lines; and a range of days split
\* anywhere splits its receipts (transactions.service.ts listReceipts,
\* buildWhere).
THEOREM PagesAlwaysCoverReceipts == SalesSpec => []PagesCoverReceipts
  BY SalesKept, PagesHold, PTL

-----------------------------------------------------------------------------
(* Market baskets.                                                         *)

LEMMA CoCountIs ==
  \A p, q : CoCount(p, q) = Cardinality(With(p) \cap With(q))
  <1> TAKE p, q
  <1>1. {i.receipt : i \in {j \in lines : j.product = q /\ j.receipt \in With(p)}}
          = With(p) \cap With(q)
    BY DEF With
  <1>2. QED BY <1>1, Zenon DEF CoCount

LEMMA BasketsHold == SalesInv => BasketsAreMutual
  <1> SUFFICES ASSUME SalesInv, NEW p \in Products, NEW q \in CoPurchases(p)
               PROVE  /\ p \in CoPurchases(q)
                      /\ 0 < CoCount(p, q) /\ CoCount(p, q) <= Cardinality(With(p))
                      /\ CoCount(q, p) = CoCount(p, q)
    <2>1. \A x, y : Confidence(x, y)[1] = CoCount(x, y) /\ Confidence(x, y)[2] = Cardinality(With(x))
      BY DEF Confidence
    <2>2. QED BY <2>1, Zenon DEF BasketsAreMutual
  <1>1. q \in Products /\ q # p /\ CoCount(p, q) > 0 BY DEF CoPurchases
  <1>2. With(p) \cap With(q) = With(q) \cap With(p) OBVIOUS
  <1>3. CoCount(q, p) = CoCount(p, q) BY <1>2, CoCountIs, Zenon
  <1>4. p \in CoPurchases(q) BY <1>1, <1>3 DEF CoPurchases
  <1>5. With(p) \subseteq Ids
    <2>1. \A i \in lines : i.receipt \in Ids BY LineTypes
    <2>2. QED BY <2>1 DEF With
  <1>6. IsFiniteSet(With(p)) BY <1>5, IdsFinite, FS_Subset
  <1>7. Cardinality(With(p) \cap With(q)) <= Cardinality(With(p))
        /\ Cardinality(With(p) \cap With(q)) \in Nat /\ Cardinality(With(p)) \in Nat
    <2>1. With(p) \cap With(q) \in SUBSET With(p) OBVIOUS
    <2>2. QED BY <1>6, <2>1, FS_Subset, FS_CardinalityType
  <1>8. QED BY <1>1, <1>3, <1>4, <1>7, CoCountIs

-----------------------------------------------------------------------------
(* Demand.  The newest days with a sale are the head of their list.        *)

LEMMA SumAtMost ==
  ASSUME NEW f, NEW S, IsFiniteSet(S), NEW M \in Int, \A x \in S : f[x] \in Int /\ f[x] <= M
  PROVE  SumOver(f, S) <= Cardinality(S) * M
  <1>1. PICK g : g = [x \in S |-> M - f[x]] OBVIOUS
  <1>2. PICK c : c = [x \in S |-> M] OBVIOUS
  <1>3. PICK one : one = [x \in S |-> 1] OBVIOUS
  <1>4. \A x \in S : /\ f[x] \in Int /\ one[x] \in Int /\ one[x] = 1 /\ c[x] = M * one[x]
                     /\ c[x] \in Int /\ g[x] = c[x] - f[x] /\ g[x] \in Int /\ g[x] >= 0
    BY <1>1, <1>2, <1>3
  <1>5. SumOver(one, S) = Cardinality(S) /\ Cardinality(S) \in Nat
    BY <1>4, SumOnes, FS_CardinalityType
  <1>6. SumOver(c, S) = M * SumOver(one, S)
    <2>1. \A x \in S : one[x] \in Int /\ c[x] = M * one[x] BY <1>4
    <2>2. QED BY <2>1, SumScale
  <1>7. SumOver(g, S) = SumOver(c, S) - SumOver(f, S) BY <1>4, SumDifference
  <1>8. SumOver(f, S) \in Int BY SumType
  <1>9. SumOver(g, S) >= 0 BY <1>4, SumNatural
  <1>10. M * SumOver(one, S) = Cardinality(S) * M /\ Cardinality(S) * M \in Int BY <1>5
  <1>11. QED BY <1>6, <1>7, <1>8, <1>9, <1>10

Leading(s, m) == {s[j] : j \in 1..m}

LEMMA HeadCount ==
  ASSUME NEW n \in Nat, NEW S, NEW s, Renames(s, 1..n, S), NEW m \in 0..n
  PROVE  IsFiniteSet(Leading(s, m)) /\ Cardinality(Leading(s, m)) = m
  <1>1. PICK J, T : J = 1..m /\ T = {s[j] : j \in J} OBVIOUS
  <1>2. J \subseteq 1..n /\ IsFiniteSet(J) /\ Cardinality(J) = m BY <1>1, FS_Interval
  <1>3. PICK f : f = [j \in J |-> s[j]] OBVIOUS
  <1>4. \A i, j \in J : f[i] = f[j] => i = j BY <1>2, <1>3 DEF Renames
  <1>5. f \in Surjection(J, T) BY <1>1, <1>3 DEF Surjection
  <1>6. f \in Injection(J, T) BY <1>4, <1>5 DEF Surjection, Injection, IsInjective
  <1>7. IsFiniteSet(T) /\ Cardinality(T) = Cardinality(J) BY <1>2, <1>5, <1>6, FS_Surjection
  <1>8. QED BY <1>1, <1>2, <1>7 DEF Leading

LEMMA LatestHolds ==
  ASSUME NEW days, IsFiniteSet(days), days \subseteq Int
  PROVE  /\ LatestRows(days) \subseteq days
         /\ Cardinality(LatestRows(days)) = Min({Rows, Cardinality(days)})
  <1>1. PICK R : R = {e \in days \X days : e[1] > e[2]} OBVIOUS
  <1>2. \A x, y \in days : x \in Int /\ y \in Int /\ (<<x, y>> \in R <=> x > y) BY <1>1
  <1>3. StrictOrder(R, days) BY <1>2 DEF StrictOrder
  <1>4. PICK s : Lists(s, R, days) BY <1>3, ListExists
  <1>5. PICK n \in Nat : n = Cardinality(days) BY FS_CardinalityType
  <1>6. Renames(s, 1..n, days) BY <1>3, <1>4, <1>5, ListRenames
  <1>7. s \in [1..n -> days] /\ \A j, k \in 1..n : j < k => s[j] > s[k]
    BY <1>2, <1>4, <1>5 DEF Lists
  <1>8. ASSUME NEW k \in 1..n PROVE Cardinality({e \in days : e > s[k]}) = k - 1
    <2>1. PICK T : T = Leading(s, k - 1) OBVIOUS
    <2>2. \A j \in 1..n : s[j] > s[k] <=> j < k
      <3>1. ASSUME NEW j \in 1..n PROVE s[j] > s[k] <=> j < k
        <4>1. s[j] \in Int /\ s[k] \in Int BY <1>2, <1>7
        <4>2. CASE j < k BY <1>7, <4>2
        <4>3. CASE k < j
          <5>1. s[k] > s[j] BY <1>7, <4>3
          <5>2. QED BY <4>1, <4>3, <5>1
        <4>4. CASE j = k BY <4>1, <4>4
        <4>5. QED BY <4>2, <4>3, <4>4
      <3>2. QED BY <3>1
    <2>3. {e \in days : e > s[k]} = T
      <3>1. ASSUME NEW e \in days, e > s[k] PROVE e \in T
        <4>1. PICK j \in 1..n : s[j] = e BY <1>6 DEF Renames
        <4>2. j \in 1..(k - 1) BY <2>2, <3>1, <4>1
        <4>3. QED BY <2>1, <4>1, <4>2 DEF Leading
      <3>2. ASSUME NEW e \in T PROVE e \in days /\ e > s[k]
        <4>1. PICK j \in 1..(k - 1) : e = s[j] BY <2>1 DEF Leading
        <4>2. j \in 1..n /\ j < k OBVIOUS
        <4>3. QED BY <1>7, <2>2, <4>1, <4>2
      <3>3. QED BY <3>1, <3>2
    <2>4. k - 1 \in 0..n OBVIOUS
    <2>5. Cardinality(T) = k - 1 BY <1>6, <2>1, <2>4, HeadCount
    <2>6. QED BY <2>3, <2>5, Zenon
  <1>9. Rows \in Nat BY DecisionAssumption
  <1>10. PICK m \in 0..n : m = Least(Rows, n) BY <1>9 DEF Least
  <1>11. PICK U : U = Leading(s, m) OBVIOUS
  <1>12. \A k \in 1..n : s[k] \in LatestRows(days) <=> k <= m
    <2>1. ASSUME NEW k \in 1..n PROVE s[k] \in LatestRows(days) <=> k <= m
      <3>1. s[k] \in days BY <1>7
      <3>2. s[k] \in LatestRows(days) <=> k - 1 < Rows
        BY <1>8, <3>1, Zenon DEF LatestRows
      <3>3. QED BY <1>9, <1>10, <3>2 DEF Least
    <2>2. QED BY <2>1
  <1>13. LatestRows(days) \subseteq days BY DEF LatestRows
  <1>14. LatestRows(days) = U
    <2>1. ASSUME NEW e \in LatestRows(days) PROVE e \in U
      <3>1. PICK k \in 1..n : s[k] = e BY <1>6, <1>13 DEF Renames
      <3>2. k \in 1..m BY <1>12, <3>1
      <3>3. QED BY <1>11, <3>1, <3>2 DEF Leading
    <2>2. ASSUME NEW e \in U PROVE e \in LatestRows(days)
      <3>1. PICK k \in 1..m : e = s[k] BY <1>11 DEF Leading
      <3>2. k \in 1..n /\ k <= m OBVIOUS
      <3>3. QED BY <1>12, <3>1, <3>2
    <2>3. QED BY <2>1, <2>2
  <1>15. Cardinality(U) = m BY <1>6, <1>11, HeadCount
  <1>16. Min({Rows, n}) = m BY <1>9, <1>10, MinIs
  <1>17. QED BY <1>5, <1>13, <1>14, <1>15, <1>16, Zenon

LEMMA QuantityPositive ==
  ASSUME SalesInv, NEW S \in SUBSET lines
  PROVE  Quantity(S) \in Int /\ (S # {} => Quantity(S) > 0)
  <1>1. IsFiniteSet(S) BY FS_Subset DEF SalesInv
  <1>2. PICK f : f = Column("quantity", S) OBVIOUS
  <1>3. \A i \in S : f[i] \in Int /\ f[i] > 0
    <2>1. \A i \in S : i.quantity \in 1..MaxQuantity BY DEF SalesInv, LineRight
    <2>2. MaxQuantity \in Nat BY SalesAssumption
    <2>3. QED BY <1>2, <2>1, <2>2 DEF Column
  <1>4. SumOver(f, S) \in Int BY <1>1, <1>3, SumType
  <1>5. SumOver(f, S) >= 0 /\ (SumOver(f, S) = 0 => S = {}) BY <1>1, <1>3, SumPositive
  <1>6. Quantity(S) = SumOver(f, S) BY <1>2, QuantitySum, Zenon
  <1>7. QED BY <1>4, <1>5, <1>6

Demanded(qty, daily) ==
  /\ qty.count = Min({Rows, Cardinality(DOMAIN daily)})
  /\ \A d \in DOMAIN daily :
       (\A e \in DOMAIN daily : daily[e] <= daily[d]) => qty.sum <= qty.count * daily[d]
  /\ Cardinality(DOMAIN daily) > Rows => qty.sum < MapThenSumSet(LAMBDA d : daily[d], DOMAIN daily)

LEMMA DemandHolds == SalesInv => DemandFollowsSales
  <1> SUFFICES ASSUME SalesInv, NEW p \in Products
               PROVE  Demanded(ForecastQty(p), DailyQuantity(p))
    BY Zenon DEF DemandFollowsSales, Demanded
  <1>0. PICK daily, days : daily = DailyQuantity(p) /\ days = DOMAIN daily OBVIOUS
  <1>1. PICK L : L = {i \in lines : i.product = p /\ Day(i) >= today - Horizon} OBVIOUS
  <1>2. L \subseteq lines /\ IsFiniteSet(L)
    <2>1. L \subseteq lines BY <1>1
    <2>2. QED BY <2>1, FS_Subset DEF SalesInv
  <1>3. daily = [d \in {Day(i) : i \in L} |-> Quantity({i \in L : Day(i) = d})]
    BY <1>0, <1>1, Zenon DEF DailyQuantity, GroupBy
  <1>4. days = {Day(i) : i \in L} BY <1>0, <1>3, Zenon
  <1>5. IsFiniteSet(days)
    <2>1. PICK key : key = [i \in L |-> Day(i)] OBVIOUS
    <2>2. days = {key[i] : i \in L} BY <1>4, <2>1
    <2>3. IsFiniteSet({key[i] : i \in L}) BY <1>2, ImageFinite
    <2>4. QED BY <2>2, <2>3, Zenon
  <1>6. days \subseteq Int BY <1>2, <1>4, LineIntegers
  <1>7. ASSUME NEW d \in days PROVE daily[d] \in Int /\ daily[d] > 0
    <2>1. PICK S \in SUBSET lines : S = {i \in L : Day(i) = d} BY <1>2
    <2>2. daily[d] = Quantity(S) BY <1>3, <1>4, <2>1, Zenon
    <2>3. S # {} BY <1>4, <2>1
    <2>4. QED BY <2>2, <2>3, QuantityPositive
  <1>8. PICK latest : latest = LatestRows(days) OBVIOUS
  <1>9. latest \subseteq days /\ Cardinality(latest) = Min({Rows, Cardinality(days)})
    BY <1>5, <1>6, <1>8, LatestHolds
  <1>10. /\ ForecastQty(p).sum = SumOver(daily, latest)
         /\ ForecastQty(p).count = Cardinality(latest)
    <2>1. ForecastQty(p).sum
            = MapThenSumSet(LAMBDA d : DailyQuantity(p)[d], LatestRows(DOMAIN DailyQuantity(p)))
      BY DEF ForecastQty
    <2>2. ForecastQty(p).sum = SumOver(DailyQuantity(p), LatestRows(DOMAIN DailyQuantity(p)))
      BY <2>1, Zenon DEF SumOver
    <2>3. ForecastQty(p).count = Cardinality(LatestRows(DOMAIN DailyQuantity(p)))
      BY DEF ForecastQty
    <2>4. QED BY <1>0, <1>8, <2>2, <2>3, Zenon
  <1>11. IsFiniteSet(latest) BY <1>5, <1>9, FS_Subset
  <1>12. ASSUME NEW d \in days, \A e \in days : daily[e] <= daily[d]
         PROVE  SumOver(daily, latest) <= Cardinality(latest) * daily[d]
    <2>1. PICK M \in Int : M = daily[d] BY <1>7
    <2>2. \A e \in latest : daily[e] \in Int /\ daily[e] <= M BY <1>7, <1>9, <1>12, <2>1
    <2>3. SumOver(daily, latest) <= Cardinality(latest) * M BY <1>11, <2>2, SumAtMost
    <2>4. QED BY <2>1, <2>3
  <1>13. ASSUME Cardinality(days) > Rows PROVE SumOver(daily, latest) < SumOver(daily, days)
    <2>1. PICK n \in Nat : n = Cardinality(days) BY <1>5, FS_CardinalityType
    <2>2. Rows \in Nat BY DecisionAssumption
    <2>3. Cardinality(latest) = Rows
      <3>1. Min({Rows, n}) = Rows BY <1>13, <2>1, <2>2, MinIs DEF Least
      <3>2. QED BY <1>9, <2>1, <3>1, Zenon
    <2>4. latest # days BY <1>13, <2>1, <2>2, <2>3
    <2>5. PICK rest : rest = days \ latest OBVIOUS
    <2>6. rest # {} /\ rest \subseteq days BY <1>9, <2>4, <2>5
    <2>7. IsFiniteSet(rest) BY <1>5, <2>6, FS_Subset
    <2>8. \A e \in rest : daily[e] \in Int /\ daily[e] > 0 BY <1>7, <2>6
    <2>9. SumOver(daily, rest) >= 0 /\ (SumOver(daily, rest) = 0 => rest = {})
      BY <2>7, <2>8, SumPositive
    <2>10. SumOver(daily, rest) \in Int BY <2>7, <2>8, SumType
    <2>11. SumOver(daily, latest) \in Int
      <3>1. \A e \in latest : daily[e] \in Int BY <1>7, <1>9
      <3>2. QED BY <1>11, <3>1, SumType
    <2>12. SumOver(daily, days) = SumOver(daily, latest) + SumOver(daily, rest)
      <3>1. \A e \in days : daily[e] \in Int BY <1>7
      <3>2. SumOver(daily, days) = SumOver(daily, latest) + SumOver(daily, days \ latest)
        BY <1>5, <1>9, <3>1, SumParts
      <3>3. QED BY <2>5, <3>2, Zenon
    <2>13. QED BY <2>6, <2>9, <2>10, <2>11, <2>12
  <1>14. SumOver(daily, days) = MapThenSumSet(LAMBDA d : daily[d], days) BY Zenon DEF SumOver
  <1>15. Demanded(ForecastQty(p), daily)
    BY <1>0, <1>9, <1>10, <1>12, <1>13, <1>14, Zenon DEF Demanded
  <1>16. QED BY <1>0, <1>15, Zenon

-----------------------------------------------------------------------------
(* Pareto classes.  The shares run up along the ranking, so a class is a   *)
(* head of it.                                                             *)

LEMMA RunsUp ==
  ASSUME NEW N \in Nat, NEW h, \A k \in 1..N : h[k] \in Int /\ h[k] >= 0,
         NEW m \in 0..N, NEW n \in 0..N, m <= n
  PROVE  /\ SumOver(h, 1..m) \in Int /\ SumOver(h, 1..n) \in Int
         /\ SumOver(h, 1..m) <= SumOver(h, 1..n)
         /\ SumOver(h, 1..n) = SumOver(h, 1..m) + SumOver(h, (m + 1)..n)
  <1>1. PICK S : S = 1..n OBVIOUS
  <1>2. PICK A : A = 1..m OBVIOUS
  <1>3. PICK B : B = (m + 1)..n OBVIOUS
  <1>4. S \subseteq 1..N /\ A \subseteq S /\ B \subseteq S /\ B = S \ A BY <1>1, <1>2, <1>3
  <1>5. IsFiniteSet(S) BY <1>1, FS_Interval
  <1>6. IsFiniteSet(A) /\ IsFiniteSet(B) BY <1>4, <1>5, FS_Subset
  <1>7. \A k \in S : h[k] \in Int /\ h[k] >= 0 BY <1>4
  <1>8. \A k \in A : h[k] \in Int /\ h[k] >= 0 BY <1>4, <1>7
  <1>9. \A k \in B : h[k] \in Int /\ h[k] >= 0 BY <1>4, <1>7
  <1>10. SumOver(h, S) = SumOver(h, A) + SumOver(h, S \ A)
    <2>1. A \in SUBSET S /\ \A k \in S : h[k] \in Int BY <1>4, <1>7
    <2>2. QED BY <1>5, <2>1, SumParts
  <1>11. SumOver(h, A) \in Int /\ SumOver(h, B) \in Int BY <1>6, <1>8, <1>9, SumType
  <1>12. SumOver(h, B) >= 0 BY <1>6, <1>9, SumNatural
  <1>13. SumOver(h, S) = SumOver(h, A) + SumOver(h, B) BY <1>4, <1>10, Zenon
  <1>14. QED BY <1>1, <1>2, <1>3, <1>11, <1>12, <1>13

Descends(h, N) == \A j, k \in 1..N : j <= k => h[j] >= h[k]

LEMMA DescendsAll ==
  ASSUME NEW N \in Nat, NEW h, \A k \in 1..N : h[k] \in Int,
         \A k \in 1..(N - 1) : h[k] >= h[k + 1]
  PROVE  Descends(h, N)
  <1>1. ASSUME NEW j \in 1..N PROVE \A k \in 1..N : j <= k => h[j] >= h[k]
    <2>1. PICK P : P = {k \in 1..N : j <= k => h[j] >= h[k]} OBVIOUS
    <2>2. N > 0 => 1 \in P BY <2>1
    <2>3. ASSUME NEW i \in 1..N, i \in P, i + 1 <= N PROVE i + 1 \in P
      <3>1. i \in 1..(N - 1) /\ i + 1 \in 1..N BY <2>3
      <3>2. h[i] >= h[i + 1] /\ h[i] \in Int /\ h[i + 1] \in Int /\ h[j] \in Int BY <3>1
      <3>3. CASE j <= i
        <4>1. h[j] >= h[i] BY <2>1, <2>3, <3>3
        <4>2. QED BY <2>1, <3>1, <3>2, <4>1
      <3>4. CASE j = i + 1 BY <2>1, <3>1, <3>2, <3>4
      <3>5. CASE j > i + 1 BY <2>1, <3>1, <3>5
      <3>6. QED BY <3>3, <3>4, <3>5
    <2>4. \A i \in 1..N : i \in P BY <2>2, <2>3, IntervalInduction
    <2>5. QED BY <2>1, <2>4
  <1>2. QED BY <1>1 DEF Descends

\* The positions whose running total is still small, and the next one.
Closed(Small) == 0 \in Small /\ \A y, z \in Int : y <= z /\ z \in Small => y \in Small

LEMMA CutHolds ==
  ASSUME NEW N \in Nat, NEW h, \A k \in 1..N : h[k] \in Int /\ h[k] >= 0,
         NEW Small, Closed(Small), NEW B, B \subseteq 1..N,
         \A n \in 1..N : n \in B <=> SumOver(h, 1..n) \in Small
  PROVE  /\ SumOver(h, B) \in Small
         /\ \A C : C = (1..N) \ B /\ C # {} =>
              Min(C) \in C /\ SumOver(h, B) + h[Min(C)] \notin Small
  <1>1. \A k \in 0..N : SumOver(h, 1..k) \in Int BY RunsUp
  <1>2. \A k \in 0..N : (k = 0 \/ k \in B) => SumOver(h, 1..k) \in Small
    <2>1. 1..0 = {} OBVIOUS
    <2>2. SumOver(h, 1..0) = 0 BY <2>1, SumEmpty
    <2>3. ASSUME NEW k \in 0..N, k = 0 \/ k \in B PROVE SumOver(h, 1..k) \in Small
      <3>1. CASE k = 0 BY <2>2, <3>1 DEF Closed
      <3>2. CASE k # 0
        <4>1. k \in 1..N /\ k \in B BY <2>3, <3>2
        <4>2. QED BY <4>1
      <3>3. QED BY <3>1, <3>2
    <2>4. QED BY <2>3
  <1>3. PICK C : C = (1..N) \ B OBVIOUS
  <1>4. CASE C = {}
    <2>1. B = 1..N BY <1>3, <1>4
    <2>2. N \in 0..N /\ (N = 0 \/ N \in B) BY <2>1
    <2>3. QED BY <1>2, <1>3, <1>4, <2>1, <2>2
  <1>5. CASE C # {}
    <2>1. C \subseteq 1..N BY <1>3
    <2>2. PICK m \in C : \A x \in C : x >= m BY <1>5, <2>1, LeastExists
    <2>3. m \in 1..N /\ m \notin B /\ m - 1 \in 0..N /\ m \in 0..N /\ m - 1 <= m
      BY <1>3, <2>1
    <2>4. ASSUME NEW n \in B PROVE n < m
      <3>1. n \in 1..N OBVIOUS
      <3>2. CASE n >= m
        <4>1. n \in 0..N /\ m <= n BY <3>1, <3>2
        <4>2. SumOver(h, 1..m) <= SumOver(h, 1..n) BY <2>3, <4>1, RunsUp
        <4>3. SumOver(h, 1..n) \in Small BY <3>1
        <4>4. SumOver(h, 1..m) \in Int /\ SumOver(h, 1..n) \in Int BY <1>1, <2>3, <4>1
        <4>5. SumOver(h, 1..m) \in Small BY <4>2, <4>3, <4>4 DEF Closed
        <4>6. QED BY <2>3, <4>5
      <3>3. QED BY <2>3, <3>1, <3>2
    <2>5. \A n \in 1..N : n < m => n \in B BY <1>3, <2>2, <2>3
    <2>6. B = 1..(m - 1)
      <3>1. \A n \in 1..(m - 1) : n \in 1..N /\ n < m BY <2>3
      <3>2. \A n \in B : n \in 1..(m - 1) BY <2>3, <2>4
      <3>3. QED BY <2>5, <3>1, <3>2
    <2>7. m - 1 = 0 \/ m - 1 \in B BY <2>3, <2>5
    <2>8. SumOver(h, B) \in Small BY <1>2, <2>3, <2>6, <2>7
    <2>9. Min(C) = m
      <3>1. \A x \in C : x \in Int BY <2>1
      <3>2. \A x \in C : (\A y \in C : x <= y) <=> x = m BY <2>2, <3>1
      <3>3. Min(C) = CHOOSE x \in C : x = m BY <3>2, Zenon DEF Min
      <3>4. QED BY <3>3
    <2>10. SumOver(h, B) + h[m] = SumOver(h, 1..m)
      <3>1. SumOver(h, 1..m) = SumOver(h, 1..(m - 1)) + SumOver(h, ((m - 1) + 1)..m)
        <4>1. PICK l, n \in 0..N : l = m - 1 /\ n = m BY <2>3
        <4>2. l <= n BY <2>3, <4>1
        <4>3. SumOver(h, 1..n) = SumOver(h, 1..l) + SumOver(h, (l + 1)..n)
          BY <4>2, RunsUp
        <4>4. QED BY <4>1, <4>3, Zenon
      <3>2. ((m - 1) + 1)..m = {m} BY <2>3
      <3>3. SumOver(h, {m}) = h[m]
        <4>1. IsFiniteSet({m}) /\ {m} \ {m} = {} BY FS_Singleton
        <4>2. \A x \in {m} : h[x] \in Int BY <2>3
        <4>3. SumOver(h, {m}) = h[m] + SumOver(h, {m} \ {m}) BY <4>1, <4>2, SumRemove
        <4>4. SumOver(h, {m} \ {m}) = 0 BY <4>1, SumEmpty
        <4>5. QED BY <2>3, <4>3, <4>4
      <3>4. QED BY <2>6, <3>1, <3>2, <3>3
    <2>11. SumOver(h, 1..m) \notin Small BY <2>3
    <2>12. QED BY <1>3, <2>8, <2>9, <2>10, <2>11
  <1>6. QED BY <1>4, <1>5

Under(f, s, J) == [k \in J |-> f[s[k]]]

\* The figures f along an order s.
Along(f, s, J) == MapThenSumSet(LAMBDA k : f[s[k]], J)

LEMMA UnderSum ==
  \A f, s, J : Along(f, s, J) = SumOver(Under(f, s, J), J)
  <1> TAKE f, s, J
  <1> DEFINE Adds(h) ==
        h = [S \in SUBSET J |-> IF S = {} THEN 0 ELSE f[s[Chosen(S)]] + h[S \ {Chosen(S)}]]
  <1>1. Along(f, s, J) = (CHOOSE h : Adds(h))[J]
    BY Zenon DEF Along, MapThenSumSet, MapThenFoldSet, Chosen
  <1>2. ASSUME NEW h PROVE Adds(h) <=> Unfolds(h, Under(f, s, J), J)
    <2>1. ASSUME NEW S \in SUBSET J
          PROVE  (IF S = {} THEN 0 ELSE f[s[Chosen(S)]] + h[S \ {Chosen(S)}])
                   = (IF S = {} THEN 0 ELSE Under(f, s, J)[Chosen(S)] + h[S \ {Chosen(S)}])
      <3>1. CASE S = {} BY <3>1, Zenon
      <3>2. CASE S # {}
        <4>1. PICK k \in J : k = Chosen(S) BY <3>2, ChosenIn
        <4>2. Under(f, s, J)[k] = f[s[k]] BY Zenon DEF Under
        <4>3. QED BY <4>1, <4>2, Zenon
      <3>3. QED BY <3>1, <3>2
    <2>2. [S \in SUBSET J |-> IF S = {} THEN 0 ELSE f[s[Chosen(S)]] + h[S \ {Chosen(S)}]]
            = [S \in SUBSET J |->
                 IF S = {} THEN 0 ELSE Under(f, s, J)[Chosen(S)] + h[S \ {Chosen(S)}]]
      BY <2>1, Zenon
    <2>3. QED BY <2>2, Zenon DEF Unfolds
  <1> HIDE DEF Adds
  <1>3. (CHOOSE h : Adds(h)) = (CHOOSE h : Unfolds(h, Under(f, s, J), J)) BY <1>2, Zenon
  <1>4. QED BY <1>1, <1>3, SumUnfolds, Zenon

Follows(h, f, s, J) == \A k \in J : h[k] = f[s[k]] /\ h[k] \in Int

LEMMA UnderSame ==
  ASSUME NEW f, NEW s, NEW h, NEW B, IsFiniteSet(B), Follows(h, f, s, B)
  PROVE  Along(f, s, B) = SumOver(h, B)
  <1>1. PICK g : g = Under(f, s, B) OBVIOUS
  <1>2. ASSUME NEW k \in B PROVE g[k] \in Int /\ g[k] = h[k]
    <2>1. g[k] = f[s[k]] BY <1>1, Zenon DEF Under
    <2>2. QED BY <2>1, Zenon DEF Follows
  <1>3. SumOver(g, B) = SumOver(h, B) BY <1>2, SumSame
  <1>4. SumOver(Under(f, s, B), B) = SumOver(h, B) BY <1>1, <1>3, Zenon
  <1>5. QED BY <1>4, UnderSum, Zenon

LEMMA RevenueNatural ==
  ASSUME SalesInv, NEW days, NEW p \in Products
  PROVE  Revenue(days)[p] \in Int /\ Revenue(days)[p] >= 0
  <1>1. PICK S \in SUBSET lines : S = {i \in lines : i.product = p /\ Day(i) >= today - days}
    OBVIOUS
  <1>2. Revenue(days)[p] = Sales(S) BY <1>1, Zenon DEF Revenue
  <1>3. IsFiniteSet(S) BY FS_Subset DEF SalesInv
  <1>4. PICK f : f = Column("price", S) OBVIOUS
  <1>5. \A i \in S : f[i] \in Int /\ f[i] >= 0
    <2>1. \A i \in S : i.price \in Nat BY LineTypes
    <2>2. QED BY <1>4, <2>1 DEF Column
  <1>6. SumOver(f, S) \in Int /\ SumOver(f, S) >= 0 BY <1>3, <1>5, SumType, SumNatural
  <1>7. QED BY <1>2, <1>4, <1>6, SalesSum, Zenon

\* What a ranking by revenue is, as figures by place.
Ranks(h, N, order, revenue) ==
  /\ N \in Nat /\ DOMAIN order = 1..N /\ Len(order) = N /\ Renames(order, 1..N, Products)
  /\ \A k \in 1..N : h[k] = revenue[order[k]] /\ h[k] \in Int /\ h[k] >= 0
  /\ Descends(h, N)
  /\ \A B \in SUBSET (1..N) : Along(revenue, order, B) = SumOver(h, B)
  /\ SumOver(revenue, Products) = SumOver(h, 1..N)

LEMMA RankingRanks ==
  ASSUME SalesInv, NEW revenue, \A p \in Products : revenue[p] \in Int /\ revenue[p] >= 0,
         NEW order \in RevenueOrders(revenue)
  PROVE  \E h, N : Ranks(h, N, order, revenue)
  <1>1. IsFiniteSet(Products) BY SalesAssumption
  <1>2. PICK N \in Nat : N = Cardinality(Products) BY <1>1, FS_CardinalityType
  <1>3. /\ order \in [1..N -> Products]
        /\ \A i, j \in 1..N : i # j => order[i] # order[j]
        /\ \A n \in 1..(Len(order) - 1) : revenue[order[n]] >= revenue[order[n + 1]]
    BY <1>2, Zenon DEF RevenueOrders, SetToSeqs
  <1>4. DOMAIN order = 1..N /\ Len(order) = N BY <1>3
  <1>5. IsFiniteSet(1..N) /\ Cardinality(1..N) = N BY FS_Interval
  <1>6. order \in Injection(1..N, Products) BY <1>3 DEF Injection, IsInjective
  <1>7. order \in Surjection(1..N, Products) BY <1>1, <1>2, <1>5, <1>6, FS_Injection
  <1>8. Renames(order, 1..N, Products)
    <2>1. \A p \in Products : \E k \in 1..N : order[k] = p BY <1>7 DEF Surjection
    <2>2. QED BY <1>3, <2>1 DEF Renames
  <1>9. PICK h : h = Under(revenue, order, 1..N) OBVIOUS
  <1>10. ASSUME NEW k \in 1..N PROVE h[k] = revenue[order[k]] /\ h[k] \in Int /\ h[k] >= 0
    <2>1. h[k] = revenue[order[k]] BY <1>9, Zenon DEF Under
    <2>2. PICK p \in Products : p = order[k] BY <1>3
    <2>3. revenue[p] \in Int /\ revenue[p] >= 0 OBVIOUS
    <2>4. h[k] = revenue[p] BY <2>1, <2>2, Zenon
    <2>5. QED BY <2>1, <2>3, <2>4, Zenon
  <1>11. Descends(h, N)
    <2>1. \A k \in 1..N : h[k] \in Int BY <1>10
    <2>2. ASSUME NEW k \in 1..(N - 1) PROVE h[k] >= h[k + 1]
      <3>1. k \in 1..N /\ k + 1 \in 1..N OBVIOUS
      <3>2. revenue[order[k]] >= revenue[order[k + 1]] BY <1>3, <1>4
      <3>3. QED BY <1>10, <3>1, <3>2, Zenon
    <2>3. QED BY <2>1, <2>2, DescendsAll
  <1>12. ASSUME NEW B \in SUBSET (1..N)
         PROVE  Along(revenue, order, B) = SumOver(h, B)
    <2>1. IsFiniteSet(B) BY <1>5, FS_Subset
    <2>2. Follows(h, revenue, order, B) BY <1>10 DEF Follows
    <2>3. QED BY <2>1, <2>2, UnderSame, Zenon
  <1>13. SumOver(revenue, Products) = SumOver(h, 1..N)
    <2>1. Carries(order, 1..N, revenue, h) BY <1>10 DEF Carries
    <2>2. QED BY <1>5, <1>8, <2>1, SumRenamed
  <1>14. Ranks(h, N, order, revenue)
    BY <1>4, <1>8, <1>10, <1>11, <1>12, <1>13, Zenon DEF Ranks
  <1>15. QED BY <1>14

Within4(T) == {z \in Int : 5 * z <= 4 * T}
Within19(T) == {z \in Int : 20 * z <= 19 * T}

LEMMA WithinClosed ==
  ASSUME NEW T \in Int, T > 0
  PROVE  Closed(Within4(T)) /\ Closed(Within19(T))
  <1>1. \A y, z \in Int : y <= z /\ 5 * z <= 4 * T => 5 * y <= 4 * T OBVIOUS
  <1>2. \A y, z \in Int : y <= z /\ 20 * z <= 19 * T => 20 * y <= 19 * T OBVIOUS
  <1>3. 5 * 0 <= 4 * T /\ 20 * 0 <= 19 * T OBVIOUS
  <1>4. Closed(Within4(T)) BY <1>1, <1>3 DEF Closed, Within4
  <1>5. Closed(Within19(T)) BY <1>2, <1>3 DEF Closed, Within19
  <1>6. QED BY <1>4, <1>5

LEMMA ClassHolds ==
  ASSUME NEW h, NEW N, NEW order, NEW revenue, Ranks(h, N, order, revenue),
         NEW T \in Int, T = SumOver(h, 1..N), T > 0, NEW n \in 1..N
  PROVE  /\ SumOver(h, 1..n) \in Int
         /\ AbcClass(order, revenue, n) \in {"A"} <=> SumOver(h, 1..n) \in Within4(T)
         /\ AbcClass(order, revenue, n) \in {"A", "B"} <=> SumOver(h, 1..n) \in Within19(T)
         /\ SumOver(h, 1..n) = T => AbcClass(order, revenue, n) = "C"
  <1>1. /\ N \in Nat /\ Len(order) = N
        /\ \A k \in 1..N : h[k] \in Int /\ h[k] >= 0
        /\ \A B \in SUBSET (1..N) : Along(revenue, order, B) = SumOver(h, B)
    BY DEF Ranks
  <1>2. PICK R : R = SumOver(h, 1..n) OBVIOUS
  <1>3. R \in Int
    <2>1. n \in 0..N /\ n <= n BY <1>1
    <2>2. QED BY <1>1, <1>2, <2>1, RunsUp
  <1>4. Running(order, revenue, n) = R
    <2>1. 1..n \in SUBSET (1..N) BY <1>1
    <2>2. Along(revenue, order, 1..n) = R BY <1>1, <1>2, <2>1, Zenon
    <2>3. QED BY <2>2, Zenon DEF Running, Along
  <1>5. Running(order, revenue, Len(order)) = T
    <2>1. 1..N \in SUBSET (1..N) OBVIOUS
    <2>2. Along(revenue, order, 1..N) = T BY <1>1, <2>1, Zenon
    <2>3. Running(order, revenue, N) = T BY <2>2, Zenon DEF Running, Along
    <2>4. QED BY <1>1, <2>3, Zenon
  <1>6. AbcClass(order, revenue, n) =
          (IF T = 0 THEN "C" ELSE IF 5 * R <= 4 * T THEN "A"
           ELSE IF 20 * R <= 19 * T THEN "B" ELSE "C")
    BY <1>4, <1>5, Zenon DEF AbcClass
  <1>7. PICK c : c = AbcClass(order, revenue, n) OBVIOUS
  <1>8. c = IF 5 * R <= 4 * T THEN "A" ELSE IF 20 * R <= 19 * T THEN "B" ELSE "C"
    BY <1>6, <1>7
  <1>9. R \in Within4(T) <=> 5 * R <= 4 * T BY <1>3 DEF Within4
  <1>10. R \in Within19(T) <=> 20 * R <= 19 * T BY <1>3 DEF Within19
  <1>11. 5 * R <= 4 * T => 20 * R <= 19 * T BY <1>3
  <1>12. c \in {"A"} <=> R \in Within4(T) BY <1>8, <1>9
  <1>13. c \in {"A", "B"} <=> R \in Within19(T) BY <1>8, <1>10, <1>11
  <1>14. R = T => c = "C" BY <1>8
  <1>15. QED BY <1>2, <1>3, <1>7, <1>12, <1>13, <1>14, Zenon

Classed(order, revenue, classes) ==
  {n \in DOMAIN order : AbcClass(order, revenue, n) \in classes}
Unclassed(order, revenue, classes) ==
  {n \in DOMAIN order : AbcClass(order, revenue, n) \notin classes}

ParetoOf(revenue, total, order) ==
  /\ 5 * Along(revenue, order, Classed(order, revenue, {"A"})) <= 4 * total
  /\ 20 * Along(revenue, order, Classed(order, revenue, {"A", "B"})) <= 19 * total
  /\ \A n \in Unclassed(order, revenue, {"A"}) :
       5 * (Along(revenue, order, Classed(order, revenue, {"A"}))
              + revenue[order[Min(Unclassed(order, revenue, {"A"}))]]) > 4 * total
  /\ \A p \in Products : revenue[p] = 0 =>
       AbcClass(order, revenue, CHOOSE n \in DOMAIN order : order[n] = p) = "C"

\* From a place without revenue on, the running total is the total.
LEMMA TailIsEmpty ==
  ASSUME NEW N \in Nat, NEW h, \A k \in 1..N : h[k] \in Int /\ h[k] >= 0, Descends(h, N),
         NEW n \in 1..N, h[n] = 0
  PROVE  SumOver(h, 1..n) = SumOver(h, 1..N)
  <1>1. PICK S : S = (n + 1)..N OBVIOUS
  <1>2. ASSUME NEW k \in S PROVE h[k] = 0
    <2>1. k \in 1..N /\ n <= k BY <1>1
    <2>2. h[n] >= h[k] BY <2>1 DEF Descends
    <2>3. QED BY <2>1, <2>2
  <1>3. IsFiniteSet(S)
    <2>1. n + 1 \in Int /\ N \in Int OBVIOUS
    <2>2. QED BY <1>1, <2>1, FS_Interval
  <1>4. SumOver(h, S) = 0
    <2>1. PICK z : z = [k \in S |-> 0] OBVIOUS
    <2>2. \A k \in S : h[k] \in Int /\ h[k] >= 0 /\ h[k] <= 0 BY <1>2
    <2>3. SumOver(h, S) \in Int /\ SumOver(h, S) >= 0 BY <1>3, <2>2, SumType, SumNatural
    <2>4. SumOver(h, S) <= 0
      <3>1. SumOver(h, S) <= Cardinality(S) * 0 BY <1>3, <2>2, SumAtMost
      <3>2. Cardinality(S) \in Nat BY <1>3, FS_CardinalityType
      <3>3. QED BY <2>3, <3>1, <3>2
    <2>5. QED BY <2>3, <2>4
  <1>5. n \in 0..N /\ N \in 0..N /\ n <= N OBVIOUS
  <1>6. PICK m \in 0..N : m = N BY <1>5
  <1>7. /\ SumOver(h, 1..n) \in Int
        /\ SumOver(h, 1..m) = SumOver(h, 1..n) + SumOver(h, (n + 1)..m)
    <2>1. n <= m BY <1>6
    <2>2. QED BY <1>5, <2>1, RunsUp
  <1>8. SumOver(h, 1..N) = SumOver(h, 1..n) + SumOver(h, S) BY <1>1, <1>6, <1>7, Zenon
  <1>9. QED BY <1>4, <1>7, <1>8

LEMMA ParetoHolds ==
  ASSUME NEW h, NEW N, NEW order, NEW revenue, Ranks(h, N, order, revenue),
         NEW T \in Int, T = SumOver(h, 1..N), T > 0
  PROVE  ParetoOf(revenue, T, order)
  <1>1. /\ N \in Nat /\ DOMAIN order = 1..N /\ Renames(order, 1..N, Products)
        /\ \A k \in 1..N : h[k] = revenue[order[k]] /\ h[k] \in Int /\ h[k] >= 0
        /\ Descends(h, N)
        /\ \A B \in SUBSET (1..N) : Along(revenue, order, B) = SumOver(h, B)
    BY DEF Ranks
  <1>2. PICK A : A = Classed(order, revenue, {"A"}) OBVIOUS
  <1>3. PICK B : B = Classed(order, revenue, {"A", "B"}) OBVIOUS
  <1>4. PICK C : C = Unclassed(order, revenue, {"A"}) OBVIOUS
  <1>5. /\ A \in SUBSET (1..N) /\ A \subseteq 1..N
        /\ \A n \in 1..N : n \in A <=> AbcClass(order, revenue, n) \in {"A"}
    BY <1>1, <1>2 DEF Classed
  <1>6. /\ B \in SUBSET (1..N) /\ B \subseteq 1..N
        /\ \A n \in 1..N : n \in B <=> AbcClass(order, revenue, n) \in {"A", "B"}
    BY <1>1, <1>3 DEF Classed
  <1>7. C = (1..N) \ A BY <1>1, <1>4, <1>5 DEF Unclassed
  <1>8. \A n \in 1..N : n \in A <=> SumOver(h, 1..n) \in Within4(T)
    <2>1. ASSUME NEW n \in 1..N PROVE n \in A <=> SumOver(h, 1..n) \in Within4(T)
      <3>1. AbcClass(order, revenue, n) \in {"A"} <=> SumOver(h, 1..n) \in Within4(T)
        BY ClassHolds
      <3>2. QED BY <1>5, <3>1, Zenon
    <2>2. QED BY <2>1
  <1>9. \A n \in 1..N : n \in B <=> SumOver(h, 1..n) \in Within19(T)
    <2>1. ASSUME NEW n \in 1..N PROVE n \in B <=> SumOver(h, 1..n) \in Within19(T)
      <3>1. AbcClass(order, revenue, n) \in {"A", "B"} <=> SumOver(h, 1..n) \in Within19(T)
        BY ClassHolds
      <3>2. QED BY <1>6, <3>1, Zenon
    <2>2. QED BY <2>1
  <1>10. Closed(Within4(T)) /\ Closed(Within19(T)) BY WithinClosed
  <1>11. /\ SumOver(h, A) \in Within4(T)
         /\ C # {} => Min(C) \in C /\ SumOver(h, A) + h[Min(C)] \notin Within4(T)
    BY <1>1, <1>5, <1>7, <1>8, <1>10, CutHolds
  <1>12. SumOver(h, B) \in Within19(T) BY <1>1, <1>6, <1>9, <1>10, CutHolds
  <1>13. Along(revenue, order, A) = SumOver(h, A) /\ Along(revenue, order, B) = SumOver(h, B)
    BY <1>1, <1>5, <1>6
  <1>14. 5 * Along(revenue, order, A) <= 4 * T BY <1>11, <1>13 DEF Within4
  <1>15. 20 * Along(revenue, order, B) <= 19 * T BY <1>12, <1>13 DEF Within19
  <1>16. ASSUME NEW n \in C PROVE 5 * (Along(revenue, order, A) + revenue[order[Min(C)]]) > 4 * T
    <2>1. PICK m \in 1..N : m = Min(C) BY <1>7, <1>11
    <2>2. PICK a \in Int : a = Along(revenue, order, A) BY <1>11, <1>13 DEF Within4
    <2>3. PICK b \in Int : b = revenue[order[m]] BY <1>1, <2>1
    <2>4. h[m] = b BY <1>1, <2>3
    <2>5. a + b \notin Within4(T)
      <3>1. SumOver(h, A) + h[m] \notin Within4(T) BY <1>11, <2>1
      <3>2. QED BY <1>13, <2>2, <2>4, <3>1, Zenon
    <2>6. 5 * (a + b) > 4 * T BY <2>5 DEF Within4
    <2>7. QED BY <2>1, <2>2, <2>3, <2>6, Zenon
  <1>17. ASSUME NEW p \in Products, revenue[p] = 0
         PROVE  AbcClass(order, revenue, CHOOSE n \in DOMAIN order : order[n] = p) = "C"
    <2>1. \E n \in DOMAIN order : order[n] = p BY <1>1 DEF Renames
    <2>2. PICK m : m = CHOOSE n \in DOMAIN order : order[n] = p OBVIOUS
    <2>3. m \in DOMAIN order /\ order[m] = p BY <2>1, <2>2, Zenon
    <2>4. m \in 1..N BY <1>1, <2>3
    <2>5. h[m] = 0 BY <1>1, <1>17, <2>3, <2>4
    <2>6. SumOver(h, 1..m) = SumOver(h, 1..N) BY <1>1, <2>4, <2>5, TailIsEmpty
    <2>7. AbcClass(order, revenue, m) = "C"
      <3>1. SumOver(h, 1..m) = T => AbcClass(order, revenue, m) = "C" BY <2>4, ClassHolds
      <3>2. QED BY <2>6, <3>1
    <2>8. QED BY <2>2, <2>7, Zenon
  <1>18. QED BY <1>2, <1>3, <1>4, <1>14, <1>15, <1>16, <1>17, Zenon DEF ParetoOf

LEMMA AbcHolds ==
  ASSUME SalesInv
  PROVE  AbcIsPareto
  <1>1. ASSUME NEW revenue, \A p \in Products : revenue[p] \in Int /\ revenue[p] >= 0,
               NEW order \in RevenueOrders(revenue), NEW total, total = SumOver(revenue, Products),
               total > 0
        PROVE  ParetoOf(revenue, total, order)
    <2>1. PICK h, N : Ranks(h, N, order, revenue) BY <1>1, RankingRanks
    <2>2. total = SumOver(h, 1..N) BY <1>1, <2>1 DEF Ranks
    <2>3. total \in Int
      <3>1. N \in Nat /\ \A k \in 1..N : h[k] \in Int BY <2>1 DEF Ranks
      <3>2. IsFiniteSet(1..N) BY <3>1, FS_Interval
      <3>3. QED BY <2>2, <3>1, <3>2, SumType
    <2>4. QED BY <1>1, <2>1, <2>2, <2>3, ParetoHolds
  <1>2. ASSUME NEW days \in AbcDays, NEW order \in RevenueOrders(Revenue(days)),
               SumOver(Revenue(days), Products) > 0
        PROVE  ParetoOf(Revenue(days), SumOver(Revenue(days), Products), order)
    <2>1. PICK revenue : revenue = Revenue(days) OBVIOUS
    <2>2. \A p \in Products : revenue[p] \in Int /\ revenue[p] >= 0 BY <2>1, RevenueNatural
    <2>3. order \in RevenueOrders(revenue) /\ SumOver(revenue, Products) > 0 BY <1>2, <2>1, Zenon
    <2>4. ParetoOf(revenue, SumOver(revenue, Products), order) BY <1>1, <2>2, <2>3, Zenon
    <2>5. QED BY <2>1, <2>4, Zenon
  <1>3. QED BY <1>2, Zenon DEF AbcIsPareto, ParetoOf, SumOver, Along, Classed, Unclassed

-----------------------------------------------------------------------------
(* Customer segments.  Who is strictly ahead takes later places, and a     *)
(* later place is in no earlier quarter.                                   *)

LEMMA QuarterIs ==
  ASSUME NEW a \in Nat, NEW d \in Nat \ {0}
  PROVE  /\ a < d => a \div d = 0
         /\ d <= a /\ a < 2 * d => a \div d = 1
         /\ 2 * d <= a /\ a < 3 * d => a \div d = 2
         /\ 3 * d <= a /\ a < 4 * d => a \div d = 3
  OBVIOUS

\* The last place of the first, second and third tile.
TileEnds(t, one, two, three, p) ==
  /\ t \in 1..4
  /\ t <= 1 <=> p <= one
  /\ t <= 2 <=> p <= two
  /\ t <= 3 <=> p <= three

LEMMA TilesEnd ==
  ASSUME NEW n \in Nat, n = Cardinality(Customers)
  PROVE  \E one, two, three \in Int :
           /\ one <= two /\ two <= three /\ n <= 2 * two + 1
           /\ \A p \in 1..n : TileEnds(Tile(p), one, two, three, p)
  <1>1. PICK size \in Nat, larger \in 0..3 :
          size = n \div 4 /\ larger = n % 4 /\ n = 4 * size + larger
    <2>1. n \div 4 \in Nat /\ n % 4 \in 0..3 /\ n = 4 * (n \div 4) + (n % 4) OBVIOUS
    <2>2. QED BY <2>1
  <1>2. PICK big : big = larger * (size + 1) OBVIOUS
  <1>3. ASSUME NEW p \in 1..n
        PROVE  Tile(p) = IF p <= big THEN (p - 1) \div (size + 1) + 1
                         ELSE larger + (p - big - 1) \div size + 1
    BY <1>1, <1>2, Zenon DEF Tile
  <1>4. CASE larger = 0
    <2>1. big = 0 BY <1>2, <1>4
    <2>2. ASSUME NEW p \in 1..n PROVE TileEnds(Tile(p), size, 2 * size, 3 * size, p)
      <3>1. size \in Nat \ {0} /\ p - 1 \in Nat /\ p <= 4 * size BY <1>1, <1>4
      <3>2. PICK q : q = (p - 1) \div size OBVIOUS
      <3>3. /\ p - 1 < size => q = 0
            /\ size <= p - 1 /\ p - 1 < 2 * size => q = 1
            /\ 2 * size <= p - 1 /\ p - 1 < 3 * size => q = 2
            /\ 3 * size <= p - 1 /\ p - 1 < 4 * size => q = 3
        BY <3>1, <3>2, QuarterIs
      <3>4. Tile(p) = q + 1
        <4>1. p - 0 - 1 = p - 1 /\ ~(p <= 0) OBVIOUS
        <4>2. Tile(p) = 0 + q + 1 BY <1>3, <1>4, <2>1, <3>2, <4>1
        <4>3. q \in Int BY <3>1, <3>3
        <4>4. QED BY <4>2, <4>3
      <3>5. TileEnds(q + 1, size, 2 * size, 3 * size, p) BY <3>1, <3>3 DEF TileEnds
      <3>6. QED BY <3>4, <3>5, Zenon
    <2>3. n <= 2 * (2 * size) + 1 BY <1>1, <1>4
    <2>4. QED BY <2>2, <2>3
  <1>5. CASE larger # 0
    <2>1. /\ larger = 1 \/ larger = 2 \/ larger = 3
          /\ size \in Nat /\ size + 1 \in Nat \ {0}
      BY <1>1, <1>5
    <2>2. PICK d \in Nat \ {0} : d = size + 1 BY <2>1
    <2>3. PICK one, two, three \in Int :
            /\ one = d
            /\ larger = 1 => two = d + size /\ three = d + 2 * size
            /\ larger = 2 => two = 2 * d /\ three = 2 * d + size
            /\ larger = 3 => two = 2 * d /\ three = 3 * d
      <3>1. d \in Int /\ 2 * d \in Int /\ 3 * d \in Int /\ d + size \in Int
              /\ d + 2 * size \in Int /\ 2 * d + size \in Int
        BY <2>1
      <3>2. CASE larger = 1 BY <3>1, <3>2
      <3>3. CASE larger = 2 BY <3>1, <3>3
      <3>4. CASE larger = 3 BY <3>1, <3>4
      <3>5. QED BY <2>1, <3>2, <3>3, <3>4
    <2>4. /\ big \in Nat /\ (larger = 1 => big = d) /\ (larger = 2 => big = 2 * d)
          /\ (larger = 3 => big = 3 * d)
      BY <1>2, <2>1, <2>2
    <2>5. ASSUME NEW p \in 1..n PROVE TileEnds(Tile(p), one, two, three, p)
      <3>1. CASE p <= big
        <4>1. p - 1 \in Nat /\ p - 1 < 3 * d /\ (larger = 1 => p - 1 < d)
                /\ (larger = 2 => p - 1 < 2 * d)
          BY <2>1, <2>2, <2>4, <3>1
        <4>2. PICK q : q = (p - 1) \div d OBVIOUS
        <4>3. /\ p - 1 < d => q = 0
              /\ d <= p - 1 /\ p - 1 < 2 * d => q = 1
              /\ 2 * d <= p - 1 /\ p - 1 < 3 * d => q = 2
          BY <4>1, <4>2, QuarterIs
        <4>4. Tile(p) = q + 1 BY <1>3, <2>2, <3>1, <4>2
        <4>5. TileEnds(q + 1, one, two, three, p)
          <5>1. CASE larger = 1 BY <2>1, <2>2, <2>3, <4>1, <4>3, <5>1 DEF TileEnds
          <5>2. CASE larger = 2 BY <2>1, <2>2, <2>3, <4>1, <4>3, <5>2 DEF TileEnds
          <5>3. CASE larger = 3 BY <2>1, <2>2, <2>3, <4>1, <4>3, <5>3 DEF TileEnds
          <5>4. QED BY <2>1, <5>1, <5>2, <5>3
        <4>6. QED BY <4>4, <4>5, Zenon
      <3>2. CASE ~(p <= big)
        <4>1. PICK a \in Nat : a = p - big - 1 BY <2>4, <3>2
        <4>2. n = 4 * size + larger /\ p <= n BY <1>1
        <4>3. /\ larger = 1 => a = p - d - 1 /\ a < 3 * size
              /\ larger = 2 => a = p - 2 * d - 1 /\ a < 2 * size
              /\ larger = 3 => a = p - 3 * d - 1 /\ a < size
          <5>1. larger = 1 => a = p - d - 1 /\ a < 3 * size BY <2>1, <2>2, <2>4, <4>1, <4>2
          <5>2. larger = 2 => a = p - 2 * d - 1 /\ a < 2 * size BY <2>1, <2>2, <2>4, <4>1, <4>2
          <5>3. larger = 3 => a = p - 3 * d - 1 /\ a < size BY <2>1, <2>2, <2>4, <4>1, <4>2
          <5>4. QED BY <5>1, <5>2, <5>3
        <4>4. size \in Nat \ {0} BY <2>1, <4>1, <4>3
        <4>5. PICK q : q = a \div size OBVIOUS
        <4>6. /\ a < size => q = 0
              /\ size <= a /\ a < 2 * size => q = 1
              /\ 2 * size <= a /\ a < 3 * size => q = 2
          BY <4>1, <4>4, <4>5, QuarterIs
        <4>7. Tile(p) = larger + q + 1 BY <1>3, <3>2, <4>1, <4>5
        <4>8. TileEnds(larger + q + 1, one, two, three, p)
          <5>1. CASE larger = 1 BY <2>2, <2>3, <4>1, <4>3, <4>4, <4>6, <5>1 DEF TileEnds
          <5>2. CASE larger = 2 BY <2>2, <2>3, <4>1, <4>3, <4>4, <4>6, <5>2 DEF TileEnds
          <5>3. CASE larger = 3 BY <2>2, <2>3, <4>1, <4>3, <4>4, <4>6, <5>3 DEF TileEnds
          <5>4. QED BY <2>1, <5>1, <5>2, <5>3
        <4>9. QED BY <4>7, <4>8, Zenon
      <3>3. QED BY <3>1, <3>2
    <2>6. one <= two /\ two <= three /\ n <= 2 * two + 1
      <3>1. n = 4 * size + larger BY <1>1
      <3>2. CASE larger = 1 BY <2>1, <2>2, <2>3, <3>1, <3>2
      <3>3. CASE larger = 2 BY <2>1, <2>2, <2>3, <3>1, <3>3
      <3>4. CASE larger = 3 BY <2>1, <2>2, <2>3, <3>1, <3>4
      <3>5. QED BY <2>1, <3>2, <3>3, <3>4
    <2>7. QED BY <2>5, <2>6
  <1>6. QED BY <1>4, <1>5

LEMMA TilesAscend ==
  ASSUME NEW n \in Nat, n = Cardinality(Customers), NEW p \in 1..n
  PROVE  /\ Tile(p) \in 1..4
         /\ 2 * p <= n => Tile(p) <= 2
         /\ \A k \in 1..n : p <= k => Tile(p) <= Tile(k)
  <1>1. PICK one, two, three \in Int :
          /\ one <= two /\ two <= three /\ n <= 2 * two + 1
          /\ \A k \in 1..n : TileEnds(Tile(k), one, two, three, k)
    BY TilesEnd
  <1>2. TileEnds(Tile(p), one, two, three, p) BY <1>1
  <1>3. PICK t : t = Tile(p) OBVIOUS
  <1>4. /\ t \in 1..4 /\ (t <= 1 <=> p <= one) /\ (t <= 2 <=> p <= two)
        /\ (t <= 3 <=> p <= three)
    BY <1>2, <1>3 DEF TileEnds
  <1>5. 2 * p <= n => t <= 2 BY <1>1, <1>4
  <1>6. ASSUME NEW k \in 1..n, p <= k PROVE t <= Tile(k)
    <2>1. PICK u : u = Tile(k) OBVIOUS
    <2>2. /\ u \in 1..4 /\ (u <= 1 <=> k <= one) /\ (u <= 2 <=> k <= two)
          /\ (u <= 3 <=> k <= three)
      BY <1>1, <2>1 DEF TileEnds
    <2>3. t <= u BY <1>1, <1>4, <1>6, <2>2
    <2>4. QED BY <2>1, <2>3
  <1>7. QED BY <1>3, <1>4, <1>5, <1>6

Below(h, c) == {e \in Customers : h[e] < h[c]}
Upto(h, c)  == {e \in Customers : h[e] <= h[c]}
ScoresBy(h, c) ==
  {Tile(place) : place \in (Cardinality(Below(h, c)) + 1)..Cardinality(Upto(h, c))}

\* A score comes of one of the places of the customer's key.
PlacedBy(h, c, s, p) ==
  /\ p \in 1..Cardinality(Customers) /\ s = Tile(p)
  /\ p > Cardinality(Below(h, c)) /\ p <= Cardinality(Upto(h, c))

LEMMA CountsOf ==
  ASSUME NEW h, NEW c
  PROVE  /\ IsFiniteSet(Customers) /\ Cardinality(Customers) \in Nat
         /\ IsFiniteSet(Below(h, c)) /\ Cardinality(Below(h, c)) \in Nat
         /\ IsFiniteSet(Upto(h, c)) /\ Cardinality(Upto(h, c)) \in Nat
         /\ Cardinality(Upto(h, c)) <= Cardinality(Customers)
  <1>1. IsFiniteSet(Customers) BY SalesAssumption
  <1>2. Below(h, c) \in SUBSET Customers /\ Upto(h, c) \in SUBSET Customers BY DEF Below, Upto
  <1>3. IsFiniteSet(Below(h, c)) /\ IsFiniteSet(Upto(h, c)) BY <1>1, <1>2, FS_Subset
  <1>4. Cardinality(Upto(h, c)) <= Cardinality(Customers) BY <1>1, <1>2, FS_Subset
  <1>5. QED BY <1>1, <1>3, <1>4, FS_CardinalityType

LEMMA ScorePlaced ==
  ASSUME NEW h, NEW c, NEW s \in ScoresBy(h, c)
  PROVE  \E p : PlacedBy(h, c, s, p)
  <1>1. PICK p \in (Cardinality(Below(h, c)) + 1)..Cardinality(Upto(h, c)) : s = Tile(p)
    BY DEF ScoresBy
  <1>2. PlacedBy(h, c, s, p) BY <1>1, CountsOf DEF PlacedBy
  <1>3. QED BY <1>2

LEMMA ScoresAscend ==
  ASSUME NEW h, \A e \in Customers : h[e] \in Int, NEW c \in Customers, NEW e \in Customers,
         NEW s \in ScoresBy(h, c), NEW t \in ScoresBy(h, e)
  PROVE  /\ s \in 1..4 /\ t \in 1..4
         /\ h[e] < h[c] => t <= s
         /\ 2 * Cardinality(Upto(h, c)) <= Cardinality(Customers) => s <= 2
  <1>1. PICK p : PlacedBy(h, c, s, p) BY ScorePlaced
  <1>2. PICK q : PlacedBy(h, e, t, q) BY ScorePlaced
  <1>3. PICK n \in Nat : n = Cardinality(Customers) BY CountsOf
  <1>4. PICK b, u \in Nat : b = Cardinality(Below(h, c)) /\ u = Cardinality(Upto(h, c))
    BY CountsOf
  <1>5. PICK v \in Nat : v = Cardinality(Upto(h, e)) BY CountsOf
  <1>6. p \in 1..n /\ s = Tile(p) /\ p > b /\ p <= u BY <1>1, <1>3, <1>4 DEF PlacedBy
  <1>7. q \in 1..n /\ t = Tile(q) /\ q <= v BY <1>2, <1>3, <1>5 DEF PlacedBy
  <1>8. Tile(p) \in 1..4 /\ (2 * p <= n => Tile(p) <= 2) BY <1>3, <1>6, TilesAscend
  <1>9. /\ Tile(q) \in 1..4
        /\ \A k \in 1..n : q <= k => Tile(q) <= Tile(k)
    BY <1>3, <1>7, TilesAscend
  <1>10. ASSUME h[e] < h[c] PROVE t <= s
    <2>1. \A x \in Customers : h[x] <= h[e] => h[x] < h[c] BY <1>10
    <2>2. Upto(h, e) \in SUBSET Below(h, c) BY <2>1 DEF Upto, Below
    <2>3. IsFiniteSet(Below(h, c)) BY CountsOf
    <2>4. v <= b BY <1>4, <1>5, <2>2, <2>3, FS_Subset
    <2>5. q <= p BY <1>6, <1>7, <2>4
    <2>6. QED BY <1>6, <1>7, <1>9, <2>5
  <1>11. 2 * u <= n => s <= 2
    <2>1. 2 * u <= n => 2 * p <= n BY <1>6
    <2>2. QED BY <1>6, <1>8, <2>1, Zenon
  <1>12. s \in 1..4 /\ t \in 1..4 BY <1>6, <1>7, <1>8, <1>9
  <1>13. QED BY <1>3, <1>4, <1>10, <1>11, <1>12

LEMMA GreatestExists ==
  ASSUME NEW S, S # {}, NEW m \in Nat, S \subseteq 0..m
  PROVE  \E x \in S : x \in Nat /\ x = Max(S)
  <1>1. PICK B : B = {y \in 1..(m + 1) : m + 1 - y \in S} OBVIOUS
  <1>2. B # {} /\ B \subseteq 1..(m + 1)
    <2>1. PICK x \in S : TRUE OBVIOUS
    <2>2. x \in 0..m BY <2>1
    <2>3. m + 1 - x \in 1..(m + 1) /\ m + 1 - (m + 1 - x) = x BY <2>2
    <2>4. m + 1 - x \in B BY <1>1, <2>3
    <2>5. QED BY <1>1, <2>4
  <1>3. PICK b \in B : \A y \in B : y >= b
    <2>1. PICK k \in Nat : k = m + 1 OBVIOUS
    <2>2. B \subseteq 1..k BY <1>2, <2>1
    <2>3. QED BY <1>2, <2>2, LeastExists
  <1>4. PICK g \in S : g = m + 1 - b BY <1>1
  <1>5. ASSUME NEW x \in S PROVE x \in Int /\ g >= x
    <2>1. x \in 0..m OBVIOUS
    <2>2. PICK y \in 1..(m + 1) : y = m + 1 - x BY <2>1
    <2>3. m + 1 - y = x BY <2>1, <2>2
    <2>4. y \in B BY <1>1, <2>3
    <2>5. y >= b /\ b \in 1..(m + 1) BY <1>1, <1>3, <2>4
    <2>6. QED BY <1>4, <2>1, <2>2, <2>5
  <1>6. g \in Int /\ \A x \in S : (\A y \in S : x >= y) <=> x = g
    <2>1. g \in Int BY <1>5
    <2>2. ASSUME NEW x \in S PROVE (\A y \in S : x >= y) <=> x = g
      <3>1. x \in Int /\ g >= x BY <1>5
      <3>2. x = g => \A y \in S : x >= y BY <1>5
      <3>3. (\A y \in S : x >= y) => x = g BY <2>1, <3>1
      <3>4. QED BY <3>2, <3>3
    <2>3. QED BY <2>1, <2>2
  <1>7. Max(S) = CHOOSE x \in S : x = g BY <1>6, Zenon DEF Max
  <1>8. Max(S) = g BY <1>7
  <1>9. g \in 0..m OBVIOUS
  <1>10. QED BY <1>8, <1>9

LEMMA KeysAreNumbers ==
  ASSUME SalesInv, NEW c \in Customers
  PROVE  Recency(c) \in Int /\ Frequency(c) \in Nat /\ Monetary(c) \in Int
  <1>1. PICK R \in SUBSET Ids : R = ReceiptsOf(c) BY DEF ReceiptsOf
  <1>2. IsFiniteSet(R)
    <2>1. Len(receipts) \in Nat BY DEF SalesInv
    <2>2. IsFiniteSet(Ids) BY <2>1, FS_Interval DEF Ids
    <2>3. QED BY <2>2, FS_Subset
  <1>3. Frequency(c) \in Nat BY <1>1, <1>2, FS_CardinalityType DEF Frequency
  <1>4. Monetary(c) \in Int
    <2>1. PICK S \in SUBSET lines : S = {i \in lines : i.receipt \in ReceiptsOf(c)} OBVIOUS
    <2>2. IsFiniteSet(S) BY FS_Subset DEF SalesInv
    <2>3. PICK f : f = Column("price", S) OBVIOUS
    <2>4. \A i \in S : f[i] \in Int
      <3>1. \A i \in S : i.price \in Nat BY LineTypes
      <3>2. QED BY <2>3, <3>1 DEF Column
    <2>5. SumOver(f, S) \in Int BY <2>2, <2>4, SumType
    <2>6. Sales(S) \in Int BY <2>3, <2>5, SalesSum, Zenon
    <2>7. QED BY <2>1, <2>6, Zenon DEF Monetary
  <1>5. Recency(c) \in Int
    <2>1. CASE R = {} BY <1>1, <2>1 DEF Recency, NeverBought
    <2>2. CASE R # {}
      <3>1. PICK D : D = {receipts[r].day : r \in R} OBVIOUS
      <3>2. ASSUME NEW r \in R PROVE receipts[r].day \in Nat /\ receipts[r].day <= today
        <4>1. r \in 1..Len(receipts) BY DEF Ids
        <4>2. receipts[r] \in Visits BY <4>1 DEF SalesInv
        <4>3. receipts[r].day \in Nat BY <4>2, CatalogAssumption
        <4>4. receipts[r].day <= today BY DEF SalesInv
        <4>5. QED BY <4>3, <4>4
      <3>3. today \in Nat
        <4>1. PICK r \in R : TRUE BY <2>2
        <4>2. today \in Int BY DEF SalesInv
        <4>3. QED BY <3>2, <4>1, <4>2
      <3>4. D # {} /\ D \subseteq 0..today BY <2>2, <3>1, <3>2, <3>3
      <3>5. Max(D) \in Nat BY <3>3, <3>4, GreatestExists
      <3>6. Recency(c) = today - Max(D) BY <1>1, <2>2, <3>1, Zenon DEF Recency
      <3>7. QED BY <3>3, <3>5, <3>6
    <2>3. QED BY <2>1, <2>2
  <1>6. QED BY <1>3, <1>4, <1>5

LEMMA SegmentsAscend ==
  ASSUME NEW r \in 1..4, NEW f \in 1..4, NEW m \in 1..4,
         NEW u \in 1..4, NEW v \in 1..4, NEW w \in 1..4
  PROVE  /\ u <= r /\ v <= f /\ w <= m => Rank[Segment(r, f, m)] >= Rank[Segment(u, v, w)]
         /\ f <= 2 => Segment(r, f, m) # "Champions"
  <1>1. \A x, y, z \in 1..4 :
          /\ x >= 3 /\ y >= 3 /\ z >= 3 => Segment(x, y, z) = "Champions"
          /\ ~(x >= 3 /\ y >= 3 /\ z >= 3) /\ x >= 2 /\ y >= 2 => Segment(x, y, z) = "Loyal"
          /\ x < 2 /\ y >= 3 => Segment(x, y, z) = "AtRisk"
          /\ ~(x >= 2 /\ y >= 2) /\ ~(x < 2 /\ y >= 3) => Segment(x, y, z) = "Lost"
    BY DEF Segment
  <1>2. /\ Rank["Lost"] = 0 /\ Rank["AtRisk"] = 1
        /\ Rank["Loyal"] = 2 /\ Rank["Champions"] = 3
    BY DEF Rank
  <1>3. PICK a : a = Segment(r, f, m) OBVIOUS
  <1>4. PICK b : b = Segment(u, v, w) OBVIOUS
  <1>5. /\ r >= 3 /\ f >= 3 /\ m >= 3 => a = "Champions"
        /\ ~(r >= 3 /\ f >= 3 /\ m >= 3) /\ r >= 2 /\ f >= 2 => a = "Loyal"
        /\ r < 2 /\ f >= 3 => a = "AtRisk"
        /\ ~(r >= 2 /\ f >= 2) /\ ~(r < 2 /\ f >= 3) => a = "Lost"
    BY <1>1, <1>3
  <1>6. /\ u >= 3 /\ v >= 3 /\ w >= 3 => b = "Champions"
        /\ ~(u >= 3 /\ v >= 3 /\ w >= 3) /\ u >= 2 /\ v >= 2 => b = "Loyal"
        /\ u < 2 /\ v >= 3 => b = "AtRisk"
        /\ ~(u >= 2 /\ v >= 2) /\ ~(u < 2 /\ v >= 3) => b = "Lost"
    BY <1>1, <1>4
  <1>7. u <= r /\ v <= f /\ w <= m => Rank[a] >= Rank[b] BY <1>2, <1>5, <1>6
  <1>8. f <= 2 => a # "Champions" BY <1>5
  <1>9. QED BY <1>3, <1>4, <1>7, <1>8

\* The three scores behind a segment.
ScoredBy(s, k, f, m, c) ==
  \E x \in ScoresBy(k, c), y \in ScoresBy(f, c), z \in ScoresBy(m, c) : s = Segment(x, y, z)

LEMMA SegmentScored ==
  ASSUME NEW k, NEW f, NEW m, NEW c \in Customers,
         k = [e \in Customers |-> RecencyKey(e)], f = [e \in Customers |-> Frequency(e)],
         m = [e \in Customers |-> Monetary(e)], NEW s \in Segments(c)
  PROVE  ScoredBy(s, k, f, m, c)
  <1>1. Scores(c, RecencyKey) = ScoresBy(k, c)
    <2>1. \A e \in Customers : k[e] = RecencyKey(e) BY Zenon
    <2>2. /\ {e \in Customers : RecencyKey(e) < RecencyKey(c)} = Below(k, c)
          /\ {e \in Customers : RecencyKey(e) <= RecencyKey(c)} = Upto(k, c)
      BY <2>1 DEF Below, Upto
    <2>3. QED BY <2>2, Zenon DEF Scores, ScoresBy
  <1>2. Scores(c, Frequency) = ScoresBy(f, c)
    <2>1. \A e \in Customers : f[e] = Frequency(e) BY Zenon
    <2>2. /\ {e \in Customers : Frequency(e) < Frequency(c)} = Below(f, c)
          /\ {e \in Customers : Frequency(e) <= Frequency(c)} = Upto(f, c)
      BY <2>1 DEF Below, Upto
    <2>3. QED BY <2>2, Zenon DEF Scores, ScoresBy
  <1>3. Scores(c, Monetary) = ScoresBy(m, c)
    <2>1. \A e \in Customers : m[e] = Monetary(e) BY Zenon
    <2>2. /\ {e \in Customers : Monetary(e) < Monetary(c)} = Below(m, c)
          /\ {e \in Customers : Monetary(e) <= Monetary(c)} = Upto(m, c)
      BY <2>1 DEF Below, Upto
    <2>3. QED BY <2>2, Zenon DEF Scores, ScoresBy
  <1>4. PICK x \in Scores(c, RecencyKey), y \in Scores(c, Frequency), z \in Scores(c, Monetary) :
          s = Segment(x, y, z)
    BY DEF Segments
  <1>5. QED BY <1>1, <1>2, <1>3, <1>4, Zenon DEF ScoredBy

LEMMA SegmentsHold ==
  ASSUME SalesInv
  PROVE  SegmentsFollowScores
  <1>1. PICK k : k = [e \in Customers |-> RecencyKey(e)] OBVIOUS
  <1>2. PICK f : f = [e \in Customers |-> Frequency(e)] OBVIOUS
  <1>3. PICK m : m = [e \in Customers |-> Monetary(e)] OBVIOUS
  <1>4. ASSUME NEW e \in Customers
        PROVE  /\ k[e] = -Recency(e) /\ k[e] \in Int /\ Recency(e) \in Int
               /\ f[e] = Frequency(e) /\ f[e] \in Int /\ f[e] >= 0
               /\ m[e] = Monetary(e) /\ m[e] \in Int
    <2>1. Recency(e) \in Int /\ Frequency(e) \in Nat /\ Monetary(e) \in Int BY KeysAreNumbers
    <2>2. k[e] = -Recency(e) BY <1>1, Zenon DEF RecencyKey
    <2>3. f[e] = Frequency(e) /\ m[e] = Monetary(e) BY <1>2, <1>3, Zenon
    <2>4. QED BY <2>1, <2>2, <2>3
  <1>5. ASSUME NEW c \in Customers, NEW e \in Customers,
               Recency(c) < Recency(e), Frequency(c) > Frequency(e), Monetary(c) > Monetary(e),
               NEW s \in Segments(c), NEW t \in Segments(e)
        PROVE  Rank[s] >= Rank[t]
    <2>1. ScoredBy(s, k, f, m, c) /\ ScoredBy(t, k, f, m, e)
      BY <1>1, <1>2, <1>3, SegmentScored
    <2>2. PICK x \in ScoresBy(k, c), y \in ScoresBy(f, c), z \in ScoresBy(m, c) :
            s = Segment(x, y, z)
      BY <2>1 DEF ScoredBy
    <2>3. PICK u \in ScoresBy(k, e), v \in ScoresBy(f, e), w \in ScoresBy(m, e) :
            t = Segment(u, v, w)
      BY <2>1 DEF ScoredBy
    <2>4. k[e] < k[c] /\ f[e] < f[c] /\ m[e] < m[c] BY <1>4, <1>5
    <2>5. x \in 1..4 /\ u \in 1..4 /\ u <= x
      <3>1. \A b \in Customers : k[b] \in Int BY <1>4
      <3>2. QED BY <2>4, <3>1, ScoresAscend
    <2>6. y \in 1..4 /\ v \in 1..4 /\ v <= y
      <3>1. \A b \in Customers : f[b] \in Int BY <1>4
      <3>2. QED BY <2>4, <3>1, ScoresAscend
    <2>7. z \in 1..4 /\ w \in 1..4 /\ w <= z
      <3>1. \A b \in Customers : m[b] \in Int BY <1>4
      <3>2. QED BY <2>4, <3>1, ScoresAscend
    <2>8. Rank[Segment(x, y, z)] >= Rank[Segment(u, v, w)]
      BY <2>5, <2>6, <2>7, SegmentsAscend
    <2>9. QED BY <2>2, <2>3, <2>8, Zenon
  <1>6. ASSUME 2 * Cardinality({c \in Customers : Frequency(c) = 0}) <= Cardinality(Customers),
               NEW c \in Customers, Frequency(c) = 0
        PROVE  "Champions" \notin Segments(c)
    <2>1. Upto(f, c) = {e \in Customers : Frequency(e) = 0}
      <3>1. \A e \in Customers : f[e] <= f[c] <=> Frequency(e) = 0 BY <1>4, <1>6
      <3>2. QED BY <3>1 DEF Upto
    <2>2. 2 * Cardinality(Upto(f, c)) <= Cardinality(Customers) BY <1>6, <2>1, Zenon
    <2>3. ASSUME NEW s \in Segments(c) PROVE s # "Champions"
      <3>1. ScoredBy(s, k, f, m, c) BY <1>1, <1>2, <1>3, SegmentScored
      <3>2. PICK x \in ScoresBy(k, c), y \in ScoresBy(f, c), z \in ScoresBy(m, c) :
              s = Segment(x, y, z)
        BY <3>1 DEF ScoredBy
      <3>3. x \in 1..4
        <4>1. \A b \in Customers : k[b] \in Int BY <1>4
        <4>2. QED BY <4>1, ScoresAscend
      <3>4. y \in 1..4 /\ y <= 2
        <4>1. \A b \in Customers : f[b] \in Int BY <1>4
        <4>2. QED BY <2>2, <4>1, ScoresAscend
      <3>5. z \in 1..4
        <4>1. \A b \in Customers : m[b] \in Int BY <1>4
        <4>2. QED BY <4>1, ScoresAscend
      <3>6. Segment(x, y, z) # "Champions" BY <3>3, <3>4, <3>5, SegmentsAscend
      <3>7. QED BY <3>2, <3>6, Zenon
    <2>4. QED BY <2>3, Zenon
  <1>7. QED BY <1>5, <1>6, Zenon DEF SegmentsFollowScores

-----------------------------------------------------------------------------
\* Whatever the visits, the decision-support answers mean what the page says
\* of them: the Pareto classes are the largest heads of the revenue ranking,
\* the demand is the mean of the newest days with a sale, no customer who is
\* strictly behind another is in a better segment, and two products bought
\* together are so from either side (kds.service.ts
\* getAbcAnalysis and the queries after it).
THEOREM DecisionsAlwaysHold == SalesSpec => []DecisionSupportHolds
  <1>1. SalesInv => AbcIsPareto BY AbcHolds
  <1>2. SalesInv => SegmentsFollowScores BY SegmentsHold
  <1>3. SalesInv => DecisionSupportHolds
    BY <1>1, <1>2, BasketsHold, DemandHolds DEF DecisionSupportHolds
  <1>4. QED BY <1>3, SalesKept, PTL

-----------------------------------------------------------------------------
(* Forecasts.  The history has a row for each city and month with a line   *)
(* of a whole day; areas and months only group these rows.                 *)

Past == {i \in lines : Day(i) < today}
MonthNumber(i) == MonthIndex(YearOf(Day(i)), MonthOf(Day(i)))
CityMonth == [i \in Past |-> [city |-> CityOf[Branch(i)], month |-> MonthNumber(i)]]
HistoryKeys == {CityMonth[i] : i \in Past}

LEMMA HistoryIs ==
  MonthlyHistory = [k \in HistoryKeys |-> [quantity |-> Quantity(Group(Past, CityMonth, k)),
                                           sales |-> Sales(Group(Past, CityMonth, k)),
                                           cost |-> Cost(Group(Past, CityMonth, k))]]
  <1> DEFINE at(i) == [city |-> CityOf[Branch(i)],
                       month |-> MonthIndex(YearOf(Day(i)), MonthOf(Day(i)))]
  <1>1. MonthlyHistory = [k \in {at(i) : i \in Past} |->
                            [quantity |-> Quantity({i \in Past : at(i) = k}),
                             sales |-> Sales({i \in Past : at(i) = k}),
                             cost |-> Cost({i \in Past : at(i) = k})]]
    BY Zenon DEF MonthlyHistory, GroupBy, Past
  <1>2. ASSUME NEW i \in Past PROVE CityMonth[i] = at(i)
    BY Zenon DEF CityMonth, MonthNumber
  <1> HIDE DEF at
  <1>3. {at(i) : i \in Past} = HistoryKeys BY <1>2 DEF HistoryKeys
  <1>4. \A k : {i \in Past : at(i) = k} = Group(Past, CityMonth, k) BY <1>2 DEF Group
  <1>5. QED BY <1>1, <1>3, <1>4, Zenon

LEMMA MonthTypes ==
  ASSUME SalesInv, NEW i \in lines
  PROVE  /\ YearOf(Day(i)) \in Nat /\ MonthNumber(i) \in Nat
         /\ MonthOf(Day(i)) \in 1..MonthsPerYear
  <1>1. DaysPerMonth \in Nat \ {0} /\ MonthsPerYear \in Nat \ {0} BY SalesAssumption
  <1>2. Day(i) \in Nat BY LineTypes
  <1>3. YearOf(Day(i)) \in Nat
    <2>1. YearOf(Day(i)) \in Years /\ Years \subseteq Nat BY LineTypes, SalesAssumption
    <2>2. QED BY <2>1
  <1>4. MonthOf(Day(i)) \in 1..MonthsPerYear
    <2>1. PICK q \in Int : q = Day(i) \div DaysPerMonth BY <1>1, <1>2
    <2>2. q % MonthsPerYear \in 0..(MonthsPerYear - 1) BY <1>1
    <2>3. QED BY <1>1, <2>1, <2>2 DEF MonthOf
  <1>5. MonthNumber(i) \in Nat
    <2>1. PICK y, n \in Nat : y = YearOf(Day(i)) /\ n = MonthsPerYear BY <1>1, <1>3
    <2>2. y * n \in Nat OBVIOUS
    <2>3. MonthNumber(i) = y * n + (MonthOf(Day(i)) - 1)
      BY <2>1, Zenon DEF MonthNumber, MonthIndex
    <2>4. QED BY <1>4, <2>2, <2>3
  <1>6. QED BY <1>3, <1>4, <1>5

LEMMA PastFinite ==
  ASSUME SalesInv
  PROVE  /\ IsFiniteSet(Past) /\ Past \in SUBSET lines /\ IsFiniteSet(HistoryKeys)
         /\ IsFiniteSet(Cities) /\ IsFiniteSet(Regions)
         /\ \A k \in HistoryKeys : k.city \in Cities /\ RegionOf[k.city] \in Regions
                                  /\ k.month \in Nat
  <1>1. Past \in SUBSET lines BY DEF Past
  <1>2. IsFiniteSet(Past) BY <1>1, FS_Subset DEF SalesInv
  <1>3. IsFiniteSet(HistoryKeys) BY <1>2, ImageFinite DEF HistoryKeys
  <1>4. IsFiniteSet(Cities) BY SalesAssumption, ImageFinite DEF Cities
  <1>5. IsFiniteSet(Regions) BY <1>4, ImageFinite DEF Regions
  <1>6. ASSUME NEW k \in HistoryKeys
        PROVE  k.city \in Cities /\ RegionOf[k.city] \in Regions /\ k.month \in Nat
    <2>1. PICK i \in Past : k = CityMonth[i] BY DEF HistoryKeys
    <2>2. i \in lines BY <1>1
    <2>3. k.city = CityOf[Branch(i)] /\ k.month = MonthNumber(i) BY <2>1 DEF CityMonth
    <2>4. CityOf[Branch(i)] \in Cities /\ RegionOf[CityOf[Branch(i)]] \in Regions
      BY <2>2, LineTypes
    <2>5. MonthNumber(i) \in Nat BY <2>2, MonthTypes
    <2>6. QED BY <2>3, <2>4, <2>5
  <1>7. QED BY <1>1, <1>2, <1>3, <1>4, <1>5, <1>6

LEMMA BaseIs == BaseMetrics = {"quantity", "sales", "cost"} /\ BaseMetrics \subseteq Additive
  BY DEF BaseMetrics, Zero, Additive

LEMMA HistoryRow ==
  ASSUME SalesInv, NEW m \in BaseMetrics, NEW k \in HistoryKeys
  PROVE  /\ MonthlyHistory[k][m] = SumOver(Column(ColumnOf(m), Group(Past, CityMonth, k)),
                                           Group(Past, CityMonth, k))
         /\ MonthlyHistory[k][m] \in Int /\ MonthlyHistory[k][m] >= 0
  <1>1. PICK S : S = Group(Past, CityMonth, k) OBVIOUS
  <1>2. MonthlyHistory[k] = [quantity |-> Quantity(S), sales |-> Sales(S), cost |-> Cost(S)]
    BY <1>1, HistoryIs, Zenon
  <1>3. MonthlyHistory[k][m] = Metric(m, S)
    <2>1. Metric("sales", S) = Sales(S) /\ Metric("quantity", S) = Quantity(S)
            /\ Metric("cost", S) = Cost(S)
      BY MetricSum, Zenon
    <2>2. CASE m = "quantity" BY <1>2, <2>1, <2>2
    <2>3. CASE m = "sales" BY <1>2, <2>1, <2>3
    <2>4. CASE m = "cost" BY <1>2, <2>1, <2>4
    <2>5. QED BY <2>2, <2>3, <2>4, BaseIs
  <1>4. PICK f : f = Column(ColumnOf(m), S) OBVIOUS
  <1>5. MonthlyHistory[k][m] = SumOver(f, S)
    <2>1. m \in Additive BY BaseIs
    <2>2. Metric(m, S) = SumOver(f, S) BY <1>4, <2>1, MetricSum, Zenon
    <2>3. QED BY <1>3, <2>2, Zenon
  <1>6. S \in SUBSET lines BY <1>1, PastFinite DEF Group
  <1>7. IsFiniteSet(S) BY <1>6, FS_Subset DEF SalesInv
  <1>8. ASSUME NEW i \in S PROVE f[i] \in Int /\ f[i] >= 0
    <2>1. i \in lines BY <1>6
    <2>2. i.price \in Nat /\ i.quantity \in Nat /\ i.cost \in Nat BY <2>1, LineTypes
    <2>3. ColumnOf("quantity") = "quantity" /\ ColumnOf("sales") = "price"
            /\ ColumnOf("cost") = "cost"
      BY DEF ColumnOf
    <2>4. f[i] = i[ColumnOf(m)] BY <1>4 DEF Column
    <2>5. CASE m = "quantity" BY <2>2, <2>3, <2>4, <2>5
    <2>6. CASE m = "sales" BY <2>2, <2>3, <2>4, <2>6
    <2>7. CASE m = "cost" BY <2>2, <2>3, <2>4, <2>7
    <2>8. QED BY <2>5, <2>6, <2>7, BaseIs
  <1>9. SumOver(f, S) \in Int /\ SumOver(f, S) >= 0 BY <1>7, <1>8, SumType, SumNatural
  <1>10. QED BY <1>1, <1>4, <1>5, <1>9, Zenon

LEMMA HistorySum ==
  ASSUME SalesInv, NEW m \in BaseMetrics
  PROVE  SumOver(Row(MonthlyHistory, m, HistoryKeys), HistoryKeys) = Metric(m, Past)
  <1>1. PICK c : c = ColumnOf(m) OBVIOUS
  <1>2. PICK S : S = Past OBVIOUS
  <1>3. PICK K : K = HistoryKeys OBVIOUS
  <1>4. PICK g : g = Row(MonthlyHistory, m, K) OBVIOUS
  <1>5. PICK key : key = CityMonth OBVIOUS
  <1>6. IsFiniteSet(S) /\ IsFiniteSet(K) /\ S \subseteq lines BY <1>2, <1>3, PastFinite
  <1>7. \A i \in S : i[c] \in Int
    <2>1. m \in Additive BY BaseIs
    <2>2. \A i \in lines : i[c] \in Int BY <1>1, <2>1, ColumnTypes, Zenon
    <2>3. QED BY <1>6, <2>2
  <1>8. \A i \in S : key[i] \in K BY <1>2, <1>3, <1>5 DEF HistoryKeys
  <1>9. ASSUME NEW k \in K
        PROVE  g[k] = SumOver(Column(c, Group(S, key, k)), Group(S, key, k))
    <2>1. g[k] = MonthlyHistory[k][m] BY <1>4, Zenon DEF Row
    <2>2. k \in HistoryKeys BY <1>3
    <2>3. MonthlyHistory[k][m] = SumOver(Column(ColumnOf(m), Group(Past, CityMonth, k)),
                                         Group(Past, CityMonth, k))
      BY <2>2, HistoryRow
    <2>4. QED BY <1>1, <1>2, <1>5, <2>1, <2>3, Zenon
  <1>10. SumOver(g, K) = SumOver(Column(c, S), S)
    BY <1>6, <1>7, <1>8, <1>9, ColumnGroups
  <1>11. Metric(m, S) = SumOver(Column(c, S), S)
    <2>1. m \in Additive BY BaseIs
    <2>2. QED BY <1>1, <2>1, MetricSum, Zenon
  <1>12. QED BY <1>2, <1>3, <1>4, <1>10, <1>11, Zenon

\* The rows of an area, and its series by month.
RowsOf(map, a) == {k \in HistoryKeys : AreaOf(map, k) = a}
Months(K) == [k \in K |-> k.month]
IsSeries(series, K) ==
  /\ DOMAIN series = {Months(K)[k] : k \in K}
  /\ \A n \in DOMAIN series : series[n] = SumOf(MonthlyHistory, Group(K, Months(K), n))

LEMMA SeriesIs ==
  ASSUME NEW map, NEW a
  PROVE  IsSeries(Series(map, a), RowsOf(map, a))
  <1>1. PICK K : K = RowsOf(map, a) OBVIOUS
  <1>2. PICK months : months = Months(K) OBVIOUS
  <1>3. DOMAIN MonthlyHistory = HistoryKeys BY HistoryIs
  <1>4. {k \in DOMAIN MonthlyHistory : AreaOf(map, k) = a} = K BY <1>1, <1>3, Zenon DEF RowsOf
  <1>5. Series(map, a) = [n \in {k.month : k \in K} |->
                            SumOf(MonthlyHistory, {k \in K : k.month = n})]
    BY <1>4, Zenon DEF Series
  <1>6. \A k \in K : months[k] = k.month BY <1>2 DEF Months
  <1>7. {k.month : k \in K} = {months[k] : k \in K} BY <1>6
  <1>8. \A n : {k \in K : k.month = n} = Group(K, months, n) BY <1>6 DEF Group
  <1>9. Series(map, a) = [n \in {months[k] : k \in K} |->
                            SumOf(MonthlyHistory, Group(K, months, n))]
    BY <1>5, <1>7, <1>8, Zenon
  <1>10. PICK series : series = Series(map, a) OBVIOUS
  <1>11. /\ DOMAIN series = {months[k] : k \in K}
         /\ \A n \in DOMAIN series : series[n] = SumOf(MonthlyHistory, Group(K, months, n))
    BY <1>9, <1>10
  <1>12. IsSeries(series, K) BY <1>2, <1>11, Zenon DEF IsSeries
  <1>13. QED BY <1>1, <1>10, <1>12, Zenon

LEMMA SumOfIs ==
  ASSUME NEW f, NEW S, NEW m \in BaseMetrics
  PROVE  SumOf(f, S)[m] = SumOver(Row(f, m, S), S)
  <1>1. SumOf(f, S)[m] = MapThenSumSet(LAMBDA k : f[k][m], S) BY Zenon DEF SumOf
  <1>2. QED BY <1>1, RunningSum, Zenon

\* A table of figures, none negative.
Figures(f, m, S) == \A k \in S : f[k][m] \in Int /\ f[k][m] >= 0

LEMMA RowTypes ==
  ASSUME NEW f, NEW m, NEW S, IsFiniteSet(S), Figures(f, m, S)
  PROVE  /\ SumOver(Row(f, m, S), S) \in Int /\ SumOver(Row(f, m, S), S) >= 0
         /\ \A T \in SUBSET S : SumOver(Row(f, m, S), T) = SumOver(Row(f, m, T), T)
  <1>1. PICK r : r = Row(f, m, S) OBVIOUS
  <1>2. \A k \in S : r[k] = f[k][m] BY <1>1, Zenon DEF Row
  <1>3. \A k \in S : r[k] \in Int /\ r[k] >= 0 BY <1>2 DEF Figures
  <1>4. SumOver(r, S) \in Int /\ SumOver(r, S) >= 0 BY <1>3, SumType, SumNatural
  <1>5. ASSUME NEW T \in SUBSET S PROVE SumOver(r, T) = SumOver(Row(f, m, T), T)
    <2>1. PICK t : t = Row(f, m, T) OBVIOUS
    <2>2. \A k \in T : t[k] = f[k][m] BY <2>1, Zenon DEF Row
    <2>3. \A k \in T : r[k] \in Int /\ r[k] = t[k] BY <1>2, <1>3, <2>2
    <2>4. IsFiniteSet(T) BY FS_Subset
    <2>5. SumOver(r, T) = SumOver(t, T) BY <2>3, <2>4, SumSame
    <2>6. QED BY <2>1, <2>5, Zenon
  <1>6. QED BY <1>1, <1>4, <1>5, Zenon

LEMMA SeriesTotal ==
  ASSUME SalesInv, NEW K \in SUBSET HistoryKeys, NEW series, IsSeries(series, K),
         NEW m \in BaseMetrics
  PROVE  /\ IsFiniteSet(DOMAIN series) /\ DOMAIN series \subseteq Nat
         /\ Figures(series, m, DOMAIN series)
         /\ SumOf(series, DOMAIN series)[m] = SumOver(Row(MonthlyHistory, m, K), K)
  <1>1. PICK D : D = DOMAIN series OBVIOUS
  <1>2. PICK key : key = Months(K) OBVIOUS
  <1>3. /\ D = {key[k] : k \in K}
        /\ \A n \in D : series[n] = SumOf(MonthlyHistory, Group(K, key, n))
    BY <1>1, <1>2 DEF IsSeries
  <1>4. IsFiniteSet(K) BY PastFinite, FS_Subset
  <1>5. IsFiniteSet(D) BY <1>3, <1>4, ImageFinite
  <1>6. \A k \in K : key[k] = k.month BY <1>2 DEF Months
  <1>7. D \subseteq Nat
    <2>1. \A k \in K : k.month \in Nat BY PastFinite
    <2>2. QED BY <1>3, <1>6, <2>1
  <1>8. Figures(MonthlyHistory, m, K)
    <2>1. ASSUME NEW k \in K PROVE MonthlyHistory[k][m] \in Int /\ MonthlyHistory[k][m] >= 0
      BY HistoryRow
    <2>2. QED BY <2>1 DEF Figures
  <1>9. PICK f : f = Row(MonthlyHistory, m, K) OBVIOUS
  <1>10. PICK g : g = Row(series, m, D) OBVIOUS
  <1>11. ASSUME NEW n \in D
         PROVE  /\ series[n][m] = SumOver(f, Group(K, key, n))
                /\ series[n][m] \in Int /\ series[n][m] >= 0 /\ g[n] = series[n][m]
    <2>1. PICK G \in SUBSET K : G = Group(K, key, n) BY DEF Group
    <2>2. series[n][m] = SumOver(Row(MonthlyHistory, m, G), G)
      BY <1>3, <2>1, SumOfIs, Zenon
    <2>3. SumOver(f, G) = SumOver(Row(MonthlyHistory, m, G), G) BY <1>4, <1>8, <1>9, RowTypes
    <2>4. IsFiniteSet(G) BY <1>4, FS_Subset
    <2>5. Figures(MonthlyHistory, m, G) BY <1>8 DEF Figures
    <2>6. /\ SumOver(Row(MonthlyHistory, m, G), G) \in Int
          /\ SumOver(Row(MonthlyHistory, m, G), G) >= 0
      BY <2>4, <2>5, RowTypes
    <2>7. g[n] = series[n][m] BY <1>10, Zenon DEF Row
    <2>8. QED BY <2>1, <2>2, <2>3, <2>6, <2>7, Zenon
  <1>12. Figures(series, m, D) BY <1>11 DEF Figures
  <1>13. SumOver(g, D) = SumOver(f, K)
    <2>1. \A k \in K : f[k] \in Int
      <3>1. \A k \in K : f[k] = MonthlyHistory[k][m] BY <1>9, Zenon DEF Row
      <3>2. QED BY <1>8, <3>1 DEF Figures
    <2>2. \A k \in K : key[k] \in D BY <1>3
    <2>3. \A n \in D : g[n] = SumOver(f, Group(K, key, n)) BY <1>11
    <2>4. QED BY <1>4, <1>5, <2>1, <2>2, <2>3, SumGroups
  <1>14. SumOf(series, D)[m] = SumOver(g, D) BY <1>10, SumOfIs, Zenon
  <1>15. QED BY <1>1, <1>5, <1>7, <1>9, <1>12, <1>13, <1>14, Zenon

AreaTotals(map, m, A) == [a \in A |-> SumOf(Series(map, a), DOMAIN Series(map, a))[m]]

LEMMA AreaSum ==
  \A map, m, A : MapThenSumSet(LAMBDA a : SumOf(Series(map, a), DOMAIN Series(map, a))[m], A)
                   = SumOver(AreaTotals(map, m, A), A)
  <1> TAKE map, m, A
  <1> DEFINE at(a) == SumOf(Series(map, a), DOMAIN Series(map, a))[m]
             Adds(g) == g = [s \in SUBSET A |-> IF s = {} THEN 0
                                                ELSE at(Chosen(s)) + g[s \ {Chosen(s)}]]
  <1>1. MapThenSumSet(LAMBDA a : SumOf(Series(map, a), DOMAIN Series(map, a))[m], A)
          = (CHOOSE g : Adds(g))[A]
    BY Zenon DEF MapThenSumSet, MapThenFoldSet, Chosen
  <1>2. \A a \in A : AreaTotals(map, m, A)[a] = at(a) BY Zenon DEF AreaTotals
  <1> HIDE DEF at
  <1>3. ASSUME NEW g PROVE Adds(g) <=> Unfolds(g, AreaTotals(map, m, A), A)
    <2>1. ASSUME NEW s \in SUBSET A
          PROVE  (IF s = {} THEN 0 ELSE at(Chosen(s)) + g[s \ {Chosen(s)}])
                   = (IF s = {} THEN 0 ELSE AreaTotals(map, m, A)[Chosen(s)] + g[s \ {Chosen(s)}])
      <3>1. CASE s = {} BY <3>1, Zenon
      <3>2. CASE s # {}
        <4>1. PICK a \in A : a = Chosen(s) BY <3>2, ChosenIn
        <4>2. QED BY <1>2, <4>1, Zenon
      <3>3. QED BY <3>1, <3>2
    <2>2. [s \in SUBSET A |-> IF s = {} THEN 0 ELSE at(Chosen(s)) + g[s \ {Chosen(s)}]]
            = [s \in SUBSET A |->
                 IF s = {} THEN 0 ELSE AreaTotals(map, m, A)[Chosen(s)] + g[s \ {Chosen(s)}]]
      BY <2>1, Zenon
    <2>3. QED BY <2>2, Zenon DEF Unfolds
  <1> HIDE DEF Adds
  <1>4. (CHOOSE g : Adds(g)) = (CHOOSE g : Unfolds(g, AreaTotals(map, m, A), A)) BY <1>3, Zenon
  <1>5. QED BY <1>1, <1>4, SumUnfolds, Zenon

LEMMA AreasHold ==
  ASSUME SalesInv, NEW m \in BaseMetrics, NEW map \in {"city", "region"}
  PROVE  SumOver(AreaTotals(map, m, Areas(map)), Areas(map)) = Metric(m, Past)
  <1>1. PICK A : A = Areas(map) OBVIOUS
  <1>2. PICK K : K = HistoryKeys OBVIOUS
  <1>3. PICK key : key = [k \in K |-> AreaOf(map, k)] OBVIOUS
  <1>4. PICK f : f = Row(MonthlyHistory, m, K) OBVIOUS
  <1>5. PICK g : g = AreaTotals(map, m, A) OBVIOUS
  <1>6. IsFiniteSet(K) /\ IsFiniteSet(A)
    <2>1. A = Cities \/ A = Regions BY <1>1 DEF Areas
    <2>2. QED BY <1>2, <2>1, PastFinite
  <1>7. ASSUME NEW k \in K PROVE key[k] = AreaOf(map, k) /\ key[k] \in A
    <2>1. key[k] = AreaOf(map, k) BY <1>3, Zenon
    <2>2. k.city \in Cities /\ RegionOf[k.city] \in Regions BY <1>2, PastFinite
    <2>3. CASE map = "city" BY <1>1, <2>1, <2>2, <2>3 DEF Areas, AreaOf
    <2>4. CASE map = "region" BY <1>1, <2>1, <2>2, <2>4 DEF Areas, AreaOf
    <2>5. QED BY <2>3, <2>4
  <1>8. Figures(MonthlyHistory, m, K)
    <2>1. ASSUME NEW k \in HistoryKeys
          PROVE  MonthlyHistory[k][m] \in Int /\ MonthlyHistory[k][m] >= 0
      BY HistoryRow
    <2>2. QED BY <1>2, <2>1 DEF Figures
  <1>9. \A k \in K : f[k] \in Int
    <2>1. \A k \in K : f[k] = MonthlyHistory[k][m] BY <1>4, Zenon DEF Row
    <2>2. QED BY <1>8, <2>1 DEF Figures
  <1>10. ASSUME NEW a \in A PROVE g[a] = SumOver(f, Group(K, key, a))
    <2>1. PICK R \in SUBSET HistoryKeys : R = RowsOf(map, a) BY DEF RowsOf
    <2>2. Group(K, key, a) = R BY <1>2, <1>7, <2>1 DEF Group, RowsOf
    <2>3. PICK series : series = Series(map, a) OBVIOUS
    <2>4. IsSeries(series, R) BY <2>1, <2>3, SeriesIs, Zenon
    <2>5. SumOf(series, DOMAIN series)[m] = SumOver(Row(MonthlyHistory, m, R), R)
      BY <2>4, SeriesTotal
    <2>6. g[a] = SumOf(series, DOMAIN series)[m] BY <1>5, <2>3, Zenon DEF AreaTotals
    <2>7. SumOver(f, R) = SumOver(Row(MonthlyHistory, m, R), R)
      <3>1. R \in SUBSET K BY <1>2
      <3>2. QED BY <1>4, <1>6, <1>8, <3>1, RowTypes
    <2>8. QED BY <2>2, <2>5, <2>6, <2>7, Zenon
  <1>11. \A k \in K : key[k] \in A BY <1>7
  <1>12. SumOver(g, A) = SumOver(f, K) BY <1>6, <1>9, <1>10, <1>11, SumGroups
  <1>13. SumOver(f, K) = Metric(m, Past) BY <1>2, <1>4, HistorySum, Zenon
  <1>14. QED BY <1>1, <1>5, <1>12, <1>13, Zenon

LEMMA RegionMonths ==
  ASSUME SalesInv, NEW g \in Regions
  PROVE  DOMAIN Series("region", g)
           = UNION {DOMAIN Series("city", c) : c \in {x \in Cities : RegionOf[x] = g}}
  <1>1. \A map, a : DOMAIN Series(map, a) = {k.month : k \in RowsOf(map, a)}
    <2>1. ASSUME NEW map, NEW a PROVE DOMAIN Series(map, a) = {k.month : k \in RowsOf(map, a)}
      <3>1. PICK K : K = RowsOf(map, a) OBVIOUS
      <3>2. DOMAIN Series(map, a) = {Months(K)[k] : k \in K}
        <4>1. IsSeries(Series(map, a), K) BY <3>1, SeriesIs, Zenon
        <4>2. QED BY <4>1, Zenon DEF IsSeries
      <3>3. \A k \in K : Months(K)[k] = k.month BY DEF Months
      <3>4. QED BY <3>1, <3>2, <3>3
    <2>2. QED BY <2>1
  <1>2. RowsOf("region", g) = {k \in HistoryKeys : RegionOf[k.city] = g}
    BY DEF RowsOf, AreaOf
  <1>3. \A c : RowsOf("city", c) = {k \in HistoryKeys : k.city = c} BY DEF RowsOf, AreaOf
  <1>4. ASSUME NEW n \in DOMAIN Series("region", g)
        PROVE  \E c \in Cities : RegionOf[c] = g /\ n \in DOMAIN Series("city", c)
    <2>1. PICK k \in RowsOf("region", g) : n = k.month
      <3>1. n \in {k.month : k \in RowsOf("region", g)} BY <1>1, Zenon
      <3>2. QED BY <3>1
    <2>2. PICK c : c = k.city OBVIOUS
    <2>3. k \in HistoryKeys /\ RegionOf[c] = g BY <1>2, <2>1, <2>2
    <2>4. c \in Cities BY <2>2, <2>3, PastFinite
    <2>5. k \in RowsOf("city", c) BY <1>3, <2>2, <2>3
    <2>6. n \in DOMAIN Series("city", c) BY <1>1, <2>1, <2>5
    <2>7. QED BY <2>3, <2>4, <2>6
  <1>5. ASSUME NEW c \in Cities, RegionOf[c] = g, NEW n \in DOMAIN Series("city", c)
        PROVE  n \in DOMAIN Series("region", g)
    <2>1. PICK k \in RowsOf("city", c) : n = k.month
      <3>1. n \in {k.month : k \in RowsOf("city", c)} BY <1>1, Zenon
      <3>2. QED BY <3>1
    <2>2. k \in HistoryKeys /\ k.city = c BY <1>3, <2>1
    <2>3. k \in RowsOf("region", g) BY <1>2, <1>5, <2>2
    <2>4. QED BY <1>1, <2>1, <2>3
  <1>6. QED BY <1>4, <1>5

LEMMA RegionsHold ==
  ASSUME SalesInv
  PROVE  RegionsAreTheirCities
  <1>1. ASSUME NEW m \in BaseMetrics, NEW map \in {"city", "region"}
        PROVE  MapThenSumSet(LAMBDA a : SumOf(Series(map, a), DOMAIN Series(map, a))[m], Areas(map))
                 = Metric(m, {i \in lines : Day(i) < today})
    <2>1. SumOver(AreaTotals(map, m, Areas(map)), Areas(map)) = Metric(m, Past) BY AreasHold
    <2>2. QED BY <2>1, AreaSum, Zenon DEF Past
  <1>2. QED BY <1>1, RegionMonths, Zenon DEF RegionsAreTheirCities

-----------------------------------------------------------------------------
(* The baseline over all months is the whole series.                       *)

LEMMA AllMonths ==
  ASSUME NEW D, IsFiniteSet(D), D \subseteq Int, NEW M \in Int, M >= Cardinality(D)
  PROVE  D # {} => {n \in D : Cardinality({o \in D : o > n}) < M} = D
  <1>1. ASSUME NEW n \in D PROVE Cardinality({o \in D : o > n}) < M
    <2>1. PICK L : L = {o \in D : o > n} OBVIOUS
    <2>2. L \in SUBSET D /\ n \notin L BY <2>1
    <2>3. L # D BY <2>2
    <2>4. Cardinality(L) <= Cardinality(D) /\ (Cardinality(L) = Cardinality(D) => L = D)
      BY <2>2, FS_Subset
    <2>5. Cardinality(L) \in Nat /\ Cardinality(D) \in Nat
      BY <2>2, FS_Subset, FS_CardinalityType
    <2>6. Cardinality(L) < M BY <2>3, <2>4, <2>5
    <2>7. QED BY <2>1, <2>6
  <1>2. QED BY <1>1

LEMMA MaxWithOne ==
  ASSUME NEW n \in Nat
  PROVE  Max({1, n}) = IF n = 0 THEN 1 ELSE n
  <1>1. PICK g : g = IF n = 0 THEN 1 ELSE n OBVIOUS
  <1>2. \A x \in {1, n} : (\A y \in {1, n} : x >= y) <=> x = g BY <1>1
  <1>3. Max({1, n}) = CHOOSE x \in {1, n} : x = g BY <1>2, Zenon DEF Max
  <1>4. g \in {1, n} BY <1>1
  <1>5. QED BY <1>1, <1>3, <1>4

LEMMA AllFigures ==
  ASSUME SalesInv, NEW map \in {"city", "region"}, NEW a, NEW series, series = Series(map, a)
  PROVE  /\ IsFiniteSet(DOMAIN series) /\ DOMAIN series \subseteq Nat
         /\ \A m \in BaseMetrics :
              /\ Figures(series, m, DOMAIN series)
              /\ SumOf(series, DOMAIN series)[m] \in Int
              /\ SumOf(series, DOMAIN series)[m] >= 0
  <1>1. PICK K \in SUBSET HistoryKeys : K = RowsOf(map, a) BY DEF RowsOf
  <1>2. IsSeries(series, K) BY <1>1, SeriesIs, Zenon
  <1>3. PICK D : D = DOMAIN series OBVIOUS
  <1>4. IsFiniteSet(D) /\ D \subseteq Nat
    <2>1. "sales" \in BaseMetrics BY BaseIs
    <2>2. QED BY <1>2, <1>3, <2>1, SeriesTotal
  <1>5. ASSUME NEW m \in BaseMetrics
        PROVE  Figures(series, m, D) /\ SumOf(series, D)[m] \in Int /\ SumOf(series, D)[m] >= 0
    <2>1. Figures(series, m, D) BY <1>2, <1>3, SeriesTotal
    <2>2. SumOver(Row(series, m, D), D) \in Int /\ SumOver(Row(series, m, D), D) >= 0
      BY <1>4, <2>1, RowTypes
    <2>3. SumOf(series, D)[m] = SumOver(Row(series, m, D), D) BY SumOfIs
    <2>4. QED BY <2>1, <2>2, <2>3
  <1>6. QED BY <1>3, <1>4, <1>5

LEMMA WithProfitIs ==
  ASSUME NEW v
  PROVE  /\ DOMAIN WithProfit(v) = {"quantity", "sales", "cost", "profit"}
         /\ WithProfit(v)["quantity"] = v["quantity"] /\ WithProfit(v)["sales"] = v["sales"]
         /\ WithProfit(v)["cost"] = v["cost"]
         /\ WithProfit(v)["profit"] = v["sales"] - v["cost"]
  BY BaseIs DEF WithProfit

LEMMA Distributes ==
  ASSUME NEW x \in Int, NEW y \in Int, NEW n \in Int
  PROVE  x * n = n * x /\ x * n - y * n = n * (x - y)
  OBVIOUS

LEMMA MeanHolds ==
  ASSUME SalesInv
  PROVE  MeanRepeatsHistory
  <1>1. ASSUME NEW map \in {"city", "region"}, NEW a, NEW series, series = Series(map, a),
               NEW n, n = MonthsIn(series), NEW mean, mean = MeanForecast(series, n),
               NEW m \in DOMAIN mean.values
        PROVE  mean.values[m] = mean.den * Baseline(series, Max({1, n}))[m]
    <2>1. PICK D : D = DOMAIN series OBVIOUS
    <2>2. IsFiniteSet(D) /\ D \subseteq Nat BY <1>1, <2>1, AllFigures
    <2>3. n \in Nat /\ n = Cardinality(D)
      BY <1>1, <2>1, <2>2, FS_CardinalityType DEF MonthsIn
    <2>4. PICK d \in Nat : d = Max({1, n}) /\ d = IF n = 0 THEN 1 ELSE n
      BY <2>3, MaxWithOne
    <2>5. PICK all : all = SumOf(series, D) OBVIOUS
    <2>6. all["quantity"] \in Int /\ all["sales"] \in Int /\ all["cost"] \in Int
      BY <1>1, <2>1, <2>5, AllFigures, BaseIs
    <2>7. {o \in D : Cardinality({p \in D : p > o}) < d} = D
      <3>1. CASE D = {} BY <3>1
      <3>2. CASE D # {}
        <4>1. D \subseteq Int BY <2>2
        <4>2. d \in Int /\ d >= Cardinality(D) BY <2>3, <2>4
        <4>3. QED BY <2>2, <3>2, <4>1, <4>2, AllMonths
      <3>3. QED BY <3>1, <3>2
    <2>8. Baseline(series, d) = WithProfit(all) BY <2>1, <2>5, <2>7, Zenon DEF Baseline
    <2>9. PICK v : v = [x \in BaseMetrics |-> all[x] * n] OBVIOUS
    <2>10. mean = [method |-> "mean", den |-> d, values |-> WithProfit(v)]
      BY <1>1, <2>1, <2>4, <2>5, <2>9, Zenon DEF MeanForecast, MonthsIn
    <2>11. mean.den = d /\ mean.values = WithProfit(v) BY <2>10
    <2>12. /\ v["quantity"] = all["quantity"] * n /\ v["sales"] = all["sales"] * n
           /\ v["cost"] = all["cost"] * n
      BY <2>9, BaseIs
    <2>13. n = 0 => all["quantity"] = 0 /\ all["sales"] = 0 /\ all["cost"] = 0
      <3>1. ASSUME n = 0 PROVE \A x \in BaseMetrics : all[x] = 0
        <4>1. D = {} BY <2>2, <2>3, <3>1, FS_EmptySet
        <4>2. ASSUME NEW x \in BaseMetrics PROVE all[x] = 0
          <5>1. all[x] = SumOver(Row(series, x, D), D) BY <2>5, SumOfIs, Zenon
          <5>2. QED BY <4>1, <5>1, SumEmpty, Zenon
        <4>3. QED BY <4>2
      <3>2. QED BY <3>1, BaseIs
    <2>14. /\ v["quantity"] = d * all["quantity"] /\ v["sales"] = d * all["sales"]
           /\ v["cost"] = d * all["cost"]
           /\ v["sales"] - v["cost"] = d * (all["sales"] - all["cost"])
      <3>1. PICK x, y, z \in Int : x = all["quantity"] /\ y = all["sales"] /\ z = all["cost"]
        BY <2>6
      <3>2. CASE n = 0 BY <2>4, <2>12, <2>13, <3>2
      <3>3. CASE n # 0
        <4>1. d = n BY <2>4, <3>3
        <4>2. /\ x * n = n * x /\ y * n = n * y /\ z * n = n * z
              /\ y * n - z * n = n * (y - z)
          BY <2>3, <3>1, Distributes
        <4>3. QED BY <2>12, <3>1, <4>1, <4>2, Zenon
      <3>4. QED BY <3>2, <3>3
    <2>15. m \in {"quantity", "sales", "cost", "profit"} BY <2>11, WithProfitIs
    <2>16. WithProfit(v)[m] = d * WithProfit(all)[m]
      <3>1. CASE m = "quantity" BY <2>14, <3>1, WithProfitIs
      <3>2. CASE m = "sales" BY <2>14, <3>2, WithProfitIs
      <3>3. CASE m = "cost" BY <2>14, <3>3, WithProfitIs
      <3>4. CASE m = "profit" BY <2>14, <3>4, WithProfitIs
      <3>5. QED BY <2>15, <3>1, <3>2, <3>3, <3>4
    <2>17. QED BY <2>4, <2>8, <2>11, <2>16, Zenon
  <1>2. ASSUME NEW map \in {"city", "region"}, NEW a \in Areas(map),
               NEW m \in DOMAIN MeanForecast(Series(map, a), MonthsIn(Series(map, a))).values
        PROVE  MeanForecast(Series(map, a), MonthsIn(Series(map, a))).values[m]
                 = MeanForecast(Series(map, a), MonthsIn(Series(map, a))).den
                     * Baseline(Series(map, a), Max({1, MonthsIn(Series(map, a))}))[m]
    <2>1. PICK series, n : series = Series(map, a) /\ n = MonthsIn(series) OBVIOUS
    <2>2. PICK mean : mean = MeanForecast(series, n) OBVIOUS
    <2>3. m \in DOMAIN mean.values BY <2>1, <2>2, Zenon
    <2>4. mean.values[m] = mean.den * Baseline(series, Max({1, n}))[m]
      BY <1>1, <2>1, <2>2, <2>3
    <2>5. QED BY <2>1, <2>2, <2>4, Zenon
  <1>3. QED BY <1>2, Zenon DEF MeanRepeatsHistory

-----------------------------------------------------------------------------
(* The months predicted go once round the calendar.                        *)

LEMMA ModIs ==
  ASSUME NEW a \in Int, NEW d \in Nat \ {0}, NEW q \in Int, NEW r \in 0..(d - 1), a = d * q + r
  PROVE  a % d = r
  OBVIOUS

LEMMA DivMod ==
  ASSUME NEW a \in Int, NEW d \in Nat \ {0}
  PROVE  \E q \in Int, r \in 0..(d - 1) : a = d * q + r /\ a % d = r
  <1>1. a = d * (a \div d) + (a % d) OBVIOUS
  <1>2. a % d \in 0..(d - 1) /\ a \div d \in Int OBVIOUS
  <1>3. QED BY <1>1, <1>2

LEMMA MaxExists ==
  ASSUME NEW D, IsFiniteSet(D), D # {}, D \subseteq Int
  PROVE  Max(D) \in D /\ \A x \in D : x <= Max(D)
  <1>1. PICK R : R = {e \in D \X D : e[1] < e[2]} OBVIOUS
  <1>2. \A x, y \in D : <<x, y>> \in R <=> x < y BY <1>1
  <1>3. StrictOrder(R, D) BY <1>2 DEF StrictOrder
  <1>4. D \in SUBSET D OBVIOUS
  <1>5. PICK g \in D : \A x \in D : x # g => <<x, g>> \in R BY <1>3, <1>4, LastExists
  <1>6. ASSUME NEW x \in D PROVE x <= g
    <2>1. x \in Int /\ g \in Int OBVIOUS
    <2>2. CASE x = g BY <2>1, <2>2
    <2>3. CASE x # g
      <3>1. <<x, g>> \in R BY <1>5, <2>3
      <3>2. x < g BY <1>2, <3>1
      <3>3. QED BY <2>1, <3>2
    <2>4. QED BY <2>2, <2>3
  <1>7. \A x \in D : (\A y \in D : x >= y) <=> x = g BY <1>6
  <1>8. Max(D) = CHOOSE x \in D : x = g BY <1>7, Zenon DEF Max
  <1>9. Max(D) = g BY <1>8
  <1>10. QED BY <1>6, <1>9

LEMMA MonthIsReached ==
  ASSUME NEW M \in Nat \ {0}, NEW last \in Int, NEW v \in 0..(M - 1)
  PROVE  \E h \in 1..M : (last + h) % M = v
  <1>1. PICK q \in Int, r \in 0..(M - 1) : v - last = M * q + r
    <2>1. PICK a \in Int : a = v - last OBVIOUS
    <2>2. QED BY <2>1, DivMod
  <1>2. CASE r = 0
    <2>1. PICK p \in Int : p = 1 - q OBVIOUS
    <2>2. M * p = M - M * q BY <2>1
    <2>3. last + M = M * p + v BY <1>1, <1>2, <2>2
    <2>4. PICK a \in Int : a = last + M OBVIOUS
    <2>5. a % M = v BY <2>3, <2>4, ModIs
    <2>6. QED BY <2>4, <2>5
  <1>3. CASE r # 0
    <2>1. PICK p \in Int : p = -q OBVIOUS
    <2>2. M * p = -(M * q) BY <2>1
    <2>3. last + r = M * p + v BY <1>1, <2>2
    <2>4. PICK a \in Int : a = last + r OBVIOUS
    <2>5. a % M = v BY <2>3, <2>4, ModIs
    <2>6. (last + r) % M = v BY <2>4, <2>5, Zenon
    <2>7. r \in 1..M BY <1>3
    <2>8. QED BY <2>6, <2>7, Zenon
  <1>4. QED BY <1>2, <1>3

LEMMA MonthsHold ==
  ASSUME SalesInv
  PROVE  MonthsFollow
  <1>1. PICK M \in Nat \ {0} : M = MonthsPerYear BY SalesAssumption
  <1>2. ASSUME NEW a \in Cities, NEW series, series = Series("city", a), DOMAIN series # {},
               NEW year, year = PredictedMonths(series, MonthsPerYear)
        PROVE  /\ ToSet(year) = 1..MonthsPerYear
               /\ \A i \in lines : MonthIndex(YearOf(Day(i)), MonthOf(Day(i))) = Max(DOMAIN series)
                    => Last(year) = MonthOf(Day(i))
    <2>1. PICK last : last = Max(DOMAIN series) OBVIOUS
    <2>2. last \in Nat
      <3>1. IsFiniteSet(DOMAIN series) /\ DOMAIN series \subseteq Nat BY <1>2, AllFigures
      <3>2. DOMAIN series \subseteq Int BY <3>1
      <3>3. Max(DOMAIN series) \in DOMAIN series BY <1>2, <3>1, <3>2, MaxExists
      <3>4. QED BY <2>1, <3>1, <3>3
    <2>3. year = [h \in 1..M |-> ((last + h) % M) + 1]
      BY <1>1, <1>2, <2>1, Zenon DEF PredictedMonths
    <2>4. \A h \in 1..M : (last + h) % M \in 0..(M - 1) BY <2>2
    <2>5. ToSet(year) = 1..M
      <3>1. ToSet(year) = {year[h] : h \in 1..M} BY <2>3 DEF ToSet
      <3>2. ASSUME NEW h \in 1..M PROVE year[h] \in 1..M BY <2>3, <2>4
      <3>3. ASSUME NEW w \in 1..M PROVE \E h \in 1..M : year[h] = w
        <4>1. PICK v \in 0..(M - 1) : v = w - 1 OBVIOUS
        <4>2. PICK h \in 1..M : (last + h) % M = v
          <5>1. last \in Int BY <2>2
          <5>2. QED BY <5>1, MonthIsReached
        <4>3. year[h] = w BY <2>3, <4>1, <4>2
        <4>4. QED BY <4>3
      <3>4. QED BY <3>1, <3>2, <3>3
    <2>6. ASSUME NEW i \in lines, MonthIndex(YearOf(Day(i)), MonthOf(Day(i))) = last
          PROVE  Last(year) = MonthOf(Day(i))
      <3>1. PICK y \in Nat, n \in 1..M : y = YearOf(Day(i)) /\ n = MonthOf(Day(i))
        BY <1>1, MonthTypes
      <3>2. last = y * M + (n - 1) BY <1>1, <2>6, <3>1, Zenon DEF MonthIndex
      <3>3. PICK q \in Int : q = y + 1 OBVIOUS
      <3>4. M * q = y * M + M BY <3>3
      <3>5. PICK r \in 0..(M - 1) : r = n - 1 OBVIOUS
      <3>6. PICK b \in Int : b = last + M BY <2>2
      <3>7. b = M * q + r
        <4>1. PICK z \in Int : z = y * M OBVIOUS
        <4>2. last = z + (n - 1) BY <3>2, <4>1, Zenon
        <4>3. M * q = z + M BY <3>4, <4>1, Zenon
        <4>4. PICK w \in Int : w = M * q OBVIOUS
        <4>5. w = z + M BY <4>3, <4>4
        <4>6. b = w + r BY <3>5, <3>6, <4>2, <4>5
        <4>7. QED BY <4>4, <4>6, Zenon
      <3>8. b % M = r BY <3>7, ModIs
      <3>9. M \in 1..M /\ Len(year) = M /\ year \in Seq(Int) BY <2>3, <2>4
      <3>10. Last(year) = year[M] BY <3>9 DEF Last
      <3>11. year[M] = ((last + M) % M) + 1 BY <2>3, <3>9
      <3>12. QED BY <3>1, <3>5, <3>6, <3>8, <3>10, <3>11
    <2>7. QED BY <1>1, <2>1, <2>5, <2>6, Zenon
  <1>3. ASSUME NEW a \in Cities, DOMAIN Series("city", a) # {}
        PROVE  /\ ToSet(PredictedMonths(Series("city", a), MonthsPerYear)) = 1..MonthsPerYear
               /\ \A i \in lines :
                    MonthIndex(YearOf(Day(i)), MonthOf(Day(i))) = Max(DOMAIN Series("city", a))
                      => Last(PredictedMonths(Series("city", a), MonthsPerYear)) = MonthOf(Day(i))
    <2>1. PICK series : series = Series("city", a) OBVIOUS
    <2>2. PICK year : year = PredictedMonths(series, MonthsPerYear) OBVIOUS
    <2>3. DOMAIN series # {} BY <1>3, <2>1, Zenon
    <2>4. /\ ToSet(year) = 1..MonthsPerYear
          /\ \A i \in lines : MonthIndex(YearOf(Day(i)), MonthOf(Day(i))) = Max(DOMAIN series)
               => Last(year) = MonthOf(Day(i))
      BY <1>2, <2>1, <2>2, <2>3
    <2>5. QED BY <2>1, <2>2, <2>4, Zenon
  <1>4. QED BY <1>3, Zenon DEF MonthsFollow

-----------------------------------------------------------------------------
(* The revenue a discount touches.                                         *)

SoldIn(c) == {i \in lines : CategoryOf[i.product] = c}
SoldOf(p) == {i \in lines : i.product = p}
ShareOf(S) == (IF Sales(lines) = 0 THEN <<0, 1>> ELSE <<Sales(S), Sales(lines)>>)[1]

LEMMA ShareIs ==
  ASSUME SalesInv, NEW S \in SUBSET lines
  PROVE  ShareOf(S) = Sales(S)
  <1>1. CASE Sales(lines) = 0
    <2>1. lines \in SUBSET lines OBVIOUS
    <2>2. lines = {} BY <1>1, <2>1, SalesZero
    <2>3. S = {} BY <2>2
    <2>4. Sales(S) = 0 BY <2>3, SalesZero
    <2>5. QED BY <1>1, <2>4 DEF ShareOf
  <1>2. CASE Sales(lines) # 0 BY <1>2 DEF ShareOf
  <1>3. QED BY <1>1, <1>2

CategoryShare(c) == ShareOf(SoldIn(c))
ProductShare(p) == ShareOf(SoldOf(p))
CategoryShares(K) == [c \in K |-> CategoryShare(c)]
ProductShares(K) == [p \in K |-> ProductShare(p)]

LEMMA CategoryShareSum ==
  \A K : MapThenSumSet(LAMBDA c : CategoryShare(c), K) = SumOver(CategoryShares(K), K)
  <1> TAKE K
  <1> DEFINE Adds(g) == g = [s \in SUBSET K |-> IF s = {} THEN 0
                                 ELSE CategoryShare(Chosen(s)) + g[s \ {Chosen(s)}]]
  <1>1. MapThenSumSet(LAMBDA c : CategoryShare(c), K) = (CHOOSE g : Adds(g))[K]
    BY Zenon DEF MapThenSumSet, MapThenFoldSet, Chosen
  <1>2. ASSUME NEW g PROVE Adds(g) <=> Unfolds(g, CategoryShares(K), K)
    <2>1. ASSUME NEW s \in SUBSET K
          PROVE  (IF s = {} THEN 0 ELSE CategoryShare(Chosen(s)) + g[s \ {Chosen(s)}])
                   = (IF s = {} THEN 0 ELSE CategoryShares(K)[Chosen(s)] + g[s \ {Chosen(s)}])
      <3>1. CASE s = {} BY <3>1, Zenon
      <3>2. CASE s # {}
        <4>1. PICK c \in K : c = Chosen(s) BY <3>2, ChosenIn
        <4>2. CategoryShares(K)[c] = CategoryShare(c) BY Zenon DEF CategoryShares
        <4>3. QED BY <4>1, <4>2, Zenon
      <3>3. QED BY <3>1, <3>2
    <2>2. [s \in SUBSET K |-> IF s = {} THEN 0 ELSE CategoryShare(Chosen(s)) + g[s \ {Chosen(s)}]]
            = [s \in SUBSET K |->
                 IF s = {} THEN 0 ELSE CategoryShares(K)[Chosen(s)] + g[s \ {Chosen(s)}]]
      BY <2>1, Zenon
    <2>3. QED BY <2>2, Zenon DEF Unfolds
  <1> HIDE DEF Adds
  <1>3. (CHOOSE g : Adds(g)) = (CHOOSE g : Unfolds(g, CategoryShares(K), K)) BY <1>2, Zenon
  <1>4. QED BY <1>1, <1>3, SumUnfolds, Zenon

LEMMA ProductShareSum ==
  \A K : MapThenSumSet(LAMBDA p : ProductShare(p), K) = SumOver(ProductShares(K), K)
  <1> TAKE K
  <1> DEFINE Adds(g) == g = [s \in SUBSET K |-> IF s = {} THEN 0
                                 ELSE ProductShare(Chosen(s)) + g[s \ {Chosen(s)}]]
  <1>1. MapThenSumSet(LAMBDA p : ProductShare(p), K) = (CHOOSE g : Adds(g))[K]
    BY Zenon DEF MapThenSumSet, MapThenFoldSet, Chosen
  <1>2. ASSUME NEW g PROVE Adds(g) <=> Unfolds(g, ProductShares(K), K)
    <2>1. ASSUME NEW s \in SUBSET K
          PROVE  (IF s = {} THEN 0 ELSE ProductShare(Chosen(s)) + g[s \ {Chosen(s)}])
                   = (IF s = {} THEN 0 ELSE ProductShares(K)[Chosen(s)] + g[s \ {Chosen(s)}])
      <3>1. CASE s = {} BY <3>1, Zenon
      <3>2. CASE s # {}
        <4>1. PICK p \in K : p = Chosen(s) BY <3>2, ChosenIn
        <4>2. ProductShares(K)[p] = ProductShare(p) BY Zenon DEF ProductShares
        <4>3. QED BY <4>1, <4>2, Zenon
      <3>3. QED BY <3>1, <3>2
    <2>2. [s \in SUBSET K |-> IF s = {} THEN 0 ELSE ProductShare(Chosen(s)) + g[s \ {Chosen(s)}]]
            = [s \in SUBSET K |->
                 IF s = {} THEN 0 ELSE ProductShares(K)[Chosen(s)] + g[s \ {Chosen(s)}]]
      BY <2>1, Zenon
    <2>3. QED BY <2>2, Zenon DEF Unfolds
  <1> HIDE DEF Adds
  <1>3. (CHOOSE g : Adds(g)) = (CHOOSE g : Unfolds(g, ProductShares(K), K)) BY <1>2, Zenon
  <1>4. QED BY <1>1, <1>3, SumUnfolds, Zenon

\* Shares by a key of the lines add up to what the lines sold.
LEMMA SharesOf ==
  ASSUME SalesInv, NEW S \in SUBSET lines, NEW K, IsFiniteSet(K), NEW key,
         \A i \in S : key[i] \in K, NEW g,
         \A k \in K : g[k] = Sales(Group(S, key, k))
  PROVE  SumOver(g, K) = Sales(S)
  <1>1. IsFiniteSet(S) BY FS_Subset DEF SalesInv
  <1>2. \A i \in S : i["price"] \in Int BY LineIntegers
  <1>3. ASSUME NEW k \in K
        PROVE  g[k] = SumOver(Column("price", Group(S, key, k)), Group(S, key, k))
    BY SalesSum, Zenon
  <1>4. SumOver(g, K) = SumOver(Column("price", S), S) BY <1>1, <1>2, <1>3, ColumnGroups
  <1>5. QED BY <1>4, SalesSum, Zenon

LEMMA SharesHold ==
  ASSUME SalesInv
  PROVE  /\ MapThenSumSet(LAMBDA c : CategoryShare(c), {CategoryOf[p] : p \in Products})
              = Sales(lines)
         /\ \A c \in {CategoryOf[p] : p \in Products} :
              CategoryShare(c) = MapThenSumSet(LAMBDA p : ProductShare(p),
                                               {p \in Products : CategoryOf[p] = c})
  <1>1. PICK C : C = {CategoryOf[p] : p \in Products} OBVIOUS
  <1>2. IsFiniteSet(Products) BY SalesAssumption
  <1>3. IsFiniteSet(C) BY <1>1, <1>2, ImageFinite
  <1>4. \A i \in lines : i.product \in Products BY LineTypes
  <1>5. ASSUME NEW c PROVE CategoryShare(c) = Sales(SoldIn(c))
    <2>1. SoldIn(c) \in SUBSET lines BY DEF SoldIn
    <2>2. QED BY <2>1, ShareIs DEF CategoryShare
  <1>6. ASSUME NEW p PROVE ProductShare(p) = Sales(SoldOf(p))
    <2>1. SoldOf(p) \in SUBSET lines BY DEF SoldOf
    <2>2. QED BY <2>1, ShareIs DEF ProductShare
  <1>7. SumOver(CategoryShares(C), C) = Sales(lines)
    <2>1. PICK key : key = [i \in lines |-> CategoryOf[i.product]] OBVIOUS
    <2>2. PICK g : g = CategoryShares(C) OBVIOUS
    <2>3. \A i \in lines : key[i] \in C BY <1>1, <1>4, <2>1
    <2>4. ASSUME NEW c \in C PROVE g[c] = Sales(Group(lines, key, c))
      <3>1. g[c] = CategoryShare(c) BY <2>2, Zenon DEF CategoryShares
      <3>2. SoldIn(c) = Group(lines, key, c) BY <2>1 DEF SoldIn, Group
      <3>3. QED BY <1>5, <3>1, <3>2, Zenon
    <2>5. lines \in SUBSET lines OBVIOUS
    <2>6. QED BY <1>3, <2>2, <2>3, <2>4, <2>5, SharesOf
  <1>8. ASSUME NEW c \in C, NEW P, P = {p \in Products : CategoryOf[p] = c}
        PROVE  SumOver(ProductShares(P), P) = CategoryShare(c)
    <2>1. PICK S \in SUBSET lines : S = SoldIn(c) BY DEF SoldIn
    <2>2. PICK key : key = [i \in S |-> i.product] OBVIOUS
    <2>3. PICK g : g = ProductShares(P) OBVIOUS
    <2>4. IsFiniteSet(P) BY <1>2, <1>8, FS_Subset
    <2>5. \A i \in S : key[i] = i.product /\ key[i] \in P BY <1>4, <1>8, <2>1, <2>2 DEF SoldIn
    <2>6. ASSUME NEW p \in P PROVE g[p] = Sales(Group(S, key, p))
      <3>1. g[p] = ProductShare(p) BY <2>3, Zenon DEF ProductShares
      <3>2. SoldOf(p) = Group(S, key, p) BY <1>8, <2>1, <2>5 DEF SoldOf, SoldIn, Group
      <3>3. QED BY <1>6, <3>1, <3>2, Zenon
    <2>7. \A i \in S : key[i] \in P BY <2>5
    <2>8. SumOver(g, P) = Sales(S) BY <2>4, <2>6, <2>7, SharesOf
    <2>9. QED BY <1>5, <2>1, <2>3, <2>8, Zenon
  <1>9. MapThenSumSet(LAMBDA c : CategoryShare(c), C) = Sales(lines)
    BY <1>7, CategoryShareSum, Zenon
  <1>10. ASSUME NEW c \in C
         PROVE  CategoryShare(c) = MapThenSumSet(LAMBDA p : ProductShare(p),
                                                 {p \in Products : CategoryOf[p] = c})
    BY <1>8, ProductShareSum, Zenon
  <1>11. QED BY <1>1, <1>9, <1>10, Zenon

LEMMA SharesAddUpHolds ==
  ASSUME SalesInv
  PROVE  SharesAddUp
  BY SharesHold, Zenon
     DEF SharesAddUp, DiscountShare, CategoryShare, ProductShare, ShareOf, SoldIn, SoldOf

-----------------------------------------------------------------------------
(* The simulation and the changes.                                         *)

LEMMA MaxWithZero ==
  ASSUME NEW x \in Int
  PROVE  Max({0, x}) = IF x >= 0 THEN x ELSE 0
  <1>1. PICK g : g = IF x >= 0 THEN x ELSE 0 OBVIOUS
  <1>2. \A w \in {0, x} : (\A y \in {0, x} : w >= y) <=> w = g BY <1>1
  <1>3. Max({0, x}) = CHOOSE w \in {0, x} : w = g BY <1>2, Zenon DEF Max
  <1>4. g \in {0, x} BY <1>1
  <1>5. QED BY <1>1, <1>3, <1>4

LEMMA Unchanged ==
  ASSUME NEW v \in Nat, NEW d \in Nat
  PROVE  /\ v * (10 * d) * 10 * 100 = (10 * d) * 10 * 100 * v
         /\ (10 * d) * 10 * 100 * v \in Nat
  OBVIOUS

LEMMA Lifted ==
  ASSUME NEW v \in Nat, NEW d \in Nat, NEW t \in Nat
  PROVE  v * (10 * d + 3 * t - t) * 10 * 100 >= (10 * d) * 10 * 100 * v
  OBVIOUS

LEMMA ScaleDistributes ==
  ASSUME NEW k \in Int, NEW x \in Int, NEW y \in Int
  PROVE  k * x - k * y = k * (x - y)
  OBVIOUS

Four == {"quantity", "sales", "cost", "profit"}
Values(v) ==
  /\ v["quantity"] \in Nat /\ v["sales"] \in Nat /\ v["cost"] \in Nat
  /\ v["profit"] = v["sales"] - v["cost"]
Fraction(share) == share[1] \in Nat /\ share[2] \in Nat \ {0}

LEMMA SimulationHolds ==
  ASSUME NEW v, Values(v), NEW s \in Simulations, NEW share, Fraction(share),
         NEW result, result = ApplySimulation(v, s, share)
  PROVE  /\ DOMAIN result = Four /\ \A m \in Four : result[m] \in Int
         /\ result.profit = result.sales - result.cost
         /\ s.discount = 0 /\ s.cost = 0 /\ s.power = 0 =>
              \A m \in Four : result[m] = Scale(share) * v[m]
         /\ s.discount > 0 /\ s.power = 0 => result.sales >= Scale(share) * v["sales"]
  <1>1. s.discount \in Nat /\ s.cost \in Int /\ s.power \in Int
    <2>1. s.discount \in 0..9 /\ s.cost \in -9..20 /\ s.power \in -9..20
      BY ForecastAssumption
    <2>2. QED BY <2>1
  <1>2. PICK a, b, c \in Nat : a = v["quantity"] /\ b = v["sales"] /\ c = v["cost"]
    BY DEF Values
  <1>3. PICK d \in Nat \ {0} : d = share[2] BY DEF Fraction
  <1>4. PICK t \in Nat : t = s.discount * share[1] /\ (s.discount = 0 => t = 0)
    <2>1. PICK e, f \in Nat : e = s.discount /\ f = share[1] BY <1>1 DEF Fraction
    <2>2. e * f \in Nat /\ (e = 0 => e * f = 0) OBVIOUS
    <2>3. QED BY <2>1, <2>2
  <1>5. PICK volume, power \in Int : volume = 10 * d + 3 * t /\ power = 100 + 8 * s.power
    BY <1>1
  <1>6. PICK q : q = a * volume * 10 * power OBVIOUS
  <1>7. PICK x : x = b * (volume - t) * 10 * power OBVIOUS
  <1>8. PICK y : y = c * volume * (10 + s.cost) * power OBVIOUS
  <1>9. q \in Int /\ x \in Int /\ y \in Int
    <2>1. PICK k \in Int : k = 10 + s.cost BY <1>1
    <2>2. c * volume * k * power \in Int OBVIOUS
    <2>3. q \in Int BY <1>6
    <2>4. x \in Int BY <1>7
    <2>5. y \in Int BY <1>8, <2>1, <2>2
    <2>6. QED BY <2>3, <2>4, <2>5
  <1>10. result = [quantity |-> Max({0, q}), sales |-> Max({0, x}), cost |-> Max({0, y}),
                   profit |-> Max({0, x}) - Max({0, y})]
    BY <1>2, <1>3, <1>4, <1>5, <1>6, <1>7, <1>8, Zenon DEF ApplySimulation
  <1>11. PICK Q, X, Y \in Int :
           /\ Q = Max({0, q}) /\ (q >= 0 => Q = q)
           /\ X = Max({0, x}) /\ (x >= 0 => X = x)
           /\ Y = Max({0, y}) /\ (y >= 0 => Y = y)
    <2>1. Max({0, q}) = IF q >= 0 THEN q ELSE 0 BY <1>9, MaxWithZero
    <2>2. Max({0, x}) = IF x >= 0 THEN x ELSE 0 BY <1>9, MaxWithZero
    <2>3. Max({0, y}) = IF y >= 0 THEN y ELSE 0 BY <1>9, MaxWithZero
    <2>4. QED BY <1>9, <2>1, <2>2, <2>3
  <1>12. result = [quantity |-> Q, sales |-> X, cost |-> Y, profit |-> X - Y]
    BY <1>10, <1>11, Zenon
  <1>13. DOMAIN result = Four /\ result["quantity"] = Q /\ result["sales"] = X
           /\ result["cost"] = Y /\ result["profit"] = X - Y
    BY <1>12 DEF Four
  <1>14. \A m \in Four : result[m] \in Int BY <1>13 DEF Four
  <1>15. PICK k \in Int : k = Scale(share) /\ k = (10 * d) * 10 * 100
    <2>1. Scale(share) = (10 * d) * 10 * 100 BY <1>3, Zenon DEF Scale
    <2>2. (10 * d) * 10 * 100 \in Int OBVIOUS
    <2>3. QED BY <2>1, <2>2
  <1>16. ASSUME s.discount = 0, s.cost = 0, s.power = 0
         PROVE  \A m \in Four : result[m] = k * v[m]
    <2>1. t = 0 /\ volume = 10 * d /\ power = 100 /\ volume - t = volume /\ 10 + s.cost = 10
      BY <1>4, <1>5, <1>16
    <2>2. q = a * (10 * d) * 10 * 100 /\ x = b * (10 * d) * 10 * 100 /\ y = c * (10 * d) * 10 * 100
      BY <1>6, <1>7, <1>8, <2>1
    <2>3. q = k * a /\ k * a \in Nat BY <1>15, <2>2, Unchanged
    <2>4. x = k * b /\ k * b \in Nat BY <1>15, <2>2, Unchanged
    <2>5. y = k * c /\ k * c \in Nat BY <1>15, <2>2, Unchanged
    <2>6. Q = k * a /\ X = k * b /\ Y = k * c
      <3>1. q >= 0 /\ x >= 0 /\ y >= 0 BY <2>3, <2>4, <2>5
      <3>2. QED BY <1>11, <2>3, <2>4, <2>5, <3>1
    <2>7. X - Y = k * (b - c)
      <3>1. k * b - k * c = k * (b - c) BY ScaleDistributes
      <3>2. QED BY <2>6, <3>1, Zenon
    <2>8. v["profit"] = b - c BY <1>2 DEF Values
    <2>9. result["quantity"] = k * v["quantity"] BY <1>2, <1>13, <2>6, Zenon
    <2>10. result["sales"] = k * v["sales"] BY <1>2, <1>13, <2>6, Zenon
    <2>11. result["cost"] = k * v["cost"] BY <1>2, <1>13, <2>6, Zenon
    <2>12. result["profit"] = k * v["profit"] BY <1>13, <2>7, <2>8, Zenon
    <2>13. QED BY <2>9, <2>10, <2>11, <2>12, Zenon DEF Four
  <1>17. ASSUME s.power = 0 PROVE result["sales"] >= k * v["sales"]
    <2>1. power = 100 /\ volume - t = 10 * d + 3 * t - t BY <1>5, <1>17
    <2>2. x = b * (10 * d + 3 * t - t) * 10 * 100 BY <1>7, <2>1, Zenon
    <2>3. x >= (10 * d) * 10 * 100 * b BY <2>2, Lifted
    <2>4. x >= k * b BY <1>15, <2>3, Zenon
    <2>5. k * b \in Nat BY <1>15, Unchanged
    <2>6. X >= k * b BY <1>9, <1>11, <2>4, <2>5
    <2>7. QED BY <1>2, <1>13, <2>6, Zenon
  <1>18. QED BY <1>13, <1>14, <1>15, <1>16, <1>17

LEMMA SharesAreFractions ==
  ASSUME SalesInv, NEW S \in SUBSET lines
  PROVE  Fraction(IF Sales(lines) = 0 THEN <<0, 1>> ELSE <<Sales(S), Sales(lines)>>)
  <1>1. ASSUME NEW T \in SUBSET lines PROVE Sales(T) \in Nat
    <2>1. PICK f : f = Column("price", T) OBVIOUS
    <2>2. IsFiniteSet(T) BY FS_Subset DEF SalesInv
    <2>3. \A i \in T : f[i] \in Int /\ f[i] >= 0
      <3>1. \A i \in T : i.price \in Nat BY LineTypes
      <3>2. QED BY <2>1, <3>1 DEF Column
    <2>4. SumOver(f, T) \in Int /\ SumOver(f, T) >= 0 BY <2>2, <2>3, SumType, SumNatural
    <2>5. Sales(T) = SumOver(f, T) BY <2>1, SalesSum, Zenon
    <2>6. QED BY <2>4, <2>5
  <1>2. Sales(S) \in Nat /\ Sales(lines) \in Nat BY <1>1
  <1>3. QED BY <1>2 DEF Fraction

LEMMA BaselineTypes ==
  ASSUME SalesInv, NEW c \in Cities, NEW series, series = Series("city", c), NEW months
  PROVE  \A m \in Four : Baseline(series, months)[m] \in Int
  <1>1. PICK D : D = DOMAIN series OBVIOUS
  <1>2. PICK S \in SUBSET D : S = {n \in D : Cardinality({o \in D : o > n}) < months} OBVIOUS
  <1>3. PICK v : v = SumOf(series, S) OBVIOUS
  <1>4. Baseline(series, months) = WithProfit(v) BY <1>1, <1>2, <1>3, Zenon DEF Baseline
  <1>5. ASSUME NEW m \in BaseMetrics PROVE v[m] \in Int
    <2>1. Figures(series, m, D) /\ IsFiniteSet(D) BY <1>1, AllFigures
    <2>2. IsFiniteSet(S) /\ Figures(series, m, S) BY <2>1, FS_Subset DEF Figures
    <2>3. SumOver(Row(series, m, S), S) \in Int BY <2>2, RowTypes
    <2>4. QED BY <1>3, <2>3, SumOfIs
  <1>6. v["quantity"] \in Int /\ v["sales"] \in Int /\ v["cost"] \in Int BY <1>5, BaseIs
  <1>7. ASSUME NEW m \in Four PROVE WithProfit(v)[m] \in Int
    <2>1. CASE m = "quantity" BY <1>6, <2>1, WithProfitIs
    <2>2. CASE m = "sales" BY <1>6, <2>2, WithProfitIs
    <2>3. CASE m = "cost" BY <1>6, <2>3, WithProfitIs
    <2>4. CASE m = "profit" BY <1>6, <2>4, WithProfitIs
    <2>5. QED BY <2>1, <2>2, <2>3, <2>4 DEF Four
  <1>8. QED BY <1>4, <1>7, Zenon

LEMMA ForecastTypes ==
  ASSUME SalesInv, NEW c \in Cities, NEW series, series = Series("city", c),
         NEW months \in Nat, NEW forecast \in ForecastArea(series, months)
  PROVE  Values(forecast.values) /\ forecast.den \in Nat \ {0}
  <1>1. CASE forecast = MeanForecast(series, months)
    <2>1. PICK all : all = SumOf(series, DOMAIN series) OBVIOUS
    <2>2. PICK n \in Nat : n = MonthsIn(series)
      BY AllFigures, FS_CardinalityType DEF MonthsIn
    <2>3. PICK v : v = [x \in BaseMetrics |-> all[x] * months] OBVIOUS
    <2>4. forecast = [method |-> "mean", den |-> Max({1, n}), values |-> WithProfit(v)]
      BY <1>1, <2>1, <2>2, <2>3, Zenon DEF MeanForecast
    <2>5. forecast.den = Max({1, n}) /\ forecast.values = WithProfit(v) BY <2>4
    <2>6. Max({1, n}) \in Nat \ {0} BY MaxWithOne
    <2>7. ASSUME NEW m \in BaseMetrics PROVE v[m] \in Nat
      <3>1. all[m] \in Int /\ all[m] >= 0 BY <2>1, AllFigures
      <3>2. PICK z \in Nat : z = all[m] BY <3>1
      <3>3. z * months \in Nat OBVIOUS
      <3>4. v[m] = z * months BY <2>3, <3>2, Zenon
      <3>5. QED BY <3>3, <3>4
    <2>8. v["quantity"] \in Nat /\ v["sales"] \in Nat /\ v["cost"] \in Nat BY <2>7, BaseIs
    <2>9. Values(WithProfit(v)) BY <2>8, WithProfitIs DEF Values
    <2>10. QED BY <2>5, <2>6, <2>9, Zenon
  <1>2. CASE \E fit \in Fitted : forecast = Regression(fit)
    <2>1. PICK fit \in Fitted : forecast = Regression(fit) BY <1>2
    <2>2. fit \in [quantity : Nat, sales : Nat, cost : Nat] BY ForecastAssumption
    <2>3. fit["quantity"] \in Nat /\ fit["sales"] \in Nat /\ fit["cost"] \in Nat BY <2>2
    <2>4. Values(WithProfit(fit)) BY <2>3, WithProfitIs DEF Values
    <2>5. forecast.den = 1 /\ forecast.values = WithProfit(fit) BY <2>1 DEF Regression
    <2>6. QED BY <2>4, <2>5
  <1>3. forecast = MeanForecast(series, months) \/ \E fit \in Fitted : forecast = Regression(fit)
    BY DEF ForecastArea
  <1>4. QED BY <1>1, <1>2, <1>3

LEMMA ChangeSigned ==
  ASSUME NEW r \in Int, NEW k \in Int, k > 0, NEW b \in Int, NEW change,
         change = ChangePct(r, k * b)
  PROVE  /\ change = <<>> <=> b = 0
         /\ change # <<>> => (change[1] > 0 <=> r > k * b)
  <1>1. PICK z \in Int : z = k * b OBVIOUS
  <1>2. z = 0 <=> b = 0 BY <1>1
  <1>3. change = IF z = 0 THEN <<>> ELSE <<r - z, IF z < 0 THEN -z ELSE z>>
    BY <1>1, Zenon DEF ChangePct
  <1>4. change = <<>> <=> z = 0 BY <1>3
  <1>5. z # 0 => change[1] = r - z BY <1>3
  <1>6. change # <<>> => (change[1] > 0 <=> r > z) BY <1>4, <1>5
  <1>7. QED BY <1>1, <1>2, <1>4, <1>6, Zenon

LEMMA ScalePositive ==
  ASSUME NEW share, Fraction(share), NEW den \in Nat \ {0}
  PROVE  Scale(share) * den \in Int /\ Scale(share) * den > 0
  <1>1. PICK d \in Nat \ {0} : d = share[2] BY DEF Fraction
  <1>2. PICK k \in Nat \ {0} : k = Scale(share)
    <2>1. Scale(share) = (10 * d) * 10 * 100 BY <1>1, Zenon DEF Scale
    <2>2. (10 * d) * 10 * 100 \in Nat \ {0} OBVIOUS
    <2>3. QED BY <2>1, <2>2
  <1>3. k * den \in Int /\ k * den > 0 OBVIOUS
  <1>4. QED BY <1>2, <1>3, Zenon

\* A simulated forecast against its baseline.
LEMMA SignedHolds ==
  ASSUME NEW forecast, Values(forecast.values), forecast.den \in Nat \ {0},
         NEW baseline, \A m \in Four : baseline[m] \in Int,
         NEW s \in Simulations, NEW share, Fraction(share)
  PROVE  Signed(forecast, baseline, s, share)
  <1>1. PICK v : v = forecast.values OBVIOUS
  <1>2. PICK result : result = ApplySimulation(v, s, share) OBVIOUS
  <1>3. PICK k \in Int : k = Scale(share) * forecast.den /\ k > 0 BY ScalePositive
  <1>4. Values(v) BY <1>1
  <1>5. /\ DOMAIN result = Four /\ \A m \in Four : result[m] \in Int
        /\ result.profit = result.sales - result.cost
        /\ s.discount = 0 /\ s.cost = 0 /\ s.power = 0 =>
             \A m \in Four : result[m] = Scale(share) * v[m]
        /\ s.discount > 0 /\ s.power = 0 => result.sales >= Scale(share) * v["sales"]
    BY <1>2, <1>4, SimulationHolds
  <1>6. ASSUME NEW m \in DOMAIN result
        PROVE  /\ ChangePct(result[m], k * baseline[m]) = <<>> <=> baseline[m] = 0
               /\ ChangePct(result[m], k * baseline[m]) # <<>> =>
                    (ChangePct(result[m], k * baseline[m])[1] > 0 <=> result[m] > k * baseline[m])
    <2>1. PICK r, b \in Int : r = result[m] /\ b = baseline[m] BY <1>5
    <2>2. PICK change : change = ChangePct(r, k * b) OBVIOUS
    <2>3. /\ change = <<>> <=> b = 0
          /\ change # <<>> => (change[1] > 0 <=> r > k * b)
      BY <1>3, <2>2, ChangeSigned
    <2>4. QED BY <2>1, <2>2, <2>3, Zenon
  <1>7. QED BY <1>1, <1>2, <1>3, <1>5, <1>6, Zenon DEF Signed

LEMMA ChangesHold ==
  ASSUME SalesInv
  PROVE  ChangesHaveTheirSign
  <1>1. Fraction(AllDiscounted) BY DEF Fraction, AllDiscounted
  <1>2. ASSUME NEW p PROVE Fraction(DiscountShare(LAMBDA i : i.product = p))
    <2>1. SoldOf(p) \in SUBSET lines BY DEF SoldOf
    <2>2. Fraction(IF Sales(lines) = 0 THEN <<0, 1>> ELSE <<Sales(SoldOf(p)), Sales(lines)>>)
      BY <2>1, SharesAreFractions
    <2>3. QED BY <2>2, Zenon DEF DiscountShare, SoldOf
  <1>3. ASSUME NEW share \in Shares PROVE Fraction(share)
    BY <1>1, <1>2, Zenon DEF Shares, DiscountShare
  <1>4. ASSUME NEW a \in Cities, NEW months \in Horizons, NEW s \in Simulations,
               NEW share, Fraction(share), NEW forecast \in ForecastArea(Series("city", a), months)
        PROVE  Signed(forecast, Baseline(Series("city", a), months), s, share)
    <2>1. PICK series : series = Series("city", a) OBVIOUS
    <2>2. PICK n \in Nat : n = months BY ForecastAssumption
    <2>3. forecast \in ForecastArea(series, n) BY <2>1, <2>2, Zenon
    <2>4. Values(forecast.values) /\ forecast.den \in Nat \ {0} BY <2>1, <2>3, ForecastTypes
    <2>5. PICK baseline : baseline = Baseline(series, n) OBVIOUS
    <2>6. \A m \in Four : baseline[m] \in Int BY <2>1, <2>5, BaselineTypes
    <2>7. Signed(forecast, baseline, s, share) BY <1>4, <2>4, <2>6, SignedHolds
    <2>8. QED BY <2>1, <2>2, <2>5, <2>7, Zenon
  <1>5. QED BY <1>3, <1>4, Zenon DEF ChangesHaveTheirSign

-----------------------------------------------------------------------------
\* Whatever was sold, the two maps forecast from one history; a mean over as
\* many months as there are repeats the baseline; the predicted months go once
\* round the calendar and end in the area's last; the shares of the categories
\* add up; and a simulated profit is sales less cost, its change null only
\* without a baseline and else of the sign of the difference
\* (spatial-forecast.service.ts run, applySimulation, changePctOf).
THEOREM ForecastsAlwaysHold == SalesSpec => []ForecastHolds
  <1>1. SalesInv => RegionsAreTheirCities /\ MeanRepeatsHistory BY RegionsHold, MeanHolds
  <1>2. SalesInv => MonthsFollow /\ SharesAddUp BY MonthsHold, SharesAddUpHolds
  <1>3. SalesInv => ChangesHaveTheirSign BY ChangesHold
  <1>4. SalesInv => ForecastHolds BY <1>1, <1>2, <1>3 DEF ForecastHolds
  <1>5. QED BY <1>4, SalesKept, PTL

=============================================================================
