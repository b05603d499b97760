-------------------------- MODULE LedgerOpsProofs --------------------------
(***************************************************************************)
(* Lemmas about the operators of LedgerOps, for the proofs about every     *)
(* module that keeps a ledger.                                             *)
(***************************************************************************)
EXTENDS LedgerOps, TLAPS, SequenceTheorems, FiniteSetTheorems

\* What appending one row does to a ledger: ledger.service.ts only ever creates
\* rows, so every proof that a step keeps an invariant of a ledger uses this.
LEMMA AppendRow ==
    ASSUME NEW S, NEW s \in Seq(S), NEW e \in S
    PROVE  /\ Append(s, e) \in Seq(S)
           /\ Len(Append(s, e)) = Len(s) + 1
           /\ DOMAIN s = 1..Len(s) /\ Len(s) \in Nat
           /\ DOMAIN Append(s, e) = 1..(Len(s) + 1)
           /\ \A i \in 1..Len(s) : Append(s, e)[i] = s[i]
           /\ Append(s, e)[Len(s) + 1] = e
    BY LenProperties

\* Negating the entries of a row, as reverseTransaction does, keeps their accounts
\* and number, and gives entries again.
LEMMA NegatedType ==
    ASSUME NEW A, NEW es \in Seq([account : A, amount : Int])
    PROVE  /\ NegatedEntries(es) \in Seq([account : A, amount : Int])
           /\ Len(NegatedEntries(es)) = Len(es)
           /\ \A i \in DOMAIN es : /\ NegatedEntries(es)[i].account = es[i].account
                                   /\ NegatedEntries(es)[i].amount = -es[i].amount
<1> DEFINE E == [account : A, amount : Int]
<1>1. es \in [1..Len(es) -> E] /\ Len(es) \in Nat /\ DOMAIN es = 1..Len(es)
    BY LenProperties
<1>2. \A i \in 1..Len(es) : Entry(es[i].account, -es[i].amount) \in E
    BY <1>1 DEF Entry
<1>3. NegatedEntries(es) = [i \in 1..Len(es) |-> Entry(es[i].account, -es[i].amount)]
    BY <1>1 DEF NegatedEntries
<1>4. NegatedEntries(es) \in Seq(E)
    BY <1>1, <1>2, <1>3, IsASeq
<1>5. Len(NegatedEntries(es)) = Len(es)
    BY <1>1, <1>3, <1>4, LenProperties
<1> QED
    BY <1>1, <1>3, <1>4, <1>5 DEF Entry

\* A set of numbers that is not empty has a least one: the first entry, participant or step
\* that the code looks for.
LEMMA LeastNatural ==
    ASSUME NEW T, T \subseteq Nat, T # {}
    PROVE  \E i \in T : \A j \in T : i <= j
<1>1. PICK i \in T : \A j \in T : ~(<<j, i>> \in OpToRel(<, Nat))
    BY NatLessThanWellFounded, WFMin
<1>2. \A j \in T : ~(j < i)
    BY <1>1 DEF OpToRel
<1> QED
    BY <1>2

\* Rounding to the column's places gives a whole number of units.
LEMMA RoundType ==
    ASSUME NEW x \in Nat, NEW scale \in Nat \ {0}
    PROVE  RoundTo(x, scale) \in Nat
<1>1. 2 * x + scale \in Nat /\ 2 * scale \in Nat \ {0}
    OBVIOUS
<1>2. (2 * x + scale) \div (2 * scale) \in Nat
    BY <1>1
<1> QED
    BY <1>2 DEF RoundTo

\* Rounding does not take an amount over a whole number of units that it is within.
LEMMA RoundRange ==
    ASSUME NEW x \in Nat, NEW scale \in Nat \ {0}, NEW k \in Nat, x <= k * scale
    PROVE  RoundTo(x, scale) \in Nat /\ RoundTo(x, scale) <= k
<1> DEFINE q == (2 * x + scale) \div (2 * scale)
<1>1. RoundTo(x, scale) = q /\ q \in Nat
    BY RoundType DEF RoundTo
<1>2. (2 * scale) * q <= 2 * x + scale
  <2>1. 2 * x + scale \in Nat /\ 2 * scale \in Nat \ {0}
      OBVIOUS
  <2> QED
      BY <2>1
<1> HIDE DEF q
<1>3. SUFFICES ASSUME q >= k + 1 PROVE FALSE
    BY <1>1
<1>4. (2 * scale) * (k + 1) <= (2 * scale) * q
    BY <1>1, <1>3
<1>5. (2 * scale) * (k + 1) = 2 * (k * scale) + 2 * scale
    OBVIOUS
<1>6. k * scale \in Nat /\ (2 * scale) * q \in Nat
    BY <1>1
<1> QED
    BY <1>2, <1>4, <1>5, <1>6

-----------------------------------------------------------------------------
(***************************************************************************)
(* Sums.  The library defines a sum by a recursion over the subsets of its *)
(* domain; its induction theorems take an operator.  A minimal element     *)
(* among the sets that would be exceptions takes their place.              *)
(***************************************************************************)

\* Induction over the subsets of a finite set, with the set of those that are good in
\* place of a predicate: the accounts, rows and entries that the code sums over are finite.
LEMMA SubsetInduction ==
    ASSUME NEW S, IsFiniteSet(S), NEW G,
           \A T \in SUBSET S : (\A U \in SUBSET T : U # T => U \in G) => T \in G
    PROVE  SUBSET S \subseteq G
<1> DEFINE Bad == (SUBSET S) \ G
<1>1. IsWellFoundedOn(StrictSubsetOrdering(S), SUBSET S)
    BY FS_StrictSubsetOrderingWellFounded, FS_FiniteSubsetsOfFinite
<1> SUFFICES ASSUME Bad # {} PROVE FALSE
    OBVIOUS
<1>2. Bad \subseteq SUBSET S
    OBVIOUS
<1> HIDE DEF Bad
<1>3. PICK T \in Bad : \A U \in Bad : ~(<<U, T>> \in StrictSubsetOrdering(S))
    BY <1>1, <1>2, WFMin
<1>4. \A U \in SUBSET T : U # T => U \in G
    BY <1>2, <1>3 DEF StrictSubsetOrdering, Bad
<1>5. T \in SUBSET S /\ T \notin G
    BY <1>3 DEF Bad
<1> QED
    BY <1>4, <1>5

\* The element that the library's sum takes out of a set, and the recursion it defines.
Some(s) == CHOOSE x \in s : TRUE

Unfolds(f, g, S) ==
    g = [s \in SUBSET S |-> IF s = {} THEN 0 ELSE f[Some(s)] + g[s \ {Some(s)}]]

\* The library's sum is the value at S of the function its recursion defines.
LEMMA SumIsIterated ==
    ASSUME NEW f, NEW S
    PROVE  SumFunctionOnSet(f, S) = (CHOOSE g : Unfolds(f, g, S))[S]
    BY DEF SumFunctionOnSet, FoldFunctionOnSet, MapThenFoldSet, Unfolds, Some

\* The function that the recursion of a sum defines exists, and so the recursion holds.
LEMMA SumUnfolds ==
    ASSUME NEW f, NEW S, IsFiniteSet(S)
    PROVE  SumFunctionOnSet(f, S) =
             IF S = {} THEN 0 ELSE f[Some(S)] + SumFunctionOnSet(f, S \ {Some(S)})
<1> DEFINE Sum(s) == SumFunctionOnSet(f, s)
           Iter(s) == CHOOSE g : Unfolds(f, g, s)
           Good(s) == /\ Unfolds(f, Iter(s), s)
                      /\ \A u \in SUBSET s : Iter(s)[u] = Sum(u)
           G == {s \in SUBSET S : Good(s)}
<1>0. \A s : Sum(s) = Iter(s)[s]
    BY SumIsIterated
<1> HIDE DEF Sum, Iter
<1>1. ASSUME NEW T \in SUBSET S, \A U \in SUBSET T : U # T => U \in G
      PROVE  T \in G
  <2> DEFINE g == [s \in SUBSET T |-> IF s = {} THEN 0 ELSE f[Some(s)] + Sum(s \ {Some(s)})]
  <2>1. \A s \in SUBSET T : s # {} => Some(s) \in s
      BY DEF Some
  <2>2. \A u \in SUBSET T : u # T => Sum(u) = IF u = {} THEN 0 ELSE f[Some(u)] + Sum(u \ {Some(u)})
    <3> TAKE u \in SUBSET T
    <3> HAVE u # T
    <3>1. Good(u)
        BY <1>1
    <3>2. Iter(u)[u] = IF u = {} THEN 0 ELSE f[Some(u)] + Iter(u)[u \ {Some(u)}]
        BY <3>1, Zenon DEF Unfolds
    <3>3. Iter(u)[u \ {Some(u)}] = Sum(u \ {Some(u)})
        BY <3>1
    <3> QED
        BY <3>2, <3>3, <1>0
  <2>3. Unfolds(f, g, T)
    <3>1. ASSUME NEW s \in SUBSET T, s # {}
          PROVE  g[s \ {Some(s)}] = Sum(s \ {Some(s)})
        BY <3>1, <2>1, <2>2
    <3> QED
        BY <3>1 DEF Unfolds
  <2>4. Unfolds(f, Iter(T), T)
      BY <2>3 DEF Iter
  <2>5. ASSUME NEW u \in SUBSET T
        PROVE  Iter(T)[u] = Sum(u)
    <3> DEFINE H == {s \in SUBSET T : Iter(T)[s] = Sum(s)}
    <3>1. IsFiniteSet(T)
        BY FS_Subset
    <3>2. ASSUME NEW s \in SUBSET T, \A v \in SUBSET s : v # s => v \in H
          PROVE  s \in H
      <4>1. CASE s = T
          BY <4>1, <1>0
      <4>2. CASE s # T
        <5>1. Iter(T)[s] = IF s = {} THEN 0 ELSE f[Some(s)] + Iter(T)[s \ {Some(s)}]
            BY <2>4, Zenon DEF Unfolds
        <5>2. s # {} => Iter(T)[s \ {Some(s)}] = Sum(s \ {Some(s)})
            BY <3>2, <2>1
        <5> QED
            BY <5>1, <5>2, <2>2, <4>2
      <4> QED
          BY <4>1, <4>2
    <3> HIDE DEF H
    <3>3. SUBSET T \subseteq H
        BY <3>1, <3>2, SubsetInduction
    <3> QED
        BY <3>3 DEF H
  <2> QED
      BY <2>4, <2>5
<1> HIDE DEF G
<1>2. SUBSET S \subseteq G
    BY <1>1, SubsetInduction
<1>3. Good(S)
    BY <1>2 DEF G
<1>4. Iter(S)[S] = IF S = {} THEN 0 ELSE f[Some(S)] + Iter(S)[S \ {Some(S)}]
    BY <1>3, Zenon DEF Unfolds
<1>5. Iter(S)[S \ {Some(S)}] = Sum(S \ {Some(S)})
    BY <1>3
<1> QED
    BY <1>0, <1>4, <1>5 DEF Sum

\* A sum of integers takes its terms in any order: what computeBalanceFromLedger adds up
\* does not depend on the order in which the database returns the entries.
LEMMA SumRemove ==
    ASSUME NEW f, NEW S, IsFiniteSet(S), \A x \in S : f[x] \in Int
    PROVE  /\ SumFunctionOnSet(f, S) \in Int
           /\ S = {} => SumFunctionOnSet(f, S) = 0
           /\ \A x \in S : SumFunctionOnSet(f, S) = f[x] + SumFunctionOnSet(f, S \ {x})
<1> DEFINE Sum(s) == SumFunctionOnSet(f, s)
           G == {s \in SUBSET S : Sum(s) \in Int /\ \A x \in s : Sum(s) = f[x] + Sum(s \ {x})}
<1>1. \A s \in SUBSET S : Sum(s) = IF s = {} THEN 0 ELSE f[Some(s)] + Sum(s \ {Some(s)})
    BY FS_Subset, SumUnfolds
<1> HIDE DEF Sum
<1>2. ASSUME NEW T \in SUBSET S, \A U \in SUBSET T : U # T => U \in G
      PROVE  T \in G
  <2>1. CASE T = {}
    <3>1. Sum(T) = 0
        BY <2>1, <1>1
    <3> QED
        BY <2>1, <3>1
  <2>2. CASE T # {}
    <3> DEFINE c == Some(T)
    <3>1. c \in T
        BY <2>2 DEF Some
    <3> HIDE DEF c
    <3>2. T \ {c} \in G
        BY <3>1, <1>2
    <3>3. Sum(T) = f[c] + Sum(T \ {c}) /\ f[c] \in Int
        BY <1>1, <2>2, <3>1 DEF c
    <3>4. Sum(T) \in Int
        BY <3>2, <3>3
    <3>5. ASSUME NEW x \in T
          PROVE  Sum(T) = f[x] + Sum(T \ {x})
      <4>1. CASE x = c
          BY <4>1, <3>3
      <4>2. CASE x # c
        <5>1. Sum(T \ {c}) = f[x] + Sum((T \ {c}) \ {x})
            BY <3>2, <4>2
        <5>2. T \ {x} \in G
            BY <1>2
        <5>3. Sum(T \ {x}) = f[c] + Sum((T \ {x}) \ {c})
            BY <5>2, <3>1, <4>2
        <5>4. (T \ {x}) \ {c} = (T \ {c}) \ {x}
            OBVIOUS
        <5>5. (T \ {c}) \ {x} \in G
            BY <1>2, <3>1
        <5> QED
          <6> DEFINE rest == Sum((T \ {c}) \ {x})
          <6>1. Sum(T) = f[c] + (f[x] + rest) /\ Sum(T \ {x}) = f[c] + rest
              BY <3>3, <5>1, <5>3, <5>4
          <6>2. rest \in Int /\ f[x] \in Int /\ f[c] \in Int
              BY <5>5, <3>3
          <6> HIDE DEF rest
          <6> QED
              BY <6>1, <6>2
      <4> QED
          BY <4>1, <4>2
    <3> QED
        BY <3>4, <3>5
  <2> QED
      BY <2>1, <2>2
<1> HIDE DEF G
<1>3. SUBSET S \subseteq G
    BY <1>2, SubsetInduction
<1>4. S \in G
    BY <1>3
<1> QED
    BY <1>1, <1>4 DEF G, Sum

\* A sum depends on the terms it ranges over, and on nothing else.
LEMMA SumSame ==
    ASSUME NEW f, NEW g, NEW S, IsFiniteSet(S), \A x \in S : f[x] = g[x] /\ f[x] \in Int
    PROVE  SumFunctionOnSet(f, S) = SumFunctionOnSet(g, S)
<1> DEFINE G == {s \in SUBSET S : SumFunctionOnSet(f, s) = SumFunctionOnSet(g, s)}
<1>1. ASSUME NEW T \in SUBSET S, \A U \in SUBSET T : U # T => U \in G
      PROVE  T \in G
  <2>1. IsFiniteSet(T) /\ (\A x \in T : f[x] \in Int /\ g[x] \in Int)
      BY FS_Subset
  <2>2. CASE T = {}
      BY <2>1, <2>2, SumRemove
  <2>3. CASE T # {}
    <3>1. PICK x \in T : TRUE
        BY <2>3
    <3>2. T \ {x} \in G
        BY <1>1, <3>1
    <3>3. SumFunctionOnSet(f, T) = f[x] + SumFunctionOnSet(f, T \ {x})
        BY <2>1, SumRemove
    <3>4. SumFunctionOnSet(g, T) = g[x] + SumFunctionOnSet(g, T \ {x})
        BY <2>1, SumRemove
    <3> QED
        BY <3>2, <3>3, <3>4
  <2> QED
      BY <2>2, <2>3
<1> HIDE DEF G
<1>2. SUBSET S \subseteq G
    BY <1>1, SubsetInduction
<1> QED
    BY <1>2 DEF G

\* The sum of the sums of two functions.
LEMMA SumPlus ==
    ASSUME NEW f, NEW g, NEW h, NEW S, IsFiniteSet(S),
           \A x \in S : f[x] \in Int /\ g[x] \in Int /\ h[x] = f[x] + g[x]
    PROVE  SumFunctionOnSet(h, S) = SumFunctionOnSet(f, S) + SumFunctionOnSet(g, S)
<1> DEFINE F(s) == SumFunctionOnSet(f, s)
           E(s) == SumFunctionOnSet(g, s)
           H(s) == SumFunctionOnSet(h, s)
           G == {s \in SUBSET S : H(s) = F(s) + E(s)}
<1>1. ASSUME NEW T \in SUBSET S
      PROVE  /\ F(T) \in Int /\ E(T) \in Int /\ H(T) \in Int
             /\ T = {} => F(T) = 0 /\ E(T) = 0 /\ H(T) = 0
             /\ \A x \in T : F(T) = f[x] + F(T \ {x}) /\ E(T) = g[x] + E(T \ {x})
                             /\ H(T) = h[x] + H(T \ {x})
  <2>1. IsFiniteSet(T) /\ (\A x \in T : f[x] \in Int /\ g[x] \in Int /\ h[x] \in Int)
      BY FS_Subset
  <2> QED
      BY <2>1, SumRemove
<1> HIDE DEF F, E, H
<1>2. ASSUME NEW T \in SUBSET S, \A U \in SUBSET T : U # T => U \in G
      PROVE  T \in G
  <2>1. CASE T = {}
      BY <1>1, <2>1
  <2>2. CASE T # {}
    <3>1. PICK x \in T : TRUE
        BY <2>2
    <3>2. H(T \ {x}) = F(T \ {x}) + E(T \ {x})
        BY <1>2, <3>1
    <3>3. F(T \ {x}) \in Int /\ E(T \ {x}) \in Int
        BY <1>1
    <3> QED
        BY <1>1, <3>1, <3>2, <3>3
  <2> QED
      BY <2>1, <2>2
<1> HIDE DEF G
<1>3. SUBSET S \subseteq G
    BY <1>2, SubsetInduction
<1> QED
    BY <1>3 DEF G, F, E, H

\* A factor common to all terms; with -1, what a reversal does to a sum.
LEMMA SumTimes ==
    ASSUME NEW f, NEW h, NEW k \in Int, NEW S, IsFiniteSet(S),
           \A x \in S : f[x] \in Int /\ h[x] = k * f[x]
    PROVE  SumFunctionOnSet(h, S) = k * SumFunctionOnSet(f, S)
<1> DEFINE F(s) == SumFunctionOnSet(f, s)
           H(s) == SumFunctionOnSet(h, s)
           G == {s \in SUBSET S : H(s) = k * F(s)}
<1>1. ASSUME NEW T \in SUBSET S
      PROVE  /\ F(T) \in Int /\ H(T) \in Int
             /\ T = {} => F(T) = 0 /\ H(T) = 0
             /\ \A x \in T : F(T) = f[x] + F(T \ {x}) /\ H(T) = h[x] + H(T \ {x})
  <2>1. IsFiniteSet(T) /\ (\A x \in T : f[x] \in Int /\ h[x] \in Int)
      BY FS_Subset
  <2> QED
      BY <2>1, SumRemove
<1> HIDE DEF F, H
<1>2. ASSUME NEW T \in SUBSET S, \A U \in SUBSET T : U # T => U \in G
      PROVE  T \in G
  <2>1. CASE T = {}
    <3>1. F(T) = 0 /\ H(T) = 0
        BY <1>1, <2>1
    <3> QED
        BY <3>1
  <2>2. CASE T # {}
    <3>1. PICK x \in T : TRUE
        BY <2>2
    <3>2. H(T \ {x}) = k * F(T \ {x})
        BY <1>2, <3>1
    <3>3. F(T \ {x}) \in Int /\ f[x] \in Int
        BY <1>1
    <3>4. k * (f[x] + F(T \ {x})) = k * f[x] + k * F(T \ {x})
        BY <3>3
    <3>5. F(T) = f[x] + F(T \ {x}) /\ H(T) = h[x] + H(T \ {x}) /\ h[x] = k * f[x]
        BY <1>1
    <3> QED
        BY <3>2, <3>4, <3>5
  <2> QED
      BY <2>1, <2>2
<1> HIDE DEF G
<1>3. SUBSET S \subseteq G
    BY <1>2, SubsetInduction
<1> QED
    BY <1>3 DEF G, F, H

\* Terms that are zero: the rows that have no entry on an account.
LEMMA SumOfZeros ==
    ASSUME NEW f, NEW S, IsFiniteSet(S), \A x \in S : f[x] = 0
    PROVE  SumFunctionOnSet(f, S) = 0
<1>1. \A x \in S : f[x] \in Int /\ f[x] = 0 * f[x]
    OBVIOUS
<1>2. SumFunctionOnSet(f, S) = 0 * SumFunctionOnSet(f, S)
    BY <1>1, SumTimes
<1>3. SumFunctionOnSet(f, S) \in Int
    BY <1>1, SumRemove
<1> QED
    BY <1>2, <1>3

\* Sums are monotone in their terms.
LEMMA SumAtMost ==
    ASSUME NEW f, NEW h, NEW S, IsFiniteSet(S),
           \A x \in S : f[x] \in Int /\ h[x] \in Int /\ f[x] <= h[x]
    PROVE  SumFunctionOnSet(f, S) <= SumFunctionOnSet(h, S)
<1> DEFINE F(s) == SumFunctionOnSet(f, s)
           H(s) == SumFunctionOnSet(h, s)
           G == {s \in SUBSET S : F(s) <= H(s)}
<1>1. ASSUME NEW T \in SUBSET S
      PROVE  /\ F(T) \in Int /\ H(T) \in Int
             /\ T = {} => F(T) = 0 /\ H(T) = 0
             /\ \A x \in T : F(T) = f[x] + F(T \ {x}) /\ H(T) = h[x] + H(T \ {x})
  <2>1. IsFiniteSet(T) /\ (\A x \in T : f[x] \in Int /\ h[x] \in Int)
      BY FS_Subset
  <2> QED
      BY <2>1, SumRemove
<1> HIDE DEF F, H
<1>2. ASSUME NEW T \in SUBSET S, \A U \in SUBSET T : U # T => U \in G
      PROVE  T \in G
  <2>1. CASE T = {}
      BY <1>1, <2>1
  <2>2. CASE T # {}
    <3>1. PICK x \in T : TRUE
        BY <2>2
    <3>2. F(T \ {x}) <= H(T \ {x})
        BY <1>2, <3>1
    <3>3. F(T \ {x}) \in Int /\ H(T \ {x}) \in Int
        BY <1>1
    <3> QED
        BY <1>1, <3>1, <3>2, <3>3
  <2> QED
      BY <2>1, <2>2
<1> HIDE DEF G
<1>3. SUBSET S \subseteq G
    BY <1>2, SubsetInduction
<1> QED
    BY <1>3 DEF G, F, H

\* The sum over two disjoint sets.
LEMMA SumUnion ==
    ASSUME NEW f, NEW S, NEW R, IsFiniteSet(S), IsFiniteSet(R), S \cap R = {},
           \A x \in S \cup R : f[x] \in Int
    PROVE  SumFunctionOnSet(f, S \cup R) = SumFunctionOnSet(f, S) + SumFunctionOnSet(f, R)
<1> DEFINE F(s) == SumFunctionOnSet(f, s)
           G == {s \in SUBSET R : F(S \cup s) = F(S) + F(s)}
<1>1. ASSUME NEW T \in SUBSET (S \cup R)
      PROVE  /\ F(T) \in Int
             /\ T = {} => F(T) = 0
             /\ \A x \in T : F(T) = f[x] + F(T \ {x})
  <2>1. IsFiniteSet(T)
      BY FS_Subset, FS_Union
  <2> QED
      BY <2>1, SumRemove
<1> HIDE DEF F
<1>2. ASSUME NEW T \in SUBSET R, \A U \in SUBSET T : U # T => U \in G
      PROVE  T \in G
  <2>1. CASE T = {}
    <3>1. S \cup T = S
        BY <2>1
    <3>2. F(S \cup T) = F(S) /\ F(T) = 0 /\ F(S) \in Int
        BY <1>1, <2>1, <3>1
    <3> QED
        BY <3>2
  <2>2. CASE T # {}
    <3>1. PICK x \in T : TRUE
        BY <2>2
    <3>2. F(S \cup (T \ {x})) = F(S) + F(T \ {x})
        BY <1>2, <3>1
    <3>3. (S \cup T) \ {x} = S \cup (T \ {x})
        BY <3>1
    <3>4. F(S \cup T) = f[x] + F(S \cup (T \ {x})) /\ F(T) = f[x] + F(T \ {x})
        BY <1>1, <3>1, <3>3
    <3>5. F(S) \in Int /\ F(T \ {x}) \in Int /\ f[x] \in Int
        BY <1>1
    <3> QED
        BY <3>2, <3>4, <3>5
  <2> QED
      BY <2>1, <2>2
<1> HIDE DEF G
<1>3. SUBSET R \subseteq G
    BY <1>2, SubsetInduction
<1> QED
    BY <1>3 DEF G, F

\* The terms of a sum may be named anew, one to one.
LEMMA SumImage ==
    ASSUME NEW f, NEW g, NEW S, NEW R, NEW b, IsFiniteSet(S),
           \A x \in S : f[x] = g[b[x]] /\ f[x] \in Int,
           \A x, y \in S : b[x] = b[y] => x = y,
           \A x \in S : b[x] \in R, \A y \in R : \E x \in S : b[x] = y
    PROVE  SumFunctionOnSet(f, S) = SumFunctionOnSet(g, R)
<1> DEFINE Image(s) == {b[x] : x \in s}
           F(s) == SumFunctionOnSet(f, s)
           H(s) == SumFunctionOnSet(g, Image(s))
           G == {s \in SUBSET S : F(s) = H(s)}
<1>1. ASSUME NEW T \in SUBSET S
      PROVE  /\ T = {} => F(T) = 0 /\ H(T) = 0
             /\ \A x \in T : F(T) = f[x] + F(T \ {x}) /\ H(T) = f[x] + H(T \ {x})
  <2>1. IsFiniteSet(T) /\ IsFiniteSet(Image(T))
    <3>1. IsFiniteSet(T)
        BY FS_Subset
    <3>2. IsFiniteSet({b[x] : x \in T})
      <4> DEFINE M == [x \in T |-> b[x]]
      <4>1. M \in Surjection(T, {b[x] : x \in T})
          BY DEF Surjection
      <4> QED
          BY <3>1, <4>1, FS_Surjection
    <3> QED
        BY <3>1, <3>2
  <2>2. \A y \in Image(T) : g[y] \in Int
      OBVIOUS
  <2>3. \A x \in T : Image(T) \ {b[x]} = Image(T \ {x})
      OBVIOUS
  <2>4. T = {} => Image(T) = {}
      OBVIOUS
  <2>5. ASSUME NEW x \in T PROVE H(T) = f[x] + H(T \ {x})
      BY <2>1, <2>2, <2>3, SumRemove
  <2>6. \A x \in T : F(T) = f[x] + F(T \ {x})
      BY <2>1, SumRemove
  <2>7. T = {} => F(T) = 0 /\ H(T) = 0
      BY <2>1, <2>2, <2>4, SumRemove
  <2> HIDE DEF F, H
  <2> QED
      BY <2>5, <2>6, <2>7
<1> HIDE DEF F, H
<1>2. ASSUME NEW T \in SUBSET S, \A U \in SUBSET T : U # T => U \in G
      PROVE  T \in G
  <2>1. CASE T = {}
      BY <1>1, <2>1
  <2>2. CASE T # {}
    <3>1. PICK x \in T : TRUE
        BY <2>2
    <3>2. F(T \ {x}) = H(T \ {x})
        BY <1>2, <3>1
    <3> QED
        BY <1>1, <3>1, <3>2
  <2> QED
      BY <2>1, <2>2
<1> HIDE DEF G
<1>3. SUBSET S \subseteq G
    BY <1>2, SubsetInduction
<1>4. F(S) = H(S)
    BY <1>3 DEF G
<1>5. Image(S) = R
    BY DEF Image
<1> QED
    BY <1>4, <1>5 DEF F, H

\* What changing one term does to a sum: a call that records what it posted.
LEMMA SumChange ==
    ASSUME NEW f, NEW h, NEW S, IsFiniteSet(S), NEW a \in S,
           \A x \in S : f[x] \in Int /\ h[x] \in Int, \A x \in S \ {a} : h[x] = f[x]
    PROVE  SumFunctionOnSet(h, S) = SumFunctionOnSet(f, S) + h[a] - f[a]
<1>1. SumFunctionOnSet(h, S \ {a}) = SumFunctionOnSet(f, S \ {a})
    BY FS_RemoveElement, SumSame
<1>2. SumFunctionOnSet(f, S) = f[a] + SumFunctionOnSet(f, S \ {a})
    BY SumRemove
<1>3. SumFunctionOnSet(h, S) = h[a] + SumFunctionOnSet(h, S \ {a})
    BY SumRemove
<1>4. SumFunctionOnSet(f, S \ {a}) \in Int
    BY FS_RemoveElement, SumRemove
<1> QED
    BY <1>1, <1>2, <1>3, <1>4

\* The sum over a sequence of integers.
LEMMA SumIsInt ==
    ASSUME NEW n \in Nat, NEW f \in [1..n -> Int]
    PROVE  SumFunction(f) \in Int /\ SumFunction(f) = SumFunctionOnSet(f, 1..n)
<1>1. IsFiniteSet(1..n)
    BY FS_Interval
<1>2. DOMAIN f = 1..n /\ (\A x \in 1..n : f[x] \in Int)
    OBVIOUS
<1> QED
    BY <1>1, <1>2, SumRemove DEF SumFunction

\* The sum over a sequence with one term more: what a new row does to a balance.
LEMMA SumOfFirst ==
    ASSUME NEW n \in Nat, NEW f \in [1..n -> Int], NEW h \in [1..(n + 1) -> Int],
           \A i \in 1..n : h[i] = f[i]
    PROVE  SumFunction(h) = SumFunction(f) + h[n + 1]
<1>1. IsFiniteSet(1..n) /\ IsFiniteSet(1..(n + 1))
    BY FS_Interval
<1>2. (1..(n + 1)) \ {n + 1} = 1..n /\ n + 1 \in 1..(n + 1)
    OBVIOUS
<1>3. SumFunctionOnSet(h, 1..(n + 1)) = h[n + 1] + SumFunctionOnSet(h, 1..n)
  <2>1. \A x \in 1..(n + 1) : h[x] \in Int
      OBVIOUS
  <2> QED
      BY <1>1, <1>2, <2>1, SumRemove
<1>4. SumFunctionOnSet(h, 1..n) = SumFunctionOnSet(f, 1..n)
  <2>1. \A x \in 1..n : h[x] = f[x] /\ h[x] \in Int
      OBVIOUS
  <2> QED
      BY <1>1, <2>1, SumSame
<1>5. /\ SumFunction(f) \in Int /\ SumFunction(f) = SumFunctionOnSet(f, 1..n)
      /\ SumFunction(h) = SumFunctionOnSet(h, 1..(n + 1))
  <2>1. n + 1 \in Nat
      OBVIOUS
  <2> QED
      BY <2>1, SumIsInt
<1>6. h[n + 1] \in Int
    OBVIOUS
<1> QED
    BY <1>3, <1>4, <1>5, <1>6

\* Without entries there is nothing to sum.
LEMMA SumOfNone == SumFunction(<< >>) = 0
<1>1. DOMAIN << >> = {}
    OBVIOUS
<1> QED
    BY <1>1, SumRemove, FS_EmptySet DEF SumFunction

\* The sum of the two entries that most transactions have.
LEMMA SumOfTwo ==
    ASSUME NEW x \in Int, NEW y \in Int
    PROVE  SumFunction(<<x, y>>) = x + y
<1> DEFINE f == <<x, y>>
<1>1. DOMAIN f = {1, 2} /\ f[1] = x /\ f[2] = y
    OBVIOUS
<1> HIDE DEF f
<1>2. IsFiniteSet({1, 2}) /\ IsFiniteSet({2}) /\ IsFiniteSet({})
    BY FS_EmptySet, FS_Singleton, FS_AddElement, {2} \cup {1} = {1, 2}
<1>3. {1, 2} \ {1} = {2} /\ {2} \ {2} = {}
    OBVIOUS
<1>4. SumFunctionOnSet(f, {1, 2}) = x + SumFunctionOnSet(f, {2})
    BY <1>1, <1>2, <1>3, SumRemove
<1>5. SumFunctionOnSet(f, {2}) = y + SumFunctionOnSet(f, {})
    BY <1>1, <1>2, <1>3, SumRemove
<1>6. SumFunctionOnSet(f, {}) = 0
    BY <1>2, SumRemove
<1> QED
    BY <1>1, <1>4, <1>5, <1>6 DEF SumFunction, f

-----------------------------------------------------------------------------
(***************************************************************************)
(* What the rows of a ledger add to its accounts                           *)
(***************************************************************************)

\* A reversal's entries sum to the opposite of the original's: it passes the double-entry
\* check of postTransaction whenever the original did.
LEMMA NegatedSum ==
    ASSUME NEW A, NEW es \in Seq([account : A, amount : Int])
    PROVE  SumOf(es) \in Int /\ SumOf(NegatedEntries(es)) = -SumOf(es)
<1> DEFINE f == [i \in DOMAIN es |-> es[i].amount]
           h == [i \in DOMAIN es |-> -es[i].amount]
<1>0. es \in [1..Len(es) -> [account : A, amount : Int]] /\ Len(es) \in Nat
    BY LenProperties
<1>1. DOMAIN es = 1..Len(es) /\ Len(es) \in Nat /\ \A i \in DOMAIN es : es[i].amount \in Int
    BY <1>0
<1>2. f \in [1..Len(es) -> Int] /\ h \in [1..Len(es) -> Int]
    BY <1>1
<1>3. SumFunction(f) \in Int /\ SumFunction(f) = SumFunctionOnSet(f, 1..Len(es))
    BY <1>1, <1>2, SumIsInt
<1>4. SumFunction(h) = SumFunctionOnSet(h, 1..Len(es))
    BY <1>1, <1>2, SumIsInt
<1>5. SumFunctionOnSet(h, 1..Len(es)) = (-1) * SumFunctionOnSet(f, 1..Len(es))
  <2>1. IsFiniteSet(1..Len(es))
      BY <1>1, FS_Interval
  <2>2. \A i \in 1..Len(es) : f[i] \in Int /\ h[i] = (-1) * f[i]
      BY <1>1
  <2> HIDE DEF f, h
  <2> QED
      BY <2>1, <2>2, SumTimes
<1>6. SumOf(es) = SumFunction(f)
    BY DEF SumOf
<1>7. SumOf(NegatedEntries(es)) = SumFunction(h)
  <2>1. [i \in DOMAIN NegatedEntries(es) |-> NegatedEntries(es)[i].amount] = h
      BY DEF NegatedEntries, Entry
  <2> QED
      BY <2>1 DEF SumOf
<1> HIDE DEF f, h
<1> QED
    BY <1>3, <1>4, <1>5, <1>6, <1>7

\* Two entries of opposite amounts pass the double-entry check.
LEMMA TwoEntriesBalance ==
    ASSUME NEW a, NEW b, NEW x \in Int
    PROVE  Balanced(<<Entry(a, x), Entry(b, -x)>>)
<1> DEFINE es == <<Entry(a, x), Entry(b, -x)>>
<1>1. [i \in DOMAIN es |-> es[i].amount] = <<x, -x>>
    BY DEF Entry
<1>2. SumFunction(<<x, -x>>) = 0
    BY SumOfTwo
<1>3. SumOf(es) = 0
    BY <1>1, <1>2 DEF SumOf
<1> QED
    BY <1>3 DEF Balanced

\* What a transaction of two opposite entries adds to an account.
LEMMA NetOfTwo ==
    ASSUME NEW row, NEW a, NEW b, NEW x \in Int, NEW account,
           row.entries = <<Entry(a, x), Entry(b, -x)>>
    PROVE  NetOn(row, account) =
             (IF account = a THEN x ELSE 0) + (IF account = b THEN -x ELSE 0)
<1> DEFINE y == IF account = a THEN x ELSE 0
           z == IF account = b THEN -x ELSE 0
<1>1. [i \in DOMAIN row.entries |->
          IF row.entries[i].account = account THEN row.entries[i].amount ELSE 0] = <<y, z>>
    BY DEF Entry
<1>2. y \in Int /\ z \in Int
    OBVIOUS
<1> HIDE DEF y, z
<1>3. SumFunction(<<y, z>>) = y + z
    BY <1>2, SumOfTwo
<1> QED
    BY <1>1, <1>3 DEF NetOn, y, z

\* A reversal takes from each account what the original added to it.
LEMMA NetOfReversal ==
    ASSUME NEW A, NEW row, NEW counter, row.entries \in Seq([account : A, amount : Int]),
           counter.entries = NegatedEntries(row.entries), NEW account
    PROVE  NetOn(row, account) \in Int /\ NetOn(counter, account) = -NetOn(row, account)
<1> DEFINE es == row.entries
           f == [i \in DOMAIN es |-> IF es[i].account = account THEN es[i].amount ELSE 0]
           h == [i \in DOMAIN es |-> IF es[i].account = account THEN -es[i].amount ELSE 0]
<1>0. es \in [1..Len(es) -> [account : A, amount : Int]] /\ Len(es) \in Nat
    BY LenProperties
<1>1. DOMAIN es = 1..Len(es) /\ Len(es) \in Nat /\ \A i \in DOMAIN es : es[i].amount \in Int
    BY <1>0
<1>2. f \in [1..Len(es) -> Int] /\ h \in [1..Len(es) -> Int]
    BY <1>1
<1>3. SumFunction(f) \in Int /\ SumFunction(f) = SumFunctionOnSet(f, 1..Len(es))
    BY <1>1, <1>2, SumIsInt
<1>4. SumFunction(h) = SumFunctionOnSet(h, 1..Len(es))
    BY <1>1, <1>2, SumIsInt
<1>5. SumFunctionOnSet(h, 1..Len(es)) = (-1) * SumFunctionOnSet(f, 1..Len(es))
  <2>1. IsFiniteSet(1..Len(es))
      BY <1>1, FS_Interval
  <2>2. \A i \in 1..Len(es) : f[i] \in Int /\ h[i] = (-1) * f[i]
      BY <1>1
  <2> HIDE DEF f, h
  <2> QED
      BY <2>1, <2>2, SumTimes
<1>6. NetOn(row, account) = SumFunction(f)
    BY DEF NetOn
<1>7. NetOn(counter, account) = SumFunction(h)
  <2>1. [i \in DOMAIN counter.entries |->
            IF counter.entries[i].account = account THEN counter.entries[i].amount ELSE 0] = h
      BY DEF NegatedEntries, Entry
  <2> QED
      BY <2>1 DEF NetOn
<1> HIDE DEF f, h
<1> QED
    BY <1>3, <1>4, <1>5, <1>6, <1>7

\* computeBalanceFromLedger after one more row: the balance before, and what the row adds.
LEMMA BalanceOfAppend ==
    ASSUME NEW R, NEW ledger \in Seq(R), NEW row \in R, NEW account,
           \A r \in R : r.status = "POSTED" /\ NetOn(r, account) \in Int
    PROVE  /\ Balance(ledger, account) \in Int
           /\ Balance(Append(ledger, row), account) = Balance(ledger, account) + NetOn(row, account)
<1> DEFINE n == Len(ledger)
           more == Append(ledger, row)
           f == [t \in 1..n |-> NetOn(ledger[t], account)]
           h == [t \in 1..(n + 1) |-> NetOn(more[t], account)]
<1>1. /\ n \in Nat /\ DOMAIN ledger = 1..n /\ DOMAIN more = 1..(n + 1)
      /\ \A t \in 1..n : ledger[t] \in R /\ more[t] = ledger[t]
      /\ more[n + 1] = row
    BY AppendRow, LenProperties
<1> HIDE DEF n, more
<1>2. f \in [1..n -> Int] /\ h \in [1..(n + 1) -> Int]
      /\ (\A t \in 1..n : h[t] = f[t]) /\ h[n + 1] = NetOn(row, account)
    BY <1>1
<1>3. Balance(ledger, account) = SumFunction(f)
  <2>1. [t \in DOMAIN ledger |-> IF ledger[t].status = "POSTED"
                                   THEN NetOn(ledger[t], account) ELSE 0] = f
      BY <1>1
  <2> QED
      BY <2>1 DEF Balance
<1>4. Balance(more, account) = SumFunction(h)
  <2>1. [t \in DOMAIN more |-> IF more[t].status = "POSTED"
                                 THEN NetOn(more[t], account) ELSE 0] = h
    <3>1. \A t \in 1..(n + 1) : more[t].status = "POSTED"
        BY <1>1
    <3> QED
        BY <1>1, <3>1
  <2> QED
      BY <2>1 DEF Balance
<1> HIDE DEF f, h
<1>5. SumFunction(h) = SumFunction(f) + h[n + 1] /\ SumFunction(f) \in Int
    BY <1>1, <1>2, SumOfFirst, SumIsInt
<1> QED
    BY <1>2, <1>3, <1>4, <1>5 DEF more

\* A balance is a whole number of units.
LEMMA BalanceType ==
    ASSUME NEW R, NEW ledger \in Seq(R), NEW account,
           \A r \in R : r.status = "POSTED" /\ NetOn(r, account) \in Int
    PROVE  Balance(ledger, account) \in Int
<1> DEFINE n == Len(ledger)
           f == [t \in 1..n |-> NetOn(ledger[t], account)]
<1>1. n \in Nat /\ DOMAIN ledger = 1..n /\ \A t \in 1..n : ledger[t] \in R
    BY LenProperties
<1> HIDE DEF n
<1>2. f \in [1..n -> Int]
    BY <1>1
<1>3. Balance(ledger, account) = SumFunction(f)
  <2>1. [t \in DOMAIN ledger |-> IF ledger[t].status = "POSTED"
                                   THEN NetOn(ledger[t], account) ELSE 0] = f
      BY <1>1
  <2> QED
      BY <2>1 DEF Balance
<1> HIDE DEF f
<1> QED
    BY <1>1, <1>2, <1>3, SumIsInt

-----------------------------------------------------------------------------
(***************************************************************************)
(* Cutting an amount into shares (Money.distribute)                        *)
(***************************************************************************)

\* A quotient cut down to a multiple of the scale is within one multiple of what is cut.
LEMMA CutDown ==
    ASSUME NEW x \in Nat, NEW d \in Nat \ {0}, NEW scale \in Nat \ {0}
    PROVE  LET q == x \div (d * scale) IN
           q \in Nat /\ d * (scale * q) <= x /\ x < d * (scale * q) + d * scale
<1> DEFINE m == d * scale
           q == x \div m
<1>1. m \in Nat \ {0}
    OBVIOUS
<1> HIDE DEF m
<1>2. q \in Nat /\ m * q <= x /\ x < m * q + m
    BY <1>1
<1> HIDE DEF q
<1>3. d * (scale * q) = m * q
    BY <1>2 DEF m
<1> QED
    BY <1>2, <1>3 DEF m, q

\* A positive factor can be taken out of an inequality.
LEMMA Cancel ==
    ASSUME NEW a \in Int, NEW b \in Int, NEW k \in Nat \ {0}, k * a <= k * b
    PROVE  a <= b
<1> SUFFICES ASSUME a >= b + 1 PROVE FALSE
    OBVIOUS
<1>1. k * a >= k * (b + 1)
    OBVIOUS
<1>2. k * (b + 1) = k * b + k
    OBVIOUS
<1>3. k * a \in Int /\ k * b \in Int
    OBVIOUS
<1> QED
    BY <1>1, <1>2, <1>3

\* A sum of terms that are not below zero is not, and is no less than any of them.
LEMMA SumOfNaturals ==
    ASSUME NEW f, NEW S, IsFiniteSet(S), \A x \in S : f[x] \in Nat
    PROVE  SumFunctionOnSet(f, S) \in Nat /\ \A x \in S : f[x] <= SumFunctionOnSet(f, S)
<1> DEFINE zero == [x \in S |-> 0]
<1>1. ASSUME NEW T \in SUBSET S PROVE SumFunctionOnSet(f, T) \in Nat
  <2>1. IsFiniteSet(T) /\ (\A x \in T : zero[x] = 0)
      BY FS_Subset
  <2>2. \A x \in T : zero[x] \in Int /\ f[x] \in Int /\ zero[x] <= f[x]
      OBVIOUS
  <2> HIDE DEF zero
  <2>3. SumFunctionOnSet(zero, T) = 0
      BY <2>1, SumOfZeros
  <2>4. SumFunctionOnSet(zero, T) <= SumFunctionOnSet(f, T)
      BY <2>1, <2>2, SumAtMost
  <2>5. SumFunctionOnSet(f, T) \in Int
      BY <2>1, <2>2, SumRemove
  <2> QED
      BY <2>3, <2>4, <2>5
<1>2. ASSUME NEW x \in S PROVE f[x] <= SumFunctionOnSet(f, S)
  <2>1. SumFunctionOnSet(f, S) = f[x] + SumFunctionOnSet(f, S \ {x})
      BY SumRemove
  <2>2. SumFunctionOnSet(f, S \ {x}) \in Nat
      BY <1>1
  <2> QED
      BY <2>1, <2>2
<1> QED
    BY <1>1, <1>2

\* Shares that are each within their fraction of a total are together within the total.
LEMMA CutsFit ==
    ASSUME NEW S, IsFiniteSet(S), NEW total \in Nat, NEW whole \in Nat \ {0},
           NEW ratio, NEW cut,
           \A x \in S : ratio[x] \in Nat /\ cut[x] \in Nat /\ whole * cut[x] <= total * ratio[x],
           SumFunctionOnSet(ratio, S) = whole
    PROVE  SumFunctionOnSet(cut, S) \in Nat /\ SumFunctionOnSet(cut, S) <= total
<1> DEFINE f == [x \in S |-> whole * cut[x]]
           h == [x \in S |-> total * ratio[x]]
           sum == SumFunctionOnSet(cut, S)
<1>1. sum \in Nat
    BY SumOfNaturals
<1>2. /\ \A x \in S : cut[x] \in Int /\ f[x] = whole * cut[x]
      /\ \A x \in S : ratio[x] \in Int /\ h[x] = total * ratio[x]
      /\ \A x \in S : f[x] \in Int /\ h[x] \in Int /\ f[x] <= h[x]
    OBVIOUS
<1> HIDE DEF f, h
<1>3. SumFunctionOnSet(f, S) = whole * sum
    BY <1>2, SumTimes
<1>4. SumFunctionOnSet(h, S) = total * SumFunctionOnSet(ratio, S)
  <2>1. total \in Int /\ (\A x \in S : ratio[x] \in Int /\ h[x] = total * ratio[x])
      BY <1>2
  <2> QED
      BY ONLY IsFiniteSet(S), <2>1, SumTimes
<1>5. SumFunctionOnSet(f, S) <= SumFunctionOnSet(h, S)
    BY <1>2, SumAtMost
<1> HIDE DEF sum
<1>6. whole * sum <= whole * total
    BY <1>1, <1>3, <1>4, <1>5
<1>7. sum <= total
    BY <1>1, <1>6, Cancel
<1> QED
    BY <1>1, <1>7 DEF sum

\* Integers that differ by less than one multiple have the same quotient.
LEMMA QuotientIs ==
    ASSUME NEW m \in Nat \ {0}, NEW y \in Nat, NEW p \in Nat, m * p <= y, y < m * p + m
    PROVE  y \div m = p
<1> DEFINE q == y \div m
<1>1. q \in Nat /\ m * q <= y /\ y < m * q + m
    OBVIOUS
<1> HIDE DEF q
<1>2. m * (p + 1) = m * p + m /\ m * (q + 1) = m * q + m
    BY <1>1
<1>3. ASSUME p + 1 <= q PROVE FALSE
  <2>1. m * (p + 1) <= m * q
      BY <1>1, <1>3
  <2> QED
      BY <1>1, <1>2, <2>1
<1>4. ASSUME q + 1 <= p PROVE FALSE
  <2>1. m * (q + 1) <= m * p
      BY <1>1, <1>4
  <2> QED
      BY <1>1, <1>2, <2>1
<1> QED
    BY <1>1, <1>3, <1>4 DEF q

\* Rounding leaves whole units alone: an amount is rounded as what it has below them.
LEMMA RoundShift ==
    ASSUME NEW scale \in Nat \ {0}, NEW k \in Nat, NEW x \in Nat
    PROVE  RoundTo(scale * k + x, scale) = k + RoundTo(x, scale)
<1> DEFINE m == 2 * scale
           y == 2 * x + scale
           q == y \div m
           z == 2 * (scale * k + x) + scale
<1>1. m \in Nat \ {0} /\ y \in Nat /\ scale * k \in Nat
    OBVIOUS
<1>2. RoundTo(x, scale) = q /\ RoundTo(scale * k + x, scale) = z \div m
    BY <1>1 DEF RoundTo
<1>3. z = m * k + y /\ z \in Nat
    BY <1>1
<1> HIDE DEF m, y, z
<1>4. q \in Nat /\ m * q <= y /\ y < m * q + m
    BY <1>1
<1> HIDE DEF q
<1>5. m * (k + q) = m * k + m * q /\ m * k \in Nat /\ m * q \in Nat
    BY <1>1, <1>4
<1>6. m * (k + q) <= z /\ z < m * (k + q) + m
    BY <1>1, <1>3, <1>4, <1>5
<1>7. z \div m = k + q
    BY <1>1, <1>3, <1>4, <1>6, QuotientIs
<1> QED
    BY <1>2, <1>7

\* Nothing is rounded to nothing, and a whole number of units to itself.
LEMMA RoundWhole ==
    ASSUME NEW scale \in Nat \ {0}, NEW k \in Nat
    PROVE  RoundTo(scale * k, scale) = k
<1>1. RoundTo(0, scale) = 0
  <2>1. (2 * scale) * 0 <= scale /\ scale < (2 * scale) * 0 + 2 * scale /\ 2 * scale \in Nat \ {0}
      OBVIOUS
  <2>2. scale \div (2 * scale) = 0
    <3> DEFINE m == 2 * scale
    <3> HIDE DEF m
    <3>1. scale \div m = 0
        BY <2>1, QuotientIs DEF m
    <3> QED
        BY <3>1 DEF m
  <2> QED
      BY <2>2 DEF RoundTo
<1>2. RoundTo(scale * k + 0, scale) = k + RoundTo(0, scale)
    BY RoundShift
<1>3. scale * k + 0 = scale * k /\ k + 0 = k
    OBVIOUS
<1> QED
    BY <1>1, <1>2, <1>3

\* The sum of terms that are all within a bound.
LEMMA SumWithin ==
    ASSUME NEW f, NEW S, IsFiniteSet(S), NEW bound \in Nat,
           \A x \in S : f[x] \in Int /\ f[x] <= bound
    PROVE  SumFunctionOnSet(f, S) <= Cardinality(S) * bound
<1> DEFINE F(s) == SumFunctionOnSet(f, s)
           G == {s \in SUBSET S : F(s) <= Cardinality(s) * bound}
<1>1. ASSUME NEW T \in SUBSET S
      PROVE  /\ F(T) \in Int /\ Cardinality(T) \in Nat
             /\ T = {} => F(T) = 0 /\ Cardinality(T) = 0
             /\ \A x \in T : F(T) = f[x] + F(T \ {x}) /\ Cardinality(T \ {x}) = Cardinality(T) - 1
  <2>1. IsFiniteSet(T) /\ (\A x \in T : f[x] \in Int)
      BY FS_Subset
  <2>2. Cardinality(T) \in Nat /\ (T = {} => Cardinality(T) = 0)
        /\ \A x \in T : Cardinality(T \ {x}) = Cardinality(T) - 1
      BY <2>1, FS_CardinalityType, FS_EmptySet, FS_RemoveElement
  <2> QED
      BY <2>1, <2>2, SumRemove
<1> HIDE DEF F
<1>2. ASSUME NEW T \in SUBSET S, \A U \in SUBSET T : U # T => U \in G
      PROVE  T \in G
  <2>1. CASE T = {}
      BY <1>1, <2>1
  <2>2. CASE T # {}
    <3>1. PICK x \in T : TRUE
        BY <2>2
    <3> DEFINE n == Cardinality(T)
    <3>2. F(T \ {x}) <= (n - 1) * bound
        BY <1>1, <1>2, <3>1
    <3>3. F(T \ {x}) \in Int /\ n \in Nat /\ f[x] \in Int /\ f[x] <= bound
        BY <1>1
    <3> HIDE DEF n
    <3>4. (n - 1) * bound = n * bound - bound /\ n * bound \in Int
        BY <3>3
    <3>5. F(T) <= n * bound
        BY <1>1, <3>1, <3>2, <3>3, <3>4
    <3> QED
        BY <3>5 DEF n
  <2> QED
      BY <2>1, <2>2
<1> HIDE DEF G
<1>3. SUBSET S \subseteq G
    BY <1>2, SubsetInduction
<1> QED
    BY <1>3 DEF G, F

\* The amounts of two sequences of entries, one after the other.
LEMMA SumOfConcat ==
    ASSUME NEW A, NEW s \in Seq([account : A, amount : Int]),
           NEW t \in Seq([account : A, amount : Int])
    PROVE  SumOf(s \o t) = SumOf(s) + SumOf(t) /\ SumOf(s) \in Int /\ SumOf(t) \in Int
<1> DEFINE m == Len(s)
           n == Len(t)
           all == [i \in 1..(m + n) |-> (s \o t)[i].amount]
           f == [i \in 1..m |-> s[i].amount]
           g == [i \in 1..n |-> t[i].amount]
           shift == [i \in 1..n |-> m + i]
           last == {shift[i] : i \in 1..n}
<1>1. /\ m \in Nat /\ DOMAIN s = 1..m /\ \A i \in 1..m : s[i].amount \in Int
      /\ n \in Nat /\ DOMAIN t = 1..n /\ \A i \in 1..n : t[i].amount \in Int
  <2>1. /\ m \in Nat /\ DOMAIN s = 1..m /\ \A i \in 1..m : s[i] \in [account : A, amount : Int]
        /\ n \in Nat /\ DOMAIN t = 1..n /\ \A i \in 1..n : t[i] \in [account : A, amount : Int]
      BY LenProperties
  <2> QED
      BY <2>1
<1>2. /\ DOMAIN (s \o t) = 1..(m + n)
      /\ \A i \in 1..m : (s \o t)[i] = s[i]
      /\ \A i \in 1..n : (s \o t)[m + i] = t[i]
    BY <1>1, ConcatProperties, LenProperties
<1>3. /\ SumOf(s \o t) = SumFunctionOnSet(all, 1..(m + n))
      /\ SumOf(s) = SumFunctionOnSet(f, 1..m) /\ SumOf(t) = SumFunctionOnSet(g, 1..n)
    BY <1>1, <1>2 DEF SumOf, SumFunction
<1>4. /\ IsFiniteSet(1..m) /\ IsFiniteSet(1..n) /\ IsFiniteSet(1..(m + n))
      /\ (1..m) \cup last = 1..(m + n) /\ (1..m) \cap last = {} /\ IsFiniteSet(last)
  <2>1. IsFiniteSet(1..m) /\ IsFiniteSet(1..n) /\ IsFiniteSet(1..(m + n))
      BY <1>1, FS_Interval
  <2>2. last = (m + 1)..(m + n)
    <3>1. ASSUME NEW j \in (m + 1)..(m + n) PROVE j \in last
      <4>1. j - m \in 1..n /\ shift[j - m] = j
          BY <1>1
      <4> QED
          BY <4>1
    <3>2. \A i \in 1..n : shift[i] \in (m + 1)..(m + n)
        BY <1>1
    <3> HIDE DEF shift
    <3> QED
        BY <3>1, <3>2
  <2>3. (1..m) \cup last = 1..(m + n) /\ (1..m) \cap last = {}
      BY <1>1, <2>2
  <2>4. IsFiniteSet(last)
      BY <2>1, <2>3, FS_Subset
  <2> QED
      BY <2>1, <2>3, <2>4
<1>5. /\ \A i \in 1..m : f[i] \in Int /\ f[i] = all[i]
      /\ \A i \in 1..n : g[i] \in Int /\ g[i] = all[shift[i]]
      /\ \A i, j \in 1..n : shift[i] = shift[j] => i = j
    BY <1>1, <1>2
<1> HIDE DEF shift
<1>6. (\A i \in 1..n : shift[i] \in last) /\ (\A j \in last : \E i \in 1..n : shift[i] = j)
    OBVIOUS
<1> HIDE DEF all, f, g, shift, last, m, n
<1>7. \A i \in (1..m) \cup last : all[i] \in Int
    BY <1>5, <1>6
<1>8. SumFunctionOnSet(f, 1..m) = SumFunctionOnSet(all, 1..m)
  <2>1. \A i \in 1..m : f[i] = all[i] /\ f[i] \in Int
      BY <1>5
  <2> QED
      BY ONLY <1>4, <2>1, SumSame
<1>9. SumFunctionOnSet(g, 1..n) = SumFunctionOnSet(all, last)
  <2>1. PICK S : S = 1..n
      OBVIOUS
  <2>2. IsFiniteSet(S) /\ \A i \in S : g[i] = all[shift[i]] /\ g[i] \in Int
      BY <1>4, <1>5, <2>1
  <2>3. \A i, j \in S : shift[i] = shift[j] => i = j
      BY <1>5, <2>1
  <2>4. (\A i \in S : shift[i] \in last) /\ (\A j \in last : \E i \in S : shift[i] = j)
      BY <1>6, <2>1
  <2>5. SumFunctionOnSet(g, S) = SumFunctionOnSet(all, last)
      BY ONLY <2>2, <2>3, <2>4, SumImage
  <2> QED
      BY <2>1, <2>5
<1>10. SumFunctionOnSet(all, (1..m) \cup last)
         = SumFunctionOnSet(all, 1..m) + SumFunctionOnSet(all, last)
    BY <1>4, <1>7, SumUnion
<1>11. SumFunctionOnSet(f, 1..m) \in Int /\ SumFunctionOnSet(g, 1..n) \in Int
    BY <1>4, <1>5, SumRemove
<1> QED
    BY <1>3, <1>4, <1>8, <1>9, <1>10, <1>11

\* The amount of one entry.
LEMMA SumOfOne ==
    ASSUME NEW e, e.amount \in Int
    PROVE  SumOf(<<e>>) = e.amount
<1> DEFINE f == [i \in DOMAIN <<e>> |-> <<e>>[i].amount]
<1>1. DOMAIN <<e>> = {1} /\ f[1] = e.amount
    OBVIOUS
<1>2. SumOf(<<e>>) = SumFunctionOnSet(f, {1})
    BY <1>1 DEF SumOf, SumFunction
<1> HIDE DEF f
<1>3. IsFiniteSet({1}) /\ {1} \ {1} = {} /\ IsFiniteSet({})
    BY FS_Singleton, FS_EmptySet
<1>4. SumFunctionOnSet(f, {1}) = f[1] + SumFunctionOnSet(f, {1} \ {1})
  <2>1. \A x \in {1} : f[x] \in Int
      BY <1>1
  <2> QED
      BY <1>3, <2>1, SumRemove
<1>5. SumFunctionOnSet(f, {}) = 0
    BY <1>3, SumRemove
<1> QED
    BY <1>1, <1>2, <1>3, <1>4, <1>5

\* Naturals that have a bound have a greatest, and it is one of them.
LEMMA GreatestOf ==
    ASSUME NEW S, NEW f, S # {}, NEW bound \in Nat, \A x \in S : f[x] \in Nat /\ f[x] <= bound
    PROVE  \E x \in S : \A y \in S : f[y] <= f[x]
<1> DEFINE T == {b \in Nat : \A x \in S : f[x] <= b}
<1>1. PICK b \in T : \A c \in T : b <= c
  <2>1. bound \in T
      OBVIOUS
  <2> QED
      BY <2>1, LeastNatural
<1>2. PICK x \in S : TRUE
    OBVIOUS
<1>3. ASSUME \A y \in S : f[y] # b PROVE FALSE
  <2>1. \A y \in S : f[y] <= b - 1
      BY <1>3
  <2>2. b - 1 \in Nat
      BY <1>2, <2>1
  <2>3. b - 1 \in T
      BY <2>1, <2>2
  <2> QED
      BY <1>1, <2>3
<1> QED
    BY <1>3

\* A fraction of a total, cut down to a multiple of the scale.
CutOf(total, ratio, whole, scale) == scale * ((total * ratio) \div (whole * scale))

\* Shares of a total by ratios that add up to the whole, each of them cut down.
CutShares(S, total, whole, scale, ratio, cut) ==
    /\ IsFiniteSet(S) /\ total \in Nat /\ whole \in Nat \ {0} /\ scale \in Nat \ {0}
    /\ \A x \in S : ratio[x] \in Nat /\ cut[x] = CutOf(total, ratio[x], whole, scale)
    /\ SumFunctionOnSet(ratio, S) = whole

\* What the cuts left, and what a share has over its exact fraction; both the excess and
\* the unit of the cuts are multiplied by the whole.
LeftOf(total, cut, S) == total - SumFunctionOnSet(cut, S)
Excess(share, total, ratio, whole) == whole * share - total * ratio
UnitOf(whole, scale) == whole * scale

\* Shares cut down to multiples of the scale, of which one takes all that the cuts left:
\* no share is below zero, the others lost less than a multiple each, and what they lost
\* together is what the one got more.
LEMMA FairShares ==
    ASSUME NEW S, NEW total, NEW whole, NEW scale, NEW ratio, NEW cut, NEW one \in S,
           CutShares(S, total, whole, scale, ratio, cut)
    PROVE  /\ \A x \in S : /\ cut[x] \in Nat
                           /\ -UnitOf(whole, scale) < Excess(cut[x], total, ratio[x], whole)
                           /\ Excess(cut[x], total, ratio[x], whole) <= 0
           /\ LeftOf(total, cut, S) \in Nat
           /\ 0 <= Excess(cut[one] + LeftOf(total, cut, S), total, ratio[one], whole)
           /\ Excess(cut[one] + LeftOf(total, cut, S), total, ratio[one], whole)
                < Cardinality(S) * UnitOf(whole, scale)
<1> DEFINE unit == whole * scale
           rest == total - SumFunctionOnSet(cut, S)
           sum == SumFunctionOnSet(cut, S)
           lost == [x \in S |-> total * ratio[x] - whole * cut[x]]
           part == [x \in S |-> total * ratio[x]]
           taken == [x \in S |-> whole * cut[x]]
<1>cuts. /\ IsFiniteSet(S) /\ total \in Nat /\ whole \in Nat \ {0} /\ scale \in Nat \ {0}
         /\ \A x \in S : ratio[x] \in Nat /\ cut[x] = CutOf(total, ratio[x], whole, scale)
         /\ SumFunctionOnSet(ratio, S) = whole
    BY DEF CutShares
<1> USE <1>cuts
<1>0. unit \in Nat \ {0}
    OBVIOUS
<1> HIDE DEF unit
<1>1. ASSUME NEW x \in S
      PROVE  /\ cut[x] \in Nat /\ total * ratio[x] \in Nat /\ whole * cut[x] \in Nat
             /\ whole * cut[x] <= total * ratio[x]
             /\ total * ratio[x] < whole * cut[x] + unit
  <2> DEFINE y == total * ratio[x]
             q == y \div (whole * scale)
  <2>0. unit = whole * scale
      BY DEF unit
  <2>1. y \in Nat
      OBVIOUS
  <2> HIDE DEF y
  <2>2. q \in Nat /\ whole * (scale * q) <= y /\ y < whole * (scale * q) + whole * scale
      BY <2>1, CutDown
  <2>3. cut[x] = scale * q
      BY DEF y, CutOf
  <2> HIDE DEF q
  <2>4. scale * q \in Nat
      BY <2>2
  <2>5. whole * (scale * q) \in Nat
      BY <2>4
  <2> QED
      BY <2>0, <2>1, <2>2, <2>3, <2>4, <2>5 DEF y
<1>2. sum \in Nat /\ sum <= total
    BY <1>1, CutsFit
<1>3. /\ \A x \in S : lost[x] = total * ratio[x] - whole * cut[x]
      /\ \A x \in S : lost[x] \in Nat /\ lost[x] < unit
      /\ \A x \in S : cut[x] \in Int /\ ratio[x] \in Int
      /\ \A x \in S : part[x] = total * ratio[x] /\ taken[x] = whole * cut[x]
      /\ \A x \in S : part[x] \in Int /\ taken[x] \in Int /\ lost[x] \in Int
      /\ \A x \in S : part[x] = taken[x] + lost[x]
    BY <1>0, <1>1
<1> HIDE DEF lost, part, taken
<1>4. SumFunctionOnSet(lost, S) = total * whole - whole * sum
  <2>1. SumFunctionOnSet(part, S) = total * whole
    <3>1. total \in Int /\ (\A x \in S : ratio[x] \in Int /\ part[x] = total * ratio[x])
        BY <1>3
    <3>2. SumFunctionOnSet(part, S) = total * SumFunctionOnSet(ratio, S)
        BY ONLY IsFiniteSet(S), <3>1, SumTimes
    <3> QED
        BY <3>2
  <2>2. SumFunctionOnSet(taken, S) = whole * sum
    <3>1. whole \in Int /\ (\A x \in S : cut[x] \in Int /\ taken[x] = whole * cut[x])
        BY <1>3
    <3> QED
        BY ONLY IsFiniteSet(S), <3>1, SumTimes
  <2>3. SumFunctionOnSet(part, S) = SumFunctionOnSet(taken, S) + SumFunctionOnSet(lost, S)
    <3>1. \A x \in S : taken[x] \in Int /\ lost[x] \in Int /\ part[x] = taken[x] + lost[x]
        BY <1>3
    <3> QED
        BY ONLY IsFiniteSet(S), <3>1, SumPlus
  <2>4. SumFunctionOnSet(lost, S) \in Int
      BY <1>3, SumRemove
  <2> QED
      BY <1>2, <2>1, <2>2, <2>3, <2>4
<1> DEFINE others == SumFunctionOnSet(lost, S \ {one})
           n == Cardinality(S)
<1>5. SumFunctionOnSet(lost, S) = lost[one] + others
  <2>1. \A x \in S : lost[x] \in Int
      BY <1>3
  <2> QED
      BY ONLY IsFiniteSet(S), one \in S, <2>1, SumRemove
<1>6. IsFiniteSet(S \ {one}) /\ Cardinality(S \ {one}) = n - 1 /\ n \in Nat
    BY FS_RemoveElement, FS_CardinalityType
<1>7. others \in Nat
    BY <1>3, <1>6, SumOfNaturals
<1>8. others <= (n - 1) * unit
  <2>1. unit \in Nat /\ (\A x \in S \ {one} : lost[x] \in Int /\ lost[x] <= unit)
      BY <1>0, <1>3
  <2> QED
      BY <1>6, <2>1, SumWithin
<1> HIDE DEF others, n
<1>9. others < n * unit
    BY <1>0, <1>6, <1>7, <1>8
<1>10. whole * (cut[one] + rest) - total * ratio[one] = others
  <2>1. whole * (cut[one] + rest) = whole * cut[one] + (whole * total - whole * sum)
      BY <1>1, <1>2
  <2>2. whole * total = total * whole
      OBVIOUS
  <2>3. lost[one] = total * ratio[one] - whole * cut[one]
      BY <1>3
  <2>4. total * ratio[one] \in Int /\ whole * cut[one] \in Int /\ whole * sum \in Int
        /\ total * whole \in Int
      BY <1>1, <1>2
  <2> QED
      BY <1>4, <1>5, <1>7, <2>1, <2>2, <2>3, <2>4
<1>11. \A x \in S : /\ cut[x] \in Nat
                    /\ -unit < whole * cut[x] - total * ratio[x]
                    /\ whole * cut[x] - total * ratio[x] <= 0
    BY <1>0, <1>1
<1>12. rest \in Nat
    BY <1>2
<1> HIDE DEF rest
<1> QED
    BY <1>7, <1>9, <1>10, <1>11, <1>12 DEF n, rest, unit, LeftOf, Excess, UnitOf

=============================================================================
