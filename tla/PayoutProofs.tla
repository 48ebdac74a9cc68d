---------------------------- MODULE PayoutProofs ----------------------------
(***************************************************************************)
(* Proofs about the payout books: sums over finite sets, PayoutRounds and  *)
(* PayoutLedger, whose proofs rest on them.  PayoutRounds is proved for    *)
(* every finite set of addresses, all weights and limits, any fee, work    *)
(* and coinbase values; PayoutLedger for every set of addresses and        *)
(* handlers, all ways to split a reward and chains of any length.          *)
(***************************************************************************)
EXTENDS PayoutRounds, PayoutLedger, FiniteSetTheorems, FunctionTheorems,
        WellFoundedInduction, TLAPS

-----------------------------------------------------------------------------
(* Sums.                                                                     *)

(* The sum of f over T is what Folds computes by a recursive function on the *)
(* subsets of T: each takes one element off.                                 *)
Pick(s) == CHOOSE x \in s : TRUE
Sums(f, T, g) ==
    g = [s \in SUBSET T |-> IF s = {} THEN 0 ELSE f[Pick(s)] + g[s \ {Pick(s)}]]
Adder(f, T) == CHOOSE g : Sums(f, T, g)
Total(f, T) == Adder(f, T)[T]

LEMMA SumIsTotal == \A f : SumFunction(f) = Total(f, DOMAIN f)
  BY DEF SumFunction, SumFunctionOnSet, FoldFunctionOnSet, MapThenFoldSet, Total, Adder, Sums, Pick

(* Of the subsets of a finite set with some property one is minimal.        *)
LEMMA MinimalSubset ==
    ASSUME NEW S, IsFiniteSet(S), NEW bad, bad \subseteq SUBSET S, bad # {}
    PROVE  \E T \in bad : \A U \in SUBSET T : U # T => U \notin bad
  <1> DEFINE R == StrictSubsetOrdering(S)
  <1>1. IsWellFoundedOn(R, SUBSET S)
    BY FS_StrictSubsetOrderingWellFounded, FS_FiniteSubsetsOfFinite
  <1> HIDE DEF R
  <1>2. PICK T \in bad : \A U \in bad : <<U, T>> \notin R
    BY <1>1, WFMin
  <1>3. ASSUME NEW U \in SUBSET T, U # T, U \in bad PROVE FALSE
    <2>1. <<U, T>> \in (SUBSET S) \X (SUBSET S)
      BY <1>3
    <2>2. <<U, T>> \in R
      BY <1>3, <2>1 DEF R, StrictSubsetOrdering
    <2> QED BY <1>3, <1>2, <2>2
  <1> QED BY <1>2, <1>3

LEMMA PickIn == \A s : s # {} => Pick(s) \in s
  BY DEF Pick

(* Two such functions agree where both are defined. *)
LEMMA SumsAgree ==
    ASSUME NEW f, NEW T, IsFiniteSet(T), NEW W \in SUBSET T, NEW g, Sums(f, T, g),
           NEW h, Sums(f, W, h)
    PROVE  \A s \in SUBSET W : g[s] = h[s]
  <1> DEFINE bad == {s \in SUBSET W : g[s] # h[s]}
  <1> SUFFICES ASSUME bad # {} PROVE FALSE
    OBVIOUS
  <1>1. IsFiniteSet(W)
    BY FS_Subset
  <1>2. bad \subseteq SUBSET W
    OBVIOUS
  <1>3. PICK s \in bad : \A u \in SUBSET s : u # s => u \notin bad
    <2> HIDE DEF bad
    <2> QED BY <1>1, <1>2, MinimalSubset
  <1>4. s \in SUBSET W /\ s \in SUBSET T /\ g[s] # h[s]
    BY <1>3
  <1>5. /\ g[s] = IF s = {} THEN 0 ELSE f[Pick(s)] + g[s \ {Pick(s)}]
        /\ h[s] = IF s = {} THEN 0 ELSE f[Pick(s)] + h[s \ {Pick(s)}]
    BY <1>4 DEF Sums
  <1>6. s # {}
    BY <1>4, <1>5
  <1>7. s \ {Pick(s)} \in SUBSET s /\ s \ {Pick(s)} # s
    BY <1>6, PickIn
  <1>8. s \ {Pick(s)} \notin bad
    BY <1>3, <1>7
  <1>9. g[s \ {Pick(s)}] = h[s \ {Pick(s)}]
    BY <1>8, <1>7, <1>4
  <1> QED
    BY <1>4, <1>5, <1>6, <1>9

(* There is one. *)
LEMMA SumsExist ==
    ASSUME NEW f, NEW S, IsFiniteSet(S)
    PROVE  \A T \in SUBSET S : Sums(f, T, Adder(f, T))
  <1> DEFINE bad == {T \in SUBSET S : ~ \E g : Sums(f, T, g)}
  <1>1. SUFFICES ASSUME bad # {} PROVE FALSE
    BY DEF Adder
  <1>2. PICK T \in bad : \A U \in SUBSET T : U # T => U \notin bad
    <2>1. bad \subseteq SUBSET S
      OBVIOUS
    <2> HIDE DEF bad
    <2> QED BY <1>1, <2>1, MinimalSubset
  <1>3. T \in SUBSET S /\ ~ \E g : Sums(f, T, g) /\ IsFiniteSet(T)
    BY <1>2, FS_Subset
  <1>4. ASSUME NEW U \in SUBSET T, U # T PROVE Sums(f, U, Adder(f, U))
    BY <1>2, <1>3, <1>4 DEF Adder
  <1> DEFINE rest(s) == s \ {Pick(s)}
             Sum(s) == IF s = {} THEN 0 ELSE f[Pick(s)] + Total(f, rest(s))
             g == [s \in SUBSET T |-> Sum(s)]
  <1>5. ASSUME NEW s \in SUBSET T, s # {} PROVE g[rest(s)] = Total(f, rest(s))
    <2>1. rest(s) \in SUBSET T /\ rest(s) # T
      BY <1>5, PickIn
    <2>2. PICK u : u = rest(s)
      OBVIOUS
    <2>3. /\ u \in SUBSET T /\ u # T
          /\ Sums(f, u, Adder(f, u))
      BY <2>1, <2>2, <1>4
    <2>4. Total(f, u) = IF u = {} THEN 0 ELSE f[Pick(u)] + Adder(f, u)[u \ {Pick(u)}]
      BY <2>3 DEF Sums, Total
    <2>5. CASE u = {}
      BY <2>2, <2>3, <2>4, <2>5
    <2>6. CASE u # {}
      <3>1. PICK w : w = u \ {Pick(u)}
        OBVIOUS
      <3>2. w \in SUBSET u /\ w \in SUBSET T /\ w # T /\ IsFiniteSet(u)
        BY <2>6, <2>3, <3>1, <1>3, PickIn, FS_Subset
      <3>3. Sums(f, w, Adder(f, w))
        BY <3>2, <1>4
      <3>4. Adder(f, u)[w] = Total(f, w)
        BY <3>2, <3>3, <2>3, SumsAgree DEF Total
      <3>5. g[u] = f[Pick(u)] + Total(f, w)
        BY <2>3, <2>6, <3>1
      <3> QED
        BY <2>2, <2>4, <2>6, <3>1, <3>4, <3>5
    <2> QED BY <2>5, <2>6
  <1>6. ASSUME NEW s \in SUBSET T
        PROVE  Sum(s) = IF s = {} THEN 0 ELSE f[Pick(s)] + g[s \ {Pick(s)}]
    BY <1>5
  <1>7. Sums(f, T, g)
    <2>1. g = [s \in SUBSET T |-> IF s = {} THEN 0 ELSE f[Pick(s)] + g[s \ {Pick(s)}]]
      BY <1>6
    <2> QED BY <2>1 DEF Sums
  <1> QED BY <1>3, <1>7

(* The sum takes any element off. *)
LEMMA TotalSteps ==
    ASSUME NEW f, NEW S, IsFiniteSet(S)
    PROVE  /\ Total(f, {}) = 0
           /\ S # {} => Total(f, S) = f[Pick(S)] + Total(f, S \ {Pick(S)})
  <1>1. Total(f, {}) = 0
    <2>1. Sums(f, {}, Adder(f, {}))
      BY SumsExist
    <2> QED BY <2>1 DEF Sums, Total
  <1>2. ASSUME S # {} PROVE Total(f, S) = f[Pick(S)] + Total(f, S \ {Pick(S)})
    <2>1. PICK w : w = S \ {Pick(S)}
      OBVIOUS
    <2>2. /\ Sums(f, S, Adder(f, S)) /\ Sums(f, w, Adder(f, w))
          /\ w \in SUBSET S
      BY <2>1, SumsExist
    <2>3. Adder(f, S)[w] = Adder(f, w)[w]
      BY <2>2, SumsAgree
    <2>4. Adder(f, S)[S] = f[Pick(S)] + Adder(f, S)[w]
      BY <2>1, <2>2, <1>2 DEF Sums
    <2> QED BY <2>1, <2>3, <2>4 DEF Total
  <1> QED BY <1>1, <1>2

(* What holds of the empty set, and of a set with one element more when it   *)
(* holds of the set, holds of every finite set.                              *)
LEMMA SetInduction ==
    ASSUME NEW S, IsFiniteSet(S), NEW good, {} \in good,
           \A T \in SUBSET S : \A x \in S \ T : T \in good => T \cup {x} \in good
    PROVE  S \in good
  <1> DEFINE bad == {T \in SUBSET S : T \notin good}
  <1> SUFFICES ASSUME S \notin good PROVE FALSE
    OBVIOUS
  <1>1. PICK T \in bad : \A U \in SUBSET T : U # T => U \notin bad
    <2>1. bad \subseteq SUBSET S /\ bad # {}
      OBVIOUS
    <2> HIDE DEF bad
    <2> QED BY <2>1, MinimalSubset
  <1>2. T \in SUBSET S /\ T \notin good
    BY <1>1
  <1>3. PICK x : x \in T
    BY <1>2
  <1>4. PICK U : U = T \ {x}
    OBVIOUS
  <1>5. U \in SUBSET T /\ U # T /\ U \in SUBSET S /\ x \in S \ U /\ T = U \cup {x}
    BY <1>2, <1>3, <1>4
  <1>6. U \in good
    BY <1>1, <1>5
  <1> QED BY <1>2, <1>5, <1>6

LEMMA TotalOfNone == \A f : Total(f, {}) = 0
  BY TotalSteps, FS_EmptySet

LEMMA TotalIsInt ==
    ASSUME NEW f, NEW S, IsFiniteSet(S), \A x \in S : f[x] \in Int
    PROVE  \A T \in SUBSET S : Total(f, T) \in Int
  <1> DEFINE bad == {T \in SUBSET S : Total(f, T) \notin Int}
  <1> SUFFICES ASSUME bad # {} PROVE FALSE
    OBVIOUS
  <1>1. PICK T \in bad : \A U \in SUBSET T : U # T => U \notin bad
    <2>1. bad \subseteq SUBSET S
      OBVIOUS
    <2> HIDE DEF bad
    <2> QED BY <2>1, MinimalSubset
  <1>2. T \in SUBSET S /\ Total(f, T) \notin Int /\ IsFiniteSet(T)
    BY <1>1, FS_Subset
  <1>3. T # {}
    <2>1. Total(f, {}) = 0
      BY TotalOfNone
    <2> QED BY <1>2, <2>1
  <1>4. PICK w : w = T \ {Pick(T)}
    OBVIOUS
  <1>5. w \in SUBSET T /\ w # T /\ w \in SUBSET S /\ Pick(T) \in S
    BY <1>2, <1>3, <1>4, PickIn
  <1>6. Total(f, w) \in Int
    BY <1>1, <1>5
  <1>7. Total(f, T) = f[Pick(T)] + Total(f, w)
    BY <1>2, <1>3, <1>4, TotalSteps
  <1>8. f[Pick(T)] \in Int
    BY <1>5
  <1> QED BY <1>2, <1>6, <1>7, <1>8

LEMMA TotalRemoves ==
    ASSUME NEW f, NEW S, IsFiniteSet(S), \A x \in S : f[x] \in Int
    PROVE  \A k \in S : Total(f, S) = f[k] + Total(f, S \ {k})
  <1> DEFINE holds(T) == \A k \in T : Total(f, T) = f[k] + Total(f, T \ {k})
             bad == {T \in SUBSET S : ~ holds(T)}
  <1> SUFFICES ASSUME bad # {} PROVE FALSE
    OBVIOUS
  <1>1. PICK T \in bad : \A U \in SUBSET T : U # T => U \notin bad
    <2>1. bad \subseteq SUBSET S
      OBVIOUS
    <2> HIDE DEF bad
    <2> QED BY <2>1, MinimalSubset
  <1>2. T \in SUBSET S /\ IsFiniteSet(T)
    BY <1>1, FS_Subset
  <1>3. PICK k \in T : Total(f, T) # f[k] + Total(f, T \ {k})
    BY <1>1
  <1>4. PICK x : x = Pick(T)
    OBVIOUS
  <1>5. x \in T /\ Total(f, T) = f[x] + Total(f, T \ {x})
    BY <1>2, <1>3, <1>4, PickIn, TotalSteps
  <1>6. x # k
    BY <1>3, <1>5
  <1>7. PICK u, v, w : u = T \ {x} /\ v = T \ {k} /\ w = (T \ {x}) \ {k}
    OBVIOUS
  <1>8. /\ u \in SUBSET T /\ u # T /\ v \in SUBSET T /\ v # T /\ w \in SUBSET T
        /\ k \in u /\ x \in v /\ w = u \ {k} /\ w = v \ {x}
    BY <1>3, <1>5, <1>6, <1>7
  <1>9. holds(u) /\ holds(v)
    <2>1. u \notin bad /\ v \notin bad
      BY <1>1, <1>8
    <2>2. u \in SUBSET S /\ v \in SUBSET S
      BY <1>2, <1>8
    <2> QED BY <2>1, <2>2
  <1>10. Total(f, u) = f[k] + Total(f, w) /\ Total(f, v) = f[x] + Total(f, w)
    BY <1>8, <1>9
  <1>11. Total(f, w) \in Int /\ f[k] \in Int /\ f[x] \in Int
    BY <1>2, <1>3, <1>5, <1>8, TotalIsInt
  <1>12. Total(f, T) = f[x] + Total(f, u) /\ Total(f, T) # f[k] + Total(f, v)
    BY <1>3, <1>5, <1>7
  <1> QED BY <1>10, <1>11, <1>12

LEMMA TotalAdds ==
    ASSUME NEW f, NEW S, IsFiniteSet(S), \A y \in S : f[y] \in Int,
           NEW T \in SUBSET S, NEW x \in S \ T
    PROVE  Total(f, T \cup {x}) = Total(f, T) + f[x] /\ Total(f, T) \in Int /\ f[x] \in Int
  <1>1. PICK U : U = T \cup {x}
    OBVIOUS
  <1>2. U \in SUBSET S /\ x \in U /\ U \ {x} = T /\ IsFiniteSet(U) /\ \A y \in U : f[y] \in Int
    BY <1>1, FS_Subset
  <1>3. Total(f, U) = f[x] + Total(f, T)
    BY <1>2, TotalRemoves
  <1> QED BY <1>1, <1>3, TotalIsInt

(* Two sums over the same set compare as their terms, ... *)
LEMMA TotalsCompare ==
    ASSUME NEW f, NEW g, NEW S, IsFiniteSet(S),
           \A x \in S : f[x] \in Int /\ g[x] \in Int /\ f[x] <= g[x]
    PROVE  Total(f, S) <= Total(g, S)
  <1> DEFINE good == {T \in SUBSET S : Total(f, T) <= Total(g, T)}
  <1>1. {} \in good
    BY TotalOfNone
  <1>2. ASSUME NEW T \in SUBSET S, NEW x \in S \ T, T \in good PROVE T \cup {x} \in good
    <2>1. /\ Total(f, T \cup {x}) = Total(f, T) + f[x] /\ Total(f, T) \in Int
          /\ Total(g, T \cup {x}) = Total(g, T) + g[x] /\ Total(g, T) \in Int
      BY TotalAdds
    <2> QED BY <1>2, <2>1
  <1>3. S \in good
    <2> HIDE DEF good
    <2> QED BY <1>1, <1>2, SetInduction
  <1> QED BY <1>3

(* ... are equal if their terms are, ... *)
LEMMA TotalsEqual ==
    ASSUME NEW f, NEW g, NEW S, IsFiniteSet(S), \A x \in S : f[x] \in Int /\ f[x] = g[x]
    PROVE  Total(f, S) = Total(g, S) /\ Total(f, S) \in Int
  <1>1. Total(f, S) <= Total(g, S) /\ Total(g, S) <= Total(f, S)
    BY TotalsCompare
  <1> QED BY <1>1, TotalIsInt

(* ... and add up. *)
AddUp(f, g, h, S) == \A x \in S : f[x] \in Int /\ g[x] \in Int /\ h[x] = f[x] + g[x]

LEMMA TotalsAddUp ==
    ASSUME NEW f, NEW g, NEW h, NEW S, IsFiniteSet(S), AddUp(f, g, h, S)
    PROVE  Total(h, S) = Total(f, S) + Total(g, S)
  <1> DEFINE good == {T \in SUBSET S : Total(h, T) = Total(f, T) + Total(g, T)}
  <1> USE DEF AddUp
  <1>0. (\A y \in S : f[y] \in Int) /\ (\A y \in S : g[y] \in Int) /\ (\A y \in S : h[y] \in Int)
    OBVIOUS
  <1>1. {} \in good
    BY TotalOfNone
  <1>2. ASSUME NEW T \in SUBSET S, NEW x \in S \ T, T \in good PROVE T \cup {x} \in good
    <2>1. Total(f, T \cup {x}) = Total(f, T) + f[x] /\ Total(f, T) \in Int
      <3>1. \A y \in S : f[y] \in Int
        BY <1>0
      <3> QED BY ONLY <3>1, IsFiniteSet(S), T \in SUBSET S, x \in S \ T, TotalAdds
    <2>2. Total(g, T \cup {x}) = Total(g, T) + g[x] /\ Total(g, T) \in Int
      <3>1. \A y \in S : g[y] \in Int
        BY <1>0
      <3> QED BY ONLY <3>1, IsFiniteSet(S), T \in SUBSET S, x \in S \ T, TotalAdds
    <2>3. Total(h, T \cup {x}) = Total(h, T) + h[x]
      <3>1. \A y \in S : h[y] \in Int
        BY <1>0
      <3> QED BY ONLY <3>1, IsFiniteSet(S), T \in SUBSET S, x \in S \ T, TotalAdds
    <2>4. h[x] = f[x] + g[x] /\ f[x] \in Int /\ g[x] \in Int
      OBVIOUS
    <2> QED BY <1>2, <2>1, <2>2, <2>3, <2>4
  <1>3. S \in good
    <2> HIDE DEF good
    <2> QED BY <1>1, <1>2, SetInduction
  <1> QED BY <1>3

(* A factor of all terms is one of the sum. *)
LEMMA TotalTimes ==
    ASSUME NEW f, NEW g, NEW c \in Int, NEW S, IsFiniteSet(S),
           \A x \in S : f[x] \in Int /\ g[x] = c * f[x]
    PROVE  Total(g, S) = c * Total(f, S)
  <1> DEFINE good == {T \in SUBSET S : Total(g, T) = c * Total(f, T)}
  <1>0. \A y \in S : g[y] \in Int
    OBVIOUS
  <1>1. {} \in good
    BY TotalOfNone
  <1>2. ASSUME NEW T \in SUBSET S, NEW x \in S \ T, T \in good PROVE T \cup {x} \in good
    <2>1. /\ Total(f, T \cup {x}) = Total(f, T) + f[x] /\ Total(f, T) \in Int /\ f[x] \in Int
          /\ Total(g, T \cup {x}) = Total(g, T) + g[x]
      BY <1>0, TotalAdds
    <2>2. c * (Total(f, T) + f[x]) = c * Total(f, T) + c * f[x]
      BY <2>1
    <2> QED BY <1>2, <2>1, <2>2
  <1>3. S \in good
    <2> HIDE DEF good
    <2> QED BY <1>1, <1>2, SetInduction
  <1> QED BY <1>3

(* Terms of 0 do not count. *)
LEMMA TotalSkips ==
    ASSUME NEW f, NEW S, IsFiniteSet(S), NEW R \in SUBSET S, \A x \in S : f[x] \in Int,
           \A x \in S \ R : f[x] = 0
    PROVE  Total(f, S) = Total(f, R)
  <1> DEFINE good == {T \in SUBSET S : Total(f, T) = Total(f, T \cap R)}
  <1>1. {} \in good
    BY TotalOfNone
  <1>2. ASSUME NEW T \in SUBSET S, NEW x \in S \ T, T \in good PROVE T \cup {x} \in good
    <2>1. Total(f, T \cup {x}) = Total(f, T) + f[x] /\ Total(f, T) \in Int
      BY TotalAdds
    <2>2. CASE x \in R
      <3>1. PICK U : U = T \cap R
        OBVIOUS
      <3>2. U \in SUBSET S /\ x \in S \ U /\ (T \cup {x}) \cap R = U \cup {x}
        BY <2>2, <3>1
      <3>3. Total(f, U \cup {x}) = Total(f, U) + f[x]
        BY <3>2, TotalAdds
      <3> QED BY <1>2, <2>1, <3>1, <3>2, <3>3
    <2>3. CASE x \notin R
      <3>1. (T \cup {x}) \cap R = T \cap R /\ f[x] = 0 /\ T \cup {x} \in SUBSET S
        BY <2>3
      <3>2. Total(f, T \cup {x}) = Total(f, T)
        BY <2>1, <3>1
      <3>3. Total(f, T) = Total(f, T \cap R)
        BY <1>2
      <3> HIDE DEF good
      <3>4. Total(f, T \cup {x}) = Total(f, (T \cup {x}) \cap R)
        BY <3>1, <3>2, <3>3
      <3> QED BY <3>1, <3>4 DEF good
    <2> QED BY <2>2, <2>3
  <1>3. S \in good
    <2> HIDE DEF good
    <2> QED BY <1>1, <1>2, SetInduction
  <1>4. S \cap R = R
    OBVIOUS
  <1> QED BY <1>3, <1>4

LEMMA TotalIsNat ==
    ASSUME NEW f, NEW S, IsFiniteSet(S), \A x \in S : f[x] \in Nat
    PROVE  Total(f, S) \in Nat
  <1> DEFINE g == [x \in S |-> 0]
  <1>1. Total(g, S) = Total(g, {})
    BY TotalSkips
  <1>2. Total(g, {}) = 0
    BY TotalOfNone
  <1>3. \A x \in S : g[x] \in Int /\ f[x] \in Int /\ g[x] <= f[x]
    OBVIOUS
  <1> HIDE DEF g
  <1>4. Total(g, S) <= Total(f, S) /\ Total(f, S) \in Int
    BY <1>3, TotalsCompare, TotalIsInt
  <1> QED BY <1>1, <1>2, <1>4

(* No term is greater than the sum, if none is negative, nor is part of it.  *)
LEMMA TotalBounds ==
    ASSUME NEW f, NEW S, IsFiniteSet(S), \A x \in S : f[x] \in Nat
    PROVE  /\ \A x \in S : f[x] <= Total(f, S)
           /\ \A R \in SUBSET S : Total(f, R) <= Total(f, S) /\ Total(f, R) \in Nat
           /\ Total(f, S) \in Nat
  <1>1. ASSUME NEW x \in S PROVE f[x] <= Total(f, S)
    <2>1. IsFiniteSet(S \ {x}) /\ \A y \in S \ {x} : f[y] \in Nat
      BY FS_Subset
    <2>2. Total(f, S \ {x}) \in Nat
      BY <2>1, TotalIsNat
    <2>3. Total(f, S) = f[x] + Total(f, S \ {x})
      BY TotalRemoves
    <2> QED BY <2>2, <2>3
  <1>2. ASSUME NEW R \in SUBSET S PROVE Total(f, R) <= Total(f, S) /\ Total(f, R) \in Nat
    <2> DEFINE g == [x \in S |-> IF x \in R THEN f[x] ELSE 0]
    <2>0. IsFiniteSet(R)
      BY FS_Subset
    <2>1. Total(g, S) = Total(g, R)
      BY TotalSkips
    <2>2. \A x \in S : g[x] \in Int /\ f[x] \in Int /\ g[x] <= f[x]
      OBVIOUS
    <2>3. \A x \in R : g[x] \in Int /\ g[x] = f[x]
      OBVIOUS
    <2> HIDE DEF g
    <2>4. Total(g, S) <= Total(f, S)
      BY <2>2, TotalsCompare
    <2>5. Total(g, R) = Total(f, R)
      BY <2>0, <2>3, TotalsEqual
    <2>6. Total(f, R) \in Nat
      BY <2>0, TotalIsNat
    <2> QED BY <2>1, <2>4, <2>5, <2>6
  <1> QED BY <1>1, <1>2, TotalIsNat

(* Counting is summing up. *)
LEMMA TotalCounts ==
    ASSUME NEW S, IsFiniteSet(S), NEW R \in SUBSET S, NEW f,
           \A x \in S : f[x] = IF x \in R THEN 1 ELSE 0
    PROVE  Total(f, S) = Cardinality(R)
  <1> DEFINE good == {T \in SUBSET S : Total(f, T) = Cardinality(T \cap R)}
  <1>0. \A y \in S : f[y] \in Int
    OBVIOUS
  <1>1. {} \in good
    BY TotalOfNone, FS_EmptySet
  <1>2. ASSUME NEW T \in SUBSET S, NEW x \in S \ T, T \in good PROVE T \cup {x} \in good
    <2>1. Total(f, T \cup {x}) = Total(f, T) + f[x] /\ Total(f, T) \in Int
      BY <1>0, TotalAdds
    <2>2. PICK U : U = T \cap R
      OBVIOUS
    <2>3. IsFiniteSet(U) /\ x \notin U /\ Cardinality(U) \in Nat
      BY <2>2, FS_Subset, FS_CardinalityType
    <2>4. CASE x \in R
      <3>1. (T \cup {x}) \cap R = U \cup {x} /\ f[x] = 1
        BY <2>2, <2>4
      <3>2. Cardinality(U \cup {x}) = Cardinality(U) + 1
        BY <2>3, FS_AddElement
      <3> QED BY <1>2, <2>1, <2>2, <3>1, <3>2
    <2>5. CASE x \notin R
      <3>1. (T \cup {x}) \cap R = T \cap R /\ f[x] = 0 /\ T \cup {x} \in SUBSET S
        BY <2>5
      <3>2. Total(f, T \cup {x}) = Total(f, T)
        BY <2>1, <3>1
      <3>3. Total(f, T) = Cardinality(T \cap R)
        BY <1>2
      <3> HIDE DEF good
      <3>4. Total(f, T \cup {x}) = Cardinality((T \cup {x}) \cap R)
        BY <3>1, <3>2, <3>3
      <3> QED BY <3>1, <3>4 DEF good
    <2> QED BY <2>4, <2>5
  <1>3. S \in good
    <2> HIDE DEF good
    <2> QED BY <1>1, <1>2, SetInduction
  <1>4. S \cap R = R
    OBVIOUS
  <1> QED BY <1>3, <1>4

-----------------------------------------------------------------------------
(* PayoutRounds.                                                            *)

(* R orders the elements of S, one after the other. *)
Orders(R, S) ==
    /\ \A a \in S : <<a, a>> \notin R
    /\ \A a, b \in S : a # b => <<a, b>> \in R \/ <<b, a>> \in R
    /\ \A a, b, c \in S : <<a, b>> \in R /\ <<b, c>> \in R => <<a, c>> \in R

Earlier(R, S, a) == {b \in S : <<b, a>> \in R}

(* The places of an order are the numbers from 0 on, ... *)
LEMMA PlacesRise ==
    ASSUME NEW S, IsFiniteSet(S), NEW R, Orders(R, S)
    PROVE  /\ \A a \in S : /\ IsFiniteSet(Earlier(R, S, a))
                           /\ Cardinality(Earlier(R, S, a)) \in 0 .. Cardinality(S) - 1
           /\ \A a, b \in S : <<a, b>> \in R =>
                  Cardinality(Earlier(R, S, a)) < Cardinality(Earlier(R, S, b))
  <1>1. ASSUME NEW a \in S, NEW T \in SUBSET S, a \in T, Earlier(R, S, a) \subseteq T
        PROVE  /\ IsFiniteSet(Earlier(R, S, a))
               /\ Cardinality(Earlier(R, S, a)) < Cardinality(T)
               /\ {Cardinality(Earlier(R, S, a)), Cardinality(T)} \subseteq Nat
    <2>1. PICK E : E = Earlier(R, S, a)
      OBVIOUS
    <2>2. E \in SUBSET T /\ E # T /\ IsFiniteSet(T)
      BY <1>1, <2>1, FS_Subset DEF Earlier, Orders
    <2>3. IsFiniteSet(E) /\ Cardinality(E) <= Cardinality(T) /\ Cardinality(E) # Cardinality(T)
      BY <2>2, FS_Subset
    <2>4. Cardinality(E) \in Nat /\ Cardinality(T) \in Nat
      BY <2>2, <2>3, FS_CardinalityType
    <2> QED BY <2>1, <2>3, <2>4
  <1>2. ASSUME NEW a \in S
        PROVE  /\ IsFiniteSet(Earlier(R, S, a))
               /\ Cardinality(Earlier(R, S, a)) \in 0 .. Cardinality(S) - 1
    <2>1. Earlier(R, S, a) \subseteq S /\ S \in SUBSET S
      BY DEF Earlier
    <2>2. /\ IsFiniteSet(Earlier(R, S, a))
          /\ Cardinality(Earlier(R, S, a)) < Cardinality(S)
          /\ {Cardinality(Earlier(R, S, a)), Cardinality(S)} \subseteq Nat
      BY <2>1, <1>1
    <2> QED BY <2>2
  <1>3. ASSUME NEW a \in S, NEW b \in S, <<a, b>> \in R
        PROVE  Cardinality(Earlier(R, S, a)) < Cardinality(Earlier(R, S, b))
    <2>1. PICK T : T = Earlier(R, S, b)
      OBVIOUS
    <2>2. T \in SUBSET S /\ a \in T /\ Earlier(R, S, a) \subseteq T
      BY <1>3, <2>1 DEF Earlier, Orders
    <2> QED BY <2>1, <2>2, <1>1
  <1> QED BY <1>2, <1>3

(* ... one of each. *)
LEMMA PlacesCount ==
    ASSUME NEW S, IsFiniteSet(S), NEW R, Orders(R, S), NEW r \in 0 .. Cardinality(S)
    PROVE  Cardinality({a \in S : Cardinality(Earlier(R, S, a)) < r}) = r
  <1> DEFINE f == [a \in S |-> Cardinality(Earlier(R, S, a))]
             T == {a \in S : Cardinality(Earlier(R, S, a)) < r}
             h == [a \in T |-> f[a]]
  <1>1. PICK n \in Nat : n = Cardinality(S)
    BY FS_CardinalityType
  <1>2. f \in [S -> 0 .. n - 1]
    BY <1>1, PlacesRise
  <1>3. \A a, b \in S : a # b => f[a] # f[b]
    <2>1. ASSUME NEW a \in S, NEW b \in S, <<a, b>> \in R PROVE f[a] # f[b]
      <3>1. f[a] < f[b]
        BY <2>1, PlacesRise
      <3>2. f[a] \in 0 .. n - 1
        BY <1>2
      <3> QED BY <3>1, <3>2
    <2> HIDE DEF f
    <2> QED BY <2>1 DEF Orders
  <1>4. f \in Injection(S, 0 .. n - 1)
    BY <1>2, <1>3, Fun_IsInj
  <1>5. f \in Surjection(S, 0 .. n - 1)
    <2>1. IsFiniteSet(0 .. n - 1) /\ Cardinality(0 .. n - 1) = n
      BY FS_Interval
    <2> HIDE DEF f
    <2> QED BY <1>1, <1>4, <2>1, FS_Injection
  <1>6. h \in [T -> 0 .. r - 1]
    <2> SUFFICES ASSUME NEW a \in T PROVE f[a] \in 0 .. r - 1
      OBVIOUS
    <2>1. f[a] \in 0 .. n - 1 /\ f[a] < r /\ r \in Int
      BY <1>1, <1>2
    <2> QED BY <2>1
  <1>7. h \in Injection(T, 0 .. r - 1)
    <2>1. \A a, b \in T : a # b => h[a] # h[b]
      BY <1>3
    <2> HIDE DEF h
    <2> QED BY <1>6, <2>1, Fun_IsInj
  <1>8. h \in Surjection(T, 0 .. r - 1)
    <2>1. ASSUME NEW k \in 0 .. r - 1 PROVE \E a \in T : h[a] = k
      <3>1. k \in 0 .. n - 1
        BY <1>1
      <3>2. PICK a \in S : f[a] = k
        <4> HIDE DEF f
        <4>1. \A t \in 0 .. n - 1 : \E s \in S : f[s] = t
          BY <1>5, Fun_SurjectionProperties
        <4> QED BY <3>1, <4>1
      <3>3. a \in T
        BY <3>2
      <3> QED BY <3>2, <3>3
    <2> HIDE DEF h
    <2> QED BY <1>6, <2>1, Fun_IsSurj
  <1>9. IsFiniteSet(T)
    BY FS_Subset
  <1>10. IsFiniteSet(0 .. r - 1) /\ Cardinality(0 .. r - 1) = r
    <2>1. r \in Nat /\ r - 1 \in Int
      BY <1>1
    <2> QED BY <2>1, FS_Interval
  <1> HIDE DEF T, h
  <1>11. Cardinality(T) = Cardinality(0 .. r - 1)
    BY <1>7, <1>8, <1>9, FS_Surjection
  <1> QED BY <1>10, <1>11 DEF T

(* A set in an order has a last element. *)
LEMMA LastOfOrder ==
    ASSUME NEW S, IsFiniteSet(S), NEW R, Orders(R, S), S # {}
    PROVE  \E a \in S : \A b \in S : b # a => <<b, a>> \in R /\ <<a, b>> \notin R
  <1>1. PICK n \in Nat : n = Cardinality(S)
    BY FS_CardinalityType
  <1>2. n > 0
    BY <1>1, FS_EmptySet
  <1> DEFINE T == {a \in S : Cardinality(Earlier(R, S, a)) < n - 1}
  <1>3. Cardinality(T) = n - 1
    BY <1>1, <1>2, PlacesCount
  <1>4. PICK a \in S : a \notin T
    <2>1. T # S
      <3> HIDE DEF T
      <3> QED BY <1>1, <1>3
    <2> QED BY <2>1
  <1>5. \A b \in S : <<a, b>> \notin R
    <2> SUFFICES ASSUME NEW b \in S, <<a, b>> \in R PROVE FALSE
      OBVIOUS
    <2>1. PICK i, j : i = Cardinality(Earlier(R, S, a)) /\ j = Cardinality(Earlier(R, S, b))
      OBVIOUS
    <2>2. i < j /\ i \in 0 .. n - 1 /\ j \in 0 .. n - 1
      BY <1>1, <2>1, PlacesRise
    <2>3. ~(i < n - 1)
      BY <1>4, <2>1
    <2> QED BY <2>2, <2>3
  <1> QED BY <1>5 DEF Orders

-----------------------------------------------------------------------------
LEMMA DivisionLeavesRest ==
    ASSUME NEW x \in Nat, NEW t \in Nat \ {0}
    PROVE  /\ x \div t \in Nat /\ x % t \in 0 .. t - 1
           /\ x = t * (x \div t) + (x % t)
  OBVIOUS

LEMMA FactorsCompare ==
    ASSUME NEW t \in Nat \ {0}, NEW r \in Int, NEW c \in Int, t * r <= t * c
    PROVE  r <= c
  <1> SUFFICES ASSUME r >= c + 1 PROVE FALSE
    OBVIOUS
  <1>1. t * r >= t * (c + 1)
    OBVIOUS
  <1>2. t * (c + 1) = t * c + t
    OBVIOUS
  <1> QED BY <1>1, <1>2

(* The items of allocateIntegerSats, the whole sats and the fraction of each. *)
Divided(D, weight, amount, total, items, whole, fraction, some) ==
    /\ items = {a \in D : weight[a] > 0}
    /\ whole = [a \in items |-> (weight[a] * amount) \div total]
    /\ fraction = [a \in items |-> (weight[a] * amount) % total]
    /\ some = {a \in items : fraction[a] > 0}

(* The sats left over are as many as some of the items with a fraction. *)
LEMMA SatsLeftOver ==
    ASSUME NEW D, IsFiniteSet(D), NEW weight \in [D -> Nat],
           NEW amount \in Nat, NEW total \in Nat \ {0}, total = Total(weight, D),
           NEW items, NEW whole, NEW fraction, NEW some,
           Divided(D, weight, amount, total, items, whole, fraction, some)
    PROVE  /\ amount - Total(whole, items) \in 0 .. Cardinality(some)
           /\ Total(whole, items) \in Nat
           /\ \A a \in items : /\ whole[a] \in Nat /\ fraction[a] \in 0 .. total - 1
                               /\ amount * weight[a] = total * whole[a] + fraction[a]
  <1> DEFINE count == [a \in items |-> IF a \in some THEN 1 ELSE 0]
             scaled == [a \in items |-> amount * weight[a]]
             wholes == [a \in items |-> total * whole[a]]
             most == [a \in items |-> total * count[a]]
  <1> USE DEF Divided
  <1>1. IsFiniteSet(items) /\ IsFiniteSet(some) /\ items \in SUBSET D /\ some \in SUBSET items
    BY FS_Subset
  <1>2. ASSUME NEW a \in items
        PROVE  /\ whole[a] \in Nat /\ fraction[a] \in 0 .. total - 1
               /\ amount * weight[a] = total * whole[a] + fraction[a]
               /\ weight[a] \in Nat
    <2>1. weight[a] \in Nat
      OBVIOUS
    <2>2. PICK x \in Nat : x = weight[a] * amount /\ x = amount * weight[a]
      BY <2>1
    <2>3. whole[a] = x \div total /\ fraction[a] = x % total
      BY <2>2
    <2>4. PICK q, r : q = x \div total /\ r = x % total
      OBVIOUS
    <2>5. x = total * q + r /\ q \in Nat /\ r \in 0 .. total - 1
      BY ONLY <2>4, x \in Nat, total \in Nat \ {0}, DivisionLeavesRest
    <2> QED BY ONLY <2>1, <2>2, <2>3, <2>4, <2>5
  <1>3. Total(weight, items) = total
    BY <1>1, TotalSkips
  <1>4. Total(scaled, items) = amount * total
    <2>1. (\A a \in items : weight[a] \in Int /\ scaled[a] = amount * weight[a]) /\ amount \in Int
      BY <1>2
    <2> HIDE DEF scaled
    <2> QED BY <1>1, <1>3, <2>1, TotalTimes
  <1>5. Total(wholes, items) = total * Total(whole, items)
    <2>1. (\A a \in items : whole[a] \in Int /\ wholes[a] = total * whole[a]) /\ total \in Int
      BY <1>2
    <2> HIDE DEF wholes
    <2> QED BY <1>1, <2>1, TotalTimes
  <1>6. Total(scaled, items) = Total(wholes, items) + Total(fraction, items)
    <2>1. ASSUME NEW a \in items
          PROVE  wholes[a] \in Int /\ fraction[a] \in Int /\ scaled[a] = wholes[a] + fraction[a]
      <3>1. wholes[a] = total * whole[a] /\ scaled[a] = amount * weight[a]
        OBVIOUS
      <3>2. total * whole[a] \in Int
        BY <1>2
      <3> QED BY <1>2, <3>1, <3>2
    <2> HIDE DEF wholes, scaled
    <2> QED BY <1>1, <2>1, TotalsAddUp DEF AddUp
  <1>7. Total(count, items) = Cardinality(some)
    <2>1. \A a \in items : count[a] = IF a \in some THEN 1 ELSE 0
      OBVIOUS
    <2> HIDE DEF count
    <2> QED BY ONLY <1>1, <2>1, TotalCounts
  <1>8. Total(most, items) = total * Cardinality(some)
    <2>1. (\A a \in items : count[a] \in Int /\ most[a] = total * count[a]) /\ total \in Int
      OBVIOUS
    <2> HIDE DEF most, count
    <2>2. Total(most, items) = total * Total(count, items)
      BY <1>1, <2>1, TotalTimes
    <2> QED BY <1>7, <2>2
  <1>9. Total(fraction, items) <= Total(most, items)
    <2>1. ASSUME NEW a \in items
          PROVE  fraction[a] \in Int /\ most[a] \in Int /\ fraction[a] <= most[a]
      <3>1. fraction[a] \in 0 .. total - 1
        BY <1>2
      <3>2. most[a] = IF fraction[a] > 0 THEN total ELSE 0
        OBVIOUS
      <3> QED BY <3>1, <3>2
    <2> HIDE DEF most
    <2> QED BY <1>1, <2>1, TotalsCompare
  <1>10. Total(fraction, items) \in Nat /\ Total(whole, items) \in Nat
    <2>1. (\A a \in items : fraction[a] \in Nat) /\ (\A a \in items : whole[a] \in Nat)
      BY <1>2
    <2>2. Total(fraction, items) \in Nat
      BY <1>1, <2>1, TotalIsNat
    <2>3. Total(whole, items) \in Nat
      BY <1>1, <2>1, TotalIsNat
    <2> QED BY <2>2, <2>3
  <1>11. Cardinality(some) \in Nat
    BY <1>1, FS_CardinalityType
  <1> HIDE DEF count, scaled, wholes, most
  <1>12. PICK m \in Nat, f \in Nat, c \in Nat :
             m = Total(whole, items) /\ f = Total(fraction, items) /\ c = Cardinality(some)
    BY <1>10, <1>11
  <1> DEFINE r == amount - m
  <1>13. amount * total = total * m + f /\ f <= total * c
    BY <1>4, <1>5, <1>6, <1>8, <1>9, <1>12
  <1>14. total * r = total * amount - total * m /\ total * amount = amount * total
    BY <1>12
  <1>15. total * 0 <= total * r /\ total * r <= total * c
    BY <1>12, <1>13, <1>14
  <1>16. 0 <= r /\ r <= c
    <2>1. 0 \in Int /\ c \in Int
      BY <1>12
    <2>2. 0 <= r
      BY <2>1, <1>12, <1>15, FactorsCompare
    <2>3. r <= c
      BY <2>1, <1>12, <1>15, FactorsCompare
    <2> QED BY <2>2, <2>3
  <1>17. amount - Total(whole, items) \in 0 .. Cardinality(some)
    BY <1>12, <1>16
  <1> QED BY <1>2, <1>10, <1>17

LEMMA AddressesFinite == Addresses \subseteq Nat /\ IsFiniteSet(Addresses)
  BY PayoutDistributionAssumption

(* What each address is given of an amount: nothing without a weight, the    *)
(* amount in all, and within one sat of its exact share.                     *)
FairlyGiven(D, weight, amount, total, given) ==
    /\ given \in [Addresses -> Nat]
    /\ \A a \in Addresses : given[a] > 0 => a \in D /\ weight[a] > 0
    /\ Total(given, Addresses) = IF amount > 0 /\ total > 0 THEN amount ELSE 0
    /\ amount >= 0 /\ total > 0 =>
           \A a \in D : /\ -total < given[a] * total - weight[a] * amount
                        /\ given[a] * total - weight[a] * amount < total

(* allocateIntegerSats does, if there is something to give. *)
LEMMA SatsGiven ==
    ASSUME NEW D \in SUBSET Addresses, NEW weight \in [D -> Nat],
           NEW amount \in Nat \ {0}, NEW total \in Nat \ {0}, total = Total(weight, D)
    PROVE  FairlyGiven(D, weight, amount, total, AllocateIntegerSats(weight, amount, total))
  <1> DEFINE given == AllocateIntegerSats(weight, amount, total)
  <1>1. PICK items : items = {a \in D : weight[a] > 0}
    OBVIOUS
  <1>2. PICK whole : whole = [a \in items |-> (weight[a] * amount) \div total]
    OBVIOUS
  <1>3. PICK fraction : fraction = [a \in items |-> (weight[a] * amount) % total]
    OBVIOUS
  <1>4. PICK some : some = {a \in items : fraction[a] > 0}
    OBVIOUS
  <1>5. PICK residual : residual = amount - Total(whole, items)
    OBVIOUS
  <1>6. IsFiniteSet(D) /\ IsFiniteSet(items) /\ some \in SUBSET items /\ IsFiniteSet(some)
        /\ items \in SUBSET Addresses
    <2>1. IsFiniteSet(D)
      BY AddressesFinite, FS_Subset
    <2>2. items \in SUBSET D /\ some \in SUBSET items
      BY <1>1, <1>4
    <2> QED BY <2>1, <2>2, FS_Subset
  <1>7. /\ residual \in 0 .. Cardinality(some) /\ Total(whole, items) \in Nat
        /\ \A a \in items : /\ whole[a] \in Nat /\ fraction[a] \in 0 .. total - 1
                            /\ amount * weight[a] = total * whole[a] + fraction[a]
    <2>1. Divided(D, weight, amount, total, items, whole, fraction, some)
      BY <1>1, <1>2, <1>3, <1>4 DEF Divided
    <2>2. amount \in Nat
      OBVIOUS
    <2>3. IsFiniteSet(D)
      BY <1>6
    <2> QED BY ONLY <2>1, <2>2, <2>3, <1>5, weight \in [D -> Nat], total \in Nat \ {0},
                   total = Total(weight, D), SatsLeftOver
  <1>8. \A a \in items : /\ whole[a] \in Nat /\ fraction[a] \in 0 .. total - 1
                         /\ amount * weight[a] = total * whole[a] + fraction[a]
                         /\ weight[a] \in Nat
    BY <1>1, <1>7
  <1> DEFINE Before(b, a) ==
                 \/ fraction[b] > fraction[a]
                 \/ fraction[b] = fraction[a] /\ weight[b] > weight[a]
                 \/ fraction[b] = fraction[a] /\ weight[b] = weight[a] /\ b < a
  <1>9. PICK R : R = {p \in items \X items : Before(p[1], p[2])}
    OBVIOUS
  <1>10. \A a, b \in items : <<b, a>> \in R <=> Before(b, a)
    BY <1>9
  <1>11. Orders(R, items)
    <2>1. \A a \in items : a \in Nat /\ fraction[a] \in Nat /\ weight[a] \in Nat
      BY <1>6, <1>8, AddressesFinite
    <2>2. \A a \in items : <<a, a>> \notin R
      BY <1>10, <2>1
    <2>3. \A a, b \in items : a # b => <<a, b>> \in R \/ <<b, a>> \in R
      BY <1>10, <2>1
    <2>4. \A a, b, c \in items : <<a, b>> \in R /\ <<b, c>> \in R => <<a, c>> \in R
      BY <1>10, <2>1
    <2> QED BY <2>2, <2>3, <2>4 DEF Orders
  <1>12. PICK first : first = {a \in items : Cardinality(Earlier(R, items, a)) < residual}
    OBVIOUS
  <1>13. Cardinality(first) = residual /\ first \in SUBSET items
    <2>1. Cardinality(some) \in Nat /\ Cardinality(items) \in Nat
          /\ Cardinality(some) <= Cardinality(items)
      BY <1>6, FS_Subset, FS_CardinalityType
    <2>2. residual \in 0 .. Cardinality(items)
      BY <1>7, <2>1
    <2> QED BY <1>6, <1>11, <1>12, <2>2, PlacesCount
  <1>14. given = [a \in Addresses |-> IF a \notin items THEN 0
                                      ELSE IF a \in first THEN whole[a] + 1 ELSE whole[a]]
    <2>1. given = [a \in Addresses |->
                      IF a \notin items THEN 0
                      ELSE IF Cardinality({b \in items : Before(b, a)}) < residual
                           THEN whole[a] + 1 ELSE whole[a]]
      <3>1. ~(amount <= 0 \/ total <= 0) /\ D = DOMAIN weight
        OBVIOUS
      <3>2. SumFunction(whole) = Total(whole, items)
        BY <1>2, SumIsTotal
      <3>3. given = [a \in Addresses |->
                        IF a \notin items THEN 0
                        ELSE IF Cardinality({b \in items : Before(b, a)}) < amount - SumFunction(whole)
                             THEN whole[a] + 1 ELSE whole[a]]
        BY ONLY <1>1, <1>2, <1>3, <3>1, Zenon DEF AllocateIntegerSats
      <3> HIDE DEF given
      <3> QED BY ONLY <1>5, <3>2, <3>3
    <2> HIDE DEF given
    <2>2. ASSUME NEW a \in items
          PROVE  {b \in items : Before(b, a)} = Earlier(R, items, a)
      BY <1>10 DEF Earlier
    <2>3. \A a \in items : Cardinality({b \in items : Before(b, a)}) < residual <=> a \in first
      BY <1>12, <2>2
    <2> HIDE DEF Before
    <2> QED BY <2>1, <2>3
  <1> HIDE DEF given
  <1>15. ASSUME NEW a \in first PROVE fraction[a] > 0
    <2> SUFFICES ASSUME fraction[a] = 0 PROVE FALSE
      BY <1>8, <1>13
    <2>1. some \subseteq Earlier(R, items, a)
      BY <1>4, <1>10, <1>13 DEF Earlier
    <2>2. IsFiniteSet(Earlier(R, items, a))
      BY <1>6, <1>11, <1>13, PlacesRise
    <2>3. Cardinality(some) <= Cardinality(Earlier(R, items, a))
      BY <2>1, <2>2, FS_Subset
    <2>4. Cardinality(Earlier(R, items, a)) < residual
      BY <1>12
    <2>5. Cardinality(some) \in Nat /\ Cardinality(Earlier(R, items, a)) \in Nat
      BY <1>6, <2>2, FS_CardinalityType
    <2> QED BY <1>7, <2>3, <2>4, <2>5
  <1>16. given \in [Addresses -> Nat]
    BY <1>8, <1>14
  <1>17. \A a \in Addresses : given[a] > 0 => a \in D /\ weight[a] > 0
    BY <1>1, <1>14
  <1>18. Total(given, Addresses) = amount
    <2> DEFINE bonus == [a \in items |-> IF a \in first THEN 1 ELSE 0]
    <2>1. Total(given, Addresses) = Total(given, items)
      <3>1. \A a \in Addresses : given[a] \in Int
        BY <1>16
      <3>2. \A a \in Addresses \ items : given[a] = 0
        BY <1>14
      <3>3. IsFiniteSet(Addresses) /\ items \in SUBSET Addresses
        BY <1>6, AddressesFinite
      <3> QED BY ONLY <3>1, <3>2, <3>3, TotalSkips
    <2>2. Total(bonus, items) = residual
      <3>1. \A a \in items : bonus[a] = IF a \in first THEN 1 ELSE 0
        OBVIOUS
      <3> HIDE DEF bonus
      <3> QED BY <1>6, <1>13, <3>1, TotalCounts
    <2>3. Total(given, items) = Total(whole, items) + Total(bonus, items)
      <3>1. \A a \in items : whole[a] \in Int /\ bonus[a] \in Int /\ given[a] = whole[a] + bonus[a]
        BY <1>6, <1>8, <1>14
      <3> HIDE DEF bonus
      <3> QED BY <1>6, <3>1, TotalsAddUp DEF AddUp
    <2> HIDE DEF bonus
    <2> QED BY <1>5, <1>7, <2>1, <2>2, <2>3
  <1>19. ASSUME NEW a \in D
         PROVE  /\ -total < given[a] * total - weight[a] * amount
                /\ given[a] * total - weight[a] * amount < total
    <2>1. CASE a \notin items
      <3>1. given[a] = 0 /\ weight[a] = 0
        BY <1>1, <1>14, <2>1
      <3> QED BY <3>1
    <2>2. CASE a \in items
      <3>1. PICK w \in Nat, q \in Nat, r \in 0 .. total - 1, g \in Nat :
                /\ w = weight[a] /\ q = whole[a] /\ r = fraction[a] /\ g = given[a]
                /\ amount * w = total * q + r
        <4>1. weight[a] \in Nat /\ whole[a] \in Nat /\ given[a] \in Nat
              /\ fraction[a] \in 0 .. total - 1
              /\ amount * weight[a] = total * whole[a] + fraction[a]
          BY <1>8, <1>16, <2>2
        <4> QED BY <4>1
      <3>2. g * total - w * amount = total * g - (total * q + r)
        BY <3>1
      <3>3. CASE a \in first
        <4>1. g = q + 1 /\ r > 0
          BY <1>14, <1>15, <2>2, <3>1, <3>3
        <4>2. total * g = total * q + total
          BY <3>1, <4>1
        <4> QED BY <3>1, <3>2, <4>1, <4>2
      <3>4. CASE a \notin first
        <4>1. g = q
          BY <1>14, <2>2, <3>1, <3>4
        <4> QED BY <3>1, <3>2, <4>1
      <3> QED BY <3>3, <3>4
    <2> QED BY <2>1, <2>2
  <1> QED BY <1>16, <1>17, <1>18, <1>19 DEF FairlyGiven, given

(* Otherwise it gives nothing. *)
LEMMA SatsWithheld ==
    ASSUME NEW weight, NEW amount, NEW total, amount <= 0 \/ total <= 0
    PROVE  AllocateIntegerSats(weight, amount, total) = [a \in Addresses |-> 0]
  BY DEF AllocateIntegerSats

LEMMA SatsAllocated ==
    ASSUME NEW D \in SUBSET Addresses, NEW weight \in [D -> Nat], NEW amount \in Int,
           NEW total, total = Total(weight, D)
    PROVE  FairlyGiven(D, weight, amount, total, AllocateIntegerSats(weight, amount, total))
  <1>1. total \in Nat
    <2>1. IsFiniteSet(D) /\ \A a \in D : weight[a] \in Nat
      BY AddressesFinite, FS_Subset
    <2> QED BY <2>1, TotalIsNat
  <1>2. CASE amount > 0 /\ total > 0
    <2>1. amount \in Nat \ {0} /\ total \in Nat \ {0}
      BY <1>1, <1>2
    <2> QED BY <2>1, SatsGiven
  <1>3. CASE amount <= 0 \/ total <= 0
    <2>1. PICK given : given = AllocateIntegerSats(weight, amount, total)
      OBVIOUS
    <2>2. given = [a \in Addresses |-> 0]
      BY <1>3, <2>1, SatsWithheld
    <2>3. Total(given, Addresses) = 0
      <3>1. \A a \in Addresses : given[a] \in Int
        BY <2>2
      <3>2. \A a \in Addresses \ {} : given[a] = 0
        BY <2>2
      <3>3. Total(given, Addresses) = Total(given, {})
        BY <3>1, <3>2, AddressesFinite, TotalSkips
      <3> QED BY <3>3, TotalOfNone
    <2>4. ASSUME amount >= 0, total > 0, NEW a \in D
          PROVE  /\ -total < given[a] * total - weight[a] * amount
                 /\ given[a] * total - weight[a] * amount < total
      <3>1. amount = 0 /\ given[a] = 0 /\ weight[a] \in Nat
        BY <1>1, <1>3, <2>2, <2>4
      <3>2. given[a] * total = 0 /\ weight[a] * amount = 0
        BY <1>1, <3>1
      <3> QED BY <1>1, <2>4, <3>2
    <2>5. ~(amount > 0 /\ total > 0)
      BY <1>1, <1>3
    <2> QED BY <2>1, <2>2, <2>3, <2>4, <2>5 DEF FairlyGiven
  <1> QED BY <1>1, <1>2, <1>3

-----------------------------------------------------------------------------
WorkOf(r) == [a \in Addresses |-> r[a].work]
GrossOf(r) == [a \in Addresses |-> r[a].gross]
PaidOf(r) == [a \in Addresses |-> r[a].paid]
AfterOf(r) == [a \in Addresses |-> r[a].after]

LEMMA PaidIsTotal ==
    ASSUME NEW r \in [Addresses -> RowType], NEW S \in SUBSET Addresses
    PROVE  TotalPaid(r, S) = Total(PaidOf(r), S) /\ Total(PaidOf(r), S) \in Nat
  <1> DEFINE p == [a \in S |-> r[a].paid]
  <1>1. IsFiniteSet(S)
    BY AddressesFinite, FS_Subset
  <1>2. \A a \in S : p[a] \in Int /\ p[a] = PaidOf(r)[a]
    BY DEF PaidOf, RowType
  <1>3. \A a \in S : PaidOf(r)[a] \in Nat
    BY DEF PaidOf, RowType
  <1>4. TotalPaid(r, S) = Total(p, S)
    BY SumIsTotal DEF TotalPaid
  <1> HIDE DEF p
  <1>5. Total(p, S) = Total(PaidOf(r), S)
    BY <1>1, <1>2, TotalsEqual
  <1>6. Total(PaidOf(r), S) \in Nat
    BY <1>1, <1>3, TotalIsNat
  <1> QED BY <1>4, <1>5, <1>6

(* The shares by work of the addresses in S. *)
LEMMA WorkShares ==
    ASSUME NEW r \in [Addresses -> RowType], NEW S \in SUBSET Addresses, NEW amount \in Int,
           NEW given, given = ByWork(r, S, amount)
    PROVE  /\ given \in [Addresses -> Nat]
           /\ \A a \in Addresses : given[a] > 0 => a \in S \cap Active(r)
           /\ Total(given, Addresses) =
                  IF amount > 0 /\ S \cap Active(r) # {} THEN amount ELSE 0
  <1>1. PICK w : w = [a \in S |-> r[a].work]
    OBVIOUS
  <1>2. PICK t : t = Total(w, S)
    OBVIOUS
  <1>3. w \in [S -> Nat] /\ IsFiniteSet(S)
    BY <1>1, AddressesFinite, FS_Subset DEF RowType
  <1>4. given = AllocateIntegerSats(w, amount, t)
    BY <1>1, <1>2, SumIsTotal DEF ByWork
  <1>5. /\ given \in [Addresses -> Nat]
        /\ \A a \in Addresses : given[a] > 0 => a \in S /\ w[a] > 0
        /\ Total(given, Addresses) = IF amount > 0 /\ t > 0 THEN amount ELSE 0
    <2>1. FairlyGiven(S, w, amount, t, AllocateIntegerSats(w, amount, t))
      BY <1>2, <1>3, SatsAllocated
    <2> QED BY <1>4, <2>1 DEF FairlyGiven
  <1>6. t > 0 <=> S \cap Active(r) # {}
    <2>1. CASE S \cap Active(r) = {}
      <3>1. \A a \in S \ {} : w[a] = 0
        BY <1>1, <2>1 DEF Active, RowType
      <3>2. \A a \in S : w[a] \in Int
        BY <1>3
      <3>3. Total(w, S) = Total(w, {})
        BY <1>3, <3>1, <3>2, TotalSkips
      <3> QED BY <1>2, <2>1, <3>3, TotalOfNone
    <2>2. CASE S \cap Active(r) # {}
      <3>1. PICK a \in S : w[a] > 0
        BY <1>1, <2>2 DEF Active
      <3>2. \A b \in S : w[b] \in Nat
        BY <1>3
      <3>3. w[a] <= t /\ t \in Nat
        BY <1>2, <1>3, <3>2, TotalBounds
      <3> QED BY <1>3, <2>2, <3>1, <3>3
    <2> QED BY <2>1, <2>2
  <1>7. \A a \in Addresses : given[a] > 0 => a \in S \cap Active(r)
    BY <1>1, <1>5 DEF Active
  <1> QED BY <1>5, <1>6, <1>7

RowPlus(x, e) == [x EXCEPT !.paid = @ + e, !.after = @ - e]
RowOf(x, p, b) ==
    [work |-> x.work, gross |-> x.gross, before |-> x.before, target |-> x.target,
     paid |-> p, after |-> b, included |-> x.included]

LEMMA RowPaid ==
    ASSUME NEW x \in RowType, NEW e \in Int
    PROVE  RowPlus(x, e) = RowOf(x, x.paid + e, x.after - e)
  <1>1. x = [work |-> x.work, gross |-> x.gross, before |-> x.before, target |-> x.target,
             paid |-> x.paid, after |-> x.after, included |-> x.included]
    BY DEF RowType
  <1>2. PICK y : y = RowPlus(x, e)
    OBVIOUS
  <1>3. y = [x EXCEPT !.paid = @ + e, !.after = @ - e]
    BY <1>2 DEF RowPlus
  <1>4. y = [work |-> x.work, gross |-> x.gross, before |-> x.before, target |-> x.target,
             paid |-> x.paid + e, after |-> x.after - e, included |-> x.included]
    BY <1>1, <1>3
  <1> QED BY <1>2, <1>4 DEF RowOf

LEMMA RowPaidTwice ==
    ASSUME NEW x \in RowType, NEW i \in Nat, NEW j \in Nat
    PROVE  RowPlus(RowPlus(x, i), j) = RowPlus(x, i + j)
  <1>1. PICK p \in Int, b \in Int : p = x.paid /\ b = x.after
    BY DEF RowType
  <1>2. RowPlus(x, i) = RowOf(x, p + i, b - i) /\ RowPlus(x, i + j) = RowOf(x, p + (i + j), b - (i + j))
    BY <1>1, RowPaid
  <1>3. RowPlus(RowOf(x, p + i, b - i), j) = RowOf(x, (p + i) + j, (b - i) - j)
    <2>1. PICK y : y = RowOf(x, p + i, b - i)
      OBVIOUS
    <2>2. y \in RowType
      <3>1. p + i \in Nat /\ b - i \in Int
        BY <1>1 DEF RowType
      <3>2. x.work \in Nat /\ x.gross \in Nat /\ x.before \in Int /\ x.target \in Int
            /\ x.included \in BOOLEAN
        BY DEF RowType
      <3> QED BY ONLY <2>1, <3>1, <3>2 DEF RowOf, RowType
    <2>3. RowPlus(y, j) = RowOf(y, y.paid + j, y.after - j)
      BY <2>2, RowPaid
    <2>4. /\ y.work = x.work /\ y.gross = x.gross /\ y.before = x.before /\ y.target = x.target
          /\ y.paid = p + i /\ y.after = b - i /\ y.included = x.included
      BY ONLY <2>1 DEF RowOf
    <2> QED BY ONLY <2>1, <2>3, <2>4 DEF RowOf
  <1>4. (p + i) + j = p + (i + j) /\ (b - i) - j = b - (i + j)
    BY <1>1
  <1> QED BY <1>2, <1>3, <1>4

(* AddPayment adds to the sum of the payouts. *)
LEMMA PaymentAdds ==
    ASSUME NEW r \in [Addresses -> RowType], NEW extra \in [Addresses -> Nat],
           NEW q, q = AddPayment(r, extra)
    PROVE  /\ q \in [Addresses -> RowType]
           /\ \A a \in Addresses :
                 /\ q[a].paid = r[a].paid + extra[a] /\ q[a].after = r[a].after - extra[a]
                 /\ q[a].work = r[a].work /\ q[a].gross = r[a].gross
                 /\ q[a].before = r[a].before /\ q[a].target = r[a].target
                 /\ q[a].included = r[a].included
           /\ Total(PaidOf(q), Addresses) = Total(PaidOf(r), Addresses) + Total(extra, Addresses)
  <1>1. ASSUME NEW a \in Addresses
        PROVE  /\ q[a] \in RowType
               /\ q[a].paid = r[a].paid + extra[a] /\ q[a].after = r[a].after - extra[a]
               /\ q[a].work = r[a].work /\ q[a].gross = r[a].gross
               /\ q[a].before = r[a].before /\ q[a].target = r[a].target
               /\ q[a].included = r[a].included
    <2>1. r[a] \in RowType /\ extra[a] \in Nat
      OBVIOUS
    <2>2. q[a] = [r[a] EXCEPT !.paid = @ + extra[a], !.after = @ - extra[a]]
      BY DEF AddPayment
    <2>3. r[a].paid \in Nat /\ r[a].after \in Int
      BY <2>1 DEF RowType
    <2>4. r[a].paid + extra[a] \in Nat /\ r[a].after - extra[a] \in Int
      BY <2>1, <2>3
    <2>5. r[a] = [work |-> r[a].work, gross |-> r[a].gross, before |-> r[a].before,
                  target |-> r[a].target, paid |-> r[a].paid, after |-> r[a].after,
                  included |-> r[a].included]
      BY <2>1 DEF RowType
    <2>6. q[a] = [work |-> r[a].work, gross |-> r[a].gross, before |-> r[a].before,
                  target |-> r[a].target, paid |-> r[a].paid + extra[a],
                  after |-> r[a].after - extra[a], included |-> r[a].included]
      BY <2>2, <2>5
    <2>7. q[a] \in RowType
      BY <2>1, <2>4, <2>6 DEF RowType
    <2> QED BY <2>6, <2>7
  <1>2. q \in [Addresses -> RowType]
    <2>1. q = [a \in Addresses |-> q[a]]
      BY DEF AddPayment
    <2> QED BY <1>1, <2>1
  <1>3. Total(PaidOf(q), Addresses) = Total(PaidOf(r), Addresses) + Total(extra, Addresses)
    <2>1. ASSUME NEW a \in Addresses
          PROVE  PaidOf(r)[a] \in Int /\ extra[a] \in Int
                 /\ PaidOf(q)[a] = PaidOf(r)[a] + extra[a]
      <3>1. r[a] \in RowType /\ extra[a] \in Nat
        OBVIOUS
      <3> QED BY <1>1, <3>1 DEF PaidOf, RowType
    <2>2. PICK p, s : p = PaidOf(r) /\ s = PaidOf(q)
      OBVIOUS
    <2>3. \A a \in Addresses : p[a] \in Int /\ extra[a] \in Int /\ s[a] = p[a] + extra[a]
      BY <2>1, <2>2
    <2>4. AddUp(p, extra, s, Addresses)
      BY <2>3 DEF AddUp
    <2>5. Total(s, Addresses) = Total(p, Addresses) + Total(extra, Addresses)
      BY ONLY <2>4, AddressesFinite, TotalsAddUp
    <2> QED BY <2>2, <2>5
  <1> QED BY <1>1, <1>2, <1>3

-----------------------------------------------------------------------------
(* ChooseOutputs: what fits after the earlier ones that were taken. *)
Fits(R, w, used, budget, T, a) == used + w[a] + Total(w, {b \in T : <<b, a>> \in R}) <= budget
Fitting(R, w, used, budget, S, T) == \A a \in S : a \in T <=> Fits(R, w, used, budget, T, a)

(* Trying one after the other takes a set of this kind: ... *)
LEMMA FittingExists ==
    ASSUME NEW S, IsFiniteSet(S), NEW R, Orders(R, S), NEW w, NEW used, NEW budget
    PROVE  \E T \in SUBSET S : Fitting(R, w, used, budget, S, T)
  <1> DEFINE closed(D) == \A a \in D : \A b \in S : <<b, a>> \in R => b \in D
             solved(D) == \E T \in SUBSET D : Fitting(R, w, used, budget, D, T)
             bad == {D \in SUBSET S : closed(D) /\ ~solved(D)}
  <1> SUFFICES ASSUME ~solved(S) PROVE FALSE
    OBVIOUS
  <1>1. S \in bad /\ bad \subseteq SUBSET S
    OBVIOUS
  <1>2. PICK D \in bad : \A U \in SUBSET D : U # D => U \notin bad
    <2> HIDE DEF bad
    <2> QED BY <1>1, MinimalSubset
  <1>3. D \in SUBSET S /\ closed(D) /\ ~solved(D) /\ IsFiniteSet(D)
    BY <1>2, FS_Subset
  <1>4. D # {}
    <2> SUFFICES ASSUME D = {} PROVE FALSE
      OBVIOUS
    <2>1. Fitting(R, w, used, budget, {}, {})
      BY DEF Fitting
    <2> QED BY <1>3, <2>1
  <1>5. PICK m \in D : \A b \in D : b # m => <<b, m>> \in R /\ <<m, b>> \notin R
    <2>1. Orders(R, D)
      BY <1>3 DEF Orders
    <2> QED BY <1>3, <1>4, <2>1, LastOfOrder
  <1>6. PICK U : U = D \ {m}
    OBVIOUS
  <1>7. U \in SUBSET D /\ U # D /\ U \in SUBSET S /\ <<m, m>> \notin R
    BY <1>3, <1>6 DEF Orders
  <1>8. closed(U)
    BY <1>3, <1>5, <1>6
  <1>9. PICK V \in SUBSET U : Fitting(R, w, used, budget, U, V)
    <2>1. U \notin bad
      BY <1>2, <1>7
    <2> QED BY <1>7, <1>8, <2>1
  <1>10. PICK T : T = IF Fits(R, w, used, budget, V, m) THEN V \cup {m} ELSE V
    OBVIOUS
  <1>11. T \in SUBSET D /\ (m \in T <=> Fits(R, w, used, budget, V, m)) /\ T \ {m} = V
    BY <1>6, <1>7, <1>9, <1>10
  <1>12. ASSUME NEW a \in D PROVE {b \in T : <<b, a>> \in R} = {b \in V : <<b, a>> \in R}
    <2>1. <<m, a>> \notin R
      BY <1>5, <1>7
    <2> QED BY <1>11, <2>1
  <1>13. \A a \in D : Fits(R, w, used, budget, T, a) <=> Fits(R, w, used, budget, V, a)
    BY <1>12 DEF Fits
  <1>14. Fitting(R, w, used, budget, D, T)
    <2> SUFFICES ASSUME NEW a \in D PROVE a \in T <=> Fits(R, w, used, budget, T, a)
      BY DEF Fitting
    <2>1. CASE a = m
      BY <1>11, <1>13, <2>1
    <2>2. CASE a # m
      <3>1. a \in V <=> Fits(R, w, used, budget, V, a)
        BY <1>6, <1>9, <2>2 DEF Fitting
      <3> QED BY <1>11, <1>13, <2>2, <3>1
    <2> QED BY <2>1, <2>2
  <1> QED BY <1>3, <1>11, <1>14

(* ... and it stays within the budget. *)
LEMMA FittingIsWithin ==
    ASSUME NEW S, IsFiniteSet(S), NEW R, Orders(R, S), NEW w, \A a \in S : w[a] \in Int,
           NEW used \in Int, NEW budget \in Int,
           NEW T \in SUBSET S, Fitting(R, w, used, budget, S, T), T # {}
    PROVE  used + Total(w, T) <= budget
  <1>1. IsFiniteSet(T) /\ Orders(R, T) /\ \A a \in T : w[a] \in Int
    BY FS_Subset DEF Orders
  <1>2. PICK m \in T : \A b \in T : b # m => <<b, m>> \in R /\ <<m, b>> \notin R
    BY <1>1, LastOfOrder
  <1>3. {b \in T : <<b, m>> \in R} = T \ {m}
    BY <1>1, <1>2 DEF Orders
  <1>4. Fits(R, w, used, budget, T, m)
    BY <1>2 DEF Fitting
  <1>5. used + w[m] + Total(w, T \ {m}) <= budget
    BY <1>3, <1>4 DEF Fits
  <1>6. Total(w, T) = w[m] + Total(w, T \ {m})
    BY <1>1, TotalRemoves
  <1>7. Total(w, T \ {m}) \in Int /\ w[m] \in Int
    <2>1. T \ {m} \in SUBSET T
      OBVIOUS
    <2> QED BY <1>1, <2>1, TotalIsInt
  <1> QED BY <1>5, <1>6, <1>7

PaidOrder(r, S) == {p \in S \X S : PaidBefore(r, p[1], p[2])}

LEMMA PaidOrders ==
    ASSUME NEW r \in [Addresses -> RowType], NEW S \in SUBSET Addresses
    PROVE  /\ Orders(PaidOrder(r, S), S)
           /\ \A a, b \in S : <<b, a>> \in PaidOrder(r, S) <=> PaidBefore(r, b, a)
  <1>1. \A a \in S : a \in Nat /\ r[a].paid \in Nat /\ r[a].target \in Int
    BY AddressesFinite DEF RowType
  <1>2. \A a, b \in S : <<b, a>> \in PaidOrder(r, S) <=> PaidBefore(r, b, a)
    BY DEF PaidOrder
  <1>3. \A a \in S : ~PaidBefore(r, a, a)
    BY <1>1 DEF PaidBefore
  <1>4. \A a, b \in S : a # b => PaidBefore(r, a, b) \/ PaidBefore(r, b, a)
    BY <1>1 DEF PaidBefore
  <1>5. \A a, b, c \in S : PaidBefore(r, a, b) /\ PaidBefore(r, b, c) => PaidBefore(r, a, c)
    BY <1>1 DEF PaidBefore
  <1> QED BY <1>2, <1>3, <1>4, <1>5 DEF Orders

LEMMA WeightsAreInts ==
    ASSUME NEW S \in SUBSET Addresses
    PROVE  /\ IsFiniteSet(S)
           /\ \A a \in S : OutputWeight[a] \in Nat
           /\ SumFunction([a \in S |-> OutputWeight[a]]) = Total(OutputWeight, S)
           /\ Total(OutputWeight, S) \in Nat
  <1> DEFINE p == [a \in S |-> OutputWeight[a]]
  <1>1. IsFiniteSet(S)
    BY AddressesFinite, FS_Subset
  <1>2. \A a \in S : OutputWeight[a] \in Nat
    BY PayoutDistributionAssumption
  <1>3. \A a \in S : p[a] \in Int /\ p[a] = OutputWeight[a]
    BY <1>2
  <1>4. SumFunction(p) = Total(p, S)
    BY SumIsTotal
  <1>5. Total(p, S) = Total(OutputWeight, S)
    <2> HIDE DEF p
    <2> QED BY <1>1, <1>3, TotalsEqual
  <1> QED BY <1>1, <1>2, <1>4, <1>5, TotalIsNat

(* What ChooseOutputs does to each row. *)
LEMMA OutputsChosen ==
    ASSUME NEW r \in [Addresses -> RowType], NEW feeWeight \in Nat
    PROVE  \E T \in SUBSET Eligible(r) :
              /\ ChooseOutputs(r, feeWeight) =
                    [a \in Addresses |->
                        IF a \in T THEN [r[a] EXCEPT !.included = TRUE]
                        ELSE [r[a] EXCEPT !.paid = 0, !.after = r[a].target]]
              /\ T # {} => feeWeight + Total(OutputWeight, T) <= WeightBudget
  <1> DEFINE Used(S, a) ==
                 feeWeight + OutputWeight[a] +
                 SumFunction([b \in {c \in S : PaidBefore(r, c, a)} |-> OutputWeight[b]])
             IsFitting(S) == \A a \in Eligible(r) : a \in S <=> Used(S, a) <= WeightBudget
  <1>1. PICK E : E = Eligible(r)
    OBVIOUS
  <1>2. PICK R : R = PaidOrder(r, E)
    OBVIOUS
  <1>3. E \in SUBSET Addresses
    BY <1>1 DEF Eligible
  <1>4. Orders(R, E) /\ \A a, b \in E : <<b, a>> \in R <=> PaidBefore(r, b, a)
    BY <1>2, <1>3, PaidOrders
  <1>5. IsFiniteSet(E) /\ (\A a \in E : OutputWeight[a] \in Int) /\ WeightBudget \in Int
    <2>1. WeightBudget \in Nat
      BY PayoutDistributionAssumption
    <2>2. IsFiniteSet(E) /\ \A a \in E : OutputWeight[a] \in Nat
      BY <1>3, WeightsAreInts
    <2> QED BY <2>1, <2>2
  <1>6. ASSUME NEW S \in SUBSET E
        PROVE  IsFitting(S) <=> Fitting(R, OutputWeight, feeWeight, WeightBudget, E, S)
    <2>1. ASSUME NEW a \in E
          PROVE  Used(S, a) <= WeightBudget <=> Fits(R, OutputWeight, feeWeight, WeightBudget, S, a)
      <3>1. PICK C : C = {c \in S : PaidBefore(r, c, a)}
        OBVIOUS
      <3>2. C = {c \in S : <<c, a>> \in R} /\ C \in SUBSET Addresses
        BY <1>3, <1>4, <3>1
      <3>3. SumFunction([b \in C |-> OutputWeight[b]]) = Total(OutputWeight, C)
        BY <3>2, WeightsAreInts
      <3>4. Used(S, a) = feeWeight + OutputWeight[a] + Total(OutputWeight, C)
        BY <3>1, <3>3
      <3> HIDE DEF Used
      <3> QED BY <3>2, <3>4 DEF Fits
    <2> HIDE DEF Used
    <2> QED BY <1>1, <2>1 DEF Fitting
  <1>7. \E S \in SUBSET E : IsFitting(S)
    <2>1. PICK S \in SUBSET E : Fitting(R, OutputWeight, feeWeight, WeightBudget, E, S)
      BY <1>4, <1>5, FittingExists
    <2> QED BY <1>6, <2>1
  <1>8. PICK T : T = CHOOSE S \in SUBSET Eligible(r) : IsFitting(S)
    OBVIOUS
  <1>9. T \in SUBSET E /\ IsFitting(T)
    <2> HIDE DEF IsFitting
    <2> QED BY <1>1, <1>7, <1>8
  <1>10. T # {} => feeWeight + Total(OutputWeight, T) <= WeightBudget
    <2>1. Fitting(R, OutputWeight, feeWeight, WeightBudget, E, T)
      BY <1>6, <1>9
    <2> QED BY <1>4, <1>5, <1>9, <2>1, FittingIsWithin
  <1>11. ChooseOutputs(r, feeWeight) =
            [a \in Addresses |->
                IF a \in T THEN [r[a] EXCEPT !.included = TRUE]
                ELSE [r[a] EXCEPT !.paid = 0, !.after = r[a].target]]
    BY <1>8 DEF ChooseOutputs
  <1> QED BY <1>1, <1>9, <1>10, <1>11

-----------------------------------------------------------------------------
(* What the miners share: nothing if the fee takes more than the coinbase.   *)
Shared == IF Reward > 0 THEN Reward ELSE 0

FeeWeight == IF fee > 0 THEN OutputWeight[FeeAddress] ELSE 0

(* Each row by itself: what it is owed, gets and keeps. *)
RowsInv ==
    \A a \in Addresses :
        /\ row[a].before = balance[a]
        /\ row[a].after = row[a].before + row[a].gross - row[a].paid
        /\ row[a].target <= row[a].before + row[a].gross
        /\ step # "built" => row[a].target = row[a].before + row[a].gross
        /\ row[a].paid > 0 => row[a].target > 0
        /\ row[a].included => row[a].paid > 0
        /\ step = "split" => row[a].paid = 0
        /\ step \in {"split", "allocated"} => ~row[a].included
        /\ step \notin {"split", "allocated"} =>
              /\ row[a].paid > 0 => row[a].included
              /\ row[a].included /\ row[a].work = 0 => row[a].paid >= MinOutput

(* The rows together: the sums of the payouts and the weight of the outputs. *)
SumsInv ==
    /\ SumFunction(PaidOf(row)) <= SumFunction(GrossOf(row))
    /\ step # "built" => SumFunction(GrossOf(row)) = Shared /\ fee = FeeSats(value)
    /\ step = "redistributed" /\ Included(row) \cap Active(row) # {} =>
          SumFunction(PaidOf(row)) = Reward
    /\ step = "built" /\ Included(row) \cap Active(row) # {} =>
          fee + SumFunction(PaidOf(row)) = value
    /\ step \notin {"split", "allocated"} /\ Included(row) # {} =>
          FeeWeight + SumFunction([a \in Included(row) |-> OutputWeight[a]]) <= WeightBudget
    /\ step = "built" =>
          Cardinality(Included(row)) + (IF fee > 0 THEN 1 ELSE 0) <= MaxOutputs

(* No more is advanced to some than is kept from others. *)
RoundsInv ==
    /\ RoundsTypeOK
    /\ BooksBalance
    /\ SumFunction(balance) >= 0
    /\ step # "idle" => RowsInv /\ SumsInv

-----------------------------------------------------------------------------
LEMMA PositiveTerm ==
    ASSUME NEW f, NEW S, IsFiniteSet(S), \A x \in S : f[x] \in Int, Total(f, S) > 0
    PROVE  \E x \in S : f[x] > 0
  <1> SUFFICES ASSUME \A x \in S : f[x] <= 0 PROVE FALSE
    OBVIOUS
  <1> DEFINE g == [x \in S |-> 0]
  <1>1. \A x \in S : f[x] \in Int /\ g[x] \in Int /\ f[x] <= g[x]
    OBVIOUS
  <1>2. (\A x \in S : g[x] \in Int) /\ \A x \in S \ {} : g[x] = 0
    OBVIOUS
  <1> HIDE DEF g
  <1>3. Total(f, S) <= Total(g, S)
    BY <1>1, TotalsCompare
  <1>4. Total(g, S) = Total(g, {})
    BY <1>2, TotalSkips
  <1>5. Total(g, {}) = 0
    BY TotalOfNone
  <1>6. Total(f, S) \in Int
    BY TotalIsInt
  <1> QED BY <1>3, <1>4, <1>5, <1>6

LEMMA TotalOfOne ==
    ASSUME NEW f, NEW S, IsFiniteSet(S), \A x \in S : f[x] \in Int,
           NEW k \in S, \A x \in S \ {k} : f[x] = 0
    PROVE  Total(f, S) = f[k]
  <1>1. Total(f, S) = f[k] + Total(f, S \ {k})
    BY TotalRemoves
  <1>2. PICK T : T = S \ {k}
    OBVIOUS
  <1>3. IsFiniteSet(T) /\ (\A x \in T : f[x] \in Int) /\ \A x \in T \ {} : f[x] = 0
    BY <1>2, FS_Subset
  <1>4. Total(f, T) = Total(f, {})
    BY <1>3, TotalSkips
  <1> QED BY <1>1, <1>2, <1>4, TotalOfNone

LEMMA TotalOfZero ==
    ASSUME NEW f, \A a \in Addresses : f[a] = 0
    PROVE  Total(f, Addresses) = 0
  <1>1. (\A a \in Addresses : f[a] \in Int) /\ (\A a \in Addresses \ {} : f[a] = 0)
    OBVIOUS
  <1>2. Total(f, Addresses) = Total(f, {})
    BY <1>1, AddressesFinite, TotalSkips
  <1> QED BY <1>2, TotalOfNone

LEMMA FieldSums ==
    ASSUME NEW r \in [Addresses -> RowType]
    PROVE  /\ SumFunction(PaidOf(r)) = Total(PaidOf(r), Addresses)
           /\ SumFunction(GrossOf(r)) = Total(GrossOf(r), Addresses)
           /\ {Total(PaidOf(r), Addresses), Total(GrossOf(r), Addresses)} \subseteq Nat
           /\ \A a \in Addresses : PaidOf(r)[a] \in Nat /\ PaidOf(r)[a] = r[a].paid
           /\ \A a \in Addresses : GrossOf(r)[a] \in Nat /\ GrossOf(r)[a] = r[a].gross
           /\ \A a \in Addresses : AfterOf(r)[a] \in Int /\ AfterOf(r)[a] = r[a].after
  <1>1. \A a \in Addresses : PaidOf(r)[a] \in Nat /\ PaidOf(r)[a] = r[a].paid
    BY DEF PaidOf, RowType
  <1>2. \A a \in Addresses : GrossOf(r)[a] \in Nat /\ GrossOf(r)[a] = r[a].gross
    BY DEF GrossOf, RowType
  <1>3. \A a \in Addresses : AfterOf(r)[a] \in Int /\ AfterOf(r)[a] = r[a].after
    BY DEF AfterOf, RowType
  <1>4. SumFunction(PaidOf(r)) = Total(PaidOf(r), Addresses)
    BY SumIsTotal DEF PaidOf
  <1>5. SumFunction(GrossOf(r)) = Total(GrossOf(r), Addresses)
    BY SumIsTotal DEF GrossOf
  <1>6. Total(PaidOf(r), Addresses) \in Nat
    BY <1>1, AddressesFinite, TotalIsNat
  <1>7. Total(GrossOf(r), Addresses) \in Nat
    BY <1>2, AddressesFinite, TotalIsNat
  <1> QED BY <1>1, <1>2, <1>3, <1>4, <1>5, <1>6, <1>7

LEMMA FeeIsNat ==
    ASSUME NEW v \in Nat
    PROVE  FeeSats(v) \in Nat
  <1>1. PICK x \in Nat : x = FeePercent * v
    BY PayoutDistributionAssumption
  <1>2. x \div 100 \in Nat
    BY DivisionLeavesRest
  <1> QED BY <1>1, <1>2 DEF FeeSats

LEMMA PlacesBound ==
    ASSUME NEW S, IsFiniteSet(S), NEW R, Orders(R, S), NEW n \in Nat,
           NEW T, T = {a \in S : Cardinality(Earlier(R, S, a)) < n}
    PROVE  Cardinality(T) \in Nat /\ Cardinality(T) <= n
  <1>1. Cardinality(S) \in Nat /\ IsFiniteSet(T) /\ Cardinality(T) <= Cardinality(S)
        /\ Cardinality(T) \in Nat
    BY FS_CardinalityType, FS_Subset
  <1>2. CASE n <= Cardinality(S)
    <2>1. n \in 0 .. Cardinality(S)
      BY <1>1, <1>2
    <2>2. Cardinality({a \in S : Cardinality(Earlier(R, S, a)) < n}) = n
      BY <2>1, PlacesCount
    <2> QED BY <1>1, <2>2
  <1> QED BY <1>1, <1>2

-----------------------------------------------------------------------------
(* A new snapshot pays nobody; all of the miners' part is earned. *)
LEMMA CreateSnapshotKeeps ==
    ASSUME RoundsInv, NEW work \in [Addresses -> Works], NEW v \in Values,
           CreateSnapshot(work, v)
    PROVE  RoundsInv' /\ GrossIsFair'
  <1> DEFINE reward == v - FeeSats(v)
             fair == AllocateIntegerSats(work, reward, SumFunction(work))
  <1>1. /\ step = "idle" /\ step' = "split" /\ value' = v /\ fee' = FeeSats(v)
        /\ row' = InitialRows(work, balance, reward) /\ work # Zero
        /\ balance' = balance /\ totalPaid' = totalPaid /\ earned' = earned /\ blocks' = blocks
    BY DEF CreateSnapshot, ledgerVars
  <1>2. v \in Nat /\ FeeSats(v) \in Nat /\ reward \in Int
    BY FeeIsNat, PayoutRoundsAssumption
  <1>3. work \in [Addresses -> Nat]
    BY PayoutRoundsAssumption
  <1>4. SumFunction(work) = Total(work, Addresses)
    BY SumIsTotal
  <1>5. FairlyGiven(Addresses, work, reward, Total(work, Addresses), fair)
    <2>1. PICK t : t = Total(work, Addresses)
      OBVIOUS
    <2>2. PICK m \in Int : m = reward
      BY <1>2
    <2>3. FairlyGiven(Addresses, work, m, t, AllocateIntegerSats(work, m, t))
      BY <1>3, <2>1, SatsAllocated
    <2> QED BY <1>4, <2>1, <2>2, <2>3
  <1>6. Total(work, Addresses) > 0 /\ Total(work, Addresses) \in Nat
    <2>1. PICK a \in Addresses : work[a] # 0
      BY <1>1 DEF Zero
    <2>2. \A x \in Addresses : work[x] \in Nat
      BY <1>3
    <2>3. work[a] <= Total(work, Addresses) /\ Total(work, Addresses) \in Nat
      BY <2>2, AddressesFinite, TotalBounds
    <2> QED BY <2>1, <2>2, <2>3
  <1>7. fair \in [Addresses -> Nat]
    BY <1>5 DEF FairlyGiven
  <1>8. \A a \in Addresses :
           row'[a] = [work |-> work[a], gross |-> fair[a], before |-> balance[a],
                      target |-> fair[a] + balance[a], paid |-> 0,
                      after |-> fair[a] + balance[a], included |-> FALSE]
    BY <1>1 DEF InitialRows
  <1> HIDE DEF fair
  <1>80. \A a \in Addresses :
           /\ row'[a].work = work[a] /\ row'[a].gross = fair[a] /\ row'[a].before = balance[a]
           /\ row'[a].target = fair[a] + balance[a] /\ row'[a].paid = 0
           /\ row'[a].after = fair[a] + balance[a] /\ row'[a].included = FALSE
    <2> TAKE a \in Addresses
    <2>1. PICK x : x = row'[a]
      OBVIOUS
    <2>2. x = [work |-> work[a], gross |-> fair[a], before |-> balance[a],
               target |-> fair[a] + balance[a], paid |-> 0,
               after |-> fair[a] + balance[a], included |-> FALSE]
      BY ONLY <1>8, <2>1, a \in Addresses
    <2>3. /\ x.work = work[a] /\ x.gross = fair[a] /\ x.before = balance[a]
          /\ x.target = fair[a] + balance[a] /\ x.paid = 0
          /\ x.after = fair[a] + balance[a] /\ x.included = FALSE
      BY ONLY <2>2
    <2> QED BY <2>1, <2>3
  <1>9. \A a \in Addresses : work[a] \in Nat /\ fair[a] \in Nat /\ balance[a] \in Int
    BY <1>3, <1>7 DEF RoundsInv, RoundsTypeOK
  <1>10. row' \in [Addresses -> RowType]
    <2>1. \A a \in Addresses : row'[a] \in RowType
      <3> TAKE a \in Addresses
      <3>1. PICK x : x = row'[a]
        OBVIOUS
      <3>2. x = [work |-> work[a], gross |-> fair[a], before |-> balance[a],
                 target |-> fair[a] + balance[a], paid |-> 0,
                 after |-> fair[a] + balance[a], included |-> FALSE]
        BY ONLY <1>8, <3>1, a \in Addresses
      <3>3. work[a] \in Nat /\ fair[a] \in Nat /\ balance[a] \in Int
            /\ fair[a] + balance[a] \in Int
        BY <1>9
      <3>4. x \in RowType
        BY ONLY <3>2, <3>3 DEF RowType
      <3> QED BY <3>1, <3>4
    <2>2. row' = [a \in Addresses |-> row'[a]]
      BY <1>1 DEF InitialRows
    <2> QED BY <2>1, <2>2
  <1>11. GrossOf(row') = fair /\ WorkOf(row') = work
    BY <1>3, <1>7, <1>80 DEF GrossOf, WorkOf
  <1>12. SumFunction(GrossOf(row')) = IF reward > 0 THEN reward ELSE 0
    <2>1. SumFunction(GrossOf(row')) = Total(fair, Addresses)
      BY <1>10, <1>11, FieldSums
    <2> QED BY <1>5, <1>6, <2>1 DEF FairlyGiven
  <1>13. SumFunction(PaidOf(row')) = 0
    <2>1. \A a \in Addresses : PaidOf(row')[a] = 0
      BY <1>80 DEF PaidOf
    <2>2. Total(PaidOf(row'), Addresses) = 0
      BY <2>1, TotalOfZero
    <2> QED BY <1>10, <2>2, FieldSums
  <1>14. Reward' = reward
    BY <1>1 DEF Reward
  <1>15. GrossIsFair'
    <2> SUFFICES ASSUME reward >= 0
                 PROVE  LET total == SumFunction(WorkOf(row'))
                        IN  /\ SumFunction(GrossOf(row')) = reward
                            /\ \A a \in Addresses :
                                  LET error == row'[a].gross * total - row'[a].work * reward
                                  IN  -total < error /\ error < total
      BY <1>14 DEF GrossIsFair, WorkOf, GrossOf
    <2>1. SumFunction(GrossOf(row')) = reward
      BY <1>2, <1>12
    <2>2. PICK t : t = Total(work, Addresses) /\ t = SumFunction(WorkOf(row')) /\ t > 0
      BY <1>4, <1>6, <1>11
    <2>3. \A a \in Addresses : /\ -t < fair[a] * t - work[a] * reward
                               /\ fair[a] * t - work[a] * reward < t
      BY <1>5, <2>2 DEF FairlyGiven
    <2>4. \A a \in Addresses : row'[a].gross = fair[a] /\ row'[a].work = work[a]
      BY <1>80
    <2> HIDE DEF reward
    <2> QED BY <2>1, <2>2, <2>3, <2>4
  <1>16. RoundsTypeOK'
    BY <1>1, <1>2, <1>10 DEF RoundsInv, RoundsTypeOK, Steps
  <1>17. BooksBalance' /\ SumFunction(balance') >= 0
    BY <1>1 DEF RoundsInv, BooksBalance
  <1>18. RowsInv'
    BY <1>1, <1>80, <1>9 DEF RowsInv
  <1>19. SumsInv'
    <2>1. SumFunction(PaidOf(row')) <= SumFunction(GrossOf(row'))
      BY <1>2, <1>12, <1>13
    <2>2. SumFunction(GrossOf(row')) = Shared'
      BY <1>12, <1>14 DEF Shared
    <2> QED BY <1>1, <2>1, <2>2 DEF SumsInv
  <1> QED BY <1>15, <1>16, <1>17, <1>18, <1>19 DEF RoundsInv

(* Owed in all is what is shared and what the balances hold: somebody is     *)
(* owed something as long as there is something to share.                    *)
LEMMA SomebodyIsOwed ==
    ASSUME RoundsInv, step = "split", Reward > 0
    PROVE  Positive(row) # {}
  <1> DEFINE t == [a \in Addresses |-> row[a].target]
  <1>1. row \in [Addresses -> RowType] /\ balance \in [Addresses -> Int] /\ Reward \in Int
    <2>1. value \in Nat /\ FeeSats(value) \in Nat
      BY FeeIsNat DEF RoundsInv, RoundsTypeOK
    <2> QED BY <2>1 DEF RoundsInv, RoundsTypeOK, Reward
  <1>2. PICK g : g = GrossOf(row)
    OBVIOUS
  <1>3. Total(g, Addresses) = Reward
    <2>1. SumFunction(GrossOf(row)) = Shared
      BY DEF RoundsInv, SumsInv
    <2> QED BY <1>1, <1>2, <2>1, FieldSums DEF Shared
  <1>4. Total(balance, Addresses) >= 0 /\ Total(balance, Addresses) \in Int
    <2>1. SumFunction(balance) = Total(balance, Addresses)
      BY <1>1, SumIsTotal
    <2>2. \A a \in Addresses : balance[a] \in Int
      BY <1>1
    <2>3. Total(balance, Addresses) \in Int
      BY <2>2, AddressesFinite, TotalIsInt
    <2> QED BY <2>1, <2>3 DEF RoundsInv
  <1>5. \A a \in Addresses : t[a] \in Int /\ t[a] = row[a].target
    BY <1>1 DEF RowType
  <1>6. AddUp(g, balance, t, Addresses)
    <2>1. ASSUME NEW a \in Addresses
          PROVE  g[a] \in Int /\ balance[a] \in Int /\ t[a] = g[a] + balance[a]
      <3>1. row[a].before = balance[a] /\ row[a].target = row[a].before + row[a].gross
        BY DEF RoundsInv, RowsInv
      <3>2. g[a] = row[a].gross /\ g[a] \in Nat
        BY <1>1, <1>2, FieldSums
      <3> QED BY <1>1, <3>1, <3>2
    <2> HIDE DEF t
    <2> QED BY <2>1 DEF AddUp
  <1> HIDE DEF t
  <1>7. Total(t, Addresses) = Total(g, Addresses) + Total(balance, Addresses)
    BY <1>6, AddressesFinite, TotalsAddUp
  <1>8. Total(t, Addresses) > 0
    BY <1>1, <1>3, <1>4, <1>7
  <1>9. PICK a \in Addresses : t[a] > 0
    BY <1>5, <1>8, AddressesFinite, PositiveTerm
  <1> QED BY <1>5, <1>9 DEF Positive

(* What AllocatePayoutTargets adds to the payouts: it pays no more than the  *)
(* reward, and nobody who is not owed anything.                              *)
LEMMA TargetsAllocated ==
    ASSUME RoundsInv, step = "split"
    PROVE  \E extra \in [Addresses -> Nat] :
              /\ AllocatePayoutTargets(row, Reward) = AddPayment(row, extra)
              /\ Total(extra, Addresses) <= Shared
              /\ \A a \in Addresses : extra[a] > 0 => row[a].target > 0
  <1>1. row \in [Addresses -> RowType] /\ Reward \in Int /\ Shared \in Nat
    <2>1. value \in Nat /\ FeeSats(value) \in Nat
      BY FeeIsNat DEF RoundsInv, RoundsTypeOK
    <2> QED BY <2>1 DEF RoundsInv, RoundsTypeOK, Reward, Shared
  <1>2. PICK P : P = Positive(row)
    OBVIOUS
  <1>3. PICK due : due = [a \in P |-> row[a].target]
    OBVIOUS
  <1>4. PICK total : total = Total(due, P)
    OBVIOUS
  <1>5. P \in SUBSET Addresses /\ IsFiniteSet(P) /\ due \in [P -> Nat]
        /\ \A a \in P : due[a] > 0 /\ due[a] = row[a].target
    <2>1. P \in SUBSET Addresses
      BY <1>2 DEF Positive
    <2>2. \A a \in P : row[a].target \in Int /\ row[a].target > 0
      BY <1>1, <1>2 DEF Positive, RowType
    <2>3. IsFiniteSet(P)
      BY <2>1, AddressesFinite, FS_Subset
    <2>4. due \in [P -> Nat] /\ \A a \in P : due[a] > 0 /\ due[a] = row[a].target
      BY <1>3, <2>2
    <2> QED BY <2>1, <2>3, <2>4
  <1>6. total \in Nat /\ (P # {} => total > 0)
    <2>1. \A a \in P : due[a] \in Nat
      BY <1>5
    <2>2. total \in Nat /\ \A a \in P : due[a] <= total
      BY <1>4, <1>5, <2>1, TotalBounds
    <2> QED BY <1>5, <2>1, <2>2
  <1>7. SumFunction(due) = total
    BY <1>3, <1>4, SumIsTotal
  <1> DEFINE full == [a \in Addresses |-> IF a \in P THEN row[a].target ELSE 0]
  <1>8. AllocatePayoutTargets(row, Reward) =
            CASE total <= 0 ->
                   AddPayment(row, ByWork(row, Active(row), Reward))
              [] 0 < total /\ total <= Reward ->
                   AddPayment(AddPayment(row, full), ByWork(row, P \cap Active(row), Reward - total))
              [] 0 < total /\ Reward < total ->
                   AddPayment(row, AllocateIntegerSats(due, Reward, total))
    BY <1>2, <1>3, <1>7 DEF AllocatePayoutTargets
  <1>9. CASE total <= 0
    <2>1. Reward <= 0
      BY <1>1, <1>2, <1>6, <1>9, SomebodyIsOwed
    <2>2. PICK extra : extra = ByWork(row, Active(row), Reward)
      OBVIOUS
    <2>3. Active(row) \in SUBSET Addresses
      BY DEF Active
    <2>4. extra \in [Addresses -> Nat] /\ Total(extra, Addresses) = 0
      <3>1. PICK amount : amount = Reward
        OBVIOUS
      <3>2. amount \in Int /\ ~(amount > 0) /\ row \in [Addresses -> RowType]
        BY <1>1, <2>1, <3>1
      <3>3. extra = ByWork(row, Active(row), amount)
        BY <2>2, <3>1
      <3> QED BY ONLY <2>3, <3>2, <3>3, WorkShares
    <2>5. ASSUME NEW a \in Addresses, extra[a] > 0 PROVE FALSE
      <3>1. \A x \in Addresses : extra[x] \in Nat
        BY <2>4
      <3>2. extra[a] <= Total(extra, Addresses)
        BY <3>1, AddressesFinite, TotalBounds
      <3> QED BY <2>4, <2>5, <3>1, <3>2
    <2>6. AllocatePayoutTargets(row, Reward) = AddPayment(row, extra)
      BY <1>6, <1>8, <1>9, <2>2
    <2> QED BY <1>1, <2>4, <2>5, <2>6
  <1>10. CASE 0 < total /\ total <= Reward
    <2>1. PICK S : S = P \cap Active(row)
      OBVIOUS
    <2>2. PICK rest \in Nat : rest = Reward - total
      BY <1>1, <1>6, <1>10
    <2>3. PICK more : more = ByWork(row, S, rest)
      OBVIOUS
    <2>4. S \in SUBSET Addresses /\ rest \in Int
      BY <1>5, <2>1
    <2>5. /\ more \in [Addresses -> Nat]
          /\ \A a \in Addresses : more[a] > 0 => a \in S \cap Active(row)
          /\ Total(more, Addresses) <= rest
      BY <1>1, <2>2, <2>3, <2>4, WorkShares
    <2>6. full \in [Addresses -> Nat] /\ \A a \in Addresses : full[a] > 0 => a \in P
      <3>1. \A a \in P : row[a].target \in Nat
        BY <1>5
      <3> QED BY <3>1
    <2>7. Total(full, Addresses) = total
      <3>1. \A a \in Addresses : full[a] \in Int
        BY <2>6
      <3>2. \A a \in Addresses \ P : full[a] = 0
        OBVIOUS
      <3>3. \A a \in P : full[a] \in Int /\ full[a] = due[a]
        BY <1>5, <2>6
      <3> HIDE DEF full
      <3>4. Total(full, Addresses) = Total(full, P)
        BY <1>5, <3>1, <3>2, AddressesFinite, TotalSkips
      <3>5. Total(full, P) = Total(due, P)
        BY <1>5, <3>3, TotalsEqual
      <3> QED BY <1>4, <3>4, <3>5
    <2> DEFINE extra == [a \in Addresses |-> full[a] + more[a]]
    <2>8. \A a \in Addresses : full[a] \in Nat /\ more[a] \in Nat
      BY <2>5, <2>6
    <2> HIDE DEF full
    <2>9. extra \in [Addresses -> Nat]
      BY <2>8
    <2>10. \A a \in Addresses : extra[a] > 0 => row[a].target > 0
      <3>1. \A a \in Addresses : full[a] > 0 \/ more[a] > 0 => a \in P
        BY <2>1, <2>5, <2>6
      <3>2. \A a \in Addresses : extra[a] > 0 => a \in P
        BY <2>8, <3>1
      <3> QED BY <1>5, <3>2
    <2>11. Total(extra, Addresses) = Total(full, Addresses) + Total(more, Addresses)
      <3>1. AddUp(full, more, extra, Addresses)
        BY <2>8 DEF AddUp
      <3> HIDE DEF extra
      <3> QED BY <3>1, AddressesFinite, TotalsAddUp
    <2>12. Total(extra, Addresses) <= Shared
      <3>1. Total(more, Addresses) \in Nat
        BY <2>8, AddressesFinite, TotalIsNat
      <3> HIDE DEF extra
      <3>2. Total(extra, Addresses) <= Reward
        BY <1>1, <1>6, <2>2, <2>5, <2>7, <2>11, <3>1
      <3> QED BY <1>1, <1>6, <1>10, <3>2 DEF Shared
    <2>13. AddPayment(AddPayment(row, full), more) = AddPayment(row, extra)
      <3>1. PICK q : q = AddPayment(row, full)
        OBVIOUS
      <3>2. q \in [Addresses -> RowType]
            /\ \A a \in Addresses : q[a] = RowPlus(row[a], full[a])
        BY <1>1, <2>6, <3>1, PaymentAdds DEF AddPayment, RowPlus
      <3>3. \A a \in Addresses : RowPlus(q[a], more[a]) = RowPlus(row[a], extra[a])
        BY <1>1, <2>8, <3>2, RowPaidTwice
      <3> HIDE DEF extra
      <3> QED BY <3>1, <3>3 DEF AddPayment, RowPlus
    <2>14. AllocatePayoutTargets(row, Reward) = AddPayment(row, extra)
      <3>1. AllocatePayoutTargets(row, Reward) = AddPayment(AddPayment(row, full), more)
        BY <1>1, <1>8, <1>10, <1>6, <2>1, <2>2, <2>3
      <3> QED BY <2>13, <3>1
    <2> HIDE DEF extra
    <2> QED BY <2>9, <2>10, <2>12, <2>14
  <1>11. CASE total > Reward /\ total > 0
    <2>1. PICK extra : extra = AllocateIntegerSats(due, Reward, total)
      OBVIOUS
    <2>2. FairlyGiven(P, due, Reward, total, extra)
      <3>1. PICK m \in Int : m = Reward
        BY <1>1
      <3>2. FairlyGiven(P, due, m, total, AllocateIntegerSats(due, m, total))
        BY <1>4, <1>5, SatsAllocated
      <3> QED BY <2>1, <3>1, <3>2
    <2>3. extra \in [Addresses -> Nat] /\ \A a \in Addresses : extra[a] > 0 => a \in P
      BY <2>2 DEF FairlyGiven
    <2>4. Total(extra, Addresses) <= Shared
      BY <1>1, <1>11, <2>2 DEF FairlyGiven, Shared
    <2>5. AllocatePayoutTargets(row, Reward) = AddPayment(row, extra)
      BY <1>1, <1>6, <1>8, <1>11, <2>1
    <2>6. \A a \in Addresses : extra[a] > 0 => row[a].target > 0
      BY <1>5, <2>3
    <2> QED BY <2>3, <2>4, <2>5, <2>6
  <1> QED BY <1>1, <1>6, <1>9, <1>10, <1>11

LEMMA RoundsTypes ==
    ASSUME RoundsInv
    PROVE  /\ row \in [Addresses -> RowType] /\ balance \in [Addresses -> Int]
           /\ {value, fee, blocks} \subseteq Nat /\ Reward \in Int /\ Shared \in Nat
           /\ FeeSats(value) \in Nat
           /\ \A a \in Addresses :
                 /\ {row[a].work, row[a].gross, row[a].paid} \subseteq Nat
                 /\ {row[a].before, row[a].target, row[a].after, balance[a]} \subseteq Int
                 /\ row[a].included \in BOOLEAN
  <1>1. value \in Nat /\ FeeSats(value) \in Nat
    BY FeeIsNat DEF RoundsInv, RoundsTypeOK
  <1>2. Reward \in Int /\ Shared \in Nat
    BY <1>1 DEF Reward, Shared
  <1>3. row \in [Addresses -> RowType] /\ balance \in [Addresses -> Int]
    BY DEF RoundsInv, RoundsTypeOK
  <1>4. ASSUME NEW a \in Addresses
        PROVE  /\ {row[a].work, row[a].gross, row[a].paid} \subseteq Nat
               /\ {row[a].before, row[a].target, row[a].after, balance[a]} \subseteq Int
               /\ row[a].included \in BOOLEAN
    <2>1. row[a] \in RowType /\ balance[a] \in Int
      BY <1>3
    <2> QED BY <2>1 DEF RowType
  <1> QED BY <1>1, <1>2, <1>3, <1>4 DEF RoundsInv, RoundsTypeOK

(* The payouts are allocated: no more than is earned, and only to addresses  *)
(* that are owed something.                                                  *)
LEMMA AllocateKeeps ==
    ASSUME RoundsInv, GrossIsFair, Allocate
    PROVE  RoundsInv' /\ GrossIsFair'
  <1>1. /\ step = "split" /\ step' = "allocated" /\ value' = value /\ fee' = fee
        /\ row' = AllocatePayoutTargets(row, Reward)
        /\ balance' = balance /\ totalPaid' = totalPaid /\ earned' = earned /\ blocks' = blocks
    BY DEF Allocate, ledgerVars
  <1>2. RowsInv /\ SumsInv
    BY <1>1 DEF RoundsInv
  <1>3. PICK extra \in [Addresses -> Nat] :
           /\ row' = AddPayment(row, extra)
           /\ Total(extra, Addresses) <= Shared
           /\ \A a \in Addresses : extra[a] > 0 => row[a].target > 0
    BY <1>1, TargetsAllocated
  <1>4. /\ row' \in [Addresses -> RowType]
        /\ \A a \in Addresses :
              /\ row'[a].paid = row[a].paid + extra[a] /\ row'[a].after = row[a].after - extra[a]
              /\ row'[a].work = row[a].work /\ row'[a].gross = row[a].gross
              /\ row'[a].before = row[a].before /\ row'[a].target = row[a].target
              /\ row'[a].included = row[a].included
        /\ Total(PaidOf(row'), Addresses) = Total(PaidOf(row), Addresses) + Total(extra, Addresses)
    <2>1. PICK q : q = row'
      OBVIOUS
    <2> QED BY <1>3, <2>1, RoundsTypes, PaymentAdds
  <1>5. Total(PaidOf(row), Addresses) = 0
    <2>1. \A a \in Addresses : PaidOf(row)[a] = 0
      BY <1>1, <1>2 DEF RowsInv, PaidOf
    <2> QED BY <2>1, TotalOfZero
  <1>6. SumFunction(PaidOf(row')) <= Shared
    <2>1. SumFunction(PaidOf(row')) = Total(PaidOf(row'), Addresses)
      BY <1>4, FieldSums
    <2>2. \A a \in Addresses : extra[a] \in Nat
      OBVIOUS
    <2>3. Total(extra, Addresses) \in Nat
      BY <2>2, AddressesFinite, TotalIsNat
    <2> QED BY <1>3, <1>4, <1>5, <2>1, <2>3
  <1>7. GrossOf(row') = GrossOf(row) /\ WorkOf(row') = WorkOf(row)
    BY <1>4 DEF GrossOf, WorkOf
  <1>8. Reward' = Reward /\ Shared' = Shared
    BY <1>1 DEF Reward, Shared
  <1>9. RoundsTypeOK' /\ BooksBalance' /\ SumFunction(balance') >= 0
    BY <1>1, <1>4 DEF RoundsInv, RoundsTypeOK, Steps, BooksBalance
  <1>10. RowsInv'
    <2> SUFFICES ASSUME NEW a \in Addresses
                 PROVE  /\ row'[a].before = balance[a]
                        /\ row'[a].after = row'[a].before + row'[a].gross - row'[a].paid
                        /\ row'[a].target <= row'[a].before + row'[a].gross
                        /\ row'[a].target = row'[a].before + row'[a].gross
                        /\ row'[a].paid > 0 => row'[a].target > 0
                        /\ ~row'[a].included
      BY <1>1 DEF RowsInv
    <2>1. /\ row[a].before = balance[a] /\ row[a].after = row[a].before + row[a].gross - row[a].paid
          /\ row[a].target = row[a].before + row[a].gross /\ row[a].paid = 0 /\ ~row[a].included
      BY <1>1, <1>2 DEF RowsInv
    <2>2. /\ {row[a].gross, row[a].paid, extra[a]} \subseteq Nat
          /\ {row[a].before, row[a].target, row[a].after} \subseteq Int
      BY RoundsTypes
    <2>3. extra[a] > 0 => row[a].target > 0
      BY <1>3
    <2>4. /\ row'[a].paid = row[a].paid + extra[a] /\ row'[a].after = row[a].after - extra[a]
          /\ row'[a].gross = row[a].gross
          /\ row'[a].before = row[a].before /\ row'[a].target = row[a].target
          /\ row'[a].included = row[a].included
      BY <1>4
    <2> QED BY <2>1, <2>2, <2>3, <2>4
  <1>11. SumsInv'
    <2>1. SumFunction(GrossOf(row')) = Shared' /\ fee' = FeeSats(value')
      BY <1>1, <1>2, <1>7, <1>8 DEF SumsInv
    <2>2. SumFunction(PaidOf(row')) <= SumFunction(GrossOf(row'))
      BY <1>6, <1>8, <2>1
    <2> QED BY <1>1, <2>1, <2>2 DEF SumsInv
  <1>12. GrossIsFair'
    <2> SUFFICES ASSUME Reward >= 0
                 PROVE  LET total == SumFunction(WorkOf(row'))
                        IN  /\ SumFunction(GrossOf(row')) = Reward
                            /\ \A a \in Addresses :
                                  LET error == row'[a].gross * total - row'[a].work * Reward
                                  IN  -total < error /\ error < total
      BY <1>8 DEF GrossIsFair, WorkOf, GrossOf
    <2>1. LET total == SumFunction(WorkOf(row))
          IN  /\ SumFunction(GrossOf(row)) = Reward
              /\ \A a \in Addresses :
                    LET error == row[a].gross * total - row[a].work * Reward
                    IN  -total < error /\ error < total
      BY <1>1 DEF GrossIsFair, WorkOf, GrossOf
    <2> QED BY <1>4, <1>7, <2>1
  <1> QED BY <1>9, <1>10, <1>11, <1>12 DEF RoundsInv

-----------------------------------------------------------------------------
LEMMA FeeWeightIsNat ==
    ASSUME RoundsInv
    PROVE  FeeWeight \in Nat
  BY PayoutDistributionAssumption DEF FeeWeight

(* The outputs that fit are chosen, the others are owed what they were not   *)
(* paid.                                                                     *)
LEMMA ChooseKeeps ==
    ASSUME RoundsInv, Choose
    PROVE  RoundsInv'
  <1>1. /\ step = "allocated" /\ step' = "chosen" /\ value' = value /\ fee' = fee
        /\ row' = ChooseOutputs(row, FeeWeight)
        /\ balance' = balance /\ totalPaid' = totalPaid /\ earned' = earned /\ blocks' = blocks
    BY DEF Choose, ledgerVars, FeeWeight
  <1>2. RowsInv /\ SumsInv
    BY <1>1 DEF RoundsInv
  <1>3. PICK T \in SUBSET Eligible(row) :
           /\ row' = [a \in Addresses |->
                         IF a \in T THEN [row[a] EXCEPT !.included = TRUE]
                         ELSE [row[a] EXCEPT !.paid = 0, !.after = row[a].target]]
           /\ T # {} => FeeWeight + Total(OutputWeight, T) <= WeightBudget
    BY <1>1, RoundsTypes, FeeWeightIsNat, OutputsChosen
  <1>4. ASSUME NEW a \in Addresses
        PROVE  /\ row'[a] \in RowType
               /\ row'[a].work = row[a].work /\ row'[a].gross = row[a].gross
               /\ row'[a].before = row[a].before /\ row'[a].target = row[a].target
               /\ row'[a].paid = IF a \in T THEN row[a].paid ELSE 0
               /\ row'[a].after = IF a \in T THEN row[a].after ELSE row[a].target
               /\ row'[a].included = IF a \in T THEN TRUE ELSE row[a].included
    <2>1. PICK x, y : x = row[a] /\ y = row'[a] /\ x \in RowType
      BY RoundsTypes
    <2>2. x = [work |-> x.work, gross |-> x.gross, before |-> x.before, target |-> x.target,
               paid |-> x.paid, after |-> x.after, included |-> x.included]
      BY <2>1 DEF RowType
    <2>3. CASE a \in T
      <3>1. y = [x EXCEPT !.included = TRUE]
        BY <1>3, <2>1, <2>3
      <3>2. y = [work |-> x.work, gross |-> x.gross, before |-> x.before, target |-> x.target,
                 paid |-> x.paid, after |-> x.after, included |-> TRUE]
        BY <2>2, <3>1
      <3>3. y \in RowType
        BY <2>1, <3>2 DEF RowType
      <3> QED BY <2>1, <2>3, <3>2, <3>3
    <2>4. CASE a \notin T
      <3>1. y = [x EXCEPT !.paid = 0, !.after = x.target]
        BY <1>3, <2>1, <2>4
      <3>2. y = [work |-> x.work, gross |-> x.gross, before |-> x.before, target |-> x.target,
                 paid |-> 0, after |-> x.target, included |-> x.included]
        BY <2>2, <3>1
      <3>3. y \in RowType
        BY <2>1, <3>2 DEF RowType
      <3> QED BY <2>1, <2>4, <3>2, <3>3
    <2> QED BY <2>3, <2>4
  <1>5. row' \in [Addresses -> RowType]
    <2>1. row' = [a \in Addresses |-> row'[a]]
      BY <1>3
    <2> QED BY <1>4, <2>1
  <1>6. T \in SUBSET Addresses
        /\ \A a \in T : row[a].paid > 0 /\ (row[a].work > 0 \/ row[a].paid >= MinOutput)
    BY DEF Eligible
  <1>7. Included(row') = T
    <2>1. \A a \in Addresses : ~row[a].included
      BY <1>1, <1>2 DEF RowsInv
    <2> QED BY <1>4, <1>6, <2>1 DEF Included
  <1>8. GrossOf(row') = GrossOf(row)
    BY <1>4 DEF GrossOf
  <1>9. Reward' = Reward /\ Shared' = Shared /\ FeeWeight' = FeeWeight
    BY <1>1 DEF Reward, Shared, FeeWeight
  <1>10. SumFunction(PaidOf(row')) <= SumFunction(PaidOf(row))
    <2>1. PICK f, g : f = PaidOf(row') /\ g = PaidOf(row)
      OBVIOUS
    <2>2. \A a \in Addresses : f[a] \in Int /\ g[a] \in Int /\ f[a] <= g[a]
      <3> TAKE a \in Addresses
      <3>1. f[a] = row'[a].paid /\ g[a] = row[a].paid
        BY <2>1 DEF PaidOf
      <3>2. row[a].paid \in Nat
        BY RoundsTypes
      <3>3. row'[a].paid = row[a].paid \/ row'[a].paid = 0
        BY <1>4
      <3> QED BY ONLY <3>1, <3>2, <3>3
    <2>3. Total(f, Addresses) <= Total(g, Addresses)
      BY <2>2, AddressesFinite, TotalsCompare
    <2>4. SumFunction(f) = Total(f, Addresses)
      BY <1>5, <2>1, FieldSums
    <2>5. SumFunction(g) = Total(g, Addresses)
      BY <2>1, RoundsTypes, FieldSums
    <2> QED BY <2>1, <2>3, <2>4, <2>5
  <1>11. RoundsTypeOK' /\ BooksBalance' /\ SumFunction(balance') >= 0
    BY <1>1, <1>5 DEF RoundsInv, RoundsTypeOK, Steps, BooksBalance
  <1>12. RowsInv'
    <2> SUFFICES ASSUME NEW a \in Addresses
                 PROVE  /\ row'[a].before = balance[a]
                        /\ row'[a].after = row'[a].before + row'[a].gross - row'[a].paid
                        /\ row'[a].target <= row'[a].before + row'[a].gross
                        /\ row'[a].target = row'[a].before + row'[a].gross
                        /\ row'[a].paid > 0 => row'[a].target > 0
                        /\ row'[a].included => row'[a].paid > 0
                        /\ row'[a].paid > 0 => row'[a].included
                        /\ row'[a].included /\ row'[a].work = 0 => row'[a].paid >= MinOutput
      BY <1>1 DEF RowsInv
    <2>1. /\ row[a].before = balance[a] /\ row[a].after = row[a].before + row[a].gross - row[a].paid
          /\ row[a].target = row[a].before + row[a].gross
          /\ row[a].paid > 0 => row[a].target > 0
          /\ ~row[a].included
      BY <1>1, <1>2 DEF RowsInv
    <2>2. /\ {row[a].work, row[a].gross, row[a].paid} \subseteq Nat
          /\ {row[a].before, row[a].target, row[a].after} \subseteq Int
      BY RoundsTypes
    <2>3. CASE a \in T
      <3>1. /\ row'[a].work = row[a].work /\ row'[a].gross = row[a].gross
            /\ row'[a].before = row[a].before /\ row'[a].target = row[a].target
            /\ row'[a].paid = row[a].paid /\ row'[a].after = row[a].after /\ row'[a].included
        BY <1>4, <2>3
      <3>2. row[a].paid > 0 /\ (row[a].work > 0 \/ row[a].paid >= MinOutput)
        BY <1>6, <2>3
      <3> QED BY <2>1, <2>2, <3>1, <3>2
    <2>4. CASE a \notin T
      <3>1. /\ row'[a].gross = row[a].gross
            /\ row'[a].before = row[a].before /\ row'[a].target = row[a].target
            /\ row'[a].paid = 0 /\ row'[a].after = row[a].target /\ ~row'[a].included
        BY <1>4, <2>1, <2>4
      <3> QED BY <2>1, <2>2, <3>1
    <2> QED BY <2>3, <2>4
  <1>13. SumsInv'
    <2>1. SumFunction(GrossOf(row')) = Shared' /\ fee' = FeeSats(value')
      BY <1>1, <1>2, <1>8, <1>9 DEF SumsInv
    <2>2. SumFunction(PaidOf(row')) <= SumFunction(GrossOf(row'))
      <3>1. SumFunction(PaidOf(row)) <= SumFunction(GrossOf(row))
        BY <1>2 DEF SumsInv
      <3>2. SumFunction(PaidOf(row)) \in Nat /\ SumFunction(GrossOf(row)) \in Nat
        BY RoundsTypes, FieldSums
      <3>3. SumFunction(PaidOf(row')) \in Nat
        BY <1>5, FieldSums
      <3> QED BY <1>8, <1>10, <3>1, <3>2, <3>3
    <2>3. Included(row') # {} =>
             FeeWeight' + SumFunction([a \in Included(row') |-> OutputWeight[a]]) <= WeightBudget
      BY <1>3, <1>6, <1>7, <1>9, WeightsAreInts
    <2> QED BY <1>1, <2>1, <2>2, <2>3 DEF SumsInv
  <1> QED BY <1>11, <1>12, <1>13 DEF RoundsInv

LEMMA PaidOfIncluded ==
    ASSUME NEW r \in [Addresses -> RowType],
           \A a \in Addresses : r[a].paid > 0 => r[a].included
    PROVE  TotalPaid(r, Included(r)) = Total(PaidOf(r), Addresses)
  <1>1. Included(r) \in SUBSET Addresses
    BY DEF Included
  <1>2. \A a \in Addresses : PaidOf(r)[a] \in Int /\ PaidOf(r)[a] = r[a].paid /\ r[a].paid \in Nat
    BY FieldSums
  <1>3. \A a \in Addresses \ Included(r) : PaidOf(r)[a] = 0
    BY <1>2 DEF Included
  <1>4. PICK f : f = PaidOf(r)
    OBVIOUS
  <1>5. Total(f, Addresses) = Total(f, Included(r))
    BY <1>1, <1>2, <1>3, <1>4, AddressesFinite, TotalSkips
  <1> QED BY <1>1, <1>4, <1>5, PaidIsTotal

(* An address with an output is paid, so something is shared. *)
LEMMA IncludedIsPaid ==
    ASSUME RoundsInv, step \in {"chosen", "redistributed"}, Included(row) # {}
    PROVE  Reward > 0 /\ Shared = Reward
  <1>1. RowsInv /\ SumsInv
    BY DEF RoundsInv
  <1>2. PICK a \in Addresses : row[a].paid > 0
    BY <1>1 DEF RowsInv, Included
  <1>3. PICK f : f = PaidOf(row)
    OBVIOUS
  <1>4. \A x \in Addresses : f[x] \in Nat /\ f[x] = row[x].paid
    BY <1>3, RoundsTypes, FieldSums
  <1>5. f[a] <= Total(f, Addresses) /\ Total(f, Addresses) \in Nat
    BY <1>4, AddressesFinite, TotalBounds
  <1>6. Total(f, Addresses) <= Shared
    <2>1. SumFunction(PaidOf(row)) <= SumFunction(GrossOf(row)) /\ SumFunction(GrossOf(row)) = Shared
      BY <1>1 DEF SumsInv
    <2> QED BY <1>3, <2>1, RoundsTypes, FieldSums
  <1>7. Shared > 0
    BY <1>2, <1>4, <1>5, <1>6, RoundsTypes
  <1> QED BY <1>7, RoundsTypes DEF Shared

(* What was not paid is an advance of the active miners with an output. *)
LEMMA RedistributeKeeps ==
    ASSUME RoundsInv, Redistribute
    PROVE  RoundsInv'
  <1>1. /\ step = "chosen" /\ step' = "redistributed" /\ value' = value /\ fee' = fee
        /\ row' = RedistributeUnfit(row, Reward)
        /\ balance' = balance /\ totalPaid' = totalPaid /\ earned' = earned /\ blocks' = blocks
    BY DEF Redistribute, ledgerVars
  <1>2. RowsInv /\ SumsInv
    BY <1>1 DEF RoundsInv
  <1>3. PICK S : S = Included(row) \cap Active(row)
    OBVIOUS
  <1>4. PICK p \in Nat : p = Total(PaidOf(row), Addresses) /\ p = TotalPaid(row, Included(row))
                         /\ p = SumFunction(PaidOf(row))
    <2>1. \A a \in Addresses : row[a].paid > 0 => row[a].included
      BY <1>1, <1>2 DEF RowsInv
    <2>2. TotalPaid(row, Included(row)) = Total(PaidOf(row), Addresses)
      BY <2>1, RoundsTypes, PaidOfIncluded
    <2> QED BY <2>2, RoundsTypes, FieldSums
  <1>5. PICK rest \in Int : rest = Reward - p
    BY RoundsTypes
  <1>6. PICK extra : extra = ByWork(row, S, rest)
    OBVIOUS
  <1>7. S \in SUBSET Addresses /\ S \cap Active(row) = S
    BY <1>3 DEF Included
  <1>8. /\ extra \in [Addresses -> Nat]
        /\ \A a \in Addresses : extra[a] > 0 => a \in S
        /\ Total(extra, Addresses) = IF rest > 0 /\ S # {} THEN rest ELSE 0
    <2>1. /\ extra \in [Addresses -> Nat]
          /\ \A a \in Addresses : extra[a] > 0 => a \in S \cap Active(row)
          /\ Total(extra, Addresses) = IF rest > 0 /\ S \cap Active(row) # {} THEN rest ELSE 0
      BY <1>6, <1>7, RoundsTypes, WorkShares
    <2> QED BY <1>7, <2>1
  <1>9. row' = AddPayment(row, extra)
    BY <1>1, <1>3, <1>4, <1>5, <1>6 DEF RedistributeUnfit
  <1>10. /\ row' \in [Addresses -> RowType]
         /\ \A a \in Addresses :
               /\ row'[a].paid = row[a].paid + extra[a] /\ row'[a].after = row[a].after - extra[a]
               /\ row'[a].work = row[a].work /\ row'[a].gross = row[a].gross
               /\ row'[a].before = row[a].before /\ row'[a].target = row[a].target
               /\ row'[a].included = row[a].included
         /\ Total(PaidOf(row'), Addresses) = p + Total(extra, Addresses)
    <2>1. PICK q : q = row'
      OBVIOUS
    <2>2. q = AddPayment(row, extra) /\ row \in [Addresses -> RowType]
      BY <1>9, <2>1, RoundsTypes
    <2>3. /\ q \in [Addresses -> RowType]
          /\ \A a \in Addresses :
                /\ q[a].paid = row[a].paid + extra[a] /\ q[a].after = row[a].after - extra[a]
                /\ q[a].work = row[a].work /\ q[a].gross = row[a].gross
                /\ q[a].before = row[a].before /\ q[a].target = row[a].target
                /\ q[a].included = row[a].included
          /\ Total(PaidOf(q), Addresses) = Total(PaidOf(row), Addresses) + Total(extra, Addresses)
      BY <1>8, <2>2, PaymentAdds
    <2> QED BY <1>4, <2>1, <2>3
  <1>11. Included(row') = Included(row) /\ Active(row') = Active(row)
    BY <1>10 DEF Included, Active
  <1>12. GrossOf(row') = GrossOf(row)
    BY <1>10 DEF GrossOf
  <1>13. Reward' = Reward /\ Shared' = Shared /\ FeeWeight' = FeeWeight
    BY <1>1 DEF Reward, Shared, FeeWeight
  <1>14. p <= Shared
    <2>1. SumFunction(PaidOf(row)) <= SumFunction(GrossOf(row)) /\ SumFunction(GrossOf(row)) = Shared
      BY <1>1, <1>2 DEF SumsInv
    <2> QED BY <1>4, <2>1
  <1>15. SumFunction(PaidOf(row')) <= Shared /\ (S # {} => SumFunction(PaidOf(row')) = Reward)
    <2>1. SumFunction(PaidOf(row')) = p + Total(extra, Addresses)
      BY <1>10, FieldSums
    <2>2. CASE S = {}
      BY <1>8, <1>14, <2>1, <2>2
    <2>3. CASE S # {}
      <3>1. Shared = Reward
        BY <1>1, <1>3, <2>3, IncludedIsPaid
      <3>2. rest >= 0
        BY <1>5, <1>14, <3>1, RoundsTypes
      <3>3. Total(extra, Addresses) = rest
        BY <1>8, <2>3, <3>2
      <3> QED BY <1>5, <2>1, <3>1, <3>3, RoundsTypes
    <2> QED BY <2>2, <2>3
  <1>16. RoundsTypeOK' /\ BooksBalance' /\ SumFunction(balance') >= 0
    BY <1>1, <1>10 DEF RoundsInv, RoundsTypeOK, Steps, BooksBalance
  <1>17. RowsInv'
    <2> SUFFICES ASSUME NEW a \in Addresses
                 PROVE  /\ row'[a].before = balance[a]
                        /\ row'[a].after = row'[a].before + row'[a].gross - row'[a].paid
                        /\ row'[a].target <= row'[a].before + row'[a].gross
                        /\ row'[a].target = row'[a].before + row'[a].gross
                        /\ row'[a].paid > 0 => row'[a].target > 0
                        /\ row'[a].included => row'[a].paid > 0
                        /\ row'[a].paid > 0 => row'[a].included
                        /\ row'[a].included /\ row'[a].work = 0 => row'[a].paid >= MinOutput
      BY <1>1 DEF RowsInv
    <2>1. /\ row[a].before = balance[a] /\ row[a].after = row[a].before + row[a].gross - row[a].paid
          /\ row[a].target = row[a].before + row[a].gross
          /\ row[a].paid > 0 => row[a].target > 0
          /\ row[a].included => row[a].paid > 0
          /\ row[a].paid > 0 => row[a].included
          /\ row[a].included /\ row[a].work = 0 => row[a].paid >= MinOutput
      BY <1>1, <1>2 DEF RowsInv
    <2>2. /\ {row[a].work, row[a].gross, row[a].paid, extra[a]} \subseteq Nat
          /\ {row[a].before, row[a].target, row[a].after} \subseteq Int
      BY <1>8, RoundsTypes
    <2>3. extra[a] > 0 => row[a].included
      BY <1>3, <1>8 DEF Included
    <2>4. /\ row'[a].paid = row[a].paid + extra[a] /\ row'[a].after = row[a].after - extra[a]
          /\ row'[a].work = row[a].work /\ row'[a].gross = row[a].gross
          /\ row'[a].before = row[a].before /\ row'[a].target = row[a].target
          /\ row'[a].included = row[a].included
      BY <1>10
    <2>5. MinOutput \in Nat
      BY PayoutDistributionAssumption
    <2>6. row'[a].paid >= row[a].paid /\ (row'[a].paid > 0 => row[a].paid > 0)
      BY <2>1, <2>2, <2>3, <2>4
    <2>7. row'[a].included /\ row'[a].work = 0 => row'[a].paid >= MinOutput
      BY <2>1, <2>2, <2>4, <2>5
    <2>8. /\ row'[a].included => row'[a].paid > 0
          /\ row'[a].paid > 0 => row'[a].included
          /\ row'[a].paid > 0 => row'[a].target > 0
      BY <2>1, <2>2, <2>4, <2>6
    <2>9. /\ row'[a].before = balance[a]
          /\ row'[a].after = row'[a].before + row'[a].gross - row'[a].paid
          /\ row'[a].target <= row'[a].before + row'[a].gross
          /\ row'[a].target = row'[a].before + row'[a].gross
      BY <2>1, <2>2, <2>4
    <2> QED BY <2>7, <2>8, <2>9
  <1>18. SumsInv'
    <2>1. SumFunction(GrossOf(row')) = Shared' /\ fee' = FeeSats(value')
      BY <1>1, <1>2, <1>12, <1>13 DEF SumsInv
    <2>2. SumFunction(PaidOf(row')) <= SumFunction(GrossOf(row'))
      BY <1>13, <1>15, <2>1
    <2>3. Included(row') # {} =>
             FeeWeight' + SumFunction([a \in Included(row') |-> OutputWeight[a]]) <= WeightBudget
      BY <1>1, <1>2, <1>11, <1>13 DEF SumsInv
    <2>4. Included(row') \cap Active(row') # {} => SumFunction(PaidOf(row')) = Reward'
      BY <1>3, <1>11, <1>13, <1>15
    <2> QED BY <1>1, <2>1, <2>2, <2>3, <2>4 DEF SumsInv
  <1> QED BY <1>16, <1>17, <1>18 DEF RoundsInv

-----------------------------------------------------------------------------
(* The sum of what is kept from the addresses does not fall. *)
LEMMA BalancesKept ==
    ASSUME RoundsInv, step = "built"
    PROVE  SumFunction([a \in Addresses |-> row[a].after]) >= 0
  <1>1. RowsInv /\ SumsInv
    BY DEF RoundsInv
  <1>2. PICK f, g, h : f = AfterOf(row) /\ g = PaidOf(row) /\ h = GrossOf(row)
    OBVIOUS
  <1> DEFINE both == [a \in Addresses |-> balance[a] + row[a].gross]
  <1>3. ASSUME NEW a \in Addresses
        PROVE  /\ f[a] \in Int /\ g[a] \in Int /\ h[a] \in Int /\ balance[a] \in Int
               /\ both[a] = f[a] + g[a] /\ both[a] = balance[a] + h[a]
    <2>1. row[a].before = balance[a] /\ row[a].after = row[a].before + row[a].gross - row[a].paid
      BY <1>1 DEF RowsInv
    <2>2. f[a] = row[a].after /\ g[a] = row[a].paid /\ h[a] = row[a].gross
      BY <1>2, RoundsTypes, FieldSums
    <2>3. /\ {row[a].gross, row[a].paid} \subseteq Nat
          /\ {row[a].before, row[a].after, balance[a]} \subseteq Int
      BY RoundsTypes
    <2>4. both[a] = balance[a] + row[a].gross
      OBVIOUS
    <2> HIDE DEF both
    <2> QED BY <2>1, <2>2, <2>3, <2>4
  <1> HIDE DEF both
  <1>4. Total(both, Addresses) = Total(f, Addresses) + Total(g, Addresses)
    <2>1. AddUp(f, g, both, Addresses)
      BY <1>3 DEF AddUp
    <2> QED BY <2>1, AddressesFinite, TotalsAddUp
  <1>5. Total(both, Addresses) = Total(balance, Addresses) + Total(h, Addresses)
    <2>1. AddUp(balance, h, both, Addresses)
      BY <1>3 DEF AddUp
    <2> QED BY <2>1, AddressesFinite, TotalsAddUp
  <1>6. Total(balance, Addresses) >= 0 /\ Total(balance, Addresses) \in Int
    <2>1. SumFunction(balance) = Total(balance, Addresses)
      BY RoundsTypes, SumIsTotal
    <2>2. \A a \in Addresses : balance[a] \in Int
      BY RoundsTypes
    <2>3. Total(balance, Addresses) \in Int
      BY <2>2, AddressesFinite, TotalIsInt
    <2> QED BY <2>1, <2>3 DEF RoundsInv
  <1>7. Total(g, Addresses) <= Total(h, Addresses)
        /\ Total(g, Addresses) \in Nat /\ Total(h, Addresses) \in Nat
    <2>1. SumFunction(PaidOf(row)) <= SumFunction(GrossOf(row))
      BY <1>1 DEF SumsInv
    <2> QED BY <1>2, <2>1, RoundsTypes, FieldSums
  <1>8. Total(f, Addresses) \in Int
    <2>1. \A a \in Addresses : f[a] \in Int
      BY <1>3
    <2> QED BY <2>1, AddressesFinite, TotalIsInt
  <1>9. SumFunction(f) = Total(f, Addresses)
    BY <1>2, SumIsTotal DEF AfterOf
  <1>10. Total(f, Addresses) >= 0
    BY <1>4, <1>5, <1>6, <1>7, <1>8
  <1> QED BY <1>2, <1>9, <1>10 DEF AfterOf

(* A block pays the snapshot: the balances become what its rows leave. *)
LEMMA FinalizeKeeps ==
    ASSUME RoundsInv, FinalizeRound
    PROVE  RoundsInv'
  <1>1. /\ step = "built" /\ step' = "idle" /\ value' = value /\ fee' = fee /\ row' = row
        /\ balance' = [a \in Addresses |-> row[a].after]
        /\ totalPaid' = [a \in Addresses |-> totalPaid[a] + row[a].paid]
        /\ earned' = [a \in Addresses |-> earned[a] + row[a].gross]
        /\ blocks' = blocks + 1
    BY DEF FinalizeRound
  <1>2. ASSUME NEW a \in Addresses
        PROVE  /\ balance'[a] = row[a].after /\ totalPaid'[a] = totalPaid[a] + row[a].paid
               /\ earned'[a] = earned[a] + row[a].gross
               /\ row[a].after = earned[a] - totalPaid[a] + row[a].gross - row[a].paid
               /\ {row[a].gross, row[a].paid, earned[a], totalPaid[a]} \subseteq Nat
               /\ row[a].after \in Int
    <2>1. row[a].before = balance[a] /\ row[a].after = row[a].before + row[a].gross - row[a].paid
      BY <1>1 DEF RoundsInv, RowsInv
    <2>2. balance[a] = earned[a] - totalPaid[a]
      BY DEF RoundsInv, BooksBalance
    <2>3. earned[a] \in Nat /\ totalPaid[a] \in Nat
      BY DEF RoundsInv, RoundsTypeOK
    <2> QED BY <1>1, <2>1, <2>2, <2>3, RoundsTypes
  <1>3. BooksBalance'
    <2> SUFFICES ASSUME NEW a \in Addresses PROVE balance'[a] = earned'[a] - totalPaid'[a]
      BY DEF BooksBalance
    <2> QED BY <1>2
  <1>4. RoundsTypeOK'
    <2>1. balance' \in [Addresses -> Int] /\ totalPaid' \in [Addresses -> Nat]
          /\ earned' \in [Addresses -> Nat]
      BY <1>1, <1>2
    <2>2. {value', fee', blocks'} \subseteq Nat /\ row' \in [Addresses -> RowType]
          /\ step' \in Steps
      BY <1>1 DEF RoundsInv, RoundsTypeOK, Steps
    <2> QED BY <2>1, <2>2 DEF RoundsTypeOK
  <1>5. SumFunction(balance') >= 0
    BY <1>1, BalancesKept
  <1> QED BY <1>1, <1>3, <1>4, <1>5 DEF RoundsInv

LEMMA DiscardKeeps ==
    ASSUME RoundsInv, Discard
    PROVE  RoundsInv'
  <1>1. /\ step' = "idle" /\ blocks' = blocks + 1
        /\ UNCHANGED <<value, row, fee, balance, totalPaid, earned>>
    BY DEF Discard
  <1>2. RoundsTypeOK' /\ BooksBalance' /\ SumFunction(balance') >= 0
    BY <1>1 DEF RoundsInv, RoundsTypeOK, Steps, BooksBalance
  <1> QED BY <1>1, <1>2 DEF RoundsInv

-----------------------------------------------------------------------------
(* mergeFeeEntry adds the fee to what its address earns and is paid. *)
LEMMA FeeMerged ==
    ASSUME NEW r \in [Addresses -> RowType], NEW f \in Nat, NEW m, m = MergeFee(r, f)
    PROVE  /\ m \in [Addresses -> RowType]
           /\ \A a \in Addresses :
                 LET more == IF FeeMerges(r, f) /\ a = FeeAddress THEN f ELSE 0
                 IN  /\ m[a].paid = r[a].paid + more /\ m[a].gross = r[a].gross + more
                     /\ m[a].work = r[a].work /\ m[a].before = r[a].before
                     /\ m[a].target = r[a].target /\ m[a].after = r[a].after
                     /\ m[a].included = r[a].included
           /\ LET more == IF FeeMerges(r, f) THEN f ELSE 0
              IN  /\ Total(PaidOf(m), Addresses) = Total(PaidOf(r), Addresses) + more
                  /\ Total(GrossOf(m), Addresses) = Total(GrossOf(r), Addresses) + more
  <1> DEFINE more == [a \in Addresses |-> IF FeeMerges(r, f) /\ a = FeeAddress THEN f ELSE 0]
             all == IF FeeMerges(r, f) THEN f ELSE 0
  <1>1. ASSUME NEW a \in Addresses
        PROVE  /\ m[a] \in RowType
               /\ m[a].paid = r[a].paid + more[a] /\ m[a].gross = r[a].gross + more[a]
               /\ m[a].work = r[a].work /\ m[a].before = r[a].before
               /\ m[a].target = r[a].target /\ m[a].after = r[a].after
               /\ m[a].included = r[a].included
    <2>1. PICK x, y : x = r[a] /\ y = m[a] /\ x \in RowType
      OBVIOUS
    <2>2. x.paid \in Nat /\ x.gross \in Nat
      BY <2>1 DEF RowType
    <2>3. CASE FeeMerges(r, f) /\ a = FeeAddress
      <3>1. y = [x EXCEPT !.paid = @ + f, !.gross = @ + f]
        <4>1. m = [r EXCEPT ![FeeAddress].paid = @ + f, ![FeeAddress].gross = @ + f]
          BY <2>3 DEF MergeFee
        <4> QED BY <2>1, <2>3, <4>1
      <3>2. x = [work |-> x.work, gross |-> x.gross, before |-> x.before, target |-> x.target,
                 paid |-> x.paid, after |-> x.after, included |-> x.included]
        BY <2>1 DEF RowType
      <3>3. y = [work |-> x.work, gross |-> x.gross + f, before |-> x.before,
                 target |-> x.target, paid |-> x.paid + f, after |-> x.after,
                 included |-> x.included]
        BY <3>1, <3>2
      <3>4. x.paid + f \in Nat /\ x.gross + f \in Nat
        BY <2>2
      <3>5. y \in RowType
        BY <2>1, <3>3, <3>4 DEF RowType
      <3>6. more[a] = f
        BY <2>3
      <3> HIDE DEF more
      <3> QED BY <2>1, <3>3, <3>5, <3>6
    <2>4. CASE ~(FeeMerges(r, f) /\ a = FeeAddress)
      <3>1. y = x
        BY <2>1, <2>4 DEF MergeFee
      <3>2. more[a] = 0
        BY <2>4
      <3> HIDE DEF more
      <3> QED BY <2>1, <2>2, <3>1, <3>2
    <2> QED BY <2>3, <2>4
  <1>2. m \in [Addresses -> RowType]
    <2>1. m = [a \in Addresses |-> m[a]]
      BY DEF MergeFee
    <2> QED BY <1>1, <2>1
  <1>3. \A a \in Addresses : more[a] \in Nat /\ more[a] = IF FeeMerges(r, f) /\ a = FeeAddress THEN f ELSE 0
    OBVIOUS
  <1>4. Total(more, Addresses) = all
    <2>1. CASE FeeMerges(r, f)
      <3>1. FeeAddress \in Addresses
        BY <2>1 DEF FeeMerges, Included
      <3>2. (\A a \in Addresses : more[a] \in Int) /\ more[FeeAddress] = f
        BY <1>3, <2>1, <3>1
      <3>3. \A a \in Addresses \ {FeeAddress} : more[a] = 0
        BY <1>3
      <3> HIDE DEF more
      <3>4. Total(more, Addresses) = more[FeeAddress]
        BY <3>1, <3>2, <3>3, AddressesFinite, TotalOfOne
      <3> QED BY <2>1, <3>2, <3>4
    <2>2. CASE ~FeeMerges(r, f)
      <3>1. \A a \in Addresses : more[a] = 0
        BY <2>2
      <3> HIDE DEF more
      <3> QED BY <2>2, <3>1, TotalOfZero
    <2> QED BY <2>1, <2>2
  <1> HIDE DEF more
  <1>5. Total(PaidOf(m), Addresses) = Total(PaidOf(r), Addresses) + all
    <2>1. PICK s, q : s = PaidOf(m) /\ q = PaidOf(r)
      OBVIOUS
    <2>2. AddUp(q, more, s, Addresses)
      <3> SUFFICES ASSUME NEW a \in Addresses
                   PROVE  q[a] \in Int /\ more[a] \in Int /\ s[a] = q[a] + more[a]
        BY DEF AddUp
      <3>1. s[a] = m[a].paid
        BY <1>2, <2>1, FieldSums
      <3>2. q[a] = r[a].paid /\ q[a] \in Nat
        BY <2>1, FieldSums
      <3> QED BY <1>1, <1>3, <3>1, <3>2
    <2> QED BY <1>4, <2>1, <2>2, AddressesFinite, TotalsAddUp
  <1>6. Total(GrossOf(m), Addresses) = Total(GrossOf(r), Addresses) + all
    <2>1. PICK s, q : s = GrossOf(m) /\ q = GrossOf(r)
      OBVIOUS
    <2>2. AddUp(q, more, s, Addresses)
      <3> SUFFICES ASSUME NEW a \in Addresses
                   PROVE  q[a] \in Int /\ more[a] \in Int /\ s[a] = q[a] + more[a]
        BY DEF AddUp
      <3>1. s[a] = m[a].gross
        BY <1>2, <2>1, FieldSums
      <3>2. q[a] = r[a].gross /\ q[a] \in Nat
        BY <2>1, FieldSums
      <3> QED BY <1>1, <1>3, <3>1, <3>2
    <2> QED BY <1>4, <2>1, <2>2, AddressesFinite, TotalsAddUp
  <1>7. \A a \in Addresses :
           LET one == IF FeeMerges(r, f) /\ a = FeeAddress THEN f ELSE 0
           IN  /\ m[a].paid = r[a].paid + one /\ m[a].gross = r[a].gross + one
               /\ m[a].work = r[a].work /\ m[a].before = r[a].before
               /\ m[a].target = r[a].target /\ m[a].after = r[a].after
               /\ m[a].included = r[a].included
    BY <1>1, <1>3
  <1> QED BY <1>2, <1>5, <1>6, <1>7

(* limitCoinbaseOutputs: what the removed outputs would have been paid is    *)
(* kept from them and goes to the active ones left, if there are any.        *)
Limited(m, kept, q) ==
    /\ q \in [Addresses -> RowType]
    /\ Included(q) = kept
    /\ \A a \in Addresses :
          /\ q[a].work = m[a].work /\ q[a].gross = m[a].gross
          /\ q[a].before = m[a].before /\ q[a].target = m[a].target
          /\ q[a].paid + q[a].after = m[a].paid + m[a].after
          /\ a \in kept => q[a].paid >= m[a].paid
          /\ a \in Included(m) \ kept => q[a].paid = 0
          /\ a \notin Included(m) => q[a].paid = m[a].paid
    /\ Total(PaidOf(q), Addresses) <= Total(PaidOf(m), Addresses)
    /\ kept \cap Active(m) # {} =>
          Total(PaidOf(q), Addresses) = Total(PaidOf(m), Addresses)

LEMMA OutputsLimited ==
    ASSUME NEW m \in [Addresses -> RowType], NEW rank,
           NEW kept, kept = {a \in Included(m) : ~(rank[a] > MaxOutputs)}
    PROVE  Limited(m, kept, LimitCoinbaseOutputs(m, rank))
  <1>0. PICK q : q = LimitCoinbaseOutputs(m, rank)
    OBVIOUS
  <1>1. PICK gone : gone = {a \in Included(m) : rank[a] > MaxOutputs}
    OBVIOUS
  <1>2. kept = Included(m) \ gone /\ kept \in SUBSET Addresses /\ gone \in SUBSET Addresses
        /\ gone \subseteq Included(m)
    BY <1>1 DEF Included
  <1>3. PICK l : l = [a \in Addresses |->
                         IF a \in gone
                         THEN [m[a] EXCEPT !.paid = 0, !.after = @ + m[a].paid,
                                           !.included = FALSE]
                         ELSE m[a]]
    OBVIOUS
  <1>4. ASSUME NEW a \in Addresses
        PROVE  /\ l[a] \in RowType
               /\ l[a].work = m[a].work /\ l[a].gross = m[a].gross
               /\ l[a].before = m[a].before /\ l[a].target = m[a].target
               /\ l[a].paid = IF a \in gone THEN 0 ELSE m[a].paid
               /\ l[a].after = IF a \in gone THEN m[a].after + m[a].paid ELSE m[a].after
               /\ l[a].included = IF a \in gone THEN FALSE ELSE m[a].included
               /\ m[a].paid \in Nat /\ m[a].after \in Int
    <2>1. PICK x, y : x = m[a] /\ y = l[a] /\ x \in RowType
      OBVIOUS
    <2>2. x.paid \in Nat /\ x.after \in Int /\ x.after + x.paid \in Int
      BY <2>1 DEF RowType
    <2>3. CASE a \in gone
      <3>1. y = [x EXCEPT !.paid = 0, !.after = @ + x.paid, !.included = FALSE]
        BY <1>3, <2>1, <2>3
      <3>2. x = [work |-> x.work, gross |-> x.gross, before |-> x.before, target |-> x.target,
                 paid |-> x.paid, after |-> x.after, included |-> x.included]
        BY <2>1 DEF RowType
      <3>3. y = [work |-> x.work, gross |-> x.gross, before |-> x.before, target |-> x.target,
                 paid |-> 0, after |-> x.after + x.paid, included |-> FALSE]
        BY <3>1, <3>2
      <3>4. y \in RowType
        BY <2>1, <2>2, <3>3 DEF RowType
      <3> QED BY <2>1, <2>2, <2>3, <3>3, <3>4
    <2>4. CASE a \notin gone
      <3>1. y = x
        BY <1>3, <2>1, <2>4
      <3> QED BY <2>1, <2>2, <2>4, <3>1
    <2> QED BY <2>3, <2>4
  <1>5. l \in [Addresses -> RowType]
    BY <1>3, <1>4
  <1>6. Included(l) = kept /\ Active(l) = Active(m)
    BY <1>2, <1>4 DEF Included, Active
  <1>7. PICK S : S = kept \cap Active(m)
    OBVIOUS
  <1>8. PICK moved \in Nat : moved = TotalPaid(m, gone) /\ moved = Total(PaidOf(m), gone)
    BY <1>2, PaidIsTotal
  <1>9. PICK extra : extra = ByWork(l, S, moved)
    OBVIOUS
  <1>10. S \in SUBSET Addresses /\ S \cap Active(l) = S /\ moved \in Int
    BY <1>2, <1>6, <1>7
  <1>11. /\ extra \in [Addresses -> Nat]
         /\ \A a \in Addresses : extra[a] > 0 => a \in S
         /\ Total(extra, Addresses) = IF moved > 0 /\ S # {} THEN moved ELSE 0
    <2>1. /\ extra \in [Addresses -> Nat]
          /\ \A a \in Addresses : extra[a] > 0 => a \in S \cap Active(l)
          /\ Total(extra, Addresses) = IF moved > 0 /\ S \cap Active(l) # {} THEN moved ELSE 0
      <3>1. l \in [Addresses -> RowType] /\ S \in SUBSET Addresses /\ moved \in Int
            /\ extra = ByWork(l, S, moved)
        BY <1>5, <1>9, <1>10
      <3> QED BY ONLY <3>1, WorkShares
    <2> QED BY <1>10, <2>1
  <1>12. q = AddPayment(l, extra)
    BY <1>0, <1>1, <1>2, <1>3, <1>6, <1>7, <1>8, <1>9 DEF LimitCoinbaseOutputs
  <1>13. /\ q \in [Addresses -> RowType]
         /\ \A a \in Addresses :
               /\ q[a].paid = l[a].paid + extra[a] /\ q[a].after = l[a].after - extra[a]
               /\ q[a].work = l[a].work /\ q[a].gross = l[a].gross
               /\ q[a].before = l[a].before /\ q[a].target = l[a].target
               /\ q[a].included = l[a].included
         /\ Total(PaidOf(q), Addresses) = Total(PaidOf(l), Addresses) + Total(extra, Addresses)
    BY <1>5, <1>11, <1>12, PaymentAdds
  <1>14. Included(q) = kept
    BY <1>6, <1>13 DEF Included
  <1>15. ASSUME NEW a \in Addresses
         PROVE  /\ q[a].work = m[a].work /\ q[a].gross = m[a].gross
                /\ q[a].before = m[a].before /\ q[a].target = m[a].target
                /\ q[a].paid + q[a].after = m[a].paid + m[a].after
                /\ a \in kept => q[a].paid >= m[a].paid
                /\ a \in Included(m) \ kept => q[a].paid = 0
                /\ a \notin Included(m) => q[a].paid = m[a].paid
    <2>1. /\ q[a].paid = l[a].paid + extra[a] /\ q[a].after = l[a].after - extra[a]
          /\ q[a].work = l[a].work /\ q[a].gross = l[a].gross
          /\ q[a].before = l[a].before /\ q[a].target = l[a].target
      BY <1>13
    <2>2. extra[a] \in Nat /\ (a \notin kept => extra[a] = 0)
      BY <1>7, <1>11
    <2>3. a \in kept => a \notin gone
      BY <1>2
    <2>4. a \in Included(m) \ kept => a \in gone
      BY <1>2
    <2>5. a \notin Included(m) => a \notin gone /\ a \notin kept
      BY <1>2
    <2>6. /\ l[a].work = m[a].work /\ l[a].gross = m[a].gross
          /\ l[a].before = m[a].before /\ l[a].target = m[a].target
          /\ l[a].paid = IF a \in gone THEN 0 ELSE m[a].paid
          /\ l[a].after = IF a \in gone THEN m[a].after + m[a].paid ELSE m[a].after
          /\ m[a].paid \in Nat /\ m[a].after \in Int
      BY <1>4
    <2>7. q[a].paid + q[a].after = m[a].paid + m[a].after
      BY <2>1, <2>2, <2>6
    <2>8. a \in kept => q[a].paid >= m[a].paid
      BY <2>1, <2>2, <2>3, <2>6
    <2>9. a \in Included(m) \ kept => q[a].paid = 0
      BY <2>1, <2>2, <2>4, <2>6
    <2>10. a \notin Included(m) => q[a].paid = m[a].paid
      BY <2>1, <2>2, <2>5, <2>6
    <2> QED BY <2>1, <2>6, <2>7, <2>8, <2>9, <2>10
  <1>16. Total(PaidOf(m), Addresses) = Total(PaidOf(l), Addresses) + moved
    <2> DEFINE cut == [a \in Addresses |-> IF a \in gone THEN m[a].paid ELSE 0]
    <2>1. PICK f, g : f = PaidOf(m) /\ g = PaidOf(l)
      OBVIOUS
    <2>2. \A a \in Addresses : f[a] = m[a].paid /\ f[a] \in Nat /\ g[a] = l[a].paid /\ g[a] \in Nat
      BY <1>5, <2>1, FieldSums
    <2>3. AddUp(g, cut, f, Addresses)
      <3> SUFFICES ASSUME NEW a \in Addresses
                   PROVE  g[a] \in Int /\ cut[a] \in Int /\ f[a] = g[a] + cut[a]
        BY DEF AddUp
      <3>1. l[a].paid = IF a \in gone THEN 0 ELSE m[a].paid
        BY <1>4
      <3>2. cut[a] = IF a \in gone THEN m[a].paid ELSE 0
        OBVIOUS
      <3>3. f[a] = m[a].paid /\ f[a] \in Nat /\ g[a] = l[a].paid
        BY <2>2
      <3> HIDE DEF cut
      <3> QED BY <3>1, <3>2, <3>3
    <2>4. Total(cut, Addresses) = Total(cut, gone)
      <3>1. \A a \in Addresses : cut[a] \in Int
        <4> TAKE a \in Addresses
        <4>1. m[a].paid \in Nat
          BY <1>4
        <4> QED BY <4>1
      <3>2. \A a \in Addresses \ gone : cut[a] = 0
        OBVIOUS
      <3> HIDE DEF cut
      <3> QED BY <1>2, <3>1, <3>2, AddressesFinite, TotalSkips
    <2>5. Total(cut, gone) = Total(f, gone)
      <3>1. \A a \in gone : cut[a] \in Int /\ cut[a] = f[a]
        BY <1>2, <1>4, <2>2
      <3>2. IsFiniteSet(gone)
        BY <1>2, AddressesFinite, FS_Subset
      <3> HIDE DEF cut
      <3> QED BY <3>1, <3>2, TotalsEqual
    <2> HIDE DEF cut
    <2>6. Total(f, Addresses) = Total(g, Addresses) + Total(cut, Addresses)
      BY <2>3, AddressesFinite, TotalsAddUp
    <2> QED BY <1>8, <2>1, <2>4, <2>5, <2>6
  <1>17. Total(PaidOf(l), Addresses) \in Nat
    BY <1>5, FieldSums
  <1>18. Total(PaidOf(q), Addresses) <= Total(PaidOf(m), Addresses)
    BY <1>11, <1>13, <1>16, <1>17
  <1>19. ASSUME kept \cap Active(m) # {}
         PROVE  Total(PaidOf(q), Addresses) = Total(PaidOf(m), Addresses)
    BY <1>7, <1>11, <1>13, <1>16, <1>17, <1>19
  <1> QED BY <1>0, <1>13, <1>14, <1>15, <1>18, <1>19 DEF Limited

(* Fewer outputs are kept than there are places. *)
LEMMA KeptAreFew ==
    ASSUME NEW r \in [Addresses -> RowType], NEW f \in Nat,
           NEW kept, kept = {a \in Included(r) : ~(Rank(r, f)[a] > MaxOutputs)}
    PROVE  Cardinality(kept) + (IF f > 0 /\ ~FeeMerges(r, f) THEN 1 ELSE 0) <= MaxOutputs
  <1> DEFINE first == IF f > 0 /\ ~FeeMerges(r, f) THEN 1 ELSE 0
  <1>1. PICK S : S = Included(r)
    OBVIOUS
  <1>2. PICK R : R = PaidOrder(r, S)
    OBVIOUS
  <1>3. S \in SUBSET Addresses /\ IsFiniteSet(S)
    <2>1. S \in SUBSET Addresses
      BY <1>1 DEF Included
    <2> QED BY <2>1, AddressesFinite, FS_Subset
  <1>4. Orders(R, S) /\ \A a, b \in S : <<b, a>> \in R <=> PaidBefore(r, b, a)
    BY <1>2, <1>3, PaidOrders
  <1>5. first \in {0, 1} /\ MaxOutputs \in Nat /\ MaxOutputs >= 1 /\ MaxOutputs - first \in Nat
    <2>1. MaxOutputs \in Nat \ {0}
      BY PayoutDistributionAssumption
    <2>2. first \in {0, 1}
      OBVIOUS
    <2> HIDE DEF first
    <2> QED BY <2>1, <2>2
  <1>6. \A a \in S : Rank(r, f)[a] = 1 + first + Cardinality(Earlier(R, S, a))
    <2> TAKE a \in S
    <2>1. {b \in Included(r) : PaidBefore(r, b, a)} = Earlier(R, S, a)
      BY <1>1, <1>4 DEF Earlier
    <2> QED BY <1>3, <2>1 DEF Rank
  <1> HIDE DEF first
  <1>7. kept = {a \in S : Cardinality(Earlier(R, S, a)) < MaxOutputs - first}
    <2>1. ASSUME NEW a \in S
          PROVE  ~(Rank(r, f)[a] > MaxOutputs) <=> Cardinality(Earlier(R, S, a)) < MaxOutputs - first
      <3>1. Cardinality(Earlier(R, S, a)) \in Nat
        <4>1. IsFiniteSet(Earlier(R, S, a))
          BY <1>3, <1>4, PlacesRise
        <4> QED BY <4>1, FS_CardinalityType
      <3>2. Rank(r, f)[a] = 1 + first + Cardinality(Earlier(R, S, a))
        BY <1>6
      <3> QED BY <1>5, <3>1, <3>2
    <2> QED BY <1>1, <2>1
  <1>8. Cardinality(kept) \in Nat /\ Cardinality(kept) <= MaxOutputs - first
    BY <1>3, <1>4, <1>5, <1>7, PlacesBound
  <1>9. Cardinality(kept) + first <= MaxOutputs
    BY <1>5, <1>8
  <1> QED BY <1>9 DEF first

(* The fee joins the output of its address, and the first outputs are kept. *)
LEMMA MergeAndLimitKeeps ==
    ASSUME RoundsInv, MergeAndLimit
    PROVE  RoundsInv'
  <1>1. /\ step = "redistributed" /\ step' = "built" /\ value' = value
        /\ row' = LimitCoinbaseOutputs(MergeFee(row, fee), Rank(row, fee))
        /\ fee' = IF FeeMerges(row, fee) THEN 0 ELSE fee
        /\ balance' = balance /\ totalPaid' = totalPaid /\ earned' = earned /\ blocks' = blocks
    BY DEF MergeAndLimit, ledgerVars
  <1>2. RowsInv /\ SumsInv /\ fee \in Nat /\ row \in [Addresses -> RowType]
    BY <1>1, RoundsTypes DEF RoundsInv
  <1>3. PICK m : m = MergeFee(row, fee)
    OBVIOUS
  <1>4. PICK more \in Nat : more = IF FeeMerges(row, fee) THEN fee ELSE 0
    BY <1>2
  <1>5. /\ m \in [Addresses -> RowType]
        /\ \A a \in Addresses :
              LET one == IF FeeMerges(row, fee) /\ a = FeeAddress THEN fee ELSE 0
              IN  /\ m[a].paid = row[a].paid + one /\ m[a].gross = row[a].gross + one
                  /\ m[a].work = row[a].work /\ m[a].before = row[a].before
                  /\ m[a].target = row[a].target /\ m[a].after = row[a].after
                  /\ m[a].included = row[a].included
        /\ Total(PaidOf(m), Addresses) = Total(PaidOf(row), Addresses) + more
        /\ Total(GrossOf(m), Addresses) = Total(GrossOf(row), Addresses) + more
    BY <1>2, <1>3, <1>4, FeeMerged
  <1>6. Included(m) = Included(row) /\ Active(m) = Active(row)
    BY <1>5 DEF Included, Active
  <1>7. PICK rank : rank = Rank(row, fee)
    OBVIOUS
  <1>8. PICK kept : kept = {a \in Included(m) : ~(rank[a] > MaxOutputs)}
    OBVIOUS
  <1>9. PICK q : q = row' /\ q = LimitCoinbaseOutputs(m, rank)
    BY <1>1, <1>3, <1>7
  <1>10. /\ q \in [Addresses -> RowType]
         /\ Included(q) = kept
         /\ \A a \in Addresses :
               /\ q[a].work = m[a].work /\ q[a].gross = m[a].gross
               /\ q[a].before = m[a].before /\ q[a].target = m[a].target
               /\ q[a].paid + q[a].after = m[a].paid + m[a].after
               /\ a \in kept => q[a].paid >= m[a].paid
               /\ a \in Included(m) \ kept => q[a].paid = 0
               /\ a \notin Included(m) => q[a].paid = m[a].paid
         /\ Total(PaidOf(q), Addresses) <= Total(PaidOf(m), Addresses)
         /\ kept \cap Active(m) # {} =>
               Total(PaidOf(q), Addresses) = Total(PaidOf(m), Addresses)
    <2>1. Limited(m, kept, LimitCoinbaseOutputs(m, rank))
      BY <1>5, <1>8, OutputsLimited
    <2> QED BY <1>9, <2>1 DEF Limited
  <1>11. kept \in SUBSET Included(row) /\ kept \in SUBSET Addresses
    BY <1>6, <1>8 DEF Included
  <1>12. ASSUME NEW a \in Addresses
         PROVE  /\ q[a].before = balance[a]
                /\ q[a].after = q[a].before + q[a].gross - q[a].paid
                /\ q[a].target <= q[a].before + q[a].gross
                /\ q[a].paid > 0 => q[a].target > 0
                /\ q[a].included => q[a].paid > 0
                /\ q[a].paid > 0 => q[a].included
                /\ q[a].included /\ q[a].work = 0 => q[a].paid >= MinOutput
    <2>1. /\ row[a].before = balance[a] /\ row[a].after = row[a].before + row[a].gross - row[a].paid
          /\ row[a].target = row[a].before + row[a].gross
          /\ row[a].paid > 0 => row[a].target > 0
          /\ row[a].included => row[a].paid > 0
          /\ row[a].paid > 0 => row[a].included
          /\ row[a].included /\ row[a].work = 0 => row[a].paid >= MinOutput
      BY <1>1, <1>2 DEF RowsInv
    <2>2. PICK one \in Nat : /\ m[a].paid = row[a].paid + one /\ m[a].gross = row[a].gross + one
                             /\ one > 0 => row[a].included
      <3> DEFINE one == IF FeeMerges(row, fee) /\ a = FeeAddress THEN fee ELSE 0
      <3>1. m[a].paid = row[a].paid + one /\ m[a].gross = row[a].gross + one
        BY <1>5
      <3>2. one \in Nat /\ (one > 0 => row[a].included)
        BY <1>2 DEF FeeMerges, Included
      <3> HIDE DEF one
      <3> QED BY <3>1, <3>2
    <2>3. /\ m[a].work = row[a].work /\ m[a].before = row[a].before
          /\ m[a].target = row[a].target /\ m[a].after = row[a].after
          /\ m[a].included = row[a].included
      BY <1>5
    <2>4. /\ q[a].work = m[a].work /\ q[a].gross = m[a].gross
          /\ q[a].before = m[a].before /\ q[a].target = m[a].target
          /\ q[a].paid + q[a].after = m[a].paid + m[a].after
          /\ a \in kept => q[a].paid >= m[a].paid
          /\ a \in Included(m) \ kept => q[a].paid = 0
          /\ a \notin Included(m) => q[a].paid = m[a].paid
      BY <1>10
    <2>5. /\ {row[a].work, row[a].gross, row[a].paid, q[a].paid} \subseteq Nat
          /\ {row[a].before, row[a].target, row[a].after, q[a].after} \subseteq Int
          /\ MinOutput \in Nat
      <3>1. q[a] \in RowType
        BY <1>10
      <3>2. q[a].paid \in Nat /\ q[a].after \in Int
        BY <3>1 DEF RowType
      <3> QED BY <3>2, RoundsTypes, PayoutDistributionAssumption
    <2>6. q[a].included <=> a \in kept
      BY <1>10 DEF Included
    <2>7. a \in Included(m) <=> row[a].included
      BY <1>6 DEF Included
    <2>8. a \in kept => row[a].included
      BY <1>11 DEF Included
    <2>9. /\ q[a].before = balance[a]
          /\ q[a].after = q[a].before + q[a].gross - q[a].paid
          /\ q[a].target <= q[a].before + q[a].gross
      <3>1. /\ q[a].before = row[a].before /\ q[a].target = row[a].target
            /\ q[a].gross = row[a].gross + one
            /\ q[a].paid + q[a].after = (row[a].paid + one) + row[a].after
        BY <2>2, <2>3, <2>4
      <3>2. PICK x \in Int, y \in Int, z \in Int, w \in Int, u \in Int, v \in Int :
               /\ x = row[a].before /\ y = row[a].gross /\ z = row[a].paid /\ w = row[a].after
               /\ u = q[a].paid /\ v = q[a].after
        <4>1. row[a].before \in Int /\ row[a].gross \in Int /\ row[a].paid \in Int
          BY <2>5
        <4>2. row[a].after \in Int /\ q[a].paid \in Int /\ q[a].after \in Int
          BY <2>5
        <4> QED BY <4>1, <4>2
      <3>3. w = x + y - z /\ u + v = (z + one) + w
        BY <2>1, <3>1, <3>2
      <3>4. v = x + (y + one) - u
        BY <3>3
      <3>5. row[a].target <= x + (y + one)
        <4>1. row[a].target \in Int
          BY <2>5
        <4> QED BY <2>1, <2>2, <3>2, <4>1
      <3> QED BY <2>1, <3>1, <3>2, <3>4, <3>5
    <2>10. CASE a \in kept
      <3>1. q[a].paid >= row[a].paid /\ row[a].paid > 0 /\ row[a].target > 0
        BY <2>1, <2>2, <2>4, <2>5, <2>8, <2>10
      <3>2. q[a].work = 0 => q[a].paid >= MinOutput
        BY <2>1, <2>3, <2>4, <2>5, <2>8, <2>10, <3>1
      <3>3. q[a].paid > 0 /\ q[a].target > 0
        BY <2>3, <2>4, <2>5, <3>1
      <3> QED BY <2>6, <2>9, <2>10, <3>2, <3>3
    <2>11. CASE a \notin kept
      <3>1. q[a].paid = 0
        <4>1. CASE row[a].included
          BY <2>4, <2>7, <2>11, <4>1
        <4>2. CASE ~row[a].included
          <5>1. q[a].paid = m[a].paid /\ one = 0 /\ ~(row[a].paid > 0)
            BY <2>1, <2>2, <2>4, <2>7, <4>2
          <5> QED BY <2>2, <2>5, <5>1
        <4> QED BY <4>1, <4>2
      <3> QED BY <2>6, <2>9, <2>11, <3>1
    <2> QED BY <2>10, <2>11
  <1>13. RowsInv'
    BY <1>1, <1>9, <1>12 DEF RowsInv
  <1>14. GrossOf(q) = GrossOf(m)
    BY <1>10 DEF GrossOf
  <1>15. PICK p \in Nat, g \in Nat, s \in Nat :
            /\ p = Total(PaidOf(row), Addresses) /\ p = SumFunction(PaidOf(row))
            /\ g = Total(GrossOf(row), Addresses) /\ g = SumFunction(GrossOf(row))
            /\ s = Total(PaidOf(q), Addresses) /\ s = SumFunction(PaidOf(q))
    <2>1. SumFunction(PaidOf(row)) = Total(PaidOf(row), Addresses) /\ Total(PaidOf(row), Addresses) \in Nat
      BY <1>2, FieldSums
    <2>2. SumFunction(GrossOf(row)) = Total(GrossOf(row), Addresses) /\ Total(GrossOf(row), Addresses) \in Nat
      BY <1>2, FieldSums
    <2>3. SumFunction(PaidOf(q)) = Total(PaidOf(q), Addresses) /\ Total(PaidOf(q), Addresses) \in Nat
      BY <1>10, FieldSums
    <2> QED BY <2>1, <2>2, <2>3
  <1>16. SumFunction(GrossOf(q)) = g + more /\ Total(PaidOf(m), Addresses) = p + more
    <2>1. SumFunction(GrossOf(q)) = Total(GrossOf(q), Addresses)
      BY <1>10, FieldSums
    <2> QED BY <1>5, <1>14, <1>15, <2>1
  <1>17. SumFunction(PaidOf(q)) <= SumFunction(GrossOf(q))
    <2>1. p <= g
      BY <1>2, <1>15 DEF SumsInv
    <2>2. s <= p + more
      BY <1>10, <1>15, <1>16
    <2> QED BY <1>15, <1>16, <2>1, <2>2
  <1>18. ASSUME Included(q) \cap Active(q) # {} PROVE fee' + SumFunction(PaidOf(q)) = value
    <2>1. Active(q) = Active(m)
      BY <1>10 DEF Active
    <2>2. kept \cap Active(m) # {} /\ Included(row) \cap Active(row) # {}
      BY <1>6, <1>10, <1>11, <1>18, <2>1
    <2>3. s = p + more
      BY <1>10, <1>15, <1>16, <2>2
    <2>4. p = Reward /\ fee = FeeSats(value)
      BY <1>1, <1>2, <1>15, <2>2 DEF SumsInv
    <2>5. fee' + more = fee
      BY <1>1, <1>2, <1>4
    <2>6. value \in Nat /\ fee' \in Nat
      BY <1>1, <1>2, RoundsTypes
    <2> QED BY <1>2, <1>15, <2>3, <2>4, <2>5, <2>6 DEF Reward
  <1>19. ASSUME Included(q) # {}
         PROVE  FeeWeight' + SumFunction([a \in Included(q) |-> OutputWeight[a]]) <= WeightBudget
    <2>1. PICK I : I = Included(row)
      OBVIOUS
    <2>2. I \in SUBSET Addresses /\ I # {} /\ kept \in SUBSET I
      BY <1>10, <1>11, <1>19, <2>1 DEF Included
    <2>3. FeeWeight + Total(OutputWeight, I) <= WeightBudget
      <3>1. FeeWeight + SumFunction([a \in Included(row) |-> OutputWeight[a]]) <= WeightBudget
        BY <1>1, <1>2, <2>1, <2>2 DEF SumsInv
      <3> QED BY <2>1, <2>2, <3>1, WeightsAreInts
    <2>4. IsFiniteSet(I) /\ \A a \in I : OutputWeight[a] \in Nat
      BY <2>2, WeightsAreInts
    <2>5. Total(OutputWeight, kept) <= Total(OutputWeight, I)
          /\ Total(OutputWeight, kept) \in Nat /\ Total(OutputWeight, I) \in Nat
      BY <2>2, <2>4, TotalBounds
    <2>6. FeeWeight' \in Nat /\ FeeWeight' <= FeeWeight /\ FeeWeight \in Nat
      <3>1. FeeWeight \in Nat
        BY FeeWeightIsNat
      <3>2. FeeWeight' = 0 \/ FeeWeight' = FeeWeight
        BY <1>1 DEF FeeWeight
      <3> QED BY <3>1, <3>2
    <2>7. SumFunction([a \in Included(q) |-> OutputWeight[a]]) = Total(OutputWeight, kept)
      BY <1>10, <1>11, WeightsAreInts
    <2>8. WeightBudget \in Nat
      BY PayoutDistributionAssumption
    <2> QED BY <2>3, <2>5, <2>6, <2>7, <2>8
  <1>20. Cardinality(Included(q)) + (IF fee' > 0 THEN 1 ELSE 0) <= MaxOutputs
    <2>1. kept = {a \in Included(row) : ~(Rank(row, fee)[a] > MaxOutputs)}
      BY <1>6, <1>7, <1>8
    <2>2. Cardinality(kept) + (IF fee > 0 /\ ~FeeMerges(row, fee) THEN 1 ELSE 0) <= MaxOutputs
      BY <1>2, <2>1, KeptAreFew
    <2>3. fee' > 0 <=> fee > 0 /\ ~FeeMerges(row, fee)
      BY <1>1
    <2> QED BY <1>10, <2>2, <2>3
  <1>21. SumsInv'
    BY <1>1, <1>9, <1>17, <1>18, <1>19, <1>20 DEF SumsInv
  <1>22. RoundsTypeOK' /\ BooksBalance' /\ SumFunction(balance') >= 0
    <2>1. {value', fee', blocks'} \subseteq Nat /\ row' \in [Addresses -> RowType]
      BY <1>1, <1>2, <1>9, <1>10 DEF RoundsInv, RoundsTypeOK
    <2> QED BY <1>1, <2>1 DEF RoundsInv, RoundsTypeOK, Steps, BooksBalance
  <1> QED BY <1>1, <1>13, <1>21, <1>22 DEF RoundsInv

-----------------------------------------------------------------------------
LEMMA RoundsStart == RoundsInit => RoundsInv /\ GrossIsFair
  <1> SUFFICES ASSUME RoundsInit PROVE RoundsInv /\ GrossIsFair
    OBVIOUS
  <1>1. /\ step = "idle" /\ value = 0 /\ fee = 0 /\ blocks = 0
        /\ row = InitialRows(Zero, Zero, 0)
        /\ balance = Zero /\ totalPaid = Zero /\ earned = Zero
    BY DEF RoundsInit
  <1>2. \A a \in Addresses : Zero[a] = 0
    BY DEF Zero
  <1>3. row \in [Addresses -> RowType]
    <2>1. PICK fair : fair = AllocateIntegerSats(Zero, 0, SumFunction(Zero))
      OBVIOUS
    <2>2. \A a \in Addresses : fair[a] = 0
      BY <2>1, SatsWithheld
    <2>3. row = [a \in Addresses |->
                    [work |-> Zero[a], gross |-> fair[a], before |-> Zero[a],
                     target |-> fair[a] + Zero[a], paid |-> 0,
                     after |-> fair[a] + Zero[a], included |-> FALSE]]
      BY <1>1, <2>1 DEF InitialRows
    <2>4. \A a \in Addresses :
             [work |-> Zero[a], gross |-> fair[a], before |-> Zero[a],
              target |-> fair[a] + Zero[a], paid |-> 0,
              after |-> fair[a] + Zero[a], included |-> FALSE] \in RowType
      BY <1>2, <2>2 DEF RowType
    <2> QED BY <2>3, <2>4
  <1>4. Zero \in [Addresses -> Nat] /\ Zero \in [Addresses -> Int]
    BY DEF Zero
  <1>5. RoundsTypeOK
    BY <1>1, <1>3, <1>4 DEF RoundsTypeOK, Steps
  <1>6. BooksBalance
    BY <1>1, <1>2 DEF BooksBalance
  <1>7. SumFunction(balance) >= 0
    <2>1. SumFunction(Zero) = Total(Zero, Addresses)
      BY SumIsTotal DEF Zero
    <2>2. Total(Zero, Addresses) = 0
      BY <1>2, TotalOfZero
    <2> QED BY <1>1, <2>1, <2>2
  <1> QED BY <1>1, <1>5, <1>6, <1>7 DEF RoundsInv, GrossIsFair

LEMMA RoundsStep ==
    ASSUME RoundsInv, GrossIsFair, [RoundsNext]_roundsVars
    PROVE  RoundsInv' /\ GrossIsFair'
  <1>1. ASSUME NEW work \in [Addresses -> Works], NEW v \in Values, CreateSnapshot(work, v)
        PROVE  RoundsInv' /\ GrossIsFair'
    BY <1>1, CreateSnapshotKeeps
  <1>2. CASE Allocate
    BY <1>2, AllocateKeeps
  <1>3. CASE Choose
    <2>1. step' = "chosen"
      BY <1>3 DEF Choose
    <2> QED BY <1>3, <2>1, ChooseKeeps DEF GrossIsFair
  <1>4. CASE Redistribute
    <2>1. step' = "redistributed"
      BY <1>4 DEF Redistribute
    <2> QED BY <1>4, <2>1, RedistributeKeeps DEF GrossIsFair
  <1>5. CASE MergeAndLimit
    <2>1. step' = "built"
      BY <1>5 DEF MergeAndLimit
    <2> QED BY <1>5, <2>1, MergeAndLimitKeeps DEF GrossIsFair
  <1>6. CASE FinalizeRound
    <2>1. step' = "idle"
      BY <1>6 DEF FinalizeRound
    <2> QED BY <1>6, <2>1, FinalizeKeeps DEF GrossIsFair
  <1>7. CASE Discard
    <2>1. step' = "idle"
      BY <1>7 DEF Discard
    <2> QED BY <1>7, <2>1, DiscardKeeps DEF GrossIsFair
  <1>8. CASE UNCHANGED roundsVars
    <2>1. /\ step' = step /\ value' = value /\ fee' = fee /\ row' = row /\ balance' = balance
          /\ totalPaid' = totalPaid /\ earned' = earned /\ blocks' = blocks
      BY <1>8 DEF roundsVars
    <2>2. RoundsTypeOK' /\ BooksBalance' /\ SumFunction(balance') >= 0
      BY <2>1 DEF RoundsInv, RoundsTypeOK, BooksBalance
    <2>3. Reward' = Reward /\ Shared' = Shared /\ FeeWeight' = FeeWeight
      BY <2>1 DEF Reward, Shared, FeeWeight
    <2>4. step # "idle" => RowsInv'
      BY <2>1 DEF RoundsInv, RowsInv
    <2>5. step # "idle" => SumsInv'
      BY <2>1, <2>3 DEF RoundsInv, SumsInv
    <2>6. GrossIsFair'
      BY <2>1, <2>3 DEF GrossIsFair
    <2> QED BY <2>1, <2>2, <2>4, <2>5, <2>6 DEF RoundsInv
  <1> QED BY <1>1, <1>2, <1>3, <1>4, <1>5, <1>6, <1>7, <1>8 DEF RoundsNext

(* A coinbase that is built hands out the whole reward as long as an active  *)
(* miner has an output, within its limits, to addresses that are owed it.    *)
LEMMA BuiltIsRight == RoundsInv => CoinbaseInv
  <1> SUFFICES ASSUME RoundsInv PROVE CoinbaseInv
    OBVIOUS
  <1>1. RoundsTypeOK
    BY DEF RoundsInv
  <1>2. ASSUME Built PROVE RowsInv /\ SumsInv /\ step = "built"
    BY <1>2 DEF Built, RoundsInv
  <1>3. RewardDistributed
    <2> SUFFICES ASSUME Built, Included(row) \cap Active(row) # {} PROVE Distributed = value
      BY DEF RewardDistributed
    <2>1. fee + SumFunction(PaidOf(row)) = value
      BY <1>2 DEF SumsInv
    <2>2. TotalPaid(row, Included(row)) = Total(PaidOf(row), Addresses)
      <3>1. \A a \in Addresses : row[a].paid > 0 => row[a].included
        BY <1>2 DEF RowsInv
      <3> QED BY <3>1, RoundsTypes, PaidOfIncluded
    <2>3. SumFunction(PaidOf(row)) = Total(PaidOf(row), Addresses)
      BY RoundsTypes, FieldSums
    <2> QED BY <2>1, <2>2, <2>3 DEF Distributed
  <1>4. WithinLimits
    <2> SUFFICES ASSUME Built
                 PROVE  /\ Cardinality(Included(row)) + (IF fee > 0 THEN 1 ELSE 0) <= MaxOutputs
                        /\ Included(row) # {} =>
                              SumFunction([a \in Included(row) |-> OutputWeight[a]]) + FeeWeight
                                  <= WeightBudget
                        /\ \A a \in Included(row) \ Active(row) : row[a].paid >= MinOutput
      BY DEF WithinLimits, FeeWeight
    <2>1. Cardinality(Included(row)) + (IF fee > 0 THEN 1 ELSE 0) <= MaxOutputs
      BY <1>2 DEF SumsInv
    <2>2. Included(row) # {} =>
             SumFunction([a \in Included(row) |-> OutputWeight[a]]) + FeeWeight <= WeightBudget
      <3>1. Included(row) # {} =>
               FeeWeight + SumFunction([a \in Included(row) |-> OutputWeight[a]]) <= WeightBudget
        BY <1>2 DEF SumsInv
      <3>2. PICK n \in Nat : n = SumFunction([a \in Included(row) |-> OutputWeight[a]])
        <4>1. Included(row) \in SUBSET Addresses
          BY DEF Included
        <4> QED BY <4>1, WeightsAreInts
      <3> QED BY <3>1, <3>2, FeeWeightIsNat
    <2>3. \A a \in Included(row) \ Active(row) : row[a].paid >= MinOutput
      <3> SUFFICES ASSUME NEW a \in Addresses, row[a].included, ~(row[a].work > 0)
                   PROVE  row[a].paid >= MinOutput
        BY DEF Included, Active
      <3>1. row[a].work = 0
        BY RoundsTypes
      <3> QED BY <1>2, <3>1 DEF RowsInv
    <2> QED BY <2>1, <2>2, <2>3
  <1>5. DebtorsNotPaid
    <2> SUFFICES ASSUME Built, NEW a \in Addresses
                 PROVE  row[a].paid >= 0 /\ (row[a].paid > 0 => row[a].before + row[a].gross > 0)
      BY DEF DebtorsNotPaid
    <2>1. /\ row[a].target <= row[a].before + row[a].gross
          /\ row[a].paid > 0 => row[a].target > 0
      BY <1>2 DEF RowsInv
    <2>2. {row[a].gross, row[a].paid} \subseteq Nat /\ {row[a].before, row[a].target} \subseteq Int
      BY RoundsTypes
    <2> QED BY <2>1, <2>2
  <1> QED BY <1>1, <1>3, <1>4, <1>5 DEF CoinbaseInv

(* Over any number of blocks an address is owed what it earned less what it  *)
(* was paid.                                                                 *)
THEOREM BooksAlwaysBalance == RoundsSpec => []BooksBalance
  <1>1. RoundsInv => BooksBalance
    BY DEF RoundsInv
  <1> QED BY <1>1, RoundsStart, RoundsStep, PTL DEF RoundsSpec

(* A coinbase that is built hands out the reward, within its limits, to      *)
(* addresses that are owed it.                                               *)
THEOREM CoinbasesAreRight == RoundsSpec => []CoinbaseInv
  BY RoundsStart, RoundsStep, BuiltIsRight, PTL DEF RoundsSpec

(* A gross payout is within one sat of its exact proportion, and they sum up *)
(* to the miners' part.                                                      *)
THEOREM GrossAlwaysFair == RoundsSpec => []GrossIsFair
  BY RoundsStart, RoundsStep, PTL DEF RoundsSpec

-----------------------------------------------------------------------------
(* PayoutLedger.                                                             *)

(* A block the node said it took is on the chain. *)
AnswerInv ==
    \A h \in Handlers :
        handler[h].result = "SUCCESS!" =>
            LET t == handler[h].template IN t.height \in 1..tip /\ chain[t.height] = t.snapshot

(* Balances read at finalization c of the books are still the present ones   *)
(* unless a block was finalized since.                                       *)
ReadAt(covers, before) ==
    /\ covers \subseteq DOMAIN history
    /\ covers = DOMAIN history => before = balance

ReadInv ==
    /\ \A key \in DOMAIN snapshots : ReadAt(snapshots[key].covers, snapshots[key].before)
    /\ \A r \in Refreshers :
          refresh[r].step = "computed" => ReadAt(refresh[r].covers, refresh[r].before)

(* k is the only block that has not been finalized, and the last one: the    *)
(* balances are those its snapshot was made from.                            *)
LastIsOpen(k) ==
    /\ k \in PoolBlocks
    /\ DOMAIN history = PoolBlocks \ {k}
    /\ balance = snapshots[chain[k]].before
    /\ owed = [a \in Addresses |-> balance[a] + Net(chain[k], a)]

BooksInv ==
    MinedOnSettledBooks =>
        \/ DOMAIN history = PoolBlocks /\ balance = owed
        \/ \E k \in PoolBlocks : LastIsOpen(k)

LedgerInv == TypeOK /\ HistoryOnChain /\ AnswerInv /\ ReadInv /\ BooksInv

-----------------------------------------------------------------------------
(* The pool's blocks after one more: a block without a snapshot adds none. *)
LEMMA AppendToChain ==
    ASSUME NEW S, chain \in Seq(S), NEW x, chain' = Append(chain, x)
    PROVE  /\ tip \in Nat /\ tip' = tip + 1
           /\ chain'[tip + 1] = x
           /\ \A k \in 1..tip : chain'[k] = chain[k]
           /\ PoolBlocks' = IF x = NoSnapshot THEN PoolBlocks ELSE PoolBlocks \cup {tip + 1}
  <1>1. /\ tip \in Nat /\ tip' = tip + 1
        /\ chain'[tip + 1] = x
        /\ \A k \in 1..tip : chain'[k] = chain[k]
    BY DEF tip
  <1>2. PoolBlocks' = {k \in 1..(tip + 1) : chain'[k] # NoSnapshot}
    BY <1>1 DEF PoolBlocks
  <1>3. 1..(tip + 1) = 1..tip \cup {tip + 1}
    BY <1>1
  <1>4. PoolBlocks' = PoolBlocks \cup {k \in {tip + 1} : chain'[k] # NoSnapshot}
    BY <1>1, <1>2, <1>3 DEF PoolBlocks
  <1>5. PoolBlocks' = IF x = NoSnapshot THEN PoolBlocks ELSE PoolBlocks \cup {tip + 1}
    BY <1>1, <1>4
  <1> QED BY <1>1, <1>5

LEMMA InitLedger == Init => LedgerInv
  <1> SUFFICES ASSUME Init PROVE LedgerInv
    OBVIOUS
  <1> USE PayoutLedgerAssumption
  <1>1. tip = 0 /\ PoolBlocks = {} /\ DOMAIN history = {} /\ DOMAIN snapshots = {}
    BY DEF Init, tip, PoolBlocks
  <1>2. TypeOK
    BY <1>1 DEF Init, TypeOK, Zero, IdleRefresh, IdleHandler, NoTemplate,
                  TemplateType, RefreshType, HandlerType
  <1>3. HistoryOnChain /\ AnswerInv /\ ReadInv
    BY <1>1 DEF Init, HistoryOnChain, AnswerInv, ReadInv, IdleRefresh, IdleHandler
  <1>4. BooksInv
    BY <1>1 DEF Init, BooksInv
  <1> QED BY <1>2, <1>3, <1>4 DEF LedgerInv

-----------------------------------------------------------------------------
(* Steps that leave the chain, the snapshots, the history, the balances and  *)
(* what is owed alone keep what relates them.                                *)
LEMMA RelationsUnchanged ==
    ASSUME LedgerInv, UNCHANGED <<chain, snapshots, owed, booksVars>>
    PROVE  /\ HistoryOnChain' /\ BooksInv'
           /\ \A key \in DOMAIN snapshots :
                 ReadAt(snapshots[key].covers, snapshots[key].before)'
           /\ tip' = tip
  <1>1. tip' = tip /\ PoolBlocks' = PoolBlocks
    BY DEF tip, PoolBlocks
  <1>2. HistoryOnChain'
    BY <1>1 DEF LedgerInv, HistoryOnChain, booksVars
  <1>3. MinedOnSettledBooks' => MinedOnSettledBooks
    BY <1>1 DEF MinedOnSettledBooks
  <1>4. \A k \in PoolBlocks : LastIsOpen(k) => LastIsOpen(k)'
    BY <1>1 DEF LastIsOpen, Net, booksVars
  <1>5. BooksInv'
    BY <1>1, <1>3, <1>4 DEF LedgerInv, BooksInv, booksVars
  <1>6. \A key \in DOMAIN snapshots :
           ReadAt(snapshots[key].covers, snapshots[key].before)'
    BY DEF LedgerInv, ReadInv, ReadAt, booksVars
  <1> QED BY <1>1, <1>2, <1>5, <1>6

(* The refreshes and what they broadcast. *)
MasterStep(r) ==
    \/ ReceiveTemplate(r)
    \/ FindNoWindow(r)
    \/ ReuseSnapshot(r)
    \/ ReadBalances(r)
    \/ StoreRefused(r)

LEMMA BroadcastTypes ==
    ASSUME TypeOK, NEW r \in Refreshers, NEW key \in Keys \cup {NoSnapshot}, Broadcast(r, key)
    PROVE  /\ templates' \subseteq TemplateType
           /\ \A t \in templates' : t \in templates \/ t.snapshot = key
           /\ refresh' \in [Refreshers -> RefreshType]
           /\ \A q \in Refreshers :
                 refresh'[q].step = "computed" => refresh'[q] = refresh[q]
  <1> USE PayoutLedgerAssumption
  <1>1. refresh[r].height \in Nat
    BY DEF TypeOK, RefreshType
  <1>2. IdleRefresh \in RefreshType /\ IdleRefresh.step = "idle"
    BY DEF IdleRefresh, Zero, RefreshType
  <1>3. templates' \subseteq TemplateType
    BY <1>1 DEF Broadcast, TypeOK, TemplateType
  <1>4. \A t \in templates' : t \in templates \/ t.snapshot = key
    BY DEF Broadcast
  <1>5. refresh' \in [Refreshers -> RefreshType]
    BY <1>2 DEF Broadcast, TypeOK
  <1>6. \A q \in Refreshers : refresh'[q].step = "computed" => refresh'[q] = refresh[q]
    BY <1>2 DEF Broadcast, TypeOK
  <1> QED BY <1>3, <1>4, <1>5, <1>6

LEMMA RefreshTypes ==
    ASSUME TypeOK, NEW r \in Refreshers, MasterStep(r)
    PROVE  TypeOK'
  <1> USE PayoutLedgerAssumption
  <1>1. IdleRefresh \in RefreshType /\ Zero \in [Addresses -> Int]
    BY DEF IdleRefresh, Zero, RefreshType, TypeOK
  <1>2. tip \in Nat /\ tip + 1 \in 0..MaxHeight + 1
    BY DEF TypeOK
  <1>3. CASE ReceiveTemplate(r)
    <2>1. info' \in Nat
      BY <1>2, <1>3 DEF ReceiveTemplate, TypeOK
    <2>2. refresh' \in [Refreshers -> RefreshType]
      BY <1>1, <1>2, <1>3, <2>1 DEF ReceiveTemplate, TypeOK, RefreshType
    <2>3. \A q \in Refreshers : refresh'[q].step = "computed" => refresh'[q].key \in Keys
      BY <1>3 DEF ReceiveTemplate, TypeOK
    <2> QED BY <1>3, <2>1, <2>2, <2>3 DEF ReceiveTemplate, TypeOK, booksVars, tip
  <1>4. CASE FindNoWindow(r)
    <2>1. Broadcast(r, NoSnapshot)
      BY <1>4 DEF FindNoWindow
    <2>2. UNCHANGED <<chain, windowEnd, owed, handler, info, snapshots, booksVars>>
      BY <1>4 DEF FindNoWindow
    <2> QED BY <2>1, <2>2, BroadcastTypes DEF TypeOK, booksVars, tip
  <1>5. CASE ReuseSnapshot(r)
    <2>1. Key(r) \in DOMAIN snapshots /\ Key(r) \in Keys
      BY <1>5 DEF ReuseSnapshot, TypeOK
    <2>2. Broadcast(r, Key(r)) /\ UNCHANGED <<chain, windowEnd, owed, handler, info, snapshots, booksVars>>
      BY <1>5 DEF ReuseSnapshot
    <2> QED BY <2>1, <2>2, BroadcastTypes DEF TypeOK, booksVars, tip
  <1>6. CASE ReadBalances(r)
    <2>1. refresh[r] \in RefreshType
      BY DEF TypeOK
    <2>2. Key(r) \in Keys
      BY <2>1 DEF Key, Keys, TypeOK, RefreshType
    <2>3. refresh' \in [Refreshers -> RefreshType]
      BY <1>6, <2>1, <2>2 DEF ReadBalances, TypeOK, RefreshType
    <2>4. \A q \in Refreshers : refresh'[q].step = "computed" => refresh'[q].key \in Keys
      BY <1>6, <2>2 DEF ReadBalances, TypeOK
    <2> QED BY <1>6, <2>3, <2>4 DEF ReadBalances, TypeOK, booksVars, tip
  <1>7. CASE StoreRefused(r)
    <2>1. Broadcast(r, NoSnapshot)
      BY <1>7 DEF StoreRefused
    <2>2. UNCHANGED <<chain, windowEnd, owed, handler, info, snapshots, booksVars>>
      BY <1>7 DEF StoreRefused
    <2> QED BY <2>1, <2>2, BroadcastTypes DEF TypeOK, booksVars, tip
  <1> QED BY <1>3, <1>4, <1>5, <1>6, <1>7 DEF MasterStep

LEMMA RefreshKeepsLedger ==
    ASSUME LedgerInv, NEW r \in Refreshers, MasterStep(r)
    PROVE  LedgerInv'
  <1>1. UNCHANGED <<chain, snapshots, owed, handler, booksVars>>
    BY DEF MasterStep, ReceiveTemplate, FindNoWindow, ReuseSnapshot, ReadBalances, StoreRefused
  <1>2. TypeOK'
    BY RefreshTypes DEF LedgerInv
  <1>3. AnswerInv'
    BY <1>1, RelationsUnchanged DEF LedgerInv, AnswerInv
  <1>4. ASSUME NEW s \in Refreshers, refresh'[s].step = "computed"
        PROVE  ReadAt(refresh[s].covers, refresh[s].before)'
    <2>1. \/ refresh'[s] = refresh[s]
          \/ refresh'[s].covers = DOMAIN history /\ refresh'[s].before = balance
      BY <1>4 DEF LedgerInv, TypeOK, MasterStep, ReceiveTemplate, FindNoWindow,
                  ReuseSnapshot, ReadBalances, StoreRefused, Broadcast, IdleRefresh
    <2> QED BY <1>1, <1>4, <2>1 DEF LedgerInv, ReadInv, ReadAt, booksVars
  <1>5. ReadInv'
    BY <1>1, <1>4, RelationsUnchanged DEF ReadInv
  <1> QED BY <1>1, <1>2, <1>3, <1>5, RelationsUnchanged DEF LedgerInv

(* A new snapshot has a new key: no block on the chain pays it yet. *)
LEMMA StoreTypes ==
    ASSUME TypeOK, NEW r \in Refreshers, NEW payment \in Payments, StoreSnapshot(r, payment)
    PROVE  TypeOK'
  <1> DEFINE key == refresh[r].key
             entries == payment.listed \cup {a \in Addresses : refresh[r].before[a] # 0}
             snapshot == [entries |-> entries, gross |-> payment.gross, paid |-> payment.paid,
                          before |-> refresh[r].before, covers |-> refresh[r].covers]
  <1> USE PayoutLedgerAssumption
  <1>1. refresh[r] \in RefreshType /\ payment \in
           [listed : SUBSET Addresses, gross : [Addresses -> Nat], paid : [Addresses -> Nat]]
    BY DEF TypeOK
  <1>2. snapshot \in SnapshotType
    <2>1. \A a \in Addresses \ entries : payment.gross[a] = 0 /\ payment.paid[a] = 0
      BY DEF StoreSnapshot
    <2>2. entries \subseteq Addresses
      BY <1>1
    <2> HIDE DEF entries
    <2> QED BY <1>1, <2>1, <2>2 DEF RefreshType, SnapshotType
  <1>3. key \in Keys /\ snapshots' = With(snapshots, key, snapshot)
    BY DEF StoreSnapshot, TypeOK
  <1> HIDE DEF key, snapshot
  <1>4. DOMAIN snapshots' = DOMAIN snapshots \cup {key} /\ DOMAIN snapshots' \subseteq Keys
    BY <1>3 DEF TypeOK, With
  <1>5. \A k \in DOMAIN snapshots' : snapshots'[k] \in SnapshotType
    <2>1. \A k \in DOMAIN snapshots : snapshots[k] \in SnapshotType
      BY DEF TypeOK
    <2>2. snapshots'[key] = snapshot /\ \A k \in DOMAIN snapshots : k # key => snapshots'[k] = snapshots[k]
      BY <1>3, <1>4 DEF With
    <2> TAKE k \in DOMAIN snapshots'
    <2>3. CASE k = key
      BY <1>2, <2>2, <2>3
    <2>4. CASE k # key
      <3>1. k \in DOMAIN snapshots /\ snapshots'[k] = snapshots[k]
        BY <1>4, <2>2, <2>4
      <3> QED BY <2>1, <3>1
    <2> QED BY <2>3, <2>4
  <1>6. chain' = chain /\ chain' \in Seq(DOMAIN snapshots' \cup {NoSnapshot}) /\ tip' \in 0..MaxHeight
    <2>1. chain' = chain
      BY DEF StoreSnapshot
    <2>2. chain \in Seq(DOMAIN snapshots \cup {NoSnapshot}) /\ tip \in 0..MaxHeight
      BY DEF TypeOK
    <2>3. DOMAIN snapshots \cup {NoSnapshot} \subseteq DOMAIN snapshots' \cup {NoSnapshot}
      BY <1>4
    <2>4. Seq(DOMAIN snapshots \cup {NoSnapshot}) \subseteq Seq(DOMAIN snapshots' \cup {NoSnapshot})
      BY <2>3
    <2> QED BY <2>1, <2>2, <2>4 DEF tip
  <1>7. Broadcast(r, key)
    BY DEF StoreSnapshot, key
  <1>8. /\ templates' \subseteq TemplateType
        /\ \A t \in templates' : t.snapshot \in DOMAIN snapshots' \cup {NoSnapshot}
    BY <1>3, <1>4, <1>7, BroadcastTypes DEF TypeOK
  <1>9. /\ refresh' \in [Refreshers -> RefreshType]
        /\ \A q \in Refreshers : refresh'[q].step = "computed" => refresh'[q].key \in Keys
    BY <1>3, <1>7, BroadcastTypes DEF TypeOK
  <1>10. \A h \in Handlers : handler[h].template.snapshot \in DOMAIN snapshots' \cup {NoSnapshot}
    BY <1>4 DEF TypeOK
  <1>11. \A k \in DOMAIN history : history[k] \in DOMAIN snapshots'
    BY <1>4 DEF TypeOK
  <1>12. UNCHANGED <<info, windowEnd, handler, balance, totalPaid, history, owed>>
    BY DEF StoreSnapshot, booksVars
  <1> QED BY <1>4, <1>5, <1>6, <1>8, <1>9, <1>10, <1>11, <1>12 DEF TypeOK

LEMMA StoreKeepsLedger ==
    ASSUME LedgerInv, NEW r \in Refreshers, NEW payment \in Payments, StoreSnapshot(r, payment)
    PROVE  LedgerInv'
  <1> DEFINE key == refresh[r].key
             entries == payment.listed \cup {a \in Addresses : refresh[r].before[a] # 0}
             snapshot == [entries |-> entries, gross |-> payment.gross, paid |-> payment.paid,
                          before |-> refresh[r].before, covers |-> refresh[r].covers]
  <1>1. TypeOK /\ TypeOK'
    BY StoreTypes DEF LedgerInv
  <1>2. /\ UNCHANGED <<chain, handler, owed, booksVars>>
        /\ tip' = tip /\ PoolBlocks' = PoolBlocks
    BY DEF StoreSnapshot, tip, PoolBlocks
  <1>3. /\ key \notin DOMAIN snapshots
        /\ DOMAIN snapshots' = DOMAIN snapshots \cup {key}
        /\ snapshots'[key] = snapshot
        /\ \A k \in DOMAIN snapshots : snapshots'[k] = snapshots[k]
    <2>1. key \notin DOMAIN snapshots /\ snapshots' = With(snapshots, key, snapshot)
      BY DEF StoreSnapshot
    <2> HIDE DEF key, snapshot
    <2> QED BY <2>1 DEF With
  <1>4. \A k \in PoolBlocks : chain[k] \in DOMAIN snapshots
    BY <1>1 DEF PoolBlocks, TypeOK, tip
  <1>5. HistoryOnChain' /\ AnswerInv'
    BY <1>2 DEF LedgerInv, HistoryOnChain, AnswerInv, booksVars
  <1>6. ReadInv'
    <2>1. ASSUME NEW k \in DOMAIN snapshots' PROVE ReadAt(snapshots[k].covers, snapshots[k].before)'
      <3>1. CASE k = key
        <4>1. ReadAt(refresh[r].covers, refresh[r].before)
          BY DEF LedgerInv, ReadInv, StoreSnapshot
        <4>2. snapshots'[k].covers = refresh[r].covers /\ snapshots'[k].before = refresh[r].before
          BY <1>3, <3>1
        <4> QED BY <1>2, <4>1, <4>2 DEF ReadAt, booksVars
      <3>2. CASE k # key
        BY <1>2, <1>3, <2>1, <3>2 DEF LedgerInv, ReadInv, ReadAt, booksVars
      <3> QED BY <3>1, <3>2
    <2>2. ASSUME NEW s \in Refreshers, refresh'[s].step = "computed"
          PROVE  ReadAt(refresh[s].covers, refresh[s].before)'
      <3>1. refresh'[s] = refresh[s]
        BY <1>1, <2>2 DEF StoreSnapshot, Broadcast, IdleRefresh, TypeOK
      <3> QED BY <1>2, <2>2, <3>1 DEF LedgerInv, ReadInv, ReadAt, booksVars
    <2> QED BY <2>1, <2>2 DEF ReadInv
  <1>7. MinedOnSettledBooks' => MinedOnSettledBooks
    BY <1>2, <1>3, <1>4 DEF MinedOnSettledBooks
  <1>8. \A k \in PoolBlocks : LastIsOpen(k) => LastIsOpen(k)'
    BY <1>2, <1>3, <1>4 DEF LastIsOpen, Net, booksVars
  <1>9. BooksInv'
    BY <1>2, <1>7, <1>8 DEF LedgerInv, BooksInv, booksVars
  <1> QED BY <1>1, <1>5, <1>6, <1>9 DEF LedgerInv

-----------------------------------------------------------------------------
(* Blocks: the chain grows, and with a snapshot's block what is owed.        *)
LEMMA OthersBlockKeepsLedger ==
    ASSUME LedgerInv, OthersBlock
    PROVE  LedgerInv'
  <1> USE PayoutLedgerAssumption
  <1>1. UNCHANGED <<windowEnd, owed, handler, info, snapshots, templates, refresh, balance, totalPaid, history>>
    BY DEF OthersBlock, masterVars, booksVars
  <1>2. chain \in Seq(DOMAIN snapshots \cup {NoSnapshot}) /\ chain' = Append(chain, NoSnapshot)
    BY DEF LedgerInv, TypeOK, OthersBlock
  <1>3. /\ tip \in Nat /\ tip' = tip + 1
        /\ \A k \in 1..tip : chain'[k] = chain[k]
        /\ PoolBlocks' = PoolBlocks
    BY <1>2, AppendToChain
  <1>4. TypeOK'
    <2>1. chain' \in Seq(DOMAIN snapshots \cup {NoSnapshot}) /\ tip' \in 0..MaxHeight
      BY <1>2, <1>3 DEF OthersBlock, LedgerInv, TypeOK
    <2> QED BY <1>1, <2>1 DEF LedgerInv, TypeOK
  <1>5. HistoryOnChain' /\ AnswerInv'
    BY <1>1, <1>3 DEF LedgerInv, HistoryOnChain, AnswerInv
  <1>6. ReadInv'
    BY <1>1 DEF LedgerInv, ReadInv, ReadAt
  <1>7. PoolBlocks \subseteq 1..tip
    BY DEF PoolBlocks
  <1>8. MinedOnSettledBooks' => MinedOnSettledBooks
    BY <1>1, <1>3, <1>7 DEF MinedOnSettledBooks
  <1>9. \A k \in PoolBlocks : LastIsOpen(k) => LastIsOpen(k)'
    BY <1>1, <1>3, <1>7 DEF LastIsOpen, Net
  <1>10. BooksInv'
    BY <1>1, <1>3, <1>8, <1>9 DEF LedgerInv, BooksInv
  <1> QED BY <1>4, <1>5, <1>6, <1>10 DEF LedgerInv

LEMMA SubmitBlockKeepsLedger ==
    ASSUME LedgerInv, NEW h \in Handlers, NEW t \in templates,
           NEW result \in {"SUCCESS!", "error"}, SubmitBlock(h, t, result)
    PROVE  LedgerInv'
  <1> USE PayoutLedgerAssumption
  <1>1. UNCHANGED <<windowEnd, info, snapshots, templates, refresh, balance, totalPaid, history>>
    BY DEF SubmitBlock, masterVars, booksVars
  <1>2. t \in TemplateType /\ t.snapshot \in DOMAIN snapshots \cup {NoSnapshot}
    BY DEF LedgerInv, TypeOK
  <1>3. chain \in Seq(DOMAIN snapshots \cup {NoSnapshot}) /\ chain' = Append(chain, t.snapshot)
    BY DEF LedgerInv, TypeOK, SubmitBlock
  <1>4. /\ tip \in Nat /\ tip' = tip + 1 /\ t.height = tip + 1
        /\ chain'[tip + 1] = t.snapshot
        /\ \A k \in 1..tip : chain'[k] = chain[k]
        /\ PoolBlocks' = IF t.snapshot = NoSnapshot THEN PoolBlocks
                         ELSE PoolBlocks \cup {tip + 1}
    BY <1>3, AppendToChain DEF SubmitBlock
  <1>5. handler' = [handler EXCEPT ![h] = [step |-> "answered", template |-> t, result |-> result]]
    BY DEF SubmitBlock, Answered
  <1>6. PoolBlocks \subseteq 1..tip /\ \A k \in PoolBlocks : chain[k] \in DOMAIN snapshots
    BY <1>3 DEF PoolBlocks, tip
  <1>7. DOMAIN history \subseteq PoolBlocks
    <2>1. NoSnapshot \notin DOMAIN snapshots
      BY DEF LedgerInv, TypeOK, Keys
    <2> QED BY <2>1 DEF LedgerInv, TypeOK, HistoryOnChain, PoolBlocks
  <1>8. \A key \in DOMAIN snapshots, a \in Addresses : Net(key, a) \in Int
    BY DEF Net, LedgerInv, TypeOK, SnapshotType
  <1>9. TypeOK'
    <2>1. chain' \in Seq(DOMAIN snapshots \cup {NoSnapshot}) /\ tip' \in 0..MaxHeight
      BY <1>2, <1>3, <1>4 DEF SubmitBlock, LedgerInv, TypeOK
    <2>2. /\ handler' \in [Handlers -> HandlerType]
          /\ \A g \in Handlers : handler'[g].template.snapshot \in DOMAIN snapshots \cup {NoSnapshot}
      BY <1>2, <1>5 DEF LedgerInv, TypeOK, HandlerType
    <2>3. owed' \in [Addresses -> Int]
      <3>1. owed \in [Addresses -> Int]
        BY DEF LedgerInv, TypeOK
      <3>2. CASE t.snapshot = NoSnapshot
        BY <3>1, <3>2 DEF SubmitBlock
      <3>3. CASE t.snapshot # NoSnapshot
        <4>1. owed' = [a \in Addresses |-> owed[a] + Net(t.snapshot, a)]
          BY <3>3 DEF SubmitBlock
        <4>2. \A a \in Addresses : Net(t.snapshot, a) \in Int
          BY <1>2, <1>8, <3>3
        <4> QED BY ONLY <3>1, <4>1, <4>2
      <3> QED BY <3>2, <3>3
    <2> QED BY <1>1, <2>1, <2>2, <2>3 DEF LedgerInv, TypeOK
  <1>10. HistoryOnChain'
    BY <1>1, <1>4 DEF LedgerInv, HistoryOnChain
  <1>11. AnswerInv'
    <2>1. ASSUME NEW g \in Handlers, handler'[g].result = "SUCCESS!"
          PROVE  /\ handler'[g].template.height \in 1..tip'
                 /\ chain'[handler'[g].template.height] = handler'[g].template.snapshot
      <3>1. CASE g = h
        BY <1>4, <1>5, <3>1 DEF LedgerInv, TypeOK
      <3>2. CASE g # h
        BY <1>4, <1>5, <2>1, <3>2 DEF LedgerInv, TypeOK, AnswerInv
      <3> QED BY <3>1, <3>2
    <2> QED BY <2>1 DEF AnswerInv
  <1>12. ReadInv'
    BY <1>1 DEF LedgerInv, ReadInv, ReadAt
  <1>13. BooksInv'
    <2>1. CASE t.snapshot = NoSnapshot
      <3>1. owed' = owed /\ PoolBlocks' = PoolBlocks
        BY <1>4, <2>1 DEF SubmitBlock
      <3>2. MinedOnSettledBooks' => MinedOnSettledBooks
        BY <1>1, <1>4, <1>6, <3>1 DEF MinedOnSettledBooks
      <3>3. \A k \in PoolBlocks : LastIsOpen(k) => LastIsOpen(k)'
        BY <1>1, <1>4, <1>6, <3>1 DEF LastIsOpen, Net
      <3> QED BY <1>1, <3>1, <3>2, <3>3 DEF LedgerInv, BooksInv
    <2>2. CASE t.snapshot # NoSnapshot
      <3> SUFFICES ASSUME MinedOnSettledBooks' PROVE LastIsOpen(tip)'
        BY <1>4, <2>2 DEF BooksInv
      <3>1. PoolBlocks' = PoolBlocks \cup {tip + 1} /\ tip + 1 \notin PoolBlocks
        BY <1>4, <1>6, <2>2
      <3>2. snapshots[t.snapshot].covers = PoolBlocks
        <4>1. snapshots'[chain'[tip + 1]].covers = {j \in PoolBlocks' : j < tip + 1}
          BY <3>1 DEF MinedOnSettledBooks
        <4>2. {j \in PoolBlocks' : j < tip + 1} = PoolBlocks
          <5>1. tip \in Nat /\ PoolBlocks \subseteq 1..tip
            BY <1>4, <1>6
          <5>2. \A j \in PoolBlocks : j < tip + 1
            BY <5>1
          <5>3. ~(tip + 1 < tip + 1)
            BY <5>1
          <5> QED BY <3>1, <5>2, <5>3, Zenon
        <4> QED BY <1>1, <1>4, <4>1, <4>2
      <3>3. DOMAIN history = PoolBlocks /\ snapshots[t.snapshot].before = balance
        BY <1>2, <1>7, <2>2, <3>2 DEF LedgerInv, ReadInv, ReadAt
      <3>4. MinedOnSettledBooks
        <4> SUFFICES ASSUME NEW k \in PoolBlocks
                     PROVE  snapshots[chain[k]].covers = {j \in PoolBlocks : j < k}
          BY DEF MinedOnSettledBooks
        <4>1. snapshots'[chain'[k]].covers = {j \in PoolBlocks' : j < k}
          BY <3>1 DEF MinedOnSettledBooks
        <4>2. ~(tip + 1 < k)
          BY <1>4, <1>6
        <4>3. {j \in PoolBlocks' : j < k} = {j \in PoolBlocks : j < k}
          BY <1>4, <1>6, <3>1, <4>2
        <4> QED BY <1>1, <1>4, <1>6, <4>1, <4>3
      <3>5. balance = owed
        BY <3>3, <3>4 DEF LedgerInv, BooksInv, LastIsOpen
      <3>6. owed' = [a \in Addresses |-> balance[a] + Net(t.snapshot, a)]
        BY <2>2, <3>5 DEF SubmitBlock
      <3> QED BY <1>1, <1>4, <3>1, <3>3, <3>6 DEF LastIsOpen, Net
    <2> QED BY <2>1, <2>2
  <1> QED BY <1>9, <1>10, <1>11, <1>12, <1>13 DEF LedgerInv

-----------------------------------------------------------------------------
(* Steps of a handler that change neither the chain nor the books. *)
HandlerOnlyStep(h) ==
    \/ \E t \in templates : SubmitStaleBlock(h, t)
    \/ SkipFinalization(h)
    \/ HandlerFails(h)

LEMMA HandlerKeepsLedger ==
    ASSUME LedgerInv, NEW h \in Handlers, HandlerOnlyStep(h)
    PROVE  LedgerInv'
  <1>1. UNCHANGED <<chain, windowEnd, owed, info, snapshots, templates, refresh,
                    balance, totalPaid, history>>
    BY DEF HandlerOnlyStep, SubmitStaleBlock, SkipFinalization, HandlerFails,
           masterVars, booksVars
  <1>2. PICK entry \in HandlerType :
           /\ handler' = [handler EXCEPT ![h] = entry]
           /\ entry.template.snapshot \in DOMAIN snapshots \cup {NoSnapshot}
           /\ entry.result # "SUCCESS!"
    <2>1. CASE \E t \in templates : SubmitStaleBlock(h, t)
      <3>1. PICK t \in templates : SubmitStaleBlock(h, t)
        BY <2>1
      <3> DEFINE entry == [step |-> "answered", template |-> t, result |-> "error"]
      <3>2. t \in TemplateType /\ t.snapshot \in DOMAIN snapshots \cup {NoSnapshot}
        BY DEF LedgerInv, TypeOK
      <3>3. entry \in HandlerType /\ handler' = [handler EXCEPT ![h] = entry]
        BY <3>1, <3>2 DEF SubmitStaleBlock, Answered, HandlerType
      <3> QED BY <3>2, <3>3
    <2>2. CASE SkipFinalization(h) \/ HandlerFails(h)
      <3>1. IdleHandler \in HandlerType
        BY DEF IdleHandler, NoTemplate, TemplateType, HandlerType
      <3>2. handler' = [handler EXCEPT ![h] = IdleHandler]
        BY <2>2 DEF SkipFinalization, HandlerFails
      <3> QED BY <3>1, <3>2 DEF IdleHandler, NoTemplate
    <2> QED BY <2>1, <2>2 DEF HandlerOnlyStep
  <1>3. tip' = tip /\ HistoryOnChain' /\ BooksInv'
    BY <1>1, RelationsUnchanged DEF booksVars
  <1>4. TypeOK'
    BY <1>1, <1>2, <1>3 DEF LedgerInv, TypeOK
  <1>5. AnswerInv'
    BY <1>1, <1>2, <1>3 DEF LedgerInv, TypeOK, AnswerInv
  <1>6. ReadInv'
    BY <1>1 DEF LedgerInv, ReadInv, ReadAt
  <1> QED BY <1>3, <1>4, <1>5, <1>6 DEF LedgerInv

(* On settled books the block being finalized is the last one, and the       *)
(* balances stored are those its snapshot was made from with its own added.  *)
LEMMA FinalizeKeepsLedger ==
    ASSUME LedgerInv, NEW h \in Handlers, Finalize(h)
    PROVE  LedgerInv'
  <1> DEFINE t == handler[h].template
  <1>1. UNCHANGED <<chain, windowEnd, owed, info, snapshots, templates, refresh>>
        /\ tip' = tip /\ PoolBlocks' = PoolBlocks
    BY DEF Finalize, masterVars, tip, PoolBlocks
  <1>2. /\ t.snapshot \in DOMAIN snapshots
        /\ t.height \in 1..tip /\ chain[t.height] = t.snapshot
        /\ t.height \in PoolBlocks /\ t.height \notin DOMAIN history
    BY DEF Finalize, Finalizable, LedgerInv, TypeOK, AnswerInv, PoolBlocks
  <1>3. history' = With(history, t.height, t.snapshot)
        /\ handler' = [handler EXCEPT ![h] = IdleHandler]
        /\ balance' = [a \in Addresses |-> IF a \in snapshots[t.snapshot].entries
                                           THEN AfterBalance(t.snapshot, a) ELSE balance[a]]
        /\ totalPaid' = [a \in Addresses |-> TotalAfter(t.snapshot, a)]
    BY DEF Finalize
  <1> HIDE DEF t
  <1>4. /\ DOMAIN history' = DOMAIN history \cup {t.height}
        /\ history'[t.height] = t.snapshot
        /\ \A k \in DOMAIN history : history'[k] = history[k]
    BY <1>2, <1>3 DEF With
  <1>5. snapshots[t.snapshot] \in SnapshotType
    BY <1>2 DEF LedgerInv, TypeOK
  <1>6. TypeOK'
    <2>1. balance' \in [Addresses -> Int] /\ totalPaid' \in [Addresses -> Nat]
      <3>1. \A a \in Addresses : totalPaid[a] \in Nat /\ balance[a] \in Int
        BY DEF LedgerInv, TypeOK
      <3>2. \A a \in Addresses : AfterBalance(t.snapshot, a) \in Int /\ TotalAfter(t.snapshot, a) \in Nat
        BY <1>5, <3>1 DEF AfterBalance, TotalAfter, Net, SnapshotType
      <3>3. totalPaid' \in [Addresses -> Nat]
        BY <1>3, <3>2
      <3>4. balance' \in [Addresses -> Int]
        <4>1. \A a \in Addresses : IF a \in snapshots[t.snapshot].entries
                THEN AfterBalance(t.snapshot, a) \in Int ELSE balance[a] \in Int
          BY <3>1, <3>2
        <4> QED BY <1>3, <4>1
      <3> QED BY <3>3, <3>4
    <2>2. tip \in Nat /\ t.height \in Nat
      BY <1>2 DEF LedgerInv, TypeOK
    <2>3. DOMAIN history' \subseteq Nat /\ \A k \in DOMAIN history' : history'[k] \in DOMAIN snapshots
      BY <1>2, <1>4, <2>2 DEF LedgerInv, TypeOK
    <2>4. IdleHandler \in HandlerType /\ IdleHandler.template.snapshot = NoSnapshot
      BY DEF IdleHandler, NoTemplate, TemplateType, HandlerType
    <2>5. /\ handler' \in [Handlers -> HandlerType]
          /\ \A g \in Handlers : handler'[g].template.snapshot \in DOMAIN snapshots \cup {NoSnapshot}
      BY <1>3, <2>4 DEF LedgerInv, TypeOK
    <2> QED BY <1>1, <2>1, <2>3, <2>5 DEF LedgerInv, TypeOK
  <1>7. HistoryOnChain'
    BY <1>1, <1>2, <1>4 DEF LedgerInv, HistoryOnChain
  <1>8. AnswerInv'
    BY <1>1, <1>3 DEF LedgerInv, TypeOK, AnswerInv, IdleHandler
  <1>9. ReadInv'
    <2>1. \A covers, before : ReadAt(covers, before) => ReadAt(covers, before)'
      BY <1>2, <1>4 DEF ReadAt
    <2> QED BY <1>1, <2>1 DEF LedgerInv, ReadInv, ReadAt
  <1>10. BooksInv'
    <2> SUFFICES ASSUME MinedOnSettledBooks
                 PROVE  DOMAIN history' = PoolBlocks /\ balance' = owed
      BY <1>1 DEF BooksInv, MinedOnSettledBooks
    <2>1. PICK k \in PoolBlocks : LastIsOpen(k)
      BY <1>2 DEF LedgerInv, BooksInv
    <2>2. k = t.height
      BY <1>2, <2>1 DEF LastIsOpen
    <2>3. balance = snapshots[t.snapshot].before
          /\ owed = [a \in Addresses |-> balance[a] + Net(t.snapshot, a)]
      BY <1>2, <2>1, <2>2 DEF LastIsOpen
    <2>4. \A a \in Addresses \ snapshots[t.snapshot].entries :
             balance[a] \in Int /\ Net(t.snapshot, a) = 0
      BY <1>5 DEF Net, SnapshotType, LedgerInv, TypeOK
    <2>5. balance' = owed
      BY <1>3, <2>3, <2>4 DEF AfterBalance
    <2> QED BY <1>4, <2>1, <2>2, <2>5 DEF LastIsOpen
  <1> QED BY <1>6, <1>7, <1>8, <1>9, <1>10 DEF LedgerInv

LEMMA RollupKeepsLedger ==
    ASSUME LedgerInv, Rollup \/ UNCHANGED vars
    PROVE  LedgerInv'
  <1>1. UNCHANGED <<chain, owed, handler, info, snapshots, templates, refresh,
                    balance, totalPaid, history>>
    BY DEF Rollup, vars, masterVars, booksVars
  <1>2. windowEnd' \in Nat
    BY DEF Rollup, vars, LedgerInv, TypeOK
  <1>3. tip' = tip /\ HistoryOnChain' /\ BooksInv'
    BY <1>1, RelationsUnchanged DEF booksVars
  <1>4. TypeOK'
    BY <1>1, <1>2, <1>3 DEF LedgerInv, TypeOK
  <1>5. AnswerInv' /\ ReadInv'
    BY <1>1, <1>3 DEF LedgerInv, AnswerInv, ReadInv, ReadAt
  <1> QED BY <1>3, <1>4, <1>5 DEF LedgerInv

LEMMA NextKeepsLedger ==
    ASSUME LedgerInv, [Next]_vars
    PROVE  LedgerInv'
  <1>1. CASE Rollup \/ UNCHANGED vars
    BY <1>1, RollupKeepsLedger
  <1>2. CASE OthersBlock
    BY <1>2, OthersBlockKeepsLedger
  <1>3. ASSUME NEW r \in Refreshers, RefreshStep(r) PROVE LedgerInv'
    BY <1>3, RefreshKeepsLedger, StoreKeepsLedger DEF RefreshStep, MasterStep
  <1>4. ASSUME NEW h \in Handlers, HandlerStep(h) PROVE LedgerInv'
    BY <1>4, SubmitBlockKeepsLedger, HandlerKeepsLedger, FinalizeKeepsLedger
       DEF HandlerStep, HandlerOnlyStep
  <1> QED BY <1>1, <1>2, <1>3, <1>4 DEF Next

-----------------------------------------------------------------------------
LEMMA LedgerInvariant == Spec => []LedgerInv
  <1> QED BY InitLedger, NextKeepsLedger, PTL DEF Spec

-----------------------------------------------------------------------------
Payout(a) == [k \in DOMAIN history |-> snapshots[history[k]].paid[a]]

LEMMA TotalsStep ==
    ASSUME LedgerInv, TotalsMatchHistory, [Next]_vars
    PROVE  TotalsMatchHistory'
  <1>1. /\ DOMAIN history \subseteq Nat /\ IsFiniteSet(DOMAIN history)
        /\ \A k \in DOMAIN history : history[k] \in DOMAIN snapshots
        /\ \A key \in DOMAIN snapshots : snapshots[key] \in SnapshotType
    <2>1. DOMAIN history \subseteq 1..tip /\ tip \in Int
      BY PayoutLedgerAssumption DEF LedgerInv, TypeOK, HistoryOnChain
    <2>2. IsFiniteSet(1..tip)
      BY <2>1, FS_Interval
    <2>3. IsFiniteSet(DOMAIN history)
      BY <2>1, <2>2, FS_Subset
    <2> QED
      BY <2>3 DEF LedgerInv, TypeOK
  <1>2. \A a \in Addresses : totalPaid[a] = Total(Payout(a), DOMAIN history)
    BY SumIsTotal DEF TotalsMatchHistory, Payout
  <1>3. SUFFICES ASSUME NEW a \in Addresses
                 PROVE  totalPaid'[a] = Total(Payout(a)', DOMAIN history')
    BY SumIsTotal DEF TotalsMatchHistory, Payout
  <1>4. \A key \in DOMAIN snapshots : key \in DOMAIN snapshots' /\ snapshots'[key] = snapshots[key]
    <2>1. ASSUME NEW r \in Refreshers, NEW payment \in Payments, StoreSnapshot(r, payment)
          PROVE  \A key \in DOMAIN snapshots :
                     key \in DOMAIN snapshots' /\ snapshots'[key] = snapshots[key]
      BY ONLY <2>1 DEF StoreSnapshot, With
    <2>2. ASSUME NEW r \in Refreshers, RefreshStep(r)
          PROVE  \/ UNCHANGED snapshots
                 \/ \E payment \in Payments : StoreSnapshot(r, payment)
      BY ONLY <2>2 DEF RefreshStep, ReceiveTemplate, FindNoWindow, ReuseSnapshot, ReadBalances,
                       StoreRefused
    <2>3. ASSUME NEW h \in Handlers, HandlerStep(h)
          PROVE  UNCHANGED snapshots
      BY ONLY <2>3 DEF HandlerStep, SubmitBlock, SubmitStaleBlock, Finalize, SkipFinalization,
                       HandlerFails, masterVars
    <2>4. ASSUME Rollup \/ OthersBlock \/ UNCHANGED vars
          PROVE  UNCHANGED snapshots
      BY ONLY <2>4 DEF Rollup, OthersBlock, masterVars, vars
    <2> QED BY <2>1, <2>2, <2>3, <2>4 DEF Next
  <1>5. CASE UNCHANGED <<totalPaid, history>>
    <2>1. Payout(a)' = Payout(a)
      BY <1>1, <1>4, <1>5 DEF Payout
    <2> QED
      BY <1>2, <1>5, <2>1
  <1>6. ASSUME NEW h \in Handlers, Finalize(h)
        PROVE  totalPaid'[a] = Total(Payout(a)', DOMAIN history')
    <2> DEFINE t == handler[h].template
    <2>1. PICK n, key : n = t.height /\ key = t.snapshot
      OBVIOUS
    <2>2. /\ n \notin DOMAIN history /\ snapshots' = snapshots
          /\ history' = With(history, n, key)
          /\ totalPaid' = [b \in Addresses |-> totalPaid[b] + snapshots[key].paid[b]]
      BY <1>6, <2>1 DEF Finalize, Finalizable, TotalAfter, masterVars
    <2>3. key \in DOMAIN snapshots
      BY <1>6, <2>1 DEF LedgerInv, TypeOK, Finalize, Finalizable
    <2>4. PICK D, E, f, g : /\ D = DOMAIN history /\ E = D \cup {n}
                           /\ f = Payout(a) /\ g = Payout(a)'
      OBVIOUS
    <2>5. /\ DOMAIN history' = E /\ E \ {n} = D /\ n \in E
          /\ g[n] = snapshots[key].paid[a]
          /\ \A k \in D : g[k] = f[k]
      BY <2>2, <2>4 DEF Payout, With
    <2>6. snapshots[key].paid[a] \in Nat /\ \A k \in D : f[k] \in Nat
      BY <1>1, <2>3, <2>4 DEF Payout, SnapshotType
    <2>7. IsFiniteSet(E) /\ IsFiniteSet(D)
      BY <1>1, <2>4, FS_AddElement
    <2>8. \A k \in E : g[k] \in Nat
      BY <2>4, <2>5, <2>6
    <2>9. Total(g, E) = g[n] + Total(g, D)
      BY <2>5, <2>7, <2>8, TotalRemoves
    <2>10. Total(g, D) = Total(f, D) /\ Total(f, D) \in Nat
      BY <2>5, <2>6, <2>7, TotalsEqual, TotalIsNat
    <2>11. totalPaid[a] = Total(f, D)
      BY <1>2, <2>4
    <2> QED
      BY <2>2, <2>4, <2>5, <2>6, <2>9, <2>10, <2>11
  <1> QED
    BY <1>5, <1>6
    DEF Next, vars, masterVars, booksVars, Rollup, OthersBlock, RefreshStep, ReceiveTemplate,
        FindNoWindow, ReuseSnapshot, ReadBalances, StoreSnapshot, StoreRefused, HandlerStep,
        SubmitBlock, SubmitStaleBlock, SkipFinalization, HandlerFails

(* The tables keep their types and reference one another as the foreign      *)
(* keys of payout_snapshot ask: what is broadcast, mined or finalized names  *)
(* a stored snapshot. *)
THEOREM LedgerTypeCorrect == Spec => []TypeOK
  <1>1. LedgerInv => TypeOK
    BY DEF LedgerInv
  <1> QED BY <1>1, LedgerInvariant, PTL

(* finalizeSnapshotForBlock brings only blocks into the books that the node  *)
(* took, each with the snapshot it pays, however submissions, refreshes and  *)
(* failures of any number of handlers interleave. *)
THEOREM OnlyChainBlocksAreFinalized == Spec => []HistoryOnChain
  <1>1. LedgerInv => HistoryOnChain
    BY DEF LedgerInv
  <1> QED BY <1>1, LedgerInvariant, PTL

(* When every block was mined on a snapshot made after the finalization of   *)
(* the block before it, the stored balances carry what the blocks left owed: *)
(* the snapshot read before finalization is then never overtaken.            *)
THEOREM BalancesAreCarried == Spec => []BalancesCarried
  <1>1. LedgerInv => BalancesCarried
    BY DEF LedgerInv, BooksInv, LastIsOpen, BalancesCarried, Settled
  <1> QED BY <1>1, LedgerInvariant, PTL

(* What an address was paid in all is what its finalized blocks paid it,     *)
(* each once, however often and by whom a block is finalized                 *)
(* (finalizeSnapshotForBlock, totalPaidSats).                                *)
THEOREM TotalsAreHistory == Spec => []TotalsMatchHistory
  <1>1. Init => TotalsMatchHistory
    <2> SUFFICES ASSUME Init, NEW a \in Addresses
                 PROVE  totalPaid[a] = SumFunction([k \in DOMAIN history |-> snapshots[history[k]].paid[a]])
      BY DEF TotalsMatchHistory
    <2>1. DOMAIN history = {} /\ totalPaid[a] = 0
      BY DEF Init, Zero
    <2>2. Total(Payout(a), {}) = 0
      BY TotalSteps, FS_EmptySet
    <2> QED
      BY <2>1, <2>2, SumIsTotal DEF Payout
  <1>2. LedgerInv /\ TotalsMatchHistory /\ [Next]_vars => TotalsMatchHistory'
    BY TotalsStep
  <1> QED
    BY <1>1, <1>2, LedgerInvariant, PTL DEF Spec

=============================================================================
