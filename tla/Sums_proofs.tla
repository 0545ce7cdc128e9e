----------------------------- MODULE Sums_proofs -----------------------------
(****************************************************************************)
(* Sums over finite sets, as SumFunctionOnSet defines them: by a function   *)
(* on the subsets of a set, which takes out an element that CHOOSE picks.   *)
(* The facts are proved of a smallest subset that violates them, which      *)
(* exists because the strict subsets of a finite set are well-founded.      *)
(****************************************************************************)
EXTENDS Functions, Integers, FiniteSetTheorems, TLAPS

(* The element that is taken out, and the function that the sum unfolds to. *)
Some(s) == CHOOSE x \in s : TRUE
Unfolds(g, F, S) ==
  g = [s \in SUBSET S |->
         IF s = {} THEN 0 ELSE F[Some(s)] + g[s \ {Some(s)}]]

LEMMA SumIsUnfolding ==
  ASSUME NEW F, NEW S
  PROVE  SumFunctionOnSet(F, S) = (CHOOSE g : Unfolds(g, F, S))[S]
BY DEF SumFunctionOnSet, FoldFunctionOnSet, MapThenFoldSet, Unfolds, Some

LEMMA SomeOf ==
  ASSUME NEW s, s # {}
  PROVE  Some(s) \in s
BY DEF Some

(* Every set of finite sets that is not empty has a smallest member.        *)
LEMMA Smallest ==
  ASSUME NEW S, IsFiniteSet(S), NEW B, B \subseteq SUBSET S, B # {}
  PROVE  \E U \in B : \A V \in SUBSET U : V # U => V \notin B
<1>1. IsWellFoundedOn(StrictSubsetOrdering(S), SUBSET S)
  BY FS_StrictSubsetOrderingWellFounded, FS_FiniteSubsetsOfFinite
<1>2. PICK U \in B : \A V \in B : <<V, U>> \notin StrictSubsetOrdering(S)
  BY <1>1, WFMin
<1> QED
  BY <1>2 DEF StrictSubsetOrdering

LEMMA UnfoldingsAgree ==
  ASSUME NEW F, NEW S, NEW T, NEW g, NEW h, Unfolds(g, F, S), Unfolds(h, F, T),
         NEW s, s \subseteq S, s \subseteq T, IsFiniteSet(s)
  PROVE  g[s] = h[s]
<1> DEFINE B == {u \in SUBSET s : g[u] # h[u]}
<1> SUFFICES ASSUME B # {} PROVE FALSE
  OBVIOUS
<1>1. PICK u \in B : \A v \in SUBSET u : v # u => v \notin B
  <2>1. B \subseteq SUBSET s
    OBVIOUS
  <2> HIDE DEF B
  <2> QED BY <2>1, Smallest
<1>2. u # {} /\ u \in SUBSET S /\ u \in SUBSET T
  BY DEF Unfolds
<1>3. Some(u) \in u /\ u \ {Some(u)} \in SUBSET u /\ u \ {Some(u)} # u
  BY <1>2, SomeOf
<1>4. g[u \ {Some(u)}] = h[u \ {Some(u)}]
  BY <1>1, <1>3
<1>5. g[u] = F[Some(u)] + g[u \ {Some(u)}]
  BY <1>2 DEF Unfolds
<1>6. h[u] = F[Some(u)] + h[u \ {Some(u)}]
  BY <1>2 DEF Unfolds
<1> QED
  BY <1>1, <1>4, <1>5, <1>6

LEMMA UnfoldingExists ==
  ASSUME NEW F, NEW S, IsFiniteSet(S)
  PROVE  \E g : Unfolds(g, F, S)
<1> DEFINE B == {u \in SUBSET S : ~ \E g : Unfolds(g, F, u)}
<1> SUFFICES ASSUME B # {} PROVE FALSE
  OBVIOUS
<1>1. PICK u \in B : \A v \in SUBSET u : v # u => v \notin B
  <2>1. B \subseteq SUBSET S
    OBVIOUS
  <2> HIDE DEF B
  <2> QED BY <2>1, Smallest
<1> DEFINE On(v) == CHOOSE g : Unfolds(g, F, v)
           Rest(v) == v \ {Some(v)}
           G == [s \in SUBSET u |->
                   IF s = {} THEN 0 ELSE F[Some(s)] + On(Rest(s))[Rest(s)]]
<1>2. ASSUME NEW v \in SUBSET u, v # {}
      PROVE  Rest(v) \in SUBSET u /\ Rest(v) # u /\ Unfolds(On(Rest(v)), F, Rest(v))
             /\ IsFiniteSet(Rest(v)) /\ Rest(v) \in SUBSET v
  <2>1. Some(v) \in v
    BY <1>2, SomeOf
  <2>2. Rest(v) \in SUBSET u /\ Rest(v) # u /\ Rest(v) \in SUBSET S
    BY <2>1
  <2>3. \E g : Unfolds(g, F, Rest(v))
    BY <1>1, <2>2
  <2>4. Unfolds(On(Rest(v)), F, Rest(v))
    BY <2>3
  <2>5. IsFiniteSet(Rest(v))
    BY <2>2, FS_Subset
  <2> QED BY <2>2, <2>4, <2>5
<1>3. ASSUME NEW v \in SUBSET u, v # {}
      PROVE  G[Rest(v)] = On(Rest(v))[Rest(v)]
  <2>1. CASE Rest(v) = {}
    <3>1. Unfolds(On({}), F, {})
      BY <1>2, <1>3, <2>1
    <3>2. On({})[{}] = 0
      <4> HIDE DEF On
      <4> QED BY <3>1 DEF Unfolds
    <3>3. G[{}] = 0
      OBVIOUS
    <3> QED BY <2>1, <3>2, <3>3
  <2>2. CASE Rest(v) # {}
    <3> DEFINE w == Rest(v)
    <3>1. /\ w \in SUBSET u /\ w # {} /\ Unfolds(On(w), F, w)
          /\ Unfolds(On(Rest(w)), F, Rest(w)) /\ Rest(w) \in SUBSET w
          /\ IsFiniteSet(Rest(w))
      BY <1>2, <1>3, <2>2
    <3>2. On(w)[Rest(w)] = On(Rest(w))[Rest(w)]
      <4> HIDE DEF w, On, Rest
      <4> QED BY <3>1, UnfoldingsAgree
    <3>3. G[w] = F[Some(w)] + On(Rest(w))[Rest(w)]
      BY <3>1
    <3>4. On(w)[w] = F[Some(w)] + On(w)[Rest(w)]
      <4>1. Unfolds(On(w), F, w) /\ w \in SUBSET w /\ w # {}
        BY <3>1
      <4> HIDE DEF On, w
      <4> QED BY <4>1 DEF Unfolds
    <3> QED BY <3>2, <3>3, <3>4
  <2> QED BY <2>1, <2>2
<1>4. G = [s \in SUBSET u |-> IF s = {} THEN 0 ELSE F[Some(s)] + G[Rest(s)]]
  <2> HIDE DEF On, Rest
  <2> QED BY <1>3
<1>5. Unfolds(G, F, u)
  BY <1>4 DEF Unfolds
<1> QED
  BY <1>1, <1>5

(* The sum of a set is an element's value and the sum of the rest, for the  *)
(* element that the definition picks.                                       *)
LEMMA SumStep ==
  ASSUME NEW F, NEW S, IsFiniteSet(S)
  PROVE  /\ S = {} => SumFunctionOnSet(F, S) = 0
         /\ S # {} => /\ Some(S) \in S
                      /\ SumFunctionOnSet(F, S)
                           = F[Some(S)] + SumFunctionOnSet(F, S \ {Some(S)})
<1> DEFINE g == CHOOSE f : Unfolds(f, F, S)
           T == S \ {Some(S)}
           h == CHOOSE f : Unfolds(f, F, T)
<1>1. IsFiniteSet(T)
  BY FS_Subset
<1>2. Unfolds(g, F, S)
  BY UnfoldingExists
<1>3. Unfolds(h, F, T)
  BY <1>1, UnfoldingExists
<1>4. SumFunctionOnSet(F, S) = g[S] /\ SumFunctionOnSet(F, T) = h[T]
  BY SumIsUnfolding
<1>5. g[T] = h[T]
  <2>1. T \subseteq S
    OBVIOUS
  <2> HIDE DEF g, h, T
  <2> QED BY <1>1, <1>2, <1>3, <2>1, UnfoldingsAgree
<1>6. S = {} => g[S] = 0
  <2> HIDE DEF g
  <2> QED BY <1>2 DEF Unfolds
<1>7. S # {} => Some(S) \in S /\ g[S] = F[Some(S)] + g[T]
  <2> HIDE DEF g
  <2> QED BY <1>2, SomeOf DEF Unfolds
<1> QED
  BY <1>4, <1>5, <1>6, <1>7

LEMMA SumType ==
  ASSUME NEW F, NEW S, IsFiniteSet(S), \A x \in S : F[x] \in Nat
  PROVE  SumFunctionOnSet(F, S) \in Nat
<1> DEFINE B == {T \in SUBSET S : SumFunctionOnSet(F, T) \notin Nat}
<1> SUFFICES ASSUME B # {} PROVE FALSE
  OBVIOUS
<1>1. PICK T \in B : \A V \in SUBSET T : V # T => V \notin B
  <2>1. B \subseteq SUBSET S
    OBVIOUS
  <2> HIDE DEF B
  <2> QED BY <2>1, Smallest
<1>2. IsFiniteSet(T)
  BY FS_Subset
<1>3. T # {} /\ Some(T) \in T
  <2>1. SumFunctionOnSet(F, T) \notin Nat
    OBVIOUS
  <2>2. T = {} => SumFunctionOnSet(F, T) = 0
    BY <1>2, SumStep
  <2>3. T # {}
    BY <2>1, <2>2, 0 \in Nat
  <2> QED BY <1>2, <2>3, SumStep
<1>4. SumFunctionOnSet(F, T \ {Some(T)}) \in Nat
  BY <1>1, <1>3
<1> QED
  BY <1>2, <1>3, <1>4, SumStep

(* ... and for any other element.                                           *)
LEMMA SumTakeOut ==
  ASSUME NEW F, NEW S, IsFiniteSet(S), \A x \in S : F[x] \in Nat, NEW e \in S
  PROVE  SumFunctionOnSet(F, S) = F[e] + SumFunctionOnSet(F, S \ {e})
<1> DEFINE B == {T \in SUBSET S : \E d \in T :
                   SumFunctionOnSet(F, T)
                     # F[d] + SumFunctionOnSet(F, T \ {d})}
<1> SUFFICES ASSUME B # {} PROVE FALSE
  OBVIOUS
<1>1. PICK T \in B : \A V \in SUBSET T : V # T => V \notin B
  <2>1. B \subseteq SUBSET S
    OBVIOUS
  <2> HIDE DEF B
  <2> QED BY <2>1, Smallest
<1>2. PICK d \in T : SumFunctionOnSet(F, T)
                       # F[d] + SumFunctionOnSet(F, T \ {d})
  OBVIOUS
<1> DEFINE c == Some(T)
<1>3. /\ IsFiniteSet(T) /\ IsFiniteSet(T \ {c}) /\ IsFiniteSet(T \ {d})
      /\ IsFiniteSet((T \ {c}) \ {d})
  BY FS_Subset
<1>4. c \in T /\ SumFunctionOnSet(F, T) = F[c] + SumFunctionOnSet(F, T \ {c})
  BY <1>3, SumStep
<1>5. d \in T \ {c} /\ c \in T \ {d} /\ c # d
  BY <1>2, <1>4
<1>6. T \ {c} \notin B /\ T \ {d} \notin B /\ T \ {c} \in SUBSET S /\ T \ {d} \in SUBSET S
  BY <1>1, <1>4
<1>7. SumFunctionOnSet(F, T \ {c}) = F[d] + SumFunctionOnSet(F, (T \ {c}) \ {d})
  BY <1>5, <1>6
<1>8. SumFunctionOnSet(F, T \ {d}) = F[c] + SumFunctionOnSet(F, (T \ {d}) \ {c})
  BY <1>5, <1>6
<1>9. (T \ {c}) \ {d} = (T \ {d}) \ {c}
  OBVIOUS
<1>10. SumFunctionOnSet(F, (T \ {c}) \ {d}) \in Nat
  BY <1>3, SumType
<1>11. F[c] \in Nat /\ F[d] \in Nat
  BY <1>4
<1> QED
  <2> HIDE DEF c
  <2> QED BY <1>2, <1>4, <1>7, <1>8, <1>9, <1>10, <1>11

LEMMA SumPutIn ==
  ASSUME NEW F, NEW S, IsFiniteSet(S), NEW e, e \notin S,
         \A x \in S \cup {e} : F[x] \in Nat
  PROVE  SumFunctionOnSet(F, S \cup {e}) = SumFunctionOnSet(F, S) + F[e]
<1>1. IsFiniteSet(S \cup {e}) /\ (S \cup {e}) \ {e} = S
  BY FS_AddElement
<1>2. SumFunctionOnSet(F, S \cup {e})
        = F[e] + SumFunctionOnSet(F, (S \cup {e}) \ {e})
  BY <1>1, SumTakeOut
<1>3. SumFunctionOnSet(F, S) \in Nat /\ F[e] \in Nat
  <2>1. \A x \in S : F[x] \in Nat
    OBVIOUS
  <2> QED BY <2>1, SumType
<1> QED
  BY <1>1, <1>2, <1>3

(* More elements, of values that are not negative, have no smaller a sum.   *)
LEMMA SumOfMore ==
  ASSUME NEW F, NEW S, IsFiniteSet(S), \A x \in S : F[x] \in Nat,
         NEW T \in SUBSET S
  PROVE  SumFunctionOnSet(F, T) <= SumFunctionOnSet(F, S)
<1> DEFINE B == {V \in SUBSET S : T \subseteq V /\
                   ~(SumFunctionOnSet(F, T) <= SumFunctionOnSet(F, V))}
<1> SUFFICES ASSUME B # {} PROVE FALSE
  OBVIOUS
<1>1. PICK V \in B : \A W \in SUBSET V : W # V => W \notin B
  <2>1. B \subseteq SUBSET S
    OBVIOUS
  <2> HIDE DEF B
  <2> QED BY <2>1, Smallest
<1>2. IsFiniteSet(T) /\ IsFiniteSet(V)
  BY FS_Subset
<1>3. SumFunctionOnSet(F, T) \in Nat
  BY <1>2, SumType
<1>4. PICK e \in V : e \notin T
  BY <1>3
<1>5. SumFunctionOnSet(F, V) = F[e] + SumFunctionOnSet(F, V \ {e})
  BY <1>2, SumTakeOut
<1>6. SumFunctionOnSet(F, T) <= SumFunctionOnSet(F, V \ {e})
  BY <1>1, <1>4
<1>7. SumFunctionOnSet(F, V \ {e}) \in Nat /\ F[e] \in Nat
  BY <1>2, SumType, FS_Subset
<1> QED
  BY <1>3, <1>5, <1>6, <1>7

(* A sum depends on the values of the elements alone.                       *)
LEMMA SumOfSame ==
  ASSUME NEW F, NEW G, NEW S, IsFiniteSet(S), \A x \in S : F[x] = G[x]
  PROVE  SumFunctionOnSet(F, S) = SumFunctionOnSet(G, S)
<1> DEFINE B == {T \in SUBSET S : SumFunctionOnSet(F, T) # SumFunctionOnSet(G, T)}
<1> SUFFICES ASSUME B # {} PROVE FALSE
  OBVIOUS
<1>1. PICK T \in B : \A V \in SUBSET T : V # T => V \notin B
  <2>1. B \subseteq SUBSET S
    OBVIOUS
  <2> HIDE DEF B
  <2> QED BY <2>1, Smallest
<1>2. IsFiniteSet(T)
  BY FS_Subset
<1>3. T # {} /\ Some(T) \in T
  BY <1>2, SumStep
<1>4. SumFunctionOnSet(F, T \ {Some(T)}) = SumFunctionOnSet(G, T \ {Some(T)})
  BY <1>1, <1>3
<1> QED
  BY <1>2, <1>3, <1>4, SumStep

(* Values that are smaller one by one, and zero where the other sum has no  *)
(* element, have no greater a sum.                                          *)
LEMMA SumAtMost ==
  ASSUME NEW F, NEW G, NEW S, NEW T, IsFiniteSet(S), IsFiniteSet(T),
         \A x \in S : G[x] \in Nat, \A x \in T : F[x] \in Nat,
         \A x \in T : IF x \in S THEN F[x] <= G[x] ELSE F[x] = 0
  PROVE  SumFunctionOnSet(F, T) <= SumFunctionOnSet(G, S)
<1> DEFINE B == {V \in SUBSET T :
                   ~(SumFunctionOnSet(F, V) <= SumFunctionOnSet(G, V \cap S))}
<1>1. B = {}
  <2> SUFFICES ASSUME B # {} PROVE FALSE
    OBVIOUS
  <2>1. PICK V \in B : \A W \in SUBSET V : W # V => W \notin B
    <3>1. B \subseteq SUBSET T
      OBVIOUS
    <3> HIDE DEF B
    <3> QED BY <3>1, Smallest
  <2>2. IsFiniteSet(V) /\ IsFiniteSet(V \cap S) /\ V \in SUBSET T
    BY FS_Subset
  <2>3. V # {}
    <3>1. SumFunctionOnSet(F, {}) = 0 /\ SumFunctionOnSet(G, {}) = 0
      BY FS_EmptySet, SumStep
    <3>2. ~(SumFunctionOnSet(F, V) <= SumFunctionOnSet(G, V \cap S))
      BY <2>1
    <3> SUFFICES ASSUME V = {} PROVE FALSE
      OBVIOUS
    <3>3. V \cap S = {}
      OBVIOUS
    <3>4. SumFunctionOnSet(F, V) = 0 /\ SumFunctionOnSet(G, V \cap S) = 0
      BY <3>1, <3>3
    <3> QED
      BY <3>2, <3>4
  <2>4. PICK e \in V : TRUE
    BY <2>3
  <2> DEFINE W == V \ {e}
  <2>5. W \in SUBSET V /\ W # V /\ W \in SUBSET T
    BY <2>2, <2>4
  <2>6. SumFunctionOnSet(F, W) <= SumFunctionOnSet(G, W \cap S)
    BY <2>1, <2>5
  <2>7. SumFunctionOnSet(F, V) = F[e] + SumFunctionOnSet(F, W)
    BY <2>2, <2>4, SumTakeOut
  <2>8. /\ SumFunctionOnSet(F, W) \in Nat /\ F[e] \in Nat
        /\ SumFunctionOnSet(G, W \cap S) \in Nat
    BY <2>2, <2>4, <2>5, SumType, FS_Subset
  <2>9. CASE e \in S
    <3>1. (V \cap S) \ {e} = W \cap S
      OBVIOUS
    <3>2. SumFunctionOnSet(G, V \cap S) = G[e] + SumFunctionOnSet(G, W \cap S)
      BY <2>2, <2>4, <2>9, <3>1, SumTakeOut
    <3>3. F[e] <= G[e] /\ G[e] \in Nat
      BY <2>2, <2>4, <2>9
    <3>4. SumFunctionOnSet(F, V) <= SumFunctionOnSet(G, V \cap S)
      BY <2>6, <2>7, <2>8, <3>2, <3>3
    <3> QED
      BY <2>1, <3>4
  <2>10. CASE e \notin S
    <3>1. V \cap S = W \cap S
      BY <2>10
    <3>2. F[e] = 0
      BY <2>2, <2>4, <2>10
    <3> QED
      BY <2>1, <2>6, <2>7, <2>8, <3>1, <3>2
  <2> QED
    BY <2>9, <2>10
<1>2. SumFunctionOnSet(F, T) <= SumFunctionOnSet(G, T \cap S)
  BY <1>1
<1>3. SumFunctionOnSet(G, T \cap S) <= SumFunctionOnSet(G, S)
  BY SumOfMore
<1>4. /\ SumFunctionOnSet(F, T) \in Nat /\ SumFunctionOnSet(G, S) \in Nat
      /\ SumFunctionOnSet(G, T \cap S) \in Nat
  BY SumType, FS_Subset
<1> QED
  BY <1>2, <1>3, <1>4
=============================================================================
