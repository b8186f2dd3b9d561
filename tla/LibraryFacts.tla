---------------------------- MODULE LibraryFacts ----------------------------
(***************************************************************************)
(* What the proofs use of the library's operators: sequences over no       *)
(* particular set, and sums over a finite set.                             *)
(***************************************************************************)
EXTENDS Integers, SequencesExt, SequenceTheorems, FiniteSetTheorems, WellFoundedInduction, TLAPS

IsSequence(s) == \E S : s \in Seq(S)

(* A sequence is a function over an initial segment of the naturals.       *)
LEMMA SequenceDomain ==
    ASSUME NEW s, IsSequence(s)
    PROVE  Len(s) \in Nat /\ DOMAIN s = 1..Len(s)
  BY LenProperties DEF IsSequence

(* Appending keeps every element in its place.                             *)
LEMMA SequenceAppend ==
    ASSUME NEW s, NEW e, IsSequence(s)
    PROVE  /\ IsSequence(Append(s, e))
           /\ Len(Append(s, e)) = Len(s) + 1
           /\ \A i \in 1..Len(s) : Append(s, e)[i] = s[i]
           /\ Append(s, e)[Len(s) + 1] = e
<1>1. PICK S : s \in Seq(S)  BY DEF IsSequence
<1>2. s \in Seq(S \cup {e})
  <2>1. s \in [1..Len(s) -> S] /\ Len(s) \in Nat  BY <1>1, LenProperties
  <2>2. s \in [1..Len(s) -> S \cup {e}]  BY <2>1
  <2>. QED  BY <2>1, <2>2
<1>. QED  BY <1>2, AppendProperties DEF IsSequence

Updated(s, i, e) == [s EXCEPT ![i] = e]

(* An update changes one element and no length.                            *)
LEMMA SequenceExcept ==
    ASSUME NEW s, NEW e, NEW i \in 1..Len(s), IsSequence(s)
    PROVE  /\ IsSequence(Updated(s, i, e))
           /\ Len(Updated(s, i, e)) = Len(s)
           /\ Updated(s, i, e)[i] = e
           /\ \A j \in 1..Len(s) : j # i => Updated(s, i, e)[j] = s[j]
<1>1. PICK S : s \in Seq(S)  BY DEF IsSequence
<1>2. s \in Seq(S \cup {e})
  <2>1. s \in [1..Len(s) -> S] /\ Len(s) \in Nat  BY <1>1, LenProperties
  <2>2. s \in [1..Len(s) -> S \cup {e}]  BY <2>1
  <2>. QED  BY <2>1, <2>2
<1> DEFINE t == [s EXCEPT ![i] = e]
<1>3. /\ t \in Seq(S \cup {e})
      /\ Len(t) = Len(s)
      /\ \A j \in 1..Len(s) : t[j] = IF j = i THEN e ELSE s[j]
  BY <1>2, ExceptSeq
<1>. QED  BY <1>3 DEF IsSequence, Updated

(* A sequence is a prefix of itself, and of what is appended to it.        *)
LEMMA AppendExtends ==
    ASSUME NEW S, NEW s \in Seq(S), NEW e \in S
    PROVE  /\ IsPrefix(s, s)
           /\ IsPrefix(s, Append(s, e))
           /\ ToSet(Append(s, e)) = ToSet(s) \cup {e}
<1> DEFINE t == Append(s, e)
<1>1. /\ Len(s) \in Nat /\ Len(t) = Len(s) + 1
      /\ DOMAIN s = 1..Len(s) /\ DOMAIN t = 1..Len(t)
      /\ t \in Seq(S) /\ t[Len(s) + 1] = e
      /\ \A i \in 1..Len(s) : t[i] = s[i] /\ s[i] \in S
  BY AppendProperties, LenProperties, ElementOfSeq
<1> HIDE DEF t
<1>2. SubSeq(s, 1, Len(s)) = SubSeq(t, 1, Len(s))
  <2>1. /\ SubSeq(s, 1, Len(s)) \in Seq(S) /\ SubSeq(t, 1, Len(s)) \in Seq(S)
        /\ Len(SubSeq(s, 1, Len(s))) = Len(SubSeq(t, 1, Len(s)))
        /\ Len(SubSeq(s, 1, Len(s))) = Len(s)
        /\ \A i \in 1..Len(s) : /\ SubSeq(s, 1, Len(s))[i] = s[i]
                                /\ SubSeq(t, 1, Len(s))[i] = t[i]
    BY <1>1, SubSeqProperties
  <2>. QED  BY <1>1, <2>1, SeqEqual
<1>3. ToSet(t) = ToSet(s) \cup {e}
  <2>1. ToSet(t) = {t[i] : i \in 1..(Len(s) + 1)} /\ ToSet(s) = {s[i] : i \in 1..Len(s)}
    BY <1>1 DEF ToSet
  <2>. QED  BY <1>1, <2>1
<1>. QED  BY <1>1, <1>2, <1>3 DEF IsPrefix, t

-----------------------------------------------------------------------------
(* A nonempty family of finite sets has a member none of whose proper      *)
(* subsets is in the family: induction over finite sets, as a minimum.     *)
LEMMA SmallestSet ==
    ASSUME NEW S, IsFiniteSet(S), NEW F, F \subseteq SUBSET S, F # {}
    PROVE  \E T \in F : /\ IsFiniteSet(T)
                        /\ \A U \in SUBSET T : U # T => U \notin F
<1>1. IsWellFoundedOn(StrictSubsetOrdering(S), SUBSET S)
  BY FS_StrictSubsetOrderingWellFounded, FS_FiniteSubsetsOfFinite
<1>2. PICK T \in F : \A U \in F : <<U, T>> \notin StrictSubsetOrdering(S)
  BY <1>1, WFMin
<1>3. IsFiniteSet(T)  BY FS_Subset
<1>. QED  BY <1>2, <1>3 DEF StrictSubsetOrdering

(* The recursive function a sum is read from, and its equation.            *)
Chosen(s) == CHOOSE x \in s : TRUE
Sums(fun, S, g) ==
    g = [s \in SUBSET S |-> IF s = {} THEN 0 ELSE fun[Chosen(s)] + g[s \ {Chosen(s)}]]

LEMMA SumIsChosen ==
    ASSUME NEW fun, NEW S
    PROVE  SumFunctionOnSet(fun, S) = (CHOOSE g : Sums(fun, S, g))[S]
  BY DEF SumFunctionOnSet, FoldFunctionOnSet, MapThenFoldSet, Sums, Chosen

LEMMA SumsAgree ==
    ASSUME NEW fun, NEW S, IsFiniteSet(S), NEW U, S \subseteq U,
           NEW g, Sums(fun, S, g), NEW h, Sums(fun, U, h)
    PROVE  g[S] = h[S]
<1> DEFINE F == {s \in SUBSET S : g[s] # h[s]}
<1>1. SUFFICES ASSUME F # {} PROVE FALSE  OBVIOUS
<1>2. PICK T \in F : IsFiniteSet(T) /\ \A V \in SUBSET T : V # T => V \notin F
  <2>1. F \subseteq SUBSET S  OBVIOUS
  <2> HIDE DEF F
  <2>. QED  BY <1>1, <2>1, SmallestSet
<1>3. T \in SUBSET S /\ g[T] # h[T]  OBVIOUS
<1>4. CASE T = {}  BY <1>3, <1>4 DEF Sums
<1>5. CASE T # {}
  <2>1. Chosen(T) \in T  BY <1>5 DEF Chosen
  <2>2. T \ {Chosen(T)} \in SUBSET S /\ T \ {Chosen(T)} # T  BY <2>1, <1>3
  <2>3. g[T \ {Chosen(T)}] = h[T \ {Chosen(T)}]  BY <1>2, <2>2
  <2>. QED  BY <1>3, <1>5, <2>3 DEF Sums
<1>. QED  BY <1>4, <1>5

LEMMA SumsExist ==
    ASSUME NEW fun, NEW S, IsFiniteSet(S)
    PROVE  \E g : Sums(fun, S, g)
<1> DEFINE F == {s \in SUBSET S : ~ \E g : Sums(fun, s, g)}
<1>1. SUFFICES ASSUME F # {} PROVE FALSE  OBVIOUS
<1>2. PICK T \in F : IsFiniteSet(T) /\ \A V \in SUBSET T : V # T => V \notin F
  <2>1. F \subseteq SUBSET S  OBVIOUS
  <2> HIDE DEF F
  <2>. QED  BY <1>1, <2>1, SmallestSet
<1> DEFINE f(s) == CHOOSE g : Sums(fun, s, g)
<1> DEFINE W(s) == IF s = {} THEN 0 ELSE fun[Chosen(s)] + f(s \ {Chosen(s)})[s \ {Chosen(s)}]
<1>3. \A V \in SUBSET T : V # T => Sums(fun, V, f(V))  BY <1>2
<1>4. ASSUME NEW s \in SUBSET T, s # T  PROVE f(s)[s] = W(s)
  <2>1. CASE s = {}
    <3>1. Sums(fun, s, f(s)) /\ s \in SUBSET s  BY <1>3, <1>4
    <3> HIDE DEF f
    <3>. QED  BY <3>1, <2>1 DEF Sums
  <2>2. CASE s # {}
    <3> DEFINE r == s \ {Chosen(s)}
    <3>1. Chosen(s) \in s  BY <2>2 DEF Chosen
    <3>2. r \in SUBSET T /\ r # T /\ r \subseteq s /\ r \in SUBSET s BY <1>4, <3>1
    <3>3. Sums(fun, s, f(s)) /\ Sums(fun, r, f(r))  BY <1>3, <1>4, <3>2
    <3>4. IsFiniteSet(r)  BY <1>2, <3>2, FS_Subset
    <3> HIDE DEF f
    <3>5. f(r)[r] = f(s)[r]  BY <3>2, <3>3, <3>4, SumsAgree
    <3>6. f(s)[s] = fun[Chosen(s)] + f(s)[r]  BY <3>3, <2>2 DEF Sums
    <3>. QED  BY <3>5, <3>6, <2>2
  <2>. QED  BY <2>1, <2>2
<1> DEFINE g == [s \in SUBSET T |-> W(s)]
<1>5. Sums(fun, T, g)
  <2>1. ASSUME NEW s \in SUBSET T, s # {}  PROVE W(s) = fun[Chosen(s)] + g[s \ {Chosen(s)}]
    <3>1. Chosen(s) \in s  BY <2>1 DEF Chosen
    <3>2. s \ {Chosen(s)} \in SUBSET T /\ s \ {Chosen(s)} # T  BY <3>1
    <3> HIDE DEF f
    <3>. QED  BY <3>2, <1>4, <2>1
  <2> HIDE DEF f
  <2>2. g = [s \in SUBSET T |-> IF s = {} THEN 0 ELSE fun[Chosen(s)] + g[s \ {Chosen(s)}]]
    BY <2>1
  <2>. QED  BY <2>2 DEF Sums
<1>. QED  BY <1>5

(* A sum over a finite set, one chosen element at a time.                  *)
LEMMA SumEquation ==
    ASSUME NEW fun, NEW S, IsFiniteSet(S)
    PROVE  SumFunctionOnSet(fun, S) =
               IF S = {} THEN 0
               ELSE fun[Chosen(S)] + SumFunctionOnSet(fun, S \ {Chosen(S)})
<1> DEFINE g == CHOOSE g : Sums(fun, S, g)
           R == S \ {Chosen(S)}
           h == CHOOSE h : Sums(fun, R, h)
<1>1. IsFiniteSet(R)  BY FS_Subset
<1>2. Sums(fun, S, g) /\ Sums(fun, R, h)  BY <1>1, SumsExist
<1>3. SumFunctionOnSet(fun, S) = g[S] /\ SumFunctionOnSet(fun, R) = h[R]  BY SumIsChosen
<1> HIDE DEF g, h
<1>4. g[R] = h[R]  BY <1>1, <1>2, SumsAgree
<1>5. g[S] = IF S = {} THEN 0 ELSE fun[Chosen(S)] + g[R]  BY <1>2 DEF Sums
<1>. QED  BY <1>3, <1>4, <1>5

LEMMA SumIsNat ==
    ASSUME NEW fun, NEW S, IsFiniteSet(S), \A x \in S : fun[x] \in Nat
    PROVE  SumFunctionOnSet(fun, S) \in Nat
<1> DEFINE F == {s \in SUBSET S : SumFunctionOnSet(fun, s) \notin Nat}
<1>1. SUFFICES ASSUME F # {} PROVE FALSE  OBVIOUS
<1>2. PICK T \in F : IsFiniteSet(T) /\ \A V \in SUBSET T : V # T => V \notin F
  <2>1. F \subseteq SUBSET S  OBVIOUS
  <2> HIDE DEF F
  <2>. QED  BY <1>1, <2>1, SmallestSet
<1>3. CASE T = {}
  <2>1. \A h : SumFunctionOnSet(h, T) = 0  BY <1>2, <1>3, SumEquation
  <2>. QED  BY <1>2, <2>1
<1>4. CASE T # {}
  <2>1. Chosen(T) \in T  BY <1>4 DEF Chosen
  <2>2. T \ {Chosen(T)} \in SUBSET S /\ T \ {Chosen(T)} # T  BY <2>1
  <2>3. SumFunctionOnSet(fun, T \ {Chosen(T)}) \in Nat  BY <1>2, <2>2
  <2>. QED  BY <1>2, <1>4, <2>1, <2>3, SumEquation
<1>. QED  BY <1>3, <1>4

(* Any element can be the one taken out.                                   *)
LEMMA SumTakeOut ==
    ASSUME NEW fun, NEW S, IsFiniteSet(S), NEW x \in S, \A y \in S : fun[y] \in Nat
    PROVE  SumFunctionOnSet(fun, S) = fun[x] + SumFunctionOnSet(fun, S \ {x})
<1> DEFINE V(s) == SumFunctionOnSet(fun, s)
           F == {s \in SUBSET S : \E y \in s : V(s) # fun[y] + V(s \ {y})}
<1>1. SUFFICES ASSUME F # {} PROVE FALSE  OBVIOUS
<1>2. PICK T \in F : IsFiniteSet(T) /\ \A U \in SUBSET T : U # T => U \notin F
  <2>1. F \subseteq SUBSET S  OBVIOUS
  <2> HIDE DEF F
  <2>. QED  BY <1>1, <2>1, SmallestSet
<1>3. PICK y \in T : V(T) # fun[y] + V(T \ {y})  OBVIOUS
<1>4. PICK c \in T : V(T) = fun[c] + V(T \ {c})
  <2>1. Chosen(T) \in T  BY <1>3 DEF Chosen
  <2>. QED  BY <1>2, <2>1, SumEquation
<1>5. c # y  BY <1>3, <1>4
<1>6. V(T \ {c}) = fun[y] + V((T \ {c}) \ {y})
  <2>1. T \ {c} \in SUBSET T /\ T \ {c} # T /\ T \ {c} \in SUBSET S /\ y \in T \ {c}  BY <1>5
  <2> HIDE DEF V
  <2>. QED  BY <1>2, <2>1
<1>7. V(T \ {y}) = fun[c] + V((T \ {y}) \ {c})
  <2>1. T \ {y} \in SUBSET T /\ T \ {y} # T /\ T \ {y} \in SUBSET S /\ c \in T \ {y}  BY <1>5
  <2> HIDE DEF V
  <2>. QED  BY <1>2, <2>1
<1>8. (T \ {c}) \ {y} = (T \ {y}) \ {c}  OBVIOUS
<1>9. fun[c] \in Nat /\ fun[y] \in Nat /\ V((T \ {y}) \ {c}) \in Nat
  <2>1. IsFiniteSet((T \ {y}) \ {c}) /\ (T \ {y}) \ {c} \subseteq S  BY <1>2, FS_Subset
  <2>. QED  BY <2>1, SumIsNat
<1>10. fun[c] + (fun[y] + V((T \ {y}) \ {c})) = fun[y] + (fun[c] + V((T \ {y}) \ {c}))
  <2>1. \A i, j, k \in Nat : i + (j + k) = j + (i + k)  OBVIOUS
  <2> HIDE DEF V
  <2>. QED  BY <1>9, <2>1, Zenon
<1> HIDE DEF V, F
<1>. QED  BY <1>3, <1>4, <1>6, <1>7, <1>8, <1>10, Zenon

(* A sum depends on the values at the elements summed over only.           *)
LEMMA SumCongruent ==
    ASSUME NEW f, NEW g, NEW S, IsFiniteSet(S), \A x \in S : f[x] = g[x]
    PROVE  SumFunctionOnSet(f, S) = SumFunctionOnSet(g, S)
<1> DEFINE F == {s \in SUBSET S : SumFunctionOnSet(f, s) # SumFunctionOnSet(g, s)}
<1>1. SUFFICES ASSUME F # {} PROVE FALSE  OBVIOUS
<1>2. PICK T \in F : IsFiniteSet(T) /\ \A V \in SUBSET T : V # T => V \notin F
  <2>1. F \subseteq SUBSET S  OBVIOUS
  <2> HIDE DEF F
  <2>. QED  BY <1>1, <2>1, SmallestSet
<1>3. CASE T = {}
  <2>1. \A h : SumFunctionOnSet(h, T) = 0  BY <1>2, <1>3, SumEquation
  <2>. QED  BY <1>2, <2>1
<1>4. CASE T # {}
  <2>1. Chosen(T) \in T  BY <1>4 DEF Chosen
  <2>2. T \ {Chosen(T)} \in SUBSET S /\ T \ {Chosen(T)} # T  BY <2>1
  <2>3. SumFunctionOnSet(f, T \ {Chosen(T)}) = SumFunctionOnSet(g, T \ {Chosen(T)})
    BY <1>2, <2>2
  <2>4. \A h : SumFunctionOnSet(h, T) = h[Chosen(T)] + SumFunctionOnSet(h, T \ {Chosen(T)})
    BY <1>2, <1>4, SumEquation
  <2>5. f[Chosen(T)] = g[Chosen(T)]  BY <1>2, <2>1
  <2>. QED  BY <1>2, <2>3, <2>4, <2>5
<1>. QED  BY <1>3, <1>4

LEMMA SumOfZeros ==
    ASSUME NEW fun, NEW S, IsFiniteSet(S), \A x \in S : fun[x] = 0
    PROVE  SumFunctionOnSet(fun, S) = 0
<1> DEFINE F == {s \in SUBSET S : SumFunctionOnSet(fun, s) # 0}
<1>1. SUFFICES ASSUME F # {} PROVE FALSE  OBVIOUS
<1>2. PICK T \in F : IsFiniteSet(T) /\ \A U \in SUBSET T : U # T => U \notin F
  <2>1. F \subseteq SUBSET S  OBVIOUS
  <2> HIDE DEF F
  <2>. QED  BY <1>1, <2>1, SmallestSet
<1>3. CASE T = {}
  BY <1>2, <1>3, SumEquation
<1>4. CASE T # {}
  <2>1. Chosen(T) \in T  BY <1>4 DEF Chosen
  <2>2. T \ {Chosen(T)} \in SUBSET T /\ T \ {Chosen(T)} # T  BY <2>1
  <2>3. SumFunctionOnSet(fun, T \ {Chosen(T)}) = 0  BY <1>2, <2>2
  <2>4. fun[Chosen(T)] = 0  BY <1>2, <2>1
  <2>. QED  BY <1>2, <1>4, <2>3, <2>4, SumEquation
<1>. QED  BY <1>3, <1>4

(* Sums over disjoint sets add up.                                         *)
LEMMA SumUnion ==
    ASSUME NEW fun, NEW S, NEW R, IsFiniteSet(S), IsFiniteSet(R), S \cap R = {},
           \A x \in S \cup R : fun[x] \in Nat
    PROVE  SumFunctionOnSet(fun, S \cup R) = SumFunctionOnSet(fun, S) + SumFunctionOnSet(fun, R)
<1> DEFINE V(s) == SumFunctionOnSet(fun, s)
           F == {s \in SUBSET R : V(S \cup s) # V(S) + V(s)}
<1>1. SUFFICES ASSUME F # {} PROVE FALSE  OBVIOUS
<1>2. PICK T \in F : IsFiniteSet(T) /\ \A U \in SUBSET T : U # T => U \notin F
  <2>1. F \subseteq SUBSET R  OBVIOUS
  <2> HIDE DEF F
  <2>. QED  BY <1>1, <2>1, SmallestSet
<1>3. \A s : IsFiniteSet(s) /\ s \subseteq S \cup R => V(s) \in Nat
  BY SumIsNat
<1>4. CASE T = {}
  <2>1. V(T) = 0  BY <1>2, <1>4, SumEquation
  <2>2. S \cup T = S /\ V(S) \in Nat  BY <1>3, <1>4
  <2>3. V(S \cup T) = V(S) + V(T)
    <3>1. V(S \cup T) = V(S)  BY <2>2
    <3>2. V(S) = V(S) + 0  BY <2>2
    <3> HIDE DEF V
    <3>. QED  BY <2>1, <3>1, <3>2, Zenon
  <2>. QED  BY <1>2, <2>3
<1>5. CASE T # {}
  <2>1. PICK c \in T : TRUE  BY <1>5
  <2> DEFINE rest == T \ {c}
  <2>2. rest \in SUBSET T /\ rest # T /\ rest \in SUBSET R /\ IsFiniteSet(rest)
    BY <1>2, <2>1, FS_Subset
  <2>3. V(S \cup rest) = V(S) + V(rest)
    <3>1. rest \notin F
      <4> HIDE DEF F, rest
      <4>. QED  BY <1>2, <2>2
    <3> HIDE DEF V, rest
    <3>. QED  BY <2>2, <3>1
  <2>4. /\ IsFiniteSet(S \cup T) /\ (S \cup T) \ {c} = S \cup rest
        /\ \A y \in S \cup T : fun[y] \in Nat
    BY <1>2, <2>1, FS_Union
  <2>5. V(S \cup T) = fun[c] + V(S \cup rest)
    BY <2>1, <2>4, SumTakeOut
  <2>6. V(T) = fun[c] + V(rest)
    BY <1>2, <2>1, <2>4, SumTakeOut
  <2>7. fun[c] \in Nat /\ V(S) \in Nat /\ V(rest) \in Nat
    BY <1>3, <2>1, <2>2, <2>4
  <2>8. V(S \cup T) # V(S) + V(T)  BY <1>2
  <2>9. fun[c] + (V(S) + V(rest)) = V(S) + (fun[c] + V(rest))
    <3>1. \A i, j, k \in Nat : i + (j + k) = j + (i + k)  OBVIOUS
    <3> HIDE DEF V, rest
    <3>. QED  BY <2>7, <3>1, Zenon
  <2> HIDE DEF V, rest
  <2>. QED  BY <2>3, <2>5, <2>6, <2>8, <2>9, Zenon
<1>. QED  BY <1>4, <1>5

(* Larger values have a larger sum.                                        *)
LEMMA SumMonotone ==
    ASSUME NEW f, NEW g, NEW S, IsFiniteSet(S),
           \A x \in S : f[x] \in Nat /\ g[x] \in Nat /\ f[x] <= g[x]
    PROVE  SumFunctionOnSet(f, S) <= SumFunctionOnSet(g, S)
<1> DEFINE V(h, s) == SumFunctionOnSet(h, s)
           F == {s \in SUBSET S : ~(V(f, s) <= V(g, s))}
<1>1. SUFFICES ASSUME F # {} PROVE FALSE  OBVIOUS
<1>2. PICK T \in F : IsFiniteSet(T) /\ \A U \in SUBSET T : U # T => U \notin F
  <2>1. F \subseteq SUBSET S  OBVIOUS
  <2> HIDE DEF F
  <2>. QED  BY <1>1, <2>1, SmallestSet
<1>3. CASE T = {}
  <2>1. V(f, T) = 0 /\ V(g, T) = 0  BY <1>2, <1>3, SumEquation
  <2>. QED  BY <1>2, <2>1
<1>4. CASE T # {}
  <2>1. PICK c \in T : TRUE  BY <1>4
  <2> DEFINE rest == T \ {c}
  <2>2. rest \in SUBSET T /\ rest # T /\ rest \in SUBSET S /\ IsFiniteSet(rest)
    BY <1>2, <2>1, FS_Subset
  <2>3. V(f, rest) <= V(g, rest)
    <3> HIDE DEF V, rest
    <3>. QED  BY <1>2, <2>2
  <2>4. V(f, T) = f[c] + V(f, rest) /\ V(g, T) = g[c] + V(g, rest)
    BY <1>2, <2>1, SumTakeOut
  <2>5. V(f, rest) \in Nat /\ V(g, rest) \in Nat  BY <2>2, SumIsNat
  <2>6. f[c] \in Nat /\ g[c] \in Nat /\ f[c] <= g[c] /\ ~(V(f, T) <= V(g, T))
    BY <1>2, <2>1
  <2> HIDE DEF V, rest
  <2>. QED  BY <2>3, <2>4, <2>5, <2>6
<1>. QED  BY <1>3, <1>4

(* One more at one element.                                                *)
LEMMA SumOneMore ==
    ASSUME NEW S, IsFiniteSet(S), NEW D, NEW f \in [D -> Nat], S \subseteq D, NEW x \in D
    PROVE  SumFunctionOnSet([f EXCEPT ![x] = @ + 1], S) =
               SumFunctionOnSet(f, S) + (IF x \in S THEN 1 ELSE 0)
<1> DEFINE g == [f EXCEPT ![x] = @ + 1]
           V(h, s) == SumFunctionOnSet(h, s)
<1>1. /\ g \in [D -> Nat] /\ g[x] = f[x] + 1
      /\ \A y \in D : y # x => g[y] = f[y]
  OBVIOUS
<1>2. V(f, S) \in Nat  BY SumIsNat
<1> HIDE DEF g
<1>3. CASE x \notin S
  <2>1. V(g, S) = V(f, S)  BY <1>1, <1>3, SumCongruent
  <2>. QED  BY <1>2, <1>3, <2>1 DEF g
<1>4. CASE x \in S
  <2> DEFINE rest == S \ {x}
  <2>1. IsFiniteSet(rest) /\ rest \subseteq D /\ x \notin rest  BY FS_Subset
  <2>2. V(g, rest) = V(f, rest)  BY <1>1, <2>1, SumCongruent
  <2>3. V(f, S) = f[x] + V(f, rest) /\ V(g, S) = g[x] + V(g, rest)
    BY <1>1, <1>4, SumTakeOut
  <2>4. V(f, rest) \in Nat /\ f[x] \in Nat  BY <2>1, SumIsNat
  <2> HIDE DEF V, rest
  <2>5. V(g, S) = V(f, S) + 1  BY <1>1, <2>2, <2>3, <2>4
  <2>. QED  BY <1>4, <2>5 DEF g, V
<1>. QED  BY <1>3, <1>4

-----------------------------------------------------------------------------
(* A nonempty set of naturals has a least element.                         *)
LEMMA LeastNatural ==
    ASSUME NEW S \in SUBSET Nat, S # {}
    PROVE  Min(S) \in S /\ \A x \in S : Min(S) <= x
<1>1. PICK x \in S : \A y \in S : <<y, x>> \notin OpToRel(<, Nat)
  BY NatLessThanWellFounded, WFMin
<1>2. \A y \in S : x <= y
  <2>1. OpToRel(<, Nat) = {ss \in Nat \X Nat : ss[1] < ss[2]}  BY DEF OpToRel
  <2>2. \A y \in S : <<y, x>> \in Nat \X Nat  OBVIOUS
  <2>3. \A y \in S : ~(y < x)  BY <1>1, <2>1, <2>2
  <2>. QED  BY <2>3
<1>. QED  BY <1>2 DEF Min

(* What is at least everything in a set it belongs to is its maximum.      *)
LEMMA MaximumIs ==
    ASSUME NEW S \in SUBSET Int, NEW v \in S, \A x \in S : x <= v
    PROVE  Max(S) = v
<1> DEFINE m == Max(S)
<1>1. m \in S /\ \A y \in S : m >= y
  <2>1. \E x \in S : \A y \in S : x >= y  OBVIOUS
  <2>. QED  BY <2>1 DEF Max
<1> HIDE DEF m
<1>2. m = v  BY <1>1
<1>. QED  BY <1>2 DEF m
=============================================================================
