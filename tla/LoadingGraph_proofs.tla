-------------------------- MODULE LoadingGraph_proofs --------------------------
(* Proofs about LoadingGraph, for any packages, versions, queries and tables. *)
EXTENDS LoadingGraph, FiniteSetTheorems, SequenceTheorems, TLAPS

-----------------------------------------------------------------------------
(* The operators that the model takes from the library *)

\* A lapse is added to those there have been.
LEMMA LapseIs ==
  ASSUME NEW S, NEW s \in Seq(S), NEW x \in S
  PROVE  Append(s, x) \in Seq(S) /\ ToSet(Append(s, x)) = ToSet(s) \cup {x}
<1>1. /\ Append(s, x) \in Seq(S) /\ Len(s) \in Nat
      /\ DOMAIN s = 1..Len(s) /\ DOMAIN Append(s, x) = 1..(Len(s) + 1)
      /\ \A i \in 1..Len(s) : Append(s, x)[i] = s[i]
      /\ Append(s, x)[Len(s) + 1] = x
  BY AppendProperties, LenProperties
<1>2. 1..(Len(s) + 1) = 1..Len(s) \cup {Len(s) + 1}
  BY <1>1
<1> QED
  BY <1>1, <1>2 DEF ToSet

\* The last of the versions of a package.
LEMMA MaxIn ==
  ASSUME NEW S \in SUBSET Version, S # {}, IsFiniteSet(S)
  PROVE  Max(S) \in S /\ \A y \in S : y <= Max(S)
<1> DEFINE Above(x) == {y \in S : x < y}
           Aboves == {Above(x) : x \in S}
<1>1. PICK T \in Aboves : \A U \in Aboves : <<U, T>> \notin StrictSubsetOrdering(S)
  <2>1. Aboves \subseteq SUBSET S /\ Aboves # {}
    OBVIOUS
  <2>2. Aboves \subseteq FiniteSubsetsOf(S)
    <3> HIDE DEF Aboves
    <3> QED
      BY <2>1, FS_FiniteSubsetsOfFinite
  <2> HIDE DEF Aboves
  <2> QED
    BY <2>1, <2>2, WFMin, FS_StrictSubsetOrderingWellFounded
<1>2. PICK x \in S : T = Above(x)
  BY <1>1
<1>3. \A y \in S : y \in Nat
  BY LoadingGraphAssumption
<1>4. ASSUME NEW y \in S, x < y PROVE FALSE
  <2>1. y \in Above(x) /\ y \notin Above(y) /\ \A z \in S : y < z => x < z
    BY <1>3, <1>4
  <2>2. <<Above(y), Above(x)>> \in StrictSubsetOrdering(S)
    BY <2>1 DEF StrictSubsetOrdering
  <2> QED
    BY <1>1, <1>2, <2>2
<1>5. \A y \in S : x >= y
  BY <1>3, <1>4
<1>6. Max(S) \in S /\ \A y \in S : Max(S) >= y
  BY <1>5 DEF Max
<1> QED
  BY <1>3, <1>6

\* Of the ranks of some keys one is the first.
LEMMA LeastOf ==
  ASSUME NEW S \in SUBSET Nat, S # {}
  PROVE  \E x \in S : \A y \in S : x =< y
<1> DEFINE Upto == {0..x : x \in S}
<1>1. \A x \in S : x \in Nat /\ 0..x \in FiniteSubsetsOf(Nat)
  BY FS_Interval DEF FiniteSubsetsOf
<1>2. PICK T \in Upto : \A U \in Upto : <<U, T>> \notin StrictSubsetOrdering(Nat)
  <2>1. Upto \subseteq FiniteSubsetsOf(Nat) /\ Upto # {}
    BY <1>1
  <2> HIDE DEF Upto
  <2> QED
    BY <2>1, WFMin, FS_StrictSubsetOrderingWellFounded
<1>3. PICK x \in S : T = 0..x
  BY <1>2
<1>4. ASSUME NEW y \in S, y < x PROVE FALSE
  <2>1. 0..y \subseteq 0..x /\ x \in 0..x /\ x \notin 0..y
    BY <1>1, <1>4
  <2>2. <<0..y, 0..x>> \in StrictSubsetOrdering(Nat)
    BY <2>1 DEF StrictSubsetOrdering
  <2> QED
    BY <1>2, <1>3, <2>2
<1> QED
  BY <1>1, <1>4

\* The first of the versions of a package in the order of the texts of their keys.
LEMMA FirstKey ==
  ASSUME NEW S \in SUBSET Version, S # {}
  PROVE  \E v \in S : \A w \in S : Api[v] <= Api[w]
<1> DEFINE ranks == {Api[v] : v \in S}
<1>1. ranks \in SUBSET Nat /\ ranks # {}
  <2>1. \A v \in S : Api[v] \in Nat
    BY LoadingGraphAssumption
  <2> QED
    BY <2>1
<1>2. PICK x \in ranks : \A y \in ranks : x <= y
  <2> HIDE DEF ranks
  <2> QED
    BY <1>1, LeastOf
<1> QED
  BY <1>2

-----------------------------------------------------------------------------
(* The layers *)

LEMMA ReadyIn ==
  ASSUME NEW items, NEW R
  PROVE  Ready(items, R) \in SUBSET R
BY DEF Ready

\* The layers of what remains, from those of what remains of fewer.
Then(f, items, R) ==
  IF Ready(items, R) \in {{}, R} THEN <<Ready(items, R)>>
  ELSE <<Ready(items, R)>> \o f[R \ Ready(items, R)]

\* The layers of the sets of D.
Layering(f, items, D) == f = [R \in SUBSET D |-> Then(f, items, R)]

\* Of some of the finite sets of a set, one has no other within it.
LEMMA SmallestSet ==
  ASSUME NEW D, IsFiniteSet(D), NEW T \in SUBSET SUBSET D, T # {}
  PROVE  \E R \in T : \A S \in T : S \subseteq R => S = R
<1>1. T \subseteq FiniteSubsetsOf(D)
  BY FS_FiniteSubsetsOfFinite
<1>2. PICK R \in T : \A S \in T : <<S, R>> \notin StrictSubsetOrdering(D)
  BY <1>1, WFMin, FS_StrictSubsetOrderingWellFounded
<1>3. ASSUME NEW S \in T, S \subseteq R, S # R PROVE FALSE
  <2>1. <<S, R>> \in StrictSubsetOrdering(D)
    BY <1>3 DEF StrictSubsetOrdering
  <2> QED
    BY <1>2, <2>1
<1> QED
  BY <1>3

\* What remains has one sequence of layers.
LEMMA OneLayering ==
  ASSUME NEW items, NEW D, IsFiniteSet(D), NEW f, NEW g,
         NEW A \in SUBSET D, NEW B \in SUBSET D,
         Layering(f, items, A), Layering(g, items, B), NEW R, R \subseteq A, R \subseteq B
  PROVE  f[R] = g[R]
<1> DEFINE T == {S \in SUBSET D : S \subseteq A /\ S \subseteq B /\ f[S] # g[S]}
<1>1. ASSUME T # {} PROVE FALSE
  <2>1. PICK S \in T : \A U \in T : U \subseteq S => U = S
    <3>1. T \in SUBSET SUBSET D
      OBVIOUS
    <3> HIDE DEF T
    <3> QED
      BY <1>1, <3>1, SmallestSet
  <2>2. f[S] = Then(f, items, S) /\ g[S] = Then(g, items, S)
    BY DEF Layering
  <2>3. Ready(items, S) # {} => f[S \ Ready(items, S)] = g[S \ Ready(items, S)]
    BY <2>1, ReadyIn
  <2>4. f[S] = g[S]
    BY <2>2, <2>3 DEF Then
  <2> QED
    BY <2>4
<1>2. R \in SUBSET D
  OBVIOUS
<1> QED
  BY <1>1, <1>2

\* What remains has a sequence of layers.
LEMMA SomeLayering ==
  ASSUME NEW items, NEW D, IsFiniteSet(D), NEW R \in SUBSET D
  PROVE  \E f : Layering(f, items, R)
<1> DEFINE T == {S \in SUBSET D : ~ \E f : Layering(f, items, S)}
<1>1. ASSUME T # {} PROVE FALSE
  <2>1. PICK S \in T : \A U \in T : U \subseteq S => U = S
    <3>1. T \in SUBSET SUBSET D
      OBVIOUS
    <3> HIDE DEF T
    <3> QED
      BY <1>1, <3>1, SmallestSet
  <2> DEFINE of(U) == CHOOSE f : Layering(f, items, U)
             k == [U \in SUBSET S |-> of(U)[U]]
             h == [U \in SUBSET S |-> IF U = S THEN Then(k, items, S) ELSE k[U]]
  <2>2. \A U \in SUBSET S : U # S => Layering(of(U), items, U)
    <3>1. \A U \in SUBSET S : U # S => \E f : Layering(f, items, U)
      BY <2>1
    <3> QED
      BY <3>1
  <2>3. ASSUME NEW U \in SUBSET S, U # S PROVE k[U] = Then(k, items, U)
    <3> DEFINE W == U \ Ready(items, U)
    <3>1. Layering(of(U), items, U) /\ Layering(of(W), items, W) /\ W \in SUBSET U
      <4>1. W \in SUBSET S /\ W # S /\ W \in SUBSET U
        BY <2>3
      <4> HIDE DEF W, of
      <4> QED
        BY <2>2, <2>3, <4>1
    <3>2. of(U)[W] = of(W)[W]
      <4>1. U \in SUBSET D /\ W \in SUBSET D
        BY <2>1
      <4> HIDE DEF W, of
      <4> QED
        BY <3>1, <4>1, OneLayering
    <3>3. of(U)[U] = Then(of(U), items, U)
      <4> HIDE DEF W, of
      <4> QED
        BY <3>1 DEF Layering
    <3>4. k[U] = of(U)[U] /\ k[W] = of(W)[W]
      OBVIOUS
    <3> HIDE DEF k, of
    <3> QED
      BY <3>2, <3>3, <3>4 DEF Then
  <2>4. ASSUME NEW U \in SUBSET S PROVE h[U] = Then(h, items, U)
    <3> DEFINE W == U \ Ready(items, U)
    <3>1. Ready(items, U) # {} => W \in SUBSET S /\ W # S /\ h[W] = k[W]
      BY ReadyIn
    <3>2. h[U] = Then(k, items, U)
      BY <2>3
    <3> HIDE DEF h, k
    <3> QED
      BY <3>1, <3>2 DEF Then
  <2>5. h = [U \in SUBSET S |-> Then(h, items, U)]
    <3>1. h = [U \in SUBSET S |-> h[U]]
      OBVIOUS
    <3> HIDE DEF h
    <3> QED
      BY <2>4, <3>1
  <2> HIDE DEF h
  <2> QED
    BY <2>1, <2>5 DEF Layering
<1> QED
  BY <1>1

\* loading_graph computes the layers of what remains from those of fewer libraries.
LEMMA LayersOfIs ==
  ASSUME NEW items, IsFiniteSet(DOMAIN items)
  PROVE  \E f : Layering(f, items, DOMAIN items) /\ LayersOf(items) = f[DOMAIN items]
<1> DEFINE f == CHOOSE g : g = [R \in SUBSET DOMAIN items |->
                  IF Ready(items, R) \in {{}, R} THEN <<Ready(items, R)>>
                  ELSE <<Ready(items, R)>> \o g[R \ Ready(items, R)]]
<1>1. \E g : g = [R \in SUBSET DOMAIN items |->
                  IF Ready(items, R) \in {{}, R} THEN <<Ready(items, R)>>
                  ELSE <<Ready(items, R)>> \o g[R \ Ready(items, R)]]
  <2>1. \E g : Layering(g, items, DOMAIN items)
    BY SomeLayering
  <2> QED
    BY <2>1 DEF Layering, Then
<1>2. Layering(f, items, DOMAIN items)
  BY <1>1 DEF Layering, Then
<1>3. LayersOf(items) = f[DOMAIN items]
  BY DEF LayersOf
<1> QED
  BY <1>2, <1>3

\* In the layers of what remains, a library comes after what it depends on.
Ordered(layers, items, gone) ==
  /\ layers \in Seq(SUBSET DOMAIN items)
  /\ \A i \in DOMAIN layers : \A s \in layers[i] : \A q \in items[s].deps :
       SymbolFor(q) \in gone \/ \E j \in 1..(i - 1) : SymbolFor(q) \in layers[j]

\* A layer before layers.
LEMMA LayerBefore ==
  ASSUME NEW S, NEW x \in S, NEW s \in Seq(S)
  PROVE  /\ <<x>> \o s \in Seq(S) /\ Len(s) \in Nat /\ DOMAIN s = 1..Len(s)
         /\ DOMAIN (<<x>> \o s) = 1..(Len(s) + 1)
         /\ (<<x>> \o s)[1] = x
         /\ \A i \in 2..(Len(s) + 1) : (<<x>> \o s)[i] = s[i - 1]
OBVIOUS

LEMMA FirstLayer ==
  ASSUME NEW items, NEW R \in SUBSET DOMAIN items
  PROVE  Ordered(<<Ready(items, R)>>, items, DOMAIN items \ R)
<1> DEFINE ready == Ready(items, R)
<1>1. ready \in SUBSET DOMAIN items
  BY ReadyIn
<1>2. \A s \in ready : \A q \in items[s].deps : SymbolFor(q) \in DOMAIN items \ R
  BY DEF Ready
<1> HIDE DEF ready
<1>3. <<ready>> \in Seq(SUBSET DOMAIN items) /\ DOMAIN <<ready>> = 1..1 /\ <<ready>>[1] = ready
  BY <1>1
<1>4. Ordered(<<ready>>, items, DOMAIN items \ R)
  BY <1>2, <1>3 DEF Ordered
<1> QED
  BY <1>4 DEF ready

LEMMA LaterLayers ==
  ASSUME NEW items, NEW R \in SUBSET DOMAIN items, NEW ready \in SUBSET R, NEW layers,
         Ordered(<<ready>>, items, DOMAIN items \ R),
         Ordered(layers, items, DOMAIN items \ (R \ ready))
  PROVE  Ordered(<<ready>> \o layers, items, DOMAIN items \ R)
<1> DEFINE all == <<ready>> \o layers
<1>1. /\ all \in Seq(SUBSET DOMAIN items) /\ Len(layers) \in Nat
      /\ DOMAIN layers = 1..Len(layers) /\ DOMAIN all = 1..(Len(layers) + 1)
      /\ all[1] = ready /\ \A i \in 2..(Len(layers) + 1) : all[i] = layers[i - 1]
  <2>1. ready \in SUBSET DOMAIN items /\ layers \in Seq(SUBSET DOMAIN items)
    BY DEF Ordered
  <2> QED
    BY <2>1, LayerBefore
<1> HIDE DEF all
<1>2. ASSUME NEW i \in DOMAIN all, NEW s \in all[i], NEW q \in items[s].deps
      PROVE  SymbolFor(q) \in DOMAIN items \ R \/ \E j \in 1..(i - 1) : SymbolFor(q) \in all[j]
  <2>1. CASE i = 1
    <3>1. 1 \in DOMAIN <<ready>> /\ <<ready>>[1] = ready /\ s \in ready /\ 1..(1 - 1) = {}
      BY <1>1, <2>1, <1>2
    <3> QED
      BY <3>1 DEF Ordered
  <2>2. CASE i # 1
    <3>1. i \in 2..(Len(layers) + 1) /\ i - 1 \in DOMAIN layers /\ s \in layers[i - 1] /\ i \in Nat
      BY <1>1, <1>2, <2>2
    <3>2. \/ SymbolFor(q) \in DOMAIN items \ (R \ ready)
          \/ \E j \in 1..((i - 1) - 1) : SymbolFor(q) \in layers[j]
      BY <3>1, <1>2 DEF Ordered
    <3>3. CASE SymbolFor(q) \in DOMAIN items \ (R \ ready)
      <4>1. SymbolFor(q) \in DOMAIN items \ R \/ SymbolFor(q) \in all[1]
        BY <3>3, <1>1
      <4>2. 1 \in 1..(i - 1)
        BY <3>1
      <4> QED
        BY <4>1, <4>2
    <3>4. ASSUME NEW j \in 1..((i - 1) - 1), SymbolFor(q) \in layers[j]
          PROVE  \E k \in 1..(i - 1) : SymbolFor(q) \in all[k]
      <4>1. j + 1 \in 1..(i - 1) /\ j + 1 \in 2..(Len(layers) + 1) /\ (j + 1) - 1 = j
        BY <3>1, <1>1
      <4>2. all[j + 1] = layers[j]
        BY <4>1, <1>1
      <4> QED
        BY <3>4, <4>1, <4>2
    <3> QED
      BY <3>2, <3>3, <3>4
  <2> QED
    BY <2>1, <2>2
<1>3. Ordered(all, items, DOMAIN items \ R)
  BY <1>1, <1>2 DEF Ordered
<1> QED
  BY <1>3 DEF all

\* loading_graph lists a library after what it depends on.
LEMMA LayersOrdered ==
  ASSUME NEW items, IsFiniteSet(DOMAIN items)
  PROVE  Ordered(LayersOf(items), items, {})
<1> DEFINE D == DOMAIN items
<1>1. PICK f : Layering(f, items, D) /\ LayersOf(items) = f[D]
  BY LayersOfIs
<1> DEFINE T == {R \in SUBSET D : ~ Ordered(f[R], items, D \ R)}
<1>2. ASSUME T # {} PROVE FALSE
  <2>1. PICK R \in T : \A S \in T : S \subseteq R => S = R
    <3>1. T \in SUBSET SUBSET D
      OBVIOUS
    <3> HIDE DEF T
    <3> QED
      BY <1>2, <3>1, SmallestSet
  <2> DEFINE ready == Ready(items, R)
  <2>2. R \in SUBSET D /\ ready \in SUBSET R /\ f[R] = Then(f, items, R)
    BY <1>1, ReadyIn DEF Layering
  <2>3. Ordered(<<ready>>, items, D \ R)
    BY <2>2, FirstLayer
  <2>4. CASE ready \in {{}, R}
    BY <2>1, <2>2, <2>3, <2>4 DEF Then
  <2>5. CASE ready \notin {{}, R}
    <3>1. R \ ready \subseteq R /\ R \ ready # R /\ R \ ready \in SUBSET D
      BY <2>2, <2>5
    <3>2. Ordered(f[R \ ready], items, D \ (R \ ready))
      <4> HIDE DEF ready
      <4> QED
        BY <2>1, <3>1
    <3>3. f[R] = <<ready>> \o f[R \ ready]
      BY <2>2, <2>5 DEF Then
    <3>4. Ordered(<<ready>> \o f[R \ ready], items, D \ R)
      <4> HIDE DEF ready
      <4> QED
        BY <2>2, <2>3, <3>2, LaterLayers
    <3> HIDE DEF ready
    <3> QED
      BY <2>1, <3>3, <3>4
  <2> QED
    BY <2>4, <2>5
<1>3. Ordered(f[D], items, D \ D)
  BY <1>2
<1>4. D \ D = {}
  OBVIOUS
<1> QED
  BY <1>1, <1>3, <1>4

\* The layers hold all the libraries, unless each of some needs another of them.
LEMMA AllOrStuck ==
  ASSUME NEW items, IsFiniteSet(DOMAIN items),
         \A S \in SUBSET DOMAIN items : Ready(items, S) = {} => S = {}
  PROVE  UNION ToSet(LayersOf(items)) = DOMAIN items
<1> DEFINE D == DOMAIN items
           Whole(layers, R) == layers \in Seq(SUBSET D) /\ UNION ToSet(layers) = R
<1>1. PICK f : Layering(f, items, D) /\ LayersOf(items) = f[D]
  BY LayersOfIs
<1> DEFINE T == {R \in SUBSET D : ~ Whole(f[R], R)}
<1>2. \A R \in SUBSET D : <<R>> \in Seq(SUBSET D) /\ UNION ToSet(<<R>>) = R
  <2> SUFFICES ASSUME NEW R \in SUBSET D
               PROVE  <<R>> \in Seq(SUBSET D) /\ UNION ToSet(<<R>>) = R
    OBVIOUS
  <2>1. <<R>> \in Seq(SUBSET D) /\ DOMAIN <<R>> = {1} /\ <<R>>[1] = R
    OBVIOUS
  <2>2. ToSet(<<R>>) = {R}
    BY <2>1 DEF ToSet
  <2> QED
    BY <2>1, <2>2
<1>3. ASSUME T # {} PROVE FALSE
  <2>1. PICK R \in T : \A S \in T : S \subseteq R => S = R
    <3>1. T \in SUBSET SUBSET D
      OBVIOUS
    <3> HIDE DEF T
    <3> QED
      BY <1>3, <3>1, SmallestSet
  <2> DEFINE ready == Ready(items, R)
  <2>2. R \in SUBSET D /\ ready \in SUBSET R /\ f[R] = Then(f, items, R) /\ (ready = {} => R = {})
    BY <1>1, ReadyIn DEF Layering
  <2>3. CASE ready \in {{}, R}
    <3>1. f[R] = <<ready>> /\ ready = R
      BY <2>2, <2>3 DEF Then
    <3>2. f[R] = <<R>>
      BY <3>1
    <3>3. Whole(f[R], R)
      BY <1>2, <2>2, <3>2
    <3> QED
      BY <2>1, <3>3
  <2>4. CASE ready \notin {{}, R}
    <3> DEFINE rest == f[R \ ready]
    <3>1. Whole(rest, R \ ready)
      <4>1. R \ ready \subseteq R /\ R \ ready # R /\ R \ ready \in SUBSET D
        BY <2>2, <2>4
      <4> HIDE DEF ready
      <4> QED
        BY <2>1, <4>1
    <3>2. f[R] = <<ready>> \o rest
      BY <2>2, <2>4 DEF Then
    <3> HIDE DEF rest
    <3>3. /\ <<ready>> \o rest \in Seq(SUBSET D) /\ Len(rest) \in Nat
          /\ DOMAIN rest = 1..Len(rest)
          /\ DOMAIN (<<ready>> \o rest) = 1..(Len(rest) + 1) /\ (<<ready>> \o rest)[1] = ready
          /\ \A i \in 2..(Len(rest) + 1) : (<<ready>> \o rest)[i] = rest[i - 1]
      <4>1. ready \in SUBSET D
        BY <2>2
      <4> HIDE DEF ready
      <4> QED
        BY <3>1, <4>1, LayerBefore
    <3> DEFINE all == <<ready>> \o rest
    <3>4. all \in Seq(SUBSET D) /\ DOMAIN all = 1..(Len(rest) + 1) /\ all[1] = ready
      BY <3>3
    <3>5. \A i \in 2..(Len(rest) + 1) : i - 1 \in 1..Len(rest) /\ all[i] = rest[i - 1]
      BY <3>3
    <3>6. \A i \in 1..Len(rest) : i + 1 \in 2..(Len(rest) + 1) /\ all[i + 1] = rest[i]
      <4>1. \A i \in 1..Len(rest) : i + 1 \in 2..(Len(rest) + 1) /\ (i + 1) - 1 = i
        BY <3>3
      <4> HIDE DEF all
      <4> QED
        BY <3>5, <4>1
    <3> HIDE DEF all
    <3>7. ToSet(all) = {ready} \cup ToSet(rest)
      <4>1. \A x \in ToSet(all) : x \in {ready} \cup ToSet(rest)
        <5> SUFFICES ASSUME NEW i \in DOMAIN all PROVE all[i] \in {ready} \cup ToSet(rest)
          BY DEF ToSet
        <5>1. i = 1 \/ i \in 2..(Len(rest) + 1)
          BY <3>3, <3>4
        <5> QED
          BY <3>3, <3>4, <3>5, <5>1 DEF ToSet
      <4>2. ready \in ToSet(all)
        <5>1. 1 \in DOMAIN all
          BY <3>3, <3>4
        <5> QED
          BY <3>4, <5>1 DEF ToSet
      <4>3. \A x \in ToSet(rest) : x \in ToSet(all)
        <5> SUFFICES ASSUME NEW i \in DOMAIN rest PROVE rest[i] \in ToSet(all)
          BY DEF ToSet
        <5>1. i + 1 \in DOMAIN all /\ all[i + 1] = rest[i]
          BY <3>3, <3>4, <3>6
        <5> QED
          BY <5>1 DEF ToSet
      <4> QED
        BY <4>1, <4>2, <4>3
    <3>8. UNION ToSet(all) = ready \cup (R \ ready)
      <4> HIDE DEF ready
      <4> QED
        BY <3>1, <3>7
    <3>9. UNION ToSet(all) = R
      BY <2>2, <3>8
    <3> QED
      BY <2>1, <3>2, <3>4, <3>9 DEF all
  <2> QED
    BY <2>3, <2>4
<1> QED
  BY <1>1, <1>3

\* None of the libraries that the layers hold needs one that is never before it.
LEMMA NoneStuck ==
  ASSUME NEW items, NEW layers, Ordered(layers, items, {}),
         NEW S \in SUBSET UNION ToSet(layers), S # {},
         \A s \in S : \E q \in items[s].deps : SymbolFor(q) \in S
  PROVE  FALSE
<1> DEFINE I == {i \in DOMAIN layers : layers[i] \cap S # {}}
<1>1. DOMAIN layers = 1..Len(layers) /\ Len(layers) \in Nat
  BY DEF Ordered
<1>2. I \in SUBSET Nat /\ I # {}
  BY <1>1 DEF ToSet
<1>3. PICK i \in I : \A j \in I : i =< j
  <2> HIDE DEF I
  <2> QED
    BY <1>2, LeastOf
<1>4. PICK s \in S : s \in layers[i]
  OBVIOUS
<1>5. PICK q \in items[s].deps : SymbolFor(q) \in S
  OBVIOUS
<1>6. PICK j \in 1..(i - 1) : SymbolFor(q) \in layers[j]
  BY <1>4 DEF Ordered
<1>7. j \in I /\ i \in Nat /\ j \in Nat /\ j < i
  BY <1>1, <1>5, <1>6
<1> QED
  BY <1>3, <1>7

-----------------------------------------------------------------------------
(* Types *)

Fields == {"at", "roots", "using", "extra", "todo", "cached", "picked", "missing", "data",
           "versions", "resolved", "queries", "items", "end", "layers", "lapses"}

\* What a request asks, and what it still has to find.
AskedOK(r) ==
  /\ r.at \in {"idle", "versions", "data", "done"} /\ IsTable(r.extra)
  /\ r.roots \subseteq Query /\ r.using \in [Package -> Semver \cup {NoSpec}]
  /\ r.todo \subseteq Query /\ r.queries \subseteq Query
  /\ r.at = "versions" => r.missing = {}

\* The versions it has found: those listed are libraries.
VersionsOK(r) ==
  /\ IsPartial(r.picked, Query, Version \cup {NotFound, Raised})
  /\ IsPartial(r.versions, Package, [known : SUBSET Version, sorted : BOOLEAN])
  /\ \A p \in DOMAIN r.versions : \A v \in r.versions[p].known : <<p, v>> \in Lib
  /\ IsPartial(r.resolved, Query, Version)

\* The libraries it has read: each is under the symbol it exports.
ReadOK(r) ==
  /\ r.missing \subseteq Lib /\ DOMAIN r.data \subseteq r.missing
  /\ \A l \in DOMAIN r.data : r.data[l] = NoDoc \/ r.data[l] \subseteq Query
  /\ IsPartial(r.items, Symbol, [lib : Lib, deps : SUBSET Query])
  /\ \A s \in DOMAIN r.items : SymbolOf(r.items[s].lib) = s

EndOK(r) ==
  /\ r.end \in {"none", "graph", "dependencies", "circular", "failed"}
  /\ r.end # "none" <=> r.at = "done"
  /\ r.layers \in Seq(SUBSET Lib)
  /\ r.lapses \in Seq({"published", "deleted", "failure"})

Typed(r) == DOMAIN r = Fields /\ AskedOK(r) /\ VersionsOK(r) /\ ReadOK(r) /\ EndOK(r)

TypeInv == IsTable(table) /\ IsTable(local) /\ Typed(req)

LEMMA TypeInvType ==
  ASSUME TypeInv
  PROVE  TypeOK
BY DEF TypeInv, Typed, AskedOK, VersionsOK, ReadOK, EndOK, TypeOK

\* s is r, with other values in some fields.
Apart(r, s, fields) == DOMAIN s = Fields /\ \A f \in Fields \ fields : s[f] = r[f]

\* The parts of a request that another shares with it.
LEMMA SameParts ==
  ASSUME NEW r, NEW s, NEW fields, Apart(r, s, fields), Typed(r)
  PROVE  /\ DOMAIN s = Fields
         /\ fields \cap {"at", "extra", "roots", "using", "todo", "queries", "missing"} = {} => AskedOK(s)
         /\ fields \cap {"picked", "versions", "resolved"} = {} => VersionsOK(s)
         /\ fields \cap {"missing", "data", "items"} = {} => ReadOK(s)
         /\ fields \cap {"end", "at", "layers", "lapses"} = {} => EndOK(s)
<1>1. DOMAIN s = Fields
  BY DEF Apart
<1>2. ASSUME fields \cap {"at", "extra", "roots", "using", "todo", "queries", "missing"} = {}
      PROVE  AskedOK(s)
  <2>1. /\ s.at = r.at /\ s.extra = r.extra /\ s.roots = r.roots /\ s.using = r.using
        /\ s.todo = r.todo /\ s.queries = r.queries /\ s.missing = r.missing
    BY <1>2 DEF Apart, Fields
  <2> QED
    BY <2>1 DEF Typed, AskedOK
<1>3. ASSUME fields \cap {"picked", "versions", "resolved"} = {} PROVE VersionsOK(s)
  <2>1. s.picked = r.picked /\ s.versions = r.versions /\ s.resolved = r.resolved
    BY <1>3 DEF Apart, Fields
  <2> QED
    BY <2>1 DEF Typed, VersionsOK
<1>4. ASSUME fields \cap {"missing", "data", "items"} = {} PROVE ReadOK(s)
  <2>1. s.missing = r.missing /\ s.data = r.data /\ s.items = r.items
    BY <1>4 DEF Apart, Fields
  <2> QED
    BY <2>1 DEF Typed, ReadOK
<1>5. ASSUME fields \cap {"end", "at", "layers", "lapses"} = {} PROVE EndOK(s)
  <2>1. s.end = r.end /\ s.at = r.at /\ s.layers = r.layers /\ s.lapses = r.lapses
    BY <1>5 DEF Apart, Fields
  <2> QED
    BY <2>1 DEF Typed, EndOK
<1> QED
  BY <1>1, <1>2, <1>3, <1>4, <1>5

LEMMA InitType ==
  ASSUME Init
  PROVE  TypeInv
<1>1. IsTable([l \in Lib |-> NoDoc])
  BY DEF IsTable
<1>2. DOMAIN req = Fields
  BY DEF Init, NoRequest, Fields
<1>3. AskedOK(req)
  BY <1>1 DEF Init, NoRequest, AskedOK
<1>4. VersionsOK(req)
  BY DEF Init, NoRequest, VersionsOK, IsPartial
<1>5. ReadOK(req)
  BY DEF Init, NoRequest, ReadOK, IsPartial
<1>6. EndOK(req)
  BY DEF Init, NoRequest, EndOK
<1> QED
  BY <1>1, <1>2, <1>3, <1>4, <1>5, <1>6 DEF Init, TypeInv, Typed

-----------------------------------------------------------------------------
(* The version that is picked *)

\* The versions of the libraries are finitely many.
LEMMA FewVersions ==
  ASSUME NEW S, NEW p, \A v \in S : <<p, v>> \in Lib
  PROVE  IsFiniteSet(S)
<1> DEFINE versions == {l[2] : l \in Lib}
           f == [l \in Lib |-> l[2]]
<1>1. IsFiniteSet(versions)
  <2>1. f \in Surjection(Lib, versions)
    BY DEF Surjection
  <2> HIDE DEF f, versions
  <2> QED
    BY <2>1, FS_Surjection, LoadingGraphAssumption
<1>2. S \subseteq versions
  <2>1. ASSUME NEW v \in S PROVE v \in versions
    <3>1. <<p, v>> \in Lib /\ <<p, v>>[2] = v
      OBVIOUS
    <3> QED
      BY <3>1
  <2> QED
    BY <2>1
<1> QED
  BY <1>1, <1>2, FS_Subset

\* What a list of versions is.
IsListed(p, listed) ==
  /\ listed \in [known : SUBSET Version, sorted : BOOLEAN]
  /\ \A v \in listed.known : <<p, v>> \in Lib

LEMMA ListedType ==
  ASSUME NEW p \in Package, NEW S \in SUBSET Version, \A v \in S : <<p, v>> \in Lib
  PROVE  IsListed(p, Listed(p, S))
BY DEF IsListed, Listed, Has

LEMMA HasType ==
  ASSUME NEW docs, NEW p
  PROVE  Has(docs, p) \in SUBSET Version /\ \A v \in Has(docs, p) : <<p, v>> \in Lib
BY DEF Has

\* A version has the API of one that the query admits.
Meets(q, v) == \E w \in Version : Api[w] = Api[v] /\ Fits(q, w)

\* resolve_version finds nothing or one of the versions that are listed, with the API
\* of one that the query admits.
LEMMA PickIs ==
  ASSUME NEW q, NEW listed, IsListed(q[1], listed)
  PROVE  /\ Pick(q, listed) \in Version \cup {NotFound}
         /\ Pick(q, listed) # NotFound =>
              Pick(q, listed) \in listed.known /\ Meets(q, Pick(q, listed))
<1> DEFINE fit == {v \in listed.known : Fits(q, v)}
           first == IF listed.sorted THEN Max(fit)
                    ELSE CHOOSE v \in fit : \A w \in fit : Api[v] <= Api[w]
<1>1. fit \in SUBSET Version /\ IsFiniteSet(fit)
  <2>1. IsFiniteSet(listed.known)
    BY FewVersions DEF IsListed
  <2>2. fit \in SUBSET listed.known /\ listed.known \in SUBSET Version
    BY DEF IsListed
  <2> HIDE DEF fit
  <2> QED
    BY <2>1, <2>2, FS_Subset
<1>2. CASE fit = {}
  BY <1>2 DEF Pick
<1>3. CASE fit # {}
  <2>1. first \in fit
    <3>1. Max(fit) \in fit
      <4> HIDE DEF fit
      <4> QED
        BY <1>1, <1>3, MaxIn
    <3>2. \E v \in fit : \A w \in fit : Api[v] <= Api[w]
      <4> HIDE DEF fit
      <4> QED
        BY <1>1, <1>3, FirstKey
    <3> HIDE DEF fit
    <3> QED
      BY <3>1, <3>2
  <2>2. PICK v \in fit : v = first
    BY <2>1
  <2>3. v \in listed.known /\ Fits(q, v) /\ v \in Version /\ v \in Nat
    BY <1>1, <2>2, LoadingGraphAssumption
  <2>4. Pick(q, listed) = IF SpecOf(q) \in Version THEN v ELSE Published(Release(v), listed.known)
    BY <1>3, <2>2 DEF Pick
  <2>5. \/ Pick(q, listed) = v
        \/ v \in Wip /\ v + 1 \in listed.known /\ Pick(q, listed) = v + 1
    BY <2>3, <2>4 DEF Published, Release
  <2>6. Pick(q, listed) \in listed.known /\ Pick(q, listed) \in Version
    BY <2>3, <2>5 DEF IsListed
  <2>7. Api[v] = Api[Pick(q, listed)]
    BY <2>5, <2>6, LoadingGraphAssumption
  <2> QED
    BY <2>3, <2>6, <2>7 DEF Meets
<1> QED
  BY <1>2, <1>3

-----------------------------------------------------------------------------
(* What the steps preserve *)

\* A query of the round is resolved to v.
Resolves(q, v) ==
  /\ req.at = "versions" /\ UNCHANGED <<table, local>>
  /\ Apart(req, req', {"picked", "versions", "lapses"})
  /\ req'.picked = With(req.picked, q, v)
  /\ v \in Version \cup {NotFound, Raised}

\* Its versions are listed, or were.
Lists(p, listed) ==
  /\ IsListed(p, listed)
  /\ req'.versions \in {req.versions, With(req.versions, p, listed)}

Lapses(lapse) == req'.lapses = Append(req.lapses, lapse)

LEMMA MalformedStep ==
  ASSUME TypeInv, NEW q \in Query, ResolveMalformed(q)
  PROVE  /\ Resolves(q, Raised) /\ SpecOf(q) = Malformed
         /\ req'.versions = req.versions /\ req'.lapses = req.lapses
BY DEF ResolveMalformed, Pending, Resolves, Apart, Fields, TypeInv, Typed

LEMMA ListedStep ==
  ASSUME TypeInv, NEW q \in Query, ResolveListed(q)
  PROVE  LET listed == Listed(q[1], Has(table, q[1]))
         IN  /\ Resolves(q, Pick(q, listed)) /\ Lists(q[1], listed)
             /\ req'.lapses = req.lapses
<1> DEFINE listed == Listed(q[1], Has(table, q[1]))
<1>1. IsListed(q[1], listed)
  BY HasType, ListedType DEF Query
<1>2. Pick(q, listed) \in Version \cup {NotFound}
  <2> HIDE DEF listed
  <2> QED
    BY <1>1, PickIs
<1>3. /\ req.at = "versions" /\ UNCHANGED <<table, local>>
      /\ req' = [req EXCEPT !.picked = With(@, q, Pick(q, listed)),
                            !.versions = IF listed.known = {} THEN @
                                         ELSE With(@, q[1], listed)]
  BY DEF ResolveListed, Pending
<1> HIDE DEF listed
<1>4. /\ Resolves(q, Pick(q, listed)) /\ Lists(q[1], listed)
      /\ req'.lapses = req.lapses
  BY <1>1, <1>2, <1>3 DEF Resolves, Lists, Apart, Fields, TypeInv, Typed
<1> QED
  BY <1>4 DEF listed

LEMMA CachedStep ==
  ASSUME TypeInv, NEW q \in Query, ResolveCached(q)
  PROVE  LET listed == req.versions[q[1]]
         IN  /\ q[1] \in DOMAIN req.versions /\ Resolves(q, Pick(q, listed))
             /\ IsListed(q[1], listed)
             /\ req'.versions = req.versions /\ req'.lapses = req.lapses
<1> DEFINE listed == req.versions[q[1]]
<1>1. IsListed(q[1], listed)
  BY DEF ResolveCached, IsListed, TypeInv, Typed, VersionsOK, IsPartial
<1>2. Pick(q, listed) \in Version \cup {NotFound}
  <2> HIDE DEF listed
  <2> QED
    BY <1>1, PickIs
<1>3. /\ req.at = "versions" /\ UNCHANGED <<table, local>> /\ q[1] \in DOMAIN req.versions
      /\ req' = [req EXCEPT !.picked = With(@, q, Pick(q, listed))]
  BY DEF ResolveCached, Pending
<1> HIDE DEF listed
<1>4. /\ q[1] \in DOMAIN req.versions /\ Resolves(q, Pick(q, listed))
      /\ req'.versions = req.versions /\ req'.lapses = req.lapses
  BY <1>1, <1>2, <1>3 DEF Resolves, Apart, Fields, TypeInv, Typed
<1> QED
  BY <1>1, <1>4 DEF listed

LEMMA ListFailsStep ==
  ASSUME TypeInv, NEW q \in Query, ListFails(q)
  PROVE  \E v : /\ Resolves(q, v) /\ Lists(q[1], Listed(q[1], {})) /\ Lapses("failure")
<1> DEFINE listed == Listed(q[1], {})
           r == [req EXCEPT !.lapses = Append(@, "failure")]
<1>1. IsListed(q[1], listed)
  BY ListedType DEF Query
<1>2. Pick(q, listed) \in Version \cup {NotFound}
  <2> HIDE DEF listed
  <2> QED
    BY <1>1, PickIs
<1>3. /\ req.at = "versions" /\ UNCHANGED <<table, local>>
      /\ \/ req' = [r EXCEPT !.picked = With(@, q, Raised)]
         \/ req' = [r EXCEPT !.picked = With(@, q, Pick(q, listed)),
                             !.versions = With(@, q[1], listed)]
  BY DEF ListFails, Pending
<1>4. /\ DOMAIN r = Fields /\ r.lapses = Append(req.lapses, "failure")
      /\ \A f \in Fields \ {"lapses"} : r[f] = req[f]
  BY DEF TypeInv, Typed, Fields
<1> HIDE DEF listed, r
<1>5. CASE req' = [r EXCEPT !.picked = With(@, q, Raised)]
  <2>1. Resolves(q, Raised) /\ Lists(q[1], listed) /\ Lapses("failure")
    BY <1>1, <1>3, <1>4, <1>5 DEF Resolves, Lists, Lapses, Apart, Fields
  <2> QED
    BY <2>1 DEF listed
<1>6. CASE req' = [r EXCEPT !.picked = With(@, q, Pick(q, listed)),
                            !.versions = With(@, q[1], listed)]
  <2>1. Resolves(q, Pick(q, listed)) /\ Lists(q[1], listed) /\ Lapses("failure")
    BY <1>1, <1>2, <1>3, <1>4, <1>6 DEF Resolves, Lists, Lapses, Apart, Fields
  <2> QED
    BY <2>1 DEF listed
<1> QED
  BY <1>3, <1>5, <1>6

\* A round that begins.
LEMMA RoundStarts ==
  ASSUME NEW r, DOMAIN r = Fields, NEW queries, NEW s, s = StartRound(r, queries)
  PROVE  /\ Apart(r, s, {"at", "todo", "cached", "picked", "missing", "data"})
         /\ s.at = "versions" /\ s.todo = queries \ DOMAIN r.resolved
         /\ s.picked = <<>> /\ s.missing = {} /\ s.data = <<>>
BY DEF StartRound, Apart, Fields

LEMMA RoundType ==
  ASSUME NEW r, Typed(r), r.end = "none", NEW queries \in SUBSET Query,
         NEW s, s = StartRound(r, queries)
  PROVE  Typed(s)
<1>1. /\ Apart(r, s, {"at", "todo", "cached", "picked", "missing", "data"})
      /\ s.at = "versions" /\ s.todo = queries \ DOMAIN r.resolved
      /\ s.picked = <<>> /\ s.missing = {} /\ s.data = <<>>
  BY RoundStarts DEF Typed
<1>2. /\ DOMAIN s = Fields /\ s.extra = r.extra /\ s.roots = r.roots /\ s.using = r.using
      /\ s.queries = r.queries /\ s.versions = r.versions /\ s.resolved = r.resolved
      /\ s.items = r.items /\ s.end = r.end /\ s.layers = r.layers /\ s.lapses = r.lapses
  BY <1>1 DEF Apart, Fields
<1>3. AskedOK(s)
  BY <1>1, <1>2 DEF Typed, AskedOK
<1>4. VersionsOK(s)
  BY <1>1, <1>2 DEF Typed, VersionsOK, IsPartial
<1>5. ReadOK(s)
  BY <1>1, <1>2 DEF Typed, ReadOK
<1>6. EndOK(s)
  BY <1>1, <1>2 DEF Typed, EndOK
<1> QED
  BY <1>2, <1>3, <1>4, <1>5, <1>6 DEF Typed

LEMMA ResolvesType ==
  ASSUME TypeInv, NEW q \in Query, NEW v, Resolves(q, v),
         \/ req'.versions = req.versions
         \/ \E listed : Lists(q[1], listed),
         req'.lapses = req.lapses \/ Lapses("failure")
  PROVE  TypeInv'
<1>1. /\ Typed(req) /\ Apart(req, req', {"picked", "versions", "lapses"})
      /\ req.at = "versions" /\ req'.at = "versions" /\ q[1] \in Package
  BY DEF Resolves, TypeInv, Apart, Fields, Query
<1>2. DOMAIN req' = Fields /\ AskedOK(req') /\ ReadOK(req')
  BY <1>1, SameParts
<1>3. VersionsOK(req')
  <2>1. /\ req'.resolved = req.resolved /\ req'.picked = With(req.picked, q, v)
        /\ v \in Version \cup {NotFound, Raised} /\ VersionsOK(req)
    BY <1>1 DEF Resolves, Apart, Fields, Typed
  <2>2. IsPartial(req'.picked, Query, Version \cup {NotFound, Raised})
    BY <2>1 DEF VersionsOK, IsPartial, With
  <2>3. CASE req'.versions = req.versions
    BY <2>1, <2>2, <2>3 DEF VersionsOK
  <2>4. ASSUME NEW listed, IsListed(q[1], listed),
               req'.versions = With(req.versions, q[1], listed)
        PROVE  VersionsOK(req')
    BY <1>1, <2>1, <2>2, <2>4 DEF VersionsOK, IsPartial, With, IsListed
  <2> QED
    BY <2>3, <2>4 DEF Lists
<1>4. EndOK(req')
  <2>1. /\ req'.end = req.end /\ req'.at = req.at /\ req'.layers = req.layers /\ EndOK(req)
    BY <1>1 DEF Apart, Fields, Typed
  <2>2. req'.lapses \in Seq({"published", "deleted", "failure"})
    <3>1. req.lapses \in Seq({"published", "deleted", "failure"})
      BY <2>1 DEF EndOK
    <3> QED
      BY <3>1, LapseIs DEF Lapses
  <2> QED
    BY <2>1, <2>2 DEF EndOK
<1> QED
  BY <1>2, <1>3, <1>4 DEF Resolves, TypeInv, Typed

LEMMA NotEnded ==
  ASSUME TypeInv, req.at # "done"
  PROVE  req.end = "none"
BY DEF TypeInv, Typed, EndOK

LEMMA FreshIs ==
  /\ DOMAIN NoRequest = Fields
  /\ AskedOK(NoRequest) /\ VersionsOK(NoRequest) /\ ReadOK(NoRequest) /\ EndOK(NoRequest)
<1>1. DOMAIN NoRequest = Fields
  BY DEF NoRequest, Fields
<1>2. AskedOK(NoRequest)
  BY DEF NoRequest, AskedOK, IsTable
<1>3. VersionsOK(NoRequest)
  BY DEF NoRequest, VersionsOK, IsPartial
<1>4. ReadOK(NoRequest)
  BY DEF NoRequest, ReadOK, IsPartial
<1>5. EndOK(NoRequest)
  BY DEF NoRequest, EndOK
<1> QED
  BY <1>1, <1>2, <1>3, <1>4, <1>5

\* The request that begins.
LEMMA StartStep ==
  ASSUME TypeInv, NEW asked \in Requests, Start(asked)
  PROVE  /\ TypeInv' /\ UNCHANGED <<table, local>>
         /\ req'.roots = asked.libraries /\ req'.todo = asked.libraries
         /\ req'.at = "versions" /\ req'.picked = <<>> /\ req'.versions = <<>>
         /\ req'.resolved = <<>> /\ req'.missing = {} /\ req'.data = <<>>
         /\ req'.items = <<>> /\ req'.end = "none" /\ req'.queries = {}
<1> DEFINE r == [NoRequest EXCEPT !.roots = asked.libraries, !.using = asked.using,
                                  !.extra = Latest(local)]
<1>1. /\ asked.libraries \in SUBSET Query /\ asked.using \in [Package -> Semver \cup {NoSpec}]
      /\ IsTable(Latest(local))
  <2>1. IsTable(Latest(local))
    BY DEF Latest, IsTable, TypeInv
  <2> QED
    BY <2>1, LoadingGraphAssumption
<1>2. /\ Apart(NoRequest, r, {"roots", "using", "extra"})
      /\ r.roots = asked.libraries /\ r.using = asked.using /\ r.extra = Latest(local)
  BY FreshIs DEF Apart, Fields
<1>3. /\ r.at = "idle" /\ r.todo = {} /\ r.queries = {} /\ r.end = "none"
      /\ r.versions = <<>> /\ r.resolved = <<>> /\ r.items = <<>>
  BY DEF NoRequest
<1> HIDE DEF r
<1>4. Typed(r)
  <2>1. Typed(NoRequest)
    BY FreshIs DEF Typed
  <2>2. VersionsOK(r) /\ ReadOK(r) /\ EndOK(r) /\ DOMAIN r = Fields
    BY <1>2, <2>1, SameParts
  <2>3. AskedOK(r)
    BY <1>1, <1>2, <1>3 DEF AskedOK
  <2> QED
    BY <2>2, <2>3 DEF Typed
<1>5. req' = StartRound(r, asked.libraries) /\ UNCHANGED <<table, local>>
  BY DEF Start, r
<1>6. TypeInv'
  <2>1. Typed(req')
    BY <1>1, <1>3, <1>4, <1>5, RoundType
  <2> QED
    BY <1>5, <2>1 DEF TypeInv
<1>7. /\ Apart(r, req', {"at", "todo", "cached", "picked", "missing", "data"})
      /\ req'.at = "versions" /\ req'.todo = asked.libraries \ DOMAIN r.resolved
      /\ req'.picked = <<>> /\ req'.missing = {} /\ req'.data = <<>>
  BY <1>4, <1>5, RoundStarts DEF Typed
<1> QED
  BY <1>2, <1>3, <1>5, <1>6, <1>7 DEF Apart, Fields

\* The data that a round reads.
LEMMA GatherStep ==
  ASSUME TypeInv, NEW missing \in SUBSET Lib, GatherData(missing)
  PROVE  /\ TypeInv' /\ UNCHANGED <<table, local>>
         /\ Apart(req, req', {"at", "missing", "resolved"})
         /\ req.at = "versions" /\ req'.at = "data" /\ req'.missing = missing
         /\ req'.resolved = Over(req.resolved, [q \in Found |-> req.picked[q]])
<1>1. /\ req.at = "versions" /\ DOMAIN req.picked = req.todo
      /\ \A q \in req.todo : req.picked[q] # NotFound
      /\ req' = [req EXCEPT !.at = "data", !.missing = missing,
                            !.resolved = Over(@, [q \in Found |-> req.picked[q]])]
      /\ UNCHANGED <<table, local>>
  BY DEF GatherData, Resolved
<1>2. /\ Apart(req, req', {"at", "missing", "resolved"})
      /\ req'.at = "data" /\ req'.missing = missing
      /\ req'.resolved = Over(req.resolved, [q \in Found |-> req.picked[q]])
  BY <1>1 DEF Apart, Fields, TypeInv, Typed
<1>3. /\ DOMAIN req' = Fields /\ req'.end = "none" /\ req'.layers = req.layers
      /\ req'.lapses = req.lapses
      /\ req'.extra = req.extra /\ req'.roots = req.roots /\ req'.using = req.using
      /\ req'.todo = req.todo /\ req'.queries = req.queries
      /\ req'.picked = req.picked /\ req'.versions = req.versions
      /\ req'.data = req.data /\ req'.items = req.items
  BY <1>1, <1>2, NotEnded DEF Apart, Fields
<1>4. AskedOK(req') /\ EndOK(req')
  BY <1>2, <1>3 DEF AskedOK, EndOK, TypeInv, Typed
<1>5. VersionsOK(req')
  <2>1. \A q \in Found : q \in Query /\ req.picked[q] \in Version
    BY <1>1 DEF Found, TypeInv, Typed, AskedOK, VersionsOK, IsPartial
  <2>2. IsPartial(req'.resolved, Query, Version)
    BY <1>2, <2>1 DEF Over, IsPartial, TypeInv, Typed, VersionsOK
  <2> QED
    BY <1>3, <2>2 DEF VersionsOK, TypeInv, Typed
<1>6. ReadOK(req')
  <2>1. DOMAIN req.data = {}
    BY <1>1 DEF TypeInv, Typed, AskedOK, ReadOK
  <2> QED
    BY <1>2, <1>3, <2>1 DEF ReadOK, TypeInv, Typed
<1> QED
  BY <1>1, <1>2, <1>3, <1>4, <1>5, <1>6 DEF TypeInv, Typed

\* The data of a library, read or not.
LEMMA DataType ==
  ASSUME TypeInv, NEW l \in Lib, Needed(l), NEW x, x = NoDoc \/ x \subseteq Query,
         UNCHANGED <<table, local>>, Apart(req, req', {"data", "lapses"}),
         req'.data = With(req.data, l, x), req'.lapses = req.lapses \/ Lapses("failure")
  PROVE  TypeInv'
<1>1. /\ DOMAIN req' = Fields /\ AskedOK(req') /\ VersionsOK(req')
  BY SameParts DEF TypeInv
<1>2. /\ req'.missing = req.missing /\ req'.items = req.items /\ req'.end = req.end
      /\ req'.at = req.at /\ req'.layers = req.layers
  BY DEF Apart, Fields
<1>3. ReadOK(req')
  BY <1>2 DEF ReadOK, With, TypeInv, Typed, Needed
<1>4. EndOK(req')
  <2>1. req.lapses \in Seq({"published", "deleted", "failure"})
    BY DEF TypeInv, Typed, EndOK
  <2>2. req'.lapses \in Seq({"published", "deleted", "failure"})
    BY <2>1, LapseIs DEF Lapses
  <2> QED
    BY <1>2, <2>2 DEF EndOK, TypeInv, Typed
<1> QED
  BY <1>1, <1>3, <1>4 DEF TypeInv, Typed

LEMMA DocType ==
  ASSUME NEW docs, IsTable(docs), NEW l \in Lib
  PROVE  docs[l] = NoDoc \/ docs[l] \subseteq Query
<1>1. l[1] \in Package
  BY LoadingGraphAssumption
<1>2. Dependencies[l[1]] \in SUBSET SUBSET Query
  BY <1>1, LoadingGraphAssumption
<1> QED
  BY <1>2 DEF IsTable

LEMMA GetDataStep ==
  ASSUME TypeInv, NEW l \in Lib, GetData(l)
  PROVE  /\ TypeInv' /\ UNCHANGED <<table, local>> /\ Apart(req, req', {"data"})
         /\ l \in req.missing /\ req.at = "data"
         /\ req'.data = With(req.data, l,
                             IF req.extra[l] # NoDoc THEN req.extra[l] ELSE table[l])
<1> DEFINE x == IF req.extra[l] # NoDoc THEN req.extra[l] ELSE table[l]
<1>1. x = NoDoc \/ x \subseteq Query
  BY DocType DEF TypeInv, Typed, AskedOK
<1>2. Needed(l) /\ req' = [req EXCEPT !.data = With(@, l, x)] /\ UNCHANGED <<table, local>>
  BY DEF GetData
<1> HIDE DEF x
<1>3. /\ Apart(req, req', {"data"}) /\ Apart(req, req', {"data", "lapses"})
      /\ req'.data = With(req.data, l, x) /\ req'.lapses = req.lapses
  BY <1>2 DEF Apart, Fields, TypeInv, Typed
<1>4. TypeInv'
  BY <1>1, <1>2, <1>3, DataType
<1> QED
  BY <1>2, <1>3, <1>4 DEF Needed, x

LEMMA GetDataFailsStep ==
  ASSUME TypeInv, NEW l \in Lib, GetDataFails(l)
  PROVE  /\ TypeInv' /\ UNCHANGED <<table, local>> /\ Lapses("failure")
         /\ req'.end = req.end
<1>1. /\ Needed(l) /\ UNCHANGED <<table, local>>
      /\ req' = [req EXCEPT !.data = With(@, l, NoDoc), !.lapses = Append(@, "failure")]
  BY DEF GetDataFails
<1>2. /\ Apart(req, req', {"data", "lapses"})
      /\ req'.data = With(req.data, l, NoDoc) /\ Lapses("failure")
  BY <1>1 DEF Apart, Fields, TypeInv, Typed, Lapses
<1>3. TypeInv'
  BY <1>1, <1>2, DataType
<1> QED
  BY <1>1, <1>2, <1>3 DEF Apart, Fields

\* The items of what was read, under their symbols.
Read(got) == [s \in {SymbolOf(l) : l \in got} |->
                [lib  |-> CHOOSE l \in got : SymbolOf(l) = s,
                 deps |-> req.data[CHOOSE l \in got : SymbolOf(l) = s]]]

LEMMA SymbolIn ==
  ASSUME NEW l \in Lib
  PROVE  SymbolOf(l) \in Symbol
<1>1. l[1] \in Package /\ l[2] \in Version
  BY LoadingGraphAssumption
<1> QED
  BY <1>1 DEF SymbolOf, Symbol, ApiKey

LEMMA ReadType ==
  ASSUME TypeInv, NEW got \in SUBSET DOMAIN req.data, \A l \in got : req.data[l] # NoDoc
  PROVE  /\ IsPartial(Read(got), Symbol, [lib : got, deps : SUBSET Query])
         /\ \A s \in DOMAIN Read(got) : SymbolOf(Read(got)[s].lib) = s
         /\ UNION {req.data[l] : l \in got} \in SUBSET Query
<1>1. \A l \in got : l \in Lib /\ req.data[l] \subseteq Query /\ SymbolOf(l) \in Symbol
  BY SymbolIn DEF TypeInv, Typed, ReadOK
<1>2. ASSUME NEW s \in DOMAIN Read(got)
      PROVE  /\ s \in Symbol /\ Read(got)[s] \in [lib : got, deps : SUBSET Query]
             /\ SymbolOf(Read(got)[s].lib) = s
  <2>1. \E l \in got : SymbolOf(l) = s
    BY DEF Read
  <2>2. PICK l \in got : l = CHOOSE m \in got : SymbolOf(m) = s
    BY <2>1
  <2>3. SymbolOf(l) = s
    BY <2>1, <2>2
  <2>4. Read(got)[s] = [lib |-> l, deps |-> req.data[l]]
    BY <2>2 DEF Read
  <2> QED
    BY <1>1, <2>3, <2>4
<1> QED
  BY <1>1, <1>2 DEF IsPartial

LEMMA NextRoundStep ==
  ASSUME TypeInv, NextRound
  PROVE  /\ TypeInv' /\ UNCHANGED <<table, local>> /\ req.at = "data"
         /\ DOMAIN req.data = req.missing
         /\ Apart(req, req', {"queries", "items", "at", "todo", "cached", "picked", "missing",
                              "data"})
         /\ req'.at = "versions" /\ req'.missing = {} /\ req'.picked = <<>>
         /\ req'.data = <<>> /\ req'.items = Over(req.items, Read(Got))
         /\ LET queries == UNION {req.data[l] : l \in Got}
            IN  /\ req'.queries = req.queries \cup queries
                /\ req'.todo = queries \ DOMAIN req.resolved
<1> DEFINE queries == UNION {req.data[l] : l \in Got}
           r == [req EXCEPT !.queries = @ \cup queries, !.items = Over(@, Read(Got))]
<1>1. /\ req.at = "data" /\ DOMAIN req.data = req.missing
      /\ req' = StartRound(r, queries) /\ UNCHANGED <<table, local>>
  BY DEF NextRound, HasData, RoundAfter, Read
<1>2. /\ IsPartial(Read(Got), Symbol, [lib : Got, deps : SUBSET Query])
      /\ \A s \in DOMAIN Read(Got) : SymbolOf(Read(Got)[s].lib) = s
      /\ queries \in SUBSET Query /\ Got \subseteq Lib
  <2>1. Got \in SUBSET DOMAIN req.data /\ \A l \in Got : req.data[l] # NoDoc
    BY <1>1 DEF Got
  <2>2. Got \subseteq Lib
    BY DEF Got, TypeInv, Typed, ReadOK
  <2> QED
    BY <2>1, <2>2, ReadType
<1> HIDE DEF queries
<1>3. /\ Apart(req, r, {"queries", "items"})
      /\ r.queries = req.queries \cup queries /\ r.items = Over(req.items, Read(Got))
  BY DEF Apart, Fields, TypeInv, Typed
<1> HIDE DEF r
<1>4. Typed(r) /\ r.end = "none"
  <2>1. Typed(req) /\ req.end = "none"
    BY <1>1, NotEnded DEF TypeInv
  <2>2. DOMAIN r = Fields /\ VersionsOK(r) /\ EndOK(r)
    BY <1>3, <2>1, SameParts
  <2>3. /\ r.at = req.at /\ r.extra = req.extra /\ r.roots = req.roots /\ r.using = req.using
        /\ r.todo = req.todo /\ r.missing = req.missing /\ r.data = req.data /\ r.end = req.end
    BY <1>3 DEF Apart, Fields
  <2>4. AskedOK(r)
    BY <1>2, <1>3, <2>1, <2>3 DEF Typed, AskedOK
  <2>5. ReadOK(r)
    <3>1. /\ IsPartial(r.items, Symbol, [lib : Lib, deps : SUBSET Query])
          /\ \A s \in DOMAIN r.items : SymbolOf(r.items[s].lib) = s
      BY <1>2, <1>3, <2>1 DEF Over, IsPartial, Typed, ReadOK
    <3> QED
      BY <2>1, <2>3, <3>1 DEF Typed, ReadOK
  <2> QED
    BY <2>1, <2>2, <2>3, <2>4, <2>5 DEF Typed
<1>5. TypeInv'
  <2>1. Typed(req')
    BY <1>1, <1>2, <1>4, RoundType
  <2> QED
    BY <1>1, <2>1 DEF TypeInv
<1>6. /\ Apart(r, req', {"at", "todo", "cached", "picked", "missing", "data"})
      /\ req'.at = "versions" /\ req'.picked = <<>> /\ req'.missing = {} /\ req'.data = <<>>
      /\ req'.todo = queries \ DOMAIN r.resolved
  BY <1>1, <1>4, RoundStarts DEF Typed
<1>7. /\ Apart(req, req', {"queries", "items", "at", "todo", "cached", "picked", "missing",
                           "data"})
      /\ req'.items = Over(req.items, Read(Got)) /\ req'.queries = req.queries \cup queries
      /\ req'.todo = queries \ DOMAIN req.resolved
  BY <1>3, <1>6 DEF Apart, Fields
<1> QED
  BY <1>1, <1>5, <1>6, <1>7 DEF queries

Ended == {"at", "todo", "cached", "picked", "versions", "end", "layers"}

LEMMA FinishStep ==
  ASSUME TypeInv, NEW end \in {"graph", "dependencies", "circular", "failed"},
         NEW layers \in Seq(SUBSET Lib), Finish(end, layers), UNCHANGED <<table, local>>
  PROVE  /\ TypeInv' /\ Apart(req, req', Ended)
         /\ req'.at = "done" /\ req'.end = end /\ req'.layers = layers
<1>1. req' = [req EXCEPT !.at = "done", !.todo = {}, !.cached = {}, !.picked = <<>>,
                         !.versions = <<>>, !.end = end, !.layers = layers]
  BY DEF Finish
<1>2. /\ Apart(req, req', Ended)
      /\ req'.at = "done" /\ req'.todo = {} /\ req'.picked = <<>> /\ req'.versions = <<>>
      /\ req'.end = end /\ req'.layers = layers
  BY <1>1 DEF Apart, Ended, Fields, TypeInv, Typed
<1>3. /\ DOMAIN req' = Fields /\ req'.extra = req.extra /\ req'.roots = req.roots
      /\ req'.using = req.using /\ req'.queries = req.queries /\ req'.resolved = req.resolved
      /\ req'.lapses = req.lapses
  BY <1>2 DEF Apart, Ended, Fields
<1>4. ReadOK(req')
  BY <1>2, SameParts DEF Ended, TypeInv
<1>5. AskedOK(req')
  BY <1>2, <1>3 DEF AskedOK, TypeInv, Typed
<1>6. VersionsOK(req')
  BY <1>2, <1>3 DEF VersionsOK, IsPartial, TypeInv, Typed
<1>7. EndOK(req')
  BY <1>2, <1>3 DEF EndOK, TypeInv, Typed
<1> QED
  BY <1>2, <1>3, <1>4, <1>5, <1>6, <1>7 DEF TypeInv, Typed

\* The libraries read are finitely many.
LEMMA FewItems ==
  ASSUME TypeInv
  PROVE  IsFiniteSet(DOMAIN req.items)
<1> DEFINE symbols == {SymbolOf(l) : l \in Lib}
           f == [l \in Lib |-> SymbolOf(l)]
<1>1. IsFiniteSet(symbols)
  <2>1. f \in Surjection(Lib, symbols)
    BY DEF Surjection
  <2> HIDE DEF f, symbols
  <2> QED
    BY <2>1, FS_Surjection, LoadingGraphAssumption
<1>2. \A s \in DOMAIN req.items : req.items[s].lib \in Lib /\ SymbolOf(req.items[s].lib) = s
  BY DEF TypeInv, Typed, ReadOK, IsPartial
<1>3. DOMAIN req.items \subseteq symbols
  BY <1>2
<1> HIDE DEF symbols
<1> QED
  BY <1>1, <1>3, FS_Subset

\* What the client is told.
Told(layers) == [i \in DOMAIN layers |-> {req.items[s].lib : s \in layers[i]}]

LEMMA ToldType ==
  ASSUME TypeInv, NEW layers \in Seq(SUBSET DOMAIN req.items)
  PROVE  /\ DOMAIN layers = 1..Len(layers) /\ Len(layers) \in Nat
         /\ Told(layers) \in Seq(SUBSET Lib)
<1>1. DOMAIN layers = 1..Len(layers) /\ Len(layers) \in Nat
  OBVIOUS
<1>2. ASSUME NEW i \in 1..Len(layers) PROVE Told(layers)[i] \in SUBSET Lib
  <2>1. layers[i] \in SUBSET DOMAIN req.items
    BY <1>1, <1>2
  <2>2. \A s \in layers[i] : req.items[s].lib \in Lib
    BY <2>1 DEF TypeInv, Typed, ReadOK, IsPartial
  <2> QED
    BY <1>1, <2>2 DEF Told
<1>3. Told(layers) = [i \in 1..Len(layers) |-> Told(layers)[i]]
  BY <1>1 DEF Told
<1>4. Told(layers) \in [1..Len(layers) -> SUBSET Lib]
  BY <1>2, <1>3
<1> QED
  BY <1>1, <1>4, SeqDef

LEMMA LayersStep ==
  ASSUME TypeInv, Layers
  PROVE  /\ TypeInv' /\ UNCHANGED <<table, local>> /\ req.at = "data" /\ req.missing = {}
         /\ Apart(req, req', Ended)
         /\ req'.end = "graph" => /\ req'.layers = Told(LayersOf(req.items))
                                  /\ UNION ToSet(LayersOf(req.items)) = DOMAIN req.items
<1> DEFINE layers == LayersOf(req.items)
<1>1. layers \in Seq(SUBSET DOMAIN req.items)
  BY FewItems, LayersOrdered DEF Ordered
<1>2. /\ req.at = "data" /\ req.missing = {} /\ UNCHANGED <<table, local>>
      /\ \/ Finish("failed", <<>>)
         \/ Finish("circular", <<>>)
         \/ UNION ToSet(layers) = DOMAIN req.items /\ Finish("graph", Told(layers))
  BY DEF Layers, Told
<1> HIDE DEF layers
<1>3. <<>> \in Seq(SUBSET Lib) /\ Told(layers) \in Seq(SUBSET Lib)
  BY <1>1, ToldType
<1>4. CASE Finish("failed", <<>>)
  <2>1. TypeInv' /\ Apart(req, req', Ended) /\ req'.end = "failed"
    BY <1>2, <1>3, <1>4, FinishStep
  <2> QED
    BY <1>2, <2>1
<1>5. CASE Finish("circular", <<>>)
  <2>1. TypeInv' /\ Apart(req, req', Ended) /\ req'.end = "circular"
    BY <1>2, <1>3, <1>5, FinishStep
  <2> QED
    BY <1>2, <2>1
<1>6. CASE UNION ToSet(layers) = DOMAIN req.items /\ Finish("graph", Told(layers))
  <2>1. TypeInv' /\ Apart(req, req', Ended) /\ req'.layers = Told(layers)
    BY <1>2, <1>3, <1>6, FinishStep
  <2> QED
    BY <1>2, <1>6, <2>1 DEF layers
<1> QED
  BY <1>2, <1>4, <1>5, <1>6

LEMMA DependenciesErrorStep ==
  ASSUME TypeInv, DependenciesError
  PROVE  /\ TypeInv' /\ UNCHANGED <<table, local>> /\ req'.end = "dependencies"
<1>1. Finish("dependencies", <<>>) /\ UNCHANGED <<table, local>> /\ <<>> \in Seq(SUBSET Lib)
  BY DEF DependenciesError
<1> QED
  BY <1>1, FinishStep

LEMMA AgainStep ==
  ASSUME TypeInv, Again
  PROVE  TypeInv' /\ req' = NoRequest /\ UNCHANGED <<table, local>>
<1>1. req' = NoRequest /\ UNCHANGED <<table, local>>
  BY DEF Again
<1> QED
  BY <1>1, FreshIs DEF TypeInv, Typed

\* What the other clients do.
LEMMA ChangesStep ==
  ASSUME TypeInv, NEW lapse \in {"published", "deleted"}, Changes(lapse)
  PROVE  /\ Typed(req') /\ req'.end = req.end
         /\ \/ req.at = "idle" /\ req' = req
            \/ req.at \in {"versions", "data"} /\ Apart(req, req', {"lapses"}) /\ Lapses(lapse)
<1>1. CASE req.at = "idle"
  BY <1>1 DEF Changes, TypeInv
<1>2. CASE req.at # "idle"
  <2>1. req.at \in {"versions", "data"} /\ req' = [req EXCEPT !.lapses = Append(@, lapse)]
    BY <1>2 DEF Changes
  <2>2. Apart(req, req', {"lapses"}) /\ Lapses(lapse)
    BY <2>1 DEF Apart, Fields, Lapses, TypeInv, Typed
  <2>3. DOMAIN req' = Fields /\ AskedOK(req') /\ VersionsOK(req') /\ ReadOK(req')
    BY <2>2, SameParts DEF TypeInv
  <2>4. req'.end = req.end /\ req'.at = req.at /\ req'.layers = req.layers
    BY <2>2 DEF Apart, Fields
  <2>5. EndOK(req')
    <3>1. req.lapses \in Seq({"published", "deleted", "failure"})
      BY DEF TypeInv, Typed, EndOK
    <3>2. req'.lapses \in Seq({"published", "deleted", "failure"})
      BY <2>2, <3>1, LapseIs DEF Lapses
    <3> QED
      BY <2>4, <3>2 DEF EndOK, TypeInv, Typed
  <2> QED
    BY <2>1, <2>2, <2>3, <2>4, <2>5 DEF Typed
<1> QED
  BY <1>1, <1>2

LEMMA PublishStep ==
  ASSUME TypeInv, NEW l \in Lib, NEW deps \in Dependencies[l[1]], Publish(l, deps)
  PROVE  /\ TypeInv' /\ Changes("published") /\ deps # NoDoc
         /\ table' = [table EXCEPT ![l] = deps]
<1>1. Changes("published") /\ table' = [table EXCEPT ![l] = deps] /\ local' = local
  BY DEF Publish
<1>2. IsTable(table') /\ IsTable(local')
  BY <1>1 DEF IsTable, TypeInv
<1>3. deps # NoDoc
  <2>1. l[1] \in Package
    BY LoadingGraphAssumption
  <2> QED
    BY <2>1, LoadingGraphAssumption
<1> QED
  BY <1>1, <1>2, <1>3, ChangesStep DEF TypeInv

LEMMA PublishLocalStep ==
  ASSUME TypeInv, NEW l \in Lib, NEW deps \in Dependencies[l[1]], PublishLocal(l, deps)
  PROVE  TypeInv' /\ req' = req /\ req.at = "idle"
<1>1. req.at = "idle" /\ local' = [local EXCEPT ![l] = deps] /\ UNCHANGED <<table, req>>
  BY DEF PublishLocal
<1>2. IsTable(local')
  BY <1>1 DEF IsTable, TypeInv
<1> QED
  BY <1>1, <1>2 DEF TypeInv

LEMMA DeleteStep ==
  ASSUME TypeInv, NEW l \in Lib, DeleteVersion(l)
  PROVE  TypeInv' /\ Changes("deleted")
<1>1. Changes("deleted") /\ table' = [table EXCEPT ![l] = NoDoc] /\ local' = local
  BY DEF DeleteVersion
<1>2. IsTable(table') /\ IsTable(local')
  BY <1>1 DEF IsTable, TypeInv
<1> QED
  BY <1>1, <1>2, ChangesStep DEF TypeInv

LEMMA ResolveType ==
  ASSUME TypeInv, NEW q \in Query,
         ResolveMalformed(q) \/ ResolveListed(q) \/ ResolveCached(q) \/ ListFails(q)
  PROVE  TypeInv' /\ req'.end = "none"
<1>1. TypeInv'
  <2>1. CASE ResolveMalformed(q)
    BY <2>1, MalformedStep, ResolvesType
  <2>2. CASE ResolveListed(q)
    BY <2>2, ListedStep, ResolvesType
  <2>3. CASE ResolveCached(q)
    BY <2>3, CachedStep, ResolvesType
  <2>4. CASE ListFails(q)
    BY <2>4, ListFailsStep, ResolvesType
  <2> QED
    BY <2>1, <2>2, <2>3, <2>4
<1>2. \E v : Resolves(q, v)
  BY MalformedStep, ListedStep, CachedStep, ListFailsStep
<1> QED
  BY <1>1, <1>2, NotEnded DEF Resolves, Apart, Fields

LEMMA TypeStep ==
  ASSUME TypeInv, [Next]_vars
  PROVE  TypeInv'
<1>1. ASSUME NEW asked \in Requests, Start(asked) PROVE TypeInv'
  BY <1>1, StartStep
<1>2. CASE Step
  <2>1. ASSUME NEW q \in req.todo,
               ResolveMalformed(q) \/ ResolveListed(q) \/ ResolveCached(q) \/ ListFails(q)
        PROVE  TypeInv'
    <3>1. q \in Query
      BY DEF TypeInv, Typed, AskedOK
    <3> QED
      BY <2>1, <3>1, ResolveType
  <2>2. CASE DependenciesError
    BY <2>2, DependenciesErrorStep
  <2>3. ASSUME NEW missing \in SUBSET Lib, GatherData(missing) PROVE TypeInv'
    BY <2>3, GatherStep
  <2>4. ASSUME NEW l \in req.missing, GetData(l) \/ GetDataFails(l) PROVE TypeInv'
    <3>1. l \in Lib
      BY DEF TypeInv, Typed, ReadOK
    <3> QED
      BY <2>4, <3>1, GetDataStep, GetDataFailsStep
  <2>5. CASE NextRound
    BY <2>5, NextRoundStep
  <2>6. CASE Layers
    BY <2>6, LayersStep
  <2> QED
    BY <1>2, <2>1, <2>2, <2>3, <2>4, <2>5, <2>6 DEF Step
<1>3. CASE Again
  BY <1>3, AgainStep
<1>4. ASSUME NEW l \in Lib, NEW deps \in Dependencies[l[1]],
             Publish(l, deps) \/ PublishLocal(l, deps)
      PROVE  TypeInv'
  BY <1>4, PublishStep, PublishLocalStep
<1>5. ASSUME NEW l \in Lib, DeleteVersion(l) PROVE TypeInv'
  BY <1>5, DeleteStep
<1>6. CASE UNCHANGED vars
  BY <1>6 DEF vars, TypeInv
<1> QED
  BY <1>1, <1>2, <1>3, <1>4, <1>5, <1>6 DEF Next

LEMMA TypeInvariant ==
  Spec => []TypeInv
<1>1. Init => TypeInv
  BY InitType
<1>2. TypeInv /\ [Next]_vars => TypeInv'
  BY TypeStep
<1> QED
  BY <1>1, <1>2, PTL DEF Spec

\* The tables and the request always have the types of the model: the libraries of
\* items_dict are under the symbols they export, and what is told is libraries.
THEOREM TypeCorrect ==
  Spec => []TypeOK
<1>1. TypeInv => TypeOK
  BY TypeInvType
<1> QED
  BY <1>1, TypeInvariant, PTL

-----------------------------------------------------------------------------
(* The order of the layers *)

\* What the client has been told does not change, nor the tables until it asks again.
LEMMA GraphStep ==
  ASSUME TypeInv, [Next]_vars, req'.end = "graph"
  PROVE  UNCHANGED vars \/ Layers
<1>1. ASSUME NEW asked \in Requests, Start(asked) PROVE FALSE
  BY <1>1, StartStep
<1>2. ASSUME Step PROVE Layers
  <2>1. ASSUME NEW q \in req.todo,
               ResolveMalformed(q) \/ ResolveListed(q) \/ ResolveCached(q) \/ ListFails(q)
        PROVE  FALSE
    <3>1. q \in Query
      BY DEF TypeInv, Typed, AskedOK
    <3> QED
      BY <2>1, <3>1, ResolveType
  <2>2. ASSUME DependenciesError PROVE FALSE
    BY <2>2, DependenciesErrorStep
  <2>3. ASSUME NEW missing \in SUBSET Lib, GatherData(missing) PROVE FALSE
    BY <2>3, GatherStep, NotEnded DEF Apart, Fields
  <2>4. ASSUME NEW l \in req.missing, GetData(l) \/ GetDataFails(l) PROVE FALSE
    <3>1. l \in Lib /\ req.end = "none"
      BY <2>4, NotEnded DEF TypeInv, Typed, ReadOK, GetData, GetDataFails, Needed
    <3> QED
      BY <2>4, <3>1, GetDataStep, GetDataFailsStep DEF Apart, Fields
  <2>5. ASSUME NextRound PROVE FALSE
    BY <2>5, NextRoundStep, NotEnded DEF Apart, Fields
  <2> QED
    BY <1>2, <2>1, <2>2, <2>3, <2>4, <2>5 DEF Step
<1>3. ASSUME Again PROVE FALSE
  BY <1>3, AgainStep DEF NoRequest
<1>4. ASSUME NEW lapse \in {"published", "deleted"}, Changes(lapse) PROVE FALSE
  BY <1>4, ChangesStep, NotEnded
<1>5. ASSUME NEW l \in Lib, NEW deps \in Dependencies[l[1]],
             Publish(l, deps) \/ PublishLocal(l, deps)
      PROVE  FALSE
  BY <1>4, <1>5, PublishStep, PublishLocalStep, NotEnded
<1>6. ASSUME NEW l \in Lib, DeleteVersion(l) PROVE FALSE
  BY <1>4, <1>6, DeleteStep
<1> QED
  BY <1>1, <1>2, <1>3, <1>5, <1>6 DEF Next

LEMMA LayersFirst ==
  ASSUME TypeInv, Layers
  PROVE  DependenciesFirst'
<1> DEFINE layers == LayersOf(req.items)
<1>1. Ordered(layers, req.items, {})
  BY FewItems, LayersOrdered
<1>2. Apart(req, req', Ended)
  BY LayersStep
<1>3. ASSUME req'.end = "graph",
             NEW i \in DOMAIN req'.layers, NEW x \in req'.layers[i],
             NEW q \in req'.items[SymbolOf(x)].deps
      PROVE  \E j \in 1..(i - 1) :
               SymbolFor(q)' \in {SymbolOf(l) : l \in req'.layers[j]}
  <2>1. req'.layers = Told(layers)
    BY <1>3, LayersStep
  <2>2. req'.items = req.items /\ req'.resolved = req.resolved
    BY <1>2 DEF Apart, Ended, Fields
  <2>3. layers \in Seq(SUBSET DOMAIN req.items)
    BY <1>1 DEF Ordered
  <2> HIDE DEF layers
  <2>4. /\ DOMAIN layers = 1..Len(layers) /\ Len(layers) \in Nat
        /\ i \in DOMAIN layers /\ \A j \in DOMAIN layers : layers[j] \subseteq DOMAIN req.items
    BY <2>1, <2>3, ToldType, <1>3 DEF Told
  <2>5. PICK s \in layers[i] : x = req.items[s].lib
    BY <2>1, <2>4, <1>3 DEF Told
  <2>6. \A t \in DOMAIN req.items : SymbolOf(req.items[t].lib) = t
    BY DEF TypeInv, Typed, ReadOK
  <2>7. q \in req.items[s].deps
    BY <1>3, <2>2, <2>4, <2>5, <2>6
  <2>8. PICK j \in 1..(i - 1) : SymbolFor(q) \in layers[j]
    BY <1>1, <2>4, <2>7 DEF Ordered
  <2>9. j \in DOMAIN layers /\ SymbolFor(q) \in DOMAIN req.items
    BY <2>4, <2>8
  <2>10. SymbolFor(q) \in {SymbolOf(l) : l \in Told(layers)[j]}
    BY <2>6, <2>8, <2>9 DEF Told
  <2>11. SymbolFor(q)' = SymbolFor(q)
    BY <2>2 DEF SymbolFor
  <2> QED
    BY <2>1, <2>8, <2>10, <2>11
<1> QED
  BY <1>3 DEF DependenciesFirst

\* What the client is told to load can be loaded in the order of the layers: what a
\* library depends on is in an earlier layer, whatever the graph, the versions and
\* what others publish, delete or fail to answer meanwhile.
THEOREM LayersCanBeLoaded ==
  Spec => []DependenciesFirst
<1>1. Init => DependenciesFirst
  BY DEF Init, NoRequest, DependenciesFirst
<1>2. TypeInv /\ DependenciesFirst /\ [Next]_vars => DependenciesFirst'
  <2> SUFFICES ASSUME TypeInv, DependenciesFirst, [Next]_vars, req'.end = "graph"
               PROVE  DependenciesFirst'
    BY DEF DependenciesFirst
  <2>1. CASE Layers
    BY <2>1, LayersFirst
  <2>2. CASE UNCHANGED vars
    BY <2>2 DEF vars, DependenciesFirst, SymbolFor
  <2> QED
    BY <2>1, <2>2, GraphStep
<1> QED
  BY <1>1, <1>2, TypeInvariant, PTL DEF Spec

-----------------------------------------------------------------------------
(* The answer *)

\* Others have published at most.
Quiet == ToSet(req.lapses) \subseteq {"published"}

There(l) == table[l] # NoDoc \/ req.extra[l] # NoDoc

\* A published version that answers the query.
Good(q, v) == <<q[1], v>> \in Lib /\ There(<<q[1], v>>) /\ Meets(q, v)

VersionsStand == \A p \in DOMAIN req.versions : \A v \in req.versions[p].known : There(<<p, v>>)

PickedStand ==
  \A q \in DOMAIN req.picked :
    \/ req.picked[q] = NotFound
    \/ req.picked[q] = Raised /\ SpecOf(q) = Malformed
    \/ req.picked[q] # Raised /\ Good(q, req.picked[q])

\* A query that was resolved has its symbol among the libraries read, or being read.
ResolvedStand ==
  \A q \in DOMAIN req.resolved :
    /\ Good(q, req.resolved[q])
    /\ SymbolFor(q) \in DOMAIN req.items \cup {SymbolOf(l) : l \in req.missing}

RootsStand ==
  \A q \in req.roots :
    \/ SpecOf(q) = Malformed \/ q \in DOMAIN req.resolved
    \/ req.at = "versions" /\ q \in req.todo

ReadStand ==
  /\ \A l \in req.missing : There(l)
  /\ \A l \in DOMAIN req.data : req.data[l] # NoDoc
  /\ \A s \in DOMAIN req.items : There(req.items[s].lib)

Stands == VersionsStand /\ PickedStand /\ ResolvedStand /\ RootsStand /\ ReadStand

\* All that was read is told.
AllTold ==
  req.end = "graph" =>
    req.missing = {} /\ \A s \in DOMAIN req.items : req.items[s].lib \in Delivered

AnswerInv ==
  /\ Quiet /\ req.at # "idle" /\ req.end # "dependencies" => Stands
  /\ AllTold

LEMMA AnswerInvAnswers ==
  ASSUME TypeInv, AnswerInv
  PROVE  Answered
<1> SUFFICES ASSUME req.end = "graph", Quiet, NEW q \in req.roots, SpecOf(q) # Malformed
             PROVE  \E l \in Delivered :
                      /\ q[1] = l[1] /\ (table[l] # NoDoc \/ req.extra[l] # NoDoc)
                      /\ \E v \in Version : Api[v] = Api[l[2]] /\ Fits(q, v)
  BY DEF Answered, Quiet
<1>1. Stands /\ AllTold /\ req.at = "done"
  BY DEF AnswerInv, TypeInv, Typed, EndOK
<1>2. q \in DOMAIN req.resolved
  BY <1>1 DEF Stands, RootsStand
<1>3. SymbolFor(q) \in DOMAIN req.items /\ Meets(q, req.resolved[q])
  BY <1>1, <1>2 DEF Stands, ResolvedStand, AllTold, Good
<1> DEFINE l == req.items[SymbolFor(q)].lib
<1>4. l \in Delivered /\ There(l) /\ SymbolOf(l) = SymbolFor(q)
  BY <1>1, <1>3 DEF Stands, ReadStand, AllTold, TypeInv, Typed, ReadOK
<1> HIDE DEF l
<1>5. l[1] = q[1] /\ Api[l[2]] = Api[req.resolved[q]]
  BY <1>4 DEF SymbolOf, SymbolFor
<1> QED
  BY <1>3, <1>4, <1>5 DEF Meets, There

\* What stands does as long as nothing is deleted and the request asks the same.
LEMMA SpecStays ==
  ASSUME req'.using = req.using
  PROVE  /\ \A q : SpecOf(q)' = SpecOf(q)
         /\ \A q, v : Meets(q, v)' = Meets(q, v)
BY DEF SpecOf, Meets, Fits

Stay == req'.using = req.using /\ req'.extra = req.extra
        /\ \A l \in Lib : table[l] # NoDoc => table'[l] # NoDoc

LEMMA GoodStays ==
  ASSUME Stay
  PROVE  /\ \A l \in Lib : There(l) => There(l)'
         /\ \A q, v : Good(q, v) => Good(q, v)'
<1>1. \A l \in Lib : There(l) => There(l)'
  BY DEF Stay, There
<1>2. \A q, v : Meets(q, v)' = Meets(q, v)
  BY SpecStays DEF Stay
<1>3. ASSUME NEW q, NEW v, Good(q, v) PROVE Good(q, v)'
  BY <1>1, <1>2, <1>3 DEF Good
<1> QED
  BY <1>1, <1>3

LEMMA VersionsStay ==
  ASSUME TypeInv, Stay, VersionsStand, req'.versions = req.versions
  PROVE  VersionsStand'
BY GoodStays DEF VersionsStand, TypeInv, Typed, VersionsOK

LEMMA PickedStay ==
  ASSUME TypeInv, Stay, PickedStand, req'.picked = req.picked
  PROVE  PickedStand'
BY GoodStays, SpecStays DEF PickedStand, Stay

LEMMA ResolvedStay ==
  ASSUME TypeInv, Stay, ResolvedStand, req'.resolved = req.resolved,
         DOMAIN req.items \cup {SymbolOf(l) : l \in req.missing}
           \subseteq DOMAIN req'.items \cup {SymbolOf(l) : l \in req'.missing}
  PROVE  ResolvedStand'
<1>1. ASSUME NEW q \in DOMAIN req.resolved
      PROVE  /\ Good(q, req.resolved[q])'
             /\ SymbolFor(q)' \in DOMAIN req'.items \cup {SymbolOf(l) : l \in req'.missing}
  <2>1. Good(q, req.resolved[q]) /\ SymbolFor(q)' = SymbolFor(q)
    BY DEF ResolvedStand, SymbolFor
  <2>2. SymbolFor(q) \in DOMAIN req.items \cup {SymbolOf(l) : l \in req.missing}
    BY DEF ResolvedStand
  <2>3. Good(q, req.resolved[q])'
    <3>1. PICK v : v = req.resolved[q]
      OBVIOUS
    <3>2. Good(q, v)'
      BY <2>1, <3>1, GoodStays
    <3>3. v = req'.resolved[q]
      BY <3>1
    <3> QED
      BY <3>2, <3>3
  <2> QED
    BY <2>1, <2>2, <2>3
<1> QED
  BY <1>1 DEF ResolvedStand

LEMMA ReadStay ==
  ASSUME TypeInv, Stay, ReadStand, req'.missing \subseteq req.missing, req'.data = req.data,
         req'.items = req.items
  PROVE  ReadStand'
<1>1. req.missing \subseteq Lib /\ \A s \in DOMAIN req.items : req.items[s].lib \in Lib
  BY DEF TypeInv, Typed, ReadOK, IsPartial
<1>2. \A l \in req'.missing : There(l)'
  BY <1>1, GoodStays DEF ReadStand
<1>3. \A s \in DOMAIN req.items : There(req.items[s].lib)'
  <2> SUFFICES ASSUME NEW s \in DOMAIN req.items PROVE There(req.items[s].lib)'
    OBVIOUS
  <2>1. PICK l \in Lib : l = req.items[s].lib
    BY <1>1
  <2>2. There(l)'
    BY <2>1, GoodStays DEF ReadStand
  <2>3. l = req'.items[s].lib
    BY <2>1
  <2> QED
    BY <2>2, <2>3
<1> QED
  BY <1>2, <1>3 DEF ReadStand

\* A query that is resolved to a version that answers it.
LEMMA ResolvesStand ==
  ASSUME TypeInv, Stands, NEW q \in Query, NEW v, NEW listed, Resolves(q, v), Lists(q[1], listed),
         \A w \in listed.known : There(<<q[1], w>>),
         \/ v = NotFound
         \/ v = Raised /\ SpecOf(q) = Malformed
         \/ v # Raised /\ Good(q, v)
  PROVE  Stands'
<1>1. /\ Stay /\ req'.picked = With(req.picked, q, v) /\ req'.at = req.at
      /\ req'.resolved = req.resolved /\ req'.items = req.items /\ req'.missing = req.missing
      /\ req'.data = req.data /\ req'.roots = req.roots /\ req'.todo = req.todo
  BY DEF Resolves, Apart, Fields, Stay
<1>2. VersionsStand'
  <2>1. CASE req'.versions = req.versions
    BY <1>1, <2>1, VersionsStay DEF Stands
  <2>2. CASE req'.versions = With(req.versions, q[1], listed)
    <3>1. ASSUME NEW p \in DOMAIN req'.versions, NEW w \in req'.versions[p].known
          PROVE  <<p, w>> \in Lib /\ There(<<p, w>>)
      <4>1. CASE p = q[1]
        <5>1. req'.versions[p] = listed
          BY <2>2, <4>1 DEF With
        <5> QED
          BY <3>1, <4>1, <5>1 DEF Lists, IsListed
      <4>2. CASE p # q[1]
        <5>1. p \in DOMAIN req.versions /\ req'.versions[p] = req.versions[p]
          BY <2>2, <4>2 DEF With
        <5> QED
          BY <3>1, <5>1 DEF Stands, VersionsStand, TypeInv, Typed, VersionsOK
      <4> QED
        BY <4>1, <4>2
    <3> QED
      BY <1>1, <3>1, GoodStays DEF VersionsStand
  <2> QED
    BY <2>1, <2>2 DEF Lists
<1>3. PickedStand'
  <2>1. ASSUME NEW r \in DOMAIN req'.picked
        PROVE  \/ req'.picked[r] = NotFound
               \/ req'.picked[r] = Raised /\ SpecOf(r)' = Malformed
               \/ req'.picked[r] # Raised /\ Good(r, req.picked[r])'
    <3>1. PICK w : w = req'.picked[r]
      OBVIOUS
    <3>2. w = NotFound \/ (w = Raised /\ SpecOf(r) = Malformed) \/ (w # Raised /\ Good(r, w))
      BY <1>1, <2>1, <3>1 DEF With, Stands, PickedStand
    <3>3. Good(r, w) => Good(r, w)'
      BY <1>1, GoodStays
    <3>4. SpecOf(r)' = SpecOf(r)
      BY <1>1, SpecStays DEF Stay
    <3> QED
      BY <3>1, <3>2, <3>3, <3>4
  <2> QED
    BY <2>1 DEF PickedStand
<1>4. ResolvedStand' /\ ReadStand'
  BY <1>1, ResolvedStay, ReadStay DEF Stands
<1>5. RootsStand'
  BY <1>1, SpecStays DEF Stands, RootsStand, Stay
<1> QED
  BY <1>2, <1>3, <1>4, <1>5 DEF Stands

\* The version that is picked among versions that are there answers the query.
LEMMA PickGood ==
  ASSUME NEW q, NEW listed, IsListed(q[1], listed), \A w \in listed.known : There(<<q[1], w>>)
  PROVE  \/ Pick(q, listed) = NotFound
         \/ Pick(q, listed) # Raised /\ Good(q, Pick(q, listed))
<1>1. CASE Pick(q, listed) # NotFound
  <2>1. Pick(q, listed) \in listed.known /\ Meets(q, Pick(q, listed))
    BY <1>1, PickIs
  <2>2. Pick(q, listed) \in Version /\ Pick(q, listed) # Raised
    BY <2>1, LoadingGraphAssumption DEF IsListed
  <2> QED
    BY <2>1, <2>2 DEF Good, IsListed
<1> QED
  BY <1>1

LEMMA ResolveStands ==
  ASSUME TypeInv, Stands, NEW q \in Query,
         ResolveMalformed(q) \/ ResolveListed(q) \/ ResolveCached(q)
  PROVE  Stands' /\ req'.lapses = req.lapses
<1>1. CASE ResolveMalformed(q)
  <2>1. /\ Resolves(q, Raised) /\ SpecOf(q) = Malformed /\ req'.versions = req.versions
        /\ req'.lapses = req.lapses
    BY <1>1, MalformedStep
  <2> DEFINE none == [known |-> {}, sorted |-> TRUE]
  <2>2. IsListed(q[1], none) /\ none.known = {}
    BY DEF IsListed
  <2> HIDE DEF none
  <2>3. Lists(q[1], none)
    BY <2>1, <2>2 DEF Lists
  <2> QED
    BY <2>1, <2>2, <2>3, ResolvesStand
<1>2. CASE ResolveListed(q)
  <2> DEFINE listed == Listed(q[1], Has(table, q[1]))
  <2>1. /\ Resolves(q, Pick(q, listed)) /\ Lists(q[1], listed) /\ req'.lapses = req.lapses
    BY <1>2, ListedStep
  <2>2. \A w \in listed.known : There(<<q[1], w>>)
    BY DEF Listed, Has, There
  <2> HIDE DEF listed
  <2>3. \/ Pick(q, listed) = NotFound
        \/ Pick(q, listed) # Raised /\ Good(q, Pick(q, listed))
    BY <2>1, <2>2, PickGood DEF Lists
  <2> QED
    BY <2>1, <2>2, <2>3, ResolvesStand
<1>3. CASE ResolveCached(q)
  <2> DEFINE listed == req.versions[q[1]]
  <2>1. /\ q[1] \in DOMAIN req.versions /\ Resolves(q, Pick(q, listed))
        /\ IsListed(q[1], listed) /\ req'.versions = req.versions /\ req'.lapses = req.lapses
    BY <1>3, CachedStep
  <2>2. \A w \in listed.known : There(<<q[1], w>>)
    BY <2>1 DEF Stands, VersionsStand
  <2> HIDE DEF listed
  <2>3. \/ Pick(q, listed) = NotFound
        \/ Pick(q, listed) # Raised /\ Good(q, Pick(q, listed))
    BY <2>1, <2>2, PickGood
  <2>4. Lists(q[1], listed)
    BY <2>1 DEF Lists
  <2> QED
    BY <2>1, <2>2, <2>3, <2>4, ResolvesStand
<1> QED
  BY <1>1, <1>2, <1>3

LEMMA StartStands ==
  ASSUME TypeInv, NEW asked \in Requests, Start(asked)
  PROVE  Stands'
<1>1. /\ req'.roots = asked.libraries /\ req'.todo = asked.libraries
      /\ req'.at = "versions" /\ req'.picked = <<>> /\ req'.versions = <<>>
      /\ req'.resolved = <<>> /\ req'.missing = {} /\ req'.data = <<>> /\ req'.items = <<>>
  BY StartStep
<1> QED
  BY <1>1 DEF Stands, VersionsStand, PickedStand, ResolvedStand, RootsStand, ReadStand

LEMMA GatherStands ==
  ASSUME TypeInv, Stands, NEW missing \in SUBSET Lib, GatherData(missing)
  PROVE  Stands' /\ req'.lapses = req.lapses
<1> DEFINE libs == {<<q[1], req.picked[q]>> : q \in Found}
           found == [q \in Found |-> req.picked[q]]
<1>1. /\ DOMAIN req.picked = req.todo /\ \A q \in req.todo : req.picked[q] # NotFound
      /\ missing \subseteq libs /\ \A l \in libs : \E m \in missing : SymbolOf(m) = SymbolOf(l)
  BY DEF GatherData, Resolved, Key
<1>2. /\ req.at = "versions" /\ req'.at = "data" /\ req'.missing = missing
      /\ req'.resolved = Over(req.resolved, found)
      /\ Apart(req, req', {"at", "missing", "resolved"}) /\ UNCHANGED <<table, local>>
      /\ req.missing = {}
  BY GatherStep DEF TypeInv, Typed, AskedOK
<1>3. /\ Stay /\ req'.versions = req.versions /\ req'.picked = req.picked
      /\ req'.items = req.items /\ req'.data = req.data /\ req'.roots = req.roots
      /\ req'.using = req.using /\ req'.lapses = req.lapses
  BY <1>2 DEF Apart, Fields, Stay
<1>4. \A q \in Found : Good(q, req.picked[q])
  BY <1>1 DEF Found, Stands, PickedStand
<1>5. VersionsStand' /\ PickedStand'
  BY <1>3, VersionsStay, PickedStay DEF Stands
<1>6. ResolvedStand'
  <2>1. ASSUME NEW q \in DOMAIN req'.resolved
        PROVE  /\ Good(q, req.resolved[q])'
               /\ SymbolFor(q)' \in DOMAIN req'.items \cup {SymbolOf(l) : l \in req'.missing}
    <3>1. PICK v : v = req'.resolved[q]
      OBVIOUS
    <3>2. CASE q \in Found
      <4>1. v = req.picked[q]
        BY <1>2, <3>1, <3>2 DEF Over
      <4>2. PICK m \in missing : SymbolOf(m) = SymbolOf(<<q[1], v>>)
        BY <1>1, <3>2, <4>1
      <4>3. SymbolFor(q)' = <<q[1], Api[v]>> /\ SymbolOf(<<q[1], v>>) = <<q[1], Api[v]>>
        BY <3>1 DEF SymbolFor, SymbolOf
      <4>4. Good(q, v)'
        BY <1>3, <1>4, <3>2, <4>1, GoodStays
      <4> QED
        BY <1>2, <3>1, <4>2, <4>3, <4>4
    <3>3. CASE q \notin Found
      <4>1. q \in DOMAIN req.resolved /\ v = req.resolved[q]
        BY <1>2, <2>1, <3>1, <3>3 DEF Over
      <4>2. SymbolFor(q) \in DOMAIN req.items /\ Good(q, v)
        BY <1>2, <4>1 DEF Stands, ResolvedStand
      <4>3. SymbolFor(q)' = SymbolFor(q)
        BY <3>1, <4>1 DEF SymbolFor
      <4>4. Good(q, v)'
        BY <1>3, <4>2, GoodStays
      <4> QED
        BY <1>3, <3>1, <4>2, <4>3, <4>4
    <3> QED
      BY <3>2, <3>3
  <2> QED
    BY <2>1 DEF ResolvedStand
<1>7. RootsStand'
  <2>1. ASSUME NEW q \in req.roots, SpecOf(q) # Malformed PROVE q \in DOMAIN req'.resolved
    <3>1. q \in DOMAIN req.resolved \/ q \in req.todo
      BY <2>1 DEF Stands, RootsStand
    <3>2. q \in req.todo => q \in Found
      BY <1>1, <2>1 DEF Found, Stands, PickedStand
    <3> QED
      BY <1>2, <3>1, <3>2 DEF Over
  <2> QED
    BY <1>3, <2>1, SpecStays DEF RootsStand
<1>8. ReadStand'
  <2>1. \A l \in missing : There(l)'
    <3>1. \A l \in missing : l \in Lib /\ There(l)
      BY <1>1, <1>4 DEF Good
    <3> QED
      BY <1>3, <3>1, GoodStays
  <2>2. \A s \in DOMAIN req.items : There(req.items[s].lib) /\ req.items[s].lib \in Lib
    BY DEF Stands, ReadStand, TypeInv, Typed, ReadOK, IsPartial
  <2>3. \A s \in DOMAIN req'.items : There(req.items[s].lib)'
    BY <1>2, <1>3, <2>2 DEF There, Stay
  <2>4. \A l \in DOMAIN req'.data : req'.data[l] # NoDoc
    BY <1>3 DEF Stands, ReadStand
  <2> QED
    BY <1>2, <2>1, <2>3, <2>4 DEF ReadStand
<1> QED
  BY <1>3, <1>5, <1>6, <1>7, <1>8 DEF Stands

LEMMA GetDataStands ==
  ASSUME TypeInv, Stands, NEW l \in Lib, GetData(l)
  PROVE  Stands' /\ req'.lapses = req.lapses
<1>1. /\ UNCHANGED <<table, local>> /\ Apart(req, req', {"data"}) /\ l \in req.missing
      /\ req'.data = With(req.data, l, IF req.extra[l] # NoDoc THEN req.extra[l] ELSE table[l])
  BY GetDataStep
<1>2. /\ Stay /\ req'.versions = req.versions /\ req'.picked = req.picked
      /\ req'.resolved = req.resolved /\ req'.items = req.items /\ req'.missing = req.missing
      /\ req'.roots = req.roots /\ req'.todo = req.todo /\ req'.at = req.at
      /\ req'.lapses = req.lapses /\ req'.using = req.using
  BY <1>1 DEF Apart, Fields, Stay
<1>3. VersionsStand' /\ PickedStand' /\ ResolvedStand'
  BY <1>2, VersionsStay, PickedStay, ResolvedStay DEF Stands
<1>4. RootsStand'
  BY <1>2, SpecStays DEF Stands, RootsStand
<1>5. ReadStand'
  <2>1. There(l)
    BY <1>1 DEF Stands, ReadStand
  <2>2. \A m \in DOMAIN req'.data : req'.data[m] # NoDoc
    BY <1>1, <2>1 DEF With, There, Stands, ReadStand
  <2>3. \A m : There(m)' = There(m)
    BY <1>1, <1>2 DEF There, Stay
  <2> QED
    BY <1>2, <2>2, <2>3 DEF Stands, ReadStand, There, Stay
<1> QED
  BY <1>2, <1>3, <1>4, <1>5 DEF Stands

LEMMA NextRoundStands ==
  ASSUME TypeInv, Stands, NextRound
  PROVE  Stands' /\ req'.lapses = req.lapses
<1>1. /\ UNCHANGED <<table, local>> /\ req.at = "data" /\ DOMAIN req.data = req.missing
      /\ Apart(req, req', {"queries", "items", "at", "todo", "cached", "picked", "missing",
                           "data"})
      /\ req'.at = "versions" /\ req'.missing = {} /\ req'.picked = <<>>
      /\ req'.data = <<>> /\ req'.items = Over(req.items, Read(Got))
  BY NextRoundStep
<1>2. /\ Stay /\ req'.versions = req.versions /\ req'.resolved = req.resolved
      /\ req'.roots = req.roots /\ req'.using = req.using /\ req'.lapses = req.lapses
  BY <1>1 DEF Apart, Fields, Stay
<1>3. Got = req.missing /\ DOMAIN Read(Got) = {SymbolOf(l) : l \in req.missing}
  BY <1>1 DEF Got, Read, Stands, ReadStand
<1>4. VersionsStand'
  BY <1>2, VersionsStay DEF Stands
<1>5. PickedStand'
  BY <1>1 DEF PickedStand
<1>6. ResolvedStand'
  <2>1. DOMAIN req'.items = DOMAIN req.items \cup {SymbolOf(l) : l \in req.missing}
    BY <1>1, <1>3 DEF Over
  <2> QED
    BY <1>2, <2>1, ResolvedStay DEF Stands
<1>7. RootsStand'
  BY <1>1, <1>2, SpecStays DEF Stands, RootsStand
<1>8. ReadStand'
  <2>1. /\ Got \in SUBSET DOMAIN req.data /\ \A l \in Got : req.data[l] # NoDoc
    BY <1>1, <1>3 DEF Got
  <2>2. \A s \in DOMAIN Read(Got) : Read(Got)[s].lib \in req.missing
    BY <1>3, <2>1, ReadType DEF IsPartial
  <2>3. \A s \in DOMAIN req'.items : There(req'.items[s].lib)
    BY <1>1, <1>3, <2>2 DEF Over, Stands, ReadStand
  <2>4. \A s \in DOMAIN req'.items : There(req.items[s].lib)'
    BY <1>1, <1>2, <2>3 DEF There, Stay
  <2> QED
    BY <1>1, <2>4 DEF ReadStand
<1> QED
  BY <1>2, <1>4, <1>5, <1>6, <1>7, <1>8 DEF Stands

LEMMA LayersStands ==
  ASSUME TypeInv, Stands, Layers
  PROVE  Stands' /\ req'.lapses = req.lapses
<1>1. UNCHANGED <<table, local>> /\ req.at = "data" /\ Apart(req, req', Ended)
  BY LayersStep
<1>2. /\ Stay /\ req'.resolved = req.resolved /\ req'.items = req.items
      /\ req'.missing = req.missing /\ req'.data = req.data /\ req'.roots = req.roots
      /\ req'.using = req.using /\ req'.lapses = req.lapses
  BY <1>1 DEF Apart, Ended, Fields, Stay
<1>3. req'.versions = <<>> /\ req'.picked = <<>>
  <2>1. \E end, layers : Finish(end, layers)
    BY DEF Layers
  <2> QED
    BY <2>1 DEF Finish, TypeInv, Typed, Fields
<1>4. VersionsStand' /\ PickedStand'
  BY <1>3 DEF VersionsStand, PickedStand
<1>5. ResolvedStand' /\ ReadStand'
  BY <1>2, ResolvedStay, ReadStay DEF Stands
<1>6. RootsStand'
  BY <1>1, <1>2, SpecStays DEF Stands, RootsStand
<1> QED
  BY <1>2, <1>4, <1>5, <1>6 DEF Stands

LEMMA PublishStands ==
  ASSUME TypeInv, Stands, NEW l \in Lib, NEW deps \in Dependencies[l[1]], Publish(l, deps)
  PROVE  Stands'
<1>1. /\ table' = [table EXCEPT ![l] = deps] /\ deps # NoDoc
      /\ \/ req' = req
         \/ Apart(req, req', {"lapses"})
  BY PublishStep, ChangesStep
<1>2. /\ req'.versions = req.versions /\ req'.picked = req.picked
      /\ req'.resolved = req.resolved /\ req'.items = req.items /\ req'.missing = req.missing
      /\ req'.roots = req.roots /\ req'.todo = req.todo /\ req'.at = req.at
      /\ req'.using = req.using /\ req'.extra = req.extra /\ req'.data = req.data
  BY <1>1 DEF Apart, Fields
<1>3. Stay
  BY <1>1, <1>2 DEF Stay, TypeInv, IsTable
<1>4. VersionsStand' /\ PickedStand' /\ ResolvedStand' /\ ReadStand'
  BY <1>2, <1>3, VersionsStay, PickedStay, ResolvedStay, ReadStay DEF Stands
<1>5. RootsStand'
  BY <1>2, SpecStays DEF Stands, RootsStand
<1> QED
  BY <1>4, <1>5 DEF Stands

\* All that is in a layer is told.
LEMMA LayersTold ==
  ASSUME TypeInv, Layers
  PROVE  AllTold'
<1> SUFFICES ASSUME req'.end = "graph"
             PROVE  req'.missing = {} /\ \A s \in DOMAIN req'.items : req.items[s].lib' \in Delivered'
  BY DEF AllTold
<1> DEFINE layers == LayersOf(req.items)
<1>1. /\ req.missing = {} /\ Apart(req, req', Ended) /\ req'.layers = Told(layers)
      /\ UNION ToSet(layers) = DOMAIN req.items
  BY LayersStep
<1>2. req'.missing = {} /\ req'.items = req.items
  BY <1>1 DEF Apart, Ended, Fields
<1> HIDE DEF layers
<1>3. ASSUME NEW s \in DOMAIN req.items PROVE req.items[s].lib \in UNION ToSet(Told(layers))
  <2>1. PICK i \in DOMAIN layers : s \in layers[i]
    BY <1>1, <1>3 DEF ToSet
  <2>2. i \in DOMAIN Told(layers) /\ req.items[s].lib \in Told(layers)[i]
    BY <2>1 DEF Told
  <2> QED
    BY <2>2 DEF ToSet
<1> QED
  BY <1>1, <1>2, <1>3 DEF Delivered

\* A step that is not quiet leaves a lapse.
LEMMA LapseStays ==
  ASSUME TypeInv, NEW lapse \in {"published", "deleted", "failure"}, Lapses(lapse), Quiet'
  PROVE  lapse = "published" /\ Quiet
<1>1. req.lapses \in Seq({"published", "deleted", "failure"})
  BY DEF TypeInv, Typed, EndOK
<1>2. ToSet(req'.lapses) = ToSet(req.lapses) \cup {lapse}
  BY <1>1, LapseIs DEF Lapses
<1> QED
  BY <1>2 DEF Quiet

LEMMA StandsStep ==
  ASSUME TypeInv, AnswerInv, [Next]_vars,
         Quiet', req'.at # "idle", req'.end # "dependencies"
  PROVE  Stands'
<1>0. ASSUME req'.lapses = req.lapses, req.at # "idle", req.end # "dependencies" PROVE Stands
  BY <1>0 DEF Quiet, AnswerInv
<1>1. ASSUME NEW asked \in Requests, Start(asked) PROVE Stands'
  BY <1>1, StartStands
<1>2. CASE Step
  <2>0. \A q \in req.todo : q \in Query
    BY DEF TypeInv, Typed, AskedOK
  <2>1. ASSUME NEW q \in req.todo, ResolveMalformed(q) \/ ResolveListed(q) \/ ResolveCached(q)
        PROVE  Stands'
    <3>1. q \in Query /\ req.at = "versions" /\ req.end = "none" /\ req'.lapses = req.lapses
      BY <2>0, <2>1, MalformedStep, ListedStep, CachedStep, NotEnded DEF Resolves
    <3> QED
      BY <1>0, <2>1, <3>1, ResolveStands
  <2>2. ASSUME NEW q \in req.todo, ListFails(q) PROVE FALSE
    BY <2>0, <2>2, ListFailsStep, LapseStays
  <2>3. CASE DependenciesError
    BY <2>3, DependenciesErrorStep
  <2>4. ASSUME NEW missing \in SUBSET Lib, GatherData(missing) PROVE Stands'
    <3>1. req.at = "versions" /\ req.end = "none" /\ req'.lapses = req.lapses
      BY <2>4, GatherStep, NotEnded DEF Apart, Fields
    <3> QED
      BY <1>0, <2>4, <3>1, GatherStands
  <2>5. ASSUME NEW l \in req.missing, GetData(l) PROVE Stands'
    <3>1. l \in Lib
      BY DEF TypeInv, Typed, ReadOK
    <3>2. req.at = "data" /\ req.end = "none" /\ req'.lapses = req.lapses
      BY <2>5, <3>1, GetDataStep, NotEnded DEF Apart, Fields
    <3> QED
      BY <1>0, <2>5, <3>1, <3>2, GetDataStands
  <2>6. ASSUME NEW l \in req.missing, GetDataFails(l) PROVE FALSE
    <3>1. l \in Lib
      BY DEF TypeInv, Typed, ReadOK
    <3> QED
      BY <2>6, <3>1, GetDataFailsStep, LapseStays
  <2>7. CASE NextRound
    <3>1. req.at = "data" /\ req.end = "none" /\ req'.lapses = req.lapses
      BY <2>7, NextRoundStep, NotEnded DEF Apart, Fields
    <3> QED
      BY <1>0, <2>7, <3>1, NextRoundStands
  <2>8. CASE Layers
    <3>1. req.at = "data" /\ req.end = "none" /\ req'.lapses = req.lapses
      BY <2>8, LayersStep, NotEnded DEF Apart, Ended, Fields
    <3> QED
      BY <1>0, <2>8, <3>1, LayersStands
  <2> QED
    BY <1>2, <2>1, <2>2, <2>3, <2>4, <2>5, <2>6, <2>7, <2>8 DEF Step
<1>3. CASE Again
  BY <1>3, AgainStep DEF NoRequest
<1>4. ASSUME NEW l \in Lib, NEW deps \in Dependencies[l[1]], Publish(l, deps) PROVE Stands'
  <2>1. req.at \in {"versions", "data"} /\ req.end = "none" /\ Lapses("published")
    BY <1>4, PublishStep, ChangesStep, NotEnded
  <2>2. Stands
    BY <2>1, LapseStays DEF AnswerInv
  <2> QED
    BY <1>4, <2>2, PublishStands
<1>5. ASSUME NEW l \in Lib, NEW deps \in Dependencies[l[1]], PublishLocal(l, deps) PROVE FALSE
  BY <1>5, PublishLocalStep
<1>6. ASSUME NEW l \in Lib, DeleteVersion(l) PROVE FALSE
  <2>1. Lapses("deleted")
    BY <1>6, DeleteStep, ChangesStep
  <2> QED
    BY <2>1, LapseStays
<1>7. CASE UNCHANGED vars
  <2>1. req' = req /\ table' = table
    BY <1>7 DEF vars
  <2>2. Stands
    BY <2>1, <1>0
  <2> QED
    BY <2>1, <2>2 DEF Stands, VersionsStand, PickedStand, ResolvedStand, RootsStand, ReadStand,
                      There, Good, Meets, Fits, SpecOf, SymbolFor
<1> QED
  BY <1>1, <1>2, <1>3, <1>4, <1>5, <1>6, <1>7 DEF Next

\* As long as others only publish, a graph has for each query that was asked a library
\* of its package, that is published, with the API of a version that the query admits.
THEOREM GraphAnswers ==
  Spec => []Answered
<1>1. Init => AnswerInv
  BY DEF Init, NoRequest, AnswerInv, AllTold
<1>2. TypeInv /\ AnswerInv /\ [Next]_vars => AnswerInv'
  <2> SUFFICES ASSUME TypeInv, AnswerInv, [Next]_vars PROVE AnswerInv'
    OBVIOUS
  <2>1. Quiet' /\ req'.at # "idle" /\ req'.end # "dependencies" => Stands'
    BY StandsStep
  <2>2. AllTold'
    <3>1. CASE Layers
      BY <3>1, LayersTold
    <3>2. CASE UNCHANGED vars
      BY <3>2 DEF vars, AnswerInv, AllTold, Delivered
    <3>3. CASE req'.end # "graph"
      BY <3>3 DEF AllTold
    <3> QED
      BY <3>1, <3>2, <3>3, GraphStep
  <2> QED
    BY <2>1, <2>2 DEF AnswerInv
<1>3. TypeInv /\ AnswerInv => Answered
  BY AnswerInvAnswers
<1> QED
  BY <1>1, <1>2, <1>3, TypeInvariant, PTL DEF Spec

-----------------------------------------------------------------------------
(* The rounds and the fixed point *)

LEMMA FittingIs ==
  ASSUME NEW q
  PROVE  /\ Fitting(q) \in SUBSET Version
         /\ Fitting(q) # {} => Max(Fitting(q)) \in Fitting(q) /\ Best(q) \in Filed
<1>1. \A v \in Fitting(q) : v \in Version /\ <<q[1], v>> \in Filed /\ <<q[1], v>> \in Lib
  BY DEF Fitting, Known, Has, Filed, DependenciesOf
<1>2. IsFiniteSet(Fitting(q)) /\ Fitting(q) \in SUBSET Version
  BY <1>1, FewVersions
<1>3. Fitting(q) # {} => Max(Fitting(q)) \in Fitting(q)
  BY <1>2, MaxIn
<1> QED
  BY <1>1, <1>2, <1>3 DEF Best

LEMMA FiledDoc ==
  ASSUME TypeInv, NEW l \in Filed
  PROVE  DependenciesOf(l) \subseteq Query
BY DocType DEF Filed, DependenciesOf, TypeInv, Typed, AskedOK

\* What can be reached is closed, and the least that is.
LEMMA ReachedIs ==
  /\ Reached \subseteq Filed
  /\ IsClosed(Reached)
  /\ \A libs \in SUBSET Filed : IsClosed(libs) => Reached \subseteq libs
<1>1. Reached \subseteq Filed /\ \A libs \in SUBSET Filed : IsClosed(libs) => Reached \subseteq libs
  BY DEF Reached
<1>2. ASSUME NEW q \in Solvable(req.roots \cup UNION {DependenciesOf(l) : l \in Reached})
      PROVE  Best(q) \in Reached
  <2>1. Best(q) \in Filed
    BY <1>2, FittingIs DEF Solvable
  <2>2. ASSUME NEW libs \in SUBSET Filed, IsClosed(libs) PROVE Best(q) \in libs
    <3>1. q \in Solvable(req.roots \cup UNION {DependenciesOf(l) : l \in libs})
      BY <1>1, <1>2, <2>2 DEF Solvable
    <3> QED
      BY <2>2, <3>1 DEF IsClosed
  <2> QED
    BY <2>1, <2>2 DEF Reached
<1> QED
  BY <1>1, <1>2 DEF IsClosed

LEMMA BestReached ==
  ASSUME NEW q \in Solvable(Asked)
  PROVE  Best(q) \in Reached
BY ReachedIs DEF IsClosed, Asked

\* The version that a query should be resolved to.
BestVersion(q) == IF Fitting(q) = {} THEN NotFound ELSE Max(Fitting(q))

\* resolve_version picks the greatest version the query admits, when the table has some
\* of the package or one at most is known.
LEMMA PickBest ==
  ASSUME TypeInv, NEW q \in Query, SpecOf(q) # Malformed,
         Has(table, q[1]) # {} \/ Cardinality(Known(q[1])) <= 1
  PROVE  Pick(q, Listed(q[1], Has(table, q[1]))) = BestVersion(q)
<1> DEFINE listed == Listed(q[1], Has(table, q[1]))
           fit == {v \in listed.known : Fits(q, v)}
           first == IF listed.sorted THEN Max(fit)
                    ELSE CHOOSE v \in fit : \A w \in fit : Api[v] <= Api[w]
<1>1. /\ listed.known = Known(q[1]) /\ listed.sorted = (Has(table, q[1]) # {})
      /\ fit = Fitting(q)
  BY DEF Listed, Known, Fits, Fitting
<1>2. /\ \A v \in Known(q[1]) : v \in Version /\ v \in Nat
      /\ IsFiniteSet(Known(q[1])) /\ fit \subseteq Known(q[1])
  <2>1. \A v \in Known(q[1]) : v \in Version /\ <<q[1], v>> \in Lib
    BY DEF Known, Has
  <2> QED
    BY <1>1, <2>1, FewVersions, LoadingGraphAssumption
<1>3. CASE fit = {}
  BY <1>1, <1>3 DEF Pick, BestVersion
<1>4. CASE fit # {}
  <2> DEFINE best == Max(fit)
  <2>1. best \in fit /\ \A v \in fit : v <= best
    <3>1. fit \in SUBSET Version /\ IsFiniteSet(fit)
      BY <1>2, FS_Subset
    <3> HIDE DEF fit
    <3> QED
      BY <1>4, <3>1, MaxIn
  <2>2. best \in Known(q[1]) /\ best \in Version /\ best \in Nat
    BY <1>2, <2>1
  <2>3. Has(table, q[1]) = {} => Known(q[1]) = {best}
    <3>1. CASE Has(table, q[1]) = {}
      <4>1. Cardinality(Known(q[1])) \in Nat /\ Cardinality(Known(q[1])) <= 1
        BY <1>2, <3>1, FS_CardinalityType
      <4>2. Cardinality(Known(q[1])) # 0
        BY <1>2, <2>2, FS_EmptySet
      <4>3. Cardinality(Known(q[1])) = 1
        BY <4>1, <4>2
      <4>4. PICK x : Known(q[1]) = {x}
        BY <1>2, <4>3, FS_Singleton
      <4> QED
        BY <2>2, <4>4
    <3> QED
      BY <3>1
  <2>4. first = best
    <3>1. CASE Has(table, q[1]) # {}
      BY <1>1, <3>1
    <3>2. CASE Has(table, q[1]) = {}
      <4>1. fit = {best}
        BY <1>2, <2>1, <2>3, <3>2
      <4>2. ~ listed.sorted
        BY <1>1, <3>2
      <4>3. Api[best] <= Api[best]
        BY <2>2, LoadingGraphAssumption
      <4> HIDE DEF fit, listed, best
      <4> QED
        BY <4>1, <4>2, <4>3
    <3> QED
      BY <3>1, <3>2
  <2>5. Pick(q, listed) = IF SpecOf(q) \in Version THEN best
                          ELSE Published(Release(best), listed.known)
    BY <1>4, <2>4 DEF Pick
  <2>6. SpecOf(q) \notin Version /\ best \in Wip => best + 1 \notin Known(q[1])
    <3> SUFFICES ASSUME SpecOf(q) \notin Version, best \in Wip, best + 1 \in Known(q[1])
                 PROVE  FALSE
      OBVIOUS
    <3>1. best + 1 \notin Wip
      BY LoadingGraphAssumption
    <3>2. Release(best) = best + 1 /\ Release(best + 1) = best + 1
      BY <3>1 DEF Release
    <3>3. Release(best) \in Admits[SpecOf(q)]
      BY <2>1 DEF Fits
    <3>4. best + 1 \in fit
      BY <1>1, <3>2, <3>3 DEF Fits
    <3>5. best + 1 <= best
      BY <2>1, <3>4
    <3> QED
      BY <2>2, <3>5
  <2>7. SpecOf(q) \notin Version => Published(Release(best), listed.known) = best
    BY <1>1, <2>2, <2>6 DEF Published, Release
  <2>8. Pick(q, listed) = best
    BY <2>5, <2>7
  <2> QED
    BY <1>1, <1>4, <2>8 DEF BestVersion
<1> QED
  BY <1>3, <1>4

\* What the tables and the request say the answer should be, as long as they stay.
Fixed == /\ table' = table /\ req'.using = req.using /\ req'.extra = req.extra
         /\ req'.roots = req.roots

LEMMA FixedIs ==
  ASSUME Fixed
  PROVE  /\ \A p : Has(table, p)' = Has(table, p) /\ Listed(p, Has(table, p))' = Listed(p, Has(table, p))
         /\ \A q : BestVersion(q)' = BestVersion(q) /\ Fitting(q)' = Fitting(q)
         /\ \A q : Best(q)' = Best(q)
         /\ \A l : DependenciesOf(l)' = DependenciesOf(l)
         /\ Reached' = Reached /\ Asked' = Asked /\ Solvable(Asked)' = Solvable(Asked)
         /\ Unambiguous' = Unambiguous
<1>1. /\ \A p : Has(table, p)' = Has(table, p) /\ Has(req.extra, p)' = Has(req.extra, p)
      /\ \A l : DependenciesOf(l)' = DependenciesOf(l)
      /\ \A q : SpecOf(q)' = SpecOf(q)
  BY DEF Fixed, Has, DependenciesOf, SpecOf
<1>2. \A p : Known(p)' = Known(p) /\ Listed(p, Has(table, p))' = Listed(p, Has(table, p))
  BY <1>1 DEF Known, Listed
<1>3. \A q : Fitting(q)' = Fitting(q)
  BY <1>1, <1>2 DEF Fitting
<1>4. \A q : Best(q)' = Best(q) /\ BestVersion(q)' = BestVersion(q)
  BY <1>3 DEF Best, BestVersion
<1>5. \A queries : Solvable(queries)' = Solvable(queries)
  BY <1>1, <1>3 DEF Solvable
<1>6. Filed' = Filed
  BY <1>1 DEF Filed
<1>7. \A libs : IsClosed(libs)' = IsClosed(libs)
  <2> SUFFICES ASSUME NEW libs PROVE IsClosed(libs)' = IsClosed(libs)
    OBVIOUS
  <2>1. PICK queries : queries = req.roots \cup UNION {DependenciesOf(l) : l \in libs}
    OBVIOUS
  <2>2. (req.roots \cup UNION {DependenciesOf(l) : l \in libs})' = queries
    BY <1>1, <2>1 DEF Fixed
  <2>3. IsClosed(libs) = ({Best(q) : q \in Solvable(queries)} \subseteq libs)
    BY <2>1 DEF IsClosed
  <2>4. IsClosed(libs)' = ({Best(q)' : q \in Solvable(queries)'} \subseteq libs)
    BY <2>2 DEF IsClosed
  <2> QED
    BY <1>4, <1>5, <2>3, <2>4
<1>8. Reached' = Reached
  BY <1>6, <1>7 DEF Reached
<1>9. Asked' = Asked
  BY <1>1, <1>8 DEF Asked, Fixed
<1>10. Solvable(Asked)' = Solvable(Asked)
  <2>1. PICK queries : queries = Asked
    OBVIOUS
  <2>2. Solvable(queries)' = Solvable(queries)
    BY <1>5
  <2> QED
    BY <1>9, <2>1, <2>2 DEF Solvable
<1>11. Unambiguous' = Unambiguous
  BY <1>1, <1>2, <1>8, <1>9 DEF Unambiguous
<1> QED
  BY <1>1, <1>2, <1>3, <1>4, <1>8, <1>9, <1>10, <1>11

\* What the rounds have found so far is on the way to the fixed point.
ListsStand == \A p \in DOMAIN req.versions : req.versions[p] = Listed(p, Has(table, p))

PicksStand == \A q \in DOMAIN req.picked : req.picked[q] = BestVersion(q)

ResolutionsStand ==
  \A q \in DOMAIN req.resolved :
    /\ q \in Solvable(Asked) /\ req.resolved[q] = Max(Fitting(q))
    /\ SymbolFor(q) \in DOMAIN req.items \cup {SymbolOf(l) : l \in req.missing}

LibrariesStand ==
  /\ req.missing \subseteq Reached
  /\ \A l \in DOMAIN req.data : req.data[l] = DependenciesOf(l)
  /\ \A s \in DOMAIN req.items :
       /\ req.items[s].lib \in Reached
       /\ req.items[s].deps = DependenciesOf(req.items[s].lib)
       /\ req.items[s].deps \subseteq req.queries

\* Every query is resolved, or is to be.
QueriesStand ==
  /\ req.todo \subseteq Asked
  /\ req.roots \cup req.queries \subseteq
       IF req.at = "versions" THEN DOMAIN req.resolved \cup req.todo ELSE DOMAIN req.resolved

Approaches ==
  ListsStand /\ PicksStand /\ ResolutionsStand /\ LibrariesStand /\ QueriesStand

OutcomeInv ==
  /\ req.at \in {"versions", "data"} /\ req.lapses = <<>> /\ Unambiguous => Approaches
  /\ OutcomeAsExpected

LEMMA ResolveApproaches ==
  ASSUME TypeInv, Approaches, Unambiguous, NEW q \in req.todo,
         ResolveMalformed(q) \/ ResolveListed(q) \/ ResolveCached(q)
  PROVE  Approaches'
<1> DEFINE listed == Listed(q[1], Has(table, q[1]))
<1>1. /\ q \in Query /\ q \in Asked /\ SpecOf(q) # Malformed
      /\ Has(table, q[1]) # {} \/ Cardinality(Known(q[1])) <= 1
  BY DEF TypeInv, Typed, AskedOK, Approaches, QueriesStand, Unambiguous
<1>2. Pick(q, listed) = BestVersion(q)
  BY <1>1, PickBest
<1>3. ~ ResolveMalformed(q)
  BY <1>1 DEF ResolveMalformed
<1>4. /\ Resolves(q, BestVersion(q))
      /\ req'.versions \in {req.versions, With(req.versions, q[1], listed)}
  <2>1. CASE ResolveListed(q)
    BY <1>1, <1>2, <2>1, ListedStep DEF Lists
  <2>2. CASE ResolveCached(q)
    <3>1. req.versions[q[1]] = listed
      BY <1>1, <2>2, CachedStep DEF Approaches, ListsStand
    <3> QED
      BY <1>1, <1>2, <2>2, <3>1, CachedStep
  <2> QED
    BY <1>3, <2>1, <2>2
<1>5. /\ Fixed /\ req'.picked = With(req.picked, q, BestVersion(q)) /\ req'.at = req.at
      /\ req'.resolved = req.resolved /\ req'.items = req.items /\ req'.missing = req.missing
      /\ req'.data = req.data /\ req'.todo = req.todo /\ req'.queries = req.queries
      /\ req'.roots = req.roots
  BY <1>4 DEF Resolves, Apart, Fields, Fixed
<1>6. ListsStand'
  <2> HIDE DEF listed
  <2>1. ASSUME NEW p \in DOMAIN req'.versions
        PROVE  \/ p \in DOMAIN req.versions /\ req'.versions[p] = req.versions[p]
               \/ p = q[1] /\ req'.versions[p] = listed
    <3>1. CASE req'.versions = req.versions
      BY <2>1, <3>1
    <3>2. CASE req'.versions = With(req.versions, q[1], listed)
      BY <2>1, <3>2 DEF With
    <3> QED
      BY <1>4, <3>1, <3>2
  <2>2. \A p \in DOMAIN req'.versions : req'.versions[p] = Listed(p, Has(table, p))
    BY <2>1 DEF listed, Approaches, ListsStand
  <2> QED
    BY <1>5, <2>2, FixedIs DEF ListsStand
<1>7. PicksStand'
  <2>1. \A r \in DOMAIN req'.picked : req'.picked[r] = BestVersion(r)
    BY <1>5 DEF With, Approaches, PicksStand
  <2> QED
    BY <1>5, <2>1, FixedIs DEF PicksStand
<1>8. ResolutionsStand'
  BY <1>5, FixedIs DEF Approaches, ResolutionsStand, SymbolFor
<1>9. LibrariesStand'
  BY <1>5, FixedIs DEF Approaches, LibrariesStand
<1>10. QueriesStand'
  BY <1>5, FixedIs DEF Approaches, QueriesStand
<1> QED
  BY <1>6, <1>7, <1>8, <1>9, <1>10 DEF Approaches

LEMMA StartApproaches ==
  ASSUME TypeInv, NEW asked \in Requests, Start(asked)
  PROVE  Approaches'
<1>1. /\ req'.roots = asked.libraries /\ req'.todo = asked.libraries /\ req'.queries = {}
      /\ req'.at = "versions" /\ req'.picked = <<>> /\ req'.versions = <<>>
      /\ req'.resolved = <<>> /\ req'.missing = {} /\ req'.data = <<>> /\ req'.items = <<>>
  BY StartStep
<1>2. req'.todo \subseteq Asked'
  BY <1>1 DEF Asked
<1> QED
  BY <1>1, <1>2 DEF Approaches, ListsStand, PicksStand, ResolutionsStand, LibrariesStand,
                    QueriesStand

LEMMA GatherApproaches ==
  ASSUME TypeInv, Approaches, Unambiguous, NEW missing \in SUBSET Lib, GatherData(missing)
  PROVE  Approaches'
<1> DEFINE libs == {<<q[1], req.picked[q]>> : q \in Found}
           found == [q \in Found |-> req.picked[q]]
<1>1. /\ DOMAIN req.picked = req.todo /\ \A q \in req.todo : req.picked[q] # NotFound
      /\ missing \subseteq libs /\ \A l \in libs : \E m \in missing : SymbolOf(m) = SymbolOf(l)
  BY DEF GatherData, Resolved, Key
<1>2. /\ req.at = "versions" /\ req'.at = "data" /\ req'.missing = missing
      /\ req'.resolved = Over(req.resolved, found)
      /\ Apart(req, req', {"at", "missing", "resolved"}) /\ UNCHANGED <<table, local>>
      /\ req.missing = {}
  BY GatherStep DEF TypeInv, Typed, AskedOK
<1>3. /\ Fixed /\ req'.versions = req.versions /\ req'.picked = req.picked
      /\ req'.items = req.items /\ req'.data = req.data /\ req'.roots = req.roots
      /\ req'.todo = req.todo /\ req'.queries = req.queries
  BY <1>2 DEF Apart, Fields, Fixed
<1>4. ASSUME NEW q \in req.todo
      PROVE  /\ q \in Found /\ q \in Solvable(Asked) /\ req.picked[q] = Max(Fitting(q))
             /\ <<q[1], req.picked[q]>> \in Reached
  <2>1. /\ req.picked[q] = BestVersion(q) /\ BestVersion(q) # NotFound
        /\ q \in Asked /\ SpecOf(q) # Malformed
    BY <1>1, <1>4 DEF Approaches, PicksStand, QueriesStand, Unambiguous
  <2>2. Fitting(q) # {} /\ req.picked[q] = Max(Fitting(q))
    BY <2>1 DEF BestVersion
  <2>3. q \in Solvable(Asked)
    BY <2>1, <2>2 DEF Solvable
  <2>4. Max(Fitting(q)) \in Version /\ <<q[1], req.picked[q]>> \in Reached
    BY <2>2, <2>3, FittingIs, BestReached DEF Best
  <2>5. req.picked[q] # Raised
    BY <2>2, <2>4, LoadingGraphAssumption
  <2> QED
    BY <2>2, <2>3, <2>4, <2>5 DEF Found
<1>5. Found = req.todo
  BY <1>4 DEF Found
<1>6. ListsStand' /\ PicksStand'
  BY <1>3, FixedIs DEF Approaches, ListsStand, PicksStand
<1>7. ResolutionsStand'
  <2>1. ASSUME NEW q \in DOMAIN req'.resolved
        PROVE  /\ q \in Solvable(Asked) /\ req'.resolved[q] = Max(Fitting(q))
               /\ SymbolFor(q)' \in DOMAIN req'.items \cup {SymbolOf(l) : l \in req'.missing}
    <3>1. PICK v : v = req'.resolved[q]
      OBVIOUS
    <3>2. SymbolFor(q)' = <<q[1], Api[v]>>
      BY <3>1 DEF SymbolFor
    <3>3. CASE q \in Found
      <4>1. v = req.picked[q]
        BY <1>2, <3>1, <3>3 DEF Over
      <4>2. PICK m \in missing : SymbolOf(m) = SymbolOf(<<q[1], v>>)
        BY <1>1, <3>3, <4>1
      <4>3. SymbolOf(<<q[1], v>>) = <<q[1], Api[v]>>
        BY DEF SymbolOf
      <4> QED
        BY <1>2, <1>4, <1>5, <3>1, <3>2, <3>3, <4>1, <4>2, <4>3
    <3>4. CASE q \notin Found
      <4>1. q \in DOMAIN req.resolved /\ v = req.resolved[q]
        BY <1>2, <2>1, <3>1, <3>4 DEF Over
      <4>2. SymbolFor(q) = <<q[1], Api[v]>>
        BY <4>1 DEF SymbolFor
      <4> QED
        BY <1>2, <1>3, <3>1, <3>2, <4>1, <4>2 DEF Approaches, ResolutionsStand
    <3> QED
      BY <3>3, <3>4
  <2>2. \A q : Fitting(q)' = Fitting(q)
    BY <1>3, FixedIs
  <2>3. Solvable(Asked)' = Solvable(Asked)
    BY <1>3, FixedIs
  <2> QED
    BY <2>1, <2>2, <2>3 DEF ResolutionsStand
<1>8. LibrariesStand'
  <2>1. missing \subseteq Reached
    BY <1>1, <1>4, <1>5
  <2> QED
    BY <1>2, <1>3, <2>1, FixedIs DEF Approaches, LibrariesStand
<1>9. QueriesStand'
  <2>1. DOMAIN req'.resolved = DOMAIN req.resolved \cup req.todo
    BY <1>2, <1>5 DEF Over
  <2> QED
    BY <1>2, <1>3, <2>1, FixedIs DEF Approaches, QueriesStand
<1> QED
  BY <1>6, <1>7, <1>8, <1>9 DEF Approaches

LEMMA GetDataApproaches ==
  ASSUME TypeInv, Approaches, NEW l \in Lib, GetData(l)
  PROVE  Approaches'
<1>1. /\ UNCHANGED <<table, local>> /\ Apart(req, req', {"data"}) /\ l \in req.missing
      /\ req'.data = With(req.data, l, DependenciesOf(l))
  BY GetDataStep DEF DependenciesOf
<1>2. /\ Fixed /\ req'.versions = req.versions /\ req'.picked = req.picked
      /\ req'.resolved = req.resolved /\ req'.items = req.items /\ req'.missing = req.missing
      /\ req'.roots = req.roots /\ req'.todo = req.todo /\ req'.at = req.at
      /\ req'.queries = req.queries
  BY <1>1 DEF Apart, Fields, Fixed
<1>3. ListsStand' /\ PicksStand'
  BY <1>2, FixedIs DEF Approaches, ListsStand, PicksStand
<1>4. ResolutionsStand' /\ QueriesStand'
  BY <1>2, FixedIs DEF Approaches, ResolutionsStand, QueriesStand, SymbolFor
<1>5. LibrariesStand'
  <2>1. \A m \in DOMAIN req'.data : req'.data[m] = DependenciesOf(m)
    BY <1>1 DEF With, Approaches, LibrariesStand
  <2> QED
    BY <1>2, <2>1, FixedIs DEF Approaches, LibrariesStand
<1> QED
  BY <1>3, <1>4, <1>5 DEF Approaches

LEMMA NextRoundApproaches ==
  ASSUME TypeInv, Approaches, NextRound
  PROVE  Approaches'
<1> DEFINE queries == UNION {req.data[l] : l \in Got}
<1>1. /\ UNCHANGED <<table, local>> /\ req.at = "data" /\ DOMAIN req.data = req.missing
      /\ Apart(req, req', {"queries", "items", "at", "todo", "cached", "picked", "missing",
                           "data"})
      /\ req'.at = "versions" /\ req'.missing = {} /\ req'.picked = <<>>
      /\ req'.data = <<>> /\ req'.items = Over(req.items, Read(Got))
      /\ req'.queries = req.queries \cup queries /\ req'.todo = queries \ DOMAIN req.resolved
  BY NextRoundStep
<1>2. /\ Fixed /\ req'.versions = req.versions /\ req'.resolved = req.resolved
      /\ req'.roots = req.roots
  BY <1>1 DEF Apart, Fields, Fixed
<1>3. \A l \in req.missing : l \in Reached /\ req.data[l] = DependenciesOf(l) /\ req.data[l] # NoDoc
  BY <1>1, ReachedIs DEF Approaches, LibrariesStand, Filed
<1>4. Got = req.missing
  BY <1>3 DEF Got
<1>5. /\ DOMAIN Read(Got) = {SymbolOf(l) : l \in req.missing}
      /\ \A s \in DOMAIN Read(Got) : /\ Read(Got)[s].lib \in req.missing
                                     /\ Read(Got)[s].deps = req.data[Read(Got)[s].lib]
  <2>1. DOMAIN Read(Got) = {SymbolOf(l) : l \in req.missing}
    BY <1>4 DEF Read
  <2>2. ASSUME NEW s \in DOMAIN Read(Got)
        PROVE  /\ Read(Got)[s].lib \in req.missing
               /\ Read(Got)[s].deps = req.data[Read(Got)[s].lib]
    <3>1. \E l \in Got : SymbolOf(l) = s
      BY <1>4, <2>1
    <3>2. PICK l \in Got : l = CHOOSE m \in Got : SymbolOf(m) = s
      BY <3>1
    <3>3. Read(Got)[s] = [lib |-> l, deps |-> req.data[l]]
      BY <3>2 DEF Read
    <3> QED
      BY <1>4, <3>3
  <2> QED
    BY <2>1, <2>2
<1>6. queries \subseteq Asked
  BY <1>3, <1>4 DEF Asked
<1>7. ListsStand' /\ PicksStand'
  BY <1>1, <1>2, FixedIs DEF Approaches, ListsStand, PicksStand
<1>8. ResolutionsStand'
  <2>1. DOMAIN req'.items = DOMAIN req.items \cup {SymbolOf(l) : l \in req.missing}
    BY <1>1, <1>5 DEF Over
  <2> QED
    BY <1>1, <1>2, <2>1, FixedIs DEF Approaches, ResolutionsStand, SymbolFor
<1>9. LibrariesStand'
  <2>1. ASSUME NEW s \in DOMAIN req'.items
        PROVE  /\ req'.items[s].lib \in Reached
               /\ req'.items[s].deps = DependenciesOf(req'.items[s].lib)
               /\ req'.items[s].deps \subseteq req'.queries
    <3>1. CASE s \in DOMAIN Read(Got)
      <4>1. req'.items[s] = Read(Got)[s]
        BY <1>1, <3>1 DEF Over
      <4> QED
        BY <1>1, <1>3, <1>4, <1>5, <3>1, <4>1
    <3>2. CASE s \notin DOMAIN Read(Got)
      <4>1. s \in DOMAIN req.items /\ req'.items[s] = req.items[s]
        BY <1>1, <2>1, <3>2 DEF Over
      <4> QED
        BY <1>1, <4>1 DEF Approaches, LibrariesStand
    <3> QED
      BY <3>1, <3>2
  <2>2. \A l : DependenciesOf(l)' = DependenciesOf(l)
    BY <1>2, FixedIs
  <2>3. \A s \in DOMAIN req'.items : DependenciesOf(req.items[s].lib)' = DependenciesOf(req'.items[s].lib)
    BY <1>1, <1>2 DEF DependenciesOf, Fixed
  <2>4. Reached' = Reached
    BY <1>2, FixedIs
  <2> QED
    BY <1>1, <2>1, <2>3, <2>4 DEF LibrariesStand
<1>10. QueriesStand'
  <2>1. Asked' = Asked
    BY <1>2, FixedIs
  <2> QED
    BY <1>1, <1>2, <1>6, <2>1 DEF Approaches, QueriesStand
<1> QED
  BY <1>7, <1>8, <1>9, <1>10 DEF Approaches

\* The circle that the answer is about, if there is one, stays as well.
LEMMA CycleIs ==
  ASSUME Fixed
  PROVE  HasCycle' = HasCycle
<1>1. /\ Reached' = Reached /\ \A l : DependenciesOf(l)' = DependenciesOf(l)
      /\ \A q : Best(q)' = Best(q)
  BY FixedIs
<1>2. ASSUME HasCycle PROVE HasCycle'
  <2>1. PICK L \in (SUBSET Reached) \ {{}} : \A l \in L : \E q \in DependenciesOf(l) : Best(q) \in L
    BY <1>2 DEF HasCycle
  <2>2. \A l \in L : \E q \in DependenciesOf(l)' : Best(q)' \in L
    BY <1>1, <2>1
  <2> QED
    BY <1>1, <2>1, <2>2 DEF HasCycle
<1>3. ASSUME HasCycle' PROVE HasCycle
  <2>1. PICK L \in (SUBSET Reached') \ {{}} : \A l \in L : \E q \in DependenciesOf(l)' : Best(q)' \in L
    BY <1>3 DEF HasCycle
  <2>2. \A l \in L : \E q \in DependenciesOf(l) : Best(q) \in L
    BY <1>1, <2>1
  <2> QED
    BY <1>1, <2>1, <2>2 DEF HasCycle
<1>4. HasCycle \in BOOLEAN /\ HasCycle' \in BOOLEAN
  BY DEF HasCycle
<1> QED
  BY <1>2, <1>3, <1>4

\* What the answer should be stays.
LEMMA OutcomeStays ==
  ASSUME Fixed, OutcomeAsExpected, req'.lapses = req.lapses, req'.at = req.at,
         req'.end = req.end, req'.layers = req.layers
  PROVE  OutcomeAsExpected'
<1>1. /\ Unambiguous' = Unambiguous /\ HasCycle' = HasCycle /\ Reached' = Reached
      /\ Asked' = Asked /\ Solvable(Asked)' = Solvable(Asked)
  BY FixedIs, CycleIs
<1>2. Delivered' = Delivered
  BY DEF Delivered
<1> QED
  BY <1>1, <1>2 DEF OutcomeAsExpected

\* An error is told when a query has no answer.
LEMMA ErrorAsExpected ==
  ASSUME TypeInv, Approaches, DependenciesError
  PROVE  OutcomeAsExpected'
<1>1. PICK q \in req.todo : q \in DOMAIN req.picked /\ req.picked[q] = NotFound
  BY DEF DependenciesError, Resolved
<1>2. q \in Asked /\ BestVersion(q) = NotFound
  BY <1>1 DEF Approaches, PicksStand, QueriesStand
<1>3. Fitting(q) = {}
  <2>1. Fitting(q) # {} => Max(Fitting(q)) \in Version
    BY FittingIs
  <2> QED
    BY <1>2, <2>1, LoadingGraphAssumption DEF BestVersion
<1>4. Solvable(Asked) # Asked
  BY <1>2, <1>3 DEF Solvable
<1>5. Fixed /\ req'.end = "dependencies"
  <2>1. Finish("dependencies", <<>>) /\ UNCHANGED <<table, local>> /\ <<>> \in Seq(SUBSET Lib)
    BY DEF DependenciesError
  <2>2. Apart(req, req', Ended) /\ req'.end = "dependencies"
    BY <2>1, FinishStep
  <2> QED
    BY <2>1, <2>2 DEF Apart, Ended, Fields, Fixed
<1>6. Solvable(Asked)' # Asked'
  BY <1>4, <1>5, FixedIs
<1> QED
  BY <1>5, <1>6 DEF OutcomeAsExpected

\* When no round remains, all that was asked is resolved, and the libraries read are
\* those that can be reached, each under the symbol of the queries it answers.
LEMMA RoundsEnd ==
  ASSUME TypeInv, Approaches, Unambiguous, req.at = "data", req.missing = {}
  PROVE  /\ req.queries \subseteq DOMAIN req.resolved /\ Solvable(Asked) = Asked
         /\ Reached = {req.items[s].lib : s \in DOMAIN req.items}
         /\ \A l \in Reached : /\ SymbolOf(l) \in DOMAIN req.items
                               /\ req.items[SymbolOf(l)] = [lib |-> l, deps |-> DependenciesOf(l)]
         /\ \A l \in Reached : \A q \in DependenciesOf(l) :
              Best(q) \in Reached /\ SymbolFor(q) = SymbolOf(Best(q))
<1> DEFINE Libs == {req.items[s].lib : s \in DOMAIN req.items}
<1>1. ASSUME NEW s \in DOMAIN req.items
      PROVE  /\ req.items[s].lib \in Reached /\ SymbolOf(req.items[s].lib) = s
             /\ req.items[s] = [lib |-> req.items[s].lib, deps |-> DependenciesOf(req.items[s].lib)]
             /\ DependenciesOf(req.items[s].lib) \subseteq req.queries
  <2>1. req.items[s] \in [lib : Lib, deps : SUBSET Query] /\ SymbolOf(req.items[s].lib) = s
    BY DEF TypeInv, Typed, ReadOK, IsPartial
  <2>2. /\ req.items[s].lib \in Reached /\ req.items[s].deps = DependenciesOf(req.items[s].lib)
        /\ req.items[s].deps \subseteq req.queries
    BY DEF Approaches, LibrariesStand
  <2> QED
    BY <2>1, <2>2
<1>2. ASSUME NEW q \in req.roots \cup req.queries
      PROVE  /\ q \in DOMAIN req.resolved /\ q \in Solvable(Asked) /\ Best(q) \in Libs
             /\ Best(q) \in Reached /\ SymbolFor(q) = SymbolOf(Best(q))
  <2>1. q \in DOMAIN req.resolved
    BY DEF Approaches, QueriesStand
  <2>2. /\ q \in Solvable(Asked) /\ req.resolved[q] = Max(Fitting(q))
        /\ SymbolFor(q) \in DOMAIN req.items
    BY <2>1 DEF Approaches, ResolutionsStand
  <2>3. SymbolFor(q) = SymbolOf(Best(q))
    BY <2>2 DEF SymbolFor, SymbolOf, Best
  <2>4. Best(q) \in Reached
    BY <2>2, BestReached
  <2>5. Best(q) = req.items[SymbolFor(q)].lib
    BY <1>1, <2>2, <2>3, <2>4 DEF Unambiguous
  <2> QED
    BY <2>1, <2>2, <2>3, <2>4, <2>5
<1>3. Libs \subseteq Reached
  BY <1>1
<1>4. Reached \subseteq Libs
  <2>1. \A l \in Libs : DependenciesOf(l) \subseteq req.queries
    BY <1>1
  <2>2. req.roots \cup UNION {DependenciesOf(l) : l \in Libs} \subseteq req.roots \cup req.queries
    <3> HIDE DEF Libs
    <3> QED
      BY <2>1
  <2>3. IsClosed(Libs)
    <3> HIDE DEF Libs
    <3> QED
      BY <1>2, <2>2 DEF IsClosed, Solvable
  <2>4. Libs \in SUBSET Filed
    BY <1>3, ReachedIs
  <2> HIDE DEF Libs
  <2> QED
    BY <2>3, <2>4, ReachedIs
<1>5. ASSUME NEW l \in Reached
      PROVE  /\ SymbolOf(l) \in DOMAIN req.items
             /\ req.items[SymbolOf(l)] = [lib |-> l, deps |-> DependenciesOf(l)]
             /\ DependenciesOf(l) \subseteq req.queries
  <2>1. PICK s \in DOMAIN req.items : l = req.items[s].lib
    BY <1>4
  <2> QED
    BY <1>1, <2>1
<1>6. Asked \subseteq req.roots \cup req.queries
  BY <1>5 DEF Asked
<1>7. Solvable(Asked) = Asked
  BY <1>2, <1>6 DEF Solvable
<1>8. \A l \in Reached : \A q \in DependenciesOf(l) :
        Best(q) \in Reached /\ SymbolFor(q) = SymbolOf(Best(q))
  BY <1>2, <1>5
<1> QED
  BY <1>2, <1>3, <1>4, <1>5, <1>7, <1>8

\* Then all the libraries are in layers unless some depend on each other in a circle.
LEMMA LayersUnlessCycle ==
  ASSUME TypeInv, Approaches, Unambiguous, req.at = "data", req.missing = {}
  PROVE  HasCycle <=> UNION ToSet(LayersOf(req.items)) # DOMAIN req.items
<1> DEFINE items == req.items
           D == DOMAIN items
<1>1. /\ \A s \in D : /\ items[s].lib \in Reached /\ SymbolOf(items[s].lib) = s
                      /\ items[s].deps = DependenciesOf(items[s].lib)
      /\ \A l \in Reached : /\ SymbolOf(l) \in D /\ items[SymbolOf(l)].lib = l
                            /\ items[SymbolOf(l)].deps = DependenciesOf(l)
      /\ \A l \in Reached : \A q \in DependenciesOf(l) :
           Best(q) \in Reached /\ SymbolFor(q) = SymbolOf(Best(q))
  <2>1. /\ Reached = {items[s].lib : s \in D}
        /\ \A l \in Reached : SymbolOf(l) \in D /\ items[SymbolOf(l)] = [lib |-> l, deps |-> DependenciesOf(l)]
        /\ \A l \in Reached : \A q \in DependenciesOf(l) :
             Best(q) \in Reached /\ SymbolFor(q) = SymbolOf(Best(q))
    BY RoundsEnd
  <2>2. \A s \in D : SymbolOf(items[s].lib) = s
    BY DEF TypeInv, Typed, ReadOK
  <2> HIDE DEF items
  <2>3. ASSUME NEW l \in Reached
        PROVE  items[SymbolOf(l)].lib = l /\ items[SymbolOf(l)].deps = DependenciesOf(l)
    <3>1. items[SymbolOf(l)] = [lib |-> l, deps |-> DependenciesOf(l)]
      BY <2>1
    <3> QED
      BY <3>1
  <2>4. ASSUME NEW s \in D
        PROVE  items[s].lib \in Reached /\ items[s].deps = DependenciesOf(items[s].lib)
    <3>1. items[s].lib \in Reached
      BY <2>1
    <3> QED
      BY <2>2, <2>3, <3>1
  <2> QED
    BY <2>1, <2>2, <2>3, <2>4
<1> HIDE DEF items
<1>2. IsFiniteSet(D)
  BY FewItems DEF items
<1>3. ASSUME HasCycle, UNION ToSet(LayersOf(items)) = D PROVE FALSE
  <2>1. PICK L \in (SUBSET Reached) \ {{}} : \A l \in L : \E q \in DependenciesOf(l) : Best(q) \in L
    BY <1>3 DEF HasCycle
  <2> DEFINE S == {SymbolOf(l) : l \in L}
  <2>2. S \in SUBSET D /\ S # {}
    <3>1. L # {} /\ \A l \in L : l \in Reached /\ SymbolOf(l) \in D
      BY <1>1, <2>1
    <3> HIDE DEF D
    <3> QED
      BY <3>1
  <2>3. \A s \in S : \E q \in items[s].deps : SymbolFor(q) \in S
    <3> SUFFICES ASSUME NEW l \in L
                 PROVE  \E q \in items[SymbolOf(l)].deps : SymbolFor(q) \in S
      OBVIOUS
    <3>1. PICK q \in DependenciesOf(l) : Best(q) \in L
      BY <2>1
    <3>2. l \in Reached /\ q \in items[SymbolOf(l)].deps /\ SymbolFor(q) = SymbolOf(Best(q))
      BY <1>1, <2>1, <3>1
    <3> QED
      BY <3>1, <3>2
  <2> HIDE DEF S
  <2> QED
    BY <1>2, <1>3, <2>2, <2>3, LayersOrdered, NoneStuck
<1>4. ASSUME UNION ToSet(LayersOf(items)) # D PROVE HasCycle
  <2>1. PICK S \in SUBSET D : Ready(items, S) = {} /\ S # {}
    BY <1>2, <1>4, AllOrStuck
  <2> DEFINE L == {items[s].lib : s \in S}
  <2>2. L \in (SUBSET Reached) \ {{}}
    <3>1. S # {} /\ \A s \in S : items[s].lib \in Reached
      BY <1>1, <2>1
    <3> QED
      BY <3>1
  <2>3. ASSUME NEW s \in S PROVE \E q \in DependenciesOf(items[s].lib) : Best(q) \in L
    <3>1. PICK q \in items[s].deps : SymbolFor(q) \notin D \ S
      BY <2>1 DEF Ready
    <3>2. /\ q \in DependenciesOf(items[s].lib) /\ Best(q) \in Reached
          /\ SymbolFor(q) = SymbolOf(Best(q))
      BY <1>1, <2>1, <3>1
    <3>3. SymbolFor(q) \in S /\ items[SymbolFor(q)].lib = Best(q)
      BY <1>1, <3>1, <3>2
    <3> QED
      BY <3>2, <3>3
  <2> QED
    BY <2>2, <2>3 DEF HasCycle
<1> QED
  BY <1>3, <1>4 DEF items

\* What is told when no round remains is the answer.
LEMMA LayersAsExpected ==
  ASSUME TypeInv, Approaches, Unambiguous, Layers
  PROVE  OutcomeAsExpected'
<1> DEFINE layers == LayersOf(req.items)
<1>1. req.at = "data" /\ req.missing = {} /\ UNCHANGED <<table, local>>
  BY DEF Layers
<1>2. /\ req.queries \subseteq DOMAIN req.resolved /\ Solvable(Asked) = Asked
      /\ Reached = {req.items[s].lib : s \in DOMAIN req.items}
  BY <1>1, RoundsEnd
<1>3. HasCycle <=> UNION ToSet(layers) # DOMAIN req.items
  BY <1>1, LayersUnlessCycle
<1>4. \/ HasCycle /\ Finish("circular", <<>>)
      \/ ~ HasCycle /\ Finish("graph", Told(layers))
  BY <1>2, <1>3 DEF Layers, Told
<1>5. layers \in Seq(SUBSET DOMAIN req.items)
  BY FewItems, LayersOrdered DEF Ordered
<1> HIDE DEF layers
<1>6. <<>> \in Seq(SUBSET Lib) /\ Told(layers) \in Seq(SUBSET Lib)
  BY <1>5, ToldType
<1>7. /\ Apart(req, req', Ended)
      /\ \/ HasCycle /\ req'.end = "circular"
         \/ ~ HasCycle /\ req'.end = "graph" /\ req'.layers = Told(layers)
  <2>1. CASE HasCycle /\ Finish("circular", <<>>)
    BY <1>1, <1>6, <2>1, FinishStep
  <2>2. CASE ~ HasCycle /\ Finish("graph", Told(layers))
    BY <1>1, <1>6, <2>2, FinishStep
  <2> QED
    BY <1>4, <2>1, <2>2
<1>8. Fixed
  BY <1>1, <1>7 DEF Apart, Ended, Fields, Fixed
<1>9. ~ HasCycle => UNION ToSet(Told(layers)) = Reached
  <2> SUFFICES ASSUME UNION ToSet(layers) = DOMAIN req.items
               PROVE  UNION ToSet(Told(layers)) = Reached
    BY <1>3 DEF layers
  <2>1. DOMAIN Told(layers) = DOMAIN layers
    BY DEF Told
  <2>2. \A i \in DOMAIN layers : Told(layers)[i] = {req.items[s].lib : s \in layers[i]}
    BY DEF Told
  <2>3. \A i \in DOMAIN layers : Told(layers)[i] \subseteq Reached
    BY <1>2, <2>2 DEF ToSet
  <2>4. ASSUME NEW s \in DOMAIN req.items
        PROVE  \E i \in DOMAIN layers : req.items[s].lib \in Told(layers)[i]
    <3>1. PICK i \in DOMAIN layers : s \in layers[i]
      BY <2>4 DEF ToSet
    <3> QED
      BY <2>2, <3>1
  <2> QED
    BY <1>2, <2>1, <2>3, <2>4 DEF ToSet
<1>10. HasCycle' = HasCycle /\ Reached' = Reached /\ Solvable(Asked)' = Asked'
  BY <1>2, <1>8, FixedIs, CycleIs
<1> QED
  BY <1>7, <1>9, <1>10 DEF OutcomeAsExpected, Delivered

\* Nothing is expected of the answer before a request ends, nor when something happened.
LEMMA NotYet ==
  ASSUME req'.at \in {"idle", "versions", "data", "done"},
         \/ req'.lapses # <<>>
         \/ req'.at = "idle"
         \/ req'.at # "done" /\ (req'.lapses = <<>> /\ Unambiguous' => Approaches')
  PROVE  OutcomeInv'
BY DEF OutcomeInv, OutcomeAsExpected

LEMMA LapseIsSeen ==
  ASSUME TypeInv, NEW lapse \in {"published", "deleted", "failure"}, Lapses(lapse)
  PROVE  req'.lapses # <<>>
<1>1. req.lapses \in Seq({"published", "deleted", "failure"})
  BY DEF TypeInv, Typed, EndOK
<1>2. lapse \in ToSet(req'.lapses)
  BY <1>1, LapseIs DEF Lapses
<1>3. ToSet(<<>>) = {}
  BY DEF ToSet
<1> QED
  BY <1>2, <1>3

\* Every step keeps to the way to the fixed point, and the last one ends there.
LEMMA OutcomeStep ==
  ASSUME TypeInv, OutcomeInv, [Next]_vars
  PROVE  OutcomeInv'
<1>0. req'.at \in {"idle", "versions", "data", "done"}
  BY TypeStep DEF TypeInv, Typed, AskedOK
<1>1. ASSUME Fixed, req'.lapses = req.lapses, req.at \in {"versions", "data"},
             req'.lapses = <<>>, Unambiguous'
      PROVE  Approaches /\ Unambiguous
  BY <1>1, FixedIs DEF OutcomeInv
<1>2. ASSUME NEW asked \in Requests, Start(asked) PROVE OutcomeInv'
  <2>1. req'.at = "versions" /\ Approaches'
    BY <1>2, StartStep, StartApproaches
  <2> QED
    BY <2>1, NotYet
<1>3. CASE Step
  <2>0. \A q \in req.todo : q \in Query
    BY DEF TypeInv, Typed, AskedOK
  <2>1. ASSUME NEW q \in req.todo, ResolveMalformed(q) \/ ResolveListed(q) \/ ResolveCached(q)
        PROVE  OutcomeInv'
    <3>1. \E v : Resolves(q, v) /\ req'.lapses = req.lapses
      BY <2>0, <2>1, MalformedStep, ListedStep, CachedStep DEF Resolves
    <3>2. /\ Fixed /\ req'.lapses = req.lapses /\ req.at = "versions" /\ req'.at = "versions"
      BY <3>1 DEF Resolves, Apart, Fields, Fixed
    <3>3. req'.lapses = <<>> /\ Unambiguous' => Approaches'
      BY <1>1, <2>1, <3>2, ResolveApproaches
    <3> QED
      BY <3>2, <3>3, NotYet
  <2>2. ASSUME NEW q \in req.todo, ListFails(q) PROVE OutcomeInv'
    BY <1>0, <2>0, <2>2, ListFailsStep, LapseIsSeen, NotYet
  <2>3. CASE DependenciesError
    <3>1. Finish("dependencies", <<>>) /\ UNCHANGED <<table, local>> /\ <<>> \in Seq(SUBSET Lib)
          /\ req.at = "versions"
      BY <2>3 DEF DependenciesError, Resolved
    <3>2. Apart(req, req', Ended) /\ req'.at = "done"
      BY <3>1, FinishStep
    <3>3. Fixed /\ req'.lapses = req.lapses
      BY <3>1, <3>2 DEF Apart, Ended, Fields, Fixed
    <3>4. req'.lapses = <<>> /\ Unambiguous' => OutcomeAsExpected'
      BY <1>1, <2>3, <3>1, <3>3, ErrorAsExpected
    <3> QED
      BY <3>2, <3>4 DEF OutcomeInv, OutcomeAsExpected
  <2>4. ASSUME NEW missing \in SUBSET Lib, GatherData(missing) PROVE OutcomeInv'
    <3>1. /\ Fixed /\ req'.lapses = req.lapses /\ req.at = "versions" /\ req'.at = "data"
      BY <2>4, GatherStep DEF Apart, Fields, Fixed
    <3>2. req'.lapses = <<>> /\ Unambiguous' => Approaches'
      BY <1>1, <2>4, <3>1, GatherApproaches
    <3> QED
      BY <3>1, <3>2, NotYet
  <2>5. ASSUME NEW l \in req.missing, GetData(l) PROVE OutcomeInv'
    <3>1. l \in Lib
      BY DEF TypeInv, Typed, ReadOK
    <3>2. /\ Fixed /\ req'.lapses = req.lapses /\ req.at = "data" /\ req'.at = "data"
      BY <2>5, <3>1, GetDataStep DEF Apart, Fields, Fixed
    <3>3. req'.lapses = <<>> /\ Unambiguous' => Approaches'
      BY <1>1, <2>5, <3>1, <3>2, GetDataApproaches
    <3> QED
      BY <3>2, <3>3, NotYet
  <2>6. ASSUME NEW l \in req.missing, GetDataFails(l) PROVE OutcomeInv'
    <3>1. l \in Lib
      BY DEF TypeInv, Typed, ReadOK
    <3> QED
      BY <1>0, <2>6, <3>1, GetDataFailsStep, LapseIsSeen, NotYet
  <2>7. CASE NextRound
    <3>1. /\ Fixed /\ req'.lapses = req.lapses /\ req.at = "data" /\ req'.at = "versions"
      BY <2>7, NextRoundStep DEF Apart, Fields, Fixed
    <3>2. req'.lapses = <<>> /\ Unambiguous' => Approaches'
      BY <1>1, <2>7, <3>1, NextRoundApproaches
    <3> QED
      BY <3>1, <3>2, NotYet
  <2>8. CASE Layers
    <3>1. /\ Apart(req, req', Ended) /\ UNCHANGED <<table, local>> /\ req.at = "data" /\ TypeInv'
      BY <2>8, LayersStep
    <3>2. Fixed /\ req'.lapses = req.lapses
      BY <3>1 DEF Apart, Ended, Fields, Fixed
    <3>3. req'.at = "done"
      <4>1. \E end, layers : Finish(end, layers)
        BY <2>8 DEF Layers
      <4> QED
        BY <4>1 DEF Finish, TypeInv, Typed, Fields
    <3>4. req'.lapses = <<>> /\ Unambiguous' => OutcomeAsExpected'
      BY <1>1, <2>8, <3>1, <3>2, LayersAsExpected
    <3> QED
      BY <3>3, <3>4 DEF OutcomeInv, OutcomeAsExpected
  <2> QED
    BY <1>3, <2>1, <2>2, <2>3, <2>4, <2>5, <2>6, <2>7, <2>8 DEF Step
<1>4. CASE Again
  BY <1>4, AgainStep, NotYet DEF NoRequest
<1>5. ASSUME NEW lapse \in {"published", "deleted"}, Changes(lapse) PROVE OutcomeInv'
  <2>1. req'.at = "idle" \/ Lapses(lapse)
    BY <1>5, ChangesStep
  <2> QED
    BY <1>0, <2>1, LapseIsSeen, NotYet
<1>6. ASSUME NEW l \in Lib, NEW deps \in Dependencies[l[1]],
             Publish(l, deps) \/ PublishLocal(l, deps)
      PROVE  OutcomeInv'
  <2>1. CASE Publish(l, deps)
    BY <1>5, <2>1, PublishStep
  <2>2. CASE PublishLocal(l, deps)
    BY <1>0, <2>2, PublishLocalStep, NotYet
  <2> QED
    BY <1>6, <2>1, <2>2
<1>7. ASSUME NEW l \in Lib, DeleteVersion(l) PROVE OutcomeInv'
  BY <1>5, <1>7, DeleteStep
<1>8. CASE UNCHANGED vars
  <2>1. /\ req' = req /\ Fixed
    BY <1>8 DEF vars, Fixed
  <2>2. OutcomeAsExpected'
    BY <2>1, OutcomeStays DEF OutcomeInv
  <2>3. ASSUME Approaches PROVE Approaches'
    <3>1. ListsStand' /\ PicksStand'
      BY <2>1, <2>3, FixedIs DEF Approaches, ListsStand, PicksStand
    <3>2. ResolutionsStand' /\ QueriesStand'
      BY <2>1, <2>3, FixedIs DEF Approaches, ResolutionsStand, QueriesStand, SymbolFor
    <3>3. LibrariesStand'
      BY <2>1, <2>3, FixedIs DEF Approaches, LibrariesStand
    <3> QED
      BY <3>1, <3>2, <3>3 DEF Approaches
  <2> QED
    BY <1>1, <2>1, <2>2, <2>3 DEF OutcomeInv
<1> QED
  BY <1>2, <1>3, <1>4, <1>6, <1>7, <1>8 DEF Next

\* When nothing happens while a request is resolved, the rounds find what a look at the
\* tables finds: an error if a query has no answer, a cycle if there is one, else the
\* libraries of the least fixed point, each in the greatest version that is admitted.
THEOREM RoundsFindTheFixedPoint ==
  Spec => []OutcomeAsExpected
<1>1. Init => OutcomeInv
  BY DEF Init, NoRequest, OutcomeInv, OutcomeAsExpected
<1>2. TypeInv /\ OutcomeInv /\ [Next]_vars => OutcomeInv'
  BY OutcomeStep
<1>3. OutcomeInv => OutcomeAsExpected
  BY DEF OutcomeInv
<1> QED
  BY <1>1, <1>2, <1>3, TypeInvariant, PTL DEF Spec
=================================================================================
