-------------------------- MODULE Manifest_proofs ---------------------------
(***************************************************************************)
(* Proofs about Manifest, for every frontend: the routes of a manifest     *)
(* open their pages, and the frontend that the migrator makes of an FI is  *)
(* served like that of the FI.                                             *)
(***************************************************************************)
EXTENDS Manifest, FiniteSetTheorems, TLAPS

-----------------------------------------------------------------------------
(* Sequences.                                                              *)

\* A set of numbers has a least one.
LEMMA LeastOfNaturals ==
    ASSUME NEW S \in SUBSET Nat, S # {}
    PROVE  \E m \in S : \A x \in S : m <= x
<1> DEFINE R == OpToRel(<, Nat)
<1>1. PICK m \in S : \A x \in S : ~(<<x, m>> \in R)
  BY NatLessThanWellFounded, WFMin, Zenon
<1>2. R = {ss \in Nat \X Nat : ss[1] < ss[2]}
  BY Zenon DEF OpToRel
<1>3. \A x \in S : ~(x < m)
  <2> HIDE DEF R
  <2> QED BY <1>1, <1>2
<1> QED BY <1>3

\* Induction from k up to n, over a set.
LEMMA InductionUpTo ==
    ASSUME NEW k \in Nat, NEW n \in Nat, NEW G, k \in G,
           \A m \in Nat : k < m /\ m <= n /\ m - 1 \in G => m \in G
    PROVE  \A m \in k .. n : m \in G
<1> DEFINE Bad == {m \in k .. n : m \notin G}
<1>1. ASSUME Bad # {} PROVE FALSE
  <2>1. Bad \in SUBSET Nat
    OBVIOUS
  <2> HIDE DEF Bad
  <2>2. PICK m \in Bad : \A i \in Bad : m <= i
    BY <1>1, <2>1, LeastOfNaturals
  <2> USE DEF Bad
  <2>3. m \in Nat /\ k < m /\ m <= n /\ m - 1 \in k .. n /\ m - 1 \notin Bad
    BY <2>2
  <2> QED BY <2>2, <2>3
<1> QED BY <1>1

\* A sequence, of whatever it has.
IsSequence(s) == s \in Seq(Range(s))

\* A sequence over some set is one over what it has.
LEMMA SequenceIs ==
    ASSUME NEW S, NEW s \in Seq(S)
    PROVE  IsSequence(s)
BY DEF IsSequence, Range

\* A join has the members of both.
LEMMA RangeOfJoin ==
    ASSUME NEW S, NEW s \in Seq(S), NEW t \in Seq(S)
    PROVE  s \o t \in Seq(S) /\ Range(s \o t) = Range(s) \cup Range(t)
<1>1. s \o t \in Seq(S) /\ Len(s \o t) = Len(s) + Len(t)
  OBVIOUS
<1>2. \A i \in 1 .. Len(s) : (s \o t)[i] = s[i]
  OBVIOUS
<1>3. \A i \in 1 .. Len(t) : (s \o t)[Len(s) + i] = t[i]
  OBVIOUS
<1>4. ASSUME NEW i \in 1 .. Len(s) + Len(t) PROVE (s \o t)[i] \in Range(s) \cup Range(t)
  <2>1. CASE i \in 1 .. Len(s)
    BY <1>2, <2>1 DEF Range
  <2>2. CASE i \notin 1 .. Len(s)
    <3>1. i - Len(s) \in 1 .. Len(t) /\ i = Len(s) + (i - Len(s))
      BY <2>2
    <3> QED BY <1>3, <3>1 DEF Range
  <2> QED BY <2>1, <2>2
<1>5. \A x \in Range(s) : x \in Range(s \o t)
  BY <1>1, <1>2 DEF Range
<1>6. ASSUME NEW x \in Range(t) PROVE x \in Range(s \o t)
  <2>1. PICK i \in 1 .. Len(t) : x = t[i]
    BY DEF Range
  <2>2. Len(s) + i \in 1 .. Len(s \o t) /\ (s \o t)[Len(s) + i] = x
    BY <1>1, <1>3, <2>1
  <2> QED BY <1>1, <2>2 DEF Range
<1>7. \A x \in Range(s \o t) : x \in Range(s) \cup Range(t)
  BY <1>1, <1>4 DEF Range
<1> HIDE DEF Range
<1> QED BY <1>1, <1>5, <1>6, <1>7

-----------------------------------------------------------------------------
(* FlattenSeq: the function it is defined by exists, and joins the         *)
(* sequences one by one.                                                   *)

\* f joins the first n sequences.
Joins(ss, n, f) ==
    /\ DOMAIN f = 1 .. n
    /\ f = [i \in 1 .. n |-> IF i = 1 THEN ss[i] ELSE f[i - 1] \o ss[i]]

\* There is a function that joins sequences up to each of them.
LEMMA JoinsExists ==
    ASSUME NEW S, NEW ss \in Seq(Seq(S))
    PROVE  \E f : Joins(ss, Len(ss), f)
<1> DEFINE G == {n \in Nat : \E f : Joins(ss, n, f)}
<1>1. 0 \in G
  <2>1. Joins(ss, 0, [i \in 1 .. 0 |-> IF i = 1 THEN ss[i] ELSE ss[i]])
    BY DEF Joins
  <2> QED BY <2>1
<1>2. ASSUME NEW m \in 1 .. Len(ss), m - 1 \in G PROVE m \in G
  <2>1. PICK f : Joins(ss, m - 1, f)
    BY <1>2
  <2> DEFINE g == [i \in 1 .. m |->
                      IF i = m THEN (IF i = 1 THEN ss[i] ELSE f[i - 1] \o ss[i]) ELSE f[i]]
  <2>2. \A i \in 1 .. m - 1 : g[i] = f[i]
    OBVIOUS
  <2>3. \A i \in 1 .. m - 1 : f[i] = IF i = 1 THEN ss[i] ELSE f[i - 1] \o ss[i]
    BY <2>1 DEF Joins
  <2>4. ASSUME NEW i \in 1 .. m PROVE g[i] = IF i = 1 THEN ss[i] ELSE g[i - 1] \o ss[i]
    <3>1. CASE i = m
      <4>1. i # 1 => g[i - 1] = f[i - 1]
        BY <2>2, <3>1
      <4>2. g[i] = IF i = 1 THEN ss[i] ELSE f[i - 1] \o ss[i]
        BY <3>1
      <4> QED BY <4>1, <4>2
    <3>2. CASE i # m
      <4>1. i \in 1 .. m - 1 /\ (i # 1 => i - 1 \in 1 .. m - 1)
        BY <3>2
      <4> HIDE DEF g
      <4> QED BY <2>2, <2>3, <4>1
    <3> QED BY <3>1, <3>2
  <2>5. g = [i \in 1 .. m |-> g[i]] /\ DOMAIN g = 1 .. m
    OBVIOUS
  <2>6. Joins(ss, m, g)
    <3> HIDE DEF g
    <3> QED BY <2>4, <2>5 DEF Joins
  <2> QED BY <2>6
<1>3. \A n \in 0 .. Len(ss) : n \in G
  <2>1. \A m \in Nat : 0 < m /\ m <= Len(ss) /\ m - 1 \in G => m \in G
    <3> HIDE DEF G
    <3> QED BY <1>2
  <2>2. 0 \in Nat /\ Len(ss) \in Nat
    OBVIOUS
  <2> HIDE DEF G
  <2> QED BY <1>1, <2>1, <2>2, InductionUpTo, Zenon
<1>4. Len(ss) \in 0 .. Len(ss)
  OBVIOUS
<1> QED BY <1>3, <1>4

\* Such a function is what FlattenSeq uses.
LEMMA FlattenSeqJoins ==
    ASSUME NEW S, NEW ss \in Seq(Seq(S)), Len(ss) # 0
    PROVE  \E f : Joins(ss, Len(ss), f) /\ FlattenSeq(ss) = f[Len(ss)]
<1> DEFINE f == CHOOSE g : g = [i \in 1 .. Len(ss) |->
                                  IF i = 1 THEN ss[i] ELSE g[i - 1] \o ss[i]]
<1>1. FlattenSeq(ss) = f[Len(ss)]
  BY DEF FlattenSeq
<1>2. f = [i \in 1 .. Len(ss) |-> IF i = 1 THEN ss[i] ELSE f[i - 1] \o ss[i]]
  BY JoinsExists DEF Joins
<1> QED BY <1>1, <1>2 DEF Joins

\* Joining sequences makes a sequence of the elements that they have.
LEMMA FlattenSeqHas ==
    ASSUME NEW S, NEW ss \in Seq(Seq(S))
    PROVE  /\ FlattenSeq(ss) \in Seq(S)
           /\ Range(FlattenSeq(ss)) = UNION {Range(ss[i]) : i \in 1 .. Len(ss)}
<1>1. CASE Len(ss) = 0
  <2>1. FlattenSeq(ss) = ss /\ ss = <<>>
    BY <1>1 DEF FlattenSeq
  <2> QED BY <1>1, <2>1 DEF Range
<1>2. CASE Len(ss) # 0
  <2>1. PICK f : Joins(ss, Len(ss), f) /\ FlattenSeq(ss) = f[Len(ss)]
    BY <1>2, FlattenSeqJoins
  <2>2. \A i \in 1 .. Len(ss) : f[i] = IF i = 1 THEN ss[i] ELSE f[i - 1] \o ss[i]
    BY <2>1 DEF Joins
  <2> DEFINE Has(i) == f[i] \in Seq(S) /\ Range(f[i]) = UNION {Range(ss[j]) : j \in 1 .. i}
             G == {i \in Nat : Has(i)}
  <2>3. Has(1)
    <3>1. UNION {Range(ss[j]) : j \in {1}} = Range(ss[1])
      BY Zenon
    <3>2. 1 .. 1 = {1} /\ f[1] = ss[1] /\ ss[1] \in Seq(S)
      BY <1>2, <2>2
    <3> QED BY <3>1, <3>2, Zenon
  <2>4. ASSUME NEW m \in 2 .. Len(ss), Has(m - 1) PROVE Has(m)
    <3>1. f[m] = f[m - 1] \o ss[m]
      <4>1. m \in 1 .. Len(ss) /\ m # 1
        OBVIOUS
      <4> HIDE DEF Has
      <4> QED BY <2>2, <4>1
    <3>0. f[m - 1] \in Seq(S) /\ ss[m] \in Seq(S)
      <4>1. f[m - 1] \in Seq(S)
        BY <2>4, Zenon
      <4> QED BY <4>1
    <3>2. f[m] \in Seq(S) /\ Range(f[m]) = Range(f[m - 1]) \cup Range(ss[m])
      BY <3>0, <3>1, RangeOfJoin
    <3>3. 1 .. m = (1 .. m - 1) \cup {m}
      OBVIOUS
    <3>4. UNION {Range(ss[j]) : j \in (1 .. m - 1) \cup {m}} =
             (UNION {Range(ss[j]) : j \in 1 .. m - 1}) \cup Range(ss[m])
      BY Zenon
    <3> QED BY <2>4, <3>2, <3>3, <3>4, Zenon
  <2>5. \A m \in 1 .. Len(ss) : m \in G
    <3> HIDE DEF Has
    <3>1. 1 \in G /\ 1 \in Nat /\ Len(ss) \in Nat
      BY <2>3
    <3>2. \A m \in Nat : 1 < m /\ m <= Len(ss) /\ m - 1 \in G => m \in G
      BY <2>4
    <3> HIDE DEF G
    <3> QED BY <3>1, <3>2, InductionUpTo, Zenon
  <2>6. Has(Len(ss))
    <3> HIDE DEF Has
    <3> QED BY <1>2, <2>5
  <2> QED BY <2>1, <2>6
<1> QED BY <1>1, <1>2

\* Joining sequences of one element gives the sequence of these.
LEMMA FlattenSeqOfOnes ==
    ASSUME NEW S, NEW s \in Seq(S)
    PROVE  FlattenSeq([i \in DOMAIN s |-> <<s[i]>>]) = s
<1> DEFINE ss == [i \in DOMAIN s |-> <<s[i]>>]
<1>a. DOMAIN s = 1 .. Len(s) /\ Len(s) \in Nat /\ \A i \in 1 .. Len(s) : s[i] \in S
  OBVIOUS
<1>b. \A i \in 1 .. Len(s) : ss[i] = <<s[i]>> /\ ss[i] \in Seq(S)
  BY <1>a
<1>c. DOMAIN ss = 1 .. Len(s) /\ ss = [i \in 1 .. Len(s) |-> ss[i]]
  BY <1>a
<1>0. ss \in Seq(Seq(S)) /\ Len(ss) = Len(s)
  <2> HIDE DEF ss
  <2>1. ss \in [1 .. Len(s) -> Seq(S)]
    BY <1>b, <1>c
  <2> QED BY <1>a, <1>c, <2>1
<1> HIDE DEF ss
<1> SUFFICES FlattenSeq(ss) = s
  BY DEF ss
<1>1. CASE Len(s) = 0
  BY <1>0, <1>1, <1>c DEF FlattenSeq
<1>2. CASE Len(s) # 0
  <2>1. PICK f : Joins(ss, Len(ss), f) /\ FlattenSeq(ss) = f[Len(ss)]
    BY <1>0, <1>2, FlattenSeqJoins
  <2>2. \A i \in 1 .. Len(s) : f[i] = IF i = 1 THEN <<s[i]>> ELSE f[i - 1] \o <<s[i]>>
    BY <1>0, <1>b, <2>1 DEF Joins
  <2> DEFINE FirstOf(i) == [j \in 1 .. i |-> s[j]]
             G == {i \in Nat : f[i] = FirstOf(i)}
  <2>3. \A m \in 1 .. Len(s) : m \in G
    <3>1. 1 \in G
      <4>1. f[1] = <<s[1]>> /\ <<s[1]>> = FirstOf(1)
        BY <1>2, <2>2
      <4> QED BY <4>1
    <3>2. ASSUME NEW m \in 2 .. Len(s), m - 1 \in G PROVE m \in G
      <4>1. f[m - 1] = FirstOf(m - 1)
        BY <3>2, Zenon
      <4>4. f[m] = f[m - 1] \o <<s[m]>>
        <5> HIDE DEF FirstOf
        <5>1. m \in 1 .. Len(s) /\ m # 1
          OBVIOUS
        <5> QED BY <2>2, <5>1
      <4>2. FirstOf(m - 1) \in Seq(S) /\ Len(FirstOf(m - 1)) = m - 1 /\ s[m] \in S
        OBVIOUS
      <4>3. FirstOf(m - 1) \o <<s[m]>> = FirstOf(m)
        BY <4>2
      <4>5. f[m] = FirstOf(m) /\ m \in Nat
        <5> HIDE DEF FirstOf
        <5> QED BY <4>1, <4>3, <4>4
      <4> QED BY <4>5, Zenon
    <3> HIDE DEF G
    <3>3. \A m \in Nat : 1 < m /\ m <= Len(s) /\ m - 1 \in G => m \in G
      BY <3>2
    <3>4. 1 \in Nat /\ Len(s) \in Nat
      OBVIOUS
    <3> QED BY <3>1, <3>3, <3>4, InductionUpTo, Zenon
  <2>4. s = [j \in 1 .. Len(s) |-> s[j]]
    OBVIOUS
  <2>5. f[Len(s)] = FirstOf(Len(s))
    <3> HIDE DEF FirstOf
    <3> QED BY <1>2, <1>a, <2>3
  <2> QED BY <1>0, <2>1, <2>4, <2>5
<1> QED BY <1>1, <1>2

-----------------------------------------------------------------------------
(* Resolving and rendering.                                                *)

\* An input of the renderer has sequences of menus and of children.
HasMenus(input) ==
    /\ IsSequence(input.menus)
    /\ \A menu \in Range(input.menus) : IsSequence(menu.children)

\* The bindings of a menu are a sequence.
LEMMA MenuBindingsAre ==
    ASSUME NEW input, NEW menu, IsSequence(menu.children)
    PROVE  IsSequence(MenuBindings(input, menu))
<1> DEFINE binding(child) ==
              [placement |-> menu.placement, route |-> <<menu.key, child.key>>,
               pageKey |-> PageKey(input, child.key, child.pageKey)]
           bs == [i \in DOMAIN menu.children |-> binding(menu.children[i])]
<1>1. CASE menu.type = "page"
  BY <1>1 DEF IsSequence, MenuBindings, Range
<1>2. CASE menu.type # "page"
  <2>1. MenuBindings(input, menu) = bs
    BY <1>2 DEF MenuBindings
  <2>2. DOMAIN menu.children = 1 .. Len(menu.children) /\ Len(menu.children) \in Nat
    BY DEF IsSequence
  <2>3. DOMAIN bs = 1 .. Len(menu.children) /\ bs = [i \in DOMAIN bs |-> bs[i]]
    BY <2>2
  <2> HIDE DEF bs
  <2>4. bs \in [1 .. Len(menu.children) -> Range(bs)]
    BY <2>3 DEF Range
  <2>5. bs \in Seq(Range(bs))
    BY <2>2, <2>4
  <2> QED BY <2>1, <2>5 DEF IsSequence
<1> QED BY <1>1, <1>2

\* The bindings of an input are those of its menus.
LEMMA BindingsAre ==
    ASSUME NEW input, HasMenus(input)
    PROVE  /\ IsSequence(Bindings(input))
           /\ Range(Bindings(input)) =
                 UNION {Range(MenuBindings(input, menu)) : menu \in Range(input.menus)}
<1> DEFINE ss == [i \in DOMAIN input.menus |-> MenuBindings(input, input.menus[i])]
           S == UNION {Range(MenuBindings(input, menu)) : menu \in Range(input.menus)}
           n == Len(input.menus)
<1>1. n \in Nat /\ DOMAIN input.menus = 1 .. n
  BY DEF HasMenus, IsSequence
<1>2. ASSUME NEW i \in 1 .. n PROVE ss[i] \in Seq(S) /\ Range(ss[i]) \subseteq S
  <2>1. input.menus[i] \in Range(input.menus) /\ ss[i] = MenuBindings(input, input.menus[i])
    BY <1>1 DEF Range
  <2>2. IsSequence(ss[i])
    BY <2>1, MenuBindingsAre DEF HasMenus
  <2>3. Range(ss[i]) \subseteq S
    BY <2>1, Zenon
  <2> HIDE DEF ss, S
  <2>4. DOMAIN ss[i] = 1 .. Len(ss[i]) /\ Len(ss[i]) \in Nat /\ ss[i] \in [1 .. Len(ss[i]) -> S]
    BY <2>2, <2>3 DEF IsSequence
  <2> QED BY <2>3, <2>4
<1>3. DOMAIN ss = 1 .. n /\ ss = [i \in 1 .. n |-> ss[i]]
  BY <1>1
<1>4. ss \in Seq(Seq(S)) /\ Len(ss) = n
  <2> HIDE DEF ss, S
  <2>1. ss \in [1 .. n -> Seq(S)]
    BY <1>2, <1>3
  <2> QED BY <1>1, <1>3, <2>1
<1>5. Bindings(input) = FlattenSeq(ss)
  BY DEF Bindings
<1>6. FlattenSeq(ss) \in Seq(S) /\ Range(FlattenSeq(ss)) = UNION {Range(ss[i]) : i \in 1 .. n}
  <2> HIDE DEF ss, S
  <2> QED BY <1>4, FlattenSeqHas
<1>7. UNION {Range(ss[i]) : i \in 1 .. n} = S
  <2>1. \A i \in 1 .. n : ss[i] = MenuBindings(input, input.menus[i])
    BY <1>1
  <2>2. Range(input.menus) = {input.menus[i] : i \in 1 .. n}
    BY <1>1 DEF Range
  <2> HIDE DEF ss
  <2>3. \A x : x \in S <=> \E i \in 1 .. n : x \in Range(ss[i])
    BY <2>1, <2>2, Zenon
  <2> QED BY <2>3, Zenon
<1> HIDE DEF ss, S
<1>8. IsSequence(Bindings(input)) /\ Range(Bindings(input)) = S
  BY <1>5, <1>6, <1>7, SequenceIs
<1> QED BY <1>8 DEF S

\* A binding has one page, of a good shape, for its placement.
LEMMA OnePage ==
    ASSUME NEW input, Resolves(input), NEW b \in Range(Bindings(input))
    PROVE  \E page : /\ PagesOf(input, b) = {page} /\ page.key = b.pageKey
                     /\ PageShapeOK(page) /\ PageAcceptsPlacement(page, b.placement)
<1>1. PICK page \in PagesOf(input, b) : PageAcceptsPlacement(page, b.placement)
  BY DEF Resolves
<1>2. PICK i \in DOMAIN input.pages : page = input.pages[i] /\ page.key = b.pageKey
  BY <1>1 DEF PagesOf
<1>3. \A j \in DOMAIN input.pages :
         input.pages[j].key = b.pageKey => j \in ReferencedPages(input)
  BY DEF ReferencedPages
<1>4. \A j \in DOMAIN input.pages : input.pages[j].key = b.pageKey => j = i
  BY <1>2, <1>3 DEF Resolves
<1>5. PagesOf(input, b) = {page}
  BY <1>2, <1>4 DEF PagesOf
<1> QED BY <1>1, <1>2, <1>3, <1>5 DEF Resolves

\* Bindings of one page id are for one placement and one page.
LEMMA PageIdsTell ==
    ASSUME NEW input, Resolves(input), NEW i \in DOMAIN Bindings(input),
           NEW j \in DOMAIN Bindings(input),
           PageId(input, Bindings(input)[i]) = PageId(input, Bindings(input)[j])
    PROVE  /\ Bindings(input)[i].placement = Bindings(input)[j].placement
           /\ PagesOf(input, Bindings(input)[i]) = PagesOf(input, Bindings(input)[j])
<1> DEFINE bs == Bindings(input)
<1>1. bs[i].placement = bs[j].placement
  BY DEF PageId
<1>2. CASE input.requirePageKey
  BY <1>1, <1>2 DEF PageId, PagesOf
<1>3. CASE ~input.requirePageKey
  <2>1. bs[i].route = bs[j].route
    BY <1>3 DEF PageId
  <2>2. i = j
    BY <1>1, <2>1 DEF Resolves
  <2> QED BY <2>2
<1> QED BY <1>1, <1>2, <1>3

\* The pages that the manifest has for the id of a binding are those of the
\* binding: one, for its placement.
LEMMA RouteOpens ==
    ASSUME NEW input, HasMenus(input), Resolves(input), NEW b \in Range(Bindings(input))
    PROVE  {p \in RenderedPages(input) : p.id = PageId(input, b)} =
           {[id |-> PageId(input, b), placement |-> b.placement, page |-> page] :
                page \in PagesOf(input, b)}
<1> DEFINE bs == Bindings(input)
           id(i) == PageId(input, bs[i])
           first == {i \in DOMAIN bs : \A j \in 1 .. i - 1 : id(j) # id(i)}
           rendered(i) == [id |-> id(i), placement |-> bs[i].placement,
                           page |-> CHOOSE page \in PagesOf(input, bs[i]) : TRUE]
<1>1. DOMAIN bs = 1 .. Len(bs) /\ Len(bs) \in Nat
  BY BindingsAre DEF IsSequence
<1>2. PICK k \in DOMAIN bs : b = bs[k]
  BY DEF Range
<1>3. RenderedPages(input) = {rendered(i) : i \in first}
  BY DEF RenderedPages
<1>4. PICK m \in DOMAIN bs : id(m) = id(k) /\ \A i \in DOMAIN bs : id(i) = id(k) => m <= i
  <2> DEFINE S == {i \in DOMAIN bs : id(i) = id(k)}
  <2>1. S \in SUBSET Nat /\ S # {}
    BY <1>1
  <2>2. PICK m \in S : \A i \in S : m <= i
    <3> HIDE DEF S
    <3> QED BY <2>1, LeastOfNaturals
  <2> QED BY <2>2
<1>5. bs[m].placement = b.placement /\ PagesOf(input, bs[m]) = PagesOf(input, b)
  BY <1>2, <1>4, PageIdsTell
<1>6. PICK page : PagesOf(input, b) = {page}
  BY OnePage
<1>7. rendered(m) = [id |-> PageId(input, b), placement |-> b.placement, page |-> page]
  BY <1>2, <1>4, <1>5, <1>6
<1>8. \A i \in first : id(i) = id(k) <=> i = m
  <2> HIDE DEF id
  <2>1. ASSUME NEW i \in first, id(i) = id(k) PROVE i = m
    <3>1. m <= i /\ ~(m \in 1 .. i - 1)
      BY <1>4, <2>1
    <3> QED BY <1>1, <3>1
  <2> QED BY <1>4, <2>1
<1>9. m \in first
  <2> HIDE DEF id
  <2>1. \A j \in 1 .. m - 1 : j \in DOMAIN bs /\ ~(m <= j)
    BY <1>1
  <2> QED BY <1>4, <2>1
<1>10. {p \in RenderedPages(input) : p.id = PageId(input, b)} = {rendered(m)}
  <2>1. \A i : rendered(i).id = id(i)
    OBVIOUS
  <2>2. PageId(input, b) = id(k)
    BY <1>2
  <2> HIDE DEF rendered, id, first
  <2> QED BY <1>3, <1>8, <1>9, <2>1, <2>2
<1>11. {[id |-> PageId(input, b), placement |-> b.placement, page |-> x] :
           x \in PagesOf(input, b)} =
       {[id |-> PageId(input, b), placement |-> b.placement, page |-> page]}
  BY <1>6
<1> QED BY <1>7, <1>10, <1>11

\* What a user sees is, binding by binding, the page that it is bound to.
LEMMA ServedIs ==
    ASSUME NEW input, HasMenus(input), Resolves(input)
    PROVE  Served(input) =
           {[placement |-> b.placement, path |-> b.route,
             opens |-> {<<b.placement, Content(page)>> : page \in PagesOf(input, b)}] :
                b \in Range(Bindings(input))}
<1> DEFINE bs == Range(Bindings(input))
           opens(id) == {<<p.placement, Content(p.page)>> :
                            p \in {q \in RenderedPages(input) : q.id = id}}
           shows(b) == {<<b.placement, Content(page)>> : page \in PagesOf(input, b)}
           route(b) == [placement |-> b.placement, path |-> b.route,
                        pageId |-> PageId(input, b)]
           seen(r) == [placement |-> r.placement, path |-> r.path, opens |-> opens(r.pageId)]
           serves(b) == [placement |-> b.placement, path |-> b.route, opens |-> shows(b)]
<1>1. ASSUME NEW b \in bs PROVE opens(PageId(input, b)) = shows(b)
  <2> DEFINE page(x) == [id |-> PageId(input, b), placement |-> b.placement, page |-> x]
  <2>1. {p \in RenderedPages(input) : p.id = PageId(input, b)} =
           {page(x) : x \in PagesOf(input, b)}
    BY RouteOpens
  <2>2. \A x : page(x).placement = b.placement /\ page(x).page = x
    OBVIOUS
  <2> HIDE DEF page
  <2>3. opens(PageId(input, b)) = {<<p.placement, Content(p.page)>> :
                                        p \in {page(x) : x \in PagesOf(input, b)}}
    BY <2>1
  <2>4. opens(PageId(input, b)) =
           {<<page(x).placement, Content(page(x).page)>> : x \in PagesOf(input, b)}
    BY <2>3, Zenon
  <2> HIDE DEF opens
  <2> QED BY <2>2, <2>4, Zenon
<1>2. ASSUME NEW b \in bs PROVE seen(route(b)) = serves(b)
  <2>1. /\ route(b).placement = b.placement /\ route(b).path = b.route
        /\ route(b).pageId = PageId(input, b)
    OBVIOUS
  <2> HIDE DEF opens, shows, route
  <2> QED BY <1>1, <2>1
<1>3. Served(input) = {seen(route(b)) : b \in bs}
  <2>1. Routes(input) = {route(b) : b \in bs}
    BY DEF Routes
  <2>2. Served(input) = {seen(r) : r \in Routes(input)}
    BY DEF Served
  <2> HIDE DEF seen, route, bs
  <2> QED BY <2>1, <2>2
<1>4. Served(input) = {serves(b) : b \in bs}
  <2> HIDE DEF seen, route, serves, bs
  <2> QED BY <1>2, <1>3
<1> QED BY <1>4

-----------------------------------------------------------------------------
(* The frontend that the migrator makes of an FI.                          *)

\* A finite set can be put in a sequence: each element once.
LEMMA SetToSeqHas ==
    ASSUME NEW S, IsFiniteSet(S)
    PROVE  LET s == SetToSeq(S)
           IN  /\ s \in Seq(S) /\ Range(s) = S
               /\ \A i, j \in DOMAIN s : s[i] = s[j] => i = j
<1> DEFINE n == Cardinality(S)
           s == SetToSeq(S)
<1>1. n \in Nat /\ ExistsBijection(1 .. n, S)
  BY FS_CardinalityType
<1>2. PICK f \in [1 .. n -> S] : IsInjective(f)
  BY <1>1 DEF ExistsBijection, Bijection, Injection
<1>3. s \in [1 .. n -> S] /\ IsInjective(s)
  BY <1>2 DEF SetToSeq
<1>4. IsFiniteSet(1 .. n) /\ Cardinality(1 .. n) = n
  BY <1>1, FS_Interval
<1> HIDE DEF s, n
<1>5. s \in Injection(1 .. n, S)
  BY <1>3 DEF Injection
<1>6. s \in Surjection(1 .. n, S)
  BY <1>4, <1>5, FS_Injection DEF n
<1>7. Range(s) = S
  BY <1>3, <1>6 DEF Surjection, Range
<1> QED BY <1>1, <1>3, <1>7 DEF s, IsInjective

\* The first page of a key, if there is one.
LEMMA FirstPageOf ==
    ASSUME NEW pages, IsSequence(pages), NEW key, NEW k \in DOMAIN pages, pages[k].key = key
    PROVE  \E i \in DOMAIN pages : FirstPage(pages, key) = pages[i] /\ pages[i].key = key
<1> DEFINE I == {i \in 1 .. Len(pages) : pages[i].key = key}
<1>1. DOMAIN pages = 1 .. Len(pages) /\ I \in SUBSET Nat /\ I # {}
  BY DEF IsSequence
<1>2. FirstPage(pages, key) = pages[Min(I)]
  BY <1>1 DEF FirstPage, SelectInSeq
<1>3. Min(I) \in I
  <2> HIDE DEF I
  <2>1. PICK m \in I : \A i \in I : m <= i
    BY <1>1, LeastOfNaturals
  <2> QED BY <2>1 DEF Min
<1> QED BY <1>1, <1>2, <1>3

\* A frontend of an FI has sequences of menus and of children, and pages.
LEMMA IntegrationHas ==
    ASSUME NEW f \in IntegrationFrontend
    PROVE  /\ IsSequence(f.menus) /\ IsSequence(f.pages)
           /\ \A menu \in Range(f.menus) : IsSequence(menu.children) /\ menu.type \in MenuTypes
<1> DEFINE M == [key : STRING, placement : STRING, type : MenuTypes, children : Seq(STRING)]
           P == [key : STRING, type : PageTypes, iframe : BOOLEAN, columns : {None} \cup Nat]
<1>1. f.menus \in Seq(M) /\ f.pages \in Seq(P)
  BY DEF IntegrationFrontend
<1>2. \A menu \in Range(f.menus) : menu.children \in Seq(STRING) /\ menu.type \in MenuTypes
  <2>1. \A menu \in M : menu.children \in Seq(STRING) /\ menu.type \in MenuTypes
    OBVIOUS
  <2> HIDE DEF M, P
  <2>2. \A i \in DOMAIN f.menus : f.menus[i] \in M
    BY <1>1
  <2> QED BY <2>1, <2>2 DEF Range
<1> HIDE DEF M, P
<1> QED BY <1>1, <1>2, SequenceIs

\* The children of a menu of an FI, for the renderer, are a sequence.
LEMMA ChildrenAre ==
    ASSUME NEW keys, IsSequence(keys)
    PROVE  /\ IsSequence(Children(keys)) /\ DOMAIN Children(keys) = DOMAIN keys
           /\ \A i \in DOMAIN keys : Children(keys)[i] = [key |-> keys[i], pageKey |-> keys[i]]
<1>1. DOMAIN keys = 1 .. Len(keys) /\ Len(keys) \in Nat
  BY DEF IsSequence
<1>2. /\ DOMAIN Children(keys) = 1 .. Len(keys)
      /\ \A i \in DOMAIN keys : Children(keys)[i] = [key |-> keys[i], pageKey |-> keys[i]]
      /\ Children(keys) = [i \in 1 .. Len(keys) |-> Children(keys)[i]]
  BY <1>1 DEF Children
<1>3. Children(keys) \in [1 .. Len(keys) -> Range(Children(keys))]
  BY <1>2 DEF Range
<1> QED BY <1>1, <1>2, <1>3 DEF IsSequence

\* The menus of an FI, as the renderer gets them.
LEMMA IntegrationMenus ==
    ASSUME NEW f \in IntegrationFrontend
    PROVE  /\ HasMenus(FromIntegration(f))
           /\ LET menus == FromIntegration(f).menus
              IN  /\ DOMAIN menus = DOMAIN f.menus
                  /\ \A i \in DOMAIN f.menus : menus[i] = IntegrationMenu(f.menus[i])
<1> DEFINE menus == FromIntegration(f).menus
<1>1. DOMAIN f.menus = 1 .. Len(f.menus) /\ Len(f.menus) \in Nat
  BY IntegrationHas DEF IsSequence
<1>2. /\ DOMAIN menus = DOMAIN f.menus
      /\ \A i \in DOMAIN f.menus : menus[i] = IntegrationMenu(f.menus[i])
      /\ menus = [i \in DOMAIN f.menus |-> menus[i]]
  BY DEF FromIntegration
<1> HIDE DEF menus
<1>3. menus \in [1 .. Len(f.menus) -> Range(menus)]
  BY <1>1, <1>2 DEF Range
<1>4. IsSequence(menus)
  BY <1>1, <1>2, <1>3 DEF IsSequence
<1>5. ASSUME NEW menu \in Range(menus) PROVE IsSequence(menu.children)
  <2>1. PICK i \in DOMAIN f.menus : menu = IntegrationMenu(f.menus[i])
    BY <1>2, <1>5 DEF Range
  <2>2. menu.children = Children(f.menus[i].children) /\ f.menus[i] \in Range(f.menus)
    BY <2>1 DEF IntegrationMenu, Range
  <2> QED BY <2>2, IntegrationHas, ChildrenAre
<1> QED BY <1>2, <1>4, <1>5 DEF HasMenus, menus

\* Its FE has the menus of the FI, each in one placement.
LEMMA MigratedMenus ==
    ASSUME NEW f \in IntegrationFrontend, NEW fe, fe.menus = MigratedFrontend(f).menus
    PROVE  /\ FromExtension(fe).menus = FromIntegration(f).menus
           /\ DOMAIN fe.menus = DOMAIN f.menus
           /\ \A i \in DOMAIN f.menus : fe.menus[i] = MigratedMenu(f.menus[i])
<1> DEFINE menus == FromIntegration(f).menus
<1>1. /\ DOMAIN fe.menus = DOMAIN f.menus
      /\ \A i \in DOMAIN f.menus : fe.menus[i] = MigratedMenu(f.menus[i])
  BY DEF MigratedFrontend
<1>2. DOMAIN menus = DOMAIN f.menus /\ menus \in Seq(Range(menus))
  BY IntegrationMenus DEF HasMenus, IsSequence
<1>3. ASSUME NEW i \in DOMAIN f.menus PROVE ExtensionMenus(fe.menus[i]) = <<menus[i]>>
  <2> DEFINE menu == f.menus[i]
             em == MigratedMenu(menu)
  <2>1. /\ em.placements = <<menu.placement>> /\ em.key = menu.key /\ em.type = menu.type
        /\ em.pageKey = (IF menu.type = "page" THEN menu.key ELSE None)
        /\ em.children = Children(menu.children)
    BY DEF MigratedMenu
  <2> HIDE DEF em
  <2>2. DOMAIN em.placements = 1 .. 1 /\ em.placements[1] = menu.placement
    BY <2>1
  <2>3. ExtensionMenus(em) =
           [j \in 1 .. 1 |->
              [key |-> menu.key, placement |-> em.placements[j], type |-> menu.type,
               pageKey |-> IF menu.type = "page" THEN menu.key ELSE None,
               children |-> Children(menu.children)]]
    BY <2>1, <2>2 DEF ExtensionMenus
  <2>4. menus[i] = [key |-> menu.key, placement |-> menu.placement, type |-> menu.type,
                    pageKey |-> IF menu.type = "page" THEN menu.key ELSE None,
                    children |-> Children(menu.children)]
    BY IntegrationMenus DEF IntegrationMenu
  <2> HIDE DEF menus, menu
  <2>5. \A j \in 1 .. 1 : em.placements[j] = menu.placement
    BY <2>2
  <2>6. ExtensionMenus(em) = [j \in 1 .. 1 |-> menus[i]]
    BY <2>3, <2>4, <2>5
  <2>7. [j \in 1 .. 1 |-> menus[i]] = <<menus[i]>>
    OBVIOUS
  <2> QED BY <1>1, <2>6, <2>7 DEF em, menu
<1>4. [i \in DOMAIN fe.menus |-> ExtensionMenus(fe.menus[i])] = [i \in DOMAIN menus |-> <<menus[i]>>]
  <2> HIDE DEF menus
  <2> QED BY <1>1, <1>2, <1>3
<1>5. FlattenSeq([i \in DOMAIN menus |-> <<menus[i]>>]) = menus
  <2> HIDE DEF menus
  <2> QED BY <1>2, FlattenSeqOfOnes
<1>6. FromExtension(fe).menus = menus
  BY <1>4, <1>5 DEF FromExtension
<1> QED BY <1>1, <1>6

\* A menu of an FI names the page of its key, or those of its children.
LEMMA MenuBinds ==
    ASSUME NEW input, NEW menu, IsSequence(menu.children)
    PROVE  MenuBindings(input, IntegrationMenu(menu)) =
           IF menu.type = "page"
           THEN << [placement |-> menu.placement, route |-> <<menu.key>>,
                    pageKey |-> menu.key] >>
           ELSE [i \in DOMAIN menu.children |->
                   [placement |-> menu.placement, route |-> <<menu.key, menu.children[i]>>,
                    pageKey |-> menu.children[i]]]
<1>1. LET m == IntegrationMenu(menu)
      IN  /\ m.type = menu.type /\ m.placement = menu.placement /\ m.key = menu.key
          /\ m.pageKey = (IF menu.type = "page" THEN menu.key ELSE None)
          /\ m.children = Children(menu.children)
  BY DEF IntegrationMenu
<1>2. \A key : PageKey(input, key, key) = key
  BY DEF PageKey
<1>3. /\ DOMAIN Children(menu.children) = DOMAIN menu.children
      /\ \A i \in DOMAIN menu.children :
            Children(menu.children)[i] = [key |-> menu.children[i], pageKey |-> menu.children[i]]
  BY ChildrenAre, Zenon
<1>4. CASE menu.type = "page"
  BY <1>1, <1>2, <1>4 DEF MenuBindings
<1>5. CASE menu.type # "page"
  <2> DEFINE bound(child) ==
                [placement |-> menu.placement, route |-> <<menu.key, child.key>>,
                 pageKey |-> PageKey(input, child.key, child.pageKey)]
             of(key) == [placement |-> menu.placement, route |-> <<menu.key, key>>, pageKey |-> key]
             children == Children(menu.children)
  <2>1. MenuBindings(input, IntegrationMenu(menu)) =
           [i \in DOMAIN children |-> bound(children[i])]
    BY <1>1, <1>5 DEF MenuBindings
  <2>2. \A key : bound([key |-> key, pageKey |-> key]) = of(key)
    BY <1>2
  <2> HIDE DEF bound, of
  <2>3. [i \in DOMAIN children |-> bound(children[i])] =
           [i \in DOMAIN menu.children |-> of(menu.children[i])]
    BY <1>3, <2>2
  <2> QED BY <1>5, <2>1, <2>3 DEF of
<1> QED BY <1>4, <1>5

\* So the bindings of both are the same.
LEMMA MigratedBindings ==
    ASSUME NEW f \in IntegrationFrontend, NEW fe, fe.menus = MigratedFrontend(f).menus
    PROVE  Bindings(FromExtension(fe)) = Bindings(FromIntegration(f))
<1> DEFINE x == FromExtension(fe)
           y == FromIntegration(f)
<1>1. x.menus = y.menus
  BY MigratedMenus
<1>2. ASSUME NEW i \in DOMAIN y.menus
      PROVE  MenuBindings(x, y.menus[i]) = MenuBindings(y, y.menus[i])
  <2>1. /\ i \in DOMAIN f.menus /\ y.menus[i] = IntegrationMenu(f.menus[i])
        /\ IsSequence(f.menus[i].children)
    BY IntegrationMenus, IntegrationHas DEF Range
  <2> DEFINE menu == f.menus[i]
             binds == IF menu.type = "page"
                      THEN << [placement |-> menu.placement, route |-> <<menu.key>>,
                               pageKey |-> menu.key] >>
                      ELSE [j \in DOMAIN menu.children |->
                              [placement |-> menu.placement,
                               route |-> <<menu.key, menu.children[j]>>,
                               pageKey |-> menu.children[j]]]
  <2>2. \A input : MenuBindings(input, IntegrationMenu(menu)) = binds
    BY <2>1, MenuBinds
  <2> HIDE DEF x, y, binds, menu
  <2> QED BY <2>1, <2>2 DEF menu
<1> HIDE DEF x, y
<1>3. Bindings(x) = Bindings(y)
  BY <1>1, <1>2 DEF Bindings
<1> QED BY <1>3 DEF x, y

\* A page that a binding names is a page that a menu binds, where it binds it.
LEMMA BindingsAreBound ==
    ASSUME NEW f \in IntegrationFrontend, NEW b \in Range(Bindings(FromIntegration(f)))
    PROVE  <<b.placement, b.pageKey>> \in BoundPages(f)
<1> DEFINE x == FromIntegration(f)
           bound(menu) == {<<menu.placement, key>> :
                key \in IF menu.type = "page" THEN {menu.key} ELSE Range(menu.children)}
<1>1. PICK m \in Range(x.menus) : b \in Range(MenuBindings(x, m))
  <2>1. HasMenus(x)
    BY IntegrationMenus
  <2> HIDE DEF x
  <2>2. b \in UNION {Range(MenuBindings(x, menu)) : menu \in Range(x.menus)}
    BY <2>1, BindingsAre DEF x
  <2> QED BY <2>2, Zenon
<1>2. PICK menu \in Range(f.menus) : m = IntegrationMenu(menu) /\ IsSequence(menu.children)
  BY <1>1, IntegrationMenus, IntegrationHas DEF Range
<1>3. <<b.placement, b.pageKey>> \in bound(menu)
  <2> HIDE DEF x
  <2>1. CASE menu.type = "page"
    BY <1>1, <1>2, <2>1, MenuBinds DEF Range
  <2>2. CASE menu.type # "page"
    <3>1. PICK i \in DOMAIN menu.children :
             b = [placement |-> menu.placement, route |-> <<menu.key, menu.children[i]>>,
                  pageKey |-> menu.children[i]]
      BY <1>1, <1>2, <2>2, MenuBinds DEF Range
    <3> QED BY <2>2, <3>1 DEF Range
  <2> QED BY <2>1, <2>2
<1>4. BoundPages(f) = UNION {bound(n) : n \in Range(f.menus)}
  BY DEF BoundPages
<1> HIDE DEF bound
<1> QED BY <1>2, <1>3, <1>4, Zenon

\* The webhook lets an FI with a menu pass only if the menu binds a page.
LEMMA MenusBind ==
    ASSUME NEW f \in IntegrationFrontend, Resolves(FromIntegration(f)), f.menus # <<>>
    PROVE  Range(Bindings(FromIntegration(f))) # {}
<1> DEFINE x == FromIntegration(f)
<1>1. 1 \in DOMAIN f.menus
  BY IntegrationHas DEF IsSequence
<1>2. PICK menu : /\ menu \in Range(f.menus) /\ IsSequence(menu.children)
                  /\ IntegrationMenu(menu) \in Range(x.menus)
  <2>1. f.menus[1] \in Range(f.menus) /\ IntegrationMenu(f.menus[1]) \in Range(x.menus)
    BY <1>1, IntegrationMenus DEF Range
  <2> QED BY <2>1, IntegrationHas
<1>3. MenuShapeOK(IntegrationMenu(menu))
  BY <1>2 DEF Resolves
<1>4. Range(MenuBindings(x, IntegrationMenu(menu))) # {}
  <2> HIDE DEF x
  <2>1. CASE menu.type = "page"
    BY <1>2, <2>1, MenuBinds DEF Range
  <2>2. CASE menu.type # "page"
    <3>1. IntegrationMenu(menu).type = menu.type /\ IntegrationMenu(menu).children = Children(menu.children)
      BY DEF IntegrationMenu
    <3>2. menu.type \in MenuTypes
      BY <1>2, IntegrationHas
    <3>3. Children(menu.children) # <<>>
      BY <1>3, <2>2, <3>1, <3>2 DEF MenuShapeOK, MenuTypes
    <3>4. DOMAIN menu.children # {}
      BY <1>2, <3>3, ChildrenAre DEF IsSequence
    <3> QED BY <1>2, <2>2, <3>4, MenuBinds DEF Range
  <2> QED BY <2>1, <2>2
<1>5. Range(Bindings(x)) = UNION {Range(MenuBindings(x, m)) : m \in Range(x.menus)}
  <2>1. HasMenus(x)
    BY IntegrationMenus
  <2> HIDE DEF x
  <2> QED BY <2>1, BindingsAre
<1> HIDE DEF x
<1>6. Range(Bindings(x)) # {}
  BY <1>2, <1>4, <1>5, Zenon
<1> QED BY <1>6 DEF x

\* The pages of the FE: one of each bound page that the FI has, with the
\* placements it is bound in.
LEMMA MigratedPagesAre ==
    ASSUME NEW f \in IntegrationFrontend
    PROVE  LET pages == MigratedPages(f)
           IN  /\ \A i \in DOMAIN pages :
                     \E k \in DOMAIN f.pages :
                        pages[i] = WithPlacements(f.pages[k], PagePlacements(f, f.pages[k].key))
               /\ \A i, j \in DOMAIN pages : pages[i].key = pages[j].key => i = j
               /\ \A bound \in BoundPages(f), k \in DOMAIN f.pages :
                     bound[2] = f.pages[k].key => \E i \in DOMAIN pages : pages[i].key = bound[2]
<1> DEFINE given == {page.key : page \in Range(f.pages)}
           keys == {bound[2] : bound \in BoundPages(f)} \cap given
           page(key) == FirstPage(f.pages, key)
           ordered == SetToSeq(keys)
           migrated(key) == WithPlacements(page(key), PagePlacements(f, key))
           pages == MigratedPages(f)
<1>1. IsSequence(f.pages) /\ DOMAIN f.pages = 1 .. Len(f.pages) /\ Len(f.pages) \in Nat
  BY IntegrationHas DEF IsSequence
<1>2. given = {f.pages[k].key : k \in DOMAIN f.pages}
  BY DEF Range
<1>3. IsFiniteSet(keys)
  <2> DEFINE g == [k \in 1 .. Len(f.pages) |-> f.pages[k].key]
  <2>1. g \in Surjection(1 .. Len(f.pages), given)
    <3>1. g \in [1 .. Len(f.pages) -> given]
      BY <1>1, <1>2
    <3>2. \A x \in given : \E k \in 1 .. Len(f.pages) : g[k] = x
      BY <1>1, <1>2
    <3> QED BY <3>1, <3>2 DEF Surjection
  <2>2. IsFiniteSet(given)
    <3>1. IsFiniteSet(1 .. Len(f.pages))
      BY <1>1, FS_Interval
    <3> HIDE DEF g, given
    <3> QED BY <2>1, <3>1, FS_Surjection
  <2>3. keys \in SUBSET given
    OBVIOUS
  <2> HIDE DEF given, keys
  <2> QED BY <2>2, <2>3, FS_Subset
<1>4. /\ Range(ordered) = keys
      /\ \A i, j \in DOMAIN ordered : ordered[i] = ordered[j] => i = j
  <2> HIDE DEF keys
  <2> QED BY <1>3, SetToSeqHas
<1>5. pages = [i \in DOMAIN ordered |-> migrated(ordered[i])]
  BY DEF MigratedPages
<1>6. ASSUME NEW key \in keys
      PROVE  \E k \in DOMAIN f.pages : page(key) = f.pages[k] /\ f.pages[k].key = key
  <2>1. PICK k \in DOMAIN f.pages : f.pages[k].key = key
    BY <1>2
  <2> QED BY <1>1, <2>1, FirstPageOf
<1> HIDE DEF keys, ordered, page, pages
<1>7. \A i \in DOMAIN pages : /\ i \in DOMAIN ordered /\ ordered[i] \in keys
                              /\ pages[i] = migrated(ordered[i])
  BY <1>4, <1>5 DEF Range
<1>8. ASSUME NEW i \in DOMAIN pages
      PROVE  /\ pages[i].key = ordered[i]
             /\ \E k \in DOMAIN f.pages :
                   pages[i] = WithPlacements(f.pages[k], PagePlacements(f, f.pages[k].key))
  <2>1. PICK k \in DOMAIN f.pages : page(ordered[i]) = f.pages[k] /\ f.pages[k].key = ordered[i]
    BY <1>6, <1>7
  <2>2. pages[i] = WithPlacements(f.pages[k], PagePlacements(f, f.pages[k].key))
    BY <1>7, <2>1
  <2>3. pages[i].key = ordered[i]
    BY <2>1, <2>2 DEF WithPlacements
  <2> QED BY <2>2, <2>3
<1>9. \A i, j \in DOMAIN pages : pages[i].key = pages[j].key => i = j
  BY <1>4, <1>7, <1>8
<1>10. ASSUME NEW bound \in BoundPages(f), NEW k \in DOMAIN f.pages, bound[2] = f.pages[k].key
       PROVE  \E i \in DOMAIN pages : pages[i].key = bound[2]
  <2>1. bound[2] \in keys
    BY <1>2, <1>10 DEF keys
  <2>2. PICK i \in DOMAIN ordered : ordered[i] = bound[2]
    BY <1>4, <2>1 DEF Range
  <2>3. i \in DOMAIN pages
    BY <1>5
  <2> QED BY <1>8, <2>2, <2>3
<1> QED BY <1>8, <1>9, <1>10 DEF pages

\* The page of a binding: that of the FI, for any placement, and that of its FE,
\* for the placements it is bound in, with the same content.
LEMMA MigratedPageOf ==
    ASSUME NEW f \in IntegrationFrontend, Resolves(FromIntegration(f)),
           NEW fe, fe.pages = MigratedFrontend(f).pages,
           NEW b \in Range(Bindings(FromIntegration(f)))
    PROVE  \E page \in Range(f.pages) :
              LET p == WithPlacements(page, None)
                  q == WithPlacements(page, PagePlacements(f, b.pageKey))
              IN  /\ PagesOf(FromIntegration(f), b) = {p} /\ PagesOf(FromExtension(fe), b) = {q}
                  /\ page.key = b.pageKey /\ PageShapeOK(p)
<1> DEFINE x == FromIntegration(f)
           y == FromExtension(fe)
           pages == MigratedPages(f)
<1>1. PICK p : PagesOf(x, b) = {p} /\ p.key = b.pageKey /\ PageShapeOK(p)
  BY OnePage
<1>2. /\ DOMAIN x.pages = DOMAIN f.pages
      /\ \A i \in DOMAIN f.pages : x.pages[i] = WithPlacements(f.pages[i], None)
  BY DEF FromIntegration
<1>3. \A i \in DOMAIN f.pages : x.pages[i].key = f.pages[i].key
  <2>1. \A page : WithPlacements(page, None).key = page.key
    BY DEF WithPlacements
  <2> HIDE DEF x
  <2> QED BY <1>2, <2>1
<1>4. y.pages = pages
  BY DEF FromExtension, MigratedFrontend
<1>5. PICK k \in DOMAIN f.pages : p = x.pages[k] /\ f.pages[k].key = b.pageKey
  BY <1>1, <1>2, <1>3 DEF PagesOf
<1> DEFINE page == f.pages[k]
           q == WithPlacements(page, PagePlacements(f, b.pageKey))
<1>6. <<b.placement, b.pageKey>> \in BoundPages(f)
  BY BindingsAreBound
<1>7. PICK i \in DOMAIN pages : pages[i].key = b.pageKey
  <2>1. <<b.placement, b.pageKey>>[2] = f.pages[k].key
    BY <1>5
  <2> QED BY <1>6, <2>1, MigratedPagesAre
<1>8. \A j \in DOMAIN pages : pages[j].key = b.pageKey => j = i
  BY <1>7, MigratedPagesAre
<1>9. PagesOf(y, b) = {pages[i]}
  <2> HIDE DEF pages, y
  <2> QED BY <1>4, <1>7, <1>8 DEF PagesOf
<1>10. PICK j \in DOMAIN f.pages :
          pages[i] = WithPlacements(f.pages[j], PagePlacements(f, f.pages[j].key))
  BY MigratedPagesAre
<1>11. f.pages[j].key = b.pageKey
  BY <1>7, <1>10 DEF WithPlacements
<1>12. x.pages[j] = x.pages[k]
  <2>1. x.pages[j] \in PagesOf(x, b)
    BY <1>2, <1>3, <1>11 DEF PagesOf
  <2> QED BY <1>1, <1>5, <2>1
<1>13. j \in ReferencedPages(x) /\ k \in ReferencedPages(x)
  BY <1>2, <1>3, <1>5, <1>11 DEF ReferencedPages
<1>14. j = k
  BY <1>3, <1>5, <1>11, <1>13 DEF Resolves
<1>15. pages[i] = q
  BY <1>5, <1>10, <1>14
<1>16. page \in Range(f.pages)
  BY DEF Range
<1> QED BY <1>1, <1>2, <1>5, <1>9, <1>15, <1>16

\* The FE that the migrator makes of an FI that the webhook let pass renders...
LEMMA MigratedResolves ==
    ASSUME NEW f \in IntegrationFrontend, Resolves(FromIntegration(f)),
           NEW fe, fe.menus = MigratedFrontend(f).menus, fe.pages = MigratedFrontend(f).pages
    PROVE  ExtensionResolves(fe)
<1> DEFINE x == FromIntegration(f)
           y == FromExtension(fe)
           bs == Bindings(x)
<1>1. y.menus = x.menus /\ Bindings(y) = bs
  BY MigratedMenus, MigratedBindings
<1>2. y.pages = MigratedPages(f)
  BY DEF FromExtension, MigratedFrontend
<1>3. \A i, j \in DOMAIN y.pages : y.pages[i].key = y.pages[j].key => i = j
  BY <1>2, MigratedPagesAre
<1>4. ASSUME NEW b \in Range(bs)
      PROVE  /\ \A page \in PagesOf(y, b) : PageShapeOK(page)
             /\ \E page \in PagesOf(y, b) : PageAcceptsPlacement(page, b.placement)
  <2>1. PICK page : /\ PagesOf(y, b) = {WithPlacements(page, PagePlacements(f, b.pageKey))}
                    /\ page.key = b.pageKey /\ PageShapeOK(WithPlacements(page, None))
    BY MigratedPageOf
  <2>2. b.placement \in PagePlacements(f, b.pageKey)
    <3>1. <<b.placement, b.pageKey>> \in BoundPages(f)
      BY BindingsAreBound
    <3> QED BY <3>1 DEF PagePlacements
  <2>3. PageShapeOK(WithPlacements(page, PagePlacements(f, b.pageKey)))
    BY <2>1, <2>2 DEF PageShapeOK, WithPlacements
  <2>4. PageAcceptsPlacement(WithPlacements(page, PagePlacements(f, b.pageKey)), b.placement)
    BY <2>2 DEF PageAcceptsPlacement, WithPlacements
  <2> QED BY <2>1, <2>3, <2>4
<1>5. ASSUME NEW i \in ReferencedPages(y) PROVE PageShapeOK(y.pages[i])
  <2>1. PICK b \in Range(bs) : i \in DOMAIN y.pages /\ y.pages[i].key = b.pageKey
    BY <1>1 DEF ReferencedPages
  <2>2. y.pages[i] \in PagesOf(y, b)
    BY <2>1 DEF PagesOf
  <2> QED BY <1>4, <2>1, <2>2
<1>6. \A i \in ReferencedPages(y) : i \in DOMAIN y.pages
  BY DEF ReferencedPages
<1>7. Resolves(y)
  <2> HIDE DEF x, y
  <2>1. /\ \A menu \in Range(y.menus) : MenuShapeOK(menu)
        /\ \A i, j \in DOMAIN y.menus :
              y.menus[i].placement = y.menus[j].placement /\ y.menus[i].key = y.menus[j].key => i = j
    BY <1>1 DEF Resolves, x
  <2>2. /\ \A i, j \in DOMAIN bs :
              bs[i].placement = bs[j].placement /\ bs[i].route = bs[j].route => i = j
        /\ \A b \in Range(bs) : b.pageKey \in ValidKeys
    BY DEF Resolves, x
  <2>3. \A i, j \in ReferencedPages(y) : y.pages[i].key = y.pages[j].key => i = j
    BY <1>3, <1>6
  <2> HIDE DEF bs
  <2> QED BY <1>1, <1>4, <1>5, <2>1, <2>2, <2>3 DEF Resolves
<1>8. ASSUME NEW menu \in Range(fe.menus) PROVE menu.placements # <<>>
  <2>1. PICK m : menu = MigratedMenu(m)
    BY MigratedMenus DEF Range
  <2>2. menu.placements = <<m.placement>>
    BY <2>1 DEF MigratedMenu
  <2> QED BY <2>2
<1> QED BY <1>7, <1>8 DEF ExtensionResolves

\* ... and serves what the FI does, in the same places.
LEMMA MigratedServes ==
    ASSUME NEW f \in IntegrationFrontend, Resolves(FromIntegration(f)),
           NEW fe, fe.menus = MigratedFrontend(f).menus, fe.pages = MigratedFrontend(f).pages
    PROVE  Served(FromExtension(fe)) = Served(FromIntegration(f))
<1> DEFINE x == FromIntegration(f)
           y == FromExtension(fe)
           bs == Range(Bindings(x))
           shows(z, b) == {<<b.placement, Content(page)>> : page \in PagesOf(z, b)}
           serves(z, b) == [placement |-> b.placement, path |-> b.route, opens |-> shows(z, b)]
<1>1. y.menus = x.menus /\ Bindings(y) = Bindings(x)
  BY MigratedMenus, MigratedBindings
<1>2. HasMenus(x) /\ HasMenus(y)
  <2>1. HasMenus(x)
    BY IntegrationMenus
  <2> HIDE DEF x, y
  <2> QED BY <1>1, <2>1 DEF HasMenus
<1>3. Resolves(y)
  BY MigratedResolves DEF ExtensionResolves
<1>4. ASSUME NEW b \in bs PROVE shows(y, b) = shows(x, b)
  <2>1. PICK page : /\ PagesOf(x, b) = {WithPlacements(page, None)}
                    /\ PagesOf(y, b) = {WithPlacements(page, PagePlacements(f, b.pageKey))}
    BY MigratedPageOf
  <2>2. Content(WithPlacements(page, None)) =
           Content(WithPlacements(page, PagePlacements(f, b.pageKey)))
    BY DEF Content, WithPlacements
  <2> HIDE DEF x, y
  <2> QED BY <2>1, <2>2
<1>5. Served(x) = {serves(x, b) : b \in bs} /\ Served(y) = {serves(y, b) : b \in bs}
  <2> HIDE DEF x, y
  <2>1. Resolves(x)
    BY DEF x
  <2> QED BY <1>1, <1>2, <1>3, <2>1, ServedIs
<1>6. \A b \in bs : serves(x, b) = serves(y, b)
  BY <1>4
<1>7. Served(y) = Served(x)
  <2> HIDE DEF x, y, serves, bs
  <2> QED BY <1>5, <1>6
<1> QED BY <1>7

\* An FI with a menu that the webhook let pass has menus and pages to migrate.
LEMMA MigratedHas ==
    ASSUME NEW f \in IntegrationFrontend, Resolves(FromIntegration(f)), f.menus # <<>>
    PROVE  MigratedFrontend(f).menus # <<>> /\ MigratedFrontend(f).pages # <<>>
<1>1. 1 \in DOMAIN f.menus
  BY IntegrationHas DEF IsSequence
<1>2. MigratedFrontend(f).menus # <<>>
  BY <1>1 DEF MigratedFrontend
<1>3. PICK b \in Range(Bindings(FromIntegration(f))) : TRUE
  BY MenusBind
<1>4. PICK page : PagesOf(FromExtension(MigratedFrontend(f)), b) = {page}
  <2> DEFINE fe == MigratedFrontend(f)
  <2>1. fe.pages = MigratedFrontend(f).pages
    OBVIOUS
  <2> HIDE DEF fe
  <2>2. PICK page : PagesOf(FromExtension(fe), b) =
                       {WithPlacements(page, PagePlacements(f, b.pageKey))}
    BY <2>1, MigratedPageOf
  <2> QED BY <2>2 DEF fe
<1>5. DOMAIN MigratedFrontend(f).pages # {}
  BY <1>4 DEF PagesOf, FromExtension
<1> QED BY <1>2, <1>5

-----------------------------------------------------------------------------
(* FEs that the renderer can read.                                         *)

ExtensionHasMenus(frontend) ==
    /\ IsSequence(frontend.menus)
    /\ \A menu \in Range(frontend.menus) :
          IsSequence(menu.placements) /\ IsSequence(menu.children)

\* The menus that the renderer makes of one of an FE, and their children.
LEMMA ExtensionMenusAre ==
    ASSUME NEW menu, IsSequence(menu.placements)
    PROVE  /\ IsSequence(ExtensionMenus(menu))
           /\ \A m \in Range(ExtensionMenus(menu)) : m.children = menu.children
<1> DEFINE ms == ExtensionMenus(menu)
           n == Len(menu.placements)
<1>1. n \in Nat /\ DOMAIN menu.placements = 1 .. n
  BY DEF IsSequence
<1>2. /\ DOMAIN ms = 1 .. n /\ ms = [i \in 1 .. n |-> ms[i]]
      /\ \A i \in 1 .. n : ms[i].children = menu.children
  BY <1>1 DEF ExtensionMenus
<1> HIDE DEF ms, n
<1>3. ms \in [1 .. n -> Range(ms)]
  BY <1>2 DEF Range
<1>4. ms \in Seq(Range(ms))
  BY <1>1, <1>3
<1> QED BY <1>2, <1>4 DEF IsSequence, Range, ms

\* What the renderer is given for an FE has sequences for menus and children.
LEMMA ExtensionIsInput ==
    ASSUME NEW frontend, ExtensionHasMenus(frontend)
    PROVE  HasMenus(FromExtension(frontend))
<1> DEFINE ss == [i \in DOMAIN frontend.menus |-> ExtensionMenus(frontend.menus[i])]
           S == UNION {Range(ExtensionMenus(menu)) : menu \in Range(frontend.menus)}
           n == Len(frontend.menus)
<1>1. n \in Nat /\ DOMAIN frontend.menus = 1 .. n
  BY DEF ExtensionHasMenus, IsSequence
<1>2. ASSUME NEW i \in 1 .. n PROVE ss[i] \in Seq(S)
  <2>1. frontend.menus[i] \in Range(frontend.menus) /\ ss[i] = ExtensionMenus(frontend.menus[i])
    BY <1>1 DEF Range
  <2>2. IsSequence(ss[i])
    BY <2>1, ExtensionMenusAre DEF ExtensionHasMenus
  <2>3. Range(ss[i]) \subseteq S
    BY <2>1, Zenon
  <2> HIDE DEF ss, S
  <2>4. ss[i] \in Seq(Range(ss[i]))
    BY <2>2 DEF IsSequence
  <2> QED BY <2>3, <2>4
<1>3. DOMAIN ss = 1 .. n /\ ss = [i \in 1 .. n |-> ss[i]]
  BY <1>1
<1>4. ss \in Seq(Seq(S))
  <2> HIDE DEF ss, S
  <2>1. ss \in [1 .. n -> Seq(S)]
    BY <1>2, <1>3
  <2> QED BY <1>1, <2>1
<1>5. FromExtension(frontend).menus = FlattenSeq(ss)
  BY DEF FromExtension
<1>6. FlattenSeq(ss) \in Seq(S)
  <2> HIDE DEF ss, S
  <2> QED BY <1>4, FlattenSeqHas
<1>7. ASSUME NEW m \in S PROVE IsSequence(m.children)
  <2>1. PICK menu \in Range(frontend.menus) : m \in Range(ExtensionMenus(menu))
    BY Zenon
  <2> QED BY <2>1, ExtensionMenusAre DEF ExtensionHasMenus
<1> HIDE DEF ss, S
<1>8. \A m \in Range(FlattenSeq(ss)) : m \in S
  BY <1>6 DEF Range
<1> QED BY <1>5, <1>6, <1>7, <1>8, SequenceIs DEF HasMenus

\* The frontends that people give to FEs, and those of the migrator.
LEMMA ExtensionFrontendHas ==
    ASSUME NEW frontend \in ExtensionFrontend
    PROVE  ExtensionHasMenus(frontend)
<1> DEFINE C == [key : STRING, pageKey : STRING]
           M == [key : STRING, placements : Seq(STRING), type : MenuTypes,
                 pageKey : {None} \cup STRING, children : Seq(C)]
<1>1. frontend.menus \in Seq(M)
  BY DEF ExtensionFrontend
<1>2. \A menu \in M : menu.placements \in Seq(STRING) /\ menu.children \in Seq(C)
  OBVIOUS
<1> HIDE DEF M, C
<1>3. \A menu \in Range(frontend.menus) : menu \in M
  BY <1>1 DEF Range
<1> QED BY <1>1, <1>2, <1>3, SequenceIs DEF ExtensionHasMenus

\* So has the FE that is made of an FI.
LEMMA MigratedHasMenus ==
    ASSUME NEW f \in IntegrationFrontend
    PROVE  ExtensionHasMenus(MigratedFrontend(f))
<1> DEFINE menus == MigratedFrontend(f).menus
           n == Len(f.menus)
<1>1. n \in Nat /\ DOMAIN f.menus = 1 .. n
  BY IntegrationHas DEF IsSequence
<1>2. /\ DOMAIN menus = 1 .. n /\ menus = [i \in 1 .. n |-> menus[i]]
      /\ \A i \in 1 .. n : menus[i] = MigratedMenu(f.menus[i])
  BY <1>1 DEF MigratedFrontend
<1> HIDE DEF menus
<1>3. menus \in Seq(Range(menus))
  <2>1. menus \in [1 .. n -> Range(menus)]
    BY <1>2 DEF Range
  <2> QED BY <1>1, <2>1
<1>4. ASSUME NEW menu \in Range(menus)
      PROVE  IsSequence(menu.placements) /\ IsSequence(menu.children)
  <2>1. PICK i \in 1 .. n : menu = MigratedMenu(f.menus[i])
    BY <1>2 DEF Range
  <2>2. /\ menu.placements = <<f.menus[i].placement>>
        /\ menu.children = Children(f.menus[i].children)
    BY <2>1 DEF MigratedMenu
  <2>3. IsSequence(f.menus[i].children)
    BY <1>1, IntegrationHas DEF Range
  <2>4. <<f.menus[i].placement>> \in Seq({f.menus[i].placement})
    OBVIOUS
  <2> QED BY <2>2, <2>3, <2>4, ChildrenAre, SequenceIs
<1> QED BY <1>3, <1>4 DEF ExtensionHasMenus, IsSequence, menus
=============================================================================
