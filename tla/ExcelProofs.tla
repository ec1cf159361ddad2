----------------------------- MODULE ExcelProofs -----------------------------
(***************************************************************************)
(* Theorems about ExcelTemplate, for every set of rows, their names and    *)
(* cells, and sheets of any number of rows and columns.                    *)
(*                                                                         *)
(* Three facts make the main one: what Properties.resolve does to a list   *)
(* of properties, by the turns of its loop; that the section and the       *)
(* resources the scanner remembers are those of the rows above; and so     *)
(* that the properties kept of each resource are those of the rows below   *)
(* the row that declared it last.                                          *)
(***************************************************************************)
EXTENDS ExcelTemplate, WellFoundedInduction, TLAPS

(***************************************************************************)
(* Least and greatest numbers, and the turns of a fold.                    *)
(***************************************************************************)
LEMMA LeastIsThere ==
  ASSUME NEW S \in SUBSET Nat, S # {}
  PROVE  \E i \in S : \A j \in S : i <= j
<1> DEFINE R == {ss \in Nat \X Nat : ss[1] < ss[2]}
<1>1. IsWellFoundedOn(R, Nat)
  BY NatLessThanWellFounded DEF OpToRel
<1>2. ASSUME NEW i \in Nat, NEW j \in Nat, <<j, i>> \notin R
      PROVE  i <= j
  BY <1>2
<1> HIDE DEF R
<1>3. PICK i \in S : \A j \in S : ~(<<j, i>> \in R)
  BY <1>1, WFMin
<1>4. ASSUME NEW j \in S
      PROVE  i <= j
  <2>1. i \in Nat /\ j \in Nat /\ <<j, i>> \notin R
    BY <1>3
  <2>2. QED
    BY <2>1, <1>2
<1>5. QED
  BY <1>4

\* What holds at 0 and goes on holding holds up to n.
LEMMA UpTo ==
  ASSUME NEW n \in Nat, NEW S \in SUBSET (0..n), 0 \in S,
         \A k \in 1..n : k - 1 \in S => k \in S
  PROVE  S = 0..n
<1> DEFINE rest == (0..n) \ S
<1>1. SUFFICES ASSUME rest # {} PROVE FALSE
  OBVIOUS
<1>2. PICK k \in rest : \A j \in rest : k <= j
  <2>1. rest \in SUBSET Nat
    OBVIOUS
  <2> HIDE DEF rest
  <2>2. QED
    BY <1>1, <2>1, LeastIsThere
<1>3. k \in 1..n /\ k - 1 \in 0..n /\ ~(k <= k - 1)
  BY <1>2
<1>4. k - 1 \in S
  BY <1>2, <1>3
<1>5. QED
  BY <1>2, <1>3, <1>4

LEMMA GreatestIsThere ==
  ASSUME NEW n \in Nat, NEW S \in SUBSET (1..n), S # {}
  PROVE  \E k \in S : \A j \in S : j <= k
<1> DEFINE above == {m \in 0..n : n - m \in S}
<1>1. \A k \in S : k \in 1..n /\ n - k \in 0..n /\ n - (n - k) = k
  OBVIOUS
<1>2. \A k \in S : n - k \in above
  BY <1>1
<1>3. PICK m \in above : \A j \in above : m <= j
  <2>1. above \in SUBSET Nat
    OBVIOUS
  <2> HIDE DEF above
  <2>2. above # {}
    BY <1>2
  <2>3. QED
    BY <2>1, <2>2, LeastIsThere
<1>4. m \in 0..n /\ n - m \in S
  BY <1>3
<1>5. ASSUME NEW j \in S
      PROVE  j <= n - m
  <2>1. m <= n - j /\ j \in 1..n
    BY <1>1, <1>2, <1>3
  <2>2. QED
    BY <1>4, <2>1
<1>6. QED
  BY <1>4, <1>5

Unread == [ok |-> TRUE, tree |-> <<>>]

IsFold(g, S, props) ==
  g = [s \in SUBSET S |-> IF s = {} THEN Unread
                          ELSE LET x == Max(s) IN ResolveOne(g[s \ {x}], props[x])]

LEMMA Unfold ==
  ASSUME NEW props
  PROVE  Resolved(props) = (CHOOSE g : IsFold(g, DOMAIN props, props))[DOMAIN props]
  BY DEF Resolved, FoldLeft, MapThenFoldSet, IsFold, Unread

LEMMA LastIsMax ==
  ASSUME NEW n \in Nat, NEW s \in SUBSET (1..n), n \in s
  PROVE  Max(s) = n
<1>1. n \in s /\ \A y \in s : n >= y
  OBVIOUS
<1>2. ASSUME NEW x \in s, \A y \in s : x >= y
      PROVE  x = n
  BY <1>2
<1>3. QED
  BY <1>1, <1>2 DEF Max

LEMMA FoldGoesOn ==
  ASSUME NEW n \in Nat \ {0}, NEW props, NEW g, IsFold(g, 1..(n - 1), props)
  PROVE  \E h : IsFold(h, 1..n, props)
<1> DEFINE h == [s \in SUBSET (1..n) |-> IF n \in s THEN ResolveOne(g[s \ {n}], props[n]) ELSE g[s]]
<1>1. ASSUME NEW s \in SUBSET (1..n)
      PROVE  h[s] = IF s = {} THEN Unread ELSE LET x == Max(s) IN ResolveOne(h[s \ {x}], props[x])
  <2>1. CASE n \in s
    <3>1. Max(s) = n /\ s # {} /\ s \ {n} \in SUBSET (1..n) /\ n \notin s \ {n}
      BY <2>1, LastIsMax
    <3>2. h[s \ {n}] = g[s \ {n}]
      BY <3>1
    <3>3. h[s] = ResolveOne(g[s \ {n}], props[n])
      BY <2>1
    <3> HIDE DEF h
    <3>4. QED
      BY <3>1, <3>2, <3>3
  <2>2. CASE n \notin s /\ s = {}
    <3>1. h[s] = g[s] /\ s \in SUBSET (1..(n - 1))
      BY <2>2
    <3>2. QED
      BY <2>2, <3>1 DEF IsFold
  <2>3. CASE n \notin s /\ s # {}
    <3>1. s \in SUBSET (1..(n - 1)) /\ s \ {Max(s)} \in SUBSET (1..n) /\ n \notin s \ {Max(s)}
      <4>1. \A x \in s : x \in 1..n /\ x # n
        BY <2>3
      <4>2. \A x \in s : x \in 1..(n - 1)
        BY <4>1
      <4>3. QED
        BY <4>1, <4>2
    <3>2. h[s] = g[s] /\ h[s \ {Max(s)}] = g[s \ {Max(s)}]
      BY <2>3, <3>1
    <3>3. g[s] = ResolveOne(g[s \ {Max(s)}], props[Max(s)])
      BY <2>3, <3>1 DEF IsFold
    <3> HIDE DEF h
    <3>4. QED
      BY <2>3, <3>2, <3>3
  <2>4. QED
    BY <2>1, <2>2, <2>3
<1>2. h = [s \in SUBSET (1..n) |-> h[s]]
  OBVIOUS
<1> HIDE DEF h
<1>3. h = [s \in SUBSET (1..n) |->
             IF s = {} THEN Unread ELSE LET x == Max(s) IN ResolveOne(h[s \ {x}], props[x])]
  BY <1>1, <1>2
<1>4. IsFold(h, 1..n, props)
  BY <1>3 DEF IsFold
<1>5. QED
  BY <1>4

LEMMA FoldIsThere ==
  ASSUME NEW n \in Nat, NEW props
  PROVE  \E g : IsFold(g, 1..n, props)
<1> DEFINE S == {k \in 0..n : \E g : IsFold(g, 1..k, props)}
<1>1. 0 \in S
  <2> DEFINE g == [s \in SUBSET (1..0) |-> Unread]
  <2>1. g = [s \in SUBSET (1..0) |->
               IF s = {} THEN Unread ELSE LET x == Max(s) IN ResolveOne(g[s \ {x}], props[x])]
    <3>1. \A s \in SUBSET (1..0) : s = {}
      OBVIOUS
    <3>2. QED
      BY <3>1
  <2>2. IsFold(g, 1..0, props)
    BY <2>1 DEF IsFold
  <2>3. QED
    BY <2>2
<1>2. ASSUME NEW k \in 1..n, k - 1 \in S
      PROVE  k \in S
  BY <1>2, FoldGoesOn
<1> HIDE DEF S
<1>3. S = 0..n
  <2>1. S \in SUBSET (0..n)
    BY DEF S
  <2>2. QED
    BY <1>1, <1>2, <2>1, UpTo
<1>4. QED
  BY <1>3 DEF S

\* What the fold goes through, one property after the other.
LEMMA TurnsAre ==
  ASSUME NEW props, NEW n \in Nat, DOMAIN props = 1..n
  PROVE  \E made :
           /\ made[0] = Unread
           /\ \A k \in 1..n : made[k] = ResolveOne(made[k - 1], props[k])
           /\ Resolved(props) = made[n]
<1> DEFINE g == CHOOSE g : IsFold(g, 1..n, props)
           made == [k \in 0..n |-> g[1..k]]
<1>1. IsFold(g, 1..n, props)
  BY FoldIsThere
<1>2. Resolved(props) = g[1..n]
  BY Unfold
<1> HIDE DEF g
<1>3. \A s \in SUBSET (1..n) :
        g[s] = IF s = {} THEN Unread ELSE ResolveOne(g[s \ {Max(s)}], props[Max(s)])
  BY <1>1 DEF IsFold
<1>4. made[0] = Unread
  <2>1. 1..0 = {} /\ {} \in SUBSET (1..n) /\ 0 \in 0..n
    OBVIOUS
  <2>2. QED
    BY <1>3, <2>1
<1>5. ASSUME NEW k \in 1..n
      PROVE  made[k] = ResolveOne(made[k - 1], props[k])
  <2>1. /\ 1..k \in SUBSET (1..n) /\ 1..k # {} /\ (1..k) \ {k} = 1..(k - 1)
        /\ k \in 0..n /\ k - 1 \in 0..n
    <3>1. k \in 1..k /\ \A x \in 1..k : x \in 1..n
      OBVIOUS
    <3>2. \A x : x \in (1..k) \ {k} <=> x \in 1..(k - 1)
      OBVIOUS
    <3>3. (1..k) \ {k} = 1..(k - 1)
      BY <3>2
    <3>4. QED
      BY <3>1, <3>3
  <2>2. Max(1..k) = k
    BY LastIsMax
  <2>3. g[1..k] = ResolveOne(g[1..(k - 1)], props[k])
    BY <1>3, <2>1, <2>2
  <2>4. QED
    BY <2>1, <2>3
<1>6. Resolved(props) = made[n]
  BY <1>2
<1>7. QED
  BY <1>4, <1>5, <1>6

----------------------------------------------------------------------------
(***************************************************************************)
(* Places: the steps of a name, and what PutAt changes.                    *)
(***************************************************************************)
PathSteps == Parts \cup {Part(p.name, {}) : p \in Parts} \cup {Part("", p.index) : p \in Parts}

Flattens(g, n, seqs) == g = [i \in 1..n |-> IF i = 1 THEN seqs[i] ELSE g[i - 1] \o seqs[i]]

LEMMA FlattenIsThere ==
  ASSUME NEW n \in Nat, NEW seqs
  PROVE  \E g : Flattens(g, n, seqs)
<1> DEFINE S == {k \in 0..n : \E g : Flattens(g, k, seqs)}
<1>1. 0 \in S
  <2> DEFINE g == [i \in 1..0 |-> <<>>]
  <2>1. Flattens(g, 0, seqs)
    BY DEF Flattens
  <2>2. QED
    BY <2>1
<1>2. ASSUME NEW k \in 1..n, k - 1 \in S
      PROVE  k \in S
  <2>1. PICK g : Flattens(g, k - 1, seqs)
    BY <1>2
  <2> DEFINE h == [i \in 1..k |->
                     IF i < k THEN g[i] ELSE IF i = 1 THEN seqs[i] ELSE g[i - 1] \o seqs[i]]
  <2>2. ASSUME NEW i \in 1..k
        PROVE  h[i] = IF i = 1 THEN seqs[i] ELSE h[i - 1] \o seqs[i]
    <3>1. i # 1 => h[i - 1] = g[i - 1]
      OBVIOUS
    <3>2. i < k => i \in 1..(k - 1)
      OBVIOUS
    <3>3. i < k => g[i] = IF i = 1 THEN seqs[i] ELSE g[i - 1] \o seqs[i]
      BY <2>1, <3>2 DEF Flattens
    <3>4. h[i] = IF i < k THEN g[i] ELSE IF i = 1 THEN seqs[i] ELSE g[i - 1] \o seqs[i]
      OBVIOUS
    <3> HIDE DEF h
    <3>5. QED
      BY <3>1, <3>3, <3>4
  <2>3. h = [i \in 1..k |-> h[i]]
    OBVIOUS
  <2> HIDE DEF h
  <2>4. Flattens(h, k, seqs)
    BY <2>2, <2>3 DEF Flattens
  <2>5. QED
    BY <2>4
<1> HIDE DEF S
<1>3. S = 0..n
  <2>1. S \in SUBSET (0..n)
    BY DEF S
  <2>2. QED
    BY <1>1, <1>2, <2>1, UpTo
<1>4. QED
  BY <1>3 DEF S

LEMMA FlattenIs ==
  ASSUME NEW S, NEW seqs \in Seq(Seq(S) \ {<<>>}), Len(seqs) # 0
  PROVE  FlattenSeq(seqs) \in Seq(S) \ {<<>>}
<1> DEFINE n == Len(seqs)
           g == CHOOSE f : Flattens(f, n, seqs)
<1>1. n \in Nat /\ n # 0 /\ \A i \in 1..n : seqs[i] \in Seq(S) \ {<<>>}
  OBVIOUS
<1>2. FlattenSeq(seqs) = g[n]
  BY DEF FlattenSeq, Flattens
<1>3. Flattens(g, n, seqs)
  BY <1>1, FlattenIsThere
<1> HIDE DEF g
<1>4. \A i \in 1..n : g[i] = IF i = 1 THEN seqs[i] ELSE g[i - 1] \o seqs[i]
  BY <1>3 DEF Flattens
<1> DEFINE T == {i \in 0..n : i = 0 \/ g[i] \in Seq(S) \ {<<>>}}
<1>5. 0 \in T
  BY <1>1
<1>6. ASSUME NEW i \in 1..n, i - 1 \in T
      PROVE  i \in T
  <2>1. CASE i = 1
    BY <1>1, <1>4, <2>1
  <2>2. CASE i # 1
    <3>1. g[i - 1] \in Seq(S) \ {<<>>} /\ seqs[i] \in Seq(S) \ {<<>>}
      BY <1>1, <1>6, <2>2
    <3>2. g[i - 1] \o seqs[i] \in Seq(S) \ {<<>>}
      BY <3>1
    <3>3. g[i] \in Seq(S) \ {<<>>}
      BY <1>4, <2>2, <3>2
    <3>4. i \in 0..n
      BY <1>1
    <3>5. QED
      BY <3>3, <3>4
  <2>3. QED
    BY <2>1, <2>2
<1> HIDE DEF T
<1>7. T = 0..n
  <2>1. T \in SUBSET (0..n)
    BY DEF T
  <2>2. QED
    BY <1>1, <1>5, <1>6, <2>1, UpTo
<1>8. n \in T
  BY <1>1, <1>7
<1>9. QED
  BY <1>1, <1>2, <1>8 DEF T

LEMMA StepsAre ==
  ASSUME NEW path \in Seq(Parts) \ {<<>>}
  PROVE  StepsOf(path) \in Seq(PathSteps) \ {<<>>}
<1>1. Len(path) \in Nat /\ Len(path) # 0 /\ \A n \in 1..Len(path) : path[n] \in Parts
  OBVIOUS
<1>2. CASE Len(path) = 1
  <2>1. path \in Seq(PathSteps)
    <3>1. Parts \subseteq PathSteps
      BY DEF PathSteps
    <3>2. QED
      BY <3>1
  <2>2. QED
    BY <1>2, <2>1 DEF StepsOf
<1>3. CASE Len(path) # 1
  <2> DEFINE of(n) == IF path[n].index = {} THEN <<path[n]>>
                      ELSE <<Part(path[n].name, {}), Part("", path[n].index)>>
             seqs == [n \in 1..Len(path) |-> of(n)]
  <2>1. \A n \in 1..Len(path) : of(n) \in Seq(PathSteps) \ {<<>>}
    <3> TAKE n \in 1..Len(path)
    <3>1. /\ path[n] \in PathSteps /\ Part(path[n].name, {}) \in PathSteps
          /\ Part("", path[n].index) \in PathSteps
      BY <1>1 DEF PathSteps
    <3> DEFINE first == path[n]
               name == Part(path[n].name, {})
               item == Part("", path[n].index)
    <3>2. first \in PathSteps /\ name \in PathSteps /\ item \in PathSteps
      BY <3>1
    <3>3. of(n) = IF path[n].index = {} THEN <<first>> ELSE <<name, item>>
      OBVIOUS
    <3> HIDE DEF first, name, item, of
    <3>4. <<first>> \in Seq(PathSteps) \ {<<>>} /\ <<name, item>> \in Seq(PathSteps) \ {<<>>}
      BY <3>2
    <3>5. QED
      BY <3>3, <3>4
  <2> HIDE DEF of
  <2>2. seqs \in Seq(Seq(PathSteps) \ {<<>>}) /\ Len(seqs) # 0
    BY <1>1, <2>1
  <2> HIDE DEF seqs
  <2>3. FlattenSeq(seqs) \in Seq(PathSteps) \ {<<>>}
    BY <2>2, FlattenIs
  <2>4. StepsOf(path) = FlattenSeq(seqs)
    BY <1>3 DEF StepsOf, seqs, of
  <2>5. QED
    BY <2>3, <2>4
<1>4. QED
  BY <1>2, <1>3

LEMMA PrefixesAre ==
  ASSUME NEW S, NEW steps \in Seq(S) \ {<<>>}
  PROVE  /\ steps = First(steps, Len(steps)) /\ Len(steps) \in 1..Len(steps)
         /\ IsPrefix(steps, steps)
         /\ \A n \in 1..Len(steps) : IsPrefix(First(steps, n), steps)
<1>1. steps = First(steps, Len(steps)) /\ Len(steps) \in 1..Len(steps)
  BY DEF First
<1>2. ASSUME NEW n \in 1..Len(steps)
      PROVE  IsPrefix(First(steps, n), steps)
  <2>1. Len(SubSeq(steps, 1, n)) = n /\ SubSeq(SubSeq(steps, 1, n), 1, n) = SubSeq(steps, 1, n)
    BY <1>2
  <2>2. QED
    BY <2>1 DEF First, IsPrefix
<1>3. QED
  BY <1>1, <1>2

\* What PutAt puts is there if nothing was, and stays where it is unless the
\* place that is put is above it; otherwise there are only containers.
LEMMA PutIs ==
  ASSUME NEW path \in Seq(Parts) \ {<<>>}, NEW tree, NEW value
  PROVE  LET steps == StepsOf(path)
             put == PutAt(tree, path, value) IN
         /\ \A p \in DOMAIN put : p \in DOMAIN tree \/ IsPrefix(p, steps)
         /\ steps \notin DOMAIN tree /\ value # NoValue => steps \in DOMAIN put /\ put[steps] = value
         /\ \A p \in DOMAIN tree : ~IsPrefix(steps, p) => p \in DOMAIN put /\ put[p] = tree[p]
         /\ \A p \in DOMAIN put : put[p] \notin {"dict", "list", NoValue} =>
              \/ p \in DOMAIN tree /\ put[p] = tree[p]
              \/ p = steps /\ put[p] = value
<1> DEFINE steps == StepsOf(path)
           put == PutAt(tree, path, value)
           stays == IsItem(steps[Len(steps)]) /\ steps \in DOMAIN tree
           kept == {p \in DOMAIN tree : stays \/ ~IsPrefix(steps, p)}
           new == {First(steps, n) : n \in 1..Len(steps)}
<1>1. /\ steps \in new
      /\ \A p \in new : IsPrefix(p, steps)
  BY StepsAre, PrefixesAre
<1>2. /\ DOMAIN put = kept \cup new
      /\ \A p \in kept \cup new :
           put[p] = IF p \in kept THEN tree[p]
                    ELSE IF p # steps THEN Container(steps[Len(p) + 1])
                    ELSE IF IsItem(steps[Len(steps)]) /\ value = NoValue THEN "dict" ELSE value
  BY DEF PutAt
<1>3. \A step : Container(step) \in {"dict", "list"}
  BY DEF Container
<1>4. steps \in kept => steps \in DOMAIN tree
  OBVIOUS
<1>5. \A p \in DOMAIN tree : ~IsPrefix(steps, p) => p \in kept
  OBVIOUS
<1>6. kept \subseteq DOMAIN tree
  OBVIOUS
<1> HIDE DEF put, kept, new, steps
<1>7. /\ \A p \in DOMAIN put : p \in DOMAIN tree \/ IsPrefix(p, steps)
      /\ steps \notin DOMAIN tree /\ value # NoValue => steps \in DOMAIN put /\ put[steps] = value
      /\ \A p \in DOMAIN tree : ~IsPrefix(steps, p) => p \in DOMAIN put /\ put[p] = tree[p]
  BY <1>1, <1>2, <1>4, <1>5, <1>6
<1>8. \A p \in DOMAIN put : put[p] \notin {"dict", "list", NoValue} =>
        \/ p \in DOMAIN tree /\ put[p] = tree[p]
        \/ p = steps /\ put[p] = value
  BY <1>2, <1>3, <1>6
<1>9. QED
  BY <1>7, <1>8 DEF steps, put

\* One turn raises for good, or it puts.
LEMMA OneIs ==
  ASSUME NEW ok \in BOOLEAN, NEW tree, NEW prop
  PROVE  LET next == ResolveOne([ok |-> ok, tree |-> tree], prop) IN
         /\ next = [ok |-> next.ok, tree |-> next.tree] /\ next.ok \in BOOLEAN
         /\ next.ok => ok /\ next.tree = PutAt(tree, prop.path, prop.value)
  BY DEF ResolveOne

Apart(p, q) == ~IsPrefix(StepsOf(p), StepsOf(q)) /\ ~IsPrefix(StepsOf(q), StepsOf(p))

Alone(props, k) ==
  /\ props[k].value # NoValue
  /\ \A j \in DOMAIN props \ {k} : Apart(props[j].path, props[k].path)

\* The tree of the first n properties.
TreeOf(tree, props, n) ==
  /\ \A p \in DOMAIN tree : \E k \in 1..n : IsPrefix(p, StepsOf(props[k].path))
  /\ \A k \in 1..n : Alone(props, k) =>
       LET steps == StepsOf(props[k].path) IN steps \in DOMAIN tree /\ tree[steps] = props[k].value
  /\ \A p \in DOMAIN tree : tree[p] \notin {"dict", "list", NoValue} =>
       \E k \in 1..n : StepsOf(props[k].path) = p /\ props[k].value = tree[p]

LEMMA PutTree ==
  ASSUME NEW props, NEW n \in Nat \ {0}, 1..n \subseteq DOMAIN props,
         \A k \in 1..n : props[k].path \in Seq(Parts) \ {<<>>},
         NEW tree, TreeOf(tree, props, n - 1)
  PROVE  TreeOf(PutAt(tree, props[n].path, props[n].value), props, n)
<1> DEFINE put == PutAt(tree, props[n].path, props[n].value)
           steps(k) == StepsOf(props[k].path)
<1>1. /\ n \in 1..n /\ \A k \in 1..n : k = n \/ k \in 1..(n - 1)
      /\ \A k \in 1..(n - 1) : k \in 1..n /\ k # n
  OBVIOUS
<1>2. /\ \A p \in DOMAIN put : p \in DOMAIN tree \/ IsPrefix(p, steps(n))
      /\ steps(n) \notin DOMAIN tree /\ props[n].value # NoValue =>
           steps(n) \in DOMAIN put /\ put[steps(n)] = props[n].value
      /\ \A p \in DOMAIN tree : ~IsPrefix(steps(n), p) => p \in DOMAIN put /\ put[p] = tree[p]
      /\ \A p \in DOMAIN put : put[p] \notin {"dict", "list", NoValue} =>
           \/ p \in DOMAIN tree /\ put[p] = tree[p]
           \/ p = steps(n) /\ put[p] = props[n].value
  BY <1>1, PutIs
<1>3. \A p \in DOMAIN tree : \E k \in 1..(n - 1) : IsPrefix(p, steps(k))
  BY DEF TreeOf
<1>4. \A k \in 1..(n - 1) : Alone(props, k) =>
        steps(k) \in DOMAIN tree /\ tree[steps(k)] = props[k].value
  BY DEF TreeOf
<1>5. \A p \in DOMAIN tree : tree[p] \notin {"dict", "list", NoValue} =>
        \E k \in 1..(n - 1) : steps(k) = p /\ props[k].value = tree[p]
  BY DEF TreeOf
<1>6. \A j, k \in 1..n : j # k /\ Alone(props, k) =>
        ~IsPrefix(steps(j), steps(k)) /\ ~IsPrefix(steps(k), steps(j))
  BY DEF Alone, Apart
<1>7. \A k \in 1..n : Alone(props, k) => props[k].value # NoValue
  BY DEF Alone
<1> HIDE DEF put, steps
<1>8. \A p \in DOMAIN put : \E k \in 1..n : IsPrefix(p, steps(k))
  BY <1>1, <1>2, <1>3
<1>9. ASSUME NEW k \in 1..n, Alone(props, k)
      PROVE  steps(k) \in DOMAIN put /\ put[steps(k)] = props[k].value
  <2>1. CASE k = n
    <3>1. steps(n) \notin DOMAIN tree
      BY <1>1, <1>3, <1>6, <1>9, <2>1
    <3>2. QED
      BY <1>2, <1>7, <1>9, <2>1, <3>1
  <2>2. CASE k # n
    <3>1. k \in 1..(n - 1) /\ ~IsPrefix(steps(n), steps(k))
      BY <1>1, <1>6, <1>9, <2>2
    <3>2. QED
      BY <1>2, <1>4, <1>9, <3>1
  <2>3. QED
    BY <2>1, <2>2
<1>10. \A p \in DOMAIN put : put[p] \notin {"dict", "list", NoValue} =>
         \E k \in 1..n : steps(k) = p /\ props[k].value = put[p]
  BY <1>1, <1>2, <1>5
<1>11. QED
  BY <1>8, <1>9, <1>10 DEF TreeOf, steps, put

\* What the properties of a resource become: each cell is at its place unless the
\* place of another is inside it or around it, and there are no other cells.
LEMMA ResolvedIs ==
  ASSUME NEW S, NEW props \in Seq(S), \A e \in S : e.path \in Seq(Parts) \ {<<>>},
         Resolved(props).ok
  PROVE  TreeOf(Resolved(props).tree, props, Len(props))
<1> DEFINE n == Len(props)
<1>1. /\ DOMAIN props = 1..n /\ n \in Nat
      /\ \A k \in 1..n : props[k].path \in Seq(Parts) \ {<<>>}
  OBVIOUS
<1>2. PICK made : /\ made[0] = Unread
                  /\ \A k \in 1..n : made[k] = ResolveOne(made[k - 1], props[k])
                  /\ Resolved(props) = made[n]
  BY <1>1, TurnsAre
<1> DEFINE Holds(k) == /\ made[k] = [ok |-> made[k].ok, tree |-> made[k].tree]
                       /\ made[k].ok \in BOOLEAN
                       /\ made[k].ok => TreeOf(made[k].tree, props, k)
           T == {k \in 0..n : Holds(k)}
<1>3. Holds(0)
  BY <1>2 DEF Unread, TreeOf
<1>4. ASSUME NEW k \in 1..n, Holds(k - 1)
      PROVE  Holds(k)
  <2>1. made[k] = ResolveOne([ok |-> made[k - 1].ok, tree |-> made[k - 1].tree], props[k])
    BY <1>2, <1>4
  <2>2. /\ made[k] = [ok |-> made[k].ok, tree |-> made[k].tree] /\ made[k].ok \in BOOLEAN
        /\ made[k].ok => /\ made[k - 1].ok
                         /\ made[k].tree = PutAt(made[k - 1].tree, props[k].path, props[k].value)
    BY <1>4, <2>1, OneIs
  <2>3. /\ k \in Nat \ {0} /\ 1..k \subseteq DOMAIN props
        /\ \A j \in 1..k : props[j].path \in Seq(Parts) \ {<<>>}
    BY <1>1
  <2>4. made[k].ok => TreeOf(made[k].tree, props, k)
    BY <1>4, <2>2, <2>3, PutTree
  <2>5. QED
    BY <2>2, <2>4
<1> HIDE DEF Holds
<1>5. 0 \in T
  BY <1>1, <1>3
<1>6. ASSUME NEW k \in 1..n, k - 1 \in T
      PROVE  k \in T
  BY <1>1, <1>4, <1>6
<1> HIDE DEF T
<1>7. T = 0..n
  <2>1. T \in SUBSET (0..n)
    BY DEF T
  <2>2. QED
    BY <1>1, <1>5, <1>6, <2>1, UpTo
<1>8. Holds(n)
  BY <1>1, <1>7 DEF T
<1>9. QED
  BY <1>2, <1>8 DEF Holds

----------------------------------------------------------------------------
(***************************************************************************)
(* The scanner of the rows: what it remembers is what the rows read say.   *)
(***************************************************************************)
Marks == {"parameters", "resources", "blank"}

SectionIn(sheet, n) ==
  LET above == {k \in 1..(n - 1) : sheet[k].is \in Marks} IN
  IF above = {} THEN "none" ELSE sheet[CHOOSE k \in above : \A j \in above : j <= k].is

LEMMA SectionIs ==
  ASSUME NEW sheet, NEW n \in Nat, NEW k \in 1..(n - 1), sheet[k].is \in Marks,
         \A j \in (k + 1)..(n - 1) : sheet[j].is \notin Marks
  PROVE  SectionIn(sheet, n) = sheet[k].is
<1> DEFINE above == {j \in 1..(n - 1) : sheet[j].is \in Marks}
           last == CHOOSE j \in above : \A l \in above : l <= j
<1>1. k \in above
  OBVIOUS
<1>2. \A j \in above : j \in Nat /\ j <= k
  OBVIOUS
<1>3. SectionIn(sheet, n) = IF above = {} THEN "none" ELSE sheet[last].is
  BY DEF SectionIn
<1> HIDE DEF above
<1>4. last \in above /\ \A l \in above : l <= last
  BY <1>1, <1>2
<1>5. last = k
  <2> HIDE DEF last
  <2>1. last \in Nat /\ last <= k /\ k <= last
    BY <1>1, <1>2, <1>4
  <2>2. QED
    BY <2>1
<1> HIDE DEF last
<1>6. QED
  BY <1>1, <1>3, <1>5

LEMMA NoSection ==
  ASSUME NEW sheet, NEW n \in Nat, \A j \in 1..(n - 1) : sheet[j].is \notin Marks
  PROVE  SectionIn(sheet, n) = "none"
  BY DEF SectionIn

LEMMA LastMark ==
  ASSUME NEW sheet, NEW n \in Nat \ {0}, ~\A j \in 1..(n - 1) : sheet[j].is \notin Marks
  PROVE  \E k \in 1..(n - 1) :
           sheet[k].is \in Marks /\ \A j \in (k + 1)..(n - 1) : sheet[j].is \notin Marks
<1> DEFINE above == {j \in 1..(n - 1) : sheet[j].is \in Marks}
<1>1. above \in SUBSET (1..(n - 1)) /\ above # {} /\ n - 1 \in Nat
  OBVIOUS
<1>2. PICK k \in above : \A j \in above : j <= k
  <2> HIDE DEF above
  <2>1. QED
    BY <1>1, GreatestIsThere
<1>3. ASSUME NEW j \in (k + 1)..(n - 1)
      PROVE  sheet[j].is \notin Marks
  <2>1. k \in 1..(n - 1) /\ j \in 1..(n - 1) /\ ~(j <= k)
    BY <1>3
  <2>2. QED
    BY <1>2, <2>1
<1>4. QED
  BY <1>3

LEMMA SectionSame ==
  ASSUME NEW sheet, NEW other, NEW n \in Nat \ {0}, \A j \in 1..(n - 1) : sheet[j] = other[j]
  PROVE  SectionIn(sheet, n) = SectionIn(other, n)
<1>1. CASE \A j \in 1..(n - 1) : sheet[j].is \notin Marks
  BY <1>1, NoSection
<1>2. CASE ~\A j \in 1..(n - 1) : sheet[j].is \notin Marks
  <2>1. PICK k \in 1..(n - 1) :
          sheet[k].is \in Marks /\ \A j \in (k + 1)..(n - 1) : sheet[j].is \notin Marks
    BY <1>2, LastMark
  <2>2. other[k] = sheet[k] /\ \A j \in (k + 1)..(n - 1) : other[j] = sheet[j]
    OBVIOUS
  <2>3. QED
    BY <2>1, <2>2, SectionIs
<1>3. QED
  BY <1>1, <1>2

LEMMA SectionNext ==
  ASSUME NEW sheet, NEW n \in Nat \ {0}
  PROVE  SectionIn(sheet, n + 1)
           = IF sheet[n].is \in Marks THEN sheet[n].is ELSE SectionIn(sheet, n)
<1>1. CASE sheet[n].is \in Marks
  <2>1. n + 1 \in Nat /\ n \in 1..((n + 1) - 1) /\ \A j \in (n + 1)..((n + 1) - 1) : FALSE
    OBVIOUS
  <2>2. SectionIn(sheet, n + 1) = sheet[n].is
    BY <1>1, <2>1, SectionIs
  <2>3. QED
    BY <1>1, <2>2
<1>2. CASE sheet[n].is \notin Marks
  <2>1. \A j \in 1..((n + 1) - 1) : j = n \/ j \in 1..(n - 1)
    OBVIOUS
  <2>2. CASE \A j \in 1..(n - 1) : sheet[j].is \notin Marks
    <3>1. SectionIn(sheet, n) = "none"
      BY <2>2, NoSection
    <3>2. SectionIn(sheet, n + 1) = "none"
      BY <1>2, <2>1, <2>2, NoSection
    <3>3. QED
      BY <1>2, <3>1, <3>2
  <2>3. CASE ~\A j \in 1..(n - 1) : sheet[j].is \notin Marks
    <3>1. PICK k \in 1..(n - 1) :
            sheet[k].is \in Marks /\ \A j \in (k + 1)..(n - 1) : sheet[j].is \notin Marks
      BY <2>3, LastMark
    <3>2. SectionIn(sheet, n) = sheet[k].is
      BY <3>1, SectionIs
    <3>3. /\ k \in 1..((n + 1) - 1)
          /\ \A j \in (k + 1)..((n + 1) - 1) : j = n \/ j \in (k + 1)..(n - 1)
      OBVIOUS
    <3>4. SectionIn(sheet, n + 1) = sheet[k].is
      BY <1>2, <3>1, <3>3, SectionIs
    <3>5. QED
      BY <1>2, <3>2, <3>4
  <2>4. QED
    BY <2>2, <2>3
<1>3. QED
  BY <1>1, <1>2

\* The rows of a resource, and their cells in column i.
RowOf(n, i) == [path |-> read[n].path, value |-> read[n].cells[i]]

Latest(d) == Declares(d) /\ \A k \in (d + 1)..Len(read) : ~Declares(k)

LastOf(i, id, d) ==
  /\ Declares(d) /\ read[d].cells[i] = id
  /\ \A k \in (d + 1)..Len(read) : ~(Declares(k) /\ read[k].cells[i] = id)

\* One more row is read.
Reads(q) == read \in Seq(SheetRows) /\ q \in SheetRows /\ read' = Append(read, q)

LEMMA RowRead ==
  ASSUME NEW q, Reads(q)
  PROVE  /\ Len(read) \in Nat /\ Len(read)' = Len(read) + 1 /\ read' \in Seq(SheetRows)
         /\ read'[Len(read) + 1] = q
         /\ \A n \in 1..Len(read) : read'[n] = read[n] /\ read[n] \in SheetRows
         /\ \A n \in 1..(Len(read) + 1) : SectionOf(n)' = SectionOf(n)
         /\ SectionOf(Len(read) + 1)'
              = IF q.is \in Marks THEN q.is ELSE SectionOf(Len(read) + 1)
<1> DEFINE n == Len(read)
<1>1. /\ n \in Nat /\ Len(read') = n + 1 /\ read' \in Seq(SheetRows)
      /\ read'[n + 1] = q
      /\ \A k \in 1..n : read'[k] = read[k] /\ read[k] \in SheetRows
  BY DEF Reads
<1>2. /\ \A k : SectionOf(k) = SectionIn(read, k)
      /\ \A k : SectionOf(k)' = SectionIn(read', k)
  BY DEF SectionOf, SectionIn, Marks
<1>3. ASSUME NEW k \in 1..(n + 1)
      PROVE  SectionIn(read', k) = SectionIn(read, k)
  <2>1. k \in Nat \ {0} /\ \A j \in 1..(k - 1) : j \in 1..n
    BY <1>1
  <2>2. QED
    BY <1>1, <2>1, SectionSame
<1>4. SectionIn(read', (n + 1) + 1) = IF q.is \in Marks THEN q.is ELSE SectionIn(read', n + 1)
  <2>1. n + 1 \in Nat \ {0}
    BY <1>1
  <2>2. SectionIn(read', (n + 1) + 1)
          = IF read'[n + 1].is \in Marks THEN read'[n + 1].is ELSE SectionIn(read', n + 1)
    BY <2>1, SectionNext
  <2>3. QED
    BY <1>1, <2>2
<1>5. (n + 1) + 1 = n + 2 /\ n + 1 \in 1..(n + 1)
  BY <1>1
<1>6. SectionIn(read', (n + 1) + 1) = IF q.is \in Marks THEN q.is ELSE SectionIn(read, n + 1)
  BY <1>3, <1>4, <1>5
<1>7. SectionOf(Len(read) + 1)' = SectionIn(read', (n + 1) + 1)
  <2>1. SectionOf(Len(read) + 1)' = SectionIn(read', Len(read') + 1)
    BY DEF SectionOf, SectionIn, Marks
  <2>2. QED
    BY <1>1, <2>1
<1>8. \A k \in 1..(n + 1) : SectionOf(k)' = SectionOf(k)
  BY <1>2, <1>3
<1>9. SectionOf(Len(read) + 1) = SectionIn(read, n + 1)
  BY <1>2
<1>10. QED
  BY <1>1, <1>6, <1>7, <1>8, <1>9

\* Whether a row of those read declares, and which are below it, changes with the
\* next row only if that names a property and nothing else was declared meanwhile.
LEMMA BelowRead ==
  ASSUME NEW q, Reads(q)
  PROVE  LET n == Len(read) IN
         /\ \A d \in 1..n : Declares(d)' <=> Declares(d)
         /\ \A d : d = n + 1 =>
              (Declares(d)' <=> q.is \in {"type", "badType"} /\ SectionOf(n + 1) = "resources")
         /\ \A d \in 1..n : \A k : k \in Below(d)' <=>
              \/ k \in Below(d)
              \/ /\ k = n + 1 /\ q.is = "name" /\ SectionOf(n + 1) = "resources"
                 /\ \A j \in (d + 1)..n : ~Declares(j)
         /\ \A d : d = n + 1 => Below(d)' = {}
<1> DEFINE n == Len(read)
<1>1. /\ n \in Nat /\ Len(read)' = n + 1
      /\ read'[n + 1] = q
      /\ \A k \in 1..n : read'[k] = read[k]
      /\ \A k \in 1..(n + 1) : SectionOf(k)' = SectionOf(k)
  BY RowRead
<1>2. \A d \in 1..n : Declares(d)' <=> Declares(d)
  BY <1>1 DEF Declares
<1>3. \A d : d = n + 1 =>
        (Declares(d)' <=> q.is \in {"type", "badType"} /\ SectionOf(n + 1) = "resources")
  BY <1>1 DEF Declares
<1>4. ASSUME NEW d \in 1..n, NEW k
      PROVE  k \in Below(d)' <=>
               \/ k \in Below(d)
               \/ /\ k = n + 1 /\ q.is = "name" /\ SectionOf(n + 1) = "resources"
                  /\ \A j \in (d + 1)..n : ~Declares(j)
  <2>1. /\ k \in Below(d) <=> /\ k \in (d + 1)..n
                              /\ read[k].is = "name" /\ SectionOf(k) = "resources"
                              /\ \A j \in (d + 1)..k : ~Declares(j)
        /\ k \in Below(d)' <=> /\ k \in (d + 1)..(n + 1)
                               /\ read'[k].is = "name" /\ SectionOf(k)' = "resources"
                               /\ \A j \in (d + 1)..k : ~Declares(j)'
    BY <1>1 DEF Below
  <2>2. CASE k \in (d + 1)..n
    <3>1. k \in 1..n /\ k \in 1..(n + 1) /\ k # n + 1 /\ \A j \in (d + 1)..k : j \in 1..n
      BY <1>1, <2>2
    <3>2. QED
      BY <1>1, <1>2, <2>1, <2>2, <3>1
  <2>3. CASE k = n + 1
    <3>1. /\ k \notin (d + 1)..n /\ k \in (d + 1)..(n + 1) /\ k \in 1..(n + 1)
          /\ \A j \in (d + 1)..k : j = k \/ j \in (d + 1)..n
          /\ \A j \in (d + 1)..n : j \in (d + 1)..k /\ j \in 1..n
          /\ k \in (d + 1)..k
      BY <1>1, <2>3
    <3>2. read'[k] = q /\ SectionOf(k)' = SectionOf(n + 1)
      BY <1>1, <2>3, <3>1
    <3>3. q.is = "name" => ~Declares(k)'
      BY <1>3, <2>3
    <3>4. QED
      BY <1>2, <2>1, <2>3, <3>1, <3>2, <3>3
  <2>4. CASE k \notin (d + 1)..n /\ k # n + 1
    <3>1. k \notin (d + 1)..(n + 1)
      BY <1>1, <2>4
    <3>2. QED
      BY <2>1, <2>4, <3>1
  <2>5. QED
    BY <2>2, <2>3, <2>4
<1>5. \A d : d = n + 1 => Below(d)' = {}
  BY <1>1 DEF Below
<1>6. QED
  BY <1>2, <1>3, <1>4, <1>5

\* No property is there twice.
Distinct(props) == \A k, l \in DOMAIN props : k # l => props[k].path # props[l].path

\* The properties with e, which takes the place of the one it replaces.
With(new, props, S, e) ==
  /\ new \in Seq(S \cup {e})
  /\ Distinct(new)
  /\ \E k \in DOMAIN new : new[k] = e
  /\ \A k \in DOMAIN props : props[k].path # e.path => k \in DOMAIN new /\ new[k] = props[k]

LEMMA AddedIs ==
  ASSUME NEW S, NEW props \in Seq(S), NEW path, NEW value, Distinct(props)
  PROVE  With(AddedInOrder(props, path, value), props, S, [path |-> path, value |-> value])
<1> DEFINE n == Len(props)
           e == [path |-> path, value |-> value]
           new == AddedInOrder(props, path, value)
<1> SUFFICES With(new, props, S, e)
  OBVIOUS
<1>1. /\ n \in Nat /\ DOMAIN props = 1..n /\ \A k \in 1..n : props[k] \in S
      /\ \A k, l \in 1..n : k # l => props[k].path # props[l].path
      /\ e.path = path
  BY DEF Distinct
<1> HIDE DEF e
<1>2. CASE \E k \in 1..n : props[k].path = path
  <2>1. new = [k \in 1..n |-> IF props[k].path = path THEN e ELSE props[k]]
    BY <1>2 DEF AddedInOrder, e
  <2> HIDE DEF new, n
  <2>2. e.path = path
    BY <1>1
  <2>3. new \in Seq(S \cup {e}) /\ DOMAIN new = 1..n
    BY <1>1, <2>1
  <2>4. \A k \in 1..n : new[k] = IF props[k].path = path THEN e ELSE props[k]
    BY <2>1
  <2>5. \A k \in 1..n : new[k].path = props[k].path
    BY <2>2, <2>4
  <2>6. QED
    BY <1>1, <1>2, <2>3, <2>4, <2>5 DEF With, Distinct
<1>3. CASE ~\E k \in 1..n : props[k].path = path
  <2>1. new = Append(props, e)
    BY <1>3 DEF AddedInOrder, e
  <2>3. /\ new \in Seq(S \cup {e}) /\ DOMAIN new = 1..(n + 1) /\ new[n + 1] = e
        /\ \A k \in 1..n : new[k] = props[k]
    <3> HIDE DEF new
    <3>1. QED
      BY <1>1, <2>1
  <2> HIDE DEF new, n
  <2>4. /\ n + 1 \in 1..(n + 1) /\ \A k \in 1..(n + 1) : k = n + 1 \/ k \in 1..n
        /\ \A k \in 1..n : k \in 1..(n + 1)
    BY <1>1
  <2>5. \A k, l \in 1..(n + 1) : k # l => new[k].path # new[l].path
    BY <1>1, <1>3, <2>3, <2>4
  <2>6. QED
    BY <1>1, <2>3, <2>4, <2>5 DEF With, Distinct
<1>4. QED
  BY <1>2, <1>3

\* The properties of the resource of row d, in column i, by the rows below it.
PropsOf(props, i, d) ==
  /\ props \in Seq({RowOf(n, i) : n \in Below(d)})
  /\ Distinct(props)
  /\ \A n \in Below(d) :
       (\A m \in Below(d) : read[m].path = read[n].path => m <= n) =>
         \E k \in DOMAIN props : props[k] = RowOf(n, i)

LEMMA PropsSame ==
  ASSUME NEW q, Reads(q), NEW d \in 1..Len(read), \A k : k \in Below(d)' <=> k \in Below(d),
         NEW i, NEW props, PropsOf(props, i, d)
  PROVE  PropsOf(props, i, d)'
<1>1. \A n \in Below(d) : read'[n] = read[n] /\ RowOf(n, i)' = RowOf(n, i)
  <2>1. \A n \in Below(d) : n \in 1..Len(read)
    BY RowRead DEF Below
  <2>2. \A n \in Below(d) : read'[n] = read[n]
    BY <2>1, RowRead
  <2>3. QED
    BY <2>2 DEF RowOf
<1>2. Below(d)' = Below(d)
  OBVIOUS
<1>3. {RowOf(n, i)' : n \in Below(d)'} = {RowOf(n, i) : n \in Below(d)}
  BY <1>1, <1>2
<1>4. \A n \in Below(d) :
        (\A m \in Below(d) : read[m].path = read[n].path => m <= n) =>
          \E k \in DOMAIN props : props[k] = RowOf(n, i)
  BY DEF PropsOf
<1>5. /\ props \in Seq({RowOf(n, i) : n \in Below(d)})
      /\ Distinct(props)
  BY DEF PropsOf
<1>6. \A n \in Below(d)' :
        (\A m \in Below(d)' : read'[m].path = read'[n].path => m <= n) =>
          \E k \in DOMAIN props : props[k] = RowOf(n, i)'
  BY <1>1, <1>2, <1>4
<1>7. QED
  BY <1>3, <1>5, <1>6 DEF PropsOf

LEMMA PropsMore ==
  ASSUME NEW q, Reads(q), NEW d \in 1..Len(read),
         \A k : k \in Below(d)' <=> k \in Below(d) \/ k = Len(read) + 1,
         NEW i, NEW props, PropsOf(props, i, d),
         NEW new, new = AddedInOrder(props, q.path, q.cells[i])
  PROVE  PropsOf(new, i, d)'
<1> DEFINE last == Len(read) + 1
           e == [path |-> q.path, value |-> q.cells[i]]
<1>1. /\ last \in Nat /\ read'[last] = q
      /\ \A n \in Below(d) : n \in Nat /\ n < last /\ read'[n] = read[n] /\ RowOf(n, i)' = RowOf(n, i)
  <2>1. Len(read) \in Nat /\ read'[last] = q
    BY RowRead
  <2>2. \A n \in Below(d) : n \in 1..Len(read)
    BY <2>1 DEF Below
  <2>3. \A n \in Below(d) : read'[n] = read[n]
    BY <2>2, RowRead
  <2>4. QED
    BY <2>1, <2>2, <2>3 DEF RowOf
<1>2. \A n : n = last => RowOf(n, i)' = e
  BY <1>1 DEF RowOf
<1> HIDE DEF last
<1>3. Below(d)' = Below(d) \cup {last}
  BY DEF last
<1>4. {RowOf(n, i)' : n \in Below(d)'} = {RowOf(n, i) : n \in Below(d)} \cup {e}
  BY <1>1, <1>2, <1>3
<1>5. /\ props \in Seq({RowOf(n, i) : n \in Below(d)})
      /\ Distinct(props)
      /\ \A n \in Below(d) :
           (\A m \in Below(d) : read[m].path = read[n].path => m <= n) =>
             \E k \in DOMAIN props : props[k] = RowOf(n, i)
  BY DEF PropsOf
<1>6. /\ new \in Seq({RowOf(n, i) : n \in Below(d)} \cup {e})
      /\ Distinct(new)
      /\ \E k \in DOMAIN new : new[k] = e
      /\ \A k \in DOMAIN props : props[k].path # q.path => k \in DOMAIN new /\ new[k] = props[k]
  <2> DEFINE S == {RowOf(n, i) : n \in Below(d)}
  <2>1. props \in Seq(S) /\ Distinct(props)
    BY <1>5
  <2> HIDE DEF S
  <2>2. With(new, props, S, e)
    BY <2>1, AddedIs
  <2>3. QED
    BY <2>2 DEF With, S
<1>7. ASSUME NEW n \in Below(d)', \A m \in Below(d)' : read'[m].path = read'[n].path => m <= n
      PROVE  \E k \in DOMAIN new : new[k] = RowOf(n, i)'
  <2>1. CASE n = last
    BY <1>2, <1>6, <2>1
  <2>2. CASE n # last
    <3>1. n \in Below(d) /\ read'[n] = read[n] /\ n \in Nat /\ n < last
      BY <1>1, <1>3, <2>2
    <3>2. q.path # read[n].path
      <4>1. read'[last].path = read'[n].path => last <= n
        BY <1>3, <1>7
      <4>2. QED
        BY <1>1, <3>1, <4>1
    <3>3. \A m \in Below(d) : read[m].path = read[n].path => m <= n
      BY <1>1, <1>3, <1>7, <3>1
    <3>4. PICK k \in DOMAIN props : props[k] = RowOf(n, i)
      BY <1>5, <3>1, <3>3
    <3>5. props[k].path # q.path
      BY <3>2, <3>4 DEF RowOf
    <3>6. RowOf(n, i)' = RowOf(n, i)
      BY <1>1, <3>1
    <3>7. QED
      BY <1>6, <3>4, <3>5, <3>6
  <2>3. QED
    BY <2>1, <2>2
<1>8. QED
  BY <1>4, <1>6, <1>7 DEF PropsOf

ResourceOf(r, i, d) == r.type = read[d].path /\ PropsOf(r.props, i, d)

NamedIn(i, id) == \E d \in 1..Len(read) : Declares(d) /\ read[d].cells[i] = id

SheetInv ==
  /\ width \in 2..(MaxTemplates + 1)
  /\ read \in Seq(SheetRows)
  /\ section \in {"none", "parameters", "resources"}
  /\ \A s \in {"parameters", "resources"} : section = s <=> SectionOf(Len(read) + 1) = s

CurrentInv ==
  /\ current = <<>> => \A d \in 1..Len(read) : ~Declares(d)
  /\ current # <<>> => \E d \in 1..Len(read) : Latest(d)
  /\ \A d \in 1..Len(read) : Latest(d) => current = [i \in Sheets |-> read[d].cells[i]]

\* The resources of column i are those named in it, each as declared last.
ColumnInv(i) ==
  /\ rows[i] = [id \in DOMAIN rows[i] |-> rows[i][id]]
  /\ \A id : id \in DOMAIN rows[i] <=> id # NoValue /\ NamedIn(i, id)
  /\ \A id \in DOMAIN rows[i] :
       /\ rows[i][id] = [type |-> rows[i][id].type, props |-> rows[i][id].props]
       /\ \A d \in 1..Len(read) : LastOf(i, id, d) => ResourceOf(rows[i][id], i, d)

RowsInv == rows = [i \in Sheets |-> rows[i]] /\ \A i \in Sheets : ColumnInv(i)

ScanInv == SheetInv /\ CurrentInv /\ RowsInv

\* The next row declares nothing.
LEMMA DeclaresNothing ==
  ASSUME NEW q, Reads(q), ~(q.is \in {"type", "badType"} /\ SectionOf(Len(read) + 1) = "resources")
  PROVE  /\ \A d \in 1..Len(read)' : Declares(d)' <=> d \in 1..Len(read) /\ Declares(d)
         /\ \A d \in 1..Len(read)' : Latest(d)' <=> d \in 1..Len(read) /\ Latest(d)
         /\ \A i, id : \A d \in 1..Len(read)' :
              LastOf(i, id, d)' <=> d \in 1..Len(read) /\ LastOf(i, id, d)
         /\ \A i, id : NamedIn(i, id)' <=> NamedIn(i, id)
<1> DEFINE n == Len(read)
<1>1. /\ n \in Nat /\ Len(read)' = n + 1
      /\ \A k \in 1..n : read'[k] = read[k]
  BY RowRead
<1>2. /\ \A d \in 1..n : Declares(d)' <=> Declares(d)
      /\ \A d : d = n + 1 => ~Declares(d)'
  BY BelowRead
<1>3. /\ \A d \in 1..(n + 1) : d = n + 1 \/ d \in 1..n
      /\ \A d \in 1..n : d \in 1..(n + 1) /\ d # n + 1
      /\ \A d \in 1..n : \A k \in (d + 1)..(n + 1) : k = n + 1 \/ k \in (d + 1)..n
      /\ \A d \in 1..n : \A k \in (d + 1)..n : k \in (d + 1)..(n + 1) /\ k \in 1..n
  BY <1>1
<1>4. \A d \in 1..(n + 1) : Declares(d)' <=> d \in 1..n /\ Declares(d)
  BY <1>2, <1>3
<1>5. \A d \in 1..(n + 1) : Latest(d)' <=> d \in 1..n /\ Latest(d)
  <2>1. \A d : Latest(d)' <=> Declares(d)' /\ \A k \in (d + 1)..(n + 1) : ~Declares(k)'
    BY <1>1 DEF Latest
  <2>2. QED
    BY <1>2, <1>3, <2>1 DEF Latest
<1>6. ASSUME NEW i, NEW id, NEW d \in 1..(n + 1)
      PROVE  LastOf(i, id, d)' <=> d \in 1..n /\ LastOf(i, id, d)
  <2>1. LastOf(i, id, d)' <=>
          /\ Declares(d)' /\ read'[d].cells[i] = id
          /\ \A k \in (d + 1)..(n + 1) : ~(Declares(k)' /\ read'[k].cells[i] = id)
    BY <1>1 DEF LastOf
  <2>2. QED
    BY <1>1, <1>2, <1>3, <2>1 DEF LastOf
<1>7. ASSUME NEW i, NEW id
      PROVE  NamedIn(i, id)' <=> NamedIn(i, id)
  <2>1. NamedIn(i, id)' <=> \E d \in 1..(n + 1) : Declares(d)' /\ read'[d].cells[i] = id
    BY <1>1 DEF NamedIn
  <2>2. QED
    BY <1>1, <1>2, <1>3, <2>1 DEF NamedIn
<1>8. QED
  BY <1>1, <1>4, <1>5, <1>6, <1>7

\* A row that declares nothing and, where it would be one, names no property.
LEMMA QuietRow ==
  ASSUME CurrentInv, RowsInv, NEW q, Reads(q), UNCHANGED <<width, current, rows>>,
         ~(q.is \in {"type", "badType", "name"} /\ SectionOf(Len(read) + 1) = "resources")
  PROVE  CurrentInv' /\ RowsInv'
<1> DEFINE n == Len(read)
<1>1. /\ n \in Nat /\ Len(read)' = n + 1
      /\ \A k \in 1..n : read'[k] = read[k]
  BY RowRead
<1>2. /\ \A d \in 1..(n + 1) : Declares(d)' <=> d \in 1..n /\ Declares(d)
      /\ \A d \in 1..(n + 1) : Latest(d)' <=> d \in 1..n /\ Latest(d)
      /\ \A i, id : \A d \in 1..(n + 1) : LastOf(i, id, d)' <=> d \in 1..n /\ LastOf(i, id, d)
      /\ \A i, id : NamedIn(i, id)' <=> NamedIn(i, id)
  BY <1>1, DeclaresNothing
<1>3. \A d \in 1..n : \A k : k \in Below(d)' <=> k \in Below(d)
  BY BelowRead
<1>4. Sheets' = Sheets
  BY DEF Sheets
<1>5. CurrentInv'
  <2>1. \A d \in 1..n : d \in 1..(n + 1)
    BY <1>1
  <2>2. QED
    BY <1>1, <1>2, <1>4, <2>1 DEF CurrentInv
<1>6. ASSUME NEW i, NEW r, NEW d \in 1..n, ResourceOf(r, i, d)
      PROVE  ResourceOf(r, i, d)'
  <2>1. PropsOf(r.props, i, d)'
    BY <1>3, <1>6, PropsSame DEF ResourceOf
  <2>2. QED
    BY <1>1, <1>6, <2>1 DEF ResourceOf
<1>7. RowsInv'
  BY <1>1, <1>2, <1>4, <1>6 DEF RowsInv, ColumnInv
<1>8. QED
  BY <1>5, <1>7

\* Of the resources of a column one at most goes on: the one in the row that was
\* the latest to declare.
LEMMA WhoGoesOn ==
  ASSUME NEW q, Reads(q), NEW last \in 1..Len(read), Latest(last),
         NEW i, NEW id, NEW d \in 1..Len(read), LastOf(i, id, d)
  PROVE  IF read[last].cells[i] = id
           THEN d = last /\ \A j \in (d + 1)..Len(read) : ~Declares(j)
           ELSE \A k : k \in Below(d)' <=> k \in Below(d)
<1>1. Len(read) \in Nat
  BY RowRead
<1>2. Declares(last) /\ \A k \in (last + 1)..Len(read) : ~Declares(k)
  BY DEF Latest
<1>3. Declares(d) /\ read[d].cells[i] = id
      /\ \A k \in (d + 1)..Len(read) : ~(Declares(k) /\ read[k].cells[i] = id)
  BY DEF LastOf
<1>4. ~(d > last)
  BY <1>1, <1>2, <1>3
<1>5. CASE read[last].cells[i] = id
  <2>1. ~(d < last)
    BY <1>1, <1>2, <1>3, <1>5
  <2>2. d = last
    BY <1>1, <1>4, <2>1
  <2>3. QED
    BY <1>2, <1>5, <2>2
<1>6. CASE read[last].cells[i] # id
  <2>1. d # last
    BY <1>3, <1>6
  <2>2. last \in (d + 1)..Len(read)
    BY <1>1, <1>4, <2>1
  <2>3. ~\A j \in (d + 1)..Len(read) : ~Declares(j)
    BY <1>2, <2>2
  <2>4. \A k : k \in Below(d)' <=> k \in Below(d)
    BY <2>3, BelowRead
  <2>5. QED
    BY <1>6, <2>4
<1>7. QED
  BY <1>5, <1>6

LEMMA SheetRead ==
  ASSUME SheetInv, NEW q, Reads(q), UNCHANGED width,
         section' = IF q.is = "blank" THEN "none"
                    ELSE IF q.is \in {"parameters", "resources"} THEN q.is ELSE section
  PROVE  SheetInv'
<1>1. /\ read' \in Seq(SheetRows)
      /\ SectionOf(Len(read) + 1)' = IF q.is \in Marks THEN q.is ELSE SectionOf(Len(read) + 1)
  BY RowRead
<1>2. \A s \in {"parameters", "resources"} : section' = s <=> SectionOf(Len(read) + 1)' = s
  <2>1. \A s \in {"parameters", "resources"} : section = s <=> SectionOf(Len(read) + 1) = s
    BY DEF SheetInv
  <2> DEFINE before == SectionOf(Len(read) + 1)
             after == SectionOf(Len(read) + 1)'
  <2>2. after = IF q.is \in Marks THEN q.is ELSE before
    BY <1>1
  <2>3. \A s \in {"parameters", "resources"} : section = s <=> before = s
    BY <2>1
  <2> HIDE DEF before, after
  <2>4. \A s \in {"parameters", "resources"} : section' = s <=> after = s
    BY <2>2, <2>3 DEF Marks
  <2>5. QED
    BY <2>4 DEF after
<1>3. section' \in {"none", "parameters", "resources"} /\ width' \in 2..(MaxTemplates + 1)
  BY DEF SheetInv, MaxTemplates
<1>4. QED
  BY <1>1, <1>2, <1>3 DEF SheetInv, MaxTemplates

\* A row of a resource: what is above it is as it was, and it has no rows yet.
LEMMA ResourceRow ==
  ASSUME ScanInv, NEW q, Reads(q), UNCHANGED width,
         q.is \in {"type", "badType"}, section = "resources",
         rows' = [i \in Sheets |->
                    IF i \in Named(q)
                      THEN Added(rows[i], q.cells[i], [type |-> q.path, props |-> <<>>])
                      ELSE rows[i]],
         current' = CurrentOf(q)
  PROVE  CurrentInv' /\ RowsInv'
<1> DEFINE n == Len(read)
<1>1. /\ n \in Nat /\ Len(read)' = n + 1
      /\ read'[n + 1] = q
      /\ \A k \in 1..n : read'[k] = read[k]
  BY RowRead
<1>2. SectionOf(n + 1) = "resources"
  BY DEF ScanInv, SheetInv
<1>3. /\ \A d \in 1..n : Declares(d)' <=> Declares(d)
      /\ \A d : d = n + 1 => Declares(d)'
      /\ \A d \in 1..n : \A k : k \in Below(d)' <=> k \in Below(d)
      /\ \A d : d = n + 1 => Below(d)' = {}
  BY <1>2, BelowRead
<1>4. Sheets' = Sheets /\ 1 \in Sheets
  BY DEF Sheets, ScanInv, SheetInv
<1>5. /\ \A d \in 1..(n + 1) : d = n + 1 \/ d \in 1..n
      /\ \A d \in 1..n : d \in 1..(n + 1) /\ d # n + 1 /\ n + 1 \in (d + 1)..(n + 1)
      /\ \A d \in 1..n : \A k \in (d + 1)..(n + 1) : k = n + 1 \/ k \in (d + 1)..n
      /\ \A d \in 1..n : \A k \in (d + 1)..n : k \in (d + 1)..(n + 1) /\ k \in 1..n
      /\ \A d : d = n + 1 => \A k : k \notin (d + 1)..(n + 1)
      /\ n + 1 \in 1..(n + 1)
  BY <1>1
<1>6. CurrentInv'
  <2>1. \A d \in 1..(n + 1) : Latest(d)' <=> d = n + 1
    <3>1. \A d : Latest(d)' <=> Declares(d)' /\ \A k \in (d + 1)..(n + 1) : ~Declares(k)'
      BY <1>1 DEF Latest
    <3>2. QED
      BY <1>3, <1>5, <3>1
  <2>2. current' = [i \in Sheets |-> q.cells[i]]
    BY DEF CurrentOf
  <2>3. current' # <<>>
    <3>1. 1 \in DOMAIN current' /\ 1 \notin DOMAIN <<>>
      BY <1>4, <2>2
    <3>2. QED
      BY <3>1
  <2>4. QED
    BY <1>1, <1>4, <1>5, <2>1, <2>2, <2>3 DEF CurrentInv
<1>7. \A i, id : \A d \in 1..(n + 1) : LastOf(i, id, d)' =>
        IF q.cells[i] = id THEN d = n + 1 ELSE d \in 1..n /\ LastOf(i, id, d)
  <2> TAKE i, id
  <2> TAKE d \in 1..(n + 1)
  <2>1. LastOf(i, id, d)' <=>
          /\ Declares(d)' /\ read'[d].cells[i] = id
          /\ \A k \in (d + 1)..(n + 1) : ~(Declares(k)' /\ read'[k].cells[i] = id)
    BY <1>1 DEF LastOf
  <2>2. QED
    BY <1>1, <1>3, <1>5, <2>1 DEF LastOf
<1>8. \A i, id : NamedIn(i, id)' <=> NamedIn(i, id) \/ q.cells[i] = id
  <2> TAKE i, id
  <2>1. NamedIn(i, id)' <=> \E d \in 1..(n + 1) : Declares(d)' /\ read'[d].cells[i] = id
    BY <1>1 DEF NamedIn
  <2>2. QED
    BY <1>1, <1>3, <1>5, <2>1 DEF NamedIn
<1>9. ASSUME NEW i, NEW r, NEW d \in 1..n, ResourceOf(r, i, d)
      PROVE  ResourceOf(r, i, d)'
  <2>1. PropsOf(r.props, i, d)'
    BY <1>3, <1>9, PropsSame DEF ResourceOf
  <2>2. QED
    BY <1>1, <1>9, <2>1 DEF ResourceOf
<1>10. ASSUME NEW i, NEW r, r = [type |-> q.path, props |-> <<>>], NEW d, d = n + 1
       PROVE  ResourceOf(r, i, d)'
  <2>1. Below(d)' = {}
    BY <1>3, <1>10
  <2>2. PropsOf(<<>>, i, d)'
    <3>1. <<>> \in Seq({RowOf(m, i) : m \in Below(d)})'
      OBVIOUS
    <3>2. QED
      BY <2>1, <3>1 DEF PropsOf, Distinct
  <2>3. r.type = read'[d].path /\ r.props = <<>>
    BY <1>1, <1>10
  <2>4. QED
    BY <2>2, <2>3 DEF ResourceOf
<1>11. ASSUME NEW i \in Sheets
       PROVE  ColumnInv(i)'
  <2>1. /\ rows[i] = [id \in DOMAIN rows[i] |-> rows[i][id]]
        /\ \A id : id \in DOMAIN rows[i] <=> id # NoValue /\ NamedIn(i, id)
        /\ \A id \in DOMAIN rows[i] :
             /\ rows[i][id] = [type |-> rows[i][id].type, props |-> rows[i][id].props]
             /\ \A d \in 1..n : LastOf(i, id, d) => ResourceOf(rows[i][id], i, d)
    BY DEF ScanInv, RowsInv, ColumnInv
  <2>2. CASE i \in Named(q)
    <3> DEFINE r == [type |-> q.path, props |-> <<>>]
               new == q.cells[i]
    <3>1. new # NoValue
      BY <2>2 DEF Named
    <3>2. rows'[i] = [id \in DOMAIN rows[i] \cup {new} |-> IF id = new THEN r ELSE rows[i][id]]
      BY <2>2 DEF Added
    <3>3. r = [type |-> r.type, props |-> r.props]
      OBVIOUS
    <3>4. \A d : d = n + 1 => ResourceOf(r, i, d)'
      BY <1>10
    <3> HIDE DEF r
    <3>5. \A id \in DOMAIN rows'[i] :
            IF id = new THEN rows'[i][id] = r
                        ELSE id \in DOMAIN rows[i] /\ rows'[i][id] = rows[i][id]
      BY <3>2
    <3>6. /\ rows'[i] = [id \in DOMAIN rows'[i] |-> rows'[i][id]]
          /\ \A id : id \in DOMAIN rows'[i] <=> id # NoValue /\ NamedIn(i, id)'
      BY <1>8, <2>1, <3>1, <3>2
    <3>7. ASSUME NEW id \in DOMAIN rows'[i]
          PROVE  /\ rows'[i][id] = [type |-> rows'[i][id].type, props |-> rows'[i][id].props]
                 /\ \A d \in 1..(n + 1) : LastOf(i, id, d)' => ResourceOf(rows[i][id], i, d)'
      <4>1. CASE id = new
        BY <1>7, <3>3, <3>4, <3>5, <4>1
      <4>2. CASE id # new
        BY <1>7, <1>9, <2>1, <3>5, <4>2
      <4>3. QED
        BY <4>1, <4>2
    <3>8. QED
      BY <1>1, <3>6, <3>7 DEF ColumnInv
  <2>3. CASE i \notin Named(q)
    <3>1. q.cells[i] = NoValue /\ rows'[i] = rows[i]
      BY <2>3 DEF Named
    <3>2. QED
      BY <1>1, <1>7, <1>8, <1>9, <2>1, <3>1 DEF ColumnInv
  <2>4. QED
    BY <2>2, <2>3
<1>12. rows' = [i \in Sheets |-> rows'[i]]
  OBVIOUS
<1>13. RowsInv'
  BY <1>4, <1>11, <1>12 DEF RowsInv
<1>14. QED
  BY <1>6, <1>13

\* A row of a property: it goes to the resource that each column has in the row
\* that was the latest to declare, and to no other.
LEMMA PropertyRow ==
  ASSUME ScanInv, NEW q, Reads(q), UNCHANGED <<width, current>>,
         q.is = "name", section = "resources",
         rows' = [i \in Sheets |->
                    IF current # <<>> /\ current[i] # NoValue
                      THEN [rows[i] EXCEPT ![current[i]].props = AddedInOrder(@, q.path, q.cells[i])]
                      ELSE rows[i]]
  PROVE  CurrentInv' /\ RowsInv'
<1> DEFINE n == Len(read)
<1>1. /\ n \in Nat /\ Len(read)' = n + 1
      /\ \A k \in 1..n : read'[k] = read[k]
  BY RowRead
<1>2. /\ \A d \in 1..(n + 1) : Latest(d)' <=> d \in 1..n /\ Latest(d)
      /\ \A d \in 1..(n + 1) : Declares(d)' <=> d \in 1..n /\ Declares(d)
      /\ \A i, id : \A d \in 1..(n + 1) : LastOf(i, id, d)' <=> d \in 1..n /\ LastOf(i, id, d)
      /\ \A i, id : NamedIn(i, id)' <=> NamedIn(i, id)
  BY <1>1, DeclaresNothing
<1>3. SectionOf(n + 1) = "resources"
  BY DEF ScanInv, SheetInv
<1>4. Sheets' = Sheets
  BY DEF Sheets
<1>5. CurrentInv'
  <2>1. \A d \in 1..n : d \in 1..(n + 1)
    BY <1>1
  <2>2. QED
    BY <1>1, <1>2, <1>4, <2>1 DEF ScanInv, CurrentInv
<1>6. ASSUME NEW i, NEW r, NEW d \in 1..n, ResourceOf(r, i, d),
             \A k : k \in Below(d)' <=> k \in Below(d)
      PROVE  ResourceOf(r, i, d)'
  <2>1. PropsOf(r.props, i, d)'
    BY <1>6, PropsSame DEF ResourceOf
  <2>2. QED
    BY <1>1, <1>6, <2>1 DEF ResourceOf
<1>7. ASSUME NEW i, NEW r, NEW d \in 1..n, ResourceOf(r, i, d), \A j \in (d + 1)..n : ~Declares(j),
             NEW s, s.type = r.type, s.props = AddedInOrder(r.props, q.path, q.cells[i])
      PROVE  ResourceOf(s, i, d)'
  <2>1. \A k : k \in Below(d)' <=> k \in Below(d) \/ k = n + 1
    BY <1>3, <1>7, BelowRead
  <2>2. PropsOf(s.props, i, d)'
    <3>1. PropsOf(r.props, i, d)
      BY <1>7 DEF ResourceOf
    <3>2. QED
      BY <1>7, <2>1, <3>1, PropsMore
  <2>3. QED
    BY <1>1, <1>7, <2>2 DEF ResourceOf
<1>8. ASSUME NEW i \in Sheets
      PROVE  ColumnInv(i)'
  <2>1. /\ rows[i] = [id \in DOMAIN rows[i] |-> rows[i][id]]
        /\ \A id : id \in DOMAIN rows[i] <=> id # NoValue /\ NamedIn(i, id)
        /\ \A id \in DOMAIN rows[i] :
             /\ rows[i][id] = [type |-> rows[i][id].type, props |-> rows[i][id].props]
             /\ \A d \in 1..n : LastOf(i, id, d) => ResourceOf(rows[i][id], i, d)
    BY DEF ScanInv, RowsInv, ColumnInv
  <2>2. CASE current = <<>>
    <3>1. \A d \in 1..n : ~Declares(d)
      BY <2>2 DEF ScanInv, CurrentInv
    <3>2. \A id : ~NamedIn(i, id)
      BY <3>1 DEF NamedIn
    <3>3. rows'[i] = rows[i] /\ \A id : id \notin DOMAIN rows[i]
      BY <2>1, <2>2, <3>2
    <3>4. QED
      BY <1>1, <1>2, <2>1, <3>3 DEF ColumnInv
  <2>3. CASE current # <<>>
    <3>1. PICK last \in 1..n : Latest(last)
      BY <2>3 DEF ScanInv, CurrentInv
    <3>2. current[i] = read[last].cells[i]
      BY <3>1 DEF ScanInv, CurrentInv
    <3>3. \A id : \A d \in 1..n : LastOf(i, id, d) =>
            IF current[i] = id
              THEN \A j \in (d + 1)..n : ~Declares(j)
              ELSE \A k : k \in Below(d)' <=> k \in Below(d)
      BY <3>1, <3>2, WhoGoesOn
    <3>4. CASE current[i] = NoValue
      <4>1. rows'[i] = rows[i]
        BY <3>4
      <4>2. ASSUME NEW id \in DOMAIN rows[i], NEW d \in 1..(n + 1), LastOf(i, id, d)'
            PROVE  ResourceOf(rows[i][id], i, d)'
        <5>1. id # NoValue /\ d \in 1..n /\ LastOf(i, id, d) /\ ResourceOf(rows[i][id], i, d)
          BY <1>2, <2>1, <4>2
        <5>2. \A r : r = rows[i][id] => ResourceOf(r, i, d)'
          BY <1>6, <3>3, <3>4, <5>1
        <5>3. QED
          BY <4>1, <5>2
      <4>3. QED
        BY <1>1, <1>2, <2>1, <4>1, <4>2 DEF ColumnInv
    <3>5. CASE current[i] # NoValue
      <4> DEFINE here == current[i]
                 old == rows[i][here]
                 new == [old EXCEPT !.props = AddedInOrder(@, q.path, q.cells[i])]
      <4>1. here \in DOMAIN rows[i]
        <5>1. NamedIn(i, here)
          BY <3>1, <3>2 DEF NamedIn, Latest
        <5>2. QED
          BY <2>1, <3>5, <5>1
      <4>2. old = [type |-> old.type, props |-> old.props]
        BY <2>1, <4>1
      <4>3. rows'[i] = [rows[i] EXCEPT ![here] = new]
        BY <2>3, <3>5
      <4>4. new = [type |-> old.type, props |-> AddedInOrder(old.props, q.path, q.cells[i])]
        <5> DEFINE props == AddedInOrder(old.props, q.path, q.cells[i])
        <5>1. new = [old EXCEPT !.props = props]
          OBVIOUS
        <5> HIDE DEF props, old, new
        <5>2. new = [type |-> old.type, props |-> props]
          BY <4>2, <5>1
        <5>3. QED
          BY <5>2 DEF props
      <4>5. new.type = old.type /\ new.props = AddedInOrder(old.props, q.path, q.cells[i])
            /\ new = [type |-> new.type, props |-> new.props]
        <5> HIDE DEF new
        <5>1. QED
          BY <4>4
      <4> HIDE DEF here, new
      <4>6. /\ DOMAIN rows'[i] = DOMAIN rows[i]
            /\ rows'[i] = [id \in DOMAIN rows'[i] |-> rows'[i][id]]
            /\ rows'[i][here] = new
            /\ \A id \in DOMAIN rows[i] : id # here => rows'[i][id] = rows[i][id]
        BY <2>1, <4>1, <4>3
      <4>7. ASSUME NEW id \in DOMAIN rows[i], NEW d \in 1..(n + 1), LastOf(i, id, d)'
            PROVE  ResourceOf(rows[i][id], i, d)'
        <5>1. d \in 1..n /\ LastOf(i, id, d) /\ ResourceOf(rows[i][id], i, d)
          BY <1>2, <2>1, <4>7
        <5>2. CASE id = here
          <6>1. \A j \in (d + 1)..n : ~Declares(j)
            BY <3>3, <5>1, <5>2 DEF here
          <6>2. \A s : s = new => ResourceOf(s, i, d)'
            BY <1>7, <4>5, <5>1, <5>2, <6>1
          <6>3. QED
            BY <4>6, <5>2, <6>2
        <5>3. CASE id # here
          <6>1. \A k : k \in Below(d)' <=> k \in Below(d)
            BY <3>3, <5>1, <5>3 DEF here
          <6>2. \A r : r = rows[i][id] => ResourceOf(r, i, d)'
            BY <1>6, <5>1, <6>1
          <6>3. QED
            BY <4>6, <5>3, <6>2
        <5>4. QED
          BY <5>2, <5>3
      <4>8. \A id \in DOMAIN rows'[i] :
              rows'[i][id] = [type |-> rows'[i][id].type, props |-> rows'[i][id].props]
        BY <2>1, <4>5, <4>6
      <4>9. \A id : id \in DOMAIN rows'[i] <=> id # NoValue /\ NamedIn(i, id)'
        BY <1>2, <2>1, <4>6
      <4>10. QED
        BY <1>1, <4>6, <4>7, <4>8, <4>9 DEF ColumnInv
    <3>6. QED
      BY <3>4, <3>5
  <2>4. QED
    BY <2>2, <2>3
<1>9. rows' = [i \in Sheets |-> rows'[i]]
  OBVIOUS
<1>10. RowsInv'
  BY <1>4, <1>8, <1>9 DEF RowsInv
<1>11. QED
  BY <1>5, <1>10

----------------------------------------------------------------------------
(***************************************************************************)
(* The whole conversion.                                                   *)
(***************************************************************************)
\* What EveryCellInItsPlace says of one resource, that of row last.
CellsPlaced(i, last, r) ==
  /\ r.type = read[last].path
  /\ \A n \in Below(last) :
       /\ read[n].cells[i] # NoValue
       /\ \A m \in Below(last) : Overlap(m, n) => read[m].path = read[n].path /\ m <= n
       => r.tree[StepsOf(read[n].path)] = read[n].cells[i]
  /\ \A p \in DOMAIN r.tree :
       r.tree[p] \notin {"dict", "list", NoValue} =>
         \E n \in Below(last) : StepsOf(read[n].path) = p /\ read[n].cells[i] = r.tree[p]

LEMMA CellsArePlaced ==
  ASSUME read \in Seq(SheetRows), NEW i, NEW d \in 1..Len(read),
         NEW r, ResourceOf(r, i, d), Resolved(r.props).ok,
         NEW made, made.type = r.type, made.tree = Resolved(r.props).tree
  PROVE  CellsPlaced(i, d, made)
<1> DEFINE props == r.props
           S == {RowOf(n, i) : n \in Below(d)}
           tree == made.tree
<1>1. \A n \in Below(d) : n \in Nat /\ read[n].path \in Seq(Parts) \ {<<>>}
  <2>1. \A n \in Below(d) : n \in 1..Len(read) /\ read[n].is = "name"
    BY DEF Below
  <2>2. \A n \in 1..Len(read) : read[n] \in SheetRows
    OBVIOUS
  <2>3. QED
    BY <2>1, <2>2, RowAssumption
<1>2. \A n \in Below(d) : RowOf(n, i).path = read[n].path /\ RowOf(n, i).value = read[n].cells[i]
  BY DEF RowOf
<1>3. /\ props \in Seq(S)
      /\ \A k, l \in DOMAIN props : k # l => props[k].path # props[l].path
      /\ \A n \in Below(d) :
           (\A m \in Below(d) : read[m].path = read[n].path => m <= n) =>
             \E k \in DOMAIN props : props[k] = RowOf(n, i)
  BY DEF ResourceOf, PropsOf, Distinct
<1>4. \A e \in S : e.path \in Seq(Parts) \ {<<>>}
  BY <1>1, <1>2
<1>5. \A k \in DOMAIN props : k \in 1..Len(props) /\ \E n \in Below(d) : props[k] = RowOf(n, i)
  BY <1>3
<1> HIDE DEF S
<1>6. TreeOf(tree, props, Len(props))
  BY <1>3, <1>4, ResolvedIs
<1> HIDE DEF tree
<1>7. ASSUME NEW n \in Below(d), read[n].cells[i] # NoValue,
             \A m \in Below(d) : Overlap(m, n) => read[m].path = read[n].path /\ m <= n
      PROVE  tree[StepsOf(read[n].path)] = read[n].cells[i]
  <2>1. \A m \in Below(d) : read[m].path = read[n].path => m <= n
    <3>1. IsPrefix(StepsOf(read[n].path), StepsOf(read[n].path))
      BY <1>1, StepsAre, PrefixesAre
    <3>2. \A m \in Below(d) : read[m].path = read[n].path => Overlap(m, n)
      BY <3>1 DEF Overlap
    <3>3. QED
      BY <1>7, <3>2
  <2>2. PICK k \in DOMAIN props : props[k] = RowOf(n, i)
    BY <1>3, <2>1
  <2>3. ASSUME NEW j \in DOMAIN props \ {k}
        PROVE  Apart(props[j].path, props[k].path)
    <3>1. PICK m \in Below(d) : props[j] = RowOf(m, i)
      BY <1>5
    <3>2. read[m].path # read[n].path
      BY <1>2, <1>3, <2>2, <3>1
    <3>3. ~Overlap(m, n)
      BY <1>7, <3>2
    <3>4. QED
      BY <1>2, <2>2, <3>1, <3>3 DEF Overlap, Apart
  <2>4. Alone(props, k)
    BY <1>2, <1>7, <2>2, <2>3 DEF Alone
  <2>5. tree[StepsOf(props[k].path)] = props[k].value
    BY <1>5, <1>6, <2>4 DEF TreeOf
  <2>6. QED
    BY <1>2, <2>2, <2>5
<1>8. ASSUME NEW p \in DOMAIN tree, tree[p] \notin {"dict", "list", NoValue}
      PROVE  \E n \in Below(d) : StepsOf(read[n].path) = p /\ read[n].cells[i] = tree[p]
  <2>1. PICK k \in 1..Len(props) : StepsOf(props[k].path) = p /\ props[k].value = tree[p]
    BY <1>6, <1>8 DEF TreeOf
  <2>2. PICK n \in Below(d) : props[k] = RowOf(n, i)
    BY <1>3, <1>5, <2>1
  <2>3. QED
    BY <1>2, <2>1, <2>2
<1>9. made.type = read[d].path
  BY DEF ResourceOf
<1>10. QED
  BY <1>7, <1>8, <1>9 DEF CellsPlaced, tree

\* The resources of column i, resolved.
ColumnPlaced(i, column) ==
  LET named(id) == {d \in 1..Len(read) : Declares(d) /\ read[d].cells[i] = id} IN
  /\ DOMAIN column = {read[d].cells[i] : d \in {k \in 1..Len(read) : Declares(k)}} \ {NoValue}
  /\ \A id \in DOMAIN column :
       LET last == CHOOSE k \in named(id) : \A j \in named(id) : j <= k IN
       CellsPlaced(i, last, column[id])

LEMMA ColumnIsPlaced ==
  ASSUME ScanInv, NEW i \in Sheets, \A id \in DOMAIN rows[i] : Resolved(rows[i][id].props).ok,
         NEW column,
         column = [id \in DOMAIN rows[i] |->
                     [type |-> rows[i][id].type, tree |-> Resolved(rows[i][id].props).tree]]
  PROVE  ColumnPlaced(i, column)
<1>1. /\ \A id : id \in DOMAIN rows[i] <=> id # NoValue /\ NamedIn(i, id)
      /\ \A id \in DOMAIN rows[i] : \A d \in 1..Len(read) :
           LastOf(i, id, d) => ResourceOf(rows[i][id], i, d)
  BY DEF ScanInv, RowsInv, ColumnInv
<1>2. read \in Seq(SheetRows) /\ Len(read) \in Nat
  BY DEF ScanInv, SheetInv
<1>3. DOMAIN column = {read[d].cells[i] : d \in {k \in 1..Len(read) : Declares(k)}} \ {NoValue}
  BY <1>1 DEF NamedIn
<1>4. ASSUME NEW id \in DOMAIN rows[i],
             NEW named, named = {d \in 1..Len(read) : Declares(d) /\ read[d].cells[i] = id},
             NEW last, last = CHOOSE k \in named : \A j \in named : j <= k
      PROVE  CellsPlaced(i, last, column[id])
  <2>1. \E k \in named : \A j \in named : j <= k
    <3>1. named # {} /\ named \in SUBSET (1..Len(read))
      BY <1>1, <1>4 DEF NamedIn
    <3>2. QED
      BY <1>2, <3>1, GreatestIsThere
  <2>2. last \in named /\ \A j \in named : j <= last
    BY <1>4, <2>1
  <2>3. last \in 1..Len(read) /\ Declares(last) /\ read[last].cells[i] = id
    BY <1>4, <2>2
  <2>4. ASSUME NEW k \in (last + 1)..Len(read), Declares(k), read[k].cells[i] = id
        PROVE  FALSE
    <3>1. k \in 1..Len(read) /\ ~(k <= last)
      BY <1>2, <2>3, <2>4
    <3>2. k \in named
      BY <1>4, <2>4, <3>1
    <3>3. QED
      BY <2>2, <3>1, <3>2
  <2>5. LastOf(i, id, last)
    BY <2>3, <2>4 DEF LastOf
  <2> DEFINE r == rows[i][id]
             made == column[id]
  <2>6. ResourceOf(r, i, last) /\ Resolved(r.props).ok
    BY <1>1, <2>3, <2>5
  <2>7. made.type = r.type /\ made.tree = Resolved(r.props).tree
    OBVIOUS
  <2> HIDE DEF r, made
  <2>8. CellsPlaced(i, last, made)
    BY <1>2, <2>3, <2>6, <2>7, CellsArePlaced
  <2>9. QED
    BY <2>8 DEF made
<1>5. DOMAIN column = DOMAIN rows[i]
  OBVIOUS
<1>6. QED
  BY <1>3, <1>4, <1>5 DEF ColumnPlaced

\* In an opened sheet nothing is read; what the scan remembers is ScanInv.
ExcelInv ==
  /\ excel = "load" => read = <<>> /\ section = "none" /\ current = <<>>
  /\ excel = "scan" => ScanInv
  /\ EveryCellInItsPlace

LEMMA NothingRead ==
  ASSUME excel = "load", read = <<>>, section = "none", current = <<>>,
         NEW w \in Widths, LoadSheet(w), excel' = "scan"
  PROVE  ScanInv'
<1>1. /\ width' \in 2..(MaxTemplates + 1)
      /\ rows' = [i \in 1..(width' - 1) |-> <<>>]
      /\ read' = <<>> /\ section' = "none" /\ current' = <<>>
  <2>1. w \in Nat /\ ~(w > MaxTemplates + 1 \/ w < 2)
    BY ExcelAssumption DEF LoadSheet
  <2>2. w \in 2..(MaxTemplates + 1)
    BY <2>1 DEF MaxTemplates
  <2>3. QED
    BY <2>2 DEF LoadSheet, MaxTemplates
<1>2. Len(read') = 0 /\ \A d : d \notin 1..Len(read')
  BY <1>1
<1>3. SheetInv'
  <2>1. SectionOf(Len(read) + 1)' = SectionIn(read', Len(read') + 1)
    BY DEF SectionOf, SectionIn, Marks
  <2>2. Len(read') + 1 = 1 /\ \A j : j \notin 1..(1 - 1)
    BY <1>2
  <2>3. SectionIn(read', 1) = "none"
    BY <2>2, NoSection
  <2>4. SectionOf(Len(read) + 1)' = "none"
    BY <2>1, <2>2, <2>3
  <2>5. \A s \in {"parameters", "resources"} : section' = s <=> SectionOf(Len(read) + 1)' = s
    BY <1>1, <2>4
  <2>6. QED
    BY <1>1, <2>5 DEF SheetInv, MaxTemplates
<1>4. CurrentInv'
  BY <1>1, <1>2 DEF CurrentInv
<1>5. RowsInv'
  <2>1. Sheets' = 1..(width' - 1)
    BY DEF Sheets
  <2>2. ASSUME NEW i \in 1..(width' - 1)
        PROVE  ColumnInv(i)'
    <3>1. rows'[i] = <<>> /\ DOMAIN <<>> = {}
      BY <1>1
    <3>2. <<>> = [id \in DOMAIN <<>> |-> <<>>[id]]
      OBVIOUS
    <3>3. \A id : ~NamedIn(i, id)'
      BY <1>2 DEF NamedIn
    <3>4. QED
      BY <3>1, <3>2, <3>3 DEF ColumnInv
  <2>3. QED
    BY <1>1, <2>1, <2>2 DEF RowsInv
<1>6. QED
  BY <1>3, <1>4, <1>5 DEF ScanInv

LEMMA Scanned ==
  ASSUME ScanInv, NEW q \in SheetRows, Scanning(q)
  PROVE  Reads(q)
  BY DEF ScanInv, SheetInv, Scanning, Reads

\* A row that is refused leaves no sheet to convert; any other keeps ScanInv.
LEMMA RowKeepsScan ==
  ASSUME ScanInv, NEW q \in SheetRows, excel' = "scan",
         \/ SkipRow(q) \/ BeginSection(q) \/ UnknownSection(q)
         \/ AddParameter(q) \/ AddResource(q) \/ AddProperty(q)
  PROVE  ScanInv'
<1>1. Reads(q)
  BY Scanned DEF SkipRow, BeginSection, UnknownSection, AddParameter, AddResource, AddProperty,
              InSection
<1>2. \A s \in {"parameters", "resources"} : section = s <=> SectionOf(Len(read) + 1) = s
  BY DEF ScanInv, SheetInv
<1>3. CASE SkipRow(q)
  <2>1. SheetInv'
    BY <1>1, <1>3, SheetRead DEF SkipRow, Keep, ScanInv, Contents
  <2>2. ~(q.is \in {"type", "badType", "name"} /\ SectionOf(Len(read) + 1) = "resources")
    BY <1>2, <1>3 DEF SkipRow
  <2>3. CurrentInv' /\ RowsInv'
    BY <1>1, <1>3, <2>2, QuietRow DEF SkipRow, Keep, ScanInv
  <2>4. QED
    BY <2>1, <2>3 DEF ScanInv
<1>4. CASE BeginSection(q)
  <2>1. SheetInv'
    BY <1>1, <1>4, SheetRead DEF BeginSection, Keep, ScanInv
  <2>2. CurrentInv' /\ RowsInv'
    BY <1>1, <1>4, QuietRow DEF BeginSection, Keep, ScanInv
  <2>3. QED
    BY <2>1, <2>2 DEF ScanInv
<1>5. CASE UnknownSection(q)
  BY <1>5 DEF UnknownSection, RefuseSheet
<1>6. CASE AddParameter(q)
  <2>1. section = "parameters" /\ q.is \in Contents /\ UNCHANGED <<width, section, current, rows>>
    BY <1>6 DEF AddParameter, InSection, RefuseSheet
  <2>2. SheetInv'
    BY <1>1, <2>1, SheetRead DEF ScanInv, Contents
  <2>3. CurrentInv' /\ RowsInv'
    BY <1>1, <1>2, <2>1, QuietRow DEF ScanInv
  <2>4. QED
    BY <2>2, <2>3 DEF ScanInv
<1>7. CASE AddResource(q)
  <2>1. /\ section = "resources" /\ q.is \in {"type", "badType"}
        /\ UNCHANGED <<width, section>>
        /\ current' = CurrentOf(q)
        /\ rows' = [i \in Sheets |->
                      IF i \in Named(q)
                        THEN Added(rows[i], q.cells[i], [type |-> q.path, props |-> <<>>])
                        ELSE rows[i]]
    BY <1>7 DEF AddResource, InSection, RefuseSheet
  <2>2. SheetInv'
    BY <1>1, <2>1, SheetRead DEF ScanInv
  <2>3. CurrentInv' /\ RowsInv'
    BY <1>1, <2>1, ResourceRow
  <2>4. QED
    BY <2>2, <2>3 DEF ScanInv
<1>8. CASE AddProperty(q)
  <2> DEFINE here == {i \in Sheets : current # <<>> /\ current[i] # NoValue}
  <2>1. /\ section = "resources" /\ q.is \in {"number", "name"}
        /\ UNCHANGED <<width, section, current>>
        /\ ~(q.is = "number" /\ here # {})
        /\ rows' = [i \in Sheets |->
                      IF current # <<>> /\ current[i] # NoValue
                        THEN [rows[i] EXCEPT ![current[i]].props = AddedInOrder(@, q.path, q.cells[i])]
                        ELSE rows[i]]
    BY <1>8 DEF AddProperty, InSection, RefuseSheet
  <2>2. SheetInv'
    BY <1>1, <2>1, SheetRead DEF ScanInv
  <2>3. CASE q.is = "name"
    <3>1. CurrentInv' /\ RowsInv'
      BY <1>1, <2>1, <2>3, PropertyRow
    <3>2. QED
      BY <2>2, <3>1 DEF ScanInv
  <2>4. CASE q.is = "number"
    <3>1. rows' = [i \in Sheets |-> rows[i]]
      BY <2>1, <2>4
    <3>2. rows' = rows
      BY <3>1 DEF ScanInv, RowsInv
    <3>3. CurrentInv' /\ RowsInv'
      BY <1>1, <2>1, <2>4, <3>2, QuietRow DEF ScanInv
    <3>4. QED
      BY <2>2, <3>3 DEF ScanInv
  <2>5. QED
    BY <2>1, <2>3, <2>4
<1>9. QED
  BY <1>3, <1>4, <1>5, <1>6, <1>7, <1>8

LEMMA ResolvedInPlace ==
  ASSUME ScanInv, Resolve, excel' = "done"
  PROVE  EveryCellInItsPlace'
<1>1. /\ UNCHANGED <<width, read>> /\ Sheets' = Sheets
      /\ \A i \in Sheets : \A id \in DOMAIN rows[i] : Resolved(rows[i][id].props).ok
      /\ resolved' = [i \in Sheets |->
                        [id \in DOMAIN rows[i] |->
                           [type |-> rows[i][id].type, tree |-> Resolved(rows[i][id].props).tree]]]
  BY DEF Resolve, Sheets
<1>2. \A i \in Sheets : ColumnPlaced(i, resolved'[i])
  BY <1>1, ColumnIsPlaced
<1>3. (\A i \in Sheets : ColumnPlaced(i, resolved[i]))'
  <2>1. \A i, column : ColumnPlaced(i, column)' <=> ColumnPlaced(i, column)
    BY <1>1 DEF ColumnPlaced, CellsPlaced, Below, Declares, SectionOf, Overlap
  <2>2. QED
    BY <1>1, <1>2, <2>1
<1>4. QED
  BY <1>3 DEF EveryCellInItsPlace, ColumnPlaced, CellsPlaced

\* Each template has the resources and the cells of its own column, each cell
\* where its row puts it, whatever the sheet (EveryCellInItsPlace).
THEOREM EveryCellPlaced == ExcelSpec => []EveryCellInItsPlace
<1>1. ExcelInit => ExcelInv
  BY DEF ExcelInit, ExcelInv, EveryCellInItsPlace
<1>2. ExcelInv /\ [ExcelNext]_excelVars => ExcelInv'
  <2> SUFFICES ASSUME ExcelInv, [ExcelNext]_excelVars
               PROVE  ExcelInv'
    OBVIOUS
  <2>1. ASSUME NEW w \in Widths, LoadSheet(w)
        PROVE  ExcelInv'
    <3>1. excel = "load" /\ excel' \in {"failed", "scan"}
      BY <2>1 DEF LoadSheet
    <3>2. excel' = "scan" => ScanInv'
      BY <2>1, <3>1, NothingRead DEF ExcelInv
    <3>3. QED
      BY <3>1, <3>2 DEF ExcelInv, EveryCellInItsPlace
  <2>2. ASSUME NEW q \in SheetRows,
               \/ SkipRow(q) \/ BeginSection(q) \/ UnknownSection(q)
               \/ AddParameter(q) \/ AddResource(q) \/ AddProperty(q)
        PROVE  ExcelInv'
    <3>1. excel = "scan" /\ excel' \in {"failed", "scan"}
      BY <2>2 DEF SkipRow, BeginSection, UnknownSection, AddParameter, AddResource, AddProperty,
                  InSection, Scanning, RefuseSheet, Keep
    <3>2. excel' = "scan" => ScanInv'
      BY <2>2, <3>1, RowKeepsScan DEF ExcelInv
    <3>3. QED
      BY <3>1, <3>2 DEF ExcelInv, EveryCellInItsPlace
  <2>3. CASE Resolve
    <3>1. excel = "scan" /\ excel' \in {"done", "failed"}
      BY <2>3 DEF Resolve
    <3>2. excel' = "done" => EveryCellInItsPlace'
      BY <2>3, <3>1, ResolvedInPlace DEF ExcelInv
    <3>3. QED
      BY <3>1, <3>2 DEF ExcelInv, EveryCellInItsPlace
  <2>4. CASE UNCHANGED excelVars
    <3>1. /\ UNCHANGED <<excel, width, read, section, current, rows, resolved>> /\ Sheets' = Sheets
      BY <2>4 DEF excelVars, Sheets
    <3>2. \A k : SectionOf(k)' = SectionOf(k)
      BY <3>1 DEF SectionOf
    <3>3. /\ \A d : Declares(d)' <=> Declares(d)
          /\ \A d : Below(d)' = Below(d)
      BY <3>1, <3>2 DEF Declares, Below
    <3>4. EveryCellInItsPlace'
      <4>1. \A i, column : ColumnPlaced(i, column)' <=> ColumnPlaced(i, column)
        BY <3>1 DEF ColumnPlaced, CellsPlaced, Below, Declares, SectionOf, Overlap
      <4>2. excel = "done" => \A i \in Sheets : ColumnPlaced(i, resolved[i])
        BY DEF ExcelInv, EveryCellInItsPlace, ColumnPlaced, CellsPlaced
      <4>3. (excel = "done" => \A i \in Sheets : ColumnPlaced(i, resolved[i]))'
        BY <3>1, <4>1, <4>2
      <4>4. QED
        BY <4>3 DEF EveryCellInItsPlace, ColumnPlaced, CellsPlaced
    <3>5. SheetInv <=> SheetInv'
      BY <3>1, <3>2 DEF SheetInv
    <3>6. CurrentInv <=> CurrentInv'
      BY <3>1, <3>3 DEF CurrentInv, Latest
    <3>7. \A r, i, d : ResourceOf(r, i, d)' <=> ResourceOf(r, i, d)
      <4>1. \A n, i : RowOf(n, i)' = RowOf(n, i)
        BY <3>1 DEF RowOf
      <4>2. \A i, d : {RowOf(n, i) : n \in Below(d)}' = {RowOf(n, i) : n \in Below(d)}
        BY <3>3, <4>1
      <4>3. \A props, i, d : PropsOf(props, i, d)' <=> PropsOf(props, i, d)
        BY <3>1, <3>3, <4>1, <4>2 DEF PropsOf
      <4>4. QED
        BY <3>1, <4>3 DEF ResourceOf
    <3>8. \A i : ColumnInv(i)' <=> ColumnInv(i)
      <4>1. \A i, id, d : LastOf(i, id, d)' <=> LastOf(i, id, d)
        BY <3>1, <3>3 DEF LastOf
      <4>2. \A i, id : NamedIn(i, id)' <=> NamedIn(i, id)
        BY <3>1, <3>3 DEF NamedIn
      <4>3. \A i, id, d : ResourceOf(rows[i][id], i, d)' <=> ResourceOf(rows[i][id], i, d)
        BY <3>1, <3>7
      <4>4. QED
        BY <3>1, <4>1, <4>2, <4>3 DEF ColumnInv
    <3>9. QED
      BY <3>1, <3>4, <3>5, <3>6, <3>8 DEF ExcelInv, ScanInv, RowsInv
  <2>5. QED
    BY <2>1, <2>2, <2>3, <2>4 DEF ExcelNext
<1>3. ExcelInv => EveryCellInItsPlace
  BY DEF ExcelInv
<1>4. QED
  BY <1>1, <1>2, <1>3, PTL DEF ExcelSpec
=============================================================================
