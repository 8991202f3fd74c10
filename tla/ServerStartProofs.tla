--------------------------- MODULE ServerStartProofs ---------------------------
(***************************************************************************)
(* Theorems about ServerStart, for any mods, graphs, layouts and releases:  *)
(* the list of config.json, what preflight promises of it, and the pins of  *)
(* an update.  First, of any finite graph, cycles included: the visit of    *)
(* resolved_mod_entries ends, and lists the closure in load order.          *)
(***************************************************************************)
EXTENDS ServerStart, SequenceTheorems, FiniteSetTheorems, WellFoundedInduction, Integers, TLAPS

-----------------------------------------------------------------------------
(* A function iterated *)

(* Naturals have a least one among them, which is induction enough.         *)
LEMMA LeastOf ==
    ASSUME NEW T \in SUBSET Nat, T # {}
    PROVE  \E k \in T : \A j \in T : k <= j
<1>1. PICK k \in T : \A j \in T : ~(<<j, k>> \in OpToRel(<, Nat))
    BY NatLessThanWellFounded, WFMin, Zenon
<1>2. \A j \in T : ~(j < k)
    BY <1>1 DEF OpToRel
<1> QED
    BY <1>2

(* What holds at 0 and passes from each number to the next holds up to K.   *)
LEMMA StepByStep ==
    ASSUME NEW K \in Nat, NEW S,
           0 \in S, \A n \in 1..K : n - 1 \in S => n \in S
    PROVE  0..K \subseteq S
<1> DEFINE T == (0..K) \ S
<1> SUFFICES ASSUME T # {} PROVE FALSE
    OBVIOUS
<1>0. T \in SUBSET Nat
    OBVIOUS
<1> HIDE DEF T
<1>1. PICK k \in T : \A j \in T : k <= j
    BY <1>0, LeastOf
<1> USE DEF T
<1>2. k # 0 /\ k - 1 \in 0..K /\ k - 1 \notin T
    BY <1>1
<1> QED
    BY <1>1, <1>2

(* w is the first K values of next, from first on.                          *)
Iterates(w, C, next, first, K) ==
    /\ w \in [0..K -> C]
    /\ w[0] = first /\ \A n \in 1..K : w[n] = next[w[n - 1]]

(* The K-fold iteration of a function is a function on 0..K.                *)
LEMMA IterationExists ==
    ASSUME NEW C, NEW next \in [C -> C], NEW first \in C, NEW K \in Nat
    PROVE  \E w : Iterates(w, C, next, first, K)
<1> DEFINE Good(w, k) == w[0] = first /\ \A n \in 1..k : w[n] = next[w[n - 1]]
           S == {k \in Nat : \E w \in [0..k -> C] : Good(w, k)}
<1>1. 0 \in S
    <2> DEFINE w == [n \in 0..0 |-> first]
    <2>1. w \in [0..0 -> C] /\ Good(w, 0)
        OBVIOUS
    <2> QED
        BY <2>1
<1>2. ASSUME NEW n \in 1..K, n - 1 \in S PROVE n \in S
    <2>1. PICK w \in [0..(n - 1) -> C] : Good(w, n - 1)
        BY <1>2
    <2> DEFINE x == [i \in 0..n |-> IF i = n THEN next[w[n - 1]] ELSE w[i]]
    <2>2. x \in [0..n -> C]
        OBVIOUS
    <2>3. x[0] = first
        BY <2>1
    <2>4. \A i \in 1..n : x[i] = next[x[i - 1]]
        BY <2>1
    <2> HIDE DEF x
    <2>5. n \in Nat
        OBVIOUS
    <2> QED
        BY <2>2, <2>3, <2>4, <2>5
<1> HIDE DEF S
<1>3. K \in S
    BY <1>1, <1>2, StepByStep
<1>4. PICK w \in [0..K -> C] : Good(w, K)
    BY <1>3 DEF S
<1>5. Iterates(w, C, next, first, K)
    BY <1>4 DEF Iterates
<1> QED
    BY <1>5

-----------------------------------------------------------------------------
(* The closure *)

(* Reach is closed, holds its roots, and is the least such set.             *)
LEMMA ReachIs ==
    ASSUME NEW N, NEW child \in [N -> SUBSET N], NEW roots \in SUBSET N
    PROVE  /\ roots \subseteq Reach(roots, child) /\ Reach(roots, child) \subseteq N
           /\ \A m \in Reach(roots, child) : child[m] \subseteq Reach(roots, child)
           /\ \A M \in SUBSET N :
                 roots \subseteq M /\ IsClosed(M, child) => Reach(roots, child) \subseteq M
<1>1. DOMAIN child = N
    OBVIOUS
<1>2. roots \subseteq Reach(roots, child) /\ Reach(roots, child) \subseteq N
    BY <1>1 DEF Reach
<1>3. ASSUME NEW m \in Reach(roots, child), NEW d \in child[m] PROVE d \in Reach(roots, child)
    <2>1. d \in N
        BY <1>2
    <2>2. ASSUME NEW M \in SUBSET N, roots \subseteq M, IsClosed(M, child) PROVE d \in M
        <3>1. m \in M
            BY <1>1, <2>2 DEF Reach
        <3> QED
            BY <2>2, <3>1 DEF IsClosed
    <2> QED
        BY <1>1, <2>1, <2>2 DEF Reach
<1>4. ASSUME NEW M \in SUBSET N, roots \subseteq M, IsClosed(M, child)
      PROVE  Reach(roots, child) \subseteq M
    BY <1>1, <1>4 DEF Reach
<1> QED
    BY <1>2, <1>3, <1>4

-----------------------------------------------------------------------------
(* Sequences without repetition *)

(* No mod twice.                                                            *)
Distinct(s) == \A i, j \in DOMAIN s : i < j => s[i] # s[j]

(* A mod that is called, or listed, joins the end.                          *)
LEMMA AppendIs ==
    ASSUME NEW N, NEW s \in Seq(N), NEW e \in N
    PROVE  /\ Append(s, e) \in Seq(N) /\ DOMAIN Append(s, e) = 1..(Len(s) + 1)
           /\ Len(Append(s, e)) = Len(s) + 1 /\ Len(s) \in Nat /\ DOMAIN s = 1..Len(s)
           /\ \A i \in 1..Len(s) : Append(s, e)[i] = s[i] /\ s[i] \in N
           /\ Append(s, e)[Len(s) + 1] = e
           /\ ToSet(Append(s, e)) = ToSet(s) \cup {e}
           /\ Distinct(s) /\ e \notin ToSet(s) => Distinct(Append(s, e))
<1>1. /\ Append(s, e) \in Seq(N) /\ DOMAIN Append(s, e) = 1..(Len(s) + 1)
      /\ Len(Append(s, e)) = Len(s) + 1 /\ Len(s) \in Nat /\ DOMAIN s = 1..Len(s)
      /\ \A i \in 1..Len(s) : Append(s, e)[i] = s[i] /\ s[i] \in N
      /\ Append(s, e)[Len(s) + 1] = e
    BY AppendProperties, LenProperties, ElementOfSeq
<1>2. ToSet(Append(s, e)) = ToSet(s) \cup {e}
    BY <1>1 DEF ToSet
<1>3. Distinct(s) /\ e \notin ToSet(s) => Distinct(Append(s, e))
    BY <1>1 DEF ToSet, Distinct
<1> QED
    BY <1>1, <1>2, <1>3

(* The last of a path that returns, and the rest of it.                     *)
LEMMA FrontIs ==
    ASSUME NEW N, NEW s \in Seq(N), s # <<>>
    PROVE  /\ Len(s) \in Nat \ {0} /\ DOMAIN s = 1..Len(s) /\ Last(s) = s[Len(s)] /\ Last(s) \in N
           /\ Front(s) \in Seq(N) /\ Len(Front(s)) = Len(s) - 1 /\ DOMAIN Front(s) = 1..(Len(s) - 1)
           /\ \A i \in 1..(Len(s) - 1) : Front(s)[i] = s[i]
           /\ ToSet(s) = ToSet(Front(s)) \cup {Last(s)}
           /\ Distinct(s) => Distinct(Front(s)) /\ Last(s) \notin ToSet(Front(s))
<1>1. Len(s) \in Nat \ {0} /\ DOMAIN s = 1..Len(s) /\ \A i \in 1..Len(s) : s[i] \in N
    BY EmptySeq, LenProperties, ElementOfSeq
<1>2. /\ Front(s) \in Seq(N) /\ Len(Front(s)) = Len(s) - 1
      /\ \A i \in 1..(Len(s) - 1) : Front(s)[i] = s[i]
    BY <1>1, SubSeqProperties DEF Front
<1>3. DOMAIN Front(s) = 1..(Len(s) - 1)
    BY <1>2, LenProperties
<1>4. Last(s) = s[Len(s)]
    BY DEF Last
<1>5. ToSet(s) = ToSet(Front(s)) \cup {Last(s)}
    BY <1>1, <1>2, <1>3, <1>4 DEF ToSet
<1>6. Distinct(s) => Distinct(Front(s)) /\ Last(s) \notin ToSet(Front(s))
    BY <1>1, <1>2, <1>3, <1>4 DEF ToSet, Distinct
<1> QED
    BY <1>1, <1>2, <1>3, <1>4, <1>5, <1>6

(* The first of the assignments to look at, and the rest of them.           *)
LEMMA TailIs ==
    ASSUME NEW N, NEW s \in Seq(N), s # <<>>
    PROVE  /\ Tail(s) \in Seq(N) /\ Head(s) \in N /\ Len(Tail(s)) = Len(s) - 1 /\ Len(s) \in Nat \ {0}
           /\ ToSet(s) = {Head(s)} \cup ToSet(Tail(s))
<1>1. /\ Tail(s) \in Seq(N) /\ Head(s) \in N /\ Len(Tail(s)) = Len(s) - 1
      /\ \A i \in 1..Len(Tail(s)) : Tail(s)[i] = s[i + 1]
    BY HeadTailProperties
<1>2. Len(s) \in Nat \ {0} /\ DOMAIN s = 1..Len(s) /\ DOMAIN Tail(s) = 1..(Len(s) - 1)
    BY <1>1, EmptySeq, LenProperties
<1>3. Head(s) = s[1]
    OBVIOUS
<1>4. ASSUME NEW x \in ToSet(s) PROVE x = Head(s) \/ x \in ToSet(Tail(s))
    <2>1. PICK i \in 1..Len(s) : x = s[i]
        BY <1>2, <1>4 DEF ToSet
    <2>2. CASE i = 1
        BY <1>3, <2>1, <2>2
    <2>3. CASE i # 1
        <3>1. i - 1 \in 1..(Len(s) - 1) /\ Tail(s)[i - 1] = s[i]
            BY <1>1, <1>2, <2>3
        <3> QED
            BY <1>2, <2>1, <3>1 DEF ToSet
    <2> QED
        BY <2>2, <2>3
<1>5. ASSUME NEW x \in ToSet(Tail(s)) PROVE x \in ToSet(s)
    <2>1. PICK i \in 1..(Len(s) - 1) : x = Tail(s)[i]
        BY <1>2, <1>5 DEF ToSet
    <2>2. i + 1 \in 1..Len(s) /\ x = s[i + 1]
        BY <1>1, <1>2, <2>1
    <2> QED
        BY <1>2, <2>2 DEF ToSet
<1>6. Head(s) \in ToSet(s)
    BY <1>2, <1>3 DEF ToSet
<1> QED
    BY <1>1, <1>2, <1>4, <1>5, <1>6

-----------------------------------------------------------------------------
(* The post-order visit of layout over child, a graph on N *)

Items(N) == [mod : N, on : BOOLEAN]
Walks(N) == [todo : Seq(Items(N)), path : Seq(N), ordered : Seq(N)]
RootsOf(list) == {e.mod : e \in {x \in ToSet(list) : x.on}}

(* Whoever is on the path was called, by way of the graph, from all before. *)
PathLeads(path, child) ==
    \A i, j \in DOMAIN path : i < j => path[j] \in Reach({path[i]}, child)

(* What a listed mod names is before it, or leads back to it.               *)
ListedAfter(list, child) ==
    \A i \in DOMAIN list : \A d \in child[list[i]] :
        (\E k \in DOMAIN list : k < i /\ list[k] = d) \/ list[i] \in Reach({d}, child)

Touched(v) == ToSet(v.path) \cup ToSet(v.ordered)

WalkOK(v, layout_, child) ==
    /\ Distinct(v.path) /\ Distinct(v.ordered) /\ ToSet(v.path) \cap ToSet(v.ordered) = {}
    /\ PathLeads(v.path, child)
    /\ ListedAfter(v.ordered, child)
    /\ \A m \in ToSet(v.ordered) : child[m] \subseteq Touched(v)
    /\ Touched(v) \subseteq Reach(RootsOf(layout_), child)
    /\ RootsOf(v.todo) \subseteq RootsOf(layout_)
    /\ RootsOf(layout_) \subseteq RootsOf(v.todo) \cup Touched(v)

Over(v) == v.todo = <<>> /\ v.path = <<>>

(* What is done of the calls.                                               *)
Done(v, layout_) == Len(layout_) - Len(v.todo) + Len(v.path) + Len(v.ordered) + Len(v.ordered)

(* The enabled assignments are of mods.                                     *)
LEMMA RootsAreMods ==
    ASSUME NEW N, NEW l \in Seq(Items(N))
    PROVE  RootsOf(l) \in SUBSET N
<1>1. \A i \in DOMAIN l : l[i] \in Items(N)
    BY LenProperties, ElementOfSeq
<1> QED
    BY <1>1 DEF RootsOf, Items, ToSet

(* What one mod needs.                                                      *)
LEMMA ReachOne ==
    ASSUME NEW N, NEW child \in [N -> SUBSET N], NEW d \in N
    PROVE  d \in Reach({d}, child) /\ \A m \in Reach({d}, child) : child[m] \subseteq Reach({d}, child)
<1>1. {d} \in SUBSET N
    OBVIOUS
<1> QED
    BY <1>1, ReachIs

(* The mods of the path need all those after them.                          *)
LEMMA PathFacts ==
    ASSUME NEW N, NEW p \in Seq(N), NEW child, PathLeads(p, child)
    PROVE  \A i, j \in 1..Len(p) : i < j => p[j] \in Reach({p[i]}, child)
BY LenProperties DEF PathLeads

(* Each of the three moves of the visit brings it nearer to its end.        *)
LEMMA MoreDone ==
    ASSUME NEW N, NEW v \in Walks(N), NEW w \in Walks(N), NEW l \in Seq(Items(N)),
           \/ /\ Len(w.todo) = Len(v.todo) - 1 /\ Len(w.path) >= Len(v.path)
              /\ Len(w.ordered) = Len(v.ordered)
           \/ /\ Len(w.todo) = Len(v.todo) /\ Len(w.path) = Len(v.path) + 1
              /\ Len(w.ordered) = Len(v.ordered)
           \/ /\ Len(w.todo) = Len(v.todo) /\ Len(w.path) = Len(v.path) - 1
              /\ Len(w.ordered) = Len(v.ordered) + 1
    PROVE  Done(w, l) > Done(v, l)
<1>1. /\ Len(v.todo) \in Nat /\ Len(v.path) \in Nat /\ Len(v.ordered) \in Nat /\ Len(l) \in Nat
      /\ Len(w.todo) \in Nat /\ Len(w.path) \in Nat /\ Len(w.ordered) \in Nat
    BY LenProperties DEF Walks
<1>2. \A n, t, p, o, t2, p2, o2 \in Nat :
         \/ t2 = t - 1 /\ p2 >= p /\ o2 = o
         \/ t2 = t /\ p2 = p + 1 /\ o2 = o
         \/ t2 = t /\ p2 = p - 1 /\ o2 = o + 1
         => n - t2 + p2 + o2 + o2 > n - t + p + o + o
    OBVIOUS
<1> QED
    BY <1>1, <1>2 DEF Done

(* An assignment is looked at.                                              *)
LEMMA RootStep ==
    ASSUME NEW N, NEW child \in [N -> SUBSET N], NEW l \in Seq(Items(N)),
           NEW v \in Walks(N), WalkOK(v, l, child), v.path = <<>>, v.todo # <<>>
    PROVE  /\ NextRoot(v) \in Walks(N) /\ WalkOK(NextRoot(v), l, child)
           /\ Done(NextRoot(v), l) > Done(v, l)
<1> DEFINE e == Head(v.todo)
           w == NextRoot(v)
<1>1. /\ v.todo \in Seq(Items(N)) /\ v.ordered \in Seq(N)
      /\ v.ordered = w.ordered /\ w.todo = Tail(v.todo)
      /\ w.path = IF e.on /\ e.mod \notin ToSet(v.ordered) THEN <<e.mod>> ELSE <<>>
    BY DEF Walks, NextRoot, Visiting
<1>2. /\ Tail(v.todo) \in Seq(Items(N)) /\ e \in Items(N) /\ Len(Tail(v.todo)) = Len(v.todo) - 1
      /\ Len(v.todo) \in Nat \ {0} /\ ToSet(v.todo) = {e} \cup ToSet(Tail(v.todo))
    BY <1>1, TailIs
<1>3. RootsOf(v.todo) = (IF e.on THEN {e.mod} ELSE {}) \cup RootsOf(w.todo)
    BY <1>1, <1>2 DEF RootsOf, Items
<1>4. ToSet(v.path) = {} /\ ToSet(<<e.mod>>) = {e.mod} /\ e.mod \in N /\ e.on \in BOOLEAN
    BY <1>2 DEF ToSet, Items
<1>5. Len(<<e.mod>>) = 1 /\ Len(<<>>) = 0 /\ <<e.mod>> \in Seq(N) /\ <<>> \in Seq(N) /\ Len(l) \in Nat /\ Len(v.ordered) \in Nat
    BY <1>1, <1>4, LenProperties
<1>6. w \in Walks(N)
    BY <1>1, <1>2, <1>5 DEF Walks, NextRoot, Visiting
<1>7. Done(w, l) > Done(v, l)
    <2>1. Len(w.todo) = Len(v.todo) - 1 /\ Len(w.ordered) = Len(v.ordered) /\ Len(v.path) = 0
        BY <1>1, <1>2, <1>5
    <2>2. Len(w.path) \in {0, 1}
        BY <1>1, <1>5
    <2> HIDE DEF w
    <2> QED
        BY <1>6, <2>1, <2>2, MoreDone
<1>8. Distinct(w.path) /\ PathLeads(w.path, child)
    <2>1. \A i, j \in DOMAIN w.path : ~(i < j)
        <3>1. CASE w.path = <<e.mod>>
            BY <3>1
        <3>2. CASE w.path = <<>>
            BY <3>2
        <3> QED
            BY <1>1, <3>1, <3>2
    <2> QED
        BY <2>1 DEF Distinct, PathLeads
<1>9. Touched(v) \subseteq Touched(w) /\ RootsOf(v.todo) \subseteq RootsOf(w.todo) \cup Touched(w)
    BY <1>1, <1>3, <1>4 DEF Touched
<1>10. Touched(w) \subseteq Reach(RootsOf(l), child)
    <2>1. RootsOf(l) \subseteq Reach(RootsOf(l), child)
        <3>1. RootsOf(l) \in SUBSET N
            BY RootsAreMods
        <3> QED
            BY <3>1, ReachIs
    <2>2. Touched(w) \subseteq Touched(v) \cup RootsOf(v.todo)
        BY <1>1, <1>3, <1>4 DEF Touched
    <2> QED
        BY <2>1, <2>2 DEF WalkOK
<1>11. ToSet(w.path) \cap ToSet(w.ordered) = {}
    <2>1. CASE w.path = <<>>
        BY <2>1 DEF ToSet
    <2>2. CASE w.path = <<e.mod>> /\ e.mod \notin ToSet(v.ordered)
        BY <1>1, <1>4, <2>2
    <2> QED
        BY <1>1, <2>1, <2>2
<1> QED
    BY <1>1, <1>3, <1>6, <1>7, <1>8, <1>9, <1>10, <1>11 DEF WalkOK

(* visit() calls itself for a mod that was not seen.                        *)
LEMMA CallStep ==
    ASSUME NEW N, NEW child \in [N -> SUBSET N], NEW l \in Seq(Items(N)),
           NEW v \in Walks(N), WalkOK(v, l, child), v.path # <<>>,
           NEW c \in child[Last(v.path)], c \notin Touched(v),
           NEW w, w = Visiting(v.todo, Append(v.path, c), v.ordered)
    PROVE  w \in Walks(N) /\ WalkOK(w, l, child) /\ Done(w, l) > Done(v, l)
<1> DEFINE p == v.path
           m == Last(p)
<1>1. /\ p \in Seq(N) /\ w.path = Append(p, c) /\ w.ordered = v.ordered /\ w.todo = v.todo
      /\ v.ordered \in Seq(N) /\ v.todo \in Seq(Items(N))
    BY DEF Walks, Visiting
<1>2. /\ m \in N /\ m = p[Len(p)] /\ Len(p) \in Nat \ {0} /\ DOMAIN p = 1..Len(p)
    BY <1>1, FrontIs
<1>3. c \in N
    BY <1>2
<1>4. /\ Append(p, c) \in Seq(N) /\ DOMAIN Append(p, c) = 1..(Len(p) + 1)
      /\ Len(Append(p, c)) = Len(p) + 1
      /\ \A i \in 1..Len(p) : Append(p, c)[i] = p[i] /\ p[i] \in N
      /\ Append(p, c)[Len(p) + 1] = c
      /\ ToSet(Append(p, c)) = ToSet(p) \cup {c}
      /\ Distinct(p) /\ c \notin ToSet(p) => Distinct(Append(p, c))
    BY <1>1, <1>3, AppendIs
<1>5. w \in Walks(N)
    BY <1>1, <1>4 DEF Walks, Visiting
<1>6. Done(w, l) > Done(v, l)
    <2>1. Len(w.todo) = Len(v.todo) /\ Len(w.ordered) = Len(v.ordered) /\ Len(w.path) = Len(v.path) + 1
        BY <1>1, <1>4
    <2> QED
        BY <1>5, <2>1, MoreDone
<1>7. Distinct(w.path) /\ ToSet(w.path) \cap ToSet(w.ordered) = {}
    BY <1>1, <1>4 DEF WalkOK, Touched
<1>0. \A i, j \in 1..Len(p) : i < j => p[j] \in Reach({p[i]}, child)
    BY <1>1, PathFacts DEF WalkOK
<1>8. PathLeads(w.path, child)
    <2> SUFFICES ASSUME NEW i \in DOMAIN w.path, NEW j \in DOMAIN w.path, i < j
                 PROVE  w.path[j] \in Reach({w.path[i]}, child)
        BY DEF PathLeads
    <2>1. i \in 1..Len(p) /\ w.path[i] = p[i] /\ p[i] \in N
        BY <1>1, <1>2, <1>4
    <2>2. CASE j \in 1..Len(p)
        BY <1>0, <1>1, <1>4, <2>1, <2>2
    <2>3. CASE j = Len(p) + 1
        <3>1. m \in Reach({p[i]}, child)
            <4>1. CASE i = Len(p)
                BY <1>2, <2>1, <4>1, ReachOne
            <4>2. CASE i # Len(p)
                BY <1>0, <1>2, <2>1, <4>2
            <4> QED
                BY <4>1, <4>2
        <3>2. c \in Reach({p[i]}, child)
            BY <2>1, <3>1, ReachOne
        <3> QED
            BY <1>1, <1>4, <2>1, <2>3, <3>2
    <2>4. j \in 1..Len(p) \/ j = Len(p) + 1
        BY <1>1, <1>2, <1>4
    <2> QED
        BY <2>2, <2>3, <2>4
<1>9. Touched(w) = Touched(v) \cup {c}
    BY <1>1, <1>4 DEF Touched
<1>10. c \in Reach(RootsOf(l), child)
    <2>1. m \in Touched(v)
        BY <1>2 DEF Touched, ToSet
    <2>2. RootsOf(l) \in SUBSET N
        BY RootsAreMods
    <2> QED
        BY <2>1, <2>2, ReachIs DEF WalkOK
<1> QED
    BY <1>1, <1>5, <1>6, <1>7, <1>8, <1>9, <1>10 DEF WalkOK

(* visit() returns, everything its mod names having been seen.              *)
LEMMA ReturnStep ==
    ASSUME NEW N, NEW child \in [N -> SUBSET N], NEW l \in Seq(Items(N)),
           NEW v \in Walks(N), WalkOK(v, l, child), v.path # <<>>,
           child[Last(v.path)] \subseteq Touched(v),
           NEW w, w = Visiting(v.todo, Front(v.path), Append(v.ordered, Last(v.path)))
    PROVE  w \in Walks(N) /\ WalkOK(w, l, child) /\ Done(w, l) > Done(v, l)
<1> DEFINE p == v.path
           o == v.ordered
           m == Last(p)
<1>1. /\ p \in Seq(N) /\ w.path = Front(p) /\ w.ordered = Append(o, m) /\ w.todo = v.todo
      /\ o \in Seq(N) /\ v.todo \in Seq(Items(N))
    BY DEF Walks, Visiting
<1>2. /\ m \in N /\ m = p[Len(p)] /\ Len(p) \in Nat \ {0} /\ DOMAIN p = 1..Len(p)
      /\ Front(p) \in Seq(N) /\ Len(Front(p)) = Len(p) - 1 /\ DOMAIN Front(p) = 1..(Len(p) - 1)
      /\ \A i \in 1..(Len(p) - 1) : Front(p)[i] = p[i]
      /\ ToSet(p) = ToSet(Front(p)) \cup {m}
      /\ Distinct(p) => Distinct(Front(p)) /\ m \notin ToSet(Front(p))
    BY <1>1, FrontIs
<1>3. /\ Append(o, m) \in Seq(N) /\ DOMAIN Append(o, m) = 1..(Len(o) + 1)
      /\ Len(Append(o, m)) = Len(o) + 1 /\ Len(o) \in Nat /\ DOMAIN o = 1..Len(o)
      /\ \A i \in 1..Len(o) : Append(o, m)[i] = o[i] /\ o[i] \in N
      /\ Append(o, m)[Len(o) + 1] = m
      /\ ToSet(Append(o, m)) = ToSet(o) \cup {m}
      /\ Distinct(o) /\ m \notin ToSet(o) => Distinct(Append(o, m))
    BY <1>1, <1>2, AppendIs
<1>4. w \in Walks(N)
    BY <1>1, <1>2, <1>3 DEF Walks, Visiting
<1>5. Done(w, l) > Done(v, l)
    <2>1. /\ Len(w.todo) = Len(v.todo) /\ Len(w.ordered) = Len(v.ordered) + 1
          /\ Len(w.path) = Len(v.path) - 1
        BY <1>1, <1>2, <1>3
    <2> QED
        BY <1>4, <2>1, MoreDone
<1>6. m \in ToSet(p) /\ m \notin ToSet(o)
    BY <1>2 DEF WalkOK
<1>7. Distinct(w.path) /\ Distinct(w.ordered) /\ ToSet(w.path) \cap ToSet(w.ordered) = {}
    BY <1>1, <1>2, <1>3, <1>6 DEF WalkOK
<1>0. \A i, j \in 1..Len(p) : i < j => p[j] \in Reach({p[i]}, child)
    BY <1>1, PathFacts DEF WalkOK
<1>8. PathLeads(w.path, child)
    <2>1. DOMAIN w.path = 1..(Len(p) - 1) /\ \A i \in 1..(Len(p) - 1) : w.path[i] = p[i]
        BY <1>1, <1>2
    <2>2. \A i \in 1..(Len(p) - 1) : i \in 1..Len(p)
        BY <1>2
    <2> QED
        BY <1>0, <2>1, <2>2 DEF PathLeads
<1>9. Touched(w) = Touched(v)
    BY <1>1, <1>2, <1>3 DEF Touched
<1>10. ASSUME NEW d \in ToSet(p) PROVE m \in Reach({d}, child)
    <2>1. PICK i \in 1..Len(p) : p[i] = d
        BY <1>2, <1>10 DEF ToSet
    <2>2. CASE i = Len(p)
        BY <1>2, <2>1, <2>2, ReachOne
    <2>3. CASE i # Len(p)
        <3>1. i < Len(p) /\ Len(p) \in 1..Len(p)
            BY <1>2, <2>3
        <3> QED
            BY <1>0, <1>2, <2>1, <3>1
    <2> QED
        BY <2>2, <2>3
<1>11. ListedAfter(w.ordered, child)
    <2> SUFFICES ASSUME NEW i \in 1..(Len(o) + 1), NEW d \in child[w.ordered[i]]
                 PROVE  \/ \E k \in 1..(Len(o) + 1) : k < i /\ w.ordered[k] = d
                        \/ w.ordered[i] \in Reach({d}, child)
        BY <1>1, <1>3 DEF ListedAfter
    <2>1. CASE i \in 1..Len(o)
        <3>1. w.ordered[i] = o[i]
            BY <1>1, <1>3, <2>1
        <3>2. (\E k \in DOMAIN o : k < i /\ o[k] = d) \/ o[i] \in Reach({d}, child)
            BY <1>3, <2>1, <3>1 DEF WalkOK, ListedAfter
        <3> QED
            BY <1>1, <1>3, <3>1, <3>2
    <2>2. CASE i = Len(o) + 1
        <3>1. w.ordered[i] = m
            BY <1>1, <1>3, <2>2
        <3>2. d \in ToSet(p) \/ d \in ToSet(o)
            BY <3>1 DEF Touched
        <3>3. CASE d \in ToSet(p)
            BY <1>10, <3>1, <3>3
        <3>4. CASE d \in ToSet(o)
            <4>1. PICK k \in 1..Len(o) : o[k] = d
                BY <1>3, <3>4 DEF ToSet
            <4>2. k \in 1..(Len(o) + 1) /\ k < i /\ w.ordered[k] = d
                BY <1>1, <1>3, <2>2, <4>1
            <4> QED
                BY <4>2
        <3> QED
            BY <3>2, <3>3, <3>4
    <2> QED
        BY <1>3, <2>1, <2>2
<1>12. \A x \in ToSet(w.ordered) : child[x] \subseteq Touched(w)
    BY <1>1, <1>3, <1>9 DEF WalkOK
<1> QED
    BY <1>1, <1>4, <1>5, <1>7, <1>8, <1>9, <1>11, <1>12 DEF WalkOK

(* The visit keeps its invariant, and goes on until it is over.             *)
LEMMA VisitStep ==
    ASSUME NEW N, NEW child \in [N -> SUBSET N], NEW l \in Seq(Items(N)),
           NEW v \in Walks(N), WalkOK(v, l, child)
    PROVE  /\ Visits(v, child) \in Walks(N) /\ WalkOK(Visits(v, child), l, child)
           /\ IF Over(v) THEN Visits(v, child) = v ELSE Done(Visits(v, child), l) > Done(v, l)
<1> DEFINE next == child[Last(v.path)] \ (ToSet(v.path) \cup ToSet(v.ordered))
           c == CHOOSE x \in next : TRUE
<1>1. CASE v.path = <<>> /\ v.todo = <<>>
    BY <1>1 DEF Visits, Over
<1>2. CASE v.path = <<>> /\ v.todo # <<>>
    <2>1. Visits(v, child) = NextRoot(v) /\ ~Over(v)
        BY <1>2 DEF Visits, Over
    <2> QED
        BY <1>2, <2>1, RootStep
<1>3. CASE v.path # <<>> /\ next # {}
    <2>1. Visits(v, child) = Visiting(v.todo, Append(v.path, c), v.ordered) /\ ~Over(v)
        BY <1>3 DEF Visits, Over
    <2>2. c \in next
        BY <1>3
    <2> HIDE DEF c
    <2>3. c \in child[Last(v.path)] /\ c \notin Touched(v)
        BY <2>2 DEF Touched
    <2> QED
        BY <1>3, <2>1, <2>3, CallStep
<1>4. CASE v.path # <<>> /\ next = {}
    <2>1. Visits(v, child) = Visiting(v.todo, Front(v.path), Append(v.ordered, Last(v.path)))
          /\ ~Over(v)
        BY <1>4 DEF Visits, Over
    <2>2. child[Last(v.path)] \subseteq Touched(v)
        BY <1>4 DEF Touched
    <2> QED
        BY <1>4, <2>1, <2>2, ReturnStep
<1> QED
    BY <1>1, <1>2, <1>3, <1>4

(* A list without repetition is as long as its set is large.                *)
LEMMA DistinctCount ==
    ASSUME NEW N, NEW s \in Seq(N), Distinct(s)
    PROVE  IsFiniteSet(ToSet(s)) /\ Cardinality(ToSet(s)) = Len(s)
<1>1. Len(s) \in Nat /\ DOMAIN s = 1..Len(s) /\ s \in [1..Len(s) -> ToSet(s)]
    BY LenProperties DEF ToSet
<1>2. \A i, j \in 1..Len(s) : s[i] = s[j] => i = j
    BY <1>1 DEF Distinct
<1>3. \A x \in ToSet(s) : \E i \in 1..Len(s) : s[i] = x
    BY <1>1 DEF ToSet
<1>4. s \in Bijection(1..Len(s), ToSet(s))
    BY <1>1, <1>2, <1>3 DEF Bijection, Injection, Surjection, IsInjective
<1>5. ExistsBijection(1..Len(s), ToSet(s))
    BY <1>4 DEF ExistsBijection
<1>6. IsFiniteSet(1..Len(s)) /\ Cardinality(1..Len(s)) = Len(s)
    BY <1>1, FS_Interval
<1> QED
    BY <1>5, <1>6, FS_Bijection

(* All mods of the path and of the list differ, so there is an end to it.   *)
LEMMA DoneIsBounded ==
    ASSUME NEW N, IsFiniteSet(N), NEW child, NEW l \in Seq(Items(N)),
           NEW v \in Walks(N), WalkOK(v, l, child)
    PROVE  /\ Len(l) + 2 * Cardinality(N) \in Nat /\ Done(v, l) \in Int
           /\ Done(v, l) <= Len(l) + 2 * Cardinality(N)
           /\ Done(v, l) = Len(l) + 2 * Cardinality(N) => Over(v)
<1>1. PICK p, o : p = v.path /\ o = v.ordered
    OBVIOUS
<1>2. /\ p \in Seq(N) /\ o \in Seq(N) /\ v.todo \in Seq(Items(N))
      /\ Distinct(p) /\ Distinct(o) /\ ToSet(p) \cap ToSet(o) = {}
    BY <1>1 DEF Walks, WalkOK
<1>3. /\ Len(p) \in Nat /\ Len(o) \in Nat /\ Len(l) \in Nat /\ Len(v.todo) \in Nat
      /\ ToSet(p) \subseteq N /\ ToSet(o) \subseteq N
    BY <1>2, LenProperties, ElementOfSeq DEF ToSet
<1>4. /\ IsFiniteSet(ToSet(p)) /\ Cardinality(ToSet(p)) = Len(p)
      /\ IsFiniteSet(ToSet(o)) /\ Cardinality(ToSet(o)) = Len(o)
    BY <1>2, DistinctCount
<1>5. Cardinality(ToSet(p) \cup ToSet(o)) = Len(p) + Len(o)
    <2>1. Cardinality({}) = 0
        BY FS_EmptySet
    <2>2. Cardinality(ToSet(p) \cup ToSet(o))
            = Cardinality(ToSet(p)) + Cardinality(ToSet(o)) - Cardinality(ToSet(p) \cap ToSet(o))
        BY <1>4, FS_Union
    <2>3. Cardinality(ToSet(p) \cap ToSet(o)) = 0
        BY <1>2, <2>1
    <2> QED
        BY <1>3, <1>4, <2>2, <2>3
<1>6. Cardinality(N) \in Nat /\ Len(p) + Len(o) <= Cardinality(N)
    <2>1. ToSet(p) \cup ToSet(o) \in SUBSET N
        BY <1>3
    <2>2. Cardinality(ToSet(p) \cup ToSet(o)) <= Cardinality(N)
        BY <2>1, FS_Subset
    <2> QED
        BY <1>5, <2>2, FS_CardinalityType
<1>7. \A k, t, a, b, n \in Nat :
         a + b <= n => /\ k - t + a + b + b <= k + 2 * n
                       /\ k - t + a + b + b = k + 2 * n => t = 0 /\ a = 0
    OBVIOUS
<1>8. Len(v.todo) = 0 /\ Len(p) = 0 => Over(v)
    <2>1. Len(v.todo) = 0 => v.todo = <<>>
        BY <1>2, EmptySeq
    <2>2. Len(p) = 0 => p = <<>>
        BY <1>2, EmptySeq
    <2> QED
        BY <1>1, <2>1, <2>2 DEF Over
<1>9. Done(v, l) = Len(l) - Len(v.todo) + Len(p) + Len(o) + Len(o)
    BY <1>1 DEF Done
<1>10. PICK k, t, a, b, n \in Nat : k = Len(l) /\ t = Len(v.todo) /\ a = Len(p) /\ b = Len(o)
                                       /\ n = Cardinality(N)
    BY <1>3, <1>6
<1>11. a + b <= n
    BY <1>6, <1>10
<1>12. /\ k - t + a + b + b <= k + 2 * n
       /\ k - t + a + b + b = k + 2 * n => t = 0 /\ a = 0
       /\ k - t + a + b + b \in Int /\ k + 2 * n \in Nat
    BY <1>7, <1>11
<1>13. Done(v, l) = k - t + a + b + b /\ Len(l) + 2 * Cardinality(N) = k + 2 * n
    BY <1>9, <1>10
<1> QED
    BY <1>8, <1>10, <1>12, <1>13

(* The visit before the first assignment.                                   *)
LEMMA FirstWalk ==
    ASSUME NEW N, NEW child \in [N -> SUBSET N], NEW l \in Seq(Items(N))
    PROVE  /\ Visiting(l, <<>>, <<>>) \in Walks(N) /\ WalkOK(Visiting(l, <<>>, <<>>), l, child)
           /\ Done(Visiting(l, <<>>, <<>>), l) = 0
<1> DEFINE v == Visiting(l, <<>>, <<>>)
<1>1. v.todo = l /\ v.path = <<>> /\ v.ordered = <<>> /\ DOMAIN <<>> = {}
    BY DEF Visiting
<1>2. v \in Walks(N)
    BY DEF Visiting, Walks
<1>3. ToSet(<<>>) = {}
    BY DEF ToSet
<1>4. WalkOK(v, l, child)
    BY <1>1, <1>3 DEF WalkOK, Distinct, PathLeads, ListedAfter, Touched
<1>5. Done(v, l) = 0
    <2>1. Len(l) \in Nat /\ Len(v.path) = 0 /\ Len(v.ordered) = 0
        BY <1>1, LenProperties
    <2>2. \A n \in Nat : n - n + 0 + 0 + 0 = 0
        OBVIOUS
    <2> QED
        BY <1>1, <2>1, <2>2 DEF Done
<1> QED
    BY <1>2, <1>4, <1>5

(* The visit is over when its calls are used up, and what it has listed by   *)
(* then is the order.                                                       *)
LEMMA RunIs ==
    ASSUME NEW N, IsFiniteSet(N), NEW child \in [N -> SUBSET N], NEW l \in Seq(Items(N))
    PROVE  \E v \in Walks(N) : WalkOK(v, l, child) /\ Over(v) /\ Ordered(l, child) = v.ordered
<1> DEFINE K == Calls(l, child)
           first == Visiting(l, <<>>, <<>>)
           IsRun(w) == w = [n \in 0..K |-> IF n = 0 THEN first ELSE Visits(w[n - 1], child)]
           run == CHOOSE w : IsRun(w)
           C == {v \in Walks(N) : WalkOK(v, l, child)}
           next == [v \in C |-> Visits(v, child)]
<1>1. K \in Nat /\ K = Len(l) + 2 * Cardinality(N)
    <2>1. DOMAIN child = N
        OBVIOUS
    <2> QED
        BY <2>1, FS_CardinalityType, LenProperties DEF Calls
<1>2. first \in C /\ Done(first, l) = 0
    BY FirstWalk
<1>3. next \in [C -> C]
    BY VisitStep
<1> HIDE DEF K, C
<1>4. PICK x \in [0..K -> C] : x[0] = first /\ \A n \in 1..K : x[n] = next[x[n - 1]]
    <2>1. first \in C /\ next \in [C -> C] /\ K \in Nat
        BY <1>1, <1>2, <1>3
    <2> HIDE DEF next, first, IsRun, run
    <2>2. PICK w : Iterates(w, C, next, first, K)
        BY <2>1, IterationExists, Zenon
    <2> QED
        BY <2>2 DEF Iterates
<1>5. \A n \in 1..K : x[n - 1] \in C /\ x[n] = Visits(x[n - 1], child)
    <2> SUFFICES ASSUME NEW n \in 1..K PROVE x[n - 1] \in C /\ x[n] = Visits(x[n - 1], child)
        OBVIOUS
    <2>1. n - 1 \in 0..K
        BY <1>1
    <2> QED
        BY <1>4, <2>1
<1>6. IsRun(x)
    <2>1. \A n \in 0..K : x[n] = IF n = 0 THEN first ELSE Visits(x[n - 1], child)
        BY <1>1, <1>4, <1>5
    <2> HIDE DEF first
    <2> QED
        BY <2>1
<1>7. IsRun(run)
    BY <1>6, Zenon
<1>8. Ordered(l, child) = run[K].ordered
    BY DEF Ordered, K
<1> DEFINE S == {n \in 0..K : run[n] = x[n] /\ (Over(x[n]) \/ Done(x[n], l) >= n)}
<1>9. 0 \in S
    <2>1. 0 \in 0..K
        BY <1>1
    <2>2. run[0] = first
        BY <1>7, <2>1
    <2> QED
        BY <1>2, <1>4, <2>1, <2>2
<1>10. ASSUME NEW n \in 1..K, n - 1 \in S PROVE n \in S
    <2>1. n \in 0..K /\ n - 1 \in 0..K /\ n # 0
        BY <1>1
    <2>2. run[n] = Visits(run[n - 1], child)
        BY <1>7, <2>1
    <2>3. run[n] = x[n]
        BY <1>5, <1>10, <2>2
    <2>4. x[n - 1] \in Walks(N) /\ WalkOK(x[n - 1], l, child) /\ x[n] = Visits(x[n - 1], child)
        BY <1>5 DEF C
    <2>5. x[n] \in Walks(N) /\ WalkOK(x[n], l, child)
        BY <1>4, <2>1 DEF C
    <2>6. Done(x[n - 1], l) \in Int /\ Done(x[n], l) \in Int
        BY <2>4, <2>5, DoneIsBounded
    <2>7. IF Over(x[n - 1]) THEN x[n] = x[n - 1] ELSE Done(x[n], l) > Done(x[n - 1], l)
        BY <2>4, VisitStep
    <2>8. Over(x[n]) \/ Done(x[n], l) >= n
        BY <1>10, <2>1, <2>6, <2>7
    <2> QED
        BY <2>1, <2>3, <2>8
<1> HIDE DEF S, run
<1>11. K \in S
    <2>1. K \in Nat /\ 0 \in S /\ \A n \in 1..K : n - 1 \in S => n \in S
        BY <1>1, <1>9, <1>10
    <2> HIDE DEF first, IsRun, next
    <2>2. 0..K \subseteq S
        BY <2>1, StepByStep, Zenon
    <2> QED
        BY <1>1, <2>2
<1>12. x[K] \in Walks(N) /\ WalkOK(x[K], l, child)
    BY <1>1, <1>4 DEF C
<1>13. Over(x[K])
    BY <1>1, <1>11, <1>12, DoneIsBounded DEF S
<1> QED
    BY <1>8, <1>11, <1>12, <1>13 DEF S

(* resolved_mod_entries on every finite graph and list of assignments: it    *)
(* lists exactly the closure of the enabled ones, each mod once, and after   *)
(* what it names unless that leads back to it.                              *)
THEOREM VisitOrders ==
    ASSUME NEW N, IsFiniteSet(N), NEW child \in [N -> SUBSET N], NEW l \in Seq(Items(N))
    PROVE  /\ InOrder(Ordered(l, child), child)
           /\ ToSet(Ordered(l, child)) = Reach(RootsOf(l), child)
<1>1. PICK v \in Walks(N) : WalkOK(v, l, child) /\ Over(v) /\ Ordered(l, child) = v.ordered
    BY RunIs
<1>2. PICK o : o = Ordered(l, child)
    OBVIOUS
<1>3. /\ o \in Seq(N) /\ Distinct(o) /\ ListedAfter(o, child)
      /\ \A m \in ToSet(o) : child[m] \subseteq Touched(v)
      /\ Touched(v) \subseteq Reach(RootsOf(l), child) /\ RootsOf(l) \subseteq RootsOf(v.todo) \cup Touched(v)
    BY <1>1, <1>2 DEF Walks, WalkOK
<1>4. Touched(v) = ToSet(o) /\ RootsOf(v.todo) = {}
    BY <1>1, <1>2 DEF Touched, Over, ToSet, RootsOf
<1>5. DOMAIN o = 1..Len(o) /\ Len(o) \in Nat /\ ToSet(o) \subseteq N
    BY <1>3, LenProperties, ElementOfSeq DEF ToSet
<1>6. InOrder(o, child)
    <2> SUFFICES ASSUME NEW i \in DOMAIN o, NEW j \in DOMAIN o, i < j
                 PROVE  o[i] # o[j] /\ (o[j] \in child[o[i]] => o[i] \in Reach({o[j]}, child))
        BY DEF InOrder
    <2>1. o[i] # o[j]
        BY <1>3 DEF Distinct
    <2>2. ASSUME o[j] \in child[o[i]] PROVE o[i] \in Reach({o[j]}, child)
        <3>1. (\E k \in DOMAIN o : k < i /\ o[k] = o[j]) \/ o[i] \in Reach({o[j]}, child)
            BY <1>3, <2>2 DEF ListedAfter
        <3>2. \A k \in DOMAIN o : k < i => k < j
            BY <1>5
        <3> QED
            BY <1>3, <3>1, <3>2 DEF Distinct
    <2> QED
        BY <2>1, <2>2
<1>7. Reach(RootsOf(l), child) \subseteq ToSet(o)
    <2>1. RootsOf(l) \in SUBSET N
        BY RootsAreMods
    <2>2. RootsOf(l) \subseteq ToSet(o) /\ IsClosed(ToSet(o), child) /\ ToSet(o) \in SUBSET N
        BY <1>3, <1>4, <1>5 DEF IsClosed
    <2> QED
        BY <2>1, <2>2, ReachIs
<1> QED
    BY <1>2, <1>3, <1>4, <1>6, <1>7

-----------------------------------------------------------------------------
(* The types *)

(* The layouts are of mods, and their enabled ones are Roots.               *)
LEMMA RootsAre ==
    ASSUME TypeOK
    PROVE  layout \in Seq(Items(Mods)) /\ RootsOf(layout) = Roots /\ Roots \subseteq Mods /\ Assigned \subseteq Mods
<1>1. layout \in Seq(Items(Mods))
    BY DEF TypeOK, Items
<1>2. \A i \in DOMAIN layout : layout[i] \in Items(Mods)
    BY <1>1
<1>3. \A i \in DOMAIN layout, m \in Mods :
         layout[i].on /\ layout[i].mod = m <=> layout[i] = [mod |-> m, on |-> TRUE]
    BY <1>2 DEF Items
<1> QED
    BY <1>1, <1>2, <1>3 DEF RootsOf, ToSet, Roots, Enabled, Assigned, Items

(* What is needed, and what a search finds of it, are graphs of mods.        *)
LEMMA GraphsAre ==
    ASSUME NEW M, NEW up
    PROVE  /\ Needs \in [Mods -> SUBSET Mods] /\ StartGraph \in [Mods -> SUBSET Mods]
           /\ \A m \in Mods : StartGraph[m] \subseteq Needs[m] /\ (m \in Nearby => StartGraph[m] = Needs[m])
           /\ UpTo(M, [m \in Mods |-> ChildrenWith(m, up)]) \in [Mods -> SUBSET Mods]
           /\ \A m \in Mods : Children(m) \subseteq UpTo(M, [d \in Mods |-> ChildrenWith(d, up)])[m]
<1>1. \A m \in Mods : Children(m) \subseteq ChildrenWith(m, up) /\ ChildrenWith(m, up) \subseteq Mods
    BY DEF ChildrenWith, Children, ApiDeps
<1>2. Needs \in [Mods -> SUBSET Mods]
    BY DEF Needs, Children, Declared
<1>3. \A m \in Mods : Children(m) \subseteq Mods /\ Children(m) \subseteq Needs[m]
    BY DEF Needs, Children
<1>4. \A m \in Mods : StartGraph[m] = IF m \in Nearby THEN Needs[m] ELSE Children(m)
    BY DEF StartGraph, UpTo, Nearby
<1>5. StartGraph \in [Mods -> SUBSET Mods]
    BY <1>2, <1>3 DEF StartGraph, UpTo
<1> QED
    BY <1>1, <1>2, <1>3, <1>4, <1>5 DEF UpTo

(* The list of config.json, for every library, disk and layout.             *)
LEMMA ClosureIs ==
    ASSUME TypeOK
    PROVE  InOrder(Closure, StartGraph) /\ ToSet(Closure) = Reach(Roots, StartGraph)
BY GraphsAre, RootsAre, LayoutsAssumption, VisitOrders DEF Closure

(* What config.json lists is in the closure, with every enabled mod.        *)
LEMMA EntriesAreMods ==
    ASSUME TypeOK
    PROVE  Entries \subseteq Reach(Roots, StartGraph) /\ Roots \subseteq Entries /\ Entries \subseteq Mods
<1>1. StartGraph \in [Mods -> SUBSET Mods]
    BY GraphsAre
<1>2. Roots \in SUBSET Mods
    BY RootsAre
<1> QED
    BY <1>1, <1>2, ClosureIs, ReachIs DEF Entries, Roots

(* A search visits mods.                                                    *)
LEMMA NodesAreMods ==
    ASSUME NEW M, NEW up
    PROVE  Nodes(M, up) \subseteq Mods
<1>1. PICK graph : graph = UpTo(M, [m \in Mods |-> ChildrenWith(m, up)])
    OBVIOUS
<1>2. DOMAIN graph = Mods
    BY <1>1 DEF UpTo
<1>3. Nodes(M, up) = Reach(M, graph)
    BY <1>1 DEF Nodes
<1> QED
    BY <1>2, <1>3 DEF Reach

(* A pin is a release, or none.                                             *)
LEMMA PinsAre ==
    ASSUME TypeOK
    PROVE  \A m \in Mods : PinOf(m) \in 0..2
BY DEF TypeOK, PinOf

(* enrich_one adds rows and edges of mods.                                  *)
LEMMA EnrichesType ==
    ASSUME TypeOK, NEW M \in SUBSET Mods, Enriches(M)
    PROVE  row' \in [Mods -> RowsOfMods] /\ edges' \subseteq Mods \X Mods
<1>0. \A d \in Mods : row[d] \in RowsOfMods
    BY DEF TypeOK
<1>1. \A d \in Mods : Stubbed(M, d) \in RowsOfMods
    <2> SUFFICES ASSUME NEW d \in Mods PROVE Stubbed(M, d) \in RowsOfMods
        OBVIOUS
    <2>1. PICK r \in RowsOfMods : r = row[d]
        BY <1>0
    <2>2. (r.local \/ OnDisk(d)) \in BOOLEAN
        OBVIOUS
    <2>3. [r EXCEPT !.known = TRUE, !.local = r.local \/ OnDisk(d)] \in RowsOfMods
        BY <2>2 DEF RowsOfMods
    <2> QED
        BY <2>1, <2>3 DEF Stubbed
<1>2. row' \in [Mods -> RowsOfMods]
    BY <1>1 DEF Enriches, RowsOfMods
<1>3. edges' \subseteq Mods \X Mods
    BY GraphsAssumption, ListedAssumption DEF Enriches, TypeOK
<1> QED
    BY <1>2, <1>3

(* And so does a scan.                                                      *)
LEMMA RecordedType ==
    ASSUME TypeOK, NEW M \in SUBSET Mods, disk' \in [Mods -> 0..2]
    PROVE  Recorded(M) \in [Mods -> RowsOfMods] /\ RecordedEdges(M) \subseteq Mods \X Mods
BY GraphsAssumption DEF TypeOK, Recorded, RecordedEdges, RowsOfMods

(* What the engine brings is releases.                                      *)
LEMMA BroughtType ==
    ASSUME TypeOK, Running, NEW got
    PROVE  Brought(got) \in [Mods -> 0..2]
<1>1. \A m \in Mods : Target(m) \in 0..2
    BY DEF TypeOK, Target
<1> QED
    BY <1>1 DEF Brought, TypeOK

(* Every step keeps the types.                                              *)
LEMMA TypeStep ==
    ASSUME TypeOK, [Next]_vars
    PROVE  TypeOK'
<1> USE DEF vars, library, defs, releases, engines
<1>1. CASE EnsureReady
    <2>1. PICK sized \in SUBSET SizedNow(MissingMods) :
            /\ Enriches(sized)
            /\ \/ UNCHANGED job
               \/ job' = [kind |-> "download", want |-> MissingMods, versions |-> PinsOf(MissingMods)]
        BY <1>1 DEF EnsureReady, EnqueueDownload
    <2>2. MissingMods \subseteq Mods
        BY EntriesAreMods DEF MissingMods
    <2>3. row' \in [Mods -> RowsOfMods] /\ edges' \subseteq Mods \X Mods
        BY <2>1, <2>2, EnrichesType DEF SizedNow, Unsized
    <2>4. PinsOf(MissingMods) \in [MissingMods -> 0..2]
        BY <2>2, PinsAre DEF PinsOf
    <2>5. UNCHANGED <<disk, defs, releases, engines>>
        BY <1>1 DEF EnsureReady, EnqueueDownload
    <2>6. Running' => job'.want \subseteq Mods /\ job'.versions \in [job'.want -> 0..2]
        <3>1. CASE UNCHANGED job
            BY <3>1 DEF TypeOK, Running
        <3>2. CASE job' = [kind |-> "download", want |-> MissingMods, versions |-> PinsOf(MissingMods)]
            BY <2>2, <2>4, <3>2
        <3> QED
            BY <2>1, <3>1, <3>2
    <2> QED
        BY <2>3, <2>5, <2>6 DEF TypeOK
<1>2. CASE UpdateLoads
    <2>1. \A m \in Mods : TargetPin(job.scope, m) \in 0..2
        BY PinsAre DEF TypeOK, TargetPin
    <2>2. UpdateTargets(job.scope) \subseteq Mods
        BY RootsAre DEF UpdateTargets
    <2>3. \/ job' = NoJob
          \/ job' = [kind |-> "refresh", scope |-> job.scope, want |-> UpdateTargets(job.scope),
                     versions |-> [m \in UpdateTargets(job.scope) |-> TargetPin(job.scope, m)]]
        BY <1>2 DEF UpdateLoads
    <2>4. Running' => job'.want \subseteq Mods /\ job'.versions \in [job'.want -> 0..2]
        BY <2>1, <2>2, <2>3 DEF Running, NoJob
    <2> QED
        BY <1>2, <2>4 DEF UpdateLoads, TypeOK
<1>3. CASE JobLands
    <2>1. PICK up \in BOOLEAN, got \in SUBSET Mods :
            /\ disk' = Brought(got)
            /\ row' = Recorded(job.want \cup Retried(up))
            /\ edges' = RecordedEdges(job.want \cup Retried(up))
        BY <1>3 DEF JobLands, Along, Reach
    <2>2. disk' \in [Mods -> 0..2]
        BY <1>3, <2>1, BroughtType DEF JobLands
    <2>3. job.want \cup Retried(up) \subseteq Mods
        <3>1. job.want \subseteq Mods
            BY <1>3 DEF TypeOK, JobLands
        <3> QED
            BY <3>1, NodesAreMods DEF Retried
    <2>4. row' \in [Mods -> RowsOfMods] /\ edges' \subseteq Mods \X Mods
        BY <2>1, <2>2, <2>3, RecordedType
    <2> QED
        BY <1>3, <2>2, <2>4 DEF JobLands, TypeOK, Running, NoJob
<1>4. CASE JobFails
    <2>1. disk' \in [Mods -> 0..2]
        <3>1. CASE Running
            BY <1>4, <3>1, BroughtType DEF JobFails
        <3>2. CASE ~Running
            BY <1>4, <3>2 DEF JobFails, TypeOK
        <3> QED
            BY <3>1, <3>2
    <2> QED
        BY <1>4, <2>1 DEF JobFails, TypeOK, Running, NoJob
<1>5. CASE ModSync
    <2>1. PICK asked \in SUBSET ({m \in Mods : OnDisk(m)} \cap Listed) :
            LET new == RecordedEdges(Mods) \cup {e \in Workshop : e[1] \in asked}
                rec == Recorded(Mods)
            IN  /\ edges' = new
                /\ row' = [m \in Mods |->
                     [known |-> rec[m].known \/ \E n \in asked : <<n, m>> \in new,
                      local |-> m \in {x \in Mods : OnDisk(x)}, ok |-> rec[m].ok \/ m \in asked,
                      installed |-> rec[m].installed]]
        BY <1>5 DEF ModSync
    <2>2. disk' \in [Mods -> 0..2]
        BY <1>5 DEF ModSync, TypeOK
    <2>3. Recorded(Mods) \in [Mods -> RowsOfMods] /\ RecordedEdges(Mods) \subseteq Mods \X Mods
        BY <2>2, RecordedType
    <2>4. edges' \subseteq Mods \X Mods
        BY <2>1, <2>3, GraphsAssumption, ListedAssumption
    <2>5. row' \in [Mods -> RowsOfMods]
        BY <2>1, <2>3 DEF RowsOfMods
    <2> QED
        BY <1>5, <2>4, <2>5 DEF ModSync, TypeOK, Running
<1>6. CASE EngineUpdated \/ EngineSeen \/ VersionScraped
    <2>1. build' \in 1..MaxBuild /\ engine' \in 0..build'
        BY <1>6, ReleasesAssumption DEF EngineUpdated, EngineSeen, VersionScraped, TypeOK
    <2> QED
        BY <1>6, <2>1 DEF EngineUpdated, EngineSeen, VersionScraped, TypeOK, Running
<1>7. ASSUME NEW scope, ApplyUpdates(scope) PROVE TypeOK'
    BY <1>7 DEF ApplyUpdates, TypeOK, Running
<1>8. ASSUME NEW m \in Mods, AddMod(m) PROVE TypeOK'
    <2>1. row' \in [Mods -> RowsOfMods] /\ edges' \subseteq Mods \X Mods
        BY <1>8, EnrichesType DEF AddMod
    <2> QED
        BY <1>8, <2>1 DEF AddMod, TypeOK, Running
<1>9. ASSUME NEW m \in Pinnable, NEW v \in 0..latest[m], PinServerMod(m, v) \/ PinMod(m, v)
      PROVE  TypeOK'
    <2>1. m \in Mods => v \in 0..2
        BY DEF TypeOK
    <2>2. pin' \in [Mods -> 0..2] /\ libPin' \in [Mods -> 0..2]
        BY <1>9, <2>1 DEF PinServerMod, PinMod, TypeOK
    <2> QED
        BY <1>9, <2>2 DEF PinServerMod, PinMod, TypeOK, Running
<1>10. ASSUME NEW m, Publishes(m) \/ Withdraws(m) PROVE TypeOK'
    <2>1. \A k \in Mods : latest[k] \in 1..2
        BY DEF TypeOK
    <2>2. latest' \in [Mods -> 1..2] /\ oldest' \in [Mods -> 1..2]
        BY <1>10, <2>1 DEF Publishes, Withdraws, TypeOK
    <2> QED
        BY <1>10, <2>2 DEF Publishes, Withdraws, TypeOK, Running
<1>11. ASSUME NEW l \in Layouts, SaveLayout(l) PROVE TypeOK'
    <2>1. l \in Seq([mod : Mods, on : BOOLEAN])
        BY LayoutsAssumption
    <2>2. pin' \in [Mods -> 0..2]
        BY <1>11 DEF SaveLayout, TypeOK
    <2> QED
        BY <1>11, <2>1, <2>2 DEF SaveLayout, TypeOK, Running
<1>12. CASE UNCHANGED vars
    BY <1>12 DEF TypeOK, Running
<1> QED
    BY <1>1, <1>2, <1>3, <1>4, <1>5, <1>6, <1>7, <1>8, <1>9, <1>10, <1>11, <1>12 DEF Next

(* Every row, edge, pin and version, and what a job that runs asks for, are  *)
(* what the other theorems take them for.                                   *)
THEOREM TypeCorrect == Spec => []TypeOK
<1>1. Init => TypeOK
    BY ReleasesAssumption DEF Init, TypeOK, NoRow, RowsOfMods, Running, NoJob
<1> QED
    BY <1>1, TypeStep, PTL DEF Spec

-----------------------------------------------------------------------------
(* Properties *)

(* A graph that names no more than another leads nowhere the other does not. *)
LEMMA ReachGrows ==
    ASSUME NEW N, NEW child \in [N -> SUBSET N], NEW more \in [N -> SUBSET N], NEW roots \in SUBSET N,
           \A m \in N : child[m] \subseteq more[m]
    PROVE  Reach(roots, child) \subseteq Reach(roots, more)
<1>1. /\ roots \subseteq Reach(roots, more) /\ Reach(roots, more) \in SUBSET N
      /\ IsClosed(Reach(roots, more), child)
    BY ReachIs DEF IsClosed
<1> QED
    BY <1>1, ReachIs

(* Where all that is needed is near, the search finds all of it.             *)
LEMMA NearIsWhole ==
    ASSUME TypeOK, Reach(Roots, Needs) \subseteq Nearby
    PROVE  Whole(Needs)
<1>1. /\ Needs \in [Mods -> SUBSET Mods] /\ StartGraph \in [Mods -> SUBSET Mods] /\ Roots \in SUBSET Mods
      /\ \A m \in Mods : StartGraph[m] \subseteq Needs[m] /\ (m \in Nearby => StartGraph[m] = Needs[m])
    BY GraphsAre, RootsAre
<1>2. /\ ToSet(Closure) \subseteq Nearby /\ ToSet(Closure) \in SUBSET Mods
      /\ \A m \in ToSet(Closure) : StartGraph[m] \subseteq ToSet(Closure)
    BY <1>1, ClosureIs, ReachIs, ReachGrows
<1>3. IsClosed(ToSet(Closure), Needs)
    BY <1>1, <1>2 DEF IsClosed
<1>4. \A i \in DOMAIN Closure : Closure[i] \in ToSet(Closure)
    BY DEF ToSet
<1>5. \A d \in Mods : Reach({d}, StartGraph) \subseteq Reach({d}, Needs)
    <2> SUFFICES ASSUME NEW d \in Mods PROVE Reach({d}, StartGraph) \subseteq Reach({d}, Needs)
        OBVIOUS
    <2>1. {d} \in SUBSET Mods
        OBVIOUS
    <2> QED
        BY <1>1, <2>1, ReachGrows
<1>6. InOrder(Closure, Needs)
    <2> SUFFICES ASSUME NEW i \in DOMAIN Closure, NEW j \in DOMAIN Closure, i < j
                 PROVE  /\ Closure[i] # Closure[j]
                        /\ Closure[j] \in Needs[Closure[i]] => Closure[i] \in Reach({Closure[j]}, Needs)
        BY DEF InOrder
    <2>1. /\ Closure[i] # Closure[j]
          /\ Closure[j] \in StartGraph[Closure[i]] => Closure[i] \in Reach({Closure[j]}, StartGraph)
        BY ClosureIs DEF InOrder
    <2>2. StartGraph[Closure[i]] = Needs[Closure[i]] /\ Closure[j] \in Mods
        BY <1>1, <1>2, <1>4
    <2> QED
        BY <1>5, <2>1, <2>2
<1> QED
    BY <1>3, <1>6 DEF Whole

(* resolved_mod_entries lists every enabled mod, and visits each mod once and *)
(* after all it needs: of the mods nearer than the depth it searches to what  *)
(* library and disk name, of those beyond what the library names.           *)
THEOREM ConfigIsOrdered == Spec => []ConfigOrdered
<1>1. ASSUME TypeOK PROVE ConfigOrdered
    <2>1. IsClosed(ToSet(Closure), StartGraph)
        <3>1. StartGraph \in [Mods -> SUBSET Mods]
            BY GraphsAre
        <3>2. Roots \in SUBSET Mods
            BY <1>1, RootsAre
        <3>3. \A m \in Reach(Roots, StartGraph) : StartGraph[m] \subseteq Reach(Roots, StartGraph)
            BY <3>1, <3>2, ReachIs
        <3> QED
            BY <1>1, <3>3, ClosureIs DEF IsClosed
    <2> QED
        BY <1>1, <2>1, ClosureIs, EntriesAreMods, NearIsWhole DEF ConfigOrdered, Whole
<1> QED
    BY <1>1, TypeCorrect, PTL

(* With the dependencies of the files on record, preflight looks at every    *)
(* mod that config.json lists, whatever the depth.                          *)
LEMMA ReportCoversEntries ==
    ASSUME TypeOK, \A m \in Mods : OnDisk(m) => \A d \in Declared(m) : <<m, d>> \in edges
    PROVE  Entries \subseteq Nodes(Roots, TRUE)
<1>1. PICK up : up = UpTo(Roots, [m \in Mods |-> ChildrenWith(m, TRUE)])
    OBVIOUS
<1>2. /\ StartGraph \in [Mods -> SUBSET Mods] /\ up \in [Mods -> SUBSET Mods] /\ Roots \in SUBSET Mods
      /\ \A m \in Mods : StartGraph[m] \subseteq Needs[m] /\ Children(m) \subseteq up[m]
    <2>1. StartGraph \in [Mods -> SUBSET Mods] /\ \A m \in Mods : StartGraph[m] \subseteq Needs[m]
        BY GraphsAre
    <2>2. up \in [Mods -> SUBSET Mods] /\ \A m \in Mods : Children(m) \subseteq up[m]
        BY <1>1, GraphsAre
    <2> QED
        BY <2>1, <2>2, RootsAre
<1>3. \A m \in Mods : OnDisk(m) => Declared(m) \subseteq Children(m)
    BY DEF Declared, Children
<1>4. \A m \in Mods : Needs[m] \subseteq Children(m)
    BY <1>3 DEF Needs
<1>5. Reach(Roots, StartGraph) \subseteq Reach(Roots, up)
    BY <1>2, <1>4, ReachGrows
<1>6. Nodes(Roots, TRUE) = Reach(Roots, up)
    BY <1>1 DEF Nodes
<1> QED
    BY <1>5, <1>6, EntriesAreMods

(* preflight and resolved_mod_entries agree: what the one does not block, the *)
(* engine can load from the list of the other, as far as its version and     *)
(* those of the releases are known.                                         *)
THEOREM PreflightSufficient == Spec => []UnblockedCanStart
<1>1. ASSUME TypeOK PROVE UnblockedCanStart
    <2> SUFFICES ASSUME \A m \in Mods : OnDisk(m) => \A d \in Declared(m) : <<m, d>> \in edges,
                        ~Blocked(TRUE, TRUE), NEW m \in Entries
                 PROVE  /\ m \in Listed
                        /\ engine # 0 /\ Starts(m) \in Releases(m) => Declares[m][Starts(m)] <= build
        BY DEF UnblockedCanStart
    <2>1. m \in Nodes(Roots, TRUE) /\ m \in Mods
        BY <1>1, ReportCoversEntries, EntriesAreMods
    <2>2. m \notin BlockedAddons(TRUE)
        BY DEF Blocked
    <2>3. m \in Listed /\ VersionCompat(Declares[m][Selected(m)]) # "blocked"
        BY <2>1, <2>2 DEF BlockedAddons
    <2>4. ASSUME engine # 0, Starts(m) \in Releases(m) PROVE Declares[m][Starts(m)] <= build
        <3>1. Selected(m) = Starts(m)
            BY <2>4 DEF Selected
        <3>2. latest[m] \in 1..2 /\ oldest[m] \in 1..2 /\ engine \in 0..build /\ build \in Nat
            BY <1>1, <2>1 DEF TypeOK
        <3>3. Starts(m) \in 1..2
            BY <2>4, <3>2 DEF Releases
        <3>4. Declares[m][Starts(m)] \in Nat
            BY <2>1, <3>3, ReleasesAssumption
        <3>5. Declares[m][Starts(m)] = 0 \/ ~(Declares[m][Starts(m)] > engine)
            BY <2>3, <2>4, <3>1 DEF VersionCompat
        <3> QED
            BY <3>2, <3>4, <3>5
    <2> QED
        BY <2>3, <2>4
<1> QED
    BY <1>1, TypeCorrect, PTL

(* refresh_mods and config.json take the same pin for an enabled mod.        *)
THEOREM UpdateKeepsPins == Spec => PinsKept
<1>1. (job.kind = "refresh" /\ AsLoaded /\ JobLands) => \A m \in Mods :
         /\ job.scope = "server" /\ Enabled(m) /\ row[m].known =>
              /\ pin[m] # 0 => disk'[m] = pin[m]
              /\ pin[m] = 0 /\ libPin[m] # 0 => disk'[m] = libPin[m]
         /\ job.scope = "all" /\ row[m].local /\ libPin[m] # 0 => disk'[m] = libPin[m]
    <2> SUFFICES ASSUME job.kind = "refresh", AsLoaded, JobLands, NEW m \in Mods
                 PROVE  /\ job.scope = "server" /\ Enabled(m) /\ row[m].known =>
                              /\ pin[m] # 0 => disk'[m] = pin[m]
                              /\ pin[m] = 0 /\ libPin[m] # 0 => disk'[m] = libPin[m]
                        /\ job.scope = "all" /\ row[m].local /\ libPin[m] # 0 => disk'[m] = libPin[m]
        OBVIOUS
    <2>1. m \in job.want => disk'[m] = Target(m)
        BY DEF JobLands, Brought
    <2>2. m \in job.want /\ TargetPin(job.scope, m) # 0 => Target(m) = TargetPin(job.scope, m)
        BY DEF AsLoaded, Target
    <2>3. Enabled(m) => m \in Assigned
        BY DEF Enabled, Assigned
    <2> QED
        BY <2>1, <2>2, <2>3 DEF AsLoaded, UpdateTargets, TargetPin, PinOf
<1> QED
    BY <1>1, PTL DEF PinsKept, Spec
=============================================================================
