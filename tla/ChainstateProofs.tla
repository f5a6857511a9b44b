-------------------------- MODULE ChainstateProofs --------------------------
(***************************************************************************)
(* The block tree, finite or not, and the kernel's operations on a         *)
(* chainstate: processBlockHeader, AcceptBlock and ActivateBestChain keep  *)
(* ChainInv.                                                               *)
(*                                                                         *)
(* Induction over the tree is by least counterexample: a set of blocks     *)
(* that is not empty has a block of least height, and its parent is not in *)
(* the set.                                                                *)
(***************************************************************************)
EXTENDS ChainstateContract, FiniteSetTheorems, WellFoundedInduction, TLAPS

\* A nonempty set of natural numbers has a least element.
LEMMA LeastNumber ==
    ASSUME NEW T \in SUBSET Nat, T # {}
    PROVE  \E m \in T : \A k \in T : m <= k
<1> DEFINE R == OpToRel(<, Nat)
<1>1. IsWellFoundedOn(R, Nat)
    BY NatLessThanWellFounded, Zenon
<1>2. ASSUME NEW x \in Nat, NEW y \in Nat, ~(<<y, x>> \in R) PROVE x <= y
    BY <1>2 DEF OpToRel
<1> HIDE DEF R
<1>3. PICK x \in T : \A y \in T : ~(<<y, x>> \in R)
    BY <1>1, WFMin, Zenon
<1>4. \A y \in T : x <= y
    BY <1>2, <1>3, Zenon
<1> QED  BY <1>4

\* A nonempty set of blocks has one of least height.
LEMMA LeastBlock ==
    ASSUME ChainAssumption, NEW S \in SUBSET Blocks, S # {}
    PROVE  \E b \in S : \A d \in S : Height[b] <= Height[d]
<1> DEFINE T == {Height[b] : b \in S}
<1>1. T \in SUBSET Nat /\ T # {}
    BY DEF ChainAssumption
<1>2. PICK m \in T : \A k \in T : m <= k
    <2> HIDE DEF T
    <2> QED  BY <1>1, LeastNumber
<1> QED  BY <1>2

-----------------------------------------------------------------------------
(* The tree. *)

\* Sets of blocks that hold the parent of each of their blocks.
Closed(S) == \A d \in S \ {Genesis} : Parent[d] \in S

\* The least closed set with the block b.
Below(b) == {a \in Blocks : \A S \in SUBSET Blocks : b \in S /\ Closed(S) => a \in S}

\* The parent of a block is one block lower.
LEMMA ParentBelow ==
    ASSUME ChainAssumption, NEW b \in Blocks \ {Genesis}
    PROVE  Parent[b] \in Blocks /\ Height[b] = Height[Parent[b]] + 1 /\ Height[b] \in Nat
           /\ Height[Parent[b]] \in Nat
    BY DEF ChainAssumption

\* Below satisfies the recursion of Ancestors.
LEMMA BelowUnfolds ==
    ASSUME ChainAssumption, NEW b \in Blocks
    PROVE  Below(b) = IF b = Genesis THEN {b} ELSE {b} \cup Below(Parent[b])
<1>1. b \in Below(b)
    BY DEF Below
<1>2. CASE b = Genesis
    <2>1. Closed({Genesis}) /\ {Genesis} \in SUBSET Blocks
        BY DEF Closed, ChainAssumption
    <2>2. Below(b) \subseteq {Genesis}
        BY <1>2, <2>1 DEF Below
    <2> QED  BY <1>1, <1>2, <2>2
<1>3. CASE b # Genesis
    <2> DEFINE p == Parent[b]
    <2>1. p \in Blocks
        BY <1>3, ParentBelow
    <2>2. Below(p) \subseteq Below(b)
        BY <1>3 DEF Below, Closed
    <2>3. {b} \cup Below(p) \in SUBSET Blocks
        BY DEF Below
    <2>4. Closed({b} \cup Below(p))
        <3>1. p \in Below(p)
            BY <2>1 DEF Below
        <3>2. ASSUME NEW d \in Below(p) \ {Genesis} PROVE Parent[d] \in Below(p)
            <4>1. d \in Blocks \ {Genesis} /\ Parent[d] \in Blocks
                BY ParentBelow DEF Below
            <4> QED  BY <4>1, <3>2 DEF Below, Closed
        <3> QED  BY <3>1, <3>2 DEF Closed
    <2>5. Below(b) \subseteq {b} \cup Below(p)
        BY <2>3, <2>4 DEF Below
    <2> QED  BY <1>1, <1>3, <2>2, <2>5
<1> QED  BY <1>2, <1>3

\* Ancestors is well defined: the recursion has a solution.
LEMMA AncestorsUnfold ==
    ASSUME ChainAssumption, NEW b \in Blocks
    PROVE  Ancestors[b] = IF b = Genesis THEN {b} ELSE {b} \cup Ancestors[Parent[b]]
<1> DEFINE Step(f) == [d \in Blocks |-> IF d = Genesis THEN {d} ELSE {d} \cup f[Parent[d]]]
           F == [d \in Blocks |-> Below(d)]
<1>1. F = Step(F)
    <2>1. ASSUME NEW d \in Blocks
          PROVE  F[d] = IF d = Genesis THEN {d} ELSE {d} \cup F[Parent[d]]
        BY BelowUnfolds, ParentBelow
    <2> QED  BY <2>1
<1>2. Ancestors = CHOOSE f : f = Step(f)
    BY DEF Ancestors
<1>3. Ancestors = Step(Ancestors)
    <2> HIDE DEF F, Step
    <2> QED  BY <1>1, <1>2
<1>4. Step(Ancestors)[b] = IF b = Genesis THEN {b} ELSE {b} \cup Ancestors[Parent[b]]
    OBVIOUS
<1> HIDE DEF Step
<1> QED  BY <1>3, <1>4

\* The recursion has one solution only, the least closed set.
LEMMA AncestorsAreBelow ==
    ASSUME ChainAssumption
    PROVE  \A b \in Blocks : Ancestors[b] = Below(b)
<1> DEFINE S == {b \in Blocks : Ancestors[b] # Below(b)}
<1>1. SUFFICES ASSUME S # {} PROVE FALSE
    OBVIOUS
<1>2. PICK b \in S : \A d \in S : Height[b] <= Height[d]
    <2> HIDE DEF S
    <2>1. S \in SUBSET Blocks  BY DEF S
    <2> QED  BY <1>1, <2>1, LeastBlock
<1>3. CASE b = Genesis
    BY <1>2, <1>3, AncestorsUnfold, BelowUnfolds, Zenon
<1>4. CASE b # Genesis
    <2>1. Parent[b] \in Blocks /\ ~(Height[b] <= Height[Parent[b]])
        BY <1>4, ParentBelow
    <2>2. Ancestors[Parent[b]] = Below(Parent[b])
        BY <1>2, <2>1
    <2> QED  BY <1>2, <1>4, <2>2, AncestorsUnfold, BelowUnfolds, Zenon
<1> QED  BY <1>3, <1>4

\* A block is its own ancestor, and its other ancestors are those of its parent.
LEMMA AncestorFacts ==
    ASSUME ChainAssumption, NEW b \in Blocks
    PROVE  /\ Ancestors[b] \subseteq Blocks
           /\ b \in Ancestors[b]
           /\ b # Genesis => Ancestors[b] = {b} \cup Ancestors[Parent[b]]
           /\ b = Genesis => Ancestors[b] = {b}
           /\ Closed(Ancestors[b])
<1>1. Ancestors[b] = Below(b)
    BY AncestorsAreBelow
<1>2. ASSUME NEW d \in Below(b) \ {Genesis} PROVE Parent[d] \in Below(b)
    <2>1. d \in Blocks \ {Genesis} /\ Parent[d] \in Blocks
        BY ParentBelow DEF Below
    <2> QED  BY <2>1, <1>2 DEF Below, Closed
<1>3. Closed(Below(b))
    BY <1>2 DEF Closed
<1>4. Below(b) \subseteq Blocks /\ b \in Below(b)
    BY DEF Below
<1> QED  BY <1>1, <1>3, <1>4, AncestorsUnfold, Zenon

\* What holds of a block, and of the parent of each block it holds of, holds of
\* all its ancestors: the induction down a chain.
LEMMA AncestorsLeast ==
    ASSUME ChainAssumption, NEW b \in Blocks, NEW S \in SUBSET Blocks, b \in S, Closed(S)
    PROVE  Ancestors[b] \subseteq S
    BY AncestorsAreBelow DEF Below

\* The ancestors of an ancestor are ancestors.
LEMMA AncestorsTransitive ==
    ASSUME ChainAssumption, NEW b \in Blocks, NEW a \in Ancestors[b]
    PROVE  a \in Blocks /\ Ancestors[a] \subseteq Ancestors[b]
    BY AncestorFacts, AncestorsLeast

\* Ancestors are lower, and the genesis block is everybody's ancestor.
LEMMA AncestorsLower ==
    ASSUME ChainAssumption, NEW b \in Blocks
    PROVE  /\ \A a \in Ancestors[b] : a = b \/ Height[a] < Height[b]
           /\ \A a \in Ancestors[b] : Height[a] <= Height[b]
           /\ Genesis \in Ancestors[b]
<1> DEFINE S == {a \in Blocks : a = b \/ Height[a] < Height[b]}
<1>1. \A a \in Blocks : Height[a] \in Nat
    BY DEF ChainAssumption
<1>2. Closed(S)
    BY <1>1, ParentBelow DEF Closed
<1>3. Ancestors[b] \subseteq S
    <2> HIDE DEF S
    <2>1. S \in SUBSET Blocks /\ b \in S  BY DEF S
    <2> QED  BY <1>2, <2>1, AncestorsLeast
<1>4. Genesis \in Ancestors[b]
    <2>1. Ancestors[b] \in SUBSET Blocks /\ Ancestors[b] # {} /\ Closed(Ancestors[b])
        BY AncestorFacts
    <2>2. PICK a \in Ancestors[b] : \A d \in Ancestors[b] : Height[a] <= Height[d]
        BY <2>1, LeastBlock
    <2>3. CASE a # Genesis
        <3>1. Parent[a] \in Ancestors[b] /\ ~(Height[a] <= Height[Parent[a]])
            BY <2>1, <2>3, ParentBelow DEF Closed
        <3> QED  BY <2>2, <3>1
    <2> QED  BY <2>2, <2>3
<1> QED  BY <1>1, <1>3, <1>4

\* The ancestors of a block form a chain.
LEMMA AncestorsChain ==
    ASSUME ChainAssumption, NEW b \in Blocks, NEW a \in Ancestors[b], NEW d \in Ancestors[b],
           Height[a] <= Height[d]
    PROVE  a \in Ancestors[d]
<1> DEFINE S == {c \in Blocks : \E x, y \in Ancestors[c] :
                                  Height[x] <= Height[y] /\ x \notin Ancestors[y]}
<1>1. SUFFICES ASSUME S # {} PROVE FALSE
    OBVIOUS
<1>2. PICK c \in S : \A e \in S : Height[c] <= Height[e]
    <2> HIDE DEF S
    <2>1. S \in SUBSET Blocks  BY DEF S
    <2> QED  BY <1>1, <2>1, LeastBlock
<1>3. PICK x, y \in Ancestors[c] : Height[x] <= Height[y] /\ x \notin Ancestors[y]
    BY <1>2
<1>5. y # c
    BY <1>3
<1>6. x # c
    <2>1. Height[y] < Height[c] /\ Height[y] \in Nat /\ Height[c] \in Nat
        BY <1>2, <1>3, <1>5, AncestorsLower, AncestorFacts DEF ChainAssumption
    <2> QED  BY <1>3, <2>1
<1>7. c # Genesis
    BY <1>2, <1>3, <1>5, AncestorFacts
<1>8. x \in Ancestors[Parent[c]] /\ y \in Ancestors[Parent[c]]
    BY <1>2, <1>3, <1>5, <1>6, <1>7, AncestorFacts
<1>9. Parent[c] \in Blocks /\ ~(Height[c] <= Height[Parent[c]])
    BY <1>2, <1>7, ParentBelow
<1> QED  BY <1>2, <1>3, <1>8, <1>9

\* A block has exactly one ancestor at every height up to its own.
LEMMA AncestorAtHeight ==
    ASSUME ChainAssumption, NEW b \in Blocks
    PROVE  /\ \A a, d \in Ancestors[b] : Height[a] = Height[d] => a = d
           /\ \A h \in 0 .. Height[b] :
                 AncestorAt(b, h) \in Ancestors[b] /\ Height[AncestorAt(b, h)] = h
<1>1. ASSUME NEW a \in Ancestors[b], NEW d \in Ancestors[b], Height[a] = Height[d]
      PROVE  a = d
    <2>1. a \in Blocks /\ d \in Blocks /\ Height[a] \in Nat /\ Height[d] \in Nat
        BY AncestorFacts DEF ChainAssumption
    <2>2. a \in Ancestors[d]
        BY <1>1, <2>1, AncestorsChain
    <2> QED  BY <1>1, <2>1, <2>2, AncestorsLower
<1> DEFINE S == {c \in Blocks : \E h \in 0 .. Height[c] : \A a \in Ancestors[c] : Height[a] # h}
<1>2. S = {}
    <2>1. SUFFICES ASSUME S # {} PROVE FALSE
        OBVIOUS
    <2>2. PICK c \in S : \A e \in S : Height[c] <= Height[e]
        <3> HIDE DEF S
        <3>1. S \in SUBSET Blocks  BY DEF S
        <3> QED  BY <2>1, <3>1, LeastBlock
    <2>3. PICK h \in 0 .. Height[c] : \A a \in Ancestors[c] : Height[a] # h
        BY <2>2
    <2>4. c \in Blocks /\ c \in Ancestors[c] /\ Height[c] \in Nat
        BY <2>2, AncestorFacts DEF ChainAssumption
    <2>5. c # Genesis
        BY <2>3, <2>4 DEF ChainAssumption
    <2>6. /\ Parent[c] \in Blocks /\ Height[c] = Height[Parent[c]] + 1
          /\ Height[Parent[c]] \in Nat /\ Ancestors[Parent[c]] \subseteq Ancestors[c]
        BY <2>4, <2>5, ParentBelow, AncestorFacts
    <2>7. h \in 0 .. Height[Parent[c]]
        BY <2>3, <2>4, <2>6
    <2>8. Parent[c] \in S
        BY <2>3, <2>6, <2>7
    <2> QED  BY <2>2, <2>4, <2>6, <2>8
<1>3. ASSUME NEW h \in 0 .. Height[b]
      PROVE  AncestorAt(b, h) \in Ancestors[b] /\ Height[AncestorAt(b, h)] = h
    <2>1. \E a \in Ancestors[b] : Height[a] = h
        BY <1>2
    <2> QED  BY <2>1 DEF AncestorAt
<1> QED  BY <1>1, <1>3

-----------------------------------------------------------------------------
(* Data directories and single headers. *)

\* The ancestors of a block are finitely many.
LEMMA AncestorsFinite ==
    ASSUME ChainAssumption, NEW b \in Blocks
    PROVE  IsFiniteSet(Ancestors[b])
<1> DEFINE f == [a \in Ancestors[b] |-> Height[a]]
<1>1. Height[b] \in Nat
    BY DEF ChainAssumption
<1>2. f \in [Ancestors[b] -> 0 .. Height[b]]
    BY <1>1, AncestorFacts, AncestorsLower DEF ChainAssumption
<1>3. f \in Injection(Ancestors[b], 0 .. Height[b])
    BY <1>2, AncestorAtHeight DEF Injection, IsInjective
<1>4. IsFiniteSet(0 .. Height[b])
    BY <1>1, FS_Interval
<1> HIDE DEF f
<1> QED  BY <1>3, <1>4, FS_Injection

\* A data directory that has validated the chain ending in t satisfies the
\* invariant.
LEMMA SyncedInv ==
    ASSUME ChainAssumption, NEW t \in Blocks, Connectable(t)
    PROVE  /\ ChainInv(SyncedTo(t)) /\ Settled(SyncedTo(t))
           /\ Linked(SyncedTo(t)) = Ancestors[t]
<1> DEFINE c == SyncedTo(t)
           n == Height[t] + 1
<1>1. /\ c.known = Ancestors[t] /\ c.stored = Ancestors[t] /\ c.failed = {}
      /\ c.best = t /\ c.tip = t
      /\ c.linked = [i \in 1 .. n |-> AncestorAt(t, i - 1)]
    BY DEF SyncedTo
<1>2. n \in Nat /\ Height[t] \in Nat
    BY DEF ChainAssumption
<1>3. \A i \in 1 .. n : i - 1 \in 0 .. Height[t]
    BY <1>2
<1>4. \A i \in 1 .. n : /\ c.linked[i] = AncestorAt(t, i - 1)
                        /\ c.linked[i] \in Ancestors[t] /\ Height[c.linked[i]] = i - 1
    BY <1>1, <1>3, AncestorAtHeight
<1>5. Ancestors[t] \subseteq Blocks /\ t \in Ancestors[t] /\ IsFiniteSet(Ancestors[t])
    BY AncestorFacts, AncestorsFinite
<1>6. c.linked \in Seq(Blocks) /\ Len(c.linked) = n
    BY <1>1, <1>2, <1>4, <1>5
<1>7. c \in Chainstates
    <2>1. c.linked \in Seq(Blocks) /\ Ancestors[t] \in SUBSET Blocks
        BY <1>5, <1>6
    <2> QED  BY <1>1, <2>1 DEF SyncedTo, Chainstates
<1>8. Linked(c) = Ancestors[t]
    <2>1. Linked(c) \subseteq Ancestors[t]
        BY <1>4, <1>6 DEF Linked
    <2>2. ASSUME NEW a \in Ancestors[t] PROVE a \in Linked(c)
        <3>1. Height[a] \in Nat /\ Height[a] <= Height[t]
            BY <1>5, AncestorsLower DEF ChainAssumption
        <3>2. Height[a] + 1 \in 1 .. n /\ (Height[a] + 1) - 1 = Height[a]
            BY <1>2, <3>1
        <3>3. c.linked[Height[a] + 1] = a
            BY <1>4, <3>2, AncestorAtHeight
        <3> QED  BY <1>6, <3>2, <3>3 DEF Linked
    <2> QED  BY <2>1, <2>2, Zenon
<1>9. \A i, j \in 1 .. Len(c.linked) : c.linked[i] = c.linked[j] => i = j
    <2>1. ASSUME NEW i \in 1 .. n, NEW j \in 1 .. n, c.linked[i] = c.linked[j] PROVE i = j
        <3>1. i - 1 = j - 1  BY <1>4, <2>1
        <3> QED  BY <3>1, <1>2
    <2> QED  BY <1>6, <2>1
<1>10. \A a \in Ancestors[t] : Ancestors[a] \subseteq Ancestors[t] /\ Height[a] <= Height[t]
    BY AncestorsTransitive, AncestorsLower
<1>11. Descendants({}) = {}
    BY DEF Descendants
<1> HIDE DEF c
<1>12. ChainInv(c)
    BY <1>1, <1>5, <1>7, <1>8, <1>9, <1>10, <1>11, Zenon DEF ChainInv
<1>13. Settled(c)
    BY <1>1, <1>8, <1>10 DEF Settled
<1> QED  BY <1>8, <1>12, <1>13 DEF c

-----------------------------------------------------------------------------
(* Headers. *)

\* The fields of the chainstate a new header leaves behind.
LEMMA HeaderFields ==
    ASSUME ChainAssumption, NEW c \in Chainstates, NEW b \in Blocks
    PROVE  LET d == AddToBlockIndex(c, b)
           IN  /\ d \in Chainstates
               /\ d.known = c.known \cup {b} /\ d.stored = c.stored /\ d.failed = c.failed
               /\ d.linked = c.linked /\ Linked(d) = Linked(c) /\ d.tip = c.tip
               /\ d.best = IF Height[b] > Height[c.best] THEN b ELSE c.best
    BY Zenon DEF AddToBlockIndex, Chainstates, Linked

\* AcceptBlockHeader keeps the invariant, and a header it adds extends an
\* indexed chain that is not marked failed.
LEMMA HeaderKeepsInv ==
    ASSUME ChainAssumption, NEW c, ChainInv(c), NEW b \in Blocks, ~HeaderRejected(c, b)
    PROVE  /\ ChainInv(AddToBlockIndex(c, b))
           /\ b \notin c.failed
           /\ b \notin c.known => b # Genesis /\ Parent[b] \in c.known \ c.failed
           /\ Ancestors[b] \subseteq c.known \cup {b}
           /\ Ancestors[b] \cap c.failed = {}
<1> DEFINE d == AddToBlockIndex(c, b)
<1>1. c \in Chainstates /\ c.known \subseteq Blocks /\ c.failed \subseteq c.known
      /\ c.best \in Blocks /\ c.tip \in Blocks
    BY DEF ChainInv, Chainstates
<1>2. /\ d \in Chainstates
      /\ d.known = c.known \cup {b} /\ d.stored = c.stored /\ d.failed = c.failed
      /\ d.linked = c.linked /\ Linked(d) = Linked(c) /\ d.tip = c.tip
      /\ d.best = IF Height[b] > Height[c.best] THEN b ELSE c.best
    BY <1>1, HeaderFields, Zenon
<1> HIDE DEF d
<1>3. c.tip \in c.known /\ Genesis \in c.known
    BY <1>1, AncestorsLower DEF ChainInv
<1>4. b \notin c.failed /\ (b \notin c.known => Parent[b] \in c.known \ c.failed /\ b # Genesis)
    BY <1>3 DEF HeaderRejected
<1>5. Ancestors[b] \subseteq c.known \cup {b}
    <2>1. CASE b \in c.known
        BY <2>1 DEF ChainInv
    <2>2. CASE b \notin c.known
        BY <1>4, <2>2, AncestorFacts DEF ChainInv
    <2> QED  BY <2>1, <2>2
<1>6. Ancestors[b] \cap c.failed = {}
    <2>1. CASE b \in c.known
        BY <1>4, <2>1 DEF ChainInv, Descendants
    <2>2. CASE b \notin c.known
        <3>1. Parent[b] \in c.known \ c.failed /\ Parent[b] \in Blocks
              /\ Ancestors[b] = {b} \cup Ancestors[Parent[b]]
            BY <1>1, <1>4, <2>2, AncestorFacts
        <3>2. Ancestors[Parent[b]] \cap c.failed = {}
            BY <3>1 DEF ChainInv, Descendants
        <3> QED  BY <1>4, <3>1, <3>2
    <2> QED  BY <2>1, <2>2
<1>7. \A a \in d.known : Ancestors[a] \subseteq d.known
    BY <1>2, <1>5 DEF ChainInv
<1>8. Descendants(d.failed) \cap d.known \subseteq d.failed
    BY <1>2, <1>6 DEF ChainInv, Descendants
<1>9. d.best \in d.known \ d.failed
    BY <1>2, <1>4 DEF ChainInv
<1>10. \A k \in d.known \ d.failed : Height[k] <= Height[d.best]
    <2>1. Height[b] \in Nat /\ Height[c.best] \in Nat /\ \A k \in c.known : Height[k] \in Nat
        BY <1>1 DEF ChainAssumption
    <2> QED  BY <1>2, <2>1 DEF ChainInv
<1>11. ChainInv(d)
    <2>1. /\ IsFiniteSet(d.stored) /\ d.stored \subseteq d.known /\ d.failed \subseteq d.known
          /\ Linked(d) = {x \in d.stored : Ancestors[x] \subseteq d.stored}
          /\ \A i, j \in 1 .. Len(d.linked) : d.linked[i] = d.linked[j] => i = j
          /\ \A x \in d.failed : ~Connectable(x)
          /\ d.tip \in Linked(d) \ d.failed /\ Connectable(d.tip)
        BY <1>2, Zenon DEF ChainInv
    <2> QED  BY <1>2, <1>7, <1>8, <1>9, <1>10, <2>1, Zenon DEF ChainInv
<1> QED  BY <1>4, <1>5, <1>6, <1>11 DEF d

-----------------------------------------------------------------------------
(* Blocks. *)

\* q lists the blocks of S, lower ones first.
Lists(q, S) ==
    \A i, j \in 1 .. Cardinality(S) : i < j => q[i] # q[j] /\ Height[q[i]] <= Height[q[j]]

\* Finitely many blocks can be listed in the order of their heights: so many
\* that they cannot be, as few as possible, become listable when the lowest
\* goes first.
LEMMA ListExists ==
    ASSUME ChainAssumption, NEW S \in SUBSET Blocks, IsFiniteSet(S)
    PROVE  \E q \in [1 .. Cardinality(S) -> S] : Lists(q, S)
<1> DEFINE Listable(T) == \E q \in [1 .. Cardinality(T) -> T] : Lists(q, T)
           Bad == {n \in Nat : \E T \in SUBSET Blocks :
                                  IsFiniteSet(T) /\ Cardinality(T) = n /\ ~Listable(T)}
<1>1. SUFFICES ASSUME Bad # {} PROVE FALSE
    BY FS_CardinalityType
<1>2. PICK n \in Bad : \A k \in Bad : n <= k
    <2> HIDE DEF Bad
    <2>1. Bad \in SUBSET Nat  BY DEF Bad
    <2> QED  BY <1>1, <2>1, LeastNumber
<1>3. PICK T \in SUBSET Blocks : IsFiniteSet(T) /\ Cardinality(T) = n /\ ~Listable(T)
    BY <1>2
<1>4. n \in Nat
    BY <1>2
<1>5. T # {}
    <2>1. SUFFICES ASSUME T = {} PROVE Listable(T)
        BY <1>3
    <2>2. n = 0
        BY <1>3, <2>1, FS_EmptySet
    <2>3. [i \in 1 .. 0 |-> Genesis] \in [1 .. 0 -> T] /\ Lists([i \in 1 .. 0 |-> Genesis], T)
        BY <1>3, <2>2 DEF Lists
    <2> QED  BY <1>3, <2>2, <2>3, Zenon
<1>6. PICK x \in T : \A y \in T : Height[x] <= Height[y]
    BY <1>5, LeastBlock, Zenon
<1> DEFINE U == T \ {x}
<1>7. U \in SUBSET Blocks /\ IsFiniteSet(U) /\ Cardinality(U) = n - 1 /\ n - 1 \in Nat
    <2>1. IsFiniteSet(U) /\ Cardinality(U) = n - 1
        BY <1>3, <1>6, FS_RemoveElement, Zenon
    <2>2. Cardinality(U) \in Nat
        BY <2>1, FS_CardinalityType
    <2> QED  BY <2>1, <2>2
<1> HIDE DEF U
<1>8. Listable(U)
    <2>1. n - 1 \notin Bad
        BY <1>2, <1>4
    <2> QED  BY <1>7, <2>1, Zenon
<1>9. PICK q \in [1 .. n - 1 -> U] : Lists(q, U)
    BY <1>7, <1>8
<1>10. PICK p : p = [i \in 1 .. n |-> IF i = 1 THEN x ELSE q[i - 1]]
    BY Zenon
<1>11. ASSUME NEW i \in 1 .. n, i # 1
       PROVE  i - 1 \in 1 .. n - 1 /\ p[i] = q[i - 1] /\ p[i] \in U
    <2>1. i - 1 \in 1 .. n - 1
        BY <1>4, <1>11
    <2> QED  BY <1>9, <1>10, <1>11, <2>1
<1>12. p \in [1 .. n -> T]
    <2>1. \A i \in 1 .. n : p[i] \in T
        BY <1>6, <1>10, <1>11 DEF U
    <2> QED  BY <1>10, <2>1
<1>13. ASSUME NEW i \in 1 .. n, NEW j \in 1 .. n, i < j
       PROVE  p[i] # p[j] /\ Height[p[i]] <= Height[p[j]]
    <2>1. j # 1 /\ j - 1 \in 1 .. n - 1 /\ p[j] = q[j - 1] /\ p[j] \in U
        BY <1>4, <1>11, <1>13
    <2>2. CASE i = 1
        BY <1>4, <1>6, <1>10, <2>1, <2>2 DEF U
    <2>3. CASE i # 1
        <3>1. i - 1 \in 1 .. n - 1 /\ p[i] = q[i - 1] /\ i - 1 < j - 1
            BY <1>4, <1>11, <1>13, <2>3
        <3> QED  BY <1>7, <1>9, <2>1, <3>1 DEF Lists
    <2> QED  BY <2>2, <2>3
<1>14. Lists(p, T)
    BY <1>3, <1>13 DEF Lists
<1> QED  BY <1>3, <1>12, <1>14

\* What NewlyLinked appends: every block that becomes linked, once.
LEMMA NewlyLinkedLists ==
    ASSUME ChainAssumption, NEW c, ChainInv(c), NEW b \in Blocks
    PROVE  LET stored == c.stored \cup {b}
               ready == {d \in stored : Ancestors[d] \subseteq stored} \ Linked(c)
               q == NewlyLinked(c, b)
           IN  /\ q \in Seq(Blocks)
               /\ {q[i] : i \in 1 .. Len(q)} = ready
               /\ \A i, j \in 1 .. Len(q) : q[i] = q[j] => i = j
<1> DEFINE stored == c.stored \cup {b}
           ready == {d \in stored : Ancestors[d] \subseteq stored} \ Linked(c)
           n == Cardinality(ready)
           q == NewlyLinked(c, b)
<1>1. IsFiniteSet(stored) /\ ready \in SUBSET Blocks
    BY FS_AddElement DEF ChainInv, Chainstates
<1>2. IsFiniteSet(ready) /\ n \in Nat
    BY <1>1, FS_Subset, FS_CardinalityType
<1>3. q = CHOOSE p \in [1 .. n -> ready] : Lists(p, ready)
    BY DEF NewlyLinked, Lists
<1>4. \E p \in [1 .. n -> ready] : Lists(p, ready)
    <2> HIDE DEF ready
    <2> QED  BY <1>1, <1>2, ListExists
<1>5. q \in [1 .. n -> ready] /\ Lists(q, ready)
    <2> HIDE DEF ready, q, n
    <2> QED  BY <1>3, <1>4
<1> HIDE DEF q, ready
<1>6. q \in Seq(Blocks) /\ Len(q) = n
    BY <1>1, <1>2, <1>5
<1>7. ASSUME NEW i \in 1 .. n, NEW j \in 1 .. n, q[i] = q[j] PROVE i = j
    BY <1>2, <1>5, <1>7 DEF Lists
<1>8. {q[i] : i \in 1 .. n} = ready
    <2>1. q \in Injection(1 .. n, ready)
        BY <1>5, <1>7 DEF Injection, IsInjective
    <2>2. IsFiniteSet(1 .. n) /\ Cardinality(1 .. n) = n
        BY <1>2, FS_Interval
    <2>3. q \in Surjection(1 .. n, ready)
        BY <1>2, <2>1, <2>2, FS_Injection
    <2> QED  BY <1>5, <2>3 DEF Surjection
<1> QED  BY <1>6, <1>7, <1>8, Zenon DEF q, ready

\* The fields of the chainstate an accepted block leaves behind.
LEMMA AcceptFields ==
    ASSUME ChainAssumption, NEW c, ChainInv(c), NEW b \in Blocks, b \notin c.stored
    PROVE  LET d == AcceptBlock(c, b)
           IN  /\ d \in Chainstates
               /\ d.known = c.known \cup {b} /\ d.stored = c.stored \cup {b}
               /\ d.failed = c.failed /\ d.tip = c.tip
               /\ d.linked = c.linked \o NewlyLinked(c, b)
               /\ d.best = IF Height[b] > Height[c.best] THEN b ELSE c.best
<1>1. NewlyLinked(c, b) \in Seq(Blocks)
    BY NewlyLinkedLists
<1>2. c \in Chainstates /\ c.linked \in Seq(Blocks) /\ c.stored \in SUBSET Blocks
    BY DEF ChainInv, Chainstates
<1>3. c.linked \o NewlyLinked(c, b) \in Seq(Blocks)
    BY <1>1, <1>2
<1> DEFINE h == AddToBlockIndex(c, b)
<1>4. /\ h \in Chainstates
      /\ h.known = c.known \cup {b} /\ h.stored = c.stored /\ h.failed = c.failed
      /\ h.linked = c.linked /\ h.tip = c.tip
      /\ h.best = IF Height[b] > Height[c.best] THEN b ELSE c.best
    BY <1>2, HeaderFields, Zenon
<1> HIDE DEF h
<1>5. AcceptBlock(c, b) =
          [h EXCEPT !.stored = h.stored \cup {b}, !.linked = h.linked \o NewlyLinked(c, b)]
    BY DEF AcceptBlock, h
<1>6. h.stored \cup {b} \in SUBSET Blocks /\ h.linked \o NewlyLinked(c, b) \in Seq(Blocks)
    BY <1>2, <1>3, <1>4
<1>7. AcceptBlock(c, b) \in Chainstates
    BY <1>4, <1>5, <1>6, Zenon DEF Chainstates
<1>8. /\ AcceptBlock(c, b).known = h.known /\ AcceptBlock(c, b).failed = h.failed
      /\ AcceptBlock(c, b).tip = h.tip /\ AcceptBlock(c, b).best = h.best
      /\ AcceptBlock(c, b).stored = h.stored \cup {b}
      /\ AcceptBlock(c, b).linked = h.linked \o NewlyLinked(c, b)
    BY <1>4, <1>5, Zenon DEF Chainstates
<1> QED  BY <1>4, <1>7, <1>8, Zenon

\* The elements of a concatenation.
LEMMA ConcatElements ==
    ASSUME NEW S, NEW s \in Seq(S), NEW t \in Seq(S)
    PROVE  /\ s \o t \in Seq(S)
           /\ Len(s) \in Nat /\ Len(t) \in Nat /\ Len(s \o t) = Len(s) + Len(t)
           /\ \A i \in 1 .. Len(s) : i \in 1 .. Len(s \o t) /\ (s \o t)[i] = s[i]
           /\ \A k \in 1 .. Len(t) :
                 Len(s) + k \in 1 .. Len(s \o t) /\ (s \o t)[Len(s) + k] = t[k]
           /\ \A i \in 1 .. Len(s \o t) :
                 i \in 1 .. Len(s) \/ \E k \in 1 .. Len(t) : i = Len(s) + k
<1>1. /\ s \o t \in Seq(S) /\ Len(s) \in Nat /\ Len(t) \in Nat
      /\ Len(s \o t) = Len(s) + Len(t)
      /\ \A i \in 1 .. Len(s) : (s \o t)[i] = s[i]
    OBVIOUS
<1>2. \A i \in 1 .. Len(s) : i \in 1 .. Len(s \o t)
    BY <1>1
<1>3. ASSUME NEW k \in 1 .. Len(t)
      PROVE  Len(s) + k \in 1 .. Len(s \o t) /\ (s \o t)[Len(s) + k] = t[k]
    OBVIOUS
<1>4. ASSUME NEW i \in 1 .. Len(s \o t), i \notin 1 .. Len(s)
      PROVE  \E k \in 1 .. Len(t) : i = Len(s) + k
    <2>1. i - Len(s) \in 1 .. Len(t) /\ i = Len(s) + (i - Len(s))
        BY <1>1, <1>4
    <2> QED  BY <2>1, Zenon
<1> QED  BY <1>1, <1>2, <1>3, <1>4, Zenon

\* The elements of a sequence, and that it has no element twice.
Listed(s) == {s[i] : i \in 1 .. Len(s)}
Distinct(s) == \A i, j \in 1 .. Len(s) : s[i] = s[j] => i = j

\* Two lists of different blocks, each without repetition, one after the other.
LEMMA ConcatLists ==
    ASSUME NEW S, NEW s \in Seq(S), NEW t \in Seq(S),
           Distinct(s), Distinct(t), Listed(s) \cap Listed(t) = {}
    PROVE  Listed(s \o t) = Listed(s) \cup Listed(t) /\ Distinct(s \o t)
<1> DEFINE u == s \o t
<1>1. /\ \A i \in 1 .. Len(s) : i \in 1 .. Len(u) /\ u[i] = s[i]
      /\ \A k \in 1 .. Len(t) : Len(s) + k \in 1 .. Len(u) /\ u[Len(s) + k] = t[k]
      /\ \A i \in 1 .. Len(u) :
            i \in 1 .. Len(s) \/ \E k \in 1 .. Len(t) : i = Len(s) + k
    BY ConcatElements
<1>2. /\ \A i \in 1 .. Len(s) : s[i] \in Listed(s)
      /\ \A k \in 1 .. Len(t) : t[k] \in Listed(t)
    BY DEF Listed
<1> HIDE DEF u
<1>3. ASSUME NEW i \in 1 .. Len(u) PROVE u[i] \in Listed(s) \cup Listed(t)
    <2>1. CASE i \in 1 .. Len(s)
        BY <1>1, <1>2, <2>1
    <2>2. CASE \E k \in 1 .. Len(t) : i = Len(s) + k
        BY <1>1, <1>2, <2>2
    <2> QED  BY <1>1, <2>1, <2>2
<1>4. ASSUME NEW a \in Listed(s) PROVE a \in Listed(u)
    <2>1. PICK k \in 1 .. Len(s) : s[k] = a  BY DEF Listed
    <2> QED  BY <1>1, <2>1 DEF Listed
<1>5. ASSUME NEW b \in Listed(t) PROVE b \in Listed(u)
    <2>1. PICK k \in 1 .. Len(t) : t[k] = b  BY DEF Listed
    <2> QED  BY <1>1, <2>1, Zenon DEF Listed
<1>6. Listed(u) = Listed(s) \cup Listed(t)
    <2>1. Listed(u) \subseteq Listed(s) \cup Listed(t)
        BY <1>3, Zenon DEF Listed
    <2> QED  BY <2>1, <1>4, <1>5
<1>7. ASSUME NEW i \in 1 .. Len(u), NEW j \in 1 .. Len(u), u[i] = u[j] PROVE i = j
    <2>1. CASE i \in 1 .. Len(s) /\ j \in 1 .. Len(s)
        BY <1>1, <1>7, <2>1 DEF Distinct
    <2>2. CASE \E k, l \in 1 .. Len(t) : i = Len(s) + k /\ j = Len(s) + l
        BY <1>1, <1>7, <2>2 DEF Distinct
    <2>3. CASE i \in 1 .. Len(s) /\ \E l \in 1 .. Len(t) : j = Len(s) + l
        BY <1>1, <1>2, <1>7, <2>3, Zenon
    <2>4. CASE j \in 1 .. Len(s) /\ \E l \in 1 .. Len(t) : i = Len(s) + l
        BY <1>1, <1>2, <1>7, <2>4, Zenon
    <2>5. i \in 1 .. Len(s) \/ \E k \in 1 .. Len(t) : i = Len(s) + k
        BY <1>1
    <2>6. j \in 1 .. Len(s) \/ \E k \in 1 .. Len(t) : j = Len(s) + k
        BY <1>1
    <2> QED  BY <2>1, <2>2, <2>3, <2>4, <2>5, <2>6, Zenon
<1>8. Distinct(u)
    BY <1>7 DEF Distinct
<1> QED  BY <1>6, <1>8 DEF u

\* AcceptBlock keeps the invariant, leaves the tip and the marks alone, and only
\* adds linked blocks.
LEMMA AcceptKeepsInv ==
    ASSUME ChainAssumption, NEW c, ChainInv(c), NEW b \in Blocks, ~BlockRejected(c, b)
    PROVE  /\ ChainInv(AcceptBlock(c, b))
           /\ AcceptBlock(c, b).tip = c.tip /\ AcceptBlock(c, b).failed = c.failed
           /\ Linked(c) \subseteq Linked(AcceptBlock(c, b))
<1>h. ~HeaderRejected(c, b)
    BY DEF BlockRejected
<1> DEFINE h == AddToBlockIndex(c, b)
<1>c. c \in Chainstates
    BY DEF ChainInv
<1>f. /\ h.known = c.known \cup {b} /\ h.failed = c.failed /\ Linked(h) = Linked(c)
      /\ h.tip = c.tip /\ h.best = IF Height[b] > Height[c.best] THEN b ELSE c.best
    BY <1>c, HeaderFields
<1>i. ChainInv(h)
    BY <1>h, HeaderKeepsInv
<1>1. CASE b \in c.stored
    <2>1. AcceptBlock(c, b) = h
        BY <1>1 DEF AcceptBlock
    <2> HIDE DEF h
    <2> QED  BY <1>f, <1>i, <2>1
<1>2. CASE b \notin c.stored
    <2> DEFINE d == AcceptBlock(c, b)
               q == NewlyLinked(c, b)
               ready == {a \in c.stored \cup {b} : Ancestors[a] \subseteq c.stored \cup {b}}
                            \ Linked(c)
    <2>1. /\ d \in Chainstates
          /\ d.known = c.known \cup {b} /\ d.stored = c.stored \cup {b}
          /\ d.failed = c.failed /\ d.tip = c.tip
          /\ d.linked = c.linked \o q
          /\ d.best = IF Height[b] > Height[c.best] THEN b ELSE c.best
        BY <1>2, AcceptFields
    <2>2. /\ q \in Seq(Blocks) /\ {q[i] : i \in 1 .. Len(q)} = ready
          /\ \A i, j \in 1 .. Len(q) : q[i] = q[j] => i = j
        BY NewlyLinkedLists, Zenon
    <2> HIDE DEF d, h, q
    <2>3. c.linked \in Seq(Blocks)
        BY <1>c DEF Chainstates
    <2>4. /\ {d.linked[i] : i \in 1 .. Len(d.linked)} = Linked(c) \cup ready
          /\ \A i, j \in 1 .. Len(d.linked) : d.linked[i] = d.linked[j] => i = j
        <3>1. Listed(c.linked) = Linked(c) /\ Listed(q) = ready /\ Distinct(c.linked) /\ Distinct(q)
            BY <2>2, Zenon DEF Linked, Listed, Distinct, ChainInv
        <3>2. Listed(c.linked) \cap Listed(q) = {}
            BY <3>1
        <3>3. Listed(d.linked) = Listed(c.linked) \cup Listed(q) /\ Distinct(d.linked)
            BY <2>1, <2>2, <2>3, <3>1, <3>2, ConcatLists
        <3> QED  BY <3>1, <3>3, Zenon DEF Listed, Distinct
    <2>5. Linked(d) = Linked(c) \cup ready
        BY <2>4, Zenon DEF Linked
    <2>6. Linked(c) = {a \in c.stored : Ancestors[a] \subseteq c.stored}
        BY DEF ChainInv
    <2>7. Linked(d) = {a \in d.stored : Ancestors[a] \subseteq d.stored}
        BY <2>1, <2>5, <2>6
    <2>8. IsFiniteSet(d.stored) /\ d.stored \subseteq d.known /\ d.failed \subseteq d.known
        <3>1. IsFiniteSet(c.stored) /\ c.stored \subseteq c.known /\ c.failed \subseteq c.known
            BY Zenon DEF ChainInv
        <3>2. IsFiniteSet(c.stored \cup {b})
            BY <3>1, FS_AddElement, Zenon
        <3> QED  BY <2>1, <3>1, <3>2, Zenon
    <2>9. d.tip \in Linked(d) \ d.failed /\ Connectable(d.tip)
        BY <2>1, <2>5 DEF ChainInv
    <2>10. h.known = d.known /\ h.failed = d.failed /\ h.best = d.best
        BY <1>f, <2>1
    <2>11. /\ \A a \in d.known : Ancestors[a] \subseteq d.known
           /\ Descendants(d.failed) \cap d.known \subseteq d.failed
           /\ \A x \in d.failed : ~Connectable(x)
           /\ d.best \in d.known \ d.failed
           /\ \A k \in d.known \ d.failed : Height[k] <= Height[d.best]
        BY <1>i, <2>10, Zenon DEF ChainInv
    <2>12. ChainInv(d)
        BY <2>1, <2>4, <2>7, <2>8, <2>9, <2>11, Zenon DEF ChainInv
    <2> QED  BY <2>1, <2>5, <2>12 DEF d
<1> QED  BY <1>1, <1>2

\* The sequence number of a linked block is its place in the list.
LEMMA SequenceIds ==
    ASSUME NEW c, NEW b \in Linked(c)
    PROVE  SequenceId(c, b) \in 1 .. Len(c.linked) /\ c.linked[SequenceId(c, b)] = b
<1>1. \E i \in 1 .. Len(c.linked) : c.linked[i] = b
    BY DEF Linked
<1> QED  BY <1>1 DEF SequenceId

\* Linked blocks are closed under ancestry, and so are those not marked failed.
LEMMA LinkedClosed ==
    ASSUME ChainAssumption, NEW c, ChainInv(c), NEW b \in Linked(c)
    PROVE  /\ b \in Blocks /\ b \in c.known /\ b \in c.stored
           /\ Ancestors[b] \subseteq Linked(c)
           /\ b \notin c.failed => Ancestors[b] \cap c.failed = {}
<1>1. b \in c.stored /\ Ancestors[b] \subseteq c.stored
    BY DEF ChainInv
<1>2. b \in Blocks /\ b \in c.known
    BY <1>1 DEF ChainInv, Chainstates
<1>3. ASSUME NEW a \in Ancestors[b] PROVE a \in Linked(c)
    BY <1>1, <1>2, AncestorsTransitive DEF ChainInv
<1>4. ASSUME NEW a \in Ancestors[b], a \in c.failed PROVE b \in c.failed
    BY <1>2, <1>4 DEF ChainInv, Descendants
<1> QED  BY <1>1, <1>2, <1>3, <1>4

\* The activation has a tip to end at: among the connectable candidates one is
\* preferred to all the others.
LEMMA ActivatedTipExists ==
    ASSUME ChainAssumption, NEW c, ChainInv(c)
    PROVE  LET t == ActivatedTip(c)
           IN  /\ t \in Candidates(c) /\ Connectable(t)
               /\ \A d \in Candidates(c) : Connectable(d) => d = t \/ Preferred(c, t, d)
<1> DEFINE C == {b \in Candidates(c) : Connectable(b)}
           T == {n \in Nat : \E b \in C : Height[c.best] = Height[b] + n}
<1>1. c.tip \in C
    BY DEF ChainInv, Candidates
<1>2. ASSUME NEW b \in C
      PROVE  /\ b \in Linked(c) /\ Height[b] \in Nat /\ Height[c.best] \in Nat
             /\ Height[b] <= Height[c.best]
    <2>1. b \in Linked(c) /\ b \notin c.failed
        BY DEF Candidates
    <2>2. b \in Blocks /\ b \in c.known /\ c.best \in Blocks
        BY <2>1, LinkedClosed DEF ChainInv, Chainstates
    <2> QED  BY <2>1, <2>2 DEF ChainInv, ChainAssumption
<1> HIDE DEF C
<1>3. ASSUME NEW b \in C PROVE Height[c.best] - Height[b] \in T
    BY <1>2
<1>4. T \in SUBSET Nat /\ T # {}
    BY <1>1, <1>3
<1>5. PICK m \in T : \A k \in T : m <= k
    <2> HIDE DEF T
    <2> QED  BY <1>4, LeastNumber
<1> DEFINE M == {b \in C : Height[c.best] = Height[b] + m}
           I == {SequenceId(c, b) : b \in M}
<1>6. M # {}
    BY <1>5
<1>7. ASSUME NEW b \in M, NEW d \in C
      PROVE  Height[d] <= Height[b] /\ (Height[d] = Height[b] => d \in M)
    <2>1. m <= Height[c.best] - Height[d] /\ m \in Nat
        BY <1>3, <1>4, <1>5
    <2>2. Height[b] \in Nat /\ Height[d] \in Nat /\ Height[c.best] \in Nat
        BY <1>2
    <2> QED  BY <2>1, <2>2
<1>8. I \in SUBSET Nat /\ I # {}
    <2>1. ASSUME NEW b \in M PROVE SequenceId(c, b) \in Nat
        BY <1>2, SequenceIds
    <2> QED  BY <1>6, <2>1
<1>9. PICK i \in I : \A k \in I : i <= k
    <2> HIDE DEF I
    <2> QED  BY <1>8, LeastNumber
<1>10. PICK b \in M : SequenceId(c, b) = i
    BY <1>9
<1>11. ASSUME NEW d \in C PROVE d = b \/ Preferred(c, b, d)
    <2>1. b \in C /\ Height[b] \in Nat /\ Height[d] \in Nat
        BY <1>2
    <2>2. CASE Height[d] < Height[b]
        BY <2>1, <2>2 DEF Preferred
    <2>3. CASE Height[d] = Height[b]
        <3>1. d \in M
            BY <1>7, <2>3
        <3>2. SequenceId(c, b) <= SequenceId(c, d)
            BY <1>9, <1>10, <3>1
        <3>3. /\ SequenceId(c, b) \in Nat /\ c.linked[SequenceId(c, b)] = b
              /\ SequenceId(c, d) \in Nat /\ c.linked[SequenceId(c, d)] = d
            BY <1>2, <2>1, SequenceIds
        <3> QED  BY <2>3, <3>2, <3>3 DEF Preferred
    <2> QED  BY <1>7, <2>1, <2>2, <2>3
<1>12. \E t \in Candidates(c) :
          /\ Connectable(t)
          /\ \A d \in Candidates(c) : Connectable(d) => d = t \/ Preferred(c, t, d)
    <2>1. b \in Candidates(c) /\ Connectable(b)
        BY DEF C
    <2>2. \A d \in Candidates(c) : Connectable(d) => d = b \/ Preferred(c, b, d)
        BY <1>11 DEF C
    <2> QED  BY <2>1, <2>2
<1> HIDE DEF M, I, T
<1> QED  BY <1>12 DEF ActivatedTip

\* What ActivateBestChain changes.
LEMMA ActivateFields ==
    ASSUME NEW c \in Chainstates, NEW d \in ActivateBestChain(c),
           ActivatedTip(c) \in Blocks, FailedBy(c) \subseteq Blocks
    PROVE  /\ d \in Chainstates
           /\ d.known = c.known /\ d.stored = c.stored /\ d.linked = c.linked
           /\ d.tip = ActivatedTip(c) /\ d.failed = c.failed \cup FailedBy(c)
           /\ \/ d.best = c.best /\ c.best \notin d.failed
              \/ /\ d.best \in d.known \ d.failed
                 /\ \A k \in d.known \ d.failed : Height[k] <= Height[d.best]
<1> DEFINE a == [c EXCEPT !.tip = ActivatedTip(c), !.failed = @ \cup FailedBy(c)]
<1>1. /\ a \in Chainstates
      /\ a.known = c.known /\ a.stored = c.stored /\ a.linked = c.linked /\ a.best = c.best
      /\ a.tip = ActivatedTip(c) /\ a.failed = c.failed \cup FailedBy(c)
    BY Zenon DEF Chainstates
<1>2. d \in IF a.best \in a.failed THEN {[a EXCEPT !.best = h] : h \in BestHeaders(a)} ELSE {a}
    BY Zenon DEF ActivateBestChain
<1> HIDE DEF a
<1>3. CASE a.best \in a.failed
    <2>1. PICK h \in BestHeaders(a) : d = [a EXCEPT !.best = h]
        BY <1>2, <1>3
    <2>2. h \in a.known \ a.failed /\ \A k \in a.known \ a.failed : Height[k] <= Height[h]
        BY DEF BestHeaders
    <2>3. /\ d \in Chainstates
          /\ d.known = a.known /\ d.stored = a.stored /\ d.linked = a.linked /\ d.best = h
          /\ d.tip = a.tip /\ d.failed = a.failed
        BY <1>1, <2>1, <2>2 DEF Chainstates
    <2> QED  BY <1>1, <2>2, <2>3
<1>4. CASE a.best \notin a.failed
    BY <1>1, <1>2, <1>4
<1> QED  BY <1>3, <1>4

\* ActivateBestChain keeps the invariant and settles the chainstate.  It marks
\* no block whose chain connects.
LEMMA ActivateKeepsInv ==
    ASSUME ChainAssumption, NEW c, ChainInv(c), NEW d \in ActivateBestChain(c)
    PROVE  /\ ChainInv(d) /\ Settled(d)
           /\ d.known = c.known /\ d.stored = c.stored /\ Linked(d) = Linked(c)
           /\ c.failed \subseteq d.failed
           /\ \A a \in c.known \ c.failed : Connectable(a) => a \notin d.failed
<1> DEFINE t == ActivatedTip(c)
           tried == {b \in Candidates(c) : Preferred(c, b, t)}
           bad == Unconnectable \cap UNION {Ancestors[b] : b \in tried}
<1>c. c \in Chainstates /\ c.known \subseteq Blocks
    BY DEF ChainInv, Chainstates
<1>1. /\ t \in Candidates(c) /\ Connectable(t)
      /\ \A b \in Candidates(c) : Connectable(b) => b = t \/ Preferred(c, t, b)
    BY ActivatedTipExists
<1>2. t \in Linked(c) /\ t \notin c.failed /\ (t = c.tip \/ Preferred(c, t, c.tip))
    BY <1>1 DEF Candidates
<1>3. t \in Blocks /\ t \in c.known /\ c.tip \in Blocks
    BY <1>2, LinkedClosed DEF ChainInv, Chainstates
<1>4. FailedBy(c) = Descendants(bad) \cap c.known
    BY DEF FailedBy
<1> HIDE DEF t
<1>5. /\ d \in Chainstates
      /\ d.known = c.known /\ d.stored = c.stored /\ d.linked = c.linked
      /\ d.tip = t /\ d.failed = c.failed \cup FailedBy(c)
      /\ \/ d.best = c.best /\ c.best \notin d.failed
         \/ /\ d.best \in d.known \ d.failed
            /\ \A k \in d.known \ d.failed : Height[k] <= Height[d.best]
    <2>1. FailedBy(c) \subseteq Blocks
        BY <1>c, <1>4
    <2>2. ActivatedTip(c) \in Blocks
        BY <1>3 DEF t
    <2> QED  BY <1>c, <2>1, <2>2, ActivateFields DEF t
<1>6. Linked(d) = Linked(c)
    BY <1>5 DEF Linked
<1>7. ASSUME NEW a \in c.known \ c.failed, Connectable(a) PROVE a \notin d.failed
    BY <1>4, <1>5, <1>7 DEF Connectable, Descendants
<1>u. \A x \in d.failed : ~Connectable(x)
    BY <1>4, <1>5, <1>c DEF ChainInv, Connectable, Descendants
<1>8. d.tip \in Linked(d) \ d.failed /\ Connectable(d.tip)
    BY <1>1, <1>2, <1>3, <1>5, <1>6, <1>7
<1>9. Descendants(d.failed) \cap d.known \subseteq d.failed
    <2> SUFFICES ASSUME NEW x \in Descendants(d.failed) \cap d.known PROVE x \in d.failed
        OBVIOUS
    <2>1. PICK a \in Ancestors[x] : a \in d.failed
        BY DEF Descendants
    <2>2. x \in Blocks /\ x \in c.known
        BY <1>5 DEF Descendants
    <2>3. CASE a \in c.failed
        <3>1. x \in Descendants(c.failed)
            BY <2>2, <2>3 DEF Descendants
        <3> QED  BY <1>5, <2>2, <3>1 DEF ChainInv
    <2>4. CASE a \in FailedBy(c)
        <3>1. Ancestors[a] \subseteq Ancestors[x] /\ Ancestors[a] \cap bad # {}
            BY <1>4, <2>2, <2>4, AncestorsTransitive DEF Descendants
        <3>2. x \in Descendants(bad)
            BY <2>2, <3>1 DEF Descendants
        <3> QED  BY <1>4, <1>5, <2>2, <3>2
    <2> QED  BY <1>5, <2>1, <2>3, <2>4
<1>10. d.failed \subseteq d.known
    BY <1>4, <1>5 DEF ChainInv
<1>11. d.best \in d.known \ d.failed /\ \A k \in d.known \ d.failed : Height[k] <= Height[d.best]
    <2>1. c.best \in c.known /\ \A k \in c.known \ c.failed : Height[k] <= Height[c.best]
        BY DEF ChainInv
    <2> QED  BY <1>5, <2>1
<1>12. ChainInv(d)
    <2>1. /\ IsFiniteSet(d.stored) /\ d.stored \subseteq d.known
          /\ \A b \in d.known : Ancestors[b] \subseteq d.known
          /\ Linked(d) = {x \in d.stored : Ancestors[x] \subseteq d.stored}
          /\ \A i, j \in 1 .. Len(d.linked) : d.linked[i] = d.linked[j] => i = j
        BY <1>5, <1>6 DEF ChainInv
    <2> QED  BY <1>5, <1>8, <1>9, <1>10, <1>11, <1>u, <2>1, Zenon DEF ChainInv
<1>13. Settled(d)
    <2> SUFFICES ASSUME NEW b \in Linked(d) \ d.failed, Height[b] > Height[d.tip]
                 PROVE  FALSE
        <3>1. \A b \in Linked(d) : b \in Blocks
            BY <1>6, LinkedClosed
        <3> QED  BY <1>3, <1>5, <3>1 DEF Settled, ChainAssumption
    <2>1. b \in Linked(c) \ c.failed /\ b \in Blocks /\ b \in c.known
        BY <1>5, <1>6, LinkedClosed
    <2>2. Height[b] \in Nat /\ Height[t] \in Nat /\ Height[c.tip] \in Nat /\ Height[b] > Height[t]
        BY <1>3, <1>5, <2>1 DEF ChainAssumption
    <2>3. Preferred(c, b, t) /\ Preferred(c, b, c.tip)
        BY <1>2, <2>2 DEF Preferred
    <2>4. b \in Candidates(c) /\ b \in tried
        BY <2>1, <2>3 DEF Candidates
    <2>5. CASE Connectable(b)
        BY <1>1, <2>2, <2>4, <2>5 DEF Preferred
    <2>6. CASE ~Connectable(b)
        <3>1. PICK a \in Ancestors[b] : a \in Unconnectable
            BY <2>6 DEF Connectable
        <3>2. a \in bad
            BY <2>4, <3>1
        <3>3. b \in FailedBy(c)
            BY <1>4, <2>1, <3>2 DEF Descendants
        <3> QED  BY <1>5, <3>3
    <2> QED  BY <2>5, <2>6
<1> QED  BY <1>5, <1>6, <1>7, <1>12, <1>13

-----------------------------------------------------------------------------
(* A chainstate that one run feeds in order of height. *)

\* In a line only its end has the height of its end.
LEMMA LineEnd ==
    ASSUME ChainAssumption, NEW t \in Blocks, NEW a \in Ancestors[t], Height[t] <= Height[a]
    PROVE  a = t
    BY AncestorsLower, AncestorFacts DEF ChainAssumption

\* Accepting a block one above the tip of a line extends the line.
LEMMA AcceptExtendsLine ==
    ASSUME ChainAssumption, NEW c, ChainInv(c), Line(c, c.tip), NEW b \in Blocks,
           Height[b] = Height[c.tip] + 1, ~BlockRejected(c, b)
    PROVE  /\ b # Genesis /\ Parent[b] = c.tip
           /\ Line(AcceptBlock(c, b), b)
           /\ AcceptBlock(c, b).tip = c.tip
<1>1. ~HeaderRejected(c, b)
    BY DEF BlockRejected
<1>2. c.tip \in Blocks /\ Height[c.tip] \in Nat /\ Height[b] \in Nat
    BY DEF ChainInv, Chainstates, ChainAssumption
<1>3. b \notin c.failed
    BY <1>1 DEF HeaderRejected
<1>4. b \notin Ancestors[c.tip]
    BY <1>2, AncestorsLower
<1>5. b \notin c.known /\ b \notin c.stored
    BY <1>3, <1>4 DEF Line
<1>6. b # Genesis /\ Parent[b] \in c.known \ c.failed
    BY <1>1, <1>5, HeaderKeepsInv
<1>7. Parent[b] \in Ancestors[c.tip] /\ Height[c.tip] <= Height[Parent[b]]
    BY <1>2, <1>6, ParentBelow DEF Line
<1>8. Parent[b] = c.tip
    BY <1>2, <1>7, LineEnd, Zenon
<1> DEFINE d == AcceptBlock(c, b)
<1>9. /\ d.known = c.known \cup {b} /\ d.stored = c.stored \cup {b}
      /\ d.failed = c.failed /\ d.tip = c.tip
      /\ d.best = IF Height[b] > Height[c.best] THEN b ELSE c.best
    BY <1>5, AcceptFields
<1>10. Ancestors[b] = {b} \cup Ancestors[c.tip]
    BY <1>6, <1>8, AncestorFacts
<1> HIDE DEF d
<1>11. d.best = b
    BY <1>2, <1>9 DEF Line
<1>12. d.known \ d.failed = Ancestors[b] /\ d.stored = d.known
    BY <1>3, <1>9, <1>10 DEF Line
<1> QED  BY <1>6, <1>8, <1>9, <1>11, <1>12 DEF Line, d

\* Activation either moves the tip to the end of the line, or marks the block at its
\* end and falls back to the line that ends in the old tip.
LEMMA ActivateSettlesLine ==
    ASSUME ChainAssumption, NEW c, ChainInv(c), NEW b \in Blocks \ {Genesis}, Parent[b] = c.tip,
           Line(c, b), NEW d \in ActivateBestChain(c)
    PROVE  /\ Line(d, d.tip)
           /\ d.tip = b \/ (d.tip = c.tip /\ d.failed # {})
<1>1. /\ ChainInv(d) /\ Settled(d)
      /\ d.known = c.known /\ d.stored = c.stored /\ Linked(d) = Linked(c)
      /\ c.failed \subseteq d.failed
      /\ \A a \in c.known \ c.failed : Connectable(a) => a \notin d.failed
    BY ActivateKeepsInv, Zenon
<1>2. Ancestors[b] = {b} \cup Ancestors[c.tip] /\ b \in Ancestors[b] /\ c.tip \in Blocks
      /\ c.tip \in Ancestors[c.tip]
    BY AncestorFacts, Zenon DEF ChainInv, Chainstates
<1>3. d.tip \in Linked(d) \ d.failed /\ d.tip \in d.known /\ d.best \in d.known \ d.failed
    BY <1>1, LinkedClosed, Zenon DEF ChainInv
<1>4. ASSUME NEW e \in Blocks, e \in Ancestors[b], d.known \ d.failed = Ancestors[e]
      PROVE  d.tip = e /\ d.best = e
    <2>1. e \in Ancestors[e] /\ d.tip \in Ancestors[e] /\ d.best \in Ancestors[e]
        BY <1>3, <1>4, AncestorFacts, Zenon
    <2>2. e \in Linked(d) \ d.failed
        <3>1. e \in d.stored /\ Ancestors[e] \subseteq d.stored /\ e \notin d.failed
            BY <1>1, <1>4, <2>1, Zenon DEF Line
        <3> QED  BY <1>1, <3>1, Zenon DEF ChainInv
    <2>3. Height[e] <= Height[d.tip] /\ Height[e] <= Height[d.best]
        BY <1>1, <1>4, <2>1, <2>2, Zenon DEF Settled, ChainInv
    <2> QED  BY <2>1, <2>3, LineEnd
<1>5. CASE b \notin d.failed
    <2>1. b \in Linked(d)
        <3>1. b \in d.stored /\ Ancestors[b] \subseteq d.stored
            BY <1>1, <1>2 DEF Line
        <3> QED  BY <1>1, <3>1, Zenon DEF ChainInv
    <2>2. Ancestors[b] \cap d.failed = {}
        BY <1>1, <1>5, <2>1, LinkedClosed
    <2>3. d.known \ d.failed = Ancestors[b]
        BY <1>1, <2>2 DEF Line
    <2> QED  BY <1>1, <1>2, <1>4, <2>3, Zenon DEF Line
<1>6. CASE b \in d.failed
    <2>1. ASSUME NEW a \in Ancestors[c.tip] PROVE a \in d.known \ d.failed
        <3>1. a \in c.known \ c.failed
            BY <1>2, Zenon DEF Line
        <3>2. Connectable(a)
            BY <1>2, AncestorsTransitive DEF Connectable, ChainInv
        <3> QED  BY <1>1, <3>1, <3>2
    <2>2. d.known \ d.failed \subseteq Ancestors[c.tip]
        BY <1>1, <1>2, <1>6 DEF Line
    <2>3. d.known \ d.failed = Ancestors[c.tip]
        BY <2>1, <2>2
    <2>4. d.tip = c.tip /\ d.best = c.tip
        BY <1>2, <1>4, <2>3
    <2> QED  BY <1>1, <1>6, <2>3, <2>4, Zenon DEF Line
<1> QED  BY <1>5, <1>6

\* AcceptBlockHeader and AcceptBlock take nothing back.
LEMMA AcceptingKeeps ==
    ASSUME ChainAssumption, NEW c, ChainInv(c), NEW b \in Blocks, NEW d,
           d.tip = c.tip, d.failed = c.failed, d.known = c.known \cup {b},
           d.stored \in {c.stored, c.stored \cup {b}}, Linked(c) \subseteq Linked(d),
           d.best = IF Height[b] > Height[c.best] THEN b ELSE c.best
    PROVE  Keeps(c, d)
<1>1. Height[c.tip] \in Nat /\ Height[c.best] \in Nat /\ Height[b] \in Nat
    BY DEF ChainInv, Chainstates, ChainAssumption
<1>2. Height[c.tip] <= Height[d.tip] /\ Height[c.best] <= Height[d.best]
    BY <1>1
<1> QED  BY <1>2, Zenon DEF Keeps

\* ActivateBestChain takes nothing back: the old tip connects, so that it is not
\* marked, and the chainstate is settled afterwards.
LEMMA ActivatingKeeps ==
    ASSUME ChainAssumption, NEW c, ChainInv(c), NEW d \in ActivateBestChain(c)
    PROVE  Keeps(c, d) /\ d.known = c.known /\ d.stored = c.stored
<1>1. /\ ChainInv(d) /\ Settled(d)
      /\ d.known = c.known /\ d.stored = c.stored /\ Linked(d) = Linked(c)
      /\ c.failed \subseteq d.failed
    BY ActivateKeepsInv, Zenon
<1>2. c.tip \in Linked(c) /\ Connectable(c.tip) /\ c.best \in c.known \ c.failed
    BY Zenon DEF ChainInv
<1>3. c.tip \in Linked(d) \ d.failed
    BY <1>1, <1>2, Zenon DEF ChainInv
<1>4. Height[c.tip] <= Height[d.tip]
    BY <1>1, <1>3, Zenon DEF Settled
<1>5. d.failed = c.failed => Height[c.best] <= Height[d.best]
    BY <1>1, <1>2, Zenon DEF ChainInv
<1> QED  BY <1>1, <1>4, <1>5, Zenon DEF Keeps

\* What the operations add, and that they take nothing back.
LEMMA ChainGrows == ASSUME ChainAssumption PROVE GrowthContract
<1> SUFFICES ASSUME NEW c, ChainInv(c)
             PROVE  /\ \A b \in Blocks : ~HeaderRejected(c, b) =>
                          LET d == AddToBlockIndex(c, b)
                          IN  Keeps(c, d) /\ d.known = c.known \cup {b} /\ d.stored = c.stored
                    /\ \A b \in Blocks : ~BlockRejected(c, b) =>
                          LET d == AcceptBlock(c, b)
                          IN  /\ Keeps(c, d) /\ d.known = c.known \cup {b}
                              /\ d.stored = c.stored \cup {b}
                    /\ \A d \in ActivateBestChain(c) :
                          Keeps(c, d) /\ d.known = c.known /\ d.stored = c.stored
    BY Zenon DEF GrowthContract
<1>1. c \in Chainstates
    BY Zenon DEF ChainInv
<1>2. ASSUME NEW b \in Blocks
      PROVE  LET d == AddToBlockIndex(c, b)
             IN  Keeps(c, d) /\ d.known = c.known \cup {b} /\ d.stored = c.stored
    <2> DEFINE d == AddToBlockIndex(c, b)
    <2>1. /\ d.known = c.known \cup {b} /\ d.stored = c.stored /\ d.failed = c.failed
          /\ Linked(d) = Linked(c) /\ d.tip = c.tip
          /\ d.best = IF Height[b] > Height[c.best] THEN b ELSE c.best
        BY <1>1, HeaderFields, Zenon
    <2> HIDE DEF d
    <2>2. d.stored \in {c.stored, c.stored \cup {b}} /\ Linked(c) \subseteq Linked(d)
        BY <2>1, Zenon
    <2>3. Keeps(c, d)
        BY <2>1, <2>2, AcceptingKeeps, Zenon
    <2> QED  BY <2>1, <2>3, Zenon DEF d
<1>3. ASSUME NEW b \in Blocks, ~BlockRejected(c, b)
      PROVE  LET d == AcceptBlock(c, b)
             IN  Keeps(c, d) /\ d.known = c.known \cup {b} /\ d.stored = c.stored \cup {b}
    <2>1. CASE b \in c.stored
        <3>1. AcceptBlock(c, b) = AddToBlockIndex(c, b) /\ c.stored = c.stored \cup {b}
            BY <2>1, Zenon DEF AcceptBlock
        <3> QED  BY <1>2, <3>1, Zenon
    <2>2. CASE b \notin c.stored
        <3> DEFINE d == AcceptBlock(c, b)
        <3>1. /\ d.known = c.known \cup {b} /\ d.stored = c.stored \cup {b}
              /\ d.failed = c.failed /\ d.tip = c.tip
              /\ d.best = IF Height[b] > Height[c.best] THEN b ELSE c.best
            BY <2>2, AcceptFields, Zenon
        <3>2. Linked(c) \subseteq Linked(d)
            BY <1>3, AcceptKeepsInv, Zenon
        <3> HIDE DEF d
        <3>3. d.stored \in {c.stored, c.stored \cup {b}}
            BY <3>1, Zenon
        <3>4. Keeps(c, d)
            BY <3>1, <3>2, <3>3, AcceptingKeeps, Zenon
        <3> QED  BY <3>1, <3>4, Zenon DEF d
    <2> QED  BY <2>1, <2>2
<1> QED  BY <1>2, <1>3, ActivatingKeeps, Zenon

\* The block tree and the kernel's operations keep their contract.
THEOREM ChainContractHolds == ChainContract
<1>1. TreeContract
    BY ChainAssumption, AncestorFacts, AncestorAtHeight DEF TreeContract
<1>2. DirectoryContract
    BY ChainAssumption, SyncedInv DEF DirectoryContract
<1>3. LinkedContract
    <2> SUFFICES ASSUME NEW c, ChainInv(c), NEW b \in Linked(c) \ c.failed
                 PROVE  b \in c.known /\ Ancestors[b] \subseteq Linked(c) \ c.failed
        BY Zenon DEF LinkedContract
    <2> QED  BY ChainAssumption, LinkedClosed, Zenon
<1>4. HeaderContract
    <2> SUFFICES ASSUME NEW c, NEW b \in Blocks, ChainInv(c), ~HeaderRejected(c, b)
                 PROVE  LET d == AddToBlockIndex(c, b)
                        IN  /\ ChainInv(d) /\ Linked(d) = Linked(c)
                            /\ d.tip = c.tip /\ d.failed = c.failed
        BY Zenon DEF HeaderContract
    <2>1. c \in Chainstates
        BY Zenon DEF ChainInv
    <2>2. ChainInv(AddToBlockIndex(c, b))
        BY ChainAssumption, HeaderKeepsInv, Zenon
    <2> QED  BY <2>1, <2>2, ChainAssumption, HeaderFields, Zenon
<1>5. AcceptContract
    BY ChainAssumption, AcceptKeepsInv, AcceptExtendsLine, Zenon DEF AcceptContract
<1>6. ActivateContract
    BY ChainAssumption, ActivateKeepsInv, ActivateSettlesLine DEF ActivateContract
<1>7. GrowthContract
    BY ChainAssumption, ChainGrows, Zenon
<1> QED  BY <1>1, <1>2, <1>3, <1>4, <1>5, <1>6, <1>7, Zenon DEF ChainContract

=============================================================================
