------------------------------ MODULE EntryProofs ------------------------------
(***************************************************************************)
(* Proofs about the terms of an entry (which declaration of them is in     *)
(* force, and which quantities the declared grid contains) and about the   *)
(* desk that answers from what was captured of them.                       *)
(*                                                                         *)
(* Why "the" terms in force may be spoken of: in every inventory whose     *)
(* records form a chain, of any length and with any effective instants,    *)
(* exactly one record in effect is current, and it has replaced every      *)
(* other record in effect.  The argument is about paths in a finite graph  *)
(* without cycles: two records of a chain have their root in common, and   *)
(* at the first record that precedes both, one of the two must be that     *)
(* record itself, for a record has one replacement.                        *)
(*                                                                         *)
(* The grids of entry quantities contain exactly what they are said to     *)
(* contain: for every origin, increment, bound and interval, on the        *)
(* boundaries and off them.  All of it rests on two facts about rounding:  *)
(* an index is at most a quotient rounded down, or at least one rounded    *)
(* up, exactly when the quantity at that index is on the right side of the *)
(* dividend.                                                               *)
(*                                                                         *)
(* The desk: what is captured never comes from later than now; a revision  *)
(* of the specification that is selected for an instant is the one that    *)
(* applies then; and a loss limit that is answered is that of the          *)
(* account's history.  The invariants follow from the types, one evidence  *)
(* at a time: the arguments are about what a capture leaves out and what   *)
(* the resolver, and each owner, makes of an evidence that admits to have  *)
(* left nothing out.                                                       *)
(*                                                                         *)
(* An entry that is answered: the quantities are those the account can     *)
(* really enter with.  The binary search over a grid finds the last        *)
(* quantity that fits because a larger one never loses less.  What the     *)
(* owners are told of the terms, the order, the account, the rules and the *)
(* floors is what holds, for none of them answers out of a capture that is *)
(* old or leaves something out; and what they judge of it is at least as   *)
(* strict as what is so.                                                   *)
(*                                                                         *)
(* An entry that is refused: each ground that an owner can give for it is  *)
(* followed back to the fact it is a ground of, be it a rule, the plan, a  *)
(* quote, a claim, a grid, a limit or a floor.  A capture that leaves      *)
(* something out gives no ground, with the two exceptions that are named.  *)
(***************************************************************************)
EXTENDS EntryTruth, FiniteSetTheorems, TLAPS

\* What can be reached over the links, as Descends says it of the records.
Reach(N, L) ==
  {p \in N \X N : \A set \in SUBSET N :
     (\A l \in L : l[1] \in set \cup {p[1]} => l[2] \in set) => p[2] \in set}

\* No path leads back to where it starts.
Acyclic(N, L) == \A a \in N : <<a, a>> \notin Reach(N, L)

-----------------------------------------------------------------------------
(* Paths.                                                                  *)

\* A link is a path.
LEMMA LinkReaches ==
  ASSUME NEW N, NEW L \in SUBSET (N \X N), NEW a \in N, NEW b \in N, <<a, b>> \in L
  PROVE  <<a, b>> \in Reach(N, L)
BY DEF Reach

\* A path goes on over a link.
LEMMA ReachGoesOn ==
  ASSUME NEW N, NEW L \in SUBSET (N \X N), NEW a \in N, NEW b \in N, NEW c \in N,
         <<a, b>> \in Reach(N, L), <<b, c>> \in L
  PROVE  <<a, c>> \in Reach(N, L)
<1> SUFFICES ASSUME NEW set \in SUBSET N,
                    \A l \in L : l[1] \in set \cup {a} => l[2] \in set
             PROVE  c \in set
  BY DEF Reach
<1>1. b \in set
  BY DEF Reach
<1> QED
  BY <1>1

\* A path goes on over a path.
LEMMA ReachIsTransitive ==
  ASSUME NEW N, NEW L \in SUBSET (N \X N), NEW a \in N, NEW b \in N, NEW c \in N,
         <<a, b>> \in Reach(N, L), <<b, c>> \in Reach(N, L)
  PROVE  <<a, c>> \in Reach(N, L)
<1> DEFINE S == {x \in N : <<a, x>> \in Reach(N, L)}
<1>1. ASSUME NEW l \in L, l[1] \in S \cup {b}
      PROVE  l[2] \in S
  <2>1. l[1] \in N /\ l[2] \in N /\ l = <<l[1], l[2]>>
    OBVIOUS
  <2>2. <<a, l[1]>> \in Reach(N, L)
    BY <1>1
  <2>3. <<l[1], l[2]>> \in L
    BY <2>1
  <2> QED
    BY <2>1, <2>2, <2>3, ReachGoesOn
<1>2. S \in SUBSET N
  OBVIOUS
<1>3. c \in S
  <2> HIDE DEF S
  <2> QED
    BY <1>1, <1>2 DEF Reach
<1> QED
  BY <1>3

\* A path ends with a link.
LEMMA ReachEndsWithLink ==
  ASSUME NEW N, NEW L \in SUBSET (N \X N), NEW a \in N, NEW c \in N,
         <<a, c>> \in Reach(N, L)
  PROVE  <<a, c>> \in L \/ \E y \in N : <<a, y>> \in Reach(N, L) /\ <<y, c>> \in L
<1> DEFINE S == {x \in N : <<a, x>> \in L \/ \E y \in N : <<a, y>> \in Reach(N, L) /\ <<y, x>> \in L}
<1>1. ASSUME NEW l \in L, l[1] \in S \cup {a}
      PROVE  l[2] \in S
  <2>1. l[1] \in N /\ l[2] \in N /\ <<l[1], l[2]>> \in L
    OBVIOUS
  <2>2. CASE l[1] = a
    BY <2>1, <2>2
  <2>3. CASE l[1] \in S
    <3>1. <<a, l[1]>> \in Reach(N, L)
      BY <2>1, <2>3, LinkReaches, ReachGoesOn
    <3> QED
      BY <2>1, <3>1
  <2> QED
    BY <1>1, <2>2, <2>3
<1>2. S \in SUBSET N
  OBVIOUS
<1>3. c \in S
  <2> HIDE DEF S
  <2> QED
    BY <1>1, <1>2 DEF Reach
<1> QED
  BY <1>3

\* Of finitely many sets there is one none of the others is part of.
LEMMA SmallestSet ==
  ASSUME NEW N, IsFiniteSet(N), NEW T \in SUBSET (SUBSET N), T # {}
  PROVE  \E s \in T : \A r \in T : ~(r \subseteq s /\ r # s)
<1>1. T \subseteq FiniteSubsetsOf(N)
  BY FS_Subset DEF FiniteSubsetsOf
<1>2. \E s \in T : \A r \in T : <<r, s>> \notin StrictSubsetOrdering(N)
  BY <1>1, FS_StrictSubsetOrderingWellFounded, WFMin
<1> QED
  BY <1>2 DEF StrictSubsetOrdering

\* Of the members of a set one reaches no other ...
LEMMA LastOf ==
  ASSUME NEW N, IsFiniteSet(N), NEW L \in SUBSET (N \X N), Acyclic(N, L),
         NEW X \in SUBSET N, X # {}
  PROVE  \E m \in X : \A x \in X : <<m, x>> \notin Reach(N, L)
<1> DEFINE Ahead(m) == {x \in N : <<m, x>> \in Reach(N, L)}
           T == {Ahead(m) : m \in X}
<1>1. T \in SUBSET (SUBSET N) /\ T # {}
  OBVIOUS
<1>2. PICK s \in T : \A r \in T : ~(r \subseteq s /\ r # s)
  <2> HIDE DEF T
  <2> QED
    BY <1>1, SmallestSet
<1>3. PICK m \in X : s = Ahead(m)
  OBVIOUS
<1>4. ASSUME NEW x \in X, <<m, x>> \in Reach(N, L)
      PROVE  FALSE
  <2>1. Ahead(x) \subseteq Ahead(m)
    BY <1>4, ReachIsTransitive
  <2>2. x \in Ahead(m) /\ x \notin Ahead(x)
    BY <1>4 DEF Acyclic
  <2>3. Ahead(x) \in T
    OBVIOUS
  <2> QED
    BY <2>1, <2>2, <2>3, <1>2, <1>3
<1> QED
  BY <1>4

\* ... and one is reached by no other.
LEMMA FirstOf ==
  ASSUME NEW N, IsFiniteSet(N), NEW L \in SUBSET (N \X N), Acyclic(N, L),
         NEW X \in SUBSET N, X # {}
  PROVE  \E m \in X : \A x \in X : <<x, m>> \notin Reach(N, L)
<1> DEFINE Behind(m) == {x \in N : <<x, m>> \in Reach(N, L)}
           T == {Behind(m) : m \in X}
<1>1. T \in SUBSET (SUBSET N) /\ T # {}
  OBVIOUS
<1>2. PICK s \in T : \A r \in T : ~(r \subseteq s /\ r # s)
  <2> HIDE DEF T
  <2> QED
    BY <1>1, SmallestSet
<1>3. PICK m \in X : s = Behind(m)
  OBVIOUS
<1>4. ASSUME NEW x \in X, <<x, m>> \in Reach(N, L)
      PROVE  FALSE
  <2>1. Behind(x) \subseteq Behind(m)
    BY <1>4, ReachIsTransitive
  <2>2. x \in Behind(m) /\ x \notin Behind(x)
    BY <1>4 DEF Acyclic
  <2>3. Behind(x) \in T
    OBVIOUS
  <2> QED
    BY <2>1, <2>2, <2>3, <1>2, <1>3
<1> QED
  BY <1>4

-----------------------------------------------------------------------------
(* Chains: one node without a link, and no two links to one node.          *)

\* A chain: every node but the root links to another, and no two link to the same.
Chain(N, L, root) ==
  /\ root \in N
  /\ \A a \in N : a # root => \E b \in N : <<a, b>> \in L
  /\ \A l, m \in L : l[2] = m[2] => l = m

\* A node with all it descends from.
Line(N, L, a) == {x \in N : x = a \/ <<a, x>> \in Reach(N, L)}

\* Every node descends from the root.
LEMMA RootIsInEveryLine ==
  ASSUME NEW N, IsFiniteSet(N), NEW L \in SUBSET (N \X N), Acyclic(N, L),
         NEW root, Chain(N, L, root), NEW a \in N
  PROVE  root \in Line(N, L, a)
<1>1. Line(N, L, a) \in SUBSET N /\ Line(N, L, a) # {}
  BY DEF Line
<1>2. PICK m \in Line(N, L, a) : \A x \in Line(N, L, a) : <<m, x>> \notin Reach(N, L)
  BY <1>1, LastOf
<1>3. ASSUME m # root
      PROVE  FALSE
  <2>1. m \in N /\ (m = a \/ <<a, m>> \in Reach(N, L))
    BY DEF Line
  <2>2. PICK b \in N : <<m, b>> \in L
    BY <1>3, <2>1 DEF Chain
  <2>3. <<m, b>> \in Reach(N, L)
    BY <2>1, <2>2, LinkReaches
  <2>4. <<a, b>> \in Reach(N, L)
    BY <2>1, <2>2, <2>3, ReachGoesOn
  <2>5. b \in Line(N, L, a)
    BY <2>4 DEF Line
  <2> QED
    BY <1>2, <2>3, <2>5
<1> QED
  BY <1>3

\* The step before the end of a line is in the line too.
LEMMA LineEndsWithLink ==
  ASSUME NEW N, NEW L \in SUBSET (N \X N), NEW a \in N,
         NEW x \in Line(N, L, a), x # a
  PROVE  \E y \in Line(N, L, a) : <<y, x>> \in L
<1>1. x \in N /\ <<a, x>> \in Reach(N, L)
  BY DEF Line
<1>2. <<a, x>> \in L \/ \E y \in N : <<a, y>> \in Reach(N, L) /\ <<y, x>> \in L
  BY <1>1, ReachEndsWithLink
<1> QED
  BY <1>2 DEF Line

\* Of two nodes of a chain one descends from the other.
LEMMA ChainIsLinear ==
  ASSUME NEW N, IsFiniteSet(N), NEW L \in SUBSET (N \X N), Acyclic(N, L),
         NEW root, Chain(N, L, root), NEW a \in N, NEW b \in N, a # b
  PROVE  <<a, b>> \in Reach(N, L) \/ <<b, a>> \in Reach(N, L)
<1> DEFINE Common == Line(N, L, a) \cap Line(N, L, b)
<1>1. Common \in SUBSET N /\ Common # {}
  <2>1. root \in Line(N, L, a) /\ root \in Line(N, L, b)
    BY RootIsInEveryLine
  <2> QED
    BY <2>1 DEF Line
<1>2. PICK x \in Common : \A y \in Common : <<y, x>> \notin Reach(N, L)
  <2> HIDE DEF Common
  <2> QED
    BY <1>1, FirstOf
<1>3. CASE x = a
  BY <1>3 DEF Line
<1>4. CASE x = b
  BY <1>4 DEF Line
<1>5. CASE x # a /\ x # b
  <2>1. PICK y \in Line(N, L, a) : <<y, x>> \in L
    BY <1>5, LineEndsWithLink
  <2>2. PICK z \in Line(N, L, b) : <<z, x>> \in L
    BY <1>5, LineEndsWithLink
  <2>3. y = z
    <3>1. <<y, x>> = <<z, x>>
      BY <2>1, <2>2 DEF Chain
    <3> QED
      BY <3>1
  <2>4. y \in N /\ x \in N
    BY <1>1 DEF Line
  <2>5. <<y, x>> \in Reach(N, L)
    BY <2>1, <2>4, LinkReaches
  <2> QED
    BY <1>2, <2>3, <2>5
<1> QED
  BY <1>3, <1>4, <1>5

-----------------------------------------------------------------------------
(* The stream.                                                             *)

\* An inventory as it is read: finitely many records, each with an identity of
\* its own, that passed the checks which raise.
Read(inv) ==
  /\ IsFiniteSet(inv.records)
  /\ IsFiniteSet(inv.coverage.roots)
  /\ \A r, s \in inv.records : r.id = s.id => r = s
  /\ Consistent(inv)

\* Finitely many records have finitely many identities.
LEMMA IdsAreFinite ==
  ASSUME NEW inv, IsFiniteSet(inv.records)
  PROVE  IsFiniteSet(Ids(inv))
<1> DEFINE id == [r \in inv.records |-> r.id]
<1>1. Ids(inv) = {id[r] : r \in inv.records}
  BY DEF Ids
<1>2. id \in Surjection(inv.records, {id[r] : r \in inv.records})
  BY DEF Surjection
<1>3. IsFiniteSet({id[r] : r \in inv.records})
  <2> HIDE DEF id
  <2> QED
    BY <1>2, FS_Surjection
<1> QED
  BY <1>1, <1>3

\* Descent is what the links between the records reach ...
LEMMA DescentIsReach ==
  ASSUME NEW inv
  PROVE  Descends(inv) = Reach(Ids(inv), ParentLinks(inv))
BY DEF Descends, Reach

\* ... and a link joins two of them.
LEMMA LinksJoinRecords ==
  ASSUME NEW inv
  PROVE  ParentLinks(inv) \in SUBSET (Ids(inv) \X Ids(inv))
BY DEF ParentLinks, Named, Ids

\* A set that holds two different things has more than one member.
LEMMA TwoAreMoreThanOne ==
  ASSUME NEW S, IsFiniteSet(S), NEW a \in S, NEW b \in S, a # b
  PROVE  Cardinality(S) > 1
<1>1. Cardinality({a}) = 1 /\ IsFiniteSet({a})
  BY FS_Singleton
<1>2. {a} \subseteq S /\ {a} # S
  OBVIOUS
<1>3. Cardinality({a}) < Cardinality(S)
  BY <1>2, FS_Subset, FS_CardinalityType
<1> QED
  BY <1>1, <1>3

\* The records of an inventory that forms a chain make a chain of links.
LEMMA RecordsMakeAChain ==
  ASSUME NEW inv, Read(inv), FormsChain(inv)
  PROVE  \E root : Chain(Ids(inv), ParentLinks(inv), root)
<1>1. PICK first \in inv.records : first.pred = NoPred
  BY DEF FormsChain
<1>2. first.id \in Ids(inv)
  BY DEF Ids
<1>3. ASSUME NEW a \in Ids(inv), a # first.id
      PROVE  \E b \in Ids(inv) : <<a, b>> \in ParentLinks(inv)
  <2>1. PICK r \in inv.records : a = r.id
    BY DEF Ids
  <2>2. r.pred # NoPred
    <3>1. ASSUME r.pred = NoPred
          PROVE  FALSE
      <4>1. r.id \in inv.coverage.roots /\ first.id \in inv.coverage.roots
        BY <1>1, <3>1 DEF Read, Consistent
      <4>2. Cardinality(inv.coverage.roots) > 1
        BY <1>3, <2>1, <4>1, TwoAreMoreThanOne DEF Read
      <4> QED
        BY <4>2 DEF FormsChain, Competing
    <3> QED
      BY <3>1
  <2>3. r.pred.kind = "RECORD" /\ r.pred.id \in Ids(inv)
    BY <2>2 DEF FormsChain
  <2>4. <<r.id, r.pred.id>> \in ParentLinks(inv)
    BY <2>3 DEF ParentLinks, Named
  <2> QED
    BY <2>1, <2>3, <2>4
<1>4. \A l, m \in ParentLinks(inv) : l[2] = m[2] => l = m
  BY DEF FormsChain, Competing
<1> QED
  BY <1>2, <1>3, <1>4 DEF Chain

\* One record is in force at any instant at which the stream says anything at
\* all, and it replaced every other record then in effect: in a chain of any
\* length, whatever the order the records take effect in.
THEOREM OneRecordInForce ==
  ASSUME NEW inv, NEW at, Read(inv), FormsChain(inv), InEffect(inv, at) # {}
  PROVE  \E r \in InEffect(inv, at) :
           /\ Current(inv, at) = {r}
           /\ \A s \in InEffect(inv, at) \ {r} : <<r.id, s.id>> \in Descends(inv)
<1> DEFINE N == Ids(inv)
           L == ParentLinks(inv)
           E == {r.id : r \in InEffect(inv, at)}
<1>1. IsFiniteSet(N) /\ L \in SUBSET (N \X N)
  BY IdsAreFinite, LinksJoinRecords DEF Read
<1>2. Acyclic(N, L)
  <2>1. ASSUME NEW a \in N
        PROVE  <<a, a>> \notin Reach(N, L)
    <3>1. PICK r \in inv.records : a = r.id
      BY DEF Ids
    <3>2. <<r.id, r.id>> \notin Descends(inv)
      BY DEF Read, Consistent
    <3> QED
      BY <3>1, <3>2, DescentIsReach
  <2> QED
    BY <2>1 DEF Acyclic
<1>3. PICK root : Chain(N, L, root)
  BY RecordsMakeAChain
<1>4. E \in SUBSET N /\ E # {} /\ InEffect(inv, at) \subseteq inv.records
  BY DEF InEffect, Ids
<1>5. PICK m \in E : \A x \in E : <<x, m>> \notin Reach(N, L)
  <2> HIDE DEF N, L, E
  <2> QED
    BY <1>1, <1>2, <1>4, FirstOf
<1>6. PICK r \in InEffect(inv, at) : m = r.id
  OBVIOUS
<1>7. ASSUME NEW s \in InEffect(inv, at), s # r
      PROVE  <<r.id, s.id>> \in Descends(inv)
  <2>1. s.id # r.id /\ s.id \in E /\ r.id \in E
    BY <1>4, <1>7 DEF Read
  <2>2. s.id \in N /\ r.id \in N
    BY <1>4, <2>1
  <2>3. <<s.id, r.id>> \in Reach(N, L) \/ <<r.id, s.id>> \in Reach(N, L)
    <3> HIDE DEF N, L, E
    <3> QED
      BY <1>1, <1>2, <1>3, <2>1, <2>2, ChainIsLinear
  <2>4. <<s.id, r.id>> \notin Reach(N, L)
    BY <1>5, <1>6, <2>1
  <2> QED
    BY <2>3, <2>4, DescentIsReach
<1>8. r \in Current(inv, at)
  <2>1. \A s \in InEffect(inv, at) : <<s.id, r.id>> \notin Descends(inv)
    BY <1>5, <1>6, DescentIsReach
  <2> QED
    BY <2>1 DEF Current
<1>9. ASSUME NEW s \in Current(inv, at)
      PROVE  s = r
  <2>1. s \in InEffect(inv, at) /\ <<r.id, s.id>> \notin Descends(inv)
    BY DEF Current
  <2> QED
    BY <1>7, <2>1
<1> QED
  BY <1>7, <1>8, <1>9

\* What resolves resolves to one thing: whenever the terms are said to be in
\* force, the record they are read from is the only current one, it is a
\* declaration that holds at the boundary, and no record in effect replaced it.
THEOREM TermsInForceAreUnique ==
  ASSUME NEW inv, NEW at, Read(inv), Resolves(inv, at)
  PROVE  /\ Current(inv, at) = {InForce(inv, at)}
         /\ InForce(inv, at).kind = "DECLARE"
         /\ Within(InForce(inv, at).from, InForce(inv, at).until, at)
         /\ \A s \in InEffect(inv, at) : <<s.id, InForce(inv, at).id>> \notin Descends(inv)
<1>1. PICK d \in Current(inv, at) : d.kind = "DECLARE" /\ Within(d.from, d.until, at)
  BY DEF Resolves
<1>2. InEffect(inv, at) # {} /\ FormsChain(inv)
  BY <1>1 DEF Current, Resolves
<1>3. PICK r \in InEffect(inv, at) : Current(inv, at) = {r}
  BY <1>2, OneRecordInForce
<1>4. r = d /\ InForce(inv, at) = d
  BY <1>1, <1>3 DEF InForce
<1> QED
  BY <1>1, <1>3, <1>4 DEF Current

-----------------------------------------------------------------------------
(* The quantities of a grid.                                               *)

\* The grids the owners hand on: positive increment, indices from zero on, and at
\* least one quantity.
IsGrid(d) ==
  /\ d.kind = "REGULAR_GRID"
  /\ d.origin \in Int /\ d.step \in Int /\ d.step > 0
  /\ d.first \in Nat
  /\ d.last = Open \/ (d.last \in Nat /\ d.first <= d.last)

\* d includes quantity q.
Includes(d, q) ==
  /\ ~IsEmpty(d)
  /\ \E i \in Int : d.first <= i /\ (d.last = Open \/ i <= d.last) /\ q = At(d, i)

-----------------------------------------------------------------------------
(* Rounding.                                                               *)

\* A product of what is not negative is not negative.
LEMMA ProductOfNonnegatives ==
  ASSUME NEW x \in Int, NEW y \in Int, x >= 0, y >= 0
  PROVE  x * y >= 0
OBVIOUS

\* Multiplying by a positive increment keeps the order.
LEMMA OrderTimesStep ==
  ASSUME NEW x \in Int, NEW y \in Int, NEW b \in Int, b > 0
  PROVE  x <= y <=> x * b <= y * b
<1>1. ASSUME x <= y
      PROVE  x * b <= y * b
  <2>1. (y - x) * b >= 0
    BY <1>1, ProductOfNonnegatives
  <2>2. (y - x) * b = y * b - x * b
    OBVIOUS
  <2> QED
    BY <2>1, <2>2
<1>2. ASSUME y < x
      PROVE  y * b < x * b
  <2>1. (x - y - 1) * b >= 0
    BY <1>2, ProductOfNonnegatives
  <2>2. (x - y - 1) * b = x * b - y * b - b
    OBVIOUS
  <2> QED
    BY <2>1, <2>2
<1> QED
  BY <1>1, <1>2

\* The quotient rounded down, and what it leaves.
LEMMA Quotient ==
  ASSUME NEW a \in Int, NEW b \in Int, b > 0
  PROVE  /\ a \div b \in Int /\ (a \div b) * b \in Int
         /\ (a \div b) * b <= a /\ a < (a \div b) * b + b
OBVIOUS

\* An index is at most the quotient rounded down when its multiple is at most the dividend.
LEMMA RoundedDown ==
  ASSUME NEW a \in Int, NEW b \in Int, b > 0, NEW i \in Int
  PROVE  a \div b \in Int /\ (i <= a \div b <=> i * b <= a)
<1> DEFINE k == a \div b
<1>1. k \in Int /\ k * b <= a /\ a < (k + 1) * b
  OBVIOUS
<1> HIDE DEF k
<1>2. ASSUME i <= k
      PROVE  i * b <= a
  BY <1>1, <1>2, OrderTimesStep
<1>3. ASSUME k + 1 <= i
      PROVE  a < i * b
  <2>1. (k + 1) * b <= i * b
    BY <1>1, <1>3, OrderTimesStep
  <2> QED
    BY <1>1, <2>1
<1>4. i <= k <=> i * b <= a
  BY <1>1, <1>2, <1>3
<1> QED
  BY <1>1, <1>4 DEF k

\* It is at least the quotient rounded up when its multiple is at least the dividend.
LEMMA RoundedUp ==
  ASSUME NEW a \in Int, NEW b \in Int, b > 0, NEW i \in Int
  PROVE  CeilDiv(a, b) \in Int /\ (CeilDiv(a, b) <= i <=> a <= i * b)
<1>1. (-a) \div b \in Int /\ (-i <= (-a) \div b <=> (-i) * b <= -a)
  BY RoundedDown
<1>2. (-i) * b = -(i * b)
  OBVIOUS
<1> QED
  BY <1>1, <1>2 DEF CeilDiv

-----------------------------------------------------------------------------
(* Grids and their parts.                                                  *)

\* A part between two indices contains what d contains between them.
LEMMA SliceIncludes ==
  ASSUME NEW d, IsGrid(d), NEW first \in Nat, NEW last, last = Open \/ last \in Int,
         NEW q \in Int
  PROVE  Includes(Slice(d, first, last), q) <=>
           \E i \in Int : first <= i /\ (last = Open \/ i <= last) /\ q = At(d, i)
<1>1. CASE last # Open /\ last < first
  <2>1. ~ \E i \in Int : first <= i /\ (last = Open \/ i <= last) /\ q = At(d, i)
    BY <1>1
  <2> QED
    BY <1>1, <2>1 DEF Slice, Includes, IsEmpty, EmptyGrid
<1>2. CASE ~(last # Open /\ last < first)
  BY <1>2 DEF Slice, Grid, Includes, IsEmpty, At
<1> QED
  BY <1>1, <1>2

\* The empty grid contains nothing.
LEMMA NothingInEmpty ==
  ASSUME NEW q
  PROVE  ~Includes(EmptyGrid, q)
BY DEF Includes, IsEmpty, EmptyGrid

\* Where an index stands against a bound, told by its quantity.
LEMMA IndexAgainstBound ==
  ASSUME NEW d, IsGrid(d), NEW bound \in Int, NEW i \in Int
  PROVE  /\ (bound - d.origin) \div d.step \in Int
         /\ CeilDiv(bound - d.origin, d.step) \in Int
         /\ i <= (bound - d.origin) \div d.step <=> At(d, i) <= bound
         /\ CeilDiv(bound - d.origin, d.step) <= i <=> bound <= At(d, i)
<1>1. bound - d.origin \in Int /\ d.step \in Int /\ d.step > 0 /\ d.origin \in Int
  BY DEF IsGrid
<1>2. i * d.step \in Int
  BY <1>1
<1>3. /\ (bound - d.origin) \div d.step \in Int
      /\ i <= (bound - d.origin) \div d.step <=> i * d.step <= bound - d.origin
  BY <1>1, RoundedDown
<1>4. /\ CeilDiv(bound - d.origin, d.step) \in Int
      /\ CeilDiv(bound - d.origin, d.step) <= i <=> bound - d.origin <= i * d.step
  BY <1>1, RoundedUp
<1> QED
  BY <1>1, <1>2, <1>3, <1>4 DEF At

-----------------------------------------------------------------------------
(* The theorems.                                                           *)

\* The descriptor contains exactly the quantities the provider's terms allow: positive
\* ones, from the minimum to the maximum (both included), at whole increments from the
\* origin, wherever the origin lies and whether or not the bounds are on the grid.
THEOREM DescriptorIsExact ==
  ASSUME NEW g, WellFormedTerms(g), g.origin \in Int, g.step \in Int, g.min \in Int,
         g.max.kind \in {"FINITE", "UNBOUNDED"}, g.max.kind = "FINITE" => g.max.value \in Int,
         NEW q \in Int
  PROVE  Includes(Descriptor(g), q) <=>
           /\ q > 0 /\ g.min <= q
           /\ g.max.kind = "FINITE" => q <= g.max.value
           /\ \E j \in Int : q = g.origin + j * g.step
<1> DEFINE k == g.origin \div g.step
           residue == g.origin - k * g.step
           first == Larger(CeilDiv(g.min - residue, g.step), ((-residue) \div g.step) + 1)
           Q(i) == residue + i * g.step
           base == Grid(residue, g.step, first, Open)
<1>1. g.step > 0
  BY DEF WellFormedTerms
<1>2. k \in Int /\ k * g.step \in Int /\ k * g.step <= g.origin /\ g.origin < k * g.step + g.step
  BY <1>1, Quotient
<1>3. residue \in Int /\ 0 <= residue /\ residue < g.step
  BY <1>2
<1>4. \A i \in Int : i * g.step \in Int /\ Q(i) \in Int
  BY <1>3
<1>5. ((-residue) \div g.step) + 1 \in Nat
  <2>1. -1 <= (-residue) \div g.step <=> (-1) * g.step <= -residue
    BY <1>1, <1>3, RoundedDown
  <2>2. (-residue) \div g.step \in Int
    BY <1>1, <1>3, RoundedDown
  <2> QED
    BY <1>3, <2>1, <2>2
<1> HIDE DEF residue, k
<1>6. CeilDiv(g.min - residue, g.step) \in Int
  BY <1>1, <1>3, RoundedUp
<1>7. first \in Nat
  BY <1>5, <1>6 DEF Larger
<1>8. \A i \in Int : first <= i <=> Q(i) > 0 /\ g.min <= Q(i)
  <2> SUFFICES ASSUME NEW i \in Int
               PROVE  first <= i <=> Q(i) > 0 /\ g.min <= Q(i)
    OBVIOUS
  <2>1. CeilDiv(g.min - residue, g.step) <= i <=> g.min - residue <= i * g.step
    BY <1>1, <1>3, RoundedUp
  <2>2. (-residue) \div g.step \in Int /\ (i <= (-residue) \div g.step <=> i * g.step <= -residue)
    BY <1>1, <1>3, RoundedDown
  <2>3. first <= i <=> /\ CeilDiv(g.min - residue, g.step) <= i
                       /\ ((-residue) \div g.step) + 1 <= i
    BY <1>5, <1>6, <2>2 DEF Larger
  <2>4. i * g.step \in Int
    BY <1>4
  <2> QED
    BY <1>3, <1>5, <1>6, <2>1, <2>2, <2>3, <2>4
<1>9. (\E i \in Int : q = Q(i)) <=> \E j \in Int : q = g.origin + j * g.step
  <2>1. ASSUME NEW i \in Int
        PROVE  Q(i) = g.origin + (i - k) * g.step
    <3>1. (i - k) * g.step = i * g.step - k * g.step
      BY <1>2
    <3> QED
      BY <1>2, <1>3, <1>4, <3>1 DEF residue
  <2>2. ASSUME NEW j \in Int
        PROVE  g.origin + j * g.step = Q(j + k)
    <3>1. (j + k) * g.step = j * g.step + k * g.step
      BY <1>2
    <3>2. j * g.step \in Int
      BY <1>4
    <3> QED
      BY <1>2, <1>3, <3>1, <3>2 DEF residue
  <2>3. ASSUME NEW i \in Int, q = Q(i)
        PROVE  \E j \in Int : q = g.origin + j * g.step
    <3>1. i - k \in Int
      BY <1>2
    <3> QED
      BY <2>1, <2>3, <3>1
  <2>4. ASSUME NEW j \in Int, q = g.origin + j * g.step
        PROVE  \E i \in Int : q = Q(i)
    <3>1. j + k \in Int
      BY <1>2
    <3> QED
      BY <2>2, <2>4, <3>1
  <2> QED
    BY <2>3, <2>4
<1>10. IsGrid(base)
  <2> HIDE DEF first
  <2> QED
    BY <1>1, <1>3, <1>7 DEF IsGrid, Grid
<1>11. \A i : At(base, i) = Q(i)
  BY DEF At, Grid
<1>12. CASE g.max.kind = "UNBOUNDED"
  <2>1. Descriptor(g) = base
    BY <1>12 DEF Descriptor, residue, k
  <2>2. Includes(base, q) <=> \E i \in Int : first <= i /\ q = Q(i)
    <3> HIDE DEF first
    <3> QED
      BY <1>11 DEF Includes, IsEmpty, Grid, Open
  <2> QED
    BY <1>8, <1>9, <1>12, <2>1, <2>2
<1>13. CASE g.max.kind = "FINITE"
  <2> DEFINE last == (g.max.value - residue) \div g.step
  <2>1. Descriptor(g) = IF last < first THEN EmptyGrid ELSE Grid(residue, g.step, first, last)
    BY <1>13 DEF Descriptor, residue, k
  <2>2. last \in Int /\ \A i \in Int : i <= last <=> i * g.step <= g.max.value - residue
    BY <1>1, <1>3, <1>13, RoundedDown
  <2>3. \A i \in Int : i <= last <=> Q(i) <= g.max.value
    BY <1>3, <1>4, <1>13, <2>2
  <2> HIDE DEF last, first
  <2>4. Includes(Descriptor(g), q) <=> \E i \in Int : first <= i /\ i <= last /\ q = Q(i)
    <3>1. CASE last < first
      BY <1>7, <2>1, <2>2, <3>1, NothingInEmpty
    <3>2. CASE ~(last < first)
      <4>1. last # Open
        BY <1>7, <2>2, <3>2 DEF Open
      <4> QED
        BY <2>1, <3>2, <4>1 DEF Includes, IsEmpty, Grid, At
    <3> QED
      BY <3>1, <3>2
  <2> QED
    BY <1>8, <1>9, <1>13, <2>3, <2>4
<1> QED
  BY <1>12, <1>13

\* What the risk function supports and what lies beyond it share the domain out: no
\* quantity is lost between them and none is counted twice, also on an open grid.
THEOREM SupportIsAPartition ==
  ASSUME NEW d, IsGrid(d), NEW maximum \in Int, NEW q \in Int
  PROVE  /\ Includes(Supported(d, maximum), q) <=> Includes(d, q) /\ q <= maximum
         /\ Includes(BeyondSupport(d, maximum), q) <=> Includes(d, q) /\ q > maximum
<1> DEFINE bound == (maximum - d.origin) \div d.step
           last == IF d.last = Open THEN bound ELSE Smaller(d.last, bound)
<1>1. bound \in Int /\ \A i \in Int : i <= bound <=> At(d, i) <= maximum
  BY IndexAgainstBound
<1>2. ~IsEmpty(d) /\ d.first \in Nat /\ (d.last = Open \/ d.last \in Nat)
  BY DEF IsGrid, IsEmpty
<1>3. \A i \in Int : At(d, i) \in Int
  BY DEF IsGrid, At
<1>4. Includes(Supported(d, maximum), q) <=> Includes(d, q) /\ q <= maximum
  <2>1. Supported(d, maximum) = IF last < d.first THEN EmptyGrid ELSE Slice(d, d.first, last)
    BY <1>2 DEF Supported
  <2>2. last \in Int
    BY <1>1, <1>2 DEF Smaller
  <2>3. \A i \in Int : i <= last <=> (d.last = Open \/ i <= d.last) /\ i <= bound
    BY <1>1, <1>2 DEF Smaller
  <2> HIDE DEF last, bound
  <2>4. Includes(Supported(d, maximum), q) <=>
          \E i \in Int : d.first <= i /\ i <= last /\ q = At(d, i)
    <3>1. CASE last < d.first
      BY <1>2, <2>1, <2>2, <3>1, NothingInEmpty
    <3>2. CASE ~(last < d.first)
      <4>1. last # Open
        BY <1>2, <2>2, <3>2 DEF Open
      <4> QED
        BY <1>2, <2>1, <2>2, <3>2, <4>1, SliceIncludes
    <3> QED
      BY <3>1, <3>2
  <2> QED
    BY <1>1, <1>2, <2>3, <2>4 DEF Includes
<1>5. Includes(BeyondSupport(d, maximum), q) <=> Includes(d, q) /\ q > maximum
  <2> DEFINE first == Larger(d.first, bound + 1)
  <2>1. BeyondSupport(d, maximum) = Slice(d, first, d.last)
    BY <1>2 DEF BeyondSupport
  <2>2. first \in Nat /\ \A i \in Int : first <= i <=> d.first <= i /\ bound < i
    BY <1>1, <1>2 DEF Larger
  <2> HIDE DEF first, bound
  <2>3. Includes(BeyondSupport(d, maximum), q) <=>
          \E i \in Int : first <= i /\ (d.last = Open \/ i <= d.last) /\ q = At(d, i)
    BY <1>2, <2>1, <2>2, SliceIncludes
  <2>4. \A i \in Int : bound < i <=> At(d, i) > maximum
    BY <1>1, <1>3
  <2> QED
    BY <1>2, <2>2, <2>3, <2>4 DEF Includes
<1> QED
  BY <1>4, <1>5

\* Clipping a bounded domain to an interval and taking the pieces outside it share the
\* domain out too, bounds on the grid belonging to the inside.
THEOREM ClippingIsExact ==
  ASSUME NEW d, IsGrid(d), d.last # Open,
         NEW lo \in Int, NEW hi \in Int, NEW q \in Int
  PROVE  /\ Includes(Clip(d, Interval(lo, hi)), q) <=> Includes(d, q) /\ lo <= q /\ q <= hi
         /\ (\E part \in Outside(d, Interval(lo, hi)) : Includes(part, q)) <=>
              Includes(d, q) /\ (q < lo \/ hi < q)
<1> DEFINE low == CeilDiv(lo - d.origin, d.step)
           high == (hi - d.origin) \div d.step
<1>1. low \in Int /\ \A i \in Int : low <= i <=> lo <= At(d, i)
  BY IndexAgainstBound
<1>2. high \in Int /\ \A i \in Int : i <= high <=> At(d, i) <= hi
  BY IndexAgainstBound
<1>3. ~IsEmpty(d) /\ d.first \in Nat /\ d.last \in Nat /\ d.first <= d.last
  BY DEF IsGrid, IsEmpty
<1>4. /\ Interval(lo, hi).min = lo /\ Interval(lo, hi).max = hi
      /\ Interval(lo, hi).kind # "EMPTY"
  BY DEF Interval
<1>5. \A i \in Int : At(d, i) \in Int
  BY DEF IsGrid, At
<1>6. Includes(Clip(d, Interval(lo, hi)), q) <=> Includes(d, q) /\ lo <= q /\ q <= hi
  <2> DEFINE first == Larger(d.first, low)
             last == Smaller(d.last, high)
  <2>1. Clip(d, Interval(lo, hi)) = IF first > last THEN EmptyGrid ELSE Slice(d, first, last)
    BY <1>3, <1>4 DEF Clip
  <2>2. /\ first \in Nat /\ last \in Int
        /\ \A i \in Int : first <= i <=> d.first <= i /\ low <= i
        /\ \A i \in Int : i <= last <=> i <= d.last /\ i <= high
    BY <1>1, <1>2, <1>3 DEF Larger, Smaller
  <2> HIDE DEF first, last, low, high
  <2>3. Includes(Clip(d, Interval(lo, hi)), q) <=>
          \E i \in Int : first <= i /\ i <= last /\ q = At(d, i)
    <3>1. CASE first > last
      BY <2>1, <2>2, <3>1, NothingInEmpty
    <3>2. CASE ~(first > last)
      <4>1. last # Open
        BY <2>2, <3>2 DEF Open
      <4> QED
        BY <2>1, <2>2, <3>2, <4>1, SliceIncludes
    <3> QED
      BY <3>1, <3>2
  <2> QED
    BY <1>1, <1>2, <1>3, <2>2, <2>3 DEF Includes
<1>7. (\E part \in Outside(d, Interval(lo, hi)) : Includes(part, q)) <=>
        Includes(d, q) /\ (q < lo \/ hi < q)
  <2> DEFINE last == Smaller(d.last, low - 1)
             first == Larger(d.first, high + 1)
             pieces == {<<d.first, last>>, <<first, d.last>>}
  <2>1. Outside(d, Interval(lo, hi)) =
          {Slice(d, p[1], p[2]) : p \in {p \in pieces : p[1] <= p[2]}}
    BY <1>4 DEF Outside
  <2>2. /\ last \in Int /\ first \in Nat
        /\ \A i \in Int : i <= last <=> i <= d.last /\ i < low
        /\ \A i \in Int : first <= i <=> d.first <= i /\ high < i
    BY <1>1, <1>2, <1>3 DEF Larger, Smaller
  <2> HIDE DEF first, last, low, high
  <2>3. (\E part \in Outside(d, Interval(lo, hi)) : Includes(part, q)) <=>
          \/ d.first <= last /\ Includes(Slice(d, d.first, last), q)
          \/ first <= d.last /\ Includes(Slice(d, first, d.last), q)
    <3>1. (\E part \in Outside(d, Interval(lo, hi)) : Includes(part, q)) <=>
            \E p \in pieces : p[1] <= p[2] /\ Includes(Slice(d, p[1], p[2]), q)
      <4> HIDE DEF pieces
      <4> QED
        BY <2>1, Zenon
    <3> QED
      BY <3>1
  <2>4. d.first <= last /\ Includes(Slice(d, d.first, last), q) <=>
          \E i \in Int : d.first <= i /\ i <= last /\ q = At(d, i)
    <3>1. CASE d.first <= last
      <4>1. last # Open
        BY <1>3, <2>2, <3>1 DEF Open
      <4> QED
        BY <1>3, <2>2, <3>1, <4>1, SliceIncludes
    <3>2. CASE ~(d.first <= last)
      BY <1>3, <2>2, <3>2
    <3> QED
      BY <3>1, <3>2
  <2>5. first <= d.last /\ Includes(Slice(d, first, d.last), q) <=>
          \E i \in Int : first <= i /\ i <= d.last /\ q = At(d, i)
    <3>1. CASE first <= d.last
      BY <1>3, <2>2, <3>1, SliceIncludes
    <3>2. CASE ~(first <= d.last)
      BY <1>3, <2>2, <3>2
    <3> QED
      BY <3>1, <3>2
  <2>6. \A i \in Int : (i < low <=> At(d, i) < lo) /\ (high < i <=> hi < At(d, i))
    BY <1>1, <1>2, <1>5
  <2> QED
    BY <1>3, <2>2, <2>3, <2>4, <2>5, <2>6 DEF Includes
<1> QED
  BY <1>6, <1>7

-----------------------------------------------------------------------------
(* The desk.                                                               *)

\* The desk keeps to its types: nothing is captured, published or admitted later
\* than now.
THEOREM DeskIsTyped == Spec => []TypeOK
<1>1. Init => TypeOK
  BY BoundariesAreCounted DEF Init, TypeOK, Unposted, Packets
<1>2. ASSUME TypeOK, [Next]_vars
      PROVE  TypeOK'
  <2>1. world' = world /\ Packets' = Packets /\ now \in 0 .. LastInstant /\ now \in Int
    BY <1>2, BoundariesAreCounted DEF TypeOK, Next, Publish, Capture, Admit, Tick, vars, Packets
  <2>2. ASSUME NEW p \in world.menu, Publish(p)
        PROVE  TypeOK'
    BY <1>2, <2>1, <2>2 DEF TypeOK, Publish, Unposted
  <2>3. ASSUME NEW s \in Packets, Capture(s)
        PROVE  TypeOK'
    <3>1. \A x \in Packets : taken'[x] \in {None} \cup 0 .. now
      BY <1>2, <2>1, <2>3 DEF TypeOK, Capture
    <3> QED
      BY <1>2, <2>1, <2>3, <3>1 DEF TypeOK, Capture
  <2>4. CASE Admit
    <3>1. \A s \in Packets : taken[s] \in 0 .. now
      BY <1>2, <2>4 DEF TypeOK, Admit
    <3> QED
      BY <1>2, <2>1, <2>4, <3>1 DEF TypeOK, Admit
  <2>5. CASE Tick
    BY <1>2, <2>1, <2>5, BoundariesAreCounted DEF TypeOK, Tick, Unposted
  <2>6. CASE UNCHANGED vars
    BY <1>2, <2>6 DEF TypeOK, vars, Packets
  <2> QED
    BY <1>2, <2>2, <2>3, <2>4, <2>5, <2>6 DEF Next
<1> QED
  BY <1>1, <1>2, PTL DEF Spec

-----------------------------------------------------------------------------
(* The selection of a revision.                                            *)

\* Of a set with at most one member, CHOOSE finds the one that is there.
LEMMA AtMostOne ==
  ASSUME NEW S, IsFiniteSet(S), Cardinality(S) <= 1, NEW x \in S
  PROVE  S = {x}
<1>1. Cardinality({x}) = 1 /\ {x} \subseteq S
  BY FS_Singleton
<1> QED
  BY <1>1, FS_Subset, FS_CardinalityType

\* What stands of an interpretable report, original by original, is what nobody
\* corrected, read assertion by assertion.
LEMMA StandingIsUncorrected ==
  ASSUME NEW report, IsFiniteSet(report.assertions), Interpretable(report), CorrectionsFit(report)
  PROVE  { Standing(report, a) : a \in Originals(report) } =
         { Asserted(a) : a \in { a \in report.assertions :
                                   \A c \in report.assertions : c.says.kind = "CORRECTS" => c.says.target # a.id } }
<1> DEFINE U == { a \in report.assertions :
                    \A c \in report.assertions : c.says.kind = "CORRECTS" => c.says.target # a.id }
<1>1. ASSUME NEW a \in report.assertions
      PROVE  a \in U <=> CorrectionsOf(report, a) = {}
  BY DEF CorrectionsOf, Corrections
<1>2. ASSUME NEW a \in report.assertions, NEW c \in CorrectionsOf(report, a)
      PROVE  Standing(report, a) = c.says.by
  <2>1. CorrectionsOf(report, a) \subseteq report.assertions /\ Cardinality(CorrectionsOf(report, a)) <= 1
    BY DEF Interpretable, CorrectionsOf, Corrections
  <2>2. CorrectionsOf(report, a) = {c}
    BY <2>1, AtMostOne, FS_Subset
  <2> QED
    BY <2>2 DEF Standing
<1>3. ASSUME NEW a \in Originals(report)
      PROVE  \E b \in U : Asserted(b) = Standing(report, a)
  <2>1. a \in report.assertions /\ a.says.kind # "CORRECTS"
    BY DEF Originals, Corrections
  <2>2. CASE CorrectionsOf(report, a) = {}
    BY <2>1, <2>2, <1>1 DEF Standing, Asserted
  <2>3. ASSUME NEW c \in CorrectionsOf(report, a)
        PROVE  c \in U /\ Asserted(c) = Standing(report, a)
    <3>1. c \in Corrections(report) /\ c \in report.assertions /\ c.says.kind = "CORRECTS"
      BY DEF CorrectionsOf, Corrections
    <3> QED
      BY <3>1, <2>1, <1>1, <1>2 DEF Interpretable, Asserted
  <2> QED
    BY <2>2, <2>3
<1>4. ASSUME NEW b \in U
      PROVE  \E a \in Originals(report) : Asserted(b) = Standing(report, a)
  <2>1. CASE b.says.kind # "CORRECTS"
    BY <2>1, <1>1 DEF Originals, Corrections, Standing, Asserted
  <2>2. CASE b.says.kind = "CORRECTS"
    <3>1. b \in Corrections(report)
      BY <2>2 DEF Corrections
    <3>2. PICK a \in report.assertions : a.id = b.says.target
      BY <3>1 DEF CorrectionsFit
    <3>3. b \in CorrectionsOf(report, a)
      BY <3>1, <3>2 DEF CorrectionsOf
    <3>4. a \in Originals(report)
      BY <3>3 DEF Interpretable, Originals
    <3> QED
      BY <3>3, <3>4, <1>2, <2>2 DEF Asserted
  <2> QED
    BY <2>1, <2>2
<1> QED
  BY <1>3, <1>4

\* What a function makes of a finite set is finite.
LEMMA ImageIsFinite ==
  ASSUME NEW S, IsFiniteSet(S), NEW f, NEW T, \A y \in T : \E x \in S : y = f[x]
  PROVE  IsFiniteSet(T)
<1> DEFINE image == { f[x] : x \in S }
           g == [x \in S |-> f[x]]
<1>1. g \in Surjection(S, image)
  BY DEF Surjection
<1>2. IsFiniteSet(image)
  BY <1>1, FS_Surjection
<1> QED
  BY <1>2, FS_Subset

\* Finitely much has been published at any time.
LEMMA AssertionsAreFinite ==
  ASSUME world \in Worlds, NEW t
  PROVE  IsFiniteSet(Assertions(t))
<1> DEFINE P == Posted("assertion", t)
           item == [p \in P |-> [id |-> p.item.id, published |-> posted[p], says |-> p.item.says]]
           later == { item[p] : p \in P }
<1>1. IsFiniteSet(P) /\ IsFiniteSet(world.assertions)
  BY WorldsAreFinite, FS_Subset DEF Posted
<1>2. Assertions(t) = world.assertions \cup later
  BY DEF Assertions
<1>3. \A y \in later : \E p \in P : y = item[p]
  OBVIOUS
<1> HIDE DEF later, item, P
<1>4. IsFiniteSet(later)
  BY <1>1, <1>3, ImageIsFinite
<1> QED
  BY <1>1, <1>2, <1>4, FS_Union

\* Whatever is asserted of a revision, the revision exists.
LEMMA AssertedRevisionsExist ==
  ASSUME world \in Worlds, NEW t, NEW a \in Assertions(t), Asserted(a) # None
  PROVE  Named2(Asserted(a)) \subseteq DOMAIN world.revisions
<1> DEFINE later == { p.item.says : p \in { p \in world.menu : p.topic = "assertion" } }
           said == later \cup { b.says : b \in world.assertions }
<1>1. a.says \in said
  BY DEF Assertions, Posted
<1>2. \A says \in said :
        (IF says.kind = "CORRECTS" THEN says.by ELSE says) = None
        \/ Named2(IF says.kind = "CORRECTS" THEN says.by ELSE says) \subseteq DOMAIN world.revisions
  BY WorldsAreFinite
<1> HIDE DEF said, later
<1> QED
  BY <1>1, <1>2 DEF Asserted

\* A report that is complete through now has left nothing out.
LEMMA CompleteReportsTellAll ==
  ASSUME TypeOK, LastInstant \in Nat, world.asked = "entry", taken["financial"] # None,
         Lifecycle(taken["financial"]).completeness = "COMPLETE",
         ~(Lifecycle(taken["financial"]).cutoff < now)
  PROVE  Lifecycle(taken["financial"]).assertions = Assertions(now)
<1>1. now \in Int /\ taken["financial"] \in Int /\ taken["financial"] <= now
  BY DEF TypeOK, Packets
<1>2. ~Blurred("silence") /\ ~Blurred("assertions")
  BY DEF Lifecycle
<1>3. taken["financial"] = now
  BY <1>1, <1>2 DEF Lifecycle
<1> QED
  BY <1>2, <1>3 DEF Lifecycle

\* What a report that tells everything selects for an instant is what applies then.
LEMMA FullReportSelectsTruly ==
  ASSUME TypeOK, NEW report, LifecycleAdmissible(report, now), NEW t \in Int,
         report.assertions = Assertions(now), Interpretable(report),
         \A r \in DOMAIN report.revisions : report.revisions[r] = world.revisions[r],
         ~Contradicts(report, Active(report, t), t)
  PROVE  TrueRevisions(t) = Positive(Active(report, t)) \ Displaced(Active(report, t))
<1> DEFINE active == Active(report, t)
<1>1. IsFiniteSet(report.assertions)
  BY AssertionsAreFinite DEF TypeOK
<1>2. active = Standings(t)
  BY <1>1, StandingIsUncorrected DEF Active, Standings, LifecycleAdmissible, Within
<1>3. ASSUME NEW s \in active
      PROVE  Named2(s) \subseteq DOMAIN world.revisions /\ Named2(s) \subseteq DOMAIN report.revisions
  <2>1. PICK a \in Assertions(now) : s = Asserted(a) /\ s # None
    BY <1>2 DEF Standings
  <2>2. s \in Statements(report)
    BY <2>1 DEF Asserted, Statements, Originals, Corrections
  <2> QED
    BY <2>1, <2>2, AssertedRevisionsExist DEF TypeOK, LifecycleAdmissible
<1>4. ASSUME NEW r \in Positive(active)
      PROVE  /\ r \in DOMAIN world.revisions /\ world.revisions[r].effective <= t
             /\ \E s \in active : \/ s.kind = "APPLIES" /\ s.revision = r
                                  \/ s.kind = "SUPERSEDES" /\ s.after = r
             /\ ~\E s \in active : s.kind = "WITHDRAWS" /\ s.revision = r
  <2>1. PICK s \in active : \/ s.kind = "APPLIES" /\ s.revision = r
                            \/ s.kind = "SUPERSEDES" /\ s.after = r
    BY DEF Positive, Replacing
  <2>2. r \in Named2(s)
    BY <2>1 DEF Named2
  <2>3. r \in DOMAIN world.revisions /\ r \in DOMAIN report.revisions
    BY <2>2, <1>3
  <2>4. ~(report.revisions[r].effective > t) /\ r \notin Withdrawn(active)
    BY DEF Contradicts
  <2>5. world.revisions[r].effective \in Int
    BY <2>3, WorldsAreFinite DEF TypeOK
  <2> QED
    BY <2>1, <2>3, <2>4, <2>5 DEF Withdrawn
<1>5. ASSUME NEW r
      PROVE  r \in TrueRevisions(t) <=> r \in Positive(active) \ Displaced(active)
  <2>1. r \in Positive(active) <=>
          \E s \in active : \/ s.kind = "APPLIES" /\ s.revision = r
                            \/ s.kind = "SUPERSEDES" /\ s.after = r
    BY DEF Positive, Replacing
  <2>2. r \in Displaced(active) <=> \E s \in active : s.kind = "SUPERSEDES" /\ s.before = r
    BY DEF Displaced, Replacing
  <2> QED
    BY <1>2, <1>4, <2>1, <2>2 DEF TrueRevisions
<1> QED
  BY <1>5

\* A report of finitely many assertions has finitely many candidates.
LEMMA CandidatesAreFinite ==
  ASSUME NEW report, NEW t, IsFiniteSet(report.assertions)
  PROVE  IsFiniteSet(Positive(Active(report, t)) \ Displaced(Active(report, t)))
<1> DEFINE active == Active(report, t)
           standing == [a \in Originals(report) |-> Standing(report, a)]
           named == [s \in active |-> IF s.kind = "SUPERSEDES" THEN s.after ELSE s.revision]
<1>1. IsFiniteSet(Originals(report))
  BY FS_Subset DEF Originals
<1>2. \A s \in active : \E a \in Originals(report) : s = standing[a]
  BY DEF Active
<1>3. \A r \in Positive(active) : \E s \in active : r = named[s]
  BY DEF Positive, Replacing
<1> HIDE DEF active, standing, named
<1>4. IsFiniteSet(active)
  BY <1>1, <1>2, ImageIsFinite
<1>5. IsFiniteSet(Positive(active))
  BY <1>3, <1>4, ImageIsFinite
<1> QED
  BY <1>5, FS_Difference DEF active

\* What the resolver selects out of a capture of an instant is what applies.
LEMMA CaptureSelectsTruly ==
  ASSUME TypeOK
  PROVE  SelectionIsTrue
<1> DEFINE report == Lifecycle(taken["financial"])
<1> SUFFICES ASSUME TypeOK, world.asked = "entry", taken["financial"] # None,
                    LifecycleAdmissible(report, now), NEW t \in -1 .. LastInstant + 1
             PROVE  SelectsTruly(report, t)
  BY DEF SelectionIsTrue
<1> DEFINE active == Active(report, t)
           answer == Applicable(report, t, now)
<1>1. SUFFICES ASSUME answer.outcome \in {"UNIQUE", "NONE"}
               PROVE  SelectsTruly(report, t)
  BY DEF SelectsTruly
<1>2. /\ report.completeness = "COMPLETE" /\ ~(report.cutoff < now) /\ Interpretable(report)
      /\ ~Contradicts(report, active, t)
      /\ answer = Selected(report, active)
  BY <1>1 DEF Applicable, Unresolved, Resolution
<1>3. report.assertions = Assertions(now)
  BY <1>2, BoundariesAreCounted, CompleteReportsTellAll
<1>4. \A r \in DOMAIN report.revisions : report.revisions[r] = world.revisions[r]
  BY DEF Lifecycle
<1> DEFINE candidates == Positive(active) \ Displaced(active)
<1> HIDE DEF report
<1>5. TrueRevisions(t) = candidates
  BY <1>2, <1>3, <1>4, BoundariesAreCounted, FullReportSelectsTruly
<1>6. IsFiniteSet(candidates)
  BY <1>3, AssertionsAreFinite, CandidatesAreFinite DEF TypeOK
<1>7. CASE Cardinality(candidates) = 1
  <2>1. PICK r \in candidates : TRUE
    BY <1>6, <1>7, FS_EmptySet
  <2>2. candidates = {r}
    BY <1>6, <1>7, <2>1, AtMostOne
  <2>3. answer = Resolution("UNIQUE", CHOOSE x \in candidates : TRUE)
    BY <1>2, <1>7 DEF Selected
  <2> QED
    BY <1>5, <2>2, <2>3 DEF SelectsTruly, Resolution
<1>8. CASE Cardinality(candidates) # 1
  BY <1>1, <1>2, <1>5, <1>8 DEF Selected, Resolution, Unresolved, SelectsTruly
<1> QED
  BY <1>7, <1>8

\* The resolver selects, for any time, exactly the revision that applies then.
THEOREM SelectionIsTrueAlways == Spec => []SelectionIsTrue
<1>1. TypeOK => SelectionIsTrue
  BY CaptureSelectsTruly
<1> QED
  BY <1>1, DeskIsTyped, PTL

-----------------------------------------------------------------------------
(* Totals, orders and greatest members.                                    *)

\* A set of natural numbers that is not empty has a least member.
LEMMA LeastNatural ==
  ASSUME NEW T, T \subseteq Nat, T # {}
  PROVE  \E m \in T : \A k \in T : m <= k
<1>1. PICK m \in T : \A k \in T : <<k, m>> \notin OpToRel(<, Nat)
  BY NatLessThanWellFounded, WFMin
<1>2. \A k \in T : ~(k < m)
  BY <1>1 DEF OpToRel
<1> QED
  BY <1>2

\* The recursion by which a total is computed, on the subsets of at most n members.
Sums(S, n, g) ==
  LET D == { s \in SUBSET S : Cardinality(s) <= n }
  IN  g = [s \in D |-> IF s = {} THEN 0
                       ELSE LET x == CHOOSE x \in s : TRUE IN g[s \ {x}] + x.delta]

\* A finite set without one of its members is smaller by one.
LEMMA OneLess ==
  ASSUME NEW S, IsFiniteSet(S), NEW s \in SUBSET S, s # {}
  PROVE  LET x == CHOOSE x \in s : TRUE
         IN  /\ x \in s /\ s \ {x} \in SUBSET S
             /\ Cardinality(s) \in Nat \ {0}
             /\ Cardinality(s \ {x}) = Cardinality(s) - 1
<1>1. IsFiniteSet(s)
  BY FS_Subset
<1> QED
  BY <1>1, FS_RemoveElement, FS_CardinalityType, FS_EmptySet

\* The recursion has a solution.
LEMMA SumsExist ==
  ASSUME NEW S, IsFiniteSet(S)
  PROVE  \A n \in Nat : \E g : Sums(S, n, g)
<1> DEFINE bad == { n \in Nat : ~\E g : Sums(S, n, g) }
           D(n) == { s \in SUBSET S : Cardinality(s) <= n }
           first(s) == CHOOSE x \in s : TRUE
<1> SUFFICES ASSUME bad # {} PROVE FALSE
  OBVIOUS
<1>1. PICK n \in bad : \A k \in bad : n <= k
  BY LeastNatural
<1>2. CASE n = 0
  <2> DEFINE g == [s \in D(0) |-> 0]
  <2>1. ASSUME NEW s \in D(0), s # {} PROVE FALSE
    <3>1. Cardinality(s) \in Nat \ {0}
      BY <2>1, OneLess
    <3> QED
      BY <3>1
  <2>2. Sums(S, 0, g)
    BY <2>1 DEF Sums
  <2> QED
    BY <1>1, <1>2, <2>2
<1>3. CASE n # 0
  <2>1. n - 1 \in Nat /\ n - 1 \notin bad
    BY <1>1, <1>3
  <2>2. PICK g : Sums(S, n - 1, g)
    BY <2>1
  <2>3. ASSUME NEW s \in D(n), s # {}
        PROVE  s \ {first(s)} \in D(n - 1) /\ s \ {first(s)} \in D(n)
    BY <1>1, <2>3, OneLess
  <2> DEFINE h == [s \in D(n) |-> IF s = {} THEN 0 ELSE g[s \ {first(s)}] + first(s).delta]
  <2>4. ASSUME NEW s \in D(n - 1)
        PROVE  h[s] = g[s]
    <3>1. s \in D(n)
      <4>1. Cardinality(s) \in Nat
        BY FS_Subset, FS_CardinalityType
      <4> QED
        BY <1>1, <4>1
    <3>2. g[s] = IF s = {} THEN 0 ELSE g[s \ {first(s)}] + first(s).delta
      BY <2>2 DEF Sums
    <3> QED
      BY <3>1, <3>2
  <2>5. \A s \in D(n) : s # {} => h[s \ {first(s)}] = g[s \ {first(s)}]
    BY <2>3, <2>4
  <2>6. h = [s \in D(n) |-> IF s = {} THEN 0 ELSE h[s \ {first(s)}] + first(s).delta]
    <3> HIDE DEF first
    <3> QED
      BY <2>5
  <2>7. Sums(S, n, h)
    <3> HIDE DEF h
    <3> QED
      BY <2>6 DEF Sums
  <2> QED
    BY <1>1, <2>7
<1> QED
  BY <1>2, <1>3

\* A total of integers is an integer.
LEMMA TotalIsInt ==
  ASSUME NEW S, IsFiniteSet(S), \A x \in S : x.delta \in Int
  PROVE  Total(S) \in Int
<1> DEFINE eq(g) == g = [s \in SUBSET S |-> IF s = {} THEN 0
                            ELSE LET x == CHOOSE x \in s : TRUE IN g[s \ {x}] + x.delta]
           iter == CHOOSE g : eq(g)
<1>1. Total(S) = iter[S]
  BY DEF Total, FoldSet, MapThenFoldSet
<1>2. \E g : eq(g)
  <2>1. Cardinality(S) \in Nat /\ { s \in SUBSET S : Cardinality(s) <= Cardinality(S) } = SUBSET S
    BY FS_CardinalityType, FS_Subset
  <2>2. PICK g : Sums(S, Cardinality(S), g)
    BY <2>1, SumsExist
  <2> QED
    BY <2>1, <2>2 DEF Sums
<1>3. eq(iter)
  BY <1>2
<1> HIDE DEF iter
<1> DEFINE bad == { n \in Nat : \E s \in SUBSET S : Cardinality(s) = n /\ iter[s] \notin Int }
<1>4. bad = {}
  <2> SUFFICES ASSUME bad # {} PROVE FALSE
    OBVIOUS
  <2>1. PICK n \in bad : \A k \in bad : n <= k
    BY LeastNatural
  <2>2. PICK s \in SUBSET S : Cardinality(s) = n /\ iter[s] \notin Int
    BY <2>1
  <2> DEFINE x == CHOOSE x \in s : TRUE
  <2>3. s # {}
    BY <1>3, <2>2
  <2>4. /\ x \in s /\ s \ {x} \in SUBSET S
        /\ n \in Nat \ {0} /\ Cardinality(s \ {x}) = n - 1
    BY <2>2, <2>3, OneLess
  <2>5. iter[s] = iter[s \ {x}] + x.delta
    BY <1>3, <2>3
  <2>6. iter[s \ {x}] \in Int
    BY <2>1, <2>4
  <2> QED
    BY <2>2, <2>4, <2>5, <2>6
<1>5. Cardinality(S) \in Nat
  BY FS_CardinalityType
<1> QED
  BY <1>1, <1>4, <1>5

\* A finite set is listed in a strict order of its members.
LEMMA ListedInOrder ==
  ASSUME NEW S, IsFiniteSet(S), NEW less,
         \A x, y \in S : x # y => <<x, y>> \in less \/ <<y, x>> \in less,
         \A x \in S : <<x, x>> \notin less,
         \A x, y, z \in S : <<x, y>> \in less /\ <<y, z>> \in less => <<x, z>> \in less
  PROVE  \E p \in [1..Cardinality(S) -> S] :
           /\ \A x \in S : \E i \in 1..Cardinality(S) : p[i] = x
           /\ \A i, j \in 1..Cardinality(S) : i < j => <<p[i], p[j]>> \in less
<1> DEFINE n == Cardinality(S)
           upto(x) == { y \in S : y = x \/ <<y, x>> \in less }
           rank == [x \in S |-> Cardinality(upto(x))]
<1>1. n \in Nat /\ IsFiniteSet(1..n) /\ Cardinality(1..n) = n
  BY FS_CardinalityType, FS_Interval
<1>2. ASSUME NEW x \in S
      PROVE  IsFiniteSet(upto(x)) /\ rank[x] \in 1..n
  <2>1. upto(x) \in SUBSET S /\ x \in upto(x)
    OBVIOUS
  <2>2. IsFiniteSet(upto(x)) /\ Cardinality(upto(x)) <= n
    BY <2>1, FS_Subset
  <2>3. Cardinality(upto(x)) \in Nat /\ Cardinality(upto(x)) # 0
    BY <2>1, <2>2, FS_CardinalityType, FS_EmptySet
  <2> QED
    BY <1>1, <2>2, <2>3
<1>3. ASSUME NEW x \in S, NEW y \in S, <<x, y>> \in less
      PROVE  rank[x] < rank[y]
  <2>1. upto(x) \in SUBSET upto(y) /\ y \in upto(y) /\ y \notin upto(x)
    BY <1>3
  <2>2. /\ IsFiniteSet(upto(y))
        /\ rank[x] = Cardinality(upto(x)) /\ rank[y] = Cardinality(upto(y))
        /\ rank[x] \in Int /\ rank[y] \in Int
    <3>1. rank[x] = Cardinality(upto(x)) /\ rank[y] = Cardinality(upto(y))
      OBVIOUS
    <3>2. IsFiniteSet(upto(y)) /\ rank[x] \in 1..n /\ rank[y] \in 1..n
      BY <1>2
    <3> HIDE DEF rank, upto
    <3> QED
      BY <3>1, <3>2, <1>1
  <2> HIDE DEF upto, rank
  <2>3. Cardinality(upto(x)) <= Cardinality(upto(y)) /\ Cardinality(upto(x)) # Cardinality(upto(y))
    BY <2>1, <2>2, FS_Subset
  <2> QED
    BY <2>2, <2>3
<1>4. rank \in [S -> 1..n] /\ \A x, y \in S : rank[x] = rank[y] => x = y
  <2>1. \A x \in S : rank[x] \in 1..n
    BY <1>2
  <2> HIDE DEF rank
  <2>2. ASSUME NEW x \in S, NEW y \in S, rank[x] = rank[y]
        PROVE  x = y
    <3>1. ~(rank[x] < rank[y]) /\ ~(rank[y] < rank[x])
      BY <1>1, <2>1, <2>2
    <3> QED
      BY <1>3, <3>1
  <2> QED
    BY <2>1, <2>2 DEF rank
<1> HIDE DEF rank
<1>5. \A i \in 1..n : \E x \in S : rank[x] = i
  <2>1. rank \in Injection(S, 1..n)
    BY <1>4 DEF Injection, IsInjective
  <2>2. rank \in Surjection(S, 1..n)
    BY <1>1, <2>1, FS_Injection
  <2> QED
    BY <2>2 DEF Surjection
<1> DEFINE p == [i \in 1..n |-> CHOOSE x \in S : rank[x] = i]
<1>6. \A i \in 1..n : p[i] \in S /\ rank[p[i]] = i
  BY <1>5
<1>7. p \in [1..n -> S]
  BY <1>6
<1> HIDE DEF p
<1>8. \A x \in S : p[rank[x]] = x
  BY <1>4, <1>6
<1>9. \A i, j \in 1..n : i < j => <<p[i], p[j]>> \in less
  <2> SUFFICES ASSUME NEW i \in 1..n, NEW j \in 1..n, i < j, <<p[i], p[j]>> \notin less
               PROVE  FALSE
    OBVIOUS
  <2>1. p[i] # p[j] /\ p[i] \in S /\ p[j] \in S
    BY <1>6
  <2>2. <<p[j], p[i]>> \in less
    BY <2>1
  <2>3. j < i
    BY <1>3, <1>6, <2>1, <2>2
  <2> QED
    BY <2>3
<1> QED
  BY <1>4, <1>7, <1>8, <1>9

\* A list of integers has a greatest among its first n + 1.
LEMMA GreatestExists ==
  ASSUME NEW n \in Nat, NEW r, \A i \in 0 .. n : r[i] \in Int
  PROVE  \E m \in 0 .. n : \A i \in 0 .. n : r[m] >= r[i]
<1> DEFINE bad == { k \in Nat : k <= n /\ ~\E m \in 0 .. k : \A i \in 0 .. k : r[m] >= r[i] }
<1> SUFFICES ASSUME bad # {} PROVE FALSE
  OBVIOUS
<1>1. PICK k \in bad : \A j \in bad : k <= j
  BY LeastNatural
<1>2. k # 0
  BY <1>1
<1>3. k - 1 \in Nat /\ k - 1 \notin bad /\ k <= n
  <2>1. k \in Nat /\ k <= n
    BY <1>1
  <2>2. k - 1 \in Nat /\ ~(k <= k - 1)
    BY <1>2, <2>1
  <2> QED
    BY <1>1, <2>1, <2>2
<1>4. PICK m \in 0 .. k - 1 : \A i \in 0 .. k - 1 : r[m] >= r[i]
  BY <1>3
<1>5. r[m] \in Int /\ r[k] \in Int /\ \A i \in 0 .. k - 1 : r[i] \in Int
  BY <1>3
<1>6. CASE r[m] >= r[k]
  <2>1. \A i \in 0 .. k : r[m] >= r[i]
    BY <1>4, <1>6
  <2> QED
    BY <1>1, <1>3, <2>1
<1>7. CASE r[k] > r[m]
  <2>1. ASSUME NEW i \in 0 .. k
        PROVE  r[k] >= r[i]
    <3>1. CASE i = k
      BY <1>5, <3>1
    <3>2. CASE i # k
      <4>1. i \in 0 .. k - 1
        BY <1>3, <3>2
      <4>2. r[m] >= r[i] /\ r[i] \in Int
        BY <1>4, <1>5, <4>1
      <4> QED
        BY <1>5, <1>7, <4>2
    <3> QED
      BY <3>1, <3>2
  <2> QED
    BY <1>1, <1>3, <2>1
<1> QED
  BY <1>5, <1>6, <1>7

-----------------------------------------------------------------------------
(* The history of the account.                                             *)

\* What closed by an instant.
Known(u, t) == { x \in Deltas(t) : x.at <= u }
\* What closed no later than an event, ties by identity.
UpTo(x, t) == { y \in Deltas(t) : y.at < x.at \/ (y.at = x.at /\ y.id <= x.id) }

\* Finitely much has been published on any topic.
LEMMA ItemsAreFinite ==
  ASSUME world \in Worlds, NEW topic, NEW t
  PROVE  IsFiniteSet(Items(topic, t))
<1> DEFINE item == [p \in Posted(topic, t) |-> p.item]
<1>1. IsFiniteSet(Posted(topic, t))
  BY WorldsAreFinite, FS_Subset DEF Posted
<1>2. \A x \in Items(topic, t) : \E p \in Posted(topic, t) : x = item[p]
  BY DEF Items
<1> HIDE DEF item
<1> QED
  BY <1>1, <1>2, ImageIsFinite

\* The events of the history are counted, dated and identified, and finitely many.
LEMMA DeltasAreEvents ==
  ASSUME world \in Worlds, NEW t
  PROVE  /\ IsFiniteSet(Deltas(t)) /\ IsFiniteSet(Items("correction", t))
         /\ \A x \in Deltas(t) \cup Items("correction", t) : x.id \in Int /\ x.at \in Int /\ x.delta \in Int
         /\ \A x, y \in Deltas(t) : x.id = y.id => x = y
<1> DEFINE closes == world.closes \cup { p.item : p \in { p \in world.menu : p.topic = "close" } }
           corrections == { p.item : p \in { p \in world.menu : p.topic = "correction" } }
<1>1. /\ IsFiniteSet(world.closes)
      /\ \A x \in closes \cup corrections : {x.id, x.at, x.delta} \subseteq Int
      /\ \A x, y \in closes : x.id = y.id => x = y
  BY HistoriesAreCounted
<1>2. \A topic : IsFiniteSet(Items(topic, t))
  BY ItemsAreFinite
<1>3. Deltas(t) = world.closes \cup Items("close", t)
  BY DEF Deltas, Items
<1>4. Deltas(t) \subseteq closes /\ Items("correction", t) \subseteq corrections
  BY DEF Deltas, Items, Posted
<1>5. IsFiniteSet(Deltas(t))
  <2>1. IsFiniteSet(Items("close", t))
    BY <1>2
  <2> DEFINE later == Items("close", t)
             first == world.closes
  <2>2. IsFiniteSet(first) /\ IsFiniteSet(later)
    BY <1>1, <2>1
  <2> HIDE DEF first, later
  <2>3. IsFiniteSet(first \cup later)
    BY <2>2, FS_Union
  <2> QED
    BY <1>3, <2>3 DEF first, later
<1> HIDE DEF closes, corrections
<1> QED
  BY <1>1, <1>2, <1>4, <1>5

\* A capture that leaves no close out, in the order of the source, lists what
\* closed by u in the order it closed.
LEMMA ClosesAreListed ==
  ASSUME world \in Worlds, NEW t, NEW u \in Int, ~Blurred("order"), ~Blurred("closes")
  PROVE  LET s == Closes(u, t)
             n == Cardinality(Known(u, t))
         IN  /\ n \in Nat /\ s \in [1 .. n -> Known(u, t)]
             /\ \A x \in Known(u, t) : \E i \in 1 .. n : s[i] = x
             /\ \A i, j \in 1 .. n :
                  i < j => s[i].at < s[j].at \/ (s[i].at = s[j].at /\ s[i].id < s[j].id)
<1> DEFINE K == Known(u, t)
           n == Cardinality(K)
           Before(x, y) == x.at < y.at \/ (x.at = y.at /\ x.id < y.id)
           less == { p \in K \X K : Before(p[1], p[2]) }
<1>1. IsFiniteSet(K) /\ n \in Nat
  BY DeltasAreEvents, FS_Subset, FS_CardinalityType DEF Known
<1>2. /\ \A x \in K : x.id \in Int /\ x.at \in Int
      /\ \A x, y \in K : x.id = y.id => x = y
  BY DeltasAreEvents DEF Known
<1>3. \A x, y \in K : <<x, y>> \in less <=> Before(x, y)
  OBVIOUS
<1>4. /\ \A x, y \in K : x # y => <<x, y>> \in less \/ <<y, x>> \in less
      /\ \A x \in K : <<x, x>> \notin less
      /\ \A x, y, z \in K : <<x, y>> \in less /\ <<y, z>> \in less => <<x, z>> \in less
  <2> HIDE DEF less, K
  <2> QED
    BY <1>2, <1>3
<1> DEFINE shown == Reported(u, t)
<1>0. shown = K /\ \A x, y : Sooner(x, y) <=> Before(x, y)
  BY DEF Reported, Known, Sooner
<1> HIDE DEF less, K, Before, shown
<1>5. PICK p \in [1 .. n -> K] :
        /\ \A x \in K : \E i \in 1 .. n : p[i] = x
        /\ \A i, j \in 1 .. n : i < j => <<p[i], p[j]>> \in less
  BY <1>1, <1>4, ListedInOrder
<1>6. \A i, j \in 1 .. n : i # j => p[i] # p[j]
  <2> SUFFICES ASSUME NEW i \in 1 .. n, NEW j \in 1 .. n, i < j PROVE p[i] # p[j]
    BY <1>1
  <2> QED
    BY <1>4, <1>5
<1>7. p \in SetToSeqs(K) /\ InSequence(p)
  BY <1>0, <1>3, <1>5, <1>6 DEF SetToSeqs, InSequence
<1>8. \E s \in SetToSeqs(shown) : InSequence(s)
  BY <1>0, <1>7
<1>9. Closes(u, t) \in SetToSeqs(K) /\ InSequence(Closes(u, t))
  BY <1>0, <1>8 DEF Closes, shown
<1> DEFINE s == Closes(u, t)
<1> HIDE DEF s
<1>10. s \in [1 .. n -> K] /\ \A i, j \in 1 .. n : i # j => s[i] # s[j]
  BY <1>9 DEF SetToSeqs, s
<1>11. \A x \in K : \E i \in 1 .. n : s[i] = x
  <2>1. IsFiniteSet(1 .. n) /\ Cardinality(1 .. n) = n
    BY <1>1, FS_Interval
  <2>2. s \in Injection(1 .. n, K)
    BY <1>10 DEF Injection, IsInjective
  <2>3. s \in Surjection(1 .. n, K)
    BY <1>1, <2>1, <2>2, FS_Injection
  <2> QED
    BY <2>3 DEF Surjection
<1>12. \A i, j \in 1 .. n : i < j => Before(s[i], s[j])
  BY <1>0, <1>9, <1>10 DEF s, InSequence
<1> QED
  BY <1>1, <1>10, <1>11, <1>12 DEF K, s, Before

\* Running balances, event by event, are those of what closed no later; the
\* highest of them is the account's.
LEMMA ThresholdIsTrue ==
  ASSUME world \in Worlds, NEW t, NEW u \in Int, ~Blurred("order"), ~Blurred("closes"),
         NEW h, h.initial = world.initial,
         h.events = Recorded(Closes(u, t))
  PROVE  /\ Highest(h) = TrueHigh(u, t)
         /\ TrueHigh(u, t) \in Int
         /\ \A x \in Known(u, t) : \E i \in DOMAIN h.events : h.events[i].kind = x.kind
<1> DEFINE s == Closes(u, t)
           K == Known(u, t)
           n == Cardinality(K)
           high == {h.initial} \cup { h.events[i].after : i \in DOMAIN h.events }
           actual == {world.initial} \cup { world.initial + Total(UpTo(x, t)) : x \in K }
           r == [i \in 0 .. n |-> IF i = 0 THEN world.initial ELSE world.initial + Total(UpTo(s[i], t))]
<1>1. /\ n \in Nat /\ s \in [1 .. n -> K]
      /\ \A x \in K : \E i \in 1 .. n : s[i] = x
      /\ \A i, j \in 1 .. n : i < j => s[i].at < s[j].at \/ (s[i].at = s[j].at /\ s[i].id < s[j].id)
  BY ClosesAreListed
<1>2. /\ IsFiniteSet(Deltas(t))
      /\ \A x \in Deltas(t) : x.id \in Int /\ x.at \in Int /\ x.delta \in Int
      /\ \A x, y \in Deltas(t) : x.id = y.id => x = y
  BY DeltasAreEvents
<1>3. K \subseteq Deltas(t) /\ (\A x \in K : x.at <= u) /\ \A x \in Deltas(t) : x.at <= u => x \in K
  BY DEF Known
<1>4. DOMAIN s = 1 .. n
  BY <1>1
<1>5. \A i \in 1 .. n : h.events[i].after = Running(s, i) /\ h.events[i].kind = s[i].kind
  BY <1>4 DEF Recorded
<1>6. DOMAIN h.events = 1 .. n
  BY <1>4 DEF Recorded
<1> HIDE DEF s, K
<1>7. ASSUME NEW i \in 1 .. n
      PROVE  { s[j] : j \in 1 .. i } = UpTo(s[i], t)
  <2>1. s[i] \in K /\ s[i] \in Deltas(t) /\ s[i].at <= u
    BY <1>1, <1>3
  <2>2. ASSUME NEW j \in 1 .. i
        PROVE  s[j] \in UpTo(s[i], t)
    <3>1. j \in 1 .. n /\ s[j] \in K /\ s[j] \in Deltas(t)
      BY <1>1, <1>3
    <3>2. j = i \/ j < i
      BY <1>1
    <3>3. s[j].at < s[i].at \/ (s[j].at = s[i].at /\ s[j].id <= s[i].id)
      BY <1>1, <1>2, <2>1, <3>1, <3>2
    <3> QED
      BY <3>1, <3>3 DEF UpTo
  <2>3. ASSUME NEW y \in UpTo(s[i], t)
        PROVE  \E j \in 1 .. i : y = s[j]
    <3>1. y \in Deltas(t) /\ (y.at < s[i].at \/ (y.at = s[i].at /\ y.id <= s[i].id))
      BY DEF UpTo
    <3>2. y.at \in Int /\ s[i].at \in Int /\ y.id \in Int /\ s[i].id \in Int
      BY <1>2, <2>1, <3>1
    <3>3. y \in K
      BY <1>3, <2>1, <3>1, <3>2
    <3>4. PICK j \in 1 .. n : s[j] = y
      BY <1>1, <3>3
    <3>5. ~(i < j)
      BY <1>1, <3>1, <3>2, <3>4
    <3> QED
      BY <1>1, <3>4, <3>5
  <2> QED
    BY <2>2, <2>3
<1>8. ASSUME NEW i \in 1 .. n
      PROVE  r[i] = world.initial + Total(UpTo(s[i], t)) /\ Running(s, i) = r[i]
  <2> DEFINE first == { s[j] : j \in 1 .. i }
  <2>1. first = UpTo(s[i], t) /\ i \in 0 .. n /\ i # 0
    BY <1>1, <1>7
  <2>2. Running(s, i) = world.initial + Total(first)
    BY DEF Running
  <2> HIDE DEF first
  <2> QED
    BY <2>1, <2>2
<1>9. \A i \in 0 .. n : r[i] \in Int
  <2>1. world.initial \in Int
    BY HistoriesAreCounted
  <2>2. ASSUME NEW i \in 1 .. n
        PROVE  Total(UpTo(s[i], t)) \in Int
    <3>1. IsFiniteSet(UpTo(s[i], t)) /\ \A x \in UpTo(s[i], t) : x.delta \in Int
      BY <1>2, FS_Subset DEF UpTo
    <3> QED
      BY <3>1, TotalIsInt
  <2> QED
    BY <2>1, <2>2
<1> HIDE DEF r
<1>10. high = actual
  <2>1. ASSUME NEW i \in 1 .. n
        PROVE  s[i] \in K /\ h.events[i].after = world.initial + Total(UpTo(s[i], t))
    <3>1. s[i] \in K
      BY <1>1
    <3>2. h.events[i].after = Running(s, i)
      BY <1>5
    <3> QED
      BY <1>8, <3>1, <3>2
  <2>2. \A x \in actual : x \in high
    BY <1>1, <1>6, <2>1
  <2>3. \A x \in high : x \in actual
    BY <1>6, <2>1
  <2> QED
    BY <2>2, <2>3
<1>11. Max(actual) = TrueHigh(u, t)
  BY DEF TrueHigh, UpTo, K, Known
<1>12. Max(actual) \in Int
  <2>1. r[0] = world.initial /\ n \in Nat
    BY <1>1 DEF r
  <2>2. \A x \in actual : \E i \in 0 .. n : x = r[i]
    BY <1>1, <1>8, <2>1
  <2>3. \A i \in 0 .. n : r[i] \in actual
    <3>1. ASSUME NEW i \in 1 .. n
          PROVE  r[i] \in actual
      BY <1>1, <1>8
    <3>2. r[0] \in actual
      BY <2>1
    <3> HIDE DEF actual
    <3> QED
      BY <2>1, <3>1, <3>2
  <2> HIDE DEF actual, n
  <2>4. PICK m \in 0 .. n : \A i \in 0 .. n : r[m] >= r[i]
    BY <1>9, <2>1, GreatestExists
  <2>5. r[m] \in actual /\ \A y \in actual : r[m] >= y
    BY <2>2, <2>3, <2>4
  <2>6. \E x \in actual : \A y \in actual : x >= y
    BY <2>5
  <2>7. Max(actual) \in actual
    BY <2>6 DEF Max
  <2> QED
    BY <1>9, <2>2, <2>7
<1>13. \A x \in K : \E i \in DOMAIN h.events : h.events[i].kind = x.kind
  BY <1>1, <1>5, <1>6
<1>14. Highest(h) = Max(high)
  BY DEF Highest
<1> HIDE DEF actual, high
<1> QED
  BY <1>10, <1>11, <1>12, <1>13, <1>14 DEF K

\* Balances are integers.
LEMMA BalanceIsInt ==
  ASSUME world \in Worlds, NEW t, NEW u
  PROVE  Balance(u, t) \in Int /\ world.initial \in Int /\ world.floating \in Int /\ world.owed \in Int
<1>1. world.initial \in Int /\ world.floating \in Int /\ world.owed \in Int
  BY HistoriesAreCounted
<1> DEFINE closed == { x \in Deltas(t) : x.at <= u }
           corrected == { x \in Items("correction", t) : x.at <= u }
<1>2. IsFiniteSet(closed) /\ \A x \in closed : x.delta \in Int
  BY DeltasAreEvents, FS_Subset
<1>3. IsFiniteSet(corrected) /\ \A x \in corrected : x.delta \in Int
  BY DeltasAreEvents, FS_Subset
<1>4. Balance(u, t) = world.initial + Total(closed) + Total(corrected)
  BY DEF Balance
<1> HIDE DEF closed, corrected
<1>5. Total(closed) \in Int /\ Total(corrected) \in Int
  BY <1>2, <1>3, TotalIsInt
<1> QED
  BY <1>1, <1>4, <1>5

-----------------------------------------------------------------------------
(* The regime of the account.                                              *)

\* Periods that are apart never hold together.
LEMMA ApartNeverHold ==
  ASSUME NEW start \in Int, NEW beyond \in Int, NEW v \in start .. beyond - 1, NEW periods,
         \A p \in periods : p.from \in Int \cup {None} /\ p.until \in Int \cup {None},
         Apart(periods, start, beyond)
  PROVE  \E p \in periods : ~Holding(p, v)
<1>1. v \in Int /\ start <= v /\ v < beyond
  OBVIOUS
<1>2. ASSUME NEW p \in periods, p.until # None, p.until <= start
      PROVE  ~Holding(p, v)
  BY <1>1, <1>2 DEF Holding
<1>3. ASSUME NEW p \in periods, p.from # None, p.from >= beyond
      PROVE  ~Holding(p, v)
  BY <1>1, <1>3 DEF Holding
<1>4. ASSUME NEW p \in periods, NEW q \in periods, p.from # None, q.until # None, p.from >= q.until
      PROVE  ~Holding(p, v) \/ ~Holding(q, v)
  BY <1>1, <1>4 DEF Holding
<1> QED
  BY <1>2, <1>3, <1>4 DEF Apart

\* A unique regime is one of the only assignment of the manifest that may be active
\* and of the only package bound to it, each for sure, and approved without doubt.
OnlyRegime(m, at, s, p) ==
  LET bound   == Bound(m, s, at)
      decided == { a.decision : a \in { a \in Approvals(m, s, p) : Holds(a.period, at) = "YES" } }
  IN  /\ ~(Cardinality(Assigned(m, at)) > 1) /\ Sure({s.enrollment, s.phase}, at)
      /\ ~(Cardinality({ b.package : b \in bound }) > 1)
      /\ Sure({ b.period : b \in bound } \cup { m.packages[b.package].period : b \in bound }, at)
      /\ \A a \in Approvals(m, s, p) : Holds(a.period, at) # "UNSURE"
      /\ decided = {"APPROVED"}

\* What a regime that is told to be unique rests on.
LEMMA UniqueRegime ==
  ASSUME NEW m, NEW at, NEW k, NEW r, r = RegimeAsOf(m, at, k), r.outcome = "UNIQUE"
  PROVE  /\ m.complete /\ r.assignment \in Assigned(m, at)
         /\ \E b \in Bound(m, r.assignment, at) :
              r.package = m.packages[b.package] /\ OnlyRegime(m, at, r.assignment, b.package)
<1>1. ASSUME NEW s, NEW p, NEW approvals, DecidedRegime(m, at, s, p, approvals).outcome = "UNIQUE"
      PROVE  /\ DecidedRegime(m, at, s, p, approvals).assignment = s
             /\ DecidedRegime(m, at, s, p, approvals).package = m.packages[p]
             /\ \A a \in approvals : Holds(a.period, at) # "UNSURE"
             /\ { a.decision : a \in { a \in approvals : Holds(a.period, at) = "YES" } } = {"APPROVED"}
  <2> DEFINE unsure == \/ \E a \in approvals : Holds(a.period, at) = "UNSURE"
                       \/ Cardinality({ a.decision : a \in { a \in approvals : Holds(a.period, at) = "YES" } }) > 1
             refused == { a.decision : a \in { a \in approvals : Holds(a.period, at) = "YES" } } # {"APPROVED"}
  <2>1. DecidedRegime(m, at, s, p, approvals) =
          IF approvals = {} THEN NoRegime("NO_APPLICABLE") ELSE IF unsure THEN NoRegime("UNRESOLVED")
          ELSE IF refused THEN NoRegime("NO_APPLICABLE")
          ELSE [outcome |-> "UNIQUE", assignment |-> s, package |-> m.packages[p]]
    BY DEF DecidedRegime
  <2>2. /\ ~unsure /\ ~refused
        /\ DecidedRegime(m, at, s, p, approvals).assignment = s
        /\ DecidedRegime(m, at, s, p, approvals).package = m.packages[p]
    <3> HIDE DEF unsure, refused
    <3> QED
      BY <1>1, <2>1 DEF NoRegime
  <2> QED
    BY <2>2
<1>2. ASSUME NEW s, NEW bound, BoundRegime(m, at, s, bound).outcome = "UNIQUE"
      PROVE  \E b \in bound :
               /\ BoundRegime(m, at, s, bound) = DecidedRegime(m, at, s, b.package, Approvals(m, s, b.package))
               /\ ~(Cardinality({ c.package : c \in bound }) > 1)
               /\ Sure({ c.period : c \in bound } \cup { m.packages[c.package].period : c \in bound }, at)
  <2> DEFINE unsure == \/ Cardinality({ b.package : b \in bound }) > 1
                       \/ ~Sure({ b.period : b \in bound } \cup { m.packages[b.package].period : b \in bound }, at)
             b == CHOOSE b \in bound : TRUE
  <2>1. BoundRegime(m, at, s, bound) =
          IF bound = {} THEN NoRegime("NO_APPLICABLE") ELSE IF unsure THEN NoRegime("UNRESOLVED")
          ELSE DecidedRegime(m, at, s, b.package, Approvals(m, s, b.package))
    BY DEF BoundRegime
  <2>2. bound # {} => b \in bound
    OBVIOUS
  <2>3. /\ ~unsure /\ b \in bound
        /\ BoundRegime(m, at, s, bound) = DecidedRegime(m, at, s, b.package, Approvals(m, s, b.package))
    <3> HIDE DEF unsure, b
    <3> QED
      BY <1>2, <2>1, <2>2 DEF NoRegime
  <2> QED
    BY <2>3
<1>3. ASSUME NEW active, AssignedRegime(m, at, active).outcome = "UNIQUE"
      PROVE  \E s \in active :
               /\ AssignedRegime(m, at, active) = BoundRegime(m, at, s, Bound(m, s, at))
               /\ ~(Cardinality(active) > 1) /\ Sure({s.enrollment, s.phase}, at)
  <2> DEFINE unsure == \/ Cardinality(active) > 1
                       \/ \E a \in active : ~Sure({a.enrollment, a.phase}, at) \/ ~a.identified
             s == CHOOSE s \in active : TRUE
  <2>1. AssignedRegime(m, at, active) =
          IF active = {} THEN NoRegime("NO_APPLICABLE") ELSE IF unsure THEN NoRegime("UNRESOLVED")
          ELSE BoundRegime(m, at, s, Bound(m, s, at))
    BY DEF AssignedRegime
  <2>2. active # {} => s \in active
    OBVIOUS
  <2>3. ~unsure /\ s \in active /\ AssignedRegime(m, at, active) = BoundRegime(m, at, s, Bound(m, s, at))
    <3> HIDE DEF unsure, s
    <3> QED
      BY <1>3, <2>1, <2>2 DEF NoRegime
  <2> QED
    BY <2>3
<1>4. m.complete /\ r = AssignedRegime(m, at, Assigned(m, at))
  BY DEF RegimeAsOf, ManifestCovers, NoRegime
<1>5. PICK s \in Assigned(m, at) :
        /\ r = BoundRegime(m, at, s, Bound(m, s, at))
        /\ ~(Cardinality(Assigned(m, at)) > 1) /\ Sure({s.enrollment, s.phase}, at)
  BY <1>3, <1>4
<1> DEFINE bound == Bound(m, s, at)
<1>6. PICK b \in bound :
        /\ r = DecidedRegime(m, at, s, b.package, Approvals(m, s, b.package))
        /\ ~(Cardinality({ c.package : c \in bound }) > 1)
        /\ Sure({ c.period : c \in bound } \cup { m.packages[c.package].period : c \in bound }, at)
  BY <1>2, <1>5
<1>7. /\ r.assignment = s /\ r.package = m.packages[b.package]
      /\ \A a \in Approvals(m, s, b.package) : Holds(a.period, at) # "UNSURE"
      /\ { a.decision : a \in { a \in Approvals(m, s, b.package) : Holds(a.period, at) = "YES" } } = {"APPROVED"}
  BY <1>1, <1>6
<1>8. OnlyRegime(m, at, s, b.package)
  BY <1>5, <1>6, <1>7 DEF OnlyRegime
<1> QED
  BY <1>4, <1>5, <1>6, <1>7, <1>8

\* What is captured of a regime of which nothing is left out.
LEMMA ManifestTellsAll ==
  ASSUME NEW t, ~Blurred("manifest"), ~Blurred("phase")
  PROVE  LET m == Newest("regime", t)
         IN  /\ Manifest(t).assignments = m.assignments
             /\ DOMAIN Manifest(t).packages = DOMAIN m.packages
             /\ \A p \in DOMAIN m.packages : /\ Manifest(t).packages[p].id = m.packages[p].id
                                             /\ Manifest(t).packages[p].period = m.packages[p].period
  BY DEF Manifest

\* Starts that are not known are not reported.
LEMMA StartIsDimmed ==
  ASSUME NEW t, NEW a \in Manifest(t).assignments, a.phase.from # None
  PROVE  ~Blurred("phase")
  BY DEF Manifest

\* The newest of a topic is the first of it or one that was published.
LEMMA NewestIsOneOf ==
  ASSUME NEW topic, NEW t
  PROVE  Newest(topic, t) \in {world[topic]} \cup { p.item : p \in { p \in world.menu : p.topic = topic } }
<1>1. CASE Posted(topic, t) = {}
  BY <1>1 DEF Newest
<1>2. CASE Posted(topic, t) # {}
  <2>1. (CHOOSE p \in Posted(topic, t) : TRUE) \in Posted(topic, t)
    BY <1>2
  <2> QED
    BY <1>2, <2>1 DEF Newest, Posted
<1> QED
  BY <1>1, <1>2

\* The regime in force has dates.
LEMMA NewestRegimeIsDated ==
  ASSUME world \in Worlds, NEW t
  PROVE  LET m == Newest("regime", t)
         IN  /\ IsFiniteSet(m.assignments)
             /\ \A s \in m.assignments :
                  /\ s.enrollment \in Period /\ s.phase \in Period /\ IsFiniteSet(s.packages)
                  /\ \A b \in s.packages : b.period \in Period /\ b.package \in DOMAIN m.packages
             /\ \A k \in DOMAIN m.packages : m.packages[k].id = k /\ m.packages[k].period \in Period
             /\ \A a \in m.approvals : a.period \in Period
<1>1. Newest("regime", t) \in {world.regime} \cup { p.item : p \in { p \in world.menu : p.topic = "regime" } }
  BY NewestIsOneOf
<1> QED
  BY <1>1, RegimesAreDated

\* A regime that spans the time from inception on, by a manifest that dims
\* nothing, governed the account all along.
LEMMA SpannedIsContinuous ==
  ASSUME world \in Worlds, NEW t, NEW u \in Int, NEW r,
         r = RegimeAsOf(Manifest(t), u, t), r.outcome = "UNIQUE",
         RegimeSpans(Manifest(t), r, world.inception, u + 1),
         world.trailing.assignment = r.assignment.id, world.trailing.package = r.package.id
  PROVE  Continuous(u, t)
<1> DEFINE m == Newest("regime", t)
           M == Manifest(t)
           a == r.assignment
           start == world.inception
<1>1. M.complete /\ a \in M.assignments /\ \E b \in a.packages : r.package = M.packages[b.package]
  BY UniqueRegime DEF Assigned, Bound
<1>2. \A p \in {M.period, a.enrollment, a.phase, r.package.period} :
        p.from # None /\ p.from <= start /\ p.until # None /\ p.until >= u + 1
  BY DEF RegimeSpans
<1>3. ~Blurred("manifest")
  BY <1>1 DEF Manifest
<1>4. ~Blurred("phase")
  BY <1>1, <1>2, StartIsDimmed
<1> DEFINE s == a
<1>5. /\ s \in m.assignments /\ M.assignments = m.assignments
      /\ \A p \in DOMAIN m.packages : M.packages[p].id = m.packages[p].id /\ M.packages[p].period = m.packages[p].period
  BY <1>1, <1>3, <1>4, ManifestTellsAll
<1>6. PICK k : k \in DOMAIN m.packages /\ r.package = M.packages[k] /\ \E b \in s.packages : b.package = k
  BY <1>1, <1>5, NewestRegimeIsDated
<1>7. r.package.id = k /\ r.package.period = m.packages[k].period
  <2>1. M.packages[k].id = m.packages[k].id /\ M.packages[k].period = m.packages[k].period
    BY <1>5, <1>6
  <2>2. m.packages[k].id = k
    BY <1>6, NewestRegimeIsDated
  <2> QED
    BY <1>6, <2>1, <2>2
<1>8. start \in Int
  BY HistoriesAreCounted
<1>9. ASSUME NEW p \in Period
      PROVE  p.from \in Int \cup {None} /\ p.until \in Int \cup {None}
  BY DEF Period
<1>10. s.enrollment \in Period /\ s.phase \in Period /\ m.packages[k].period \in Period
  BY <1>5, <1>6, NewestRegimeIsDated
<1>11. /\ s.enrollment.from # None /\ s.enrollment.from <= start
       /\ s.enrollment.until # None /\ s.enrollment.until >= u + 1
       /\ s.phase.from # None /\ s.phase.from <= start
       /\ s.phase.until # None /\ s.phase.until >= u + 1
       /\ m.packages[k].period.from # None /\ m.packages[k].period.from <= start
       /\ m.packages[k].period.until # None /\ m.packages[k].period.until >= u + 1
  BY <1>2, <1>7
<1>12. /\ \A x \in m.assignments \ {s} : Apart({x.enrollment, x.phase}, start, u + 1)
       /\ \A b \in s.packages : b.package # k => Apart({b.period, m.packages[b.package].period}, start, u + 1)
       /\ \E near : /\ \A p \in near : \E b \in s.packages : b.package = k /\ b.period = p
                    /\ Covers(near, start, u + 1)
  <2>1. \A b \in s.packages : b.package \in DOMAIN m.packages
    BY <1>5, NewestRegimeIsDated
  <2> QED
    BY <1>5, <1>7, <2>1 DEF RegimeSpans
<1> HIDE DEF m, M
<1>13. ASSUME NEW v \in start .. u
       PROVE  Ruling(m, v) = {<<s, k>>}
  <2>1. v \in Int /\ start <= v /\ v < u + 1 /\ v \in start .. (u + 1) - 1 /\ u + 1 \in Int
    BY <1>8
  <2>2. Holding(s.enrollment, v) /\ Holding(s.phase, v) /\ Holding(m.packages[k].period, v)
    BY <1>8, <1>9, <1>10, <1>11, <2>1 DEF Holding
  <2>3. ASSUME NEW x \in m.assignments, Holding(x.enrollment, v), Holding(x.phase, v), x # s
        PROVE  FALSE
    <3>1. x.enrollment \in Period /\ x.phase \in Period
      BY NewestRegimeIsDated DEF m
    <3> DEFINE periods == {x.enrollment, x.phase}
    <3>2. \A p \in periods : p.from \in Int \cup {None} /\ p.until \in Int \cup {None}
      BY <1>9, <3>1
    <3>3. Apart(periods, start, u + 1)
      BY <1>12, <2>3
    <3>4. \A p \in periods : Holding(p, v)
      BY <2>3
    <3> HIDE DEF periods
    <3> QED
      BY <1>8, <2>1, <3>2, <3>3, <3>4, ApartNeverHold
  <2>4. ASSUME NEW b \in s.packages, Holding(b.period, v), Holding(m.packages[b.package].period, v), b.package # k
        PROVE  FALSE
    <3>1. b.period \in Period /\ m.packages[b.package].period \in Period
      BY <1>5, NewestRegimeIsDated DEF m
    <3> DEFINE periods == {b.period, m.packages[b.package].period}
    <3>2. \A p \in periods : p.from \in Int \cup {None} /\ p.until \in Int \cup {None}
      BY <1>9, <3>1
    <3>3. Apart(periods, start, u + 1)
      BY <1>12, <2>4
    <3>4. \A p \in periods : Holding(p, v)
      BY <2>4
    <3> HIDE DEF periods
    <3> QED
      BY <1>8, <2>1, <3>2, <3>3, <3>4, ApartNeverHold
  <2>5. \E b \in s.packages : b.package = k /\ Holding(b.period, v)
    <3>1. PICK near : /\ \A p \in near : \E b \in s.packages : b.package = k /\ b.period = p
                      /\ Covers(near, start, u + 1)
      BY <1>12
    <3>2. PICK p \in near : Within(p.from, p.until, v)
      BY <2>1, <3>1 DEF Covers
    <3> QED
      BY <3>1, <3>2 DEF Within, Holding
  <2>6. \A g : g \in Ruling(m, v) <=>
                 \E x \in m.assignments : /\ Holding(x.enrollment, v) /\ Holding(x.phase, v)
                                          /\ \E b \in x.packages : /\ Holding(b.period, v)
                                                                   /\ Holding(m.packages[b.package].period, v)
                                                                   /\ g = <<x, b.package>>
    BY DEF Ruling
  <2> QED
    BY <1>5, <2>2, <2>3, <2>4, <2>5, <2>6
<1>14. s.id = world.trailing.assignment /\ k = world.trailing.package
  BY <1>7
<1> DEFINE g == <<s, k>>
<1>15. Cardinality({g}) = 1
  BY FS_Singleton
<1>16. ASSUME NEW v \in start .. u
       PROVE  /\ Cardinality(Ruling(m, v)) = 1 /\ Ruling(m, v) = Ruling(m, u)
              /\ \A x \in Ruling(m, v) : x[1].id = world.trailing.assignment /\ x[2] = world.trailing.package
  <2>1. Ruling(m, v) = {g}
    BY <1>13
  <2>2. u \in start .. u
    BY <1>8
  <2>3. Ruling(m, u) = {g}
    BY <1>13, <2>2
  <2>4. g[1].id = world.trailing.assignment /\ g[2] = world.trailing.package
    BY <1>14
  <2> HIDE DEF g
  <2> QED
    BY <1>15, <2>1, <2>3, <2>4
<1> QED
  BY <1>16 DEF Continuous, m

-----------------------------------------------------------------------------
(* The loss limits.                                                        *)

\* The history of the evidence is what was captured of it.
LEMMA HistoryIsCaptured ==
  ASSUME TypeOK, world.asked = "loss", taken["history"] # None
  PROVE  /\ History(Evidence) = HistoryPacket(taken["history"])
         /\ taken["history"] \in 0 .. now /\ now \in Int
  BY BoundariesAreCounted DEF TypeOK, Packets, Evidence, Captured, History

\* What a capture says of the state as of u.
LEMMA StateIsCaptured ==
  ASSUME NEW t \in Int, NEW u \in 0 .. t
  PROVE  LET h      == HistoryPacket(t).state[u]
             events == Closes(u, t)
         IN  /\ HistoryPacket(t).taken = t
             /\ h.inception = world.inception /\ h.initial = world.initial /\ h.rule = world.trailing
             /\ (h.coverage.complete => ~Blurred("closes")) /\ (h.coverage.ordered => ~Blurred("order"))
             /\ h.events = Recorded(events)
             /\ h.revisions = { x \in Items("correction", t) : x.at <= u }
             /\ h.account.balance = Balance(u, t) /\ h.account.equity = Equity(u, t)
             /\ h.regime = Manifest(t)
  BY DEF HistoryPacket

\* What it says of the equity, and of a day.
LEMMA StatementIsCaptured ==
  ASSUME NEW t \in Int, NEW u \in 0 .. t
  PROVE  HistoryPacket(t).equity[u].integrity =
           IF Blurred("parts") THEN "OMISSION" ELSE "COMPLETE_EXACTLY_ONCE"
  BY DEF HistoryPacket

\* What it says of a day on which nothing closed at the reset.
LEMMA DayIsCaptured ==
  ASSUME NEW t \in Int, NEW m \in 0 .. t, NEW u \in 0 .. t,
         HistoryPacket(t).day[<<m, u>>].meaning \in {"AFTER_ALL_C8_EVENTS_AT_M", "NO_C8_EVENTS_AT_M"}
  PROVE  world.reset.first => \A x \in Deltas(t) : x.at # m
<1>1. <<m, u>> \in (0 .. t) \X (0 .. t)
  OBVIOUS
<1>2. HistoryPacket(t).day[<<m, u>>].meaning =
        IF Blurred("meaning") THEN "UNKNOWN"
        ELSE IF { x \in Deltas(t) : x.at = m } = {} THEN "NO_C8_EVENTS_AT_M"
        ELSE IF world.reset.first THEN "BEFORE_SOME_EVENTS_AT_M"
        ELSE "AFTER_ALL_C8_EVENTS_AT_M"
  BY <1>1 DEF HistoryPacket
<1> QED
  BY <1>2

\* A threshold that is established is the account's.
LEMMA ThresholdStateIsTrue ==
  ASSUME TypeOK, world.asked = "loss", taken["history"] # None,
         NEW u \in 0 .. taken["history"], ThresholdState(Evidence, u).outcome = "ESTABLISHED"
  PROVE  LET s == ThresholdState(Evidence, u)
             t == taken["history"]
         IN  /\ Continuous(u, t) /\ OnlyCloses(u, t)
             /\ s.value.balance = Balance(u, t) /\ s.value.threshold = TrueThreshold(u, t)
             /\ s.value.initial = world.initial
             /\ TrueThreshold(u, t) \in Int
<1> DEFINE t == taken["history"]
           h == History(Evidence).state[u]
           r == RegimeThen(Evidence, u)
           high == Highest(h)
<1>1. t \in Int /\ t \in 0 .. now /\ u \in Int /\ world \in Worlds /\ History(Evidence) = HistoryPacket(t)
  BY HistoryIsCaptured DEF TypeOK
<1>2. /\ ~ThresholdUnknown(Evidence, u, h, r)
      /\ ThresholdState(Evidence, u) =
           Established([inception |-> h.inception, initial |-> h.initial, balance |-> h.account.balance,
                        high |-> high, threshold |-> high - h.initial \div 10])
  BY DEF ThresholdState, Invalid, Unknown, Established, Answer
<1> HIDE DEF t
<1>3. /\ h.inception = world.inception /\ h.initial = world.initial /\ h.rule = world.trailing
      /\ (h.coverage.complete => ~Blurred("closes")) /\ (h.coverage.ordered => ~Blurred("order"))
      /\ h.revisions = { x \in Items("correction", t) : x.at <= u }
      /\ h.account.balance = Balance(u, t) /\ h.regime = Manifest(t)
  BY <1>1, StateIsCaptured DEF t
<1>4. h.events = Recorded(Closes(u, t))
  BY <1>1, StateIsCaptured DEF t
<1>5. r = RegimeAsOf(Manifest(t), u, t)
  BY <1>1, <1>3, StateIsCaptured DEF t, RegimeThen
<1> HIDE DEF h, r, high
<1>6. /\ r.outcome = "UNIQUE" /\ RuleFits(h, r, u) /\ RegimeSpans(h.regime, r, h.inception, u + 1)
      /\ HistoryCovered(Evidence, h, u) /\ InOrder(h)
      /\ \A i \in DOMAIN h.events : h.events[i].kind = "CLOSE"
  BY <1>2 DEF ThresholdUnknown
<1>7. ~Blurred("closes") /\ ~Blurred("order") /\ h.revisions = {}
  BY <1>3, <1>6 DEF HistoryCovered, InOrder
<1>8. Continuous(u, t)
  BY <1>1, <1>3, <1>5, <1>6, SpannedIsContinuous DEF RuleFits
<1>9. /\ high = TrueHigh(u, t)
      /\ TrueHigh(u, t) \in Int
      /\ \A x \in Known(u, t) : \E i \in DOMAIN h.events : h.events[i].kind = x.kind
  BY <1>1, <1>3, <1>4, <1>7, ThresholdIsTrue DEF high
<1>10. OnlyCloses(u, t)
  <2>1. \A x \in Deltas(t) : x.at <= u => x.kind = "CLOSE"
    BY <1>6, <1>9 DEF Known
  <2>2. ASSUME NEW x \in Items("correction", t)
        PROVE  x.at > u
    <3>1. x.at \in Int
      BY <1>1, DeltasAreEvents
    <3> QED
      BY <1>1, <1>3, <1>7, <3>1
  <2> QED
    BY <2>1, <2>2 DEF OnlyCloses
<1>11. world.initial \in Int
  BY <1>1, BalanceIsInt
<1>12. TrueThreshold(u, t) = high - h.initial \div 10 /\ TrueThreshold(u, t) \in Int
  BY <1>3, <1>9, <1>11 DEF TrueThreshold
<1> QED
  BY <1>2, <1>3, <1>8, <1>10, <1>12 DEF t, Established, Answer

\* An equity that is compared has every part of it.
LEMMA EquityRelationIsTrue ==
  ASSUME TypeOK, world.asked = "loss", taken["history"] # None,
         NEW u \in 0 .. taken["history"], EquityRelation(Evidence, u).outcome = "ESTABLISHED"
  PROVE  LET r == EquityRelation(Evidence, u)
             t == taken["history"]
         IN  /\ r.value = "ABOVE" <=> TrueEquity(u, t) > TrueThreshold(u, t)
             /\ r.value = "EQUAL" <=> TrueEquity(u, t) = TrueThreshold(u, t)
<1> DEFINE t == taken["history"]
           s == ThresholdState(Evidence, u)
           difference == History(Evidence).state[u].account.equity - s.value.threshold
<1>1. t \in Int /\ t \in 0 .. now /\ u \in Int /\ world \in Worlds /\ History(Evidence) = HistoryPacket(t)
  BY HistoryIsCaptured DEF TypeOK
<1> HIDE DEF t, s
<1>2. /\ ~EquityUnknown(Evidence, u, s)
      /\ EquityRelation(Evidence, u) =
           Established(IF difference > 0 THEN "ABOVE" ELSE IF difference < 0 THEN "BELOW" ELSE "EQUAL")
  BY DEF EquityRelation, EquityRelationOf, Invalid, Unknown, Established, Answer, s
<1>3. s.outcome = "ESTABLISHED" /\ EveryPartOnce(HistoryPacket(t).equity[u])
  BY <1>1, <1>2 DEF EquityUnknown
<1>4. s.value.threshold = TrueThreshold(u, t) /\ TrueThreshold(u, t) \in Int
  BY <1>3, ThresholdStateIsTrue DEF s, t
<1>5. ~Blurred("parts")
  BY <1>1, <1>3, StatementIsCaptured DEF EveryPartOnce, t
<1>6. History(Evidence).state[u].account.equity = TrueEquity(u, t) /\ TrueEquity(u, t) \in Int
  <2>1. History(Evidence).state[u].account.equity = Equity(u, t)
    BY <1>1, StateIsCaptured DEF t
  <2>2. Balance(u, t) \in Int /\ world.floating \in Int /\ world.owed \in Int
    BY <1>1, BalanceIsInt
  <2>3. Equity(u, t) = Balance(u, t) + world.floating - world.owed
    BY <1>5 DEF Equity
  <2> QED
    BY <2>1, <2>2, <2>3 DEF TrueEquity
<1>7. /\ difference > 0 <=> TrueEquity(u, t) > TrueThreshold(u, t)
      /\ difference < 0 <=> TrueEquity(u, t) < TrueThreshold(u, t)
      /\ TrueEquity(u, t) = TrueThreshold(u, t) <=> ~(difference > 0) /\ ~(difference < 0)
      /\ ~(difference > 0 /\ difference < 0)
  BY <1>4, <1>6
<1> HIDE DEF difference
<1> QED
  BY <1>2, <1>7 DEF Established, Answer, t

\* A daily floor that is established stands under the balance at the reset.
LEMMA DailyFloorIsTrue ==
  ASSUME TypeOK, world.asked = "loss", taken["history"] # None,
         NEW u \in 0 .. taken["history"], NEW m, m = world.reset.start, m <= u,
         DailyFloor(Evidence, m, u).outcome = "ESTABLISHED"
  PROVE  DailyFloor(Evidence, m, u).value =
           TrueReset(m, taken["history"]) - (world.initial * 3) \div 100
<1> DEFINE t == taken["history"]
           s == ThresholdState(Evidence, m)
           r == RegimeOfDay(Evidence, m, u)
           d == History(Evidence).day[<<m, u>>]
<1>1. t \in Int /\ u \in Int /\ world \in Worlds /\ History(Evidence) = HistoryPacket(t)
  BY HistoryIsCaptured DEF TypeOK
<1>2. m \in 0 .. t
  BY <1>1, HistoriesAreCounted
<1> HIDE DEF t, s, r
<1>3. /\ ~DayUnknown(Evidence, m, u, s, d, r, RuleOfDay(r, d.rule))
      /\ DailyFloor(Evidence, m, u) = Established(s.value.balance - (s.value.initial * 3) \div 100)
  BY DEF DailyFloor, DailyFloorOf, Invalid, Unknown, Established, Answer, s, r
<1> HIDE DEF d
<1>4. s.outcome = "ESTABLISHED" /\ d.meaning \in {"AFTER_ALL_C8_EVENTS_AT_M", "NO_C8_EVENTS_AT_M"}
  BY <1>3 DEF DayUnknown
<1>5. s.value.balance = Balance(m, t) /\ s.value.initial = world.initial
  BY <1>2, <1>4, ThresholdStateIsTrue DEF s, t
<1>6. TrueReset(m, t) = Balance(m, t)
  <2>1. world.reset.first => \A x \in Deltas(t) : x.at # m
    BY <1>1, <1>2, <1>4, DayIsCaptured DEF d, t
  <2>2. \A x \in Deltas(t) : x.at \in Int
    BY <1>1, DeltasAreEvents
  <2>3. CASE world.reset.first
    <3>1. { x \in Deltas(t) : x.at < m } = { x \in Deltas(t) : x.at <= m }
      BY <1>1, <1>2, <2>1, <2>2, <2>3
    <3> QED
      BY <2>3, <3>1 DEF TrueReset, Balance
  <2> QED
    BY <2>3 DEF TrueReset
<1> QED
  BY <1>3, <1>5, <1>6 DEF t, Established, Answer

\* A threshold, a relation or a daily floor that is answered is that of the
\* account's history, as far as it was known at the capture.
THEOREM FloorsAreTrueAlways == Spec => []FloorsAreTrue
<1>1. TypeOK => FloorsAreTrue
  <2> DEFINE t == taken["history"]
             m == world.reset.start
  <2> SUFFICES ASSUME TypeOK, world.asked = "loss", t # None, NEW u \in 0 .. t
               PROVE  FloorIsTrue(u, t, m, ThresholdState(Evidence, u), EquityRelation(Evidence, u),
                                  DailyFloor(Evidence, m, u))
    BY DEF FloorsAreTrue, FloorsAreTrueFor
  <2> HIDE DEF m
  <2>1. ThresholdState(Evidence, u).outcome = "ESTABLISHED" =>
          /\ Continuous(u, t) /\ OnlyCloses(u, t)
          /\ ThresholdState(Evidence, u).value.balance = Balance(u, t)
          /\ ThresholdState(Evidence, u).value.threshold = TrueThreshold(u, t)
    BY ThresholdStateIsTrue
  <2>2. EquityRelation(Evidence, u).outcome = "ESTABLISHED" =>
          /\ EquityRelation(Evidence, u).value = "ABOVE" <=> TrueEquity(u, t) > TrueThreshold(u, t)
          /\ EquityRelation(Evidence, u).value = "EQUAL" <=> TrueEquity(u, t) = TrueThreshold(u, t)
    BY EquityRelationIsTrue
  <2>3. m <= u /\ DailyFloor(Evidence, m, u).outcome = "ESTABLISHED" =>
          DailyFloor(Evidence, m, u).value = TrueReset(m, t) - (world.initial * 3) \div 100
    BY DailyFloorIsTrue DEF m
  <2> QED
    BY <2>1, <2>2, <2>3 DEF FloorIsTrue
<1> QED
  BY <1>1, DeskIsTyped, PTL

-----------------------------------------------------------------------------
(* The binary search.                                                      *)

\* The last index of p[1] .. p[2] that fits, the first being known to.
IsLast(fits, p, m) ==
  /\ m \in p[1] .. p[2] /\ (m = p[1] \/ fits[m])
  /\ \A i \in p[1] .. p[2] : fits[i] => i <= m

\* The recursion of the binary search.
Searching(fits, D, g) ==
  g = [p \in D |->
         LET mid == (p[1] + p[2] + 1) \div 2
         IN  IF p[1] >= p[2] THEN p[1]
             ELSE IF fits[mid] THEN g[<<mid, p[2]>>] ELSE g[<<p[1], mid - 1>>]]

\* The middle, rounded up, is beyond the low end and within the high one.
LEMMA Halfway ==
  ASSUME NEW lo \in Int, NEW hi \in Int, lo < hi
  PROVE  LET mid == (lo + hi + 1) \div 2
         IN  mid \in Int /\ lo < mid /\ mid <= hi
OBVIOUS

\* What holds of one half holds of the whole.
LEMMA HalfDecides ==
  ASSUME NEW lo \in Int, NEW hi \in Int, NEW mid \in Int, lo < mid, mid <= hi, NEW fits,
         \A i \in lo .. hi : \A j \in lo .. hi : i <= j /\ fits[j] => fits[i],
         NEW m
  PROVE  /\ fits[mid] /\ IsLast(fits, <<mid, hi>>, m) => IsLast(fits, <<lo, hi>>, m)
         /\ ~fits[mid] /\ IsLast(fits, <<lo, mid - 1>>, m) => IsLast(fits, <<lo, hi>>, m)
<1>1. ASSUME fits[mid], IsLast(fits, <<mid, hi>>, m)
      PROVE  IsLast(fits, <<lo, hi>>, m)
  <2>1. m \in mid .. hi /\ (m = mid \/ fits[m]) /\ \A i \in mid .. hi : fits[i] => i <= m
    BY <1>1 DEF IsLast
  <2>2. m \in lo .. hi /\ fits[m]
    BY <2>1, <1>1
  <2>3. ASSUME NEW i \in lo .. hi, fits[i] PROVE i <= m
    BY <2>1, <2>3
  <2> QED
    BY <2>2, <2>3 DEF IsLast
<1>2. ASSUME ~fits[mid], IsLast(fits, <<lo, mid - 1>>, m)
      PROVE  IsLast(fits, <<lo, hi>>, m)
  <2>1. m \in lo .. mid - 1 /\ (m = lo \/ fits[m]) /\ \A i \in lo .. mid - 1 : fits[i] => i <= m
    BY <1>2 DEF IsLast
  <2>2. m \in lo .. hi
    BY <2>1
  <2>3. ASSUME NEW i \in lo .. hi, fits[i] PROVE i <= m
    <3>1. mid \in lo .. hi
      OBVIOUS
    <3>2. ~(mid <= i)
      BY <1>2, <2>3, <3>1
    <3>3. i \in lo .. mid - 1
      BY <3>2
    <3> QED
      BY <2>1, <2>3, <3>3
  <2> QED
    BY <2>1, <2>2, <2>3 DEF IsLast
<1> QED
  BY <1>1, <1>2

\* There is a last, and only one.
LEMMA LastIsOne ==
  ASSUME NEW lo \in Int, NEW hi \in Int, lo <= hi, NEW fits
  PROVE  /\ \E m : IsLast(fits, <<lo, hi>>, m)
         /\ \A m, n : IsLast(fits, <<lo, hi>>, m) /\ IsLast(fits, <<lo, hi>>, n) => m = n
<1>1. ASSUME NEW m, NEW n, IsLast(fits, <<lo, hi>>, m), IsLast(fits, <<lo, hi>>, n)
      PROVE  m = n
  <2>1. m \in lo .. hi /\ n \in lo .. hi /\ (m = lo \/ n <= m \/ fits[m]) /\ (n = lo \/ fits[n]) /\ (m = lo \/ fits[m])
    BY <1>1 DEF IsLast
  <2>2. /\ \A i \in lo .. hi : fits[i] => i <= m
        /\ \A i \in lo .. hi : fits[i] => i <= n
    BY <1>1 DEF IsLast
  <2>3. m <= n /\ n <= m
    BY <2>1, <2>2
  <2> QED
    BY <2>1, <2>3
<1>2. \E m : IsLast(fits, <<lo, hi>>, m)
  <2> DEFINE back == { k \in Nat : k <= hi - lo /\ (hi - k = lo \/ fits[hi - k]) }
  <2>1. hi - lo \in back
    OBVIOUS
  <2>2. PICK k \in back : \A j \in back : k <= j
    <3> HIDE DEF back
    <3>1. back \subseteq Nat
      BY DEF back
    <3> QED
      BY <2>1, <3>1, LeastNatural
  <2>3. k \in Nat /\ k <= hi - lo /\ (hi - k = lo \/ fits[hi - k])
    OBVIOUS
  <2>4. ASSUME NEW i \in lo .. hi, fits[i] PROVE i <= hi - k
    <3>1. hi - i \in Nat /\ hi - i <= hi - lo /\ hi - (hi - i) = i
      OBVIOUS
    <3>2. hi - i \in back
      BY <2>4, <3>1
    <3>3. k <= hi - i
      BY <2>2, <3>2
    <3> QED
      BY <2>3, <3>1, <3>3
  <2>5. hi - k \in lo .. hi
    BY <2>3
  <2>6. IsLast(fits, <<lo, hi>>, hi - k)
    BY <2>3, <2>4, <2>5 DEF IsLast
  <2> QED
    BY <2>6
<1> QED
  BY <1>1, <1>2

\* The recursion has a solution.
LEMMA SearchExists ==
  ASSUME NEW lo0 \in Int, NEW hi0 \in Int, NEW fits,
         \A i \in lo0 .. hi0 : \A j \in lo0 .. hi0 : i <= j /\ fits[j] => fits[i]
  PROVE  \E g : Searching(fits, (lo0 .. hi0) \X (lo0 .. hi0), g)
<1> DEFINE D == (lo0 .. hi0) \X (lo0 .. hi0)
           last(p) == CHOOSE m : IsLast(fits, p, m)
           h == [p \in D |-> IF p[1] >= p[2] THEN p[1] ELSE last(p)]
           mid(p) == (p[1] + p[2] + 1) \div 2
           half(p) == IF fits[mid(p)] THEN <<mid(p), p[2]>> ELSE <<p[1], mid(p) - 1>>
<1>1. ASSUME NEW p \in D, p[1] < p[2]
      PROVE  last(p) = h[half(p)]
  <2> DEFINE lo == p[1]  hi == p[2]  q == half(p)
  <2>1. /\ lo \in lo0 .. hi0 /\ hi \in lo0 .. hi0 /\ p = <<lo, hi>> /\ lo < hi
        /\ lo \in Int /\ hi \in Int
    BY <1>1
  <2>2. mid(p) \in Int /\ lo < mid(p) /\ mid(p) <= hi
    BY <2>1, Halfway
  <2>3. q \in D /\ q[1] <= q[2] /\ q = <<q[1], q[2]>>
    <3> HIDE DEF mid
    <3>1. CASE fits[mid(p)]
      BY <2>1, <2>2, <3>1
    <3>2. CASE ~fits[mid(p)]
      BY <2>1, <2>2, <3>2
    <3> QED
      BY <3>1, <3>2
  <2>4. IsLast(fits, q, h[q])
    <3>1. q[1] \in Int /\ q[2] \in Int
      BY <2>3
    <3>2. \E m : IsLast(fits, q, m)
      <4> HIDE DEF q
      <4> QED
        BY <2>3, <3>1, LastIsOne
    <3>3. IsLast(fits, q, last(q))
      BY <3>2
    <3>4. CASE q[1] >= q[2]
      <4>1. q[1] = q[2] /\ h[q] = q[1]
        BY <2>3, <3>1, <3>4
      <4>2. \A i \in q[1] .. q[2] : i = q[1]
        BY <3>1, <4>1
      <4> HIDE DEF q, h
      <4> QED
        BY <3>1, <4>1, <4>2 DEF IsLast
    <3>5. CASE ~(q[1] >= q[2])
      <4>1. h[q] = last(q)
        BY <2>3, <3>5
      <4> QED
        BY <3>3, <4>1
    <3> QED
      BY <3>4, <3>5
  <2>5. IsLast(fits, <<lo, hi>>, h[q])
    <3>1. \A i \in lo .. hi : \A j \in lo .. hi : i <= j /\ fits[j] => fits[i]
      BY <2>1
    <3>2. /\ fits[mid(p)] /\ IsLast(fits, <<mid(p), hi>>, h[q]) => IsLast(fits, <<lo, hi>>, h[q])
          /\ ~fits[mid(p)] /\ IsLast(fits, <<lo, mid(p) - 1>>, h[q]) => IsLast(fits, <<lo, hi>>, h[q])
      <4> HIDE DEF h, mid, lo, hi, q
      <4> QED
        BY <2>1, <2>2, <3>1, HalfDecides
    <3> HIDE DEF h
    <3> QED
      BY <2>4, <3>2
  <2>6. IsLast(fits, <<lo, hi>>, last(p)) /\ last(p) = h[q]
    <3>1. IsLast(fits, p, h[q])
      BY <2>1, <2>5
    <3>2. IsLast(fits, p, last(p))
      <4> HIDE DEF h, q
      <4> QED
        BY <3>1
    <3> HIDE DEF h, q, last
    <3> QED
      BY <2>1, <3>1, <3>2, LastIsOne
  <2> QED
    BY <2>6
<1>2. ASSUME NEW p \in D
      PROVE  h[p] = LET mid2 == (p[1] + p[2] + 1) \div 2
                    IN  IF p[1] >= p[2] THEN p[1]
                        ELSE IF fits[mid2] THEN h[<<mid2, p[2]>>] ELSE h[<<p[1], mid2 - 1>>]
  <2>1. CASE p[1] >= p[2]
    BY <2>1
  <2>2. CASE ~(p[1] >= p[2])
    <3>1. p[1] < p[2]
      BY <2>2
    <3>2. h[p] = last(p)
      BY <2>2
    <3>3. h[p] = h[half(p)]
      BY <1>1, <3>1, <3>2
    <3> HIDE DEF h
    <3> QED
      BY <2>2, <3>3
  <2> QED
    BY <2>1, <2>2
<1>3. Searching(fits, D, h)
  <2>1. h = [p \in D |-> h[p]]
    OBVIOUS
  <2> HIDE DEF h
  <2> QED
    BY <1>2, <2>1 DEF Searching
<1> QED
  BY <1>3

\* The binary search finds the last index that fits, whatever the length.
LEMMA SearchFindsTheLast ==
  ASSUME NEW lo0 \in Int, NEW hi0 \in Int, lo0 <= hi0, NEW fits,
         \A i \in lo0 .. hi0 : \A j \in lo0 .. hi0 : i <= j /\ fits[j] => fits[i]
  PROVE  IsLast(fits, <<lo0, hi0>>, LastFitting(fits, lo0, hi0))
<1> DEFINE D == (lo0 .. hi0) \X (lo0 .. hi0)
           search == CHOOSE g : Searching(fits, D, g)
<1>1. LastFitting(fits, lo0, hi0) = search[<<lo0, hi0>>]
  BY DEF LastFitting, Searching
<1>2. Searching(fits, D, search)
  BY SearchExists
<1> HIDE DEF search
<1> DEFINE bad == { n \in Nat : \E p \in D : /\ p[1] <= p[2] /\ p[2] - p[1] = n
                                             /\ ~IsLast(fits, p, search[p]) }
<1>3. bad = {}
  <2> SUFFICES ASSUME bad # {} PROVE FALSE
    OBVIOUS
  <2>1. PICK n \in bad : \A k \in bad : n <= k
    <3>1. bad \subseteq Nat
      OBVIOUS
    <3> HIDE DEF bad
    <3> QED
      BY <3>1, LeastNatural
  <2>2. PICK p \in D : p[1] <= p[2] /\ p[2] - p[1] = n /\ ~IsLast(fits, p, search[p])
    OBVIOUS
  <2> DEFINE lo == p[1]  hi == p[2]  mid == (lo + hi + 1) \div 2
  <2>3. /\ lo \in lo0 .. hi0 /\ hi \in lo0 .. hi0 /\ p = <<lo, hi>>
        /\ lo \in Int /\ hi \in Int
    OBVIOUS
  <2>4. search[p] = IF lo >= hi THEN lo
                    ELSE IF fits[mid] THEN search[<<mid, hi>>] ELSE search[<<lo, mid - 1>>]
    BY <1>2 DEF Searching
  <2>5. lo < hi
    <3> SUFFICES ASSUME lo = hi PROVE FALSE
      BY <2>2, <2>3
    <3>1. search[p] = lo /\ \A i \in lo .. hi : i = lo
      BY <2>3, <2>4
    <3>2. IsLast(fits, <<lo, hi>>, lo)
      <4> HIDE DEF lo, hi
      <4> QED
        BY <2>3, <3>1 DEF IsLast
    <3> QED
      BY <2>2, <2>3, <3>1, <3>2
  <2>6. mid \in Int /\ lo < mid /\ mid <= hi
    BY <2>3, <2>5, Halfway
  <2> HIDE DEF mid
  <2>7. ASSUME NEW q \in D, q[1] <= q[2], q[2] - q[1] < n
        PROVE  IsLast(fits, q, search[q])
    <3>1. q[2] - q[1] \in Nat /\ n \in Nat
      BY <2>7
    <3>2. q[2] - q[1] \notin bad
      BY <2>1, <2>7, <3>1
    <3> QED
      BY <2>7, <3>1, <3>2
  <2>8. \A i \in lo .. hi : \A j \in lo .. hi : i <= j /\ fits[j] => fits[i]
    BY <2>3
  <2>9. CASE fits[mid]
    <3>1. <<mid, hi>> \in D /\ hi - mid < n
      BY <2>2, <2>3, <2>6
    <3>2. IsLast(fits, <<mid, hi>>, search[<<mid, hi>>])
      BY <2>6, <2>7, <3>1
    <3>3. search[p] = search[<<mid, hi>>]
      BY <2>3, <2>4, <2>5, <2>9
    <3>4. IsLast(fits, <<lo, hi>>, search[p])
      <4> HIDE DEF lo, hi
      <4> QED
        BY <2>3, <2>6, <2>8, <2>9, <3>2, <3>3, HalfDecides
    <3> QED
      BY <2>2, <2>3, <3>4
  <2>10. CASE ~fits[mid]
    <3>1. <<lo, mid - 1>> \in D /\ mid - 1 - lo < n
      BY <2>2, <2>3, <2>6
    <3>2. IsLast(fits, <<lo, mid - 1>>, search[<<lo, mid - 1>>])
      BY <2>6, <2>7, <3>1, <2>3
    <3>3. search[p] = search[<<lo, mid - 1>>]
      BY <2>3, <2>4, <2>5, <2>10
    <3>4. IsLast(fits, <<lo, hi>>, search[p])
      <4> HIDE DEF lo, hi
      <4> QED
        BY <2>3, <2>6, <2>8, <2>10, <3>2, <3>3, HalfDecides
    <3> QED
      BY <2>2, <2>3, <3>4
  <2> QED
    BY <2>9, <2>10
<1>4. <<lo0, hi0>> \in D /\ hi0 - lo0 \in Nat /\ hi0 - lo0 \notin bad
  BY <1>3
<1> QED
  BY <1>1, <1>4

-----------------------------------------------------------------------------
(* What an order loses.                                                    *)

\* The greatest member of a set of indices, and what is left without it.
LEMMA GreatestLeaves ==
  ASSUME NEW n \in Nat, NEW s \in SUBSET (1 .. n), s # {}
  PROVE  /\ Max(s) \in s /\ \A y \in s : Max(s) >= y
         /\ s \ {Max(s)} \in SUBSET (1 .. n)
         /\ Cardinality(s) \in Nat \ {0}
         /\ Cardinality(s \ {Max(s)}) = Cardinality(s) - 1
<1>0. IsFiniteSet(1 .. n)
  BY FS_Interval
<1>1. IsFiniteSet(s)
  BY <1>0, FS_Subset
<1> DEFINE back == { k \in Nat : n - k \in s }
<1>2. back # {}
  <2>1. PICK i \in s : TRUE
    OBVIOUS
  <2>2. n - i \in Nat /\ n - (n - i) = i
    BY <2>1
  <2>3. n - i \in back
    BY <2>1, <2>2
  <2> QED
    BY <2>3
<1>3. PICK k \in back : \A j \in back : k <= j
  <2>1. back \subseteq Nat
    OBVIOUS
  <2> HIDE DEF back
  <2> QED
    BY <1>2, <2>1, LeastNatural
<1>4. n - k \in s /\ k \in Nat
  OBVIOUS
<1>5. ASSUME NEW y \in s PROVE n - k >= y
  <2>1. n - y \in Nat /\ n - (n - y) = y
    OBVIOUS
  <2>2. n - y \in back
    BY <2>1
  <2>3. k <= n - y
    BY <1>3, <2>2
  <2> QED
    BY <1>4, <2>1, <2>3
<1>6. Max(s) \in s /\ \A y \in s : Max(s) >= y
  BY <1>4, <1>5 DEF Max
<1> HIDE DEF back
<1> QED
  BY <1>1, <1>6, FS_RemoveElement, FS_CardinalityType, FS_EmptySet

\* The recursion by which charges are added up, on the subsets of at most k members.
Folding(D, base, amount, g) ==
  g = [s \in D |-> IF s = {} THEN base ELSE g[s \ {Max(s)}] + amount[Max(s)]]

\* The sets of at most k of the first n indices.
UpToSize(n, k) == { s \in SUBSET (1 .. n) : Cardinality(s) <= k }

\* The recursion has a solution, on the subsets of any size ...
LEMMA FoldsExist ==
  ASSUME NEW n \in Nat, NEW base, NEW amount
  PROVE  \A k \in Nat : \E g : Folding(UpToSize(n, k), base, amount, g)
<1> DEFINE bad == { k \in Nat : ~\E g : Folding(UpToSize(n, k), base, amount, g) }
<1> SUFFICES ASSUME bad # {} PROVE FALSE
  OBVIOUS
<1>1. PICK k \in bad : \A j \in bad : k <= j
  BY LeastNatural
<1>2. CASE k = 0
  <2> DEFINE g == [s \in UpToSize(n, 0) |-> base]
  <2>1. ASSUME NEW s \in UpToSize(n, 0), s # {} PROVE FALSE
    <3>1. Cardinality(s) \in Nat \ {0}
      BY <2>1, GreatestLeaves DEF UpToSize
    <3> QED
      BY <3>1 DEF UpToSize
  <2>2. Folding(UpToSize(n, 0), base, amount, g)
    BY <2>1 DEF Folding
  <2> QED
    BY <1>1, <1>2, <2>2
<1>3. CASE k # 0
  <2>1. k - 1 \in Nat /\ k - 1 \notin bad
    BY <1>1, <1>3
  <2>2. PICK g : Folding(UpToSize(n, k - 1), base, amount, g)
    BY <2>1
  <2>3. ASSUME NEW s \in UpToSize(n, k), s # {}
        PROVE  s \ {Max(s)} \in UpToSize(n, k - 1) /\ s \ {Max(s)} \in UpToSize(n, k)
    <3>1. s \in SUBSET (1 .. n) /\ Cardinality(s) <= k
      BY DEF UpToSize
    <3>2. /\ s \ {Max(s)} \in SUBSET (1 .. n) /\ Cardinality(s) \in Nat \ {0}
          /\ Cardinality(s \ {Max(s)}) = Cardinality(s) - 1
      BY <2>3, <3>1, GreatestLeaves
    <3> QED
      BY <1>1, <3>1, <3>2 DEF UpToSize
  <2> DEFINE h == [s \in UpToSize(n, k) |-> IF s = {} THEN base ELSE g[s \ {Max(s)}] + amount[Max(s)]]
  <2>4. ASSUME NEW s \in UpToSize(n, k - 1)
        PROVE  h[s] = g[s]
    <3>1. s \in UpToSize(n, k)
      <4>1. Cardinality(s) \in Nat
        <5>1. IsFiniteSet(1 .. n)
          BY FS_Interval
        <5>2. IsFiniteSet(s)
          BY <5>1, FS_Subset DEF UpToSize
        <5> QED
          BY <5>2, FS_CardinalityType
      <4> QED
        BY <1>1, <4>1 DEF UpToSize
    <3>2. g[s] = IF s = {} THEN base ELSE g[s \ {Max(s)}] + amount[Max(s)]
      BY <2>2 DEF Folding
    <3> QED
      BY <3>1, <3>2
  <2>5. \A s \in UpToSize(n, k) : s # {} => h[s \ {Max(s)}] = g[s \ {Max(s)}]
    BY <2>3, <2>4
  <2>6. h = [s \in UpToSize(n, k) |-> IF s = {} THEN base ELSE h[s \ {Max(s)}] + amount[Max(s)]]
    BY <2>5
  <2>7. Folding(UpToSize(n, k), base, amount, h)
    <3> HIDE DEF h
    <3> QED
      BY <2>6 DEF Folding
  <2> QED
    BY <1>1, <2>7
<1> QED
  BY <1>2, <1>3

\* ... and so on all of them.
LEMMA FoldExists ==
  ASSUME NEW n \in Nat, NEW base, NEW amount
  PROVE  \E g : Folding(SUBSET (1 .. n), base, amount, g)
<1>0. IsFiniteSet(1 .. n)
  BY FS_Interval
<1>1. Cardinality(1 .. n) \in Nat
  BY <1>0, FS_CardinalityType
<1>2. UpToSize(n, Cardinality(1 .. n)) = SUBSET (1 .. n)
  BY <1>0, FS_Subset DEF UpToSize
<1>3. \E g : Folding(UpToSize(n, Cardinality(1 .. n)), base, amount, g)
  BY <1>1, FoldsExist
<1> QED
  BY <1>2, <1>3

\* Larger parts make a larger sum, by at least what the bases differ.
LEMMA FoldsCompare ==
  ASSUME NEW n \in Nat, NEW base \in Int, NEW other \in Int, NEW k \in Int, base + k <= other,
         NEW amount, NEW charge,
         \A i \in 1 .. n : amount[i] \in Int /\ charge[i] \in Int /\ amount[i] <= charge[i],
         NEW g, Folding(SUBSET (1 .. n), base, amount, g),
         NEW h, Folding(SUBSET (1 .. n), other, charge, h)
  PROVE  g[1 .. n] \in Int /\ h[1 .. n] \in Int /\ g[1 .. n] + k <= h[1 .. n]
<1> DEFINE Fine(s) == g[s] \in Int /\ h[s] \in Int /\ g[s] + k <= h[s]
           bad == { c \in Nat : \E s \in SUBSET (1 .. n) : Cardinality(s) = c /\ ~Fine(s) }
<1>1. bad = {}
  <2> SUFFICES ASSUME bad # {} PROVE FALSE
    OBVIOUS
  <2>1. PICK c \in bad : \A j \in bad : c <= j
    <3>1. bad \subseteq Nat
      OBVIOUS
    <3> HIDE DEF bad
    <3> QED
      BY <3>1, LeastNatural
  <2>2. PICK s \in SUBSET (1 .. n) : Cardinality(s) = c /\ ~Fine(s)
    OBVIOUS
  <2>3. /\ g[s] = IF s = {} THEN base ELSE g[s \ {Max(s)}] + amount[Max(s)]
        /\ h[s] = IF s = {} THEN other ELSE h[s \ {Max(s)}] + charge[Max(s)]
    BY DEF Folding
  <2>4. s # {}
    BY <2>2, <2>3
  <2>5. /\ Max(s) \in s /\ s \ {Max(s)} \in SUBSET (1 .. n)
        /\ c \in Nat \ {0} /\ Cardinality(s \ {Max(s)}) = c - 1
    BY <2>2, <2>4, GreatestLeaves
  <2>6. c - 1 \in Nat /\ c - 1 \notin bad
    BY <2>1, <2>5
  <2>7. Fine(s \ {Max(s)})
    BY <2>5, <2>6
  <2>8. amount[Max(s)] \in Int /\ charge[Max(s)] \in Int /\ amount[Max(s)] <= charge[Max(s)]
    BY <2>5
  <2> QED
    BY <2>2, <2>3, <2>4, <2>7, <2>8
<1>2. Cardinality(1 .. n) \in Nat
  <2>1. IsFiniteSet(1 .. n)
    BY FS_Interval
  <2> QED
    BY <2>1, FS_CardinalityType
<1>3. Fine(1 .. n)
  <2> HIDE DEF Fine
  <2>1. 1 .. n \in SUBSET (1 .. n) /\ Cardinality(1 .. n) \notin bad
    BY <1>1
  <2> QED
    BY <1>2, <2>1
<1> QED
  BY <1>3

\* A charge of the order, and what it takes of a quantity.
Charge == [minimum : Nat, fixed : Nat, perUnit : Nat, scheduled : BOOLEAN]
ChargeOf(c, q) == Larger(c.minimum, c.fixed + c.perUnit * q)

\* The loss is what the recursion gives for all the charges.
LEMMA LossIsFold ==
  ASSUME NEW f, f.charges \in Seq(Charge), NEW q
  PROVE  LET n == Len(f.charges)
         IN  \E g : /\ Folding(SUBSET (1 .. n), f.priceLoss * q, [i \in 1 .. n |-> ChargeOf(f.charges[i], q)], g)
                    /\ Loss(f, q) = g[1 .. n]
<1> DEFINE n == Len(f.charges)
           base == f.priceLoss * q
           amount == [i \in 1 .. n |-> ChargeOf(f.charges[i], q)]
           eq(g) == g = [s \in SUBSET DOMAIN f.charges |->
                           IF s = {} THEN base
                           ELSE LET x == Max(s)
                                IN  g[s \ {x}] + Larger(f.charges[x].minimum,
                                                        f.charges[x].fixed + f.charges[x].perUnit * q)]
           iter == CHOOSE g : eq(g)
<1>1. n \in Nat /\ DOMAIN f.charges = 1 .. n
  OBVIOUS
<1>2. Loss(f, q) = iter[DOMAIN f.charges]
  BY DEF Loss, FoldLeft, MapThenFoldSet
<1>3. ASSUME NEW g PROVE eq(g) <=> Folding(SUBSET (1 .. n), base, amount, g)
  <2>1. ASSUME NEW s \in SUBSET (1 .. n), s # {}
        PROVE  amount[Max(s)] = Larger(f.charges[Max(s)].minimum,
                                       f.charges[Max(s)].fixed + f.charges[Max(s)].perUnit * q)
    <3>1. Max(s) \in 1 .. n
      BY <1>1, <2>1, GreatestLeaves
    <3> QED
      BY <3>1 DEF ChargeOf
  <2> HIDE DEF amount, base, n
  <2> QED
    BY <1>1, <2>1 DEF Folding
<1>4. \E g : eq(g)
  <2>1. \E g : Folding(SUBSET (1 .. n), base, amount, g)
    <3> HIDE DEF amount, base, n
    <3> QED
      BY <1>1, FoldExists
  <2> HIDE DEF eq, amount, base, n
  <2> QED
    BY <1>3, <2>1
<1>5. eq(iter)
  <2> HIDE DEF eq
  <2> QED
    BY <1>4
<1>6. Folding(SUBSET (1 .. n), base, amount, iter)
  <2> HIDE DEF eq, amount, base, n, iter
  <2> QED
    BY <1>3, <1>5
<1> HIDE DEF iter
<1> QED
  BY <1>1, <1>2, <1>6

\* A charge is an integer, and a larger quantity is never charged less.
LEMMA ChargeIsCounted ==
  ASSUME NEW c \in Charge, NEW q \in Int, NEW r \in Int, q <= r
  PROVE  ChargeOf(c, q) \in Int /\ ChargeOf(c, r) \in Int /\ ChargeOf(c, q) <= ChargeOf(c, r)
<1>1. c.minimum \in Int /\ c.fixed \in Int /\ c.perUnit \in Nat
  BY DEF Charge
<1>2. c.perUnit * q \in Int /\ c.perUnit * r \in Int /\ c.perUnit * q <= c.perUnit * r
  <2>1. c.perUnit * (r - q) >= 0
    BY <1>1, ProductOfNonnegatives
  <2>2. c.perUnit * (r - q) = c.perUnit * r - c.perUnit * q
    BY <1>1
  <2> QED
    BY <1>1, <2>1, <2>2
<1> QED
  BY <1>1, <1>2 DEF ChargeOf, Larger

\* A larger quantity never loses less.
LEMMA LossGrows ==
  ASSUME NEW f, f.priceLoss \in Nat, f.charges \in Seq(Charge), NEW q \in Int, NEW r \in Int, q <= r
  PROVE  Loss(f, q) \in Int /\ Loss(f, r) \in Int /\ Loss(f, q) <= Loss(f, r)
<1> DEFINE n == Len(f.charges)
           base == f.priceLoss * q
           other == f.priceLoss * r
           amount == [i \in 1 .. n |-> ChargeOf(f.charges[i], q)]
           charge == [i \in 1 .. n |-> ChargeOf(f.charges[i], r)]
<1>1. n \in Nat /\ \A i \in 1 .. n : f.charges[i] \in Charge
  OBVIOUS
<1>2. PICK g : Folding(SUBSET (1 .. n), base, amount, g) /\ Loss(f, q) = g[1 .. n]
  BY LossIsFold
<1>3. PICK h : Folding(SUBSET (1 .. n), other, charge, h) /\ Loss(f, r) = h[1 .. n]
  BY LossIsFold
<1>4. \A i \in 1 .. n : amount[i] \in Int /\ charge[i] \in Int /\ amount[i] <= charge[i]
  BY <1>1, ChargeIsCounted
<1>5. base \in Int /\ other \in Int /\ base + 0 <= other
  <2>1. f.priceLoss * (r - q) >= 0
    BY ProductOfNonnegatives
  <2>2. f.priceLoss * (r - q) = f.priceLoss * r - f.priceLoss * q
    OBVIOUS
  <2> QED
    BY <2>1, <2>2
<1>6. g[1 .. n] \in Int /\ h[1 .. n] \in Int /\ g[1 .. n] + 0 <= h[1 .. n]
  <2> HIDE DEF n, base, other, amount, charge
  <2>1. 0 \in Int
    OBVIOUS
  <2> QED
    BY <1>1, <1>2, <1>3, <1>4, <1>5, <2>1, FoldsCompare
<1> QED
  BY <1>2, <1>3, <1>6

-----------------------------------------------------------------------------
(* The part of a domain that fits.                                         *)

\* A domain that is known in full.
Bounded(d) == IsGrid(d) /\ d.last # Open
\* ... or empty.
Finite(d) == d = EmptyGrid \/ Bounded(d)

\* A part of a bounded grid from its first index on.
LEMMA PartIsBounded ==
  ASSUME NEW d, Bounded(d), NEW first \in Nat, NEW last \in Int, first <= last
  PROVE  /\ Slice(d, first, last) = Grid(d.origin, d.step, first, last)
         /\ Bounded(Slice(d, first, last))
         /\ \A q : Includes(Slice(d, first, last), q) <=> \E i \in first .. last : q = At(d, i)
<1>1. last \in Nat /\ last # Open /\ ~(last < first)
  BY DEF Open
<1>2. Slice(d, first, last) = Grid(d.origin, d.step, first, last)
  BY <1>1 DEF Slice
<1>3. Bounded(Grid(d.origin, d.step, first, last))
  BY <1>1 DEF Bounded, IsGrid, Grid
<1>4. ASSUME NEW q
      PROVE  Includes(Grid(d.origin, d.step, first, last), q) <=> \E i \in first .. last : q = At(d, i)
  BY <1>1 DEF Includes, IsEmpty, Grid, At
<1> QED
  BY <1>2, <1>3, <1>4

\* A domain known in full includes the quantities at its indices.
LEMMA BoundedIncludes ==
  ASSUME NEW d, Bounded(d), NEW q
  PROVE  Includes(d, q) <=> \E i \in d.first .. d.last : q = At(d, i)
BY DEF Bounded, IsGrid, Includes, IsEmpty

\* The part that fits, when what fits is a prefix.
LEMMA PrefixIsExact ==
  ASSUME NEW d, Bounded(d), NEW fits, fits[d.first],
         \A i \in d.first .. d.last : \A j \in d.first .. d.last : i <= j /\ fits[j] => fits[i]
  PROVE  LET c == Slice(d, d.first, LastFitting(fits, d.first, d.last))
         IN  /\ Bounded(c) /\ c.origin = d.origin /\ c.step = d.step /\ c.first = d.first
             /\ \A q : Includes(c, q) <=> \E i \in d.first .. d.last : fits[i] /\ q = At(d, i)
<1> DEFINE m == LastFitting(fits, d.first, d.last)
           c == Slice(d, d.first, m)
<1>1. d.first \in Nat /\ d.last \in Nat /\ d.first <= d.last
  BY DEF Bounded, IsGrid
<1>2. IsLast(fits, <<d.first, d.last>>, m)
  BY <1>1, SearchFindsTheLast
<1> HIDE DEF m
<1>3. /\ m \in d.first .. d.last /\ fits[m]
      /\ \A i \in d.first .. d.last : fits[i] => i <= m
  BY <1>2 DEF IsLast
<1>4. /\ c = Grid(d.origin, d.step, d.first, m) /\ Bounded(c)
      /\ \A q : Includes(c, q) <=> \E i \in d.first .. m : q = At(d, i)
  BY <1>1, <1>3, PartIsBounded
<1>5. \A i \in d.first .. d.last : fits[i] <=> i <= m
  BY <1>1, <1>3
<1>6. ASSUME NEW q
      PROVE  Includes(c, q) <=> \E i \in d.first .. d.last : fits[i] /\ q = At(d, i)
  <2> HIDE DEF c
  <2> QED
    BY <1>1, <1>3, <1>4, <1>5
<1>7. c.origin = d.origin /\ c.step = d.step /\ c.first = d.first
  BY <1>4 DEF Grid
<1> QED
  BY <1>4, <1>6, <1>7 DEF m

\* A larger index stands for a larger quantity.
LEMMA AtGrows ==
  ASSUME NEW d, IsGrid(d), NEW i \in Int, NEW j \in Int, i <= j
  PROVE  At(d, i) \in Int /\ At(d, j) \in Int /\ At(d, i) <= At(d, j)
<1>1. i * d.step <= j * d.step
  BY OrderTimesStep DEF IsGrid
<1> QED
  BY <1>1 DEF IsGrid, At

\* A function that is priced: what it costs, apart from its maximum.
Priced(f) == f.priceLoss \in Nat /\ f.charges \in Seq(Charge)

\* The feasible part contains exactly the quantities of the domain whose loss
\* stays within the budget, for any number of charges, each a fixed and a
\* proportional part with a minimum: the binary search over indices misses
\* none, for a larger quantity never loses less.
THEOREM FeasibleIsExact ==
  ASSUME NEW d, Finite(d), NEW f, Priced(f), NEW budget \in Int
  PROVE  /\ Finite(Feasible(d, f, budget))
         /\ \A q \in Int : Includes(Feasible(d, f, budget), q) <=> Includes(d, q) /\ Loss(f, q) <= budget
<1> DEFINE fits == [i \in d.first .. d.last |-> Loss(f, At(d, i)) <= budget]
           c == Slice(d, d.first, LastFitting(fits, d.first, d.last))
<1>1. CASE d = EmptyGrid
  <2>1. IsEmpty(d)
    BY <1>1 DEF IsEmpty, EmptyGrid
  <2>2. Feasible(d, f, budget) = EmptyGrid
    BY <2>1 DEF Feasible
  <2> QED
    BY <1>1, <2>2, NothingInEmpty DEF Finite
<1>2. CASE d # EmptyGrid
  <2>1. /\ Bounded(d) /\ ~IsEmpty(d) /\ IsGrid(d)
        /\ d.first \in Nat /\ d.last \in Nat /\ d.first <= d.last
    BY <1>2 DEF Finite, Bounded, IsGrid, IsEmpty
  <2>2. ASSUME NEW i \in Int, NEW j \in Int, i <= j
        PROVE  /\ Loss(f, At(d, i)) \in Int /\ Loss(f, At(d, j)) \in Int
               /\ Loss(f, At(d, i)) <= Loss(f, At(d, j))
    BY <2>1, <2>2, AtGrows, LossGrows DEF Priced
  <2>3. \A i \in d.first .. d.last : fits[i] <=> Loss(f, At(d, i)) <= budget
    OBVIOUS
  <2>4. CASE ~(Loss(f, At(d, d.first)) <= budget)
    <3>1. Feasible(d, f, budget) = EmptyGrid
      BY <2>4 DEF Feasible
    <3>2. ASSUME NEW q \in Int, Includes(d, q) PROVE ~(Loss(f, q) <= budget)
      <4>1. PICK i \in d.first .. d.last : q = At(d, i)
        BY <2>1, <3>2, BoundedIncludes
      <4>2. Loss(f, At(d, d.first)) \in Int /\ Loss(f, q) \in Int /\ Loss(f, At(d, d.first)) <= Loss(f, q)
        BY <2>1, <2>2, <4>1
      <4> QED
        BY <2>4, <4>2
    <3> QED
      BY <3>1, <3>2, NothingInEmpty DEF Finite
  <2>5. CASE Loss(f, At(d, d.first)) <= budget
    <3>1. Feasible(d, f, budget) = c
      BY <2>1, <2>5 DEF Feasible
    <3>2. fits[d.first]
      <4>1. d.first \in d.first .. d.last
        BY <2>1
      <4> HIDE DEF fits
      <4> QED
        BY <2>3, <2>5, <4>1
    <3>3. ASSUME NEW i \in d.first .. d.last, NEW j \in d.first .. d.last, i <= j, fits[j]
          PROVE  fits[i]
      <4>1. Loss(f, At(d, j)) <= budget
        BY <2>3, <3>3
      <4>2. Loss(f, At(d, i)) \in Int /\ Loss(f, At(d, j)) \in Int /\ Loss(f, At(d, i)) <= Loss(f, At(d, j))
        BY <2>1, <2>2, <3>3
      <4>3. Loss(f, At(d, i)) <= budget
        BY <4>1, <4>2
      <4> QED
        BY <2>3, <4>3
    <3> HIDE DEF fits
    <3>4. /\ Bounded(c)
          /\ \A q : Includes(c, q) <=> \E i \in d.first .. d.last : fits[i] /\ q = At(d, i)
      <4>1. \A i \in d.first .. d.last : \A j \in d.first .. d.last : i <= j /\ fits[j] => fits[i]
        BY <3>3
      <4> QED
        BY <2>1, <3>2, <4>1, PrefixIsExact
    <3>5. ASSUME NEW q \in Int
          PROVE  Includes(c, q) <=> Includes(d, q) /\ Loss(f, q) <= budget
      <4> HIDE DEF c
      <4> QED
        BY <2>1, <2>3, <3>4, BoundedIncludes
    <3> QED
      BY <3>1, <3>4, <3>5 DEF Finite
  <2> QED
    BY <2>4, <2>5
<1> QED
  BY <1>1, <1>2

\* What is left of the balance, and the floor, for a quantity.
Left(basis, floor, strict, q) ==
  LET h == basis.balance - Loss(basis.function, q) - floor
  IN  IF strict THEN h > 0 ELSE h >= 0

\* The part that leaves the balance above a floor contains exactly the quantities of
\* the basis that do so after their loss, on the floor itself unless it is strict.
THEOREM PassingIsExact ==
  ASSUME NEW basis, Bounded(basis.support), Priced(basis.function), basis.balance \in Int,
         NEW floor \in Int, NEW strict
  PROVE  /\ \/ Passing(basis, floor, strict) = EmptyGrid
            \/ /\ Bounded(Passing(basis, floor, strict))
               /\ Passing(basis, floor, strict).origin = basis.support.origin
               /\ Passing(basis, floor, strict).step = basis.support.step
               /\ Passing(basis, floor, strict).first = basis.support.first
         /\ \A q \in Int : Includes(Passing(basis, floor, strict), q) <=>
                            Includes(basis.support, q) /\ Left(basis, floor, strict, q)
<1> DEFINE d == basis.support
           f == basis.function
           Ok(i) == Left(basis, floor, strict, At(d, i))
           fits == [i \in d.first .. d.last |->
                      LET h == basis.balance - Loss(f, At(d, i)) - floor
                      IN  IF strict THEN h > 0 ELSE h >= 0]
           c == Slice(d, d.first, LastFitting(fits, d.first, d.last))
<1>1. /\ Bounded(d) /\ ~IsEmpty(d) /\ IsGrid(d)
      /\ d.first \in Nat /\ d.last \in Nat /\ d.first <= d.last
      /\ d.first \in d.first .. d.last
  BY DEF Bounded, IsGrid, IsEmpty
<1>2. ASSUME NEW i \in Int, NEW j \in Int, i <= j, Ok(j)
      PROVE  Ok(i)
  <2>1. At(d, i) \in Int /\ At(d, j) \in Int /\ At(d, i) <= At(d, j)
    BY <1>1, <1>2, AtGrows
  <2>2. /\ Loss(f, At(d, i)) \in Int /\ Loss(f, At(d, j)) \in Int
        /\ Loss(f, At(d, i)) <= Loss(f, At(d, j))
    BY <2>1, LossGrows DEF Priced
  <2>3. CASE strict
    BY <1>2, <2>2, <2>3 DEF Left
  <2>4. CASE ~strict
    BY <1>2, <2>2, <2>4 DEF Left
  <2> QED
    BY <2>3, <2>4
<1>3. ASSUME NEW i \in d.first .. d.last
      PROVE  fits[i] <=> Ok(i)
  <2>1. CASE strict
    BY <2>1 DEF Left
  <2>2. CASE ~strict
    BY <2>2 DEF Left
  <2> QED
    BY <2>1, <2>2
<1>4. Passing(basis, floor, strict) = IF ~Ok(d.first) THEN EmptyGrid ELSE c
  BY DEF Passing, Left
<1> HIDE DEF Ok, fits
<1>5. CASE ~Ok(d.first)
  <2>1. Passing(basis, floor, strict) = EmptyGrid
    BY <1>4, <1>5
  <2>2. ASSUME NEW q \in Int, Includes(d, q) PROVE ~Left(basis, floor, strict, q)
    <3>1. PICK i \in d.first .. d.last : q = At(d, i)
      BY <1>1, <2>2, BoundedIncludes
    <3>2. ~Ok(i)
      BY <1>1, <1>2, <1>5
    <3> QED
      BY <3>1, <3>2 DEF Ok
  <2> QED
    BY <2>1, <2>2, NothingInEmpty
<1>6. CASE Ok(d.first)
  <2>1. Passing(basis, floor, strict) = c
    BY <1>4, <1>6
  <2>2. fits[d.first]
    BY <1>1, <1>3, <1>6
  <2>3. \A i \in d.first .. d.last : \A j \in d.first .. d.last : i <= j /\ fits[j] => fits[i]
    BY <1>1, <1>2, <1>3
  <2>4. /\ Bounded(c) /\ c.origin = d.origin /\ c.step = d.step /\ c.first = d.first
        /\ \A q : Includes(c, q) <=> \E i \in d.first .. d.last : fits[i] /\ q = At(d, i)
    <3> HIDE DEF d
    <3> QED
      BY <1>1, <2>2, <2>3, PrefixIsExact
  <2>5. ASSUME NEW q \in Int
        PROVE  Includes(c, q) <=> Includes(d, q) /\ Left(basis, floor, strict, q)
    <3>1. Includes(c, q) <=> \E i \in d.first .. d.last : Ok(i) /\ q = At(d, i)
      <4> HIDE DEF c, d
      <4> QED
        BY <1>3, <2>4
    <3>2. Includes(d, q) <=> \E i \in d.first .. d.last : q = At(d, i)
      BY <1>1, BoundedIncludes
    <3>3. \A i \in d.first .. d.last : q = At(d, i) => (Ok(i) <=> Left(basis, floor, strict, q))
      BY DEF Ok
    <3> HIDE DEF c, d, Ok
    <3> QED
      BY <3>1, <3>2, <3>3
  <2> HIDE DEF c
  <2> QED
    BY <2>1, <2>4, <2>5
<1> QED
  BY <1>5, <1>6

-----------------------------------------------------------------------------
(* What the answers of the owners rest on.                                 *)

\* What an entry owner is asked with.
LEMMA EvidenceIsCaptured ==
  ASSUME world.asked = "entry"
  PROVE  /\ Evidence.direction = world.request.direction /\ Evidence.mode = world.request.mode
         /\ Evidence.instrument = world.request.instrument /\ Evidence.measure = world.request.measure
         /\ Evidence.stop = world.request.stop /\ Evidence.quote = world.request.quote
         /\ Evidence.candidate = world.request.candidate /\ Evidence.terms = world.request.terms
         /\ Evidence.at = now /\ Evidence.end = now + 2 /\ Evidence.adm = admission
         /\ Evidence.packet["financial"] = Captured("financial", Financial(taken["financial"]))
         /\ Evidence.packet["position"] = Captured("position", PositionPacket(taken["position"]))
         /\ Evidence.packet["floor"] = Captured("floor", FloorsPacket(taken["floor"]))
BY DEF Evidence

\* Verdicts are one of three ...
Verdicts == {"SATISFIED", "NOT_SATISFIED", "UNKNOWN"}

\* ... whatever is asked of a rule ...
LEMMA RulesGetVerdicts ==
  ASSUME NEW e, NEW rule
  PROVE  RuleOutcome(e, rule) \in Verdicts
<1>1. PermissionOutcome(e, rule) \in Verdicts
  BY DEF PermissionOutcome, Verdict, Verdicts
<1>2. WindowOutcome(e, rule) \in Verdicts
  BY DEF WindowOutcome, Verdict, Verdicts
<1>3. StateOutcome(e, rule) \in Verdicts
  BY DEF StateOutcome, Verdict, Verdicts
<1>4. CountOutcome(e, rule) \in Verdicts
  BY DEF CountOutcome, Verdict, Verdicts
<1>5. FloorOutcome(e, rule) \in Verdicts
  BY DEF FloorOutcome, Verdict, Verdicts
<1> QED
  BY <1>1, <1>2, <1>3, <1>4, <1>5 DEF RuleOutcome, Verdicts

\* ... or of a gate.
LEMMA GatesGetVerdicts ==
  ASSUME NEW e, NEW gate \in Gates
  PROVE  GateOutcome(e, gate) \in Verdicts
<1> DEFINE f == e.packet["financial"]
<1>1. EquityGate(f, e.at) \in Verdicts /\ DailyLossGate(f, e.at) \in Verdicts
  BY DEF EquityGate, DailyLossGate, Verdict, Verdicts
<1>2. CompatibilityGate(f) \in Verdicts /\ RegimeGate(FinancialRegime(e)) \in Verdicts
  BY DEF CompatibilityGate, RegimeGate, Verdict, Verdicts
<1> HIDE DEF f
<1> QED
  BY <1>1, <1>2 DEF GateOutcome, Gates, Verdicts, f

MandateIsTheWorlds == admission # None => admission.mandate = world.admission.mandate

\* The admission of the evidence carries the mandate of the world's planner.
LEMMA MandatesAreTheWorlds == Spec => [](TypeOK /\ MandateIsTheWorlds)
<1>1. Init => MandateIsTheWorlds
  BY DEF Init, MandateIsTheWorlds
<1>2. ASSUME MandateIsTheWorlds, [Next]_vars
      PROVE  MandateIsTheWorlds'
  <2>1. ASSUME NEW p \in world.menu, Publish(p) PROVE MandateIsTheWorlds'
    BY <1>2, <2>1 DEF MandateIsTheWorlds, Publish
  <2>2. ASSUME NEW s \in Packets, Capture(s) PROVE MandateIsTheWorlds'
    BY <1>2, <2>2 DEF MandateIsTheWorlds, Capture
  <2>3. CASE Admit
    BY <1>2, <2>3 DEF MandateIsTheWorlds, Admit
  <2>4. CASE Tick
    BY <1>2, <2>4 DEF MandateIsTheWorlds, Tick
  <2>5. CASE UNCHANGED vars
    BY <1>2, <2>5 DEF MandateIsTheWorlds, vars
  <2> QED
    BY <1>2, <2>1, <2>2, <2>3, <2>4, <2>5 DEF Next
<1> QED
  BY <1>1, <1>2, DeskIsTyped, PTL DEF Spec

\* What an established feasibility rests on.
RiskRead(e) ==
  /\ AdmissionFits(e, "financial")
  /\ PlanAdmissible(e.packet["financial"].plan)
  /\ LifecycleAdmissible(e.packet["financial"].lifecycle, e.at)
RiskGranted(e) ==
  /\ RiskRead(e)
  /\ RiskNegatives(e) = {}
  /\ ~RiskUnresolved(e)
Granted(e) ==
  /\ e.packet["financial"] # None
  /\ PolicyAdmissible(e) /\ BindingAdmissible(e)
  /\ e.adm # None
  /\ RiskGranted(e)
  /\ \A n \in PolicyNodes(e) : n[2] = "SATISFIED"
  /\ \A c \in Claims : Compatible(e, c)
  /\ PolicyNamespace(e)

\* A risk basis without negatives or gaps is established.
LEMMA RiskIsGranted ==
  ASSUME NEW e, e.packet["financial"] # None, RiskBasis(e).outcome # "INVALID",
         RiskBasis(e).negatives = {}, ~RiskBasis(e).unresolved
  PROVE  /\ RiskBasis(e).outcome = "ESTABLISHED" /\ RiskBasis(e).value = RiskFunction(e)
         /\ RiskGranted(e)
<1> DEFINE negatives == RiskNegatives(e)
           invalid == \/ ~AdmissionFits(e, "financial") \/ ~PlanAdmissible(e.packet["financial"].plan)
                      \/ ~LifecycleAdmissible(e.packet["financial"].lifecycle, e.at)
                      \/ e.quote.bidTime > e.at \/ e.quote.askTime > e.at
<1>1. RiskBasis(e) = IF invalid THEN RiskAnswer("INVALID", None, {}, TRUE)
                     ELSE RiskOutcome(e, negatives, RiskUnresolved(e))
  BY DEF RiskBasis
<1>2. ~invalid
  <2> HIDE DEF invalid
  <2> QED
    BY <1>1 DEF RiskAnswer
<1>3. RiskBasis(e) = RiskOutcome(e, negatives, RiskUnresolved(e))
  BY <1>1, <1>2
<1>4. CASE negatives # {}
  <2>1. RiskBasis(e) = RiskAnswer("NOT_SUITABLE", None, negatives, RiskUnresolved(e))
    BY <1>3, <1>4 DEF RiskOutcome
  <2> HIDE DEF negatives
  <2> QED
    BY <1>4, <2>1 DEF RiskAnswer
<1>5. CASE negatives = {} /\ RiskUnresolved(e)
  <2>1. RiskBasis(e) = RiskAnswer("UNKNOWN", None, {}, TRUE)
    BY <1>3, <1>5 DEF RiskOutcome
  <2> QED
    BY <2>1 DEF RiskAnswer
<1>6. CASE negatives = {} /\ ~RiskUnresolved(e)
  <2>1. RiskBasis(e) = RiskAnswer("ESTABLISHED", RiskFunction(e), {}, FALSE)
    BY <1>3, <1>6 DEF RiskOutcome
  <2>2. RiskBasis(e).outcome = "ESTABLISHED" /\ RiskBasis(e).value = RiskFunction(e)
    BY <2>1 DEF RiskAnswer
  <2>3. RiskRead(e)
    BY <1>2 DEF RiskRead
  <2> QED
    BY <1>6, <2>2, <2>3 DEF RiskGranted
<1> QED
  BY <1>4, <1>5, <1>6

\* An answer that is established is that of a chain of grids nothing proves empty
\* and nothing leaves open.
LEMMA FeasibilityIsGranted ==
  ASSUME NEW e, Feasibility(e).outcome = "ESTABLISHED"
  PROVE  LET domain    == QuantityDomain(e)
             supported == Supported(domain.value, e.terms.maximumQuantity)
         IN  /\ Granted(e) /\ domain.outcome = "ESTABLISHED"
             /\ Feasibility(e).supported = supported /\ supported # EmptyGrid
             /\ supported # None =>
                  Feasibility(e).feasible = Feasible(supported, RiskFunction(e), Budget(e.packet["financial"]))
<1> DEFINE domain == QuantityDomain(e)
           risk == RiskBasis(e)
           nodes == PolicyNodes(e)
           entry == VenueGrid(domain)
           supported == SupportedGrid(e, entry, risk)
           feasible == FeasibleGrid(e, supported, risk, nodes)
           proved == \/ BlockingNodes(e, nodes) # {} \/ BlockingRisks(e, risk) # {} \/ BlockingClaims(e) # {}
                     \/ EmptyGrid \in {entry, supported, feasible}
           open   == \/ entry = None \/ OpenNodes(e, nodes) \/ OpenRisk(e, risk) \/ OpenClaims(e)
                     \/ ~PolicyNamespace(e)
<1>1. e.packet["financial"] # None /\ Feasibility(e) = FeasibilityOf(e, domain, risk, nodes)
  BY DEF Feasibility, NoResult
<1>2. /\ FeasibilityAdmissible(e, domain, risk)
      /\ Feasibility(e) = FeasibilityResult(e, risk, nodes, entry, supported, feasible)
  BY <1>1 DEF FeasibilityOf, NoResult
<1>3. Feasibility(e) =
        [outcome |-> IF proved THEN "NOT_SUITABLE" ELSE IF open THEN "UNKNOWN" ELSE "ESTABLISHED",
         entry |-> entry, supported |-> supported, feasible |-> feasible]
  BY <1>2 DEF FeasibilityResult
<1>4. ~proved /\ ~open /\ Feasibility(e).supported = supported /\ Feasibility(e).feasible = feasible
  <2> HIDE DEF proved, open, entry, supported, feasible
  <2> QED
    BY <1>3
<1>5. risk.outcome # "INVALID" /\ risk.negatives = {} /\ ~risk.unresolved
  BY <1>2, <1>4 DEF FeasibilityAdmissible, OpenRisk
<1>6. risk.outcome = "ESTABLISHED" /\ risk.value = RiskFunction(e) /\ RiskGranted(e)
  BY <1>1, <1>5, RiskIsGranted
<1>7. RiskHolds(e, risk) /\ e.adm # None
  BY <1>4, <1>6 DEF OpenRisk, RiskHolds, Admitted, AdmissionCurrent
<1>8. \A c \in Claims : Compatible(e, c)
  BY <1>4 DEF OpenClaims
<1>9. \A n \in nodes : n[2] = "SATISFIED" /\ Admitted(e, n[1])
  <2>1. ASSUME NEW n \in nodes PROVE n[2] \in Verdicts
    <3>1. CASE \E gate \in Gates : n = <<gate, GateOutcome(e, gate)>>
      BY <3>1, GatesGetVerdicts
    <3>2. CASE \E rule \in SelectedRules(e) : n = <<rule.id, RuleOutcome(e, rule)>>
      BY <3>2, RulesGetVerdicts
    <3> QED
      BY <3>1, <3>2 DEF PolicyNodes
  <2> HIDE DEF nodes
  <2> QED
    BY <1>4, <2>1 DEF OpenNodes, BlockingNodes, Verdicts
<1>10. domain.outcome = "ESTABLISHED" /\ entry = domain.value
  BY <1>4 DEF VenueGrid
<1>11. supported = Supported(domain.value, e.terms.maximumQuantity)
  BY <1>4, <1>6, <1>7, <1>8, <1>10 DEF SupportedGrid, RiskFunction
<1>12. supported # None => feasible = Feasible(supported, RiskFunction(e), Budget(e.packet["financial"]))
  BY <1>4, <1>6, <1>8, <1>9 DEF FeasibleGrid, PolicyHolds, Claims
<1>13. Granted(e)
  <2> HIDE DEF proved, entry, supported, feasible, domain, risk
  <2> QED
    BY <1>1, <1>2, <1>4, <1>6, <1>7, <1>8, <1>9 DEF Granted, FeasibilityAdmissible
<1> HIDE DEF domain, risk, nodes, entry, supported, feasible, open
<1>14. supported # EmptyGrid
  BY <1>4
<1> QED
  BY <1>4, <1>10, <1>11, <1>12, <1>13, <1>14 DEF domain, supported, feasible

\* What an established composition rests on.
LEMMA CompositionIsGranted ==
  ASSUME NEW e, Composition(e).outcome = "ESTABLISHED"
  PROVE  /\ Feasibility(e).outcome = "ESTABLISHED" /\ PositionEffect(e).outcome = "ESTABLISHED"
         /\ Limits(e).outcome = "ESTABLISHED" /\ SameOriginals(e)
         /\ ~IsEmpty(Clip(Feasibility(e).feasible, PositionEffect(e).value))
         /\ Composition(e).domain = Clip(Feasibility(e).feasible, Limits(e).domain)
         /\ Composition(e).domain # EmptyGrid
<1> DEFINE financial == Feasibility(e)
           terminal == Limits(e)
           effect == PositionEffect(e)
           support == Clip(financial.supported, effect.value)
           common == Clip(financial.feasible, effect.value)
           some == \E x \in terminal.excluded : Exhausts(x, common, effect.value)
           domain == Composed(financial.feasible, support, common, terminal, effect.value)
<1>1. /\ "INVALID" \notin { financial.outcome, terminal.outcome } /\ SameOriginals(e)
      /\ Composition(e) = IF financial.outcome = "ESTABLISHED" /\ effect.outcome = "ESTABLISHED"
                            THEN CompositionResult(financial, terminal, domain)
                            ELSE CompositionResult(financial, terminal, None)
  BY DEF Composition, CompositionOf, NoComposition
<1> HIDE DEF financial, terminal, effect
<1>2. ASSUME NEW d, CompositionResult(financial, terminal, d).outcome = "ESTABLISHED"
      PROVE  d # EmptyGrid /\ d # None /\ CompositionResult(financial, terminal, d).domain = d
  BY <1>2 DEF CompositionResult, NoComposition
<1>3. financial.outcome = "ESTABLISHED" /\ effect.outcome = "ESTABLISHED"
  BY <1>1, <1>2
<1>4. domain # EmptyGrid /\ domain # None /\ Composition(e).domain = domain
  <2> HIDE DEF domain
  <2> QED
    BY <1>1, <1>2, <1>3
<1>5. ~IsEmpty(common) /\ terminal.outcome = "ESTABLISHED" /\ domain = Clip(financial.feasible, terminal.domain)
  BY <1>4 DEF Composed
<1> QED
  BY <1>1, <1>3, <1>4, <1>5 DEF financial, terminal, effect

\* A record replaces a record, nothing, or something unknown.
Replaceable(r) == r.pred \in {NoPred, UnknownPred} \/ r.pred = PredRecord(r.pred.id)

\* In a chain in which nothing takes effect before what it replaces, the records
\* in force are those in effect that nothing in effect replaces.
LEMMA CurrentIsUnreplaced ==
  ASSUME NEW inv, NEW at \in Int, \A r, s \in inv.records : r.id = s.id => r = s, ~Backwards(inv),
         \A r \in inv.records : r.from \in Int /\ Replaceable(r)
  PROVE  Current(inv, at) = { r \in InEffect(inv, at) : \A s \in InEffect(inv, at) : s.pred # PredRecord(r.id) }
<1> DEFINE N == Ids(inv)
           L == ParentLinks(inv)
<1>0. L \in SUBSET (N \X N) /\ Descends(inv) = Reach(N, L)
  BY LinksJoinRecords, DescentIsReach
<1>1. ASSUME NEW r \in inv.records
      PROVE  r.id \in N /\ RecordOf(inv, r.id) = r
  BY DEF RecordOf, Ids
<1>2. ASSUME NEW s \in inv.records, NEW r \in inv.records
      PROVE  s.pred = PredRecord(r.id) <=> <<s.id, r.id>> \in L
  <2>1. ASSUME <<s.id, r.id>> \in L
        PROVE  s.pred = PredRecord(r.id)
    <3>1. PICK x \in Named(inv) : x.id = s.id /\ x.pred.id = r.id
      BY <2>1 DEF ParentLinks
    <3>2. x = s /\ s.pred.kind = "RECORD"
      BY <3>1 DEF Named
    <3> QED
      BY <3>1, <3>2 DEF Replaceable, NoPred, UnknownPred
  <2>2. ASSUME s.pred = PredRecord(r.id)
        PROVE  <<s.id, r.id>> \in L
    BY <2>2, <1>1 DEF ParentLinks, Named, PredRecord
  <2> QED
    BY <2>1, <2>2
<1>3. ASSUME NEW s \in InEffect(inv, at), NEW r \in InEffect(inv, at), <<s.id, r.id>> \in Reach(N, L)
      PROVE  \E x \in InEffect(inv, at) : <<x.id, r.id>> \in L
  <2> DEFINE early == { a \in N : RecordOf(inv, a).from <= s.from }
  <2>1. s \in inv.records /\ r \in inv.records /\ s.from <= at /\ s.id \in N /\ r.id \in N
    BY <1>1 DEF InEffect
  <2>2. ASSUME NEW l \in L, l[1] \in early \cup {s.id}
        PROVE  l[2] \in early
    <3>1. l[1] \in N /\ l[2] \in N
      BY <1>0
    <3>2. PICK a \in inv.records, b \in inv.records : a.id = l[1] /\ b.id = l[2]
      BY <3>1 DEF Ids
    <3>3. RecordOf(inv, l[1]) = a /\ RecordOf(inv, l[2]) = b /\ RecordOf(inv, s.id) = s
      BY <1>1, <2>1, <3>2
    <3>4. ~(a.from < b.from)
      BY <3>3 DEF Backwards
    <3>5. a.from <= s.from
      BY <2>1, <2>2, <3>3
    <3> QED
      BY <2>1, <3>1, <3>3, <3>4, <3>5
  <2>3. early \in SUBSET N
    OBVIOUS
  <2>4. ASSUME NEW a \in N, <<s.id, a>> \in Reach(N, L)
        PROVE  a \in early
    <3> HIDE DEF early
    <3> QED
      BY <2>2, <2>3, <2>4 DEF Reach
  <2>5. CASE <<s.id, r.id>> \in L
    BY <2>5
  <2>6. CASE <<s.id, r.id>> \notin L
    <3>1. PICK y \in N : <<s.id, y>> \in Reach(N, L) /\ <<y, r.id>> \in L
      BY <1>0, <1>3, <2>1, <2>6, ReachEndsWithLink
    <3>2. PICK x \in inv.records : x.id = y
      BY DEF Ids
    <3>3. x.from <= s.from
      BY <1>1, <2>4, <3>1, <3>2
    <3>4. x \in InEffect(inv, at)
      BY <2>1, <3>2, <3>3 DEF InEffect
    <3> QED
      BY <3>1, <3>2, <3>4
  <2> QED
    BY <2>5, <2>6
<1>4. ASSUME NEW s \in InEffect(inv, at), NEW r \in InEffect(inv, at), s.pred = PredRecord(r.id)
      PROVE  <<s.id, r.id>> \in Reach(N, L)
  <2>1. s \in inv.records /\ r \in inv.records /\ <<s.id, r.id>> \in L
    BY <1>2, <1>4 DEF InEffect
  <2>2. s.id \in N /\ r.id \in N
    BY <1>1, <2>1
  <2> HIDE DEF N, L
  <2> QED
    BY <1>0, <2>1, <2>2, LinkReaches
<1>5. ASSUME NEW r \in InEffect(inv, at)
      PROVE  (\A s \in InEffect(inv, at) : <<s.id, r.id>> \notin Reach(N, L))
             <=> \A s \in InEffect(inv, at) : s.pred # PredRecord(r.id)
  <2>1. \A x \in InEffect(inv, at) : <<x.id, r.id>> \in L => x.pred = PredRecord(r.id)
    BY <1>2 DEF InEffect
  <2> HIDE DEF N, L
  <2>2. ASSUME NEW s \in InEffect(inv, at), <<s.id, r.id>> \in Reach(N, L)
        PROVE  \E x \in InEffect(inv, at) : x.pred = PredRecord(r.id)
    BY <1>3, <2>1, <2>2
  <2> QED
    BY <1>4, <2>2
<1> HIDE DEF N, L
<1> QED
  BY <1>0, <1>5 DEF Current

-----------------------------------------------------------------------------
(* The terms in force.                                                     *)

\* A stream declares records of their own identity.
LEMMA DeclaredAreIdentified ==
  ASSUME TypeOK, NEW topic \in Streams, NEW t
  PROVE  /\ IsFiniteSet(Declared(topic, t))
         /\ \A r, s \in Declared(topic, t) : r.id = s.id => r = s
         /\ \A r \in Declared(topic, t) : r.from \in Int /\ Replaceable(r)
<1> DEFINE P == Posted(topic, t)
           rec == [p \in P |-> [id |-> p.item.id, kind |-> p.item.kind, pred |-> p.item.pred,
                                from |-> p.item.from, until |-> p.item.until,
                                published |-> posted[p], body |-> p.item.body]]
           later == { rec[p] : p \in P }
           first == world.declared[topic]
           records == first \cup { p.item : p \in { p \in world.menu : p.topic = topic } }
<1>1. Declared(topic, t) = first \cup later
  BY DEF Declared
<1>2. /\ IsFiniteSet(first) /\ \A r, s \in records : r.id = s.id => r = s
      /\ \A p, q \in P : p.item = q.item => p = q
      /\ \A p \in P : p.item \notin first
      /\ \A r \in records : r.from \in Int /\ Replaceable(r)
  BY TermsAreCounted DEF TypeOK, Posted, Replaceable
<1>3. \A p \in P : p.item \in records /\ rec[p].id = p.item.id /\ rec[p].from = p.item.from /\ rec[p].pred = p.item.pred
  BY DEF Posted
<1>4. IsFiniteSet(P)
  BY WorldsAreFinite, FS_Subset DEF Posted, TypeOK
<1>5. \A y \in later : \E p \in P : y = rec[p]
  OBVIOUS
<1>6. first \subseteq records
  OBVIOUS
<1> HIDE DEF P, rec, later, first, records
<1>7. IsFiniteSet(later)
  BY <1>4, <1>5, ImageIsFinite
<1>8. IsFiniteSet(Declared(topic, t))
  <2>1. IsFiniteSet(first)
    BY <1>2
  <2> QED
    BY <1>1, <1>7, <2>1, FS_Union
<1>9. ASSUME NEW r \in Declared(topic, t), NEW s \in Declared(topic, t), r.id = s.id
      PROVE  r = s
  <2>1. CASE r \in first /\ s \in first
    BY <1>2, <1>6, <1>9, <2>1
  <2>2. CASE r \in first /\ s \in later
    BY <1>2, <1>3, <1>5, <1>6, <1>9, <2>2
  <2>3. CASE r \in later /\ s \in first
    BY <1>2, <1>3, <1>5, <1>6, <1>9, <2>3
  <2>4. CASE r \in later /\ s \in later
    BY <1>2, <1>3, <1>5, <1>9, <2>4
  <2> QED
    BY <1>1, <2>1, <2>2, <2>3, <2>4
<1>10. ASSUME NEW r \in Declared(topic, t)
       PROVE  r.from \in Int /\ Replaceable(r)
  BY <1>1, <1>2, <1>3, <1>5, <1>6 DEF Replaceable
<1> QED
  BY <1>8, <1>9, <1>10

\* An inventory resolves at now only if it was captured now and omits nothing.
LEMMA ResolvedIsCapturedNow ==
  ASSUME NEW topic, NEW t, Resolves(Inventory(topic, t), now)
  PROVE  t = now /\ ~Blurred(topic)
<1> DEFINE c == Inventory(topic, t).coverage
<1>1. c.revisions = "COMPLETE" /\ c.cutoff = now
  BY DEF Resolves, CoveredThrough
<1>2. c.revisions = (IF Blurred(topic) THEN "INCOMPLETE" ELSE "COMPLETE") /\ c.cutoff = t
  BY DEF Inventory
<1> QED
  BY <1>1, <1>2

\* The terms an entry is computed with.
Entered == {"grid", "effect"}

\* A capture of now that omits nothing says all that is declared of them.
LEMMA TermsAreCaptured ==
  ASSUME NEW topic \in Entered, ~Blurred(topic)
  PROVE  Inventory(topic, now).records =
           { [id |-> r.id, kind |-> r.kind, pred |-> r.pred, from |-> r.from, until |-> r.until,
              published |-> r.published, body |-> r.body] : r \in Declared(topic, now) }
<1>1. topic # "projection" /\ topic # "floors"
  BY DEF Entered
<1> QED
  BY <1>1 DEF Inventory

\* Terms that resolve are the only ones in force: those of one declaration that
\* holds now.
LEMMA TermsAreTrue ==
  ASSUME TypeOK, LastInstant \in Nat, NEW topic \in Entered, Resolves(Inventory(topic, now), now),
         Consistent(Inventory(topic, now))
  PROVE  \E r \in Declared(topic, now) :
           /\ TrueTerms(topic) = {r} /\ InForceNow(r)
           /\ InForce(Inventory(topic, now), now).body = r.body
<1> DEFINE inv == Inventory(topic, now)
           D == Declared(topic, now)
           shown == [r \in D |-> [id |-> r.id, kind |-> r.kind, pred |-> r.pred, from |-> r.from, until |-> r.until,
                                  published |-> r.published, body |-> r.body]]
<1>1. now \in Int /\ topic \in Streams /\ ~Blurred(topic)
  BY ResolvedIsCapturedNow DEF TypeOK, Streams, Entered
<1>2. inv.records = { shown[r] : r \in D }
  BY <1>1, TermsAreCaptured
<1>3. /\ IsFiniteSet(D) /\ \A r, s \in D : r.id = s.id => r = s
      /\ \A r \in D : r.from \in Int /\ Replaceable(r)
  BY <1>1, DeclaredAreIdentified
<1>4. \A r \in D : /\ shown[r].id = r.id /\ shown[r].kind = r.kind /\ shown[r].pred = r.pred
                   /\ shown[r].from = r.from /\ shown[r].until = r.until /\ shown[r].body = r.body
  OBVIOUS
<1>5. inv.coverage.roots = { r.id : r \in { r \in D : r.pred = NoPred } }
  BY <1>1 DEF Inventory
<1>6. \A x \in inv.records : \E r \in D : x = shown[r]
  BY <1>2
<1>7. \A x \in inv.coverage.roots : \E r \in D : x = r.id
  BY <1>5
<1> DEFINE id == [r \in D |-> r.id]
<1>8. \A x \in inv.coverage.roots : \E r \in D : x = id[r]
  BY <1>7
<1>9. \A r \in D : shown[r] \in inv.records
  BY <1>2
<1> HIDE DEF shown, D, inv, id
<1>10. IsFiniteSet(inv.records) /\ IsFiniteSet(inv.coverage.roots)
  BY <1>3, <1>6, <1>8, ImageIsFinite
<1>11. \A x, y \in inv.records : x.id = y.id => x = y
  BY <1>3, <1>4, <1>6
<1>12. Read(inv) /\ Resolves(inv, now)
  BY <1>10, <1>11 DEF Read, inv
<1>13. /\ Current(inv, now) = {InForce(inv, now)}
       /\ InForce(inv, now).kind = "DECLARE"
       /\ Within(InForce(inv, now).from, InForce(inv, now).until, now)
  BY <1>12, TermsInForceAreUnique
<1>14. \A x \in inv.records : x.from \in Int /\ Replaceable(x)
  BY <1>3, <1>4, <1>6 DEF Replaceable
<1>15. Current(inv, now) =
         { r \in InEffect(inv, now) : \A s \in InEffect(inv, now) : s.pred # PredRecord(r.id) }
  BY <1>1, <1>11, <1>12, <1>14, CurrentIsUnreplaced DEF Resolves
<1> DEFINE known == { r \in D : r.from <= now }
<1>16. TrueTerms(topic) = { r \in known : \A s \in known : s.pred # PredRecord(r.id) }
  BY DEF TrueTerms, D
<1>17. ASSUME NEW r \in D PROVE r \in known <=> shown[r] \in InEffect(inv, now)
  BY <1>4, <1>9 DEF InEffect
<1>18. \A x \in InEffect(inv, now) : \E r \in known : x = shown[r]
  BY <1>4, <1>6 DEF InEffect
<1>19. ASSUME NEW r \in D PROVE r \in TrueTerms(topic) <=> shown[r] \in Current(inv, now)
  <2> HIDE DEF known
  <2>1. known \subseteq D
    BY DEF known
  <2> QED
    BY <1>4, <1>15, <1>16, <1>17, <1>18, <2>1
<1>20. PICK r \in D : InForce(inv, now) = shown[r]
  BY <1>6, <1>13 DEF Current, InEffect
<1>21. TrueTerms(topic) = {r}
  <2>1. TrueTerms(topic) \subseteq D
    BY DEF TrueTerms, D
  <2>2. r \in TrueTerms(topic)
    BY <1>13, <1>19, <1>20
  <2>3. ASSUME NEW s \in TrueTerms(topic) PROVE s = r
    <3>1. s \in D /\ shown[s] = shown[r]
      BY <1>13, <1>19, <1>20, <2>1
    <3> QED
      BY <1>3, <1>4, <3>1
  <2> QED
    BY <2>2, <2>3
<1> QED
  BY <1>4, <1>13, <1>20, <1>21 DEF InForceNow, Within, D, inv

\* The order: nothing about it stands against a loss function.
LEMMA NothingStandsAgainstIt ==
  ASSUME NEW e, RiskNegatives(e) = {}
  PROVE  /\ ~CandidateFails(e) /\ ~PayoffUnusable(e) /\ ~PlanForbids(e) /\ ~MandateExpired(e)
         /\ e.terms.costs # "INCOMPLETE" /\ ~QuoteUnusable(e) /\ ~StopUnusable(e)
<1> DEFINE Against(n) == CASE n = "candidate" -> CandidateFails(e)
                           [] n = "payoff"    -> PayoffUnusable(e)
                           [] n = "plan"      -> PlanForbids(e)
                           [] n = "mandate"   -> MandateExpired(e)
                           [] n = "costs"     -> e.terms.costs = "INCOMPLETE"
                           [] n = "quote"     -> QuoteUnusable(e)
                           [] n = "stop"      -> StopUnusable(e)
<1>1. \A n \in {"candidate", "payoff", "plan", "mandate", "costs", "quote", "stop"} : ~Against(n)
  BY DEF RiskNegatives
<1>2. ~Against("candidate") /\ ~Against("payoff") /\ ~Against("plan") /\ ~Against("mandate")
      /\ ~Against("costs") /\ ~Against("quote") /\ ~Against("stop")
  BY <1>1
<1> QED
  BY <1>2

\* Orders are counted.
LEMMA OrderIsCounted ==
  ASSUME TypeOK
  PROVE  LET q == world.request.quote
             t == world.request.terms
         IN  /\ world.request.direction \in {"LONG", "SHORT"}
             /\ {world.request.stop, q.bid, q.ask, t.minimumClearance, t.maximumQuantity} \subseteq Int
             /\ {t.entryAllowance, t.stopAllowance} \subseteq Nat
             /\ t.charges \in Seq(Charge)
             /\ \A r \in DOMAIN world.revisions :
                  /\ world.revisions[r].coefficient \in Nat \ {0}
                  /\ world.revisions[r].payoff \in {"COMPLETE", "INCOMPLETE", "ABSENT", "UNSUPPORTED", "NONUNIFORM"}
             /\ world.same \subseteq Claims
BY OrdersAreCounted DEF TypeOK, Charge

\* An order nothing speaks against is one that can be placed and priced.
LEMMA OrderIsPossible ==
  ASSUME TypeOK, world.asked = "entry", RiskNegatives(Evidence) = {}
  PROVE  OrderStands
<1> DEFINE e == Evidence
           t == world.request.terms
           q == world.request.quote
           long == world.request.direction = "LONG"
<1>1. /\ e.direction = world.request.direction /\ e.stop = world.request.stop
      /\ e.quote = q /\ e.terms = t /\ e.candidate = world.request.candidate
  BY EvidenceIsCaptured
<1>2. /\ ~CandidateFails(e) /\ t.costs # "INCOMPLETE" /\ ~QuoteUnusable(e) /\ ~StopUnusable(e)
  BY <1>1, NothingStandsAgainstIt
<1>3. /\ world.request.direction \in {"LONG", "SHORT"}
      /\ world.request.stop \in Int /\ q.bid \in Int /\ q.ask \in Int /\ t.minimumClearance \in Int
      /\ t.entryAllowance \in Nat /\ t.stopAllowance \in Nat
  BY OrderIsCounted
<1> HIDE DEF e
<1>4. e.direction = "LONG" <=> long
  BY <1>1
<1>5. /\ (e.stop - t.tickOrigin) % t.tick = 0
      /\ t.trigger \in {"UNKNOWN", IF long THEN "BID_AT_MOST" ELSE "ASK_AT_LEAST"}
  BY <1>1, <1>2 DEF StopUnusable, Side
<1>6. ~(Clearance(e) <= 0) /\ ~(Clearance(e) < t.minimumClearance)
  BY <1>1, <1>2 DEF StopUnusable
<1>7. Clearance(e) = IF long THEN q.bid - world.request.stop ELSE world.request.stop - q.ask
  BY <1>1, <1>3 DEF Clearance, Side
<1>8. IF long THEN t.stopAllowance < world.request.stop ELSE t.entryAllowance < q.bid
  <2>1. ~(AdverseEntry(e) <= 0) /\ ~(AdverseFill(e) <= 0)
    BY <1>2 DEF StopUnusable
  <2> QED
    BY <1>1, <1>3, <2>1 DEF AdverseEntry, AdverseFill
<1>9. ~(q.bid <= 0) /\ ~(q.bid > q.ask) /\ q.bidTime = q.askTime
  BY <1>1, <1>2 DEF QuoteUnusable
<1>10. world.request.candidate \notin {"INVALIDATED", "EXPIRED"}
  BY <1>1, <1>2 DEF CandidateFails
<1>11. 0 < q.bid /\ q.bid <= q.ask
  BY <1>3, <1>9
<1>12. LET margin == IF long THEN q.bid - world.request.stop ELSE world.request.stop - q.ask
       IN  margin > 0 /\ margin >= t.minimumClearance
  BY <1>3, <1>6, <1>7
<1> QED
  BY <1>1, <1>2, <1>5, <1>8, <1>9, <1>10, <1>11, <1>12 DEF OrderStands, request

-----------------------------------------------------------------------------
(* The time of the answer.                                                 *)

\* A domain of quantities that is answered is the grid of the terms that resolve ...
LEMMA DomainIsOfTheGrid ==
  ASSUME NEW e, QuantityDomain(e).outcome = "ESTABLISHED"
  PROVE  LET inv == e.packet["financial"].grid
         IN  /\ GridAdmissible(e) /\ Resolves(inv, e.at)
             /\ QuantityDomain(e).value = Descriptor(InForce(inv, e.at).body)
             /\ ~IsEmpty(Descriptor(InForce(inv, e.at).body))
BY DEF QuantityDomain, Invalid, Unknown, Unsuitable, Established, Answer

\* ... and those were captured now, out of a stream that leaves nothing out.
LEMMA AnsweredNow ==
  ASSUME TypeOK, world.asked = "entry", QuantityDomain(Evidence).outcome = "ESTABLISHED",
         Evidence.packet["financial"] # None
  PROVE  /\ taken["financial"] = now /\ Evidence.packet["financial"] = Financial(now)
         /\ Financial(now).grid = Inventory("grid", now)
         /\ Resolves(Inventory("grid", now), now) /\ GridAdmissible(Evidence)
         /\ Consistent(Inventory("grid", now))
<1> DEFINE t == taken["financial"]
<1>1. Evidence.packet["financial"] = Financial(t) /\ Evidence.at = now
  BY EvidenceIsCaptured DEF Captured
<1>2. Financial(t).grid = Inventory("grid", t)
  BY DEF Financial
<1>3. GridAdmissible(Evidence) /\ Resolves(Inventory("grid", t), now)
  BY <1>1, <1>2, DomainIsOfTheGrid
<1>4. t = now
  BY <1>3, ResolvedIsCapturedNow
<1>5. Consistent(Inventory("grid", t))
  BY <1>1, <1>2, <1>3 DEF GridAdmissible
<1> QED
  BY <1>1, <1>2, <1>3, <1>4, <1>5

\* A position effect that is answered is the interval of the terms that resolve ...
LEMMA EffectIsOfTheInterval ==
  ASSUME NEW e, PositionEffect(e).outcome = "ESTABLISHED"
  PROVE  LET inv == e.packet["position"].effect
         IN  /\ e.packet["position"] # None /\ EffectAdmissible(e) /\ Resolves(inv, e.at)
             /\ AccountIsFlat(e) /\ NoCommitments(e)
             /\ InForce(inv, e.at).body.mechanics = "SUPPORTED"
             /\ PositionEffect(e).value =
                  Interval(InForce(inv, e.at).body.range.min, InForce(inv, e.at).body.range.max)
BY DEF PositionEffect, Invalid, Unknown, Established, Answer

\* ... captured now, too.
LEMMA EffectAnsweredNow ==
  ASSUME TypeOK, world.asked = "entry", PositionEffect(Evidence).outcome = "ESTABLISHED"
  PROVE  /\ taken["position"] = now /\ Evidence.packet["position"] = PositionPacket(now)
         /\ Evidence.packet["position"] # None
         /\ PositionPacket(now).effect = Inventory("effect", now)
         /\ Resolves(Inventory("effect", now), now) /\ EffectAdmissible(Evidence)
         /\ Consistent(Inventory("effect", now))
<1> DEFINE t == taken["position"]
<1>1. Evidence.packet["position"] = PositionPacket(t) /\ Evidence.at = now /\ Evidence.packet["position"] # None
  BY EvidenceIsCaptured, EffectIsOfTheInterval DEF Captured
<1>2. PositionPacket(t).effect = Inventory("effect", t)
  BY DEF PositionPacket
<1>3. EffectAdmissible(Evidence) /\ Resolves(Inventory("effect", t), now)
  BY <1>1, <1>2, EffectIsOfTheInterval
<1>4. t = now
  BY <1>3, ResolvedIsCapturedNow
<1>5. Consistent(Inventory("effect", t))
  BY <1>1, <1>2, <1>3 DEF EffectAdmissible
<1> QED
  BY <1>1, <1>2, <1>3, <1>4, <1>5

-----------------------------------------------------------------------------
(* The specification, the plan and the mandate.                            *)

\* What is named as applying is a revision some statement names.
LEMMA PositiveIsNamed ==
  ASSUME NEW report, NEW t, NEW r \in Positive(Active(report, t))
  PROVE  r \in UNION { Named2(s) : s \in Statements(report) }
<1> DEFINE active == Active(report, t)
<1>1. PICK s \in active : \/ s.kind = "APPLIES" /\ s.revision = r
                          \/ s.kind = "SUPERSEDES" /\ s.after = r
  BY DEF Positive, Replacing
<1>2. r \in Named2(s)
  BY <1>1 DEF Named2
<1>3. PICK a \in Originals(report) : s = Standing(report, a) /\ s # None
  BY DEF Active
<1>4. CASE CorrectionsOf(report, a) = {}
  BY <1>2, <1>3, <1>4 DEF Standing, Statements
<1>5. CASE CorrectionsOf(report, a) # {}
  <2>1. PICK c \in CorrectionsOf(report, a) : s = c.says.by
    BY <1>3, <1>5 DEF Standing
  <2>2. s \in Statements(report)
    BY <1>3, <2>1 DEF CorrectionsOf, Statements
  <2> QED
    BY <1>2, <2>2
<1> QED
  BY <1>4, <1>5

\* A revision that is selected is one the report names as applying.
LEMMA ApplicableIsNamed ==
  ASSUME NEW report, NEW t, NEW k, Applicable(report, t, k).selected # None
  PROVE  /\ Applicable(report, t, k).outcome = "UNIQUE"
         /\ Applicable(report, t, k).selected \in Positive(Active(report, t))
<1> DEFINE active == Active(report, t)
           candidates == Positive(active) \ Displaced(active)
           open == \/ report.completeness # "COMPLETE" \/ report.cutoff < k \/ ~Interpretable(report)
                   \/ Contradicts(report, active, t)
<1>1. Applicable(report, t, k) = IF open THEN Unresolved ELSE Selected(report, active)
  BY DEF Applicable
<1>2. Applicable(report, t, k) = Selected(report, active)
  <2> HIDE DEF open
  <2> QED
    BY <1>1 DEF Unresolved, Resolution
<1>3. CASE Cardinality(candidates) = 1 /\ candidates # {}
  <2>1. Selected(report, active) = Resolution("UNIQUE", CHOOSE r \in candidates : TRUE)
    BY <1>3 DEF Selected
  <2>2. (CHOOSE r \in candidates : TRUE) \in candidates
    BY <1>3
  <2> QED
    BY <1>2, <2>1, <2>2 DEF Resolution
<1>4. CASE candidates = {}
  <2>1. Cardinality(candidates) # 1
    BY <1>4, FS_EmptySet
  <2>2. Selected(report, active) = Resolution("NONE", None)
    BY <1>4, <2>1 DEF Selected
  <2> QED
    BY <1>2, <2>2 DEF Resolution
<1>5. CASE Cardinality(candidates) # 1 /\ candidates # {}
  <2>1. Selected(report, active) = Unresolved
    BY <1>5 DEF Selected
  <2> QED
    BY <1>2, <2>1 DEF Resolution, Unresolved
<1> QED
  BY <1>3, <1>4, <1>5

\* The financial packet is one of now.
CapturedNow ==
  /\ TypeOK /\ world.asked = "entry"
  /\ taken["financial"] # None /\ taken["financial"] = now
  /\ Evidence.packet["financial"] = Financial(now)

\* The facts an established risk basis gives of the specification.
LEMMA SpecificationIsTrue ==
  ASSUME CapturedNow, LastInstant \in Nat, RiskGranted(Evidence)
  PROVE  /\ TrueRevisions(now) = {request.quote.revision} /\ TrueRevision = request.quote.revision
         /\ Specification(Evidence).selected = request.quote.revision
         /\ Specification(Evidence).selected # None
         /\ request.quote.revision \in DOMAIN world.revisions
         /\ Contract(Evidence) = world.revisions[TrueRevision]
         /\ world.revisions[TrueRevision].payoff = "COMPLETE"
<1> DEFINE e == Evidence
           report == Lifecycle(now)
           r == request.quote.revision
<1>1. /\ e.packet["financial"] = Financial(now) /\ e.at = now /\ e.quote = request.quote
      /\ Financial(now).lifecycle = report
  BY EvidenceIsCaptured DEF CapturedNow, Financial, request
<1>2. RiskRead(e) /\ RiskNegatives(e) = {} /\ ~RiskUnresolved(e)
  BY DEF RiskGranted
<1>3. LifecycleAdmissible(report, now)
  BY <1>1, <1>2 DEF RiskRead
<1>4. ~QuoteUnusable(e) /\ ~PayoffUnusable(e)
  BY <1>2, NothingStandsAgainstIt
<1>5. Specification(e) = Applicable(report, now, now)
  BY <1>1 DEF Specification
<1> HIDE DEF e, report
<1>6. Specification(e).selected # None /\ Contract(e).payoff # "INCOMPLETE"
  BY <1>2 DEF RiskUnresolved
<1>7. Specification(e).selected = r
  BY <1>1, <1>4, <1>6 DEF QuoteUnusable
<1>8. Contract(e).payoff \notin {"ABSENT", "UNSUPPORTED", "NONUNIFORM"}
  BY <1>4, <1>6 DEF PayoffUnusable
<1>9. Applicable(report, now, now).outcome = "UNIQUE" /\ r \in Positive(Active(report, now))
  BY <1>5, <1>6, <1>7, ApplicableIsNamed
<1>10. now \in -1 .. LastInstant + 1
  BY DEF CapturedNow, TypeOK
<1>11. SelectionIsTrue
  BY CaptureSelectsTruly DEF CapturedNow
<1>12. SelectsTruly(report, now)
  BY <1>3, <1>10, <1>11 DEF SelectionIsTrue, CapturedNow, report
<1>13. TrueRevisions(now) = {r}
  BY <1>5, <1>7, <1>9, <1>12 DEF SelectsTruly
<1>14. TrueRevision = r
  BY <1>13 DEF TrueRevision
<1>15. r \in DOMAIN world.revisions
  <2>1. r \in TrueRevisions(now)
    BY <1>13
  <2> QED
    BY <2>1 DEF TrueRevisions
<1>16. r \in DOMAIN report.revisions
  BY <1>3, <1>9, PositiveIsNamed DEF LifecycleAdmissible
<1>17. report.revisions[r] = world.revisions[r]
  BY <1>16 DEF report, Lifecycle
<1>18. Contract(e) = world.revisions[r]
  BY <1>1, <1>7, <1>17 DEF Contract
<1>19. world.revisions[r].payoff \in {"COMPLETE", "INCOMPLETE", "ABSENT", "UNSUPPORTED", "NONUNIFORM"}
  BY <1>15, OrderIsCounted DEF CapturedNow
<1> QED
  BY <1>6, <1>7, <1>8, <1>13, <1>14, <1>15, <1>18, <1>19 DEF e

\* The plan an established risk basis rests on lets the entry be made.
LEMMA PlanIsTrue ==
  ASSUME CapturedNow, LastInstant \in Nat, RiskGranted(Evidence)
  PROVE  TruePlan
<1> DEFINE e == Evidence
           plan == e.packet["financial"].plan
           D == Decisions(now)
           d == { i \in DOMAIN D : D[i].from <= now }
<1>1. e.at = now /\ plan.complete = ~Blurred("plan")
      /\ plan.decisions = IF Blurred("plan") THEN world.plan ELSE D
  BY EvidenceIsCaptured DEF CapturedNow, Financial
<1>2. ~PlanForbids(e) /\ ~RiskUnresolved(e)
  BY NothingStandsAgainstIt DEF RiskGranted
<1> HIDE DEF e, plan, D
<1>3. PlanCovers(plan, now) /\ Governing(plan, now) # None
  BY <1>1, <1>2 DEF RiskUnresolved, plan
<1>4. plan.decisions = D
  BY <1>1, <1>3 DEF PlanCovers
<1>5. d # {} /\ Governing(plan, now) = D[Max(d)]
  BY <1>3, <1>4 DEF Governing
<1> HIDE DEF d
<1>6. D[Max(d)].decision = "APPROVED" /\ Within(D[Max(d)].from, D[Max(d)].until, now)
      /\ ~OtherSpecificationApproved(e, D[Max(d)])
  BY <1>1, <1>2, <1>3, <1>5 DEF PlanForbids, plan
<1>7. Specification(e).selected = D[Max(d)].revision
  BY <1>6, SpecificationIsTrue DEF OtherSpecificationApproved, e
<1>8. TrueRevisions(now) = {D[Max(d)].revision}
  BY <1>7, SpecificationIsTrue DEF e
<1> QED
  BY <1>5, <1>6, <1>8 DEF TruePlan, Within, d, D

\* The mandate of the planner has not run out.
LEMMA MandateRuns ==
  ASSUME CapturedNow, MandateIsTheWorlds, admission # None, RiskNegatives(Evidence) = {}
  PROVE  now < world.admission.mandate
<1>1. ~MandateExpired(Evidence) /\ Evidence.adm = admission /\ Evidence.at = now
  BY NothingStandsAgainstIt, EvidenceIsCaptured DEF CapturedNow
<1>2. Within(admission.from, admission.mandate, now)
  BY <1>1 DEF MandateExpired, MandateCurrent
<1> QED
  BY <1>2 DEF MandateIsTheWorlds, Within

\* What every claim calls compatible is the same account and instrument.
LEMMA SubjectsAreTheSame ==
  ASSUME CapturedNow, \A c \in Claims : Compatible(Evidence, c)
  PROVE  world.same = Claims
<1>1. ASSUME NEW c \in Claims
      PROVE  c \in world.same
  <2> DEFINE said == CASE Blurred("claims") -> "UNKNOWN"
                       [] c \in world.same  -> "COMPATIBLE"
                       [] OTHER             -> "INCOMPATIBLE"
  <2>1. BindingOf(Evidence).claims[c] = "COMPATIBLE"
    BY DEF Compatible
  <2>2. BindingOf(Evidence).claims[c] = said
    BY DEF BindingOf, CapturedNow, Financial
  <2>3. said = "COMPATIBLE"
    BY <2>1, <2>2
  <2> QED
    BY <2>3
<1>2. world.same \subseteq Claims
  BY OrderIsCounted DEF CapturedNow
<1> QED
  BY <1>1, <1>2

-----------------------------------------------------------------------------
(* The account.                                                            *)

\* A policy all of whose nodes are satisfied has every gate satisfied.
LEMMA GatesAreSatisfied ==
  ASSUME NEW e, NEW gate \in Gates, \A n \in PolicyNodes(e) : n[2] = "SATISFIED"
  PROVE  GateOutcome(e, gate) = "SATISFIED"
<1>1. <<gate, GateOutcome(e, gate)>> \in PolicyNodes(e)
  BY DEF PolicyNodes
<1> QED
  BY <1>1

\* The balance and the equity of a statement are integers.
LEMMA AccountIsCounted ==
  ASSUME TypeOK, NEW t
  PROVE  Newest("account", t).balance \in Int /\ Newest("account", t).equity \in Int
<1> DEFINE accounts == {world.account} \cup { p.item : p \in { p \in world.menu : p.topic = "account" } }
<1>1. \A a \in accounts : {a.balance, a.equity} \subseteq Int
  BY AccountsAreCounted DEF TypeOK
<1>2. world["account"] = world.account
  OBVIOUS
<1>3. Newest("account", t) \in accounts
  BY <1>2, NewestIsOneOf
<1> HIDE DEF accounts
<1> QED
  BY <1>1, <1>3

\* An account that passes the gates has equity left.
LEMMA EquityIsLeft ==
  ASSUME CapturedNow, \A n \in PolicyNodes(Evidence) : n[2] = "SATISFIED"
  PROVE  /\ Newest("account", now).equity > 0
         /\ Financial(now).account.equity = Newest("account", now).equity
<1> DEFINE f == Financial(now)
           a == Newest("account", now)
<1>1. GateOutcome(Evidence, "EQUITY") = "SATISFIED" /\ Evidence.at = now
  BY GatesAreSatisfied, EvidenceIsCaptured DEF Gates, CapturedNow
<1>2. GateOutcome(Evidence, "EQUITY") = IF PolicyApplies(Evidence) THEN EquityGate(f, now) ELSE "UNKNOWN"
  BY <1>1 DEF GateOutcome, CapturedNow
<1>3. EquityGate(f, now) = "SATISFIED"
  BY <1>1, <1>2
<1>4. f.account.equity # None /\ ~(f.account.equity <= 0)
  BY <1>3 DEF EquityGate, Verdict
<1>5. f.account.equity = IF Blurred("equity") THEN None ELSE a.equity
  BY DEF Financial, Account
<1>6. a.equity \in Int
  BY AccountIsCounted DEF CapturedNow
<1> HIDE DEF f, a
<1> QED
  BY <1>4, <1>5, <1>6 DEF f, a

-----------------------------------------------------------------------------
(* The package in force.                                                   *)

\* A dated period holds, may hold or does not, as it should.
LEMMA PeriodsHold ==
  ASSUME NEW p \in Period, NEW t \in Int
  PROVE  /\ Holds(p, t) \in {"YES", "NO", "UNSURE"}
         /\ Holds(p, t) = "NO" <=> ~Holding(p, t)
         /\ Holds(p, t) = "YES" => p.from # None /\ p.until # None
<1> DEFINE no == (p.from # None /\ t < p.from) \/ (p.until # None /\ t >= p.until)
           unsure == p.from = None \/ p.until = None
<1>1. p.from \in Int \cup {None} /\ p.until \in Int \cup {None}
  BY DEF Period
<1>2. no <=> ~Holding(p, t)
  BY <1>1 DEF Holding
<1>3. Holds(p, t) = IF no THEN "NO" ELSE IF unsure THEN "UNSURE" ELSE "YES"
  BY DEF Holds
<1> QED
  BY <1>2, <1>3

\* A unique regime was told by a manifest and a phase that leave nothing out.
LEMMA RegimeIsTold ==
  ASSUME TypeOK, NEW r, r = Regime(Manifest(now), now), r.outcome = "UNIQUE"
  PROVE  LET m == Newest("regime", now)
             s == r.assignment
             told == Manifest(now)
         IN  /\ ~Blurred("manifest") /\ ~Blurred("phase")
             /\ told.assignments = m.assignments /\ told.approvals = m.approvals
             /\ \A k \in DOMAIN m.packages :
                  /\ told.packages[k].id = k /\ told.packages[k].period = m.packages[k].period
                  /\ told.packages[k].rules = { Stated(x, now) : x \in m.packages[k].rules }
             /\ s \in m.assignments /\ \E b \in Bound(told, s, now) : r.package = told.packages[b.package]
<1> DEFINE m == Newest("regime", now)
           s == r.assignment
           told == Manifest(now)
<1>1. /\ told.complete /\ s \in Assigned(told, now)
      /\ \E b \in Bound(told, s, now) : r.package = told.packages[b.package] /\ OnlyRegime(told, now, s, b.package)
  BY UniqueRegime DEF Regime
<1>2. told.complete = ~Blurred("manifest")
  BY DEF Manifest
<1>3. Sure({s.enrollment, s.phase}, now) /\ s \in told.assignments
  BY <1>1 DEF OnlyRegime, Assigned
<1>4. Holds(s.phase, now) = "YES"
  BY <1>3 DEF Sure
<1>5. s.phase.from # None
  BY <1>4 DEF Holds
<1>6. ~Blurred("phase")
  BY <1>3, <1>5, StartIsDimmed
<1>7. ~Blurred("manifest")
  BY <1>1, <1>2
<1>8. told.approvals = m.approvals
  BY DEF Manifest
<1>9. \A k \in DOMAIN m.packages : told.packages[k].rules = { Stated(x, now) : x \in m.packages[k].rules }
  BY DEF Manifest
<1>10. \A k \in DOMAIN m.packages : m.packages[k].id = k
  BY NewestRegimeIsDated DEF TypeOK
<1>11. /\ told.assignments = m.assignments
       /\ \A k \in DOMAIN m.packages : told.packages[k].id = m.packages[k].id
                                       /\ told.packages[k].period = m.packages[k].period
  BY <1>6, <1>7, ManifestTellsAll
<1> HIDE DEF m, told
<1> QED
  BY <1>1, <1>3, <1>6, <1>7, <1>8, <1>9, <1>10, <1>11 DEF m, told

\* Where one assignment and one package may hold, no other package is in force.
Alone(m, t, s, k) ==
  /\ \A a \in m.assignments : Holding(a.enrollment, t) /\ Holding(a.phase, t) => a = s
  /\ \A b \in s.packages : Holding(b.period, t) /\ Holding(m.packages[b.package].period, t) => b.package = k

\* Only that package can be in force ...
LEMMA NoOtherPackage ==
  ASSUME NEW t, NEW s, NEW k, Alone(Newest("regime", now), t, s, k)
  PROVE  TruePackages(t) \subseteq {Newest("regime", now).packages[k]}
<1> DEFINE m == Newest("regime", now)
           active == { a \in m.assignments : Holding(a.enrollment, t) /\ Holding(a.phase, t) }
           bound == { m.packages[b.package] : b \in { b \in UNION { a.packages : a \in active } :
                        Holding(b.period, t) /\ Holding(m.packages[b.package].period, t) } }
<1>1. bound \subseteq {m.packages[k]}
  BY DEF Alone
<1>2. TruePackages(t) \subseteq bound
  BY DEF TruePackages
<1> QED
  BY <1>1, <1>2

\* ... and it is, if it is approved and what binds it holds.
LEMMA ThePackage ==
  ASSUME NEW t, NEW s, NEW k, Alone(Newest("regime", now), t, s, k),
         s \in Newest("regime", now).assignments, Holding(s.enrollment, t), Holding(s.phase, t),
         NEW c \in s.packages, c.package = k, Holding(c.period, t),
         Holding(Newest("regime", now).packages[k].period, t), Newest("regime", now).packages[k].id = k,
         { a.decision : a \in { a \in Newest("regime", now).approvals :
                                 Holding(a.period, t) /\ a.assignment = s.id /\ a.package = k } } = {"APPROVED"}
  PROVE  TruePackages(t) = {Newest("regime", now).packages[k]}
<1> DEFINE m == Newest("regime", now)
           active == { a \in m.assignments : Holding(a.enrollment, t) /\ Holding(a.phase, t) }
           bound == { m.packages[b.package] : b \in { b \in UNION { a.packages : a \in active } :
                        Holding(b.period, t) /\ Holding(m.packages[b.package].period, t) } }
           decisions == { a.decision : a \in { a \in m.approvals : Holding(a.period, t)
                                            /\ \E x \in active : x.id = a.assignment
                                            /\ \E p \in bound : p.id = a.package } }
<1>1. TruePackages(t) = IF Cardinality(active) = 1 /\ Cardinality(bound) = 1 /\ decisions = {"APPROVED"}
                          THEN bound ELSE {}
  BY DEF TruePackages
<1>2. active = {s}
  BY DEF Alone
<1>3. bound = {m.packages[k]}
  <2>1. bound \subseteq {m.packages[k]}
    BY DEF Alone
  <2>2. m.packages[c.package] \in bound
    BY <1>2
  <2> QED
    BY <2>1, <2>2
<1> HIDE DEF active, bound
<1>4. decisions = {"APPROVED"}
  <2>1. decisions = { a.decision : a \in { a \in m.approvals :
                                             Holding(a.period, t) /\ a.assignment = s.id /\ a.package = k } }
    BY <1>2, <1>3
  <2> QED
    BY <2>1
<1>5. Cardinality(active) = 1 /\ Cardinality(bound) = 1
  BY <1>2, <1>3, FS_Singleton
<1> HIDE DEF decisions
<1> QED
  BY <1>1, <1>3, <1>4, <1>5

\* A unique regime is that of the package in force.
LEMMA RegimeIsTrue ==
  ASSUME TypeOK, NEW r, r = Regime(Manifest(now), now), r.outcome = "UNIQUE"
  PROVE  \E k \in DOMAIN Newest("regime", now).packages :
           /\ TruePackages(now) = {Newest("regime", now).packages[k]} /\ r.package = Manifest(now).packages[k]
           /\ r.package.id = k
           /\ RulesOf(r) = { Stated(x, now) : x \in Newest("regime", now).packages[k].rules }
           /\ TrueRules(now) = Newest("regime", now).packages[k].rules
<1> DEFINE m == Newest("regime", now)
           s == r.assignment
           told == Manifest(now)
<1>0. now \in Int /\ world \in Worlds
  BY BoundariesAreCounted DEF TypeOK
<1>1. /\ told.assignments = m.assignments /\ told.approvals = m.approvals
      /\ \A k \in DOMAIN m.packages :
           /\ told.packages[k].id = k /\ told.packages[k].period = m.packages[k].period
           /\ told.packages[k].rules = { Stated(x, now) : x \in m.packages[k].rules }
      /\ s \in m.assignments
  BY RegimeIsTold
<1>2. PICK c \in Bound(told, s, now) :
        /\ r.package = told.packages[c.package] /\ OnlyRegime(told, now, s, c.package)
        /\ s \in Assigned(told, now)
  BY UniqueRegime DEF Regime
<1> DEFINE k == c.package
<1>3. /\ IsFiniteSet(m.assignments)
      /\ \A a \in m.assignments :
           /\ a.enrollment \in Period /\ a.phase \in Period /\ IsFiniteSet(a.packages)
           /\ \A b \in a.packages : b.period \in Period /\ b.package \in DOMAIN m.packages
      /\ \A j \in DOMAIN m.packages : m.packages[j].id = j /\ m.packages[j].period \in Period
      /\ \A a \in m.approvals : a.period \in Period
  BY <1>0, NewestRegimeIsDated
<1> HIDE DEF m, told
<1>4. c \in s.packages /\ k \in DOMAIN m.packages
  BY <1>1, <1>2, <1>3 DEF Bound
<1> DEFINE active == Assigned(told, now)
           bound == Bound(told, s, now)
           packages == { b.package : b \in bound }
<1>5. active = { a \in m.assignments : Holding(a.enrollment, now) /\ Holding(a.phase, now) }
  <2>1. ASSUME NEW a \in m.assignments
        PROVE  a \in active <=> Holding(a.enrollment, now) /\ Holding(a.phase, now)
    <3>1. a.enrollment \in Period /\ a.phase \in Period
      BY <1>3
    <3>2. a \in active <=> Holds(a.enrollment, now) # "NO" /\ Holds(a.phase, now) # "NO"
      BY <1>1 DEF Assigned
    <3> QED
      BY <1>0, <3>1, <3>2, PeriodsHold
  <2> QED
    BY <1>1, <2>1 DEF Assigned
<1>6. bound = { b \in s.packages : Holding(b.period, now) /\ Holding(m.packages[b.package].period, now) }
  <2>1. ASSUME NEW b \in s.packages
        PROVE  b \in bound <=> Holding(b.period, now) /\ Holding(m.packages[b.package].period, now)
    <3>1. b.period \in Period /\ b.package \in DOMAIN m.packages /\ m.packages[b.package].period \in Period
      BY <1>1, <1>3
    <3>2. b \in bound <=> Holds(b.period, now) # "NO" /\ Holds(m.packages[b.package].period, now) # "NO"
      BY <1>1, <3>1 DEF Bound
    <3> QED
      BY <1>0, <3>1, <3>2, PeriodsHold
  <2> QED
    BY <2>1 DEF Bound
<1>7. /\ ~(Cardinality(active) > 1) /\ ~(Cardinality(packages) > 1)
      /\ \A a \in Approvals(told, s, k) : Holds(a.period, now) # "UNSURE"
      /\ { a.decision : a \in { a \in Approvals(told, s, k) : Holds(a.period, now) = "YES" } } = {"APPROVED"}
  BY <1>2 DEF OnlyRegime
<1>8. IsFiniteSet(active) /\ IsFiniteSet(packages)
  <2>1. IsFiniteSet(m.assignments) /\ IsFiniteSet(s.packages)
    BY <1>1, <1>3
  <2>2. IsFiniteSet(active) /\ IsFiniteSet(bound)
    <3>1. active \subseteq m.assignments /\ bound \subseteq s.packages
      BY <1>5, <1>6
    <3> HIDE DEF active, bound
    <3> QED
      BY <2>1, <3>1, FS_Subset
  <2> DEFINE name == [b \in bound |-> b.package]
  <2>3. \A x \in packages : \E b \in bound : x = name[b]
    OBVIOUS
  <2> HIDE DEF name, packages, active, bound
  <2> QED
    BY <2>2, <2>3, ImageIsFinite
<1>9. s \in active /\ c \in bound /\ k \in packages
  BY <1>2
<1> HIDE DEF active, bound
<1>10. \A a \in active : a = s
  BY <1>7, <1>8, <1>9, TwoAreMoreThanOne
<1>11. \A b \in bound : b.package = k
  <2>1. \A b \in bound : b.package \in packages
    OBVIOUS
  <2> HIDE DEF packages
  <2> QED
    BY <1>7, <1>8, <1>9, <2>1, TwoAreMoreThanOne
<1>12. Alone(m, now, s, k)
  BY <1>5, <1>6, <1>10, <1>11 DEF Alone
<1>13. { a.decision : a \in { a \in m.approvals : Holding(a.period, now) /\ a.assignment = s.id /\ a.package = k } }
         = {"APPROVED"}
  <2>1. ASSUME NEW a \in m.approvals
        PROVE  a \in Approvals(told, s, k) /\ Holds(a.period, now) = "YES"
                 <=> Holding(a.period, now) /\ a.assignment = s.id /\ a.package = k
    <3>1. a.period \in Period
      BY <1>3
    <3>2. Holds(a.period, now) \in {"YES", "NO", "UNSURE"} /\ (Holds(a.period, now) = "NO" <=> ~Holding(a.period, now))
      BY <1>0, <3>1, PeriodsHold
    <3>3. a \in Approvals(told, s, k) <=> a.assignment = s.id /\ a.package = k
      BY <1>1 DEF Approvals
    <3> QED
      BY <1>7, <3>2, <3>3
  <2>2. Approvals(told, s, k) \subseteq m.approvals
    BY <1>1 DEF Approvals
  <2>3. { a \in m.approvals : Holding(a.period, now) /\ a.assignment = s.id /\ a.package = k }
          = { a \in Approvals(told, s, k) : Holds(a.period, now) = "YES" }
    BY <2>1, <2>2
  <2> QED
    BY <1>7, <2>3
<1>14. Holding(s.enrollment, now) /\ Holding(s.phase, now) /\ Holding(c.period, now) /\ Holding(m.packages[k].period, now)
  BY <1>5, <1>6, <1>9
<1>15. m.packages[k].id = k
  BY <1>3, <1>4
<1>16. TruePackages(now) = {m.packages[k]}
  BY <1>1, <1>4, <1>12, <1>13, <1>14, <1>15, ThePackage DEF m
<1>17. TrueRules(now) = m.packages[k].rules
  BY <1>16 DEF TrueRules
<1>18. RulesOf(r) = { Stated(x, now) : x \in m.packages[k].rules } /\ r.package.id = k
  BY <1>1, <1>2, <1>4 DEF RulesOf
<1> QED
  BY <1>2, <1>4, <1>16, <1>17, <1>18 DEF m, told

-----------------------------------------------------------------------------
(* The rules that bear on the entry.                                       *)

\* What is stated of a rule is the one operand of it.
LEMMA OperandIsTheFact ==
  ASSUME CapturedNow, OperandsAdmissible(Evidence), NEW r, NEW x, x.id = r.id, NEW role
  PROVE  /\ Facts(r, role) \subseteq {OperandOf(Evidence, x, role)}
         /\ OperandOf(Evidence, x, role) # None => OperandOf(Evidence, x, role) \in Facts(r, role)
<1> DEFINE found == { o \in world.operands : o.rule = r.id /\ o.role = role /\ Within(o.from, o.until, now) }
<1>1. Evidence.packet["financial"].operands = world.operands /\ Evidence.at = now
  BY EvidenceIsCaptured DEF CapturedNow, Financial
<1>2. OperandOf(Evidence, x, role) = IF found = {} THEN None ELSE (CHOOSE o \in found : TRUE).body
  BY <1>1 DEF OperandOf
<1>3. Facts(r, role) = { o.body : o \in found }
  BY DEF Facts
<1>4. \A o, p \in found : o = p
  BY <1>1 DEF OperandsAdmissible
<1>5. CASE found = {}
  <2>1. Facts(r, role) = {}
    BY <1>3, <1>5
  <2> QED
    BY <1>2, <1>5, <2>1
<1>6. CASE found # {}
  <2>1. (CHOOSE o \in found : TRUE) \in found
    BY <1>6
  <2> HIDE DEF found
  <2> QED
    BY <1>2, <1>3, <1>4, <1>6, <2>1
<1> QED
  BY <1>5, <1>6

\* A rule is stated as it is, but for the floor it sets.
LEMMA RuleIsStated ==
  ASSUME NEW r, NEW t
  PROVE  LET x == Stated(r, t)
             fixed == r.type = "STATIC_FLOOR" /\ r.threshold.fraction = None
         IN  /\ x.id = r.id /\ x.type = r.type /\ x.effects = r.effects /\ x.instruments = r.instruments
             /\ ~fixed => x = r
             /\ fixed => /\ x.measure = r.measure /\ x.separateCosts = r.separateCosts /\ x.strict = r.strict
                         /\ x.supported = r.supported /\ x.foreign = r.foreign /\ x.threshold.fraction = None
                         /\ x.threshold.amount = r.threshold.amount + Raised(r, Items("notice", t), t)
<1> DEFINE fixed == r.type = "STATIC_FLOOR" /\ r.threshold.fraction = None
<1>1. CASE fixed
  <2>1. Stated(r, t) =
          [id |-> r.id, type |-> r.type, effects |-> r.effects, instruments |-> r.instruments,
           foreign |-> r.foreign, supported |-> r.supported, measure |-> r.measure,
           separateCosts |-> r.separateCosts, strict |-> r.strict,
           threshold |-> [fraction |-> None, amount |-> r.threshold.amount + Raised(r, Items("notice", t), t)]]
    BY <1>1 DEF Stated
  <2> QED
    BY <1>1, <2>1
<1>2. CASE ~fixed
  <2>1. Stated(r, t) = r
    BY <1>2 DEF Stated
  <2> QED
    BY <1>2, <2>1
<1> QED
  BY <1>1, <1>2

\* What a rule that bears on the entry is judged by: its type.
Judged(e, x) ==
  CASE x.type = "PERMISSION"        -> PermissionOutcome(e, x)
    [] x.type = "ACTION_WINDOW"     -> WindowOutcome(e, x)
    [] x.type = "ACCOUNT_STATE"     -> StateOutcome(e, x)
    [] x.type = "POSITION_QUANTITY" -> "SATISFIED"
    [] x.type = "POSITION_COUNT"    -> CountOutcome(e, x)
    [] x.type \in {"STATIC_FLOOR", "DAILY_RESET_FLOOR"} -> FloorOutcome(e, x)
    [] OTHER                        -> "UNKNOWN"

\* A rule that bears on the entry is satisfied only if that judgement says so.
LEMMA BearingIsJudged ==
  ASSUME NEW e, NEW x \in SelectedRules(e), PolicyNamespace(e), RuleOutcome(e, x) = "SATISFIED",
         x.effects \cap EntryEffects # {}, x.instruments = None \/ e.instrument \in x.instruments
  PROVE  Judged(e, x) = "SATISFIED"
<1> DEFINE binding == OperandOf(e, x, "INSTRUMENT_BINDING")
<1>1. binding \in {None, e.instrument}
  BY DEF PolicyNamespace
<1>2. ~(x.instruments # None /\ binding = None)
  BY DEF RuleOutcome
<1>3. ~OutsideInstruments(e, x)
  BY <1>1, <1>2 DEF OutsideInstruments
<1>4. RuleOutcome(e, x) = IF "UNKNOWN" \in x.effects THEN "UNKNOWN" ELSE IF ~x.supported THEN "UNKNOWN"
                          ELSE Judged(e, x)
  BY <1>2, <1>3 DEF RuleOutcome, Judged
<1> HIDE DEF binding
<1> QED
  BY <1>4

\* The captured account, as far as it is known.
AccountTold ==
  LET a == Newest("account", now)
      f == Evidence.packet["financial"].account
  IN  /\ a.balance \in Int /\ a.equity \in Int
      /\ f.balance = a.balance /\ f.equity = a.equity /\ f.positions = a.positions

\* The value a fraction is taken of is stated truly.
LEMMA ReferenceIsTrue ==
  ASSUME CapturedNow, OperandsAdmissible(Evidence), NEW x, OperandOf(Evidence, x, "INITIAL_REFERENCE") # None
  PROVE  OperandOf(Evidence, x, "INITIAL_REFERENCE") = world.reference
<1>1. OperandOf(Evidence, x, "INITIAL_REFERENCE") \in Facts(x, "INITIAL_REFERENCE")
  BY OperandIsTheFact
<1>2. \A o \in world.operands : o.role = "INITIAL_REFERENCE" => o.body = world.reference
  BY StatementsAreTrue DEF CapturedNow, TypeOK
<1> QED
  BY <1>1, <1>2 DEF Facts

\* The level of a floor is computed of the value that is stated.
LEMMA LevelIsTold ==
  ASSUME CapturedNow, OperandsAdmissible(Evidence), NEW r, r.type \in {"STATIC_FLOOR", "DAILY_RESET_FLOOR"},
         r.threshold.fraction = None
           \/ OperandOf(Evidence, Stated(r, now), "INITIAL_REFERENCE") # None
  PROVE  LET x == Stated(r, now)
             level == Amount(x.threshold, OperandOf(Evidence, x, "INITIAL_REFERENCE"))
         IN  /\ r.type = "STATIC_FLOOR" => level = Level(r, now)
             /\ r.type = "DAILY_RESET_FLOOR" => level = Stake(r)
<1> DEFINE x == Stated(r, now)
           initial == OperandOf(Evidence, x, "INITIAL_REFERENCE")
           raised == Raised(r, Items("notice", now), now)
<1>1. CASE r.threshold.fraction = None /\ r.type = "STATIC_FLOOR"
  <2>1. x.threshold.fraction = None /\ x.threshold.amount = r.threshold.amount + raised
    BY <1>1, RuleIsStated
  <2>2. Level(r, now) = r.threshold.amount + raised
    BY <1>1 DEF Level, Stake
  <2> HIDE DEF x
  <2> QED
    BY <1>1, <2>1, <2>2 DEF Amount, x
<1>2. CASE r.threshold.fraction = None /\ r.type = "DAILY_RESET_FLOOR"
  <2>1. x = r
    BY <1>2, RuleIsStated
  <2> QED
    BY <1>2, <2>1 DEF Amount, Stake
<1>3. CASE r.threshold.fraction # None
  <2>1. x = r /\ initial = world.reference
    BY <1>3, RuleIsStated, ReferenceIsTrue
  <2>2. Level(r, now) = Stake(r) /\ Stake(r) = (world.reference * r.threshold.fraction) \div 100
    BY <1>3 DEF Level, Stake
  <2> HIDE DEF initial
  <2> QED
    BY <1>3, <2>1, <2>2 DEF Amount, initial
<1> QED
  BY <1>1, <1>2, <1>3

\* A floor that is judged satisfied is not broken ...
LEMMA FloorIsKept ==
  ASSUME CapturedNow, OperandsAdmissible(Evidence), AccountTold,
         NEW r, r.type \in {"STATIC_FLOOR", "DAILY_RESET_FLOOR"}, Judged(Evidence, Stated(r, now)) = "SATISFIED"
  PROVE  ~Broken(r, Newest("account", now))
<1> DEFINE e == Evidence
           x == Stated(r, now)
           account == Newest("account", now)
           amount == IF r.measure = "BALANCE" THEN account.balance ELSE account.equity
           cost == OperandOf(e, x, "COST_ADJUSTMENTS")
           initial == OperandOf(e, x, "INITIAL_REFERENCE")
           anchor == OperandOf(e, x, "RESET_ANCHOR")
           costs == IF r.separateCosts THEN Facts(r, "COST_ADJUSTMENTS") ELSE {0}
           level == Amount(x.threshold, initial)
           daily == r.type = "DAILY_RESET_FLOOR"
           floor == IF daily THEN anchor.amount - level ELSE level
           net == IF r.separateCosts THEN amount - cost ELSE amount
<1>1. x.type = r.type /\ x.id = r.id /\ x.measure = r.measure /\ x.separateCosts = r.separateCosts /\ x.strict = r.strict
      /\ (x.threshold.fraction = None <=> r.threshold.fraction = None)
  BY RuleIsStated
<1>2. FloorOutcome(e, x) = "SATISFIED"
  BY <1>1 DEF Judged
<1>3. Measure(e, x) = amount /\ amount \in Int
  BY <1>1 DEF Measure, AccountTold
<1> HIDE DEF x
<1>4. ~(r.separateCosts /\ cost = None)
  BY <1>1, <1>2 DEF FloorOutcome
<1>5. r.threshold.fraction = None \/ initial # None
  BY <1>1, <1>2 DEF FloorOutcome
<1>6. Verdict(IF x.strict THEN net <= floor ELSE net < floor, FALSE) = "SATISFIED"
  <2>1. FloorOutcome(e, x) \in {"UNKNOWN", Verdict(IF x.strict THEN net <= floor ELSE net < floor, FALSE)}
    BY <1>1, <1>3 DEF FloorOutcome
  <2> QED
    BY <1>2, <2>1
<1> HIDE DEF floor, net
<1>7. ~Undercuts(r, net, floor)
  BY <1>1, <1>6 DEF Verdict, Undercuts
<1>8. \A c \in costs : amount - c = net
  <2>1. CASE r.separateCosts
    <3>1. Facts(r, "COST_ADJUSTMENTS") \subseteq {cost}
      BY <1>1, OperandIsTheFact
    <3> QED
      BY <2>1, <3>1 DEF net
  <2>2. CASE ~r.separateCosts
    <3> HIDE DEF amount
    <3> QED
      BY <1>3, <2>2 DEF net
  <2> QED
    BY <2>1, <2>2
<1>9. r.type = "STATIC_FLOOR" => floor = Level(r, now)
  BY <1>5, LevelIsTold DEF x, floor
<1>10. r.type = "DAILY_RESET_FLOOR" => \A a \in Facts(r, "RESET_ANCHOR") : a.amount - Stake(r) = floor
  <2>1. Facts(r, "RESET_ANCHOR") \subseteq {anchor}
    BY <1>1, OperandIsTheFact
  <2>2. daily => level = Stake(r)
    BY <1>5, LevelIsTold DEF x
  <2> HIDE DEF anchor, level
  <2> QED
    BY <2>1, <2>2 DEF floor
<1> HIDE DEF costs, amount, net
<1>11. Broken(r, account) =>
         \/ r.type = "STATIC_FLOOR" /\ \E c \in costs : Undercuts(r, amount - c, Level(r, now))
         \/ r.type = "DAILY_RESET_FLOOR" /\ \E c \in costs : \E a \in Facts(r, "RESET_ANCHOR") :
              Undercuts(r, amount - c, a.amount - Stake(r))
  BY DEF Broken, costs, amount
<1> QED
  BY <1>7, <1>8, <1>9, <1>10, <1>11

\* ... nor is a limit on the number of positions ...
LEMMA CountIsKept ==
  ASSUME CapturedNow, OperandsAdmissible(Evidence), AccountTold,
         NEW r, r.type = "POSITION_COUNT", Judged(Evidence, r) = "SATISFIED"
  PROVE  ~Broken(r, Newest("account", now))
<1> DEFINE e == Evidence
           account == Newest("account", now)
           held == { p \in account.positions : r.instruments # None => p \in r.instruments }
           c == OperandOf(e, r, "POSITION_COUNT_CONTEXT")
           count == Cardinality(held) + c.committed
           after == count + (IF c.effect = "NEW_SEPARATE_POSITION" THEN 1 ELSE 0)
<1>1. CountOutcome(e, r) = "SATISFIED"
  BY DEF Judged
<1>2. held = { p \in e.packet["financial"].account.positions : r.instruments # None => p \in r.instruments }
  BY DEF AccountTold
<1> HIDE DEF held, e
<1>3. CountOutcome(e, r) =
        IF c = None THEN "UNKNOWN" ELSE IF ~c.complete \/ r.foreign THEN "UNKNOWN"
        ELSE IF count > r.maximum THEN "NOT_SATISFIED"
        ELSE IF c.effect = "QUANTITY_DEPENDENT" THEN "SATISFIED"
        ELSE Verdict(c.effect # "UNKNOWN" /\ after > r.maximum, c.effect = "UNKNOWN")
  BY <1>2 DEF CountOutcome
<1> HIDE DEF c
<1>4. ~(count > r.maximum) /\ ~(c.effect = "NEW_SEPARATE_POSITION" /\ count + 1 > r.maximum)
  <2> HIDE DEF count
  <2> QED
    BY <1>1, <1>3 DEF Verdict
<1>5. Facts(r, "POSITION_COUNT_CONTEXT") \subseteq {c}
  BY OperandIsTheFact DEF c, e
<1>6. Broken(r, account) =>
        \E d \in Facts(r, "POSITION_COUNT_CONTEXT") :
           LET n == Cardinality(held) + d.committed
           IN  n > r.maximum \/ (d.effect = "NEW_SEPARATE_POSITION" /\ n + 1 > r.maximum)
  BY DEF Broken, held
<1> QED
  BY <1>4, <1>5, <1>6

\* ... nor any rule that is judged satisfied.
LEMMA RuleIsKept ==
  ASSUME CapturedNow, OperandsAdmissible(Evidence), AccountTold, NEW r, Judged(Evidence, Stated(r, now)) = "SATISFIED"
  PROVE  ~Broken(r, Newest("account", now))
<1> DEFINE e == Evidence
           x == Stated(r, now)
<1>0. x.type = r.type /\ (r.type # "STATIC_FLOOR" => x = r)
  BY RuleIsStated
<1>1. e.mode = request.mode /\ Action(e) = TrueAction /\ e.at = now
  BY EvidenceIsCaptured DEF CapturedNow, Action, TrueAction, request
<1>2. CASE r.type = "PERMISSION"
  <2>1. PermissionOutcome(e, r) = "SATISFIED"
    BY <1>0, <1>2 DEF Judged
  <2>2. ~({TrueAction, request.mode} \cap r.actions # {} /\ r.permission = "PROHIBITED")
    BY <1>1, <2>1 DEF PermissionOutcome, Verdict
  <2> QED
    BY <1>2, <2>2 DEF Broken
<1>3. CASE r.type = "ACTION_WINDOW"
  <2>1. WindowOutcome(e, r) = "SATISFIED"
    BY <1>0, <1>3 DEF Judged
  <2>2. TrueAction \in r.actions => ~((\E w \in r.windows : Within(w.from, w.until, now)) # r.within)
    BY <1>1, <2>1 DEF WindowOutcome, Verdict
  <2> QED
    BY <1>3, <2>2 DEF Broken
<1>4. CASE r.type = "ACCOUNT_STATE"
  <2>1. StateOutcome(e, r) = "SATISFIED"
    BY <1>0, <1>4 DEF Judged
  <2>2. \A f \in r.facts : OperandOf(e, r, f) # FALSE
    BY <2>1 DEF StateOutcome, Verdict
  <2>3. \A f \in r.facts : Facts(r, f) \subseteq {OperandOf(e, r, f)}
    BY OperandIsTheFact
  <2>4. ~\E f \in r.facts : FALSE \in Facts(r, f)
    BY <2>2, <2>3
  <2> QED
    BY <1>4, <2>4 DEF Broken
<1>5. CASE r.type = "POSITION_COUNT"
  BY <1>0, <1>5, CountIsKept
<1>6. CASE r.type \in {"STATIC_FLOOR", "DAILY_RESET_FLOOR"}
  BY <1>6, FloorIsKept
<1>7. CASE r.type \notin {"PERMISSION", "ACTION_WINDOW", "ACCOUNT_STATE", "POSITION_COUNT", "STATIC_FLOOR", "DAILY_RESET_FLOOR"}
  BY <1>7 DEF Broken
<1> QED
  BY <1>2, <1>3, <1>4, <1>5, <1>6, <1>7

-----------------------------------------------------------------------------
(* The trades of the day.                                                  *)

\* Trades are finitely many, identified, dated, and counted where they are stopped out.
LEMMA TradesAreIdentified ==
  ASSUME TypeOK, LastInstant \in Nat
  PROVE  /\ IsFiniteSet(Trades(now)) /\ \A r, s \in Trades(now) : r.id = s.id => r = s
         /\ \A r \in Trades(now) : r.published \in Int
         /\ \A r \in Trades(now) : r.mechanism = "INITIAL_PROTECTIVE_STOP" =>
              r.completed /\ r.structure = "SUPPORTED" /\ r.close \in Int /\ r.amount \in Int
<1> DEFINE P == Posted("trade", now)
           rec == [p \in P |->
             [id |-> p.item.id, trade |-> p.item.trade, pred |-> p.item.pred, completed |-> p.item.completed,
              close |-> p.item.close, structure |-> p.item.structure, mechanism |-> p.item.mechanism, net |-> p.item.net,
              amount |-> p.item.amount, published |-> posted[p]]]
           later == { rec[p] : p \in P }
           first == world.trades
           items == { p.item : p \in { p \in world.menu : p.topic = "trade" } }
           trades == first \cup items
           Stopped(r) == r.mechanism = "INITIAL_PROTECTIVE_STOP" =>
                           r.completed /\ r.structure = "SUPPORTED" /\ r.close \in Int /\ r.amount \in Int
<1>1. Trades(now) = first \cup later
  BY DEF Trades
<1>2. /\ IsFiniteSet(first) /\ \A r, s \in trades : r.id = s.id => r = s
      /\ \A p, q \in P : p.item = q.item => p = q
      /\ \A r \in first : r.published \in Int
      /\ \A r \in trades : Stopped(r)
      /\ first \cap items = {}
  BY AccountsAreCounted DEF TypeOK, Posted
<1>3. \A p \in P : /\ rec[p].id = p.item.id /\ rec[p].mechanism = p.item.mechanism /\ rec[p].completed = p.item.completed
                   /\ rec[p].structure = p.item.structure /\ rec[p].close = p.item.close
                   /\ rec[p].amount = p.item.amount /\ rec[p].published = posted[p]
  OBVIOUS
<1>4. \A p \in P : p.item \in items /\ posted[p] \in Int
  BY DEF Posted, TypeOK, Unposted
<1>5. IsFiniteSet(P)
  BY WorldsAreFinite, FS_Subset DEF Posted, TypeOK
<1>6. \A y \in later : \E p \in P : y = rec[p]
  OBVIOUS
<1>7. first \subseteq trades /\ items \subseteq trades
  OBVIOUS
<1> HIDE DEF P, rec, later, first, items, trades
<1>8. IsFiniteSet(Trades(now))
  <2>1. IsFiniteSet(later)
    BY <1>5, <1>6, ImageIsFinite
  <2>2. IsFiniteSet(first)
    BY <1>2
  <2> QED
    BY <1>1, <2>1, <2>2, FS_Union
<1>9. ASSUME NEW r \in Trades(now), NEW s \in Trades(now), r.id = s.id
      PROVE  r = s
  <2>1. CASE r \in first /\ s \in first
    BY <1>2, <1>7, <1>9, <2>1
  <2>2. CASE r \in first /\ s \in later
    BY <1>2, <1>3, <1>4, <1>6, <1>7, <1>9, <2>2
  <2>3. CASE r \in later /\ s \in first
    BY <1>2, <1>3, <1>4, <1>6, <1>7, <1>9, <2>3
  <2>4. CASE r \in later /\ s \in later
    BY <1>2, <1>3, <1>4, <1>6, <1>7, <1>9, <2>4
  <2> QED
    BY <1>1, <2>1, <2>2, <2>3, <2>4
<1>10. ASSUME NEW r \in Trades(now)
       PROVE  r.published \in Int /\ Stopped(r)
  <2>1. CASE r \in first
    BY <1>2, <1>7, <2>1
  <2>2. CASE r \in later
    <3>1. PICK p \in P : r = rec[p]
      BY <1>6, <2>2
    <3>2. Stopped(p.item)
      BY <1>2, <1>4, <1>7
    <3> QED
      BY <1>3, <1>4, <3>1, <3>2
  <2> QED
    BY <1>1, <2>1, <2>2
<1> QED
  BY <1>8, <1>9, <1>10

\* What has no two different members has at most one.
LEMMA NoTwoAreAtMostOne ==
  ASSUME NEW S, \A a, b \in S : a = b
  PROVE  Cardinality(S) < 2
<1>1. CASE S = {}
  BY <1>1, FS_EmptySet
<1>2. CASE S # {}
  <2>1. PICK a \in S : TRUE
    BY <1>2
  <2>2. S = {a}
    BY <2>1
  <2>3. Cardinality({a}) = 1
    BY FS_Singleton
  <2> QED
    BY <2>2, <2>3
<1> QED
  BY <1>1, <1>2

\* A day that the gate lets pass is not one of two trades stopped out.
LEMMA StopOutsAreCounted ==
  ASSUME CapturedNow, LastInstant \in Nat, PolicyAdmissible(Evidence),
         \A n \in PolicyNodes(Evidence) : n[2] = "SATISFIED"
  PROVE  Cardinality(TrueStopOuts(now)) < 2
<1> DEFINE f == Financial(now)
           L == Ledger(now)
           T == Trades(now)
           needed == { r \in EffectiveTrades(L) : Relevant(r, world.day, now) }
           definite == { r \in needed : StoppedOut(r) }
           possible == { r \in needed : ~NotALoss(r) }
           bounded == Adequate(f, now) /\ \A r \in needed : r.structure = "SUPPORTED"
<1>0. /\ Evidence.at = now /\ Evidence.packet["financial"] = f /\ f.trades = L /\ f.day = world.day
      /\ now \in Int
  BY EvidenceIsCaptured, BoundariesAreCounted DEF CapturedNow, Financial, TypeOK
<1>1. GateOutcome(Evidence, "DAILY_LOSS") = "SATISFIED"
  BY GatesAreSatisfied DEF Gates
<1>2. GateOutcome(Evidence, "DAILY_LOSS") = IF PolicyApplies(Evidence) THEN DailyLossGate(f, now) ELSE "UNKNOWN"
  BY <1>0 DEF GateOutcome
<1>3. DailyLossGate(f, now) = "SATISFIED"
  BY <1>1, <1>2
<1>4. DailyLossGate(f, now) = Verdict(Cardinality(definite) >= 2, ~bounded \/ Cardinality(possible) >= 2)
  BY <1>0 DEF DailyLossGate
<1>5. bounded /\ ~(Cardinality(possible) >= 2)
  <2> HIDE DEF definite, possible, bounded
  <2> QED
    BY <1>3, <1>4 DEF Verdict
<1>6. ~Blurred("trades")
  <2>1. \A c \in f.coverage : c.complete = ~Blurred("trades")
    BY DEF Financial
  <2> QED
    BY <1>5, <2>1 DEF Adequate
<1>7. L = { Shown(r) : r \in T }
  BY <1>6 DEF Ledger
<1>8. ASSUME NEW r
      PROVE  /\ Shown(r).id = r.id /\ Shown(r).pred = r.pred /\ Shown(r).completed = r.completed
             /\ Shown(r).close = r.close /\ Shown(r).structure = r.structure /\ Shown(r).amount = r.amount
             /\ Shown(r).mechanism \in {r.mechanism, "UNRESOLVED"} /\ Shown(r).published = r.published
  BY DEF Shown
<1>9. /\ IsFiniteSet(T) /\ \A r, s \in T : r.id = s.id => r = s
      /\ \A r \in T : r.published \in Int
      /\ \A r \in T : r.mechanism = "INITIAL_PROTECTIVE_STOP" =>
           r.completed /\ r.structure = "SUPPORTED" /\ r.close \in Int /\ r.amount \in Int
  BY TradesAreIdentified DEF CapturedNow
<1>10. \A r \in L : r.published <= now /\ (r.completed => r.close <= r.published)
  BY <1>0 DEF PolicyAdmissible, TradesAdmissible
<1> HIDE DEF L, T, f
<1>11. ASSUME NEW r \in TrueStopOuts(now)
       PROVE  r \in T /\ Shown(r) \in possible
  <2>1. /\ r \in T /\ \A s \in T : s.pred # PredRecord(r.id)
        /\ r.mechanism = "INITIAL_PROTECTIVE_STOP" /\ r.amount < 0
        /\ world.day.start <= r.close /\ r.close < world.day.end
    BY DEF TrueStopOuts, StopOuts, T
  <2> DEFINE x == Shown(r)
  <2>2. x \in L /\ \A s \in L : s.pred # PredRecord(x.id)
    BY <1>7, <1>8, <2>1
  <2>3. /\ x.completed /\ x.structure = "SUPPORTED" /\ x.close = r.close /\ x.amount = r.amount
        /\ x.close \in Int /\ x.published \in Int
        /\ x.mechanism \in {"INITIAL_PROTECTIVE_STOP", "UNRESOLVED"}
    BY <1>8, <1>9, <2>1
  <2>4. x.close <= now
    BY <1>0, <1>10, <2>2, <2>3
  <2> HIDE DEF x
  <2>5. x \in needed
    BY <2>1, <2>2, <2>3, <2>4 DEF EffectiveTrades, Relevant
  <2>6. r.amount \in Int
    BY <1>9, <2>1
  <2>7. ~NotALoss(x)
    BY <2>1, <2>3, <2>6 DEF NotALoss
  <2> QED
    BY <2>1, <2>5, <2>7 DEF x
<1>12. IsFiniteSet(possible)
  <2> DEFINE show == [r \in T |-> Shown(r)]
  <2>1. \A y \in L : \E r \in T : y = show[r]
    BY <1>7
  <2> HIDE DEF show
  <2>2. IsFiniteSet(L)
    BY <1>9, <2>1, ImageIsFinite
  <2>3. possible \subseteq L
    BY DEF EffectiveTrades
  <2> HIDE DEF possible
  <2> QED
    BY <2>2, <2>3, FS_Subset
<1> HIDE DEF possible, needed
<1>13. ASSUME NEW r \in TrueStopOuts(now), NEW s \in TrueStopOuts(now)
       PROVE  r = s
  <2>1. SUFFICES ASSUME r # s PROVE FALSE
    OBVIOUS
  <2>2. Shown(r) # Shown(s)
    BY <1>8, <1>9, <1>11, <2>1
  <2>3. Cardinality(possible) > 1 /\ Cardinality(possible) \in Nat
    BY <1>11, <1>12, <2>2, TwoAreMoreThanOne, FS_CardinalityType
  <2> QED
    BY <1>5, <2>3
<1> QED
  BY <1>13, NoTwoAreAtMostOne

-----------------------------------------------------------------------------
\* Quantities are computed only for an account that may enter.
LEMMA GrantedMayEnter ==
  ASSUME CapturedNow, LastInstant \in Nat, MandateIsTheWorlds, Granted(Evidence)
  PROVE  MayEnter(now)
<1> DEFINE e == Evidence
           regime == FinancialRegime(e)
           account == Newest("account", now)
<1>1. /\ PolicyAdmissible(e) /\ e.adm # None /\ RiskGranted(e) /\ \A n \in PolicyNodes(e) : n[2] = "SATISFIED"
      /\ \A c \in Claims : Compatible(e, c)
      /\ PolicyNamespace(e)
  BY DEF Granted
<1>2. RiskNegatives(e) = {} /\ e.adm = admission /\ e.at = now /\ e.instrument = request.instrument
      /\ e.packet["financial"] = Financial(now)
  BY <1>1, EvidenceIsCaptured DEF RiskGranted, CapturedNow, request
<1>3. OrderStands
  BY <1>2, OrderIsPossible DEF CapturedNow
<1>4. Cardinality(TrueStopOuts(now)) < 2 /\ account.equity > 0
  BY <1>1, StopOutsAreCounted, EquityIsLeft
<1>5. TruePlan /\ now < world.admission.mandate /\ world.same = Claims
  BY <1>1, <1>2, PlanIsTrue, MandateRuns, SubjectsAreTheSame
<1>6. TrueRevisions(now) = {request.quote.revision} /\ world.revisions[TrueRevision].payoff = "COMPLETE"
  BY <1>1, SpecificationIsTrue
<1>7. regime.outcome = "UNIQUE" /\ regime = Regime(Manifest(now), now)
  <2>1. GateOutcome(e, "REGIME") = "SATISFIED"
    BY <1>1, GatesAreSatisfied DEF Gates
  <2>2. GateOutcome(e, "REGIME") = RegimeGate(regime)
    BY DEF GateOutcome
  <2>3. Financial(now).regime = Manifest(now)
    BY DEF Financial
  <2> QED
    BY <1>2, <2>1, <2>2, <2>3 DEF RegimeGate, Verdict, FinancialRegime
<1>8. /\ TruePackages(now) # {}
      /\ SelectedRules(e) = { Stated(x, now) : x \in TrueRules(now) }
  BY <1>7, RegimeIsTrue DEF CapturedNow, SelectedRules
<1>9. AccountTold
  <2>1. account.balance \in Int /\ account.equity \in Int
    BY AccountIsCounted DEF CapturedNow
  <2>2. Financial(now).account.equity = account.equity
    BY <1>1, EquityIsLeft
  <2>3. Financial(now).account.balance = account.balance /\ Financial(now).account.positions = account.positions
    BY DEF Financial, Account
  <2> QED
    BY <1>2, <2>1, <2>2, <2>3 DEF AccountTold
<1> HIDE DEF e, regime, account
<1>10. ASSUME NEW r \in TrueRules(now), Bears(r)
       PROVE  ~Broken(r, account)
  <2> DEFINE x == Stated(r, now)
  <2>1. x \in SelectedRules(e)
    BY <1>8
  <2>2. <<x.id, RuleOutcome(e, x)>> \in PolicyNodes(e)
    BY <2>1 DEF PolicyNodes
  <2>3. RuleOutcome(e, x) = "SATISFIED"
    BY <1>1, <2>2
  <2>4. x.effects = r.effects /\ x.instruments = r.instruments
    BY RuleIsStated
  <2> HIDE DEF x
  <2>5. x.effects \cap EntryEffects # {} /\ (x.instruments = None \/ e.instrument \in x.instruments)
    BY <1>2, <1>10, <2>4 DEF Bears, EntryEffects
  <2>6. Judged(e, x) = "SATISFIED"
    BY <1>1, <2>1, <2>3, <2>5, BearingIsJudged
  <2>7. OperandsAdmissible(e)
    BY <1>1 DEF PolicyAdmissible
  <2> QED
    BY <1>9, <2>6, <2>7, RuleIsKept DEF e, x, account
<1> QED
  BY <1>3, <1>4, <1>5, <1>6, <1>8, <1>10 DEF MayEnter, account

-----------------------------------------------------------------------------
(* The quantities of an answer.                                            *)

\* The grid of declared terms is a grid, or empty.
LEMMA DescriptorIsGrid ==
  ASSUME NEW g, WellFormedTerms(g), g.origin \in Int, g.step \in Int, g.min \in Int,
         g.max.kind \in {"FINITE", "UNBOUNDED"}, g.max.kind = "FINITE" => g.max.value \in Int
  PROVE  Descriptor(g) = EmptyGrid \/ IsGrid(Descriptor(g))
<1> DEFINE k == g.origin \div g.step
           residue == g.origin - k * g.step
           first == Larger(CeilDiv(g.min - residue, g.step), ((-residue) \div g.step) + 1)
           last == (g.max.value - residue) \div g.step
<1>1. g.step > 0
  BY DEF WellFormedTerms
<1>2. k \in Int /\ k * g.step \in Int /\ k * g.step <= g.origin /\ g.origin < k * g.step + g.step
  BY <1>1, Quotient
<1>3. residue \in Int /\ 0 <= residue /\ residue < g.step
  BY <1>2
<1>4. ((-residue) \div g.step) + 1 \in Nat
  <2>1. -1 <= (-residue) \div g.step <=> (-1) * g.step <= -residue
    BY <1>1, <1>3, RoundedDown
  <2>2. (-residue) \div g.step \in Int
    BY <1>1, <1>3, RoundedDown
  <2> QED
    BY <1>3, <2>1, <2>2
<1>5. Descriptor(g) =
        IF g.max.kind = "UNBOUNDED" THEN Grid(residue, g.step, first, Open)
        ELSE IF last < first THEN EmptyGrid ELSE Grid(residue, g.step, first, last)
  BY DEF Descriptor
<1> HIDE DEF residue, k
<1>6. CeilDiv(g.min - residue, g.step) \in Int
  BY <1>1, <1>3, RoundedUp
<1>7. first \in Nat
  BY <1>4, <1>6 DEF Larger
<1>8. g.max.kind = "FINITE" => last \in Int
  BY <1>1, <1>3, RoundedDown
<1> HIDE DEF first, last
<1>9. CASE g.max.kind = "UNBOUNDED"
  BY <1>1, <1>3, <1>5, <1>7, <1>9 DEF IsGrid, Grid
<1>10. CASE g.max.kind = "FINITE" /\ ~(last < first)
  <2>1. last \in Nat /\ first <= last
    BY <1>7, <1>8, <1>10
  <2> QED
    BY <1>1, <1>3, <1>5, <1>7, <1>10, <2>1 DEF IsGrid, Grid
<1>11. CASE g.max.kind = "FINITE" /\ last < first
  BY <1>5, <1>11
<1> QED
  BY <1>9, <1>10, <1>11

\* What a risk function supports of a grid is known in full.
LEMMA SupportedIsFinite ==
  ASSUME NEW d, IsGrid(d), NEW maximum \in Int
  PROVE  Finite(Supported(d, maximum)) /\ (Supported(d, maximum) # EmptyGrid => Supported(d, maximum) # None)
<1> DEFINE bound == (maximum - d.origin) \div d.step
           last == IF d.last = Open THEN bound ELSE Smaller(d.last, bound)
<1>1. bound \in Int
  BY IndexAgainstBound
<1>2. ~IsEmpty(d) /\ d.first \in Nat /\ (d.last = Open \/ d.last \in Nat)
  BY DEF IsGrid, IsEmpty
<1>3. Supported(d, maximum) = IF last < d.first THEN EmptyGrid ELSE Slice(d, d.first, last)
  BY <1>2 DEF Supported
<1>4. last \in Int
  BY <1>1, <1>2 DEF Smaller
<1> HIDE DEF last, bound
<1>5. CASE last < d.first
  BY <1>3, <1>5 DEF Finite
<1>6. CASE ~(last < d.first)
  <2>1. last \in Nat /\ last # Open
    BY <1>2, <1>4, <1>6 DEF Open
  <2>2. Supported(d, maximum) = Grid(d.origin, d.step, d.first, last)
    BY <1>3, <1>6, <2>1 DEF Slice
  <2>3. Bounded(Grid(d.origin, d.step, d.first, last))
    BY <1>2, <1>4, <1>6, <2>1 DEF Bounded, IsGrid, Grid
  <2>4. Grid(d.origin, d.step, d.first, last) \in [kind : {"REGULAR_GRID"}, origin : Int, step : Int, first : Int, last : Int]
    BY <1>2, <1>4 DEF Grid, IsGrid
  <2> QED
    BY <2>2, <2>3, <2>4, NoneIsApart DEF Finite
<1> QED
  BY <1>5, <1>6

\* What an interval leaves of a domain that is known in full is, too.
LEMMA ClippedIsFinite ==
  ASSUME NEW d, Finite(d), NEW lo \in Int, NEW hi \in Int
  PROVE  /\ Finite(Clip(d, Interval(lo, hi)))
         /\ \A q \in Int : Includes(Clip(d, Interval(lo, hi)), q) <=> Includes(d, q) /\ lo <= q /\ q <= hi
<1>1. CASE d = EmptyGrid
  <2>1. Clip(d, Interval(lo, hi)) = EmptyGrid
    BY <1>1 DEF Clip, IsEmpty, EmptyGrid
  <2> QED
    BY <1>1, <2>1, NothingInEmpty DEF Finite
<1>2. CASE Bounded(d)
  <2> DEFINE low == CeilDiv(lo - d.origin, d.step)
             high == (hi - d.origin) \div d.step
             first == Larger(d.first, low)
             last == Smaller(d.last, high)
  <2>1. low \in Int /\ high \in Int
    BY <1>2, IndexAgainstBound DEF Bounded
  <2>2. IsGrid(d) /\ d.last # Open /\ ~IsEmpty(d) /\ d.first \in Nat /\ d.last \in Nat
    BY <1>2 DEF Bounded, IsGrid, IsEmpty
  <2>3. Clip(d, Interval(lo, hi)) = IF first > last THEN EmptyGrid ELSE Slice(d, first, last)
    BY <2>2 DEF Clip, Interval
  <2>4. first \in Nat /\ last \in Int
    BY <2>1, <2>2 DEF Larger, Smaller
  <2> HIDE DEF first, last
  <2>5. Finite(Clip(d, Interval(lo, hi)))
    <3>1. CASE first > last
      BY <2>3, <3>1 DEF Finite
    <3>2. CASE ~(first > last)
      <4>1. first <= last
        BY <2>4, <3>2
      <4>2. Bounded(Slice(d, first, last))
        BY <1>2, <2>4, <4>1, PartIsBounded
      <4> QED
        BY <2>3, <3>2, <4>2 DEF Finite
    <3> QED
      BY <3>1, <3>2
  <2>6. \A q \in Int : Includes(Clip(d, Interval(lo, hi)), q) <=> Includes(d, q) /\ lo <= q /\ q <= hi
    BY <2>2, ClippingIsExact
  <2> QED
    BY <2>5, <2>6
<1> QED
  BY <1>1, <1>2 DEF Finite

\* The members of a domain are what it includes.
LEMMA MembersAreIncluded ==
  ASSUME NEW d, Finite(d)
  PROVE  Domain(d) = { q \in 1 .. Top : Includes(d, q) }
<1>0. Domain(d) = Members(d, Top)
  BY DEF Domain
<1>1. CASE d = EmptyGrid
  <2>1. Members(d, Top) = {}
    BY <1>1 DEF Members, IsEmpty, EmptyGrid
  <2> QED
    BY <1>0, <1>1, <2>1, NothingInEmpty
<1>2. CASE Bounded(d)
  <2>1. ~IsEmpty(d) /\ d.last # Open
    BY <1>2 DEF Bounded, IsGrid, IsEmpty
  <2>2. Members(d, Top) = { q \in 1 .. Top : \E i \in d.first .. d.last : q = At(d, i) }
    BY <2>1 DEF Members
  <2>3. \A q : Includes(d, q) <=> \E i \in d.first .. d.last : q = At(d, i)
    BY <1>2, BoundedIncludes
  <2> QED
    BY <1>0, <2>2, <2>3
<1> QED
  BY <1>1, <1>2 DEF Finite

\* On the grid: a whole number of increments from the origin.
LEMMA OnGridIsWhole ==
  ASSUME NEW origin \in Int, NEW step \in Int, step > 0, NEW q \in Int
  PROVE  (q - origin) % step = 0 <=> \E j \in Int : q = origin + j * step
<1> DEFINE k == (q - origin) \div step
<1>1. k \in Int /\ k * step \in Int /\ q - origin = k * step + ((q - origin) % step)
  OBVIOUS
<1>2. (q - origin) % step \in 0 .. step - 1
  OBVIOUS
<1>3. ASSUME (q - origin) % step = 0 PROVE \E j \in Int : q = origin + j * step
  <2>1. q = origin + k * step
    BY <1>1, <1>3
  <2> QED
    BY <1>1, <2>1
<1>4. ASSUME NEW j \in Int, q = origin + j * step PROVE (q - origin) % step = 0
  <2>1. j * step \in Int /\ (j - k) * step = j * step - k * step
    BY <1>1
  <2>2. (j - k) * step = (q - origin) % step
    BY <1>1, <1>4, <2>1
  <2>3. j - k \in Int
    BY <1>1
  <2>4. ~(j - k <= -1)
    <3>1. j - k <= -1 => (j - k) * step <= (-1) * step
      BY <2>3, OrderTimesStep
    <3> QED
      BY <1>2, <2>2, <3>1
  <2>5. ~(1 <= j - k)
    <3>1. 1 <= j - k => 1 * step <= (j - k) * step
      BY <2>3, OrderTimesStep
    <3> QED
      BY <1>2, <2>2, <3>1
  <2>6. j - k = 0
    BY <2>3, <2>4, <2>5
  <2> QED
    BY <2>2, <2>6
<1> QED
  BY <1>3, <1>4

\* What is lost per unit entered at x and left at y, and the price quoted to enter.
Move(x, y) == IF request.direction = "LONG" THEN x - y ELSE y - x
Quoted == IF request.direction = "LONG" THEN request.quote.ask ELSE request.quote.bid

\* The price loss per unit is that of the worst prices within the allowances.
LEMMA WorstIsDistance ==
  ASSUME TypeOK, world.asked = "entry"
  PROVE  WorstMove = Distance(Evidence) /\ WorstMove \in Int
<1> DEFINE e == Evidence
           a == request.terms.entryAllowance
           b == request.terms.stopAllowance
           s == request.stop
           X == Quoted - a .. Quoted + a
           Y == s - b .. s + b
           S == { Move(x, y) : x \in X, y \in Y }
           d == Distance(e)
<1>1. /\ e.direction = request.direction /\ e.stop = s /\ e.quote = request.quote /\ e.terms = request.terms
  BY EvidenceIsCaptured DEF request
<1>2. /\ request.direction \in {"LONG", "SHORT"} /\ s \in Int /\ a \in Nat /\ b \in Nat
      /\ request.quote.bid \in Int /\ request.quote.ask \in Int
  BY OrderIsCounted DEF request
<1> HIDE DEF e
<1>3. CASE request.direction = "LONG"
  <2>1. Quoted = request.quote.ask /\ \A x, y : Move(x, y) = x - y
    BY <1>3 DEF Quoted, Move
  <2>2. d = (Quoted + a) - (s - b)
    BY <1>1, <1>3, <2>1 DEF Distance, AdverseEntry, AdverseFill
  <2>3. Quoted + a \in X /\ s - b \in Y
    BY <1>2, <2>1
  <2>4. d \in S
    <3>1. Move(Quoted + a, s - b) \in S
      BY <2>3
    <3> HIDE DEF S
    <3> QED
      BY <2>1, <2>2, <3>1
  <2>5. ASSUME NEW z \in S PROVE z \in Int /\ z <= d
    <3>1. PICK x \in X, y \in Y : z = Move(x, y)
      OBVIOUS
    <3>2. z = x - y
      BY <2>1, <3>1
    <3>3. Quoted \in Int
      BY <1>2, <2>1
    <3> HIDE DEF S, d
    <3> QED
      BY <1>2, <2>2, <3>2, <3>3
  <2>6. d \in Int
    BY <1>2, <2>1, <2>2
  <2> HIDE DEF S, d
  <2>7. Max(S) = d
    <3>1. \A z \in S : d >= z
      BY <2>5, <2>6
    <3>2. \A z \in S : (\A y \in S : z >= y) => z = d
      BY <2>4, <2>5, <2>6
    <3> QED
      BY <2>4, <3>1, <3>2 DEF Max
  <2> QED
    BY <2>6, <2>7 DEF WorstMove, Move, Quoted, S, d, e
<1>4. CASE request.direction # "LONG"
  <2>1. Quoted = request.quote.bid /\ \A x, y : Move(x, y) = y - x
    BY <1>4 DEF Quoted, Move
  <2>2. d = (s + b) - (Quoted - a)
    BY <1>1, <1>4, <2>1 DEF Distance, AdverseEntry, AdverseFill
  <2>3. Quoted - a \in X /\ s + b \in Y
    BY <1>2, <2>1
  <2>4. d \in S
    <3>1. Move(Quoted - a, s + b) \in S
      BY <2>3
    <3> HIDE DEF S
    <3> QED
      BY <2>1, <2>2, <3>1
  <2>5. ASSUME NEW z \in S PROVE z \in Int /\ z <= d
    <3>1. PICK x \in X, y \in Y : z = Move(x, y)
      OBVIOUS
    <3>2. z = y - x
      BY <2>1, <3>1
    <3>3. Quoted \in Int
      BY <1>2, <2>1
    <3> HIDE DEF S, d
    <3> QED
      BY <1>2, <2>2, <3>2, <3>3
  <2>6. d \in Int
    BY <1>2, <2>1, <2>2
  <2> HIDE DEF S, d
  <2>7. Max(S) = d
    <3>1. \A z \in S : d >= z
      BY <2>5, <2>6
    <3>2. \A z \in S : (\A y \in S : z >= y) => z = d
      BY <2>4, <2>5, <2>6
    <3> QED
      BY <2>4, <3>1, <3>2 DEF Max
  <2> QED
    BY <2>6, <2>7 DEF WorstMove, Move, Quoted, S, d, e
<1> QED
  BY <1>3, <1>4

\* The greater of two.
LEMMA MaxOfTwo ==
  ASSUME NEW a \in Int, NEW b \in Int
  PROVE  Max({a, b}) = Larger(a, b)
<1> DEFINE S == {a, b}
           m == Larger(a, b)
<1>1. m \in S /\ m \in Int /\ \A z \in S : z \in Int /\ m >= z
  BY DEF Larger
<1> HIDE DEF S, m
<1>2. \A z \in S : (\A y \in S : z >= y) => z = m
  BY <1>1
<1>3. Max(S) = m
  BY <1>1, <1>2 DEF Max
<1> QED
  BY <1>3 DEF S, m

\* The charges of the order add up to what the recursion gives for them.
LEMMA ChargesAreFolded ==
  ASSUME TypeOK, NEW q \in Int
  PROVE  LET charges == request.terms.charges
             n == Len(charges)
         IN  \E g : /\ Folding(SUBSET (1 .. n), 0, [i \in 1 .. n |-> ChargeOf(charges[i], q)], g)
                    /\ TrueCharges(q) = g[1 .. n]
<1> DEFINE charges == request.terms.charges
           n == Len(charges)
           amount == [i \in 1 .. n |-> ChargeOf(charges[i], q)]
           eq(g) == g = [s \in SUBSET DOMAIN charges |->
                           IF s = {} THEN 0
                           ELSE LET x == Max(s)
                                IN  g[s \ {x}] + Max({charges[x].minimum, charges[x].fixed + charges[x].perUnit * q})]
           iter == CHOOSE g : eq(g)
<1>0. charges \in Seq(Charge)
  BY OrderIsCounted DEF request
<1>1. n \in Nat /\ DOMAIN charges = 1 .. n /\ \A i \in 1 .. n : charges[i] \in Charge
  BY <1>0
<1>2. TrueCharges(q) = iter[DOMAIN charges]
  BY DEF TrueCharges, FoldLeft, MapThenFoldSet
<1>3. ASSUME NEW g PROVE eq(g) <=> Folding(SUBSET (1 .. n), 0, amount, g)
  <2>1. ASSUME NEW s \in SUBSET (1 .. n), s # {}
        PROVE  amount[Max(s)] = Max({charges[Max(s)].minimum, charges[Max(s)].fixed + charges[Max(s)].perUnit * q})
    <3> DEFINE x == Max(s)
    <3>1. x \in 1 .. n
      BY <1>1, <2>1, GreatestLeaves
    <3> HIDE DEF x
    <3>2. charges[x].minimum \in Int /\ charges[x].fixed \in Int /\ charges[x].perUnit \in Int
      BY <1>1, <3>1 DEF Charge
    <3>3. charges[x].fixed + charges[x].perUnit * q \in Int
      BY <3>2
    <3>4. amount[x] = ChargeOf(charges[x], q)
      BY <3>1
    <3> HIDE DEF amount, charges
    <3>5. amount[x] = Max({charges[x].minimum, charges[x].fixed + charges[x].perUnit * q})
      BY <3>2, <3>3, <3>4, MaxOfTwo DEF ChargeOf
    <3> QED
      BY <3>5 DEF x
  <2> HIDE DEF amount, n, charges
  <2> QED
    BY <1>1, <2>1 DEF Folding
<1>4. \E g : eq(g)
  <2>1. \E g : Folding(SUBSET (1 .. n), 0, amount, g)
    <3> HIDE DEF amount, n
    <3> QED
      BY <1>1, FoldExists
  <2> HIDE DEF eq, amount, n, charges
  <2> QED
    BY <1>3, <2>1
<1>5. eq(iter)
  <2> HIDE DEF eq
  <2> QED
    BY <1>4
<1>6. Folding(SUBSET (1 .. n), 0, amount, iter)
  <2> HIDE DEF eq, amount, n, iter, charges
  <2> QED
    BY <1>3, <1>5
<1> HIDE DEF iter
<1> QED
  BY <1>1, <1>2, <1>6

\* The function an established risk basis gives loses what the worst prices lose.
LEMMA LossIsTrue ==
  ASSUME CapturedNow, LastInstant \in Nat, RiskGranted(Evidence)
  PROVE  LET f == RiskFunction(Evidence)
         IN  /\ Priced(f) /\ f.maximum = request.terms.maximumQuantity
             /\ \A q \in Int : Loss(f, q) = TrueLoss(q) /\ TrueLoss(q) \in Int
<1> DEFINE e == Evidence
           f == RiskFunction(e)
           k == world.revisions[TrueRevision].coefficient
           d == WorstMove
           charges == request.terms.charges
           n == Len(charges)
<1>1. d = Distance(e) /\ d \in Int /\ e.terms = request.terms
  BY WorstIsDistance, EvidenceIsCaptured DEF CapturedNow, request
<1>2. Contract(e) = world.revisions[TrueRevision] /\ TrueRevision \in DOMAIN world.revisions
  BY SpecificationIsTrue
<1>3. k \in Nat \ {0}
  BY <1>2, OrderIsCounted DEF CapturedNow
<1>4. charges \in Seq(Charge)
  BY OrderIsCounted DEF request, CapturedNow
<1>5. ~(Distance(e) <= 0)
  <2>1. ~StopUnusable(e)
    BY NothingStandsAgainstIt DEF RiskGranted
  <2> QED
    BY <2>1 DEF StopUnusable
<1>6. f.priceLoss = k * d /\ f.charges = charges /\ f.maximum = request.terms.maximumQuantity
  BY <1>1, <1>2 DEF RiskFunction
<1> HIDE DEF e, f, d, k, charges
<1>7. d \in Nat
  BY <1>1, <1>5
<1>8. f.priceLoss \in Nat
  <2>1. k * d >= 0 /\ k * d \in Int
    BY <1>3, <1>7, ProductOfNonnegatives
  <2> QED
    BY <1>6, <2>1
<1>9. Priced(f)
  BY <1>4, <1>6, <1>8 DEF Priced
<1>10. ASSUME NEW q \in Int
       PROVE  Loss(f, q) = TrueLoss(q) /\ TrueLoss(q) \in Int
  <2> DEFINE amount == [i \in 1 .. n |-> ChargeOf(charges[i], q)]
             base == f.priceLoss * q
  <2>1. n \in Nat /\ \A i \in 1 .. n : charges[i] \in Charge
    BY <1>4
  <2>2. PICK g : Folding(SUBSET (1 .. n), base, amount, g) /\ Loss(f, q) = g[1 .. n]
    BY <1>4, <1>6, LossIsFold
  <2>3. PICK h : Folding(SUBSET (1 .. n), 0, amount, h) /\ TrueCharges(q) = h[1 .. n]
    BY ChargesAreFolded DEF charges, CapturedNow
  <2>4. \A i \in 1 .. n : amount[i] \in Int /\ amount[i] <= amount[i]
    <3>1. ASSUME NEW i \in 1 .. n PROVE ChargeOf(charges[i], q) \in Int
      BY <2>1, ChargeIsCounted
    <3> QED
      BY <3>1
  <2>5. base \in Int /\ -base \in Int /\ 0 \in Int /\ 0 + base <= base /\ base + (-base) <= 0
    BY <1>8
  <2> HIDE DEF base, amount, n
  <2>6. h[1 .. n] \in Int /\ g[1 .. n] \in Int /\ h[1 .. n] + base <= g[1 .. n]
    BY <2>1, <2>2, <2>3, <2>4, <2>5, FoldsCompare
  <2>7. g[1 .. n] + (-base) <= h[1 .. n]
    BY <2>1, <2>2, <2>3, <2>4, <2>5, FoldsCompare
  <2>8. Loss(f, q) = base + TrueCharges(q) /\ TrueCharges(q) \in Int
    <3>1. ASSUME NEW x \in Int, NEW y \in Int, NEW b \in Int, x + b <= y, y + (-b) <= x
          PROVE  y = b + x
      BY <3>1
    <3>2. base \in Int
      BY <2>5
    <3>3. g[1 .. n] = base + h[1 .. n]
      BY <2>6, <2>7, <3>1, <3>2
    <3> QED
      BY <2>2, <2>3, <2>6, <3>3
  <2>9. d * q * k = base /\ d * q * k \in Int
    BY <1>3, <1>6, <1>7 DEF base
  <2> QED
    BY <2>5, <2>8, <2>9 DEF TrueLoss, d, k
<1> QED
  BY <1>6, <1>9, <1>10 DEF f, e

\* A loss within the budget is one within a hundredth of the equity.
LEMMA BudgetIsTrue ==
  ASSUME CapturedNow, \A n \in PolicyNodes(Evidence) : n[2] = "SATISFIED"
  PROVE  LET budget == Budget(Evidence.packet["financial"])
         IN  /\ budget \in Int
             /\ \A l \in Int : l <= budget <=> 100 * l <= Newest("account", now).equity
<1> DEFINE equity == Newest("account", now).equity
<1>1. Budget(Evidence.packet["financial"]) = equity \div 100
  BY EquityIsLeft DEF CapturedNow, Budget
<1>2. equity \in Int
  BY AccountIsCounted DEF CapturedNow
<1> HIDE DEF equity
<1>3. equity \div 100 \in Int /\ \A l \in Int : l <= equity \div 100 <=> l * 100 <= equity
  BY <1>2, RoundedDown
<1> QED
  BY <1>1, <1>3 DEF equity

\* A grid or an interval of integers.
BodyCounted(topic, r) ==
  /\ topic = "grid" /\ r.kind = "DECLARE" =>
       /\ {r.body.origin, r.body.step, r.body.min} \subseteq Int
       /\ r.body.max.kind \in {"FINITE", "UNBOUNDED"}
       /\ r.body.max.kind = "FINITE" => r.body.max.value \in Int
  /\ topic = "effect" /\ r.kind = "DECLARE" => {r.body.range.min, r.body.range.max} \subseteq Int

\* The declared grids and intervals are of integers.
LEMMA DeclaredAreCounted ==
  ASSUME TypeOK, NEW topic \in Entered, NEW t, NEW r \in Declared(topic, t)
  PROVE  BodyCounted(topic, r)
<1> DEFINE P == Posted(topic, t)
           rec == [p \in P |-> [id |-> p.item.id, kind |-> p.item.kind, pred |-> p.item.pred,
                                from |-> p.item.from, until |-> p.item.until,
                                published |-> posted[p], body |-> p.item.body]]
           records == world.declared[topic] \cup { p.item : p \in { p \in world.menu : p.topic = topic } }
<1>1. \A x \in records : BodyCounted(topic, x)
  <2>1. topic \in Streams /\ world \in Worlds
    BY DEF Streams, Entered, TypeOK
  <2> QED
    BY <2>1, TermsAreCounted DEF BodyCounted
<1>2. CASE r \in world.declared[topic]
  <2>1. r \in records
    BY <1>2
  <2> HIDE DEF records
  <2> QED
    BY <1>1, <2>1
<1>3. CASE \E p \in P : r = rec[p]
  <2>1. PICK p \in P : r = rec[p]
    BY <1>3
  <2>2. p.item \in records
    BY DEF Posted
  <2>3. r.kind = p.item.kind /\ r.body = p.item.body
    BY <2>1
  <2>4. BodyCounted(topic, p.item)
    <3> HIDE DEF records
    <3> QED
      BY <1>1, <2>2
  <2> QED
    BY <2>3, <2>4 DEF BodyCounted
<1> QED
  BY <1>2, <1>3 DEF Declared

\* The grid of the terms that resolve is that of the terms in force ...
LEMMA GridIsTheTerms ==
  ASSUME CapturedNow, LastInstant \in Nat, GridAdmissible(Evidence), Resolves(Inventory("grid", now), now)
  PROVE  LET d == Descriptor(InForce(Inventory("grid", now), now).body)
         IN  /\ d = EmptyGrid \/ IsGrid(d)
             /\ \A q \in Int : Includes(d, q) <=>
                  q > 0 /\ TrueTerms("grid") # {} /\ \A r \in TrueTerms("grid") : InForceNow(r) /\ OnGrid(r.body, q)
<1> DEFINE inv == Inventory("grid", now)
           d == Descriptor(InForce(inv, now).body)
<1>1. Evidence.packet["financial"].grid = inv /\ Consistent(inv)
  <2>1. Evidence.packet["financial"].grid = inv
    BY DEF CapturedNow, Financial
  <2> QED
    BY <2>1 DEF GridAdmissible
<1>2. PICK r \in Declared("grid", now) :
        TrueTerms("grid") = {r} /\ InForceNow(r) /\ InForce(inv, now).body = r.body
  <2>1. "grid" \in Entered
    BY DEF Entered
  <2> QED
    BY <1>1, <2>1, TermsAreTrue DEF CapturedNow
<1> DEFINE g == r.body
<1>3. {g.origin, g.step, g.min} \subseteq Int /\ g.max.kind \in {"FINITE", "UNBOUNDED"}
      /\ (g.max.kind = "FINITE" => g.max.value \in Int)
  <2>1. BodyCounted("grid", r)
    BY DeclaredAreCounted DEF CapturedNow, Entered
  <2> QED
    BY <1>2, <2>1 DEF BodyCounted, InForceNow
<1>4. WellFormedTerms(g)
  <2> DEFINE x == [id |-> r.id, kind |-> r.kind, pred |-> r.pred, from |-> r.from, until |-> r.until,
                   published |-> r.published, body |-> r.body]
  <2>1. ~Blurred("grid") /\ "grid" \in Entered
    BY ResolvedIsCapturedNow DEF Entered
  <2>2. inv.records = { [id |-> s.id, kind |-> s.kind, pred |-> s.pred, from |-> s.from, until |-> s.until,
                         published |-> s.published, body |-> s.body] : s \in Declared("grid", now) }
    BY <2>1, TermsAreCaptured
  <2>3. x \in inv.records
    BY <2>2
  <2>4. inv.coverage.declarations = "COMPLETE"
    BY DEF Inventory
  <2>5. x.kind = "DECLARE" /\ x.body = g
    BY <1>2 DEF InForceNow
  <2> HIDE DEF x, inv
  <2> QED
    BY <1>1, <2>3, <2>4, <2>5 DEF GridAdmissible
<1>5. d = Descriptor(g)
  BY <1>2
<1> HIDE DEF d, g, inv
<1>6. d = EmptyGrid \/ IsGrid(d)
  BY <1>3, <1>4, <1>5, DescriptorIsGrid
<1>7. ASSUME NEW q \in Int
      PROVE  Includes(d, q) <=> q > 0 /\ OnGrid(g, q)
  <2>1. Includes(d, q) <=>
           /\ q > 0 /\ g.min <= q
           /\ g.max.kind = "FINITE" => q <= g.max.value
           /\ \E j \in Int : q = g.origin + j * g.step
    BY <1>3, <1>4, <1>5, DescriptorIsExact
  <2>2. (q - g.origin) % g.step = 0 <=> \E j \in Int : q = g.origin + j * g.step
    BY <1>3, <1>4, OnGridIsWhole DEF WellFormedTerms
  <2> QED
    BY <2>1, <2>2 DEF OnGrid
<1>8. ASSUME NEW q \in Int
      PROVE  Includes(d, q) <=>
               q > 0 /\ TrueTerms("grid") # {} /\ \A x \in TrueTerms("grid") : InForceNow(x) /\ OnGrid(x.body, q)
  BY <1>2, <1>7 DEF g
<1> QED
  BY <1>6, <1>8 DEF d, inv

\* ... and so is the grid of an answer ...
LEMMA GridIsTrue ==
  ASSUME CapturedNow, LastInstant \in Nat, QuantityDomain(Evidence).outcome = "ESTABLISHED"
  PROVE  LET d == QuantityDomain(Evidence).value
         IN  /\ IsGrid(d)
             /\ \A q \in Int : Includes(d, q) <=>
                  q > 0 /\ TrueTerms("grid") # {} /\ \A r \in TrueTerms("grid") : InForceNow(r) /\ OnGrid(r.body, q)
<1> DEFINE inv == Inventory("grid", now)
           d == QuantityDomain(Evidence).value
<1>1. Evidence.packet["financial"] # None
  BY EvidenceIsCaptured DEF CapturedNow, QuantityDomain, Unknown, Invalid, Answer
<1>2. Evidence.packet["financial"].grid = inv /\ Resolves(inv, now) /\ GridAdmissible(Evidence) /\ Evidence.at = now
  BY <1>1, AnsweredNow, EvidenceIsCaptured DEF CapturedNow
<1>3. d = Descriptor(InForce(inv, now).body) /\ ~IsEmpty(d)
  BY <1>2, DomainIsOfTheGrid
<1> HIDE DEF d
<1>4. d # EmptyGrid
  BY <1>3 DEF IsEmpty, EmptyGrid
<1> QED
  BY <1>2, <1>3, <1>4, GridIsTheTerms DEF d

\* ... and its interval.
LEMMA EffectIsTrue ==
  ASSUME TypeOK, world.asked = "entry", LastInstant \in Nat, PositionEffect(Evidence).outcome = "ESTABLISHED"
  PROVE  \E lo, hi \in Int :
           /\ PositionEffect(Evidence).value = Interval(lo, hi) /\ lo <= hi
           /\ \A q \in Int : lo <= q /\ q <= hi <=>
                /\ TrueTerms("effect") # {}
                /\ \A r \in TrueTerms("effect") :
                     InForceNow(r) /\ r.body.mechanics = "SUPPORTED" /\ q \in r.body.range.min .. r.body.range.max
<1> DEFINE inv == Inventory("effect", now)
<1>1. Evidence.packet["position"].effect = inv /\ Resolves(inv, now) /\ Consistent(inv) /\ EffectAdmissible(Evidence)
      /\ Evidence.at = now
  BY EffectAnsweredNow, EvidenceIsCaptured
<1>2. /\ InForce(inv, now).body.mechanics = "SUPPORTED"
      /\ PositionEffect(Evidence).value = Interval(InForce(inv, now).body.range.min, InForce(inv, now).body.range.max)
  BY <1>1, EffectIsOfTheInterval
<1>3. PICK r \in Declared("effect", now) :
        TrueTerms("effect") = {r} /\ InForceNow(r) /\ InForce(inv, now).body = r.body
  <2>1. "effect" \in Entered
    BY DEF Entered
  <2> QED
    BY <1>1, <2>1, TermsAreTrue
<1> DEFINE lo == r.body.range.min
           hi == r.body.range.max
<1>4. lo \in Int /\ hi \in Int
  <2>1. BodyCounted("effect", r)
    BY DeclaredAreCounted DEF Entered
  <2> QED
    BY <1>3, <2>1 DEF BodyCounted, InForceNow
<1>5. lo <= hi
  <2> DEFINE x == [id |-> r.id, kind |-> r.kind, pred |-> r.pred, from |-> r.from, until |-> r.until,
                   published |-> r.published, body |-> r.body]
  <2>1. ~Blurred("effect") /\ "effect" \in Entered
    BY <1>1, ResolvedIsCapturedNow DEF Entered
  <2>2. inv.records = { [id |-> s.id, kind |-> s.kind, pred |-> s.pred, from |-> s.from, until |-> s.until,
                         published |-> s.published, body |-> s.body] : s \in Declared("effect", now) }
    BY <2>1, TermsAreCaptured
  <2>3. x \in inv.records
    BY <2>2
  <2>4. x.kind = "DECLARE" /\ x.body = r.body
    BY <1>3 DEF InForceNow
  <2> HIDE DEF x, inv
  <2> QED
    BY <1>1, <2>3, <2>4 DEF EffectAdmissible
<1>6. r.body.mechanics = "SUPPORTED" /\ PositionEffect(Evidence).value = Interval(lo, hi)
  BY <1>2, <1>3
<1>7. \A q \in Int : lo <= q /\ q <= hi <=>
        /\ TrueTerms("effect") # {}
        /\ \A x \in TrueTerms("effect") :
             InForceNow(x) /\ x.body.mechanics = "SUPPORTED" /\ q \in x.body.range.min .. x.body.range.max
  BY <1>3, <1>4, <1>6
<1> HIDE DEF lo, hi
<1> QED
  BY <1>4, <1>5, <1>6, <1>7

\* An effect is answered only of an account with no position and nothing under way.
LEMMA AccountIsEmpty ==
  ASSUME TypeOK, world.asked = "entry", PositionEffect(Evidence).outcome = "ESTABLISHED"
  PROVE  Newest("account", now).positions = {} /\ Items("commitment", now) = {}
<1> DEFINE p == PositionPacket(now)
           who == IF Blurred("roster") THEN {"provider"} ELSE world.roster
           Status(x) == IF [member |-> x] \in Items("commitment", now) THEN "NOT_EMPTY" ELSE "EMPTY"
<1>1. Evidence.packet["position"] = p /\ AccountIsFlat(Evidence) /\ NoCommitments(Evidence)
  BY EffectAnsweredNow, EffectIsOfTheInterval
<1>2. /\ p.account = Account(now) /\ p.roster = world.roster
      /\ p.reports = { [member |-> x, stateAt |-> now, complete |-> TRUE, status |-> Status(x)] : x \in who }
  BY DEF PositionPacket
<1> HIDE DEF p, who, Status
<1>3. Newest("account", now).positions = {}
  <2>1. p.account.positions = {}
    BY <1>1 DEF AccountIsFlat
  <2>2. Account(now).positions = Newest("account", now).positions
    BY DEF Account
  <2> QED
    BY <1>2, <2>1, <2>2
<1>4. ASSUME NEW x \in world.roster
      PROVE  [member |-> x] \notin Items("commitment", now)
  <2>1. x \in { r.member : r \in p.reports } /\ \A r \in p.reports : r.status = "EMPTY"
    BY <1>1, <1>2 DEF NoCommitments
  <2>2. PICK r \in p.reports : r.member = x
    BY <2>1
  <2>3. PICK y \in who : r = [member |-> y, stateAt |-> now, complete |-> TRUE, status |-> Status(y)]
    BY <1>2
  <2>4. y = x /\ Status(x) = "EMPTY"
    BY <2>1, <2>2, <2>3
  <2> QED
    BY <2>4 DEF Status
<1>5. ASSUME NEW y \in Items("commitment", now)
      PROVE  FALSE
  <2>1. PICK m \in world.menu : m.topic = "commitment" /\ y = m.item
    BY DEF Items, Posted
  <2>2. \E x \in world.roster : y = [member |-> x]
    BY <2>1, AccountsAreCounted DEF TypeOK
  <2> QED
    BY <1>4, <2>2
<1> QED
  BY <1>3, <1>5

-----------------------------------------------------------------------------
(* The limits of the position.                                             *)

\* What established limits rest on.
LEMMA LimitsAreGranted ==
  ASSUME NEW e, Limits(e).outcome = "ESTABLISHED"
  PROVE  LET regime == SelectedHere(e)
             effect == PositionEffect(e)
             limiting == { rule \in RulesOf(regime) : Disposition(e, regime, effect, rule) = "TERMINAL_LIMIT" }
             maxima == { rule.maximum : rule \in { rule \in limiting : rule.type = "POSITION_QUANTITY" } }
         IN  /\ LimitsAdmissible(e, regime, effect) /\ regime.outcome = "UNIQUE"
             /\ \A rule \in RulesOf(regime) : Disposition(e, regime, effect, rule) # "UNRESOLVED"
             /\ \A rule \in limiting : Excluded(rule, effect.value).kind # "ALL_SUPPORT"
             /\ Limits(e).domain = Interval(effect.value.min, Min({effect.value.max} \cup maxima))
<1> DEFINE regime == SelectedHere(e)
           effect == PositionEffect(e)
           open == { rule \in RulesOf(regime) : Disposition(e, regime, effect, rule) = "UNRESOLVED" }
           limiting == { rule \in RulesOf(regime) : Disposition(e, regime, effect, rule) = "TERMINAL_LIMIT" }
           maxima == { rule.maximum : rule \in { rule \in limiting : rule.type = "POSITION_QUANTITY" } }
           disposed == [d \in {"UNRESOLVED", "TERMINAL_LIMIT"} |->
                   { rule \in RulesOf(regime) : Disposition(e, regime, effect, rule) = d }]
           excluded == { Excluded(rule, effect.value) : rule \in limiting } \ {Nothing}
           settled == /\ effect.outcome = "ESTABLISHED"
                      /\ RegimeProven(e, regime) /\ ScopeProven(e) /\ LimitsCovered(e, regime)
                      /\ open = {}
           all == [kind |-> "ALL_SUPPORT"]
<1>1. Limits(e) = LimitsFrom(e, regime, effect)
  BY DEF Limits, NoLimits
<1>2. LimitsAdmissible(e, regime, effect) /\ Limits(e) = LimitsOf(e, regime, effect, disposed)
  BY <1>1 DEF LimitsFrom, NoLimits
<1>3. disposed["UNRESOLVED"] = open /\ disposed["TERMINAL_LIMIT"] = limiting
  OBVIOUS
<1>4. Limits(e) = LimitsResult(effect.value, excluded, limiting, settled)
  <2> HIDE DEF disposed, regime, effect
  <2> QED
    BY <1>2, <1>3 DEF LimitsOf
<1> HIDE DEF excluded, settled, limiting
<1>5. all \notin excluded /\ settled
      /\ Limits(e).domain = Interval(effect.value.min, Min({effect.value.max} \cup maxima))
  <2> DEFINE yes == [outcome |-> "ESTABLISHED", domain |-> Interval(effect.value.min, Min({effect.value.max} \cup maxima)),
                     excluded |-> excluded]
             no == [outcome |-> "NOT_SUITABLE", domain |-> EmptyInterval, excluded |-> excluded]
             maybe == [outcome |-> "UNKNOWN", domain |-> None, excluded |-> excluded]
  <2>1. Limits(e) = IF all \in excluded THEN no ELSE IF settled THEN yes ELSE maybe
    BY <1>4 DEF LimitsResult
  <2>2. no.outcome = "NOT_SUITABLE" /\ maybe.outcome = "UNKNOWN"
        /\ yes.domain = Interval(effect.value.min, Min({effect.value.max} \cup maxima))
    OBVIOUS
  <2> HIDE DEF yes, no, maybe
  <2> QED
    BY <2>1, <2>2
<1>6. ASSUME NEW rule \in limiting, Excluded(rule, effect.value).kind = "ALL_SUPPORT"
      PROVE  FALSE
  <2>1. Excluded(rule, effect.value) \in {all, Nothing,
          [kind |-> "UPPER_TAIL", above |-> rule.maximum, upto |-> effect.value.max]}
    BY DEF Excluded
  <2>2. Excluded(rule, effect.value) = all
    BY <1>6, <2>1 DEF Nothing
  <2>3. all # Nothing
    BY DEF Nothing
  <2>4. all \in excluded
    BY <2>2, <2>3 DEF excluded
  <2> QED
    BY <1>5, <2>4
<1>7. regime.outcome = "UNIQUE" /\ open = {}
  BY <1>5 DEF settled, RegimeProven
<1> QED
  BY <1>2, <1>5, <1>6, <1>7 DEF limiting

\* A finite set of integers has a least member.
LEMMA LeastExists ==
  ASSUME NEW S, IsFiniteSet(S), S # {}, S \subseteq Int
  PROVE  Min(S) \in S /\ \A y \in S : Min(S) <= y
<1> DEFINE Below(x) == { y \in S : y <= x }
           T == { Below(x) : x \in S }
<1>1. T \in SUBSET (SUBSET S) /\ T # {}
  OBVIOUS
<1>2. PICK s \in T : \A r \in T : ~(r \subseteq s /\ r # s)
  <2>1. ASSUME NEW U \in SUBSET (SUBSET S), U # {}
        PROVE  \E s \in U : \A r \in U : ~(r \subseteq s /\ r # s)
    <3> HIDE DEF T, Below
    <3> QED
      BY ONLY IsFiniteSet(S), U \in SUBSET (SUBSET S), U # {}, SmallestSet
  <2> HIDE DEF T, Below
  <2> QED
    BY <1>1, <2>1
<1>3. PICK x \in S : s = Below(x)
  BY <1>2
<1>4. ASSUME NEW y \in S, ~(x <= y) PROVE FALSE
  <2>1. Below(y) \in T
    OBVIOUS
  <2>3. ASSUME NEW z \in S, z <= y PROVE z <= x
    <3>1. x \in Int /\ y \in Int /\ z \in Int
      OBVIOUS
    <3> QED
      BY <1>4, <2>3, <3>1
  <2>4. Below(y) \subseteq Below(x)
    BY <2>3
  <2>2. x \in Below(x) /\ x \notin Below(y)
    BY <1>4
  <2> QED
    BY <1>2, <1>3, <2>1, <2>2, <2>4
<1> HIDE DEF Below, T
<1>5. \E z \in S : \A y \in S : z <= y
  BY <1>4
<1> QED
  BY <1>5 DEF Min

\* The rules that bind the account are some package's.
LEMMA TrueRulesAreTheWorlds ==
  ASSUME TypeOK, NEW t
  PROVE  /\ \A r \in TrueRules(t) : r \in RulesOfWorld(world)
         /\ \A k \in DOMAIN Newest("regime", now).packages :
              /\ IsFiniteSet(Newest("regime", now).packages[k].rules)
              /\ \A r \in Newest("regime", now).packages[k].rules : r \in RulesOfWorld(world)
<1> DEFINE m == Newest("regime", now)
           manifests == {world.regime} \cup { p.item : p \in { p \in world.menu : p.topic = "regime" } }
<1>1. m \in manifests
  BY NewestIsOneOf
<1> HIDE DEF manifests, m
<1>2. ASSUME NEW k \in DOMAIN m.packages
      PROVE  IsFiniteSet(m.packages[k].rules) /\ \A r \in m.packages[k].rules : r \in RulesOfWorld(world)
  <2>1. IsFiniteSet(m.packages[k].rules)
    BY <1>1, RulesAreCounted DEF TypeOK, manifests
  <2>2. ASSUME NEW r \in m.packages[k].rules PROVE r \in RulesOfWorld(world)
    BY <1>1 DEF RulesOfWorld, manifests
  <2> QED
    BY <2>1, <2>2
<1>3. ASSUME NEW p \in TruePackages(t)
      PROVE  \E k \in DOMAIN m.packages : p = m.packages[k]
  <2> DEFINE active == { s \in m.assignments : Holding(s.enrollment, t) /\ Holding(s.phase, t) }
             bindings == { b \in UNION { s.packages : s \in active } :
                   Holding(b.period, t) /\ Holding(m.packages[b.package].period, t) }
             bound == { m.packages[b.package] : b \in bindings }
  <2>1. TruePackages(t) \subseteq bound
    BY DEF TruePackages, m
  <2>2. PICK b \in bindings : p = m.packages[b.package]
    BY <2>1
  <2>3. PICK s \in m.assignments : b \in s.packages
    BY <2>2
  <2>4. b.package \in DOMAIN m.packages
    BY <2>3, NewestRegimeIsDated DEF TypeOK, m
  <2> QED
    BY <2>2, <2>4
<1>4. ASSUME NEW r \in TrueRules(t) PROVE r \in RulesOfWorld(world)
  <2>1. PICK p \in TruePackages(t) : r \in p.rules
    BY DEF TrueRules
  <2> QED
    BY <1>2, <1>3, <2>1
<1> QED
  BY <1>2, <1>4 DEF m

\* The types of the rules that limit a position.
LimitTypes == {"POSITION_QUANTITY", "POSITION_COUNT"}

\* With one statement for each rule, a rule of the position is a limit of it exactly
\* when it is disposed of as one.
LEMMA LimitsAreDisposedOf ==
  ASSUME NEW e, NEW regime, NEW effect, NEW r, r.type \in LimitTypes,
         e.instrument = request.instrument,
         \A b, c \in BindingsOf(e, r) : b = c,
         Disposition(e, regime, effect, r) # "UNRESOLVED"
  PROVE  Disposition(e, regime, effect, r) = "TERMINAL_LIMIT" <=> TrueLimit(r)
<1> DEFINE based == RegimeProven(e, regime) /\ ScopeProven(e) /\ PopulationSupported(e, r) /\ Proven(e, r.id)
           limit == r.type \in {"POSITION_QUANTITY", "POSITION_COUNT"}
           later == r.effects \subseteq LaterEffects
           other == r.effects # {"UNKNOWN"} /\ r.supported /\ ~limit
           terminal == /\ limit /\ r.effects # {"UNKNOWN"}
                       /\ InForceThroughout(e, r)
                       /\ effect.outcome = "ESTABLISHED"
           p == LimitOf(e, r).population
<1>1. Disposition(e, regime, effect, r) =
        IF ~based THEN "UNRESOLVED" ELSE IF p = "DISJOINT" THEN "DISJOINT_POPULATION"
        ELSE IF later \/ other THEN "OTHER_OBLIGATION" ELSE IF terminal THEN "TERMINAL_LIMIT" ELSE "UNRESOLVED"
  BY DEF Disposition
<1>2. limit /\ ~other
  BY DEF LimitTypes
<1>3. based
  <2> HIDE DEF based, other, terminal, p, later
  <2> QED
    BY <1>1
<1>4. PICK b \in BindingsOf(e, r) :
        \/ b.population = "CONTAINS" /\ (Everywhere(r) \/ Names(e, r))
        \/ b.population = "DISJOINT" /\ ~Everywhere(r) /\ ~r.foreign /\ ~Names(e, r)
  BY <1>3 DEF PopulationSupported
<1>5. p = b.population
  <2>1. LimitOf(e, r) = b
    BY DEF LimitOf
  <2> QED
    BY <2>1
<1>6. p = "DISJOINT" <=> ~(r.instruments = None \/ request.instrument \in r.instruments)
  BY <1>4, <1>5 DEF Everywhere, Names
<1>7. TrueLimit(r) <=> ~later /\ (r.instruments = None \/ request.instrument \in r.instruments)
  BY <1>2 DEF TrueLimit, LaterEffects
<1> HIDE DEF based, other, terminal, p, later
<1> QED
  BY <1>1, <1>2, <1>3, <1>6, <1>7

\* Limits that are answered leave exactly the part of the interval that every limit
\* of the position allows.
LEMMA LimitsAreTrue ==
  ASSUME TypeOK, world.asked = "entry", PositionEffect(Evidence).outcome = "ESTABLISHED", Limits(Evidence).outcome = "ESTABLISHED",
         NEW lo \in Int, NEW hi \in Int, PositionEffect(Evidence).value = Interval(lo, hi)
  PROVE  \E top \in Int :
           /\ Limits(Evidence).domain = Interval(lo, top)
           /\ \A q \in Int : q <= top <=>
                q <= hi /\ \A r \in { r \in TrueRules(now) : TrueLimit(r) } : WithinLimit(r, q)
<1> DEFINE e == Evidence
           regime == SelectedHere(e)
           effect == PositionEffect(e)
           limiting == { rule \in RulesOf(regime) : Disposition(e, regime, effect, rule) = "TERMINAL_LIMIT" }
           caps == { rule \in limiting : rule.type = "POSITION_QUANTITY" }
           maxima == { rule.maximum : rule \in caps }
           all == { r \in TrueRules(now) : TrueLimit(r) }
           S == {hi} \cup maxima
           top == Min(S)
<1>1. Position(e) = PositionPacket(now) /\ e.at = now /\ e.instrument = request.instrument /\ Position(e) # None
  BY EffectAnsweredNow, EvidenceIsCaptured DEF Position, request
<1>2. regime = Regime(Manifest(now), now)
  <2>1. PositionPacket(now).regime = Manifest(now)
    BY DEF PositionPacket
  <2> QED
    BY <1>1, <2>1 DEF SelectedHere
<1>3. /\ LimitsAdmissible(e, regime, effect) /\ regime.outcome = "UNIQUE"
      /\ \A rule \in RulesOf(regime) : Disposition(e, regime, effect, rule) # "UNRESOLVED"
      /\ \A rule \in limiting : Excluded(rule, effect.value).kind # "ALL_SUPPORT"
      /\ Limits(e).domain = Interval(lo, top)
  <2>1. effect.value.min = lo /\ effect.value.max = hi
    BY DEF Interval
  <2> HIDE DEF effect, e
  <2> QED
    BY <2>1, LimitsAreGranted DEF effect, e
<1>4. PICK k \in DOMAIN Newest("regime", now).packages :
        /\ RulesOf(regime) = { Stated(x, now) : x \in TrueRules(now) }
        /\ TrueRules(now) = Newest("regime", now).packages[k].rules
  BY <1>2, <1>3, RegimeIsTrue
<1>5. /\ IsFiniteSet(TrueRules(now))
      /\ \A r \in TrueRules(now) : r.type \in LimitTypes => r.maximum \in Int
  <2>1. TypeOK /\ world \in Worlds
    BY DEF TypeOK
  <2>2. \A r \in TrueRules(now) : r \in RulesOfWorld(world)
    BY <2>1, TrueRulesAreTheWorlds
  <2>3. \A r \in RulesOfWorld(world) : r.type \in LimitTypes => r.maximum \in Int
    BY <2>1, RulesAreCounted DEF LimitTypes
  <2>4. IsFiniteSet(TrueRules(now))
    BY <1>4, <2>1, TrueRulesAreTheWorlds
  <2> QED
    BY <2>2, <2>3, <2>4
<1>6. ASSUME NEW r \in TrueRules(now), r.type \in LimitTypes
      PROVE  Stated(r, now) = r /\ r \in RulesOf(regime)
  <2>1. Stated(r, now) = r
    BY <1>6, RuleIsStated DEF LimitTypes
  <2> QED
    BY <1>4, <2>1
<1>7. ASSUME NEW x \in limiting
      PROVE  x \in TrueRules(now) /\ x.type \in LimitTypes
  <2>1. PICK r \in TrueRules(now) : x = Stated(r, now)
    BY <1>4
  <2>2. x.type \in LimitTypes
    BY DEF Disposition, LimitTypes
  <2>3. r.type \in LimitTypes
    BY <2>1, <2>2, RuleIsStated
  <2> QED
    BY <1>6, <2>1, <2>2, <2>3
<1>8. ASSUME NEW r \in TrueRules(now), r.type \in LimitTypes
      PROVE  r \in limiting <=> TrueLimit(r)
  <2>1. \A b, c \in BindingsOf(e, r) : b = c
    <3>1. Position(e).limits # None
      <4>1. Limits(e) = LimitsFrom(e, regime, effect)
        BY <1>1 DEF Limits
      <4>2. LimitsFrom(e, regime, effect).outcome = "ESTABLISHED"
        BY <4>1
      <4> HIDE DEF e, regime, effect
      <4> QED
        BY <1>3, <4>2 DEF LimitsFrom, NoLimits
    <3>2. \A b, c \in Position(e).limits.bindings : b.rule = c.rule => b = c
      BY <1>3, <3>1 DEF LimitsAdmissible
    <3> QED
      BY <3>2 DEF BindingsOf
  <2>2. r \in RulesOf(regime) /\ Disposition(e, regime, effect, r) # "UNRESOLVED"
    BY <1>3, <1>6, <1>8
  <2> HIDE DEF e, regime, effect
  <2>3. Disposition(e, regime, effect, r) = "TERMINAL_LIMIT" <=> TrueLimit(r)
    BY <1>1, <1>8, <2>1, <2>2, LimitsAreDisposedOf
  <2> QED
    BY <2>2, <2>3
<1> HIDE DEF e, regime, effect, limiting
<1>9. \A r : r \in all <=> r \in limiting
  BY <1>7, <1>8 DEF TrueLimit, LimitTypes
<1>10. S \subseteq Int /\ IsFiniteSet(S) /\ S # {}
  <2>1. caps \subseteq TrueRules(now)
    BY <1>7
  <2>2. IsFiniteSet(caps)
    <3> HIDE DEF caps
    <3> QED
      BY <1>5, <2>1, FS_Subset
  <2> DEFINE max == [r \in caps |-> r.maximum]
  <2>3. \A y \in maxima : \E r \in caps : y = max[r]
    OBVIOUS
  <2>4. IsFiniteSet(maxima)
    <3> HIDE DEF caps, maxima, max
    <3> QED
      BY <2>2, <2>3, ImageIsFinite
  <2>5. IsFiniteSet({hi})
    BY FS_Singleton
  <2>6. IsFiniteSet(S)
    <3> HIDE DEF maxima
    <3> QED
      BY <2>4, <2>5, FS_Union
  <2>7. maxima \subseteq Int
    BY <1>5, <1>7
  <2> QED
    BY <2>6, <2>7
<1>11. top \in S /\ top \in Int /\ \A y \in S : top <= y
  <2> HIDE DEF S
  <2> QED
    BY <1>10, LeastExists
<1>12. ASSUME NEW r \in limiting, r.type = "POSITION_COUNT"
       PROVE  r.maximum >= 1
  <2>1. Excluded(r, effect.value) = IF 1 > r.maximum THEN [kind |-> "ALL_SUPPORT"] ELSE Nothing
    BY <1>12 DEF Excluded
  <2>2. ~(1 > r.maximum)
    BY <1>3, <2>1
  <2>3. r.maximum \in Int
    BY <1>5, <1>7
  <2> QED
    BY <2>2, <2>3
<1> HIDE DEF top
<1>13. ASSUME NEW q \in Int
       PROVE  q <= top <=> q <= hi /\ \A r \in all : WithinLimit(r, q)
  <2>1. ASSUME q <= top, NEW y \in S PROVE q <= y
    <3>1. top <= y /\ y \in Int
      BY <1>10, <1>11
    <3> HIDE DEF S
    <3> QED
      BY <1>11, <2>1, <3>1
  <2>2. q <= top <=> \A y \in S : q <= y
    <3> HIDE DEF S
    <3> QED
      BY <1>11, <2>1
  <2>3. (\A y \in S : q <= y) <=> q <= hi /\ \A r \in caps : q <= r.maximum
    OBVIOUS
  <2>4. (\A r \in caps : q <= r.maximum) <=> \A r \in all : WithinLimit(r, q)
    <3>1. ASSUME NEW r \in limiting PROVE r.type \in LimitTypes
      BY <1>7
    <3> HIDE DEF all
    <3> QED
      BY <1>9, <1>12, <3>1 DEF WithinLimit, LimitTypes
  <2> QED
    BY <2>2, <2>3, <2>4
<1> QED
  BY <1>3, <1>11, <1>13 DEF e

-----------------------------------------------------------------------------
(* The composition.                                                        *)

\* What is composed is answered out of a packet of now, for an account that may enter.
LEMMA CompositionIsOfNow ==
  ASSUME TypeOK, MandateIsTheWorlds, LastInstant \in Nat, world.asked = "entry",
         Composition(Evidence).outcome = "ESTABLISHED"
  PROVE  /\ CapturedNow /\ Granted(Evidence) /\ MayEnter(now)
         /\ QuantityDomain(Evidence).outcome = "ESTABLISHED" /\ RiskGranted(Evidence)
         /\ \A n \in PolicyNodes(Evidence) : n[2] = "SATISFIED"
<1>1. Feasibility(Evidence).outcome = "ESTABLISHED"
  BY CompositionIsGranted
<1>2. Granted(Evidence) /\ QuantityDomain(Evidence).outcome = "ESTABLISHED"
  BY <1>1, FeasibilityIsGranted
<1>3. Evidence.packet["financial"] # None
  BY <1>2 DEF Granted
<1>4. taken["financial"] = now /\ Evidence.packet["financial"] = Financial(now)
  BY <1>2, <1>3, AnsweredNow
<1>5. taken["financial"] # None
  <2>1. Evidence.packet["financial"] = Captured("financial", Financial(taken["financial"]))
    BY EvidenceIsCaptured
  <2> QED
    BY <1>3, <2>1 DEF Captured
<1>6. CapturedNow
  BY <1>4, <1>5 DEF CapturedNow
<1>7. MayEnter(now)
  BY <1>2, <1>6, GrantedMayEnter
<1> QED
  BY <1>2, <1>6, <1>7 DEF Granted

\* The quantities composed are the true ones.
LEMMA QuantitiesAreTrue ==
  ASSUME TypeOK, MandateIsTheWorlds, LastInstant \in Nat, Top \in Nat, world.asked = "entry",
         Composition(Evidence).outcome = "ESTABLISHED"
  PROVE  LET d == Composition(Evidence).domain
         IN  /\ Bounded(d) /\ Domain(d) = TrueQuantities
             /\ \A q \in 1 .. Top : Includes(d, q) <=> q \in TrueQuantities
<1> DEFINE e == Evidence
           d == Composition(e).domain
           grid == QuantityDomain(e).value
           supported == Supported(grid, e.terms.maximumQuantity)
           f == RiskFunction(e)
           budget == Budget(e.packet["financial"])
           feasible == Feasible(supported, f, budget)
           GridAllows(q) == TrueTerms("grid") # {} /\ \A r \in TrueTerms("grid") : InForceNow(r) /\ OnGrid(r.body, q)
           EffectAllows(q) ==
             /\ TrueTerms("effect") # {}
             /\ \A r \in TrueTerms("effect") :
                  InForceNow(r) /\ r.body.mechanics = "SUPPORTED" /\ q \in r.body.range.min .. r.body.range.max
           LimitsAllow(q) == \A r \in { r \in TrueRules(now) : TrueLimit(r) } : WithinLimit(r, q)
<1>1. /\ CapturedNow /\ RiskGranted(e) /\ QuantityDomain(e).outcome = "ESTABLISHED"
      /\ \A n \in PolicyNodes(e) : n[2] = "SATISFIED"
  BY CompositionIsOfNow
<1>2. /\ Feasibility(e).outcome = "ESTABLISHED" /\ PositionEffect(e).outcome = "ESTABLISHED"
      /\ Limits(e).outcome = "ESTABLISHED"
      /\ d = Clip(Feasibility(e).feasible, Limits(e).domain) /\ d # EmptyGrid
  BY CompositionIsGranted
<1>3. IsGrid(grid) /\ \A q \in Int : Includes(grid, q) <=> q > 0 /\ GridAllows(q)
  BY <1>1, GridIsTrue
<1>4. e.terms.maximumQuantity = request.terms.maximumQuantity /\ request.terms.maximumQuantity \in Int
  <2>1. e.terms = world.request.terms
    BY EvidenceIsCaptured
  <2>2. world.request.terms.maximumQuantity \in Int
    BY OrderIsCounted
  <2> QED
    BY <2>1, <2>2 DEF request
<1>5. Finite(supported) /\ Feasibility(e).feasible = feasible
  <2>1. Finite(supported) /\ (supported # EmptyGrid => supported # None)
    BY <1>3, <1>4, SupportedIsFinite
  <2>2. supported # EmptyGrid /\ (supported # None => Feasibility(e).feasible = feasible)
    BY <1>2, FeasibilityIsGranted
  <2> QED
    BY <2>1, <2>2
<1>6. \A q \in Int : Includes(supported, q) <=> Includes(grid, q) /\ q <= request.terms.maximumQuantity
  BY <1>3, <1>4, SupportIsAPartition
<1>7. Priced(f) /\ \A q \in Int : Loss(f, q) = TrueLoss(q) /\ TrueLoss(q) \in Int
  BY <1>1, LossIsTrue
<1>8. budget \in Int /\ \A l \in Int : l <= budget <=> 100 * l <= Newest("account", now).equity
  BY <1>1, BudgetIsTrue
<1> HIDE DEF grid, supported, f, budget, feasible, d
<1>9. /\ Finite(feasible)
      /\ \A q \in Int : Includes(feasible, q) <=> Includes(supported, q) /\ Loss(f, q) <= budget
  BY <1>5, <1>7, <1>8, FeasibleIsExact DEF feasible
<1>10. PICK lo, hi \in Int :
         /\ PositionEffect(e).value = Interval(lo, hi) /\ lo <= hi
         /\ \A q \in Int : lo <= q /\ q <= hi <=> EffectAllows(q)
  BY <1>1, <1>2, EffectIsTrue
<1>11. PICK top \in Int :
         /\ Limits(e).domain = Interval(lo, top)
         /\ \A q \in Int : q <= top <=> q <= hi /\ LimitsAllow(q)
  BY <1>1, <1>2, <1>10, LimitsAreTrue
<1>12. /\ Finite(d)
       /\ \A q \in Int : Includes(d, q) <=> Includes(feasible, q) /\ lo <= q /\ q <= top
  BY <1>2, <1>5, <1>9, <1>11, ClippedIsFinite
<1>13. Newest("account", now).positions = {} /\ Items("commitment", now) = {}
  BY <1>1, <1>2, AccountIsEmpty
<1>14. Cardinality(TrueRevisions(now)) = 1
  <2>1. TrueRevisions(now) = {request.quote.revision}
    BY <1>1, SpecificationIsTrue
  <2>2. Cardinality({request.quote.revision}) = 1
    BY FS_Singleton
  <2> QED
    BY <2>1, <2>2
<1> HIDE DEF e, GridAllows, EffectAllows, LimitsAllow
<1>15. ASSUME NEW q \in 1 .. Top
       PROVE  q \in TrueQuantities <=>
                /\ GridAllows(q) /\ EffectAllows(q) /\ q <= request.terms.maximumQuantity
                /\ 100 * TrueLoss(q) <= Newest("account", now).equity /\ LimitsAllow(q)
  BY <1>13, <1>14 DEF TrueQuantities, GridAllows, EffectAllows, LimitsAllow
<1>16. ASSUME NEW q \in 1 .. Top
       PROVE  Includes(d, q) <=> q \in TrueQuantities
  <2>1. q \in Int /\ q > 0
    OBVIOUS
  <2>2. Includes(supported, q) <=> GridAllows(q) /\ q <= request.terms.maximumQuantity
    BY <1>3, <1>6, <2>1
  <2>3. Loss(f, q) <= budget <=> 100 * TrueLoss(q) <= Newest("account", now).equity
    BY <1>7, <1>8, <2>1
  <2>4. lo <= q /\ q <= top <=> EffectAllows(q) /\ LimitsAllow(q)
    BY <1>10, <1>11, <2>1
  <2>5. Includes(d, q) <=> Includes(feasible, q) /\ lo <= q /\ q <= top
    BY <1>12, <2>1
  <2>6. Includes(feasible, q) <=> Includes(supported, q) /\ Loss(f, q) <= budget
    BY <1>9, <2>1
  <2> QED
    BY <1>15, <2>2, <2>3, <2>4, <2>5, <2>6
<1>17. Domain(d) = { q \in 1 .. Top : Includes(d, q) }
  BY <1>12, MembersAreIncluded
<1>18. TrueQuantities \subseteq 1 .. Top
  BY DEF TrueQuantities
<1>19. Domain(d) = TrueQuantities
  BY <1>16, <1>17, <1>18
<1>20. Bounded(d)
  BY <1>2, <1>12 DEF Finite
<1> QED
  BY <1>16, <1>19, <1>20 DEF d, e

-----------------------------------------------------------------------------
(* The headroom above the floors.                                          *)

\* The floors that are counted, and what passes them.
Counted(e, body) == { r \in SelectedRules(e) : FloorDisposition(e, body, r) = "SUPPORTED_STATIC_FLOOR" }
PassingAll(e, body, basis) == { Passing(basis, FloorOf(e, r), r.strict) : r \in Counted(e, body) }
Basis(e, d) == [balance |-> e.packet["financial"].account.balance, function |-> RiskFunction(e), support |-> d]

\* What an established projection rests on.
LEMMA ProjectionIsGranted ==
  ASSUME NEW e, NEW c, ProjectionOf(e, c).outcome = "ESTABLISHED"
  PROVE  /\ c.outcome = "ESTABLISHED"
         /\ ProjectionOf(e, c).value = Basis(e, c.domain)
BY DEF ProjectionOf, Basis, Invalid, Unknown, Established, Answer

\* What an established headroom rests on.
LEMMA HeadroomIsGranted ==
  ASSUME NEW e, NEW owner, HeadroomOf(e, owner).outcome = "ESTABLISHED"
  PROVE  LET body    == FloorBody(e)
             passing == PassingAll(e, body, owner.value)
         IN  /\ owner.outcome = "ESTABLISHED" /\ FloorPacket(e) # None
             /\ Consistent(FloorPacket(e).floors) /\ FloorsHold(e, body) /\ UniverseComplete(e, body)
             /\ \A r \in SelectedRules(e) : FloorDisposition(e, body, r) # "UNRESOLVED"
             /\ EmptyGrid \notin passing /\ passing # {}
             /\ HeadroomOf(e, owner).value = CHOOSE d \in passing : \A x \in passing : d.last <= x.last
<1> DEFINE body == FloorBody(e)
           basis == owner.value
           disposed == [r \in SelectedRules(e) |-> FloorDisposition(e, body, r)]
           passing == PassingAll(e, body, basis)
           complete == /\ \A r \in DOMAIN disposed : disposed[r] # "UNRESOLVED"
                       /\ UniverseComplete(e, body)
<1>1. /\ owner.outcome = "ESTABLISHED" /\ FloorPacket(e) # None /\ Consistent(FloorPacket(e).floors)
      /\ HeadroomOf(e, owner) = HeadroomFrom(e, body, basis)
  BY DEF HeadroomOf, Invalid, Unknown, Answer
<1>2. FloorsHold(e, body) /\ HeadroomOf(e, owner) = HeadroomUnder(e, body, basis, disposed)
  BY <1>1 DEF HeadroomFrom, Unknown, Answer
<1>3. { r \in DOMAIN disposed : disposed[r] = "SUPPORTED_STATIC_FLOOR" } = Counted(e, body)
  BY DEF Counted
<1>4. HeadroomOf(e, owner) = HeadroomResult(passing, complete)
  <2> HIDE DEF body, basis, disposed
  <2> QED
    BY <1>2, <1>3 DEF HeadroomUnder, PassingAll
<1> HIDE DEF passing, complete
<1>5. /\ EmptyGrid \notin passing /\ complete /\ passing # {}
      /\ HeadroomOf(e, owner).value = CHOOSE d \in passing : \A x \in passing : d.last <= x.last
  BY <1>4 DEF HeadroomResult, Unsuitable, Unknown, Established, Answer
<1>6. UniverseComplete(e, body) /\ \A r \in SelectedRules(e) : FloorDisposition(e, body, r) # "UNRESOLVED"
  <2> HIDE DEF body
  <2> QED
    BY <1>5 DEF complete
<1> QED
  BY <1>1, <1>2, <1>5, <1>6 DEF passing

-----------------------------------------------------------------------------
(* What totals add up to.                                                  *)

\* The sums of the parts of a set, by the recursion Total uses.
Summing(S, g) ==
  g = [s \in SUBSET S |-> IF s = {} THEN 0 ELSE LET x == CHOOSE x \in s : TRUE IN g[s \ {x}] + x.delta]

\* A total is what the recursion gives for the whole set.
LEMMA TotalIsSummed ==
  ASSUME NEW S, IsFiniteSet(S)
  PROVE  \E g : Summing(S, g) /\ Total(S) = g[S]
<1> DEFINE iter == CHOOSE g : Summing(S, g)
<1>1. Total(S) = iter[S]
  BY DEF Total, FoldSet, MapThenFoldSet, Summing
<1>2. \E g : Summing(S, g)
  <2>1. Cardinality(S) \in Nat /\ { s \in SUBSET S : Cardinality(s) <= Cardinality(S) } = SUBSET S
    BY FS_CardinalityType, FS_Subset
  <2>2. PICK g : Sums(S, Cardinality(S), g)
    BY <2>1, SumsExist
  <2>3. Summing(S, g)
    BY <2>1, <2>2 DEF Sums, Summing
  <2> QED
    BY <2>3
<1>3. Summing(S, iter)
  BY <1>2
<1> QED
  BY <1>1, <1>3

\* Two solutions agree on what both sum, which is an integer where all amounts are.
LEMMA SumsAgree ==
  ASSUME NEW S, IsFiniteSet(S), \A x \in S : x.delta \in Int, NEW T \in SUBSET S,
         NEW g, Summing(S, g), NEW h, Summing(T, h)
  PROVE  \A s \in SUBSET T : g[s] = h[s] /\ g[s] \in Int
<1> DEFINE bad == { n \in Nat : \E s \in SUBSET T : Cardinality(s) = n /\ ~(g[s] = h[s] /\ g[s] \in Int) }
<1>0. IsFiniteSet(T)
  BY FS_Subset
<1>1. ASSUME bad # {} PROVE FALSE
  <2>1. PICK n \in bad : \A k \in bad : n <= k
    BY <1>1, LeastNatural
  <2>2. PICK s \in SUBSET T : Cardinality(s) = n /\ ~(g[s] = h[s] /\ g[s] \in Int)
    BY <2>1
  <2> DEFINE x == CHOOSE x \in s : TRUE
  <2>3. g[s] = (IF s = {} THEN 0 ELSE g[s \ {x}] + x.delta) /\ h[s] = (IF s = {} THEN 0 ELSE h[s \ {x}] + x.delta)
    <3>1. s \in SUBSET S
      OBVIOUS
    <3> QED
      BY <3>1 DEF Summing
  <2>4. s # {}
    BY <2>2, <2>3
  <2>5. /\ x \in s /\ s \ {x} \in SUBSET T
        /\ n \in Nat \ {0} /\ Cardinality(s \ {x}) = n - 1
    BY <1>0, <2>2, <2>4, OneLess
  <2> HIDE DEF x
  <2>6. g[s \ {x}] = h[s \ {x}] /\ g[s \ {x}] \in Int
    <3>1. n - 1 \in Nat /\ n - 1 \notin bad
      <4> HIDE DEF bad
      <4> QED
        BY <2>1, <2>5
    <3> QED
      BY <2>5, <3>1
  <2>7. x.delta \in Int
    BY <2>5
  <2> QED
    BY <2>2, <2>3, <2>4, <2>6, <2>7
<1>2. ASSUME NEW s \in SUBSET T PROVE Cardinality(s) \in Nat
  BY <1>0, FS_Subset, FS_CardinalityType
<1> QED
  BY <1>1, <1>2

\* Whatever the order, a total is what is left without a member, and that member.
LEMMA AnyMayGoLast ==
  ASSUME NEW S, IsFiniteSet(S), \A x \in S : x.delta \in Int, NEW g, Summing(S, g)
  PROVE  \A s \in SUBSET S : \A y \in s : g[s] = g[s \ {y}] + y.delta
<1> DEFINE bad == { n \in Nat : \E s \in SUBSET S : \E y \in s : Cardinality(s) = n /\ g[s] # g[s \ {y}] + y.delta }
<1>0. \A s \in SUBSET S : g[s] \in Int
  <2>1. S \in SUBSET S
    OBVIOUS
  <2> QED
    BY <2>1, SumsAgree
<1>1. ASSUME bad # {} PROVE FALSE
  <2>1. PICK n \in bad : \A k \in bad : n <= k
    BY <1>1, LeastNatural
  <2>2. PICK s \in SUBSET S : \E y \in s : Cardinality(s) = n /\ g[s] # g[s \ {y}] + y.delta
    BY <2>1
  <2>3. PICK y \in s : Cardinality(s) = n /\ g[s] # g[s \ {y}] + y.delta
    BY <2>2
  <2> DEFINE x == CHOOSE x \in s : TRUE
             both == s \ {x, y}
  <2>4. s # {} /\ g[s] = g[s \ {x}] + x.delta
    BY DEF Summing
  <2>5. /\ x \in s /\ s \ {x} \in SUBSET S
        /\ n \in Nat \ {0} /\ Cardinality(s \ {x}) = n - 1
    BY <2>3, <2>4, OneLess
  <2>6. Cardinality(s \ {y}) = n - 1 /\ s \ {y} \in SUBSET S
    <3>1. IsFiniteSet(s)
      BY FS_Subset
    <3> QED
      BY <2>3, <3>1, FS_RemoveElement
  <2> HIDE DEF x
  <2>7. x # y
    BY <2>3, <2>4
  <2>8. n - 1 \in Nat /\ n - 1 \notin bad
    <3> HIDE DEF bad
    <3> QED
      BY <2>1, <2>5
  <2>9. g[s \ {x}] = g[(s \ {x}) \ {y}] + y.delta
    BY <2>5, <2>7, <2>8
  <2>10. g[s \ {y}] = g[(s \ {y}) \ {x}] + x.delta
    BY <2>5, <2>6, <2>7, <2>8
  <2>11. (s \ {x}) \ {y} = both /\ (s \ {y}) \ {x} = both /\ both \in SUBSET S
    OBVIOUS
  <2>12. g[both] \in Int /\ x.delta \in Int /\ y.delta \in Int
    BY <1>0, <2>5, <2>11
  <2> HIDE DEF both, bad
  <2>13. g[s] = (g[both] + y.delta) + x.delta
    BY <2>4, <2>9, <2>11
  <2>14. g[s \ {y}] = g[both] + x.delta
    BY <2>10, <2>11
  <2>15. ASSUME NEW b \in Int, NEW k \in Int, NEW l \in Int PROVE (b + k) + l = (b + l) + k
    OBVIOUS
  <2>16. (g[both] + y.delta) + x.delta = (g[both] + x.delta) + y.delta
    BY <2>12, <2>15
  <2> QED
    BY ONLY <2>3, <2>13, <2>14, <2>16
<1>2. ASSUME NEW s \in SUBSET S PROVE Cardinality(s) \in Nat
  BY FS_Subset, FS_CardinalityType
<1> QED
  BY <1>1, <1>2

\* What adds nothing can be left out.
LEMMA NothingIsAdded ==
  ASSUME NEW S, IsFiniteSet(S), \A x \in S : x.delta \in Int, NEW g, Summing(S, g), NEW Z, \A x \in S \cap Z : x.delta = 0
  PROVE  g[S] = g[S \ Z]
<1> DEFINE bad == { n \in Nat : \E s \in SUBSET S : Cardinality(s) = n /\ g[s] # g[s \ Z] }
<1>1. ASSUME bad # {} PROVE FALSE
  <2>1. PICK n \in bad : \A k \in bad : n <= k
    BY <1>1, LeastNatural
  <2>2. PICK s \in SUBSET S : Cardinality(s) = n /\ g[s] # g[s \ Z]
    BY <2>1
  <2>3. PICK z \in s \cap Z : TRUE
    <3>1. CASE s \cap Z = {}
      <4>1. s \ Z = s
        BY <3>1
      <4> QED
        BY <2>2, <4>1
    <3> QED
      BY <3>1
  <2>4. Cardinality(s \ {z}) = n - 1 /\ s \ {z} \in SUBSET S /\ n \in Nat \ {0}
    <3>1. IsFiniteSet(s)
      BY FS_Subset
    <3> QED
      BY <2>2, <2>3, <3>1, FS_RemoveElement, FS_EmptySet, FS_CardinalityType
  <2>5. n - 1 \in Nat /\ n - 1 \notin bad
    <3> HIDE DEF bad
    <3> QED
      BY <2>1, <2>4
  <2>6. g[s \ {z}] = g[(s \ {z}) \ Z] /\ (s \ {z}) \ Z = s \ Z
    BY <2>3, <2>4, <2>5
  <2>7. g[s] = g[s \ {z}] + z.delta /\ z.delta = 0
    BY <2>3, AnyMayGoLast
  <2>8. g[s \ {z}] \in Int
    <3>1. S \in SUBSET S
      OBVIOUS
    <3> QED
      BY <2>4, <3>1, SumsAgree
  <2>9. \A k \in Int : k + 0 = k
    OBVIOUS
  <2>10. g[s] = g[s \ {z}]
    BY <2>7, <2>8, <2>9
  <2> QED
    BY ONLY <2>2, <2>6, <2>10
<1>2. Cardinality(S) \in Nat /\ S \in SUBSET S
  BY FS_CardinalityType
<1> QED
  BY <1>1, <1>2

\* Sets that differ only by what adds nothing have one total.
LEMMA TotalsAgree ==
  ASSUME NEW S, IsFiniteSet(S), NEW T, IsFiniteSet(T), \A x \in S \cup T : x.delta \in Int,
         \A x \in S \ T : x.delta = 0, \A x \in T \ S : x.delta = 0
  PROVE  Total(S) = Total(T)
<1>1. ASSUME NEW A, IsFiniteSet(A), \A x \in A : x.delta \in Int, NEW B, \A x \in A \ B : x.delta = 0
      PROVE  Total(A) = Total(A \cap B)
  <2>1. IsFiniteSet(A \cap B) /\ A \cap B \in SUBSET A
    BY <1>1, FS_Subset
  <2>2. PICK g : Summing(A, g) /\ Total(A) = g[A]
    BY <1>1, TotalIsSummed
  <2>3. PICK h : Summing(A \cap B, h) /\ Total(A \cap B) = h[A \cap B]
    BY <2>1, TotalIsSummed
  <2>4. g[A \cap B] = h[A \cap B]
    BY <1>1, <2>1, <2>2, <2>3, SumsAgree
  <2>5. \A x \in A \cap (A \ B) : x.delta = 0
    BY <1>1
  <2>6. g[A] = g[A \ (A \ B)]
    BY <1>1, <2>2, <2>5, NothingIsAdded
  <2>7. A \ (A \ B) = A \cap B
    OBVIOUS
  <2> QED
    BY <2>2, <2>3, <2>4, <2>6, <2>7
<1>2. Total(S) = Total(S \cap T)
  BY <1>1
<1>3. Total(T) = Total(T \cap S)
  BY <1>1
<1>4. T \cap S = S \cap T
  OBVIOUS
<1> QED
  BY <1>2, <1>3, <1>4

\* What a capture says of the floors.
LEMMA FloorsAreTold ==
  ASSUME NEW t, NEW r \in Inventory("floors", t).records
  PROVE  r.body = ToldFloors(t)
<1> DEFINE all == Declared("floors", t)
           shown == IF Blurred("floors") THEN { x \in all : x.pred = NoPred } ELSE all
<1>1. Inventory("floors", t).records =
        { [id |-> x.id, kind |-> x.kind, pred |-> x.pred, from |-> x.from, until |-> x.until,
           published |-> x.published, body |-> ToldFloors(t)] : x \in shown }
  BY DEF Inventory
<1> HIDE DEF shown
<1> QED
  BY <1>1

\* Floors that hold until the deadline are those told now.
LEMMA FloorsAreOfNow ==
  ASSUME TypeOK, world.asked = "entry", FloorPacket(Evidence) # None,
         FloorsHold(Evidence, FloorBody(Evidence))
  PROVE  FloorBody(Evidence) = ToldFloors(now)
<1> DEFINE t == taken["floor"]
           inv == Inventory("floors", t)
           body == FloorBody(Evidence)
<1>1. FloorPacket(Evidence).floors = inv
  <2>1. FloorPacket(Evidence) = Captured("floor", FloorsPacket(t))
    BY EvidenceIsCaptured DEF FloorPacket
  <2>2. FloorPacket(Evidence) = FloorsPacket(t)
    BY <2>1 DEF Captured
  <2>3. FloorsPacket(t).floors = inv
    BY DEF FloorsPacket
  <2> QED
    BY <2>2, <2>3
<1>2. Evidence.at = now
  BY EvidenceIsCaptured
<1>3. Resolves(inv, now)
  <2> HIDE DEF inv, body
  <2> QED
    BY <1>1, <1>2 DEF FloorsHold, HeldThrough
<1>4. t = now
  BY <1>3, ResolvedIsCapturedNow
<1>5. body = InForce(inv, now).body
  <2> HIDE DEF inv
  <2> QED
    BY <1>1, <1>2 DEF FloorBody
<1>6. InForce(inv, now) \in inv.records
  <2>1. Current(inv, now) # {} /\ Current(inv, now) \subseteq inv.records
    <3> HIDE DEF inv
    <3> QED
      BY <1>3 DEF Resolves, Current, InEffect
  <2> HIDE DEF inv
  <2> QED
    BY <2>1 DEF InForce
<1> QED
  BY <1>4, <1>5, <1>6, FloorsAreTold

\* ... every notice among them, if the universe of the rules is complete.
LEMMA FloorsAreCaptured ==
  ASSUME TypeOK, world.asked = "entry", FloorPacket(Evidence) # None,
         FloorsHold(Evidence, FloorBody(Evidence)), UniverseComplete(Evidence, FloorBody(Evidence))
  PROVE  /\ FloorBody(Evidence).bindings = world.floors[now].bindings
         /\ FloorBody(Evidence).entries = world.entries \cup Items("notice", now)
<1>1. FloorBody(Evidence) = ToldFloors(now)
  BY FloorsAreOfNow
<1>2. ToldFloors(now).complete
  BY <1>1 DEF UniverseComplete
<1>3. ToldFloors(now).complete = ~Blurred("notices")
  BY DEF ToldFloors
<1>4. ToldFloors(now).bindings = world.floors[now].bindings
  BY DEF ToldFloors
<1>5. ToldFloors(now).entries = world.entries \cup Items("notice", now)
  BY <1>2, <1>3 DEF ToldFloors
<1> QED
  BY <1>1, <1>4, <1>5

-----------------------------------------------------------------------------
(* Until the deadline.                                                     *)

\* Integers that are bounded above have a greatest ...
LEMMA GreatestBelow ==
  ASSUME NEW S, S \subseteq Int, S # {}, NEW b \in Int, \A y \in S : y <= b
  PROVE  Max(S) \in S /\ \A y \in S : y <= Max(S)
<1> DEFINE back == { n \in Nat : b - n \in S }
<1>1. back # {}
  <2>1. PICK y \in S : TRUE
    OBVIOUS
  <2>2. b - y \in Nat /\ b - (b - y) = y
    BY <2>1
  <2> QED
    BY <2>2
<1>2. PICK n \in back : \A k \in back : n <= k
  <2> HIDE DEF back
  <2>1. back \subseteq Nat
    BY DEF back
  <2> QED
    BY <1>1, <2>1, LeastNatural
<1>3. ASSUME NEW y \in S PROVE b - n >= y
  <2>1. b - y \in Nat /\ b - (b - y) = y
    OBVIOUS
  <2>2. n <= b - y
    BY <1>2, <2>1
  <2> QED
    BY <1>2, <2>2
<1>4. \E x \in S : \A y \in S : x >= y
  BY <1>2, <1>3
<1>5. Max(S) \in S /\ \A y \in S : Max(S) >= y
  BY <1>4 DEF Max
<1> QED
  BY <1>5

\* ... and those bounded below a least.
LEMMA LeastAbove ==
  ASSUME NEW S, S \subseteq Int, S # {}, NEW b \in Int, \A y \in S : b <= y
  PROVE  Min(S) \in S /\ \A y \in S : Min(S) <= y
<1> DEFINE ahead == { n \in Nat : b + n \in S }
<1>1. ahead # {}
  <2>1. PICK y \in S : TRUE
    OBVIOUS
  <2>2. y - b \in Nat /\ b + (y - b) = y
    BY <2>1
  <2> QED
    BY <2>2
<1>2. PICK n \in ahead : \A k \in ahead : n <= k
  <2> HIDE DEF ahead
  <2>1. ahead \subseteq Nat
    BY DEF ahead
  <2> QED
    BY <1>1, <2>1, LeastNatural
<1>3. ASSUME NEW y \in S PROVE b + n <= y
  <2>1. y - b \in Nat /\ b + (y - b) = y
    OBVIOUS
  <2>2. n <= y - b
    BY <1>2, <2>1
  <2> QED
    BY <1>2, <2>2
<1>4. \E x \in S : \A y \in S : x <= y
  BY <1>2, <1>3
<1>5. Min(S) \in S /\ \A y \in S : Min(S) <= y
  BY <1>4 DEF Min
<1> QED
  BY <1>5

\* Periods that cannot overlap before the deadline do not both hold at the instant
\* before it.
LEMMA NoOverlap ==
  ASSUME NEW a, a \in Period, NEW b, b \in Period, NEW t \in Int, Overlaps({a, b}, t, t + 2) = "NO"
  PROVE  ~(Holding(a, t + 1) /\ Holding(b, t + 1))
<1> SUFFICES ASSUME Holding(a, t + 1), Holding(b, t + 1) PROVE FALSE
  OBVIOUS
<1> DEFINE starts == ({ p.from : p \in {a, b} } \ {None}) \cup {t}
           stops == ({ p.until : p \in {a, b} } \ {None}) \cup {t + 2}
<1>1. Max(starts) >= Min(stops)
  BY DEF Overlaps
<1>2. starts = ({a.from, b.from} \ {None}) \cup {t} /\ stops = ({a.until, b.until} \ {None}) \cup {t + 2}
  OBVIOUS
<1>3. starts \subseteq Int /\ stops \subseteq Int /\ starts # {} /\ stops # {}
  BY <1>2 DEF Period
<1> HIDE DEF starts, stops
<1>4. \A x \in starts : x <= t + 1
  BY <1>2 DEF Holding
<1>5. \A x \in stops : t + 2 <= x
  BY <1>2, <1>3 DEF Holding
<1>6. t + 1 \in Int /\ t + 2 \in Int
  OBVIOUS
<1>7. Max(starts) \in starts
  BY <1>3, <1>4, <1>6, GreatestBelow
<1>8. Min(stops) \in stops
  BY <1>3, <1>5, <1>6, LeastAbove
<1>9. Max(starts) \in Int /\ Min(stops) \in Int /\ Max(starts) <= t + 1 /\ t + 2 <= Min(stops)
  BY <1>3, <1>4, <1>5, <1>7, <1>8
<1> HIDE DEF Max, Min
<1> QED
  BY <1>1, <1>9

\* Where the regime stays as it is, no rule comes to bind before the deadline.
LEMMA NoRuleComes ==
  ASSUME TypeOK, NEW e, e.at = now, e.end = now + 2, Position(e).regime = Manifest(now),
         RegimeSteady(e, SelectedHere(e))
  PROVE  TrueRules(now + 1) \subseteq TrueRules(now)
<1> DEFINE m == Newest("regime", now)
           told == Manifest(now)
           r == SelectedHere(e)
           s == r.assignment
           rivals == { {a.enrollment, a.phase} : a \in told.assignments \ {s} }
                     \cup { {b.period, told.packages[b.package].period} :
                              b \in { b \in s.packages : b.package # r.package.id } }
<1>0. now \in Int /\ world \in Worlds
  BY BoundariesAreCounted DEF TypeOK
<1>1. r = Regime(Manifest(now), now) /\ r.outcome = "UNIQUE"
  BY DEF SelectedHere, RegimeSteady
<1>2. \A periods \in rivals : Overlaps(periods, now, now + 2) = "NO"
  <2> HIDE DEF r
  <2> QED
    BY DEF RegimeSteady, r
<1> HIDE DEF r
<1>3. /\ told.assignments = m.assignments /\ s \in m.assignments
      /\ \A k \in DOMAIN m.packages : told.packages[k].period = m.packages[k].period
  BY <1>1, RegimeIsTold
<1>4. PICK k \in DOMAIN m.packages :
        /\ TruePackages(now) = {m.packages[k]} /\ r.package.id = k
        /\ TrueRules(now) = m.packages[k].rules
  BY <1>1, RegimeIsTrue
<1>5. /\ \A a \in m.assignments :
           /\ a.enrollment \in Period /\ a.phase \in Period
           /\ \A b \in a.packages : b.period \in Period /\ b.package \in DOMAIN m.packages
      /\ \A j \in DOMAIN m.packages : m.packages[j].period \in Period
  BY <1>0, NewestRegimeIsDated
<1>6. ASSUME NEW a \in m.assignments, Holding(a.enrollment, now + 1), Holding(a.phase, now + 1)
      PROVE  a = s
  <2> SUFFICES ASSUME a # s PROVE FALSE
    OBVIOUS
  <2>1. {a.enrollment, a.phase} \in rivals
    BY <1>3
  <2>2. Overlaps({a.enrollment, a.phase}, now, now + 2) = "NO"
    BY <1>2, <2>1
  <2>3. a.enrollment \in Period /\ a.phase \in Period
    BY <1>5
  <2> QED
    BY <1>0, <1>6, <2>2, <2>3, NoOverlap
<1>7. ASSUME NEW b \in s.packages, Holding(b.period, now + 1), Holding(m.packages[b.package].period, now + 1)
      PROVE  b.package = k
  <2> SUFFICES ASSUME b.package # k PROVE FALSE
    OBVIOUS
  <2>1. b.period \in Period /\ b.package \in DOMAIN m.packages /\ m.packages[b.package].period \in Period
    BY <1>3, <1>5
  <2>2. {b.period, told.packages[b.package].period} \in rivals
    BY <1>4
  <2>3. Overlaps({b.period, m.packages[b.package].period}, now, now + 2) = "NO"
    BY <1>2, <1>3, <2>1, <2>2
  <2> QED
    BY <1>0, <1>7, <2>1, <2>3, NoOverlap
<1>8. Alone(m, now + 1, s, k)
  BY <1>6, <1>7 DEF Alone
<1>9. TruePackages(now + 1) \subseteq {m.packages[k]}
  BY <1>8, NoOtherPackage
<1>10. \A p \in TruePackages(now + 1) : p.rules = TrueRules(now)
  BY <1>4, <1>9
<1> QED
  BY <1>10 DEF TrueRules

\* The rule is about the instrument of the entry; what waives it.
Here(r) == r.instruments = None \/ request.instrument \in r.instruments
Waivers(r) == { x \in world.entries : x.kind = "WAIVER" /\ r.id \in x.rules }

\* What is said of a rule is true of it.
LEMMA SaidTruly ==
  ASSUME TypeOK, world.asked = "entry", NEW b \in world.floors[now].bindings, NEW r \in RulesOfWorld(world), b.rule = r.id
  PROVE  /\ b.population = "CONTAINS_SCENARIO" => Here(r)
         /\ b.population = "DISJOINT" => ~Here(r)
         /\ b.endpoint = "OUTSIDE_SETTLED_ENDPOINT" => ~(r.type = "STATIC_FLOOR" /\ r.measure = "BALANCE")
         /\ b.exceptions.resolution = "WAIVED_THROUGHOUT" =>
              { x \in world.entries : x.kind = "WAIVER" /\ x.id \in b.exceptions.entries } \subseteq Waivers(r)
         /\ b.exceptions.resolution # "WAIVED_THROUGHOUT" =>
              \A x \in Waivers(r) : x.until <= now \/ now + 1 < x.from
<1>1. now \in 0 .. LastInstant /\ world \in Worlds
  BY DEF TypeOK
<1> QED
  BY <1>1, StatementsAreTrue DEF Here, Waivers, request

\* Waivers are dated; a notice is no waiver, changes something from some instant to
\* another, and nothing if it is set aside.
LEMMA EntriesAreDated ==
  ASSUME TypeOK
  PROVE  /\ \A x \in Items("notice", now) :
              /\ {x.from, x.until, x.delta} \subseteq Int /\ x.kind = "CHANGE"
              /\ x.disposition \in Dismissed => x.delta = 0
         /\ \A x \in world.entries : x.kind = "WAIVER" => {x.from, x.until} \subseteq Int
<1>1. Items("notice", now) \subseteq { p.item : p \in { p \in world.menu : p.topic = "notice" } }
  BY DEF Items, Posted
<1>2. world \in Worlds
  BY DEF TypeOK
<1>3. /\ \A x \in { p.item : p \in { p \in world.menu : p.topic = "notice" } } :
           /\ {x.from, x.until, x.delta} \subseteq Int /\ x.kind = "CHANGE"
           /\ x.disposition \in Dismissed => x.delta = 0
      /\ \A x \in world.entries : x.kind = "WAIVER" => {x.from, x.until} \subseteq Int
  BY <1>2, StatementsAreTrue
<1> QED
  BY <1>1, <1>3

\* Where every notice is known to change nothing in between, a floor is raised as
\* much at the next instant as it is now.
LEMMA RaisedAlike ==
  ASSUME TypeOK, NEW e, e.at = now, e.end = now + 2, NEW body, NEW x,
         body.entries = world.entries \cup Items("notice", now), NoKnownChange(e, body, x), NEW r
  PROVE  /\ Raised(r, Items("notice", now), now) \in Int
         /\ Raised(r, Items("notice", now), now + 1) = Raised(r, Items("notice", now), now)
<1> DEFINE notices == Items("notice", now)
           Raising(t) == { n \in notices : r.id \in n.rules /\ n.from <= t /\ t < n.until }
<1>0. now \in Int
  BY DEF TypeOK
<1>1. ASSUME NEW n \in notices
      PROVE  n.disposition \notin Dismissed =>
               n.from # None /\ n.until # None /\ n.from # now + 1 /\ n.until # now + 1
  <2>1. n \in body.entries /\ n.kind = "CHANGE"
    BY EntriesAreDated
  <2>2. n \in Bearing(body, x)
    BY <2>1 DEF Bearing
  <2>3. n.disposition \notin Dismissed =>
          n.from # None /\ n.until # None /\ \A t \in {n.from, n.until} : ~(now < t /\ t < now + 2)
    BY <2>2 DEF NoKnownChange
  <2> QED
    BY <1>0, <2>3
<1>2. ASSUME NEW n \in notices
      PROVE  {n.from, n.until, n.delta} \subseteq Int /\ (n.disposition \in Dismissed => n.delta = 0)
  BY EntriesAreDated
<1>3. ASSUME NEW n \in notices, ~(n \in Raising(now) <=> n \in Raising(now + 1))
      PROVE  n.delta = 0
  <2>1. n.disposition \in Dismissed
    BY <1>0, <1>1, <1>2, <1>3
  <2> QED
    BY <1>2, <2>1
<1>4. IsFiniteSet(notices)
  BY ItemsAreFinite DEF TypeOK
<1>5. ASSUME NEW t PROVE Raising(t) \subseteq notices /\ IsFiniteSet(Raising(t)) /\ Raised(r, notices, t) = Total(Raising(t))
  <2>1. Raising(t) \subseteq notices
    OBVIOUS
  <2>2. IsFiniteSet(Raising(t))
    <3> HIDE DEF notices, Raising
    <3> QED
      BY <1>4, <2>1, FS_Subset
  <2> QED
    BY <2>1, <2>2 DEF Raised
<1> HIDE DEF Raising, notices
<1>6. Total(Raising(now)) \in Int
  BY <1>2, <1>5, TotalIsInt
<1>7. Total(Raising(now + 1)) = Total(Raising(now))
  <2>1. \A n \in Raising(now) \cup Raising(now + 1) : n.delta \in Int
    BY <1>2, <1>5
  <2>2. /\ \A n \in Raising(now) \ Raising(now + 1) : n.delta = 0
        /\ \A n \in Raising(now + 1) \ Raising(now) : n.delta = 0
    BY <1>3, <1>5
  <2>3. IsFiniteSet(Raising(now)) /\ IsFiniteSet(Raising(now + 1))
    BY <1>5
  <2> QED
    BY <2>1, <2>2, <2>3, TotalsAgree
<1> QED
  BY <1>5, <1>6, <1>7 DEF notices

\* What a floor is worth, as told of a rule that states it natively.
LEMMA FloorIsTold ==
  ASSUME CapturedNow, NEW r, r \in RulesOfWorld(world), r.type = "STATIC_FLOOR",
         r.threshold.fraction # None =>
           \E o \in Evidence.packet["financial"].operands :
             /\ o.rule = Stated(r, now).id /\ o.role = "INITIAL_REFERENCE" /\ o.from <= now /\ o.until >= now + 2,
         Raised(r, Items("notice", now), now) \in Int
  PROVE  /\ FloorOf(Evidence, Stated(r, now)) = Level(r, now) /\ Level(r, now) \in Int
         /\ Raised(r, Items("notice", now), now + 1) = Raised(r, Items("notice", now), now) =>
              Level(r, now + 1) = Level(r, now)
         /\ Stated(r, now).strict = r.strict
<1> DEFINE x == Stated(r, now)
           initial == OperandOf(Evidence, x, "INITIAL_REFERENCE")
           raised == Raised(r, Items("notice", now), now)
<1>1. /\ world \in Worlds /\ Evidence.at = now /\ now \in Int
      /\ Evidence.packet["financial"].operands = world.operands
  <2>1. Financial(now).operands = world.operands
    BY DEF Financial
  <2> QED
    BY <2>1, EvidenceIsCaptured DEF CapturedNow, TypeOK
<1>2. IF r.threshold.fraction = None THEN r.threshold.amount \in Int ELSE r.threshold.fraction \in Int
  BY <1>1, RulesAreCounted
<1>3. world.reference \in Int /\ \A o \in world.operands : {o.from, o.until} \subseteq Int
  BY <1>1, RulesAreCounted
<1>4. \A o \in world.operands : o.role = "INITIAL_REFERENCE" => o.body = world.reference
  BY <1>1, StatementsAreTrue
<1>5. FloorOf(Evidence, x) = Amount(x.threshold, initial)
  BY DEF FloorOf
<1>6. CASE r.threshold.fraction = None
  <2>1. x.threshold.fraction = None /\ x.threshold.amount = r.threshold.amount + raised /\ x.strict = r.strict
    BY <1>6, RuleIsStated
  <2>2. /\ Level(r, now) = r.threshold.amount + raised
        /\ Raised(r, Items("notice", now), now + 1) = raised => Level(r, now + 1) = r.threshold.amount + raised
    BY <1>6 DEF Level, Stake
  <2> HIDE DEF x
  <2> QED
    BY <1>2, <1>5, <1>6, <2>1, <2>2 DEF Amount, x
<1>7. CASE r.threshold.fraction # None
  <2>1. x = r
    BY <1>7, RuleIsStated
  <2>2. initial = world.reference
    <3> DEFINE found == { o \in world.operands :
                            o.rule = x.id /\ o.role = "INITIAL_REFERENCE" /\ Within(o.from, o.until, now) }
    <3>1. initial = IF found = {} THEN None ELSE (CHOOSE o \in found : TRUE).body
      BY <1>1 DEF OperandOf
    <3>2. found # {}
      <4>1. PICK o \in world.operands :
              o.rule = x.id /\ o.role = "INITIAL_REFERENCE" /\ o.from <= now /\ o.until >= now + 2
        BY <1>1, <1>7
      <4>2. o.from \in Int /\ o.until \in Int
        BY <1>3
      <4>3. Within(o.from, o.until, now)
        BY <1>1, <4>1, <4>2 DEF Within
      <4> QED
        BY <4>1, <4>3
    <3>3. (CHOOSE o \in found : TRUE) \in found
      BY <3>2
    <3> QED
      BY <1>4, <3>1, <3>2, <3>3
  <2> DEFINE stake == (world.reference * r.threshold.fraction) \div 100
  <2>3. Level(r, now) = stake /\ Level(r, now + 1) = stake
    BY <1>7 DEF Level, Stake
  <2>4. Amount(x.threshold, initial) = stake
    <3> HIDE DEF initial
    <3> QED
      BY <1>7, <2>1, <2>2 DEF Amount, initial
  <2>5. stake \in Int
    <3>1. \A a, b \in Int : (a * b) \div 100 \in Int
      OBVIOUS
    <3> QED
      BY <1>2, <1>3, <1>7, <3>1
  <2> HIDE DEF stake, x, initial
  <2> QED
    BY <1>5, <2>1, <2>3, <2>4, <2>5 DEF x
<1> QED
  BY <1>6, <1>7

\* A floor that is counted is one under the balance now, as high as it is told.
LEMMA CountedIsAFloor ==
  ASSUME CapturedNow, Evidence.end = now + 2, NEW body, body.bindings = world.floors[now].bindings,
         NEW r, r \in RulesOfWorld(world),
         FloorDisposition(Evidence, body, Stated(r, now)) = "SUPPORTED_STATIC_FLOOR"
  PROVE  /\ UnderBalance(r) /\ \A t \in now .. now + 1 : ~Lifted(r, t)
         /\ FloorOf(Evidence, Stated(r, now)) = Level(r, now) /\ Level(r, now) \in Int
         /\ Raised(r, Items("notice", now), now + 1) = Raised(r, Items("notice", now), now) =>
              Level(r, now + 1) = Level(r, now)
         /\ Stated(r, now).strict = r.strict
<1> DEFINE e == Evidence
           x == Stated(r, now)
           b == CHOOSE b \in Saying(body, x) : TRUE
<1>1. /\ TypeOK /\ world.asked = "entry" /\ now \in Int /\ e.at = now /\ e.end = now + 2
  BY EvidenceIsCaptured DEF CapturedNow, TypeOK
<1>2. /\ x.id = r.id /\ x.type = r.type
      /\ x.type = "STATIC_FLOOR" => x.measure = r.measure
      /\ x.threshold.fraction = r.threshold.fraction \/ x.type # "STATIC_FLOOR"
  BY RuleIsStated
<1> HIDE DEF e, x
<1>3. /\ Saying(body, x) # {} /\ RuleSourced(e, body, b, x) /\ b.population # "DISJOINT"
      /\ b.exceptions.resolution # "WAIVED_THROUGHOUT" /\ Floors(e, body, b, x)
  BY DEF FloorDisposition, e, x
<1>4. b \in Saying(body, x)
  BY <1>3
<1> HIDE DEF b
<1>5. b \in world.floors[now].bindings /\ b.rule = r.id
  BY <1>2, <1>4 DEF Saying
<1>6. /\ b.population = "CONTAINS_SCENARIO" => Here(r)
      /\ \A y \in Waivers(r) : y.until <= now \/ now + 1 < y.from
  BY <1>1, <1>3, <1>5, SaidTruly
<1>7. b.population = "CONTAINS_SCENARIO"
  BY <1>3 DEF RuleSourced
<1>8. /\ x.type = "STATIC_FLOOR" /\ x.measure = "BALANCE"
      /\ x.threshold.fraction # None =>
           \E o \in e.packet["financial"].operands :
             /\ o.rule = x.id /\ o.role = "INITIAL_REFERENCE" /\ o.from <= now /\ o.until >= now + 2
  BY <1>1, <1>3 DEF Floors
<1>9. UnderBalance(r)
  BY <1>2, <1>6, <1>7, <1>8 DEF UnderBalance, Here
<1>10. ASSUME NEW t \in now .. now + 1, Lifted(r, t) PROVE FALSE
  <2>1. PICK y \in Waivers(r) : y.from <= t /\ t < y.until
    BY <1>10 DEF Lifted, Waivers
  <2>2. y.until <= now \/ now + 1 < y.from
    BY <1>6
  <2>3. y.from \in Int /\ y.until \in Int
    BY <1>1, EntriesAreDated DEF Waivers
  <2> QED
    BY <1>1, <2>1, <2>2, <2>3
<1>11. Raised(r, Items("notice", now), now) \in Int
  <2> DEFINE notices == Items("notice", now)
             raising == { n \in notices : r.id \in n.rules /\ n.from <= now /\ now < n.until }
  <2>1. IsFiniteSet(notices) /\ \A n \in notices : n.delta \in Int
    BY <1>1, ItemsAreFinite, EntriesAreDated DEF TypeOK
  <2>2. raising \subseteq notices
    OBVIOUS
  <2>3. Raised(r, notices, now) = Total(raising)
    BY DEF Raised
  <2> HIDE DEF raising, notices
  <2>4. IsFiniteSet(raising) /\ \A n \in raising : n.delta \in Int
    BY <2>1, <2>2, FS_Subset
  <2> QED
    BY <2>3, <2>4, TotalIsInt DEF notices
<1>12. r.threshold.fraction # None =>
         \E o \in Evidence.packet["financial"].operands :
           /\ o.rule = Stated(r, now).id /\ o.role = "INITIAL_REFERENCE" /\ o.from <= now /\ o.until >= now + 2
  BY <1>2, <1>8 DEF e, x
<1>13. /\ FloorOf(Evidence, Stated(r, now)) = Level(r, now) /\ Level(r, now) \in Int
       /\ Raised(r, Items("notice", now), now + 1) = Raised(r, Items("notice", now), now) =>
            Level(r, now + 1) = Level(r, now)
       /\ Stated(r, now).strict = r.strict
  BY <1>2, <1>8, <1>11, <1>12, FloorIsTold
<1> QED
  BY <1>9, <1>10, <1>13

\* A rule that is settled is a floor under the balance that holds until the
\* deadline, or none at either instant.
LEMMA FloorsAreSettled ==
  ASSUME CapturedNow, Evidence.end = now + 2, NEW body,
         body.bindings = world.floors[now].bindings, body.entries = world.entries \cup Items("notice", now),
         NEW r, r \in RulesOfWorld(world), FloorDisposition(Evidence, body, Stated(r, now)) # "UNRESOLVED"
  PROVE  LET x == Stated(r, now)
             supported == FloorDisposition(Evidence, body, x) = "SUPPORTED_STATIC_FLOOR"
         IN  /\ supported =>
                  /\ UnderBalance(r) /\ \A t \in now .. now + 1 : ~Lifted(r, t)
                  /\ FloorOf(Evidence, x) = Level(r, now) /\ Level(r, now) \in Int
                  /\ Level(r, now + 1) = Level(r, now) /\ x.strict = r.strict
             /\ ~supported => \A t \in now .. now + 1 : ~UnderBalance(r) \/ Lifted(r, t)
<1> DEFINE e == Evidence
           x == Stated(r, now)
           b == CHOOSE b \in Saying(body, x) : TRUE
           D == FloorDisposition(e, body, x)
<1>1. /\ TypeOK /\ world.asked = "entry" /\ now \in Int /\ e.at = now /\ e.end = now + 2
  BY EvidenceIsCaptured DEF CapturedNow, TypeOK
<1>2. x.id = r.id /\ x.type = r.type
  BY RuleIsStated
<1>3. x.type = "STATIC_FLOOR" => x.measure = r.measure
  BY RuleIsStated
<1>4. x.threshold.fraction = r.threshold.fraction \/ x.type # "STATIC_FLOOR"
  BY RuleIsStated
<1> HIDE DEF e, x
<1>5. /\ Saying(body, x) # {} /\ RuleSourced(e, body, b, x)
      /\ D \in {"DISJOINT_POPULATION", "OUTSIDE_SETTLED_ENDPOINT", "WAIVED_THROUGHOUT", "SUPPORTED_STATIC_FLOOR"}
      /\ D = "DISJOINT_POPULATION" => b.population = "DISJOINT"
      /\ D = "OUTSIDE_SETTLED_ENDPOINT" => b.endpoint = "OUTSIDE_SETTLED_ENDPOINT"
      /\ D = "WAIVED_THROUGHOUT" => b.exceptions.resolution = "WAIVED_THROUGHOUT" /\ Waived(e, body, b)
      /\ D = "SUPPORTED_STATIC_FLOOR" =>
           b.population # "DISJOINT" /\ b.exceptions.resolution # "WAIVED_THROUGHOUT" /\ Floors(e, body, b, x)
  BY DEF FloorDisposition, e, x
<1>6. b \in Saying(body, x)
  BY <1>5
<1> HIDE DEF b, D
<1>7. b \in world.floors[now].bindings /\ b.rule = r.id
  BY <1>2, <1>6 DEF Saying
<1>8. /\ b.population = "CONTAINS_SCENARIO" => Here(r)
      /\ b.population = "DISJOINT" => ~Here(r)
      /\ b.endpoint = "OUTSIDE_SETTLED_ENDPOINT" => ~(r.type = "STATIC_FLOOR" /\ r.measure = "BALANCE")
      /\ b.exceptions.resolution = "WAIVED_THROUGHOUT" =>
           { y \in world.entries : y.kind = "WAIVER" /\ y.id \in b.exceptions.entries } \subseteq Waivers(r)
      /\ b.exceptions.resolution # "WAIVED_THROUGHOUT" =>
           \A y \in Waivers(r) : y.until <= now \/ now + 1 < y.from
  BY <1>1, <1>7, SaidTruly
<1>9. NoKnownChange(e, body, x) /\ b.population \in {"CONTAINS_SCENARIO", "DISJOINT"}
  BY <1>5 DEF RuleSourced
<1>10. CASE D = "DISJOINT_POPULATION"
  BY <1>5, <1>8, <1>10 DEF UnderBalance, Here, D, e, x
<1>11. CASE D = "OUTSIDE_SETTLED_ENDPOINT"
  BY <1>5, <1>8, <1>11 DEF UnderBalance, D, e, x
<1>12. CASE D = "WAIVED_THROUGHOUT"
  <2> DEFINE waivers == { y \in body.entries : y.id \in b.exceptions.entries
                                               /\ y.kind = "WAIVER" /\ y.disposition = "SUPPORTING_RULE_EVIDENCE" }
  <2>1. Covers(waivers, now, now + 2)
    BY <1>1, <1>5, <1>12 DEF Waived
  <2>2. ASSUME NEW t \in now .. now + 1 PROVE Lifted(r, t)
    <3>1. t \in now .. (now + 2) - 1
      BY <1>1
    <3>2. PICK y \in waivers : Within(y.from, y.until, t)
      BY <2>1, <3>1 DEF Covers
    <3>3. y \in world.entries
      <4>1. y \notin Items("notice", now)
        BY <1>1, EntriesAreDated
      <4> QED
        BY <4>1
    <3>4. y \in Waivers(r)
      BY <1>5, <1>8, <1>12, <3>3
    <3> QED
      BY <3>2, <3>4 DEF Lifted, Waivers, Within
  <2> QED
    BY <1>12, <2>2 DEF D, e, x
<1>13. CASE D = "SUPPORTED_STATIC_FLOOR"
  <2>1. /\ UnderBalance(r) /\ \A t \in now .. now + 1 : ~Lifted(r, t)
        /\ FloorOf(Evidence, Stated(r, now)) = Level(r, now) /\ Level(r, now) \in Int
        /\ Raised(r, Items("notice", now), now + 1) = Raised(r, Items("notice", now), now) =>
             Level(r, now + 1) = Level(r, now)
        /\ Stated(r, now).strict = r.strict
    BY <1>13, CountedIsAFloor DEF D, e, x
  <2>2. Raised(r, Items("notice", now), now + 1) = Raised(r, Items("notice", now), now)
    BY <1>1, <1>9, RaisedAlike
  <2> QED
    BY <1>13, <2>1, <2>2 DEF D, e, x
<1> QED
  BY <1>5, <1>10, <1>11, <1>12, <1>13

\* One of them ends first.
LEMMA OneEndsFirst ==
  ASSUME NEW P, P # {}, \A d \in P : Bounded(d)
  PROVE  \E v \in P : \A x \in P : v.last <= x.last
<1> DEFINE lasts == { d.last : d \in P }
<1>1. \A d \in P : d.last \in Nat
  BY DEF Bounded, IsGrid
<1>2. lasts \subseteq Nat /\ lasts # {}
  BY <1>1
<1>3. PICK m \in lasts : \A k \in lasts : m <= k
  <2> HIDE DEF lasts
  <2> QED
    BY <1>2, LeastNatural
<1> QED
  BY <1>3

\* Of grids that differ only in where they end, the one that ends first includes
\* what they all include.
LEMMA NarrowestIsCommon ==
  ASSUME NEW P, NEW d0, \A d \in P : Bounded(d) /\ d.origin = d0.origin /\ d.step = d0.step /\ d.first = d0.first,
         NEW v \in P, \A x \in P : v.last <= x.last
  PROVE  \A q : Includes(v, q) <=> \A d \in P : Includes(d, q)
<1>1. \A d \in P : d.last \in Nat
  BY DEF Bounded, IsGrid
<1>2. ASSUME NEW d \in P, NEW q
      PROVE  Includes(d, q) <=> \E i \in d0.first .. d.last : q = d0.origin + i * d0.step
  <2>1. Includes(d, q) <=> \E i \in d.first .. d.last : q = At(d, i)
    BY BoundedIncludes
  <2> QED
    BY <2>1 DEF At
<1>3. ASSUME NEW q, Includes(v, q), NEW d \in P PROVE Includes(d, q)
  <2>1. PICK i \in d0.first .. v.last : q = d0.origin + i * d0.step
    BY <1>2, <1>3
  <2>2. d0.first \in Nat
    BY DEF Bounded, IsGrid
  <2>3. i \in d0.first .. d.last
    BY <1>1, <2>2
  <2> QED
    BY <1>2, <2>1, <2>3
<1> QED
  BY <1>3

\* The rules the headroom is asked about are those that bind now.
LEMMA RulesAreTold ==
  ASSUME CapturedNow, PositionEffect(Evidence).outcome = "ESTABLISHED", RegimeSteady(Evidence, SelectedHere(Evidence))
  PROVE  /\ SelectedRules(Evidence) = { Stated(x, now) : x \in TrueRules(now) }
         /\ TrueRules(now + 1) \subseteq TrueRules(now)
         /\ \A r \in TrueRules(now) : r \in RulesOfWorld(world)
<1>1. TypeOK /\ world.asked = "entry" /\ Evidence.at = now /\ Evidence.end = now + 2
  BY EvidenceIsCaptured DEF CapturedNow
<1>2. Position(Evidence).regime = Manifest(now)
  <2>1. PositionPacket(now).regime = Manifest(now)
    BY DEF PositionPacket
  <2> QED
    BY <1>1, <2>1, EffectAnsweredNow DEF Position
<1>3. Evidence.packet["financial"].regime = Manifest(now)
  <2>1. Financial(now).regime = Manifest(now)
    BY DEF Financial
  <2> QED
    BY <2>1 DEF CapturedNow
<1>4. SelectedHere(Evidence) = Regime(Manifest(now), now) /\ FinancialRegime(Evidence) = Regime(Manifest(now), now)
  BY <1>1, <1>2, <1>3 DEF SelectedHere, FinancialRegime
<1>5. SelectedHere(Evidence).outcome = "UNIQUE"
  BY DEF RegimeSteady
<1>6. RulesOf(Regime(Manifest(now), now)) = { Stated(x, now) : x \in TrueRules(now) }
  BY <1>1, <1>4, <1>5, RegimeIsTrue
<1>7. TrueRules(now + 1) \subseteq TrueRules(now)
  BY <1>1, <1>2, NoRuleComes
<1> QED
  BY <1>1, <1>4, <1>6, <1>7, TrueRulesAreTheWorlds DEF SelectedRules

\* What is left above the floors is what survives them.
LEMMA SurvivalIsCounted ==
  ASSUME CapturedNow, TrueRules(now + 1) \subseteq TrueRules(now), NEW basis,
         basis.balance = Newest("account", now).balance, basis.balance \in Int,
         \A q \in Int : Loss(basis.function, q) = TrueLoss(q) /\ TrueLoss(q) \in Int,
         NEW S \in SUBSET TrueRules(now),
         \A r \in S : UnderBalance(r) /\ Level(r, now) \in Int /\ Level(r, now + 1) = Level(r, now),
         \A r \in S : \A t \in now .. now + 1 : ~Lifted(r, t),
         \A r \in TrueRules(now) \ S : \A t \in now .. now + 1 : ~UnderBalance(r) \/ Lifted(r, t),
         NEW q \in Int
  PROVE  Survives(q) <=> \A r \in S : Left(basis, Level(r, now), r.strict, q)
<1> DEFINE After(r, t) == Newest("account", now).balance - TrueLoss(q) - Level(r, t)
           Clears(r, t) == IF r.strict THEN After(r, t) > 0 ELSE After(r, t) >= 0
<1>1. now \in Int /\ now \in now .. now + 1 /\ \A t \in now .. now + 1 : t = now \/ t = now + 1
  BY DEF CapturedNow, TypeOK
<1>2. Survives(q) <=> \A t \in now .. now + 1 : \A r \in TrueRules(t) : UnderBalance(r) /\ ~Lifted(r, t) => Clears(r, t)
  BY DEF Survives
<1>3. ASSUME NEW r \in S, NEW t \in now .. now + 1
      PROVE  Clears(r, t) <=> Left(basis, Level(r, now), r.strict, q)
  <2>1. Level(r, t) = Level(r, now)
    BY <1>1
  <2> QED
    BY <2>1 DEF Left
<1> HIDE DEF Clears, After
<1>4. ASSUME Survives(q), NEW r \in S PROVE Left(basis, Level(r, now), r.strict, q)
  <2>1. UnderBalance(r) /\ ~Lifted(r, now) /\ r \in TrueRules(now)
    BY <1>1
  <2> QED
    BY <1>1, <1>2, <1>3, <1>4, <2>1
<1>5. ASSUME \A r \in S : Left(basis, Level(r, now), r.strict, q),
             NEW t \in now .. now + 1, NEW r \in TrueRules(t), UnderBalance(r), ~Lifted(r, t)
      PROVE  Clears(r, t)
  <2>1. r \in TrueRules(now)
    BY <1>1
  <2>2. r \in S
    BY <1>5, <2>1
  <2> QED
    BY <1>3, <1>5, <2>2
<1> QED
  BY <1>2, <1>4, <1>5

\* The quantities that are answered above the floors are the true ones that survive.
LEMMA HeadroomIsTrue ==
  ASSUME TypeOK, MandateIsTheWorlds, LastInstant \in Nat, Top \in Nat, world.asked = "entry",
         HeadroomOf(Evidence, ProjectionOf(Evidence, Composition(Evidence))).outcome = "ESTABLISHED"
  PROVE  Domain(HeadroomOf(Evidence, ProjectionOf(Evidence, Composition(Evidence))).value)
           = { q \in TrueQuantities : Survives(q) }
<1> DEFINE e == Evidence
           c == Composition(e)
           owner == ProjectionOf(e, c)
           h == HeadroomOf(e, owner)
           body == FloorBody(e)
           basis == Basis(e, c.domain)
           passing == PassingAll(e, body, basis)
<1> HIDE DEF e, c, owner, h, body
<1>1. /\ owner.outcome = "ESTABLISHED" /\ FloorPacket(e) # None
      /\ FloorsHold(e, body) /\ UniverseComplete(e, body)
      /\ \A r \in SelectedRules(e) : FloorDisposition(e, body, r) # "UNRESOLVED"
      /\ EmptyGrid \notin PassingAll(e, body, owner.value) /\ PassingAll(e, body, owner.value) # {}
      /\ h.value = CHOOSE d \in PassingAll(e, body, owner.value) :
                     \A x \in PassingAll(e, body, owner.value) : d.last <= x.last
  BY HeadroomIsGranted DEF e, c, owner, h, body
<1>2. c.outcome = "ESTABLISHED" /\ owner.value = basis
  BY <1>1, ProjectionIsGranted DEF owner
<1>3. /\ CapturedNow /\ Granted(e) /\ RiskGranted(e)
      /\ PositionEffect(e).outcome = "ESTABLISHED"
  BY <1>2, CompositionIsOfNow, CompositionIsGranted DEF e, c
<1>4. /\ Bounded(c.domain) /\ \A q \in 1 .. Top : Includes(c.domain, q) <=> q \in TrueQuantities
  BY <1>2, QuantitiesAreTrue DEF e, c
<1>5. Priced(RiskFunction(e)) /\ \A q \in Int : Loss(RiskFunction(e), q) = TrueLoss(q) /\ TrueLoss(q) \in Int
  BY <1>3, LossIsTrue DEF e
<1>6. /\ basis.balance = Newest("account", now).balance /\ basis.balance \in Int
      /\ basis.function = RiskFunction(e) /\ basis.support = c.domain
  <2>1. Financial(now).account.balance = Newest("account", now).balance
    BY DEF Financial, Account
  <2>2. Newest("account", now).balance \in Int
    BY AccountIsCounted
  <2> QED
    BY <1>3, <2>1, <2>2 DEF Basis, CapturedNow, e
<1>7. body.bindings = world.floors[now].bindings /\ body.entries = world.entries \cup Items("notice", now)
  BY <1>1, FloorsAreCaptured DEF body, e
<1>8. /\ SelectedRules(e) = { Stated(x, now) : x \in TrueRules(now) }
      /\ TrueRules(now + 1) \subseteq TrueRules(now)
      /\ \A r \in TrueRules(now) : r \in RulesOfWorld(world)
  <2>1. RegimeSteady(Evidence, SelectedHere(Evidence))
    BY <1>1 DEF FloorsHold, e
  <2> QED
    BY <1>3, <2>1, RulesAreTold DEF e
<1> DEFINE S == { r \in TrueRules(now) : FloorDisposition(e, body, Stated(r, now)) = "SUPPORTED_STATIC_FLOOR" }
<1>9. ASSUME NEW r \in TrueRules(now)
      PROVE  /\ r \in S =>
                  /\ UnderBalance(r) /\ \A t \in now .. now + 1 : ~Lifted(r, t)
                  /\ FloorOf(e, Stated(r, now)) = Level(r, now) /\ Level(r, now) \in Int
                  /\ Level(r, now + 1) = Level(r, now) /\ Stated(r, now).strict = r.strict
             /\ r \notin S => \A t \in now .. now + 1 : ~UnderBalance(r) \/ Lifted(r, t)
  <2>1. Stated(r, now) \in SelectedRules(e)
    BY <1>8
  <2>2. FloorDisposition(e, body, Stated(r, now)) # "UNRESOLVED"
    BY <1>1, <2>1
  <2>3. Evidence.end = now + 2
    BY EvidenceIsCaptured
  <2> QED
    BY <1>3, <1>7, <1>8, <2>2, <2>3, FloorsAreSettled DEF e
<1> DEFINE part == [r \in S |-> Passing(basis, Level(r, now), r.strict)]
<1>10. \A d : d \in passing <=> \E r \in S : d = part[r]
  <2> HIDE DEF basis
  <2>1. \A x : x \in Counted(e, body) <=> \E r \in S : x = Stated(r, now)
    BY <1>8 DEF Counted
  <2>2. \A r \in S : part[r] = Passing(basis, FloorOf(e, Stated(r, now)), Stated(r, now).strict)
    BY <1>9
  <2> HIDE DEF S, part
  <2> QED
    BY <2>1, <2>2 DEF PassingAll
<1> HIDE DEF S, passing, part, basis
<1>11. ASSUME NEW r \in S
       PROVE  /\ Bounded(part[r]) /\ part[r].origin = c.domain.origin
              /\ part[r].step = c.domain.step /\ part[r].first = c.domain.first
              /\ \A q \in Int : Includes(part[r], q) <=> Includes(c.domain, q) /\ Left(basis, Level(r, now), r.strict, q)
  <2>1. Level(r, now) \in Int
    BY <1>9 DEF S
  <2>2. part[r] = Passing(basis, Level(r, now), r.strict)
    BY DEF part
  <2>3. part[r] # EmptyGrid
    BY <1>1, <1>2, <1>10 DEF passing
  <2> QED
    BY <1>4, <1>5, <1>6, <2>1, <2>2, <2>3, PassingIsExact
<1>12. passing # {} /\ h.value = CHOOSE d \in passing : \A x \in passing : d.last <= x.last
  BY <1>1, <1>2 DEF passing
<1>13. h.value \in passing /\ \A q : Includes(h.value, q) <=> \A d \in passing : Includes(d, q)
  <2>1. \A d \in passing : Bounded(d) /\ d.origin = c.domain.origin /\ d.step = c.domain.step /\ d.first = c.domain.first
    BY <1>10, <1>11
  <2>2. \E v \in passing : \A x \in passing : v.last <= x.last
    BY <1>12, <2>1, OneEndsFirst
  <2>3. h.value \in passing /\ \A x \in passing : h.value.last <= x.last
    BY <1>12, <2>2
  <2> QED
    BY <2>1, <2>3, NarrowestIsCommon
<1>14. Bounded(h.value)
  BY <1>10, <1>11, <1>13
<1>15. ASSUME NEW q \in Int
       PROVE  Includes(h.value, q) <=> Includes(c.domain, q) /\ \A r \in S : Left(basis, Level(r, now), r.strict, q)
  <2>1. S # {}
    BY <1>10, <1>12
  <2>2. Includes(h.value, q) <=> \A r \in S : Includes(part[r], q)
    BY <1>10, <1>13
  <2> QED
    BY <1>11, <2>1, <2>2
<1>16. ASSUME NEW q \in Int
       PROVE  Survives(q) <=> \A r \in S : Left(basis, Level(r, now), r.strict, q)
  <2>1. S \in SUBSET TrueRules(now)
    BY DEF S
  <2>2. \A p \in Int : Loss(basis.function, p) = TrueLoss(p) /\ TrueLoss(p) \in Int
    BY <1>5, <1>6
  <2>3. /\ \A r \in S : UnderBalance(r) /\ Level(r, now) \in Int /\ Level(r, now + 1) = Level(r, now)
        /\ \A r \in S : \A t \in now .. now + 1 : ~Lifted(r, t)
        /\ \A r \in TrueRules(now) \ S : \A t \in now .. now + 1 : ~UnderBalance(r) \/ Lifted(r, t)
    BY <1>9, <2>1
  <2> QED
    BY <1>3, <1>6, <1>8, <2>1, <2>2, <2>3, SurvivalIsCounted
<1>17. Domain(h.value) = { q \in 1 .. Top : Includes(h.value, q) }
  BY <1>14, MembersAreIncluded DEF Finite
<1>18. TrueQuantities \subseteq 1 .. Top
  BY DEF TrueQuantities
<1>19. ASSUME NEW q \in 1 .. Top
       PROVE  Includes(h.value, q) <=> q \in TrueQuantities /\ Survives(q)
  <2>1. q \in Int
    OBVIOUS
  <2> QED
    BY <1>4, <1>15, <1>16, <2>1
<1>20. Domain(h.value) = { q \in TrueQuantities : Survives(q) }
  BY <1>17, <1>18, <1>19
<1> QED
  BY <1>20 DEF h, owner, c, e

\* Whatever the owners of an entry answer is so: the quantities composed by the risk
\* basis, the position effect and the limits are exactly those the terms in force
\* allow and the account can lose, for an account that may enter now; and those
\* answered above the floors are the ones that survive until the deadline.
THEOREM EstablishedIsTrueAlways == Spec => []EstablishedIsTrue
<1>1. TypeOK /\ MandateIsTheWorlds => EstablishedIsTrue
  <2> SUFFICES ASSUME TypeOK, MandateIsTheWorlds, world.asked = "entry"
               PROVE  DeskAnswersTruly(Evidence, Composition(Evidence))
    BY DEF EstablishedIsTrue
  <2>1. LastInstant \in Nat /\ Top \in Nat
    BY BoundariesAreCounted
  <2>2. Composition(Evidence).outcome = "ESTABLISHED" =>
          MayEnter(now) /\ Domain(Composition(Evidence).domain) = TrueQuantities
    BY <2>1, CompositionIsOfNow, QuantitiesAreTrue
  <2>3. HeadroomOf(Evidence, ProjectionOf(Evidence, Composition(Evidence))).outcome = "ESTABLISHED" =>
          Domain(HeadroomOf(Evidence, ProjectionOf(Evidence, Composition(Evidence))).value)
            = { q \in TrueQuantities : Survives(q) }
    BY <2>1, HeadroomIsTrue
  <2> QED
    BY <2>2, <2>3 DEF DeskAnswersTruly, AnswerIsTrue
<1> QED
  BY <1>1, MandatesAreTheWorlds, PTL

-----------------------------------------------------------------------------
(* The grounds of a refusal.                                               *)

\* Trades published by an instant are finitely many, and stay published.
LEMMA TradesAreFinite ==
  ASSUME TypeOK, NEW t \in Int
  PROVE  /\ IsFiniteSet(Trades(t)) /\ IsFiniteSet(world.trades) /\ world.trades \subseteq Trades(t)
         /\ t <= now => Trades(t) \subseteq Trades(now)
<1> DEFINE P == Posted("trade", t)
           rec == [p \in P |->
             [id |-> p.item.id, trade |-> p.item.trade, pred |-> p.item.pred, completed |-> p.item.completed,
              close |-> p.item.close, structure |-> p.item.structure, mechanism |-> p.item.mechanism, net |-> p.item.net,
              amount |-> p.item.amount, published |-> posted[p]]]
           later == { rec[p] : p \in P }
<1>1. Trades(t) = world.trades \cup later
  BY DEF Trades
<1>2. IsFiniteSet(world.trades)
  BY AccountsAreCounted DEF TypeOK
<1>3. IsFiniteSet(P)
  BY WorldsAreFinite, FS_Subset DEF Posted, TypeOK
<1>4. \A y \in later : \E p \in P : y = rec[p]
  OBVIOUS
<1>5. t <= now => P \subseteq Posted("trade", now)
  <2>1. \A p \in P : posted[p] \in Int
    BY DEF Posted, TypeOK, Unposted
  <2>2. now \in Int
    BY BoundariesAreCounted DEF TypeOK
  <2> QED
    BY <2>1, <2>2 DEF Posted
<1>6. t <= now => Trades(t) \subseteq Trades(now)
  BY <1>5 DEF Trades
<1> HIDE DEF P, rec, later
<1>7. IsFiniteSet(later)
  BY <1>3, <1>4, ImageIsFinite
<1> QED
  BY <1>1, <1>2, <1>6, <1>7, FS_Union

\* Two trades that are definitely lost, as they are shown, are two stopped out.
LEMMA LossesAreStopOuts ==
  ASSUME NEW trades, IsFiniteSet(trades), NEW at,
         Cardinality({ r \in { r \in EffectiveTrades({ Shown(r) : r \in trades }) : Relevant(r, world.day, at) }
                       : StoppedOut(r) }) >= 2
  PROVE  Cardinality(StopOuts(trades)) >= 2
<1> DEFINE show == [r \in trades |-> Shown(r)]
           L == { Shown(r) : r \in trades }
           definite == { r \in { r \in EffectiveTrades(L) : Relevant(r, world.day, at) } : StoppedOut(r) }
<1>1. ASSUME NEW r
      PROVE  /\ Shown(r).id = r.id /\ Shown(r).pred = r.pred /\ Shown(r).close = r.close
             /\ Shown(r).amount = r.amount /\ Shown(r).mechanism \in {r.mechanism, "UNRESOLVED"}
  BY DEF Shown
<1>2. ASSUME NEW y \in definite
      PROVE  \E r \in StopOuts(trades) : y = Shown(r)
  <2>1. PICK r \in trades : y = Shown(r)
    BY DEF EffectiveTrades
  <2>2. \A s \in trades : s.pred # PredRecord(r.id)
    BY <1>1, <2>1 DEF EffectiveTrades
  <2>3. r.mechanism = "INITIAL_PROTECTIVE_STOP" /\ r.amount < 0
    BY <1>1, <2>1 DEF StoppedOut
  <2>4. world.day.start <= r.close /\ r.close < world.day.end
    BY <1>1, <2>1 DEF Relevant
  <2> QED
    BY <2>1, <2>2, <2>3, <2>4 DEF StopOuts
<1>3. IsFiniteSet(definite)
  <2>1. \A y \in L : \E r \in trades : y = show[r]
    OBVIOUS
  <2>2. definite \subseteq L
    BY DEF EffectiveTrades
  <2> HIDE DEF show, L, definite
  <2> QED
    BY <2>1, <2>2, ImageIsFinite, FS_Subset
<1>4. IsFiniteSet(StopOuts(trades))
  BY FS_Subset DEF StopOuts
<1> HIDE DEF definite
<1>5. PICK a \in StopOuts(trades), b \in StopOuts(trades) : a # b
  <2>1. SUFFICES ASSUME \A a, b \in StopOuts(trades) : a = b PROVE FALSE
    OBVIOUS
  <2>2. \A y, z \in definite : y = z
    BY <1>2, <2>1
  <2>3. Cardinality(definite) < 2 /\ Cardinality(definite) \in Nat
    BY <1>3, <2>2, NoTwoAreAtMostOne, FS_CardinalityType
  <2> QED
    BY <2>3 DEF definite
<1>6. Cardinality(StopOuts(trades)) > 1 /\ Cardinality(StopOuts(trades)) \in Nat
  BY <1>4, <1>5, TwoAreMoreThanOne, FS_CardinalityType
<1> QED
  BY <1>6

\* A day that the gate refuses is one of two trades stopped out, but for a
\* correction that is left out.
LEMMA LossIsRefused ==
  ASSUME TypeOK, NEW t \in 0 .. now, GateOutcome(Evidence, "DAILY_LOSS") = "NOT_SATISFIED",
         Evidence.packet["financial"] = Financial(t)
  PROVE  ~MayEnter(t) \/ Uncorrected
<1> DEFINE f == Financial(t)
           trades == IF Blurred("trades") THEN world.trades ELSE Trades(t)
           L == { Shown(r) : r \in trades }
           at == Evidence.at
           definite(l) == { r \in { r \in EffectiveTrades(l) : Relevant(r, world.day, at) } : StoppedOut(r) }
<1>0. t \in Int /\ t <= now
  BY BoundariesAreCounted DEF TypeOK
<1>1. f.trades = L /\ f.day = world.day
  BY DEF Financial, Ledger
<1>2. DailyLossGate(f, at) = "NOT_SATISFIED"
  BY DEF GateOutcome
<1>3. Cardinality(definite(L)) >= 2
  <2>1. ASSUME NEW c, Verdict(Cardinality(definite(L)) >= 2, c) = "NOT_SATISFIED"
        PROVE  Cardinality(definite(L)) >= 2
    BY <2>1 DEF Verdict
  <2>2. \E c : DailyLossGate(f, at) = Verdict(Cardinality(definite(L)) >= 2, c)
    BY <1>1 DEF DailyLossGate
  <2> QED
    BY <1>2, <2>1, <2>2
<1>4. IsFiniteSet(trades) /\ IsFiniteSet(Trades(t))
  BY <1>0, TradesAreFinite
<1>5. Cardinality(StopOuts(trades)) >= 2
  BY <1>3, <1>4, LossesAreStopOuts
<1>6. CASE StopOuts(trades) \subseteq TrueStopOuts(t)
  <2>1. IsFiniteSet(TrueStopOuts(t))
    BY <1>4, FS_Subset DEF TrueStopOuts, StopOuts
  <2>2. /\ Cardinality(StopOuts(trades)) <= Cardinality(TrueStopOuts(t))
        /\ Cardinality(StopOuts(trades)) \in Nat /\ Cardinality(TrueStopOuts(t)) \in Nat
    BY <1>6, <2>1, FS_Subset, FS_CardinalityType
  <2>3. ~(Cardinality(TrueStopOuts(t)) < 2)
    BY <1>5, <2>2
  <2> QED
    BY <2>3 DEF MayEnter
<1>7. CASE ~(StopOuts(trades) \subseteq TrueStopOuts(t))
  <2>1. Blurred("trades") /\ trades = world.trades
    BY <1>7 DEF TrueStopOuts
  <2>2. world.trades \subseteq Trades(t) /\ Trades(t) \subseteq Trades(now)
    BY <1>0, TradesAreFinite
  <2>3. PICK r \in StopOuts(world.trades) : r \notin StopOuts(Trades(t))
    BY <1>7, <2>1 DEF TrueStopOuts
  <2>4. \E s \in Trades(t) : s.pred = PredRecord(r.id)
    BY <2>2, <2>3 DEF StopOuts
  <2> QED
    BY <1>5, <2>1, <2>2, <2>3, <2>4 DEF Uncorrected
<1> QED
  BY <1>6, <1>7

\* The captured account, whether or not its equity is known.
AccountShown ==
  LET a == Newest("account", now)
      f == Evidence.packet["financial"].account
  IN  /\ a.balance \in Int /\ a.equity \in Int /\ IsFiniteSet(a.positions)
      /\ f.balance = a.balance /\ f.equity \in {None, a.equity} /\ f.positions = a.positions

LEMMA AccountIsShown ==
  ASSUME CapturedNow
  PROVE  AccountShown
<1> DEFINE accounts == {world.account} \cup { p.item : p \in { p \in world.menu : p.topic = "account" } }
           a == Newest("account", now)
           f == Financial(now).account
<1>1. \A x \in accounts : {x.balance, x.equity} \subseteq Int /\ IsFiniteSet(x.positions)
  BY AccountsAreCounted DEF CapturedNow, TypeOK
<1>2. world["account"] = world.account
  OBVIOUS
<1>3. a \in accounts
  BY <1>2, NewestIsOneOf DEF CapturedNow
<1>4. f.balance = a.balance /\ f.equity \in {None, a.equity} /\ f.positions = a.positions
  BY DEF Financial, Account
<1> HIDE DEF accounts, a, f
<1> QED
  BY <1>1, <1>3, <1>4 DEF AccountShown, CapturedNow, a, f

\* A floor that is judged violated is broken ...
LEMMA FloorIsBroken ==
  ASSUME CapturedNow, OperandsAdmissible(Evidence), AccountShown,
         NEW r, r.type \in {"STATIC_FLOOR", "DAILY_RESET_FLOOR"}, FloorOutcome(Evidence, Stated(r, now)) = "NOT_SATISFIED"
  PROVE  Broken(r, Newest("account", now))
<1> DEFINE e == Evidence
           x == Stated(r, now)
           account == Newest("account", now)
           amount == IF r.measure = "BALANCE" THEN account.balance ELSE account.equity
           cost == OperandOf(e, x, "COST_ADJUSTMENTS")
           initial == OperandOf(e, x, "INITIAL_REFERENCE")
           anchor == OperandOf(e, x, "RESET_ANCHOR")
           costs == IF r.separateCosts THEN Facts(r, "COST_ADJUSTMENTS") ELSE {0}
           level == Amount(x.threshold, initial)
           daily == r.type = "DAILY_RESET_FLOOR"
           floor == IF daily THEN anchor.amount - level ELSE level
           net == IF r.separateCosts THEN amount - cost ELSE amount
<1>1. x.type = r.type /\ x.id = r.id /\ x.measure = r.measure /\ x.separateCosts = r.separateCosts /\ x.strict = r.strict
      /\ (x.threshold.fraction = None <=> r.threshold.fraction = None)
  BY RuleIsStated
<1>2. Measure(e, x) \in {None, amount} /\ amount \in Int
  BY <1>1 DEF Measure, AccountShown
<1> HIDE DEF x, amount
<1>3. Measure(e, x) # None
  BY DEF FloorOutcome, x
<1>4. Measure(e, x) = amount
  BY <1>2, <1>3
<1>5. ~(r.separateCosts /\ cost = None)
  BY <1>1 DEF FloorOutcome, x
<1>6. r.threshold.fraction = None \/ initial # None
  BY <1>1 DEF FloorOutcome, x
<1>7. daily => anchor # None
  BY <1>1 DEF FloorOutcome, x
<1>8. Verdict(IF x.strict THEN net <= floor ELSE net < floor, FALSE) = "NOT_SATISFIED"
  <2>1. FloorOutcome(e, x) \in {"UNKNOWN", Verdict(IF x.strict THEN net <= floor ELSE net < floor, FALSE)}
    BY <1>1, <1>4 DEF FloorOutcome
  <2> QED
    BY <2>1 DEF x
<1> HIDE DEF floor, net
<1>9. Undercuts(r, net, floor)
  BY <1>1, <1>8 DEF Verdict, Undercuts
<1>10. \E c \in costs : amount - c = net
  <2>1. CASE r.separateCosts
    <3>1. cost \in Facts(r, "COST_ADJUSTMENTS")
      BY <1>1, <1>5, <2>1, OperandIsTheFact
    <3> QED
      BY <2>1, <3>1 DEF net
  <2>2. CASE ~r.separateCosts
    <3> QED
      BY <1>2, <2>2 DEF net
  <2> QED
    BY <2>1, <2>2
<1>11. r.type = "STATIC_FLOOR" => floor = Level(r, now)
  BY <1>6, LevelIsTold DEF x, floor
<1>12. daily => \E a \in Facts(r, "RESET_ANCHOR") : a.amount - Stake(r) = floor
  <2>1. daily => anchor \in Facts(r, "RESET_ANCHOR")
    BY <1>1, <1>7, OperandIsTheFact
  <2>2. daily => level = Stake(r)
    BY <1>6, LevelIsTold DEF x
  <2> HIDE DEF anchor, level
  <2> QED
    BY <2>1, <2>2 DEF floor
<1> HIDE DEF costs, net
<1>13. \/ r.type = "STATIC_FLOOR" /\ \E c \in costs : Undercuts(r, amount - c, Level(r, now))
       \/ r.type = "DAILY_RESET_FLOOR" /\ \E c \in costs : \E a \in Facts(r, "RESET_ANCHOR") :
            Undercuts(r, amount - c, a.amount - Stake(r))
  BY <1>9, <1>10, <1>11, <1>12
<1> QED
  BY <1>13 DEF Broken, costs, amount

\* ... so is a limit on the number of positions ...
LEMMA CountIsBroken ==
  ASSUME CapturedNow, OperandsAdmissible(Evidence), AccountShown,
         NEW r, r.type = "POSITION_COUNT", CountOutcome(Evidence, r) = "NOT_SATISFIED"
  PROVE  Broken(r, Newest("account", now))
<1> DEFINE e == Evidence
           account == Newest("account", now)
           held == { p \in account.positions : r.instruments # None => p \in r.instruments }
           c == OperandOf(e, r, "POSITION_COUNT_CONTEXT")
           count == Cardinality(held) + c.committed
           after == count + (IF c.effect = "NEW_SEPARATE_POSITION" THEN 1 ELSE 0)
<1>1. held = { p \in e.packet["financial"].account.positions : r.instruments # None => p \in r.instruments }
  BY DEF AccountShown
<1>2. Cardinality(held) \in Nat
  BY FS_Subset, FS_CardinalityType DEF AccountShown
<1> HIDE DEF held, e
<1>3. CountOutcome(e, r) =
        IF c = None THEN "UNKNOWN" ELSE IF ~c.complete \/ r.foreign THEN "UNKNOWN"
        ELSE IF count > r.maximum THEN "NOT_SATISFIED"
        ELSE IF c.effect = "QUANTITY_DEPENDENT" THEN "SATISFIED"
        ELSE Verdict(c.effect # "UNKNOWN" /\ after > r.maximum, c.effect = "UNKNOWN")
  BY <1>1 DEF CountOutcome
<1>4. c # None
  BY <1>3 DEF e
<1>5. c \in Facts(r, "POSITION_COUNT_CONTEXT")
  BY <1>4, OperandIsTheFact DEF e
<1>6. c.committed \in Nat
  <2>0. world \in Worlds
    BY DEF CapturedNow, TypeOK
  <2>1. \A o \in world.operands : o.role = "POSITION_COUNT_CONTEXT" => o.body.committed \in Nat
    BY ONLY <2>0, RulesAreCounted
  <2> HIDE DEF c
  <2> QED
    BY <1>5, <2>1 DEF Facts
<1> HIDE DEF c
<1>7. count > r.maximum \/ after > r.maximum
  <2> HIDE DEF count, after
  <2> QED
    BY <1>3, <1>4 DEF Verdict, e
<1>8. count > r.maximum \/ (c.effect = "NEW_SEPARATE_POSITION" /\ count + 1 > r.maximum)
  <2>1. c.effect # "NEW_SEPARATE_POSITION" => after = count
    BY <1>2, <1>6
  <2> QED
    BY <1>7, <2>1
<1> QED
  BY <1>5, <1>8 DEF Broken, held

\* ... and any rule that is judged violated.
LEMMA RuleIsBroken ==
  ASSUME CapturedNow, OperandsAdmissible(Evidence), NEW r, Judged(Evidence, Stated(r, now)) = "NOT_SATISFIED"
  PROVE  Broken(r, Newest("account", now))
<1> DEFINE e == Evidence
           x == Stated(r, now)
<1>0. x.type = r.type /\ (r.type # "STATIC_FLOOR" => x = r) /\ AccountShown
  BY RuleIsStated, AccountIsShown
<1>1. e.mode = request.mode /\ Action(e) = TrueAction /\ e.at = now
  BY EvidenceIsCaptured DEF CapturedNow, Action, TrueAction, request
<1>2. CASE r.type = "PERMISSION"
  <2>1. PermissionOutcome(e, r) = "NOT_SATISFIED"
    BY <1>0, <1>2 DEF Judged
  <2>2. {TrueAction, request.mode} \cap r.actions # {} /\ r.permission = "PROHIBITED"
    BY <1>1, <2>1 DEF PermissionOutcome, Verdict
  <2> QED
    BY <1>2, <2>2 DEF Broken
<1>3. CASE r.type = "ACTION_WINDOW"
  <2>1. WindowOutcome(e, r) = "NOT_SATISFIED"
    BY <1>0, <1>3 DEF Judged
  <2>2. TrueAction \in r.actions /\ (\E w \in r.windows : Within(w.from, w.until, now)) # r.within
    BY <1>1, <2>1 DEF WindowOutcome, Verdict
  <2> QED
    BY <1>3, <2>2 DEF Broken
<1>4. CASE r.type = "ACCOUNT_STATE"
  <2>1. StateOutcome(e, r) = "NOT_SATISFIED"
    BY <1>0, <1>4 DEF Judged
  <2>2. PICK f \in r.facts : OperandOf(e, r, f) = FALSE
    BY <2>1 DEF StateOutcome, Verdict
  <2>3. OperandOf(e, r, f) # None
    BY <2>2, NoneIsApart
  <2>4. OperandOf(e, r, f) \in Facts(r, f)
    BY <2>3, OperandIsTheFact
  <2>5. FALSE \in Facts(r, f)
    BY ONLY <2>2, <2>4
  <2> QED
    BY <1>4, <2>5 DEF Broken
<1>5. CASE r.type = "POSITION_COUNT"
  <2>1. CountOutcome(e, r) = "NOT_SATISFIED"
    BY <1>0, <1>5 DEF Judged
  <2> QED
    BY <1>0, <1>5, <2>1, CountIsBroken
<1>6. CASE r.type \in {"STATIC_FLOOR", "DAILY_RESET_FLOOR"}
  <2>1. FloorOutcome(e, x) = "NOT_SATISFIED"
    BY <1>0, <1>6 DEF Judged
  <2> QED
    BY <1>0, <1>6, <2>1, FloorIsBroken
<1>7. CASE r.type \notin {"PERMISSION", "ACTION_WINDOW", "ACCOUNT_STATE", "POSITION_COUNT", "STATIC_FLOOR", "DAILY_RESET_FLOOR"}
  BY <1>0, <1>7 DEF Judged
<1> QED
  BY <1>2, <1>3, <1>4, <1>5, <1>6, <1>7

-----------------------------------------------------------------------------
(* Rules, gates and nodes that refuse.                                     *)

\* The financial packet that is asked with is that of its capture.
LEMMA FinancialIsCaptured ==
  ASSUME TypeOK, world.asked = "entry", Evidence.packet["financial"] # None
  PROVE  LET t == taken["financial"]
         IN  /\ t # None /\ t \in 0 .. now /\ t \in Int /\ now \in Int
             /\ Evidence.packet["financial"] = Financial(t)
<1>1. Evidence.packet["financial"] = Captured("financial", Financial(taken["financial"]))
  BY EvidenceIsCaptured
<1>2. taken["financial"] # None /\ Evidence.packet["financial"] = Financial(taken["financial"])
  BY <1>1 DEF Captured
<1>3. taken["financial"] \in 0 .. now
  BY <1>2 DEF TypeOK, Packets
<1> QED
  BY <1>2, <1>3, BoundariesAreCounted DEF TypeOK

\* A rule that refuses is one about entries, judged to be violated; if it is about
\* some instruments, its operand names one of them.
LEMMA RefusalIsJudged ==
  ASSUME NEW e, NEW x, RuleOutcome(e, x) = "NOT_SATISFIED"
  PROVE  /\ x.effects \cap EntryEffects # {} /\ Judged(e, x) = "NOT_SATISFIED"
         /\ LET binding == OperandOf(e, x, "INSTRUMENT_BINDING")
            IN  x.instruments # None => binding # None /\ binding \in x.instruments
<1> DEFINE binding == OperandOf(e, x, "INSTRUMENT_BINDING")
<1>1. ~("UNKNOWN" \in x.effects) /\ x.effects \cap EntryEffects # {}
  BY DEF RuleOutcome
<1>2. ~(x.instruments # None /\ binding = None) /\ ~OutsideInstruments(e, x)
  BY DEF RuleOutcome
<1>3. RuleOutcome(e, x) = IF ~x.supported THEN "UNKNOWN" ELSE Judged(e, x)
  BY <1>1, <1>2 DEF RuleOutcome, Judged
<1>4. x.instruments # None => binding \in x.instruments
  BY <1>2 DEF OutsideInstruments
<1> HIDE DEF binding
<1> QED
  BY <1>1, <1>2, <1>3, <1>4 DEF binding

\* A rule of the selected package that refuses is broken, and forbids the entry
\* unless it is one about another instrument.
LEMMA RulesRefuse ==
  ASSUME TypeOK, world.asked = "entry", Evidence.packet["financial"] # None, OperandsAdmissible(Evidence),
         NEW x \in SelectedRules(Evidence), RuleOutcome(Evidence, x) = "NOT_SATISFIED"
  PROVE  ~MayEnter(taken["financial"]) \/ Misapplied
<1> DEFINE e == Evidence
           t == taken["financial"]
           regime == Regime(Manifest(t), now)
<1>1. t # None /\ t \in 0 .. now /\ t \in Int /\ now \in Int /\ e.packet["financial"] = Financial(t) /\ e.at = now
  BY FinancialIsCaptured, EvidenceIsCaptured
<1>2. FinancialRegime(e) = regime
  BY <1>1 DEF FinancialRegime, Financial
<1>3. regime.outcome = "UNIQUE" /\ SelectedRules(e) = RulesOf(regime)
  BY <1>2 DEF SelectedRules, RulesOf
<1>4. ManifestCovers(Manifest(t), now, now)
  BY <1>3 DEF Regime, RegimeAsOf, NoRegime
<1>5. t = now
  <2>1. Manifest(t).cutoff = t
    BY DEF Manifest
  <2> QED
    BY <1>1, <1>4, <2>1 DEF ManifestCovers
<1>6. CapturedNow
  BY <1>1, <1>5 DEF CapturedNow
<1> HIDE DEF e, regime
<1>7. PICK r \in TrueRules(now) : x = Stated(r, now)
  BY <1>3, <1>5, RegimeIsTrue DEF regime, e
<1>8. x.id = r.id /\ x.effects = r.effects /\ x.instruments = r.instruments
  BY <1>7, RuleIsStated
<1>9. Judged(e, x) = "NOT_SATISFIED" /\ x.effects \cap {"ENTRY", "ACCOUNT_ELIGIBILITY"} # {}
  BY RefusalIsJudged DEF e, EntryEffects
<1>10. Broken(r, Newest("account", now))
  BY <1>6, <1>7, <1>9, RuleIsBroken DEF e
<1>11. CASE r.instruments = None \/ request.instrument \in r.instruments
  <2>1. Bears(r)
    BY <1>8, <1>9, <1>11 DEF Bears
  <2> QED
    BY <1>5, <1>10, <2>1 DEF MayEnter
<1>12. CASE ~(r.instruments = None \/ request.instrument \in r.instruments)
  <2> DEFINE binding == OperandOf(e, x, "INSTRUMENT_BINDING")
  <2>1. binding # None /\ binding \in r.instruments
    BY <1>8, <1>12, RefusalIsJudged DEF e
  <2>2. binding \in Facts(r, "INSTRUMENT_BINDING")
    BY <1>6, <1>8, <2>1, OperandIsTheFact DEF e
  <2> HIDE DEF binding
  <2> QED
    BY <1>8, <1>9, <1>10, <1>12, <2>1, <2>2 DEF Misapplied
<1> QED
  BY <1>11, <1>12

\* A gate that refuses refuses an account without equity, or with two losses.
LEMMA GatesRefuse ==
  ASSUME TypeOK, world.asked = "entry", Evidence.packet["financial"] # None,
         NEW gate \in Gates, GateOutcome(Evidence, gate) = "NOT_SATISFIED"
  PROVE  ~MayEnter(taken["financial"]) \/ Uncorrected
<1> DEFINE t == taken["financial"]
           f == Financial(t)
<1>1. t \in 0 .. now /\ Evidence.packet["financial"] = f
  BY FinancialIsCaptured
<1>2. CASE gate = "EQUITY"
  <2>1. EquityGate(f, Evidence.at) = "NOT_SATISFIED"
    BY <1>1, <1>2 DEF GateOutcome
  <2>2. f.account.equity # None /\ f.account.equity <= 0
    BY <2>1 DEF EquityGate, Verdict
  <2>3. f.account.equity = IF Blurred("equity") THEN None ELSE Newest("account", t).equity
    BY DEF Financial, Account
  <2>4. Newest("account", t).equity \in Int
    BY AccountIsCounted
  <2> HIDE DEF f, t
  <2>5. ~(Newest("account", t).equity > 0)
    BY <2>2, <2>3, <2>4
  <2> QED
    BY <2>5 DEF MayEnter, t
<1>3. CASE gate = "DAILY_LOSS"
  BY <1>1, <1>3, LossIsRefused
<1>4. CASE gate = "COMPATIBILITY"
  BY <1>4 DEF GateOutcome, CompatibilityGate, Verdict
<1>5. CASE gate = "REGIME"
  BY <1>5 DEF GateOutcome, RegimeGate, Verdict
<1> QED
  BY <1>2, <1>3, <1>4, <1>5 DEF Gates

LEMMA NodesRefuse ==
  ASSUME TypeOK, world.asked = "entry", Evidence.packet["financial"] # None, PolicyAdmissible(Evidence),
         NEW n \in PolicyNodes(Evidence), n[2] = "NOT_SATISFIED"
  PROVE  ~MayEnter(taken["financial"]) \/ Uncorrected \/ Misapplied
<1>1. CASE \E gate \in Gates : n = <<gate, GateOutcome(Evidence, gate)>>
  <2>1. PICK gate \in Gates : n = <<gate, GateOutcome(Evidence, gate)>>
    BY <1>1
  <2>2. GateOutcome(Evidence, gate) = "NOT_SATISFIED"
    BY <2>1
  <2> QED
    BY <2>2, GatesRefuse
<1>2. CASE \E rule \in SelectedRules(Evidence) : n = <<rule.id, RuleOutcome(Evidence, rule)>>
  <2>1. PICK rule \in SelectedRules(Evidence) : n = <<rule.id, RuleOutcome(Evidence, rule)>>
    BY <1>2
  <2>2. RuleOutcome(Evidence, rule) = "NOT_SATISFIED" /\ OperandsAdmissible(Evidence)
    BY <2>1 DEF PolicyAdmissible
  <2> QED
    BY <2>2, RulesRefuse
<1> QED
  BY <1>1, <1>2 DEF PolicyNodes

-----------------------------------------------------------------------------
(* Risk negatives and claims that refuse.                                  *)

\* The specification that a risk basis is read with is the true one.
LEMMA SelectionIsOfNow ==
  ASSUME TypeOK, LastInstant \in Nat, world.asked = "entry", Evidence.packet["financial"] # None,
         RiskRead(Evidence), Specification(Evidence).selected # None
  PROVE  LET r == Specification(Evidence).selected
         IN  /\ TrueRevisions(now) = {r} /\ TrueRevision = r
             /\ Contract(Evidence) = world.revisions[r]
<1> DEFINE e == Evidence
           t == taken["financial"]
           report == Lifecycle(t)
           r == Specification(e).selected
<1>1. t # None /\ now \in Int /\ t \in 0 .. now /\ e.packet["financial"] = Financial(t) /\ e.at = now
  BY FinancialIsCaptured, EvidenceIsCaptured
<1>2. Financial(t).lifecycle = report
  BY DEF Financial
<1>3. LifecycleAdmissible(report, now) /\ Specification(e) = Applicable(report, now, now)
  BY <1>1, <1>2 DEF RiskRead, Specification
<1> HIDE DEF report
<1>4. Applicable(report, now, now).outcome = "UNIQUE" /\ r \in Positive(Active(report, now))
  BY <1>3, ApplicableIsNamed
<1>5. now \in -1 .. LastInstant + 1
  BY DEF TypeOK
<1>6. SelectionIsTrue
  BY CaptureSelectsTruly
<1>7. SelectsTruly(report, now)
  BY <1>1, <1>3, <1>5, <1>6 DEF SelectionIsTrue, report
<1>8. TrueRevisions(now) = {r}
  BY <1>3, <1>4, <1>7 DEF SelectsTruly
<1>9. TrueRevision = r
  BY <1>8 DEF TrueRevision
<1>10. r \in DOMAIN report.revisions
  BY <1>3, <1>4, PositiveIsNamed DEF LifecycleAdmissible
<1>11. report.revisions[r] = world.revisions[r]
  BY <1>10 DEF report, Lifecycle
<1>12. Contract(e) = report.revisions[r]
  BY <1>1, <1>2 DEF Contract
<1> QED
  BY <1>8, <1>9, <1>11, <1>12

\* An order that stands gives no reason against it.
LEMMA StandingIsUsable ==
  ASSUME TypeOK, world.asked = "entry", OrderStands
  PROVE  /\ ~CandidateFails(Evidence) /\ Evidence.terms.costs # "INCOMPLETE" /\ ~StopUnusable(Evidence)
         /\ ~(Evidence.quote.bid <= 0) /\ ~(Evidence.quote.bid > Evidence.quote.ask)
         /\ Evidence.quote.bidTime = Evidence.quote.askTime
<1> DEFINE e == Evidence
           t == request.terms
           q == request.quote
           long == request.direction = "LONG"
           margin == IF long THEN q.bid - request.stop ELSE request.stop - q.ask
<1>1. /\ e.direction = request.direction /\ e.stop = request.stop
      /\ e.quote = q /\ e.terms = t /\ e.candidate = request.candidate
  BY EvidenceIsCaptured DEF request
<1>2. /\ request.candidate \notin {"INVALIDATED", "EXPIRED"} /\ t.costs # "INCOMPLETE"
      /\ 0 < q.bid /\ q.bid <= q.ask /\ q.bidTime = q.askTime
      /\ t.trigger \in {"UNKNOWN", IF long THEN "BID_AT_MOST" ELSE "ASK_AT_LEAST"}
      /\ (request.stop - t.tickOrigin) % t.tick = 0
      /\ margin > 0 /\ margin >= t.minimumClearance
      /\ IF long THEN t.stopAllowance < request.stop ELSE t.entryAllowance < q.bid
  BY DEF OrderStands
<1>3. /\ request.stop \in Int /\ q.bid \in Int /\ q.ask \in Int /\ t.minimumClearance \in Int
      /\ t.entryAllowance \in Nat /\ t.stopAllowance \in Nat
  BY OrderIsCounted DEF request
<1> HIDE DEF e
<1>4. ~CandidateFails(e) /\ e.terms.costs # "INCOMPLETE"
  BY <1>1, <1>2 DEF CandidateFails
<1>5. ~(e.quote.bid <= 0) /\ ~(e.quote.bid > e.quote.ask) /\ e.quote.bidTime = e.quote.askTime
  BY <1>1, <1>2, <1>3
<1>6. (e.stop - e.terms.tickOrigin) % e.terms.tick = 0
      /\ ~(e.terms.trigger # "UNKNOWN" /\ e.terms.trigger # Side(e.direction, "BID_AT_MOST", "ASK_AT_LEAST"))
  BY <1>1, <1>2 DEF Side
<1>7. ~(Clearance(e) <= 0) /\ ~(Clearance(e) < e.terms.minimumClearance)
  BY <1>1, <1>2, <1>3 DEF Clearance, Side
<1>8. ~(AdverseEntry(e) <= 0) /\ ~(AdverseFill(e) <= 0) /\ ~(Distance(e) <= 0)
  <2>1. CASE long
    BY <1>1, <1>2, <1>3, <2>1 DEF AdverseEntry, AdverseFill, Distance
  <2>2. CASE ~long
    BY <1>1, <1>2, <1>3, <2>2 DEF AdverseEntry, AdverseFill, Distance
  <2> QED
    BY <2>1, <2>2
<1> QED
  BY <1>4, <1>5, <1>6, <1>7, <1>8 DEF StopUnusable, e

\* A plan that forbids the entry is not one under which it may be made.
LEMMA PlanIsForbidden ==
  ASSUME TypeOK, LastInstant \in Nat, world.asked = "entry", Evidence.packet["financial"] # None,
         RiskRead(Evidence), PlanForbids(Evidence)
  PROVE  ~TruePlan
<1> DEFINE e == Evidence
           t == taken["financial"]
           plan == Financial(t).plan
           D == Decisions(now)
           d == { i \in DOMAIN D : D[i].from <= now }
<1>1. e.packet["financial"] = Financial(t) /\ e.at = now /\ t \in Int /\ now \in Int
  BY FinancialIsCaptured, EvidenceIsCaptured
<1>2. /\ plan.complete = ~Blurred("plan") /\ plan.cutoff = t
      /\ plan.decisions = IF Blurred("plan") THEN world.plan ELSE Decisions(t)
  BY DEF Financial
<1>3. PlanCovers(plan, now) /\ Governing(plan, now) # None
      /\ \/ Governing(plan, now).decision # "APPROVED"
         \/ ~Within(Governing(plan, now).from, Governing(plan, now).until, now)
         \/ OtherSpecificationApproved(e, Governing(plan, now))
  BY <1>1 DEF PlanForbids
<1> HIDE DEF e, plan, D
<1>4. plan.decisions = D
  BY <1>2, <1>3 DEF PlanCovers, D
<1>5. d # {} /\ Governing(plan, now) = D[Max(d)]
  BY <1>3, <1>4 DEF Governing
<1>6. SUFFICES ASSUME TruePlan PROVE FALSE
  OBVIOUS
<1> DEFINE row == D[Max(d)]
<1>7. row.decision = "APPROVED" /\ Within(row.from, row.until, now) /\ TrueRevisions(now) = {row.revision}
  BY <1>6 DEF TruePlan, D
<1> HIDE DEF d
<1>8. OtherSpecificationApproved(e, row)
  BY <1>3, <1>5, <1>7
<1>9. Specification(e).selected # None /\ Specification(e).selected # row.revision
  BY <1>8 DEF OtherSpecificationApproved
<1>10. TrueRevisions(now) = {Specification(e).selected}
  BY <1>9, SelectionIsOfNow DEF e
<1> QED
  BY <1>7, <1>9, <1>10

\* A risk basis that gives a reason has read its evidence, and the reason is one
\* of the evidence.
LEMMA RiskGivesReasons ==
  ASSUME NEW e, e.packet["financial"] # None, RiskBasis(e).outcome # "INVALID", NEW n \in RiskBasis(e).negatives
  PROVE  RiskRead(e) /\ n \in RiskNegatives(e)
<1> DEFINE invalid == \/ ~AdmissionFits(e, "financial") \/ ~PlanAdmissible(e.packet["financial"].plan)
                      \/ ~LifecycleAdmissible(e.packet["financial"].lifecycle, e.at)
                      \/ e.quote.bidTime > e.at \/ e.quote.askTime > e.at
           negatives == RiskNegatives(e)
           unresolved == RiskUnresolved(e)
<1>1. RiskBasis(e) = IF invalid THEN RiskAnswer("INVALID", None, {}, TRUE) ELSE RiskOutcome(e, negatives, unresolved)
  BY DEF RiskBasis
<1>2. ~invalid /\ RiskBasis(e) = RiskOutcome(e, negatives, unresolved)
  <2> HIDE DEF invalid, negatives, unresolved
  <2> QED
    BY <1>1 DEF RiskAnswer
<1>3. n \in negatives
  <2> HIDE DEF negatives, unresolved
  <2>1. CASE negatives # {}
    BY <1>2, <2>1 DEF RiskOutcome, RiskAnswer
  <2>2. CASE negatives = {} /\ unresolved
    BY <1>2, <2>2 DEF RiskOutcome, RiskAnswer
  <2>3. CASE negatives = {} /\ ~unresolved
    BY <1>2, <2>3 DEF RiskOutcome, RiskAnswer
  <2> QED
    BY <2>1, <2>2, <2>3
<1> QED
  BY <1>2, <1>3 DEF RiskRead

\* Each of these reasons is one of those.
LEMMA ReasonsAreNamed ==
  ASSUME NEW e, NEW n \in RiskNegatives(e)
  PROVE  \/ n = "candidate" /\ CandidateFails(e)
         \/ n = "payoff" /\ PayoffUnusable(e)
         \/ n = "plan" /\ PlanForbids(e)
         \/ n = "mandate" /\ MandateExpired(e)
         \/ n = "costs" /\ e.terms.costs = "INCOMPLETE"
         \/ n = "quote" /\ QuoteUnusable(e)
         \/ n = "stop" /\ StopUnusable(e)
BY DEF RiskNegatives

\* A reason against the risk forbids the entry, whatever the instant.
LEMMA RisksRefuse ==
  ASSUME TypeOK, MandateIsTheWorlds, LastInstant \in Nat, world.asked = "entry",
         Evidence.packet["financial"] # None, RiskBasis(Evidence).outcome # "INVALID",
         NEW n \in RiskBasis(Evidence).negatives, Admitted(Evidence, n), NEW t, MayEnter(t)
  PROVE  FALSE
<1> DEFINE e == Evidence
           r == Specification(e).selected
<1>1. RiskRead(e) /\ n \in RiskNegatives(e)
  BY RiskGivesReasons
<1>2. OrderStands /\ TruePlan /\ now < world.admission.mandate /\ TrueRevisions(now) = {request.quote.revision}
      /\ world.revisions[TrueRevision].payoff = "COMPLETE"
  BY DEF MayEnter
<1>3. e.at = now /\ e.adm = admission /\ e.quote = request.quote
  BY EvidenceIsCaptured DEF request
<1>4. /\ ~CandidateFails(e) /\ e.terms.costs # "INCOMPLETE" /\ ~StopUnusable(e)
      /\ ~(e.quote.bid <= 0) /\ ~(e.quote.bid > e.quote.ask) /\ e.quote.bidTime = e.quote.askTime
  BY <1>2, StandingIsUsable
<1>5. ~PayoffUnusable(e)
  <2>1. SUFFICES ASSUME PayoffUnusable(e) PROVE FALSE
    OBVIOUS
  <2>2. r # None /\ Contract(e).payoff \in {"ABSENT", "UNSUPPORTED", "NONUNIFORM"}
    BY <2>1 DEF PayoffUnusable
  <2>3. TrueRevision = r /\ Contract(e) = world.revisions[r]
    BY <1>1, <2>2, SelectionIsOfNow
  <2> HIDE DEF e, r
  <2> QED
    BY <1>2, <2>2, <2>3
<1>6. ~PlanForbids(e)
  BY <1>1, <1>2, PlanIsForbidden
<1>7. ~MandateExpired(e)
  <2>1. SUFFICES ASSUME MandateExpired(e) PROVE FALSE
    OBVIOUS
  <2>2. Within(admission.from, admission.until, now) /\ admission # None
    BY <1>3 DEF Admitted, AdmissionCurrent
  <2>3. ~Within(admission.from, admission.mandate, now)
    BY <1>3, <2>1 DEF MandateExpired, MandateCurrent
  <2>4. admission.mandate = world.admission.mandate
    BY <2>2 DEF MandateIsTheWorlds
  <2> QED
    BY <1>2, <2>2, <2>3, <2>4 DEF Within
<1>8. ~QuoteUnusable(e)
  <2>1. r \in {None, request.quote.revision}
    <3>1. CASE r # None
      <4>1. TrueRevisions(now) = {r}
        BY <1>1, <3>1, SelectionIsOfNow
      <4> QED
        BY <1>2, <4>1
    <3> QED
      BY <3>1
  <2> QED
    BY <1>3, <1>4, <2>1 DEF QuoteUnusable
<1> QED
  BY <1>1, <1>4, <1>5, <1>6, <1>7, <1>8, ReasonsAreNamed

\* Subjects that are told to be different are different.
LEMMA ClaimsRefuse ==
  ASSUME TypeOK, world.asked = "entry", Evidence.packet["financial"] # None,
         NEW c \in BlockingClaims(Evidence), NEW t, MayEnter(t)
  PROVE  FALSE
<1> DEFINE k == taken["financial"]
           said == CASE Blurred("claims") -> "UNKNOWN"
                     [] c \in world.same  -> "COMPATIBLE"
                     [] OTHER             -> "INCOMPATIBLE"
<1>1. Evidence.packet["financial"] = Financial(k)
  BY FinancialIsCaptured
<1>2. c \in Claims /\ BindingOf(Evidence).claims[c] = "INCOMPATIBLE"
  BY DEF BlockingClaims
<1>3. BindingOf(Evidence).claims[c] = said
  BY <1>1, <1>2 DEF BindingOf, Financial
<1>4. c \notin world.same
  <2>1. said = "INCOMPATIBLE"
    BY <1>2, <1>3
  <2> QED
    BY <2>1
<1> QED
  BY <1>2, <1>4 DEF MayEnter

-----------------------------------------------------------------------------
(* Grids and limits that leave nothing.                                    *)

\* The grid of the venue, once it is settled, is that of the terms in force; where
\* it is empty, no quantity is allowed.
LEMMA VenueIsOfNow ==
  ASSUME TypeOK, LastInstant \in Nat, world.asked = "entry", Evidence.packet["financial"] # None,
         VenueGrid(QuantityDomain(Evidence)) # None
  PROVE  LET d == VenueGrid(QuantityDomain(Evidence))
         IN  /\ CapturedNow /\ (d = EmptyGrid \/ IsGrid(d))
             /\ \A q \in TrueQuantities : Includes(d, q)
<1> DEFINE e == Evidence
           domain == QuantityDomain(e)
           t == taken["financial"]
           inv == e.packet["financial"].grid
           body == InForce(inv, e.at).body
           d == Descriptor(body)
<1>1. /\ GridAdmissible(e) /\ Resolves(inv, e.at)
      /\ domain = IF IsEmpty(d) THEN Unsuitable ELSE Established(d)
  <2>1. domain.outcome \in {"ESTABLISHED", "NOT_SUITABLE"}
    <3> HIDE DEF domain
    <3> QED
      BY DEF VenueGrid, domain
  <2> QED
    BY <2>1 DEF QuantityDomain, Invalid, Unknown, Answer
<1>2. t # None /\ t \in Int /\ now \in Int /\ e.packet["financial"] = Financial(t) /\ e.at = now
  BY FinancialIsCaptured, EvidenceIsCaptured
<1>3. inv = Inventory("grid", t)
  BY <1>2 DEF Financial
<1>4. t = now
  <2>1. Resolves(Inventory("grid", t), now)
    <3> HIDE DEF inv, e, t
    <3> QED
      BY <1>1, <1>2, <1>3
  <2> QED
    BY <2>1, ResolvedIsCapturedNow
<1>5. CapturedNow
  BY <1>2, <1>4 DEF CapturedNow
<1>6. inv = Inventory("grid", now) /\ d = Descriptor(InForce(Inventory("grid", now), now).body)
  BY <1>2, <1>3, <1>4
<1> HIDE DEF inv, d, e
<1>7. /\ d = EmptyGrid \/ IsGrid(d)
      /\ \A q \in Int : Includes(d, q) <=>
           q > 0 /\ TrueTerms("grid") # {} /\ \A r \in TrueTerms("grid") : InForceNow(r) /\ OnGrid(r.body, q)
  BY <1>1, <1>2, <1>5, <1>6, GridIsTheTerms DEF e
<1>8. VenueGrid(domain) = d
  <2>1. CASE IsEmpty(d)
    <3>1. d = EmptyGrid
      BY <1>7, <2>1 DEF IsGrid, IsEmpty
    <3>2. domain.outcome = "NOT_SUITABLE"
      BY <1>1, <2>1 DEF Unsuitable, Answer
    <3> HIDE DEF domain
    <3> QED
      BY <3>1, <3>2 DEF VenueGrid
  <2>2. CASE ~IsEmpty(d)
    <3>1. domain.outcome = "ESTABLISHED" /\ domain.value = d
      BY <1>1, <2>2 DEF Established, Answer
    <3> HIDE DEF domain
    <3> QED
      BY <3>1 DEF VenueGrid
  <2> QED
    BY <2>1, <2>2
<1>9. ASSUME NEW q \in TrueQuantities
      PROVE  Includes(d, q)
  <2>1. q \in 1 .. Top /\ TrueTerms("grid") # {} /\ \A r \in TrueTerms("grid") : InForceNow(r) /\ OnGrid(r.body, q)
    BY DEF TrueQuantities
  <2>2. q \in Int /\ q > 0
    BY <2>1
  <2> QED
    BY <1>7, <2>1, <2>2
<1> QED
  BY <1>5, <1>7, <1>8, <1>9 DEF e

\* An established risk basis has nothing against it.
LEMMA RiskIsEstablished ==
  ASSUME NEW e, e.packet["financial"] # None, RiskBasis(e).outcome = "ESTABLISHED"
  PROVE  RiskGranted(e) /\ RiskBasis(e).value = RiskFunction(e)
<1> DEFINE invalid == \/ ~AdmissionFits(e, "financial") \/ ~PlanAdmissible(e.packet["financial"].plan)
                      \/ ~LifecycleAdmissible(e.packet["financial"].lifecycle, e.at)
                      \/ e.quote.bidTime > e.at \/ e.quote.askTime > e.at
           negatives == RiskNegatives(e)
           unresolved == RiskUnresolved(e)
<1>1. RiskBasis(e) = IF invalid THEN RiskAnswer("INVALID", None, {}, TRUE) ELSE RiskOutcome(e, negatives, unresolved)
  BY DEF RiskBasis
<1>2. ~invalid /\ RiskBasis(e) = RiskOutcome(e, negatives, unresolved)
  <2> HIDE DEF invalid, negatives, unresolved
  <2> QED
    BY <1>1 DEF RiskAnswer
<1>3. negatives = {} /\ ~unresolved
  <2> HIDE DEF negatives, unresolved
  <2>1. CASE negatives # {}
    BY <1>2, <2>1 DEF RiskOutcome, RiskAnswer
  <2>2. CASE negatives = {} /\ unresolved
    BY <1>2, <2>2 DEF RiskOutcome, RiskAnswer
  <2> QED
    BY <2>1, <2>2
<1>4. RiskBasis(e).value = RiskFunction(e)
  <2> HIDE DEF negatives, unresolved
  <2> QED
    BY <1>2, <1>3 DEF RiskOutcome, RiskAnswer
<1> QED
  BY <1>2, <1>3, <1>4 DEF RiskGranted, RiskRead

\* What the risk function supports of the grid leaves out no true quantity ...
LEMMA SupportLeavesNoneOut ==
  ASSUME TypeOK, LastInstant \in Nat, world.asked = "entry", Evidence.packet["financial"] # None,
         SupportedGrid(Evidence, VenueGrid(QuantityDomain(Evidence)), RiskBasis(Evidence)) # None
  PROVE  LET d == SupportedGrid(Evidence, VenueGrid(QuantityDomain(Evidence)), RiskBasis(Evidence))
         IN  /\ CapturedNow /\ RiskGranted(Evidence) /\ RiskBasis(Evidence).value = RiskFunction(Evidence)
             /\ Finite(d) /\ \A q \in TrueQuantities : Includes(d, q)
<1> DEFINE e == Evidence
           entry == VenueGrid(QuantityDomain(e))
           risk == RiskBasis(e)
           maximum == request.terms.maximumQuantity
           d == SupportedGrid(e, entry, risk)
<1>1. entry # None /\ RiskHolds(e, risk) /\ d = Supported(entry, risk.value.maximum)
  <2> HIDE DEF entry, risk
  <2> QED
    BY DEF SupportedGrid, entry, risk
<1>2. /\ CapturedNow /\ (entry = EmptyGrid \/ IsGrid(entry))
      /\ \A q \in TrueQuantities : Includes(entry, q)
  BY <1>1, VenueIsOfNow
<1>3. RiskGranted(e) /\ risk.value = RiskFunction(e)
  BY <1>1, RiskIsEstablished DEF RiskHolds
<1>4. risk.value.maximum = maximum /\ maximum \in Int
  <2>1. RiskFunction(e).maximum = maximum
    BY EvidenceIsCaptured DEF RiskFunction, request
  <2> QED
    BY <1>3, <2>1, OrderIsCounted DEF request
<1> HIDE DEF e, entry, risk, d
<1>5. CASE entry = EmptyGrid
  <2>1. TrueQuantities = {}
    BY <1>2, <1>5, NothingInEmpty
  <2>2. d = EmptyGrid
    BY <1>1, <1>5 DEF Supported, IsEmpty, EmptyGrid
  <2> QED
    BY <1>2, <1>3, <2>1, <2>2 DEF Finite, e, entry, risk, d
<1>6. CASE IsGrid(entry)
  <2>1. Finite(d)
    BY <1>1, <1>4, <1>6, SupportedIsFinite
  <2>2. ASSUME NEW q \in TrueQuantities PROVE Includes(d, q)
    <3>1. q \in Int /\ q <= maximum
      BY DEF TrueQuantities
    <3>2. Includes(d, q) <=> Includes(entry, q) /\ q <= maximum
      BY <1>1, <1>4, <1>6, <3>1, SupportIsAPartition
    <3> QED
      BY <1>2, <3>1, <3>2
  <2> QED
    BY <1>2, <1>3, <2>1, <2>2 DEF e, entry, risk, d
<1> QED
  BY <1>2, <1>5, <1>6

\* ... and nor does what the budget leaves of it.
LEMMA BudgetLeavesNoneOut ==
  ASSUME TypeOK, LastInstant \in Nat, world.asked = "entry", Evidence.packet["financial"] # None,
         NEW supported, supported = SupportedGrid(Evidence, VenueGrid(QuantityDomain(Evidence)), RiskBasis(Evidence)),
         FeasibleGrid(Evidence, supported, RiskBasis(Evidence), PolicyNodes(Evidence)) # None
  PROVE  \A q \in TrueQuantities :
           Includes(FeasibleGrid(Evidence, supported, RiskBasis(Evidence), PolicyNodes(Evidence)), q)
<1> DEFINE e == Evidence
           risk == RiskBasis(e)
           nodes == PolicyNodes(e)
           f == RiskFunction(e)
           budget == Budget(e.packet["financial"])
           d == FeasibleGrid(e, supported, risk, nodes)
<1>1. supported # None /\ PolicyHolds(e, nodes) /\ d = Feasible(supported, risk.value, budget)
  <2> HIDE DEF risk, nodes, budget
  <2> QED
    BY DEF FeasibleGrid, risk, nodes, budget
<1>2. /\ CapturedNow /\ RiskGranted(e) /\ risk.value = f
      /\ Finite(supported) /\ \A q \in TrueQuantities : Includes(supported, q)
  BY <1>1, SupportLeavesNoneOut
<1>3. Priced(f) /\ \A q \in Int : Loss(f, q) = TrueLoss(q) /\ TrueLoss(q) \in Int
  BY <1>2, LossIsTrue
<1>4. budget \in Int /\ \A l \in Int : l <= budget <=> 100 * l <= Newest("account", now).equity
  BY <1>1, <1>2, BudgetIsTrue DEF PolicyHolds
<1> HIDE DEF e, f, budget, d, risk
<1>5. \A q \in Int : Includes(d, q) <=> Includes(supported, q) /\ Loss(f, q) <= budget
  BY <1>1, <1>2, <1>3, <1>4, FeasibleIsExact
<1>6. ASSUME NEW q \in TrueQuantities PROVE Includes(d, q)
  <2>1. q \in Int /\ 100 * TrueLoss(q) <= Newest("account", now).equity
    BY DEF TrueQuantities
  <2> QED
    BY <1>2, <1>3, <1>4, <1>5, <2>1
<1> QED
  BY <1>6 DEF d, e, risk

\* Whoever refuses for the account's sake refuses an account that may not enter, or
\* every quantity.
LEMMA FeasibilityRefuses ==
  ASSUME TypeOK, MandateIsTheWorlds, LastInstant \in Nat, world.asked = "entry",
         Feasibility(Evidence).outcome = "NOT_SUITABLE"
  PROVE  \/ TrueQuantities = {} \/ Uncorrected \/ Misapplied
         \/ taken["financial"] # None /\ ~MayEnter(taken["financial"])
<1> DEFINE e == Evidence
           domain == QuantityDomain(e)
           risk == RiskBasis(e)
           nodes == PolicyNodes(e)
           entry == VenueGrid(domain)
           supported == SupportedGrid(e, entry, risk)
           feasible == FeasibleGrid(e, supported, risk, nodes)
           proved == \/ BlockingNodes(e, nodes) # {} \/ BlockingRisks(e, risk) # {} \/ BlockingClaims(e) # {}
                     \/ EmptyGrid \in {entry, supported, feasible}
           open   == \/ entry = None \/ OpenNodes(e, nodes) \/ OpenRisk(e, risk) \/ OpenClaims(e)
                     \/ ~PolicyNamespace(e)
<1>1. e.packet["financial"] # None /\ Feasibility(e) = FeasibilityOf(e, domain, risk, nodes)
  BY DEF Feasibility, NoResult
<1>2. /\ FeasibilityAdmissible(e, domain, risk)
      /\ Feasibility(e) = FeasibilityResult(e, risk, nodes, entry, supported, feasible)
  BY <1>1 DEF FeasibilityOf, NoResult
<1>3. Feasibility(e) =
        [outcome |-> IF proved THEN "NOT_SUITABLE" ELSE IF open THEN "UNKNOWN" ELSE "ESTABLISHED",
         entry |-> entry, supported |-> supported, feasible |-> feasible]
  BY <1>2 DEF FeasibilityResult
<1>4. proved
  <2> HIDE DEF proved, open, entry, supported, feasible
  <2> QED
    BY <1>3
<1>5. PolicyAdmissible(e) /\ risk.outcome # "INVALID" /\ taken["financial"] # None
  BY <1>1, <1>2, FinancialIsCaptured DEF FeasibilityAdmissible
<1>6. CASE BlockingNodes(e, nodes) # {}
  <2>1. PICK n \in nodes : n[2] = "NOT_SATISFIED"
    BY <1>6 DEF BlockingNodes
  <2> QED
    BY <1>1, <1>5, <2>1, NodesRefuse
<1>7. CASE BlockingRisks(e, risk) # {}
  <2>1. PICK n \in risk.negatives : Admitted(e, n)
    BY <1>7 DEF BlockingRisks
  <2> QED
    BY <1>1, <1>5, <2>1, RisksRefuse
<1>8. CASE BlockingClaims(e) # {}
  BY <1>1, <1>5, <1>8, ClaimsRefuse
<1>9. None # EmptyGrid
  BY NoneIsApart
<1>10. CASE EmptyGrid = entry
  BY <1>1, <1>9, <1>10, VenueIsOfNow, NothingInEmpty
<1>11. CASE EmptyGrid = supported
  BY <1>1, <1>9, <1>11, SupportLeavesNoneOut, NothingInEmpty
<1>12. CASE EmptyGrid = feasible
  BY <1>1, <1>9, <1>12, BudgetLeavesNoneOut, NothingInEmpty
<1> QED
  BY <1>4, <1>6, <1>7, <1>8, <1>10, <1>11, <1>12

\* What is excluded is so by a rule that is disposed of as a limit; limits that
\* refuse exclude everything.
LEMMA LimitsExclude ==
  ASSUME NEW e
  PROVE  /\ Limits(e).outcome = "NOT_SUITABLE" => [kind |-> "ALL_SUPPORT"] \in Limits(e).excluded
         /\ \A x \in Limits(e).excluded :
              /\ Position(e) # None /\ Position(e).limits # None
              /\ LimitsAdmissible(e, SelectedHere(e), PositionEffect(e))
              /\ \E rule \in RulesOf(SelectedHere(e)) :
                   /\ Disposition(e, SelectedHere(e), PositionEffect(e), rule) = "TERMINAL_LIMIT"
                   /\ x = Excluded(rule, PositionEffect(e).value)
<1> DEFINE regime == SelectedHere(e)
           effect == PositionEffect(e)
           open == { rule \in RulesOf(regime) : Disposition(e, regime, effect, rule) = "UNRESOLVED" }
           limiting == { rule \in RulesOf(regime) : Disposition(e, regime, effect, rule) = "TERMINAL_LIMIT" }
           maxima == { rule.maximum : rule \in { rule \in limiting : rule.type = "POSITION_QUANTITY" } }
           disposed == [d \in {"UNRESOLVED", "TERMINAL_LIMIT"} |->
                   { rule \in RulesOf(regime) : Disposition(e, regime, effect, rule) = d }]
           excluded == { Excluded(rule, effect.value) : rule \in limiting } \ {Nothing}
           settled == /\ effect.outcome = "ESTABLISHED"
                      /\ RegimeProven(e, regime) /\ ScopeProven(e) /\ LimitsCovered(e, regime)
                      /\ open = {}
           all == [kind |-> "ALL_SUPPORT"]
           yes == [outcome |-> "ESTABLISHED", domain |-> Interval(effect.value.min, Min({effect.value.max} \cup maxima)),
                   excluded |-> excluded]
           no == [outcome |-> "NOT_SUITABLE", domain |-> EmptyInterval, excluded |-> excluded]
           maybe == [outcome |-> "UNKNOWN", domain |-> None, excluded |-> excluded]
           known == Position(e) # None /\ LimitsAdmissible(e, regime, effect) /\ Position(e).limits # None
<1>1. CASE ~known
  <2>1. \E o \in {"INVALID", "UNKNOWN"} : Limits(e) = NoLimits(o)
    BY <1>1 DEF Limits, LimitsFrom
  <2>2. Limits(e).excluded = {} /\ Limits(e).outcome # "NOT_SUITABLE"
    BY <2>1 DEF NoLimits
  <2> QED
    BY <2>2
<1>2. CASE known
  <2>1. Limits(e) = LimitsOf(e, regime, effect, disposed)
    BY <1>2 DEF Limits, LimitsFrom
  <2>2. disposed["UNRESOLVED"] = open /\ disposed["TERMINAL_LIMIT"] = limiting
    OBVIOUS
  <2>3. Limits(e) = LimitsResult(effect.value, excluded, limiting, settled)
    <3> HIDE DEF disposed, regime, effect
    <3> QED
      BY <2>1, <2>2 DEF LimitsOf
  <2> HIDE DEF excluded, settled, limiting
  <2>4. Limits(e) = IF all \in excluded THEN no ELSE IF settled THEN yes ELSE maybe
    BY <2>3 DEF LimitsResult
  <2>5. /\ yes.outcome = "ESTABLISHED" /\ no.outcome = "NOT_SUITABLE" /\ maybe.outcome = "UNKNOWN"
        /\ yes.excluded = excluded /\ no.excluded = excluded /\ maybe.excluded = excluded
    OBVIOUS
  <2>6. Limits(e).excluded = excluded /\ (Limits(e).outcome = "NOT_SUITABLE" => all \in excluded)
    <3> HIDE DEF yes, no, maybe
    <3> QED
      BY <2>4, <2>5
  <2>7. \A x \in excluded : \E rule \in limiting : x = Excluded(rule, effect.value)
    BY DEF excluded
  <2>8. \A rule \in limiting : rule \in RulesOf(regime) /\ Disposition(e, regime, effect, rule) = "TERMINAL_LIMIT"
    BY DEF limiting
  <2> HIDE DEF regime, effect
  <2> QED
    BY <1>2, <2>6, <2>7, <2>8 DEF regime, effect
<1> QED
  BY <1>1, <1>2

\* A rule that is disposed of as a limit is a true one, of the position that is
\* answered.
LEMMA LimitIsTrue ==
  ASSUME TypeOK, world.asked = "entry", Position(Evidence) # None, Position(Evidence).limits # None,
         LimitsAdmissible(Evidence, SelectedHere(Evidence), PositionEffect(Evidence)),
         NEW x \in RulesOf(SelectedHere(Evidence)),
         Disposition(Evidence, SelectedHere(Evidence), PositionEffect(Evidence), x) = "TERMINAL_LIMIT"
  PROVE  /\ PositionEffect(Evidence).outcome = "ESTABLISHED"
         /\ x \in TrueRules(now) /\ TrueLimit(x) /\ x.maximum \in Int
<1> DEFINE e == Evidence
           regime == SelectedHere(e)
           effect == PositionEffect(e)
<1>1. effect.outcome = "ESTABLISHED" /\ regime.outcome = "UNIQUE" /\ x.type \in LimitTypes
  BY DEF Disposition, RegimeProven, LimitTypes
<1>2. Position(e) = PositionPacket(now) /\ e.instrument = request.instrument /\ e.at = now
  BY <1>1, EffectAnsweredNow, EvidenceIsCaptured DEF Position, request
<1>3. regime = Regime(Manifest(now), now)
  <2>1. PositionPacket(now).regime = Manifest(now)
    BY DEF PositionPacket
  <2> QED
    BY <1>2, <2>1 DEF SelectedHere
<1>4. RulesOf(regime) = { Stated(r, now) : r \in TrueRules(now) }
  BY <1>1, <1>3, RegimeIsTrue
<1>5. PICK r \in TrueRules(now) : x = Stated(r, now)
  BY <1>4
<1>6. x = r
  <2>1. r.type = x.type
    BY <1>5, RuleIsStated
  <2> QED
    BY <1>1, <1>5, <2>1, RuleIsStated DEF LimitTypes
<1>7. x.maximum \in Int
  <2>1. world \in Worlds /\ x \in RulesOfWorld(world)
    BY <1>6, TrueRulesAreTheWorlds DEF TypeOK
  <2> QED
    BY <1>1, <2>1, RulesAreCounted DEF LimitTypes
<1>8. \A b, c \in BindingsOf(e, x) : b = c
  <2>1. \A b, c \in Position(e).limits.bindings : b.rule = c.rule => b = c
    BY DEF LimitsAdmissible
  <2> QED
    BY <2>1 DEF BindingsOf
<1> HIDE DEF e, regime, effect
<1>9. Disposition(e, regime, effect, x) = "TERMINAL_LIMIT" /\ Disposition(e, regime, effect, x) # "UNRESOLVED"
  BY DEF e, regime, effect
<1>10. TrueLimit(x)
  BY <1>1, <1>2, <1>8, <1>9, LimitsAreDisposedOf
<1> QED
  BY <1>1, <1>5, <1>6, <1>7, <1>10 DEF e, effect

\* No true quantity is excluded.
LEMMA TrueAreNotExcluded ==
  ASSUME TypeOK, LastInstant \in Nat, world.asked = "entry", NEW x \in Limits(Evidence).excluded, NEW q \in TrueQuantities
  PROVE  x.kind # "ALL_SUPPORT" /\ (x.kind = "UPPER_TAIL" => x.above \in Int /\ q <= x.above)
<1> DEFINE effect == PositionEffect(Evidence)
<1>1. PICK r \in RulesOf(SelectedHere(Evidence)) :
        /\ Disposition(Evidence, SelectedHere(Evidence), effect, r) = "TERMINAL_LIMIT"
        /\ x = Excluded(r, effect.value)
        /\ Position(Evidence) # None /\ Position(Evidence).limits # None
        /\ LimitsAdmissible(Evidence, SelectedHere(Evidence), effect)
  BY LimitsExclude
<1>2. effect.outcome = "ESTABLISHED" /\ r \in TrueRules(now) /\ TrueLimit(r) /\ r.maximum \in Int
  BY <1>1, LimitIsTrue
<1>3. PICK lo, hi \in Int :
        /\ effect.value = Interval(lo, hi)
        /\ \A p \in Int : lo <= p /\ p <= hi <=>
             /\ TrueTerms("effect") # {}
             /\ \A s \in TrueTerms("effect") :
                  InForceNow(s) /\ s.body.mechanics = "SUPPORTED" /\ p \in s.body.range.min .. s.body.range.max
  BY <1>2, EffectIsTrue
<1>4. /\ q \in Int /\ TrueTerms("effect") # {} /\ WithinLimit(r, q)
      /\ \A s \in TrueTerms("effect") :
           InForceNow(s) /\ s.body.mechanics = "SUPPORTED" /\ q \in s.body.range.min .. s.body.range.max
  BY <1>2 DEF TrueQuantities
<1>5. lo <= q
  BY <1>3, <1>4
<1>6. effect.value.min = lo /\ effect.value.max = hi /\ r.type \in LimitTypes
  BY <1>2, <1>3 DEF Interval, TrueLimit, LimitTypes
<1> HIDE DEF effect
<1>7. CASE r.type = "POSITION_COUNT"
  <2>1. ~(1 > r.maximum)
    BY <1>2, <1>4, <1>7 DEF WithinLimit
  <2>2. x = Nothing
    BY <1>1, <1>7, <2>1 DEF Excluded
  <2> QED
    BY <2>2 DEF Nothing
<1>8. CASE r.type = "POSITION_QUANTITY"
  <2>1. q <= r.maximum /\ ~(r.maximum < lo)
    BY <1>2, <1>4, <1>5, <1>8 DEF WithinLimit
  <2>2. x = Nothing \/ x = [kind |-> "UPPER_TAIL", above |-> r.maximum, upto |-> hi]
    BY <1>1, <1>6, <1>8, <2>1 DEF Excluded
  <2> QED
    BY <1>2, <2>1, <2>2 DEF Nothing
<1> QED
  BY <1>6, <1>7, <1>8 DEF LimitTypes

\* An established feasibility leaves no true quantity out.
LEMMA FeasibilityLeavesNoneOut ==
  ASSUME TypeOK, LastInstant \in Nat, world.asked = "entry", Feasibility(Evidence).outcome = "ESTABLISHED"
  PROVE  LET f == Feasibility(Evidence)
         IN  /\ Finite(f.supported) /\ Finite(f.feasible)
             /\ \A q \in TrueQuantities : Includes(f.supported, q) /\ Includes(f.feasible, q)
<1> DEFINE e == Evidence
           grid == QuantityDomain(e).value
           maximum == request.terms.maximumQuantity
           supported == Supported(grid, e.terms.maximumQuantity)
           f == RiskFunction(e)
           budget == Budget(e.packet["financial"])
           feasible == Feasible(supported, f, budget)
<1>1. /\ Granted(e) /\ QuantityDomain(e).outcome = "ESTABLISHED"
      /\ Feasibility(e).supported = supported /\ supported # EmptyGrid
      /\ supported # None => Feasibility(e).feasible = feasible
  BY FeasibilityIsGranted
<1>2. CapturedNow /\ RiskGranted(e) /\ \A n \in PolicyNodes(e) : n[2] = "SATISFIED"
  <2>1. e.packet["financial"] # None
    BY <1>1 DEF Granted
  <2>2. taken["financial"] = now /\ e.packet["financial"] = Financial(now)
    BY <1>1, <2>1, AnsweredNow
  <2>3. taken["financial"] # None
    BY <2>1, EvidenceIsCaptured DEF Captured
  <2> QED
    BY <1>1, <2>2, <2>3 DEF CapturedNow, Granted
<1>3. /\ IsGrid(grid)
      /\ \A q \in Int : Includes(grid, q) <=>
           q > 0 /\ TrueTerms("grid") # {} /\ \A r \in TrueTerms("grid") : InForceNow(r) /\ OnGrid(r.body, q)
  BY <1>1, <1>2, GridIsTrue
<1>4. e.terms.maximumQuantity = maximum /\ maximum \in Int
  <2>1. e.terms = world.request.terms
    BY EvidenceIsCaptured
  <2>2. world.request.terms.maximumQuantity \in Int
    BY OrderIsCounted
  <2> QED
    BY <2>1, <2>2 DEF request
<1>5. Finite(supported) /\ Feasibility(e).feasible = feasible
  <2>1. Finite(supported) /\ (supported # EmptyGrid => supported # None)
    BY <1>3, <1>4, SupportedIsFinite
  <2> QED
    BY <1>1, <2>1
<1>6. \A q \in Int : Includes(supported, q) <=> Includes(grid, q) /\ q <= maximum
  BY <1>3, <1>4, SupportIsAPartition
<1>7. Priced(f) /\ \A q \in Int : Loss(f, q) = TrueLoss(q) /\ TrueLoss(q) \in Int
  BY <1>2, LossIsTrue
<1>8. budget \in Int /\ \A l \in Int : l <= budget <=> 100 * l <= Newest("account", now).equity
  BY <1>2, BudgetIsTrue
<1> HIDE DEF e, grid, maximum, supported, f, budget, feasible
<1>9. /\ Finite(feasible)
      /\ \A q \in Int : Includes(feasible, q) <=> Includes(supported, q) /\ Loss(f, q) <= budget
  BY <1>5, <1>7, <1>8, FeasibleIsExact DEF feasible
<1>10. ASSUME NEW q \in TrueQuantities
       PROVE  Includes(supported, q) /\ Includes(feasible, q)
  <2>1. q \in 1 .. Top
    BY DEF TrueQuantities
  <2>2. q \in Int /\ q > 0
    BY <2>1
  <2>3. Includes(grid, q)
    BY <1>3, <2>2 DEF TrueQuantities
  <2>4. q <= maximum /\ 100 * TrueLoss(q) <= Newest("account", now).equity
    BY DEF TrueQuantities, maximum
  <2> QED
    BY <1>6, <1>7, <1>8, <1>9, <2>2, <2>3, <2>4
<1> QED
  BY <1>1, <1>5, <1>9, <1>10 DEF e

\* Nor does the composition where both of its owners answer and a limit may only
\* cut off quantities.
LEMMA CompositionLeavesNoneOut ==
  ASSUME TypeOK, LastInstant \in Nat, world.asked = "entry", NEW q \in TrueQuantities,
         Feasibility(Evidence).outcome = "ESTABLISHED", PositionEffect(Evidence).outcome = "ESTABLISHED"
  PROVE  LET f == Feasibility(Evidence)
             interval == PositionEffect(Evidence).value
         IN  Composed(f.feasible, Clip(f.supported, interval), Clip(f.feasible, interval),
                      Limits(Evidence), interval) # EmptyGrid
<1> DEFINE f == Feasibility(Evidence)
           interval == PositionEffect(Evidence).value
           terminal == Limits(Evidence)
           support == Clip(f.supported, interval)
           common == Clip(f.feasible, interval)
<1>1. /\ Finite(f.supported) /\ Finite(f.feasible)
      /\ Includes(f.supported, q) /\ Includes(f.feasible, q)
  BY FeasibilityLeavesNoneOut
<1>2. q \in Int
  BY DEF TrueQuantities
<1>3. PICK lo, hi \in Int :
        /\ interval = Interval(lo, hi)
        /\ \A p \in Int : lo <= p /\ p <= hi <=>
             /\ TrueTerms("effect") # {}
             /\ \A r \in TrueTerms("effect") :
                  InForceNow(r) /\ r.body.mechanics = "SUPPORTED" /\ p \in r.body.range.min .. r.body.range.max
  BY EffectIsTrue
<1>4. lo <= q /\ q <= hi
  BY <1>2, <1>3 DEF TrueQuantities
<1> HIDE DEF f, interval
<1>5. Includes(support, q) /\ Finite(common) /\ Includes(common, q)
  BY <1>1, <1>2, <1>3, <1>4, ClippedIsFinite
<1> HIDE DEF support, common
<1>6. ~IsEmpty(support) /\ ~IsEmpty(common) /\ Bounded(common)
  BY <1>5, NothingInEmpty DEF Includes, Finite
<1>7. CASE terminal.outcome = "ESTABLISHED"
  <2>1. PICK top \in Int :
          /\ terminal.domain = Interval(lo, top)
          /\ \A p \in Int : p <= top <=>
               p <= hi /\ \A r \in { r \in TrueRules(now) : TrueLimit(r) } : WithinLimit(r, p)
    BY <1>3, <1>7, LimitsAreTrue DEF interval
  <2>2. q <= top
    BY <1>2, <1>4, <2>1 DEF TrueQuantities
  <2> HIDE DEF terminal
  <2>3. Includes(Clip(f.feasible, terminal.domain), q)
    BY <1>1, <1>2, <1>4, <2>1, <2>2, ClippedIsFinite
  <2>4. Clip(f.feasible, terminal.domain) # EmptyGrid
    BY <2>3, NothingInEmpty
  <2> QED
    BY <1>6, <1>7, <2>4 DEF Composed, f, interval, support, common, terminal
<1>8. CASE terminal.outcome # "ESTABLISHED"
  <2>1. ASSUME NEW x \in terminal.excluded PROVE ~Exhausts(x, common, interval)
    <3>1. x.kind # "ALL_SUPPORT" /\ (x.kind = "UPPER_TAIL" => x.above \in Int /\ q <= x.above)
      BY <2>1, TrueAreNotExcluded
    <3>2. PICK i \in common.first .. common.last : q = At(common, i)
      BY <1>5, <1>6, BoundedIncludes
    <3>3. common.first \in Int /\ i \in Int /\ common.first <= i
      BY <1>6 DEF Bounded, IsGrid
    <3>4. At(common, common.first) \in Int /\ At(common, common.first) <= q
      BY <1>6, <3>2, <3>3, AtGrows DEF Bounded
    <3> QED
      BY <1>2, <3>1, <3>4 DEF Exhausts
  <2>2. None # EmptyGrid
    BY NoneIsApart
  <2> HIDE DEF terminal
  <2>3. Composed(f.feasible, support, common, terminal, interval) = None
    BY <1>6, <1>8, <2>1 DEF Composed
  <2> QED
    BY <2>2, <2>3 DEF f, interval, support, common, terminal
<1> QED
  BY <1>7, <1>8

\* A refusal to compose is a fact, but for the two grounds that are named.
LEMMA CompositionRefuses ==
  ASSUME TypeOK, MandateIsTheWorlds, LastInstant \in Nat, world.asked = "entry",
         Composition(Evidence).outcome = "NOT_SUITABLE"
  PROVE  \/ TrueQuantities = {} \/ Uncorrected \/ Misapplied
         \/ taken["financial"] # None /\ ~MayEnter(taken["financial"])
<1> DEFINE financial == Feasibility(Evidence)
           terminal == Limits(Evidence)
           effect == PositionEffect(Evidence)
           domain == Composed(financial.feasible, Clip(financial.supported, effect.value),
                              Clip(financial.feasible, effect.value), terminal, effect.value)
<1>1. Composition(Evidence) = IF financial.outcome = "ESTABLISHED" /\ effect.outcome = "ESTABLISHED"
                                THEN CompositionResult(financial, terminal, domain)
                                ELSE CompositionResult(financial, terminal, None)
  BY DEF Composition, CompositionOf, NoComposition
<1> HIDE DEF financial, terminal, effect, domain
<1>2. ASSUME NEW d, CompositionResult(financial, terminal, d).outcome = "NOT_SUITABLE"
      PROVE  financial.outcome = "NOT_SUITABLE" \/ terminal.outcome = "NOT_SUITABLE" \/ d = EmptyGrid
  BY <1>2 DEF CompositionResult, NoComposition
<1>3. None # EmptyGrid
  BY NoneIsApart
<1>4. \/ financial.outcome = "NOT_SUITABLE" \/ terminal.outcome = "NOT_SUITABLE"
      \/ financial.outcome = "ESTABLISHED" /\ effect.outcome = "ESTABLISHED" /\ domain = EmptyGrid
  BY <1>1, <1>2, <1>3
<1>5. CASE financial.outcome = "NOT_SUITABLE"
  BY <1>5, FeasibilityRefuses DEF financial
<1>6. CASE terminal.outcome = "NOT_SUITABLE"
  <2>1. [kind |-> "ALL_SUPPORT"] \in Limits(Evidence).excluded
    BY <1>6, LimitsExclude DEF terminal
  <2>2. ASSUME NEW q \in TrueQuantities PROVE FALSE
    <3>1. [kind |-> "ALL_SUPPORT"].kind # "ALL_SUPPORT"
      BY <2>1, TrueAreNotExcluded
    <3> QED
      BY <3>1
  <2> QED
    BY <2>2
<1>7. CASE financial.outcome = "ESTABLISHED" /\ effect.outcome = "ESTABLISHED" /\ domain = EmptyGrid
  <2>1. ASSUME NEW q \in TrueQuantities PROVE FALSE
    BY <1>7, CompositionLeavesNoneOut DEF financial, effect, terminal, domain
  <2> QED
    BY <2>1
<1> QED
  BY <1>4, <1>5, <1>6, <1>7

-----------------------------------------------------------------------------
(* Headrooms that leave nothing.                                           *)

\* What a headroom without any quantity rests on.
LEMMA HeadroomIsRefused ==
  ASSUME NEW e, NEW owner, HeadroomOf(e, owner).outcome = "NOT_SUITABLE"
  PROVE  /\ owner.outcome = "ESTABLISHED" /\ FloorPacket(e) # None
         /\ FloorsHold(e, FloorBody(e)) /\ EmptyGrid \in PassingAll(e, FloorBody(e), owner.value)
<1> DEFINE body == FloorBody(e)
           basis == owner.value
           disposed == [r \in SelectedRules(e) |-> FloorDisposition(e, body, r)]
           passing == PassingAll(e, body, basis)
           complete == /\ \A r \in DOMAIN disposed : disposed[r] # "UNRESOLVED"
                       /\ UniverseComplete(e, body)
<1>1. /\ owner.outcome = "ESTABLISHED" /\ FloorPacket(e) # None
      /\ HeadroomOf(e, owner) = HeadroomFrom(e, body, basis)
  BY DEF HeadroomOf, Invalid, Unknown, Answer
<1>2. FloorsHold(e, body) /\ HeadroomOf(e, owner) = HeadroomUnder(e, body, basis, disposed)
  BY <1>1 DEF HeadroomFrom, Unknown, Answer
<1>3. { r \in DOMAIN disposed : disposed[r] = "SUPPORTED_STATIC_FLOOR" } = Counted(e, body)
  BY DEF Counted
<1>4. HeadroomOf(e, owner) = HeadroomResult(passing, complete)
  <2> HIDE DEF body, basis, disposed
  <2> QED
    BY <1>2, <1>3 DEF HeadroomUnder, PassingAll
<1> HIDE DEF passing, complete
<1>5. EmptyGrid \in passing
  BY <1>4 DEF HeadroomResult, Unsuitable, Unknown, Established, Answer
<1> QED
  BY <1>1, <1>2, <1>5 DEF passing

\* Where the headroom has no quantity, none survives.
LEMMA HeadroomRefuses ==
  ASSUME TypeOK, MandateIsTheWorlds, LastInstant \in Nat, Top \in Nat, world.asked = "entry",
         HeadroomOf(Evidence, ProjectionOf(Evidence, Composition(Evidence))).outcome = "NOT_SUITABLE",
         NEW q \in TrueQuantities
  PROVE  ~Survives(q)
<1> DEFINE e == Evidence
           c == Composition(e)
           owner == ProjectionOf(e, c)
           body == FloorBody(e)
           basis == Basis(e, c.domain)
<1> HIDE DEF e, c, owner, body
<1>1. /\ owner.outcome = "ESTABLISHED" /\ FloorPacket(e) # None
      /\ FloorsHold(e, body) /\ EmptyGrid \in PassingAll(e, body, owner.value)
  BY HeadroomIsRefused DEF e, c, owner, body
<1>2. c.outcome = "ESTABLISHED" /\ owner.value = basis
  BY <1>1, ProjectionIsGranted DEF owner
<1>3. CapturedNow /\ RiskGranted(e) /\ PositionEffect(e).outcome = "ESTABLISHED"
  BY <1>2, CompositionIsOfNow, CompositionIsGranted DEF e, c
<1>4. Bounded(c.domain) /\ Includes(c.domain, q)
  <2>1. q \in 1 .. Top
    BY DEF TrueQuantities
  <2> QED
    BY <1>2, <2>1, QuantitiesAreTrue DEF e, c
<1>5. Priced(RiskFunction(e)) /\ \A p \in Int : Loss(RiskFunction(e), p) = TrueLoss(p) /\ TrueLoss(p) \in Int
  BY <1>3, LossIsTrue DEF e
<1>6. /\ basis.balance = Newest("account", now).balance /\ basis.balance \in Int
      /\ basis.function = RiskFunction(e) /\ basis.support = c.domain
  <2>1. Financial(now).account.balance = Newest("account", now).balance
    BY DEF Financial, Account
  <2>2. Newest("account", now).balance \in Int
    BY AccountIsCounted
  <2> QED
    BY <1>3, <2>1, <2>2 DEF Basis, CapturedNow, e
<1>7. body.bindings = world.floors[now].bindings
  <2>1. body = ToldFloors(now)
    BY <1>1, <1>3, FloorsAreOfNow DEF CapturedNow, body, e
  <2> QED
    BY <2>1 DEF ToldFloors
<1>8. /\ SelectedRules(e) = { Stated(x, now) : x \in TrueRules(now) }
      /\ \A r \in TrueRules(now) : r \in RulesOfWorld(world)
  <2>1. RegimeSteady(Evidence, SelectedHere(Evidence))
    BY <1>1 DEF FloorsHold, e
  <2> QED
    BY <1>3, <2>1, RulesAreTold DEF e
<1> HIDE DEF basis
<1>9. PICK r \in TrueRules(now) :
        /\ FloorDisposition(e, body, Stated(r, now)) = "SUPPORTED_STATIC_FLOOR"
        /\ EmptyGrid = Passing(basis, FloorOf(e, Stated(r, now)), Stated(r, now).strict)
  BY <1>1, <1>2, <1>8 DEF PassingAll, Counted
<1>10. /\ UnderBalance(r) /\ \A t \in now .. now + 1 : ~Lifted(r, t)
       /\ FloorOf(e, Stated(r, now)) = Level(r, now) /\ Level(r, now) \in Int
       /\ Stated(r, now).strict = r.strict
  <2>1. Evidence.end = now + 2
    BY EvidenceIsCaptured
  <2> QED
    BY <1>3, <1>7, <1>8, <1>9, <2>1, CountedIsAFloor DEF e
<1>11. q \in Int
  BY DEF TrueQuantities
<1>12. ~Left(basis, Level(r, now), r.strict, q)
  <2>1. EmptyGrid = Passing(basis, Level(r, now), r.strict)
    BY <1>9, <1>10
  <2>2. Includes(EmptyGrid, q) <=> Includes(c.domain, q) /\ Left(basis, Level(r, now), r.strict, q)
    BY <1>4, <1>5, <1>6, <1>10, <1>11, <2>1, PassingIsExact
  <2> QED
    BY <1>4, <2>2, NothingInEmpty
<1>13. ASSUME Survives(q) PROVE FALSE
  <2> DEFINE left == Newest("account", now).balance - TrueLoss(q) - Level(r, now)
  <2>1. now \in now .. now + 1
    BY DEF TypeOK
  <2>2. IF r.strict THEN left > 0 ELSE left >= 0
    BY <1>10, <1>13, <2>1 DEF Survives
  <2>3. Loss(basis.function, q) = TrueLoss(q)
    BY <1>5, <1>6, <1>11
  <2> QED
    BY <1>6, <1>12, <2>2, <2>3 DEF Left
<1> QED
  BY <1>13

\* A refusal is a fact: the owners of an entry refuse it only where the account the
\* packet was captured of may not enter, where no quantity is a true one, or on one of
\* the two grounds that count although more could be told; and the headroom only where
\* no true quantity survives until the deadline.
THEOREM RefusalIsTrueAlways == Spec => []RefusalIsTrue
<1>1. TypeOK /\ MandateIsTheWorlds => RefusalIsTrue
  <2> SUFFICES ASSUME TypeOK, MandateIsTheWorlds, world.asked = "entry"
               PROVE  DeskRefusesTruly(Evidence, Composition(Evidence))
    BY DEF RefusalIsTrue
  <2>1. LastInstant \in Nat /\ Top \in Nat
    BY BoundariesAreCounted
  <2>2. Composition(Evidence).outcome = "NOT_SUITABLE" =>
          \/ TrueQuantities = {} \/ Uncorrected \/ Misapplied
          \/ taken["financial"] # None /\ ~MayEnter(taken["financial"])
    BY <2>1, CompositionRefuses
  <2>3. "financial" \in Packets
    BY DEF Packets
  <2>4. HeadroomOf(Evidence, ProjectionOf(Evidence, Composition(Evidence))).outcome = "NOT_SUITABLE" =>
          \A q \in TrueQuantities : ~Survives(q)
    BY <2>1, HeadroomRefuses
  <2> QED
    BY <2>2, <2>3, <2>4 DEF DeskRefusesTruly, RefusalHolds
<1> QED
  BY <1>1, MandatesAreTheWorlds, PTL

=============================================================================
