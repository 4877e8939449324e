--------------------------- MODULE DiagramProofs ----------------------------
(***************************************************************************)
(* Proofs about the life of a diagram.                                     *)
(*                                                                         *)
(* The properties of Diagram speak of what is computed from a diagram by   *)
(* walks up its tree, by folds over its nodes and by sets over its edges;  *)
(* the diagrams they hold for are those that Init, an edit, a conversion   *)
(* or an import can make.  So the module has three layers: what keeps the  *)
(* nodes of a diagram a list (ListInv); what the walks, chains, addresses  *)
(* and references of such a diagram are; and what the handlers hand on to  *)
(* one another (IndexInv, BuiltInv, ShownInv), which joins the two.        *)
(***************************************************************************)
EXTENDS Diagram, WellFoundedInduction, FiniteSetTheorems, TLAPS

(* The nodes of a diagram are a list.                                      *)
HasNodes(d) == "nodes" \in DOMAIN d /\ IsList(d.nodes)

ListInv == HasNodes(doc)

(* The index and the problems are of the saved diagram, and a handler only *)
(* hangs where the walks of the validator do not end.                      *)
IndexInv ==
  /\ index # NoIndex => index = Index(doc)
  /\ index # NoIndex /\ ~hung => problems = Problems(index)
  /\ hung => index # NoIndex /\ ~Ends(index)

(* What is built, or failed to be, is of a diagram found without errors.   *)
BuiltInv ==
  /\ built # NotBuilt => index # NoIndex /\ ~hung /\ Errors(problems) = {}
  /\ IsBuilt => built = Generation(index)
  /\ built = Failed => ~Generates(Generation(index))

(* A plan on the canvas is summed up with what was generated for it.       *)
ShownInv ==
  shown # NoPlan =>
    \E changes :
      shown = [changes |-> changes, summary |-> Summarize(changes, ModuleToNode(built))]

-----------------------------------------------------------------------------
(* Numbers, and the lists a diagram keeps its nodes in.                    *)

(* Every nonempty set of numbers has a least one.                          *)
LEMMA Least ==
  ASSUME NEW T, T \subseteq Nat, T # {}
  PROVE  \E m \in T : \A n \in T : m <= n
<1> DEFINE R == OpToRel(<, Nat)
<1>1. IsWellFoundedOn(R, Nat)
  BY NatLessThanWellFounded
<1>2. R = {ss \in Nat \X Nat : ss[1] < ss[2]}
  BY DEF OpToRel
<1>3. \A m, n \in Nat : m < n => <<m, n>> \in R
  BY <1>2
<1> HIDE DEF R
<1>4. PICK m \in T : \A y \in T : ~(<<y, m>> \in R)
  BY <1>1, WFMin
<1>5. ASSUME NEW n \in T PROVE m <= n
  <2>1. m \in Nat /\ n \in Nat
    BY <1>4
  <2>2. ~(n < m)
    BY <2>1, <1>3, <1>4
  <2> QED
    BY <2>1, <2>2
<1> QED
  BY <1>4, <1>5

(* A set of numbers that has 0 and with every number the next one has all. *)
LEMMA Induction ==
  ASSUME NEW S, 0 \in S, \A n \in Nat : n \in S => n + 1 \in S
  PROVE  Nat \subseteq S
<1> DEFINE T == Nat \ S
<1> SUFFICES ASSUME T # {} PROVE FALSE
  OBVIOUS
<1>1. PICK m \in T : \A n \in T : m <= n
  BY Least
<1>2. m # 0 /\ m - 1 \in Nat /\ m - 1 \notin T
  BY <1>1
<1> QED
  BY <1>1, <1>2

(* A list, the sequences the model keeps nodes in, is indexed from 1.      *)
LEMMA ListDomain ==
  ASSUME NEW s, IsList(s)
  PROVE  Len(s) \in Nat /\ DOMAIN s = 1 .. Len(s)
  BY DEF IsList

(* What is defined on 1 .. n is a list of n.                               *)
LEMMA ListOf ==
  ASSUME NEW s, NEW n \in Nat, s = [k \in 1 .. n |-> s[k]]
  PROVE  IsList(s) /\ Len(s) = n
<1>1. s \in [1 .. n -> Range(s)]
  BY DEF Range
<1>2. s \in Seq(Range(s))
  BY <1>1
<1>3. Len(s) = n
  BY <1>1, <1>2
<1> QED
  BY <1>2, <1>3 DEF IsList

(* A sequence over a set is a list.                                        *)
LEMMA ListIn ==
  ASSUME NEW S, NEW s \in Seq(S)
  PROVE  IsList(s)
<1>1. Len(s) \in Nat /\ s = [k \in 1 .. Len(s) |-> s[k]]
  OBVIOUS
<1> QED
  BY <1>1, ListOf

(* What replaces every element of a list by another is a list as long.     *)
LEMMA ListMap ==
  ASSUME NEW s, IsList(s), NEW t, t = [k \in DOMAIN s |-> t[k]]
  PROVE  IsList(t) /\ Len(t) = Len(s)
  BY ListDomain, ListOf

(* Two lists put together are one.                                         *)
LEMMA ListConcat ==
  ASSUME NEW s, IsList(s), NEW t, IsList(t)
  PROVE  IsList(s \o t)
<1> DEFINE S == Range(s) \cup Range(t)
<1>1. s \in Seq(S) /\ t \in Seq(S)
  <2>1. \A x : IsList(x) /\ Range(x) \subseteq S => x \in Seq(S)
    BY DEF IsList
  <2> QED
    BY <2>1
<1> HIDE DEF S
<1>2. s \o t \in Seq(S)
  BY <1>1
<1> QED
  BY <1>2, ListIn

(* A list with one more element is a list, and what it has where.          *)
LEMMA ListAppend ==
  ASSUME NEW s, IsList(s), NEW e
  PROVE  /\ IsList(Append(s, e)) /\ Len(Append(s, e)) = Len(s) + 1
         /\ Append(s, e) = [k \in 1 .. Len(s) + 1 |-> IF k = Len(s) + 1 THEN e ELSE s[k]]
<1> DEFINE S == Range(s) \cup {e}
<1>1. s \in Seq(S)
  BY DEF IsList
<1> HIDE DEF S
<1>2. e \in S
  BY DEF S
<1>3. Append(s, e) \in Seq(S) /\ Len(Append(s, e)) = Len(s) + 1
  BY <1>1, <1>2
<1>4. \A k \in 1 .. Len(s) + 1 : Append(s, e)[k] = IF k = Len(s) + 1 THEN e ELSE s[k]
  BY <1>1, <1>2
<1> DEFINE a == Append(s, e)
<1>5. a \in Seq(S) /\ Len(a) = Len(s) + 1
  BY <1>3
<1> HIDE DEF a
<1>6. a = [k \in 1 .. Len(a) |-> a[k]]
  BY <1>5
<1>7. a = [k \in 1 .. Len(s) + 1 |-> a[k]]
  BY <1>5, <1>6
<1> QED
  BY <1>3, <1>4, <1>7, ListIn DEF a

(* A part of anything, between two numbers, is a list.                     *)
LEMMA ListSubSeq ==
  ASSUME NEW s, NEW m \in Int, NEW n \in Int
  PROVE  IsList(SubSeq(s, m, n))
<1> DEFINE t == SubSeq(s, m, n)
<1>1. t = [i \in 1 .. (1 + n - m) |-> s[i + m - 1]]
  OBVIOUS
<1> HIDE DEF t
<1>2. PICK l \in Nat : 1 .. (1 + n - m) = 1 .. l
  <2>1. CASE 1 + n - m \in Nat
    BY <2>1
  <2>2. CASE 1 + n - m < 0
    <3>1. 1 .. (1 + n - m) = 1 .. 0
      BY <2>2
    <3> QED
      BY <3>1
  <2> QED
    BY <2>1, <2>2
<1>3. t = [i \in 1 .. l |-> t[i]]
  BY <1>1, <1>2
<1> QED
  BY <1>3, ListOf DEF t

(* What is kept of a sequence comes from it, and is in the set.            *)
AmongUpTo(s, S, n, f) ==
  f = [k \in 0 .. n |->
         IF k = 0 THEN <<>>
         ELSE IF s[k] \in S THEN Append(f[k - 1], s[k]) ELSE f[k - 1]]

(* The fold that Among chooses exists.                                     *)
LEMMA AmongUpToExists ==
  ASSUME NEW s, NEW S
  PROVE  \A n \in Nat : \E f : AmongUpTo(s, S, n, f)
<1> DEFINE T == {n \in Nat : \E f : AmongUpTo(s, S, n, f)}
<1>1. 0 \in T
  <2>1. AmongUpTo(s, S, 0, [k \in 0 .. 0 |-> <<>>])
    BY DEF AmongUpTo
  <2> QED
    BY <2>1
<1>2. ASSUME NEW n \in Nat, n \in T PROVE n + 1 \in T
  <2>1. PICK f : AmongUpTo(s, S, n, f)
    BY <1>2
  <2> DEFINE next == IF s[n + 1] \in S THEN Append(f[n], s[n + 1]) ELSE f[n]
             g == [k \in 0 .. (n + 1) |-> IF k <= n THEN f[k] ELSE next]
             then(h, k) == IF k = 0 THEN <<>>
                           ELSE IF s[k] \in S THEN Append(h[k - 1], s[k]) ELSE h[k - 1]
  <2>2. \A k \in 0 .. (n + 1) : g[k] = then(g, k)
    <3> SUFFICES ASSUME NEW k \in 0 .. (n + 1) PROVE g[k] = then(g, k)
      OBVIOUS
    <3>1. CASE k \in 0 .. n
      <4>1. f[k] = then(f, k)
        BY <2>1, <3>1 DEF AmongUpTo
      <4>2. g[k] = f[k] /\ (k # 0 => g[k - 1] = f[k - 1])
        BY <3>1
      <4> QED
        BY <4>1, <4>2
    <3>2. CASE k = n + 1
      BY <3>2
    <3> QED
      BY <3>1, <3>2
  <2>3. g = [k \in 0 .. (n + 1) |-> g[k]]
    OBVIOUS
  <2> HIDE DEF g
  <2>4. AmongUpTo(s, S, n + 1, g)
    BY <2>2, <2>3 DEF AmongUpTo
  <2> QED
    BY <2>4
<1> HIDE DEF T
<1>3. Nat \subseteq T
  BY <1>1, <1>2, Induction
<1> QED
  BY <1>3 DEF T

(* So Among is the end of such a fold.                                     *)
LEMMA AmongIsKept ==
  ASSUME NEW s, NEW S, Len(s) \in Nat
  PROVE  \E f : AmongUpTo(s, S, Len(s), f) /\ Among(s, S) = f[Len(s)]
<1>1. \E f : AmongUpTo(s, S, Len(s), f)
  BY AmongUpToExists
<1> DEFINE kept == CHOOSE f : AmongUpTo(s, S, Len(s), f)
<1>2. AmongUpTo(s, S, Len(s), kept)
  BY <1>1, Zenon
<1>3. Among(s, S) = kept[Len(s)]
  BY Zenon DEF Among, AmongUpTo
<1> QED
  BY <1>2, <1>3

(* What is kept of a list is a list of exactly its elements in the set:    *)
(* the loops of the code that append what passes a test.                   *)
LEMMA AmongFacts ==
  ASSUME NEW s, NEW S, IsList(s)
  PROVE  IsList(Among(s, S)) /\ Range(Among(s, S)) = Range(s) \cap S
<1> DEFINE n == Len(s)
<1>1. PICK f : AmongUpTo(s, S, n, f) /\ Among(s, S) = f[n]
  BY AmongIsKept, ListDomain
<1> DEFINE Good(k) == IsList(f[k]) /\ Range(f[k]) = {s[j] : j \in 1 .. k} \cap S
           T == {k \in Nat : k <= n => Good(k)}
<1>2. n \in Nat /\ DOMAIN s = 1 .. n
  BY ListDomain
<1> HIDE DEF n
<1>3. 0 \in T
  <2>1. f[0] = <<>>
    BY <1>1, <1>2 DEF AmongUpTo
  <2>2. IsList(<<>>) /\ Range(<<>>) = {}
    BY DEF IsList, Range
  <2>3. {s[j] : j \in 1 .. 0} = {}
    OBVIOUS
  <2> QED
    BY <2>1, <2>2, <2>3
<1>4. ASSUME NEW k \in Nat, k \in T PROVE k + 1 \in T
  <2> SUFFICES ASSUME k + 1 <= n PROVE Good(k + 1)
    OBVIOUS
  <2>1. Good(k)
    BY <1>2, <1>4
  <2>2. f[k + 1] = IF s[k + 1] \in S THEN Append(f[k], s[k + 1]) ELSE f[k]
    <3>1. k + 1 \in 0 .. n /\ k + 1 # 0 /\ (k + 1) - 1 = k
      BY <1>2
    <3> QED
      BY <1>1, <3>1 DEF AmongUpTo
  <2>3. {s[j] : j \in 1 .. k + 1} = {s[j] : j \in 1 .. k} \cup {s[k + 1]}
    OBVIOUS
  <2>4. CASE s[k + 1] \in S
    <3>1. /\ IsList(Append(f[k], s[k + 1]))
          /\ Append(f[k], s[k + 1]) =
               [j \in 1 .. Len(f[k]) + 1 |-> IF j = Len(f[k]) + 1 THEN s[k + 1] ELSE f[k][j]]
      BY <2>1, ListAppend
    <3>2. Len(f[k]) \in Nat /\ DOMAIN f[k] = 1 .. Len(f[k])
      BY <2>1, ListDomain
    <3>3. Range(Append(f[k], s[k + 1])) = Range(f[k]) \cup {s[k + 1]}
      BY <3>1, <3>2 DEF Range
    <3> QED
      BY <2>1, <2>2, <2>3, <2>4, <3>1, <3>3
  <2>5. CASE s[k + 1] \notin S
    BY <2>1, <2>2, <2>3, <2>5
  <2> QED
    BY <2>4, <2>5
<1> HIDE DEF T
<1>5. n \in T
  BY <1>2, <1>3, <1>4, Induction
<1>6. Good(n)
  BY <1>2, <1>5 DEF T
<1>7. {s[j] : j \in 1 .. n} = Range(s)
  BY <1>2 DEF Range
<1> QED
  BY <1>1, <1>6, <1>7

-----------------------------------------------------------------------------
(* Conversion and edits keep the nodes a list.                             *)

(* Min of a nonempty set of numbers is its least.                          *)
LEMMA MinOf ==
  ASSUME NEW S, S \subseteq Nat, S # {}
  PROVE  Min(S) \in S /\ \A n \in S : Min(S) <= n
<1>1. \E m \in S : \A n \in S : m <= n
  BY Least
<1> QED
  BY <1>1, Zenon DEF Min

(* Convert: a node taken out and put back in another box, a list still.    *)
LEMMA PutInList ==
  ASSUME NEW nodes, IsList(nodes), NEW k \in Int, NEW parent
  PROVE  IsList(PutIn(nodes, k, parent))
<1> DEFINE rest == RemoveAt(nodes, k)
           e == [nodes[k] EXCEPT !.parent = parent]
<1>1. IsList(rest)
  <2>1. Len(nodes) \in Int
    BY ListDomain
  <2>2. IsList(SubSeq(nodes, 1, k - 1)) /\ IsList(SubSeq(nodes, k + 1, Len(nodes)))
    BY <2>1, ListSubSeq
  <2> QED
    BY <2>2, ListConcat DEF RemoveAt
<1> HIDE DEF rest, e
<1>2. Len(rest) \in Int
  BY <1>1, ListDomain
<1>3. IsList(SubSeq(rest, 1, k - 1)) /\ IsList(SubSeq(rest, k, Len(rest)))
  BY <1>2, ListSubSeq
<1>4. IsList(<<e>>)
  <2>1. <<e>> \in Seq({e})
    OBVIOUS
  <2> QED
    BY <2>1, ListIn
<1>5. IsList(InsertAt(rest, k, e))
  BY <1>3, <1>4, ListConcat DEF InsertAt
<1> QED
  BY <1>5 DEF PutIn, rest, e

(* Convert: the place of a node, 0 when it has none, is a number.          *)
LEMMA FirstIsNumber ==
  ASSUME NEW nodes, IsList(nodes), NEW id
  PROVE  First(nodes, id) \in Nat
<1>1. DOMAIN nodes \subseteq Nat
  BY ListDomain
<1> DEFINE hits == {k \in DOMAIN nodes : nodes[k].id = id}
<1>2. hits \subseteq Nat
  BY <1>1
<1>3. hits # {} => Min(hits) \in Nat
  BY <1>2, MinOf
<1> QED
  BY <1>3 DEF First

(* Convert: a node put in a box, which moves it in the list of nodes.      *)
LEMMA ChildList ==
  ASSUME NEW out, HasNodes(out), NEW id, NEW parent
  PROVE  HasNodes(Child(out, id, parent))
<1>1. IsList(PutIn(out.nodes, First(out.nodes, id), parent))
  BY FirstIsNumber, PutInList DEF HasNodes
<1>2. Child(out, id, parent).nodes = PutIn(out.nodes, First(out.nodes, id), parent)
  BY DEF Child, HasNodes
<1>3. "nodes" \in DOMAIN Child(out, id, parent)
  BY DEF Child, HasNodes
<1> QED
  BY <1>1, <1>2, <1>3 DEF HasNodes

(* Convert: one node given its place in the tree, with the account and     *)
(* region boxes of the target drawn for its root, if they are not yet.     *)
LEMMA ReparentList ==
  ASSUME NEW x, NEW i, NEW root, NEW out, HasNodes(out), x.target \in DOMAIN RootChain
  PROVE  HasNodes(Reparent(x, i, root, out))
<1> DEFINE all == WithChain(x, out, root)
<1>1. HasNodes(all)
  <2> DEFINE chain == RootChain[x.target]
  <2>1. IsList(chain)
    BY ConversionAssumption
  <2>2. PICK boxes : /\ boxes = [k \in DOMAIN chain |-> boxes[k]]
                     /\ root \notin out.roots =>
                          all = [nodes |-> out.nodes \o boxes, roots |-> out.roots \cup {root}]
    BY DEF WithChain
  <2>3. IsList(boxes)
    BY <2>1, <2>2, ListMap
  <2>4. IsList(out.nodes \o boxes)
    BY <2>3, ListConcat DEF HasNodes
  <2>5. root \in out.roots => all = out
    BY DEF WithChain
  <2> HIDE DEF all
  <2>6. CASE root \in out.roots
    BY <2>5, <2>6
  <2>7. CASE root \notin out.roots
    <3>1. \A s, r : IsList(s) => HasNodes([nodes |-> s, roots |-> r])
      BY DEF HasNodes
    <3> QED
      BY <2>2, <2>4, <2>7, <3>1
  <2> QED
    BY <2>6, <2>7
<1> HIDE DEF all
<1>2. \A id, parent : HasNodes(Child(out, id, parent)) /\ HasNodes(Child(all, id, parent))
  BY <1>1, ChildList
<1> QED
  BY <1>2 DEF Reparent, Place, all

(* The fold of Convert over its nodes, as far as n.                        *)
PlacedUpTo(x, order, n, f) ==
  f = [k \in 0 .. n |->
         IF k = 0 THEN [nodes |-> [m \in DOMAIN order |-> Copy(x, order[m])], roots |-> {}]
         ELSE Reparent(x, order[k], RootOf(x, order[k]), f[k - 1])]

(* The fold over the nodes that ConvertedNodes chooses exists.             *)
LEMMA PlacedUpToExists ==
  ASSUME NEW x, NEW order
  PROVE  \A n \in Nat : \E f : PlacedUpTo(x, order, n, f)
<1> DEFINE T == {n \in Nat : \E f : PlacedUpTo(x, order, n, f)}
           begin == [nodes |-> [m \in DOMAIN order |-> Copy(x, order[m])], roots |-> {}]
           step(out, k) == Reparent(x, order[k], RootOf(x, order[k]), out)
           then(h, k) == IF k = 0 THEN begin ELSE step(h[k - 1], k)
<1> HIDE DEF begin, step
<1>0. ASSUME NEW n, NEW f
      PROVE  PlacedUpTo(x, order, n, f) <=> f = [k \in 0 .. n |-> then(f, k)]
  BY Zenon DEF PlacedUpTo, begin, step
<1>1. 0 \in T
  <2> DEFINE f == [k \in 0 .. 0 |-> begin]
  <2>1. f = [k \in 0 .. 0 |-> f[k]] /\ \A k \in 0 .. 0 : f[k] = then(f, k)
    OBVIOUS
  <2> HIDE DEF f
  <2>2. f = [k \in 0 .. 0 |-> then(f, k)]
    BY <2>1
  <2>3. PlacedUpTo(x, order, 0, f)
    BY <1>0, <2>2
  <2> QED
    BY <2>3
<1>2. ASSUME NEW n \in Nat, n \in T PROVE n + 1 \in T
  <2>1. PICK f : f = [k \in 0 .. n |-> then(f, k)]
    BY <1>0, <1>2
  <2> DEFINE g == [k \in 0 .. (n + 1) |-> IF k <= n THEN f[k] ELSE step(f[n], n + 1)]
  <2>2. ASSUME NEW k \in 0 .. (n + 1) PROVE g[k] = then(g, k)
    <3>1. CASE k \in 0 .. n
      <4>1. f[k] = then(f, k)
        BY <2>1, <3>1
      <4>2. g[k] = f[k] /\ (k # 0 => g[k - 1] = f[k - 1])
        BY <3>1
      <4> QED
        BY <4>1, <4>2
    <3>2. CASE k = n + 1
      BY <3>2
    <3> QED
      BY <2>2, <3>1, <3>2
  <2>3. g = [k \in 0 .. (n + 1) |-> g[k]]
    OBVIOUS
  <2> HIDE DEF g
  <2>4. g = [k \in 0 .. (n + 1) |-> then(g, k)]
    BY <2>2, <2>3
  <2>5. PlacedUpTo(x, order, n + 1, g)
    BY <1>0, <2>4
  <2> QED
    BY <2>5
<1> HIDE DEF T
<1>3. Nat \subseteq T
  BY <1>1, <1>2, Induction
<1> QED
  BY <1>3 DEF T

(* The nodes of a converted document are a list.                           *)
LEMMA ConvertList ==
  ASSUME NEW x, IsList(x.nodes), x.target \in DOMAIN RootChain
  PROVE  HasNodes(Convert(x))
<1> DEFINE order == KeptNodes(x)
           n == Len(order)
<1>1. n \in Nat /\ IsList(order)
  <2>1. IsList([i \in DOMAIN x.nodes |-> i])
    BY ListMap
  <2>2. IsList(order)
    BY <2>1, AmongFacts DEF KeptNodes
  <2> QED
    BY <2>2, ListDomain
<1>2. \E f : PlacedUpTo(x, order, n, f)
  BY <1>1, PlacedUpToExists
<1> DEFINE placed == CHOOSE f : PlacedUpTo(x, order, n, f)
<1>3. PlacedUpTo(x, order, n, placed)
  BY <1>2, Zenon
<1>4. ConvertedNodes(x) = placed[n].nodes
  BY Zenon DEF ConvertedNodes, PlacedUpTo
<1> DEFINE T == {k \in Nat : k <= n => HasNodes(placed[k])}
<1> HIDE DEF placed, order, n
<1>5. 0 \in T
  <2>1. placed[0] = [nodes |-> [m \in DOMAIN order |-> Copy(x, order[m])], roots |-> {}]
    BY <1>1, <1>3 DEF PlacedUpTo
  <2>2. IsList([m \in DOMAIN order |-> Copy(x, order[m])])
    BY <1>1, ListMap
  <2> QED
    BY <2>1, <2>2 DEF HasNodes
<1>6. ASSUME NEW k \in Nat, k \in T PROVE k + 1 \in T
  <2> SUFFICES ASSUME k + 1 <= n PROVE HasNodes(placed[k + 1])
    OBVIOUS
  <2>1. k + 1 \in 0 .. n /\ k + 1 # 0 /\ (k + 1) - 1 = k
    BY <1>1
  <2>2. placed[k + 1] = Reparent(x, order[k + 1], RootOf(x, order[k + 1]), placed[k])
    BY <1>3, <2>1 DEF PlacedUpTo
  <2>3. HasNodes(placed[k])
    BY <1>1, <1>6
  <2> QED
    BY <2>2, <2>3, ReparentList
<1> HIDE DEF T
<1>7. n \in T
  BY <1>1, <1>5, <1>6, Induction
<1>8. IsList(ConvertedNodes(x))
  BY <1>1, <1>4, <1>7 DEF T, HasNodes
<1> QED
  BY <1>8 DEF Convert, WithEdges, HasNodes

(* An edit of a diagram leaves its nodes a list.                           *)
LEMMA ChangesList ==
  ASSUME NEW d, HasNodes(d), NEW c \in Changes(d)
  PROVE  IsList(c.nodes)
<1>1. \A s : s = [k \in DOMAIN d.nodes |-> s[k]] => IsList(s)
  BY ListMap DEF HasNodes
<1>2. ASSUME NEW i \in DOMAIN d.nodes, NEW f, NEW x, c = [d EXCEPT !.nodes[i][f] = x]
      PROVE  IsList(c.nodes)
  <2>1. c.nodes = [d.nodes EXCEPT ![i][f] = x]
    BY <1>2 DEF HasNodes
  <2>2. c.nodes = [k \in DOMAIN d.nodes |-> c.nodes[k]]
    BY <2>1
  <2> QED
    BY <1>1, <2>2
<1>3. ASSUME NEW n, c = [d EXCEPT !.nodes = Append(@, n)]
      PROVE  IsList(c.nodes)
  <2>1. c.nodes = Append(d.nodes, n)
    BY <1>3 DEF HasNodes
  <2> QED
    BY <2>1, ListAppend DEF HasNodes
<1>4. ASSUME NEW i \in DOMAIN d.nodes, c = Without(d, i)
      PROVE  IsList(c.nodes)
  <2>1. c.nodes = SubSeq(d.nodes, 1, i - 1) \o SubSeq(d.nodes, i + 1, Len(d.nodes))
    BY <1>4 DEF Without, RemoveAt
  <2>2. i \in Int /\ Len(d.nodes) \in Int
    BY ListDomain DEF HasNodes
  <2>3. IsList(SubSeq(d.nodes, 1, i - 1)) /\ IsList(SubSeq(d.nodes, i + 1, Len(d.nodes)))
    BY <2>2, ListSubSeq
  <2> QED
    BY <2>1, <2>3, ListConcat
<1>5. ASSUME NEW x, c = [d EXCEPT !.edges = x]
      PROVE  IsList(c.nodes)
  BY <1>5 DEF HasNodes
<1>6. ASSUME NEW i \in DOMAIN d.nodes, c \in Moves(d, i) PROVE IsList(c.nodes)
  <2>1. \E x : c = [d EXCEPT !.nodes[i].parent = x]
    BY <1>6 DEF Moves
  <2> QED
    BY <1>2, <2>1
<1>7. ASSUME NEW i \in DOMAIN d.nodes, c \in Renames(d, i) PROVE IsList(c.nodes)
  <2>1. \E x : c = [d EXCEPT !.nodes[i].name = x]
    BY <1>7 DEF Renames
  <2> QED
    BY <1>2, <2>1
<1>8. ASSUME NEW i \in DOMAIN d.nodes, NEW p, c \in Settings(d, i, p) PROVE IsList(c.nodes)
  <2>1. \E x : c = [d EXCEPT !.nodes[i].props = x]
    BY <1>8 DEF Settings
  <2> QED
    BY <1>2, <2>1
<1>9. CASE c \in Additions(d)
  BY <1>3, <1>9 DEF Additions
<1>10. CASE c \in Removals(d)
  BY <1>4, <1>10 DEF Removals
<1>11. CASE c \in Wirings(d)
  BY <1>5, <1>11 DEF Wirings
<1> QED
  BY <1>6, <1>7, <1>8, <1>9, <1>10, <1>11 DEF Changes

-----------------------------------------------------------------------------
(* So do the passes of an import.                                          *)

(* A finite set put in some order is a list.                               *)
LEMMA SetToSeqList ==
  ASSUME NEW S, IsFiniteSet(S)
  PROVE  IsList(SetToSeq(S))
<1> DEFINE n == Cardinality(S)
<1>1. n \in Nat /\ ExistsBijection(1 .. n, S)
  BY FS_CardinalityType
<1>2. \E f \in [1 .. n -> S] : IsInjective(f)
  <2>1. PICK f : f \in Bijection(1 .. n, S)
    BY <1>1 DEF ExistsBijection
  <2>2. f \in [1 .. n -> S] /\ IsInjective(f)
    BY <2>1 DEF Bijection, Injection, IsInjective
  <2> QED
    BY <2>2
<1>3. SetToSeq(S) \in [1 .. n -> S]
  BY <1>2 DEF SetToSeq
<1> HIDE DEF n
<1>4. SetToSeq(S) \in Seq(S)
  BY <1>1, <1>3
<1> QED
  BY <1>4, ListIn

(* Import: the groups asked for so far, a list.                            *)
LEMMA GroupedList ==
  ASSUME NEW out, IsList(out.groups), NEW k, NEW in, IsList(in.asked)
  PROVE  IsList(Grouped(out, k, in).groups)
<1>1. Grouped(out, k, in).groups = Ensure(out.groups, in.asked)
  BY DEF Grouped
<1> QED
  BY <1>1, AmongFacts, ListConcat DEF Ensure

(* Import: what a resource asks for, its account and perhaps its region.   *)
LEMMA InGroupsList ==
  ASSUME NEW by, NEW account, NEW region, NEW parents
  PROVE  IsList(InGroups(by, account, region, parents).asked)
<1> DEFINE inside == IF region # NoGroup /\ by[region[1], region[2]] \in parents
                     THEN region ELSE account
<1>1. IsList(<<account>>) /\ IsList(<<account, inside>>)
  <2>1. <<account>> \in Seq({account}) /\ <<account, inside>> \in Seq({account, inside})
    OBVIOUS
  <2> QED
    BY <2>1, ListIn
<1> QED
  BY <1>1, AmongFacts DEF InGroups

(* Import: what a resource asks for by its provider.                       *)
LEMMA GroupParentList ==
  ASSUME NEW by, NEW groups, NEW r, NEW e, NEW in \in GroupParent(by, groups, r, e)
  PROVE  IsList(in.asked)
<1>1. \E account, region : in = InGroups(by, account, region, e.parents)
  BY DEF GroupParent
<1> QED
  BY <1>1, InGroupsList

(* Nothing is a list.                                                      *)
LEMMA EmptyList == IsList(<<>>)
  BY DEF IsList

(* Import: what a resource asks for wherever it is put.                    *)
LEMMA PlacesList ==
  ASSUME NEW b, NEW out, NEW k, NEW in \in Places(b, out, k)
  PROVE  IsList(in.asked)
<1>1. CASE Attr(b.kept[k], ImportOf(b.nodes[k].type).parent) \in DOMAIN b.primary
  <2>1. in.asked = <<>>
    BY <1>1 DEF Places
  <2> QED
    BY <2>1, EmptyList
<1>2. CASE Attr(b.kept[k], ImportOf(b.nodes[k].type).parent) \notin DOMAIN b.primary
  BY <1>2, GroupParentList DEF Places
<1> QED
  BY <1>1, <1>2

(* Import: a resource placed, with the groups it needs.                    *)
LEMMA PlaceOneList ==
  ASSUME NEW b, NEW out, IsList(out.groups), NEW k, NEW next \in PlaceOne(b, out, k)
  PROVE  IsList(next.groups)
<1>1. PICK in \in Places(b, out, k) : next = OrElse(b, Grouped(out, k, in), k)
  BY DEF PlaceOne
<1> DEFINE g == Grouped(out, k, in)
<1>2. IsList(g.groups) /\ "groups" \in DOMAIN g
  <2>1. "groups" \in DOMAIN g
    BY DEF Grouped
  <2> QED
    BY <1>1, <2>1, PlacesList, GroupedList
<1> HIDE DEF g
<1>3. OrElse(b, g, k).groups = g.groups
  BY DEF OrElse
<1> QED
  BY <1>1, <1>2, <1>3 DEF g

(* Import: the placed resources and the groups made for them.              *)
LEMMA WithGroupsList ==
  ASSUME NEW b, IsList(b.nodes), NEW out, IsList(out.groups)
  PROVE  IsList(WithGroups(b, out))
<1> DEFINE s == [k \in DOMAIN b.nodes |-> [b.nodes[k] EXCEPT !.parent = out.parent[k]]]
           t == [k \in DOMAIN out.groups |-> GroupNode(b.by, out.groups[k])]
<1>1. IsList(s) /\ IsList(t)
  <2>1. s = [k \in DOMAIN b.nodes |-> s[k]] /\ t = [k \in DOMAIN out.groups |-> t[k]]
    OBVIOUS
  <2> HIDE DEF s, t
  <2> QED
    BY <2>1, ListMap
<1>2. WithGroups(b, out) = s \o t
  BY DEF WithGroups
<1> HIDE DEF s, t
<1> QED
  BY <1>1, <1>2, ListConcat

(* The fold of PlaceAll over the resources, as far as n.                   *)
PlacementsUpTo(b, order, n, f) ==
  f = [m \in 0 .. n |->
         IF m = 0 THEN {NoParents(b.nodes)}
         ELSE PlaceNext(b, f[m - 1], order[m])]

(* The fold over the resources that PlaceAll chooses exists.               *)
LEMMA PlacementsExist ==
  ASSUME NEW b, NEW order
  PROVE  \A n \in Nat : \E f : PlacementsUpTo(b, order, n, f)
<1> DEFINE T == {n \in Nat : \E f : PlacementsUpTo(b, order, n, f)}
           begin == {NoParents(b.nodes)}
           step(before, m) == PlaceNext(b, before, order[m])
           then(h, m) == IF m = 0 THEN begin ELSE step(h[m - 1], m)
<1> HIDE DEF begin, step
<1>0. ASSUME NEW n, NEW f
      PROVE  PlacementsUpTo(b, order, n, f) <=> f = [m \in 0 .. n |-> then(f, m)]
  BY Zenon DEF PlacementsUpTo, begin, step
<1>1. 0 \in T
  <2> DEFINE f == [m \in 0 .. 0 |-> begin]
  <2>1. f = [m \in 0 .. 0 |-> f[m]] /\ \A m \in 0 .. 0 : f[m] = then(f, m)
    OBVIOUS
  <2> HIDE DEF f
  <2>2. f = [m \in 0 .. 0 |-> then(f, m)]
    BY <2>1
  <2>3. PlacementsUpTo(b, order, 0, f)
    BY <1>0, <2>2
  <2> QED
    BY <2>3
<1>2. ASSUME NEW n \in Nat, n \in T PROVE n + 1 \in T
  <2>1. PICK f : f = [m \in 0 .. n |-> then(f, m)]
    BY <1>0, <1>2
  <2> DEFINE g == [m \in 0 .. (n + 1) |-> IF m <= n THEN f[m] ELSE step(f[n], n + 1)]
  <2>2. ASSUME NEW m \in 0 .. (n + 1) PROVE g[m] = then(g, m)
    <3>1. CASE m \in 0 .. n
      <4>1. f[m] = then(f, m)
        BY <2>1, <3>1
      <4>2. g[m] = f[m] /\ (m # 0 => g[m - 1] = f[m - 1])
        BY <3>1
      <4> QED
        BY <4>1, <4>2
    <3>2. CASE m = n + 1
      BY <3>2
    <3> QED
      BY <2>2, <3>1, <3>2
  <2>3. g = [m \in 0 .. (n + 1) |-> g[m]]
    OBVIOUS
  <2> HIDE DEF g
  <2>4. g = [m \in 0 .. (n + 1) |-> then(g, m)]
    BY <2>2, <2>3
  <2>5. PlacementsUpTo(b, order, n + 1, g)
    BY <1>0, <2>4
  <2> QED
    BY <2>5
<1> HIDE DEF T
<1>3. Nat \subseteq T
  BY <1>1, <1>2, Induction
<1> QED
  BY <1>3 DEF T

(* The order it takes them in: those the catalog knows how to import first. *)
PlacementOrder(b) ==
  LET all == [k \in DOMAIN b.kept |-> k]
      curated == {k \in DOMAIN b.kept : b.nodes[k].type \in DOMAIN Imports}
  IN  Among(all, curated) \o Among(all, Range(all) \ curated)

(* Import: all resources placed.                                           *)
LEMMA PlaceAllList ==
  ASSUME NEW b, HasNodes(b), IsList(b.kept), NEW c \in PlaceAll(b)
  PROVE  HasNodes(c)
<1> DEFINE order == PlacementOrder(b)
           n == Len(order)
<1>1. n \in Nat
  <2> DEFINE all == [k \in DOMAIN b.kept |-> k]
  <2>1. IsList(all)
    BY ListMap
  <2> HIDE DEF all
  <2>2. \A S, T : IsList(Among(all, S) \o Among(all, T))
    BY <2>1, AmongFacts, ListConcat
  <2>3. IsList(order)
    BY <2>2 DEF PlacementOrder, all
  <2> QED
    BY <2>3, ListDomain
<1>2. \E f : PlacementsUpTo(b, order, n, f)
  BY <1>1, PlacementsExist
<1> DEFINE placed == CHOOSE f : PlacementsUpTo(b, order, n, f)
<1>3. PlacementsUpTo(b, order, n, placed)
  BY <1>2, Zenon
<1>4. PlaceAll(b) = {[b EXCEPT !.nodes = WithGroups(b, out)] : out \in placed[n]}
  BY Zenon DEF PlaceAll, PlacementsUpTo, PlacementOrder
<1> DEFINE Good(m) == \A out \in placed[m] : IsList(out.groups)
           T == {m \in Nat : m <= n => Good(m)}
<1> HIDE DEF placed, order, n
<1>5. 0 \in T
  <2>1. placed[0] = {NoParents(b.nodes)}
    BY <1>1, <1>3 DEF PlacementsUpTo
  <2>2. IsList(NoParents(b.nodes).groups)
    BY EmptyList DEF NoParents
  <2> QED
    BY <2>1, <2>2
<1>6. ASSUME NEW m \in Nat, m \in T PROVE m + 1 \in T
  <2> SUFFICES ASSUME m + 1 <= n, NEW next \in placed[m + 1] PROVE IsList(next.groups)
    OBVIOUS
  <2>1. m + 1 \in 0 .. n /\ m + 1 # 0 /\ (m + 1) - 1 = m
    BY <1>1
  <2>2. placed[m + 1] = PlaceNext(b, placed[m], order[m + 1])
    BY <1>3, <2>1 DEF PlacementsUpTo
  <2>3. PICK out \in placed[m] : next \in PlaceOne(b, out, order[m + 1])
    BY <2>2 DEF PlaceNext
  <2>4. IsList(out.groups)
    BY <1>1, <1>6, <2>3
  <2> QED
    BY <2>3, <2>4, PlaceOneList
<1> HIDE DEF T
<1>7. n \in T
  BY <1>1, <1>5, <1>6, Induction
<1>8. PICK out \in placed[n] : c = [b EXCEPT !.nodes = WithGroups(b, out)]
  BY <1>4
<1>9. IsList(WithGroups(b, out))
  BY <1>1, <1>7, <1>8, WithGroupsList DEF T, HasNodes
<1> QED
  BY <1>8, <1>9 DEF HasNodes

(* Import: link resources taken out of the nodes and drawn as edges.       *)
LEMMA LinksToEdgesList ==
  ASSUME NEW d, HasNodes(d)
  PROVE  HasNodes(LinksToEdges(d))
<1> DEFINE lines == [k \in DOMAIN d.nodes |-> LinesOf(d.edges, d.nodes[k])]
           keep == Among([k \in DOMAIN d.nodes |-> k], {k \in DOMAIN d.nodes : lines[k] = {}})
           s == [k \in DOMAIN keep |-> d.nodes[keep[k]]]
<1>1. IsList([k \in DOMAIN d.nodes |-> k])
  BY ListMap DEF HasNodes
<1>2. IsList(keep)
  BY <1>1, AmongFacts
<1> HIDE DEF keep
<1>3. s = [k \in DOMAIN keep |-> s[k]]
  OBVIOUS
<1>4. LinksToEdges(d).nodes = s /\ "nodes" \in DOMAIN LinksToEdges(d)
  BY Zenon DEF LinksToEdges, keep
<1> HIDE DEF s
<1>5. IsList(s)
  BY <1>2, <1>3, ListMap
<1> QED
  BY <1>4, <1>5 DEF HasNodes

(* Import: nodes attached to the parents they were asked for.              *)
LEMMA AttachList ==
  ASSUME NEW d, HasNodes(d)
  PROVE  HasNodes(AttachToParents(d))
<1> DEFINE a == AttachToParents(d)
<1>1. a.nodes = [k \in DOMAIN d.nodes |-> a.nodes[k]] /\ "nodes" \in DOMAIN a
  BY DEF AttachToParents, HasNodes
<1> HIDE DEF a
<1>2. IsList(a.nodes)
  BY <1>1, ListMap DEF HasNodes
<1> QED
  BY <1>1, <1>2 DEF a, HasNodes

(* Import: the accounts and regions found again.                           *)
LEMMA RecoverList ==
  ASSUME NEW b, HasNodes(b)
  PROVE  HasNodes(Recover(b))
<1> DEFINE a == Recover(b)
<1>1. a.nodes = [k \in DOMAIN b.nodes |-> a.nodes[k]] /\ "nodes" \in DOMAIN a
  BY DEF Recover
<1> HIDE DEF a
<1>2. IsList(a.nodes)
  BY <1>1, ListMap DEF HasNodes
<1> QED
  BY <1>1, <1>2 DEF a, HasNodes

(* Import: the zones the nodes are in, put down with them.                 *)
LEMMA FindZonesList ==
  ASSUME NEW d, HasNodes(d)
  PROVE  HasNodes(FindZones(d))
<1> DEFINE zones == [zone |-> [k \in DOMAIN d.nodes |-> ZoneOf(d, d.nodes[k])]]
<1>1. DOMAIN zones = {"zone"}
  OBVIOUS
<1> HIDE DEF zones
<1>2. (d ++ zones).nodes = d.nodes /\ "nodes" \in DOMAIN (d ++ zones)
  BY DEF HasNodes, ++
<1> QED
  BY <1>2 DEF HasNodes, FindZones, zones

(* What the import keeps: resources and nodes, both in lists.              *)
IsBuilder(b) == HasNodes(b) /\ "kept" \in DOMAIN b /\ IsList(b.kept)

(* A builder begins with the resources kept and a node for each.           *)
LEMMA BuilderIs ==
  ASSUME NEW kept, IsList(kept), NEW nodes, IsList(nodes)
  PROVE  IsBuilder(Builder(kept, nodes))
  BY DEF IsBuilder, Builder, HasNodes

(* The builder of a Terraform state.                                       *)
LEMMA DrawingIs ==
  ASSUME NEW rs, IsList(rs)
  PROVE  IsBuilder(Drawing(WithType(rs)))
<1> DEFINE kept == WithType(rs)
           nodes == [k \in DOMAIN kept |-> StateNode(kept[k], TypeFor(kept[k].tf))]
<1>1. IsList(kept)
  BY AmongFacts DEF WithType
<1>2. nodes = [k \in DOMAIN kept |-> nodes[k]] /\ Drawing(kept) = Builder(kept, nodes)
  BY DEF Drawing
<1> HIDE DEF kept, nodes
<1>3. IsList(nodes)
  BY <1>1, <1>2, ListMap
<1> QED
  BY <1>1, <1>2, <1>3, BuilderIs DEF kept

(* The builder of a configuration.                                         *)
LEMMA HclDrawingIs ==
  ASSUME NEW rs, IsList(rs)
  PROVE  IsBuilder(HclDrawing(Declared(rs)))
<1> DEFINE kept == Declared(rs)
<1>1. IsList(kept)
  BY AmongFacts DEF Declared
<1>2. PICK nodes : /\ nodes = [k \in DOMAIN kept |-> nodes[k]]
                   /\ HclDrawing(kept) = Builder(kept, nodes)
  <2> DEFINE here == {<<kept[k].tf, kept[k].name>> : k \in DOMAIN kept}
             outside(r) == {a \in DOMAIN r.refs : r.refs[a] \notin here}
             props(r) == r.attrs ++ [a \in outside(r) |-> r.refs[a]]
             node(r) == [id |-> nodeId(GeneratedFor(r.tf), <<r.tf, r.name>>),
                         type |-> GeneratedFor(r.tf),
                         name |-> r.name, parent |-> "", props |-> props(r)]
             s == [k \in DOMAIN kept |-> node(kept[k])]
  <2>1. s = [k \in DOMAIN kept |-> s[k]]
    OBVIOUS
  <2>2. HclDrawing(kept) = Builder(kept, s)
    BY Zenon DEF HclDrawing
  <2> HIDE DEF s
  <2> QED
    BY <2>1, <2>2
<1> HIDE DEF kept
<1>3. IsList(nodes)
  BY <1>1, <1>2, ListMap
<1> QED
  BY <1>1, <1>2, <1>3, BuilderIs DEF kept

(* A builder that is given more is a builder.                              *)
LEMMA BuilderWith ==
  ASSUME NEW b, IsBuilder(b), NEW r
  PROVE  IsBuilder(b ++ r)
  BY DEF IsBuilder, HasNodes, ++

(* What a record has that is given the fields of another.                  *)
LEMMA Given ==
  ASSUME NEW b, NEW r, NEW f
  PROVE  /\ f \in DOMAIN (b ++ r) <=> f \in DOMAIN b \/ f \in DOMAIN r
         /\ f \in DOMAIN b => (b ++ r)[f] = b[f]
         /\ f \in DOMAIN r /\ f \notin DOMAIN b => (b ++ r)[f] = r[f]
  BY DEF ++

(* Import: the index from addresses to nodes is built beside the nodes.    *)
LEMMA WithPrimaryIs ==
  ASSUME NEW b, IsBuilder(b)
  PROVE  IsBuilder(WithPrimary(b))
<1> DEFINE idOf(k) == Attr(b.kept[k], ImportOf(b.nodes[k].type).id)
           last(v) == Max({k \in DOMAIN b.kept : idOf(k) = v})
           ids == {idOf(k) : k \in DOMAIN b.kept} \ {Unset}
           r1 == [primary |-> [v \in ids |-> b.nodes[last(v)].id]]
<1>0. WithPrimary(b) = b ++ r1 /\ DOMAIN r1 = {"primary"}
  BY DEF WithPrimary
<1> HIDE DEF r1
<1>1. \E r : WithPrimary(b) = b ++ r /\ DOMAIN r = {"primary"}
  BY <1>0
<1> QED
  BY <1>1, BuilderWith

(* Import: the zone boxes drawn.                                           *)
LEMMA DrawZonesList ==
  ASSUME NEW d, HasNodes(d)
  PROVE  HasNodes(DrawZones(d))
<1> DEFINE in(p) == UNION {d.zone[k] : k \in {m \in DOMAIN d.nodes : d.nodes[m].parent = p}}
           boxed(k) == d.zone[k] # {} /\ Cardinality(in(d.nodes[k].parent)) >= 2
           box(k) == LET z == CHOOSE x \in d.zone[k] : TRUE IN
                [id |-> zoneId(z[1], d.nodes[k].parent, z[2]), type |-> z[1], name |-> z[2],
                 parent |-> d.nodes[k].parent, props |-> ZoneProp(z[1]) :> z[2]]
           moved(k) == IF boxed(k) THEN [d.nodes[k] EXCEPT !.parent = box(k).id] ELSE d.nodes[k]
           K == {m \in DOMAIN d.nodes : boxed(m)}
           boxes == {box(k) : k \in K}
           s == [k \in DOMAIN d.nodes |-> moved(k)]
<1>1. DrawZones(d).nodes = s \o SetToSeq(boxes) /\ "nodes" \in DOMAIN DrawZones(d)
  BY Zenon DEF DrawZones
<1>2. IsFiniteSet(boxes)
  <2>1. IsFiniteSet(DOMAIN d.nodes)
    BY ListDomain, FS_Interval DEF HasNodes
  <2>2. IsFiniteSet(K)
    BY <2>1, FS_Subset
  <2> HIDE DEF box, K
  <2> DEFINE f == [k \in K |-> box(k)]
  <2>3. f \in Surjection(K, boxes)
    BY DEF Surjection
  <2> HIDE DEF f, boxes
  <2> QED
    BY <2>2, <2>3, FS_Surjection
<1>3. s = [k \in DOMAIN d.nodes |-> s[k]]
  OBVIOUS
<1> HIDE DEF boxes, s
<1>4. IsList(s) /\ IsList(SetToSeq(boxes))
  BY <1>2, <1>3, ListMap, SetToSeqList DEF HasNodes
<1> QED
  BY <1>1, <1>4, ListConcat DEF HasNodes

(* What is imported of a state has its nodes in a list.                    *)
LEMMA BuildList ==
  ASSUME NEW rs, IsList(rs), NEW d \in Build(rs)
  PROVE  HasNodes(d)
<1>1. PICK b \in PlaceAll(WithPrimary(Drawing(WithType(rs)))) :
        d = DrawZones(FindZones(AttachToParents(LinksToEdges(Recover(b)))))
  BY DEF Build, Then
<1>2. HasNodes(b)
  BY <1>1, DrawingIs, WithPrimaryIs, PlaceAllList DEF IsBuilder
<1>3. HasNodes(AttachToParents(LinksToEdges(Recover(b))))
  BY <1>2, RecoverList, LinksToEdgesList, AttachList
<1> QED
  BY <1>1, <1>3, FindZonesList, DrawZonesList

(* The fold of House over the provider blocks, as far as n.                *)
GroupsUpTo(b, n, f) ==
  f = [m \in 0 .. n |-> IF m = 0 THEN <<>> ELSE Ensure(f[m - 1], b.asked[m])]

(* The fold over the provider blocks that House chooses exists.            *)
LEMMA GroupsExist ==
  ASSUME NEW b
  PROVE  \A n \in Nat : \E f : GroupsUpTo(b, n, f)
<1> DEFINE T == {n \in Nat : \E f : GroupsUpTo(b, n, f)}
           begin == <<>>
           step(before, m) == Ensure(before, b.asked[m])
           then(h, m) == IF m = 0 THEN begin ELSE step(h[m - 1], m)
<1> HIDE DEF begin, step
<1>0. ASSUME NEW n, NEW f
      PROVE  GroupsUpTo(b, n, f) <=> f = [m \in 0 .. n |-> then(f, m)]
  BY Zenon DEF GroupsUpTo, begin, step
<1>1. 0 \in T
  <2> DEFINE f == [m \in 0 .. 0 |-> begin]
  <2>1. f = [m \in 0 .. 0 |-> f[m]] /\ \A m \in 0 .. 0 : f[m] = then(f, m)
    OBVIOUS
  <2> HIDE DEF f
  <2>2. f = [m \in 0 .. 0 |-> then(f, m)]
    BY <2>1
  <2>3. GroupsUpTo(b, 0, f)
    BY <1>0, <2>2
  <2> QED
    BY <2>3
<1>2. ASSUME NEW n \in Nat, n \in T PROVE n + 1 \in T
  <2>1. PICK f : f = [m \in 0 .. n |-> then(f, m)]
    BY <1>0, <1>2
  <2> DEFINE g == [m \in 0 .. (n + 1) |-> IF m <= n THEN f[m] ELSE step(f[n], n + 1)]
  <2>2. ASSUME NEW m \in 0 .. (n + 1) PROVE g[m] = then(g, m)
    <3>1. CASE m \in 0 .. n
      <4>1. f[m] = then(f, m)
        BY <2>1, <3>1
      <4>2. g[m] = f[m] /\ (m # 0 => g[m - 1] = f[m - 1])
        BY <3>1
      <4> QED
        BY <4>1, <4>2
    <3>2. CASE m = n + 1
      BY <3>2
    <3> QED
      BY <2>2, <3>1, <3>2
  <2>3. g = [m \in 0 .. (n + 1) |-> g[m]]
    OBVIOUS
  <2> HIDE DEF g
  <2>4. g = [m \in 0 .. (n + 1) |-> then(g, m)]
    BY <2>2, <2>3
  <2>5. GroupsUpTo(b, n + 1, g)
    BY <1>0, <2>4
  <2> QED
    BY <2>5
<1> HIDE DEF T
<1>3. Nat \subseteq T
  BY <1>1, <1>2, Induction
<1> QED
  BY <1>3 DEF T

(* The fold of House over the resources, as far as n.                      *)
HousesUpTo(b, groups, n, f) ==
  f = [k \in 0 .. n |->
         IF k = 0 THEN {[NoParents(b.nodes) EXCEPT !.groups = groups]}
         ELSE HouseNext(b, f[k - 1], k)]

(* The fold over the resources that House chooses exists.                  *)
LEMMA HousesExist ==
  ASSUME NEW b, NEW groups
  PROVE  \A n \in Nat : \E f : HousesUpTo(b, groups, n, f)
<1> DEFINE T == {n \in Nat : \E f : HousesUpTo(b, groups, n, f)}
           begin == {[NoParents(b.nodes) EXCEPT !.groups = groups]}
           step(before, m) == HouseNext(b, before, m)
           then(h, m) == IF m = 0 THEN begin ELSE step(h[m - 1], m)
<1> HIDE DEF begin, step
<1>0. ASSUME NEW n, NEW f
      PROVE  HousesUpTo(b, groups, n, f) <=> f = [m \in 0 .. n |-> then(f, m)]
  BY Zenon DEF HousesUpTo, begin, step
<1>1. 0 \in T
  <2> DEFINE f == [m \in 0 .. 0 |-> begin]
  <2>1. f = [m \in 0 .. 0 |-> f[m]] /\ \A m \in 0 .. 0 : f[m] = then(f, m)
    OBVIOUS
  <2> HIDE DEF f
  <2>2. f = [m \in 0 .. 0 |-> then(f, m)]
    BY <2>1
  <2>3. HousesUpTo(b, groups, 0, f)
    BY <1>0, <2>2
  <2> QED
    BY <2>3
<1>2. ASSUME NEW n \in Nat, n \in T PROVE n + 1 \in T
  <2>1. PICK f : f = [m \in 0 .. n |-> then(f, m)]
    BY <1>0, <1>2
  <2> DEFINE g == [m \in 0 .. (n + 1) |-> IF m <= n THEN f[m] ELSE step(f[n], n + 1)]
  <2>2. ASSUME NEW m \in 0 .. (n + 1) PROVE g[m] = then(g, m)
    <3>1. CASE m \in 0 .. n
      <4>1. f[m] = then(f, m)
        BY <2>1, <3>1
      <4>2. g[m] = f[m] /\ (m # 0 => g[m - 1] = f[m - 1])
        BY <3>1
      <4> QED
        BY <4>1, <4>2
    <3>2. CASE m = n + 1
      BY <3>2
    <3> QED
      BY <2>2, <3>1, <3>2
  <2>3. g = [m \in 0 .. (n + 1) |-> g[m]]
    OBVIOUS
  <2> HIDE DEF g
  <2>4. g = [m \in 0 .. (n + 1) |-> then(g, m)]
    BY <2>2, <2>3
  <2>5. HousesUpTo(b, groups, n + 1, g)
    BY <1>0, <2>4
  <2> QED
    BY <2>5
<1> HIDE DEF T
<1>3. Nat \subseteq T
  BY <1>1, <1>2, Induction
<1> QED
  BY <1>3 DEF T

(* A builder that knows the groups its provider blocks ask for.            *)
IsAsking(b) ==
  /\ IsBuilder(b) /\ "asked" \in DOMAIN b /\ IsList(b.asked)
  /\ \A m \in DOMAIN b.asked : IsList(b.asked[m])

(* The groups House begins with are a list: those of the provider blocks.  *)
LEMMA GroupsAreLists ==
  ASSUME NEW b, IsAsking(b)
  PROVE  \E groups : /\ IsList(groups)
                     /\ House(b) = LET housed[k \in 0 .. Len(b.kept)] ==
                                         IF k = 0 THEN {[NoParents(b.nodes) EXCEPT !.groups = groups]}
                                         ELSE HouseNext(b, housed[k - 1], k)
                                   IN  {[b EXCEPT !.nodes = WithGroups(b, out)] :
                                          out \in housed[Len(b.kept)]}
<1> DEFINE n == Len(b.asked)
<1>1. n \in Nat /\ DOMAIN b.asked = 1 .. n
  BY ListDomain DEF IsAsking
<1>2. \E f : GroupsUpTo(b, n, f)
  BY <1>1, GroupsExist
<1> DEFINE groups == CHOOSE f : GroupsUpTo(b, n, f)
<1>3. GroupsUpTo(b, n, groups)
  BY <1>2, Zenon
<1>4. House(b) = LET housed[k \in 0 .. Len(b.kept)] ==
                       IF k = 0 THEN {[NoParents(b.nodes) EXCEPT !.groups = groups[n]]}
                       ELSE HouseNext(b, housed[k - 1], k)
                 IN  {[b EXCEPT !.nodes = WithGroups(b, out)] : out \in housed[Len(b.kept)]}
  BY Zenon DEF House, GroupsUpTo
<1> DEFINE T == {m \in Nat : m <= n => IsList(groups[m])}
<1> HIDE DEF groups, n
<1>5. 0 \in T
  <2>1. groups[0] = <<>>
    BY <1>1, <1>3 DEF GroupsUpTo
  <2> QED
    BY <2>1, EmptyList
<1>6. ASSUME NEW m \in Nat, m \in T PROVE m + 1 \in T
  <2> SUFFICES ASSUME m + 1 <= n PROVE IsList(groups[m + 1])
    OBVIOUS
  <2>1. m + 1 \in 0 .. n /\ m + 1 # 0 /\ (m + 1) - 1 = m /\ m + 1 \in 1 .. n
    BY <1>1
  <2>2. groups[m + 1] = Ensure(groups[m], b.asked[m + 1])
    BY <1>3, <2>1 DEF GroupsUpTo
  <2>3. IsList(groups[m]) /\ IsList(b.asked[m + 1])
    BY <1>1, <1>6, <2>1 DEF IsAsking
  <2> QED
    BY <2>2, <2>3, AmongFacts, ListConcat DEF Ensure
<1> HIDE DEF T
<1>7. n \in T
  BY <1>1, <1>5, <1>6, Induction
<1>8. IsList(groups[n])
  BY <1>1, <1>7 DEF T
<1> QED
  BY <1>4, <1>8

(* Import: a resource of a configuration put in its group.                 *)
LEMMA HousesList ==
  ASSUME NEW b, NEW out, IsList(out.groups), NEW k, NEW next \in Houses(b, out, k)
  PROVE  IsList(next.groups)
<1>1. PICK in : IsList(in.asked) /\ next = Grouped(out, k, in)
  <2>1. CASE b.regions[k] = <<"", "">>
    <3>1. PICK in \in GroupParent(b.by, out.groups, [attrs |-> <<>>], b.e[k]) :
            next = Housed(out, k, in, Len(b.nodes))
      BY <2>1 DEF Houses
    <3>2. IsList(in.asked) /\ [in EXCEPT !.parent = ""].asked = in.asked
      <4>1. IsList(in.asked)
        BY <3>1, GroupParentList
      <4>2. PICK account, region : in = InGroups(b.by, account, region, b.e[k].parents)
        BY <3>1 DEF GroupParent
      <4>3. \E a, p : in = [asked |-> a, parent |-> p]
        BY <4>2, Zenon DEF InGroups
      <4> QED
        BY <4>1, <4>3
    <3>3. next \in {Grouped(out, k, [in EXCEPT !.parent = ""]), Grouped(out, k, in)}
      BY <3>1 DEF Housed
    <3> QED
      BY <3>2, <3>3
  <2>2. CASE b.regions[k] # <<"", "">>
    <3>1. \E p : next = Grouped(out, k, [asked |-> <<>>, parent |-> p])
      BY <2>2 DEF Houses
    <3>2. \A p : [asked |-> <<>>, parent |-> p].asked = <<>>
      OBVIOUS
    <3> QED
      BY <3>1, <3>2, EmptyList
  <2> QED
    BY <2>1, <2>2
<1> QED
  BY <1>1, GroupedList

(* Import: all resources of a configuration put in groups.                 *)
LEMMA HouseList ==
  ASSUME NEW b, IsAsking(b), NEW c \in House(b)
  PROVE  IsBuilder(c)
<1> DEFINE n == Len(b.kept)
<1>1. n \in Nat /\ IsList(b.nodes)
  BY ListDomain DEF IsAsking, IsBuilder, HasNodes
<1>2. PICK groups :
        /\ IsList(groups)
        /\ House(b) = LET housed[k \in 0 .. n] ==
                            IF k = 0 THEN {[NoParents(b.nodes) EXCEPT !.groups = groups]}
                            ELSE HouseNext(b, housed[k - 1], k)
                      IN  {[b EXCEPT !.nodes = WithGroups(b, out)] : out \in housed[n]}
  BY GroupsAreLists, Zenon
<1>3. \E f : HousesUpTo(b, groups, n, f)
  BY <1>1, HousesExist
<1> DEFINE housed == CHOOSE f : HousesUpTo(b, groups, n, f)
<1>4. HousesUpTo(b, groups, n, housed)
  BY <1>3, Zenon
<1>5. House(b) = {[b EXCEPT !.nodes = WithGroups(b, out)] : out \in housed[n]}
  BY <1>2, Zenon DEF HousesUpTo
<1> DEFINE Good(k) == \A out \in housed[k] : IsList(out.groups)
           T == {k \in Nat : k <= n => Good(k)}
<1> HIDE DEF housed, n
<1>6. 0 \in T
  <2>1. housed[0] = {[NoParents(b.nodes) EXCEPT !.groups = groups]}
    BY <1>1, <1>4 DEF HousesUpTo
  <2>2. [NoParents(b.nodes) EXCEPT !.groups = groups].groups = groups
    BY DEF NoParents
  <2> QED
    BY <1>2, <2>1, <2>2
<1>7. ASSUME NEW k \in Nat, k \in T PROVE k + 1 \in T
  <2> SUFFICES ASSUME k + 1 <= n, NEW next \in housed[k + 1] PROVE IsList(next.groups)
    OBVIOUS
  <2>1. k + 1 \in 0 .. n /\ k + 1 # 0 /\ (k + 1) - 1 = k
    BY <1>1
  <2>2. housed[k + 1] = HouseNext(b, housed[k], k + 1)
    BY <1>4, <2>1 DEF HousesUpTo
  <2>3. PICK out \in housed[k] : next \in Houses(b, out, k + 1)
    BY <2>2 DEF HouseNext
  <2>4. IsList(out.groups)
    BY <1>1, <1>7, <2>3
  <2> QED
    BY <2>3, <2>4, HousesList
<1> HIDE DEF T
<1>8. n \in T
  BY <1>1, <1>6, <1>7, Induction
<1>9. PICK out \in housed[n] : c = [b EXCEPT !.nodes = WithGroups(b, out)]
  BY <1>5
<1>10. IsList(WithGroups(b, out))
  BY <1>1, <1>8, <1>9, WithGroupsList DEF T
<1> QED
  BY <1>9, <1>10 DEF IsAsking, IsBuilder, HasNodes

(* Import: the groups and regions of the provider blocks looked up.        *)
LEMMA AskingIs ==
  ASSUME NEW b, IsBuilder(b), "asked" \notin DOMAIN b, "providers" \notin DOMAIN b,
         NEW ps, IsList(ps)
  PROVE  IsAsking(FindRegions(AskGroups(b ++ [providers |-> ps])))
<1> DEFINE r1 == [providers |-> ps]
           b1 == b ++ r1
           asked == [m \in DOMAIN b1.providers |-> BlockGroups(b1.by, b1.providers[m])]
           r2 == [asked |-> asked]
           b2 == b1 ++ r2
           regions == [k \in DOMAIN b2.kept |-> <<RegionOfBlock(b2, b2.e[k].provider, b2.kept[k].alias),
                                                  RegionOfBlock(b2, b2.e[k].provider, "")>>]
           r3 == [regions |-> regions]
<1>1. DOMAIN r1 = {"providers"} /\ r1.providers = ps
  OBVIOUS
<1> HIDE DEF r1
<1>2. IsBuilder(b1) /\ b1.providers = ps /\ "asked" \notin DOMAIN b1
  <2>1. IsBuilder(b1)
    BY BuilderWith
  <2>2. "providers" \in DOMAIN r1 /\ "asked" \notin DOMAIN r1
    BY <1>1
  <2> QED
    BY <1>1, <2>1, <2>2, Given
<1>3. AskGroups(b1) = b2
  BY Zenon DEF AskGroups
<1>4. asked = [m \in DOMAIN ps |-> asked[m]] /\ \A m \in DOMAIN asked : IsList(asked[m])
  <2>1. ASSUME NEW by, NEW p PROVE IsList(BlockGroups(by, p))
    <3>1. \E s, t, S : BlockGroups(by, p) = Among(<<s, t>>, S)
      BY Zenon DEF BlockGroups
    <3>2. \A s, t : IsList(<<s, t>>)
      <4>1. \A s, t : <<s, t>> \in Seq({s, t})
        OBVIOUS
      <4> QED
        BY <4>1, ListIn
    <3> QED
      BY <3>1, <3>2, AmongFacts
  <2> QED
    BY <1>2, <2>1
<1>5. IsList(asked)
  BY <1>4, ListMap
<1>6. DOMAIN r2 = {"asked"} /\ r2.asked = asked
  OBVIOUS
<1> HIDE DEF b1, asked, r2
<1>7. IsBuilder(b2) /\ b2.asked = asked /\ "asked" \in DOMAIN b2
  <2>1. IsBuilder(b2)
    BY <1>2, BuilderWith
  <2>2. "asked" \in DOMAIN r2
    BY <1>6
  <2> QED
    BY <1>2, <1>6, <2>1, <2>2, Given
<1>8. FindRegions(b2) = b2 ++ r3
  BY Zenon DEF FindRegions
<1>9. DOMAIN r3 = {"regions"}
  OBVIOUS
<1> HIDE DEF b2, r3
<1>10. IsBuilder(b2 ++ r3) /\ (b2 ++ r3).asked = asked /\ "asked" \in DOMAIN (b2 ++ r3)
  BY <1>7, BuilderWith, Given
<1>11. IsAsking(b2 ++ r3)
  BY <1>4, <1>5, <1>10 DEF IsAsking
<1> QED
  BY <1>3, <1>8, <1>11 DEF b1, r1

(* Import: the arguments of the provider blocks put on the groups.         *)
LEMMA ApplyArgsIs ==
  ASSUME NEW b, IsBuilder(b)
  PROVE  IsBuilder(ApplyArgs(b))
<1> DEFINE s == [k \in DOMAIN b.nodes |-> WithArgs(b.nodes[k], b.providers)]
<1>1. ApplyArgs(b) = [b EXCEPT !.nodes = s]
  BY DEF ApplyArgs, IsBuilder, HasNodes
<1>2. s = [k \in DOMAIN b.nodes |-> s[k]]
  OBVIOUS
<1> HIDE DEF s
<1>3. IsList(s)
  BY <1>2, ListMap DEF IsBuilder, HasNodes
<1> QED
  BY <1>1, <1>3 DEF IsBuilder, HasNodes

(* Import: the references drawn as edges, the nodes left alone.            *)
LEMMA HclReferencesList ==
  ASSUME NEW b, IsBuilder(b), NEW order
  PROVE  HasNodes(HclReferences(b, order))
<1>1. HclReferences(b, order).nodes = b.nodes /\ "nodes" \in DOMAIN HclReferences(b, order)
  BY DEF HclReferences
<1> QED
  BY <1>1 DEF IsBuilder, HasNodes

(* What is imported of a configuration has its nodes in a list.            *)
LEMMA BuildHCLList ==
  ASSUME NEW c, IsList(c.resources), IsList(c.providers), NEW d \in BuildHCL(c)
  PROVE  HasNodes(d)
<1> DEFINE drawn == HclDrawing(Declared(c.resources))
           homes == FindRegions(AskGroups(drawn ++ [providers |-> c.providers]))
<1>1. PICK b, order : b \in House(homes) /\
        d = AttachToParents(LinksToEdges(HclReferences(ApplyArgs(b), order)))
  BY DEF BuildHCL, InAnyOrder, Then
<1>2. IsBuilder(drawn) /\ "asked" \notin DOMAIN drawn /\ "providers" \notin DOMAIN drawn
  <2>1. IsBuilder(drawn)
    BY HclDrawingIs
  <2>2. \E kept, nodes : drawn = Builder(kept, nodes)
    BY Zenon DEF HclDrawing
  <2>3. DOMAIN drawn = {"kept", "nodes", "e", "by"}
    BY <2>2 DEF Builder
  <2> QED
    BY <2>1, <2>3
<1> HIDE DEF drawn
<1>3. IsAsking(homes)
  BY <1>2, AskingIs
<1> HIDE DEF homes
<1>4. IsBuilder(ApplyArgs(b))
  BY <1>1, <1>3, HouseList, ApplyArgsIs
<1> QED
  BY <1>1, <1>4, HclReferencesList, LinksToEdgesList, AttachList

-----------------------------------------------------------------------------
(* So does every handler.                                                  *)

(* A saved diagram has its nodes in a list.                                *)
LEMMA EncodeList ==
  ASSUME NEW d, IsList(d.nodes)
  PROVE  HasNodes(Encode(d))
<1> DEFINE s == Sorted(d.nodes)
<1>1. s = [k \in DOMAIN d.nodes |-> s[k]]
  BY DEF Sorted
<1>2. Encode(d).nodes = s /\ "nodes" \in DOMAIN Encode(d)
  BY DEF Encode
<1> HIDE DEF s
<1>3. IsList(s)
  BY <1>1, ListMap
<1> QED
  BY <1>2, <1>3 DEF HasNodes

(* The index of a diagram has its nodes and edges.                         *)
LEMMA IndexNodes ==
  ASSUME NEW d
  PROVE  Index(d).nodes = d.nodes /\ Index(d).edges = d.edges
  BY DEF Index, Lines, WithChains, ++

(* The diagrams to begin with have their nodes in a list.                  *)
LEMMA ListInit == Init => ListInv
  BY DiagramAssumption DEF Init, ListInv, HasNodes

(* What is converted is the diagram of the index, for the target asked     *)
(* for.                                                                    *)
LEMMA FatedNodes ==
  ASSUME NEW d, NEW t
  PROVE  Fated(Index(d), t).nodes = d.nodes /\ Fated(Index(d), t).target = t
<1> DEFINE x == Index(d)
           r == [target |-> t, fate |-> [i \in DOMAIN x.nodes |-> FateOf(x.nodes[i].type, t)]]
<1>1. x.nodes = d.nodes /\ "nodes" \in DOMAIN x /\ "target" \notin DOMAIN x
  BY DEF Index, Lines, WithChains, ++
<1>2. "target" \in DOMAIN r /\ r.target = t
  OBVIOUS
<1>3. Fated(x, t) = x ++ r
  BY DEF Fated
<1> HIDE DEF x, r
<1> QED
  BY <1>1, <1>2, <1>3, Given DEF x

(* Every handler leaves the nodes a list: edits, conversion and imports.   *)
LEMMA ListNext == ListInv /\ IndexInv /\ [Next]_vars => ListInv'
<1> SUFFICES ASSUME ListInv, IndexInv, [Next]_vars PROVE HasNodes(doc)'
  BY DEF ListInv
<1>1. CASE UNCHANGED doc
  BY <1>1 DEF ListInv, HasNodes
<1>2. CASE Get \/ Plan \/ Apply \/ UNCHANGED vars
  BY <1>1, <1>2 DEF Get, Plan, Apply, vars
<1>3. CASE Put
  <2>1. PICK c \in Changes(doc) : doc' = Encode(c)
    BY <1>3 DEF Put
  <2>2. IsList(c.nodes)
    BY ChangesList DEF ListInv
  <2> QED
    BY <2>1, <2>2, EncodeList
<1>4. CASE ConvertDoc
  <2> DEFINE x == Fated(index, Target)
  <2>1. index = Index(doc) /\ doc' = Encode(Convert(x))
    BY <1>4 DEF ConvertDoc, ConvertFrom, IndexInv
  <2>2. IsList(x.nodes) /\ x.target \in DOMAIN RootChain
    BY <2>1, FatedNodes, DiagramAssumption DEF ListInv, HasNodes
  <2>3. HasNodes(Convert(x))
    BY <2>2, ConvertList
  <2> QED
    BY <2>1, <2>3, EncodeList DEF HasNodes
<1>5. CASE Import
  <2>1. CASE ImportState
    <3>1. PICK s \in States : \E d \in Build(s) : doc' = Encode(d)
      BY <2>1 DEF ImportState, Then
    <3>2. PICK d \in Build(s) : doc' = Encode(d)
      BY <3>1
    <3>3. IsList(s)
      BY ImporterAssumption
    <3> QED
      BY <3>2, <3>3, BuildList, EncodeList DEF HasNodes
  <2>2. CASE ImportHCL
    <3>1. PICK c \in Configurations : \E d \in BuildHCL(c) : doc' = Encode(d)
      BY <2>2 DEF ImportHCL, Then
    <3>2. PICK d \in BuildHCL(c) : doc' = Encode(d)
      BY <3>1
    <3>3. IsList(c.resources) /\ IsList(c.providers)
      BY ImporterAssumption
    <3> QED
      BY <3>2, <3>3, BuildHCLList, EncodeList DEF HasNodes
  <2> QED
    BY <1>5, <2>1, <2>2 DEF Import
<1> QED
  BY <1>1, <1>2, <1>3, <1>4, <1>5 DEF Next

-----------------------------------------------------------------------------
(* The tree: looking up an id, walking up, the boxes above a node.         *)

(* Max of a nonempty set of numbers up to n is its greatest.               *)
LEMMA MaxOf ==
  ASSUME NEW n \in Nat, NEW S, S \subseteq 0 .. n, S # {}
  PROVE  Max(S) \in S /\ \A m \in S : m <= Max(S)
<1> DEFINE T == {n - m : m \in S}
<1>1. T \subseteq Nat /\ T # {}
  <2>1. \A m \in S : n - m \in Nat
    OBVIOUS
  <2>2. PICK m \in S : TRUE
    OBVIOUS
  <2>3. n - m \in T
    BY <2>2
  <2> QED
    BY <2>1, <2>3
<1>2. PICK t \in T : \A u \in T : t <= u
  BY <1>1, Least
<1>3. PICK m \in S : t = n - m
  BY <1>2
<1>4. \A k \in S : m >= k
  <2> TAKE k \in S
  <2>1. n - k \in T
    OBVIOUS
  <2>2. n - m <= n - k
    BY <1>2, <1>3, <2>1
  <2>3. n \in Nat /\ m \in Nat /\ k \in Nat
    OBVIOUS
  <2> QED
    BY <2>2, <2>3
<1>5. \E x \in S : \A y \in S : x >= y
  BY <1>4
<1>6. Max(S) \in S /\ \A y \in S : Max(S) >= y
  BY <1>5, Zenon DEF Max
<1> QED
  BY <1>6

(* Looking up an id: 0 when it is empty or of no node, else a node of that *)
(* id (the last of them, when there are several).                          *)
LEMMA NodeFacts ==
  ASSUME NEW d, IsList(d.nodes), NEW id
  PROVE  /\ Node(d, id) \in 0 .. Len(d.nodes)
         /\ Node(d, id) # 0 => id # "" /\ Node(d, id) \in DOMAIN d.nodes
                               /\ d.nodes[Node(d, id)].id = id
         /\ Node(d, id) = 0 => id = "" \/ \A i \in DOMAIN d.nodes : d.nodes[i].id # id
<1> DEFINE S == {0} \cup {i \in DOMAIN d.nodes : id # "" /\ d.nodes[i].id = id}
<1>1. Len(d.nodes) \in Nat /\ DOMAIN d.nodes = 1 .. Len(d.nodes)
  BY ListDomain
<1>2. S \subseteq 0 .. Len(d.nodes) /\ S # {}
  <2>1. 0 \in S /\ 0 \in 0 .. Len(d.nodes)
    BY <1>1
  <2>2. \A s \in S : s = 0 \/ s \in DOMAIN d.nodes
    OBVIOUS
  <2>3. \A s \in DOMAIN d.nodes : s \in 0 .. Len(d.nodes)
    BY <1>1
  <2> QED
    BY <2>1, <2>2, <2>3
<1>3. Max(S) \in S /\ \A m \in S : m <= Max(S)
  BY <1>1, <1>2, MaxOf
<1>4. Node(d, id) = Max(S)
  BY DEF Node
<1> HIDE DEF S
<1>5. Node(d, id) \in S /\ \A m \in S : m <= Node(d, id)
  BY <1>3, <1>4
<1>6. \A s \in S : s = 0 \/ (s \in DOMAIN d.nodes /\ id # "" /\ d.nodes[s].id = id)
  BY DEF S
<1>7. \A s \in DOMAIN d.nodes : id # "" /\ d.nodes[s].id = id => s \in S
  BY DEF S
<1>8. \A s \in DOMAIN d.nodes : s \in Nat /\ s >= 1
  BY <1>1
<1> QED
  <2>1. Node(d, id) \in 0 .. Len(d.nodes)
    BY <1>2, <1>5
  <2>2. Node(d, id) # 0 => id # "" /\ Node(d, id) \in DOMAIN d.nodes
                               /\ d.nodes[Node(d, id)].id = id
    BY <1>5, <1>6
  <2>3. ASSUME Node(d, id) = 0, id # "", NEW i \in DOMAIN d.nodes, d.nodes[i].id = id PROVE FALSE
    <3>1. i <= 0 /\ i \in Nat /\ i >= 1
      BY <1>5, <1>7, <1>8, <2>3
    <3> QED
      BY <3>1
  <2> QED
    BY <2>1, <2>2, <2>3

(* The first n steps of a walk up from i.                                  *)
WalkIs(up, i, n, w) == w = [k \in 0 .. n |-> IF k = 0 THEN i ELSE up[w[k - 1]]]

(* The walk up a tree that Walk chooses exists.                            *)
LEMMA WalkExists ==
  ASSUME NEW up, NEW i
  PROVE  \A n \in Nat : \E w : WalkIs(up, i, n, w)
<1> DEFINE T == {n \in Nat : \E w : WalkIs(up, i, n, w)}
<1>1. 0 \in T
  <2>1. WalkIs(up, i, 0, [k \in 0 .. 0 |-> i])
    BY DEF WalkIs
  <2> QED
    BY <2>1
<1>2. ASSUME NEW n \in Nat, n \in T PROVE n + 1 \in T
  <2>1. PICK f : WalkIs(up, i, n, f)
    BY <1>2
  <2> DEFINE g == [k \in 0 .. (n + 1) |-> IF k <= n THEN f[k] ELSE up[f[n]]]
             then(h, k) == IF k = 0 THEN i ELSE up[h[k - 1]]
  <2>2. ASSUME NEW k \in 0 .. (n + 1) PROVE g[k] = then(g, k)
    <3>1. CASE k \in 0 .. n
      <4>1. f[k] = then(f, k)
        BY <2>1, <3>1 DEF WalkIs
      <4>2. g[k] = f[k] /\ (k # 0 => g[k - 1] = f[k - 1])
        BY <3>1
      <4> QED
        BY <4>1, <4>2
    <3>2. CASE k = n + 1
      BY <3>2
    <3> QED
      BY <2>2, <3>1, <3>2
  <2>3. g = [k \in 0 .. (n + 1) |-> g[k]]
    OBVIOUS
  <2> HIDE DEF g
  <2>4. WalkIs(up, i, n + 1, g)
    BY <2>2, <2>3 DEF WalkIs
  <2> QED
    BY <2>4
<1> HIDE DEF T
<1>3. Nat \subseteq T
  BY <1>1, <1>2, Induction
<1> QED
  BY <1>3 DEF T

(* The walk up from a node: it begins there, every step goes to the        *)
(* parent, and it stays among the nodes and the canvas.                    *)
LEMMA WalkFacts ==
  ASSUME NEW d, IsList(d.nodes), NEW i \in DOMAIN d.nodes
  PROVE  LET w == Walk(d, Parents(d), i) IN
         /\ w[0] = i
         /\ \A k \in Steps(d) : k # 0 => w[k] = Parents(d)[w[k - 1]]
         /\ \A k \in Steps(d) : w[k] \in 0 .. Len(d.nodes)
<1> DEFINE n == 2 * Len(d.nodes) + 2
           up == Parents(d)
           w == Walk(d, up, i)
<1>1. Len(d.nodes) \in Nat /\ DOMAIN d.nodes = 1 .. Len(d.nodes) /\ n \in Nat
  BY ListDomain
<1>2. Steps(d) = 0 .. n
  BY DEF Steps
<1>3. \E f : WalkIs(up, i, n, f)
  BY <1>1, WalkExists
<1>4. w = CHOOSE f : WalkIs(up, i, n, f)
  BY Zenon DEF Walk, Steps, WalkIs
<1>5. WalkIs(up, i, n, w)
  BY <1>3, <1>4, Zenon
<1>6. \A j \in 0 .. Len(d.nodes) : up[j] \in 0 .. Len(d.nodes)
  BY <1>1, NodeFacts DEF Parents
<1> HIDE DEF n, w, up
<1>7. w[0] = i /\ \A k \in 0 .. n : k # 0 => w[k] = up[w[k - 1]]
  BY <1>1, <1>5 DEF WalkIs
<1> DEFINE T == {k \in Nat : k <= n => w[k] \in 0 .. Len(d.nodes)}
<1>8. 0 \in T
  BY <1>1, <1>7
<1>9. ASSUME NEW k \in Nat, k \in T PROVE k + 1 \in T
  <2> SUFFICES ASSUME k + 1 <= n PROVE w[k + 1] \in 0 .. Len(d.nodes)
    OBVIOUS
  <2>1. k + 1 \in 0 .. n /\ k + 1 # 0 /\ (k + 1) - 1 = k
    BY <1>1
  <2>2. w[k + 1] = up[w[k]] /\ w[k] \in 0 .. Len(d.nodes)
    BY <1>1, <1>7, <1>9, <2>1
  <2> QED
    BY <1>6, <2>2
<1> HIDE DEF T
<1>10. Nat \subseteq T
  BY <1>8, <1>9, Induction
<1>11. \A k \in 0 .. n : w[k] \in 0 .. Len(d.nodes)
  BY <1>1, <1>10 DEF T
<1> QED
  BY <1>2, <1>7, <1>11 DEF w, up

(* A chain is the walk as far as it meets new ids.                         *)
ChainShape(d, w, long) ==
  /\ Chain(d, w) = [k \in 1 .. long |-> w[k]]
  /\ \A m \in 1 .. long :
       /\ w[m] # 0
       /\ \A j \in 0 .. m - 1 : d.nodes[w[j]].id # d.nodes[w[m]].id
  /\ long < Len(d.nodes) /\ w[long + 1] # 0 =>
       \/ d.nodes[w[long + 1]].id = ""
       \/ \E j \in 0 .. long : d.nodes[w[j]].id = d.nodes[w[long + 1]].id

(* Every walk has such a chain.                                            *)
LEMMA ChainIs ==
  ASSUME NEW d, IsList(d.nodes), NEW w,
         \A k \in 0 .. Len(d.nodes) : w[k] \in 0 .. Len(d.nodes), w[0] # 0
  PROVE  \E long \in 0 .. Len(d.nodes) : ChainShape(d, w, long)
<1> DEFINE n == Len(d.nodes)
           id(k) == IF w[k] = 0 THEN "" ELSE d.nodes[w[k]].id
           fresh(k) == id(k) \notin {id(m) : m \in 0 .. k - 1} \cup {""}
           S == {k \in 0 .. n : \A m \in 1 .. k : fresh(m)}
           long == Max(S)
<1>1. n \in Nat
  BY ListDomain
<1>2. S \subseteq 0 .. n /\ 0 \in S
  <2> HIDE DEF fresh
  <2> QED
    BY <1>1
<1>3. long \in S /\ \A m \in S : m <= long
  <2> HIDE DEF S
  <2> QED
    BY <1>1, <1>2, MaxOf
<1>4. Chain(d, w) = SubSeq([k \in 1 .. n |-> w[k]], 1, long)
  BY Zenon DEF Chain
<1> HIDE DEF S, long
<1>5. long \in 0 .. n
  BY <1>2, <1>3
<1>6. Chain(d, w) = [k \in 1 .. long |-> w[k]]
  BY <1>1, <1>4, <1>5
<1>7. \A m \in 1 .. long : fresh(m)
  BY <1>3 DEF S
<1>8. \A m \in 1 .. long : w[m] # 0 /\ \A j \in 0 .. m - 1 : id(j) # id(m)
  BY <1>7
<1>9. \A m \in 1 .. long : \A j \in 0 .. m - 1 : w[j] # 0
  <2> SUFFICES ASSUME NEW m \in 1 .. long, NEW j \in 0 .. m - 1 PROVE w[j] # 0
    OBVIOUS
  <2>1. CASE j = 0
    BY <2>1
  <2>2. CASE j # 0
    <3>1. j \in 1 .. long
      BY <1>1, <1>5, <2>2
    <3> QED
      BY <1>8, <3>1
  <2> QED
    BY <2>1, <2>2
<1>10. \A m \in 1 .. long : \A j \in 0 .. m - 1 : d.nodes[w[j]].id # d.nodes[w[m]].id
  BY <1>8, <1>9
<1>11. ASSUME long < n, w[long + 1] # 0, d.nodes[w[long + 1]].id # "",
              \A j \in 0 .. long : d.nodes[w[j]].id # d.nodes[w[long + 1]].id
       PROVE  FALSE
  <2>1. ~fresh(long + 1)
    <3> SUFFICES ASSUME fresh(long + 1) PROVE FALSE
      OBVIOUS
    <3> HIDE DEF fresh
    <3>1. \A m \in 1 .. long + 1 : m \in 1 .. long \/ m = long + 1
      BY <1>1, <1>5
    <3>2. \A m \in 1 .. long + 1 : fresh(m)
      BY <1>7, <3>1
    <3>6. long < n
      BY <1>11
    <3>3. long + 1 \in 0 .. n
      BY <1>1, <1>5, <3>6
    <3>4. long + 1 \in S
      BY <3>2, <3>3 DEF S
    <3>5. long + 1 <= long
      BY <1>3, <3>4
    <3> QED
      BY <1>1, <1>5, <3>5
  <2>2. (long + 1) - 1 = long
    BY <1>1, <1>5
  <2>3. PICK j \in 0 .. long : id(long + 1) = id(j)
    BY <1>11, <2>1, <2>2
  <2>4. id(long + 1) = d.nodes[w[long + 1]].id
    BY <1>11
  <2>5. w[j] # 0
    BY <1>11, <2>3, <2>4
  <2> QED
    BY <1>11, <2>3, <2>4, <2>5
<1> HIDE DEF fresh, id
<1>12. ChainShape(d, w, long)
  BY <1>6, <1>8, <1>10, <1>11 DEF ChainShape
<1> QED
  BY <1>5, <1>12

(* The chain of a node of an indexed document, and what comes after it.    *)
ChainAt(d, i, w, long) ==
  /\ long \in Nat /\ long < Len(d.nodes)
  /\ Index(d).chain[i] = [k \in 1 .. long |-> w[k]]
  /\ w[0] = i
  /\ \A k \in 0 .. long : w[k] \in DOMAIN d.nodes
  /\ \A k \in 0 .. long : w[k + 1] = Node(d, d.nodes[w[k]].parent)
  /\ \A m \in 1 .. long : \A j \in 0 .. m - 1 : d.nodes[w[j]].id # d.nodes[w[m]].id
  /\ w[long + 1] # 0 => HasCycle(Index(d), i)

(* What an index has of a node: its walk, its chain, and above, the boxes  *)
(* of the chain that the generator counts.                                 *)
LEMMA IndexWalk ==
  ASSUME NEW d, NEW i \in DOMAIN d.nodes
  PROVE  LET x == Index(d) IN
         /\ x.walk[i] = Walk(d, Parents(d), i)
         /\ x.chain[i] = Chain(d, Walk(d, Parents(d), i))
         /\ x.above[i] = Among(x.chain[i], DOMAIN d.nodes \ x.drawn)
         /\ x.drawn = Drawn(d)
         /\ Steps(x) = Steps(d)
<1> DEFINE walk == Walks(d, Parents(d))
           drawn == Drawn(d)
           y == WithChains(d, walk, drawn)
           src == [k \in DOMAIN d.edges |-> Node(d, d.edges[k].source)]
           dst == [k \in DOMAIN d.edges |-> Node(d, d.edges[k].target)]
           x == Index(d)
<1>1. walk[i] = Walk(d, Parents(d), i)
  BY DEF Walks
<1> HIDE DEF walk, drawn
<1>2. /\ y.walk = walk /\ y.drawn = drawn /\ y.chain[i] = Chain(d, walk[i])
      /\ y.above[i] = Among(y.chain[i], DOMAIN d.nodes \ drawn) /\ y.nodes = d.nodes
      /\ {"walk", "drawn", "chain", "above", "nodes"} \subseteq DOMAIN y
  BY DEF WithChains
<1>3. x = Lines(y, src, dst)
  BY Zenon DEF Index, walk, drawn
<1> HIDE DEF y, src, dst
<1>4. x.walk = y.walk /\ x.drawn = y.drawn /\ x.chain = y.chain /\ x.above = y.above
  BY <1>2, <1>3 DEF Lines, ++
<1>5. Steps(x) = Steps(d)
  BY IndexNodes DEF Steps
<1> HIDE DEF x
<1> QED
  BY <1>1, <1>2, <1>4, <1>5 DEF drawn, x

(* Every node of an indexed document has such a chain: a chain is shorter  *)
(* than there are nodes, for its ids differ, and one that ends below the   *)
(* canvas ends at an id it met before.                                     *)
LEMMA ChainAtExists ==
  ASSUME NEW d, IsList(d.nodes), NEW i \in DOMAIN d.nodes
  PROVE  \E long : ChainAt(d, i, Index(d).walk[i], long)
<1> DEFINE n == Len(d.nodes)
           w == Walk(d, Parents(d), i)
           x == Index(d)
<1>1. n \in Nat /\ DOMAIN d.nodes = 1 .. n /\ Steps(d) = 0 .. (2 * n + 2)
  BY ListDomain DEF Steps
<1>2. x.walk[i] = w /\ x.chain[i] = Chain(d, w) /\ x.nodes = d.nodes
  BY IndexWalk, IndexNodes
<1>3. /\ w[0] = i
      /\ \A k \in Steps(d) : k # 0 => w[k] = Parents(d)[w[k - 1]]
      /\ \A k \in Steps(d) : w[k] \in 0 .. n
  BY WalkFacts
<1> HIDE DEF n, w, x
<1>4. \A k \in 0 .. n + 1 : w[k] \in 0 .. n
  BY <1>1, <1>3
<1>5. \A k \in 0 .. n : w[k] # 0 => w[k + 1] = Node(d, d.nodes[w[k]].parent)
  <2> SUFFICES ASSUME NEW k \in 0 .. n, w[k] # 0 PROVE w[k + 1] = Node(d, d.nodes[w[k]].parent)
    OBVIOUS
  <2>1. k + 1 \in Steps(d) /\ k + 1 # 0 /\ (k + 1) - 1 = k
    BY <1>1
  <2>2. w[k + 1] = Parents(d)[w[k]]
    BY <1>3, <2>1
  <2>3. w[k] \in 0 .. Len(d.nodes)
    BY <1>1, <1>4 DEF n
  <2> QED
    BY <2>2, <2>3 DEF Parents
<1>6. i # 0
  BY <1>1
<1>14. PICK long \in 0 .. n : ChainShape(d, w, long)
  <2>1. \A k \in 0 .. n : w[k] \in 0 .. n
    BY <1>1, <1>4
  <2>2. w[0] # 0
    BY <1>3, <1>6
  <2> QED
    BY <2>1, <2>2, ChainIs DEF n
<1>7. /\ Chain(d, w) = [k \in 1 .. long |-> w[k]]
      /\ \A m \in 1 .. long :
           /\ w[m] # 0
           /\ \A j \in 0 .. m - 1 : d.nodes[w[j]].id # d.nodes[w[m]].id
      /\ long < n /\ w[long + 1] # 0 =>
           \/ d.nodes[w[long + 1]].id = ""
           \/ \E j \in 0 .. long : d.nodes[w[j]].id = d.nodes[w[long + 1]].id
  BY <1>14 DEF ChainShape, n
<1>8. \A k \in 0 .. long : w[k] \in 1 .. n
  <2> SUFFICES ASSUME NEW k \in 0 .. long PROVE w[k] \in 1 .. n
    OBVIOUS
  <2>1. w[k] # 0
    <3>1. CASE k = 0
      BY <1>3, <1>6, <3>1
    <3>2. CASE k # 0
      <4>1. k \in 1 .. long
        BY <1>1, <3>2
      <4> QED
        BY <1>7, <4>1
    <3> QED
      BY <3>1, <3>2
  <2>2. w[k] \in 0 .. n
    BY <1>1, <1>4
  <2> QED
    BY <1>1, <2>1, <2>2
<1>9. long # n
  <2> SUFFICES ASSUME long = n PROVE FALSE
    OBVIOUS
  <2> DEFINE f == [k \in 0 .. n |-> w[k]]
  <2>1. f \in [0 .. n -> 1 .. n]
    BY <1>8
  <2> HIDE DEF f
  <2>2. IsFiniteSet(0 .. n) /\ IsFiniteSet(1 .. n) /\ Cardinality(1 .. n) < Cardinality(0 .. n)
    <3>1. n \in Nat
      BY <1>1
    <3> HIDE DEF n
    <3>2. IsFiniteSet(0 .. n) /\ Cardinality(0 .. n) = n + 1
      BY <3>1, FS_Interval
    <3>3. IsFiniteSet(1 .. n) /\ Cardinality(1 .. n) = n
      BY <3>1, FS_Interval
    <3> QED
      BY <3>1, <3>2, <3>3
  <2>3. PICK a, b \in 0 .. n : a # b /\ f[a] = f[b]
    BY <2>1, <2>2, FS_PigeonHole, Zenon
  <2>4. w[a] = w[b]
    BY <2>3 DEF f
  <2>5. CASE a < b
    <3>1. b \in 1 .. long /\ a \in 0 .. b - 1
      BY <1>1, <2>5
    <3> QED
      BY <1>7, <2>4, <3>1
  <2>6. CASE b < a
    <3>1. a \in 1 .. long /\ b \in 0 .. a - 1
      BY <1>1, <2>6
    <3> QED
      BY <1>7, <2>4, <3>1
  <2> QED
    BY <1>1, <2>3, <2>5, <2>6
<1>10. long \in Nat /\ long < n
  BY <1>1, <1>9
<1>11. \A k \in 0 .. long : w[k + 1] = Node(d, d.nodes[w[k]].parent)
  BY <1>1, <1>5, <1>8
<1>12. ASSUME w[long + 1] # 0 PROVE HasCycle(x, i)
  <2> DEFINE c == x.chain[i]
             path == <<i>> \o c
  <2>1. c = [k \in 1 .. long |-> w[k]] /\ long \in Nat
    BY <1>2, <1>7, <1>10
  <2> HIDE DEF c
  <2>2. IsList(c) /\ Len(c) = long
    <3>1. c = [k \in 1 .. long |-> c[k]]
      BY <2>1
    <3> QED
      BY <2>1, <3>1, ListOf
  <2>3. path = [k \in 1 .. long + 1 |-> w[k - 1]]
    <3>1. <<i>> \in Seq({i} \cup Range(c)) /\ c \in Seq({i} \cup Range(c))
      <4>1. c \in Seq(Range(c))
        BY <2>2 DEF IsList
      <4> QED
        BY <4>1
    <3>2. path \in Seq({i} \cup Range(c)) /\ Len(path) = long + 1
      BY <2>2, <3>1
    <3>3. \A k \in 1 .. long + 1 : path[k] = w[k - 1]
      <4> SUFFICES ASSUME NEW k \in 1 .. long + 1 PROVE path[k] = w[k - 1]
        OBVIOUS
      <4>1. CASE k = 1
        BY <1>3, <2>2, <3>1, <4>1
      <4>2. CASE k # 1
        <5>1. k - 1 \in 1 .. long
          BY <2>1, <4>2
        <5>2. path[k] = c[k - 1]
          BY <2>1, <2>2, <3>1, <4>2, <5>1
        <5> QED
          BY <2>1, <5>1, <5>2
      <4> QED
        BY <4>1, <4>2
    <3>4. path = [k \in 1 .. long + 1 |-> path[k]]
      BY <2>1, <3>2
    <3> QED
      BY <3>3, <3>4
  <2>4. Len(path) = long + 1
    BY <2>1, <2>3
  <2> HIDE DEF path
  <2>5. \A k \in 1 .. long + 1 : path[k] = w[k - 1]
    BY <2>3
  <2>6. path[Len(path)] = w[long]
    BY <2>1, <2>4, <2>5
  <2>7. w[long + 1] = Node(d, d.nodes[w[long]].parent)
    BY <1>11, <2>1
  <2>8. d.nodes[w[long]].parent # "" /\ d.nodes[w[long + 1]].id = d.nodes[w[long]].parent
    <3> DEFINE p == d.nodes[w[long]].parent
    <3>1. w[long + 1] = Node(d, p) /\ Node(d, p) # 0
      BY <1>12, <2>7
    <3> HIDE DEF p
    <3>2. p # "" /\ d.nodes[Node(d, p)].id = p
      BY <3>1, NodeFacts
    <3> QED
      BY <3>1, <3>2 DEF p
  <2>9. PICK j \in 0 .. long : d.nodes[w[j]].id = d.nodes[w[long]].parent
    BY <1>7, <1>10, <1>12, <2>8
  <2>10. j + 1 \in DOMAIN path /\ path[j + 1] = w[j]
    BY <2>1, <2>3, <2>5
  <2>11. x.nodes[path[Len(path)]].parent = d.nodes[w[long]].parent
    BY <1>2, <2>6
  <2>12. x.nodes[path[j + 1]].id = d.nodes[w[long]].parent
    BY <1>2, <2>9, <2>10
  <2>13. x.nodes[path[Len(path)]].parent \in {x.nodes[path[k]].id : k \in DOMAIN path} \ {""}
    BY <2>8, <2>10, <2>11, <2>12
  <2> QED
    BY <2>13, Zenon DEF HasCycle, path, c
<1>13. ChainAt(d, i, w, long)
  BY <1>1, <1>2, <1>3, <1>7, <1>8, <1>10, <1>11, <1>12 DEF ChainAt, n, x
<1> QED
  BY <1>2, <1>13 DEF x

-----------------------------------------------------------------------------
(* Where the walks end.                                                    *)

(* A walk that never comes to the canvas goes round a cycle.               *)
LEMMA EndlessIsCycle ==
  ASSUME NEW d, IsList(d.nodes), NEW i \in DOMAIN d.nodes,
         \A k \in Steps(d) \ {0} : Index(d).walk[i][k] # 0
  PROVE  HasCycle(Index(d), i)
<1> DEFINE w == Index(d).walk[i]
<1>1. PICK long : ChainAt(d, i, w, long)
  BY ChainAtExists
<1> HIDE DEF w
<1>2. Len(d.nodes) \in Nat
  BY ListDomain
<1>3. long \in Nat /\ long < Len(d.nodes) /\ (w[long + 1] # 0 => HasCycle(Index(d), i))
  BY <1>1 DEF ChainAt
<1>4. long + 1 \in Steps(d) \ {0}
  BY <1>2, <1>3 DEF Steps
<1> QED
  BY <1>3, <1>4 DEF w

(* So where a walk of the validator does not end, a node contains itself.  *)
LEMMA HangIsCycle ==
  ASSUME NEW d, IsList(d.nodes), ~Ends(Index(d))
  PROVE  \E i \in DOMAIN d.nodes : HasCycle(Index(d), i)
<1> DEFINE x == Index(d)
<1>1. x.nodes = d.nodes /\ Steps(x) = Steps(d)
  BY IndexNodes DEF Steps
<1> HIDE DEF x
<1>2. PICK i \in DOMAIN d.nodes : \A k \in Steps(d) \ {0} : x.walk[i][k] # 0
  <2>1. CASE \E i \in Ranged(x) :
               {k \in Steps(x) \ {0} : x.walk[i][k] = 0 \/ RangeOf(x, x.walk[i][k]) # {}} = {}
    BY <1>1, <2>1 DEF Ranged
  <2>2. CASE \E i \in Collecting(x) : \E c \in Entry[x.nodes[i].type].collect :
               ~ClimbEnds(x, i, c.under)
    <3>1. PICK i \in Collecting(x) : \E depth : ~ClimbEnds(x, i, depth)
      BY <2>2
    <3>2. \A k \in Steps(x) : x.walk[i][k] # 0
      BY <3>1 DEF ClimbEnds
    <3> QED
      BY <1>1, <3>1, <3>2 DEF Collecting
  <2> QED
    BY <2>1, <2>2 DEF Ends, x
<1> QED
  BY <1>2, EndlessIsCycle DEF x

-----------------------------------------------------------------------------
(* What is generated, and the references in it.                            *)

(* What is generated, looked up.                                           *)
LEMMA GenerationIs ==
  ASSUME NEW d
  PROVE  LET g == Generation(Index(d))
             x == Index(d) IN
         /\ g.nodes = d.nodes /\ g.edges = d.edges
         /\ g.above = x.above /\ g.chain = x.chain
         /\ g.rule = x.rule /\ g.src = x.src /\ g.dst = x.dst
         /\ g.address = [i \in DOMAIN d.nodes |-> AddressOf(d.nodes[i])]
         /\ g.role = [i \in DOMAIN d.nodes |-> RoleOf(d.nodes[i].type)]
         /\ g.block = [o \in Owners(x, g.address) |->
                         IF o[1] = "node" THEN g.address[o[2]] ELSE LinkAddress(x, o[2])]
<1> DEFINE x == Index(d)
           address == [i \in DOMAIN d.nodes |-> AddressOf(d.nodes[i])]
           role == [i \in DOMAIN d.nodes |-> RoleOf(d.nodes[i].type)]
           aliased == Aliased(x, role)
           block == [o \in Owners(x, address) |->
                       IF o[1] = "node" THEN address[o[2]] ELSE LinkAddress(x, o[2])]
           r == [address |-> address, role |-> role, aliased |-> aliased, block |-> block]
           g == Generation(x)
<1>1. DOMAIN x = {"nodes", "edges", "walk", "drawn", "chain", "above", "given",
                  "src", "dst", "rule"}
  BY DEF Index, Lines, WithChains, ++
<1>2. x.nodes = d.nodes /\ x.edges = d.edges
  BY IndexNodes
<1>3. g = x ++ r
  BY <1>2 DEF Generation, WithBlocks
<1>4. /\ DOMAIN r = {"address", "role", "aliased", "block"}
      /\ r.address = address /\ r.role = role /\ r.block = block
  <2> HIDE DEF address, role, aliased, block
  <2> QED
    OBVIOUS
<1> HIDE DEF x, r, g
<1>5. /\ g.nodes = x.nodes /\ g.edges = x.edges /\ g.above = x.above /\ g.chain = x.chain
      /\ g.rule = x.rule /\ g.src = x.src /\ g.dst = x.dst
      /\ g.address = r.address /\ g.role = r.role /\ g.block = r.block
  BY <1>1, <1>3, <1>4 DEF ++
<1> HIDE DEF address, role, block
<1>6. g.address = address /\ g.role = role /\ g.block = block
  BY <1>4, <1>5
<1>7. g.nodes = d.nodes /\ g.edges = d.edges
  BY <1>2, <1>5
<1> QED
  BY <1>5, <1>6, <1>7 DEF g, x, address, role, block

(* The address of a node is one of the blocks.                             *)
LEMMA NodeBlocks ==
  ASSUME NEW d, NEW i \in DOMAIN d.nodes, AddressOf(d.nodes[i]) # NoAddress
  PROVE  AddressOf(d.nodes[i]) \in Blocks(Generation(Index(d)))
<1> DEFINE g == Generation(Index(d))
           x == Index(d)
<1>1. /\ g.address = [j \in DOMAIN d.nodes |-> AddressOf(d.nodes[j])]
      /\ g.block = [o \in Owners(x, g.address) |->
                      IF o[1] = "node" THEN g.address[o[2]] ELSE LinkAddress(x, o[2])]
  BY GenerationIs
<1> HIDE DEF g, x
<1>2. g.address[i] = AddressOf(d.nodes[i]) /\ i \in DOMAIN g.address
  BY <1>1
<1>3. <<"node", i>> \in Owners(x, g.address)
  BY <1>2 DEF Owners
<1>4. g.block[<<"node", i>>] = AddressOf(d.nodes[i]) /\ <<"node", i>> \in DOMAIN g.block
  BY <1>1, <1>2, <1>3
<1> QED
  BY <1>4 DEF Blocks, g

(* So a module has a block of its own, named by its id.                    *)
LEMMA ModuleBlocks ==
  ASSUME NEW d, NEW i \in DOMAIN d.nodes, RoleOf(d.nodes[i].type) = "module"
  PROVE  /\ AddressOf(d.nodes[i]) = <<"module", sanitize(d.nodes[i].id)>>
         /\ <<"module", sanitize(d.nodes[i].id)>> \in Blocks(Generation(Index(d)))
<1>1. AddressOf(d.nodes[i]) = <<"module", sanitize(d.nodes[i].id)>>
  BY DEF AddressOf
<1>2. <<"module", sanitize(d.nodes[i].id)>> # NoAddress
  BY DEF NoAddress
<1> QED
  BY <1>1, <1>2, NodeBlocks

(* The ends of an edge are the nodes of its ids, when there are any, and   *)
(* its rule is that of their types.                                        *)
LEMMA EndsAre ==
  ASSUME NEW d, IsList(d.nodes), NEW k \in DOMAIN d.edges
  PROVE  LET x == Index(d)
             e == d.edges[k] IN
         /\ x.src[k] # 0 => x.src[k] \in DOMAIN d.nodes /\ d.nodes[x.src[k]].id = e.source
         /\ x.dst[k] # 0 => x.dst[k] \in DOMAIN d.nodes /\ d.nodes[x.dst[k]].id = e.target
         /\ x.rule[k] = IF 0 \in {x.src[k], x.dst[k]} THEN NoRule
                        ELSE Connection(d.nodes[x.src[k]].type, d.nodes[x.dst[k]].type)
<1> DEFINE x == Index(d)
           y == WithChains(d, Walks(d, Parents(d)), Drawn(d))
           src == [m \in DOMAIN d.edges |-> Node(d, d.edges[m].source)]
           dst == [m \in DOMAIN d.edges |-> Node(d, d.edges[m].target)]
<1>1. src[k] = Node(d, d.edges[k].source) /\ dst[k] = Node(d, d.edges[k].target)
  OBVIOUS
<1>2. y.nodes = d.nodes /\ y.edges = d.edges /\ DOMAIN y \cap {"src", "dst", "rule"} = {}
  BY DEF WithChains
<1>3. x = Lines(y, src, dst)
  BY Zenon DEF Index
<1> HIDE DEF x, y, src, dst
<1>4. /\ x.src = src /\ x.dst = dst
      /\ x.rule = [m \in DOMAIN d.edges |->
                     IF 0 \in {src[m], dst[m]} THEN NoRule
                     ELSE Connection(d.nodes[src[m]].type, d.nodes[dst[m]].type)]
  BY <1>2, <1>3 DEF Lines, ++
<1>5. x.src[k] # 0 => x.src[k] \in DOMAIN d.nodes /\ d.nodes[x.src[k]].id = d.edges[k].source
  <2> DEFINE p == d.edges[k].source
  <2>1. x.src[k] = Node(d, p)
    BY <1>1, <1>4
  <2> HIDE DEF p
  <2>2. Node(d, p) # 0 => Node(d, p) \in DOMAIN d.nodes /\ d.nodes[Node(d, p)].id = p
    BY NodeFacts
  <2> QED
    BY <2>1, <2>2 DEF p
<1>6. x.dst[k] # 0 => x.dst[k] \in DOMAIN d.nodes /\ d.nodes[x.dst[k]].id = d.edges[k].target
  <2> DEFINE p == d.edges[k].target
  <2>1. x.dst[k] = Node(d, p)
    BY <1>1, <1>4
  <2> HIDE DEF p
  <2>2. Node(d, p) # 0 => Node(d, p) \in DOMAIN d.nodes /\ d.nodes[Node(d, p)].id = p
    BY NodeFacts
  <2> QED
    BY <2>1, <2>2 DEF p
<1>7. x.rule[k] = IF 0 \in {x.src[k], x.dst[k]} THEN NoRule
                  ELSE Connection(d.nodes[x.src[k]].type, d.nodes[x.dst[k]].type)
  BY <1>4
<1> QED
  BY <1>5, <1>6, <1>7 DEF x

(* What a node of the tree has above it are nodes.                         *)
LEMMA AncestorsAre ==
  ASSUME NEW d, IsList(d.nodes), NEW i \in DOMAIN d.nodes, NEW depth,
         GenAncestorAt(Index(d), i, depth) # 0
  PROVE  GenAncestorAt(Index(d), i, depth) \in DOMAIN d.nodes
<1> DEFINE x == Index(d)
           w == x.walk[i]
           c == x.chain[i]
           a == x.above[i]
<1>1. PICK long : ChainAt(d, i, w, long)
  BY ChainAtExists
<1>2. a = Among(c, DOMAIN d.nodes \ x.drawn)
  BY IndexWalk
<1> HIDE DEF x, w, c, a
<1>3. c = [k \in 1 .. long |-> w[k]] /\ long \in Nat
  BY <1>1 DEF ChainAt, c, x
<1>4. IsList(c)
  <2>1. c = [k \in 1 .. long |-> c[k]]
    BY <1>3
  <2> QED
    BY <1>3, <2>1, ListOf
<1>5. Range(a) \subseteq DOMAIN d.nodes
  BY <1>2, <1>4, AmongFacts
<1>6. depth \in DOMAIN a /\ GenAncestorAt(x, i, depth) = a[depth]
  BY DEF GenAncestorAt, a, x
<1> QED
  BY <1>5, <1>6 DEF Range, x

(* An input taken from a container is put in a block and refers to one.    *)
LEMMA AboveResolves ==
  ASSUME NEW d, IsList(d.nodes), NEW i \in DOMAIN d.nodes, AddressOf(d.nodes[i]) # NoAddress,
         NEW r \in FromAbove(Generation(Index(d)), i)
  PROVE  {r.in, r.to} \subseteq Blocks(Generation(Index(d)))
<1> DEFINE g == Generation(Index(d))
           needs == Entry[g.nodes[i].type].needs
           anc(input) == GenAncestorAt(g, i, needs[input][1])
<1>1. /\ g.address = [j \in DOMAIN d.nodes |-> AddressOf(d.nodes[j])]
      /\ g.above = Index(d).above
  BY GenerationIs
<1>2. \A input : anc(input) = GenAncestorAt(Index(d), i, needs[input][1])
  BY <1>1 DEF GenAncestorAt
<1>3. PICK input : /\ anc(input) # 0 /\ g.address[anc(input)] # NoAddress
                   /\ r = Ref(g.address[i], input, g.address[anc(input)], needs[input][2])
  BY DEF FromAbove
<1>4. r.in = g.address[i] /\ r.to = g.address[anc(input)]
  BY <1>3 DEF Ref
<1>5. anc(input) \in DOMAIN d.nodes
  BY <1>2, <1>3, AncestorsAre
<1> HIDE DEF g, anc, needs
<1>6. r.in = AddressOf(d.nodes[i]) /\ r.to = AddressOf(d.nodes[anc(input)])
  BY <1>1, <1>4, <1>5
<1>7. AddressOf(d.nodes[anc(input)]) # NoAddress
  BY <1>1, <1>3, <1>5
<1> QED
  BY <1>5, <1>6, <1>7, NodeBlocks DEF g

(* An input gathered from below is put in a block and refers to one.       *)
LEMMA BelowResolves ==
  ASSUME NEW d, IsList(d.nodes), NEW i \in DOMAIN d.nodes, RoleOf(d.nodes[i].type) = "module",
         NEW r \in FromBelow(Generation(Index(d)), i)
  PROVE  {r.in, r.to} \subseteq Blocks(Generation(Index(d)))
<1> DEFINE g == Generation(Index(d))
<1>1. /\ g.address = [j \in DOMAIN d.nodes |-> AddressOf(d.nodes[j])]
      /\ g.nodes = d.nodes
  BY GenerationIs
<1> HIDE DEF g
<1>2. PICK c \in Entry[d.nodes[i].type].collect :
        \E j \in Collected(g, i, c) :
          r = Ref(g.address[i], c.input, <<"module", sanitize(g.nodes[j].id)>>, c.output)
  BY <1>1 DEF FromBelow, g
<1>3. PICK j \in Collected(g, i, c) :
        r = Ref(g.address[i], c.input, <<"module", sanitize(g.nodes[j].id)>>, c.output)
  BY <1>2
<1>4. r.in = AddressOf(d.nodes[i]) /\ r.to = <<"module", sanitize(d.nodes[j].id)>>
  BY <1>1, <1>3 DEF Ref
<1>5. j \in DOMAIN d.nodes /\ d.nodes[j].type = c.type
  BY <1>1, <1>3 DEF Collected
<1>6. d.nodes[i].type \in Types
  BY DEF RoleOf, Known
<1>7. RoleOf(d.nodes[j].type) = "module"
  BY <1>2, <1>5, <1>6, GenerationAssumption
<1> QED
  BY <1>4, <1>5, <1>7, ModuleBlocks DEF g

(* A rule with an input joins modules, and sets one end from the other.    *)
LEMMA RulesWire ==
  ASSUME NEW from, NEW to, Connection(from, to).input # Unset
  PROVE  /\ RoleOf(from) = "module" /\ RoleOf(to) = "module"
         /\ Connection(from, to).set \in {"from", "to"}
         /\ Connection(from, to).value \in {"from", "to"}
<1> DEFINE rule == Rule[from, to]
           isRule(r) == r \in Rules /\ r.from = from /\ r.to = to
<1>1. NoRule.input = Unset /\ Plain(Flow).input = Unset /\ Plain(Link).input = Unset
      /\ Plain(References).input = Unset
  BY DEF NoRule, Plain
<1>2. Known(from) /\ Known(to) /\ Connection(from, to) = rule
  BY <1>1 DEF Connection
<1>3. rule.input # Unset
  BY <1>2
<1>4. rule = RuleFor(from, to)
  BY <1>2 DEF Rule, Known
<1> HIDE DEF rule
<1>5. ASSUME \E r : isRule(r) PROVE isRule(rule)
  <2>1. rule = AuthoredRule(from, to)
    <3>1. \E r \in Rules : r.from = from /\ r.to = to
      BY <1>5
    <3>2. RuleFor(from, to) = AuthoredRule(from, to)
      BY <3>1 DEF RuleFor
    <3> QED
      BY <1>4, <3>2
  <2>2. isRule(AuthoredRule(from, to))
    BY <1>5, Zenon DEF AuthoredRule
  <2> QED
    BY <2>1, <2>2
<1>6. ASSUME ~\E r : isRule(r) PROVE FALSE
  <2>1. rule \in {NoRule, Plain(Flow), Plain(Link), Plain(References)}
    BY <1>4, <1>6 DEF RuleFor
  <2> QED
    BY <1>1, <1>3, <2>1
<1>7. isRule(rule)
  BY <1>5, <1>6
<1> HIDE DEF rule
<1>8. RoleOf(from) = "module" /\ RoleOf(to) = "module"
  BY <1>3, <1>7, GenerationAssumption
<1>9. rule.set \in {"from", "to"} /\ rule.value \in {"from", "to"}
  BY <1>3, <1>7, CatalogAssumption DEF WellFormed
<1> QED
  BY <1>2, <1>8, <1>9

(* What an edge wires by its rule is between blocks.                       *)
LEMMA RuleResolves ==
  ASSUME NEW d, IsList(d.nodes), NEW k \in DOMAIN d.edges,
         NEW r \in ByRule(Generation(Index(d)), d.edges[k], Index(d).rule[k])
  PROVE  {r.in, r.to} \subseteq Blocks(Generation(Index(d)))
<1> DEFINE x == Index(d)
           g == Generation(x)
           e == d.edges[k]
           rule == x.rule[k]
           from == d.nodes[x.src[k]].type
           to == d.nodes[x.dst[k]].type
<1>1. /\ x.src[k] # 0 => x.src[k] \in DOMAIN d.nodes /\ d.nodes[x.src[k]].id = e.source
      /\ x.dst[k] # 0 => x.dst[k] \in DOMAIN d.nodes /\ d.nodes[x.dst[k]].id = e.target
      /\ rule = IF 0 \in {x.src[k], x.dst[k]} THEN NoRule ELSE Connection(from, to)
  BY EndsAre
<1> HIDE DEF from, to, rule, e, g, x
<1>2. r \in ByRule(g, e, rule)
  BY DEF g, e, rule, x
<1>3. /\ rule.input # Unset /\ EndModule(e, rule.set) \in Blocks(g)
      /\ r = Ref(EndModule(e, rule.set), rule.input, EndModule(e, rule.value), Unset)
  BY <1>2 DEF ByRule
<1>4. NoRule.input = Unset
  BY DEF NoRule
<1>5. x.src[k] # 0 /\ x.dst[k] # 0 /\ rule = Connection(from, to)
  BY <1>1, <1>3, <1>4
<1>6. RoleOf(from) = "module" /\ RoleOf(to) = "module" /\ rule.value \in {"from", "to"}
  BY <1>3, <1>5, RulesWire
<1>7. <<"module", sanitize(e.source)>> \in Blocks(g)
  <2>1. <<"module", sanitize(d.nodes[x.src[k]].id)>> \in Blocks(g)
    BY <1>1, <1>5, <1>6, ModuleBlocks DEF from, g, x
  <2> QED
    BY <1>1, <1>5, <2>1
<1>8. <<"module", sanitize(e.target)>> \in Blocks(g)
  <2>1. <<"module", sanitize(d.nodes[x.dst[k]].id)>> \in Blocks(g)
    BY <1>1, <1>5, <1>6, ModuleBlocks DEF to, g, x
  <2> QED
    BY <1>1, <1>5, <2>1
<1>9. EndModule(e, rule.value) \in Blocks(g)
  BY <1>6, <1>7, <1>8 DEF EndModule
<1>10. r.in = EndModule(e, rule.set) /\ r.to = EndModule(e, rule.value)
  BY <1>3 DEF Ref
<1> QED
  BY <1>3, <1>9, <1>10 DEF g, x

(* A resource has an address, that of its Terraform type and name.         *)
LEMMA ResourceAddress ==
  ASSUME NEW n, RoleOf(n.type) = "resource"
  PROVE  /\ AddressOf(n) = <<Entry[n.type].tf, sanitize(n.name)>>
         /\ AddressOf(n) # NoAddress /\ Entry[n.type].tf # "module"
<1>1. AddressOf(n) = <<Entry[n.type].tf, sanitize(n.name)>>
  BY DEF AddressOf
<1>2. n.type \in Types /\ Entry[n.type].role = "resource"
  BY DEF RoleOf, Known
<1>3. Entry[n.type].tf \notin {"module", "none"}
  BY <1>2, GenerationAssumption
<1> QED
  BY <1>1, <1>3 DEF NoAddress

(* What an attribute refers to is a block, and so is what has the          *)
(* attribute.                                                              *)
LEMMA ReferenceResolves ==
  ASSUME NEW d, IsList(d.nodes), NEW k \in DOMAIN d.edges,
         NEW r \in ByReference(Generation(Index(d)), d.edges[k], Index(d).src[k], Index(d).dst[k])
  PROVE  {r.in, r.to} \subseteq Blocks(Generation(Index(d)))
<1> DEFINE x == Index(d)
           g == Generation(x)
           e == d.edges[k]
           s == x.src[k]
           t == x.dst[k]
<1>1. (s # 0 => s \in DOMAIN d.nodes) /\ (t # 0 => t \in DOMAIN d.nodes)
  BY EndsAre
<1>2. /\ g.address = [i \in DOMAIN d.nodes |-> AddressOf(d.nodes[i])]
      /\ g.role = [i \in DOMAIN d.nodes |-> RoleOf(d.nodes[i].type)]
  BY GenerationIs
<1> HIDE DEF g, x, e, s, t
<1>3. r \in ByReference(g, e, s, t)
  BY DEF g, x, e, s, t
<1>4. /\ s # 0 /\ t # 0 /\ g.role[s] = "resource" /\ g.address[t] # NoAddress
      /\ r = Ref(g.address[s], e.attr, g.address[t], Unset)
  BY <1>3 DEF ByReference
<1>5. /\ s \in DOMAIN d.nodes /\ t \in DOMAIN d.nodes
      /\ r.in = AddressOf(d.nodes[s]) /\ r.to = AddressOf(d.nodes[t])
      /\ RoleOf(d.nodes[s].type) = "resource" /\ AddressOf(d.nodes[t]) # NoAddress
  BY <1>1, <1>2, <1>4 DEF Ref
<1>6. AddressOf(d.nodes[s]) # NoAddress
  BY <1>5, ResourceAddress
<1> QED
  BY <1>5, <1>6, NodeBlocks DEF g, x

(* A link that becomes a resource is one, and refers to two.               *)
LEMMA LinkResolves ==
  ASSUME NEW d, IsList(d.nodes), NEW k \in DOMAIN d.edges,
         NEW r \in ByLink(Generation(Index(d)), k)
  PROVE  {r.in, r.to} \subseteq Blocks(Generation(Index(d)))
<1> DEFINE x == Index(d)
           g == Generation(x)
<1>1. /\ x.src[k] # 0 => x.src[k] \in DOMAIN d.nodes
      /\ x.dst[k] # 0 => x.dst[k] \in DOMAIN d.nodes
  BY EndsAre
<1>2. /\ g.address = [i \in DOMAIN d.nodes |-> AddressOf(d.nodes[i])]
      /\ DOMAIN g.block = Owners(x, g.address)
      /\ g.src = x.src /\ g.dst = x.dst
  BY GenerationIs
<1> HIDE DEF g, x
<1>3. <<"edge", k>> \in DOMAIN g.block
  BY DEF ByLink, g, x
<1>4. PICK i \in {x.src[k], x.dst[k]} : r = Ref(g.block[<<"edge", k>>], Unset, g.address[i], Unset)
  BY <1>2, <1>3 DEF ByLink, g, x
<1>5. r.in = g.block[<<"edge", k>>] /\ r.to = g.address[i]
  BY <1>4 DEF Ref
<1>6. BecomesBlock(x, g.address, k)
  BY <1>2, <1>3 DEF Owners
<1>7. i \in DOMAIN d.nodes /\ g.address[i] # NoAddress
  BY <1>1, <1>4, <1>6 DEF BecomesBlock
<1>8. g.address[i] \in Blocks(g)
  <2>1. g.address[i] = AddressOf(d.nodes[i])
    BY <1>2, <1>7
  <2> QED
    BY <1>7, <2>1, NodeBlocks DEF g, x
<1>9. r.in \in Blocks(g)
  BY <1>3, <1>5 DEF Blocks
<1> QED
  BY <1>5, <1>8, <1>9 DEF g, x

(* Every reference that is generated is between blocks that are.           *)
LEMMA RefsResolve ==
  ASSUME NEW d, IsList(d.nodes), NEW r \in Refs(Generation(Index(d)))
  PROVE  {r.in, r.to} \subseteq Blocks(Generation(Index(d)))
<1> DEFINE x == Index(d)
           g == Generation(x)
<1>1. /\ g.nodes = d.nodes /\ g.edges = d.edges
      /\ g.src = x.src /\ g.dst = x.dst /\ g.rule = x.rule
      /\ g.address = [i \in DOMAIN d.nodes |-> AddressOf(d.nodes[i])]
      /\ g.role = [i \in DOMAIN d.nodes |-> RoleOf(d.nodes[i].type)]
  BY GenerationIs
<1> HIDE DEF g, x
<1>2. CASE \E i \in DOMAIN g.nodes : g.address[i] # NoAddress /\ r \in FromAbove(g, i)
  BY <1>1, <1>2, AboveResolves DEF g, x
<1>3. CASE \E i \in DOMAIN g.nodes : g.role[i] = "module" /\ r \in FromBelow(g, i)
  BY <1>1, <1>3, BelowResolves DEF g, x
<1>4. CASE \E k \in DOMAIN g.edges : r \in RefsAlong(g, k)
  <2>1. PICK k \in DOMAIN d.edges : r \in RefsAlong(g, k)
    BY <1>1, <1>4
  <2>2. \/ r \in ByRule(g, d.edges[k], x.rule[k])
        \/ r \in ByReference(g, d.edges[k], x.src[k], x.dst[k])
        \/ r \in ByLink(g, k)
    BY <1>1, <2>1 DEF RefsAlong
  <2> QED
    BY <2>2, RuleResolves, ReferenceResolves, LinkResolves DEF g, x
<1>5. r \in Refs(g)
  BY DEF g, x
<1> QED
  BY <1>2, <1>3, <1>4, <1>5 DEF Refs, g, x

-----------------------------------------------------------------------------
(* What a diagram without errors is, and when two of its blocks meet.      *)

(* What a node of a diagram without errors is: of a known type, of an id   *)
(* and a name of its own, and in no cycle.                                 *)
LEMMA CleanNode ==
  ASSUME NEW x, Errors(Problems(x)) = {}, NEW i \in DOMAIN x.nodes
  PROVE  /\ Known(x.nodes[i].type)
         /\ \A j \in 1 .. i - 1 : x.nodes[j].id # x.nodes[i].id
         /\ x.nodes[i].name # "" /\ \A j \in 1 .. i - 1 : ~SameName(x, i, j)
         /\ ~HasCycle(x, i)
<1> DEFINE n == x.nodes[i]
           error(what) == NodeError(i, <<what>>)
           found == StructureOf(x, i)
<1>1. found \subseteq Problems(x)
  BY DEF Problems, Structure
<1>2. \A what : error(what) \notin found
  <2> SUFFICES ASSUME NEW what, error(what) \in found PROVE FALSE
    OBVIOUS
  <2>1. error(what).level = "error"
    BY DEF NodeError, Problem
  <2> HIDE DEF error, found
  <2> QED
    BY <1>1, <2>1 DEF Errors
<1>3. Known(n.type)
  <2> SUFFICES ASSUME ~Known(n.type) PROVE FALSE
    OBVIOUS
  <2>1. error("unknown type") \in found
    BY Zenon DEF StructureOf
  <2> QED
    BY <1>2, <2>1
<1>4. ASSUME NEW j \in 1 .. i - 1, x.nodes[j].id = n.id PROVE FALSE
  <2>1. error("duplicate id") \in found
    BY <1>4, Zenon DEF StructureOf, When
  <2> QED
    BY <1>2, <2>1
<1>5. ASSUME n.name = "" PROVE FALSE
  <2>1. error("needs a name") \in found
    BY <1>3, <1>5, Zenon DEF StructureOf, When
  <2> QED
    BY <1>2, <2>1
<1>6. ASSUME NEW j \in 1 .. i - 1, SameName(x, i, j) PROVE FALSE
  <2>1. error("name used") \in found
    BY <1>3, <1>5, <1>6, Zenon DEF StructureOf, When
  <2> QED
    BY <1>2, <2>1
<1>7. ~(n.parent # "" /\ Node(x, n.parent) = 0)
  <2> SUFFICES ASSUME n.parent # "", Node(x, n.parent) = 0 PROVE FALSE
    OBVIOUS
  <2>1. error("no parent") \in found
    BY <1>3, Zenon DEF StructureOf
  <2> QED
    BY <1>2, <2>1
<1>8. ASSUME HasCycle(x, i) PROVE FALSE
  <2>1. error("cycle") \in found
    BY <1>3, <1>7, <1>8, Zenon DEF StructureOf, When
  <2> QED
    BY <1>2, <2>1
<1> QED
  BY <1>3, <1>4, <1>5, <1>6, <1>8

(* Equal pairs have equal parts.                                           *)
LEMMA PairsEqual ==
  ASSUME NEW p, NEW q, NEW r, NEW s, <<p, q>> = <<r, s>>
  PROVE  p = r /\ q = s
  OBVIOUS

(* Two ids or names that sanitize makes one.                               *)
SameId(d) == \E a, b \in NamesOf(d) : a # b /\ sanitize(a) = sanitize(b)

(* Two nodes of a diagram without errors have one address only when names  *)
(* meet in sanitize, or their types in one Terraform type.                 *)
LEMMA NodesClash ==
  ASSUME NEW d, IsList(d.nodes), Errors(Problems(Index(d))) = {},
         NEW i \in DOMAIN d.nodes, NEW j \in 1 .. i - 1,
         AddressOf(d.nodes[i]) = AddressOf(d.nodes[j]), AddressOf(d.nodes[i]) # NoAddress
  PROVE  SameId(d) \/ SameResource(d.nodes[i], d.nodes[j])
<1> DEFINE x == Index(d)
           n == d.nodes[i]
           m == d.nodes[j]
<1>1. DOMAIN d.nodes = 1 .. Len(d.nodes) /\ Len(d.nodes) \in Nat
  BY ListDomain
<1>2. j \in DOMAIN d.nodes
  BY <1>1
<1>3. x.nodes = d.nodes
  BY IndexNodes
<1>4. /\ Known(n.type) /\ Known(m.type)
      /\ m.id # n.id /\ ~SameName(x, i, j)
  <2> HIDE DEF x
  <2>1. i \in DOMAIN x.nodes /\ j \in DOMAIN x.nodes /\ Errors(Problems(x)) = {}
    BY <1>2, <1>3 DEF x
  <2> QED
    BY <1>3, <2>1, CleanNode
<1>5. {n.id, m.id, n.name, m.name} \subseteq NamesOf(d)
  BY <1>2 DEF NamesOf
<1>6. RoleOf(n.type) \in {"module", "resource"} /\ RoleOf(m.type) \in {"module", "resource"}
  BY DEF AddressOf
<1>9. AddressOf(n) = AddressOf(m)
  OBVIOUS
<1> HIDE DEF x, n, m
<1>7. CASE RoleOf(n.type) = "module"
  <2>1. AddressOf(n) = <<"module", sanitize(n.id)>>
    BY <1>7 DEF AddressOf
  <2>2. RoleOf(m.type) # "resource"
    <3> SUFFICES ASSUME RoleOf(m.type) = "resource" PROVE FALSE
      OBVIOUS
    <3>1. AddressOf(m) = <<Entry[m.type].tf, sanitize(m.name)>> /\ Entry[m.type].tf # "module"
      BY ResourceAddress
    <3>2. <<"module", sanitize(n.id)>> = <<Entry[m.type].tf, sanitize(m.name)>>
      BY <1>9, <2>1, <3>1
    <3> QED
      BY <3>1, <3>2, PairsEqual, Zenon
  <2>3. AddressOf(m) = <<"module", sanitize(m.id)>>
    BY <1>6, <2>2 DEF AddressOf
  <2>4. sanitize(n.id) = sanitize(m.id)
    <3>1. <<"module", sanitize(n.id)>> = <<"module", sanitize(m.id)>>
      BY <1>9, <2>1, <2>3
    <3> QED
      BY <3>1, PairsEqual, Zenon
  <2> QED
    BY <1>4, <1>5, <2>4 DEF SameId
<1>8. CASE RoleOf(n.type) = "resource"
  <2>1. AddressOf(n) = <<Entry[n.type].tf, sanitize(n.name)>> /\ Entry[n.type].tf # "module"
    BY <1>8, ResourceAddress
  <2>2. RoleOf(m.type) # "module"
    <3> SUFFICES ASSUME RoleOf(m.type) = "module" PROVE FALSE
      OBVIOUS
    <3>1. AddressOf(m) = <<"module", sanitize(m.id)>>
      BY DEF AddressOf
    <3> QED
      BY <1>9, <2>1, <3>1, PairsEqual, Zenon
  <2>3. RoleOf(m.type) = "resource" /\ AddressOf(m) = <<Entry[m.type].tf, sanitize(m.name)>>
    BY <1>6, <2>2, ResourceAddress
  <2>4. Entry[n.type].tf = Entry[m.type].tf /\ sanitize(n.name) = sanitize(m.name)
    <3>1. <<Entry[n.type].tf, sanitize(n.name)>> = <<Entry[m.type].tf, sanitize(m.name)>>
      BY <1>9, <2>1, <2>3
    <3> QED
      BY <3>1, PairsEqual, Zenon
  <2>5. CASE n.name # m.name
    BY <1>5, <2>4, <2>5 DEF SameId
  <2>6. CASE n.name = m.name /\ n.type # m.type
    BY <1>8, <2>3, <2>4, <2>6 DEF SameResource, n, m
  <2>7. CASE n.name = m.name /\ n.type = m.type
    <3>1. x.nodes[i] = n /\ x.nodes[j] = m
      BY <1>3 DEF n, m
    <3>2. Entry[n.type].role = "resource"
      BY <1>4, <1>8 DEF RoleOf
    <3>3. Scope(x, i) = Scope(x, j)
      BY <2>7, <3>1, <3>2 DEF Scope
    <3>4. SameName(x, i, j)
      BY <1>4, <2>7, <3>1, <3>3 DEF SameName
    <3> QED
      BY <1>4, <3>4
  <2> QED
    BY <2>5, <2>6, <2>7
<1> QED
  BY <1>6, <1>7, <1>8 DEF n, m

(* The Terraform type of a link is that of a resource.                     *)
LEMMA LinkTypes ==
  ASSUME NEW from, NEW to, NEW id, Joins(from, to)
  PROVE  LinkFor(from, to, id).tf # "module"
<1> DEFINE all == Bindings[from, to]
           hits == Among(all, {l \in Range(all) : l.id = id})
<1>1. \E S : all = Among(Links, S)
  <2>1. all = Candidates(from, to)
    BY DEF Joins, Known, Bindings
  <2>2. \E S : Candidates(from, to) = Among(Links, S)
    BY Zenon DEF Candidates
  <2> QED
    BY <2>1, <2>2
<1>2. all # <<>>
  BY DEF Joins
<1>3. IsList(all) /\ Range(all) \subseteq Range(Links)
  <2> HIDE DEF all
  <2> QED
    BY <1>1, AmongFacts, GenerationAssumption
<1>4. LinkFor(from, to, id) = IF hits # <<>> THEN hits[1] ELSE all[1]
  BY Zenon DEF LinkFor
<1> HIDE DEF all
<1>5. IsList(hits) /\ Range(hits) \subseteq Range(all)
  BY <1>3, AmongFacts
<1> HIDE DEF hits
<1>6. ASSUME NEW s, IsList(s), s # <<>> PROVE s[1] \in Range(s)
  <2>1. Len(s) \in Nat /\ DOMAIN s = 1 .. Len(s)
    BY <1>6, ListDomain
  <2>2. Len(s) # 0
    BY <1>6 DEF IsList
  <2> QED
    BY <2>1, <2>2 DEF Range
<1>7. LinkFor(from, to, id) \in Range(Links)
  BY <1>2, <1>3, <1>4, <1>5, <1>6
<1> QED
  BY <1>7, GenerationAssumption

(* An owner of a block, and its block.                                     *)
NodeOwner(d, o, a) ==
  \E i \in DOMAIN d.nodes :
    o = <<"node", i>> /\ a = AddressOf(d.nodes[i]) /\ a # NoAddress

EdgeOwner(d, o, a) ==
  \E k \in DOMAIN d.edges :
    /\ o = <<"edge", k>> /\ d.edges[k].kind = Link
    /\ \E tf : tf # "module" /\ a = <<tf, sanitize(LinkName(d.edges[k]))>>

(* Every owner of a block is a node or a link edge.                        *)
LEMMA OwnerIs ==
  ASSUME NEW d, NEW o \in DOMAIN Generation(Index(d)).block
  PROVE  LET a == Generation(Index(d)).block[o] IN NodeOwner(d, o, a) \/ EdgeOwner(d, o, a)
<1> DEFINE x == Index(d)
           g == Generation(x)
<1>1. /\ g.address = [i \in DOMAIN d.nodes |-> AddressOf(d.nodes[i])]
      /\ g.block = [q \in Owners(x, g.address) |->
                      IF q[1] = "node" THEN g.address[q[2]] ELSE LinkAddress(x, q[2])]
  BY GenerationIs
<1>2. x.edges = d.edges /\ x.nodes = d.nodes
  BY IndexNodes
<1>3. o \in DOMAIN g.block
  OBVIOUS
<1> HIDE DEF x, g
<1>4. /\ o \in Owners(x, g.address)
      /\ g.block[o] = IF o[1] = "node" THEN g.address[o[2]] ELSE LinkAddress(x, o[2])
  BY <1>1, <1>3
<1>5. CASE \E i \in DOMAIN g.address : g.address[i] # NoAddress /\ o = <<"node", i>>
  <2>1. PICK i \in DOMAIN g.address : g.address[i] # NoAddress /\ o = <<"node", i>>
    BY <1>5
  <2>2. i \in DOMAIN d.nodes /\ g.address[i] = AddressOf(d.nodes[i])
    BY <1>1
  <2>3. g.block[o] = g.address[i]
    BY <1>4, <2>1
  <2> QED
    BY <2>1, <2>2, <2>3 DEF NodeOwner, g, x
<1>6. CASE \E k \in DOMAIN x.edges : BecomesBlock(x, g.address, k) /\ o = <<"edge", k>>
  <2>1. PICK k \in DOMAIN x.edges : BecomesBlock(x, g.address, k) /\ o = <<"edge", k>>
    BY <1>6
  <2> DEFINE l == LinkFor(x.nodes[x.src[k]].type, x.nodes[x.dst[k]].type, x.edges[k].type)
  <2>2. Joins(x.nodes[x.src[k]].type, x.nodes[x.dst[k]].type) /\ x.edges[k].kind = Link
    BY <2>1 DEF BecomesBlock
  <2>3. l.tf # "module"
    BY <2>2, LinkTypes
  <2>4. LinkAddress(x, k) = <<l.tf, sanitize(LinkName(x.edges[k]))>>
    BY DEF LinkAddress
  <2> HIDE DEF l
  <2>5. g.block[o] = LinkAddress(x, k)
    BY <1>4, <2>1
  <2>6. EdgeOwner(d, o, g.block[o])
    BY <1>2, <2>1, <2>2, <2>3, <2>4, <2>5 DEF EdgeOwner
  <2> QED
    BY <2>6 DEF g, x
<1> QED
  BY <1>4, <1>5, <1>6 DEF Owners

(* Two nodes that own one block.                                           *)
LEMMA NodesMeet ==
  ASSUME NEW d, IsList(d.nodes), Errors(Problems(Index(d))) = {},
         NEW o, NEW p, o # p, NEW a, NodeOwner(d, o, a), NodeOwner(d, p, a)
  PROVE  SameId(d) \/ \E i, j \in DOMAIN d.nodes : SameResource(d.nodes[i], d.nodes[j])
<1>1. PICK i \in DOMAIN d.nodes : o = <<"node", i>> /\ a = AddressOf(d.nodes[i]) /\ a # NoAddress
  BY DEF NodeOwner
<1>2. PICK j \in DOMAIN d.nodes : p = <<"node", j>> /\ a = AddressOf(d.nodes[j])
  BY DEF NodeOwner
<1>3. DOMAIN d.nodes = 1 .. Len(d.nodes) /\ Len(d.nodes) \in Nat
  BY ListDomain
<1>4. i # j
  BY <1>1, <1>2
<1>5. CASE j < i
  <2>1. j \in 1 .. i - 1
    BY <1>3, <1>5
  <2> QED
    BY <1>1, <1>2, <2>1, NodesClash
<1>6. CASE i < j
  <2>1. i \in 1 .. j - 1
    BY <1>3, <1>6
  <2> QED
    BY <1>1, <1>2, <2>1, NodesClash
<1> QED
  BY <1>3, <1>4, <1>5, <1>6

(* A link edge and another owner of one block.                             *)
LEMMA LinkMeets ==
  ASSUME NEW d, NEW o, NEW p, o # p, NEW a, EdgeOwner(d, o, a),
         NodeOwner(d, p, a) \/ EdgeOwner(d, p, a)
  PROVE  \E k \in DOMAIN d.edges : SharesName(d, k)
<1>1. PICK k \in DOMAIN d.edges :
        /\ o = <<"edge", k>> /\ d.edges[k].kind = Link
        /\ \E tf : tf # "module" /\ a = <<tf, sanitize(LinkName(d.edges[k]))>>
  BY DEF EdgeOwner
<1>2. PICK tf : tf # "module" /\ a = <<tf, sanitize(LinkName(d.edges[k]))>>
  BY <1>1
<1> DEFINE nodeNames == {sanitize(d.nodes[i].name) :
                          i \in {j \in DOMAIN d.nodes : RoleOf(d.nodes[j].type) = "resource"}}
           linkNames == {sanitize(LinkName(d.edges[m])) :
                          m \in {e \in DOMAIN d.edges \ {k} : d.edges[e].kind = Link}}
<1>3. CASE NodeOwner(d, p, a)
  <2>1. PICK i \in DOMAIN d.nodes : a = AddressOf(d.nodes[i]) /\ a # NoAddress
    BY <1>3 DEF NodeOwner
  <2>2. RoleOf(d.nodes[i].type) # "module"
    <3> SUFFICES ASSUME RoleOf(d.nodes[i].type) = "module" PROVE FALSE
      OBVIOUS
    <3>1. a = <<"module", sanitize(d.nodes[i].id)>>
      BY <2>1 DEF AddressOf
    <3>2. <<"module", sanitize(d.nodes[i].id)>> = <<tf, sanitize(LinkName(d.edges[k]))>>
      BY <1>2, <3>1
    <3> QED
      BY <1>2, <3>2, PairsEqual, Zenon
  <2>3. RoleOf(d.nodes[i].type) = "resource"
    BY <2>1, <2>2 DEF AddressOf
  <2>4. a = <<Entry[d.nodes[i].type].tf, sanitize(d.nodes[i].name)>>
    BY <2>1, <2>3, ResourceAddress
  <2>5. <<Entry[d.nodes[i].type].tf, sanitize(d.nodes[i].name)>>
          = <<tf, sanitize(LinkName(d.edges[k]))>>
    BY <1>2, <2>4
  <2>6. sanitize(LinkName(d.edges[k])) = sanitize(d.nodes[i].name)
    BY <2>5, PairsEqual, Zenon
  <2>7. sanitize(LinkName(d.edges[k])) \in nodeNames
    BY <2>3, <2>6
  <2> QED
    BY <1>1, <2>7 DEF SharesName
<1>4. CASE EdgeOwner(d, p, a)
  <2>1. PICK m \in DOMAIN d.edges :
          /\ p = <<"edge", m>> /\ d.edges[m].kind = Link
          /\ \E t : t # "module" /\ a = <<t, sanitize(LinkName(d.edges[m]))>>
    BY <1>4 DEF EdgeOwner
  <2>2. PICK t : a = <<t, sanitize(LinkName(d.edges[m]))>>
    BY <2>1
  <2>3. m # k
    BY <1>1, <2>1
  <2>4. <<t, sanitize(LinkName(d.edges[m]))>> = <<tf, sanitize(LinkName(d.edges[k]))>>
    BY <1>2, <2>2
  <2>5. sanitize(LinkName(d.edges[k])) = sanitize(LinkName(d.edges[m]))
    BY <2>4, PairsEqual, Zenon
  <2>6. sanitize(LinkName(d.edges[k])) \in linkNames
    BY <2>1, <2>3, <2>5
  <2> QED
    BY <1>1, <2>6 DEF SharesName
<1> QED
  BY <1>3, <1>4

(* What does not generate of a diagram without errors does so for its      *)
(* names: every type is known, so two owners have one block.               *)
LEMMA FailsForNames ==
  ASSUME NEW d, IsList(d.nodes), Errors(Problems(Index(d))) = {}, ~Generates(Generation(Index(d)))
  PROVE  \/ SameId(d)
         \/ \E k \in DOMAIN d.edges : SharesName(d, k)
         \/ \E i, j \in DOMAIN d.nodes : SameResource(d.nodes[i], d.nodes[j])
<1> DEFINE x == Index(d)
           g == Generation(x)
<1>1. g.nodes = d.nodes /\ x.nodes = d.nodes
  BY GenerationIs, IndexNodes
<1>2. ~Generates(g)
  OBVIOUS
<1>3. \A o \in DOMAIN g.block : NodeOwner(d, o, g.block[o]) \/ EdgeOwner(d, o, g.block[o])
  BY OwnerIs
<1>4. Errors(Problems(x)) = {}
  OBVIOUS
<1> HIDE DEF x, g
<1>5. \A i \in DOMAIN g.nodes : Known(g.nodes[i].type)
  BY <1>1, <1>4, CleanNode
<1>6. PICK o, p \in DOMAIN g.block : o # p /\ g.block[o] = g.block[p]
  BY <1>2, <1>5 DEF Generates, IsInjective
<1> QED
  BY <1>3, <1>4, <1>6, NodesMeet, LinkMeets DEF x

-----------------------------------------------------------------------------
(* The two climbs to an ancestor, and what is gathered below it.           *)

(* How many boxes that count a walk has passed: one more, or as many.      *)
LEMMA LevelStep ==
  ASSUME NEW x, NEW w, NEW k \in Nat
  PROVE  /\ Level(x, w, 0) = 0
         /\ Level(x, w, k) \in Nat
         /\ Level(x, w, k + 1) = IF w[k + 1] \notin x.drawn THEN Level(x, w, k) + 1
                                 ELSE Level(x, w, k)
<1> DEFINE S == {m \in 1 .. k : w[m] \notin x.drawn}
           T == {m \in 1 .. k + 1 : w[m] \notin x.drawn}
<1>1. Level(x, w, 0) = 0
  <2>1. {m \in 1 .. 0 : w[m] \notin x.drawn} = {}
    OBVIOUS
  <2> QED
    BY <2>1, FS_EmptySet DEF Level
<1>2. IsFiniteSet(S) /\ Cardinality(S) \in Nat
  <2>1. IsFiniteSet(1 .. k) /\ S \in SUBSET (1 .. k)
    BY FS_Interval
  <2> HIDE DEF S
  <2>2. IsFiniteSet(S)
    BY <2>1, FS_Subset
  <2> QED
    BY <2>2, FS_CardinalityType
<1>3. k + 1 \notin S
  OBVIOUS
<1>4. T = IF w[k + 1] \notin x.drawn THEN S \cup {k + 1} ELSE S
  OBVIOUS
<1>5. Level(x, w, k) = Cardinality(S) /\ Level(x, w, k + 1) = Cardinality(T)
  BY DEF Level
<1> HIDE DEF S, T
<1>6. Cardinality(S \cup {k + 1}) = Cardinality(S) + 1
  BY <1>2, <1>3, FS_AddElement
<1> QED
  BY <1>1, <1>2, <1>4, <1>5, <1>6

(* The k-th ancestor that counts is where the level becomes k.             *)
Counted(x, w, s, k) ==
  /\ IsList(s) /\ Len(s) = Level(x, w, k)
  /\ \A j \in 0 .. k : Level(x, w, j) <= Level(x, w, k)
  /\ \A depth \in 1 .. Level(x, w, k) : \E m \in 1 .. k :
       /\ s[depth] = w[m] /\ Level(x, w, m) >= depth
       /\ \A j \in 0 .. m - 1 : Level(x, w, j) < depth

(* The next step of the walk keeps that.                                   *)
LEMMA CountedStep ==
  ASSUME NEW x, NEW w, NEW k \in Nat, NEW s, Counted(x, w, s, k),
         NEW t, t = IF w[k + 1] \notin x.drawn THEN Append(s, w[k + 1]) ELSE s
  PROVE  Counted(x, w, t, k + 1)
<1> DEFINE L(j) == Level(x, w, j)
<1>1. \A j \in Nat : L(j) \in Nat
  BY LevelStep
<1>2. L(k + 1) = IF w[k + 1] \notin x.drawn THEN L(k) + 1 ELSE L(k)
  BY LevelStep
<1>3. /\ IsList(s) /\ Len(s) = L(k)
      /\ \A j \in 0 .. k : L(j) <= L(k)
      /\ \A depth \in 1 .. L(k) : \E m \in 1 .. k :
           s[depth] = w[m] /\ L(m) >= depth /\ \A j \in 0 .. m - 1 : L(j) < depth
  BY DEF Counted
<1>20. \A j \in 0 .. k : L(j) <= L(k)
  BY DEF Counted
<1> HIDE DEF L
<1>4. \A j \in 0 .. k + 1 : L(j) <= L(k + 1)
  <2> SUFFICES ASSUME NEW j \in 0 .. k + 1 PROVE L(j) <= L(k + 1)
    OBVIOUS
  <2>1. CASE j = k + 1
    BY <1>1, <2>1
  <2>2. CASE j \in 0 .. k
    <3>1. L(j) \in Nat /\ L(k) \in Nat /\ L(j) <= L(k)
      <4>1. j \in Nat
        BY <2>2
      <4>2. L(j) <= L(k)
        BY <1>20, <2>2
      <4> QED
        BY <1>1, <4>1, <4>2
    <3>2. L(k + 1) = L(k) + 1 \/ L(k + 1) = L(k)
      BY <1>2
    <3> DEFINE a == L(j)
               b == L(k)
               c == L(k + 1)
    <3>3. a \in Nat /\ b \in Nat /\ a <= b /\ (c = b + 1 \/ c = b)
      BY <3>1, <3>2
    <3> HIDE DEF a, b, c
    <3>4. a <= c
      BY <3>3
    <3> QED
      BY <3>4 DEF a, c
  <2> QED
    BY <2>1, <2>2
<1>5. CASE w[k + 1] \in x.drawn
  <2>1. t = s /\ L(k + 1) = L(k)
    BY <1>2, <1>5
  <2>2. \A depth \in 1 .. L(k) : \E m \in 1 .. k + 1 :
          s[depth] = w[m] /\ L(m) >= depth /\ \A j \in 0 .. m - 1 : L(j) < depth
    <3>1. 1 .. k \subseteq 1 .. k + 1
      OBVIOUS
    <3> QED
      BY <1>3, <3>1
  <2> QED
    BY <1>3, <1>4, <2>1, <2>2 DEF Counted, L
<1>6. CASE w[k + 1] \notin x.drawn
  <2>1. t = Append(s, w[k + 1]) /\ L(k + 1) = L(k) + 1 /\ L(k) \in Nat
    BY <1>1, <1>2, <1>6
  <2>2. /\ IsList(t) /\ Len(t) = L(k + 1)
        /\ t = [d \in 1 .. L(k) + 1 |-> IF d = L(k) + 1 THEN w[k + 1] ELSE s[d]]
    BY <1>3, <2>1, ListAppend
  <2>3. ASSUME NEW depth \in 1 .. L(k + 1)
        PROVE  \E m \in 1 .. k + 1 :
                 t[depth] = w[m] /\ L(m) >= depth /\ \A j \in 0 .. m - 1 : L(j) < depth
    <3>1. CASE depth = L(k) + 1
      <4>1. t[depth] = w[k + 1]
        BY <2>1, <2>2, <3>1
      <4>2. L(k + 1) >= depth
        BY <2>1, <3>1
      <4>3. ASSUME NEW j \in 0 .. (k + 1) - 1 PROVE L(j) < depth
        <5>1. j \in 0 .. k
          OBVIOUS
        <5>2. L(j) <= L(k)
          BY <1>3, <5>1
        <5>3. j \in Nat
          BY <5>1
        <5>4. L(j) \in Nat
          BY <1>1, <5>3
        <5> QED
          BY <2>1, <3>1, <5>2, <5>4
      <4>4. k + 1 \in 1 .. k + 1
        OBVIOUS
      <4> QED
        BY <4>1, <4>2, <4>3, <4>4
    <3>2. CASE depth \in 1 .. L(k)
      <4>1. PICK m \in 1 .. k : /\ s[depth] = w[m] /\ L(m) >= depth
                                /\ \A j \in 0 .. m - 1 : L(j) < depth
        BY <1>3, <3>2
      <4>2. t[depth] = s[depth]
        BY <2>1, <2>2, <3>2
      <4>3. m \in 1 .. k + 1
        OBVIOUS
      <4> QED
        BY <4>1, <4>2, <4>3
    <3>3. depth = L(k) + 1 \/ depth \in 1 .. L(k)
      BY <2>1
    <3> QED
      BY <3>1, <3>2, <3>3
  <2> QED
    BY <1>4, <2>2, <2>3 DEF Counted, L
<1> QED
  BY <1>5, <1>6

(* So above has the ancestors at the steps where their level is reached.   *)
LEMMA AboveIsCounted ==
  ASSUME NEW d, IsList(d.nodes), NEW i \in DOMAIN d.nodes, NEW long,
         ChainAt(d, i, Index(d).walk[i], long)
  PROVE  Counted(Index(d), Index(d).walk[i], Index(d).above[i], long)
<1> DEFINE x == Index(d)
           w == x.walk[i]
           c == x.chain[i]
           S == DOMAIN d.nodes \ x.drawn
<1>1. x.above[i] = Among(c, S)
  BY IndexWalk
<1> HIDE DEF x, w, c, S
<1>2. /\ c = [k \in 1 .. long |-> w[k]] /\ long \in Nat
      /\ \A k \in 0 .. long : w[k] \in DOMAIN d.nodes
  BY DEF ChainAt, x, w, c
<1>3. Len(c) = long
  <2>1. c = [k \in 1 .. long |-> c[k]]
    BY <1>2
  <2> QED
    BY <1>2, <2>1, ListOf
<1>4. PICK f : AmongUpTo(c, S, long, f) /\ x.above[i] = f[long]
  BY <1>1, <1>2, <1>3, AmongIsKept
<1> DEFINE T == {k \in Nat : k <= long => Counted(x, w, f[k], k)}
<1>5. 0 \in T
  <2>1. f[0] = <<>>
    BY <1>2, <1>4 DEF AmongUpTo
  <2>2. Level(x, w, 0) = 0
    BY LevelStep
  <2>3. IsList(<<>>) /\ Len(<<>>) = 0
    BY EmptyList
  <2>4. \A j \in 0 .. 0 : j = 0
    OBVIOUS
  <2>5. \A j \in 0 .. 0 : Level(x, w, j) <= Level(x, w, 0)
    BY <2>2, <2>4
  <2>6. \A depth \in 1 .. Level(x, w, 0) : FALSE
    BY <2>2
  <2>7. Counted(x, w, f[0], 0)
    BY <2>1, <2>2, <2>3, <2>5, <2>6 DEF Counted
  <2> QED
    BY <2>7
<1>6. ASSUME NEW k \in Nat, k \in T PROVE k + 1 \in T
  <2> SUFFICES ASSUME k + 1 <= long PROVE Counted(x, w, f[k + 1], k + 1)
    OBVIOUS
  <2>1. Counted(x, w, f[k], k)
    BY <1>2, <1>6
  <2>2. k + 1 \in 0 .. long /\ k + 1 # 0 /\ (k + 1) - 1 = k /\ k + 1 \in 1 .. long
    BY <1>2
  <2>3. f[k + 1] = IF c[k + 1] \in S THEN Append(f[k], c[k + 1]) ELSE f[k]
    BY <1>4, <2>2 DEF AmongUpTo
  <2>4. c[k + 1] = w[k + 1] /\ w[k + 1] \in DOMAIN d.nodes
    BY <1>2, <2>2
  <2>5. f[k + 1] = IF w[k + 1] \notin x.drawn THEN Append(f[k], w[k + 1]) ELSE f[k]
    BY <2>3, <2>4 DEF S
  <2> QED
    BY <2>1, <2>5, CountedStep
<1> HIDE DEF T
<1>7. long \in T
  BY <1>2, <1>5, <1>6, Induction
<1> QED
  BY <1>2, <1>4, <1>7 DEF T, x, w

(* The validator, who counts levels on the walk, and the generator, who    *)
(* takes them from above, come to the same ancestor.                       *)
LEMMA AncestorsAgree ==
  ASSUME NEW d, IsList(d.nodes), NEW i \in DOMAIN d.nodes, NEW depth,
         GenAncestorAt(Index(d), i, depth) # 0
  PROVE  AncestorAt(Index(d), i, depth) = GenAncestorAt(Index(d), i, depth)
<1> DEFINE x == Index(d)
           w == x.walk[i]
           a == x.above[i]
           L(k) == Level(x, w, k)
           there == {k \in Steps(x) : w[k] # 0 /\ L(k) >= depth}
           found == w[Min(there)]
<1>1. PICK long : ChainAt(d, i, w, long)
  BY ChainAtExists
<1>2. Counted(x, w, a, long)
  BY <1>1, AboveIsCounted
<1>3. Steps(x) = 0 .. 2 * Len(d.nodes) + 2 /\ Len(d.nodes) \in Nat
  BY IndexWalk, ListDomain DEF Steps
<1>4. depth \in DOMAIN a /\ GenAncestorAt(x, i, depth) = a[depth]
  BY DEF GenAncestorAt
<1>5. AncestorAt(x, i, depth) = IF there = {} THEN 0 ELSE IF found = i THEN 0 ELSE found
  BY Zenon DEF AncestorAt
<1>15. DOMAIN d.nodes = 1 .. Len(d.nodes)
  BY ListDomain
<1> HIDE DEF x, w, a, L, found, there
<1>6. /\ long \in Nat /\ long < Len(d.nodes) /\ w[0] = i
      /\ \A k \in 0 .. long : w[k] \in DOMAIN d.nodes
      /\ \A m \in 1 .. long : \A j \in 0 .. m - 1 : d.nodes[w[j]].id # d.nodes[w[m]].id
  BY <1>1 DEF ChainAt, w, x
<1>7. /\ IsList(a) /\ Len(a) = L(long)
      /\ \A e \in 1 .. L(long) : \E m \in 1 .. long :
           a[e] = w[m] /\ L(m) >= e /\ \A j \in 0 .. m - 1 : L(j) < e
  BY <1>2 DEF Counted, L
<1>8. depth \in 1 .. L(long)
  BY <1>4, <1>7, ListDomain
<1>9. PICK m \in 1 .. long : a[depth] = w[m] /\ L(m) >= depth /\ \A j \in 0 .. m - 1 : L(j) < depth
  BY <1>7, <1>8
<1>10. m \in Nat /\ m \in 0 .. long /\ m \in Steps(x)
  BY <1>3, <1>6
<1>11. w[m] # 0
  <2>1. w[m] \in 1 .. Len(d.nodes)
    BY <1>6, <1>10, <1>15
  <2> QED
    BY <2>1
<1>12. m \in there /\ there \subseteq Nat
  BY <1>3, <1>9, <1>10, <1>11 DEF there
<1>13. Min(there) = m
  <2>1. Min(there) \in there /\ Min(there) <= m
    BY <1>12, MinOf
  <2>2. Min(there) \in Nat
    BY <1>12, <2>1
  <2>3. L(Min(there)) >= depth
    BY <2>1 DEF there
  <2>4. \A j \in Nat : L(j) \in Nat
    BY LevelStep DEF L
  <2>5. ASSUME Min(there) # m PROVE FALSE
    <3>1. Min(there) \in 0 .. m - 1
      BY <1>10, <2>1, <2>2, <2>5
    <3>2. L(Min(there)) < depth
      BY <1>9, <3>1
    <3>3. L(Min(there)) \in Nat
      BY <2>2, <2>4
    <3>4. depth \in Nat
      <4>1. L(long) \in Nat
        BY <1>6, <2>4
      <4> QED
        BY <1>8, <4>1
    <3> QED
      BY <2>3, <3>2, <3>3, <3>4
  <2> QED
    BY <2>5
<1>14. w[m] # i
  <2>1. 0 \in 0 .. m - 1
    BY <1>6
  <2>2. d.nodes[w[0]].id # d.nodes[w[m]].id
    BY <1>6, <2>1
  <2> QED
    BY <1>6, <2>2
<1>16. found = w[m] /\ there # {}
  BY <1>12, <1>13 DEF found
<1> QED
  BY <1>4, <1>5, <1>9, <1>14, <1>16 DEF x

(* In a diagram without errors an id is of one node.                       *)
LEMMA OneNode ==
  ASSUME NEW d, IsList(d.nodes), Errors(Problems(Index(d))) = {},
         NEW i \in DOMAIN d.nodes, NEW j \in DOMAIN d.nodes, d.nodes[i].id = d.nodes[j].id
  PROVE  i = j
<1> DEFINE x == Index(d)
<1>1. DOMAIN d.nodes = 1 .. Len(d.nodes) /\ Len(d.nodes) \in Nat
  BY ListDomain
<1>2. x.nodes = d.nodes /\ Errors(Problems(x)) = {}
  BY IndexNodes
<1> HIDE DEF x
<1>3. \A k \in DOMAIN d.nodes : \A m \in 1 .. k - 1 : d.nodes[m].id # d.nodes[k].id
  BY <1>2, CleanNode
<1>4. CASE i < j
  <2>1. i \in 1 .. j - 1
    BY <1>1, <1>4
  <2> QED
    BY <1>3, <2>1
<1>5. CASE j < i
  <2>1. j \in 1 .. i - 1
    BY <1>1, <1>5
  <2> QED
    BY <1>3, <2>1
<1> QED
  BY <1>1, <1>4, <1>5

(* What the validator finds under an ancestor, going by ids and through    *)
(* every box, the generator finds there too, going by what is above.       *)
LEMMA UnderAgrees ==
  ASSUME NEW d, IsList(d.nodes), Errors(Problems(Index(d))) = {},
         NEW i \in DOMAIN d.nodes, NEW a \in Range(Index(d).above[i]),
         NEW j \in DOMAIN d.nodes, IsUnder(Index(d), j, a)
  PROVE  GenIsUnder(Index(d), j, a)
<1> DEFINE x == Index(d)
           wi == x.walk[i]
           ci == x.chain[i]
           wj == x.walk[j]
           cj == x.chain[j]
           S == DOMAIN d.nodes \ x.drawn
<1>1. PICK li : ChainAt(d, i, wi, li)
  BY ChainAtExists
<1>2. PICK lj : ChainAt(d, j, wj, lj)
  BY ChainAtExists
<1>3. x.above[i] = Among(ci, S) /\ x.above[j] = Among(cj, S)
  BY IndexWalk
<1>4. x.nodes = d.nodes
  BY IndexNodes
<1>16. \A n \in DOMAIN d.nodes : n # 0
  BY ListDomain
<1> HIDE DEF x, wi, ci, wj, cj, S
<1>5. /\ ci = [k \in 1 .. li |-> wi[k]] /\ li \in Nat
      /\ \A k \in 0 .. li : wi[k] \in DOMAIN d.nodes
      /\ \A k \in 0 .. li : wi[k + 1] = Node(d, d.nodes[wi[k]].parent)
  BY <1>1 DEF ChainAt, ci, x
<1>6. /\ cj = [k \in 1 .. lj |-> wj[k]] /\ lj \in Nat /\ wj[0] = j
      /\ \A k \in 0 .. lj : wj[k] \in DOMAIN d.nodes
      /\ \A k \in 0 .. lj : wj[k + 1] = Node(d, d.nodes[wj[k]].parent)
      /\ wj[lj + 1] # 0 => HasCycle(x, j)
  BY <1>2 DEF ChainAt, cj, x
<1>7. IsList(ci) /\ IsList(cj)
  <2>1. ci = [k \in 1 .. li |-> ci[k]] /\ cj = [k \in 1 .. lj |-> cj[k]]
    BY <1>5, <1>6
  <2> QED
    BY <1>5, <1>6, <2>1, ListOf
<1>8. a \in Range(ci) /\ a \in S
  BY <1>3, <1>7, AmongFacts DEF x
<1>9. PICK m \in 1 .. li : a = wi[m]
  BY <1>5, <1>8 DEF Range
<1>10. a \in DOMAIN d.nodes /\ d.nodes[a].id # ""
  <2>1. a \in DOMAIN d.nodes
    BY <1>8 DEF S
  <2>2. m - 1 \in 0 .. li /\ (m - 1) + 1 = m
    BY <1>5
  <2> DEFINE p == d.nodes[wi[m - 1]].parent
  <2>3. a = Node(d, p)
    BY <1>5, <1>9, <2>2
  <2> HIDE DEF p
  <2>4. Node(d, p) # 0
    <3>1. DOMAIN d.nodes = 1 .. Len(d.nodes) /\ Len(d.nodes) \in Nat
      BY ListDomain
    <3> QED
      BY <2>1, <2>3, <3>1
  <2>5. p # "" /\ d.nodes[Node(d, p)].id = p
    BY <2>4, NodeFacts
  <2> QED
    BY <2>1, <2>3, <2>5
<1>11. PICK k \in 0 .. lj : d.nodes[wj[k]].parent = d.nodes[a].id
  <2>1. PICK b \in {j} \cup {cj[n] : n \in DOMAIN cj} : d.nodes[b].parent = d.nodes[a].id
    BY <1>4 DEF IsUnder, cj, x
  <2>2. CASE b = j
    <3>1. 0 \in 0 .. lj /\ b = wj[0]
      BY <1>6, <2>2
    <3> QED
      BY <2>1, <3>1
  <2>3. CASE \E n \in DOMAIN cj : b = cj[n]
    <3>1. PICK n \in 1 .. lj : b = wj[n]
      BY <1>6, <2>3
    <3>2. n \in 0 .. lj
      BY <1>6
    <3> QED
      BY <2>1, <3>1, <3>2
  <2> QED
    BY <2>1, <2>2, <2>3
<1>12. wj[k + 1] = a
  <2> DEFINE p == d.nodes[a].id
  <2>1. wj[k + 1] = Node(d, p)
    BY <1>6, <1>11
  <2>2. p # "" /\ d.nodes[a].id = p
    BY <1>10
  <2> HIDE DEF p
  <2>3. Node(d, p) # 0
    BY <1>10, <2>2, NodeFacts
  <2>4. Node(d, p) \in DOMAIN d.nodes /\ d.nodes[Node(d, p)].id = p
    BY <2>3, NodeFacts
  <2> QED
    BY <1>10, <2>1, <2>2, <2>4, OneNode
<1>13. k # lj
  <2> SUFFICES ASSUME k = lj PROVE FALSE
    OBVIOUS
  <2>1. a # 0
    BY <1>10, <1>16
  <2>2. HasCycle(x, j)
    BY <1>6, <1>12, <2>1
  <2>3. j \in DOMAIN x.nodes /\ Errors(Problems(x)) = {}
    BY <1>4 DEF x
  <2> QED
    BY <2>2, <2>3, CleanNode
<1>14. a \in Range(cj)
  <2>1. k + 1 \in 1 .. lj
    BY <1>6, <1>13
  <2>2. k + 1 \in DOMAIN cj /\ cj[k + 1] = a
    BY <1>6, <1>12, <2>1
  <2> QED
    BY <2>2 DEF Range
<1>15. a \in Range(x.above[j])
  BY <1>3, <1>7, <1>8, <1>14, AmongFacts
<1> QED
  BY <1>15 DEF GenIsUnder, Range, x

(* A property has no more values on some nodes than there are nodes.       *)
LEMMA NoMoreValues ==
  ASSUME NEW x, NEW p, NEW S, IsFiniteSet(S)
  PROVE  /\ IsFiniteSet({Prop(x, j, p) : j \in S})
         /\ Cardinality({Prop(x, j, p) : j \in S}) <= Cardinality(S)
<1> DEFINE T == {Prop(x, j, p) : j \in S}
           f == [j \in S |-> Prop(x, j, p)]
<1>1. f \in Surjection(S, T)
  BY Zenon DEF Surjection
<1> HIDE DEF f
<1>2. IsFiniteSet(T) /\ Cardinality(T) <= Cardinality(S)
  <2> HIDE DEF T
  <2> QED
    BY <1>1, FS_Surjection
<1> QED
  BY <1>2

(* An element that the validator does not reject for too few has as many.  *)
LEMMA EnoughGathered ==
  ASSUME NEW d, IsList(d.nodes), Errors(Problems(Index(d))) = {},
         NEW i \in Collecting(Index(d)), NEW c \in Entry[d.nodes[i].type].collect,
         GenAncestorAt(Index(d), i, c.under) # 0
  PROVE  Cardinality(Collected(Index(d), i, c)) >= c.min
<1> DEFINE x == Index(d)
           anc == GenAncestorAt(x, i, c.under)
           found == Gathered(x, anc, c.type)
           counted == IF c.distinct = Unset THEN found ELSE {Prop(x, j, c.distinct) : j \in found}
           all == Collected(x, i, c)
<1>1. x.nodes = d.nodes /\ DOMAIN d.nodes = 1 .. Len(d.nodes) /\ Len(d.nodes) \in Nat
  BY IndexNodes, ListDomain
<1>2. i \in DOMAIN d.nodes /\ Known(d.nodes[i].type)
  BY <1>1 DEF Collecting
<1>3. c.min \in Nat
  BY <1>2, GenerationAssumption DEF Known
<1>4. AncestorAt(x, i, c.under) = anc /\ anc # 0
  BY <1>2, AncestorsAgree
<1>5. anc \in Range(x.above[i])
  BY <1>4 DEF GenAncestorAt, Range
<1>6. found \subseteq all
  <2> SUFFICES ASSUME NEW j \in found PROVE j \in all
    OBVIOUS
  <2>1. j \in DOMAIN d.nodes /\ d.nodes[j].type = c.type /\ IsUnder(x, j, anc)
    BY <1>1 DEF Gathered
  <2>2. GenIsUnder(x, j, anc)
    BY <1>2, <1>5, <2>1, UnderAgrees
  <2> QED
    BY <1>1, <1>4, <2>1, <2>2 DEF Collected
<1>7. all \subseteq 1 .. Len(d.nodes)
  BY <1>1 DEF Collected
<1>8. Below(x, i, c, anc) = (anc # 0 /\ Cardinality(counted) < c.min)
  BY Zenon DEF Below
<1>14. Errors(Problems(x)) = {} /\ x.nodes[i].type = d.nodes[i].type /\ i \in Collecting(x)
  BY <1>1
<1> HIDE DEF x, anc, found, all
<1>9. IsFiniteSet(all) /\ IsFiniteSet(found) /\ Cardinality(found) <= Cardinality(all)
  <2> DEFINE n == Len(d.nodes)
  <2>3. 1 \in Int /\ n \in Int
    BY <1>1
  <2> HIDE DEF n
  <2>1. IsFiniteSet(1 .. n)
    BY <2>3, FS_Interval, Zenon
  <2>2. IsFiniteSet(all)
    BY <1>7, <2>1, FS_Subset DEF n
  <2> QED
    BY <1>6, <2>2, FS_Subset
<1>10. IsFiniteSet(counted) /\ Cardinality(counted) <= Cardinality(found)
  <2>1. counted = found \/ counted = {Prop(x, j, c.distinct) : j \in found}
    OBVIOUS
  <2> HIDE DEF counted
  <2>2. Cardinality(found) \in Nat
    BY <1>9, FS_CardinalityType
  <2>3. CASE counted = found
    BY <1>9, <2>2, <2>3
  <2>4. CASE counted = {Prop(x, j, c.distinct) : j \in found}
    BY <1>9, <2>4, NoMoreValues
  <2> QED
    BY <2>1, <2>3, <2>4
<1> HIDE DEF counted
<1>11. Cardinality(all) \in Nat /\ Cardinality(found) \in Nat /\ Cardinality(counted) \in Nat
  BY <1>9, <1>10, FS_CardinalityType
<1>12. ~TooFew(x, i, c)
  <2> SUFFICES ASSUME TooFew(x, i, c) PROVE FALSE
    OBVIOUS
  <2> DEFINE p == NodeError(i, <<"collects", c.input>>)
  <2>1. p \in Collects(x)
    <3>1. c \in {e \in Entry[x.nodes[i].type].collect : TooFew(x, i, e)}
      BY <1>14
    <3>2. p \in {NodeError(i, <<"collects", e.input>>) :
                   e \in {b \in Entry[x.nodes[i].type].collect : TooFew(x, i, b)}}
      BY <3>1
    <3> QED
      BY <1>14, <3>2, Zenon DEF Collects
  <2>2. p.level = "error"
    BY DEF NodeError, Problem
  <2> HIDE DEF p
  <2>3. p \in Errors(Problems(x))
    BY <2>1, <2>2 DEF Errors, Problems
  <2> QED
    BY <1>14, <2>3
<1>13. c.min = 0 \/ Cardinality(counted) >= c.min
  <2>1. c.min > 0 => ~Below(x, i, c, anc)
    BY <1>4, <1>12 DEF TooFew
  <2>2. c.min > 0 => ~(Cardinality(counted) < c.min)
    BY <1>4, <1>8, <2>1
  <2> DEFINE n == c.min
             m == Cardinality(counted)
  <2>3. n \in Nat /\ m \in Nat /\ (n > 0 => ~(m < n))
    BY <1>3, <1>11, <2>2
  <2> HIDE DEF n, m
  <2>4. n = 0 \/ m >= n
    BY <2>3
  <2> QED
    BY <2>4 DEF n, m
<1>15. Cardinality(all) >= c.min
  BY <1>3, <1>9, <1>10, <1>11, <1>13
<1> QED
  BY <1>15 DEF all, x

-----------------------------------------------------------------------------
(* What the handlers hand on.                                              *)

(* An index is never the one there is before the first.                    *)
LEMMA IndexIsMade == \A d : Index(d) # NoIndex
<1> TAKE d
<1>1. "walk" \in DOMAIN Index(d)
  BY DEF Index, Lines, WithChains, ++
<1>2. "walk" \notin DOMAIN NoIndex
  BY DEF NoIndex
<1> QED
  BY <1>1, <1>2

(* What is generated is never the mark of a failure.                       *)
LEMMA GenerationIsMade == \A x : Generation(x) # Failed
<1> TAKE x
<1>1. "address" \in DOMAIN Generation(x)
  BY DEF Generation, WithBlocks, ++
<1>2. "address" \notin DOMAIN Failed
  BY DEF Failed
<1> QED
  BY <1>1, <1>2

(* Nothing is handed on at the start.                                      *)
LEMMA HandedOnInit == Init => IndexInv /\ BuiltInv /\ ShownInv
  BY DEF Init, IndexInv, BuiltInv, ShownInv, IsBuilt, NotBuilt, Failed

(* Validate leaves the index and the problems those of the new diagram.    *)
LEMMA ValidateKeeps == Validate => IndexInv'
  BY IndexIsMade DEF Validate, IndexInv

(* Every handler keeps what is handed on: those that write the diagram     *)
(* validate it and drop the plan, a plan takes the index as it is, an      *)
(* apply drops the plan.                                                   *)
LEMMA HandedOnNext ==
  IndexInv /\ BuiltInv /\ ShownInv /\ [Next]_vars => (IndexInv /\ BuiltInv /\ ShownInv)'
<1> SUFFICES ASSUME IndexInv, BuiltInv, ShownInv, [Next]_vars
             PROVE  (IndexInv /\ BuiltInv /\ ShownInv)'
  OBVIOUS
<1>1. CASE Get /\ Validate
  <2>1. built' = NotBuilt /\ UNCHANGED <<built, shown>>
    BY <1>1 DEF Get, BuiltInv
  <2> QED
    BY <1>1, <2>1, ValidateKeeps DEF BuiltInv, ShownInv, IsBuilt, NotBuilt, Failed
<1>2. CASE Import /\ Validate
  <2>1. built' = NotBuilt /\ UNCHANGED <<built, shown>>
    BY <1>2 DEF Import, BuiltInv
  <2> QED
    BY <1>2, <2>1, ValidateKeeps DEF BuiltInv, ShownInv, IsBuilt, NotBuilt, Failed
<1>3. CASE (Put \/ ConvertDoc) /\ Validate
  <2>1. built' = NotBuilt /\ shown' = NoPlan
    BY <1>3 DEF Put, ConvertDoc
  <2> QED
    BY <1>3, <2>1, ValidateKeeps DEF BuiltInv, ShownInv, IsBuilt, NotBuilt, Failed
<1>4. CASE Plan
  <2> DEFINE g == Generation(index)
  <2>1. /\ UNCHANGED <<doc, index, problems, hung>>
        /\ ~hung /\ index # NoIndex /\ Errors(problems) = {}
        /\ PlanOf(g)
    BY <1>4 DEF Plan
  <2>2. g # Failed
    BY GenerationIsMade
  <2> HIDE DEF g
  <2>3. IndexInv'
    BY <2>1 DEF IndexInv
  <2>4. CASE ~Generates(g)
    <3>1. built' = Failed /\ shown' = NoPlan
      BY <2>1, <2>4 DEF PlanOf
    <3> QED
      BY <2>1, <2>3, <2>4, <3>1 DEF BuiltInv, ShownInv, IsBuilt, g
  <2>5. CASE Generates(g)
    <3>1. built' = g /\ \E changed \in (Blocks(g) \cap deployed) \cup {NoAddress} :
                           Show(Planned(Blocks(g), deployed, changed), g)
      BY <2>1, <2>5 DEF PlanOf
    <3>2. ShownInv'
      BY <3>1 DEF ShownInv, Show
    <3> QED
      BY <2>1, <2>2, <2>3, <3>1, <3>2 DEF BuiltInv, IsBuilt, g
  <2> QED
    BY <2>4, <2>5
<1>5. CASE Apply
  <2>1. shown' = NoPlan /\ UNCHANGED <<doc, index, problems, built, hung>>
    BY <1>5 DEF Apply
  <2> QED
    BY <2>1 DEF IndexInv, BuiltInv, ShownInv, IsBuilt
<1>6. CASE UNCHANGED vars
  BY <1>6 DEF vars, IndexInv, BuiltInv, ShownInv, IsBuilt
<1> QED
  BY <1>1, <1>2, <1>3, <1>4, <1>5, <1>6 DEF Next

(* What the handlers hand on is never of another diagram: the index and    *)
(* the problems are of the saved one, what is generated is of a diagram    *)
(* that had no errors, and the plan shown is summed up with what was       *)
(* generated.                                                              *)
THEOREM HandedOn == Spec => [](IndexInv /\ BuiltInv /\ ShownInv)
  BY HandedOnInit, HandedOnNext, PTL DEF Spec

-----------------------------------------------------------------------------
(* The summary of a plan.                                                  *)

(* A severity is a number from 0 to 5.                                     *)
LEMMA SeverityIsSmall == \A a : severity(a) \in 0 .. 5
  BY DEF severity

(* Among the changes of a node none is worse than the one that counts.     *)
LEMMA WorstIsWorst ==
  ASSUME NEW changes, NEW c \in changes
  PROVE  severity(ActionOf(c.actions)) <= severity(WorstOf(changes))
<1> DEFINE found == {ActionOf(d.actions) : d \in changes}
           Rank5(a) == 5 - severity(a)
           T == {Rank5(a) : a \in found}
<1>1. T \subseteq Nat /\ T # {}
  BY SeverityIsSmall
<1>2. PICK m \in T : \A n \in T : m <= n
  BY <1>1, Least
<1>3. PICK a \in found : m = 5 - severity(a)
  BY <1>2
<1>4. \A d \in changes : severity(ActionOf(d.actions)) <= severity(a)
  <2> SUFFICES ASSUME NEW d \in changes PROVE severity(ActionOf(d.actions)) <= severity(a)
    OBVIOUS
  <2>1. Rank5(ActionOf(d.actions)) \in T
    OBVIOUS
  <2>2. 5 - severity(a) <= 5 - severity(ActionOf(d.actions))
    BY <1>2, <1>3, <2>1
  <2> QED
    BY <2>2, SeverityIsSmall
<1>5. \E b \in found : \A d \in changes : severity(ActionOf(d.actions)) <= severity(b)
  BY <1>4
<1>6. \A d \in changes : severity(ActionOf(d.actions)) <= severity(WorstOf(changes))
  BY <1>5 DEF WorstOf
<1> QED
  BY <1>6

(* A resource that is deleted or replaced is on a node with such an        *)
(* action, or in the list of what has no node.                             *)
LEMMA DestructionIsSummed ==
  ASSUME NEW changes, NEW g, NEW c \in changes, Destroys(c)
  PROVE  LET s == Summarize(changes, ModuleToNode(g)) IN
         \/ c \in s.orphans
         \/ /\ c.block \in Blocks(g)
            /\ s.nodes[ModuleToNode(g)[c.block]].action \in {"delete", "replace"}
<1> DEFINE toNode == ModuleToNode(g)
           mapped == Mapped(changes, toNode)
           on(n) == {d \in mapped : toNode[d.block] = n}
           s == Summarize(changes, toNode)
           n == toNode[c.block]
<1>1. ActionOf(c.actions) \in {"delete", "replace"}
  BY DEF Destroys
<1>2. DOMAIN toNode = Blocks(g)
  BY DEF ModuleToNode
<1>3. CASE c \notin mapped
  BY <1>1, <1>3 DEF Summarize
<1>4. CASE c \in mapped
  <2>1. c \in on(n) /\ c.block \in Blocks(g)
    BY <1>2, <1>4 DEF Mapped
  <2>2. s.nodes[n].action = WorstOf(on(n))
    BY <1>4 DEF Summarize
  <2>3. severity(ActionOf(c.actions)) <= severity(WorstOf(on(n)))
    BY <2>1, WorstIsWorst
  <2>4. severity(ActionOf(c.actions)) \in {4, 5}
    BY <1>1 DEF severity
  <2>5. severity(WorstOf(on(n))) \in {4, 5}
    BY <2>3, <2>4, SeverityIsSmall
  <2>6. WorstOf(on(n)) \in {"delete", "replace"}
    BY <2>5 DEF severity
  <2> QED
    BY <2>1, <2>2, <2>6
<1> QED
  BY <1>3, <1>4

(* The plan on the canvas hides no destruction (summary.go), whatever else *)
(* changes on the same node.                                               *)
THEOREM DestructionIsShown == Spec => []DestructionShown
<1>1. ASSUME ShownInv PROVE DestructionShown
  <2>1. CASE shown = NoPlan
    BY <2>1 DEF DestructionShown, NoPlan
  <2>2. CASE shown # NoPlan
    <3>1. PICK changes :
            shown = [changes |-> changes, summary |-> Summarize(changes, ModuleToNode(built))]
      BY <1>1, <2>2 DEF ShownInv
    <3>2. shown.changes = changes /\ shown.summary = Summarize(changes, ModuleToNode(built))
      BY <3>1
    <3> QED
      BY <3>2, DestructionIsSummed DEF DestructionShown
  <2> QED
    BY <2>1, <2>2
<1> QED
  BY <1>1, HandedOn, PTL

-----------------------------------------------------------------------------
(* What follows for the diagrams that can be made.                         *)

(* Whatever is done to a diagram, its nodes stay a list: this is what the  *)
(* facts about walks and addresses rest on.                                *)
THEOREM ListsAreLists == Spec => []ListInv
<1>1. ListInv /\ (IndexInv /\ BuiltInv /\ ShownInv) /\ [Next]_vars => ListInv'
  BY ListNext
<1> QED
  BY <1>1, ListInit, HandedOn, PTL DEF Spec

(* A handler that never returns, with the lock held, has met a diagram     *)
(* that contains itself; nothing else makes the climbs of the validator    *)
(* endless.                                                                *)
THEOREM HangsOnlyOnCycles == Spec => []HangsOnCycle
<1>1. ASSUME ListInv, IndexInv, hung PROVE \E i \in DOMAIN doc.nodes : HasCycle(index, i)
  <2>1. index = Index(doc) /\ ~Ends(Index(doc))
    BY <1>1 DEF IndexInv
  <2>2. IsList(doc.nodes)
    BY <1>1 DEF ListInv, HasNodes
  <2>3. \E i \in DOMAIN doc.nodes : HasCycle(Index(doc), i)
    BY <2>1, <2>2, HangIsCycle
  <2> QED
    BY <2>1, <2>3
<1>2. ListInv /\ IndexInv => HangsOnCycle
  BY <1>1 DEF HangsOnCycle
<1> QED
  BY <1>2, ListsAreLists, HandedOn, PTL

(* What is built, or failed to be, is of a diagram without errors.         *)
LEMMA BuiltIs ==
  ASSUME ListInv, IndexInv, BuiltInv, built # NotBuilt
  PROVE  /\ IsList(doc.nodes) /\ index = Index(doc) /\ Errors(Problems(Index(doc))) = {}
         /\ IsBuilt => built = Generation(Index(doc))
         /\ built = Failed => ~Generates(Generation(Index(doc)))
<1>1. index # NoIndex /\ ~hung /\ Errors(problems) = {}
  BY DEF BuiltInv
<1>2. index = Index(doc) /\ problems = Problems(index)
  BY <1>1 DEF IndexInv
<1>3. Errors(Problems(Index(doc))) = {}
  BY <1>1, <1>2
<1>4. IsList(doc.nodes)
  BY DEF ListInv, HasNodes
<1>5. IsBuilt => built = Generation(Index(doc))
  BY <1>2 DEF BuiltInv
<1>6. built = Failed => ~Generates(Generation(Index(doc)))
  BY <1>2 DEF BuiltInv
<1> QED
  BY <1>2, <1>3, <1>4, <1>5, <1>6

(* Every reference in the configuration is to a block that is there        *)
(* (generate.go), for every catalog that keeps to GenerationAssumption.    *)
THEOREM ReferencesAreResolved == Spec => []ReferencesResolve
<1>1. ASSUME ListInv, IndexInv, BuiltInv, IsBuilt, NEW r \in Refs(built)
      PROVE  {r.in, r.to} \subseteq Blocks(built)
  <2>1. built # NotBuilt
    BY <1>1 DEF IsBuilt
  <2>2. IsList(doc.nodes) /\ built = Generation(Index(doc))
    BY <1>1, <2>1, BuiltIs
  <2> QED
    BY <1>1, <2>2, RefsResolve
<1>2. ListInv /\ IndexInv /\ BuiltInv => ReferencesResolve
  BY <1>1 DEF ReferencesResolve
<1> QED
  BY <1>2, ListsAreLists, HandedOn, PTL

(* A diagram without errors that does not generate has names that sanitize *)
(* makes one, a link of the name of another resource, or two elements of   *)
(* one Terraform type and name.                                            *)
THEOREM ValidIsGenerated == Spec => []ValidGenerates
<1>1. ASSUME ListInv, IndexInv, BuiltInv, built = Failed
      PROVE  \/ SameId(doc)
             \/ \E k \in DOMAIN doc.edges : SharesName(doc, k)
             \/ \E i, j \in DOMAIN doc.nodes : SameResource(doc.nodes[i], doc.nodes[j])
  <2>1. Failed # NotBuilt
    <3>1. "block" \in DOMAIN Failed /\ "block" \notin DOMAIN NotBuilt
      BY DEF Failed, NotBuilt
    <3> QED
      BY <3>1
  <2>2. /\ IsList(doc.nodes) /\ Errors(Problems(Index(doc))) = {}
        /\ ~Generates(Generation(Index(doc)))
    BY <1>1, <2>1, BuiltIs
  <2> QED
    BY <2>2, FailsForNames
<1>2. ListInv /\ IndexInv /\ BuiltInv => ValidGenerates
  BY <1>1 DEF ValidGenerates, SameId
<1> QED
  BY <1>2, ListsAreLists, HandedOn, PTL

(* What is gathered is told by the index alone.                            *)
LEMMA GatheredAlike ==
  ASSUME NEW d
  PROVE  LET g == Generation(Index(d))
             x == Index(d) IN
         /\ Collecting(g) = Collecting(x)
         /\ \A i, depth : GenAncestorAt(g, i, depth) = GenAncestorAt(x, i, depth)
         /\ \A i, c : Collected(g, i, c) = Collected(x, i, c)
<1> DEFINE g == Generation(Index(d))
           x == Index(d)
<1>1. g.nodes = x.nodes /\ g.above = x.above
  <2>1. g.nodes = d.nodes /\ g.above = x.above
    BY GenerationIs, Zenon
  <2>2. x.nodes = d.nodes
    BY IndexNodes, Zenon
  <2> HIDE DEF g, x
  <2> QED
    BY <2>1, <2>2
<1> HIDE DEF g, x
<1>2. Collecting(g) = Collecting(x)
  BY <1>1 DEF Collecting
<1>3. \A i, depth : GenAncestorAt(g, i, depth) = GenAncestorAt(x, i, depth)
  BY <1>1 DEF GenAncestorAt
<1>4. \A i, a : GenIsUnder(g, i, a) = GenIsUnder(x, i, a)
  BY <1>1 DEF GenIsUnder
<1>5. \A i, c : Collected(g, i, c) = Collected(x, i, c)
  BY <1>1, <1>3, <1>4 DEF Collected
<1> QED
  BY <1>2, <1>3, <1>5 DEF g, x

(* An element of a diagram without errors is given as many of what it      *)
(* gathers as the catalog asks for, by the generator that climbs the tree  *)
(* in another way than the validator did.                                  *)
THEOREM EnoughIsGathered == Spec => []GathersEnough
<1>1. ASSUME ListInv, IndexInv, BuiltInv, IsBuilt, NEW i \in Collecting(built),
             NEW c \in Entry[doc.nodes[i].type].collect, GenAncestorAt(built, i, c.under) # 0
      PROVE  Cardinality(Collected(built, i, c)) >= c.min
  <2>1. built # NotBuilt
    BY <1>1 DEF IsBuilt
  <2>2. /\ IsList(doc.nodes) /\ Errors(Problems(Index(doc))) = {}
        /\ built = Generation(Index(doc))
    BY <1>1, <2>1, BuiltIs
  <2>3. i \in Collecting(Index(doc)) /\ GenAncestorAt(Index(doc), i, c.under) # 0
    BY <1>1, <2>2, GatheredAlike
  <2>4. Cardinality(Collected(Index(doc), i, c)) >= c.min
    BY <1>1, <2>2, <2>3, EnoughGathered
  <2>5. Collected(built, i, c) = Collected(Index(doc), i, c)
    BY <2>2, GatheredAlike
  <2> QED
    BY <2>4, <2>5
<1>2. ListInv /\ IndexInv /\ BuiltInv => GathersEnough
  BY <1>1 DEF GathersEnough
<1> QED
  BY <1>2, ListsAreLists, HandedOn, PTL
=============================================================================
