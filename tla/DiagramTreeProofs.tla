------------------------- MODULE DiagramTreeProofs -------------------------
(***************************************************************************)
(* Proofs about what is computed from the tree of a diagram: the outputs   *)
(* written back, the address ranges, the credentials, the conversion.      *)
(*                                                                         *)
(* A diagram the validator passes (Clean) is a tree: every walk up it ends *)
(* on the canvas, so what holds of a node when it holds of the box around  *)
(* it holds of all (TreeInduction).  The ranges and the credentials are    *)
(* such facts.  A conversion builds another diagram, node by node, and     *)
(* PlacedInv says what it has at every moment of that.                     *)
(***************************************************************************)
EXTENDS DiagramProofs

-----------------------------------------------------------------------------
(* The outputs of an apply.                                                *)

(* A plan is shown of what was generated without two owners of one block.  *)
PlanInv == shown # NoPlan => IsBuilt /\ Generates(built)

(* Only a plan that generates puts one on the canvas.                      *)
LEMMA PlanOfWhatGenerates == BuiltInv /\ PlanInv /\ [Next]_vars => PlanInv'
<1> SUFFICES ASSUME BuiltInv, PlanInv, [Next]_vars PROVE PlanInv'
  OBVIOUS
<1>1. CASE (Get \/ Import) /\ Validate
  BY <1>1 DEF Get, Import, PlanInv, IsBuilt
<1>2. CASE (Put \/ ConvertDoc) /\ Validate
  BY <1>2 DEF Put, ConvertDoc, PlanInv
<1>3. CASE Plan
  <2> DEFINE g == Generation(index)
  <2>1. PlanOf(g)
    BY <1>3 DEF Plan
  <2>2. g # Failed /\ g # NotBuilt
    <3>1. "address" \in DOMAIN g
      BY DEF Generation, WithBlocks, ++
    <3>2. "address" \notin DOMAIN NotBuilt
      BY DEF NotBuilt
    <3> QED
      BY <3>1, <3>2, GenerationIsMade
  <2> HIDE DEF g
  <2> QED
    BY <2>1, <2>2 DEF PlanOf, PlanInv, IsBuilt
<1>4. CASE Apply
  BY <1>4 DEF Apply, PlanInv
<1>5. CASE UNCHANGED vars
  BY <1>5 DEF vars, PlanInv, IsBuilt
<1> QED
  BY <1>1, <1>2, <1>3, <1>4, <1>5 DEF Next

(* An address, with a dot in it, is never what sanitize leaves of a name.  *)
Dotted == \A type, name, s : nameOf(type, name) # sanitize(s)

(* The outputs looked up under the address of a block are of a module.     *)
LEMMA FoundIsModule ==
  ASSUME Dotted, NEW d, NEW a, LookupName(a) \in RootOutputs(Generation(Index(d)))
  PROVE  a[1] = "module"
<1> DEFINE g == Generation(Index(d))
<1>1. /\ g.nodes = d.nodes
      /\ g.address = [i \in DOMAIN d.nodes |-> AddressOf(d.nodes[i])]
      /\ g.role = [i \in DOMAIN d.nodes |-> RoleOf(d.nodes[i].type)]
  BY GenerationIs
<1>2. LookupName(a) \in RootOutputs(g)
  OBVIOUS
<1> HIDE DEF g
<1>3. PICK i \in DOMAIN d.nodes :
        /\ RoleOf(d.nodes[i].type) \in {"resource", "module"}
        /\ LookupName(a) = OutputName(AddressOf(d.nodes[i]))
  BY <1>1, <1>2 DEF RootOutputs
<1>4. \E s : OutputName(AddressOf(d.nodes[i])) = sanitize(s)
  <2> DEFINE b == AddressOf(d.nodes[i])
  <2>1. CASE b[1] # "module"
    BY <2>1 DEF OutputName
  <2>2. CASE b[1] = "module" /\ RoleOf(d.nodes[i].type) = "module"
    <3>1. b = <<"module", sanitize(d.nodes[i].id)>>
      BY <2>2 DEF AddressOf
    <3> QED
      BY <2>2, <3>1 DEF OutputName
  <2>3. CASE b[1] = "module" /\ RoleOf(d.nodes[i].type) = "resource"
    <3>1. b = <<Entry[d.nodes[i].type].tf, sanitize(d.nodes[i].name)>>
      BY <2>3 DEF AddressOf
    <3> QED
      BY <2>3, <3>1 DEF OutputName
  <2> QED
    BY <1>3, <2>1, <2>2, <2>3
<1>5. LookupName(a) # nameOf(a[1], a[2])
  BY <1>3, <1>4 DEF Dotted
<1> QED
  BY <1>5 DEF LookupName

(* What a block is shown on is what owns it.                               *)
LEMMA ShownOnOwner ==
  ASSUME NEW g, NEW o \in DOMAIN g.block, IsInjective(g.block)
  PROVE  /\ g.block[o] \in Blocks(g)
         /\ ModuleToNode(g)[g.block[o]] =
              IF o[1] = "node" THEN g.nodes[o[2]].id ELSE g.edges[o[2]].id
<1> DEFINE a == g.block[o]
           owner(b) == CHOOSE q \in DOMAIN g.block : g.block[q] = b
<1>1. a \in Blocks(g)
  BY DEF Blocks
<1>2. owner(a) \in DOMAIN g.block /\ g.block[owner(a)] = a
  OBVIOUS
<1>3. owner(a) = o
  <2> DEFINE q == owner(a)
  <2>1. q \in DOMAIN g.block /\ g.block[q] = g.block[o]
    BY <1>2
  <2> HIDE DEF q
  <2>2. q = o
    BY <2>1 DEF IsInjective
  <2> QED
    BY <2>2 DEF q
<1>4. ModuleToNode(g)[a] = IF owner(a)[1] = "node" THEN g.nodes[owner(a)[2]].id
                           ELSE g.edges[owner(a)[2]].id
  BY <1>1 DEF ModuleToNode
<1> QED
  BY <1>1, <1>3, <1>4

(* Outputs are found on nodes only: a link edge is no module.              *)
LEMMA WrittenOnNodes ==
  ASSUME Dotted, NEW d, Generates(Generation(Index(d)))
  PROVE  WrittenBack(Generation(Index(d))) \subseteq Ids(d)
<1> DEFINE g == Generation(Index(d))
<1> SUFFICES ASSUME NEW a \in Blocks(g), LookupName(a) \in RootOutputs(g)
             PROVE  ModuleToNode(g)[a] \in Ids(d)
  BY DEF WrittenBack
<1>1. PICK o \in DOMAIN g.block : a = g.block[o]
  BY DEF Blocks
<1>2. a[1] = "module"
  BY FoundIsModule
<1>3. NodeOwner(d, o, a) \/ EdgeOwner(d, o, a)
  BY <1>1, OwnerIs
<1>4. ~EdgeOwner(d, o, a)
  BY <1>2 DEF EdgeOwner
<1>5. PICK i \in DOMAIN d.nodes : o = <<"node", i>>
  BY <1>3, <1>4 DEF NodeOwner
<1>6. IsInjective(g.block)
  BY DEF Generates
<1>7. g.nodes = d.nodes
  BY GenerationIs
<1> HIDE DEF g
<1>8. ModuleToNode(g)[a] = d.nodes[i].id
  BY <1>1, <1>5, <1>6, <1>7, ShownOnOwner
<1> QED
  BY <1>8 DEF Ids

(* The outputs of a module are found, and on its node.                     *)
LEMMA ModuleIsWritten ==
  ASSUME NEW d, Generates(Generation(Index(d))), NEW i \in DOMAIN d.nodes,
         RoleOf(d.nodes[i].type) = "module", Entry[d.nodes[i].type].outputs # {}
  PROVE  d.nodes[i].id \in WrittenBack(Generation(Index(d)))
<1> DEFINE g == Generation(Index(d))
           a == <<"module", sanitize(d.nodes[i].id)>>
           o == <<"node", i>>
<1>1. /\ g.nodes = d.nodes
      /\ g.address = [j \in DOMAIN d.nodes |-> AddressOf(d.nodes[j])]
      /\ g.role = [j \in DOMAIN d.nodes |-> RoleOf(d.nodes[j].type)]
      /\ g.block = [p \in Owners(Index(d), g.address) |->
                      IF p[1] = "node" THEN g.address[p[2]] ELSE LinkAddress(Index(d), p[2])]
  BY GenerationIs
<1>2. IsInjective(g.block)
  BY DEF Generates
<1> HIDE DEF g
<1>3. AddressOf(d.nodes[i]) = a /\ a # NoAddress
  BY DEF AddressOf, NoAddress
<1>4. g.address[i] = a /\ i \in DOMAIN g.address /\ g.role[i] = "module"
  BY <1>1, <1>3
<1>5. o \in Owners(Index(d), g.address)
  BY <1>3, <1>4 DEF Owners
<1>6. o \in DOMAIN g.block /\ g.block[o] = a
  BY <1>1, <1>4, <1>5
<1>7. a \in Blocks(g) /\ ModuleToNode(g)[a] = d.nodes[i].id
  <2>1. o[1] = "node" /\ o[2] = i
    OBVIOUS
  <2>2. g.nodes[i].id = d.nodes[i].id
    BY <1>1
  <2> HIDE DEF o, a
  <2>3. /\ g.block[o] \in Blocks(g)
        /\ ModuleToNode(g)[g.block[o]] =
             IF o[1] = "node" THEN g.nodes[o[2]].id ELSE g.edges[o[2]].id
    BY <1>2, <1>6, ShownOnOwner
  <2> QED
    BY <1>6, <2>1, <2>2, <2>3
<1>8. LookupName(a) = sanitize(d.nodes[i].id) /\ OutputName(a) = sanitize(d.nodes[i].id)
  BY DEF LookupName, OutputName
<1>9. OutputName(g.address[i]) \in RootOutputs(g)
  BY <1>1, <1>4 DEF RootOutputs
<1>10. LookupName(a) \in RootOutputs(g)
  BY <1>4, <1>8, <1>9
<1> HIDE DEF a
<1> QED
  BY <1>7, <1>10 DEF WrittenBack, g

(* What an apply writes back is on nodes, and on every module's that has   *)
(* any (runner.go, apply.go), however ids and names are made identifiers,  *)
(* as long as no identifier has the dot of an address.                     *)
THEOREM OutputsAreOnNodes == ASSUME Dotted PROVE Spec => OutputsOnNodes
<1>1. Init => PlanInv
  BY DEF Init, PlanInv
<1>2. ASSUME ListInv, IndexInv, BuiltInv, PlanInv, Apply
      PROVE  /\ outputs' \subseteq Ids(doc)
             /\ \A i \in DOMAIN doc.nodes :
                  built.role[i] = "module" /\ Entry[doc.nodes[i].type].outputs # {}
                    => doc.nodes[i].id \in outputs'
  <2>1. outputs' = WrittenBack(built) /\ IsBuilt /\ Generates(built)
    BY <1>2 DEF Apply, PlanInv
  <2>2. built = Generation(Index(doc))
    BY <1>2, <2>1, BuiltIs DEF IsBuilt
  <2>3. built.role = [i \in DOMAIN doc.nodes |-> RoleOf(doc.nodes[i].type)]
    BY <2>2, GenerationIs
  <2> QED
    BY <2>1, <2>2, <2>3, WrittenOnNodes, ModuleIsWritten
<1>3. ListInv /\ IndexInv /\ BuiltInv /\ PlanInv =>
        [ Apply =>
            /\ outputs' \subseteq Ids(doc)
            /\ \A i \in DOMAIN doc.nodes :
                 built.role[i] = "module" /\ Entry[doc.nodes[i].type].outputs # {}
                   => doc.nodes[i].id \in outputs' ]_vars
  BY <1>2
<1> QED
  BY <1>1, <1>3, PlanOfWhatGenerates, ListsAreLists, HandedOn, PTL DEF Spec, OutputsOnNodes

-----------------------------------------------------------------------------
(* The tree of a diagram without errors.                                   *)

(* The tree of a diagram without errors.                                   *)
Clean(d) == IsList(d.nodes) /\ Errors(Problems(Index(d))) = {}

(* The box a node is drawn in, 0 for the canvas.                           *)
Up(d, i) == Node(d, d.nodes[i].parent)

(* A walk up such a tree comes to the canvas.                              *)
LEMMA CleanWalk ==
  ASSUME NEW d, Clean(d), NEW i \in DOMAIN d.nodes
  PROVE  \E long : /\ ChainAt(d, i, Index(d).walk[i], long)
                   /\ Index(d).walk[i][long + 1] = 0
<1> DEFINE x == Index(d)
<1>1. PICK long : ChainAt(d, i, x.walk[i], long)
  BY ChainAtExists DEF Clean
<1>2. x.nodes = d.nodes /\ Errors(Problems(x)) = {}
  BY IndexNodes DEF Clean
<1> HIDE DEF x
<1>3. ~HasCycle(x, i)
  BY <1>2, CleanNode
<1>4. x.walk[i][long + 1] = 0
  BY <1>1, <1>3 DEF ChainAt, x
<1> QED
  BY <1>1, <1>4 DEF x

(* The steps of a walk, which begins at its node and does not leave the    *)
(* canvas again.                                                           *)
LEMMA WalkSteps ==
  ASSUME NEW d, IsList(d.nodes), NEW i \in DOMAIN d.nodes
  PROVE  LET w == Index(d).walk[i] IN
         /\ Len(d.nodes) \in Nat /\ DOMAIN d.nodes = 1 .. Len(d.nodes)
         /\ Steps(Index(d)) = 0 .. 2 * Len(d.nodes) + 2
         /\ w[0] = i
         /\ \A k \in 0 .. 2 * Len(d.nodes) + 1 :
              /\ w[k] \in 0 .. Len(d.nodes)
              /\ w[k + 1] = IF w[k] = 0 THEN 0 ELSE Up(d, w[k])
<1> DEFINE n == Len(d.nodes)
           w == Index(d).walk[i]
<1>1. n \in Nat /\ DOMAIN d.nodes = 1 .. n
  BY ListDomain
<1>2. w = Walk(d, Parents(d), i) /\ Steps(Index(d)) = Steps(d)
  BY IndexWalk
<1>3. Steps(d) = 0 .. 2 * n + 2
  BY DEF Steps
<1>4. /\ w[0] = i
      /\ \A k \in Steps(d) : k # 0 => w[k] = Parents(d)[w[k - 1]]
      /\ \A k \in Steps(d) : w[k] \in 0 .. n
  BY <1>2, WalkFacts
<1> HIDE DEF w, n
<1>5. \A j \in 0 .. n : Parents(d)[j] = IF j = 0 THEN 0 ELSE Up(d, j)
  BY DEF Parents, Up, n
<1>6. ASSUME NEW k \in 0 .. 2 * n + 1
      PROVE  w[k] \in 0 .. n /\ w[k + 1] = IF w[k] = 0 THEN 0 ELSE Up(d, w[k])
  <2>1. k \in Steps(d) /\ k + 1 \in Steps(d) /\ k + 1 # 0 /\ (k + 1) - 1 = k
    BY <1>1, <1>3
  <2>2. w[k] \in 0 .. n /\ w[k + 1] = Parents(d)[w[k]]
    BY <1>4, <2>1
  <2> QED
    BY <1>5, <2>2
<1> QED
  BY <1>1, <1>2, <1>3, <1>4, <1>6 DEF n, w

(* The walk of the box a node is drawn in is the rest of its own.          *)
LEMMA NextWalk ==
  ASSUME NEW d, IsList(d.nodes), NEW i \in DOMAIN d.nodes, Up(d, i) # 0
  PROVE  /\ Up(d, i) \in DOMAIN d.nodes
         /\ \A k \in 0 .. 2 * Len(d.nodes) + 1 :
              Index(d).walk[Up(d, i)][k] = Index(d).walk[i][k + 1]
<1> DEFINE n == Len(d.nodes)
           u == Up(d, i)
           w == Index(d).walk[i]
           v == Index(d).walk[u]
<1>1. u \in DOMAIN d.nodes
  <2> DEFINE p == d.nodes[i].parent
  <2>1. Node(d, p) # 0
    BY DEF Up
  <2> HIDE DEF p
  <2>2. Node(d, p) \in DOMAIN d.nodes
    BY <2>1, NodeFacts
  <2> QED
    BY <2>2 DEF Up, p
<1>2. /\ n \in Nat /\ DOMAIN d.nodes = 1 .. n /\ w[0] = i
      /\ \A k \in 0 .. 2 * n + 1 : w[k + 1] = IF w[k] = 0 THEN 0 ELSE Up(d, w[k])
  BY WalkSteps
<1>3. v[0] = u /\ \A k \in 0 .. 2 * n + 1 : v[k + 1] = IF v[k] = 0 THEN 0 ELSE Up(d, v[k])
  BY <1>1, WalkSteps
<1> DEFINE T == {k \in Nat : k <= 2 * n + 1 => v[k] = w[k + 1]}
<1> HIDE DEF n, w, v
<1>4. 0 \in T
  <2>1. 0 \in 0 .. 2 * n + 1 /\ i # 0
    BY <1>2
  <2>2. w[0 + 1] = Up(d, i)
    BY <1>2, <2>1
  <2> QED
    BY <1>3, <2>2
<1>5. ASSUME NEW k \in Nat, k \in T PROVE k + 1 \in T
  <2> SUFFICES ASSUME k + 1 <= 2 * n + 1 PROVE v[k + 1] = w[(k + 1) + 1]
    OBVIOUS
  <2>1. k \in 0 .. 2 * n + 1 /\ k + 1 \in 0 .. 2 * n + 1
    BY <1>2
  <2>2. v[k] = w[k + 1]
    BY <1>2, <1>5, <2>1
  <2>3. v[k + 1] = IF v[k] = 0 THEN 0 ELSE Up(d, v[k])
    BY <1>3, <2>1
  <2>4. w[(k + 1) + 1] = IF w[k + 1] = 0 THEN 0 ELSE Up(d, w[k + 1])
    BY <1>2, <2>1
  <2> QED
    BY <2>2, <2>3, <2>4
<1> HIDE DEF T
<1>6. Nat \subseteq T
  BY <1>4, <1>5, Induction
<1>7. \A k \in 0 .. 2 * n + 1 : v[k] = w[k + 1]
  BY <1>2, <1>6 DEF T
<1> QED
  BY <1>1, <1>7 DEF n, v, w

(* A chain is the box a node is drawn in and the chain of that one.        *)
LEMMA ChainStep ==
  ASSUME NEW d, Clean(d), NEW i \in DOMAIN d.nodes
  PROVE  /\ IsList(Index(d).chain[i])
         /\ Up(d, i) = 0 => Index(d).chain[i] = <<>>
         /\ Up(d, i) # 0 =>
              /\ Up(d, i) \in DOMAIN d.nodes
              /\ IsList(Index(d).chain[Up(d, i)])
              /\ Index(d).chain[i] = <<Up(d, i)>> \o Index(d).chain[Up(d, i)]
<1> DEFINE n == Len(d.nodes)
           u == Up(d, i)
           x == Index(d)
           w == x.walk[i]
           v == x.walk[u]
           c == x.chain[i]
           b == x.chain[u]
<1>1. PICK long : ChainAt(d, i, w, long) /\ w[long + 1] = 0
  BY CleanWalk
<1>2. IsList(d.nodes)
  BY DEF Clean
<1>3. /\ n \in Nat /\ DOMAIN d.nodes = 1 .. n /\ w[0] = i
      /\ \A k \in 0 .. 2 * n + 1 : w[k + 1] = IF w[k] = 0 THEN 0 ELSE Up(d, w[k])
  BY <1>2, WalkSteps
<1> HIDE DEF n, x, w, v, b, c
<1>4. /\ long \in Nat /\ long < n
      /\ c = [k \in 1 .. long |-> w[k]]
      /\ \A k \in 0 .. long : w[k] \in 1 .. n
  BY <1>1, <1>3 DEF ChainAt, n, c, x
<1>5. IsList(c) /\ Len(c) = long
  <2>1. c = [k \in 1 .. long |-> c[k]]
    BY <1>4
  <2> QED
    BY <1>4, <2>1, ListOf
<1>6. w[0 + 1] = u
  <2>1. 0 \in 0 .. 2 * n + 1 /\ i # 0
    BY <1>3
  <2> QED
    BY <1>3, <2>1
<1>7. ASSUME u = 0 PROVE c = <<>>
  <2>1. long = 0
    <3> SUFFICES ASSUME long # 0 PROVE FALSE
      OBVIOUS
    <3>1. w[1] \in 1 .. n
      BY <1>4
    <3> QED
      BY <1>3, <1>6, <1>7, <3>1
  <2> QED
    BY <1>5, <2>1 DEF IsList
<1>8. ASSUME u # 0
      PROVE  u \in DOMAIN d.nodes /\ IsList(b) /\ c = <<u>> \o b
  <2>1. /\ u \in DOMAIN d.nodes
        /\ \A k \in 0 .. 2 * n + 1 : v[k] = w[k + 1]
    BY <1>2, <1>8, NextWalk DEF n, v, w, x
  <2>2. PICK rest : ChainAt(d, u, v, rest) /\ v[rest + 1] = 0
    BY <2>1, CleanWalk DEF v, x
  <2>3. /\ rest \in Nat /\ rest < n
        /\ b = [k \in 1 .. rest |-> v[k]]
        /\ \A k \in 0 .. rest : v[k] \in 1 .. n
    BY <1>3, <2>2 DEF ChainAt, n, b, x
  <2>4. IsList(b) /\ Len(b) = rest
    <3>1. b = [k \in 1 .. rest |-> b[k]]
      BY <2>3
    <3> QED
      BY <2>3, <3>1, ListOf
  <2>5. long = rest + 1
    <3>1. ~(long < rest + 1)
      <4> SUFFICES ASSUME long < rest + 1 PROVE FALSE
        OBVIOUS
      <4>1. long \in 0 .. rest /\ long \in 0 .. 2 * n + 1
        BY <1>3, <1>4, <2>3
      <4>2. v[long] \in 1 .. n
        BY <2>3, <4>1
      <4>3. v[long] = w[long + 1]
        BY <2>1, <4>1
      <4> QED
        BY <1>1, <1>3, <4>2, <4>3
    <3>2. ~(long > rest + 1)
      <4> SUFFICES ASSUME long > rest + 1 PROVE FALSE
        OBVIOUS
      <4>1. (rest + 1) + 1 \in 0 .. long /\ rest + 1 \in 0 .. 2 * n + 1
        BY <1>3, <1>4, <2>3
      <4>2. w[(rest + 1) + 1] \in 1 .. n
        BY <1>4, <4>1
      <4>3. v[rest + 1] = w[(rest + 1) + 1]
        BY <2>1, <4>1
      <4> QED
        BY <1>3, <2>2, <4>2, <4>3
    <3> QED
      BY <1>4, <2>3, <3>1, <3>2
  <2>6. \A k \in 1 .. rest : b[k] = c[k + 1]
    <3> SUFFICES ASSUME NEW k \in 1 .. rest PROVE b[k] = c[k + 1]
      OBVIOUS
    <3>1. k + 1 \in 1 .. long /\ k \in 0 .. 2 * n + 1
      BY <1>3, <2>3, <2>5
    <3> QED
      BY <1>4, <2>1, <2>3, <3>1
  <2>7. c[1] = u
    BY <1>4, <1>6, <2>3, <2>5
  <2>8. c = <<u>> \o b
    <3> DEFINE s == <<u>> \o b
    <3>1. b \in Seq(Range(b) \cup {u}) /\ <<u>> \in Seq(Range(b) \cup {u})
      <4>1. b \in Seq(Range(b))
        BY <2>4 DEF IsList
      <4> QED
        BY <4>1
    <3>2. s \in Seq(Range(b) \cup {u}) /\ Len(s) = rest + 1
      BY <2>4, <3>1
    <3>3. s[1] = u /\ \A k \in 1 .. rest : s[k + 1] = b[k]
      BY <2>3, <2>4, <3>1
    <3>4. \A k \in 1 .. rest + 1 : s[k] = c[k]
      <4> SUFFICES ASSUME NEW k \in 1 .. rest + 1 PROVE s[k] = c[k]
        OBVIOUS
      <4>1. CASE k = 1
        BY <2>7, <3>3, <4>1
      <4>2. CASE k # 1
        <5>1. k - 1 \in 1 .. rest /\ (k - 1) + 1 = k
          BY <2>3, <4>2
        <5> QED
          BY <2>6, <3>3, <5>1
      <4> QED
        BY <4>1, <4>2
    <3>5. s = [k \in 1 .. rest + 1 |-> s[k]]
      BY <2>3, <3>2
    <3>6. c = [k \in 1 .. rest + 1 |-> c[k]]
      BY <1>4, <2>5
    <3> HIDE DEF s
    <3>7. s = c
      BY <3>4, <3>5, <3>6
    <3> QED
      BY <3>7 DEF s
  <2> QED
    BY <2>1, <2>4, <2>8
<1> QED
  BY <1>5, <1>7, <1>8 DEF x, c, b

(* What is shown of a box and what it is in is shown of every node.        *)
LEMMA TreeInduction ==
  ASSUME NEW d, Clean(d), NEW S,
         \A i \in DOMAIN d.nodes : Up(d, i) = 0 \/ Up(d, i) \in S => i \in S
  PROVE  DOMAIN d.nodes \subseteq S
<1> DEFINE c(i) == Index(d).chain[i]
           T == {n \in Nat : \A i \in DOMAIN d.nodes : Len(c(i)) <= n => i \in S}
<1>1. ASSUME NEW i \in DOMAIN d.nodes
      PROVE  /\ Len(c(i)) \in Nat
             /\ Up(d, i) # 0 => /\ Up(d, i) \in DOMAIN d.nodes
                                /\ Len(c(Up(d, i))) \in Nat
                                /\ Len(c(i)) = Len(c(Up(d, i))) + 1
  <2>1. IsList(c(i)) /\ Len(c(i)) \in Nat
    BY ChainStep, ListDomain
  <2>2. ASSUME Up(d, i) # 0
        PROVE  /\ Up(d, i) \in DOMAIN d.nodes
               /\ Len(c(Up(d, i))) \in Nat
               /\ Len(c(i)) = Len(c(Up(d, i))) + 1
    <3> DEFINE u == Up(d, i)
               b == c(u)
    <3>1. u \in DOMAIN d.nodes /\ IsList(b) /\ c(i) = <<u>> \o b
      BY <2>2, ChainStep
    <3> HIDE DEF u, b
    <3>2. b \in Seq(Range(b) \cup {u}) /\ <<u>> \in Seq(Range(b) \cup {u}) /\ Len(<<u>>) = 1
      <4>1. b \in Seq(Range(b))
        BY <3>1 DEF IsList
      <4> QED
        BY <4>1
    <3>3. Len(<<u>> \o b) = Len(b) + 1 /\ Len(b) \in Nat
      BY <3>2
    <3> QED
      BY <3>1, <3>3 DEF u, b
  <2> QED
    BY <2>1, <2>2
<1> HIDE DEF c
<1>2. 0 \in T
  <2> SUFFICES ASSUME NEW i \in DOMAIN d.nodes, Len(c(i)) <= 0 PROVE i \in S
    OBVIOUS
  <2>1. Up(d, i) = 0
    BY <1>1
  <2> QED
    BY <2>1
<1>3. ASSUME NEW n \in Nat, n \in T PROVE n + 1 \in T
  <2> SUFFICES ASSUME NEW i \in DOMAIN d.nodes, Len(c(i)) <= n + 1 PROVE i \in S
    OBVIOUS
  <2>1. CASE Up(d, i) = 0
    BY <2>1
  <2>2. CASE Up(d, i) # 0
    <3>1. Up(d, i) \in DOMAIN d.nodes /\ Len(c(Up(d, i))) <= n
      BY <1>1, <2>2
    <3>2. Up(d, i) \in S
      BY <1>3, <3>1
    <3> QED
      BY <3>2
  <2> QED
    BY <2>1, <2>2
<1> HIDE DEF T
<1>4. Nat \subseteq T
  BY <1>2, <1>3, Induction
<1>5. ASSUME NEW i \in DOMAIN d.nodes PROVE i \in S
  <2>1. Len(c(i)) \in T /\ Len(c(i)) \in Nat /\ Len(c(i)) <= Len(c(i))
    BY <1>1, <1>4
  <2> QED
    BY <2>1 DEF T
<1> QED
  BY <1>5

-----------------------------------------------------------------------------
(* Address ranges.                                                         *)

(* An address range, of a node or of the canvas, which has none.           *)
IsRange(r) == r \subseteq Nat /\ (r # {} => \E a, b \in r : r = a .. b)

(* What a node may be given is one.                                        *)
LEMMA RangesAre == ASSUME NEW x, NEW i PROVE IsRange(RangeOf(x, i))
<1>1. \A v : IsRange(AddressesOf(v))
  BY AddressAssumption DEF AddressesOf, IsRange
<1>2. IsRange({})
  BY DEF IsRange
<1>3. RangeOf(x, i) = {} \/ \E v : RangeOf(x, i) = AddressesOf(v)
  BY DEF RangeOf
<1> QED
  BY <1>1, <1>2, <1>3

(* And so is the range around a node.                                      *)
LEMMA NearestIsRange == ASSUME NEW x, NEW i PROVE IsRange(NearestRange(x, i))
<1>1. NearestRange(x, i) = {} \/ \E j : NearestRange(x, i) = RangeOf(x, j)
  BY Zenon DEF NearestRange
<1>2. IsRange({})
  BY DEF IsRange
<1> QED
  BY <1>1, <1>2, RangesAre

(* The first and the last of a range.                                      *)
LEMMA RangeEnds ==
  ASSUME NEW r, IsRange(r), r # {}
  PROVE  /\ r \subseteq Nat /\ Min(r) \in r /\ Max(r) \in r
         /\ \A z \in r : Min(r) <= z /\ z <= Max(r)
<1>1. r \subseteq Nat
  BY DEF IsRange
<1>2. PICK a, b \in r : r = a .. b
  BY DEF IsRange
<1>3. b \in Nat /\ r \subseteq 0 .. b
  BY <1>1, <1>2
<1> QED
  BY <1>1, <1>3, MinOf, MaxOf

(* Within, which looks at the ends alone, is inclusion of ranges.          *)
LEMMA WithinIsSubset ==
  ASSUME NEW r, IsRange(r), r # {}, NEW s, IsRange(s), Within(r, s)
  PROVE  r \subseteq s
<1>1. r \subseteq Nat /\ \A z \in r : Min(r) <= z /\ z <= Max(r)
  BY RangeEnds
<1>2. Min(r) \in s /\ Max(r) \in s
  BY DEF Within
<1>3. PICK a, b \in s : s = a .. b
  BY <1>2 DEF IsRange
<1>4. s \subseteq Nat
  BY DEF IsRange
<1> DEFINE first == Min(r)
           last == Max(r)
<1>5. /\ first \in s /\ last \in s /\ \A z \in r : z \in Nat /\ first <= z /\ z <= last
  BY <1>1, <1>2
<1> HIDE DEF first, last
<1>6. ASSUME NEW z \in r PROVE z \in s
  <2>1. z \in Nat /\ first <= z /\ z <= last
    BY <1>5
  <2>2. /\ first \in Nat /\ last \in Nat /\ a \in Nat /\ b \in Nat
        /\ a <= first /\ last <= b
    BY <1>3, <1>4, <1>5
  <2>3. z \in a .. b
    BY <2>1, <2>2
  <2> QED
    BY <1>3, <2>3
<1> QED
  BY <1>6

(* Overlap, which looks at first addresses alone, is a shared address.     *)
LEMMA OverlapIsShared ==
  ASSUME NEW r, IsRange(r), NEW s, IsRange(s), r \cap s # {}
  PROVE  Overlap(r, s)
<1>1. PICK z : z \in r /\ z \in s
  OBVIOUS
<1> DEFINE f == Min(r)
           g == Min(s)
<1>2. /\ r \subseteq Nat /\ s \subseteq Nat /\ f \in r /\ g \in s
      /\ f <= z /\ g <= z
  BY <1>1, RangeEnds
<1>3. PICK a, b \in r : r = a .. b
  BY <1>1 DEF IsRange
<1>4. PICK p, q \in s : s = p .. q
  BY <1>1 DEF IsRange
<1> HIDE DEF f, g
<1>5. f \in Nat /\ g \in Nat /\ z \in Nat /\ a \in Nat /\ b \in Nat /\ p \in Nat /\ q \in Nat
  BY <1>1, <1>2, <1>3, <1>4
<1>6. a <= f /\ z <= b /\ p <= g /\ z <= q
  BY <1>1, <1>2, <1>3, <1>4, <1>5
<1>7. CASE f <= g
  <2>1. g \in a .. b
    BY <1>2, <1>5, <1>6, <1>7
  <2> QED
    BY <1>3, <2>1 DEF Overlap, g
<1>8. CASE g <= f
  <2>1. f \in p .. q
    BY <1>2, <1>5, <1>6, <1>8
  <2> QED
    BY <1>4, <2>1 DEF Overlap, f
<1> QED
  BY <1>5, <1>7, <1>8

(* The range around a node: that of the box it is drawn in, or the one     *)
(* around that box.                                                        *)
LEMMA NearestStep ==
  ASSUME NEW d, Clean(d), NEW i \in DOMAIN d.nodes
  PROVE  LET x == Index(d)
             u == Up(d, i) IN
         NearestRange(x, i) = IF u = 0 THEN {}
                              ELSE IF RangeOf(x, u) # {} THEN RangeOf(x, u)
                              ELSE NearestRange(x, u)
<1> DEFINE n == Len(d.nodes)
           u == Up(d, i)
           x == Index(d)
           w == x.walk[i]
           v == x.walk[u]
           A == {k \in Steps(x) \ {0} : RangeOf(x, w[k]) # {}}
           B == {k \in Steps(x) \ {0} : RangeOf(x, v[k]) # {}}
<1>1. PICK long : ChainAt(d, i, w, long) /\ w[long + 1] = 0
  BY CleanWalk
<1>2. IsList(d.nodes)
  BY DEF Clean
<1>3. /\ n \in Nat /\ DOMAIN d.nodes = 1 .. n /\ Steps(x) = 0 .. 2 * n + 2 /\ w[0] = i
      /\ \A k \in 0 .. 2 * n + 1 : w[k + 1] = IF w[k] = 0 THEN 0 ELSE Up(d, w[k])
  BY <1>2, WalkSteps
<1>4. /\ NearestRange(x, i) = IF A = {} THEN {} ELSE RangeOf(x, w[Min(A)])
      /\ NearestRange(x, u) = IF B = {} THEN {} ELSE RangeOf(x, v[Min(B)])
  BY Zenon DEF NearestRange
<1>5. RangeOf(x, 0) = {}
  BY DEF RangeOf
<1>6. w[1] = u
  <2>1. 0 \in 0 .. 2 * n + 1 /\ i # 0 /\ 0 + 1 = 1
    BY <1>3
  <2> QED
    BY <1>3, <2>1
<1>7. u # 0 => \A k \in 0 .. 2 * n + 1 : v[k] = w[k + 1]
  BY <1>2, NextWalk
<1>8. long \in Nat /\ long < n
  BY <1>1 DEF ChainAt
<1>9. \A k \in Steps(x) : k > long => w[k] = 0
  <2> DEFINE T == {m \in Nat : (long + 1) + m <= 2 * n + 2 => w[(long + 1) + m] = 0}
  <2> HIDE DEF w, n, x
  <2>1. 0 \in T
    BY <1>1, <1>8
  <2>2. ASSUME NEW m \in Nat, m \in T PROVE m + 1 \in T
    <3> SUFFICES ASSUME (long + 1) + (m + 1) <= 2 * n + 2 PROVE w[(long + 1) + (m + 1)] = 0
      OBVIOUS
    <3>1. (long + 1) + m \in 0 .. 2 * n + 1 /\ (long + 1) + (m + 1) = ((long + 1) + m) + 1
      BY <1>3, <1>8
    <3>2. w[(long + 1) + m] = 0
      BY <1>3, <1>8, <2>2, <3>1
    <3> QED
      BY <1>3, <3>1, <3>2
  <2> HIDE DEF T
  <2>3. Nat \subseteq T
    BY <2>1, <2>2, Induction
  <2> SUFFICES ASSUME NEW k \in Steps(x), k > long PROVE w[k] = 0
    OBVIOUS
  <2>4. k - (long + 1) \in Nat /\ (long + 1) + (k - (long + 1)) = k /\ k <= 2 * n + 2
    BY <1>3, <1>8
  <2> QED
    BY <2>3, <2>4 DEF T
<1> HIDE DEF n, u, x, w, v, A, B
<1>10. A \subseteq Nat /\ B \subseteq Nat
  BY <1>3 DEF A, B
<1>11. CASE u = 0
  <2>1. \A k \in Nat : k \in 1 .. 2 * n + 2 => w[k] = 0
    <3> DEFINE T == {k \in Nat : k + 1 <= 2 * n + 2 => w[k + 1] = 0}
    <3>1. 0 \in T
      BY <1>6, <1>11
    <3>2. ASSUME NEW k \in Nat, k \in T PROVE k + 1 \in T
      <4> SUFFICES ASSUME (k + 1) + 1 <= 2 * n + 2 PROVE w[(k + 1) + 1] = 0
        OBVIOUS
      <4>1. k + 1 \in 0 .. 2 * n + 1
        BY <1>3
      <4>2. w[k + 1] = 0
        BY <1>3, <3>2, <4>1
      <4> QED
        BY <1>3, <4>1, <4>2
    <3> HIDE DEF T
    <3>3. Nat \subseteq T
      BY <3>1, <3>2, Induction
    <3> TAKE k \in Nat
    <3> HAVE k \in 1 .. 2 * n + 2
    <3>4. k - 1 \in Nat /\ (k - 1) + 1 = k /\ k <= 2 * n + 2
      BY <1>3
    <3> QED
      BY <3>3, <3>4 DEF T
  <2>2. A = {}
    BY <1>3, <1>5, <2>1 DEF A
  <2> QED
    BY <1>4, <1>11, <2>2 DEF x, u
<1>12. CASE u # 0 /\ RangeOf(x, u) # {}
  <2>1. 1 \in A
    BY <1>3, <1>6, <1>12 DEF A
  <2>2. Min(A) = 1
    <3>1. Min(A) \in A /\ Min(A) <= 1
      BY <1>10, <2>1, MinOf
    <3>2. 0 \notin A
      BY DEF A
    <3> DEFINE a == Min(A)
    <3>3. a \in Nat /\ a # 0 /\ a <= 1
      BY <1>10, <3>1, <3>2
    <3> HIDE DEF a
    <3>4. a = 1
      BY <3>3
    <3> QED
      BY <3>4 DEF a
  <2> QED
    BY <1>4, <1>6, <1>12, <2>1, <2>2 DEF x, u
<1>13. CASE u # 0 /\ RangeOf(x, u) = {}
  <2>1. \A k \in B : k + 1 \in A
    <3> SUFFICES ASSUME NEW k \in B PROVE k + 1 \in A
      OBVIOUS
    <3>1. k \in 1 .. 2 * n + 2 /\ RangeOf(x, v[k]) # {}
      BY <1>3 DEF B
    <3>2. k # 2 * n + 2
      <4> SUFFICES ASSUME k = 2 * n + 2 PROVE FALSE
        OBVIOUS
      <4>1. (2 * n + 1) + 1 = k /\ 2 * n + 1 \in 0 .. 2 * n + 1
        BY <1>3
      <4>2. v[2 * n + 1] = w[(2 * n + 1) + 1]
        BY <1>7, <1>13, <4>1
      <4>3. w[2 * n + 2] = 0
        <5>1. 2 * n + 2 \in Steps(x) /\ 2 * n + 2 > long
          BY <1>3, <1>8
        <5> QED
          BY <1>9, <5>1
      <4>4. v[2 * n + 1] = 0
        BY <4>1, <4>2, <4>3
      <4>5. v[(2 * n + 1) + 1] = 0
        <5>1. u \in DOMAIN d.nodes
          BY <1>2, <1>13, NextWalk DEF u
        <5>2. \A m \in 0 .. 2 * n + 1 : v[m + 1] = IF v[m] = 0 THEN 0 ELSE Up(d, v[m])
          BY <1>2, <5>1, WalkSteps DEF v, n, x
        <5> QED
          BY <4>1, <4>4, <5>2
      <4> QED
        BY <1>5, <3>1, <4>1, <4>5
    <3>3. k \in 0 .. 2 * n + 1 /\ k + 1 \in Steps(x) \ {0}
      <4>1. k \in Nat /\ k <= 2 * n + 2 /\ n \in Nat
        BY <1>3, <3>1
      <4>2. k <= 2 * n + 1
        BY <3>2, <4>1
      <4> QED
        BY <1>3, <4>1, <4>2
    <3>4. v[k] = w[k + 1]
      BY <1>7, <1>13, <3>3
    <3> QED
      BY <3>1, <3>3, <3>4 DEF A
  <2>2. \A k \in A : k - 1 \in B
    <3> SUFFICES ASSUME NEW k \in A PROVE k - 1 \in B
      OBVIOUS
    <3>1. k \in 1 .. 2 * n + 2 /\ RangeOf(x, w[k]) # {}
      BY <1>3 DEF A
    <3>2. k # 1
      BY <1>6, <1>13, <3>1
    <3>3. k - 1 \in 0 .. 2 * n + 1 /\ k - 1 \in Steps(x) \ {0} /\ (k - 1) + 1 = k
      BY <1>3, <3>1, <3>2
    <3>4. v[k - 1] = w[k]
      BY <1>7, <1>13, <3>3
    <3> QED
      BY <3>1, <3>3, <3>4 DEF B
  <2>3. CASE B = {}
    <3>1. A = {}
      BY <2>2, <2>3
    <3> QED
      BY <1>4, <1>13, <2>3, <3>1 DEF x, u
  <2>4. CASE B # {}
    <3>1. Min(B) \in B /\ \A k \in B : Min(B) <= k
      BY <1>10, <2>4, MinOf
    <3>2. Min(B) + 1 \in A
      BY <2>1, <3>1
    <3>3. Min(A) \in A /\ \A k \in A : Min(A) <= k
      BY <1>10, <3>2, MinOf
    <3>4. Min(A) - 1 \in B
      BY <2>2, <3>3
    <3>5. Min(A) = Min(B) + 1
      <4> DEFINE a == Min(A)
                 b == Min(B)
      <4>1. a \in Nat /\ b \in Nat /\ a <= b + 1 /\ b <= a - 1
        BY <1>10, <3>1, <3>2, <3>3, <3>4
      <4> HIDE DEF a, b
      <4>2. a = b + 1
        BY <4>1
      <4> QED
        BY <4>2 DEF a, b
    <3>6. v[Min(B)] = w[Min(B) + 1]
      <4>1. Min(B) \in 0 .. 2 * n + 1
        <5>1. Min(B) + 1 \in 0 .. 2 * n + 2 /\ Min(B) \in Nat
          BY <1>3, <1>10, <3>1, <3>2 DEF A
        <5> QED
          BY <1>3, <5>1
      <4> QED
        BY <1>7, <1>13, <4>1
    <3> QED
      BY <1>4, <1>13, <2>4, <3>2, <3>5, <3>6 DEF x, u
  <2> QED
    BY <2>3, <2>4
<1> QED
  BY <1>11, <1>12, <1>13 DEF x, u

(* What Cidrs passes: a range is within the one around it, and overlaps    *)
(* none of a sibling's.                                                    *)
LEMMA CleanRanges ==
  ASSUME NEW x, Errors(Problems(x)) = {}, NEW i \in Ranged(x)
  PROVE  /\ NearestRange(x, i) # {} => Within(RangeOf(x, i), NearestRange(x, i))
         /\ \A m \in Ranged(x) :
              m < i /\ LogicalParent(x, m) = LogicalParent(x, i)
                => ~Overlap(RangeOf(x, m), RangeOf(x, i))
<1>1. Cidrs(x) \subseteq Problems(x)
  BY DEF Problems
<1>2. \A what : NodeError(i, what) \notin Cidrs(x)
  <2> SUFFICES ASSUME NEW what, NodeError(i, what) \in Cidrs(x) PROVE FALSE
    OBVIOUS
  <2>1. NodeError(i, what).level = "error"
    BY DEF NodeError, Problem
  <2> QED
    BY <1>1, <2>1 DEF Errors
<1> DEFINE range == [j \in Ranged(x) |-> RangeOf(x, j)]
           around == [j \in Ranged(x) |-> NearestRange(x, j)]
           clash(m, j) == /\ m < j /\ LogicalParent(x, m) = LogicalParent(x, j)
                          /\ Overlap(range[m], range[j])
           outside == {NodeError(j, <<"outside">>) :
                         j \in {k \in DOMAIN range :
                                  around[k] # {} /\ ~Within(range[k], around[k])}}
           overlaps == {NodeError(j, <<"overlaps">>) :
                          j \in {k \in DOMAIN range : \E m \in DOMAIN range : clash(m, k)}}
<1>3. Cidrs(x) = outside \cup overlaps
  BY DEF Cidrs
<1>4. ASSUME NearestRange(x, i) # {}, ~Within(RangeOf(x, i), NearestRange(x, i)) PROVE FALSE
  <2>1. NodeError(i, <<"outside">>) \in outside
    BY <1>4
  <2> QED
    BY <1>2, <1>3, <2>1
<1>5. ASSUME NEW m \in Ranged(x), m < i, LogicalParent(x, m) = LogicalParent(x, i),
             Overlap(RangeOf(x, m), RangeOf(x, i))
      PROVE  FALSE
  <2>1. clash(m, i)
    BY <1>5
  <2>2. NodeError(i, <<"overlaps">>) \in overlaps
    BY <1>5, <2>1
  <2> QED
    BY <1>2, <1>3, <2>2
<1> QED
  BY <1>4, <1>5

(* What comes before a list is in it, with the list.                       *)
LEMMA RangeCons ==
  ASSUME NEW a, NEW s, IsList(s)
  PROVE  Range(<<a>> \o s) = {a} \cup Range(s)
<1> DEFINE S == {a} \cup Range(s)
           t == <<a>> \o s
<1>1. s \in Seq(S) /\ <<a>> \in Seq(S) /\ Len(<<a>>) = 1
  <2>1. s \in Seq(Range(s))
    BY DEF IsList
  <2> QED
    BY <2>1
<1>2. Len(s) \in Nat /\ DOMAIN s = 1 .. Len(s)
  BY ListDomain
<1>3. DOMAIN t = 1 .. Len(s) + 1 /\ t[1] = a /\ \A k \in 1 .. Len(s) : t[k + 1] = s[k]
  <2>1. t \in Seq(S) /\ Len(t) = Len(s) + 1
    BY <1>1
  <2>2. DOMAIN t = 1 .. Len(t)
    BY <2>1
  <2> QED
    BY <1>1, <1>2, <2>1, <2>2
<1> HIDE DEF t
<1>4. ASSUME NEW k \in DOMAIN t PROVE t[k] \in {a} \cup Range(s)
  <2>1. CASE k = 1
    BY <1>3, <2>1
  <2>2. CASE k # 1
    <3>1. k - 1 \in 1 .. Len(s) /\ (k - 1) + 1 = k
      BY <1>2, <1>3, <2>2
    <3> QED
      BY <1>2, <1>3, <3>1 DEF Range
  <2> QED
    BY <2>1, <2>2
<1>5. a \in Range(t)
  <2>1. 1 \in DOMAIN t
    BY <1>2, <1>3
  <2> QED
    BY <1>3, <2>1 DEF Range
<1>6. ASSUME NEW k \in DOMAIN s PROVE s[k] \in Range(t)
  <2>1. k + 1 \in DOMAIN t /\ t[k + 1] = s[k]
    BY <1>2, <1>3
  <2> QED
    BY <2>1 DEF Range
<1>7. Range(t) \subseteq {a} \cup Range(s)
  BY <1>4 DEF Range
<1>8. {a} \cup Range(s) \subseteq Range(t)
  BY <1>5, <1>6 DEF Range
<1> QED
  BY <1>7, <1>8 DEF t

(* The range around a node is within that of any box further out.          *)
LEMMA NearestIsWithin ==
  ASSUME NEW d, Clean(d), NEW i \in DOMAIN d.nodes
  PROVE  LET x == Index(d) IN
         \A j \in Ranged(x) \cap Range(x.chain[i]) :
           NearestRange(x, i) # {} /\ NearestRange(x, i) \subseteq RangeOf(x, j)
<1> DEFINE x == Index(d)
           near(k) == NearestRange(x, k)
           r(k) == RangeOf(x, k)
           Good(k) == \A j \in Ranged(x) \cap Range(x.chain[k]) :
                        near(k) # {} /\ near(k) \subseteq r(j)
           S == {k \in DOMAIN d.nodes : Good(k)}
<1>1. x.nodes = d.nodes /\ Errors(Problems(x)) = {}
  BY IndexNodes DEF Clean
<1>2. \A k \in Ranged(x) : r(k) # {}
  BY DEF Ranged
<1>3. ASSUME NEW k \in DOMAIN d.nodes, Up(d, k) = 0 PROVE Good(k)
  <2>1. x.chain[k] = <<>>
    BY <1>3, ChainStep
  <2> QED
    BY <2>1 DEF Range
<1>4. ASSUME NEW k \in DOMAIN d.nodes, Up(d, k) # 0, Up(d, k) \in S PROVE Good(k)
  <2> DEFINE u == Up(d, k)
             c == x.chain[u]
  <2>1. u \in DOMAIN d.nodes /\ IsList(c) /\ x.chain[k] = <<u>> \o c
    BY <1>4, ChainStep
  <2>2. Range(x.chain[k]) = {u} \cup Range(c)
    BY <2>1, RangeCons, Zenon
  <2>3. near(k) = IF r(u) # {} THEN r(u) ELSE near(u)
    BY <1>4, NearestStep
  <2>4. Good(u)
    BY <1>4
  <2>5. u \in Ranged(x) /\ near(u) # {} => r(u) \subseteq near(u)
    <3> SUFFICES ASSUME u \in Ranged(x), near(u) # {} PROVE r(u) \subseteq near(u)
      OBVIOUS
    <3>1. Within(r(u), near(u))
      BY <1>1, CleanRanges
    <3>2. IsRange(r(u)) /\ r(u) # {}
      BY <1>2, RangesAre
    <3>3. IsRange(near(u))
      BY NearestIsRange
    <3> HIDE DEF r, near, u
    <3> QED
      BY <3>1, <3>2, <3>3, WithinIsSubset
  <2>6. u \in Ranged(x) <=> r(u) # {}
    BY <1>1, <2>1 DEF Ranged
  <2> HIDE DEF near, r, u, c, x
  <2> SUFFICES ASSUME NEW j \in Ranged(x), j \in Range(x.chain[k])
               PROVE  near(k) # {} /\ near(k) \subseteq r(j)
    OBVIOUS
  <2>7. CASE j = u
    BY <1>2, <2>3, <2>7
  <2>8. CASE j \in Range(c)
    <3>1. near(u) # {} /\ near(u) \subseteq r(j)
      BY <2>4, <2>8 DEF c
    <3>2. CASE r(u) # {}
      BY <2>3, <2>5, <2>6, <3>1, <3>2
    <3>3. CASE r(u) = {}
      BY <2>3, <3>1, <3>3
    <3> QED
      BY <3>2, <3>3
  <2> QED
    BY <2>2, <2>7, <2>8
<1> HIDE DEF Good
<1>5. \A k \in DOMAIN d.nodes : Up(d, k) = 0 \/ Up(d, k) \in S => k \in S
  BY <1>3, <1>4
<1> HIDE DEF S
<1>6. DOMAIN d.nodes \subseteq S
  BY <1>5, TreeInduction
<1>7. Good(i)
  BY <1>6 DEF S
<1> QED
  BY <1>7 DEF Good, x

(* So the range of a node is within that of every box it is in.            *)
LEMMA RangesNest ==
  ASSUME NEW d, Clean(d), NEW i \in Ranged(Index(d)), NEW j \in Ranged(Index(d)),
         j \in Range(Index(d).chain[i])
  PROVE  RangeOf(Index(d), i) \subseteq RangeOf(Index(d), j)
<1> DEFINE x == Index(d)
           near == NearestRange(x, i)
           r == RangeOf(x, i)
<1>1. x.nodes = d.nodes /\ Errors(Problems(x)) = {}
  BY IndexNodes DEF Clean
<1>2. i \in DOMAIN d.nodes /\ r # {} /\ i \in Ranged(x)
  BY <1>1 DEF Ranged
<1>3. near # {} /\ near \subseteq RangeOf(x, j)
  BY <1>2, NearestIsWithin
<1>4. Within(r, near)
  BY <1>1, <1>3, CleanRanges
<1>5. IsRange(r) /\ IsRange(near)
  BY RangesAre, NearestIsRange
<1> HIDE DEF r, near, x
<1>6. r \subseteq near
  BY <1>2, <1>4, <1>5, WithinIsSubset
<1> QED
  BY <1>3, <1>6 DEF r, x

(* And those of two boxes of one parent have no address in common.         *)
LEMMA SiblingsApart ==
  ASSUME NEW x, Errors(Problems(x)) = {}, IsList(x.nodes),
         NEW p, NEW q, SideBySide(x, p, q)
  PROVE  RangeOf(x, p) \cap RangeOf(x, q) = {}
<1>1. p # q /\ p \in Ranged(x) /\ q \in Ranged(x) /\ x.above[p] = x.above[q]
  BY DEF SideBySide
<1>2. LogicalParent(x, p) = LogicalParent(x, q)
  BY <1>1 DEF LogicalParent
<1>3. p \in Nat /\ q \in Nat
  <2>1. DOMAIN x.nodes = 1 .. Len(x.nodes) /\ Len(x.nodes) \in Nat
    BY ListDomain
  <2> QED
    BY <1>1, <2>1 DEF Ranged
<1>4. CASE p < q
  <2>1. ~Overlap(RangeOf(x, p), RangeOf(x, q))
    BY <1>1, <1>2, <1>4, CleanRanges
  <2> QED
    BY <2>1, RangesAre, OverlapIsShared
<1>5. CASE q < p
  <2>1. ~Overlap(RangeOf(x, q), RangeOf(x, p))
    BY <1>1, <1>2, <1>5, CleanRanges
  <2>2. RangeOf(x, q) \cap RangeOf(x, p) = {}
    BY <2>1, RangesAre, OverlapIsShared
  <2> QED
    BY <2>2
<1> QED
  BY <1>1, <1>3, <1>4, <1>5

(* The ranges of what is generated are those of the index.                 *)
LEMMA RangesAlike ==
  ASSUME NEW d
  PROVE  LET g == Generation(Index(d))
             x == Index(d) IN
         /\ Ranged(g) = Ranged(x) /\ \A i : RangeOf(g, i) = RangeOf(x, i)
         /\ \A i : Upwards(g, i) = Upwards(x, i)
         /\ \A p, q : SideBySide(g, p, q) = SideBySide(x, p, q)
<1> DEFINE g == Generation(Index(d))
           x == Index(d)
<1>1. g.nodes = x.nodes /\ g.chain = x.chain /\ g.above = x.above
  <2>1. g.nodes = d.nodes /\ g.chain = x.chain /\ g.above = x.above
    BY GenerationIs
  <2>2. x.nodes = d.nodes
    BY IndexNodes
  <2> HIDE DEF g, x
  <2> QED
    BY <2>1, <2>2
<1> HIDE DEF g, x
<1>2. \A i : RangeOf(g, i) = RangeOf(x, i)
  BY <1>1 DEF RangeOf, Prop
<1>3. Ranged(g) = Ranged(x)
  BY <1>1, <1>2 DEF Ranged
<1>4. \A i : Upwards(g, i) = Upwards(x, i)
  BY <1>1 DEF Upwards
<1>5. \A p, q : SideBySide(g, p, q) = SideBySide(x, p, q)
  BY <1>1, <1>3, Zenon DEF SideBySide
<1> QED
  BY <1>2, <1>3, <1>4, <1>5 DEF g, x

(* Address ranges of a valid diagram are nested as the boxes are           *)
(* (validate.go, cidrs), though the validator only compares a range with   *)
(* the nearest one around it and with those of the same logical parent,    *)
(* and looks at nothing but the ends of a range.                           *)
THEOREM RangesAreApart == Spec => []RangesApart
<1>1. ASSUME ListInv, IndexInv, BuiltInv, IsBuilt, NEW i \in Ranged(built), NEW j \in Ranged(built)
      PROVE  /\ j \in Range(built.chain[i]) => RangeOf(built, i) \subseteq RangeOf(built, j)
             /\ \A p \in Upwards(built, i), q \in Upwards(built, j) :
                  SideBySide(built, p, q) => RangeOf(built, i) \cap RangeOf(built, j) = {}
  <2> DEFINE x == Index(doc)
             r(k) == RangeOf(x, k)
  <2>1. Clean(doc) /\ built = Generation(x)
    BY <1>1, BuiltIs DEF Clean, IsBuilt
  <2>2. built.chain = x.chain
    BY <2>1, GenerationIs
  <2>3. /\ Ranged(built) = Ranged(x) /\ \A k : RangeOf(built, k) = r(k)
        /\ \A k : Upwards(built, k) = Upwards(x, k)
        /\ \A p, q : SideBySide(built, p, q) = SideBySide(x, p, q)
    BY <2>1, RangesAlike
  <2>4. ASSUME NEW k \in Ranged(x), NEW m \in Ranged(x), m \in Range(x.chain[k])
        PROVE  r(k) \subseteq r(m)
    BY <2>1, <2>4, RangesNest
  <2>5. ASSUME NEW p \in Upwards(x, i), NEW q \in Upwards(x, j), SideBySide(x, p, q)
        PROVE  r(i) \cap r(j) = {}
    <3>1. p \in Ranged(x) /\ q \in Ranged(x)
      BY <2>5 DEF SideBySide
    <3>2. x.nodes = doc.nodes /\ Errors(Problems(x)) = {} /\ IsList(doc.nodes)
      BY <2>1, IndexNodes DEF Clean
    <3> HIDE DEF x
    <3>3. r(p) \cap r(q) = {}
      BY <2>5, <3>2, SiblingsApart
    <3>4. ASSUME NEW k \in Ranged(x), NEW m \in Ranged(x), m \in Upwards(x, k)
          PROVE  r(k) \subseteq r(m)
      BY <2>4, <3>4 DEF Upwards
    <3>5. r(i) \subseteq r(p) /\ r(j) \subseteq r(q)
      BY <2>3, <3>1, <3>4
    <3> QED
      BY <3>3, <3>5
  <2> HIDE DEF x, r
  <2> QED
    BY <2>2, <2>3, <2>4, <2>5
<1>2. ListInv /\ IndexInv /\ BuiltInv => RangesApart
  BY <1>1 DEF RangesApart
<1> QED
  BY <1>2, ListsAreLists, HandedOn, PTL

-----------------------------------------------------------------------------
(* What is above a node, group boxes left out, and whose credentials it has. *)

(* The fold of Among, step by step.                                        *)
LEMMA AmongSteps ==
  ASSUME NEW t, NEW S, NEW n \in Nat, NEW f, AmongUpTo(t, S, n, f)
  PROVE  /\ f[0] = <<>>
         /\ \A k \in Nat : k + 1 <= n =>
              f[k + 1] = IF t[k + 1] \in S THEN Append(f[k], t[k + 1]) ELSE f[k]
<1>1. f[0] = <<>>
  BY DEF AmongUpTo
<1>2. ASSUME NEW k \in Nat, k + 1 <= n
      PROVE  f[k + 1] = IF t[k + 1] \in S THEN Append(f[k], t[k + 1]) ELSE f[k]
  <2>1. k + 1 \in 0 .. n /\ k + 1 # 0 /\ (k + 1) - 1 = k
    BY <1>2
  <2> QED
    BY <2>1 DEF AmongUpTo
<1> QED
  BY <1>1, <1>2

(* What is kept of a list with one more element in front.                  *)
LEMMA AmongCons ==
  ASSUME NEW a, NEW s, IsList(s), NEW S
  PROVE  Among(<<a>> \o s, S) = IF a \in S THEN <<a>> \o Among(s, S) ELSE Among(s, S)
<1> DEFINE n == Len(s)
           t == <<a>> \o s
<1>1. n \in Nat /\ DOMAIN s = 1 .. n
  BY ListDomain
<1>2. /\ Len(t) = n + 1 /\ t[1] = a /\ \A k \in 1 .. n : t[k + 1] = s[k]
  <2> DEFINE U == {a} \cup Range(s)
  <2>1. s \in Seq(U) /\ <<a>> \in Seq(U) /\ Len(<<a>>) = 1
    <3>1. s \in Seq(Range(s))
      BY DEF IsList
    <3> QED
      BY <3>1
  <2> QED
    BY <1>1, <2>1
<1> HIDE DEF n, t
<1>3. PICK f : AmongUpTo(t, S, n + 1, f) /\ Among(t, S) = f[n + 1]
  BY <1>1, <1>2, AmongIsKept
<1>4. PICK g : AmongUpTo(s, S, n, g) /\ Among(s, S) = g[n]
  BY <1>1, AmongIsKept DEF n
<1>9. /\ f[0] = <<>>
      /\ \A k \in Nat : k + 1 <= n + 1 =>
           f[k + 1] = IF t[k + 1] \in S THEN Append(f[k], t[k + 1]) ELSE f[k]
  <2>1. AmongUpTo(t, S, n + 1, f) /\ n + 1 \in Nat
    BY <1>1, <1>3
  <2> HIDE DEF AmongUpTo
  <2> QED
    BY ONLY <2>1, AmongSteps
<1> DEFINE then(q) == IF a \in S THEN <<a>> \o q ELSE q
           T == {k \in Nat : k <= n => IsList(g[k]) /\ f[k + 1] = then(g[k])}
<1>5. 0 \in T
  <2>1. g[0] = <<>>
    BY <1>1, <1>4 DEF AmongUpTo
  <2>2. f[0] = <<>> /\ f[1] = IF a \in S THEN Append(f[0], a) ELSE f[0]
    <3>1. n + 1 \in Nat /\ 0 + 1 <= n + 1 /\ 0 + 1 = 1
      BY <1>1
    <3>2. f[0] = <<>> /\ f[0 + 1] = IF t[0 + 1] \in S THEN Append(f[0], t[0 + 1]) ELSE f[0]
      BY <1>9, <3>1
    <3> QED
      BY <1>2, <3>1, <3>2
  <2>3. Append(<<>>, a) = <<a>> /\ <<a>> \o <<>> = <<a>>
    OBVIOUS
  <2>4. f[0 + 1] = f[1]
    OBVIOUS
  <2>5. IsList(g[0])
    BY <2>1, EmptyList
  <2>6. f[0 + 1] = then(g[0])
    BY <2>1, <2>2, <2>3, <2>4
  <2> HIDE DEF then
  <2> QED
    BY <2>5, <2>6
<1>6. ASSUME NEW k \in Nat, k \in T PROVE k + 1 \in T
  <2> SUFFICES ASSUME k + 1 <= n PROVE IsList(g[k + 1]) /\ f[(k + 1) + 1] = then(g[k + 1])
    OBVIOUS
  <2>1. IsList(g[k]) /\ f[k + 1] = then(g[k])
    BY <1>1, <1>6
  <2>2. g[k + 1] = IF s[k + 1] \in S THEN Append(g[k], s[k + 1]) ELSE g[k]
    <3>1. k + 1 \in 0 .. n /\ k + 1 # 0 /\ (k + 1) - 1 = k
      BY <1>1
    <3> QED
      BY <1>4, <3>1 DEF AmongUpTo
  <2>3. f[(k + 1) + 1] = IF s[k + 1] \in S THEN Append(f[k + 1], s[k + 1]) ELSE f[k + 1]
    <3>1. /\ (k + 1) + 1 \in 0 .. n + 1 /\ (k + 1) + 1 # 0
          /\ ((k + 1) + 1) - 1 = k + 1 /\ k + 1 \in 1 .. n
      BY <1>1
    <3>2. t[(k + 1) + 1] = s[k + 1]
      BY <1>2, <3>1
    <3>3. n + 1 \in Nat /\ k + 1 \in Nat /\ (k + 1) + 1 <= n + 1
      BY <1>1
    <3>4. f[(k + 1) + 1] = IF t[(k + 1) + 1] \in S THEN Append(f[k + 1], t[(k + 1) + 1])
                           ELSE f[k + 1]
      BY <1>9, <3>3
    <3> QED
      BY <3>2, <3>4
  <2> DEFINE e == s[k + 1]
             q == g[k]
  <2>4. IsList(Append(q, e)) /\ <<a>> \o Append(q, e) = Append(<<a>> \o q, e)
    <3> HIDE DEF e, q
    <3> DEFINE U == {a, e} \cup Range(q)
    <3>1. IsList(q)
      BY <2>1 DEF q
    <3>2. q \in Seq(U) /\ <<a>> \in Seq(U) /\ e \in U
      <4>1. q \in Seq(Range(q))
        BY <3>1 DEF IsList
      <4> QED
        BY <4>1
    <3> HIDE DEF U
    <3>3. <<a>> \o Append(q, e) = Append(<<a>> \o q, e)
      BY <3>2
    <3> QED
      BY <3>1, <3>3, ListAppend
  <2> HIDE DEF e, q
  <2>5. CASE e \in S
    <3>1. g[k + 1] = Append(q, e) /\ f[(k + 1) + 1] = Append(then(q), e)
      BY <2>1, <2>2, <2>3, <2>5 DEF e, q
    <3>2. Append(then(q), e) = then(Append(q, e))
      BY <2>4
    <3> QED
      BY <2>4, <3>1, <3>2
  <2>6. CASE e \notin S
    <3> HIDE DEF then
    <3> QED
      BY <2>1, <2>2, <2>3, <2>6 DEF e, q
  <2> QED
    BY <2>5, <2>6
<1> HIDE DEF T, then
<1>7. n \in T
  BY <1>1, <1>5, <1>6, Induction
<1>8. f[n + 1] = then(g[n])
  BY <1>1, <1>7 DEF T
<1> QED
  BY <1>3, <1>4, <1>8 DEF then, t

(* What is above a node: the box it is drawn in, if that has a meaning in  *)
(* Terraform, and what is above that box.                                  *)
LEMMA AboveStep ==
  ASSUME NEW d, Clean(d), NEW i \in DOMAIN d.nodes
  PROVE  LET x == Index(d)
             u == Up(d, i) IN
         /\ IsList(x.above[i]) /\ Range(x.above[i]) \subseteq DOMAIN d.nodes \ x.drawn
         /\ u = 0 => x.above[i] = <<>>
         /\ u # 0 => /\ u \in DOMAIN d.nodes
                     /\ x.above[i] = IF u \in x.drawn THEN x.above[u] ELSE <<u>> \o x.above[u]
<1> DEFINE x == Index(d)
           u == Up(d, i)
           S == DOMAIN d.nodes \ x.drawn
           c == x.chain[i]
           b == x.chain[u]
<1>1. \A k \in DOMAIN d.nodes : x.above[k] = Among(x.chain[k], S)
  BY IndexWalk
<1>2. /\ IsList(c)
      /\ u = 0 => c = <<>>
      /\ u # 0 => u \in DOMAIN d.nodes /\ IsList(b) /\ c = <<u>> \o b
  BY ChainStep
<1> HIDE DEF x, u, c, b, S
<1>3. x.above[i] = Among(c, S)
  BY <1>1 DEF c
<1>4. IsList(Among(c, S)) /\ Range(Among(c, S)) \subseteq S
  BY <1>2, AmongFacts
<1>5. ASSUME u = 0 PROVE x.above[i] = <<>>
  <2>1. Range(Among(c, S)) = {}
    <3>1. Range(c) = {}
      BY <1>2, <1>5 DEF Range
    <3> QED
      BY <1>2, <3>1, AmongFacts
  <2>2. DOMAIN Among(c, S) = {}
    BY <2>1 DEF Range
  <2>3. Len(Among(c, S)) = 0
    <3>1. Len(Among(c, S)) \in Nat /\ DOMAIN Among(c, S) = 1 .. Len(Among(c, S))
      BY <1>4, ListDomain
    <3>2. Len(Among(c, S)) # 0 => 1 \in DOMAIN Among(c, S)
      BY <3>1
    <3> QED
      BY <2>2, <3>2
  <2> QED
    BY <1>3, <1>4, <2>3 DEF IsList
<1>6. ASSUME u # 0
      PROVE  /\ u \in DOMAIN d.nodes
             /\ x.above[i] = IF u \in x.drawn THEN x.above[u] ELSE <<u>> \o x.above[u]
  <2>1. u \in DOMAIN d.nodes /\ IsList(b) /\ c = <<u>> \o b
    BY <1>2, <1>6
  <2>2. Among(c, S) = IF u \in S THEN <<u>> \o Among(b, S) ELSE Among(b, S)
    BY <2>1, AmongCons
  <2>3. x.above[u] = Among(b, S)
    BY <1>1, <2>1 DEF b
  <2>4. u \in S <=> u \notin x.drawn
    BY <2>1 DEF S
  <2> QED
    BY <1>3, <2>1, <2>2, <2>3, <2>4
<1> QED
  BY <1>3, <1>4, <1>5, <1>6 DEF x, u, S

(* The first element of a list that has a property.                        *)
FirstOf(s, P) ==
  LET at == {k \in DOMAIN s : s[k] \in P} IN IF at = {} THEN 0 ELSE s[Min(at)]

(* It is one when there is any.                                            *)
LEMMA FirstIn ==
  ASSUME NEW s, IsList(s), NEW P, Range(s) \cap P # {}
  PROVE  FirstOf(s, P) \in Range(s) \cap P
<1> DEFINE at == {k \in DOMAIN s : s[k] \in P}
<1>1. DOMAIN s = 1 .. Len(s) /\ Len(s) \in Nat
  BY ListDomain
<1>2. at # {}
  BY DEF Range
<1>3. at \subseteq Nat
  BY <1>1
<1>4. Min(at) \in at
  BY <1>2, <1>3, MinOf
<1>5. FirstOf(s, P) = s[Min(at)]
  BY <1>2 DEF FirstOf
<1> QED
  BY <1>4, <1>5 DEF Range

(* Else it is nothing.                                                     *)
LEMMA FirstNone ==
  ASSUME NEW s, NEW P, Range(s) \cap P = {}
  PROVE  FirstOf(s, P) = 0
<1>1. {k \in DOMAIN s : s[k] \in P} = {}
  BY DEF Range
<1> QED
  BY <1>1 DEF FirstOf

(* With something before the list that has the property, it is that.       *)
LEMMA FirstCons ==
  ASSUME NEW a, NEW s, IsList(s), NEW P
  PROVE  FirstOf(<<a>> \o s, P) = IF a \in P THEN a ELSE FirstOf(s, P)
<1> DEFINE t == <<a>> \o s
           A == {k \in DOMAIN t : t[k] \in P}
           B == {k \in DOMAIN s : s[k] \in P}
           n == Len(s)
<1>1. n \in Nat /\ DOMAIN s = 1 .. n
  BY ListDomain
<1>2. DOMAIN t = 1 .. n + 1 /\ t[1] = a /\ \A k \in 1 .. n : t[k + 1] = s[k]
  <2> DEFINE U == {a} \cup Range(s)
  <2>1. s \in Seq(U) /\ <<a>> \in Seq(U) /\ Len(<<a>>) = 1
    <3>1. s \in Seq(Range(s))
      BY DEF IsList
    <3> QED
      BY <3>1
  <2>2. t \in Seq(U) /\ Len(t) = n + 1
    BY <1>1, <2>1
  <2>3. DOMAIN t = 1 .. Len(t)
    BY <2>2
  <2> QED
    BY <1>1, <2>1, <2>2, <2>3
<1>3. FirstOf(t, P) = IF A = {} THEN 0 ELSE t[Min(A)]
  BY DEF FirstOf
<1>4. FirstOf(s, P) = IF B = {} THEN 0 ELSE s[Min(B)]
  BY DEF FirstOf
<1>5. A \subseteq Nat /\ B \subseteq Nat
  BY <1>1, <1>2
<1> HIDE DEF n, t
<1>6. CASE a \in P
  <2>1. 1 \in A
    BY <1>1, <1>2, <1>6
  <2>2. 0 \notin A
    BY <1>2
  <2> HIDE DEF A
  <2> DEFINE m == Min(A)
  <2>3. m \in A /\ m <= 1
    BY <1>5, <2>1, MinOf
  <2>4. m \in Nat /\ m # 0
    BY <1>5, <2>2, <2>3
  <2>5. m <= 1
    BY <2>3
  <2> HIDE DEF m
  <2>6. m = 1
    BY <2>4, <2>5
  <2> QED
    BY <1>2, <1>3, <1>6, <2>1, <2>6 DEF m, t
<1>7. CASE a \notin P
  <2>1. \A k \in B : k + 1 \in A
    BY <1>1, <1>2
  <2>2. ASSUME NEW k \in A PROVE k - 1 \in B
    <3>1. k \in 1 .. n + 1 /\ t[k] \in P
      BY <1>2
    <3>2. k # 1
      BY <1>2, <1>7, <3>1
    <3>3. k - 1 \in 1 .. n /\ (k - 1) + 1 = k
      BY <1>1, <3>1, <3>2
    <3>4. t[k] = s[k - 1]
      BY <1>2, <3>3
    <3> QED
      BY <1>1, <3>1, <3>3, <3>4
  <2>3. \A k \in B : k \in 1 .. n
    BY <1>1
  <2> HIDE DEF A, B
  <2>4. CASE B = {}
    <3>1. A = {}
      BY <2>2, <2>4
    <3> QED
      BY <1>3, <1>4, <1>7, <2>4, <3>1 DEF t
  <2>5. CASE B # {}
    <3> DEFINE m == Min(A)
               l == Min(B)
    <3>1. l \in B /\ \A k \in B : l <= k
      BY <1>5, <2>5, MinOf
    <3>2. l + 1 \in A
      BY <2>1, <3>1
    <3>3. m \in A /\ \A k \in A : m <= k
      BY <1>5, <3>2, MinOf
    <3>4. m - 1 \in B
      BY <2>2, <3>3
    <3>5. m \in Nat /\ l \in Nat /\ m <= l + 1 /\ l <= m - 1
      BY <1>5, <3>1, <3>2, <3>3, <3>4
    <3>6. l \in 1 .. n
      BY <2>3, <3>1
    <3> HIDE DEF m, l
    <3>7. m = l + 1
      BY <3>5
    <3>8. t[m] = s[l]
      BY <1>2, <3>6, <3>7
    <3> QED
      BY <1>3, <1>4, <1>7, <2>5, <3>2, <3>8 DEF m, l, t
  <2> QED
    BY <2>4, <2>5
<1> QED
  BY <1>6, <1>7

(* A node of a diagram without errors is in a box that may contain it.     *)
LEMMA CleanPlace ==
  ASSUME NEW x, Errors(Problems(x)) = {}, NEW i \in DOMAIN x.nodes
  PROVE  LET l == LogicalParent(x, i) IN
         /\ ~(x.nodes[i].parent # "" /\ Node(x, x.nodes[i].parent) = 0)
         /\ CanContain(IF l = 0 THEN Root ELSE x.nodes[l].type, x.nodes[i].type)
<1> DEFINE n == x.nodes[i]
           l == LogicalParent(x, i)
           error(what) == NodeError(i, <<what>>)
           found == StructureOf(x, i)
<1>1. found \subseteq Problems(x)
  BY DEF Problems, Structure
<1>2. \A what : error(what) \notin found
  <2> SUFFICES ASSUME NEW what, error(what) \in found PROVE FALSE
    OBVIOUS
  <2>1. error(what).level = "error"
    BY DEF NodeError, Problem
  <2> HIDE DEF error, found
  <2> QED
    BY <1>1, <2>1 DEF Errors
<1>3. Known(n.type)
  BY CleanNode
<1>4. ASSUME n.parent # "", Node(x, n.parent) = 0 PROVE FALSE
  <2>1. error("no parent") \in found
    BY <1>3, <1>4, Zenon DEF StructureOf
  <2> QED
    BY <1>2, <2>1
<1>5. ASSUME ~CanContain(IF l = 0 THEN Root ELSE x.nodes[l].type, n.type) PROVE FALSE
  <2>1. error("misplaced") \in found
    BY <1>3, <1>4, <1>5, Zenon DEF StructureOf, When
  <2> QED
    BY <1>2, <2>1
<1> QED
  BY <1>4, <1>5

(* What is above a node is its logical parent, and what is above that.     *)
LEMMA LogicalStep ==
  ASSUME NEW d, Clean(d), NEW i \in DOMAIN d.nodes
  PROVE  LET x == Index(d)
             l == LogicalParent(x, i) IN
         \/ l = 0 /\ x.above[i] = <<>>
         \/ /\ l \in DOMAIN d.nodes \ x.drawn /\ l # 0
            /\ IsList(x.above[l]) /\ x.above[i] = <<l>> \o x.above[l]
<1> DEFINE x == Index(d)
           l(k) == LogicalParent(x, k)
           Good(k) == \/ l(k) = 0 /\ x.above[k] = <<>>
                      \/ /\ l(k) \in DOMAIN d.nodes \ x.drawn /\ l(k) # 0
                         /\ IsList(x.above[l(k)]) /\ x.above[k] = <<l(k)>> \o x.above[l(k)]
           S == {k \in DOMAIN d.nodes : Good(k)}
<1>1. \A k \in DOMAIN d.nodes : k # 0
  <2>1. DOMAIN d.nodes = 1 .. Len(d.nodes)
    BY ListDomain DEF Clean
  <2> QED
    BY <2>1
<1>2. ASSUME NEW k \in DOMAIN d.nodes, Up(d, k) = 0 PROVE Good(k)
  <2>1. x.above[k] = <<>>
    BY <1>2, AboveStep
  <2> HIDE DEF x
  <2> QED
    BY <2>1 DEF LogicalParent
<1>3. ASSUME NEW k \in DOMAIN d.nodes, Up(d, k) # 0, Up(d, k) \in S PROVE Good(k)
  <2> DEFINE u == Up(d, k)
  <2>1. /\ u \in DOMAIN d.nodes
        /\ x.above[k] = IF u \in x.drawn THEN x.above[u] ELSE <<u>> \o x.above[u]
    BY <1>3, AboveStep
  <2>2. Good(u)
    BY <1>3
  <2>3. IsList(x.above[u])
    BY <2>1, AboveStep
  <2> HIDE DEF x, u
  <2>4. CASE u \in x.drawn
    <3>1. x.above[k] = x.above[u]
      BY <2>1, <2>4
    <3>2. l(k) = l(u)
      BY <3>1 DEF LogicalParent
    <3> HIDE DEF l
    <3> QED
      BY <2>2, <3>1, <3>2
  <2>5. CASE u \notin x.drawn
    <3> DEFINE s == x.above[u]
    <3>1. x.above[k] = <<u>> \o s /\ IsList(s)
      BY <2>1, <2>3, <2>5
    <3> HIDE DEF s
    <3>2. <<u>> \o s # <<>> /\ (<<u>> \o s)[1] = u
      <4> DEFINE U == {u} \cup Range(s)
      <4>1. s \in Seq(U) /\ <<u>> \in Seq(U) /\ Len(<<u>>) = 1
        <5>1. s \in Seq(Range(s))
          BY <3>1 DEF IsList
        <5> QED
          BY <5>1
      <4>2. Len(<<u>> \o s) = Len(s) + 1 /\ Len(s) \in Nat
        BY <4>1
      <4>3. <<u>> \o s # <<>>
        BY <4>2
      <4>4. (<<u>> \o s)[1] = u
        BY <4>1
      <4> QED
        BY <4>3, <4>4
    <3>3. l(k) = u
      BY <3>1, <3>2 DEF LogicalParent
    <3> HIDE DEF l
    <3> QED
      BY <1>1, <2>1, <2>5, <3>1, <3>3 DEF s
  <2> QED
    BY <2>4, <2>5
<1> HIDE DEF Good
<1>4. \A k \in DOMAIN d.nodes : Up(d, k) = 0 \/ Up(d, k) \in S => k \in S
  BY <1>2, <1>3
<1> HIDE DEF S
<1>5. DOMAIN d.nodes \subseteq S
  BY <1>4, TreeInduction
<1>6. Good(i)
  BY <1>5 DEF S
<1> QED
  BY <1>6 DEF Good, x

(* What is shown of a logical parent and its child is shown of all.        *)
LEMMA LogicalInduction ==
  ASSUME NEW d, Clean(d), NEW S,
         \A i \in DOMAIN d.nodes :
           LogicalParent(Index(d), i) = 0 \/ LogicalParent(Index(d), i) \in S => i \in S
  PROVE  DOMAIN d.nodes \subseteq S
<1> DEFINE x == Index(d)
           l(k) == LogicalParent(x, k)
           T == {k \in DOMAIN d.nodes : Range(x.above[k]) \subseteq S}
<1>1. ASSUME NEW k \in DOMAIN d.nodes, Range(x.above[k]) \subseteq S PROVE k \in S
  <2>1. CASE l(k) = 0
    BY <2>1
  <2>2. CASE l(k) # 0
    <3>1. x.above[k] = <<l(k)>> \o x.above[l(k)] /\ IsList(x.above[l(k)])
      BY <2>2, LogicalStep
    <3> DEFINE a == l(k)
               s == x.above[a]
    <3>2. x.above[k] = <<a>> \o s /\ IsList(s)
      BY <3>1
    <3>3. Range(<<a>> \o s) = {a} \cup Range(s)
      BY <3>2, RangeCons
    <3>4. a \in S
      BY <1>1, <3>2, <3>3
    <3> QED
      BY <3>4
  <2> QED
    BY <2>1, <2>2
<1>2. ASSUME NEW k \in DOMAIN d.nodes, Up(d, k) = 0 \/ Up(d, k) \in T PROVE k \in T
  <2>1. CASE Up(d, k) = 0
    <3>1. x.above[k] = <<>>
      BY <2>1, AboveStep
    <3> QED
      BY <3>1 DEF Range
  <2>2. CASE Up(d, k) # 0
    <3> DEFINE u == Up(d, k)
               s == x.above[u]
    <3>1. u \in DOMAIN d.nodes /\ x.above[k] = IF u \in x.drawn THEN s ELSE <<u>> \o s
      BY <2>2, AboveStep
    <3>2. IsList(s)
      BY <3>1, AboveStep
    <3>3. Range(s) \subseteq S /\ u \in S
      BY <1>1, <1>2, <2>2, <3>1
    <3>4. Range(<<u>> \o s) = {u} \cup Range(s)
      BY <3>2, RangeCons
    <3> HIDE DEF s, u
    <3> QED
      BY <3>1, <3>3, <3>4
  <2> QED
    BY <2>1, <2>2
<1>3. \A k \in DOMAIN d.nodes : Up(d, k) = 0 \/ Up(d, k) \in T => k \in T
  BY <1>2
<1>4. DOMAIN d.nodes \subseteq T
  <2> HIDE DEF T
  <2> QED
    BY <1>3, TreeInduction
<1> QED
  BY <1>1, <1>4

(* What is drawn in a box that is no group is of the provider of the box.  *)
LEMMA ProviderKept ==
  ASSUME NEW p, NEW c, Known(p), ~Entry[p].transparent, CanContain(p, c),
         HasTerraform(Entry[c].provider)
  PROVE  Entry[p].provider = Entry[c].provider
<1>1. c \in Types /\ p \in Types
  BY DEF CanContain, Known
<1>2. /\ AnyParent \notin Entry[c].parents
      /\ \A t \in Entry[c].parents \cap Types : Entry[t].provider = Entry[c].provider
  BY <1>1, HomeAssumption
<1>3. p # Root
  BY <1>1, HomeAssumption
<1>4. CASE Entry[c].attachment
  BY <1>3, <1>4 DEF CanContain
<1>5. CASE ~Entry[c].attachment
  <2>1. p \in Entry[c].parents
    BY <1>2, <1>3, <1>5 DEF CanContain
  <2> QED
    BY <1>1, <1>2, <2>1
<1> QED
  BY <1>4, <1>5

(* What an account may be in.                                              *)
IsOuter(outer) ==
  /\ \A t \in outer : RoleOf(t) \notin {"account", "region"}
  /\ \A t \in outer \cup {a \in Types : RoleOf(a) = "account"} : IsDrawnIn(t, outer)

(* So what an account, or anything around one, is drawn in is of these.    *)
LEMMA OuterKept ==
  ASSUME NEW outer, IsOuter(outer), NEW p, NEW c, Known(p), ~Entry[p].transparent,
         CanContain(p, c), HasTerraform(Entry[c].provider), c \in outer \/ RoleOf(c) = "account"
  PROVE  p \in outer
<1>1. c \in Types /\ p \in Types
  BY DEF CanContain, Known
<1>2. AnyParent \notin Entry[c].parents
  BY <1>1, HomeAssumption
<1>3. p # Root
  BY <1>1, HomeAssumption
<1>4. ~Entry[c].attachment /\ ~Entry[c].component /\ Entry[c].parents \subseteq outer \cup {Root}
  BY <1>1 DEF IsOuter, IsDrawnIn
<1>5. p \in Entry[c].parents
  BY <1>2, <1>3, <1>4 DEF CanContain
<1> QED
  BY <1>3, <1>4, <1>5

(* A logical parent is no group, and may contain its child.                *)
LEMMA ParentContains ==
  ASSUME NEW d, Clean(d), NEW i \in DOMAIN d.nodes, LogicalParent(Index(d), i) # 0
  PROVE  LET l == LogicalParent(Index(d), i) IN
         /\ l \in DOMAIN d.nodes
         /\ Known(d.nodes[l].type) /\ ~Entry[d.nodes[l].type].transparent
         /\ CanContain(d.nodes[l].type, d.nodes[i].type)
<1> DEFINE x == Index(d)
           l == LogicalParent(x, i)
<1>1. l \in DOMAIN d.nodes \ x.drawn
  BY LogicalStep
<1>2. x.drawn = Drawn(d)
  BY IndexWalk
<1>3. x.nodes = d.nodes /\ Errors(Problems(x)) = {}
  BY IndexNodes DEF Clean
<1>4. l # 0
  OBVIOUS
<1> HIDE DEF x, l
<1>5. Known(d.nodes[l].type)
  BY <1>1, <1>3, CleanNode
<1>6. ~Entry[d.nodes[l].type].transparent
  BY <1>1, <1>2, <1>5 DEF Drawn
<1>7. CanContain(IF l = 0 THEN Root ELSE x.nodes[l].type, x.nodes[i].type)
  BY <1>3, CleanPlace DEF l
<1> QED
  BY <1>1, <1>3, <1>4, <1>5, <1>6, <1>7 DEF l, x

(* All that is above an element that comes to Terraform is of its provider,*)
(* and nothing above an account is an account or a region.                 *)
LEMMA AboveIsOfProvider ==
  ASSUME NEW d, Clean(d), NEW outer, IsOuter(outer), NEW i \in DOMAIN d.nodes,
         HasTerraform(Entry[d.nodes[i].type].provider)
  PROVE  LET x == Index(d)
             t(k) == d.nodes[k].type IN
         \A j \in Range(x.above[i]) :
           /\ Entry[t(j)].provider = Entry[t(i)].provider
           /\ t(i) \in outer \/ RoleOf(t(i)) = "account" => t(j) \in outer
<1> DEFINE x == Index(d)
           t(k) == d.nodes[k].type
           l(k) == LogicalParent(x, k)
           p(k) == Entry[t(k)].provider
           low(k) == t(k) \in outer \/ RoleOf(t(k)) = "account"
           Good(k) == HasTerraform(p(k)) =>
                        \A j \in Range(x.above[k]) : p(j) = p(k) /\ (low(k) => t(j) \in outer)
           S == {k \in DOMAIN d.nodes : Good(k)}
<1>1. ASSUME NEW k \in DOMAIN d.nodes, l(k) = 0 PROVE Good(k)
  <2>1. x.above[k] = <<>>
    BY <1>1, LogicalStep
  <2> QED
    BY <2>1 DEF Range
<1>2. ASSUME NEW k \in DOMAIN d.nodes, l(k) # 0, l(k) \in S PROVE Good(k)
  <2> DEFINE a == l(k)
             s == x.above[a]
  <2>1. x.above[k] = <<a>> \o s /\ IsList(s)
    BY <1>2, LogicalStep
  <2>2. Range(<<a>> \o s) = {a} \cup Range(s)
    BY <2>1, RangeCons
  <2>3. Known(t(a)) /\ ~Entry[t(a)].transparent /\ CanContain(t(a), t(k))
    BY <1>2, ParentContains
  <2>4. Good(a)
    BY <1>2
  <2> HIDE DEF x, a, s
  <2> SUFFICES ASSUME HasTerraform(p(k)), NEW j \in Range(x.above[k])
               PROVE  p(j) = p(k) /\ (low(k) => t(j) \in outer)
    BY Zenon
  <2>5. p(a) = p(k)
    BY <2>3, ProviderKept
  <2>6. low(k) => t(a) \in outer
    BY <2>3, OuterKept
  <2>7. CASE j = a
    BY <2>5, <2>6, <2>7
  <2>8. CASE j \in Range(s)
    <3>1. p(j) = p(a) /\ (low(a) => t(j) \in outer)
      BY <2>4, <2>5, <2>8 DEF s
    <3> QED
      BY <2>5, <2>6, <3>1
  <2> QED
    BY <2>1, <2>2, <2>7, <2>8
<1> HIDE DEF Good
<1>3. \A k \in DOMAIN d.nodes :
        LogicalParent(Index(d), k) = 0 \/ LogicalParent(Index(d), k) \in S => k \in S
  BY <1>1, <1>2
<1> HIDE DEF S
<1>4. DOMAIN d.nodes \subseteq S
  BY <1>3, LogicalInduction
<1>5. Good(i)
  BY <1>4 DEF S
<1> QED
  BY <1>5 DEF Good

(* The nodes of a role, and those with a provider block of their own.      *)
OfRole(d, role) == {k \in DOMAIN d.nodes : RoleOf(d.nodes[k].type) = role}

(* Generate: these are the regions, and the accounts without a region.     *)
LEMMA AliasedAre ==
  ASSUME NEW d
  PROVE  Generation(Index(d)).aliased =
           OfRole(d, "region")
           \cup {k \in OfRole(d, "account") :
                   \A r \in OfRole(d, "region") : LogicalParent(Index(d), r) # k}
<1> DEFINE x == Index(d)
           role == [i \in DOMAIN d.nodes |-> RoleOf(d.nodes[i].type)]
           address == [i \in DOMAIN d.nodes |-> AddressOf(d.nodes[i])]
           r == [address |-> address, role |-> role, aliased |-> Aliased(x, role),
                 block |-> [o \in Owners(x, address) |->
                              IF o[1] = "node" THEN address[o[2]] ELSE LinkAddress(x, o[2])]]
<1>1. DOMAIN x = {"nodes", "edges", "walk", "drawn", "chain", "above", "given",
                  "src", "dst", "rule"}
  BY DEF Index, Lines, WithChains, ++
<1>2. x.nodes = d.nodes
  BY IndexNodes
<1>3. Generation(x) = x ++ r
  BY <1>2 DEF Generation, WithBlocks
<1>4. "aliased" \in DOMAIN r /\ r.aliased = Aliased(x, role)
  <2> HIDE DEF address, role
  <2> QED
    OBVIOUS
<1> HIDE DEF x, r
<1>5. Generation(x).aliased = Aliased(x, role)
  <2> HIDE DEF role
  <2> QED
    BY <1>1, <1>3, <1>4 DEF ++
<1>6. {i \in DOMAIN role : role[i] = "region"} = OfRole(d, "region")
  BY DEF OfRole
<1>7. Aliased(x, role) = OfRole(d, "region")
        \cup {k \in OfRole(d, "account") : \A q \in OfRole(d, "region") : LogicalParent(x, q) # k}
  BY <1>6 DEF Aliased, OfRole
<1> QED
  BY <1>5, <1>7 DEF x

(* The account around a node.                                              *)
Account(d, i) == FirstOf(Index(d).above[i], OfRole(d, "account"))

(* Around what is above the node it is the same one: a region the node is  *)
(* in is in the same account, and it is in no other account.               *)
LEMMA OneAccount ==
  ASSUME NEW d, Clean(d), NEW outer, IsOuter(outer), NEW i \in DOMAIN d.nodes,
         Account(d, i) # 0
  PROVE  \A j \in Range(Index(d).above[i]) :
           /\ j \in OfRole(d, "account") => j = Account(d, i)
           /\ j \in OfRole(d, "region") => Account(d, j) = Account(d, i)
<1> DEFINE x == Index(d)
           l(k) == LogicalParent(x, k)
           A == OfRole(d, "account")
           R == OfRole(d, "region")
           a(k) == Account(d, k)
           Good(k) == a(k) # 0 =>
                        \A j \in Range(x.above[k]) : /\ j \in A => j = a(k)
                                                     /\ j \in R => a(j) = a(k)
           S == {k \in DOMAIN d.nodes : Good(k)}
<1>1. ASSUME NEW k \in DOMAIN d.nodes, l(k) = 0 PROVE Good(k)
  <2>1. x.above[k] = <<>>
    BY <1>1, LogicalStep
  <2> QED
    BY <2>1 DEF Range
<1>2. ASSUME NEW k \in DOMAIN d.nodes, l(k) # 0, l(k) \in S PROVE Good(k)
  <2> DEFINE b == l(k)
             s == x.above[b]
  <2>1. x.above[k] = <<b>> \o s /\ IsList(s)
    BY <1>2, LogicalStep
  <2>2. Range(<<b>> \o s) = {b} \cup Range(s)
    BY <2>1, RangeCons
  <2>3. a(k) = IF b \in A THEN b ELSE a(b)
    <3> HIDE DEF b, s, x
    <3>1. FirstOf(<<b>> \o s, A) = IF b \in A THEN b ELSE FirstOf(s, A)
      BY <2>1, FirstCons
    <3> QED
      BY <2>1, <3>1 DEF Account, s, x
  <2>4. Good(b) /\ b \in DOMAIN d.nodes
    BY <1>2
  <2>5. \A m \in OfRole(d, "account") : m \notin OfRole(d, "region")
    BY DEF OfRole
  <2>6. CASE b \in A
    <3>1. RoleOf(d.nodes[b].type) = "account"
      BY <2>6 DEF OfRole
    <3>2. HasTerraform(Entry[d.nodes[b].type].provider)
      <4>1. d.nodes[b].type \in Types
        BY <3>1 DEF RoleOf, Known
      <4> HIDE DEF b
      <4> QED
        BY <3>1, <4>1, HomeAssumption
    <3>3. \A j \in Range(s) : d.nodes[j].type \in outer
      BY <2>4, <3>1, <3>2, AboveIsOfProvider
    <3>4. \A j \in Range(s) : j \notin A /\ j \notin R
      BY <3>3 DEF OfRole, IsOuter
    <3> HIDE DEF b, s, a, A, R
    <3> QED
      BY <2>1, <2>2, <2>3, <2>5, <2>6, <3>4 DEF A, R
  <2>7. CASE b \notin A
    <3>1. a(k) = a(b)
      BY <2>3, <2>7
    <3>2. Range(x.above[k]) = {b} \cup Range(s)
      BY <2>1, <2>2
    <3>3. a(b) # 0 => \A j \in Range(s) : (j \in A => j = a(b)) /\ (j \in R => a(j) = a(b))
      BY <2>4
    <3> HIDE DEF b, s, a, A, R, x
    <3> QED
      BY <2>7, <3>1, <3>2, <3>3
  <2> QED
    BY <2>6, <2>7
<1> HIDE DEF Good
<1>3. \A k \in DOMAIN d.nodes :
        LogicalParent(Index(d), k) = 0 \/ LogicalParent(Index(d), k) \in S => k \in S
  BY <1>1, <1>2
<1> HIDE DEF S
<1>4. DOMAIN d.nodes \subseteq S
  BY <1>3, LogicalInduction
<1>5. Good(i)
  BY <1>4 DEF S
<1> QED
  BY <1>5 DEF Good

(* The account and the provider of a node, looked up in what is generated. *)
LEMMA LookedUp ==
  ASSUME NEW d, Clean(d), NEW i \in DOMAIN d.nodes
  PROVE  LET g == Generation(Index(d)) IN
         /\ AccountOf(g, i) = Account(d, i)
         /\ LET fits == {k \in g.aliased : Entry[d.nodes[k].type].provider =
                                             Entry[d.nodes[i].type].provider}
            IN  FirstOf(g.above[i], fits) # 0 => ProviderOf(g, i) = FirstOf(g.above[i], fits)
<1> DEFINE x == Index(d)
           g == Generation(x)
           a == x.above[i]
           p == Entry[d.nodes[i].type].provider
           fits == {k \in g.aliased : Entry[d.nodes[k].type].provider = p}
<1>1. g.nodes = d.nodes /\ g.above = x.above
  <2>1. x.nodes = d.nodes
    BY IndexNodes
  <2> QED
    BY <2>1, GenerationIs
<1>2. g.role = [k \in DOMAIN d.nodes |-> RoleOf(d.nodes[k].type)]
  BY IndexNodes, GenerationIs
<1>3. \A k \in DOMAIN a : a[k] \in DOMAIN d.nodes
  <2>1. Range(a) \subseteq DOMAIN d.nodes
    BY AboveStep
  <2> QED
    BY <2>1 DEF Range
<1> HIDE DEF g, x
<1>4. AccountOf(g, i) = Account(d, i)
  <2> HIDE DEF a
  <2>1. {k \in DOMAIN a : g.role[a[k]] = "account"}
          = {k \in DOMAIN a : a[k] \in OfRole(d, "account")}
    BY <1>2, <1>3 DEF OfRole
  <2>2. g.above[i] = a /\ Account(d, i) = FirstOf(a, OfRole(d, "account"))
    BY <1>1 DEF a, Account, x
  <2>3. AccountOf(g, i) = FirstOf(a, OfRole(d, "account"))
    BY <2>1, <2>2 DEF AccountOf, FirstOf
  <2> QED
    BY <2>2, <2>3
<1>5. FirstOf(g.above[i], fits) # 0 => ProviderOf(g, i) = FirstOf(g.above[i], fits)
  <2> HIDE DEF a
  <2>1. g.above[i] = a
    BY <1>1 DEF a
  <2>2. {k \in DOMAIN a : a[k] \in g.aliased /\ Entry[d.nodes[a[k]].type].provider = p}
          = {k \in DOMAIN a : a[k] \in fits}
    OBVIOUS
  <2> HIDE DEF fits
  <2>3. ASSUME FirstOf(a, fits) # 0 PROVE ProviderOf(g, i) = FirstOf(a, fits)
    <3>1. {k \in DOMAIN a : a[k] \in fits} # {}
      BY <2>3 DEF FirstOf
    <3>2. ProviderOf(g, i) = a[Min({k \in DOMAIN a : a[k] \in fits})]
      BY <1>1, <2>1, <2>2, <3>1 DEF ProviderOf
    <3> QED
      BY <3>1, <3>2 DEF FirstOf
  <2> QED
    BY <2>1, <2>3
<1> QED
  BY <1>4, <1>5 DEF g, x, fits

(* The account of what is generated is the one around it, and its provider *)
(* block is of that account.                                               *)
LEMMA CredentialsOfAccount ==
  ASSUME NEW d, Clean(d), NEW i \in DOMAIN d.nodes,
         RoleOf(d.nodes[i].type) \in {"module", "resource"}, Account(d, i) # 0,
         \/ Range(Index(d).above[i]) \cap OfRole(d, "region") # {}
         \/ \A r \in OfRole(d, "region") : LogicalParent(Index(d), r) # Account(d, i)
  PROVE  LET p == ProviderOf(Generation(Index(d)), i) IN
         p \in DOMAIN d.nodes /\ Account(d, i) \in {p, Account(d, p)}
<1> DEFINE x == Index(d)
           g == Generation(x)
           a == Account(d, i)
           s == x.above[i]
           provider(k) == Entry[d.nodes[k].type].provider
           fits == {k \in g.aliased : provider(k) = provider(i)}
           p == FirstOf(s, fits)
<1>1. d.nodes[i].type \in Types /\ HasTerraform(provider(i))
  <2>1. d.nodes[i].type \in Types
    BY DEF RoleOf, Known
  <2> QED
    BY <2>1, HomeAssumption
<1>2. PICK outer : IsOuter(outer)
  BY HomeAssumption, Zenon DEF IsOuter
<1>3. \A j \in Range(s) : provider(j) = provider(i)
  BY <1>1, <1>2, AboveIsOfProvider
<1>4. IsList(s) /\ Range(s) \subseteq DOMAIN d.nodes
  BY AboveStep
<1>5. g.above[i] = s
  BY GenerationIs
<1>6. g.aliased = OfRole(d, "region")
        \cup {k \in OfRole(d, "account") : \A r \in OfRole(d, "region") : LogicalParent(x, r) # k}
  BY AliasedAre
<1>7. a \in Range(s) /\ a \in OfRole(d, "account")
  <2>1. Range(s) \cap OfRole(d, "account") # {}
    BY FirstNone DEF Account
  <2> QED
    BY <1>4, <2>1, FirstIn DEF Account
<1>8. FirstOf(s, fits) # 0 => ProviderOf(g, i) = FirstOf(s, fits)
  BY <1>5, LookedUp
<1>9. \A j \in Range(s) :
        /\ j \in OfRole(d, "account") => j = a
        /\ j \in OfRole(d, "region") => Account(d, j) = a
  BY <1>2, OneAccount
<1>10. \A k \in DOMAIN d.nodes : k # 0
  <2>1. DOMAIN d.nodes = 1 .. Len(d.nodes)
    BY ListDomain DEF Clean
  <2> QED
    BY <2>1
<1>11. \/ Range(s) \cap OfRole(d, "region") # {}
       \/ \A r \in OfRole(d, "region") : LogicalParent(x, r) # a
  OBVIOUS
<1> HIDE DEF x, g, a, s
<1>12. Range(s) \cap fits # {}
  <2> HIDE DEF provider
  <2>1. CASE Range(s) \cap OfRole(d, "region") # {}
    BY <1>3, <1>6, <2>1
  <2>2. CASE \A r \in OfRole(d, "region") : LogicalParent(x, r) # a
    BY <1>3, <1>6, <1>7, <2>2
  <2> QED
    BY <1>11, <2>1, <2>2
<1> HIDE DEF fits
<1>13. p \in Range(s) /\ p \in fits
  BY <1>4, <1>12, FirstIn
<1> HIDE DEF p
<1>14. p \in DOMAIN d.nodes /\ p # 0
  BY <1>4, <1>10, <1>13
<1>15. ProviderOf(g, i) = p
  BY <1>8, <1>14 DEF p
<1>16. p \in OfRole(d, "region") \cup OfRole(d, "account")
  BY <1>6, <1>13 DEF fits
<1>17. a \in {p, Account(d, p)}
  BY <1>9, <1>13, <1>16
<1> QED
  BY <1>14, <1>15, <1>17 DEF g, x, a

(* What is deployed is deployed with the credentials of the account it is  *)
(* drawn in (generate.go, providerAlias), whatever accounts and regions    *)
(* are around it: only directly in an account that has a region may it be  *)
(* with another one's.                                                     *)
THEOREM CredentialsAreOwn == Spec => []OwnCredentials
<1>1. ASSUME ListInv, IndexInv, BuiltInv, IsBuilt, NEW i \in DOMAIN doc.nodes,
             built.role[i] \in {"module", "resource"}, AccountOf(built, i) # 0,
             \/ Range(built.above[i]) \cap {j \in DOMAIN built.role : built.role[j] = "region"} # {}
             \/ {j \in {k \in DOMAIN built.role : built.role[k] = "region"} :
                   LogicalParent(built, j) = AccountOf(built, i)} = {}
      PROVE  /\ ProviderOf(built, i) # 0
             /\ AccountOf(built, i) \in {ProviderOf(built, i),
                                         AccountOf(built, ProviderOf(built, i))}
  <2> DEFINE x == Index(doc)
             g == Generation(x)
  <2>1. Clean(doc) /\ built = g
    BY <1>1, BuiltIs DEF Clean, IsBuilt
  <2>2. /\ g.above = x.above
        /\ g.role = [k \in DOMAIN doc.nodes |-> RoleOf(doc.nodes[k].type)]
    BY IndexNodes, GenerationIs
  <2>3. \A k : LogicalParent(g, k) = LogicalParent(x, k)
    BY <2>2 DEF LogicalParent
  <2>4. \A k \in DOMAIN doc.nodes : AccountOf(g, k) = Account(doc, k)
    BY <2>1, LookedUp
  <2> HIDE DEF x, g
  <2>5. {j \in DOMAIN g.role : g.role[j] = "region"} = OfRole(doc, "region")
    BY <2>2 DEF OfRole
  <2>6. RoleOf(doc.nodes[i].type) \in {"module", "resource"} /\ Account(doc, i) # 0
    BY <1>1, <2>1, <2>2, <2>4
  <2>7. \/ Range(x.above[i]) \cap OfRole(doc, "region") # {}
        \/ \A r \in OfRole(doc, "region") : LogicalParent(x, r) # Account(doc, i)
    BY <1>1, <2>1, <2>2, <2>3, <2>4, <2>5
  <2>8. /\ ProviderOf(g, i) \in DOMAIN doc.nodes
        /\ Account(doc, i) \in {ProviderOf(g, i), Account(doc, ProviderOf(g, i))}
    BY <2>1, <2>6, <2>7, CredentialsOfAccount DEF g, x
  <2>9. \A k \in DOMAIN doc.nodes : k # 0
    <3>1. DOMAIN doc.nodes = 1 .. Len(doc.nodes)
      BY <2>1, ListDomain DEF Clean
    <3> QED
      BY <3>1
  <2> QED
    BY <2>1, <2>4, <2>8, <2>9
<1>2. ListInv /\ IndexInv /\ BuiltInv => OwnCredentials
  <2> SUFFICES ASSUME ListInv, IndexInv, BuiltInv, IsBuilt, NEW i \in DOMAIN doc.nodes
               PROVE  LET a == AccountOf(built, i)
                          p == ProviderOf(built, i)
                          regions == {j \in DOMAIN built.role : built.role[j] = "region"}
                          around == Range(built.above[i]) \cap regions
                          inside == {j \in regions : LogicalParent(built, j) = a}
                      IN  built.role[i] \in {"module", "resource"} /\ a # 0
                            /\ (around # {} \/ inside = {})
                          => p # 0 /\ a \in {p, AccountOf(built, p)}
    BY Zenon DEF OwnCredentials
  <2> QED
    BY <1>1, Zenon
<1> QED
  BY <1>2, ListsAreLists, HandedOn, PTL

-----------------------------------------------------------------------------
(* A diagram as it is saved.                                               *)

(* The order a diagram is saved in is one of its nodes, or edges: by rank, *)
(* and as they were where ranks are equal.                                 *)
LEMMA BeforeIsOrder ==
  ASSUME NEW s, IsList(s)
  PROVE  /\ \A i \in DOMAIN s : ~Before(s, i, i)
         /\ \A i, j \in DOMAIN s : i # j => Before(s, i, j) \/ Before(s, j, i)
         /\ \A i, j, k \in DOMAIN s : Before(s, i, j) /\ Before(s, j, k) => Before(s, i, k)
<1> DEFINE r(i) == Rank(s[i])
<1>1. DOMAIN s = 1 .. Len(s) /\ Len(s) \in Nat
  BY ListDomain
<1>2. ASSUME NEW n PROVE Rank(n) \in Nat
  <2>1. DOMAIN IdOrder = 1 .. Len(IdOrder) /\ Len(IdOrder) \in Nat
    BY DiagramAssumption, ListDomain
  <2>2. ASSUME n.id \in DOMAIN Ranks PROVE Ranks[n.id] \in Nat
    <3> DEFINE at == CHOOSE k \in DOMAIN IdOrder : IdOrder[k] = n.id
    <3>1. DOMAIN Ranks = Range(IdOrder) /\ Ranks[n.id] = at
      BY <2>2 DEF Ranks
    <3>2. \E k \in DOMAIN IdOrder : IdOrder[k] = n.id
      BY <2>2, <3>1 DEF Range
    <3>3. at \in DOMAIN IdOrder
      BY <3>2
    <3> QED
      BY <2>1, <3>1, <3>3
  <2> QED
    BY <2>2 DEF Rank
<1>3. \A i : r(i) \in Nat
  BY <1>2
<1>4. \A i, j : Before(s, i, j) <=> r(i) < r(j) \/ (r(i) = r(j) /\ i < j)
  BY DEF Before
<1> HIDE DEF r
<1> QED
  BY <1>1, <1>3, <1>4

(* So what is saved is what there was, in another order.                   *)
LEMMA SortedIs ==
  ASSUME NEW s, IsList(s)
  PROVE  /\ DOMAIN Sorted(s) = DOMAIN s /\ IsList(Sorted(s)) /\ Len(Sorted(s)) = Len(s)
         /\ \E p \in [DOMAIN s -> DOMAIN s] :
              /\ \A k \in DOMAIN s : Sorted(s)[k] = s[p[k]]
              /\ \A k, m \in DOMAIN s : p[k] = p[m] => k = m
              /\ \A i \in DOMAIN s : \E k \in DOMAIN s : p[k] = i
<1> DEFINE D == DOMAIN s
           n == Len(s)
           below(i) == {j \in D : Before(s, j, i)}
           at == Positions(s)
<1>1. D = 1 .. n /\ n \in Nat
  BY ListDomain
<1>2. IsFiniteSet(D) /\ Cardinality(D) = n
  <2> HIDE DEF D, n
  <2> QED
    BY <1>1, FS_Interval
<1>3. /\ \A i \in D : ~Before(s, i, i)
      /\ \A i, j \in D : i # j => Before(s, i, j) \/ Before(s, j, i)
      /\ \A i, j, k \in D : Before(s, i, j) /\ Before(s, j, k) => Before(s, i, k)
  BY BeforeIsOrder
<1>4. at = [i \in D |-> Cardinality(below(i)) + 1]
  BY DEF Positions
<1>10. Sorted(s) = [k \in D |-> s[CHOOSE i \in D : at[i] = k]]
  BY DEF Sorted
<1> HIDE DEF at, D, n
<1>5. ASSUME NEW i \in D
      PROVE  /\ IsFiniteSet(below(i)) /\ Cardinality(below(i)) \in Nat
             /\ Cardinality(below(i)) < n
  <2>1. below(i) \in SUBSET D /\ below(i) # D
    BY <1>3, <1>5
  <2> HIDE DEF below
  <2>2. IsFiniteSet(below(i)) /\ Cardinality(below(i)) <= n /\ Cardinality(below(i)) # n
    BY <1>2, <2>1, FS_Subset
  <2>3. Cardinality(below(i)) \in Nat
    BY <2>2, FS_CardinalityType
  <2> QED
    BY <1>1, <2>2, <2>3
<1>6. ASSUME NEW i \in D, NEW j \in D, Before(s, i, j)
      PROVE  Cardinality(below(i)) # Cardinality(below(j))
  <2>1. below(i) \in SUBSET below(j) /\ i \in below(j) /\ i \notin below(i)
    BY <1>3, <1>6
  <2>2. below(i) # below(j)
    BY <2>1
  <2>3. IsFiniteSet(below(j))
    BY <1>5
  <2> HIDE DEF below
  <2> QED
    BY <2>1, <2>2, <2>3, FS_Subset
<1>7. at \in [D -> D]
  <2>1. \A i \in D : Cardinality(below(i)) + 1 \in 1 .. n
    <3> TAKE i \in D
    <3> DEFINE c == Cardinality(below(i))
    <3>1. c \in Nat /\ c < n
      BY <1>5
    <3> HIDE DEF c
    <3> QED
      BY <1>1, <3>1 DEF c
  <2> HIDE DEF below
  <2> QED
    BY <1>1, <1>4, <2>1
<1>8. ASSUME NEW i \in D, NEW j \in D, i # j PROVE at[i] # at[j]
  <2> DEFINE c == Cardinality(below(i))
             e == Cardinality(below(j))
  <2>1. c \in Nat /\ e \in Nat
    BY <1>5
  <2>2. c # e
    BY <1>3, <1>6, <1>8
  <2>3. at[i] = c + 1 /\ at[j] = e + 1
    BY <1>4
  <2> HIDE DEF c, e
  <2> QED
    BY <2>1, <2>2, <2>3
<1>9. \A k \in D : \E i \in D : at[i] = k
  <2>1. at \in Injection(D, D)
    BY <1>7, <1>8 DEF Injection, IsInjective
  <2>2. at \in Surjection(D, D)
    BY <1>2, <2>1, FS_Injection
  <2> QED
    BY <2>2 DEF Surjection
<1> DEFINE p == [k \in D |-> CHOOSE i \in D : at[i] = k]
<1>11. \A k \in D : p[k] \in D /\ at[p[k]] = k
  BY <1>9
<1>12. p \in [D -> D]
  BY <1>11
<1>13. \A k \in D : Sorted(s)[k] = s[p[k]]
  BY <1>10
<1> HIDE DEF p
<1>14. \A k, m \in D : p[k] = p[m] => k = m
  BY <1>11
<1>15. \A i \in D : \E k \in D : p[k] = i
  <2> TAKE i \in D
  <2>1. at[i] \in D
    BY <1>7
  <2>2. at[p[at[i]]] = at[i] /\ p[at[i]] \in D
    BY <1>11, <2>1
  <2>3. p[at[i]] = i
    BY <1>8, <2>2
  <2> QED
    BY <2>1, <2>3
<1>16. IsList(Sorted(s)) /\ Len(Sorted(s)) = n /\ DOMAIN Sorted(s) = D
  <2> DEFINE t == Sorted(s)
  <2>1. t = [k \in D |-> t[k]]
    BY <1>10
  <2> HIDE DEF t
  <2>2. IsList(t) /\ Len(t) = Len(s)
    BY <2>1, ListMap DEF D
  <2> QED
    BY <2>1, <2>2 DEF t, n
<1> QED
  BY <1>12, <1>13, <1>14, <1>15, <1>16 DEF D, n

-----------------------------------------------------------------------------
(* Lists, element by element.                                              *)

(* Two lists put together, by element.                                     *)
LEMMA ConcatIs ==
  ASSUME NEW s, IsList(s), NEW t, IsList(t)
  PROVE  /\ IsList(s \o t) /\ Len(s \o t) = Len(s) + Len(t)
         /\ DOMAIN (s \o t) = 1 .. Len(s) + Len(t)
         /\ \A i \in 1 .. Len(s) : (s \o t)[i] = s[i]
         /\ \A i \in 1 .. Len(t) : (s \o t)[Len(s) + i] = t[i]
<1> DEFINE U == Range(s) \cup Range(t)
<1>1. s \in Seq(U) /\ t \in Seq(U)
  <2>1. \A x : IsList(x) /\ Range(x) \subseteq U => x \in Seq(U)
    BY DEF IsList
  <2> QED
    BY <2>1
<1> HIDE DEF U
<1>2. s \o t \in Seq(U) /\ Len(s \o t) = Len(s) + Len(t)
  BY <1>1
<1>3. IsList(s \o t)
  BY <1>2, ListIn
<1>4. DOMAIN (s \o t) = 1 .. Len(s) + Len(t)
  BY <1>2, <1>3, ListDomain
<1>5. Len(s) \in Nat /\ Len(t) \in Nat
  BY ListDomain
<1>6. \A i \in 1 .. Len(s) : (s \o t)[i] = s[i]
  BY <1>1, <1>5
<1>7. \A i \in 1 .. Len(t) : (s \o t)[Len(s) + i] = t[i]
  BY <1>1, <1>5
<1> QED
  BY <1>2, <1>3, <1>4, <1>6, <1>7

(* A part of a list, by element.                                           *)
LEMMA PartIs ==
  ASSUME NEW s, IsList(s), NEW m \in Int, 1 <= m, NEW n \in Int, m - 1 <= n, n <= Len(s)
  PROVE  LET t == SubSeq(s, m, n) IN
         /\ IsList(t) /\ Len(t) = n - m + 1
         /\ \A i \in 1 .. n - m + 1 : t[i] = s[i + m - 1]
<1> DEFINE t == SubSeq(s, m, n)
<1>1. t = [i \in 1 .. (1 + n - m) |-> s[i + m - 1]]
  OBVIOUS
<1>2. 1 + n - m = n - m + 1 /\ n - m + 1 \in Nat
  OBVIOUS
<1> HIDE DEF t
<1>3. t = [i \in 1 .. (n - m + 1) |-> t[i]]
  BY <1>1, <1>2
<1>4. IsList(t) /\ Len(t) = n - m + 1
  BY <1>2, <1>3, ListOf
<1> QED
  BY <1>1, <1>2, <1>4 DEF t

(* Convert: a node given a parent stays where it is in the list, and       *)
(* nothing else changes.                                                   *)
LEMMA PutIs ==
  ASSUME NEW nodes, IsList(nodes), NEW k \in DOMAIN nodes, NEW parent
  PROVE  LET t == PutIn(nodes, k, parent) IN
         /\ IsList(t) /\ DOMAIN t = DOMAIN nodes /\ Len(t) = Len(nodes)
         /\ t[k] = [nodes[k] EXCEPT !.parent = parent]
         /\ \A m \in DOMAIN nodes \ {k} : t[m] = nodes[m]
<1> DEFINE n == Len(nodes)
           e == [nodes[k] EXCEPT !.parent = parent]
           a == SubSeq(nodes, 1, k - 1)
           b == SubSeq(nodes, k + 1, n)
           rest == a \o b
           c == SubSeq(rest, 1, k - 1)
           d == SubSeq(rest, k, Len(rest))
           u == c \o <<e>>
           t == u \o d
<1>1. n \in Nat /\ DOMAIN nodes = 1 .. n /\ k \in 1 .. n
  BY ListDomain
<1>2. PutIn(nodes, k, parent) = t
  BY DEF PutIn, RemoveAt, InsertAt
<1>3. IsList(a) /\ Len(a) = k - 1 /\ \A i \in 1 .. k - 1 : a[i] = nodes[i]
  <2>1. 1 <= 1 /\ 1 - 1 <= k - 1 /\ k - 1 <= n /\ k - 1 \in Int
    BY <1>1
  <2>2. /\ IsList(a) /\ Len(a) = (k - 1) - 1 + 1
        /\ \A i \in 1 .. (k - 1) - 1 + 1 : a[i] = nodes[i + 1 - 1]
    BY <2>1, PartIs
  <2>3. (k - 1) - 1 + 1 = k - 1 /\ \A i \in 1 .. k - 1 : i + 1 - 1 = i
    BY <1>1
  <2> HIDE DEF a
  <2> QED
    BY <2>2, <2>3
<1>4. IsList(b) /\ Len(b) = n - k /\ \A i \in 1 .. n - k : b[i] = nodes[k + i]
  <2>1. 1 <= k + 1 /\ (k + 1) - 1 <= n /\ n <= n /\ k + 1 \in Int /\ n \in Int
    BY <1>1
  <2>2. /\ IsList(b) /\ Len(b) = n - (k + 1) + 1
        /\ \A i \in 1 .. n - (k + 1) + 1 : b[i] = nodes[i + (k + 1) - 1]
    BY <2>1, PartIs
  <2>3. n - (k + 1) + 1 = n - k /\ \A i \in 1 .. n - k : i + (k + 1) - 1 = k + i
    BY <1>1
  <2> HIDE DEF b
  <2> QED
    BY <2>2, <2>3
<1> HIDE DEF n, a, b, e
<1>5. /\ IsList(rest) /\ Len(rest) = n - 1
      /\ \A i \in 1 .. k - 1 : rest[i] = a[i]
      /\ \A i \in 1 .. n - k : rest[k - 1 + i] = b[i]
  <2>1. /\ IsList(rest) /\ Len(rest) = Len(a) + Len(b)
        /\ \A i \in 1 .. Len(a) : rest[i] = a[i]
        /\ \A i \in 1 .. Len(b) : rest[Len(a) + i] = b[i]
    <3>1. IsList(a) /\ IsList(b)
      BY <1>3, <1>4
    <3> QED
      BY ONLY <3>1, ConcatIs
  <2> HIDE DEF rest
  <2>2. Len(a) + Len(b) = n - 1
    BY <1>1, <1>3, <1>4
  <2> QED
    BY <1>3, <1>4, <2>1, <2>2
<1> HIDE DEF rest
<1>6. IsList(c) /\ Len(c) = k - 1 /\ \A i \in 1 .. k - 1 : c[i] = rest[i]
  <2>1. 1 <= 1 /\ 1 - 1 <= k - 1 /\ k - 1 <= Len(rest) /\ k - 1 \in Int
    BY <1>1, <1>5
  <2>2. /\ IsList(c) /\ Len(c) = (k - 1) - 1 + 1
        /\ \A i \in 1 .. (k - 1) - 1 + 1 : c[i] = rest[i + 1 - 1]
    BY <1>5, <2>1, PartIs
  <2>3. (k - 1) - 1 + 1 = k - 1 /\ \A i \in 1 .. k - 1 : i + 1 - 1 = i
    BY <1>1
  <2> HIDE DEF c
  <2> QED
    BY <2>2, <2>3
<1>7. IsList(d) /\ Len(d) = n - k /\ \A i \in 1 .. n - k : d[i] = rest[k - 1 + i]
  <2>1. 1 <= k /\ k - 1 <= Len(rest) /\ k \in Int /\ Len(rest) \in Int
    BY <1>1, <1>5
  <2>2. /\ IsList(d) /\ Len(d) = Len(rest) - k + 1
        /\ \A i \in 1 .. Len(rest) - k + 1 : d[i] = rest[i + k - 1]
    <3>1. Len(rest) <= Len(rest)
      BY <2>1
    <3> QED
      BY <1>5, <2>1, <3>1, PartIs
  <2>3. Len(rest) - k + 1 = n - k /\ \A i \in 1 .. n - k : i + k - 1 = k - 1 + i
    BY <1>1, <1>5
  <2> HIDE DEF d
  <2> QED
    BY <2>2, <2>3
<1> HIDE DEF c, d
<1>8. IsList(<<e>>) /\ Len(<<e>>) = 1 /\ <<e>>[1] = e
  <2>1. <<e>> \in Seq({e})
    OBVIOUS
  <2> QED
    BY <2>1, ListIn
<1>9. /\ IsList(u) /\ Len(u) = k /\ u[k] = e
      /\ \A i \in 1 .. k - 1 : u[i] = c[i]
  <2> DEFINE one == <<e>>
  <2>1. /\ IsList(u) /\ Len(u) = Len(c) + Len(one)
        /\ \A i \in 1 .. Len(c) : u[i] = c[i]
        /\ \A i \in 1 .. Len(one) : u[Len(c) + i] = one[i]
    BY <1>6, <1>8, ConcatIs
  <2>2. IsList(one) /\ Len(one) = 1 /\ one[1] = e
    BY <1>8
  <2> HIDE DEF u, one
  <2>3. Len(c) + 1 = k /\ 1 \in 1 .. 1
    BY <1>1, <1>6
  <2> QED
    BY <1>6, <2>1, <2>2, <2>3
<1> HIDE DEF u
<1>10. /\ IsList(t) /\ Len(t) = n /\ DOMAIN t = 1 .. n
       /\ \A i \in 1 .. k : t[i] = u[i]
       /\ \A i \in 1 .. n - k : t[k + i] = d[i]
  <2>1. /\ IsList(t) /\ Len(t) = Len(u) + Len(d) /\ DOMAIN t = 1 .. Len(u) + Len(d)
        /\ \A i \in 1 .. Len(u) : t[i] = u[i]
        /\ \A i \in 1 .. Len(d) : t[Len(u) + i] = d[i]
    BY <1>7, <1>9, ConcatIs
  <2> HIDE DEF t
  <2>2. Len(u) + Len(d) = n
    BY <1>1, <1>7, <1>9
  <2> QED
    BY <1>7, <1>9, <2>1, <2>2
<1> HIDE DEF t
<1>11. ASSUME NEW m \in (1 .. n) \ {k} PROVE t[m] = nodes[m]
  <2>1. CASE m < k
    <3>1. m \in 1 .. k /\ m \in 1 .. k - 1
      BY <1>1, <2>1
    <3> QED
      BY <1>3, <1>5, <1>6, <1>9, <1>10, <3>1
  <2>2. CASE m > k
    <3> DEFINE i == m - k
    <3>1. i \in 1 .. n - k /\ k + i = m
      BY <1>1, <2>2
    <3> HIDE DEF i
    <3>2. t[m] = d[i] /\ d[i] = rest[k - 1 + i] /\ rest[k - 1 + i] = b[i] /\ b[i] = nodes[m]
      BY <1>4, <1>5, <1>7, <1>10, <3>1
    <3> QED
      BY <3>2
  <2> QED
    BY <1>1, <1>11, <2>1, <2>2
<1>12. t[k] = e
  <2>1. k \in 1 .. k
    BY <1>1
  <2> QED
    BY <1>9, <1>10, <2>1
<1>13. IsList(t) /\ DOMAIN t = DOMAIN nodes /\ Len(t) = Len(nodes)
  BY <1>1, <1>10 DEF n
<1> QED
  BY <1>1, <1>2, <1>11, <1>12, <1>13 DEF e

(* What is kept of a list without repetitions has none.                    *)
LEMMA AmongInjective ==
  ASSUME NEW s, IsList(s), NEW S, \A i, j \in DOMAIN s : s[i] = s[j] => i = j
  PROVE  LET t == Among(s, S) IN \A i, j \in DOMAIN t : t[i] = t[j] => i = j
<1> DEFINE n == Len(s)
<1>1. n \in Nat /\ DOMAIN s = 1 .. n
  BY ListDomain
<1>2. PICK f : AmongUpTo(s, S, n, f) /\ Among(s, S) = f[n]
  BY <1>1, AmongIsKept
<1>3. \A k \in Nat : k + 1 <= n =>
        f[k + 1] = IF s[k + 1] \in S THEN Append(f[k], s[k + 1]) ELSE f[k]
  <2>1. AmongUpTo(s, S, n, f)
    BY <1>2
  <2> HIDE DEF AmongUpTo
  <2> QED
    BY ONLY <1>1, <2>1, AmongSteps
<1>4. f[0] = <<>>
  BY <1>1, <1>2 DEF AmongUpTo
<1> DEFINE Once(t) == \A i, j \in DOMAIN t : t[i] = t[j] => i = j
           Good(k) == IsList(f[k]) /\ Range(f[k]) \subseteq {s[m] : m \in 1 .. k} /\ Once(f[k])
           T == {k \in Nat : k <= n => Good(k)}
<1> HIDE DEF n
<1>5. 0 \in T
  <2>1. IsList(<<>>) /\ Range(<<>>) = {} /\ DOMAIN <<>> = {}
    <3>1. DOMAIN <<>> = {}
      OBVIOUS
    <3> QED
      BY <3>1, EmptyList DEF Range
  <2> QED
    BY <1>4, <2>1
<1>6. ASSUME NEW k \in Nat, k \in T PROVE k + 1 \in T
  <2> SUFFICES ASSUME k + 1 <= n PROVE Good(k + 1)
    OBVIOUS
  <2> DEFINE e == s[k + 1]
             t == f[k]
             u == Append(t, e)
  <2>1. IsList(t) /\ Range(t) \subseteq {s[m] : m \in 1 .. k} /\ Once(t)
    BY <1>1, <1>6
  <2>2. f[k + 1] = IF e \in S THEN u ELSE t
    BY <1>3
  <2>3. {s[m] : m \in 1 .. k + 1} = {s[m] : m \in 1 .. k} \cup {e}
    OBVIOUS
  <2>4. e \notin {s[m] : m \in 1 .. k}
    <3> SUFFICES ASSUME NEW m \in 1 .. k, s[m] = s[k + 1] PROVE FALSE
      OBVIOUS
    <3>1. m \in DOMAIN s /\ k + 1 \in DOMAIN s /\ m # k + 1
      BY <1>1
    <3> QED
      BY <3>1
  <2> HIDE DEF e, t
  <2>5. /\ IsList(u)
        /\ u = [i \in 1 .. Len(t) + 1 |-> IF i = Len(t) + 1 THEN e ELSE t[i]]
    BY <2>1, ListAppend
  <2>6. Len(t) \in Nat /\ DOMAIN t = 1 .. Len(t)
    BY <2>1, ListDomain
  <2> HIDE DEF u
  <2>7. DOMAIN u = 1 .. Len(t) + 1 /\ u[Len(t) + 1] = e /\ \A i \in DOMAIN t : u[i] = t[i]
    BY <2>5, <2>6
  <2>8. \A i \in DOMAIN u : i = Len(t) + 1 \/ i \in DOMAIN t
    BY <2>6, <2>7
  <2>9. Range(u) \subseteq Range(t) \cup {e}
    BY <2>7, <2>8 DEF Range
  <2>10. \A i \in DOMAIN t : t[i] # e
    BY <2>1, <2>4 DEF Range
  <2>11. Once(u)
    <3> SUFFICES ASSUME NEW i \in DOMAIN u, NEW j \in DOMAIN u, u[i] = u[j] PROVE i = j
      OBVIOUS
    <3>1. CASE i \in DOMAIN t /\ j \in DOMAIN t
      BY <2>1, <2>7, <3>1
    <3>2. CASE i = Len(t) + 1 /\ j \in DOMAIN t
      BY <2>7, <2>10, <3>2
    <3>3. CASE j = Len(t) + 1 /\ i \in DOMAIN t
      BY <2>7, <2>10, <3>3
    <3> QED
      BY <2>8, <3>1, <3>2, <3>3
  <2> QED
    <3>1. Good(k + 1) = (IsList(f[k + 1])
                         /\ Range(f[k + 1]) \subseteq {s[m] : m \in 1 .. k + 1} /\ Once(f[k + 1]))
      OBVIOUS
    <3> HIDE DEF Once, Good
    <3> QED
      BY <2>1, <2>2, <2>3, <2>5, <2>9, <2>11, <3>1
<1> HIDE DEF T
<1>7. n \in T
  BY <1>1, <1>5, <1>6, Induction
<1>8. Good(n)
  BY <1>1, <1>7 DEF T
<1> QED
  BY <1>2, <1>8

(* Convert: the nodes that are kept, each once.                            *)
LEMMA KeptAre ==
  ASSUME NEW x, IsList(x.nodes)
  PROVE  LET order == KeptNodes(x) IN
         /\ IsList(order) /\ Range(order) = {i \in DOMAIN x.nodes : Kept(x, i)}
         /\ \A m, k \in DOMAIN order : order[m] = order[k] => m = k
<1> DEFINE s == [i \in DOMAIN x.nodes |-> i]
           S == {i \in DOMAIN x.nodes : Kept(x, i)}
<1>1. IsList(s) /\ DOMAIN s = DOMAIN x.nodes /\ Range(s) = DOMAIN x.nodes
  <2>1. IsList(s)
    BY ListMap
  <2> QED
    BY <2>1 DEF Range
<1>2. \A i, j \in DOMAIN s : s[i] = s[j] => i = j
  OBVIOUS
<1>3. KeptNodes(x) = Among(s, S)
  BY DEF KeptNodes
<1> HIDE DEF s, S
<1>4. IsList(Among(s, S)) /\ Range(Among(s, S)) = Range(s) \cap S
  BY <1>1, AmongFacts
<1>5. \A i, j \in DOMAIN Among(s, S) : Among(s, S)[i] = Among(s, S)[j] => i = j
  BY <1>1, <1>2, AmongInjective
<1> QED
  BY <1>1, <1>3, <1>4, <1>5 DEF S

(* Convert: the node found by an id is one of that id.                     *)
LEMMA FirstIs ==
  ASSUME NEW nodes, IsList(nodes), NEW id, \E k \in DOMAIN nodes : nodes[k].id = id
  PROVE  First(nodes, id) \in DOMAIN nodes /\ nodes[First(nodes, id)].id = id
<1> DEFINE hits == {k \in DOMAIN nodes : nodes[k].id = id}
<1>1. hits \subseteq Nat /\ hits # {}
  BY ListDomain
<1>2. Min(hits) \in hits
  BY <1>1, MinOf
<1>3. First(nodes, id) = Min(hits)
  BY <1>1 DEF First
<1> QED
  BY <1>2, <1>3

-----------------------------------------------------------------------------
(* Conversion: the nodes.                                                  *)

(* The root chain of the target, and the id of a root container: of its    *)
(* place in the chain and a root.                                          *)
Chain0(x) == RootChain[x.target]
BoxId(x, b) == chainId(Chain0(x)[b[1]], short(b[2]))

(* What is kept, and the roots it is under.                                *)
KeptIn(x) == {i \in DOMAIN x.nodes : Kept(x, i)}
KeptRoots(x) == {RootOf(x, i) : i \in KeptIn(x)}

(* What the record of a node has.                                          *)
Fields == {"id", "type", "name", "parent", "props"}

(* What is true of the nodes all the time they are given their parents:    *)
(* they are nodes,                                                         *)
Shape(x, order, out) ==
  /\ DOMAIN out = {"nodes", "roots"} /\ IsList(out.nodes) /\ Len(order) <= Len(out.nodes)
  /\ out.roots \subseteq KeptRoots(x)
  /\ \A m \in DOMAIN out.nodes : DOMAIN out.nodes[m] = Fields

(* first the copies of what is kept,                                       *)
Copies(x, order, out) ==
  \A m \in 1 .. Len(order) :
    /\ out.nodes[m].id = x.nodes[order[m]].id
    /\ out.nodes[m].type = Copy(x, order[m]).type

(* then the root containers of the roots so far, of which none is missing, *)
Containers(x, order, out) ==
  /\ \A m \in DOMAIN out.nodes : m > Len(order) =>
       \E b \in (DOMAIN Chain0(x)) \X out.roots :
         out.nodes[m].id = BoxId(x, b) /\ out.nodes[m].type = Chain0(x)[b[1]]
  /\ \A b \in (DOMAIN Chain0(x)) \X out.roots : BoxId(x, b) \in Ids(out)

(* what a node is in is there,                                             *)
ParentsThere(out) == \A m \in DOMAIN out.nodes : out.nodes[m].parent \in Ids(out) \cup {""}

(* and no id is used twice, but those that clash.                          *)
OnceBut(nodes, clash) ==
  \A m, k \in DOMAIN nodes : nodes[m].id = nodes[k].id => m = k \/ nodes[m].id \in clash

PlacedInv(x, order, out) ==
  /\ Shape(x, order, out) /\ Copies(x, order, out) /\ Containers(x, order, out)
  /\ ParentsThere(out)
  /\ OnceBut(out.nodes, Clashing(x))

(* Which ids those are.                                                    *)
LEMMA ClashingIs ==
  ASSUME NEW x, NEW b \in (DOMAIN Chain0(x)) \X KeptRoots(x)
  PROVE  /\ \A a \in (DOMAIN Chain0(x)) \X KeptRoots(x) :
              a # b /\ BoxId(x, a) = BoxId(x, b) => BoxId(x, b) \in Clashing(x)
         /\ \A i \in KeptIn(x) : BoxId(x, b) = x.nodes[i].id => BoxId(x, b) \in Clashing(x)
<1> DEFINE boxes == (DOMAIN Chain0(x)) \X KeptRoots(x)
           twice == {a \in boxes : \E c \in boxes \ {a} : BoxId(x, a) = BoxId(x, c)}
           own == {BoxId(x, c) : c \in boxes} \cap {x.nodes[i].id : i \in KeptIn(x)}
<1>1. Clashing(x) = {BoxId(x, c) : c \in twice} \cup own
  BY Zenon DEF Clashing, KeptRoots, KeptIn, BoxId, Chain0
<1>2. \A a \in boxes : a # b /\ BoxId(x, a) = BoxId(x, b) => b \in twice
  OBVIOUS
<1>3. \A i \in KeptIn(x) : BoxId(x, b) = x.nodes[i].id => BoxId(x, b) \in own
  OBVIOUS
<1> HIDE DEF twice, own
<1> QED
  BY <1>1, <1>2, <1>3

(* A node given a parent that is there.                                    *)
LEMMA ChildKeeps ==
  ASSUME NEW x, NEW order, IsList(order), NEW out, PlacedInv(x, order, out),
         NEW id \in Ids(out), NEW parent \in Ids(out)
  PROVE  PlacedInv(x, order, Child(out, id, parent))
<1> DEFINE s == out.nodes
           k == First(s, id)
           t == PutIn(s, k, parent)
           c == Child(out, id, parent)
<1>1. Shape(x, order, out) /\ Copies(x, order, out) /\ Containers(x, order, out)
      /\ ParentsThere(out) /\ OnceBut(s, Clashing(x))
  BY DEF PlacedInv
<1>2. IsList(s) /\ DOMAIN out = {"nodes", "roots"} /\ Len(order) <= Len(s)
      /\ \A m \in DOMAIN s : DOMAIN s[m] = Fields
  BY <1>1 DEF Shape
<1>3. k \in DOMAIN s
  <2>1. \E m \in DOMAIN s : s[m].id = id
    BY DEF Ids
  <2> HIDE DEF s
  <2> QED
    BY <1>2, <2>1, FirstIs
<1>4. c.nodes = t /\ c.roots = out.roots /\ DOMAIN c = {"nodes", "roots"}
  BY <1>2 DEF Child
<1> HIDE DEF c, k, s
<1>5. /\ IsList(t) /\ DOMAIN t = DOMAIN s /\ Len(t) = Len(s)
      /\ t[k] = [s[k] EXCEPT !.parent = parent]
      /\ \A m \in DOMAIN s \ {k} : t[m] = s[m]
  BY <1>2, <1>3, PutIs
<1> HIDE DEF t
<1>6. ASSUME NEW m \in DOMAIN s
      PROVE  /\ DOMAIN t[m] = Fields /\ t[m].id = s[m].id /\ t[m].type = s[m].type
             /\ t[m].parent \in {s[m].parent, parent}
  <2>1. CASE m = k
    BY <1>2, <1>5, <2>1 DEF Fields
  <2>2. CASE m # k
    BY <1>2, <1>5, <2>2
  <2> QED
    BY <2>1, <2>2
<1>7. Ids(c) = Ids(out)
  BY <1>4, <1>5, <1>6 DEF Ids, s
<1>8. Shape(x, order, c)
  BY <1>1, <1>4, <1>5, <1>6 DEF Shape, s
<1>9. DOMAIN s = 1 .. Len(s) /\ Len(s) \in Nat /\ Len(order) \in Nat
  BY <1>2, ListDomain
<1>10. Copies(x, order, c)
  <2>1. \A m \in 1 .. Len(order) : m \in DOMAIN s
    BY <1>2, <1>9
  <2> QED
    BY <1>1, <1>4, <1>6, <2>1 DEF Copies, s
<1>11. Containers(x, order, c)
  BY <1>1, <1>4, <1>5, <1>6, <1>7 DEF Containers, s
<1>12. ParentsThere(c)
  <2>1. \A m \in DOMAIN s : s[m].parent \in Ids(out) \cup {""}
    BY <1>1 DEF ParentsThere, s
  <2>2. \A m \in DOMAIN s : t[m].parent \in Ids(out) \cup {""}
    BY <1>6, <2>1
  <2> QED
    BY <1>4, <1>5, <1>7, <2>2 DEF ParentsThere
<1>13. OnceBut(c.nodes, Clashing(x))
  BY <1>1, <1>4, <1>5, <1>6 DEF OnceBut
<1> QED
  BY <1>8, <1>10, <1>11, <1>12, <1>13 DEF PlacedInv, c

(* The containers of one more root, added when they are not there yet.     *)
LEMMA ChainKeeps ==
  ASSUME NEW x, x.target \in DOMAIN RootChain, NEW order, IsList(order),
         Range(order) = KeptIn(x),
         NEW out, PlacedInv(x, order, out), NEW root \in KeptRoots(x)
  PROVE  LET all == WithChain(x, out, root) IN
         /\ PlacedInv(x, order, all)
         /\ root \in all.roots /\ Ids(out) \subseteq Ids(all)
<1> DEFINE all == WithChain(x, out, root)
           chain == Chain0(x)
           s == out.nodes
           n == Len(s)
           r == out.roots
           q == out.roots \cup {root}
           K == DOMAIN chain
           id(b) == BoxId(x, b)
<1>1. Shape(x, order, out) /\ Copies(x, order, out) /\ Containers(x, order, out)
      /\ ParentsThere(out) /\ OnceBut(s, Clashing(x))
  BY DEF PlacedInv
<1>2. IsList(s) /\ DOMAIN out = {"nodes", "roots"} /\ Len(order) <= Len(s)
      /\ r \subseteq KeptRoots(x)
      /\ \A m \in DOMAIN s : DOMAIN s[m] = Fields
  BY <1>1 DEF Shape
<1>3. CASE root \in r
  <2>1. all = out
    BY <1>3 DEF WithChain
  <2> QED
    BY <1>3, <2>1
<1>4. CASE root \notin r
  <2> DEFINE name(t) == IF Entry[t].role = "account" THEN x.nodes[Node(x, root)].name ELSE t
             box(k) == [id |-> chainId(chain[k], short(root)), type |-> chain[k],
                        name |-> name(chain[k]),
                        parent |-> IF k = 1 THEN "" ELSE chainId(chain[k - 1], short(root)),
                        props |-> <<>>]
             boxes == [k \in K |-> box(k)]
             t == s \o boxes
  <2>1. all.nodes = t /\ all.roots = q /\ DOMAIN all = {"nodes", "roots"}
    <3>1. all = [nodes |-> t, roots |-> q]
      BY <1>4, Zenon DEF WithChain, Chain0
    <3> HIDE DEF t, q, all
    <3> QED
      BY <3>1
  <2>2. IsList(chain) /\ K = 1 .. Len(chain) /\ Len(chain) \in Nat
    BY ConversionAssumption, ListDomain DEF Chain0
  <2>3. /\ \A k \in K : /\ boxes[k].id = id(<<k, root>>) /\ boxes[k].type = chain[k]
                        /\ DOMAIN boxes[k] = Fields
                        /\ boxes[k].parent = IF k = 1 THEN "" ELSE id(<<k - 1, root>>)
        /\ DOMAIN boxes = K
    <3>1. \A k : /\ box(k).id = chainId(chain[k], short(root)) /\ box(k).type = chain[k]
                 /\ DOMAIN box(k) = Fields
                 /\ box(k).parent = IF k = 1 THEN "" ELSE chainId(chain[k - 1], short(root))
      <4> HIDE DEF name, chain
      <4> QED
        BY DEF Fields
    <3>2. \A k : id(<<k, root>>) = chainId(chain[k], short(root))
      BY DEF BoxId
    <3> HIDE DEF box, id, chain
    <3> QED
      BY <3>1, <3>2
  <2>4. IsList(boxes) /\ Len(boxes) = Len(chain)
    <3>1. boxes = [k \in DOMAIN chain |-> boxes[k]]
      OBVIOUS
    <3> HIDE DEF boxes, chain
    <3> QED
      BY <2>2, <3>1, ListMap
  <2> HIDE DEF boxes, all, chain, s
  <2>5. /\ IsList(t) /\ Len(t) = n + Len(chain) /\ DOMAIN t = 1 .. n + Len(chain)
        /\ \A m \in 1 .. n : t[m] = s[m]
        /\ \A k \in 1 .. Len(chain) : t[n + k] = boxes[k]
    <3>1. IsList(s) /\ IsList(boxes)
      BY <1>2, <2>4
    <3>2. /\ IsList(s \o boxes) /\ Len(s \o boxes) = Len(s) + Len(boxes)
          /\ DOMAIN (s \o boxes) = 1 .. Len(s) + Len(boxes)
          /\ \A i \in 1 .. Len(s) : (s \o boxes)[i] = s[i]
          /\ \A i \in 1 .. Len(boxes) : (s \o boxes)[Len(s) + i] = boxes[i]
      BY ONLY <3>1, ConcatIs
    <3> QED
      BY <2>4, <3>2
  <2>6. DOMAIN s = 1 .. n /\ n \in Nat /\ Len(order) \in Nat /\ Len(order) <= n
    BY <1>2, ListDomain
  <2> HIDE DEF t, n, K, r, q, id
  <2>7. \A m \in DOMAIN t : m \in DOMAIN s \/ \E k \in K : m = n + k
    <3> SUFFICES ASSUME NEW m \in DOMAIN t, m \notin DOMAIN s PROVE \E k \in K : m = n + k
      OBVIOUS
    <3>1. m \in 1 .. n + Len(chain) /\ m \notin 1 .. n
      BY <2>5, <2>6
    <3>2. m - n \in 1 .. Len(chain) /\ m = n + (m - n)
      BY <2>2, <2>6, <3>1
    <3> QED
      BY <2>2, <3>2
  <2>8. /\ \A m \in DOMAIN s : m \in DOMAIN t /\ t[m] = s[m]
        /\ \A k \in K : n + k \in DOMAIN t /\ t[n + k] = boxes[k] /\ n + k > Len(order)
    <3>1. \A m \in 1 .. n : m \in 1 .. n + Len(chain)
      BY <2>2, <2>6
    <3>2. \A k \in 1 .. Len(chain) : n + k \in 1 .. n + Len(chain) /\ n + k > Len(order)
      BY <2>2, <2>6
    <3> QED
      BY <2>2, <2>5, <2>6, <3>1, <3>2
  <2>9. Ids(out) \subseteq Ids(all) /\ \A k \in K : id(<<k, root>>) \in Ids(all)
    <3>1. Ids(out) = {s[m].id : m \in DOMAIN s} /\ Ids(all) = {t[m].id : m \in DOMAIN t}
      BY <2>1 DEF Ids, s
    <3>2. \A k \in K : t[n + k].id = id(<<k, root>>)
      BY <2>3, <2>8
    <3> QED
      BY <2>8, <3>1, <3>2
  <2>10. Shape(x, order, all)
    <3>1. \A m \in DOMAIN t : DOMAIN t[m] = Fields
      <4> SUFFICES ASSUME NEW m \in DOMAIN t PROVE DOMAIN t[m] = Fields
        OBVIOUS
      <4>1. CASE m \in DOMAIN s
        BY <1>2, <2>8, <4>1 DEF s
      <4>2. ASSUME NEW k \in K, m = n + k PROVE DOMAIN t[m] = Fields
        BY <2>3, <2>8, <4>2
      <4> QED
        BY <2>7, <4>1, <4>2
    <3>2. Len(order) <= Len(t)
      BY <2>2, <2>5, <2>6
    <3>3. q \subseteq KeptRoots(x)
      BY <1>2 DEF q, r
    <3> QED
      BY <2>1, <2>5, <3>1, <3>2, <3>3 DEF Shape
  <2>11. Copies(x, order, all)
    <3>1. \A m \in 1 .. Len(order) : m \in DOMAIN s
      BY <2>6
    <3>2. \A m \in 1 .. Len(order) :
            s[m].id = x.nodes[order[m]].id /\ s[m].type = Copy(x, order[m]).type
      BY <1>1 DEF Copies, s
    <3> QED
      BY <2>1, <2>8, <3>1, <3>2 DEF Copies
  <2>12. ASSUME NEW m \in DOMAIN s, m > Len(order)
         PROVE  \E b \in K \X r : s[m].id = id(b) /\ s[m].type = chain[b[1]]
    BY <1>1, <2>12 DEF Containers, s, K, r, id, chain
  <2>13. \A b \in K \X q : b \in K \X r \/ \E k \in K : b = <<k, root>>
    BY DEF q, r
  <2>14. r \subseteq q /\ root \in q
    BY DEF q, r
  <2>15. Containers(x, order, all)
    <3>1. ASSUME NEW m \in DOMAIN t, m > Len(order)
          PROVE  \E b \in K \X q : t[m].id = id(b) /\ t[m].type = chain[b[1]]
      <4>1. CASE m \in DOMAIN s
        BY <2>8, <2>12, <2>14, <3>1, <4>1
      <4>2. ASSUME NEW k \in K, m = n + k
            PROVE  \E b \in K \X q : t[m].id = id(b) /\ t[m].type = chain[b[1]]
        <5>1. t[m].id = id(<<k, root>>) /\ t[m].type = chain[k]
          BY <2>3, <2>8, <4>2
        <5>2. <<k, root>> \in K \X q /\ <<k, root>>[1] = k
          BY <2>14
        <5> QED
          BY <5>1, <5>2
      <4> QED
        BY <2>7, <4>1, <4>2
    <3>2. ASSUME NEW b \in K \X q PROVE id(b) \in Ids(all)
      <4>1. CASE b \in K \X r
        <5>1. id(b) \in Ids(out)
          BY <1>1, <4>1 DEF Containers, K, r, id, chain
        <5> QED
          BY <2>9, <5>1
      <4>2. CASE \E k \in K : b = <<k, root>>
        BY <2>9, <4>2
      <4> QED
        BY <2>13, <4>1, <4>2
    <3> QED
      BY <2>1, <3>1, <3>2 DEF Containers, K, id, chain
  <2>16. ParentsThere(all)
    <3> SUFFICES ASSUME NEW m \in DOMAIN t PROVE t[m].parent \in Ids(all) \cup {""}
      BY <2>1 DEF ParentsThere
    <3>1. CASE m \in DOMAIN s
      <4>1. s[m].parent \in Ids(out) \cup {""}
        BY <1>1, <3>1 DEF ParentsThere, s
      <4> QED
        BY <2>8, <2>9, <3>1, <4>1
    <3>2. ASSUME NEW k \in K, m = n + k PROVE t[m].parent \in Ids(all) \cup {""}
      <4>1. t[m].parent = IF k = 1 THEN "" ELSE id(<<k - 1, root>>)
        BY <2>3, <2>8, <3>2
      <4>2. k # 1 => k - 1 \in K
        BY <2>2
      <4> QED
        BY <2>9, <4>1, <4>2
    <3> QED
      BY <2>7, <3>1, <3>2
  <2>17. OnceBut(t, Clashing(x))
    <3> DEFINE clash == Clashing(x)
    <3>1. ASSUME NEW k \in K
          PROVE  /\ \A b \in K \X KeptRoots(x) :
                      b # <<k, root>> /\ id(b) = id(<<k, root>>) => id(<<k, root>>) \in clash
                 /\ \A i \in KeptIn(x) :
                      id(<<k, root>>) = x.nodes[i].id => id(<<k, root>>) \in clash
      <4>1. <<k, root>> \in (DOMAIN Chain0(x)) \X KeptRoots(x)
        BY DEF K, chain
      <4> QED
        BY <4>1, ClashingIs DEF id, K, chain
    <3> HIDE DEF clash
    <3>2. ASSUME NEW m \in DOMAIN s, NEW k \in K, s[m].id = id(<<k, root>>)
          PROVE  id(<<k, root>>) \in clash
      <4>1. CASE m > Len(order)
        <5>1. PICK b \in K \X r : s[m].id = id(b)
          BY <2>12, <4>1
        <5>2. b \in K \X KeptRoots(x) /\ b # <<k, root>>
          BY <1>2, <1>4 DEF r
        <5> QED
          BY <3>1, <3>2, <5>1, <5>2
      <4>2. CASE m <= Len(order)
        <5>1. m \in 1 .. Len(order)
          BY <2>6, <4>2
        <5>2. s[m].id = x.nodes[order[m]].id
          BY <1>1, <5>1 DEF Copies, s
        <5>3. order[m] \in KeptIn(x)
          <6>1. DOMAIN order = 1 .. Len(order)
            BY ListDomain
          <6> QED
            BY <5>1, <6>1 DEF Range
        <5> QED
          BY <3>1, <3>2, <5>2, <5>3
      <4> QED
        BY <2>6, <4>1, <4>2
    <3>3. ASSUME NEW k \in K, NEW l \in K, id(<<k, root>>) = id(<<l, root>>)
          PROVE  k = l \/ id(<<k, root>>) \in clash
      <4>1. <<l, root>> \in K \X KeptRoots(x) /\ (k # l => <<l, root>> # <<k, root>>)
        OBVIOUS
      <4> QED
        BY <3>1, <3>3, <4>1
    <3> SUFFICES ASSUME NEW m \in DOMAIN t, NEW j \in DOMAIN t, t[m].id = t[j].id
                 PROVE  m = j \/ t[m].id \in clash
      BY DEF OnceBut, clash
    <3>4. \A k \in K : t[n + k].id = id(<<k, root>>)
      BY <2>3, <2>8
    <3>5. CASE m \in DOMAIN s /\ j \in DOMAIN s
      BY <1>1, <2>8, <3>5 DEF OnceBut, s, clash
    <3>6. ASSUME m \in DOMAIN s, NEW k \in K, j = n + k PROVE t[m].id \in clash
      BY <2>8, <3>2, <3>4, <3>6
    <3>7. ASSUME j \in DOMAIN s, NEW k \in K, m = n + k PROVE t[m].id \in clash
      BY <2>8, <3>2, <3>4, <3>7
    <3>8. ASSUME NEW k \in K, NEW l \in K, m = n + k, j = n + l
          PROVE  m = j \/ t[m].id \in clash
      BY <3>3, <3>4, <3>8
    <3> QED
      BY <2>7, <3>5, <3>6, <3>7, <3>8
  <2>18. PlacedInv(x, order, all)
    BY <2>1, <2>10, <2>11, <2>15, <2>16, <2>17 DEF PlacedInv
  <2> QED
    BY <2>1, <2>9, <2>14, <2>18 DEF all
<1> QED
  BY <1>3, <1>4

(* Every kept node has its copy.                                           *)
LEMMA KeptIsThere ==
  ASSUME NEW x, NEW order, IsList(order), Range(order) = KeptIn(x),
         NEW out, PlacedInv(x, order, out), NEW i \in KeptIn(x)
  PROVE  x.nodes[i].id \in Ids(out)
<1>1. PICK m \in DOMAIN order : order[m] = i
  BY DEF Range
<1>2. DOMAIN order = 1 .. Len(order) /\ Len(order) \in Nat
  BY ListDomain
<1>3. m \in 1 .. Len(out.nodes) /\ DOMAIN out.nodes = 1 .. Len(out.nodes)
  <2>1. IsList(out.nodes) /\ Len(order) <= Len(out.nodes)
    BY DEF PlacedInv, Shape
  <2>2. Len(out.nodes) \in Nat /\ DOMAIN out.nodes = 1 .. Len(out.nodes)
    BY <2>1, ListDomain
  <2> QED
    BY <1>2, <2>1, <2>2
<1>4. out.nodes[m].id = x.nodes[i].id
  BY <1>1, <1>2 DEF PlacedInv, Copies
<1> QED
  BY <1>3, <1>4 DEF Ids

(* The places of a list are numbers.                                       *)
LEMMA PlacesAreNumbers ==
  ASSUME NEW s, IsList(s)
  PROVE  DOMAIN s \subseteq Nat
<1>1. Len(s) \in Nat /\ DOMAIN s = 1 .. Len(s)
  BY ListDomain
<1> QED
  BY <1>1

(* A list that is not empty has a last element.                            *)
LEMMA LastIsThere ==
  ASSUME NEW s, IsList(s), s # <<>>
  PROVE  Len(s) \in DOMAIN s
<1>1. Len(s) \in Nat /\ DOMAIN s = 1 .. Len(s)
  BY ListDomain
<1>2. s \in Seq(Range(s))
  BY DEF IsList
<1>3. Len(s) = 0 => s = <<>>
  BY <1>2
<1>4. Len(s) # 0
  BY <1>3
<1> QED
  BY <1>1, <1>4

(* Convert: a kept node finds a parent among the nodes there are then.     *)
LEMMA ReparentKeeps ==
  ASSUME NEW x, x.target \in DOMAIN RootChain, NEW order, IsList(order),
         Range(order) = KeptIn(x), NEW out, PlacedInv(x, order, out), NEW i \in KeptIn(x),
         NearestKept(x, i) \in {x.nodes[j].id : j \in KeptIn(x)} \cup {""}
  PROVE  PlacedInv(x, order, Reparent(x, i, RootOf(x, i), out))
<1> DEFINE root == RootOf(x, i)
           all == WithChain(x, out, root)
           bottom == Bottom(x.target, root)
           id == x.nodes[i].id
           near == NearestKept(x, i)
           type == TypeOf(out.nodes, id)
           moved == Moved(all.nodes, type, bottom)
<1>1. root \in KeptRoots(x)
  BY DEF KeptRoots
<1>2. PlacedInv(x, order, all) /\ root \in all.roots /\ Ids(out) \subseteq Ids(all)
  BY <1>1, ChainKeeps
<1>3. id \in Ids(out) /\ id \in Ids(all)
  BY <1>2, KeptIsThere
<1>4. bottom \in Ids(all)
  <2> DEFINE chain == RootChain[x.target]
             b == <<Len(chain), root>>
  <2>1. IsList(chain) /\ chain # <<>>
    BY ConversionAssumption
  <2>2. Len(chain) \in DOMAIN chain
    <3> HIDE DEF chain
    <3> QED
      BY <2>1, LastIsThere
  <2>3. BoxId(x, b) = bottom
    BY DEF BoxId, Chain0, Bottom
  <2>4. \A c \in (DOMAIN Chain0(x)) \X all.roots : BoxId(x, c) \in Ids(all)
    BY <1>2 DEF PlacedInv, Containers
  <2>5. b \in (DOMAIN Chain0(x)) \X all.roots
    BY <1>2, <2>2 DEF Chain0
  <2> QED
    BY <2>3, <2>4, <2>5
<1>5. near = "" \/ near \in Ids(out)
  BY KeptIsThere
<1>6. moved \in Ids(all)
  <2> DEFINE can == {k \in DOMAIN all.nodes : /\ ~Entry[all.nodes[k].type].transparent
                                              /\ CanContain(all.nodes[k].type, type)}
             m == Min(can)
  <2>1. moved = IF can = {} \/ CanContain(TypeOf(all.nodes, bottom), type) THEN bottom
                ELSE all.nodes[m].id
    BY DEF Moved
  <2>2. can # {} => m \in DOMAIN all.nodes
    <3>1. IsList(all.nodes)
      BY <1>2 DEF PlacedInv, Shape
    <3>2. DOMAIN all.nodes \subseteq Nat
      BY ONLY <3>1, PlacesAreNumbers
    <3>3. can \subseteq Nat /\ can \subseteq DOMAIN all.nodes
      BY <3>2
    <3> HIDE DEF can
    <3> QED
      BY <3>3, MinOf
  <2> HIDE DEF can, m, all, bottom, moved
  <2> QED
    BY <1>4, <2>1, <2>2 DEF Ids
<1>7. Reparent(x, i, root, out) = Place(id, type, near, bottom, out, all)
  BY DEF Reparent
<1> DEFINE p == IF near = "" /\ CanContain(TypeOf(all.nodes, bottom), type) THEN bottom ELSE moved
<1>8. Place(id, type, near, bottom, out, all) =
        IF near # "" /\ CanContain(TypeOf(out.nodes, near), type) THEN Child(out, id, near)
        ELSE Child(all, id, p)
  BY Zenon DEF Place
<1> HIDE DEF root, all, bottom, id, near, type, moved
<1>9. p \in Ids(all)
  BY <1>4, <1>6
<1> HIDE DEF p
<1>10. PlacedInv(x, order, Child(all, id, p))
  BY <1>2, <1>3, <1>9, ChildKeeps
<1>11. near # "" => PlacedInv(x, order, Child(out, id, near))
  BY <1>3, <1>5, ChildKeeps
<1> QED
  BY <1>7, <1>8, <1>10, <1>11 DEF root

(* What is converted: nodes with an id of their own, of which each has the *)
(* fate of its type and a walk up that ends.                               *)
Converting(x) ==
  /\ IsList(x.nodes) /\ x.target \in DOMAIN RootChain
  /\ \A i, j \in DOMAIN x.nodes : x.nodes[i].id = x.nodes[j].id => i = j
  /\ \A i \in DOMAIN x.nodes : Known(x.nodes[i].type)
                               /\ x.fate[i] = FateOf(x.nodes[i].type, x.target)
  /\ \A i \in KeptIn(x) : NearestKept(x, i) \in {x.nodes[j].id : j \in KeptIn(x)} \cup {""}

(* Convert: the nodes of the result.                                       *)
LEMMA ConvertedAre ==
  ASSUME NEW x, Converting(x)
  PROVE  \E out : /\ PlacedInv(x, KeptNodes(x), out) /\ ConvertedNodes(x) = out.nodes
<1> DEFINE order == KeptNodes(x)
           n == Len(order)
<1>1. /\ IsList(order) /\ Range(order) = KeptIn(x)
      /\ \A m, k \in DOMAIN order : order[m] = order[k] => m = k
  BY KeptAre DEF Converting, KeptIn
<1>2. n \in Nat /\ DOMAIN order = 1 .. n
  BY <1>1, ListDomain
<1>3. \E f : PlacedUpTo(x, order, n, f)
  BY <1>2, PlacedUpToExists
<1> DEFINE placed == CHOOSE f : PlacedUpTo(x, order, n, f)
<1>4. PlacedUpTo(x, order, n, placed)
  BY <1>3, Zenon
<1>5. ConvertedNodes(x) = placed[n].nodes
  BY Zenon DEF ConvertedNodes, PlacedUpTo
<1> DEFINE T == {k \in Nat : k <= n => PlacedInv(x, order, placed[k])}
<1> HIDE DEF placed, order, n
<1>6. 0 \in T
  <2> DEFINE s == [m \in DOMAIN order |-> Copy(x, order[m])]
             out == placed[0]
  <2>1. out = [nodes |-> s, roots |-> {}]
    BY <1>2, <1>4 DEF PlacedUpTo
  <2>2. IsList(s) /\ Len(s) = n /\ DOMAIN s = 1 .. n
    <3>1. IsList(s) /\ Len(s) = Len(order)
      BY <1>1, ListMap
    <3> QED
      BY <1>2, <3>1 DEF n
  <2>3. \A i : DOMAIN Copy(x, i) = Fields /\ Copy(x, i).id = x.nodes[i].id /\ Copy(x, i).parent = ""
    BY DEF Copy, Fields
  <2>4. \A m \in 1 .. n : s[m] = Copy(x, order[m])
    BY <1>2
  <2>5. out.nodes = s /\ out.roots = {} /\ DOMAIN out = {"nodes", "roots"}
    <3> HIDE DEF s, out
    <3> QED
      BY <2>1
  <2> HIDE DEF s, out
  <2>6. Shape(x, order, out)
    <3>1. n <= n
      BY <1>2
    <3> QED
      BY <2>2, <2>3, <2>4, <2>5, <3>1 DEF Shape, n
  <2>7. Copies(x, order, out)
    BY <2>3, <2>4, <2>5 DEF Copies, n
  <2>8. Containers(x, order, out)
    <3>1. \A m \in DOMAIN s : ~(m > n)
      BY <1>2, <2>2
    <3> QED
      BY <2>5, <3>1 DEF Containers, n
  <2>9. ParentsThere(out)
    <3>1. \A m \in 1 .. n : s[m].parent = ""
      BY <2>3, <2>4
    <3> QED
      BY <2>2, <2>5, <3>1 DEF ParentsThere
  <2>10. OnceBut(out.nodes, Clashing(x))
    <3> SUFFICES ASSUME NEW m \in 1 .. n, NEW k \in 1 .. n, s[m].id = s[k].id PROVE m = k
      BY <2>2, <2>5 DEF OnceBut
    <3>1. order[m] \in DOMAIN x.nodes /\ order[k] \in DOMAIN x.nodes
      BY <1>1, <1>2 DEF KeptIn, Range
    <3>2. x.nodes[order[m]].id = x.nodes[order[k]].id
      BY <2>3, <2>4
    <3>3. order[m] = order[k]
      BY <3>1, <3>2 DEF Converting
    <3> QED
      BY <1>1, <1>2, <3>3
  <2> QED
    BY <2>6, <2>7, <2>8, <2>9, <2>10 DEF PlacedInv, out
<1>7. ASSUME NEW k \in Nat, k \in T PROVE k + 1 \in T
  <2> SUFFICES ASSUME k + 1 <= n PROVE PlacedInv(x, order, placed[k + 1])
    OBVIOUS
  <2>1. k + 1 \in 0 .. n /\ k + 1 # 0 /\ (k + 1) - 1 = k /\ k + 1 \in 1 .. n
    BY <1>2
  <2> DEFINE i == order[k + 1]
             out == placed[k]
  <2>2. placed[k + 1] = Reparent(x, i, RootOf(x, i), out)
    BY <1>4, <2>1 DEF PlacedUpTo
  <2>3. PlacedInv(x, order, out)
    BY <1>2, <1>7
  <2>4. i \in KeptIn(x)
    BY <1>1, <1>2, <2>1 DEF Range
  <2> HIDE DEF i, out
  <2>5. NearestKept(x, i) \in {x.nodes[j].id : j \in KeptIn(x)} \cup {""}
    BY <2>4 DEF Converting
  <2>6. x.target \in DOMAIN RootChain
    BY DEF Converting
  <2>7. PlacedInv(x, order, Reparent(x, i, RootOf(x, i), out))
    BY <1>1, <2>3, <2>4, <2>5, <2>6, ReparentKeeps
  <2> QED
    BY <2>2, <2>7
<1> HIDE DEF T
<1>8. n \in T
  BY <1>2, <1>6, <1>7, Induction
<1>9. PlacedInv(x, order, placed[n])
  BY <1>2, <1>8 DEF T
<1> QED
  BY <1>5, <1>9 DEF order

(* What is converted is a diagram without errors, all of whose walks end.  *)
LEMMA FatedIs ==
  ASSUME NEW d, Clean(d), NEW t \in DOMAIN RootChain, ConvertEnds(Fated(Index(d), t))
  PROVE  LET x == Fated(Index(d), t) IN
         /\ Converting(x) /\ x.nodes = d.nodes /\ x.edges = d.edges /\ x.target = t
<1> DEFINE y == Index(d)
           r == [target |-> t, fate |-> [i \in DOMAIN y.nodes |-> FateOf(y.nodes[i].type, t)]]
           x == Fated(y, t)
<1>1. /\ y.nodes = d.nodes /\ y.edges = d.edges
      /\ {"nodes", "edges", "walk"} \subseteq DOMAIN y /\ DOMAIN y \cap {"target", "fate"} = {}
  BY DEF Index, Lines, WithChains, ++
<1>2. /\ DOMAIN r = {"target", "fate"} /\ r.target = t
      /\ r.fate = [i \in DOMAIN y.nodes |-> FateOf(y.nodes[i].type, t)]
  OBVIOUS
<1>3. x = y ++ r
  BY DEF Fated
<1>4. IsList(d.nodes) /\ Errors(Problems(y)) = {}
  BY DEF Clean
<1>5. \A i \in DOMAIN y.nodes : y.walk[i] = Walk(d, Parents(d), i)
  BY <1>1, IndexWalk
<1> HIDE DEF y, r
<1>6. /\ x.nodes = d.nodes /\ x.edges = d.edges /\ x.walk = y.walk /\ x.target = t
      /\ x.fate = r.fate
  BY <1>1, <1>2, <1>3, Given
<1> HIDE DEF x
<1>7. \A i \in DOMAIN d.nodes : x.fate[i] = FateOf(d.nodes[i].type, t)
  BY <1>1, <1>2, <1>6
<1>8. \A i, j \in DOMAIN d.nodes : d.nodes[i].id = d.nodes[j].id => i = j
  BY <1>4, OneNode DEF y
<1>9. \A i \in DOMAIN d.nodes : Known(d.nodes[i].type)
  BY <1>1, <1>4, CleanNode
<1>10. Len(d.nodes) \in Nat /\ DOMAIN d.nodes = 1 .. Len(d.nodes)
  BY <1>4, ListDomain
<1>11. ASSUME NEW i \in KeptIn(x)
       PROVE  NearestKept(x, i) \in {x.nodes[j].id : j \in KeptIn(x)} \cup {""}
  <2> DEFINE S == Stops(x, i)
             m == Min(S)
             j == x.walk[i][m]
  <2>1. i \in DOMAIN d.nodes /\ Kept(x, i)
    BY <1>6, <1>11 DEF KeptIn
  <2>2. S # {}
    BY <1>6, <2>1 DEF ConvertEnds, x, y
  <2>3. Steps(x) = Steps(d) /\ Steps(d) = 0 .. 2 * Len(d.nodes) + 2
    BY <1>6 DEF Steps
  <2>4. S \subseteq Steps(x)
    BY DEF Stops
  <2>5. S \subseteq Nat
    BY <1>10, <2>3, <2>4
  <2> HIDE DEF S
  <2>6. m \in S
    BY <2>2, <2>5, MinOf
  <2>7. m \in Steps(d)
    BY <2>3, <2>4, <2>6
  <2>8. x.walk[i] = Walk(d, Parents(d), i)
    BY <1>1, <1>5, <1>6, <2>1
  <2>9. j \in 0 .. Len(d.nodes)
    BY <1>4, <2>1, <2>7, <2>8, WalkFacts
  <2>10. NearestKept(x, i) = IF j = 0 THEN "" ELSE IF Kept(x, j) THEN x.nodes[j].id ELSE ""
    BY DEF NearestKept, S
  <2> HIDE DEF j
  <2>11. j # 0 => j \in DOMAIN d.nodes
    BY <1>10, <2>9
  <2> QED
    BY <1>6, <2>10, <2>11 DEF KeptIn
<1>12. IsList(x.nodes) /\ x.target \in DOMAIN RootChain
  BY <1>4, <1>6
<1>13. Converting(x)
  BY <1>6, <1>7, <1>8, <1>9, <1>11, <1>12 DEF Converting
<1> QED
  BY <1>6, <1>13 DEF x, y

(* What is kept is of no Terraform provider, or becomes what the target    *)
(* provider has for it.                                                    *)
LEMMA CopyIsOfTarget ==
  ASSUME NEW x, Converting(x), NEW i \in KeptIn(x)
  PROVE  Entry[Copy(x, i).type].provider \in Neutral \cup {x.target}
<1> DEFINE n == x.nodes[i]
           t == n.type
           p == x.target
<1>1. i \in DOMAIN x.nodes /\ Kept(x, i)
  BY DEF KeptIn
<1>2. x.fate[i] = FateOf(t, p) /\ Known(t)
  BY <1>1 DEF Converting
<1>3. x.fate[i] \in {"copied", "converted"}
  BY <1>1 DEF Kept
<1>4. CASE x.fate[i] = "copied"
  <2>1. ~HasTerraform(Entry[t].provider)
    BY <1>2, <1>4 DEF FateOf
  <2>2. Copy(x, i).type = t
    BY <1>4 DEF Copy
  <2> QED
    BY <2>1, <2>2 DEF HasTerraform
<1>5. CASE x.fate[i] # "copied"
  <2> DEFINE row == Row(t)
  <2>1. p \in DOMAIN row /\ Known(row[p])
    BY <1>2, <1>3, <1>5 DEF FateOf
  <2>2. t \in DOMAIN Counterparts
    BY <2>1 DEF Row
  <2>3. p \in DOMAIN Counterparts[t] /\ Known(Counterparts[t][p])
    BY <2>1, <2>2 DEF Row
  <2>4. Entry[Counterparts[t][p]].provider = p
    BY <2>2, <2>3, ConversionAssumption
  <2>5. Copy(x, i).type = Counterparts[t][p]
    BY <1>5 DEF Copy
  <2> QED
    BY <2>4, <2>5
<1> QED
  BY <1>4, <1>5

(* So every node of the result is of no Terraform provider or of the       *)
(* target.                                                                 *)
LEMMA PlacedAreOfTarget ==
  ASSUME NEW x, Converting(x), NEW out, PlacedInv(x, KeptNodes(x), out),
         NEW m \in DOMAIN out.nodes
  PROVE  Entry[out.nodes[m].type].provider \in Neutral \cup {x.target}
<1> DEFINE order == KeptNodes(x)
<1>1. IsList(order) /\ Range(order) = KeptIn(x)
  BY KeptAre DEF Converting, KeptIn
<1>2. DOMAIN order = 1 .. Len(order) /\ Len(order) \in Nat
  BY <1>1, ListDomain
<1>3. IsList(out.nodes)
  BY DEF PlacedInv, Shape
<1>4. m \in 1 .. Len(out.nodes) /\ Len(out.nodes) \in Nat
  BY <1>3, ListDomain
<1> HIDE DEF order
<1>5. CASE m <= Len(order)
  <2>1. m \in 1 .. Len(order)
    BY <1>2, <1>4, <1>5
  <2>2. order[m] \in KeptIn(x)
    BY <1>1, <1>2, <2>1 DEF Range
  <2>3. out.nodes[m].type = Copy(x, order[m]).type
    BY <2>1 DEF PlacedInv, Copies, order
  <2> QED
    BY <2>2, <2>3, CopyIsOfTarget
<1>6. CASE m > Len(order)
  <2>1. PICK b \in (DOMAIN Chain0(x)) \X out.roots : out.nodes[m].type = Chain0(x)[b[1]]
    BY <1>6 DEF PlacedInv, Containers, order
  <2>2. Chain0(x)[b[1]] \in Range(RootChain[x.target])
    BY <2>1 DEF Chain0, Range
  <2>3. x.target \in DOMAIN RootChain
    BY DEF Converting
  <2>4. Entry[Chain0(x)[b[1]]].provider = x.target
    BY <2>2, <2>3, ConversionAssumption
  <2> QED
    BY <2>1, <2>4
<1> QED
  BY <1>2, <1>4, <1>5, <1>6

(* What is not there is an account or region, was reported, or is a        *)
(* drawing the table says nothing of.                                      *)
LEMMA NothingIsLost ==
  ASSUME NEW x, Converting(x), NEW out, PlacedInv(x, KeptNodes(x), out),
         NEW i \in DOMAIN x.nodes, x.nodes[i].id \notin Ids(out)
  PROVE  \/ Entry[x.nodes[i].type].role \in {"account", "region"}
         \/ i \in Reported(x) \/ OnlyDrawn(x.nodes[i].type)
<1> DEFINE order == KeptNodes(x)
<1>1. IsList(order) /\ Range(order) = KeptIn(x)
  BY KeptAre DEF Converting, KeptIn
<1>2. i \notin KeptIn(x)
  BY <1>1, KeptIsThere
<1>3. Known(x.nodes[i].type) /\ x.fate[i] = FateOf(x.nodes[i].type, x.target)
  BY DEF Converting
<1>4. \/ x.fate[i] \in {"copied", "converted", "dropped"}
      \/ Entry[x.nodes[i].type].role \in {"account", "region"} \/ OnlyDrawn(x.nodes[i].type)
  BY <1>3 DEF FateOf
<1> QED
  BY <1>2, <1>4 DEF KeptIn, Kept, Reported

-----------------------------------------------------------------------------
(* Conversion: the saved result and its edges.                             *)

(* Saving leaves the nodes what they are, in another order.                *)
LEMMA SavedNodes ==
  ASSUME NEW c, IsList(c.nodes)
  PROVE  LET d == Encode(c) IN
         /\ IsList(d.nodes) /\ Ids(d) = Ids(c)
         /\ \A k \in DOMAIN d.nodes : \E m \in DOMAIN c.nodes : d.nodes[k] = c.nodes[m]
         /\ \A clash : OnceBut(c.nodes, clash) => OnceBut(d.nodes, clash)
<1> DEFINE s == c.nodes
           t == Sorted(s)
<1>1. DOMAIN t = DOMAIN s /\ IsList(t)
  BY SortedIs
<1>2. PICK p \in [DOMAIN s -> DOMAIN s] :
        /\ \A k \in DOMAIN s : t[k] = s[p[k]]
        /\ \A k, m \in DOMAIN s : p[k] = p[m] => k = m
        /\ \A i \in DOMAIN s : \E k \in DOMAIN s : p[k] = i
  BY SortedIs
<1>3. Encode(c).nodes = t
  BY DEF Encode
<1> HIDE DEF t
<1>4. Ids(Encode(c)) = Ids(c)
  BY <1>1, <1>2, <1>3 DEF Ids
<1>5. \A k \in DOMAIN t : \E m \in DOMAIN s : t[k] = s[m]
  BY <1>1, <1>2
<1>6. ASSUME NEW clash, OnceBut(s, clash) PROVE OnceBut(t, clash)
  BY <1>1, <1>2, <1>6 DEF OnceBut
<1> QED
  BY <1>1, <1>3, <1>4, <1>5, <1>6

(* And edges.                                                              *)
LEMMA SavedEdges ==
  ASSUME NEW c, IsList(c.edges)
  PROVE  /\ IsList(Encode(c).edges)
         /\ \A k \in DOMAIN Encode(c).edges :
              \E m \in DOMAIN c.edges : Encode(c).edges[k] = c.edges[m]
<1> DEFINE s == c.edges
           t == Sorted(s)
<1>1. DOMAIN t = DOMAIN s /\ IsList(t)
  BY SortedIs
<1>2. \E p \in [DOMAIN s -> DOMAIN s] : \A k \in DOMAIN s : t[k] = s[p[k]]
  BY SortedIs
<1>3. Encode(c).edges = t
  BY DEF Encode
<1> HIDE DEF t
<1> QED
  BY <1>1, <1>2, <1>3

(* The node found by an id that does not clash is the same before and      *)
(* after saving.                                                           *)
LEMMA SameNode ==
  ASSUME NEW c, IsList(c.nodes), NEW clash, OnceBut(c.nodes, clash),
         NEW id \in Ids(c) \ clash, id # ""
  PROVE  LET d == Encode(c) IN
         /\ Node(c, id) # 0 /\ Node(d, id) # 0
         /\ d.nodes[Node(d, id)] = c.nodes[Node(c, id)]
<1> DEFINE d == Encode(c)
<1>1. /\ IsList(d.nodes) /\ Ids(d) = Ids(c)
      /\ \A k \in DOMAIN d.nodes : \E m \in DOMAIN c.nodes : d.nodes[k] = c.nodes[m]
  BY SavedNodes
<1> HIDE DEF d
<1>2. ASSUME NEW e, IsList(e.nodes), Ids(e) = Ids(c)
      PROVE  Node(e, id) \in DOMAIN e.nodes /\ e.nodes[Node(e, id)].id = id /\ Node(e, id) # 0
  <2>1. \E i \in DOMAIN e.nodes : e.nodes[i].id = id
    BY <1>2 DEF Ids
  <2>2. Node(e, id) # 0
    BY <1>2, <2>1, NodeFacts
  <2> QED
    BY <1>2, <2>2, NodeFacts
<1>3. /\ Node(c, id) \in DOMAIN c.nodes /\ c.nodes[Node(c, id)].id = id /\ Node(c, id) # 0
      /\ Node(d, id) \in DOMAIN d.nodes /\ d.nodes[Node(d, id)].id = id /\ Node(d, id) # 0
  BY <1>1, <1>2
<1>4. PICK m \in DOMAIN c.nodes : d.nodes[Node(d, id)] = c.nodes[m]
  BY <1>1, <1>3
<1>5. m = Node(c, id)
  BY <1>3, <1>4 DEF OnceBut
<1> QED
  BY <1>3, <1>4, <1>5 DEF d

(* The type an id stands for in a list of nodes.                           *)
TypeAt(nodes, id) == nodes[Node([nodes |-> nodes], id)].type

(* An edge between two of them that their types allow, drawn as they say.  *)
Drawable(nodes, e) ==
  /\ {e.source, e.target} \subseteq Ids([nodes |-> nodes]) \ {""}
  /\ e.kind = Connection(TypeAt(nodes, e.source), TypeAt(nodes, e.target)).kind

(* So is every edge of the result.                                         *)
LEMMA ConvertedEdgesAre ==
  ASSUME NEW x, Converting(x), IsList(x.edges), NEW out, PlacedInv(x, KeptNodes(x), out),
         NEW edges, edges = ConvertedEdges(x, out.nodes)
  PROVE  IsList(edges) /\ \A k \in DOMAIN edges : Drawable(out.nodes, edges[k])
<1> DEFINE c == [nodes |-> out.nodes]
           order == KeptNodes(x)
           type(id) == out.nodes[Node(c, id)].type
           kind(e) == Connection(type(e.source), type(e.target)).kind
           stays(e) == {Node(x, e.source), Node(x, e.target)} \subseteq Range(order)
           S == {e \in Range(x.edges) : stays(e) /\ kind(e) # Unset}
           kept == Among(x.edges, S)
           plain(e) == [id |-> e.id, kind |-> kind(e), source |-> e.source,
                        target |-> e.target, attr |-> "", type |-> "", name |-> "", props |-> {}]
           drawn == [k \in DOMAIN kept |-> plain(kept[k])]
<1>1. edges = drawn
  BY Zenon DEF ConvertedEdges
<1>2. IsList(order) /\ Range(order) = KeptIn(x)
  BY KeptAre DEF Converting, KeptIn
<1>3. IsList(kept) /\ Range(kept) = Range(x.edges) \cap S
  <2> HIDE DEF S
  <2> QED
    BY AmongFacts
<1>4. Ids(c) = Ids(out)
  BY DEF Ids
<1>5. ASSUME NEW id, Node(x, id) \in Range(order) PROVE id \in Ids(c) \ {""}
  <2>1. IsList(x.nodes)
    BY DEF Converting
  <2>2. Node(x, id) \in KeptIn(x)
    BY <1>2, <1>5
  <2>3. Node(x, id) # 0
    <3>1. Node(x, id) \in DOMAIN x.nodes /\ DOMAIN x.nodes = 1 .. Len(x.nodes)
      BY <2>1, <2>2, ListDomain DEF KeptIn
    <3> QED
      BY <3>1
  <2>4. id # "" /\ x.nodes[Node(x, id)].id = id
    BY <2>1, <2>3, NodeFacts
  <2>5. x.nodes[Node(x, id)].id \in Ids(out)
    BY <1>2, <2>2, KeptIsThere
  <2> QED
    BY <1>4, <2>4, <2>5
<1>6. \A e \in S : {e.source, e.target} \subseteq Ids(c) \ {""}
  <2>1. \A e \in S : Node(x, e.source) \in Range(order) /\ Node(x, e.target) \in Range(order)
    BY Zenon
  <2> HIDE DEF S, c, order
  <2> QED
    BY <1>5, <2>1
<1>7. edges = [k \in DOMAIN kept |-> edges[k]]
  BY <1>1
<1>8. \A k \in DOMAIN kept : /\ edges[k].source = kept[k].source
                             /\ edges[k].target = kept[k].target
                             /\ edges[k].kind = kind(kept[k])
  <2>1. \A e : plain(e).source = e.source /\ plain(e).target = e.target /\ plain(e).kind = kind(e)
    <3> HIDE DEF kind
    <3> QED
      OBVIOUS
  <2>2. \A k \in DOMAIN kept : edges[k] = plain(kept[k])
    BY <1>1
  <2> HIDE DEF drawn, plain, kept, kind
  <2> QED
    BY <2>1, <2>2
<1> HIDE DEF drawn, kept
<1>9. IsList(edges) /\ DOMAIN edges = DOMAIN kept
  BY <1>3, <1>7, ListMap
<1>10. \A k \in DOMAIN kept : kept[k] \in S
  <2> HIDE DEF S
  <2> QED
    BY <1>3 DEF Range
<1> HIDE DEF S, c
<1>11. ASSUME NEW k \in DOMAIN edges
       PROVE  /\ {edges[k].source, edges[k].target} \subseteq Ids(c) \ {""}
              /\ edges[k].kind = Connection(type(edges[k].source), type(edges[k].target)).kind
  <2>1. /\ edges[k].source = kept[k].source /\ edges[k].target = kept[k].target
        /\ edges[k].kind = kind(kept[k]) /\ kept[k] \in S
    BY <1>8, <1>9, <1>10, <1>11
  <2>2. {kept[k].source, kept[k].target} \subseteq Ids(c) \ {""}
    BY <1>6, <2>1
  <2>3. kind(kept[k]) = Connection(type(kept[k].source), type(kept[k].target)).kind
    OBVIOUS
  <2> HIDE DEF kind, type
  <2> QED
    BY <2>1, <2>2, <2>3
<1>12. \A id : TypeAt(out.nodes, id) = type(id)
  BY DEF TypeAt, c
<1> HIDE DEF type
<1> QED
  BY <1>9, <1>11, <1>12 DEF c, Drawable

(* What a diagram without errors becomes.                                  *)
Result(d) == Encode(Convert(Fated(Index(d), Target)))

(* It is sound: what ConversionSound says of one conversion.               *)
LEMMA ResultIsSound ==
  ASSUME NEW d, Clean(d), IsList(d.edges), ConvertEnds(Fated(Index(d), Target))
  PROVE  LET x == Fated(Index(d), Target)
             r == Result(d) IN
         /\ \A i \in DOMAIN r.nodes :
              /\ r.nodes[i].parent \in Ids(r) \cup {""}
              /\ Entry[r.nodes[i].type].provider \in Neutral \cup {Target}
         /\ OnceBut(r.nodes, Clashing(x))
         /\ \A i \in DOMAIN d.nodes :
              d.nodes[i].id \notin Ids(r) =>
                \/ Entry[d.nodes[i].type].role \in {"account", "region"}
                \/ i \in Reported(x) \/ OnlyDrawn(d.nodes[i].type)
         /\ \A k \in DOMAIN r.edges :
              {r.edges[k].source, r.edges[k].target} \cap Clashing(x) = {} =>
                r.edges[k].kind = Index(r).rule[k].kind
<1> DEFINE x == Fated(Index(d), Target)
<1>1. Target \in DOMAIN RootChain
  BY DiagramAssumption
<1>2. Converting(x) /\ x.nodes = d.nodes /\ x.edges = d.edges /\ x.target = Target
  BY <1>1, FatedIs
<1>3. Result(d) = Encode(Convert(x))
  BY DEF Result
<1> HIDE DEF x
<1>4. PICK out : PlacedInv(x, KeptNodes(x), out) /\ ConvertedNodes(x) = out.nodes
  BY <1>2, ConvertedAre
<1> DEFINE c == Convert(x)
           r == Encode(c)
<1>5. c.nodes = out.nodes /\ c.edges = ConvertedEdges(x, out.nodes)
  BY <1>4 DEF Convert, WithEdges
<1> HIDE DEF c
<1>6. Ids(c) = Ids(out) /\ IsList(c.nodes)
  BY <1>4, <1>5 DEF Ids, PlacedInv, Shape
<1>7. /\ IsList(r.nodes) /\ Ids(r) = Ids(c)
      /\ \A k \in DOMAIN r.nodes : \E m \in DOMAIN c.nodes : r.nodes[k] = c.nodes[m]
      /\ \A clash : OnceBut(c.nodes, clash) => OnceBut(r.nodes, clash)
  BY <1>6, SavedNodes
<1> HIDE DEF r
<1>8. ASSUME NEW i \in DOMAIN r.nodes
      PROVE  /\ r.nodes[i].parent \in Ids(r) \cup {""}
             /\ Entry[r.nodes[i].type].provider \in Neutral \cup {Target}
  <2>1. PICK m \in DOMAIN out.nodes : r.nodes[i] = out.nodes[m]
    BY <1>5, <1>7
  <2>2. out.nodes[m].parent \in Ids(out) \cup {""}
    BY <1>4 DEF PlacedInv, ParentsThere
  <2>3. Entry[out.nodes[m].type].provider \in Neutral \cup {Target}
    BY <1>2, <1>4, PlacedAreOfTarget
  <2> QED
    BY <1>6, <1>7, <2>1, <2>2, <2>3
<1>9. ASSUME NEW i \in DOMAIN d.nodes, d.nodes[i].id \notin Ids(r)
      PROVE  \/ Entry[d.nodes[i].type].role \in {"account", "region"}
             \/ i \in Reported(x) \/ OnlyDrawn(d.nodes[i].type)
  BY <1>2, <1>4, <1>6, <1>7, <1>9, NothingIsLost
<1> DEFINE clash == Clashing(x)
<1> HIDE DEF clash
<1>10. OnceBut(c.nodes, clash) /\ OnceBut(r.nodes, clash)
  BY <1>4, <1>5, <1>7 DEF PlacedInv, clash
<1>11. ASSUME NEW k \in DOMAIN r.edges, {r.edges[k].source, r.edges[k].target} \cap clash = {}
       PROVE  r.edges[k].kind = Index(r).rule[k].kind
  <2>1. IsList(c.edges) /\ \A m \in DOMAIN c.edges : Drawable(c.nodes, c.edges[m])
    BY <1>2, <1>4, <1>5, ConvertedEdgesAre
  <2> DEFINE b == [nodes |-> c.nodes]
             type(id) == TypeAt(c.nodes, id)
  <2>2. Ids(b) = Ids(c) /\ \A id : Node(b, id) = Node(c, id)
    BY DEF Ids, Node
  <2>3. \A id : type(id) = c.nodes[Node(c, id)].type
    BY <2>2 DEF TypeAt
  <2>4. \A e : Drawable(c.nodes, e) =>
          /\ {e.source, e.target} \subseteq Ids(c) \ {""}
          /\ e.kind = Connection(type(e.source), type(e.target)).kind
    BY <2>2 DEF Drawable
  <2> HIDE DEF type, b
  <2>5. /\ IsList(r.edges)
        /\ \A l \in DOMAIN r.edges : \E m \in DOMAIN c.edges : r.edges[l] = c.edges[m]
    BY <2>1, SavedEdges DEF r
  <2>6. ASSUME NEW id \in Ids(c) \ clash, id # ""
        PROVE  Node(r, id) # 0 /\ r.nodes[Node(r, id)].type = type(id)
    BY <1>6, <1>10, <2>3, <2>6, SameNode DEF r
  <2>7. r.edges[k].kind = Index(r).rule[k].kind
    <3> DEFINE e == r.edges[k]
               y == Index(r)
    <3>1. PICK m \in DOMAIN c.edges : e = c.edges[m]
      BY <2>5
    <3>2. /\ {e.source, e.target} \subseteq Ids(c) \ {""}
          /\ {e.source, e.target} \cap clash = {}
          /\ e.kind = Connection(type(e.source), type(e.target)).kind
      BY <1>11, <2>1, <2>4, <3>1
    <3>3. /\ y.rule[k] = IF 0 \in {Node(r, e.source), Node(r, e.target)} THEN NoRule
                         ELSE Connection(r.nodes[Node(r, e.source)].type,
                                         r.nodes[Node(r, e.target)].type)
      <4> DEFINE z == WithChains(r, Walks(r, Parents(r)), Drawn(r))
                 src == [j \in DOMAIN r.edges |-> Node(r, r.edges[j].source)]
                 dst == [j \in DOMAIN r.edges |-> Node(r, r.edges[j].target)]
      <4>1. z.nodes = r.nodes /\ z.edges = r.edges /\ DOMAIN z \cap {"src", "dst", "rule"} = {}
        BY DEF WithChains
      <4>2. y = Lines(z, src, dst)
        BY Zenon DEF Index
      <4>3. src[k] = Node(r, e.source) /\ dst[k] = Node(r, e.target)
        OBVIOUS
      <4> HIDE DEF z, src, dst, y
      <4>4. y.rule = [j \in DOMAIN r.edges |->
                        IF 0 \in {src[j], dst[j]} THEN NoRule
                        ELSE Connection(r.nodes[src[j]].type, r.nodes[dst[j]].type)]
        BY <4>1, <4>2 DEF Lines, ++
      <4> QED
        BY <4>3, <4>4
    <3> HIDE DEF y, e
    <3>4. y.rule[k] = Connection(type(e.source), type(e.target))
      BY <2>6, <3>2, <3>3
    <3> QED
      BY <3>2, <3>4 DEF y, e
  <2> QED
    BY <2>7
<1> QED
  BY <1>3, <1>8, <1>9, <1>10, <1>11 DEF r, c, x, clash

-----------------------------------------------------------------------------
(* The edges are a list, so a conversion is sound.                         *)

(* The edges of a diagram are a list.                                      *)
HasEdges(d) == "edges" \in DOMAIN d /\ IsList(d.edges)

(* Those of the saved diagram are.                                         *)
EdgesInv == HasEdges(doc)

(* An edit of a diagram leaves its edges one.                              *)
LEMMA ChangesEdges ==
  ASSUME NEW d, HasNodes(d), HasEdges(d), NEW c \in Changes(d)
  PROVE  IsList(c.edges)
<1>1. ASSUME NEW x, c = [d EXCEPT !.nodes = x]
      PROVE  IsList(c.edges)
  BY <1>1 DEF HasEdges
<1>2. ASSUME NEW i \in DOMAIN d.nodes, c = Without(d, i)
      PROVE  IsList(c.edges)
  <2> DEFINE apart == {e \in Range(d.edges) : d.nodes[i].id \notin {e.source, e.target}}
  <2>1. c.edges = Among(d.edges, apart)
    BY <1>2 DEF Without
  <2> HIDE DEF apart
  <2> QED
    BY <2>1, AmongFacts DEF HasEdges
<1>3. ASSUME NEW e, c = [d EXCEPT !.edges = Append(@, e)]
      PROVE  IsList(c.edges)
  <2>1. c.edges = Append(d.edges, e)
    BY <1>3 DEF HasEdges
  <2> QED
    BY <2>1, ListAppend DEF HasEdges
<1>4. ASSUME NEW k \in DOMAIN d.edges, c = [d EXCEPT !.edges = RemoveAt(@, k)]
      PROVE  IsList(c.edges)
  <2>1. c.edges = SubSeq(d.edges, 1, k - 1) \o SubSeq(d.edges, k + 1, Len(d.edges))
    BY <1>4 DEF HasEdges, RemoveAt
  <2>2. k \in Int /\ Len(d.edges) \in Int
    BY ListDomain DEF HasEdges
  <2>3. IsList(SubSeq(d.edges, 1, k - 1)) /\ IsList(SubSeq(d.edges, k + 1, Len(d.edges)))
    BY <2>2, ListSubSeq DEF HasEdges
  <2> QED
    BY <2>1, <2>3, ListConcat
<1>5. CASE c \in Additions(d)
  BY <1>1, <1>5 DEF Additions
<1>6. CASE c \in Removals(d)
  BY <1>2, <1>6 DEF Removals
<1>7. CASE c \in Wirings(d)
  BY <1>3, <1>4, <1>7 DEF Wirings
<1>8. ASSUME NEW i \in DOMAIN d.nodes, NEW p,
             c \in Moves(d, i) \cup Renames(d, i) \cup Settings(d, i, p)
      PROVE  IsList(c.edges)
  <2>1. ASSUME NEW f, NEW x, c = [d EXCEPT !.nodes[i][f] = x] PROVE IsList(c.edges)
    BY <2>1 DEF HasEdges
  <2>2. c \in Moves(d, i) => \E x : c = [d EXCEPT !.nodes[i].parent = x]
    BY DEF Moves
  <2>3. c \in Renames(d, i) => \E x : c = [d EXCEPT !.nodes[i].name = x]
    BY DEF Renames
  <2>4. c \in Settings(d, i, p) => \E x : c = [d EXCEPT !.nodes[i].props = x]
    BY DEF Settings
  <2> QED
    BY <1>8, <2>1, <2>2, <2>3, <2>4
<1> QED
  BY <1>5, <1>6, <1>7, <1>8 DEF Changes

(* FlattenSeq as far as n.                                                 *)
FlatUpTo(seqs, n, f) ==
  f = [i \in 1 .. n |-> IF i = 1 THEN seqs[i] ELSE f[i - 1] \o seqs[i]]

(* It is there to be chosen.                                               *)
LEMMA FlatExists ==
  ASSUME NEW seqs
  PROVE  \A n \in Nat : \E f : FlatUpTo(seqs, n, f)
<1> DEFINE T == {n \in Nat : \E f : FlatUpTo(seqs, n, f)}
<1>1. 0 \in T
  <2> DEFINE f == [i \in 1 .. 0 |-> IF i = 1 THEN seqs[i] ELSE <<>> \o seqs[i]]
  <2>1. FlatUpTo(seqs, 0, f)
    BY DEF FlatUpTo
  <2> QED
    BY <2>1
<1>2. ASSUME NEW n \in Nat, n \in T PROVE n + 1 \in T
  <2>1. PICK f : FlatUpTo(seqs, n, f)
    BY <1>2
  <2> DEFINE next == IF n + 1 = 1 THEN seqs[n + 1] ELSE f[n] \o seqs[n + 1]
             g == [i \in 1 .. (n + 1) |-> IF i <= n THEN f[i] ELSE next]
             then(h, i) == IF i = 1 THEN seqs[i] ELSE h[i - 1] \o seqs[i]
  <2>2. \A i \in 1 .. (n + 1) : g[i] = then(g, i)
    <3> SUFFICES ASSUME NEW i \in 1 .. (n + 1) PROVE g[i] = then(g, i)
      OBVIOUS
    <3>1. i # 1 => i - 1 \in 1 .. n /\ g[i - 1] = f[i - 1]
      OBVIOUS
    <3>2. CASE i \in 1 .. n
      <4>1. f[i] = then(f, i)
        BY <2>1, <3>2 DEF FlatUpTo
      <4>2. g[i] = f[i]
        BY <3>2
      <4> HIDE DEF g
      <4> QED
        BY <3>1, <4>1, <4>2
    <3>3. CASE i = n + 1
      <4>1. g[i] = next /\ i - 1 = n
        BY <3>3
      <4> HIDE DEF g
      <4> QED
        BY <3>1, <3>3, <4>1
    <3> QED
      BY <3>2, <3>3
  <2>3. g = [i \in 1 .. (n + 1) |-> g[i]]
    OBVIOUS
  <2> HIDE DEF g
  <2>4. FlatUpTo(seqs, n + 1, g)
    BY <2>2, <2>3 DEF FlatUpTo
  <2> QED
    BY <2>4
<1> HIDE DEF T
<1>3. Nat \subseteq T
  BY <1>1, <1>2, Induction
<1> QED
  BY <1>3 DEF T

(* Lists put behind one another are a list.                                *)
LEMMA FlattenList ==
  ASSUME NEW seqs, IsList(seqs), \A i \in DOMAIN seqs : IsList(seqs[i])
  PROVE  IsList(FlattenSeq(seqs))
<1> DEFINE n == Len(seqs)
           flat == CHOOSE f : FlatUpTo(seqs, n, f)
<1>1. n \in Nat /\ DOMAIN seqs = 1 .. n
  BY ListDomain
<1>2. FlatUpTo(seqs, n, flat)
  <2>1. \E f : FlatUpTo(seqs, n, f)
    BY <1>1, FlatExists
  <2> QED
    BY <2>1, Zenon
<1>3. FlattenSeq(seqs) = IF n = 0 THEN seqs ELSE flat[n]
  BY Zenon DEF FlattenSeq, FlatUpTo
<1> HIDE DEF flat, n
<1> DEFINE T == {k \in Nat : k + 1 <= n => IsList(flat[k + 1])}
<1>4. 0 \in T
  <2> SUFFICES ASSUME 1 <= n PROVE IsList(flat[1])
    BY <1>1
  <2>1. 1 \in 1 .. n
    BY <1>1
  <2>2. flat[1] = seqs[1]
    BY <1>2, <2>1 DEF FlatUpTo
  <2> QED
    BY <1>1, <2>1, <2>2
<1>5. ASSUME NEW k \in Nat, k \in T PROVE k + 1 \in T
  <2> SUFFICES ASSUME (k + 1) + 1 <= n PROVE IsList(flat[(k + 1) + 1])
    OBVIOUS
  <2>1. (k + 1) + 1 \in 1 .. n /\ (k + 1) + 1 # 1 /\ ((k + 1) + 1) - 1 = k + 1
    BY <1>1
  <2>2. flat[(k + 1) + 1] = flat[k + 1] \o seqs[(k + 1) + 1]
    BY <1>2, <2>1 DEF FlatUpTo
  <2>3. IsList(flat[k + 1]) /\ IsList(seqs[(k + 1) + 1])
    BY <1>1, <1>5, <2>1
  <2> QED
    BY <2>2, <2>3, ListConcat
<1> HIDE DEF T
<1>6. Nat \subseteq T
  BY <1>4, <1>5, Induction
<1>7. n # 0 => IsList(flat[n])
  <2>1. n # 0 => n - 1 \in Nat /\ (n - 1) + 1 = n /\ n <= n
    BY <1>1
  <2>2. n # 0 => n - 1 \in T
    BY <1>6, <2>1
  <2> QED
    BY <2>1, <2>2 DEF T
<1> QED
  BY <1>3, <1>7

(* Import: the references of one resource.                                 *)
LEMMA ReferencesList ==
  ASSUME NEW order, IsList(order), NEW n, NEW refs, \A a \in DOMAIN refs : IsList(refs[a])
  PROVE  IsList(ReferencesOf(order, n, refs))
<1> DEFINE attrs == Among(order, DOMAIN refs)
           by(a) == [m \in DOMAIN refs[a] |-> Reference(n, a, refs[a][m])]
           s == [k \in DOMAIN attrs |-> by(attrs[k])]
<1>1. IsList(attrs) /\ Range(attrs) \subseteq DOMAIN refs
  BY AmongFacts
<1>2. ReferencesOf(order, n, refs) = FlattenSeq(s)
  BY Zenon DEF ReferencesOf, ReferencesBy
<1>3. ASSUME NEW a \in DOMAIN refs PROVE IsList(by(a))
  <2>1. by(a) = [m \in DOMAIN refs[a] |-> by(a)[m]]
    OBVIOUS
  <2> HIDE DEF by
  <2> QED
    BY <2>1, ListMap
<1> HIDE DEF by, attrs
<1>4. s = [k \in DOMAIN attrs |-> s[k]] /\ \A k \in DOMAIN attrs : IsList(s[k])
  BY <1>1, <1>3 DEF Range
<1> HIDE DEF s
<1>5. IsList(s) /\ \A k \in DOMAIN s : IsList(s[k])
  BY <1>1, <1>4, ListMap
<1> QED
  BY <1>2, <1>5, FlattenList

(* Import: what a node of a state refers to.                               *)
LEMMA RefersLists ==
  ASSUME NEW n, NEW primary
  PROVE  \A a \in DOMAIN Refers(n, primary) : IsList(Refers(n, primary)[a])
<1> DEFINE others == {v \in DOMAIN primary : primary[v] # n.id}
           met(a) == Among(Items(n.props[a]), others)
           to(a) == [m \in DOMAIN met(a) |-> primary[met(a)[m]]]
<1>1. \A v : IsList(Items(v))
  <2>1. \A v : IsList(<<v>>)
    BY DEF IsList, Range
  <2> QED
    BY <2>1, ImporterAssumption DEF Items
<1>2. ASSUME NEW a PROVE IsList(to(a))
  <2>1. IsList(met(a))
    BY <1>1, AmongFacts
  <2>2. to(a) = [m \in DOMAIN met(a) |-> to(a)[m]]
    OBVIOUS
  <2> HIDE DEF to, met
  <2> QED
    BY <2>1, <2>2, ListMap
<1>3. Refers(n, primary) = [a \in DOMAIN n.props |-> to(a)]
  BY Zenon DEF Refers
<1> HIDE DEF to
<1> QED
  BY <1>2, <1>3

(* Import: the references of a state.                                      *)
LEMMA RecoverEdges ==
  ASSUME NEW b, HasNodes(b)
  PROVE  HasEdges(Recover(b))
<1> DEFINE raw(k) == k \in DOMAIN b.kept /\ b.nodes[k].type \notin DOMAIN Imports
           refs == [k \in DOMAIN b.nodes |-> IF raw(k) THEN Refers(b.nodes[k], b.primary)
                                             ELSE <<>>]
           s == [k \in DOMAIN refs |-> ReferencesOf(AttrOrder, b.nodes[k], refs[k])]
<1>1. Recover(b).edges = FlattenSeq(s) /\ "edges" \in DOMAIN Recover(b)
  BY Zenon DEF Recover
<1>2. DOMAIN refs = DOMAIN b.nodes
  OBVIOUS
<1>3. ASSUME NEW k \in DOMAIN b.nodes PROVE \A a \in DOMAIN refs[k] : IsList(refs[k][a])
  <2>1. CASE raw(k)
    <3>1. refs[k] = Refers(b.nodes[k], b.primary)
      BY <2>1
    <3> QED
      BY <3>1, RefersLists
  <2>2. CASE ~raw(k)
    <3>1. refs[k] = <<>>
      BY <2>2
    <3> QED
      BY <3>1
  <2> QED
    BY <2>1, <2>2
<1> HIDE DEF refs
<1>4. s = [k \in DOMAIN b.nodes |-> s[k]]
  BY <1>2
<1>5. \A k \in DOMAIN s : IsList(s[k])
  BY <1>2, <1>3, ImporterAssumption, ReferencesList
<1> HIDE DEF s
<1>6. IsList(s)
  BY <1>4, ListMap DEF HasNodes
<1> QED
  BY <1>1, <1>5, <1>6, FlattenList DEF HasEdges

(* Import: the references of a configuration.                              *)
LEMMA HclReferencesEdges ==
  ASSUME NEW b, IsBuilder(b), NEW order, IsList(order)
  PROVE  HasEdges(HclReferences(b, order))
<1> DEFINE at(a) == {k \in DOMAIN b.kept : <<b.kept[k].tf, b.kept[k].name>> = a}
           target(r) == [a \in {c \in DOMAIN r.refs : at(r.refs[c]) # {}} |->
                           <<b.nodes[Max(at(r.refs[a]))].id>>]
           s == [k \in DOMAIN b.kept |-> ReferencesOf(order, b.nodes[k], target(b.kept[k]))]
<1>1. HclReferences(b, order).edges = FlattenSeq(s) /\ "edges" \in DOMAIN HclReferences(b, order)
  BY Zenon DEF HclReferences
<1>2. ASSUME NEW r PROVE \A a \in DOMAIN target(r) : IsList(target(r)[a])
  <2>1. \A v : IsList(<<v>>)
    BY DEF IsList, Range
  <2> HIDE DEF at
  <2> QED
    BY <2>1
<1> HIDE DEF target
<1>3. s = [k \in DOMAIN b.kept |-> s[k]]
  OBVIOUS
<1>4. \A k \in DOMAIN s : IsList(s[k])
  BY <1>2, ReferencesList
<1> HIDE DEF s
<1>5. IsList(s)
  BY <1>3, ListMap DEF IsBuilder
<1> QED
  BY <1>1, <1>4, <1>5, FlattenList DEF HasEdges

(* Import: the lines links are drawn as, after the references that stay.   *)
LEMMA LinksEdges ==
  ASSUME NEW d, HasNodes(d), HasEdges(d)
  PROVE  HasEdges(LinksToEdges(d))
<1> DEFINE lines == [k \in DOMAIN d.nodes |-> LinesOf(d.edges, d.nodes[k])]
           drawn == UNION {lines[k] : k \in DOMAIN lines}
           used == UNION {l.used : l \in drawn}
           keep == Among([k \in DOMAIN d.edges |-> k], DOMAIN d.edges \ used)
           s == [k \in DOMAIN keep |-> d.edges[keep[k]]]
           last == {l.edge : l \in drawn}
<1>1. LinksToEdges(d).edges = s \o SetToSeq(last) /\ "edges" \in DOMAIN LinksToEdges(d)
  BY Zenon DEF LinksToEdges
<1>2. IsFiniteSet(last)
  <2>1. \A k : IsFiniteSet(LinesOf(d.edges, d.nodes[k]))
    <3> SUFFICES ASSUME NEW k PROVE IsFiniteSet(LinesOf(d.edges, d.nodes[k]))
      OBVIOUS
    <3> DEFINE one == LinesOf(d.edges, d.nodes[k])
    <3>1. one = {} \/ \E e : one = {e}
      BY Zenon DEF LinesOf
    <3> HIDE DEF one
    <3>2. IsFiniteSet(one)
      BY <3>1, FS_EmptySet, FS_Singleton
    <3> QED
      BY <3>2 DEF one
  <2> DEFINE D == DOMAIN d.nodes
             sets == {lines[k] : k \in D}
  <2>2. DOMAIN lines = D /\ \A k \in D : lines[k] = LinesOf(d.edges, d.nodes[k])
    OBVIOUS
  <2> HIDE DEF lines
  <2>3. IsFiniteSet(D)
    BY ListDomain, FS_Interval DEF HasNodes
  <2>4. IsFiniteSet(sets)
    <3> DEFINE f == [k \in D |-> lines[k]]
    <3>1. f \in Surjection(D, sets)
      BY DEF Surjection
    <3> HIDE DEF f, sets, D
    <3> QED
      BY <2>3, <3>1, FS_Surjection
  <2>5. \A S \in sets : IsFiniteSet(S)
    BY <2>1, <2>2
  <2>6. drawn = UNION sets
    BY <2>2
  <2> HIDE DEF sets, drawn
  <2>7. IsFiniteSet(drawn)
    BY <2>4, <2>5, <2>6, FS_UNION
  <2> DEFINE g == [l \in drawn |-> l.edge]
  <2>8. g \in Surjection(drawn, last)
    BY DEF Surjection
  <2> HIDE DEF g, last
  <2> QED
    BY <2>7, <2>8, FS_Surjection
<1> HIDE DEF last, used
<1>3. IsList([k \in DOMAIN d.edges |-> k])
  BY ListMap DEF HasEdges
<1>4. IsList(keep)
  BY <1>3, AmongFacts
<1> HIDE DEF keep
<1>5. s = [k \in DOMAIN keep |-> s[k]]
  OBVIOUS
<1> HIDE DEF s
<1>6. IsList(s) /\ IsList(SetToSeq(last))
  BY <1>2, <1>4, <1>5, ListMap, SetToSeqList
<1> QED
  BY <1>1, <1>6, ListConcat DEF HasEdges

(* What is imported of a state has its edges in a list.                    *)
LEMMA BuildEdges ==
  ASSUME NEW rs, IsList(rs), NEW d \in Build(rs)
  PROVE  IsList(d.edges)
<1>1. PICK b \in PlaceAll(WithPrimary(Drawing(WithType(rs)))) :
        d = DrawZones(FindZones(AttachToParents(LinksToEdges(Recover(b)))))
  BY DEF Build, Then
<1> DEFINE l == LinksToEdges(Recover(b))
           a == AttachToParents(l)
<1>2. HasNodes(b)
  BY <1>1, DrawingIs, WithPrimaryIs, PlaceAllList DEF IsBuilder
<1>3. HasEdges(l) /\ HasNodes(l)
  BY <1>2, RecoverList, RecoverEdges, LinksToEdgesList, LinksEdges
<1> HIDE DEF l
<1>4. HasEdges(a)
  BY <1>3 DEF AttachToParents, HasEdges
<1> HIDE DEF a
<1>5. FindZones(a).edges = a.edges
  <2> DEFINE zones == [zone |-> [k \in DOMAIN a.nodes |-> ZoneOf(a, a.nodes[k])]]
  <2>1. FindZones(a) = a ++ zones
    BY DEF FindZones
  <2> HIDE DEF zones
  <2> QED
    BY <1>4, <2>1, Given DEF HasEdges
<1>6. \A z : DrawZones(z).edges = z.edges
  BY Zenon DEF DrawZones
<1> QED
  BY <1>1, <1>4, <1>5, <1>6 DEF a, l, HasEdges

(* So has what is imported of a configuration.                             *)
LEMMA BuildHCLEdges ==
  ASSUME NEW c, IsList(c.resources), IsList(c.providers), NEW d \in BuildHCL(c)
  PROVE  IsList(d.edges)
<1> DEFINE drawn == HclDrawing(Declared(c.resources))
           homes == FindRegions(AskGroups(drawn ++ [providers |-> c.providers]))
<1>1. PICK b, order : b \in House(homes) /\ order \in AttrOrders /\
        d = AttachToParents(LinksToEdges(HclReferences(ApplyArgs(b), order)))
  BY DEF BuildHCL, InAnyOrder, Then
<1>2. IsBuilder(drawn) /\ "asked" \notin DOMAIN drawn /\ "providers" \notin DOMAIN drawn
  <2>1. IsBuilder(drawn)
    BY HclDrawingIs
  <2>2. \E kept, nodes : drawn = Builder(kept, nodes)
    BY Zenon DEF HclDrawing
  <2>3. DOMAIN drawn = {"kept", "nodes", "e", "by"}
    BY <2>2 DEF Builder
  <2> QED
    BY <2>1, <2>3
<1> HIDE DEF drawn
<1>3. IsAsking(homes)
  BY <1>2, AskingIs
<1> HIDE DEF homes
<1>4. IsBuilder(ApplyArgs(b))
  BY <1>1, <1>3, HouseList, ApplyArgsIs
<1>5. IsList(order)
  <2>1. order = [k \in DOMAIN AttrOrder |-> order[k]]
    BY <1>1 DEF AttrOrders
  <2> QED
    BY <2>1, ImporterAssumption, ListMap
<1> DEFINE h == HclReferences(ApplyArgs(b), order)
           l == LinksToEdges(h)
<1>6. HasEdges(h) /\ HasNodes(h)
  BY <1>4, <1>5, HclReferencesEdges, HclReferencesList
<1> HIDE DEF h
<1>7. HasEdges(l) /\ HasNodes(l)
  BY <1>6, LinksEdges, LinksToEdgesList
<1> HIDE DEF l
<1>8. AttachToParents(l).edges = l.edges
  BY <1>7 DEF AttachToParents, HasEdges
<1> QED
  BY <1>1, <1>7, <1>8 DEF l, h, HasEdges

(* What is converted has its edges in a list.                              *)
LEMMA ConvertEdges ==
  ASSUME NEW x, IsList(x.edges)
  PROVE  IsList(Convert(x).edges)
<1> DEFINE nodes == ConvertedNodes(x)
           edges == ConvertedEdges(x, nodes)
<1>1. Convert(x).edges = edges
  BY DEF Convert, WithEdges
<1> HIDE DEF nodes
<1>2. \E S : edges = [k \in DOMAIN Among(x.edges, S) |-> edges[k]]
  BY Zenon DEF ConvertedEdges
<1> HIDE DEF edges
<1> QED
  BY <1>1, <1>2, AmongFacts, ListMap

(* What is converted has the edges of the diagram.                         *)
LEMMA FatedEdges ==
  ASSUME NEW d, NEW t
  PROVE  Fated(Index(d), t).edges = d.edges
<1> DEFINE x == Index(d)
           r == [target |-> t, fate |-> [i \in DOMAIN x.nodes |-> FateOf(x.nodes[i].type, t)]]
<1>1. x.edges = d.edges /\ "edges" \in DOMAIN x
  BY DEF Index, Lines, WithChains, ++
<1>2. Fated(x, t) = x ++ r
  BY DEF Fated
<1> HIDE DEF x, r
<1> QED
  BY <1>1, <1>2, Given DEF x

(* A diagram is saved with its edges in a list.                            *)
LEMMA EncodeEdges ==
  ASSUME NEW d, IsList(d.edges)
  PROVE  HasEdges(Encode(d))
<1>1. "edges" \in DOMAIN Encode(d)
  BY DEF Encode
<1> QED
  BY <1>1, SavedEdges DEF HasEdges

(* Every handler leaves the edges a list.                                  *)
LEMMA EdgesNext == ListInv /\ EdgesInv /\ IndexInv /\ [Next]_vars => EdgesInv'
<1> SUFFICES ASSUME ListInv, EdgesInv, IndexInv, [Next]_vars PROVE HasEdges(doc)'
  BY DEF EdgesInv
<1>1. CASE UNCHANGED doc
  BY <1>1 DEF EdgesInv, HasEdges
<1>2. CASE Get \/ Plan \/ Apply \/ UNCHANGED vars
  BY <1>1, <1>2 DEF Get, Plan, Apply, vars
<1>3. CASE Put
  <2>1. PICK c \in Changes(doc) : doc' = Encode(c)
    BY <1>3 DEF Put
  <2>2. IsList(c.edges)
    BY ChangesEdges DEF ListInv, EdgesInv
  <2> QED
    BY <2>1, <2>2, EncodeEdges
<1>4. CASE ConvertDoc
  <2> DEFINE x == Fated(index, Target)
  <2>1. index = Index(doc) /\ doc' = Encode(Convert(x))
    BY <1>4 DEF ConvertDoc, ConvertFrom, IndexInv
  <2>2. x.edges = doc.edges
    BY <2>1, FatedEdges
  <2> HIDE DEF x
  <2>3. IsList(Convert(x).edges)
    BY <2>2, ConvertEdges DEF EdgesInv, HasEdges
  <2> QED
    BY <2>1, <2>3, EncodeEdges
<1>5. CASE Import
  <2>1. CASE ImportState
    <3>1. PICK s \in States : \E d \in Build(s) : doc' = Encode(d)
      BY <2>1 DEF ImportState, Then
    <3>2. PICK d \in Build(s) : doc' = Encode(d)
      BY <3>1
    <3>3. IsList(s)
      BY ImporterAssumption
    <3> QED
      BY <3>2, <3>3, BuildEdges, EncodeEdges
  <2>2. CASE ImportHCL
    <3>1. PICK c \in Configurations : \E d \in BuildHCL(c) : doc' = Encode(d)
      BY <2>2 DEF ImportHCL, Then
    <3>2. PICK d \in BuildHCL(c) : doc' = Encode(d)
      BY <3>1
    <3>3. IsList(c.resources) /\ IsList(c.providers)
      BY ImporterAssumption
    <3> QED
      BY <3>2, <3>3, BuildHCLEdges, EncodeEdges
  <2> QED
    BY <1>5, <2>1, <2>2 DEF Import
<1> QED
  BY <1>1, <1>2, <1>3, <1>4, <1>5 DEF Next

(* The edges of a diagram stay a list, however it came about.              *)
THEOREM EdgesAreLists == Spec => []EdgesInv
<1>1. Init => EdgesInv
  BY DiagramAssumption DEF Init, EdgesInv, HasEdges
<1>2. EdgesInv /\ (ListInv /\ (IndexInv /\ BuiltInv /\ ShownInv)) /\ [Next]_vars => EdgesInv'
  BY EdgesNext
<1> QED
  BY <1>1, <1>2, ListsAreLists, HandedOn, PTL DEF Spec

(* Converting a diagram without errors gives a sound one (convert.go, Run),*)
(* for every catalog, table of counterparts and root chain.                *)
THEOREM ConversionIsSound == Spec => ConversionSound
<1>1. ASSUME ListInv, EdgesInv, IndexInv, [Next]_vars, Converts, Errors(problems) = {}
      PROVE  ConvertsSoundly(Fated(index, Target))
  <2>1. ConvertDoc /\ Validate
    BY <1>1 DEF Converts, Next, Get, Import, Put, Plan, Apply, vars
  <2>2. /\ index # NoIndex /\ ~hung /\ ConvertEnds(Fated(index, Target))
        /\ doc' = Encode(Convert(Fated(index, Target)))
    BY <2>1 DEF ConvertDoc, ConvertFrom
  <2>3. index = Index(doc) /\ problems = Problems(index)
    BY <1>1, <2>2 DEF IndexInv
  <2>4. Clean(doc) /\ IsList(doc.edges)
    BY <1>1, <2>3 DEF Clean, ListInv, HasNodes, EdgesInv, HasEdges
  <2>5. doc' = Result(doc) /\ index' = Index(Result(doc))
    BY <2>1, <2>2, <2>3 DEF Validate, Result
  <2>6. index.nodes = doc.nodes
    BY <2>3, IndexNodes
  <2> QED
    BY <2>2, <2>3, <2>4, <2>5, <2>6, ResultIsSound DEF ConvertsSoundly, Missing, OnceBut
<1>2. ListInv /\ EdgesInv /\ IndexInv /\ [Next]_vars =>
        (Converts /\ Errors(problems) = {} => ConvertsSoundly(Fated(index, Target)))
  BY <1>1, Zenon
<1> QED
  BY <1>2, ListsAreLists, EdgesAreLists, HandedOn, PTL DEF Spec, ConversionSound
=============================================================================
