----------------------------- MODULE Conversion -----------------------------
(***************************************************************************)
(* convert.Run of src/internal/convert/convert.go: a document rewritten    *)
(* for another provider.  Accounts and regions collapse into the chain of  *)
(* root containers of the target, elements are replaced by their           *)
(* counterparts, and every node finds a new parent.                        *)
(*                                                                         *)
(* Properties, classes, regions and positions are left out: what is        *)
(* modelled is which nodes there are and what they are in.                 *)
(***************************************************************************)
EXTENDS Containment

CONSTANTS
  Counterparts,    \* [type -> [provider -> type]], the rows of equivalences.yaml
  RootChain,       \* [provider -> sequence of container types]
  short(_),        \* the first six letters and digits of an id
  chainId(_, _)    \* the id of a root container: its type and its source root, shortened

(* The rows and chains of a provider are of elements of that provider.     *)
ASSUME ConversionAssumption ==
  /\ \A p \in DOMAIN RootChain :
       /\ IsList(RootChain[p]) /\ RootChain[p] # <<>>
       /\ \A t \in Range(RootChain[p]) : Known(t) /\ Entry[t].provider = p
  /\ \A t \in DOMAIN Counterparts : \A p \in DOMAIN Counterparts[t] :
       Known(Counterparts[t][p]) => Entry[Counterparts[t][p]].provider = p

(* findRow, and what the table says nothing of: a box that only exists in  *)
(* drawings, an organization around accounts for one.                      *)
Row(t) == IF t \in DOMAIN Counterparts THEN Counterparts[t] ELSE <<>>

OnlyDrawn(t) == Entry[t].role = "none" /\ Row(t) = <<>>

(* What becomes of a node.                                                 *)
FateOf(t, target) ==
  LET e == Entry[t] IN
  IF ~Known(t) THEN "skipped"
  ELSE IF ~HasTerraform(e.provider) THEN "copied"
  ELSE IF OnlyDrawn(t) THEN "skipped"
  ELSE IF e.role \in {"account", "region"} THEN "collapsed"
  ELSE IF e.role = "resource" \/ target \notin DOMAIN Row(t) THEN "dropped"
  ELSE IF ~Known(Row(t)[target]) THEN "dropped"
  ELSE "converted"

(* An indexed document with the fate of every node.                        *)
Fated(x, target) ==
  x ++ [target |-> target, fate |-> [i \in DOMAIN x.nodes |-> FateOf(x.nodes[i].type, target)]]

Kept(x, i) == x.fate[i] \in {"copied", "converted"}

(* The copy of a kept node, before it has a parent.  A counterpart takes   *)
(* the properties it has too.                                              *)
Copy(x, i) ==
  LET n == x.nodes[i]
      node(type, props) ==
        [id |-> n.id, type |-> type, name |-> n.name, parent |-> "",
         props |-> [p \in props |-> n.props[p]]]
      other == Counterparts[n.type][x.target]
  IN  IF x.fate[i] = "copied" THEN node(n.type, DOMAIN n.props)
      ELSE node(other, DOMAIN n.props \cap Entry[other].props)

(* topRootIn: the outermost account around a node, or the node itself.     *)
RootOf(x, i) ==
  LET path == <<i>> \o x.chain[i]
      account(j) == Known(x.nodes[j].type) /\ Entry[x.nodes[j].type].role = "account"
      hits == {k \in DOMAIN path : account(path[k])}
  IN  x.nodes[IF hits = {} THEN i ELSE path[Max(hits)]].id

(* Variant: the walk begins at the node itself.                            *)
StopsHere(x, i) ==
  {k \in Steps(x) : x.walk[i][k] = 0 \/ x.fate[x.walk[i][k]] \notin {"skipped", "dropped"}}

(* The walk to the nearest ancestor that was kept, or that is an account   *)
(* or region and stands for the root chain.  Nothing ends it on a cycle of *)
(* ancestors that are neither.                                             *)
Stops(x, i) ==
  {k \in Steps(x) \ {0} : x.walk[i][k] = 0 \/ x.fate[x.walk[i][k]] \notin {"skipped", "dropped"}}

ConvertEnds(x) == \A i \in DOMAIN x.nodes : Kept(x, i) => Stops(x, i) # {}

NearestKept(x, i) ==
  LET j == x.walk[i][Min(Stops(x, i))] IN
  IF j = 0 THEN "" ELSE IF Kept(x, j) THEN x.nodes[j].id ELSE ""

(* find: the first node with an id.                                        *)
First(nodes, id) ==
  LET hits == {k \in DOMAIN nodes : nodes[k].id = id} IN IF hits = {} THEN 0 ELSE Min(hits)

TypeOf(nodes, id) == nodes[First(nodes, id)].type

(* chainBottomFor: the innermost container of the chain of a source root,  *)
(* which is created the first time it is asked for.                        *)
Bottom(target, root) == chainId(RootChain[target][Len(RootChain[target])], short(root))

(* Variant: the chain is created for every node.                           *)
WithChainAgain(x, out, root) ==
  LET chain == RootChain[x.target]
      box(k) == [id |-> chainId(chain[k], short(root)), type |-> chain[k], name |-> chain[k],
                 parent |-> IF k = 1 THEN "" ELSE chainId(chain[k - 1], short(root)),
                 props |-> <<>>]
  IN  [nodes |-> out.nodes \o [k \in DOMAIN chain |-> box(k)], roots |-> out.roots]

WithChain(x, out, root) ==
  LET chain == RootChain[x.target]
      name(t) == IF Entry[t].role = "account" THEN x.nodes[Node(x, root)].name ELSE t
      box(k) == [id |-> chainId(chain[k], short(root)), type |-> chain[k], name |-> name(chain[k]),
                 parent |-> IF k = 1 THEN "" ELSE chainId(chain[k - 1], short(root)),
                 props |-> <<>>]
  IN  IF root \in out.roots THEN out
      ELSE [nodes |-> out.nodes \o [k \in DOMAIN chain |-> box(k)],
            roots |-> out.roots \cup {root}]

(* When its parent cannot contain it, a node goes to the bottom of the     *)
(* chain, or else in the first node that can.                              *)
Moved(nodes, type, bottom) ==
  LET can == {k \in DOMAIN nodes : /\ ~Entry[nodes[k].type].transparent
                                   /\ CanContain(nodes[k].type, type)}
  IN  IF can = {} \/ CanContain(TypeOf(nodes, bottom), type) THEN bottom
      ELSE nodes[Min(can)].id

Child(out, id, parent) == [out EXCEPT !.nodes = PutIn(@, First(@, id), parent)]

(* The parent of a kept node: its nearest kept ancestor, else the chain.   *)
Place(id, type, near, bottom, out, all) ==
  IF near # "" /\ CanContain(TypeOf(out.nodes, near), type) THEN Child(out, id, near)
  ELSE Child(all, id, IF near = "" /\ CanContain(TypeOf(all.nodes, bottom), type) THEN bottom
                      ELSE Moved(all.nodes, type, bottom))

Reparent(x, i, root, out) ==
  Place(x.nodes[i].id, TypeOf(out.nodes, x.nodes[i].id), NearestKept(x, i),
        Bottom(x.target, root), out, WithChain(x, out, root))

KeptNodes(x) ==
  Among([i \in DOMAIN x.nodes |-> i], {i \in DOMAIN x.nodes : Kept(x, i)})

ConvertedNodes(x) ==
  LET order == KeptNodes(x)
      placed[k \in 0 .. Len(order)] ==
        IF k = 0 THEN [nodes |-> [m \in DOMAIN order |-> Copy(x, order[m])], roots |-> {}]
        ELSE Reparent(x, order[k], RootOf(x, order[k]), placed[k - 1])
  IN  placed[Len(order)].nodes

(* Edges between kept nodes stay when their types may be connected, with   *)
(* the kind of that connection.                                            *)
ConvertedEdges(x, nodes) ==
  LET stays(e) == {Node(x, e.source), Node(x, e.target)} \subseteq Range(KeptNodes(x))
      type(id) == nodes[Node([nodes |-> nodes], id)].type
      kind(e) == Connection(type(e.source), type(e.target)).kind
      plain(e) == [id |-> e.id, kind |-> kind(e), source |-> e.source, target |-> e.target,
                   attr |-> "", type |-> "", name |-> "", props |-> {}]
      kept == Among(x.edges, {e \in Range(x.edges) : stays(e) /\ kind(e) # Unset})
  IN  [k \in DOMAIN kept |-> plain(kept[k])]

WithEdges(x, nodes) == [nodes |-> nodes, edges |-> ConvertedEdges(x, nodes)]

Convert(x) == WithEdges(x, ConvertedNodes(x))

(* What the report names: nodes without a counterpart.                     *)
Reported(x) == {i \in DOMAIN x.nodes : x.fate[i] = "dropped"}

(* An edge that does not stay is reported through the names of its ends,   *)
(* which are looked up without asking whether they exist.                  *)
ConvertCrashes(x) ==
  \E k \in DOMAIN x.edges : 0 \in {x.src[k], x.dst[k]}
=============================================================================
