---------------------------- MODULE Containment -----------------------------
(***************************************************************************)
(* The containment tree of a diagram.  A document is a sequence of nodes   *)
(* and a sequence of edges; a node names its parent by id.  Nothing keeps  *)
(* a document from naming a parent that does not exist, or from naming     *)
(* itself through its ancestors, so the walks up the tree are modelled     *)
(* with the stopping rule each of them has in the code.                    *)
(***************************************************************************)
EXTENDS Catalog, SequencesExt

Ids(d) == {d.nodes[i].id : i \in DOMAIN d.nodes}

(* A sequence of nodes with another parent for one of them.                *)
PutIn(nodes, k, parent) == InsertAt(RemoveAt(nodes, k), k, [nodes[k] EXCEPT !.parent = parent])

(* The last node with an id; 0 is "no such node".                          *)
Node(d, id) == Max({0} \cup {i \in DOMAIN d.nodes : id # "" /\ d.nodes[i].id = id})

(* The parent of every node, and of "no such node".                        *)
Parents(d) ==
  [i \in 0 .. Len(d.nodes) |-> IF i = 0 THEN 0 ELSE Node(d, d.nodes[i].parent)]

(* The first steps of a walk from node i that follows parents and looks at *)
(* nothing else.  A walk that has not ended after as many steps as there   *)
(* are nodes never does.                                                   *)
Steps(d) == 0 .. 2 * Len(d.nodes) + 2

Walk(d, up, i) ==
  LET w[k \in Steps(d)] == IF k = 0 THEN i ELSE up[w[k - 1]] IN w

(* The ancestors a walk with a set of seen ids finds, nearest first.       *)
Chain(d, w) ==
  LET id(k) == IF w[k] = 0 THEN "" ELSE d.nodes[w[k]].id
      fresh(k) == id(k) \notin {id(m) : m \in 0 .. k - 1} \cup {""}
      long == Max({k \in 0 .. Len(d.nodes) : \A m \in 1 .. k : fresh(m)})
  IN  SubSeq([k \in 1 .. Len(d.nodes) |-> w[k]], 1, long)

(* hasCycle: the first parent the walk does not follow was seen before.    *)
HasCycle(x, i) ==
  LET path == <<i>> \o x.chain[i] IN
  x.nodes[path[Len(path)]].parent \in {x.nodes[path[k]].id : k \in DOMAIN path} \ {""}

(* Variant: groups and zone boxes count.                                   *)
ParentDrawn(x, i) == IF x.chain[i] = <<>> THEN 0 ELSE x.chain[i][1]

(* Document.LogicalParent, 0 for the canvas.                               *)
LogicalParent(x, i) == IF x.above[i] = <<>> THEN 0 ELSE x.above[i][1]

(* Variant: groups and zone boxes are levels of their own.                 *)
GenAncestorDrawn(x, i, depth) == IF depth \in DOMAIN x.chain[i] THEN x.chain[i][depth] ELSE 0

(* ancestorAt of the generator and of the validator.  The validator's      *)
(* climbs without a set of seen ids; 0 when there is no such ancestor, and *)
(* when the climb is back where it began.                                  *)
GenAncestorAt(x, i, depth) == IF depth \in DOMAIN x.above[i] THEN x.above[i][depth] ELSE 0

Level(x, w, k) == Cardinality({m \in 1 .. k : w[m] \notin x.drawn})

(* Variant: the climb does not stop at the canvas.                         *)
ClimbEndsBelowCanvas(x, i, depth) ==
  {k \in Steps(x) : Level(x, x.walk[i], k) >= depth /\ x.walk[i][k] # 0} # {}

ClimbEnds(x, i, depth) ==
  {k \in Steps(x) : x.walk[i][k] = 0 \/ Level(x, x.walk[i], k) >= depth} # {}

AncestorAt(x, i, depth) ==
  LET w == x.walk[i]
      there == {k \in Steps(x) : w[k] # 0 /\ Level(x, w, k) >= depth}
      found == w[Min(there)]
  IN  IF there = {} THEN 0 ELSE IF found = i THEN 0 ELSE found

(* isUnder of the generator and of the validator.                          *)
GenIsUnder(x, i, a) == \E k \in DOMAIN x.above[i] : x.above[i][k] = a

IsUnder(x, i, a) ==
  \E k \in {i} \cup {x.chain[i][m] : m \in DOMAIN x.chain[i]} : x.nodes[k].parent = x.nodes[a].id

(* provide.Values: the properties a node is given by the boxes it is drawn *)
(* in, the nearest box first.  A template lists the properties it is put   *)
(* together from; each is looked up on the box and then above it, and the  *)
(* name of a box stands for its property "name".                           *)
Lookup(x, path, key) ==
  LET n(k) == x.nodes[path[k]]
      has == {k \in DOMAIN path : key \in DOMAIN n(k).props \/ (key = "name" /\ n(k).name # "")}
      box == n(Min(has))
  IN  IF has = {} THEN Unset
      ELSE IF key \in DOMAIN box.props THEN box.props[key] ELSE box.name

Accepts(t, prop) == prop \in Entry[t].props \cup DOMAIN Entry[t].needs

Offers(x, path, t) ==
  LET e == Entry[x.nodes[path[1]].type]
      render(prop) == [m \in DOMAIN e.provides[prop] |-> Lookup(x, path, e.provides[prop][m])]
      whole(v) == Unset \notin {v[m] : m \in DOMAIN v}
  IN  IF ~Known(x.nodes[path[1]].type) THEN <<>>
      ELSE [prop \in {p \in DOMAIN e.provides : Accepts(t, p) /\ whole(render(p))} |->
              render(prop)]

Provided(x, i) ==
  LET c == x.chain[i]
      offers == [k \in DOMAIN c |-> Offers(x, SubSeq(c, k, Len(c)), x.nodes[i].type)]
      first(prop) == Min({k \in DOMAIN c : prop \in DOMAIN offers[k]})
  IN  IF ~Known(x.nodes[i].type) THEN <<>>
      ELSE [prop \in UNION {DOMAIN offers[k] : k \in DOMAIN c} |-> offers[first(prop)][prop]]

(* A document with what every pass over it looks up: the walk and chain of *)
(* every node, its ancestors with a meaning in Terraform (groups and zone  *)
(* boxes are only drawn), what it is given, and the ends and the rule of   *)
(* every edge.                                                             *)
WithChains(d, walk, drawn) ==
  LET chain == [i \in DOMAIN d.nodes |-> Chain(d, walk[i])] IN
  [nodes |-> d.nodes, edges |-> d.edges, walk |-> walk, drawn |-> drawn, chain |-> chain,
   above |-> [i \in DOMAIN d.nodes |-> Among(chain[i], DOMAIN d.nodes \ drawn)]]

Walks(d, up) == [i \in DOMAIN d.nodes |-> Walk(d, up, i)]

Drawn(d) ==
  {i \in DOMAIN d.nodes : Known(d.nodes[i].type) /\ Entry[d.nodes[i].type].transparent}

Lines(x, src, dst) ==
  x ++ [given |-> [i \in DOMAIN x.nodes |-> Provided(x, i)], src |-> src, dst |-> dst,
        rule |-> [k \in DOMAIN x.edges |->
                    IF 0 \in {src[k], dst[k]} THEN NoRule
                    ELSE Connection(x.nodes[src[k]].type, x.nodes[dst[k]].type)]]

Index(d) ==
  Lines(WithChains(d, Walks(d, Parents(d)), Drawn(d)),
        [k \in DOMAIN d.edges |-> Node(d, d.edges[k].source)],
        [k \in DOMAIN d.edges |-> Node(d, d.edges[k].target)])
=============================================================================
