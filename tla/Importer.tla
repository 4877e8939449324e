------------------------------ MODULE Importer ------------------------------
(***************************************************************************)
(* src/internal/importer: a diagram made from a Terraform state (Build) or *)
(* from a Terraform configuration (BuildHCL).  Resources become nodes,     *)
(* accounts and regions are created around them on demand, references      *)
(* become edges, link resources become lines, attachments move into what   *)
(* they configure, and zone boxes are drawn around what lies in a zone.    *)
(*                                                                         *)
(* A resource of a state: address, module (its last segment), tf, name,    *)
(* attrs.  A resource of a configuration: tf, name, attrs, refs (attribute *)
(* to <<tf, name>>), alias (of its provider block).                        *)
(***************************************************************************)
EXTENDS Containment

CONSTANTS
  States,           \* what there is to import: sequences of resources
  Configurations,   \* and configurations
  AttrOrder,        \* the attributes there are, sorted
  Elements,         \* [a value that is a list -> its items], what is left of one included
  Imports,          \* [type -> what the catalog says of importing it]
  Binds,            \* [<<attachment, owner>> -> attribute the schemas suggest]
  ParentOrder,      \* container types, in the order allowed_parents lists them
  nodeId(_, _),     \* the id of a node: its type and an address or group
  edgeId(_, _, _),  \* source, attribute, target
  zoneId(_, _, _)   \* zone type, parent, zone

ASSUME ImporterAssumption ==
  /\ \A s \in States : IsList(s)
  /\ \A c \in Configurations : IsList(c.resources) /\ IsList(c.providers)
  /\ IsList(AttrOrder) /\ \A v \in DOMAIN Elements : IsList(Elements[v])

Generic == {"this", "main", "default"}
NoImport == [resource |-> Unset, id |-> "id", parent |-> Unset, name |-> Unset,
             from |-> Unset, prop |-> Unset, props |-> <<>>, args |-> <<>>]
ImportOf(t) == IF t \in DOMAIN Imports THEN Imports[t] ELSE NoImport

Attr(r, a) == IF a \in DOMAIN r.attrs THEN r.attrs[a] ELSE Unset

(* indexEntries: the curated element of a resource type, else the one made *)
(* from its schema; and the account and region elements of a provider.     *)
TypeFor(tf) ==
  LET curated == {t \in DOMAIN Imports : Imports[t].resource = tf}
      generated == {t \in DOMAIN Resource : Resource[t].tf = tf}
  IN  IF curated # {} THEN CHOOSE t \in curated : TRUE
      ELSE IF generated # {} THEN CHOOSE t \in generated : TRUE
      ELSE Unset

GroupTypes ==
  [role \in {"account", "region"}, provider \in {Entry[t].provider : t \in Types} |->
     LET hits == {t \in DOMAIN Imports : Entry[t].role = role /\ Entry[t].provider = provider} IN
     IF hits = {} THEN Unset ELSE CHOOSE t \in hits : TRUE]

(* nameFor and rawNode: a resource with a conventional name is called      *)
(* after its module.                                                       *)
NameFor(r, t) ==
  LET own == Attr(r, ImportOf(t).name) IN
  IF own # Unset THEN own
  ELSE IF r.name \in Generic /\ r.module # "" THEN r.module
  ELSE r.name

StateNode(r, t) ==
  LET taken == ImportOf(t).props
      props == IF t \in DOMAIN Imports
               THEN [p \in {q \in DOMAIN taken : taken[q] \in DOMAIN r.attrs} |-> r.attrs[taken[p]]]
               ELSE [p \in DOMAIN r.attrs \cap Entry[t].props |-> r.attrs[p]]
  IN  [id |-> nodeId(t, r.address), type |-> t, name |-> NameFor(r, t), parent |-> "",
       props |-> props]

(* ensureGroup.  A group, an account or region, is its role, its provider, *)
(* the account it is in and its value; the groups there are, in the order  *)
(* in which they were first asked for, come after the resources.           *)
GroupId(by, g) == nodeId(by[g[1], g[2]], g)

GroupNode(by, g) ==
  LET t == by[g[1], g[2]]
      valued == g[4] # Unset /\ ImportOf(t).prop # Unset
  IN  [id |-> GroupId(by, g), type |-> t, name |-> IF g[4] = Unset THEN t ELSE g[4], parent |-> g[3],
       props |-> IF valued THEN ImportOf(t).prop :> g[4] ELSE <<>>]

Ensure(groups, asked) ==
  groups \o Among(asked, Range(asked) \ Range(groups))

(* groupParent: the account and region of a resource.  One that does not   *)
(* say is in the only group there is, else in an account without a value   *)
(* or in no region.                                                        *)
NoGroup == <<"none">>

Sole(groups, role, provider, account, other) ==
  LET known == {g \in Range(groups) : SubSeq(g, 1, 3) = <<role, provider, account>>} IN
  IF Cardinality(known) = 1 THEN CHOOSE g \in known : TRUE ELSE other

AccountGroup(by, groups, r, provider) ==
  LET t == by["account", provider]
      value == Attr(r, ImportOf(t).from)
  IN  IF t = Unset THEN NoGroup
      ELSE IF value # Unset THEN <<"account", provider, "", value>>
      ELSE Sole(groups, "account", provider, "", <<"account", provider, "", Unset>>)

RegionGroup(by, groups, r, provider, account) ==
  LET value == Attr(r, ImportOf(by["region", provider]).from) IN
  IF value # Unset THEN <<"region", provider, account, value>>
  ELSE Sole(groups, "region", provider, account, NoGroup)

InGroups(by, account, region, parents) ==
  LET inside == IF region # NoGroup /\ by[region[1], region[2]] \in parents THEN region ELSE account
  IN  [asked |-> Among(IF inside = account THEN <<account>> ELSE <<account, inside>>,
                       {account, inside} \ {NoGroup}),
       parent |-> IF inside = NoGroup THEN ""
                  ELSE IF by[inside[1], inside[2]] \in parents THEN GroupId(by, inside) ELSE ""]

(* As a set of the one place a resource of element e has.                  *)
GroupParent(by, groups, r, e) ==
  LET id(account) == IF account = NoGroup THEN "" ELSE GroupId(by, account) IN
  UNION {{InGroups(by, account, region, e.parents) :
            region \in {RegionGroup(by, groups, r, e.provider, id(account))}}
           : account \in {AccountGroup(by, groups, r, e.provider)}}

(* fallbackParent: the first node of the first allowed type there is one of. *)
Fallback(nodes, parents) ==
  LET present(p) == p \in parents /\ \E k \in DOMAIN nodes : nodes[k].type = p
      order == SelectSeq(ParentOrder, present)
  IN  IF order = <<>> THEN ""
      ELSE nodes[Min({k \in DOMAIN nodes : nodes[k].type = order[1]})].id

WithGroups(b, out) ==
  [k \in DOMAIN b.nodes |-> [b.nodes[k] EXCEPT !.parent = out.parent[k]]]
  \o [k \in DOMAIN out.groups |-> GroupNode(b.by, out.groups[k])]

(* The second pass: the parent a resource names, else its group, else any  *)
(* container that may hold it.  Curated elements come before generated     *)
(* ones; primary finds a node by the id of its resource.                   *)
Grouped(out, k, in) ==
  [groups |-> Ensure(out.groups, in.asked), parent |-> [out.parent EXCEPT ![k] = in.parent]]

OrElse(b, out, k) ==
  IF out.parent[k] # "" THEN out
  ELSE [out EXCEPT !.parent[k] = Fallback(WithGroups(b, out), b.e[k].parents)]

Places(b, out, k) ==
  LET named == Attr(b.kept[k], ImportOf(b.nodes[k].type).parent) IN
  IF named \in DOMAIN b.primary THEN {[asked |-> <<>>, parent |-> b.primary[named]]}
  ELSE GroupParent(b.by, out.groups, b.kept[k], b.e[k])

PlaceOne(b, out, k) == {OrElse(b, Grouped(out, k, in), k) : in \in Places(b, out, k)}

PlaceNext(b, before, k) == UNION {PlaceOne(b, out, k) : out \in before}

NoParents(nodes) == [groups |-> <<>>, parent |-> [k \in DOMAIN nodes |-> ""]]

PlaceAll(b) ==
  LET all == [k \in DOMAIN b.kept |-> k]
      curated == {k \in DOMAIN b.kept : b.nodes[k].type \in DOMAIN Imports}
      order == Among(all, curated) \o Among(all, Range(all) \ curated)
      placed[m \in 0 .. Len(order)] ==
        IF m = 0 THEN {NoParents(b.nodes)}
        ELSE PlaceNext(b, placed[m - 1], order[m])
  IN  {[b EXCEPT !.nodes = WithGroups(b, out)] : out \in placed[Len(order)]}

(* recoverReferences: an attribute with the id of another resource becomes *)
(* an edge, which then carries it, and a list one for every such item,     *)
(* which leave it.  The attributes are taken in an order.                  *)
Items(v) == IF v \in DOMAIN Elements THEN Elements[v] ELSE <<v>>

Refers(n, primary) ==
  LET others == {v \in DOMAIN primary : primary[v] # n.id}
      met(a) == Among(Items(n.props[a]), others)
      to(a) == [m \in DOMAIN met(a) |-> primary[met(a)[m]]]
  IN  [a \in DOMAIN n.props |-> to(a)]

Keeping(n, primary) ==
  LET own(v) == v \notin DOMAIN primary \/ primary[v] = n.id
      left(p) == Among(Items(n.props[p]), {v \in Range(Items(n.props[p])) : own(v)})
      value(p) == IF n.props[p] \notin DOMAIN Elements THEN n.props[p]
                  ELSE CHOOSE v \in DOMAIN Elements : Elements[v] = left(p)
  IN  [n EXCEPT !.props = [p \in {q \in DOMAIN @ : left(q) # <<>>} |-> value(p)]]

Reference(n, attr, target) ==
  [id |-> edgeId(n.id, attr, target), kind |-> References, source |-> n.id, target |-> target,
   attr |-> attr, type |-> "", name |-> "", props |-> {}]

ReferencesBy(n, attrs, refs) ==
  LET by(a) == [m \in DOMAIN refs[a] |-> Reference(n, a, refs[a][m])] IN
  FlattenSeq([k \in DOMAIN attrs |-> by(attrs[k])])

(* Variant: what is referred to twice is referred to once.                 *)
ReferencesOfOnce(order, n, refs) ==
  LET first(a) == \A b \in DOMAIN refs : refs[b] = refs[a] => (CHOOSE c \in {a, b} : TRUE) = a
  IN  ReferencesBy(n, Among(order, {a \in DOMAIN refs : first(a)}), refs)

ReferencesOf(order, n, refs) == ReferencesBy(n, Among(order, DOMAIN refs), refs)

(* linksToEdges: a link resource whose two ends were found becomes a line  *)
(* between them.  Only the two references that carried its ends go with    *)
(* the node; others that start or end at it stay.                          *)
LinkOf(t) == {l \in Range(Links) : t \in DOMAIN Resource /\ l.tf = Resource[t].tf}

EndEdge(edges, n, attrs) ==
  Min({Len(edges) + 1} \cup
      {k \in DOMAIN edges : edges[k].source = n.id /\ edges[k].kind = References
                            /\ edges[k].attr \in attrs})

LinesOf(edges, n) ==
  LET l == CHOOSE x \in LinkOf(n.type) : TRUE
      ends == [from |-> EndEdge(edges, n, l.attrs.from), to |-> EndEdge(edges, n, l.attrs.to)]
  IN  IF LinkOf(n.type) = {} \/ ~({ends.from, ends.to} \subseteq DOMAIN edges) THEN {}
      ELSE {[used |-> {ends.from, ends.to},
             edge |-> [id |-> n.id, kind |-> Link, source |-> edges[ends.from].target,
                       target |-> edges[ends.to].target, attr |-> "", type |-> l.id,
                       name |-> n.name, props |-> DOMAIN n.props]]}

LinksToEdges(d) ==
  LET lines == [k \in DOMAIN d.nodes |-> LinesOf(d.edges, d.nodes[k])]
      drawn == UNION {lines[k] : k \in DOMAIN lines}
      used == UNION {l.used : l \in drawn}
      node == {k \in DOMAIN d.nodes : lines[k] = {}}
      pick(s, keep) == [k \in DOMAIN keep |-> s[keep[k]]]
  IN  [nodes |-> pick(d.nodes, Among([k \in DOMAIN d.nodes |-> k], node)),
       edges |-> pick(d.edges, Among([k \in DOMAIN d.edges |-> k], DOMAIN d.edges \ used))
                 \o SetToSeq({l.edge : l \in drawn})]

(* attachToParents: an attachment or component moves into what it refers   *)
(* to through the attribute the schemas suggest, else into the first thing *)
(* it refers to.                                                           *)
OwnerOf(d, n) ==
  LET type(e) == d.nodes[Node(d, e.target)].type
      owns(e) ==
        /\ e.source = n.id /\ e.kind = References /\ e.target \in Ids(d) \ {n.id}
        /\ ~Entry[type(e)].attachment /\ Entry[type(e)].provider = Entry[n.type].provider
      binds(e) == <<n.type, type(e)>> \in DOMAIN Binds /\ Binds[n.type, type(e)] = e.attr
      refs == SelectSeq(d.edges, owns)
      best == SelectSeq(refs, binds)
  IN  IF best # <<>> THEN best[1].target
      ELSE IF refs # <<>> THEN refs[1].target
      ELSE n.parent

AttachToParents(d) ==
  LET moves(n) == Entry[n.type].attachment \/ Entry[n.type].component
      moved(n) == [n EXCEPT !.parent = OwnerOf(d, n)]
  IN  [d EXCEPT !.nodes = [k \in DOMAIN @ |-> IF moves(@[k]) THEN moved(@[k]) ELSE @[k]]]

(* groupIntoZones: nodes with a zone value are put in zone boxes when      *)
(* their parent holds two zones or more.  A value is the sequence of its   *)
(* pieces; all but the zone must be what the boxes around the node say.    *)
ZoneProp(ze) == CHOOSE p \in Entry[ze].props : TRUE

ZoneTypes == {t \in DOMAIN Authored : Authored[t].kind = "container"
                                      /\ Authored[t].provides # <<>> /\ Authored[t].props # {}}

Piece(d, n, key) ==
  LET path == Chain(d, Walk(d, Parents(d), Node(d, n.id)))
      has == {k \in DOMAIN path : key \in DOMAIN d.nodes[path[k]].props}
  IN  IF has = {} THEN Unset ELSE d.nodes[path[Min(has)]].props[key]

(* Variant: the pieces around the zone are not compared.                   *)
ZonesOfAny(d, n, ze) ==
  {n.props[q[1]][q[2]] : q \in
     {r \in (DOMAIN Entry[ze].provides \cap DOMAIN n.props \cap Entry[n.type].props) \X (1 .. 3) :
        r[2] \in DOMAIN Entry[ze].provides[r[1]]
        /\ Entry[ze].provides[r[1]][r[2]] = ZoneProp(ze)}}

ZonesOf(d, n, ze) ==
  {n.props[q[1]][q[2]] : q \in
     {r \in (DOMAIN Entry[ze].provides \cap DOMAIN n.props \cap Entry[n.type].props) \X (1 .. 3) :
        LET tpl == Entry[ze].provides[r[1]] IN
        /\ r[2] \in DOMAIN tpl /\ tpl[r[2]] = ZoneProp(ze)
        /\ \A k \in DOMAIN tpl \ {r[2]} : n.props[r[1]][k] = Piece(d, n, tpl[k])}}

ZoneOf(d, n) ==
  LET parent == Node(d, n.parent)
      zones == UNION {ZonesOf(d, n, ze) : ze \in ZoneTypes}
      fits == {f \in ZoneTypes \X zones :
                 /\ d.nodes[parent].type \in Entry[f[1]].parents
                 /\ f[2] \in ZonesOf(d, n, f[1])}
  IN  IF parent = 0 \/ Entry[n.type].transparent THEN {} ELSE fits

FindZones(d) == d ++ [zone |-> [k \in DOMAIN d.nodes |-> ZoneOf(d, d.nodes[k])]]

DrawZones(d) ==
  LET in(p) == UNION {d.zone[k] : k \in {m \in DOMAIN d.nodes : d.nodes[m].parent = p}}
      boxed(k) == d.zone[k] # {} /\ Cardinality(in(d.nodes[k].parent)) >= 2
      box(k) == LET z == CHOOSE x \in d.zone[k] : TRUE IN
                [id |-> zoneId(z[1], d.nodes[k].parent, z[2]), type |-> z[1], name |-> z[2],
                 parent |-> d.nodes[k].parent, props |-> ZoneProp(z[1]) :> z[2]]
      moved(k) == IF boxed(k) THEN [d.nodes[k] EXCEPT !.parent = box(k).id] ELSE d.nodes[k]
      boxes == {box(k) : k \in {m \in DOMAIN d.nodes : boxed(m)}}
  IN  [nodes |-> [k \in DOMAIN d.nodes |-> moved(k)] \o SetToSeq(boxes), edges |-> d.edges]

(* Build: the diagram of a state, as the builder it goes through the       *)
(* passes in.  A set of builders stands for all that may come out of the   *)
(* passes before.                                                          *)
Then(pass(_), before) == {pass(b) : b \in before}

WithType(rs) == Among(rs, {r \in Range(rs) : TypeFor(r.tf) # Unset})

Builder(kept, nodes) ==
  [kept |-> kept, nodes |-> nodes, e |-> [k \in DOMAIN nodes |-> Entry[nodes[k].type]],
   by |-> GroupTypes]

Drawing(kept) ==
  Builder(kept, [k \in DOMAIN kept |-> StateNode(kept[k], TypeFor(kept[k].tf))])

WithPrimary(b) ==
  LET idOf(k) == Attr(b.kept[k], ImportOf(b.nodes[k].type).id)
      last(v) == Max({k \in DOMAIN b.kept : idOf(k) = v})
  IN  b ++ [primary |-> [v \in {idOf(k) : k \in DOMAIN b.kept} \ {Unset} |-> b.nodes[last(v)].id]]

Recover(b) ==
  LET raw(k) == k \in DOMAIN b.kept /\ b.nodes[k].type \notin DOMAIN Imports
      refs == [k \in DOMAIN b.nodes |-> IF raw(k) THEN Refers(b.nodes[k], b.primary) ELSE <<>>]
  IN  [nodes |-> [k \in DOMAIN b.nodes |->
                    IF raw(k) THEN Keeping(b.nodes[k], b.primary) ELSE b.nodes[k]],
       edges |-> FlattenSeq([k \in DOMAIN refs |-> ReferencesOf(AttrOrder, b.nodes[k], refs[k])])]

Build(resources) ==
  LET placed == UNION Then(PlaceAll, Then(WithPrimary, Then(Drawing, {WithType(resources)})))
      attached == Then(AttachToParents, Then(LinksToEdges, Then(Recover, placed)))
  IN  Then(DrawZones, Then(FindZones, attached))
-----------------------------------------------------------------------------
(* BuildHCL: the diagram of a configuration.  Every resource becomes an    *)
(* element of its type's schema, a provider block a region in the one      *)
(* account of its provider, which takes the arguments of every block.      *)
GeneratedFor(tf) ==
  LET hits == {t \in DOMAIN Resource : Resource[t].tf = tf} IN
  IF hits = {} THEN Unset ELSE CHOOSE t \in hits : TRUE

Declared(rs) == Among(rs, {r \in Range(rs) : GeneratedFor(r.tf) # Unset})

BlockGroups(by, p) ==
  LET account == IF by["account", p.name] = Unset THEN NoGroup ELSE <<"account", p.name, "", Unset>>
      inside == IF account = NoGroup THEN "" ELSE GroupId(by, account)
      region == IF by["region", p.name] = Unset THEN NoGroup
                ELSE <<"region", p.name, inside, Attr(p, ImportOf(by["region", p.name]).prop)>>
  IN  Among(<<account, region>>, {account, region} \ {NoGroup})

(* A resource lives in the region of its provider block, else in that of   *)
(* the block without an alias.  The last block with an alias is the one    *)
(* that counts, and so is the last that gives an argument.                 *)
AskGroups(b) ==
  b ++ [asked |-> [m \in DOMAIN b.providers |-> BlockGroups(b.by, b.providers[m])]]

RegionOfBlock(b, provider, alias) ==
  LET hits == {m \in DOMAIN b.asked :
                 /\ <<b.providers[m].name, b.providers[m].alias>> = <<provider, alias>>
                 /\ b.by["region", provider] # Unset}
  IN  IF hits = {} THEN "" ELSE GroupId(b.by, Last(b.asked[Max(hits)]))

FindRegions(b) ==
  b ++ [regions |-> [k \in DOMAIN b.kept |->
                       <<RegionOfBlock(b, b.e[k].provider, b.kept[k].alias),
                         RegionOfBlock(b, b.e[k].provider, "")>>]]

WithArgs(n, providers) ==
  LET args == ImportOf(n.type).args
      blocks(a) == {m \in DOMAIN providers : /\ providers[m].name = Entry[n.type].provider
                                             /\ a \in DOMAIN providers[m].attrs}
      given == {a \in DOMAIN args : blocks(a) # {}}
      arg(p) == CHOOSE a \in given : args[a] = p
      taken == [p \in {args[a] : a \in given} |-> providers[Max(blocks(arg(p)))].attrs[arg(p)]]
  IN  [n EXCEPT !.props = taken ++ @]

(* A resource that has no region is put in a group without a value.  Then  *)
(* the parent is assigned through a pointer taken before the group was     *)
(* appended: when that moved the slice of nodes, which doubles, the        *)
(* assignment is to the array that was left behind.                        *)
Full(len) == len \in {2 ^ k : k \in 0 .. 8}

(* Variant: the group is looked for first.                                 *)
HousedInPlace(out, k, in, len) == Grouped(out, k, in)

Housed(out, k, in, len) ==
  LET moved == Full(len + Len(out.groups)) /\ ~(Range(in.asked) \subseteq Range(out.groups)) IN
  Grouped(out, k, IF moved THEN [in EXCEPT !.parent = ""] ELSE in)

Houses(b, out, k) ==
  LET named(region) == region # "" IN
  IF b.regions[k] = <<"", "">>
  THEN {Housed(out, k, in, Len(b.nodes)) :
          in \in GroupParent(b.by, out.groups, [attrs |-> <<>>], b.e[k])}
  ELSE {Grouped(out, k, [asked |-> <<>>, parent |-> SelectSeq(b.regions[k], named)[1]])}

HouseNext(b, before, k) == UNION {Houses(b, out, k) : out \in before}

House(b) ==
  LET groups[m \in 0 .. Len(b.asked)] ==
        IF m = 0 THEN <<>> ELSE Ensure(groups[m - 1], b.asked[m])
      housed[k \in 0 .. Len(b.kept)] ==
        IF k = 0 THEN {[NoParents(b.nodes) EXCEPT !.groups = groups[Len(b.asked)]]}
        ELSE HouseNext(b, housed[k - 1], k)
  IN  {[b EXCEPT !.nodes = WithGroups(b, out)] : out \in housed[Len(b.kept)]}

ApplyArgs(b) == [b EXCEPT !.nodes = [k \in DOMAIN @ |-> WithArgs(@[k], b.providers)]]

(* A reference to what is not imported stays an expression.                *)
HclDrawing(kept) ==
  LET here == {<<kept[k].tf, kept[k].name>> : k \in DOMAIN kept}
      outside(r) == {a \in DOMAIN r.refs : r.refs[a] \notin here}
      props(r) == r.attrs ++ [a \in outside(r) |-> r.refs[a]]
      node(r) == [id |-> nodeId(GeneratedFor(r.tf), <<r.tf, r.name>>), type |-> GeneratedFor(r.tf),
                  name |-> r.name, parent |-> "", props |-> props(r)]
  IN  Builder(kept, [k \in DOMAIN kept |-> node(kept[k])])

(* References within the configuration become edges.  They come out of a   *)
(* Go map, so the attributes are taken in any order.                       *)
HclReferences(b, order) ==
  LET at(a) == {k \in DOMAIN b.kept : <<b.kept[k].tf, b.kept[k].name>> = a}
      target(r) == [a \in {c \in DOMAIN r.refs : at(r.refs[c]) # {}} |->
                      <<b.nodes[Max(at(r.refs[a]))].id>>]
  IN  [nodes |-> b.nodes,
       edges |-> FlattenSeq([k \in DOMAIN b.kept |->
                               ReferencesOf(order, b.nodes[k], target(b.kept[k]))])]

AttrOrders ==
  {[k \in DOMAIN AttrOrder |-> AttrOrder[p[k]]] : p \in Permutations(DOMAIN AttrOrder)}

InAnyOrder(b) == {HclReferences(b, order) : order \in AttrOrders}

BuildHCL(config) ==
  LET drawn == Then(HclDrawing, {Declared(config.resources)})
      read == {b ++ [providers |-> config.providers] : b \in drawn}
      homes == Then(FindRegions, Then(AskGroups, read))
      housed == Then(ApplyArgs, UNION Then(House, homes))
      wired == UNION Then(InAnyOrder, housed)
  IN  Then(AttachToParents, Then(LinksToEdges, wired))
=============================================================================
