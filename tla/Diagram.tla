------------------------------ MODULE Diagram -------------------------------
(***************************************************************************)
(* The life of one diagram: it is drawn or imported, edited and saved,     *)
(* validated, generated, planned, applied and rewritten for another        *)
(* provider.  Every step is one handler of src/internal/server or one      *)
(* command of src/internal/cli, run to its end; what happens when they     *)
(* overlap is the subject of PlanServer and DocSave.  What each of them    *)
(* computes is in the module of that name: Validation, Generation,         *)
(* Summary, Conversion, Importer.                                          *)
(***************************************************************************)
EXTENDS Generation, Conversion, Summary, Importer

CONSTANTS
  Documents,       \* the diagrams to begin with
  IdOrder,         \* the ids there are, in the order nodes are sorted in
  NewNodes,        \* nodes and edges a user may add
  NewEdges,
  Names,           \* names a node may be given
  Values,          \* [property -> values it may be given]
  Target,          \* the provider to convert to
  MaxEdits         \* bound: edits of one diagram

ASSUME DiagramAssumption ==
  /\ \A d \in Documents : DOMAIN d = {"nodes", "edges"} /\ IsList(d.nodes) /\ IsList(d.edges)
  /\ Target \in DOMAIN RootChain /\ IsList(IdOrder)

VARIABLES
  doc,             \* the saved diagram
  index,           \* what every handler first makes of it, kept beside it
  problems,        \* the answer of the last validation of it
  built,           \* what the plan of it generated, Failed when it could not
  deployed,        \* the blocks in the Terraform state
  outputs,         \* ids of the nodes whose outputs were written back
  shown,           \* the plan on the canvas: its changes and their summary
  hung,            \* a handler that does not return holds the lock
  converted,       \* the diagram was rewritten for Target
  source,          \* what the diagram was imported from
  edits

vars == <<doc, index, problems, built, deployed, outputs, shown, hung, converted, source, edits>>

NoPlan == [changes |-> {}, summary |-> Unset]
NotBuilt == [nodes |-> <<>>]
Failed == [nodes |-> <<>>, block |-> <<>>]
NoIndex == [nodes |-> <<>>]
Blank == [nodes |-> <<>>, edges |-> <<>>]
NoSource == [kind |-> "drawn"]
Errors(found) == {p \in found : p.level = "error"}

(* normalize, on every Encode: nodes and edges are sorted by id.           *)
Ranks ==
  LET order == IdOrder IN [id \in Range(order) |-> CHOOSE r \in DOMAIN order : order[r] = id]
Rank(n) == IF n.id \in DOMAIN Ranks THEN Ranks[n.id] ELSE 0
Before(s, i, j) == Rank(s[i]) < Rank(s[j]) \/ (Rank(s[i]) = Rank(s[j]) /\ i < j)
Positions(s) == [i \in DOMAIN s |-> Cardinality({j \in DOMAIN s : Before(s, j, i)}) + 1]
Sorted(s) ==
  LET places == Positions(s) IN [k \in DOMAIN s |-> s[CHOOSE i \in DOMAIN s : places[i] = k]]

Encode(d) == [nodes |-> Sorted(d.nodes), edges |-> Sorted(d.edges)]

Init ==
  /\ doc \in Documents
  /\ index = NoIndex /\ problems = {}
  /\ built = NotBuilt
  /\ deployed = {} /\ outputs = {} /\ shown = NoPlan
  /\ hung = FALSE /\ converted = FALSE /\ source = NoSource /\ edits = 0

(* The documents one change away.                                          *)

WithProp(props, p, v) ==
  [q \in (DOMAIN props \cup {p}) \ (IF v = Unset THEN {p} ELSE {}) |->
     IF q = p THEN v ELSE props[q]]

Without(d, i) ==
  LET apart == {e \in Range(d.edges) : d.nodes[i].id \notin {e.source, e.target}} IN
  [nodes |-> RemoveAt(d.nodes, i), edges |-> Among(d.edges, apart)]

Moves(d, i) == {[d EXCEPT !.nodes[i].parent = p] : p \in Ids(d) \cup {""}}
Renames(d, i) == {[d EXCEPT !.nodes[i].name = x] : x \in Names}

Settings(d, i, p) ==
  {[d EXCEPT !.nodes[i].props = WithProp(@, p, v)] : v \in Values[p] \cup {Unset}}

Additions(d) == {[d EXCEPT !.nodes = Append(@, n)] : n \in {m \in NewNodes : m.id \notin Ids(d)}}
Removals(d) == {Without(d, i) : i \in DOMAIN d.nodes}

Wirings(d) ==
  {[d EXCEPT !.edges = Append(@, e)] :
     e \in {x \in NewEdges : \A k \in DOMAIN d.edges : d.edges[k].id # x.id}}
  \cup {[d EXCEPT !.edges = RemoveAt(@, k)] : k \in DOMAIN d.edges}

Changes(d) ==
  Additions(d) \cup Removals(d) \cup Wirings(d)
  \cup (UNION {Moves(d, i) \cup Renames(d, i) : i \in DOMAIN d.nodes})
  \cup (UNION {Settings(d, i, p) : i \in DOMAIN d.nodes, p \in DOMAIN Values})

(* PUT /api/document: the file is replaced whatever is in it, and only     *)
(* then validated, under the lock.  A plan on the canvas is of another     *)
(* diagram from here on.                                                   *)
Put ==
  /\ ~hung /\ edits < MaxEdits
  /\ doc' \in {Encode(d) : d \in Changes(doc) \ {doc}}
  /\ edits' = edits + 1
  /\ built' = NotBuilt /\ shown' = NoPlan
  /\ UNCHANGED <<deployed, outputs, converted, source>>

(* A plan: what is in the state and no longer in the configuration is      *)
(* deleted, what is new is created, and one other block may need changes.  *)
(* A module has two resources, so that they may change differently.        *)
ResourcesOf(a) == IF a[1] = "module" THEN {"main", "other"} ELSE {"main"}

Planned(blocks, state, changed) ==
  {[block |-> a[1], resource |-> a[2],
    actions |-> IF a[1] \notin state THEN <<"create">>
                ELSE IF a[1] \notin blocks THEN <<"delete">>
                ELSE IF a[1] # changed THEN <<"no-op">>
                ELSE IF a[2] = "main" THEN <<"delete", "create">>
                ELSE <<"update">>]
     : a \in UNION {{<<b, r>> : r \in ResourcesOf(b)} : b \in blocks \cup state}}

(* POST /api/plan: an invalid diagram and one that does not generate are   *)
(* refused.  What a change is shown on is in the generated result.         *)
Show(changes, g) ==
  shown' = [changes |-> changes, summary |-> Summarize(changes, ModuleToNode(g))]

PlanOf(g) ==
  IF ~Generates(g) THEN built' = Failed /\ shown' = NoPlan
  ELSE /\ built' = g
       /\ \E changed \in (Blocks(g) \cap deployed) \cup {NoAddress} :
            Show(Planned(Blocks(g), deployed, changed), g)

Plan ==
  /\ ~hung /\ index # NoIndex /\ built # Failed /\ shown = NoPlan
  /\ Errors(problems) = {}
  /\ PlanOf(Generation(index))
  /\ UNCHANGED <<doc, index, problems, deployed, outputs, hung, converted, source, edits>>

(* POST /api/apply: the plan is carried out, then the outputs that are     *)
(* found are put on their nodes.                                           *)
Apply ==
  /\ ~hung /\ shown # NoPlan
  /\ deployed' = Blocks(built)
  /\ outputs' = WrittenBack(built)
  /\ shown' = NoPlan
  /\ UNCHANGED <<doc, index, problems, built, hung, converted, source, edits>>

(* iagram convert and POST /api/convert: the rewritten diagram, in a file  *)
(* of its own, with a state of its own.  An edge without an end is a panic *)
(* of the handler.                                                         *)
ConvertFrom(x) == ConvertEnds(x) /\ ~ConvertCrashes(x) /\ doc' = Encode(Convert(x))

ConvertDoc ==
  /\ ~hung /\ index # NoIndex /\ ~converted
  /\ ConvertFrom(Fated(index, Target))
  /\ converted' = TRUE
  /\ built' = NotBuilt /\ deployed' = {} /\ outputs' = {} /\ shown' = NoPlan
  /\ UNCHANGED <<source, edits>>

(* GET /api/document, when the canvas is opened.                           *)
Get ==
  /\ ~hung /\ index = NoIndex /\ doc # Blank
  /\ UNCHANGED <<doc, built, deployed, outputs, shown, converted, source, edits>>

(* POST /api/import, POST /api/import-hcl and iagram import: a diagram of  *)
(* what exists.  The state lists its attributes sorted, the configuration  *)
(* in any order.                                                           *)
ImportState ==
  \E s \in States :
    /\ doc' \in Then(Encode, Build(s))
    /\ source' = [kind |-> "state", of |-> s]

ImportHCL ==
  \E c \in Configurations :
    /\ doc' \in Then(Encode, BuildHCL(c))
    /\ source' = [kind |-> "hcl", of |-> c]

Import ==
  /\ index = NoIndex /\ doc = Blank
  /\ ImportState \/ ImportHCL
  /\ UNCHANGED <<built, deployed, outputs, shown, converted, edits>>

(* What is read or saved is validated; the handler never returns, with the *)
(* lock held, when a walk up the tree does not end.                        *)
Validate ==
  /\ index' = Index(doc')
  /\ hung' = ~Ends(index')
  /\ problems' = IF hung' THEN {} ELSE Problems(index')

Next ==
  \/ (Get \/ Import \/ Put \/ ConvertDoc) /\ Validate
  \/ Plan
  \/ Apply

Spec == Init /\ [][Next]_vars
-----------------------------------------------------------------------------
IsBuilt == built \notin {NotBuilt, Failed}

(* What the validator passes the generator can write, as long as names     *)
(* that differ do so after sanitize, a link edge, whose name the validator *)
(* compares with no other, has a name of its own, and two elements of one  *)
(* Terraform type, the curated and the generated one, have not one name.   *)
NamesOf(x) ==
  {x.nodes[i].id : i \in DOMAIN x.nodes} \cup {x.nodes[i].name : i \in DOMAIN x.nodes}

SharesName(x, k) ==
  /\ x.edges[k].kind = Link
  /\ sanitize(LinkName(x.edges[k])) \in
       {sanitize(x.nodes[i].name) : i \in {j \in DOMAIN x.nodes : RoleOf(x.nodes[j].type) = "resource"}}
       \cup {sanitize(LinkName(x.edges[m])) : m \in {e \in DOMAIN x.edges \ {k} : x.edges[e].kind = Link}}

SameResource(n, m) ==
  /\ n.type # m.type /\ n.name = m.name
  /\ RoleOf(n.type) = "resource" /\ RoleOf(m.type) = "resource"
  /\ Entry[n.type].tf = Entry[m.type].tf

ValidGenerates ==
  built = Failed =>
    \/ \E a, b \in NamesOf(doc) : a # b /\ sanitize(a) = sanitize(b)
    \/ \E k \in DOMAIN doc.edges : SharesName(doc, k)
    \/ \E i, j \in DOMAIN doc.nodes : SameResource(doc.nodes[i], doc.nodes[j])

(* Every reference between the blocks of a valid diagram is to a block     *)
(* that is in the configuration, and is put in one that is.                *)
ReferencesResolve ==
  IsBuilt => \A r \in Refs(built) : {r.in, r.to} \subseteq Blocks(built)

(* What the validator counted below an ancestor, the generator finds there *)
(* too, although each climbs the tree in its own way: an element that has  *)
(* to gather some of a type is given that many.                            *)
GathersEnough ==
  IsBuilt =>
    \A i \in Collecting(built) : \A c \in Entry[doc.nodes[i].type].collect :
      GenAncestorAt(built, i, c.under) # 0 => Cardinality(Collected(built, i, c)) >= c.min

(* Address ranges of a valid diagram are nested as the boxes are: what is  *)
(* anywhere in a box with a range is within it, and nothing in one of two  *)
(* such boxes side by side overlaps anything in the other, whatever zone   *)
(* boxes and groups are drawn around either.                               *)
Upwards(x, i) == {i} \cup Range(x.chain[i])

SideBySide(x, p, q) == p # q /\ {p, q} \subseteq Ranged(x) /\ x.above[p] = x.above[q]

RangesApart ==
  IsBuilt =>
    \A i, j \in Ranged(built) :
      /\ j \in Range(built.chain[i]) => RangeOf(built, i) \subseteq RangeOf(built, j)
      /\ \A p \in Upwards(built, i), q \in Upwards(built, j) :
           SideBySide(built, p, q) => RangeOf(built, i) \cap RangeOf(built, j) = {}

(* A handler only fails to return when the diagram contains itself.        *)
HangsOnCycle == hung => \E i \in DOMAIN doc.nodes : HasCycle(index, i)

(* A block is made with the credentials of the account it is drawn in,     *)
(* except directly in an account that has a region, for which the default  *)
(* provider is used: that one may be of any account.                       *)
AccountOf(x, i) ==
  LET at == {k \in DOMAIN x.above[i] : x.role[x.above[i][k]] = "account"} IN
  IF at = {} THEN 0 ELSE x.above[i][Min(at)]

OwnCredentials ==
  IsBuilt =>
    \A i \in DOMAIN doc.nodes :
      LET a == AccountOf(built, i)
          p == ProviderOf(built, i)
          regions == {j \in DOMAIN built.role : built.role[j] = "region"}
          around == Range(built.above[i]) \cap regions
          inside == {j \in regions : LogicalParent(built, j) = a}
      IN  built.role[i] \in {"module", "resource"} /\ a # 0 /\ (around # {} \/ inside = {})
            => p # 0 /\ a \in {p, AccountOf(built, p)}

(* No resource is destroyed that the canvas does not show as destroyed: on *)
(* its node, or in the list of what no node of the diagram stands for.     *)
Destroys(c) == ActionOf(c.actions) \in {"delete", "replace"}

DestructionShown ==
  \A c \in shown.changes :
    Destroys(c) =>
      \/ c \in shown.summary.orphans
      \/ /\ c.block \in Blocks(built)
         /\ shown.summary.nodes[ModuleToNode(built)[c.block]].action \in {"delete", "replace"}

(* After an apply the outputs of every module that has any are on its      *)
(* node, and on nothing that is not a node.                                *)
OutputsOnNodes ==
  [][ Apply =>
      /\ outputs' \subseteq Ids(doc)
      /\ \A i \in DOMAIN doc.nodes :
           built.role[i] = "module" /\ Entry[doc.nodes[i].type].outputs # {}
             => doc.nodes[i].id \in outputs' ]_vars

(* A configuration that is imported and generated again has the same       *)
(* resources, up to sanitize, with the same references between them.       *)
Imported(kind) == source.kind = kind /\ edits = 0 /\ ~converted

Renamed(a) == <<a[1], sanitize(a[2])>>

ImportRegenerates ==
  Imported("hcl") /\ IsBuilt =>
    LET kept == Declared(source.of.resources)
        address(k) == <<kept[k].tf, kept[k].name>>
        here == {address(k) : k \in DOMAIN kept}
        wired(k, a) == \E r \in Refs(built) :
          /\ r.in = Renamed(address(k)) /\ r.to = Renamed(kept[k].refs[a])
          /\ r.input \in {a, Unset}
    IN  /\ Blocks(built) = {Renamed(a) : a \in here}
        /\ \A k \in DOMAIN kept : \A a \in DOMAIN kept[k].refs :
             kept[k].refs[a] \in here => wired(k, a)

(* The zone boxes an import draws give what they hold the zone it had, and *)
(* nothing that was in another zone or region is put in one.               *)
ZonesAgree ==
  Imported("state") => \A p \in problems : p.what[1] # "box wins"

(* What the importer says of a configuration (hcl.go:346): a resource      *)
(* without a provider block is given an account so that it has a home.     *)
ImportedIsHoused ==
  Imported("hcl") =>
    \A n \in Range(doc.nodes) : n.parent = "" => Entry[n.type].role = "account"

(* Converting a diagram without errors gives one whose nodes have parents  *)
(* that are there and are of the target provider or of none, and whose     *)
(* edges are those that may be drawn.  Nothing is missing from it but      *)
(* accounts and regions, what was reported, and a drawing that no row of   *)
(* the table is about.  Two nodes have one id only where the id of a root  *)
(* container, made of the first six letters and digits of an id, is also   *)
(* that of another or of a copied node.                                    *)
Converts == converted' /\ ~converted

Missing(i) == index.nodes[i].id \notin Ids(doc')

Clashing(x) ==
  LET kept == {i \in DOMAIN x.nodes : Kept(x, i)}
      boxes == (DOMAIN RootChain[x.target]) \X {RootOf(x, i) : i \in kept}
      id(b) == chainId(RootChain[x.target][b[1]], short(b[2]))
      twice == {a \in boxes : \E b \in boxes \ {a} : id(a) = id(b)}
  IN  {id(b) : b \in twice} \cup ({id(b) : b \in boxes} \cap {x.nodes[i].id : i \in kept})

ConvertsSoundly(x) ==
  /\ \A i \in DOMAIN doc'.nodes :
       /\ doc'.nodes[i].parent \in Ids(doc') \cup {""}
       /\ Entry[doc'.nodes[i].type].provider \in Neutral \cup {Target}
  /\ \A i, j \in DOMAIN doc'.nodes :
       doc'.nodes[i].id = doc'.nodes[j].id => i = j \/ doc'.nodes[i].id \in Clashing(x)
  /\ \A i \in DOMAIN doc.nodes :
       Missing(i) =>
         \/ Entry[index.nodes[i].type].role \in {"account", "region"}
         \/ i \in Reported(x) \/ OnlyDrawn(index.nodes[i].type)
  /\ \A k \in DOMAIN doc'.edges :
       {doc'.edges[k].source, doc'.edges[k].target} \cap Clashing(x) = {} =>
         doc'.edges[k].kind = index'.rule[k].kind

ConversionSound ==
  [][ Converts /\ Errors(problems) = {} => ConvertsSoundly(Fated(index, Target)) ]_vars

(* What convert.go:4 says: "Anything without a counterpart is dropped and  *)
(* reported."  An account or region has one, the root chain.               *)
MissingIsReported ==
  [][ Converts /\ Errors(problems) = {} =>
      \A i \in DOMAIN doc.nodes :
        Missing(i) =>
          \/ Entry[index.nodes[i].type].role \in {"account", "region"}
          \/ i \in Reported(Fated(index, Target)) ]_vars

(* And it is a tree: no node that is put in another box comes to contain   *)
(* itself, and no walk of the validator is endless.                        *)
ConversionKeepsTree ==
  [][ Converts /\ Errors(problems) = {} =>
      ~hung' /\ \A i \in DOMAIN doc'.nodes : ~HasCycle(index', i) ]_vars

(* What convert.go:94 says: there is "one chain per source top-level root  *)
(* (account)", so what is kept of two accounts ends up in two.             *)
ChainPerAccount ==
  [][ Converts /\ Errors(problems) = {} =>
      LET x == Fated(index, Target)
          accounts == {i \in DOMAIN x.nodes : RoleOf(x.nodes[i].type) = "account"}
          used == {RootOf(x, i) : i \in {j \in DOMAIN x.nodes : Kept(x, j)}}
                    \cap {x.nodes[i].id : i \in accounts}
          bottoms == {n \in Range(doc'.nodes) : n.type = Last(RootChain[Target])}
      IN  Cardinality({n.id : n \in bottoms}) >= Cardinality(used) ]_vars
=============================================================================
