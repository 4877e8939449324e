----------------------------- MODULE Generation -----------------------------
(***************************************************************************)
(* generate.Run of src/internal/generate/generate.go: the blocks of the    *)
(* Terraform configuration of a document, the references between them, and *)
(* what the apply job and the plan summary look up in the result.          *)
(*                                                                         *)
(* A block is an address.  A module block is named by the node's id, a     *)
(* resource block by the node's or the link's name, both after sanitize,   *)
(* which maps many names to one.                                           *)
(***************************************************************************)
EXTENDS Validation

CONSTANTS
  sanitize(_),      \* id, name or address -> Terraform identifier
  nameOf(_, _)      \* the address of a resource as one name

NoAddress == <<"none", Unset>>

RoleOf(type) == IF Known(type) THEN Entry[type].role ELSE "none"

(* What the catalog files keep to, though nothing looks at it when they    *)
(* are read: what is gathered is a module, and so are the ends of a rule   *)
(* with an input; a resource has a Terraform type.                         *)
ASSUME GenerationAssumption ==
  /\ \A t \in Types : \A c \in Entry[t].collect : RoleOf(c.type) = "module" /\ c.min \in Nat
  /\ \A r \in Rules : r.input # Unset => RoleOf(r.from) = "module" /\ RoleOf(r.to) = "module"
  /\ \A t \in Types : Entry[t].role = "resource" => Entry[t].tf \notin {"module", "none"}
  /\ IsList(Links) /\ \A l \in Range(Links) : l.tf \notin {"module", "none"}

(* And where accounts are: an element says it is in boxes of its own       *)
(* provider, and an account in no box but such as an organization, which   *)
(* are in no account and in no region themselves.                          *)
IsDrawnIn(t, S) ==
  /\ ~Entry[t].attachment /\ ~Entry[t].component
  /\ Entry[t].parents \subseteq S \cup {Root}

ASSUME HomeAssumption ==
  /\ Root \notin Types
  /\ \A t \in Types : RoleOf(t) # "none" => HasTerraform(Entry[t].provider)
  /\ \A t \in Types : HasTerraform(Entry[t].provider) =>
       /\ AnyParent \notin Entry[t].parents
       /\ \A p \in Entry[t].parents \cap Types : Entry[p].provider = Entry[t].provider
  /\ \E outer \in SUBSET {t \in DOMAIN Authored :
                           Entry[t].kind = "container" /\ RoleOf(t) \notin {"account", "region"}} :
       \A t \in outer \cup {a \in Types : RoleOf(a) = "account"} : IsDrawnIn(t, outer)

(* gen.address                                                             *)
AddressOf(n) ==
  LET role == RoleOf(n.type) IN
  CASE role = "module" -> <<"module", sanitize(n.id)>>
    [] role = "resource" -> <<Entry[n.type].tf, sanitize(n.name)>>
    [] OTHER -> NoAddress

(* linkBlocks: the link edges that become resources.  Both ends exist, a   *)
(* link joins them and both have an address.                               *)
BecomesBlock(x, address, k) ==
  /\ x.edges[k].kind = Link /\ 0 \notin {x.src[k], x.dst[k]}
  /\ Joins(x.nodes[x.src[k]].type, x.nodes[x.dst[k]].type)
  /\ NoAddress \notin {address[x.src[k]], address[x.dst[k]]}

LinkName(e) == IF e.name = "" THEN e.id ELSE e.name

LinkAddress(x, k) ==
  LET e == x.edges[k] IN
  <<LinkFor(x.nodes[x.src[k]].type, x.nodes[x.dst[k]].type, e.type).tf,
    sanitize(LinkName(e))>>

(* Variant: accounts get no provider block.                                *)
AliasedRegions(x, role) == {i \in DOMAIN role : role[i] = "region"}

(* An indexed document with what it generates: the address of every node,  *)
(* and the owner of every block, which is a node or a link edge.  aliased  *)
(* are the regions and accounts with a provider block of their own: an     *)
(* account has one unless a region is drawn directly inside.               *)
Owners(x, address) ==
  {<<"node", i>> : i \in {j \in DOMAIN address : address[j] # NoAddress}}
  \cup {<<"edge", k>> : k \in {m \in DOMAIN x.edges : BecomesBlock(x, address, m)}}

Aliased(x, role) ==
  LET regions == {i \in DOMAIN role : role[i] = "region"}
      inside == {LogicalParent(x, i) : i \in regions}
  IN  regions \cup {i \in DOMAIN role : role[i] = "account" /\ i \notin inside}

WithBlocks(x, address, role) ==
  x ++ [address |-> address, role |-> role, aliased |-> Aliased(x, role),
        block |-> [o \in Owners(x, address) |->
                     IF o[1] = "node" THEN address[o[2]] ELSE LinkAddress(x, o[2])]]

Generation(x) ==
  WithBlocks(x, [i \in DOMAIN x.nodes |-> AddressOf(x.nodes[i])],
                [i \in DOMAIN x.nodes |-> RoleOf(x.nodes[i].type)])

Blocks(g) == {g.block[o] : o \in DOMAIN g.block}

(* Run fails when a type is unknown or two owners come to one address.     *)
Generates(g) ==
  /\ \A i \in DOMAIN g.nodes : Known(g.nodes[i].type)
  /\ IsInjective(g.block)

(* The provider of a node, as the region or account whose arguments its    *)
(* provider block was made from.  providerAlias finds the nearest one      *)
(* around the node that has a block of its own; what finds none uses the   *)
(* default block of the provider, a copy of the first block made.          *)
Default(g, provider) ==
  LET made(role) == {i \in g.aliased : g.role[i] = role /\ Entry[g.nodes[i].type].provider = provider}
  IN  IF made("region") # {} THEN Min(made("region"))
      ELSE IF made("account") # {} THEN Min(made("account"))
      ELSE 0

ProviderOf(g, i) ==
  LET a == g.above[i]
      p == Entry[g.nodes[i].type].provider
      fits == {k \in DOMAIN a : a[k] \in g.aliased /\ Entry[g.nodes[a[k]].type].provider = p}
  IN  IF fits # {} THEN a[Min(fits)] ELSE Default(g, p)

(* A reference: the block and input it is put in, the block and output it  *)
(* refers to.                                                              *)
Ref(in, input, to, output) == [in |-> in, input |-> input, to |-> to, output |-> output]

(* Variant: what has no address is referred to all the same.               *)
FromAnyAbove(g, i) ==
  LET needs == Entry[g.nodes[i].type].needs
      anc(input) == GenAncestorAt(g, i, needs[input][1])
  IN  {Ref(g.address[i], input, g.address[anc(input)], needs[input][2]) :
         input \in {p \in DOMAIN needs : anc(p) # 0}}

(* Inputs taken from containers, and from what is gathered below one.      *)
FromAbove(g, i) ==
  LET needs == Entry[g.nodes[i].type].needs
      anc(input) == GenAncestorAt(g, i, needs[input][1])
      addressed == {input \in DOMAIN needs : anc(input) # 0 /\ g.address[anc(input)] # NoAddress}
  IN  {Ref(g.address[i], input, g.address[anc(input)], needs[input][2]) : input \in addressed}

Collected(g, i, c) ==
  LET anc == GenAncestorAt(g, i, c.under) IN
  IF anc = 0 THEN {}
  ELSE {j \in DOMAIN g.nodes : g.nodes[j].type = c.type /\ GenIsUnder(g, j, anc)}

FromBelow(g, i) ==
  UNION {{Ref(g.address[i], c.input, <<"module", sanitize(g.nodes[j].id)>>, c.output) :
            j \in Collected(g, i, c)} : c \in Entry[g.nodes[i].type].collect}

(* edgeWiring: an edge whose types have a rule with a meaning in Terraform *)
(* puts an output of one end in an input of the other, if that is a        *)
(* module.  The kind of the edge is not looked at.                         *)
EndModule(e, side) == <<"module", sanitize(IF side = "from" THEN e.source ELSE e.target)>>

ByRule(g, e, rule) ==
  IF rule.input = Unset THEN {}
  ELSE IF EndModule(e, rule.set) \notin Blocks(g) THEN {}
  ELSE {Ref(EndModule(e, rule.set), rule.input, EndModule(e, rule.value), Unset)}

(* referenceWiring: an attribute of a resource takes what it refers to.    *)
ByReference(g, e, s, t) ==
  IF e.kind # References \/ e.attr = "" \/ 0 \in {s, t} THEN {}
  ELSE IF g.role[s] # "resource" \/ g.address[t] = NoAddress THEN {}
  ELSE {Ref(g.address[s], e.attr, g.address[t], Unset)}

ByLink(g, k) ==
  IF <<"edge", k>> \notin DOMAIN g.block THEN {}
  ELSE {Ref(g.block[<<"edge", k>>], Unset, g.address[i], Unset) : i \in {g.src[k], g.dst[k]}}

RefsAlong(g, k) ==
  ByRule(g, g.edges[k], g.rule[k]) \cup ByReference(g, g.edges[k], g.src[k], g.dst[k]) \cup ByLink(g, k)

Refs(g) ==
  (UNION {FromAbove(g, i) : i \in {j \in DOMAIN g.nodes : g.address[j] # NoAddress}})
  \cup (UNION {FromBelow(g, i) : i \in {j \in DOMAIN g.nodes : g.role[j] = "module"}})
  \cup (UNION {RefsAlong(g, k) : k \in DOMAIN g.edges})

(* ModuleToNode: what a block is shown on.                                 *)
ModuleToNode(g) ==
  LET owner(a) == CHOOSE o \in DOMAIN g.block : g.block[o] = a
      id(o) == IF o[1] = "node" THEN g.nodes[o[2]].id ELSE g.edges[o[2]].id
  IN  [a \in Blocks(g) |-> id(owner(a))]

(* Variant: every output is named by its address.                          *)
OutputByAddress(a) == sanitize(nameOf(a[1], a[2]))

(* assemble: the root outputs, each under one identifier.  A module's is   *)
(* its name, a resource's its address, again after sanitize.               *)
OutputName(a) == IF a[1] = "module" THEN a[2] ELSE sanitize(nameOf(a[1], a[2]))

RootOutputs(g) ==
  {OutputName(g.address[i]) : i \in {j \in DOMAIN g.nodes :
     \/ g.role[j] = "resource"
     \/ g.role[j] = "module" /\ Entry[g.nodes[j].type].outputs # {}}}

(* Apply looks for the outputs of a node under its key in ModuleToNode,    *)
(* WriteOutputs puts what it finds on the node.                            *)
LookupName(a) == IF a[1] = "module" THEN a[2] ELSE nameOf(a[1], a[2])

WrittenBack(g) ==
  LET found == {a \in Blocks(g) : LookupName(a) \in RootOutputs(g)}
      node == ModuleToNode(g)
  IN  {node[a] : a \in found}
=============================================================================
