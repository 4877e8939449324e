----------------------------- MODULE Validation -----------------------------
(***************************************************************************)
(* validate.Run of src/internal/validate/validate.go: the problems of a    *)
(* document.  Each pass is a set of problems; a problem is its level, the  *)
(* node or edge it is anchored to (by position) and what is wrong.         *)
(*                                                                         *)
(* Values are compared and looked up, never computed with, except for      *)
(* address ranges: Addresses maps a value to the set it stands for.        *)
(***************************************************************************)
EXTENDS Containment

CONSTANTS
  Cidr,          \* the property that holds an address range
  Addresses      \* [Value -> SUBSET Nat], {} for what does not parse

(* An address range is contiguous.                                         *)
ASSUME AddressAssumption ==
  \A v \in DOMAIN Addresses :
    /\ Addresses[v] \subseteq Nat
    /\ Addresses[v] # {} => \E a, b \in Addresses[v] : Addresses[v] = a .. b

AddressesOf(v) == IF v \in DOMAIN Addresses THEN Addresses[v] ELSE {}

Problem(level, at, what) == [level |-> level, at |-> at, what |-> what]
NodeError(i, what) == Problem("error", <<"node", i>>, what)
EdgeError(k, what) == Problem("error", <<"edge", k>>, what)

Prop(x, i, p) == IF p \in DOMAIN x.nodes[i].props THEN x.nodes[i].props[p] ELSE Unset

(* The value of a property, or the default its schema gives it.            *)
ValueOf(x, i, p) ==
  LET defaults == Entry[x.nodes[i].type].defaults
      own == Prop(x, i, p)
  IN  IF own = Unset /\ p \in DOMAIN defaults THEN defaults[p] ELSE own

(* Variant: every name is compared among siblings only.                    *)
ScopeOfSiblings(x, i) == <<x.nodes[i].type, LogicalParent(x, i)>>

(* A generated resource is addressed by its name within its type, anything *)
(* else by its id, so names of the latter only differ among siblings.      *)
Scope(x, i) ==
  LET t == x.nodes[i].type IN
  IF Entry[t].role = "resource" THEN <<t>> ELSE <<t, LogicalParent(x, i)>>

SameName(x, i, j) ==
  /\ Known(x.nodes[j].type)
  /\ x.nodes[i].name = x.nodes[j].name /\ Scope(x, i) = Scope(x, j)

When(cond, problem) == IF cond THEN {problem} ELSE {}

(* The first node of every name is the one the later ones clash with; a    *)
(* node of unknown type, or without its parent, is looked at no further.   *)
StructureOf(x, i) ==
  LET n == x.nodes[i]
      lp == LogicalParent(x, i)
      given == x.given[i]
      orphan == n.parent # "" /\ Node(x, n.parent) = 0
      wins == {p \in DOMAIN given : Prop(x, i, p) # Unset /\ Prop(x, i, p) # given[p]}
      error(what) == NodeError(i, <<what>>)
      named ==
        IF n.name = "" THEN {error("needs a name")}
        ELSE When(\E j \in 1 .. i - 1 : SameName(x, i, j), error("name used"))
      placed ==
        When(~CanContain(IF lp = 0 THEN Root ELSE x.nodes[lp].type, n.type), error("misplaced"))
        \cup When(HasCycle(x, i), error("cycle"))
        \cup {Problem("warning", <<"node", i>>, <<"box wins", p>>) : p \in wins}
  IN  When(\E j \in 1 .. i - 1 : x.nodes[j].id = n.id, error("duplicate id"))
      \cup IF ~Known(n.type) THEN {error("unknown type")}
           ELSE named \cup IF orphan THEN {error("no parent")} ELSE placed

Structure(x) == UNION {StructureOf(x, i) : i \in DOMAIN x.nodes}

(* Required properties that neither the node, nor a reference, nor a box   *)
(* gives; a generated resource takes its own name.                         *)
PropertiesOf(x, i) ==
  LET e == Entry[x.nodes[i].type]
      bound == {x.edges[k].attr : k \in {m \in DOMAIN x.edges :
                  x.edges[m].kind = References /\ x.edges[m].source = x.nodes[i].id}}
      own == IF e.role = "resource" THEN {"name"} ELSE {}
      missing == e.required \ (bound \cup own \cup DOMAIN x.given[i])
      ranges == {p \in {Cidr} \cap e.props : Prop(x, i, p) # Unset}
  IN  {NodeError(i, <<"required", p>>) : p \in {q \in missing : Prop(x, i, q) = Unset}}
      \cup {Problem("warning", <<"node", i>>, <<"unknown", p>>) :
              p \in DOMAIN x.nodes[i].props \ e.props}
      \cup {NodeError(i, <<"not a range">>) : p \in {q \in ranges : AddressesOf(Prop(x, i, q)) = {}}}

Properties(x) ==
  UNION {PropertiesOf(x, i) : i \in {j \in DOMAIN x.nodes : Known(x.nodes[j].type)}}

(* A link edge names no link, or the one that is chosen, and has what that *)
(* link requires besides its ends.                                         *)
WithLink(e, k, l) ==
  IF e.type \notin {"", l.id} THEN {EdgeError(k, <<"wrong link">>)}
  ELSE {EdgeError(k, <<"required", p>>) : p \in l.required \ e.props}

LinkProblems(e, k, from, to) ==
  IF ~Joins(from, to) THEN {EdgeError(k, <<"no link">>)}
  ELSE WithLink(e, k, LinkFor(from, to, e.type))

(* An edge that is to follow the rule has its kind, and its ends meet the  *)
(* demands of the rule; a reference has an attribute of its source.        *)
RuleProblems(x, k, e, rule) ==
  LET end(r) == IF r[1] = "from" THEN x.src[k] ELSE x.dst[k]
      unmet == {r \in DOMAIN rule.requires : ValueOf(x, end(r), r[2]) # rule.requires[r]}
  IN  When(e.kind # rule.kind, EdgeError(k, <<"wrong kind">>))
      \cup {EdgeError(k, <<"needs", r>>) : r \in unmet}

AttributeProblems(k, e, from) ==
  IF e.attr = "" THEN {Problem("warning", <<"edge", k>>, <<"choose attribute">>)}
  ELSE When(e.attr \notin Entry[from].props, EdgeError(k, <<"no attribute">>))

(* Connections.  A documentation arrow passes as soon as the pair may be   *)
(* connected at all; a link must have one that joins the pair.             *)
EdgeProblems(x, k, e, from, to) ==
  IF x.rule[k].kind = Unset THEN {EdgeError(k, <<"cannot connect">>)}
  ELSE IF e.kind = Flow THEN {}
  ELSE (IF x.rule[k].kind = References THEN AttributeProblems(k, e, from) ELSE {})
       \cup IF e.kind = Link THEN LinkProblems(e, k, from, to)
            ELSE RuleProblems(x, k, e, x.rule[k])

Duplicate(x, k) ==
  \E m \in 1 .. k - 1 : x.src[m] = x.src[k] /\ x.dst[m] = x.dst[k]

Edges(x) ==
  UNION {IF 0 \in {x.src[k], x.dst[k]} THEN {EdgeError(k, <<"missing node">>)}
         ELSE When(Duplicate(x, k), Problem("warning", <<"edge", k>>, <<"duplicate">>))
              \cup EdgeProblems(x, k, x.edges[k], x.nodes[x.src[k]].type, x.nodes[x.dst[k]].type)
         : k \in DOMAIN x.edges}

(* Address ranges: of a node, and the nearest one around it.  The walk to  *)
(* it keeps no set of seen nodes.                                          *)
RangeOf(x, i) ==
  IF i = 0 THEN {} ELSE IF Prop(x, i, Cidr) = Unset THEN {} ELSE AddressesOf(Prop(x, i, Cidr))

Ranged(x) == {i \in DOMAIN x.nodes : RangeOf(x, i) # {}}

NearestRange(x, i) ==
  LET at == {k \in Steps(x) \ {0} : RangeOf(x, x.walk[i][k]) # {}} IN
  IF at = {} THEN {} ELSE RangeOf(x, x.walk[i][Min(at)])

(* A range is contiguous: two overlap when one holds the other's first     *)
(* address, and one is within another when its first and last are.         *)
Overlap(a, b) == Min(b) \in a \/ Min(a) \in b
Within(a, b) == {Min(a), Max(a)} \subseteq b

Cidrs(x) ==
  LET range == [i \in Ranged(x) |-> RangeOf(x, i)]
      around == [i \in Ranged(x) |-> NearestRange(x, i)]
      clash(m, i) == /\ m < i /\ LogicalParent(x, m) = LogicalParent(x, i)
                     /\ Overlap(range[m], range[i])
  IN  {NodeError(i, <<"outside">>) :
         i \in {j \in DOMAIN range : around[j] # {} /\ ~Within(range[j], around[j])}}
      \cup {NodeError(i, <<"overlaps">>) :
              i \in {j \in DOMAIN range : \E m \in DOMAIN range : clash(m, j)}}

(* What an element gathers must be there often enough, and differ.         *)
Gathered(x, anc, type) == {j \in DOMAIN x.nodes : x.nodes[j].type = type /\ IsUnder(x, j, anc)}

Below(x, i, c, anc) ==
  LET found == Gathered(x, anc, c.type)
      counted == IF c.distinct = Unset THEN found ELSE {Prop(x, j, c.distinct) : j \in found}
  IN  anc # 0 /\ Cardinality(counted) < c.min

TooFew(x, i, c) == c.min > 0 /\ Below(x, i, c, AncestorAt(x, i, c.under))

Collecting(x) == {i \in DOMAIN x.nodes :
                    Known(x.nodes[i].type) /\ Entry[x.nodes[i].type].collect # {}}

Collects(x) ==
  UNION {{NodeError(i, <<"collects", c.input>>) :
            c \in {e \in Entry[x.nodes[i].type].collect : TooFew(x, i, e)}} : i \in Collecting(x)}

Problems(x) == Structure(x) \cup Properties(x) \cup Edges(x) \cup Cidrs(x) \cup Collects(x)

(* Whether the walks of Cidrs and Collects, which nothing but the document *)
(* ends, come to an end.                                                   *)
Ends(x) ==
  /\ \A i \in Ranged(x) :
       {k \in Steps(x) \ {0} : x.walk[i][k] = 0 \/ RangeOf(x, x.walk[i][k]) # {}} # {}
  /\ \A i \in Collecting(x) : \A c \in Entry[x.nodes[i].type].collect :
       c.min > 0 => ClimbEnds(x, i, c.under)

(* Result.OK                                                               *)
Valid(x) == Ends(x) /\ {p \in Problems(x) : p.level = "error"} = {}
=============================================================================
