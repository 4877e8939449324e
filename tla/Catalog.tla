------------------------------ MODULE Catalog -------------------------------
(***************************************************************************)
(* The catalog of src/internal/catalog: what can be drawn, where, and what *)
(* may be connected to what.  Authored elements come from the YAML files,  *)
(* one record each; an element of a Terraform resource type is synthesised *)
(* from the class the registry's schemas give that type.  The catalog is   *)
(* fixed while the program runs, so it is a parameter of the models of     *)
(* validation, generation and conversion.                                  *)
(***************************************************************************)
EXTENDS Naturals, FiniteSets, Sequences, Functions

CONSTANTS
  Authored,      \* [element id -> record], the YAML entries
  Resource,      \* [element id -> record], the resource types of the registry
  Rules,         \* authored connection rules
  Links,         \* sequence of link resources
  Neutral,       \* providers without Terraform: groups, actors, notes
  Root,          \* the canvas as a parent
  AnyParent,     \* "*" in allowed_parents
  Unset          \* no value

(* A function over another one, as @@ of TLC.                              *)
p ++ q == [f \in DOMAIN p \cup DOMAIN q |-> IF f \in DOMAIN p THEN p[f] ELSE q[f]]

IsList(s) == s \in Seq(Range(s))

(* What of a sequence is in a set, in its order.                           *)
Among(s, S) ==
  LET kept[k \in 0 .. Len(s)] ==
        IF k = 0 THEN <<>>
        ELSE IF s[k] \in S THEN Append(kept[k - 1], s[k]) ELSE kept[k - 1]
  IN  kept[Len(s)]

Flow == "flow"
References == "references"
Link == "link"

(* The containers of a provider: a resource may be drawn in any of them.   *)
Boxes(provider) ==
  {t \in DOMAIN Authored : Authored[t].provider = provider /\ Authored[t].kind = "container"}

(* The element of a resource type.  Its class decides how it is drawn: a   *)
(* line, a band across containers, a member of its owner's box, something  *)
(* configured inside its owner, or an ordinary leaf or box.                *)
Generated(t) ==
  LET r == Resource[t] IN
  [provider |-> r.provider, transparent |-> FALSE, children |-> {}, role |-> "resource",
   tf |-> r.tf, props |-> r.props, required |-> r.required, outputs |-> {"id"}, defaults |-> <<>>,
   provides |-> <<>>, needs |-> <<>>, collect |-> {},
   kind |-> IF r.class \in {"span", "box"} THEN "container" ELSE "leaf",
   parents |-> IF r.class = "member" THEN r.owners ELSE Boxes(r.provider),
   attachment |-> r.class = "attachment", component |-> r.class = "member"]

Types == DOMAIN Authored \cup DOMAIN Resource

Known(t) == t \in Types

(* Get *)
Entry == Authored ++ [t \in DOMAIN Resource |-> Generated(t)]

HasTerraform(provider) == provider \notin Neutral

(* CanContain, in the order in which the code decides.                     *)
CanContain(parent, child) ==
  /\ Known(child)
  /\ LET c == Entry[child]
         p == Entry[parent]
     IN  IF c.attachment /\ parent # Root THEN Known(parent) /\ p.provider = c.provider
         ELSE IF c.component THEN parent \in c.parents
         ELSE IF parent = Root THEN c.parents \cap {Root, AnyParent} # {}
         ELSE /\ Known(parent)
              /\ p.kind = "container"
              /\ \/ p.transparent
                 \/ /\ c.parents \cap {parent, AnyParent} # {}
                    /\ p.children # {} => child \in p.children

(* LinkCandidates.  A link joins two resource types, drawn in either       *)
(* direction; each candidate is its id, its type and what it requires.     *)
Candidates(from, to) ==
  LET joins(l) ==
        /\ l.provider = Entry[from].provider
        /\ Entry[from].provider = Entry[to].provider
        /\ \/ Entry[from].tf \in l.from /\ Entry[to].tf \in l.to
           \/ Entry[to].tf \in l.from /\ Entry[from].tf \in l.to
  IN  Among(Links, {l \in Range(Links) : joins(l)})

Bindings == [ends \in Types \X Types |-> Candidates(ends[1], ends[2])]

Joins(from, to) == Known(from) /\ Known(to) /\ Bindings[from, to] # <<>>

(* LinkFor: the link an edge names when it is a candidate, else the first. *)
LinkFor(from, to, id) ==
  LET all == Bindings[from, to]
      hits == Among(all, {l \in Range(all) : l.id = id})
  IN  IF hits # <<>> THEN hits[1] ELSE all[1]

NoRule == [kind |-> Unset, input |-> Unset, set |-> Unset, value |-> Unset, requires |-> <<>>]
Plain(kind) == [NoRule EXCEPT !.kind = kind]

(* Connection: an authored rule, then an arrow of or to something neutral, *)
(* then a link, then a reference from a resource, then an arrow within the *)
(* provider.                                                               *)
AuthoredRule(from, to) == CHOOSE r \in Rules : r.from = from /\ r.to = to

RuleFor(from, to) ==
  LET f == Entry[from]
      t == Entry[to]
  IN  IF \E r \in Rules : r.from = from /\ r.to = to THEN AuthoredRule(from, to)
      ELSE IF {f.provider, t.provider} \cap Neutral # {} THEN Plain(Flow)
      ELSE IF Joins(from, to) THEN Plain(Link)
      ELSE IF f.provider # t.provider THEN NoRule
      ELSE IF f.role = "resource" THEN Plain(References)
      ELSE Plain(Flow)

Rule == [ends \in Types \X Types |-> RuleFor(ends[1], ends[2])]

Connection(from, to) == IF Known(from) /\ Known(to) THEN Rule[from, to] ELSE NoRule

Connects(from, to) == Connection(from, to).kind # Unset

(* What compile accepts: parents that exist and are containers, children,  *)
(* gathered types and ends of rules that exist, one rule for a pair.       *)
WellFormed ==
  /\ DOMAIN Authored \cap DOMAIN Resource = {}
  /\ \A t \in DOMAIN Authored :
       LET e == Authored[t] IN
       /\ e.kind \in {"leaf", "container"}
       /\ e.parents # {}
       /\ \A p \in e.parents \ {Root, AnyParent} :
            p \in DOMAIN Authored /\ Authored[p].kind = "container"
       /\ e.children \subseteq DOMAIN Authored
       /\ \A c \in e.collect : c.type \in DOMAIN Authored
  /\ \A r \in Rules :
       /\ {r.from, r.to} \subseteq DOMAIN Authored
       /\ \A s \in Rules : r.from = s.from /\ r.to = s.to => r = s
       /\ r.input # Unset => r.set \in {"from", "to"} /\ r.value \in {"from", "to"}

ASSUME CatalogAssumption == WellFormed
=============================================================================
