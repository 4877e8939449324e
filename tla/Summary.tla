------------------------------ MODULE Summary -------------------------------
(***************************************************************************)
(* tofu.Summarize of src/internal/tofu/summary.go: a plan of resources     *)
(* reduced to one action per node of the diagram.                          *)
(*                                                                         *)
(* A change is a resource of a block: the block's address, which of its    *)
(* resources it is, and what tofu is to do with it.                        *)
(***************************************************************************)
EXTENDS Naturals, FiniteSets, FiniteSetsExt

Action == {"no-op", "read", "create", "update", "replace", "delete"}

(* actionOf reads the list of actions of a change.  A replacement is a     *)
(* deletion and a creation, in either order.                               *)
ActionOf(actions) ==
  CASE actions \in {<<"delete", "create">>, <<"create", "delete">>} -> "replace"
    [] actions \in {<<a>> : a \in {"create", "delete", "update", "read"}} -> actions[1]
    [] OTHER -> "no-op"

(* Variant: actions in the order tofu counts them.                         *)
severityByCount(a) ==
  CASE a = "delete" -> 5 [] a = "update" -> 4 [] a = "replace" -> 3
    [] a = "create" -> 2 [] a = "read" -> 1 [] OTHER -> 0

severity(a) ==
  CASE a = "delete" -> 5 [] a = "replace" -> 4 [] a = "update" -> 3
    [] a = "create" -> 2 [] a = "read" -> 1 [] OTHER -> 0

Count(changes, actions) ==
  Cardinality({c \in changes : ActionOf(c.actions) \in actions})

(* moduleToNode is keyed by module name and by resource address; a change  *)
(* whose block it does not know is an orphan unless it is a no-op.         *)
Mapped(changes, moduleToNode) == {c \in changes : c.block \in DOMAIN moduleToNode}

WorstOf(changes) ==
  CHOOSE a \in {ActionOf(c.actions) : c \in changes} :
    \A c \in changes : severity(ActionOf(c.actions)) <= severity(a)

Summarize(changes, moduleToNode) ==
  LET mapped == Mapped(changes, moduleToNode)
      on(n) == {c \in mapped : moduleToNode[c.block] = n}
  IN  [add |-> Count(changes, {"create", "replace"}),
       change |-> Count(changes, {"update"}),
       destroy |-> Count(changes, {"delete", "replace"}),
       nodes |-> [n \in {moduleToNode[c.block] : c \in mapped} |->
                    [action |-> WorstOf(on(n)), resources |-> on(n)]],
       orphans |-> {c \in changes \ mapped : ActionOf(c.actions) # "no-op"}]
=============================================================================
