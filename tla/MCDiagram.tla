----------------------------- MODULE MCDiagram ------------------------------
(***************************************************************************)
(* A small catalog with one element for every way an element is treated:   *)
(* provider p after the AWS one, q after the Azure one, n neutral.         *)
(***************************************************************************)
EXTENDS Diagram

Leaf == [provider |-> "p", kind |-> "leaf", parents |-> {}, children |-> {},
         transparent |-> FALSE, provides |-> <<>>, role |-> "module", tf |-> "none",
         props |-> {}, required |-> {}, defaults |-> <<>>, needs |-> <<>>, collect |-> {},
         outputs |-> {"id"}, attachment |-> FALSE, component |-> FALSE]

subnets == [input |-> "subnets", type |-> "net", under |-> 2, output |-> "id",
            min |-> 2, distinct |-> "az"]

(* A row per element: what it is besides a leaf without properties.        *)
rows == [
  org |-> [role |-> "none", parents |-> {Root}, outputs |-> {}],
  acc |-> [role |-> "account", parents |-> {Root, "org"}, outputs |-> {},
           props |-> {"account", "profile"}],
  reg |-> [role |-> "region", parents |-> {"acc"}, outputs |-> {}, props |-> {"region"}],
  vpc |-> [parents |-> {"reg"}, props |-> {"cidr"}, required |-> {"cidr"}],
  zone |-> [role |-> "none", parents |-> {"reg", "vpc"}, transparent |-> TRUE,
            props |-> {"suffix"}, outputs |-> {}, provides |-> [az |-> <<"region", "suffix">>]],
  net |-> [parents |-> {"vpc"}, props |-> {"cidr", "az"}, required |-> {"cidr", "az"},
           needs |-> [vpc |-> <<1, "id">>]],
  vm |-> [parents |-> {"net", "reg"}, needs |-> [net |-> <<1, "id">>, vpc |-> <<2, "id">>]],
  db |-> [parents |-> {"net"}, needs |-> [vpc |-> <<2, "id">>], collect |-> {subnets}],
  cdn |-> [parents |-> {"acc", "reg"}],
  sub |-> [role |-> "account", parents |-> {Root}, outputs |-> {}],
  group |-> [parents |-> {"sub"}],
  qvpc |-> [parents |-> {"group"}, props |-> {"cidr"}, needs |-> [group |-> <<1, "id">>]],
  qzone |-> [role |-> "none", parents |-> {"group", "qvpc"}, transparent |-> TRUE, outputs |-> {}],
  qnet |-> [parents |-> {"qvpc"}, props |-> {"cidr"}],
  qvm |-> [parents |-> {"qnet"}],
  frame |-> [role |-> "none", parents |-> {AnyParent}, transparent |-> TRUE, outputs |-> {}],
  user |-> [role |-> "none", parents |-> {AnyParent}, outputs |-> {}]]

MCAuthored ==
  LET provider(t) == CASE t \in {"sub", "group", "qvpc", "qzone", "qnet", "qvm"} -> "q"
                       [] t \in {"frame", "user"} -> "n"
                       [] OTHER -> "p"
      kind(t) == IF t \in {"vm", "db", "cdn", "qvm", "user"} THEN "leaf" ELSE "container"
  IN  [t \in DOMAIN rows |-> rows[t] @@ [provider |-> provider(t), kind |-> kind(t)] @@ Leaf]

MCResource == [
  role |-> [provider |-> "p", tf |-> "role", class |-> "leaf", owners |-> {},
            props |-> {"name", "policy"}, required |-> {"name"}],
  policy |-> [provider |-> "p", tf |-> "policy", class |-> "attachment", owners |-> {"role"},
              props |-> {"name"}, required |-> {}],
  key |-> [provider |-> "p", tf |-> "key", class |-> "member", owners |-> {"acc", "role"},
           props |-> {"name", "role"}, required |-> {"role"}],
  attach |-> [provider |-> "p", tf |-> "attach", class |-> "link", owners |-> {},
              props |-> {"role", "policy"}, required |-> {"role", "policy"}]]

MCRules == {[from |-> "vm", to |-> "db", kind |-> "connects_to", input |-> "clients",
             set |-> "to", value |-> "from", requires |-> <<>>]}
MCLinks == <<[id |-> "attach", tf |-> "attach", provider |-> "p", from |-> {"role"},
              to |-> {"policy"}, required |-> {},
              attrs |-> [from |-> {"role"}, to |-> {"policy"}]]>>

MCAddresses == [all |-> 0 .. 7, low |-> 0 .. 3, high |-> 4 .. 7, bad |-> {}, a |-> {}, b |-> {}]
MCCounterparts == [vpc |-> [p |-> "vpc", q |-> "qvpc"], zone |-> [p |-> "zone", q |-> "qzone"],
                   net |-> [p |-> "net", q |-> "qnet"], vm |-> [p |-> "vm", q |-> "qvm"]]
MCRootChain == [p |-> <<"acc", "reg">>, q |-> <<"sub", "group">>]

MCnameOf(type, name) == type \o "." \o name

(* What a name is after sanitize: two names become one, and what has a dot *)
(* in it, the address of a resource, becomes another.                      *)
names == {"f", "h", "k", "m", "n1", "p", "t", "w", "x", "x_1", "y", "P", "R", "T"}
address == [p \in (DOMAIN MCResource) \X names |-> MCnameOf(p[1], p[2])]
addresses == Range(address)
undotted(x) == LET p == CHOOSE q \in DOMAIN address : address[q] = x IN p[1] \o "_" \o p[2]
MCsanitize(x) == IF x = "x-1" THEN "x_1" ELSE IF x \in addresses THEN undotted(x) ELSE x

(* Two ids that begin with the same six letters and digits.                *)
MCshort(id) == IF id \in {"accoun-1", "accoun-2"} THEN "accoun" ELSE id
MCchainId(type, root) == type \o "-" \o root

N(id, type, parent) == [id |-> id, type |-> type, name |-> id, parent |-> parent, props |-> <<>>]
With(n, props) == [n EXCEPT !.props = props]
E(id, kind, from, to) ==
  [id |-> id, kind |-> kind, source |-> from, target |-> to,
   attr |-> "", type |-> "", name |-> "", props |-> {}]

(* What there is to import: a network with subnets in two zones, one with  *)
(* a subnet of another region, and resources the catalog has no element    *)
(* for, as a state and as a configuration, with and without providers.     *)
MCImports == [
  acc |-> [NoImport EXCEPT !.from = "account", !.prop = "account", !.args = [profile |-> "profile"]],
  reg |-> [NoImport EXCEPT !.from = "region", !.prop = "region"],
  vpc |-> [NoImport EXCEPT !.resource = "tvpc", !.props = [cidr |-> "cidr"]],
  net |-> [NoImport EXCEPT !.resource = "tnet", !.parent = "in",
                           !.props = [cidr |-> "cidr", az |-> "zone"]],
  vm |-> [NoImport EXCEPT !.resource = "tvm", !.parent = "in"]]
MCBinds == (<<"policy", "role">> :> "role") @@ (<<"key", "role">> :> "role")
MCParentOrder == <<"acc", "reg", "vpc", "net">>
MCAttrOrder == <<"name", "policy", "role">>
MCElements == [both |-> <<"P", "R">>, some |-> <<"R", "x">>, rest |-> <<"x">>]

State(tf, name, module, attrs) ==
  [address |-> name, module |-> module, tf |-> tf, name |-> name, attrs |-> attrs]
Net(id, cidr, zone) ==
  State("tnet", id, "", [id |-> id, in |-> "V", cidr |-> cidr, zone |-> zone])
tvpc == State("tvpc", "this", "v", [id |-> "V", cidr |-> "all", account |-> "1", region |-> "west"])
MCStates == {
  <<tvpc, Net("A", "low", <<"west", "a">>), Net("B", "high", <<"west", "b">>),
    State("tvm", "C", "", [id |-> "C", in |-> "A"]), State("other", "D", "", <<>>)>>,
  <<Net("A", "low", <<"west", "a">>), Net("B", "high", <<"east", "b">>), tvpc>>,
  <<State("role", "R", "", [id |-> "R", name |-> "R", account |-> "1", region |-> "west"]),
    State("policy", "P", "", [id |-> "P", name |-> "R", account |-> "1"]),
    State("attach", "T", "", [id |-> "T", role |-> "R", policy |-> "P"]),
    State("key", "K", "", [id |-> "K", name |-> "some", role |-> "both"])>>}

Declare(tf, name, attrs, refs) ==
  [tf |-> tf, name |-> name, attrs |-> attrs, refs |-> refs, alias |-> ""]
ProviderBlock(alias, region) ==
  [name |-> "p", alias |-> alias, attrs |-> [region |-> region, profile |-> alias]]
iam == <<Declare("attach", "t", <<>>, [role |-> <<"role", "x-1">>, policy |-> <<"policy", "p">>]),
         [Declare("key", "k", <<>>, [role |-> <<"role", "x-1">>, name |-> <<"role", "x-1">>])
            EXCEPT !.alias = "second"],
         Declare("policy", "p", [name |-> "p"], [role |-> <<"role", "gone">>]),
         Declare("role", "x-1", [name |-> "x"], <<>>)>>
MCConfigurations ==
  {[resources |-> iam, providers |-> ps] :
     ps \in {<<>>, <<ProviderBlock("", "west"), ProviderBlock("second", "east")>>}}
  \cup {[resources |-> <<Declare("role", "x-1", <<>>, <<>>)>>, providers |-> <<>>]}

(* Ids are told apart by what they are made from.                          *)
MCnodeId(type, of) ==
  CASE type = "acc" -> "acc-" \o ToString(of[4])
    [] type = "reg" -> "reg-" \o of[3] \o "-" \o ToString(of[4])
    [] type \in {"vpc", "net", "vm"} -> of
    [] OTHER -> type
MCedgeId(from, attr, to) == from \o ":" \o attr
MCzoneId(type, parent, zone) == type \o "-" \o parent \o "-" \o zone

drawnIds == <<"a", "a2", "accoun-1", "accoun-2", "c", "d", "g", "m", "n1", "n2", "n3", "o", "r", "r2", "s", "u", "v", "w",
              "x-1", "y", "z", "A", "B", "C", "this", "zone-this-a", "zone-this-b",
              "role", "policy", "attach", "key">>
groupIds ==
  LET acc == [v \in 1 .. 2 |-> MCnodeId("acc", <<"", "", "", <<"1", Unset>>[v]>>)]
      reg(v, r) == MCnodeId("reg", <<"", "", acc[v], r>>)
  IN  acc \o <<reg(1, "west"), reg(2, "west"), reg(2, "east")>>
ids == drawnIds \o groupIds
chainIds(type) == [k \in DOMAIN ids |-> MCchainId(type, MCshort(ids[k]))]
edgeIds == FlattenSeq([k \in DOMAIN MCAttrOrder |->
             [m \in DOMAIN ids |-> MCedgeId(ids[m], MCAttrOrder[k], "")]])
MCIdOrder == ids \o chainIds("group") \o chainIds("sub") \o <<"e", "f", "h", "k", "l">> \o edgeIds

(* A database in the two subnets of a network, one in a zone box.          *)
database == [nodes |-> <<N("a", "acc", ""), N("d", "db", "n1"),
                         With(N("n1", "net", "z"), [cidr |-> "low"]),
                         With(N("n2", "net", "v"), [cidr |-> "high", az |-> <<"west", "b">>]),
                         With(N("r", "reg", "a"), [region |-> "west"]), N("s", "vm", "n2"),
                         With(N("v", "vpc", "r"), [cidr |-> "all"]),
                         With(N("z", "zone", "v"), [suffix |-> "a"])>>,
             edges |-> <<E("e", "connects_to", "s", "d")>>]

(* Two accounts, one with a region.                                        *)
accounts == [nodes |-> <<N("a", "acc", ""), N("a2", "acc", ""), N("c", "cdn", "a2"),
                         N("r", "reg", "a"), N("r2", "reg", "a2"), N("u", "user", "")>>,
             edges |-> <<E("e", "flow", "u", "c")>>]

(* Resources: a role and its policy, what joins them, a key with the role. *)
resources == [nodes |-> <<N("a", "acc", "o"), N("g", "frame", "a"), N("m", "policy", "a"),
                          N("o", "org", ""), N("w", "key", "a"), N("x-1", "role", "g")>>,
              edges |-> <<[E("e", "references", "w", "x-1") EXCEPT !.attr = "role"],
                          E("f", "link", "x-1", "m")>>]
(* A network in each of two accounts, with the ids the canvas gives them,  *)
(* and a drawn user of one.                                                *)
twoAccounts ==
  [nodes |-> <<N("accoun-1", "acc", ""), N("accoun-2", "acc", ""),
               With(N("n1", "vpc", "r2"), [cidr |-> "low"]), N("r", "reg", "accoun-1"),
               N("r2", "reg", "accoun-2"), N("u", "user", ""),
               With(N("v", "vpc", "r"), [cidr |-> "low"])>>,
   edges |-> <<E("e", "flow", "u", "v")>>]
MCTwoAccounts == {twoAccounts}

MCDocuments == {database, accounts, resources, twoAccounts, Blank}

MCNewNodes == {[N("y", "role", "o") EXCEPT !.name = "x-1"],
               [N("y", "role", "a") EXCEPT !.name = "x_1"],
               With(N("n3", "net", "v"), [cidr |-> "low", az |-> <<"west", "a">>])}
MCNewEdges == {[E("h", "link", "m", "x-1") EXCEPT !.name = "f"],
               [E("k", "references", "x-1", "g") EXCEPT !.attr = "policy"],
               E("k", "flow", "n1", "d"), E("l", "flow", "r", "gone")}
MCNames == {"x-1", "x_1", "n1"}
MCValues == [cidr |-> {"low", "all", "bad"}, az |-> {<<"west", "a">>, <<"west", "b">>}]
=============================================================================
